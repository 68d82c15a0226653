---------------------------- MODULE SystemClock ----------------------------
(***************************************************************************)
(* The system clock: SystemTime of lib/SystemTime, the two hardware clocks *)
(* behind it, and the tasks of src/mavlink.cpp and src/logger.cpp that set *)
(* and read it.                                                            *)
(*                                                                         *)
(* The internal RTC holds and advances the time: a second and a fraction   *)
(* of it, which are read one at a time.  The battery-backed DS1307 holds   *)
(* whole seconds and seeds the next boot.  TaskMavlink alone writes: the   *)
(* time a ground station sends, and a periodic reconciliation of the two   *)
(* clocks.  It outranks the tasks that read, so one of these runs only     *)
(* while it waits for a message or for the DS1307; time passes at any      *)
(* step.  RTC.getTime() is taken to succeed once RTC.begin() has run.      *)
(***************************************************************************)
EXTENDS Integers

CONSTANTS
  F,            \* kR64TicksPerSec: fractions in a second
  Oldest,       \* kOldestAcceptable
  Newest,       \* the last second that the boot epoch can hold
  Attempts,     \* how often getUnixTimeUsec() reads before it gives up
  GroundTimes,  \* the times a ground station may send
  Ds1307Times,  \* what the DS1307 may hold at first
  Fitted,       \* whether a DS1307 answers: the possible cases
  MaxStall,     \* bound: the ticks one call of the clock's owner may last
  Drifts,       \* the seconds the DS1307 may gain, or lose, at a time
  MaxTicks,     \* bound: the ticks of a behaviour
  MaxEvents     \* bound: times sent by the ground, restarts, failures of
                \* RTC.setTime(), drifts and calls of sinceBootUsec(), together

ASSUME ClockAssumption ==
  /\ F \in Nat /\ F > 1
  /\ Oldest \in Nat \ {0} /\ Newest \in Nat
  /\ Attempts \in Nat \ {0}
  /\ GroundTimes \subseteq Nat /\ Ds1307Times \subseteq Nat
  /\ Fitted \subseteq BOOLEAN
  /\ MaxStall \in Nat /\ MaxStall < F
  /\ Drifts \subseteq Int
  /\ MaxTicks \in Nat /\ MaxEvents \in Nat

\* SystemTime::Source: a lower value is a better source.
Ground   == 0
Ds1307   == 1
Survived == 2
None     == 3

VARIABLES
  rtc,           \* the internal RTC
  ds,            \* the DS1307
  bootEpoch,     \* _bootEpoch
  source,        \* _source
  foundRunning,  \* _foundRunning
  w,             \* the call the clock's owner is in
  r,             \* a call of sinceBootUsec() by another task
  ideal,         \* history: time since boot, were the clock never set
  ground,        \* history: the last time accepted from the ground, advanced
  count          \* what the bounds bound; history: corrections of this boot

vars == <<rtc, ds, bootEpoch, source, foundRunning, w, r, ideal, ground, count>>
software == <<bootEpoch, source, foundRunning>>

-----------------------------------------------------------------------------
(* Instants *)

Fraction == 0 .. F - 1
Instant  == [sec : Nat, frac : Fraction]

At(sec, frac) == [sec |-> sec, frac |-> frac]

\* Mutation of Ticked: the counter is read a bit too wide.
MutTicked(i) ==
  IF i.frac < F THEN [i EXCEPT !.frac = @ + 1]
                ELSE [i EXCEPT !.sec = @ + 1, !.frac = 0]

\* The same clock one tick later.
Ticked(i) ==
  IF i.frac + 1 < F THEN [i EXCEPT !.frac = @ + 1]
                    ELSE [i EXCEPT !.sec = @ + 1, !.frac = 0]

NotAfter(i, j) == i.sec < j.sec \/ (i.sec = j.sec /\ i.frac <= j.frac)

Plausible(t) == Oldest <= t /\ t <= Newest

Distance(a, b) == IF a < b THEN b - a ELSE a - b

\* One of the events that MaxEvents bounds.
Event ==
  /\ count.events < MaxEvents
  /\ count' = [count EXCEPT !.events = @ + 1]

-----------------------------------------------------------------------------
(* The hardware *)

\* RTC.setTime(): it may or may not restart the fraction.
SetRtc(t) ==
  \E f \in {0, rtc.frac} : rtc' = [running |-> TRUE, sec |-> t, frac |-> f]

\* A tick; no call of the clock's owner outlasts MaxStall of them.
Tick ==
  /\ count.ticks < MaxTicks
  /\ w.pc = "idle" \/ w.stall < MaxStall
  /\ count' = [count EXCEPT !.ticks = @ + 1]
  /\ w' = IF w.pc = "idle" THEN w ELSE [w EXCEPT !.stall = @ + 1]
  /\ rtc' = IF rtc.running THEN Ticked(rtc) ELSE rtc
  /\ ds' = Ticked(ds)
  /\ ideal' = Ticked(ideal)
  /\ ground' = Ticked(ground)
  /\ UNCHANGED <<software, r>>

\* The DS1307 has gained or lost some seconds.
Drift ==
  /\ Event /\ ds.present
  /\ \E d \in Drifts :
       /\ ds.sec + d \in Nat
       /\ ds' = [ds EXCEPT !.sec = @ + d]
       /\ ground' = [ground EXCEPT !.drift = @ + Distance(d, 0)]
  /\ UNCHANGED <<rtc, software, w, r, ideal>>

-----------------------------------------------------------------------------
(* The clock's owner: begin() before the scheduler starts, then TaskMavlink *)

Idle == [pc |-> "idle", from |-> None, target |-> 0, previous |-> 0, stall |-> 0]

Boot == [Idle EXCEPT !.pc = "begin"]

NoRead == [pc |-> "idle", attempt |-> 0, before |-> 0, fraction |-> 0,
           value |-> At(0, 0), start |-> At(0, 0), clean |-> TRUE]

\* What the board finds at its first power-on.
Init ==
  /\ rtc = [running |-> FALSE, sec |-> 0, frac |-> 0]
  /\ \E p \in Fitted, t \in Ds1307Times :
       ds = [present |-> p, sec |-> t, frac |-> 0]
  /\ bootEpoch = 0 /\ source = None /\ foundRunning = FALSE
  /\ w = Boot /\ r = NoRead
  /\ ideal = At(0, 0)
  /\ ground = [settled |-> FALSE, sec |-> 0, frac |-> 0, drift |-> 0]
  /\ count = [ticks |-> 0, events |-> 0, corrections |-> 0]

\* begin(): what the previous boot left, then what the DS1307 holds.
Begin ==
  /\ w.pc = "begin"
  /\ foundRunning' = (rtc.running /\ Plausible(rtc.sec))
  /\ w' = [w EXCEPT !.pc = IF ds.present /\ Plausible(ds.sec) THEN "seed" ELSE "inherit",
                    !.target = ds.sec]
  /\ UNCHANGED <<rtc, ds, bootEpoch, source, r, ideal, ground, count>>

Seed ==
  /\ w.pc = "seed"
  /\ SetRtc(w.target)
  /\ source' = Ds1307
  /\ w' = [w EXCEPT !.pc = "latch"]
  /\ UNCHANGED <<ds, bootEpoch, foundRunning, r, ideal, ground, count>>

SeedFails ==
  /\ w.pc = "seed" /\ Event
  /\ w' = [w EXCEPT !.pc = "inherit"]
  /\ UNCHANGED <<rtc, ds, software, r, ideal, ground>>

\* Mutation of Inherits: a running clock is inherited whatever it says.
MutInherits == rtc.running

\* The running clock counts as a source when its time is plausible.
Inherits == foundRunning

\* Without the DS1307: the clock as it was found, or from the epoch on
\* (setTimeIfNotRunning()).
Inherit ==
  /\ w.pc = "inherit"
  /\ source' = IF Inherits THEN Survived ELSE None
  /\ rtc' = IF Inherits \/ rtc.running
              THEN rtc ELSE [running |-> TRUE, sec |-> 0, frac |-> rtc.frac]
  /\ ground' = [ground EXCEPT !.settled = @ /\ Inherits]
  /\ w' = [w EXCEPT !.pc = "latch"]
  /\ UNCHANGED <<ds, bootEpoch, foundRunning, r, ideal, count>>

Latch ==
  /\ w.pc = "latch"
  /\ bootEpoch' = rtc.sec
  /\ ideal' = At(0, rtc.frac)
  /\ count' = [count EXCEPT !.corrections = 0]
  /\ w' = Idle
  /\ UNCHANGED <<rtc, ds, source, foundRunning, r, ground>>

\* A SYSTEM_TIME message.
Offer(t) ==
  /\ w.pc = "idle" /\ Event
  /\ w' = [Idle EXCEPT !.pc = "set", !.from = Ground, !.target = t]
  /\ UNCHANGED <<rtc, ds, software, r, ideal, ground>>

\* Mutation of Push: the DS1307 seeds, whatever the source.
MutPush ==
  /\ w.pc = "idle" /\ source = Ground /\ ds.present
  /\ w' = [Idle EXCEPT !.pc = "set", !.from = Ds1307, !.target = ds.sec]
  /\ UNCHANGED <<rtc, ds, software, r, ideal, ground, count>>

\* The periodic reconciliation under a clock set by the ground:
\* pushToDs1307(), whose comparison and write are those of setUnixTime().
Push ==
  /\ w.pc = "idle" /\ source = Ground
  /\ ds.present /\ Plausible(rtc.sec)
  /\ w' = [Idle EXCEPT !.pc = "compare", !.from = Ground, !.target = rtc.sec]
  /\ UNCHANGED <<rtc, ds, software, r, ideal, ground, count>>

\* The same under any other: reseedFromDs1307(), which reads the DS1307 first.
Reseed ==
  /\ w.pc = "idle" /\ source # Ground
  /\ ds.present
  /\ w' = [Idle EXCEPT !.pc = "set", !.from = Ds1307, !.target = ds.sec]
  /\ UNCHANGED <<rtc, ds, software, r, ideal, ground, count>>

\* Neither does anything without a DS1307, or with a time it cannot hold.
Skip ==
  /\ w.pc = "idle"
  /\ ~ds.present \/ (source = Ground /\ ~Plausible(rtc.sec))
  /\ UNCHANGED vars

(* setUnixTime() *)

\* An implausible time, or one from a worse source.
Refuse ==
  /\ w.pc = "set"
  /\ ~Plausible(w.target) \/ w.from > source
  /\ w' = Idle
  /\ UNCHANGED <<rtc, ds, software, r, ideal, ground, count>>

Accepts == w.pc = "set" /\ Plausible(w.target) /\ w.from <= source

\* The DS1307 is looked at unless the time came from it.
WritesDs1307 == ds.present /\ w.from # Ds1307

\* Mutation of RepeatWritesDs1307: an equal second never reaches the DS1307.
MutRepeatWritesDs1307 == FALSE

\* On an equal second only a promotion reaches the DS1307.
RepeatWritesDs1307 == w.from # source /\ WritesDs1307

\* The ground's time is the one to keep, from the end of the call on.  What
\* the DS1307 drifts counts from the last look at it.
Accepted(instant, settled, drift) ==
  ground' = IF w.from = Ground
              THEN [settled |-> settled, sec |-> instant.sec,
                    frac |-> instant.frac, drift |-> drift]
              ELSE ground

\* The second the clock already holds.
Repeat ==
  /\ Accepts /\ rtc.sec = w.target
  /\ source' = w.from
  /\ w' = IF RepeatWritesDs1307 THEN [w EXCEPT !.pc = "compare"] ELSE Idle
  /\ Accepted(rtc, ~RepeatWritesDs1307, IF w.from # source THEN 0 ELSE ground.drift)
  /\ UNCHANGED <<rtc, ds, bootEpoch, foundRunning, r, ideal, count>>

\* The reading taken before the scheduler is suspended.
ReadPrevious ==
  /\ Accepts /\ rtc.sec # w.target
  /\ w' = [w EXCEPT !.pc = "correct", !.previous = rtc.sec]
  /\ UNCHANGED <<rtc, ds, software, r, ideal, ground, count>>

\* Mutation of ShiftedEpoch: the correction is not applied to the epoch.
MutShiftedEpoch == bootEpoch

\* Mutation of ShiftedEpoch: it is applied the other way.
MutShiftedBack == bootEpoch - (w.target - w.previous)

\* The boot epoch after a correction.
ShiftedEpoch == bootEpoch + (w.target - w.previous)

\* The clock and the epoch, with the scheduler suspended.
Correct ==
  /\ w.pc = "correct"
  /\ SetRtc(w.target)
  /\ bootEpoch' = ShiftedEpoch
  /\ count' = [count EXCEPT !.corrections = @ + 1]
  /\ r' = [r EXCEPT !.clean = FALSE]
  /\ Accepted(rtc', ~WritesDs1307, 0)
  /\ IF WritesDs1307
       THEN w' = [w EXCEPT !.pc = "compare"] /\ UNCHANGED source
       ELSE w' = Idle /\ source' = w.from
  /\ UNCHANGED <<ds, foundRunning, ideal>>

CorrectFails ==
  /\ w.pc = "correct" /\ Event
  /\ w' = Idle
  /\ UNCHANGED <<rtc, ds, software, r, ideal, ground>>

\* The end of a call that reached the DS1307.
Finish ==
  /\ source' = w.from
  /\ ground' = [ground EXCEPT !.settled = TRUE, !.drift = 0]
  /\ w' = Idle

Compare ==
  /\ w.pc = "compare"
  /\ IF ds.sec = w.target
       THEN Finish
       ELSE w' = [w EXCEPT !.pc = "adjust"] /\ UNCHANGED <<source, ground>>
  /\ UNCHANGED <<rtc, ds, bootEpoch, foundRunning, r, ideal, count>>

Adjust ==
  /\ w.pc = "adjust"
  /\ ds' = [ds EXCEPT !.sec = w.target, !.frac = 0]
  /\ Finish
  /\ UNCHANGED <<rtc, bootEpoch, foundRunning, r, ideal, count>>

-----------------------------------------------------------------------------
(* sinceBootUsec() in another task *)

\* Such a task runs while the owner waits for a message or for the DS1307.
ReaderRuns == w.pc \in {"idle", "compare", "adjust"}

Reading(pc) == ReaderRuns /\ r.pc = pc

UnchangedByReader == UNCHANGED <<rtc, ds, software, w, ideal, ground, count>>

\* getUnixTimeUsec(): the first of its attempts.
StartRead ==
  /\ Reading("idle") \/ Reading("done")
  /\ Event
  /\ r' = [NoRead EXCEPT !.pc = "fraction", !.attempt = 1, !.before = rtc.sec,
                         !.start = At(rtc.sec, rtc.frac)]
  /\ UNCHANGED <<rtc, ds, software, w, ideal, ground>>

ReadBefore ==
  /\ Reading("before")
  /\ r' = [r EXCEPT !.pc = "fraction", !.before = rtc.sec]
  /\ UnchangedByReader

ReadFraction ==
  /\ Reading("fraction")
  /\ r' = [r EXCEPT !.pc = "after", !.fraction = rtc.frac]
  /\ UnchangedByReader

ToEpoch(reading) ==
  [NoRead EXCEPT !.pc = "epoch", !.value = reading, !.start = r.start, !.clean = r.clean]

\* Mutation of SecondHeld: the second is not looked at again.
MutSecondHeld == TRUE

\* A second that held still vouches for the fraction read between.
SecondHeld == rtc.sec = r.before

ReadAfter ==
  /\ Reading("after")
  /\ r' = IF SecondHeld
            THEN ToEpoch(At(r.before, r.fraction))
          ELSE IF r.attempt < Attempts
            THEN [r EXCEPT !.pc = "before", !.attempt = @ + 1]
          ELSE [r EXCEPT !.pc = "whole"]
  /\ UnchangedByReader

\* Whole seconds when every attempt saw the second move.
ReadWhole ==
  /\ Reading("whole")
  /\ r' = ToEpoch(At(rtc.sec, 0))
  /\ UnchangedByReader

\* An instant less the boot epoch, and zero rather than less.
SinceEpoch(i) ==
  IF i.sec >= bootEpoch THEN At(i.sec - bootEpoch, i.frac) ELSE At(0, 0)

ReadEpoch ==
  /\ Reading("epoch")
  /\ r' = [NoRead EXCEPT !.pc = "done", !.value = SinceEpoch(r.value), !.clean = r.clean]
  /\ UnchangedByReader

-----------------------------------------------------------------------------
(* Restarts *)

\* setup() runs again: what SystemTime holds is lost.
Restart ==
  /\ Event
  /\ w' = Boot /\ r' = NoRead
  /\ bootEpoch' = 0 /\ source' = None /\ foundRunning' = FALSE
  /\ UNCHANGED <<ds, ideal>>

\* A reset leaves both clocks running.
Reset == Restart /\ UNCHANGED <<rtc, ground>>

\* A loss of power stops the internal one.
PowerLoss ==
  /\ Restart
  /\ rtc' = [running |-> FALSE, sec |-> 0, frac |-> 0]
  /\ ground' = [ground EXCEPT !.settled = @ /\ ds.present]

-----------------------------------------------------------------------------

BeginSteps == Begin \/ Seed \/ SeedFails \/ Inherit \/ Latch

Reconcile == Push \/ Reseed \/ Skip

SetUnixTime ==
  \/ Refuse \/ Repeat \/ ReadPrevious
  \/ Correct \/ CorrectFails
  \/ Compare \/ Adjust

SinceBoot ==
  \/ StartRead \/ ReadBefore \/ ReadFraction \/ ReadAfter
  \/ ReadWhole \/ ReadEpoch

Next ==
  \/ Tick \/ Drift
  \/ BeginSteps
  \/ \E t \in GroundTimes : Offer(t)
  \/ Reconcile \/ SetUnixTime
  \/ SinceBoot
  \/ Reset \/ PowerLoss

\* setup() and TaskMavlink run on, and the reconciliation comes round.
Fairness == WF_vars(BeginSteps \/ Reconcile \/ SetUnixTime)

Spec == Init /\ [][Next]_vars /\ Fairness

-----------------------------------------------------------------------------
(* Properties *)

Sources == {Ground, Ds1307, Survived, None}

Call == [pc : {"begin", "seed", "inherit", "latch", "idle", "set", "correct",
               "compare", "adjust"},
         from : Sources, target : Nat, previous : Nat, stall : 0 .. MaxStall]

Read == [pc : {"idle", "before", "fraction", "after", "whole", "epoch", "done"},
         attempt : 0 .. Attempts, before : Nat, fraction : Fraction,
         value : Instant, start : Instant, clean : BOOLEAN]

\* Every variable holds what its declaration says.  No attempt of
\* getUnixTimeUsec() is counted beyond the last, no call outlasts its bound,
\* no fraction reaches a second.
TypeOK ==
  /\ rtc \in [running : BOOLEAN, sec : Nat, frac : Fraction]
  /\ ds \in [present : BOOLEAN, sec : Nat, frac : Fraction]
  /\ bootEpoch \in Int
  /\ source \in Sources
  /\ foundRunning \in BOOLEAN
  /\ w \in Call
  /\ r \in Read
  /\ ideal \in Instant
  /\ ground \in [settled : BOOLEAN, sec : Nat, frac : Fraction, drift : Nat]
  /\ count \in [ticks : 0 .. MaxTicks, events : 0 .. MaxEvents, corrections : Nat]

\* What getUnixTimeUsec() returns lies between the clock at its call and the
\* clock at its return, though it reads the second and the fraction one after
\* the other, the second may carry between, and it may give up: no reading is
\* a second off.  A reading during which the clock is set is excepted.
ReadingIsCurrent ==
  r.pc = "epoch" /\ r.clean => NotAfter(r.start, r.value) /\ NotAfter(r.value, rtc)

\* begin() has returned.
Up == w.pc \in {"idle", "set", "correct", "compare", "adjust"}

\* Time since boot by the clock as it stands.
Elapsed == At(rtc.sec - bootEpoch, rtc.frac)

\* However often the clock is set, forwards or backwards, setUnixTime() moves
\* the epoch along: time since boot is never ahead of the time that passed, is
\* never negative, and each correction costs it less than two seconds.  This
\* bounds what ElapsedNeverGoesBack says is never lost.
ElapsedTracksUptime ==
  Up =>
    /\ bootEpoch <= rtc.sec
    /\ NotAfter(Elapsed, ideal)
    /\ NotAfter(ideal, At(Elapsed.sec + 2 * count.corrections, Elapsed.frac))

\* sinceBootUsec() never returns more than the time that passed since boot,
\* unless the clock was set during the call.
ElapsedNeverAhead == r.pc = "done" /\ r.clean => NotAfter(r.value, ideal)

\* A clock that reports an origin holds a time no older than the oldest one
\* accepted: what begin() inherits, seeds or the ground sets, over resets and
\* failed writes, is never the count from 1970 of a clock nobody set.
KnownClockIsPlausible ==
  w.pc = "idle" /\ source # None => rtc.running /\ rtc.sec >= Oldest

\* An instant in fractions.
Ticks(i) == i.sec * F + i.frac

\* How far, in fractions, setUnixTime(), the reconciliation and begin() may take
\* a clock from the time accepted: they carry whole seconds over, once to the
\* DS1307 and once back, each time in a call that may last MaxStall.
Slack == 2 * (F - 1 + MaxStall)

\* Once setUnixTime() has returned TRUE to the ground, the clock stays on that
\* time: through reconciliations, through any reset, and through a loss of
\* power when there is a DS1307, but for what that one drifts.
GroundTimeKept ==
  w.pc = "idle" /\ ground.settled =>
    Distance(Ticks(rtc), Ticks(ground)) <= Slack + ground.drift * F

\* The reconciliation brings the two clocks together again, whichever of them
\* is the authority, whatever the DS1307 drifted.
ClocksMeetAgain ==
  []<>(w.pc = "idle" /\
       (ds.present /\ source \in {Ground, Ds1307} => Distance(rtc.sec, ds.sec) <= 1))

(* What the sources say and the code does not do *)

\* sinceBootUsec() is "safe to call from any task" (SystemTime.h:63).
SafeFromAnyTask == r.pc = "done" => NotAfter(r.value, ideal)

\* Time since boot "increases monotonically for as long as the board runs", and
\* no correction disturbs it (system-clock/spec.md:27): its second, which does
\* not depend on what RTC.setTime() does to the fraction, never goes back.
ElapsedNeverGoesBack ==
  [][Up /\ Up' => Elapsed.sec <= Elapsed'.sec]_vars

=============================================================================
