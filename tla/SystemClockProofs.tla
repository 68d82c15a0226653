------------------------- MODULE SystemClockProofs -------------------------
(***************************************************************************)
(* What is proved of the system clock for every length of second, every    *)
(* time the ground may send or the DS1307 hold, every number of attempts.  *)
(*                                                                         *)
(* The argument.  A correction moves the clock and the epoch in one step,  *)
(* by what the reading before it said; that reading is late by less than   *)
(* a second, as the call is shorter (PreviousIsFresh), so time since boot  *)
(* never gains and loses less than two seconds.  A reading whose second    *)
(* held still took its fraction in that second (ReadingSoFar), and when no *)
(* second did, its second is past that of its start.  The time accepted    *)
(* from the ground is the clock's until a restart; from then on it is what *)
(* the DS1307 was given of it, a whole second and the length of a call     *)
(* away, and what the clock was given back, the same once more (GroundInv).*)
(***************************************************************************)
EXTENDS SystemClock, TLAPS

Booting == w.pc \in {"begin", "seed", "inherit", "latch"}

\* No other task runs before the scheduler does, and the clock runs after.
BootsAlone ==
  /\ Booting => r.pc = "idle"
  /\ Up \/ w.pc = "latch" => rtc.running

\* What setUnixTime() read before it suspended the scheduler.
PreviousIsFresh ==
  w.pc = "correct" =>
    /\ bootEpoch <= w.previous
    /\ \/ rtc.sec = w.previous
       \/ (rtc.sec = w.previous + 1 /\ rtc.frac < w.stall)

\* What a reading that no correction disturbed has seen so far.
ReadingSoFar ==
  r.clean =>
    /\ r.pc \in {"before", "fraction", "after", "whole", "epoch"} => NotAfter(r.start, rtc)
    /\ r.pc \in {"fraction", "after"} => r.start.sec <= r.before /\ r.before <= rtc.sec
    /\ r.pc = "after" /\ rtc.sec = r.before =>
         r.fraction <= rtc.frac /\ NotAfter(r.start, At(r.before, r.fraction))
    /\ r.pc = "whole" => r.start.sec < rtc.sec

\* Where the origins of a time come from.
OriginIsPlausible ==
  /\ w.pc = "seed" => Plausible(w.target)
  /\ w.pc \in {"seed", "inherit"} /\ foundRunning => rtc.running /\ Oldest <= rtc.sec
  /\ (Up \/ w.pc = "latch") /\ source # None => Oldest <= rtc.sec
  /\ w.pc = "correct" => Plausible(w.target)
  /\ w.pc \in {"compare", "adjust"} => Oldest <= rtc.sec

BaseInv == TypeOK /\ BootsAlone /\ OriginIsPlausible

ElapsedInv == PreviousIsFresh /\ ElapsedTracksUptime

ReadInv == ReadingSoFar /\ ReadingIsCurrent /\ ElapsedNeverAhead

ClockInv == BaseInv /\ ElapsedInv /\ ReadInv

-----------------------------------------------------------------------------
(***************************************************************************)
(* The types                                                               *)
(***************************************************************************)

Clock == [running : BOOLEAN, sec : Nat, frac : Fraction]

LEMMA FractionsAre == Fraction \subseteq Nat /\ 0 \in Fraction
  BY ClockAssumption DEF Fraction

LEMMA SourcesAre == Sources \subseteq Nat /\ {Ground, Ds1307, Survived, None} \subseteq Sources
  BY DEF Sources, Ground, Ds1307, Survived, None

LEMMA IdleType == Idle \in Call /\ Boot \in Call /\ NoRead \in Read
  BY SourcesAre, ClockAssumption, FractionsAre DEF Idle, Boot, NoRead, Call, Read, Instant, At

LEMMA EventType ==
  ASSUME TypeOK, Event
  PROVE  count' \in [ticks : 0 .. MaxTicks, events : 0 .. MaxEvents, corrections : Nat]
  BY ClockAssumption DEF TypeOK, Event

LEMMA SetRtcType ==
  ASSUME TypeOK, NEW t \in Nat, SetRtc(t)
  PROVE  rtc' \in Clock /\ rtc'.sec = t /\ rtc'.running
  BY FractionsAre DEF TypeOK, SetRtc, Clock

\* What a tick does to the second and the fraction of a clock.
Advances(i, j) ==
  \/ i.frac + 1 < F /\ j.sec = i.sec /\ j.frac = i.frac + 1
  \/ i.frac + 1 = F /\ j.sec = i.sec + 1 /\ j.frac = 0

\* The two ways a tick goes.
Within(i) ==
  i.frac + 1 \in Fraction /\ i.frac + 1 < F /\ Ticked(i) = [i EXCEPT !.frac = @ + 1]

Carries(i) ==
  i.frac + 1 = F /\ Ticked(i) = [i EXCEPT !.sec = @ + 1, !.frac = 0]

LEMMA FractionTicks ==
  ASSUME NEW f \in Fraction
  PROVE  (f + 1 < F /\ f + 1 \in Fraction) \/ (~(f + 1 < F) /\ f + 1 = F)
  BY ClockAssumption DEF Fraction

LEMMA TickCases ==
  ASSUME NEW i, i.frac \in Fraction
  PROVE  Within(i) \/ Carries(i)
<1>1. CASE i.frac + 1 < F /\ i.frac + 1 \in Fraction
  BY <1>1, Zenon DEF Ticked, Within
<1>2. CASE ~(i.frac + 1 < F) /\ i.frac + 1 = F
  BY <1>2, Zenon DEF Ticked, Carries
<1>3. QED
  BY <1>1, <1>2, FractionTicks, Zenon

LEMMA InstantTicks ==
  ASSUME NEW i \in Instant
  PROVE  Ticked(i) \in Instant /\ Advances(i, Ticked(i))
<1>1. i.frac \in Fraction /\ i.sec \in Nat
  BY DEF Instant
<1>2. CASE Within(i)
  BY <1>1, <1>2 DEF Within, Instant, Advances
<1>3. CASE Carries(i)
  <2>1. PICK n \in Nat : n = i.sec + 1
    BY <1>1
  <2>2. Ticked(i) = [i EXCEPT !.sec = n, !.frac = 0]
    BY <1>3, <2>1 DEF Carries
  <2>3. [i EXCEPT !.sec = n, !.frac = 0] \in Instant
    BY FractionsAre DEF Instant
  <2>4. QED
    BY <1>3, <2>1, <2>2, <2>3, FractionsAre DEF Carries, Instant, Advances
<1>4. QED
  BY <1>1, <1>2, <1>3, TickCases, Zenon

LEMMA ClockTicks ==
  ASSUME NEW i \in Clock
  PROVE  /\ Ticked(i) \in Clock /\ Advances(i, Ticked(i))
         /\ Ticked(i).running = i.running
<1>1. i.frac \in Fraction /\ i.sec \in Nat
  BY DEF Clock
<1>2. CASE Within(i)
  BY <1>1, <1>2 DEF Within, Clock, Advances
<1>3. CASE Carries(i)
  <2>1. PICK n \in Nat : n = i.sec + 1
    BY <1>1
  <2>2. Ticked(i) = [i EXCEPT !.sec = n, !.frac = 0]
    BY <1>3, <2>1 DEF Carries
  <2>3. [i EXCEPT !.sec = n, !.frac = 0] \in Clock
    BY FractionsAre DEF Clock
  <2>4. QED
    BY <1>3, <2>1, <2>2, <2>3, FractionsAre DEF Carries, Clock, Advances
<1>4. QED
  BY <1>1, <1>2, <1>3, TickCases, Zenon

Ds == [present : BOOLEAN, sec : Nat, frac : Fraction]

LEMMA DsTicks ==
  ASSUME NEW i \in Ds
  PROVE  Ticked(i) \in Ds
<1>1. i.frac \in Fraction /\ i.sec \in Nat
  BY DEF Ds
<1>2. CASE Within(i)
  BY <1>1, <1>2 DEF Within, Ds
<1>3. CASE Carries(i)
  <2>1. PICK n \in Nat : n = i.sec + 1
    BY <1>1
  <2>2. Ticked(i) = [i EXCEPT !.sec = n, !.frac = 0]
    BY <1>3, <2>1 DEF Carries
  <2>3. [i EXCEPT !.sec = n, !.frac = 0] \in Ds
    BY FractionsAre DEF Ds
  <2>4. QED
    BY <1>3, <2>1, <2>2, <2>3, FractionsAre DEF Carries, Ds
<1>4. QED
  BY <1>1, <1>2, <1>3, TickCases, Zenon

Promise == [settled : BOOLEAN, sec : Nat, frac : Fraction, drift : Nat]

LEMMA PromiseTicks ==
  ASSUME NEW i \in Promise
  PROVE  Ticked(i) \in Promise
<1>1. i.frac \in Fraction /\ i.sec \in Nat
  BY DEF Promise
<1>2. CASE Within(i)
  BY <1>1, <1>2 DEF Within, Promise
<1>3. CASE Carries(i)
  <2>1. PICK n \in Nat : n = i.sec + 1
    BY <1>1
  <2>2. Ticked(i) = [i EXCEPT !.sec = n, !.frac = 0]
    BY <1>3, <2>1 DEF Carries
  <2>3. [i EXCEPT !.sec = n, !.frac = 0] \in Promise
    BY FractionsAre DEF Promise
  <2>4. QED
    BY <1>3, <2>1, <2>2, <2>3, FractionsAre DEF Carries, Promise
<1>4. QED
  BY <1>1, <1>2, <1>3, TickCases, Zenon

Count == [ticks : 0 .. MaxTicks, events : 0 .. MaxEvents, corrections : Nat]

\* TypeOK, with the names above.
LEMMA Typed ==
  TypeOK <=>
    /\ rtc \in Clock /\ ds \in Ds /\ bootEpoch \in Int /\ source \in Sources
    /\ foundRunning \in BOOLEAN /\ w \in Call /\ r \in Read
    /\ ideal \in Instant /\ ground \in Promise /\ count \in Count
  BY DEF TypeOK, Clock, Ds, Promise, Count

LEMMA TickType ==
  ASSUME TypeOK, Tick
  PROVE  TypeOK'
<1>1. rtc' \in Clock /\ ideal' \in Instant /\ ds' \in Ds /\ ground' \in Promise
  BY Typed, ClockTicks, InstantTicks, DsTicks, PromiseTicks DEF Tick
<1>2. w' \in Call
  BY ClockAssumption DEF TypeOK, Tick, Call
<1>3. count' \in Count
  BY ClockAssumption DEF TypeOK, Tick, Count
<1>4. QED
  BY <1>1, <1>2, <1>3 DEF TypeOK, Tick, software, Clock, Ds, Promise, Count

LEMMA CallTypes ==
  ASSUME TypeOK
  PROVE  /\ \A pc \in {"begin", "seed", "inherit", "latch", "idle", "set", "correct",
                       "compare", "adjust"} : [w EXCEPT !.pc = pc] \in Call
         /\ \A from \in Sources, t \in Nat,
               pc \in {"set", "compare"} :
              [Idle EXCEPT !.pc = pc, !.from = from, !.target = t] \in Call
  BY IdleType DEF TypeOK, Call

\* The steps of the clock's owner.
LEMMA BeginType ==
  ASSUME TypeOK, BeginSteps
  PROVE  TypeOK'
<1>1. CASE Begin
  BY <1>1 DEF Begin, TypeOK, Call
<1>2. CASE Seed
  BY <1>2, SourcesAre, FractionsAre DEF Seed, SetRtc, TypeOK, Call
<1>3. CASE SeedFails
  BY <1>3, EventType DEF SeedFails, TypeOK, Call, software
<1>4. CASE Inherit
  BY <1>4, SourcesAre DEF Inherit, Inherits, TypeOK, Call
<1>5. CASE Latch
  BY <1>5, IdleType, FractionsAre DEF Latch, TypeOK, Instant, At
<1>6. QED
  BY <1>1, <1>2, <1>3, <1>4, <1>5 DEF BeginSteps

LEMMA OfferType ==
  ASSUME TypeOK, NEW t \in GroundTimes, Offer(t)
  PROVE  TypeOK'
  BY EventType, CallTypes, SourcesAre, ClockAssumption DEF Offer, TypeOK, software

LEMMA ReconcileType ==
  ASSUME TypeOK, Reconcile
  PROVE  TypeOK'
<1>1. CASE Push
  BY <1>1, CallTypes, SourcesAre DEF Push, TypeOK, software
<1>2. CASE Reseed
  BY <1>2, CallTypes, SourcesAre DEF Reseed, TypeOK, software
<1>3. CASE Skip
  BY <1>3 DEF Skip, TypeOK, vars
<1>4. QED
  BY <1>1, <1>2, <1>3 DEF Reconcile

LEMMA FinishType ==
  ASSUME TypeOK, Finish
  PROVE  source' \in Sources /\ ground' \in Promise /\ w' \in Call
  BY IdleType DEF Finish, TypeOK, Promise, Call

LEMMA SetUnixTimeType ==
  ASSUME TypeOK, SetUnixTime
  PROVE  TypeOK'
<1>1. CASE Refuse
  BY <1>1, IdleType DEF Refuse, TypeOK, software
<1>2. CASE Repeat
  <2>1. ground' \in Promise
    BY <1>2 DEF Repeat, Accepted, RepeatWritesDs1307, WritesDs1307, TypeOK, Promise
  <2>2. w' \in Call /\ source' \in Sources
    BY <1>2, IdleType DEF Repeat, TypeOK, Call
  <2>3. QED
    BY <1>2, <2>1, <2>2 DEF Repeat, TypeOK, Promise
<1>3. CASE ReadPrevious
  BY <1>3 DEF ReadPrevious, TypeOK, software, Call
<1>4. CASE Correct
  <2>1. rtc' \in Clock
    BY <1>4, SetRtcType DEF Correct, TypeOK, Call
  <2>2. ground' \in Promise
    BY <1>4, <2>1 DEF Correct, Accepted, WritesDs1307, TypeOK, Promise, Clock
  <2>3. w' \in Call /\ source' \in Sources
    BY <1>4, IdleType DEF Correct, TypeOK, Call
  <2>4. r' \in Read /\ count' \in Count /\ bootEpoch' \in Int
    <3>1. r' \in Read
      BY <1>4 DEF Correct, TypeOK, Read
    <3>2. count' \in Count
      BY <1>4 DEF Correct, TypeOK, Count
    <3>3. bootEpoch' \in Int
      BY <1>4 DEF Correct, ShiftedEpoch, TypeOK, Call
    <3>4. QED
      BY <3>1, <3>2, <3>3
  <2>5. QED
    BY <1>4, <2>1, <2>2, <2>3, <2>4 DEF Correct, TypeOK, Promise, Clock, Count
<1>5. CASE CorrectFails
  BY <1>5, EventType, IdleType DEF CorrectFails, TypeOK, software
<1>6. CASE Compare
  <2>1. source' \in Sources /\ ground' \in Promise /\ w' \in Call
    BY <1>6, FinishType DEF Compare, TypeOK, Call, Promise
  <2>2. QED
    BY <1>6, <2>1 DEF Compare, TypeOK, Promise
<1>7. CASE Adjust
  <2>1. source' \in Sources /\ ground' \in Promise /\ w' \in Call
    BY <1>7, FinishType DEF Adjust
  <2>2. ds' \in Ds
    BY <1>7, FractionsAre DEF Adjust, TypeOK, Call, Ds
  <2>3. QED
    BY <1>7, <2>1, <2>2 DEF Adjust, TypeOK, Promise, Ds
<1>8. QED
  BY <1>1, <1>2, <1>3, <1>4, <1>5, <1>6, <1>7 DEF SetUnixTime

\* The steps of the other task.
LEMMA SinceEpochType ==
  ASSUME TypeOK, NEW i \in Instant
  PROVE  SinceEpoch(i) \in Instant
  BY FractionsAre DEF SinceEpoch, TypeOK, Instant, At

LEMMA ReadTypes ==
  ASSUME TypeOK
  PROVE  /\ \A before \in Nat, start \in Instant :
              [NoRead EXCEPT !.pc = "fraction", !.attempt = 1, !.before = before,
                             !.start = start] \in Read
         /\ \A reading \in Instant : ToEpoch(reading) \in Read
         /\ At(rtc.sec, rtc.frac) \in Instant /\ At(rtc.sec, 0) \in Instant
         /\ At(r.before, r.fraction) \in Instant
<1>1. \A before \in Nat, start \in Instant :
        [NoRead EXCEPT !.pc = "fraction", !.attempt = 1, !.before = before,
                       !.start = start] \in Read
  <2>1. 1 \in 0 .. Attempts
    BY ClockAssumption
  <2>2. QED
    BY <2>1, IdleType DEF Read
<1>2. \A reading \in Instant : ToEpoch(reading) \in Read
  BY IdleType DEF ToEpoch, TypeOK, Read
<1>3. QED
  BY <1>1, <1>2, FractionsAre DEF TypeOK, Read, Instant, At

LEMMA SinceBootType ==
  ASSUME TypeOK, SinceBoot
  PROVE  r' \in Read /\ count' \in Count
<1>1. CASE StartRead
  <2>1. r' \in Read
    BY <1>1, ReadTypes DEF StartRead, TypeOK
  <2>2. QED
    BY <1>1, <2>1, EventType DEF StartRead, Count
<1>2. CASE ReadBefore
  BY <1>2 DEF ReadBefore, TypeOK, Read, UnchangedByReader, Count
<1>3. CASE ReadFraction
  BY <1>3 DEF ReadFraction, TypeOK, Read, UnchangedByReader, Count
<1>4. CASE ReadAfter
  <2>1. CASE SecondHeld
    BY <1>4, <2>1, ReadTypes DEF ReadAfter, TypeOK, UnchangedByReader, Count
  <2>2. CASE ~ SecondHeld
    <3>1. CASE r.attempt < Attempts
      <4>1. r.attempt + 1 \in 0 .. Attempts
        BY <3>1, ClockAssumption DEF TypeOK, Read
      <4>2. PICK n \in 0 .. Attempts : n = r.attempt + 1
        BY <4>1
      <4>3. r' = [r EXCEPT !.pc = "before", !.attempt = n]
        BY <1>4, <2>2, <3>1, <4>2 DEF ReadAfter
      <4>4. r' \in Read
        BY <4>3 DEF TypeOK, Read
      <4>5. QED
        BY <1>4, <4>4 DEF ReadAfter, TypeOK, UnchangedByReader, Count
    <3>2. CASE ~(r.attempt < Attempts)
      <4>1. r' = [r EXCEPT !.pc = "whole"]
        BY <1>4, <2>2, <3>2 DEF ReadAfter
      <4>2. QED
        BY <1>4, <4>1 DEF ReadAfter, TypeOK, Read, UnchangedByReader, Count
    <3>3. QED
      BY <3>1, <3>2
  <2>3. QED
    BY <2>1, <2>2
<1>5. CASE ReadWhole
  BY <1>5, ReadTypes DEF ReadWhole, TypeOK, UnchangedByReader, Count
<1>6. CASE ReadEpoch
  <2>1. SinceEpoch(r.value) \in Instant
    BY SinceEpochType DEF TypeOK, Read
  <2>2. QED
    BY <1>6, <2>1, IdleType DEF ReadEpoch, TypeOK, Read, UnchangedByReader, Count
<1>7. QED
  BY <1>1, <1>2, <1>3, <1>4, <1>5, <1>6 DEF SinceBoot

\* They leave everything else alone.
LEMMA SinceBootOnlyReads ==
  ASSUME SinceBoot
  PROVE  /\ UNCHANGED <<rtc, ds, software, w, ideal, ground>>
         /\ ReaderRuns
  BY DEF SinceBoot, StartRead, ReadBefore, ReadFraction, ReadAfter, ReadWhole, ReadEpoch,
         UnchangedByReader, Reading

LEMMA RestartType ==
  ASSUME TypeOK, Reset \/ PowerLoss
  PROVE  TypeOK'
<1>1. w' \in Call /\ r' \in Read /\ count' \in Count /\ source' \in Sources
  BY EventType, IdleType, SourcesAre DEF Reset, PowerLoss, Restart, Count
<1>a. foundRunning' \in BOOLEAN
  BY Zenon DEF Reset, PowerLoss, Restart
<1>2. CASE Reset
  BY <1>1, <1>a, <1>2 DEF Reset, Restart, TypeOK, Count
<1>3. CASE PowerLoss
  <2>1. PICK b \in BOOLEAN : b = (ground.settled /\ ds.present)
    OBVIOUS
  <2>2. ground' \in Promise
    BY <1>3, <2>1 DEF PowerLoss, TypeOK, Promise
  <2>3. rtc' \in Clock
    BY <1>3, FractionsAre DEF PowerLoss, Clock
  <2>4. QED
    BY <1>1, <1>a, <1>3, <2>2, <2>3 DEF PowerLoss, Restart, TypeOK, Clock, Promise, Count
<1>4. QED
  BY <1>2, <1>3

LEMMA InitType == Init => TypeOK
<1>1. ASSUME Init PROVE TypeOK
  <2>1. w \in Call /\ r \in Read /\ source \in Sources /\ ideal \in Instant
    BY <1>1, IdleType, SourcesAre, FractionsAre DEF Init, Instant, At
  <2>2. ds \in Ds
    BY <1>1, FractionsAre, ClockAssumption DEF Init, Ds
  <2>3. rtc \in Clock /\ ground \in Promise
    BY <1>1, FractionsAre DEF Init, Clock, Promise
  <2>4. count \in Count
    BY <1>1, ClockAssumption DEF Init, Count
  <2>5. foundRunning \in BOOLEAN
    BY <1>1, Zenon DEF Init
  <2>6. bootEpoch \in Int
    BY <1>1 DEF Init
  <2>7. QED
    BY <2>1, <2>2, <2>3, <2>4, <2>5, <2>6, Typed
<1>2. QED
  BY <1>1

LEMMA NextType ==
  ASSUME TypeOK, [Next]_vars
  PROVE  TypeOK'
<1>1. CASE Tick
  BY <1>1, TickType
<1>2. CASE Drift
  <2>1. PICK d \in Drifts : /\ ds.sec + d \in Nat
                            /\ ds' = [ds EXCEPT !.sec = @ + d]
                            /\ ground' = [ground EXCEPT !.drift = @ + Distance(d, 0)]
    BY <1>2 DEF Drift
  <2>2. PICK n \in Nat, m \in Nat : n = ds.sec + d /\ m = ground.drift + Distance(d, 0)
    BY <2>1, ClockAssumption DEF TypeOK, Distance
  <2>3. ds' = [ds EXCEPT !.sec = n] /\ ground' = [ground EXCEPT !.drift = m]
    BY <2>1, <2>2
  <2>4. ds' \in Ds /\ ground' \in Promise
    BY <2>3 DEF TypeOK, Ds, Promise
  <2>5. QED
    BY <1>2, <2>4, EventType DEF Drift, TypeOK, software, Ds, Promise
<1>3. CASE BeginSteps
  BY <1>3, BeginType
<1>4. CASE \E t \in GroundTimes : Offer(t)
  BY <1>4, OfferType
<1>5. CASE Reconcile
  BY <1>5, ReconcileType
<1>6. CASE SetUnixTime
  BY <1>6, SetUnixTimeType
<1>7. CASE SinceBoot
  BY <1>7, SinceBootType, SinceBootOnlyReads DEF TypeOK, software, Count
<1>8. CASE Reset \/ PowerLoss
  BY <1>8, RestartType
<1>9. CASE UNCHANGED vars
  BY <1>9 DEF TypeOK, vars
<1>10. QED
  BY <1>1, <1>2, <1>3, <1>4, <1>5, <1>6, <1>7, <1>8, <1>9 DEF Next

-----------------------------------------------------------------------------
(***************************************************************************)
(* Booting, and where a time comes from                                    *)
(***************************************************************************)

LEMMA BootStep ==
  ASSUME BaseInv, BeginSteps
  PROVE  BootsAlone' /\ OriginIsPlausible'
<1> USE DEF BaseInv
<1>0. w \in Call
  BY DEF TypeOK
<1>1. CASE Begin
  BY <1>0, <1>1 DEF Begin, BootsAlone, OriginIsPlausible, Booting, Up, Plausible, Call
<1>2. CASE Seed
  <2>1. rtc'.sec = w.target /\ rtc'.running
    BY <1>2, <1>0, SetRtcType DEF Seed, Call
  <2>2. w'.pc = "latch" /\ source' = Ds1307 /\ r' = r
    BY <1>2, <1>0 DEF Seed, Call
  <2>3. Plausible(w.target) /\ w.pc = "seed"
    BY <1>2 DEF Seed, OriginIsPlausible
  <2>4. r.pc = "idle"
    BY <2>3 DEF BootsAlone, Booting
  <2>5. QED
    BY <2>1, <2>2, <2>3, <2>4 DEF BootsAlone, OriginIsPlausible, Booting, Up, Plausible
<1>3. CASE SeedFails
  BY <1>0, <1>3 DEF SeedFails, software, BootsAlone, OriginIsPlausible, Booting, Up, Call
<1>4. CASE Inherit
  <2>1. w.pc = "inherit" /\ w'.pc = "latch" /\ r' = r /\ r.pc = "idle"
    BY <1>0, <1>4 DEF Inherit, Call, BootsAlone, Booting
  <2>2. CASE foundRunning
    BY <1>4, <2>1, <2>2 DEF Inherit, Inherits, BootsAlone, OriginIsPlausible, Booting, Up
  <2>3. CASE ~ foundRunning
    <3>1. source' = None /\ rtc'.running
      BY <1>4, <2>3 DEF Inherit, Inherits
    <3>2. QED
      BY <2>1, <3>1 DEF BootsAlone, OriginIsPlausible, Booting, Up
  <2>4. QED
    BY <2>2, <2>3
<1>5. CASE Latch
  <2>1. w.pc = "latch" /\ w'.pc = "idle" /\ r' = r /\ rtc' = rtc /\ source' = source
    BY <1>5 DEF Latch, Idle
  <2>2. QED
    BY <2>1 DEF BootsAlone, OriginIsPlausible, Booting, Up
<1>6. QED
  BY <1>1, <1>2, <1>3, <1>4, <1>5 DEF BeginSteps

LEMMA SetStep ==
  ASSUME BaseInv, SetUnixTime
  PROVE  BootsAlone' /\ OriginIsPlausible'
<1> USE DEF BaseInv
<1>0. w \in Call
  BY DEF TypeOK
<1>1. CASE Refuse
  BY <1>1 DEF Refuse, Idle, software, BootsAlone, OriginIsPlausible, Booting, Up
<1>2. CASE Repeat
  <2>1. w.pc = "set" /\ w'.pc \in {"compare", "idle"} /\ rtc' = rtc /\ Oldest <= rtc.sec
    BY <1>0, <1>2 DEF Repeat, Accepts, Plausible, Idle, Call
  <2>2. QED
    BY <2>1 DEF BootsAlone, OriginIsPlausible, Booting, Up
<1>3. CASE ReadPrevious
  <2>1. /\ w.pc = "set" /\ w'.pc = "correct" /\ w'.target = w.target
        /\ Plausible(w.target) /\ rtc' = rtc /\ source' = source
    BY <1>0, <1>3 DEF ReadPrevious, Accepts, Call, software
  <2>2. QED
    BY <2>1 DEF BootsAlone, OriginIsPlausible, Booting, Up, Plausible
<1>4. CASE Correct
  <2>1. w.pc = "correct" /\ w'.pc \in {"compare", "idle"}
    BY <1>0, <1>4 DEF Correct, Idle, Call
  <2>2. rtc'.running /\ Oldest <= rtc'.sec
    BY <1>0, <1>4, <2>1, SetRtcType DEF Correct, Call, OriginIsPlausible, Plausible
  <2>3. QED
    BY <2>1, <2>2 DEF BootsAlone, OriginIsPlausible, Booting, Up
<1>5. CASE CorrectFails
  BY <1>5 DEF CorrectFails, Idle, software, BootsAlone, OriginIsPlausible, Booting, Up
<1>6. CASE Compare \/ Adjust
  <2>1. w.pc \in {"compare", "adjust"} /\ w'.pc \in {"adjust", "idle"} /\ rtc' = rtc
    BY <1>0, <1>6 DEF Compare, Adjust, Finish, Idle, Call
  <2>2. QED
    BY <2>1 DEF BootsAlone, OriginIsPlausible, Booting, Up
<1>7. QED
  BY <1>1, <1>2, <1>3, <1>4, <1>5, <1>6 DEF SetUnixTime

LEMMA BaseStep ==
  ASSUME BaseInv, [Next]_vars
  PROVE  BaseInv'
<1> USE DEF BaseInv
<1>0. TypeOK' /\ w \in Call
  BY NextType DEF TypeOK
<1>1. CASE Tick
  <2>1. w'.pc = w.pc /\ w'.target = w.target
    BY <1>0, <1>1 DEF Tick, Call
  <2>2. rtc'.running = rtc.running /\ rtc'.sec >= rtc.sec
    BY <1>1, ClockTicks DEF Tick, TypeOK, Clock, Advances
  <2>3. rtc'.sec \in Nat /\ rtc.sec \in Nat
    BY <1>0 DEF TypeOK
  <2>4. BootsAlone'
    BY <1>1, <2>1, <2>2 DEF Tick, BootsAlone, Booting, Up
  <2>5. OriginIsPlausible'
    BY <1>1, <2>1, <2>2, <2>3, ClockAssumption
       DEF Tick, software, OriginIsPlausible, Up, Plausible
  <2>6. QED
    BY <1>0, <2>4, <2>5
<1>2. CASE Drift
  BY <1>0, <1>2 DEF Drift, software, BootsAlone, OriginIsPlausible, Booting, Up
<1>3. CASE BeginSteps
  BY <1>0, <1>3, BootStep
<1>4. CASE \E t \in GroundTimes : Offer(t)
  <2>1. w.pc = "idle" /\ w'.pc = "set" /\ UNCHANGED <<rtc, source, r>>
    BY <1>4 DEF Offer, Idle, software
  <2>2. QED
    BY <1>0, <2>1 DEF BootsAlone, OriginIsPlausible, Booting, Up
<1>5. CASE Push
  <2>1. w.pc = "idle" /\ w'.pc = "compare" /\ Oldest <= rtc.sec /\ UNCHANGED <<rtc, source, r>>
    BY <1>5 DEF Push, Idle, software, Plausible
  <2>2. QED
    BY <1>0, <2>1 DEF BootsAlone, OriginIsPlausible, Booting, Up
<1>6. CASE Reseed
  <2>1. w.pc = "idle" /\ w'.pc = "set" /\ UNCHANGED <<rtc, source, r>>
    BY <1>6 DEF Reseed, Idle, software
  <2>2. QED
    BY <1>0, <2>1 DEF BootsAlone, OriginIsPlausible, Booting, Up
<1>7. CASE SetUnixTime
  BY <1>0, <1>7, SetStep
<1>8. CASE SinceBoot
  <2>1. UNCHANGED <<rtc, software, w>> /\ w.pc \in {"idle", "compare", "adjust"}
    BY <1>8, SinceBootOnlyReads DEF ReaderRuns
  <2>2. QED
    BY <1>0, <2>1 DEF BootsAlone, OriginIsPlausible, Booting, Up, software
<1>9. CASE Reset \/ PowerLoss
  <2>1. w'.pc = "begin" /\ r'.pc = "idle"
    BY <1>9 DEF Reset, PowerLoss, Restart, Boot, Idle, NoRead
  <2>2. QED
    BY <1>0, <2>1 DEF BootsAlone, OriginIsPlausible, Booting, Up
<1>10. CASE Skip \/ UNCHANGED vars
  BY <1>0, <1>10 DEF Skip, vars, BootsAlone, OriginIsPlausible, Booting, Up
<1>11. QED
  BY <1>1, <1>2, <1>3, <1>4, <1>5, <1>6, <1>7, <1>8, <1>9, <1>10 DEF Next, Reconcile

-----------------------------------------------------------------------------
(***************************************************************************)
(* Time since boot                                                         *)
(***************************************************************************)

\* What ElapsedTracksUptime says of a clock that is up.
Tracks ==
  /\ bootEpoch <= rtc.sec
  /\ NotAfter(Elapsed, ideal)
  /\ NotAfter(ideal, At(Elapsed.sec + 2 * count.corrections, Elapsed.frac))

LEMMA UpTracks == ElapsedTracksUptime <=> (Up => Tracks)
  BY DEF ElapsedTracksUptime, Up, Tracks

\* Two clocks that both tick keep their order.
LEMMA TickOrder ==
  ASSUME NEW a \in Int, NEW b \in Int, NEW f \in Fraction, NEW g \in Fraction,
         NEW a2 \in Int, NEW b2 \in Int, NEW f2 \in Fraction, NEW g2 \in Fraction,
         Advances(At(a, f), At(a2, f2)), Advances(At(b, g), At(b2, g2)),
         NotAfter(At(a, f), At(b, g))
  PROVE  NotAfter(At(a2, f2), At(b2, g2))
  BY ClockAssumption DEF Advances, NotAfter, At, Fraction

LEMMA EventKeepsCorrections ==
  ASSUME TypeOK, Event
  PROVE  count'.corrections = count.corrections
  BY DEF TypeOK, Event

LEMMA TickElapsed ==
  ASSUME BaseInv, ElapsedInv, Tick
  PROVE  ElapsedInv'
<1> USE DEF BaseInv
<1>0. /\ w \in Call /\ rtc \in Clock /\ ideal \in Instant /\ bootEpoch \in Int
      /\ count \in Count /\ rtc' \in Clock /\ ideal' \in Instant
  BY Typed, NextType DEF TypeOK, Next, Clock, Count
<1>1. w'.pc = w.pc /\ w'.previous = w.previous /\ bootEpoch' = bootEpoch
  BY <1>0 DEF Tick, Call, software
<1>2. CASE Up
  <2>1. Advances(rtc, rtc')
    BY <1>0, <1>2, ClockTicks DEF Tick, BootsAlone
  <2>2. Advances(ideal, ideal')
    BY <1>0, InstantTicks DEF Tick
  <2>3. count'.corrections = count.corrections
    BY <1>0 DEF Tick, Count
  <2>4. /\ rtc.sec \in Int /\ rtc.frac \in Fraction /\ rtc'.sec \in Int /\ rtc'.frac \in Fraction
        /\ ideal.sec \in Int /\ ideal.frac \in Fraction
        /\ ideal'.sec \in Int /\ ideal'.frac \in Fraction
        /\ count.corrections \in Int
    BY <1>0 DEF Clock, Instant, Count
  <2>5. Tracks
    BY <1>2, UpTracks DEF ElapsedInv
  <2>6. NotAfter(Elapsed', ideal')
    <3>1. NotAfter(At(rtc.sec - bootEpoch, rtc.frac), At(ideal.sec, ideal.frac))
      BY <2>5 DEF Tracks, Elapsed, NotAfter, At
    <3>2. Advances(At(rtc.sec - bootEpoch, rtc.frac), At(rtc'.sec - bootEpoch, rtc'.frac))
      BY <2>1, <2>4, <1>0 DEF Advances, At
    <3>3. Advances(At(ideal.sec, ideal.frac), At(ideal'.sec, ideal'.frac))
      BY <2>2 DEF Advances, At
    <3>4. NotAfter(At(rtc'.sec - bootEpoch, rtc'.frac), At(ideal'.sec, ideal'.frac))
      BY <1>0, <2>4, <3>1, <3>2, <3>3, TickOrder
    <3>5. QED
      BY <1>1, <3>4 DEF Elapsed, NotAfter, At
  <2>7. NotAfter(ideal, At(Elapsed.sec + 2 * count.corrections, Elapsed.frac))'
    <3> DEFINE late == 2 * count.corrections
    <3>1. NotAfter(At(ideal.sec, ideal.frac), At(rtc.sec - bootEpoch + late, rtc.frac))
      BY <2>5 DEF Tracks, Elapsed, NotAfter, At
    <3>2. Advances(At(rtc.sec - bootEpoch + late, rtc.frac),
                   At(rtc'.sec - bootEpoch + late, rtc'.frac))
      BY <2>1, <2>4, <1>0 DEF Advances, At
    <3>3. Advances(At(ideal.sec, ideal.frac), At(ideal'.sec, ideal'.frac))
      BY <2>2 DEF Advances, At
    <3>4. late \in Int
      BY <2>4
    <3> HIDE DEF late
    <3> DEFINE from == rtc.sec - bootEpoch + late
               to   == rtc'.sec - bootEpoch + late
    <3>7. from \in Int /\ to \in Int
      BY <1>0, <2>4, <3>4
    <3>8. NotAfter(At(ideal.sec, ideal.frac), At(from, rtc.frac))
          /\ Advances(At(from, rtc.frac), At(to, rtc'.frac))
      BY <3>1, <3>2
    <3> HIDE DEF from, to
    <3>9. NotAfter(At(ideal'.sec, ideal'.frac), At(to, rtc'.frac))
      BY <2>4, <3>3, <3>7, <3>8, TickOrder
    <3>5. NotAfter(At(ideal'.sec, ideal'.frac), At(rtc'.sec - bootEpoch + late, rtc'.frac))
      BY <3>9 DEF to
    <3>6. QED
      BY <1>1, <2>3, <3>5 DEF Elapsed, NotAfter, At, late
  <2>8. bootEpoch' <= rtc'.sec
    BY <1>0, <1>1, <2>1, <2>4, <2>5 DEF Tracks, Advances
  <2>9. PreviousIsFresh'
    <3>1. SUFFICES ASSUME w.pc = "correct"
                   PROVE  /\ bootEpoch' <= w'.previous
                          /\ \/ rtc'.sec = w'.previous
                             \/ (rtc'.sec = w'.previous + 1 /\ rtc'.frac < w'.stall)
      BY <1>1 DEF PreviousIsFresh
    <3>2. w'.stall = w.stall + 1 /\ w.stall \in Nat /\ w.stall < MaxStall /\ w.previous \in Nat
      BY <1>0, <3>1, ClockAssumption DEF Tick, Call
    <3>3. QED
      BY <1>1, <2>1, <2>4, <3>1, <3>2, ClockAssumption
         DEF ElapsedInv, PreviousIsFresh, Advances, Fraction
  <2>10. QED
    BY <2>6, <2>7, <2>8, <2>9, UpTracks, <1>1 DEF ElapsedInv, ElapsedTracksUptime
<1>3. CASE ~ Up
  BY <1>1, <1>3 DEF ElapsedInv, ElapsedTracksUptime, PreviousIsFresh, Up
<1>4. QED
  BY <1>2, <1>3

LEMMA CorrectElapsed ==
  ASSUME BaseInv, ElapsedInv, Correct
  PROVE  ElapsedInv'
<1> USE DEF BaseInv
<1>0. /\ w \in Call /\ rtc \in Clock /\ ideal \in Instant /\ bootEpoch \in Int
      /\ count \in Count
  BY Typed
<1>1. PICK f \in {0, rtc.frac} : rtc' = [running |-> TRUE, sec |-> w.target, frac |-> f]
  BY DEF Correct, SetRtc
<1>2. /\ bootEpoch' = bootEpoch + (w.target - w.previous)
      /\ count'.corrections = count.corrections + 1
      /\ ideal' = ideal /\ w.pc = "correct" /\ w'.pc \in {"compare", "idle"}
  BY <1>0 DEF Correct, ShiftedEpoch, Count, Idle, Call
<1>3. Tracks
  BY <1>2, UpTracks DEF ElapsedInv, Up
<1>4. /\ bootEpoch <= w.previous
      /\ rtc.sec = w.previous \/ rtc.sec = w.previous + 1
  BY <1>2 DEF ElapsedInv, PreviousIsFresh
<1>5. /\ rtc.sec \in Nat /\ rtc.frac \in Nat /\ f \in Nat /\ f <= rtc.frac
      /\ ideal.sec \in Nat /\ ideal.frac \in Nat /\ count.corrections \in Nat
      /\ w.previous \in Nat /\ w.target \in Nat
  BY <1>0, FractionsAre DEF Clock, Instant, Count, Call, Fraction
<1>6. rtc'.sec = w.target /\ rtc'.frac = f
  BY <1>1
<1>7. rtc'.sec - bootEpoch' = w.previous - bootEpoch
  BY <1>0, <1>2, <1>5, <1>6
<1>8. bootEpoch' <= rtc'.sec
  BY <1>0, <1>2, <1>4, <1>5, <1>6
<1>9. NotAfter(Elapsed', ideal')
  BY <1>0, <1>2, <1>3, <1>4, <1>5, <1>6, <1>7 DEF Tracks, Elapsed, NotAfter, At
<1>10. NotAfter(ideal, At(Elapsed.sec + 2 * count.corrections, Elapsed.frac))'
  BY <1>0, <1>2, <1>3, <1>4, <1>5, <1>6, <1>7 DEF Tracks, Elapsed, NotAfter, At
<1>11. QED
  BY <1>2, <1>8, <1>9, <1>10 DEF ElapsedInv, ElapsedTracksUptime, PreviousIsFresh

\* A step that leaves the clock and its epoch alone.
LEMMA SameElapsed ==
  ASSUME BaseInv, ElapsedInv, UNCHANGED <<rtc, bootEpoch, ideal>>,
         count'.corrections = count.corrections,
         Up' => Up, w'.pc # "correct"
  PROVE  ElapsedInv'
<1>1. Tracks => Tracks'
  BY DEF Tracks, Elapsed
<1>2. QED
  BY <1>1, UpTracks DEF ElapsedInv, ElapsedTracksUptime, Up, Tracks, PreviousIsFresh

LEMMA ElapsedStep ==
  ASSUME BaseInv, ElapsedInv, [Next]_vars
  PROVE  ElapsedInv'
<1> USE DEF BaseInv
<1>0. w \in Call /\ count \in Count /\ rtc \in Clock /\ bootEpoch \in Int
  BY Typed
<1>1. CASE Tick
  BY <1>1, TickElapsed
<1>2. CASE Correct
  BY <1>2, CorrectElapsed
<1>3. CASE Latch
  <2>1. /\ bootEpoch' = rtc.sec /\ ideal' = At(0, rtc.frac) /\ rtc' = rtc
        /\ count'.corrections = 0 /\ w'.pc = "idle"
    BY <1>0, <1>3 DEF Latch, Count, Idle
  <2>2. rtc.sec \in Nat /\ rtc.frac \in Nat
    BY <1>0, FractionsAre DEF Clock
  <2>3. Tracks'
    BY <2>1, <2>2 DEF Tracks, Elapsed, NotAfter, At
  <2>4. QED
    BY <2>1, <2>3 DEF Tracks, ElapsedInv, ElapsedTracksUptime, PreviousIsFresh
<1>4. CASE ReadPrevious
  <2>1. /\ w.pc = "set" /\ w'.pc = "correct" /\ w'.previous = rtc.sec
        /\ UNCHANGED <<rtc, bootEpoch, ideal, count>>
    BY <1>0, <1>4 DEF ReadPrevious, Accepts, Call, software
  <2>2. Tracks /\ Tracks'
    BY <2>1, UpTracks DEF ElapsedInv, Up, Tracks, Elapsed
  <2>3. QED
    BY <2>1, <2>2 DEF Tracks, ElapsedInv, ElapsedTracksUptime, PreviousIsFresh
<1>5. CASE Begin \/ Seed \/ SeedFails \/ Inherit
  <2>1. w'.pc \in {"seed", "inherit", "latch"}
    BY <1>0, <1>5 DEF Begin, Seed, SeedFails, Inherit, Call
  <2>2. QED
    BY <2>1 DEF ElapsedInv, ElapsedTracksUptime, PreviousIsFresh, Up
<1>6. CASE Reset \/ PowerLoss
  <2>1. w'.pc = "begin"
    BY <1>6 DEF Reset, PowerLoss, Restart, Boot, Idle
  <2>2. QED
    BY <2>1 DEF ElapsedInv, ElapsedTracksUptime, PreviousIsFresh, Up
<1>7. CASE Drift
  BY <1>7, EventKeepsCorrections DEF Drift, software, ElapsedInv, ElapsedTracksUptime,
       PreviousIsFresh, Elapsed, Up
<1>8. CASE \E t \in GroundTimes : Offer(t)
  <2>1. w.pc = "idle" /\ w'.pc = "set" /\ UNCHANGED <<rtc, bootEpoch, ideal>> /\ Event
    BY <1>8 DEF Offer, Idle, software
  <2>2. QED
    BY <2>1, SameElapsed, EventKeepsCorrections DEF Up
<1>9. CASE Push \/ Reseed
  <2>1. /\ w.pc = "idle" /\ w'.pc \in {"compare", "set"}
        /\ UNCHANGED <<rtc, bootEpoch, ideal, count>>
    BY <1>9 DEF Push, Reseed, Idle, software
  <2>2. QED
    BY <2>1, SameElapsed DEF Up
<1>10. CASE Refuse \/ Repeat \/ Compare \/ Adjust
  <2>1. /\ w.pc \in {"set", "compare", "adjust"} /\ w'.pc \in {"idle", "compare", "adjust"}
        /\ UNCHANGED <<rtc, bootEpoch, ideal, count>>
    BY <1>0, <1>10 DEF Refuse, Repeat, Accepts, Compare, Adjust, Finish, Idle, software, Call
  <2>2. QED
    BY <2>1, SameElapsed DEF Up
<1>11. CASE CorrectFails
  <2>1. w.pc = "correct" /\ w'.pc = "idle" /\ UNCHANGED <<rtc, bootEpoch, ideal>> /\ Event
    BY <1>11 DEF CorrectFails, Idle, software
  <2>2. QED
    BY <2>1, SameElapsed, EventKeepsCorrections DEF Up
<1>12. CASE SinceBoot
  <2>1. /\ UNCHANGED <<rtc, bootEpoch, ideal, w>> /\ w.pc \in {"idle", "compare", "adjust"}
    BY <1>12, SinceBootOnlyReads DEF ReaderRuns, software
  <2>2. count'.corrections = count.corrections
    BY <1>12, EventKeepsCorrections
       DEF SinceBoot, StartRead, ReadBefore, ReadFraction, ReadAfter, ReadWhole, ReadEpoch,
           UnchangedByReader
  <2>3. QED
    BY <2>1, <2>2, SameElapsed DEF Up
<1>13. CASE Skip \/ UNCHANGED vars
  BY <1>13 DEF Skip, vars, ElapsedInv, ElapsedTracksUptime, PreviousIsFresh, Elapsed, Up
<1>14. QED
  BY <1>1, <1>2, <1>3, <1>4, <1>5, <1>6, <1>7, <1>8, <1>9, <1>10, <1>11, <1>12, <1>13
     DEF Next, BeginSteps, Reconcile, SetUnixTime

-----------------------------------------------------------------------------
(***************************************************************************)
(* Readings                                                                *)
(***************************************************************************)

LEMMA LaterTrans ==
  ASSUME NEW a, NEW b, NEW c,
         a.sec \in Nat, b.sec \in Nat, c.sec \in Nat,
         a.frac \in Nat, b.frac \in Nat, c.frac \in Nat,
         NotAfter(a, b), NotAfter(b, c)
  PROVE  NotAfter(a, c)
  BY DEF NotAfter

\* The times that a reading is about.
LEMMA ReadFields ==
  ASSUME TypeOK
  PROVE  /\ r.start.sec \in Nat /\ r.start.frac \in Nat
         /\ r.value.sec \in Nat /\ r.value.frac \in Nat
         /\ r.before \in Nat /\ r.fraction \in Nat
         /\ rtc.sec \in Nat /\ rtc.frac \in Nat
         /\ ideal.sec \in Nat /\ ideal.frac \in Nat
  BY FractionsAre DEF TypeOK, Read, Instant

\* A step in which the clock goes on, or nothing happens, during a reading.
LEMMA ReadOn ==
  ASSUME BaseInv, BaseInv', ReadInv, r' = r,
         r.pc \in {"idle", "done"} \/ NotAfter(rtc, rtc'),
         NotAfter(ideal, ideal') \/ r.pc # "done"
  PROVE  ReadInv'
<1> USE DEF BaseInv
<1>1. /\ r.start.sec \in Nat /\ r.start.frac \in Nat
      /\ r.value.sec \in Nat /\ r.value.frac \in Nat
      /\ r.before \in Nat /\ r.fraction \in Nat
      /\ rtc.sec \in Nat /\ rtc.frac \in Nat /\ rtc'.sec \in Nat /\ rtc'.frac \in Nat
      /\ ideal.sec \in Nat /\ ideal.frac \in Nat /\ ideal'.sec \in Nat /\ ideal'.frac \in Nat
  BY ReadFields, FractionsAre DEF TypeOK, Instant
<1>2. CASE ~ r.clean
  BY <1>2 DEF ReadInv, ReadingSoFar, ReadingIsCurrent, ElapsedNeverAhead
<1>3. CASE r.clean /\ r.pc = "done"
  <2>1. NotAfter(r.value, ideal')
    BY <1>1, <1>3, LaterTrans DEF ReadInv, ElapsedNeverAhead
  <2>2. QED
    BY <1>3, <2>1 DEF ReadInv, ReadingSoFar, ReadingIsCurrent, ElapsedNeverAhead
<1>4. CASE r.clean /\ r.pc = "idle"
  BY <1>4 DEF ReadInv, ReadingSoFar, ReadingIsCurrent, ElapsedNeverAhead
<1>5. CASE r.clean /\ r.pc = "epoch"
  <2>1. NotAfter(r.start, rtc') /\ NotAfter(r.value, rtc')
    BY <1>1, <1>5, LaterTrans DEF ReadInv, ReadingSoFar, ReadingIsCurrent
  <2>2. QED
    BY <1>5, <2>1 DEF ReadInv, ReadingSoFar, ReadingIsCurrent, ElapsedNeverAhead
<1>6. CASE r.clean /\ r.pc \in {"before", "fraction", "after", "whole"}
  <2>1. NotAfter(r.start, rtc')
    BY <1>1, <1>6, LaterTrans DEF ReadInv, ReadingSoFar
  <2>2. NotAfter(rtc, rtc')
    BY <1>6
  <2>3. QED
    BY <1>1, <1>6, <2>1, <2>2
       DEF ReadInv, ReadingSoFar, ReadingIsCurrent, ElapsedNeverAhead, NotAfter, At
<1>7. QED
  BY <1>2, <1>3, <1>4, <1>5, <1>6 DEF TypeOK, Read

LEMMA AdvancesIsLater ==
  ASSUME NEW i, NEW j, i.sec \in Nat, i.frac \in Nat, Advances(i, j)
  PROVE  NotAfter(i, j)
  BY DEF Advances, NotAfter

\* What each step of sinceBootUsec() sees.
LEMMA SinceBootReads ==
  ASSUME BaseInv, ElapsedInv, ReadInv, SinceBoot
  PROVE  ReadInv'
<1> USE DEF BaseInv
<1>0. r \in Read /\ rtc \in Clock /\ ideal \in Instant /\ bootEpoch \in Int
  BY Typed
<1>1. UNCHANGED <<rtc, bootEpoch, ideal>> /\ Up
  BY SinceBootOnlyReads DEF software, ReaderRuns, Up
<1>2. /\ r.start.sec \in Nat /\ r.start.frac \in Nat
      /\ r.value.sec \in Nat /\ r.value.frac \in Nat
      /\ r.before \in Nat /\ r.fraction \in Nat
      /\ rtc.sec \in Nat /\ rtc.frac \in Nat
      /\ ideal.sec \in Nat /\ ideal.frac \in Nat
  BY ReadFields
<1>3. CASE StartRead
  <2>1. /\ r'.pc = "fraction" /\ r'.before = rtc.sec
        /\ r'.start.sec = rtc.sec /\ r'.start.frac = rtc.frac
    BY <1>3 DEF StartRead, NoRead, At
  <2>2. QED
    BY <1>1, <1>2, <2>1 DEF ReadInv, ReadingSoFar, ReadingIsCurrent, ElapsedNeverAhead, NotAfter
<1>4. CASE ReadBefore
  <2>1. /\ r.pc = "before" /\ r'.pc = "fraction" /\ r'.before = rtc.sec
        /\ r'.start = r.start /\ r'.clean = r.clean
    BY <1>0, <1>4 DEF ReadBefore, Reading, Read
  <2>2. QED
    BY <1>1, <1>2, <2>1 DEF ReadInv, ReadingSoFar, ReadingIsCurrent, ElapsedNeverAhead, NotAfter
<1>5. CASE ReadFraction
  <2>1. /\ r.pc = "fraction" /\ r'.pc = "after" /\ r'.fraction = rtc.frac
        /\ r'.before = r.before /\ r'.start = r.start /\ r'.clean = r.clean
    BY <1>0, <1>5 DEF ReadFraction, Reading, Read
  <2>2. QED
    BY <1>1, <1>2, <2>1
       DEF ReadInv, ReadingSoFar, ReadingIsCurrent, ElapsedNeverAhead, NotAfter, At
<1>6. CASE ReadAfter
  <2>1. r.pc = "after"
    BY <1>6 DEF ReadAfter, Reading
  <2>2. CASE SecondHeld
    <3>1. /\ r'.pc = "epoch" /\ r'.value.sec = r.before /\ r'.value.frac = r.fraction
          /\ r'.start = r.start /\ r'.clean = r.clean /\ rtc.sec = r.before
      BY <1>6, <2>2 DEF ReadAfter, SecondHeld, ToEpoch, NoRead, At
    <3>2. QED
      BY <1>1, <1>2, <2>1, <3>1
         DEF ReadInv, ReadingSoFar, ReadingIsCurrent, ElapsedNeverAhead, NotAfter, At
  <2>3. CASE ~ SecondHeld
    <3>1. /\ r'.pc \in {"before", "whole"} /\ rtc.sec # r.before
          /\ r'.start = r.start /\ r'.clean = r.clean
      BY <1>0, <1>6, <2>3 DEF ReadAfter, SecondHeld, Read
    <3>2. QED
      BY <1>1, <1>2, <2>1, <3>1
         DEF ReadInv, ReadingSoFar, ReadingIsCurrent, ElapsedNeverAhead, NotAfter
  <2>4. QED
    BY <2>2, <2>3
<1>7. CASE ReadWhole
  <2>1. /\ r.pc = "whole" /\ r'.pc = "epoch" /\ r'.value.sec = rtc.sec /\ r'.value.frac = 0
        /\ r'.start = r.start /\ r'.clean = r.clean
    BY <1>7 DEF ReadWhole, Reading, ToEpoch, NoRead, At
  <2>2. QED
    BY <1>1, <1>2, <2>1
       DEF ReadInv, ReadingSoFar, ReadingIsCurrent, ElapsedNeverAhead, NotAfter
<1>8. CASE ReadEpoch
  <2>1. /\ r.pc = "epoch" /\ r'.pc = "done" /\ r'.value = SinceEpoch(r.value)
        /\ r'.clean = r.clean
    BY <1>8 DEF ReadEpoch, Reading, NoRead
  <2>2. Tracks
    BY <1>1, UpTracks DEF ElapsedInv
  <2>3. r.clean => NotAfter(SinceEpoch(r.value), ideal)
    <3>1. SUFFICES ASSUME r.clean PROVE NotAfter(SinceEpoch(r.value), ideal)
      OBVIOUS
    <3>2. NotAfter(r.value, rtc)
      BY <2>1, <3>1 DEF ReadInv, ReadingIsCurrent
    <3>3. CASE r.value.sec >= bootEpoch
      BY <1>0, <1>2, <2>2, <3>2, <3>3 DEF SinceEpoch, Tracks, Elapsed, NotAfter, At
    <3>4. CASE ~(r.value.sec >= bootEpoch)
      BY <1>2, <3>4 DEF SinceEpoch, NotAfter, At
    <3>5. QED
      BY <3>3, <3>4
  <2>4. QED
    BY <1>1, <2>1, <2>3 DEF ReadInv, ReadingSoFar, ReadingIsCurrent, ElapsedNeverAhead
<1>9. QED
  BY <1>3, <1>4, <1>5, <1>6, <1>7, <1>8 DEF SinceBoot

LEMMA ReadStep ==
  ASSUME BaseInv, ElapsedInv, ReadInv, [Next]_vars
  PROVE  ReadInv'
<1> USE DEF BaseInv
<1>0. BaseInv' /\ w \in Call /\ r \in Read /\ rtc \in Clock /\ ideal \in Instant
  BY BaseStep, Typed
<1>1. NotAfter(rtc, rtc) /\ NotAfter(ideal, ideal)
  <2>1. rtc.frac \in Nat /\ ideal.frac \in Nat
    BY <1>0, FractionsAre DEF Clock, Instant
  <2>2. QED
    BY <2>1 DEF NotAfter
<1>2. CASE Tick
  <2>1. NotAfter(ideal, ideal')
    BY <1>0, <1>2, InstantTicks, AdvancesIsLater, FractionsAre DEF Tick, Instant
  <2>2. r.pc # "idle" => rtc.running
    BY <1>0 DEF BootsAlone, Booting, Up, Call
  <2>3. r.pc # "idle" => NotAfter(rtc, rtc')
    BY <1>0, <1>2, <2>2, ClockTicks, AdvancesIsLater, FractionsAre DEF Tick, Clock
  <2>4. QED
    BY <1>0, <1>2, <2>1, <2>3, ReadOn DEF Tick
<1>3. CASE BeginSteps
  <2>1. r' = r /\ Booting
    BY <1>3 DEF BeginSteps, Begin, Seed, SeedFails, Inherit, Latch, Booting, software
  <2>2. r.pc = "idle"
    BY <2>1 DEF BootsAlone
  <2>3. QED
    BY <1>0, <2>1, <2>2, ReadOn
<1>4. CASE Correct
  <2>1. r'.clean = FALSE
    BY <1>0, <1>4 DEF Correct, Read
  <2>2. QED
    BY <2>1 DEF ReadInv, ReadingSoFar, ReadingIsCurrent, ElapsedNeverAhead
<1>5. CASE Reset \/ PowerLoss
  <2>1. r'.pc = "idle"
    BY <1>5 DEF Reset, PowerLoss, Restart, NoRead
  <2>2. QED
    BY <2>1 DEF ReadInv, ReadingSoFar, ReadingIsCurrent, ElapsedNeverAhead
<1>6. CASE SinceBoot
  BY <1>6, SinceBootReads
<1>7. ASSUME UNCHANGED <<r, rtc, ideal>> PROVE ReadInv'
  BY <1>0, <1>1, <1>7, ReadOn
<1>8. CASE Drift \/ (\E t \in GroundTimes : Offer(t)) \/ Reconcile
  BY <1>7, <1>8 DEF Drift, Offer, Reconcile, Push, Reseed, Skip, software, vars
<1>9. CASE Refuse \/ Repeat \/ ReadPrevious \/ CorrectFails \/ Compare \/ Adjust
  BY <1>7, <1>9 DEF Refuse, Repeat, ReadPrevious, CorrectFails, Compare, Adjust, software
<1>10. CASE UNCHANGED vars
  BY <1>7, <1>10 DEF vars
<1>11. QED
  BY <1>2, <1>3, <1>4, <1>5, <1>6, <1>8, <1>9, <1>10 DEF Next, SetUnixTime

-----------------------------------------------------------------------------
(***************************************************************************)
(* The theorems                                                            *)
(***************************************************************************)

LEMMA InitInv == Init => ClockInv
<1>1. SUFFICES ASSUME Init PROVE ClockInv
  OBVIOUS
<1>2. TypeOK
  BY <1>1, InitType
<1>3. w.pc = "begin" /\ r.pc = "idle"
  BY <1>1 DEF Init, Boot, Idle, NoRead
<1>4. QED
  BY <1>2, <1>3
     DEF ClockInv, BaseInv, ElapsedInv, ReadInv, BootsAlone, OriginIsPlausible, Booting, Up,
         PreviousIsFresh, ElapsedTracksUptime, ReadingSoFar, ReadingIsCurrent,
         ElapsedNeverAhead

LEMMA Invariance == Spec => []ClockInv
<1>1. ClockInv /\ [Next]_vars => ClockInv'
  BY BaseStep, ElapsedStep, ReadStep DEF ClockInv
<1>2. QED
  BY InitInv, <1>1, PTL DEF Spec

\* Every variable keeps its type, whatever the length of a second, the times
\* that are sent and the number of attempts.
THEOREM TypeCorrect == Spec => []TypeOK
<1>1. ClockInv => TypeOK
  BY DEF ClockInv, BaseInv
<1>2. QED
  BY Invariance, <1>1, PTL

\* setUnixTime() keeps time since boot: any number of corrections, in either
\* direction, never puts it ahead of the time that passed nor below zero, and
\* each costs it less than two seconds.
THEOREM ElapsedTracks == Spec => []ElapsedTracksUptime
<1>1. ClockInv => ElapsedTracksUptime
  BY DEF ClockInv, ElapsedInv
<1>2. QED
  BY Invariance, <1>1, PTL

\* getUnixTimeUsec() pairs no second with the fraction of another, for any
\* number of attempts, while no correction is made.
THEOREM ReadingsAreCurrent == Spec => []ReadingIsCurrent
<1>1. ClockInv => ReadingIsCurrent
  BY DEF ClockInv, ReadInv
<1>2. QED
  BY Invariance, <1>1, PTL

\* sinceBootUsec() returns no more than the time that passed since boot, while
\* no correction is made between its two readings.
THEOREM ElapsedIsNeverAhead == Spec => []ElapsedNeverAhead
<1>1. ClockInv => ElapsedNeverAhead
  BY DEF ClockInv, ReadInv
<1>2. QED
  BY Invariance, <1>1, PTL

\* A clock with an origin holds a time at or after the oldest acceptable one,
\* over any sequence of boots, failures and times offered.
THEOREM KnownClocksArePlausible == Spec => []KnownClockIsPlausible
<1>1. ClockInv => KnownClockIsPlausible
  BY DEF ClockInv, BaseInv, BootsAlone, OriginIsPlausible, KnownClockIsPlausible, Up
<1>2. QED
  BY Invariance, <1>1, PTL

-----------------------------------------------------------------------------
(***************************************************************************)
(* The time accepted from the ground                                       *)
(***************************************************************************)

\* Some seconds, in fractions.
Whole(n) == n * F

\* What one carrying over of a whole second may lose.
Lag == F - 1 + MaxStall

\* This many fractions are no further from the time accepted, but for drift.
Near(x, d) ==
  /\ x - Ticks(ground) <= d + Whole(ground.drift)
  /\ Ticks(ground) - x <= d + Whole(ground.drift)

\* Who is setting the clock, and what the ground has been promised.
Owner ==
  /\ w.pc = "seed" => ds.present
  /\ w.pc \in {"set", "correct"} => w.from \in {Ground, Ds1307}
  /\ w.pc \in {"set", "correct"} /\ w.from = Ds1307 => ds.present /\ source # Ground
  /\ w.pc \in {"compare", "adjust"} => w.from = Ground /\ ds.present
  /\ source = Ground => Up
  /\ source = Ground /\ w.pc \notin {"compare", "adjust"} => ground.settled

\* The clock is on the time accepted while it is under the ground.
OnGround ==
  source = Ground \/ w.pc \in {"compare", "adjust"} => Ticks(rtc) = Ticks(ground)

\* What the DS1307 is compared with is no older than the call.
PushIsFresh ==
  w.pc \in {"compare", "adjust"} =>
    Whole(w.target) <= Ticks(rtc) /\ Ticks(rtc) <= Whole(w.target) + F - 1 + w.stall

\* How far from it each clock may be, and what the DS1307 is about to seed.
DsNear == ground.settled /\ ds.present => Near(Ticks(ds), Lag)

RtcNear == ground.settled /\ rtc.running => Near(Ticks(rtc), 2 * Lag)

FromDs1307 == w.pc = "seed" \/ (w.pc \in {"set", "correct"} /\ w.from = Ds1307)

SeedNear ==
  ground.settled /\ FromDs1307 =>
    /\ Whole(w.target) - Ticks(ground) <= Lag + Whole(ground.drift)
    /\ Ticks(ground) - Whole(w.target) <= Lag + F - 1 + w.stall + Whole(ground.drift)

GroundInv == Owner /\ OnGround /\ PushIsFresh /\ DsNear /\ RtcNear /\ SeedNear

LEMMA WholeIs ==
  ASSUME NEW m \in Int, NEW n \in Int
  PROVE  /\ Whole(m) \in Int /\ Whole(m + n) = Whole(m) + Whole(n)
         /\ m >= 0 => Whole(m) >= 0
         /\ Whole(0) = 0 /\ Whole(1) = F /\ Whole(-m) = - Whole(m)
<1>1. F \in Nat
  BY ClockAssumption
<1>2. \A k \in Nat : Whole(m) \in Int /\ (m >= 0 => m * k >= 0)
  BY <1>1 DEF Whole
<1>3. QED
  BY <1>1, <1>2 DEF Whole

LEMMA WholeNat ==
  ASSUME NEW n \in Nat
  PROVE  Whole(n) \in Nat /\ Whole(n + 1) = Whole(n) + F
<1>1. Whole(n) \in Int /\ (n >= 0 => Whole(n) >= 0) /\ Whole(n + 1) = Whole(n) + Whole(1)
  BY WholeIs
<1>2. Whole(1) = F
  BY WholeIs
<1>3. QED
  BY <1>1, <1>2

LEMMA WholeDistance ==
  ASSUME NEW d \in Int
  PROVE  /\ Distance(d, 0) \in Nat
         /\ Whole(d) <= Whole(Distance(d, 0)) /\ - Whole(d) <= Whole(Distance(d, 0))
<1>1. Whole(-d) = - Whole(d) /\ Whole(d) \in Int
  BY WholeIs
<1>2. CASE d < 0
  <2>1. Distance(d, 0) = - d
    BY <1>2 DEF Distance
  <2>2. Whole(- d) >= 0
    BY <1>2, WholeIs
  <2>3. QED
    BY <1>1, <1>2, <2>1, <2>2
<1>3. CASE d >= 0
  <2>1. Distance(d, 0) = d
    BY <1>3 DEF Distance
  <2>2. Whole(d) >= 0
    BY <1>3, WholeIs
  <2>3. QED
    BY <1>1, <1>3, <2>1, <2>2
<1>4. QED
  BY <1>2, <1>3

\* A clock in fractions.
LEMMA TicksAre ==
  ASSUME NEW i, i.sec \in Nat, i.frac \in Fraction
  PROVE  /\ Ticks(i) \in Nat /\ Ticks(i) = Whole(i.sec) + i.frac
         /\ Whole(i.sec) <= Ticks(i) /\ Ticks(i) <= Whole(i.sec) + F - 1
<1>1. Ticks(i) = Whole(i.sec) + i.frac
  BY DEF Ticks, Whole
<1>2. Whole(i.sec) \in Nat
  BY WholeNat
<1>3. i.frac \in Nat /\ i.frac <= F - 1
  BY ClockAssumption DEF Fraction
<1>4. QED
  BY <1>1, <1>2, <1>3, ClockAssumption

LEMMA TicksAdvance ==
  ASSUME NEW i, i.sec \in Nat, i.frac \in Fraction,
         NEW j, Advances(i, j)
  PROVE  Ticks(j) = Ticks(i) + 1
<1>1. Ticks(i) = Whole(i.sec) + i.frac /\ Ticks(j) = Whole(j.sec) + j.frac
  BY DEF Ticks, Whole
<1>2. /\ Whole(i.sec + 1) = Whole(i.sec) + F /\ Whole(i.sec) \in Nat
      /\ i.frac \in Nat /\ F \in Nat
  BY WholeNat, FractionsAre, ClockAssumption
<1>3. CASE i.frac + 1 < F /\ j.sec = i.sec /\ j.frac = i.frac + 1
  BY <1>1, <1>2, <1>3
<1>4. CASE i.frac + 1 = F /\ j.sec = i.sec + 1 /\ j.frac = 0
  BY <1>1, <1>2, <1>4
<1>5. QED
  BY <1>3, <1>4 DEF Advances

LEMMA DsAdvances ==
  ASSUME NEW i \in Ds
  PROVE  Advances(i, Ticked(i)) /\ Ticked(i).present = i.present
<1>1. i.frac \in Fraction /\ i.sec \in Nat
  BY DEF Ds
<1>2. CASE Within(i)
  BY <1>1, <1>2 DEF Within, Ds, Advances
<1>3. CASE Carries(i)
  <2>1. PICK n \in Nat : n = i.sec + 1
    BY <1>1
  <2>2. Ticked(i) = [i EXCEPT !.sec = n, !.frac = 0]
    BY <1>3, <2>1 DEF Carries
  <2>3. QED
    BY <1>3, <2>1, <2>2, FractionsAre DEF Carries, Ds, Advances
<1>4. QED
  BY <1>1, <1>2, <1>3, TickCases, Zenon

LEMMA PromiseAdvances ==
  ASSUME NEW i \in Promise
  PROVE  /\ Advances(i, Ticked(i))
         /\ Ticked(i).settled = i.settled /\ Ticked(i).drift = i.drift
<1>1. i.frac \in Fraction /\ i.sec \in Nat
  BY DEF Promise
<1>2. CASE Within(i)
  BY <1>1, <1>2 DEF Within, Promise, Advances
<1>3. CASE Carries(i)
  <2>1. PICK n \in Nat : n = i.sec + 1
    BY <1>1
  <2>2. Ticked(i) = [i EXCEPT !.sec = n, !.frac = 0]
    BY <1>3, <2>1 DEF Carries
  <2>3. QED
    BY <1>3, <2>1, <2>2, FractionsAre DEF Carries, Promise, Advances
<1>4. QED
  BY <1>1, <1>2, <1>3, TickCases, Zenon

\* The clocks of a state, in fractions.
LEMMA TicksOfClocks ==
  ASSUME TypeOK
  PROVE  /\ Ticks(rtc) \in Nat /\ Ticks(ds) \in Nat /\ Ticks(ground) \in Nat
         /\ Whole(rtc.sec) <= Ticks(rtc) /\ Ticks(rtc) <= Whole(rtc.sec) + F - 1
         /\ Whole(ds.sec) <= Ticks(ds) /\ Ticks(ds) <= Whole(ds.sec) + F - 1
         /\ Whole(ground.drift) \in Nat /\ Whole(w.target) \in Int
         /\ w.stall \in Nat /\ w.stall <= MaxStall
         /\ F \in Nat /\ F > 1 /\ MaxStall \in Nat
<1>1. /\ rtc.sec \in Nat /\ rtc.frac \in Fraction /\ ds.sec \in Nat /\ ds.frac \in Fraction
      /\ ground.sec \in Nat /\ ground.frac \in Fraction /\ ground.drift \in Nat
      /\ w.target \in Nat /\ w.stall \in 0 .. MaxStall
  BY DEF TypeOK, Call
<1>2. Whole(ground.drift) \in Nat /\ Whole(w.target) \in Int
  BY <1>1, WholeNat
<1>3. /\ Ticks(rtc) \in Nat
      /\ Whole(rtc.sec) <= Ticks(rtc) /\ Ticks(rtc) <= Whole(rtc.sec) + F - 1
      /\ Ticks(ds) \in Nat
      /\ Whole(ds.sec) <= Ticks(ds) /\ Ticks(ds) <= Whole(ds.sec) + F - 1
      /\ Ticks(ground) \in Nat
  BY <1>1, TicksAre
<1>4. QED
  BY <1>1, <1>2, <1>3, ClockAssumption

\* What SetRtc() leaves, in fractions.
LEMMA SetTicks ==
  ASSUME TypeOK, NEW t \in Nat, SetRtc(t)
  PROVE  /\ rtc'.running /\ rtc'.sec = t /\ Ticks(rtc)' \in Nat
         /\ Whole(t) <= Ticks(rtc)' /\ Ticks(rtc)' <= Whole(t) + F - 1
<1>1. rtc' \in Clock /\ rtc'.sec = t /\ rtc'.running
  BY SetRtcType
<1>2. rtc'.sec \in Nat /\ rtc'.frac \in Fraction
  BY <1>1 DEF Clock
<1>3. /\ Ticks(rtc') \in Nat
      /\ Whole(rtc'.sec) <= Ticks(rtc') /\ Ticks(rtc') <= Whole(rtc'.sec) + F - 1
  BY <1>2, TicksAre
<1>4. QED
  BY <1>1, <1>3 DEF Ticks

LEMMA TickGround ==
  ASSUME BaseInv, GroundInv, Tick
  PROVE  GroundInv'
<1>1. /\ rtc \in Clock /\ ideal \in Instant /\ ds \in Ds /\ ground \in Promise
      /\ w \in Call
  BY Typed DEF BaseInv
<1>2. /\ Ticks(rtc)' = IF rtc.running THEN Ticks(rtc) + 1 ELSE Ticks(rtc)
      /\ rtc'.running = rtc.running
  <2>1. CASE rtc.running
    <3>1. rtc' = Ticked(rtc)
      BY <2>1 DEF Tick
    <3>2. Advances(rtc, Ticked(rtc)) /\ Ticked(rtc).running = rtc.running
      BY <1>1, ClockTicks
    <3>3. Ticks(Ticked(rtc)) = Ticks(rtc) + 1
      BY <1>1, <3>2, TicksAdvance DEF Clock
    <3>4. QED
      BY <2>1, <3>1, <3>2, <3>3 DEF Ticks
  <2>2. CASE ~ rtc.running
    <3>1. rtc' = rtc
      BY <2>2 DEF Tick
    <3>2. QED
      BY <2>2, <3>1 DEF Ticks
  <2>3. QED
    BY <2>1, <2>2
<1>3. Ticks(ds)' = Ticks(ds) + 1 /\ ds'.present = ds.present
  <2>1. Advances(ds, Ticked(ds)) /\ Ticked(ds).present = ds.present
    BY <1>1, DsAdvances
  <2>2. Ticks(Ticked(ds)) = Ticks(ds) + 1
    BY <1>1, <2>1, TicksAdvance DEF Ds
  <2>3. QED
    BY <2>1, <2>2 DEF Ticks, Tick
<1>4. /\ Ticks(ground)' = Ticks(ground) + 1
      /\ ground'.settled = ground.settled /\ ground'.drift = ground.drift
  <2>1. /\ Advances(ground, Ticked(ground))
        /\ Ticked(ground).settled = ground.settled /\ Ticked(ground).drift = ground.drift
    BY <1>1, PromiseAdvances
  <2>2. Ticks(Ticked(ground)) = Ticks(ground) + 1
    BY <1>1, <2>1, TicksAdvance DEF Promise
  <2>3. QED
    BY <2>1, <2>2 DEF Ticks, Tick
<1>5. /\ w'.pc = w.pc /\ w'.from = w.from /\ w'.target = w.target
      /\ w.pc # "idle" => w'.stall = w.stall + 1
      /\ source' = source
  BY <1>1 DEF Tick, Call, software
<1>6. Owner'
  BY <1>3, <1>4, <1>5 DEF GroundInv, Owner, Up
<1>7. source = Ground \/ w.pc \in {"compare", "adjust"} => rtc.running
  BY DEF BaseInv, BootsAlone, GroundInv, Owner, Up
<1>8. OnGround' /\ PushIsFresh'
  BY <1>2, <1>4, <1>5, <1>7, TicksOfClocks
     DEF BaseInv, GroundInv, OnGround, PushIsFresh, Whole
<1>9. DsNear' /\ RtcNear' /\ SeedNear'
  BY <1>2, <1>3, <1>4, <1>5, TicksOfClocks
     DEF BaseInv, GroundInv, DsNear, RtcNear, SeedNear, FromDs1307, Near, Lag, Whole
<1>10. QED
  BY <1>6, <1>8, <1>9 DEF GroundInv

LEMMA DriftGround ==
  ASSUME BaseInv, GroundInv, Drift
  PROVE  GroundInv'
<1>1. PICK d \in Drifts : /\ ds.sec + d \in Nat
                          /\ ds' = [ds EXCEPT !.sec = @ + d]
                          /\ ground' = [ground EXCEPT !.drift = @ + Distance(d, 0)]
  BY DEF Drift
<1>2. d \in Int /\ ds \in Ds /\ ground \in Promise
  BY Typed, ClockAssumption DEF BaseInv
<1>3. /\ ds'.sec = ds.sec + d /\ ds'.frac = ds.frac /\ ds'.present = ds.present
      /\ ground'.sec = ground.sec /\ ground'.frac = ground.frac
      /\ ground'.settled = ground.settled /\ ground'.drift = ground.drift + Distance(d, 0)
  BY <1>1, <1>2 DEF Ds, Promise
<1>4. /\ Whole(ds.sec + d) = Whole(ds.sec) + Whole(d) /\ Whole(ds.sec) \in Int
      /\ Whole(d) \in Int
  BY <1>2, WholeIs DEF Ds
<1>5. Distance(d, 0) \in Nat
  BY <1>2, WholeDistance
<1>6. /\ Whole(ground.drift + Distance(d, 0)) = Whole(ground.drift) + Whole(Distance(d, 0))
      /\ Whole(Distance(d, 0)) \in Nat
  <2>1. ground.drift \in Int /\ Distance(d, 0) \in Int
    BY <1>2, <1>5 DEF Promise
  <2>2. Whole(ground.drift + Distance(d, 0)) = Whole(ground.drift) + Whole(Distance(d, 0))
    BY <2>1, WholeIs, Zenon
  <2>3. QED
    BY <1>5, <2>2, WholeNat
<1>7. Whole(d) <= Whole(Distance(d, 0)) /\ - Whole(d) <= Whole(Distance(d, 0))
  BY <1>2, WholeDistance
<1>8. Ticks(ds)' = Ticks(ds) + Whole(d)
  <2>1. ds.frac \in Nat
    BY <1>2, FractionsAre DEF Ds
  <2>2. Ticks(ds) = Whole(ds.sec) + ds.frac /\ Ticks(ds)' = Whole(ds.sec + d) + ds.frac
    BY <1>3 DEF Ticks, Whole
  <2>3. QED
    BY <1>4, <2>1, <2>2
<1>9. /\ Ticks(ground)' = Ticks(ground) /\ Ticks(rtc)' = Ticks(rtc)
      /\ Whole(ground.drift)' = Whole(ground.drift) + Whole(Distance(d, 0))
      /\ rtc' = rtc /\ w' = w /\ source' = source
  BY <1>3, <1>6 DEF Ticks, Whole, Drift, software
<1>10. Owner' /\ OnGround' /\ PushIsFresh'
  BY <1>3, <1>9 DEF GroundInv, Owner, Up, OnGround, PushIsFresh, Whole
<1>11. Whole(w.target)' = Whole(w.target)
  BY <1>9 DEF Whole
<1>12. DsNear' /\ RtcNear' /\ SeedNear'
  BY <1>3, <1>4, <1>6, <1>7, <1>8, <1>9, <1>11, TicksOfClocks
     DEF BaseInv, GroundInv, DsNear, RtcNear, SeedNear, FromDs1307, Near, Lag
<1>13. QED
  BY <1>10, <1>12 DEF GroundInv

\* What the steps below leave alone.
SameClocks == UNCHANGED <<rtc, ds, ground>>

LEMMA SameTicks ==
  /\ rtc' = rtc => Ticks(rtc)' = Ticks(rtc)
  /\ ds' = ds => Ticks(ds)' = Ticks(ds)
  /\ ground' = ground =>
       Ticks(ground)' = Ticks(ground) /\ Whole(ground.drift)' = Whole(ground.drift)
  /\ w'.target = w.target => Whole(w.target)' = Whole(w.target)
  BY DEF Ticks, Whole

\* The fields of the call that a step sets, and keeps.
Moved(pc) ==
  w'.pc = pc /\ w'.from = w.from /\ w'.target = w.target /\ w'.stall = w.stall

LEMMA MovedIs ==
  ASSUME w \in Call, NEW pc, w' = [w EXCEPT !.pc = pc]
  PROVE  Moved(pc)
  BY DEF Moved, Call

Called(pc, from, target) ==
  w'.pc = pc /\ w'.from = from /\ w'.target = target /\ w'.stall = 0

LEMMA CalledIs ==
  ASSUME NEW pc, NEW from, NEW target,
         w' = [Idle EXCEPT !.pc = pc, !.from = from, !.target = target]
  PROVE  Called(pc, from, target)
  BY DEF Called, Idle

\* A call that begins or ends, and a boot: no clock is touched.
LEMMA ReleasedGround ==
  ASSUME BaseInv, GroundInv, SameClocks,
         w'.pc \in {"idle", "begin", "inherit", "latch"},
         source' \in {source, Survived, None},
         source' = source => w.pc \notin {"compare", "adjust"},
         source' = source /\ source = Ground => w'.pc = "idle"
  PROVE  GroundInv'
<1>1. /\ Ticks(rtc)' = Ticks(rtc) /\ Ticks(ds)' = Ticks(ds) /\ rtc' = rtc /\ ds' = ds
      /\ Ticks(ground)' = Ticks(ground) /\ Whole(ground.drift)' = Whole(ground.drift)
      /\ ground' = ground
  BY SameTicks DEF SameClocks
<1>2. Survived # Ground /\ None # Ground
  BY DEF Survived, None, Ground
<1>3. QED
  BY <1>1, <1>2 DEF GroundInv, Owner, Up, OnGround, PushIsFresh, DsNear, RtcNear, SeedNear,
                    FromDs1307, Near

LEMMA BeginGround ==
  ASSUME BaseInv, GroundInv, BeginSteps
  PROVE  GroundInv'
<1>0. w \in Call /\ TypeOK
  BY DEF BaseInv, TypeOK
<1>a. source # Ground \/ Up
  BY DEF GroundInv, Owner
<1>1. CASE Begin
  <2>1. /\ w'.pc = "seed" => ds.present
        /\ w'.pc \in {"seed", "inherit"} /\ w'.target = ds.sec /\ w'.stall = w.stall
        /\ rtc' = rtc /\ ds' = ds /\ ground' = ground /\ source' = source
        /\ w.pc = "begin"
    BY <1>0, <1>1 DEF Begin, Call
  <2>2. source # Ground
    BY <1>a, <2>1 DEF Up
  <2>3. Owner' /\ OnGround' /\ PushIsFresh'
    BY <2>1, <2>2 DEF GroundInv, Owner, Up, OnGround, PushIsFresh
  <2>4. /\ Ticks(rtc)' = Ticks(rtc) /\ Ticks(ds)' = Ticks(ds)
        /\ Ticks(ground)' = Ticks(ground) /\ Whole(ground.drift)' = Whole(ground.drift)
        /\ Whole(w.target)' = Whole(ds.sec)
    BY <2>1, SameTicks DEF Whole
  <2>5. DsNear' /\ RtcNear'
    BY <2>1, <2>4 DEF GroundInv, DsNear, RtcNear, Near
  <2>6. SeedNear'
    <3>1. SUFFICES ASSUME ground.settled, ds.present
                   PROVE  /\ Whole(ds.sec) - Ticks(ground) <= Lag + Whole(ground.drift)
                          /\ Ticks(ground) - Whole(ds.sec)
                               <= Lag + F - 1 + w.stall + Whole(ground.drift)
      BY <2>1, <2>4 DEF SeedNear, FromDs1307, Lag
    <3>2. Near(Ticks(ds), Lag)
      BY <3>1 DEF GroundInv, DsNear
    <3>3. Whole(ds.sec) \in Nat
      BY <1>0, WholeNat DEF TypeOK
    <3>4. QED
      BY <1>0, <3>2, <3>3, TicksOfClocks DEF Near, Lag
  <2>7. QED
    BY <2>3, <2>5, <2>6 DEF GroundInv
<1>2. CASE Seed
  <2>1. /\ w'.pc = "latch" /\ source' = Ds1307 /\ w.pc = "seed" /\ SetRtc(w.target)
        /\ ds' = ds /\ ground' = ground /\ w.target \in Nat
    BY <1>0, <1>2 DEF Seed, Call
  <2>2. /\ Whole(w.target) <= Ticks(rtc)' /\ Ticks(rtc)' <= Whole(w.target) + F - 1
        /\ Ticks(rtc)' \in Nat
    BY <1>0, <2>1, SetTicks
  <2>3. Ds1307 # Ground
    BY DEF Ds1307, Ground
  <2>4. Owner' /\ OnGround' /\ PushIsFresh' /\ SeedNear'
    BY <2>1, <2>3 DEF GroundInv, Owner, Up, OnGround, PushIsFresh, SeedNear, FromDs1307
  <2>5. /\ Ticks(ds)' = Ticks(ds) /\ Ticks(ground)' = Ticks(ground)
        /\ Whole(ground.drift)' = Whole(ground.drift)
    BY <2>1, SameTicks
  <2>6. DsNear'
    BY <2>1, <2>5 DEF GroundInv, DsNear, Near
  <2>7. RtcNear'
    BY <1>0, <2>1, <2>2, <2>5, TicksOfClocks
       DEF GroundInv, SeedNear, FromDs1307, RtcNear, Near, Lag
  <2>8. QED
    BY <2>4, <2>6, <2>7 DEF GroundInv
<1>3. CASE SeedFails
  BY <1>0, <1>a, <1>3, MovedIs, ReleasedGround DEF SeedFails, SameClocks, software, Moved, Up
<1>4. CASE Inherit
  <2>1. /\ w'.pc = "latch" /\ w.pc = "inherit" /\ source' \in {Survived, None}
        /\ ds' = ds
    BY <1>0, <1>4, MovedIs DEF Inherit, Moved
  <2>2. CASE Inherits
    <3>1. ground' = ground
      BY <1>0, <1>4, <2>2, Zenon DEF Inherit, TypeOK
    <3>2. rtc' = rtc
      BY <1>4, <2>2 DEF Inherit
    <3>3. source # Ground
      BY <1>a, <2>1 DEF Up
    <3>4. QED
      BY <2>1, <3>1, <3>2, <3>3, ReleasedGround DEF SameClocks
  <2>3. CASE ~ Inherits
    <3>1. ~ ground'.settled
      BY <1>0, <1>4, <2>3 DEF Inherit, TypeOK
    <3>2. Survived # Ground /\ None # Ground
      BY DEF Survived, None, Ground
    <3>3. QED
      BY <2>1, <3>1, <3>2 DEF GroundInv, Owner, Up, OnGround, PushIsFresh, DsNear, RtcNear,
                              SeedNear, FromDs1307
  <2>4. QED
    BY <2>2, <2>3
<1>5. CASE Latch
  <2>1. w'.pc = "idle" /\ w.pc = "latch" /\ source' = source /\ SameClocks
    BY <1>5 DEF Latch, Idle, SameClocks
  <2>2. QED
    BY <2>1, ReleasedGround
<1>6. QED
  BY <1>1, <1>2, <1>3, <1>4, <1>5 DEF BeginSteps

\* A call that goes on, or begins with a time of its own, on the same clocks.
LEMMA GoesOnGround ==
  ASSUME BaseInv, GroundInv, SameClocks, source' = source,
         w.pc \in {"idle", "set", "compare"}, source = Ground => Up',
         Owner', PushIsFresh', SeedNear',
         w'.pc \in {"compare", "adjust"} =>
           source = Ground \/ w.pc \in {"compare", "adjust"}
  PROVE  GroundInv'
<1>1. /\ Ticks(rtc)' = Ticks(rtc) /\ Ticks(ds)' = Ticks(ds) /\ rtc' = rtc /\ ds' = ds
      /\ Ticks(ground)' = Ticks(ground) /\ Whole(ground.drift)' = Whole(ground.drift)
      /\ ground' = ground
  BY SameTicks DEF SameClocks
<1>2. QED
  BY <1>1 DEF GroundInv, OnGround, DsNear, RtcNear, Near

LEMMA OfferGround ==
  ASSUME BaseInv, GroundInv, NEW t \in GroundTimes, Offer(t)
  PROVE  GroundInv'
<1>1. /\ Called("set", Ground, t) /\ w.pc = "idle" /\ SameClocks /\ source' = source
      /\ ground' = ground /\ ds' = ds
  BY CalledIs DEF Offer, SameClocks, software
<1>2. Owner' /\ PushIsFresh' /\ SeedNear' /\ Up'
  BY <1>1 DEF Called, GroundInv, Owner, Up, PushIsFresh, SeedNear, FromDs1307, Ground, Ds1307
<1>3. w'.pc = "set"
  BY <1>1 DEF Called
<1>4. QED
  BY <1>1, <1>2, <1>3, GoesOnGround

LEMMA ReconcileGround ==
  ASSUME BaseInv, GroundInv, Reconcile
  PROVE  GroundInv'
<1>0. TypeOK
  BY DEF BaseInv
<1>1. CASE Push
  <2>1. /\ Called("compare", Ground, rtc.sec) /\ w.pc = "idle" /\ SameClocks
        /\ source' = source /\ source = Ground /\ ds.present /\ ds' = ds /\ ground' = ground
        /\ rtc' = rtc
    BY <1>1, CalledIs DEF Push, SameClocks, software
  <2>2. Owner' /\ SeedNear' /\ Up'
    BY <2>1 DEF Called, GroundInv, Owner, Up, SeedNear, FromDs1307
  <2>3. PushIsFresh'
    <3>1. Whole(w.target)' = Whole(rtc.sec) /\ Ticks(rtc)' = Ticks(rtc) /\ w'.stall = 0
      BY <2>1 DEF Called, Ticks, Whole
    <3>2. /\ Whole(rtc.sec) <= Ticks(rtc) /\ Ticks(rtc) <= Whole(rtc.sec) + F - 1
          /\ Whole(rtc.sec) + F - 1 \in Int
      <4>1. Whole(rtc.sec) \in Nat
        BY <1>0, WholeNat DEF TypeOK
      <4>2. QED
        BY <1>0, <4>1, TicksOfClocks
    <3>3. Ticks(rtc) <= Whole(rtc.sec) + F - 1 + 0
      BY <3>2
    <3>4. QED
      BY <3>1, <3>2, <3>3, Zenon DEF PushIsFresh
  <2>4. QED
    BY <2>1, <2>2, <2>3, GoesOnGround
<1>2. CASE Reseed
  <2>1. /\ Called("set", Ds1307, ds.sec) /\ w.pc = "idle" /\ SameClocks
        /\ source' = source /\ source # Ground /\ ds.present /\ ds' = ds /\ ground' = ground
    BY <1>2, CalledIs DEF Reseed, SameClocks, software
  <2>2. Owner' /\ PushIsFresh' /\ Up'
    BY <2>1 DEF Called, GroundInv, Owner, Up, PushIsFresh
  <2>3. SeedNear'
    <3>1. /\ Whole(w.target)' = Whole(ds.sec) /\ w'.stall = 0
          /\ Ticks(ground)' = Ticks(ground) /\ Whole(ground.drift)' = Whole(ground.drift)
      BY <2>1 DEF Called, Ticks, Whole
    <3>2. SUFFICES ASSUME ground.settled
                   PROVE  /\ Whole(ds.sec) - Ticks(ground) <= Lag + Whole(ground.drift)
                          /\ Ticks(ground) - Whole(ds.sec)
                               <= Lag + F - 1 + 0 + Whole(ground.drift)
      BY <2>1, <3>1 DEF SeedNear, Lag
    <3>3. Near(Ticks(ds), Lag)
      BY <2>1, <3>2 DEF GroundInv, DsNear
    <3>4. Whole(ds.sec) \in Nat
      BY <1>0, WholeNat DEF TypeOK
    <3>5. QED
      BY <1>0, <3>3, <3>4, TicksOfClocks DEF Near, Lag
  <2>4. w'.pc = "set"
    BY <2>1 DEF Called
  <2>5. QED
    BY <2>1, <2>2, <2>3, <2>4, GoesOnGround
<1>3. CASE Skip
  BY <1>3, SameTicks
     DEF Skip, vars, software, GroundInv, Owner, Up, OnGround, PushIsFresh, DsNear, RtcNear,
         SeedNear, FromDs1307, Near
<1>4. QED
  BY <1>1, <1>2, <1>3 DEF Reconcile

\* The clock has just been set for the ground, or was on its time already.
LEMMA AcceptedGround ==
  ASSUME BaseInv, GroundInv, TypeOK', w.pc \in {"set", "correct"}, w.from = Ground,
         rtc'.running, Whole(w.target) <= Ticks(rtc)',
         Ticks(rtc)' <= Whole(w.target) + F - 1,
         Ticks(ground)' = Ticks(rtc)', ds' = ds,
         \/ /\ Moved("compare") /\ ds.present /\ source' = source
            /\ ~ ground'.settled
         \/ /\ w' = Idle /\ source' = Ground /\ ground'.settled
            /\ ds.present => DsNear'
  PROVE  GroundInv'
<1>0. TypeOK
  BY DEF BaseInv
<1>1. /\ Ticks(rtc)' \in Nat /\ Whole(ground.drift)' \in Nat
      /\ F \in Nat /\ F > 1 /\ MaxStall \in Nat
  <2>1. /\ rtc'.sec \in Nat /\ rtc'.frac \in Fraction /\ ground'.drift \in Nat
    BY DEF TypeOK
  <2>2. Ticks(rtc') \in Nat /\ Whole(ground'.drift) \in Nat
    BY <2>1, TicksAre, WholeNat
  <2>3. QED
    BY <2>2, ClockAssumption DEF Ticks, Whole
<1>2. RtcNear' /\ OnGround'
  BY <1>1 DEF RtcNear, Near, Lag, OnGround
<1>3. CASE Moved("compare") /\ ds.present /\ source' = source /\ ~ ground'.settled
  <2>1. Owner' /\ SeedNear' /\ DsNear'
    BY <1>3 DEF Moved, GroundInv, Owner, Up, SeedNear, FromDs1307, DsNear
  <2>2. PushIsFresh'
    <3>1. Whole(w.target)' = Whole(w.target) /\ w'.stall = w.stall
      BY <1>3 DEF Moved, Whole
    <3>2. w.stall \in Nat /\ Whole(w.target) \in Int
      BY <1>0, TicksOfClocks
    <3>3. Ticks(rtc)' <= Whole(w.target) + F - 1 + w.stall
      BY <1>1, <3>2
    <3>4. QED
      BY <3>1, <3>3 DEF PushIsFresh
  <2>3. QED
    BY <1>2, <2>1, <2>2 DEF GroundInv
<1>4. CASE /\ w' = Idle /\ source' = Ground /\ ground'.settled
           /\ ds.present => DsNear'
  <2>1. w'.pc = "idle"
    BY <1>4 DEF Idle
  <2>2. Owner' /\ SeedNear' /\ PushIsFresh'
    BY <1>4, <2>1 DEF Owner, Up, SeedNear, FromDs1307, PushIsFresh
  <2>3. DsNear'
    BY <1>4 DEF DsNear
  <2>4. QED
    BY <1>2, <2>2, <2>3 DEF GroundInv
<1>5. QED
  BY <1>3, <1>4

LEMMA RepeatGround ==
  ASSUME BaseInv, GroundInv, TypeOK', Repeat
  PROVE  GroundInv'
<1>0. TypeOK /\ w \in Call /\ ground \in Promise
  BY Typed DEF BaseInv
<1>1. /\ Accepts /\ w.pc = "set" /\ rtc.sec = w.target /\ source' = w.from
      /\ rtc' = rtc /\ ds' = ds /\ rtc.running
  BY DEF Repeat, Accepts, BaseInv, BootsAlone, Up
<1>2. CASE w.from = Ground
  <2>1. /\ ground'.settled = ~ RepeatWritesDs1307
        /\ ground'.sec = rtc.sec /\ ground'.frac = rtc.frac
        /\ w.from = source => ground'.drift = ground.drift
    BY <1>2, Zenon DEF Repeat, Accepted
  <2>2. /\ Ticks(rtc)' = Ticks(rtc) /\ Ticks(ground)' = Ticks(rtc)
        /\ Ticks(ds)' = Ticks(ds)
    BY <1>1, <2>1 DEF Ticks
  <2>3. /\ Whole(w.target) <= Ticks(rtc)' /\ Ticks(rtc)' <= Whole(w.target) + F - 1
    BY <1>0, <1>1, <2>2, TicksOfClocks
  <2>4. CASE RepeatWritesDs1307
    <3>1. /\ Moved("compare") /\ ~ ground'.settled
      BY <1>0, <2>1, <2>4, MovedIs DEF Repeat
    <3>2. ds.present /\ source' = w.from
      BY <1>1, <2>4 DEF RepeatWritesDs1307, WritesDs1307
    <3>3. Owner' /\ SeedNear' /\ DsNear' /\ RtcNear' /\ OnGround'
      BY <1>1, <1>2, <2>2, <3>1, <3>2
         DEF Moved, Owner, Up, SeedNear, DsNear, RtcNear, OnGround
    <3>4. PushIsFresh'
      <4>1. Whole(w.target)' = Whole(w.target) /\ w'.stall = w.stall
        BY <3>1 DEF Moved, Whole
      <4>2. /\ w.stall \in Nat /\ Whole(w.target) \in Int /\ Ticks(rtc) \in Nat
            /\ F \in Nat
        BY <1>0, TicksOfClocks
      <4>3. Ticks(rtc)' <= Whole(w.target) + F - 1 + w.stall
        BY <2>2, <2>3, <4>2
      <4>4. QED
        BY <2>3, <4>1, <4>3 DEF PushIsFresh
    <3>5. QED
      BY <3>3, <3>4 DEF GroundInv
  <2>5. CASE ~ RepeatWritesDs1307
    <3>1. w' = Idle /\ source' = Ground /\ ground'.settled
      BY <1>1, <1>2, <2>1, <2>5 DEF Repeat
    <3>2. ASSUME ds.present
          PROVE  DsNear'
      <4>1. source = Ground
        BY <1>2, <2>5, <3>2 DEF RepeatWritesDs1307, WritesDs1307, Ground, Ds1307
      <4>2. ground.settled /\ Ticks(ground) = Ticks(rtc)
        BY <1>1, <4>1 DEF GroundInv, Owner, OnGround
      <4>3. Whole(ground.drift)' = Whole(ground.drift)
        BY <1>2, <2>1, <4>1 DEF Whole
      <4>4. Near(Ticks(ds), Lag)
        BY <3>2, <4>2 DEF GroundInv, DsNear
      <4>5. QED
        BY <2>2, <4>2, <4>3, <4>4 DEF DsNear, Near
    <3>3. rtc'.running /\ Ticks(ground)' = Ticks(rtc)'
      BY <1>1, <2>2
    <3>4. QED
      BY <1>1, <1>2, <2>3, <3>1, <3>2, <3>3, AcceptedGround
  <2>6. QED
    BY <2>4, <2>5
<1>3. CASE w.from # Ground
  <2>1. w.from = Ds1307 /\ source # Ground
    BY <1>1, <1>3 DEF GroundInv, Owner
  <2>2. ground' = ground /\ w' = Idle
    BY <1>3, <2>1, Zenon DEF Repeat, Accepted, RepeatWritesDs1307, WritesDs1307
  <2>3. /\ Ticks(rtc)' = Ticks(rtc) /\ Ticks(ds)' = Ticks(ds)
        /\ Ticks(ground)' = Ticks(ground) /\ Whole(ground.drift)' = Whole(ground.drift)
    BY <1>1, <2>2, SameTicks
  <2>4. w'.pc = "idle"
    BY <2>2 DEF Idle
  <2>5. QED
    BY <1>1, <1>3, <2>2, <2>3, <2>4
       DEF GroundInv, Owner, Up, OnGround, PushIsFresh, DsNear, RtcNear, SeedNear,
           FromDs1307, Near
<1>4. QED
  BY <1>2, <1>3

LEMMA CorrectGround ==
  ASSUME BaseInv, GroundInv, TypeOK', Correct
  PROVE  GroundInv'
<1>0. TypeOK /\ w \in Call /\ w.target \in Nat
  BY DEF BaseInv, TypeOK, Call
<1>1. w.pc = "correct" /\ SetRtc(w.target) /\ ds' = ds
  BY DEF Correct
<1>2. /\ rtc'.running /\ Ticks(rtc)' \in Nat
      /\ Whole(w.target) <= Ticks(rtc)' /\ Ticks(rtc)' <= Whole(w.target) + F - 1
  BY <1>0, <1>1, SetTicks
<1>3. CASE w.from = Ground
  <2>1. /\ ground'.settled = ~ WritesDs1307
        /\ ground'.sec = rtc'.sec /\ ground'.frac = rtc'.frac
    BY <1>3, Zenon DEF Correct, Accepted
  <2>2. Ticks(ground)' = Ticks(rtc)'
    BY <2>1 DEF Ticks
  <2>3. WritesDs1307 <=> ds.present
    BY <1>3 DEF WritesDs1307, Ground, Ds1307
  <2>4. \/ Moved("compare") /\ ds.present /\ source' = source /\ ~ ground'.settled
        \/ w' = Idle /\ source' = Ground /\ ground'.settled /\ ~ ds.present
    BY <1>0, <1>3, <2>1, <2>3, MovedIs DEF Correct
  <2>5. QED
    BY <1>1, <1>2, <1>3, <2>2, <2>4, AcceptedGround
<1>4. CASE w.from # Ground
  <2>1. w.from = Ds1307 /\ source # Ground
    BY <1>1, <1>4 DEF GroundInv, Owner
  <2>2. ground' = ground /\ w' = Idle /\ source' = w.from
    BY <1>4, <2>1, Zenon DEF Correct, Accepted, WritesDs1307
  <2>3. /\ Ticks(ds)' = Ticks(ds)
        /\ Ticks(ground)' = Ticks(ground) /\ Whole(ground.drift)' = Whole(ground.drift)
    BY <1>1, <2>2, SameTicks
  <2>4. w'.pc = "idle"
    BY <2>2 DEF Idle
  <2>5. Owner' /\ OnGround' /\ PushIsFresh' /\ DsNear' /\ SeedNear'
    BY <1>1, <1>4, <2>2, <2>3, <2>4
       DEF GroundInv, Owner, Up, OnGround, PushIsFresh, DsNear, SeedNear, FromDs1307, Near
  <2>6. RtcNear'
    <3>1. SUFFICES ASSUME ground.settled
                   PROVE  /\ Ticks(rtc)' - Ticks(ground) <= 2 * Lag + Whole(ground.drift)
                          /\ Ticks(ground) - Ticks(rtc)' <= 2 * Lag + Whole(ground.drift)
      BY <2>2, <2>3 DEF RtcNear, Near, Lag
    <3>2. /\ Whole(w.target) - Ticks(ground) <= Lag + Whole(ground.drift)
          /\ Ticks(ground) - Whole(w.target) <= Lag + F - 1 + w.stall + Whole(ground.drift)
      BY <1>1, <2>1, <3>1 DEF GroundInv, SeedNear, FromDs1307
    <3>3. QED
      BY <1>0, <1>2, <3>2, TicksOfClocks DEF Lag
  <2>7. QED
    BY <2>5, <2>6 DEF GroundInv
<1>5. QED
  BY <1>3, <1>4

\* The end of a call that reached the DS1307, which is on its time by now.
LEMMA FinishGround ==
  ASSUME BaseInv, GroundInv, Finish, w.pc \in {"compare", "adjust"}, rtc' = rtc,
         ds'.present = ds.present, Ticks(ds)' \in Nat,
         Whole(w.target) <= Ticks(ds)', Ticks(ds)' <= Whole(w.target) + F - 1
  PROVE  GroundInv'
<1>0. TypeOK /\ ground \in Promise
  BY Typed DEF BaseInv
<1>1. /\ ground'.sec = ground.sec /\ ground'.frac = ground.frac /\ ground'.drift = 0
      /\ w'.pc = "idle" /\ source' = Ground
  BY <1>0 DEF Finish, Idle, Promise, GroundInv, Owner
<1>2. /\ Ticks(ground)' = Ticks(ground) /\ Ticks(rtc)' = Ticks(rtc)
      /\ Ticks(rtc) = Ticks(ground) /\ Whole(ground.drift)' = 0
  BY <1>1, WholeIs DEF Ticks, Whole, GroundInv, OnGround
<1>3. Owner' /\ OnGround' /\ PushIsFresh' /\ SeedNear'
  BY <1>0, <1>1, <1>2
     DEF Finish, Promise, Owner, Up, OnGround, PushIsFresh, SeedNear, FromDs1307
<1>4. Whole(w.target) <= Ticks(rtc) /\ Ticks(rtc) <= Whole(w.target) + F - 1 + w.stall
  BY DEF GroundInv, PushIsFresh
<1>5. DsNear' /\ RtcNear'
  BY <1>0, <1>2, <1>4, TicksOfClocks DEF DsNear, RtcNear, Near, Lag
<1>6. QED
  BY <1>3, <1>5 DEF GroundInv

LEMMA SetUnixTimeGround ==
  ASSUME BaseInv, GroundInv, TypeOK', SetUnixTime
  PROVE  GroundInv'
<1>0. TypeOK /\ w \in Call /\ w.target \in Nat
  BY DEF BaseInv, TypeOK, Call
<1>1. CASE Refuse
  BY <1>1, ReleasedGround DEF Refuse, SameClocks, software, Idle
<1>2. CASE Repeat
  BY <1>2, RepeatGround
<1>3. CASE ReadPrevious
  <2>1. /\ w'.pc = "correct" /\ w'.from = w.from /\ w'.target = w.target /\ w'.stall = w.stall
        /\ w.pc = "set" /\ SameClocks /\ source' = source /\ ds' = ds /\ ground' = ground
    BY <1>0, <1>3 DEF ReadPrevious, Accepts, Call, SameClocks, software
  <2>2. /\ Ticks(ground)' = Ticks(ground) /\ Whole(ground.drift)' = Whole(ground.drift)
        /\ Whole(w.target)' = Whole(w.target)
    BY <2>1, SameTicks
  <2>3. Owner' /\ PushIsFresh' /\ SeedNear' /\ Up'
    BY <2>1, <2>2 DEF GroundInv, Owner, Up, PushIsFresh, SeedNear, FromDs1307
  <2>4. QED
    BY <2>1, <2>3, GoesOnGround
<1>4. CASE Correct
  BY <1>4, CorrectGround
<1>5. CASE CorrectFails
  BY <1>5, ReleasedGround DEF CorrectFails, SameClocks, software, Idle
<1>6. CASE Compare
  <2>1. w.pc = "compare" /\ rtc' = rtc /\ ds' = ds
    BY <1>6 DEF Compare
  <2>2. CASE ds.sec = w.target
    <3>1. Finish /\ Ticks(ds)' = Ticks(ds)
      BY <1>6, <2>1, <2>2, SameTicks DEF Compare
    <3>2. /\ Ticks(ds) \in Nat /\ Whole(w.target) <= Ticks(ds)
          /\ Ticks(ds) <= Whole(w.target) + F - 1
      BY <1>0, <2>2, TicksOfClocks
    <3>3. QED
      BY <2>1, <3>1, <3>2, FinishGround
  <2>3. CASE ds.sec # w.target
    <3>1. /\ Moved("adjust") /\ source' = source /\ SameClocks /\ ground' = ground
      BY <1>0, <1>6, <2>1, <2>3, MovedIs DEF Compare, SameClocks
    <3>2. Ticks(rtc)' = Ticks(rtc) /\ Whole(w.target)' = Whole(w.target)
      BY <2>1, <3>1, SameTicks DEF Moved
    <3>3. Owner' /\ PushIsFresh' /\ SeedNear' /\ Up'
      BY <2>1, <3>1, <3>2 DEF Moved, GroundInv, Owner, Up, PushIsFresh, SeedNear, FromDs1307
    <3>4. QED
      BY <2>1, <3>1, <3>3, GoesOnGround
  <2>4. QED
    BY <2>2, <2>3
<1>7. CASE Adjust
  <2>1. /\ w.pc = "adjust" /\ Finish /\ rtc' = rtc
        /\ ds'.sec = w.target /\ ds'.frac = 0 /\ ds'.present = ds.present
    BY <1>0, <1>7 DEF Adjust, TypeOK
  <2>2. /\ Ticks(ds') \in Nat /\ Whole(ds'.sec) <= Ticks(ds')
        /\ Ticks(ds') <= Whole(ds'.sec) + F - 1
    BY <1>0, <2>1, FractionsAre, TicksAre
  <2>3. QED
    BY <2>1, <2>2, FinishGround DEF Ticks
<1>8. QED
  BY <1>1, <1>2, <1>3, <1>4, <1>5, <1>6, <1>7 DEF SetUnixTime

LEMMA RestartGround ==
  ASSUME BaseInv, GroundInv, Reset \/ PowerLoss
  PROVE  GroundInv'
<1>1. w'.pc = "begin" /\ source' = None /\ ds' = ds
  BY DEF Reset, PowerLoss, Restart, Boot, Idle
<1>2. None # Ground
  BY DEF None, Ground
<1>3. Owner' /\ OnGround' /\ PushIsFresh' /\ SeedNear'
  BY <1>1, <1>2 DEF Owner, Up, OnGround, PushIsFresh, SeedNear, FromDs1307
<1>4. DsNear' /\ RtcNear'
  <2>1. CASE Reset
    <3>1. rtc' = rtc /\ ground' = ground
      BY <2>1 DEF Reset
    <3>2. QED
      BY <1>1, <3>1, SameTicks DEF GroundInv, DsNear, RtcNear, Near
  <2>2. CASE PowerLoss
    <3>1. ~ rtc'.running
      BY <2>2 DEF PowerLoss
    <3>2. /\ ground'.sec = ground.sec /\ ground'.frac = ground.frac
          /\ ground'.drift = ground.drift
          /\ ground'.settled => ground.settled
      BY <2>2 DEF PowerLoss, BaseInv, TypeOK
    <3>3. /\ Ticks(ground)' = Ticks(ground) /\ Whole(ground.drift)' = Whole(ground.drift)
          /\ Ticks(ds)' = Ticks(ds)
      BY <1>1, <3>2 DEF Ticks, Whole
    <3>4. QED
      BY <1>1, <3>1, <3>2, <3>3 DEF GroundInv, DsNear, RtcNear, Near
  <2>3. QED
    BY <2>1, <2>2
<1>5. QED
  BY <1>3, <1>4 DEF GroundInv

LEMMA GroundStep ==
  ASSUME ClockInv, GroundInv, [Next]_vars
  PROVE  GroundInv'
<1>0. BaseInv /\ TypeOK'
  BY NextType DEF ClockInv, BaseInv
<1>1. CASE SinceBoot \/ UNCHANGED vars
  <2>1. rtc' = rtc /\ ds' = ds /\ ground' = ground /\ source' = source /\ w' = w
    BY <1>1, SinceBootOnlyReads DEF software, vars
  <2>2. QED
    BY <2>1, SameTicks
       DEF GroundInv, Owner, Up, OnGround, PushIsFresh, DsNear, RtcNear, SeedNear, FromDs1307,
           Near
<1>2. QED
  BY <1>0, <1>1, TickGround, DriftGround, BeginGround, OfferGround, ReconcileGround,
     SetUnixTimeGround, RestartGround DEF Next

LEMMA InitGround == Init => GroundInv
  BY DEF Init, Boot, Idle, GroundInv, Owner, OnGround, PushIsFresh, DsNear, RtcNear,
         SeedNear, FromDs1307, Ground, None

\* A time the ground was told is set is kept for any length of second and of
\* call: whatever resets, failures and reconciliations follow, no clock leaves
\* it by more than whole seconds lose when they are carried to the DS1307 and
\* back, and by what the DS1307 drifts.
THEOREM GroundTimeIsKept == Spec => []GroundTimeKept
<1>1. ClockInv /\ GroundInv => GroundTimeKept
  <2>1. SUFFICES ASSUME ClockInv, GroundInv, w.pc = "idle", ground.settled
                 PROVE  Distance(Ticks(rtc), Ticks(ground)) <= Slack + ground.drift * F
    BY DEF GroundTimeKept
  <2>2. TypeOK /\ Near(Ticks(rtc), 2 * Lag)
    BY <2>1 DEF ClockInv, BaseInv, BootsAlone, Up, GroundInv, RtcNear
  <2>3. Slack = 2 * Lag /\ ground.drift * F = Whole(ground.drift)
    BY DEF Slack, Lag, Whole
  <2>4. QED
    BY <2>2, <2>3, TicksOfClocks DEF Near, Distance, Lag
<1>2. ClockInv /\ GroundInv /\ [Next]_vars => GroundInv'
  BY GroundStep
<1>3. QED
  BY Invariance, InitGround, <1>1, <1>2, PTL DEF Spec

=============================================================================
