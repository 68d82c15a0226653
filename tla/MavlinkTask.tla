----------------------------- MODULE MavlinkTask -----------------------------
(***************************************************************************)
(* TaskMavlink of src/mavlink.cpp: the wait, the dispatch of what the link *)
(* readers posted, and the schedule it keeps for each port by a            *)
(* millisecond count that wraps.  The readers and the writers run at its   *)
(* priority or above, so it may be late by up to MaxStall in each pass.    *)
(* enqueueWrite() never waits: what leaves the task is only counted.  The  *)
(* end of a pass (stability window, retry) is in BootRecovery, the clocks  *)
(* in SystemClock, the log requests it forwards in LogDownload.            *)
(***************************************************************************)
EXTENDS Integers, Sequences, FiniteSets

CONSTANTS
  Ports,               \* LINK_CHAN_UART and LINK_CHAN_USB
  Rows,                \* the rows of a schedule, by what each emits
  Interval,            \* interval_ms of each row at the start
  Lead,                \* how long before startMs each last_ms is seeded
  MinInterval,         \* the floor of 1000 ms for housekeeping
  BatteryLogInterval,  \* kBatteryLogIntervalMs
  Wrap,                \* milliseconds are a uint32_t: 2^32
  MaxStall,            \* the longest the task is kept from running in a pass
  Arriving,            \* what the ground may send
  ReadDepth,           \* the depth of linkReadQueue: 8
  Boards,              \* "normal", "noCard", "reduced": what setup() decided
  Slots,               \* kHousekeepingSlots
  Exists               \* Exists[board]: the slots with a task, or a heap figure

Heartbeat == "heartbeat"
Battery == "battery"
Housekeeping == "housekeeping"

Message == [port : Ports, kind : STRING, row : STRING, interval : Nat]

\* The task is late by at most one beat, and the millisecond count is far
\* longer than any interval.
ASSUME MavlinkAssumption ==
  /\ Ports # {} /\ IsFiniteSet(Rows) /\ {Heartbeat, Housekeeping} \subseteq Rows
  /\ Interval \in [Rows -> Nat \ {0}] /\ Lead \in [Rows -> Nat]
  /\ MinInterval \in Nat /\ BatteryLogInterval \in Nat
  /\ MaxStall \in Nat /\ Wrap \in Nat
  /\ \A r \in Rows : /\ Lead[r] <= Interval[r] /\ MaxStall <= Interval[r]
                     /\ Interval[r] + MaxStall < Wrap
  /\ Interval[Heartbeat] <= MinInterval
  /\ Interval[Heartbeat] <= BatteryLogInterval
  /\ BatteryLogInterval + Interval[Heartbeat] + 2 * MaxStall <= Wrap
  /\ Arriving \subseteq Message
  /\ \A a \in Arriving : a.interval + MaxStall < Wrap
  /\ ReadDepth \in Nat \ {0}
  /\ Slots \in Nat
  /\ \A b \in Boards : Exists[b] \subseteq 0 .. Slots - 1 /\ Exists[b] # {}

VARIABLES
  board,           \* reducedConfiguration and taskSdWriteHandler, of this boot
  pc,              \* where TaskMavlink is
  clock,           \* xTaskGetTickCount() * portTICK_PERIOD_MS
  now,             \* the local of that name
  waitMs,          \* how long this pass may wait
  linkReadQueue,   \* messages, each with the port it came in on
  schedule,        \* schedule[port][row]
  lastBatteryLog,  \* lastBatteryLogMs
  cursor,          \* housekeepingCursor
  lag,             \* how long this pass has been kept from running
  posted,          \* history: the frames posted to each port in this pass
  age,             \* history: time since the last beat of a row was due
  batteryAge,      \* history: the same of the battery record
  told             \* history: the slots told to each port in this lap

taskVars == <<pc, now, waitMs, schedule, lastBatteryLog, cursor, posted, told>>
vars == <<taskVars, board, clock, linkReadQueue, lag, age, batteryAge>>

\* uint32_t arithmetic on milliseconds.
Add(a, b) == IF a + b >= Wrap THEN a + b - Wrap ELSE a + b
Sub(a, b) == IF a >= b THEN a - b ELSE a - b + Wrap

Reduced == board = "reduced"
HasCard == board = "normal"

\* A text to each port; a reply of n frames to one.
Texts(n) == [p \in Ports |-> n]
To(port, n) == [p \in Ports |-> IF p = port THEN n ELSE 0]

Post(frames) == posted' = [p \in Ports |-> posted[p] + frames[p]]

SeededRow(r) ==
  [interval |-> Interval[r],
   last     |-> Sub(clock, Lead[r]),
   enabled  |-> /\ r # Housekeeping
                /\ r = Battery => ~Reduced]

Init ==
  /\ board \in Boards
  /\ pc = "boot" /\ clock = 0 /\ now = 0 /\ waitMs = 0 /\ lag = 0
  /\ linkReadQueue = <<>>
  /\ schedule = [p \in Ports |-> [r \in Rows |->
                   [interval |-> Interval[r], last |-> 0, enabled |-> FALSE]]]
  /\ lastBatteryLog = 0
  /\ cursor = [p \in Ports |-> 0]
  /\ posted = Texts(0)
  /\ age = [p \in Ports |-> [r \in Rows |-> 0]]
  /\ batteryAge = 0
  /\ told = [p \in Ports |-> {}]

\* Up to the loop: the statement of the last reset and that of the clock on
\* both ports, then the schedule is seeded from startMs.
Start ==
  /\ pc = "boot"
  /\ Post(Texts(2))
  /\ schedule' = [p \in Ports |-> [r \in Rows |-> SeededRow(r)]]
  /\ lastBatteryLog' = Sub(clock, BatteryLogInterval)
  /\ age' = [p \in Ports |-> [r \in Rows |-> Lead[r]]]
  /\ batteryAge' = BatteryLogInterval
  /\ pc' = "top"
  /\ UNCHANGED <<board, clock, now, waitMs, linkReadQueue, cursor, lag, told>>

MutLogBattery ==                     \* only while nothing waits
  IF /\ ~Reduced /\ linkReadQueue = <<>>
     /\ Sub(clock, lastBatteryLog) >= BatteryLogInterval
  THEN /\ lastBatteryLog' = Add(lastBatteryLog, BatteryLogInterval)
       /\ batteryAge' = batteryAge - BatteryLogInterval
  ELSE UNCHANGED <<lastBatteryLog, batteryAge>>

\* The battery record of the flight log, once for both ports.
LogBattery ==
  IF ~Reduced /\ Sub(clock, lastBatteryLog) >= BatteryLogInterval
  THEN /\ lastBatteryLog' = Add(lastBatteryLog, BatteryLogInterval)
       /\ batteryAge' = batteryAge - BatteryLogInterval
  ELSE UNCHANGED <<lastBatteryLog, batteryAge>>

\* How long until a row is due, and the least of that over both ports.
DueIn(row, t) ==
  LET elapsed == Sub(t, row.last)
  IN IF elapsed >= row.interval THEN 0 ELSE row.interval - elapsed

Enabled == {pr \in Ports \X Rows : schedule[pr[1]][pr[2]].enabled}

IsWait(w, t) ==
  /\ \A pr \in Enabled : w <= DueIn(schedule[pr[1]][pr[2]], t)
  /\ \E pr \in Enabled : w = DueIn(schedule[pr[1]][pr[2]], t)

\* The head of the loop.  The clocks are reconciled every six hours, with a
\* text on each port when that changes the clock's origin: in any pass.
BeginPass ==
  /\ pc = "top"
  /\ now' = clock
  /\ \E texts \in {0, 1} : posted' = Texts(texts)
  /\ LogBattery
  /\ \E w \in 0 .. Wrap - 1 : IsWait(w, clock) /\ waitMs' = w
  /\ pc' = "wait"
  /\ UNCHANGED <<board, clock, linkReadQueue, schedule, cursor, lag, age, told>>

\* xQueueReceive() on linkReadQueue: what came in, or nothing in time.
Waited == Sub(clock, now) >= waitMs

TimeOut ==
  /\ pc = "wait" /\ linkReadQueue = <<>> /\ Waited
  /\ pc' = "rows"
  /\ UNCHANGED <<board, clock, now, waitMs, linkReadQueue, schedule,
                 lastBatteryLog, cursor, lag, posted, age, batteryAge, told>>

Take(m) ==
  /\ pc = "wait" /\ linkReadQueue # <<>> /\ m = Head(linkReadQueue)
  /\ linkReadQueue' = Tail(linkReadQueue)
  /\ pc' = "rows"
  /\ UNCHANGED <<board, clock, now, waitMs, lastBatteryLog, cursor, lag,
                 batteryAge, told>>

\* MAV_CMD_SET_MESSAGE_INTERVAL.  Only housekeeping can be set, down to the
\* floor; an interval of zero or less stops it.
SetsHousekeeping(m) == m.kind = "setInterval" /\ m.row = Housekeeping

\* The row starts from `now`, which was read before the wait.
Arm(m) ==
  /\ Take(m) /\ SetsHousekeeping(m) /\ m.interval >= MinInterval
  /\ schedule' = [schedule EXCEPT ![m.port][Housekeeping] =
                    [interval |-> m.interval, last |-> now, enabled |-> TRUE]]
  /\ age' = [age EXCEPT ![m.port][Housekeeping] = Sub(clock, now)]
  /\ Post(To(m.port, 1))

\* What a row that is off keeps in last_ms is overwritten before it is read.
Disarm(m) ==
  /\ Take(m) /\ SetsHousekeeping(m) /\ m.interval = 0
  /\ schedule' = [schedule EXCEPT ![m.port][Housekeeping] = 
                    [@ EXCEPT !.enabled = FALSE, !.last = 0]]
  /\ age' = [age EXCEPT ![m.port][Housekeeping] = 0]
  /\ Post(To(m.port, 1))

\* The messages that are served on request without a row of the schedule.
OneShot == {"autopilotVersion", "protocolVersion", "statustext"}

\* A request is answered with an acknowledgement and the message, or only
\* with the refusal: the message is not one, has no one-shot form, or its
\* stream is withheld.
Served(m) ==
  \/ m.row \in OneShot
  \/ m.row \in Rows \ {Housekeeping} /\ schedule[m.port][m.row].enabled

\* The frames of every other answer.  A message is "ignored" when its case is
\* empty, and so are an offered time that is refused or leaves the origin as
\* it is, a TIMESYNC that is itself a reply and the end of a log download.
\* One frame: the refusals, an unknown command, MISSION_COUNT, TIMESYNC and
\* the text about a message without a case.
Answer(m) ==
  CASE m.kind = "capabilities"                    -> To(m.port, 2)
    [] m.kind = "request" /\ Served(m)            -> To(m.port, 2)
    [] m.kind = "getInterval" /\ m.row # "noId"   -> To(m.port, 2)
    [] m.kind = "clockSet"                        -> Texts(1)
    [] m.kind \in {"logList", "logData"}          -> To(m.port, IF HasCard THEN 0 ELSE 1)
    [] m.kind = "ignored"                         -> Texts(0)
    [] OTHER                                      -> To(m.port, 1)

Reply(m) ==
  /\ Take(m)
  /\ SetsHousekeeping(m) => m.interval \in 1 .. MinInterval - 1
  /\ Post(Answer(m))
  /\ UNCHANGED <<schedule, age>>

\* nextHousekeepingValue(): the first slot from the cursor that exists; the
\* cursor moves past it and past those it skipped.
Ahead(c, s) == IF s >= c THEN s - c ELSE s - c + Slots
MutNextSlot(c) == c                  \* does not skip a task that is not there
NextSlot(c) ==
  CHOOSE s \in Exists[board] :
    \A t \in Exists[board] : Ahead(c, s) <= Ahead(c, t)
After(s) == IF s = Slots - 1 THEN 0 ELSE s + 1
MutAdvance(c) == After(c)            \* moves by one, over a skipped slot too
Advance(c) == After(NextSlot(c))

\* Told once more in a lap, a slot begins the next.
Tell(lap, s) == IF s \in lap THEN {s} ELSE lap \union {s}

MutIsDue(row, t) ==                  \* absolute times, not their difference
  row.enabled /\ t >= Add(row.last, row.interval)

\* The rows that are due by a clock read anew: each emits once and moves on
\* by one interval, however late it is.
IsDue(row, t) == row.enabled /\ Sub(t, row.last) >= row.interval
MutAdvanced(row, t) == [row EXCEPT !.last = t]     \* from when it was emitted
Advanced(row, t) == [row EXCEPT !.last = Add(row.last, row.interval)]
DueRows(p) == {r \in Rows : IsDue(schedule[p][r], clock)}

EmitDue ==
  /\ pc = "rows"
  /\ now' = clock
  /\ Post([p \in Ports |-> Cardinality(DueRows(p))])
  /\ schedule' = [p \in Ports |-> [r \in Rows |->
       IF r \in DueRows(p) THEN Advanced(schedule[p][r], clock)
       ELSE schedule[p][r]]]
  /\ age' = [p \in Ports |-> [r \in Rows |->
       IF r \in DueRows(p) THEN age[p][r] - schedule[p][r].interval
       ELSE age[p][r]]]
  /\ cursor' = [p \in Ports |->
       IF Housekeeping \in DueRows(p) THEN Advance(cursor[p]) ELSE cursor[p]]
  /\ told' = [p \in Ports |->
       IF Housekeeping \in DueRows(p) THEN Tell(told[p], NextSlot(cursor[p]))
       ELSE told[p]]
  /\ pc' = "top" /\ lag' = 0 /\ waitMs' = 0    \* out of its scope
  /\ UNCHANGED <<board, clock, linkReadQueue, lastBatteryLog, batteryAge>>

\* TaskLinkRead: a byte that completes a message posts it, or drops it
\* without a trace when the queue is full.
LinkRead(a) ==
  /\ Len(linkReadQueue) < ReadDepth
  /\ linkReadQueue' = Append(linkReadQueue, a)
  /\ UNCHANGED <<taskVars, board, clock, lag, age, batteryAge>>

\* A millisecond passes.  Outside its wait the task is only kept from
\* running by the others, for no longer than MaxStall in a pass.
Blocked == pc = "wait" /\ linkReadQueue = <<>> /\ ~Waited

Tick ==
  /\ IF Blocked THEN UNCHANGED lag ELSE lag < MaxStall /\ lag' = lag + 1
  /\ clock' = Add(clock, 1)
  /\ age' = [p \in Ports |-> [r \in Rows |->
       IF schedule[p][r].enabled THEN age[p][r] + 1 ELSE age[p][r]]]
  /\ batteryAge' = IF Reduced \/ pc = "boot" THEN batteryAge ELSE batteryAge + 1
  /\ UNCHANGED <<taskVars, board, linkReadQueue>>

MavlinkStep ==
  \/ Start \/ BeginPass \/ TimeOut \/ EmitDue
  \/ \E m \in Arriving : Arm(m) \/ Disarm(m) \/ Reply(m)

Next == MavlinkStep \/ (\E a \in Arriving : LinkRead(a)) \/ Tick

Spec == Init /\ [][Next]_vars

-----------------------------------------------------------------------------
\* ScheduleEntry.
RowType == [interval : Nat, last : 0 .. Wrap - 1, enabled : BOOLEAN]

\* The types of the task's state; the cursor and what was told are of slots,
\* and of tasks that exist.
TypeOK ==
  /\ board \in Boards
  /\ pc \in {"boot", "top", "wait", "rows"}
  /\ {clock, now, waitMs, lastBatteryLog} \subseteq 0 .. Wrap - 1
  /\ linkReadQueue \in Seq(Arriving) /\ Len(linkReadQueue) <= ReadDepth
  /\ schedule \in [Ports -> [Rows -> RowType]]
  /\ cursor \in [Ports -> 0 .. Slots - 1]
  /\ lag \in 0 .. MaxStall
  /\ posted \in [Ports -> Nat]
  /\ age \in [Ports -> [Rows -> Nat]]
  /\ batteryAge \in Nat
  /\ told \in [Ports -> SUBSET Exists[board]]

\* Each row's count is exactly the beats that were due: none is emitted early,
\* lost or doubled by a late pass, by a pass that answers a command, by a row
\* armed in the middle of a wait, or by the wrap of the millisecond count ("a
\* late pass does not push the cadence forward").
CadenceKept ==
  pc # "boot" =>
    /\ \A p \in Ports, r \in Rows :
         schedule[p][r].enabled => Sub(clock, schedule[p][r].last) = age[p][r]
    /\ ~Reduced => Sub(clock, lastBatteryLog) = batteryAge

\* However much the ground sends, on whichever port, a beat is posted no later
\* than the task itself runs: the wait of a pass ends with the first row that
\* becomes due on either port, and a pass that answers emits as well ("the
\* other port keeps emitting HEARTBEAT and SYSTEM_TIME at 1 Hz").
BeatsOnTime ==
  \A p \in Ports, r \in Rows :
    schedule[p][r].enabled => age[p][r] <= schedule[p][r].interval + MaxStall

\* The battery record has no part in the computation of the wait: it is late
\* by less than a beat of the row that wakes the task in every configuration,
\* and what the task may be late itself at both ends of a pass.
BatteryLogged ==
  batteryAge < BatteryLogInterval + Interval[Heartbeat] + 2 * MaxStall

\* No pass posts more to a port than every row, the two frames of an answer
\* and the report of a changed clock: with five rows, one more than the seven
\* of WorstPassIsSeven.  (Reply, EmitDue, BeginPass.)
PassIsBounded == \A p \in Ports : posted[p] <= Cardinality(Rows) + 3

\* A slot is told again only when every slot that exists has been told, on
\* each port by its own cursor ("cycling through the full set before
\* repeating").
HousekeepingCycles ==
  [][\A p \in Ports :
       \/ cursor'[p] = cursor[p]
       \/ told[p] = Exists[board]
       \/ told[p] \subseteq told'[p] /\ told[p] # told'[p]]_vars

(* What the sources say and the code does not do *)

\* A queue keeps seven places for "the periodic worst case" (src/main.cpp:168-193):
\* the five rows, a TIMESYNC reply and the report of the clock's origin.  The
\* answers of two frames are not in that count.
WorstPassIsSeven == \A p \in Ports : posted[p] <= Cardinality(Rows) + 2
=============================================================================
