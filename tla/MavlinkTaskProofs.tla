-------------------------- MODULE MavlinkTaskProofs --------------------------
(***************************************************************************)
(* The properties of MavlinkTask for every set of rows and ports, every    *)
(* length of the millisecond count and of what the task may be late.  The  *)
(* inductive invariant ties the counts of milliseconds to the real time    *)
(* that has passed, and the wait of a pass to the first row due in it.     *)
(***************************************************************************)
EXTENDS MavlinkTask, FiniteSetTheorems, WellFoundedInduction, TLAPS

-----------------------------------------------------------------------------
(* Milliseconds that wrap. *)

Times == 0 .. Wrap - 1

\* Sums and differences are times again.
LEMMA TimesClosed ==
  \A a, b \in Times : Add(a, b) \in Times /\ Sub(a, b) \in Times
BY MavlinkAssumption DEF Times, Add, Sub

\* A time is no time before itself.
LEMMA SubSelf == \A a \in Times : Sub(a, a) = 0
BY DEF Times, Sub

\* What lies a given time back is that time ago.
LEMMA SubSub == \A a, b \in Times : Sub(a, Sub(a, b)) = b
BY MavlinkAssumption DEF Times, Sub

\* One millisecond later, every time is one longer ago, short of the wrap.
LEMMA SubTick ==
  \A a, b \in Times : Sub(a, b) + 1 < Wrap => Sub(Add(a, 1), b) = Sub(a, b) + 1
BY MavlinkAssumption DEF Times, Add, Sub

\* A time moved on by no more than what has passed since is that much nearer.
LEMMA SubAdvance ==
  \A a, b, i \in Times : i <= Sub(a, b) => Sub(a, Add(b, i)) = Sub(a, b) - i
BY MavlinkAssumption DEF Times, Add, Sub

-----------------------------------------------------------------------------
(* The cycle of the housekeeping slots. *)

\* A nonempty set of naturals has a least element.
LEMMA LeastExists ==
  ASSUME NEW T, T \subseteq Nat, T # {}
  PROVE  \E x \in T : \A y \in T : x <= y
<1>1. PICK x \in T : \A y \in T : ~ (<<y, x>> \in OpToRel(<, Nat))
  BY NatLessThanWellFounded, WFMin
<1>2. \A y \in T : ~ (y < x)
  BY <1>1 DEF OpToRel
<1> QED BY <1>2

\* The slot found is one that exists, and none that exists comes before it.
LEMMA NextSlotFound ==
  ASSUME NEW c \in 0 .. Slots - 1, board \in Boards
  PROVE  /\ NextSlot(c) \in Exists[board]
         /\ \A t \in Exists[board] : Ahead(c, NextSlot(c)) <= Ahead(c, t)
<1> DEFINE T == {Ahead(c, t) : t \in Exists[board]}
<1>1. Exists[board] \subseteq 0 .. Slots - 1 /\ Exists[board] # {} /\ Slots \in Nat
  BY MavlinkAssumption
<1>2. T \subseteq Nat /\ T # {}
  BY <1>1 DEF Ahead
<1>3. PICK x \in T : \A y \in T : x <= y
  BY <1>2, LeastExists
<1>4. \E s \in Exists[board] : \A t \in Exists[board] : Ahead(c, s) <= Ahead(c, t)
  BY <1>3
<1> QED BY <1>4 DEF NextSlot
-----------------------------------------------------------------------------
(* The inductive invariant. *)

\* Every row keeps an interval the task can hold and the count can measure;
\* the heartbeat is on from the start and is never set.
RowsKept ==
  /\ \A p \in Ports, r \in Rows :
       /\ MaxStall <= schedule[p][r].interval
       /\ schedule[p][r].interval + MaxStall < Wrap
       /\ pc = "boot" => ~schedule[p][r].enabled
  /\ pc # "boot" => \A p \in Ports : /\ schedule[p][Heartbeat].enabled
                                     /\ schedule[p][Heartbeat].interval = Interval[Heartbeat]

\* A row is late by no more than this pass has been kept from running.
OnTime ==
  \A p \in Ports, r \in Rows :
    schedule[p][r].enabled => age[p][r] <= schedule[p][r].interval + lag

\* The wait ends with the first row that becomes due.
WaitsForFirst ==
  pc = "wait" =>
    /\ Sub(clock, now) <= waitMs + lag
    /\ waitMs <= Interval[Heartbeat]
    /\ \A p \in Ports, r \in Rows :
         schedule[p][r].enabled /\ waitMs > 0 =>
           age[p][r] + waitMs <= schedule[p][r].interval + Sub(clock, now)

\* The battery record is behind the heartbeat by less than its own interval,
\* and by a beat more between a heartbeat and the next pass.
BatteryFollows ==
  ~Reduced /\ pc # "boot" => \A p \in Ports :
    \/ batteryAge < age[p][Heartbeat] + BatteryLogInterval
    \/ /\ pc = "top"
       /\ age[p][Heartbeat] <= MaxStall + lag
       /\ batteryAge < age[p][Heartbeat] + BatteryLogInterval + Interval[Heartbeat]

BatteryOff == Reduced \/ pc = "boot" => batteryAge <= BatteryLogInterval

\* What has been told is what lies before the cursor.
LapSoFar ==
  \A p \in Ports :
    \/ told[p] = {t \in Exists[board] : t < cursor[p]}
    \/ cursor[p] = 0 /\ told[p] = Exists[board]

\* How many frames a pass has posted by each point of it.
PostedSoFar ==
  \A p \in Ports : /\ posted[p] <= Cardinality(Rows) + 3
                   /\ pc = "boot" => posted[p] = 0
                   /\ pc = "wait" => posted[p] <= 1
                   /\ pc = "rows" => posted[p] <= 3

Timing == RowsKept /\ CadenceKept /\ OnTime /\ WaitsForFirst /\ BatteryFollows /\ BatteryOff

IInv == TypeOK /\ Timing /\ LapSoFar /\ PostedSoFar

\* The heartbeat's and every row's interval is a time.
LEMMA IntervalsAreTimes ==
  ASSUME TypeOK, RowsKept, NEW p \in Ports, NEW r \in Rows
  PROVE  /\ schedule[p][r].interval \in Times /\ schedule[p][r].last \in Times
         /\ age[p][r] \in Nat
         /\ schedule[p][r].enabled \in BOOLEAN
         /\ MaxStall <= schedule[p][r].interval
         /\ schedule[p][r].interval + MaxStall < Wrap
         /\ MaxStall \in Nat /\ Wrap \in Nat /\ lag \in Nat /\ lag <= MaxStall
         /\ schedule[p][r] \in RowType
<1>1. schedule[p] \in [Rows -> RowType] /\ age[p] \in [Rows -> Nat]
  BY DEF TypeOK
<1>2. schedule[p][r] \in RowType /\ age[p][r] \in Nat
  BY <1>1
<1>3. /\ MaxStall <= schedule[p][r].interval
      /\ schedule[p][r].interval + MaxStall < Wrap
  BY DEF RowsKept
<1>4. MaxStall \in Nat /\ Wrap \in Nat /\ lag \in Nat /\ lag <= MaxStall
  BY MavlinkAssumption DEF TypeOK
<1> QED BY <1>2, <1>3, <1>4 DEF RowType, Times

\* What the invariant says of the latest a row and the battery record are.
LEMMA InvImpliesBounds ==
  ASSUME IInv
  PROVE  BeatsOnTime /\ BatteryLogged
<1>1. BeatsOnTime
  <2>1. ASSUME NEW p \in Ports, NEW r \in Rows, schedule[p][r].enabled
        PROVE  age[p][r] <= schedule[p][r].interval + MaxStall
    <3>1. TypeOK /\ RowsKept /\ age[p][r] <= schedule[p][r].interval + lag
      BY <2>1 DEF IInv, Timing, OnTime
    <3> QED BY <3>1, IntervalsAreTimes DEF Times
  <2> QED BY <2>1 DEF BeatsOnTime
<1>2. BatteryLogged
  <2>1. PICK p \in Ports : TRUE
    BY MavlinkAssumption
  <2>2. Heartbeat \in Rows /\ Interval[Heartbeat] \in Nat \ {0} /\ BatteryLogInterval \in Nat
        /\ MaxStall \in Nat
    BY MavlinkAssumption
  <2>3. batteryAge \in Nat /\ age[p][Heartbeat] \in Nat /\ lag \in Nat /\ lag <= MaxStall
    BY <2>2 DEF IInv, TypeOK
  <2>4. CASE Reduced \/ pc = "boot"
    BY <2>2, <2>3, <2>4 DEF IInv, Timing, BatteryOff, BatteryLogged
  <2>5. CASE ~Reduced /\ pc # "boot"
    <3>1. age[p][Heartbeat] <= Interval[Heartbeat] + lag
      BY <2>2, <2>5 DEF IInv, Timing, OnTime, RowsKept
    <3> QED BY <2>2, <2>3, <2>5, <3>1 DEF IInv, Timing, BatteryFollows, BatteryLogged
  <2> QED BY <2>4, <2>5
<1> QED BY <1>1, <1>2
-----------------------------------------------------------------------------
(* A millisecond passes. *)

\* How long a row has been due, and by how much the pass is late, after it.
LEMMA TickCounts ==
  ASSUME IInv, Tick
  PROVE  /\ lag' \in Nat /\ lag' <= MaxStall /\ lag <= lag'
         /\ clock' \in Times
         /\ \A p \in Ports, r \in Rows :
              schedule[p][r].enabled =>
                /\ age'[p][r] = age[p][r] + 1
                /\ age[p][r] + 1 <= schedule[p][r].interval + lag'
         /\ \A p \in Ports, r \in Rows :
              ~schedule[p][r].enabled => age'[p][r] = age[p][r]
         /\ pc = "wait" => Sub(clock, now) + 1 <= waitMs + lag'
<1>1. TypeOK /\ RowsKept /\ OnTime /\ WaitsForFirst
  BY DEF IInv, Timing
<1>2. MaxStall \in Nat /\ Wrap \in Nat /\ lag \in Nat /\ lag <= MaxStall
      /\ clock \in Times /\ now \in Times /\ waitMs \in Times /\ Wrap > 0
  BY <1>1, MavlinkAssumption DEF TypeOK, Times
<1>3. 1 \in Times
  BY <1>2, MavlinkAssumption DEF Times
<1>4. clock' \in Times
  BY <1>2, <1>3, TimesClosed DEF Tick
<1>5. Sub(clock, now) \in Times
  BY <1>2, TimesClosed
<1>6. /\ lag' \in Nat /\ lag' <= MaxStall /\ lag <= lag'
      /\ ~Blocked => lag' = lag + 1
      /\ Blocked => Sub(clock, now) < waitMs /\ pc = "wait"
  BY <1>2, <1>5 DEF Tick, Blocked, Waited, Times
<1>7. ASSUME NEW p \in Ports, NEW r \in Rows
      PROVE  /\ schedule[p][r].enabled =>
                  /\ age'[p][r] = age[p][r] + 1
                  /\ age[p][r] + 1 <= schedule[p][r].interval + lag'
             /\ ~schedule[p][r].enabled => age'[p][r] = age[p][r]
  <2>1. age'[p][r] = IF schedule[p][r].enabled THEN age[p][r] + 1 ELSE age[p][r]
    BY DEF Tick
  <2>2. schedule[p][r].interval \in Nat /\ age[p][r] \in Nat
    BY <1>1, IntervalsAreTimes DEF Times
  <2>3. ASSUME schedule[p][r].enabled
        PROVE  age[p][r] + 1 <= schedule[p][r].interval + lag'
    <3>1. CASE Blocked
      <4>1. waitMs > 0 /\ pc = "wait"
        BY <1>2, <1>5, <1>6, <3>1 DEF Times
      <4>2. age[p][r] + waitMs <= schedule[p][r].interval + Sub(clock, now)
        BY <1>1, <2>3, <4>1 DEF WaitsForFirst
      <4> QED BY <1>2, <1>5, <1>6, <2>2, <3>1, <4>2 DEF Times
    <3>2. CASE ~Blocked
      BY <1>1, <1>2, <1>6, <2>2, <2>3, <3>2 DEF OnTime
    <3> QED BY <3>1, <3>2
  <2> QED BY <2>1, <2>3
<1>8. pc = "wait" => Sub(clock, now) + 1 <= waitMs + lag'
  BY <1>1, <1>2, <1>5, <1>6 DEF WaitsForFirst, Times
<1> QED BY <1>4, <1>6, <1>7, <1>8

LEMMA TickKeepsTiming ==
  ASSUME IInv, Tick, TypeOK'
  PROVE  Timing'
<1>1. TypeOK /\ Timing
  BY DEF IInv
<1>2. UNCHANGED <<pc, now, waitMs, schedule, lastBatteryLog, board>>
  BY DEF Tick, taskVars
<1>3. MaxStall \in Nat /\ Wrap \in Nat /\ lag \in Nat /\ lag' \in Nat /\ lag' <= MaxStall
      /\ clock \in Times /\ now \in Times /\ waitMs \in Times /\ lastBatteryLog \in Times
      /\ batteryAge \in Nat
  BY <1>1, TickCounts, MavlinkAssumption DEF TypeOK, Times
<1>4. RowsKept'
  BY <1>1, <1>2 DEF Timing, RowsKept
<1>5. OnTime'
  BY <1>2, TickCounts DEF OnTime
<1>6. BatteryFollows'
  <2>1. ASSUME ~Reduced, pc # "boot", NEW p \in Ports
        PROVE  /\ batteryAge' = batteryAge + 1
               /\ age'[p][Heartbeat] = age[p][Heartbeat] + 1
               /\ age[p][Heartbeat] \in Nat
               /\ lag' = lag + 1 \/ pc # "top"
    <3>1. Heartbeat \in Rows /\ schedule[p][Heartbeat].enabled
      BY <1>1, <2>1, MavlinkAssumption DEF Timing, RowsKept
    <3>2. age[p][Heartbeat] \in Nat
      BY <1>1, <3>1, IntervalsAreTimes DEF Timing
    <3> QED BY <2>1, <3>1, <3>2, TickCounts DEF Tick, Blocked
  <2>2. BatteryLogInterval \in Nat /\ Interval[Heartbeat] \in Nat
    BY MavlinkAssumption
  <2>3. ASSUME (~Reduced)', (pc # "boot")', NEW p \in Ports
        PROVE  \/ batteryAge' < age'[p][Heartbeat] + BatteryLogInterval
               \/ /\ pc' = "top"
                  /\ age'[p][Heartbeat] <= MaxStall + lag'
                  /\ batteryAge' < age'[p][Heartbeat] + BatteryLogInterval + Interval[Heartbeat]
    <3>1. ~Reduced /\ pc # "boot"
      BY <1>2, <2>3 DEF Reduced
    <3>2. \/ batteryAge < age[p][Heartbeat] + BatteryLogInterval
          \/ /\ pc = "top"
             /\ age[p][Heartbeat] <= MaxStall + lag
             /\ batteryAge < age[p][Heartbeat] + BatteryLogInterval + Interval[Heartbeat]
      BY <1>1, <3>1 DEF Timing, BatteryFollows
    <3> QED BY <1>2, <1>3, <2>1, <2>2, <3>1, <3>2
  <2> QED BY <2>3 DEF BatteryFollows
<1>7. BatteryOff'
  BY <1>1, <1>2 DEF Timing, BatteryOff, Reduced, Tick
<1>8. CadenceKept'
  <2>1. ASSUME NEW p \in Ports, NEW r \in Rows, pc # "boot", schedule[p][r].enabled
        PROVE  Sub(clock', schedule[p][r].last) = age'[p][r]
    <3>1. /\ schedule[p][r].interval \in Times /\ schedule[p][r].last \in Times
          /\ age[p][r] \in Nat /\ schedule[p][r].interval + MaxStall < Wrap
      BY <1>1, IntervalsAreTimes DEF Timing
    <3>2. Sub(clock, schedule[p][r].last) = age[p][r]
      BY <1>1, <2>1 DEF Timing, CadenceKept
    <3>3. age'[p][r] = age[p][r] + 1 /\ age[p][r] + 1 <= schedule[p][r].interval + lag'
      BY <2>1, TickCounts
    <3>4. age[p][r] + 1 < Wrap
      BY <1>3, <3>1, <3>3 DEF Times
    <3> QED BY <1>3, <3>1, <3>2, <3>3, <3>4, SubTick DEF Tick
  <2>2. ASSUME pc # "boot", ~Reduced
        PROVE  Sub(clock', lastBatteryLog) = batteryAge'
    <3>1. Sub(clock, lastBatteryLog) = batteryAge
      BY <1>1, <2>2 DEF Timing, CadenceKept
    <3>2. batteryAge' = batteryAge + 1
      BY <2>2 DEF Tick
    <3>3. PICK p \in Ports : TRUE
      BY MavlinkAssumption
    <3>4. Heartbeat \in Rows /\ schedule[p][Heartbeat].enabled
          /\ schedule[p][Heartbeat].interval = Interval[Heartbeat]
          /\ BatteryLogInterval \in Nat /\ Interval[Heartbeat] \in Nat
          /\ BatteryLogInterval + Interval[Heartbeat] + 2 * MaxStall <= Wrap
      BY <1>1, <2>2, MavlinkAssumption DEF Timing, RowsKept
    <3>5. age'[p][Heartbeat] \in Nat /\ age'[p][Heartbeat] <= Interval[Heartbeat] + lag'
      BY <1>1, <3>4, TickCounts, IntervalsAreTimes DEF Timing
    <3>6. \/ batteryAge' < age'[p][Heartbeat] + BatteryLogInterval
          \/ /\ age'[p][Heartbeat] <= MaxStall + lag'
             /\ batteryAge' < age'[p][Heartbeat] + BatteryLogInterval + Interval[Heartbeat]
      BY <1>2, <1>6, <2>2 DEF BatteryFollows, Reduced
    <3>7. batteryAge' < Wrap
      BY <1>3, <3>2, <3>4, <3>5, <3>6
    <3> QED BY <1>3, <3>1, <3>2, <3>7, SubTick DEF Tick
  <2>3. /\ \A p \in Ports, r \in Rows :
              (pc # "boot" /\ schedule[p][r].enabled) => Sub(clock', schedule[p][r].last) = age'[p][r]
        /\ pc # "boot" /\ ~Reduced => Sub(clock', lastBatteryLog) = batteryAge'
    BY <2>1, <2>2
  <2> QED BY <1>2, <2>3 DEF CadenceKept, Reduced, Sub
<1>9. WaitsForFirst'
  <2>1. ASSUME pc = "wait"
        PROVE  Sub(clock', now) = Sub(clock, now) + 1
    <3>1. PICK p \in Ports : TRUE
      BY MavlinkAssumption
    <3>2. waitMs <= Interval[Heartbeat] /\ Sub(clock, now) + 1 <= waitMs + lag'
      BY <1>1, <2>1, TickCounts DEF Timing, WaitsForFirst
    <3>3. Interval[Heartbeat] + MaxStall < Wrap /\ Interval[Heartbeat] \in Nat
      BY MavlinkAssumption
    <3>4. Sub(clock, now) \in Times
      BY <1>3, TimesClosed
    <3>5. Sub(clock, now) + 1 < Wrap
      BY <1>3, <3>2, <3>3, <3>4 DEF Times
    <3> QED BY <1>3, <3>5, SubTick DEF Tick
  <2>2. ASSUME pc = "wait", NEW p \in Ports, NEW r \in Rows,
               schedule[p][r].enabled, waitMs > 0
        PROVE  age'[p][r] + waitMs <= schedule[p][r].interval + Sub(clock', now)
    <3>1. age[p][r] + waitMs <= schedule[p][r].interval + Sub(clock, now)
      BY <1>1, <2>2 DEF Timing, WaitsForFirst
    <3>2. age'[p][r] = age[p][r] + 1
      BY <2>2, TickCounts
    <3>3. age[p][r] \in Nat /\ schedule[p][r].interval \in Times /\ Sub(clock, now) \in Times
      BY <1>1, <1>3, IntervalsAreTimes, TimesClosed DEF Timing
    <3> QED BY <1>3, <2>1, <2>2, <3>1, <3>2, <3>3 DEF Times
  <2>3. pc = "wait" => waitMs <= Interval[Heartbeat] /\ Sub(clock', now) <= waitMs + lag'
    BY <1>1, <2>1, TickCounts DEF Timing, WaitsForFirst
  <2>4. pc = "wait" =>
          \A p \in Ports, r \in Rows :
            schedule[p][r].enabled /\ waitMs > 0 =>
              age'[p][r] + waitMs <= schedule[p][r].interval + Sub(clock', now)
    BY <2>2
  <2> QED BY <1>2, <2>3, <2>4 DEF WaitsForFirst, Sub
<1> QED BY <1>4, <1>5, <1>6, <1>7, <1>8, <1>9 DEF Timing

LEMMA TickKeeps ==
  ASSUME IInv, Tick
  PROVE  IInv'
<1>1. TypeOK /\ RowsKept
  BY DEF IInv, Timing
<1>2. TypeOK'
  <2>1. age' \in [Ports -> [Rows -> Nat]]
    <3>1. ASSUME NEW p \in Ports, NEW r \in Rows
          PROVE  age'[p][r] \in Nat
      BY <1>1, TickCounts, IntervalsAreTimes
    <3>2. age' = [p \in Ports |-> [r \in Rows |->
                    IF schedule[p][r].enabled THEN age[p][r] + 1 ELSE age[p][r]]]
      BY DEF Tick
    <3>3. \A p \in Ports, r \in Rows :
            (IF schedule[p][r].enabled THEN age[p][r] + 1 ELSE age[p][r]) \in Nat
      BY <3>1, <3>2
    <3> QED BY <3>2, <3>3
  <2>2. clock' \in 0 .. Wrap - 1 /\ lag' \in 0 .. MaxStall
    BY TickCounts, MavlinkAssumption DEF Times
  <2>3. batteryAge' \in Nat
    BY <1>1 DEF TypeOK, Tick
  <2> QED BY <1>1, <2>1, <2>2, <2>3 DEF TypeOK, Tick, taskVars
<1>3. Timing'
  BY <1>2, TickKeepsTiming
<1>4. LapSoFar' /\ PostedSoFar'
  BY DEF IInv, LapSoFar, PostedSoFar, Tick, taskVars
<1> QED BY <1>2, <1>3, <1>4 DEF IInv
-----------------------------------------------------------------------------
(* The start of the task. *)

\* The constants as times, and what they are in relation to each other.
LEMMA ConstantTimes ==
  /\ \A r \in Rows : /\ Lead[r] \in Times /\ Interval[r] \in Times /\ Interval[r] > 0
                     /\ Lead[r] <= Interval[r] /\ MaxStall <= Interval[r]
                     /\ Interval[r] + MaxStall < Wrap
  /\ Heartbeat \in Rows /\ Housekeeping \in Rows
  /\ BatteryLogInterval \in Times /\ Interval[Heartbeat] <= BatteryLogInterval
  /\ MaxStall \in Nat /\ 0 \in Times /\ 1 \in Times
  /\ Cardinality(Rows) \in Nat
<1>1. \A r \in Rows : /\ Lead[r] \in Nat /\ Interval[r] \in Nat \ {0}
                      /\ Lead[r] <= Interval[r] /\ MaxStall <= Interval[r]
                      /\ Interval[r] + MaxStall < Wrap
  BY MavlinkAssumption
<1>2. /\ Heartbeat \in Rows /\ Housekeeping \in Rows /\ MaxStall \in Nat /\ Wrap \in Nat
      /\ BatteryLogInterval \in Nat /\ Interval[Heartbeat] <= BatteryLogInterval
      /\ BatteryLogInterval + Interval[Heartbeat] + 2 * MaxStall <= Wrap
  BY MavlinkAssumption
<1>3. Interval[Heartbeat] \in Nat \ {0}
  BY <1>1, <1>2
<1>4. BatteryLogInterval \in Times /\ 0 \in Times /\ 1 \in Times
  BY <1>2, <1>3 DEF Times
<1>5. Cardinality(Rows) \in Nat
  BY MavlinkAssumption, FS_CardinalityType
<1> QED BY <1>1, <1>2, <1>3, <1>4, <1>5 DEF Times

LEMMA InitEstablishes ==
  ASSUME Init
  PROVE  IInv
<1>1. TypeOK
  <2>1. schedule \in [Ports -> [Rows -> RowType]]
    BY ConstantTimes DEF Init, RowType, Times
  <2>2. linkReadQueue \in Seq(Arriving) /\ Len(linkReadQueue) <= ReadDepth
    BY MavlinkAssumption DEF Init
  <2>3. cursor \in [Ports -> 0 .. Slots - 1]
    <3>1. \A b \in Boards : Exists[b] \subseteq 0 .. Slots - 1 /\ Exists[b] # {}
      BY MavlinkAssumption
    <3>2. Slots \in Nat
      BY MavlinkAssumption
    <3>3. PICK s \in Exists[board] : s \in 0 .. Slots - 1
      BY <3>1 DEF Init
    <3>4. 0 \in 0 .. Slots - 1
      BY <3>2, <3>3
    <3> QED BY <3>4 DEF Init
  <2>4. {clock, now, waitMs, lastBatteryLog} \subseteq 0 .. Wrap - 1 /\ lag \in 0 .. MaxStall
    BY ConstantTimes DEF Init, Times
  <2>5. /\ posted \in [Ports -> Nat] /\ age \in [Ports -> [Rows -> Nat]]
        /\ batteryAge \in Nat /\ told \in [Ports -> SUBSET Exists[board]]
    BY DEF Init, Texts
  <2> QED BY <2>1, <2>2, <2>3, <2>4, <2>5 DEF Init, TypeOK
<1>2. RowsKept
  BY ConstantTimes DEF Init, RowsKept
<1>3. CadenceKept /\ OnTime /\ WaitsForFirst /\ BatteryFollows
  BY DEF Init, CadenceKept, OnTime, WaitsForFirst, BatteryFollows
<1>4. BatteryOff
  BY ConstantTimes DEF Init, BatteryOff, Times
<1>5. LapSoFar
  <2>1. \A b \in Boards : Exists[b] \subseteq Nat
    BY MavlinkAssumption
  <2>2. ASSUME NEW p \in Ports
        PROVE  told[p] = {t \in Exists[board] : t < cursor[p]}
    BY <2>1 DEF Init
  <2> QED BY <2>2 DEF LapSoFar
<1>6. PostedSoFar
  BY ConstantTimes DEF Init, PostedSoFar, Texts
<1> QED BY <1>1, <1>2, <1>3, <1>4, <1>5, <1>6 DEF IInv, Timing

LEMMA StartKeeps ==
  ASSUME IInv, Start
  PROVE  IInv'
<1>1. TypeOK
  BY DEF IInv
<1>2. clock \in Times /\ lag \in Nat /\ lastBatteryLog' \in Times
  <2>1. clock \in Times /\ lag \in Nat
    BY <1>1, ConstantTimes DEF TypeOK, Times
  <2>2. lastBatteryLog' = Sub(clock, BatteryLogInterval)
    BY DEF Start
  <2> QED BY <2>1, <2>2, ConstantTimes, TimesClosed
<1>3. ASSUME NEW p \in Ports, NEW r \in Rows
      PROVE  /\ schedule'[p][r] \in RowType
             /\ schedule'[p][r].interval = Interval[r]
             /\ schedule'[p][r].last = Sub(clock, Lead[r])
             /\ r = Heartbeat => schedule'[p][r].enabled
             /\ age'[p][r] = Lead[r]
  <2>1. schedule'[p][r] = SeededRow(r) /\ age'[p][r] = Lead[r]
    BY DEF Start
  <2>2. Sub(clock, Lead[r]) \in Times /\ Interval[r] \in Nat
    <3>1. Lead[r] \in Times /\ Interval[r] \in Times
      BY ConstantTimes
    <3>2. Sub(clock, Lead[r]) \in Times
      BY <1>2, <3>1, TimesClosed
    <3> QED BY <3>1, <3>2 DEF Times
  <2>3. Heartbeat # Housekeeping /\ Heartbeat # Battery
    BY DEF Heartbeat, Housekeeping, Battery
  <2> QED BY <2>1, <2>2, <2>3 DEF SeededRow, RowType, Times
<1>4. TypeOK'
  <2>1. schedule' \in [Ports -> [Rows -> RowType]]
    <3>1. schedule' = [p \in Ports |-> [r \in Rows |-> SeededRow(r)]]
      BY DEF Start
    <3>2. \A r \in Rows : SeededRow(r) \in RowType
      BY <1>3, <3>1, MavlinkAssumption
    <3> QED BY <3>1, <3>2
  <2>2. age' \in [Ports -> [Rows -> Nat]] /\ batteryAge' \in Nat
    BY ConstantTimes DEF Start, Times
  <2>3. posted' \in [Ports -> Nat]
    BY <1>1 DEF TypeOK, Start, Post, Texts
  <2> QED BY <1>1, <1>2, <2>1, <2>2, <2>3 DEF TypeOK, Start, Times
<1>5. RowsKept'
  BY <1>3, ConstantTimes DEF RowsKept, Start
<1>6. CadenceKept'
  <2>1. \A p \in Ports, r \in Rows : Sub(clock, schedule'[p][r].last) = age'[p][r]
    BY <1>2, <1>3, ConstantTimes, SubSub
  <2>2. Sub(clock, lastBatteryLog') = batteryAge'
    BY <1>2, ConstantTimes, SubSub DEF Start
  <2> QED BY <2>1, <2>2 DEF CadenceKept, Start, Sub
<1>7. OnTime'
  BY <1>2, <1>3, ConstantTimes DEF OnTime, Start, Times
<1>8. WaitsForFirst'
  BY DEF WaitsForFirst, Start
<1>9. BatteryFollows'
  <2>1. \A p \in Ports : age'[p][Heartbeat] = Lead[Heartbeat]
    BY <1>3, ConstantTimes
  <2> QED BY <1>2, <2>1, ConstantTimes DEF BatteryFollows, Start, Times
<1>10. BatteryOff'
  BY ConstantTimes DEF BatteryOff, Start, Times
<1>11. LapSoFar'
  BY DEF IInv, LapSoFar, Start
<1>12. PostedSoFar'
  <2>1. \A p \in Ports : posted'[p] <= Cardinality(Rows) + 3
    <3>1. \A p \in Ports : posted[p] \in Nat /\ posted[p] = 0
      BY <1>1 DEF IInv, PostedSoFar, Start, TypeOK
    <3> QED BY <3>1, ConstantTimes DEF Start, Post, Texts
  <2> QED BY <2>1 DEF PostedSoFar, Start
<1> QED BY <1>4, <1>5, <1>6, <1>7, <1>8, <1>9, <1>10, <1>11, <1>12 DEF IInv, Timing
-----------------------------------------------------------------------------
(* The pass, up to its end. *)

\* What comes in does not touch what the task keeps.
LEMMA LinkReadKeeps ==
  ASSUME IInv, NEW a \in Arriving, LinkRead(a)
  PROVE  IInv'
<1>1. TypeOK'
  <2>1. linkReadQueue' \in Seq(Arriving) /\ Len(linkReadQueue') <= ReadDepth
    BY MavlinkAssumption DEF IInv, TypeOK, LinkRead
  <2> QED BY <2>1 DEF IInv, TypeOK, LinkRead, taskVars
<1>2. UNCHANGED <<taskVars, board, clock, lag, age, batteryAge>>
  BY DEF LinkRead
<1>3. Timing'
  BY <1>2 DEF IInv, Timing, RowsKept, CadenceKept, OnTime, WaitsForFirst,
              BatteryFollows, BatteryOff, Reduced, Sub, taskVars
<1> QED BY <1>1, <1>2, <1>3 DEF IInv, LapSoFar, PostedSoFar, taskVars

\* The wait is no longer than that of any row.
LEMMA WaitBound ==
  ASSUME TypeOK, RowsKept, CadenceKept, pc = "top", NEW w \in Nat, IsWait(w, clock)
  PROVE  /\ w <= Interval[Heartbeat]
         /\ \A p \in Ports, r \in Rows :
              schedule[p][r].enabled /\ w > 0 =>
                age[p][r] + w <= schedule[p][r].interval
<1>1. ASSUME NEW p \in Ports, NEW r \in Rows, schedule[p][r].enabled
      PROVE  /\ w <= schedule[p][r].interval
             /\ w > 0 => age[p][r] + w <= schedule[p][r].interval
  <2>1. w <= DueIn(schedule[p][r], clock)
    <3>1. <<p, r>> \in Enabled /\ <<p, r>>[1] = p /\ <<p, r>>[2] = r
      BY <1>1 DEF Enabled
    <3>2. \A pr \in Enabled : w <= DueIn(schedule[pr[1]][pr[2]], clock)
      BY DEF IsWait
    <3>3. w <= DueIn(schedule[<<p, r>>[1]][<<p, r>>[2]], clock)
      BY <3>1, <3>2, Zenon
    <3> QED BY <3>1, <3>3, Zenon
  <2>2. Sub(clock, schedule[p][r].last) = age[p][r]
    BY <1>1 DEF CadenceKept
  <2>3. age[p][r] \in Nat /\ schedule[p][r].interval \in Nat
    BY IntervalsAreTimes DEF Times
  <2> QED BY <2>1, <2>2, <2>3 DEF DueIn
<1>2. \A p \in Ports : Heartbeat \in Rows /\ schedule[p][Heartbeat].enabled
                       /\ schedule[p][Heartbeat].interval = Interval[Heartbeat]
  BY ConstantTimes DEF RowsKept
<1>3. Ports # {}
  BY MavlinkAssumption
<1> QED BY <1>1, <1>2, <1>3

LEMMA BeginPassKeeps ==
  ASSUME IInv, BeginPass
  PROVE  IInv'
<1>1. TypeOK /\ Timing /\ pc = "top"
  BY DEF IInv, BeginPass
<1>2. /\ clock \in Times /\ lag \in Nat /\ lag <= MaxStall /\ MaxStall \in Nat
      /\ lastBatteryLog \in Times /\ batteryAge \in Nat /\ BatteryLogInterval \in Times
      /\ Interval[Heartbeat] \in Nat /\ Interval[Heartbeat] > 0
      /\ Interval[Heartbeat] <= BatteryLogInterval
  BY <1>1, ConstantTimes DEF TypeOK, Times
<1>3. PICK texts \in {0, 1} : posted' = Texts(texts)
  BY DEF BeginPass
<1>4. waitMs' \in Times /\ waitMs' \in Nat /\ IsWait(waitMs', clock)
  BY ConstantTimes DEF BeginPass, Times
<1>5. \/ /\ ~Reduced /\ batteryAge >= BatteryLogInterval
         /\ lastBatteryLog' = Add(lastBatteryLog, BatteryLogInterval)
         /\ batteryAge' = batteryAge - BatteryLogInterval
      \/ /\ Reduced \/ batteryAge < BatteryLogInterval
         /\ UNCHANGED <<lastBatteryLog, batteryAge>>
  <2>1. ~Reduced => Sub(clock, lastBatteryLog) = batteryAge
    BY <1>1 DEF Timing, CadenceKept
  <2>2. LogBattery
    BY DEF BeginPass
  <2>3. CASE ~Reduced /\ Sub(clock, lastBatteryLog) >= BatteryLogInterval
    BY <2>1, <2>2, <2>3 DEF LogBattery
  <2>4. CASE ~(~Reduced /\ Sub(clock, lastBatteryLog) >= BatteryLogInterval)
    <3>1. UNCHANGED <<lastBatteryLog, batteryAge>>
      BY <2>2, <2>4 DEF LogBattery
    <3>2. Reduced \/ batteryAge < BatteryLogInterval
      BY <1>2, <2>1, <2>4 DEF Times
    <3> QED BY <3>1, <3>2
  <2> QED BY <2>3, <2>4
<1>6. lastBatteryLog' \in Times /\ batteryAge' \in Nat
  <2>1. Add(lastBatteryLog, BatteryLogInterval) \in Times
    BY <1>2, TimesClosed
  <2>2. BatteryLogInterval \in Nat
    BY <1>2 DEF Times
  <2> QED BY <1>2, <1>5, <2>1, <2>2
<1>7. UNCHANGED <<board, clock, linkReadQueue, schedule, cursor, lag, age, told>>
      /\ now' = clock /\ pc' = "wait"
  BY DEF BeginPass
<1>8. TypeOK'
  <2>1. posted' \in [Ports -> Nat]
    BY <1>3 DEF Texts
  <2> QED BY <1>1, <1>2, <1>4, <1>6, <1>7, <2>1 DEF TypeOK, Times
<1>9. RowsKept' /\ OnTime'
  BY <1>1, <1>7 DEF Timing, RowsKept, OnTime
<1>10. CadenceKept'
  <2>1. ~Reduced => Sub(clock, lastBatteryLog') = batteryAge'
    <3>1. ~Reduced => Sub(clock, lastBatteryLog) = batteryAge
      BY <1>1 DEF Timing, CadenceKept
    <3> QED BY <1>2, <1>5, <3>1, SubAdvance
  <2>2. \A p \in Ports, r \in Rows :
          schedule[p][r].enabled => Sub(clock, schedule[p][r].last) = age[p][r]
    BY <1>1 DEF Timing, CadenceKept
  <2> QED BY <1>7, <2>1, <2>2 DEF CadenceKept, Reduced, Sub
<1>11. WaitsForFirst'
  <2>1. Sub(clock, clock) = 0
    BY <1>2, SubSelf
  <2>2. /\ waitMs' <= Interval[Heartbeat]
        /\ \A p \in Ports, r \in Rows :
             schedule[p][r].enabled /\ waitMs' > 0 =>
               age[p][r] + waitMs' <= schedule[p][r].interval
    BY <1>1, <1>4, WaitBound DEF Timing
  <2>3. \A p \in Ports, r \in Rows : schedule[p][r].interval \in Nat /\ age[p][r] \in Nat
    BY <1>1, IntervalsAreTimes DEF Timing, Times
  <2>4. Sub(clock', now') = 0
    BY <1>7, <2>1 DEF Sub
  <2>5. \A p \in Ports, r \in Rows :
          schedule'[p][r].enabled /\ waitMs' > 0 =>
            age'[p][r] + waitMs' <= schedule'[p][r].interval + Sub(clock', now')
    BY <1>4, <1>7, <2>2, <2>3, <2>4
  <2>6. Sub(clock', now') <= waitMs' + lag'
    <3>1. waitMs' + lag' \in Nat
      <4>1. \A m, n \in Nat : m + n \in Nat
        OBVIOUS
      <4>2. lag' \in Nat /\ waitMs' \in Nat
        BY <1>2, <1>4, <1>7
      <4> QED BY <4>1, <4>2, Zenon
    <3>2. \A n \in Nat : 0 <= n
      OBVIOUS
    <3> QED BY <2>4, <3>1, <3>2, Zenon
  <2> QED BY <2>2, <2>5, <2>6 DEF WaitsForFirst, Sub
<1>12. BatteryFollows'
  <2>1. ASSUME ~Reduced, NEW p \in Ports
        PROVE  batteryAge' < age[p][Heartbeat] + BatteryLogInterval
    <3>1. age[p][Heartbeat] \in Nat
      BY <1>1, ConstantTimes, IntervalsAreTimes DEF Timing
    <3>2. batteryAge < age[p][Heartbeat] + BatteryLogInterval + Interval[Heartbeat]
      BY <1>1, <1>2, <2>1, <3>1 DEF Timing, BatteryFollows, Times
    <3> QED BY <1>2, <1>5, <2>1, <3>1, <3>2 DEF Times
  <2> QED BY <1>7, <2>1 DEF BatteryFollows, Reduced
<1>13. BatteryOff'
  BY <1>1, <1>2, <1>5, <1>7 DEF Timing, BatteryOff, Reduced
<1>14. LapSoFar'
  BY <1>7 DEF IInv, LapSoFar
<1>15. PostedSoFar'
  BY <1>3, <1>7, ConstantTimes DEF PostedSoFar, Texts
<1> QED BY <1>8, <1>9, <1>10, <1>11, <1>12, <1>13, <1>14, <1>15 DEF IInv, Timing

LEMMA TimeOutKeeps ==
  ASSUME IInv, TimeOut
  PROVE  IInv'
<1>1. /\ pc = "wait" /\ pc' = "rows"
      /\ UNCHANGED <<board, clock, now, waitMs, linkReadQueue, schedule,
                     lastBatteryLog, cursor, lag, posted, age, batteryAge, told>>
  BY DEF TimeOut
<1>2. TypeOK'
  BY <1>1 DEF IInv, TypeOK
<1>3. Timing'
  BY <1>1 DEF IInv, Timing, RowsKept, CadenceKept, OnTime, WaitsForFirst,
              BatteryFollows, BatteryOff, Reduced, Sub
<1>4. PostedSoFar'
  <2>1. \A p \in Ports : posted[p] \in Nat
    BY DEF IInv, TypeOK
  <2> QED BY <1>1, <2>1 DEF IInv, PostedSoFar
<1> QED BY <1>1, <1>2, <1>3, <1>4 DEF IInv, LapSoFar
-----------------------------------------------------------------------------
(* What came in. *)

\* An answer is at most two frames to a port.
LEMMA AnswerBound ==
  ASSUME NEW m \in Arriving, NEW p \in Ports
  PROVE  Answer(m)[p] \in 0 .. 2
<1>1. \A n \in 0 .. 2 : To(m.port, n)[p] \in 0 .. 2 /\ Texts(n)[p] \in 0 .. 2
  BY DEF To, Texts
<1>2. Answer(m) \in {To(m.port, n) : n \in 0 .. 2} \union {Texts(n) : n \in 0 .. 2}
  BY DEF Answer
<1> QED BY <1>1, <1>2

\* What taking a message leaves of the invariant, whatever it does to the
\* rows of its port.
LEMMA TakeKeeps ==
  ASSUME IInv, NEW m \in Arriving, Take(m),
         \E frames \in [Ports -> 0 .. 2] : Post(frames),
         schedule' \in [Ports -> [Rows -> RowType]], age' \in [Ports -> [Rows -> Nat]],
         \A p \in Ports, r \in Rows :
           \/ schedule'[p][r] = schedule[p][r] /\ age'[p][r] = age[p][r]
           \/ /\ r # Heartbeat
              /\ MaxStall <= schedule'[p][r].interval
              /\ schedule'[p][r].interval + MaxStall < Wrap
              /\ schedule'[p][r].enabled =>
                   /\ Sub(clock, schedule'[p][r].last) = age'[p][r]
                   /\ age'[p][r] <= schedule'[p][r].interval + lag
  PROVE  IInv'
<1>1. TypeOK /\ Timing
  BY DEF IInv
<1>2. /\ pc = "wait" /\ pc' = "rows" /\ linkReadQueue # <<>>
      /\ linkReadQueue' = Tail(linkReadQueue)
      /\ UNCHANGED <<board, clock, now, waitMs, lastBatteryLog, cursor, lag,
                     batteryAge, told>>
  BY DEF Take
<1>3. linkReadQueue' \in Seq(Arriving) /\ Len(linkReadQueue') <= ReadDepth
  BY <1>1, <1>2, MavlinkAssumption DEF TypeOK
<1>4. \A p \in Ports : posted'[p] \in Nat /\ posted'[p] <= 3
  <2>1. PICK frames \in [Ports -> 0 .. 2] : Post(frames)
    OBVIOUS
  <2>2. \A p \in Ports : posted[p] \in Nat /\ posted[p] <= 1
    BY <1>1, <1>2 DEF IInv, PostedSoFar, TypeOK
  <2> QED BY <2>1, <2>2 DEF Post
<1>5. TypeOK'
  <2>1. posted' \in [Ports -> Nat]
    BY <1>4 DEF Post
  <2> QED BY <1>1, <1>2, <1>3, <2>1 DEF TypeOK
<1>6. RowsKept'
  <2>1. \A p \in Ports, r \in Rows :
          MaxStall <= schedule'[p][r].interval /\ schedule'[p][r].interval + MaxStall < Wrap
    BY <1>1 DEF Timing, RowsKept
  <2>2. \A p \in Ports : schedule'[p][Heartbeat] = schedule[p][Heartbeat]
    BY ConstantTimes
  <2> QED BY <1>1, <1>2, <2>1, <2>2 DEF Timing, RowsKept
<1>7. \A p \in Ports, r \in Rows :
        schedule'[p][r].enabled =>
          /\ Sub(clock, schedule'[p][r].last) = age'[p][r]
          /\ age'[p][r] <= schedule'[p][r].interval + lag
  BY <1>1, <1>2 DEF Timing, CadenceKept, OnTime
<1>8. OnTime'
  BY <1>2, <1>7 DEF OnTime
<1>9. CadenceKept'
  <2>1. ~Reduced => Sub(clock, lastBatteryLog) = batteryAge
    BY <1>1, <1>2 DEF Timing, CadenceKept
  <2> QED BY <1>2, <1>7, <2>1 DEF CadenceKept, Reduced, Sub
<1>10. WaitsForFirst' /\ BatteryOff'
  BY <1>1, <1>2 DEF Timing, WaitsForFirst, BatteryOff, Reduced
<1>11. BatteryFollows'
  <2>1. \A p \in Ports : age'[p][Heartbeat] = age[p][Heartbeat]
    BY ConstantTimes
  <2> QED BY <1>1, <1>2, <2>1 DEF Timing, BatteryFollows, Reduced
<1>12. LapSoFar'
  BY <1>2 DEF IInv, LapSoFar
<1>13. PostedSoFar'
  BY <1>2, <1>4, ConstantTimes DEF PostedSoFar
<1> QED BY <1>5, <1>6, <1>8, <1>9, <1>10, <1>11, <1>12, <1>13 DEF IInv, Timing

\* One frame to the port a message came in on.
LEMMA ToFrames ==
  ASSUME NEW port, NEW n \in 0 .. 2
  PROVE  To(port, n) \in [Ports -> 0 .. 2]
BY DEF To

\* A message's own data.
LEMMA Arrivals ==
  ASSUME NEW m \in Arriving
  PROVE  m.port \in Ports /\ m.interval \in Nat /\ m.interval + MaxStall < Wrap
BY MavlinkAssumption DEF Message

\* A row armed in the middle of a wait has waited no longer than the wait.
LEMMA ArmKeeps ==
  ASSUME IInv, NEW m \in Arriving, Arm(m)
  PROVE  IInv'
<1>1. TypeOK /\ Timing /\ Take(m) /\ pc = "wait" /\ m.interval >= MinInterval
  BY DEF IInv, Arm, Take
<1>2. /\ m.port \in Ports /\ m.interval \in Nat /\ m.interval + MaxStall < Wrap
      /\ now \in Times /\ clock \in Times /\ waitMs \in Times /\ lag \in Nat
      /\ Interval[Heartbeat] \in Nat /\ MinInterval \in Nat /\ MaxStall \in Nat
      /\ Interval[Heartbeat] <= MinInterval /\ MaxStall <= Interval[Heartbeat]
      /\ Housekeeping \in Rows /\ Housekeeping # Heartbeat
  BY <1>1, Arrivals, ConstantTimes, MavlinkAssumption
  DEF TypeOK, Times, Heartbeat, Housekeeping
<1>3. Sub(clock, now) \in Times /\ Sub(clock, now) \in Nat
  BY <1>2, TimesClosed DEF Times
<1> DEFINE row == [interval |-> m.interval, last |-> now, enabled |-> TRUE]
<1>4. schedule' = [schedule EXCEPT ![m.port][Housekeeping] = row]
      /\ age' = [age EXCEPT ![m.port][Housekeeping] = Sub(clock, now)]
  BY DEF Arm
<1>5. row \in RowType
  BY <1>2 DEF RowType, Times
<1>6. schedule' \in [Ports -> [Rows -> RowType]] /\ age' \in [Ports -> [Rows -> Nat]]
  <2>1. schedule \in [Ports -> [Rows -> RowType]] /\ age \in [Ports -> [Rows -> Nat]]
    BY <1>1 DEF TypeOK
  <2> HIDE DEF row
  <2> QED BY <1>2, <1>3, <1>4, <1>5, <2>1
<1>7. \A p \in Ports, r \in Rows :
        IF p = m.port /\ r = Housekeeping
        THEN schedule'[p][r] = row /\ age'[p][r] = Sub(clock, now)
        ELSE schedule'[p][r] = schedule[p][r] /\ age'[p][r] = age[p][r]
  <2>1. schedule \in [Ports -> [Rows -> RowType]] /\ age \in [Ports -> [Rows -> Nat]]
    BY <1>1 DEF TypeOK
  <2> HIDE DEF row
  <2> QED BY <1>2, <1>4, <2>1
<1>8. Sub(clock, now) <= m.interval + lag
  <2>1. Sub(clock, now) <= waitMs + lag /\ waitMs <= Interval[Heartbeat]
    BY <1>1 DEF Timing, WaitsForFirst
  <2>2. waitMs \in Nat
    BY <1>2 DEF Times
  <2> QED BY <1>1, <1>2, <1>3, <2>1, <2>2
<1>9. MaxStall <= m.interval
  BY <1>1, <1>2
<1>10. \A p \in Ports, r \in Rows :
         \/ schedule'[p][r] = schedule[p][r] /\ age'[p][r] = age[p][r]
         \/ /\ r # Heartbeat
            /\ MaxStall <= schedule'[p][r].interval
            /\ schedule'[p][r].interval + MaxStall < Wrap
            /\ schedule'[p][r].enabled =>
                 /\ Sub(clock, schedule'[p][r].last) = age'[p][r]
                 /\ age'[p][r] <= schedule'[p][r].interval + lag
  <2>1. row.interval = m.interval /\ row.last = now /\ row.enabled
    OBVIOUS
  <2> HIDE DEF row
  <2> QED BY <1>2, <1>7, <1>8, <1>9, <2>1
<1>11. \E frames \in [Ports -> 0 .. 2] : Post(frames)
  BY ToFrames DEF Arm
<1> QED BY <1>1, <1>6, <1>10, <1>11, TakeKeeps

\* Stopping a row takes it out of the schedule and nothing else.
LEMMA DisarmKeeps ==
  ASSUME IInv, NEW m \in Arriving, Disarm(m)
  PROVE  IInv'
<1>1. TypeOK /\ RowsKept /\ Take(m) /\ m.port \in Ports /\ Housekeeping \in Rows
      /\ Housekeeping # Heartbeat
  BY Arrivals, ConstantTimes DEF IInv, Timing, Disarm, Heartbeat, Housekeeping
<1> DEFINE old == schedule[m.port][Housekeeping]
           row == [old EXCEPT !.enabled = FALSE, !.last = 0]
<1>2. schedule' = [schedule EXCEPT ![m.port][Housekeeping] = row]
      /\ age' = [age EXCEPT ![m.port][Housekeeping] = 0]
  BY DEF Disarm
<1>3. row \in RowType /\ row.interval = old.interval /\ ~row.enabled
  BY <1>1, IntervalsAreTimes, ConstantTimes DEF RowType, Times
<1>4. schedule \in [Ports -> [Rows -> RowType]] /\ age \in [Ports -> [Rows -> Nat]]
  BY <1>1 DEF TypeOK
<1> HIDE DEF row
<1>5. schedule' \in [Ports -> [Rows -> RowType]] /\ age' \in [Ports -> [Rows -> Nat]]
  BY <1>1, <1>2, <1>3, <1>4
<1>6. \A p \in Ports, r \in Rows :
        IF p = m.port /\ r = Housekeeping
        THEN schedule'[p][r] = row
        ELSE schedule'[p][r] = schedule[p][r] /\ age'[p][r] = age[p][r]
  BY <1>1, <1>2, <1>4
<1>7. \A p \in Ports, r \in Rows :
         \/ schedule'[p][r] = schedule[p][r] /\ age'[p][r] = age[p][r]
         \/ /\ r # Heartbeat
            /\ MaxStall <= schedule'[p][r].interval
            /\ schedule'[p][r].interval + MaxStall < Wrap
            /\ schedule'[p][r].enabled =>
                 /\ Sub(clock, schedule'[p][r].last) = age'[p][r]
                 /\ age'[p][r] <= schedule'[p][r].interval + lag
  BY <1>1, <1>3, <1>6 DEF RowsKept
<1>8. \E frames \in [Ports -> 0 .. 2] : Post(frames)
  BY ToFrames DEF Disarm
<1> QED BY <1>1, <1>5, <1>7, <1>8, TakeKeeps

LEMMA ReplyKeeps ==
  ASSUME IInv, NEW m \in Arriving, Reply(m)
  PROVE  IInv'
<1>1. Take(m) /\ Post(Answer(m)) /\ UNCHANGED <<schedule, age>>
  BY DEF Reply
<1>2. Post([p \in Ports |-> Answer(m)[p]])
  BY <1>1 DEF Post
<1>3. [p \in Ports |-> Answer(m)[p]] \in [Ports -> 0 .. 2]
  BY AnswerBound
<1>4. schedule' \in [Ports -> [Rows -> RowType]] /\ age' \in [Ports -> [Rows -> Nat]]
  BY <1>1 DEF IInv, TypeOK
<1> QED BY <1>1, <1>2, <1>3, <1>4, TakeKeeps
-----------------------------------------------------------------------------
(* The end of the pass: what is due is emitted. *)

\* What a port has been told when its cursor is at c.
LapAt(lap, c) == \/ lap = {t \in Exists[board] : t < c}
                 \/ c = 0 /\ lap = Exists[board]

\* One more slot told: the lap grows by it, or was complete and begins anew.
LEMMA LapAdvances ==
  ASSUME board \in Boards, NEW c \in 0 .. Slots - 1, NEW lap, LapAt(lap, c)
  PROVE  /\ Advance(c) \in 0 .. Slots - 1
         /\ LapAt(Tell(lap, NextSlot(c)), Advance(c))
         /\ \/ lap = Exists[board]
            \/ /\ lap \subseteq Tell(lap, NextSlot(c))
               /\ lap # Tell(lap, NextSlot(c))
<1> DEFINE s == NextSlot(c)
           E == Exists[board]
<1>1. s \in E /\ \A t \in E : Ahead(c, s) <= Ahead(c, t)
  BY NextSlotFound
<1>2. Slots \in Nat /\ E \subseteq 0 .. Slots - 1
  BY MavlinkAssumption
<1>3. s \in 0 .. Slots - 1 /\ Advance(c) = After(s)
  BY <1>1, <1>2 DEF Advance
<1>4. Advance(c) \in 0 .. Slots - 1
  BY <1>2, <1>3 DEF After
<1> HIDE DEF s, E
<1>5. Slots \in Nat /\ s \in Nat /\ c \in Nat /\ \A t \in E : t \in Nat /\ t <= Slots - 1
  BY <1>2, <1>3
<1>6. CASE lap = {t \in E : t < c} /\ s >= c
  <2>1. s \notin lap
    BY <1>2, <1>3, <1>6
  <2>2. \A t \in E : t >= c => t >= s
    BY <1>1, <1>2, <1>3, <1>6 DEF Ahead
  <2>3. ASSUME NEW t
        PROVE  t \in lap \union {s} <=> t \in E /\ t <= s
    <3>1. CASE t \in E
      <4>1. t \in Nat /\ (t >= c => t >= s)
        BY <1>5, <2>2, <3>1
      <4>2. t < c \/ t = s <=> t <= s
        BY <1>5, <1>6, <4>1
      <4> QED BY <1>6, <3>1, <4>2
    <3>2. CASE t \notin E
      BY <1>1, <1>6, <3>2
    <3> QED BY <3>1, <3>2
  <2>4. Tell(lap, s) = lap \union {s}
    BY <2>1 DEF Tell
  <2>5. CASE s = Slots - 1
    <3>1. Tell(lap, s) = E
      <4>1. ASSUME NEW t PROVE t \in lap \union {s} <=> t \in E
        BY <1>5, <2>3, <2>5
      <4> QED BY <2>4, <4>1
    <3>2. After(s) = 0
      BY <2>5 DEF After
    <3> QED BY <1>3, <1>4, <2>1, <2>4, <3>1, <3>2 DEF LapAt, s, E
  <2>6. CASE s # Slots - 1
    <3>1. Tell(lap, s) = {t \in E : t < s + 1}
      <4>1. ASSUME NEW t \in E PROVE t <= s <=> t < s + 1
        BY <1>5
      <4>2. ASSUME NEW t PROVE t \in lap \union {s} <=> t \in {u \in E : u < s + 1}
        BY <2>3, <4>1
      <4> QED BY <2>4, <4>2
    <3>2. After(s) = s + 1
      BY <2>6 DEF After
    <3> QED BY <1>3, <1>4, <2>1, <2>4, <3>1, <3>2 DEF LapAt, s, E
  <2> QED BY <2>5, <2>6
<1>7. CASE (lap = {t \in E : t < c} /\ s < c) \/ (c = 0 /\ lap = E)
  <2>1. \A t \in E : t >= s
    BY <1>1, <1>2, <1>3, <1>7 DEF Ahead
  <2>2. lap = E
    <3>1. ASSUME s < c, NEW t \in E PROVE t < c
      BY <1>1, <1>2, <1>3, <3>1 DEF Ahead
    <3> QED BY <1>7, <3>1
  <2>3. Tell(lap, s) = {s}
    BY <1>1, <2>2 DEF Tell
  <2>4. CASE s = Slots - 1
    <3>1. E = {s}
      <4>1. ASSUME NEW t \in E PROVE t = s
        BY <1>5, <2>1, <2>4
      <4> QED BY <1>1, <4>1
    <3>2. After(s) = 0
      BY <2>4 DEF After
    <3> QED BY <1>3, <1>4, <2>2, <2>3, <3>1, <3>2 DEF LapAt, s, E
  <2>5. CASE s # Slots - 1
    <3>1. {s} = {t \in E : t < s + 1}
      <4>1. ASSUME NEW t \in E PROVE t < s + 1 <=> t = s
        BY <1>5, <2>1
      <4> QED BY <1>1, <1>5, <4>1
    <3>2. After(s) = s + 1
      BY <2>5 DEF After
    <3> QED BY <1>3, <1>4, <2>2, <2>3, <3>1, <3>2 DEF LapAt, s, E
  <2> QED BY <2>4, <2>5
<1>8. s >= c \/ s < c
  BY <1>3
<1> QED BY <1>6, <1>7, <1>8 DEF LapAt, s, E

\* A row that is due has waited its interval, and keeps the rest.
LEMMA EmitCounts ==
  ASSUME IInv, EmitDue, NEW p \in Ports, NEW r \in Rows
  PROVE  /\ schedule'[p][r] \in RowType /\ age'[p][r] \in Nat
         /\ schedule'[p][r].interval = schedule[p][r].interval
         /\ schedule'[p][r].enabled = schedule[p][r].enabled
         /\ schedule[p][r].enabled =>
              /\ Sub(clock, schedule'[p][r].last) = age'[p][r]
              /\ age'[p][r] <= schedule[p][r].interval
              /\ \/ age'[p][r] = age[p][r]
                 \/ /\ age'[p][r] = age[p][r] - schedule[p][r].interval
                    /\ age'[p][r] <= MaxStall
<1> DEFINE row == schedule[p][r]
<1>1. TypeOK /\ RowsKept /\ pc = "rows"
  BY DEF IInv, Timing, EmitDue
<1>2. /\ row.interval \in Times /\ row.last \in Times /\ row.interval \in Nat
      /\ age[p][r] \in Nat /\ MaxStall <= row.interval /\ row \in RowType
      /\ MaxStall \in Nat /\ lag \in Nat /\ lag <= MaxStall /\ clock \in Times
  BY <1>1, IntervalsAreTimes DEF Times, TypeOK
<1>3. row.enabled => Sub(clock, row.last) = age[p][r] /\ age[p][r] <= row.interval + lag
  BY <1>1 DEF IInv, Timing, CadenceKept, OnTime
<1>4. /\ schedule'[p][r] = IF r \in DueRows(p) THEN Advanced(row, clock) ELSE row
      /\ age'[p][r] = IF r \in DueRows(p) THEN age[p][r] - row.interval ELSE age[p][r]
  BY DEF EmitDue
<1>5. r \in DueRows(p) <=> row.enabled /\ Sub(clock, row.last) >= row.interval
  BY DEF DueRows, IsDue
<1>6. CASE r \in DueRows(p)
  <2>1. row.enabled /\ Sub(clock, row.last) = age[p][r] /\ row.interval <= age[p][r]
        /\ row.interval <= Sub(clock, row.last)
    BY <1>2, <1>3, <1>5, <1>6
  <2>2. schedule'[p][r] = [row EXCEPT !.last = Add(row.last, row.interval)]
    BY <1>4, <1>6 DEF Advanced
  <2>3. Add(row.last, row.interval) \in Times
    BY <1>2, TimesClosed
  <2>4. /\ schedule'[p][r] \in RowType /\ schedule'[p][r].interval = row.interval
        /\ schedule'[p][r].enabled = row.enabled
        /\ schedule'[p][r].last = Add(row.last, row.interval)
    BY <1>2, <2>2, <2>3 DEF RowType, Times
  <2>5. Sub(clock, Add(row.last, row.interval)) = age[p][r] - row.interval
    BY <1>2, <2>1, SubAdvance
  <2>6. /\ age'[p][r] = age[p][r] - row.interval /\ age'[p][r] \in Nat
        /\ age'[p][r] <= MaxStall /\ age'[p][r] <= row.interval
    BY <1>2, <1>3, <1>4, <1>6, <2>1
  <2> QED BY <2>1, <2>4, <2>5, <2>6
<1>7. CASE r \notin DueRows(p)
  <2>1. schedule'[p][r] = row /\ age'[p][r] = age[p][r]
    BY <1>4, <1>7
  <2>2. row.enabled => age[p][r] <= row.interval
    BY <1>2, <1>3, <1>5, <1>7
  <2> QED BY <1>2, <1>3, <2>1, <2>2
<1> QED BY <1>6, <1>7

LEMMA EmitDueKeeps ==
  ASSUME IInv, EmitDue
  PROVE  IInv'
<1>1. TypeOK /\ Timing /\ pc = "rows" /\ pc' = "top" /\ now' = clock /\ lag' = 0 /\ waitMs' = 0
      /\ UNCHANGED <<board, clock, linkReadQueue, lastBatteryLog, batteryAge>>
  BY DEF IInv, EmitDue
<1>2. /\ clock \in Times /\ MaxStall \in Nat /\ lag \in Nat /\ lag <= MaxStall
      /\ \A p \in Ports : posted[p] \in Nat /\ posted[p] <= 3
      /\ \A p \in Ports : cursor[p] \in 0 .. Slots - 1
  BY <1>1, ConstantTimes DEF IInv, TypeOK, Times, PostedSoFar
<1>3. ASSUME NEW p \in Ports
      PROVE  Cardinality(DueRows(p)) \in Nat /\ Cardinality(DueRows(p)) <= Cardinality(Rows)
  <2>1. DueRows(p) \in SUBSET Rows /\ IsFiniteSet(Rows)
    BY MavlinkAssumption DEF DueRows
  <2> QED BY <2>1, FS_Subset, FS_CardinalityType
<1>4. ASSUME NEW p \in Ports
      PROVE  posted'[p] \in Nat /\ posted'[p] <= Cardinality(Rows) + 3
  <2>1. posted'[p] = posted[p] + Cardinality(DueRows(p))
    BY DEF EmitDue, Post
  <2> QED BY <1>2, <1>3, <2>1, ConstantTimes
<1>5. ASSUME NEW p \in Ports
      PROVE  /\ cursor'[p] \in 0 .. Slots - 1
             /\ LapAt(told[p], cursor[p]) => LapAt(told'[p], cursor'[p])
             /\ told'[p] \subseteq Exists[board]
  <2>1. \/ cursor'[p] = cursor[p] /\ told'[p] = told[p]
        \/ cursor'[p] = Advance(cursor[p]) /\ told'[p] = Tell(told[p], NextSlot(cursor[p]))
    BY DEF EmitDue
  <2>2. board \in Boards /\ told[p] \subseteq Exists[board]
    BY <1>1 DEF TypeOK
  <2>3. LapAt(told[p], cursor[p])
    BY DEF IInv, LapSoFar, LapAt
  <2>4. NextSlot(cursor[p]) \in Exists[board]
    BY <1>2, <2>2, NextSlotFound
  <2>5. /\ Advance(cursor[p]) \in 0 .. Slots - 1
        /\ LapAt(Tell(told[p], NextSlot(cursor[p])), Advance(cursor[p]))
    BY <1>2, <2>2, <2>3, LapAdvances
  <2>6. Tell(told[p], NextSlot(cursor[p])) \subseteq Exists[board]
    BY <2>2, <2>4 DEF Tell
  <2> QED BY <1>2, <2>1, <2>2, <2>3, <2>5, <2>6
<1>6. TypeOK'
  <2>1. \A p \in Ports, r \in Rows : schedule'[p][r] \in RowType /\ age'[p][r] \in Nat
    BY EmitCounts
  <2>2. schedule' \in [Ports -> [Rows -> RowType]]
    <3>1. schedule' = [p \in Ports |-> [r \in Rows |->
            IF r \in DueRows(p) THEN Advanced(schedule[p][r], clock) ELSE schedule[p][r]]]
      BY DEF EmitDue
    <3>2. \A p \in Ports, r \in Rows :
            (IF r \in DueRows(p) THEN Advanced(schedule[p][r], clock) ELSE schedule[p][r])
              \in RowType
      BY <2>1, <3>1
    <3> QED BY <3>1, <3>2
  <2>3. age' \in [Ports -> [Rows -> Nat]]
    <3>1. age' = [p \in Ports |-> [r \in Rows |->
            IF r \in DueRows(p) THEN age[p][r] - schedule[p][r].interval ELSE age[p][r]]]
      BY DEF EmitDue
    <3>2. \A p \in Ports, r \in Rows :
            (IF r \in DueRows(p) THEN age[p][r] - schedule[p][r].interval ELSE age[p][r]) \in Nat
      BY <2>1, <3>1
    <3> QED BY <3>1, <3>2
  <2>4. posted' \in [Ports -> Nat]
    BY <1>4 DEF EmitDue, Post
  <2>5. cursor' \in [Ports -> 0 .. Slots - 1] /\ told' \in [Ports -> SUBSET Exists[board]]
    <3>1. /\ cursor' = [p \in Ports |-> cursor'[p]]
          /\ told' = [p \in Ports |-> told'[p]]
      BY DEF EmitDue
    <3> QED BY <1>5, <3>1
  <2>6. now' \in Times /\ waitMs' \in Times /\ lag' \in 0 .. MaxStall
    BY <1>1, <1>2, ConstantTimes
  <2> QED BY <1>1, <2>2, <2>3, <2>4, <2>5, <2>6 DEF TypeOK, Times
<1>7. RowsKept'
  <2>1. \A p \in Ports, r \in Rows :
          /\ schedule'[p][r].interval = schedule[p][r].interval
          /\ schedule'[p][r].enabled = schedule[p][r].enabled
    BY EmitCounts
  <2> QED BY <1>1, <2>1, ConstantTimes DEF Timing, RowsKept
<1>8. OnTime'
  <2>1. ASSUME NEW p \in Ports, NEW r \in Rows, schedule'[p][r].enabled
        PROVE  age'[p][r] <= schedule'[p][r].interval + lag'
    <3>1. age'[p][r] \in Nat /\ schedule'[p][r].interval \in Nat
          /\ age'[p][r] <= schedule'[p][r].interval
      BY <2>1, EmitCounts DEF RowType
    <3> QED BY <1>1, <3>1
  <2> QED BY <2>1 DEF OnTime
<1>9. CadenceKept'
  <2>1. \A p \in Ports, r \in Rows :
          schedule'[p][r].enabled => Sub(clock, schedule'[p][r].last) = age'[p][r]
    BY EmitCounts
  <2>2. ~Reduced => Sub(clock, lastBatteryLog) = batteryAge
    BY <1>1 DEF Timing, CadenceKept
  <2> QED BY <1>1, <2>1, <2>2 DEF CadenceKept, Reduced, Sub
<1>10. WaitsForFirst' /\ BatteryOff'
  BY <1>1 DEF Timing, WaitsForFirst, BatteryOff, Reduced
<1>11. BatteryFollows'
  <2>1. ASSUME ~Reduced, NEW p \in Ports
        PROVE  \/ batteryAge < age'[p][Heartbeat] + BatteryLogInterval
               \/ /\ age'[p][Heartbeat] <= MaxStall + lag'
                  /\ batteryAge < age'[p][Heartbeat] + BatteryLogInterval + Interval[Heartbeat]
    <3>1. /\ Heartbeat \in Rows /\ schedule[p][Heartbeat].enabled
          /\ schedule[p][Heartbeat].interval = Interval[Heartbeat]
          /\ age[p][Heartbeat] \in Nat /\ Interval[Heartbeat] \in Nat /\ BatteryLogInterval \in Nat
      BY <1>1, ConstantTimes, IntervalsAreTimes, MavlinkAssumption DEF Timing, RowsKept
    <3>2. batteryAge \in Nat /\ batteryAge < age[p][Heartbeat] + BatteryLogInterval
      BY <1>1, <2>1 DEF Timing, BatteryFollows, TypeOK
    <3>3. \/ age'[p][Heartbeat] = age[p][Heartbeat]
          \/ /\ age'[p][Heartbeat] = age[p][Heartbeat] - Interval[Heartbeat]
             /\ age'[p][Heartbeat] <= MaxStall
      BY <3>1, EmitCounts
    <3>4. age'[p][Heartbeat] \in Nat
      BY <3>1, EmitCounts
    <3> QED BY <1>1, <1>2, <3>1, <3>2, <3>3, <3>4
  <2> QED BY <1>1, <2>1 DEF BatteryFollows, Reduced
<1>12. LapSoFar'
  <2>1. \A p \in Ports : LapAt(told'[p], cursor'[p])
    BY <1>5 DEF IInv, LapSoFar, LapAt
  <2> QED BY <1>1, <2>1 DEF LapSoFar, LapAt
<1>13. PostedSoFar'
  BY <1>1, <1>4 DEF PostedSoFar
<1> QED BY <1>6, <1>7, <1>8, <1>9, <1>10, <1>11, <1>12, <1>13 DEF IInv, Timing
-----------------------------------------------------------------------------
(* Every behaviour. *)

\* The invariant holds in every state the task can be in.
THEOREM Invariance == Spec => []IInv
<1>1. Init => IInv
  BY InitEstablishes
<1>2. IInv /\ [Next]_vars => IInv'
  <2>1. SUFFICES ASSUME IInv, [Next]_vars PROVE IInv'
    OBVIOUS
  <2>2. CASE Start
    BY <2>1, <2>2, StartKeeps
  <2>3. CASE BeginPass
    BY <2>1, <2>3, BeginPassKeeps
  <2>4. CASE TimeOut
    BY <2>1, <2>4, TimeOutKeeps
  <2>5. CASE EmitDue
    BY <2>1, <2>5, EmitDueKeeps
  <2>6. ASSUME NEW m \in Arriving, Arm(m) \/ Disarm(m) \/ Reply(m)
        PROVE  IInv'
    BY <2>1, <2>6, ArmKeeps, DisarmKeeps, ReplyKeeps
  <2>7. ASSUME NEW a \in Arriving, LinkRead(a)
        PROVE  IInv'
    BY <2>1, <2>7, LinkReadKeeps
  <2>8. CASE Tick
    BY <2>1, <2>8, TickKeeps
  <2>9. CASE UNCHANGED vars
    BY <2>1, <2>9 DEF IInv, TypeOK, Timing, RowsKept, CadenceKept, OnTime,
       WaitsForFirst, BatteryFollows, BatteryOff, LapSoFar, PostedSoFar,
       Reduced, Sub, vars, taskVars
  <2> QED BY <2>1, <2>2, <2>3, <2>4, <2>5, <2>6, <2>7, <2>8, <2>9
          DEF Next, MavlinkStep
<1> QED BY <1>1, <1>2, PTL DEF Spec

\* The state of the task keeps its types: the cursor stays on the slots, and
\* what a port was told is of the tasks that exist.
THEOREM TypeCorrect == Spec => []TypeOK
<1>1. IInv => TypeOK
  BY DEF IInv
<1> QED BY <1>1, Invariance, PTL

\* The beats of TaskMavlink's schedule and of its battery record are counted
\* exactly, through late passes, answered commands and the wrap.
THEOREM CadenceIsKept == Spec => []CadenceKept
<1>1. IInv => CadenceKept
  BY DEF IInv, Timing
<1> QED BY <1>1, Invariance, PTL

\* No row of TaskMavlink's schedule is later than the task itself.
THEOREM BeatsAreOnTime == Spec => []BeatsOnTime
<1>1. IInv => BeatsOnTime
  BY InvImpliesBounds
<1> QED BY <1>1, Invariance, PTL

\* The battery record of TaskMavlink, which its wait does not know of, is
\* late by less than a heartbeat and what the task is late itself.
THEOREM BatteryIsLogged == Spec => []BatteryLogged
<1>1. IInv => BatteryLogged
  BY InvImpliesBounds
<1> QED BY <1>1, Invariance, PTL

\* A pass of TaskMavlink posts at most every row and three frames to a port.
THEOREM PassesAreBounded == Spec => []PassIsBounded
<1>1. IInv => PassIsBounded
  BY DEF IInv, PostedSoFar, PassIsBounded
<1> QED BY <1>1, Invariance, PTL

\* Only the end of a pass moves a port's cursor, and it tells a slot that the
\* lap had not told, unless the lap was complete.
THEOREM CyclesAreComplete == Spec => HousekeepingCycles
<1> DEFINE Cycles == \A p \in Ports :
             \/ cursor'[p] = cursor[p]
             \/ told[p] = Exists[board]
             \/ told[p] \subseteq told'[p] /\ told[p] # told'[p]
<1>1. IInv /\ [Next]_vars => [Cycles]_vars
  <2>1. SUFFICES ASSUME IInv, [Next]_vars PROVE Cycles
    OBVIOUS
  <2>2. CASE EmitDue
    <3>1. ASSUME NEW p \in Ports, cursor'[p] # cursor[p]
          PROVE  \/ told[p] = Exists[board]
                 \/ told[p] \subseteq told'[p] /\ told[p] # told'[p]
      <4>1. told'[p] = Tell(told[p], NextSlot(cursor[p]))
        BY <2>2, <3>1 DEF EmitDue
      <4>2. board \in Boards /\ cursor[p] \in 0 .. Slots - 1 /\ LapAt(told[p], cursor[p])
        BY <2>1 DEF IInv, TypeOK, LapSoFar, LapAt
      <4> QED BY <4>1, <4>2, LapAdvances
    <3> QED BY <3>1
  <2>3. CASE UNCHANGED cursor
    BY <2>3
  <2>4. EmitDue \/ UNCHANGED cursor
    BY <2>1 DEF Next, MavlinkStep, Start, BeginPass, TimeOut, Arm, Disarm, Reply,
                Take, LinkRead, Tick, vars, taskVars
  <2> QED BY <2>2, <2>3, <2>4
<1> QED BY <1>1, Invariance, PTL DEF Spec, HousekeepingCycles
=============================================================================
