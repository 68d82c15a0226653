-------------------------- MODULE BackupBlockProofs --------------------------
(***************************************************************************)
(* The properties of BackupBlock for bytes of every width, and that it     *)
(* implements AtomicBlock.  The inductive invariant says how far the call  *)
(* in progress has come, and what that leaves in the bytes.                *)
(***************************************************************************)
EXTENDS BackupBlock, TLAPS

-----------------------------------------------------------------------------
(* The sum. *)

\* Adding two bytes gives a byte.
LEMMA AddByteIsByte ==
  \A a, b \in Byte : AddByte(a, b) \in Byte
BY BlockAssumption DEF AddByte, Byte

\* A sum differs when one of its two terms does.
LEMMA AddByteCancels ==
  \A a, b, c \in Byte :
    /\ AddByte(a, b) = AddByte(a, c) => b = c
    /\ AddByte(b, a) = AddByte(c, a) => b = c
BY BlockAssumption DEF AddByte, Byte

\* The sum of a block is a byte.
LEMMA ChecksumIsByte ==
  \A b \in Blocks : ComputeChecksum(b) \in Byte
BY AddByteIsByte DEF ComputeChecksum, Blocks, Fields

\* Two blocks that differ in one field have different sums.
LEMMA OneChangeShows ==
  ASSUME NEW b \in Blocks, NEW c \in Blocks, NEW f \in Fields,
         \A g \in Fields \ {f} : c[g] = b[g],
         ComputeChecksum(c) = ComputeChecksum(b)
  PROVE  c = b
<1> DEFINE s2(x) == AddByte(x["consecutive"], x["cumulative"])
           s3(x) == AddByte(s2(x), x["phase"])
           s4(x) == AddByte(s3(x), x["marker"])
           s5(x) == AddByte(s4(x), x["name1"])
           s6(x) == AddByte(s5(x), x["name2"])
<1>1. \A g \in Fields : b[g] \in Byte /\ c[g] \in Byte
  BY DEF Blocks
<1>2. \A x \in {b, c} : /\ s2(x) \in Byte /\ s3(x) \in Byte /\ s4(x) \in Byte
                        /\ s5(x) \in Byte
  BY <1>1, AddByteIsByte DEF Fields
<1>3. s6(c) = s6(b)
  BY DEF ComputeChecksum
<1> HIDE DEF s2, s3, s4, s5, s6
<1>4. f # "name2" => s5(c) = s5(b)
  BY <1>1, <1>2, <1>3, AddByteCancels DEF s6, Fields
<1>5. f \notin {"name2", "name1"} => s4(c) = s4(b)
  BY <1>1, <1>2, <1>4, AddByteCancels DEF s5, Fields
<1>6. f \notin {"name2", "name1", "marker"} => s3(c) = s3(b)
  BY <1>1, <1>2, <1>5, AddByteCancels DEF s4, Fields
<1>7. f \in {"consecutive", "cumulative"} => s2(c) = s2(b)
  BY <1>1, <1>2, <1>6, AddByteCancels DEF s3, Fields
<1>8. f = "name2" => c[f] = b[f]
  <2>1. f = "name2" => s2(c) = s2(b)
    BY DEF s2, Fields
  <2>2. f = "name2" => s3(c) = s3(b)
    BY <2>1 DEF s3, Fields
  <2>3. f = "name2" => s4(c) = s4(b)
    BY <2>2 DEF s4, Fields
  <2>4. f = "name2" => s5(c) = s5(b)
    BY <2>3 DEF s5, Fields
  <2> QED BY <2>4, <1>1, <1>2, <1>3, AddByteCancels DEF s6, Fields
<1>9. f = "name1" => c[f] = b[f]
  <2>1. f = "name1" => s2(c) = s2(b)
    BY DEF s2, Fields
  <2>2. f = "name1" => s3(c) = s3(b)
    BY <2>1 DEF s3, Fields
  <2>3. f = "name1" => s4(c) = s4(b)
    BY <2>2 DEF s4, Fields
  <2> QED BY <2>3, <1>1, <1>2, <1>4, AddByteCancels DEF s5, Fields
<1>10. f = "marker" => c[f] = b[f]
  <2>1. f = "marker" => s2(c) = s2(b)
    BY DEF s2, Fields
  <2>2. f = "marker" => s3(c) = s3(b)
    BY <2>1 DEF s3, Fields
  <2> QED BY <2>2, <1>1, <1>2, <1>5, AddByteCancels DEF s4, Fields
<1>11. f = "phase" => c[f] = b[f]
  <2>1. f = "phase" => s2(c) = s2(b)
    BY DEF s2, Fields
  <2> QED BY <2>1, <1>1, <1>2, <1>6, AddByteCancels DEF s3, Fields
<1>12. f \in {"consecutive", "cumulative"} => c[f] = b[f]
  BY <1>1, <1>7, AddByteCancels DEF s2, Fields
<1>13. \A g \in Fields : c[g] = b[g]
  BY <1>8, <1>9, <1>10, <1>11, <1>12 DEF Fields
<1> QED BY <1>13 DEF Blocks
-----------------------------------------------------------------------------
(* The inductive invariant. *)

Writes == {WriteOrder(f) : f \in Fields}

\* Which call may be in progress where.
CallFits ==
  /\ where = "boot" => Idle
  /\ where = "counts" => order \in {<<>>, ClearOrder} \union
       {WriteOrder(f) : f \in {"consecutive", "cumulative", "marker"}}
  /\ where = "setup" => order \in {<<>>, WriteOrder("phase")}
  /\ where = "run" => order \in {<<>>} \union
       {WriteOrder(f) : f \in {"consecutive", "marker"}}
  /\ where = "reboot" => order \in {<<>>, ClearOrder, WriteOrder("marker")}
  /\ where = "fault" => order \in {<<>>, FaultOrder}

\* Between two calls the block is valid, once setup() has looked at it.
ValidBetweenCalls ==
  Idle /\ where \in {"counts", "setup", "run", "reboot"} => IsValid

\* What is not yet as the call leaves it is still to be stored, and the sum
\* is taken when only the magic is left.
RestIsPending ==
  ~Idle =>
    /\ \A f \in Fields : \/ bytes[f] = target[f]
                         \/ \E i \in next .. Len(order) : order[i] = f
    /\ next = Len(order) => checksum = ComputeChecksum(bytes)

\* What a caller makes of the contents b.
IsGoal(b, c) ==
  \/ \E f \in Fields, v \in Byte : c = [b EXCEPT ![f] = v]
  \/ \E n1, n2, p \in Byte : c = WithFault(b, n1, n2, p)
  \/ c = ZeroBlock

\* During a call every byte is an old or a new one, and the call is one that
\* AtomicBlock knows; an invalid block is only ever being cleared.
BytesAreOldOrNew ==
  ~Idle =>
    /\ before = NoBlock => /\ order = ClearOrder /\ where = "counts"
                           /\ next = 1 => ~IsValid
    /\ order = ClearOrder => target = ZeroBlock /\ (next > 1 => bytes["consecutive"] = 0)
    /\ before # NoBlock => /\ \A f \in Fields : bytes[f] \in {before[f], target[f]}
                           /\ IsGoal(before, target)

\* Until writeByte() takes the sum, the one in store is the old one.
SumIsStale ==
  \A f \in Fields : order = WriteOrder(f) /\ next <= 2 =>
    /\ before # NoBlock
    /\ checksum = ComputeChecksum(before)
    /\ \A g \in Fields \ {f} : bytes[g] = before[g]

\* A phase that claims a fault comes after the whole name, whether or not
\* the block is valid, and no hook runs while such a phase stands.
ClaimFollowsName ==
  /\ marked /\ bytes["phase"] \in FaultPhases
       => <<bytes["name1"], bytes["name2"]>> = claim
  /\ where \in {"run", "reboot"} \/ (where = "setup" /\ Idle) =>
       marked /\ bytes["phase"] \notin FaultPhases
  /\ where \in {"setup", "run", "reboot"} => target["phase"] \notin FaultPhases
  /\ order = ClearOrder /\ next > 3 => bytes["phase"] = 0
  /\ order = FaultOrder =>
       /\ marked /\ <<target["name1"], target["name2"]>> = claim
       /\ next <= 3 => bytes["phase"] \notin FaultPhases
       /\ next >= 2 => bytes["name1"] = target["name1"]
       /\ next >= 3 => bytes["name2"] = target["name2"]

IInv ==
  /\ TypeOK
  /\ CallFits
  /\ ValidBetweenCalls
  /\ RestIsPending
  /\ BytesAreOldOrNew
  /\ SumIsStale
  /\ ClaimFollowsName

-----------------------------------------------------------------------------
(* The orders of the stores. *)

\* The lengths of the calls, and no two are the same.
LEMMA OrdersDiffer ==
  /\ Len(ClearOrder) = 8 /\ Len(FaultOrder) = 5
  /\ \A f \in Fields : /\ Len(WriteOrder(f)) = 3
                       /\ WriteOrder(f) \notin {<<>>, ClearOrder, FaultOrder}
                       /\ \A g \in Fields : WriteOrder(f) = WriteOrder(g) => f = g
  /\ ClearOrder # FaultOrder /\ <<>> \notin {ClearOrder, FaultOrder}
<1>1. Len(ClearOrder) = 8 /\ Len(FaultOrder) = 5
  BY DEF ClearOrder, FaultOrder
<1>2. ASSUME NEW f \in Fields, NEW g \in Fields
      PROVE  Len(WriteOrder(f)) = 3 /\ WriteOrder(f)[1] = f /\ WriteOrder(g)[1] = g
  BY DEF WriteOrder
<1>3. Len(<<>>) = 0
  OBVIOUS
<1>4. \A f \in Fields : Len(WriteOrder(f)) = 3
  BY <1>2
<1>5. \A f \in Fields : WriteOrder(f) # <<>>
  BY <1>3, <1>4
<1>6. \A f \in Fields : WriteOrder(f) # ClearOrder /\ WriteOrder(f) # FaultOrder
  BY <1>1, <1>4
<1>7. \A f, g \in Fields : WriteOrder(f) = WriteOrder(g) => f = g
  BY <1>2
<1>8. ClearOrder # FaultOrder
  BY <1>1
<1>9. <<>> # ClearOrder /\ <<>> # FaultOrder
  BY DEF ClearOrder, FaultOrder
<1> QED BY <1>1, <1>4, <1>5, <1>6, <1>7, <1>8, <1>9

\* The sum is stored last but one, and the magic last.
LEMMA OrderShape ==
  ASSUME TypeOK, ~Idle
  PROVE  /\ next \in 1 .. Len(order) /\ Len(order) \in 3 .. 8
         /\ order[next] = "magic" <=> next = Len(order)
         /\ order[next] = "checksum" <=> next = Len(order) - 1
         /\ order[next] \in Fields <=> next < Len(order) - 1
<1>1. CASE order = ClearOrder
  BY <1>1 DEF TypeOK, Idle, ClearOrder, Fields
<1>2. CASE order = FaultOrder
  BY <1>2 DEF TypeOK, Idle, FaultOrder, Fields
<1>3. ASSUME NEW f \in Fields, order = WriteOrder(f)
      PROVE  /\ next \in 1 .. Len(order) /\ Len(order) \in 3 .. 8
             /\ order[next] = "magic" <=> next = Len(order)
             /\ order[next] = "checksum" <=> next = Len(order) - 1
             /\ order[next] \in Fields <=> next < Len(order) - 1
  BY <1>3 DEF TypeOK, Idle, WriteOrder, Fields
<1> QED BY <1>1, <1>2, <1>3 DEF TypeOK, Idle, Orders
-----------------------------------------------------------------------------
(* The invariant is inductive. *)

\* AtomicBlock and BackupBlock mean the same by the names of BlockFields.
LEMMA SameFields ==
  /\ Atomic!Fields = Fields /\ Atomic!Byte = Byte /\ Atomic!Blocks = Blocks
  /\ Atomic!ZeroBlock = ZeroBlock /\ Atomic!NoBlock = NoBlock
  /\ \A b, n1, n2, p : Atomic!WithFault(b, n1, n2, p) = WithFault(b, n1, n2, p)
BY DEF Atomic!Fields, Fields, Atomic!Byte, Byte, Atomic!Blocks, Blocks,
       Atomic!ZeroBlock, ZeroBlock, Atomic!NoBlock, NoBlock,
       Atomic!WithFault, WithFault

\* The zeroed block is a block, it has the phase Start, and no block is none.
LEMMA BlockFacts ==
  /\ ZeroBlock \in Blocks /\ NoBlock \notin Blocks
  /\ Start \in Byte /\ Start \notin FaultPhases /\ FaultPhases \subseteq Byte
<1>1. "phase" \in Fields
  BY DEF Fields
<1>2. \A b \in Blocks : b # NoBlock
  BY <1>1 DEF Blocks, NoBlock
<1> QED BY <1>2, BlockAssumption DEF ZeroBlock, Blocks, Byte, Start

\* A behaviour starts in the invariant, whatever the bytes hold.
LEMMA InitHolds == Init => IInv
<1> SUFFICES ASSUME Init PROVE IInv
  OBVIOUS
<1>1. Idle /\ order = <<>> /\ next = 1 /\ where = "boot"
  BY DEF Init, Idle
<1>2. TypeOK
  <2>1. bytes \in Blocks /\ target \in Blocks /\ checksum \in Byte
    BY DEF Init
  <2>2. magic \in BOOLEAN /\ marked \in BOOLEAN
    BY Zenon DEF Init
  <2>3. claim \in Byte \X Byte
    BY BlockAssumption DEF Init, Byte
  <2>4. before \in Blocks \union {NoBlock} /\ order \in Orders /\ where \in Places
    BY DEF Init, Orders, Places
  <2> QED BY <1>1, <2>1, <2>2, <2>3, <2>4 DEF TypeOK
<1>3. CallFits /\ ValidBetweenCalls /\ RestIsPending /\ BytesAreOldOrNew
  BY <1>1 DEF CallFits, ValidBetweenCalls, RestIsPending, BytesAreOldOrNew
<1>4. SumIsStale /\ ClaimFollowsName
  BY <1>1, OrdersDiffer DEF Init, SumIsStale, ClaimFollowsName
<1> QED BY <1>2, <1>3, <1>4 DEF IInv

\* What a call of writeByte() establishes, wherever it comes from.
LEMMA WriteBegins ==
  ASSUME IInv, Idle, IsValid, NEW f \in Fields, NEW v \in Byte,
         WriteByte(f, v), UNCHANGED <<bytes, checksum, magic, marked, claim>>,
         where' \in Places
  PROVE  /\ TypeOK' /\ ~Idle' /\ order' = WriteOrder(f)
         /\ RestIsPending' /\ BytesAreOldOrNew' /\ SumIsStale'
         /\ target'["phase"] = IF f = "phase" THEN v ELSE bytes["phase"]
<1>1. /\ order' = WriteOrder(f) /\ next' = 1
      /\ target' = [bytes EXCEPT ![f] = v] /\ before' = bytes
  BY DEF WriteByte, Call, Believed
<1>2. bytes \in Blocks /\ target' \in Blocks
  BY <1>1 DEF IInv, TypeOK, Blocks
<1>3. ~Idle' /\ Len(order') = 3
  BY <1>1, OrdersDiffer DEF Idle
<1>4. TypeOK'
  BY <1>1, <1>2, <1>3 DEF IInv, TypeOK, Orders
<1>5. RestIsPending'
  <2>1. order'[1] = f
    BY <1>1 DEF WriteOrder
  <2>2. \A g \in Fields \ {f} : bytes[g] = target'[g]
    BY <1>1, <1>2 DEF Blocks
  <2> QED BY <1>1, <1>3, <2>1, <2>2 DEF RestIsPending
<1>6. BytesAreOldOrNew'
  <2>1. before' # NoBlock
    BY <1>1, <1>2, BlockFacts
  <2>2. order' # ClearOrder
    BY <1>1, OrdersDiffer
  <2>3. IsGoal(before, target)'
    BY <1>1 DEF IsGoal
  <2>4. \A g \in Fields : bytes'[g] \in {before'[g], target'[g]}
    BY <1>1
  <2> QED BY <2>1, <2>2, <2>3, <2>4 DEF BytesAreOldOrNew
<1>7. SumIsStale'
  BY <1>1, <1>2, BlockFacts DEF SumIsStale, IsValid
<1>8. target'["phase"] = IF f = "phase" THEN v ELSE bytes["phase"]
  BY <1>1, <1>2 DEF Blocks, Fields
<1> QED BY <1>1, <1>3, <1>4, <1>5, <1>6, <1>7, <1>8

\* What a call of reinitialise() establishes.
LEMMA ClearBegins ==
  ASSUME IInv, Idle, IsValid \/ where' = "counts", Reinitialise,
         UNCHANGED <<bytes, checksum, magic, marked, claim>>, where' \in Places
  PROVE  /\ TypeOK' /\ ~Idle' /\ order' = ClearOrder /\ next' = 1
         /\ target' = ZeroBlock
         /\ RestIsPending' /\ BytesAreOldOrNew' /\ SumIsStale'
<1>1. /\ order' = ClearOrder /\ next' = 1 /\ target' = ZeroBlock
      /\ before' = IF IsValid THEN bytes ELSE NoBlock
  BY DEF Reinitialise, Call, Believed
<1>2. bytes \in Blocks /\ target' \in Blocks
  BY <1>1, BlockFacts DEF IInv, TypeOK
<1>3. ~Idle' /\ Len(order') = 8
  BY <1>1, OrdersDiffer DEF Idle
<1>4. TypeOK'
  BY <1>1, <1>2, <1>3 DEF IInv, TypeOK, Orders
<1>5. RestIsPending'
  <2>1. \A f \in Fields : \E i \in 1 .. 8 : order'[i] = f
    BY <1>1 DEF ClearOrder, Fields
  <2> QED BY <1>1, <1>3, <2>1 DEF RestIsPending
<1>6. BytesAreOldOrNew'
  <2>1. IsGoal(before, target)'
    BY <1>1 DEF IsGoal
  <2>2. before' # NoBlock =>
          \A f \in Fields : bytes'[f] \in {before'[f], target'[f]}
    BY <1>1
  <2>3. before' = NoBlock => where' = "counts" /\ ~IsValid'
    BY <1>1, <1>2, BlockFacts DEF IInv, TypeOK, IsValid
  <2> QED BY <1>1, <2>1, <2>2, <2>3 DEF BytesAreOldOrNew
<1>7. SumIsStale'
  BY <1>1, OrdersDiffer DEF SumIsStale
<1> QED BY <1>1, <1>3, <1>4, <1>5, <1>6, <1>7
\* setup()'s check of the block.
LEMMA CheckKeeps == IInv /\ Check => IInv'
<1> SUFFICES ASSUME IInv, Check PROVE IInv'
  OBVIOUS
<1>1. /\ Idle /\ where' = "counts" /\ UNCHANGED <<bytes, checksum, magic, marked, claim>>
      /\ where' \in Places
  BY DEF Check, Places
<1>2. CASE IsValid
  <2>1. UNCHANGED <<order, next, target, before>>
    BY <1>2 DEF Check
  <2>2. TypeOK' /\ Idle'
    BY <1>1, <2>1 DEF IInv, TypeOK, Idle
  <2>3. CallFits' /\ ValidBetweenCalls' /\ RestIsPending' /\ BytesAreOldOrNew'
    BY <1>1, <1>2, <2>1, <2>2 DEF CallFits, ValidBetweenCalls, IsValid,
       RestIsPending, BytesAreOldOrNew, Idle
  <2>4. SumIsStale' /\ ClaimFollowsName'
    BY <1>1, <2>1, <2>2, OrdersDiffer DEF IInv, SumIsStale, ClaimFollowsName, Idle
  <2> QED BY <2>2, <2>3, <2>4 DEF IInv
<1>3. CASE ~IsValid
  <2>1. /\ TypeOK' /\ ~Idle' /\ order' = ClearOrder /\ next' = 1
        /\ RestIsPending' /\ BytesAreOldOrNew' /\ SumIsStale'
    BY <1>1, <1>3, ClearBegins DEF Check
  <2>2. CallFits' /\ ValidBetweenCalls'
    BY <1>1, <2>1 DEF CallFits, ValidBetweenCalls
  <2>3. ClaimFollowsName'
    BY <1>1, <2>1, OrdersDiffer DEF IInv, ClaimFollowsName
  <2> QED BY <2>1, <2>2, <2>3 DEF IInv
<1> QED BY <1>2, <1>3

\* setPhase(BootPhase::Start).
LEMMA MarkStartKeeps == IInv /\ MarkStart => IInv'
<1> SUFFICES ASSUME IInv, MarkStart PROVE IInv'
  OBVIOUS
<1>1. /\ Idle /\ where = "counts" /\ where' = "setup" /\ where' \in Places
      /\ UNCHANGED <<bytes, checksum, magic, marked, claim>>
      /\ WriteByte("phase", Start)
  BY DEF MarkStart, Places
<1>2. IsValid /\ "phase" \in Fields
  BY <1>1 DEF IInv, ValidBetweenCalls, Fields
<1>3. /\ TypeOK' /\ ~Idle' /\ order' = WriteOrder("phase")
      /\ RestIsPending' /\ BytesAreOldOrNew' /\ SumIsStale'
      /\ target'["phase"] = Start
  BY <1>1, <1>2, BlockFacts, WriteBegins
<1>4. CallFits' /\ ValidBetweenCalls'
  BY <1>1, <1>3 DEF CallFits, ValidBetweenCalls
<1>5. ClaimFollowsName'
  BY <1>1, <1>2, <1>3, OrdersDiffer, BlockFacts DEF IInv, ClaimFollowsName
<1> QED BY <1>3, <1>4, <1>5 DEF IInv

\* What setup() stores before its phase.
LEMMA CountWritesKeeps ==
  ASSUME NEW f \in Fields, NEW v \in Byte
  PROVE  IInv /\ CountWrites(f, v) => IInv'
<1> SUFFICES ASSUME IInv, CountWrites(f, v) PROVE IInv'
  OBVIOUS
<1>1. /\ Idle /\ where = "counts" /\ UNCHANGED <<bytes, checksum, magic, where, marked, claim>>
      /\ WriteByte(f, v) /\ where' \in Places
      /\ f \in {"consecutive", "cumulative", "marker"}
  BY DEF CountWrites, Places
<1>2. IsValid
  BY <1>1 DEF IInv, ValidBetweenCalls
<1>3. /\ TypeOK' /\ ~Idle' /\ order' = WriteOrder(f)
      /\ RestIsPending' /\ BytesAreOldOrNew' /\ SumIsStale'
      /\ target'["phase"] = IF f = "phase" THEN v ELSE bytes["phase"]
  BY <1>1, <1>2, WriteBegins
<1>4. CallFits' /\ ValidBetweenCalls'
  BY <1>1, <1>3 DEF CallFits, ValidBetweenCalls
<1>5. ClaimFollowsName'
  BY <1>1, <1>3, OrdersDiffer DEF IInv, ClaimFollowsName
<1> QED BY <1>3, <1>4, <1>5 DEF IInv

\* The milestones of setup().
LEMMA MilestoneKeeps ==
  ASSUME NEW v \in Byte
  PROVE  IInv /\ Milestone(v) => IInv'
<1> SUFFICES ASSUME IInv, Milestone(v) PROVE IInv'
  OBVIOUS
<1>1. /\ Idle /\ where = "setup" /\ UNCHANGED <<bytes, checksum, magic, where, marked, claim>>
      /\ WriteByte("phase", v) /\ where' \in Places
      /\ v \notin FaultPhases /\ "phase" \in Fields
  BY DEF Milestone, Places, Fields
<1>2. IsValid
  BY <1>1 DEF IInv, ValidBetweenCalls
<1>3. /\ TypeOK' /\ ~Idle' /\ order' = WriteOrder("phase")
      /\ RestIsPending' /\ BytesAreOldOrNew' /\ SumIsStale'
      /\ target'["phase"] = v
  BY <1>1, <1>2, WriteBegins
<1>4. CallFits' /\ ValidBetweenCalls'
  BY <1>1, <1>3 DEF CallFits, ValidBetweenCalls
<1>5. ClaimFollowsName'
  BY <1>1, <1>3, OrdersDiffer DEF IInv, ClaimFollowsName
<1> QED BY <1>3, <1>4, <1>5 DEF IInv

\* The start of the scheduler.
LEMMA StartSchedulerKeeps == IInv /\ StartScheduler => IInv'
<1> SUFFICES ASSUME IInv, StartScheduler PROVE IInv'
  OBVIOUS
<1>1. /\ where = "setup" /\ where' = "run" /\ Idle
      /\ UNCHANGED <<bytes, checksum, magic, order, next, target, before, marked, claim>>
  BY DEF StartScheduler
<1>2. TypeOK' /\ Idle'
  BY <1>1 DEF IInv, TypeOK, Places, Idle
<1>3. CallFits' /\ ValidBetweenCalls'
  BY <1>1, <1>2 DEF IInv, CallFits, ValidBetweenCalls, IsValid, Idle
<1>4. RestIsPending' /\ BytesAreOldOrNew'
  BY <1>2 DEF RestIsPending, BytesAreOldOrNew
<1>5. SumIsStale' /\ ClaimFollowsName'
  BY <1>1, <1>2, OrdersDiffer DEF IInv, SumIsStale, ClaimFollowsName, Idle
<1> QED BY <1>2, <1>3, <1>4, <1>5 DEF IInv

\* What TaskMavlink writes.
LEMMA TaskWritesKeeps == IInv /\ TaskWrites => IInv'
<1> SUFFICES ASSUME IInv, TaskWrites PROVE IInv'
  OBVIOUS
<1>1. /\ Idle /\ where = "run" /\ UNCHANGED <<bytes, checksum, magic, where, marked, claim>>
      /\ where' \in Places
  BY DEF TaskWrites, Places
<1>2. IsValid
  BY <1>1 DEF IInv, ValidBetweenCalls
<1>3. ASSUME NEW f \in {"consecutive", "marker"}, NEW v \in Byte, WriteByte(f, v)
      PROVE  IInv'
  <2>1. f \in Fields
    BY DEF Fields
  <2>2. /\ TypeOK' /\ ~Idle' /\ order' = WriteOrder(f)
        /\ RestIsPending' /\ BytesAreOldOrNew' /\ SumIsStale'
        /\ target'["phase"] = bytes["phase"]
    BY <1>1, <1>2, <1>3, <2>1, WriteBegins
  <2>3. CallFits' /\ ValidBetweenCalls'
    BY <1>1, <2>2 DEF CallFits, ValidBetweenCalls
  <2>4. ClaimFollowsName'
    BY <1>1, <2>1, <2>2, OrdersDiffer DEF IInv, ClaimFollowsName
  <2> QED BY <2>2, <2>3, <2>4 DEF IInv
<1>4. 0 \in Byte
  BY BlockFacts DEF Start
<1> QED BY <1>3, <1>4 DEF TaskWrites

\* The reboot command's clear.
LEMMA RebootCommandKeeps == IInv /\ RebootCommand => IInv'
<1> SUFFICES ASSUME IInv, RebootCommand PROVE IInv'
  OBVIOUS
<1>1. /\ Idle /\ where = "run" /\ where' = "reboot" /\ where' \in Places
      /\ UNCHANGED <<bytes, checksum, magic, marked, claim>> /\ Reinitialise
  BY DEF RebootCommand, Places
<1>2. IsValid
  BY <1>1 DEF IInv, ValidBetweenCalls
<1>3. /\ TypeOK' /\ ~Idle' /\ order' = ClearOrder /\ next' = 1
      /\ target' = ZeroBlock
      /\ RestIsPending' /\ BytesAreOldOrNew' /\ SumIsStale'
  BY <1>1, <1>2, ClearBegins
<1>4. target'["phase"] \notin FaultPhases
  BY <1>3, BlockFacts DEF ZeroBlock, Fields, Start
<1>5. CallFits' /\ ValidBetweenCalls'
  BY <1>1, <1>3 DEF CallFits, ValidBetweenCalls
<1>6. ClaimFollowsName'
  BY <1>1, <1>3, <1>4, OrdersDiffer DEF IInv, ClaimFollowsName
<1> QED BY <1>3, <1>5, <1>6 DEF IInv

\* The marker that the reboot command leaves.
LEMMA LeaveCommandedKeeps == IInv /\ LeaveCommanded => IInv'
<1> SUFFICES ASSUME IInv, LeaveCommanded PROVE IInv'
  OBVIOUS
<1>1. /\ Idle /\ where = "reboot" /\ UNCHANGED <<bytes, checksum, magic, where, marked, claim>>
      /\ where' \in Places /\ "marker" \in Fields
  BY DEF LeaveCommanded, Places, Fields
<1>2. PICK v \in Byte : WriteByte("marker", v)
  BY DEF LeaveCommanded
<1>3. IsValid
  BY <1>1 DEF IInv, ValidBetweenCalls
<1>4. /\ TypeOK' /\ ~Idle' /\ order' = WriteOrder("marker")
      /\ RestIsPending' /\ BytesAreOldOrNew' /\ SumIsStale'
      /\ target'["phase"] = bytes["phase"]
  BY <1>1, <1>2, <1>3, WriteBegins
<1>5. CallFits' /\ ValidBetweenCalls'
  BY <1>1, <1>4 DEF CallFits, ValidBetweenCalls
<1>6. ClaimFollowsName'
  BY <1>1, <1>4, OrdersDiffer DEF IInv, ClaimFollowsName
<1> QED BY <1>4, <1>5, <1>6 DEF IInv

\* A fault hook, in the middle of another call or not.
LEMMA RecordFaultKeeps ==
  ASSUME NEW n1 \in Byte, NEW n2 \in Byte, NEW p \in FaultPhases
  PROVE  IInv /\ RecordFault(n1, n2, p) => IInv'
<1> SUFFICES ASSUME IInv, RecordFault(n1, n2, p) PROVE IInv'
  OBVIOUS
<1>1. /\ where' = "fault" /\ order' = FaultOrder /\ next' = 1
      /\ target' = WithFault(bytes, n1, n2, p) /\ before' = bytes
      /\ claim' = <<n1, n2>> /\ UNCHANGED <<bytes, checksum, magic, marked>>
      /\ where \in {"run", "reboot"} \/ (where = "setup" /\ Idle)
  BY DEF RecordFault
<1>2. /\ ~Idle' /\ Len(order') = 5
      /\ order'[1] = "name1" /\ order'[2] = "name2" /\ order'[3] = "phase"
  BY <1>1, OrdersDiffer DEF Idle, FaultOrder
<1>3. /\ bytes \in Blocks /\ target' \in Blocks /\ p \in Byte
      /\ target'["name1"] = n1 /\ target'["name2"] = n2
      /\ \A f \in Fields \ {"name1", "name2", "phase"} : target'[f] = bytes[f]
  BY <1>1, BlockFacts DEF IInv, TypeOK, WithFault, Blocks, Fields
<1>4. TypeOK'
  <2>1. claim' \in Byte \X Byte /\ where' \in Places /\ order' \in Orders
    BY <1>1 DEF Places, Orders
  <2> QED BY <1>1, <1>2, <1>3, <2>1 DEF IInv, TypeOK
<1>5. CallFits' /\ ValidBetweenCalls'
  BY <1>1, <1>2 DEF CallFits, ValidBetweenCalls
<1>6. RestIsPending'
  BY <1>1, <1>2, <1>3 DEF RestIsPending
<1>7. BytesAreOldOrNew'
  BY <1>1, <1>3, BlockFacts, OrdersDiffer DEF BytesAreOldOrNew, IsGoal
<1>8. SumIsStale'
  BY <1>1, OrdersDiffer DEF SumIsStale
<1>9. ClaimFollowsName'
  BY <1>1, <1>3, OrdersDiffer DEF IInv, ClaimFollowsName
<1> QED BY <1>4, <1>5, <1>6, <1>7, <1>8, <1>9 DEF IInv

\* A reset.
LEMMA ResetKeeps == IInv /\ Reset => IInv'
<1> SUFFICES ASSUME IInv, Reset PROVE IInv'
  OBVIOUS
<1>1. /\ where' = "boot" /\ order' = <<>> /\ next' = 1 /\ target' = bytes
      /\ before' = NoBlock /\ UNCHANGED <<bytes, checksum, magic, marked, claim>>
  BY DEF Reset
<1>2. TypeOK' /\ Idle'
  BY <1>1 DEF IInv, TypeOK, Places, Orders, Idle
<1>3. CallFits' /\ ValidBetweenCalls' /\ RestIsPending' /\ BytesAreOldOrNew'
  BY <1>1, <1>2 DEF CallFits, ValidBetweenCalls, RestIsPending, BytesAreOldOrNew
<1>4. SumIsStale' /\ ClaimFollowsName'
  BY <1>1, OrdersDiffer DEF IInv, SumIsStale, ClaimFollowsName
<1> QED BY <1>2, <1>3, <1>4 DEF IInv
\* The store of a field.
LEMMA FieldStoreKeeps ==
  ASSUME IInv, Store, order[next] \in Fields
  PROVE  IInv'
<1> DEFINE at == order[next]
<1>1. ~Idle
  BY DEF Store
<1>2. /\ next \in 1 .. Len(order) /\ Len(order) \in 3 .. 8 /\ next < Len(order) - 1
      /\ at # "magic" /\ at # "checksum" /\ at \in Fields
  BY <1>1, OrderShape DEF IInv
<1>a. next + 1 \in 1 .. 8 /\ next + 1 <= Len(order)
  <2>1. \A n, m \in Int : n \in 1 .. m /\ n < m - 1 /\ m \in 3 .. 8
                            => n + 1 \in 1 .. 8 /\ n + 1 <= m
    OBVIOUS
  <2>2. next \in Int /\ Len(order) \in Int
    BY <1>2
  <2> QED BY <1>2, <2>1, <2>2, Zenon
<1>3. /\ bytes' = [bytes EXCEPT ![at] = target[at]]
      /\ next' = next + 1
      /\ UNCHANGED <<checksum, magic, marked, order, target, before, where, claim>>
  BY <1>2 DEF Store
<1>4. /\ bytes \in Blocks /\ target \in Blocks /\ bytes' \in Blocks
      /\ bytes'[at] = target[at] /\ \A f \in Fields \ {at} : bytes'[f] = bytes[f]
  BY <1>2, <1>3 DEF IInv, TypeOK, Blocks
<1> HIDE DEF at
<1>5. TypeOK' /\ ~Idle'
  <2>1. next' \in 1 .. 8 /\ next' <= Len(order')
    BY <1>a, <1>3
  <2> QED BY <1>1, <1>3, <1>4, <2>1 DEF IInv, TypeOK, Idle
<1>6. CallFits' /\ ValidBetweenCalls'
  BY <1>1, <1>3 DEF IInv, CallFits, ValidBetweenCalls, Idle
<1>7. RestIsPending'
  <2>1. ASSUME NEW f \in Fields
        PROVE  \/ bytes'[f] = target[f]
               \/ \E i \in next + 1 .. Len(order) : order[i] = f
    <3>1. CASE f = at
      BY <3>1, <1>4
    <3>2. CASE f # at /\ \E i \in next .. Len(order) : order[i] = f
      BY <3>2, <1>2 DEF at
    <3> QED BY <1>1, <1>4, <3>1, <3>2 DEF IInv, RestIsPending
  <2> QED BY <1>2, <1>3, <2>1 DEF RestIsPending
<1>8. BytesAreOldOrNew'
  <2>1. order = ClearOrder => target = ZeroBlock /\ bytes'["consecutive"] = 0
    <3>1. order = ClearOrder /\ next = 1 => at = "consecutive"
      BY DEF ClearOrder, at
    <3>2. order = ClearOrder => target = ZeroBlock /\ (next > 1 => bytes["consecutive"] = 0)
      BY <1>1 DEF IInv, BytesAreOldOrNew
    <3>3. "consecutive" \in Fields
      BY DEF Fields
    <3> QED BY <1>2, <1>4, <3>1, <3>2, <3>3 DEF ZeroBlock
  <2>2. before # NoBlock => /\ \A f \in Fields : bytes'[f] \in {before[f], target[f]}
                            /\ IsGoal(before, target)
    BY <1>1, <1>4 DEF IInv, BytesAreOldOrNew
  <2>3. before = NoBlock => order = ClearOrder /\ where = "counts"
    BY <1>1 DEF IInv, BytesAreOldOrNew
  <2>4. next' # 1
    BY <1>2, <1>3
  <2> QED BY <1>3, <2>1, <2>2, <2>3, <2>4 DEF BytesAreOldOrNew, IsGoal
<1>9. SumIsStale'
  <2>1. ASSUME NEW f \in Fields, order = WriteOrder(f), next + 1 <= 2
        PROVE  /\ before # NoBlock /\ checksum = ComputeChecksum(before)
               /\ \A g \in Fields \ {f} : bytes'[g] = before[g]
    <3>1. next = 1 /\ at = f
      BY <2>1, <1>2 DEF WriteOrder, at
    <3> QED BY <2>1, <3>1, <1>4 DEF IInv, SumIsStale
  <2> QED BY <1>3, <2>1 DEF SumIsStale
<1>10. ClaimFollowsName'
  <2>1. {"phase", "name1", "name2"} \subseteq Fields
    BY DEF Fields
  <2>2. CASE order = ClearOrder
    <3>1. /\ next = 3 => at = "phase"
          /\ next < 3 => at \notin {"phase", "name1", "name2"}
          /\ next = 4 => at = "marker"
      BY <2>2, <1>2 DEF ClearOrder, at
    <3>2. target["phase"] = 0 /\ 0 \notin FaultPhases
      BY <2>2, <2>1, <1>1, BlockFacts DEF IInv, BytesAreOldOrNew, ZeroBlock, Start
    <3>3. next >= 3 => bytes'["phase"] = 0
      BY <3>1, <3>2, <2>1, <2>2, <1>2, <1>4 DEF IInv, ClaimFollowsName
    <3> QED BY <1>2, <1>3, <1>4, <1>5, <2>1, <2>2, <3>1, <3>2, <3>3, OrdersDiffer
            DEF IInv, ClaimFollowsName
  <2>3. CASE order = FaultOrder
    <3>1. /\ next = 1 => at = "name1"
          /\ next = 2 => at = "name2"
          /\ next = 3 => at = "phase"
          /\ next \in 1 .. 3
      BY <2>3, <1>2, OrdersDiffer DEF FaultOrder, at
    <3>2. where = "fault"
      <4>1. order # <<>> /\ order # ClearOrder
        BY <2>3, OrdersDiffer
      <4>2. \A f \in Fields : order # WriteOrder(f)
        BY <2>3, OrdersDiffer
      <4> QED BY <4>1, <4>2 DEF IInv, TypeOK, CallFits, Places, Idle, Fields
    <3> QED BY <1>3, <1>4, <2>1, <2>3, <3>1, <3>2, OrdersDiffer DEF IInv, ClaimFollowsName
  <2>4. ASSUME NEW f \in Fields, order = WriteOrder(f)
        PROVE  ClaimFollowsName'
    <3>1. at = f
      BY <2>4, <1>2, OrdersDiffer DEF WriteOrder, at
    <3>2. /\ where \in {"counts", "setup", "run", "reboot"}
          /\ f \notin {"name1", "name2"}
          /\ where = "counts" => f # "phase"
      BY <2>4, OrdersDiffer DEF IInv, CallFits, Idle, TypeOK, Places, Fields
    <3>3. where # "counts" => target["phase"] \notin FaultPhases
      BY <3>2 DEF IInv, ClaimFollowsName
    <3> QED BY <1>3, <1>4, <1>5, <2>1, <2>4, <3>1, <3>2, <3>3, OrdersDiffer
            DEF IInv, ClaimFollowsName
  <2> QED BY <1>1, <2>2, <2>3, <2>4 DEF IInv, TypeOK, Orders, Idle
<1> QED BY <1>5, <1>6, <1>7, <1>8, <1>9, <1>10 DEF IInv

\* The store of the checksum.
LEMMA ChecksumStoreKeeps ==
  ASSUME IInv, Store, order[next] = "checksum"
  PROVE  IInv'
<1>1. ~Idle
  BY DEF Store
<1>2. /\ next \in 1 .. Len(order) /\ Len(order) \in 3 .. 8 /\ next = Len(order) - 1
      /\ next + 1 = Len(order) /\ next + 1 \in 3 .. 8
  <2>1. next \in 1 .. Len(order) /\ Len(order) \in 3 .. 8 /\ next = Len(order) - 1
    BY <1>1, OrderShape DEF IInv
  <2> QED BY <2>1
<1>a. next + 1 \in 1 .. 8 /\ next + 1 <= Len(order) /\ next + 1 # 1 /\ next > 1
  <2>1. \A n, m \in Int : m \in 3 .. 8 /\ n = m - 1
                            => n + 1 \in 1 .. 8 /\ n + 1 <= m /\ n + 1 # 1 /\ n > 1
    OBVIOUS
  <2>2. next \in Int /\ Len(order) \in Int
    BY <1>2
  <2> QED BY <1>2, <2>1, <2>2, Zenon
<1>3. /\ checksum' = ComputeChecksum(bytes) /\ next' = next + 1 /\ order' = order
      /\ UNCHANGED <<bytes, magic, marked, order, target, before, where, claim>>
  BY DEF Store, Fields
<1>4. TypeOK' /\ ~Idle'
  <2>1. ComputeChecksum(bytes) \in Byte
    BY ChecksumIsByte DEF IInv, TypeOK
  <2>2. next' \in 1 .. 8 /\ next' <= Len(order')
    BY <1>a, <1>3, Zenon
  <2> QED BY <1>1, <1>3, <2>1, <2>2 DEF IInv, TypeOK, Idle
<1>5. CallFits' /\ ValidBetweenCalls'
  BY <1>1, <1>3 DEF IInv, CallFits, ValidBetweenCalls, Idle
<1>6. RestIsPending'
  <2>1. ASSUME NEW f \in Fields
        PROVE  \/ bytes[f] = target[f]
               \/ \E i \in next + 1 .. Len(order) : order[i] = f
    <3>1. f # order[next]
      BY DEF Fields
    <3> QED BY <1>1, <1>2, <3>1 DEF IInv, RestIsPending
  <2> QED BY <1>2, <1>3, <2>1 DEF RestIsPending
<1>7. BytesAreOldOrNew'
  <2>1. next' # 1 /\ next > 1
    BY <1>a, <1>3, Zenon
  <2> QED BY <1>1, <1>3, <2>1 DEF IInv, BytesAreOldOrNew, Idle, IsGoal
<1>8. SumIsStale'
  <2>1. ASSUME NEW f \in Fields, order = WriteOrder(f) PROVE ~(next + 1 <= 2)
    <3>1. Len(order) = 3
      BY <2>1, OrdersDiffer
    <3> QED BY <3>1, <1>2
  <2> QED BY <1>3, <2>1 DEF SumIsStale
<1>9. ClaimFollowsName'
  <2>1. order = ClearOrder => Len(order) = 8
    BY OrdersDiffer
  <2>2. order = FaultOrder => Len(order) = 5
    BY OrdersDiffer
  <2>0. next = Len(order) - 1
    BY <1>2
  <2>3. order = ClearOrder => next > 3
    BY <2>0, <2>1
  <2>4. order = FaultOrder => next >= 3
    <3>1. order = FaultOrder => next = 5 - 1
      BY <2>0, <2>2, Zenon
    <3> QED BY <3>1
  <2> QED BY <1>2, <1>3, <1>4, <2>3, <2>4, OrdersDiffer DEF IInv, ClaimFollowsName
<1> QED BY <1>4, <1>5, <1>6, <1>7, <1>8, <1>9 DEF IInv

\* The store of the magic, the last of every call.
LEMMA MagicStoreKeeps ==
  ASSUME IInv, Store, order[next] = "magic"
  PROVE  /\ IInv' /\ Idle' /\ IsValid' /\ bytes' = bytes /\ bytes = target
<1>1. ~Idle
  BY DEF Store
<1>2. next \in 1 .. Len(order) /\ Len(order) \in 3 .. 8 /\ next = Len(order)
  BY <1>1, OrderShape DEF IInv
<1>3. /\ order' = <<>> /\ next' = 1 /\ target' = bytes /\ before' = NoBlock
      /\ UNCHANGED <<bytes, checksum, where, claim>>
      /\ magic' = TRUE
      /\ where = "setup" => marked' = TRUE
      /\ where # "setup" => marked' = marked
  <2>1. marked' = (marked \/ where = "setup")
    BY Zenon DEF Store
  <2>2. (where = "setup" => marked' = TRUE) /\ (where # "setup" => marked' = marked)
    BY <2>1, Zenon DEF IInv, TypeOK
  <2> QED BY <2>2 DEF Store, Fields
<1>4. bytes = target /\ checksum = ComputeChecksum(bytes)
  <2>1. ASSUME NEW f \in Fields
        PROVE  bytes[f] = target[f]
    <3>1. f # order[next]
      BY DEF Fields
    <3> QED BY <1>1, <1>2, <3>1 DEF IInv, RestIsPending
  <2>2. checksum = ComputeChecksum(bytes)
    BY <1>1, <1>2 DEF IInv, RestIsPending
  <2> QED BY <2>1, <2>2 DEF IInv, TypeOK, Blocks
<1>5. Idle' /\ IsValid'
  BY <1>3, <1>4 DEF Idle, IsValid
<1>6. marked' \in BOOLEAN
  BY <1>3 DEF IInv, TypeOK
<1>7. TypeOK'
  BY <1>3, <1>5, <1>6 DEF IInv, TypeOK, Orders, Idle
<1>8. CallFits' /\ ValidBetweenCalls' /\ RestIsPending' /\ BytesAreOldOrNew'
  BY <1>3, <1>5 DEF CallFits, ValidBetweenCalls, RestIsPending, BytesAreOldOrNew
<1>9. SumIsStale'
  BY <1>3, OrdersDiffer DEF SumIsStale
<1>10. ClaimFollowsName'
  <2>1. where \in {"setup", "run", "reboot"} => bytes["phase"] \notin FaultPhases
    BY <1>4 DEF IInv, ClaimFollowsName
  <2>2. where \in {"run", "reboot"} => marked
    BY DEF IInv, ClaimFollowsName
  <2>3. marked' /\ bytes["phase"] \in FaultPhases
          => <<bytes["name1"], bytes["name2"]>> = claim
    BY <1>3, <2>1 DEF IInv, ClaimFollowsName
  <2> QED BY <1>3, <2>1, <2>2, <2>3, OrdersDiffer DEF ClaimFollowsName
<1> QED BY <1>3, <1>4, <1>5, <1>7, <1>8, <1>9, <1>10 DEF IInv

\* A store of a call in progress.
LEMMA StoreKeeps == IInv /\ Store => IInv'
<1> SUFFICES ASSUME IInv, Store PROVE IInv'
  OBVIOUS
<1>1. order[next] \in Fields \/ order[next] = "checksum" \/ order[next] = "magic"
  BY OrderShape DEF Store, IInv
<1> QED BY <1>1, FieldStoreKeeps, ChecksumStoreKeeps, MagicStoreKeeps
\* Every step keeps the invariant.
LEMMA NextKeeps == IInv /\ [Next]_vars => IInv'
<1> SUFFICES ASSUME IInv, [Next]_vars PROVE IInv'
  OBVIOUS
<1>1. CASE UNCHANGED vars
  BY <1>1 DEF vars, IInv, TypeOK, CallFits, ValidBetweenCalls, RestIsPending,
     BytesAreOldOrNew, SumIsStale, ClaimFollowsName, Idle, IsValid, IsGoal
<1>2. CASE \/ Check \/ MarkStart \/ StartScheduler \/ TaskWrites
           \/ RebootCommand \/ LeaveCommanded \/ Store \/ Reset
  BY <1>2, CheckKeeps, MarkStartKeeps, StartSchedulerKeeps, TaskWritesKeeps,
     RebootCommandKeeps, LeaveCommandedKeeps, StoreKeeps, ResetKeeps
<1>3. CASE \/ \E f \in Fields, v \in Byte : CountWrites(f, v)
           \/ \E v \in Byte : Milestone(v)
  BY <1>3, CountWritesKeeps, MilestoneKeeps
<1>4. CASE \E n1, n2 \in Byte, p \in FaultPhases : RecordFault(n1, n2, p)
  BY <1>4, RecordFaultKeeps
<1> QED BY <1>1, <1>2, <1>3, <1>4 DEF Next

\* The inductive invariant holds in every behaviour.
THEOREM Invariance == Spec => []IInv
BY InitHolds, NextKeeps, PTL DEF Spec

-----------------------------------------------------------------------------
(* The theorems. *)

\* Every byte stays a byte and every call has a store left to do.
THEOREM TypeCorrect == Spec => []TypeOK
<1>1. IInv => TypeOK
  BY DEF IInv
<1> QED BY <1>1, Invariance, PTL

\* isValid() finds out a writeByte() of a new value that a reset cut between
\* the byte and the checksum, whatever the bytes and however wide.
THEOREM CutWritesAreSeen == Spec => []CutWriteIsSeen
<1>1. IInv => CutWriteIsSeen
  <2> SUFFICES ASSUME IInv, NEW f \in Fields, order = WriteOrder(f), next = 2,
                      before # NoBlock, IsValid
               PROVE  bytes = before
    BY DEF CutWriteIsSeen
  <2>1. bytes \in Blocks /\ before \in Blocks
    BY DEF IInv, TypeOK
  <2>2. checksum = ComputeChecksum(before) /\ \A g \in Fields \ {f} : bytes[g] = before[g]
    BY DEF IInv, SumIsStale
  <2>3. ComputeChecksum(bytes) = ComputeChecksum(before)
    BY <2>2 DEF IsValid
  <2> QED BY <2>1, <2>2, <2>3, OneChangeShows
<1> QED BY <1>1, Invariance, PTL

\* No cut of recordFault() or reinitialise() leaves a believed block that
\* claims a fault without the whole name.
THEOREM ClaimsAreWhole == Spec => []FaultClaimIsWhole
<1>1. IInv => FaultClaimIsWhole
  BY DEF IInv, ClaimFollowsName, FaultClaimIsWhole
<1> QED BY <1>1, Invariance, PTL

\* A call that runs to its end is a Complete step of AtomicBlock.
LEMMA MagicCompletes ==
  ASSUME IInv, Store, order[next] = "magic"
  PROVE  Atomic!Complete
<1>1. Believed = before /\ Believed' = target
  BY MagicStoreKeeps DEF Store, Believed
<1>2. ~Idle
  BY DEF Store
<1>3. CASE before = NoBlock
  BY <1>1, <1>2, <1>3, SameFields DEF IInv, BytesAreOldOrNew, Atomic!Complete
<1>4. CASE before # NoBlock
  <2>1. IsGoal(before, target)
    BY <1>2, <1>4 DEF IInv, BytesAreOldOrNew
  <2> QED BY <1>1, <1>4, <2>1, SameFields DEF IsGoal, Atomic!Complete, Atomic!OneSet
<1> QED BY <1>3, <1>4

\* The bytes of a call that is cut are a Cut of what was believed.
LEMMA BytesAreACut ==
  ASSUME IInv, ~Idle, before # NoBlock, Believed' = bytes
  PROVE  Atomic!Cut
<1>1. Believed = before /\ bytes \in Blocks
  BY DEF Believed, IInv, TypeOK
<1>2. IsGoal(before, target) /\ \A f \in Fields : bytes[f] \in {before[f], target[f]}
  BY DEF IInv, BytesAreOldOrNew
<1>3. Atomic!Mixes(before, target, bytes)
  BY <1>2, SameFields DEF Atomic!Mixes
<1>4. \/ \E f \in Fields, v \in Byte : target = Atomic!OneSet(before, f, v)
      \/ \E n1, n2, p \in Byte : target = WithFault(before, n1, n2, p)
      \/ target = ZeroBlock
  BY <1>2 DEF IsGoal, Atomic!OneSet
<1>5. \/ \E f \in Fields, v \in Byte : Atomic!Mixes(before, Atomic!OneSet(before, f, v), bytes)
      \/ \E n1, n2, p \in Byte : Atomic!Mixes(before, WithFault(before, n1, n2, p), bytes)
      \/ Atomic!Mixes(before, ZeroBlock, bytes)
  BY <1>3, <1>4, Zenon
<1> QED BY <1>1, <1>5, SameFields DEF Atomic!Cut

\* A reset is a Cut, or changes nothing that is believed.
LEMMA ResetCuts ==
  ASSUME IInv, Reset
  PROVE  Atomic!Cut \/ Believed' = Believed
<1>1. Believed' = IF IsValid THEN bytes ELSE NoBlock
  BY DEF Reset, Believed, Idle, IsValid
<1>2. CASE Idle
  BY <1>1, <1>2 DEF Believed
<1>3. CASE ~Idle /\ ~IsValid
  BY <1>1, <1>3, SameFields DEF Atomic!Cut
<1>4. CASE ~Idle /\ IsValid /\ before # NoBlock
  BY <1>1, <1>4, BytesAreACut
<1>5. CASE ~Idle /\ IsValid /\ before = NoBlock
  <2>1. bytes["consecutive"] = 0 /\ bytes \in Blocks
    BY <1>5, OrderShape DEF IInv, BytesAreOldOrNew, TypeOK
  <2> QED BY <1>1, <1>5, <2>1, SameFields DEF Believed, Atomic!Cut
<1> QED BY <1>2, <1>3, <1>4, <1>5

\* A fault hook cuts the call it falls into, or changes nothing that is
\* believed: what it finds is what it keeps beside the fault.
LEMMA FaultCuts ==
  ASSUME IInv, NEW n1 \in Byte, NEW n2 \in Byte, NEW p \in FaultPhases,
         RecordFault(n1, n2, p)
  PROVE  Atomic!Cut \/ Believed' = Believed
<1>1. Believed' = bytes
  BY OrdersDiffer DEF RecordFault, Believed, Idle
<1>2. CASE Idle
  <2>1. IsValid
    BY <1>2 DEF IInv, ValidBetweenCalls, RecordFault
  <2> QED BY <1>1, <1>2, <2>1 DEF Believed
<1>3. CASE ~Idle
  <2>1. where # "counts"
    BY <1>3 DEF RecordFault
  <2>2. before # NoBlock
    BY <1>3, <2>1 DEF IInv, BytesAreOldOrNew
  <2> QED BY <1>1, <1>3, <2>2, BytesAreACut
<1> QED BY <1>2, <1>3

\* The beginning of a call changes nothing that is believed.
LEMMA CallIsHidden ==
  ASSUME Idle, NEW stores, stores # <<>>, NEW goal, Call(stores, goal)
  PROVE  Believed' = Believed
BY DEF Call, Believed, Idle

\* Every step is one of AtomicBlock, or is hidden from it.
LEMMA StepRefines == IInv /\ [Next]_vars => [Atomic!Next]_Believed
<1> SUFFICES ASSUME IInv, [Next]_vars PROVE [Atomic!Next]_Believed
  OBVIOUS
<1>1. CASE UNCHANGED vars
  BY <1>1 DEF vars, Believed, Idle, IsValid
<1>2. CASE Check
  <2>1. CASE IsValid
    BY <1>2, <2>1 DEF Check, Believed, Idle, IsValid
  <2>2. CASE ~IsValid
    BY <1>2, <2>2, CallIsHidden, OrdersDiffer DEF Check, Reinitialise
  <2> QED BY <2>1, <2>2
<1>3. CASE MarkStart
  <2>1. WriteOrder("phase") # <<>>
    BY OrdersDiffer DEF Fields
  <2> QED BY <1>3, <2>1, CallIsHidden DEF MarkStart, WriteByte
<1>4. CASE \/ \E f \in Fields, v \in Byte : CountWrites(f, v)
           \/ \E v \in Byte : Milestone(v)
  <2>1. WriteOrder("phase") # <<>>
    BY OrdersDiffer DEF Fields
  <2> QED BY <1>4, <2>1, CallIsHidden, OrdersDiffer DEF CountWrites, Milestone, WriteByte
<1>5. CASE TaskWrites \/ RebootCommand \/ LeaveCommanded
  <2>1. WriteOrder("consecutive") # <<>> /\ WriteOrder("marker") # <<>>
    BY OrdersDiffer DEF Fields
  <2>2. CASE TaskWrites \/ LeaveCommanded
    BY <2>1, <2>2, CallIsHidden DEF TaskWrites, LeaveCommanded, WriteByte
  <2>3. CASE RebootCommand
    BY <2>3, CallIsHidden, OrdersDiffer DEF RebootCommand, Reinitialise
  <2> QED BY <1>5, <2>2, <2>3
<1>6. CASE StartScheduler
  BY <1>6 DEF StartScheduler, Believed, Idle, IsValid
<1>7. CASE Store
  <2>1. order[next] \in Fields \/ order[next] = "checksum" \/ order[next] = "magic"
    BY <1>7, OrderShape DEF Store, IInv
  <2>2. CASE order[next] = "magic"
    BY <1>7, <2>2, MagicCompletes DEF Atomic!Next
  <2>3. CASE order[next] # "magic"
    BY <1>7, <2>3 DEF Store, Believed, Idle
  <2> QED BY <2>2, <2>3
<1>8. CASE \E n1, n2 \in Byte, p \in FaultPhases : RecordFault(n1, n2, p)
  BY <1>8, FaultCuts DEF Atomic!Next
<1>9. CASE Reset
  BY <1>9, ResetCuts DEF Atomic!Next
<1> QED BY <1>1, <1>2, <1>3, <1>4, <1>5, <1>6, <1>7, <1>8, <1>9 DEF Next

\* src/recovery.cpp keeps the promise of AtomicBlock: what is believed
\* changes as a whole call, or as one that was cut between old and new bytes.
THEOREM KeepsThePromise == Spec => ImplementsAtomicBlock
<1>1. Init => Atomic!Init
  BY SameFields DEF Init, Atomic!Init, Believed
<1> QED BY <1>1, InitHolds, NextKeeps, StepRefines, PTL
        DEF Spec, ImplementsAtomicBlock, Atomic!Spec
=============================================================================
