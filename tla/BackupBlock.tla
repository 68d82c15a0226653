---------------------------- MODULE BackupBlock ----------------------------
(***************************************************************************)
(* src/recovery.cpp, store by store.  writeByte(), reinitialise() and      *)
(* recordFault() store their bytes one after another, then the checksum    *)
(* and the magic; a reset may fall between any two stores, and so may a    *)
(* fault hook, which masks interrupts and never returns.  The order of the *)
(* callers is that of setup() and TaskMavlink: setup() counts the reset    *)
(* before it stores its own phase, so until then the phase is the one that *)
(* the previous boot left, a fault's perhaps.                              *)
(*                                                                         *)
(* A behaviour starts with whatever the bytes hold after a loss of the     *)
(* battery: such a loss ends one behaviour and starts another.             *)
(***************************************************************************)
EXTENDS BlockFields, Sequences

VARIABLES
  bytes,      \* VBTBKR[6..26]
  checksum,   \* VBTBKR[5]
  magic,      \* VBTBKR[4] holds VALIDITY_MAGIC
  order,      \* the stores of the call in progress, <<>> between calls
  next,       \* which of them comes next
  target,     \* what the call in progress leaves in the bytes
  where,      \* the part of the program that is running
  before,     \* history: the contents believed when the call began
  marked,     \* history: some boot has stored its own phase
  claim       \* history: the names given to the last recordFault()

vars == <<bytes, checksum, magic, order, next, target, where, before, marked,
          claim>>

Places == {"boot", "counts", "setup", "run", "reboot", "fault"}

MutAddByte(a, b) == a + b                    \* the sum kept in a wider type

\* uint8_t addition.
AddByte(a, b) == IF a + b >= Width THEN a + b - Width ELSE a + b

MutComputeChecksum(b) ==                     \* the loop starts one byte late
  AddByte(AddByte(AddByte(AddByte(b["cumulative"], b["phase"]), b["marker"]),
    b["name1"]), b["name2"])

ComputeChecksum(b) ==
  AddByte(AddByte(AddByte(AddByte(AddByte(b["consecutive"], b["cumulative"]),
    b["phase"]), b["marker"]), b["name1"]), b["name2"])

IsValid == magic /\ checksum = ComputeChecksum(bytes)

\* getConsecutiveCount(), getCumulativeCount(): zero when invalid.
Get(f) == IF IsValid THEN bytes[f] ELSE 0

ClearOrder == <<"consecutive", "cumulative", "phase", "marker", "name1",
                "name2", "checksum", "magic">>
MutFaultOrder == <<"phase", "name1", "name2", "checksum", "magic">>  \* phase first
FaultOrder == <<"name1", "name2", "phase", "checksum", "magic">>
WriteOrder(f) == <<f, "checksum", "magic">>

Idle == order = <<>>

\* What the callers see: between calls the bytes if they are believed, and
\* during a call what they saw when it began.
Believed == IF ~Idle THEN before ELSE IF IsValid THEN bytes ELSE NoBlock

\* The stores of a call that makes the bytes those of goal.
Call(stores, goal) ==
  /\ order' = stores
  /\ next' = 1
  /\ target' = goal
  /\ before' = Believed

WriteByte(f, v) == Call(WriteOrder(f), [bytes EXCEPT ![f] = v])
Reinitialise == Call(ClearOrder, ZeroBlock)

Init ==
  /\ bytes \in Blocks /\ checksum \in Byte /\ magic \in BOOLEAN
  /\ order = <<>> /\ next = 1 /\ target = bytes
  /\ where = "boot"
  /\ before = NoBlock /\ marked = FALSE /\ claim = <<0, 0>>

-----------------------------------------------------------------------------
MutCheck ==                                  \* setup() never clears the block
  /\ where = "boot" /\ Idle
  /\ where' = "counts"
  /\ UNCHANGED <<bytes, checksum, magic, order, next, target, before, marked, claim>>

\* setup() asks isValid() first, and clears the block if it must: no write
\* may make a block valid whose fields nobody stored.
Check ==
  /\ where = "boot" /\ Idle
  /\ where' = "counts"
  /\ IF IsValid THEN UNCHANGED <<order, next, target, before>>
     ELSE Reinitialise
  /\ UNCHANGED <<bytes, checksum, magic, marked, claim>>

\* What setup() stores before its phase: it consumes the marker and stores
\* the counts, and the reason and the snapshot as it does the counts.  No
\* hook runs here: nothing has asked for memory and no task exists.
CountWrites(f, v) ==
  /\ where = "counts" /\ Idle
  /\ \/ f \in {"consecutive", "cumulative"}
     \/ f = "marker" /\ v = 0
  /\ WriteByte(f, v)
  /\ UNCHANGED <<bytes, checksum, magic, where, marked, claim>>

\* setPhase(BootPhase::Start), before anything in this boot can fault.
MarkStart ==
  /\ where = "counts" /\ Idle
  /\ WriteByte("phase", Start)
  /\ where' = "setup"
  /\ UNCHANGED <<bytes, checksum, magic, marked, claim>>

\* The milestones of setup(), LinkDone to SchedulerStarted.
Milestone(v) ==
  /\ where = "setup" /\ Idle
  /\ v \notin FaultPhases \union {Start}
  /\ WriteByte("phase", v)
  /\ UNCHANGED <<bytes, checksum, magic, where, marked, claim>>

StartScheduler ==
  /\ where = "setup" /\ Idle
  /\ where' = "run"
  /\ UNCHANGED <<bytes, checksum, magic, order, next, target, before, marked,
                 claim>>

\* TaskMavlink: the stability window and the marker of the retry.
TaskWrites ==
  /\ where = "run" /\ Idle
  /\ \/ WriteByte("consecutive", 0)
     \/ \E v \in Byte \ {0} : WriteByte("marker", v)
  /\ UNCHANGED <<bytes, checksum, magic, where, marked, claim>>

\* The reboot command clears the block first.
RebootCommand ==
  /\ where = "run" /\ Idle
  /\ where' = "reboot"
  /\ Reinitialise
  /\ UNCHANGED <<bytes, checksum, magic, marked, claim>>

\* Then it leaves its marker, and waits for the reset.
LeaveCommanded ==
  /\ where = "reboot" /\ Idle /\ bytes["marker"] = 0
  /\ \E v \in Byte \ {0} : WriteByte("marker", v)
  /\ UNCHANGED <<bytes, checksum, magic, where, marked, claim>>

\* One store of the call in progress.
Store ==
  /\ ~Idle
  /\ LET at == order[next] IN
     /\ bytes' = IF at \in Fields THEN [bytes EXCEPT ![at] = target[at]]
                 ELSE bytes
     /\ checksum' = IF at = "checksum" THEN ComputeChecksum(bytes)
                    ELSE checksum
     /\ IF at = "magic"
        THEN /\ magic' = TRUE
             /\ order' = <<>> /\ next' = 1
             /\ target' = bytes /\ before' = NoBlock
             /\ marked' = (marked \/ where = "setup")
        ELSE /\ next' = next + 1
             /\ UNCHANGED <<magic, order, target, before, marked>>
  /\ UNCHANGED <<where, claim>>

\* A fault hook: from setup() once its phase is stored, or from any task,
\* in the middle of another call or not.
RecordFault(n1, n2, p) ==
  /\ \/ where = "setup" /\ Idle
     \/ where \in {"run", "reboot"}
  /\ where' = "fault"
  /\ order' = FaultOrder
  /\ next' = 1
  /\ target' = WithFault(bytes, n1, n2, p)
  /\ before' = bytes
  /\ claim' = <<n1, n2>>
  /\ UNCHANGED <<bytes, checksum, magic, marked>>

\* A reset of any kind, at any moment, the hook's own included.
Reset ==
  /\ where' = "boot"
  /\ order' = <<>> /\ next' = 1
  /\ target' = bytes
  /\ before' = NoBlock
  /\ UNCHANGED <<bytes, checksum, magic, marked, claim>>

Next ==
  \/ Check \/ MarkStart \/ StartScheduler \/ TaskWrites
  \/ RebootCommand \/ LeaveCommanded \/ Store \/ Reset
  \/ \E f \in Fields, v \in Byte : CountWrites(f, v)
  \/ \E v \in Byte : Milestone(v)
  \/ \E n1, n2 \in Byte, p \in FaultPhases : RecordFault(n1, n2, p)

Spec == Init /\ [][Next]_vars

-----------------------------------------------------------------------------
Orders == {<<>>, ClearOrder, FaultOrder} \union {WriteOrder(f) : f \in Fields}

\* The type invariant: every byte is a byte, and a call in progress has a
\* store left to do.
TypeOK ==
  /\ bytes \in Blocks /\ target \in Blocks
  /\ checksum \in Byte /\ magic \in BOOLEAN /\ marked \in BOOLEAN
  /\ order \in Orders
  /\ next \in 1 .. 8
  /\ order # <<>> => next <= Len(order)
  /\ where \in Places
  /\ before \in Blocks \union {NoBlock}
  /\ claim \in Byte \X Byte

\* A writeByte() of a new value that is cut between its byte and its
\* checksum is found out by isValid(): the sum of one changed byte is
\* another sum, whatever the others hold.  Recovery.h says so of a brownout
\* that interrupts a write, and BootRecovery rests on it.
CutWriteIsSeen ==
  order \in {WriteOrder(f) : f \in Fields} /\ next = 2 /\ before # NoBlock
    /\ bytes # before => ~IsValid

\* A believed block whose phase claims a fault holds the whole name that
\* recordFault() was given, through the stores that setup() makes under the
\* claim of the boot before too: the name is stored before the phase, no
\* hook runs while an older claim stands, and reinitialise() clears the
\* phase before the name, so that neither a cut nor a sum that matches by
\* chance leaves a claim with half a name or with another fault's.
FaultClaimIsWhole ==
  marked /\ IsValid /\ bytes["phase"] \in FaultPhases
    => <<bytes["name1"], bytes["name2"]>> = claim

\* TaskLinkWrite packs the counts into a heartbeat at any moment while
\* TaskMavlink may be inside a call: it reports what was stored before
\* that call or what the call stores (fault-recovery, "both counts").
HeartbeatCountsAreStored ==
  where \in {"run", "reboot"} /\ before # NoBlock =>
    \A f \in {"consecutive", "cumulative"} : Get(f) \in {before[f], target[f]}

Atomic == INSTANCE AtomicBlock WITH block <- Believed

\* The block keeps the promise of AtomicBlock: no reset and no fault hook
\* leaves it believed with contents that no caller was about to store.
ImplementsAtomicBlock == Atomic!Spec
=============================================================================
