----------------------------- MODULE BlockFields -----------------------------
(***************************************************************************)
(* The fields of the backup block of include/Recovery.h and the values     *)
(* they take.  The snapshot and the reason are written as the counts are,  *)
(* and the fifteen bytes of the task's name as the two that stand here.    *)
(***************************************************************************)
EXTENDS Integers

CONSTANTS
  Width,         \* the values of a byte: 256
  FaultPhases    \* the phases the fault hooks record

Start == 0       \* BootPhase::Start

ASSUME BlockAssumption ==
  /\ Width \in Nat /\ Width > 1
  /\ FaultPhases \subseteq 1 .. Width - 1

Fields == {"consecutive", "cumulative", "phase", "marker", "name1", "name2"}
Byte == 0 .. Width - 1
Blocks == [Fields -> Byte]
ZeroBlock == [f \in Fields |-> 0]
NoBlock == [f \in {} |-> 0]

\* The contents b with a fault recorded in them.
WithFault(b, n1, n2, p) ==
  [b EXCEPT !["name1"] = n1, !["name2"] = n2, !["phase"] = p]
=============================================================================
