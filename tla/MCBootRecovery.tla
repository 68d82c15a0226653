--------------------------- MODULE MCBootRecovery ---------------------------
(***************************************************************************)
(* Small bounds for TLC.                                                   *)
(***************************************************************************)
EXTENDS BootRecovery

\* Every way a boot can end.
AllResets == ResetKinds

\* Only resets that a fault causes.
Hangs == {"watchdog"}

\* A fault, and a reset that no fault causes.
HangsAndPin == {"watchdog", "pin"}
HooksAndPin == {"hook", "pin"}

=============================================================================
