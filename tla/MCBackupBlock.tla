--------------------------- MODULE MCBackupBlock ---------------------------
(* A small instance of BackupBlock: bytes of three values, the last of them *)
(* a fault phase.                                                           *)
EXTENDS BackupBlock
MCFaultPhases == {2}
=============================================================================
