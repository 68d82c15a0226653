------------------------- MODULE BootRecoveryProofs -------------------------
(***************************************************************************)
(* Theorems about BootRecovery, for every threshold, window, modulus and   *)
(* set of resets: what the two deliberate resets lead to, that a boot      *)
(* reports the reset and the fault that preceded it and no other, and that *)
(* while the counts do not wrap they are never below the boots there were, *)
(* and the faults less those the code masks or forgets, so that enough of  *)
(* either lead to the reduced configuration.                               *)
(***************************************************************************)
EXTENDS BootRecovery, TLAPS

-----------------------------------------------------------------------------
(***************************************************************************)
(* Type correctness                                                        *)
(***************************************************************************)

LEMMA CapInRange ==
  ASSUME NEW top \in Nat, NEW n \in 0 .. top
  PROVE  Cap(n + 1, top) \in 0 .. top
  BY DEF Cap

LEMMA CountInRange ==
  ASSUME NEW n \in Count
  PROVE  /\ (n + 1) % CountModulus \in Count
         /\ (n + 1) % CountModulus <= n + 1
  BY RecoveryAssumption DEF Count

LEMMA ReinitialisedType == Reinitialised \in Backup
  BY RecoveryAssumption DEF Reinitialised, Backup, Count, MallocFailed, Reason,
     Marker

LEMMA NothingReadType == NothingRead \in Ram
  BY DEF NothingRead, Ram, MallocFailed, Reason, Marker

LEMMA TypeInit == Init => TypeOK
<1> SUFFICES ASSUME Init PROVE TypeOK
  OBVIOUS
<1>1. backup \in Backup
  BY ReinitialisedType DEF Init, Backup
<1>2. seen \in History
  BY RecoveryAssumption DEF Init, History, Cause, ResetKinds
<1>3. flags \subseteq Flag /\ pc \in Phases /\ ram \in Ram /\ cleared \in BOOLEAN
  BY NothingReadType DEF Init, Flag, Phases, BeforeStart
<1>4. progress \in 0 .. SchedulerStarted + 1 /\ elapsed \in 0 .. RetryInterval
      /\ pc # "phase"
  BY RecoveryAssumption DEF Init, SchedulerStarted
<1>5. QED
  BY <1>1, <1>2, <1>3, <1>4 DEF TypeOK, Init, SchedulerStarted

LEMMA RestartType ==
  ASSUME TypeOK, NEW cause \in Cause, Restart(cause)
  PROVE  /\ flags' \subseteq Flag
         /\ pc' = "read"
         /\ ram' = NothingRead
         /\ progress' = 0 /\ elapsed' = 0 /\ cleared' = FALSE
<1>1. CASE cause \in {"powerOn", "lowVoltage", "pin"}
  BY <1>1 DEF Restart, TypeOK, Flag
<1>2. CASE cause \in {"watchdog", "hook", "upload", "commanded", "retry"}
  BY <1>2 DEF Restart, TypeOK, Flag
<1>3. QED
  BY <1>1, <1>2 DEF Cause, ResetKinds

\* What every restart leaves well typed, whatever it does to the block.
LEMMA RestartTypeOK ==
  ASSUME TypeOK, NEW cause \in Cause, Restart(cause),
         backup' \in Backup, seen' \in History
  PROVE  TypeOK'
<1>1. flags' \subseteq Flag /\ ram' \in Ram /\ cleared' \in BOOLEAN
      /\ pc' = "read" /\ pc' \in Phases /\ progress' = 0
  BY RestartType, NothingReadType DEF Phases, BeforeStart
<1>2. progress' \in 0 .. SchedulerStarted + 1 /\ elapsed' \in 0 .. RetryInterval
  <2>1. progress' = 0 /\ elapsed' = 0
    BY RestartType
  <2>2. QED
    BY <2>1, RecoveryAssumption DEF SchedulerStarted
<1>3. QED
  BY <1>1, <1>2 DEF TypeOK

LEMMA RememberType ==
  ASSUME TypeOK, NEW cause \in Cause, NEW env \in BOOLEAN,
         env => seen.resets < MaxResets
  PROVE  Remember(cause, env) \in History
<1>1. (IF env THEN seen.resets + 1 ELSE seen.resets) \in 0 .. MaxResets
  BY RecoveryAssumption DEF TypeOK, History
<1>2. /\ ram.reduced \in BOOLEAN /\ seen.reducedBefore \in BOOLEAN
      /\ seen \in History
  BY DEF TypeOK, Ram, History
<1>3. Awaits(cause) \in BOOLEAN /\ (progress > 0) \in BOOLEAN
  BY <1>2 DEF Awaits, History
<1> DEFINE resets == IF env THEN seen.resets + 1 ELSE seen.resets
           faults == IF cause \in FaultResets THEN seen.faults + 1 ELSE seen.faults
           masked == IF Masks(cause) THEN seen.masked + 1 ELSE seen.masked
           forgotten == IF Forgets(cause) THEN seen.forgotten + 1
                        ELSE seen.forgotten
           pending == Awaits(cause)
           reduced == IF pc \in {"phase", "running", "markCommanded",
                                 "retryReset", "commandedReset"}
                      THEN ram.reduced ELSE seen.reducedBefore
           started == progress > 0
<1>4. resets \in 0 .. MaxResets /\ pending \in BOOLEAN /\ started \in BOOLEAN
  BY <1>1, <1>3
<1>b. faults \in Nat /\ masked \in Nat /\ forgotten \in Nat
  BY <1>2 DEF History
<1>5. reduced \in BOOLEAN
  BY <1>2
<1>6. Remember(cause, env) =
        [seen EXCEPT !.resets = resets, !.cause = cause, !.faults = faults,
                     !.masked = masked, !.forgotten = forgotten,
                     !.pending = pending,
                     !.reducedBefore = reduced, !.startedBefore = started]
  BY <1>2 DEF Remember, History
<1> DEFINE counted == [seen EXCEPT !.resets = resets, !.cause = cause,
                                   !.faults = faults, !.masked = masked]
<1> HIDE DEF resets, faults, masked, forgotten, pending, reduced, started
<1>7. counted \in History
  BY <1>2, <1>4, <1>b DEF History
<1>8. Remember(cause, env) =
        [counted EXCEPT !.forgotten = forgotten, !.pending = pending,
                        !.reducedBefore = reduced, !.startedBefore = started]
  BY <1>2, <1>6 DEF History
<1> HIDE DEF counted
<1>9. QED
  BY <1>4, <1>b, <1>5, <1>7, <1>8 DEF History

LEMMA TypeStep == TypeOK /\ [Next]_vars => TypeOK'
<1> SUFFICES ASSUME TypeOK, [Next]_vars PROVE TypeOK'
  OBVIOUS
<1>a. /\ backup \in Backup /\ ram \in Ram /\ seen \in History
      /\ backup.valid \in BOOLEAN /\ seen.resets \in 0 .. MaxResets
      /\ progress \in 0 .. SchedulerStarted + 1 /\ elapsed \in 0 .. RetryInterval
  BY DEF TypeOK, Backup, History
<1>b. /\ 0 \in Count /\ 0 \in 0 .. MallocFailed /\ NoTask \in Tasks \cup {NoTask}
      /\ 0 \in 0 .. CumulativeThreshold
      /\ 0 \in 0 .. RetryInterval /\ RetryInterval \in 0 .. RetryInterval
  BY RecoveryAssumption DEF Count, MallocFailed
<1>c. NoFaults \in History
  BY <1>a DEF NoFaults, History
<1>1. CASE ReadPrevious
  <2>1. ram' \in Ram
    BY <1>1, <1>a, <1>b DEF ReadPrevious, Ram, Backup
  <2>2. backup' \in Backup
    BY <1>1, <1>a, ReinitialisedType DEF ReadPrevious
  <2>3. seen' \in History
    BY <1>1, <1>a, <1>b, <1>c DEF ReadPrevious, History
  <2>4. QED
    BY <1>1, <2>1, <2>2, <2>3 DEF ReadPrevious, TypeOK, Phases, BeforeStart
<1>2. CASE DecodeReason
  <2>1. Decoded \in Reason
    BY DEF Decoded, Reason
  <2>2. ram' \in Ram
    BY <1>2, <1>a, <2>1 DEF DecodeReason, Ram, Reason
  <2>3. QED
    BY <1>2, <2>2 DEF DecodeReason, TypeOK, Phases, BeforeStart
<1>3. CASE SetReason
  <2>1. backup' \in Backup
    BY <1>3, <1>a DEF SetReason, Backup, Ram
  <2>2. QED
    BY <1>3, <2>1 DEF SetReason, TypeOK, Phases, BeforeStart
<1>4. CASE ConsumeMarker
  <2>1. backup' \in Backup /\ ram' \in Ram
    BY <1>4, <1>a DEF ConsumeMarker, Backup, Ram, Marker
  <2>2. QED
    BY <1>4, <2>1 DEF ConsumeMarker, TypeOK, Phases, BeforeStart
<1>5. CASE CountConsecutive
  <2>1. backup' \in Backup
    BY <1>5, <1>a, CountInRange DEF CountConsecutive, Backup
  <2>2. QED
    BY <1>5, <2>1 DEF CountConsecutive, TypeOK, Phases, BeforeStart
<1>6. CASE CountCumulative
  <2>1. backup' \in Backup
    BY <1>6, <1>a, CountInRange DEF CountCumulative, Backup
  <2>2. QED
    BY <1>6, <2>1 DEF CountCumulative, TypeOK, Phases, BeforeStart
<1>7. CASE Decide
  <2>1. StartReduced \in BOOLEAN
    BY DEF StartReduced
  <2>2. ram' \in Ram
    BY <1>7, <1>a, <2>1 DEF Decide, Ram
  <2>3. backup' \in Backup
    BY <1>7, <1>a DEF Decide, Backup
  <2>4. Cap(seen.boots + 1, CumulativeThreshold) \in 0 .. CumulativeThreshold
    BY <1>a, CapInRange, RecoveryAssumption DEF History
  <2>5. seen' \in History
    BY <1>7, <1>a, <2>4 DEF Decide, History
  <2>6. progress = progress' /\ progress' <= SchedulerStarted
    BY <1>7 DEF Decide, TypeOK, BeforeStart, SchedulerStarted
  <2>7. QED
    BY <1>7, <2>2, <2>3, <2>5, <2>6 DEF Decide, TypeOK, Phases, BeforeStart
<1>8. CASE SetPhase
  <2>1. progress \in 0 .. MallocFailed /\ progress <= SchedulerStarted
    BY <1>8, <1>a DEF SetPhase, TypeOK, MallocFailed, SchedulerStarted
  <2>2. backup' \in Backup
    BY <1>8, <1>a, <2>1 DEF SetPhase, Backup
  <2>3. seen' \in History
    BY <1>8, <1>a, <1>b DEF SetPhase, History
  <2>4. /\ progress' \in 0 .. SchedulerStarted + 1 /\ pc' \in Phases
        /\ pc' = "phase" => progress' <= SchedulerStarted
        /\ pc' \notin BeforeStart
    BY <1>8, <2>1, <1>a DEF SetPhase, SchedulerStarted, Phases, BeforeStart
  <2>5. QED
    BY <1>8, <2>2, <2>3, <2>4 DEF SetPhase, TypeOK
<1>9. CASE ClearConsecutive
  <2>1. backup' \in Backup /\ seen' \in History
    BY <1>9, <1>a, <1>b, <1>c DEF ClearConsecutive, Backup
  <2>2. QED
    BY <1>9, <2>1 DEF ClearConsecutive, TypeOK
<1>10. CASE MarkRetry
  <2>1. backup' \in Backup
    BY <1>10, <1>a DEF MarkRetry, Backup, Marker
  <2>2. QED
    BY <1>10, <2>1 DEF MarkRetry, TypeOK, Phases, BeforeStart
<1>11. CASE MarkCommanded
  <2>1. backup' \in Backup
    BY <1>11, <1>a DEF MarkCommanded, Backup, Marker
  <2>2. QED
    BY <1>11, <2>1 DEF MarkCommanded, TypeOK, Phases, BeforeStart
<1>12. CASE Tick
  <2>1. Cap(seen.calm + 1, RetryInterval) \in 0 .. RetryInterval
    BY <1>a, CapInRange, RecoveryAssumption DEF History
  <2>2. seen' \in History
    BY <1>12, <1>a, <2>1 DEF Tick, History
  <2>3. elapsed' \in 0 .. RetryInterval
    BY <1>12, <1>a, RecoveryAssumption DEF Tick
  <2>4. QED
    BY <1>12, <2>2, <2>3 DEF Tick, TypeOK
<1>13. CASE DeliberateReset
  <2>1. PICK cause \in {"retry", "commanded"} :
          Restart(cause) /\ seen' = Remember(cause, FALSE)
    BY <1>13 DEF DeliberateReset
  <2>2. cause \in Cause
    BY <2>1 DEF Cause
  <2>3. seen' \in History
    BY <2>1, <2>2, RememberType
  <2>4. backup' \in Backup
    BY <1>13, <1>a DEF DeliberateReset
  <2>5. QED
    BY <2>1, <2>2, <2>3, <2>4, RestartTypeOK
<1>14. CASE RebootCommand
  <2>1. seen' \in History
    BY <1>14, <1>b, <1>c DEF RebootCommand, History
  <2>2. QED
    BY <1>14, <2>1, ReinitialisedType DEF RebootCommand, TypeOK, Phases, BeforeStart
<1>15. CASE ResetFromOutside
  <2>1. PICK cause \in Resets \ {"hook"}, lost \in BOOLEAN :
          /\ Restart(cause) /\ seen' = Remember(cause, TRUE)
          /\ backup' = IF lost THEN [backup EXCEPT !.valid = FALSE] ELSE backup
    BY <1>15 DEF ResetFromOutside
  <2>2. cause \in Cause
    BY <2>1, RecoveryAssumption DEF Cause
  <2>3. seen.resets < MaxResets
    BY <1>15 DEF ResetFromOutside
  <2>4. seen' \in History
    BY <2>1, <2>2, <2>3, RememberType
  <2>5. backup' \in Backup
    BY <2>1, <1>a DEF Backup
  <2>6. QED
    BY <2>1, <2>2, <2>4, <2>5, RestartTypeOK
<1>16. CASE FaultHook
  <2>1. PICK kind \in FaultPhases, task \in Tasks :
          /\ backup' = [backup EXCEPT !.phase = kind, !.task = task]
          /\ seen' = [Remember("hook", TRUE) EXCEPT !.fault = kind, !.task = task]
    BY <1>16 DEF FaultHook
  <2>2. "hook" \in Cause /\ Restart("hook") /\ seen.resets < MaxResets
    BY <1>16 DEF FaultHook, Cause, ResetKinds
  <2>3. Remember("hook", TRUE) \in History
    BY <2>2, RememberType
  <2>4. seen' \in History
    BY <2>1, <2>3 DEF History
  <2>5. kind \in 0 .. MallocFailed
    BY <2>1 DEF FaultPhases, MallocFailed, StackOverflow
  <2>6. backup' \in Backup
    BY <2>1, <2>5, <1>a DEF Backup
  <2>7. QED
    BY <2>2, <2>4, <2>6, RestartTypeOK
<1>17. CASE UNCHANGED vars
  BY <1>17 DEF vars, TypeOK
<1>18. QED
  BY <1>1, <1>2, <1>3, <1>4, <1>5, <1>6, <1>7, <1>8, <1>9, <1>10, <1>11,
     <1>12, <1>13, <1>14, <1>15, <1>16, <1>17 DEF Next, System

\* Every variable has its type in every reachable state: the counts stay in
\* their width, and no sequence of resets leaves setup() at a milestone that
\* does not exist.
THEOREM TypeCorrect == Spec => []TypeOK
<1>1. QED
  BY TypeInit, TypeStep, PTL DEF Spec

-----------------------------------------------------------------------------
(***************************************************************************)
(* The deliberate resets                                                   *)
(*                                                                         *)
(* The properties speak of the boot that has decided; they hold because of *)
(* what the block holds at every step from the write of the marker to that *)
(* decision, and because a reset that falls in between is another cause.   *)
(***************************************************************************)

\* Where the marker of the last reset is still in the block, and where it has
\* been read and not yet acted on.
BeforeConsume == {"read", "decode", "reason", "consume"}
BeforeCounted == {"consecutive", "cumulative"}

CountsClear == backup.consecutive = 0 /\ backup.cumulative = 0

\* Only a reset can leave the block invalid.
ValidInside == pc # "read" => backup.valid

CommandPath ==
  /\ pc = "markCommanded" => CountsClear
  /\ pc = "commandedReset" => CountsClear /\ backup.deliberate = "commanded"
  /\ seen.cause = "commanded" =>
       /\ pc \in BeforeConsume =>
            backup.valid /\ CountsClear /\ backup.deliberate = "commanded"
       /\ pc \in BeforeCounted => CountsClear /\ ram.marker = "commanded"
       /\ pc = "decide" => backup.consecutive = 0 /\ backup.cumulative = 1
       /\ Decided => /\ backup.consecutive = 0 /\ backup.cumulative = 1
                     /\ ~ ram.reduced

RetryPath ==
  /\ pc \in {"phase", "running", "retryReset"} /\ ram.reduced =>
       backup.snapshot = backup.cumulative
  /\ pc = "retryReset" => ram.reduced /\ backup.deliberate = "retry"
  /\ seen.cause = "retry" =>
       /\ pc \in BeforeConsume => /\ backup.valid /\ backup.deliberate = "retry"
                                  /\ backup.snapshot = backup.cumulative
       /\ pc \in BeforeCounted => /\ ram.marker = "retry"
                                  /\ backup.snapshot = backup.cumulative
       /\ pc = "decide" => RetrySucceeds
       /\ Decided => ~ ram.reduced

(***************************************************************************)
(* The report of a boot: the flags and the phase byte, from the reset that *)
(* sets them to the step that reads them.                                  *)
(***************************************************************************)

FlagsOf(cause) ==
  IF cause = "pin" THEN {}
  ELSE IF cause \in {"powerOn", "lowVoltage", "watchdog"} THEN {cause}
  ELSE {"software"}

FlagPath ==
  /\ pc \notin {"read", "decode"} => flags = {}
  /\ pc \in {"read", "decode"} /\ seen.startedBefore =>
       flags = FlagsOf(seen.cause)
  /\ CauseIsKnown

FaultPath ==
  /\ pc \notin BeforeStart /\ progress > 0 => backup.phase \notin FaultPhases
  /\ pc = "read" /\ backup.valid =>
       /\ seen.cause = "hook" =>
            backup.phase = seen.fault /\ backup.task = seen.task
       /\ seen.startedBefore /\ seen.cause # "hook" =>
            backup.phase \notin FaultPhases
  /\ FaultReportIsTrue

BootInv == ValidInside /\ CommandPath /\ RetryPath /\ FlagPath /\ FaultPath

\* What the steps that end a boot have in common.
EndsBoot(cause) ==
  /\ pc' = "read" /\ progress' = 0 /\ ram' = NothingRead
  /\ seen'.cause = cause
  /\ seen'.startedBefore = (progress > 0)

LEMMA RestartEndsBoot ==
  ASSUME TypeOK, NEW cause \in Cause, NEW env \in BOOLEAN,
         Restart(cause), seen' = Remember(cause, env)
  PROVE  EndsBoot(cause)
  BY RestartType DEF EndsBoot, Remember, TypeOK, History

LEMMA DeliberateEndsBoot ==
  ASSUME TypeOK, DeliberateReset
  PROVE  /\ EndsBoot(IF pc = "retryReset" THEN "retry" ELSE "commanded")
         /\ pc \in {"retryReset", "commandedReset"} /\ UNCHANGED backup
<1>1. (IF pc = "retryReset" THEN "retry" ELSE "commanded") \in Cause
  BY DEF Cause
<1>2. QED
  BY <1>1, RestartEndsBoot DEF DeliberateReset

LEMMA OutsideEndsBoot ==
  ASSUME TypeOK, ResetFromOutside
  PROVE  \E cause \in ResetKinds \ {"hook"} :
           /\ EndsBoot(cause)
           /\ Restart(cause)
           /\ backup' = backup \/ ~ backup'.valid
<1>1. PICK cause \in Resets \ {"hook"}, lost \in BOOLEAN :
        /\ Restart(cause) /\ seen' = Remember(cause, TRUE)
        /\ backup' = IF lost THEN [backup EXCEPT !.valid = FALSE] ELSE backup
  BY DEF ResetFromOutside
<1>2. cause \in Cause /\ cause \in ResetKinds \ {"hook"}
  BY <1>1, RecoveryAssumption DEF Cause
<1>3. backup' = backup \/ ~ backup'.valid
  BY <1>1 DEF TypeOK, Backup
<1>4. QED
  BY <1>1, <1>2, <1>3, RestartEndsBoot

LEMMA HookEndsBoot ==
  ASSUME TypeOK, FaultHook
  PROVE  /\ EndsBoot("hook") /\ Restart("hook")
         /\ backup'.phase = seen'.fault /\ backup'.task = seen'.task
         /\ backup'.valid = backup.valid
<1>1. PICK kind \in FaultPhases, task \in Tasks :
        /\ backup' = [backup EXCEPT !.phase = kind, !.task = task]
        /\ seen' = [Remember("hook", TRUE) EXCEPT !.fault = kind, !.task = task]
  BY DEF FaultHook
<1>2. "hook" \in Cause /\ Restart("hook") /\ seen.resets < MaxResets
  BY DEF FaultHook, Cause, ResetKinds
<1>3. Remember("hook", TRUE) \in History
  BY <1>2, RememberType
<1>4. /\ Remember("hook", TRUE).cause = "hook"
      /\ Remember("hook", TRUE).startedBefore = (progress > 0)
  BY DEF Remember, TypeOK, History
<1>5. /\ seen'.cause = "hook" /\ seen'.startedBefore = (progress > 0)
      /\ seen'.fault = kind /\ seen'.task = task
  BY <1>1, <1>3, <1>4 DEF History
<1>6. backup'.phase = kind /\ backup'.task = task /\ backup'.valid = backup.valid
  BY <1>1 DEF TypeOK, Backup
<1>7. EndsBoot("hook")
  BY <1>2, <1>5, RestartType DEF EndsBoot
<1>8. QED
  BY <1>2, <1>5, <1>6, <1>7

LEMMA InitEstablishes == Init => BootInv
  BY RecoveryAssumption
     DEF Init, BootInv, ValidInside, CommandPath, RetryPath, FlagPath,
         FaultPath, CauseIsKnown, FaultReportIsTrue, Reinitialised,
         BeforeConsume, BeforeCounted, BeforeStart, Decided, FlagsOf

LEMMA ValidStep ==
  ASSUME TypeOK, ValidInside, [Next]_vars
  PROVE  ValidInside'
<1>1. CASE ReadPrevious
  BY <1>1 DEF ReadPrevious, Reinitialised, ValidInside
<1>2. CASE DeliberateReset
  BY <1>2, DeliberateEndsBoot DEF EndsBoot, ValidInside
<1>3. CASE ResetFromOutside
  BY <1>3, OutsideEndsBoot DEF EndsBoot, ValidInside
<1>4. CASE FaultHook
  BY <1>4, HookEndsBoot DEF EndsBoot, ValidInside
<1>5. CASE RebootCommand
  BY <1>5 DEF RebootCommand, Reinitialised, ValidInside
<1>6. CASE \/ DecodeReason \/ SetReason \/ ConsumeMarker \/ CountConsecutive
           \/ CountCumulative \/ Decide \/ SetPhase \/ ClearConsecutive
           \/ MarkRetry \/ MarkCommanded \/ Tick
  BY <1>6 DEF DecodeReason, SetReason, ConsumeMarker, CountConsecutive,
     CountCumulative, Decide, SetPhase, ClearConsecutive, MarkRetry,
     MarkCommanded, Tick, ValidInside, TypeOK, Backup
<1>7. CASE UNCHANGED vars
  BY <1>7 DEF vars, ValidInside
<1>8. QED
  BY <1>1, <1>2, <1>3, <1>4, <1>5, <1>6, <1>7 DEF Next, System

LEMMA CommandStep ==
  ASSUME TypeOK, ValidInside, CommandPath, [Next]_vars
  PROVE  CommandPath'
<1> USE DEF CommandPath, CountsClear, BeforeConsume, BeforeCounted, Decided
<1>1. CASE ReadPrevious
  BY <1>1 DEF NoFaults, ReadPrevious, TypeOK, History
<1>2. CASE DecodeReason \/ SetReason
  BY <1>2 DEF DecodeReason, SetReason, TypeOK, Backup
<1>3. CASE ConsumeMarker
  BY <1>3 DEF ConsumeMarker, TypeOK, Backup, Ram
<1>4. CASE CountConsecutive
  BY <1>4 DEF CountConsecutive, AdvancesConsecutive, TypeOK, Backup, History
<1>5. CASE CountCumulative
  <2>1. (0 + 1) % CountModulus = 1
    BY RecoveryAssumption
  <2>2. QED
    BY <1>5, <2>1 DEF CountCumulative, TypeOK, Backup
<1>6. CASE Decide
  <2>1. backup.consecutive = 0 /\ backup.cumulative = 1 => ~ StartReduced
    BY RecoveryAssumption DEF StartReduced, OverThreshold
  <2>2. QED
    BY <1>6, <2>1 DEF Decide, TypeOK, Backup, Ram, History
<1>7. CASE SetPhase
  BY <1>7 DEF SetPhase, TypeOK, Backup, History
<1>8. CASE ClearConsecutive
  BY <1>8 DEF NoFaults, ClearConsecutive, TypeOK, Backup, History
<1>9. CASE MarkRetry
  BY <1>9 DEF MarkRetry
<1>10. CASE MarkCommanded
  BY <1>10 DEF MarkCommanded, TypeOK, Backup
<1>11. CASE Tick
  BY <1>11 DEF Tick, TypeOK, History
<1>12. CASE RebootCommand
  BY <1>12 DEF RebootCommand, Reinitialised
<1>13. CASE DeliberateReset
  BY <1>13, DeliberateEndsBoot DEF EndsBoot, ValidInside
<1>14. CASE ResetFromOutside
  BY <1>14, OutsideEndsBoot DEF EndsBoot, ResetKinds
<1>15. CASE FaultHook
  BY <1>15, HookEndsBoot DEF EndsBoot
<1>16. CASE UNCHANGED vars
  BY <1>16 DEF vars
<1>17. QED
  BY <1>1, <1>2, <1>3, <1>4, <1>5, <1>6, <1>7, <1>8, <1>9, <1>10, <1>11,
     <1>12, <1>13, <1>14, <1>15, <1>16 DEF Next, System

LEMMA RetryStep ==
  ASSUME TypeOK, ValidInside, RetryPath, [Next]_vars
  PROVE  RetryPath'
<1> USE DEF RetryPath, RetrySucceeds, BeforeConsume, BeforeCounted, Decided
<1>1. CASE ReadPrevious
  BY <1>1 DEF NoFaults, ReadPrevious, TypeOK, History
<1>2. CASE DecodeReason \/ SetReason
  BY <1>2 DEF DecodeReason, SetReason, TypeOK, Backup
<1>3. CASE ConsumeMarker
  BY <1>3 DEF ConsumeMarker, TypeOK, Backup, Ram
<1>4. CASE CountConsecutive
  BY <1>4 DEF CountConsecutive, TypeOK, Backup, History
<1>5. CASE CountCumulative
  <2>1. backup.cumulative \in Count
    BY DEF TypeOK, Backup
  <2>2. (backup.cumulative + 1) % CountModulus <= backup.cumulative + 1
    BY <2>1, CountInRange
  <2>3. QED
    BY <1>5, <2>2 DEF CountCumulative, TypeOK, Backup
<1>6. CASE Decide
  <2>1. RetrySucceeds => ~ StartReduced
    BY DEF StartReduced
  <2>2. StartReduced => backup'.snapshot = backup'.cumulative
    BY <1>6 DEF Decide, TypeOK, Backup
  <2>3. ram'.reduced = StartReduced
    BY <1>6 DEF Decide, TypeOK, Ram
  <2>4. pc' = "phase" /\ seen'.cause = seen.cause
    BY <1>6 DEF Decide, TypeOK, History
  <2>5. QED
    BY <1>6, <2>1, <2>2, <2>3, <2>4 DEF Decide
<1>7. CASE SetPhase
  BY <1>7 DEF SetPhase, TypeOK, Backup, History
<1>8. CASE ClearConsecutive
  BY <1>8 DEF NoFaults, ClearConsecutive, TypeOK, Backup, History
<1>9. CASE MarkRetry
  BY <1>9 DEF MarkRetry, RetryDue, TypeOK, Backup
<1>10. CASE MarkCommanded \/ RebootCommand
  BY <1>10 DEF MarkCommanded, RebootCommand
<1>11. CASE Tick
  BY <1>11 DEF Tick, TypeOK, History
<1>12. CASE DeliberateReset
  BY <1>12, DeliberateEndsBoot DEF EndsBoot, ValidInside
<1>13. CASE ResetFromOutside
  BY <1>13, OutsideEndsBoot DEF EndsBoot, ResetKinds
<1>14. CASE FaultHook
  BY <1>14, HookEndsBoot DEF EndsBoot
<1>15. CASE UNCHANGED vars
  BY <1>15 DEF vars
<1>16. QED
  BY <1>1, <1>2, <1>3, <1>4, <1>5, <1>6, <1>7, <1>8, <1>9, <1>10, <1>11,
     <1>12, <1>13, <1>14, <1>15 DEF Next, System

LEMMA FlagStep ==
  ASSUME TypeOK, FlagPath, [Next]_vars
  PROVE  FlagPath'
<1> USE DEF FlagPath, CauseIsKnown
<1>a. ASSUME NEW cause \in Cause, EndsBoot(cause), Restart(cause)
      PROVE  FlagPath'
  <2>1. progress > 0 => flags = {}
    BY DEF TypeOK, BeforeStart
  <2>2. progress > 0 => flags' = FlagsOf(cause)
    <3>1. CASE cause \in {"powerOn", "lowVoltage", "pin"}
      BY <1>a, <2>1, <3>1 DEF Restart, FlagsOf
    <3>2. CASE cause \in {"watchdog", "hook", "upload", "commanded", "retry"}
      BY <1>a, <2>1, <3>2 DEF Restart, FlagsOf
    <3>3. QED
      BY <3>1, <3>2 DEF Cause, ResetKinds
  <2>3. QED
    BY <1>a, <2>2 DEF EndsBoot
<1>1. CASE ReadPrevious
  BY <1>1 DEF NoFaults, ReadPrevious, TypeOK, History
<1>2. CASE DecodeReason
  <2>1. flags = FlagsOf(seen.cause) => Decoded = ReasonOf(seen.cause)
    <3>1. CASE seen.cause \in {"powerOn", "lowVoltage", "watchdog"}
      BY <3>1 DEF FlagsOf, Decoded, ReasonOf
    <3>2. CASE seen.cause = "pin"
      BY <3>2 DEF FlagsOf, Decoded, ReasonOf
    <3>3. CASE seen.cause \in {"hook", "upload", "commanded", "retry"}
      BY <3>3 DEF FlagsOf, Decoded, ReasonOf
    <3>4. QED
      BY <3>1, <3>2, <3>3 DEF TypeOK, History, Cause, ResetKinds
  <2>2. QED
    BY <1>2, <2>1 DEF DecodeReason, TypeOK, Ram
<1>3. CASE \/ SetReason \/ ConsumeMarker \/ CountConsecutive \/ CountCumulative
           \/ Decide \/ SetPhase \/ ClearConsecutive \/ MarkRetry
           \/ MarkCommanded \/ Tick \/ RebootCommand
  BY <1>3 DEF NoFaults, SetReason, ConsumeMarker, CountConsecutive, CountCumulative,
     Decide, SetPhase, ClearConsecutive, MarkRetry, MarkCommanded, Tick,
     RebootCommand, TypeOK, Ram, History
<1>4. CASE DeliberateReset
  <2>1. PICK cause \in {"retry", "commanded"} :
          Restart(cause) /\ seen' = Remember(cause, FALSE)
    BY <1>4 DEF DeliberateReset
  <2>2. cause \in Cause
    BY <2>1 DEF Cause
  <2>3. QED
    BY <1>a, <2>1, <2>2, RestartEndsBoot
<1>5. CASE ResetFromOutside
  BY <1>5, <1>a, OutsideEndsBoot DEF Cause
<1>6. CASE FaultHook
  BY <1>6, <1>a, HookEndsBoot DEF Cause, ResetKinds
<1>7. CASE UNCHANGED vars
  BY <1>7 DEF vars
<1>8. QED
  BY <1>1, <1>2, <1>3, <1>4, <1>5, <1>6, <1>7 DEF Next, System

LEMMA FaultStep ==
  ASSUME TypeOK, ValidInside, FaultPath, [Next]_vars
  PROVE  FaultPath'
<1> USE DEF FaultPath, FaultReportIsTrue
<1>1. CASE ReadPrevious
  <2>1. /\ ~ backup.valid => ram'.invalid
        /\ backup.valid => ram'.phase = backup.phase /\ ram'.task = backup.task
    BY <1>1 DEF ReadPrevious, TypeOK, Ram, Backup
  <2>2. backup.valid => seen' = seen
    BY <1>1 DEF ReadPrevious
  <2>3. progress' = 0 /\ pc' = "decode"
    BY <1>1 DEF ReadPrevious, TypeOK, BeforeStart
  <2>4. CASE backup.valid
    BY <1>1, <2>1, <2>2, <2>3, <2>4 DEF ReadPrevious
  <2>5. CASE ~ backup.valid
    BY <2>1, <2>3, <2>5
  <2>6. QED
    BY <2>4, <2>5
<1>2. CASE \/ DecodeReason \/ SetReason \/ ConsumeMarker \/ CountConsecutive
           \/ CountCumulative \/ Decide
  BY <1>2 DEF DecodeReason, SetReason, ConsumeMarker, CountConsecutive,
     CountCumulative, Decide, TypeOK, BeforeStart, Ram, History
<1>3. CASE SetPhase
  <2>1. backup'.phase \notin FaultPhases
    BY <1>3 DEF SetPhase, TypeOK, Backup, FaultPhases, StackOverflow,
       MallocFailed, SchedulerStarted
  <2>2. QED
    BY <1>3, <2>1 DEF SetPhase, TypeOK, History
<1>4. CASE \/ ClearConsecutive \/ MarkRetry \/ MarkCommanded \/ Tick
  BY <1>4 DEF NoFaults, ClearConsecutive, MarkRetry, MarkCommanded, Tick, TypeOK,
     Backup, History, BeforeStart
<1>5. CASE RebootCommand
  BY <1>5 DEF NoFaults, RebootCommand, Reinitialised, TypeOK, History, FaultPhases,
     StackOverflow, MallocFailed
<1>6. ASSUME NEW cause \in Cause \ {"hook"}, EndsBoot(cause),
             backup' = backup \/ ~ backup'.valid
      PROVE  FaultPath'
  <2>1. progress > 0 => backup.phase \notin FaultPhases
    BY DEF TypeOK
  <2>2. pc' = "read" /\ seen'.cause # "hook"
    BY <1>6 DEF EndsBoot
  <2>3. seen'.startedBefore => progress > 0
    BY <1>6, Zenon DEF EndsBoot
  <2>4. ~ progress' > 0
    BY <1>6 DEF EndsBoot
  <2>5. backup'.valid => backup' = backup
    BY <1>6
  <2>6. QED
    BY <2>1, <2>2, <2>3, <2>4, <2>5
<1>7. CASE DeliberateReset
  BY <1>6, <1>7, DeliberateEndsBoot DEF Cause
<1>8. CASE ResetFromOutside
  BY <1>6, <1>8, OutsideEndsBoot DEF Cause
<1>9. CASE FaultHook
  BY <1>9, HookEndsBoot DEF EndsBoot
<1>10. CASE UNCHANGED vars
  BY <1>10 DEF vars
<1>11. QED
  BY <1>1, <1>2, <1>3, <1>4, <1>5, <1>7, <1>8, <1>9, <1>10 DEF Next, System

LEMMA BootInvHolds == Spec => [](TypeOK /\ BootInv)
<1>1. TypeOK /\ BootInv /\ [Next]_vars => (TypeOK /\ BootInv)'
  BY TypeStep, ValidStep, CommandStep, RetryStep, FlagStep, FaultStep
     DEF BootInv
<1>2. QED
  BY <1>1, TypeInit, InitEstablishes, PTL DEF Spec

-----------------------------------------------------------------------------
(***************************************************************************)
(* The theorems                                                            *)
(***************************************************************************)

\* A carried-out reboot command always ends in the normal configuration with
\* the counts cleared.  (MAV_CMD_PREFLIGHT_REBOOT_SHUTDOWN.)
THEOREM CommandSucceeds == Spec => []CommandReturnsToNormal
<1>1. TypeOK /\ BootInv => CommandReturnsToNormal
  BY DEF BootInv, CommandPath, CommandReturnsToNormal
<1>2. QED
  BY <1>1, BootInvHolds, PTL

\* The boot that the automatic retry asked for always starts normal, also when
\* the eight-bit count wraps at that very reset.  (getCumulativeSnapshot().)
THEOREM RetrySucceedsAlways == Spec => []RetryGetsItsChance
<1>1. TypeOK /\ BootInv => RetryGetsItsChance
  BY DEF BootInv, RetryPath, RetryGetsItsChance
<1>2. QED
  BY <1>1, BootInvHolds, PTL

\* No boot repeats an earlier fault or misses the last one, with the exceptions
\* the property states.  (recordFault(), setPhase().)
THEOREM FaultReportsAreTrue == Spec => []FaultReportIsTrue
<1>1. TypeOK /\ BootInv => FaultReportIsTrue
  BY DEF BootInv, FaultPath
<1>2. QED
  BY <1>1, BootInvHolds, PTL

\* No boot reports a cause left over from an earlier reset, with the exception
\* the property states.  (decodeAndClearResetReason().)
THEOREM CausesAreKnown == Spec => []CauseIsKnown
<1>1. TypeOK /\ BootInv => CauseIsKnown
  BY DEF BootInv, FlagPath
<1>2. QED
  BY <1>1, BootInvHolds, PTL

-----------------------------------------------------------------------------
(***************************************************************************)
(* The counts                                                              *)
(*                                                                         *)
(* Each count is compared with the history it stands for.  The eight-bit   *)
(* counts wrap, and a count that wrapped says nothing: NoWrap excludes the *)
(* steps that do, and FewResetsNeverWrap says how many resets that takes.  *)
(***************************************************************************)

\* The step at hand does not take a count past its width.
NoWrap ==
  /\ pc = "consecutive" /\ AdvancesConsecutive =>
       backup.consecutive # CountModulus - 1
  /\ pc = "cumulative" => backup.cumulative # CountModulus - 1

\* A fault is still to be counted.
Uncounted ==
  /\ seen.pending
  /\ pc \in {"read", "decode", "reason", "consume", "consecutive"}

\* What the code loses sight of.
Unseen == seen.masked + seen.forgotten

\* No marker stands before a fault that is to be counted.
MarkerPath ==
  /\ pc = "read" => ~ ram.invalid
  /\ pc \notin BeforeConsume \cup {"retryReset", "commandedReset"} =>
       backup.deliberate = "none"
  /\ pc \in BeforeConsume /\ seen.pending => backup.deliberate = "none"
  /\ pc = "consecutive" /\ seen.pending => ram.marker = "none"

\* Neither is its cause lost, through whatever resets come before setup()
\* decodes it.
EvidencePath ==
  seen.pending =>
    /\ pc \in {"read", "decode"} => "watchdog" \in flags \/ "software" \in flags
    /\ pc = "decode" => ~ ram.invalid
    /\ pc \in {"reason", "consume", "consecutive"} =>
         ram.reason \in {"watchdog", "software"}

\* The count is at least the history, but for the fault that is to be counted;
\* a retry starts from none.
StreakPath ==
  /\ seen.faults <= backup.consecutive + Unseen + IF Uncounted THEN 1 ELSE 0
  /\ pc \in BeforeStart \cup {"phase"} => ~ cleared
  /\ cleared => seen.faults = 0
  /\ backup.deliberate = "retry" => seen.faults <= Unseen
  /\ ram.marker = "retry" => seen.faults <= Unseen
  /\ FaultStreakReduces

BootsPath ==
  /\ seen.boots <= backup.cumulative
  /\ pc = "decide" => seen.boots < backup.cumulative
  /\ ManyResetsReduce

CountInv == MarkerPath /\ EvidencePath /\ StreakPath /\ BootsPath

\* How far the counts can have got: the automatic retry never follows itself.
MostBoots == 2 * seen.resets + IF seen.cause = "retry" THEN 2 ELSE 1

CountBound ==
  /\ pc = "retryReset" => seen.cause # "retry"
  /\ backup.cumulative <= MostBoots
  /\ pc \in BeforeStart \ {"decide"} => backup.cumulative < MostBoots
  /\ backup.consecutive <= MostBoots
  /\ pc \in BeforeStart \ {"cumulative", "decide"} =>
       backup.consecutive < MostBoots

LEMMA RememberKeeps ==
  ASSUME TypeOK, NEW cause, NEW env \in BOOLEAN
  PROVE  LET r == Remember(cause, env) IN
         /\ r.cause = cause /\ r.boots = seen.boots
         /\ r.faults = IF cause \in FaultResets THEN seen.faults + 1
                       ELSE seen.faults
         /\ r.masked = IF Masks(cause) THEN seen.masked + 1 ELSE seen.masked
         /\ r.forgotten = IF Forgets(cause) THEN seen.forgotten + 1
                          ELSE seen.forgotten
         /\ r.pending = Awaits(cause)
         /\ r.resets = IF env THEN seen.resets + 1 ELSE seen.resets
  BY DEF Remember, TypeOK, History

\* What every end of a boot does to what is counted.
ResetBy(cause, env) ==
  /\ pc' = "read" /\ ram' = NothingRead /\ cleared' = FALSE
  /\ seen'.cause = cause /\ seen'.boots = seen.boots
  /\ seen'.faults = IF cause \in FaultResets THEN seen.faults + 1 ELSE seen.faults
  /\ seen'.masked = IF Masks(cause) THEN seen.masked + 1 ELSE seen.masked
  /\ seen'.forgotten = IF Forgets(cause) THEN seen.forgotten + 1
                       ELSE seen.forgotten
  /\ seen'.pending = Awaits(cause)
  /\ seen'.resets = IF env THEN seen.resets + 1 ELSE seen.resets
  /\ backup'.consecutive = backup.consecutive
  /\ backup'.cumulative = backup.cumulative
  /\ backup'.deliberate = backup.deliberate

LEMMA EveryReset ==
  ASSUME TypeOK, DeliberateReset \/ ResetFromOutside \/ FaultHook
  PROVE  \E cause \in Cause, env \in BOOLEAN :
           /\ Restart(cause)
           /\ ResetBy(cause, env)
           /\ IF env THEN cause \in ResetKinds
              ELSE cause = IF pc = "retryReset" THEN "retry" ELSE "commanded"
           /\ ~ env => pc \in {"retryReset", "commandedReset"}
           /\ cause \in FaultResets => pc \notin BeforeStart
<1>1. CASE DeliberateReset
  <2> DEFINE cause == IF pc = "retryReset" THEN "retry" ELSE "commanded"
  <2>1. cause \in Cause /\ cause \notin FaultResets
    BY DEF Cause, FaultResets
  <2>2. /\ Restart(cause) /\ seen' = Remember(cause, FALSE) /\ backup' = backup
        /\ pc \in {"retryReset", "commandedReset"}
    BY <1>1 DEF DeliberateReset
  <2> HIDE DEF cause
  <2>3. ResetBy(cause, FALSE)
    BY <2>1, <2>2, RestartType, RememberKeeps DEF ResetBy
  <2>4. QED
    BY <2>1, <2>2, <2>3 DEF cause
<1>2. CASE ResetFromOutside
  <2>1. PICK cause \in Resets \ {"hook"}, lost \in BOOLEAN :
          /\ Restart(cause) /\ seen' = Remember(cause, TRUE)
          /\ backup' = IF lost THEN [backup EXCEPT !.valid = FALSE] ELSE backup
          /\ cause = "watchdog" => WatchdogRuns
    BY <1>2 DEF ResetFromOutside
  <2>a. cause \in FaultResets => pc \notin BeforeStart
    BY <2>1 DEF FaultResets, WatchdogRuns, BeforeStart
  <2>2. cause \in Cause /\ cause \in ResetKinds
    BY <2>1, RecoveryAssumption DEF Cause
  <2>3. /\ backup'.consecutive = backup.consecutive
        /\ backup'.cumulative = backup.cumulative
        /\ backup'.deliberate = backup.deliberate
    BY <2>1 DEF TypeOK, Backup
  <2>4. ResetBy(cause, TRUE)
    BY <2>1, <2>2, <2>3, RestartType, RememberKeeps DEF ResetBy
  <2>5. QED
    BY <2>1, <2>2, <2>a, <2>4
<1>3. CASE FaultHook
  <2>1. PICK kind \in FaultPhases, task \in Tasks :
          /\ backup' = [backup EXCEPT !.phase = kind, !.task = task]
          /\ seen' = [Remember("hook", TRUE) EXCEPT !.fault = kind, !.task = task]
    BY <1>3 DEF FaultHook
  <2>2. "hook" \in Cause /\ "hook" \in ResetKinds /\ Restart("hook")
        /\ seen.resets < MaxResets
    BY <1>3 DEF FaultHook, Cause, ResetKinds
  <2>3. Remember("hook", TRUE) \in History
    BY <2>2, RememberType
  <2>4. LET r == Remember("hook", TRUE) IN
        /\ seen'.cause = r.cause /\ seen'.boots = r.boots
        /\ seen'.faults = r.faults /\ seen'.masked = r.masked
        /\ seen'.forgotten = r.forgotten /\ seen'.pending = r.pending
        /\ seen'.resets = r.resets
    BY <2>1, <2>3 DEF History
  <2>5. /\ backup'.consecutive = backup.consecutive
        /\ backup'.cumulative = backup.cumulative
        /\ backup'.deliberate = backup.deliberate
    BY <2>1 DEF TypeOK, Backup
  <2>6. ResetBy("hook", TRUE)
    BY <2>2, <2>4, <2>5, RestartType, RememberKeeps DEF ResetBy
  <2>7. pc \notin BeforeStart
    BY <1>3 DEF FaultHook, BeforeStart
  <2>8. QED
    BY <2>2, <2>6, <2>7
<1>4. QED
  BY <1>1, <1>2, <1>3

\* A count that does not wrap grows by one.
LEMMA CountGrows ==
  ASSUME NEW n \in Count, n # CountModulus - 1
  PROVE  (n + 1) % CountModulus = n + 1
  BY RecoveryAssumption DEF Count

LEMMA MarkerInit == Init => MarkerPath /\ EvidencePath
  BY DEF Init, MarkerPath, EvidencePath, BeforeConsume, Reinitialised,
         NothingRead

LEMMA MarkerStep ==
  ASSUME TypeOK, ValidInside, MarkerPath, [Next]_vars
  PROVE  MarkerPath'
<1> USE DEF MarkerPath, BeforeConsume
<1>1. CASE ReadPrevious
  <2>1. /\ pc = "read" /\ pc' = "decode"
        /\ backup.valid => UNCHANGED <<backup, seen>>
        /\ ~ backup.valid => ~ seen'.pending
    BY <1>1 DEF ReadPrevious, NoFaults, TypeOK, History
  <2>2. QED
    BY <2>1
<1>2. CASE ConsumeMarker
  BY <1>2 DEF ConsumeMarker, ValidInside, TypeOK, Ram, Backup
<1>3. CASE \/ DecodeReason \/ SetReason \/ CountConsecutive \/ CountCumulative
           \/ Decide \/ SetPhase \/ ClearConsecutive \/ MarkRetry \/ Tick
  BY <1>3 DEF DecodeReason, SetReason, CountConsecutive, CountCumulative,
     Decide, SetPhase, ClearConsecutive, MarkRetry, Tick, TypeOK, Ram, Backup,
     History, NoFaults, ValidInside
<1>4. CASE MarkCommanded \/ RebootCommand
  BY <1>4 DEF MarkCommanded, RebootCommand, Reinitialised
<1>5. CASE DeliberateReset \/ ResetFromOutside \/ FaultHook
  <2>1. PICK cause \in Cause, env \in BOOLEAN : ResetBy(cause, env)
    BY <1>5, EveryReset
  <2>2. /\ pc' = "read" /\ ram' = NothingRead
        /\ seen'.pending = Awaits(cause)
        /\ backup'.deliberate = backup.deliberate
    BY <2>1 DEF ResetBy
  <2>3. Awaits(cause) => backup.deliberate = "none"
    BY DEF Awaits, Masks
  <2>4. QED
    BY <2>2, <2>3 DEF NothingRead
<1>6. CASE UNCHANGED vars
  BY <1>6 DEF vars
<1>7. QED
  BY <1>1, <1>2, <1>3, <1>4, <1>5, <1>6 DEF Next, System

LEMMA EvidenceStep ==
  ASSUME TypeOK, EvidencePath, [Next]_vars
  PROVE  EvidencePath'
<1> USE DEF EvidencePath
<1>1. CASE ReadPrevious
  BY <1>1 DEF ReadPrevious, NoFaults, TypeOK, History, Ram
<1>2. CASE DecodeReason
  <2>1. "watchdog" \in flags \/ "software" \in flags =>
          Decoded \in {"watchdog", "software"}
    BY DEF Decoded
  <2>2. QED
    BY <1>2, <2>1 DEF DecodeReason, TypeOK, Ram
<1>3. CASE \/ SetReason \/ ConsumeMarker \/ CountConsecutive \/ CountCumulative
           \/ Decide \/ SetPhase \/ ClearConsecutive \/ MarkRetry
           \/ MarkCommanded \/ Tick \/ RebootCommand
  BY <1>3 DEF SetReason, ConsumeMarker, CountConsecutive, CountCumulative,
     Decide, SetPhase, ClearConsecutive, MarkRetry, MarkCommanded, Tick,
     RebootCommand, NoFaults, TypeOK, Ram, History
<1>4. CASE DeliberateReset \/ ResetFromOutside \/ FaultHook
  <2>1. PICK cause \in Cause, env \in BOOLEAN :
          Restart(cause) /\ ResetBy(cause, env)
    BY <1>4, EveryReset
  <2>2. /\ cause \in FaultResets => "watchdog" \in flags' \/ "software" \in flags'
        /\ cause # "powerOn" => flags \subseteq flags'
    <3>1. CASE cause = "powerOn"
      BY <3>1 DEF FaultResets
    <3>2. CASE cause \in {"lowVoltage", "pin"}
      BY <2>1, <3>2 DEF Restart, FaultResets
    <3>3. CASE cause \in {"watchdog", "hook", "upload", "commanded", "retry"}
      BY <2>1, <3>3 DEF Restart, FaultResets
    <3>4. QED
      BY <3>1, <3>2, <3>3 DEF Cause, ResetKinds
  <2>3. Awaits(cause) => "watchdog" \in flags' \/ "software" \in flags'
    BY <2>2 DEF Awaits
  <2>4. seen'.pending = Awaits(cause) /\ pc' = "read"
    BY <2>1 DEF ResetBy
  <2>5. QED
    BY <2>3, <2>4
<1>5. CASE UNCHANGED vars
  BY <1>5 DEF vars
<1>6. QED
  BY <1>1, <1>2, <1>3, <1>4, <1>5 DEF Next, System

\* What a reset adds to the faults it adds to what is unseen or to be counted.
LEMMA ResetCounts ==
  ASSUME TypeOK, MarkerPath, NEW cause \in Cause, NEW env \in BOOLEAN,
         ResetBy(cause, env), cause \in FaultResets => pc \notin BeforeStart
  PROVE  /\ seen'.faults - Unseen' <= seen.faults - Unseen
                + IF Awaits(cause) THEN 1 ELSE 0
         /\ Uncounted => seen'.faults - Unseen' <= seen.faults - Unseen
                           - IF Awaits(cause) THEN 0 ELSE 1
         /\ backup.deliberate # "none" =>
              seen'.faults - Unseen' <= seen.faults - Unseen
         /\ Uncounted' = Awaits(cause)
         /\ Unseen' \in Nat /\ seen'.faults \in Nat
<1>1. seen.faults \in Nat /\ seen.masked \in Nat /\ seen.forgotten \in Nat
  BY DEF TypeOK, History
<1> DEFINE fault == cause \in FaultResets
<1>2. /\ seen'.faults = IF fault THEN seen.faults + 1 ELSE seen.faults
      /\ seen'.masked = IF Masks(cause) THEN seen.masked + 1 ELSE seen.masked
      /\ seen'.forgotten = IF Forgets(cause) THEN seen.forgotten + 1
                           ELSE seen.forgotten
      /\ seen'.pending = Awaits(cause) /\ pc' = "read"
  BY DEF ResetBy
<1>3. /\ fault => Masks(cause) \/ Awaits(cause)
      /\ Uncounted => ~ fault
      /\ Uncounted => Forgets(cause) \/ Awaits(cause)
      /\ backup.deliberate # "none" /\ fault => Masks(cause)
      /\ Forgets(cause) /\ fault => FALSE
  BY DEF Masks, Awaits, Forgets, Uncounted, BeforeStart
<1>4. Uncounted' = Awaits(cause)
  <2>1. Uncounted' <=> Awaits(cause)
    BY <1>2 DEF Uncounted
  <2>2. Uncounted' \in BOOLEAN /\ Awaits(cause) \in BOOLEAN
    BY DEF Uncounted, Awaits, TypeOK, History
  <2>3. QED
    BY <2>1, <2>2
<1>5. Awaits(cause) \in BOOLEAN /\ fault \in BOOLEAN /\ Masks(cause) \in BOOLEAN
      /\ Forgets(cause) \in BOOLEAN
  BY DEF Awaits, Masks, Forgets, TypeOK, History
<1> HIDE DEF fault
<1>6. QED
  BY <1>1, <1>2, <1>3, <1>4, <1>5 DEF Unseen

LEMMA StreakStep ==
  ASSUME TypeOK, ValidInside, MarkerPath, EvidencePath, StreakPath, NoWrap,
         [Next]_vars
  PROVE  StreakPath'
<1> USE DEF StreakPath, FaultStreakReduces, Decided
<1>a. /\ backup.consecutive \in Count /\ backup.consecutive \in Nat
      /\ seen.faults \in Nat /\ seen.masked \in Nat /\ seen.forgotten \in Nat
      /\ Unseen \in Nat /\ ConsecutiveThreshold \in Nat \ {0}
  BY RecoveryAssumption DEF TypeOK, Backup, Count, History, Unseen
\* A step that leaves the history and the count alone.
<1>b. ASSUME UNCHANGED seen, backup'.consecutive = backup.consecutive,
             Uncounted => Uncounted'
      PROVE  /\ seen'.faults <= backup'.consecutive + Unseen'
                                 + IF Uncounted' THEN 1 ELSE 0
             /\ Unseen' = Unseen
  BY <1>a, <1>b DEF Unseen
<1>1. CASE ReadPrevious
  <2>1. CASE backup.valid
    <3>1. UNCHANGED <<seen, backup>> /\ pc = "read" /\ pc' = "decode"
          /\ UNCHANGED cleared /\ ram'.marker = ram.marker
      BY <1>1, <2>1 DEF ReadPrevious, TypeOK, Ram
    <3>2. Uncounted => Uncounted'
      BY <3>1 DEF Uncounted
    <3>3. QED
      BY <1>b, <3>1, <3>2 DEF BeforeStart
  <2>2. CASE ~ backup.valid
    <3>1. /\ seen'.faults = 0 /\ seen'.masked = 0 /\ seen'.forgotten = 0
          /\ ~ seen'.pending
          /\ backup' = Reinitialised /\ pc' = "decode" /\ cleared' = FALSE
      BY <1>1, <2>2 DEF ReadPrevious, NoFaults, TypeOK, History, BeforeStart
    <3>2. QED
      BY <3>1 DEF Reinitialised, Unseen, Uncounted
  <2>3. QED
    BY <2>1, <2>2
<1>2. CASE DecodeReason \/ SetReason \/ ConsumeMarker
  <2>1. /\ UNCHANGED <<seen, cleared>>
        /\ backup'.consecutive = backup.consecutive
        /\ pc \in {"decode", "reason", "consume"}
        /\ pc' \in {"reason", "consume", "consecutive"}
        /\ backup'.deliberate \in {backup.deliberate, "none"}
        /\ ram'.marker \in {ram.marker, backup.deliberate}
    BY <1>2 DEF DecodeReason, SetReason, ConsumeMarker, TypeOK, Ram, Backup
  <2>2. Uncounted => Uncounted'
    BY <2>1 DEF Uncounted
  <2>3. QED
    BY <1>b, <2>1, <2>2 DEF BeforeStart
<1>3. CASE CountConsecutive
  <2>1. pc = "consecutive" /\ pc' = "cumulative" /\ UNCHANGED <<ram, cleared, seen>>
        /\ ~ cleared /\ backup.deliberate = "none"
    BY <1>3 DEF CountConsecutive, BeforeStart, MarkerPath, BeforeConsume
  <2>2. backup'.deliberate = backup.deliberate
    BY <1>3 DEF CountConsecutive, TypeOK, Backup
  <2>3. /\ seen.pending => backup'.consecutive = backup.consecutive + 1
        /\ backup'.consecutive \in Nat /\ backup'.consecutive >= backup.consecutive
    <3>1. seen.pending => AdvancesConsecutive
      BY <2>1 DEF AdvancesConsecutive, EvidencePath, MarkerPath
    <3>2. /\ AdvancesConsecutive => backup'.consecutive = backup.consecutive + 1
          /\ ~ AdvancesConsecutive => backup'.consecutive = backup.consecutive
      BY <1>3, <1>a, <2>1, CountGrows DEF CountConsecutive, NoWrap, TypeOK, Backup
    <3>3. QED
      BY <1>a, <3>1, <3>2
  <2>4. Uncounted = seen.pending /\ ~ Uncounted' /\ Unseen' = Unseen
    BY <2>1 DEF Uncounted, Unseen, TypeOK, History
  <2>5. seen'.faults <= backup'.consecutive + Unseen'
    BY <1>a, <2>1, <2>3, <2>4
  <2>6. seen'.faults <= backup'.consecutive + Unseen' + IF Uncounted' THEN 1 ELSE 0
    BY <1>a, <2>3, <2>4, <2>5
  <2>7. /\ pc' \notin {"phase", "running"} /\ ~ cleared' /\ seen' = seen
        /\ ram' = ram /\ backup'.deliberate = backup.deliberate
    BY <2>1, <2>2
  <2>8. QED
    BY <2>4, <2>6, <2>7
<1>4. CASE CountCumulative
  <2>1. /\ UNCHANGED <<seen, cleared, ram>> /\ pc = "cumulative" /\ pc' = "decide"
        /\ backup'.consecutive = backup.consecutive
        /\ backup'.deliberate = backup.deliberate
    BY <1>4 DEF CountCumulative, TypeOK, Backup
  <2>2. ~ Uncounted
    BY <2>1 DEF Uncounted
  <2>3. QED
    BY <1>b, <2>1, <2>2 DEF BeforeStart
<1>5. CASE Decide
  <2>1. /\ backup'.consecutive = backup.consecutive
        /\ backup'.deliberate = backup.deliberate
        /\ seen'.faults = seen.faults /\ Unseen' = Unseen
        /\ ram'.marker = ram.marker /\ ~ Uncounted /\ ~ Uncounted'
        /\ ram'.reduced = StartReduced /\ pc' = "phase" /\ ~ cleared'
    BY <1>5 DEF Decide, TypeOK, Backup, Ram, History, BeforeStart, Unseen, Uncounted
  <2>2. seen.faults >= ConsecutiveThreshold + Unseen => OverThreshold /\ ~ RetrySucceeds
    BY <1>a, <2>1 DEF OverThreshold, RetrySucceeds
  <2>3. ConsecutiveThreshold + seen'.masked + seen'.forgotten
          = ConsecutiveThreshold + Unseen
    BY <1>5, <1>a DEF Decide, Unseen, TypeOK, History
  <2>4. QED
    BY <2>1, <2>2, <2>3 DEF StartReduced
<1>6. CASE SetPhase
  <2>1. /\ backup'.consecutive = backup.consecutive
        /\ backup'.deliberate = backup.deliberate
        /\ seen'.faults = seen.faults /\ seen'.masked = seen.masked
        /\ seen'.forgotten = seen.forgotten /\ UNCHANGED <<ram, cleared>>
        /\ pc = "phase" /\ pc' \in {"phase", "running"}
    BY <1>6 DEF SetPhase, TypeOK, Backup, History
  <2>2. Unseen' = Unseen /\ ~ Uncounted /\ ~ Uncounted'
    BY <2>1 DEF Unseen, Uncounted
  <2>3. QED
    BY <2>1, <2>2
<1>7. CASE ClearConsecutive \/ RebootCommand
  <2>1. /\ seen'.faults = 0 /\ seen'.masked = 0 /\ seen'.forgotten = 0
        /\ backup'.consecutive = 0
        /\ pc' \in {"running", "markCommanded"}
    <3>1. seen \in History /\ backup \in Backup
      BY DEF TypeOK
    <3>2. NoFaults.faults = 0 /\ NoFaults.masked = 0 /\ NoFaults.forgotten = 0
          /\ NoFaults \in History
      BY <3>1 DEF NoFaults, History
    <3>3. CASE ClearConsecutive
      BY <3>1, <3>2, <3>3 DEF ClearConsecutive, Backup
    <3>4. CASE RebootCommand
      BY <3>1, <3>2, <3>4 DEF RebootCommand, Reinitialised, History
    <3>5. QED
      BY <1>7, <3>3, <3>4
  <2>2. Unseen' = 0 /\ ~ Uncounted'
    BY <2>1 DEF Unseen, Uncounted
  <2>3. QED
    BY <1>a, <2>1, <2>2 DEF BeforeStart
<1>8. CASE MarkRetry
  <2>1. cleared
    BY <1>8, RecoveryAssumption DEF MarkRetry, RetryDue, StabilityDue, TypeOK
  <2>2. /\ seen' = seen /\ seen.faults = 0 /\ pc' = "retryReset"
        /\ backup'.consecutive = backup.consecutive /\ pc = "running"
    BY <1>8, <2>1 DEF MarkRetry, TypeOK, Backup
  <2>3. Unseen' = Unseen /\ ~ Uncounted'
    BY <2>2 DEF Unseen, Uncounted
  <2>4. QED
    BY <1>a, <2>2, <2>3 DEF BeforeStart
<1>9. CASE MarkCommanded
  <2>1. /\ UNCHANGED <<seen, cleared, ram>>
        /\ pc = "markCommanded" /\ pc' = "commandedReset"
        /\ backup'.consecutive = backup.consecutive
        /\ backup'.deliberate = "commanded"
    BY <1>9 DEF MarkCommanded, TypeOK, Backup
  <2>2. ~ Uncounted
    BY <2>1 DEF Uncounted
  <2>3. QED
    BY <1>b, <2>1, <2>2 DEF BeforeStart
<1>10. CASE Tick
  <2>1. /\ seen'.faults = seen.faults /\ seen'.masked = seen.masked
        /\ seen'.forgotten = seen.forgotten
        /\ pc = "running" /\ UNCHANGED <<backup, pc, ram, cleared>>
    BY <1>10 DEF Tick, TypeOK, History
  <2>2. Unseen' = Unseen /\ ~ Uncounted /\ ~ Uncounted'
    BY <2>1 DEF Unseen, Uncounted
  <2>3. QED
    BY <2>1, <2>2 DEF BeforeStart
<1>11. CASE DeliberateReset \/ ResetFromOutside \/ FaultHook
  <2>1. PICK cause \in Cause, env \in BOOLEAN :
          /\ ResetBy(cause, env)
          /\ cause \in FaultResets => pc \notin BeforeStart
    BY <1>11, EveryReset
  <2>2. /\ pc' = "read" /\ ram' = NothingRead /\ ~ cleared'
        /\ backup'.consecutive = backup.consecutive
        /\ backup'.deliberate = backup.deliberate
    BY <2>1 DEF ResetBy
  <2>3. /\ seen'.faults - Unseen' <= seen.faults - Unseen
                + IF Awaits(cause) THEN 1 ELSE 0
        /\ Uncounted => seen'.faults - Unseen' <= seen.faults - Unseen
                          - IF Awaits(cause) THEN 0 ELSE 1
        /\ backup.deliberate # "none" =>
              seen'.faults - Unseen' <= seen.faults - Unseen
        /\ Uncounted' = Awaits(cause)
        /\ Unseen' \in Nat /\ seen'.faults \in Nat
    BY <2>1, ResetCounts
  <2>4. seen'.faults <= backup'.consecutive + Unseen'
                         + IF Uncounted' THEN 1 ELSE 0
    BY <1>a, <2>2, <2>3
  <2>5. backup'.deliberate = "retry" => seen'.faults <= Unseen'
    BY <1>a, <2>2, <2>3
  <2>6. QED
    BY <2>2, <2>4, <2>5 DEF NothingRead
<1>13. CASE UNCHANGED vars
  BY <1>13 DEF vars, Unseen, Uncounted
<1>14. QED
  BY <1>1, <1>2, <1>3, <1>4, <1>5, <1>6, <1>7, <1>8, <1>9, <1>10, <1>11,
     <1>13 DEF Next, System

LEMMA BootsStep ==
  ASSUME TypeOK, BootsPath, NoWrap, [Next]_vars
  PROVE  BootsPath'
<1> USE DEF BootsPath, ManyResetsReduce, Decided
<1>a. /\ backup.cumulative \in Count /\ backup.cumulative \in Nat
      /\ seen.boots \in Nat /\ CumulativeThreshold \in Nat \ {0}
      /\ seen.boots <= CumulativeThreshold
  BY RecoveryAssumption DEF TypeOK, Backup, Count, History
<1>1. CASE ReadPrevious
  <2>1. CASE backup.valid
    BY <1>1, <2>1 DEF ReadPrevious
  <2>2. CASE ~ backup.valid
    BY <1>1, <2>2 DEF ReadPrevious, Reinitialised, TypeOK, History
  <2>3. QED
    BY <2>1, <2>2
<1>2. CASE DecodeReason \/ SetReason \/ ConsumeMarker \/ CountConsecutive
  BY <1>2 DEF DecodeReason, SetReason, ConsumeMarker, CountConsecutive, TypeOK,
     Backup, History
<1>3. CASE CountCumulative
  <2>1. backup'.cumulative = backup.cumulative + 1
    BY <1>3, <1>a, CountGrows DEF CountCumulative, NoWrap, TypeOK, Backup
  <2>2. seen.boots <= backup'.cumulative /\ seen.boots < backup'.cumulative
    BY <1>a, <2>1
  <2>3. QED
    BY <1>3, <2>2 DEF CountCumulative
<1>4. CASE Decide
  <2>1. /\ backup'.cumulative = backup.cumulative
        /\ seen'.boots = Cap(seen.boots + 1, CumulativeThreshold)
        /\ ram'.marker = ram.marker /\ ram'.reduced = StartReduced
        /\ pc = "decide" /\ pc' = "phase"
    BY <1>4 DEF Decide, TypeOK, Backup, Ram, History
  <2>2. seen'.boots \in Nat /\ seen'.boots <= backup'.cumulative
    BY <1>a, <2>1 DEF Cap
  <2>3. seen'.boots = CumulativeThreshold => OverThreshold
    BY <1>a, <2>1, <2>2 DEF OverThreshold
  <2>4. QED
    BY <2>1, <2>2, <2>3 DEF StartReduced, RetrySucceeds
<1>5. CASE SetPhase
  <2>1. /\ backup'.cumulative = backup.cumulative /\ seen'.boots = seen.boots
        /\ UNCHANGED ram /\ pc = "phase" /\ pc' \in {"phase", "running"}
    BY <1>5 DEF SetPhase, TypeOK, Backup, History
  <2>2. QED
    BY <2>1
<1>6. CASE ClearConsecutive \/ MarkRetry \/ MarkCommanded \/ Tick
  BY <1>6 DEF NoFaults, ClearConsecutive, MarkRetry, MarkCommanded, Tick, TypeOK, Backup,
     History
<1>7. CASE RebootCommand
  BY <1>7 DEF RebootCommand, Reinitialised, TypeOK, History
<1>8. CASE DeliberateReset \/ ResetFromOutside \/ FaultHook
  BY <1>8, EveryReset DEF ResetBy
<1>9. CASE UNCHANGED vars
  BY <1>9 DEF vars
<1>10. QED
  BY <1>1, <1>2, <1>3, <1>4, <1>5, <1>6, <1>7, <1>8, <1>9 DEF Next, System

LEMMA CountInvInit == Init => CountInv
<1> SUFFICES ASSUME Init PROVE CountInv
  OBVIOUS
<1>1. MarkerPath /\ EvidencePath
  BY MarkerInit
<1>2. /\ pc = "read" /\ cleared = FALSE /\ seen.boots = 0
      /\ seen.faults = 0 /\ Unseen = 0 /\ ~ Uncounted
      /\ ram.marker = "none" /\ backup.deliberate = "none"
      /\ backup.consecutive = 0 /\ backup.cumulative = 0
  BY DEF Init, Reinitialised, NothingRead, Unseen, Uncounted
<1>3. QED
  BY <1>1, <1>2 DEF CountInv, StreakPath, BootsPath, FaultStreakReduces,
     ManyResetsReduce, Decided

LEMMA CountInvStep ==
  TypeOK /\ BootInv /\ CountInv /\ NoWrap /\ [Next]_vars => CountInv'
  BY MarkerStep, EvidenceStep, StreakStep, BootsStep DEF CountInv, BootInv

LEMMA BoundInit == Init => CountBound
<1> SUFFICES ASSUME Init PROVE CountBound
  OBVIOUS
<1>1. /\ pc = "read" /\ seen.resets = 0 /\ seen.cause = "powerOn"
      /\ backup.consecutive = 0 /\ backup.cumulative = 0
  BY DEF Init, Reinitialised
<1>2. QED
  BY <1>1 DEF CountBound, MostBoots

LEMMA BoundStep ==
  ASSUME TypeOK, BootInv, CountBound, [Next]_vars
  PROVE  CountBound'
<1> USE DEF CountBound
<1>a. /\ backup.cumulative \in Count /\ backup.consecutive \in Count
      /\ backup.cumulative \in Nat /\ backup.consecutive \in Nat
      /\ seen.resets \in Nat /\ MostBoots \in Nat \ {0}
  BY RecoveryAssumption DEF TypeOK, Backup, Count, History, MostBoots
<1>b. seen'.resets = seen.resets /\ seen'.cause = seen.cause =>
        MostBoots' = MostBoots
  BY DEF MostBoots
<1>1. CASE ReadPrevious
  <2>1. MostBoots' = MostBoots
    BY <1>1, <1>b DEF NoFaults, ReadPrevious, TypeOK, History
  <2>2. \/ backup' = backup
        \/ backup'.cumulative = 0 /\ backup'.consecutive = 0
    BY <1>1 DEF ReadPrevious, Reinitialised
  <2>3. QED
    BY <1>1, <1>a, <2>1, <2>2 DEF ReadPrevious, BeforeStart
<1>2. CASE DecodeReason \/ SetReason \/ ConsumeMarker
  <2>1. /\ MostBoots' = MostBoots
        /\ backup'.cumulative = backup.cumulative
        /\ backup'.consecutive = backup.consecutive
    BY <1>2, <1>b DEF DecodeReason, SetReason, ConsumeMarker, TypeOK, Backup
  <2>2. /\ pc \in {"decode", "reason", "consume"}
        /\ pc' \in {"reason", "consume", "consecutive"}
    BY <1>2 DEF DecodeReason, SetReason, ConsumeMarker
  <2>3. QED
    BY <2>1, <2>2 DEF BeforeStart
<1>3. CASE CountConsecutive
  <2>1. /\ MostBoots' = MostBoots /\ pc = "consecutive" /\ pc' = "cumulative"
        /\ backup'.cumulative = backup.cumulative
    BY <1>3, <1>b DEF CountConsecutive, TypeOK, Backup, History
  <2>2. \/ backup'.consecutive = backup.consecutive
        \/ backup'.consecutive = (backup.consecutive + 1) % CountModulus
    BY <1>3 DEF CountConsecutive, TypeOK, Backup
  <2>3. (backup.consecutive + 1) % CountModulus <= backup.consecutive + 1
        /\ (backup.consecutive + 1) % CountModulus \in Nat
    BY <1>a, CountInRange DEF Count
  <2>4. backup.consecutive < MostBoots /\ backup.cumulative < MostBoots
    BY <2>1 DEF BeforeStart
  <2>5. backup'.consecutive <= MostBoots
    BY <1>a, <2>2, <2>3, <2>4
  <2>6. QED
    BY <1>a, <2>1, <2>4, <2>5
<1>4. CASE CountCumulative
  <2>1. /\ MostBoots' = MostBoots /\ pc = "cumulative" /\ pc' = "decide"
        /\ backup'.consecutive = backup.consecutive
        /\ backup'.cumulative = (backup.cumulative + 1) % CountModulus
    BY <1>4, <1>b DEF CountCumulative, TypeOK, Backup
  <2>2. (backup.cumulative + 1) % CountModulus <= backup.cumulative + 1
        /\ (backup.cumulative + 1) % CountModulus \in Nat
    BY <1>a, CountInRange DEF Count
  <2>3. backup.cumulative < MostBoots
    BY <2>1 DEF BeforeStart
  <2>4. backup'.cumulative <= MostBoots
    BY <1>a, <2>1, <2>2, <2>3
  <2>5. QED
    BY <2>1, <2>4
<1>5. CASE Decide \/ SetPhase \/ Tick \/ MarkCommanded
  <2>1. /\ MostBoots' = MostBoots
        /\ backup'.cumulative = backup.cumulative
        /\ backup'.consecutive = backup.consecutive
    BY <1>5, <1>b DEF Decide, SetPhase, Tick, MarkCommanded, TypeOK, Backup,
       History
  <2>2. pc' \in {"phase", "running", "commandedReset"}
    BY <1>5 DEF Decide, SetPhase, Tick, MarkCommanded
  <2>3. QED
    BY <2>1, <2>2 DEF BeforeStart
<1>6. CASE MarkRetry
  <2>1. /\ MostBoots' = MostBoots /\ pc' = "retryReset" /\ seen' = seen
        /\ backup'.cumulative = backup.cumulative
        /\ backup'.consecutive = backup.consecutive
    BY <1>6, <1>b DEF MarkRetry, TypeOK, Backup
  <2>2. seen.cause # "retry"
    BY <1>6 DEF MarkRetry, RetryDue, BootInv, RetryPath, Decided
  <2>3. QED
    BY <2>1, <2>2 DEF BeforeStart
<1>7. CASE ClearConsecutive \/ RebootCommand
  <2>1. /\ MostBoots' = MostBoots /\ backup'.consecutive = 0
        /\ backup'.cumulative = backup.cumulative \/ backup'.cumulative = 0
        /\ pc' \in {"running", "markCommanded"}
    <3>1. seen'.resets = seen.resets /\ seen'.cause = seen.cause
      BY <1>7 DEF NoFaults, ClearConsecutive, RebootCommand, TypeOK, History
    <3>2. /\ backup'.consecutive = 0
          /\ backup'.cumulative = backup.cumulative \/ backup'.cumulative = 0
      BY <1>7 DEF ClearConsecutive, RebootCommand, Reinitialised, TypeOK, Backup
    <3>3. QED
      BY <1>7, <1>b, <3>1, <3>2 DEF ClearConsecutive, RebootCommand
  <2>2. QED
    BY <1>a, <2>1 DEF BeforeStart
<1>8. CASE DeliberateReset \/ ResetFromOutside \/ FaultHook
  <2>1. PICK cause \in Cause, env \in BOOLEAN :
          /\ ResetBy(cause, env)
          /\ IF env THEN cause \in ResetKinds
             ELSE cause = IF pc = "retryReset" THEN "retry" ELSE "commanded"
          /\ ~ env => pc \in {"retryReset", "commandedReset"}
    BY <1>8, EveryReset
  <2>2. /\ pc' = "read" /\ backup'.cumulative = backup.cumulative
        /\ backup'.consecutive = backup.consecutive
    BY <2>1 DEF ResetBy
  <2>3. CASE env
    <3>1. seen'.resets = seen.resets + 1
      BY <2>1, <2>3 DEF ResetBy
    <3>2. MostBoots < MostBoots'
      BY <1>a, <3>1 DEF MostBoots
    <3>3. MostBoots' \in Nat
      BY <1>a, <3>1 DEF MostBoots
    <3>4. QED
      BY <1>a, <2>2, <3>2, <3>3
  <2>4. CASE ~ env /\ pc = "retryReset"
    <3>1. seen'.cause = "retry" /\ seen'.resets = seen.resets
          /\ seen.cause # "retry"
      BY <2>1, <2>4 DEF ResetBy
    <3>2. MostBoots' = MostBoots + 1
      BY <1>a, <3>1 DEF MostBoots
    <3>3. QED
      BY <1>a, <2>2, <3>2
  <2>5. CASE ~ env /\ pc = "commandedReset"
    <3>1. backup'.cumulative = 0 /\ backup'.consecutive = 0
      BY <2>2, <2>5 DEF BootInv, CommandPath, CountsClear
    <3>2. seen'.resets = seen.resets
      BY <2>1, <2>5 DEF ResetBy
    <3>3. MostBoots' \in Nat \ {0}
      BY <1>a, <3>2 DEF MostBoots
    <3>4. QED
      BY <2>2, <3>1, <3>3
  <2>6. QED
    BY <2>1, <2>3, <2>4, <2>5
<1>9. CASE UNCHANGED vars
  BY <1>9 DEF vars, MostBoots
<1>10. QED
  BY <1>1, <1>2, <1>3, <1>4, <1>5, <1>6, <1>7, <1>8, <1>9 DEF Next, System

LEMMA CountInvHolds == Spec /\ []NoWrap => []CountInv
  BY CountInvInit, CountInvStep, BootInvHolds, PTL DEF Spec

\* As long as no count wraps, as many boots that ended in a fault as the
\* threshold lead to the reduced configuration, whatever other resets fall
\* between them; not counting the faults behind the marker of a deliberate
\* reset and those whose cause was lost before setup() had counted it.
\* (updateCountersAndDecideConfiguration().)
THEOREM StreakReduces == Spec /\ []NoWrap => []FaultStreakReduces
<1>1. CountInv => FaultStreakReduces
  BY DEF CountInv, StreakPath
<1>2. QED
  BY <1>1, CountInvHolds, PTL

\* As long as no count wraps, every boot from the cumulative threshold on runs
\* reduced, but for the one the automatic retry asked for.  (The same.)
THEOREM ManyBootsReduce == Spec /\ []NoWrap => []ManyResetsReduce
<1>1. CountInv => ManyResetsReduce
  BY DEF CountInv, BootsPath
<1>2. QED
  BY <1>1, CountInvHolds, PTL

\* No count wraps while the board is reset from outside fewer times than half
\* the width of a count, however many retries and commands fall between: the
\* retry never follows itself, and a command clears both counts.
THEOREM FewResetsNeverWrap ==
  2 * MaxResets + 2 < CountModulus => (Spec => []NoWrap)
<1> SUFFICES ASSUME 2 * MaxResets + 2 < CountModulus PROVE Spec => []NoWrap
  OBVIOUS
<1>1. TypeOK /\ CountBound => NoWrap
  <2> SUFFICES ASSUME TypeOK, CountBound PROVE NoWrap
    OBVIOUS
  <2>1. /\ seen.resets \in 0 .. MaxResets /\ MaxResets \in Nat
        /\ CountModulus \in Nat
        /\ backup.cumulative \in Nat /\ backup.consecutive \in Nat
    BY RecoveryAssumption DEF TypeOK, History, Backup, Count
  <2>2. MostBoots \in Nat /\ MostBoots <= CountModulus - 1
    BY <2>1 DEF MostBoots
  <2>3. /\ pc = "consecutive" => backup.consecutive < MostBoots
        /\ pc = "cumulative" => backup.cumulative < MostBoots
    BY DEF CountBound, BeforeStart
  <2>4. QED
    BY <2>1, <2>2, <2>3 DEF NoWrap
<1>2. TypeOK /\ BootInv /\ CountBound /\ [Next]_vars => CountBound'
  BY BoundStep
<1>3. QED
  BY <1>1, <1>2, BoundInit, BootInvHolds, PTL DEF Spec

=============================================================================
