---------------------------- MODULE BootRecovery ----------------------------
(***************************************************************************)
(* How the firmware survives its own faults: the decision setup() takes    *)
(* from the battery-backed block of src/recovery.cpp, what the block's     *)
(* counters and markers go through while the board runs, and every way a   *)
(* boot can end.                                                           *)
(*                                                                         *)
(* Each write to the backup registers is a step, so that a reset can fall  *)
(* between any two; a reset that falls inside one leaves a block whose     *)
(* checksum does not match.                                                *)
(***************************************************************************)
EXTENDS Integers

CONSTANTS
  ConsecutiveThreshold,  \* CONSECUTIVE_THRESHOLD
  CumulativeThreshold,   \* CUMULATIVE_THRESHOLD
  CountModulus,          \* the counts are uint8_t: 256
  StabilityWindow,       \* STABILITY_WINDOW_MS, in ticks of the model
  RetryInterval,         \* RETRY_INTERVAL_MS, in ticks of the model
  Tasks,                 \* the names a fault hook may record
  NoTask,                \* an empty name
  Resets,                \* the resets the environment may cause
  MaxResets              \* bound: how many of them a behaviour contains

ResetKinds  == {"powerOn", "lowVoltage", "pin", "watchdog", "hook", "upload"}
FaultResets == {"watchdog", "hook"}

\* BootPhase, in the order setup() reaches them, and the two fault markers.
SchedulerStarted == 6
StackOverflow    == 7
MallocFailed     == 8
FaultPhases      == {StackOverflow, MallocFailed}
TasksDone        == 5

ASSUME RecoveryAssumption ==
  /\ ConsecutiveThreshold \in Nat \ {0}
  /\ CumulativeThreshold \in Nat /\ CumulativeThreshold > 1
  /\ CountModulus \in Nat /\ CountModulus > CumulativeThreshold
  /\ StabilityWindow \in Nat \ {0}
  /\ RetryInterval \in Nat /\ StabilityWindow <= RetryInterval
  /\ NoTask \notin Tasks
  /\ Resets \subseteq ResetKinds
  /\ MaxResets \in Nat

VARIABLES
  backup,     \* VBTBKR[4..26], kept through every reset
  flags,      \* the cause flags of RSTSR0 and RSTSR1 that are set
  pc,         \* where setup() or TaskMavlink is
  ram,        \* what setup() has read and decided in this boot
  progress,   \* how many milestones setPhase() has recorded in this boot
  elapsed,    \* ticks since TaskMavlink started
  cleared,    \* stabilityCleared
  seen        \* history: what the properties compare with

vars == <<backup, flags, pc, ram, progress, elapsed, cleared, seen>>

Count == 0 .. CountModulus - 1

Marker == {"none", "commanded", "retry"}

Reason == {"powerOn", "lowVoltage", "watchdog", "software", "unknown",
           "invalid"}

Backup == [valid : BOOLEAN, consecutive : Count, cumulative : Count,
           snapshot : Count, phase : 0 .. MallocFailed, reason : Reason,
           deliberate : Marker, task : Tasks \cup {NoTask}]

Flag == {"powerOn", "lowVoltage", "watchdog", "software"}

Ram == [invalid : BOOLEAN, phase : 0 .. MallocFailed,
        task : Tasks \cup {NoTask}, reason : Reason, marker : Marker,
        reduced : BOOLEAN]

Cause == ResetKinds \cup {"commanded", "retry"}

\* resets: those of the environment so far; cause: of the last reset;
\* faults: the resets a fault caused since the consecutive count was last
\* cleared, of which masked fell behind the marker of a deliberate reset and
\* forgotten lost their cause to a further reset; pending: the cause of a
\* fault is still to be decoded or counted; boots: since the counts were last
\* cleared, capped; calm: ticks since the reduced configuration was entered.
History == [resets : 0 .. MaxResets, cause : Cause, faults : Nat,
            masked : Nat, forgotten : Nat, pending : BOOLEAN,
            boots : 0 .. CumulativeThreshold,
            reducedBefore : BOOLEAN, calm : 0 .. RetryInterval,
            startedBefore : BOOLEAN, fault : {0} \cup FaultPhases,
            task : Tasks \cup {NoTask}]

\* reinitialise(): every field zero, the magic and the checksum fresh.
Reinitialised == [valid |-> TRUE, consecutive |-> 0, cumulative |-> 0,
                  snapshot |-> 0, phase |-> 0, reason |-> "powerOn",
                  deliberate |-> "none", task |-> NoTask]

\* What setup() knows before it has run.
NothingRead == [invalid |-> FALSE, phase |-> 0, task |-> NoTask,
                reason |-> "powerOn", marker |-> "none", reduced |-> FALSE]

(***************************************************************************)
(* The first boot after flashing: the block has never been written.        *)
(***************************************************************************)
Init ==
  /\ backup = [Reinitialised EXCEPT !.valid = FALSE]
  /\ flags = {"powerOn"}
  /\ pc = "read"
  /\ ram = NothingRead
  /\ progress = 0
  /\ elapsed = 0
  /\ cleared = FALSE
  /\ seen = [resets |-> 0, cause |-> "powerOn", faults |-> 0, masked |-> 0,
             forgotten |-> 0, pending |-> FALSE, boots |-> 0,
             reducedBefore |-> FALSE, calm |-> RetryInterval,
             startedBefore |-> FALSE, fault |-> 0, task |-> NoTask]

\* The history starts over when the consecutive count is cleared.
NoFaults == [seen EXCEPT !.faults = 0, !.masked = 0, !.forgotten = 0]

-----------------------------------------------------------------------------
(***************************************************************************)
(* setup()                                                                 *)
(***************************************************************************)

\* getPhase() and getFaultTask(), then reinitialise() if the block is invalid.
ReadPrevious ==
  /\ pc = "read"
  /\ ram' = [ram EXCEPT !.invalid = ~ backup.valid,
                        !.phase = IF backup.valid THEN backup.phase ELSE 0,
                        !.task = IF backup.valid THEN backup.task ELSE NoTask]
  /\ backup' = IF backup.valid THEN backup ELSE Reinitialised
  /\ seen' = IF backup.valid THEN seen
             ELSE [NoFaults EXCEPT !.pending = FALSE, !.boots = 0,
                                   !.calm = RetryInterval]
  /\ pc' = "decode"
  /\ UNCHANGED <<flags, progress, elapsed, cleared>>

\* decodeAndClearResetReason(): the first flag in this order wins, all go.
Decoded ==
  IF "watchdog" \in flags THEN "watchdog"
  ELSE IF "software" \in flags THEN "software"
  ELSE IF "lowVoltage" \in flags THEN "lowVoltage"
  ELSE IF "powerOn" \in flags THEN "powerOn"
  ELSE "unknown"

\* Mutation of DecodeReason: the flags are read and not cleared.
MutDecodeReason ==
  /\ pc = "decode"
  /\ ram' = [ram EXCEPT !.reason = IF ram.invalid THEN "invalid" ELSE Decoded]
  /\ pc' = "reason"
  /\ UNCHANGED <<backup, flags, progress, elapsed, cleared, seen>>

DecodeReason ==
  /\ pc = "decode"
  /\ ram' = [ram EXCEPT !.reason = IF ram.invalid THEN "invalid" ELSE Decoded]
  /\ flags' = {}
  /\ pc' = "reason"
  /\ UNCHANGED <<backup, progress, elapsed, cleared, seen>>

SetReason ==
  /\ pc = "reason"
  /\ backup' = [backup EXCEPT !.reason = ram.reason]
  /\ pc' = "consume"
  /\ UNCHANGED <<flags, ram, progress, elapsed, cleared, seen>>

\* consumeDeliberateReset()
ConsumeMarker ==
  /\ pc = "consume"
  /\ ram' = [ram EXCEPT !.marker = backup.deliberate]
  /\ backup' = [backup EXCEPT !.deliberate = "none"]
  /\ pc' = "consecutive"
  /\ UNCHANGED <<flags, progress, elapsed, cleared, seen>>

\* Mutation of AdvancesConsecutive: the resets of the fault hooks do not count.
MutAdvancesConsecutive == ram.reason = "watchdog" /\ ram.marker = "none"

\* Whether this boot is evidence of a fault.
AdvancesConsecutive ==
  ram.reason \in {"watchdog", "software"} /\ ram.marker = "none"

Cap(n, top) == IF n < top THEN n ELSE top

CountConsecutive ==
  /\ pc = "consecutive"
  /\ backup' = IF AdvancesConsecutive
               THEN [backup EXCEPT !.consecutive = (@ + 1) % CountModulus]
               ELSE backup
  /\ pc' = "cumulative"
  /\ UNCHANGED <<flags, ram, progress, elapsed, cleared, seen>>

CountCumulative ==
  /\ pc = "cumulative"
  /\ backup' = [backup EXCEPT !.cumulative = (@ + 1) % CountModulus]
  /\ pc' = "decide"
  /\ UNCHANGED <<flags, ram, progress, elapsed, cleared, seen>>

OverThreshold == \/ backup.consecutive >= ConsecutiveThreshold
                 \/ backup.cumulative >= CumulativeThreshold

\* Mutation of RetrySucceeds: the retry's own reset is held against it.
MutRetrySucceeds == ram.marker = "retry" /\ backup.cumulative <= backup.snapshot

\* Only the retry's own reset grew the count since it was snapshotted.
RetrySucceeds == ram.marker = "retry" /\ backup.cumulative <= backup.snapshot + 1

StartReduced == OverThreshold /\ ~ RetrySucceeds

Decide ==
  /\ pc = "decide"
  /\ ram' = [ram EXCEPT !.reduced = StartReduced]
  /\ backup' = IF StartReduced
               THEN [backup EXCEPT !.snapshot = backup.cumulative]
               ELSE backup
  /\ seen' = [seen EXCEPT !.boots = Cap(@ + 1, CumulativeThreshold)]
  /\ pc' = "phase"
  /\ UNCHANGED <<flags, progress, elapsed, cleared>>

\* Mutations of SetPhase: one milestone too many; Start not recorded.
MutSetPhaseLast ==
  /\ pc = "phase"
  /\ backup' = [backup EXCEPT !.phase = progress]
  /\ progress' = progress + 1
  /\ pc' = IF progress > SchedulerStarted THEN "running" ELSE "phase"
  /\ UNCHANGED <<flags, ram, elapsed, cleared, seen>>

MutSetPhaseStart ==
  /\ pc = "phase"
  /\ backup' = IF progress = 0 THEN backup ELSE [backup EXCEPT !.phase = progress]
  /\ progress' = progress + 1
  /\ pc' = IF progress = SchedulerStarted THEN "running" ELSE "phase"
  /\ UNCHANGED <<flags, ram, elapsed, cleared, seen>>

\* setPhase() at each milestone; after the last one the scheduler runs.
SetPhase ==
  /\ pc = "phase"
  /\ backup' = [backup EXCEPT !.phase = progress]
  /\ progress' = progress + 1
  /\ seen' = IF progress = 0 /\ ram.reduced /\ ~ seen.reducedBefore
             THEN [seen EXCEPT !.calm = 0] ELSE seen
  /\ pc' = IF progress = SchedulerStarted THEN "running" ELSE "phase"
  /\ UNCHANGED <<flags, ram, elapsed, cleared>>

-----------------------------------------------------------------------------
(***************************************************************************)
(* TaskMavlink                                                             *)
(***************************************************************************)

StabilityDue == ~ cleared /\ elapsed >= StabilityWindow

\* Mutation of RetryDue: a boot that has become stable is left alone.
MutRetryDue == ram.reduced /\ ~ cleared /\ elapsed >= RetryInterval

RetryDue == ram.reduced /\ elapsed >= RetryInterval

\* Mutation of ClearConsecutive: a stable boot clears both counts.
MutClearConsecutive ==
  /\ pc = "running"
  /\ StabilityDue
  /\ backup' = [backup EXCEPT !.consecutive = 0, !.cumulative = 0]
  /\ cleared' = TRUE
  /\ seen' = NoFaults
  /\ UNCHANGED <<flags, pc, ram, progress, elapsed>>

\* A boot that has run this long is stable.
ClearConsecutive ==
  /\ pc = "running"
  /\ StabilityDue
  /\ backup' = [backup EXCEPT !.consecutive = 0]
  /\ cleared' = TRUE
  /\ seen' = NoFaults
  /\ UNCHANGED <<flags, pc, ram, progress, elapsed>>

\* The automatic retry, later in the same pass: mark the reset, then reset.
MarkRetry ==
  /\ pc = "running"
  /\ RetryDue /\ ~ StabilityDue
  /\ backup' = [backup EXCEPT !.deliberate = "retry"]
  /\ pc' = "retryReset"
  /\ UNCHANGED <<flags, ram, progress, elapsed, cleared, seen>>

\* MAV_CMD_PREFLIGHT_REBOOT_SHUTDOWN: clear the block, mark, wait 50 ms, reset.
RebootCommand ==
  /\ pc = "running"
  /\ backup' = Reinitialised
  /\ seen' = [NoFaults EXCEPT !.boots = 0, !.calm = RetryInterval]
  /\ pc' = "markCommanded"
  /\ UNCHANGED <<flags, ram, progress, elapsed, cleared>>

\* Mutation of MarkCommanded: the block is cleared after the mark, not before.
MutMarkCommanded ==
  /\ pc = "markCommanded"
  /\ backup' = Reinitialised
  /\ pc' = "commandedReset"
  /\ UNCHANGED <<flags, ram, progress, elapsed, cleared, seen>>

MarkCommanded ==
  /\ pc = "markCommanded"
  /\ backup' = [backup EXCEPT !.deliberate = "commanded"]
  /\ pc' = "commandedReset"
  /\ UNCHANGED <<flags, ram, progress, elapsed, cleared, seen>>

\* Time passes; TaskMavlink wakes often enough that what is due is done first.
Tick ==
  /\ pc = "running"
  /\ elapsed < RetryInterval
  /\ ~ StabilityDue
  /\ elapsed' = elapsed + 1
  /\ seen' = [seen EXCEPT !.calm = Cap(@ + 1, RetryInterval)]
  /\ UNCHANGED <<backup, flags, pc, ram, progress, cleared>>

-----------------------------------------------------------------------------
(***************************************************************************)
(* How a boot ends                                                         *)
(***************************************************************************)

\* The board starts again from setup(), for the given cause.
Restart(cause) ==
  /\ flags' = CASE cause = "powerOn" -> {"powerOn"}
                [] cause = "lowVoltage" -> flags \cup {"lowVoltage"}
                [] cause = "pin" -> flags
                [] cause = "watchdog" -> flags \cup {"watchdog"}
                [] cause \in {"hook", "upload", "commanded", "retry"}
                     -> flags \cup {"software"}
  /\ pc' = "read"
  /\ ram' = NothingRead
  /\ progress' = 0
  /\ elapsed' = 0
  /\ cleared' = FALSE

\* The marker of a deliberate reset is in the block when a fault resets the
\* board: the next boot will not tell the two apart.
Masks(cause) == cause \in FaultResets /\ backup.deliberate # "none"

\* A reset that takes with it the cause of the fault before it: setup() has
\* cleared the flags and has not counted yet, or a power cycle clears them.
Forgets(cause) ==
  /\ seen.pending
  /\ \/ pc \in {"reason", "consume", "consecutive"}
     \/ pc \in {"read", "decode"} /\ cause = "powerOn"

\* The cause of a fault, this reset's or an earlier one's, is in the flags.
Awaits(cause) ==
  \/ cause \in FaultResets /\ ~ Masks(cause)
  \/ seen.pending /\ pc \in {"read", "decode"} /\ cause # "powerOn"

\* History kept across a restart.
Remember(cause, env) ==
  [seen EXCEPT !.resets = IF env THEN @ + 1 ELSE @,
               !.cause = cause,
               !.faults = IF cause \in FaultResets THEN @ + 1 ELSE @,
               !.masked = IF Masks(cause) THEN @ + 1 ELSE @,
               !.forgotten = IF Forgets(cause) THEN @ + 1 ELSE @,
               !.pending = Awaits(cause),
               !.reducedBefore = IF pc \in {"phase", "running", "markCommanded",
                                            "retryReset", "commandedReset"}
                                 THEN ram.reduced ELSE @,
               !.startedBefore = progress > 0]

DeliberateReset ==
  /\ pc \in {"retryReset", "commandedReset"}
  /\ LET cause == IF pc = "retryReset" THEN "retry" ELSE "commanded" IN
       /\ Restart(cause)
       /\ seen' = Remember(cause, FALSE)
  /\ UNCHANGED backup

\* Where a write to the block is being made, be it by a fault hook: a reset
\* inside one leaves it invalid (the checksum follows the field it covers).
Writing ==
  \/ pc = "read" /\ ~ backup.valid
  \/ pc = "consume" /\ backup.deliberate # "none"
  \/ pc = "consecutive" /\ AdvancesConsecutive
  \/ pc = "decide" /\ StartReduced
  \/ pc \in {"reason", "cumulative", "phase", "running", "markCommanded",
             "retryReset", "commandedReset"}

\* The watchdog counts from R_WDT_Open(), after TasksDone.
WatchdogRuns == \/ pc = "phase" /\ progress > TasksDone
                \/ pc \in {"running", "markCommanded", "retryReset",
                           "commandedReset"}

\* Power fails, the pin is pulled, no task yields until the watchdog bites, or
\* the idle hook jumps to the bootloader for an upload.  The block may not
\* outlast a power cycle.
ResetFromOutside ==
  /\ seen.resets < MaxResets
  /\ \E cause \in Resets \ {"hook"}, lost \in BOOLEAN :
       /\ cause = "watchdog" => WatchdogRuns
       /\ cause = "upload" => pc \in {"running", "commandedReset"} /\ ~ lost
       /\ lost => Writing \/ cause = "powerOn"
       /\ Restart(cause)
       /\ seen' = Remember(cause, TRUE)
       /\ backup' = IF lost THEN [backup EXCEPT !.valid = FALSE] ELSE backup

\* A fault hook records the fault and the task, and resets.  The allocator's
\* may fire from setup() once the links come up; the stack check needs tasks.
FaultHook ==
  /\ seen.resets < MaxResets
  /\ "hook" \in Resets
  /\ \E kind \in FaultPhases, task \in Tasks :
       /\ \/ pc \in {"running", "markCommanded", "retryReset", "commandedReset"}
          \/ kind = MallocFailed /\ pc = "phase" /\ progress > 0
       /\ backup' = [backup EXCEPT !.phase = kind, !.task = task]
       /\ seen' = [Remember("hook", TRUE) EXCEPT !.fault = kind, !.task = task]
  /\ Restart("hook")

System ==
  \/ ReadPrevious
  \/ DecodeReason
  \/ SetReason
  \/ ConsumeMarker
  \/ CountConsecutive
  \/ CountCumulative
  \/ Decide
  \/ SetPhase
  \/ ClearConsecutive
  \/ MarkRetry
  \/ MarkCommanded
  \/ Tick
  \/ DeliberateReset

Next == System \/ RebootCommand \/ ResetFromOutside \/ FaultHook

Spec == Init /\ [][Next]_vars

\* setup() runs through, TaskMavlink wakes at least once a second, time passes.
FairSpec == Spec /\ WF_vars(System)

-----------------------------------------------------------------------------
(***************************************************************************)
(* Properties                                                              *)
(***************************************************************************)

\* Where setup() has not recorded a milestone yet.
BeforeStart == {"read", "decode", "reason", "consume", "consecutive",
                "cumulative", "decide"}

Phases == BeforeStart \cup {"phase", "running", "markCommanded", "retryReset",
                            "commandedReset"}

\* Where the configuration of this boot has been decided and the counts stand.
Decided == pc = "phase" \/ pc = "running"

\* The type of every variable.
TypeOK ==
  /\ backup \in Backup
  /\ flags \subseteq Flag
  /\ pc \in Phases
  /\ ram \in Ram
  /\ progress \in 0 .. SchedulerStarted + 1
  /\ pc \in BeforeStart => progress = 0
  /\ pc = "phase" => progress <= SchedulerStarted
  /\ elapsed \in 0 .. RetryInterval
  /\ cleared \in BOOLEAN
  /\ seen \in History

\* When as many boots as the threshold were ended by a fault since the count
\* was last cleared, whatever other resets fall between them, the boot runs
\* reduced; but a fault does not count that fell behind the marker of a
\* deliberate reset, nor one whose cause a further reset took with it.
\* (updateCountersAndDecideConfiguration(), the stability window.)
FaultStreakReduces ==
  Decided /\ seen.faults >= ConsecutiveThreshold + seen.masked + seen.forgotten
    => ram.reduced

\* As openspec/specs/fault-recovery/spec.md:113-121 has it: a deliberate reset
\* is distinguishable from one that follows a fault, and three faults with no
\* stable boot among them lead to the reduced configuration, whatever other
\* resets fall between.  (decodeAndClearResetReason(), which clears the flags
\* before the count; the 50 ms after setDeliberateReset().)
EveryFaultCounts ==
  Decided /\ seen.faults >= ConsecutiveThreshold => ram.reduced

\* Faults that come after stability are caught too: from the threshold on,
\* every boot since the counts were last cleared runs reduced, except the one
\* the automatic retry asked for.  (the cumulative count.)
ManyResetsReduce ==
  Decided /\ seen.boots = CumulativeThreshold /\ ram.marker # "retry"
    => ram.reduced

\* A reboot command that was carried out leads to the normal configuration
\* with the counts cleared, whatever the block held before.
\* (MAV_CMD_PREFLIGHT_REBOOT_SHUTDOWN.)
CommandReturnsToNormal ==
  Decided /\ seen.cause = "commanded" =>
    /\ ~ ram.reduced
    /\ backup.consecutive = 0
    /\ backup.cumulative = 1

\* The boot the automatic retry asked for starts normal, however large the
\* counts have grown and however often the board was reset while it was reduced.
\* (The snapshot of updateCountersAndDecideConfiguration().)
RetryGetsItsChance ==
  Decided /\ seen.cause = "retry" => ~ ram.reduced

\* A boot reports a fault, with its kind and its task, exactly when the
\* previous boot ended in a fault hook: an old fault is not repeated and a new
\* one is not missed.  A block that was lost, or a boot that ended before its
\* first milestone, leaves nothing to compare with.  (recordFault(), setPhase().)
FaultReportIsTrue ==
  pc # "read" /\ ~ ram.invalid =>
    /\ seen.cause = "hook" => ram.phase = seen.fault /\ ram.task = seen.task
    /\ seen.startedBefore /\ seen.cause # "hook" => ram.phase \notin FaultPhases

\* As openspec/specs/fault-recovery/spec.md:92-97 has it: a boot after a reset
\* for another reason does not repeat the earlier fault or its task, however
\* early in the boot between the two that reset came.  (getPhase(), setPhase().)
OldFaultNotRepeated ==
  pc # "read" /\ ~ ram.invalid /\ seen.cause # "hook"
    => ram.phase \notin FaultPhases

ReasonOf(cause) ==
  CASE cause \in {"powerOn", "lowVoltage", "watchdog"} -> cause
    [] cause = "pin" -> "unknown"
    [] cause \in {"hook", "upload", "commanded", "retry"} -> "software"

\* A boot reports the cause of its own reset and not one left over from an
\* earlier boot, unless the boot before it ended before it had read its own.
\* (decodeAndClearResetReason().)
CauseIsKnown ==
  pc \notin {"read", "decode"} /\ ~ ram.invalid /\ seen.startedBefore
    => ram.reason = ReasonOf(seen.cause)

\* A board in the reduced configuration whose faults have stopped returns to
\* the normal one without a command.  (The automatic retry of TaskMavlink.)
LeavesReducedOnItsOwn ==
  (pc = "running" /\ ram.reduced) ~> (pc = "running" /\ ~ ram.reduced)

\* As openspec/specs/fault-recovery/spec.md:265 has it: the interval between
\* successive entries into the reduced configuration is at least the retry
\* interval, here without a command or a lost block between the two.
\* (updateCountersAndDecideConfiguration(), the stability window.)
EntriesAreSpaced ==
  [][seen'.calm = 0 /\ seen.calm # 0 => seen.calm = RetryInterval]_vars
=============================================================================
