# BoredomOS: a verification project

BoredomOS is the flight firmware of a small satellite on an Arduino Uno R4 (RA4M1,
FreeRTOS, everything allocated statically). It logs to an SD card, talks MAVLink on
a UART and on USB, keeps time from a battery-backed clock, and counts its own
resets so that a board that keeps failing comes up in a reduced configuration the
ground can still command. This directory holds TLA+ models of the parts of it that
are hard to test, the TLC configurations that check them on small instances, and
proofs, checked by TLAPS, that hold for every value of the constants.

Paths are relative to the root of the repository. `spec` stands for
`openspec/specs/<name>/spec.md`.

## 1. Inventory

| Component | Code | State | Operations | Hard behaviour | What makes it correct |
|---|---|---|---|---|---|
| Log ring | `lib/SdData` | `_fileIdx`, `_sinceFlush`, the open file; on the card `data<i>.BIN` and `index.bin` | `begin`, `write`, `writeRaw`, `openNextSlot`, `setOnOpen` | power cut between any two writes to the card; lost index; a remove or an open that fails | no file mixes two laps; the newest file is resumed; loss below one flush interval; a file can be read on its own |
| Boot decision | `src/main.cpp`, `src/recovery.cpp`, `src/hooks.cpp`, the end of `TaskMavlink` | 23 bytes of `VBTBKR`, the reset flags, `reducedConfiguration` | read the previous boot, decode the cause, count, decide, set phases; clear on stability; retry; commanded reboot; fault hooks | reset between any two writes; counts at their limits; the order of mark and reset | repeated faults lead to reduced; a command and the retry lead out; a boot reports its own cause |
| Backup block | `src/recovery.cpp` | magic, checksum, 21 bytes | `writeByte`, `reinitialise`, `recordFault`, the getters | a reader or an interrupt between the byte and its checksum | a reader never takes a half-written block for a lost one |
| System clock | `lib/SystemTime` | `_bootEpoch`, `_source`, the RTCs | `begin`, `setUnixTime`, `getUnixTime`, `sinceBootUsec` | re-anchoring the epoch while other tasks read it | time since boot is monotonic and is not changed by setting the clock |
| SD writer, log download | `src/sdwrite.cpp` | the cursor of a listing and of a stream, the port that owns it | list, stream, cancel, flush a record, rotation notices | records, requests and rotations in one queue, filled by three tasks | the stream ends, holds what was asked for, and costs no record |
| MAVLink task | `src/mavlink.cpp` | the schedule per port, counters, parameters | dispatch of each request, periodic messages, commands | one task serves two ports; catch-up after a stall; narrowing of floats | each request is answered on its port; schedules keep their rate |
| Link tasks | `src/link.cpp` | parser state per port, the write queues | read and parse, write and drop | bounded queues, non-blocking sends | a stalled port does not stop the other |
| Logger | `src/logger.cpp` | its wake time | one record of each kind per period | drops when the queue is full | records are in order |
| Battery | `lib/Battery` | none | sample and convert | none | a formula |

How they interact. Seven tasks share four queues and some volatile state. The
readers of the two links post parsed messages to `linkReadQueue` (8); `TaskMavlink`
handles them, posts replies to the port's write queue (9 each) and requests for the
log to `sdWriteQueue` (6), which `TaskLogger` fills with records; `TaskSdWrite`
empties it into the log ring and posts log data back to the write queues. Every send
is non-blocking and drops when the queue is full. `TaskMavlink` is the only task
that runs in both configurations and the only one that touches the backup block
after boot, apart from the fault hooks. The ring calls back into the writer for the
preamble of each file it opens.

What is hard, and to which property it leads, is listed line by line under `hazards`
in `PROJECT.json`.

## 2. Plan

In this order, the most important behaviour first:

1. `LogRing`, with the abstract `RecycledLog`, `LogRingProofs` and
   `LogRingRefinement`. **Done.**
2. `BootRecovery` with `BootRecoveryProofs`. **Done.**
3. `LogDownload` with `LogDownloadProofs` and `LogDownloadDelivery`. **Done.**
4. `SystemClock` with `SystemClockProofs`. **Done.**
5. `BackupBlock`, the bytes of the block, with the abstract `AtomicBlock` and
   `BackupBlockProofs`. **Done.**
6. `MavlinkTask`, the dispatch, the schedule and `linkReadQueue`, with
   `MavlinkTaskProofs`. **Done.** The readers of the links are one action of it, as
   nothing else of a port is shared.

Left: the counts that each `LOG_ENTRY` carries (they change within one listing when
the first lap rotates, against `spec` flight-log:261) and a card that fails to open a
new slot during a download; the `TIME` record of a new file, which reads the time
since boot, the time and the source one after the other; a reading of the RTC that
fails.

Abstract specifications: `RecycledLog` for the ring and `AtomicBlock` for the backup
block, both there.

Every invariant, and every property of a step, that a passing run checks is now a
theorem, and so are both refinements. Theorems worth proving next: a composition of
`MavlinkTask` and `LogDownload` that bounds what a port's queue refuses; what is still
true of the order of the files when the index is lost with every slot full.

## 3. The log ring

### Model

`LogRing` has one action for each write the code makes to the card, so that
`PowerCut` falls between any two of them.

| Action | Code |
|---|---|
| `Begin` | `SdData::begin()` up to its first write: `readLogIndex()`, the walk over `slotIsFull()` |
| `CloseFull`, `RemoveOldest`, `WriteLogIndex`, `OpenSlot` | the four steps of `openNextSlot()`; the last two are also the rest of `begin()` |
| `WritePreamble` | one `writeRaw()` of `writeLogPreamble()` in `src/sdwrite.cpp` |
| `Write`, `FlushAndCheck` | `write()`: the append, then the sync and the rotation test |
| `PowerCut`, `DamageIndex` | the environment |

`present`, `size`, `items` and `index` are what the card holds; the rest is RAM and
goes with a power cut. What is appended is a stamp, so the content of a file is a
set of stamps and a lap can be recognised. `tail` is what was appended after the
last sync: the library keeps the length of the open file in memory and writes it to
the directory entry on a sync, so a cut loses the tail and nothing else.
`Faults` selects what the environment may do: `lostIndex` (the index vanishes or
names a full slot while some slot is not full), `lostIndexAllFull`, `strayIndex`
(it names another slot that is not full), `removeFails`, `openFails`.

`RecycledLog` is what the flight log promises without files: an ordered log that
loses an unsynced suffix in a cut and gives up only its oldest records. `LogRing`
implements it under `kept <- the union of all files`, `unsynced <- tail`.

### Runs

| Run | Bounds | Shows |
|---|---|---|
| `log_ring` | 3 slots of 4 units, preamble of 2 pieces, records of 1 or 2, sync every 3, 13 appends, the index damaged twice | type, `NoMixedPasses`, `UnfinishedIsNewest`, `PreambleBeforeRecords`, `LossIsBounded`, `ResumesUnfinished`, and `ImplementsRecycledLog` |
| `log_ring_faults` | 2 slots of 3 units, all faults, 9 appends | that every file keeps its preamble first on a card that disobeys; the bound on the loss is proved for that card |

Three slots are the fewest with a slot that is neither the current nor the next one;
13 appends are more than one lap (a slot takes 2 pieces of preamble and 1 or 2
records), so the second lap's rotation, resumption and deletion happen, with a cut
at each of their steps. A preamble of two pieces has an incomplete state; the code's
four add no other kind of state. The number of cuts is not bounded.

What the hypothesis on the faults is for. `spec` flight-log:204 says that no file ever
holds two passes, and that this survives damage to the index. With
`Faults = {"strayIndex"}`, 3 slots of 3 units and 14 appends, TLC finds
`NoMixedPasses` violated: an index that names an absent slot further on is believed;
the ring jumps there, leaves an unfinished file behind, and a later lap, after another
damage to the index, resumes it. A lost index, which reads as slot 0, does not do
this. The same property is violated, on the same instance, with
`Faults = {"removeFails"}`: `openNextSlot()` does not look at the result of
`SD.remove()` and appends the new lap to the old file.

### Proofs (`LogRingProofs`)

For every number and size of slots, every preamble, record length and bound:
`TypeCorrect`; `LossStaysBounded` under all faults; and, if the only fault is a lost
index (`OnlyLostIndex == Faults \subseteq {"lostIndex", "lostIndexAllFull"}`),
`NeverMixesPasses`, `UnfinishedStaysNewest` and `NeverSkipsUnfinished`.
`OnlyLostIndex` is a hypothesis of those three theorems because they do not hold
without it, as just described.

`NoMixedPasses` is not inductive. The invariant behind it says where a file that is
not full may be: only at the head, the slot that the walk from the index arrives at,
or that the code is about to open; the head's content is newer than every other
file's; and the contents of any two files do not interleave. Each action then has
one step per part. `Begin` needs the walk: the slot it finds is the only one that is
not full and present, or there is none.

`PreambleComesFirst` has no hypothesis: it holds on a card that disobeys in every way
the model knows. `PreambleInv` counts the pieces of the file that is being opened as
they are synced. That a file is opened with nothing in the cache is `LossIsBounded`:
what would be there belongs to the file before, and has been synced when it was full.

### Proof of the refinement (`LogRingRefinement`)

`RingRefinesLog == OnlyLostUnfull => (Spec => ImplementsRecycledLog)`. `RecycledLog`
gives up only its oldest records, so the file a rotation removes must be older than
all others. `AgeInv` says so by the walk around the ring from the slot after the
newest file: on that walk the files come in the order they were written (`Aged`).
Removing the first makes its slot the last (`EmptiedIsLast`), appending to the last
keeps it so (`AppendedIsLast`), and no other step changes the order. What is hard is the
restart: the head `begin()` finds need not be the one the ring stopped at, but may be
the absent slot after it, and both give the same order (`TwoHeads`); when every slot is
full the sizes say nothing and the index must still name the newest.

That is why the hypothesis is the narrower
`OnlyLostUnfull == Faults \subseteq {"lostIndex"}`: an index lost when every slot is
full (`lostIndexAllFull`) reads as slot 0, the next rotation removes slot 1 whatever its
age, and the records given up are not the oldest. `log_ring` checks the refinement
under the same fault.

## 4. The boot decision

### Model

`BootRecovery` is `setup()` from `Recovery::getPhase()` to the scheduler, the part
of `TaskMavlink` that writes the backup block, and every way a boot ends.

| Action | Code |
|---|---|
| `ReadPrevious` | `setup()`: `getPhase`, `getFaultTask`, `isValid`, `reinitialise` |
| `DecodeReason`, `SetReason` | `decodeAndClearResetReason()`, `setReason()` |
| `ConsumeMarker`, `CountConsecutive`, `CountCumulative`, `Decide` | `updateCountersAndDecideConfiguration()`, one action per write |
| `SetPhase` | the seven milestones of `setup()` |
| `ClearConsecutive`, `MarkRetry` | the end of the loop of `TaskMavlink` |
| `RebootCommand`, `MarkCommanded`, `DeliberateReset` | `MAV_CMD_PREFLIGHT_REBOOT_SHUTDOWN` |
| `FaultHook` | `vApplicationStackOverflowHook`, `vApplicationMallocFailedHook`, `recordFault` |
| `ResetFromOutside` | power, low voltage, pin, watchdog, the idle hook's jump to the bootloader |

The block is a record with a `valid` bit for magic and checksum; a reset inside a
write clears that bit, as the byte is stored before the checksum, and so may a power
cycle at any time. `BackupBlock` justifies this: a new value cut from its checksum is
always seen (`CutWriteIsSeen`), and a cut clear or fault that is believed by chance,
which is left out here, has each field old or new (`AtomicBlock`). `seen` is history:
the cause of the last reset, how many faults and boots there were since the counts
were last cleared, the fault that was recorded. No
action's guard reads it, except for `MaxResets`, the bound on resets from outside.
`elapsed` counts ticks from the start of `TaskMavlink`; only the order of
`STABILITY_WINDOW_MS` and `RETRY_INTERVAL_MS` matters to it.

### Runs

| Run | Bounds | Shows |
|---|---|---|
| `boot_recovery` | thresholds 2 and 4, counts modulo 256, stability after 1 tick, retry after 2, every kind of reset, 4 of them | type, `FaultStreakReduces`, `ManyResetsReduce`, `CommandReturnsToNormal`, `RetryGetsItsChance`, `FaultReportIsTrue`, `CauseIsKnown`; under fairness `LeavesReducedOnItsOwn` |
| `boot_streak` | the thresholds of the code, 4 resets by watchdog or pin, reboot commands | **violation** of `EveryFaultCounts` |

Four resets pass the consecutive threshold of 2 with two to spare, so that a streak
has another reset in it, or loses one of its faults and goes on; they reach the
cumulative threshold of 4, and fall at every step of a boot. Retries and commands are
not counted and not bounded. Both thresholds are lower than in the code so that they
can be passed with few resets; the violation has those of the code.

Fairness: `WF_vars(System)`, and nothing for commands, resets and hooks. `setup()`
is straight-line code; `TaskMavlink` waits on its queue for at most the time to its
next scheduled message, and a heartbeat is always scheduled, so the end of its loop
runs at least once a second; time passes.

What the history of faults is. `seen.faults` is advanced when a fault resets the board,
in `Remember`, and not by the code's own count; it starts over when the count is
cleared. The code loses some of these faults, and `Remember` says which: `masked` are
those that fell while the marker of a deliberate reset was in the block (`Masks`), and
`forgotten` those whose reset flags `setup()` had cleared and not yet counted, or a
power cycle cleared, when the next reset came (`Forgets`). `FaultStreakReduces`
discounts exactly these two, so it says that nothing else loses a fault;
`EveryFaultCounts` discounts none, and is violated.

What the violation shows. `spec` fault-recovery:120 promises that three boots in a row
that end before stability lead to the reduced configuration, and :115 that a deliberate
reset is distinguishable from one that follows a fault. A hang in the 50 ms between the
commanded marker and its reset is taken for the command's; two more hangs leave the
board in the normal configuration. The other cause of the same: a hang, and a reset by
the pin between `decodeAndClearResetReason()` and
`updateCountersAndDecideConfiguration()`, which has then cleared the hang's flag and
counted nothing.

`FaultReportIsTrue` and `CauseIsKnown` leave out the boot that follows one which ended
before it had stored its first phase. Such a boot repeats an old fault (section 10), and
has no flag of the boot before it to report.

The counts are taken modulo `CountModulus` as the `uint8_t` they are: `spec`
fault-recovery:101 has the cumulative count cleared by a command only, and in the code
it also returns to zero at the 256th boot. `ManyResetsReduce` says what the count
means below that.

### Proofs (`BootRecoveryProofs`)

For every threshold, window, modulus and set of resets: `TypeCorrect`,
`CommandSucceeds`, `RetrySucceedsAlways`, `FaultReportsAreTrue`, `CausesAreKnown`.
The inductive invariant `BootInv` has one part for each: `ValidInside` (after
`ReadPrevious` the block is valid until a reset), `CommandPath` and `RetryPath` (what
the marker and the counts are at each step between the marker and the decision),
`FlagPath` (which reset flags are set before they are decoded) and `FaultPath` (that
the phase still is the one of the hook). `RetrySucceedsAlways` holds for every width
of the counts: the snapshot is taken whenever a boot is reduced, and nothing but the
retry's own boot increments the count before it is compared.

`StreakReduces`, `ManyBootsReduce` and `FewResetsNeverWrap` are about the counts. The
first two are `Spec /\ []NoWrap => []...`: they say of every behaviour in which no step
takes a count past its width that `FaultStreakReduces`, or `ManyResetsReduce`, always
holds. Without `NoWrap` they are false, as the 256th boot shows. `CountInv` relates the
counts in the block to the boots there really were and to the faults that were neither
masked nor forgotten: they are never below them, from `ReadPrevious` to the decision of
the same boot (`StreakPath`, `BootsPath`), a fault on its way to the count (`Uncounted`)
being one less. For that no other fault may be taken for a deliberate reset, nor a
deliberate reset's marker be found by a later boot: `EvidencePath` follows the flags
into the reason, and `MarkerPath` the marker until it is consumed.

The hypothesis is met: `FewResetsNeverWrap` says that
`2 * MaxResets + 2 < CountModulus` suffices. Deliberate resets are not bounded, so
this needs `CountBound`: a commanded reset clears the counts, and the automatic retry
never follows itself, so between two resets from outside at most one boot more is
counted. The run's 4 resets and the modulus of the code, 256, satisfy it.

Assumptions (`RecoveryAssumption`): thresholds positive, the modulus above the
cumulative threshold, the stability window no longer than the retry interval, as
the constants of the code have it.

## 5. The log download

### Model

`LogDownload` is `TaskSdWrite` after `begin()`, with the tasks that send to it and
take from it. A step is what a task does between two uses of a queue: `TaskSdWrite`
has the lowest priority, so any other task may run wherever it looks at a queue or
posts to one. `forwardLogRequest()` asks for room and posts in one step, because
nothing that posts to `sdWriteQueue` has a higher priority than `TaskMavlink`.

| Action | Code |
|---|---|
| `StartListing`, `StartStream`, `StopStream` | `startListing()`, `startStream()`, `endStream()` on a request |
| `WriteRecord`, `NotifyReuse` | `writeRecord()`: the record, with the rotation it may cause; then each port whose download was of the slot just taken |
| `ChoosePort` | the loop over the ports: who has work, `portHasRoom()`, `nextPort` |
| `ServiceListing` | `serviceListing()` |
| `ServiceAbsent`, `ServiceFinished`, `WaitForReader`, `SeekFails`, `ReadFails`, `SendChunk` | the paths of `serviceStream()` |
| `ForwardLogRequest` | `forwardLogRequest()` and the three handlers that call it |
| `PostRecord` | `TaskLogger`, `logBattery()`, `logClock()` |
| `PostOther`, `LinkWrite` | `enqueueWrite()`, `TaskLinkWrite` |

The ring is the one of `LogRing`, seen from its own task: `size` is what the
directory shows, `tail` what was appended after the last sync, `gen` tells the file
in a slot from the one it replaced. The reading handle keeps the length of the file
at its opening, and what it reads is whatever is in its slot by then. `asked` and
`given` are history, and so is `sought`, below; `spent` holds the bounds. No other
guard reads them.

Nothing is assumed of what the other tasks post to a port: `PostOther` takes any place
that is free, as `enqueueWrite()` does. So the queue may be full when a piece is posted,
whatever `portHasRoom()` said before the card was read. The code does not look at what becomes of it, and the history does:
`given` keeps apart the bytes and the chunks that the queue took (`bytes`, `short`) and
those that it refused (`refused`, `mute`).

Under `ReadMayFail` the card may fail: a file does not open for a download, a read brings
nothing, `slotSize()` passes over a file that does not open while it is listed, and the
seek of a new handle fails. The result of that seek (`src/sdwrite.cpp:424`) is not looked
at, while `slotTimeUtc()` looks at its own; the handle then reads from the start of the
file, as it was opened (the SD library's behaviour), and its bytes go out under the
offset asked for. `sought` is true until this has happened, and
`DeliversNamedFile`, `PostsAll` and the position of `ReaderIsCurrent` are claimed while
it is: `spec` flight-log:282 claims the first of them of every card, which `SeekFails`
shows the code does not keep.

Left out: what a `LOG_ENTRY` says beside its id; a rotation that cannot open its slot;
power cuts, because nothing of the download outlives one; and the frame that
`TaskLinkWrite` drops when its port has no room, so that "delivered" means queued for
the port.

### Runs

| Run | Bounds | Shows |
|---|---|---|
| `log_download` | 2 slots of 4 units, chunks of 2, sync every 2, queues of 2, 2 requests out of 6 kinds, 3 records, 1 other message, a card that may fail | type, `DeliversNamedFile`, `PostsAll`, `ReaderIsCurrent`, `EndIsSignalled`, `ListsEveryLog`; under fairness `WorkEnds` |
| `download_record` | queues of 6 and 9 as in the code, 5 requests, 2 records | **violation** of `NoRecordLostToDownload` |

Three records fill a file after its preamble, so a rotation replaces the other slot,
at any point of a download of it; files of 4 end on a multiple of the chunk, and the
file being written, at 1 to 3, does not. Two requests are a download on each port,
or a listing and a download, or a download and what replaces or stops it. Queues of
2 are the shortest that the guards of the code tell apart, and full early: one other
message is enough to refuse a piece. The runs end when the bounds are used up and
`TaskSdWrite` blocks on its queue, so deadlock is not checked.

Fairness: `WF_vars(TaskSdWrite)`: every task above it blocks on a queue or a delay in
each of its passes. `WF_vars(LinkWrite(p))`: `TaskLinkWrite` drops what its port does
not take, and waits a tick. None for requests, records and other messages.

What the violation shows. `spec` flight-log:337 says that no record is lost to
the download. `forwardLogRequest()` leaves one slot of `sdWriteQueue`, and
`TaskLogger` and `TaskMavlink` may both post before `TaskSdWrite`, which is below
them, runs again.

`spec` flight-log:278 has a request answered with the file's bytes until `count` of them
or its end have been sent. A full queue breaks that (section 10); `PostsAll` is what is
left of it: what the queue refused is all that is missing. Two more statements do not
fit the code and need no run to be seen. `spec` mavlink-link:238 has every frame that
could not be queued counted for its port; `postLogData()` (`src/sdwrite.cpp:356`) and
`serviceListing()` call `xQueueSend()` themselves and not `enqueueWrite()`, which
counts. And the comments at `src/sdwrite.cpp:246` and `src/main.cpp:190` say that the log
protocol holds at most two places of a port's queue; the notice of a reused file (`:495`)
does not ask for room and may be the third.

`EndIsSignalled` speaks of downloads that run to their end, not of those that a
rotation ends or that the card fails.

### Proofs (`LogDownloadProofs`, `LogDownloadDelivery`)

For every size of card, file and chunk, every depth of the queues and every set of
requests, on a card that may fail or not: `TypeCorrect`, `DeliversOnlyNamedFile` and
`ReaderStaysCurrent`; in the second module `PostsEverything`, `EndsAreSignalled` and
`EveryLogIsListed`. Assumed is `DownloadAssumption`: more than one slot, a preamble,
queues that hold something.

`DeliversNamedFile` is not inductive: it says nothing of the next chunk. `DownloadInv`
adds what is known of a download under way: its slot holds the file that its request
found (`asked[p].gen = gen[slot]`), still as long as the end fixed then
(`StreamIsCurrent`), and the handle, if there is one, is in that file, at its position
while `sought` holds (`ReaderFollows`). Both fail for a moment, between a rotation and
the last of its notices; `Ends(p)` names the downloads this concerns, and no chunk is
read meanwhile, as `pc` is then `"notify"`. `SlotsKnown` and `WorkChosen` are what the types and the
choice of a port need. Four lemmas do the work: a record only makes files longer
except for the one it replaces (`DownloadsSurviveRecord`), the notices end what was
replaced (`DownloadsEndOnReuse`), a request starts from what the card has
(`DownloadStarts`), and a chunk stays inside it (`DownloadContinues`).

The second module's `DeliveryInv` stands on the first's. It speaks of what was posted,
taken or refused, as the code does not tell the two apart. `Running` is inductive:
a download under way has posted every byte of its file from where it began up to its
position, none twice and no other, one chunk that was not full if and only if the last
chunk sent was that one, and no empty chunk; a chunk that is not full can only be the
last, because the handle is in the file as the request found it, whose length `end`
cannot exceed. `Complete` is what remains of this at the end. `ListingSoFar` says that a
listing has named every log that lies before its cursor, but those the card did not open
and those the queue refused (`Settled`); that `serviceListing()` skips
slots whose length is zero does no harm, since no file is ever empty
(`FilesHoldSomething`): a rotation opens a file with its preamble.

## 6. The system clock

### Model

`SystemClock` is `lib/SystemTime`, the internal RTC and the DS1307 behind it, the two
callers in `TaskMavlink` that set it, and one task that reads the time since boot.

| Action | Code |
|---|---|
| `Begin`, `Seed`, `SeedFails`, `Inherit`, `Latch` | `begin()`: what was found, the seed from the DS1307 or its failure, the clock as it is, the epoch |
| `Offer` | `MAVLINK_MSG_ID_SYSTEM_TIME` |
| `Push`, `Reseed`, `Skip` | the reconciliation of `TaskMavlink`: `pushToDs1307()`, `reseedFromDs1307()`, and their early returns |
| `Refuse`, `Repeat`, `ReadPrevious`, `Correct`, `CorrectFails`, `Compare`, `Adjust` | `setUnixTime()`: the refusals, the equal second, the reading before the scheduler is suspended, the suspended region, the comparison with the DS1307 and the write to it |
| `StartRead` to `ReadWhole` | `getUnixTimeUsec()`, one access to a register at a time |
| `ReadEpoch` | the rest of `sinceBootUsec()` |
| `Tick`, `Drift`, `Reset`, `PowerLoss` | the environment |

A clock is a second and a fraction in `0 .. F-1`; `NotAfter` orders two of them. The
microseconds of the code are a monotone function of the pair. `w` is the call that
the clock's owner is in; `r` is a call of `sinceBootUsec()` in `TaskLogger` or
`TaskSdWrite`. `TaskMavlink` has the higher priority, so `r` moves only while `w` is
idle, that is, waits for a message, or is at the DS1307: the comment at
`SystemTime.cpp:227` keeps the I2C transfer out of the suspended region because it
may block. Time passes at every step.

`RTC.setTime()` may keep the fraction or restart it, and may fail. `RTC.getTime()` is
taken to succeed once `RTC.begin()` has run, so the returns of zero are left out. The
boot epoch is an integer here; the code keeps it in 32 bits, which `isPlausible()` and
`bootEpoch <= rtc.sec` make sufficient.

`ideal` and `ground` are history, as is the field `corrections` of `count`: the time
since boot of a clock that is never set, and the last time that was accepted from the
ground, which `settled` says the call has returned for. No guard reads them.

`GroundTimeKept` compares the clock and the time accepted in fractions of a second
(`Ticks`), and allows the DS1307's drift and `Slack == 2 * (F - 1 + MaxStall)`. The
DS1307 holds whole seconds, so a time loses up to `F - 1` fractions when it is written
there, and up to `MaxStall` more while the call lasts; at a restart it is carried back
the same way and may lose as much again. In the run this is 4 fractions, two seconds;
with `F = 4` and `MaxStall = 3` two seconds are exceeded.

### Runs

| Run | Bounds | Shows |
|---|---|---|
| `system_clock` | seconds of 2 fractions, 2 attempts, 4 ticks, 3 events out of: a time from the ground (implausible, or one of two), a restart, a failure of `setTime`, a drift of 4 s, a reading; with and without a DS1307, which holds nothing plausible or one of the two times | type, `ReadingIsCurrent`, `ElapsedTracksUptime`, `ElapsedNeverAhead`, `KnownClockIsPlausible`, `GroundTimeKept`; under fairness `ClocksMeetAgain` |
| `clock_any_task` | the same | **violation** of `SafeFromAnyTask` |
| `clock_backwards` | the same | **violation** of `ElapsedNeverGoesBack` |

Two fractions are enough to carry and not to carry; four ticks let the second move in
both attempts of a reading, so that it gives up. Three events are a drift or a first
offer, an offer, and a restart or a reading among them. A call of the clock's owner
lasts at most `MaxStall` ticks, less than a second (`ClockAssumption`): it makes one
or two I2C transfers of a few bytes.

Fairness: `WF_vars` of what `setup()` and `TaskMavlink` do, the reconciliation
included, which the loop of `TaskMavlink` reaches every six hours. None for ticks,
readings, offers, restarts and drifts.

What the violations show. (1) `SystemTime.h:63` says that `sinceBootUsec()` is safe to
call from any task. The suspended region makes the two writes of a correction
indivisible, but not the two reads: a task that has read the clock, and is preempted
by a correction before it reads the epoch, subtracts the new epoch from the old time.
After a correction backwards the record it writes is ahead of the time that passed by
the whole correction; after one forwards it is zero.

(2) `spec` system-clock:27 has time since boot increase monotonically and not be
disturbed by a correction, and `SystemTime.h:59` calls it monotonic across a clock set.
`previous` is read (`SystemTime.cpp:182`) before the scheduler is suspended: a second
that carries before `RTC.setTime()` is in the clock that is overwritten and not in the
shift of the epoch, so time since boot goes back by it. `ElapsedNeverGoesBack` looks at
whole seconds, so that the trace does not depend on what `RTC.setTime()` does to the
fraction, which may be lost as well. `ElapsedTracksUptime` is the bound of this
disagreement: less than two seconds for each correction, and never ahead.

### Proofs (`SystemClockProofs`)

For every length of second, number of attempts, set of times, and number of events:
`TypeCorrect`, `ElapsedTracks`, `ReadingsAreCurrent`, `ElapsedIsNeverAhead`,
`KnownClocksArePlausible` and `GroundTimeIsKept`, from `ClockAssumption`.

`ElapsedTracksUptime` needs `PreviousIsFresh`: between the reading and the correction
the second moves at most once, and if it did, fewer fractions have passed since than
the call has lasted ticks. `TickElapsed` then says that two clocks that tick together
keep their order, and `CorrectElapsed` that a correction moves time since boot back
by less than two seconds and never forward. A reading needs `ReadingSoFar`: if the
second is still the one read first, the fraction read since is not ahead of the
clock's; if it is not, that second is past the start. `BootsAlone` keeps readings out
of `begin()`, and `OriginIsPlausible` follows each time that becomes the clock's from
where it was checked.

`GroundTimeKept` speaks of an idle clock only, and of nothing behind it. `GroundInv`
follows the accepted time through a chain: while the clock's source is the ground it is
exactly that time (`OnGround`); the whole second that is written to the DS1307 was read
in the same call (`PushIsFresh`), so the DS1307 is near it by one `Lag`, plus the drift
(`DsNear`); what a restart or a reconciliation reads from the DS1307 is near by the same
until the call ends (`SeedNear`), and the clock it sets is near by two (`RtcNear`).
`Owner` says who sets the clock when: a time read from the DS1307 is only ever set while
the ground's is not the clock's. Seconds times `F` are products of two variables,
which the provers cannot handle; `Whole(n)` hides them behind the lemmas `WholeIs`,
`WholeNat` and `WholeDistance`.

## 7. The backup block

### Model

`BackupBlock` is `src/recovery.cpp` with one step per store to `VBTBKR`, so that a
reset or a fault hook falls between any two of them.

| Action | Code |
|---|---|
| `Check` | `setup()`: `isValid()`, and `reinitialise()` if it must |
| `CountWrites` | the reason, the marker and the counts of `setup()`, before its phase |
| `MarkStart` | `setPhase(BootPhase::Start)` |
| `Milestone` | the other phases of `setup()`, `LinkDone` to `SchedulerStarted` |
| `StartScheduler` | the end of `setup()` |
| `TaskWrites` | `TaskMavlink`: stability, retry |
| `RebootCommand`, `LeaveCommanded` | the reboot command: `reinitialise()`, then its marker |
| `Store` | one store of `writeByte()`, `reinitialise()` or `recordFault()` |
| `RecordFault` | the fault hooks, which mask interrupts and do not return |
| `Reset` | a reset of any kind |

`order` lists the stores of the call in progress and `next` the one to come. Six
fields stand for the 21 bytes: two counts, the phase, a marker, and two bytes for the
fifteen of a task's name; the snapshot and the reason are written as the counts are.
The order of the calls is that of `setup()`: the counts are written while the phase is
still the one the previous boot left, which may claim a fault, and a reset may cut
those writes under that claim. A hook may run once the phase is stored, when the links
come up.
The sum is the code's, modulo the width of a byte. A loss of the battery leaves any
bytes whatever, and so does `Init`. `before`, `marked` and `claim` are history.
`PRCR`, which unlocks the registers, is left out: only one writer runs at a time, and
the hook that may interrupt it does not return to it.

`AtomicBlock` is what the callers are promised: a field set, all cleared or a fault
recorded, at once; or a cut one, which leaves every field old or new or the block
invalid. `BackupBlock` implements it under `block <- Believed`: what the callers
believe between calls, and during a call what they believed when it began.

### Runs

| Run | Bounds | Shows |
|---|---|---|
| `backup_block` | bytes of 3 values, one fault phase | type, `CutWriteIsSeen`, `FaultClaimIsWhole`, `ImplementsAtomicBlock` |
| `heartbeat_counts` | the same | **violation** of `HeartbeatCountsAreStored` |

Three values are the fewest with a phase of a fault, one that is not and not zero, and
with sums that match by chance. There are 319 823 states; resets and calls are not
bounded. The properties are of single stores and a finite block, so a longer name
would add more bytes of the same kind; the proofs hold for every width.

What the violation shows. `spec` fault-recovery:204 has the heartbeat carry both
counts. `TaskLinkWrite` packs them (`packCustomMode()`, `mavlink.cpp:83`) when it
sends the frame, at the same priority as `TaskMavlink`, and the two share the
processor by time slices (`platformio.ini:106`). Between the store of a byte and of
its checksum (`recovery.cpp:59` and `:60`) the block reads as invalid and every getter
as zero: the heartbeat says that there were no faults.

### Proofs (`BackupBlockProofs`)

For every width of a byte and every set of fault phases: `TypeCorrect`,
`CutWritesAreSeen`, `ClaimsAreWhole` and the refinement, `KeepsThePromise`, from
`BlockAssumption`.

`CutWriteIsSeen` is arithmetic: `OneChangeShows` says that sums of blocks that differ
in one byte differ. The rest needs the invariant to say how far the call has come and
what that leaves in the bytes: what is still to be stored is as it was
(`RestIsPending`), each byte is old or new (`BytesAreOldOrNew`), the checksum is the
one of the contents before (`SumIsStale`), and a phase that claims a fault has the
name it came with (`ClaimFollowsName`), which is where the order of the stores in
`recordFault()` and `reinitialise()` matters.

## 8. The MAVLink task

### Model

`MavlinkTask` is the loop of `TaskMavlink` with the readers that post to
`linkReadQueue`, and the time that passes.

| Action | Code |
|---|---|
| `Start` | up to the loop: two texts per port, the schedule seeded from `startMs` |
| `BeginPass` | the clocks' reconciliation, the battery record, the computation of the wait |
| `TimeOut` | `xQueueReceive()` that returns nothing |
| `Arm`, `Disarm` | `MAV_CMD_SET_MESSAGE_INTERVAL` that sets or stops housekeeping |
| `Reply` | every other case of the dispatch: how many frames it posts and where |
| `EmitDue` | the rows of both ports that are due, the housekeeping cursor |
| `LinkRead` | `TaskLinkRead`: a complete message is posted, or dropped when the queue is full |
| `Tick` | a millisecond |

Milliseconds wrap at `Wrap` as `uint32_t` does; the code compares differences, and so
does the model. What leaves the task is counted in `posted` and not queued:
`enqueueWrite()` never waits, so nothing of the task depends on what is behind it. The
text about a changed clock, which the code can post every six hours, may come in any
pass. `age` and `batteryAge` are history: the real time since the last beat was due,
which does not wrap. `told` is history: the slots told in this lap.

The readers and writers of the links run at the task's priority (the reader of the
UART above it) and block on a queue or a delay in each of their passes. `MaxStall` is
what this may cost it in one pass, outside its wait; the model assumes it to be no longer than the shortest
interval, one second. There is no liveness here and no fairness: `BeatsOnTime` is the
bounded form.

### Runs

| Run | Bounds | Shows |
|---|---|---|
| `mavlink_task` | units of 500 ms; 3 rows (heartbeat, battery, housekeeping) of 2, 4 and 2 units, 2 ports, a count that wraps at 10, late by up to 2, 6 kinds of message, a queue of 1, 3 slots, a normal and a reduced board | type, `CadenceKept`, `BeatsOnTime`, `BatteryLogged`, `HousekeepingCycles` |

The three rows are one that is always on, one that depends on the board and one that
the ground sets. The six messages are each way to treat housekeeping (set, stop,
refuse), an answer of two frames, one of none or one depending on the card, and a
text to both ports. A count of 10 wraps soon after the latest battery record, in every
phase of the schedule; a task late by 2 is late by a whole beat. The reduced board has
a slot without a task between two with one, so the cursor skips. A queue of one is
full as soon as a message waits; messages are not bounded. There are 1.9 million
states.

What a pass posts. `main.cpp:168` to `:193` counts the messages of a worst pass
as seven (five rows, a `TIMESYNC` reply, the report of the clock's origin), gives the
write queues nine places, two of them for the log protocol, and says that the seven are
always left free. With the five rows of the program due, a message that is requested
takes two frames, its acknowledgement and itself, and with the report of the clock the
pass posts eight (section 10). With two messages of the log waiting that is one more
than the queue holds. `PassesAreBounded` proves that there is no worse pass: every row
and three.

### Proofs (`MavlinkTaskProofs`)

For every set of rows and ports, every interval, wrap, stall and
set of messages, from `MavlinkAssumption`: `TypeCorrect`, `CadenceIsKept`,
`BeatsAreOnTime`, `BatteryIsLogged`, `PassesAreBounded`, `CyclesAreComplete`. The
assumption says that no interval is shorter than the stall, and that every interval
with the stall is shorter than the count of milliseconds.

`CadenceKept` equates a difference of wrapped counts with real time, so it needs the
bound that keeps real time below the wrap, `BeatsOnTime`; that needs the wait to end
at the first row due (`WaitsForFirst`), on whichever port, and that is what the
computation of the wait makes true only while `CadenceKept` holds. The three are one
invariant. `OnTime` sharpens the second to what this pass has lost, and
`BatteryFollows` ties the battery record, which is not part of the wait, to the
heartbeat that wakes the task in every configuration. `PostedSoFar` counts the frames
of a pass up to each point of it, and `LapSoFar` says that what was told is what lies
before the cursor.

## 9. Only model-checked

Liveness: `LeavesReducedOnItsOwn`, `WorkEnds` and `ClocksMeetAgain` rest on fairness
and on ENABLED, which the prover does not handle. Every other property of a passing run
is a theorem of sections 3 to 8, with these hypotheses beyond the assumptions on the
constants: what the card may do (`OnlyLostIndex`, `OnlyLostUnfull`), and that the
counts do not wrap (`NoWrap`). The violations are counterexamples, found by TLC.

## 10. Further configurations

Five configurations are kept beside the runs. In each of them TLC refutes one statement
that the repository makes of the program; what is true instead is checked or proved.

| Configuration | Refutes | The counterexample |
|---|---|---|
| `MCBootEntries.cfg` | `EntriesAreSpaced`: entries into the reduced configuration are a retry interval apart (`spec` fault-recovery:265) | Stability clears the consecutive count in the reduced configuration too (`mavlink.cpp:1404`), so the next hang boots the normal configuration, and three more hangs are back in the reduced one after a few seconds. `ManyResetsReduce` ends this. |
| `MCBootOldFault.cfg` | `OldFaultNotRepeated`: a boot after an ordinary reset does not repeat an earlier fault (`spec` fault-recovery:96) | A reset between `getPhase()` (`main.cpp:379`) and `setPhase(Start)` (`:406`) leaves the phase of the hook in the block, and the next boot reports it again. `FaultReportIsTrue` is what holds. |
| `MCDownloadStop.cfg` | `EndStops`: `LOG_REQUEST_END` stops the download on its port (`spec` flight-log:295) | Less than two slots of `sdWriteQueue` are free behind the burst of requests with which a ground station fills its gaps, and the request is dropped like any other (`mavlink.cpp:1307`). |
| `MCDownloadRefused.cfg` | `DeliversAll`: a request is answered with every byte of its range (`spec` flight-log:278) | `portHasRoom()` was asked before the card was read; `TaskMavlink`, which may post eight frames in a pass, fills the queue meanwhile, the chunk is refused (`sdwrite.cpp:356`), and the position advances all the same. `PostsAll` is what holds. |
| `MCMavlinkPass.cfg` | `WorstPassIsSeven`: a pass posts at most seven frames to a port (`main.cpp:168`) | Five rows due, a requested message and a changed origin of the clock are eight. `PassesAreBounded` is what holds. |

## 11. Not modelled

Of the log ring, `SdData::end()`, which the firmware does not call. Of the boot,
`setup()`'s bring-up of the hardware between the milestones and the choice of the
watchdog's period, a pure function of constants. Of `TaskMavlink`, the contents of
frames, the narrowing of a command's floats to integers, and the counter of frames
that do not parse, which is only reported in `SYS_STATUS`. Of the links, the parser
of each port, which no other task touches. The battery's conversion, a formula; the
logger's period; the scripts and the tests. What a later version of the models could
still take in is in the plan. The status of each part is in `PROJECT.json`.

## 12. Running it

    tlc -config MCLogRing.cfg MCLogRing
    tlc -config MCBootRecovery.cfg MCBootRecovery
    tlc -config MCLogDownload.cfg MCLogDownload
    tlc -config MCSystemClock.cfg MCSystemClock
    tlc -config MCBackupBlock.cfg MCBackupBlock
    tlc -config MCMavlinkTask.cfg MCMavlinkTask
    tlapm LogRingProofs.tla
    tlapm LogRingRefinement.tla
    tlapm BootRecoveryProofs.tla
    tlapm LogDownloadProofs.tla
    tlapm LogDownloadDelivery.tla
    tlapm SystemClockProofs.tla
    tlapm BackupBlockProofs.tla
    tlapm MavlinkTaskProofs.tla

The other configurations go with the module their name begins with (`MCLogRing...`,
`MCBoot...` with `MCBootRecovery`, `MCDownload...` with `MCLogDownload`, `MCClock...`
with `MCSystemClock`, `MCHeartbeatCounts` with `MCBackupBlock`, `MCMavlinkPass` with
`MCMavlinkTask`).
