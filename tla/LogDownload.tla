---------------------------- MODULE LogDownload ----------------------------
(***************************************************************************)
(* The download of the flight log: TaskSdWrite of src/sdwrite.cpp, which   *)
(* owns the card, writes the records it is sent, and answers the ground's  *)
(* requests for a listing or for a range of a log, one piece at a time,    *)
(* between records.                                                        *)
(*                                                                         *)
(* Around it run TaskMavlink and TaskLogger, which post requests and       *)
(* records to its queue, TaskMavlink's other messages for each port, and   *)
(* the task that empties each port's queue.  All queues refuse what does   *)
(* not fit, nobody waits for room and nothing keeps room for anybody.  A   *)
(* step is what a task does between two uses of a queue.  The ring of      *)
(* files is LogRing's, seen from its own task: one record is one step.     *)
(***************************************************************************)
EXTENDS Integers, Sequences, FiniteSets

CONSTANTS
  Files,        \* sdData.fileCount()
  SlotSize,     \* the length of a full file
  FlushEvery,   \* records are synced every this many bytes
  PreambleLen,  \* what a fresh file holds
  Chunk,        \* kLogDataChunk
  SdDepth,      \* the depth of sdWriteQueue
  PortDepth,    \* the depth of each port's write queue
  Requests,     \* the requests the ground may send
  ReadMayFail,  \* whether the card may refuse a file, a position or a read
  MaxRequests,  \* bound: how many requests a behaviour contains
  MaxRecords,   \* bound: how many records
  MaxOthers     \* bound: how many other messages

Ports  == {0, 1}
NoPort == -1
Slot   == 0 .. Files - 1

Other(p) == 1 - p

\* SdLogRequestPayload; `first` is the id of a LogRead.
Request == [kind : {"list", "read", "end"}, port : Ports,
            first : Nat, last : Nat, ofs : Nat, count : Nat]

\* Any record of the log.
Record == [kind |-> "record"]

ASSUME DownloadAssumption ==
  /\ Files \in Nat /\ Files > 1
  /\ PreambleLen \in Nat \ {0}
  /\ SlotSize \in Nat /\ SlotSize > PreambleLen
  /\ FlushEvery \in Nat \ {0}
  /\ Chunk \in Nat \ {0}
  /\ SdDepth \in Nat /\ SdDepth > 1
  /\ PortDepth \in Nat \ {0}
  /\ Requests \subseteq Request
  /\ ReadMayFail \in BOOLEAN
  /\ MaxRequests \in Nat /\ MaxRecords \in Nat /\ MaxOthers \in Nat

VARIABLES
  gen,       \* which file each slot holds, counted as they are created; 0: none
  size,      \* the length each directory entry shows
  cur,       \* the slot being written
  tail,      \* the length of what was appended to it and not synced
  sdQueue,   \* sdWriteQueue
  out,       \* the write queue of each port
  listing,   \* listings[]
  stream,    \* streams[]
  reader,    \* readerPort, and what the handle reads
  nextPort,  \* whose turn it is
  pc,        \* where TaskSdWrite is
  port,      \* the port it is serving or notifying
  spent,     \* how much of each bound has been used (history)
  asked,     \* what each port's latest download should deliver (history)
  given,     \* what the port's queue took of it and what it refused, what
             \* the card kept from a listing, how it ended (history)
  sought     \* no reader has been left elsewhere than at its position (history)

card    == <<gen, size, cur, tail>>
task    == <<listing, stream, reader, nextPort, pc, port>>
history == <<asked, given, sought>>
vars    == <<card, sdQueue, out, task, spent, history>>

NoReader == [port |-> NoPort, slot |-> 0, gen |-> 0, size |-> 0, pos |-> 0]

Idle == [active |-> FALSE, absent |-> FALSE, slot |-> 0, pos |-> 0, end |-> 0,
         toFileEnd |-> FALSE, sentAny |-> FALSE, lastCount |-> 0]

NothingAsked == [gen |-> 0, from |-> 0, upto |-> 0, logs |-> {}]
NothingGiven == [bytes |-> {}, refused |-> {}, short |-> 0, mute |-> 0,
                 empty |-> 0, entries |-> <<>>, missed |-> {},
                 ended |-> "no", listed |-> "no", stop |-> FALSE]

(***************************************************************************)
(* begin() has opened a fresh file, on the first lap or on a later one.    *)
(***************************************************************************)
Init ==
  /\ cur \in Slot
  /\ \E lap \in {"first", "later"} :
       gen = [s \in Slot |-> IF s = cur THEN 2
                             ELSE IF s < cur \/ lap = "later" THEN 1 ELSE 0]
  /\ size = [s \in Slot |-> IF s = cur THEN PreambleLen
                            ELSE IF gen[s] = 1 THEN SlotSize ELSE 0]
  /\ tail = 0
  /\ sdQueue = <<>>
  /\ out = [p \in Ports |-> <<>>]
  /\ listing = [p \in Ports |-> [active |-> FALSE, first |-> 0, last |-> 0,
                                 nextSlot |-> 0]]
  /\ stream = [p \in Ports |-> Idle]
  /\ reader = NoReader
  /\ nextPort = 0
  /\ pc = "drain"
  /\ port = 0
  /\ spent = [requests |-> 0, records |-> 0, others |-> 0, lost |-> FALSE]
  /\ asked = [p \in Ports |-> NothingAsked]
  /\ given = [p \in Ports |-> NothingGiven]
  /\ sought = TRUE

-----------------------------------------------------------------------------
(***************************************************************************)
(* The tasks around TaskSdWrite                                            *)
(***************************************************************************)

\* forwardLogRequest(): dropped unless two slots are free.
ForwardLogRequest ==
  /\ spent.requests < MaxRequests
  /\ spent' = [spent EXCEPT !.requests = @ + 1]
  /\ \E r \in Requests :
       /\ sdQueue' = IF SdDepth - Len(sdQueue) < 2 THEN sdQueue
                     ELSE Append(sdQueue, r)
       /\ given' = [given EXCEPT ![r.port].stop =
                      IF r.kind = "list" THEN @ ELSE r.kind = "end"]
  /\ UNCHANGED <<card, out, task, asked, sought>>

\* TaskLogger, logBattery() and logClock() post a record, or lose it.
PostRecord ==
  /\ spent.records < MaxRecords
  /\ IF Len(sdQueue) < SdDepth
     THEN /\ sdQueue' = Append(sdQueue, Record)
          /\ spent' = [spent EXCEPT !.records = @ + 1]
     ELSE /\ UNCHANGED sdQueue
          /\ spent' = [spent EXCEPT !.records = @ + 1,
                         !.lost = @ \/ \E i \in 1 .. Len(sdQueue) :
                                         sdQueue[i] # Record]
  /\ UNCHANGED <<card, out, task, history>>

\* xQueueSend() to a port, which takes what fits.
Post(p, m) ==
  out' = IF Len(out[p]) < PortDepth THEN [out EXCEPT ![p] = Append(@, m)] ELSE out

\* enqueueWrite() of TaskMavlink.
PostOther(p) ==
  /\ spent.others < MaxOthers
  /\ spent' = [spent EXCEPT !.others = @ + 1]
  /\ Post(p, "other")
  /\ UNCHANGED <<card, sdQueue, task, history>>

\* TaskLinkWrite takes a message, whether or not its port will have it.
LinkWrite(p) ==
  /\ out[p] # <<>>
  /\ out' = [out EXCEPT ![p] = Tail(@)]
  /\ UNCHANGED <<card, sdQueue, task, spent, history>>

-----------------------------------------------------------------------------
(***************************************************************************)
(* TaskSdWrite: what it is sent                                            *)
(***************************************************************************)

\* The next item of sdWriteQueue is of this kind.
Receive(kind) ==
  /\ pc = "drain"
  /\ sdQueue # <<>>
  /\ Head(sdQueue).kind = kind
  /\ sdQueue' = Tail(sdQueue)

Least(a, b) == IF a <= b THEN a ELSE b

Exists(s) == gen[s] # 0

\* slotSize()
SlotLength(s) == IF s \in Slot /\ Exists(s) THEN size[s] ELSE 0

\* Mutation of ReaderWithout: the handle outlives its download.
MutReaderWithout(p) == reader

\* closeReader(), if the reader is the port's.
ReaderWithout(p) == IF reader.port = p THEN NoReader ELSE reader

\* endStream()
EndStream(p) ==
  /\ stream' = [stream EXCEPT ![p].active = FALSE]
  /\ reader' = ReaderWithout(p)

InRange(s, first, last) == s + 1 >= first /\ s + 1 <= last

StartListing ==
  /\ Receive("list")
  /\ LET r == Head(sdQueue) IN
       /\ listing' = [listing EXCEPT ![r.port] =
                        [active |-> TRUE, first |-> r.first, last |-> r.last,
                         nextSlot |-> 0]]
       /\ asked' = [asked EXCEPT ![r.port].logs =
                      {s \in Slot : Exists(s) /\ InRange(s, r.first, r.last)}]
       /\ given' = [given EXCEPT ![r.port].entries = <<>>,
                                 ![r.port].missed = {},
                                 ![r.port].listed = "running"]
  /\ UNCHANGED <<card, out, stream, reader, nextPort, pc, port, spent, sought>>

\* Whether a range reaches the end of a file of this length.
ToFileEnd(r, length) ==
  r.count >= (IF r.ofs < length THEN length - r.ofs ELSE 0)

\* Mutation of EndOf: the offset is left out.
MutEndOf(r, length) == IF ToFileEnd(r, length) THEN length ELSE r.count

\* The end of the download, fixed when the request arrives.
EndOf(r, length) == IF ToFileEnd(r, length) THEN length ELSE r.ofs + r.count

\* startStream(): ends the port's download and begins the new one.
StartStream ==
  /\ Receive("read")
  /\ LET r    == Head(sdQueue)
         p    == r.port
         slot == r.first - 1
     IN
       \E length \in {SlotLength(slot)} \cup IF ReadMayFail THEN {0} ELSE {} :
         /\ stream' = [stream EXCEPT ![p] =
              [active |-> TRUE, absent |-> length = 0, slot |-> slot,
               pos |-> r.ofs, end |-> EndOf(r, length),
               toFileEnd |-> ToFileEnd(r, length), sentAny |-> FALSE,
               lastCount |-> 0]]
         /\ reader' = ReaderWithout(p)
         /\ asked' = [asked EXCEPT
              ![p].gen = IF length = 0 THEN 0 ELSE gen[slot],
              ![p].from = r.ofs,
              ![p].upto = Least(r.ofs + r.count, length)]
         /\ given' = [given EXCEPT ![p].bytes = {}, ![p].refused = {},
                                   ![p].short = 0, ![p].mute = 0,
                                   ![p].empty = 0, ![p].ended = "running"]
  /\ UNCHANGED <<card, out, listing, nextPort, pc, port, spent, sought>>

\* LOG_REQUEST_END stops the port's download, and not its listing.
StopStream ==
  /\ Receive("end")
  /\ LET p == Head(sdQueue).port IN
       /\ EndStream(p)
       /\ given' = [given EXCEPT ![p].ended =
                      IF stream[p].active THEN "stopped" ELSE @]
  /\ UNCHANGED <<card, out, listing, nextPort, pc, port, spent, asked, sought>>

\* Mutation of NextSlot: the ring never wraps.
MutNextSlot(s) == s + 1

NextSlot(s) == IF s = Files - 1 THEN 0 ELSE s + 1

\* writeRecord() up to its look at currentFile(): the ring takes the record,
\* syncs when an interval is full and moves to the next slot when the file is.
WriteRecord ==
  /\ Receive("record")
  /\ LET length == size[cur] + tail + 1
         next   == NextSlot(cur)
     IN
       \/ /\ length >= SlotSize
          /\ cur' = next
          /\ gen' = [gen EXCEPT ![next] = gen[cur] + 1]
          /\ size' = [size EXCEPT ![cur] = length, ![next] = PreambleLen]
          /\ tail' = 0
          /\ pc' = "notify"
          /\ port' = 0
       \/ /\ length < SlotSize
          /\ IF tail + 1 >= FlushEvery
             THEN size' = [size EXCEPT ![cur] = length] /\ tail' = 0
             ELSE tail' = tail + 1 /\ UNCHANGED size
          /\ UNCHANGED <<cur, gen, pc, port>>
  /\ UNCHANGED <<out, listing, stream, reader, nextPort, spent, history>>

\* Whether the port's queue takes what is posted; nobody here looks.
Fits(p) == Len(out[p]) < PortDepth

\* What the port's latest download was given, with an empty LOG_DATA posted.
GivenEmpty(p, how) ==
  [given EXCEPT ![p].short = IF Fits(p) THEN @ + 1 ELSE @,
                ![p].mute  = IF Fits(p) THEN @ ELSE @ + 1,
                ![p].empty = @ + 1,
                ![p].ended = how]

\* Mutation of OfReusedFile: only the download that holds the reader is ended.
MutOfReusedFile(p) == reader.port = p /\ stream[p].slot = cur

\* The download is of the slot the ring has just moved to.
OfReusedFile(p) == stream[p].active /\ ~ stream[p].absent /\ stream[p].slot = cur

\* The rest of writeRecord(), for each port in turn.
NotifyReuse ==
  /\ pc = "notify"
  /\ IF OfReusedFile(port)
     THEN /\ Post(port, "notice")
          /\ EndStream(port)
          /\ given' = GivenEmpty(port, "reused")
     ELSE UNCHANGED <<out, stream, reader, given>>
  /\ IF port = 0 THEN port' = 1 /\ UNCHANGED pc
     ELSE pc' = "drain" /\ UNCHANGED port
  /\ UNCHANGED <<card, sdQueue, listing, nextPort, spent, asked, sought>>

-----------------------------------------------------------------------------
(***************************************************************************)
(* TaskSdWrite: the download, when its queue is empty                      *)
(***************************************************************************)

Work(p) == listing[p].active \/ stream[p].active

PortHasRoom(p) == Len(out[p]) <= 1

Ready(p) == Work(p) /\ PortHasRoom(p)

\* Mutation of Turn: the port that was served is asked first again.
MutTurn(p) == p

\* Whose turn it is after this port's.
Turn(p) == Other(p)

\* The port whose turn it is, if it is ready, or else the other one.
ChoosePort ==
  /\ pc = "drain"
  /\ sdQueue = <<>>
  /\ \E p \in Ports :
       /\ Ready(p)
       /\ p = nextPort \/ ~ Ready(nextPort)
       /\ port' = p
       /\ nextPort' = Turn(p)
  /\ pc' = "piece"
  /\ UNCHANGED <<card, sdQueue, out, listing, stream, reader, spent, history>>

\* Mutation of ToList: the slot the cursor is at has been listed.
MutToList(l) == {s \in Slot : /\ s > l.nextSlot
                              /\ InRange(s, l.first, l.last)
                              /\ SlotLength(s) # 0}

\* The slots a listing still has to name.
ToList(l) == {s \in Slot : /\ s >= l.nextSlot
                           /\ InRange(s, l.first, l.last)
                           /\ SlotLength(s) # 0}

\* serviceListing(): one LOG_ENTRY, or the end of the listing.  A file that
\* cannot be opened looks empty to slotSize() and is passed over.
ServiceListing ==
  /\ pc = "piece"
  /\ listing[port].active
  /\ pc' = "drain"
  /\ LET todo == ToList(listing[port]) IN
       \/ /\ todo = {} \/ ReadMayFail
          /\ listing' = [listing EXCEPT ![port].active = FALSE,
                                        ![port].nextSlot = Files]
          /\ given' = [given EXCEPT ![port].listed = "done",
                                    ![port].missed = @ \cup todo]
          /\ UNCHANGED out
       \/ \E s \in todo :
            LET skipped == {t \in todo : t < s} IN
              /\ skipped = {} \/ ReadMayFail
              /\ listing' = [listing EXCEPT ![port].nextSlot = s + 1]
              /\ Post(port, "piece")
              /\ given' = IF Fits(port)
                   THEN [given EXCEPT ![port].entries = Append(@, s),
                                      ![port].missed = @ \cup skipped]
                   ELSE [given EXCEPT ![port].missed = @ \cup skipped \cup {s}]
  /\ UNCHANGED <<card, sdQueue, stream, reader, nextPort, port, spent, asked,
                 sought>>

\* serviceStream() has been called for the port.
Service ==
  /\ pc = "piece"
  /\ ~ listing[port].active
  /\ pc' = "drain"
  /\ UNCHANGED <<card, sdQueue, listing, nextPort, port, spent, asked, sought>>

ServiceAbsent ==
  /\ Service
  /\ stream[port].absent
  /\ Post(port, "piece")
  /\ stream' = [stream EXCEPT ![port].active = FALSE]
  /\ given' = GivenEmpty(port, "done")
  /\ UNCHANGED reader

\* Mutation of NeedsEmptyChunk: only after a full chunk.
MutNeedsEmptyChunk(st) == st.toFileEnd /\ st.lastCount = Chunk

\* Whether the end of the file has not been signalled by a short chunk.
NeedsEmptyChunk(st) == st.toFileEnd /\ (~ st.sentAny \/ st.lastCount = Chunk)

ServiceFinished ==
  /\ Service
  /\ ~ stream[port].absent
  /\ stream[port].pos >= stream[port].end
  /\ IF NeedsEmptyChunk(stream[port])
     THEN Post(port, "piece") /\ given' = GivenEmpty(port, "done")
     ELSE given' = [given EXCEPT ![port].ended = "done"] /\ UNCHANGED out
  /\ EndStream(port)

Unfinished(st) == ~ st.absent /\ st.pos < st.end

\* One reader at a time: the other port's download has it.
WaitForReader ==
  /\ Service
  /\ Unfinished(stream[port])
  /\ reader.port = Other(port)
  /\ UNCHANGED <<out, stream, reader, given>>

\* The handle the port reads from: its own, or a new one at its position.
ReaderOf(p) ==
  IF reader.port = p THEN reader
  ELSE [port |-> p, slot |-> stream[p].slot, gen |-> gen[stream[p].slot],
        size |-> size[stream[p].slot], pos |-> stream[p].pos]

\* A new handle whose seek() fails: nobody looks, and the same call goes on to
\* read.  That such a handle stays at the start of the file is the SD library's.
SeekFails ==
  /\ ReadMayFail
  /\ pc = "piece"
  /\ ~ listing[port].active
  /\ Unfinished(stream[port])
  /\ reader.port = NoPort
  /\ stream[port].pos > 0
  /\ reader' = [ReaderOf(port) EXCEPT !.pos = 0]
  /\ sought' = FALSE
  /\ UNCHANGED <<card, sdQueue, out, listing, stream, nextPort, pc, port, spent,
                 asked, given>>

\* The file cannot be opened, or the read brings nothing.
ReadFails ==
  /\ Service
  /\ Unfinished(stream[port])
  /\ reader.port # Other(port)
  /\ ReadMayFail \/ ReaderOf(port).pos >= ReaderOf(port).size
  /\ EndStream(port)
  /\ given' = [given EXCEPT ![port].ended = "failed"]
  /\ UNCHANGED out

\* One LOG_DATA.  What it carries is what is at the reader's position in the
\* file that occupies the reader's slot now.
SendChunk ==
  /\ Service
  /\ Unfinished(stream[port])
  /\ reader.port # Other(port)
  /\ LET r  == ReaderOf(port)
         st == stream[port]
         n  == Least(Least(st.end - st.pos, Chunk), r.size - r.pos)
         carried == {<<gen[r.slot], st.pos + i, r.pos + i>> : i \in 0 .. n - 1}
     IN
       /\ n > 0
       /\ reader' = [r EXCEPT !.pos = @ + n]
       /\ stream' = [stream EXCEPT ![port].pos = @ + n,
                                   ![port].sentAny = TRUE,
                                   ![port].lastCount = n]
       /\ Post(port, "piece")
       /\ given' = IF Fits(port)
            THEN [given EXCEPT ![port].bytes = @ \cup carried,
                               ![port].short = IF n < Chunk THEN @ + 1 ELSE @]
            ELSE [given EXCEPT ![port].refused = @ \cup carried,
                               ![port].mute = IF n < Chunk THEN @ + 1 ELSE @]

TaskSdWrite ==
  \/ StartListing
  \/ StartStream
  \/ StopStream
  \/ WriteRecord
  \/ NotifyReuse
  \/ ChoosePort
  \/ ServiceListing
  \/ ServiceAbsent
  \/ ServiceFinished
  \/ WaitForReader
  \/ SeekFails
  \/ ReadFails
  \/ SendChunk

Next ==
  \/ TaskSdWrite
  \/ ForwardLogRequest
  \/ PostRecord
  \/ \E p \in Ports : PostOther(p) \/ LinkWrite(p)

Spec == Init /\ [][Next]_vars

\* Every task of higher priority than TaskSdWrite blocks on its queue or on a
\* delay, so it runs again; TaskLinkWrite never waits for its port.
FairSpec ==
  Spec /\ WF_vars(TaskSdWrite) /\ \A p \in Ports : WF_vars(LinkWrite(p))

-----------------------------------------------------------------------------
(***************************************************************************)
(* Properties                                                              *)
(***************************************************************************)

Stream == [active : BOOLEAN, absent : BOOLEAN, slot : Int, pos : Nat,
           end : Nat, toFileEnd : BOOLEAN, sentAny : BOOLEAN,
           lastCount : 0 .. Chunk]

Reader == [port : Ports \cup {NoPort}, slot : Slot, gen : Nat, size : Nat,
           pos : Nat]

\* The type of every variable but the history.
TypeOK ==
  /\ gen \in [Slot -> Nat]
  /\ size \in [Slot -> Nat]
  /\ cur \in Slot
  /\ tail \in Nat
  /\ sdQueue \in Seq(Request \cup {Record}) /\ Len(sdQueue) <= SdDepth
  /\ out \in [Ports -> Seq({"other", "piece", "notice"})]
  /\ \A p \in Ports : Len(out[p]) <= PortDepth
  /\ listing \in [Ports -> [active : BOOLEAN, first : Nat, last : Nat,
                            nextSlot : 0 .. Files]]
  /\ stream \in [Ports -> Stream]
  /\ reader \in Reader
  /\ nextPort \in Ports
  /\ pc \in {"drain", "notify", "piece"}
  /\ port \in Ports

AskedBytes(p) ==
  {<<asked[p].gen, o, o>> : o \in asked[p].from .. asked[p].upto - 1}

\* A download delivers bytes of the file its id named, at the offsets it says,
\* and none that were logged after the request, whatever rotations fall
\* between two chunks, as long as the card has refused no reader its position.
\* (startStream(), serviceStream(), writeRecord().)
DeliversNamedFile ==
  sought => \A p \in Ports : given[p].bytes \subseteq AskedBytes(p)

\* A download that ran to its end has posted every byte that was asked for,
\* and none of them twice: what the port's queue did not take is all that the
\* ground lacks, with the same exception.
\* (startStream(), serviceStream(), writeRecord().)
PostsAll ==
  \A p \in Ports :
    sought /\ given[p].ended = "done" =>
      /\ given[p].bytes \cup given[p].refused = AskedBytes(p)
      /\ given[p].bytes \cap given[p].refused = {}

\* One chunk that is not full, and no more than one, is posted to tell the
\* ground that the file ends here, and taken or refused by the port's queue;
\* a range that stops short of that is never ended by an empty one.
\* (serviceStream().)
EndIsSignalled ==
  \A p \in Ports :
    LET told == given[p].short + given[p].mute IN
      /\ given[p].ended = "running" => told = 0 \/ stream[p].pos >= stream[p].end
      /\ given[p].ended = "done" =>
           IF stream[p].toFileEnd THEN told = 1 ELSE given[p].empty = 0

\* The one reading handle is that of a download under way, in the file as it was
\* when the handle was opened, and, with the same exception, at the download's
\* position.  (endStream(), closeReader().)
ReaderIsCurrent ==
  reader.port # NoPort /\ pc # "notify" =>
    LET st == stream[reader.port] IN
      /\ st.active /\ ~ st.absent
      /\ reader.slot = st.slot
      /\ sought => reader.pos = st.pos
      /\ reader.gen = gen[st.slot]
      /\ st.end <= reader.size

\* A listing names the logs in order and none twice, and of those that were
\* there when it was asked for it leaves out only what the card would not open
\* and what the port's queue did not take, whatever rotations and downloads go
\* on.  (serviceListing().)
ListsEveryLog ==
  \A p \in Ports :
    LET named == given[p].entries IN
      /\ \A i, j \in 1 .. Len(named) : i < j => named[i] < named[j]
      /\ given[p].listed = "done" =>
           asked[p].logs \subseteq
             given[p].missed \cup {named[i] : i \in 1 .. Len(named)}

\* What the ground asked for ends, on either port, although both share one
\* reader and one task.  (TaskSdWrite.)
WorkEnds == \A p \in Ports : Work(p) ~> ~ Work(p)

\* As openspec/specs/flight-log/spec.md:337 has it: no record is lost to the
\* download.  (forwardLogRequest().)
NoRecordLostToDownload == ~ spent.lost

\* As openspec/specs/flight-log/spec.md:295 has it: LOG_REQUEST_END stops the
\* download on its port.  (forwardLogRequest().)
EndStops ==
  \A p \in Ports :
    /\ given[p].stop
    /\ \A i \in 1 .. Len(sdQueue) :
         sdQueue[i] = Record \/ sdQueue[i].port # p
    => ~ stream[p].active

\* As openspec/specs/flight-log/spec.md:278 has it: a request is answered with
\* that file's bytes until `count` of them or the end of the file have been
\* sent.  (serviceStream(), whose position advances whether or not the port's
\* queue takes the chunk.)
DeliversAll ==
  \A p \in Ports :
    given[p].ended = "done" => given[p].bytes = AskedBytes(p)

=============================================================================
