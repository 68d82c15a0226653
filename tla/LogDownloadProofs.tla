------------------------- MODULE LogDownloadProofs -------------------------
(***************************************************************************)
(* What is proved of the download for every size of card, file, chunk and  *)
(* queue, and every set of requests.                                       *)
(*                                                                         *)
(* The argument.  A rotation replaces a file before the downloads of it    *)
(* are ended, one port after the other.  Outside that window, which Ends   *)
(* names, a download's slot holds the file its request found, still as     *)
(* long as the end that was fixed then (StreamIsCurrent); and the handle,  *)
(* if there is one, is at that download's position in that file            *)
(* (ReaderFollows).  A chunk is only read outside the window.  A position  *)
(* that the card did not take is the one way to read elsewhere.            *)
(***************************************************************************)
EXTENDS LogDownload, SequenceTheorems, TLAPS

\* The file of this port's download has been replaced, and the port has still
\* to be told.
Ends(p) == pc = "notify" /\ port <= p /\ stream[p].slot = cur

\* A download that did not find its file absent has a slot of the card.
SlotsKnown ==
  \A p \in Ports : ~ stream[p].absent => stream[p].slot \in Slot

\* The port that is about to be served has something to be served.
WorkChosen == pc = "piece" => Work(port)

Streaming(p) == stream[p].active /\ ~ stream[p].absent

StreamIsCurrent ==
  \A p \in Ports : Streaming(p) /\ ~ Ends(p) =>
    /\ stream[p].slot \in Slot
    /\ stream[p].end <= size[stream[p].slot]
    /\ asked[p].gen = gen[stream[p].slot]
    /\ asked[p].upto = stream[p].end
    /\ asked[p].from <= stream[p].pos

ReaderFollows ==
  \A p \in Ports : reader.port = p =>
    /\ Streaming(p)
    /\ reader.slot = stream[p].slot
    /\ reader.pos <= stream[p].pos
    /\ sought => reader.pos = stream[p].pos
    /\ stream[p].end <= reader.size
    /\ ~ Ends(p) => reader.gen = gen[stream[p].slot]

Asked == [gen : Nat, from : Nat, upto : Nat, logs : SUBSET Slot]

Given == [bytes : SUBSET (Nat \X Nat \X Nat),
          refused : SUBSET (Nat \X Nat \X Nat),
          short : Nat, mute : Nat, empty : Nat,
          entries : Seq(Slot), missed : SUBSET Slot,
          ended : {"no", "running", "done", "stopped", "reused", "failed"},
          listed : {"no", "running", "done"}, stop : BOOLEAN]

HistoryTypeOK ==
  /\ asked \in [Ports -> Asked]
  /\ given \in [Ports -> Given]

DownloadInv ==
  /\ TypeOK
  /\ SlotsKnown
  /\ WorkChosen
  /\ HistoryTypeOK
  /\ StreamIsCurrent
  /\ ReaderFollows
  /\ DeliversNamedFile

-----------------------------------------------------------------------------
(***************************************************************************)
(* The parts the actions share                                             *)
(***************************************************************************)

LEMMA PortsAre == NoPort \notin Ports /\ \A p \in Ports : Other(p) \in Ports
  BY DEF Ports, NoPort, Other

LEMMA SlotsAre == 0 \in Slot /\ Slot \subseteq Nat /\ \A s \in Slot : NextSlot(s) \in Slot
  BY DownloadAssumption DEF Slot, NextSlot

LEMMA NoReaderType == NoReader \in Reader
  BY SlotsAre DEF NoReader, Reader

LEMMA ReceiveType ==
  ASSUME TypeOK, NEW kind, Receive(kind)
  PROVE  /\ sdQueue' \in Seq(Request \cup {Record}) /\ Len(sdQueue') <= SdDepth
         /\ Head(sdQueue) \in Request \cup {Record}
         /\ Head(sdQueue).kind = kind
<1>1. sdQueue \in Seq(Request \cup {Record}) /\ sdQueue # <<>>
  BY DEF TypeOK, Receive
<1>2. /\ Head(sdQueue) \in Request \cup {Record}
      /\ Tail(sdQueue) \in Seq(Request \cup {Record})
      /\ Len(Tail(sdQueue)) = Len(sdQueue) - 1
  BY <1>1, HeadTailProperties
<1>3. Len(sdQueue) \in Nat /\ Len(sdQueue) <= SdDepth
  BY <1>1, LenProperties DEF TypeOK
<1>4. QED
  BY <1>2, <1>3, DownloadAssumption DEF Receive

\* A record's kind is not that of a request.
LEMMA ReceiveRequest ==
  ASSUME TypeOK, NEW kind \in {"list", "read", "end"}, Receive(kind)
  PROVE  Head(sdQueue) \in Request
  BY ReceiveType DEF Record

LEMMA AppendedFits ==
  ASSUME NEW S, NEW q \in Seq(S), NEW m \in S, NEW n \in Nat, Len(q) < n
  PROVE  Append(q, m) \in Seq(S) /\ Len(Append(q, m)) <= n
  BY AppendProperties, LenProperties

LEMMA PostType ==
  ASSUME TypeOK, NEW p \in Ports, NEW m \in {"other", "piece", "notice"}, Post(p, m)
  PROVE  /\ out' \in [Ports -> Seq({"other", "piece", "notice"})]
         /\ \A q \in Ports : Len(out'[q]) <= PortDepth
<1> DEFINE Message == {"other", "piece", "notice"}
<1>1. out \in [Ports -> Seq(Message)] /\ \A q \in Ports : Len(out[q]) <= PortDepth
  BY DEF TypeOK
<1>2. CASE Len(out[p]) < PortDepth
  <2>1. Append(out[p], m) \in Seq(Message) /\ Len(Append(out[p], m)) <= PortDepth
    BY <1>1, <1>2, AppendedFits, DownloadAssumption
  <2> HIDE DEF Message
  <2>2. out' = [out EXCEPT ![p] = Append(@, m)]
    BY <1>2 DEF Post
  <2>3. out' \in [Ports -> Seq(Message)] /\ \A q \in Ports : Len(out'[q]) <= PortDepth
    BY <1>1, <2>1, <2>2
  <2>4. QED
    BY <2>3 DEF Message
<1>3. CASE ~ (Len(out[p]) < PortDepth)
  BY <1>1, <1>3 DEF Post
<1>4. QED
  BY <1>2, <1>3

LEMMA EndStreamType ==
  ASSUME TypeOK, NEW p \in Ports, EndStream(p)
  PROVE  /\ stream' \in [Ports -> Stream]
         /\ reader' \in Reader
         /\ reader'.port # p
         /\ ~ stream'[p].active
         /\ \A q \in Ports \ {p} : stream'[q] = stream[q]
<1>1. stream[p] \in Stream /\ stream \in [Ports -> Stream]
  BY DEF TypeOK
<1>2. [stream[p] EXCEPT !.active = FALSE] \in Stream
  BY <1>1 DEF Stream
<1>3. stream' \in [Ports -> Stream] /\ ~ stream'[p].active
  BY <1>1, <1>2 DEF EndStream, Stream
<1>4. NoReader.port # p
  BY PortsAre DEF NoReader
<1>5. QED
  BY <1>1, <1>3, <1>4, NoReaderType DEF EndStream, ReaderWithout, TypeOK, Reader

LEMMA GivenEmptyType ==
  ASSUME given \in [Ports -> Given], NEW p \in Ports, NEW how \in {"done", "reused"}
  PROVE  /\ GivenEmpty(p, how) \in [Ports -> Given]
         /\ \A q \in Ports : GivenEmpty(p, how)[q].bytes = given[q].bytes
<1> DEFINE s == IF Fits(p) THEN given[p].short + 1 ELSE given[p].short
           m == IF Fits(p) THEN given[p].mute ELSE given[p].mute + 1
           e == given[p].empty + 1
           g == [given[p] EXCEPT !.short = s, !.mute = m, !.empty = e, !.ended = how]
<1>1. given[p] \in Given /\ s \in Nat /\ m \in Nat /\ e \in Nat
  BY DEF Given
<1>2. GivenEmpty(p, how) = [given EXCEPT ![p] = g]
  BY <1>1 DEF GivenEmpty, Given
<1> HIDE DEF s, m, e
<1>3. g \in Given /\ g.bytes = given[p].bytes
  BY <1>1 DEF Given
<1> HIDE DEF g
<1>4. QED
  BY <1>2, <1>3

LEMMA QueuedRequest ==
  ASSUME TypeOK, NEW r \in Request \cup {Record}
  PROVE  LET q == IF SdDepth - Len(sdQueue) < 2 THEN sdQueue ELSE Append(sdQueue, r)
         IN  q \in Seq(Request \cup {Record}) /\ Len(q) <= SdDepth
<1>1. sdQueue \in Seq(Request \cup {Record}) /\ Len(sdQueue) <= SdDepth
  BY DEF TypeOK
<1>2. Len(sdQueue) \in Nat /\ SdDepth \in Nat
  BY <1>1, LenProperties, DownloadAssumption
<1>3. CASE SdDepth - Len(sdQueue) < 2
  BY <1>1, <1>3
<1>4. CASE ~ (SdDepth - Len(sdQueue) < 2)
  <2>1. Len(sdQueue) < SdDepth
    BY <1>2, <1>4
  <2>2. QED
    BY <1>1, <1>2, <1>4, <2>1, AppendedFits
<1>5. QED
  BY <1>3, <1>4

LEMMA QueuedRecord ==
  ASSUME TypeOK
  PROVE  LET q == IF Len(sdQueue) < SdDepth THEN Append(sdQueue, Record) ELSE sdQueue
         IN  q \in Seq(Request \cup {Record}) /\ Len(q) <= SdDepth
  BY AppendedFits, DownloadAssumption DEF TypeOK

LEMMA TakenFits ==
  ASSUME TypeOK, NEW p \in Ports, LinkWrite(p)
  PROVE  /\ out' \in [Ports -> Seq({"other", "piece", "notice"})]
         /\ \A q \in Ports : Len(out'[q]) <= PortDepth
<1> DEFINE Message == {"other", "piece", "notice"}
<1>1. out \in [Ports -> Seq(Message)] /\ \A q \in Ports : Len(out[q]) <= PortDepth
  BY DEF TypeOK
<1> HIDE DEF Message
<1>2. out[p] \in Seq(Message) /\ out[p] # <<>> /\ Len(out[p]) <= PortDepth
  BY <1>1 DEF LinkWrite
<1>3. Tail(out[p]) \in Seq(Message) /\ Len(Tail(out[p])) = Len(out[p]) - 1
  BY <1>2, HeadTailProperties
<1>4. Len(Tail(out[p])) <= PortDepth
  BY <1>2, <1>3, LenProperties, DownloadAssumption
<1>5. out' \in [Ports -> Seq(Message)] /\ \A q \in Ports : Len(out'[q]) <= PortDepth
  BY <1>1, <1>3, <1>4 DEF LinkWrite
<1>6. QED
  BY <1>5 DEF Message

\* What a chunk of this length carries.
Carried(n) == {<<gen[ReaderOf(port).slot], stream[port].pos + i,
                 ReaderOf(port).pos + i>> : i \in 0 .. n - 1}

\* What the history says of it: the port's queue took it, or it did not.
ChunkPosted(p, n, c) ==
  given' = IF Fits(p)
    THEN [given EXCEPT ![p].bytes = @ \cup c,
                       ![p].short = IF n < Chunk THEN @ + 1 ELSE @]
    ELSE [given EXCEPT ![p].refused = @ \cup c,
                       ![p].mute = IF n < Chunk THEN @ + 1 ELSE @]

\* One chunk: what is read lies inside the file and the range.
LEMMA ChunkType ==
  ASSUME TypeOK, SlotsKnown, SendChunk
  PROVE  \E n \in 1 .. Chunk :
           /\ stream[port].pos + n <= stream[port].end
           /\ n = Least(Least(stream[port].end - stream[port].pos, Chunk),
                        ReaderOf(port).size - ReaderOf(port).pos)
           /\ stream' = [stream EXCEPT ![port].pos = @ + n,
                                      ![port].sentAny = TRUE,
                                      ![port].lastCount = n]
           /\ reader' = [ReaderOf(port) EXCEPT !.pos = @ + n]
           /\ ChunkPosted(port, n, Carried(n))
           /\ stream' \in [Ports -> Stream]
           /\ reader' \in Reader
           /\ ReaderOf(port) \in Reader
           /\ Carried(n) \in SUBSET (Nat \X Nat \X Nat)
<1> DEFINE r  == ReaderOf(port)
           st == stream[port]
           n  == Least(Least(st.end - st.pos, Chunk), r.size - r.pos)
<1>1. port \in Ports /\ st \in Stream /\ st.slot \in Slot
  BY DEF SendChunk, Unfinished, SlotsKnown, TypeOK
<1>2. st.pos \in Nat /\ st.end \in Nat /\ Chunk \in Nat
  BY <1>1, DownloadAssumption DEF Stream
<1>3. r \in Reader
  <2>1. gen[st.slot] \in Nat /\ size[st.slot] \in Nat
    BY <1>1 DEF TypeOK
  <2>2. QED
    BY <1>1, <1>2, <2>1 DEF ReaderOf, Reader, TypeOK
<1>4. r.size \in Nat /\ r.pos \in Nat
  BY <1>3 DEF Reader
<1>5. /\ n > 0
      /\ reader' = [r EXCEPT !.pos = @ + n]
      /\ stream' = [stream EXCEPT ![port].pos = @ + n,
                                  ![port].sentAny = TRUE,
                                  ![port].lastCount = n]
      /\ ChunkPosted(port, n, Carried(n))
  BY DEF SendChunk, Carried, ChunkPosted
<1>6. n \in 1 .. Chunk /\ st.pos + n <= st.end
  BY <1>2, <1>4, <1>5 DEF Least
<1>a. n = Least(Least(st.end - st.pos, Chunk), r.size - r.pos)
  OBVIOUS
<1> HIDE DEF n, r
<1>7. reader' \in Reader
  BY <1>3, <1>4, <1>5, <1>6 DEF Reader
<1>8. stream' \in [Ports -> Stream]
  <2>1. st.pos + n \in Nat /\ n \in 0 .. Chunk
    BY <1>2, <1>6
  <2>2. stream \in [Ports -> Stream]
    BY DEF TypeOK
  <2> HIDE DEF st
  <2>3. stream' = [stream EXCEPT ![port] =
                     [st EXCEPT !.pos = st.pos + n, !.sentAny = TRUE,
                                !.lastCount = n]]
    BY <1>1, <1>5, <2>2 DEF st
  <2>4. [st EXCEPT !.pos = st.pos + n, !.sentAny = TRUE, !.lastCount = n] \in Stream
    BY <1>1, <2>1 DEF Stream
  <2>5. QED
    BY <1>1, <2>2, <2>3, <2>4
<1>9. Carried(n) \in SUBSET (Nat \X Nat \X Nat)
  <2>1. r.slot \in Slot /\ gen[r.slot] \in Nat /\ n \in Nat
    BY <1>3, <1>6, DownloadAssumption DEF Reader, TypeOK
  <2>2. QED
    BY <1>2, <1>4, <2>1 DEF Carried, r
<1>10. QED
  BY <1>3, <1>5, <1>6, <1>a, <1>7, <1>8, <1>9 DEF r

LEMMA ChunkGiven ==
  ASSUME given \in [Ports -> Given], NEW p \in Ports, NEW n \in Nat,
         NEW c \in SUBSET (Nat \X Nat \X Nat), ChunkPosted(p, n, c)
  PROVE  /\ given' \in [Ports -> Given]
         /\ \A q \in Ports \ {p} : given'[q] = given[q]
         /\ given'[p].empty = given[p].empty /\ given'[p].ended = given[p].ended
         /\ given'[p].entries = given[p].entries /\ given'[p].missed = given[p].missed
         /\ given'[p].listed = given[p].listed
         /\ \/ /\ given'[p].bytes = given[p].bytes \cup c
               /\ given'[p].refused = given[p].refused
            \/ /\ given'[p].bytes = given[p].bytes
               /\ given'[p].refused = given[p].refused \cup c
         /\ given'[p].short + given'[p].mute =
              IF n < Chunk THEN given[p].short + given[p].mute + 1
              ELSE given[p].short + given[p].mute
<1> DEFINE h == given[p]
           s == IF n < Chunk THEN h.short + 1 ELSE h.short
           m == IF n < Chunk THEN h.mute + 1 ELSE h.mute
           b == h.bytes \cup c
           u == h.refused \cup c
           took == [h EXCEPT !.bytes = b, !.short = s]
           lost == [h EXCEPT !.refused = u, !.mute = m]
<1>1. h \in Given /\ h.short \in Nat /\ h.mute \in Nat
  BY DEF Given
<1>a. b \in SUBSET (Nat \X Nat \X Nat) /\ u \in SUBSET (Nat \X Nat \X Nat)
  BY <1>1 DEF Given
<1>2. /\ s \in Nat /\ m \in Nat
      /\ s + h.mute = IF n < Chunk THEN h.short + h.mute + 1 ELSE h.short + h.mute
      /\ h.short + m = IF n < Chunk THEN h.short + h.mute + 1 ELSE h.short + h.mute
  BY <1>1
<1>3. \/ given' = [given EXCEPT ![p] = took]
      \/ given' = [given EXCEPT ![p] = lost]
  BY <1>1 DEF ChunkPosted, Given
<1> HIDE DEF s, m
<1>4. /\ took \in Given /\ took.bytes = b /\ took.refused = h.refused
      /\ took.short = s /\ took.mute = h.mute
      /\ took.empty = h.empty /\ took.ended = h.ended /\ took.entries = h.entries
      /\ took.missed = h.missed /\ took.listed = h.listed
  BY <1>1, <1>2, <1>a DEF Given
<1>5. /\ lost \in Given /\ lost.bytes = h.bytes /\ lost.refused = u
      /\ lost.short = h.short /\ lost.mute = m
      /\ lost.empty = h.empty /\ lost.ended = h.ended /\ lost.entries = h.entries
      /\ lost.missed = h.missed /\ lost.listed = h.listed
  BY <1>1, <1>2, <1>a DEF Given
<1> HIDE DEF took, lost
<1>6. \A q \in Ports \ {p} : given'[q] = given[q]
  BY <1>3
<1>7. CASE given'[p] = took
  BY <1>2, <1>3, <1>4, <1>5, <1>6, <1>7
<1>8. CASE given'[p] = lost
  BY <1>2, <1>3, <1>4, <1>5, <1>6, <1>8
<1>9. QED
  BY <1>3, <1>7, <1>8

-----------------------------------------------------------------------------
(***************************************************************************)
(* Type correctness                                                        *)
(***************************************************************************)

LEMMA TypeInit == Init => TypeOK
<1> SUFFICES ASSUME Init PROVE TypeOK
  OBVIOUS
<1>1. gen \in [Slot -> Nat] /\ size \in [Slot -> Nat] /\ cur \in Slot
  <2>1. gen \in [Slot -> Nat]
    BY DEF Init
  <2>2. size \in [Slot -> Nat]
    BY <2>1, DownloadAssumption DEF Init
  <2>3. QED
    BY <2>1, <2>2 DEF Init
<1>2. sdQueue \in Seq(Request \cup {Record}) /\ Len(sdQueue) <= SdDepth
  BY DownloadAssumption, EmptySeq DEF Init
<1>3. /\ out \in [Ports -> Seq({"other", "piece", "notice"})]
      /\ \A p \in Ports : Len(out[p]) <= PortDepth
  BY DownloadAssumption, EmptySeq DEF Init
<1>4. stream \in [Ports -> Stream]
  BY DownloadAssumption DEF Init, Idle, Stream
<1>5. listing \in [Ports -> [active : BOOLEAN, first : Nat, last : Nat,
                             nextSlot : 0 .. Files]]
  BY DownloadAssumption DEF Init
<1>6. QED
  BY <1>1, <1>2, <1>3, <1>4, <1>5, NoReaderType DEF Init, TypeOK, Ports

LEMMA HistoryTypeInit == Init => HistoryTypeOK
  BY EmptySeq DEF Init, HistoryTypeOK, Asked, Given, NothingAsked, NothingGiven

LEMMA TypeStep == TypeOK /\ SlotsKnown /\ [Next]_vars => TypeOK'
<1> SUFFICES ASSUME TypeOK, SlotsKnown, [Next]_vars PROVE TypeOK'
  OBVIOUS
<1> USE DEF card, task, history
<1>1. CASE StartListing
  <2>1. Head(sdQueue) \in Request
    BY <1>1, ReceiveRequest DEF StartListing
  <2>2. listing' \in [Ports -> [active : BOOLEAN, first : Nat, last : Nat,
                                nextSlot : 0 .. Files]]
    <3> DEFINE r == Head(sdQueue)
    <3>1. r.port \in Ports /\ r.first \in Nat /\ r.last \in Nat /\ 0 \in 0 .. Files
      BY <2>1, DownloadAssumption DEF Request
    <3>2. listing' = [listing EXCEPT ![r.port] =
                        [active |-> TRUE, first |-> r.first, last |-> r.last,
                         nextSlot |-> 0]]
      BY <1>1 DEF StartListing
    <3> HIDE DEF r
    <3>3. QED
      BY <3>1, <3>2 DEF TypeOK
  <2>3. sdQueue' \in Seq(Request \cup {Record}) /\ Len(sdQueue') <= SdDepth
    BY <1>1, ReceiveType DEF StartListing
  <2>4. QED
    BY <1>1, <2>2, <2>3 DEF StartListing, TypeOK
<1>2. CASE StartStream
  <2> DEFINE r == Head(sdQueue)
  <2>1. r \in Request
    BY <1>2, ReceiveRequest DEF StartStream
  <2>2. r.port \in Ports /\ r.first \in Nat /\ r.ofs \in Nat /\ r.count \in Nat
    BY <2>1 DEF Request
  <2>3. PICK length \in {SlotLength(r.first - 1)} \cup IF ReadMayFail THEN {0} ELSE {} :
          stream' = [stream EXCEPT ![r.port] =
              [active |-> TRUE, absent |-> length = 0, slot |-> r.first - 1,
               pos |-> r.ofs, end |-> EndOf(r, length),
               toFileEnd |-> ToFileEnd(r, length), sentAny |-> FALSE,
               lastCount |-> 0]]
    BY <1>2 DEF StartStream
  <2>4. length \in Nat
    BY DEF SlotLength, TypeOK
  <2>5. EndOf(r, length) \in Nat /\ ToFileEnd(r, length) \in BOOLEAN
    BY <2>2, <2>4 DEF EndOf, ToFileEnd
  <2>6. 0 \in 0 .. Chunk /\ r.first - 1 \in Int
    BY <2>2, DownloadAssumption
  <2>7. stream' \in [Ports -> Stream]
    <3> HIDE DEF r
    <3>1. stream \in [Ports -> Stream]
      BY DEF TypeOK
    <3>2. QED
      BY <2>2, <2>3, <2>5, <2>6, <3>1 DEF Stream
  <2>8. reader' \in Reader
    BY <1>2, NoReaderType DEF StartStream, ReaderWithout, TypeOK
  <2>9. sdQueue' \in Seq(Request \cup {Record}) /\ Len(sdQueue') <= SdDepth
    BY <1>2, ReceiveType DEF StartStream
  <2>10. QED
    BY <1>2, <2>7, <2>8, <2>9 DEF StartStream, TypeOK
<1>3. CASE StopStream
  <2>1. Head(sdQueue) \in Request
    BY <1>3, ReceiveRequest DEF StopStream
  <2>2. Head(sdQueue).port \in Ports
    BY <2>1 DEF Request
  <2>3. sdQueue' \in Seq(Request \cup {Record}) /\ Len(sdQueue') <= SdDepth
    BY <1>3, ReceiveType DEF StopStream
  <2>4. QED
    BY <1>3, <2>2, <2>3, EndStreamType DEF StopStream, TypeOK
<1>4. CASE WriteRecord
  <2>1. sdQueue' \in Seq(Request \cup {Record}) /\ Len(sdQueue') <= SdDepth
    BY <1>4, ReceiveType DEF WriteRecord
  <2>2. NextSlot(cur) \in Slot /\ gen[cur] + 1 \in Nat
    <3>1. cur \in Slot /\ gen[cur] \in Nat
      BY DEF TypeOK
    <3>2. QED
      BY <3>1, SlotsAre
  <2>3. size[cur] + tail + 1 \in Nat /\ tail + 1 \in Nat /\ PreambleLen \in Nat
    <3>1. size[cur] \in Nat /\ tail \in Nat
      BY DEF TypeOK
    <3>2. QED
      BY <3>1, DownloadAssumption
  <2>4. /\ gen' \in [Slot -> Nat] /\ size' \in [Slot -> Nat]
        /\ cur' \in Slot /\ tail' \in Nat
    <3>1. /\ gen \in [Slot -> Nat] /\ size \in [Slot -> Nat]
          /\ cur \in Slot /\ tail \in Nat
      BY DEF TypeOK
    <3>2. QED
      BY <1>4, <2>2, <2>3, <3>1 DEF WriteRecord
  <2>5. pc' \in {"drain", "notify", "piece"} /\ port' \in Ports
    BY <1>4 DEF WriteRecord, TypeOK, Ports
  <2>6. QED
    BY <1>4, <2>1, <2>4, <2>5 DEF WriteRecord, TypeOK
<1>5. CASE NotifyReuse
  <2>1. port \in Ports
    BY DEF TypeOK
  <2>2. CASE OfReusedFile(port)
    <3>1. Post(port, "notice") /\ EndStream(port)
      BY <1>5, <2>2 DEF NotifyReuse
    <3>2. /\ out' \in [Ports -> Seq({"other", "piece", "notice"})]
          /\ \A q \in Ports : Len(out'[q]) <= PortDepth
      BY <2>1, <3>1, PostType
    <3>3. QED
      BY <1>5, <2>1, <3>1, <3>2, EndStreamType DEF NotifyReuse, TypeOK, Ports
  <2>3. CASE ~ OfReusedFile(port)
    BY <1>5, <2>3 DEF NotifyReuse, TypeOK, Ports
  <2>4. QED
    BY <2>2, <2>3
<1>6. CASE ChoosePort
  BY <1>6, PortsAre DEF ChoosePort, Turn, TypeOK
<1>7. CASE ServiceListing
  <2> DEFINE todo == ToList(listing[port])
  <2>1. port \in Ports /\ Files \in Nat
    BY DownloadAssumption DEF TypeOK
  <2>2. CASE /\ listing' = [listing EXCEPT ![port].active = FALSE,
                                           ![port].nextSlot = Files]
             /\ UNCHANGED out
    <3>1. Files \in 0 .. Files
      BY <2>1
    <3>2. listing' \in [Ports -> [active : BOOLEAN, first : Nat, last : Nat,
                                  nextSlot : 0 .. Files]]
      BY <2>1, <2>2, <3>1 DEF TypeOK
    <3>3. QED
      BY <1>7, <2>2, <3>2 DEF ServiceListing, TypeOK
  <2>3. CASE \E s \in todo :
               /\ listing' = [listing EXCEPT ![port].nextSlot = s + 1]
               /\ Post(port, "piece")
    <3>1. PICK s \in Slot : /\ listing' = [listing EXCEPT ![port].nextSlot = s + 1]
                            /\ Post(port, "piece")
      BY <2>3 DEF ToList
    <3>2. s + 1 \in 0 .. Files
      BY <2>1 DEF Slot
    <3>3. listing' \in [Ports -> [active : BOOLEAN, first : Nat, last : Nat,
                                  nextSlot : 0 .. Files]]
      BY <2>1, <3>1, <3>2 DEF TypeOK
    <3>4. /\ out' \in [Ports -> Seq({"other", "piece", "notice"})]
          /\ \A q \in Ports : Len(out'[q]) <= PortDepth
      BY <2>1, <3>1, PostType
    <3>5. QED
      BY <1>7, <3>3, <3>4 DEF ServiceListing, TypeOK
  <2>4. QED
    BY <1>7, <2>2, <2>3 DEF ServiceListing
<1>8. CASE ServiceAbsent
  <2>1. port \in Ports /\ Post(port, "piece")
    BY <1>8 DEF ServiceAbsent, TypeOK
  <2>2. /\ out' \in [Ports -> Seq({"other", "piece", "notice"})]
        /\ \A q \in Ports : Len(out'[q]) <= PortDepth
    BY <2>1, PostType
  <2>3. stream' \in [Ports -> Stream]
    <3>1. stream \in [Ports -> Stream] /\ stream[port] \in Stream
      BY <2>1 DEF TypeOK
    <3>2. [stream[port] EXCEPT !.active = FALSE] \in Stream
      BY <3>1 DEF Stream
    <3>3. stream' = [stream EXCEPT ![port] = [stream[port] EXCEPT !.active = FALSE]]
      BY <1>8 DEF ServiceAbsent
    <3>4. QED
      BY <2>1, <3>1, <3>2, <3>3
  <2>4. QED
    BY <1>8, <2>2, <2>3 DEF ServiceAbsent, Service, TypeOK
<1>9. CASE ServiceFinished
  <2>1. port \in Ports /\ EndStream(port)
    BY <1>9 DEF ServiceFinished, TypeOK
  <2>2. Post(port, "piece") \/ UNCHANGED out
    BY <1>9 DEF ServiceFinished
  <2>3. /\ out' \in [Ports -> Seq({"other", "piece", "notice"})]
        /\ \A q \in Ports : Len(out'[q]) <= PortDepth
    BY <2>1, <2>2, PostType DEF TypeOK
  <2>4. QED
    BY <1>9, <2>1, <2>3, EndStreamType DEF ServiceFinished, Service, TypeOK
<1>10. CASE WaitForReader
  BY <1>10 DEF WaitForReader, Service, TypeOK
<1>a. CASE SeekFails
  <2>1. port \in Ports /\ stream[port] \in Stream /\ stream[port].slot \in Slot
    BY <1>a DEF SeekFails, Unfinished, SlotsKnown, TypeOK
  <2>2. gen[stream[port].slot] \in Nat /\ size[stream[port].slot] \in Nat
    BY <2>1 DEF TypeOK
  <2>3. reader' = [port |-> port, slot |-> stream[port].slot,
                   gen |-> gen[stream[port].slot], size |-> size[stream[port].slot],
                   pos |-> 0]
    BY <1>a, <2>1, PortsAre DEF SeekFails, ReaderOf
  <2>4. reader' \in Reader
    BY <2>1, <2>2, <2>3 DEF Reader
  <2>5. QED
    BY <1>a, <2>4 DEF SeekFails, TypeOK
<1>11. CASE ReadFails
  <2>1. port \in Ports /\ EndStream(port)
    BY <1>11 DEF ReadFails, TypeOK
  <2>2. QED
    BY <1>11, <2>1, EndStreamType DEF ReadFails, Service, TypeOK
<1>12. CASE SendChunk
  <2>1. port \in Ports /\ Post(port, "piece")
    BY <1>12 DEF SendChunk, TypeOK
  <2>2. /\ out' \in [Ports -> Seq({"other", "piece", "notice"})]
        /\ \A q \in Ports : Len(out'[q]) <= PortDepth
    BY <2>1, PostType
  <2>3. stream' \in [Ports -> Stream] /\ reader' \in Reader
    BY <1>12, ChunkType
  <2>4. QED
    BY <1>12, <2>2, <2>3 DEF SendChunk, Service, TypeOK
<1>13. CASE ForwardLogRequest
  <2>1. PICK r \in Requests :
          sdQueue' = IF SdDepth - Len(sdQueue) < 2 THEN sdQueue
                     ELSE Append(sdQueue, r)
    BY <1>13 DEF ForwardLogRequest
  <2>2. r \in Request \cup {Record}
    BY DownloadAssumption
  <2>3. sdQueue' \in Seq(Request \cup {Record}) /\ Len(sdQueue') <= SdDepth
    BY <2>1, <2>2, QueuedRequest
  <2>4. QED
    BY <1>13, <2>3 DEF ForwardLogRequest, TypeOK
<1>14. CASE PostRecord
  <2>1. sdQueue' = IF Len(sdQueue) < SdDepth THEN Append(sdQueue, Record) ELSE sdQueue
    BY <1>14 DEF PostRecord
  <2>2. sdQueue' \in Seq(Request \cup {Record}) /\ Len(sdQueue') <= SdDepth
    BY <2>1, QueuedRecord
  <2>3. QED
    BY <1>14, <2>2 DEF PostRecord, TypeOK
<1>15. CASE \E p \in Ports : PostOther(p)
  <2>1. PICK p \in Ports : PostOther(p)
    BY <1>15
  <2>2. Post(p, "other")
    BY <2>1 DEF PostOther, Post
  <2>3. /\ out' \in [Ports -> Seq({"other", "piece", "notice"})]
        /\ \A q \in Ports : Len(out'[q]) <= PortDepth
    BY <2>2, PostType
  <2>4. QED
    BY <2>1, <2>3 DEF PostOther, TypeOK
<1>16. CASE \E p \in Ports : LinkWrite(p)
  <2>1. PICK p \in Ports : LinkWrite(p)
    BY <1>16
  <2>2. /\ out' \in [Ports -> Seq({"other", "piece", "notice"})]
        /\ \A q \in Ports : Len(out'[q]) <= PortDepth
    BY <2>1, TakenFits
  <2>3. QED
    BY <2>1, <2>2 DEF LinkWrite, TypeOK
<1>17. CASE UNCHANGED vars
  BY <1>17 DEF vars, TypeOK
<1>18. QED
  BY <1>1, <1>2, <1>3, <1>4, <1>5, <1>6, <1>7, <1>8, <1>9, <1>10, <1>a, <1>11,
     <1>12, <1>13, <1>14, <1>15, <1>16, <1>17 DEF Next, TaskSdWrite

\* What a request to read leaves behind: a download of the file as it is now, or
\* of nothing.
LEMMA StartedStream ==
  ASSUME TypeOK, StartStream
  PROVE  \E p \in Ports : \E r \in Request : \E length \in Nat :
           /\ stream' = [stream EXCEPT ![p] =
                [active |-> TRUE, absent |-> length = 0, slot |-> r.first - 1,
                 pos |-> r.ofs, end |-> EndOf(r, length),
                 toFileEnd |-> ToFileEnd(r, length), sentAny |-> FALSE,
                 lastCount |-> 0]]
           /\ reader' = ReaderWithout(p)
           /\ asked' = [asked EXCEPT
                ![p].gen = IF length = 0 THEN 0 ELSE gen[r.first - 1],
                ![p].from = r.ofs,
                ![p].upto = Least(r.ofs + r.count, length)]
           /\ given' = [given EXCEPT ![p].bytes = {}, ![p].refused = {},
                                     ![p].short = 0, ![p].mute = 0,
                                     ![p].empty = 0, ![p].ended = "running"]
           /\ length # 0 => r.first - 1 \in Slot /\ length = size[r.first - 1]
<1> DEFINE r == Head(sdQueue)
<1>1. r \in Request /\ r.port \in Ports
  BY ReceiveRequest DEF StartStream, Request
<1>2. PICK length \in {SlotLength(r.first - 1)} \cup IF ReadMayFail THEN {0} ELSE {} :
        /\ stream' = [stream EXCEPT ![r.port] =
             [active |-> TRUE, absent |-> length = 0, slot |-> r.first - 1,
              pos |-> r.ofs, end |-> EndOf(r, length),
              toFileEnd |-> ToFileEnd(r, length), sentAny |-> FALSE,
              lastCount |-> 0]]
        /\ reader' = ReaderWithout(r.port)
        /\ asked' = [asked EXCEPT
             ![r.port].gen = IF length = 0 THEN 0 ELSE gen[r.first - 1],
             ![r.port].from = r.ofs,
             ![r.port].upto = Least(r.ofs + r.count, length)]
        /\ given' = [given EXCEPT ![r.port].bytes = {}, ![r.port].refused = {},
                                  ![r.port].short = 0, ![r.port].mute = 0,
                                  ![r.port].empty = 0, ![r.port].ended = "running"]
  BY DEF StartStream
<1>3. length \in Nat
  BY DEF SlotLength, TypeOK
<1>4. length # 0 => r.first - 1 \in Slot /\ length = size[r.first - 1]
  BY <1>2 DEF SlotLength
<1> HIDE DEF r
<1>5. QED
  BY <1>1, <1>2, <1>3, <1>4

-----------------------------------------------------------------------------
(***************************************************************************)
(* What a step does to the downloads                                       *)
(***************************************************************************)

\* What relates the downloads to the card, to the handle and to what was given.
Downloads ==
  /\ SlotsKnown
  /\ StreamIsCurrent
  /\ ReaderFollows
  /\ DeliversNamedFile

SameBytes ==
  /\ sought' => sought
  /\ \A p \in Ports : /\ asked'[p].gen = asked[p].gen
                      /\ asked'[p].from = asked[p].from
                      /\ asked'[p].upto = asked[p].upto
                      /\ given'[p].bytes = given[p].bytes

\* Steps that concern no download.
LEMMA DownloadsStand ==
  ASSUME Downloads, SameBytes, UNCHANGED <<gen, size, cur, stream, reader>>,
         \A p \in Ports : Ends(p)' <=> Ends(p)
  PROVE  Downloads'
<1>1. SlotsKnown'
  BY DEF Downloads, SlotsKnown
<1>2. StreamIsCurrent'
  BY DEF Downloads, StreamIsCurrent, Streaming, SameBytes
<1>3. ReaderFollows'
  BY DEF Downloads, ReaderFollows, Streaming, SameBytes
<1>4. DeliversNamedFile'
  BY DEF Downloads, DeliversNamedFile, AskedBytes, SameBytes
<1>5. QED
  BY <1>1, <1>2, <1>3, <1>4 DEF Downloads

\* Steps that end one.
LEMMA DownloadEnds ==
  ASSUME TypeOK, Downloads, SameBytes, UNCHANGED <<gen, size, cur>>,
         NEW p \in Ports, EndStream(p),
         \A q \in Ports \ {p} : Ends(q)' <=> Ends(q)
  PROVE  Downloads'
<1>1. /\ ~ stream'[p].active /\ reader'.port # p
      /\ \A q \in Ports \ {p} : stream'[q] = stream[q]
  BY EndStreamType
<1>2. stream'[p].absent = stream[p].absent /\ stream'[p].slot = stream[p].slot
  BY DEF EndStream, TypeOK, Stream
<1>3. reader' = reader \/ reader'.port \notin Ports
  BY PortsAre DEF EndStream, ReaderWithout, NoReader
<1>4. SlotsKnown'
  BY <1>1, <1>2 DEF Downloads, SlotsKnown
<1>5. StreamIsCurrent'
  BY <1>1 DEF Downloads, StreamIsCurrent, Streaming, SameBytes
<1>6. ReaderFollows'
  <2> SUFFICES ASSUME NEW q \in Ports, reader'.port = q
               PROVE  /\ Streaming(q)'
                      /\ reader'.slot = stream'[q].slot
                      /\ reader'.pos <= stream'[q].pos
                      /\ sought' => reader'.pos = stream'[q].pos
                      /\ stream'[q].end <= reader'.size
                      /\ ~ Ends(q)' => reader'.gen = gen'[stream'[q].slot]
    BY DEF ReaderFollows
  <2>1. q # p /\ reader' = reader /\ stream'[q] = stream[q]
    BY <1>1, <1>3
  <2>2. QED
    BY <2>1 DEF Downloads, ReaderFollows, Streaming, SameBytes
<1>7. DeliversNamedFile'
  BY DEF Downloads, DeliversNamedFile, AskedBytes, SameBytes
<1>8. QED
  BY <1>4, <1>5, <1>6, <1>7 DEF Downloads

\* A request for a file fixes what it should deliver.
LEMMA DownloadStarts ==
  ASSUME TypeOK, HistoryTypeOK, Downloads, StartStream
  PROVE  Downloads' /\ HistoryTypeOK'
<1>1. PICK p \in Ports, r \in Request, length \in Nat :
        /\ stream' = [stream EXCEPT ![p] =
             [active |-> TRUE, absent |-> length = 0, slot |-> r.first - 1,
              pos |-> r.ofs, end |-> EndOf(r, length),
              toFileEnd |-> ToFileEnd(r, length), sentAny |-> FALSE,
              lastCount |-> 0]]
        /\ reader' = ReaderWithout(p)
        /\ asked' = [asked EXCEPT
             ![p].gen = IF length = 0 THEN 0 ELSE gen[r.first - 1],
             ![p].from = r.ofs,
             ![p].upto = Least(r.ofs + r.count, length)]
        /\ given' = [given EXCEPT ![p].bytes = {}, ![p].refused = {},
                                  ![p].short = 0, ![p].mute = 0,
                                  ![p].empty = 0, ![p].ended = "running"]
        /\ length # 0 => r.first - 1 \in Slot /\ length = size[r.first - 1]
  BY StartedStream
<1>2. r.ofs \in Nat /\ r.count \in Nat
  BY DEF Request
<1>3. UNCHANGED <<gen, size, cur, pc, port, sought>> /\ pc = "drain"
  BY DEF StartStream, card, Receive
<1>4. EndOf(r, length) = Least(r.ofs + r.count, length)
  BY <1>2 DEF EndOf, ToFileEnd, Least
<1>5. /\ stream'[p].active /\ stream'[p].absent = (length = 0)
      /\ stream'[p].slot = r.first - 1 /\ stream'[p].pos = r.ofs
      /\ stream'[p].end = Least(r.ofs + r.count, length)
      /\ \A q \in Ports \ {p} : stream'[q] = stream[q]
  BY <1>1, <1>4 DEF TypeOK
<1>6. /\ asked'[p].gen = IF length = 0 THEN 0 ELSE gen[r.first - 1]
      /\ asked'[p].from = r.ofs
      /\ asked'[p].upto = Least(r.ofs + r.count, length)
      /\ \A q \in Ports \ {p} : asked'[q] = asked[q]
  BY <1>1 DEF HistoryTypeOK, Asked
<1>7. given'[p].bytes = {} /\ \A q \in Ports \ {p} : given'[q] = given[q]
  BY <1>1 DEF HistoryTypeOK, Given
<1>8. SlotsKnown'
  BY <1>1, <1>5 DEF Downloads, SlotsKnown
<1>9. StreamIsCurrent'
  <2>1. length # 0 => Least(r.ofs + r.count, length) <= size[r.first - 1]
    BY <1>1, <1>2 DEF Least
  <2>2. SUFFICES ASSUME NEW q \in Ports, Streaming(q)', ~ Ends(q)'
                 PROVE  /\ stream'[q].slot \in Slot
                        /\ stream'[q].end <= size'[stream'[q].slot]
                        /\ asked'[q].gen = gen'[stream'[q].slot]
                        /\ asked'[q].upto = stream'[q].end
                        /\ asked'[q].from <= stream'[q].pos
    BY DEF StreamIsCurrent
  <2>3. CASE q = p
    <3>1. length # 0
      BY <1>5, <2>2, <2>3 DEF Streaming
    <3>2. QED
      BY <1>1, <1>2, <1>3, <1>5, <1>6, <2>1, <2>3, <3>1
  <2>4. CASE q # p
    <3>1. Streaming(q) /\ ~ Ends(q)
      BY <1>3, <1>5, <2>2, <2>4 DEF Streaming, Ends
    <3>2. QED
      BY <1>3, <1>5, <1>6, <2>4, <3>1 DEF Downloads, StreamIsCurrent
  <2>5. QED
    BY <2>3, <2>4
<1>10. ReaderFollows'
  <2>1. reader'.port # p /\ (reader' = reader \/ reader'.port \notin Ports)
    BY <1>1, PortsAre DEF ReaderWithout, NoReader
  <2>2. QED
    BY <1>3, <1>5, <2>1 DEF Downloads, ReaderFollows, Streaming, Ends
<1>11. DeliversNamedFile'
  BY <1>3, <1>6, <1>7 DEF Downloads, DeliversNamedFile, AskedBytes
<1>12. HistoryTypeOK'
  <2>1. Least(r.ofs + r.count, length) \in Nat
    BY <1>2 DEF Least
  <2>2. (IF length = 0 THEN 0 ELSE gen[r.first - 1]) \in Nat
    BY <1>1 DEF TypeOK
  <2>3. asked' \in [Ports -> Asked]
    <3>1. asked[p] \in Asked /\ asked \in [Ports -> Asked]
      BY DEF HistoryTypeOK
    <3>2. [asked[p] EXCEPT !.gen = IF length = 0 THEN 0 ELSE gen[r.first - 1],
                           !.from = r.ofs,
                           !.upto = Least(r.ofs + r.count, length)] \in Asked
      BY <1>2, <2>1, <2>2, <3>1 DEF Asked
    <3>3. QED
      BY <1>1, <3>1, <3>2
  <2>4. given' \in [Ports -> Given]
    <3>1. given[p] \in Given /\ given \in [Ports -> Given]
      BY DEF HistoryTypeOK
    <3>2. [given[p] EXCEPT !.bytes = {}, !.refused = {}, !.short = 0, !.mute = 0,
                           !.empty = 0, !.ended = "running"] \in Given
      BY <3>1 DEF Given
    <3>3. given' = [given EXCEPT ![p] =
                      [given[p] EXCEPT !.bytes = {}, !.refused = {}, !.short = 0,
                                       !.mute = 0, !.empty = 0, !.ended = "running"]]
      BY <1>1, <3>1 DEF Given
    <3>4. QED
      BY <3>1, <3>2, <3>3
  <2>5. QED
    BY <2>3, <2>4 DEF HistoryTypeOK
<1>13. QED
  BY <1>8, <1>9, <1>10, <1>11, <1>12 DEF Downloads


\* A chunk carries bytes of the file the id named, at the offsets it says.
LEMMA DownloadContinues ==
  ASSUME TypeOK, HistoryTypeOK, WorkChosen, Downloads, SendChunk
  PROVE  Downloads' /\ HistoryTypeOK'
<1> DEFINE st == stream[port]
           r  == ReaderOf(port)
<1>1. PICK n \in 1 .. Chunk :
        /\ st.pos + n <= st.end
        /\ stream' = [stream EXCEPT ![port].pos = @ + n,
                                   ![port].sentAny = TRUE,
                                   ![port].lastCount = n]
        /\ reader' = [r EXCEPT !.pos = @ + n]
        /\ ChunkPosted(port, n, Carried(n))
        /\ r \in Reader
        /\ Carried(n) \in SUBSET (Nat \X Nat \X Nat)
  BY ChunkType DEF Downloads
<1>2. /\ port \in Ports /\ UNCHANGED <<gen, size, cur, asked, sought>>
      /\ pc = "piece" /\ pc' = "drain"
  BY DEF SendChunk, Service, card, TypeOK
<1>3. /\ st.pos \in Nat /\ st.end \in Nat /\ n \in Nat
  <2>1. stream[port] \in Stream
    BY <1>2 DEF TypeOK
  <2>2. st.pos \in Nat /\ st.end \in Nat
    BY <2>1 DEF Stream
  <2>3. n \in Nat
    BY DownloadAssumption
  <2>4. QED
    BY <2>2, <2>3
<1>4. Streaming(port) /\ ~ Ends(port)
  BY <1>2 DEF SendChunk, Service, Unfinished, WorkChosen, Work, Streaming, Ends
<1>5. /\ st.slot \in Slot /\ st.end <= size[st.slot]
      /\ asked[port].gen = gen[st.slot] /\ asked[port].upto = st.end
      /\ asked[port].from <= st.pos
  BY <1>2, <1>4 DEF Downloads, StreamIsCurrent
<1>6. /\ r.port = port /\ r.slot = st.slot
      /\ r.pos <= st.pos /\ (sought => r.pos = st.pos)
      /\ st.end <= r.size /\ r.gen = gen[st.slot]
  BY <1>2, <1>3, <1>4, <1>5 DEF ReaderOf, Downloads, ReaderFollows
<1>7. /\ stream'[port].active /\ ~ stream'[port].absent
      /\ stream'[port].slot = st.slot
      /\ stream'[port].end = st.end /\ stream'[port].pos = st.pos + n
      /\ \A q \in Ports \ {port} : stream'[q] = stream[q]
  <2>1. stream \in [Ports -> Stream] /\ st \in Stream
    BY <1>2 DEF TypeOK
  <2>2. stream' = [stream EXCEPT ![port] =
                     [st EXCEPT !.pos = st.pos + n, !.sentAny = TRUE,
                                !.lastCount = n]]
    BY <1>1, <1>2, <2>1
  <2>3. st.active /\ ~ st.absent
    BY <1>4 DEF Streaming
  <2> HIDE DEF st
  <2>4. QED
    BY <1>2, <2>1, <2>2, <2>3 DEF Stream
<1>9. /\ reader'.port = port /\ reader'.slot = st.slot
      /\ reader'.pos <= st.pos + n /\ (sought => reader'.pos = st.pos + n)
      /\ st.end <= reader'.size /\ reader'.gen = gen[st.slot]
  <2>1. r \in Reader /\ r.pos \in Nat
    BY <1>1 DEF Reader
  <2> HIDE DEF r
  <2>2. /\ reader'.port = r.port /\ reader'.slot = r.slot /\ reader'.pos = r.pos + n
        /\ reader'.size = r.size /\ reader'.gen = r.gen
    BY <1>1, <2>1 DEF Reader
  <2>3. QED
    BY <1>3, <1>6, <2>1, <2>2
<1>10. sought => Carried(n) \subseteq AskedBytes(port)
  <2> SUFFICES ASSUME sought, NEW i \in 0 .. n - 1
               PROVE  <<gen[r.slot], st.pos + i, r.pos + i>> \in AskedBytes(port)
    BY DEF Carried
  <2>1. st.pos + i \in asked[port].from .. asked[port].upto - 1
    <3>1. asked[port].from \in Nat
      BY <1>2 DEF HistoryTypeOK, Asked
    <3>2. QED
      BY <1>1, <1>3, <1>5, <3>1
  <2>2. QED
    BY <1>5, <1>6, <2>1 DEF AskedBytes
<1>11. /\ given' \in [Ports -> Given]
       /\ \A q \in Ports \ {port} : given'[q].bytes = given[q].bytes
       /\ \/ given'[port].bytes = given[port].bytes
          \/ given'[port].bytes = given[port].bytes \cup Carried(n)
  <2>1. given \in [Ports -> Given]
    BY DEF HistoryTypeOK
  <2>2. QED
    BY <1>1, <1>2, <1>3, <2>1, ChunkGiven
<1>12. SlotsKnown'
  BY <1>5, <1>7 DEF Downloads, SlotsKnown
<1>13. StreamIsCurrent'
  <2>1. \A q \in Ports : ~ Ends(q) /\ ~ Ends(q)'
    BY <1>2 DEF Ends
  <2>2. asked[port].from <= st.pos + n
    BY <1>2, <1>3, <1>5 DEF HistoryTypeOK, Asked
  <2>3. SUFFICES ASSUME NEW q \in Ports, Streaming(q)'
                 PROVE  /\ stream'[q].slot \in Slot
                        /\ stream'[q].end <= size'[stream'[q].slot]
                        /\ asked'[q].gen = gen'[stream'[q].slot]
                        /\ asked'[q].upto = stream'[q].end
                        /\ asked'[q].from <= stream'[q].pos
    BY DEF StreamIsCurrent
  <2>4. CASE q = port
    BY <1>2, <1>5, <1>7, <2>2, <2>4
  <2>5. CASE q # port
    <3>1. stream'[q] = stream[q] /\ Streaming(q)
      BY <1>7, <2>3, <2>5 DEF Streaming
    <3>2. QED
      BY <1>2, <2>1, <3>1 DEF Downloads, StreamIsCurrent
  <2>6. QED
    BY <2>4, <2>5
<1>14. ReaderFollows'
  <2> SUFFICES ASSUME NEW q \in Ports, reader'.port = q
               PROVE  /\ stream'[q].active /\ ~ stream'[q].absent
                      /\ reader'.slot = stream'[q].slot
                      /\ reader'.pos <= stream'[q].pos
                      /\ sought' => reader'.pos = stream'[q].pos
                      /\ stream'[q].end <= reader'.size
                      /\ reader'.gen = gen'[stream'[q].slot]
    BY DEF ReaderFollows, Streaming
  <2>1. q = port
    BY <1>9
  <2> HIDE DEF st
  <2>2. QED
    BY <1>2, <1>7, <1>9, <2>1
<1>15. DeliversNamedFile'
  <2>1. sought => \A q \in Ports : given'[q].bytes \subseteq AskedBytes(q)
    BY <1>2, <1>10, <1>11 DEF Downloads, DeliversNamedFile
  <2>2. QED
    BY <1>2, <2>1 DEF DeliversNamedFile, AskedBytes
<1>16. QED
  BY <1>2, <1>11, <1>12, <1>13, <1>14, <1>15 DEF Downloads, HistoryTypeOK

\* A record: a file only grows, and a rotation replaces the one whose downloads
\* are about to be ended.
LEMMA DownloadsSurviveRecord ==
  ASSUME TypeOK, Downloads, SameBytes, WriteRecord
  PROVE  Downloads'
<1>1. UNCHANGED <<stream, reader>> /\ pc = "drain"
  BY DEF WriteRecord, Receive
<1>2. /\ cur \in Slot /\ size[cur] \in Nat /\ tail \in Nat
      /\ gen \in [Slot -> Nat] /\ size \in [Slot -> Nat]
  BY DEF TypeOK
<1>3. \A s \in Slot :
        \/ gen'[s] = gen[s] /\ size'[s] \in Nat /\ size[s] <= size'[s]
        \/ pc' = "notify" /\ port' = 0 /\ s = cur'
  <2>1. CASE size[cur] + tail + 1 >= SlotSize
    <3> DEFINE next == NextSlot(cur)
    <3>1. /\ cur' = next /\ pc' = "notify" /\ port' = 0
          /\ gen' = [gen EXCEPT ![next] = gen[cur] + 1]
          /\ size' = [size EXCEPT ![cur] = size[cur] + tail + 1,
                                  ![next] = PreambleLen]
      BY <1>2, <2>1, DownloadAssumption DEF WriteRecord
    <3>2. next \in Slot
      BY <1>2, SlotsAre
    <3> HIDE DEF next
    <3>3. ASSUME NEW s \in Slot, s # next
          PROVE  gen'[s] = gen[s] /\ size'[s] \in Nat /\ size[s] <= size'[s]
      <4>1. size'[s] = IF s = cur THEN size[cur] + tail + 1 ELSE size[s]
        BY <1>2, <3>1, <3>2, <3>3
      <4>2. QED
        BY <1>2, <3>1, <3>2, <3>3, <4>1
    <3>4. QED
      BY <3>1, <3>3
  <2>2. CASE size[cur] + tail + 1 < SlotSize
    <3>1. gen' = gen /\ (size' = size \/ size' = [size EXCEPT ![cur] = size[cur] + tail + 1])
      BY <1>2, <2>2, DownloadAssumption DEF WriteRecord
    <3>3. QED
      BY <1>2, <3>1
  <2>3. QED
    BY <2>1, <2>2 DEF WriteRecord
<1>4. \A p \in Ports : ~ Ends(p)' /\ stream[p].slot \in Slot =>
        /\ gen'[stream[p].slot] = gen[stream[p].slot]
        /\ size'[stream[p].slot] \in Nat
        /\ size[stream[p].slot] <= size'[stream[p].slot]
  BY <1>1, <1>3 DEF Ends, Ports
<1>5. SlotsKnown'
  BY <1>1 DEF Downloads, SlotsKnown
<1>6. StreamIsCurrent'
  <2> SUFFICES ASSUME NEW p \in Ports, Streaming(p)', ~ Ends(p)'
               PROVE  /\ stream'[p].slot \in Slot
                      /\ stream'[p].end <= size'[stream'[p].slot]
                      /\ asked'[p].gen = gen'[stream'[p].slot]
                      /\ asked'[p].upto = stream'[p].end
                      /\ asked'[p].from <= stream'[p].pos
    BY DEF StreamIsCurrent
  <2>1. Streaming(p) /\ ~ Ends(p)
    BY <1>1 DEF Streaming, Ends
  <2>2. /\ stream[p].slot \in Slot /\ stream[p].end <= size[stream[p].slot]
        /\ asked[p].gen = gen[stream[p].slot] /\ asked[p].upto = stream[p].end
        /\ asked[p].from <= stream[p].pos
    BY <2>1 DEF Downloads, StreamIsCurrent
  <2>3. stream[p].end <= size'[stream[p].slot]
    <3>1. stream[p].end \in Nat /\ size[stream[p].slot] \in Nat
      BY <2>2 DEF TypeOK, Stream
    <3>2. QED
      BY <1>4, <2>2, <3>1
  <2>4. QED
    BY <1>1, <1>4, <2>2, <2>3 DEF SameBytes
<1>7. ReaderFollows'
  <2> SUFFICES ASSUME NEW p \in Ports, reader'.port = p
               PROVE  /\ Streaming(p)'
                      /\ reader'.slot = stream'[p].slot
                      /\ reader'.pos <= stream'[p].pos
                      /\ sought' => reader'.pos = stream'[p].pos
                      /\ stream'[p].end <= reader'.size
                      /\ ~ Ends(p)' => reader'.gen = gen'[stream'[p].slot]
    BY DEF ReaderFollows
  <2>1. Streaming(p) /\ ~ Ends(p)
    BY <1>1 DEF Downloads, ReaderFollows, Ends
  <2>2. stream[p].slot \in Slot
    BY <2>1 DEF Downloads, StreamIsCurrent
  <2>3. QED
    BY <1>1, <1>4, <2>1, <2>2 DEF Downloads, ReaderFollows, Streaming, SameBytes
<1>8. DeliversNamedFile'
  BY DEF Downloads, DeliversNamedFile, AskedBytes, SameBytes
<1>9. QED
  BY <1>5, <1>6, <1>7, <1>8 DEF Downloads

\* A handle that is not where its download is, but is in its file.
LEMMA DownloadMisses ==
  ASSUME TypeOK, Downloads, SameBytes, WorkChosen, SeekFails
  PROVE  Downloads'
<1>1. /\ port \in Ports /\ UNCHANGED <<gen, size, cur, stream, pc, port>> /\ pc = "piece"
      /\ sought' = FALSE
  BY DEF SeekFails, card, TypeOK
<1>2. Streaming(port) /\ \A q \in Ports : ~ Ends(q) /\ ~ Ends(q)'
  BY <1>1 DEF SeekFails, Unfinished, WorkChosen, Work, Streaming, Ends
<1>3. /\ reader'.port = port /\ reader'.slot = stream[port].slot
      /\ reader'.gen = gen[stream[port].slot] /\ reader'.pos = 0
      /\ reader'.size = size[stream[port].slot]
  BY <1>1, PortsAre DEF SeekFails, ReaderOf
<1>4. stream[port].end <= size[stream[port].slot] /\ 0 <= stream[port].pos
  <2>1. stream[port].pos \in Nat
    BY <1>1 DEF TypeOK, Stream
  <2>2. QED
    BY <1>1, <1>2, <2>1 DEF Downloads, StreamIsCurrent
<1>5. SlotsKnown'
  BY <1>1 DEF Downloads, SlotsKnown
<1>6. StreamIsCurrent'
  BY <1>1, <1>2 DEF Downloads, StreamIsCurrent, Streaming, SameBytes
<1>7. ReaderFollows'
  BY <1>1, <1>2, <1>3, <1>4 DEF ReaderFollows, Streaming
<1>8. DeliversNamedFile'
  BY <1>1 DEF DeliversNamedFile
<1>9. QED
  BY <1>5, <1>6, <1>7, <1>8 DEF Downloads

\* The window after a rotation closes, one port after the other.
LEMMA DownloadsEndOnReuse ==
  ASSUME TypeOK, Downloads, SameBytes, NotifyReuse
  PROVE  Downloads'
<1>1. port \in {0, 1} /\ port \in Ports /\ UNCHANGED <<gen, size, cur>> /\ pc = "notify"
  BY DEF NotifyReuse, card, TypeOK, Ports
<1>2. CASE OfReusedFile(port)
  <2>1. EndStream(port)
    BY <1>2 DEF NotifyReuse
  <2>2. \A q \in Ports \ {port} : stream'[q] = stream[q]
    BY <1>1, <2>1, EndStreamType
  <2>3. \A q \in Ports \ {port} : Ends(q)' <=> Ends(q)
    BY <1>1, <2>2 DEF NotifyReuse, Ends, Ports
  <2>4. QED
    BY <1>1, <2>1, <2>3, DownloadEnds
<1>3. CASE ~ OfReusedFile(port)
  <2>1. UNCHANGED <<stream, reader>>
    BY <1>3 DEF NotifyReuse
  <2>2. \A q \in Ports : Streaming(q) => (Ends(q)' <=> Ends(q))
    BY <1>1, <1>3, <2>1 DEF NotifyReuse, Ends, Ports, OfReusedFile, Streaming
  <2>3. SlotsKnown'
    BY <2>1 DEF Downloads, SlotsKnown
  <2>4. StreamIsCurrent'
    BY <1>1, <2>1, <2>2 DEF Downloads, StreamIsCurrent, Streaming, SameBytes
  <2>5. ReaderFollows'
    BY <1>1, <2>1, <2>2 DEF Downloads, ReaderFollows, Streaming, SameBytes
  <2>6. DeliversNamedFile'
    BY DEF Downloads, DeliversNamedFile, AskedBytes, SameBytes
  <2>7. QED
    BY <2>3, <2>4, <2>5, <2>6 DEF Downloads
<1>4. QED
  BY <1>2, <1>3

LEMMA GivenUpdate ==
  ASSUME given \in [Ports -> Given], NEW p \in Ports, NEW g \in Given,
         g.bytes = given[p].bytes, given' = [given EXCEPT ![p] = g]
  PROVE  given' \in [Ports -> Given] /\ \A q \in Ports : given'[q].bytes = given[q].bytes
  OBVIOUS

\* What the history says of one step of a listing.
LEMMA GivenListing ==
  ASSUME TypeOK, given \in [Ports -> Given], ServiceListing
  PROVE  \/ \E l \in {"done"}, m \in SUBSET Slot :
              given' = [given EXCEPT ![port].listed = l, ![port].missed = m]
         \/ \E s \in Slot, m \in SUBSET Slot :
              given' = [given EXCEPT ![port].entries = Append(@, s),
                                     ![port].missed = m]
         \/ \E m \in SUBSET Slot : given' = [given EXCEPT ![port].missed = m]
<1> DEFINE todo == ToList(listing[port])
           old  == given[port].missed
<1>1. port \in Ports /\ given[port] \in Given /\ old \in SUBSET Slot /\ todo \in SUBSET Slot
  BY DEF TypeOK, Given, ToList
<1>2. CASE given' = [given EXCEPT ![port].listed = "done", ![port].missed = @ \cup todo]
  <2>1. given' = [given EXCEPT ![port].listed = "done", ![port].missed = old \cup todo]
    BY <1>1, <1>2 DEF Given
  <2>2. old \cup todo \in SUBSET Slot
    BY <1>1
  <2> HIDE DEF todo, old
  <2>3. QED
    BY <2>1, <2>2
<1>3. ASSUME NEW s \in todo, NEW skipped \in SUBSET todo,
             given' = IF Fits(port)
               THEN [given EXCEPT ![port].entries = Append(@, s),
                                  ![port].missed = @ \cup skipped]
               ELSE [given EXCEPT ![port].missed = @ \cup skipped \cup {s}]
      PROVE  \/ \E m \in SUBSET Slot :
                  given' = [given EXCEPT ![port].entries = Append(@, s),
                                         ![port].missed = m]
             \/ \E m \in SUBSET Slot : given' = [given EXCEPT ![port].missed = m]
  <2>1. /\ old \cup skipped \in SUBSET Slot
        /\ old \cup skipped \cup {s} \in SUBSET Slot
    BY <1>1
  <2>2. CASE Fits(port)
    <3>1. given' = [given EXCEPT ![port].entries = Append(@, s),
                                 ![port].missed = old \cup skipped]
      BY <1>1, <1>3, <2>2 DEF Given
    <3>2. QED
      BY <2>1, <3>1
  <2>3. CASE ~ Fits(port)
    <3>1. given' = [given EXCEPT ![port].missed = old \cup skipped \cup {s}]
      BY <1>1, <1>3, <2>3
    <3>2. QED
      BY <2>1, <3>1
  <2>4. QED
    BY <2>2, <2>3
<1>4. \/ given' = [given EXCEPT ![port].listed = "done", ![port].missed = @ \cup todo]
      \/ \E s \in todo : \E skipped \in SUBSET todo :
           given' = IF Fits(port)
             THEN [given EXCEPT ![port].entries = Append(@, s),
                                ![port].missed = @ \cup skipped]
             ELSE [given EXCEPT ![port].missed = @ \cup skipped \cup {s}]
  BY DEF ServiceListing
<1>5. todo \subseteq Slot
  BY <1>1
<1> HIDE DEF todo
<1>6. QED
  BY <1>2, <1>3, <1>4, <1>5

\* A reader that has been left elsewhere stays in the history.
LEMMA SoughtStays == [Next]_vars /\ sought' => sought
  BY DEF Next, TaskSdWrite, vars, history, StartListing, StartStream, StopStream,
         WriteRecord, NotifyReuse, ChoosePort, ServiceListing, ServiceAbsent,
         ServiceFinished, WaitForReader, SeekFails, ReadFails, SendChunk, Service,
         ForwardLogRequest, PostRecord, PostOther, LinkWrite

\* Of the history, the other steps change what no download's bytes depend on.
LEMMA HistoryStep ==
  ASSUME TypeOK, HistoryTypeOK, Next, ~ StartStream, ~ SendChunk
  PROVE  SameBytes /\ HistoryTypeOK'
<1> USE DEF HistoryTypeOK
<1>1. port \in Ports
  BY DEF TypeOK
<1>0. sought' => sought
  BY SoughtStays DEF vars
<1>2. CASE UNCHANGED <<asked, given>>
  BY <1>0, <1>2 DEF SameBytes
<1>3. CASE StartListing
  <2> DEFINE r == Head(sdQueue)
             logs == {s \in Slot : Exists(s) /\ InRange(s, r.first, r.last)}
  <2>1. r.port \in Ports
    BY <1>3, ReceiveRequest DEF StartListing, Request
  <2>2. /\ asked' = [asked EXCEPT ![r.port].logs = logs]
        /\ given' = [given EXCEPT ![r.port].entries = <<>>,
                                  ![r.port].missed = {},
                                  ![r.port].listed = "running"]
    BY <1>3 DEF StartListing
  <2>3. logs \in SUBSET Slot /\ <<>> \in Seq(Slot)
    BY EmptySeq
  <2> HIDE DEF logs, r
  <2>4. asked' \in [Ports -> Asked]
    BY <2>1, <2>2, <2>3 DEF Asked
  <2> DEFINE g == [given[r.port] EXCEPT !.entries = <<>>, !.missed = {},
                                        !.listed = "running"]
  <2>5. given[r.port] \in Given
    BY <2>1
  <2>6. given' = [given EXCEPT ![r.port] = g]
    BY <2>1, <2>2, <2>5 DEF Given
  <2>7. g \in Given /\ g.bytes = given[r.port].bytes
    BY <2>3, <2>5 DEF Given
  <2> HIDE DEF g
  <2>8. given' \in [Ports -> Given] /\ \A q \in Ports : given'[q].bytes = given[q].bytes
    BY <2>1, <2>6, <2>7, GivenUpdate
  <2>9. QED
    BY <1>0, <2>1, <2>2, <2>4, <2>8 DEF SameBytes, Asked
<1>4. CASE StopStream
  <2>1. Head(sdQueue).port \in Ports
    BY <1>4, ReceiveRequest DEF StopStream, Request
  <2> DEFINE p == Head(sdQueue).port
             e == IF stream[p].active THEN "stopped" ELSE given[p].ended
             g == [given[p] EXCEPT !.ended = e]
  <2>2. given[p] \in Given
    BY <2>1
  <2>3. g \in Given /\ g.bytes = given[p].bytes
    BY <2>2 DEF Given
  <2>4. given' = [given EXCEPT ![p] = g] /\ UNCHANGED asked
    BY <1>4, <2>1, <2>2 DEF StopStream, Given
  <2> HIDE DEF p, g
  <2>5. QED
    BY <1>0, <2>1, <2>3, <2>4, GivenUpdate DEF SameBytes, p
<1>5. CASE NotifyReuse
  BY <1>0, <1>1, <1>5, GivenEmptyType DEF NotifyReuse, SameBytes
<1>6. CASE ServiceListing
  <2>1. given[port] \in Given
    BY <1>1
  <2>2. UNCHANGED asked
    BY <1>6 DEF ServiceListing
  <2>3. \/ \E l \in {"done"}, m \in SUBSET Slot :
             given' = [given EXCEPT ![port].listed = l, ![port].missed = m]
        \/ \E s \in Slot, m \in SUBSET Slot :
             given' = [given EXCEPT ![port].entries = Append(@, s),
                                    ![port].missed = m]
        \/ \E m \in SUBSET Slot : given' = [given EXCEPT ![port].missed = m]
    BY <1>6, GivenListing DEF HistoryTypeOK
  <2>4. ASSUME NEW m \in SUBSET Slot,
               given' = [given EXCEPT ![port].listed = "done", ![port].missed = m]
        PROVE  SameBytes /\ HistoryTypeOK'
    <3> DEFINE g == [given[port] EXCEPT !.listed = "done", !.missed = m]
    <3>1. given' = [given EXCEPT ![port] = g]
      BY <1>1, <2>1, <2>4 DEF Given
    <3>2. g \in Given /\ g.bytes = given[port].bytes
      BY <2>1 DEF Given
    <3> HIDE DEF g
    <3>3. QED
      BY <1>0, <1>1, <2>2, <3>1, <3>2, GivenUpdate DEF SameBytes
  <2>5. ASSUME NEW s \in Slot, NEW m \in SUBSET Slot,
               given' = [given EXCEPT ![port].entries = Append(@, s),
                                      ![port].missed = m]
        PROVE  SameBytes /\ HistoryTypeOK'
    <3> DEFINE e == Append(given[port].entries, s)
               g == [given[port] EXCEPT !.entries = e, !.missed = m]
    <3>1. e \in Seq(Slot)
      BY <2>1, AppendProperties DEF Given
    <3>2. given' = [given EXCEPT ![port] = g]
      BY <1>1, <2>1, <2>5 DEF Given
    <3> HIDE DEF e
    <3>3. g \in Given /\ g.bytes = given[port].bytes
      BY <2>1, <3>1 DEF Given
    <3> HIDE DEF g
    <3>4. QED
      BY <1>0, <1>1, <2>2, <3>2, <3>3, GivenUpdate DEF SameBytes
  <2>6. ASSUME NEW m \in SUBSET Slot, given' = [given EXCEPT ![port].missed = m]
        PROVE  SameBytes /\ HistoryTypeOK'
    <3> DEFINE g == [given[port] EXCEPT !.missed = m]
    <3>1. given' = [given EXCEPT ![port] = g]
      BY <1>1, <2>1, <2>6 DEF Given
    <3>2. g \in Given /\ g.bytes = given[port].bytes
      BY <2>1 DEF Given
    <3> HIDE DEF g
    <3>3. QED
      BY <1>0, <1>1, <2>2, <3>1, <3>2, GivenUpdate DEF SameBytes
  <2>7. QED
    BY <2>3, <2>4, <2>5, <2>6
<1>7. CASE ServiceAbsent
  BY <1>0, <1>1, <1>7, GivenEmptyType DEF ServiceAbsent, Service, SameBytes
<1>8. CASE ServiceFinished
  <2>1. UNCHANGED asked
    BY <1>8 DEF ServiceFinished, Service
  <2>2. CASE given' = GivenEmpty(port, "done")
    BY <1>0, <1>1, <2>1, <2>2, GivenEmptyType DEF SameBytes
  <2>3. CASE given' = [given EXCEPT ![port].ended = "done"]
    <3> DEFINE g == [given[port] EXCEPT !.ended = "done"]
    <3>1. given' = [given EXCEPT ![port] = g] /\ given[port] \in Given
      BY <1>1, <2>3
    <3>2. g \in Given /\ g.bytes = given[port].bytes
      BY <3>1 DEF Given
    <3> HIDE DEF g
    <3>3. QED
      BY <1>0, <1>1, <2>1, <3>1, <3>2, GivenUpdate DEF SameBytes
  <2>4. QED
    BY <1>8, <2>2, <2>3 DEF ServiceFinished
<1>9. CASE ReadFails
  <2> DEFINE g == [given[port] EXCEPT !.ended = "failed"]
  <2>1. given' = [given EXCEPT ![port] = g] /\ UNCHANGED asked
    BY <1>9 DEF ReadFails, Service
  <2>2. given[port] \in Given
    BY <1>1
  <2>3. g \in Given /\ g.bytes = given[port].bytes
    BY <2>2 DEF Given
  <2> HIDE DEF g
  <2>4. QED
    BY <1>0, <1>1, <2>1, <2>3, GivenUpdate DEF SameBytes
<1>10. CASE ForwardLogRequest
  <2>1. PICK r \in Requests :
          given' = [given EXCEPT ![r.port].stop =
                      IF r.kind = "list" THEN @ ELSE r.kind = "end"]
    BY <1>10 DEF ForwardLogRequest
  <2>2. r.port \in Ports
    BY DownloadAssumption DEF Request
  <2> DEFINE b == IF r.kind = "list" THEN given[r.port].stop ELSE r.kind = "end"
             g == [given[r.port] EXCEPT !.stop = b]
  <2>3. given[r.port] \in Given
    BY <2>2
  <2>4. b \in BOOLEAN
    BY <2>3 DEF Given
  <2>5. given' = [given EXCEPT ![r.port] = g]
    BY <2>1, <2>2, <2>3 DEF Given
  <2> HIDE DEF b
  <2>6. g \in Given /\ g.bytes = given[r.port].bytes
    BY <2>3, <2>4 DEF Given
  <2>7. UNCHANGED asked
    BY <1>10 DEF ForwardLogRequest
  <2> HIDE DEF g
  <2>8. QED
    BY <1>0, <2>2, <2>5, <2>6, <2>7, GivenUpdate DEF SameBytes
<1>11. QED
  BY <1>2, <1>3, <1>4, <1>5, <1>6, <1>7, <1>8, <1>9, <1>10
  DEF Next, TaskSdWrite, history, WriteRecord, ChoosePort, WaitForReader,
      SeekFails, Service, PostRecord, PostOther, LinkWrite

LEMMA WorkChosenStep == TypeOK /\ WorkChosen /\ [Next]_vars => WorkChosen'
<1> SUFFICES ASSUME TypeOK, WorkChosen, [Next]_vars, pc' = "piece"
             PROVE  Work(port)'
  BY DEF WorkChosen
<1>1. CASE ChoosePort
  BY <1>1 DEF ChoosePort, Ready, Work
<1>2. CASE UNCHANGED <<pc, port, listing, stream>>
  BY <1>2 DEF WorkChosen, Work
<1>3. QED
  BY <1>1, <1>2
  DEF Next, TaskSdWrite, vars, task, StartListing, StartStream, StopStream,
      WriteRecord, NotifyReuse, ServiceListing, ServiceAbsent, ServiceFinished,
      WaitForReader, SeekFails, ReadFails, SendChunk, Service, Receive,
      ForwardLogRequest, PostRecord, PostOther, LinkWrite

-----------------------------------------------------------------------------
(***************************************************************************)
(* The invariant                                                           *)
(***************************************************************************)

LEMMA InvInit == Init => DownloadInv
<1> SUFFICES ASSUME Init PROVE DownloadInv
  OBVIOUS
<1>1. \A p \in Ports : /\ ~ stream[p].active /\ stream[p].slot = 0
                       /\ given[p].bytes = {} /\ reader.port # p
  BY PortsAre DEF Init, Idle, NothingGiven, NoReader
<1>2. SlotsKnown /\ StreamIsCurrent /\ ReaderFollows /\ DeliversNamedFile
  BY <1>1, SlotsAre
  DEF SlotsKnown, StreamIsCurrent, ReaderFollows, DeliversNamedFile, Streaming
<1>3. WorkChosen
  BY DEF Init, WorkChosen
<1>4. QED
  BY <1>2, <1>3, TypeInit, HistoryTypeInit DEF DownloadInv

LEMMA DownloadsStep ==
  ASSUME DownloadInv, Next
  PROVE  Downloads' /\ HistoryTypeOK'
<1> USE DEF DownloadInv, Downloads
<1>1. CASE StartStream
  BY <1>1, DownloadStarts
<1>2. CASE SendChunk
  BY <1>2, DownloadContinues
<1>3. ASSUME ~ StartStream, ~ SendChunk
      PROVE  Downloads' /\ HistoryTypeOK'
  <2>1. SameBytes /\ HistoryTypeOK'
    BY <1>3, HistoryStep
  <2>2. CASE WriteRecord
    BY <2>1, <2>2, DownloadsSurviveRecord
  <2>3. CASE NotifyReuse
    BY <2>1, <2>3, DownloadsEndOnReuse
  <2>4. CASE StopStream
    <3>1. Head(sdQueue).port \in Ports /\ EndStream(Head(sdQueue).port)
      BY <2>4, ReceiveRequest DEF StopStream, Request
    <3>2. UNCHANGED <<gen, size, cur, pc>> /\ pc = "drain"
      BY <2>4 DEF StopStream, card, Receive
    <3>3. \A q \in Ports : ~ Ends(q) /\ ~ Ends(q)'
      BY <3>2 DEF Ends
    <3>4. QED
      BY <2>1, <3>1, <3>2, <3>3, DownloadEnds
  <2>5. CASE ServiceFinished \/ ReadFails
    <3>1. /\ port \in Ports /\ EndStream(port)
          /\ UNCHANGED <<gen, size, cur>> /\ pc = "piece" /\ pc' = "drain"
      BY <2>5 DEF ServiceFinished, ReadFails, Service, card, TypeOK
    <3>2. \A q \in Ports : ~ Ends(q) /\ ~ Ends(q)'
      BY <3>1 DEF Ends
    <3>3. QED
      BY <2>1, <3>1, <3>2, DownloadEnds
  <2>6. CASE ServiceAbsent
    <3>1. /\ port \in Ports /\ stream[port].absent
          /\ stream' = [stream EXCEPT ![port].active = FALSE]
          /\ UNCHANGED <<gen, size, cur, reader>> /\ pc = "piece" /\ pc' = "drain"
      BY <2>6 DEF ServiceAbsent, Service, card, TypeOK
    <3>2. \A q \in Ports : ~ Ends(q) /\ ~ Ends(q)'
      BY <3>1 DEF Ends
    <3>3. reader.port # port
      BY <3>1 DEF ReaderFollows, Streaming
    <3>4. EndStream(port)
      BY <3>1, <3>3 DEF EndStream, ReaderWithout
    <3>5. QED
      BY <2>1, <3>1, <3>2, <3>4, DownloadEnds
  <2>7. CASE /\ UNCHANGED <<gen, size, cur, stream, reader>>
             /\ \/ UNCHANGED <<pc, port>>
                \/ pc # "notify" /\ pc' # "notify"
    <3>1. \A q \in Ports : Ends(q)' <=> Ends(q)
      BY <2>7 DEF Ends
    <3>2. QED
      BY <2>1, <2>7, <3>1, DownloadsStand
  <2>8. CASE SeekFails
    BY <2>1, <2>8, DownloadMisses
  <2>9. QED
    BY <1>3, <2>2, <2>3, <2>4, <2>5, <2>6, <2>7, <2>8
    DEF Next, TaskSdWrite, card, task, StartListing, ChoosePort, ServiceListing,
        WaitForReader, Service, ForwardLogRequest, PostRecord, PostOther, LinkWrite
<1>4. QED
  BY <1>1, <1>2, <1>3

LEMMA InvStep == DownloadInv /\ [Next]_vars => DownloadInv'
<1> SUFFICES ASSUME DownloadInv, [Next]_vars PROVE DownloadInv'
  OBVIOUS
<1>1. TypeOK' /\ WorkChosen'
  BY TypeStep, WorkChosenStep DEF DownloadInv
<1>2. CASE Next
  BY <1>1, <1>2, DownloadsStep DEF DownloadInv, Downloads
<1>3. CASE UNCHANGED vars
  <2>1. Downloads' /\ HistoryTypeOK'
    <3>1. /\ UNCHANGED <<gen, size, cur, stream, reader, asked, given, pc, port>>
          /\ Downloads /\ SameBytes
      BY <1>3 DEF vars, card, task, history, DownloadInv, Downloads, SameBytes
    <3>2. \A p \in Ports : Ends(p)' <=> Ends(p)
      BY <3>1 DEF Ends
    <3>3. QED
      BY <3>1, <3>2, DownloadsStand DEF DownloadInv, HistoryTypeOK
  <2>2. QED
    BY <1>1, <2>1 DEF DownloadInv, Downloads
<1>4. QED
  BY <1>2, <1>3

LEMMA Invariance == Spec => []DownloadInv
  BY InvInit, InvStep, PTL DEF Spec

\* Every variable of TaskSdWrite and its queues keeps its type.  (sdwrite.cpp.)
THEOREM TypeCorrect == Spec => []TypeOK
<1>1. DownloadInv => TypeOK
  BY DEF DownloadInv
<1>2. QED
  BY <1>1, Invariance, PTL

\* A download delivers bytes of the file its id named when it was asked for, at
\* the offsets it says, wherever the rotations fall, as long as the card has
\* refused no reader its position.  (serviceStream(), writeRecord().)
THEOREM DeliversOnlyNamedFile == Spec => []DeliversNamedFile
<1>1. DownloadInv => DeliversNamedFile
  BY DEF DownloadInv
<1>2. QED
  BY <1>1, Invariance, PTL

\* The one handle is never that of a download that has ended, nor in a file that
\* has been replaced, nor, as long as the card has refused none, at another place.
\* (endStream(), closeReader().)
THEOREM ReaderStaysCurrent == Spec => []ReaderIsCurrent
<1>1. ASSUME DownloadInv, reader.port # NoPort, pc # "notify"
      PROVE  LET st == stream[reader.port] IN
               /\ st.active /\ ~ st.absent
               /\ reader.slot = st.slot /\ (sought => reader.pos = st.pos)
               /\ reader.gen = gen[st.slot]
               /\ st.end <= reader.size
  <2>1. reader.port \in Ports /\ ~ Ends(reader.port)
    BY <1>1 DEF DownloadInv, TypeOK, Reader, Ends
  <2>2. QED
    BY <1>1, <2>1 DEF DownloadInv, ReaderFollows, Streaming
<1>2. DownloadInv => ReaderIsCurrent
  BY <1>1 DEF ReaderIsCurrent
<1>3. QED
  BY <1>2, Invariance, PTL

=============================================================================
