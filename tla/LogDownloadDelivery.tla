------------------------ MODULE LogDownloadDelivery ------------------------
(***************************************************************************)
(* What is proved of what a download and a listing deliver, for every size *)
(* of card, file, chunk and queue, and every set of requests.              *)
(*                                                                         *)
(* The argument.  Nobody looks at what becomes of a piece once it has been *)
(* posted, so what holds is said of what was posted: what the queue of the *)
(* port took together with what it refused.  A download under way has      *)
(* posted every byte up to its position, and no more, none of them twice,  *)
(* and one chunk that is not full exactly if it has reached its end by one *)
(* (Running); and a listing has named every log before its cursor that was *)
(* neither refused nor kept back by the card (ListingSoFar), as no file    *)
(* ever leaves the card empty (FilesHoldSomething).                        *)
(***************************************************************************)
EXTENDS LogDownloadProofs

FilesHoldSomething == \A s \in Slot : Exists(s) => size[s] > 0

\* The bytes of a file between two offsets, each where it belongs.
BytesOf(file, from, end) == {<<file, o, o>> : o \in from .. end - 1}

\* The bytes of what was asked for that lie before an offset.
BytesBefore(p, end) == BytesOf(asked[p].gen, asked[p].from, end)

\* What was posted, whether or not the queue took it, is all before an offset.
PostedBefore(p, end) ==
  /\ given[p].bytes \cup given[p].refused = BytesBefore(p, end)
  /\ given[p].bytes \cap given[p].refused = {}

PostedAsAsked(p) ==
  /\ given[p].bytes \cup given[p].refused = AskedBytes(p)
  /\ given[p].bytes \cap given[p].refused = {}

\* How many chunks that are not full were posted.
Told(p) == given[p].short + given[p].mute

\* A download under way.
Running(p) ==
  LET st == stream[p]
  IN  /\ sought => PostedBefore(p, st.pos)
      /\ asked[p].upto = st.end
      /\ st.pos <= st.end \/ st.pos = asked[p].from
      /\ Told(p) = IF st.sentAny /\ st.lastCount < Chunk THEN 1 ELSE 0
      /\ Told(p) = 1 => st.pos >= st.end
      /\ given[p].empty = 0
      /\ st.absent => st.end = 0 /\ st.pos = asked[p].from /\ st.toFileEnd /\ ~ st.sentAny

\* A download that ran to its end.
Complete(p) ==
  /\ sought => PostedAsAsked(p)
  /\ IF stream[p].toFileEnd THEN Told(p) = 1 ELSE given[p].empty = 0

DeliveryOf(p) ==
  /\ stream[p].active <=> given[p].ended = "running"
  /\ given[p].ended = "running" => Running(p)
  /\ given[p].ended = "done" => Complete(p)

Delivery == \A p \in Ports : DeliveryOf(p)

Names(p, s) == \E i \in 1 .. Len(given[p].entries) : given[p].entries[i] = s

InOrder(p) ==
  LET named == given[p].entries IN
    /\ \A i, j \in 1 .. Len(named) : i < j => named[i] < named[j]
    /\ \A i \in 1 .. Len(named) : named[i] < listing[p].nextSlot

\* The log is named, or the card or the queue would not have it.
Settled(p, s) == Names(p, s) \/ s \in given[p].missed

\* A listing under way has a cursor behind which every log is settled.
ListingSoFar(p) ==
  \A s \in asked[p].logs :
    /\ Exists(s) /\ InRange(s, listing[p].first, listing[p].last)
    /\ s < listing[p].nextSlot => Settled(p, s)

ListingOf(p) ==
  /\ listing[p].active <=> given[p].listed = "running"
  /\ InOrder(p)
  /\ given[p].listed = "running" => ListingSoFar(p)
  /\ given[p].listed = "done" => \A s \in asked[p].logs : Settled(p, s)

Listings == \A p \in Ports : ListingOf(p)

DeliveryInv == FilesHoldSomething /\ Delivery /\ Listings

-----------------------------------------------------------------------------
(***************************************************************************)
(* What a download has posted                                              *)
(***************************************************************************)

\* Nothing that concerns this port's download.
Untouched(p) ==
  /\ sought' => sought
  /\ stream'[p] = stream[p]
  /\ asked'[p].gen = asked[p].gen /\ asked'[p].from = asked[p].from
  /\ asked'[p].upto = asked[p].upto
  /\ given'[p].bytes = given[p].bytes /\ given'[p].refused = given[p].refused
  /\ given'[p].short = given[p].short /\ given'[p].mute = given[p].mute
  /\ given'[p].empty = given[p].empty /\ given'[p].ended = given[p].ended

LEMMA DeliveryStands ==
  ASSUME NEW p \in Ports, DeliveryOf(p), Untouched(p)
  PROVE  DeliveryOf(p)'
<1>1. BytesBefore(p, stream[p].pos)' = BytesBefore(p, stream[p].pos) /\ AskedBytes(p)' = AskedBytes(p)
  BY DEF Untouched, BytesBefore, AskedBytes
<1>2. QED
  BY <1>1 DEF DeliveryOf, Untouched, Running, Complete, PostedBefore, PostedAsAsked,
               Told

LEMMA DeliveryStops ==
  ASSUME NEW p \in Ports, ~ stream'[p].active,
         given'[p].ended \in {"stopped", "reused", "failed"}
  PROVE  DeliveryOf(p)'
  BY DEF DeliveryOf

LEMMA StreamEnds ==
  ASSUME TypeOK, NEW p \in Ports, stream' = [stream EXCEPT ![p].active = FALSE]
  PROVE  /\ ~ stream'[p].active /\ stream'[p].toFileEnd = stream[p].toFileEnd
         /\ \A q \in Ports \ {p} : stream'[q] = stream[q]
         /\ ~ stream[p].active => stream' = stream
<1>1. stream \in [Ports -> Stream] /\ stream[p] \in Stream
  BY DEF TypeOK
<1>2. ~ stream[p].active => [stream[p] EXCEPT !.active = FALSE] = stream[p]
  BY <1>1 DEF Stream
<1>3. stream' = [stream EXCEPT ![p] = [stream[p] EXCEPT !.active = FALSE]]
  OBVIOUS
<1>4. ~ stream[p].active => stream' = stream
  BY <1>1, <1>2, <1>3
<1>5. QED
  BY <1>1, <1>3, <1>4 DEF Stream

\* An empty chunk, in the fields of the history.
LEMMA EmptyIs ==
  ASSUME HistoryTypeOK, NEW p \in Ports, NEW how \in {"done", "reused"},
         given' = GivenEmpty(p, how)
  PROVE  /\ given'[p].ended = how /\ given'[p].bytes = given[p].bytes
         /\ given'[p].refused = given[p].refused
         /\ Told(p)' = Told(p) + 1
         /\ \A q \in Ports \ {p} : given'[q] = given[q]
         /\ \A q \in Ports : given'[q].entries = given[q].entries
                            /\ given'[q].missed = given[q].missed
                            /\ given'[q].listed = given[q].listed
<1>1. /\ given \in [Ports -> Given] /\ given[p] \in Given
      /\ given[p].short \in Nat /\ given[p].mute \in Nat
  BY DEF HistoryTypeOK, Given
<1> DEFINE s == IF Fits(p) THEN given[p].short + 1 ELSE given[p].short
           m == IF Fits(p) THEN given[p].mute ELSE given[p].mute + 1
           e == given[p].empty + 1
           g == [given[p] EXCEPT !.short = s, !.mute = m, !.empty = e, !.ended = how]
<1>2. given' = [given EXCEPT ![p] = g]
  BY <1>1 DEF GivenEmpty, Given
<1>3. s + m = given[p].short + given[p].mute + 1
  BY <1>1
<1> HIDE DEF s, m, e
<1>4. /\ g.ended = how /\ g.bytes = given[p].bytes /\ g.refused = given[p].refused
      /\ g.short = s /\ g.mute = m
      /\ g.entries = given[p].entries /\ g.missed = given[p].missed
      /\ g.listed = given[p].listed
  BY <1>1 DEF Given
<1> HIDE DEF g
<1>5. given'[p] = g /\ \A q \in Ports \ {p} : given'[q] = given[q]
  BY <1>1, <1>2
<1>6. QED
  BY <1>3, <1>4, <1>5 DEF Told

\* A step that touches one port leaves the other's download as it was.
LEMMA OthersUntouched ==
  ASSUME NEW p \in Ports, stream'[p] = stream[p], asked'[p] = asked[p],
         given'[p] = given[p], sought' => sought
  PROVE  Untouched(p)
  BY DEF Untouched

\* A request for a file: nothing posted of what it asks for.
LEMMA DeliveryStarts ==
  ASSUME TypeOK, HistoryTypeOK, Delivery, StartStream
  PROVE  Delivery'
<1>1. PICK p \in Ports, r \in Request, length \in Nat :
        /\ stream' = [stream EXCEPT ![p] =
             [active |-> TRUE, absent |-> length = 0, slot |-> r.first - 1,
              pos |-> r.ofs, end |-> EndOf(r, length),
              toFileEnd |-> ToFileEnd(r, length), sentAny |-> FALSE,
              lastCount |-> 0]]
        /\ reader' = ReaderWithout(p)
        /\ asked' = [asked EXCEPT
             ![p].gen = IF length = 0 THEN 0 ELSE gen[r.first - 1],
             ![p].from = r.ofs,
             ![p].upto = Least(r.ofs + r.count, length)]
        /\ given' = [given EXCEPT ![p].bytes = {}, ![p].refused = {},
                                  ![p].short = 0, ![p].mute = 0,
                                  ![p].empty = 0, ![p].ended = "running"]
        /\ length # 0 => r.first - 1 \in Slot /\ length = size[r.first - 1]
  BY StartedStream
<1>2. r.ofs \in Nat /\ r.count \in Nat
  BY DEF Request
<1>3. EndOf(r, length) = Least(r.ofs + r.count, length)
  BY <1>2 DEF EndOf, ToFileEnd, Least
<1>4. /\ stream'[p].active /\ stream'[p].absent = (length = 0) /\ stream'[p].pos = r.ofs
      /\ stream'[p].end = Least(r.ofs + r.count, length)
      /\ stream'[p].toFileEnd = ToFileEnd(r, length) /\ ~ stream'[p].sentAny
      /\ \A q \in Ports \ {p} : stream'[q] = stream[q]
  BY <1>1, <1>3 DEF TypeOK
<1>5. /\ asked'[p].from = r.ofs /\ asked'[p].upto = Least(r.ofs + r.count, length)
      /\ \A q \in Ports \ {p} : asked'[q] = asked[q]
  BY <1>1 DEF HistoryTypeOK, Asked
<1>6. /\ given'[p].bytes = {} /\ given'[p].refused = {} /\ Told(p)' = 0
      /\ given'[p].empty = 0 /\ given'[p].ended = "running"
      /\ \A q \in Ports \ {p} : given'[q] = given[q]
  BY <1>1 DEF HistoryTypeOK, Given, Told
<1>7. length = 0 => ToFileEnd(r, length) /\ Least(r.ofs + r.count, length) = 0
  BY <1>2 DEF ToFileEnd, Least
<1>8. BytesBefore(p, stream[p].pos)' = {}
  BY <1>2, <1>4, <1>5 DEF BytesBefore, BytesOf
<1>9. DeliveryOf(p)'
  <2>1. PostedBefore(p, stream[p].pos)'
    BY <1>6, <1>8 DEF PostedBefore
  <2>2. /\ asked'[p].upto = stream'[p].end /\ stream'[p].pos = asked'[p].from
        /\ Told(p)' = IF stream'[p].sentAny /\ stream'[p].lastCount < Chunk THEN 1 ELSE 0
        /\ Told(p)' # 1 /\ given'[p].empty = 0
    BY <1>4, <1>5, <1>6
  <2>3. stream'[p].absent =>
          /\ stream'[p].end = 0 /\ stream'[p].pos = asked'[p].from
          /\ stream'[p].toFileEnd /\ ~ stream'[p].sentAny
    BY <1>4, <1>5, <1>7
  <2>4. Running(p)'
    BY <2>1, <2>2, <2>3 DEF Running
  <2>5. QED
    BY <1>4, <1>6, <2>4 DEF DeliveryOf
<1>10. \A q \in Ports \ {p} : DeliveryOf(q)'
  <2>1. sought' = sought
    BY DEF StartStream
  <2>2. QED
    BY <1>4, <1>5, <1>6, <2>1, OthersUntouched, DeliveryStands DEF Delivery
<1>11. QED
  BY <1>9, <1>10 DEF Delivery

\* As many bytes of a file from an offset on.
BytesFrom(file, pos, n) == {<<file, pos + i, pos + i>> : i \in 0 .. n - 1}

\* What has been posted grows by what the chunk carries, which is new.
LEMMA BytesGrow ==
  ASSUME NEW g, NEW from \in Nat, NEW pos \in Nat, NEW n \in Nat, from <= pos
  PROVE  /\ BytesOf(g, from, pos) \cup BytesFrom(g, pos, n) = BytesOf(g, from, pos + n)
         /\ BytesOf(g, from, pos) \cap BytesFrom(g, pos, n) = {}
<1>1. ASSUME NEW o \in from .. pos + n - 1, o \notin from .. pos - 1
      PROVE  o - pos \in 0 .. n - 1 /\ pos + (o - pos) = o
  BY <1>1
<1>2. \A i \in 0 .. n - 1 : pos + i \in from .. pos + n - 1 /\ pos + i \notin from .. pos - 1
  OBVIOUS
<1>3. \A o \in from .. pos - 1 : o \in from .. pos + n - 1
  OBVIOUS
<1>4. BytesOf(g, from, pos) \cup BytesFrom(g, pos, n) = BytesOf(g, from, pos + n)
  BY <1>1, <1>2, <1>3 DEF BytesOf, BytesFrom
<1>5. BytesOf(g, from, pos) \cap BytesFrom(g, pos, n) = {}
  BY <1>2 DEF BytesOf, BytesFrom
<1>6. QED
  BY <1>4, <1>5

\* All that was asked for, as a stretch of its file.
LEMMA AskedAre == \A p \in Ports : AskedBytes(p) = BytesBefore(p, asked[p].upto)
  BY DEF AskedBytes, BytesBefore, BytesOf

\* Where the port that is sent a chunk reads from.
LEMMA ReadsOn ==
  ASSUME TypeOK, HistoryTypeOK, WorkChosen, Downloads, SendChunk
  PROVE  LET st == stream[port]
             r  == ReaderOf(port)
         IN  /\ port \in Ports /\ st.active /\ ~ st.absent
             /\ st.pos \in Nat /\ st.end \in Nat /\ st.pos < st.end
             /\ asked[port].from \in Nat /\ asked[port].from <= st.pos
             /\ asked[port].upto = st.end
             /\ asked[port].gen = gen[r.slot]
             /\ r.pos \in Nat /\ r.pos <= st.pos /\ (sought => r.pos = st.pos)
             /\ r.size \in Nat /\ st.end <= r.size
<1> DEFINE st == stream[port]
           r  == ReaderOf(port)
<1>1. /\ port \in Ports /\ pc = "piece" /\ ~ st.absent /\ st.pos < st.end
      /\ reader.port # Other(port)
  BY DEF SendChunk, Service, Unfinished, TypeOK
<1>2. Streaming(port) /\ ~ Ends(port)
  BY <1>1 DEF SendChunk, Service, WorkChosen, Work, Streaming, Ends
<1>3. /\ st.slot \in Slot /\ st.end <= size[st.slot]
      /\ asked[port].gen = gen[st.slot] /\ asked[port].upto = st.end
      /\ asked[port].from <= st.pos
  BY <1>1, <1>2 DEF Downloads, StreamIsCurrent
<1>5. st.pos \in Nat /\ st.end \in Nat
  BY <1>1 DEF TypeOK, Stream
<1>4. /\ r.slot = st.slot /\ r.pos <= st.pos /\ (sought => r.pos = st.pos)
      /\ st.end <= r.size
  BY <1>1, <1>2, <1>3, <1>5 DEF ReaderOf, Downloads, ReaderFollows
<1>6. r.size \in Nat /\ r.pos \in Nat
  BY <1>1, <1>3, <1>5 DEF ReaderOf, TypeOK, Reader
<1>7. asked[port].from \in Nat
  BY <1>1 DEF HistoryTypeOK, Asked
<1>8. QED
  BY <1>1, <1>2, <1>3, <1>4, <1>5, <1>6, <1>7 DEF Streaming

LEMMA DeliveryContinues ==
  ASSUME DownloadInv, Delivery, SendChunk, NEW p \in Ports, p = port
  PROVE  Delivery'
<1> USE DEF DownloadInv
<1> DEFINE st == stream[p]
           r  == ReaderOf(p)
<1>1. PICK n \in 1 .. Chunk :
        /\ st.pos + n <= st.end
        /\ n = Least(Least(st.end - st.pos, Chunk), r.size - r.pos)
        /\ stream' = [stream EXCEPT ![port].pos = @ + n,
                                   ![port].sentAny = TRUE,
                                   ![port].lastCount = n]
        /\ ChunkPosted(port, n, Carried(n))
        /\ Carried(n) \in SUBSET (Nat \X Nat \X Nat)
  BY ChunkType
<1>2. /\ st.active /\ ~ st.absent
      /\ st.pos \in Nat /\ st.end \in Nat /\ st.pos < st.end
      /\ asked[p].from \in Nat /\ asked[p].from <= st.pos
      /\ asked[p].upto = st.end
      /\ asked[p].gen = gen[r.slot]
      /\ r.pos \in Nat /\ r.pos <= st.pos /\ (sought => r.pos = st.pos)
      /\ r.size \in Nat /\ st.end <= r.size
  BY ReadsOn DEF Downloads
<1>3. asked' = asked /\ sought' = sought
  BY DEF SendChunk, Service
<1>4. Running(p) /\ given[p].ended = "running"
  BY <1>2 DEF Delivery, DeliveryOf
<1>5. n \in Nat /\ Chunk \in Nat /\ (n < Chunk => st.pos + n = st.end)
  <2>1. n \in Nat /\ Chunk \in Nat
    BY DownloadAssumption
  <2>2. n < Chunk => n = st.end - st.pos
    BY <1>1, <1>2, <2>1 DEF Least
  <2>3. QED
    BY <1>2, <2>1, <2>2
<1>6. /\ stream'[p].active /\ ~ stream'[p].absent
      /\ stream'[p].pos = st.pos + n /\ stream'[p].end = st.end
      /\ stream'[p].sentAny /\ stream'[p].lastCount = n
      /\ \A q \in Ports \ {p} : stream'[q] = stream[q]
  <2>1. stream \in [Ports -> Stream] /\ st \in Stream
    BY DEF TypeOK
  <2>2. stream' = [stream EXCEPT ![p] =
                     [st EXCEPT !.pos = st.pos + n, !.sentAny = TRUE,
                                !.lastCount = n]]
    BY <1>1, <2>1
  <2>3. st.active /\ ~ st.absent
    BY <1>2
  <2> HIDE DEF st
  <2>4. QED
    BY <1>2, <2>1, <2>2, <2>3 DEF Stream
<1>7. Told(p) = 0 /\ given[p].empty = 0 /\ (sought => PostedBefore(p, st.pos))
  BY <1>2, <1>4 DEF Running
<1>8. /\ given'[p].empty = 0 /\ given'[p].ended = "running"
      /\ \A q \in Ports \ {p} : given'[q] = given[q]
      /\ Told(p)' = IF n < Chunk THEN 1 ELSE 0
      /\ \/ /\ given'[p].bytes = given[p].bytes \cup Carried(n)
            /\ given'[p].refused = given[p].refused
         \/ /\ given'[p].bytes = given[p].bytes
            /\ given'[p].refused = given[p].refused \cup Carried(n)
  <2>1. given \in [Ports -> Given]
    BY DEF HistoryTypeOK
  <2>2. ChunkPosted(p, n, Carried(n))
    BY <1>1
  <2>3. Carried(n) \in SUBSET (Nat \X Nat \X Nat) /\ n \in Nat
    BY <1>1, <1>5
  <2> HIDE DEF st, r
  <2>4. /\ given'[p].empty = given[p].empty /\ given'[p].ended = given[p].ended
        /\ \A q \in Ports \ {p} : given'[q] = given[q]
        /\ \/ /\ given'[p].bytes = given[p].bytes \cup Carried(n)
              /\ given'[p].refused = given[p].refused
           \/ /\ given'[p].bytes = given[p].bytes
              /\ given'[p].refused = given[p].refused \cup Carried(n)
        /\ given'[p].short + given'[p].mute =
             IF n < Chunk THEN given[p].short + given[p].mute + 1
             ELSE given[p].short + given[p].mute
    BY <2>1, <2>2, <2>3, ChunkGiven
  <2>5. QED
    BY <1>4, <1>7, <2>4 DEF Told
<1>9. sought' => PostedBefore(p, stream[p].pos)'
  <2> SUFFICES ASSUME sought PROVE PostedBefore(p, stream[p].pos)'
    BY <1>3
  <2>1. Carried(n) = BytesFrom(asked[p].gen, st.pos, n)
    BY <1>2 DEF Carried, BytesFrom
  <2>2. BytesBefore(p, stream[p].pos)' = BytesOf(asked[p].gen, asked[p].from, st.pos + n)
    BY <1>3, <1>6 DEF BytesBefore
  <2>3. /\ given[p].bytes \cup given[p].refused = BytesOf(asked[p].gen, asked[p].from, st.pos)
        /\ given[p].bytes \cap given[p].refused = {}
    BY <1>7 DEF PostedBefore, BytesBefore
  <2> HIDE DEF st, r
  <2>4. /\ BytesOf(asked[p].gen, asked[p].from, st.pos) \cup Carried(n)
             = BytesOf(asked[p].gen, asked[p].from, st.pos + n)
        /\ BytesOf(asked[p].gen, asked[p].from, st.pos) \cap Carried(n) = {}
    <3>1. PICK g, from, pos : g = asked[p].gen /\ from = asked[p].from /\ pos = st.pos
      OBVIOUS
    <3>2. from \in Nat /\ pos \in Nat /\ n \in Nat /\ from <= pos
      BY <1>2, <1>5, <3>1
    <3>3. /\ BytesOf(g, from, pos) \cup BytesFrom(g, pos, n) = BytesOf(g, from, pos + n)
          /\ BytesOf(g, from, pos) \cap BytesFrom(g, pos, n) = {}
      BY ONLY <3>2, BytesGrow
    <3>4. QED
      BY <2>1, <3>1, <3>3
  <2>5. QED
    BY <1>8, <2>2, <2>3, <2>4 DEF PostedBefore
<1>10. DeliveryOf(p)'
  <2>1. Running(p)'
    <3>1. asked'[p].upto = stream'[p].end /\ asked'[p].from = asked[p].from
      BY <1>2, <1>3, <1>6
    <3>2. /\ stream'[p].pos <= stream'[p].end
          /\ Told(p)' = IF stream'[p].sentAny /\ stream'[p].lastCount < Chunk
                        THEN 1 ELSE 0
          /\ Told(p)' = 1 => stream'[p].pos >= stream'[p].end
      <4>1. st.pos + n <= st.end /\ (n < Chunk => st.pos + n = st.end) /\ n \in Nat
        BY <1>1, <1>5
      <4>2. stream'[p].pos = st.pos + n /\ stream'[p].end = st.end
            /\ stream'[p].sentAny /\ stream'[p].lastCount = n
        BY <1>6
      <4>3. Told(p)' = IF n < Chunk THEN 1 ELSE 0
        BY <1>8
      <4> HIDE DEF r, st
      <4>4. QED
        BY <1>2, <4>1, <4>2, <4>3
    <3> HIDE DEF st, r
    <3>3. QED
      BY <1>6, <1>8, <1>9, <3>1, <3>2 DEF Running
  <2>2. QED
    BY <1>6, <1>8, <2>1 DEF DeliveryOf
<1>11. \A q \in Ports \ {p} : DeliveryOf(q)'
  BY <1>3, <1>6, <1>8, OthersUntouched, DeliveryStands DEF Delivery
<1>12. QED
  BY <1>10, <1>11 DEF Delivery

\* A download that is at its end has posted all of it.
LEMMA AllPosted ==
  ASSUME DownloadInv, NEW p \in Ports, Running(p), stream[p].pos >= stream[p].end
  PROVE  sought => PostedAsAsked(p)
<1> DEFINE pos  == stream[p].pos
           end  == stream[p].end
           from == asked[p].from
<1>1. pos \in Nat /\ end \in Nat /\ from \in Nat
  BY DEF DownloadInv, TypeOK, Stream, HistoryTypeOK, Asked
<1>2. /\ sought =>
           /\ given[p].bytes \cup given[p].refused = BytesOf(asked[p].gen, from, pos)
           /\ given[p].bytes \cap given[p].refused = {}
      /\ AskedBytes(p) = BytesOf(asked[p].gen, from, end)
      /\ pos <= end \/ pos = from
  BY AskedAre DEF Running, PostedBefore, BytesBefore
<1>3. pos = end \/ (pos = from /\ from >= end)
  BY <1>1, <1>2
<1>4. from .. pos - 1 = from .. end - 1
  BY <1>1, <1>3
<1> HIDE DEF pos, end, from
<1>5. QED
  BY <1>2, <1>4 DEF BytesOf, PostedAsAsked

\* How the ground's own request ends a download.
LEMMA DeliveryStopped ==
  ASSUME DownloadInv, Delivery, StopStream
  PROVE  Delivery'
<1>1. TypeOK /\ HistoryTypeOK /\ Head(sdQueue).port \in Ports
  BY ReceiveRequest DEF StopStream, Request, DownloadInv
<1> PICK p \in Ports : p = Head(sdQueue).port
  BY <1>1
<1>2. /\ stream' = [stream EXCEPT ![p].active = FALSE] /\ asked' = asked
      /\ sought' = sought
      /\ given' = [given EXCEPT ![p].ended = IF stream[p].active THEN "stopped" ELSE @]
  BY DEF StopStream, EndStream
<1>3. /\ given'[p].ended = IF stream[p].active THEN "stopped" ELSE given[p].ended
      /\ given'[p].bytes = given[p].bytes /\ given'[p].refused = given[p].refused
      /\ given'[p].short = given[p].short /\ given'[p].mute = given[p].mute
      /\ given'[p].empty = given[p].empty
      /\ \A q \in Ports \ {p} : given'[q] = given[q]
  BY <1>1, <1>2 DEF HistoryTypeOK, Given
<1>4. /\ ~ stream'[p].active /\ (~ stream[p].active => stream' = stream)
      /\ \A q \in Ports \ {p} : stream'[q] = stream[q]
  BY <1>1, <1>2, StreamEnds
<1>5. DeliveryOf(p)'
  <2>1. CASE stream[p].active
    BY <1>1, <1>3, <1>4, <2>1, DeliveryStops
  <2>2. CASE ~ stream[p].active
    <3>1. Untouched(p)
      BY <1>2, <1>3, <1>4, <2>2 DEF Untouched
    <3>2. QED
      BY <1>1, <3>1, DeliveryStands DEF Delivery
  <2>3. QED
    BY <2>1, <2>2
<1>6. \A q \in Ports \ {p} : DeliveryOf(q)'
  BY <1>2, <1>3, <1>4, OthersUntouched, DeliveryStands DEF Delivery
<1>7. QED
  BY <1>5, <1>6 DEF Delivery

\* A step that ends the download of one port, and the history is right of it.
LEMMA DeliveryEnds ==
  ASSUME DownloadInv, Delivery, NEW p \in Ports, asked' = asked, sought' = sought,
         stream' = [stream EXCEPT ![p].active = FALSE],
         \A q \in Ports \ {p} : given'[q] = given[q],
         \/ given'[p].ended \in {"stopped", "reused", "failed"}
         \/ given'[p].ended = "done" /\ Complete(p)'
  PROVE  Delivery'
<1>1. TypeOK
  BY DEF DownloadInv
<1>2. ~ stream'[p].active /\ \A q \in Ports \ {p} : stream'[q] = stream[q]
  BY <1>1, StreamEnds
<1>3. DeliveryOf(p)'
  BY <1>2 DEF DeliveryOf
<1>4. \A q \in Ports \ {p} : DeliveryOf(q)'
  BY <1>2, OthersUntouched, DeliveryStands DEF Delivery
<1>5. QED
  BY <1>3, <1>4 DEF Delivery

\* A step that leaves every download as it was.
LEMMA DeliveriesStand ==
  ASSUME Delivery, \A p \in Ports : Untouched(p)
  PROVE  Delivery'
  BY DeliveryStands DEF Delivery

\* The slot of the download is the one the ring has moved to.
LEMMA DeliveryReused ==
  ASSUME DownloadInv, Delivery, NotifyReuse
  PROVE  Delivery'
<1>1. port \in Ports /\ TypeOK /\ HistoryTypeOK /\ asked' = asked /\ sought' = sought
  BY DEF NotifyReuse, DownloadInv, TypeOK
<1>2. CASE OfReusedFile(port)
  <2>1. PICK p \in Ports : p = port
    BY <1>1
  <2>2. given' = GivenEmpty(p, "reused") /\ stream' = [stream EXCEPT ![p].active = FALSE]
    BY <1>2, <2>1 DEF NotifyReuse, EndStream
  <2>3. given'[p].ended = "reused" /\ \A q \in Ports \ {p} : given'[q] = given[q]
    BY <1>1, <2>2, EmptyIs
  <2>4. QED
    BY <1>1, <2>2, <2>3, DeliveryEnds
<1>3. CASE ~ OfReusedFile(port)
  <2>1. \A p \in Ports : Untouched(p)
    BY <1>1, <1>3 DEF NotifyReuse, Untouched
  <2>2. QED
    BY <2>1, DeliveriesStand
<1>4. QED
  BY <1>2, <1>3

\* A file that is absent, or cannot be opened: one empty chunk.
LEMMA DeliveryOfAbsent ==
  ASSUME DownloadInv, Delivery, ServiceAbsent
  PROVE  Delivery'
<1>1. port \in Ports /\ TypeOK /\ HistoryTypeOK /\ asked' = asked /\ sought' = sought
  BY DEF ServiceAbsent, Service, DownloadInv, TypeOK
<1>2. PICK p \in Ports : p = port
  BY <1>1
<1>3. /\ given' = GivenEmpty(p, "done") /\ stream' = [stream EXCEPT ![p].active = FALSE]
      /\ stream[p].active /\ stream[p].absent
  BY <1>1, <1>2 DEF ServiceAbsent, Service, DownloadInv, WorkChosen, Work
<1>4. Running(p)
  BY <1>3 DEF Delivery, DeliveryOf
<1>5. /\ given'[p].ended = "done" /\ given'[p].bytes = given[p].bytes
      /\ given'[p].refused = given[p].refused /\ Told(p)' = Told(p) + 1
      /\ \A q \in Ports \ {p} : given'[q] = given[q]
  BY <1>1, <1>3, EmptyIs
<1>6. /\ stream[p].end = 0 /\ stream[p].pos \in Nat /\ stream[p].toFileEnd
      /\ Told(p) = 0
  BY <1>1, <1>3, <1>4 DEF Running, TypeOK, Stream
<1>7. sought => PostedAsAsked(p)
  BY <1>4, <1>6, AllPosted
<1>8. stream'[p].toFileEnd
  BY <1>1, <1>3, <1>6, StreamEnds
<1>9. AskedBytes(p)' = AskedBytes(p)
  BY <1>1 DEF AskedBytes
<1>10. Complete(p)'
  BY <1>1, <1>5, <1>6, <1>7, <1>8, <1>9 DEF Complete, PostedAsAsked
<1>11. QED
  BY <1>1, <1>3, <1>5, <1>10, DeliveryEnds

\* The end of what was asked for: an empty chunk if no short one has told it.
LEMMA DeliveryFinished ==
  ASSUME DownloadInv, Delivery, ServiceFinished
  PROVE  Delivery'
<1>1. port \in Ports /\ TypeOK /\ HistoryTypeOK /\ asked' = asked /\ sought' = sought
  BY DEF ServiceFinished, Service, DownloadInv, TypeOK
<1>2. PICK p \in Ports : p = port
  BY <1>1
<1>3. /\ IF NeedsEmptyChunk(stream[p]) THEN given' = GivenEmpty(p, "done")
         ELSE given' = [given EXCEPT ![p].ended = "done"]
      /\ stream' = [stream EXCEPT ![p].active = FALSE]
      /\ stream[p].active /\ stream[p].pos >= stream[p].end
  BY <1>1, <1>2 DEF ServiceFinished, Service, EndStream, DownloadInv, WorkChosen, Work
<1>4. Running(p)
  BY <1>3 DEF Delivery, DeliveryOf
<1>5. /\ given'[p].ended = "done" /\ given'[p].bytes = given[p].bytes
      /\ given'[p].refused = given[p].refused
      /\ \A q \in Ports \ {p} : given'[q] = given[q]
      /\ NeedsEmptyChunk(stream[p]) => Told(p)' = Told(p) + 1
      /\ ~ NeedsEmptyChunk(stream[p]) => /\ Told(p)' = Told(p)
                                         /\ given'[p].empty = given[p].empty
  <2>1. CASE NeedsEmptyChunk(stream[p])
    BY <1>1, <1>3, <2>1, EmptyIs
  <2>2. CASE ~ NeedsEmptyChunk(stream[p])
    <3>1. /\ given'[p].ended = "done" /\ given'[p].bytes = given[p].bytes
          /\ given'[p].refused = given[p].refused /\ given'[p].empty = given[p].empty
          /\ given'[p].short = given[p].short /\ given'[p].mute = given[p].mute
          /\ \A q \in Ports \ {p} : given'[q] = given[q]
      BY <1>1, <1>3, <2>2 DEF HistoryTypeOK, Given
    <3>2. QED
      BY <2>2, <3>1 DEF Told
  <2>3. QED
    BY <2>1, <2>2
<1>6. /\ sought => PostedAsAsked(p)
      /\ AskedBytes(p)' = AskedBytes(p)
  <2>1. AskedBytes(p)' = AskedBytes(p)
    BY <1>1 DEF AskedBytes
  <2>2. QED
    BY <1>3, <1>4, <2>1, AllPosted
<1>7. stream'[p].toFileEnd = stream[p].toFileEnd
  BY <1>1, <1>3, StreamEnds
<1>8. IF stream[p].toFileEnd THEN Told(p)' = 1 ELSE given'[p].empty = 0
  <2>1. stream[p].lastCount \in 0 .. Chunk /\ Chunk \in Nat /\ stream[p].sentAny \in BOOLEAN
    BY <1>1, DownloadAssumption DEF TypeOK, Stream
  <2>2. /\ Told(p) = IF stream[p].sentAny /\ stream[p].lastCount < Chunk THEN 1 ELSE 0
        /\ given[p].empty = 0
    BY <1>4 DEF Running
  <2>3. CASE NeedsEmptyChunk(stream[p])
    BY <1>5, <2>1, <2>2, <2>3 DEF NeedsEmptyChunk
  <2>4. CASE ~ NeedsEmptyChunk(stream[p])
    BY <1>5, <2>1, <2>2, <2>4 DEF NeedsEmptyChunk
  <2>5. QED
    BY <2>3, <2>4
<1>9. Complete(p)'
  BY <1>1, <1>5, <1>6, <1>7, <1>8 DEF Complete, PostedAsAsked
<1>10. QED
  BY <1>1, <1>3, <1>5, <1>9, DeliveryEnds

LEMMA DeliveryFails ==
  ASSUME DownloadInv, Delivery, ReadFails
  PROVE  Delivery'
<1>1. port \in Ports /\ TypeOK /\ HistoryTypeOK /\ asked' = asked /\ sought' = sought
  BY DEF ReadFails, Service, DownloadInv, TypeOK
<1>2. PICK p \in Ports : p = port
  BY <1>1
<1>3. /\ given' = [given EXCEPT ![p].ended = "failed"]
      /\ stream' = [stream EXCEPT ![p].active = FALSE]
  BY <1>2 DEF ReadFails, EndStream
<1>4. given'[p].ended = "failed" /\ \A q \in Ports \ {p} : given'[q] = given[q]
  BY <1>1, <1>3 DEF HistoryTypeOK, Given
<1>5. QED
  BY <1>1, <1>3, <1>4, DeliveryEnds

\* The request that starts a listing, by what it asks for.
LEMMA StartedListing ==
  ASSUME TypeOK, StartListing
  PROVE  \E p \in Ports : \E first \in Nat : \E last \in Nat :
           /\ listing' = [listing EXCEPT ![p] =
                [active |-> TRUE, first |-> first, last |-> last, nextSlot |-> 0]]
           /\ asked' = [asked EXCEPT ![p].logs =
                {s \in Slot : Exists(s) /\ InRange(s, first, last)}]
           /\ given' = [given EXCEPT ![p].entries = <<>>, ![p].missed = {},
                                     ![p].listed = "running"]
<1>1. PICK r \in Request : r = Head(sdQueue)
  BY ReceiveRequest DEF StartListing
<1>2. r.port \in Ports /\ r.first \in Nat /\ r.last \in Nat
  BY DEF Request
<1>3. /\ listing' = [listing EXCEPT ![r.port] =
           [active |-> TRUE, first |-> r.first, last |-> r.last, nextSlot |-> 0]]
      /\ asked' = [asked EXCEPT ![r.port].logs =
           {s \in Slot : Exists(s) /\ InRange(s, r.first, r.last)}]
      /\ given' = [given EXCEPT ![r.port].entries = <<>>, ![r.port].missed = {},
                                ![r.port].listed = "running"]
  BY <1>1 DEF StartListing
<1>4. QED
  BY <1>2, <1>3

\* What a listing is given is not what a download is.
LEMMA ListingsAside ==
  ASSUME DownloadInv, StartListing \/ ServiceListing \/ ForwardLogRequest
  PROVE  \A p \in Ports : Untouched(p)
<1>1. /\ given \in [Ports -> Given] /\ asked \in [Ports -> Asked] /\ stream' = stream
      /\ port \in Ports /\ sought' = sought
  BY DEF DownloadInv, HistoryTypeOK, TypeOK, StartListing, ServiceListing,
         ForwardLogRequest, task
<1>2. CASE StartListing
  <2>1. PICK p \in Ports, first \in Nat, last \in Nat :
          /\ listing' = [listing EXCEPT ![p] =
               [active |-> TRUE, first |-> first, last |-> last, nextSlot |-> 0]]
          /\ asked' = [asked EXCEPT ![p].logs =
               {s \in Slot : Exists(s) /\ InRange(s, first, last)}]
          /\ given' = [given EXCEPT ![p].entries = <<>>, ![p].missed = {},
                                    ![p].listed = "running"]
    BY <1>2, StartedListing DEF DownloadInv
  <2>2. \A q \in Ports : /\ asked'[q].gen = asked[q].gen
                         /\ asked'[q].from = asked[q].from
                         /\ asked'[q].upto = asked[q].upto
    BY <1>1, <2>1 DEF Asked
  <2>3. \A q \in Ports : /\ given'[q].bytes = given[q].bytes
                         /\ given'[q].refused = given[q].refused
                         /\ given'[q].short = given[q].short
                         /\ given'[q].mute = given[q].mute
                         /\ given'[q].empty = given[q].empty
                         /\ given'[q].ended = given[q].ended
    BY <1>1, <2>1 DEF Given
  <2>4. QED
    BY <1>1, <2>2, <2>3 DEF Untouched
<1>3. CASE ServiceListing
  <2>1. asked' = asked
    BY <1>3 DEF ServiceListing
  <2>2. ASSUME NEW l \in {"done"}, NEW m \in SUBSET Slot,
               given' = [given EXCEPT ![port].listed = l, ![port].missed = m]
        PROVE  \A p \in Ports : Untouched(p)
    BY <1>1, <2>1, <2>2 DEF Untouched, Given
  <2>3. ASSUME NEW s \in Slot, NEW m \in SUBSET Slot,
               given' = [given EXCEPT ![port].entries = Append(@, s),
                                      ![port].missed = m]
        PROVE  \A p \in Ports : Untouched(p)
    BY <1>1, <2>1, <2>3 DEF Untouched, Given
  <2>4. ASSUME NEW m \in SUBSET Slot, given' = [given EXCEPT ![port].missed = m]
        PROVE  \A p \in Ports : Untouched(p)
    BY <1>1, <2>1, <2>4 DEF Untouched, Given
  <2>5. QED
    BY <1>1, <1>3, <2>2, <2>3, <2>4, GivenListing DEF DownloadInv
<1>4. CASE ForwardLogRequest
  <2>1. asked' = asked
    BY <1>4 DEF ForwardLogRequest
  <2>2. PICK p, stop : p \in Ports /\ given' = [given EXCEPT ![p].stop = stop]
    <3>1. PICK r \in Requests : given' = [given EXCEPT ![r.port].stop =
                                  IF r.kind = "list" THEN @ ELSE r.kind = "end"]
      BY <1>4 DEF ForwardLogRequest
    <3>2. r.port \in Ports
      BY DownloadAssumption DEF Request
    <3>3. QED
      BY <3>1, <3>2
  <2>3. QED
    BY <1>1, <2>1, <2>2 DEF Untouched, Given
<1>5. QED
  BY <1>2, <1>3, <1>4

LEMMA DeliveryStep ==
  ASSUME DownloadInv, Delivery, [Next]_vars
  PROVE  Delivery'
<1>1. CASE StartStream
  BY <1>1, DeliveryStarts DEF DownloadInv
<1>2. CASE SendChunk
  <2>1. port \in Ports
    BY DEF DownloadInv, TypeOK
  <2>2. QED
    BY <1>2, <2>1, DeliveryContinues
<1>3. CASE StartListing \/ ServiceListing \/ ForwardLogRequest
  BY <1>3, ListingsAside, DeliveriesStand
<1>4. CASE UNCHANGED <<stream, asked, given>>
  <2>1. \A p \in Ports : Untouched(p)
    BY <1>4, SoughtStays DEF Untouched
  <2>2. QED
    BY <2>1, DeliveriesStand
<1>5. QED
  BY <1>1, <1>2, <1>3, <1>4, DeliveryStopped, DeliveryReused, DeliveryOfAbsent,
     DeliveryFinished, DeliveryFails
  DEF Next, TaskSdWrite, vars, task, history, WriteRecord, ChoosePort,
      WaitForReader, SeekFails, Service, PostRecord, PostOther, LinkWrite

-----------------------------------------------------------------------------
(***************************************************************************)
(* What a listing has named                                                *)
(***************************************************************************)

\* No file leaves the card, and none is empty.
LEMMA FilesStay ==
  ASSUME DownloadInv, FilesHoldSomething, [Next]_vars
  PROVE  FilesHoldSomething' /\ \A s \in Slot : Exists(s) => Exists(s)'
<1>1. /\ gen \in [Slot -> Nat] /\ size \in [Slot -> Nat] /\ cur \in Slot /\ tail \in Nat
      /\ PreambleLen \in Nat \ {0}
  BY DownloadAssumption DEF DownloadInv, TypeOK
<1>2. CASE WriteRecord
  <2>1. gen[cur] \in Nat /\ size[cur] \in Nat /\ size[cur] + tail + 1 > 0
    BY <1>1
  <2> DEFINE next   == NextSlot(cur)
             length == size[cur] + tail + 1
  <2>2. \/ /\ gen' = [gen EXCEPT ![next] = gen[cur] + 1]
           /\ size' = [size EXCEPT ![cur] = length, ![next] = PreambleLen]
        \/ gen' = gen /\ (size' = size \/ size' = [size EXCEPT ![cur] = length])
    BY <1>2 DEF WriteRecord
  <2> HIDE DEF next, length
  <2>3. ASSUME NEW s \in Slot
        PROVE  /\ gen'[s] \in {gen[s], gen[cur] + 1}
               /\ size'[s] \in {size[s], length, PreambleLen}
               /\ gen'[s] # gen[s] => size'[s] = PreambleLen
    BY <1>1, <2>2
  <2>4. \A s \in Slot : Exists(s) => Exists(s)'
    BY <2>1, <2>3 DEF Exists
  <2>5. ASSUME NEW s \in Slot, Exists(s)' PROVE size'[s] > 0
    <3>1. CASE gen'[s] # gen[s]
      BY <1>1, <2>3, <3>1
    <3>2. CASE gen'[s] = gen[s]
      <4>1. size[s] > 0
        BY <2>5, <3>2 DEF Exists, FilesHoldSomething
      <4>2. QED
        BY <1>1, <2>1, <2>3, <4>1 DEF length
    <3>3. QED
      BY <3>1, <3>2
  <2>6. QED
    BY <2>4, <2>5 DEF FilesHoldSomething
<1>3. CASE UNCHANGED <<gen, size>>
  BY <1>3 DEF FilesHoldSomething, Exists
<1>4. QED
  BY <1>2, <1>3
  DEF Next, TaskSdWrite, vars, card, StartListing, StartStream, StopStream,
      NotifyReuse, ChoosePort, ServiceListing, ServiceAbsent, ServiceFinished,
      WaitForReader, SeekFails, ReadFails, SendChunk, Service, ForwardLogRequest,
      PostRecord, PostOther, LinkWrite

\* Nothing that concerns this port's listing.
Unlisted(p) ==
  /\ listing'[p] = listing[p] /\ asked'[p].logs = asked[p].logs
  /\ given'[p].entries = given[p].entries /\ given'[p].missed = given[p].missed
  /\ given'[p].listed = given[p].listed

LEMMA ListingStands ==
  ASSUME NEW p \in Ports, ListingOf(p), Unlisted(p), asked[p].logs \subseteq Slot,
         \A s \in Slot : Exists(s) => Exists(s)'
  PROVE  ListingOf(p)'
<1>1. \A s : Settled(p, s)' <=> Settled(p, s)
  BY DEF Settled, Names, Unlisted
<1>2. InOrder(p)' /\ (listing'[p].active <=> given'[p].listed = "running")
  BY DEF ListingOf, InOrder, Unlisted
<1>3. ListingSoFar(p) => ListingSoFar(p)'
  BY <1>1 DEF ListingSoFar, Unlisted
<1>4. QED
  BY <1>1, <1>2, <1>3 DEF ListingOf, Unlisted

LEMMA ListingStarts ==
  ASSUME DownloadInv, Listings, StartListing, \A s \in Slot : Exists(s) => Exists(s)'
  PROVE  Listings'
<1>1. /\ TypeOK /\ given \in [Ports -> Given] /\ asked \in [Ports -> Asked]
      /\ gen' = gen
  BY DEF DownloadInv, HistoryTypeOK, StartListing, card
<1>2. PICK p \in Ports, first \in Nat, last \in Nat :
        /\ listing' = [listing EXCEPT ![p] =
             [active |-> TRUE, first |-> first, last |-> last, nextSlot |-> 0]]
        /\ asked' = [asked EXCEPT ![p].logs =
             {s \in Slot : Exists(s) /\ InRange(s, first, last)}]
        /\ given' = [given EXCEPT ![p].entries = <<>>, ![p].missed = {},
                                  ![p].listed = "running"]
  BY <1>1, StartedListing
<1>3. /\ listing'[p] = [active |-> TRUE, first |-> first, last |-> last, nextSlot |-> 0]
      /\ \A q \in Ports \ {p} : listing'[q] = listing[q]
  BY <1>1, <1>2 DEF TypeOK
<1>4. /\ asked'[p].logs = {s \in Slot : Exists(s) /\ InRange(s, first, last)}
      /\ \A q \in Ports \ {p} : asked'[q] = asked[q]
  BY <1>1, <1>2 DEF Asked
<1>5. /\ given'[p].entries = <<>> /\ given'[p].listed = "running"
      /\ \A q \in Ports \ {p} : given'[q] = given[q]
  BY <1>1, <1>2 DEF Given
<1>6. ListingOf(p)'
  <2>1. Len(given'[p].entries) = 0
    BY <1>5, EmptySeq
  <2>2. InOrder(p)'
    BY <2>1 DEF InOrder
  <2>3. \A s \in Slot : ~ (s < 0)
    BY SlotsAre
  <2>4. ListingSoFar(p)'
    BY <1>1, <1>3, <1>4, <2>3 DEF ListingSoFar, Exists
  <2>5. QED
    BY <1>3, <1>5, <2>2, <2>4 DEF ListingOf
<1>7. ASSUME NEW q \in Ports \ {p} PROVE ListingOf(q)'
  <2>1. Unlisted(q) /\ ListingOf(q) /\ asked[q].logs \subseteq Slot
    BY <1>1, <1>3, <1>4, <1>5 DEF Unlisted, Listings, Asked
  <2>2. QED
    BY <2>1, ListingStands
<1>8. QED
  BY <1>6, <1>7 DEF Listings

\* An entry for a slot behind none of those that were named.
LEMMA EntryInOrder ==
  ASSUME NEW p \in Ports, NEW e \in Seq(Slot), e = given[p].entries,
         NEW s \in Slot, InOrder(p), \A i \in 1 .. Len(e) : e[i] < s,
         given'[p].entries = Append(e, s), listing'[p].nextSlot = s + 1
  PROVE  InOrder(p)' /\ Names(p, s)' /\ \A t : Names(p, t) => Names(p, t)'
<1> DEFINE named == Append(e, s)
<1>1. /\ Files \in Nat /\ Slot = 0 .. Files - 1 /\ Len(e) \in Nat
      /\ \A i \in 1 .. Len(e) : e[i] \in Slot
  BY DownloadAssumption, ElementOfSeq, LenProperties DEF Slot
<1>2. /\ Len(named) = Len(e) + 1 /\ named[Len(e) + 1] = s
      /\ \A i \in 1 .. Len(e) : named[i] = e[i]
  BY AppendProperties
<1> HIDE DEF named
<1>3. ASSUME NEW i \in 1 .. Len(named) PROVE named[i] < s + 1
  <2>1. CASE i = Len(e) + 1
    BY <1>1, <1>2, <2>1
  <2>2. CASE i # Len(e) + 1
    <3>1. i \in 1 .. Len(e) /\ named[i] = e[i]
      BY <1>1, <1>2, <2>2
    <3>2. e[i] \in Slot /\ e[i] < s
      BY <1>1, <3>1
    <3>3. QED
      BY <1>1, <3>1, <3>2
  <2>3. QED
    BY <2>1, <2>2
<1>4. ASSUME NEW i \in 1 .. Len(named), NEW j \in 1 .. Len(named), i < j
      PROVE  named[i] < named[j]
  <2>1. i \in 1 .. Len(e) /\ named[i] = e[i]
    BY <1>1, <1>2, <1>4
  <2>2. CASE j = Len(e) + 1
    BY <1>2, <2>1, <2>2
  <2>3. CASE j # Len(e) + 1
    <3>1. j \in 1 .. Len(e) /\ named[j] = e[j]
      BY <1>1, <1>2, <2>3
    <3>2. QED
      BY <1>4, <2>1, <3>1 DEF InOrder
  <2>4. QED
    BY <2>2, <2>3
<1>5. InOrder(p)'
  BY <1>3, <1>4 DEF InOrder, named
<1>6. given'[p].entries = named
  BY DEF named
<1>7. Len(e) + 1 \in 1 .. Len(named) /\ 1 .. Len(e) \subseteq 1 .. Len(named)
  BY <1>1, <1>2
<1>8. Names(p, s)' /\ \A t : Names(p, t) => Names(p, t)'
  BY <1>2, <1>6, <1>7 DEF Names
<1>9. QED
  BY <1>5, <1>8

\* One entry more, or the end.
LEMMA ListingContinues ==
  ASSUME DownloadInv, FilesHoldSomething, Listings, ServiceListing,
         NEW p \in Ports, p = port
  PROVE  Listings'
<1> DEFINE l == listing[p]
           e == given[p].entries
<1>1. /\ TypeOK /\ given \in [Ports -> Given] /\ asked \in [Ports -> Asked]
      /\ gen' = gen /\ asked' = asked /\ l.active
  BY DEF DownloadInv, HistoryTypeOK, ServiceListing, card
<1>2. /\ l \in [active : BOOLEAN, first : Nat, last : Nat, nextSlot : 0 .. Files]
      /\ e \in Seq(Slot) /\ Len(e) \in Nat /\ asked[p].logs \subseteq Slot
      /\ \A i \in 1 .. Len(e) : e[i] \in Slot
      /\ listing \in [Ports -> [active : BOOLEAN, first : Nat, last : Nat,
                                nextSlot : 0 .. Files]]
  <2>1. e \in Seq(Slot)
    BY <1>1 DEF Given
  <2>2. Len(e) \in Nat /\ \A i \in 1 .. Len(e) : e[i] \in Slot
    BY <2>1, ElementOfSeq, LenProperties
  <2>3. QED
    BY <1>1, <2>1, <2>2 DEF TypeOK, Asked
<1>3. /\ Files \in Nat /\ Slot = 0 .. Files - 1 /\ l.nextSlot \in 0 .. Files
  BY <1>2, DownloadAssumption DEF Slot
<1>5. InOrder(p) /\ ListingSoFar(p) /\ given[p].listed = "running"
  BY <1>1 DEF Listings, ListingOf
\* What it has still to name, of what it was asked for.
<1>6. ASSUME NEW s \in asked[p].logs
      PROVE  s \in ToList(l) \/ Settled(p, s)
  <2>1. s \in Slot /\ Exists(s) /\ InRange(s, l.first, l.last)
    BY <1>2, <1>5 DEF ListingSoFar
  <2>2. SlotLength(s) # 0
    BY <2>1 DEF SlotLength, FilesHoldSomething
  <2>3. s >= l.nextSlot \/ s < l.nextSlot
    BY <1>3, <2>1
  <2>4. QED
    BY <1>5, <2>1, <2>2, <2>3 DEF ToList, ListingSoFar
<1>7. ASSUME NEW q \in Ports \ {p}, listing'[q] = listing[q], given'[q] = given[q]
      PROVE  ListingOf(q)'
  <2>1. Unlisted(q) /\ ListingOf(q) /\ asked[q].logs \subseteq Slot
    BY <1>1, <1>7 DEF Unlisted, Listings, Asked
  <2>2. \A s \in Slot : Exists(s) => Exists(s)'
    BY <1>1 DEF Exists
  <2>3. QED
    BY <2>1, <2>2, ListingStands
<1>8. CASE /\ listing' = [listing EXCEPT ![port].active = FALSE,
                                         ![port].nextSlot = Files]
           /\ given' = [given EXCEPT ![port].listed = "done",
                                     ![port].missed = @ \cup ToList(l)]
  <2>1. /\ ~ listing'[p].active /\ listing'[p].nextSlot = Files
        /\ \A q \in Ports \ {p} : listing'[q] = listing[q]
    BY <1>2, <1>8
  <2>2. /\ given'[p].listed = "done" /\ given'[p].entries = e
        /\ given'[p].missed = given[p].missed \cup ToList(l)
        /\ \A q \in Ports \ {p} : given'[q] = given[q]
    BY <1>1, <1>8 DEF Given
  <2>3. InOrder(p)'
    <3>1. \A i \in 1 .. Len(e) : e[i] < Files
      BY <1>2, <1>3
    <3>2. \A i, j \in 1 .. Len(e) : i < j => e[i] < e[j]
      BY <1>5 DEF InOrder
    <3> HIDE DEF e, l
    <3>3. QED
      BY <2>1, <2>2, <3>1, <3>2 DEF InOrder
  <2>4. \A s \in asked[p].logs : Settled(p, s)'
    BY <1>6, <2>2 DEF Settled, Names
  <2>5. ListingOf(p)'
    BY <1>1, <2>1, <2>2, <2>3, <2>4 DEF ListingOf
  <2>6. QED
    BY <1>7, <2>1, <2>2, <2>5 DEF Listings
\* The slot the entry is for, those before it passed over.
<1>9. ASSUME NEW s \in ToList(l), NEW missed,
             listing' = [listing EXCEPT ![port].nextSlot = s + 1],
             \/ given' = [given EXCEPT ![port].entries = Append(@, s),
                                       ![port].missed = missed]
             \/ given' = [given EXCEPT ![port].missed = missed] /\ s \in missed,
             given[p].missed \subseteq missed,
             \A t \in ToList(l) : t < s => t \in missed
      PROVE  Listings'
  <2>1. s \in Slot /\ s >= l.nextSlot
    BY DEF ToList
  <2>2. /\ listing'[p].active /\ listing'[p].nextSlot = s + 1
        /\ listing'[p].first = l.first /\ listing'[p].last = l.last
        /\ \A q \in Ports \ {p} : listing'[q] = listing[q]
    BY <1>1, <1>2, <1>9
  <2>3. /\ given'[p].listed = "running" /\ given'[p].missed = missed
        /\ \A q \in Ports \ {p} : given'[q] = given[q]
        /\ given'[p].entries = Append(e, s) \/ (given'[p].entries = e /\ s \in missed)
    BY <1>1, <1>5, <1>9 DEF Given
  <2>4. \A i \in 1 .. Len(e) : e[i] < s
    BY <1>2, <1>3, <1>5, <2>1 DEF InOrder
  <2>5. InOrder(p)' /\ \A t : Names(p, t) => Names(p, t)'
    <3>1. CASE given'[p].entries = e
      <4>1. \A i \in 1 .. Len(e) : e[i] < s + 1
        BY <1>2, <1>3, <2>1, <2>4
      <4>2. \A i, j \in 1 .. Len(e) : i < j => e[i] < e[j]
        BY <1>5 DEF InOrder
      <4> HIDE DEF e, l
      <4>3. InOrder(p)'
        BY <2>2, <3>1, <4>1, <4>2 DEF InOrder
      <4>4. QED
        BY <3>1, <4>3 DEF Names, e
    <3>2. CASE given'[p].entries = Append(e, s)
      BY <1>1, <1>2, <1>5, <2>1, <2>2, <2>4, <3>2, EntryInOrder
    <3>3. QED
      BY <2>3, <3>1, <3>2
  <2>6. Settled(p, s)' /\ \A t : Settled(p, t) => Settled(p, t)'
    <3>1. CASE given'[p].entries = Append(e, s)
      <4>1. Names(p, s)'
        BY <1>1, <1>2, <1>5, <2>1, <2>2, <2>4, <3>1, EntryInOrder
      <4>2. QED
        BY <1>9, <2>3, <2>5, <4>1 DEF Settled
    <3>2. CASE given'[p].entries = e /\ s \in missed
      BY <1>9, <2>3, <2>5, <3>2 DEF Settled
    <3>3. QED
      BY <2>3, <3>1, <3>2
  <2>7. ListingSoFar(p)'
    <3>1. ASSUME NEW t \in asked[p].logs, t < s + 1 PROVE Settled(p, t)'
      <4>1. t \in Slot
        BY <1>2
      <4>2. t = s \/ t < s
        BY <1>3, <2>1, <3>1, <4>1
      <4>3. CASE t \in ToList(l) /\ t < s
        BY <1>9, <2>3, <4>3 DEF Settled
      <4>4. QED
        BY <1>6, <2>6, <4>2, <4>3
    <3>2. ASSUME NEW t \in asked[p].logs
          PROVE  Exists(t)' /\ InRange(t, l.first, l.last)
      BY <1>1, <1>5 DEF ListingSoFar, Exists
    <3>3. QED
      BY <1>1, <2>2, <3>1, <3>2 DEF ListingSoFar
  <2>8. ListingOf(p)'
    BY <2>2, <2>3, <2>5, <2>7 DEF ListingOf
  <2>9. QED
    BY <1>7, <2>2, <2>3, <2>8 DEF Listings
<1>10. ASSUME NEW s \in ToList(l), NEW skipped, skipped = {t \in ToList(l) : t < s},
              listing' = [listing EXCEPT ![port].nextSlot = s + 1],
              given' = IF Fits(port)
                THEN [given EXCEPT ![port].entries = Append(@, s),
                                   ![port].missed = @ \cup skipped]
                ELSE [given EXCEPT ![port].missed = @ \cup skipped \cup {s}]
       PROVE  Listings'
  <2> DEFINE before == given[p].missed \cup skipped
  <2>1. CASE Fits(port)
    <3>1. given' = [given EXCEPT ![port].entries = Append(@, s), ![port].missed = before]
      BY <1>1, <1>10, <2>1 DEF Given
    <3>2. given[p].missed \subseteq before /\ \A t \in ToList(l) : t < s => t \in before
      BY <1>10
    <3> HIDE DEF before
    <3>3. QED
      BY <1>9, <1>10, <3>1, <3>2
  <2>2. CASE ~ Fits(port)
    <3> DEFINE all == before \cup {s}
    <3>1. given' = [given EXCEPT ![port].missed = all]
      BY <1>1, <1>10, <2>2
    <3>2. /\ s \in all /\ given[p].missed \subseteq all
          /\ \A t \in ToList(l) : t < s => t \in all
      BY <1>10
    <3> HIDE DEF all, before
    <3>3. QED
      BY <1>9, <1>10, <3>1, <3>2
  <2>3. QED
    BY <2>1, <2>2
<1>11. QED
  BY <1>8, <1>10 DEF ServiceListing

\* What a download is given is not what a listing is.
LEMMA DownloadsAside ==
  ASSUME DownloadInv, [Next]_vars, ~ StartListing, ~ ServiceListing
  PROVE  \A p \in Ports : Unlisted(p)
<1>1. /\ given \in [Ports -> Given] /\ asked \in [Ports -> Asked] /\ port \in Ports
      /\ TypeOK /\ HistoryTypeOK
  BY DEF DownloadInv, HistoryTypeOK, TypeOK
<1>2. listing' = listing
  BY DEF Next, TaskSdWrite, vars, task, StartStream, StopStream, WriteRecord,
         NotifyReuse, ChoosePort, ServiceAbsent, ServiceFinished, WaitForReader,
         SeekFails, ReadFails, SendChunk, Service, ForwardLogRequest, PostRecord, PostOther,
         LinkWrite
<1>3. CASE UNCHANGED <<asked, given>>
  BY <1>2, <1>3 DEF Unlisted
<1>4. CASE /\ asked' = asked
           /\ \E p, how : p \in Ports /\ given' = [given EXCEPT ![p].ended = how]
  <2>1. PICK p, how : p \in Ports /\ given' = [given EXCEPT ![p].ended = how]
    BY <1>4
  <2>2. QED
    BY <1>1, <1>2, <1>4, <2>1 DEF Unlisted, Given
<1>5. CASE asked' = asked /\ \E how \in {"done", "reused"} : given' = GivenEmpty(port, how)
  BY <1>1, <1>2, <1>5, EmptyIs DEF Unlisted
<1>6. CASE StartStream
  <2>1. PICK p \in Ports, r \in Request, length \in Nat :
          /\ stream' = [stream EXCEPT ![p] =
               [active |-> TRUE, absent |-> length = 0, slot |-> r.first - 1,
                pos |-> r.ofs, end |-> EndOf(r, length),
                toFileEnd |-> ToFileEnd(r, length), sentAny |-> FALSE,
                lastCount |-> 0]]
          /\ reader' = ReaderWithout(p)
          /\ asked' = [asked EXCEPT
               ![p].gen = IF length = 0 THEN 0 ELSE gen[r.first - 1],
               ![p].from = r.ofs,
               ![p].upto = Least(r.ofs + r.count, length)]
          /\ given' = [given EXCEPT ![p].bytes = {}, ![p].refused = {},
                                    ![p].short = 0, ![p].mute = 0,
                                    ![p].empty = 0, ![p].ended = "running"]
          /\ length # 0 => r.first - 1 \in Slot /\ length = size[r.first - 1]
    BY <1>1, <1>6, StartedStream
  <2>2. \A q \in Ports : asked'[q].logs = asked[q].logs
    BY <1>1, <2>1 DEF Asked
  <2>3. \A q \in Ports : /\ given'[q].entries = given[q].entries
                         /\ given'[q].missed = given[q].missed
                         /\ given'[q].listed = given[q].listed
    BY <1>1, <2>1 DEF Given
  <2>4. QED
    BY <1>2, <2>2, <2>3 DEF Unlisted
<1>7. CASE SendChunk
  <2>1. asked' = asked
    BY <1>7 DEF SendChunk, Service
  <2>2. PICK n \in 1 .. Chunk :
          /\ ChunkPosted(port, n, Carried(n))
          /\ Carried(n) \in SUBSET (Nat \X Nat \X Nat)
    BY <1>7, ChunkType DEF DownloadInv
  <2>3. n \in Nat
    BY DownloadAssumption
  <2>4. \A q \in Ports : /\ given'[q].entries = given[q].entries
                         /\ given'[q].missed = given[q].missed
                         /\ given'[q].listed = given[q].listed
    BY <1>1, <2>2, <2>3, ChunkGiven
  <2>5. QED
    BY <1>2, <2>1, <2>4 DEF Unlisted
<1>8. CASE ForwardLogRequest
  <2>1. asked' = asked
    BY <1>8 DEF ForwardLogRequest
  <2>2. PICK p, stop : p \in Ports /\ given' = [given EXCEPT ![p].stop = stop]
    <3>1. PICK r \in Requests : given' = [given EXCEPT ![r.port].stop =
                                  IF r.kind = "list" THEN @ ELSE r.kind = "end"]
      BY <1>8 DEF ForwardLogRequest
    <3>2. r.port \in Ports
      BY DownloadAssumption DEF Request
    <3>3. QED
      BY <3>1, <3>2
  <2>3. QED
    BY <1>1, <1>2, <2>1, <2>2 DEF Unlisted, Given
<1>9. CASE StopStream
  <2>1. Head(sdQueue).port \in Ports
    BY <1>1, <1>9, ReceiveRequest DEF StopStream, Request
  <2>2. PICK p, how : p \in Ports /\ given' = [given EXCEPT ![p].ended = how]
    <3>1. PICK p \in Ports : given' = [given EXCEPT ![p].ended =
                                 IF stream[p].active THEN "stopped" ELSE @]
      BY <1>9, <2>1 DEF StopStream
    <3>2. QED
      BY <3>1
  <2>3. QED
    BY <1>4, <1>9, <2>2 DEF StopStream
<1>10. CASE ReadFails \/ ServiceFinished
  <2>1. asked' = asked
    BY <1>10 DEF ReadFails, ServiceFinished, Service
  <2>2. \/ given' = GivenEmpty(port, "done")
        \/ given' = [given EXCEPT ![port].ended = "done"]
        \/ given' = [given EXCEPT ![port].ended = "failed"]
    BY <1>10 DEF ReadFails, ServiceFinished
  <2>3. QED
    BY <1>1, <1>4, <1>5, <2>1, <2>2
<1>11. CASE ServiceAbsent \/ NotifyReuse
  <2>1. asked' = asked
    BY <1>11 DEF ServiceAbsent, NotifyReuse, Service
  <2>2. \/ given' = GivenEmpty(port, "done")
        \/ given' = GivenEmpty(port, "reused")
        \/ given' = given
    BY <1>11 DEF ServiceAbsent, NotifyReuse
  <2>3. QED
    BY <1>3, <1>5, <2>1, <2>2
<1>12. QED
  BY <1>3, <1>6, <1>7, <1>8, <1>9, <1>10, <1>11
  DEF Next, TaskSdWrite, vars, history, WriteRecord, ChoosePort, WaitForReader,
      SeekFails, Service, PostRecord, PostOther, LinkWrite

LEMMA ListingStep ==
  ASSUME DownloadInv, FilesHoldSomething, Listings, [Next]_vars
  PROVE  Listings'
<1>1. \A s \in Slot : Exists(s) => Exists(s)'
  BY FilesStay
<1>2. CASE StartListing
  BY <1>1, <1>2, ListingStarts
<1>3. CASE ServiceListing
  <2>1. port \in Ports
    BY DEF DownloadInv, TypeOK
  <2>2. QED
    BY <1>3, <2>1, ListingContinues
<1>4. CASE ~ StartListing /\ ~ ServiceListing
  <2>1. ASSUME NEW p \in Ports PROVE ListingOf(p)'
    <3>1. asked[p].logs \subseteq Slot
      BY DEF DownloadInv, HistoryTypeOK, Asked
    <3>2. Unlisted(p) /\ ListingOf(p)
      BY <1>4, DownloadsAside DEF Listings
    <3>3. QED
      BY <1>1, <3>1, <3>2, ListingStands
  <2>2. QED
    BY <2>1 DEF Listings
<1>5. QED
  BY <1>2, <1>3, <1>4

-----------------------------------------------------------------------------
(***************************************************************************)
(* The invariant, and what it says                                         *)
(***************************************************************************)

LEMMA DeliveryInit == Init => DeliveryInv
<1> SUFFICES ASSUME Init PROVE DeliveryInv
  OBVIOUS
<1>1. FilesHoldSomething
  <2>1. /\ PreambleLen \in Nat \ {0} /\ SlotSize \in Nat /\ SlotSize > PreambleLen
        /\ cur \in Slot
    BY DownloadAssumption DEF Init
  <2>2. \A s \in Slot : s = cur \/ gen[s] \in {0, 1}
    BY DEF Init
  <2>3. \A s \in Slot : size[s] = IF s = cur THEN PreambleLen
                                  ELSE IF gen[s] = 1 THEN SlotSize ELSE 0
    BY DEF Init
  <2>4. QED
    BY <2>1, <2>2, <2>3 DEF FilesHoldSomething, Exists
<1>2. \A p \in Ports : /\ given[p] = NothingGiven /\ asked[p] = NothingAsked
                       /\ stream[p] = Idle /\ ~ listing[p].active
  BY DEF Init
<1>3. Delivery
  BY <1>2 DEF Delivery, DeliveryOf, NothingGiven, Idle
<1>4. Listings
  <2>1. \A p \in Ports : Len(given[p].entries) = 0
    BY <1>2, EmptySeq DEF NothingGiven
  <2>2. \A p \in Ports : InOrder(p)
    BY <2>1 DEF InOrder
  <2>3. QED
    BY <1>2, <2>2 DEF Listings, ListingOf, NothingGiven
<1>5. QED
  BY <1>1, <1>3, <1>4 DEF DeliveryInv

LEMMA DeliveryInvariance == Spec => []DeliveryInv
<1>1. DownloadInv /\ DeliveryInv /\ [Next]_vars => DeliveryInv'
  <2> SUFFICES ASSUME DownloadInv, DeliveryInv, [Next]_vars PROVE DeliveryInv'
    OBVIOUS
  <2>2. FilesHoldSomething'
    BY FilesStay DEF DeliveryInv
  <2>3. Delivery'
    BY DeliveryStep DEF DeliveryInv
  <2>4. Listings'
    BY ListingStep DEF DeliveryInv
  <2>5. QED
    BY <2>2, <2>3, <2>4 DEF DeliveryInv
<1>2. QED
  BY <1>1, DeliveryInit, Invariance, PTL DEF Spec

\* A download that ran to its end has posted every byte it was asked for, and
\* none twice, as long as the card has refused no reader its position: what the
\* ground lacks is what the port's queue refused.  (serviceStream().)
THEOREM PostsEverything == Spec => []PostsAll
<1>1. DeliveryInv => PostsAll
  BY DEF DeliveryInv, Delivery, DeliveryOf, Complete, PostedAsAsked, PostsAll
<1>2. QED
  BY <1>1, DeliveryInvariance, PTL

\* The end of a file is told by exactly one chunk that is not full, which the
\* port's queue takes or refuses, and a range that stops short of it by no empty
\* one.  (serviceStream().)
THEOREM EndsAreSignalled == Spec => []EndIsSignalled
<1>1. ASSUME DownloadInv, DeliveryInv, NEW p \in Ports
      PROVE  /\ given[p].ended = "running" =>
                  Told(p) = 0 \/ stream[p].pos >= stream[p].end
             /\ given[p].ended = "done" =>
                  IF stream[p].toFileEnd THEN Told(p) = 1 ELSE given[p].empty = 0
  BY <1>1 DEF DeliveryInv, Delivery, DeliveryOf, Running, Complete
<1>2. DownloadInv /\ DeliveryInv => EndIsSignalled
  BY <1>1 DEF EndIsSignalled, Told
<1>3. QED
  BY <1>2, Invariance, DeliveryInvariance, PTL

\* A listing names once and in order every log that was there when it was asked
\* for, but for those the card would not open and those the port's queue refused,
\* whatever the ring and the downloads do meanwhile.  (serviceListing().)
THEOREM EveryLogIsListed == Spec => []ListsEveryLog
<1>1. ASSUME DeliveryInv, NEW p \in Ports, given[p].listed = "done",
             NEW s \in asked[p].logs
      PROVE  s \in given[p].missed \cup
                    {given[p].entries[i] : i \in 1 .. Len(given[p].entries)}
  BY <1>1 DEF DeliveryInv, Listings, ListingOf, Settled, Names
<1>2. DeliveryInv => ListsEveryLog
  BY <1>1 DEF ListsEveryLog, DeliveryInv, Listings, ListingOf, InOrder
<1>3. QED
  BY <1>2, DeliveryInvariance, PTL

=============================================================================
