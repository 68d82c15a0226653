------------------------------ MODULE LogRing ------------------------------
(***************************************************************************)
(* The ring of log files of lib/SdData: `Files` files data<i>.BIN on the   *)
(* card, index.bin naming the one being written, and the code that opens,  *)
(* appends, syncs and rotates them.                                        *)
(*                                                                         *)
(* Every write the code makes to the card is one step, so that power can   *)
(* be cut between any two of them.  What is appended carries a stamp, the  *)
(* order in which the firmware appended it; what a file holds is the set   *)
(* of stamps in it, so that two passes through the ring can be told apart. *)
(* A directory entry shows what has been synced (`size`, `items`); what    *)
(* was appended since lives in the library's cache (`tail`) and a cut      *)
(* loses it.                                                               *)
(***************************************************************************)
EXTENDS Integers, Sequences, FiniteSets

CONSTANTS
  Files,         \* _files: how many slots the ring has
  SlotSize,      \* _size: a file this long is full
  FlushEvery,    \* FLUSH_INTERVAL_BYTES
  RecordLens,    \* the lengths a record handed to write() may have
  PreambleLens,  \* the lengths of the pieces the onOpen callback writes
  Faults,        \* which faults of the card the environment may inject
  MaxStamp,      \* bound: how many appends a behaviour may contain
  MaxDamage      \* bound: how often index.bin may be damaged

NoIndex == -1    \* index.bin missing, empty, or naming no slot of the ring

(***************************************************************************)
(* lostIndex         index.bin disappears, or names a full slot, while     *)
(*                   some slot is not full                                 *)
(* lostIndexAllFull  the same while every slot is full (design.md of       *)
(*                   harden-the-ring-index accepts what follows)           *)
(* strayIndex        index.bin names another slot that is not full         *)
(* removeFails       SD.remove() returns false and the file stays          *)
(* openFails         SD.open() returns no file                             *)
(***************************************************************************)
FaultKinds == {"lostIndex", "lostIndexAllFull", "strayIndex",
               "removeFails", "openFails"}

ASSUME RingAssumption ==
  /\ Files \in Nat \ {0}
  /\ SlotSize \in Nat \ {0}
  /\ FlushEvery \in Nat \ {0}
  /\ RecordLens \subseteq Nat \ {0}
  /\ PreambleLens \in Seq(Nat \ {0})
  /\ PreambleLens # <<>>
  /\ Faults \subseteq FaultKinds
  /\ MaxStamp \in Nat
  /\ MaxDamage \in Nat

VARIABLES
  present,    \* the slots whose file exists on the card
  size,       \* the length each directory entry shows
  items,      \* the stamps each file holds as far as it has been synced
  index,      \* what index.bin names
  pc,         \* where the code is; "off" while there is no power
  fileIdx,    \* _fileIdx
  sinceFlush, \* _sinceFlush
  tail,       \* stamps appended to the open file and not synced
  tailLen,    \* and their length
  piece,      \* how many pieces of the preamble the callback has written
  stamp,      \* the last stamp given out (history)
  preamble,   \* the stamps that are pieces of a preamble (history)
  damages     \* how often the index has been damaged (history)

cardVars == <<present, size, items, index>>
ramVars  == <<pc, fileIdx, sinceFlush, tail, tailLen, piece>>
history  == <<stamp, preamble, damages>>
vars     == <<cardVars, ramVars, history>>

Slot == 0 .. Files - 1

\* Mutation of NextSlot: the ring never wraps.
MutNextSlot(s) == s + 1

\* (idx + 1) % _files, for an idx in the ring.
NextSlot(s) == IF s = Files - 1 THEN 0 ELSE s + 1

\* How many steps the walk of begin() takes from slot i to slot s.
Distance(i, s) == IF s >= i THEN s - i ELSE s - i + Files

\* slotIsFull(): an absent slot is not full.
Full(s) == s \in present /\ size[s] >= SlotSize

\* Mutation of ReadLogIndex: the index is taken for the last finished slot.
MutReadLogIndex == IF index \in Slot THEN NextSlot(index) ELSE 0

\* readLogIndex(): anything that names no slot reads as 0.
ReadLogIndex == IF index \in Slot THEN index ELSE 0

\* Mutation of ResumesIn: the last slot that is not full, not the first.
MutResumesIn(i, full, s) ==
  /\ s \in Slot \ full
  /\ \A t \in Slot \ full : Distance(i, s) >= Distance(i, t)

\* The slot the walk from i resumes in, given the slots that look full.
ResumesIn(i, full, s) ==
  /\ s \in Slot \ full
  /\ \A t \in Slot \ full : Distance(i, s) <= Distance(i, t)

\* Mutation of FullSlots: begin() trusts the index without a look at the sizes.
MutFullSlots == {}

FullSlots == {s \in Slot : Full(s)}

(***************************************************************************)
(* The card is empty and the board is off.                                 *)
(***************************************************************************)
Init ==
  /\ present = {}
  /\ size = [s \in Slot |-> 0]
  /\ items = [s \in Slot |-> {}]
  /\ index = NoIndex
  /\ pc = "off"
  /\ fileIdx = 0
  /\ sinceFlush = 0
  /\ tail = {}
  /\ tailLen = 0
  /\ piece = 0
  /\ stamp = 0
  /\ preamble = {}
  /\ damages = 0

(***************************************************************************)
(* begin() up to its first write to the card: it closes nothing (nothing   *)
(* is open after power-up), reads the index, and walks the ring from it    *)
(* to the first slot that does not look full.  A slot whose open fails     *)
(* looks not full; an index whose open fails reads as 0.                   *)
(***************************************************************************)
Begin ==
  /\ pc = "off"
  /\ \E blind \in IF "openFails" \in Faults THEN SUBSET present ELSE {{}},
        indexed \in {ReadLogIndex} \cup IF "openFails" \in Faults THEN {0} ELSE {} :
       LET full == FullSlots \ blind IN
       \/ \E s \in Slot :
            /\ ResumesIn(indexed, full, s)
            /\ fileIdx' = s
            /\ pc' = IF s = indexed THEN "open" ELSE "index"
       \/ /\ full = Slot
          /\ fileIdx' = NextSlot(indexed)
          /\ pc' = "remove"
  /\ UNCHANGED <<cardVars, sinceFlush, tail, tailLen, piece, history>>

\* Mutation of Sync: the interval counter keeps the excess of the last write.
MutSync ==
  /\ size' = [size EXCEPT ![fileIdx] = @ + tailLen]
  /\ items' = [items EXCEPT ![fileIdx] = @ \cup tail]
  /\ tail' = {}
  /\ tailLen' = 0
  /\ sinceFlush' = sinceFlush - FlushEvery

\* What a sync does: the directory entry of the open file takes in the tail.
Sync ==
  /\ size' = [size EXCEPT ![fileIdx] = @ + tailLen]
  /\ items' = [items EXCEPT ![fileIdx] = @ \cup tail]
  /\ tail' = {}
  /\ tailLen' = 0
  /\ sinceFlush' = 0

\* openNextSlot(): close the full file, which syncs it, and move on.
CloseFull ==
  /\ pc = "close"
  /\ Sync
  /\ fileIdx' = NextSlot(fileIdx)
  /\ pc' = "remove"
  /\ UNCHANGED <<present, index, piece, history>>

\* openNextSlot(): delete what occupies the next slot.  The result of
\* SD.remove() is not looked at.
RemoveOldest ==
  /\ pc = "remove"
  /\ \/ /\ present' = present \ {fileIdx}
        /\ size' = [size EXCEPT ![fileIdx] = 0]
        /\ items' = [items EXCEPT ![fileIdx] = {}]
     \/ /\ "removeFails" \in Faults
        /\ UNCHANGED <<present, size, items>>
  /\ pc' = "index"
  /\ UNCHANGED <<index, fileIdx, sinceFlush, tail, tailLen, piece, history>>

\* Mutation of WriteLogIndex: the position is not saved.
MutWriteLogIndex ==
  /\ pc = "index"
  /\ pc' = "open"
  /\ UNCHANGED <<cardVars, fileIdx, sinceFlush, tail, tailLen, piece, history>>

\* writeLogIndex(): overwrites the index in place, unless it cannot be opened.
WriteLogIndex ==
  /\ pc = "index"
  /\ \/ index' = fileIdx
     \/ "openFails" \in Faults /\ UNCHANGED index
  /\ pc' = "open"
  /\ UNCHANGED <<present, size, items, fileIdx, sinceFlush, tail, tailLen,
                 piece, history>>

\* Mutation of OpenSlot: a file that exists is resumed without its preamble.
MutOpenSlot ==
  /\ pc = "open"
  /\ sinceFlush' = 0
  /\ present' = present \cup {fileIdx}
  /\ piece' = 0
  /\ pc' = IF fileIdx \in present THEN "ready" ELSE "preamble"
  /\ UNCHANGED <<size, items, index, fileIdx, tail, tailLen, history>>

\* Opening the slot to append creates its file.  When the open fails the ring
\* holds no file and drops every write until the next boot.
OpenSlot ==
  /\ pc = "open"
  /\ sinceFlush' = 0
  /\ \/ /\ present' = present \cup {fileIdx}
        /\ piece' = 0
        /\ pc' = "preamble"
     \/ /\ "openFails" \in Faults
        /\ pc' = "nofile"
        /\ UNCHANGED <<present, piece>>
  /\ UNCHANGED <<size, items, index, fileIdx, tail, tailLen, history>>

\* One writeRaw() of the callback: append and sync.
WritePreamble ==
  /\ pc = "preamble"
  /\ stamp < MaxStamp
  /\ stamp' = stamp + 1
  /\ preamble' = preamble \cup {stamp + 1}
  /\ size' = [size EXCEPT ![fileIdx] = @ + tailLen + PreambleLens[piece + 1]]
  /\ items' = [items EXCEPT ![fileIdx] = @ \cup tail \cup {stamp + 1}]
  /\ tail' = {}
  /\ tailLen' = 0
  /\ sinceFlush' = 0
  /\ piece' = piece + 1
  /\ pc' = IF piece + 1 = Len(PreambleLens) THEN "ready" ELSE "preamble"
  /\ UNCHANGED <<present, index, fileIdx, damages>>

\* write(), up to the point where the bytes are in the library's cache.
Write ==
  /\ pc = "ready"
  /\ stamp < MaxStamp
  /\ stamp' = stamp + 1
  /\ tail' = tail \cup {stamp + 1}
  /\ \E len \in RecordLens :
       /\ tailLen' = tailLen + len
       /\ sinceFlush' = sinceFlush + len
  /\ pc' = "appended"
  /\ UNCHANGED <<cardVars, fileIdx, piece, preamble, damages>>

\* The rest of write(): sync once per interval, rotate when the file is full.
FlushAndCheck ==
  /\ pc = "appended"
  /\ IF sinceFlush >= FlushEvery
     THEN Sync
     ELSE UNCHANGED <<size, items, tail, tailLen, sinceFlush>>
  /\ pc' = IF size[fileIdx] + tailLen >= SlotSize THEN "close" ELSE "ready"
  /\ UNCHANGED <<present, index, fileIdx, piece, history>>

\* Power is lost, or the microcontroller resets: what was not synced is gone.
PowerCut ==
  /\ pc # "off"
  /\ pc' = "off"
  /\ fileIdx' = 0
  /\ sinceFlush' = 0
  /\ tail' = {}
  /\ tailLen' = 0
  /\ piece' = 0
  /\ UNCHANGED <<cardVars, history>>

\* While the board is off, index.bin is deleted or damaged.
DamageIndex ==
  /\ pc = "off"
  /\ damages < MaxDamage
  /\ damages' = damages + 1
  /\ \E i \in Slot \cup {NoIndex} :
       /\ index' = i
       /\ \/ /\ "lostIndex" \in Faults
             /\ FullSlots # Slot
             /\ i = NoIndex \/ Full(i)
          \/ /\ "lostIndexAllFull" \in Faults
             /\ FullSlots = Slot
          \/ /\ "strayIndex" \in Faults
             /\ i \in Slot \ FullSlots
  /\ UNCHANGED <<present, size, items, ramVars, stamp, preamble>>

Next ==
  \/ Begin
  \/ CloseFull
  \/ RemoveOldest
  \/ WriteLogIndex
  \/ OpenSlot
  \/ WritePreamble
  \/ Write
  \/ FlushAndCheck
  \/ PowerCut
  \/ DamageIndex

Spec == Init /\ [][Next]_vars

-----------------------------------------------------------------------------
(***************************************************************************)
(* Properties                                                              *)
(***************************************************************************)

Running == {"close", "remove", "index", "open", "preamble", "ready",
            "appended", "nofile"}
HasFile == {"preamble", "ready", "appended", "close"}

\* What a file holds, the library's cache included.
Content(s) == items[s] \cup (IF s = fileIdx THEN tail ELSE {})

\* The type of every variable.
TypeOK ==
  /\ present \in SUBSET Slot
  /\ size \in [Slot -> Nat]
  /\ items \in [Slot -> SUBSET Nat]
  /\ index \in Slot \cup {NoIndex}
  /\ pc \in Running \cup {"off"}
  /\ fileIdx \in Slot
  /\ sinceFlush \in Nat
  /\ tail \in SUBSET Nat
  /\ tailLen \in Nat
  /\ piece \in 0 .. Len(PreambleLens)
  /\ pc = "preamble" => piece < Len(PreambleLens)
  /\ stamp \in Nat
  /\ preamble \in SUBSET Nat
  /\ damages \in 0 .. MaxDamage

\* No log file ever holds records from two passes through the ring: nothing
\* that was appended between two items of one file is in another file.
\* (begin() and openNextSlot(); openspec/specs/flight-log/spec.md:204.)
NoMixedPasses ==
  \A s, t \in Slot : s # t =>
    ~ \E a, c \in Content(s), b \in Content(t) : a < b /\ b < c

\* A file that is not full is only ever the newest: everything on the card
\* outside the file the ring writes, or would resume in, is older than it.
\* (slotIsFull() and the walk of begin().)
UnfinishedIsNewest ==
  \A s \in present : ~ Full(s) =>
    \A t \in Slot \ {s} : \A a \in Content(t), b \in Content(s) : a < b

\* Each file can be read on its own: a whole preamble precedes each of its
\* records, whatever power cuts its openings met.  (notifyOpened().)
PreambleBeforeRecords ==
  \A s \in Slot : \A r \in Content(s) \ preamble :
    Cardinality({p \in Content(s) \cap preamble : p < r}) >= Len(PreambleLens)

\* Power loss costs less than one flush interval: between two calls of write()
\* what is not on the card is shorter than that, and _sinceFlush is its length.
\* (write(), writeRaw(), openNextSlot().)
LossIsBounded ==
  /\ sinceFlush = tailLen
  /\ pc # "appended" => tailLen < FlushEvery
  /\ pc \notin {"ready", "appended", "close"} =>
       tail = {} /\ tailLen = 0

\* Opening after a reboot resumes the newest file unless it is full: it never
\* starts a file while an unfinished one is on the card.  (begin().)
ResumesUnfinished ==
  [][\A s \in Slot : (s \in present' /\ s \notin present) =>
       \A t \in present : Full(t)]_vars

\* The ring is a log that loses only what was not synced and gives up only its
\* oldest records, whichever files hold them: what a rotation deletes is older
\* than all it keeps.  (openNextSlot(), write(), writeRaw().)
Kept == UNION {items[s] : s \in Slot}

Abstract == INSTANCE RecycledLog
              WITH kept <- Kept, unsynced <- tail, Stamps <- 1 .. MaxStamp

ImplementsRecycledLog == Abstract!Spec

=============================================================================
