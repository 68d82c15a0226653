--------------------------- MODULE LogRingProofs ---------------------------
(***************************************************************************)
(* What is proved of the ring for every number of slots, every slot size,  *)
(* every record length and every point at which power is cut.              *)
(*                                                                         *)
(* The argument.  Whatever has happened, the slots other than one, the     *)
(* head, are either all full, or full before it and absent after it        *)
(* (HeadIs).  The walk of begin() started at a full slot, at slot 0 or at  *)
(* the head itself ends at a head (WalkFindsHead), and the index always    *)
(* names such a slot (IndexNames).  So the file the ring appends to, or    *)
(* would resume in, is the only one not full, and everything else on the   *)
(* card is older than it (Newest).  What a file holds before its records   *)
(* needs none of this: a file is opened with nothing in the cache, and     *)
(* each piece of its preamble is synced as it is written (PreambleInv).    *)
(***************************************************************************)
EXTENDS LogRing, SequenceTheorems, FiniteSetTheorems, TLAPS

\* The slots other than h are full, or the first lap has reached h.
HeadIs(h) ==
  \/ \A t \in Slot \ {h} : Full(t)
  \/ \A t \in Slot \ {h} : IF t < h THEN Full(t) ELSE t \notin present

\* Reading the index leads the walk to a head.
IndexNames == index = NoIndex \/ Full(index) \/ HeadIs(index)

\* Everything outside slot s is older than all s holds.
Newest(s) ==
  \A t \in Slot \ {s} : \A a \in Content(t), b \in Content(s) : a < b

\* Every stamp on the card or in the cache has been given out.
StampsGiven == \A s \in Slot : \A a \in Content(s) : a <= stamp

RingShape ==
  /\ \A s \in Slot \ present : size[s] = 0 /\ items[s] = {}
  /\ pc = "off" => \E h \in Slot : HeadIs(h)
  /\ pc # "off" => HeadIs(fileIdx)
  /\ pc # "nofile"

IndexShape ==
  /\ IndexNames
  /\ pc = "remove" => index = NoIndex \/ Full(index)
  /\ pc \in {"open", "preamble", "ready", "appended", "close"} =>
       ReadLogIndex = fileIdx

FileShape ==
  /\ pc \notin {"ready", "appended", "close"} => tail = {} /\ tailLen = 0
  /\ pc \in HasFile => fileIdx \in present
  /\ pc = "remove" /\ fileIdx \in present => Full(fileIdx)
  /\ pc = "close" => size[fileIdx] + tailLen >= SlotSize
  /\ pc \notin {"off", "remove"} => Newest(fileIdx)

RingInv ==
  /\ TypeOK
  /\ RingShape
  /\ IndexShape
  /\ FileShape
  /\ StampsGiven
  /\ UnfinishedIsNewest
  /\ NoMixedPasses

\* The faults under which a file never mixes two passes.
OnlyLostIndex == Faults \subseteq {"lostIndex", "lostIndexAllFull"}

-----------------------------------------------------------------------------
(***************************************************************************)
(* Type correctness                                                        *)
(***************************************************************************)

LEMMA NextSlotInRing == \A s \in Slot : NextSlot(s) \in Slot
  BY RingAssumption DEF Slot, NextSlot

LEMMA PreambleNotEmpty == Len(PreambleLens) \in Nat \ {0}
  BY RingAssumption, EmptySeq, LenProperties

LEMMA SyncType ==
  ASSUME TypeOK, Sync
  PROVE  /\ size' \in [Slot -> Nat]
         /\ items' \in [Slot -> SUBSET Nat]
         /\ tail' = {} /\ tailLen' = 0 /\ sinceFlush' = 0
<1>1. size[fileIdx] + tailLen \in Nat
  BY DEF TypeOK
<1>2. items[fileIdx] \cup tail \in SUBSET Nat
  BY DEF TypeOK
<1>3. size' \in [Slot -> Nat]
  BY <1>1 DEF TypeOK, Sync
<1>4. items' \in [Slot -> SUBSET Nat]
  BY <1>2 DEF TypeOK, Sync
<1>5. QED
  BY <1>3, <1>4 DEF Sync

LEMMA TypeInit == Init => TypeOK
  BY RingAssumption DEF Init, TypeOK, Slot, NoIndex

LEMMA TypeStep == TypeOK /\ [Next]_vars => TypeOK'
<1> SUFFICES ASSUME TypeOK, [Next]_vars PROVE TypeOK'
  OBVIOUS
<1> USE RingAssumption DEF TypeOK, Running
<1>1. CASE Begin
  <2>1. fileIdx' \in Slot /\ pc' \in Running
    <3>1. ReadLogIndex \in Slot /\ 0 \in Slot
      BY DEF ReadLogIndex, Slot
    <3>2. PICK i \in Slot, full \in SUBSET Slot :
            \/ \E s \in Slot : /\ ResumesIn(i, full, s)
                              /\ fileIdx' = s
                              /\ pc' = IF s = i THEN "open" ELSE "index"
            \/ fileIdx' = NextSlot(i) /\ pc' = "remove"
      <4>1. FullSlots \subseteq Slot
        BY DEF FullSlots
      <4>2. \A blind : FullSlots \ blind \in SUBSET Slot
        BY <4>1
      <4>3. PICK blind \in IF "openFails" \in Faults
                           THEN SUBSET present ELSE {{}},
                 i \in {ReadLogIndex} \cup
                         IF "openFails" \in Faults THEN {0} ELSE {} :
              \/ \E s \in Slot :
                   /\ ResumesIn(i, FullSlots \ blind, s)
                   /\ fileIdx' = s
                   /\ pc' = IF s = i THEN "open" ELSE "index"
              \/ /\ FullSlots \ blind = Slot
                 /\ fileIdx' = NextSlot(i)
                 /\ pc' = "remove"
        BY <1>1 DEF Begin
      <4>4. i \in Slot
        BY <3>1, <4>3
      <4>5. QED
        BY <4>2, <4>3, <4>4, Zenon
    <3>3. QED
      BY <3>2, NextSlotInRing
  <2>2. QED
    BY <1>1, <2>1 DEF Begin, cardVars, history
<1>2. CASE CloseFull
  BY <1>2, SyncType, NextSlotInRing DEF CloseFull, history
<1>3. CASE RemoveOldest
  BY <1>3 DEF RemoveOldest, history
<1>4. CASE WriteLogIndex
  BY <1>4 DEF WriteLogIndex, history
<1>5. CASE OpenSlot
  <2>1. Len(PreambleLens) \in Nat \ {0}
    BY PreambleNotEmpty
  <2>2. QED
    BY <1>5, <2>1 DEF OpenSlot, history
<1>6. CASE WritePreamble
  <2>1. piece + 1 \in 1 .. Len(PreambleLens)
    BY <1>6 DEF WritePreamble
  <2>2. PreambleLens[piece + 1] \in Nat
    BY <2>1
  <2>3. size' \in [Slot -> Nat]
    BY <1>6, <2>2 DEF WritePreamble
  <2>4. items[fileIdx] \cup tail \cup {stamp + 1} \in SUBSET Nat
    <3>1. stamp + 1 \in Nat /\ items[fileIdx] \in SUBSET Nat
      OBVIOUS
    <3>2. QED
      BY <3>1
  <2>5. items' \in [Slot -> SUBSET Nat]
    BY <1>6, <2>4 DEF WritePreamble
  <2>6. preamble' \in SUBSET Nat
    BY <1>6 DEF WritePreamble
  <2>7. QED
    BY <1>6, <2>1, <2>3, <2>5, <2>6 DEF WritePreamble
<1>7. CASE Write
  <2>1. tailLen' \in Nat /\ sinceFlush' \in Nat
    BY <1>7 DEF Write
  <2>2. tail' \in SUBSET Nat
    BY <1>7 DEF Write
  <2>3. QED
    BY <1>7, <2>1, <2>2 DEF Write, cardVars
<1>8. CASE FlushAndCheck
  <2>1. /\ size' \in [Slot -> Nat] /\ items' \in [Slot -> SUBSET Nat]
        /\ tail' \in SUBSET Nat /\ tailLen' \in Nat /\ sinceFlush' \in Nat
    <3>1. CASE Sync
      BY <3>1, SyncType
    <3>2. CASE ~ Sync
      BY <1>8, <3>2 DEF FlushAndCheck
    <3>3. QED
      BY <3>1, <3>2
  <2>2. QED
    BY <1>8, <2>1 DEF FlushAndCheck, history
<1>9. CASE PowerCut
  BY <1>9 DEF PowerCut, cardVars, history, Slot
<1>10. CASE DamageIndex
  BY <1>10 DEF DamageIndex, ramVars
<1>11. CASE UNCHANGED vars
  BY <1>11 DEF vars, cardVars, ramVars, history
<1>12. QED
  BY <1>1, <1>2, <1>3, <1>4, <1>5, <1>6, <1>7, <1>8, <1>9, <1>10, <1>11
     DEF Next

\* Every variable keeps its type, whatever the card does.  (lib/SdData.)
THEOREM TypeCorrect == Spec => []TypeOK
  BY TypeInit, TypeStep, PTL DEF Spec

-----------------------------------------------------------------------------
(***************************************************************************)
(* The head of the ring                                                    *)
(***************************************************************************)

\* Once the head is full, the next slot is the head; it is full or absent.
HeadMoves ==
  \A h \in Slot : TypeOK /\ HeadIs(h) /\ Full(h) =>
    /\ HeadIs(NextSlot(h))
    /\ NextSlot(h) \in present => Full(NextSlot(h))

LEMMA HeadMovesOn == HeadMoves
<1> SUFFICES ASSUME NEW h \in Slot, TypeOK, HeadIs(h), Full(h)
             PROVE  /\ HeadIs(NextSlot(h))
                    /\ NextSlot(h) \in present => Full(NextSlot(h))
  BY DEF HeadMoves
<1> USE RingAssumption
<1>1. CASE \A t \in Slot \ {h} : Full(t)
  <2>1. \A t \in Slot : Full(t)
    BY <1>1
  <2>2. QED
    BY <2>1, NextSlotInRing DEF HeadIs
<1>2. CASE \A t \in Slot \ {h} : IF t < h THEN Full(t) ELSE t \notin present
  <2>1. CASE h = Files - 1
    <3>1. \A t \in Slot : Full(t)
      BY <1>2, <2>1 DEF Slot
    <3>2. QED
      BY <3>1, NextSlotInRing DEF HeadIs
  <2>2. CASE h # Files - 1
    <3>1. NextSlot(h) = h + 1
      BY <2>2 DEF NextSlot
    <3>2. \A t \in Slot \ {h + 1} :
             IF t < h + 1 THEN Full(t) ELSE t \notin present
      BY <1>2 DEF Slot
    <3>3. h + 1 \notin present
      BY <1>2 DEF Slot, TypeOK
    <3>4. QED
      BY <3>1, <3>2, <3>3 DEF HeadIs
  <2>3. QED
    BY <2>1, <2>2
<1>3. QED
  BY <1>1, <1>2 DEF HeadIs

\* The walk of begin() ends at a head when it starts at slot 0, at a full slot
\* or at a head.
LEMMA WalkFindsHead ==
  ASSUME TypeOK, NEW h \in Slot, HeadIs(h),
         NEW i \in Slot, i = 0 \/ Full(i) \/ HeadIs(i),
         NEW s, ResumesIn(i, FullSlots, s)
  PROVE  HeadIs(s)
<1> USE RingAssumption
<1>1. /\ s \in Slot /\ ~ Full(s)
      /\ \A t \in Slot : ~ Full(t) => Distance(i, s) <= Distance(i, t)
  BY DEF ResumesIn, FullSlots
<1>2. CASE \A t \in Slot \ {h} : Full(t)
  BY <1>1, <1>2 DEF HeadIs
<1>3. CASE \A t \in Slot \ {h} : IF t < h THEN Full(t) ELSE t \notin present
  <2>1. s >= h
    BY <1>1, <1>3 DEF Slot
  <2>2. CASE s = h
    BY <2>2
  <2>3. CASE i > h
    <3>1. ~ Full(i) /\ HeadIs(i)
      BY <1>3, <2>3 DEF Full, Slot
    <3>2. Distance(i, s) <= Distance(i, i)
      BY <1>1, <3>1
    <3>3. s = i
      BY <1>1, <3>2 DEF Distance, Slot
    <3>4. QED
      BY <3>1, <3>3
  <2>4. CASE s > h /\ i <= h
    <3>1. Full(h)
      <4>1. Distance(i, h) < Distance(i, s)
        BY <1>1, <2>4 DEF Distance, Slot
      <4>2. QED
        BY <1>1, <4>1 DEF Distance, Slot
    <3>2. h + 1 \in Slot /\ ~ Full(h + 1)
      BY <1>1, <1>3, <2>4 DEF Full, Slot
    <3>3. s = h + 1
      <4>1. Distance(i, s) <= Distance(i, h + 1)
        BY <1>1, <3>2
      <4>2. QED
        BY <1>1, <2>4, <4>1 DEF Distance, Slot
    <3>4. \A t \in Slot \ {h + 1} :
             IF t < h + 1 THEN Full(t) ELSE t \notin present
      BY <1>3, <3>1 DEF Slot
    <3>5. QED
      BY <3>3, <3>4 DEF HeadIs
  <2>5. QED
    BY <1>1, <2>1, <2>2, <2>3, <2>4 DEF Slot
<1>4. QED
  BY <1>2, <1>3 DEF HeadIs

\* While the ring runs, the only file that is not full is the newest.
NewestAlone ==
  TypeOK /\ pc # "off" /\ RingShape /\ FileShape => UnfinishedIsNewest

LEMMA HeadIsNewest == NewestAlone
<1> SUFFICES ASSUME TypeOK, pc # "off", RingShape, FileShape,
                    NEW s \in present, ~ Full(s)
             PROVE  Newest(s)
  BY DEF NewestAlone, UnfinishedIsNewest, Newest
<1>1. s = fileIdx
  BY DEF RingShape, HeadIs, TypeOK
<1>2. QED
  BY <1>1 DEF FileShape, RingShape

-----------------------------------------------------------------------------
(***************************************************************************)
(* How a step may change what the files hold                               *)
(***************************************************************************)

\* A step after which every file holds what it held, or less.
LEMMA NothingAppended ==
  ASSUME TypeOK, StampsGiven, NoMixedPasses, stamp' = stamp,
         \A t \in Slot : Content(t)' \subseteq Content(t)
  PROVE  StampsGiven' /\ NoMixedPasses'
<1>1. StampsGiven'
  BY DEF StampsGiven
<1>2. NoMixedPasses'
  BY DEF NoMixedPasses
<1>3. QED
  BY <1>1, <1>2

\* A step that appends the next stamp to one file.
LEMMA StampsGrow ==
  ASSUME TypeOK, StampsGiven, NEW f \in Slot, stamp' = stamp + 1,
         Content(f)' = Content(f) \cup {stamp + 1},
         \A t \in Slot \ {f} : Content(t)' = Content(t)
  PROVE  StampsGiven'
<1>1. stamp \in Nat /\ \A t \in Slot : Content(t) \subseteq Nat
  BY DEF TypeOK, Content
<1>2. \A n \in Nat : n <= stamp => n <= stamp'
  BY <1>1
<1>3. stamp + 1 <= stamp'
  BY <1>1
<1>4. ASSUME NEW t \in Slot, NEW a \in Content(t)' PROVE a <= stamp'
  <2>1. CASE a \in Content(t)
    BY <1>1, <1>2, <2>1 DEF StampsGiven
  <2>2. CASE a \notin Content(t)
    <3>1. a = stamp + 1
      BY <2>2
    <3>2. QED
      BY <1>3, <3>1
  <2>3. QED
    BY <2>1, <2>2
<1>5. QED
  BY <1>4 DEF StampsGiven

\* A step that appends the next stamp to the newest file.
LEMMA StampAppended ==
  ASSUME TypeOK, StampsGiven, NoMixedPasses, Newest(fileIdx),
         stamp' = stamp + 1, fileIdx' = fileIdx,
         Content(fileIdx)' = Content(fileIdx) \cup {stamp + 1},
         \A t \in Slot \ {fileIdx} : Content(t)' = Content(t)
  PROVE  StampsGiven' /\ NoMixedPasses' /\ Newest(fileIdx)'
<1>0. /\ stamp \in Nat /\ fileIdx \in Slot
      /\ \A t \in Slot : Content(t) \subseteq Nat
  BY DEF TypeOK, Content
<1>1. StampsGiven'
  BY <1>0, StampsGrow
<1>2. Newest(fileIdx)'
  BY <1>0 DEF Newest, StampsGiven
<1>3. NoMixedPasses'
  <2> SUFFICES ASSUME NEW s \in Slot, NEW t \in Slot, s # t,
                      NEW a \in Content(s)', NEW c \in Content(s)',
                      NEW b \in Content(t)', a < b, b < c
               PROVE  FALSE
    BY DEF NoMixedPasses
  <2>1. CASE s = fileIdx
    \* b was there before, and is older than everything in s.
    BY <1>0, <2>1 DEF Newest, StampsGiven
  <2>2. CASE t = fileIdx
    BY <1>0, <2>2 DEF Newest, StampsGiven
  <2>3. CASE s # fileIdx /\ t # fileIdx
    BY <2>3 DEF NoMixedPasses
  <2>4. QED
    BY <2>1, <2>2, <2>3
<1>4. QED
  BY <1>1, <1>2, <1>3

\* The slots other than h look as they did.
LEMMA HeadKept ==
  ASSUME NEW h \in Slot, HeadIs(h),
         \A t \in Slot \ {h} : /\ t \in present' <=> t \in present
                               /\ size'[t] = size[t]
  PROVE  HeadIs(h)'
  BY DEF HeadIs, Full

-----------------------------------------------------------------------------
(***************************************************************************)
(* RingInv is inductive while the only fault is a lost index               *)
(***************************************************************************)

LEMMA RingInvInit == Init => RingInv
<1> SUFFICES ASSUME Init PROVE RingInv
  OBVIOUS
<1>1. TypeOK
  BY TypeInit
<1>2. \A s \in Slot : Content(s) = {}
  BY DEF Init, Content
<1>3. \A h \in Slot : h = 0 => HeadIs(h)
  BY RingAssumption DEF HeadIs, Init, Slot
<1>4. 0 \in Slot
  BY RingAssumption DEF Slot
<1>5. RingShape /\ IndexShape /\ FileShape
  BY <1>3, <1>4 DEF RingShape, IndexShape, IndexNames, FileShape, HasFile, Init
<1>6. StampsGiven /\ UnfinishedIsNewest /\ NoMixedPasses
  BY <1>2 DEF StampsGiven, UnfinishedIsNewest, NoMixedPasses, Init
<1>7. QED
  BY <1>1, <1>5, <1>6 DEF RingInv

LEMMA RingInvStep == OnlyLostIndex /\ RingInv /\ [Next]_vars => RingInv'
<1> SUFFICES ASSUME OnlyLostIndex, RingInv, [Next]_vars PROVE RingInv'
  OBVIOUS
<1> USE RingAssumption
<1>a. /\ TypeOK /\ RingShape /\ IndexShape /\ FileShape
      /\ StampsGiven /\ UnfinishedIsNewest /\ NoMixedPasses
  BY DEF RingInv
<1>b. TypeOK'
  BY <1>a, TypeStep
<1>c. NewestAlone' /\ HeadMoves'
  BY HeadIsNewest, HeadMovesOn, PTL
<1>d. /\ fileIdx \in Slot /\ size \in [Slot -> Nat]
      /\ items \in [Slot -> SUBSET Nat] /\ ReadLogIndex \in Slot
      /\ present \subseteq Slot /\ NoIndex \notin Slot /\ 0 \in Slot
  BY <1>a DEF TypeOK, ReadLogIndex, Slot, NoIndex
<1>e. ~ "removeFails" \in Faults /\ ~ "openFails" \in Faults
      /\ ~ "strayIndex" \in Faults
  BY DEF OnlyLostIndex
<1>f. ASSUME RingShape', FileShape', pc' # "off" PROVE UnfinishedIsNewest'
  BY <1>b, <1>c, <1>f DEF NewestAlone
<1>1. CASE Begin
  <2>1. /\ tail = {} /\ tail' = {} /\ UNCHANGED <<items, size, present, index>>
        /\ UNCHANGED <<stamp, tailLen, piece>> /\ tailLen = 0
    BY <1>1, <1>a DEF Begin, FileShape, cardVars, history
  <2>2. \A t \in Slot : Content(t) = items[t] /\ Content(t)' = items[t]
    BY <2>1 DEF Content
  <2>3. StampsGiven' /\ NoMixedPasses'
    BY <1>a, <2>1, <2>2, NothingAppended
  <2>4. \A h \in Slot : HeadIs(h) => HeadIs(h)'
    BY <2>1 DEF HeadIs, Full
  <2>5. IndexNames'
    BY <1>a, <1>d, <2>1, <2>4 DEF IndexShape, IndexNames, Full, TypeOK
  <2>6. CASE \E s \in Slot : /\ ResumesIn(ReadLogIndex, FullSlots, s)
                             /\ fileIdx' = s
                             /\ pc' = IF s = ReadLogIndex THEN "open" ELSE "index"
    <3>1. PICK s \in Slot : /\ ResumesIn(ReadLogIndex, FullSlots, s)
                            /\ fileIdx' = s
                            /\ pc' = IF s = ReadLogIndex THEN "open" ELSE "index"
      BY <2>6
    <3>2. PICK h \in Slot : HeadIs(h)
      BY <1>1, <1>a DEF Begin, RingShape
    <3>3. ReadLogIndex = 0 \/ Full(ReadLogIndex) \/ HeadIs(ReadLogIndex)
      BY <1>a, <1>d DEF IndexShape, IndexNames, ReadLogIndex, TypeOK
    <3>4. HeadIs(s)
      BY <1>a, <1>d, <3>1, <3>2, <3>3, WalkFindsHead
    <3>5. HeadIs(fileIdx)'
      BY <2>1, <3>1, <3>4 DEF HeadIs, Full
    <3>6. RingShape'
      BY <1>a, <2>1, <3>1, <3>5 DEF RingShape
    <3>7. IndexShape'
      BY <2>1, <2>5, <3>1 DEF IndexShape, ReadLogIndex
    <3>8. Newest(fileIdx)'
      <4>1. ~ Full(s)
        BY <3>1 DEF ResumesIn, FullSlots
      <4>2. CASE s \in present
        BY <1>a, <2>2, <3>1, <4>1, <4>2 DEF UnfinishedIsNewest, Newest
      <4>3. CASE s \notin present
        BY <1>a, <2>2, <3>1, <4>3 DEF RingShape, Newest
      <4>4. QED
        BY <4>2, <4>3
    <3>9. FileShape'
      BY <2>1, <3>1, <3>8 DEF FileShape, HasFile
    <3>10. QED
      BY <1>b, <1>f, <2>3, <3>1, <3>6, <3>7, <3>9 DEF RingInv
  <2>7. CASE FullSlots = Slot /\ fileIdx' = NextSlot(ReadLogIndex)
             /\ pc' = "remove"
    <3>1. \A t \in Slot : Full(t) /\ Full(t)'
      BY <2>1, <2>7 DEF FullSlots, Full
    <3>2. RingShape'
      BY <1>a, <1>b, <2>1, <2>7, <3>1 DEF RingShape, HeadIs
    <3>3. IndexShape'
      BY <1>a, <2>1, <2>5, <2>7, <3>1 DEF IndexShape, TypeOK, Full
    <3>4. FileShape'
      BY <1>b, <2>1, <2>7, <3>1 DEF FileShape, HasFile, TypeOK
    <3>5. QED
      BY <1>b, <1>f, <2>3, <2>7, <3>2, <3>3, <3>4 DEF RingInv
  <2>8. QED
    <3>1. \E blind \in {{}} :
            LET full == FullSlots \ blind IN
            \/ \E s \in Slot :
                 /\ ResumesIn(ReadLogIndex, full, s)
                 /\ fileIdx' = s
                 /\ pc' = IF s = ReadLogIndex THEN "open" ELSE "index"
            \/ /\ full = Slot
               /\ fileIdx' = NextSlot(ReadLogIndex)
               /\ pc' = "remove"
      BY <1>1, <1>e DEF Begin
    <3>2. FullSlots \ {} = FullSlots
      OBVIOUS
    <3>3. QED
      BY <2>6, <2>7, <3>1, <3>2
<1>2. CASE CloseFull
  <2>1. /\ UNCHANGED <<present, index, stamp, piece>> /\ tail' = {} /\ tailLen' = 0
        /\ fileIdx' = NextSlot(fileIdx) /\ pc' = "remove" /\ pc = "close"
        /\ size' = [size EXCEPT ![fileIdx] = @ + tailLen]
        /\ items' = [items EXCEPT ![fileIdx] = @ \cup tail]
    BY <1>2 DEF CloseFull, Sync, history
  <2>2. \A t \in Slot : Content(t)' = Content(t)
    BY <1>d, <2>1 DEF Content
  <2>3. StampsGiven' /\ NoMixedPasses'
    BY <1>a, <2>1, <2>2, NothingAppended
  <2>4. HeadIs(fileIdx) /\ ReadLogIndex = fileIdx /\ fileIdx \in present
        /\ size[fileIdx] + tailLen >= SlotSize
    BY <1>a, <2>1 DEF RingShape, IndexShape, FileShape, HasFile
  <2>5. \A h \in Slot : h = fileIdx => HeadIs(h)' /\ Full(h)'
    BY <1>d, <2>1, <2>4 DEF HeadIs, Full
  <2>6. HeadIs(fileIdx)' /\ (fileIdx' \in present' => Full(fileIdx)')
    BY <1>b, <1>c, <1>d, <2>1, <2>5 DEF HeadMoves
  <2>7. RingShape'
    BY <1>a, <1>d, <2>1, <2>4, <2>6 DEF RingShape
  <2>8. index' = NoIndex \/ Full(index)'
    BY <1>a, <2>1, <2>4, <2>5 DEF ReadLogIndex, TypeOK
  <2>9. IndexShape'
    BY <2>1, <2>8 DEF IndexShape, IndexNames
  <2>10. FileShape'
    BY <2>1, <2>6 DEF FileShape, HasFile
  <2>11. QED
    BY <1>b, <1>f, <2>1, <2>3, <2>7, <2>9, <2>10 DEF RingInv
<1>3. CASE RemoveOldest
  <2>1. /\ UNCHANGED <<index, fileIdx, tail, tailLen, stamp, piece>>
        /\ pc = "remove" /\ pc' = "index" /\ tail = {} /\ tailLen = 0
        /\ present' = present \ {fileIdx}
        /\ size' = [size EXCEPT ![fileIdx] = 0]
        /\ items' = [items EXCEPT ![fileIdx] = {}]
    BY <1>3, <1>a, <1>e DEF RemoveOldest, history, FileShape
  <2>2. \A t \in Slot : Content(t)' = IF t = fileIdx THEN {} ELSE Content(t)
    BY <1>d, <2>1 DEF Content
  <2>3. StampsGiven' /\ NoMixedPasses'
    BY <1>a, <2>1, <2>2, NothingAppended
  <2>4. \A t \in Slot \ {fileIdx} : /\ t \in present' <=> t \in present
                                    /\ size'[t] = size[t]
    BY <1>d, <2>1
  <2>5. \A h \in Slot : h = fileIdx => HeadIs(h)'
    BY <1>a, <2>1, <2>4, HeadKept DEF RingShape
  <2>6. RingShape'
    BY <1>a, <1>d, <2>1, <2>5 DEF RingShape
  <2>7. IndexNames'
    <3>1. CASE index = NoIndex
      BY <2>1, <3>1 DEF IndexNames
    <3>2. CASE index = fileIdx
      BY <1>d, <2>1, <2>5, <3>2 DEF IndexNames
    <3>3. CASE index # NoIndex /\ index # fileIdx
      <4>1. Full(index) /\ index \in Slot
        BY <1>a, <2>1, <3>3 DEF IndexShape, TypeOK
      <4>2. Full(index)'
        BY <2>1, <2>4, <3>3, <4>1 DEF Full
      <4>3. QED
        BY <4>2 DEF IndexNames
    <3>4. QED
      BY <3>1, <3>2, <3>3
  <2>8. IndexShape'
    BY <2>1, <2>7 DEF IndexShape
  <2>9. Newest(fileIdx)'
    BY <1>d, <2>1 DEF Newest, Content
  <2>10. FileShape'
    BY <2>1, <2>9 DEF FileShape, HasFile
  <2>11. QED
    BY <1>b, <1>f, <2>1, <2>3, <2>6, <2>8, <2>10 DEF RingInv
<1>4. CASE WriteLogIndex
  <2>1. /\ UNCHANGED <<present, size, items, fileIdx, tail, tailLen, stamp>>
        /\ pc = "index" /\ pc' = "open" /\ index' = fileIdx
        /\ tail = {} /\ tailLen = 0
    BY <1>4, <1>a DEF WriteLogIndex, history, FileShape, OnlyLostIndex
  <2>2. \A t \in Slot : Content(t)' = Content(t)
    BY <2>1 DEF Content
  <2>3. StampsGiven' /\ NoMixedPasses'
    BY <1>a, <2>1, <2>2, NothingAppended
  <2>4. HeadIs(fileIdx)' /\ HeadIs(index)'
    BY <1>a, <2>1 DEF RingShape, HeadIs, Full
  <2>5. RingShape'
    BY <1>a, <2>1, <2>4 DEF RingShape
  <2>6. IndexShape'
    BY <1>d, <2>1, <2>4 DEF IndexShape, IndexNames, ReadLogIndex
  <2>7. FileShape'
    <3>1. Newest(fileIdx)'
      BY <1>a, <2>1 DEF FileShape, Newest, Content
    <3>2. QED
      BY <1>a, <2>1, <3>1 DEF FileShape, HasFile
  <2>8. QED
    BY <1>b, <1>f, <2>1, <2>3, <2>5, <2>6, <2>7 DEF RingInv
<1>5. CASE OpenSlot
  <2>1. /\ UNCHANGED <<size, items, index, fileIdx, tail, tailLen, stamp>>
        /\ pc = "open" /\ pc' = "preamble" /\ tail = {} /\ tailLen = 0
        /\ present' = present \cup {fileIdx}
    BY <1>5, <1>a, <1>e DEF OpenSlot, history, FileShape
  <2>2. \A t \in Slot : Content(t)' = Content(t)
    BY <2>1 DEF Content
  <2>3. StampsGiven' /\ NoMixedPasses'
    BY <1>a, <2>1, <2>2, NothingAppended
  <2>4. \A h \in Slot : h = fileIdx => HeadIs(h)'
    BY <1>a, <2>1, HeadKept DEF RingShape
  <2>5. RingShape'
    BY <1>a, <1>d, <2>1, <2>4 DEF RingShape
  <2>6. IndexShape'
    BY <1>a, <1>d, <2>1, <2>4
       DEF IndexShape, IndexNames, ReadLogIndex, TypeOK
  <2>7. FileShape'
    <3>1. Newest(fileIdx)'
      BY <1>a, <2>1 DEF FileShape, Newest, Content
    <3>2. QED
      BY <1>a, <2>1, <3>1 DEF FileShape, HasFile
  <2>8. QED
    BY <1>b, <1>f, <2>1, <2>3, <2>5, <2>6, <2>7 DEF RingInv
<1>6. CASE WritePreamble
  <2>1. /\ UNCHANGED <<present, index, fileIdx>> /\ tail = {} /\ tail' = {}
        /\ tailLen' = 0 /\ pc = "preamble" /\ pc' \in {"preamble", "ready"}
        /\ stamp' = stamp + 1
        /\ items' = [items EXCEPT ![fileIdx] = @ \cup tail \cup {stamp + 1}]
        /\ \A t \in Slot \ {fileIdx} : size'[t] = size[t]
    BY <1>6, <1>a, <1>d DEF WritePreamble, FileShape
  <2>2. /\ Content(fileIdx)' = Content(fileIdx) \cup {stamp + 1}
        /\ \A t \in Slot \ {fileIdx} : Content(t)' = Content(t)
    BY <1>d, <2>1 DEF Content
  <2>3. StampsGiven' /\ NoMixedPasses' /\ Newest(fileIdx)'
    BY <1>a, <2>1, <2>2, StampAppended DEF FileShape
  <2>4. \A h \in Slot : h = fileIdx => HeadIs(h)'
    BY <1>a, <2>1, HeadKept DEF RingShape
  <2>5. fileIdx \in present
    BY <1>a, <2>1 DEF FileShape, HasFile
  <2>6. RingShape'
    BY <1>a, <1>d, <2>1, <2>4, <2>5 DEF RingShape
  <2>7. IndexShape'
    BY <1>a, <1>d, <2>1, <2>4
       DEF IndexShape, IndexNames, ReadLogIndex, TypeOK
  <2>8. FileShape'
    BY <2>1, <2>3, <2>5 DEF FileShape, HasFile
  <2>9. QED
    BY <1>b, <1>f, <2>1, <2>3, <2>6, <2>7, <2>8 DEF RingInv
<1>7. CASE Write
  <2>1. /\ UNCHANGED <<present, index, fileIdx, size, items>>
        /\ tail' = tail \cup {stamp + 1} /\ stamp' = stamp + 1
        /\ pc = "ready" /\ pc' = "appended"
    BY <1>7 DEF Write, cardVars
  <2>2. /\ Content(fileIdx)' = Content(fileIdx) \cup {stamp + 1}
        /\ \A t \in Slot \ {fileIdx} : Content(t)' = Content(t)
    BY <2>1 DEF Content
  <2>3. StampsGiven' /\ NoMixedPasses' /\ Newest(fileIdx)'
    BY <1>a, <2>1, <2>2, StampAppended DEF FileShape
  <2>4. \A h \in Slot : HeadIs(h) => HeadIs(h)'
    BY <2>1 DEF HeadIs, Full
  <2>5. RingShape'
    BY <1>a, <1>d, <2>1, <2>4 DEF RingShape
  <2>6. IndexShape'
    BY <1>a, <1>d, <2>1, <2>4
       DEF IndexShape, IndexNames, ReadLogIndex, TypeOK, Full
  <2>7. FileShape'
    BY <1>a, <2>1, <2>3 DEF FileShape, HasFile
  <2>8. QED
    BY <1>b, <1>f, <2>1, <2>3, <2>5, <2>6, <2>7 DEF RingInv
<1>8. CASE FlushAndCheck
  <2>1. /\ UNCHANGED <<present, index, fileIdx, stamp>> /\ pc = "appended"
        /\ pc' = IF size[fileIdx] + tailLen >= SlotSize THEN "close" ELSE "ready"
        /\ \A t \in Slot \ {fileIdx} : size'[t] = size[t] /\ items'[t] = items[t]
        /\ items'[fileIdx] \cup tail' = items[fileIdx] \cup tail
        /\ size'[fileIdx] + tailLen' = size[fileIdx] + tailLen
    <3>1. CASE Sync
      BY <1>8, <1>a, <1>d, <3>1 DEF FlushAndCheck, Sync, history, TypeOK
    <3>2. CASE ~ Sync
      BY <1>8, <3>2 DEF FlushAndCheck, history
    <3>3. QED
      BY <3>1, <3>2
  <2>2. \A t \in Slot : Content(t)' = Content(t)
    BY <2>1 DEF Content
  <2>3. StampsGiven' /\ NoMixedPasses'
    BY <1>a, <2>1, <2>2, NothingAppended
  <2>4. \A h \in Slot : h = fileIdx => HeadIs(h)'
    BY <1>a, <2>1, HeadKept DEF RingShape
  <2>5. fileIdx \in present
    BY <1>a, <2>1 DEF FileShape, HasFile
  <2>6. RingShape'
    BY <1>a, <1>d, <2>1, <2>4, <2>5 DEF RingShape
  <2>7. IndexShape'
    BY <1>a, <1>d, <2>1, <2>4
       DEF IndexShape, IndexNames, ReadLogIndex, TypeOK
  <2>8. FileShape'
    <3>1. Newest(fileIdx)'
      BY <1>a, <1>d, <2>1 DEF FileShape, Newest, Content
    <3>2. QED
      BY <1>a, <2>1, <2>5, <3>1 DEF FileShape, HasFile
  <2>9. QED
    BY <1>b, <1>f, <2>1, <2>3, <2>6, <2>7, <2>8 DEF RingInv
<1>9. CASE PowerCut
  <2>1. /\ UNCHANGED <<present, size, items, index, stamp>> /\ pc # "off"
        /\ pc' = "off" /\ tail' = {} /\ tailLen' = 0
    BY <1>9 DEF PowerCut, cardVars, history
  <2>2. \A t \in Slot : Content(t)' \subseteq Content(t)
    BY <2>1 DEF Content
  <2>3. StampsGiven' /\ NoMixedPasses'
    BY <1>a, <2>1, <2>2, NothingAppended
  <2>4. \A h \in Slot : HeadIs(h) => HeadIs(h)'
    BY <2>1 DEF HeadIs, Full
  <2>5. RingShape'
    BY <1>a, <1>d, <2>1, <2>4 DEF RingShape
  <2>6. IndexShape'
    BY <1>a, <1>d, <2>1, <2>4 DEF IndexShape, IndexNames, TypeOK, Full
  <2>7. FileShape'
    BY <2>1 DEF FileShape, HasFile
  <2>8. UnfinishedIsNewest'
    BY <1>a, <1>d, <2>1 DEF UnfinishedIsNewest, Full, Content
  <2>9. QED
    BY <1>b, <2>3, <2>5, <2>6, <2>7, <2>8 DEF RingInv
<1>10. CASE DamageIndex
  <2>1. /\ UNCHANGED <<present, size, items, tail, tailLen, fileIdx, stamp>>
        /\ pc = "off" /\ pc' = "off"
        /\ index' = NoIndex \/ Full(index')
    <3>1. PICK i \in Slot \cup {NoIndex} :
            /\ index' = i
            /\ (i = NoIndex \/ Full(i)) \/ FullSlots = Slot
      BY <1>10, <1>e DEF DamageIndex
    <3>2. i = NoIndex \/ Full(i)
      BY <3>1 DEF FullSlots
    <3>3. QED
      BY <1>10, <3>1, <3>2 DEF DamageIndex, ramVars
  <2>2. \A t \in Slot : Content(t)' = Content(t)
    BY <2>1 DEF Content
  <2>3. StampsGiven' /\ NoMixedPasses'
    BY <1>a, <2>1, <2>2, NothingAppended
  <2>4. \A h \in Slot : HeadIs(h) => HeadIs(h)'
    BY <2>1 DEF HeadIs, Full
  <2>5. RingShape'
    BY <1>a, <1>d, <2>1, <2>4 DEF RingShape
  <2>6. IndexShape'
    BY <2>1 DEF IndexShape, IndexNames, Full
  <2>7. FileShape'
    BY <1>a, <2>1 DEF FileShape, HasFile
  <2>8. UnfinishedIsNewest'
    BY <1>a, <1>d, <2>1 DEF UnfinishedIsNewest, Full, Content
  <2>9. QED
    BY <1>b, <2>3, <2>5, <2>6, <2>7, <2>8 DEF RingInv
<1>11. CASE UNCHANGED vars
  BY <1>11, <1>a, <1>b
     DEF RingInv, RingShape, IndexShape, IndexNames, FileShape, StampsGiven,
         UnfinishedIsNewest, NoMixedPasses, HeadIs, Full, ReadLogIndex, Newest,
         Content, vars, cardVars, ramVars, history
<1>12. QED
  BY <1>1, <1>2, <1>3, <1>4, <1>5, <1>6, <1>7, <1>8, <1>9, <1>10, <1>11
     DEF Next

LEMMA RingInvHolds == OnlyLostIndex => (Spec => []RingInv)
<1> SUFFICES ASSUME OnlyLostIndex PROVE Spec => []RingInv
  OBVIOUS
<1>1. RingInv /\ [Next]_vars => RingInv'
  BY RingInvStep
<1>2. QED
  BY <1>1, RingInvInit, PTL DEF Spec

\* However often power is cut and index.bin is lost, no log file holds records
\* from two passes through the ring.  (begin(), openNextSlot().)
THEOREM NeverMixesPasses == OnlyLostIndex => (Spec => []NoMixedPasses)
<1> SUFFICES ASSUME OnlyLostIndex PROVE Spec => []NoMixedPasses
  OBVIOUS
<1>1. RingInv => NoMixedPasses
  BY DEF RingInv
<1>2. QED
  BY <1>1, RingInvHolds, PTL

\* A file that is not full is newer than everything else on the card.
\* (slotIsFull() and the walk of begin().)
THEOREM UnfinishedStaysNewest == OnlyLostIndex => (Spec => []UnfinishedIsNewest)
<1> SUFFICES ASSUME OnlyLostIndex PROVE Spec => []UnfinishedIsNewest
  OBVIOUS
<1>1. RingInv => UnfinishedIsNewest
  BY DEF RingInv
<1>2. QED
  BY <1>1, RingInvHolds, PTL

\* The ring starts a file only when every file on the card is full.  (begin(),
\* openNextSlot().)
THEOREM NeverSkipsUnfinished == OnlyLostIndex => (Spec => ResumesUnfinished)
<1> SUFFICES ASSUME OnlyLostIndex PROVE Spec => ResumesUnfinished
  OBVIOUS
<1> DEFINE Resumes == \A s \in Slot : (s \in present' /\ s \notin present) =>
                        \A t \in present : Full(t)
<1>1. RingInv /\ [Next]_vars => [Resumes]_vars
  <2> SUFFICES ASSUME RingInv, [Next]_vars,
                      NEW s \in Slot, s \in present', s \notin present,
                      NEW t \in present
               PROVE  Full(t)
    OBVIOUS
  <2>1. present' = present \cup {fileIdx} /\ pc = "open"
    BY DEF Next, Begin, CloseFull, Sync, RemoveOldest, WriteLogIndex, OpenSlot,
           WritePreamble, Write, FlushAndCheck, PowerCut, DamageIndex,
           vars, cardVars, ramVars, history
  <2>2. HeadIs(fileIdx) /\ fileIdx \notin present /\ t \in Slot
    BY <2>1 DEF RingInv, RingShape, TypeOK
  <2>3. QED
    BY <2>2 DEF HeadIs
<1>2. Spec => [][Resumes]_vars
  BY <1>1, RingInvHolds, PTL DEF Spec
<1>3. QED
  BY <1>2 DEF ResumesUnfinished

-----------------------------------------------------------------------------
(***************************************************************************)
(* What a power cut costs                                                  *)
(***************************************************************************)

LEMMA LossStep == TypeOK /\ LossIsBounded /\ [Next]_vars => LossIsBounded'
<1> SUFFICES ASSUME TypeOK, LossIsBounded, [Next]_vars PROVE LossIsBounded'
  OBVIOUS
<1> USE RingAssumption DEF LossIsBounded
<1>1. CASE Begin
  BY <1>1 DEF Begin
<1>2. CASE CloseFull
  BY <1>2 DEF CloseFull, Sync
<1>3. CASE RemoveOldest
  BY <1>3 DEF RemoveOldest
<1>4. CASE WriteLogIndex
  BY <1>4 DEF WriteLogIndex
<1>5. CASE OpenSlot
  BY <1>5 DEF OpenSlot
<1>6. CASE WritePreamble
  BY <1>6 DEF WritePreamble
<1>7. CASE Write
  BY <1>7 DEF Write
<1>8. CASE FlushAndCheck
  BY <1>8 DEF FlushAndCheck, Sync, TypeOK
<1>9. CASE PowerCut
  BY <1>9 DEF PowerCut
<1>10. CASE DamageIndex
  BY <1>10 DEF DamageIndex, ramVars
<1>11. CASE UNCHANGED vars
  BY <1>11 DEF vars, ramVars
<1>12. QED
  BY <1>1, <1>2, <1>3, <1>4, <1>5, <1>6, <1>7, <1>8, <1>9, <1>10, <1>11
     DEF Next

\* Whatever the card does, a power cut costs less than one flush interval of
\* the log and the record being written.  (write(), writeRaw().)
THEOREM LossStaysBounded == Spec => []LossIsBounded
<1>1. Init => LossIsBounded
  BY RingAssumption DEF Init, LossIsBounded
<1>2. QED
  BY <1>1, LossStep, TypeCorrect, PTL DEF Spec

-----------------------------------------------------------------------------
(***************************************************************************)
(* Every file can be read on its own, whatever the card does               *)
(***************************************************************************)

\* The pieces of a preamble that have been synced to a file.
Pieces(s) == items[s] \cap preamble

\* While the ring appends records to a file, that file holds a whole preamble;
\* while the callback runs, it holds at least the pieces written so far.
PreambleInv ==
  /\ StampsGiven
  /\ \A p \in preamble : p <= stamp
  /\ tail \cap preamble = {}
  /\ pc = "preamble" => Cardinality(Pieces(fileIdx)) >= piece
  /\ pc \in {"ready", "appended", "close"} =>
       Cardinality(Pieces(fileIdx)) >= Len(PreambleLens)
  /\ PreambleBeforeRecords

LEMMA BoundedIsFinite ==
  ASSUME NEW S \in SUBSET Nat, NEW n \in Nat, \A s \in S : s <= n
  PROVE  IsFiniteSet(S) /\ Cardinality(S) \in Nat
  BY FS_BoundedSetOfNaturals, FS_CardinalityType

\* More pieces in a file are no fewer before a record of it.
LEMMA MorePieces ==
  ASSUME NEW P \in SUBSET Nat, NEW Q \in SUBSET P, NEW r \in Nat,
         NEW n \in Nat, Cardinality({p \in Q : p < r}) >= n
  PROVE  Cardinality({p \in P : p < r}) >= n
<1> DEFINE A == {p \in P : p < r}
           B == {p \in Q : p < r}
<1>0. \A a \in Nat : a < r => a <= r
  OBVIOUS
<1>1. A \in SUBSET Nat /\ \A a \in A : a <= r
  <2>1. \A a \in A : a \in Nat /\ a < r
    OBVIOUS
  <2>2. QED
    BY <1>0, <2>1, Zenon
<1>2. IsFiniteSet(A) /\ Cardinality(A) \in Nat
  BY <1>1, BoundedIsFinite
<1>3. B \in SUBSET A
  OBVIOUS
<1>4. B \in SUBSET Nat /\ \A b \in B : b <= r
  BY <1>1, <1>3, Zenon
<1>5. Cardinality(B) \in Nat
  BY <1>4, BoundedIsFinite
<1>6. Cardinality(B) <= Cardinality(A)
  BY <1>2, <1>3, FS_Subset
<1>7. Cardinality(B) >= n
  OBVIOUS
<1> HIDE DEF A, B
<1>8. Cardinality(A) >= n
  BY <1>2, <1>5, <1>6, <1>7
<1>9. QED
  BY <1>8 DEF A

\* The pieces in the open file are all on the card: what is in the library's
\* cache is records.
LEMMA PiecesAreSynced ==
  ASSUME TypeOK, tail \cap preamble = {}, NEW s \in Slot
  PROVE  Content(s) \cap preamble = Pieces(s)
  BY DEF Content, Pieces

\* A record that was in a file whose pieces all stay.
LEMMA RecordKept ==
  ASSUME TypeOK, TypeOK', PreambleInv, (tail \cap preamble = {})',
         NEW s \in Slot, Pieces(s) \subseteq Pieces(s)',
         NEW r \in Content(s) \ preamble
  PROVE  Cardinality({p \in (Content(s) \cap preamble)' : p < r}) >=
           Len(PreambleLens)
<1> DEFINE P == (Content(s) \cap preamble)'
           Q == Content(s) \cap preamble
<1>1. Cardinality({p \in Q : p < r}) >= Len(PreambleLens)
  BY DEF PreambleInv, PreambleBeforeRecords
<1>2. Q = Pieces(s)
  BY PiecesAreSynced DEF PreambleInv
<1>3. P = Pieces(s)'
  BY DEF Content, Pieces
<1>4. Q \in SUBSET P
  BY <1>2, <1>3
<1>5. P \in SUBSET Nat
  BY DEF TypeOK
<1>6. r \in Nat
  BY DEF TypeOK, Content
<1>7. Len(PreambleLens) \in Nat
  BY PreambleNotEmpty
<1> HIDE DEF P, Q
<1>8. Cardinality({p \in P : p < r}) >= Len(PreambleLens)
  BY <1>1, <1>4, <1>5, <1>6, <1>7, MorePieces
<1>9. QED
  BY <1>8 DEF P

\* A step that appends nothing, and may empty a slot.
LEMMA NoPieceLost ==
  ASSUME TypeOK, TypeOK', PreambleInv,
         stamp' = stamp, preamble' = preamble, tail' \subseteq tail,
         \A s \in Slot : /\ Content(s)' \subseteq Content(s)
                         /\ items[s] \subseteq items'[s] \/ Content(s)' = {}
  PROVE  /\ StampsGiven' /\ (\A p \in preamble : p <= stamp)'
         /\ (tail \cap preamble = {})' /\ PreambleBeforeRecords'
         /\ \A s \in Slot :
              items[s] \subseteq items'[s] => Pieces(s)' = Pieces(s)
<1>1. StampsGiven' /\ (\A p \in preamble : p <= stamp)'
  BY DEF PreambleInv, StampsGiven
<1>2. (tail \cap preamble = {})'
  BY DEF PreambleInv
<1>3. ASSUME NEW s \in Slot, items[s] \subseteq items'[s]
      PROVE  Pieces(s)' = Pieces(s)
  <2>1. Pieces(s) \subseteq Pieces(s)'
    BY <1>3 DEF Pieces
  <2>2. Pieces(s)' \subseteq Content(s) \cap preamble
    BY DEF Pieces, Content
  <2>3. QED
    BY <2>1, <2>2, PiecesAreSynced DEF PreambleInv
<1>4. PreambleBeforeRecords'
  <2> SUFFICES ASSUME NEW s \in Slot, NEW r \in (Content(s) \ preamble)'
               PROVE  Cardinality({p \in (Content(s) \cap preamble)' : p < r}) >=
                        Len(PreambleLens)
    BY DEF PreambleBeforeRecords
  <2>1. r \in Content(s) \ preamble /\ items[s] \subseteq items'[s]
    OBVIOUS
  <2>2. Pieces(s) \subseteq Pieces(s)'
    BY <1>3, <2>1
  <2>3. QED
    BY <1>2, <2>1, <2>2, RecordKept
<1>5. QED
  BY <1>1, <1>2, <1>3, <1>4

\* How many pieces the file holds once one more has been written.
LEMMA OnePieceMore ==
  ASSUME TypeOK, PreambleInv, NEW s \in Slot
  PROVE  /\ Cardinality(Pieces(s)) \in Nat
         /\ Cardinality(Pieces(s) \cup {stamp + 1}) = Cardinality(Pieces(s)) + 1
<1>1. Pieces(s) \in SUBSET Nat /\ stamp \in Nat
  BY DEF Pieces, TypeOK
<1>2. \A p \in Pieces(s) : p <= stamp
  BY DEF Pieces, PreambleInv
<1>3. IsFiniteSet(Pieces(s)) /\ Cardinality(Pieces(s)) \in Nat
  BY <1>1, <1>2, BoundedIsFinite
<1>4. stamp + 1 \notin Pieces(s)
  BY <1>1, <1>2
<1>5. QED
  BY <1>3, <1>4, FS_AddElement

LEMMA PreambleInit == Init => PreambleInv
<1> SUFFICES ASSUME Init PROVE PreambleInv
  OBVIOUS
<1>1. \A s \in Slot : Content(s) = {}
  BY DEF Init, Content
<1>2. preamble = {} /\ tail = {} /\ pc = "off"
  BY DEF Init
<1>3. QED
  BY <1>1, <1>2 DEF PreambleInv, StampsGiven, PreambleBeforeRecords

LEMMA PreambleStep ==
  TypeOK /\ LossIsBounded /\ PreambleInv /\ [Next]_vars => PreambleInv'
<1> SUFFICES ASSUME TypeOK, LossIsBounded, PreambleInv, [Next]_vars
             PROVE  PreambleInv'
  OBVIOUS
<1>a. TypeOK'
  BY TypeStep
<1>b. /\ fileIdx \in Slot /\ stamp \in Nat
      /\ size \in [Slot -> Nat] /\ items \in [Slot -> SUBSET Nat]
  BY DEF TypeOK
<1>1. CASE Begin
  <2>1. /\ tail = {} /\ tail' = {} /\ UNCHANGED <<items, stamp, preamble>>
        /\ pc' \in {"open", "index", "remove"}
    BY <1>1 DEF Begin, LossIsBounded, cardVars, history
  <2>2. \A s \in Slot : Content(s)' = Content(s)
    BY <2>1 DEF Content
  <2>3. QED
    BY <1>a, <2>1, <2>2, NoPieceLost DEF PreambleInv
<1>2. CASE CloseFull
  <2>1. /\ tail' = {} /\ UNCHANGED <<stamp, preamble>> /\ pc' = "remove"
        /\ items' = [items EXCEPT ![fileIdx] = @ \cup tail]
    BY <1>2 DEF CloseFull, Sync, history
  <2>2. \A s \in Slot : Content(s)' = Content(s) /\ items[s] \subseteq items'[s]
    BY <1>b, <2>1 DEF Content
  <2>3. QED
    BY <1>a, <2>1, <2>2, NoPieceLost DEF PreambleInv
<1>3. CASE RemoveOldest
  <2>1. /\ UNCHANGED <<fileIdx, tail, stamp, preamble>>
        /\ pc' = "index" /\ tail = {}
        /\ \/ items' = [items EXCEPT ![fileIdx] = {}]
           \/ UNCHANGED items
    BY <1>3 DEF RemoveOldest, history, LossIsBounded
  <2>2. \A s \in Slot : /\ Content(s)' \subseteq Content(s)
                        /\ items[s] \subseteq items'[s] \/ Content(s)' = {}
    BY <1>b, <2>1 DEF Content
  <2>3. QED
    BY <1>a, <2>1, <2>2, NoPieceLost DEF PreambleInv
<1>4. CASE WriteLogIndex
  <2>1. /\ UNCHANGED <<fileIdx, tail, items, stamp, preamble>> /\ pc' = "open"
    BY <1>4 DEF WriteLogIndex, history
  <2>2. \A s \in Slot : Content(s)' = Content(s)
    BY <2>1 DEF Content
  <2>3. QED
    BY <1>a, <2>1, <2>2, NoPieceLost DEF PreambleInv
<1>5. CASE OpenSlot
  <2>1. /\ UNCHANGED <<fileIdx, tail, items, stamp, preamble>>
        /\ \/ pc' = "preamble" /\ piece' = 0
           \/ pc' = "nofile"
    BY <1>5 DEF OpenSlot, history
  <2>2. \A s \in Slot : Content(s)' = Content(s)
    BY <2>1 DEF Content
  <2>3. Cardinality(Pieces(fileIdx)) \in Nat /\ Pieces(fileIdx)' = Pieces(fileIdx)
    BY <1>b, <2>1, OnePieceMore DEF Pieces
  <2>4. piece' = 0 => Cardinality(Pieces(fileIdx))' >= piece'
    BY <2>3
  <2>5. QED
    BY <1>a, <2>1, <2>2, <2>4, NoPieceLost DEF PreambleInv
<1>6. CASE WritePreamble
  <2>1. /\ pc = "preamble" /\ tail = {} /\ tail' = {} /\ stamp' = stamp + 1
        /\ preamble' = preamble \cup {stamp + 1} /\ fileIdx' = fileIdx
        /\ piece' = piece + 1
        /\ pc' = IF piece + 1 = Len(PreambleLens) THEN "ready" ELSE "preamble"
        /\ items' = [items EXCEPT ![fileIdx] = @ \cup tail \cup {stamp + 1}]
    BY <1>6 DEF WritePreamble, LossIsBounded
  <2>2. stamp' \in Nat /\ \A n \in Nat : n <= stamp => n <= stamp'
    BY <1>b, <2>1
  <2>3. /\ Content(fileIdx)' = Content(fileIdx) \cup {stamp + 1}
        /\ \A s \in Slot \ {fileIdx} : Content(s)' = Content(s)
        /\ \A s \in Slot : Content(s) = items[s] /\ Content(s)' = items'[s]
    BY <1>b, <2>1 DEF Content
  <2>4. StampsGiven' /\ (\A p \in preamble : p <= stamp)'
    <3>1. StampsGiven'
      BY <1>b, <2>1, <2>3, StampsGrow DEF PreambleInv
    <3>2. stamp + 1 <= stamp'
      BY <1>b, <2>1
    <3>3. \A p \in preamble : p \in Nat
      BY DEF TypeOK
    <3>4. \A p \in preamble' : p <= stamp'
      BY <2>1, <2>2, <3>2, <3>3, Zenon DEF PreambleInv
    <3>5. QED
      BY <3>1, <3>4
  <2>5. (tail \cap preamble = {})'
    BY <2>1
  <2>6. /\ Pieces(fileIdx)' = Pieces(fileIdx) \cup {stamp + 1}
        /\ \A s \in Slot : Pieces(s) \subseteq Pieces(s)'
    BY <1>b, <2>1 DEF Pieces
  <2>7. Cardinality(Pieces(fileIdx))' >= piece'
    <3>1. /\ Cardinality(Pieces(fileIdx)) \in Nat
          /\ Cardinality(Pieces(fileIdx))' = Cardinality(Pieces(fileIdx)) + 1
      BY <1>b, <2>6, OnePieceMore
    <3>2. Cardinality(Pieces(fileIdx)) >= piece /\ piece \in Nat
      BY <2>1, PreambleNotEmpty DEF PreambleInv, TypeOK
    <3>3. QED
      BY <2>1, <3>1, <3>2
  <2>8. /\ (pc = "preamble" => Cardinality(Pieces(fileIdx)) >= piece)'
        /\ (pc \in {"ready", "appended", "close"} =>
              Cardinality(Pieces(fileIdx)) >= Len(PreambleLens))'
    BY <2>1, <2>7
  <2>9. PreambleBeforeRecords'
    <3> SUFFICES ASSUME NEW s \in Slot, NEW r \in (Content(s) \ preamble)'
                 PROVE  Cardinality({p \in (Content(s) \cap preamble)' : p < r})
                          >= Len(PreambleLens)
      BY DEF PreambleBeforeRecords
    <3>1. r \in Content(s) \ preamble
      BY <2>1, <2>3
    <3>2. QED
      BY <1>a, <2>5, <2>6, <3>1, RecordKept
  <2>10. QED
    BY <2>4, <2>5, <2>8, <2>9 DEF PreambleInv
<1>7. CASE Write
  <2>1. /\ pc = "ready" /\ pc' = "appended" /\ stamp' = stamp + 1
        /\ tail' = tail \cup {stamp + 1}
        /\ UNCHANGED <<items, fileIdx, preamble>>
    BY <1>7 DEF Write, cardVars
  <2>2. stamp' \in Nat /\ \A n \in Nat : n <= stamp => n <= stamp'
    BY <1>b, <2>1
  <2>3. /\ Content(fileIdx)' = Content(fileIdx) \cup {stamp + 1}
        /\ \A s \in Slot \ {fileIdx} : Content(s)' = Content(s)
    BY <1>b, <2>1 DEF Content
  <2>4. StampsGiven' /\ (\A p \in preamble : p <= stamp)'
    <3>1. StampsGiven'
      BY <1>b, <2>1, <2>3, StampsGrow DEF PreambleInv
    <3>2. \A p \in preamble : p \in Nat
      BY DEF TypeOK
    <3>3. \A p \in preamble' : p <= stamp'
      BY <2>1, <2>2, <3>2, Zenon DEF PreambleInv
    <3>4. QED
      BY <3>1, <3>3
  <2>5. stamp + 1 \notin preamble
    BY <1>b DEF PreambleInv, TypeOK
  <2>6. (tail \cap preamble = {})'
    BY <2>1, <2>5 DEF PreambleInv
  <2>7. \A s \in Slot : Pieces(s)' = Pieces(s)
    BY <2>1 DEF Pieces
  <2>8. Cardinality(Pieces(fileIdx))' >= Len(PreambleLens)
    BY <1>b, <2>1, <2>7 DEF PreambleInv
  <2>9. PreambleBeforeRecords'
    <3> SUFFICES ASSUME NEW s \in Slot, NEW r \in (Content(s) \ preamble)'
                 PROVE  Cardinality({p \in (Content(s) \cap preamble)' : p < r})
                          >= Len(PreambleLens)
      BY DEF PreambleBeforeRecords
    <3>1. CASE r \in Content(s) \ preamble
      BY <1>a, <2>6, <2>7, <3>1, RecordKept
    <3>2. CASE r \notin Content(s) \ preamble
      <4>1. s = fileIdx /\ r = stamp + 1
        BY <2>1, <2>3, <3>2
      <4>2. (Content(s) \cap preamble)' = Pieces(fileIdx)'
        BY <2>1, <2>6, <4>1 DEF Content, Pieces
      <4>3. \A p \in Pieces(fileIdx)' : p < r
        <5>1. \A p \in Pieces(fileIdx)' : p \in Nat /\ p <= stamp
          BY <2>1 DEF Pieces, PreambleInv, TypeOK
        <5>2. \A n \in Nat : n <= stamp => n < stamp + 1
          BY <1>b
        <5>3. QED
          BY <4>1, <5>1, <5>2, Zenon
      <4>4. {p \in (Content(s) \cap preamble)' : p < r} = Pieces(fileIdx)'
        BY <4>2, <4>3
      <4>5. QED
        BY <2>8, <4>4
    <3>3. QED
      BY <3>1, <3>2
  <2>10. QED
    BY <2>1, <2>4, <2>6, <2>8, <2>9 DEF PreambleInv
<1>8. CASE FlushAndCheck
  <2>1. /\ UNCHANGED <<fileIdx, stamp, preamble>> /\ pc = "appended"
        /\ pc' \in {"close", "ready"}
        /\ \A t \in Slot \ {fileIdx} : items'[t] = items[t]
        /\ items'[fileIdx] \cup tail' = items[fileIdx] \cup tail
        /\ items[fileIdx] \subseteq items'[fileIdx] /\ tail' \subseteq tail
    <3>1. CASE Sync
      BY <1>8, <1>b, <3>1 DEF FlushAndCheck, Sync, history
    <3>2. CASE ~ Sync
      BY <1>8, <3>2 DEF FlushAndCheck, history
    <3>3. QED
      BY <3>1, <3>2
  <2>2. \A s \in Slot : Content(s)' = Content(s) /\ items[s] \subseteq items'[s]
    BY <2>1 DEF Content
  <2>3. /\ StampsGiven' /\ (\A p \in preamble : p <= stamp)'
        /\ (tail \cap preamble = {})' /\ PreambleBeforeRecords'
        /\ Pieces(fileIdx)' = Pieces(fileIdx)
    BY <1>a, <1>b, <2>1, <2>2, NoPieceLost DEF Pieces
  <2>4. QED
    BY <2>1, <2>3 DEF PreambleInv
<1>9. CASE PowerCut
  <2>1. /\ tail' = {} /\ UNCHANGED <<items, stamp, preamble>> /\ pc' = "off"
    BY <1>9 DEF PowerCut, cardVars, history
  <2>2. \A s \in Slot : Content(s)' \subseteq Content(s)
    BY <2>1 DEF Content
  <2>3. QED
    BY <1>a, <2>1, <2>2, NoPieceLost DEF PreambleInv
<1>10. CASE DamageIndex \/ UNCHANGED vars
  <2>1. UNCHANGED <<items, tail, fileIdx, pc, piece, stamp, preamble>>
    BY <1>10 DEF DamageIndex, ramVars, vars, cardVars, history
  <2>2. UNCHANGED StampsGiven /\ UNCHANGED PreambleBeforeRecords
        /\ Pieces(fileIdx)' = Pieces(fileIdx)
    BY <2>1 DEF StampsGiven, PreambleBeforeRecords, Content, Pieces
  <2>3. QED
    BY <2>1, <2>2 DEF PreambleInv
<1>11. QED
  BY <1>1, <1>2, <1>3, <1>4, <1>5, <1>6, <1>7, <1>8, <1>9, <1>10 DEF Next

\* Whatever the card does and wherever power is cut, a whole preamble precedes
\* every record of every file.  (notifyOpened(), writeRaw().)
THEOREM PreambleComesFirst == Spec => []PreambleBeforeRecords
<1>1. PreambleInv => PreambleBeforeRecords
  BY DEF PreambleInv
<1>2. QED
  BY <1>1, PreambleInit, PreambleStep, LossStaysBounded, TypeCorrect, PTL
     DEF Spec

=============================================================================
