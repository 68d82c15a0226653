------------------------- MODULE LogRingRefinement -------------------------
(***************************************************************************)
(* The ring implements RecycledLog: proved for every number of slots while *)
(* the only fault is an index lost when some slot is not full.             *)
(*                                                                         *)
(* The argument.  A rotation may delete a file only if it is the oldest.   *)
(* So, walking the ring from the slot after the newest file, the files     *)
(* come in the order they were written (Aged); and when every slot is      *)
(* full, so that the sizes no longer show where the ring stopped, the      *)
(* index still does (AgeInv).  The step that deletes a file then maps to   *)
(* RecycledLog's Recycle, the steps that sync to its Sync, the appends to  *)
(* its Log, and all others leave `kept` and `unsynced` alone.              *)
(***************************************************************************)
EXTENDS LogRingProofs

\* Slot s comes before slot t on a walk around the ring that starts at f.
Before(f, s, t) ==
  \/ s >= f /\ t < f
  \/ s < t /\ (s >= f <=> t >= f)

\* In files that hold `held`, all of s is older than all of t.
Older(held, s, t) == \A a \in held[s], b \in held[t] : a < b

\* From slot f on, the files come in the order they were written.
Aged(held, f) == \A s, t \in Slot : Before(f, s, t) => Older(held, s, t)

\* The ring stopped, or was cut, at slot h.
StoppedAt(h) ==
  /\ HeadIs(h)
  /\ Aged(items, NextSlot(h))
  /\ FullSlots = Slot => ReadLogIndex = h

AgeInv ==
  /\ pc = "off" => \E h \in Slot : StoppedAt(h)
  /\ pc = "remove" => /\ HeadIs(ReadLogIndex)
                      /\ fileIdx = NextSlot(ReadLogIndex)
                      /\ Aged(items, fileIdx)
  /\ pc \notin {"off", "remove"} => Aged(items, NextSlot(fileIdx))
  /\ pc = "index" => ~ Full(fileIdx)

\* The fault under which a rotation always finds the oldest file.
OnlyLostUnfull == Faults \subseteq {"lostIndex"}

-----------------------------------------------------------------------------
(***************************************************************************)
(* Age                                                                     *)
(***************************************************************************)

\* The first slot of a walk comes before all others.
LEMMA FirstIsFirst ==
  \A f, t \in Slot : t # f => Before(f, f, t)
  BY RingAssumption DEF Before, Slot

\* The slot a walk starts after is its last.
LEMMA LastIsLast ==
  \A f, t \in Slot : ~ Before(NextSlot(f), f, t)
  BY RingAssumption DEF Before, Slot, NextSlot

\* Moving the start of the walk by one slot reorders that slot only.
LEMMA StartMoves ==
  \A f, s, t \in Slot : s # f /\ t # f /\ Before(NextSlot(f), s, t) =>
    Before(f, s, t)
  BY RingAssumption DEF Before, Slot, NextSlot

\* Emptying the oldest file makes its slot the newest.
LEMMA EmptiedIsLast ==
  ASSUME NEW held, NEW held2, NEW f \in Slot, Aged(held, f), held2[f] = {},
         \A t \in Slot \ {f} : held2[t] = held[t]
  PROVE  Aged(held2, NextSlot(f))
<1> SUFFICES ASSUME NEW s \in Slot, NEW t \in Slot, Before(NextSlot(f), s, t),
                    NEW a \in held2[s], NEW b \in held2[t]
             PROVE  a < b
  BY DEF Aged, Older
<1>1. s # f /\ t # f
  OBVIOUS
<1>2. Before(f, s, t)
  BY <1>1, StartMoves
<1>3. a \in held[s] /\ b \in held[t]
  BY <1>1
<1>4. QED
  BY <1>2, <1>3 DEF Aged, Older

\* Appending to the newest file keeps it the newest.
LEMMA AppendedIsLast ==
  ASSUME NEW held, NEW held2, NEW f \in Slot, Aged(held, NextSlot(f)),
         \A t \in Slot \ {f} : held2[t] = held[t],
         \A t \in Slot \ {f} : Older(held2, t, f)
  PROVE  Aged(held2, NextSlot(f))
<1> SUFFICES ASSUME NEW s \in Slot, NEW t \in Slot, Before(NextSlot(f), s, t)
             PROVE  Older(held2, s, t)
  BY DEF Aged
<1>1. s # f
  BY LastIsLast
<1>2. CASE t = f
  BY <1>1, <1>2
<1>3. CASE t # f
  <2>1. held2[s] = held[s] /\ held2[t] = held[t]
    BY <1>1, <1>3
  <2>2. Older(held, s, t)
    BY DEF Aged
  <2>3. QED
    BY <2>1, <2>2 DEF Older
<1>4. QED
  BY <1>2, <1>3

\* The slot begin() resumes in is the head the ring stopped at, or the absent
\* slot after it.
LEMMA TwoHeads ==
  ASSUME TypeOK, RingShape, NEW h \in Slot, NEW s \in Slot,
         HeadIs(h), HeadIs(s), ~ Full(s), s # h
  PROVE  /\ s = NextSlot(h) /\ s = h + 1
         /\ \A t \in Slot : t > h => items[t] = {}
<1> USE RingAssumption
<1>1. \A t \in Slot \ {h} : IF t < h THEN Full(t) ELSE t \notin present
  BY DEF HeadIs
<1>2. s > h
  BY <1>1 DEF Slot
<1>3. s = h + 1
  <2>1. h + 1 \in Slot
    BY <1>2 DEF Slot
  <2>2. h + 1 # s => ~ Full(h + 1)
    BY <1>1, <2>1 DEF Full, Slot
  <2>3. h + 1 # s => Full(h + 1)
    <3>1. CASE \A t \in Slot \ {s} : Full(t)
      BY <2>1, <3>1
    <3>2. CASE \A t \in Slot \ {s} : IF t < s THEN Full(t) ELSE t \notin present
      BY <1>2, <2>1, <3>2 DEF Slot
    <3>3. QED
      BY <3>1, <3>2 DEF HeadIs
  <2>4. QED
    BY <2>2, <2>3
<1>4. \A t \in Slot : t > h => items[t] = {}
  BY <1>1 DEF RingShape, Slot
<1>5. QED
  BY <1>3, <1>4 DEF NextSlot, Slot

LEMMA ResumedIsLast ==
  ASSUME TypeOK, RingShape, NEW h \in Slot, NEW s \in Slot,
         HeadIs(h), HeadIs(s), ~ Full(s), Aged(items, NextSlot(h))
  PROVE  Aged(items, NextSlot(s))
<1>1. CASE s = h
  BY <1>1
<1>2. CASE s # h
  <2>1. s = NextSlot(h) /\ items[s] = {}
    <3>1. s = NextSlot(h) /\ s = h + 1 /\ \A t \in Slot : t > h => items[t] = {}
      BY <1>2, TwoHeads
    <3>2. s > h
      BY <3>1 DEF Slot
    <3>3. QED
      BY <3>1, <3>2
  <2>2. QED
    BY <2>1, EmptiedIsLast
<1>3. QED
  BY <1>1, <1>2

-----------------------------------------------------------------------------
(***************************************************************************)
(* AgeInv is inductive, given RingInv                                      *)
(***************************************************************************)

LEMMA UnfullIsOnlyLost == OnlyLostUnfull => OnlyLostIndex
  BY DEF OnlyLostUnfull, OnlyLostIndex

LEMMA AgeInit == Init => AgeInv
<1> SUFFICES ASSUME Init PROVE AgeInv
  OBVIOUS
<1>1. 0 \in Slot /\ NoIndex \notin Slot
  BY RingAssumption DEF Slot, NoIndex
<1>2. HeadIs(0)
  BY RingAssumption DEF HeadIs, Init, Slot
<1>3. Aged(items, NextSlot(0))
  BY DEF Init, Aged, Older
<1>4. ReadLogIndex = 0
  BY <1>1 DEF Init, ReadLogIndex
<1>5. QED
  BY <1>1, <1>2, <1>3, <1>4 DEF AgeInv, StoppedAt, Init

LEMMA AgeStep ==
  OnlyLostUnfull /\ RingInv /\ RingInv' /\ AgeInv /\ [Next]_vars => AgeInv'
<1> SUFFICES ASSUME OnlyLostUnfull, RingInv, RingInv', AgeInv, [Next]_vars
             PROVE  AgeInv'
  OBVIOUS
<1>a. /\ TypeOK /\ RingShape /\ IndexShape /\ FileShape
      /\ TypeOK' /\ RingShape' /\ IndexShape' /\ FileShape'
  BY DEF RingInv
<1>b. /\ fileIdx \in Slot /\ ReadLogIndex \in Slot /\ 0 \in Slot
      /\ items \in [Slot -> SUBSET Nat] /\ size \in [Slot -> Nat]
  <2>1. 0 \in Slot
    BY RingAssumption DEF Slot
  <2>2. QED
    BY <1>a, <2>1 DEF TypeOK, ReadLogIndex
<1>c. /\ ~ "removeFails" \in Faults /\ ~ "openFails" \in Faults
      /\ ~ "strayIndex" \in Faults /\ ~ "lostIndexAllFull" \in Faults
  BY DEF OnlyLostUnfull
<1>1. CASE Begin
  <2>1. pc = "off" /\ UNCHANGED <<present, size, items, index>>
    BY <1>1 DEF Begin, cardVars
  <2>2. PICK h \in Slot : StoppedAt(h)
    BY <2>1 DEF AgeInv
  <2>3. CASE \E s \in Slot : /\ ResumesIn(ReadLogIndex, FullSlots, s)
                             /\ fileIdx' = s
                             /\ pc' = IF s = ReadLogIndex THEN "open" ELSE "index"
    <3>1. fileIdx' \in Slot /\ ~ Full(fileIdx') /\ pc' \in {"open", "index"}
      BY <2>3 DEF ResumesIn, FullSlots
    <3>2. HeadIs(fileIdx')
      BY <1>a, <2>1, <3>1 DEF RingShape, HeadIs, Full
    <3>3. Aged(items, NextSlot(fileIdx'))
      BY <1>a, <2>2, <3>1, <3>2, ResumedIsLast DEF StoppedAt
    <3>4. ~ Full(fileIdx)'
      BY <2>1, <3>1 DEF Full
    <3>5. QED
      BY <2>1, <3>1, <3>3, <3>4 DEF AgeInv
  <2>4. CASE FullSlots = Slot /\ fileIdx' = NextSlot(ReadLogIndex)
             /\ pc' = "remove"
    <3>1. h = ReadLogIndex
      BY <2>2, <2>4 DEF StoppedAt
    <3>2. HeadIs(ReadLogIndex)'
      BY <2>1, <2>2, <3>1 DEF StoppedAt, HeadIs, Full, ReadLogIndex
    <3>3. Aged(items', fileIdx') /\ fileIdx' = NextSlot(ReadLogIndex)'
      BY <2>1, <2>2, <2>4, <3>1 DEF StoppedAt, ReadLogIndex
    <3>4. QED
      BY <2>4, <3>2, <3>3 DEF AgeInv
  <2>5. QED
    <3>1. \E blind \in {{}} :
            LET full == FullSlots \ blind IN
            \/ \E s \in Slot :
                 /\ ResumesIn(ReadLogIndex, full, s)
                 /\ fileIdx' = s
                 /\ pc' = IF s = ReadLogIndex THEN "open" ELSE "index"
            \/ /\ full = Slot
               /\ fileIdx' = NextSlot(ReadLogIndex)
               /\ pc' = "remove"
      BY <1>1, <1>c DEF Begin
    <3>2. FullSlots \ {} = FullSlots
      OBVIOUS
    <3>3. QED
      BY <2>3, <2>4, <3>1, <3>2
<1>2. CASE CloseFull
  <2>1. /\ UNCHANGED <<present, index>> /\ pc = "close" /\ pc' = "remove"
        /\ fileIdx' = NextSlot(fileIdx)
        /\ \A t \in Slot \ {fileIdx} : items'[t] = items[t] /\ size'[t] = size[t]
        /\ items'[fileIdx] = items[fileIdx] \cup tail
    BY <1>2, <1>b DEF CloseFull, Sync
  <2>2. ReadLogIndex = fileIdx /\ ReadLogIndex' = fileIdx /\ HeadIs(fileIdx)
    BY <1>a, <2>1 DEF IndexShape, RingShape, ReadLogIndex
  <2>3. \A h \in Slot : h = fileIdx => HeadIs(h)'
    BY <2>1, <2>2, HeadKept
  <2>4. HeadIs(ReadLogIndex)'
    BY <1>b, <2>2, <2>3 DEF HeadIs
  <2>5. \A t \in Slot \ {fileIdx} : Older(items', t, fileIdx)
    <3>1. Newest(fileIdx)
      BY <1>a, <2>1 DEF FileShape
    <3>2. QED
      BY <2>1, <3>1 DEF Newest, Content, Older
  <2>6. Aged(items', NextSlot(fileIdx))
    BY <1>b, <2>1, <2>5, AppendedIsLast DEF AgeInv
  <2>7. QED
    BY <2>1, <2>2, <2>4, <2>6 DEF AgeInv
<1>3. CASE RemoveOldest
  <2>1. /\ fileIdx' = fileIdx /\ pc = "remove" /\ pc' = "index"
        /\ size' = [size EXCEPT ![fileIdx] = 0]
        /\ items' = [items EXCEPT ![fileIdx] = {}]
    BY <1>3, <1>c DEF RemoveOldest
  <2>2. Aged(items', NextSlot(fileIdx))
    BY <1>b, <2>1, EmptiedIsLast DEF AgeInv
  <2>3. ~ Full(fileIdx)'
    BY <1>b, <2>1, RingAssumption DEF Full
  <2>4. QED
    BY <2>1, <2>2, <2>3 DEF AgeInv
<1>4. CASE WriteLogIndex
  BY <1>4 DEF WriteLogIndex, AgeInv
<1>5. CASE OpenSlot
  <2>1. UNCHANGED <<items, fileIdx>> /\ pc = "open" /\ pc' = "preamble"
    BY <1>5, <1>c DEF OpenSlot
  <2>2. QED
    BY <2>1 DEF AgeInv
<1>6. CASE WritePreamble \/ FlushAndCheck
  <2>1. /\ fileIdx' = fileIdx /\ pc \in {"preamble", "appended"}
        /\ pc' \in {"preamble", "ready", "close"}
        /\ \A t \in Slot \ {fileIdx} : items'[t] = items[t]
    BY <1>6, <1>b DEF WritePreamble, FlushAndCheck, Sync
  <2>2. \A t \in Slot \ {fileIdx} : Older(items', t, fileIdx)
    <3>1. Newest(fileIdx)'
      BY <1>a, <2>1 DEF FileShape
    <3>2. QED
      BY <2>1, <3>1 DEF Newest, Content, Older
  <2>3. Aged(items', NextSlot(fileIdx))
    BY <1>b, <2>1, <2>2, AppendedIsLast DEF AgeInv
  <2>4. QED
    BY <2>1, <2>3 DEF AgeInv
<1>7. CASE Write
  BY <1>7 DEF Write, cardVars, AgeInv
<1>8. CASE PowerCut
  <2>1. /\ UNCHANGED <<present, size, items, index>> /\ pc # "off"
        /\ pc' = "off"
    BY <1>8 DEF PowerCut, cardVars
  <2>2. \A h \in Slot : StoppedAt(h) => StoppedAt(h)'
    BY <2>1 DEF StoppedAt, HeadIs, Full, FullSlots, ReadLogIndex
  <2>3. \E h \in Slot : StoppedAt(h)
    <3>1. CASE pc = "remove"
      BY <1>b, <3>1 DEF AgeInv, StoppedAt
    <3>2. CASE pc # "remove"
      <4>1. HeadIs(fileIdx) /\ Aged(items, NextSlot(fileIdx))
        BY <1>a, <2>1, <3>2 DEF RingShape, AgeInv
      <4>2. pc = "index" => FullSlots # Slot
        BY <1>b DEF AgeInv, FullSlots
      <4>3. pc # "index" => ReadLogIndex = fileIdx
        BY <1>a, <2>1, <3>2 DEF IndexShape, RingShape, TypeOK, Running
      <4>4. QED
        BY <1>b, <4>1, <4>2, <4>3 DEF StoppedAt
    <3>3. QED
      BY <3>1, <3>2
  <2>4. QED
    BY <2>1, <2>2, <2>3 DEF AgeInv
<1>9. CASE DamageIndex
  <2>1. /\ UNCHANGED <<present, size, items>> /\ pc = "off" /\ pc' = "off"
        /\ FullSlots # Slot
    BY <1>9, <1>c DEF DamageIndex, ramVars
  <2>2. \A h \in Slot : StoppedAt(h) => StoppedAt(h)'
    BY <2>1 DEF StoppedAt, HeadIs, Full, FullSlots
  <2>3. QED
    BY <2>1, <2>2 DEF AgeInv
<1>10. CASE UNCHANGED vars
  <2>1. UNCHANGED <<present, size, items, index, pc, fileIdx>>
    BY <1>10 DEF vars, cardVars, ramVars
  <2>2. QED
    BY <2>1 DEF AgeInv, StoppedAt, HeadIs, Full, FullSlots, ReadLogIndex
<1>11. QED
  BY <1>1, <1>2, <1>3, <1>4, <1>5, <1>6, <1>7, <1>8, <1>9, <1>10 DEF Next

-----------------------------------------------------------------------------
(***************************************************************************)
(* The refinement                                                          *)
(***************************************************************************)

\* What the open file takes in, the card takes in.
LEMMA KeptGrows ==
  ASSUME TypeOK, NEW new,
         \A t \in Slot \ {fileIdx} : items'[t] = items[t],
         items'[fileIdx] = items[fileIdx] \cup new
  PROVE  Kept' = Kept \cup new
<1>1. fileIdx \in Slot
  BY DEF TypeOK
<1>2. \A x : (\E t \in Slot : x \in items'[t]) <=>
             (x \in new \/ \E t \in Slot : x \in items[t])
  BY <1>1
<1>3. \A x : x \in Kept' <=> x \in Kept \/ x \in new
  BY <1>2 DEF Kept
<1>4. QED
  BY <1>3

\* The next stamp is newer than all there is.
LEMMA NextIsNewer ==
  ASSUME TypeOK, StampsGiven
  PROVE  Abstract!Newer(stamp + 1)
<1>1. stamp \in Nat /\ fileIdx \in Slot
  BY DEF TypeOK
<1>2. \A s \in Slot : \A r \in items[s] \cup tail : r \in Nat
  BY DEF TypeOK
<1>3. \A r \in Kept \cup tail : r \in Nat /\ r <= stamp
  BY <1>1, <1>2 DEF StampsGiven, Content, Kept
<1>4. QED
  BY <1>1, <1>3 DEF Abstract!Newer

LEMMA RefineInit == Init => Abstract!Init
  BY DEF Init, Abstract!Init, Kept

LEMMA RefineStep ==
  OnlyLostUnfull /\ RingInv /\ AgeInv /\ [Next]_vars =>
    [Abstract!Next]_(Abstract!vars)
<1> SUFFICES ASSUME OnlyLostUnfull, RingInv, AgeInv, [Next]_vars
             PROVE  Abstract!Next \/ UNCHANGED Abstract!vars
  OBVIOUS
<1>a. /\ TypeOK /\ FileShape /\ StampsGiven
      /\ fileIdx \in Slot /\ items \in [Slot -> SUBSET Nat]
  BY DEF RingInv, TypeOK
<1>1. CASE Begin \/ WriteLogIndex \/ OpenSlot \/ DamageIndex \/ UNCHANGED vars
  <2>1. UNCHANGED <<items, tail>>
    BY <1>1 DEF Begin, WriteLogIndex, OpenSlot, DamageIndex, vars, cardVars,
                ramVars
  <2>2. QED
    BY <2>1 DEF Abstract!vars, Kept
<1>2. CASE Sync
  <2>1. /\ \A t \in Slot \ {fileIdx} : items'[t] = items[t]
        /\ items'[fileIdx] = items[fileIdx] \cup tail /\ tail' = {}
    BY <1>2, <1>a DEF Sync
  <2>2. Kept' = Kept \cup tail
    BY <1>a, <2>1, KeptGrows
  <2>3. QED
    BY <2>1, <2>2 DEF Abstract!Next, Abstract!Sync
<1>3. CASE CloseFull
  BY <1>2, <1>3, <1>a DEF CloseFull
<1>4. CASE RemoveOldest
  <2>1. /\ pc = "remove" /\ tail' = tail /\ tail = {}
        /\ items' = [items EXCEPT ![fileIdx] = {}]
    BY <1>4, <1>a DEF RemoveOldest, OnlyLostUnfull, FileShape
  <2>2. \A t \in Slot : items'[t] = IF t = fileIdx THEN {} ELSE items[t]
    BY <1>a, <2>1
  <2>3. Kept' \subseteq Kept
    BY <2>2 DEF Kept
  <2>4. ASSUME NEW old \in Kept \ Kept', NEW new \in Kept' PROVE old < new
    <3>1. old \in items[fileIdx]
      BY <2>2 DEF Kept
    <3>2. PICK t \in Slot : t # fileIdx /\ new \in items[t]
      BY <2>2 DEF Kept
    <3>3. Older(items, fileIdx, t)
      BY <1>a, <2>1, <3>2, FirstIsFirst DEF AgeInv, Aged
    <3>4. QED
      BY <3>1, <3>2, <3>3 DEF Older
  <2>5. QED
    BY <2>1, <2>3, <2>4 DEF Abstract!Next, Abstract!Recycle
<1>5. CASE WritePreamble \/ Write
  <2>1. stamp + 1 \in 1 .. MaxStamp
    BY <1>5, <1>a, RingAssumption DEF WritePreamble, Write, TypeOK
  <2>2. Abstract!Newer(stamp + 1)
    BY <1>a, NextIsNewer
  <2>3. \/ tail' = tail \cup {stamp + 1} /\ Kept' = Kept
        \/ tail' = {} /\ Kept' = Kept \cup tail \cup {stamp + 1}
    <3>1. CASE WritePreamble
      <4>1. /\ \A t \in Slot \ {fileIdx} : items'[t] = items[t]
            /\ items'[fileIdx] = items[fileIdx] \cup (tail \cup {stamp + 1})
            /\ tail' = {}
        BY <1>a, <3>1 DEF WritePreamble
      <4>2. Kept' = Kept \cup (tail \cup {stamp + 1})
        BY <1>a, <4>1, KeptGrows
      <4>3. QED
        BY <4>1, <4>2
    <3>2. CASE Write
      BY <3>2 DEF Write, cardVars, Kept
    <3>3. QED
      BY <1>5, <3>1, <3>2
  <2>4. Abstract!Log
    BY <2>1, <2>2, <2>3 DEF Abstract!Log
  <2>5. QED
    BY <2>4 DEF Abstract!Next
<1>6. CASE FlushAndCheck
  <2>1. Sync \/ UNCHANGED <<items, tail>>
    BY <1>6 DEF FlushAndCheck
  <2>2. QED
    BY <1>2, <1>a, <2>1 DEF Abstract!vars, Kept
<1>7. CASE PowerCut
  <2>1. tail' = {} /\ Kept' = Kept
    BY <1>7 DEF PowerCut, cardVars, Kept
  <2>2. QED
    BY <2>1 DEF Abstract!Next, Abstract!PowerCut
<1>8. QED
  BY <1>1, <1>3, <1>4, <1>5, <1>6, <1>7 DEF Next

\* While the only fault is an index lost when some slot is not full, the ring
\* gives up only its oldest records, a power cut loses only what was not
\* synced, and nothing is kept out of order.  (begin(), openNextSlot(),
\* write(), writeRaw().)
THEOREM RingRefinesLog == OnlyLostUnfull => (Spec => ImplementsRecycledLog)
<1> SUFFICES ASSUME OnlyLostUnfull PROVE Spec => ImplementsRecycledLog
  OBVIOUS
<1>1. Spec => []RingInv
  BY RingInvHolds, UnfullIsOnlyLost
<1>2. RingInv /\ RingInv' /\ AgeInv /\ [Next]_vars => AgeInv'
  BY AgeStep
<1>3. RingInv /\ AgeInv /\ [Next]_vars => [Abstract!Next]_(Abstract!vars)
  BY RefineStep
<1>4. Spec => []AgeInv
  BY <1>1, <1>2, AgeInit, PTL DEF Spec
<1>5. Spec => Abstract!Spec
  BY <1>1, <1>3, <1>4, RefineInit, PTL DEF Spec, Abstract!Spec
<1>6. QED
  BY <1>5 DEF ImplementsRecycledLog

=============================================================================
