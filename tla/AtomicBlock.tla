----------------------------- MODULE AtomicBlock -----------------------------
(***************************************************************************)
(* What src/recovery.cpp promises of the backup block: its callers set one *)
(* field, clear all of them or record a fault, each at once.  A reset, or  *)
(* a fault hook, that falls inside one of these leaves every field at its  *)
(* old or its new value, or a block that is seen to be invalid.            *)
(***************************************************************************)
EXTENDS BlockFields

VARIABLE block      \* the contents that are believed, or NoBlock

\* The contents that a caller makes of b: one field set, all cleared, or a
\* fault recorded.
OneSet(b, f, v) == [b EXCEPT ![f] = v]

\* Every field of c has its value in a or in b.
Mixes(a, b, c) == \A f \in Fields : c[f] \in {a[f], b[f]}

Init == block \in Blocks \union {NoBlock}

\* A call that runs to its end.  Only a clear mends an invalid block.
Complete ==
  \/ /\ block # NoBlock
     /\ \/ \E f \in Fields, v \in Byte : block' = OneSet(block, f, v)
        \/ \E n1, n2, p \in Byte : block' = WithFault(block, n1, n2, p)
  \/ block' = ZeroBlock

\* A call that a reset or a fault hook cuts.  An invalid block half cleared
\* may be believed by chance, but not with a count of consecutive faults.
Cut ==
  \/ block' = NoBlock
  \/ block = NoBlock /\ block' \in Blocks /\ block'["consecutive"] = 0
  \/ /\ block # NoBlock
     /\ block' \in Blocks
     /\ \/ \E f \in Fields, v \in Byte : Mixes(block, OneSet(block, f, v), block')
        \/ \E n1, n2, p \in Byte : Mixes(block, WithFault(block, n1, n2, p), block')
        \/ Mixes(block, ZeroBlock, block')

Next == Complete \/ Cut

Spec == Init /\ [][Next]_block
=============================================================================
