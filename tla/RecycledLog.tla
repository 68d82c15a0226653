---------------------------- MODULE RecycledLog ----------------------------
(***************************************************************************)
(* What the flight log promises its reader, without files, an index or a   *)
(* rotation (openspec/specs/flight-log/spec.md): records are kept in the   *)
(* order they were logged; a power cut loses only a suffix that had not    *)
(* been synced; space is won back only by giving up the oldest records.    *)
(***************************************************************************)
EXTENDS Naturals

CONSTANT Stamps     \* the records: naturals, numbered in the order they are logged

VARIABLES
  kept,             \* the records on the card
  unsynced          \* the records a power cut would lose

vars == <<kept, unsynced>>

Init == kept = {} /\ unsynced = {}

Newer(n) == \A r \in kept \cup unsynced : r < n

\* A record is logged; it may reach the card at once, with all before it.
Log ==
  \E n \in Stamps :
    /\ Newer(n)
    /\ \/ unsynced' = unsynced \cup {n} /\ UNCHANGED kept
       \/ unsynced' = {} /\ kept' = kept \cup unsynced \cup {n}

Sync ==
  /\ kept' = kept \cup unsynced
  /\ unsynced' = {}

\* The oldest records are given up; none of those not yet synced is.
Recycle ==
  /\ kept' \subseteq kept
  /\ \A old \in kept \ kept', new \in kept' \cup unsynced : old < new
  /\ UNCHANGED unsynced

PowerCut ==
  /\ unsynced' = {}
  /\ UNCHANGED kept

Next == Log \/ Sync \/ Recycle \/ PowerCut

Spec == Init /\ [][Next]_vars

=============================================================================
