----------------------------- MODULE MCLogRing -----------------------------
(***************************************************************************)
(* Small rings for TLC.                                                    *)
(***************************************************************************)
EXTENDS LogRing

OnePiece  == <<1>>
TwoPieces == <<1, 1>>

=============================================================================
