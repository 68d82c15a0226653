--------------------------- MODULE MCLogDownload ---------------------------
(***************************************************************************)
(* Requests for TLC.                                                       *)
(***************************************************************************)
EXTENDS LogDownload

Ask(kind, p, first, last, ofs, count) ==
  [kind |-> kind, port |-> p, first |-> first, last |-> last,
   ofs |-> ofs, count |-> count]

\* A listing of all, a file to its end, a range of the other one that stops
\* short, a file that is not there; from the other port a file to its end.
Mixed ==
  {Ask("list", 0, 0, 9, 0, 0), Ask("read", 0, 1, 0, 0, 9),
   Ask("read", 0, 2, 0, 1, 2), Ask("read", 0, 3, 0, 0, 9),
   Ask("end", 0, 0, 0, 0, 0),
   Ask("read", 1, 2, 0, 0, 9)}

\* A file to its end, and the end of that.
ReadAndEnd == {Ask("read", 0, 1, 0, 0, 9), Ask("end", 0, 0, 0, 0, 0)}

=============================================================================
