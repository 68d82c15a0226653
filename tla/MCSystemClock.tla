--------------------------- MODULE MCSystemClock ---------------------------
(***************************************************************************)
(* Times for TLC.                                                          *)
(***************************************************************************)
EXTENDS SystemClock

\* From the ground: no time, two that are far apart.
Offered == {0, 10, 20}

\* In the DS1307: nothing plausible, and the second of those two.
Held == {0, 20}

\* It loses four seconds.
Lags == {-4}

=============================================================================
