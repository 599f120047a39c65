--------------------------- MODULE MC_Workshop ---------------------------
(* Both loops over every transport, with the counts of the code; times and *)
(* the schedule are scaled down.                                           *)
EXTENDS Workshop

BothKinds == {"produces", "reads"}
AllTransports == {"claude", "codex", "http"}

Scaled == <<1, 2>>
Reported == {-1, 2, 9}  \* past, near, beyond the cap
=============================================================================
