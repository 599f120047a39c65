-------------------------- MODULE MC_Registration --------------------------
(* Small instances of the thread registration for TLC.                     *)
EXTENDS Registration

CONSTANTS c1, c2

TwoChildren == {c1, c2}
=============================================================================
