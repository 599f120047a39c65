------------------------ MODULE MC_ClosureScheduler ------------------------
(* A small closure for TLC: two members above one.                         *)
EXTENDS ClosureScheduler, TLC

CONSTANTS base, left, right

Fork == {base, left, right}
ForkDeps == (base :> {}) @@ (left :> {base}) @@ (right :> {base})
ForkRank == (base :> 1) @@ (left :> 2) @@ (right :> 3)

AnyClaimed == {{}, {left}, {base, right}}
=============================================================================
