------------------------------ MODULE MC_SharedIr ------------------------------
(* Small instances of the shared IR for TLC.                                *)
EXTENDS SharedIr, TLC

CONSTANTS r1, r2, t1, t2, b1, b2

Conf(m, u, f) == [mode |-> m, until |-> u, forced |-> f]
TwoRuns == {r1, r2}
TwoTargets == {t1, t2}
OnTwoTargets == r1 :> t1 @@ r2 :> t2
TwoBodies == {b1, b2}

UnforcedRuns == {Conf("prod", "validate", FALSE)}

(* A run keeps its target, so runs and targets are swapped together.        *)
Swap == r1 :> r2 @@ r2 :> r1 @@ t1 :> t2 @@ t2 :> t1
Same == [x \in DOMAIN Swap |-> x]
Symmetry == {f @@ g : f \in {Swap, Same}, g \in Permutations(TwoBodies)}
=============================================================================
