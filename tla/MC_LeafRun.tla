----------------------------- MODULE MC_LeafRun -----------------------------
(* A leaf of either transport; where the driver may be interrupted.        *)
EXTENDS LeafRun

\* In the try, at a wait and between two steps; its handler is a bounded teardown of its own.
Points == {"start2", "head", "get", "grace", "drain", "err", "wait", "finish"}
Nowhere == {}

=============================================================================
