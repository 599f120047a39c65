------------------------------ MODULE MC_RemoteJob ------------------------------
(***************************************************************************)
(* A batch site whose nodes are of two kinds, reached at two destinations  *)
(* (its `host` is edited in sites.yaml); a Build of one command, a         *)
(* Validate.execute of two, two attempts: a Build beside the abandoned job *)
(* of an earlier one, and a Build and the Validate.execute of its binary.  *)
(* The processes of a job take a status line or undo a rewrite, not both.  *)
(***************************************************************************)
EXTENDS RemoteJob

CONSTANTS old, new, m1, m2

TwoHosts == {old, new}
OneSite == [p \in TwoHosts |-> "site"]
Nodes == [p \in TwoHosts |-> IF p = old THEN {m1, m2} ELSE {m1}]
RunAndCheck == [k \in JobKinds |-> IF k = "build" THEN 1 ELSE 2]
=============================================================================
