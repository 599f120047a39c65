---------------------------- MODULE MC_Conductor ----------------------------
(* Small instances of the conductor for TLC.                               *)
EXTENDS Conductor

CONSTANTS i1, s1, b1

Conf(m, u, r, h) == [mode |-> m, until |-> u, rederive |-> r, hostRunner |-> h]

SomeGrades == {"major", "critical"}

OneIr == {i1}
OneSource == {s1}
OneBinary == {b1}

Policies == {Conf("prod", Validate, {}, TRUE), Conf("dev", Validate, {Generate}, FALSE),
             Conf("prod", Compile, {Compile}, FALSE)}
=============================================================================
