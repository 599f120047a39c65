---------------------------- MODULE MC_NodeRuns ----------------------------
(* Small instances of the node runs for TLC.                               *)
EXTENDS NodeRuns, Sequences

CONSTANTS p1, p2, p3, p4, p5, p6, o1, o2, o3, o4, a, b, c

SixProcs == {p1, p2, p3, p4, p5, p6}
FourIds == {o1, o2, o3, o4}
ThreeSpecs == {a, b, c}

Absent == [role |-> "none", resume |-> FALSE, id |-> o1, spec |-> a, entry |-> None,
           boss |-> None, after |-> {}]
Single(i, s, r) == [Absent EXCEPT !.role = "single", !.id = i, !.spec = s, !.resume = r]
Member(i, s, r, d, n) ==
  [Absent EXCEPT !.role = "member", !.id = i, !.spec = s, !.resume = r, !.boss = d, !.after = n]
Closure(i, s, r, e) ==
  [Absent EXCEPT !.role = "closure", !.id = i, !.spec = s, !.resume = r, !.entry = e]

Of(j1, j2, j3, j4, j5, j6) ==
  [p \in SixProcs |-> CASE p = p1 -> j1 [] p = p2 -> j2 [] p = p3 -> j3
                        [] p = p4 -> j4 [] p = p5 -> j5 [] OTHER -> j6]

Scene(job, known, st, rdy, sg, kl, ft, ls) ==
  [job |-> job, status |-> [i \in FourIds |-> IF i \in known THEN st ELSE "none"],
   ready |-> rdy, signals |-> sg, kills |-> kl, faults |-> ft, losses |-> ls]

(* A record and a spec that several want at once: an id reused by a cold   *)
(* run, a resume of it, a member of another driver that waits.             *)
Reused(s, st) ==
  Scene(Of(Single(o1, s, FALSE), Single(o1, a, TRUE), Member(o2, a, FALSE, None, {}),
           Absent, Absent, Absent), {o1}, st, {}, 1, 1, 1, 0)

(* A fresh run and a resume of it, with more than one thing going wrong.   *)
Troubled ==
  Scene(Of(Single(o1, a, FALSE), Single(o1, a, TRUE), Absent, Absent, Absent, Absent),
        {}, "none", {}, 2, 1, 2, 0)

(* Two closures of the same members, b after a, resumed by different ones. *)
TwoResumes ==
  Of(Closure(o3, c, FALSE, o1), Member(o1, a, TRUE, p1, {}), Member(o2, b, TRUE, p1, {p2}),
     Closure(o4, c, FALSE, o2), Member(o1, a, TRUE, p4, {}), Member(o2, b, TRUE, p4, {p5}))

(* Two fresh closures that share the member a.                             *)
TwoFresh ==
  Of(Closure(o3, c, FALSE, None), Member(o1, a, FALSE, p1, {}), Absent,
     Closure(o4, b, FALSE, None), Member(o2, a, FALSE, p4, {}), Absent)

(* One of them finds a ready, skips it and keeps its claim; then a is lost. *)
LossyResumes == << Scene(TwoResumes, {o1, o2}, "fail", {a}, 0, 1, 0, 1) >>

AllScenes ==
  << Reused(a, "running"), Reused(b, "running"), Reused(b, "fail"), Troubled,
     Scene(TwoResumes, {o1, o2}, "fail", {}, 0, 0, 0, 0),
     Scene(TwoResumes, {o1, o2}, "fail", {a}, 0, 0, 0, 0),
     Scene(TwoFresh, {}, "none", {}, 0, 0, 0, 1) >> \o LossyResumes

EveryPoint == InTry \cup {"claim", "ask", "error", "finally", "release", "leave"}
=============================================================================
