-------------------------- MODULE ClosureScheduler --------------------------
(***************************************************************************)
(* The parallel scheduler of a dependency closure                          *)
(* (src/tools/run_workflow.py: _run_closure_members_parallel,              *)
(* _schedule_closure_members, _stop_closure_members) and the members it    *)
(* starts, each a process of its own (_run_closure_member).                *)
(*                                                                         *)
(* A member is ready when the store holds certified outputs under the keys *)
(* recomputed for it now.  The driver asks before it starts a member, the  *)
(* member asks again once it holds its claim, and the driver asks a third  *)
(* time when the member has exited; the store changes in between.          *)
(* Deriving a member may take the outputs of everything above it away or   *)
(* bring earlier ones back, as their keys name what was derived.           *)
(*                                                                         *)
(* A signal may interrupt the driver between any two of its steps.         *)
(***************************************************************************)
EXTENDS Naturals, FiniteSets

CONSTANTS Members,         \* the closure without its target
          Deps,            \* the direct dependencies of each member
          Rank,            \* the place of each member in the launch order
          Jobs,            \* --jobs
          Foreign,         \* the sets of claims other drivers may hold at first
          MaxInterrupts,   \* bound: signals to the driver
          MaxDisturbances  \* bound: outputs that others take away

(* What _resolve_dependency_closure accepts: no cycle, and an order in     *)
(* which dependencies come first.                                          *)
ASSUME ClosureAssumption ==
  /\ IsFiniteSet(Members)
  /\ Deps \in [Members -> SUBSET Members]
  /\ \A S \in (SUBSET Members) \ {{}} : \E m \in S : Deps[m] \cap S = {}
  /\ Rank \in [Members -> Nat]
  /\ \A m \in Members : \A d \in Deps[m] : Rank[d] < Rank[m]
  /\ Jobs \in Nat \ {0}
  /\ Foreign \subseteq SUBSET Members
  /\ MaxInterrupts \in Nat /\ MaxDisturbances \in Nat

Nobody == "nobody"

VARIABLES
  pc,        \* where the driver is
  pending, running, done,
  scan,      \* the members this pass has still to consider
  exited,    \* the exited members of this round
  hand,      \* a member started but not yet in running, or popped from it
  failed,    \* there is a first failure
  recorded,  \* the members dependency_runs names with an exit code
  outcome,
  proc,      \* the process of each member
  termed,    \* the members sent SIGTERM
  ready,     \* the members whose outputs the store selects
  held,      \* the members whose claim another process holds
  prior,     \* the members a closure resume found an orchestration of
  entry,     \* the one whose claim this driver took on entry, if any
  interrupts, disturbances

book == <<pending, running, done, failed, recorded>>
driver == <<pc, book, scan, exited, hand, outcome>>
world == <<ready, held, disturbances>>
vars == <<driver, proc, termed, world, prior, entry, interrupts>>

Alive == {m \in Members : proc[m] \in {"starting", "deriving"}}
Exited(m) == proc[m] \in {"exit0", "exit1"}

Closed(S) == \A m \in S : Deps[m] \subseteq S
Above(m) == {n \in Members : \A S \in SUBSET Members : Closed(S) /\ n \in S => m \in S}

Init ==
  /\ pc = "loop" /\ pending = Members /\ running = {} /\ done = {}
  /\ scan = {} /\ exited = {} /\ hand = Nobody
  /\ failed = FALSE /\ recorded = {} /\ outcome = "none"
  /\ proc = [m \in Members |-> "none"] /\ termed = {}
  /\ ready \in SUBSET Members
  /\ prior \in SUBSET Members
  /\ entry \in SUBSET prior /\ Cardinality(entry) <= 1
  /\ \E F \in Foreign : held = F \cup entry
  /\ interrupts = 0 /\ disturbances = 0

-----------------------------------------------------------------------------
(* The scheduling loop.                                                    *)

NewPass ==
  /\ pc = "loop" /\ pending \cup running # {}
  /\ scan' = IF failed THEN {} ELSE Members
  /\ pc' = "scan"
  /\ UNCHANGED <<book, exited, hand, outcome, proc, termed, world, prior, entry, interrupts>>

Considers(m) == pc = "scan" /\ m \in scan /\ \A n \in scan : Rank[m] <= Rank[n]

Launchable(m) ==
  /\ m \in pending /\ Cardinality(running) < Jobs
  /\ Deps[m] \cap (pending \cup running) = {}

PassOver(m) ==
  /\ Considers(m) /\ ~Launchable(m)
  /\ scan' = scan \ {m}
  /\ UNCHANGED <<pc, book, exited, hand, outcome, proc, termed, world, prior, entry, interrupts>>

SkipReady(m) ==
  /\ Considers(m) /\ Launchable(m) /\ m \in ready
  /\ done' = done \cup {m} /\ pending' = pending \ {m} /\ scan' = scan \ {m}
  /\ UNCHANGED <<pc, running, failed, recorded, exited, hand, outcome, proc, termed, world,
                 prior, entry, interrupts>>

(* The configuration a prior orchestration ran under has changed.          *)
RejectResume(m) ==
  /\ Considers(m) /\ Launchable(m) /\ m \notin ready /\ m \in prior
  /\ failed' = TRUE /\ pending' = pending \ {m} /\ scan' = {}
  /\ UNCHANGED <<pc, running, done, recorded, exited, hand, outcome, proc, termed, world,
                 prior, entry, interrupts>>

(* Mutant: the driver keeps the claim it took on entry.                    *)
SpawnClaimed(m) ==
  /\ Considers(m) /\ Launchable(m) /\ m \notin ready
  /\ proc' = [proc EXCEPT ![m] = "starting"]
  /\ hand' = m /\ pc' = "spawned"
  /\ UNCHANGED <<book, scan, exited, outcome, termed, world, prior, entry, interrupts>>

Spawn(m) ==
  /\ Considers(m) /\ Launchable(m) /\ m \notin ready
  /\ proc' = [proc EXCEPT ![m] = "starting"]
  /\ held' = held \ (entry \cap {m})
  /\ entry' = entry \ {m}
  /\ hand' = m /\ pc' = "spawned"
  /\ UNCHANGED <<book, scan, exited, outcome, termed, ready, disturbances, prior, interrupts>>

Track ==
  /\ pc = "spawned"
  /\ running' = running \cup {hand} /\ pending' = pending \ {hand} /\ scan' = scan \ {hand}
  /\ hand' = Nobody /\ pc' = "scan"
  /\ UNCHANGED <<done, failed, recorded, exited, outcome, proc, termed, world, prior, entry,
                 interrupts>>

(* The process cannot be started: no clause catches the exception.         *)
SpawnFails(m) ==
  /\ Considers(m) /\ Launchable(m) /\ m \notin ready
  /\ pc' = "out" /\ outcome' = "raised"
  /\ UNCHANGED <<book, scan, exited, hand, proc, termed, world, prior, entry, interrupts>>

Verdict == IF failed THEN "fail" ELSE "ok"

(* Mutant: a failure is returned at once, over the heads of the running.   *)
EndPassAtOnce ==
  /\ pc = "scan" /\ scan = {}
  /\ IF running = {} \/ failed
     THEN /\ outcome' = IF pending # {} /\ ~failed THEN "stalled" ELSE Verdict
          /\ pc' = "out" /\ UNCHANGED exited
     ELSE /\ exited' = {m \in running : Exited(m)}
          /\ pc' = IF exited' = {} THEN "loop" ELSE "reap"
          /\ UNCHANGED outcome
  /\ UNCHANGED <<book, scan, hand, proc, termed, world, prior, entry, interrupts>>

EndPass ==
  /\ pc = "scan" /\ scan = {}
  /\ IF running = {}
     THEN /\ outcome' = IF pending # {} /\ ~failed THEN "stalled" ELSE Verdict
          /\ pc' = "out" /\ UNCHANGED exited
     ELSE /\ exited' = {m \in running : Exited(m)}
          /\ pc' = IF exited' = {} THEN "loop" ELSE "reap"
          /\ UNCHANGED outcome
  /\ UNCHANGED <<book, scan, hand, proc, termed, world, prior, entry, interrupts>>

Pop(m) ==
  /\ pc = "reap" /\ m \in exited
  /\ exited' = exited \ {m} /\ running' = running \ {m} /\ hand' = m /\ pc' = "popped"
  /\ UNCHANGED <<pending, done, failed, recorded, scan, outcome, proc, termed, world, prior,
                 entry, interrupts>>

(* Mutant: exit 0 is taken for readiness.                                  *)
JudgeByExit ==
  /\ pc = "popped"
  /\ recorded' = recorded \cup {hand}
  /\ IF proc[hand] = "exit0"
     THEN done' = done \cup {hand} /\ UNCHANGED failed
     ELSE failed' = TRUE /\ UNCHANGED done
  /\ hand' = Nobody /\ pc' = "reap"
  /\ UNCHANGED <<pending, running, scan, exited, outcome, proc, termed, world, prior, entry,
                 interrupts>>

Judge ==
  /\ pc = "popped"
  /\ recorded' = recorded \cup {hand}
  /\ IF proc[hand] = "exit0" /\ hand \in ready
     THEN done' = done \cup {hand} /\ UNCHANGED failed
     ELSE failed' = TRUE /\ UNCHANGED done
  /\ hand' = Nobody /\ pc' = "reap"
  /\ UNCHANGED <<pending, running, scan, exited, outcome, proc, termed, world, prior, entry,
                 interrupts>>

Reaped ==
  /\ pc = "reap" /\ exited = {}
  /\ pc' = "loop"
  /\ UNCHANGED <<book, scan, exited, hand, outcome, proc, termed, world, prior, entry, interrupts>>

Return ==
  /\ pc = "loop" /\ pending \cup running = {}
  /\ pc' = "out" /\ outcome' = Verdict
  /\ UNCHANGED <<book, scan, exited, hand, proc, termed, world, prior, entry, interrupts>>

-----------------------------------------------------------------------------
(* The interrupted driver.                                                 *)

(* A second signal lands while the first is handled: nothing catches it.   *)
Interrupt ==
  /\ interrupts < MaxInterrupts /\ pc # "out"
  /\ interrupts' = interrupts + 1
  /\ IF pc \in {"term", "await"}
     THEN pc' = "out" /\ outcome' = "interrupted"
     ELSE pc' = "term" /\ UNCHANGED outcome
  /\ UNCHANGED <<book, scan, exited, hand, proc, termed, world, prior, entry>>

SendTerm ==
  /\ pc = "term"
  /\ termed' = running /\ pc' = "await"
  /\ UNCHANGED <<book, scan, exited, hand, outcome, proc, world, prior, entry, interrupts>>

(* A member that outlives the grace is killed.                             *)
AwaitMember(m) ==
  /\ pc = "await" /\ m \in running \ recorded
  /\ proc' = IF Exited(m) THEN proc ELSE [proc EXCEPT ![m] = "exit1"]
  /\ recorded' = recorded \cup {m}
  /\ UNCHANGED <<pc, pending, running, done, failed, scan, exited, hand, outcome, termed, world,
                 prior, entry, interrupts>>

Propagate ==
  /\ pc = "await" /\ running \subseteq recorded
  /\ pc' = "out" /\ outcome' = "interrupted"
  /\ UNCHANGED <<book, scan, exited, hand, proc, termed, world, prior, entry, interrupts>>

Driver ==
  \/ NewPass \/ Track \/ EndPass \/ Judge \/ Reaped \/ Return \/ SendTerm \/ Propagate
  \/ \E m \in Members : \/ PassOver(m) \/ SkipReady(m) \/ RejectResume(m) \/ Spawn(m)
                        \/ SpawnFails(m) \/ Pop(m) \/ AwaitMember(m)

-----------------------------------------------------------------------------
(* A member's process.                                                     *)

Becomes(m, s) == proc' = [proc EXCEPT ![m] = s]

(* Somebody else has certified the node meanwhile.                         *)
MemberSkips(m) ==
  /\ proc[m] = "starting" /\ m \notin held /\ m \in ready
  /\ Becomes(m, "exit0")
  /\ UNCHANGED <<driver, termed, world, prior, entry, interrupts>>

MemberBegins(m) ==
  /\ proc[m] = "starting" /\ m \notin held /\ m \notin ready
  /\ Becomes(m, "deriving")
  /\ UNCHANGED <<driver, termed, world, prior, entry, interrupts>>

(* What is certified for m now decides the keys of everything above it.    *)
Derived(m) ==
  ready' \in {r \in SUBSET Members : m \in r /\ r \ Above(m) = ready \ Above(m)}

MemberPasses(m) ==
  /\ proc[m] = "deriving" /\ Derived(m) /\ Becomes(m, "exit0")
  /\ UNCHANGED <<driver, termed, held, disturbances, prior, entry, interrupts>>

(* Exit 0 without a derivation: --no-run-conductor.                        *)
MemberOnlyPrepares(m) ==
  /\ proc[m] = "deriving" /\ Becomes(m, "exit0")
  /\ UNCHANGED <<driver, termed, world, prior, entry, interrupts>>

(* A failure, an unresolvable closure, a death, or SIGTERM obeyed.         *)
MemberFails(m) ==
  /\ \/ proc[m] = "deriving"
     \/ proc[m] = "starting" /\ (m \notin held \/ m \in termed)
  /\ Becomes(m, "exit1")
  /\ UNCHANGED <<driver, termed, world, prior, entry, interrupts>>

Member(m) ==
  MemberSkips(m) \/ MemberBegins(m) \/ MemberPasses(m) \/ MemberOnlyPrepares(m) \/ MemberFails(m)

-----------------------------------------------------------------------------
(* The others.                                                             *)

(* Another driver certifies m or gives up, and lets its claim go.          *)
ForeignEnds(m) ==
  /\ m \in held \ entry
  /\ held' = held \ {m}
  /\ \/ UNCHANGED <<ready, disturbances>>
     \/ /\ m \notin done /\ m \notin ready /\ Derived(m)
        /\ UNCHANGED disturbances
  /\ UNCHANGED <<driver, proc, termed, prior, entry, interrupts>>

(* An output is revoked, or an input edited: others stop being selected.   *)
Disturb ==
  /\ disturbances < MaxDisturbances /\ disturbances' = disturbances + 1
  /\ ready' \in (SUBSET ready) \ {ready}
  /\ UNCHANGED <<driver, proc, termed, held, prior, entry, interrupts>>

AllOver == pc = "out" /\ Alive = {} /\ UNCHANGED vars

Next ==
  \/ Driver \/ Interrupt \/ Disturb \/ AllOver
  \/ \E m \in Members : Member(m) \/ ForeignEnds(m)

Spec == Init /\ [][Next]_vars

(* The driver is one process that runs; a member's run ends (its conductor *)
(* ends, and every leaf has a timeout), and so does another driver's.      *)
Fairness ==
  /\ WF_vars(Driver)
  /\ \A m \in Members : WF_vars(Member(m)) /\ WF_vars(ForeignEnds(m))

FairSpec == Spec /\ Fairness

-----------------------------------------------------------------------------
(* Every variable keeps its type; the store and the claims name members.   *)
TypeOK ==
  /\ pc \in {"loop", "scan", "spawned", "reap", "popped", "term", "await", "out"}
  /\ pending \subseteq Members /\ running \subseteq Members /\ done \subseteq Members
  /\ scan \subseteq Members /\ exited \subseteq running /\ hand \in Members \cup {Nobody}
  /\ failed \in BOOLEAN /\ recorded \subseteq Members
  /\ outcome \in {"none", "ok", "fail", "stalled", "interrupted", "raised"}
  /\ proc \in [Members -> {"none", "starting", "deriving", "exit0", "exit1"}]
  /\ termed \subseteq Members
  /\ ready \subseteq Members /\ held \subseteq Members
  /\ prior \subseteq Members /\ entry \subseteq prior
  /\ interrupts \in 0 .. MaxInterrupts /\ disturbances \in 0 .. MaxDisturbances

(* Whatever is started or counted as finished stands on dependencies that  *)
(* are all finished (the launch condition of _schedule_closure_members).   *)
StandsOnDone ==
  \A m \in Members : proc[m] # "none" \/ m \in done => Deps[m] \subseteq done

(* No more processes than --jobs are alive at once, those of a driver that *)
(* was interrupted or raised included.                                     *)
JobsBound == Cardinality(Alive) <= Jobs

(* After a first failure, and once interrupted, no member is started.      *)
NothingStartsAfterFailure ==
  [][failed \/ pc \in {"term", "await", "out"} =>
       \A m \in Members : proc[m] = "none" => proc'[m] = "none"]_vars

(* A driver that returns leaves no process behind and has recorded the     *)
(* exit code of every member it started.                                   *)
ReturnedMeansReaped ==
  outcome \in {"ok", "fail"} =>
    \A m \in Members : m \notin Alive /\ (proc[m] # "none" => m \in recorded)

(* The closure never stalls: the return the code calls unreachable is.     *)
NeverStalls == outcome # "stalled"

(* The target is launched only on a closure that is ready as a whole,      *)
(* though members were asked at different times, unless somebody took      *)
(* outputs away.                                                           *)
SuccessMeansReady == outcome = "ok" /\ disturbances = 0 => ready = Members

(* The driver leaves the scheduler, and everybody it started ends.         *)
DriverReturns == <>(pc = "out") /\ <>[](Alive = {})
=============================================================================
