------------------------------ MODULE NodeRuns ------------------------------
(***************************************************************************)
(* The processes that drive nodes (src/tools/run_workflow.py): a single    *)
(* run, cold or resumed, the driver of a closure with --jobs, and the      *)
(* members it starts; the claims they take (_exclusive_claim), and the     *)
(* life of one node's run from its claims to their release (_run_node).    *)
(*                                                                         *)
(* A claim is an advisory lock that dies with its process.  One is on an   *)
(* orchestration, one on a spec for a target.  A resumed run takes the     *)
(* first before it decides anything and the second in _run_node, a cold    *)
(* one the other way round.  Only a member waits, and only for its first.  *)
(*                                                                         *)
(* The runtime's commands are processes of their own: init has written the *)
(* record when it has not yet answered.  A signal may land between any two *)
(* steps, and a process may be killed.                                     *)
(*                                                                         *)
(* The schedule of a closure is the module ClosureScheduler; here its      *)
(* members number no more than --jobs, and their order is left open.       *)
(***************************************************************************)
EXTENDS Naturals, FiniteSets

CONSTANTS Procs, Ids, Specs,
          None,
          Scenarios,     \* what is started and what may go wrong, by name (see Scenario)
          SignalPoints   \* bound: where a signal may land

Roles == {"none", "single", "closure", "member"}
Terminal == {"pass", "fail", "fail_closed", "cancel"}

Jobs == [role : Roles, resume : BOOLEAN, id : Ids, spec : Specs, entry : Ids \cup {None},
         boss : Procs \cup {None}, after : SUBSET Procs]

(* job: what each process runs; entry is the orchestration a closure was   *)
(* resumed by, boss the driver of a member, after the members that member  *)
(* stands on.  The rest bounds signals, kills, failing commands and losses *)
(* of outputs.                                                             *)
Scenario == [job : [Procs -> Jobs], status : [Ids -> Terminal \cup {"none", "running"}],
             ready : SUBSET Specs,
             signals : Nat, kills : Nat, faults : Nat, losses : Nat]

InTry == {"node", "mark", "look", "init", "reply", "prepare", "conduct", "raised"}

(* A driver that walks its members forwards a signal: ClosureScheduler.    *)
(* What it starts are members (--closure-member), no drivers.              *)
ASSUME NodeRunsAssumption ==
  /\ None \notin Procs \cup Ids
  /\ \A s \in DOMAIN Scenarios : Scenarios[s] \in Scenario
  /\ \A s \in DOMAIN Scenarios : \A p \in Procs :
       Scenarios[s].job[p].boss # None => Scenarios[s].job[p].role = "member"
  /\ SignalPoints \subseteq InTry \cup {"claim", "ask", "error", "finally", "release", "leave"}

VARIABLES
  sc,          \* the name of the scenario
  pc, rc,      \* where each process is; how it returned
  how,         \* what ended a run early: a signal, one before the look, an exception
  orch, spec,  \* the holder of each claim
  status,      \* orchestration_meta.json#status
  scratch,     \* the orchestrations whose workspace/tmp/<arid> exists
  ready,       \* the specs the store holds certified outputs of
  attempted, existed, committed, cleanup,  \* the local flags of _run_node
  opened,      \* the processes whose init has written the record
  signals, kills, faults, losses

flags == <<attempted, existed, committed, cleanup>>
counts == <<signals, kills, faults, losses>>
claims == <<orch, spec>>
record == <<status, scratch, opened>>
vars == <<sc, pc, rc, how, claims, record, ready, flags, counts>>

Role(p) == Scenarios[sc].job[p].role
Resumed(p) == Scenarios[sc].job[p].resume
IdOf(p) == Scenarios[sc].job[p].id
SpecOf(p) == Scenarios[sc].job[p].spec
Entry(p) == Scenarios[sc].job[p].entry
MembersOf(d) == {m \in Procs : Scenarios[sc].job[m].boss = d}

FirstStep(job) ==
  CASE job.role = "none" -> "out" [] job.role = "closure" -> "start"
    [] job.boss # None -> "idle" [] OTHER -> "claim"

Init ==
  /\ sc \in DOMAIN Scenarios
  /\ pc = [p \in Procs |-> FirstStep(Scenarios[sc].job[p])]
  /\ rc = [p \in Procs |-> "none"] /\ how = [p \in Procs |-> "none"]
  /\ orch = [i \in Ids |-> None] /\ spec = [s \in Specs |-> None]
  /\ status = Scenarios[sc].status /\ ready = Scenarios[sc].ready
  /\ scratch = {} /\ opened = {}
  /\ attempted = {} /\ existed = {} /\ committed = {} /\ cleanup = {}
  /\ signals = 0 /\ kills = 0 /\ faults = 0 /\ losses = 0

Goes(p, from, to) == pc[p] = from /\ pc' = [pc EXCEPT ![p] = to]
Returns(p, code) == rc' = [rc EXCEPT ![p] = code]

-----------------------------------------------------------------------------
(* The claims.                                                             *)

(* A claim this process took on entry is not taken again.                  *)
FirstIsFree(p) ==
  IF Resumed(p) THEN orch[IdOf(p)] \in {None, p} ELSE spec[SpecOf(p)] = None

TakesFirst(p) ==
  IF Resumed(p) THEN orch' = [orch EXCEPT ![IdOf(p)] = p] /\ UNCHANGED spec
                ELSE spec' = [spec EXCEPT ![SpecOf(p)] = p] /\ UNCHANGED orch

ClaimFirst(p) ==
  /\ Goes(p, "claim", IF Role(p) = "member" THEN "ask" ELSE "node")
  /\ Resumed(p) => status[IdOf(p)] # "none"
  /\ FirstIsFree(p) /\ TakesFirst(p)
  /\ UNCHANGED <<sc, rc, how, record, ready, flags, counts>>

(* concurrent_orchestration_running, where a member waits instead; or      *)
(* there is no such orchestration.                                         *)
RefusedFirst(p) ==
  /\ Goes(p, "claim", "leave")
  /\ \/ ~FirstIsFree(p) /\ Role(p) # "member"
     \/ Resumed(p) /\ status[IdOf(p)] = "none"
  /\ Returns(p, "fail")
  /\ UNCHANGED <<sc, how, claims, record, ready, flags, counts>>

(* closure_member_skipped: somebody has certified the node meanwhile.      *)
MemberSkips(p) ==
  /\ Goes(p, "ask", "leave") /\ SpecOf(p) \in ready
  /\ Returns(p, "ok")
  /\ UNCHANGED <<sc, how, claims, record, ready, flags, counts>>

(* Mutant: the member does not ask again under its claim.                  *)
MemberRunsUnasked(p) ==
  /\ Goes(p, "ask", "node")
  /\ UNCHANGED <<sc, rc, how, claims, record, ready, flags, counts>>

MemberRuns(p) ==
  /\ Goes(p, "ask", "node") /\ SpecOf(p) \notin ready
  /\ UNCHANGED <<sc, rc, how, claims, record, ready, flags, counts>>

SecondIsFree(p) == IF Resumed(p) THEN spec[SpecOf(p)] = None ELSE orch[IdOf(p)] = None

ClaimSecond(p) ==
  /\ Goes(p, "node", "mark") /\ SecondIsFree(p)
  /\ IF Resumed(p) THEN spec' = [spec EXCEPT ![SpecOf(p)] = p] /\ UNCHANGED orch
                   ELSE orch' = [orch EXCEPT ![IdOf(p)] = p] /\ UNCHANGED spec
  /\ UNCHANGED <<sc, rc, how, record, ready, flags, counts>>

RefusedSecond(p) ==
  /\ Goes(p, "node", "finally") /\ ~SecondIsFree(p)
  /\ Returns(p, "fail")
  /\ UNCHANGED <<sc, how, claims, record, ready, flags, counts>>

Without(p, holder) == [k \in DOMAIN holder |-> IF holder[k] = p THEN None ELSE holder[k]]

(* The claim taken in _run_node goes first, the caller's when it unwinds.  *)
Release(p) ==
  /\ Goes(p, "release", "leave")
  /\ IF Resumed(p) THEN spec' = Without(p, spec) /\ UNCHANGED orch
                   ELSE /\ orch' = [orch EXCEPT ![IdOf(p)] = IF @ = p THEN None ELSE @]
                        /\ UNCHANGED spec
  /\ UNCHANGED <<sc, rc, how, record, ready, flags, counts>>

Leave(p) ==
  /\ Goes(p, "leave", "out")
  /\ orch' = Without(p, orch) /\ spec' = Without(p, spec)
  /\ UNCHANGED <<sc, rc, how, record, ready, flags, counts>>

-----------------------------------------------------------------------------
(* One node: from init to the end of the conductor.                        *)

MarkAttempt(p) ==
  /\ Goes(p, "mark", "look")
  /\ attempted' = attempted \cup {p}
  /\ UNCHANGED <<sc, rc, how, claims, record, ready, existed, committed, cleanup, counts>>

LookForRecord(p) ==
  /\ Goes(p, "look", "init")
  /\ existed' = IF status[IdOf(p)] = "none" THEN existed ELSE existed \cup {p}
  /\ UNCHANGED <<sc, rc, how, claims, record, ready, attempted, committed, cleanup, counts>>

(* Cold or resumed, it leaves the record running and its scratch in place. *)
InitWrites(p) ==
  /\ Goes(p, "init", "reply")
  /\ status' = [status EXCEPT ![IdOf(p)] = "running"]
  /\ scratch' = scratch \cup {IdOf(p)} /\ opened' = opened \cup {p}
  /\ UNCHANGED <<sc, rc, how, claims, ready, flags, counts>>

InitReturns(p) ==
  /\ Goes(p, "reply", "prepare")
  /\ committed' = committed \cup {p}
  /\ UNCHANGED <<sc, rc, how, claims, record, ready, attempted, existed, cleanup, counts>>

(* init fails before or after its write; the snapshot, the scratch, the    *)
(* preflight or the start record cannot be written.                        *)
CommandFails(p) ==
  /\ \/ Goes(p, "init", "error") \/ Goes(p, "reply", "error") \/ Goes(p, "prepare", "error")
  /\ faults < Scenarios[sc].faults /\ faults' = faults + 1
  /\ how' = [how EXCEPT ![p] = "exception"]
  /\ UNCHANGED <<sc, rc, claims, record, ready, flags, signals, kills, losses>>

Prepare(p) ==
  /\ Goes(p, "prepare", "conduct")
  /\ scratch' = scratch \cup {IdOf(p)} /\ cleanup' = cleanup \cup {p}
  /\ UNCHANGED <<sc, rc, how, claims, status, opened, ready, attempted, existed, committed, counts>>

(* update_orchestration_status: what is terminal stays, and a run that     *)
(* ends loses its scratch.                                                 *)
Settled(p, s) ==
  IF status[IdOf(p)] = "running"
  THEN status' = [status EXCEPT ![IdOf(p)] = s] /\ scratch' = scratch \ {IdOf(p)}
  ELSE UNCHANGED <<status, scratch>>

(* The preflight says that nothing can be launched.                        *)
PreflightRefuses(p) ==
  /\ Goes(p, "prepare", "finally")
  /\ Settled(p, "fail") /\ Returns(p, "fail")
  /\ cleanup' = cleanup \cup {p}
  /\ UNCHANGED <<sc, how, claims, opened, ready, attempted, existed, committed, counts>>

ConductorPasses(p) ==
  /\ Goes(p, "conduct", "finally") /\ status[IdOf(p)] = "running"
  /\ Settled(p, "pass") /\ Returns(p, "ok")
  /\ ready' = ready \cup {SpecOf(p)}
  /\ UNCHANGED <<sc, how, claims, opened, flags, counts>>

ConductorStops(p) ==
  /\ Goes(p, "conduct", "finally") /\ status[IdOf(p)] = "running"
  /\ \E s \in {"fail", "fail_closed"} : Settled(p, s)
  /\ Returns(p, "fail")
  /\ UNCHANGED <<sc, how, claims, opened, ready, flags, counts>>

(* Whatever the conductor has recorded when it raises: nothing, a status   *)
(* of a gate of the runtime, or its own.                                   *)
ConductorRaises(p) ==
  /\ Goes(p, "conduct", "raised")
  /\ \/ UNCHANGED <<status, scratch>>
     \/ \E s \in {"fail_closed", "pass"} : Settled(p, s)
  /\ UNCHANGED <<sc, rc, how, claims, opened, ready, flags, counts>>

(* conductor_error, unless a more specific status is recorded.             *)
RecordConductorError(p) ==
  /\ Goes(p, "raised", "finally") /\ status[IdOf(p)] # "pass"
  /\ Settled(p, "fail") /\ Returns(p, "fail")
  /\ UNCHANGED <<sc, how, claims, opened, ready, flags, counts>>

(* set-status fails, or rejects a fail after a pass.                       *)
RecordingFails(p) ==
  /\ Goes(p, "raised", "error")
  /\ \/ status[IdOf(p)] = "pass" /\ UNCHANGED faults
     \/ /\ status[IdOf(p)] = "running" /\ faults < Scenarios[sc].faults /\ faults' = faults + 1
  /\ how' = [how EXCEPT ![p] = "exception"]
  /\ UNCHANGED <<sc, rc, claims, record, ready, flags, signals, kills, losses>>

-----------------------------------------------------------------------------
(* The ends that nobody chose.                                             *)

(* Mutant: the answer of init is all the evidence there is.                *)
OwnsCommitted(p) == p \in committed

(* Mutant: a record that was there before is taken for one's own.          *)
OwnsWhatIsThere(p) == p \in committed \/ (p \in attempted /\ status[IdOf(p)] # "none")

Owns(p) ==
  \/ p \in committed
  \/ /\ p \in attempted /\ (Resumed(p) \/ p \notin existed)
     /\ status[IdOf(p)] # "none"

Terminalizes(p) ==
  IF Owns(p) THEN Settled(p, IF how[p] = "exception" THEN "fail" ELSE "cancel")
  ELSE UNCHANGED <<status, scratch>>

HandleError(p) ==
  /\ Goes(p, "error", "finally")
  /\ Terminalizes(p) /\ Returns(p, "fail")
  /\ UNCHANGED <<sc, how, claims, opened, ready, flags, counts>>

(* The handler's own set-status fails: swallowed.                          *)
HandlerFails(p) ==
  /\ Goes(p, "error", "finally") /\ Owns(p) /\ status[IdOf(p)] = "running"
  /\ faults < Scenarios[sc].faults /\ faults' = faults + 1
  /\ Returns(p, "fail")
  /\ UNCHANGED <<sc, how, claims, record, ready, flags, signals, kills, losses>>

(* Mutant: the claims go before the scratch does.                          *)
CleanUpLate(p) ==
  /\ pc[p] \in {"finally", "leave"}
  /\ IF pc[p] = "finally"
     THEN /\ pc' = [pc EXCEPT ![p] = "leave"]
          /\ orch' = Without(p, orch) /\ spec' = Without(p, spec) /\ UNCHANGED <<scratch, cleanup>>
     ELSE /\ p \in cleanup /\ scratch' = scratch \ {IdOf(p)} /\ cleanup' = cleanup \ {p}
          /\ UNCHANGED <<pc, claims>>
  /\ UNCHANGED <<sc, rc, how, status, opened, ready, attempted, existed, committed, counts>>

CleanUp(p) ==
  /\ Goes(p, "finally", "release")
  /\ scratch' = IF p \in cleanup THEN scratch \ {IdOf(p)} ELSE scratch
  /\ UNCHANGED <<sc, rc, how, claims, status, opened, ready, flags, counts>>

(* A signal: the interrupt clause, what is left of the finally clause, or  *)
(* the end of the process.                                                 *)
AfterSignal(p) ==
  CASE pc[p] \in InTry -> "error" [] pc[p] = "error" -> "finally" [] OTHER -> "leave"

Signal(p) ==
  /\ pc[p] \in SignalPoints /\ signals < Scenarios[sc].signals /\ signals' = signals + 1
  /\ pc' = [pc EXCEPT ![p] = AfterSignal(p)]
  /\ how' = [how EXCEPT ![p] = IF pc[p] = "look" THEN "blind" ELSE "interrupt"]
  /\ Returns(p, "fail")
  /\ UNCHANGED <<sc, claims, record, ready, flags, kills, faults, losses>>

Kill(p) ==
  /\ pc[p] \notin {"idle", "skipped", "out"} /\ kills < Scenarios[sc].kills /\ kills' = kills + 1
  /\ pc' = [pc EXCEPT ![p] = "out"] /\ Returns(p, "fail")
  /\ orch' = Without(p, orch) /\ spec' = Without(p, spec)
  /\ UNCHANGED <<sc, how, record, ready, flags, signals, faults, losses>>

-----------------------------------------------------------------------------
(* The driver of a closure.                                                *)

(* A resume claims the orchestration it was given before anything else.    *)
Enter(d) ==
  /\ Role(d) = "closure"
  /\ \/ /\ Goes(d, "start", "walk")
        /\ IF Entry(d) = None THEN UNCHANGED orch
           ELSE orch[Entry(d)] = None /\ orch' = [orch EXCEPT ![Entry(d)] = d]
        /\ UNCHANGED rc
     \/ /\ Goes(d, "start", "leave")
        /\ Entry(d) # None /\ orch[Entry(d)] # None
        /\ Returns(d, "fail") /\ UNCHANGED orch
  /\ UNCHANGED <<sc, how, spec, record, ready, flags, counts>>

Finished(m) == pc[m] = "skipped" \/ (pc[m] = "out" /\ rc[m] = "ok")
Failed(d) == \E m \in MembersOf(d) : pc[m] = "out" /\ rc[m] = "fail"
Running(d) == {m \in MembersOf(d) : pc[m] \notin {"idle", "skipped", "out"}}

Considers(d, m) ==
  /\ pc[d] = "walk" /\ ~Failed(d)
  /\ m \in MembersOf(d) /\ pc[m] = "idle" /\ \A n \in Scenarios[sc].job[m].after : Finished(n)

DriverSkips(d, m) ==
  /\ Considers(d, m) /\ SpecOf(m) \in ready
  /\ pc' = [pc EXCEPT ![m] = "skipped"]
  /\ UNCHANGED <<sc, rc, how, claims, record, ready, flags, counts>>

(* Mutant: the claim taken on entry is kept.                               *)
DriverLaunchesKeeping(d, m) ==
  /\ Considers(d, m) /\ SpecOf(m) \notin ready
  /\ pc' = [pc EXCEPT ![m] = "claim"]
  /\ UNCHANGED <<sc, rc, how, claims, record, ready, flags, counts>>

(* The claim taken on entry is let go before the member that needs it runs. *)
DriverLaunches(d, m) ==
  /\ Considers(d, m) /\ SpecOf(m) \notin ready
  /\ pc' = [pc EXCEPT ![m] = "claim"]
  /\ orch' = IF Resumed(m) /\ IdOf(m) = Entry(d) THEN Without(d, orch) ELSE orch
  /\ UNCHANGED <<sc, rc, how, spec, record, ready, flags, counts>>

(* Once a member has failed the others are only waited for; once all are   *)
(* ready the driver runs the target itself.                                *)
DriverEndsWalk(d) ==
  /\ pc[d] = "walk" /\ Running(d) = {}
  /\ \/ Failed(d) /\ Goes(d, "walk", "leave") /\ Returns(d, "fail")
     \/ /\ \A m \in MembersOf(d) : Finished(m)
        /\ Goes(d, "walk", "claim") /\ UNCHANGED rc
  /\ UNCHANGED <<sc, how, claims, record, ready, flags, counts>>

-----------------------------------------------------------------------------
(* An output is revoked, or an input edited.                               *)
Lose(s) ==
  /\ s \in ready /\ losses < Scenarios[sc].losses /\ losses' = losses + 1
  /\ ready' = ready \ {s}
  /\ UNCHANGED <<sc, pc, rc, how, claims, record, flags, signals, kills, faults>>

Step(p) ==
  \/ ClaimFirst(p) \/ RefusedFirst(p) \/ MemberSkips(p) \/ MemberRuns(p)
  \/ ClaimSecond(p) \/ RefusedSecond(p)
  \/ MarkAttempt(p) \/ LookForRecord(p) \/ InitWrites(p) \/ InitReturns(p) \/ Prepare(p)
  \/ CommandFails(p) \/ PreflightRefuses(p)
  \/ ConductorPasses(p) \/ ConductorStops(p) \/ ConductorRaises(p)
  \/ RecordConductorError(p) \/ RecordingFails(p) \/ HandleError(p) \/ HandlerFails(p)
  \/ CleanUp(p) \/ Release(p) \/ Leave(p)
  \/ Enter(p) \/ DriverEndsWalk(p)
  \/ \E m \in Procs : DriverSkips(p, m) \/ DriverLaunches(p, m)

(* A member whose driver is gone is never started.                         *)
IsOver(p) == pc[p] \in {"out", "skipped"} \/ (pc[p] = "idle" /\ pc[Scenarios[sc].job[p].boss] # "walk")

AllOver == (\A p \in Procs : IsOver(p)) /\ UNCHANGED vars

Next ==
  \/ \E p \in Procs : Step(p) \/ Signal(p) \/ Kill(p)
  \/ \E s \in Specs : Lose(s)
  \/ AllOver

Spec == Init /\ [][Next]_vars

-----------------------------------------------------------------------------
PCs == InTry \cup {"start", "idle", "skipped", "walk", "claim", "ask", "error", "finally",
                   "release", "leave", "out"}

Ends == {"none", "interrupt", "blind", "exception"}

(* Every variable keeps its type.                                          *)
TypeOK ==
  /\ sc \in DOMAIN Scenarios
  /\ pc \in [Procs -> PCs]
  /\ rc \in [Procs -> {"none", "ok", "fail"}] /\ how \in [Procs -> Ends]
  /\ orch \in [Ids -> Procs \cup {None}] /\ spec \in [Specs -> Procs \cup {None}]
  /\ status \in [Ids -> Terminal \cup {"none", "running"}]
  /\ scratch \subseteq Ids /\ ready \subseteq Specs
  /\ attempted \subseteq Procs /\ existed \subseteq Procs /\ committed \subseteq Procs
  /\ cleanup \subseteq Procs /\ opened \subseteq Procs
  /\ signals \in Nat /\ kills \in Nat /\ faults \in Nat /\ losses \in Nat

AtWork(p) == pc[p] \in InTry \ {"node"}

(* Two runs that are under way share neither their orchestration nor the   *)
(* pipelines of a spec for a target, in any mix of cold and resumed runs   *)
(* (the two claims of _run_node).                                          *)
OneAtWork ==
  \A p, q \in Procs : p # q /\ AtWork(p) /\ AtWork(q) => IdOf(p) # IdOf(q) /\ SpecOf(p) # SpecOf(q)

(* The scratch of a run that is under way is there: no other driver of the *)
(* orchestration, whose scratch has the same name, is still deleting it    *)
(* (the release that comes last in _run_node).                             *)
ScratchIsKept ==
  \A p \in Procs :
    pc[p] \in {"conduct", "raised"} /\ status[IdOf(p)] = "running" => IdOf(p) \in scratch

(* A record gets its end from the holder of its claim, and only if that    *)
(* one opened it or resumes it: an invocation that merely named an id that *)
(* was in use leaves it alone (_owns_orchestration).  One does not: a      *)
(* signal between the mark of its attempt and its look for an earlier      *)
(* record finds the flag as it was initialised, and the handler takes the  *)
(* record for its own.                                                     *)
ForeignRecordStands ==
  [][\A i \in Ids : status[i] = "running" /\ status'[i] \in Terminal =>
       \E p \in Procs : /\ IdOf(p) = i /\ orch[i] = p
                        /\ p \in opened \/ Resumed(p) \/ how[p] = "blind"]_vars

(* A run that opened its record does not leave it saying running when one  *)
(* thing goes wrong, wherever it does: a signal or a failing command.  The *)
(* exception is an init cut short over a record that was there before.     *)
EndIsRecorded ==
  \A p \in opened :
    pc[p] = "release" /\ signals + faults <= 1 /\ (Resumed(p) \/ p \notin existed \/ p \in committed) =>
      status[IdOf(p)] # "running"

(* Two drivers that derive one spec derive it once: a cold member that     *)
(* runs has found, under its claim, that nobody had certified it.          *)
DerivedOnce ==
  \A p \in Procs : Role(p) = "member" /\ ~Resumed(p) /\ pc[p] \in InTry => SpecOf(p) \notin ready

Waits(p) == pc[p] = "claim" /\ Role(p) = "member" /\ ~FirstIsFree(p)
Holder(p) == IF Resumed(p) THEN orch[IdOf(p)] ELSE spec[SpecOf(p)]
Awaits(d) == pc[d] = "walk" /\ Running(d) # {} /\ \A m \in Procs : ~Considers(d, m)

WaitForEachOther(S) ==
  /\ S # {}
  /\ \A p \in S : \/ Waits(p) /\ Holder(p) \in S
                  \/ Awaits(p) /\ Running(p) \subseteq S

(* No set of processes waits for itself: a member for the holder of its    *)
(* claim, a driver for its members ("the member ... waits for that driver  *)
(* to finish and then asks its readiness again", _exclusive_claim).        *)
NoCircularWait ==
  \A S \in SUBSET {p \in Procs : Waits(p) \/ Awaits(p)} : ~WaitForEachOther(S)

(* The circles that do close are of one kind: each member in it resumes    *)
(* what the driver of another closure claimed on entry and holds yet, the  *)
(* member of its own that resumes it not being launched.  No run waits in  *)
(* a circle for a spec, for a member, or for its own driver                *)
(* (release_preclaim in _schedule_closure_members).                        *)
CirclesAreOfKeptEntries ==
  \A S \in SUBSET {p \in Procs : Waits(p) \/ Awaits(p)} :
    WaitForEachOther(S) =>
      \A m \in S : Waits(m) =>
        LET d == Holder(m) IN
          /\ Resumed(m) /\ Awaits(d) /\ Entry(d) = IdOf(m) /\ m \notin MembersOf(d)
          /\ \A n \in MembersOf(d) :
               Resumed(n) /\ IdOf(n) = Entry(d) => pc[n] \in {"idle", "skipped"}
=============================================================================
