---------------------------- MODULE NodeRuns_proofs ----------------------------
(* Proofs about the processes that drive nodes, for any processes, ids,    *)
(* specs and scenarios.                                                    *)
EXTENDS NodeRuns, TLAPS

-----------------------------------------------------------------------------
(* What a step of a process is, and the types.                             *)

LEMMA JobTypes ==
  ASSUME sc \in DOMAIN Scenarios, NEW p \in Procs
  PROVE  /\ IdOf(p) \in Ids /\ SpecOf(p) \in Specs /\ Resumed(p) \in BOOLEAN
         /\ p # None
<1>1. Scenarios[sc].job[p] \in Jobs
  BY NodeRunsAssumption DEF Scenario
<1> QED BY <1>1, NodeRunsAssumption DEF Jobs, IdOf, SpecOf, Resumed

(* The jobs never change.                                                  *)
LEMMA SameJobs ==
  ASSUME sc' = sc, NEW p \in Procs
  PROVE  /\ IdOf(p)' = IdOf(p) /\ SpecOf(p)' = SpecOf(p)
         /\ Resumed(p)' = Resumed(p) /\ Role(p)' = Role(p)
BY DEF IdOf, SpecOf, Resumed, Role

LEMMA StepKeepsScenario ==
  ASSUME [Next]_vars
  PROVE  sc' = sc
<1>1. ASSUME NEW p \in Procs, Step(p) \/ Signal(p) \/ Kill(p) PROVE sc' = sc
  BY <1>1 DEF Step, ClaimFirst, RefusedFirst, MemberSkips, MemberRuns, ClaimSecond, RefusedSecond,
     MarkAttempt, LookForRecord, InitWrites, InitReturns, CommandFails, Prepare, PreflightRefuses,
     ConductorPasses, ConductorStops, ConductorRaises, RecordConductorError, RecordingFails,
     HandleError, HandlerFails, CleanUp, Release, Leave, Enter, DriverEndsWalk, DriverSkips,
     DriverLaunches, Signal, Kill
<1>2. ASSUME NEW s \in Specs, Lose(s) PROVE sc' = sc
  BY <1>2 DEF Lose
<1> QED BY <1>1, <1>2 DEF Next, AllOver, vars

LEMMA InitTypeOK == Init => TypeOK
<1> SUFFICES ASSUME Init PROVE TypeOK
  OBVIOUS
<1>1. sc \in DOMAIN Scenarios /\ Scenarios[sc] \in Scenario
  BY NodeRunsAssumption DEF Init
<1>2. \A p \in Procs : FirstStep(Scenarios[sc].job[p]) \in PCs
  BY DEF FirstStep, PCs
<1>3. pc \in [Procs -> PCs]
  BY <1>2 DEF Init
<1>4. status \in [Ids -> Terminal \cup {"none", "running"}] /\ ready \subseteq Specs
  BY <1>1 DEF Init, Scenario
<1> QED BY <1>1, <1>3, <1>4 DEF Ends, Init, TypeOK

(* Whatever a step does to a record, it is still one.                      *)
LEMMA SettledType ==
  ASSUME TypeOK, NEW p \in Procs, NEW s \in Terminal, Settled(p, s)
  PROVE  status' \in [Ids -> Terminal \cup {"none", "running"}] /\ scratch' \subseteq Ids
<1>1. IdOf(p) \in Ids
  BY JobTypes DEF TypeOK
<1> QED BY <1>1 DEF Settled, TypeOK

LEMMA WithoutType ==
  ASSUME TypeOK, NEW p
  PROVE  /\ Without(p, orch) \in [Ids -> Procs \cup {None}]
         /\ Without(p, spec) \in [Specs -> Procs \cup {None}]
BY DEF TypeOK, Without

LEMMA NextTypeOK == TypeOK /\ [Next]_vars => TypeOK'
<1> SUFFICES ASSUME TypeOK, [Next]_vars PROVE TypeOK'
  OBVIOUS
<1>0. sc' = sc /\ sc' \in DOMAIN Scenarios
  BY StepKeepsScenario DEF TypeOK
<1> DEFINE Moved(p) == \E to \in PCs : pc' = [pc EXCEPT ![p] = to]
<1>1. ASSUME NEW p \in Procs, Step(p) \/ Signal(p) \/ Kill(p) PROVE TypeOK'
  <2>0. /\ IdOf(p) \in Ids /\ SpecOf(p) \in Specs
        /\ Without(p, orch) \in [Ids -> Procs \cup {None}]
        /\ Without(p, spec) \in [Specs -> Procs \cup {None}]
    BY JobTypes, WithoutType DEF TypeOK
  <2>1. CASE ClaimFirst(p) \/ ClaimSecond(p)
    BY <1>0, <2>0, <2>1 DEF TypeOK, PCs, InTry, ClaimFirst, ClaimSecond, TakesFirst, Goes, record, flags, counts
  <2>2. CASE RefusedFirst(p) \/ MemberSkips(p) \/ MemberRuns(p) \/ RefusedSecond(p)
    BY <1>0, <2>2 DEF TypeOK, PCs, InTry, RefusedFirst, MemberSkips, MemberRuns, RefusedSecond, Goes, Returns, claims, record, flags, counts
  <2>3. CASE MarkAttempt(p) \/ LookForRecord(p) \/ InitReturns(p)
    BY <1>0, <2>3 DEF TypeOK, PCs, InTry, MarkAttempt, LookForRecord, InitReturns, Goes, claims, record, counts
  <2>4. CASE InitWrites(p) \/ Prepare(p)
    BY <1>0, <2>0, <2>4 DEF TypeOK, PCs, InTry, InitWrites, Prepare, Goes, claims, flags, counts
  <2>5. CASE CommandFails(p) \/ RecordingFails(p) \/ HandlerFails(p)
    BY <1>0, <2>5 DEF TypeOK, PCs, Ends, InTry, CommandFails, RecordingFails, HandlerFails, Goes, Returns, claims, record, flags
  <2>6. CASE PreflightRefuses(p) \/ ConductorPasses(p) \/ ConductorStops(p) \/ RecordConductorError(p)
    <3>1. status' \in [Ids -> Terminal \cup {"none", "running"}] /\ scratch' \subseteq Ids
      BY <2>6, SettledType DEF PreflightRefuses, ConductorPasses, ConductorStops, RecordConductorError, Terminal
    <3> QED BY <1>0, <2>0, <2>6, <3>1 DEF TypeOK, PCs, PreflightRefuses, ConductorPasses, ConductorStops, RecordConductorError, Goes, Returns, claims, flags, counts
  <2>7. CASE ConductorRaises(p) \/ HandleError(p)
    <3>1. status' \in [Ids -> Terminal \cup {"none", "running"}] /\ scratch' \subseteq Ids
      <4>1. CASE UNCHANGED <<status, scratch>>
        BY <4>1 DEF TypeOK
      <4>2. CASE \E s \in Terminal : Settled(p, s)
        BY <4>2, SettledType
      <4> QED BY <2>7, <4>1, <4>2 DEF ConductorRaises, HandleError, Terminalizes, Terminal
    <3> QED BY <1>0, <2>7, <3>1 DEF TypeOK, PCs, InTry, ConductorRaises, HandleError, Goes, Returns, claims, flags, counts
  <2>8. CASE CleanUp(p) \/ Release(p) \/ Leave(p)
    BY <1>0, <2>0, <2>8 DEF TypeOK, PCs, CleanUp, Release, Leave, Goes, claims, record, flags, counts
  <2>9. CASE Enter(p)
    <3>1. orch' \in [Ids -> Procs \cup {None}]
      BY <2>9 DEF Enter, TypeOK
    <3> QED BY <1>0, <2>9, <3>1 DEF TypeOK, PCs, Enter, Goes, Returns, record, flags, counts
  <2>10. CASE DriverEndsWalk(p)
    BY <1>0, <2>10 DEF TypeOK, PCs, DriverEndsWalk, Goes, Returns, claims, record, flags, counts
  <2>11. CASE \E m \in Procs : DriverSkips(p, m) \/ DriverLaunches(p, m)
    BY <1>0, <2>0, <2>11 DEF TypeOK, PCs, DriverSkips, DriverLaunches, claims, record, flags, counts
  <2>12. CASE Signal(p)
    BY <1>0, <2>12 DEF TypeOK, PCs, Ends, AfterSignal, Signal, Returns, claims, record, flags
  <2>13. CASE Kill(p)
    BY <1>0, <2>0, <2>13 DEF TypeOK, PCs, Kill, Returns, record, flags
  <2> QED BY <1>1, <2>1, <2>2, <2>3, <2>4, <2>5, <2>6, <2>7, <2>8, <2>9, <2>10, <2>11, <2>12, <2>13 DEF Step
<1>2. ASSUME NEW s \in Specs, Lose(s) PROVE TypeOK'
  BY <1>0, <1>2 DEF TypeOK, Lose, claims, record, flags
<1>3. CASE UNCHANGED vars
  BY <1>3 DEF TypeOK, vars, claims, record, flags, counts
<1> QED BY <1>1, <1>2, <1>3 DEF Next, AllOver

(* Every variable keeps its type, for any processes and scenarios.         *)
THEOREM TypeSafe == Spec => []TypeOK
<1>1. Init => TypeOK
  BY InitTypeOK
<1>2. TypeOK /\ [Next]_vars => TypeOK'
  BY NextTypeOK
<1> QED BY <1>1, <1>2, PTL DEF Spec

-----------------------------------------------------------------------------
(* The flags of _run_node follow its steps.                                *)

Attempting == {"look", "init", "reply", "prepare", "conduct", "raised"}
Ending == {"error", "finally", "release"}

FlagsInv ==
  /\ committed \subseteq opened
  /\ existed \cup cleanup \cup opened \subseteq attempted
  /\ \A p \in attempted : pc[p] \in Attempting \cup Ending \cup {"leave", "out"}
  /\ \A p \in Procs : pc[p] \in Attempting => p \in attempted
  /\ \A p \in Procs : pc[p] \in Attempting \ {"look", "init"} => p \in opened

(* A step of a process leaves the place and the flags of the others alone, *)
(* but for a driver that starts or skips a member.                         *)
LEMMA OthersStand ==
  ASSUME TypeOK, NEW p \in Procs, Step(p) \/ Signal(p) \/ Kill(p), NEW q \in Procs, q # p
  PROVE  /\ (pc'[q] = pc[q] \/ (pc[q] = "idle" /\ pc'[q] \in {"skipped", "claim"}))
         /\ (q \in attempted' <=> q \in attempted)
         /\ (q \in existed' <=> q \in existed)
         /\ (q \in committed' <=> q \in committed)
         /\ (q \in cleanup' <=> q \in cleanup)
         /\ (q \in opened' <=> q \in opened)
         /\ how'[q] = how[q]
<1>1. CASE \E m \in Procs : DriverSkips(p, m) \/ DriverLaunches(p, m)
  BY <1>1 DEF TypeOK, DriverSkips, DriverLaunches, Considers, claims, record, flags
<1>2. CASE MarkAttempt(p) \/ LookForRecord(p) \/ InitWrites(p) \/ InitReturns(p) \/ Prepare(p) \/ PreflightRefuses(p)
  BY <1>2 DEF TypeOK, MarkAttempt, LookForRecord, InitWrites, InitReturns, Prepare, PreflightRefuses, Goes, record, flags
<1>3. CASE ClaimFirst(p) \/ RefusedFirst(p) \/ MemberSkips(p) \/ MemberRuns(p) \/ ClaimSecond(p)
           \/ RefusedSecond(p) \/ CommandFails(p) \/ ConductorPasses(p) \/ ConductorStops(p)
           \/ ConductorRaises(p) \/ RecordConductorError(p) \/ RecordingFails(p) \/ HandleError(p)
           \/ HandlerFails(p) \/ CleanUp(p) \/ Release(p) \/ Leave(p) \/ Enter(p) \/ DriverEndsWalk(p)
  BY <1>3 DEF TypeOK, ClaimFirst, RefusedFirst, MemberSkips, MemberRuns, ClaimSecond, RefusedSecond,
     CommandFails, ConductorPasses, ConductorStops, ConductorRaises, RecordConductorError,
     RecordingFails, HandleError, HandlerFails, CleanUp, Release, Leave, Enter, DriverEndsWalk,
     Goes, record, flags
<1>4. CASE Signal(p) \/ Kill(p)
  BY <1>4 DEF TypeOK, Signal, Kill, record, flags
<1> QED BY <1>1, <1>2, <1>3, <1>4 DEF Step

LEMMA OwnFlags ==
  ASSUME TypeOK, FlagsInv, NEW p \in Procs, Step(p) \/ Signal(p) \/ Kill(p)
  PROVE  /\ p \in committed' => p \in opened'
         /\ p \in existed' \cup cleanup' \cup opened' => p \in attempted'
         /\ p \in attempted' => pc'[p] \in Attempting \cup Ending \cup {"leave", "out"}
         /\ pc'[p] \in Attempting => p \in attempted'
         /\ pc'[p] \in Attempting \ {"look", "init"} => p \in opened'
<1> USE DEF FlagsInv, Attempting, Ending
<1>1. CASE \E m \in Procs : DriverSkips(p, m) \/ DriverLaunches(p, m)
  BY <1>1 DEF TypeOK, DriverSkips, DriverLaunches, Considers, claims, record, flags
<1>2. CASE MarkAttempt(p) \/ LookForRecord(p) \/ InitWrites(p) \/ InitReturns(p) \/ Prepare(p) \/ PreflightRefuses(p)
  BY <1>2 DEF TypeOK, MarkAttempt, LookForRecord, InitWrites, InitReturns, Prepare, PreflightRefuses, Goes, record, flags
<1>3. CASE ClaimFirst(p) \/ RefusedFirst(p) \/ MemberSkips(p) \/ MemberRuns(p) \/ ClaimSecond(p)
           \/ RefusedSecond(p) \/ Enter(p) \/ DriverEndsWalk(p)
  BY <1>3 DEF TypeOK, ClaimFirst, RefusedFirst, MemberSkips, MemberRuns, ClaimSecond, RefusedSecond,
     Enter, DriverEndsWalk, Goes, record, flags
<1>4. CASE CommandFails(p) \/ ConductorPasses(p) \/ ConductorStops(p)
           \/ ConductorRaises(p) \/ RecordConductorError(p) \/ RecordingFails(p) \/ HandleError(p)
           \/ HandlerFails(p) \/ CleanUp(p) \/ Release(p) \/ Leave(p)
  BY <1>4 DEF TypeOK, CommandFails, ConductorPasses, ConductorStops, ConductorRaises, RecordConductorError,
     RecordingFails, HandleError, HandlerFails, CleanUp, Release, Leave, Goes, record, flags
<1>5. CASE Signal(p) \/ Kill(p)
  BY <1>5 DEF TypeOK, Signal, AfterSignal, InTry, Kill, record, flags
<1> QED BY <1>1, <1>2, <1>3, <1>4, <1>5 DEF Step

LEMMA NextFlagsInv == TypeOK /\ FlagsInv /\ [Next]_vars => FlagsInv'
<1> SUFFICES ASSUME TypeOK, FlagsInv, [Next]_vars PROVE FlagsInv'
  OBVIOUS
<1>1. ASSUME NEW p \in Procs, Step(p) \/ Signal(p) \/ Kill(p) PROVE FlagsInv'
  <2>0. TypeOK'
    BY NextTypeOK
  <2>1. \A q \in Procs :
          /\ q \in committed' => q \in opened'
          /\ q \in existed' \cup cleanup' \cup opened' => q \in attempted'
          /\ q \in attempted' => pc'[q] \in Attempting \cup Ending \cup {"leave", "out"}
          /\ pc'[q] \in Attempting => q \in attempted'
          /\ pc'[q] \in Attempting \ {"look", "init"} => q \in opened'
    <3> TAKE q \in Procs
    <3>1. CASE q = p
      BY <1>1, <3>1, OwnFlags
    <3>2. CASE q # p
      <4>1. /\ (pc'[q] = pc[q] \/ (pc[q] = "idle" /\ pc'[q] \in {"skipped", "claim"}))
            /\ (q \in attempted' <=> q \in attempted)
            /\ (q \in existed' <=> q \in existed)
            /\ (q \in committed' <=> q \in committed)
            /\ (q \in cleanup' <=> q \in cleanup)
            /\ (q \in opened' <=> q \in opened)
        BY <1>1, <3>2, OthersStand
      <4> QED BY <4>1 DEF FlagsInv, Attempting, Ending
    <3> QED BY <3>1, <3>2
  <2> QED BY <2>0, <2>1 DEF FlagsInv, TypeOK
<1>2. CASE UNCHANGED <<pc, attempted, existed, committed, cleanup, opened>>
  BY <1>2 DEF FlagsInv
<1> QED BY <1>1, <1>2 DEF Next, Lose, AllOver, vars, flags, record

-----------------------------------------------------------------------------
(* The claims.                                                             *)

HoldsFirst(p) == IF Resumed(p) THEN orch[IdOf(p)] = p ELSE spec[SpecOf(p)] = p
HoldsSecond(p) == IF Resumed(p) THEN spec[SpecOf(p)] = p ELSE orch[IdOf(p)] = p

(* From its first claim to its last step a process holds that claim, and   *)
(* once it has asked for a record the other one too.                       *)
ClaimsInv ==
  /\ \A p \in Procs : pc[p] \in InTry \cup Ending \cup {"ask"} => HoldsFirst(p)
  /\ \A p \in Procs : AtWork(p) \/ (p \in attempted /\ pc[p] \in Ending) => HoldsSecond(p)

(* Nobody takes or releases a claim that somebody else holds.              *)
LEMMA ClaimsOfOthers ==
  ASSUME TypeOK, NEW p \in Procs, Step(p) \/ Signal(p) \/ Kill(p)
  PROVE  /\ \A i \in Ids : orch[i] \notin {None, p} => orch'[i] = orch[i]
         /\ \A s \in Specs : spec[s] \notin {None, p} => spec'[s] = spec[s]
<1>0. IdOf(p) \in Ids /\ SpecOf(p) \in Specs
  BY JobTypes DEF TypeOK
<1>1. CASE ClaimFirst(p) \/ ClaimSecond(p)
  BY <1>0, <1>1 DEF TypeOK, ClaimFirst, FirstIsFree, TakesFirst, ClaimSecond, SecondIsFree
<1>2. CASE Release(p) \/ Leave(p) \/ Kill(p)
  BY <1>0, <1>2 DEF TypeOK, Release, Leave, Kill, Without
<1>3. CASE Enter(p)
  BY <1>3 DEF TypeOK, Enter
<1>4. CASE \E m \in Procs : DriverSkips(p, m) \/ DriverLaunches(p, m)
  BY <1>4 DEF TypeOK, DriverSkips, DriverLaunches, Without, claims
<1>5. CASE UNCHANGED claims
  BY <1>5 DEF claims
<1> QED BY <1>1, <1>2, <1>3, <1>4, <1>5 DEF Step, RefusedFirst, MemberSkips, MemberRuns, RefusedSecond,
     MarkAttempt, LookForRecord, InitWrites, InitReturns, CommandFails, Prepare, PreflightRefuses,
     ConductorPasses, ConductorStops, ConductorRaises, RecordConductorError, RecordingFails,
     HandleError, HandlerFails, CleanUp, DriverEndsWalk, Signal

LEMMA OwnClaims ==
  ASSUME TypeOK, FlagsInv, ClaimsInv, NEW p \in Procs, Step(p) \/ Signal(p) \/ Kill(p)
  PROVE  /\ pc'[p] \in InTry \cup Ending \cup {"ask"} => HoldsFirst(p)'
         /\ AtWork(p)' \/ (p \in attempted' /\ pc'[p] \in Ending) => HoldsSecond(p)'
<1>0. /\ IdOf(p) \in Ids /\ SpecOf(p) \in Specs /\ Resumed(p) \in BOOLEAN
      /\ IdOf(p)' = IdOf(p) /\ SpecOf(p)' = SpecOf(p) /\ Resumed(p)' = Resumed(p)
  BY JobTypes, SameJobs, StepKeepsScenario DEF TypeOK, Next
<1> USE DEF HoldsFirst, HoldsSecond, AtWork, InTry, Ending
<1>1. CASE ClaimFirst(p)
  BY <1>0, <1>1 DEF TypeOK, FlagsInv, Attempting, ClaimFirst, TakesFirst, Goes, flags
<1>2. CASE ClaimSecond(p)
  BY <1>0, <1>2 DEF TypeOK, ClaimsInv, ClaimSecond, Goes, flags
<1>3. CASE CleanUp(p) \/ MemberRuns(p) \/ RefusedSecond(p)
  BY <1>0, <1>3 DEF TypeOK, ClaimsInv, FlagsInv, Attempting, CleanUp, MemberRuns, RefusedSecond, Goes, claims, flags
<1>4. CASE MarkAttempt(p) \/ LookForRecord(p) \/ InitWrites(p) \/ InitReturns(p) \/ Prepare(p)
           \/ CommandFails(p) \/ PreflightRefuses(p)
  BY <1>0, <1>4 DEF TypeOK, ClaimsInv, MarkAttempt, LookForRecord, InitWrites, InitReturns, Prepare,
     CommandFails, PreflightRefuses, Goes, claims, flags
<1>5. CASE ConductorPasses(p) \/ ConductorStops(p) \/ ConductorRaises(p) \/ RecordConductorError(p)
           \/ RecordingFails(p) \/ HandleError(p) \/ HandlerFails(p)
  BY <1>0, <1>5 DEF TypeOK, ClaimsInv, ConductorPasses, ConductorStops, ConductorRaises,
     RecordConductorError, RecordingFails, HandleError, HandlerFails, Goes, claims, flags
<1>6. CASE RefusedFirst(p) \/ MemberSkips(p) \/ Release(p) \/ Leave(p) \/ Enter(p) \/ DriverEndsWalk(p)
  BY <1>6 DEF TypeOK, RefusedFirst, MemberSkips, Release, Leave, Enter, DriverEndsWalk, Goes
<1>7. CASE \E m \in Procs : DriverSkips(p, m) \/ DriverLaunches(p, m)
  BY <1>7 DEF TypeOK, DriverSkips, DriverLaunches, Considers
<1>8. CASE Signal(p)
  BY <1>0, <1>8 DEF TypeOK, FlagsInv, Attempting, ClaimsInv, Signal, AfterSignal, claims, flags
<1>9. CASE Kill(p)
  BY <1>9 DEF TypeOK, Kill
<1> QED BY <1>1, <1>2, <1>3, <1>4, <1>5, <1>6, <1>7, <1>8, <1>9 DEF Step

LEMMA NextClaimsInv == TypeOK /\ FlagsInv /\ ClaimsInv /\ [Next]_vars => ClaimsInv'
<1> SUFFICES ASSUME TypeOK, FlagsInv, ClaimsInv, [Next]_vars PROVE ClaimsInv'
  OBVIOUS
<1>0. sc' = sc
  BY StepKeepsScenario
<1>1. ASSUME NEW p \in Procs, Step(p) \/ Signal(p) \/ Kill(p), NEW q \in Procs
      PROVE  /\ pc'[q] \in InTry \cup Ending \cup {"ask"} => HoldsFirst(q)'
             /\ AtWork(q)' \/ (q \in attempted' /\ pc'[q] \in Ending) => HoldsSecond(q)'
  <2>1. CASE q = p
    BY <1>1, <2>1, OwnClaims
  <2>2. CASE q # p
    <3>1. /\ IdOf(q) \in Ids /\ SpecOf(q) \in Specs /\ Resumed(q) \in BOOLEAN /\ q # None
          /\ IdOf(q)' = IdOf(q) /\ SpecOf(q)' = SpecOf(q) /\ Resumed(q)' = Resumed(q)
      BY <1>0, JobTypes, SameJobs DEF TypeOK
    <3>2. /\ (pc'[q] = pc[q] \/ (pc[q] = "idle" /\ pc'[q] \in {"skipped", "claim"}))
          /\ (q \in attempted' <=> q \in attempted)
      BY <1>1, <2>2, OthersStand
    <3>3. /\ orch[IdOf(q)] = q => orch'[IdOf(q)] = q
          /\ spec[SpecOf(q)] = q => spec'[SpecOf(q)] = q
      BY <1>1, <2>2, <3>1, ClaimsOfOthers
    <3>4. pc'[q] \in InTry \cup Ending \cup {"ask"} => pc'[q] = pc[q]
      BY <3>2 DEF InTry, Ending
    <3> QED BY <3>1, <3>2, <3>3, <3>4 DEF ClaimsInv, HoldsFirst, HoldsSecond, AtWork
  <2> QED BY <2>1, <2>2
<1>2. CASE UNCHANGED <<pc, orch, spec, attempted>>
  <2>1. ASSUME NEW q \in Procs
        PROVE  /\ HoldsFirst(q)' <=> HoldsFirst(q)
               /\ HoldsSecond(q)' <=> HoldsSecond(q)
               /\ AtWork(q)' <=> AtWork(q)
    BY <1>0, <1>2 DEF HoldsFirst, HoldsSecond, AtWork, IdOf, SpecOf, Resumed
  <2> QED BY <1>2, <2>1 DEF ClaimsInv
<1> QED BY <1>1, <1>2 DEF ClaimsInv, Next, Lose, AllOver, vars, claims, flags

(* A run under way holds both its claims, and so does one that ends after  *)
(* it has asked for its record.                                            *)
Both(p) == orch[IdOf(p)] = p /\ spec[SpecOf(p)] = p

LEMMA HoldsBoth ==
  ASSUME ClaimsInv, NEW p \in Procs, AtWork(p) \/ (p \in attempted /\ pc[p] \in Ending)
  PROVE  Both(p)
<1>1. HoldsFirst(p) /\ HoldsSecond(p)
  BY DEF ClaimsInv, AtWork, Ending
<1> QED BY <1>1 DEF Both, HoldsFirst, HoldsSecond

LEMMA ClaimsExclude ==
  ASSUME NEW p \in Procs, NEW q \in Procs, p # q, Both(p), Both(q)
  PROVE  IdOf(p) # IdOf(q) /\ SpecOf(p) # SpecOf(q)
BY DEF Both

BaseInv == TypeOK /\ FlagsInv /\ ClaimsInv

LEMMA InitBaseInv == Init => BaseInv
<1> SUFFICES ASSUME Init PROVE BaseInv
  OBVIOUS
<1>1. \A p \in Procs : pc[p] \in {"out", "start", "idle", "claim"}
  BY DEF Init, FirstStep
<1>2. FlagsInv
  BY <1>1 DEF Init, FlagsInv, Attempting
<1>3. ClaimsInv
  BY <1>1 DEF Init, ClaimsInv, AtWork, InTry, Ending
<1> QED BY <1>2, <1>3, InitTypeOK DEF BaseInv

LEMMA NextBaseInv == BaseInv /\ [Next]_vars => BaseInv'
BY NextTypeOK, NextFlagsInv, NextClaimsInv DEF BaseInv

LEMMA BaseIsInvariant == Spec => []BaseInv
BY InitBaseInv, NextBaseInv, PTL DEF Spec

(* Two runs that are under way share neither their orchestration nor the   *)
(* pipelines of a spec for a target.                                       *)
THEOREM OneAtWorkHolds == Spec => []OneAtWork
<1>1. BaseInv => OneAtWork
  BY HoldsBoth, ClaimsExclude DEF BaseInv, OneAtWork
<1> QED BY <1>1, BaseIsInvariant, PTL

-----------------------------------------------------------------------------
(* The records: only the holder of both claims of a run writes its record, *)
(* removes its scratch or certifies its spec.                              *)

LEMMA OwnersOnly ==
  ASSUME BaseInv, NEW p \in Procs, Step(p) \/ Signal(p) \/ Kill(p)
  PROVE  \/ UNCHANGED <<status, scratch, ready>>
         \/ /\ Both(p)
            /\ \A i \in Ids : i # IdOf(p) => status'[i] = status[i] /\ (i \in scratch => i \in scratch')
            /\ \A s \in Specs : s # SpecOf(p) => (s \in ready' => s \in ready)
<1>0. IdOf(p) \in Ids /\ SpecOf(p) \in Specs /\ TypeOK
  BY JobTypes DEF BaseInv, TypeOK
<1>1. CASE InitWrites(p) \/ Prepare(p) \/ PreflightRefuses(p) \/ ConductorPasses(p) \/ ConductorStops(p)
           \/ ConductorRaises(p) \/ RecordConductorError(p)
  <2>1. Both(p)
    BY <1>1, HoldsBoth DEF BaseInv, AtWork, InTry, InitWrites, Prepare, PreflightRefuses,
       ConductorPasses, ConductorStops, ConductorRaises, RecordConductorError, Goes
  <2> QED BY <1>0, <1>1, <2>1 DEF TypeOK, InitWrites, Prepare, PreflightRefuses, ConductorPasses,
       ConductorStops, ConductorRaises, RecordConductorError, Settled
<1>2. CASE HandleError(p)
  <2>1. CASE Owns(p)
    <3>1. p \in attempted
      BY <2>1 DEF Owns, BaseInv, FlagsInv
    <3>2. Both(p)
      BY <1>2, <3>1, HoldsBoth DEF BaseInv, Ending, HandleError, Goes
    <3> QED BY <1>0, <1>2, <2>1, <3>2 DEF TypeOK, HandleError, Terminalizes, Settled
  <2>2. CASE ~Owns(p)
    BY <1>2, <2>2 DEF HandleError, Terminalizes
  <2> QED BY <2>1, <2>2
<1>3. CASE CleanUp(p)
  <2>1. CASE p \in cleanup
    <3>1. p \in attempted
      BY <2>1 DEF BaseInv, FlagsInv
    <3>2. Both(p)
      BY <1>3, <3>1, HoldsBoth DEF BaseInv, Ending, CleanUp, Goes
    <3> QED BY <1>0, <1>3, <3>2 DEF TypeOK, CleanUp
  <2>2. CASE p \notin cleanup
    BY <1>3, <2>2 DEF CleanUp
  <2> QED BY <2>1, <2>2
<1>4. CASE \E m \in Procs : DriverSkips(p, m) \/ DriverLaunches(p, m)
  BY <1>4 DEF DriverSkips, DriverLaunches, record
<1>5. CASE ClaimFirst(p) \/ RefusedFirst(p) \/ MemberSkips(p) \/ MemberRuns(p) \/ ClaimSecond(p)
           \/ RefusedSecond(p) \/ MarkAttempt(p) \/ LookForRecord(p) \/ InitReturns(p) \/ CommandFails(p)
           \/ RecordingFails(p) \/ HandlerFails(p) \/ Release(p) \/ Leave(p) \/ Enter(p)
           \/ DriverEndsWalk(p) \/ Signal(p) \/ Kill(p)
  BY <1>5 DEF ClaimFirst, RefusedFirst, MemberSkips, MemberRuns, ClaimSecond, RefusedSecond, MarkAttempt,
     LookForRecord, InitReturns, CommandFails, RecordingFails, HandlerFails, Release, Leave, Enter,
     DriverEndsWalk, Signal, Kill, record
<1> QED BY <1>1, <1>2, <1>3, <1>4, <1>5 DEF Step

(* So a run that holds both keeps its own, whatever another process does.  *)
LEMMA HoldersKeep ==
  ASSUME BaseInv, NEW p \in Procs, Step(p) \/ Signal(p) \/ Kill(p), NEW q \in Procs, q # p, Both(q)
  PROVE  /\ status'[IdOf(q)] = status[IdOf(q)]
         /\ IdOf(q) \in scratch => IdOf(q) \in scratch'
         /\ SpecOf(q) \in ready' => SpecOf(q) \in ready
<1>0. IdOf(q) \in Ids /\ SpecOf(q) \in Specs
  BY JobTypes DEF BaseInv, TypeOK
<1>1. CASE UNCHANGED <<status, scratch, ready>>
  BY <1>1
<1>2. CASE /\ Both(p)
           /\ \A i \in Ids : i # IdOf(p) => status'[i] = status[i] /\ (i \in scratch => i \in scratch')
           /\ \A s \in Specs : s # SpecOf(p) => (s \in ready' => s \in ready)
  <2>1. IdOf(q) # IdOf(p) /\ SpecOf(q) # SpecOf(p)
    BY <1>2, ClaimsExclude
  <2> QED BY <1>0, <1>2, <2>1
<1> QED BY <1>1, <1>2, OwnersOnly

(* Its scratch is there while its conductor runs.                          *)
LEMMA NextScratchIsKept == BaseInv /\ ScratchIsKept /\ [Next]_vars => ScratchIsKept'
<1> SUFFICES ASSUME BaseInv, ScratchIsKept, [Next]_vars PROVE ScratchIsKept'
  OBVIOUS
<1>0. sc' = sc /\ TypeOK
  BY StepKeepsScenario DEF BaseInv
<1>1. ASSUME NEW p \in Procs, Step(p) \/ Signal(p) \/ Kill(p), NEW q \in Procs,
             pc'[q] \in {"conduct", "raised"}, status'[IdOf(q)] = "running"
      PROVE  IdOf(q) \in scratch'
  <2>1. CASE q = p
    <3>1. \/ Prepare(p)
          \/ pc[p] \in {"conduct", "raised"} /\ UNCHANGED <<status, scratch>>
          \/ \E s \in {"fail_closed", "pass"} : Settled(p, s)
      <4>1. CASE Prepare(p) \/ ConductorRaises(p)
        BY <4>1 DEF ConductorRaises, Goes
      <4>2. CASE \E m \in Procs : DriverSkips(p, m) \/ DriverLaunches(p, m)
        BY <1>0, <1>1, <2>1, <4>2 DEF TypeOK, DriverSkips, DriverLaunches, Considers
      <4>3. CASE Signal(p) \/ Kill(p)
        BY <1>0, <1>1, <2>1, <4>3 DEF TypeOK, Signal, AfterSignal, Kill
      <4>4. CASE RefusedFirst(p) \/ MemberSkips(p) \/ MemberRuns(p) \/ ClaimSecond(p)
           \/ RefusedSecond(p) \/ MarkAttempt(p) \/ LookForRecord(p) \/ InitWrites(p) \/ InitReturns(p)
           \/ CommandFails(p) \/ PreflightRefuses(p) \/ ConductorPasses(p) \/ ConductorStops(p)
           \/ RecordConductorError(p) \/ RecordingFails(p) \/ HandleError(p) \/ HandlerFails(p)
           \/ CleanUp(p) \/ Release(p) \/ Leave(p) \/ Enter(p) \/ DriverEndsWalk(p)
        BY <1>0, <1>1, <2>1, <4>4 DEF TypeOK, RefusedFirst, MemberSkips, MemberRuns, ClaimSecond,
           RefusedSecond, MarkAttempt, LookForRecord, InitWrites, InitReturns, CommandFails,
           PreflightRefuses, ConductorPasses, ConductorStops, RecordConductorError, RecordingFails,
           HandleError, HandlerFails, CleanUp, Release, Leave, Enter, DriverEndsWalk, Goes
      <4>5. CASE ClaimFirst(p)
        BY <1>0, <1>1, <2>1, <4>5 DEF TypeOK, ClaimFirst, Goes
      <4> QED BY <1>1, <4>1, <4>2, <4>3, <4>4, <4>5 DEF Step
    <3>2. IdOf(p) \in Ids /\ IdOf(p)' = IdOf(p)
      BY <1>0, JobTypes, SameJobs DEF TypeOK
    <3>3. CASE Prepare(p)
      BY <2>1, <3>3 DEF Prepare
    <3>4. CASE pc[p] \in {"conduct", "raised"} /\ UNCHANGED <<status, scratch>>
      BY <1>1, <2>1, <3>4 DEF ScratchIsKept
    <3>5. CASE \E s \in {"fail_closed", "pass"} : Settled(p, s)
      BY <1>0, <1>1, <2>1, <3>1, <3>2, <3>5 DEF Settled, TypeOK
    <3> QED BY <3>1, <3>3, <3>4, <3>5
  <2>2. CASE q # p
    <3>1. pc[q] = pc'[q]
      BY <1>0, <1>1, <2>2, OthersStand
    <3>2. Both(q)
      BY <1>1, <3>1, HoldsBoth DEF BaseInv, AtWork, InTry
    <3>3. status[IdOf(q)] = "running" /\ (IdOf(q) \in scratch => IdOf(q) \in scratch')
      BY <1>1, <2>2, <3>2, HoldersKeep
    <3> QED BY <1>1, <3>1, <3>3 DEF ScratchIsKept
  <2> QED BY <2>1, <2>2
<1>2. CASE UNCHANGED <<pc, status, scratch>>
  BY <1>0, <1>2 DEF ScratchIsKept, IdOf
<1>3. \A q \in Procs : IdOf(q)' = IdOf(q)
  BY <1>0, SameJobs
<1> QED BY <1>1, <1>2, <1>3 DEF Next, Lose, AllOver, vars, record, ScratchIsKept

(* The scratch of a run that is under way is there.                        *)
THEOREM ScratchKept == Spec => []ScratchIsKept
<1>1. Init => ScratchIsKept
  BY DEF Init, FirstStep, ScratchIsKept
<1> QED BY <1>1, NextScratchIsKept, BaseIsInvariant, PTL DEF Spec

-----------------------------------------------------------------------------
(* Whose record an invocation may end.                                     *)

(* An invocation that looked and found no record, and has not written one, *)
(* still finds none when init has failed.                                  *)
NoRecordOf(p) == p \notin existed \cup opened /\ ~Resumed(p)

HasLooked(p) == pc[p] = "init" \/ (pc[p] = "error" /\ how[p] # "blind")

LookInv == \A p \in attempted : HasLooked(p) /\ NoRecordOf(p) => status[IdOf(p)] = "none"

LEMMA NextLookInv ==
  ASSUME BaseInv, LookInv, [Next]_vars
  PROVE  LookInv'
<1>0. sc' = sc /\ TypeOK
  BY StepKeepsScenario DEF BaseInv
<1>1. ASSUME NEW p \in Procs, Step(p) \/ Signal(p) \/ Kill(p), NEW q \in Procs, q \in attempted',
             HasLooked(q)', NoRecordOf(q)'
      PROVE  (status[IdOf(q)] = "none")'
  <2>0. IdOf(q)' = IdOf(q) /\ Resumed(q)' = Resumed(q) /\ IdOf(q) \in Ids
    BY <1>0, SameJobs, JobTypes DEF TypeOK
  <2>1. CASE q = p
    <3>1. CASE LookForRecord(p)
      BY <1>0, <1>1, <2>0, <2>1, <3>1 DEF TypeOK, LookForRecord, HasLooked, NoRecordOf, record, Goes
    <3>2. CASE CommandFails(p) \/ RecordingFails(p)
      <4>1. pc[p] \in {"init", "reply", "prepare", "raised"} /\ UNCHANGED <<status, opened, existed, attempted>>
        BY <3>2 DEF CommandFails, RecordingFails, Goes, record, flags
      <4>2. pc[p] = "init" \/ p \in opened
        BY <4>1 DEF BaseInv, FlagsInv, Attempting
      <4> QED BY <1>1, <2>0, <2>1, <4>1, <4>2 DEF LookInv, HasLooked, NoRecordOf
    <3>3. CASE Signal(p)
      <4>1. /\ pc[p] \in InTry \ {"look"} /\ UNCHANGED <<status, opened, existed, attempted>>
        BY <1>0, <1>1, <2>1, <3>3 DEF TypeOK, HasLooked, Signal, AfterSignal, record, flags
      <4>2. pc[p] = "init" \/ p \in opened
        BY <1>1, <2>1, <4>1 DEF BaseInv, FlagsInv, Attempting, Ending, InTry
      <4> QED BY <1>1, <2>0, <2>1, <4>1, <4>2 DEF LookInv, HasLooked, NoRecordOf
    <3>4. CASE \E m \in Procs : DriverSkips(p, m) \/ DriverLaunches(p, m)
      BY <1>0, <1>1, <2>1, <3>4 DEF TypeOK, HasLooked, DriverSkips, DriverLaunches, Considers
    <3>5. CASE ClaimFirst(p) \/ RefusedFirst(p) \/ MemberSkips(p) \/ MemberRuns(p) \/ ClaimSecond(p)
           \/ RefusedSecond(p) \/ MarkAttempt(p) \/ InitWrites(p) \/ InitReturns(p) \/ Prepare(p)
           \/ PreflightRefuses(p) \/ ConductorPasses(p) \/ ConductorStops(p) \/ ConductorRaises(p)
           \/ RecordConductorError(p) \/ HandleError(p) \/ HandlerFails(p)
           \/ CleanUp(p) \/ Release(p) \/ Leave(p) \/ Enter(p) \/ DriverEndsWalk(p) \/ Kill(p)
      BY <1>0, <1>1, <2>1, <3>5 DEF TypeOK, HasLooked, ClaimFirst, RefusedFirst, MemberSkips, MemberRuns, ClaimSecond,
           RefusedSecond, MarkAttempt, InitWrites, InitReturns, Prepare, PreflightRefuses, ConductorPasses,
           ConductorStops, ConductorRaises, RecordConductorError, HandleError, HandlerFails, CleanUp,
           Release, Leave, Enter, DriverEndsWalk, Kill, Goes
    <3> QED BY <1>1, <3>1, <3>2, <3>3, <3>4, <3>5 DEF Step
  <2>2. CASE q # p
    <3>1. pc[q] \in {"init", "error"} /\ HasLooked(q) /\ q \in attempted /\ NoRecordOf(q)
      BY <1>0, <1>1, <2>0, <2>2, OthersStand DEF HasLooked, NoRecordOf
    <3>2. Both(q)
      BY <1>1, <3>1, HoldsBoth DEF BaseInv, AtWork, InTry, Ending
    <3>3. status'[IdOf(q)] = status[IdOf(q)]
      BY <1>1, <2>2, <3>2, HoldersKeep
    <3> QED BY <1>1, <2>0, <3>1, <3>3 DEF LookInv
  <2> QED BY <2>1, <2>2
<1>2. CASE UNCHANGED <<pc, how, status, attempted, existed, opened>>
  BY <1>0, <1>2 DEF LookInv, HasLooked, NoRecordOf, IdOf, Resumed
<1>3. \A q \in attempted' : q \in Procs
  BY NextTypeOK, <1>0 DEF TypeOK
<1> QED BY <1>1, <1>2, <1>3 DEF Next, Lose, AllOver, vars, record, flags, LookInv

LEMMA StepEndsOwn ==
  ASSUME BaseInv, LookInv, [Next]_vars, NEW i \in Ids, status[i] = "running", status'[i] \in Terminal
  PROVE  \E p \in Procs : IdOf(p) = i /\ orch[i] = p /\ (p \in opened \/ Resumed(p) \/ how[p] = "blind")
<1>0. TypeOK /\ i \in Ids /\ status'[i] # "running"
  BY DEF BaseInv, Terminal
<1>1. ASSUME NEW p \in Procs, Step(p) \/ Signal(p) \/ Kill(p)
      PROVE  IdOf(p) = i /\ orch[i] = p /\ (p \in opened \/ Resumed(p) \/ how[p] = "blind")
  <2>1. /\ Both(p)
        /\ \A j \in Ids : j # IdOf(p) => status'[j] = status[j]
    BY <1>0, <1>1, OwnersOnly
  <2>2. IdOf(p) = i /\ orch[i] = p
    BY <1>0, <2>1 DEF Both
  <2>3. p \in opened \/ Resumed(p) \/ how[p] = "blind"
    <3>1. CASE PreflightRefuses(p) \/ ConductorPasses(p) \/ ConductorStops(p) \/ ConductorRaises(p)
               \/ RecordConductorError(p)
      BY <3>1 DEF BaseInv, FlagsInv, Attempting, PreflightRefuses, ConductorPasses, ConductorStops,
         ConductorRaises, RecordConductorError, Goes
    <3>2. CASE HandleError(p)
      <4>1. Owns(p) /\ pc[p] = "error"
        BY <1>0, <2>2, <3>2 DEF HandleError, Terminalizes, Goes
      <4>2. CASE p \in committed
        BY <4>2 DEF BaseInv, FlagsInv
      <4>3. CASE p \in attempted /\ p \notin existed /\ ~Resumed(p)
        BY <2>2, <4>1, <4>3 DEF LookInv, HasLooked, NoRecordOf
      <4> QED BY <4>1, <4>2, <4>3 DEF Owns
    <3>3. CASE InitWrites(p)
      BY <1>0, <2>2, <3>3 DEF InitWrites, TypeOK
    <3>4. CASE \E m \in Procs : DriverSkips(p, m) \/ DriverLaunches(p, m)
      BY <1>0, <3>4 DEF DriverSkips, DriverLaunches, record
    <3>5. CASE UNCHANGED status
      BY <1>0, <3>5
    <3> QED BY <1>1, <3>1, <3>2, <3>3, <3>4, <3>5 DEF Step, ClaimFirst, RefusedFirst, MemberSkips,
         MemberRuns, ClaimSecond, RefusedSecond, MarkAttempt, LookForRecord, InitReturns, Prepare,
         CommandFails, RecordingFails, HandlerFails, CleanUp, Release, Leave, Enter, DriverEndsWalk,
         Signal, Kill, record
  <2> QED BY <2>2, <2>3
<1>2. CASE UNCHANGED status
  BY <1>0, <1>2
<1> QED BY <1>1, <1>2 DEF Next, Lose, AllOver, vars, record

(* A record gets its end from the holder of its claim, and only if that    *)
(* one opened it, resumes it, or was interrupted between the mark of its   *)
(* attempt and its look at what was there.                                 *)
THEOREM ForeignRecordsStand == Spec => ForeignRecordStands
<1>1. Init => LookInv
  BY DEF Init, LookInv
<1>2. BaseInv /\ LookInv /\ [Next]_vars => LookInv'
  BY NextLookInv
<1>3. BaseInv /\ LookInv /\ [Next]_vars =>
        [\A i \in Ids : status[i] = "running" /\ status'[i] \in Terminal =>
           \E p \in Procs : /\ IdOf(p) = i /\ orch[i] = p
                            /\ p \in opened \/ Resumed(p) \/ how[p] = "blind"]_vars
  BY StepEndsOwn
<1> QED BY <1>1, <1>2, <1>3, BaseIsInvariant, PTL DEF Spec, ForeignRecordStands

-----------------------------------------------------------------------------
(* What an end leaves behind.                                              *)

Answers(p) == Resumed(p) \/ p \notin existed \/ p \in committed

(* One fault is the way to the handlers, a second one stops them.          *)
EndInv ==
  \A p \in opened : status[IdOf(p)] = "running" =>
    /\ pc[p] = "error" => signals + faults >= 1
    /\ pc[p] \in {"finally", "release"} /\ Answers(p) => signals + faults >= 2

LEMMA Sums ==
  ASSUME NEW a \in Nat, NEW b \in Nat, NEW c \in Nat, NEW d \in Nat, c >= a, d >= b
  PROVE  \A n \in Nat : a + b >= n => c + d >= n
OBVIOUS

LEMMA FaultsGrow ==
  ASSUME TypeOK, [Next]_vars
  PROVE  signals' \in Nat /\ faults' \in Nat /\ signals' >= signals /\ faults' >= faults
<1>0. signals \in Nat /\ faults \in Nat
  BY DEF TypeOK
<1>1. signals' \in {signals, signals + 1} /\ faults' \in {faults, faults + 1}
  <2>1. ASSUME NEW p \in Procs, Step(p)
        PROVE  signals' \in {signals, signals + 1} /\ faults' \in {faults, faults + 1}
    BY <2>1 DEF Step, ClaimFirst, RefusedFirst, MemberSkips, MemberRuns, ClaimSecond, RefusedSecond,
       MarkAttempt, LookForRecord, InitWrites, InitReturns, CommandFails, Prepare, PreflightRefuses,
       ConductorPasses, ConductorStops, ConductorRaises, RecordConductorError, RecordingFails,
       HandleError, HandlerFails, CleanUp, Release, Leave, Enter, DriverEndsWalk, DriverSkips,
       DriverLaunches, counts
  <2>2. ASSUME NEW p \in Procs, Signal(p) \/ Kill(p)
        PROVE  signals' \in {signals, signals + 1} /\ faults' \in {faults, faults + 1}
    BY <2>2 DEF Signal, Kill
  <2>3. ASSUME NEW s \in Specs, Lose(s)
        PROVE  signals' \in {signals, signals + 1} /\ faults' \in {faults, faults + 1}
    BY <2>3 DEF Lose
  <2> QED BY <2>1, <2>2, <2>3 DEF Next, AllOver, vars, counts
<1> QED BY <1>0, <1>1

LEMMA OwnEnd ==
  ASSUME BaseInv, EndInv, NEW p \in Procs, Step(p) \/ Signal(p) \/ Kill(p),
         p \in opened', status'[IdOf(p)] = "running"
  PROVE  /\ pc'[p] = "error" => signals' + faults' >= 1
         /\ pc'[p] \in {"finally", "release"} /\ Answers(p)' => signals' + faults' >= 2
<1>0. /\ TypeOK /\ sc' = sc /\ IdOf(p) \in Ids /\ Resumed(p)' = Resumed(p)
      /\ signals \in Nat /\ faults \in Nat
  BY StepKeepsScenario, JobTypes, SameJobs DEF BaseInv, TypeOK, Next
<1>1. CASE CommandFails(p)
  BY <1>0, <1>1 DEF TypeOK, CommandFails, Goes
<1>2. CASE RecordingFails(p)
  <2>1. pc'[p] = "error"
    BY <1>0, <1>2 DEF TypeOK, RecordingFails, Goes
  <2>2. faults' = faults + 1 /\ signals' = signals
    BY <1>0, <1>2 DEF RecordingFails, record
  <2> QED BY <1>0, <2>1, <2>2
<1>3. CASE Signal(p)
  <2>1. faults' = faults /\ signals' = signals + 1 /\ UNCHANGED <<opened, status, flags>>
    BY <1>3 DEF Signal, record
  <2>2. pc'[p] = AfterSignal(p)
    BY <1>0, <1>3 DEF TypeOK, Signal
  <2>3. CASE pc[p] \in InTry
    <3>1. pc'[p] = "error"
      BY <2>2, <2>3 DEF AfterSignal, InTry
    <3>2. signals' + faults' >= 1
      BY <1>0, <2>1
    <3> QED BY <3>1, <3>2
  <2>4. CASE pc[p] = "error"
    <3>1. signals + faults >= 1
      BY <2>1, <2>4 DEF EndInv
    <3> QED BY <1>0, <2>1, <2>2, <2>4, <3>1 DEF AfterSignal, InTry
  <2>5. CASE pc[p] \notin InTry \cup {"error"}
    BY <2>2, <2>5 DEF AfterSignal
  <2> QED BY <2>3, <2>4, <2>5
<1>4. CASE HandleError(p)
  <2>1. pc'[p] = "finally" /\ pc[p] = "error" /\ UNCHANGED <<opened, flags, signals, faults>>
    BY <1>0, <1>4 DEF TypeOK, HandleError, Goes, counts
  <2>2. CASE Owns(p)
    BY <1>0, <1>4, <2>2 DEF TypeOK, HandleError, Terminalizes, Settled
  <2>3. CASE ~Owns(p)
    <3>1. UNCHANGED status
      BY <1>4, <2>3 DEF HandleError, Terminalizes
    <3>2. p \in attempted
      BY <2>1 DEF BaseInv, FlagsInv
    <3>3. ~Answers(p)
      BY <2>3, <3>1, <3>2 DEF Owns, Answers
    <3>4. ~Answers(p)'
      BY <1>0, <2>1, <3>3 DEF Answers, flags
    <3> QED BY <2>1, <3>4
  <2> QED BY <2>2, <2>3
<1>5. CASE HandlerFails(p)
  <2>1. pc[p] = "error" /\ UNCHANGED <<opened, status, signals>> /\ faults' = faults + 1
    BY <1>5 DEF HandlerFails, Goes, record
  <2>2. signals + faults >= 1
    BY <2>1 DEF EndInv
  <2> QED BY <1>0, <2>1, <2>2
<1>6. CASE CleanUp(p)
  <2>1. pc[p] = "finally" /\ pc'[p] = "release" /\ UNCHANGED <<opened, status, flags, signals, faults>>
    BY <1>0, <1>6 DEF TypeOK, CleanUp, Goes, counts
  <2>2. Answers(p)' => Answers(p)
    BY <1>0, <2>1 DEF Answers, flags
  <2> QED BY <2>1, <2>2 DEF EndInv
<1>7. CASE RefusedSecond(p)
  BY <1>7 DEF BaseInv, FlagsInv, Attempting, Ending, RefusedSecond, Goes, record
<1>8. CASE PreflightRefuses(p) \/ ConductorPasses(p) \/ ConductorStops(p) \/ RecordConductorError(p)
  BY <1>0, <1>8 DEF TypeOK, PreflightRefuses, ConductorPasses, ConductorStops, RecordConductorError, Settled
<1>9. CASE \E m \in Procs : DriverSkips(p, m) \/ DriverLaunches(p, m)
  BY <1>0, <1>9 DEF TypeOK, DriverSkips, DriverLaunches, Considers
<1>10. CASE ClaimFirst(p) \/ RefusedFirst(p) \/ MemberSkips(p) \/ MemberRuns(p) \/ ClaimSecond(p)
            \/ MarkAttempt(p) \/ LookForRecord(p) \/ InitWrites(p) \/ InitReturns(p) \/ Prepare(p)
            \/ ConductorRaises(p) \/ Release(p) \/ Leave(p) \/ Enter(p) \/ DriverEndsWalk(p) \/ Kill(p)
  BY <1>0, <1>10 DEF TypeOK, ClaimFirst, RefusedFirst, MemberSkips, MemberRuns, ClaimSecond, MarkAttempt,
     LookForRecord, InitWrites, InitReturns, Prepare, ConductorRaises, Release, Leave, Enter,
     DriverEndsWalk, Kill, Goes
<1> QED BY <1>1, <1>2, <1>3, <1>4, <1>5, <1>6, <1>7, <1>8, <1>9, <1>10 DEF Step

LEMMA NextEndInv == BaseInv /\ EndInv /\ [Next]_vars => EndInv'
<1> SUFFICES ASSUME BaseInv, EndInv, [Next]_vars PROVE EndInv'
  OBVIOUS
<1>0. sc' = sc /\ TypeOK
  BY StepKeepsScenario DEF BaseInv
<1>1. \A q \in Procs : IdOf(q)' = IdOf(q) /\ Resumed(q)' = Resumed(q)
  BY <1>0, SameJobs
<1>2. ASSUME NEW p \in Procs, Step(p) \/ Signal(p) \/ Kill(p), NEW q \in Procs, q \in opened',
             status'[IdOf(q)] = "running"
      PROVE  /\ pc'[q] = "error" => signals' + faults' >= 1
             /\ pc'[q] \in {"finally", "release"} /\ Answers(q)' => signals' + faults' >= 2
  <2>1. CASE q = p
    BY <1>2, <2>1, OwnEnd
  <2>2. CASE q # p /\ pc'[q] \in Ending
    <3>1. /\ pc[q] = pc'[q] /\ q \in opened /\ q \in attempted
          /\ (q \in existed' <=> q \in existed) /\ (q \in committed' <=> q \in committed)
      BY <1>0, <1>2, <2>2, OthersStand DEF Ending, BaseInv, FlagsInv
    <3>2. Both(q)
      BY <2>2, <3>1, HoldsBoth DEF BaseInv
    <3>3. status[IdOf(q)] = "running"
      BY <1>2, <2>2, <3>2, HoldersKeep
    <3>4. Answers(q)' => Answers(q)
      BY <1>1, <3>1 DEF Answers
    <3>5. /\ signals \in Nat /\ faults \in Nat /\ signals' \in Nat /\ faults' \in Nat
          /\ signals' >= signals /\ faults' >= faults
      BY <1>0, FaultsGrow DEF TypeOK
    <3>6. pc[q] = "error" => signals + faults >= 1
      BY <3>1, <3>3 DEF EndInv
    <3>7. pc[q] \in {"finally", "release"} /\ Answers(q) => signals + faults >= 2
      BY <3>1, <3>3 DEF EndInv
    <3>8. /\ signals + faults >= 1 => signals' + faults' >= 1
          /\ signals + faults >= 2 => signals' + faults' >= 2
      BY <3>5, Sums
    <3> QED BY <3>1, <3>4, <3>6, <3>7, <3>8
  <2> QED BY <2>1, <2>2 DEF Ending
<1>3. CASE UNCHANGED <<pc, status, existed, committed, opened, signals, faults>>
  <2>1. \A q \in Procs : Answers(q)' <=> Answers(q)
    BY <1>1, <1>3 DEF Answers
  <2>2. \A q \in opened : q \in Procs
    BY <1>0 DEF TypeOK
  <2> QED BY <1>1, <1>3, <2>1, <2>2 DEF EndInv
<1>4. \A q \in opened' : q \in Procs
  BY NextTypeOK, <1>0 DEF TypeOK
<1> QED BY <1>1, <1>2, <1>3, <1>4 DEF Next, Lose, AllOver, vars, record, flags, counts, EndInv

(* A run that opened its record does not leave it saying running when one  *)
(* thing goes wrong, wherever it does.                                     *)
THEOREM EndsAreRecorded == Spec => []EndIsRecorded
<1>1. Init => EndInv
  BY DEF Init, EndInv
<1>2. BaseInv /\ EndInv => EndIsRecorded
  <2> SUFFICES ASSUME BaseInv, EndInv, NEW p \in opened, pc[p] = "release", signals + faults <= 1,
                      Answers(p), status[IdOf(p)] = "running"
               PROVE  FALSE
    BY DEF EndIsRecorded, Answers
  <2>1. signals + faults >= 2
    BY DEF EndInv
  <2>2. signals \in Nat /\ faults \in Nat
    BY DEF BaseInv, TypeOK
  <2> QED BY <2>1, <2>2
<1> QED BY <1>1, <1>2, NextEndInv, BaseIsInvariant, PTL DEF Spec

(* A cold member that runs has found, under its claim, that nobody had     *)
(* certified its spec, and nobody does while it runs.                      *)
THEOREM DerivationIsOnce == Spec => []DerivedOnce
<1>1. Init => DerivedOnce
  BY DEF Init, FirstStep, DerivedOnce, InTry
<1>2. ASSUME BaseInv, DerivedOnce, [Next]_vars PROVE DerivedOnce'
  <2>0. sc' = sc /\ TypeOK
    BY StepKeepsScenario, <1>2 DEF BaseInv
  <2>1. \A q \in Procs : /\ SpecOf(q)' = SpecOf(q) /\ Resumed(q)' = Resumed(q) /\ Role(q)' = Role(q)
    BY <2>0, SameJobs
  <2>2. ASSUME NEW p \in Procs, Step(p) \/ Signal(p) \/ Kill(p), NEW q \in Procs,
               Role(q) = "member", ~Resumed(q), pc'[q] \in InTry
        PROVE  SpecOf(q) \notin ready'
    <3>1. CASE q = p
      <4>1. CASE ConductorPasses(p) \/ ClaimFirst(p) \/ Signal(p) \/ Kill(p)
        BY <2>0, <2>2, <3>1, <4>1 DEF TypeOK, ConductorPasses, ClaimFirst, Signal, AfterSignal, Kill, Goes, InTry
      <4>2. CASE MemberRuns(p)
        BY <3>1, <4>2 DEF MemberRuns
      <4>3. CASE RefusedFirst(p) \/ MemberSkips(p) \/ RefusedSecond(p) \/ CommandFails(p) \/ PreflightRefuses(p)
                 \/ ConductorStops(p) \/ RecordConductorError(p) \/ RecordingFails(p) \/ HandleError(p)
                 \/ HandlerFails(p) \/ CleanUp(p) \/ Release(p) \/ Leave(p) \/ Enter(p) \/ DriverEndsWalk(p)
        BY <2>0, <2>2, <3>1, <4>3 DEF TypeOK, RefusedFirst, MemberSkips, RefusedSecond, CommandFails,
           PreflightRefuses, ConductorStops, RecordConductorError, RecordingFails, HandleError, HandlerFails,
           CleanUp, Release, Leave, Enter, DriverEndsWalk, Goes, InTry
      <4>4. CASE ClaimSecond(p) \/ MarkAttempt(p) \/ LookForRecord(p) \/ InitWrites(p) \/ InitReturns(p)
                 \/ Prepare(p) \/ ConductorRaises(p)
        <5>1. pc[p] \in InTry /\ UNCHANGED ready
          BY <4>4 DEF ClaimSecond, MarkAttempt, LookForRecord, InitWrites, InitReturns, Prepare,
             ConductorRaises, Goes, InTry
        <5> QED BY <1>2, <2>2, <3>1, <5>1 DEF DerivedOnce
      <4>5. CASE \E m \in Procs : DriverSkips(p, m) \/ DriverLaunches(p, m)
        BY <2>0, <2>2, <3>1, <4>5 DEF TypeOK, DriverSkips, DriverLaunches, Considers, InTry
      <4> QED BY <2>2, <4>1, <4>2, <4>3, <4>4, <4>5 DEF Step
    <3>2. CASE q # p
      <4>1. pc[q] = pc'[q]
        BY <2>0, <2>2, <3>2, OthersStand DEF InTry
      <4>2. SpecOf(q) \notin ready /\ spec[SpecOf(q)] = q
        BY <1>2, <2>2, <4>1 DEF DerivedOnce, BaseInv, ClaimsInv, HoldsFirst
      <4>3. SpecOf(q) \in Specs
        BY <2>0, JobTypes DEF TypeOK
      <4>4. CASE UNCHANGED ready
        BY <4>2, <4>4
      <4>5. CASE Both(p) /\ \A s \in Specs : s # SpecOf(p) => (s \in ready' => s \in ready)
        BY <3>2, <4>2, <4>3, <4>5 DEF Both
      <4> QED BY <1>2, <2>2, <4>4, <4>5, OwnersOnly
    <3> QED BY <3>1, <3>2
  <2>3. CASE UNCHANGED pc /\ ready' \subseteq ready
    BY <1>2, <2>1, <2>3 DEF DerivedOnce
  <2> QED BY <1>2, <2>1, <2>2, <2>3 DEF Next, Lose, AllOver, vars, DerivedOnce
<1> QED BY <1>1, <1>2, BaseIsInvariant, PTL DEF Spec

-----------------------------------------------------------------------------
(* Who waits for whom.  A member waits with no claim in hand, so that a     *)
(* wait in a circle is one of drivers: each walks its members and holds the *)
(* orchestration it was resumed by.                                         *)

HoldsNothing(p) == (\A i \in Ids : orch[i] # p) /\ (\A s \in Specs : spec[s] # p)

\* What a driver still holds while it walks is the orchestration it was
\* resumed by, and no member that needs it has been started.
WalksWithEntry(d) ==
  /\ \A s \in Specs : spec[s] # d
  /\ \A i \in Ids : orch[i] = d =>
       /\ i = Entry(d)
       /\ \A m \in MembersOf(d) : pc[m] \in {"idle", "skipped"} \/ ~Resumed(m) \/ IdOf(m) # i

EmptyHanded(p) == pc[p] \in {"idle", "start"} \/ (pc[p] = "claim" /\ Role(p) = "member")

DriverInv ==
  /\ \A p \in Procs : EmptyHanded(p) => HoldsNothing(p)
  /\ \A d \in Procs : pc[d] \in {"start", "walk"} => Role(d) = "closure"
  /\ \A d \in Procs : pc[d] = "start" => \A m \in MembersOf(d) : pc[m] = "idle"
  /\ \A d \in Procs : pc[d] = "walk" => WalksWithEntry(d)

LEMMA InitDriverInv == Init => DriverInv
<1> SUFFICES ASSUME Init PROVE DriverInv
  OBVIOUS
<1>1. sc \in DOMAIN Scenarios
  BY DEF Init
<1>2. \A p \in Procs : HoldsNothing(p)
  BY <1>1, NodeRunsAssumption DEF Init, HoldsNothing
<1>3. ASSUME NEW d \in Procs, pc[d] \in {"start", "walk"} PROVE pc[d] = "start" /\ Role(d) = "closure"
  BY <1>3 DEF Init, FirstStep, Role
<1>4. ASSUME NEW d \in Procs, NEW m \in MembersOf(d) PROVE pc[m] = "idle"
  <2>1. m \in Procs /\ Scenarios[sc].job[m].boss # None /\ Scenarios[sc].job[m].role = "member"
    BY <1>1, <1>4, NodeRunsAssumption DEF MembersOf
  <2> QED BY <2>1 DEF Init, FirstStep
<1> QED BY <1>2, <1>3, <1>4 DEF DriverInv

(* A step starts or skips members of its own process only, and moves the    *)
(* claims of nobody else.                                                   *)
LEMMA OnlyOwn ==
  ASSUME TypeOK, NEW p \in Procs, Step(p) \/ Signal(p) \/ Kill(p)
  PROVE  /\ \A i \in Ids : orch'[i] \in {orch[i], p, None}
         /\ \A s \in Specs : spec'[s] \in {spec[s], p, None}
         /\ \A m \in Procs : pc'[m] # pc[m] /\ m # p => m \in MembersOf(p) /\ pc[p] = "walk" /\ pc[m] = "idle"
         /\ pc[p] \notin {"idle", "skipped"}
<1>0. IdOf(p) \in Ids /\ SpecOf(p) \in Specs
  BY JobTypes DEF TypeOK
<1>1. CASE ClaimFirst(p) \/ ClaimSecond(p)
  BY <1>0, <1>1 DEF TypeOK, ClaimFirst, TakesFirst, ClaimSecond, Goes
<1>2. CASE Release(p) \/ Leave(p) \/ Kill(p)
  BY <1>0, <1>2 DEF TypeOK, Release, Leave, Kill, Without, Goes
<1>3. CASE Enter(p)
  BY <1>3 DEF TypeOK, Enter, Goes
<1>4. CASE \E m \in Procs : DriverSkips(p, m) \/ DriverLaunches(p, m)
  BY <1>4 DEF TypeOK, DriverSkips, DriverLaunches, Considers, Without, claims
<1>5. CASE Signal(p)
  BY <1>5, NodeRunsAssumption DEF TypeOK, Signal, InTry, claims
<1>6. CASE MemberSkips(p) \/ MemberRuns(p) \/ RefusedFirst(p) \/ RefusedSecond(p) \/ MarkAttempt(p)
           \/ LookForRecord(p) \/ InitWrites(p) \/ InitReturns(p) \/ CommandFails(p) \/ Prepare(p)
           \/ PreflightRefuses(p) \/ DriverEndsWalk(p)
  BY <1>6 DEF TypeOK, MemberSkips, MemberRuns, RefusedFirst, RefusedSecond, MarkAttempt, LookForRecord,
     InitWrites, InitReturns, CommandFails, Prepare, PreflightRefuses, DriverEndsWalk, Goes, claims
<1>7. CASE ConductorPasses(p) \/ ConductorStops(p) \/ ConductorRaises(p) \/ RecordConductorError(p)
           \/ RecordingFails(p) \/ HandleError(p) \/ HandlerFails(p) \/ CleanUp(p)
  BY <1>7 DEF TypeOK, ConductorPasses, ConductorStops, ConductorRaises, RecordConductorError,
     RecordingFails, HandleError, HandlerFails, CleanUp, Goes, claims
<1> QED BY <1>1, <1>2, <1>3, <1>4, <1>5, <1>6, <1>7 DEF Step

(* Where a step leaves its own process.                                     *)
LEMMA OwnWalk ==
  ASSUME TypeOK, DriverInv, NEW p \in Procs, Step(p) \/ Signal(p) \/ Kill(p)
  PROVE  /\ pc'[p] \notin {"idle", "start"}
         /\ pc'[p] = "claim" => Role(p) = "closure"
         /\ pc'[p] = "walk" => /\ Role(p) = "closure"
                               /\ \A s \in Specs : spec'[s] # p
                               /\ \A i \in Ids : orch'[i] = p =>
                                    /\ i = Entry(p)
                                    /\ \A m \in MembersOf(p) :
                                         pc'[m] \in {"idle", "skipped"} \/ ~Resumed(m) \/ IdOf(m) # i
<1>1. CASE Enter(p)
  <2>1. pc[p] = "start" /\ Role(p) = "closure" /\ pc'[p] \in {"walk", "leave"} /\ spec' = spec
        /\ HoldsNothing(p) /\ \A m \in MembersOf(p) : pc[m] = "idle"
    BY <1>1 DEF TypeOK, Enter, Goes, DriverInv, EmptyHanded
  <2>2. \A m \in MembersOf(p) : m # p /\ pc'[m] = "idle"
    BY <1>1, <2>1 DEF TypeOK, Enter, Goes, MembersOf
  <2>3. pc'[p] = "walk" => \A i \in Ids : orch'[i] = p => i = Entry(p)
    BY <1>1, <2>1 DEF TypeOK, Enter, Goes, HoldsNothing
  <2> QED BY <2>1, <2>2, <2>3 DEF HoldsNothing
<1>2. ASSUME NEW n \in Procs, DriverSkips(p, n) \/ DriverLaunches(p, n)
      PROVE  /\ pc'[p] = "walk" /\ Role(p) = "closure"
             /\ \A s \in Specs : spec'[s] # p
             /\ \A i \in Ids : orch'[i] = p =>
                  /\ i = Entry(p)
                  /\ \A m \in MembersOf(p) : pc'[m] \in {"idle", "skipped"} \/ ~Resumed(m) \/ IdOf(m) # i
  <2>1. pc[p] = "walk" /\ n # p /\ pc'[p] = "walk" /\ n \in MembersOf(p)
        /\ pc' \in {[pc EXCEPT ![n] = "skipped"], [pc EXCEPT ![n] = "claim"]} /\ spec' = spec
    BY <1>2 DEF TypeOK, DriverSkips, DriverLaunches, Considers, claims
  <2>2. Role(p) = "closure" /\ WalksWithEntry(p)
    BY <2>1 DEF DriverInv
  <2>3. ASSUME NEW i \in Ids, orch'[i] = p
        PROVE  /\ orch[i] = p
               /\ pc'[n] = "skipped" \/ ~Resumed(n) \/ IdOf(n) # i
    <3>1. CASE DriverSkips(p, n)
      BY <2>3, <3>1 DEF TypeOK, DriverSkips, claims
    <3>2. CASE DriverLaunches(p, n)
      <4>1. CASE Resumed(n) /\ IdOf(n) = Entry(p)
        <5>1. orch' = Without(p, orch)
          BY <3>2, <4>1 DEF DriverLaunches
        <5>2. orch'[i] # p
          BY <5>1, JobTypes DEF Without, TypeOK
        <5> QED BY <2>3, <5>2
      <4>2. CASE ~(Resumed(n) /\ IdOf(n) = Entry(p))
        <5>1. orch' = orch
          BY <3>2, <4>2 DEF DriverLaunches
        <5>2. i = Entry(p)
          BY <2>2, <2>3, <5>1 DEF WalksWithEntry
        <5> QED BY <2>3, <4>2, <5>1, <5>2
      <4> QED BY <4>1, <4>2
    <3> QED BY <1>2, <3>1, <3>2
  <2>4. \A m \in MembersOf(p) : m # n => pc'[m] = pc[m]
    BY <2>1 DEF TypeOK, MembersOf
  <2> QED BY <2>1, <2>2, <2>3, <2>4 DEF WalksWithEntry
<1>3. CASE \E n \in Procs : DriverSkips(p, n) \/ DriverLaunches(p, n)
  BY <1>2, <1>3
<1>4. CASE DriverEndsWalk(p)
  BY <1>4 DEF TypeOK, DriverEndsWalk, Goes, DriverInv
<1>5. CASE Signal(p)
  BY <1>5, NodeRunsAssumption DEF TypeOK, Signal, AfterSignal
<1>6. CASE ClaimFirst(p) \/ ClaimSecond(p) \/ Release(p) \/ Leave(p) \/ Kill(p) \/ MemberSkips(p)
           \/ MemberRuns(p) \/ RefusedFirst(p) \/ RefusedSecond(p) \/ MarkAttempt(p)
           \/ LookForRecord(p) \/ InitWrites(p) \/ InitReturns(p) \/ CommandFails(p) \/ Prepare(p)
           \/ PreflightRefuses(p)
  BY <1>6 DEF TypeOK, ClaimFirst, ClaimSecond, Release, Leave, Kill, MemberSkips, MemberRuns, RefusedFirst,
     RefusedSecond, MarkAttempt, LookForRecord, InitWrites, InitReturns, CommandFails, Prepare,
     PreflightRefuses, Goes
<1>7. CASE ConductorPasses(p) \/ ConductorStops(p) \/ ConductorRaises(p) \/ RecordConductorError(p)
           \/ RecordingFails(p) \/ HandleError(p) \/ HandlerFails(p) \/ CleanUp(p)
  BY <1>7 DEF TypeOK, ConductorPasses, ConductorStops, ConductorRaises, RecordConductorError,
     RecordingFails, HandleError, HandlerFails, CleanUp, Goes
<1> QED BY <1>1, <1>2, <1>3, <1>4, <1>5, <1>6, <1>7 DEF Step

LEMMA NextDriverInv == TypeOK /\ DriverInv /\ [Next]_vars => DriverInv'
<1> SUFFICES ASSUME TypeOK, DriverInv, [Next]_vars PROVE DriverInv'
  OBVIOUS
<1>0. sc' = sc
  BY StepKeepsScenario
<1>s. \A q : /\ IdOf(q)' = IdOf(q) /\ Resumed(q)' = Resumed(q) /\ Role(q)' = Role(q)
             /\ Entry(q)' = Entry(q) /\ MembersOf(q)' = MembersOf(q)
  BY <1>0 DEF IdOf, Resumed, Role, Entry, MembersOf
<1>m. \A d : \A m \in MembersOf(d) : m \in Procs
  BY DEF MembersOf
<1>1. ASSUME NEW p \in Procs, Step(p) \/ Signal(p) \/ Kill(p) PROVE DriverInv'
  <2>1. ASSUME NEW q \in Procs, EmptyHanded(q)' PROVE HoldsNothing(q)'
    <3>1. q # p
      BY <1>1, <1>s, <2>1, OwnWalk DEF EmptyHanded
    <3>2. pc'[q] = pc[q] \/ pc[q] = "idle"
      BY <1>1, <3>1, OnlyOwn
    <3>3. HoldsNothing(q)
      BY <1>s, <2>1, <3>2 DEF EmptyHanded, DriverInv
    <3> QED BY <1>1, <3>1, <3>3, OnlyOwn, JobTypes DEF HoldsNothing, TypeOK
  <2>2. ASSUME NEW d \in Procs, pc'[d] \in {"start", "walk"} PROVE Role(d) = "closure"
    <3>1. CASE d = p
      BY <1>1, <2>2, <3>1, OwnWalk
    <3>2. CASE d # p
      <4>1. pc'[d] = pc[d] \/ pc'[d] \in {"skipped", "claim"}
        BY <1>1, <3>2, OthersStand
      <4> QED BY <2>2, <4>1 DEF DriverInv
    <3> QED BY <3>1, <3>2
  <2>3. ASSUME NEW d \in Procs, pc'[d] = "start", NEW m \in MembersOf(d) PROVE pc'[m] = "idle"
    <3>1. d # p
      BY <1>1, <2>3, OwnWalk
    <3>2. pc[d] = "start"
      BY <1>1, <2>3, <3>1, OthersStand
    <3>3. pc[m] = "idle" /\ m \in Procs
      BY <1>m, <3>2 DEF DriverInv
    <3>4. m \in MembersOf(p) => FALSE
      BY <3>1 DEF MembersOf
    <3> QED BY <1>1, <3>3, <3>4, OnlyOwn
  <2>4. ASSUME NEW d \in Procs, pc'[d] = "walk" PROVE WalksWithEntry(d)'
    <3>1. CASE d = p
      BY <1>1, <1>s, <2>4, <3>1, OwnWalk DEF WalksWithEntry
    <3>2. CASE d # p
      <4>1. pc[d] = "walk"
        BY <1>1, <2>4, <3>2, OthersStand
      <4>2. WalksWithEntry(d)
        BY <4>1 DEF DriverInv
      <4>3. \A m \in MembersOf(d) : pc'[m] = pc[m] \/ (m = p /\ pc[m] \notin {"idle", "skipped"})
        <5> TAKE m \in MembersOf(d)
        <5>1. m \notin MembersOf(p) /\ m \in Procs
          BY <3>2 DEF MembersOf
        <5> QED BY <1>1, <5>1, OnlyOwn
      <4>4. /\ \A i \in Ids : orch'[i] = d => orch[i] = d
            /\ \A s \in Specs : spec'[s] = d => spec[s] = d
        BY <1>1, <3>2, OnlyOwn, JobTypes DEF TypeOK
      <4> QED BY <1>s, <4>2, <4>3, <4>4 DEF WalksWithEntry
    <3> QED BY <3>1, <3>2
  <2> QED BY <1>s, <2>1, <2>2, <2>3, <2>4 DEF DriverInv
<1>2. CASE UNCHANGED <<pc, orch, spec>>
  <2>1. \A q : /\ EmptyHanded(q)' = EmptyHanded(q) /\ HoldsNothing(q)' = HoldsNothing(q)
               /\ WalksWithEntry(q)' = WalksWithEntry(q)
    BY <1>2, <1>s DEF EmptyHanded, HoldsNothing, WalksWithEntry
  <2> QED BY <1>2, <1>s, <2>1 DEF DriverInv
<1> QED BY <1>1, <1>2 DEF Next, Lose, AllOver, vars, claims

(* Whatever is killed, interrupted, lost or derived by others meanwhile, a  *)
(* circle closes only through what drivers claimed on entry and hold yet: a *)
(* member waits with no claim in hand, and a driver lets go of its own      *)
(* before it launches the member that needs it.  A driver that skips that   *)
(* member keeps its claim (_schedule_closure_members).                      *)
THEOREM CirclesOnlyOfKeptEntries == Spec => []CirclesAreOfKeptEntries
<1>1. TypeOK /\ DriverInv => CirclesAreOfKeptEntries
  <2> SUFFICES ASSUME TypeOK, DriverInv,
                      NEW S \in SUBSET {p \in Procs : Waits(p) \/ Awaits(p)}, WaitForEachOther(S),
                      NEW m \in S, Waits(m)
               PROVE  /\ Resumed(m) /\ Awaits(Holder(m)) /\ Entry(Holder(m)) = IdOf(m)
                      /\ m \notin MembersOf(Holder(m))
                      /\ \A n \in MembersOf(Holder(m)) :
                           Resumed(n) /\ IdOf(n) = Entry(Holder(m)) => pc[n] \in {"idle", "skipped"}
    BY DEF CirclesAreOfKeptEntries
  <2>1. m \in Procs /\ pc[m] = "claim" /\ Holder(m) \in S /\ Holder(m) \in Procs
    BY DEF WaitForEachOther, Waits, Awaits
  <2>2. IdOf(m) \in Ids /\ SpecOf(m) \in Specs
    BY <2>1, JobTypes DEF TypeOK
  <2>3. ~HoldsNothing(Holder(m))
    BY <2>2 DEF HoldsNothing, Holder
  <2>4. Awaits(Holder(m))
    BY <2>1, <2>3 DEF DriverInv, EmptyHanded, Waits
  <2>5. WalksWithEntry(Holder(m))
    BY <2>1, <2>4 DEF Awaits, DriverInv
  <2>6. /\ Resumed(m) /\ orch[IdOf(m)] = Holder(m) /\ IdOf(m) = Entry(Holder(m))
        /\ \A n \in MembersOf(Holder(m)) :
             pc[n] \in {"idle", "skipped"} \/ ~Resumed(n) \/ IdOf(n) # IdOf(m)
    BY <2>2, <2>5 DEF WalksWithEntry, Holder
  <2> QED BY <2>1, <2>4, <2>6
<1>2. TypeOK /\ [Next]_vars => TypeOK'
  BY NextTypeOK
<1> QED BY <1>1, <1>2, InitTypeOK, InitDriverInv, NextDriverInv, PTL DEF Spec
=============================================================================
