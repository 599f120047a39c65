------------------------------ MODULE Conductor ------------------------------
(***************************************************************************)
(* The phase loop of one node's workflow conductor                         *)
(* (src/tools/workflow_conductor.py: _conduct_phases, run_phase,           *)
(* classify_failure, escalate, _revoke_and_reset_or_terminalize), together *)
(* with the part of the artifact store that its certification check reads  *)
(* (src/tools/orchestration_runtime.py: DerivationResolver,                *)
(* _stamp_certification, _revoke_stage_meta).                              *)
(*                                                                         *)
(* A run walks Compile, Generate, Build and Validate.  A phase the store   *)
(* already certifies is skipped.  A phase that fails is routed: the run    *)
(* stops, re-runs the phase's own producer, or reopens an upstream phase   *)
(* whose output the failure condemns.  The process may die between any two *)
(* steps, and another run of the node then starts from the store alone.    *)
(*                                                                         *)
(* Outputs are content addressed: a phase is certified when an output      *)
(* stands under the key of the outputs certified above it.  For each key   *)
(* the store is modelled by what the selection answers: nothing, a passing *)
(* content, or a revocation that shadows what it condemned.                *)
(***************************************************************************)
EXTENDS Naturals, FiniteSets

CONSTANTS Irs,          \* contents of an IR,
          Sources,      \* of a source bundle
          Binaries,     \* and of a binary
          MaxAttempts,  \* MAX_ATTEMPTS_PER_PHASE
          C2Threshold,  \* C2_EXECUTE_FAIL_ESCALATION_THRESHOLD
          MaxRuns,      \* bound: runs of the node its operator starts
          Grades,       \* bound: the severities a decision may be graded with
          Configs       \* the configurations an operator may choose

Compile == 1
Generate == 2
Build == 3
Validate == 4
Phases == Compile .. Validate
NoPhase == 0
Produced == {Compile, Generate}  \* the phases with a leaf producer to repair

Config == [mode : {"dev", "prod"}, until : Phases,
           rederive : SUBSET Phases, hostRunner : BOOLEAN]

ASSUME ConductorAssumption ==
  /\ Irs # {} /\ Sources # {} /\ Binaries # {}
  /\ Irs \cap {"attempt", "none"} = {}  \* no IR is one of Repairs' two words
  /\ MaxAttempts \in Nat /\ C2Threshold \in Nat \ {0} /\ MaxRuns \in Nat
  /\ Grades \subseteq {"minor", "major", "critical"}
  /\ Configs \subseteq Config

-----------------------------------------------------------------------------
(* What the store answers for one key.                                     *)

Severities == {"none", "minor", "major", "critical"}
Strategies == {"none", "reuse", "restart"}

Absent == [st |-> "absent"]
Output(b) == [st |-> "pass", body |-> b]
Revocation(sev, strat, found) ==
  [st |-> "revoked", severity |-> sev, strategy |-> strat, findings |-> found]

Outputs(S) == {Output(b) : b \in S}
Marks == {Revocation(sev, strat, found) :
             sev \in Severities, strat \in Strategies, found \in BOOLEAN}
Standing(S) == {Absent} \cup Outputs(S) \cup Marks

(* The severity policy: minor forces reuse, critical forces restart; the   *)
(* rest honour an explicit restart and default to reuse.                   *)
SeverityStrategy(sev, strat) ==
  IF sev = "minor" THEN "reuse"
  ELSE IF sev = "critical" \/ strat = "restart" THEN "restart" ELSE "reuse"

(* A revocation graded so asks that its producer's session be discarded.   *)
Discards(mark) == SeverityStrategy(mark.severity, mark.strategy) = "restart"

(* A repair pending for a producer: its strategy, the session it resumes   *)
(* (that of the output condemned under a key, that of this run's failed    *)
(* attempt, or none), and the phase whose findings it carries.             *)
NoRepair == [strategy |-> "none", session |-> "none", findings |-> NoPhase]
Repairs == [strategy : Strategies, session : Irs \cup {"spec", "attempt", "none"},
            findings : Produced \cup {NoPhase}]

(* A routing decision.  `findings` says that the failed artifact holds a   *)
(* text for the repair; no target means the failing phase itself.          *)
Decision(action, target, strat, found) ==
  [action |-> action, target |-> target, strategy |-> strat,
   severity |-> "none", findings |-> found]
Decisions == [action : {"retry", "escalate", "fail_closed"},
              target : Produced \cup {NoPhase}, strategy : Strategies,
              severity : Severities, findings : BOOLEAN]
Stop == Decision("fail_closed", NoPhase, "none", FALSE)
Escalate(found) == Decision("escalate", NoPhase, "none", found)
Retry(target, strat, found) == Decision("retry", target, strat, found)
Reopen(target) == Decision("retry", target, "none", FALSE)

VARIABLES
  ir,       \* standing of the Compile output
  src,      \* standing of the Generate output, by IR content
  bin,      \* standing of the Build output, by source content
  val,      \* the <<IR, binary>> contents Validate has certified
  pc,       \* where the conductor is; "idle" when no run is in progress
  cfg,      \* this run's configuration
  idx,      \* the phase in hand; past `until` when all have passed
  sub,      \* the substep in hand
  under,    \* the IRs whose Generate output the run's records name: at most one
  attempts, \* decisions charged to each producing phase in this run
  repair,   \* pending_repair
  streak,   \* _validate_execute_fail_count of the node
  ticket,   \* the decision being acted on
  status,   \* the terminal status; on disk once pc is "idle"
  runs,     \* runs started
  condemned,\* history: the <<phase, key>>s condemned and not re-derived since,
            \* each with whether the decision discarded the producer
  misses    \* history: no-verdict execute failures of the IR in hand, up to
            \* the threshold

store == <<ir, src, bin, val>>
run == <<cfg, idx, sub, under, attempts, repair, streak, ticket>>
vars == <<store, pc, run, status, runs, condemned, misses>>

-----------------------------------------------------------------------------
(* Certification: the output of a phase stands under the key of the        *)
(* outputs certified above it.                                             *)

IrOk == ir.st = "pass"
SrcOk == IrOk /\ src[ir.body].st = "pass"
BinOk == SrcOk /\ bin[src[ir.body].body].st = "pass"
ValOk == BinOk /\ <<ir.body, bin[src[ir.body].body].body>> \in val

Certified(p) ==
  /\ p = Compile => IrOk
  /\ p = Generate => SrcOk
  /\ p = Build => BinOk
  /\ p = Validate => ValOk

(* The record a refused phase is answered with: the first link of the      *)
(* chain that does not stand.  Every phase is answered with the refusal of *)
(* the IR when the IR is what does not stand.                              *)
Refusal(p) == IF p = Compile \/ ~IrOk THEN ir ELSE src[ir.body]

(* The key an output of phase p is selected by.                            *)
KeyOf(p) == IF p = Compile THEN "spec" ELSE ir.body

(* A passing write_step_result stamps an output of phase p under the key   *)
(* of the upstream contents it ran on.                                     *)
Stamp(p) ==
  \/ p = Compile /\ ir' \in Outputs(Irs) /\ UNCHANGED <<src, bin, val>>
  \/ /\ p = Generate
     /\ \E o \in Outputs(Sources) : src' = [src EXCEPT ![ir.body] = o]
     /\ UNCHANGED <<ir, bin, val>>
  \/ /\ p = Build
     /\ \E o \in Outputs(Binaries) : bin' = [bin EXCEPT ![src[ir.body].body] = o]
     /\ UNCHANGED <<ir, src, val>>
  \/ /\ p = Validate
     /\ val' = val \cup {<<ir.body, bin[src[ir.body].body].body>>}
     /\ UNCHANGED <<ir, src, bin>>

-----------------------------------------------------------------------------
(* Failure classification.                                                 *)

SubstepsOf(p) == IF p = Build THEN 1 ELSE IF p = Validate THEN 4 ELSE 3
Execute == 2  \* index of validate.execute

(* A finding prod hands to the diagnostician and dev stops on.             *)
Judgement(found) == IF cfg.mode = "dev" THEN Stop ELSE Escalate(found)

(* compile.generate, generate.generate: a document defect is repaired warm,*)
(* an unknown one cold; a declared compile failure stops the run.          *)
ProducerRoutes(p) ==
  {Retry(p, "reuse", TRUE), Retry(p, "restart", FALSE)}
    \cup (IF p = Compile THEN {Stop} ELSE {})

(* compile.static and generate.gate: a known finding is repaired warm, an  *)
(* unknown one escalates, a terminal gate category stops the run.          *)
CheckerRoutes(p) ==
  {Retry(p, "reuse", TRUE), Escalate(TRUE), Escalate(FALSE)}
    \cup (IF p = Generate THEN {Stop} ELSE {})

(* The reviewers: an unusable verdict restarts the producer, a minor       *)
(* finding repairs it warm, anything graded higher is a judgement.         *)
ReviewRoutes(p) ==
  {Retry(p, "restart", FALSE), Retry(NoPhase, "reuse", TRUE),
   Escalate(FALSE), Judgement(TRUE)}

BuildRoutes ==
  {Retry(Generate, "reuse", TRUE), Retry(Generate, "restart", TRUE), Escalate(FALSE)}

(* validate.judge and post_judge; a failed pre_judge only stops.           *)
JudgeRoutes(s) ==
  IF s = 3 THEN {Escalate(TRUE), Judgement(FALSE)}
  ELSE IF s = 4 THEN {Judgement(FALSE)} ELSE {}

(* Every failure but one of validate.execute.  A substep whose process     *)
(* dies is never classified: the run stops.                                *)
Routes(p, s) ==
  {Stop} \cup
    (IF p = Build THEN BuildRoutes
     ELSE IF p = Validate THEN JudgeRoutes(s)
     ELSE IF s = 1 THEN ProducerRoutes(p)
     ELSE IF s = 2 THEN CheckerRoutes(p)
     ELSE ReviewRoutes(p))

(* validate.execute with a verdict: a predicate failed.  A structural one  *)
(* goes to the source's producer in dev; one rooted in the IR does not.    *)
PredicateRoutes ==
  {Judgement(FALSE),
   IF cfg.mode = "dev" THEN Retry(Generate, "reuse", TRUE) ELSE Escalate(TRUE)}

(* validate.execute with none: counted, and attributed to the IR when the  *)
(* count reaches its threshold.                                            *)
CountReached == streak + 1 >= C2Threshold
NoVerdictRoutes ==
  IF CountReached THEN {Reopen(Compile)}
  ELSE {Retry(Generate, "reuse", TRUE), Retry(Generate, "restart", FALSE)}

(* The diagnostician's directive, its strategy forced by its severity.  No *)
(* target clears the strategy.  A diagnosis the host cannot make or record *)
(* stops the run.                                                          *)
Directed(found) ==
  {Stop} \cup
  {[action |-> "retry", target |-> t, severity |-> sev, findings |-> found,
    strategy |-> IF t = NoPhase THEN "none" ELSE SeverityStrategy(sev, strat)] :
     t \in Produced \cup {NoPhase}, sev \in Grades, strat \in Strategies}

-----------------------------------------------------------------------------
(* A run of the node.                                                      *)

Init ==
  /\ ir = Absent /\ src = [i \in Irs |-> Absent] /\ bin = [s \in Sources |-> Absent]
  /\ val = {}
  /\ pc = "idle" /\ cfg \in Configs
  /\ idx = Compile /\ sub = 1 /\ under = {}
  /\ attempts = [p \in Produced |-> 0] /\ repair = [p \in Produced |-> NoRepair]
  /\ streak = 0 /\ ticket = Stop
  /\ status = "none" /\ runs = 0
  /\ condemned = {} /\ misses = 0

(* Mutant of Seed: the recorded strategy is read before the grade.         *)
SeedByRecordedStrategy(p) ==
  LET mark == Refusal(p) IN
    IF ~(mark.st = "revoked" /\ mark.findings) THEN NoRepair
    ELSE LET strat == IF mark.strategy = "none" THEN "reuse" ELSE mark.strategy
             own == p = Compile \/ IrOk
         IN [strategy |-> strat, findings |-> IF own THEN p ELSE Compile,
             session |-> IF own /\ strat = "reuse" THEN KeyOf(p) ELSE "none"]

(* _seed_repairs_from_revocations: a phase refused for a revocation that   *)
(* left findings is re-derived with them, by the severity policy.  The     *)
(* producer session is looked up by the output the refusal names, which    *)
(* for the refusal of an IR is no source.                                  *)
Seed(p) ==
  LET mark == Refusal(p) IN
    IF ~(mark.st = "revoked" /\ mark.findings) THEN NoRepair
    ELSE LET strat == SeverityStrategy(mark.severity, mark.strategy)
             own == p = Compile \/ IrOk
         IN [strategy |-> strat, findings |-> IF own THEN p ELSE Compile,
             session |-> IF own /\ strat = "reuse" THEN KeyOf(p) ELSE "none"]

StartRun ==
  /\ pc = "idle" /\ runs < MaxRuns
  /\ cfg' \in Configs
  /\ repair' = [p \in Produced |-> IF p <= cfg'.until THEN Seed(p) ELSE NoRepair]
  /\ pc' = "phase" /\ idx' = Compile /\ status' = "running" /\ runs' = runs + 1
  /\ UNCHANGED <<store, sub, under, attempts, streak, ticket, condemned, misses>>

(* What a run holds in memory is gone when it ends.                        *)
Forget ==
  /\ idx' = Compile /\ sub' = 1 /\ under' = {}
  /\ attempts' = [p \in Produced |-> 0] /\ repair' = [p \in Produced |-> NoRepair]
  /\ streak' = 0 /\ ticket' = Stop /\ misses' = 0
  /\ UNCHANGED <<cfg, runs>>

(* Only the terminal status is still to be recorded.                       *)
End(st) == pc' = "ending" /\ status' = st /\ Forget

(* Mutant of Skip: a forced phase is taken for certified.                  *)
SkipForced ==
  /\ pc = "phase" /\ idx <= cfg.until
  /\ Certified(idx) \/ idx \in cfg.rederive
  /\ idx' = idx + 1
  /\ under' = under
  /\ repair' = IF idx \in Produced THEN [repair EXCEPT ![idx] = NoRepair] ELSE repair
  /\ streak' = IF idx = Validate THEN 0 ELSE streak
  /\ UNCHANGED <<store, pc, cfg, sub, attempts, ticket, status, runs, condemned, misses>>

(* Mutant of Skip: the records do not take the adopted output's name.      *)
SkipUnnamed ==
  /\ pc = "phase" /\ idx <= cfg.until
  /\ Certified(idx) /\ idx \notin cfg.rederive
  /\ idx' = idx + 1
  /\ under' = under
  /\ repair' = IF idx \in Produced THEN [repair EXCEPT ![idx] = NoRepair] ELSE repair
  /\ streak' = IF idx = Validate THEN 0 ELSE streak
  /\ UNCHANGED <<store, pc, cfg, sub, attempts, ticket, status, runs, condemned, misses>>

(* A certified phase is adopted: its pending repair is popped unused.      *)
Skip ==
  /\ pc = "phase" /\ idx <= cfg.until
  /\ Certified(idx) /\ idx \notin cfg.rederive
  /\ idx' = idx + 1
  /\ under' = IF idx = Generate THEN {ir.body} ELSE under
  /\ repair' = IF idx \in Produced THEN [repair EXCEPT ![idx] = NoRepair] ELSE repair
  /\ streak' = IF idx = Validate THEN 0 ELSE streak
  /\ UNCHANGED <<store, pc, cfg, sub, attempts, ticket, status, runs, condemned, misses>>

(* A phase that does not start: the dependency closure is not ready, the   *)
(* launch check refuses, a host-authored input cannot be written, or an    *)
(* input of the derivation does not resolve.                               *)
Refuse ==
  /\ pc = "phase" /\ idx <= cfg.until
  /\ ~Certified(idx) \/ idx \in cfg.rederive
  /\ End("fail_closed")
  /\ UNCHANGED <<store, condemned>>

BeginBody ==
  /\ pc = "phase" /\ idx <= cfg.until
  /\ ~Certified(idx) \/ idx \in cfg.rederive
  /\ Certified(idx - 1)
  /\ pc' = "body" /\ sub' = 1
  /\ under' = IF idx = Generate THEN {} ELSE under
  /\ repair' = IF idx \in Produced THEN [repair EXCEPT ![idx] = NoRepair] ELSE repair
  /\ UNCHANGED <<store, cfg, idx, attempts, streak, ticket, status, runs, condemned, misses>>

SubstepPass ==
  /\ pc = "body" /\ sub < SubstepsOf(idx)
  /\ sub' = sub + 1
  /\ UNCHANGED <<store, pc, cfg, idx, under, attempts, repair, streak, ticket,
                 status, runs, condemned, misses>>

(* The last substep passes: write_step_result certifies the phase.         *)
PhasePass ==
  /\ pc = "body" /\ sub = SubstepsOf(idx)
  /\ Stamp(idx)
  /\ pc' = "phase" /\ idx' = idx + 1 /\ sub' = 1
  /\ under' = IF idx = Generate THEN {ir.body} ELSE under
  /\ streak' = IF idx = Validate THEN 0 ELSE streak
  /\ condemned' = IF idx \in Produced
                  THEN {c \in condemned : ~(c.phase = idx /\ c.key = KeyOf(idx))}
                  ELSE condemned
  /\ misses' = IF idx = Compile THEN 0 ELSE misses
  /\ UNCHANGED <<cfg, attempts, repair, ticket, status, runs>>

(* A substep fails and the failure is classified.                          *)
Fail ==
  /\ pc = "body"
  /\ pc' = "decided" /\ sub' = 1 /\ ticket' \in Routes(idx, sub)
  /\ UNCHANGED <<store, cfg, idx, under, attempts, repair, streak,
                 status, runs, condemned, misses>>

Executing == pc = "body" /\ idx = Validate /\ sub = Execute

FailPredicate ==
  /\ Executing
  /\ pc' = "decided" /\ sub' = 1 /\ ticket' \in PredicateRoutes /\ streak' = 0
  /\ UNCHANGED <<store, cfg, idx, under, attempts, repair,
                 status, runs, condemned, misses>>

FailNoVerdict ==
  /\ Executing
  /\ pc' = "decided" /\ sub' = 1 /\ ticket' \in NoVerdictRoutes
  /\ streak' = IF CountReached THEN 0 ELSE streak + 1
  /\ misses' = IF misses < C2Threshold THEN misses + 1 ELSE misses
  /\ UNCHANGED <<store, cfg, idx, under, attempts, repair,
                 status, runs, condemned>>

(* A finding on a runner the host rendered from the IR: no source repairs  *)
(* it, so the IR is reopened and the count starts over.                    *)
FailRunnerGap ==
  /\ Executing /\ cfg.hostRunner /\ ~CountReached
  /\ pc' = "decided" /\ sub' = 1 /\ ticket' = Reopen(Compile) /\ streak' = 0
  /\ misses' = IF misses < C2Threshold THEN misses + 1 ELSE misses
  /\ UNCHANGED <<store, cfg, idx, under, attempts, repair,
                 status, runs, condemned>>

Diagnose ==
  /\ pc = "decided" /\ ticket.action = "escalate"
  /\ ticket' \in Directed(ticket.findings)
  /\ UNCHANGED <<store, pc, cfg, idx, sub, under, attempts, repair, streak,
                 status, runs, condemned, misses>>

-----------------------------------------------------------------------------
(* Acting on a decision.                                                   *)

Target == IF ticket.target = NoPhase THEN idx ELSE ticket.target
Routing == pc = "decided" /\ ticket.action = "retry" /\ Target <= cfg.until
Rollback == Target < idx

Exhausted == Target \in Produced /\ attempts[Target] >= MaxAttempts

(* Mutant of Charge: only a reopening of an upstream phase is charged.     *)
ChargeRollback ==
  attempts' = [p \in Produced |-> IF Rollback /\ p = Target THEN attempts[p] + 1
                                   ELSE attempts[p]]
Charge == attempts' = [p \in Produced |-> IF p = Target THEN attempts[p] + 1 ELSE attempts[p]]

(* revoke-artifact marks the stage meta the run's records name: a standing *)
(* output, unless the records name an attempt that was never certified.    *)
Hits(p) == IF p = Compile THEN IF idx > Compile THEN {"spec"} ELSE {} ELSE under

Revoke(p, mark) ==
  /\ ir' = IF p = Compile /\ Hits(p) # {} THEN mark ELSE ir
  /\ src' = [i \in Irs |-> IF p = Generate /\ i \in Hits(p) THEN mark ELSE src[i]]
  /\ UNCHANGED <<bin, val>>

TicketMark == Revocation(ticket.severity, ticket.strategy, ticket.findings)

(* History: the outputs a mark condemns stay so until they are re-derived. *)
Note(p, keys, mark) ==
  condemned' = {c \in condemned : ~(c.phase = p /\ c.key \in keys)}
                 \cup {[phase |-> p, key |-> k, discard |-> Discards(mark)] : k \in keys}

Condemn(p) == Revoke(p, TicketMark) /\ Note(p, Hits(p), TicketMark)

(* The repair a decision leaves for its target's producer.                 *)
Handed == IF ticket.strategy = "none" THEN NoRepair
          ELSE [strategy |-> ticket.strategy,
                findings |-> IF ticket.findings THEN Target ELSE NoPhase,
                session |-> IF ticket.strategy # "reuse" THEN "none"
                            ELSE IF Rollback THEN KeyOf(Target) ELSE "attempt"]

Halt ==
  /\ pc = "decided" /\ ticket.action = "fail_closed"
  /\ End("fail_closed")
  /\ UNCHANGED <<store, condemned>>

OutOfScope ==
  /\ pc = "decided" /\ ticket.action = "retry" /\ Target > cfg.until
  /\ End("fail")
  /\ UNCHANGED <<store, condemned>>

(* Mutant of DevRollback: the run ends before the decision reaches the     *)
(* artifact.                                                               *)
DevRollbackUnrevoked ==
  /\ Routing /\ cfg.mode = "dev" /\ Rollback
  /\ UNCHANGED store /\ Note(Target, Hits(Target), TicketMark)
  /\ End("dev_phase_rollback")

(* dev never re-derives a phase it has passed, but the decision to do so   *)
(* still reaches the artifact.                                             *)
DevRollback ==
  /\ Routing /\ cfg.mode = "dev" /\ Rollback
  /\ Condemn(Target)
  /\ End("dev_phase_rollback")

InRun == Routing /\ ~(cfg.mode = "dev" /\ Rollback)

OverBudget ==
  /\ InRun /\ Exhausted
  /\ Condemn(Target)
  /\ End("retry_budget_exhausted")

RepairOwn ==
  /\ InRun /\ ~Exhausted
  /\ Target = idx /\ idx \in Produced /\ ticket.strategy # "none"
  /\ Charge
  /\ Condemn(Target)
  /\ repair' = [repair EXCEPT ![idx] = Handed]
  /\ pc' = "phase" /\ ticket' = Stop
  /\ UNCHANGED <<cfg, idx, sub, under, streak, status, runs, misses>>

(* The failing phase has no producer, the decision names no strategy, or   *)
(* it names a phase not reached yet.                                       *)
NoRoute ==
  /\ InRun /\ ~Exhausted
  /\ Target >= idx
  /\ ~(Target = idx /\ idx \in Produced /\ ticket.strategy # "none")
  /\ End("fail")
  /\ UNCHANGED <<store, condemned>>

ReopenUpstream ==
  /\ InRun /\ ~Exhausted /\ Rollback
  /\ Charge
  /\ Condemn(Target)
  /\ repair' = IF ticket.strategy = "none" THEN repair
               ELSE [repair EXCEPT ![Target] = Handed]
  /\ idx' = Target
  /\ pc' = "phase" /\ ticket' = Stop
  /\ UNCHANGED <<cfg, sub, under, streak, status, runs, misses>>

(* Another run of the node has replaced or revoked the IR this chain       *)
(* stands on, or the variant disagrees with another target's: no pass.     *)
StopBeforePass ==
  /\ pc = "phase" /\ idx > cfg.until /\ cfg.until # Compile
  /\ End("fail")
  /\ UNCHANGED <<store, condemned>>

Finish ==
  /\ pc = "phase" /\ idx > cfg.until
  /\ End("pass")
  /\ UNCHANGED <<store, condemned>>

Record ==
  /\ pc = "ending" /\ pc' = "idle"
  /\ UNCHANGED <<store, run, status, runs, condemned, misses>>

Crash ==
  /\ pc # "idle" /\ pc' = "idle" /\ status' = "interrupted"
  /\ Forget
  /\ UNCHANGED <<store, condemned>>

(* An operator revokes a certified output by hand, with any pair of grade  *)
(* and strategy: the command line validates neither against the other.     *)
OperatorRevoke ==
  /\ pc = "idle" /\ runs \in 1 .. MaxRuns - 1
  /\ \E sev \in Grades \cup {"none"}, strat \in Strategies, found \in BOOLEAN :
     LET mark == Revocation(sev, strat, found) IN
       \/ /\ IrOk /\ ir' = mark /\ UNCHANGED <<src, bin, val>>
          /\ Note(Compile, {"spec"}, mark)
       \/ /\ SrcOk /\ src' = [src EXCEPT ![ir.body] = mark] /\ UNCHANGED <<ir, bin, val>>
          /\ Note(Generate, {ir.body}, mark)
       \/ /\ BinOk /\ bin' = [bin EXCEPT ![src[ir.body].body] = mark]
          /\ UNCHANGED <<ir, src, val, condemned>>
       \/ /\ ValOk /\ val' = val \ {<<ir.body, bin[src[ir.body].body].body>>}
          /\ UNCHANGED <<ir, src, bin, condemned>>
  /\ UNCHANGED <<pc, run, status, runs, misses>>

(* No run is in progress and the operator starts no more.                  *)
Quiet == pc = "idle" /\ runs = MaxRuns /\ UNCHANGED vars

Step ==
  \/ Skip \/ Refuse \/ BeginBody \/ SubstepPass \/ PhasePass
  \/ Fail \/ FailPredicate \/ FailNoVerdict \/ FailRunnerGap \/ Diagnose
  \/ Halt \/ OutOfScope \/ DevRollback \/ OverBudget \/ RepairOwn \/ NoRoute
  \/ ReopenUpstream \/ StopBeforePass \/ Finish \/ Record

Next == StartRun \/ Step \/ Crash \/ OperatorRevoke \/ Quiet

(* Every step of a run ends: a leaf and a subprocess run under a timeout,  *)
(* and nothing the loop waits for is left to the operator.                 *)
Spec == Init /\ [][Next]_vars /\ WF_vars(Step)

-----------------------------------------------------------------------------
(* Properties.                                                             *)

Condemnations == [phase : Produced, key : Irs \cup {"spec"}, discard : BOOLEAN]

(* Every variable has its type; the charges of a phase stay within the     *)
(* budget.                                                                 *)
TypeOK ==
  /\ ir \in Standing(Irs)
  /\ src \in [Irs -> Standing(Sources)]
  /\ bin \in [Sources -> Standing(Binaries)]
  /\ val \subseteq Irs \X Binaries
  /\ pc \in {"idle", "phase", "body", "decided", "ending"}
  /\ cfg \in Config
  /\ idx \in 1 .. 5 /\ sub \in 1 .. 4 /\ under \subseteq Irs
  /\ attempts \in [Produced -> 0 .. MaxAttempts]
  /\ repair \in [Produced -> Repairs]
  /\ streak \in 0 .. C2Threshold - 1
  /\ ticket \in Decisions
  /\ status \in {"none", "running", "pass", "fail", "fail_closed", "interrupted",
                 "dev_phase_rollback", "retry_budget_exhausted"}
  /\ runs \in 0 .. MaxRuns
  /\ condemned \subseteq Condemnations
  /\ misses \in 0 .. C2Threshold

(* A run records pass only while every phase up to the one it was asked    *)
(* for is certified on the outputs that stand, however the run reopened,   *)
(* forced and skipped phases on the way (set_status("pass") at the end of  *)
(* _conduct_phases).                                                       *)
PassStandsOnChain ==
  [][pc = "ending" /\ pc' = "idle" /\ status' = "pass" => Certified(cfg.until)]_vars

(* While a run works on a phase, everything above it is certified: no      *)
(* phase starts on, is stamped over, or is reached past an upstream that a *)
(* decision of this run took away.                                         *)
WorkStandsOnChain == pc \in {"phase", "body", "decided"} => Certified(idx - 1)

(* The phase in hand is one the run was asked for, and a pass about to be  *)
(* recorded stands on its chain.  With the two invariants above, this is   *)
(* what every step preserves.                                              *)
IInv ==
  /\ TypeOK /\ WorkStandsOnChain
  /\ pc = "phase" => idx <= cfg.until + 1
  /\ pc \in {"body", "decided"} => idx <= cfg.until
  /\ pc = "ending" /\ status = "pass" => Certified(cfg.until)

(* An output that a decision condemned is not adopted by any later phase   *)
(* or run before it has been re-derived: the decision reaches the artifact *)
(* before the run ends, whichever way it ends (the comments on revoking    *)
(* before terminalizing in _conduct_phases).                               *)
CondemnedIsNotAdopted ==
  [][pc = "phase" /\ pc' = "phase" /\ idx \in Produced /\ idx' = idx + 1
       => ~ \E c \in condemned : c.phase = idx /\ c.key = KeyOf(idx)]_vars

(* A decision against a phase that stands certified reaches the output it  *)
(* stands on: the records this run revokes through name that output, be it *)
(* derived, adopted or re-derived in this run.  Only a forced phase that   *)
(* has failed leaves the standing output alone.  So the terminal reason    *)
(* revocation_not_landed (RevocationNotLandedError) is never recorded.     *)
DecisionLands ==
  pc = "decided" /\ Target \in Produced /\ Target <= idx /\ Certified(Target)
    => \/ KeyOf(Target) \in Hits(Target)
       \/ Target = idx /\ idx \in cfg.rederive

(* What every step preserves for it: past Generate the records name the    *)
(* source in hand, and a phase is worked on uncertified unless forced.     *)
NamesInv ==
  /\ pc \in {"phase", "body", "decided"} /\ idx > Generate => under = {ir.body}
  /\ pc \in {"body", "decided"} /\ idx \notin cfg.rederive => ~Certified(idx)

(* A decision that discarded a producer's session is never carried out by  *)
(* resuming it, neither in the run that decided nor in one that reads the  *)
(* decision back from the artifact (_seed_repairs_from_revocations,        *)
(* resolve_severity_directive).                                            *)
DiscardIsHonoured ==
  [][pc = "phase" /\ pc' = "body" /\ idx \in Produced
       => ~ \E c \in condemned :
              c.phase = idx /\ c.discard /\ repair[idx].session = c.key]_vars

(* What every step preserves for these two.  What stands condemned is      *)
(* shadowed by a mark that says as much of the producer; no repair resumes *)
(* a session discarded with it; a decision's strategy follows from its     *)
(* severity; and no repair outlives its run.                               *)
MarkOf(c) == IF c.phase = Compile THEN ir ELSE src[c.key]

Shadowed ==
  \A c \in condemned : /\ IF c.phase = Compile THEN c.key = "spec" ELSE c.key \in Irs
                       /\ MarkOf(c).st = "revoked" /\ Discards(MarkOf(c)) = c.discard

Barred == \A c \in condemned : c.discard => repair[c.phase].session # c.key

Graded == /\ ticket.strategy = "reuse" => ticket.severity # "critical"
          /\ ticket.strategy = "none" /\ ticket.target # NoPhase => ticket.severity = "none"

Swept == pc \in {"idle", "ending"} => repair = [p \in Produced |-> NoRepair]

CondemnedInv == Shadowed /\ Barred /\ Graded /\ Swept

(* Every run ends, however its phases fail and whatever the diagnostician  *)
(* answers: each reopening is charged and the charges are bounded.         *)
EveryRunEnds == pc # "idle" ~> pc = "idle"

=============================================================================
