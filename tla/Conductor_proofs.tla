-------------------------- MODULE Conductor_proofs --------------------------
(* Proofs about the conductor, for every value of its constants.           *)
EXTENDS Conductor, TLAPS

(* What stands as passing has a content of its kind.                       *)
LEMMA PassingHasBody ==
  ASSUME NEW S, NEW o \in Standing(S), o.st = "pass"
  PROVE  o.body \in S
BY DEF Standing, Absent, Outputs, Output, Marks, Revocation

(* Kinds of decisions, repairs and marks.                                  *)
LEMMA MarkType ==
  ASSUME NEW sev \in Severities, NEW strat \in Strategies, NEW found \in BOOLEAN
  PROVE  Revocation(sev, strat, found) \in Marks
BY DEF Marks

LEMMA RoutesType ==
  /\ Stop \in Decisions
  /\ \A p \in Phases, s \in 1 .. 4 : Routes(p, s) \subseteq Decisions
  /\ PredicateRoutes \subseteq Decisions
  /\ NoVerdictRoutes \subseteq Decisions
  /\ Reopen(Compile) \in Decisions
<1>1. /\ \A t \in Produced \cup {NoPhase}, st \in Strategies, f \in BOOLEAN :
           Retry(t, st, f) \in Decisions
      /\ \A t \in Produced : Reopen(t) \in Decisions
      /\ \A f \in BOOLEAN : Escalate(f) \in Decisions
      /\ Stop \in Decisions
  BY DEF Retry, Escalate, Stop, Reopen, Decision, Decisions, Severities, Strategies,
         Produced, NoPhase, Compile, Generate
<1>2. Compile \in Produced /\ Generate \in Produced /\ NoPhase \in Produced \cup {NoPhase}
      /\ "reuse" \in Strategies /\ "restart" \in Strategies
  BY DEF Produced, Strategies
<1>3. \A f \in BOOLEAN : Judgement(f) \in Decisions
  BY <1>1, <1>2 DEF Judgement
<1>4. ASSUME NEW p \in Phases, NEW s \in 1 .. 4 PROVE Routes(p, s) \subseteq Decisions
  <2>1. p \in Produced => /\ ProducerRoutes(p) \subseteq Decisions
                          /\ CheckerRoutes(p) \subseteq Decisions
                          /\ ReviewRoutes(p) \subseteq Decisions
    BY <1>1, <1>2, <1>3 DEF ProducerRoutes, CheckerRoutes, ReviewRoutes
  <2>2. BuildRoutes \subseteq Decisions
    BY <1>1, <1>2 DEF BuildRoutes
  <2>3. JudgeRoutes(s) \subseteq Decisions
    BY <1>1, <1>3 DEF JudgeRoutes
  <2>4. p \in Produced \/ p = Build \/ p = Validate
    BY DEF Phases, Produced, Compile, Generate, Build, Validate
  <2>5. p \in Produced => p # Build /\ p # Validate
    BY DEF Produced, Compile, Generate, Build, Validate
  <2>6. CASE p = Build
    <3>1. Routes(p, s) = {Stop} \cup BuildRoutes
      BY <2>6 DEF Routes, Build, Validate
    <3> QED BY <1>1, <2>2, <3>1
  <2>7. CASE p = Validate
    <3>1. Routes(p, s) = {Stop} \cup JudgeRoutes(s)
      BY <2>7 DEF Routes, Build, Validate
    <3> QED BY <1>1, <2>3, <3>1
  <2>8. CASE p \in Produced
    <3>1. Routes(p, s) \subseteq
            {Stop} \cup ProducerRoutes(p) \cup CheckerRoutes(p) \cup ReviewRoutes(p)
      BY <2>5, <2>8 DEF Routes
    <3> QED BY <1>1, <2>1, <2>8, <3>1
  <2> QED BY <2>4, <2>6, <2>7, <2>8
<1> QED BY <1>1, <1>2, <1>3, <1>4 DEF PredicateRoutes, NoVerdictRoutes

LEMMA DirectedType == \A f \in BOOLEAN : Directed(f) \subseteq Decisions
<1>1. Stop \in Decisions
  BY RoutesType
<1>2. \A sev \in Severities, strat \in Strategies :
        SeverityStrategy(sev, strat) \in Strategies
  BY DEF SeverityStrategy, Strategies
<1>3. Grades \subseteq Severities
  BY ConductorAssumption DEF Severities
<1>4. "none" \in Strategies
  BY DEF Strategies
<1> QED BY <1>1, <1>2, <1>3, <1>4 DEF Directed, Decisions

LEMMA SeedType ==
  ASSUME TypeOK, NEW p \in Produced
  PROVE  Seed(p) \in Repairs
<1> DEFINE mark == Refusal(p)
<1>1. NoRepair \in Repairs
  BY DEF NoRepair, Repairs, Strategies
<1>2. p = Compile \/ p = Generate
  BY DEF Produced
<1>3. mark.st = "revoked" => mark \in Marks
  <2>1. ir \in Standing(Irs) /\ src \in [Irs -> Standing(Sources)]
    BY DEF TypeOK
  <2>2. IrOk => ir.body \in Irs
    BY <2>1, PassingHasBody DEF IrOk
  <2>3. mark \in Standing(Irs) \/ mark \in Standing(Sources)
    BY <2>1, <2>2 DEF Refusal
  <2> QED BY <2>3 DEF Standing, Absent, Outputs, Output
<1>4. mark.st = "revoked" =>
        SeverityStrategy(mark.severity, mark.strategy) \in Strategies
  BY <1>3 DEF SeverityStrategy, Strategies
<1>5. (p = Compile \/ IrOk) => KeyOf(p) \in Irs \cup {"spec"}
  <2>1. ir \in Standing(Irs)
    BY DEF TypeOK
  <2>2. IrOk => ir.body \in Irs
    BY <2>1, PassingHasBody DEF IrOk
  <2> QED BY <1>2, <2>2 DEF KeyOf, Compile, Generate
<1> QED BY <1>1, <1>2, <1>4, <1>5 DEF Seed, Repairs, Produced

-----------------------------------------------------------------------------
(* The chain of certified outputs.                                         *)

LEMMA CertifiedCases ==
  /\ Certified(0) /\ (Certified(Compile) <=> IrOk)
  /\ (Certified(Generate) <=> SrcOk) /\ (Certified(Build) <=> BinOk)
  /\ (Certified(Validate) <=> ValOk)
BY DEF Certified, Compile, Generate, Build, Validate

(* The contents of a chain are contents of their kinds.                    *)
LEMMA ChainBodies ==
  ASSUME TypeOK
  PROVE  /\ IrOk => ir.body \in Irs
         /\ SrcOk => ir.body \in Irs /\ src[ir.body].body \in Sources
         /\ BinOk => /\ ir.body \in Irs /\ src[ir.body].body \in Sources
                     /\ bin[src[ir.body].body].body \in Binaries
<1>1. /\ ir \in Standing(Irs) /\ src \in [Irs -> Standing(Sources)]
      /\ bin \in [Sources -> Standing(Binaries)]
  BY DEF TypeOK
<1>2. IrOk => ir.body \in Irs
  BY <1>1, PassingHasBody DEF IrOk
<1>3. SrcOk => ir.body \in Irs /\ src[ir.body].body \in Sources
  <2>1. SrcOk => ir.body \in Irs /\ src[ir.body].st = "pass"
    BY <1>2 DEF SrcOk
  <2> QED BY <1>1, <2>1, PassingHasBody
<1>4. BinOk => /\ ir.body \in Irs /\ src[ir.body].body \in Sources
               /\ bin[src[ir.body].body].body \in Binaries
  <2>1. BinOk => /\ ir.body \in Irs /\ src[ir.body].body \in Sources
                 /\ bin[src[ir.body].body].st = "pass"
    BY <1>3 DEF BinOk
  <2> QED BY <1>1, <2>1, PassingHasBody
<1> QED BY <1>2, <1>3, <1>4

(* A stamp on a certified upstream certifies its phase.                    *)
LEMMA StampCertifies ==
  ASSUME TypeOK, NEW p \in Phases, Certified(p - 1), Stamp(p)
  PROVE  Certified(p)'
<1>1. CASE p = Compile
  <2>1. IrOk'
    BY <1>1 DEF Stamp, Outputs, Output, IrOk, Compile, Generate, Build, Validate
  <2> QED BY <1>1, <2>1 DEF Certified, Compile, Generate, Build, Validate
<1>2. CASE p = Generate
  <2>1. IrOk /\ ir.body \in Irs
    BY <1>2, CertifiedCases, ChainBodies DEF Compile, Generate
  <2>2. PICK o \in Outputs(Sources) :
          src' = [src EXCEPT ![ir.body] = o] /\ UNCHANGED <<ir, bin, val>>
    BY <1>2 DEF Stamp, Compile, Generate, Build, Validate
  <2>3. o.st = "pass"
    BY DEF Outputs, Output
  <2>4. SrcOk'
    BY <2>1, <2>2, <2>3 DEF SrcOk, IrOk, TypeOK
  <2> QED BY <1>2, <2>4 DEF Certified, Compile, Generate, Build, Validate
<1>3. CASE p = Build
  <2>1. SrcOk /\ ir.body \in Irs /\ src[ir.body].body \in Sources
    BY <1>3, CertifiedCases, ChainBodies DEF Generate, Build
  <2>2. PICK o \in Outputs(Binaries) :
          bin' = [bin EXCEPT ![src[ir.body].body] = o] /\ UNCHANGED <<ir, src, val>>
    BY <1>3 DEF Stamp, Compile, Generate, Build, Validate
  <2>3. o.st = "pass"
    BY DEF Outputs, Output
  <2>4. BinOk'
    BY <2>1, <2>2, <2>3 DEF BinOk, SrcOk, IrOk, TypeOK
  <2> QED BY <1>3, <2>4 DEF Certified, Compile, Generate, Build, Validate
<1>4. CASE p = Validate
  <2>1. BinOk
    BY <1>4, CertifiedCases DEF Build, Validate
  <2>2. /\ val' = val \cup {<<ir.body, bin[src[ir.body].body].body>>}
        /\ UNCHANGED <<ir, src, bin>>
    BY <1>4 DEF Stamp, Compile, Generate, Build, Validate
  <2>3. ValOk'
    BY <2>1, <2>2 DEF ValOk, BinOk, SrcOk, IrOk
  <2> QED BY <1>4, <2>3 DEF Certified, Compile, Generate, Build, Validate
<1> QED BY <1>1, <1>2, <1>3, <1>4 DEF Phases, Compile, Generate, Build, Validate

(* What leaves the store alone leaves the chain alone.                     *)
LEMMA StoreKeepsChain ==
  ASSUME UNCHANGED store, NEW p \in 0 .. 4, Certified(p)
  PROVE  Certified(p)'
BY DEF store, Certified, IrOk, SrcOk, BinOk, ValOk

(* A revocation of a producing phase's output leaves what is above it.     *)
LEMMA RevokeKeepsUpstream ==
  ASSUME NEW p \in Produced, NEW mark, Revoke(p, mark), Certified(p - 1)
  PROVE  Certified(p - 1)'
<1>1. CASE p = Compile
  BY <1>1 DEF Certified, Compile, Generate, Build, Validate
<1>2. CASE p = Generate
  BY <1>2 DEF Revoke, Certified, IrOk, Compile, Generate, Build, Validate
<1> QED BY <1>1, <1>2 DEF Produced

LEMMA RevokeType ==
  ASSUME TypeOK, NEW p \in Produced, NEW mark \in Marks, Revoke(p, mark)
  PROVE  /\ ir' \in Standing(Irs) /\ src' \in [Irs -> Standing(Sources)]
         /\ UNCHANGED <<bin, val>>
BY DEF Revoke, TypeOK, Standing

LEMMA NoteType ==
  ASSUME TypeOK, NEW p \in Produced, NEW mark, NEW keys \in SUBSET (Irs \cup {"spec"}),
         Note(p, keys, mark)
  PROVE  condemned' \subseteq Condemnations
<1>1. Discards(mark) \in BOOLEAN
  BY DEF Discards
<1>2. condemned \subseteq Condemnations
  BY DEF TypeOK
<1> QED BY <1>1, <1>2 DEF Note, Condemnations

LEMMA CondemnType ==
  ASSUME TypeOK, NEW p \in Produced, Condemn(p)
  PROVE  /\ ir' \in Standing(Irs) /\ src' \in [Irs -> Standing(Sources)]
         /\ UNCHANGED <<bin, val>>
         /\ condemned' \subseteq Condemnations
<1>1. TicketMark \in Marks
  BY MarkType DEF TicketMark, TypeOK, Decisions
<1>2. Hits(p) \in SUBSET (Irs \cup {"spec"})
  BY DEF Hits, TypeOK
<1>3. Revoke(p, TicketMark) /\ Note(p, Hits(p), TicketMark)
  BY DEF Condemn
<1> HIDE DEF Condemn
<1> QED BY <1>1, <1>2, <1>3, RevokeType, NoteType

LEMMA StampType ==
  ASSUME TypeOK, NEW p \in Phases, Certified(p - 1), Stamp(p)
  PROVE  /\ ir' \in Standing(Irs) /\ src' \in [Irs -> Standing(Sources)]
         /\ bin' \in [Sources -> Standing(Binaries)]
         /\ val' \subseteq Irs \X Binaries
<1>1. CASE p = Compile
  BY <1>1 DEF Stamp, TypeOK, Standing, Compile, Generate, Build, Validate
<1>2. CASE p = Generate
  BY <1>2 DEF Stamp, TypeOK, Standing, Compile, Generate, Build, Validate
<1>3. CASE p = Build
  BY <1>3 DEF Stamp, TypeOK, Standing, Compile, Generate, Build, Validate
<1>4. CASE p = Validate
  <2>1. BinOk
    BY <1>4, CertifiedCases DEF Build, Validate
  <2>2. ir.body \in Irs /\ bin[src[ir.body].body].body \in Binaries
    BY <2>1, ChainBodies
  <2> QED BY <1>4, <2>2 DEF Stamp, TypeOK, Compile, Generate, Build, Validate
<1> QED BY <1>1, <1>2, <1>3, <1>4 DEF Phases, Compile, Generate, Build, Validate

LEMMA TargetProduced == TypeOK /\ Rollback => Target \in Produced
BY DEF TypeOK, Rollback, Target, Decisions

-----------------------------------------------------------------------------
(* The invariant: the initial state has it and every step keeps it.        *)

LEMMA InitInv == Init => IInv
<1> SUFFICES ASSUME Init PROVE IInv
  OBVIOUS
<1>1. NoRepair \in Repairs /\ Stop \in Decisions /\ Absent \in Standing(Irs)
      /\ Absent \in Standing(Sources) /\ Absent \in Standing(Binaries)
  BY RoutesType DEF NoRepair, Repairs, Strategies, Standing
<1>2. TypeOK
  BY <1>1, ConductorAssumption DEF Init, TypeOK, Compile
<1> QED BY <1>2 DEF Init, IInv, WorkStandsOnChain

(* What forgetting leaves of a run has its types.                          *)
LEMMA ForgetType ==
  ASSUME TypeOK, Forget
  PROVE  /\ cfg' \in Config /\ idx' \in 1 .. 5 /\ sub' \in 1 .. 4 /\ under' \subseteq Irs
         /\ attempts' \in [Produced -> 0 .. MaxAttempts]
         /\ repair' \in [Produced -> Repairs]
         /\ streak' \in 0 .. C2Threshold - 1 /\ ticket' \in Decisions
         /\ runs' \in 0 .. MaxRuns /\ misses' \in 0 .. C2Threshold
<1>1. NoRepair \in Repairs /\ Stop \in Decisions
  BY RoutesType DEF NoRepair, Repairs, Strategies
<1> QED BY <1>1, ConductorAssumption DEF Forget, TypeOK, Compile

(* A run that ends by anything but a pass keeps the invariant, whatever it *)
(* did to the store.                                                       *)
LEMMA EndInv ==
  ASSUME TypeOK, NEW st, End(st),
         st \in {"fail", "fail_closed", "dev_phase_rollback", "retry_budget_exhausted"},
         ir' \in Standing(Irs), src' \in [Irs -> Standing(Sources)],
         UNCHANGED <<bin, val>>, condemned' \subseteq Condemnations
  PROVE  IInv'
<1>1. Forget /\ pc' = "ending" /\ status' = st
  BY DEF End
<1>2. TypeOK'
  BY <1>1, ForgetType DEF TypeOK
<1> QED BY <1>1, <1>2 DEF IInv, WorkStandsOnChain

LEMMA StepInv == IInv /\ [Next]_vars => IInv'
<1> SUFFICES ASSUME IInv, [Next]_vars PROVE IInv'
  OBVIOUS
<1> USE DEF IInv
<1>0. /\ TypeOK /\ NoRepair \in Repairs /\ Stop \in Decisions
      /\ \A p \in Produced : p \in 0 .. 4
  BY RoutesType DEF NoRepair, Repairs, Strategies, Produced, Compile, Generate
<1>1. CASE StartRun
  <2>1. \A p \in Produced : Seed(p) \in Repairs
    BY <1>0, SeedType
  <2>2. TypeOK'
    BY <1>0, <1>1, <2>1, ConductorAssumption DEF StartRun, TypeOK, store, Compile
  <2>3. idx' = Compile
    BY <1>1 DEF StartRun
  <2> QED BY <1>1, <2>2, <2>3 DEF StartRun, WorkStandsOnChain, Certified, TypeOK, Config, Phases,
                                 Compile, Generate, Build, Validate
<1>2. CASE Skip
  <2>1. PICK p \in 1 .. 4 : p = idx /\ p <= cfg.until /\ Certified(p)
    BY <1>2 DEF Skip, TypeOK, Config, Phases, Compile, Validate
  <2>2. p = Generate => ir.body \in Irs
    BY <1>0, <2>1, CertifiedCases, ChainBodies
  <2>3. /\ idx' = p + 1 /\ pc' = pc /\ cfg' = cfg /\ status' = status /\ pc = "phase"
        /\ UNCHANGED store
    BY <1>2, <2>1 DEF Skip
  <2>4. TypeOK'
    BY <1>0, <1>2, <2>1, <2>2, <2>3, ConductorAssumption DEF Skip, TypeOK, store
  <2>5. Certified(p)'
    BY <2>1, <2>3, StoreKeepsChain
  <2>6. (p + 1) - 1 = p
    BY <2>1
  <2>7. WorkStandsOnChain'
    BY <2>3, <2>5, <2>6 DEF WorkStandsOnChain
  <2>8. cfg.until \in Nat
    BY DEF TypeOK, Config, Phases, Compile, Validate
  <2> QED BY <2>1, <2>3, <2>4, <2>7, <2>8
<1>3. CASE Refuse \/ Halt \/ OutOfScope \/ NoRoute \/ StopBeforePass
  BY <1>0, <1>3, EndInv DEF Refuse, Halt, OutOfScope, NoRoute, StopBeforePass, TypeOK, store
<1>4. CASE DevRollback \/ OverBudget
  <2>1. Target \in Produced
    BY <1>0, <1>4, TargetProduced DEF DevRollback, OverBudget, Exhausted
  <2> QED BY <1>0, <1>4, <2>1, CondemnType, EndInv DEF DevRollback, OverBudget
<1>5. CASE BeginBody
  <2>1. TypeOK'
    BY <1>0, <1>5 DEF BeginBody, TypeOK, store
  <2>2. Certified(idx - 1)'
    BY <1>5 DEF BeginBody, store, Certified, IrOk, SrcOk, BinOk, ValOk
  <2> QED BY <1>5, <2>1, <2>2 DEF BeginBody, WorkStandsOnChain
<1>6. CASE SubstepPass
  <2>1. TypeOK'
    BY <1>0, <1>6 DEF SubstepPass, TypeOK, store, SubstepsOf
  <2>2. Certified(idx - 1)'
    BY <1>6 DEF SubstepPass, WorkStandsOnChain, store, Certified, IrOk, SrcOk, BinOk, ValOk
  <2> QED BY <1>6, <2>1, <2>2 DEF SubstepPass, WorkStandsOnChain
<1>7. CASE PhasePass
  <2>1. idx \in Phases /\ Certified(idx - 1) /\ Stamp(idx)
    BY <1>7 DEF PhasePass, WorkStandsOnChain, TypeOK, Config, Phases, Compile, Generate,
                Build, Validate
  <2>2. PICK p \in Phases : p = idx /\ p <= cfg.until /\ idx' = p + 1
    BY <1>7, <2>1 DEF PhasePass
  <2>6. Certified(p)'
    BY <1>0, <2>1, <2>2, StampCertifies
  <2>7. (p + 1) - 1 = p /\ cfg.until \in Nat /\ p \in Nat
    BY <2>2 DEF TypeOK, Config, Phases, Compile, Validate
  <2>3. idx = Generate => ir.body \in Irs
    BY <1>0, <2>1, CertifiedCases, ChainBodies DEF Compile, Generate
  <2>4. condemned' \subseteq condemned
    BY <1>7 DEF PhasePass
  <2>5. TypeOK'
    BY <1>0, <1>7, <2>1, <2>3, <2>4, StampType, ConductorAssumption
       DEF PhasePass, TypeOK, Phases, Compile, Generate, Build, Validate
  <2>8. WorkStandsOnChain'
    BY <2>2, <2>6, <2>7 DEF WorkStandsOnChain
  <2> QED BY <1>7, <2>2, <2>5, <2>7, <2>8 DEF PhasePass
<1>8. CASE Fail \/ FailPredicate \/ FailNoVerdict \/ FailRunnerGap \/ Diagnose
  <2>1. idx \in Phases /\ ticket \in Decisions /\ UNCHANGED store
    BY <1>8 DEF Fail, FailPredicate, FailNoVerdict, FailRunnerGap, Diagnose, Executing,
                TypeOK, Config, Phases, Compile, Generate, Build, Validate
  <2>2. ticket' \in Decisions
    BY <1>0, <1>8, <2>1, RoutesType, DirectedType
       DEF Fail, FailPredicate, FailNoVerdict, FailRunnerGap, Diagnose, TypeOK, Decisions
  <2>3. streak' \in 0 .. C2Threshold - 1 /\ misses' \in 0 .. C2Threshold
    BY <1>8, ConductorAssumption
       DEF Fail, FailPredicate, FailNoVerdict, FailRunnerGap, Diagnose, TypeOK, CountReached
  <2>4. TypeOK'
    BY <1>0, <1>8, <2>1, <2>2, <2>3
       DEF Fail, FailPredicate, FailNoVerdict, FailRunnerGap, Diagnose, TypeOK, store, Executing
  <2>5. Certified(idx - 1)'
    BY <1>8, <2>1 DEF Fail, FailPredicate, FailNoVerdict, FailRunnerGap, Diagnose, Executing,
                WorkStandsOnChain, store, Certified, IrOk, SrcOk, BinOk, ValOk
  <2> QED BY <1>8, <2>4, <2>5 DEF Fail, FailPredicate, FailNoVerdict, FailRunnerGap, Diagnose,
                Executing, WorkStandsOnChain
<1>9. CASE RepairOwn \/ ReopenUpstream
  <2>1. Target \in Produced /\ Target <= idx /\ pc = "decided"
    BY <1>0, <1>9, TargetProduced DEF RepairOwn, ReopenUpstream, Rollback, InRun, Routing, TypeOK, Produced, Compile, Generate
  <2>2. Condemn(Target) /\ Charge /\ ~Exhausted
    BY <1>9 DEF RepairOwn, ReopenUpstream
  <2>3. Certified(Target - 1)
    BY <1>0, <2>1, CertifiedCases DEF WorkStandsOnChain, TypeOK, Produced, Certified, IrOk, SrcOk, BinOk, ValOk,
       Compile, Generate, Build, Validate
  <2>4. PICK t \in Produced : t = Target /\ t <= idx /\ Certified(t - 1)
    BY <2>1, <2>3
  <2>8. Certified(t - 1)'
    BY <2>2, <2>4, RevokeKeepsUpstream DEF Condemn
  <2>9. idx' = t /\ pc' = "phase" /\ cfg' = cfg
    BY <1>9, <2>4 DEF RepairOwn, ReopenUpstream
  <2>10. t <= cfg.until + 1
    BY <2>1, <2>4 DEF TypeOK, Config, Phases, Produced, Compile, Generate, Validate
  <2>5. attempts' \in [Produced -> 0 .. MaxAttempts]
    BY <2>1, <2>2, ConductorAssumption DEF Charge, Exhausted, TypeOK
  <2>6. Handed \in Repairs
    <3>1. KeyOf(Target) \in Irs \cup {"spec"} \/ ~Rollback
      <4>1. CASE Target = Compile
        BY <4>1 DEF KeyOf
      <4>2. CASE Target = Generate /\ Rollback
        <5>1. IrOk
          BY <1>0, <2>1, <4>2, CertifiedCases DEF Rollback, WorkStandsOnChain, TypeOK, Certified,
             SrcOk, BinOk, ValOk, Compile, Generate, Build, Validate
        <5> QED BY <1>0, <4>2, <5>1, ChainBodies DEF KeyOf, Compile, Generate
      <4> QED BY <2>1, <4>1, <4>2 DEF Produced
    <3> QED BY <1>0, <2>1, <3>1 DEF Handed, Repairs, TypeOK, Decisions
  <2>7. TypeOK'
    BY <1>0, <1>9, <2>1, <2>2, <2>5, <2>6, CondemnType
       DEF RepairOwn, ReopenUpstream, TypeOK, Produced, Compile, Generate
  <2>11. WorkStandsOnChain'
    BY <2>8, <2>9 DEF WorkStandsOnChain
  <2> QED BY <2>7, <2>9, <2>10, <2>11
<1>10. CASE Finish
  <2>1. TypeOK'
    BY <1>0, <1>10, ForgetType DEF Finish, End, TypeOK, store
  <2>2. idx - 1 = cfg.until /\ Certified(cfg.until)
    BY <1>10 DEF Finish, WorkStandsOnChain, TypeOK, Config, Phases, Compile, Validate
  <2>3. Certified(cfg.until)'
    BY <1>10, <2>2 DEF Finish, End, Forget, store, Certified, IrOk, SrcOk, BinOk, ValOk
  <2> QED BY <1>10, <2>1, <2>3 DEF Finish, End, WorkStandsOnChain
<1>11. CASE Record \/ Crash
  <2>1. TypeOK'
    BY <1>0, <1>11, ForgetType DEF Record, Crash, TypeOK, store, run
  <2> QED BY <1>11, <2>1 DEF Record, Crash, WorkStandsOnChain
<1>12. CASE OperatorRevoke
  <2>1. PICK sev \in Grades \cup {"none"}, strat \in Strategies, found \in BOOLEAN :
          LET mark == Revocation(sev, strat, found) IN
           \/ /\ IrOk /\ ir' = mark /\ UNCHANGED <<src, bin, val>>
              /\ Note(Compile, {"spec"}, mark)
           \/ /\ SrcOk /\ src' = [src EXCEPT ![ir.body] = mark] /\ UNCHANGED <<ir, bin, val>>
              /\ Note(Generate, {ir.body}, mark)
           \/ /\ BinOk /\ bin' = [bin EXCEPT ![src[ir.body].body] = mark]
              /\ UNCHANGED <<ir, src, val, condemned>>
           \/ /\ ValOk /\ val' = val \ {<<ir.body, bin[src[ir.body].body].body>>}
              /\ UNCHANGED <<ir, src, bin, condemned>>
    BY <1>12 DEF OperatorRevoke
  <2> DEFINE mark == Revocation(sev, strat, found)
  <2>2. mark \in Marks
    BY MarkType, ConductorAssumption DEF Severities
  <2>3. /\ IrOk => ir.body \in Irs
        /\ SrcOk => ir.body \in Irs
    BY <1>0, ChainBodies
  <2> HIDE DEF mark
  <2>4. /\ ir' \in Standing(Irs) /\ src' \in [Irs -> Standing(Sources)]
        /\ bin' \in [Sources -> Standing(Binaries)] /\ val' \subseteq Irs \X Binaries
    BY <1>0, <2>1, <2>2 DEF TypeOK, Standing, mark
  <2>5. condemned' \subseteq Condemnations
    <3>1. Compile \in Produced /\ Generate \in Produced
      BY DEF Produced
    <3>2. CASE condemned' = condemned
      BY <1>0, <3>2 DEF TypeOK
    <3>3. CASE Note(Compile, {"spec"}, mark)
      BY <1>0, <3>1, <3>3, NoteType
    <3>4. CASE SrcOk /\ Note(Generate, {ir.body}, mark)
      BY <1>0, <2>3, <3>1, <3>4, NoteType
    <3> QED BY <2>1, <3>2, <3>3, <3>4 DEF mark
  <2>6. TypeOK'
    BY <1>0, <1>12, <2>4, <2>5 DEF OperatorRevoke, TypeOK, run
  <2> QED BY <1>12, <2>6 DEF OperatorRevoke, WorkStandsOnChain
<1>13. CASE UNCHANGED vars
  <2>1. TypeOK'
    BY <1>0, <1>13 DEF vars, store, run, TypeOK
  <2> QED BY <1>13, <2>1 DEF vars, store, run, WorkStandsOnChain, Certified, IrOk, SrcOk, BinOk, ValOk
<1> QED
  BY <1>1, <1>2, <1>3, <1>4, <1>5, <1>6, <1>7, <1>8, <1>9, <1>10, <1>11, <1>12, <1>13
     DEF Next, Step, Quiet

-----------------------------------------------------------------------------
(* Every state of every behaviour has the types and stands on its chain.   *)
THEOREM Invariance == Spec => []IInv
BY InitInv, StepInv, PTL DEF Spec

(* The types and the budget hold (the charges _conduct_phases counts).     *)
THEOREM Typing == Spec => []TypeOK
<1>1. IInv => TypeOK
  BY DEF IInv
<1> QED BY <1>1, Invariance, PTL

(* No phase starts on, or is reached past, an upstream that was taken away *)
(* (the phase loop and the upstream reopening of _conduct_phases).         *)
THEOREM WorkOnChain == Spec => []WorkStandsOnChain
<1>1. IInv => WorkStandsOnChain
  BY DEF IInv
<1> QED BY <1>1, Invariance, PTL

(* A recorded pass stands on a certified chain (set_status("pass")).       *)
THEOREM PassOnChain == Spec => PassStandsOnChain
<1>1. IInv /\ [Next]_vars =>
        [pc = "ending" /\ pc' = "idle" /\ status' = "pass" => Certified(cfg.until)]_vars
  <2> SUFFICES ASSUME IInv, Next, pc = "ending", pc' = "idle", status' = "pass"
               PROVE  Certified(cfg.until)
    OBVIOUS
  <2>1. status = "pass"
    BY DEF Next, Step, StartRun, Skip, Refuse, BeginBody, SubstepPass, PhasePass, Fail,
           FailPredicate, FailNoVerdict, FailRunnerGap, Executing, Diagnose, Halt, OutOfScope,
           DevRollback, OverBudget, RepairOwn, NoRoute, ReopenUpstream, InRun, Routing, StopBeforePass,
           Finish, End, Record, Crash, OperatorRevoke, Quiet
  <2> QED BY <2>1 DEF IInv
<1> QED BY <1>1, Invariance, PTL DEF Spec, PassStandsOnChain
-----------------------------------------------------------------------------
(* The records name what a decision condemns.                              *)

LEMMA NamesInit == Init => NamesInv
BY DEF Init, NamesInv

(* What leaves the store alone certifies nothing.                          *)
LEMMA StoreKeepsUncertified ==
  ASSUME UNCHANGED store, NEW p, ~Certified(p)
  PROVE  ~Certified(p)'
BY DEF store, Certified, IrOk, SrcOk, BinOk, ValOk

LEMMA NamesStep == IInv /\ NamesInv /\ [Next]_vars => NamesInv'
<1> SUFFICES ASSUME IInv, NamesInv, [Next]_vars PROVE NamesInv'
  OBVIOUS
<1>0. TypeOK
  BY DEF IInv
<1>1. CASE StartRun
  BY <1>1 DEF StartRun, NamesInv, Compile, Generate
<1>2. CASE Skip
  BY <1>0, <1>2 DEF Skip, NamesInv, store, TypeOK, Generate
<1>3. CASE \/ Refuse \/ Halt \/ OutOfScope \/ NoRoute \/ DevRollback \/ OverBudget
           \/ StopBeforePass \/ Finish
  BY <1>3 DEF Refuse, Halt, OutOfScope, NoRoute, DevRollback, OverBudget, StopBeforePass,
              Finish, End, NamesInv
<1>4. CASE BeginBody
  <2>1. idx' = idx /\ cfg' = cfg /\ pc = "phase" /\ UNCHANGED store
    BY <1>4 DEF BeginBody
  <2>2. idx \notin cfg.rederive => ~Certified(idx)
    BY <1>4 DEF BeginBody
  <2>3. idx \notin cfg.rederive => ~Certified(idx)'
    BY <2>1, <2>2, StoreKeepsUncertified
  <2>4. idx > Generate => under' = {ir'.body}
    BY <1>4, <2>1 DEF BeginBody, NamesInv, store, Generate
  <2>5. (idx \notin cfg.rederive => ~Certified(idx))'
    BY <2>1, <2>3 DEF Certified
  <2> QED BY <2>1, <2>4, <2>5 DEF NamesInv
<1>5. CASE SubstepPass \/ Fail \/ FailPredicate \/ FailNoVerdict \/ FailRunnerGap \/ Diagnose
  <2>1. /\ idx' = idx /\ cfg' = cfg /\ under' = under /\ UNCHANGED store
        /\ pc \in {"body", "decided"}
    BY <1>5 DEF SubstepPass, Fail, FailPredicate, FailNoVerdict, FailRunnerGap, Diagnose, Executing
  <2>2. idx \notin cfg.rederive => ~Certified(idx)'
    BY <2>1, StoreKeepsUncertified DEF NamesInv
  <2> QED BY <2>1, <2>2 DEF NamesInv, store, Certified
<1>6. CASE PhasePass
  <2>1. idx \in Phases /\ pc = "body" /\ pc' = "phase" /\ idx' = idx + 1 /\ Stamp(idx)
    BY <1>6 DEF IInv, PhasePass, TypeOK, Config, Phases, Compile, Generate, Build, Validate
  <2>2. CASE idx = Compile
    BY <2>1, <2>2 DEF NamesInv, Compile, Generate
  <2>3. CASE idx # Compile
    <3>1. ir' = ir
      BY <2>1, <2>3 DEF Stamp
    <3>2. under' = {ir.body}
      BY <1>6, <2>1, <2>3 DEF PhasePass, NamesInv, Phases, Compile, Generate, Validate
    <3> QED BY <2>1, <3>1, <3>2 DEF NamesInv
  <2> QED BY <2>2, <2>3
<1>7. CASE RepairOwn \/ ReopenUpstream
  <2>1. Target \in Produced /\ pc' = "phase" /\ idx' = Target
    BY <1>0, <1>7, TargetProduced DEF RepairOwn, ReopenUpstream
  <2>2. ~(idx' > Generate)
    BY <2>1 DEF Produced, Compile, Generate
  <2> QED BY <2>1, <2>2 DEF NamesInv
<1>8. CASE Record \/ Crash \/ OperatorRevoke
  BY <1>8 DEF Record, Crash, OperatorRevoke, NamesInv
<1>9. CASE UNCHANGED vars
  BY <1>9 DEF vars, store, run, NamesInv, Certified, IrOk, SrcOk, BinOk, ValOk
<1> QED BY <1>1, <1>2, <1>3, <1>4, <1>5, <1>6, <1>7, <1>8, <1>9 DEF Next, Step, Quiet

(* A decision against a certified phase reaches the output it stands on,   *)
(* unless the phase was forced and has failed: the refusal to go on with a *)
(* lost revocation (RevocationNotLandedError) is never needed.             *)
THEOREM DecisionsLand == Spec => []DecisionLands
<1>1. IInv /\ NamesInv => DecisionLands
  <2> SUFFICES ASSUME IInv, NamesInv, pc = "decided", Target \in Produced, Target <= idx,
                      Certified(Target), ~(Target = idx /\ idx \in cfg.rederive)
               PROVE  KeyOf(Target) \in Hits(Target)
    BY DEF DecisionLands
  <2>1. PICK t \in Produced : t = Target
    OBVIOUS
  <2>2. t < idx
    BY <2>1 DEF NamesInv, IInv, TypeOK, Produced, Compile, Generate
  <2>3. CASE t = Compile
    BY <2>1, <2>2, <2>3 DEF KeyOf, Hits
  <2>4. CASE t = Generate
    BY <2>1, <2>2, <2>4 DEF KeyOf, Hits, NamesInv, IInv, TypeOK, Compile, Generate
  <2> QED BY <2>3, <2>4 DEF Produced
<1>2. Spec => []NamesInv
  BY NamesInit, NamesStep, Invariance, PTL DEF Spec
<1> QED BY <1>1, <1>2, Invariance, PTL

-----------------------------------------------------------------------------
(* What stands condemned.                                                  *)

LEMMA CondemnedInit == Init => CondemnedInv
BY DEF Init, CondemnedInv, Shadowed, Barred, Graded, Swept, Stop, Decision, NoPhase

(* Every decision a failure or a diagnosis makes is graded.                *)
IsGraded(t) == /\ t.strategy = "reuse" => t.severity # "critical"
               /\ t.strategy = "none" /\ t.target # NoPhase => t.severity = "none"

LEMMA RoutesGraded ==
  /\ IsGraded(Stop) /\ IsGraded(Reopen(Compile))
  /\ \A p \in Phases, s \in 1 .. 4 : \A t \in Routes(p, s) : IsGraded(t)
  /\ \A t \in PredicateRoutes : IsGraded(t)
  /\ \A t \in NoVerdictRoutes : IsGraded(t)
<1>1. \A action, target, strat, found : IsGraded(Decision(action, target, strat, found))
  BY DEF IsGraded, Decision
<1>2. \A t, st, f : IsGraded(Stop) /\ IsGraded(Retry(t, st, f)) /\ IsGraded(Reopen(t))
                    /\ IsGraded(Escalate(f)) /\ IsGraded(Judgement(f))
  BY <1>1 DEF Stop, Retry, Reopen, Escalate, Judgement
<1>3. ASSUME NEW p \in Phases, NEW s \in 1 .. 4, NEW t \in Routes(p, s) PROVE IsGraded(t)
  BY <1>2 DEF Routes, ProducerRoutes, CheckerRoutes, ReviewRoutes, BuildRoutes, JudgeRoutes
<1> QED BY <1>2, <1>3 DEF PredicateRoutes, NoVerdictRoutes

LEMMA DirectedGraded == \A f : \A t \in Directed(f) : IsGraded(t)
BY RoutesGraded DEF Directed, IsGraded, SeverityStrategy, Strategies

(* A repair seeded from the artifact resumes nothing a decision discarded. *)
LEMMA SeedHonours ==
  ASSUME TypeOK, CondemnedInv, NEW c \in condemned, c.discard
  PROVE  Seed(c.phase).session # c.key
<1>1. c \in Condemnations
  BY DEF TypeOK
<1>2. c.key \notin {"attempt", "none"}
  BY <1>1, ConductorAssumption DEF CondemnedInv, Shadowed
<1>3. Discards(MarkOf(c))
  BY DEF CondemnedInv, Shadowed
<1>4. CASE c.phase = Compile
  BY <1>2, <1>3, <1>4 DEF Seed, Refusal, MarkOf, Discards, NoRepair
<1>5. CASE c.phase = Generate
  <2>1. IrOk /\ c.key = ir.body => Refusal(Generate) = MarkOf(c)
    BY <1>5 DEF Refusal, MarkOf, Compile, Generate
  <2> QED BY <1>2, <1>3, <1>5, <2>1 DEF Seed, KeyOf, Discards, NoRepair, Compile, Generate
<1> QED BY <1>1, <1>4, <1>5 DEF Condemnations, Produced

(* Condemning a phase's output shadows it, and what else was shadowed      *)
(* stays so.                                                               *)
LEMMA CondemnShadows ==
  ASSUME TypeOK, CondemnedInv, NEW p \in Produced, Condemn(p)
  PROVE  /\ Shadowed'
         /\ \A c \in condemned' :
              \/ c \in condemned /\ ~(c.phase = p /\ c.key \in Hits(p))
              \/ c.phase = p /\ c.key \in Hits(p) /\ c.discard = Discards(TicketMark)
<1>1. condemned' = {c \in condemned : ~(c.phase = p /\ c.key \in Hits(p))}
                     \cup {[phase |-> p, key |-> k, discard |-> Discards(TicketMark)] : k \in Hits(p)}
  BY DEF Condemn, Note
<1>2. \A c \in condemned' :
        \/ c \in condemned /\ ~(c.phase = p /\ c.key \in Hits(p))
        \/ c.phase = p /\ c.key \in Hits(p) /\ c.discard = Discards(TicketMark)
  BY <1>1
<1>3. /\ ir' = IF p = Compile /\ Hits(p) # {} THEN TicketMark ELSE ir
      /\ src' = [i \in Irs |-> IF p = Generate /\ i \in Hits(p) THEN TicketMark ELSE src[i]]
  BY DEF Condemn, Revoke
<1>4. TicketMark.st = "revoked"
  BY DEF TicketMark, Revocation
<1>5. Hits(Compile) \subseteq {"spec"} /\ Hits(Generate) \subseteq Irs
  BY DEF Hits, TypeOK, Compile, Generate
<1>6. ASSUME NEW c \in condemned'
      PROVE  /\ IF c.phase = Compile THEN c.key = "spec" ELSE c.key \in Irs
             /\ (MarkOf(c))'.st = "revoked" /\ Discards((MarkOf(c))') = c.discard
  <2>1. CASE c \in condemned /\ ~(c.phase = p /\ c.key \in Hits(p))
    <3>1. /\ IF c.phase = Compile THEN c.key = "spec" ELSE c.key \in Irs
          /\ MarkOf(c).st = "revoked" /\ Discards(MarkOf(c)) = c.discard
      BY <2>1 DEF CondemnedInv, Shadowed
    <3>2. c.phase = Compile => ir' = ir
      BY <1>3, <1>5, <2>1, <3>1
    <3>3. c.phase # Compile => src'[c.key] = src[c.key]
      <4>1. c.phase # Compile => c.phase = Generate
        BY <2>1 DEF TypeOK, Condemnations, Produced
      <4> QED BY <1>3, <2>1, <3>1, <4>1
    <3>4. (MarkOf(c))' = MarkOf(c)
      BY <3>2, <3>3 DEF MarkOf
    <3> QED BY <3>1, <3>4
  <2>2. CASE c.phase = p /\ c.key \in Hits(p) /\ c.discard = Discards(TicketMark)
    <3>1. (MarkOf(c))' = TicketMark
      BY <1>3, <1>5, <2>2 DEF MarkOf, Produced, Compile, Generate
    <3>2. IF c.phase = Compile THEN c.key = "spec" ELSE c.key \in Irs
      BY <1>5, <2>2 DEF Produced
    <3> QED BY <1>4, <2>2, <3>1, <3>2
  <2> QED BY <1>2, <2>1, <2>2
<1> QED BY <1>2, <1>6 DEF Shadowed

(* Nothing is resumed once the run's repairs are forgotten.                *)
LEMMA SweptBars ==
  ASSUME TypeOK', Shadowed', repair' = [p \in Produced |-> NoRepair]
  PROVE  Barred'
<1> SUFFICES ASSUME NEW c \in condemned' PROVE repair'[c.phase].session # c.key
  BY DEF Barred
<1>1. c.phase \in Produced
  BY DEF TypeOK, Condemnations
<1>2. c.key # "none"
  BY ConductorAssumption DEF Shadowed
<1> QED BY <1>1, <1>2 DEF NoRepair

(* So does an operator's.                                                  *)
LEMMA OperatorShadows ==
  ASSUME TypeOK, CondemnedInv, OperatorRevoke
  PROVE  Shadowed'
<1>1. PICK sev \in Severities, strat \in Strategies, found \in BOOLEAN :
        LET mark == Revocation(sev, strat, found) IN
          \/ /\ IrOk /\ ir' = mark /\ UNCHANGED <<src, bin, val>>
             /\ Note(Compile, {"spec"}, mark)
          \/ /\ SrcOk /\ src' = [src EXCEPT ![ir.body] = mark] /\ UNCHANGED <<ir, bin, val>>
             /\ Note(Generate, {ir.body}, mark)
          \/ UNCHANGED <<ir, src, condemned>>
  BY ConductorAssumption DEF OperatorRevoke, Severities
<1> DEFINE mark == Revocation(sev, strat, found)
<1>2. mark.st = "revoked"
  BY DEF Revocation
<1>3. CASE IrOk /\ ir' = mark /\ src' = src /\ Note(Compile, {"spec"}, mark)
  <2>1. ASSUME NEW c \in condemned', c.phase = Compile
        PROVE  c.key = "spec" /\ c.discard = Discards(mark)
    BY <1>3, <2>1 DEF Note, CondemnedInv, Shadowed
  <2>2. ASSUME NEW c \in condemned', c.phase # Compile PROVE c \in condemned
    BY <1>3, <2>2 DEF Note
  <2> QED BY <1>2, <1>3, <2>1, <2>2 DEF CondemnedInv, Shadowed, MarkOf
<1>4. CASE /\ SrcOk /\ src' = [src EXCEPT ![ir.body] = mark] /\ ir' = ir
           /\ Note(Generate, {ir.body}, mark)
  <2>1. ir.body \in Irs
    BY <1>4, ChainBodies
  <2>2. ASSUME NEW c \in condemned', ~(c.phase = Generate /\ c.key = ir.body)
        PROVE  c \in condemned /\ (MarkOf(c))' = MarkOf(c)
    <3>1. c \in condemned
      BY <1>4, <2>2 DEF Note
    <3> QED BY <1>4, <2>2, <3>1
            DEF MarkOf, TypeOK, CondemnedInv, Shadowed, Condemnations, Produced
  <2>3. ASSUME NEW c \in condemned', c.phase = Generate, c.key = ir.body
        PROVE  (MarkOf(c))' = mark /\ c.discard = Discards(mark)
    BY <1>4, <2>1, <2>3 DEF Note, MarkOf, TypeOK, Compile, Generate
  <2> QED BY <1>2, <2>1, <2>2, <2>3 DEF CondemnedInv, Shadowed, Compile, Generate
<1>5. CASE UNCHANGED <<ir, src, condemned>>
  BY <1>5 DEF CondemnedInv, Shadowed, MarkOf
<1> QED BY <1>1, <1>3, <1>4, <1>5

LEMMA CondemnedStep == IInv /\ NamesInv /\ CondemnedInv /\ [Next]_vars => CondemnedInv'
<1> SUFFICES ASSUME IInv, NamesInv, CondemnedInv, [Next]_vars PROVE CondemnedInv'
  OBVIOUS
<1>0. TypeOK /\ TypeOK'
  BY StepInv DEF IInv
<1>a. IsGraded(ticket) /\ (IsGraded(ticket') => Graded')
  BY DEF CondemnedInv, Graded, IsGraded
<1>b. UNCHANGED store /\ condemned' = condemned => Shadowed'
  BY DEF CondemnedInv, Shadowed, MarkOf, store
<1>c. repair' = repair /\ condemned' \subseteq condemned => Barred'
  BY DEF CondemnedInv, Barred
<1>d. Forget /\ Shadowed' => CondemnedInv'
  BY <1>0, <1>a, SweptBars, RoutesGraded DEF Forget, CondemnedInv, Swept
<1>1. CASE StartRun
  <2>1. UNCHANGED <<store, ticket, condemned>> /\ pc' = "phase"
    BY <1>1 DEF StartRun
  <2>2. \A p \in Produced : repair'[p] \in {Seed(p), NoRepair}
    BY <1>1 DEF StartRun
  <2>3. \A c \in condemned : c.phase \in Produced /\ c.key # "none"
    BY <1>0, ConductorAssumption DEF CondemnedInv, Shadowed, TypeOK, Condemnations
  <2>4. Barred'
    BY <1>0, <2>1, <2>2, <2>3, SeedHonours DEF Barred, NoRepair
  <2> QED BY <1>a, <1>b, <2>1, <2>4 DEF CondemnedInv, Swept
<1>2. CASE Skip \/ BeginBody
  <2>1. UNCHANGED <<store, ticket, condemned>> /\ pc' \in {"phase", "body"}
    BY <1>2 DEF Skip, BeginBody
  <2>2. \A p \in Produced : repair'[p] \in {repair[p], NoRepair}
    BY <1>0, <1>2 DEF Skip, BeginBody, TypeOK
  <2>3. \A c \in condemned : c.phase \in Produced /\ c.key # "none"
    BY <1>0, ConductorAssumption DEF CondemnedInv, Shadowed, TypeOK, Condemnations
  <2>4. Barred'
    BY <2>1, <2>2, <2>3 DEF CondemnedInv, Barred, NoRepair
  <2> QED BY <1>a, <1>b, <2>1, <2>4 DEF CondemnedInv, Swept
<1>3. CASE Refuse \/ Halt \/ OutOfScope \/ NoRoute \/ StopBeforePass \/ Finish \/ Crash
  <2>1. UNCHANGED <<store, condemned>> /\ Forget
    BY <1>3 DEF Refuse, Halt, OutOfScope, NoRoute, StopBeforePass, Finish, Crash, End
  <2> QED BY <1>b, <1>d, <2>1
<1>4. CASE DevRollback \/ OverBudget
  <2>1. Target \in Produced
    BY <1>0, <1>4, TargetProduced DEF DevRollback, OverBudget, Exhausted
  <2>2. Condemn(Target) /\ Forget
    BY <1>4 DEF DevRollback, OverBudget, End
  <2>3. Shadowed'
    BY <1>0, <2>1, <2>2, CondemnShadows
  <2> QED BY <1>d, <2>2, <2>3
<1>5. CASE SubstepPass \/ Record
  <2>1. /\ UNCHANGED <<store, ticket, repair, condemned>>
        /\ pc' \in {"idle", "ending"} => pc \in {"idle", "ending"}
    BY <1>5 DEF SubstepPass, Record, run
  <2> QED BY <1>a, <1>b, <1>c, <2>1 DEF CondemnedInv, Swept
<1>6. CASE PhasePass
  <2>1. /\ Stamp(idx) /\ UNCHANGED <<repair, ticket>> /\ pc = "body" /\ pc' = "phase"
        /\ condemned' = IF idx \in Produced
                        THEN {c \in condemned : ~(c.phase = idx /\ c.key = KeyOf(idx))}
                        ELSE condemned
    BY <1>6 DEF PhasePass
  <2>2. condemned' \subseteq condemned
    BY <2>1
  <2>3. ASSUME NEW c \in condemned' PROVE (MarkOf(c))' = MarkOf(c)
    <3>1. c \in condemned /\ c.phase \in Produced
      BY <1>0, <2>2 DEF TypeOK, Condemnations
    <3>2. c.phase = Compile => c.key = "spec"
      BY <3>1 DEF CondemnedInv, Shadowed
    <3>3. c.phase = Compile => ir' = ir
      BY <2>1, <3>1, <3>2 DEF Stamp, KeyOf
    <3>4. ASSUME c.phase = Generate PROVE src'[c.key] = src[c.key]
      <4>1. c.key \in Irs
        BY <3>1, <3>4 DEF CondemnedInv, Shadowed, Compile, Generate
      <4>2. CASE idx = Generate
        <5>1. c.key # ir.body
          BY <2>1, <3>4, <4>2 DEF KeyOf, Produced, Compile, Generate
        <5>2. PICK o \in Outputs(Sources) : src' = [src EXCEPT ![ir.body] = o]
          BY <2>1, <4>2 DEF Stamp, Compile, Generate, Build, Validate
        <5> QED BY <1>0, <4>1, <5>1, <5>2 DEF TypeOK
      <4>3. CASE idx # Generate
        BY <2>1, <4>3 DEF Stamp
      <4> QED BY <4>2, <4>3
    <3> QED BY <3>1, <3>3, <3>4 DEF MarkOf, Produced
  <2>4. Shadowed'
    BY <2>2, <2>3 DEF CondemnedInv, Shadowed
  <2> QED BY <1>a, <1>c, <2>1, <2>2, <2>4 DEF CondemnedInv, Swept
<1>7. CASE Fail \/ FailPredicate \/ FailNoVerdict \/ FailRunnerGap \/ Diagnose
  <2>1. UNCHANGED <<store, repair, condemned>> /\ pc' = "decided"
    BY <1>7 DEF Fail, FailPredicate, FailNoVerdict, FailRunnerGap, Diagnose
  <2>2. Fail => idx \in Phases
    BY DEF IInv, Fail, TypeOK, Config, Phases, Compile, Generate, Build, Validate
  <2>3. IsGraded(ticket')
    BY <1>0, <1>7, <2>2, RoutesGraded, DirectedGraded
       DEF Fail, FailPredicate, FailNoVerdict, FailRunnerGap, Diagnose, TypeOK
  <2> QED BY <1>a, <1>b, <1>c, <2>1, <2>3 DEF CondemnedInv, Swept
<1>8. CASE RepairOwn
  <2>1. /\ Target = idx /\ idx \in Produced /\ Condemn(idx) /\ pc' = "phase" /\ ticket' = Stop
        /\ repair' = [repair EXCEPT ![idx] = Handed]
    BY <1>8 DEF RepairOwn
  <2>2. Handed.session \in {"attempt", "none"}
    BY <1>0, <2>1 DEF Handed, Rollback, NoRepair, TypeOK
  <2>3. Shadowed'
    BY <1>0, <2>1, CondemnShadows
  <2>4. ASSUME NEW c \in condemned', c.discard PROVE repair'[c.phase].session # c.key
    <3>1. c.phase \in Produced /\ c.key \notin {"attempt", "none"}
      BY <1>0, <2>3, ConductorAssumption DEF Shadowed, TypeOK, Condemnations
    <3>2. CASE c.phase = idx
      BY <1>0, <2>1, <2>2, <3>1, <3>2 DEF TypeOK
    <3>3. CASE c.phase # idx
      <4>1. c \in condemned
        BY <1>0, <2>1, <3>3, CondemnShadows
      <4> QED BY <1>0, <2>1, <2>4, <3>1, <3>3, <4>1 DEF CondemnedInv, Barred, TypeOK
    <3> QED BY <3>2, <3>3
  <2> QED BY <1>a, <2>1, <2>3, <2>4, RoutesGraded DEF CondemnedInv, Barred, Swept
<1>9. CASE ReopenUpstream
  <2>1. /\ Rollback /\ Condemn(Target) /\ pc = "decided" /\ pc' = "phase" /\ ticket' = Stop
        /\ repair' = IF ticket.strategy = "none" THEN repair
                     ELSE [repair EXCEPT ![Target] = Handed]
    BY <1>9 DEF ReopenUpstream, InRun, Routing
  <2>2. Target \in Produced
    BY <1>0, <2>1, TargetProduced
  <2>3. PICK p \in Produced : p = Target
    BY <2>2
  <2>4. p < idx
    BY <2>1, <2>3 DEF Rollback
  <2>5. Shadowed'
    BY <1>0, <2>1, <2>3, CondemnShadows
  <2>6. Hits(p) = {KeyOf(p)}
    BY <1>0, <2>1, <2>3, <2>4 DEF Hits, KeyOf, NamesInv, TypeOK, Produced, Compile, Generate
  <2>7. ticket.target # NoPhase
    BY <1>0, <2>1 DEF Rollback, Target, TypeOK
  <2>8. ASSUME NEW c \in condemned', c.discard PROVE repair'[c.phase].session # c.key
    <3>1. c.phase \in Produced /\ c.key \notin {"attempt", "none"}
      BY <1>0, <2>5, ConductorAssumption DEF Shadowed, TypeOK, Condemnations
    <3>2. CASE c.phase = p /\ c.key = KeyOf(p)
      <4>1. Discards(TicketMark)
        BY <1>0, <2>1, <2>3, <2>6, <2>8, <3>2, CondemnShadows
      <4>2. ticket.strategy \notin {"none", "reuse"}
        BY <1>a, <2>7, <4>1 DEF IsGraded, Discards, TicketMark, Revocation, SeverityStrategy
      <4>3. repair'[p].session = "none"
        BY <1>0, <2>1, <2>3, <4>2 DEF Handed, TypeOK
      <4> QED BY <3>1, <3>2, <4>3
    <3>3. CASE c.phase = p /\ c.key # KeyOf(p)
      <4>1. c \in condemned
        BY <1>0, <2>1, <2>3, <2>6, <3>3, CondemnShadows
      <4>2. repair'[p] \in {repair[p], Handed}
        BY <1>0, <2>1, <2>3 DEF TypeOK
      <4>3. Handed.session \in {"none", "attempt", KeyOf(p)}
        BY <2>3 DEF Handed, NoRepair
      <4> QED BY <2>8, <3>1, <3>3, <4>1, <4>2, <4>3 DEF CondemnedInv, Barred
    <3>4. CASE c.phase # p
      <4>1. c \in condemned
        BY <1>0, <2>1, <2>3, <3>4, CondemnShadows
      <4> QED BY <1>0, <2>1, <2>3, <2>8, <3>1, <3>4, <4>1 DEF CondemnedInv, Barred, TypeOK
    <3> QED BY <3>2, <3>3, <3>4
  <2> QED BY <1>a, <2>1, <2>5, <2>8, RoutesGraded DEF CondemnedInv, Barred, Swept
<1>10. CASE OperatorRevoke
  <2>1. UNCHANGED <<repair, ticket>> /\ pc = "idle" /\ pc' = "idle"
    BY <1>10 DEF OperatorRevoke, run
  <2>2. Shadowed'
    BY <1>0, <1>10, OperatorShadows
  <2> QED BY <1>0, <1>a, <2>1, <2>2, SweptBars DEF CondemnedInv, Swept
<1>11. CASE UNCHANGED vars
  BY <1>11 DEF vars, store, run, CondemnedInv, Shadowed, Barred, Graded, Swept, MarkOf
<1> QED BY <1>1, <1>2, <1>3, <1>4, <1>5, <1>6, <1>7, <1>8, <1>9, <1>10, <1>11
        DEF Next, Step, Quiet

(* An output that a decision condemned is not adopted before it has been   *)
(* re-derived, in this run or a later one: the decision reached the        *)
(* artifact before the run ended (_revoke_and_reset_or_terminalize).       *)
THEOREM CondemnedStaysOut == Spec => CondemnedIsNotAdopted
<1>1. IInv /\ CondemnedInv /\ [Next]_vars =>
        [pc = "phase" /\ pc' = "phase" /\ idx \in Produced /\ idx' = idx + 1
           => ~ \E c \in condemned : c.phase = idx /\ c.key = KeyOf(idx)]_vars
  <2> SUFFICES ASSUME IInv, CondemnedInv, Next, pc = "phase", pc' = "phase",
                      idx \in Produced, NEW c \in condemned,
                      c.phase = idx, c.key = KeyOf(idx)
               PROVE  FALSE
    OBVIOUS
  <2>1. Skip
    BY DEF Next, Step, StartRun, Skip, Refuse, BeginBody, SubstepPass, PhasePass, Fail,
           FailPredicate, FailNoVerdict, FailRunnerGap, Executing, Diagnose, Halt, OutOfScope,
           DevRollback, OverBudget, RepairOwn, NoRoute, ReopenUpstream, InRun, Routing,
           StopBeforePass, Finish, End, Record, Crash, OperatorRevoke, Quiet
  <2>2. Certified(idx)
    BY <2>1 DEF Skip
  <2>3. MarkOf(c).st = "pass"
    BY <2>2, CertifiedCases DEF MarkOf, KeyOf, SrcOk, IrOk, Produced, Compile, Generate
  <2> QED BY <2>3 DEF CondemnedInv, Shadowed
<1>2. Spec => []CondemnedInv
  BY CondemnedInit, CondemnedStep, NamesInit, NamesStep, Invariance, PTL DEF Spec
<1> QED BY <1>1, <1>2, Invariance, PTL DEF Spec, CondemnedIsNotAdopted

(* A decision that discarded a producer's session is never carried out by  *)
(* resuming it, in the run that decided or in one that reads the decision  *)
(* back (_seed_repairs_from_revocations, resolve_severity_directive).      *)
THEOREM DiscardsAreHonoured == Spec => DiscardIsHonoured
<1>1. CondemnedInv /\ [Next]_vars =>
        [pc = "phase" /\ pc' = "body" /\ idx \in Produced
           => ~ \E c \in condemned :
                  c.phase = idx /\ c.discard /\ repair[idx].session = c.key]_vars
  BY DEF CondemnedInv, Barred
<1>2. Spec => []CondemnedInv
  BY CondemnedInit, CondemnedStep, NamesInit, NamesStep, Invariance, PTL DEF Spec
<1> QED BY <1>1, <1>2, PTL DEF Spec, DiscardIsHonoured

-----------------------------------------------------------------------------
(* How long a run can last: a rank that every step of it lowers.  What is  *)
(* left of the two budgets weighs more than any place inside a pass of the *)
(* phases, as a repair or a reopening moves the run back.                  *)

Left == (MaxAttempts - attempts[Compile]) + (MaxAttempts - attempts[Generate])

Place == IF pc = "decided" THEN IF ticket.action = "escalate" THEN 3 ELSE 2
         ELSE IF pc = "phase" THEN 8 + 6 * (5 - idx)
         ELSE 8 - sub + 6 * (5 - idx)

RunRank == IF pc = "idle" THEN 0 ELSE IF pc = "ending" THEN 1 ELSE 33 * Left + Place

RankFacts ==
  /\ Left \in Nat /\ RunRank \in 0 .. 66 * MaxAttempts + 32
  /\ pc \in {"phase", "body", "decided"} => Place \in 2 .. 32 /\ RunRank = 33 * Left + Place
  /\ pc = "phase" => Place = 8 + 6 * (5 - idx)
  /\ pc = "body" => Place = 8 - sub + 6 * (5 - idx)
  /\ pc = "decided" => Place = IF ticket.action = "escalate" THEN 3 ELSE 2

LEMMA RankType == IInv => RankFacts
<1> SUFFICES ASSUME IInv PROVE RankFacts
  OBVIOUS
<1>1. /\ idx \in 1 .. 5 /\ sub \in 1 .. 4 /\ pc \in {"idle", "phase", "body", "decided", "ending"}
      /\ attempts[Compile] \in 0 .. MaxAttempts /\ attempts[Generate] \in 0 .. MaxAttempts
  BY DEF IInv, TypeOK, Produced
<1>2. pc = "body" => idx <= 4
  BY DEF IInv, TypeOK, Config, Phases, Compile, Validate
<1>3. MaxAttempts \in Nat
  BY ConductorAssumption
<1>4. Left \in 0 .. 2 * MaxAttempts
  BY <1>1, <1>3 DEF Left
<1>5. pc \in {"phase", "body", "decided"} => Place \in 2 .. 32
  BY <1>1, <1>2 DEF Place
<1>6. RunRank \in 0 .. 66 * MaxAttempts + 32
  BY <1>1, <1>3, <1>4, <1>5 DEF RunRank
<1> QED BY <1>1, <1>4, <1>5, <1>6 DEF RankFacts, RunRank, Place

(* A charge takes one off what is left, whatever the step makes of the     *)
(* place.                                                                  *)
LEMMA ChargeLowers ==
  ASSUME TypeOK, Target \in Produced, ~Exhausted, Charge
  PROVE  Left' = Left - 1
<1>1. /\ attempts \in [Produced -> 0 .. MaxAttempts] /\ MaxAttempts \in Nat
      /\ attempts' = [p \in Produced |-> IF p = Target THEN attempts[p] + 1 ELSE attempts[p]]
  BY ConductorAssumption DEF TypeOK, Charge
<1>2. /\ attempts[Compile] \in Nat /\ attempts[Generate] \in Nat
      /\ attempts'[Compile] = IF Compile = Target THEN attempts[Compile] + 1 ELSE attempts[Compile]
      /\ attempts'[Generate] = IF Generate = Target THEN attempts[Generate] + 1
                               ELSE attempts[Generate]
  BY <1>1 DEF Produced
<1>3. Target = Compile \/ Target = Generate
  BY DEF Produced
<1> QED BY <1>1, <1>2, <1>3 DEF Left, Compile, Generate

LEMMA StepLowers == IInv /\ IInv' /\ Step => RunRank' < RunRank
<1> SUFFICES ASSUME IInv, IInv', Step PROVE RunRank' < RunRank
  OBVIOUS
<1>f. RankFacts /\ RankFacts'
  BY RankType, PTL
<1>0. /\ TypeOK /\ idx \in 1 .. 5 /\ sub \in 1 .. 4 /\ idx' \in 1 .. 5 /\ sub' \in 1 .. 4
      /\ RunRank \in Nat /\ RunRank' \in Nat /\ Left \in Nat /\ Left' \in Nat
      /\ MaxAttempts \in Nat
  BY <1>f, ConductorAssumption DEF IInv, TypeOK, RankFacts
<1>a. /\ pc \in {"phase", "body", "decided"} => Place \in 2 .. 32 /\ RunRank = 33 * Left + Place
      /\ pc = "phase" => Place = 8 + 6 * (5 - idx)
      /\ pc = "body" => Place = 8 - sub + 6 * (5 - idx)
      /\ pc = "decided" => Place = IF ticket.action = "escalate" THEN 3 ELSE 2
  BY <1>f DEF RankFacts
<1>b. /\ pc' \in {"phase", "body", "decided"} =>
           Place' \in 2 .. 32 /\ RunRank' = 33 * Left' + Place'
      /\ pc' = "phase" => Place' = 8 + 6 * (5 - idx')
      /\ pc' = "body" => Place' = 8 - sub' + 6 * (5 - idx')
      /\ pc' = "decided" => Place' = IF ticket'.action = "escalate" THEN 3 ELSE 2
  BY <1>f DEF RankFacts
<1>c. attempts' = attempts => Left' = Left
  BY DEF Left
<1>d. ASSUME pc \in {"phase", "body", "decided"}, pc' = "ending" PROVE RunRank' < RunRank
  BY <1>0, <1>a, <1>d DEF RunRank
<1>1. CASE Skip \/ BeginBody \/ SubstepPass \/ PhasePass
  <2>1. /\ attempts' = attempts
        /\ \/ pc = "phase" /\ pc' = "phase" /\ idx' = idx + 1
           \/ pc = "phase" /\ pc' = "body" /\ idx' = idx /\ sub' = 1
           \/ pc = "body" /\ pc' = "body" /\ idx' = idx /\ sub' = sub + 1
           \/ pc = "body" /\ pc' = "phase" /\ idx' = idx + 1
    BY <1>1 DEF Skip, BeginBody, SubstepPass, PhasePass
  <2>2. Place' < Place
    BY <1>0, <1>a, <1>b, <2>1
  <2> QED BY <1>0, <1>a, <1>b, <1>c, <2>1, <2>2
<1>2. CASE Fail \/ FailPredicate \/ FailNoVerdict \/ FailRunnerGap
  <2>1. attempts' = attempts /\ pc = "body" /\ pc' = "decided"
    BY <1>2 DEF Fail, FailPredicate, FailNoVerdict, FailRunnerGap, Executing
  <2>2. idx <= 4
    BY <1>0, <2>1 DEF IInv, TypeOK, Config, Phases, Compile, Validate
  <2>3. Place' < Place
    BY <1>0, <1>a, <1>b, <2>1, <2>2
  <2> QED BY <1>0, <1>a, <1>b, <1>c, <2>1, <2>3
<1>3. CASE Diagnose
  <2>1. /\ attempts' = attempts /\ pc = "decided" /\ pc' = "decided"
        /\ ticket.action = "escalate" /\ ticket' \in Directed(ticket.findings)
    BY <1>3 DEF Diagnose
  <2>2. ticket'.action # "escalate"
    BY <2>1 DEF Directed, Stop, Decision
  <2> QED BY <1>0, <1>a, <1>b, <1>c, <2>1, <2>2
<1>4. CASE \/ Refuse \/ Halt \/ OutOfScope \/ DevRollback \/ OverBudget \/ NoRoute
           \/ StopBeforePass \/ Finish
  <2>1. pc \in {"phase", "body", "decided"} /\ pc' = "ending"
    BY <1>4 DEF Refuse, Halt, OutOfScope, DevRollback, OverBudget, NoRoute, StopBeforePass,
                Finish, InRun, Routing, End
  <2> QED BY <1>d, <2>1
<1>5. CASE RepairOwn \/ ReopenUpstream
  <2>1. pc = "decided" /\ pc' = "phase" /\ Charge /\ ~Exhausted /\ Target \in Produced
    BY <1>0, <1>5, TargetProduced DEF RepairOwn, ReopenUpstream, InRun, Routing
  <2>2. Left' = Left - 1
    BY <1>0, <2>1, ChargeLowers
  <2> QED BY <1>0, <1>a, <1>b, <2>1, <2>2
<1>6. CASE Record
  BY <1>6 DEF Record, RunRank
<1> QED BY <1>1, <1>2, <1>3, <1>4, <1>5, <1>6 DEF Step

(* The safety core of EveryRunEnds: each step of a run lowers a natural    *)
(* number that starts at most at 66 * MaxAttempts + 32, so a run takes no  *)
(* more steps than that, however failures, repairs, reopenings and skips   *)
(* follow one another (the loop of _conduct_phases).                       *)
THEOREM RunsRunDown ==
  Spec => /\ [](RunRank \in 0 .. 66 * MaxAttempts + 32)
          /\ [][Step => RunRank' < RunRank]_vars
<1>1. IInv => RunRank \in 0 .. 66 * MaxAttempts + 32
  BY RankType DEF RankFacts
<1>2. IInv /\ [Next]_vars => [Step => RunRank' < RunRank]_vars
  BY StepInv, StepLowers
<1> QED BY <1>1, <1>2, Invariance, PTL DEF Spec
=============================================================================
