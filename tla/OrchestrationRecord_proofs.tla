--------------------- MODULE OrchestrationRecord_proofs ---------------------
(***************************************************************************)
(* Proofs about the orchestration record, for every number of children,    *)
(* phases, faults and foreign changes.                                     *)
(***************************************************************************)
EXTENDS OrchestrationRecord, TLAPS

(* What each step of set-status and of a resume can rely on. *)
SetStatusInv ==
    /\ cmd.step \in {"meta", "log"} => cmd.op = "forward"
    /\ cmd.step \in {"clean", "commit"} => cmd.op \in {"forward", "retry"}
    /\ cmd.step = "backfill" => cmd.op \in {"retry", "replay"}
    /\ cmd.step \in {"row", "ended"} => cmd.op \in {"forward", "retry", "replay"}
    /\ cmd.step = "check" => cmd.op = "set_status"
    /\ cmd.op \in {"set_status", "forward", "retry", "replay"} => cmd.st \in Terminal
    /\ cmd.step \in {"row", "clean", "commit", "log", "backfill", "ended"} => status = cmd.st
    /\ cmd.step = "row" /\ cmd.op = "replay" => recorded # "none"
    /\ cmd.step \in {"clean", "commit", "log", "ended"} => row = cmd.st
    /\ cmd.step = "backfill" /\ cmd.op = "retry" => row = cmd.st
    /\ recorded \in {"own", "earlier", "none"}
    /\ recorded = "none" => status \notin logged
    /\ cmd.step = "ended" => recorded # "none"
    /\ cmd.step = "ended" /\ cmd.op = "forward" => recorded = "own"
    /\ cmd.step = "commit" => ~scratch

Resuming == {"reopen", "forget", "disarm", "prune", "unrun", "running_again", "resumed"}
ResumeInv ==
    /\ cmd.step \in Resuming => ~marker
    /\ cmd.step \in Resuming \ {"reopen"} => row = "running"

StatusInv == SetStatusInv /\ ResumeInv /\ RunningIsOpen /\ MarkerMeansClean

LEMMA StatusInvInit == Init => StatusInv
  BY DEF Init, StatusInv, SetStatusInv, ResumeInv, RunningIsOpen, MarkerMeansClean, Idle, Command,
         Resuming

(* An action that leaves the terminal record alone and is, or becomes, no   *)
(* step of set-status or resume.                                            *)
StatusSteps == Resuming \union {"meta", "row", "clean", "commit", "log", "backfill", "ended"}
Aside ==
    /\ UNCHANGED <<status, row, marker, logged, recorded>>
    /\ scratch' => scratch
    /\ cmd'.step \notin StatusSteps
    /\ cmd'.step = "check" => cmd'.op = "set_status"
    /\ cmd'.op \in {"set_status", "forward", "retry", "replay"} => cmd'.st \in Terminal

LEMMA AsideKeepsStatusInv == ASSUME StatusInv, Aside PROVE StatusInv'
  BY DEF Aside, StatusSteps, StatusInv, SetStatusInv, ResumeInv, RunningIsOpen, MarkerMeansClean,
         Resuming

LEMMA StatusInvStep == TypeOK /\ StatusInv /\ [Next]_vars => StatusInv'
<1>. SUFFICES ASSUME TypeOK, StatusInv, [Next]_vars PROVE StatusInv'
  OBVIOUS
<1>t. cmd \in [op : Ops, step : Steps, c : Child \union {None}, p : Phase,
               st : Terminal \union {"none"}]
  BY DEF TypeOK
<1>s. /\ cmd.op \in {"set_status", "forward", "retry", "replay"} => cmd.st \in Terminal
      /\ cmd.step \in {"row", "ended"} => cmd.op \in {"forward", "retry", "replay"}
      /\ cmd.step = "check" => cmd.op = "set_status"
  BY DEF StatusInv, SetStatusInv
<1>. USE AsideKeepsStatusInv, <1>t, <1>s DEF Aside, StatusSteps, Resuming, Begin, At, To, Command,
         Idle, terminal
<1>1. CASE Ask
  BY <1>1 DEF Ask, BeginAsk, Answer
<1>2. CASE RecordLaunch
  <2>1. CASE \E st \in {"fail", "fail_closed"} : Blocked(st)
    BY <2>1 DEF Blocked, Terminal
  <2>. QED
    BY <1>2, <2>1 DEF RecordLaunch, BeginLaunch, BeginDiagnose, Gate, WriteFiles, AddEdge,
       LaunchRecorded, ChildRunning, Transition, Point, Mark, Launched
<1>3. CASE FinalizeChild
  <2>1. CASE AppendInvalid
    BY <2>1 DEF AppendInvalid, ToHandler
  <2>. QED
    BY <1>3, <2>1 DEF FinalizeChild, BeginFinalize, Open, Unmark, Unpoint, AppendRow, ChildFinished,
              Transition, ClosePointer, DropMarker, Finalized, Return
<1>4. CASE WriteStepResult
  BY <1>4 DEF WriteStepResult, BeginWrite, Ready, Certify, Archive, WriteResult, Hook,
              ResultWritten, Transition, Wrote
<1>5. CASE Reset
  BY <1>5 DEF Reset, BeginReset, Revoke, ResetPhase, Rerouted
<1>6. CASE SetStatus
  <2>. USE DEF StatusInv, SetStatusInv, ResumeInv, RunningIsOpen, MarkerMeansClean, Terminal
  <2>1. CASE \E st \in Terminal : BeginSetStatus(st)
    BY <2>1 DEF BeginSetStatus
  <2>2. CASE Check
    <3>. /\ At("check")
         /\ cmd' = IF status # cmd.st THEN Command("forward", "meta", cmd.c, 1, cmd.st)
                   ELSE IF marker THEN Command("replay", "backfill", cmd.c, 1, cmd.st)
                   ELSE Command("retry", "row", cmd.c, 1, cmd.st)
         /\ UNCHANGED <<terminal, launches, window, phases, control, bounds>>
      BY <2>2 DEF Check
    <3>. cmd.st \in Terminal
      BY <2>2 DEF Check
    <3>1. CASE status # cmd.st
      BY <3>1
    <3>2. CASE status = cmd.st /\ marker
      BY <3>2
    <3>3. CASE status = cmd.st /\ ~marker
      BY <3>3
    <3>. QED
      BY <3>1, <3>2, <3>3
  <2>3. CASE WriteMeta
    BY <2>3 DEF WriteMeta
  <2>4. CASE FinalizeRow
    BY <2>4 DEF FinalizeRow
  <2>5. CASE Clean
    BY <2>5 DEF Clean
  <2>6. CASE CleanFails
    BY <2>6 DEF CleanFails
  <2>7. CASE CommitCleanup
    BY <2>7 DEF CommitCleanup
  <2>8. CASE LogStatus
    BY <2>8 DEF LogStatus
  <2>9. CASE Backfill
    BY <2>9 DEF Backfill
  <2>10. CASE Ended
    <3>. /\ cmd' = Idle /\ UNCHANGED <<status, row, marker, logged, recorded>>
         /\ scratch' => scratch
      BY <2>10 DEF Ended, Leave, ToHandler, control
    <3>. QED
      OBVIOUS
  <2>. QED
    BY <1>6, <2>1, <2>2, <2>3, <2>4, <2>5, <2>6, <2>7, <2>8, <2>9, <2>10 DEF SetStatus
<1>7. CASE Resume
  <2>. USE DEF StatusInv, SetStatusInv, ResumeInv, RunningIsOpen, MarkerMeansClean
  <2>1. CASE BeginResume \/ Uncommit \/ ReopenRow \/ ForgetPointer
    BY <2>1 DEF BeginResume, Uncommit, ReopenRow, ForgetPointer
  <2>2. CASE DisarmMarkers \/ PruneEdges \/ ResetChildRunning
    BY <2>2 DEF DisarmMarkers, PruneEdges, ResetChildRunning
  <2>3. CASE RunningAgain \/ Resumed
    BY <2>3 DEF RunningAgain, Resumed
  <2>. QED
    BY <1>7, <2>1, <2>2, <2>3 DEF Resume
<1>8. CASE Hand
  <2>1. CASE \E st \in HandStatus : HandSetStatus(st)
    BY <2>1, ConstantsAssumption DEF HandSetStatus, ByHand, Terminal
  <2>2. CASE \E c \in Child : HandDeactivate(c)
    BY <2>2 DEF HandDeactivate, ByHand
  <2>3. CASE \E c \in Child, forced \in BOOLEAN : HandTimeout(c, forced)
    BY <2>3 DEF HandTimeout, ByHand
  <2>. QED
    BY <1>8, <2>1, <2>2, <2>3 DEF Hand
<1>9. CASE Trouble
  <2>1. CASE Handle
    BY <2>1 DEF Handle, Terminal
  <2>2. CASE HandleEnded
    <3>. cmd' = Idle /\ scratch' = FALSE /\ UNCHANGED <<status, row, marker, logged, recorded>>
      BY <2>2 DEF HandleEnded, Leave
    <3>. QED
      OBVIOUS
  <2>3. CASE Refuse \/ Error
    <3>. /\ cmd' = Idle /\ UNCHANGED <<status, row, marker, logged, recorded>>
         /\ scratch' = IF driver \in {"backstop", "cancelling"} THEN FALSE ELSE scratch
      BY <2>3 DEF Refuse, Error, ToHandler
    <3>. QED
      OBVIOUS
  <2>4. CASE Interrupt \/ Crash
    <3>. /\ cmd' = Idle /\ UNCHANGED <<status, row, marker, logged, recorded>>
         /\ scratch' = FALSE \/ scratch' = scratch
      BY <2>4 DEF Interrupt, Crash
    <3>. QED
      OBVIOUS
  <2>5. CASE \E p \in Phase : Foreign(p)
    BY <2>5 DEF Foreign, StatusInv, SetStatusInv, ResumeInv, RunningIsOpen, MarkerMeansClean
  <2>. QED
    BY <1>9, <2>1, <2>2, <2>3, <2>4, <2>5 DEF Trouble
<1>10. CASE UNCHANGED vars
  BY <1>10 DEF vars, StatusInv, SetStatusInv, ResumeInv, RunningIsOpen, MarkerMeansClean
<1>. QED
  BY <1>1, <1>2, <1>3, <1>4, <1>5, <1>6, <1>7, <1>8, <1>9, <1>10 DEF Next

-----------------------------------------------------------------------------
(* Which command a step belongs to, and what it knows of its child, phase   *)
(* and attempt.                                                             *)
WriteSteps == {"ready", "certify", "archive", "result", "hook", "written", "wrote"}
LaunchSteps == {"gate", "files", "edge", "recorded", "running", "point", "mark", "launched"}
ResetSteps == {"revoke", "reset", "rerouted"}
ChildSteps ==
    {"edge", "recorded", "running", "point", "mark", "launched", "open", "unmark", "unpoint",
     "append", "finished", "close", "drop", "finalized"}
AttemptInv ==
    /\ cmd.step = "answer" => cmd.op = "ask"
    /\ cmd.step \in LaunchSteps => cmd.op \in {"launch", "diagnose"}
    /\ cmd.step \in WriteSteps => cmd.op = "write" /\ cmd.st \in {"pass", "fail"}
    /\ cmd.step \in ResetSteps => cmd.op = "reset"
    /\ cmd.step \in {"open", "finalized"} => cmd.op = "finalize"
    /\ cmd.step \in Resuming \union {"uncommit"} => cmd.op = "resume"
    /\ cmd.step \in {"gate", "files"} => cmd.c \in Child
    /\ cmd.step \in ChildSteps => cmd.c \in files
    /\ cmd.op \in {"launch", "diagnose", "finalize", "write"} => did # "unasked"
    /\ cmd.op \in {"launch", "diagnose"} => driver = "live"
    /\ leaf # None => /\ driver = "live"
                      /\ did # "unasked"
                      /\ cmd.op \in {"none", "finalize"}
    /\ did # "unasked" \/ cmd.step = "answer" => cur <= Last

\* The parts of TypeOK, so that a step says which of them it can disturb.
TerminalOK ==
    /\ status \in Terminal \union {"running"}
    /\ row \in Terminal \union {"running"}
    /\ marker \in BOOLEAN /\ scratch \in BOOLEAN
    /\ recorded \in {"own", "earlier", "none"}
    /\ logged \subseteq Terminal
LaunchesOK ==
    /\ files \subseteq Child /\ edges \subseteq files /\ runs \subseteq files
    /\ invalid \subseteq files
    /\ of \in [Child -> Phase]
WindowOK == active \subseteq files /\ pointer \in files \union {None}
PhasesOK ==
    /\ phase \in [Phase -> PhaseStates]
    /\ result \in [Phase -> Results]
    /\ aside \in Results
    /\ stamped \subseteq Phase
ControlOK ==
    /\ driver \in {"none", "live", "failing", "backstop", "cancelling"}
    /\ cur \in 1 .. Last + 1
    /\ leaf \in files \union {None}
    /\ did \in Attempts
CmdOK == cmd \in [op : Ops, step : Steps, c : Child \union {None}, p : Phase,
                 st : Terminal \union {"none"}]
BoundsOK == faults \in 0 .. MaxFaults /\ foreign \in 0 .. MaxForeign

\* The parts are stated apart, so that a step says which of them it disturbs.
Typed ==
    TerminalOK /\ LaunchesOK /\ WindowOK /\ PhasesOK /\ ControlOK /\ CmdOK /\ BoundsOK

LEMMA TypeParts == (TypeOK <=> Typed) /\ (TypeOK' <=> Typed')
  BY DEF TypeOK, Typed, TerminalOK, LaunchesOK, WindowOK, PhasesOK, ControlOK, CmdOK, BoundsOK

(* What is open in the record of a live driver: the window of the child in   *)
(* its hand, from the launch to the finalization, and nothing else.  A       *)
(* resume closes what it finds before the driver goes on; a driver that has  *)
(* folded a diagnosis leaves it open and launches no more.                   *)
InHand == IF leaf # None THEN leaf ELSE cmd.c
Held(steps) == leaf # None /\ (cmd.op = "none" \/ cmd.step \in steps)
MayMark == Held({"open", "unmark"}) \/ cmd.step = "launched"
MayPoint == Held({"open", "unmark", "unpoint"}) \/ cmd.step \in {"mark", "launched"}
MayRun ==
    \/ Held({"open", "unmark", "unpoint", "append", "finished"})
    \/ cmd.step \in {"point", "mark", "launched"}
MarksInHand == \A c \in active : MayMark /\ c = InHand
PointerInHand == pointer # None => MayPoint /\ pointer = InHand
RunningInHand == \A p \in Phase : phase[p] = "child_running" => MayRun /\ p = of[InHand]

WindowInv ==
    /\ cmd.step \in LaunchSteps \ {"gate", "files"} => of[cmd.c] = cmd.p
    /\ cmd.op = "finalize" => leaf # None /\ cmd.c = leaf
    /\ cmd.step \in {"open", "unmark", "unpoint", "append", "finished", "close", "drop"}
         => cmd.op \in {"finalize", "timeout", "deactivate"}
    /\ cmd.step = "return" => cmd.op \in {"timeout", "deactivate"}
    /\ cmd.op \in {"timeout", "deactivate"} => driver = "none"
    /\ cmd.op \in {"ask", "launch", "diagnose", "write", "reset"} \/ leaf # None
         => did # "unrecordable"
    /\ cmd.step \in {"disarm", "prune", "unrun", "running_again", "resumed"} => pointer = None
    /\ cmd.step \in {"prune", "unrun", "running_again", "resumed"} => active = {}
    /\ cmd.step \in {"running_again", "resumed"} => \A p \in Phase : phase[p] # "child_running"
    /\ driver = "live" /\ cmd.op # "resume" /\ did # "unrecordable"
         => MarksInHand /\ PointerInHand /\ RunningInHand

(* What the record says of the phases a live driver has passed, and of the   *)
(* edges: a phase above the one it is at was skipped or passed last, and an  *)
(* edge without a row is that of the child in its hand.  A resume prunes the *)
(* edges before its driver goes on; a driver that has folded a diagnosis may *)
(* leave one, and never asks for a pass.                                     *)
Passed(p) == phase[p] = "skipped_certified" \/ result[p] \in {"none", "pass"}
PassedBelow == \A p \in Phase : p < cur => Passed(p)
Launching == {"recorded", "running", "point", "mark", "launched"}
EdgesInHand ==
    \A c \in edges \ (runs \union invalid) :
       IF leaf # None THEN c = leaf ELSE cmd.step \in Launching /\ c = cmd.c

PassInv ==
    /\ cmd.op \in {"ask", "launch", "diagnose", "write", "reset"} => driver = "live"
    /\ cmd.op \in {"ask", "launch", "diagnose", "write"} => cmd.p = cur
    /\ leaf # None => of[leaf] = cur
    /\ cmd.step = "revoke" => cmd.p <= cur
    /\ cmd.step = "reset" => cmd.p >= cur
    /\ cmd.step \in {"hook", "written", "wrote"} => result[cmd.p] = cmd.st
    /\ cmd.step \in {"finished", "close", "drop", "finalized"} => cmd.c \in runs
    /\ cmd.step = "check" /\ driver = "live" /\ cmd.st = "pass" => cur > Last
    /\ cmd.step \in {"unrun", "running_again", "resumed"} => EveryEdgeIsRecorded
    /\ driver = "live" /\ cmd.op # "resume" => PassedBelow
    /\ driver = "live" /\ cmd.op # "resume" /\ did # "unrecordable" => EdgesInHand

IInv == TypeOK /\ AttemptInv /\ StatusInv /\ WindowInv /\ PassInv

LEMMA InitIInv == Init => IInv
<1>. SUFFICES ASSUME Init PROVE IInv
  OBVIOUS
<1>. 1 \in Phase /\ Last \in Nat \ {0}
  BY ConstantsAssumption DEF Phase
<1>1. TerminalOK /\ LaunchesOK /\ WindowOK /\ PhasesOK
  BY DEF Init, TerminalOK, LaunchesOK, WindowOK, PhasesOK, PhaseStates, Results
<1>2. ControlOK /\ BoundsOK
  BY ConstantsAssumption DEF Init, ControlOK, BoundsOK, Attempts
<1>3. CmdOK
  BY DEF Init, CmdOK, Idle, Command, Ops, Steps
<1>4. AttemptInv
  BY DEF Init, AttemptInv, Idle, Command, WriteSteps, LaunchSteps, ResetSteps, ChildSteps, Resuming
<1>5. WindowInv
  BY DEF Init, WindowInv, MarksInHand, PointerInHand, RunningInHand, Idle, Command, LaunchSteps
<1>6. PassInv
  BY DEF Init, PassInv, Passed, PassedBelow, EdgesInHand, Idle, Command, LaunchSteps
<1>. QED
  BY <1>1, <1>2, <1>3, <1>4, <1>5, <1>6, TypeParts, StatusInvInit DEF IInv, Typed

LEMMA Unchanged ==
    /\ TerminalOK /\ UNCHANGED terminal => TerminalOK'
    /\ LaunchesOK /\ UNCHANGED launches => LaunchesOK'
    /\ WindowOK /\ files \subseteq files' /\ UNCHANGED window => WindowOK'
    /\ PhasesOK /\ UNCHANGED phases => PhasesOK'
    /\ ControlOK /\ files \subseteq files' /\ UNCHANGED control => ControlOK'
    /\ BoundsOK /\ UNCHANGED bounds => BoundsOK'
  BY DEF TerminalOK, LaunchesOK, WindowOK, PhasesOK, ControlOK, BoundsOK, terminal, launches,
     window,
         phases, control, bounds

(* What the prover needs to know of a command, and of the constants. *)
LEMMA Data ==
    /\ 1 \in Phase /\ Last \in Nat \ {0} /\ None \notin Child
    /\ Phase = 1 .. Last
    /\ MaxFaults \in Nat /\ MaxForeign \in Nat
    /\ HandStatus \subseteq Terminal /\ EndStatus \subseteq Terminal
  BY ConstantsAssumption DEF Phase, Terminal

\* A command that raises.
LEMMA HandlerTyped ==
    ASSUME Typed, AttemptInv, ToHandler
    PROVE  TerminalOK' /\ ControlOK' /\ CmdOK' /\ AttemptInv'
<1>a. Folded => did # "unasked"
  BY DEF Folded, AttemptInv
<1>b. driver' \in {"failing", "backstop", "none", driver}
  BY DEF ToHandler
<1>1. /\ driver' \in {"failing", "backstop", "none", driver}
      /\ did' \in {did, "unrecordable"} /\ (did = "unasked" => did' = did)
      /\ scratch' \in {FALSE, scratch}
      /\ leaf' = None /\ cmd' = Idle
      /\ UNCHANGED <<status, row, marker, logged, recorded, cur>>
  BY <1>a, <1>b DEF ToHandler
<1>2. TerminalOK' /\ ControlOK'
  BY <1>1 DEF Typed, TerminalOK, ControlOK, Attempts
<1>3. CmdOK'
  BY <1>1, Data DEF CmdOK, Idle, Command, Ops, Steps
<1>4. AttemptInv'
  BY <1>1 DEF AttemptInv, Idle, Command, WriteSteps, LaunchSteps, ResetSteps, ChildSteps, Resuming
<1>. QED
  BY <1>2, <1>3, <1>4

LEMMA RaiseTyped ==
    ASSUME Typed, AttemptInv, ToHandler, Undo
    PROVE  TerminalOK' /\ ControlOK' /\ CmdOK' /\ PhasesOK' /\ AttemptInv'
<1>1. PhasesOK'
  BY DEF Undo, Typed, PhasesOK, Results
<1>. QED
  BY <1>1, HandlerTyped

LEMMA AskTyped == Typed /\ AttemptInv /\ Ask => Typed' /\ AttemptInv'
<1>. SUFFICES ASSUME Typed, AttemptInv, Ask PROVE Typed' /\ AttemptInv'
  OBVIOUS
<1>. USE Data, Unchanged DEF Typed, CmdOK, AttemptInv, At, To, Command, Idle, Begin, Ops, Steps,
         WriteSteps, LaunchSteps, ResetSteps, ChildSteps, Resuming
<1>1. CASE BeginAsk
  <2>. cur \in Phase
    BY <1>1 DEF BeginAsk, ControlOK
  <2>. QED
    BY <1>1 DEF BeginAsk, Driving, terminal, launches, window, phases, control, bounds
<1>2. CASE \E forced \in BOOLEAN : Answer(forced)
  BY <1>2 DEF Answer, PhasesOK, ControlOK, PhaseStates, Results, Attempts, terminal, launches,
     window, phases, control, bounds
<1>. QED
  BY <1>1, <1>2 DEF Ask

LEMMA RecordLaunchTyped == Typed /\ AttemptInv /\ RecordLaunch => Typed' /\ AttemptInv'
<1>. SUFFICES ASSUME Typed, AttemptInv, RecordLaunch PROVE Typed' /\ AttemptInv'
  OBVIOUS
<1>. USE Data, Unchanged DEF Typed, CmdOK, AttemptInv, At, To, Command, Idle, Begin, Ops, Steps,
         WriteSteps, LaunchSteps, ResetSteps, ChildSteps, Resuming
<1>1. CASE \E c \in Child : BeginLaunch(c) \/ BeginDiagnose(c)
  <2>. cur \in Phase
    BY <1>1 DEF BeginLaunch, BeginDiagnose, ControlOK
  <2>. QED
    BY <1>1 DEF BeginLaunch, BeginDiagnose, Driving, terminal, launches, window, phases, control,
     bounds
<1>2. CASE Gate
  BY <1>2 DEF Gate, terminal, launches, window, phases, control, bounds
<1>10. CASE \E st \in {"fail", "fail_closed"} : Blocked(st)
  <2>. PICK st \in {"fail", "fail_closed"} : Blocked(st)
    BY <1>10
  <2>1. /\ cmd' = Command("set_status", "check", cmd.c, 1, st)
        /\ did' \in {did, "diagnosed"} /\ did # "unasked" /\ driver = "live"
        /\ UNCHANGED <<terminal, launches, window, phases, driver, cur, leaf, foreign>>
    BY DEF Blocked
  <2>2. BoundsOK'
    BY <2>1 DEF Blocked, Fault, BoundsOK
  <2>3. ControlOK' /\ CmdOK'
    BY <2>1 DEF ControlOK, Attempts, Terminal, launches
  <2>4. AttemptInv'
    <3>1. leaf = None /\ cur <= Last
      BY DEF Blocked
    <3>. QED
      BY <2>1, <3>1 DEF launches
  <2>. QED
    BY <2>1, <2>2, <2>3, <2>4 DEF launches
<1>3. CASE WriteFiles
  BY <1>3 DEF WriteFiles, LaunchesOK, WindowOK, ControlOK, Attempts, terminal, launches, window,
     phases, control, bounds
<1>4. CASE AddEdge
  BY <1>4 DEF AddEdge, LaunchesOK, terminal, launches, window, phases, control, bounds
<1>5. CASE LaunchRecorded
  BY <1>5 DEF LaunchRecorded, Transition, PhasesOK, PhaseStates, Results, terminal, launches,
     window, phases, control, bounds
<1>6. CASE ChildRunning
  BY <1>6 DEF ChildRunning, Transition, PhasesOK, PhaseStates, Results, terminal, launches,
     window, phases, control, bounds
<1>7. CASE Point
  BY <1>7 DEF Point, WindowOK, LaunchesOK, terminal, launches, window, phases, control, bounds
<1>8. CASE Mark
  BY <1>8 DEF Mark, WindowOK, LaunchesOK, terminal, launches, window, phases, control, bounds
<1>9. CASE Launched
  BY <1>9 DEF Launched, ControlOK, Attempts, terminal, launches, window, phases, control, bounds
<1>. QED
  BY <1>1, <1>2, <1>3, <1>4, <1>5, <1>6, <1>7, <1>8, <1>9, <1>10 DEF RecordLaunch

LEMMA FinalizeChildTyped == Typed /\ AttemptInv /\ FinalizeChild => Typed' /\ AttemptInv'
<1>. SUFFICES ASSUME Typed, AttemptInv, FinalizeChild PROVE Typed' /\ AttemptInv'
  OBVIOUS
<1>. USE Data, Unchanged DEF Typed, CmdOK, AttemptInv, At, To, Command, Idle, Begin, Ops, Steps,
         WriteSteps, LaunchSteps, ResetSteps, ChildSteps, Resuming
<1>1. CASE BeginFinalize
  BY <1>1 DEF BeginFinalize, ControlOK, LaunchesOK, Attempts, terminal, launches, window, phases,
     control, bounds
<1>2. CASE Open
  BY <1>2 DEF Open, terminal, launches, window, phases, control, bounds
<1>3. CASE Unmark
  BY <1>3 DEF Unmark, WindowOK, LaunchesOK, terminal, launches, window, phases, control, bounds
<1>4. CASE Unpoint
  BY <1>4 DEF Unpoint, WindowOK, LaunchesOK, terminal, launches, window, phases, control, bounds
<1>5. CASE AppendRow
  BY <1>5 DEF AppendRow, LaunchesOK, terminal, launches, window, phases, control, bounds
<1>6. CASE AppendInvalid
  <2>. TerminalOK' /\ ControlOK' /\ CmdOK' /\ PhasesOK' /\ AttemptInv'
    BY <1>6, RaiseTyped DEF AppendInvalid
  <2>. LaunchesOK' /\ WindowOK' /\ BoundsOK'
    BY <1>6 DEF AppendInvalid, Fault, LaunchesOK, WindowOK, BoundsOK, window
  <2>. QED
    BY DEF CmdOK
<1>7. CASE ChildFinished
  BY <1>7 DEF ChildFinished, Transition, PhasesOK, LaunchesOK, PhaseStates, Results, terminal,
     launches, window, phases, control, bounds
<1>8. CASE ClosePointer
  BY <1>8 DEF ClosePointer, WindowOK, LaunchesOK, terminal, launches, window, phases, control,
     bounds
<1>9. CASE DropMarker
  BY <1>9 DEF DropMarker, WindowOK, LaunchesOK, terminal, launches, window, phases, control, bounds
<1>10. CASE Finalized
  BY <1>10 DEF Finalized, ControlOK, Attempts, terminal, launches, window, phases, control, bounds
<1>11. CASE Return
  BY <1>11 DEF Return, terminal, launches, window, phases, control, bounds
<1>. QED
  BY <1>1, <1>2, <1>3, <1>4, <1>5, <1>6, <1>7, <1>8, <1>9, <1>10, <1>11 DEF FinalizeChild

LEMMA WriteStepResultTyped == Typed /\ AttemptInv /\ WriteStepResult => Typed' /\ AttemptInv'
<1>. SUFFICES ASSUME Typed, AttemptInv, WriteStepResult PROVE Typed' /\ AttemptInv'
  OBVIOUS
<1>. USE Data, Unchanged DEF Typed, CmdOK, AttemptInv, At, To, Command, Idle, Begin, Ops, Steps,
         WriteSteps, LaunchSteps, ResetSteps, ChildSteps, Resuming
<1>1. CASE \E st \in {"pass", "fail"} : BeginWrite(st)
  <2>. cur \in Phase
    BY <1>1 DEF BeginWrite, ControlOK
  <2>. QED
    BY <1>1 DEF BeginWrite, Driving, Terminal, terminal, launches, window, phases, control, bounds
<1>2. CASE Ready
  BY <1>2 DEF Ready, terminal, launches, window, phases, control, bounds
<1>3. CASE Certify
  BY <1>3 DEF Certify, PhasesOK, PhaseStates, Results, terminal, launches, window, phases,
     control, bounds
<1>4. CASE Archive
  BY <1>4 DEF Archive, PhasesOK, PhaseStates, Results, terminal, launches, window, phases,
     control, bounds
<1>5. CASE WriteResult
  BY <1>5 DEF WriteResult, PhasesOK, PhaseStates, Results, terminal, launches, window, phases,
     control, bounds
<1>6. CASE Hook
  BY <1>6 DEF Hook, PhasesOK, PhaseStates, Results, terminal, launches, window, phases, control,
     bounds
<1>7. CASE ResultWritten
  BY <1>7 DEF ResultWritten, Transition, PhasesOK, PhaseStates, Results, terminal, launches,
     window, phases, control, bounds
<1>8. CASE Wrote
  BY <1>8 DEF Wrote, ControlOK, Attempts, terminal, launches, window, phases, control, bounds
<1>. QED
  BY <1>1, <1>2, <1>3, <1>4, <1>5, <1>6, <1>7, <1>8 DEF WriteStepResult

LEMMA ResetTyped == Typed /\ AttemptInv /\ Reset => Typed' /\ AttemptInv'
<1>. SUFFICES ASSUME Typed, AttemptInv, Reset PROVE Typed' /\ AttemptInv'
  OBVIOUS
<1>. USE Data, Unchanged DEF Typed, CmdOK, AttemptInv, At, To, Command, Idle, Begin, Ops, Steps,
         WriteSteps, LaunchSteps, ResetSteps, ChildSteps, Resuming
<1>1. CASE \E p \in Phase : BeginReset(p)
  BY <1>1 DEF BeginReset, Driving, terminal, launches, window, phases, control, bounds
<1>2. CASE Revoke
  <2>1. PhasesOK'
    BY <1>2 DEF Revoke, PhasesOK
  <2>2. ControlOK'
    BY <1>2 DEF Revoke, ControlOK, launches
  <2>. QED
    BY <1>2, <2>1, <2>2 DEF Revoke, terminal, launches, window, bounds
<1>3. CASE ResetPhase
  <2>. cmd.p < Last => cmd.p + 1 \in Phase
    OBVIOUS
  <2>. PhasesOK'
    BY <1>3 DEF ResetPhase, PhasesOK, PhaseStates
  <2>. QED
    BY <1>3 DEF ResetPhase, terminal, launches, window, phases, control, bounds
<1>4. CASE Rerouted
  BY <1>4 DEF Rerouted, ControlOK, Attempts, terminal, launches, window, phases, control, bounds
<1>. QED
  BY <1>1, <1>2, <1>3, <1>4 DEF Reset

LEMMA SetStatusTyped == Typed /\ AttemptInv /\ StatusInv /\ SetStatus => Typed' /\ AttemptInv'
<1>. SUFFICES ASSUME Typed, AttemptInv, StatusInv, SetStatus PROVE Typed' /\ AttemptInv'
  OBVIOUS
<1>. USE Data, Unchanged DEF Typed, CmdOK, AttemptInv, At, To, Command, Idle, Begin, Ops, Steps,
         WriteSteps, LaunchSteps, ResetSteps, ChildSteps, Resuming
<1>. cmd.step \in {"meta", "clean", "commit", "log", "row", "backfill"} => cmd.st \in Terminal
  BY DEF StatusInv, SetStatusInv
<1>1. CASE \E st \in Terminal : BeginSetStatus(st)
  <2>. PICK st \in Terminal : BeginSetStatus(st)
    BY <1>1
  <2>. /\ leaf = None
       /\ cmd' = Command("set_status", "check", None, 1, st)
       /\ UNCHANGED <<terminal, launches, window, phases, control, bounds>>
    BY DEF BeginSetStatus, Driving
  <2>. QED
    BY DEF terminal, launches, window, phases, control, bounds
<1>2. CASE Check
  <2>. /\ cmd' \in {Command("forward", "meta", cmd.c, 1, cmd.st),
                   Command("retry", "row", cmd.c, 1, cmd.st),
                   Command("replay", "backfill", cmd.c, 1, cmd.st)}
       /\ UNCHANGED <<terminal, launches, window, phases, control, bounds>>
    BY <1>2 DEF Check
  <2>. leaf = None /\ cmd.st \in Terminal
    BY <1>2 DEF Check, StatusInv, SetStatusInv
  <2>. QED
    BY DEF terminal, launches, window, phases, control, bounds
<1>3. CASE WriteMeta
  BY <1>3 DEF WriteMeta, TerminalOK, terminal, launches, window, phases, control, bounds
<1>4. CASE FinalizeRow
  BY <1>4 DEF FinalizeRow, TerminalOK, terminal, launches, window, phases, control, bounds
<1>5. CASE Clean
  BY <1>5 DEF Clean, TerminalOK, terminal, launches, window, phases, control, bounds
<1>6. CASE CleanFails
  BY <1>6 DEF CleanFails, BoundsOK, terminal, launches, window, phases, control, bounds
<1>7. CASE CommitCleanup
  BY <1>7 DEF CommitCleanup, TerminalOK, terminal, launches, window, phases, control, bounds
<1>8. CASE LogStatus
  BY <1>8 DEF LogStatus, TerminalOK, terminal, launches, window, phases, control, bounds
<1>9. CASE Backfill
  BY <1>9 DEF Backfill, TerminalOK, terminal, launches, window, phases, control, bounds
<1>10. CASE Ended
  <2>1. CASE driver = "none"
    BY <1>10, <2>1 DEF Ended, TerminalOK, terminal, launches, window, phases, control, bounds
  <2>2. CASE driver # "none" /\ ~(driver = "live" /\ cmd.c # None)
    <3>1. /\ cmd' = Idle /\ driver' = "none" /\ scratch' = FALSE /\ leaf' = None
          /\ UNCHANGED <<cur, did, status, row, marker, logged, recorded>>
          /\ UNCHANGED <<launches, window, phases, bounds>>
      BY <1>10, <2>2 DEF Ended, Leave
    <3>2. TerminalOK' /\ ControlOK' /\ CmdOK'
      BY <3>1 DEF TerminalOK, ControlOK
    <3>. QED
      BY <3>1, <3>2 DEF launches
  <2>3. CASE driver = "live" /\ cmd.c # None
    <3>1. ToHandler /\ UNCHANGED <<launches, window, phases, bounds>>
      BY <1>10, <2>3 DEF Ended
    <3>. QED
      BY <3>1, HandlerTyped DEF launches
  <2>. QED
    BY <2>1, <2>2, <2>3
<1>. QED
  BY <1>1, <1>2, <1>3, <1>4, <1>5, <1>6, <1>7, <1>8, <1>9, <1>10 DEF SetStatus

LEMMA ResumeTyped == Typed /\ AttemptInv /\ Resume => Typed' /\ AttemptInv'
<1>. SUFFICES ASSUME Typed, AttemptInv, Resume PROVE Typed' /\ AttemptInv'
  OBVIOUS
<1>. USE Data, Unchanged DEF Typed, CmdOK, AttemptInv, At, To, Command, Idle, Begin, Ops, Steps,
         WriteSteps, LaunchSteps, ResetSteps, ChildSteps, Resuming
<1>1. CASE BeginResume
  BY <1>1 DEF BeginResume, ControlOK, Attempts, terminal, launches, window, phases, control, bounds
<1>2. CASE Uncommit
  BY <1>2 DEF Uncommit, TerminalOK, terminal, launches, window, phases, control, bounds
<1>3. CASE ReopenRow
  BY <1>3 DEF ReopenRow, TerminalOK, terminal, launches, window, phases, control, bounds
<1>4. CASE ForgetPointer
  BY <1>4 DEF ForgetPointer, WindowOK, LaunchesOK, terminal, launches, window, phases, control,
     bounds
<1>5. CASE DisarmMarkers
  BY <1>5 DEF DisarmMarkers, WindowOK, LaunchesOK, terminal, launches, window, phases, control,
     bounds
<1>6. CASE PruneEdges
  BY <1>6 DEF PruneEdges, LaunchesOK, terminal, launches, window, phases, control, bounds
<1>7. CASE ResetChildRunning
  BY <1>7 DEF ResetChildRunning, PhasesOK, PhaseStates, Results, terminal, launches, window,
     phases, control, bounds
<1>8. CASE RunningAgain
  BY <1>8 DEF RunningAgain, TerminalOK, terminal, launches, window, phases, control, bounds
<1>9. CASE Resumed
  BY <1>9 DEF Resumed, TerminalOK, ControlOK, terminal, Attempts, launches, window, phases,
     control, bounds
<1>. QED
  BY <1>1, <1>2, <1>3, <1>4, <1>5, <1>6, <1>7, <1>8, <1>9 DEF Resume

LEMMA HandTyped == Typed /\ AttemptInv /\ Hand => Typed' /\ AttemptInv'
<1>. SUFFICES ASSUME Typed, AttemptInv, Hand PROVE Typed' /\ AttemptInv'
  OBVIOUS
<1>. USE Data, Unchanged DEF Typed, CmdOK, AttemptInv, At, To, Command, Idle, Begin, Ops, Steps,
         WriteSteps, LaunchSteps, ResetSteps, ChildSteps, Resuming
<1>1. CASE \E st \in HandStatus : HandSetStatus(st)
  BY <1>1 DEF HandSetStatus, ByHand, Terminal, terminal, launches, window, phases, control, bounds
<1>2. CASE \E c \in Child : HandDeactivate(c)
  BY <1>2 DEF HandDeactivate, ByHand, WindowOK, LaunchesOK, terminal, launches, window, phases,
     control, bounds
<1>3. CASE \E c \in Child : \E forced \in BOOLEAN : HandTimeout(c, forced)
  BY <1>3 DEF HandTimeout, ByHand, terminal, launches, window, phases, control, bounds
<1>. QED
  BY <1>1, <1>2, <1>3 DEF Hand

LEMMA TroubleTyped == Typed /\ AttemptInv /\ Trouble => Typed' /\ AttemptInv'
<1>. SUFFICES ASSUME Typed, AttemptInv, Trouble PROVE Typed' /\ AttemptInv'
  OBVIOUS
<1>. USE Data, Unchanged DEF Typed, CmdOK, AttemptInv, At, To, Command, Idle, Begin, Ops, Steps,
         WriteSteps, LaunchSteps, ResetSteps, ChildSteps, Resuming
<1>1. CASE Handle
  BY <1>1 DEF Handle, Terminal, terminal, launches, window, phases, control, bounds
<1>2. CASE HandleEnded
  <2>. TerminalOK' /\ ControlOK'
    BY <1>2 DEF HandleEnded, Leave, TerminalOK, ControlOK, launches
  <2>. QED
    BY <1>2 DEF HandleEnded, Leave, terminal, launches, window, phases, control, bounds
<1>3. CASE Refuse
  <2>. TerminalOK' /\ ControlOK' /\ CmdOK' /\ PhasesOK' /\ AttemptInv'
    BY <1>3, RaiseTyped DEF Refuse, launches
  <2>. QED
    BY <1>3 DEF Refuse, terminal, launches, window, phases, control, bounds
<1>4. CASE Error
  <2>. TerminalOK' /\ ControlOK' /\ CmdOK' /\ PhasesOK' /\ AttemptInv'
    BY <1>4, RaiseTyped DEF Error, launches
  <2>. BoundsOK'
    BY <1>4 DEF Error, Fault, BoundsOK
  <2>. QED
    BY <1>4 DEF Error, terminal, launches, window, phases, control, bounds
<1>5. CASE Interrupt
  <2>. TerminalOK'
    BY <1>5 DEF Interrupt, TerminalOK
  <2>. ControlOK'
    BY <1>5 DEF Interrupt, ControlOK, launches
  <2>. BoundsOK'
    BY <1>5 DEF Interrupt, Fault, BoundsOK
  <2>1. Undo => PhasesOK'
    BY DEF Undo, PhasesOK, Results
  <2>2. aside' = "none" /\ UNCHANGED <<phase, result, stamped>> => PhasesOK'
    BY DEF PhasesOK, Results
  <2>3. PhasesOK'
    BY <1>5, <2>1, <2>2 DEF Interrupt
  <2>. QED
    BY <1>5, <2>3 DEF Interrupt, terminal, launches, window, phases, control, bounds
<1>6. CASE Crash
  BY <1>6 DEF Crash, Fault, ControlOK, PhasesOK, BoundsOK, PhaseStates, Results, Attempts,
     terminal, launches, window, phases, control, bounds
<1>7. CASE \E p \in Phase : Foreign(p)
  BY <1>7 DEF Foreign, PhasesOK, BoundsOK, PhaseStates, Results, terminal, launches, window,
     phases, control, bounds
<1>. QED
  BY <1>1, <1>2, <1>3, <1>4, <1>5, <1>6, <1>7 DEF Trouble

LEMMA AskWindow ==
    ASSUME Typed, AttemptInv, SetStatusInv, WindowInv, Ask
    PROVE  WindowInv'
<1>. USE Data DEF AttemptInv, SetStatusInv, WindowInv, At, To, Command, Idle, Begin,
         CmdOK, PhasesOK, Typed, WriteSteps, LaunchSteps, ResetSteps, ChildSteps, Resuming,
         MarksInHand, PointerInHand, RunningInHand, MayMark, MayPoint, MayRun, Held, InHand
<1>1. CASE BeginAsk
  BY <1>1 DEF BeginAsk, Driving, terminal, launches, window, phases, control
<1>2. CASE \E forced \in BOOLEAN : Answer(forced)
  BY <1>2 DEF Answer, terminal, launches, window, phases, control
<1>. QED
  BY <1>1, <1>2 DEF Ask

LEMMA RecordLaunchWindow ==
    ASSUME Typed, AttemptInv, SetStatusInv, WindowInv, RecordLaunch
    PROVE  WindowInv'
<1>. USE Data DEF AttemptInv, SetStatusInv, WindowInv, At, To, Command, Idle, Begin,
         CmdOK, PhasesOK, Typed, WriteSteps, LaunchSteps, ResetSteps, ChildSteps, Resuming,
         MarksInHand, PointerInHand, RunningInHand, MayMark, MayPoint, MayRun, Held, InHand
<1>1. CASE \E c \in Child : BeginLaunch(c) \/ BeginDiagnose(c)
  BY <1>1 DEF BeginLaunch, BeginDiagnose, Driving, terminal, launches, window, phases, control
<1>2. CASE Gate
  BY <1>2 DEF Gate, terminal, launches, window, phases, control
<1>3. CASE WriteFiles
  BY <1>3 DEF WriteFiles, LaunchesOK, terminal, launches, window, phases, control
<1>4. CASE AddEdge
  BY <1>4 DEF AddEdge, terminal, launches, window, phases, control
<1>5. CASE LaunchRecorded
  BY <1>5 DEF LaunchRecorded, Transition, terminal, launches, window, phases, control
<1>6. CASE ChildRunning
  BY <1>6 DEF ChildRunning, Transition, terminal, launches, window, phases, control
<1>7. CASE Point
  BY <1>7 DEF Point, terminal, launches, window, phases, control
<1>8. CASE Mark
  BY <1>8 DEF Mark, terminal, launches, window, phases, control
<1>9. CASE Launched
  BY <1>9 DEF Launched, LaunchesOK, terminal, launches, window, phases, control
<1>10. CASE \E st \in {"fail", "fail_closed"} : Blocked(st)
  BY <1>10 DEF Blocked, terminal, launches, window, phases
<1>. QED
  BY <1>1, <1>2, <1>3, <1>4, <1>5, <1>6, <1>7, <1>8, <1>9, <1>10 DEF RecordLaunch

LEMMA FinalizeChildWindow ==
    ASSUME Typed, AttemptInv, SetStatusInv, WindowInv, FinalizeChild
    PROVE  WindowInv'
<1>. USE Data DEF AttemptInv, SetStatusInv, WindowInv, At, To, Command, Idle, Begin,
         CmdOK, PhasesOK, Typed, WriteSteps, LaunchSteps, ResetSteps, ChildSteps, Resuming,
         MarksInHand, PointerInHand, RunningInHand, MayMark, MayPoint, MayRun, Held, InHand
<1>1. CASE BeginFinalize
  BY <1>1 DEF BeginFinalize, terminal, launches, window, phases, control
<1>2. CASE Open
  BY <1>2 DEF Open, terminal, launches, window, phases, control
<1>3. CASE Unmark
  BY <1>3 DEF Unmark, terminal, launches, window, phases, control
<1>4. CASE Unpoint
  BY <1>4 DEF Unpoint, terminal, launches, window, phases, control
<1>5. CASE AppendRow
  BY <1>5 DEF AppendRow, terminal, launches, window, phases, control
<1>6. CASE AppendInvalid
  BY <1>6 DEF AppendInvalid, ToHandler, Undo, Folded, terminal, launches, window, phases, control
<1>7. CASE ChildFinished
  BY <1>7 DEF ChildFinished, Transition, terminal, launches, window, phases, control
<1>8. CASE ClosePointer
  BY <1>8 DEF ClosePointer, terminal, launches, window, phases, control
<1>9. CASE DropMarker
  BY <1>9 DEF DropMarker, terminal, launches, window, phases, control
<1>10. CASE Finalized
  BY <1>10 DEF Finalized, terminal, launches, window, phases, control
<1>11. CASE Return
  BY <1>11 DEF Return, terminal, launches, window, phases, control
<1>. QED
  BY <1>1, <1>2, <1>3, <1>4, <1>5, <1>6, <1>7, <1>8, <1>9, <1>10, <1>11 DEF FinalizeChild

LEMMA WriteStepResultWindow ==
    ASSUME Typed, AttemptInv, SetStatusInv, WindowInv, WriteStepResult
    PROVE  WindowInv'
<1>. USE Data DEF AttemptInv, SetStatusInv, WindowInv, At, To, Command, Idle, Begin,
         CmdOK, PhasesOK, Typed, WriteSteps, LaunchSteps, ResetSteps, ChildSteps, Resuming,
         MarksInHand, PointerInHand, RunningInHand, MayMark, MayPoint, MayRun, Held, InHand
<1>1. CASE \E st \in {"pass", "fail"} : BeginWrite(st)
  BY <1>1 DEF BeginWrite, Driving, terminal, launches, window, phases, control
<1>2. CASE Ready
  BY <1>2 DEF Ready, terminal, launches, window, phases, control
<1>3. CASE Certify
  BY <1>3 DEF Certify, terminal, launches, window, phases, control
<1>4. CASE Archive
  BY <1>4 DEF Archive, terminal, launches, window, phases, control
<1>5. CASE WriteResult
  BY <1>5 DEF WriteResult, terminal, launches, window, phases, control
<1>6. CASE Hook
  BY <1>6 DEF Hook, terminal, launches, window, phases, control
<1>7. CASE ResultWritten
  BY <1>7 DEF ResultWritten, Transition, terminal, launches, window, phases, control
<1>8. CASE Wrote
  BY <1>8 DEF Wrote, terminal, launches, window, phases, control
<1>. QED
  BY <1>1, <1>2, <1>3, <1>4, <1>5, <1>6, <1>7, <1>8 DEF WriteStepResult

LEMMA ResetWindow ==
    ASSUME Typed, AttemptInv, SetStatusInv, WindowInv, Reset
    PROVE  WindowInv'
<1>. USE Data DEF AttemptInv, SetStatusInv, WindowInv, At, To, Command, Idle, Begin,
         CmdOK, PhasesOK, Typed, WriteSteps, LaunchSteps, ResetSteps, ChildSteps, Resuming,
         MarksInHand, PointerInHand, RunningInHand, MayMark, MayPoint, MayRun, Held, InHand
<1>1. CASE \E p \in Phase : BeginReset(p)
  BY <1>1 DEF BeginReset, Driving, terminal, launches, window, phases, control
<1>2. CASE Revoke
  BY <1>2 DEF Revoke, terminal, launches, window, phases, control
<1>3. CASE ResetPhase
  BY <1>3 DEF ResetPhase, terminal, launches, window, phases, control
<1>4. CASE Rerouted
  BY <1>4 DEF Rerouted, terminal, launches, window, phases, control
<1>. QED
  BY <1>1, <1>2, <1>3, <1>4 DEF Reset

LEMMA SetStatusWindow ==
    ASSUME Typed, AttemptInv, SetStatusInv, WindowInv, SetStatus
    PROVE  WindowInv'
<1>. USE Data DEF AttemptInv, SetStatusInv, WindowInv, At, To, Command, Idle, Begin,
         CmdOK, PhasesOK, Typed, WriteSteps, LaunchSteps, ResetSteps, ChildSteps, Resuming,
         MarksInHand, PointerInHand, RunningInHand, MayMark, MayPoint, MayRun, Held, InHand
<1>1. CASE \E st \in Terminal : BeginSetStatus(st)
  BY <1>1 DEF BeginSetStatus, Driving, terminal, launches, window, phases, control
<1>2. CASE Check
  BY <1>2 DEF Check, terminal, launches, window, phases, control
<1>3. CASE WriteMeta
  BY <1>3 DEF WriteMeta, terminal, launches, window, phases, control
<1>4. CASE FinalizeRow
  BY <1>4 DEF FinalizeRow, terminal, launches, window, phases, control
<1>5. CASE Clean
  BY <1>5 DEF Clean, terminal, launches, window, phases, control
<1>6. CASE CleanFails
  BY <1>6 DEF CleanFails, terminal, launches, window, phases, control
<1>7. CASE CommitCleanup
  BY <1>7 DEF CommitCleanup, terminal, launches, window, phases, control
<1>8. CASE LogStatus
  BY <1>8 DEF LogStatus, terminal, launches, window, phases, control
<1>9. CASE Backfill
  BY <1>9 DEF Backfill, terminal, launches, window, phases, control
<1>10. CASE Ended
  <2>1. CASE driver = "live" /\ cmd.c # None
    <3>1. /\ cmd' = Idle /\ leaf' = None
          /\ driver' = "failing" \/ did' = "unrecordable"
          /\ UNCHANGED <<launches, window, phases>>
      BY <1>10, <2>1 DEF Ended, ToHandler, Folded
    <3>. QED
      BY <3>1 DEF launches, window, phases
  <2>2. CASE ~(driver = "live" /\ cmd.c # None)
    BY <1>10, <2>2 DEF Ended, Leave, launches, window, phases, control
  <2>. QED
    BY <2>1, <2>2
<1>. QED
  BY <1>1, <1>2, <1>3, <1>4, <1>5, <1>6, <1>7, <1>8, <1>9, <1>10 DEF SetStatus

LEMMA ResumeWindow ==
    ASSUME Typed, AttemptInv, SetStatusInv, WindowInv, Resume
    PROVE  WindowInv'
<1>. USE Data DEF AttemptInv, SetStatusInv, WindowInv, At, To, Command, Idle, Begin,
         CmdOK, PhasesOK, Typed, WriteSteps, LaunchSteps, ResetSteps, ChildSteps, Resuming,
         MarksInHand, PointerInHand, RunningInHand, MayMark, MayPoint, MayRun, Held, InHand
<1>1. CASE BeginResume
  BY <1>1 DEF BeginResume, terminal, launches, window, phases, control
<1>2. CASE Uncommit
  BY <1>2 DEF Uncommit, terminal, launches, window, phases, control
<1>3. CASE ReopenRow
  BY <1>3 DEF ReopenRow, terminal, launches, window, phases, control
<1>4. CASE ForgetPointer
  BY <1>4 DEF ForgetPointer, terminal, launches, window, phases, control
<1>5. CASE DisarmMarkers
  BY <1>5 DEF DisarmMarkers, terminal, launches, window, phases, control
<1>6. CASE PruneEdges
  BY <1>6 DEF PruneEdges, terminal, launches, window, phases, control
<1>7. CASE ResetChildRunning
  BY <1>7 DEF ResetChildRunning, terminal, launches, window, phases, control
<1>8. CASE RunningAgain
  BY <1>8 DEF RunningAgain, terminal, launches, window, phases, control
<1>9. CASE Resumed
  BY <1>9 DEF Resumed, terminal, launches, window, phases, control
<1>. QED
  BY <1>1, <1>2, <1>3, <1>4, <1>5, <1>6, <1>7, <1>8, <1>9 DEF Resume

LEMMA HandWindow ==
    ASSUME Typed, AttemptInv, SetStatusInv, WindowInv, Hand
    PROVE  WindowInv'
<1>. USE Data DEF AttemptInv, SetStatusInv, WindowInv, At, To, Command, Idle, Begin,
         CmdOK, PhasesOK, Typed, WriteSteps, LaunchSteps, ResetSteps, ChildSteps, Resuming,
         MarksInHand, PointerInHand, RunningInHand, MayMark, MayPoint, MayRun, Held, InHand
<1>1. CASE \E st \in HandStatus : HandSetStatus(st)
  BY <1>1 DEF HandSetStatus, ByHand, terminal, launches, window, phases, control
<1>2. CASE \E c \in Child : HandDeactivate(c)
  BY <1>2 DEF HandDeactivate, ByHand, terminal, launches, window, phases, control
<1>3. CASE \E c \in Child : \E forced \in BOOLEAN : HandTimeout(c, forced)
  BY <1>3 DEF HandTimeout, ByHand, terminal, launches, window, phases, control
<1>. QED
  BY <1>1, <1>2, <1>3 DEF Hand

LEMMA TroubleWindow ==
    ASSUME Typed, AttemptInv, SetStatusInv, WindowInv, Trouble
    PROVE  WindowInv'
<1>. USE Data DEF AttemptInv, SetStatusInv, WindowInv, At, To, Command, Idle, Begin,
         CmdOK, PhasesOK, Typed, WriteSteps, LaunchSteps, ResetSteps, ChildSteps, Resuming,
         MarksInHand, PointerInHand, RunningInHand, MayMark, MayPoint, MayRun, Held, InHand
<1>1. CASE Handle
  BY <1>1 DEF Handle, terminal, launches, window, phases, control
<1>2. CASE HandleEnded
  BY <1>2 DEF HandleEnded, Leave, terminal, launches, window, phases, control
<1>3. CASE Refuse
  BY <1>3 DEF Refuse, ToHandler, Undo, Folded, terminal, launches, window, phases, control
<1>4. CASE Error
  BY <1>4 DEF Error, ToHandler, Undo, Folded, terminal, launches, window, phases, control
<1>5. CASE Interrupt
  BY <1>5 DEF Interrupt, Undo, terminal, launches, window, phases, control
<1>6. CASE Crash
  BY <1>6 DEF Crash, terminal, launches, window, phases, control
<1>7. CASE \E p \in Phase : Foreign(p)
  BY <1>7 DEF Foreign, terminal, launches, window, phases, control
<1>. QED
  BY <1>1, <1>2, <1>3, <1>4, <1>5, <1>6, <1>7 DEF Trouble

LEMMA AskPass ==
    ASSUME Typed, AttemptInv, SetStatusInv, WindowInv, PassInv, Ask
    PROVE  PassInv'
<1>. USE Data DEF AttemptInv, SetStatusInv, WindowInv, PassInv, At, To, Command, Idle, Begin,
         CmdOK, ControlOK, PhasesOK, Typed, WriteSteps, LaunchSteps, ResetSteps, ChildSteps,
            Resuming,
         Passed, PassedBelow, Launching, EdgesInHand, EveryEdgeIsRecorded
<1>1. CASE BeginAsk
  BY <1>1 DEF BeginAsk, Driving, LaunchesOK, terminal, launches, window, phases, control
<1>2. CASE \E forced \in BOOLEAN : Answer(forced)
  BY <1>2 DEF Answer, LaunchesOK, terminal, launches, window, phases, control
<1>. QED
  BY <1>1, <1>2 DEF Ask

LEMMA RecordLaunchPass ==
    ASSUME Typed, AttemptInv, SetStatusInv, WindowInv, PassInv, RecordLaunch
    PROVE  PassInv'
<1>. USE Data DEF AttemptInv, SetStatusInv, WindowInv, PassInv, At, To, Command, Idle, Begin,
         CmdOK, ControlOK, PhasesOK, Typed, WriteSteps, LaunchSteps, ResetSteps, ChildSteps,
            Resuming,
         Passed, PassedBelow, Launching, EdgesInHand, EveryEdgeIsRecorded
<1>1. CASE \E c \in Child : BeginLaunch(c) \/ BeginDiagnose(c)
  BY <1>1 DEF BeginLaunch, BeginDiagnose, Driving, LaunchesOK, terminal, launches, window, phases,
     control
<1>2. CASE Gate
  BY <1>2 DEF Gate, LaunchesOK, terminal, launches, window, phases, control
<1>3. CASE WriteFiles
  BY <1>3 DEF WriteFiles, LaunchesOK, terminal, launches, window, phases, control
<1>4. CASE AddEdge
  BY <1>4 DEF AddEdge, LaunchesOK, terminal, launches, window, phases, control
<1>5. CASE LaunchRecorded
  BY <1>5 DEF LaunchRecorded, Transition, LaunchesOK, terminal, launches, window, phases, control
<1>6. CASE ChildRunning
  BY <1>6 DEF ChildRunning, Transition, LaunchesOK, terminal, launches, window, phases, control
<1>7. CASE Point
  BY <1>7 DEF Point, LaunchesOK, terminal, launches, window, phases, control
<1>8. CASE Mark
  BY <1>8 DEF Mark, LaunchesOK, terminal, launches, window, phases, control
<1>9. CASE Launched
  BY <1>9 DEF Launched, LaunchesOK, terminal, launches, window, phases, control
<1>10. CASE \E st \in {"fail", "fail_closed"} : Blocked(st)
  BY <1>10 DEF Blocked, LaunchesOK, terminal, launches, window, phases, control
<1>. QED
  BY <1>1, <1>2, <1>3, <1>4, <1>5, <1>6, <1>7, <1>8, <1>9, <1>10 DEF RecordLaunch

LEMMA FinalizeChildPass ==
    ASSUME Typed, AttemptInv, SetStatusInv, WindowInv, PassInv, FinalizeChild
    PROVE  PassInv'
<1>. USE Data DEF AttemptInv, SetStatusInv, WindowInv, PassInv, At, To, Command, Idle, Begin,
         CmdOK, ControlOK, PhasesOK, Typed, WriteSteps, LaunchSteps, ResetSteps, ChildSteps,
            Resuming,
         Passed, PassedBelow, Launching, EdgesInHand, EveryEdgeIsRecorded
<1>1. CASE BeginFinalize
  BY <1>1 DEF BeginFinalize, LaunchesOK, terminal, launches, window, phases, control
<1>2. CASE Open
  BY <1>2 DEF Open, LaunchesOK, terminal, launches, window, phases, control
<1>3. CASE Unmark
  BY <1>3 DEF Unmark, LaunchesOK, terminal, launches, window, phases, control
<1>4. CASE Unpoint
  BY <1>4 DEF Unpoint, LaunchesOK, terminal, launches, window, phases, control
<1>5. CASE AppendRow
  BY <1>5 DEF AppendRow, LaunchesOK, terminal, launches, window, phases, control
<1>6. CASE AppendInvalid
  BY <1>6 DEF AppendInvalid, ToHandler, Undo, Folded, LaunchesOK, terminal, launches, window,
     phases, control
<1>7. CASE ChildFinished
  BY <1>7 DEF ChildFinished, Transition, LaunchesOK, terminal, launches, window, phases, control
<1>8. CASE ClosePointer
  BY <1>8 DEF ClosePointer, LaunchesOK, terminal, launches, window, phases, control
<1>9. CASE DropMarker
  BY <1>9 DEF DropMarker, LaunchesOK, terminal, launches, window, phases, control
<1>10. CASE Finalized
  BY <1>10 DEF Finalized, LaunchesOK, terminal, launches, window, phases, control
<1>11. CASE Return
  BY <1>11 DEF Return, LaunchesOK, terminal, launches, window, phases, control
<1>. QED
  BY <1>1, <1>2, <1>3, <1>4, <1>5, <1>6, <1>7, <1>8, <1>9, <1>10, <1>11 DEF FinalizeChild

LEMMA WriteStepResultPass ==
    ASSUME Typed, AttemptInv, SetStatusInv, WindowInv, PassInv, WriteStepResult
    PROVE  PassInv'
<1>. USE Data DEF AttemptInv, SetStatusInv, WindowInv, PassInv, At, To, Command, Idle, Begin,
         CmdOK, ControlOK, PhasesOK, Typed, WriteSteps, LaunchSteps, ResetSteps, ChildSteps,
            Resuming,
         Passed, PassedBelow, Launching, EdgesInHand, EveryEdgeIsRecorded
<1>1. CASE \E st \in {"pass", "fail"} : BeginWrite(st)
  BY <1>1 DEF BeginWrite, Driving, LaunchesOK, terminal, launches, window, phases, control
<1>2. CASE Ready
  BY <1>2 DEF Ready, LaunchesOK, terminal, launches, window, phases, control
<1>3. CASE Certify
  BY <1>3 DEF Certify, LaunchesOK, terminal, launches, window, phases, control
<1>4. CASE Archive
  BY <1>4 DEF Archive, LaunchesOK, terminal, launches, window, phases, control
<1>5. CASE WriteResult
  BY <1>5 DEF WriteResult, LaunchesOK, terminal, launches, window, phases, control
<1>6. CASE Hook
  BY <1>6 DEF Hook, LaunchesOK, terminal, launches, window, phases, control
<1>7. CASE ResultWritten
  BY <1>7 DEF ResultWritten, Transition, LaunchesOK, terminal, launches, window, phases, control
<1>8. CASE Wrote
  BY <1>8 DEF Wrote, LaunchesOK, terminal, launches, window, phases, control
<1>. QED
  BY <1>1, <1>2, <1>3, <1>4, <1>5, <1>6, <1>7, <1>8 DEF WriteStepResult

LEMMA ResetPass ==
    ASSUME Typed, AttemptInv, SetStatusInv, WindowInv, PassInv, Reset
    PROVE  PassInv'
<1>. USE Data DEF AttemptInv, SetStatusInv, WindowInv, PassInv, At, To, Command, Idle, Begin,
         CmdOK, ControlOK, PhasesOK, Typed, WriteSteps, LaunchSteps, ResetSteps, ChildSteps,
            Resuming,
         Passed, PassedBelow, Launching, EdgesInHand, EveryEdgeIsRecorded
<1>1. CASE \E p \in Phase : BeginReset(p)
  BY <1>1 DEF BeginReset, Driving, LaunchesOK, terminal, launches, window, phases, control
<1>2. CASE Revoke
  BY <1>2 DEF Revoke, LaunchesOK, terminal, launches, window, phases, control
<1>3. CASE ResetPhase
  <2>1. /\ cmd.step = "reset" /\ cmd.p >= cur /\ cmd.op = "reset"
        /\ phase' = [phase EXCEPT ![cmd.p] = "not_started"]
        /\ UNCHANGED <<launches, result, control>>
    BY <1>3 DEF ResetPhase
  <2>2. cmd' \in {[cmd EXCEPT !.p = @ + 1], [cmd EXCEPT !.step = "rerouted"]}
    BY <1>3 DEF ResetPhase
  <2>3. /\ cmd'.op = cmd.op /\ cmd'.c = cmd.c /\ cmd'.st = cmd.st
        /\ cmd'.step \in {"reset", "rerouted"} /\ (cmd'.step = "reset" => cmd'.p >= cur)
    BY <2>1, <2>2
  <2>. QED
    BY <2>1, <2>3 DEF launches, control
<1>4. CASE Rerouted
  BY <1>4 DEF Rerouted, LaunchesOK, terminal, launches, window, phases, control
<1>. QED
  BY <1>1, <1>2, <1>3, <1>4 DEF Reset

LEMMA SetStatusPass ==
    ASSUME Typed, AttemptInv, SetStatusInv, WindowInv, PassInv, SetStatus
    PROVE  PassInv'
<1>. USE Data DEF AttemptInv, SetStatusInv, WindowInv, PassInv, At, To, Command, Idle, Begin,
         CmdOK, ControlOK, PhasesOK, Typed, WriteSteps, LaunchSteps, ResetSteps, ChildSteps,
            Resuming,
         Passed, PassedBelow, Launching, EdgesInHand, EveryEdgeIsRecorded
<1>1. CASE \E st \in Terminal : BeginSetStatus(st)
  BY <1>1, ConstantsAssumption DEF BeginSetStatus, Driving, LaunchesOK, terminal, launches,
     window, phases, control
<1>2. CASE Check
  BY <1>2 DEF Check, LaunchesOK, terminal, launches, window, phases, control
<1>3. CASE WriteMeta
  BY <1>3 DEF WriteMeta, LaunchesOK, terminal, launches, window, phases, control
<1>4. CASE FinalizeRow
  BY <1>4 DEF FinalizeRow, LaunchesOK, terminal, launches, window, phases, control
<1>5. CASE Clean
  BY <1>5 DEF Clean, LaunchesOK, terminal, launches, window, phases, control
<1>6. CASE CleanFails
  BY <1>6 DEF CleanFails, LaunchesOK, terminal, launches, window, phases, control
<1>7. CASE CommitCleanup
  BY <1>7 DEF CommitCleanup, LaunchesOK, terminal, launches, window, phases, control
<1>8. CASE LogStatus
  BY <1>8 DEF LogStatus, LaunchesOK, terminal, launches, window, phases, control
<1>9. CASE Backfill
  BY <1>9 DEF Backfill, LaunchesOK, terminal, launches, window, phases, control
<1>10. CASE Ended
  <2>1. CASE driver = "live" /\ cmd.c # None
    <3>1. /\ cmd' = Idle /\ leaf' = None /\ cur' = cur
          /\ driver' = "failing" \/ (driver' = "live" /\ did' = "unrecordable")
          /\ UNCHANGED <<launches, phases>>
      BY <1>10, <2>1 DEF Ended, ToHandler, Folded
    <3>2. PassedBelow
      BY <1>10, <2>1 DEF Ended
    <3>3. PassedBelow'
      BY <3>1, <3>2 DEF phases
    <3>. QED
      BY <3>1, <3>3
  <2>2. CASE ~(driver = "live" /\ cmd.c # None)
    <3>1. /\ cmd' = Idle /\ driver' = "none" /\ leaf' \in {None, leaf} /\ cur' = cur
          /\ UNCHANGED <<launches, phases>>
      BY <1>10, <2>2 DEF Ended, Leave, control
    <3>. QED
      BY <3>1 DEF launches, phases
  <2>. QED
    BY <2>1, <2>2
<1>. QED
  BY <1>1, <1>2, <1>3, <1>4, <1>5, <1>6, <1>7, <1>8, <1>9, <1>10 DEF SetStatus

LEMMA ResumePass ==
    ASSUME Typed, AttemptInv, SetStatusInv, WindowInv, PassInv, Resume
    PROVE  PassInv'
<1>. USE Data DEF AttemptInv, SetStatusInv, WindowInv, PassInv, At, To, Command, Idle, Begin,
         CmdOK, ControlOK, PhasesOK, Typed, WriteSteps, LaunchSteps, ResetSteps, ChildSteps,
            Resuming,
         Passed, PassedBelow, Launching, EdgesInHand, EveryEdgeIsRecorded
<1>1. CASE BeginResume
  BY <1>1 DEF BeginResume, LaunchesOK, terminal, launches, window, phases, control
<1>2. CASE Uncommit
  BY <1>2 DEF Uncommit, LaunchesOK, terminal, launches, window, phases, control
<1>3. CASE ReopenRow
  BY <1>3 DEF ReopenRow, LaunchesOK, terminal, launches, window, phases, control
<1>4. CASE ForgetPointer
  BY <1>4 DEF ForgetPointer, LaunchesOK, terminal, launches, window, phases, control
<1>5. CASE DisarmMarkers
  BY <1>5 DEF DisarmMarkers, LaunchesOK, terminal, launches, window, phases, control
<1>6. CASE PruneEdges
  BY <1>6 DEF PruneEdges, LaunchesOK, terminal, launches, window, phases, control
<1>7. CASE ResetChildRunning
  BY <1>7 DEF ResetChildRunning, LaunchesOK, terminal, launches, window, phases, control
<1>8. CASE RunningAgain
  BY <1>8 DEF RunningAgain, LaunchesOK, terminal, launches, window, phases, control
<1>9. CASE Resumed
  BY <1>9 DEF Resumed, LaunchesOK, terminal, launches, window, phases, control
<1>. QED
  BY <1>1, <1>2, <1>3, <1>4, <1>5, <1>6, <1>7, <1>8, <1>9 DEF Resume

LEMMA HandPass ==
    ASSUME Typed, AttemptInv, SetStatusInv, WindowInv, PassInv, Hand
    PROVE  PassInv'
<1>. USE Data DEF AttemptInv, SetStatusInv, WindowInv, PassInv, At, To, Command, Idle, Begin,
         CmdOK, ControlOK, PhasesOK, Typed, WriteSteps, LaunchSteps, ResetSteps, ChildSteps,
            Resuming,
         Passed, PassedBelow, Launching, EdgesInHand, EveryEdgeIsRecorded
<1>1. CASE \E st \in HandStatus : HandSetStatus(st)
  BY <1>1 DEF HandSetStatus, ByHand, LaunchesOK, terminal, launches, window, phases, control
<1>2. CASE \E c \in Child : HandDeactivate(c)
  BY <1>2 DEF HandDeactivate, ByHand, LaunchesOK, terminal, launches, window, phases, control
<1>3. CASE \E c \in Child : \E forced \in BOOLEAN : HandTimeout(c, forced)
  BY <1>3 DEF HandTimeout, ByHand, LaunchesOK, terminal, launches, window, phases, control
<1>. QED
  BY <1>1, <1>2, <1>3 DEF Hand

LEMMA TroublePass ==
    ASSUME Typed, AttemptInv, SetStatusInv, WindowInv, PassInv, Trouble
    PROVE  PassInv'
<1>. USE Data DEF AttemptInv, SetStatusInv, WindowInv, PassInv, At, To, Command, Idle, Begin,
         CmdOK, ControlOK, PhasesOK, Typed, WriteSteps, LaunchSteps, ResetSteps, ChildSteps,
            Resuming,
         Passed, PassedBelow, Launching, EdgesInHand, EveryEdgeIsRecorded
<1>1. CASE Handle
  BY <1>1 DEF Handle, LaunchesOK, terminal, launches, window, phases, control
<1>2. CASE HandleEnded
  BY <1>2 DEF HandleEnded, Leave, LaunchesOK, terminal, launches, window, phases, control
<1>3. CASE Refuse
  BY <1>3 DEF Refuse, ToHandler, Undo, Folded, LaunchesOK, terminal, launches, window, phases,
     control
<1>4. CASE Error
  BY <1>4 DEF Error, ToHandler, Undo, Folded, LaunchesOK, terminal, launches, window, phases,
     control
<1>5. CASE Interrupt
  BY <1>5 DEF Interrupt, Undo, LaunchesOK, terminal, launches, window, phases, control
<1>6. CASE Crash
  BY <1>6 DEF Crash, LaunchesOK, terminal, launches, window, phases, control
<1>7. CASE \E p \in Phase : Foreign(p)
  BY <1>7 DEF Foreign, LaunchesOK, terminal, launches, window, phases, control
<1>. QED
  BY <1>1, <1>2, <1>3, <1>4, <1>5, <1>6, <1>7 DEF Trouble

LEMMA IInvStep == IInv /\ [Next]_vars => IInv'
<1>. SUFFICES ASSUME IInv, [Next]_vars PROVE IInv'
  OBVIOUS
<1>1. Typed /\ AttemptInv /\ StatusInv
  BY TypeParts DEF IInv
<1>2. Typed' /\ AttemptInv'
  <2>1. CASE Next
    BY <1>1, <2>1, AskTyped, RecordLaunchTyped, FinalizeChildTyped, WriteStepResultTyped,
       ResetTyped,
       SetStatusTyped, ResumeTyped, HandTyped, TroubleTyped DEF Next
  <2>2. CASE UNCHANGED vars
    <3>1. UNCHANGED <<terminal, launches, window, phases, control, cmd, bounds, files>>
      BY <2>2 DEF vars, launches
    <3>2. Typed'
      BY <1>1, <3>1, Unchanged DEF Typed, CmdOK
    <3>3. AttemptInv'
      BY <1>1, <3>1 DEF AttemptInv, control
    <3>. QED
      BY <3>2, <3>3
  <2>. QED
    BY <2>1, <2>2
<1>3. StatusInv'
  BY StatusInvStep DEF IInv
<1>4. WindowInv'
  <2>1. SetStatusInv /\ WindowInv
    BY DEF IInv, StatusInv
  <2>2. CASE Next
    BY <1>1, <2>1, <2>2, AskWindow, RecordLaunchWindow, FinalizeChildWindow, WriteStepResultWindow,
       ResetWindow, SetStatusWindow, ResumeWindow, HandWindow, TroubleWindow DEF Next
  <2>3. CASE UNCHANGED vars
    <3>1. UNCHANGED <<active, pointer, phase, of, driver, leaf, did, cmd>>
      BY <2>3 DEF vars, launches, window, phases, control
    <3>. QED
      BY <2>1, <3>1 DEF WindowInv, MarksInHand, PointerInHand, RunningInHand, MayMark, MayPoint,
         MayRun, Held, InHand
  <2>. QED
    BY <2>2, <2>3
<1>5. PassInv'
  <2>1. SetStatusInv /\ WindowInv /\ PassInv
    BY DEF IInv, StatusInv
  <2>2. CASE Next
    BY <1>1, <2>1, <2>2, AskPass, RecordLaunchPass, FinalizeChildPass, WriteStepResultPass,
       ResetPass, SetStatusPass, ResumePass, HandPass, TroublePass DEF Next
  <2>3. CASE UNCHANGED vars
    <3>1. UNCHANGED <<launches, phase, result, driver, cur, leaf, did, cmd>>
      BY <2>3 DEF vars, phases, control
    <3>. QED
      BY <2>1, <3>1 DEF launches, PassInv, Passed, PassedBelow, EdgesInHand, EveryEdgeIsRecorded
  <2>. QED
    BY <2>2, <2>3
<1>. QED
  BY <1>2, <1>3, <1>4, <1>5, TypeParts DEF IInv

(* The inductive invariant: types, the order in which set-status and resume *)
(* write their files, and the window of the child in the driver's hand.    *)
THEOREM Invariance == Spec => []IInv
<1>1. Init => IInv
  BY InitIInv
<1>2. IInv /\ [Next]_vars => IInv'
  BY IInvStep
<1>. QED
  BY <1>1, <1>2, PTL DEF Spec

(* Type correctness: the record never holds a value no code writes.        *)
THEOREM TypeCorrect == Spec => []TypeOK
<1>1. IInv => TypeOK
  BY DEF IInv
<1>. QED
  BY <1>1, Invariance, PTL

(* A record that says running is open in every file, whatever crash, error *)
(* or interrupt cut a set-status or a resume short.                        *)
THEOREM RunningIsAlwaysOpen == Spec => []RunningIsOpen
<1>1. IInv => RunningIsOpen
  BY DEF IInv, StatusInv
<1>. QED
  BY <1>1, Invariance, PTL

(* The validator's exemption is withdrawn only once the scratch is gone.   *)
THEOREM MarkerAlwaysMeansClean == Spec => []MarkerMeansClean
<1>1. IInv => MarkerMeansClean
  BY DEF IInv, StatusInv
<1>. QED
  BY <1>1, Invariance, PTL

(* A set-status that returns has made the meta and the row agree and has   *)
(* the event of its own transition in the log, unless it repairs a call    *)
(* over the event of an earlier transition to the same status.             *)
THEOREM SetStatusAlwaysSettles == Spec => []SetStatusSettles
<1>1. IInv => SetStatusSettles
  BY DEF IInv, StatusInv, SetStatusInv, SetStatusSettles, At
<1>. QED
  BY <1>1, Invariance, PTL
(* A driver's launch never finds the window of a child of a driver before   *)
(* it, so that record-launch does not refuse it and close the run for good, *)
(* whatever crash, error, interrupt or command by hand went before.         *)
THEOREM LaunchIsNeverRefused == Spec => []LaunchIsNotRefused
<1>1. IInv => LaunchIsNotRefused
  <2>. SUFFICES ASSUME IInv, At("gate") PROVE LaunchIsNotRefused
    BY DEF LaunchIsNotRefused
  <2>1. Typed /\ AttemptInv /\ WindowInv
    BY TypeParts DEF IInv
  <2>2. cmd.step = "gate" /\ cmd.op \in {"launch", "diagnose"} /\ driver = "live" /\ leaf = None
    BY <2>1 DEF At, AttemptInv, LaunchSteps
  <2>3. MarksInHand /\ PointerInHand /\ RunningInHand
    BY <2>1, <2>2 DEF WindowInv
  <2>4. ~MayMark /\ ~MayPoint /\ ~MayRun
    BY <2>2 DEF MayMark, MayPoint, MayRun, Held
  <2>. QED
    BY <2>3, <2>4 DEF LaunchIsNotRefused, MarksInHand, PointerInHand, RunningInHand
<1>. QED
  BY <1>1, Invariance, PTL

(* A driver that has come past its last phase is not refused its pass by    *)
(* what an earlier attempt, driver or crash left in the record: every edge  *)
(* has its row, and every phase's latest result passed or was superseded by *)
(* a skip.                                                                  *)
THEOREM PassIsNeverRefused == Spec => []PassIsNotRefused
<1>1. IInv => PassIsNotRefused
  <2>. SUFFICES ASSUME IInv, At("check"), driver = "live", cmd.st = "pass"
                PROVE  EveryEdgeIsRecorded /\ LatestResultsPass
    BY DEF PassIsNotRefused
  <2>1. Typed /\ AttemptInv /\ SetStatusInv /\ PassInv
    BY TypeParts DEF IInv, StatusInv
  <2>2. cmd.op = "set_status" /\ cur > Last /\ leaf = None
    BY <2>1 DEF At, AttemptInv, SetStatusInv, PassInv
  <2>3. did = "unasked"
    BY <2>1, <2>2, Data DEF AttemptInv, Typed, ControlOK
  <2>4. PassedBelow /\ EdgesInHand
    BY <2>1, <2>2, <2>3 DEF PassInv
  <2>5. LatestResultsPass
    BY <2>1, <2>2, <2>4, Data DEF PassedBelow, Passed, LatestResultsPass, Typed, ControlOK
  <2>6. EveryEdgeIsRecorded
    BY <2>2, <2>4 DEF EdgesInHand, Launching, EveryEdgeIsRecorded, At
  <2>. QED
    BY <2>5, <2>6
<1>. QED
  BY <1>1, Invariance, PTL
=============================================================================
