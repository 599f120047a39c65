------------------------ MODULE OrchestrationRecord ------------------------
(***************************************************************************)
(* The record of one orchestration under workspace/orchestrations/<id>:    *)
(* the launches of its children, the state of its phases, their step       *)
(* results, and its terminal status.  The driver changes it by commands    *)
(* of orchestration_runtime.py, each a process that writes several files,  *)
(* one after another; it may be killed, interrupted or meet an error       *)
(* between any two of them.  An operator may run commands by hand while no *)
(* driver holds the claim, and `--resume` sets the record straight.        *)
(*                                                                         *)
(* The claim keeps drivers apart (run_workflow.py, _exclusive_claim), so   *)
(* that one command runs at a time.  A command takes a step for each file  *)
(* it writes.  Outputs are kept as "stamped or not" per phase: Conductor   *)
(* models what they contain.                                               *)
(***************************************************************************)
EXTENDS Naturals

CONSTANTS
    Child,        \* agent_run_ids of the children launched, each used once
    Sequential,   \* the children on the backend with the sequential gate
    Last,         \* the phases are 1 .. Last
    StepPhases,   \* phases without substeps: the child itself is the executor
    EndStatus,    \* what a run that does not pass records by itself
    HandStatus,   \* what an operator records by hand
    MaxFaults,    \* bound on crashes, errors and interrupts
    MaxForeign,   \* bound on outputs another run or an operator changes
    None

Attempts == {"unasked", "asked", "finalized", "failed", "diagnosed", "unrecordable"}

ASSUME ConstantsAssumption ==
    /\ Sequential \subseteq Child
    /\ None \notin Child
    /\ Last \in Nat \ {0}
    /\ StepPhases \subseteq 1 .. Last
    /\ EndStatus \subseteq {"fail", "fail_closed"}
    /\ HandStatus \subseteq {"fail", "fail_closed", "cancel"}
    /\ MaxFaults \in Nat
    /\ MaxForeign \in Nat

Phase == 1 .. Last
Terminal == {"pass", "fail", "fail_closed", "cancel"}
PhaseStates == {"not_started", "launch_recorded", "child_running", "child_finished",
                "step_result_written", "skipped_certified"}
Results == {"none", "pass", "fail"}

VARIABLES
    status,     \* orchestration_meta.json: status
    row,        \* the status in the orchestration's own row of agent_runs.jsonl
    marker,     \* the cleanup_committed marker of the orchestration's scratch
    scratch,    \* workspace/tmp/<orchestration agent> exists
    logged,     \* statuses with a set_status event in phase_state_log.jsonl
    recorded,   \* history: the event the log has for the present status is that
                \* transition's own, that of an earlier one to it, or none
    files,      \* children with their four launches/ files
    of,         \* the phase each of them was launched for
    edges,      \* children with an edge in agent_graph.json
    runs,       \* children with a row in agent_runs.jsonl
    invalid,    \* children with a row in agent_runs_invalid.jsonl
    active,     \* children with a marker active_children/<arid>.txt
    pointer,    \* active_child_agent_run_id.txt
    phase,      \* phase_state.json: node_states
    result,     \* the status in the latest step_result.json of each phase
    stamped,    \* phases with a stage meta that certifies an output
    driver,     \* none, live, or in one of its handlers
    cur,        \* the phase the driver is at
    leaf,       \* the child it has launched and not finalized
    did,        \* how far its attempt at that phase is
    cmd,        \* the command that runs, for the driver or by hand
    aside,      \* the prior step result a write has moved aside
    faults, foreign

terminal == <<status, row, marker, scratch, logged, recorded>>
launches == <<files, of, edges, runs, invalid>>
window == <<active, pointer>>
phases == <<phase, result, stamped, aside>>
control == <<driver, cur, leaf, did>>
bounds == <<faults, foreign>>
vars == <<terminal, launches, window, phases, control, cmd, bounds>>

-----------------------------------------------------------------------------
(* A command runs step by step, each a check or the write of one file. *)
Steps ==
    {"none", "answer",
     "gate", "files", "edge", "recorded", "running", "point", "mark", "launched",
     "open", "unmark", "unpoint", "append", "finished", "close", "drop", "finalized", "return",
     "ready", "certify", "archive", "result", "hook", "written", "wrote",
     "revoke", "reset", "rerouted",
     "check", "meta", "row", "clean", "commit", "log", "backfill", "ended",
     "uncommit", "reopen", "forget", "disarm", "prune", "unrun", "running_again", "resumed"}
Ops == {"none", "ask", "launch", "diagnose", "finalize", "timeout", "deactivate", "write", "reset",
        "set_status", "forward", "retry", "replay", "resume"}

Command(op, step, c, p, st) == [op |-> op, step |-> step, c |-> c, p |-> p, st |-> st]
Idle == Command("none", "none", None, 1, "none")

At(step) == cmd.step = step
To(step) == cmd' = [cmd EXCEPT !.step = step]

\* An output certifies its phase on the chain of the outputs above it.
Certified(p) == \A q \in 1 .. p : q \in stamped

\* The completion vouch, in its clauses (d), (c), the edgeless case, and (e).
EveryEdgeIsRecorded == edges \subseteq runs \union invalid
RunsAreTraceable == edges = {} => runs = {}
LatestResultsPass ==
    \A p \in Phase : phase[p] = "skipped_certified" \/ result[p] \in {"none", "pass"}
Vouched == Certified(Last) /\ EveryEdgeIsRecorded /\ RunsAreTraceable /\ LatestResultsPass

\* The checks at which a command refuses.
Allowed ==
    /\ At("open") => cmd.c \in active /\ pointer \in {None, cmd.c}
    /\ At("append") => cmd.c \in files \ runs
    /\ At("ready") => phase[cmd.p] = "child_finished"
    /\ At("check") /\ status # cmd.st =>
           /\ status \in Terminal => status = "fail" /\ cmd.st = "fail_closed"
           /\ cmd.st = "pass" => Vouched

\* An orchestration that init has just opened, with its driver about to start.
Init ==
    /\ status = "running"
    /\ row = "running"
    /\ marker = FALSE
    /\ scratch = TRUE
    /\ logged = {}
    /\ recorded = "own"
    /\ files = {} /\ edges = {} /\ runs = {} /\ invalid = {}
    /\ of = [c \in Child |-> 1]
    /\ active = {}
    /\ pointer = None
    /\ phase = [p \in Phase |-> "not_started"]
    /\ result = [p \in Phase |-> "none"]
    /\ stamped = {}
    /\ aside = "none"
    /\ driver = "live" /\ cur = 1 /\ leaf = None /\ did = "unasked"
    /\ cmd = Idle
    /\ faults = 0 /\ foreign = 0

-----------------------------------------------------------------------------
(* What the driver asks for next. *)
Driving == driver = "live" /\ cmd = Idle /\ leaf = None
Begin(op, step, c, p, st) ==
    /\ cmd' = Command(op, step, c, p, st)
    /\ UNCHANGED <<terminal, launches, window, phases, control, bounds>>

BeginAsk == Driving /\ cur <= Last /\ did = "unasked" /\ Begin("ask", "answer", None, cur, "none")

\* A phase asked about and not skipped runs; it may launch several children.
BeginLaunch(c) ==
    /\ Driving
    /\ cur <= Last
    /\ did \in {"asked", "finalized"}
    /\ c \notin files
    /\ Begin("launch", "gate", c, cur, "none")

\* A failure the tables do not route is diagnosed by one more child, whether or
\* not the phase has a step result by then.
BeginDiagnose(c) ==
    /\ Driving
    /\ did \in {"finalized", "failed"}
    /\ c \notin files
    /\ Begin("diagnose", "gate", c, cur, "none")

BeginFinalize ==
    /\ driver = "live"
    /\ cmd = Idle
    /\ leaf # None
    /\ Begin("finalize", "open", leaf, of[leaf], "none")

BeginWrite(st) == Driving /\ did = "finalized" /\ Begin("write", "ready", None, cur, st)

\* A failed phase is routed to itself or to one above it.
BeginReset(p) ==
    /\ Driving
    /\ did \in {"failed", "diagnosed"}
    /\ p <= cur
    /\ Begin("reset", "revoke", None, p, "none")

\* The run ends with a pass past its last phase; it may fail at any phase, and
\* fails closed when a diagnosis could not be recorded.
BeginSetStatus(st) ==
    /\ Driving
    /\ \/ cur > Last /\ st = "pass"
       \/ cur <= Last /\ did # "unrecordable" /\ st \in EndStatus
       \/ did = "unrecordable" /\ st = "fail_closed"
    /\ Begin("set_status", "check", None, 1, st)

\* A handler of run_workflow.py ends the run, or finds that it has ended.
Leave ==
    /\ driver' = "none"
    /\ scratch' = FALSE
    /\ leaf' = None
    /\ UNCHANGED <<cur, did>>

Busy == cmd # Idle
Fault == faults < MaxFaults /\ faults' = faults + 1

\* write-step-result puts the prior result back when it raises before its
\* hook has passed; no other command undoes what it wrote.
Undo ==
    /\ result' = IF At("result") \/ At("hook") THEN [result EXCEPT ![cmd.p] = aside] ELSE result
    /\ aside' = "none"
    /\ UNCHANGED <<phase, stamped>>

\* The driver folds what a diagnosis raises, in a set-status nested in its
\* launch too.
Folded ==
    /\ driver = "live"
    /\ cmd.op = "diagnose" \/ (cmd.c # None /\ did = "diagnosed")

\* Any other command that raises sends the driver to the next of its handlers.
ToHandler ==
    /\ driver' = CASE Folded -> driver
                   [] ~Folded /\ driver = "live" /\ cmd.op # "resume" -> "failing"
                   [] driver = "live" /\ cmd.op = "resume" -> "backstop"
                   [] driver = "failing" -> "backstop"
                   [] OTHER -> "none"
    /\ did' = IF Folded THEN "unrecordable" ELSE did
    /\ scratch' = IF driver \in {"backstop", "cancelling"} THEN FALSE ELSE scratch
    /\ leaf' = None
    /\ cmd' = Idle
    /\ UNCHANGED <<status, row, marker, logged, recorded, cur>>

Handle ==
    /\ cmd = Idle
    /\ \/ /\ driver = "failing"
          /\ status \notin {"fail_closed", "cancel"}
          /\ Begin("set_status", "check", None, 1, "fail")
       \/ /\ driver = "backstop"
          /\ status \notin Terminal
          /\ Begin("set_status", "check", None, 1, "fail")
       \/ /\ driver = "cancelling"
          /\ status \notin Terminal
          /\ Begin("set_status", "check", None, 1, "cancel")

HandleEnded ==
    /\ cmd = Idle
    /\ \/ driver = "failing" /\ status \in {"fail_closed", "cancel"}
       \/ driver \in {"backstop", "cancelling"} /\ status \in Terminal
    /\ Leave
    /\ UNCHANGED <<status, row, marker, logged, recorded, launches, window, phases, cmd, bounds>>

-----------------------------------------------------------------------------
(* The skip.  A phase forced by --rederive is asked about without a record. *)
Answer(forced) ==
    /\ At("answer")
    /\ IF Certified(cmd.p) /\ ~forced
       THEN /\ phase' = [phase EXCEPT ![cmd.p] = "skipped_certified"]
            /\ cur' = cur + 1
            /\ did' = "unasked"
       ELSE /\ did' = "asked"
            /\ UNCHANGED <<phase, cur>>
    /\ cmd' = Idle
    /\ UNCHANGED <<terminal, launches, window, result, stamped, aside, driver, leaf, bounds>>

-----------------------------------------------------------------------------
(* record-launch *)
SequentialViolation == cmd.c \in Sequential /\ pointer # None

Gate ==
    /\ At("gate")
    /\ ~SequentialViolation
    /\ To("files")
    /\ UNCHANGED <<terminal, launches, window, phases, control, bounds>>

\* A preflight that fails, the sequential gate, the hook before the launch and a
\* sandbox that cannot be built end the orchestration themselves, by a nested
\* set-status that names the child; then the command raises.
Blocked(st) ==
    /\ At("gate")
    /\ IF SequentialViolation /\ st = "fail_closed" THEN UNCHANGED faults ELSE Fault
    /\ cmd' = Command("set_status", "check", cmd.c, 1, st)
    /\ did' = IF cmd.op = "diagnose" THEN "diagnosed" ELSE did
    /\ UNCHANGED <<terminal, launches, window, phases, driver, cur, leaf, foreign>>

WriteFiles ==
    /\ At("files")
    /\ files' = files \union {cmd.c}
    /\ of' = [of EXCEPT ![cmd.c] = cmd.p]
    /\ To("edge")
    /\ UNCHANGED <<terminal, edges, runs, invalid, window, phases, control, bounds>>

AddEdge ==
    /\ At("edge")
    /\ edges' = edges \union {cmd.c}
    /\ To("recorded")
    /\ UNCHANGED <<terminal, files, of, runs, invalid, window, phases, control, bounds>>

Transition(step, p, state, next) ==
    /\ At(step)
    /\ phase' = [phase EXCEPT ![p] = state]
    /\ To(next)
    /\ UNCHANGED <<terminal, launches, window, result, stamped, aside, control, bounds>>

LaunchRecorded == Transition("recorded", cmd.p, "launch_recorded", "running")
ChildRunning == Transition("running", cmd.p, "child_running", "point")

Point ==
    /\ At("point")
    /\ pointer' = IF cmd.c \in Sequential THEN cmd.c ELSE pointer
    /\ To("mark")
    /\ UNCHANGED <<terminal, launches, active, phases, control, bounds>>

Mark ==
    /\ At("mark")
    /\ active' = active \union {cmd.c}
    /\ To("launched")
    /\ UNCHANGED <<terminal, launches, pointer, phases, control, bounds>>

Launched ==
    /\ At("launched")
    /\ leaf' = cmd.c
    /\ did' = IF cmd.op = "diagnose" THEN "diagnosed" ELSE did
    /\ cmd' = Idle
    /\ UNCHANGED <<terminal, launches, window, phases, driver, cur, bounds>>

-----------------------------------------------------------------------------
(* finalize-child: deactivate-child, record-reply, record-agent-run *)
Open ==
    /\ At("open")
    /\ Allowed
    /\ To("unmark")
    /\ UNCHANGED <<terminal, launches, window, phases, control, bounds>>

Unmark ==
    /\ At("unmark")
    /\ active' = active \ {cmd.c}
    /\ To("unpoint")
    /\ UNCHANGED <<terminal, launches, pointer, phases, control, bounds>>

Unpoint ==
    /\ At("unpoint")
    /\ pointer' = None
    /\ To(IF cmd.op = "finalize" THEN "append" ELSE "return")
    /\ UNCHANGED <<terminal, launches, active, phases, control, bounds>>

\* The row, under the lock; a terminal payload that does not validate goes to
\* the invalid log and the command raises (the outcome AppendInvalid).
AppendRow ==
    /\ At("append")
    /\ Allowed
    /\ runs' = runs \union {cmd.c}
    /\ To("finished")
    /\ UNCHANGED <<terminal, files, of, edges, invalid, window, phases, control, bounds>>

ChildFinished == Transition("finished", of[cmd.c], "child_finished", "close")

\* A sequential child's row unlinks the pointer, whichever child it names.
ClosePointer ==
    /\ At("close")
    /\ pointer' = IF cmd.c \in Sequential THEN None ELSE pointer
    /\ To("drop")
    /\ UNCHANGED <<terminal, launches, active, phases, control, bounds>>

DropMarker ==
    /\ At("drop")
    /\ active' = active \ {cmd.c}
    /\ To(IF cmd.op = "finalize" THEN "finalized" ELSE "return")
    /\ UNCHANGED <<terminal, launches, pointer, phases, control, bounds>>

Finalized ==
    /\ At("finalized")
    /\ leaf' = None
    /\ did' = IF did = "diagnosed" THEN did ELSE "finalized"
    /\ cmd' = Idle
    /\ UNCHANGED <<terminal, launches, window, phases, driver, cur, bounds>>

Return ==
    /\ At("return")
    /\ cmd' = Idle
    /\ UNCHANGED <<terminal, launches, window, phases, control, bounds>>

-----------------------------------------------------------------------------
(* write-step-result *)
Ready ==
    /\ At("ready")
    /\ Allowed
    /\ To("certify")
    /\ UNCHANGED <<terminal, launches, window, phases, control, bounds>>

\* A stamp starts a new chain: what stood below it was bound to the output
\* before.  A failed attempt strips its own output, which is not the standing
\* one when the phase was forced.
Certify ==
    /\ At("certify")
    /\ \E standing \in {stamped, stamped \ {cmd.p}} :
          stamped' = IF cmd.st = "pass"
                     THEN {q \in stamped : q < cmd.p} \union {cmd.p}
                     ELSE standing
    /\ To("archive")
    /\ UNCHANGED <<terminal, launches, window, phase, result, aside, control, bounds>>

\* The attempts of a phase with substeps share one file, so that the last one
\* is moved aside; a phase without has a file per executor.
Archive ==
    /\ At("archive")
    /\ aside' = result[cmd.p]
    /\ result' = IF cmd.p \in StepPhases THEN result ELSE [result EXCEPT ![cmd.p] = "none"]
    /\ To("result")
    /\ UNCHANGED <<terminal, launches, window, phase, stamped, control, bounds>>

WriteResult ==
    /\ At("result")
    /\ result' = [result EXCEPT ![cmd.p] = cmd.st]
    /\ To("hook")
    /\ UNCHANGED <<terminal, launches, window, phase, stamped, aside, control, bounds>>

Hook ==
    /\ At("hook")
    /\ aside' = "none"
    /\ To("written")
    /\ UNCHANGED <<terminal, launches, window, phase, result, stamped, control, bounds>>

ResultWritten == Transition("written", cmd.p, "step_result_written", "wrote")

Wrote ==
    /\ At("wrote")
    /\ cur' = IF cmd.st = "pass" THEN cur + 1 ELSE cur
    /\ did' = IF cmd.st = "pass" THEN "unasked" ELSE "failed"
    /\ cmd' = Idle
    /\ UNCHANGED <<terminal, launches, window, phases, driver, leaf, bounds>>

-----------------------------------------------------------------------------
(* revoke_and_reset: revoke-artifact, then reset-phase, one write a phase *)
Revoke ==
    /\ At("revoke")
    /\ stamped' = stamped \ {cmd.p}
    /\ cur' = cmd.p
    /\ To("reset")
    /\ UNCHANGED <<terminal, launches, window, phase, result, aside, driver, leaf, did, bounds>>

ResetPhase ==
    /\ At("reset")
    /\ phase' = [phase EXCEPT ![cmd.p] = "not_started"]
    /\ IF cmd.p < Last THEN cmd' = [cmd EXCEPT !.p = @ + 1] ELSE To("rerouted")
    /\ UNCHANGED <<terminal, launches, window, result, stamped, aside, control, bounds>>

Rerouted ==
    /\ At("rerouted")
    /\ did' = "unasked"
    /\ cmd' = Idle
    /\ UNCHANGED <<terminal, launches, window, phases, driver, cur, leaf, bounds>>

-----------------------------------------------------------------------------
(* set-status, under the meta lock: a status set again repairs what an      *)
(* earlier call left undone.                                                *)
Check ==
    /\ At("check")
    /\ Allowed
    /\ cmd' = IF status # cmd.st THEN Command("forward", "meta", cmd.c, 1, cmd.st)
              ELSE IF marker THEN Command("replay", "backfill", cmd.c, 1, cmd.st)
              ELSE Command("retry", "row", cmd.c, 1, cmd.st)
    /\ UNCHANGED <<terminal, launches, window, phases, control, bounds>>

WriteMeta ==
    /\ At("meta")
    /\ status' = cmd.st
    /\ recorded' = IF cmd.st \in logged THEN "earlier" ELSE "none"
    /\ To("row")
    /\ UNCHANGED <<row, marker, scratch, logged, launches, window, phases, control, bounds>>

FinalizeRow ==
    /\ At("row")
    /\ row' = cmd.st
    /\ To(IF cmd.op = "replay" THEN "ended" ELSE "clean")
    /\ UNCHANGED <<status, marker, scratch, logged, recorded, launches, window, phases, control,
                   bounds>>

Clean ==
    /\ At("clean")
    /\ scratch' = FALSE
    /\ To("commit")
    /\ UNCHANGED <<status, row, marker, logged, recorded, launches, window, phases, control, bounds>>

\* A cleanup that fails is not raised: the marker is not written.
CleanFails ==
    /\ At("clean")
    /\ scratch
    /\ faults < MaxFaults
    /\ faults' = faults + 1
    /\ To(IF cmd.op = "forward" THEN "log" ELSE "backfill")
    /\ UNCHANGED <<terminal, launches, window, phases, control, foreign>>

CommitCleanup ==
    /\ At("commit")
    /\ marker' = TRUE
    /\ To(IF cmd.op = "forward" THEN "log" ELSE "backfill")
    /\ UNCHANGED <<status, row, scratch, logged, recorded, launches, window, phases, control, bounds>>

LogStatus ==
    /\ At("log")
    /\ logged' = logged \union {cmd.st}
    /\ recorded' = "own"
    /\ To("ended")
    /\ UNCHANGED <<status, row, marker, scratch, launches, window, phases, control, bounds>>

\* Mutant of Backfill: a replay takes the event for logged.
BackfillNothing ==
    /\ At("backfill")
    /\ To(IF cmd.op = "replay" THEN "row" ELSE "ended")
    /\ UNCHANGED <<terminal, launches, window, phases, control, bounds>>

\* A replay appends the event only if the log has none with this status: one
\* that an earlier transition to it left, before a resume, is taken for its own.
Backfill ==
    /\ At("backfill")
    /\ logged' = logged \union {cmd.st}
    /\ recorded' = IF cmd.st \in logged THEN recorded ELSE "own"
    /\ To(IF cmd.op = "replay" THEN "row" ELSE "ended")
    /\ UNCHANGED <<status, row, marker, scratch, launches, window, phases, control, bounds>>

Ended ==
    /\ At("ended")
    /\ IF driver = "live" /\ cmd.c # None
       THEN ToHandler
       ELSE /\ cmd' = Idle
            /\ IF driver = "none" THEN UNCHANGED <<scratch, control>> ELSE Leave
            /\ UNCHANGED <<status, row, marker, logged, recorded>>
    /\ UNCHANGED <<launches, window, phases, bounds>>

-----------------------------------------------------------------------------
(* init --resume, by a new driver that holds the claim *)
BeginResume ==
    /\ driver = "none"
    /\ cmd = Idle
    /\ driver' = "live"
    /\ cmd' = Command("resume", "uncommit", None, 1, "none")
    /\ UNCHANGED <<terminal, launches, window, phases, cur, leaf, did, bounds>>

Uncommit ==
    /\ At("uncommit")
    /\ marker' = FALSE
    /\ To("reopen")
    /\ UNCHANGED <<status, row, scratch, logged, recorded, launches, window, phases, control, bounds>>

ReopenRow ==
    /\ At("reopen")
    /\ row' = "running"
    /\ To("forget")
    /\ UNCHANGED <<status, marker, scratch, logged, recorded, launches, window, phases, control,
                   bounds>>

\* Mutant of ForgetPointer: a resume leaves the sequential pointer.
ForgetNothing ==
    /\ At("forget")
    /\ To("disarm")
    /\ UNCHANGED <<terminal, launches, window, phases, control, bounds>>

ForgetPointer ==
    /\ At("forget")
    /\ pointer' = None
    /\ To("disarm")
    /\ UNCHANGED <<terminal, launches, active, phases, control, bounds>>

DisarmMarkers ==
    /\ At("disarm")
    /\ active' = {}
    /\ To("prune")
    /\ UNCHANGED <<terminal, launches, pointer, phases, control, bounds>>

\* Mutant of PruneEdges: a resume keeps the edge of an abandoned launch.
PruneNothing ==
    /\ At("prune")
    /\ To("unrun")
    /\ UNCHANGED <<terminal, launches, window, phases, control, bounds>>

\* An edge is an orphan when its child was launched and left no trace.
PruneEdges ==
    /\ At("prune")
    /\ edges' = {c \in edges : c \notin files \/ c \in runs \union invalid}
    /\ To("unrun")
    /\ UNCHANGED <<terminal, files, of, runs, invalid, window, phases, control, bounds>>

ResetChildRunning ==
    /\ At("unrun")
    /\ phase' = [p \in Phase |-> IF phase[p] = "child_running" THEN "not_started" ELSE phase[p]]
    /\ To("running_again")
    /\ UNCHANGED <<terminal, launches, window, result, stamped, aside, control, bounds>>

RunningAgain ==
    /\ At("running_again")
    /\ status' = "running"
    /\ recorded' = "own"
    /\ To("resumed")
    /\ UNCHANGED <<row, marker, scratch, logged, launches, window, phases, control, bounds>>

Resumed ==
    /\ At("resumed")
    /\ scratch' = TRUE
    /\ cur' = 1
    /\ did' = "unasked"
    /\ cmd' = Idle
    /\ UNCHANGED <<status, row, marker, logged, recorded, launches, window, phases, driver, leaf,
                   bounds>>

-----------------------------------------------------------------------------
(* Commands by hand, while no driver holds the claim. *)
ByHand(op, step, c, st) == driver = "none" /\ cmd = Idle /\ Begin(op, step, c, 1, st)

HandSetStatus(st) == ByHand("set_status", "check", None, st)

HandDeactivate(c) ==
    /\ pointer \in {None, c}
    /\ c \in active \union {pointer}
    /\ ByHand("deactivate", "unmark", c, "none")

HandTimeout(c, forced) ==
    /\ c \in files \ runs
    /\ c \in active \union ({pointer} \cap Sequential) => forced
    /\ ByHand("timeout", "append", c, "none")

-----------------------------------------------------------------------------
(* What goes wrong. *)
Refuse ==
    /\ Busy
    /\ ~Allowed
    /\ ToHandler
    /\ Undo
    /\ UNCHANGED <<launches, window, bounds>>

Error ==
    /\ Busy
    /\ Fault
    /\ ToHandler
    /\ Undo
    /\ UNCHANGED <<launches, window, foreign>>

AppendInvalid ==
    /\ At("append")
    /\ Allowed
    /\ Fault
    /\ invalid' = invalid \union {cmd.c}
    /\ ToHandler
    /\ Undo
    /\ UNCHANGED <<files, of, edges, runs, window, foreign>>

\* SIGTERM or Ctrl-C: the handler cancels the run.  The command is killed, or
\* raises first, since Ctrl-C reaches its process too.
Interrupt ==
    /\ driver # "none"
    /\ Fault
    /\ driver' = IF driver \in {"live", "failing"} THEN "cancelling" ELSE "none"
    /\ scratch' = IF driver \in {"backstop", "cancelling"} THEN FALSE ELSE scratch
    /\ leaf' = None
    /\ cmd' = Idle
    /\ \/ Undo
       \/ aside' = "none" /\ UNCHANGED <<phase, result, stamped>>
    /\ UNCHANGED <<status, row, marker, logged, recorded, launches, window, cur, did, foreign>>

\* SIGKILL, or the host goes down.
Crash ==
    /\ driver # "none" \/ Busy
    /\ Fault
    /\ driver' = "none"
    /\ leaf' = None
    /\ cmd' = Idle
    /\ aside' = "none"
    /\ UNCHANGED <<terminal, launches, window, phase, result, stamped, cur, did, foreign>>

\* Another orchestration, or an operator, certifies or revokes an output.
Foreign(p) ==
    /\ foreign < MaxForeign
    /\ stamped' = IF p \in stamped THEN stamped \ {p} ELSE stamped \union {p}
    /\ foreign' = foreign + 1
    /\ UNCHANGED <<terminal, launches, window, phase, result, aside, control, cmd, faults>>

-----------------------------------------------------------------------------
Ask == BeginAsk \/ \E forced \in BOOLEAN : Answer(forced)
RecordLaunch ==
    \/ \E c \in Child : BeginLaunch(c) \/ BeginDiagnose(c)
    \/ \E st \in {"fail", "fail_closed"} : Blocked(st)
    \/ Gate \/ WriteFiles \/ AddEdge \/ LaunchRecorded \/ ChildRunning \/ Point \/ Mark \/ Launched
FinalizeChild ==
    \/ BeginFinalize
    \/ Open \/ Unmark \/ Unpoint \/ AppendRow \/ AppendInvalid \/ ChildFinished \/ ClosePointer
    \/ DropMarker \/ Finalized \/ Return
WriteStepResult ==
    \/ \E st \in {"pass", "fail"} : BeginWrite(st)
    \/ Ready \/ Certify \/ Archive \/ WriteResult \/ Hook \/ ResultWritten \/ Wrote
Reset == (\E p \in Phase : BeginReset(p)) \/ Revoke \/ ResetPhase \/ Rerouted
SetStatus ==
    \/ \E st \in Terminal : BeginSetStatus(st)
    \/ Check \/ WriteMeta \/ FinalizeRow \/ Clean \/ CleanFails \/ CommitCleanup \/ LogStatus
    \/ Backfill \/ Ended
Resume ==
    \/ BeginResume
    \/ Uncommit \/ ReopenRow \/ ForgetPointer \/ DisarmMarkers \/ PruneEdges \/ ResetChildRunning
    \/ RunningAgain \/ Resumed
Hand ==
    \/ \E st \in HandStatus : HandSetStatus(st)
    \/ \E c \in Child : HandDeactivate(c) \/ \E forced \in BOOLEAN : HandTimeout(c, forced)
Trouble ==
    \/ Handle \/ HandleEnded \/ Refuse \/ Error \/ Interrupt \/ Crash
    \/ \E p \in Phase : Foreign(p)

Next ==
    \/ Ask \/ RecordLaunch \/ FinalizeChild \/ WriteStepResult \/ Reset
    \/ SetStatus \/ Resume \/ Hand \/ Trouble

Spec == Init /\ [][Next]_vars

-----------------------------------------------------------------------------
(* Properties *)
TypeOK ==
    /\ status \in Terminal \union {"running"}
    /\ row \in Terminal \union {"running"}
    /\ marker \in BOOLEAN /\ scratch \in BOOLEAN
    /\ recorded \in {"own", "earlier", "none"}
    /\ logged \subseteq Terminal
    /\ files \subseteq Child /\ edges \subseteq files /\ runs \subseteq files
    /\ invalid \subseteq files /\ active \subseteq files
    /\ of \in [Child -> Phase]
    /\ pointer \in files \union {None}
    /\ phase \in [Phase -> PhaseStates]
    /\ result \in [Phase -> Results]
    /\ aside \in Results
    /\ stamped \subseteq Phase
    /\ driver \in {"none", "live", "failing", "backstop", "cancelling"}
    /\ cur \in 1 .. Last + 1
    /\ leaf \in files \union {None}
    /\ did \in Attempts
    /\ cmd \in [op : Ops, step : Steps, c : Child \union {None}, p : Phase,
               st : Terminal \union {"none"}]
    /\ faults \in 0 .. MaxFaults /\ foreign \in 0 .. MaxForeign

\* However the drivers before it ended and whatever was done by hand, a live
\* driver that launches a child finds no other child's window open: no marker,
\* no pointer, no phase left running.  record-launch would refuse the launch
\* and close the run for good.
LaunchIsNotRefused ==
    At("gate") => /\ active = {}
                  /\ pointer = None
                  /\ \A p \in Phase : phase[p] # "child_running"

\* A driver that reaches the end of its phases is not refused its pass by what
\* an earlier attempt or driver left in the record: every edge's child has a
\* row, and every phase's latest result passed or was superseded by a skip.
PassIsNotRefused ==
    At("check") /\ driver = "live" /\ cmd.st = "pass" => EveryEdgeIsRecorded /\ LatestResultsPass

\* An orchestration recorded as running is open in every record: its row runs
\* and the marker of its last cleanup is gone, whatever failed between.
RunningIsOpen == status = "running" => row = "running" /\ ~marker

\* The cleanup marker is never beside scratch that is still there: the
\* workspace validator withdraws its exemption on the marker's word.
MarkerMeansClean == marker => ~scratch

\* A set-status that returns leaves the meta and the row at its status, and the
\* log with the event of this very transition, also when it repairs a call that
\* was cut short - but for one case, in which the event that the docstring of
\* _phase_state_log_has_set_status promises is lost: the log holds the event of
\* an earlier transition to the status, from before a resume, this one's append
\* failed, and the call that repairs it takes the old event for the new one.
SetStatusSettles ==
    At("ended") =>
        /\ status = cmd.st /\ row = status
        /\ \/ recorded = "own"
           \/ recorded = "earlier" /\ cmd.op \in {"retry", "replay"}

=============================================================================
