# A verification project for atmofab

atmofab turns a physics specification into a validated program. A workflow walks
four phases (Compile: spec to IR; Generate: IR to source; Build: source to binary;
Validate: run and judge). A phase's substeps are done by LLM "leaves" started as
child processes or by host code, and everything they produce is recorded in JSON
under `workspace/`. The interesting part of the program is not the numerics but the
*driver*: who may start what, which recorded output may be adopted again, what a
failure condemns, who is stopped and what survives a crash. That driver is what these
modules model. Everything below refers to files under `src/tools/` unless it says
otherwise.

## 1. Inventory

### Components, their state, their operations

| component | code | state it keeps | operations | module |
|---|---|---|---|---|
| Workflow conductor | `workflow_conductor.py` (`Conductor`) | in memory: phase index, refs in hand, charges per phase, pending repairs, the count of execute failures without a verdict; on disk: nothing but what it asks the runtime to record | walk the phases, run a substep, classify a failure, diagnose, route (stop, repair, reopen, revoke), end | `Conductor` |
| Artifact store and certification | `orchestration_runtime.py` (`DerivationResolver`, `_stamp_certification`, `_strip_certification`, `_revoke_stage_meta`) | one stage meta per IR, source, binary and run directory: its content, its derivation signature, certified or revoked | select an output for a key, certify on a passing result, strip on a failing one, revoke | in `Conductor`, `SharedIr` |
| Orchestration record | `orchestration_runtime.py` (`record_launch`, `record_agent_run`, `finalize_child`, `write_step_result`, `update_orchestration_status`, `resume_orchestration`) | `orchestration_meta.json`, `agent_graph.json`, `phase_state.json`, `step_result.json` per step, launch requests and responses, session index | launch, finish, time out and deactivate a child, write a step result, reset a phase, terminalize, resume, vouch for a pass | `OrchestrationRecord` |
| Registration transaction | `orchestration_runtime.py` (`_write_json_transaction`, `_recover_json_transactions_unlocked`) | two target files, a staging directory with new and old bodies, a journal | register an emitted thread, recover after an error or a restart | `Registration`, `AtomicRegistration` |
| Closure scheduler | `run_workflow.py` (`_schedule_closure_members`, `_run_closure_members_parallel`, `_stop_closure_members`) | pending, running and finished members, the failure that stopped the launches | launch a ready member, reap, stop after a failure, terminate on an interrupt | `ClosureScheduler` |
| Node runner and ownership | `run_workflow.py` (`_exclusive_claim`, `_owns_orchestration`, `_terminalize_owned`, `_terminalize_interrupted_orchestration`, `_run_node`, `_run_closure_member`) | advisory locks on claim files, held by the process that runs a node; one orchestration record per invocation; the flags of `_run_node` | claim, find a claim held, init or resume, conduct, record the end of what it owns on an error or an interrupt, clean up, release | `NodeRuns` |
| Shared IR | `workflow_conductor.py` (`prepare_node`, `resume_node_refs`, `_hold_compile_claim`, `_superseded_ir_detail`) and the vouch of `orchestration_runtime.py` | the Compile claim of a node, the IR directories every target's run reads, the ids a run has minted | adopt or mint an IR, wait for the claim, derive, condemn, notice a superseded IR, vouch at the end | `SharedIr` |
| Workshop loop and lineages | `workflow_conductor.py` (`_run_workshop_producer_substep`, `_run_leaf_reviewer_substep`, `_WorkshopLineageMachine`), `llm_workshop_loop.py`, `workshop_tree.py`, `usage_reset.py` | a lineage (a session of a leaf and its tree), its end and what it has left; counts of repairs, re-reads, retries and waits | launch warm or cold, accept, send back, read again, retry a death, wait for a usage window, give up | `Workshop` |
| Wrapper endpoint | `workshop_mcp.py` (`WrapperMcpServer`), `workshop_wrapper.py` (`run_wrapper_op`) | handler threads, the commands they run, the lineage record with its reason to end | serve an operation under a cap and a deadline, end the lineage, stop: kill and join | `WrapperEndpoint` |
| Supervision of a leaf | `workflow_conductor.py` (`spawn_leaf`, `_read_codex_json_leaf`, `_terminate_leaf_process_group`) | a process group known by a pinned pid, its two pipes, the threads that read them, a bounded queue, what was read of the turn | read the turn, cap, cancel, interrupt, terminate the group, drain, bind the thread | `LeafRun` |
| Remote execution | `remote_execution.py`, `execution_sites.py` | a job directory on the site, the collected copy, the command log | create, ship the inputs, run the script in the foreground under a bound, collect, compare, remove, log | `RemoteJob` |
| Host commands | `build_runtime.py`, `host_execution.py`, `leaf_netns.py` | none beyond one call | run one command under a timeout | - |
| Workflow homes | `prune_workflow_homes.py`, `operator_private_root.py` | per-run private directories and markers | create, mark, prune what belongs to a terminal record | - |
| Semantic validation, verdicts | `validate_pipeline_semantics.py`, `validate_workspace_root.py`, `verdict_evaluator.py`, `primary_evidence.py`, `judge_replay.py` | none: pure checks over the artifacts | evaluate | - |
| Derivation and dependency graph | `derivation.py`, `dependency_graph.py`, `target_profile.py` | none | signature of a derivation, order and closure of nodes | - |
| Code generation | `codegen_bundle.py`, `runner_ir.py`, `leaf_contract.py`, `backends/` | none | render a bundle, analyse sources | - |
| Configuration, audit, diagnostics | `llm_config.py`, `host_prerequisites.py`, `audit_orchestration.py`, `orchestration_diagnostics.py` | none | validate, report | - |

### How they interact

`run_workflow` builds the dependency closure of the requested node and runs its
members, each in a process of its own; a member's process claims the node, opens an
orchestration record and constructs a `Conductor`. The conductor calls the runtime
as a command line: `check-phase-certified`, `record-launch`, `write-step-result`,
`revoke-artifact`, `reset-phase`, `set-status`. An LLM substep is a loop of launches
of a leaf, a child process whose tree is its answer and which calls back into the
conductor's process through the wrapper endpoint. Build and the execution of Validate
may run at a remote site over `ssh`. Runs of one node on different targets share the IR
directory of that node and nothing else. An operator may revoke a certified output,
resume an orchestration, edit a spec or the map of sites, or start another run at any
time.

There is no message passing: components meet in files, pipes and one local socket.
Mutual exclusion is by `fcntl` locks and exclusive creation, atomicity by rename,
recovery by re-reading.

### Where it is hard

* **A decision and its effect are separated by a crash.** A run decides that an
  upstream output is to be re-derived, and then dies, or ends by policy. The next
  run sees the store only.
* **One name, several contents.** An output is selected by the signature of what it
  was derived from. Reopening a phase can produce the content of an earlier round
  again, and then everything certified under it stands again.
* **Counters with several resets.** Charges, repairs and failure counts are zeroed,
  popped or carried over in different places of one loop; the workshop loops have
  four budgets more, each with its own way to be spent.
* **Two-file updates.** A registration replaces two files and must survive a crash
  between the renames, and a crash during the recovery from that crash.
* **Commands of many writes.** One command of the runtime writes up to eight files, one
  after another, and may be killed between any two; the next driver, or an operator
  with a command by hand, starts from what was written.
* **Concurrent members** of a closure: a failure stops the launches, an interrupt
  stops the processes, and what is already running must still be reaped.
* **Claims in two orders.** A cold run claims its spec and then its record, a resumed
  one the other way round; members wait, everybody else is refused.
* **Shared outputs**: two runs of a node on different targets derive the same IR, and
  either may condemn it while the other works on it.
* **Sessions that outlive a launch.** A warm launch reads what an earlier one left; a
  launch that died, was cut or was bounded also left something.
* **Stopping what was started.** A leaf may leak a process that holds its pipes; a
  pid may be another process's by the time it is signalled; the wrapper's handlers
  start commands while the endpoint kills them.
* **A bound on the host only.** An `ssh` call that was given up goes on at the site,
  beside the next attempt, and what ran there is known only from what came back.

### What makes each component correct

* Conductor: a pass is recorded only on a chain of certified outputs; what was
  condemned is not adopted before it has been derived again; every run ends;
  a discarded producer session is not resumed.
* Registration transaction: whatever crashes happen, a reader sees both files of
  before or both files of after; the recovery always ends; a body is never lost.
* Closure scheduler: no member runs before its dependencies have passed; never more
  than the allowed number at once; nothing starts after a failure; every started
  member is reaped, and the run returns.
* Orchestration record: what a driver, a crash or an operator left never refuses the
  next driver's launch or pass; a record that says running is open in every file;
  the cleanup marker means that the scratch is gone; a set-status that returns has
  made the meta and the row agree and left the event of its transition in the log.
* Node runs: two runs at work never share a record or a spec; a run ends only its own
  record and always ends it; its scratch stays while it works; nobody waits in a circle
  (the code does not keep the last of these, see section 4).
* Shared IR: while nobody forces a Compile, one IR per key stands; what one target has
  certified is undone by a decision only; whoever holds the Compile claim is compiling.
* Workshop: no document of a launch that did not finish, and no review of a tree that
  was read in part, becomes a pass; findings go to a producer that sees the document
  they are about; every substep ends.
* Wrapper endpoint: the snapshot of a tree is taken when nothing writes into it; no
  command runs on after the stop; the leaf hears of the end of its lineage; `stop()`
  returns.
* Leaf supervision: an accepted answer is of a leaf that ended by itself; the whole
  group is stopped and no stranger is, but for the window no look can close; the conductor
  always returns.
* Remote jobs: the log tells what ran at the site, as far as nothing was hidden from the
  host; nothing is removed there before it was read; a binary runs where it was built.

## 2. Plan

The modules in the order of what matters most to the program.

| | module | component | composes | status |
|---|---|---|---|---|
| 1 | `Conductor` | the phase loop with the store it reads | - | done, safety proved |
| 2 | `Registration`, `AtomicRegistration` | the two-file transaction and its abstract specification | the first implements the second | done, proved |
| 3 | `ClosureScheduler` | the parallel scheduler and its members | a member's run is one `Conductor` run, seen as "may derive, may fail" | done, safety proved |
| 4 | `OrchestrationRecord` | the commands that write the record, the handlers, `--resume` | the driver is the walk of `Conductor`, seen from the files | done, proved |
| 5 | `Workshop` | the producer and the reviewer loop over lineages | a launch is a `LeafRun`, seen by how it ended | done, safety proved |
| 6 | `WrapperEndpoint` | the operations a leaf calls, and the stop | one launch of `Workshop` | done, safety proved |
| 7 | `SharedIr` | conductors of one node on several targets, the Compile claim, the superseded IR, the vouch | several reduced conductors over one IR store | done, proved |
| 8 | `NodeRuns` | the processes over records and specs: claims, `_run_node`, drivers and members | the drivers of `OrchestrationRecord` and `ClosureScheduler` over their claims | done, safety proved but for the circle the code can close |
| 9 | `LeafRun` | one leaf process under its conductor | - | done, safety proved |
| 10 | `RemoteJob` | a job at a remote site | - | done, safety proved |
| - | `Verdict`, `Severity` | the verdict evaluator and the severity policy as pure functions | - | not done |
| - | `WorkflowHomes` | a prune that races a resume | - | not done |

The two rows left are the smallest of the driver: a function without state, and one
operator command whose effect on a run `Workshop` already takes into account.

Every safety property of the runs is stated by a theorem. Theorems worth proving next: ranks
for the loops that have none yet (`RunsRunDown` and `SubstepsRunDown` bound a run of the
conductor and a substep; an attempt of a remote job and a `stop()` of the endpoint allow the
same), and that a `NodeRuns` process implements what `OrchestrationRecord` and
`ClosureScheduler` take a driver and a member to be.

## 3. The modules and the code

Line numbers of every definition are in `PROJECT.json` under `map`. This section says
how to read the modules. Two proof modules speak of two components each (`Workshop_proofs` of
`WrapperEndpoint` too, `LeafRun_proofs` of `RemoteJob` too), so that names the two would share
carry a prefix: `EndpointNext`, `JobNext`.

### Conductor

One node, its runs one after another, and the part of the artifact store that the
runs read. The store is four variables: `ir`, `src` by IR content, `bin` by source
content, and `val`. A value of the first three is what
`DerivationResolver` answers for that key: nothing, a passing content, or a
revocation that shadows the content it condemned. That the key of an output is the
content of its inputs is what the derivation signature does, and it is why a phase
that produces an earlier content brings everything below it back.

`pc` says where `_conduct_phases` is: at the top of the loop for phase `idx`, in the
body at substep `sub`, holding a decision (`ticket`), or ending. `SkipForced`,
`SkipUnnamed`, `Skip` and `Refuse` are the branches of the certification check at the
top of the loop; `SubstepPass`, `PhasePass`, `Fail`, `FailPredicate`, `FailNoVerdict`
and `FailRunnerGap` the results of the body with the routes of `classify_failure`
(`ProducerRoutes`, `CheckerRoutes`, `ReviewRoutes`, `BuildRoutes`, `JudgeRoutes`,
`NoVerdictRoutes`); `Diagnose` is `escalate`; and the actions from `Halt` to
`ReopenUpstream` are the branches of the rest of the loop in the order of the code,
each with its charge, its revocation and the seeds of the repair. `StopBeforePass`
and `Finish` are the checks before `set_status("pass")`. `Crash` forgets everything
in memory; `StartRun` seeds repairs from the revocations it finds.

A run may be started with any of the configurations in `Configs` (mode, `--until`,
`--rederive`, host runner). `OperatorRevoke` is `revoke-artifact` by hand between runs.

The variables `condemned` and `misses` are history: what a decision condemned and
nobody has derived again, and the failures an IR had in fact.

### Registration and AtomicRegistration

Each child has an actor of its own that writes the launch response, registers the
thread its provider emitted (`_bind_codex_thread`), aborts, finishes, or is a new
conductor that repairs. `lock` is the lock of the session index. Under it every
actor first recovers (`recover` to `sweep`: index before response, then the journal,
then the directory) and then does its own work (`body` to `clean`). `Error` is an
exception at the step in hand, with the inner `try` of the transaction (rollback and
re-raise) told apart from the steps after the commit point, which no handler rolls
back. `Crash` drops the lock, as `fcntl` does when its holder dies, and leaves the
files.

`AtomicRegistration` has the two files and three operations, each one step. The
refinement mapping takes as the abstract state what a locked reader would see after
its recovery: the old bodies while a journal is there, else the files.

### ClosureScheduler

`pc` walks `_schedule_closure_members`: the top of the loop, the scan over `pending`
in launch order, the moment between the start of a process and its entry into
`running` (`spawned`), the reaping, the moment between `pop` and the verdict
(`popped`), and after an interrupt the termination (`term`, `await`). `proc` is the
process of each member and `ready` what the store answers for it now. A member
`Derived` may take outputs above it away or bring them back; a `Disturb` by another
run only takes away. `held` are claims of other drivers, for which a member waits.
`Interrupt` may come between any two steps, twice.

### OrchestrationRecord

One variable for each file or part of a file that a command writes, and one command
(`cmd`) at a time with the step it is at; each step is one write or one check of
`record-launch`, `finalize-child`, `write-step-result`, `reset-phase` with the
revocation before it, `set-status` and `init --resume`. The driver (`driver`, `cur`,
`leaf`, `did`) asks for the next command as the conductor does, and `Handle` are the
handlers of `run_workflow.py` in the order they get a failure: the fail of the
conductor's exception, the backstop, and the cancellation on a signal. `Error` is an
exception at any step of any command, `Refuse` a check that does not hold,
`Interrupt` a signal to the driver, `Crash` its death; `Blocked` is a gate of `record-launch`
that ends the orchestration itself by a nested set-status, whose own failure it swallows, and
then raises into the handlers or into a diagnosis that folds it; what `write-step-result`
itself undoes is `Undo`. While no driver holds the claim, an operator may set a
terminal status, deactivate a child or record a timeout.

`stamped` keeps of an output only whether it certifies its phase, and `Foreign` is
another run of the same node that changes that.

### Workshop

One substep's loop, of a kind (`produces`, `reads`) and a transport (`claude`, `codex`,
`http`). A `lineage` is the record of a session and its tree as far as the loops ask of
it: how it ended, the time and the calls it has left, whether an HTTP conversation is
kept, which document lies in the tree, whether that document is the one the findings
under repair speak of (`about`), and whether every launch in the tree `finished` and
read the texts `whole`. `pc` walks the loop: before the first launch (`StartAfresh`,
`ReopenWarm`, `ReopenCold`: an outer reopen that names the attempt to repair), the
choice of warm or cold (`Warm`, `Cold`, `SetupFails`, `HomeGone`), the launch (`Launch`
and how it ended, or `EndpointNotStopped`), and the judgement of what it left (`Judge`:
accept, repair, read again, retry a death, wait for the usage window, give up).
`attempt`, `cutTurns`, `retries` and `waits` are the four counts, `spent` and `slept`
the wall clock of the last two. Times are in units; what a leaf writes is free.
`launches` and `lost` are history.

### WrapperEndpoint

The handler threads of one launch, each from the accepted connection over the bounds of
`run_wrapper_op` (ask the record, the deadline, the count, ask again under the lock) to
the commands of the operation and the answer; and the conductor's `stop()`, step by
step: no new connection, the accepted ones cut, the groups in `_pgids` killed one by
one, the handlers joined round by round until the deadline, and the snapshot only when
none is left. A command of an operation has exited but is still listed until its call
returns (`stale`), and its id may be reused meanwhile (`GroupIsReused`). `signalled`, `cancel`
and `told` are `_signal_end` and what it does to the leaf.

### SharedIr

`irs` is the sequence of the IR directories of a node in the order of their ids, `spec`
the version its keys hash, `made` what each target has certified below Compile, and
`holder` the Compile claim. A run reserves an id or adopts the selected IR in
`prepare_node`, waits for the claim, asks the store again under it, derives into its own
directory, and past Compile works without the claim; a failure stops it, or condemns
its IR and reopens Compile. Before a pass it asks whether its IR was superseded and lets
`set-status` vouch. `Edit`, `Start` and the resume are the operators'. Build goes with
Generate.

### NodeRuns

The processes of one scenario (`sc`): single runs, cold or resumed, drivers of a closure
with `--jobs`, and their members. `orch` and `spec` are the two kinds of claims; `pc`
walks from the first claim over the member's question to the store, the second claim
and the `try` of `_run_node` (`mark`, `look`, `init`, `reply`, `prepare`, `conduct`,
`raised`) to its handlers (`error`), `finally` and the release. `init` is a process of its
own: `InitWrites` is its write, `InitReturns` its answer. The flags are the local
variables the handlers decide by. A `Signal` may land at the points of `SignalPoints`, a
`Kill` anywhere; a `Lose` takes a certified output away. A driver that walks
(`Enter` to `DriverEndsWalk`) starts no more than it has dependencies fulfilled for.
`how` remembers how a run's `try` was left; `blind` is a signal at `look`, between the mark of
the attempt and the answer to whether a record was there before, when the flag the handler
decides by has its initial value.

### LeafRun

The leaf and what it may leak (`kin`: in its group or not, its pipes kept or not), the
thread that pumps stdout into a bounded queue, the one that reads stderr, and the
conductor: the read of the codex turn or the wait for a claude leaf, the cap, the
cancellation, the teardown in two rounds (`look` at the pinned pid, `signal`, `grace`),
the drain, the giving up of a stream that does not end, and the result with the binding
of the thread. The clock is the flag `late` of the deadline waited under. A `stranger`
is the process that has the leaf's pid after it; it may get the pid before a look
(`lives`, and the look sees it) or between a look and the signal (`unseen`, and the signal
finds it: `caught`). `hit` would be a signal in spite of a look, or a second one.

### RemoteJob

The driver of one Build or `Validate.execute` after another, and the site. Its `ssh`
calls are the processes `proc` there: `GivenUp` ends the wait of the host and leaves the
process, so that the rest of a job runs beside the next attempt. `did` is what the
commands of an attempt really did (history); `printed` is the stdout the driver waits for,
to which a command's status is written; `files` and `copy` are the job directory and what was
collected. A process of the job may add a line to that stdout (`StrayLine`), take one from
its pipe before the host has it (`TakesLine`), remove an output, rewrite an input and put
it back (`Interferes`); `touched` is the history of the two of these that no check of the host
can see. `Check` is the second half of `_run_job` (917-947) with its parts named
(`StatusesAgree`, `ComesBackAsSent`, `AllStarted`), and
`AppendEntry` writes one entry, whose `input` is the host's version at the comparison.
The shipping and the collection are one step each, since nobody else reads what they
move. The place a target is mapped to is chosen anew for every attempt, and each script
lands on one of the machines of its place.

## 4. The runs

| run | instance | distinct states | shows |
|---|---|---|---|
| `conductor_policies` | one content per phase, budget 1, threshold 2, two runs, major and critical severities; prod until Validate, dev until Validate with a forced Generate, prod until Compile with a forced Compile | 3,001,812 | a pass stands on a certified chain; what is condemned is not adopted before it is derived again, across a crash and a second run; a decision reaches the output it is about; a discarded session is never resumed; every run ends |
| `registration_crashes` | two children, three errors, three crashes | 42,347 | the transaction implements a registration that happens at once; the lock is let go |
| `closure` | three members, two jobs, two interrupts, a disturbed store, claims of others | 826,138 | everything started is reaped, success stands on a ready store, the driver returns |
| `record_crashes` | two children (one on a sequential backend), two phases (one without substeps), two faults, one foreign change, an operator | 8,749,359 | no launch and no pass is refused by what an earlier driver left; a set-status that returns has settled the record, with the one lost event its statement names |
| `workshop` | both loops, three transports, two repairs and two retries as in the code, two waits, resets in the past, near and beyond the cap | 2,213,700 | what a pass stands on, which lineage a launch runs in, what a producer sees, and that the substep ends |
| `endpoint` | two connections, three calls of a cap of two, two commands a call, one round of the join | 424,495 | the tree is quiet when it is copied, nothing runs on, the leaf hears of the end, `stop()` returns |
| `shared_ir` | two runs on two targets, two contents, one reopening per run, three acts of operators | 3,228,216 | one IR stands per key, the claim is with a worker, no chain is overturned but by a decision |
| `node_runs` | eight scenarios of up to six processes over four records and three specs | 1,188,831 | scratch, ends and records of others; a node is derived once; of which claims alone a circle of waits can be made |
| `node_runs_circle` | two closures resumed by different members, one kill, one lost output | violated | two drivers wait for each other's claims for good |
| `leaf_run` | a codex leaf of three lines or a claude leaf, pipe and queue of one line, a leaked process or none | 3,371,534 | what is accepted and bound, who is stopped, that the conductor returns |
| `leaf_failed_turn` | a codex leaf of three lines | violated | a turn that failed after its narration is accepted when the drain at the cap ends early |
| `remote_job` | a batch site of two kinds of nodes behind two destinations, two attempts (a Build of one command, a `Validate.execute` of two), one rewrite of the case files, one thing hidden per job | 2,916,448 | what the log tells, what is kept, where a binary runs, that every attempt ends |

The number of runs is kept small: a property that is proved for all values of the
constants is not also run unless a mutant of the code is best shown to break it. The
following hold on the instances too, and are stated in the modules and proved:
`WorkStandsOnChain`, `BackupsSuffice`, `NoSplitIdentities`, `ReportedIsDurable`,
`RunningIsOpen`, `MarkerMeansClean`, `StandsOnDone`, `JobsBound`, `NeverStalls`,
`NothingStartsAfterFailure`, `LaunchesBounded`, `RetriesWithinBudget`, `SleepBounded`,
`NothingIsOverwritten`, `OneAtWork`, and the type invariants.

### The bounds, and why they are enough

* *Contents.* A content matters only by being the same as another one. One content
  per phase makes every re-derivation bring the old chain back, which is the hard
  case; two IRs give the case of a new one.
* *Runs of a conductor.* A decision is carried from one run to the next by the store
  alone, so two runs reach every pair of a decision and its reader.
* *Attempts.* A budget of one makes the budget end on every route, in every pair of phases;
  how the charges of larger budgets meet is the proofs' (`RunsRunDown` is for every budget).
* *Errors and crashes of the registration.* Three of each reach a crash, a crash in
  its recovery, and an error in the recovery of that one.
* *Children.* Two are enough for one actor to recover what another one left; a third
  could only queue on the same lock.
* *Members.* Two above one: two may run at once and both wait for the first. Two
  interrupts reach the second signal that ends the wait. More members are the proofs'.
* *Faults of the record.* Two reach the fault in the repair of a first one, in a
  resume, in a handler or in an operator's command. Two children give a child whose
  window another one may find open; two phases a reset of more than one.
* *Workshop.* The counts of repairs and retries are the code's (2 and 2). The schedule has
  two waits instead of the code's list: the first may be shorter than a reset asks for
  and the second is the last.
* *Endpoint.* Two handlers race for the last call of a cap of two; two commands of a call
  let the kill come between them; a join of one round ends with and without a handler left.
* *Shared IR.* The code lets a run reopen its Compile three times, the instance once: a
  second reopening of the same run starts from a store that the first one also meets.
  Three acts of operators are two starts and a resume or an edit. The proofs bound neither.
* *Node runs.* A scenario is a choice of jobs with the signals, kills and failing
  commands it may meet: an id that a cold run reuses, a resume of it and a waiting
  member; a run and its resume with two signals and two failures; two closures of the
  same members resumed by different ones, without a loss and with one and a kill; two fresh
  closures with a member in common.
  Members number no more than `--jobs`, the order of their starts is `ClosureScheduler`.
  Signals land at every point (`EveryPoint`).
* *Leaf.* Three lines are a thread, a message and a failure. A pipe and a queue of one
  line block the leaf and the pump at the earliest.
* *Remote.* Two attempts are an abandoned job beside a live one, or a Build and the
  execution of its binary; the second command of the one may not be reached, and the one
  command of the other lets its whole status be forged. One line may be taken and one added
  (enough to put a forged line in the place of a true one), and a job hides one of its lines or
  one rewrite (`MaxHidden`): the entry's status and its input are excused one by one, so both
  at once violate nothing that one of them does not.

### Where the code and its words differ

`PROJECT.json` has two findings with a run, `leaf_failed_turn` and `node_runs_circle`. Four
more are written into the statement of the property they touch, as the exception it makes, and
a run without the exception violates it. The others were met while modelling; each was
reproduced by a run of its own, which is not kept.

Shown by a run:

* `workflow_conductor.py`, `_read_codex_json_leaf`: a turn that failed is accepted when the leaf
  ends with 0 and the drain at the cap ends before the pump hands over `turn.failed`.
* `run_workflow.py:5209`: a driver that skips the member it was resumed by keeps the claim on
  it (5235 lets it go before a launch only), though `_exclusive_claim` (1632) says that a member
  waits for a driver "to finish". Two drivers that resume one closure by different
  members may so wait for each other's members for good: one has launched a member that waits
  for the other's claim, and between the two drivers' questions for that member its output
  was there and is lost. `CirclesAreOfKeptEntries` says that every circle is of this kind.

Exceptions a property makes:

* `orchestration_runtime.py:5684` to 5688 and 17445 to 17450: a `set-status` that finds its
  status set is to backfill the event of the transition that was lost. It looks for an event of
  that status (`_phase_state_log_has_set_status`), and after a resume finds the event of the
  transition before: the second `fail` of an orchestration whose append was lost stays without
  one. `SetStatusSettles` allows `"earlier"` for a call that repairs, and no other.
* `run_workflow.py:3943` to 3950: a signal between the mark of an attempt and the look for an
  earlier record leaves `meta_existed_before_init` at its initial value; the handler takes a
  record that was there before, of a run that said `running` when it died, for its own and
  ends it, which the comment at 4284 to 4287 says is "left
  untouched". `ForeignRecordStands` allows `how[p] = "blind"`.
* `remote_execution.py:50` to 53: a status line can be taken from the pipe and another one put
  in its place ("NOT closed"). And 927 to 936 compare what is collected, so a shipped file
  that a command rewrote and a later one put back passes as unchanged, of which the docstring
  ("one a command rewrote before a later command ran it") does not speak.
  `EntriesTellWhatRan` excuses the status by the first and the input by the second.
* `remote_execution.py:66` and 861, `docs/ORCHESTRATION.md:118`: "A refused job's directory, when
  one was made, is left at the site". Not one whose removal was carried out and whose answer
  was lost, nor one whose append to the log failed after it. `EvidenceIsKept` says it of a job
  refused before the removal was asked for, which is every check.

Met while modelling:

* `workflow_conductor.py:15968`: the count of failures without a verdict is not reset when a
  decision of the diagnostician reopens Compile; the comment at 15933 says that the next
  failure is against fresh artifacts and gets its own retry of Generate first.
* `workflow_conductor.py:16056`: Generate is seeded with the findings of Compile after a
  revocation of the IR.
* `workflow_conductor.py:8445`: a reviewer's findings may be carried to a lineage that does
  not have the document they are about.
* `workflow_conductor.py:16930`, `orchestration_runtime.py:1488`, 1499: an IR minted before the
  wait for the claim and derived after another run's IR was revoked is older by its
  id than what was revoked and is not selected.
* `orchestration_runtime.py:4984`: an error after the commit point of a registration is
  reported as a failure and not undone; and a restart rolls back, never forward.
* `run_workflow.py:5257`: an interrupt between the start of a member's process and its entry
  into `running` leaves the process behind; 5157: an exception other than an interrupt
  leaves the running members.
* The comment at `workflow_conductor.py:14763` says that the derived `aggregate_verdict` "can never
  contradict a readiness gate that already passed": it asks the same predicate, but at a later
  time, and another run may have taken the readiness of a dependency away in between.

## 5. Fairness

* `Conductor`: weak fairness of the run's own step. It is one sequential program
  whose leaves run under a timeout and whose waits have a wall-clock budget. Nothing
  is assumed of crashes, of the operator or of a further run.
* `Registration`: weak fairness of each actor's steps. Under the lock they are plain
  file operations; the lock is a blocking `flock` of which the holder lets go, so
  that no strong fairness is needed for `LockIsLetGo`.
* `ClosureScheduler`: weak fairness of the driver, of every member and of the end of
  foreign claims. The driver polls; members run under their own timeouts; a claim
  dies with its process.
* `Workshop`: weak fairness of the loop, one thread in which every launch has a bound.
* `WrapperEndpoint`: weak fairness of `stop()` and of each handler, which are threads. No
  command need end and no client need call or hang up: `StopReturns` rests on the kill of
  the groups, the cut of the connections and the deadline of the join.
* `LeafRun`: weak fairness of the conductor's thread, of the pump and of the clock. Nothing
  is asked of the leaf, of what it leaked, or of the reader of stderr.
* `RemoteJob`: weak fairness of the driver, whose every call has a bound (`_transport`).
  The site may never answer and a script may never end.
* `OrchestrationRecord`, `SharedIr`, `NodeRuns`: none; their properties are safety. In
  `NodeRuns` and in `OrchestrationRecord` a deadlock is checked for besides.

## 6. What is proved

The theorems hold for every value of the constants under the named assumptions, which
TLC evaluates on the instances:

* `ConductorAssumption`: contents exist, the bounds are natural numbers, and no IR is called
  by one of the two words a repair has for a session that is not an IR's.
* `RegistrationAssumption`: the bounds are natural numbers and no child is "nobody".
* `ClosureAssumption`: finitely many members; every nonempty set of them has one with
  no dependency in the set, which is acyclicity; the launch order puts dependencies
  first. `_resolve_dependency_closure` returns such a closure or refuses.
* `ConstantsAssumption` of the record: there is a phase, and the statuses and phases
  given are among those of the program.
* `WorkshopAssumption`: kinds and transports of the program, natural bounds, and a schedule
  whose waits are under the cap, as `USAGE_LIMIT_WAIT_SCHEDULE_SECONDS` and
  `MAX_USAGE_RESET_WAIT_SECONDS` are.
* `SharedIrAssumption`: finitely many runs, each on one of the targets.
* `NodeRunsAssumption`: the scenarios are well-formed (who has a driver is a member of it),
  and a signal lands where `_run_node` runs (a driver that walks its members forwards it).
* `LeafAssumption`: natural bounds, the events and the points of interruption of the program.
* `EndpointAssumption`: natural bounds, and no handler is "nobody".
* `PlacesAssumption` of the remote jobs: every place has a machine, every kind of job a
  command, and the marks for a rewritten input and for nothing read are not inputs or reports.

**Conductor.** `IInv` is the types with the budget, `WorkStandsOnChain`, that the
phase in hand is in scope, and that a pass about to be recorded stands on its chain.
`WorkStandsOnChain` alone is not inductive: at the end of the loop it says nothing of
the phase `until`, and nothing keeps `idx` in scope. The step that matters is a
reopening: it goes back to `idx' = Target` and takes away only outputs at `Target` or
below. `DecisionLands` needs `NamesInv` besides: past Generate the run's records name
exactly the source in hand, and no phase is worked on while it stands certified
unless it is forced. `CondemnedInv` carries the two properties about what a decision did
for the runs to come. `Shadowed`: what is condemned and not derived again is revoked in
the store, by a mark that says whether the producer's session was discarded. `Barred`: no
repair in hand resumes a discarded session. `Graded`: a decision's strategy follows from
its severity, since the mark is written from the one and the repair from the other. `Swept`:
no repair outlives its run, so that the next one has what the marks say. Its hard step is a
reopening, where `NamesInv` says that the mark falls on the output the run has in hand.
`RunRank` counts what is left of the two budgets, and below it the place in a pass over the
phases: every step of a run lowers it, so that a run has at most 66 `MaxAttempts` + 32 steps.

**Registration.** `IInv` adds to the types: `TxInv`, what holds of a staging
directory whoever left it (a journal's target is either backed up or unchanged);
`HolderInv`, what the holder of the lock may rely on at its step; `SeenInv`, that a
locked reader sees whole identities; and `ReportedIsDurable` itself. It is the
strengthening that makes the refinement go through: every rename and every step of
a rollback must be a stutter of what is seen, and the removal of the journal must be
the one step that registers.

**ClosureScheduler.** `IInv` sorts the members into pending, running, done and the
one in hand (`Sorted`, `Accounted`), says that what started stands on what is done
(`Founded`), that live processes are among those the driver knows (`Tracked`), and
counts them (`Bounded`). `Blocked` is the reason there is no stall: what a scan has
passed over waits for a running member or for another passed over, and by acyclicity
some passed-over member waits for no other one.

**OrchestrationRecord.** `IInv` is the types with `AttemptInv` (which command a step
belongs to, and what it knows of its child and its phase), `StatusInv` and
`WindowInv`. `StatusInv` holds what each step of `set-status` and `resume` may rely
on of meta, row, marker, scratch and log, since a fault leaves them as they are
between two steps; of the log it keeps whose event is there, this transition's or an earlier
one's (`recorded`). `WindowInv` says what may be open in the record of a live driver:
the marker, pointer and running phase of the child in its hand, from the launch to
the finalization, step by step, and nothing else. It does not hold of a dead driver,
of one in a handler, or of one that has folded a failed diagnosis; `--resume` closes
what they left before the first launch, and a driver with a folded diagnosis launches
no more. `LaunchIsNeverRefused` follows at the sequential gate. `PassInv` is for the vouch:
in the record of a live driver the only edge without a row is that of the child in its hand
(`EdgesInHand`), every phase below the one in hand has passed (`PassedBelow`), a reset takes
phases from the one in hand up only, and a resume gives every edge a row before the record
runs again.

**Workshop.** Four invariants, each on the types. `CountInv` bounds the launches by the
four counts; no action may raise one count and take another back. `WarmInv` says that a
session belongs to an open lineage wherever a launch may still be warm: what ends a
lineage takes the session in the same step or leaves the loop. `ReviewInv` follows
`finished` and `whole` of a reviewer's lineages over the snapshots that seed the next one.
`ShapeInv` follows `about` while findings of shape are carried: from the lineage an outer
reopen has found, over every cold reuse, to the launch. `SubstepRank` is what is left of the
four counts, and below it the step of the loop: it falls with every step, also with a home
that is gone, since that is found once.

**WrapperEndpoint.** `EndpointInv` is the types with `CommandIsWaitedFor` (a command runs only
under a handler that waits for it, and its group is listed once that handler recorded it) and
`LastRoundReaches` (the last round of kills has every such command still before it). The two
properties are inductive with these: a command that was being started when the round took its
list is killed by its own handler, which finds `stopping` set under the same lock.

**SharedIr.** `IInv` is the types with `HolderInv` (who derives holds the claim, and who holds
it has not left its Compile), `DirInv` (a run derives into an empty directory and works on
one that was written) and `UniqueInv` (while nobody forces, a run derives only where no IR
stands under its key, and at most one is eligible). The step that matters is
the look at the store under the claim: between it and the certification only the holder
may certify. That the selected IR is the newest eligible one needs that a nonempty set of
ids has a greatest, which is taken from the well-foundedness of `<` by `WFMin`.

**NodeRuns.** `FlagsInv` ties the local flags of `_run_node` to its steps, `ClaimsInv` says
that from the question for its record on a run holds both claims, which the two orders of
taking them agree on; `OneAtWorkHolds` follows. `LookInv` is what an attempt relies on that
found no record, or does not know (`blind`). `EndInv` counts the signals and failures it
takes to leave a record open. `DriverInv` says that a process that has not begun, and a
member that waits for its first claim, hold nothing, and that a driver that walks holds only
the orchestration it was resumed by, and starts no member that needs it before it has let
go. So who waits for a holder is a member with empty hands or a driver, and a circle of
waits leads from driver to driver by members that resume each other's orchestrations. That
such a driver has launched no member of its own that needs its claim is what
`CirclesOnlyOfKeptEntries` says, for every scenario; that no such circle closes is not true
(section 4).

**LeafRun.** `WayInv` says where the conductor is by what ended its read; `PidInv` and
`StrangerInv` that the pid belongs to nobody else while the leaf or its group has it, and
that a target a look has chosen is still the group unless the pid changed hands after that
look, after which the next look finds nothing to signal; `StopInv` that after the
second round nobody in reach is left; `StatusInv` that a status that counts was ended with
before anything was told; `ThreadInv` that the thread the read goes by is the recorded one.
`ReadInv` is about the lines of a turn while the streams are listened to: each line written is
read or in the pipe, the pump or the queue (`LinesInv`), the end of the stream comes after the
last of them (`EofInv`), and the pump ends only at a closed pipe (`PumpInv`).

**RemoteJob.** `JobInv` relates three places: what the commands really did at the site
(`did`), what the driver has of it (`printed`, `copy`), and what it wrote down (`read`,
`log`). `Reported`: while the driver waits every command that ended has its line, whatever
other lines there are, unless one was taken; `AsShipped`: a rewritten input does not look
like the shipped one again, unless it was put back; `RunOut`: the answer comes after the
last command. From these `ReadRight` follows at the comparison: it admits one status per
command, and that is the true one where no line was taken. That the codes read are those of
a first part of the commands holds whatever the lines are (`RanAreFirst`). `ReadFirst` is
that only what was read is removed or recorded, `BuiltWhere` that the record of a binary is
of an attempt that is over.

| module | theorem | establishes |
|---|---|---|
| `Conductor_proofs` | `Typing` | Every variable keeps its type and the charges of a phase never exceed the budget, for every budget, threshold and set of contents. |
| `Conductor_proofs` | `WorkOnChain` | A run only ever works on a phase whose whole upstream is certified. |
| `Conductor_proofs` | `PassOnChain` | A run records pass only on a certified chain up to the phase it was asked for. |
| `Conductor_proofs` | `DecisionsLand` | A decision against a certified phase always reaches the output it stands on, so that a revocation is never lost. |
| `Conductor_proofs` | `CondemnedStaysOut` | What a decision has condemned is not adopted by a later round or run before it has been derived again, whatever crashes, resumes and operators come between. |
| `Conductor_proofs` | `DiscardsAreHonoured` | No repair resumes the producer session that a decision has discarded: what a repair is marked with is at least what the condemned output is graded, also across runs. |
| `Conductor_proofs` | `RunsRunDown` | Every step of a run that goes on lowers a rank that is never above 66 * MaxAttempts + 32, for every budget: the safety core of EveryRunEnds, whose liveness stays with TLC. |
| `Registration_proofs` | `Refinement` | For any children, errors and crashes the journaled transaction with its recovery implements a registration that happens at once. |
| `Registration_proofs` | `RecoveryNeverRefuses` | A recovery never lacks the backup of a file it still has to restore. |
| `Registration_proofs` | `Whole` | Whoever holds the lock and has recovered sees no split identities. |
| `Registration_proofs` | `Durable` | A registration reported as done is there for every later reader. |
| `Registration_proofs` | `Typing` | Types, and mutual exclusion under the index lock. |
| `ClosureScheduler_proofs` | `Typing` | Every variable keeps its type, for every closure, number of jobs and bound. |
| `ClosureScheduler_proofs` | `OnDone` | In every acyclic closure a member is started or counted as finished only after all its dependencies. |
| `ClosureScheduler_proofs` | `Bound` | For every number of jobs, no more member processes are alive, also after an interrupt. |
| `ClosureScheduler_proofs` | `Reaping` | A scheduler that returns has reaped and recorded all it started, for every closure. |
| `ClosureScheduler_proofs` | `NoStall` | The stalled return is unreachable for every closure without a cycle. |
| `ClosureScheduler_proofs` | `Readiness` | Success means that the whole closure is ready at once, whatever outputs a derivation unselects above it. |
| `ClosureScheduler_proofs` | `NoStart` | No step after a failure or an interrupt starts a member. |
| `OrchestrationRecord_proofs` | `TypeCorrect` | Types, for any number of children, phases, faults and foreign changes; it rests on which command a step belongs to and what that command knows of its child and phase. |
| `OrchestrationRecord_proofs` | `RunningIsAlwaysOpen` | A record that says running is open in every file, whatever cut a set-status or a resume short. |
| `OrchestrationRecord_proofs` | `MarkerAlwaysMeansClean` | The cleanup marker never stands beside the scratch. |
| `OrchestrationRecord_proofs` | `SetStatusAlwaysSettles` | A set-status that returns has made the meta and the row agree and the log hold the event of this very transition - or, where the call repairs an append that was lost, at least that of an earlier transition to the status. |
| `OrchestrationRecord_proofs` | `LaunchIsNeverRefused` | Whatever a driver, a crash or an operator left, a driver that launches a child finds no window of another child; it rests on what may be open in the record of a live driver, command step by command step. |
| `OrchestrationRecord_proofs` | `PassIsNeverRefused` | No vouch for a pass finds an edge without a row or a phase that has not passed: in the record of a live driver the only edge without a row is the child's in its hand, and every phase below the one in hand has passed, through resets, replays, faults and resumes. |
| `Workshop_proofs` | `Typing` | Every variable keeps its type, for every schedule, budget and bound. |
| `Workshop_proofs` | `Launches` | However repairs, waits and retries follow each other, none refills another: the launches are bounded by what is counted. |
| `Workshop_proofs` | `Retries` | No launch is retried whose death, with those before it, crosses the wall-clock budget. |
| `Workshop_proofs` | `Sleeping` | The waits of a substep sleep no longer than their number allows, for every schedule under the cap. |
| `Workshop_proofs` | `OpenLaunches` | No leaf is launched into a lineage that has ended. |
| `Workshop_proofs` | `OnFinished` | No review passes on a document of a launch that died, was stopped or was cut. |
| `Workshop_proofs` | `OnWholeReads` | No review passes on a tree of which a read was cut short. |
| `Workshop_proofs` | `SeesWhatItRepairs` | A producer sent findings about a document has it in its tree, unless a home was lost. |
| `Workshop_proofs` | `SubstepsRunDown` | Every step of a substep lowers a rank that never exceeds LongestSubstep, a number of the counts of repairs, retries and waits: the safety core of SubstepEnds, whose liveness stays with TLC. |
| `Workshop_proofs` | `EndpointKeepsItsTypes` | The type invariant of the endpoint, for any handlers, calls, commands and rounds of the join. |
| `Workshop_proofs` | `SnapshotsAreQuiet` | When stop() has returned with no handler left, no command of the launch runs: every command belongs to a handler that waits for it. |
| `Workshop_proofs` | `NothingRunsPastStop` | After the last round of kills no command of the launch is alive unless it was being started: whichever of stop() and the handler comes second kills. |
| `SharedIr_proofs` | `Typing` | Every variable keeps its type, for any runs, targets, configurations and contents. |
| `SharedIr_proofs` | `OneStanding` | While nobody forces a Compile, no second IR of a key becomes eligible beside one that stands, for any number of runs, crashes, resumes and edits. |
| `SharedIr_proofs` | `Waiting` | The Compile claim is free, or its holder lives and is still in its Compile. |
| `SharedIr_proofs` | `NothingOverwritten` | A directory an attempt has written into is written by no other; it may only be condemned. |
| `SharedIr_proofs` | `NoOverturn` | What one target has certified is undone by a revocation or an edit only, never by the IR another run derives. |
| `NodeRuns_proofs` | `TypeSafe` | The type invariant, for any processes, orchestrations, specs and scenarios. |
| `NodeRuns_proofs` | `OneAtWorkHolds` | Two runs under way share neither orchestration nor spec, in any mix of cold, resumed and member runs, from the two claims each holds once it asks for its record. |
| `NodeRuns_proofs` | `ScratchKept` | The scratch of a run is there while its conductor runs: only the holder of both claims removes it, and it lets them go afterwards. |
| `NodeRuns_proofs` | `ForeignRecordsStand` | A record gets its end from its claim's holder, which opened it, resumes it, or was interrupted between the mark of its attempt and its look for an earlier record; wherever signals land. |
| `NodeRuns_proofs` | `EndsAreRecorded` | One signal or failing command does not leave a run's record open when the run has let go of it. |
| `NodeRuns_proofs` | `CirclesOnlyOfKeptEntries` | In any scenarios, kills, signals and lost outputs included, every member in a circle of waits resumes what the driver of another closure claimed on entry and keeps, its own member for it not launched: no circle closes over a spec, a member or one's own driver. |
| `NodeRuns_proofs` | `DerivationIsOnce` | A cold member at work has found its spec uncertified under its claim, and nobody certifies it meanwhile. |
| `LeafRun_proofs` | `TypeSafe` | Every variable keeps its type, for any sizes of pipe and queue, any lines and any points of interruption. |
| `LeafRun_proofs` | `GroupIsStopped` | A leaf that was stopped, and what is left in its group, have ended or been sent SIGKILL. |
| `LeafRun_proofs` | `StrangersAreSafe` | A process that is given the leaf's pid is signalled at most once, and only when it got the pid between a look and the signal after it: every later signal is preceded by a look that sees it, wherever the pid changes hands. |
| `LeafRun_proofs` | `TurnsAreReadOut` | Unless a stream is given up, a turn that is dropped at its cap though it told its message left lines unread, and a turn that failed is accepted only at the cap: every line written is read or under way, and the end of the stream comes last. |
| `LeafRun_proofs` | `AnswersStand` | An accepted answer is of a leaf that ended by itself and with 0, was told nothing while it ran, and is the one the host has recorded. |
| `LeafRun_proofs` | `KilledAreNotBound` | No thread id is recorded for a leaf the conductor has stopped. |
| `LeafRun_proofs` | `JobsKeepTheirTypes` | The type invariant of the remote jobs, for any places, machines, commands, attempts and edits. |
| `LeafRun_proofs` | `EntriesAreTrue` | Every entry of the command log tells the status and the input of a command that ran to its end at the site, whatever rewrites, stray lines and abandoned attempts come beside it; a status line taken from the pipe excuses the status, a rewrite that was put back the input, and neither the other. |
| `LeafRun_proofs` | `EvidenceStays` | A job directory that is gone was removed after the host had read what every command did - as its lines told it where one was taken -, so a job refused before that leaves its directory. |
| `LeafRun_proofs` | `BinariesRunWhereBuilt` | Validate.execute runs a binary at the place, and on the kind of machine, that built it, for every map of sites and choice of nodes. |

Only model-checked: liveness (`EveryRunEnds`, `LockIsLetGo`, `DriverReturns`, `SubstepEnds`,
`EndReachesTheLeaf`, `StopReturns`, `Returns`, `AttemptEnds`), which the prover does not reach,
as it rests on fairness and ENABLED; of two of them the safety core is proved (`RunsRunDown` and
`SubstepsRunDown`: no run and no substep takes more steps than a number of its bounds).
And the two violated properties.

## 7. What is not modelled, and why

* **Loss of power.** Files are written to a temporary name, synced and renamed; with
  ordered metadata a loss of power leaves a state that a process crash also leaves.
  A file system that reorders renames is outside the models.
* **The contents of a journal.** The recovery validates a journal's fields; only
  this code writes one, and a torn one cannot be read since it is renamed into place.
* **The index that does not exist yet.** The registration could create it; an
  orchestration always has one by then.
* **`--jobs 1`.** The sequential loop asks, runs and asks again in the same order, one
  member at a time, and takes the claims of `NodeRuns` without waiting. The thread that
  reads a member's pipe is joined by its reaping and holds no state; a stray process that
  keeps the pipe open would keep the join (`run_workflow.py:4962`).
* **`revocation_not_landed`.** The reason exists in the code; `DecisionsLand` shows
  that no run records it.
* **Twin pipelines and several candidates per key.** A node may have several outputs
  under one key; the selection picks one by a fixed order. `Conductor` keeps what it
  answers, `SharedIr` models the order for the IR. The two pipelines of a node differ in
  data only.
* **Half-written launch directories, per-child scratch, the hook log, plan and
  preflight files.** No property of the record reads them.
* **The checks of a step result's contents** (`_validate_step_result_payload`: its stage, its
  outputs and their files). They read the artifacts of the phase; here a result names children
  with rows, and any refusal is an `Error` of `write-step-result` before its first write.
* **A degraded claim.** Where the file system refuses locks the code goes on with a
  warning; the modules assume that claims exclude.
* **Neighbours of the node runs.** A command of the runtime
  that outlives its killed driver (`orchestration_runtime.py:10808`) takes no claim and
  is left out; so is a resumed member of `--jobs` that is refused its spec (`docs/RUNBOOK.md:607`).
* **Edges of a leaf.** The thread that feeds the prompt starts before the `try` of the two
  functions, and a second interrupt may land in their handler: both are out of the modelled
  points. A cap of 0 is the code's "no cap"; processes out of the group are not
  followed after the return; each kind of line occurs at most once; the budgets of the
  captures, which only drop bytes, are left out.
* **The shared IR's neighbours.** The agreement of the results of two targets is a free choice
  where both have validated one IR (`MayDisagree`), at the stop before the pass and at the vouch;
  validators that change under a standing IR are left out.
* **A fact line taken from the pipe.** The lines that name the machine are printed before the
  first command starts; a process of the job could take one only if the ssh server had not read
  it by then. `TakesLine` takes status lines. What glues onto a line or does not parse is
  refused, which
  `Check` may always do.
* **The local path of a job, the probe of a site, `sites.yaml`, the queue of a scheduler.**
  The first is one command under a timeout, the next two happen before a job and keep no
  state, and a job that is late is a script that has not yet started.
* **Turns inside one HTTP conversation** and the files of a leaf's tree: a launch is its end
  and the document it left.
* **Workflow homes.** A prune reads a terminal record and removes a directory. What a run that
  is resumed afterwards finds is `HomeGone` of `Workshop`; a prune that has read the record just
  before the resume opens it again is not modelled.
* **What a leaf writes and what a model answers.** Every answer is possible wherever
  the code reads one.
* **Validators, verdicts, code generation, derivation hashes, audits.** Functions of text
  and numbers without state; their answers are free choices of the modules. They are more
  than half of the implementation's lines, and the reason why the map covers a small
  share of all of them: the modules are of the parts that keep state and may be
  interrupted.

## 8. Running it

`tlc -config MC_<module>_<run>.cfg MC_<module>.tla` checks an instance and
`tlapm <module>_proofs.tla` the proofs. The proofs of the record take longest; on a
loaded machine single obligations may need a second try, since the solver works under
a time limit.
