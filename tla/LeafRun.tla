------------------------------ MODULE LeafRun ------------------------------
(***************************************************************************)
(* The supervision of one leaf process by the conductor                    *)
(* (src/tools/workflow_conductor.py: spawn_leaf, _read_codex_json_leaf,    *)
(* _terminate_leaf_process_group).                                         *)
(*                                                                         *)
(* The conductor's thread waits for the leaf under a cap, a cancellation   *)
(* and the driver's interrupts.  Two threads read the leaf's pipes.  For a *)
(* codex leaf the one on stdout puts lines into a bounded queue, and the   *)
(* conductor reads the turn from them; for a claude leaf the readers fill  *)
(* captures and the conductor waits for the exit.  The leaf may leak a     *)
(* process that outlives it and holds its pipes open.                      *)
(***************************************************************************)
EXTENDS Naturals, Sequences

CONSTANTS Backends,      \* the transports of the launch
          Events,        \* the lines of a codex stream that name no thread: "msg", "fail", "error"
          None,
          MaxLines,      \* bound: the lines the leaf writes
          PipeCap,       \* the lines the pipe holds
          QueueCap,      \* the lines the queue holds
          SignalPoints   \* where the driver may be interrupted

\* The waits and the steps inside the try of the two functions.
TryPoints ==
  {"start2", "head", "get", "eofwait", "pre", "look", "signal", "grace", "reap", "drain", "empty",
   "err", "giveup", "flush", "wait", "finish", "finish2"}

ASSUME LeafAssumption ==
  /\ Backends \subseteq {"codex", "claude"} /\ Events \subseteq {"msg", "fail", "error"}
  /\ None \notin {"id", "other", "noise", "EOF", "msg", "fail", "error"}
  /\ MaxLines \in Nat /\ PipeCap \in Nat /\ QueueCap \in Nat
  /\ SignalPoints \subseteq TryPoints

VARIABLES
  backend,
  leaf, code,      \* the process, and the status it ended with
  killed,          \* which of "leaf" and "kin" has been sent SIGKILL
  kin,             \* the process it leaked: in its group or not, its pipes kept or not
  stranger,        \* the process that has the leaf's pid after it: "unseen" by the last look,
                   \* "caught" by the signal after that look, or "hit" by another
  pipe, pump, held, queue, err, stop,      \* stdout, its reader, and stderr's reader
  pc, sig, back, target,                   \* the conductor, and its teardown of the group
  late,                                    \* the deadline it waits under is past
  why,                                     \* what ended the read
  due,                                     \* the exit was noticed, the stream still open
  abandoned, pre, rc,
  thread, drained, heard, bound,           \* the turn as read, and the host's record of it
  said, lines, told, result                \* what the leaf wrote; it was told to end

process == <<leaf, code, killed, kin, stranger>>
reader == <<pipe, pump, held, queue, err, stop>>
teardown == <<sig, back, target>>
reading == <<why, due, abandoned, pre, rc>>
turn == <<thread, drained, heard, bound>>
ghosts == <<said, lines, told, result>>
vars == <<backend, process, reader, pc, teardown, late, reading, turn, ghosts>>

\* The first thread id a stream names, and a second one.
Threads == {"id", "other"}
Kinds == Threads \cup Events

Init ==
  /\ backend \in Backends
  /\ leaf = "runs" /\ code = "none" /\ killed = {} /\ kin = "none" /\ stranger = "none"
  /\ pipe = <<>> /\ pump = "off" /\ held = None /\ queue = <<>> /\ err = "off" /\ stop = FALSE
  /\ pc = "start" /\ sig = "TERM" /\ back = "none" /\ target = FALSE
  /\ late = FALSE
  /\ why = "none" /\ due = FALSE /\ abandoned = FALSE /\ pre = "none" /\ rc = "none"
  /\ thread = None /\ drained = None /\ heard = {} /\ bound = None
  /\ said = {} /\ lines = 0 /\ told = FALSE /\ result = "none"

-----------------------------------------------------------------------------
(* The leaf and what it leaks.                                             *)

InGroup == kin \in {"near", "detached"}
Holds == kin \in {"near", "far"}

\* A line of a kind once: the turn is read as the set of them.
LeafWrites(k) ==
  /\ backend = "codex" /\ leaf = "runs" /\ "leaf" \notin killed
  /\ lines < MaxLines /\ Len(pipe) < PipeCap
  /\ k \notin said /\ (k = "other" => "id" \in said)
  /\ pipe' = Append(pipe, k) /\ said' = said \cup {k} /\ lines' = lines + 1
  /\ UNCHANGED <<backend, process, pump, held, queue, err, stop, pc, teardown, late, reading, turn, told, result>>

LeafLeaks ==
  /\ leaf = "runs" /\ "leaf" \notin killed /\ kin = "none"
  /\ kin' \in {"near", "far", "detached"} /\ killed' = killed \ {"kin"}
  /\ UNCHANGED <<backend, leaf, code, stranger, reader, pc, teardown, late, reading, turn, ghosts>>

\* Of itself or told to; a process told by SIGTERM may answer with 0.
LeafExits ==
  /\ leaf = "runs" /\ leaf' = "exited"
  /\ code' \in (IF "leaf" \in killed THEN {"bad"} ELSE {"zero", "bad"})
  /\ UNCHANGED <<backend, killed, kin, stranger, reader, pc, teardown, late, reading, turn, ghosts>>

KinFloods ==
  /\ backend = "codex" /\ Holds /\ "kin" \notin killed /\ Len(pipe) < PipeCap
  /\ pipe' = Append(pipe, "noise")
  /\ UNCHANGED <<backend, process, pump, held, queue, err, stop, pc, teardown, late, reading, turn, ghosts>>

KinEnds ==
  /\ InGroup \/ Holds
  /\ kin' = "none" /\ killed' = killed \ {"kin"}
  /\ UNCHANGED <<backend, leaf, code, stranger, reader, pc, teardown, late, reading, turn, ghosts>>

\* A pid is free once its process is reaped and no process is in its group.  It is given
\* away before a look, where it makes no difference when, or between it and the signal.
PidIsReused ==
  /\ leaf = "reaped" /\ ~InGroup /\ stranger = "none"
  /\ \/ pc = "look" /\ stranger' = "lives"
     \/ pc = "signal" /\ stranger' = "unseen"
  /\ UNCHANGED <<backend, leaf, code, killed, kin, reader, pc, teardown, late, reading, turn, ghosts>>

-----------------------------------------------------------------------------
(* The readers of the two pipes.                                           *)

Closed == pipe = <<>> /\ leaf # "runs" /\ ~Holds

\* One line of a block; the stop flag is seen before it is handed over.
PumpReads ==
  /\ pump = "read" /\ pipe # <<>>
  /\ pipe' = Tail(pipe)
  /\ pump' = (IF stop THEN "ends" ELSE IF backend = "codex" THEN "put" ELSE "read")
  /\ held' = (IF pump' = "put" THEN Head(pipe) ELSE None)
  /\ UNCHANGED <<backend, process, queue, err, stop, pc, teardown, late, reading, turn, ghosts>>

PumpAtEof ==
  /\ pump = "read" /\ Closed
  /\ pump' = (IF backend = "codex" /\ ~stop THEN "eof" ELSE "ends")
  /\ UNCHANGED <<backend, process, pipe, held, queue, err, stop, pc, teardown, late, reading, turn, ghosts>>

\* Mutant: the put waits for room without looking at the flag.
PumpPutsOrWaits ==
  /\ \/ pump = "put" /\ pump' = "read"
     \/ pump = "eof" /\ pump' = "ends"
  /\ Len(queue) < QueueCap /\ queue' = Append(queue, IF pump = "put" THEN held ELSE "EOF")
  /\ held' = None
  /\ UNCHANGED <<backend, process, pipe, err, stop, pc, teardown, late, reading, turn, ghosts>>

\* A put ends when there is room, or when nobody is listening.
PumpPuts ==
  /\ \/ /\ pump = "put" /\ Len(queue) < QueueCap
        /\ queue' = Append(queue, held) /\ pump' = "read"
     \/ /\ pump = "eof" /\ ~stop /\ Len(queue) < QueueCap
        /\ queue' = Append(queue, "EOF") /\ pump' = "ends"
     \/ /\ pump = "put" /\ stop /\ Len(queue) = QueueCap
        /\ pump' = "ends" /\ UNCHANGED queue
     \/ /\ pump = "eof" /\ stop
        /\ pump' = "ends" /\ UNCHANGED queue
  /\ held' = None
  /\ UNCHANGED <<backend, process, pipe, err, stop, pc, teardown, late, reading, turn, ghosts>>

\* Where the conductor looks whether its readers are alive; before, it makes no difference.
Joining == pc \in {"empty", "err", "giveup", "finish", "finish2", "done"}

PumpEnds ==
  /\ Joining /\ pump = "ends" /\ pump' = "dead"
  /\ UNCHANGED <<backend, process, pipe, held, queue, err, stop, pc, teardown, late, reading, turn, ghosts>>

\* To the end of stderr, or one block past the flag.
ErrEnds ==
  /\ Joining /\ err = "reads"
  /\ \/ leaf # "runs" /\ ~Holds
     \/ stop /\ Holds /\ "kin" \notin killed
  /\ err' = "dead"
  /\ UNCHANGED <<backend, process, pipe, pump, held, queue, stop, pc, teardown, late, reading, turn, ghosts>>

-----------------------------------------------------------------------------
(* The teardown of the leaf's group; back is where its caller goes on.     *)

Terminate(from) == pc' = "look" /\ back' = from /\ UNCHANGED <<sig, target>>
GoBack == pc' = back /\ back' = "none" /\ sig' = "TERM"
Escalate == sig = "TERM" /\ sig' = "KILL" /\ pc' = "look" /\ UNCHANGED back

Reaped == IF leaf = "exited" THEN "reaped" ELSE leaf

\* Mutant: the pinned id is taken to be the leaf's whatever has it now.
LookAtNothing ==
  /\ pc = "look" /\ pc' = "signal" /\ target' = TRUE
  /\ UNCHANGED <<backend, process, reader, sig, back, late, reading, turn, ghosts>>

\* The id is the leaf's while the leaf is not reaped, and its group's while nobody has it.
Look ==
  /\ pc = "look" /\ pc' = "signal"
  /\ target' = (leaf # "reaped" \/ stranger = "none")
  /\ UNCHANGED <<backend, process, reader, sig, back, late, reading, turn, ghosts>>

Signal ==
  /\ pc = "signal" /\ pc' = "grace"
  /\ told' = (told \/ leaf = "runs")
  /\ killed' = (IF sig = "TERM" \/ ~target THEN killed
                ELSE killed \cup (IF leaf = "runs" THEN {"leaf"} ELSE {})
                            \cup (IF InGroup THEN {"kin"} ELSE {}))
  /\ stranger' = (IF ~target \/ stranger = "none" THEN stranger
                  ELSE IF stranger = "unseen" THEN "caught" ELSE "hit")
  /\ UNCHANGED <<backend, leaf, code, kin, reader, teardown, late, reading, turn, said, lines, result>>

\* Mutant: the escalation is decided by the leaf's exit alone.
GoneWithLeaf ==
  /\ pc = "grace" /\ leaf' = Reaped
  /\ \/ (leaf # "runs" \/ sig = "KILL") /\ GoBack
     \/ leaf = "runs" /\ Escalate
  /\ target' = FALSE
  /\ UNCHANGED <<backend, code, killed, kin, stranger, reader, late, reading, turn, ghosts>>

\* Gone within the grace, leaf and group; or not, and SIGTERM is followed by SIGKILL.
GoneWithin ==
  /\ pc = "grace" /\ leaf' = Reaped
  /\ \/ ((leaf # "runs" /\ ~InGroup) \/ sig = "KILL") /\ GoBack
     \/ (leaf = "runs" \/ InGroup) /\ Escalate
  /\ target' = FALSE
  /\ UNCHANGED <<backend, code, killed, kin, stranger, reader, late, reading, turn, ghosts>>

-----------------------------------------------------------------------------
(* The conductor's thread: the start of the readers, and the way out of an *)
(* interrupt or an exception.                                              *)

\* What was read goes with the frame.
Forget ==
  /\ due' = FALSE /\ abandoned' = FALSE /\ pre' = "none" /\ rc' = "none"
  /\ thread' = None /\ drained' = None /\ heard' = {} /\ said' = {}
Kept == UNCHANGED <<due, abandoned, pre, rc, thread, drained, heard, said>>
Raise == why' = "raised" /\ pc' = "unwind" /\ Forget

StartReader ==
  /\ pc \in {"start", "start2"}
  /\ \/ /\ \/ /\ (pc = "start") = (backend = "codex")
              /\ err' = "reads" /\ UNCHANGED pump
           \/ /\ (pc = "start") # (backend = "codex")
              /\ pump' = "read" /\ UNCHANGED err
        /\ pc' = (IF pc = "start" THEN "start2" ELSE IF backend = "codex" THEN "head" ELSE "wait")
        /\ Kept /\ UNCHANGED why
     \/ Raise /\ UNCHANGED <<err, pump>>
  /\ UNCHANGED <<backend, process, pipe, held, queue, stop, teardown, late, bound, lines, told, result>>

\* SystemExit or KeyboardInterrupt, inside the try and not yet in its handler.
Interrupted ==
  /\ pc \in SignalPoints /\ ~(pc \in {"look", "signal", "grace"} /\ back = "join")
  /\ Raise /\ sig' = "TERM" /\ back' = "none" /\ target' = FALSE
  /\ UNCHANGED <<backend, process, reader, late, bound, lines, told, result>>

Unwind ==
  /\ pc = "unwind" /\ stop' = TRUE /\ Terminate("join")
  /\ UNCHANGED <<backend, process, pipe, pump, held, queue, err, late, reading, turn, ghosts>>

\* The readers are joined within a grace, and the exception goes on.
Join ==
  /\ pc \in {"join", "escape"} /\ pc' = "done"
  /\ result' = (IF pc = "join" THEN "raised" ELSE "unrecorded")
  /\ UNCHANGED <<backend, process, reader, teardown, late, reading, turn, said, lines, told>>

-----------------------------------------------------------------------------
(* A codex leaf: the loop that reads its turn.                             *)

\* What ends the loop is looked at before each wait for a line: the cancel event, then,
\* not at every turn, the exit of the leaf, then the deadline.
LookBeforeWait ==
  /\ pc = "head"
  /\ \/ /\ ~due /\ why' = "cancelled" /\ pc' = "pre"
        /\ UNCHANGED <<leaf, due, late, abandoned>>
     \/ /\ ~due /\ leaf # "runs" /\ leaf' = "reaped"
        /\ due' = TRUE /\ late' = FALSE /\ pc' = "get" /\ UNCHANGED <<why, abandoned>>
     \/ /\ due /\ late /\ abandoned' = TRUE /\ pc' = "eofwait"
        /\ UNCHANGED <<leaf, why, due, late>>
     \/ /\ ~due /\ late /\ why' = "timeout" /\ pc' = "pre"
        /\ UNCHANGED <<leaf, due, late, abandoned>>
     \/ ~late /\ pc' = "get" /\ UNCHANGED <<leaf, why, due, late, abandoned>>
  /\ UNCHANGED <<backend, code, killed, kin, stranger, reader, teardown, pre, rc, turn, ghosts>>

\* The host's record of the thread, which may be refused.
Bind(t, refused) ==
  \/ bound' = t /\ UNCHANGED why
  \/ why' = refused /\ UNCHANGED bound

Took(k) ==
  \/ k = "EOF" /\ pc' = "eofwait" /\ UNCHANGED <<why, thread, heard, bound>>
  \/ /\ k \in Events \cup {"noise"}
     /\ heard' = heard \cup ({k} \cap Events) /\ pc' = "head" /\ UNCHANGED <<why, thread, bound>>
  \/ /\ k \in Threads /\ thread = None /\ thread' = k /\ Bind(k, "regerror")
     /\ pc' = (IF bound' = k THEN "head" ELSE "pre") /\ UNCHANGED heard

Get ==
  /\ pc = "get"
  /\ \/ queue = <<>> /\ pc' = "head" /\ UNCHANGED <<queue, why, thread, heard, bound>>
     \/ queue # <<>> /\ queue' = Tail(queue) /\ Took(Head(queue))
  /\ UNCHANGED <<backend, process, pipe, pump, held, err, stop, teardown, late, due, abandoned, pre, rc, drained, ghosts>>

\* Another thread's id, or a record that can neither be written nor rolled back.
GetRaises ==
  /\ pc = "get" /\ queue # <<>> /\ Head(queue) \in Threads \ {thread}
  /\ queue' = Tail(queue) /\ Raise
  /\ UNCHANGED <<backend, process, pipe, pump, held, err, stop, teardown, late, bound, lines, told, result>>

\* Stdout has ended, and the wait for the exit has what is left of the cap.
AwaitExit ==
  /\ pc = "eofwait"
  /\ \/ /\ leaf # "runs" /\ leaf' = "reaped" /\ rc' = code /\ pc' = "drain"
        /\ late' = FALSE /\ UNCHANGED why
     \/ leaf = "runs" /\ late /\ why' = "timeout" /\ pc' = "pre" /\ UNCHANGED <<leaf, late, rc>>
  /\ UNCHANGED <<backend, code, killed, kin, stranger, reader, teardown, due, abandoned, pre, turn, ghosts>>

-----------------------------------------------------------------------------
(* The kill, the drain of the queue and the end of the streams.            *)

\* The status is read before the kill, which may change it.
PollThenKill ==
  /\ pc = "pre" /\ leaf' = Reaped
  /\ pre' = (IF leaf = "runs" THEN "none" ELSE code)
  /\ late' = FALSE /\ Terminate("reap")
  /\ UNCHANGED <<backend, code, killed, kin, stranger, reader, why, due, abandoned, rc, turn, ghosts>>

\* A process alive after both graces is reported dead.
Reap ==
  /\ pc = "reap" /\ leaf' = Reaped
  /\ rc' = (IF leaf = "runs" THEN "bad" ELSE code)
  /\ pc' = (IF backend = "codex" THEN "drain" ELSE "finish")
  /\ UNCHANGED <<backend, code, killed, kin, stranger, reader, teardown, late, why, due, abandoned, pre, turn, ghosts>>

Known == IF thread # None THEN thread ELSE drained
AfterLine(k) == IF k = "EOF" \/ late THEN "err" ELSE "drain"

\* Mutant: what is left in the queue is kept and not read.
KeptUnread(k) == pc' = AfterLine(k) /\ UNCHANGED <<heard, drained, bound>>

\* Mutant: the thread of a line that was queued is bound as any other.
BoundAtOnce(k) ==
  /\ pc' = AfterLine(k)
  /\ \/ k \notin Threads /\ heard' = heard \cup ({k} \cap Events) /\ UNCHANGED <<drained, bound>>
     \/ k \in Threads /\ Known \in {None, k} /\ drained' = k /\ bound' = k /\ UNCHANGED heard

\* What was still queued is read as any line is, but no thread is bound.
Leftover(k) ==
  /\ pc' = AfterLine(k)
  /\ \/ k \notin Threads /\ heard' = heard \cup ({k} \cap Events) /\ UNCHANGED <<drained, bound>>
     \/ k \in Threads /\ Known \in {None, k} /\ drained' = k /\ UNCHANGED <<heard, bound>>

Drain ==
  /\ pc = "drain"
  /\ \/ queue = <<>> /\ pc' = "empty" /\ UNCHANGED <<queue, heard, drained, bound>>
     \/ queue # <<>> /\ queue' = Tail(queue) /\ Leftover(Head(queue))
  /\ UNCHANGED <<backend, process, pipe, pump, held, err, stop, teardown, late, why, due, abandoned, pre, rc, thread, ghosts>>

DrainRaises ==
  /\ pc = "drain" /\ queue # <<>> /\ Head(queue) \in Threads /\ Known \notin {None, Head(queue)}
  /\ queue' = Tail(queue) /\ Raise
  /\ UNCHANGED <<backend, process, pipe, pump, held, err, stop, teardown, late, bound, lines, told, result>>

\* The queue was empty; is the pump alive?
LookAtPump ==
  /\ pc = "empty"
  /\ pc' = (IF pump \in {"off", "dead"} \/ late THEN "err" ELSE "drain")
  /\ UNCHANGED <<backend, process, reader, teardown, late, reading, turn, ghosts>>

ErrDead == err \in {"off", "dead"}
PumpDead == pump \in {"off", "dead"}

\* Joined, or given its grace; then the group is stopped and it is given another.
JoinErr ==
  /\ pc = "err"
  /\ \/ ErrDead /\ pc' = "giveup" /\ UNCHANGED teardown
     \/ ~ErrDead /\ Terminate("giveup")
  /\ UNCHANGED <<backend, process, reader, late, reading, turn, ghosts>>

GiveUp ==
  /\ pc = "giveup"
  /\ \/ ErrDead /\ PumpDead /\ pc' = "result" /\ UNCHANGED <<stop, abandoned>>
     \/ ~(ErrDead /\ PumpDead) /\ stop' = TRUE /\ abandoned' = TRUE /\ pc' = "flush"
  /\ UNCHANGED <<backend, process, pipe, pump, held, queue, err, teardown, late, why, due, pre, rc, turn, ghosts>>

Flush ==
  /\ pc = "flush"
  /\ \/ queue # <<>> /\ queue' = Tail(queue) /\ UNCHANGED pc
     \/ queue = <<>> /\ pc' = "result" /\ UNCHANGED queue
  /\ UNCHANGED <<backend, process, pipe, pump, held, err, stop, teardown, late, reading, turn, ghosts>>

\* Mutant: the status of the leaf is the one it has when it was stopped.
HealthyByStatus == rc = "zero" /\ "msg" \in heard /\ "fail" \notin heard

\* It had exited with 0, there is an answer, and the turn has not failed.
Healthy == pre = "zero" /\ "msg" \in heard /\ "fail" \notin heard

Unbound == why # "cancelled" /\ (why = "timeout" => Healthy) /\ thread = None /\ drained # None

\* The whole turn was still queued, and it was not ended: its thread is bound.
BindDrained ==
  /\ pc = "result" /\ backend = "codex" /\ Unbound
  /\ thread' = drained
  /\ \/ Bind(drained, "unrecorded") /\ UNCHANGED pc
     \/ pc' = "escape" /\ UNCHANGED <<why, bound>>
  /\ UNCHANGED <<backend, process, reader, teardown, late, due, abandoned, pre, rc, drained, heard, ghosts>>

Verdict ==
  CASE why = "cancelled" -> "cancelled"
    [] why = "timeout" /\ ~Healthy -> "timeout"
    [] why \in {"regerror", "unrecorded"} -> why
    [] thread = None -> "nothread"
    [] OTHER -> IF "fail" \in heard \/ ("error" \in heard /\ "msg" \notin heard) \/ rc # "zero"
                THEN "failed" ELSE "answer"

Conclude ==
  /\ pc = "result" /\ backend = "codex"
  /\ ~Unbound
  /\ pc' = "done" /\ result' = Verdict
  /\ UNCHANGED <<backend, process, reader, teardown, late, reading, turn, said, lines, told>>

-----------------------------------------------------------------------------
(* A claude leaf: the wait for its exit.                                   *)

WaitForExit ==
  /\ pc = "wait"
  /\ \/ /\ leaf # "runs" /\ leaf' = "reaped" /\ rc' = code /\ pc' = "finish"
        /\ UNCHANGED <<why, teardown>>
     \/ /\ why' = "cancelled" /\ Terminate("reap") /\ UNCHANGED <<leaf, rc>>
     \/ /\ leaf = "runs" /\ late
        /\ why' = "timeout" /\ Terminate("reap") /\ UNCHANGED <<leaf, rc>>
  /\ UNCHANGED <<backend, code, killed, kin, stranger, reader, late, due, abandoned, pre, turn, ghosts>>

\* Both readers get one grace; then the group is stopped and they get another.
FinishStreams ==
  /\ pc \in {"finish", "finish2"}
  /\ \/ /\ ErrDead /\ PumpDead /\ pc' = "result"
        /\ UNCHANGED <<teardown, stop, abandoned>>
     \/ /\ ~(ErrDead /\ PumpDead) /\ pc = "finish"
        /\ Terminate("finish2") /\ UNCHANGED <<stop, abandoned>>
     \/ /\ ~(ErrDead /\ PumpDead) /\ pc = "finish2"
        /\ stop' = TRUE /\ abandoned' = TRUE /\ pc' = "result" /\ UNCHANGED teardown
  /\ UNCHANGED <<backend, process, pipe, pump, held, queue, err, late, why, due, pre, rc, turn, ghosts>>

Return ==
  /\ pc = "result" /\ backend = "claude"
  /\ pc' = "done"
  /\ result' = (IF why # "none" THEN why ELSE IF rc = "zero" THEN "answer" ELSE "failed")
  /\ UNCHANGED <<backend, process, reader, teardown, late, reading, turn, said, lines, told>>

-----------------------------------------------------------------------------
\* The deadline of the wait: the cap, the grace of the open stream, that of the drain.
Tick ==
  /\ ~late /\ late' = TRUE
  /\ pc \in {"head", "get", "eofwait", "drain", "empty", "wait"}
  /\ UNCHANGED <<backend, process, reader, pc, teardown, reading, turn, ghosts>>

\* What the processes do after the return is not followed.
Leaf == pc # "done" /\ (LeafLeaks \/ LeafExits \/ KinFloods \/ KinEnds \/ PidIsReused \/ \E k \in Kinds : LeafWrites(k))
Pump == PumpReads \/ PumpAtEof \/ PumpPuts \/ PumpEnds
Group == Look \/ Signal \/ GoneWithin
Way == StartReader \/ Unwind \/ Join
Codex == LookBeforeWait \/ Get \/ GetRaises \/ AwaitExit \/ PollThenKill \/ Reap \/ Drain \/ DrainRaises \/ LookAtPump \/ JoinErr
         \/ GiveUp \/ Flush \/ BindDrained \/ Conclude
Claude == WaitForExit \/ FinishStreams \/ Return
Conductor == Group \/ Way \/ Codex \/ Claude

Next == Leaf \/ Pump \/ ErrEnds \/ Conductor \/ Interrupted \/ Tick

Spec == Init /\ [][Next]_vars

\* The threads run and time passes; nothing is asked of the leaf and of what it leaked.
FairSpec ==
  Spec /\ WF_vars(Conductor) /\ WF_vars(Pump)
       /\ WF_vars(Tick)

-----------------------------------------------------------------------------
(* Properties.                                                             *)

Lines == Kinds \cup {"noise"}

TypeOK ==
  /\ backend \in Backends /\ leaf \in {"runs", "exited", "reaped"}
  /\ code \in {"none", "zero", "bad"} /\ killed \subseteq {"leaf", "kin"}
  /\ kin \in {"none", "near", "far", "detached"}
  /\ stranger \in {"none", "lives", "unseen", "caught", "hit"}
  /\ pipe \in Seq(Lines) /\ Len(pipe) <= PipeCap
  /\ queue \in Seq(Lines \cup {"EOF"}) /\ Len(queue) <= QueueCap
  /\ held \in Lines \cup {None} /\ (pump = "put" => held # None)
  /\ pump \in {"off", "read", "put", "eof", "ends", "dead"} /\ err \in {"off", "reads", "dead"}
  /\ stop \in BOOLEAN
  /\ pc \in TryPoints \cup {"start", "result", "unwind", "join", "escape", "done"}
  /\ sig \in {"TERM", "KILL"} /\ back \in {"none", "reap", "giveup", "finish2", "join"}
  /\ (pc \in {"look", "signal", "grace"} => back # "none")
  /\ target \in BOOLEAN /\ late \in BOOLEAN /\ due \in BOOLEAN /\ abandoned \in BOOLEAN
  /\ why \in {"none", "cancelled", "timeout", "regerror", "unrecorded", "raised"}
  /\ pre \in {"none", "zero", "bad"} /\ rc \in {"none", "zero", "bad"}
  /\ {thread, drained, bound} \subseteq Threads \cup {None}
  /\ heard \subseteq Events /\ said \subseteq Kinds /\ lines \in 0 .. MaxLines /\ told \in BOOLEAN
  /\ result \in {"none", "answer", "failed", "timeout", "cancelled", "regerror", "unrecorded",
                 "nothread", "raised"}

(* A leaf whose turn is accepted ended by itself and with 0, was told      *)
(* nothing while it ran, and is the one the host has recorded              *)
(* (_read_codex_json_leaf: the status is read before the kill).            *)
AcceptedStands ==
  result = "answer" =>
    /\ ~told /\ code = "zero" /\ rc = "zero"
    /\ backend = "codex" => bound # None /\ bound = thread

(* The turn is read to its end: a leaf that had exited with 0 before it    *)
(* was stopped, with an answer and no failed turn, is reported as timed    *)
(* out only where its stream was given up or lines of it were left queued, *)
(* and a failed turn is accepted only where the stream was given up or the *)
(* cap had run out.                                                        *)
TurnIsReadOut ==
  /\ result = "timeout" /\ pre = "zero" /\ "msg" \in said /\ "fail" \notin said =>
       abandoned \/ queue # <<>>
  /\ result = "answer" /\ "fail" \in said => abandoned \/ why = "timeout"

(* No thread is recorded for a leaf the conductor has told to end.         *)
NoBindingForTheKilled == [][bound' # bound => ~told /\ why # "cancelled"]_vars

(* When a leaf has been stopped (the cap, a cancellation, a refused record *)
(* or an exception) it and what is left in its group have ended or been    *)
(* sent SIGKILL, whatever they do of SIGTERM.                              *)
AllAreStopped ==
  result \in {"timeout", "cancelled", "regerror", "raised"} =>
    /\ leaf # "runs" \/ "leaf" \in killed
    /\ ~InGroup \/ "kin" \in killed

(* A process that is given the leaf's pid after it is signalled at most    *)
(* once, and only when it got the pid after the look that precedes the     *)
(* signal: no escalation to SIGKILL and no later teardown reaches it       *)
(* (_addressable_pgid, asked anew for every signal).                       *)
NoStrangerIsSignalled == stranger # "hit"

(* The conductor gets its result and its reader of stdout is left in no    *)
(* put, though neither the leaf nor what it leaked need ever end, write or *)
(* close its pipes, and the one may write without end.                     *)
Returns == <>(pc = "done" /\ pump \notin {"put", "eof"})

(* A failed turn is not accepted where the whole stream was there to read. *)
FailedTurnIsRefused == result = "answer" /\ "fail" \in said => abandoned

=============================================================================
