------------------------------- MODULE RemoteJob -------------------------------
(***************************************************************************)
(* Build and Validate.execute at an execution site reached over ssh:       *)
(* tools/remote_execution.py and the two bodies of the conductor that call *)
(* it.  The host makes a job directory, ships the inputs, runs one script  *)
(* in the foreground of one ssh call, copies the directory back, compares, *)
(* removes it, and only then writes the log entries the gates read.        *)
(*                                                                         *)
(* Two things make it hard.  An ssh call is bounded on the host but not at *)
(* the site: a call that was given up goes on there, beside the next       *)
(* attempt.  And what ran is known only from what comes back: the status   *)
(* lines of the script's stdout and the collected files, both of which a   *)
(* process the commands started can add to, change, take away and restore. *)
(***************************************************************************)
EXTENDS Naturals, Sequences, FiniteSets, SequencesExt

CONSTANTS
  Places,       \* where sites.yaml can map the target: a site id at an ssh destination
  SiteOf,       \* the site id of a place
  MachinesAt,   \* the machines (`uname -m`) of the nodes a job of the place can land on
  Commands,     \* the number of commands of a job of each kind
  Nothing,      \* no directory, copy, binary, answer or reading
  Changed,      \* a shipped file that a process of the job rewrote
  MaxAttempts,  \* bound: attempts at Build and Validate.execute together
  MaxEdits,     \* bound: rewrites of the case files by another run on the same IR
  MaxHidden     \* bound: kinds of thing (line, input) the processes of one job hide

JobKinds == {"build", "execute"}
Attempts == 1 .. MaxAttempts

Codes == {"ok", "fail", "nostart"}   \* 0; another status; 126 or 127
Input == 0 .. MaxEdits

Lengths == UNION {0 .. Commands[k] : k \in JobKinds}

\* What the driver reads of a job: the inputs it compared, the codes in order.
Report == [input : Input, codes : UNION {[1 .. n -> Codes] : n \in Lengths}]

ASSUME PlacesAssumption ==
  /\ \A p \in Places : MachinesAt[p] # {}
  /\ Commands \in [JobKinds -> Nat \ {0}]
  /\ MaxAttempts \in Nat \ {0}
  /\ MaxEdits \in Nat /\ MaxHidden \in Nat
  /\ Changed \notin Input /\ Nothing \notin Report

VARIABLES
  driver,   \* where the driver is
  att,      \* the attempt (agent_run_id) it is in, 0 before the first
  kind,     \* of each attempt: Build or Validate.execute
  place,    \* of each attempt: where its target was mapped
  used,     \* of each Validate.execute: the record of the binary it ships
  proc,     \* of each attempt: its ssh call, as the site runs it
  node,     \* of each attempt: the machine its script landed on
  answer,   \* of each attempt: that machine's own `uname -m`
  dir,      \* of each attempt: its job directory is at the site
  files,    \* what the directory holds of the job the driver is in
  parent,   \* the orchestration's directory above them exists
  did,      \* of each attempt: what its commands did, in order (history)
  touched,  \* of each attempt: what a process of the job hid of it (history):
            \* "line", a status line taken away; "input", a rewrite undone
  printed,  \* the status lines on the stdout of the script the driver waits for
  local,    \* the inputs as the host has them, numbered
  copy,     \* the driver's collected copy of the job directory
  read,     \* of each attempt: the statuses the driver read and compared
  log,      \* the command log
  binary    \* the binary_meta of the last Build that passed

attempts == <<att, kind, place, used>>
site == <<proc, node, answer, dir, parent, did, touched>>
receipt == <<printed, files, copy>>
records == <<read, log, binary>>
jobVars == <<driver, attempts, site, receipt, local, records>>

Waits == {"create", "run", "remove"}           \* the driver waits for an ssh call
Steps == {"stage", "collect", "check", "append", "record"}
Calls == {"parent", "mkdir", "start", "next", "command", "rm", "rmdir"}

Machines == UNION {MachinesAt[p] : p \in Places}
Binary == [att : Attempts, place : Places, machine : Machines \cup {Nothing}]
Deed == [code : Codes \cup {"running"}, input : Input \cup {Changed, Nothing}]
Content == [input : Input \cup {Changed, Nothing}, output : BOOLEAN, binary : BOOLEAN]

\* Every variable has its type.
JobTypeOK ==
  /\ driver \in Waits \cup Steps \cup {"ended"}
  /\ att \in 0 .. MaxAttempts
  /\ kind \in [Attempts -> JobKinds] /\ place \in [Attempts -> Places \cup {Nothing}]
  /\ used \in [Attempts -> Binary \cup {Nothing}]
  /\ proc \in [Attempts -> Calls \cup {"none", "answered", "failed"}]
  /\ {node, answer} \subseteq [Attempts -> Machines \cup {Nothing}]
  /\ did \in [Attempts -> Seq(Deed)]
  /\ touched \in [Attempts -> SUBSET {"line", "input"}]
  /\ \A a \in Attempts : answer[a] \in {node[a], Nothing} /\ Len(did[a]) <= Commands[kind[a]]
  /\ dir \in [Attempts -> BOOLEAN] /\ files \in Content \cup {Nothing}
  /\ parent \in BOOLEAN
  /\ printed \in Seq([command : Nat, code : Codes])
  /\ local \in Input
  /\ copy \in Content \cup {Nothing}
  /\ read \in [Attempts -> Report \cup {Nothing}]
  /\ log \subseteq [attempt : Attempts, command : Nat, code : Codes, input : Input]
  /\ binary \in Binary \cup {Nothing}

JobInit ==
  /\ driver = "ended" /\ att = 0
  /\ kind = [a \in Attempts |-> "build"]
  /\ place = [a \in Attempts |-> Nothing] /\ used = place
  /\ proc = [a \in Attempts |-> "none"]
  /\ node = place /\ answer = place
  /\ dir = [a \in Attempts |-> FALSE] /\ parent = FALSE /\ files = Nothing
  /\ did = [a \in Attempts |-> <<>>] /\ printed = <<>>
  /\ touched = [a \in Attempts |-> {}]
  /\ local = 0
  /\ copy = Nothing /\ read = place
  /\ log = {}
  /\ binary = Nothing

-----------------------------------------------------------------------------
(* The driver. *)

\* The driver gives an ssh call to the site and waits for it under its bound.
Calling(a, step, call) == driver' = step /\ proc' = [proc EXCEPT ![a] = call]

\* Mutant: the guard compares the site's id and not its ssh destination.
RunsWhereBuiltById(b, p) == b # Nothing => SiteOf[b.place] = SiteOf[p]

\* A binary runs at the site that built it: its id and its host.
RunsWhereBuilt(b, p) == b # Nothing => b.place = p

\* The record names the machine that built the binary.
NamesMachine(b) == b # Nothing => b.machine # Nothing

\* An attempt starts: at the place the operator's map names now, with an
\* agent run of its own and so a job directory of its own.  Validate.execute
\* refuses a binary of another place, and one whose record names no machine.
Start(k, p) ==
  /\ driver = "ended" /\ att < MaxAttempts
  /\ LET b == IF k = "execute" THEN binary ELSE Nothing
     IN  /\ k = "execute" => binary # Nothing
         /\ att' = att + 1
         /\ kind' = [kind EXCEPT ![att'] = k]
         /\ place' = [place EXCEPT ![att'] = p]
         /\ used' = [used EXCEPT ![att'] = b]
         /\ IF RunsWhereBuilt(b, p) /\ NamesMachine(b)
              THEN Calling(att', "create", "parent")
              ELSE driver' = "ended" /\ UNCHANGED proc
  /\ UNCHANGED <<node, answer, dir, parent, did, touched, receipt, local, records>>

\* A refusal: the exception ends the substep as a transport failure, and the
\* agent run's scratch, the collected copy in it, is removed.
Refuse == driver' = "ended" /\ copy' = Nothing /\ files' = Nothing /\ printed' = <<>>

\* The call answered with exit status 0.
Answered ==
  /\ driver \in Waits /\ proc[att] = "answered"
  /\ driver' = CASE driver = "create" -> "stage"
                 [] driver = "run" -> "collect"
                 [] driver = "remove" -> "append"
  /\ UNCHANGED <<attempts, site, receipt, local, records>>

\* Mutant: the job's ssh call has no bound on the host.
GivenUpUnbounded ==
  /\ driver \in Waits /\ (driver = "run" => proc[att] = "failed")
  /\ Refuse
  /\ UNCHANGED <<attempts, site, local, records>>

\* The call exited otherwise - a check of the script, a directory that cannot
\* be removed, a shell ended by a hang-up or by the scheduler - or its
\* connection was lost, or its bound passed; what it started at the site may go
\* on.
GivenUp ==
  /\ driver \in Waits
  /\ Refuse
  /\ UNCHANGED <<attempts, site, local, records>>

\* Stage a copy of the inputs, ship it with the control directory, and hand
\* the script to the site.  Staging or scp may fail.
Stage ==
  /\ driver = "stage"
  /\ \/ /\ files' = [input |-> local, output |-> TRUE, binary |-> FALSE]
        /\ Calling(att, "run", "start") /\ UNCHANGED <<printed, copy>>
     \/ Refuse /\ UNCHANGED proc
  /\ UNCHANGED <<attempts, node, answer, dir, parent, did, touched, local, records>>

\* Mutant: the directory is removed as soon as it is copied, before a check.
CollectRemoving ==
  /\ driver = "collect" /\ copy' = files
  /\ Calling(att, "remove", "rm")
  /\ UNCHANGED <<attempts, node, answer, dir, parent, did, touched, printed, files, local, records>>

\* Copy the job directory back, while a process the job left may still write.
Collect ==
  /\ driver = "collect"
  /\ \/ driver' = "check" /\ copy' = files /\ UNCHANGED <<printed, files>>
     \/ Refuse
  /\ UNCHANGED <<attempts, site, local, records>>

-----------------------------------------------------------------------------
(* Reading what came back. *)

\* The places of a command's status lines.
Statuses(i) == {k \in DOMAIN printed : printed[k].command = i}

\* The command has one line, and it tells the code.
Tells(i, code) == \E k \in DOMAIN printed : Statuses(i) = {k} /\ printed[k].code = code

\* Every earlier command exited 0.
UpstreamOk(i) == \A j \in 1 .. i - 1 : Tells(j, "ok")

\* One line for a command that ran, none for one that did not, none for
\* anything else.
StatusesAgree(a) ==
  /\ \A k \in DOMAIN printed : printed[k].command \in 1 .. Commands[kind[a]]
  /\ \A i \in 1 .. Commands[kind[a]] :
       IF UpstreamOk(i) THEN \E code \in Codes : Tells(i, code) ELSE Statuses(i) = {}

\* The commands that ran, as their lines say.
Ran(a) == {i \in 1 .. Commands[kind[a]] : UpstreamOk(i)}

\* Mutant: the shipped files are not compared with their local sources.
ComesBackAsSentUnseen(c) == c.output

\* Every shipped file is byte-identical to its local source, as that is now,
\* and every output file was collected.
ComesBackAsSent(c) == c.input = local /\ c.output

\* No command's program failed to start.
AllStarted(a) == \A i \in Ran(a) : ~Tells(i, "nostart")

\* Everything is read before anything is recorded: the result is the job's or
\* the job is refused (for a fact or a time that does not parse, too).
Check ==
  /\ driver = "check"
  /\ \/ /\ StatusesAgree(att) /\ ComesBackAsSent(copy) /\ AllStarted(att)
        /\ read' = [read EXCEPT ![att] =
             [input |-> local,
              codes |-> [i \in Ran(att) |-> CHOOSE code \in Codes : Tells(i, code)]]]
        /\ Calling(att, "remove", "rm") /\ UNCHANGED receipt
     \/ Refuse /\ UNCHANGED <<read, proc>>
  /\ UNCHANGED <<attempts, node, answer, dir, parent, did, touched, local, log, binary>>

\* The commands of the attempt whose entry is not written.
Unlogged == {i \in DOMAIN read[att].codes :
               \A e \in log : ~(e.attempt = att /\ e.command = i)}

\* One entry per command that ran, in their order.  A write that fails raises
\* out of the job.
AppendEntry ==
  /\ driver = "append"
  /\ \/ /\ Unlogged # {}
        /\ LET i == CHOOSE i \in Unlogged : \A j \in Unlogged : i <= j
           IN  log' = log \cup {[attempt |-> att, command |-> i,
                                 code |-> read[att].codes[i], input |-> read[att].input]}
        /\ UNCHANGED <<driver, receipt>>
     \/ Unlogged = {} /\ driver' = "record" /\ UNCHANGED <<log, receipt>>
     \/ Refuse /\ UNCHANGED log
  /\ UNCHANGED <<attempts, site, local, read, binary>>

Succeeded(a) == DOMAIN read[a].codes = 1 .. Commands[kind[a]]
                /\ \A i \in DOMAIN read[a].codes : read[a].codes[i] = "ok"

\* The body's end: a Build whose commands succeeded and whose collected binary
\* is there records it, with where it was built; a failed command is a content
\* failure, routed elsewhere.  The scratch goes with the substep.
Record ==
  /\ driver = "record" /\ driver' = "ended"
  /\ binary' = IF kind[att] = "build" /\ Succeeded(att) /\ copy.binary
                 THEN [att |-> att, place |-> place[att], machine |-> answer[att]]
                 ELSE binary
  /\ printed' = <<>> /\ files' = Nothing /\ copy' = Nothing
  /\ UNCHANGED <<attempts, site, local, read, log>>

\* The driver is killed, in a call or between two.  A later resume starts the
\* next attempt; what the site runs goes on.
Crash ==
  /\ driver # "ended" /\ Refuse
  /\ UNCHANGED <<attempts, site, local, records>>

\* A run on another target rewrites the case files beside the IR both share.
CaseFilesChange ==
  /\ local < MaxEdits /\ driver # "ended" /\ kind[att] = "execute"
  /\ local' = local + 1
  /\ UNCHANGED <<driver, attempts, site, receipt, records>>

-----------------------------------------------------------------------------
(* The site. *)

\* The driver is in the attempt; when it has left, nobody reads what its
\* script comes to, and one outcome of a command stands for all.
Attended(a) == att = a /\ driver # "ended"

\* The call moves on; to an exit, "answered" is status 0 and "failed" is not.
Goes(a, from, to) == proc[a] = from /\ proc' = [proc EXCEPT ![a] = to]

MakeParent(a) ==
  /\ Goes(a, "parent", "mkdir")
  /\ parent' = TRUE
  /\ UNCHANGED <<driver, attempts, node, answer, dir, did, touched, receipt, local, records>>

\* mkdir without -p: it fails when a late rmdir has taken the parent.
MakeDir(a) ==
  /\ Goes(a, "mkdir", IF parent THEN "answered" ELSE "failed")
  /\ dir' = [dir EXCEPT ![a] = parent]
  /\ UNCHANGED <<driver, attempts, node, answer, parent, did, touched, receipt, local, records>>

\* The machine the script asks for, the one that built the shipped binary.
Wants(a) == IF used[a] = Nothing THEN {} ELSE {used[a].machine}

\* The script starts on a node, runs its setup and its checks.
ScriptStarts(a) ==
  /\ proc[a] = "start"
  /\ \E m \in MachinesAt[place[a]] : \E says \in {m, Nothing} :
       /\ node' = [node EXCEPT ![a] = m]
       /\ answer' = [answer EXCEPT ![a] = says]
       /\ Goes(a, "start", IF Wants(a) \subseteq {says} THEN "next" ELSE "failed")
  /\ UNCHANGED <<driver, attempts, dir, parent, did, touched, receipt, local, records>>

\* A command runs only when every earlier one exited 0.
More(a) == /\ Len(did[a]) < Commands[kind[a]]
           /\ \A i \in DOMAIN did[a] : did[a][i].code = "ok"

CommandStarts(a) ==
  /\ More(a) /\ Goes(a, "next", "command")
  /\ dir[a]
  /\ did' = [did EXCEPT ![a] = Append(@, [code |-> "running",
                                          input |-> IF Attended(a) THEN files.input ELSE Nothing])]
  /\ UNCHANGED <<driver, attempts, node, answer, dir, parent, touched, receipt, local, records>>

\* It ends and its line is printed; a Build's that succeeds may leave the
\* binary.
CommandEnds(a, code) ==
  LET i == Len(did[a])
  IN  /\ Attended(a) \/ code = "ok"
      /\ Goes(a, "command", "next")
      /\ did' = [did EXCEPT ![a][i].code = code]
      /\ printed' = IF Attended(a) THEN Append(printed, [command |-> i, code |-> code]) ELSE printed
      /\ \E left \in {FALSE, code = "ok" /\ kind[a] = "build"} :
           files' = IF Attended(a) THEN [files EXCEPT !.binary = @ \/ left] ELSE files
      /\ UNCHANGED <<driver, attempts, node, answer, dir, parent, touched, local, copy, records>>

ScriptEnds(a) ==
  /\ ~More(a) /\ Goes(a, "next", "answered")
  /\ UNCHANGED <<driver, attempts, node, answer, dir, parent, did, touched, receipt, local, records>>

\* A command of the job, or a process that one left, is there to interfere
\* with what the driver has still to collect.
Alive(a) == did[a] # <<>> /\ Attended(a) /\ driver \in {"run", "collect"}

\* What it hides from every check the host makes is kept as history.
Hides(a, what) == /\ Cardinality(touched[a] \cup {what}) <= MaxHidden
                  /\ touched' = [touched EXCEPT ![a] = @ \cup {what}]

\* It removes an output file, rewrites a shipped file, or puts back bytes the
\* file had on the host - after which no comparison sees the rewrite.
Interferes(a) ==
  /\ Alive(a)
  /\ \/ files' = [files EXCEPT !.output = FALSE] /\ UNCHANGED touched
     \/ files' = [files EXCEPT !.input = Changed] /\ UNCHANGED touched
     \/ /\ files.input = Changed
        /\ \E v \in 0 .. local : files' = [files EXCEPT !.input = v]
        /\ Hides(a, "input")
  /\ UNCHANGED <<driver, attempts, proc, node, answer, dir, parent, did, printed, copy, local,
                 records>>

\* It opens the script's stdout for reading and takes a status line before the
\* host has it.  Bound: one line of a job.
TakesLine(a, k) ==
  /\ Alive(a) /\ driver = "run" /\ "line" \notin touched[a]
  /\ printed' = RemoveAt(printed, k)
  /\ Hides(a, "line")
  /\ UNCHANGED <<driver, attempts, proc, node, answer, dir, parent, did, local, files, copy,
                 records>>

\* The commands of the job that ended.
Ended(a) == {i \in DOMAIN did[a] : did[a][i].code # "running"}

\* It opens that stdout for writing and adds a line in a status line's shape,
\* of a command of the job or of none.  One that is not in the place of a line
\* taken is refused whatever it says: "ok" stands for all.  Bound: one line of
\* a job.
StrayLine(a, i, code) ==
  /\ Alive(a) /\ driver = "run" /\ (code = "ok" \/ "line" \in touched[a])
  /\ Len(printed) + (IF "line" \in touched[a] THEN 1 ELSE 0) <= Cardinality(Ended(a))
  /\ printed' = Append(printed, [command |-> i, code |-> code])
  /\ UNCHANGED <<driver, attempts, site, local, files, copy, records>>

RemoveDir(a) ==
  /\ Goes(a, "rm", "rmdir")
  /\ dir' = [dir EXCEPT ![a] = FALSE]
  /\ UNCHANGED <<driver, attempts, node, answer, parent, did, touched, receipt, local, records>>

\* rmdir takes the orchestration's directory when no job's is left in it.
RemoveParent(a) ==
  /\ Goes(a, "rmdir", "answered")
  /\ parent' = (parent /\ \E b \in Attempts : dir[b])
  /\ UNCHANGED <<driver, attempts, node, answer, dir, did, touched, receipt, local, records>>

-----------------------------------------------------------------------------
Driver == \/ Answered \/ GivenUp
          \/ Stage \/ Collect \/ Check \/ AppendEntry \/ Record

Site(a) ==
  \/ MakeParent(a) \/ MakeDir(a)
  \/ ScriptStarts(a) \/ CommandStarts(a) \/ ScriptEnds(a)
  \/ \E code \in Codes : CommandEnds(a, code)
  \/ Interferes(a)
  \/ \E k \in DOMAIN printed : TakesLine(a, k)
  \/ \E i \in 1 .. Commands[kind[a]] + 1, code \in {"ok", "fail"} : StrayLine(a, i, code)
  \/ RemoveDir(a) \/ RemoveParent(a)

JobNext ==
  \/ Driver
  \/ \E k \in JobKinds, p \in Places : Start(k, p)
  \/ Crash \/ CaseFilesChange
  \/ \E a \in Attempts : Site(a)

\* The driver is one thread whose every call is bounded (subprocess.run's
\* timeout); nothing is promised of the site.
JobSpec == JobInit /\ [][JobNext]_jobVars /\ WF_jobVars(Driver)

-----------------------------------------------------------------------------
\* An entry of the command log tells what a command of that job did at the
\* site: it ran to its end, exited as the entry says and not as a program that
\* did not start, and read the inputs the host compared, whichever other
\* attempt ran beside it and whatever a process of the job rewrote, removed or
\* added to the script's stdout (_run_job).  Two things pass the reader: a
\* status line that was taken from the pipe, which the module's docstring
\* leaves open, and a rewritten file that was put back before it was collected,
\* of which it does not speak - each excuses the half of the entry it can forge.
EntriesTellWhatRan ==
  \A e \in log :
    LET a == e.attempt  i == e.command
    IN  /\ e.code # "nostart"
        /\ "line" \notin touched[a] => i \in DOMAIN did[a] /\ did[a][i].code = e.code
        /\ "input" \notin touched[a] /\ i \in DOMAIN did[a] => did[a][i].input = e.input

\* The directory of a job that ran anything is gone from the site only when
\* the host has read the whole of what its commands did, as far as no status
\* line was taken (_run_job removes it after every check).  So a job refused by
\* a check, a copy or the script is there to be inspected.  The docstring says
\* it of every refused job: one whose removal the site carried out and whose
\* answer was lost, or whose entry could not be written, has none any more.
EvidenceIsKept ==
  \A a \in Attempts : did[a] # <<>> /\ ~dir[a] =>
    /\ read[a] # Nothing
    /\ "line" \notin touched[a] =>
         /\ DOMAIN read[a].codes = DOMAIN did[a]
         /\ \A i \in DOMAIN did[a] : read[a].codes[i] = did[a][i].code

\* What Validate.execute ran, it ran on a machine of the kind, at the site and
\* the ssh destination, that built the binary it shipped: through a map the
\* operator edits between the two and a scheduler that picks the node
\* (_execute_inproc's guards, and the script's own question).
RanWhereBuilt ==
  \A a \in Attempts : kind[a] = "execute" /\ did[a] # <<>> =>
    LET b == used[a].att IN place[a] = place[b] /\ node[a] = node[b]

\* Every attempt ends, though a site may never answer and its script may never
\* end: each call has a bound on the host (_transport).
AttemptEnds == driver # "ended" ~> driver = "ended"
=============================================================================
