---------------------------- MODULE Registration ----------------------------
(***************************************************************************)
(* The registration of an emitted Codex thread and its crash recovery      *)
(* (src/tools/orchestration_runtime.py: _write_json_transaction,           *)
(* _recover_json_transactions_unlocked, _append_session_run_index_entry;   *)
(* src/tools/workflow_conductor.py: _bind_codex_thread).                   *)
(*                                                                         *)
(* A registration replaces two files, the launch response of a child and   *)
(* the session index, under the lock every writer of the index takes.  It  *)
(* stages both bodies and both backups, writes a journal, renames, and     *)
(* removes the journal.  An I/O error may be raised by every step and the  *)
(* process may die between any two; whoever takes the lock next rolls a    *)
(* journal it finds back before it does anything else.                     *)
(*                                                                         *)
(* The index exists from the creation of the orchestration, so that both   *)
(* files always have a backup.  The staging directory is removed in one    *)
(* step: it holds no journal any more when its removal begins.             *)
(***************************************************************************)
EXTENDS Naturals

CONSTANTS Children,   \* the children, each driven by an actor of its own
          MaxErrors,  \* bound: I/O errors
          MaxCrashes  \* bound: deaths of an actor

ASSUME RegistrationAssumption ==
  /\ MaxErrors \in Nat /\ MaxCrashes \in Nat
  /\ "nobody" \notin Children

Sessions == {"none", "provisional", "thread"}
Row(s, done) == [session |-> s, done |-> done]
Rows == [session : Sessions, done : BOOLEAN]

Files == {"response", "index"}  \* the two targets, renamed in this order
Nobody == "nobody"
NoTx == [live |-> FALSE]

VARIABLES
  response, \* the session each child's launch response names
  index,    \* each child's row of session_run_index.json
  tx,       \* the staging directory, if there is one
  lock,     \* the holder of the index lock
  op,       \* the operation an actor is on
  pc,       \* where in it; "out" outside the lock
  stage,    \* what the actor has been told of its child
  errors, crashes

files == <<response, index>>
vars == <<files, tx, lock, op, pc, stage, errors, crashes>>

Journaled == tx.live /\ tx.journal

Init ==
  /\ response = [c \in Children |-> "none"]
  /\ index = [c \in Children |-> Row("none", FALSE)]
  /\ tx = NoTx /\ lock = Nobody
  /\ op = [c \in Children |-> "launch"] /\ pc = [c \in Children |-> "out"]
  /\ stage = [c \in Children |-> "new"]
  /\ errors = 0 /\ crashes = 0

Goto(c, l) == pc' = [pc EXCEPT ![c] = l]
At(c, l) == lock = c /\ pc[c] = l

(* The lock is let go, by a return or by an exception.                     *)
Leave(c, st, next) ==
  /\ lock' = Nobody /\ Goto(c, "out")
  /\ stage' = [stage EXCEPT ![c] = st] /\ op' = [op EXCEPT ![c] = next]

-----------------------------------------------------------------------------
(* Before the lock.                                                        *)

(* record_launch writes the response of a new child outside the lock.      *)
WriteResponse(c) ==
  /\ pc[c] = "out" /\ stage[c] = "new" /\ response[c] = "none"
  /\ response' = [response EXCEPT ![c] = "provisional"]
  /\ stage' = [stage EXCEPT ![c] = "written"]
  /\ UNCHANGED <<index, tx, lock, op, pc, errors, crashes>>

(* A child is launched, its thread is registered if it emits one, and it   *)
(* is finished.  A conductor built after a crash, and one whose            *)
(* registration failed, only recover.                                      *)
Wanted(c) ==
  CASE stage[c] = "written" -> {"launch"}
    [] stage[c] = "launched" -> {"register", "finish"}
    [] stage[c] \in {"bound", "failed"} -> {"finish"}
    [] stage[c] = "raised" -> {"repair"}
    [] stage[c] = "dead" -> {"restart"}
    [] stage[c] \in {"new", "done"} -> {}

Enter(c) ==
  /\ lock = Nobody /\ pc[c] = "out"
  /\ \E o \in Wanted(c) : op' = [op EXCEPT ![c] = o]
  /\ lock' = c /\ Goto(c, "recover")
  /\ UNCHANGED <<files, tx, stage, errors, crashes>>

-----------------------------------------------------------------------------
(* Recovery, on entry or after an exception of the registration itself.    *)

(* Where the recovery goes back to: an aborted registration raises.        *)
Resumed(c) == IF op[c] = "abort" THEN "raise" ELSE "body"

FindNothing(c) ==
  /\ At(c, "recover") /\ ~tx.live
  /\ Goto(c, Resumed(c))
  /\ UNCHANGED <<files, tx, lock, op, stage, errors, crashes>>

FindStaging(c) ==
  /\ At(c, "recover") /\ tx.live
  /\ Goto(c, IF tx.journal THEN "undoIndex" ELSE "sweep")
  /\ UNCHANGED <<files, tx, lock, op, stage, errors, crashes>>

(* A backup goes over its target.  A missing one must have been restored   *)
(* already; otherwise the recovery refuses to go on.                       *)
UndoIndex(c) ==
  /\ At(c, "undoIndex")
  /\ \/ /\ "index" \in tx.saved
        /\ index' = tx.oldIndex /\ tx' = [tx EXCEPT !.saved = @ \ {"index"}]
        /\ Goto(c, "undoResponse")
     \/ /\ "index" \notin tx.saved /\ index = tx.oldIndex
        /\ Goto(c, "undoResponse") /\ UNCHANGED <<index, tx>>
     \/ /\ "index" \notin tx.saved /\ index # tx.oldIndex
        /\ Goto(c, "raise") /\ UNCHANGED <<index, tx>>
  /\ UNCHANGED <<response, lock, op, stage, errors, crashes>>

UndoResponse(c) ==
  /\ At(c, "undoResponse")
  /\ \/ /\ "response" \in tx.saved
        /\ response' = [response EXCEPT ![tx.child] = tx.oldResponse]
        /\ tx' = [tx EXCEPT !.saved = @ \ {"response"}]
        /\ Goto(c, "unjournal")
     \/ /\ "response" \notin tx.saved /\ response[tx.child] = tx.oldResponse
        /\ Goto(c, "unjournal") /\ UNCHANGED <<response, tx>>
     \/ /\ "response" \notin tx.saved /\ response[tx.child] # tx.oldResponse
        /\ Goto(c, "raise") /\ UNCHANGED <<response, tx>>
  /\ UNCHANGED <<index, lock, op, stage, errors, crashes>>

Unjournal(c) ==
  /\ At(c, "unjournal")
  /\ tx' = [tx EXCEPT !.journal = FALSE] /\ Goto(c, "sweep")
  /\ UNCHANGED <<files, lock, op, stage, errors, crashes>>

(* The staging directory goes, and the recovery looks for another one.     *)
Sweep(c) ==
  /\ At(c, "sweep")
  /\ tx' = NoTx /\ Goto(c, "recover")
  /\ UNCHANGED <<files, lock, op, stage, errors, crashes>>

-----------------------------------------------------------------------------
(* What an actor does once nothing is left to recover.                     *)

(* _append_session_run_index_entry: the row of a launched or finished run. *)
AppendRow(c) ==
  /\ At(c, "body") /\ op[c] \in {"launch", "finish"}
  /\ index' = [index EXCEPT ![c] = Row(response[c], op[c] = "finish")]
  /\ Leave(c, IF op[c] = "finish" THEN "done" ELSE "launched", op[c])
  /\ UNCHANGED <<response, tx, errors, crashes>>

(* The recovery of a new conductor: the child of the dead one is not       *)
(* continued.  The recovery after a failed registration: the failure can   *)
(* now be reported as that of the leaf.                                    *)
Recovered(c) ==
  /\ At(c, "body") /\ op[c] \in {"restart", "repair"}
  /\ Leave(c, IF op[c] = "restart" THEN "done" ELSE "failed", op[c])
  /\ UNCHANGED <<files, tx, errors, crashes>>

(* The launch response names another thread than the one emitted.          *)
Conflict(c) ==
  /\ At(c, "body") /\ op[c] = "register"
  /\ Leave(c, "raised", op[c])
  /\ UNCHANGED <<files, tx, errors, crashes>>

Stage(c) ==
  /\ At(c, "body") /\ op[c] = "register"
  /\ tx' = [live |-> TRUE, journal |-> FALSE, child |-> c, saved |-> Files,
            oldResponse |-> response[c], oldIndex |-> index,
            newIndex |-> [index EXCEPT ![c] = Row("thread", FALSE)]]
  /\ Goto(c, "journal")
  /\ UNCHANGED <<files, lock, op, stage, errors, crashes>>

(* Mutant of WriteJournal: the renames begin before the journal is there.  *)
WriteJournalLate(c) ==
  /\ At(c, "journal")
  /\ Goto(c, "renameResponse")
  /\ UNCHANGED <<files, tx, lock, op, stage, errors, crashes>>

WriteJournal(c) ==
  /\ At(c, "journal")
  /\ tx' = [tx EXCEPT !.journal = TRUE] /\ Goto(c, "renameResponse")
  /\ UNCHANGED <<files, lock, op, stage, errors, crashes>>

RenameResponse(c) ==
  /\ At(c, "renameResponse")
  /\ response' = [response EXCEPT ![c] = "thread"] /\ Goto(c, "renameIndex")
  /\ UNCHANGED <<index, tx, lock, op, stage, errors, crashes>>

(* The last rename is made durable before the journal goes.                *)
RenameIndex(c) ==
  /\ At(c, "renameIndex")
  /\ index' = tx.newIndex /\ Goto(c, "sync")
  /\ UNCHANGED <<response, tx, lock, op, stage, errors, crashes>>

Sync(c) ==
  /\ At(c, "sync") /\ Goto(c, "commit")
  /\ UNCHANGED <<files, tx, lock, op, stage, errors, crashes>>

Commit(c) ==
  /\ At(c, "commit")
  /\ tx' = [tx EXCEPT !.journal = FALSE] /\ Goto(c, "clean")
  /\ UNCHANGED <<files, lock, op, stage, errors, crashes>>

Clean(c) ==
  /\ At(c, "clean")
  /\ tx' = NoTx /\ Leave(c, "bound", op[c])
  /\ UNCHANGED <<files, errors, crashes>>

-----------------------------------------------------------------------------
(* Errors and crashes.                                                     *)

(* Mutant of Raise: an exception leaves the lock behind.                   *)
RaiseLocked(c) ==
  /\ At(c, "raise")
  /\ Goto(c, "out") /\ stage' = [stage EXCEPT ![c] = "dead"]
  /\ UNCHANGED <<files, tx, lock, op, errors, crashes>>

(* An exception leaves the lock.  One of a registration is caught by       *)
(* _bind_codex_thread, which recovers before it reports; any other, and    *)
(* one of that recovery, ends the conductor.                               *)
Raise(c) ==
  /\ At(c, "raise")
  /\ Leave(c, IF op[c] \in {"register", "abort"} THEN "raised" ELSE "dead", op[c])
  /\ UNCHANGED <<files, tx, errors, crashes>>

(* An exception between the staging and the last rename rolls back under   *)
(* the same lock; in a recovery, on entry or after the commit it does not. *)
Undone == {"journal", "renameResponse", "renameIndex", "sync"}
Uncaught == {"recover", "undoIndex", "undoResponse", "unjournal", "sweep", "body",
             "commit", "clean"}

Error(c) ==
  /\ lock = c /\ errors < MaxErrors /\ errors' = errors + 1
  /\ \/ /\ pc[c] \in Undone
        /\ op' = [op EXCEPT ![c] = "abort"] /\ Goto(c, "recover")
     \/ /\ pc[c] \in Uncaught
        /\ Goto(c, "raise") /\ UNCHANGED op
  /\ UNCHANGED <<files, tx, lock, stage, crashes>>

(* The process of an actor dies; the lock goes with it.                    *)
Crash(c) ==
  /\ crashes < MaxCrashes /\ crashes' = crashes + 1
  /\ stage[c] \notin {"new", "dead", "done"}
  /\ lock' = IF lock = c THEN Nobody ELSE lock
  /\ Goto(c, "out") /\ stage' = [stage EXCEPT ![c] = "dead"]
  /\ UNCHANGED <<files, tx, op, errors>>

Step(c) ==
  \/ Enter(c) \/ FindNothing(c) \/ FindStaging(c) \/ UndoIndex(c) \/ UndoResponse(c)
  \/ Unjournal(c) \/ Sweep(c) \/ AppendRow(c) \/ Recovered(c) \/ Conflict(c)
  \/ Stage(c) \/ WriteJournal(c) \/ RenameResponse(c) \/ RenameIndex(c)
  \/ Sync(c) \/ Commit(c) \/ Clean(c) \/ Raise(c)

(* Every child is done with.                                               *)
Settled == (\A c \in Children : stage[c] = "done") /\ UNCHANGED vars

Next == Settled \/ \E c \in Children : WriteResponse(c) \/ Step(c) \/ Error(c) \/ Crash(c)

(* An actor goes on while it has something to do.  The lock is not fair to *)
(* its waiters: only whoever holds it is sure to go on.                    *)
Spec == Init /\ [][Next]_vars /\ \A c \in Children : WF_vars(Step(c))

-----------------------------------------------------------------------------
(* Properties.                                                             *)

Labels == {"out", "recover", "undoIndex", "undoResponse", "unjournal", "sweep", "body",
           "journal", "renameResponse", "renameIndex", "sync", "commit", "clean", "raise"}
Indexes == [Children -> Rows]
Txs == [live : {TRUE}, journal : BOOLEAN, child : Children, saved : SUBSET Files,
        oldResponse : Sessions, oldIndex : Indexes, newIndex : Indexes]

(* Every variable has its type, and whoever is past the entry holds the    *)
(* lock, alone.                                                            *)
TypeOK ==
  /\ response \in [Children -> Sessions] /\ index \in Indexes
  /\ tx \in Txs \cup {NoTx}
  /\ lock \in Children \cup {Nobody}
  /\ op \in [Children -> {"launch", "register", "abort", "finish", "repair", "restart"}]
  /\ pc \in [Children -> Labels]
  /\ \A c \in Children : lock = c <=> pc[c] # "out"
  /\ stage \in [Children -> {"new", "written", "launched", "bound", "raised", "failed",
                             "dead", "done"}]
  /\ errors \in 0 .. MaxErrors /\ crashes \in 0 .. MaxCrashes

(* What a reader that takes the lock and recovers would read now.          *)
SeenResponse == IF Journaled THEN [response EXCEPT ![tx.child] = tx.oldResponse] ELSE response
SeenIndex == IF Journaled THEN tx.oldIndex ELSE index

Seen == INSTANCE AtomicRegistration WITH response <- SeenResponse, index <- SeenIndex

(* For a reader that takes the lock a registration happens at once, when   *)
(* its journal goes, or not at all, and no row another writer has written  *)
(* is undone with it (the docstring of _write_json_transaction).           *)
ImplementsAtomicRegistration == Seen!Spec

(* A recovery never lacks the backup of a file it still has to restore,    *)
(* however often recoveries have died before it: it never has to refuse    *)
(* ("backup missing before recovery completed").                           *)
BackupsSuffice ==
  \A c \in Children :
    /\ At(c, "undoIndex") => "index" \in tx.saved \/ index = tx.oldIndex
    /\ At(c, "undoResponse") =>
         "response" \in tx.saved \/ response[tx.child] = tx.oldResponse

(* Nobody who holds the lock and has recovered works on split identities:  *)
(* a row of the index names the session its launch response names          *)
(* (_bind_codex_thread: never finalize against split identities).          *)
NoSplitIdentities ==
  \A c \in Children : At(c, "body") =>
    \A d \in Children : index[d].session \in {"none", response[d]}

(* A registration reported as done is there for every later reader,        *)
(* whatever dies afterwards.                                               *)
ReportedIsDurable ==
  \A c \in Children : stage[c] = "bound" =>
    SeenResponse[c] = "thread" /\ SeenIndex[c].session = "thread"

(* What holds of the staging directory, whoever left it there.             *)
TxInv ==
  /\ tx.live =>
       /\ tx.oldResponse # "none" /\ response[tx.child] # "none"
       /\ tx.newIndex = [tx.oldIndex EXCEPT ![tx.child] = Row("thread", FALSE)]
  /\ Journaled =>
       /\ "response" \in tx.saved \/ response[tx.child] = tx.oldResponse
       /\ "index" \in tx.saved \/ index = tx.oldIndex

(* What the holder of the lock can rely on, by where it is.                *)
Mine(c) == tx.live /\ tx.child = c
Unchanged == response[tx.child] = tx.oldResponse /\ index = tx.oldIndex
Held(c) ==
  /\ pc[c] \in {"undoIndex", "undoResponse", "unjournal"} => Journaled
  /\ pc[c] \in {"undoResponse", "unjournal"} => index = tx.oldIndex
  /\ pc[c] = "unjournal" => response[tx.child] = tx.oldResponse
  /\ pc[c] = "sweep" => tx.live /\ ~tx.journal
  /\ stage[c] # "new"
  /\ pc[c] = "body" => ~tx.live
  /\ pc[c] = "journal" => Mine(c) /\ ~tx.journal /\ Unchanged
  /\ pc[c] = "renameResponse" => Mine(c) /\ tx.journal /\ Unchanged
  /\ pc[c] = "renameIndex" => Mine(c) /\ tx.journal /\ response[c] = "thread"
  /\ pc[c] \in {"sync", "commit"} =>
       Mine(c) /\ tx.journal /\ response[c] = "thread" /\ index = tx.newIndex
  /\ pc[c] = "clean" => Mine(c) /\ ~tx.journal /\ response[c] = "thread"
                         /\ index[c].session = "thread"
  /\ pc[c] \in {"journal", "renameResponse", "renameIndex"} => tx.saved = Files
HolderInv == \A c \in Children : lock = c => Held(c)

(* What a locked reader sees is whole, and a child that has been written   *)
(* has a response.                                                         *)
SeenInv ==
  /\ \A c \in Children : stage[c] # "new" => response[c] # "none"
  /\ \A c \in Children : SeenIndex[c].session \in {"none", SeenResponse[c]}

(* With the invariants above, what every step preserves.                   *)
IInv == TypeOK /\ TxInv /\ HolderInv /\ SeenInv /\ ReportedIsDurable

(* The lock is let go by every operation, whatever it raises on the way.   *)
LockIsLetGo == \A c \in Children : lock = c ~> lock # c

=============================================================================
