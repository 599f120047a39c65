-------------------------- MODULE WrapperEndpoint --------------------------
(***************************************************************************)
(* The endpoint that serves the wrapper's operations to one launch of a    *)
(* workshop leaf (src/tools/workshop_mcp.py: WrapperMcpServer), with the   *)
(* bounds of run_wrapper_op (src/tools/workshop_wrapper.py) and the record *)
(* of the lineage (src/tools/workshop_tree.py).                            *)
(*                                                                         *)
(* Each connection has a handler thread.  The conductor's thread stops the *)
(* endpoint when the leaf has exited: no new connection, the accepted ones *)
(* cut, the runs killed and the handlers joined until a deadline.  Then it *)
(* takes the snapshot of the tree, unless a handler is left.               *)
(***************************************************************************)
EXTENDS Naturals, FiniteSets

CONSTANTS Handlers,     \* the connections of the launch
          None,
          WrapperCalls,      \* max_wrapper_calls
          MaxCalls,     \* bound: the calls the leaf makes
          RunsPerCall,  \* bound: the commands one operation runs
          MaxJoins      \* bound: the rounds of the join before its deadline

ASSUME EndpointAssumption ==
  /\ None \notin Handlers /\ WrapperCalls \in Nat \ {0} /\ MaxCalls \in Nat
  /\ RunsPerCall \in Nat /\ MaxJoins \in Nat

VARIABLES
  at,        \* where each handler is
  run,       \* the command it waits for: "none", "alive", "dying", "dead"
  listed,    \* that command's group is in _pgids
  stale,     \* groups of its call that have exited, still in _pgids
  runs,      \* the commands its operation has run
  answer,    \* the reason its call was refused with
  cut,       \* handlers whose connection stop() has shut down
  ended, used, late,              \* the lineage: its record, and its time is up
  lock,                           \* the holder of the lineage's operation lock
  stopping, st, todo, joins,      \* stop()
  signalled, cancel, told,        \* _signal_end, and what on_end does
  calls, ran, hit                 \* calls made, operations run, a stranger killed

handler == <<at, run, listed, stale, runs, answer>>
record == <<ended, used, late>>
stop == <<stopping, st, todo, joins>>
signal == <<signalled, cancel, told>>
tallies == <<calls, ran, hit>>
endpointVars == <<handler, cut, record, lock, stop, signal, tallies>>

EndpointInit ==
  /\ at = [h \in Handlers |-> "off"] /\ run = [h \in Handlers |-> "none"]
  /\ listed = [h \in Handlers |-> FALSE] /\ stale = [h \in Handlers |-> "none"]
  /\ runs = [h \in Handlers |-> 0] /\ answer = [h \in Handlers |-> "none"] /\ cut = {}
  /\ ended = "none" /\ used \in 0 .. WrapperCalls /\ late = FALSE /\ lock = None
  /\ stopping = FALSE /\ st = "serving" /\ todo = {} /\ joins = 0
  /\ signalled = FALSE /\ cancel = FALSE /\ told = 0
  /\ calls = 0 /\ ran = used /\ hit = FALSE

At(h, here, there) == at[h] = here /\ at' = [at EXCEPT ![h] = there]

Alive(h) == at[h] \notin {"off", "gone"}

-----------------------------------------------------------------------------
(* A handler and its connection.                                           *)

Connect(h) ==
  /\ st \in {"serving", "stopping"} /\ At(h, "off", "reading")
  /\ UNCHANGED <<run, listed, stale, runs, answer, cut, record, lock, stop, signal, tallies>>

(* Also what was received before the connection was shut down.             *)
Call(h) ==
  /\ calls < MaxCalls /\ calls' = calls + 1
  /\ At(h, "reading", "called")
  /\ answer' = [answer EXCEPT ![h] = "none"]
  /\ UNCHANGED <<run, listed, stale, runs, cut, record, lock, stop, signal, ran, hit>>

Disconnect(h) ==
  /\ At(h, "reading", "gone")
  /\ UNCHANGED <<run, listed, stale, runs, answer, cut, record, lock, stop, signal, tallies>>

Heed(h) ==
  /\ At(h, "called", IF stopping THEN "reply" ELSE "ask")
  /\ UNCHANGED <<run, listed, stale, runs, answer, cut, record, lock, stop, signal, tallies>>

Reply(h) ==
  /\ \/ h \notin cut /\ At(h, "reply", "reading")
     \/ At(h, "reply", "gone")
  /\ UNCHANGED <<run, listed, stale, runs, answer, cut, record, lock, stop, signal, tallies>>

-----------------------------------------------------------------------------
(* The bounds of an operation.                                             *)

Refuse(h, why) ==
  /\ answer' = [answer EXCEPT ![h] = why]
  /\ at' = [at EXCEPT ![h] = "refused"]

TimePasses ==
  /\ ~late /\ late' = TRUE
  /\ UNCHANGED <<handler, cut, ended, used, lock, stop, signal, tallies>>

Ask(h) ==
  /\ at[h] = "ask"
  /\ IF ended # "none" THEN Refuse(h, ended)
     ELSE /\ at' = [at EXCEPT ![h] = IF late THEN "time" ELSE "count"]
          /\ UNCHANGED answer
  /\ UNCHANGED <<run, listed, stale, runs, cut, record, lock, stop, signal, tallies>>

(* end_lineage: the first reason stands, and is what it returns.           *)
EndByTime(h) ==
  /\ at[h] = "time"
  /\ ended' = IF ended = "none" THEN "lineage_timeout" ELSE ended
  /\ Refuse(h, ended')
  /\ UNCHANGED <<run, listed, stale, runs, cut, used, late, lock, stop, signal, tallies>>

(* count_wrapper_call, under the lock of the record.                       *)
Count(h) ==
  /\ at[h] = "count"
  /\ \/ /\ ended = "none" /\ used < WrapperCalls
        /\ used' = used + 1 /\ at' = [at EXCEPT ![h] = "lock"] /\ UNCHANGED ended
     \/ /\ ended # "none" \/ used >= WrapperCalls
        /\ ended' = IF ended = "none" THEN "max_wrapper_calls" ELSE ended
        /\ at' = [at EXCEPT ![h] = "reread"] /\ UNCHANGED used
  /\ UNCHANGED <<run, listed, stale, runs, answer, cut, late, lock, stop, signal, tallies>>

Reread(h) ==
  /\ at[h] = "reread" /\ Refuse(h, ended)
  /\ UNCHANGED <<run, listed, stale, runs, cut, record, lock, stop, signal, tallies>>

-----------------------------------------------------------------------------
(* An operation and the commands it runs.                                  *)

Acquire(h) ==
  /\ At(h, "lock", "work") /\ lock = None /\ lock' = h /\ ran' = ran + 1
  /\ UNCHANGED <<run, listed, stale, runs, answer, cut, record, stop, signal, calls, hit>>

Spawn(h) ==
  /\ At(h, "work", "spawned") /\ runs[h] < RunsPerCall
  /\ run' = [run EXCEPT ![h] = "alive"] /\ runs' = [runs EXCEPT ![h] = @ + 1]
  /\ UNCHANGED <<listed, stale, answer, cut, record, lock, stop, signal, tallies>>

(* _record_spawn: into _pgids first, then whether the endpoint is stopping. *)
Record(h) ==
  /\ At(h, "spawned", "recorded")
  /\ listed' = [listed EXCEPT ![h] = TRUE]
  /\ UNCHANGED <<run, stale, runs, answer, cut, record, lock, stop, signal, tallies>>

Killed(r) == IF r = "alive" THEN "dying" ELSE r

(* Mutant: a run that starts late is left to the loop of stop().           *)
HeedAgainNot(h) ==
  /\ At(h, "recorded", "waits")
  /\ UNCHANGED <<run, listed, stale, runs, answer, cut, record, lock, stop, signal, tallies>>

HeedAgain(h) ==
  /\ At(h, "recorded", "waits")
  /\ run' = IF stopping THEN [run EXCEPT ![h] = Killed(@)] ELSE run
  /\ UNCHANGED <<listed, stale, runs, answer, cut, record, lock, stop, signal, tallies>>

(* By itself, at its timeout, or killed.                                   *)
RunEnds(h) ==
  /\ run[h] \in {"alive", "dying"} /\ run' = [run EXCEPT ![h] = "dead"]
  /\ UNCHANGED <<at, listed, stale, runs, answer, cut, record, lock, stop, signal, tallies>>

(* The command is waited for; its group's id may be given to another.      *)
Waited(h) ==
  /\ run[h] = "dead" /\ At(h, "waits", "work")
  /\ run' = [run EXCEPT ![h] = "none"] /\ listed' = [listed EXCEPT ![h] = FALSE]
  /\ stale' = [stale EXCEPT ![h] = "exited"]
  /\ UNCHANGED <<runs, answer, cut, record, lock, stop, signal, tallies>>

GroupIsReused(h) ==
  /\ stale[h] = "exited" /\ stale' = [stale EXCEPT ![h] = "reused"]
  /\ UNCHANGED <<at, run, listed, runs, answer, cut, record, lock, stop, signal, tallies>>

Release(h) ==
  /\ At(h, "work", "return") /\ lock' = None
  /\ UNCHANGED <<run, listed, stale, runs, answer, cut, record, stop, signal, tallies>>

(* The groups of the call leave _pgids.                                    *)
Forget(h) ==
  /\ At(h, "return", "reply")
  /\ stale' = [stale EXCEPT ![h] = "none"] /\ runs' = [runs EXCEPT ![h] = 0]
  /\ UNCHANGED <<run, listed, answer, cut, record, lock, stop, signal, tallies>>

(* Mutant: the flag is tested the wrong way round.                         *)
SignalSecond(h) ==
  /\ At(h, "refused", IF signalled THEN "tell" ELSE "reply") /\ signalled' = TRUE
  /\ UNCHANGED <<run, listed, stale, runs, answer, cut, record, lock, stop, cancel, told, tallies>>

Signal(h) ==
  /\ At(h, "refused", IF signalled THEN "reply" ELSE "tell") /\ signalled' = TRUE
  /\ UNCHANGED <<run, listed, stale, runs, answer, cut, record, lock, stop, cancel, told, tallies>>

Tell(h) ==
  /\ At(h, "tell", "reply") /\ cancel' = TRUE /\ told' = told + 1 /\ signalled' = TRUE
  /\ UNCHANGED <<run, listed, stale, runs, answer, cut, record, lock, stop, tallies>>

-----------------------------------------------------------------------------
(* stop(), and what the conductor does then.                               *)

BeginStop ==
  /\ st = "serving" /\ st' = "stopping" /\ stopping' = TRUE
  /\ UNCHANGED <<handler, cut, record, lock, todo, joins, signal, tallies>>

ShutDown ==
  /\ st = "stopping" /\ st' = "sever"
  /\ UNCHANGED <<handler, cut, record, lock, stopping, todo, joins, signal, tallies>>

Sever ==
  /\ st = "sever" /\ st' = "copy" /\ cut' = {h \in Handlers : Alive(h)}
  /\ UNCHANGED <<handler, record, lock, stopping, todo, joins, signal, tallies>>

(* kill_runs: the groups are copied under the lock, then killed.           *)
Copy ==
  /\ \/ st = "copy" /\ st' = "kill"
     \/ st = "last" /\ st' = "kill_last"
  /\ todo' = {<<h, "run">> : h \in {k \in Handlers : listed[k]}} \cup
             {<<h, "stale">> : h \in {k \in Handlers : stale[k] # "none"}}
  /\ UNCHANGED <<handler, cut, record, lock, stopping, joins, signal, tallies>>

Kill(h, what) ==
  /\ st \in {"kill", "kill_last"} /\ <<h, what>> \in todo /\ todo' = todo \ {<<h, what>>}
  /\ run' = IF what = "run" THEN [run EXCEPT ![h] = Killed(@)] ELSE run
  /\ hit' = (hit \/ (what = "stale" /\ stale[h] = "reused"))
  /\ UNCHANGED <<at, listed, stale, runs, answer, cut, record, lock, stopping, st, joins, signal,
                 calls, ran>>

(* Mutant: the join has no deadline.                                       *)
JoinForEver ==
  /\ st = "kill" /\ todo = {} /\ joins' = joins
  /\ st' = IF \E h \in Handlers : Alive(h) THEN "copy" ELSE "last"
  /\ UNCHANGED <<handler, cut, record, lock, stopping, todo, signal, tallies>>

Join ==
  /\ st = "kill" /\ todo = {}
  /\ \/ (\A h \in Handlers : ~Alive(h)) /\ st' = "last" /\ UNCHANGED joins
     \/ st' = "last" /\ UNCHANGED joins
     \/ (\E h \in Handlers : Alive(h)) /\ joins < MaxJoins /\ joins' = joins + 1 /\ st' = "copy"
  /\ UNCHANGED <<handler, cut, record, lock, stopping, todo, signal, tallies>>

Close ==
  /\ st = "kill_last" /\ todo = {} /\ st' = "closed"
  /\ UNCHANGED <<handler, cut, record, lock, stopping, todo, joins, signal, tallies>>

(* Mutant: the tree is read whoever is left.                               *)
SnapshotUnasked ==
  /\ st = "closed" /\ st' = "snapshot"
  /\ UNCHANGED <<handler, cut, record, lock, stopping, todo, joins, signal, tallies>>

Snapshot ==
  /\ st = "closed"
  /\ st' = IF \E h \in Handlers : Alive(h) THEN "not_stopped" ELSE "snapshot"
  /\ UNCHANGED <<handler, cut, record, lock, stopping, todo, joins, signal, tallies>>

Stopped == st \in {"snapshot", "not_stopped"} /\ UNCHANGED endpointVars

Handle(h) ==
  \/ Heed(h) \/ Reply(h) \/ Ask(h) \/ EndByTime(h) \/ Count(h) \/ Reread(h)
  \/ Acquire(h) \/ Spawn(h) \/ Record(h) \/ HeedAgain(h) \/ Waited(h) \/ Release(h) \/ Forget(h)
  \/ Signal(h) \/ Tell(h)

Stop ==
  \/ ShutDown \/ Sever \/ Copy \/ Join \/ Close \/ Snapshot
  \/ \E h \in Handlers, what \in {"run", "stale"} : Kill(h, what)

EndpointNext ==
  \/ \E h \in Handlers : Connect(h) \/ Call(h) \/ Disconnect(h) \/ Handle(h)
                       \/ RunEnds(h) \/ GroupIsReused(h)
  \/ TimePasses \/ BeginStop \/ Stop \/ Stopped

EndpointSpec == EndpointInit /\ [][EndpointNext]_endpointVars

(* The threads run; no command need ever end, and no client ever call.     *)
FairEndpointSpec ==
  EndpointSpec /\ WF_endpointVars(Stop) /\ \A h \in Handlers : WF_endpointVars(Handle(h))

-----------------------------------------------------------------------------
Reasons == {"none", "lineage_timeout", "max_wrapper_calls"}

(* Every variable keeps its type.                                          *)
EndpointTypeOK ==
  /\ at \in [Handlers -> {"off", "reading", "called", "ask", "time", "count", "reread", "refused",
                          "lock", "work", "spawned", "recorded", "waits", "return", "tell",
                          "reply", "gone"}]
  /\ run \in [Handlers -> {"none", "alive", "dying", "dead"}]
  /\ listed \in [Handlers -> BOOLEAN] /\ stale \in [Handlers -> {"none", "exited", "reused"}]
  /\ runs \in [Handlers -> 0 .. RunsPerCall] /\ answer \in [Handlers -> Reasons]
  /\ cut \in SUBSET Handlers /\ ended \in Reasons /\ used \in 0 .. WrapperCalls /\ late \in BOOLEAN
  /\ lock \in Handlers \cup {None} /\ stopping \in BOOLEAN
  /\ st \in {"serving", "stopping", "sever", "copy", "kill", "last", "kill_last", "closed",
             "snapshot", "not_stopped"}
  /\ todo \in SUBSET (Handlers \X {"run", "stale"}) /\ joins \in 0 .. MaxJoins
  /\ signalled \in BOOLEAN /\ cancel \in BOOLEAN /\ told \in Nat
  /\ calls \in 0 .. MaxCalls /\ ran \in Nat /\ hit \in BOOLEAN

(* When the tree is copied nothing writes it: no handler runs an operation, *)
(* and no command it started is left ("so nothing writes into it while it  *)
(* is read", _spawn_workshop_turn).                                        *)
QuietSnapshot ==
  st = "snapshot" => \A h \in Handlers : ~Alive(h) /\ run[h] = "none"

(* Nothing of the launch runs past stop() but what was started in the very  *)
(* step that is about to be told: a command is killed by the loop or by its *)
(* own handler, whichever of the two is later (_record_spawn).             *)
NothingRunsOn ==
  st \in {"closed", "snapshot", "not_stopped"} =>
    \A h \in Handlers : run[h] = "alive" => at[h] \in {"spawned", "recorded"}

(* A call that was refused because the lineage has ended ends the leaf.    *)
EndReachesTheLeaf == \A h \in Handlers : answer[h] # "none" ~> cancel

(* stop() returns, also when a command cannot be killed.                   *)
StopReturns == stopping ~> st \in {"snapshot", "not_stopped"}

=============================================================================
