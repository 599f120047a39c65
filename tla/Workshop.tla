------------------------------ MODULE Workshop ------------------------------
(***************************************************************************)
(* The loops that run an LLM substep as a workshop leaf                    *)
(* (src/tools/workflow_conductor.py: _run_workshop_producer_substep,       *)
(* _run_leaf_reviewer_substep, _spawn_workshop_turn and the state machine  *)
(* they share, _WorkshopLineageMachine).                                   *)
(*                                                                         *)
(* A lineage is one session of a leaf and its tree.  A launch is warm, in  *)
(* the lineage that is open, or cold, in a new lineage seeded by the host  *)
(* and, for a cold reuse, from the snapshot of an earlier one.  A launch   *)
(* ends cleanly, at a bound, by a result of the wrapper, with its last     *)
(* reply cut, or by dying; what it left in the tree is its answer.  The    *)
(* loop accepts it, sends it back for repair, runs it again, waits for a   *)
(* usage window, or gives up.                                              *)
(*                                                                         *)
(* Time is counted in units: what a lineage has left, what the launches    *)
(* that died cost, what the waits slept.                                   *)
(***************************************************************************)
EXTENDS Integers, Sequences

CONSTANTS Kinds,        \* of {"produces", "reads"}: the loops to run
          Transports,   \* of {"claude", "codex", "http"}
          MaxRepair,    \* MAX_BUNDLE_REPAIR_TURNS
          MaxRetries,   \* MAX_LEAF_TRANSIENT_RETRIES
          RetryBudget,  \* TRANSIENT_RETRY_WALL_CLOCK_BUDGET_SECONDS
          Schedule,     \* USAGE_LIMIT_WAIT_SCHEDULE_SECONDS
          MaxReset,     \* MAX_USAGE_RESET_WAIT_SECONDS
          Margin,       \* USAGE_RESET_MARGIN_SECONDS
          Resets,       \* bound: how far from now a reported reset may lie
          LeafCap,      \* the cap of one launch, 0 for none
          LineageTime,  \* lineage_timeout_s
          CallCap,      \* max_wrapper_calls
          MaxPrepare    \* bound: the time from the choice of warm to the start

ASSUME WorkshopAssumption ==
  /\ Kinds \subseteq {"produces", "reads"} /\ Transports \subseteq {"claude", "codex", "http"}
  /\ MaxRepair \in Nat /\ MaxRetries \in Nat /\ RetryBudget \in Nat
  /\ Schedule \in Seq(Nat) /\ MaxReset \in Nat /\ Margin \in Nat /\ Resets \subseteq Int
  /\ \A i \in 1 .. Len(Schedule) : Schedule[i] <= MaxReset
  /\ LeafCap \in Nat /\ LineageTime \in Nat \ {0} /\ CallCap \in Nat \ {0} /\ MaxPrepare \in Nat

VARIABLES
  kind, transport,
  waitReset,  \* --wait-usage-reset
  pc,         \* "start", "decide", "launch", "judge" or "out"
  lineage,    \* the machine's lineage, or NoLineage
  session,    \* it holds a session a launch could resume
  prior,      \* the lineage whose snapshot seeds the next cold one
  warm,       \* the launch under way resumes the lineage
  carried,    \* the findings the launch carries: none, of shape, of cut reads
  turn,       \* how the launch ended
  attempt, cutTurns, retries, waits,
  spent,      \* what the launches that died have cost
  slept,      \* what the waits for a usage window have slept
  launches,
  lost,       \* the tree the findings are about could not be found
  outcome

counters == <<attempt, cutTurns, retries, waits, spent, slept>>
fixed == <<kind, transport, waitReset>>
ghosts == <<launches, lost>>
machine == <<lineage, session, prior>>
vars == <<fixed, pc, machine, warm, carried, turn, counters, ghosts, outcome>>

Reads == kind = "reads"

NoLineage == [ended |-> "none"]
NoTurn == [end |-> "none"]

(* A lineage seeded from the seeds alone.  about: the document the findings *)
(* under repair are about is in the tree; finished, whole: every launch     *)
(* that worked on this tree ended by itself, and read nothing cut.          *)
Fresh == [ended |-> "open", left |-> LineageTime, calls |-> 0, convo |-> transport = "http",
          doc |-> "none", about |-> FALSE, finished |-> TRUE, whole |-> TRUE]

(* ... and from the snapshot of p, when there is one.                      *)
SeededFrom(p) ==
  IF p = NoLineage THEN Fresh
  ELSE [ended |-> "open", left |-> LineageTime, calls |-> 0, convo |-> transport = "http",
        doc |-> p.doc, about |-> p.about, finished |-> p.finished, whole |-> p.whole]

Ended(l, why) == IF l.ended = "open" THEN [l EXCEPT !.ended = why] ELSE l

Docs == {"none", "bad", "pass", IF Reads THEN "fail" ELSE "declared"}

-----------------------------------------------------------------------------
(* An outer reopen of a producer names the attempt to repair, and the       *)
(* lineage that attempt ran in is looked for; f: the reopen has findings.  *)
Located(f) ==
  {l \in [ended : {"open", "leaf_exit"}, left : 0 .. LineageTime, calls : 0 .. CallCap,
          convo : BOOLEAN, doc : {"pass"}, about : {f}, finished : {TRUE}, whole : {TRUE}] :
     l.convo => transport = "http" /\ l.ended = "open"}

Init ==
  /\ kind \in Kinds /\ transport \in Transports /\ waitReset \in BOOLEAN
  /\ pc = "start" /\ warm = FALSE /\ turn = NoTurn
  /\ lineage = NoLineage /\ session = FALSE
  /\ \/ /\ carried = "none" /\ prior = NoLineage /\ lost = FALSE
     \/ /\ kind = "produces" /\ carried \in {"none", "shape"} /\ prior = NoLineage /\ lost = TRUE
     \/ /\ kind = "produces" /\ carried \in {"none", "shape"} /\ lost = FALSE
        /\ prior \in Located(carried = "shape")
  /\ attempt = 0 /\ cutTurns = 0 /\ retries = 0 /\ waits = 0 /\ spent = 0 /\ slept = 0
  /\ launches = 0
  /\ outcome = "none"

StartAfresh ==
  /\ pc = "start" /\ prior = NoLineage
  /\ pc' = "decide"
  /\ UNCHANGED <<fixed, machine, warm, carried, turn, counters, ghosts, outcome>>

(* Mutant: a lineage that has ended is reopened warm.                      *)
ReopenEnded ==
  /\ pc = "start" /\ prior # NoLineage
  /\ carried = "shape" /\ (transport = "http" => prior.convo)
  /\ lineage' = prior /\ session' = TRUE /\ prior' = NoLineage
  /\ pc' = "decide"
  /\ UNCHANGED <<fixed, warm, carried, turn, counters, ghosts, outcome>>

(* Warm only with findings to send.                                        *)
ReopenWarm ==
  /\ pc = "start" /\ prior # NoLineage
  /\ prior.ended = "open" /\ carried = "shape" /\ (transport = "http" => prior.convo)
  /\ lineage' = prior /\ session' = TRUE /\ prior' = NoLineage
  /\ pc' = "decide"
  /\ UNCHANGED <<fixed, warm, carried, turn, counters, ghosts, outcome>>

ReopenCold ==
  /\ pc = "start" /\ prior # NoLineage
  /\ ~(transport = "http" /\ prior.ended = "open" /\ carried = "shape" /\ prior.convo)
  /\ prior' = Ended(prior, "superseded")
  /\ pc' = "decide"
  /\ UNCHANGED <<fixed, lineage, session, warm, carried, turn, counters, ghosts, outcome>>

Leave(o) == pc' = "out" /\ outcome' = o

-----------------------------------------------------------------------------
(* The machine: which lineage the next launch runs in.                     *)

(* The transcript may be gone; a conversation is in this process or not.   *)
MayResume ==
  IF lineage = NoLineage \/ ~session THEN {FALSE}
  ELSE IF transport = "http" THEN {lineage.convo /\ lineage.ended = "open"}
  ELSE BOOLEAN

(* A warm launch with no time or no call left could do nothing.            *)
Exhausted ==
  lineage # NoLineage /\ (lineage.left < 1 \/ (~Reads /\ lineage.calls >= CallCap))

Warm ==
  /\ pc = "decide" /\ TRUE \in MayResume /\ ~Exhausted
  /\ warm' = TRUE /\ pc' = "launch"
  /\ UNCHANGED <<fixed, machine, carried, turn, counters, ghosts, outcome>>

(* Mutant: a lineage that cannot be continued seeds nothing.               *)
ColdBare ==
  /\ pc = "decide" /\ (FALSE \in MayResume \/ Exhausted)
  /\ lineage' = Fresh
  /\ prior' = NoLineage /\ session' = FALSE /\ warm' = FALSE /\ pc' = "launch"
  /\ UNCHANGED <<fixed, carried, turn, counters, ghosts, outcome>>

Cold ==
  /\ pc = "decide" /\ (FALSE \in MayResume \/ Exhausted)
  /\ lineage' = SeededFrom(IF lineage # NoLineage THEN Ended(lineage, "superseded") ELSE prior)
  /\ prior' = NoLineage /\ session' = FALSE /\ warm' = FALSE /\ pc' = "launch"
  /\ UNCHANGED <<fixed, carried, turn, counters, ghosts, outcome>>

(* A host precondition: the context, the home, a seed, the routes.         *)
SetupFails ==
  /\ pc \in {"start", "decide", "launch"}
  /\ Leave("setup")
  /\ UNCHANGED <<fixed, machine, warm, carried, turn, counters, ghosts>>

(* Mutant: what it looks for next is the lineage that is gone.             *)
HomeGoneLooksAgain ==
  /\ pc = "launch" /\ warm /\ transport # "http"
  /\ pc' = "decide" /\ warm' = FALSE /\ lost' = TRUE
  /\ UNCHANGED <<fixed, machine, carried, turn, counters, launches, outcome>>

(* A prune has removed the home of the lineage: nothing was launched.      *)
HomeGone ==
  /\ pc = "launch" /\ warm /\ transport # "http"
  /\ lineage' = NoLineage /\ session' = FALSE /\ prior' = NoLineage
  /\ pc' = "decide" /\ warm' = FALSE /\ lost' = TRUE
  /\ UNCHANGED <<fixed, carried, turn, counters, launches, outcome>>

-----------------------------------------------------------------------------
(* One launch.                                                             *)

AtLeast(n, x) == IF x < n THEN n ELSE x

(* _workshop_timeout                                                       *)
Bound(left) ==
  LET remaining == AtLeast(1, left)
  IN  IF LeafCap # 0 /\ LeafCap <= remaining THEN LeafCap ELSE remaining

BoundName(left) == IF LeafCap # 0 /\ LeafCap <= AtLeast(1, left) THEN "leaf_timeout"
                   ELSE "lineage_timeout"

(* How a launch of d units that began with left to go may have ended, and  *)
(* the reason the lineage's record then gives.                             *)
Ends(d, left) ==
  {[end |-> "clean", tag |-> "none", ended |-> "open"]} \cup
  {[end |-> "died", tag |-> t, ended |-> "leaf_exit"] : t \in {"usage", "transient", "other"}} \cup
  (IF d = Bound(left) THEN {[end |-> "bound", tag |-> "none", ended |-> BoundName(left)]} ELSE {}) \cup
  (IF transport = "http" THEN {[end |-> "cut", tag |-> "none", ended |-> "open"]} ELSE {}) \cup
  (IF Reads THEN {}
   ELSE {[end |-> "cancelled", tag |-> "none", ended |-> "max_wrapper_calls"]} \cup
        (IF d >= left THEN {[end |-> "cancelled", tag |-> "none", ended |-> "lineage_timeout"]} ELSE {}))

(* What the host's two records say a codex reading launch read.            *)
CutReads(e) ==
  IF Reads /\ transport = "codex" /\ e.end # "died" THEN {"no", "some", "unreadable"} ELSE {"no"}

(* Calls are counted until the one past the cap ends the lineage.          *)
Calls(e) == IF Reads THEN {0}
            ELSE IF e.ended = "max_wrapper_calls" THEN {CallCap} ELSE lineage.calls .. CallCap

Launch ==
  /\ pc = "launch"
  /\ \E p \in 0 .. MaxPrepare : \E d \in 0 .. Bound(lineage.left - p) :
     \E e \in Ends(d, lineage.left - p) : \E r \in CutReads(e), doc \in Docs, c \in Calls(e) :
       /\ turn' = [end |-> e.end, tag |-> e.tag, reads |-> r, elapsed |-> d]
       /\ lineage' = [ended |-> e.ended, left |-> AtLeast(0, lineage.left - p - d), calls |-> c,
                      convo |-> lineage.convo /\ e.ended = "open", doc |-> doc,
                      about |-> lineage.about, finished |-> lineage.finished /\ e.end = "clean",
                      whole |-> lineage.whole /\ r = "no"]
  /\ launches' = launches + 1 /\ pc' = "judge"
  /\ UNCHANGED <<fixed, session, prior, warm, carried, counters, lost, outcome>>

(* A handler outlived the stop of the endpoint: the tree is not read.      *)
EndpointNotStopped ==
  /\ pc = "launch" /\ ~Reads /\ transport # "http"
  /\ launches' = launches + 1 /\ Leave("not_stopped")
  /\ UNCHANGED <<fixed, machine, warm, carried, turn, counters, lost>>

-----------------------------------------------------------------------------
(* What the loop makes of a launch.                                        *)

Died == turn.end = "died"

(* A reading launch that its bound ended, or whose last reply was cut, has *)
(* not finished its review, whatever it left but a fail.                   *)
Unfinished == Reads /\ turn.end \in {"bound", "cut"} /\ lineage.doc # "fail"

ReadCut == Reads /\ turn.end = "clean" /\ turn.reads = "some" /\ lineage.doc # "fail"

Unreadable == Reads /\ turn.end = "clean" /\ turn.reads = "unreadable" /\ lineage.doc # "fail"

Sound == lineage.doc \in {"pass", "fail"}

(* The attempt is finalized, then the host writes the artifacts, which may *)
(* fail: a transport outcome the operator resumes.                         *)
Accept ==
  /\ pc = "judge" /\ ~Died /\ Sound /\ ~Unfinished /\ ~ReadCut /\ ~Unreadable
  /\ \/ Leave(lineage.doc)
     \/ Leave("host_write")
  /\ UNCHANGED <<fixed, machine, warm, carried, turn, counters, ghosts>>

(* The leaf says the phase cannot be completed from its inputs.            *)
DeclaredFail ==
  /\ pc = "judge" /\ ~Died /\ lineage.doc = "declared"
  /\ lineage' = Ended(lineage, "declared_fail")
  /\ Leave("declared")
  /\ UNCHANGED <<fixed, session, prior, warm, carried, turn, counters, ghosts>>

Letting(o) ==
  /\ Leave(o)
  /\ UNCHANGED <<fixed, machine, warm, carried, turn, attempt, cutTurns, retries, waits, slept,
                 ghosts>>

(* Mutant: the tree of a reviewer that died is carried forward.            *)
AfterTransportCarries ==
  /\ lineage' = NoLineage /\ session' = FALSE
  /\ prior' = Ended(lineage, "superseded")

(* after_transport: the retry runs in a new lineage.  The tree of a dead    *)
(* producer seeds it, as the host gates it again; a reviewer's tree is its *)
(* answer and nothing gates it.                                            *)
AfterTransport ==
  /\ lineage' = NoLineage /\ session' = FALSE
  /\ prior' = IF Reads THEN NoLineage ELSE Ended(lineage, "superseded")

Again == pc' = "decide" /\ warm' = FALSE /\ turn' = NoTurn /\ UNCHANGED <<fixed, ghosts, outcome>>

(* The wait is told by the provider, or else taken from the schedule.      *)
Delays(n) ==
  {Schedule[n + 1]} \cup {r + Margin : r \in {x \in Resets : x > 0 /\ x + Margin <= MaxReset}}

MayWait == turn.tag = "usage" /\ waitReset /\ waits < Len(Schedule)

UsageWait ==
  /\ pc = "judge" /\ Died /\ MayWait
  /\ \E d \in Delays(waits) : slept' = slept + d
  /\ waits' = waits + 1
  /\ AfterTransport /\ Again
  /\ UNCHANGED <<carried, attempt, cutTurns, retries, spent>>

MayRetry ==
  /\ turn.tag = "transient" /\ retries < MaxRetries
  /\ spent + turn.elapsed <= RetryBudget

TransientRetry ==
  /\ pc = "judge" /\ Died /\ MayRetry
  /\ spent' = spent + turn.elapsed /\ retries' = retries + 1
  /\ AfterTransport /\ Again
  /\ UNCHANGED <<carried, attempt, cutTurns, waits, slept>>

DiesForGood ==
  /\ pc = "judge" /\ Died /\ ~MayWait /\ ~MayRetry
  /\ spent' = spent + turn.elapsed
  /\ Letting("transport")

MayRepair == attempt < MaxRepair

(* The review is run again from the seeds alone, as a first launch is.     *)
ReviewAgain ==
  /\ pc = "judge" /\ Unfinished /\ MayRepair
  /\ attempt' = attempt + 1 /\ carried' = "none"
  /\ AfterTransport /\ Again
  /\ UNCHANGED <<cutTurns, retries, waits, spent, slept>>

(* Mutant: a warm turn follows, whose session holds the cut texts.         *)
ReadAgainWarm ==
  /\ pc = "judge" /\ ReadCut /\ cutTurns < MaxRepair
  /\ cutTurns' = cutTurns + 1 /\ carried' = "reads"
  /\ session' = TRUE /\ UNCHANGED <<lineage, prior>>
  /\ Again
  /\ UNCHANGED <<attempt, retries, waits, spent, slept>>

(* after_cut_read: from the seeds alone, with the findings.                *)
ReadAgain ==
  /\ pc = "judge" /\ ReadCut /\ cutTurns < MaxRepair
  /\ cutTurns' = cutTurns + 1 /\ carried' = "reads"
  /\ lineage' = NoLineage /\ session' = FALSE /\ prior' = NoLineage
  /\ Again
  /\ UNCHANGED <<attempt, retries, waits, spent, slept>>

(* A document that is missing, or that fails the checks.                   *)
Defect ==
  /\ ~Died /\ lineage.doc \in {"none", "bad"}
  /\ ~Unfinished /\ ~ReadCut /\ ~Unreadable

(* after_repair: warm over this lineage while it is open, else a cold reuse *)
(* from its snapshot.                                                      *)
Reuse ==
  \/ /\ lineage.ended = "open"
     /\ lineage' = [lineage EXCEPT !.about = TRUE]
     /\ session' \in (IF transport = "codex" THEN BOOLEAN ELSE {TRUE})
     /\ UNCHANGED prior
  \/ /\ lineage.ended # "open"
     /\ lineage' = NoLineage /\ session' = FALSE
     /\ prior' = [lineage EXCEPT !.about = TRUE]

Repair ==
  /\ pc = "judge" /\ Defect /\ MayRepair
  /\ attempt' = attempt + 1 /\ carried' = "shape"
  /\ Reuse /\ Again
  /\ UNCHANGED <<cutTurns, retries, waits, spent, slept>>

(* Nothing is left to try: the category of the last attempt is the route.  *)
GiveUp ==
  /\ pc = "judge"
  /\ \/ (Unfinished \/ Defect) /\ ~MayRepair
     \/ ReadCut /\ cutTurns >= MaxRepair
     \/ Unreadable
  /\ IF Unfinished /\ turn.end = "cut" THEN AfterTransport ELSE UNCHANGED machine
  /\ Leave(IF Unreadable THEN "unreadable" ELSE "exhausted")
  /\ UNCHANGED <<fixed, warm, carried, turn, counters, ghosts>>

Over == pc = "out" /\ UNCHANGED vars

Judge ==
  \/ Accept \/ DeclaredFail \/ UsageWait \/ TransientRetry \/ DiesForGood
  \/ ReviewAgain \/ ReadAgain \/ Repair \/ GiveUp

Next ==
  \/ StartAfresh \/ ReopenWarm \/ ReopenCold
  \/ Warm \/ Cold \/ SetupFails \/ HomeGone \/ Launch \/ EndpointNotStopped \/ Judge \/ Over

Spec == Init /\ [][Next]_vars

(* One thread of the conductor runs the loop, and every launch has a bound. *)
FairSpec == Spec /\ WF_vars(Next)

-----------------------------------------------------------------------------
Outcomes == {"none", "pass", "fail", "host_write", "declared", "transport", "setup",
             "not_stopped", "exhausted", "unreadable"}

Lineages ==
  [ended : {"open", "leaf_exit", "leaf_timeout", "lineage_timeout", "max_wrapper_calls",
            "superseded", "declared_fail"},
   left : 0 .. LineageTime, calls : 0 .. CallCap, convo : BOOLEAN,
   doc : {"none", "bad", "pass", "fail", "declared"}, about : BOOLEAN, finished : BOOLEAN,
   whole : BOOLEAN]

Turns == [end : {"clean", "bound", "cancelled", "cut", "died"},
          tag : {"none", "usage", "transient", "other"}, reads : {"no", "some", "unreadable"},
          elapsed : Nat]

(* Every variable keeps its type, and the loop holds a lineage to launch.  *)
TypeOK ==
  /\ kind \in Kinds /\ transport \in Transports /\ waitReset \in BOOLEAN
  /\ pc \in {"start", "decide", "launch", "judge", "out"}
  /\ lineage \in Lineages \cup {NoLineage} /\ session \in BOOLEAN
  /\ prior \in Lineages \cup {NoLineage}
  /\ warm \in BOOLEAN /\ carried \in {"none", "shape", "reads"}
  /\ turn \in Turns \cup {NoTurn}
  /\ pc = "judge" => turn \in Turns
  /\ pc \in {"launch", "judge"} => lineage \in Lineages
  /\ attempt \in 0 .. MaxRepair /\ cutTurns \in 0 .. MaxRepair
  /\ retries \in 0 .. MaxRetries /\ waits \in 0 .. Len(Schedule)
  /\ spent \in Nat /\ slept \in Nat /\ launches \in Nat
  /\ lost \in BOOLEAN /\ outcome \in Outcomes

(* A review that passes stands on a document no launch wrote that died, was *)
(* stopped at its bound or had its last reply cut: "would certify a         *)
(* document no finished launch stood behind" (after_transport).            *)
PassStandsOnFinished ==
  Reads /\ outcome = "pass" => lineage.finished

(* ... nor on a tree any launch worked on that had a read cut short, though *)
(* a later turn of the same lineage read everything whole.                 *)
PassStandsOnWholeReads ==
  Reads /\ outcome = "pass" => lineage.whole

(* No launch runs in a lineage that has ended: the session of a leaf that  *)
(* died may hold a half-written turn.                                      *)
NoLaunchAfterTheEnd == pc = "launch" => lineage.ended = "open"

(* One substep launches no more leaves than its budgets add up to, however *)
(* repairs, waits and retries follow each other: none refills another.     *)
LaunchesBounded == launches <= 1 + attempt + cutTurns + retries + waits

(* A launch that may be retried has not crossed the budget together with   *)
(* all that died before it in this substep.                                *)
RetriesWithinBudget == pc # "out" => spent <= RetryBudget

(* The waits of one substep never add up to more than their number allows, *)
(* whatever reset a provider reports.                                      *)
SleepBounded == slept <= waits * MaxReset

(* A producer that is sent findings about the shape of a document finds    *)
(* that document in its tree, unless the home that held it is gone.        *)
ProducerSeesWhatItRepairs ==
  pc = "launch" /\ kind = "produces" /\ carried = "shape" /\ ~lost => lineage.about

(* The substep ends.                                                       *)
SubstepEnds == <>(pc = "out")
=============================================================================
