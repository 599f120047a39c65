------------------------------- MODULE SharedIr -------------------------------
(***************************************************************************)
(* The IR that runs of one node on several targets share                   *)
(* (src/tools/workflow_conductor.py: prepare_node, resume_node_refs,       *)
(* conduct, run_phase, _superseded_ir_detail;                              *)
(* src/tools/orchestration_runtime.py: DerivationResolver,                 *)
(* _stamp_certification, _revoke_stage_meta, the vouch of set-status).     *)
(*                                                                         *)
(* An IR belongs to no target; everything made from it belongs to one.  A  *)
(* run adopts the IR the store selects, or mints the directory of one of   *)
(* its own, and only then waits for the claim under which IRs are derived. *)
(* Past its Compile it holds nothing: while it works, a run on another     *)
(* target may condemn the IR both stand on, and certify a newer one.       *)
(*                                                                         *)
(* Conductor models how one run routes its failures.  Here a failure stops *)
(* the run or condemns its IR, Build goes with Generate (its key holds no  *)
(* IR), and what several runs may do to the shared store is kept whole.    *)
(* The validators an IR must pass to be selected do not change meanwhile.  *)
(***************************************************************************)
EXTENDS Naturals, Sequences, FiniteSets, FiniteSetsExt

CONSTANTS Runs,         \* orchestrations of the node
          Targets,      \* targets it is derived for
          TargetOf,     \* the target of each run
          Configs,      \* the configurations an operator may choose
          Bodies,       \* contents a derived IR may have
          None,         \* no run, no content
          MaxAttempts,  \* MAX_ATTEMPTS_PER_PHASE
          MaxActs       \* bound: what operators do: starts, resumes and edits

Pipeline == {"generate", "validate"}
Config == [mode : {"dev", "prod"}, until : Pipeline \cup {"compile"}, forced : BOOLEAN]

NoConfig == [mode |-> "dev", until |-> "compile", forced |-> FALSE]

ASSUME SharedIrAssumption ==
  /\ IsFiniteSet(Runs) /\ TargetOf \in [Runs -> Targets]
  /\ Configs \subseteq Config /\ None \notin Runs \cup Bodies
  /\ MaxAttempts \in Nat /\ MaxActs \in Nat

NoIr == 0

VARIABLES
  irs,      \* the IR directories, in the order of their ids
  made,     \* per target: <<phase, body of the IR it was made from>>
  spec,     \* the version of the spec, which is what the key of an IR hashes
  holder,   \* who holds the claim ("compile", node_key)
  pc, conf, status, acts,
  ref,      \* NodeRefs.ir_id, as reserved
  mem       \* what a run's process holds in memory

store == <<irs, made, spec>>
run == <<pc, conf, status, ref, mem>>
vars == <<store, holder, run, acts>>

(* minted: _minted_dirs, the directories the process made; key: the key    *)
(* taken at the start of its Compile; at: the pipeline phase in hand;      *)
(* attempts: decisions charged to Compile.                                 *)
NewMem == [minted |-> {}, key |-> 0, at |-> "generate", attempts |-> 0]

-----------------------------------------------------------------------------
(* Selection: among the passing outputs of the key, the newest one that no *)
(* newer revoked output of the key shadows.                                *)

Empty == [st |-> "empty", key |-> 0, body |-> None]
Failed == [st |-> "fail", key |-> 0, body |-> None]
Passing(k, b) == [st |-> "pass", key |-> k, body |-> b]

Of(s, k, st) == {i \in DOMAIN s : s[i].key = k /\ s[i].st = st}
Eligible(s, k) == {i \in Of(s, k, "pass") : \A j \in Of(s, k, "revoked") : j < i}
Selected(s, k) == IF Eligible(s, k) = {} THEN NoIr ELSE Max(Eligible(s, k))

Stands == Eligible(irs, spec) # {}
Standing == Selected(irs, spec)

(* A pipeline phase of a target is certified when the chain up to it was   *)
(* made from the body of the selected IR.                                  *)
Chain(p) == IF p = "validate" THEN Pipeline ELSE {"generate"}
Certified(t, p) ==
  /\ Stands
  /\ \A q \in Chain(p) : <<q, irs[Standing].body>> \in made[t]

-----------------------------------------------------------------------------
(* A driver and its claims on the orchestration and on spec and target.    *)

Live(r) == pc[r] # "off"

Goes(r, place) == pc' = [pc EXCEPT ![r] = place]
LetsGo(r) == holder' = IF holder = r THEN None ELSE holder
Keeps(r, m) == mem' = [mem EXCEPT ![r] = m]

(* The process is gone, by its own end or by a crash, which leaves the     *)
(* record `running`: what it held in memory and its claims go with it.     *)
(* "fail" stands for fail and fail_closed, whatever the reason recorded.   *)
Ends(r, how) ==
  /\ Goes(r, "off")
  /\ status' = [status EXCEPT ![r] = how]
  /\ Keeps(r, NewMem)
  /\ LetsGo(r)
  /\ UNCHANGED <<conf, ref, acts>>

Free(r) == \A q \in Runs : Live(q) => TargetOf[q] # TargetOf[r]

(* A cold run prepares its node; the resume of one that has reserved its   *)
(* roots goes by the reservations.                                         *)
Start(r) ==
  /\ ~Live(r) /\ Free(r) /\ acts < MaxActs
  /\ \/ status[r] = "new" /\ Goes(r, "prepare")
        /\ \E c \in Configs : conf' = [conf EXCEPT ![r] = c]
     \/ status[r] \notin {"new", "pass"} /\ ref[r] # NoIr /\ Goes(r, "claim")
        /\ UNCHANGED conf
  /\ status' = [status EXCEPT ![r] = "running"]
  /\ acts' = acts + 1
  /\ UNCHANGED <<store, holder, ref, mem>>

(* An edit of the spec, to what it never was before.                       *)
Edit ==
  /\ acts < MaxActs
  /\ spec' = spec + 1 /\ acts' = acts + 1
  /\ UNCHANGED <<irs, made, holder, run>>

Crash(r) == Live(r) /\ Ends(r, "running") /\ UNCHANGED store

-----------------------------------------------------------------------------
(* prepare_node: adopt the selected IR, or mint a directory for one.       *)

(* An exclusive mkdir, and the reservation.                                *)
Minted(r, m) ==
  /\ irs' = Append(irs, Empty)
  /\ ref' = [ref EXCEPT ![r] = Len(irs')]
  /\ Keeps(r, [m EXCEPT !.minted = @ \cup {Len(irs')}])

(* What another run certifies between the look and the mkdir is found, as  *)
(* after it, by the check under the claim.                                 *)
Prepare(r) ==
  /\ pc[r] = "prepare" /\ Goes(r, "claim")
  /\ \/ ~conf[r].forced /\ Stands
        /\ ref' = [ref EXCEPT ![r] = Standing] /\ UNCHANGED <<irs, mem>>
     \/ (conf[r].forced \/ ~Stands) /\ Minted(r, mem[r])
  /\ UNCHANGED <<made, spec, holder, conf, status, acts>>

-----------------------------------------------------------------------------
(* Compile, under the claim.                                               *)

(* Mutant: who finds the claim taken goes ahead.                           *)
TakeAnyClaim(r) ==
  /\ pc[r] = "claim"
  /\ holder' = r /\ Goes(r, "check")
  /\ UNCHANGED <<store, conf, status, ref, mem, acts>>

(* After a failure in Compile the claim is still held.                     *)
TakeClaim(r) ==
  /\ pc[r] = "claim" /\ holder \in {None, r}
  /\ holder' = r /\ Goes(r, "check")
  /\ UNCHANGED <<store, conf, status, ref, mem, acts>>

AfterCompile(r) == Goes(r, IF conf[r].until = "compile" THEN "ask" ELSE "phase")

(* Mutant: a Compile that is skipped keeps the claim.                      *)
AdoptAndHold(r) ==
  /\ pc[r] = "check" /\ Stands /\ ~conf[r].forced
  /\ ref' = [ref EXCEPT ![r] = Standing]
  /\ AfterCompile(r)
  /\ UNCHANGED <<store, holder, conf, status, mem, acts>>

(* Certified, and not to be derived anew: adopt what was selected.         *)
Adopt(r) ==
  /\ pc[r] = "check" /\ Stands /\ ~conf[r].forced
  /\ ref' = [ref EXCEPT ![r] = Standing]
  /\ AfterCompile(r) /\ LetsGo(r)
  /\ UNCHANGED <<store, conf, status, mem, acts>>

(* _ensure_fresh_producer_id, then the key: a directory this process made  *)
(* and has not written into is its own, any other is left alone.           *)
(* Nothing but a revocation or an edit comes between the check and this.   *)
Own(r) == ref[r] \in mem[r].minted /\ irs[ref[r]].st = "empty"

Begin(r) ==
  /\ pc[r] = "check" /\ (~Stands \/ conf[r].forced)
  /\ Goes(r, "derive")
  /\ LET m == [mem[r] EXCEPT !.key = spec] IN
     \/ Own(r) /\ Keeps(r, m) /\ UNCHANGED <<irs, ref>>
     \/ ~Own(r) /\ Minted(r, m)
  /\ UNCHANGED <<made, spec, holder, conf, status, acts>>

(* The phase loop enters Generate with the first pass of Compile.          *)
Derived(r) ==
  /\ pc[r] = "derive"
  /\ \E b \in Bodies : irs' = [irs EXCEPT ![ref[r]] = Passing(mem[r].key, b)]
  /\ AfterCompile(r) /\ LetsGo(r)
  /\ UNCHANGED <<made, spec, conf, status, ref, mem, acts>>

(* The decision is charged to Compile, and the chain starts anew.          *)
Reopened(m) ==
  [minted |-> m.minted, key |-> m.key, at |-> "generate", attempts |-> m.attempts + 1]

(* Mutant: a reopened Compile goes on without taking the claim again.      *)
RecompilesUnclaimed(r) ==
  /\ mem[r].attempts < MaxAttempts /\ Goes(r, "check")
  /\ Keeps(r, Reopened(mem[r]))
  /\ UNCHANGED <<holder, conf, status, ref, acts>>

(* Within the budget the run derives again, or else it ends.               *)
Recompiles(r) ==
  /\ mem[r].attempts < MaxAttempts /\ Goes(r, "claim")
  /\ Keeps(r, Reopened(mem[r]))
  /\ UNCHANGED <<holder, conf, status, ref, acts>>

(* The output that failed carries no key; the repair keeps the claim.      *)
NotDerived(r) ==
  /\ pc[r] = "derive"
  /\ irs' = [irs EXCEPT ![ref[r]] = Failed]
  /\ Recompiles(r) \/ Ends(r, "fail")
  /\ UNCHANGED <<made, spec>>

-----------------------------------------------------------------------------
(* Generate to Validate, under no claim.                                   *)

Advances(r) ==
  IF mem[r].at = conf[r].until THEN Goes(r, "ask") /\ UNCHANGED mem
  ELSE Goes(r, "phase") /\ Keeps(r, [mem[r] EXCEPT !.at = "validate"])

AdoptPhase(r) ==
  /\ pc[r] = "phase" /\ Certified(TargetOf[r], mem[r].at)
  /\ ref' = [ref EXCEPT ![r] = Standing]
  /\ Advances(r)
  /\ UNCHANGED <<store, holder, conf, status, acts>>

(* _phase_derivation: a phase is begun on the run's own IR, which must be  *)
(* certified; it need not be the selected one.                             *)
BeginPhase(r) ==
  /\ pc[r] = "phase" /\ ~Certified(TargetOf[r], mem[r].at)
  /\ irs[ref[r]].st = "pass" /\ Goes(r, "work")
  /\ UNCHANGED <<store, holder, conf, status, ref, mem, acts>>

Unresolvable(r) ==
  /\ pc[r] = "phase" /\ ~Certified(TargetOf[r], mem[r].at)
  /\ irs[ref[r]].st # "pass" /\ Ends(r, "fail")
  /\ UNCHANGED store

PhaseDone(r) ==
  /\ pc[r] = "work"
  /\ made' = [made EXCEPT ![TargetOf[r]] = @ \cup {<<mem[r].at, irs[ref[r]].body>>}]
  /\ Advances(r)
  /\ UNCHANGED <<irs, spec, holder, conf, status, ref, acts>>

PhaseFails(r) == pc[r] = "work" /\ Ends(r, "fail") /\ UNCHANGED store

(* The dev terminal and the exhausted budget: the run ends by policy, with *)
(* the decision on record.                                                 *)
EndsByPolicy(r) ==
  /\ conf[r].mode = "dev" \/ mem[r].attempts = MaxAttempts
  /\ Ends(r, "fail")

(* The failure condemns the IR: dev ends, prod derives it anew while the   *)
(* budget lasts.  The decision reaches the IR either way.                  *)
Condemn(r) ==
  /\ pc[r] = "work"
  /\ irs' = [irs EXCEPT ![ref[r]].st = "revoked"]
  /\ (conf[r].mode = "prod" /\ Recompiles(r)) \/ EndsByPolicy(r)
  /\ UNCHANGED <<made, spec>>

-----------------------------------------------------------------------------
(* _superseded_ir_detail: asked before the pass of a run that went past    *)
(* Compile.  Compile answers `revoked` when nothing is selected and an     *)
(* output of the key was revoked; Generate answers with the IR when the    *)
(* selected IR is not the one this target's chain was made from.           *)
Superseded(r) ==
  /\ conf[r].until # "compile"
  /\ \/ ~Stands /\ Of(irs, spec, "revoked") # {}
     \/ Stands /\ ~Certified(TargetOf[r], "generate")

(* _cross_target_stop, asked after it and again by the vouch: a certified   *)
(* Validate may disagree with another target's, or not be evaluable.  What *)
(* the captures say is left free.                                          *)
MayDisagree(r) == conf[r].until = "validate" /\ Certified(TargetOf[r], "validate")

AskedAndStops(r) ==
  /\ pc[r] = "ask" /\ (Superseded(r) \/ MayDisagree(r))
  /\ Ends(r, "fail")
  /\ UNCHANGED store

Ask(r) ==
  /\ pc[r] = "ask" /\ ~Superseded(r) /\ Goes(r, "vouch")
  /\ UNCHANGED <<store, holder, conf, status, ref, mem, acts>>

(* The vouch of set-status: every phase through `until` is certified.      *)
Vouched(r) ==
  IF conf[r].until = "compile" THEN Stands
  ELSE Certified(TargetOf[r], conf[r].until)

Vouch(r) ==
  /\ pc[r] = "vouch"
  /\ \/ Vouched(r) /\ Ends(r, "pass")
     \/ (~Vouched(r) \/ MayDisagree(r)) /\ Ends(r, "fail")
  /\ UNCHANGED store

-----------------------------------------------------------------------------
Init ==
  /\ irs = <<>> /\ made = [t \in Targets |-> {}] /\ spec = 0
  /\ holder = None
  /\ pc = [r \in Runs |-> "off"] /\ status = [r \in Runs |-> "new"]
  /\ conf = [r \in Runs |-> NoConfig]
  /\ ref = [r \in Runs |-> NoIr] /\ mem = [r \in Runs |-> NewMem]
  /\ acts = 0

(* What a live run does by itself.                                         *)
Step(r) ==
  \/ Prepare(r) \/ TakeClaim(r) \/ Adopt(r) \/ Begin(r) \/ Derived(r) \/ NotDerived(r)
  \/ AdoptPhase(r) \/ BeginPhase(r) \/ Unresolvable(r)
  \/ PhaseDone(r) \/ PhaseFails(r) \/ Condemn(r)
  \/ AskedAndStops(r) \/ Ask(r) \/ Vouch(r)

Next == Edit \/ \E r \in Runs : Start(r) \/ Crash(r) \/ Step(r)

Spec == Init /\ [][Next]_vars

-----------------------------------------------------------------------------
Places == {"off", "prepare", "claim", "check", "derive", "phase", "work", "ask", "vouch"}
Ir == [st : {"empty", "fail", "pass", "revoked"}, key : Nat, body : Bodies \cup {None}]
Memory == [minted : SUBSET (Nat \ {0}), key : Nat, at : Pipeline, attempts : Nat]

(* Type correctness.                                                       *)
TypeOK ==
  /\ irs \in Seq(Ir) /\ spec \in Nat /\ acts \in Nat
  /\ made \in [Targets -> SUBSET (Pipeline \X (Bodies \cup {None}))]
  /\ holder \in Runs \cup {None}
  /\ pc \in [Runs -> Places] /\ conf \in [Runs -> Config]
  /\ status \in [Runs -> {"new", "running", "pass", "fail"}]
  /\ ref \in [Runs -> Nat] /\ mem \in [Runs -> Memory]

(* An IR per key: while nobody forces one, no second IR of a key becomes   *)
(* eligible beside one that stands, whatever the runs look at, mint, wait  *)
(* for and revoke.  This is what the Compile claim is for.                 *)
Unforced == \A c \in Configs : ~c.forced

OneStandingIr ==
  Unforced => \A k \in 0 .. spec : \A i, j \in Eligible(irs, k) : i = j

(* A chain is overturned by a decision only: unless somebody forces a      *)
(* Compile, what one target has certified stays so until an IR is condemned *)
(* or the spec is edited, whichever IR another target's run derives.       *)
Decided ==
  spec' # spec \/ \E i \in DOMAIN irs : irs'[i].st = "revoked" /\ irs[i].st # "revoked"

NoChainIsOverturned ==
  [][irs' = irs \/ Decided \/ ~Unforced \/
        \A t \in Targets, p \in Pipeline : Certified(t, p) => Certified(t, p)']_<<irs, spec>>

(* The record: a directory an attempt has written into is written by no    *)
(* other, of this run, of its resume or of another run; it may only be     *)
(* condemned.                                                              *)
NothingIsOverwritten ==
  [][\A i \in DOMAIN irs : irs[i].st # "empty" =>
        irs'[i] \in {irs[i], [irs[i] EXCEPT !.st = "revoked"]}]_irs

(* Nobody waits for a claim that no live run will let go: it is free, or   *)
(* its holder lives and is not waiting.                                    *)
WaitIsForAWorker ==
  \A r \in Runs : pc[r] = "claim" =>
     \/ holder = None
     \/ pc[holder] \in {"claim", "check", "derive"}

=============================================================================
