--------------------------- MODULE SharedIr_proofs ---------------------------
(* Proofs about the shared IR, for any runs, targets, configurations and   *)
(* contents, and any number of attempts and acts.                          *)
EXTENDS SharedIr, WellFoundedInduction, TLAPS

-----------------------------------------------------------------------------
(* What the selection returns, and what a step does to it.                 *)

(* A set of ids that is not empty has a newest.                            *)
LEMMA Newest ==
  ASSUME NEW n \in Nat, NEW S \in SUBSET (1 .. n), S # {}
  PROVE  Max(S) \in S
<1> DEFINE T == {n - i : i \in S}
<1>1. T \in SUBSET Nat /\ T # {}
  <2>1. \A i \in S : i \in 1 .. n
    OBVIOUS
  <2>2. \A i \in S : n - i \in Nat
    BY <2>1
  <2> QED BY <2>2
<1>2. PICK m \in T : \A k \in T : ~(<<k, m>> \in OpToRel(<, Nat))
  <2> HIDE DEF T
  <2> QED BY <1>1, NatLessThanWellFounded, WFMin
<1>3. PICK i \in S : m = n - i
  OBVIOUS
<1>4. \A j \in S : i >= j
  <2> TAKE j \in S
  <2>1. n - j \in T /\ n - j \in Nat /\ n - i \in Nat
    BY <1>1
  <2>2. ~(n - j < n - i)
    BY <1>2, <1>3, <2>1 DEF OpToRel
  <2> QED BY <2>2
<1>5. \E x \in S : \A y \in S : x >= y
  BY <1>4
<1> QED BY <1>5 DEF Max

LEMMA StandingIsEligible ==
  ASSUME irs \in Seq(Ir), Stands
  PROVE  Standing \in Eligible(irs, spec) /\ Standing \in DOMAIN irs /\ Standing \in Nat
<1>1. Len(irs) \in Nat /\ DOMAIN irs = 1 .. Len(irs)
  OBVIOUS
<1>2. Eligible(irs, spec) \in SUBSET (1 .. Len(irs))
  BY <1>1 DEF Eligible, Of
<1>3. Standing = Max(Eligible(irs, spec))
  BY DEF Standing, Selected, Stands
<1>4. Standing \in Eligible(irs, spec)
  BY <1>1, <1>2, <1>3, Newest DEF Stands
<1> QED BY <1>1, <1>2, <1>4

LEMMA MintKeepsEligible ==
  ASSUME NEW s \in Seq(Ir), NEW k
  PROVE  /\ Eligible(Append(s, Empty), k) = Eligible(s, k)
         /\ \A i \in DOMAIN s : i \in DOMAIN Append(s, Empty) /\ Append(s, Empty)[i] = s[i]
         /\ DOMAIN Append(s, Empty) = 1 .. Len(s) + 1 /\ Len(Append(s, Empty)) = Len(s) + 1
         /\ Append(s, Empty)[Len(s) + 1] = Empty
<1> DEFINE a == Append(s, Empty)
<1>1. /\ DOMAIN s = 1 .. Len(s) /\ Len(s) \in Nat
      /\ DOMAIN a = 1 .. Len(s) + 1 /\ Len(a) = Len(s) + 1
      /\ \A i \in 1 .. Len(s) : a[i] = s[i]
      /\ a[Len(s) + 1] = Empty
  BY DEF Empty
<1>2. \A i \in DOMAIN a : i \in DOMAIN s \/ a[i].st = "empty"
  BY <1>1 DEF Empty
<1>3. \A i \in DOMAIN s : i \in DOMAIN a /\ a[i] = s[i]
  BY <1>1
<1>4. \A st \in {"pass", "revoked"} : Of(a, k, st) = Of(s, k, st)
  <2> HIDE DEF a
  <2> QED BY <1>2, <1>3 DEF Of
<1>5. Eligible(a, k) = Eligible(s, k)
  <2> HIDE DEF a
  <2> QED BY <1>4 DEF Eligible
<1> QED BY <1>1, <1>3, <1>5

(* A directory that was empty is written into.                             *)
Written(s, t, i) ==
  /\ i \in DOMAIN s /\ s[i].st = "empty" /\ t[i].st # "revoked"
  /\ DOMAIN t = DOMAIN s /\ \A j \in DOMAIN s : j # i => t[j] = s[j]

LEMMA WriteInto ==
  ASSUME NEW s, NEW t, NEW i, NEW k, Written(s, t, i)
  PROVE  /\ (t[i].st = "pass" /\ t[i].key = k) \/ Eligible(t, k) = Eligible(s, k)
         /\ Eligible(t, k) \subseteq Eligible(s, k) \cup {i}
<1>2. Of(t, k, "revoked") = Of(s, k, "revoked")
  BY DEF Of, Written
<1>3. (t[i].st = "pass" /\ t[i].key = k) \/ Of(t, k, "pass") = Of(s, k, "pass")
  BY DEF Of, Written
<1>4. Of(t, k, "pass") \subseteq Of(s, k, "pass") \cup {i}
  BY DEF Of, Written
<1>5. (t[i].st = "pass" /\ t[i].key = k) \/ Eligible(t, k) = Eligible(s, k)
  BY <1>2, <1>3 DEF Eligible
<1>6. Eligible(t, k) \subseteq Eligible(s, k) \cup {i}
  BY <1>2, <1>4 DEF Eligible
<1> QED BY <1>5, <1>6

LEMMA CondemnShrinks ==
  ASSUME NEW s \in Seq(Ir), NEW i \in DOMAIN s, NEW k
  PROVE  Eligible([s EXCEPT ![i].st = "revoked"], k) \subseteq Eligible(s, k)
<1> DEFINE t == [s EXCEPT ![i].st = "revoked"]
<1>1. s[i] \in Ir
  OBVIOUS
<1>2. /\ DOMAIN t = DOMAIN s /\ t[i].st = "revoked" /\ t[i].key = s[i].key
      /\ \A j \in DOMAIN s : j # i => t[j] = s[j]
  BY <1>1 DEF Ir
<1> HIDE DEF t
<1>3. Of(s, k, "revoked") \subseteq Of(t, k, "revoked") /\ Of(t, k, "pass") \subseteq Of(s, k, "pass")
  BY <1>2 DEF Of
<1>4. Eligible(t, k) \subseteq Eligible(s, k)
  BY <1>3 DEF Eligible
<1> QED BY <1>4 DEF t

-----------------------------------------------------------------------------
(* The inductive invariant.                                                *)

(* The claim: who derives holds it, who holds it has not left its Compile. *)
HolderInv ==
  /\ \A r \in Runs : pc[r] \in {"check", "derive"} => holder = r
  /\ holder # None => pc[holder] \in {"claim", "check", "derive"}

(* A run that derives does so into an empty directory; one that works      *)
(* stands on a directory that was written into.                            *)
DirInv ==
  \A r \in Runs :
    /\ mem[r].minted \subseteq DOMAIN irs
    /\ pc[r] \in {"derive", "phase", "work"} => ref[r] \in DOMAIN irs
    /\ pc[r] = "derive" => irs[ref[r]].st = "empty"
    /\ pc[r] = "work" => irs[ref[r]].st # "empty"

(* While nobody forces an IR, one is derived only where none stands.       *)
UniqueInv ==
  Unforced =>
    /\ \A r \in Runs : ~conf[r].forced
    /\ \A r \in Runs : pc[r] = "derive" => Eligible(irs, mem[r].key) = {}
    /\ \A k \in Nat : \A i, j \in Eligible(irs, k) : i = j

IInv == TypeOK /\ HolderInv /\ DirInv /\ UniqueInv

LEMMA InitInv == Init => IInv
<1> SUFFICES ASSUME Init PROVE IInv
  OBVIOUS
<1> USE SharedIrAssumption
<1>1. TypeOK
  BY DEF Init, TypeOK, Places, NoIr, NewMem, Memory, NoConfig, Config, Pipeline
<1>2. HolderInv /\ DirInv
  BY DEF Init, HolderInv, DirInv, NewMem
<1>3. \A k \in Nat : Eligible(irs, k) = {}
  BY DEF Init, Eligible, Of
<1>4. UniqueInv
  BY <1>3 DEF Init, UniqueInv, NoConfig
<1> QED BY <1>1, <1>2, <1>4 DEF IInv

-----------------------------------------------------------------------------
(* What a step may do.                                                     *)

Does(r) == Start(r) \/ Crash(r) \/ Step(r)

LEMMA NextCases == [Next]_vars <=> (UNCHANGED vars \/ Edit \/ \E r \in Runs : Does(r))
BY DEF Next, Does

(* Types.                                                                  *)
LEMMA MintType ==
  ASSUME TypeOK, NEW r \in Runs, NEW m \in Memory, Minted(r, m)
  PROVE  /\ irs' = Append(irs, Empty) /\ irs' \in Seq(Ir)
         /\ ref' \in [Runs -> Nat] /\ mem' \in [Runs -> Memory]
<1>1. Empty \in Ir
  BY DEF Empty, Ir
<1>2. irs \in Seq(Ir) /\ ref \in [Runs -> Nat] /\ mem \in [Runs -> Memory]
  BY DEF TypeOK
<1>3. irs' = Append(irs, Empty) /\ irs' \in Seq(Ir) /\ Len(irs') = Len(irs) + 1 /\ Len(irs) \in Nat
  BY <1>1, <1>2 DEF Minted
<1>4. Len(irs') \in Nat \ {0}
  BY <1>3
<1>5. ref' \in [Runs -> Nat]
  BY <1>2, <1>4 DEF Minted
<1>6. [m EXCEPT !.minted = @ \cup {Len(irs')}] \in Memory
  BY <1>4 DEF Memory
<1>7. mem' \in [Runs -> Memory]
  BY <1>2, <1>6 DEF Minted, Keeps
<1> QED BY <1>3, <1>5, <1>7

LEMMA EndsType ==
  ASSUME TypeOK, NEW r \in Runs, NEW how \in {"running", "pass", "fail"}, Ends(r, how)
  PROVE  /\ pc' \in [Runs -> Places] /\ status' \in [Runs -> {"new", "running", "pass", "fail"}]
         /\ mem' \in [Runs -> Memory] /\ holder' \in Runs \cup {None}
         /\ conf' = conf /\ ref' = ref /\ acts' = acts
<1>1. NewMem \in Memory
  BY DEF NewMem, Memory, Pipeline
<1> QED BY <1>1 DEF Ends, TypeOK, Goes, Keeps, LetsGo, Places

LEMMA RecompilesType ==
  ASSUME TypeOK, NEW r \in Runs, Recompiles(r)
  PROVE  /\ pc' \in [Runs -> Places] /\ mem' \in [Runs -> Memory]
         /\ UNCHANGED <<holder, conf, status, ref, acts>>
<1>1. mem[r] \in Memory
  BY DEF TypeOK
<1>2. Reopened(mem[r]) \in Memory
  BY <1>1 DEF Reopened, Memory, Pipeline
<1> QED BY <1>2 DEF Recompiles, TypeOK, Goes, Keeps, Places

LEMMA AdvancesType ==
  ASSUME TypeOK, NEW r \in Runs, Advances(r)
  PROVE  pc' \in [Runs -> Places] /\ mem' \in [Runs -> Memory]
<1>1. mem[r] \in Memory
  BY DEF TypeOK
<1>2. [mem[r] EXCEPT !.at = "validate"] \in Memory
  BY <1>1 DEF Memory, Pipeline
<1> QED BY <1>2 DEF Advances, TypeOK, Goes, Keeps, Places

LEMMA TypeStep == IInv /\ [Next]_vars => TypeOK'
<1> SUFFICES ASSUME IInv, [Next]_vars PROVE TypeOK'
  OBVIOUS
<1> USE SharedIrAssumption
<1>0. TypeOK /\ DirInv
  BY DEF IInv
<1>1. CASE UNCHANGED vars
  BY <1>0, <1>1 DEF TypeOK, vars, store, run
<1>2. CASE Edit
  BY <1>0, <1>2 DEF Edit, TypeOK, run
<1>3. ASSUME NEW r \in Runs, Does(r) PROVE TypeOK'
  <2>0. mem[r] \in Memory
    BY <1>0 DEF TypeOK
  <2>1. CASE Start(r)
    <3>1. conf' \in [Runs -> Config]
      BY <1>0, <2>1 DEF Start, TypeOK
    <3>2. pc' \in [Runs -> Places]
      BY <1>0, <2>1 DEF Start, TypeOK, Goes, Places
    <3>3. acts' \in Nat /\ status' \in [Runs -> {"new", "running", "pass", "fail"}]
      BY <1>0, <2>1 DEF Start, TypeOK
    <3>4. UNCHANGED <<store, holder, ref, mem>>
      BY <2>1 DEF Start
    <3> QED BY <1>0, <3>1, <3>2, <3>3, <3>4 DEF TypeOK, store
  <2>2. CASE Crash(r)
    <3>1. Ends(r, "running") /\ UNCHANGED store
      BY <2>2 DEF Crash
    <3> QED BY <1>0, <3>1, EndsType DEF TypeOK, store
  <2>3. CASE Prepare(r)
    <3>1. CASE ~conf[r].forced /\ Stands /\ ref' = [ref EXCEPT ![r] = Standing] /\ UNCHANGED <<irs, mem>>
      <4>1. Standing \in Nat
        BY <1>0, <3>1, StandingIsEligible DEF TypeOK
      <4> QED BY <1>0, <2>3, <3>1, <4>1 DEF Prepare, TypeOK, Goes, Places
    <3>2. CASE Minted(r, mem[r])
      BY <1>0, <2>0, <2>3, <3>2, MintType DEF Prepare, TypeOK, Goes, Places
    <3> QED BY <2>3, <3>1, <3>2 DEF Prepare
  <2>4. CASE TakeClaim(r)
    BY <1>0, <2>4 DEF TakeClaim, TypeOK, Goes, Places, store
  <2>5. CASE Adopt(r)
    <3>1. Standing \in Nat
      BY <1>0, <2>5, StandingIsEligible DEF Adopt, TypeOK
    <3> QED BY <1>0, <2>5, <3>1 DEF Adopt, AfterCompile, LetsGo, TypeOK, Goes, Places, store
  <2>6. CASE Begin(r)
    <3> DEFINE m == [mem[r] EXCEPT !.key = spec]
    <3>1. m \in Memory
      BY <1>0, <2>0 DEF Memory, TypeOK
    <3>2. CASE Keeps(r, m) /\ UNCHANGED <<irs, ref>>
      <4> HIDE DEF m
      <4> QED BY <1>0, <2>6, <3>1, <3>2 DEF Begin, Keeps, TypeOK, Goes, Places
    <3>3. CASE Minted(r, m)
      <4> HIDE DEF m
      <4> QED BY <1>0, <2>6, <3>1, <3>3, MintType DEF Begin, TypeOK, Goes, Places
    <3> QED BY <2>6, <3>2, <3>3 DEF Begin
  <2>7. CASE Derived(r)
    <3>1. \A b \in Bodies : Passing(mem[r].key, b) \in Ir
      BY <2>0 DEF Passing, Ir, Memory
    <3>2. ref[r] \in DOMAIN irs
      BY <1>0, <2>7 DEF Derived, DirInv
    <3>3. PICK b \in Bodies : irs' = [irs EXCEPT ![ref[r]] = Passing(mem[r].key, b)]
      BY <2>7 DEF Derived
    <3>4. irs' \in Seq(Ir)
      BY <1>0, <3>1, <3>2, <3>3 DEF TypeOK
    <3> QED BY <1>0, <2>7, <3>4 DEF Derived, AfterCompile, LetsGo, TypeOK, Goes, Places
  <2>8. CASE NotDerived(r)
    <3>0. ref[r] \in DOMAIN irs /\ Failed \in Ir
      BY <1>0, <2>8 DEF NotDerived, DirInv, Failed, Ir
    <3>1. irs' \in Seq(Ir)
      BY <1>0, <2>8, <3>0 DEF NotDerived, TypeOK
    <3>2. CASE Recompiles(r)
      BY <1>0, <2>8, <3>1, <3>2, RecompilesType DEF NotDerived, TypeOK
    <3>3. CASE Ends(r, "fail")
      BY <1>0, <2>8, <3>1, <3>3, EndsType DEF NotDerived, TypeOK
    <3> QED BY <2>8, <3>2, <3>3 DEF NotDerived
  <2>9. CASE AdoptPhase(r)
    <3>1. Standing \in Nat
      BY <1>0, <2>9, StandingIsEligible DEF AdoptPhase, Certified, TypeOK
    <3>2. pc' \in [Runs -> Places] /\ mem' \in [Runs -> Memory]
      BY <1>0, <2>9, AdvancesType DEF AdoptPhase
    <3> QED BY <1>0, <2>9, <3>1, <3>2 DEF AdoptPhase, TypeOK, store
  <2>10. CASE BeginPhase(r) \/ Ask(r)
    BY <1>0, <2>10 DEF BeginPhase, Ask, TypeOK, Goes, Places, store
  <2>11. CASE Unresolvable(r) \/ PhaseFails(r) \/ AskedAndStops(r) \/ Vouch(r)
    <3>1. UNCHANGED store /\ \E how \in {"pass", "fail"} : Ends(r, how)
      BY <2>11 DEF Unresolvable, PhaseFails, AskedAndStops, Vouch
    <3>2. PICK how \in {"pass", "fail"} : Ends(r, how)
      BY <3>1
    <3>3. how \in {"running", "pass", "fail"}
      OBVIOUS
    <3> QED BY <1>0, <3>1, <3>2, <3>3, EndsType DEF TypeOK, store
  <2>12. CASE PhaseDone(r)
    <3>1. irs[ref[r]] \in Ir
      BY <1>0, <2>12 DEF PhaseDone, DirInv, TypeOK
    <3>2. pc' \in [Runs -> Places] /\ mem' \in [Runs -> Memory]
      BY <1>0, <2>12, AdvancesType DEF PhaseDone
    <3>3. mem[r].at \in Pipeline /\ irs[ref[r]].body \in Bodies \cup {None}
      BY <2>0, <3>1 DEF Memory, Ir
    <3>4. TargetOf[r] \in Targets
      OBVIOUS
    <3>5. made' \in [Targets -> SUBSET (Pipeline \X (Bodies \cup {None}))]
      BY <1>0, <2>12, <3>3, <3>4 DEF PhaseDone, TypeOK
    <3> QED BY <1>0, <2>12, <3>2, <3>5 DEF PhaseDone, TypeOK
  <2>13. CASE Condemn(r)
    <3>1. irs[ref[r]] \in Ir /\ ref[r] \in DOMAIN irs
      BY <1>0, <2>13 DEF Condemn, DirInv, TypeOK
    <3>2. [irs[ref[r]] EXCEPT !.st = "revoked"] \in Ir
      BY <3>1 DEF Ir
    <3>3. irs' = [irs EXCEPT ![ref[r]] = [irs[ref[r]] EXCEPT !.st = "revoked"]]
      BY <2>13 DEF Condemn, EndsByPolicy
    <3>4. irs' \in Seq(Ir)
      BY <1>0, <3>1, <3>2, <3>3 DEF TypeOK
    <3>5. CASE Recompiles(r)
      BY <1>0, <2>13, <3>4, <3>5, RecompilesType DEF Condemn, TypeOK
    <3>6. CASE Ends(r, "fail")
      BY <1>0, <2>13, <3>4, <3>6, EndsType DEF Condemn, TypeOK
    <3> QED BY <2>13, <3>5, <3>6 DEF Condemn, EndsByPolicy
  <2> QED
    BY <1>3, <2>1, <2>2, <2>3, <2>4, <2>5, <2>6, <2>7, <2>8, <2>9, <2>10, <2>11, <2>12, <2>13
       DEF Does, Step
<1> QED BY <1>1, <1>2, <1>3, NextCases

(* A step is one run's.                                                    *)
LEMMA OneRun ==
  ASSUME TypeOK, NEW r \in Runs, Does(r), NEW q \in Runs, q # r
  PROVE  /\ pc'[q] = pc[q] /\ conf'[q] = conf[q]
         /\ ref'[q] = ref[q] /\ mem'[q] = mem[q]
BY DEF TypeOK, Does, Start, Crash, Step, Prepare, TakeClaim, Adopt, Begin, Derived, NotDerived,
       AdoptPhase, BeginPhase, Unresolvable, PhaseDone, PhaseFails, Condemn, EndsByPolicy, AskedAndStops, Ask,
       Vouch, Ends, Minted, Recompiles, Advances, AfterCompile, Goes, Keeps

(* The claim is taken when it is free, and let go when its holder leaves   *)
(* Compile.                                                                *)
LEMMA ClaimMoves ==
  ASSUME TypeOK, HolderInv, NEW r \in Runs, Does(r)
  PROVE  /\ pc'[r] \in {"check", "derive"} => holder' = r
         /\ \/ holder' = None
            \/ holder' = r /\ pc'[r] \in {"claim", "check", "derive"}
            \/ holder' = holder /\ holder # r
         /\ holder' # holder => holder \in {None, r}
<1> USE SharedIrAssumption DEF TypeOK, HolderInv, Goes
<1>1. CASE Start(r)
  BY <1>1 DEF Start, Live
<1>2. CASE \E how \in {"running", "pass", "fail"} : Ends(r, how)
  BY <1>2 DEF Ends, LetsGo
<1>3. CASE Prepare(r) \/ TakeClaim(r) \/ Begin(r)
  BY <1>3 DEF Prepare, TakeClaim, Begin, Live
<1>4. CASE Adopt(r) \/ Derived(r)
  BY <1>4 DEF Adopt, Derived, AfterCompile, LetsGo
<1>5. CASE (NotDerived(r) \/ Condemn(r)) /\ Recompiles(r)
  BY <1>5 DEF NotDerived, Condemn, Recompiles
<1>6. CASE AdoptPhase(r) \/ PhaseDone(r)
  BY <1>6 DEF AdoptPhase, PhaseDone, Advances
<1>7. CASE BeginPhase(r) \/ Ask(r)
  BY <1>7 DEF BeginPhase, Ask
<1> QED
  BY <1>1, <1>2, <1>3, <1>4, <1>5, <1>6, <1>7
     DEF Does, Step, Crash, NotDerived, Condemn, EndsByPolicy, Unresolvable, PhaseFails, AskedAndStops, Vouch

LEMMA HolderStep == IInv /\ [Next]_vars => HolderInv'
<1> SUFFICES ASSUME IInv, [Next]_vars PROVE HolderInv'
  OBVIOUS
<1>0. TypeOK /\ HolderInv
  BY DEF IInv
<1>1. CASE UNCHANGED vars \/ Edit
  BY <1>0, <1>1 DEF HolderInv, vars, Edit, run
<1>2. ASSUME NEW r \in Runs, Does(r) PROVE HolderInv'
  <2>1. \A q \in Runs : q # r => pc'[q] = pc[q]
    BY <1>0, <1>2, OneRun
  <2>2. \A q \in Runs : pc'[q] \in {"check", "derive"} => holder' = q
    <3>1. ASSUME NEW q \in Runs, q # r, pc'[q] \in {"check", "derive"} PROVE holder' = q
      <4>1. holder = q
        BY <1>0, <2>1, <3>1 DEF HolderInv
      <4>2. q # None
        BY SharedIrAssumption
      <4> QED BY <1>0, <1>2, <3>1, <4>1, <4>2, ClaimMoves
    <3> QED BY <1>0, <1>2, <3>1, ClaimMoves
  <2>3. holder' # None => pc'[holder'] \in {"claim", "check", "derive"}
    <3>1. CASE holder' = holder /\ holder # r
      BY <1>0, <2>1, <3>1 DEF HolderInv, TypeOK
    <3> QED BY <1>0, <1>2, <3>1, ClaimMoves
  <2> QED BY <2>2, <2>3 DEF HolderInv
<1> QED BY <1>1, <1>2, NextCases

(* What a step may do to the store of IRs.                                 *)
Writes(r, v) ==
  /\ pc[r] = "derive" /\ pc'[r] # "derive"
  /\ \/ v = Failed
     \/ \E b \in Bodies : v = Passing(mem[r].key, b)
  /\ irs' = [irs EXCEPT ![ref[r]] = v]

Condemns(r) == pc[r] = "work" /\ irs' = [irs EXCEPT ![ref[r]].st = "revoked"]

LEMMA StoreMoves ==
  ASSUME TypeOK, NEW r \in Runs, Does(r)
  PROVE  \/ irs' = irs
         \/ \E m \in Memory : Minted(r, m)
         \/ \E v \in Ir : Writes(r, v)
         \/ Condemns(r)
<1>0. mem[r] \in Memory /\ [mem[r] EXCEPT !.key = spec] \in Memory
  BY DEF TypeOK, Memory
<1>1. CASE Prepare(r) \/ Begin(r)
  BY <1>0, <1>1 DEF Prepare, Begin
<1>2. CASE Derived(r)
  <2>1. PICK b \in Bodies : irs' = [irs EXCEPT ![ref[r]] = Passing(mem[r].key, b)]
    BY <1>2 DEF Derived
  <2>2. Passing(mem[r].key, b) \in Ir
    BY <1>0 DEF Passing, Ir, Memory
  <2>3. pc[r] = "derive" /\ pc'[r] # "derive"
    BY <1>2 DEF Derived, AfterCompile, Goes, TypeOK
  <2> QED BY <2>1, <2>2, <2>3 DEF Writes
<1>3. CASE NotDerived(r)
  <2>1. Failed \in Ir
    BY DEF Failed, Ir
  <2>2. pc[r] = "derive" /\ pc'[r] # "derive"
    BY <1>3 DEF NotDerived, Recompiles, Ends, Goes, TypeOK
  <2> QED BY <1>3, <2>1, <2>2 DEF NotDerived, Writes
<1>4. CASE Condemn(r)
  BY <1>4 DEF Condemn, Condemns
<1> QED
  BY <1>1, <1>2, <1>3, <1>4
     DEF Does, Start, Crash, Step, TakeClaim, Adopt, AdoptPhase, BeginPhase, Unresolvable,
         PhaseDone, PhaseFails, AskedAndStops, Ask, Vouch, store

(* A directory keeps its place, and what was written into one stays.       *)
LEMMA Kept ==
  ASSUME TypeOK, DirInv, NEW r \in Runs, Does(r)
  PROVE  \A i \in DOMAIN irs :
            /\ i \in DOMAIN irs'
            /\ irs[i].st # "empty" => irs'[i] \in {irs[i], [irs[i] EXCEPT !.st = "revoked"]}
<1>0. irs \in Seq(Ir)
  BY DEF TypeOK
<1>1. CASE irs' = irs
  BY <1>1
<1>2. ASSUME NEW m \in Memory, Minted(r, m)
      PROVE  \A i \in DOMAIN irs : i \in DOMAIN irs' /\ irs'[i] = irs[i]
  BY <1>0, <1>2, MintKeepsEligible DEF Minted
<1>3. ASSUME NEW v \in Ir, Writes(r, v)
      PROVE  \A i \in DOMAIN irs :
                i \in DOMAIN irs' /\ (irs[i].st # "empty" => irs'[i] = irs[i])
  <2>1. ref[r] \in DOMAIN irs /\ irs[ref[r]].st = "empty"
    BY <1>3 DEF Writes, DirInv
  <2> QED BY <1>0, <1>3, <2>1 DEF Writes
<1>4. CASE Condemns(r)
  BY <1>0, <1>4 DEF Condemns
<1> QED BY <1>1, <1>2, <1>3, <1>4, StoreMoves

(* ... and an empty one is written into by the run that derives.           *)
LEMMA EmptyKept ==
  ASSUME TypeOK, DirInv, NEW r \in Runs, Does(r),
         NEW i \in DOMAIN irs, irs[i].st = "empty", pc[r] = "derive" => ref[r] # i
  PROVE  irs'[i] = irs[i]
<1>0. irs \in Seq(Ir)
  BY DEF TypeOK
<1>1. ASSUME NEW m \in Memory, Minted(r, m) PROVE irs'[i] = irs[i]
  BY <1>0, <1>1, MintKeepsEligible DEF Minted
<1>2. ASSUME NEW v \in Ir, Writes(r, v) PROVE irs'[i] = irs[i]
  BY <1>0, <1>2 DEF Writes
<1>3. CASE Condemns(r)
  BY <1>0, <1>3 DEF Condemns, DirInv
<1> QED BY <1>1, <1>2, <1>3, StoreMoves

(* The directories of the run that takes the step.                         *)
OwnDirs(r) ==
  /\ mem[r].minted \subseteq DOMAIN irs
  /\ pc[r] \in {"derive", "phase", "work"} => ref[r] \in DOMAIN irs
  /\ pc[r] = "derive" => irs[ref[r]].st = "empty"
  /\ pc[r] = "work" => irs[ref[r]].st # "empty"

LEMMA OwnMint ==
  ASSUME TypeOK, NEW r \in Runs, NEW m \in Memory, m.minted \subseteq DOMAIN irs, Minted(r, m)
  PROVE  /\ mem'[r].minted \subseteq DOMAIN irs'
         /\ ref'[r] \in DOMAIN irs' /\ irs'[ref'[r]].st = "empty"
<1>1. irs \in Seq(Ir) /\ irs' = Append(irs, Empty) /\ Len(irs) \in Nat
  BY DEF TypeOK, Minted
<1>2. /\ DOMAIN irs' = 1 .. Len(irs) + 1 /\ Len(irs') = Len(irs) + 1
      /\ irs'[Len(irs) + 1] = Empty /\ DOMAIN irs \subseteq DOMAIN irs'
  BY <1>1, MintKeepsEligible
<1>3. Len(irs') \in DOMAIN irs'
  BY <1>1, <1>2
<1>4. ref'[r] = Len(irs')
  BY DEF Minted, TypeOK
<1>5. mem'[r].minted = m.minted \cup {Len(irs')}
  BY DEF Minted, Keeps, TypeOK, Memory
<1> QED BY <1>2, <1>3, <1>4, <1>5 DEF Empty

LEMMA OwnStep ==
  ASSUME IInv, NEW r \in Runs, Does(r)
  PROVE  OwnDirs(r)'
<1>0. TypeOK /\ DirInv /\ OwnDirs(r)
  BY DEF IInv, DirInv, OwnDirs
<1>a. irs \in Seq(Ir) /\ mem[r] \in Memory /\ DOMAIN irs \subseteq DOMAIN irs'
  BY <1>0, Kept DEF TypeOK
<1> USE DEF OwnDirs, Goes, Keeps
<1>1. CASE Start(r) \/ TakeClaim(r) \/ Ask(r)
  BY <1>0, <1>a, <1>1 DEF Start, TakeClaim, Ask, TypeOK, store
<1>2. CASE \E how \in {"running", "pass", "fail"} : Ends(r, how)
  BY <1>0, <1>2 DEF Ends, NewMem, TypeOK
<1>3. CASE Prepare(r)
  <2>1. CASE UNCHANGED <<irs, mem>>
    BY <1>0, <1>3, <2>1 DEF Prepare, TypeOK
  <2>2. CASE Minted(r, mem[r])
    BY <1>0, <1>a, <1>3, <2>2, OwnMint DEF Prepare, TypeOK
  <2> QED BY <1>3, <2>1, <2>2 DEF Prepare
<1>4. CASE Adopt(r) \/ AdoptPhase(r)
  <2>1. Standing \in DOMAIN irs
    BY <1>a, <1>4, StandingIsEligible DEF Adopt, AdoptPhase, Certified
  <2>2. ref'[r] \in DOMAIN irs' /\ irs' = irs
    BY <1>0, <1>4, <2>1 DEF Adopt, AdoptPhase, TypeOK, store
  <2>3. pc'[r] \notin {"derive", "work"} /\ mem'[r].minted = mem[r].minted
    BY <1>0, <1>a, <1>4 DEF Adopt, AdoptPhase, AfterCompile, Advances, TypeOK, Memory
  <2> QED BY <1>0, <2>2, <2>3
<1>5. CASE Begin(r)
  <2> DEFINE m == [mem[r] EXCEPT !.key = spec]
  <2>1. m \in Memory /\ m.minted = mem[r].minted
    BY <1>0, <1>a DEF Memory, TypeOK
  <2>2. pc'[r] = "derive"
    BY <1>0, <1>5 DEF Begin, TypeOK
  <2> HIDE DEF m
  <2>3. CASE Own(r) /\ Keeps(r, m) /\ UNCHANGED <<irs, ref>>
    BY <1>0, <2>1, <2>2, <2>3 DEF Own, TypeOK
  <2>4. CASE Minted(r, m)
    BY <1>0, <2>1, <2>2, <2>4, OwnMint
  <2> QED BY <1>5, <2>3, <2>4 DEF Begin, m
<1>6. CASE Derived(r) \/ PhaseDone(r)
  <2>1. ref'[r] \in DOMAIN irs'
    BY <1>0, <1>a, <1>6 DEF Derived, PhaseDone
  <2>2. pc'[r] \notin {"derive", "work"} /\ mem'[r].minted = mem[r].minted
    BY <1>0, <1>a, <1>6 DEF Derived, PhaseDone, AfterCompile, Advances, TypeOK, Memory
  <2> QED BY <1>0, <1>a, <2>1, <2>2
<1>7. CASE Recompiles(r)
  <2>1. pc'[r] = "claim" /\ mem'[r].minted = mem[r].minted
    BY <1>0, <1>7 DEF Recompiles, Reopened, TypeOK
  <2> QED BY <1>0, <1>a, <2>1
<1>8. CASE BeginPhase(r)
  BY <1>0, <1>8 DEF BeginPhase, TypeOK, store
<1> QED
  BY <1>1, <1>2, <1>3, <1>4, <1>5, <1>6, <1>7, <1>8
     DEF Does, Step, Crash, NotDerived, Condemn, EndsByPolicy, Unresolvable, PhaseFails, AskedAndStops, Vouch

LEMMA DirStep == IInv /\ [Next]_vars => DirInv'
<1> SUFFICES ASSUME IInv, [Next]_vars PROVE DirInv'
  OBVIOUS
<1>0. TypeOK /\ DirInv /\ HolderInv
  BY DEF IInv
<1>1. CASE UNCHANGED vars \/ Edit
  BY <1>0, <1>1 DEF DirInv, vars, Edit, run, store
<1>2. ASSUME NEW r \in Runs, Does(r), NEW q \in Runs PROVE OwnDirs(q)'
  <2>1. CASE q = r
    BY <1>2, <2>1, OwnStep
  <2>2. CASE q # r
    <3>1. pc'[q] = pc[q] /\ ref'[q] = ref[q] /\ mem'[q] = mem[q]
      BY <1>0, <1>2, <2>2, OneRun
    <3>2. \A i \in DOMAIN irs :
            /\ i \in DOMAIN irs'
            /\ irs[i].st # "empty" => irs'[i] \in {irs[i], [irs[i] EXCEPT !.st = "revoked"]}
      BY <1>0, <1>2, Kept
    <3>3. \A i \in DOMAIN irs : irs[i].st # "empty" => irs'[i].st # "empty"
      <4> TAKE i \in DOMAIN irs
      <4>1. irs[i] \in Ir
        BY <1>0 DEF TypeOK
      <4> QED BY <3>2, <4>1 DEF Ir
    <3>4. pc[q] = "derive" => irs'[ref[q]] = irs[ref[q]]
      <4>1. pc[q] = "derive" => pc[r] # "derive"
        BY <1>0, <2>2 DEF HolderInv
      <4> QED BY <1>0, <1>2, <4>1, EmptyKept DEF DirInv
    <3> QED BY <1>0, <3>1, <3>2, <3>3, <3>4 DEF DirInv, OwnDirs
  <2> QED BY <2>1, <2>2
<1> QED BY <1>1, <1>2, NextCases DEF DirInv, OwnDirs

(* What a step may make eligible.                                          *)
LEMMA EligibleMoves ==
  ASSUME IInv, NEW r \in Runs, Does(r), NEW k
  PROVE  \/ Eligible(irs', k) \subseteq Eligible(irs, k)
         \/ /\ pc[r] = "derive" /\ pc'[r] # "derive" /\ mem[r].key = k
            /\ Eligible(irs', k) \subseteq Eligible(irs, k) \cup {ref[r]}
<1>0. TypeOK /\ DirInv /\ irs \in Seq(Ir)
  BY DEF IInv, TypeOK
<1>1. ASSUME NEW m \in Memory, Minted(r, m) PROVE Eligible(irs', k) \subseteq Eligible(irs, k)
  BY <1>0, <1>1, MintKeepsEligible DEF Minted
<1>2. ASSUME NEW v \in Ir, Writes(r, v)
      PROVE  \/ Eligible(irs', k) \subseteq Eligible(irs, k)
             \/ /\ pc[r] = "derive" /\ pc'[r] # "derive" /\ mem[r].key = k
                /\ Eligible(irs', k) \subseteq Eligible(irs, k) \cup {ref[r]}
  <2>1. ref[r] \in DOMAIN irs /\ irs[ref[r]].st = "empty"
    BY <1>0, <1>2 DEF Writes, DirInv
  <2>2. v.st # "revoked" /\ (v.st = "pass" => v.key = mem[r].key)
    BY <1>2 DEF Writes, Failed, Passing
  <2>3. pc[r] = "derive" /\ pc'[r] # "derive"
    BY <1>2 DEF Writes
  <2>4. irs'[ref[r]] = v /\ Written(irs, irs', ref[r])
    BY <1>0, <1>2, <2>1, <2>2 DEF Writes, Written
  <2>5. /\ (v.st = "pass" /\ v.key = k) \/ Eligible(irs', k) = Eligible(irs, k)
        /\ Eligible(irs', k) \subseteq Eligible(irs, k) \cup {ref[r]}
    BY <2>4, WriteInto
  <2> QED BY <2>2, <2>3, <2>5
<1>3. CASE Condemns(r)
  BY <1>0, <1>3, CondemnShrinks DEF Condemns, DirInv
<1> QED BY <1>0, <1>1, <1>2, <1>3, StoreMoves

LEMMA UniqueStep == IInv /\ [Next]_vars => UniqueInv'
<1> SUFFICES ASSUME IInv, [Next]_vars, Unforced PROVE UniqueInv'
  BY DEF UniqueInv, Unforced
<1>0. TypeOK /\ HolderInv /\ UniqueInv
  BY DEF IInv
<1>1. CASE UNCHANGED vars \/ Edit
  BY <1>0, <1>1 DEF UniqueInv, vars, Edit, run, store
<1>2. ASSUME NEW r \in Runs, Does(r) PROVE UniqueInv'
  <2>1. ~conf'[r].forced
    <3>1. CASE conf' = conf
      BY <1>0, <3>1 DEF UniqueInv
    <3>2. CASE \E c \in Configs : conf' = [conf EXCEPT ![r] = c]
      BY <1>0, <3>2 DEF Unforced, TypeOK
    <3> QED
      BY <1>2, <3>1, <3>2
         DEF Does, Start, Crash, Step, Prepare, TakeClaim, Adopt, Begin, Derived, NotDerived,
             AdoptPhase, BeginPhase, Unresolvable, PhaseDone, PhaseFails, Condemn, EndsByPolicy, AskedAndStops,
             Ask, Vouch, Ends, Recompiles
  <2>2. \A q \in Runs : ~conf'[q].forced
    BY <1>0, <1>2, <2>1, OneRun DEF UniqueInv
  <2>3. ASSUME NEW q \in Runs, pc'[q] = "derive" PROVE Eligible(irs', mem'[q].key) = {}
    <3>1. CASE q # r
      <4>1. pc[q] = "derive" /\ mem'[q] = mem[q]
        BY <1>0, <1>2, <2>3, <3>1, OneRun
      <4>2. pc[r] # "derive"
        BY <1>0, <3>1, <4>1 DEF HolderInv
      <4>3. Eligible(irs, mem[q].key) = {}
        BY <1>0, <4>1 DEF UniqueInv
      <4> QED BY <1>2, <4>1, <4>2, <4>3, EligibleMoves
    <3>2. CASE q = r
      <4>1. Begin(r)
        BY <1>0, <1>2, <2>3, <3>2
           DEF Does, Start, Crash, Step, Prepare, TakeClaim, Adopt, Begin, Derived, NotDerived,
               AdoptPhase, BeginPhase, Unresolvable, PhaseDone, PhaseFails, Condemn, EndsByPolicy,
               AskedAndStops, Ask, Vouch, Ends, Recompiles, Advances, AfterCompile, Goes, TypeOK
      <4>2. ~Stands
        BY <1>0, <4>1 DEF Begin, UniqueInv
      <4>3. mem'[r].key = spec
        <5> DEFINE m == [mem[r] EXCEPT !.key = spec]
        <5>1. mem[r] \in Memory /\ mem \in [Runs -> Memory]
          BY <1>0 DEF TypeOK
        <5>2. m \in Memory /\ m.key = spec
          BY <1>0, <5>1 DEF TypeOK, Memory
        <5>3. Keeps(r, m) \/ Minted(r, m)
          BY <4>1 DEF Begin
        <5> HIDE DEF m
        <5>4. CASE Keeps(r, m)
          BY <5>1, <5>2, <5>4 DEF Keeps
        <5>5. CASE Minted(r, m)
          BY <5>1, <5>2, <5>5 DEF Minted, Keeps, Memory
        <5> QED BY <5>3, <5>4, <5>5
      <4>4. pc[r] # "derive"
        BY <4>1 DEF Begin
      <4> QED BY <1>2, <3>2, <4>2, <4>3, <4>4, EligibleMoves DEF Stands
    <3> QED BY <3>1, <3>2
  <2>4. ASSUME NEW k \in Nat, NEW i \in Eligible(irs', k), NEW j \in Eligible(irs', k) PROVE i = j
    <3>1. CASE Eligible(irs', k) \subseteq Eligible(irs, k)
      BY <1>0, <2>4, <3>1 DEF UniqueInv
    <3>2. CASE /\ pc[r] = "derive" /\ mem[r].key = k
               /\ Eligible(irs', k) \subseteq Eligible(irs, k) \cup {ref[r]}
      BY <1>0, <2>4, <3>2 DEF UniqueInv
    <3> QED BY <1>2, <3>1, <3>2, EligibleMoves
  <2> QED BY <2>2, <2>3, <2>4 DEF UniqueInv
<1> QED BY <1>1, <1>2, NextCases

-----------------------------------------------------------------------------
(* The theorems.                                                           *)

LEMMA Inv == Spec => []IInv
<1>1. Init => IInv
  BY InitInv
<1>2. IInv /\ [Next]_vars => IInv'
  BY TypeStep, HolderStep, DirStep, UniqueStep DEF IInv
<1> QED BY <1>1, <1>2, PTL DEF Spec

(* Every variable keeps its type, for any number of runs and targets.      *)
THEOREM Typing == Spec => []TypeOK
BY Inv, PTL DEF IInv

(* An IR per key: no second IR of a key becomes eligible beside one that   *)
(* stands (prepare_node, the Compile claim, the selection).                *)
THEOREM OneStanding == Spec => []OneStandingIr
<1>1. IInv => OneStandingIr
  <2> SUFFICES ASSUME IInv, Unforced, NEW k \in 0 .. spec PROVE \A i, j \in Eligible(irs, k) : i = j
    BY DEF OneStandingIr
  <2>1. k \in Nat
    BY DEF IInv, TypeOK
  <2> QED BY <2>1 DEF IInv, UniqueInv
<1> QED BY <1>1, Inv, PTL

(* A run waits for the Compile claim only on one that is still in its own. *)
THEOREM Waiting == Spec => []WaitIsForAWorker
<1>1. IInv => WaitIsForAWorker
  BY DEF IInv, HolderInv, WaitIsForAWorker
<1> QED BY <1>1, Inv, PTL

(* What an attempt has written is written by no other.                     *)
THEOREM NothingOverwritten == Spec => NothingIsOverwritten
<1> DEFINE Stays == \A i \in DOMAIN irs : irs[i].st # "empty" =>
                      irs'[i] \in {irs[i], [irs[i] EXCEPT !.st = "revoked"]}
<1>1. IInv /\ [Next]_vars => [Stays]_irs
  <2> SUFFICES ASSUME IInv, [Next]_vars, irs' # irs PROVE Stays
    OBVIOUS
  <2>1. PICK r \in Runs : Does(r)
    BY NextCases DEF vars, store, Edit
  <2> QED BY <2>1, Kept DEF IInv
<1> QED BY <1>1, Inv, PTL DEF Spec, NothingIsOverwritten

(* What one target has certified is not undone by another target's run     *)
(* that derives.                                                           *)
THEOREM NoOverturn == Spec => NoChainIsOverturned
<1> DEFINE Stays == irs' = irs \/ Decided \/ ~Unforced \/
                      \A t \in Targets, p \in Pipeline : Certified(t, p) => Certified(t, p)'
<1>1. IInv /\ [Next]_vars => [Stays]_<<irs, spec>>
  <2> SUFFICES ASSUME IInv, [Next]_vars, irs' # irs, ~Decided, Unforced,
                      NEW t \in Targets, NEW p \in Pipeline, Certified(t, p)
               PROVE  Certified(t, p)'
    BY DEF Decided
  <2>0. TypeOK /\ DirInv /\ UniqueInv /\ irs \in Seq(Ir)
    BY DEF IInv, TypeOK
  <2>1. PICK r \in Runs : Does(r)
    BY NextCases DEF vars, store, Edit
  <2>2. spec' = spec
    BY DEF Decided
  <2>3. made' = made
    BY <2>1 DEF Does, Start, Crash, Step, Prepare, TakeClaim, Adopt, Begin, Derived, NotDerived,
                AdoptPhase, BeginPhase, Unresolvable, PhaseDone, PhaseFails, Condemn, EndsByPolicy,
                AskedAndStops, Ask, Vouch, store
  <2>4. Standing \in Eligible(irs, spec) /\ Standing \in DOMAIN irs
    BY <2>0, StandingIsEligible DEF Certified
  <2>5. Eligible(irs', spec) = Eligible(irs, spec) /\ irs'[Standing] = irs[Standing]
    <3>1. CASE \E m \in Memory : Minted(r, m)
      BY <2>0, <2>4, <3>1, MintKeepsEligible DEF Minted
    <3>2. ASSUME NEW v \in Ir, Writes(r, v)
          PROVE  Eligible(irs', spec) = Eligible(irs, spec) /\ irs'[Standing] = irs[Standing]
      <4>1. ref[r] \in DOMAIN irs /\ irs[ref[r]].st = "empty"
        BY <2>0, <3>2 DEF Writes, DirInv
      <4>2. Standing # ref[r]
        BY <2>4, <4>1 DEF Eligible, Of
      <4>3. mem[r].key # spec
        BY <2>0, <2>4, <3>2 DEF Writes, UniqueInv
      <4>4. v.st # "revoked" /\ (v.st = "pass" => v.key # spec)
        BY <3>2, <4>3 DEF Writes, Failed, Passing
      <4>5. irs' = [irs EXCEPT ![ref[r]] = v]
        BY <3>2 DEF Writes
      <4>6. Eligible(irs', spec) = Eligible(irs, spec)
        <5>1. irs'[ref[r]] = v /\ Written(irs, irs', ref[r])
          BY <2>0, <4>1, <4>4, <4>5 DEF Written
        <5> QED BY <4>4, <5>1, WriteInto
      <4> QED BY <2>0, <2>4, <4>2, <4>5, <4>6
    <3>3. CASE Condemns(r)
      <4>1. ref[r] \in DOMAIN irs /\ irs[ref[r]] \in Ir
        BY <2>0, <3>3 DEF Condemns, DirInv
      <4>2. irs'[ref[r]].st = "revoked"
        BY <2>0, <3>3, <4>1 DEF Condemns, Ir
      <4>3. irs[ref[r]].st = "revoked"
        BY <4>1, <4>2 DEF Decided
      <4>4. [irs[ref[r]] EXCEPT !.st = "revoked"] = irs[ref[r]]
        BY <4>1, <4>3 DEF Ir
      <4>5. irs' = irs
        BY <2>0, <3>3, <4>1, <4>4 DEF Condemns
      <4> QED BY <4>5
    <3> QED BY <2>0, <2>1, <3>1, <3>2, <3>3, StoreMoves
  <2>6. Standing' = Standing /\ Stands'
    BY <2>2, <2>4, <2>5 DEF Standing, Selected, Stands
  <2> QED BY <2>3, <2>5, <2>6 DEF Certified
<1> QED BY <1>1, Inv, PTL DEF Spec, NoChainIsOverturned
=============================================================================
