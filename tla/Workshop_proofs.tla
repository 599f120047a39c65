-------------------------- MODULE Workshop_proofs --------------------------
(***************************************************************************)
(* Proofs about the workshop loops, for every budget, schedule and bound,  *)
(* and about the endpoint that serves a launch of one.                     *)
(***************************************************************************)
EXTENDS Workshop, WrapperEndpoint, TLAPS

USE WorkshopAssumption

Some == Lineages \cup {NoLineage}

LEMMA FreshType == ASSUME transport \in Transports PROVE Fresh \in Lineages /\ Fresh.ended = "open"
  BY DEF Fresh, Lineages

LEMMA SeededType ==
  ASSUME transport \in Transports, NEW p \in Some
  PROVE  SeededFrom(p) \in Lineages /\ SeededFrom(p).ended = "open"
<1>1. CASE p = NoLineage
  BY <1>1, FreshType DEF SeededFrom
<1>2. CASE p # NoLineage
  <2>1. p \in Lineages
    BY <1>2 DEF Some
  <2>2. /\ p.doc \in {"none", "bad", "pass", "fail", "declared"}
        /\ p.about \in BOOLEAN /\ p.finished \in BOOLEAN /\ p.whole \in BOOLEAN
    BY <2>1 DEF Lineages
  <2>. QED  BY <1>2, <2>2 DEF SeededFrom, Lineages
<1>. QED  BY <1>1, <1>2

LEMMA EndedType ==
  ASSUME NEW l \in Lineages, NEW why \in {"superseded", "declared_fail"}
  PROVE  Ended(l, why) \in Lineages
  BY DEF Ended, Lineages

LEMMA EndedKeeps ==
  ASSUME NEW l \in Lineages, NEW why
  PROVE  /\ Ended(l, why).about = l.about /\ Ended(l, why).finished = l.finished
         /\ Ended(l, why).whole = l.whole
  BY DEF Ended, Lineages

LEMMA NoLineageIsNone == ASSUME NEW l \in Lineages PROVE l # NoLineage
<1>1. l.ended # "none"
  BY DEF Lineages
<1>. QED  BY <1>1 DEF NoLineage

LEMMA LocatedType ==
  ASSUME NEW f \in BOOLEAN, NEW l \in Located(f)
  PROVE  l \in Lineages
  BY DEF Located, Lineages

LEMMA BoundIsNat == ASSUME NEW left \in Int PROVE Bound(left) \in Nat
  BY DEF Bound, AtLeast

LEMMA TypingInit == Init => TypeOK
<1>. SUFFICES ASSUME Init PROVE TypeOK
  OBVIOUS
<1>1. prior \in Lineages \cup {NoLineage}
  <2>1. prior # NoLineage => \E f \in BOOLEAN : prior \in Located(f)
    BY DEF Init
  <2>. QED  BY <2>1, LocatedType
<1>2. /\ attempt \in 0 .. MaxRepair /\ cutTurns \in 0 .. MaxRepair
      /\ retries \in 0 .. MaxRetries /\ waits \in 0 .. Len(Schedule)
  BY DEF Init
<1>. QED  BY <1>1, <1>2 DEF Init, TypeOK, Outcomes

(* What a launch leaves of the lineage. *)
Left(p, d, e, r, doc, c) ==
  [ended |-> e.ended, left |-> AtLeast(0, lineage.left - p - d), calls |-> c,
   convo |-> lineage.convo /\ e.ended = "open", doc |-> doc,
   about |-> lineage.about, finished |-> lineage.finished /\ e.end = "clean",
   whole |-> lineage.whole /\ r = "no"]

LEMMA LaunchType ==
  ASSUME TypeOK, Launch
  PROVE  lineage' \in Lineages /\ turn' \in Turns
<1>0. lineage \in Lineages
  BY DEF Launch, TypeOK
<1>1. PICK p \in 0 .. MaxPrepare : \E d \in 0 .. Bound(lineage.left - p) :
        \E e \in Ends(d, lineage.left - p) : \E r \in CutReads(e), doc \in Docs, c \in Calls(e) :
          /\ turn' = [end |-> e.end, tag |-> e.tag, reads |-> r, elapsed |-> d]
          /\ lineage' = Left(p, d, e, r, doc, c)
  BY DEF Launch, Left
<1>a. lineage.left \in 0 .. LineageTime /\ lineage.calls \in 0 .. CallCap /\ lineage.convo \in BOOLEAN
      /\ lineage.finished \in BOOLEAN /\ lineage.whole \in BOOLEAN
  BY <1>0 DEF Lineages
<1>b. Bound(lineage.left - p) \in Nat
  <2>1. lineage.left - p \in Int
    BY <1>a
  <2>. QED  BY <2>1, BoundIsNat
<1>2. PICK d \in 0 .. Bound(lineage.left - p) : \E e \in Ends(d, lineage.left - p) :
        \E r \in CutReads(e), doc \in Docs, c \in Calls(e) :
          /\ turn' = [end |-> e.end, tag |-> e.tag, reads |-> r, elapsed |-> d]
          /\ lineage' = Left(p, d, e, r, doc, c)
  BY <1>1
<1>3. PICK e \in Ends(d, lineage.left - p) : \E r \in CutReads(e), doc \in Docs, c \in Calls(e) :
          /\ turn' = [end |-> e.end, tag |-> e.tag, reads |-> r, elapsed |-> d]
          /\ lineage' = Left(p, d, e, r, doc, c)
  BY <1>2
<1>k. PICK r \in CutReads(e), doc \in Docs, c \in Calls(e) :
          /\ turn' = [end |-> e.end, tag |-> e.tag, reads |-> r, elapsed |-> d]
          /\ lineage' = Left(p, d, e, r, doc, c)
  BY <1>3
<1>4. /\ e.end \in {"clean", "bound", "cancelled", "cut", "died"}
      /\ e.tag \in {"none", "usage", "transient", "other"}
      /\ e.ended \in {"open", "leaf_exit", "leaf_timeout", "lineage_timeout", "max_wrapper_calls"}
  BY DEF Ends, BoundName
<1>5. r \in {"no", "some", "unreadable"} /\ doc \in {"none", "bad", "pass", "fail", "declared"}
  BY DEF CutReads, Docs
<1>6. c \in 0 .. CallCap
  BY <1>a DEF Calls
<1>7. AtLeast(0, lineage.left - p - d) \in 0 .. LineageTime
  BY <1>a, <1>b DEF AtLeast
<1>8. turn' \in Turns
  BY <1>k, <1>4, <1>5, <1>b DEF Turns
<1>9. lineage' \in Lineages
  BY <1>0, <1>k, <1>4, <1>5, <1>6, <1>7, <1>a DEF Lineages, Left
<1>. QED  BY <1>8, <1>9

(* The moves of the machine keep its lineages. *)
LEMMA AfterTransportType ==
  ASSUME TypeOK, pc = "judge", AfterTransport
  PROVE  lineage' \in Some /\ prior' \in Some /\ session' = FALSE
  BY EndedType DEF AfterTransport, TypeOK, Some

LEMMA ReuseType ==
  ASSUME TypeOK, pc = "judge", Reuse
  PROVE  lineage' \in Some /\ prior' \in Some /\ session' \in BOOLEAN
<1>1. lineage \in Lineages /\ prior \in Some
  BY DEF TypeOK, Some
<1>2. [lineage EXCEPT !.about = TRUE] \in Lineages
  BY <1>1 DEF Lineages
<1>. QED  BY <1>1, <1>2 DEF Reuse, Some

LEMMA TypingStep == TypeOK /\ [Next]_vars => TypeOK'
<1>. SUFFICES ASSUME TypeOK, [Next]_vars PROVE TypeOK'
  OBVIOUS
<1>. USE DEF fixed, counters, ghosts, machine
<1>1. CASE StartAfresh
  BY <1>1 DEF StartAfresh, TypeOK
<1>2. CASE ReopenWarm
  BY <1>2 DEF ReopenWarm, TypeOK
<1>3. CASE ReopenCold
  BY <1>3, EndedType DEF ReopenCold, TypeOK
<1>4. CASE Warm
  <2>1. lineage # NoLineage
    BY <1>4 DEF Warm, MayResume
  <2>. QED  BY <1>4, <2>1 DEF Warm, TypeOK
<1>5. CASE Cold
  <2>1. (IF lineage # NoLineage THEN Ended(lineage, "superseded") ELSE prior) \in Some
    BY EndedType DEF TypeOK, Some
  <2>2. lineage' \in Lineages
    BY <1>5, <2>1, SeededType DEF Cold, TypeOK
  <2>. QED  BY <1>5, <2>2 DEF Cold, TypeOK
<1>6. CASE SetupFails
  BY <1>6 DEF SetupFails, Leave, TypeOK, Outcomes
<1>7. CASE HomeGone
  BY <1>7 DEF HomeGone, TypeOK
<1>8. CASE Launch
  <2>1. launches' \in Nat /\ pc' = "judge"
    BY <1>8 DEF Launch, TypeOK
  <2>2. /\ UNCHANGED <<fixed, session, prior, warm, carried, counters, lost, outcome>>
        /\ lineage' \in Lineages /\ turn' \in Turns
    BY <1>8, LaunchType DEF Launch
  <2>. QED  BY <2>1, <2>2 DEF TypeOK
<1>9. CASE EndpointNotStopped
  BY <1>9 DEF EndpointNotStopped, Leave, TypeOK, Outcomes
<1>10. CASE Accept
  BY <1>10 DEF Accept, Sound, Leave, TypeOK, Outcomes
<1>11. CASE DeclaredFail
  BY <1>11, EndedType DEF DeclaredFail, Leave, TypeOK, Outcomes
<1>12. CASE UsageWait
  <2>1. waits < Len(Schedule) /\ pc = "judge" /\ AfterTransport
    BY <1>12 DEF UsageWait, MayWait
  <2>2. \A d \in Delays(waits) : slept + d \in Nat
    BY <2>1 DEF Delays, TypeOK
  <2>3. slept' \in Nat /\ waits' \in 0 .. Len(Schedule)
    BY <1>12, <2>1, <2>2 DEF UsageWait, TypeOK
  <2>. QED  BY <1>12, <2>1, <2>3, AfterTransportType DEF UsageWait, Again, TypeOK, Some
<1>13. CASE TransientRetry
  <2>1. turn.elapsed \in Nat /\ retries < MaxRetries /\ AfterTransport /\ pc = "judge"
    BY <1>13 DEF TransientRetry, MayRetry, TypeOK, Turns
  <2>2. spent' \in Nat /\ retries' \in 0 .. MaxRetries
    BY <1>13, <2>1 DEF TransientRetry, TypeOK
  <2>. QED  BY <1>13, <2>1, <2>2, AfterTransportType DEF TransientRetry, Again, TypeOK, Some
<1>14. CASE DiesForGood
  <2>1. turn.elapsed \in Nat
    BY <1>14 DEF DiesForGood, TypeOK, Turns
  <2>. QED  BY <1>14, <2>1 DEF DiesForGood, Letting, Leave, TypeOK, Outcomes
<1>15. CASE ReviewAgain
  <2>1. attempt' \in 0 .. MaxRepair
    BY <1>15 DEF ReviewAgain, MayRepair, TypeOK
  <2>. QED  BY <1>15, <2>1, AfterTransportType DEF ReviewAgain, Again, TypeOK, Some
<1>16. CASE ReadAgain
  <2>1. cutTurns' \in 0 .. MaxRepair
    BY <1>16 DEF ReadAgain, TypeOK
  <2>. QED  BY <1>16, <2>1 DEF ReadAgain, Again, TypeOK
<1>17. CASE Repair
  <2>1. attempt' \in 0 .. MaxRepair
    BY <1>17 DEF Repair, MayRepair, TypeOK
  <2>. QED  BY <1>17, <2>1, ReuseType DEF Repair, Again, TypeOK, Some
<1>18. CASE GiveUp
  <2>1. lineage' \in Some /\ prior' \in Some /\ session' \in BOOLEAN
    BY <1>18, AfterTransportType DEF GiveUp, TypeOK, Some
  <2>. QED  BY <1>18, <2>1 DEF GiveUp, Leave, TypeOK, Outcomes, Some
<1>19. CASE UNCHANGED vars
  BY <1>19 DEF vars, TypeOK
<1>. QED
  BY <1>1, <1>2, <1>3, <1>4, <1>5, <1>6, <1>7, <1>8, <1>9, <1>10, <1>11, <1>12, <1>13, <1>14,
     <1>15, <1>16, <1>17, <1>18, <1>19 DEF Next, Judge, Over

(* Every variable keeps its type, for every schedule, budget and bound:     *)
(* whatever the loops of the conductor do next, what they hold of a lineage *)
(* and what they count stay in range.                                      *)
THEOREM Typing == Spec => []TypeOK
  BY TypingInit, TypingStep, PTL DEF Spec

-----------------------------------------------------------------------------
(* The counts.                                                             *)

CountInv ==
  /\ launches <= attempt + cutTurns + retries + waits + (IF pc \in {"judge", "out"} THEN 1 ELSE 0)
  /\ RetriesWithinBudget
  /\ SleepBounded

LEMMA CountInit == Init => CountInv
  BY DEF Init, CountInv, RetriesWithinBudget, SleepBounded

LEMMA DelayBounded ==
  ASSUME TypeOK, waits < Len(Schedule), NEW d \in Delays(waits)
  PROVE  d \in Nat /\ d <= MaxReset
<1>1. waits + 1 \in 1 .. Len(Schedule) /\ Schedule[waits + 1] \in Nat
  BY DEF TypeOK
<1>2. Schedule[waits + 1] <= MaxReset
  BY <1>1
<1>3. CASE d = Schedule[waits + 1]
  BY <1>1, <1>2, <1>3
<1>4. ASSUME NEW r \in {x \in Resets : x > 0 /\ x + Margin <= MaxReset}, d = r + Margin
      PROVE  d \in Nat /\ d <= MaxReset
  BY <1>4
<1>. QED  BY <1>3, <1>4 DEF Delays

LEMMA CountStep == TypeOK /\ CountInv /\ [Next]_vars => CountInv'
<1>. SUFFICES ASSUME TypeOK, CountInv, [Next]_vars PROVE CountInv'
  OBVIOUS
<1>a. /\ launches \in Nat /\ attempt \in Nat /\ cutTurns \in Nat /\ retries \in Nat /\ waits \in Nat
      /\ spent \in Nat /\ slept \in Nat
  BY DEF TypeOK
<1>. USE <1>a DEF CountInv, RetriesWithinBudget, SleepBounded, counters, ghosts, fixed, machine
<1>1. CASE StartAfresh \/ ReopenWarm \/ ReopenCold \/ Warm \/ Cold
  BY <1>1 DEF StartAfresh, ReopenWarm, ReopenCold, Warm, Cold
<1>2. CASE SetupFails \/ HomeGone
  BY <1>2 DEF SetupFails, HomeGone, Leave
<1>3. CASE Launch
  <2>1. launches' = launches + 1 /\ pc = "launch" /\ pc' = "judge" /\ UNCHANGED counters
    BY <1>3 DEF Launch
  <2>. QED  BY <2>1
<1>4. CASE EndpointNotStopped
  BY <1>4 DEF EndpointNotStopped, Leave
<1>5. CASE Accept \/ DeclaredFail
  BY <1>5 DEF Accept, DeclaredFail, Leave
<1>6. CASE UsageWait
  <2>1. PICK d \in Delays(waits) : slept' = slept + d
    BY <1>6 DEF UsageWait
  <2>2. d \in Nat /\ d <= MaxReset
    BY <1>6, DelayBounded DEF UsageWait, MayWait
  <2>3. /\ waits' = waits + 1 /\ pc = "judge" /\ pc' = "decide"
        /\ UNCHANGED <<attempt, cutTurns, retries, spent, launches>>
    BY <1>6 DEF UsageWait, Again
  <2>4. (waits + 1) * MaxReset = waits * MaxReset + MaxReset
    OBVIOUS
  <2>5. SleepBounded'
    BY <2>1, <2>2, <2>3, <2>4
  <2>6. launches' <= attempt' + cutTurns' + retries' + waits'
    BY <2>3
  <2>. QED  BY <2>3, <2>5, <2>6
<1>7. CASE TransientRetry
  <2>1. turn.elapsed \in Nat
    BY <1>7 DEF TransientRetry, TypeOK, Turns
  <2>. QED  BY <1>7, <2>1 DEF TransientRetry, MayRetry, Again
<1>8. CASE DiesForGood
  BY <1>8 DEF DiesForGood, Letting, Leave
<1>9. CASE ReviewAgain \/ ReadAgain \/ Repair
  BY <1>9 DEF ReviewAgain, ReadAgain, Repair, Again
<1>10. CASE GiveUp
  BY <1>10 DEF GiveUp, Leave
<1>11. CASE UNCHANGED vars
  BY <1>11 DEF vars
<1>. QED
  BY <1>1, <1>2, <1>3, <1>4, <1>5, <1>6, <1>7, <1>8, <1>9, <1>10, <1>11 DEF Next, Judge, Over

LEMMA Counting == Spec => []CountInv
  BY TypingInit, TypingStep, CountInit, CountStep, PTL DEF Spec

(* However repairs, waits and retries follow each other, a substep launches *)
(* one leaf and one more for each it has counted.                          *)
THEOREM Launches == Spec => []LaunchesBounded
<1>1. TypeOK /\ CountInv => LaunchesBounded
  BY DEF TypeOK, CountInv, LaunchesBounded
<1>. QED  BY <1>1, Typing, Counting, PTL

(* No launch is retried whose death, with all before it, has crossed the   *)
(* wall-clock budget.                                                      *)
THEOREM Retries == Spec => []RetriesWithinBudget
<1>1. CountInv => RetriesWithinBudget
  BY DEF CountInv
<1>. QED  BY <1>1, Counting, PTL

(* The waits sleep no longer than their number allows, for every schedule  *)
(* under the cap and whatever resets the providers report.                 *)
THEOREM Sleeping == Spec => []SleepBounded
<1>1. CountInv => SleepBounded
  BY DEF CountInv
<1>. QED  BY <1>1, Counting, PTL

-----------------------------------------------------------------------------
(* The lineages.                                                           *)

WarmInv ==
  /\ session => lineage # NoLineage
  /\ pc = "start" => ~session
  /\ pc = "decide" /\ session => lineage.ended = "open"
  /\ NoLaunchAfterTheEnd

LEMMA WarmInit == Init => WarmInv
  BY DEF Init, WarmInv, NoLaunchAfterTheEnd

LEMMA WarmStep == TypeOK /\ WarmInv /\ [Next]_vars => WarmInv'
<1>. SUFFICES ASSUME TypeOK, WarmInv, [Next]_vars PROVE WarmInv'
  OBVIOUS
<1>. USE DEF WarmInv, NoLaunchAfterTheEnd, fixed, counters, ghosts, machine
<1>1. CASE StartAfresh \/ ReopenWarm \/ ReopenCold
  BY <1>1 DEF StartAfresh, ReopenWarm, ReopenCold
<1>2. CASE Warm
  BY <1>2 DEF Warm, MayResume
<1>3. CASE Cold
  <2>1. (IF lineage # NoLineage THEN Ended(lineage, "superseded") ELSE prior) \in Some
    BY EndedType DEF TypeOK, Some
  <2>2. lineage'.ended = "open"
    BY <1>3, <2>1, SeededType DEF Cold, TypeOK
  <2>. QED  BY <1>3, <2>2 DEF Cold
<1>4. CASE SetupFails \/ HomeGone
  BY <1>4 DEF SetupFails, HomeGone, Leave
<1>5. CASE Launch
  <2>1. lineage' # NoLineage
    BY <1>5, LaunchType, NoLineageIsNone
  <2>. QED  BY <1>5, <2>1 DEF Launch
<1>6. CASE EndpointNotStopped \/ Accept
  BY <1>6 DEF EndpointNotStopped, Accept, Leave
<1>7. CASE DeclaredFail
  <2>1. lineage' # NoLineage
    BY <1>7, EndedType, NoLineageIsNone DEF DeclaredFail, TypeOK
  <2>. QED  BY <1>7, <2>1 DEF DeclaredFail, Leave
<1>8. CASE UsageWait \/ TransientRetry \/ ReviewAgain
  BY <1>8 DEF UsageWait, TransientRetry, ReviewAgain, AfterTransport, Again
<1>9. CASE DiesForGood
  BY <1>9 DEF DiesForGood, Letting, Leave
<1>10. CASE ReadAgain
  BY <1>10 DEF ReadAgain, Again
<1>11. CASE Repair
  <2>1. lineage \in Lineages
    BY <1>11 DEF Repair, TypeOK
  <2>2. /\ [lineage EXCEPT !.about = TRUE] \in Lineages
        /\ [lineage EXCEPT !.about = TRUE].ended = lineage.ended
    BY <2>1 DEF Lineages
  <2>3. [lineage EXCEPT !.about = TRUE] # NoLineage
    BY <2>2, NoLineageIsNone
  <2>. QED  BY <1>11, <2>2, <2>3 DEF Repair, Reuse, Again
<1>12. CASE GiveUp
  BY <1>12 DEF GiveUp, AfterTransport, Leave
<1>13. CASE UNCHANGED vars
  BY <1>13 DEF vars
<1>. QED
  BY <1>1, <1>2, <1>3, <1>4, <1>5, <1>6, <1>7, <1>8, <1>9, <1>10, <1>11, <1>12, <1>13
     DEF Next, Judge, Over

(* No leaf is launched into a lineage that a bound, a death or the loop    *)
(* itself has ended.                                                       *)
THEOREM OpenLaunches == Spec => []NoLaunchAfterTheEnd
<1>1. WarmInv => NoLaunchAfterTheEnd
  BY DEF WarmInv
<1>. QED  BY <1>1, TypingInit, TypingStep, WarmInit, WarmStep, PTL DEF Spec

-----------------------------------------------------------------------------
(* How long a substep can last: a rank that every step of it lowers.  A    *)
(* launch is tried again only at the price of one of the four counts; a    *)
(* home that is gone is found once, as nothing is then left to resume.     *)

Tries == (MaxRepair - attempt) + (MaxRepair - cutTurns) + (MaxRetries - retries)
           + (Len(Schedule) - waits)

SubstepPlace == IF pc = "start" THEN 6
                ELSE IF pc = "decide" THEN IF lineage = NoLineage THEN 3 ELSE 5
                ELSE IF pc = "launch" THEN IF warm THEN 4 ELSE 2 ELSE 1

SubstepRank == IF pc = "out" THEN 0 ELSE 6 * Tries + SubstepPlace

LongestSubstep == 6 * (2 * MaxRepair + MaxRetries + Len(Schedule) + 1)

LEMMA TriesType ==
  TypeOK => Tries \in 0 .. 2 * MaxRepair + MaxRetries + Len(Schedule)
  BY DEF TypeOK, Tries

LEMMA SubstepRankType == TypeOK => SubstepRank \in 0 .. LongestSubstep
<1>1. Len(Schedule) \in Nat
  OBVIOUS
<1>2. SubstepPlace \in 1 .. 6
  BY DEF SubstepPlace
<1>. QED  BY <1>1, <1>2, TriesType DEF SubstepRank, LongestSubstep

LEMMA SubstepLowers ==
  TypeOK /\ TypeOK' /\ Next /\ pc # "out" => SubstepRank' < SubstepRank
<1>. SUFFICES ASSUME TypeOK, TypeOK', Next, pc # "out" PROVE SubstepRank' < SubstepRank
  OBVIOUS
<1>0. Tries \in Nat /\ Tries' \in Nat
  <2>1. (TypeOK => Tries \in 0 .. 2 * MaxRepair + MaxRetries + Len(Schedule))'
    BY TriesType, PTL
  <2>. QED  BY <2>1, TriesType
<1>a. SubstepPlace \in 1 .. 6 /\ SubstepRank = 6 * Tries + SubstepPlace
  BY DEF SubstepPlace, SubstepRank
<1>b. /\ SubstepPlace' \in 1 .. 6
      /\ pc' = "out" => SubstepRank' = 0
      /\ pc' # "out" => SubstepRank' = 6 * Tries' + SubstepPlace'
  BY DEF SubstepPlace, SubstepRank
<1>c. ASSUME pc' = "out" PROVE SubstepRank' < SubstepRank
  BY <1>0, <1>a, <1>b, <1>c
<1>d. ASSUME UNCHANGED counters, SubstepPlace' < SubstepPlace PROVE SubstepRank' < SubstepRank
  <2>1. Tries' = Tries
    BY <1>d DEF counters, Tries
  <2>. QED  BY <1>0, <1>a, <1>b, <1>c, <1>d, <2>1
<1>e. ASSUME pc = "judge", Again, Tries' = Tries - 1 PROVE SubstepRank' < SubstepRank
  <2>1. SubstepPlace' \in 1 .. 5 /\ pc' # "out"
    BY <1>e DEF Again, SubstepPlace
  <2>2. SubstepRank' = 6 * Tries' + SubstepPlace'
    BY <1>b, <2>1
  <2>3. ASSUME NEW t \in Nat, NEW u \in Nat, u = t - 1, NEW p \in 1 .. 6, NEW q \in 1 .. 5
        PROVE  6 * u + q < 6 * t + p
    BY <2>3
  <2>4. Tries' = Tries - 1
    BY <1>e
  <2>. QED  BY <1>0, <1>a, <2>1, <2>2, <2>3, <2>4
<1>1. CASE StartAfresh \/ ReopenWarm \/ ReopenCold
  <2>1. UNCHANGED counters /\ pc = "start" /\ pc' = "decide"
    BY <1>1 DEF StartAfresh, ReopenWarm, ReopenCold
  <2>2. SubstepPlace' < SubstepPlace
    BY <2>1 DEF SubstepPlace
  <2>. QED  BY <1>d, <2>1, <2>2
<1>2. CASE Warm
  <2>1. lineage # NoLineage
    BY <1>2 DEF Warm, MayResume
  <2>2. UNCHANGED counters /\ pc = "decide" /\ pc' = "launch"
    BY <1>2 DEF Warm
  <2>3. SubstepPlace' < SubstepPlace
    BY <2>1, <2>2 DEF SubstepPlace
  <2>. QED  BY <1>d, <2>2, <2>3
<1>3. CASE Cold
  <2>1. UNCHANGED counters /\ pc = "decide" /\ pc' = "launch" /\ ~warm'
    BY <1>3 DEF Cold
  <2>2. SubstepPlace' < SubstepPlace
    BY <2>1 DEF SubstepPlace
  <2>. QED  BY <1>d, <2>1, <2>2
<1>4. CASE HomeGone
  <2>1. /\ UNCHANGED counters /\ pc = "launch" /\ warm
        /\ pc' = "decide" /\ lineage' = NoLineage
    BY <1>4 DEF HomeGone, counters
  <2>2. SubstepPlace' < SubstepPlace
    BY <2>1 DEF SubstepPlace
  <2>. QED  BY <1>d, <2>1, <2>2
<1>5. CASE Launch
  <2>1. UNCHANGED counters /\ pc = "launch" /\ pc' = "judge"
    BY <1>5 DEF Launch
  <2>2. SubstepPlace' < SubstepPlace
    BY <2>1 DEF SubstepPlace
  <2>. QED  BY <1>d, <2>1, <2>2
<1>6. CASE SetupFails \/ EndpointNotStopped \/ Accept \/ DeclaredFail \/ DiesForGood \/ GiveUp
  BY <1>6, <1>c DEF SetupFails, EndpointNotStopped, Accept, DeclaredFail, DiesForGood, Letting,
                    GiveUp, Leave
<1>7. CASE UsageWait \/ TransientRetry \/ ReviewAgain \/ ReadAgain \/ Repair
  <2>1. pc = "judge" /\ Again
    BY <1>7 DEF UsageWait, TransientRetry, ReviewAgain, ReadAgain, Repair
  <2>2. \/ attempt' = attempt + 1 /\ UNCHANGED <<cutTurns, retries, waits>>
        \/ cutTurns' = cutTurns + 1 /\ UNCHANGED <<attempt, retries, waits>>
        \/ retries' = retries + 1 /\ UNCHANGED <<attempt, cutTurns, waits>>
        \/ waits' = waits + 1 /\ UNCHANGED <<attempt, cutTurns, retries>>
    BY <1>7 DEF UsageWait, TransientRetry, ReviewAgain, ReadAgain, Repair
  <2>3. /\ attempt \in Nat /\ cutTurns \in Nat /\ retries \in Nat /\ waits \in Nat
        /\ Len(Schedule) \in Nat
    BY DEF TypeOK
  <2>4. Tries' = Tries - 1
    BY <2>2, <2>3 DEF Tries
  <2>. QED  BY <1>e, <2>1, <2>4
<1>8. CASE Over
  BY <1>8 DEF Over
<1>. QED  BY <1>1, <1>2, <1>3, <1>4, <1>5, <1>6, <1>7, <1>8 DEF Next, Judge

(* The safety core of SubstepEnds: each step of a substep lowers a natural *)
(* number, so a substep takes no more steps than LongestSubstep, however   *)
(* its repairs, second readings, retries and waits follow one another      *)
(* (the loops of _run_workshop_producer_substep and                        *)
(* _run_leaf_reviewer_substep).                                            *)
THEOREM SubstepsRunDown ==
  Spec => /\ [](SubstepRank \in 0 .. LongestSubstep)
          /\ [][pc # "out" => SubstepRank' < SubstepRank]_vars
<1>1. TypeOK /\ [Next]_vars => [pc # "out" => SubstepRank' < SubstepRank]_vars
  BY TypingStep, SubstepLowers
<1>. QED  BY <1>1, SubstepRankType, Typing, PTL DEF Spec

-----------------------------------------------------------------------------
(* What a review stands on.                                                *)

Whole(l) == l # NoLineage => l.finished /\ l.whole

ReviewInv ==
  Reads =>
    /\ Whole(prior)
    /\ pc \in {"start", "decide", "launch"} => Whole(lineage)
    /\ pc = "judge" => /\ turn.end # "cancelled"
                       /\ turn.end = "clean" => lineage.finished
                       /\ turn.reads = "no" => lineage.whole
    /\ pc # "out" => outcome = "none"
    /\ outcome = "pass" => lineage.finished /\ lineage.whole

LEMMA ReviewInit == Init => ReviewInv
  BY DEF Init, ReviewInv, Reads, Whole

(* A review that nothing sends back has read everything and ended.         *)
LEMMA FinishedAndWhole ==
  ASSUME TypeOK, ReviewInv, Reads, pc = "judge", ~Died, ~Unfinished, ~ReadCut, ~Unreadable,
         lineage.doc # "fail"
  PROVE  lineage.finished /\ lineage.whole
<1>1. turn \in Turns
  BY DEF TypeOK
<1>2. turn.end = "clean"
  BY <1>1 DEF Died, Unfinished, ReviewInv, Turns
<1>3. turn.reads = "no"
  BY <1>1, <1>2 DEF ReadCut, Unreadable, Turns
<1>. QED  BY <1>2, <1>3 DEF ReviewInv

LEMMA LaunchReview ==
  ASSUME TypeOK, ReviewInv, Reads, Launch
  PROVE  /\ turn'.end # "cancelled"
         /\ turn'.end = "clean" => lineage'.finished
         /\ turn'.reads = "no" => lineage'.whole
<1>0. lineage \in Lineages /\ lineage # NoLineage /\ lineage.finished /\ lineage.whole
  BY NoLineageIsNone DEF Launch, TypeOK, ReviewInv, Whole
<1>1. PICK p \in 0 .. MaxPrepare : \E d \in 0 .. Bound(lineage.left - p) :
        \E e \in Ends(d, lineage.left - p) : \E r \in CutReads(e), doc \in Docs, c \in Calls(e) :
          /\ turn' = [end |-> e.end, tag |-> e.tag, reads |-> r, elapsed |-> d]
          /\ lineage' = Left(p, d, e, r, doc, c)
  BY DEF Launch, Left
<1>2. PICK d \in 0 .. Bound(lineage.left - p) : \E e \in Ends(d, lineage.left - p) :
        \E r \in CutReads(e), doc \in Docs, c \in Calls(e) :
          /\ turn' = [end |-> e.end, tag |-> e.tag, reads |-> r, elapsed |-> d]
          /\ lineage' = Left(p, d, e, r, doc, c)
  BY <1>1
<1>3. PICK e \in Ends(d, lineage.left - p) : \E r \in CutReads(e), doc \in Docs, c \in Calls(e) :
          /\ turn' = [end |-> e.end, tag |-> e.tag, reads |-> r, elapsed |-> d]
          /\ lineage' = Left(p, d, e, r, doc, c)
  BY <1>2
<1>4. PICK r \in CutReads(e), doc \in Docs, c \in Calls(e) :
          /\ turn' = [end |-> e.end, tag |-> e.tag, reads |-> r, elapsed |-> d]
          /\ lineage' = Left(p, d, e, r, doc, c)
  BY <1>3
<1>5. e.end # "cancelled"
  BY DEF Ends
<1>. QED  BY <1>0, <1>4, <1>5 DEF Left

LEMMA ReviewStep == TypeOK /\ ReviewInv /\ [Next]_vars => ReviewInv'
<1>. SUFFICES ASSUME TypeOK, ReviewInv, [Next]_vars, Reads' PROVE ReviewInv'
  BY DEF ReviewInv
<1>0. Reads
  BY DEF Next, Judge, Over, StartAfresh, ReopenWarm, ReopenCold, Warm, Cold, SetupFails, HomeGone,
         Launch, EndpointNotStopped, Accept, DeclaredFail, UsageWait, TransientRetry, DiesForGood,
         Letting, ReviewAgain, ReadAgain, Repair, GiveUp, Again, fixed, vars, Reads
<1>. USE <1>0 DEF ReviewInv, Whole, fixed, counters, ghosts, machine
<1>1. CASE StartAfresh \/ Warm
  BY <1>1 DEF StartAfresh, Warm
<1>2. CASE ReopenWarm
  BY <1>2 DEF ReopenWarm
<1>3. CASE ReopenCold
  BY <1>3, EndedKeeps DEF ReopenCold, TypeOK
<1>4. CASE Cold
  <2>1. Whole(IF lineage # NoLineage THEN Ended(lineage, "superseded") ELSE prior)
    BY <1>4, EndedKeeps DEF Cold, TypeOK
  <2>2. lineage'.finished /\ lineage'.whole
    BY <1>4, <2>1 DEF Cold, SeededFrom, Fresh
  <2>. QED  BY <1>4, <2>2 DEF Cold
<1>5. CASE SetupFails \/ EndpointNotStopped
  BY <1>5 DEF SetupFails, EndpointNotStopped, Leave
<1>6. CASE HomeGone
  BY <1>6 DEF HomeGone
<1>7. CASE Launch
  BY <1>7, LaunchReview DEF Launch
<1>8. CASE Accept
  BY <1>8, FinishedAndWhole DEF Accept, Leave
<1>9. CASE DeclaredFail \/ DiesForGood
  BY <1>9 DEF DeclaredFail, DiesForGood, Letting, Leave
<1>10. CASE UsageWait \/ TransientRetry \/ ReviewAgain
  BY <1>10 DEF UsageWait, TransientRetry, ReviewAgain, AfterTransport, Again
<1>11. CASE ReadAgain
  BY <1>11 DEF ReadAgain, Again
<1>12. CASE Repair
  <2>1. lineage \in Lineages /\ lineage.finished /\ lineage.whole
    BY <1>12, FinishedAndWhole DEF Repair, Defect, TypeOK
  <2>2. [lineage EXCEPT !.about = TRUE].finished /\ [lineage EXCEPT !.about = TRUE].whole
    BY <2>1 DEF Lineages
  <2>. QED  BY <1>12, <2>2 DEF Repair, Reuse, Again
<1>13. CASE GiveUp
  BY <1>13 DEF GiveUp, AfterTransport, Leave
<1>14. CASE UNCHANGED vars
  BY <1>14 DEF vars
<1>. QED
  BY <1>1, <1>2, <1>3, <1>4, <1>5, <1>6, <1>7, <1>8, <1>9, <1>10, <1>11, <1>12, <1>13, <1>14
     DEF Next, Judge, Over

LEMMA Reviewing == Spec => []ReviewInv
  BY TypingInit, TypingStep, ReviewInit, ReviewStep, PTL DEF Spec

(* No review passes on a document that a dead, stopped or cut launch wrote, *)
(* however many launches and lineages came before.                         *)
THEOREM OnFinished == Spec => []PassStandsOnFinished
<1>1. ReviewInv => PassStandsOnFinished
  BY DEF ReviewInv, PassStandsOnFinished
<1>. QED  BY <1>1, Reviewing, PTL

(* No review passes on a tree of which a read was cut short.               *)
THEOREM OnWholeReads == Spec => []PassStandsOnWholeReads
<1>1. ReviewInv => PassStandsOnWholeReads
  BY DEF ReviewInv, PassStandsOnWholeReads
<1>. QED  BY <1>1, Reviewing, PTL

-----------------------------------------------------------------------------
(* What a producer finds in its tree.                                      *)

Sent == kind = "produces" /\ carried = "shape" /\ ~lost

About(l) == l # NoLineage /\ l.about

ShapeInv ==
  Sent => /\ pc = "start" => prior = NoLineage \/ About(prior)
          /\ pc = "start" => lineage = NoLineage /\ prior # NoLineage
          /\ pc = "decide" => IF lineage = NoLineage THEN About(prior) ELSE lineage.about
          /\ pc \in {"launch", "judge"} => lineage.about

LEMMA ShapeInit == Init => ShapeInv
<1>. SUFFICES ASSUME Init, Sent PROVE ShapeInv
  BY DEF ShapeInv
<1>1. prior \in Located(TRUE)
  BY DEF Init, Sent
<1>2. prior \in Lineages /\ prior.about
  BY <1>1, LocatedType DEF Located
<1>. QED  BY <1>2, NoLineageIsNone DEF Init, ShapeInv, About

LEMMA ShapeStep == TypeOK /\ ShapeInv /\ [Next]_vars => ShapeInv'
<1>. SUFFICES ASSUME TypeOK, ShapeInv, [Next]_vars, Sent' PROVE ShapeInv'
  BY DEF ShapeInv
<1>. USE DEF ShapeInv, Sent, About, fixed, counters, ghosts, machine
<1>1. CASE StartAfresh \/ Warm
  BY <1>1, NoLineageIsNone DEF StartAfresh, Warm, MayResume
<1>2. CASE ReopenWarm
  BY <1>2 DEF ReopenWarm
<1>3. CASE ReopenCold
  <2>1. prior \in Lineages
    BY <1>3 DEF ReopenCold, TypeOK
  <2>. QED  BY <1>3, <2>1, EndedKeeps, EndedType, NoLineageIsNone DEF ReopenCold
<1>4. CASE Cold
  <2>1. About(IF lineage # NoLineage THEN Ended(lineage, "superseded") ELSE prior)
    BY <1>4, EndedKeeps, EndedType, NoLineageIsNone DEF Cold, TypeOK
  <2>2. lineage'.about
    BY <1>4, <2>1 DEF Cold, SeededFrom
  <2>. QED  BY <1>4, <2>2 DEF Cold
<1>5. CASE SetupFails \/ EndpointNotStopped
  BY <1>5 DEF SetupFails, EndpointNotStopped, Leave
<1>6. CASE HomeGone
  BY <1>6 DEF HomeGone
<1>7. CASE Launch
  <2>1. lineage'.about = lineage.about
    BY <1>7 DEF Launch
  <2>. QED  BY <1>7, <2>1 DEF Launch
<1>8. CASE Accept \/ DeclaredFail \/ DiesForGood \/ GiveUp
  BY <1>8 DEF Accept, DeclaredFail, DiesForGood, GiveUp, Letting, Leave
<1>9. CASE UsageWait \/ TransientRetry
  <2>1. lineage \in Lineages /\ pc = "judge" /\ AfterTransport /\ Again /\ carried' = carried
    BY <1>9 DEF UsageWait, TransientRetry, TypeOK
  <2>2. ~Reads
    BY <2>1 DEF Reads, Again
  <2>3. About(prior') /\ lineage' = NoLineage
    BY <2>1, <2>2, EndedKeeps, EndedType, NoLineageIsNone DEF AfterTransport, Again
  <2>. QED  BY <2>1, <2>3 DEF Again
<1>10. CASE ReviewAgain \/ ReadAgain
  BY <1>10 DEF ReviewAgain, ReadAgain
<1>11. CASE Repair
  <2>1. lineage \in Lineages
    BY <1>11 DEF Repair, TypeOK
  <2>2. /\ [lineage EXCEPT !.about = TRUE] \in Lineages
        /\ [lineage EXCEPT !.about = TRUE].about
    BY <2>1 DEF Lineages
  <2>3. [lineage EXCEPT !.about = TRUE] # NoLineage
    BY <2>2, NoLineageIsNone
  <2>. QED  BY <1>11, <2>2, <2>3 DEF Repair, Reuse, Again
<1>12. CASE UNCHANGED vars
  BY <1>12 DEF vars
<1>. QED
  BY <1>1, <1>2, <1>3, <1>4, <1>5, <1>6, <1>7, <1>8, <1>9, <1>10, <1>11, <1>12
     DEF Next, Judge, Over

(* A producer that is sent findings about a document has that document in  *)
(* its tree, over every reopen, death, wait and change of lineage, as long *)
(* as no home was lost.                                                    *)
THEOREM SeesWhatItRepairs == Spec => []ProducerSeesWhatItRepairs
<1>1. ShapeInv => ProducerSeesWhatItRepairs
  BY DEF ShapeInv, Sent, ProducerSeesWhatItRepairs
<1>. QED  BY <1>1, TypingInit, TypingStep, ShapeInit, ShapeStep, PTL DEF Spec

-----------------------------------------------------------------------------
(***************************************************************************)
(* The endpoint of a launch.  A command belongs to the handler that waits  *)
(* for it, so the snapshot, which is taken when no handler is left, finds  *)
(* none.  And whichever of stop() and the handler comes second kills: a    *)
(* command is listed before its handler asks whether the endpoint stops,   *)
(* and the last round of kills copies the list after that was said.        *)
(***************************************************************************)
USE EndpointAssumption

(* A command runs, or is to be reaped, only under a handler in _run_command, *)
(* and its group is listed once the handler has recorded it.               *)
CommandIsWaitedFor ==
  \A h \in Handlers :
    /\ run[h] # "none" => at[h] \in {"spawned", "recorded", "waits"}
    /\ at[h] \in {"recorded", "waits"} => listed[h]

(* The last round of kills has every command that is waited for still      *)
(* before it, and after the round none is left.                            *)
LastRoundReaches ==
  /\ st # "serving" => stopping
  /\ st = "kill_last" =>
       \A h \in Handlers : run[h] = "alive" /\ at[h] = "waits" => <<h, "run">> \in todo

EndpointInv ==
  EndpointTypeOK /\ CommandIsWaitedFor /\ LastRoundReaches /\ NothingRunsOn /\ QuietSnapshot

LEMMA EndpointTyped == EndpointTypeOK /\ [EndpointNext]_endpointVars => EndpointTypeOK'
<1> SUFFICES ASSUME EndpointTypeOK, [EndpointNext]_endpointVars PROVE EndpointTypeOK'
  OBVIOUS
<1> USE DEF EndpointTypeOK, handler, record, stop, signal, tallies, At, Reasons
<1>1. ASSUME NEW h \in Handlers, Connect(h) PROVE EndpointTypeOK'
  BY <1>1 DEF Connect
<1>2. ASSUME NEW h \in Handlers, Call(h) PROVE EndpointTypeOK'
  BY <1>2 DEF Call
<1>3. ASSUME NEW h \in Handlers, Disconnect(h) PROVE EndpointTypeOK'
  BY <1>3 DEF Disconnect
<1>4. ASSUME NEW h \in Handlers, Heed(h) PROVE EndpointTypeOK'
  BY <1>4 DEF Heed
<1>5. ASSUME NEW h \in Handlers, Reply(h) PROVE EndpointTypeOK'
  BY <1>5 DEF Reply
<1>6. ASSUME NEW h \in Handlers, Ask(h) PROVE EndpointTypeOK'
  BY <1>6 DEF Ask, Refuse
<1>7. ASSUME NEW h \in Handlers, EndByTime(h) PROVE EndpointTypeOK'
  BY <1>7 DEF EndByTime, Refuse
<1>8. ASSUME NEW h \in Handlers, Count(h) PROVE EndpointTypeOK'
  <2>1. CASE used < WrapperCalls /\ used' = used + 1 /\ UNCHANGED ended
    <3>1. used' \in 0 .. WrapperCalls
      BY <2>1
    <3> QED BY <1>8, <2>1, <3>1 DEF Count
  <2>2. CASE ended' = (IF ended = "none" THEN "max_wrapper_calls" ELSE ended) /\ UNCHANGED used
    BY <1>8, <2>2 DEF Count
  <2> QED BY <1>8, <2>1, <2>2 DEF Count
<1>9. ASSUME NEW h \in Handlers, Reread(h) PROVE EndpointTypeOK'
  BY <1>9 DEF Reread, Refuse
<1>10. ASSUME NEW h \in Handlers, Acquire(h) PROVE EndpointTypeOK'
  BY <1>10 DEF Acquire
<1>11. ASSUME NEW h \in Handlers, Spawn(h) PROVE EndpointTypeOK'
  BY <1>11 DEF Spawn
<1>12. ASSUME NEW h \in Handlers, Record(h) PROVE EndpointTypeOK'
  BY <1>12 DEF Record
<1>13. ASSUME NEW h \in Handlers, HeedAgain(h) PROVE EndpointTypeOK'
  BY <1>13 DEF HeedAgain, Killed
<1>14. ASSUME NEW h \in Handlers, RunEnds(h) PROVE EndpointTypeOK'
  BY <1>14 DEF RunEnds
<1>15. ASSUME NEW h \in Handlers, Waited(h) PROVE EndpointTypeOK'
  BY <1>15 DEF Waited
<1>16. ASSUME NEW h \in Handlers, GroupIsReused(h) PROVE EndpointTypeOK'
  BY <1>16 DEF GroupIsReused
<1>17. ASSUME NEW h \in Handlers, Release(h) PROVE EndpointTypeOK'
  BY <1>17 DEF Release
<1>18. ASSUME NEW h \in Handlers, Forget(h) PROVE EndpointTypeOK'
  BY <1>18 DEF Forget
<1>19. ASSUME NEW h \in Handlers, Signal(h) PROVE EndpointTypeOK'
  BY <1>19 DEF Signal
<1>20. ASSUME NEW h \in Handlers, Tell(h) PROVE EndpointTypeOK'
  BY <1>20 DEF Tell
<1>21. CASE TimePasses
  BY <1>21 DEF TimePasses
<1>22. CASE BeginStop
  BY <1>22 DEF BeginStop
<1>23. CASE ShutDown
  BY <1>23 DEF ShutDown
<1>24. CASE Sever
  BY <1>24 DEF Sever
<1>25. CASE Copy
  BY <1>25 DEF Copy
<1>26. CASE Join
  BY <1>26 DEF Join
<1>27. CASE Close
  BY <1>27 DEF Close
<1>28. CASE Snapshot
  BY <1>28 DEF Snapshot
<1>29. ASSUME NEW h \in Handlers, NEW what \in {"run", "stale"}, Kill(h, what)
      PROVE  EndpointTypeOK'
  BY <1>29 DEF Kill, Killed
<1>30. CASE Stopped \/ UNCHANGED endpointVars
  BY <1>30 DEF Stopped, endpointVars
<1> HIDE DEF EndpointTypeOK
<1> QED
  BY <1>1, <1>2, <1>3, <1>4, <1>5, <1>6, <1>7, <1>8, <1>9, <1>10, <1>11, <1>12, <1>13, <1>14,
     <1>15, <1>16, <1>17, <1>18, <1>19, <1>20, <1>21, <1>22, <1>23, <1>24, <1>25, <1>26, <1>27,
     <1>28, <1>29, <1>30 DEF EndpointNext, Handle, Stop

(* What the other four parts see: a handler's place, its command and the   *)
(* list, the flag, the stage of stop() and what it has still to kill.      *)
watched == <<at, run, listed, stopping, st, todo>>

Others == CommandIsWaitedFor /\ LastRoundReaches /\ NothingRunsOn /\ QuietSnapshot

LEMMA WatchedKeep == Others /\ UNCHANGED watched => Others'
  BY DEF Others, watched, CommandIsWaitedFor, LastRoundReaches, NothingRunsOn, QuietSnapshot, Alive

(* A handler that has no command moves between two places where it has none. *)
LEMMA Moves ==
  ASSUME EndpointTypeOK, Others, NEW h \in Handlers, NEW there,
         at[h] \notin {"off", "gone", "spawned", "recorded", "waits"},
         there \notin {"spawned", "recorded", "waits"},
         at' = [at EXCEPT ![h] = there], UNCHANGED <<run, listed, stopping, st, todo>>
  PROVE  Others'
  BY DEF Others, EndpointTypeOK, CommandIsWaitedFor, LastRoundReaches, NothingRunsOn, QuietSnapshot,
         Alive

LEMMA EndpointStep == EndpointTypeOK /\ Others /\ [EndpointNext]_endpointVars => Others'
<1> SUFFICES ASSUME EndpointTypeOK, Others, [EndpointNext]_endpointVars PROVE Others'
  OBVIOUS
<1> USE DEF handler, record, stop, signal, tallies, At
<1>1. ASSUME NEW h \in Handlers, Connect(h) PROVE Others'
  BY <1>1 DEF Connect, Others, EndpointTypeOK, CommandIsWaitedFor, LastRoundReaches, NothingRunsOn,
              QuietSnapshot, Alive
<1>2. ASSUME NEW h \in Handlers, Call(h) \/ Disconnect(h) \/ Heed(h) \/ Reply(h) PROVE Others'
  BY <1>2, Moves DEF Call, Disconnect, Heed, Reply
<1>3. ASSUME NEW h \in Handlers, Ask(h) \/ EndByTime(h) \/ Count(h) \/ Reread(h) PROVE Others'
  BY <1>3, Moves DEF Ask, EndByTime, Count, Reread, Refuse
<1>4. ASSUME NEW h \in Handlers, Acquire(h) \/ Release(h) \/ Forget(h) \/ Signal(h) \/ Tell(h)
      PROVE  Others'
  BY <1>4, Moves DEF Acquire, Release, Forget, Signal, Tell
<1>5. ASSUME NEW h \in Handlers, Spawn(h) PROVE Others'
  BY <1>5 DEF Spawn, Others, EndpointTypeOK, CommandIsWaitedFor, LastRoundReaches, NothingRunsOn,
              QuietSnapshot, Alive
<1>6. ASSUME NEW h \in Handlers, Record(h) PROVE Others'
  BY <1>6 DEF Record, Others, EndpointTypeOK, CommandIsWaitedFor, LastRoundReaches, NothingRunsOn,
              QuietSnapshot, Alive
<1>7. ASSUME NEW h \in Handlers, HeedAgain(h) PROVE Others'
  BY <1>7 DEF HeedAgain, Killed, Others, EndpointTypeOK, CommandIsWaitedFor, LastRoundReaches,
              NothingRunsOn, QuietSnapshot, Alive
<1>8. ASSUME NEW h \in Handlers, RunEnds(h) PROVE Others'
  BY <1>8 DEF RunEnds, Others, EndpointTypeOK, CommandIsWaitedFor, LastRoundReaches, NothingRunsOn,
              QuietSnapshot, Alive
<1>9. ASSUME NEW h \in Handlers, Waited(h) PROVE Others'
  BY <1>9 DEF Waited, Others, EndpointTypeOK, CommandIsWaitedFor, LastRoundReaches, NothingRunsOn,
              QuietSnapshot, Alive
<1>10. CASE TimePasses \/ Stopped \/ UNCHANGED endpointVars
             \/ \E h \in Handlers : GroupIsReused(h)
  BY <1>10, WatchedKeep DEF TimePasses, Stopped, endpointVars, GroupIsReused, watched
<1>11. CASE BeginStop \/ ShutDown \/ Sever \/ Join
  BY <1>11 DEF BeginStop, ShutDown, Sever, Join, Others, EndpointTypeOK, CommandIsWaitedFor,
               LastRoundReaches, NothingRunsOn, QuietSnapshot, Alive
<1>12. CASE Copy
  BY <1>12 DEF Copy, Others, EndpointTypeOK, CommandIsWaitedFor, LastRoundReaches, NothingRunsOn,
               QuietSnapshot, Alive
<1>13. ASSUME NEW h \in Handlers, NEW what \in {"run", "stale"}, Kill(h, what) PROVE Others'
  BY <1>13 DEF Kill, Killed, Others, EndpointTypeOK, CommandIsWaitedFor, LastRoundReaches,
               NothingRunsOn, QuietSnapshot, Alive
<1>14. CASE Close \/ Snapshot
  BY <1>14 DEF Close, Snapshot, Others, EndpointTypeOK, CommandIsWaitedFor, LastRoundReaches,
               NothingRunsOn, QuietSnapshot, Alive
<1> QED
  BY <1>1, <1>2, <1>3, <1>4, <1>5, <1>6, <1>7, <1>8, <1>9, <1>10, <1>11, <1>12, <1>13, <1>14
  DEF EndpointNext, Handle, Stop

LEMMA EndpointStarts == EndpointInit => EndpointInv
<1> SUFFICES ASSUME EndpointInit PROVE EndpointInv
  OBVIOUS
<1>1. used \in 0 .. WrapperCalls /\ used \in Nat /\ ran = used
  BY DEF EndpointInit
<1>2. EndpointTypeOK
  <2>1. 0 \in 0 .. RunsPerCall /\ 0 \in 0 .. MaxJoins /\ 0 \in 0 .. MaxCalls
    OBVIOUS
  <2>2. runs \in [Handlers -> 0 .. RunsPerCall]
    BY <2>1 DEF EndpointInit
  <2> QED
    BY <1>1, <2>1, <2>2 DEF EndpointInit, EndpointTypeOK, Reasons
<1>3. CommandIsWaitedFor /\ LastRoundReaches /\ NothingRunsOn /\ QuietSnapshot
  BY DEF EndpointInit, CommandIsWaitedFor, LastRoundReaches, NothingRunsOn, QuietSnapshot
<1> QED
  BY <1>2, <1>3 DEF EndpointInv

LEMMA EndpointInvariant == EndpointSpec => []EndpointInv
<1>1. EndpointInv /\ [EndpointNext]_endpointVars => EndpointInv'
  BY EndpointTyped, EndpointStep DEF EndpointInv, Others
<1> QED
  BY EndpointStarts, <1>1, PTL DEF EndpointSpec

(* Every variable of the endpoint keeps its type, for any connections, cap *)
(* and bounds.                                                             *)
THEOREM EndpointKeepsItsTypes == EndpointSpec => []EndpointTypeOK
<1>1. EndpointInv => EndpointTypeOK
  BY DEF EndpointInv
<1> QED
  BY EndpointInvariant, <1>1, PTL

(* The tree of a lineage is copied only when no handler is left and no     *)
(* command of one runs: _spawn_workshop_turn reads what nobody writes.     *)
THEOREM SnapshotsAreQuiet == EndpointSpec => []QuietSnapshot
<1>1. EndpointInv => QuietSnapshot
  BY DEF EndpointInv
<1> QED
  BY EndpointInvariant, <1>1, PTL

(* After stop() a command runs only in the instant before its own handler  *)
(* kills it, however many connections start commands while the kills go on *)
(* and wherever the deadline of the join falls.                            *)
THEOREM NothingRunsPastStop == EndpointSpec => []NothingRunsOn
<1>1. EndpointInv => NothingRunsOn
  BY DEF EndpointInv
<1> QED
  BY EndpointInvariant, <1>1, PTL
=============================================================================
