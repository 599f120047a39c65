----------------------- MODULE ClosureScheduler_proofs -----------------------
(***************************************************************************)
(* What holds of the scheduler for every closure, every number of jobs and *)
(* whatever happens to the store.                                          *)
(*                                                                         *)
(* The heart is Accounted: until a first failure every member is pending,  *)
(* running, finished or in the driver's hand, so that a member with no     *)
(* dependency pending or running has them all finished; and Blocked: what  *)
(* a pass has left behind waits for a process or for something else it has *)
(* left behind, so that without a process the pass has left nothing.       *)
(***************************************************************************)
EXTENDS ClosureScheduler, FiniteSetTheorems, TLAPS

USE ClosureAssumption

(* The member the driver has started and not yet entered.                  *)
Spawned == IF pc = "spawned" THEN {hand} ELSE {}
Popped == IF pc = "popped" THEN {hand} ELSE {}
Scheduling == pc \in {"loop", "scan", "spawned", "reap", "popped"}

Sorted ==
  /\ pending \cap running = {} /\ pending \cap done = {} /\ running \cap done = {}
  /\ Popped \cap (pending \cup running \cup done) = {}
  /\ Spawned \subseteq pending /\ Spawned \cup Popped \subseteq Members
  /\ \A m \in pending \ Spawned : Scheduling => proc[m] = "none"

Accounted ==
  /\ Scheduling /\ ~failed => Members = pending \cup running \cup done \cup Popped
  /\ outcome = "ok" => done = Members
  /\ failed /\ pc \in {"scan", "spawned"} => scan = {}

Founded == \A m \in Members : proc[m] # "none" \/ m \in done => Deps[m] \subseteq done
Settled == \A m \in done : m \notin Alive

Tracked ==
  /\ Scheduling => Alive \subseteq running \cup Spawned
  /\ Scheduling => \A m \in Members :
       proc[m] # "none" => m \in running \cup recorded \cup Spawned \cup Popped
  /\ outcome \in {"ok", "fail"} => pc = "out"
  /\ pc # "out" => outcome = "none"
  /\ \A m \in exited : Exited(m)
  /\ Popped # {} => Exited(hand)
  /\ \A m \in running \cup Spawned \cup Popped : proc[m] # "none"

Bounded ==
  /\ Cardinality(Alive) <= Jobs
  /\ Scheduling => Cardinality(running \cup Spawned) <= Jobs

Blocked ==
  pc \in {"scan", "spawned"} /\ ~failed =>
    \A m \in pending \ scan : running # {} \/ Deps[m] \cap (pending \ scan) # {}

Spawning == pc = "spawned" => hand \in scan /\ ~failed

Standing == disturbances = 0 => done \subseteq ready

IInv ==
  /\ TypeOK /\ Sorted /\ Accounted /\ Founded /\ Settled /\ Tracked /\ Bounded
  /\ Blocked /\ Spawning /\ Standing /\ ReturnedMeansReaped /\ NeverStalls

-----------------------------------------------------------------------------
(* A member's step moves its own live process on and nothing of the driver.*)
LEMMA MemberStep ==
  ASSUME NEW m \in Members, Member(m), TypeOK
  PROVE  /\ m \in Alive /\ UNCHANGED <<driver, held, disturbances, termed, prior, entry, interrupts>>
         /\ \E s \in {"deriving", "exit0", "exit1"} : proc' = [proc EXCEPT ![m] = s]
         /\ ready' = ready \/ Derived(m)
<1>1. CASE MemberPasses(m)
  BY <1>1 DEF MemberPasses, Becomes, Alive
<1>2. CASE MemberSkips(m) \/ MemberBegins(m) \/ MemberOnlyPrepares(m) \/ MemberFails(m)
  BY <1>2 DEF MemberSkips, MemberBegins, MemberOnlyPrepares, MemberFails, Becomes, Alive, world
<1>. QED
  BY <1>1, <1>2 DEF Member

(* What others do, and stuttering, leaves the driver and the processes.    *)
Quiet == UNCHANGED <<driver, proc, termed, prior, entry, interrupts>>

Others == Disturb \/ AllOver \/ (\E m \in Members : ForeignEnds(m)) \/ UNCHANGED vars

LEMMA QuietStep == ASSUME Others PROVE Quiet
BY DEF Others, Disturb, AllOver, ForeignEnds, Quiet, vars, driver, world

(* The types.                                                              *)
LEMMA TypingStep == IInv /\ [Next]_vars => TypeOK'
<1>. SUFFICES ASSUME IInv, [Next]_vars PROVE TypeOK'
  OBVIOUS
<1>. USE DEF IInv
<1>1. CASE NewPass
  BY <1>1 DEF NewPass, book, world, TypeOK
<1>2. ASSUME NEW m \in Members, PassOver(m) PROVE TypeOK'
  BY <1>2 DEF PassOver, Considers, Launchable, book, world, TypeOK
<1>3. ASSUME NEW m \in Members, SkipReady(m) PROVE TypeOK'
  BY <1>3 DEF SkipReady, Considers, Launchable, world, TypeOK
<1>4. ASSUME NEW m \in Members, RejectResume(m) PROVE TypeOK'
  BY <1>4 DEF RejectResume, Considers, Launchable, world, TypeOK
<1>5. ASSUME NEW m \in Members, Spawn(m) PROVE TypeOK'
  BY <1>5 DEF Spawn, Considers, Launchable, book, TypeOK
<1>6. CASE Track
  BY <1>6 DEF Track, world, TypeOK, Sorted, Spawned
<1>7. ASSUME NEW m \in Members, SpawnFails(m) PROVE TypeOK'
  BY <1>7 DEF SpawnFails, Considers, Launchable, book, world, TypeOK
<1>8. CASE EndPass
  BY <1>8 DEF EndPass, Verdict, book, world, TypeOK
<1>9. ASSUME NEW m \in Members, Pop(m) PROVE TypeOK'
  BY <1>9 DEF Pop, world, TypeOK
<1>10. CASE Judge
  <2>1. hand \in Members
    BY <1>10 DEF Judge, Sorted, Popped
  <2>2. CASE proc[hand] = "exit0" /\ hand \in ready
    BY <1>10, <2>1, <2>2 DEF Judge, world, TypeOK
  <2>3. CASE ~(proc[hand] = "exit0" /\ hand \in ready)
    BY <1>10, <2>1, <2>3 DEF Judge, world, TypeOK
  <2>. QED
    BY <2>2, <2>3
<1>11. CASE Reaped
  BY <1>11 DEF Reaped, book, world, TypeOK
<1>12. CASE Return
  BY <1>12 DEF Return, Verdict, book, world, TypeOK
<1>13. CASE Interrupt
  BY <1>13 DEF Interrupt, book, world, TypeOK
<1>14. CASE SendTerm
  BY <1>14 DEF SendTerm, book, world, TypeOK
<1>15. ASSUME NEW m \in Members, AwaitMember(m) PROVE TypeOK'
  BY <1>15 DEF AwaitMember, world, TypeOK
<1>16. CASE Propagate
  BY <1>16 DEF Propagate, book, world, TypeOK
<1>17. ASSUME NEW m \in Members, Member(m) PROVE TypeOK'
  BY <1>17, MemberStep DEF driver, book, Derived, TypeOK
<1>18. CASE Others
  <2>1. CASE Disturb
    BY <2>1 DEF Disturb, TypeOK, driver, book
  <2>2. ASSUME NEW m \in Members, ForeignEnds(m) PROVE TypeOK'
    BY <2>2 DEF ForeignEnds, Derived, TypeOK, driver, book
  <2>3. CASE AllOver \/ UNCHANGED vars
    BY <2>3 DEF AllOver, vars, driver, book, world, TypeOK
  <2>. QED
    BY <1>18, <2>1, <2>2, <2>3 DEF Others
<1>. QED
  BY <1>1, <1>2, <1>3, <1>4, <1>5, <1>6, <1>7, <1>8, <1>9, <1>10, <1>11, <1>12, <1>13, <1>14, <1>15, <1>16, <1>17, <1>18 DEF Next, Driver, Others

(* The books are disjoint.                                                 *)
LEMMA SortingStep == IInv /\ [Next]_vars => Sorted'
<1>. SUFFICES ASSUME IInv, [Next]_vars PROVE Sorted'
  OBVIOUS
<1>. USE DEF IInv
<1>1. CASE NewPass
  BY <1>1 DEF NewPass, book, world, TypeOK, Sorted, Spawned, Popped, Scheduling, Tracked
<1>2. ASSUME NEW m \in Members, PassOver(m) PROVE Sorted'
  BY <1>2 DEF PassOver, Considers, Launchable, book, world, TypeOK, Sorted, Spawned, Popped, Scheduling, Tracked
<1>3. ASSUME NEW m \in Members, SkipReady(m) PROVE Sorted'
  BY <1>3 DEF SkipReady, Considers, Launchable, world, TypeOK, Sorted, Spawned, Popped, Scheduling, Tracked
<1>4. ASSUME NEW m \in Members, RejectResume(m) PROVE Sorted'
  BY <1>4 DEF RejectResume, Considers, Launchable, world, TypeOK, Sorted, Spawned, Popped, Scheduling, Tracked
<1>5. ASSUME NEW m \in Members, Spawn(m) PROVE Sorted'
  BY <1>5 DEF Spawn, Considers, Launchable, book, TypeOK, Sorted, Spawned, Popped, Scheduling, Tracked
<1>6. CASE Track
  BY <1>6 DEF Track, world, TypeOK, Sorted, Spawned, Popped, Scheduling, Tracked
<1>7. ASSUME NEW m \in Members, SpawnFails(m) PROVE Sorted'
  BY <1>7 DEF SpawnFails, Considers, Launchable, book, world, TypeOK, Sorted, Spawned, Popped, Scheduling, Tracked
<1>8. CASE EndPass
  BY <1>8 DEF EndPass, Verdict, book, world, TypeOK, Sorted, Spawned, Popped, Scheduling, Tracked
<1>9. ASSUME NEW m \in Members, Pop(m) PROVE Sorted'
  BY <1>9 DEF Pop, world, TypeOK, Sorted, Spawned, Popped, Scheduling, Tracked
<1>10. CASE Judge
  BY <1>10 DEF Judge, world, TypeOK, Sorted, Spawned, Popped, Scheduling, Tracked
<1>11. CASE Reaped
  BY <1>11 DEF Reaped, book, world, TypeOK, Sorted, Spawned, Popped, Scheduling, Tracked
<1>12. CASE Return
  BY <1>12 DEF Return, Verdict, book, world, TypeOK, Sorted, Spawned, Popped, Scheduling, Tracked
<1>13. CASE Interrupt
  BY <1>13 DEF Interrupt, book, world, TypeOK, Sorted, Spawned, Popped, Scheduling, Tracked
<1>14. CASE SendTerm
  BY <1>14 DEF SendTerm, book, world, TypeOK, Sorted, Spawned, Popped, Scheduling, Tracked
<1>15. ASSUME NEW m \in Members, AwaitMember(m) PROVE Sorted'
  BY <1>15 DEF AwaitMember, world, TypeOK, Sorted, Spawned, Popped, Scheduling, Tracked
<1>16. CASE Propagate
  BY <1>16 DEF Propagate, book, world, TypeOK, Sorted, Spawned, Popped, Scheduling, Tracked
<1>17. ASSUME NEW m \in Members, Member(m) PROVE Sorted'
  BY <1>17, MemberStep DEF driver, book, TypeOK, Sorted, Spawned, Popped, Scheduling, Tracked
<1>18. CASE Others
  BY <1>18, QuietStep DEF Quiet, driver, book, TypeOK, Sorted, Spawned, Popped, Scheduling, Tracked
<1>. QED
  BY <1>1, <1>2, <1>3, <1>4, <1>5, <1>6, <1>7, <1>8, <1>9, <1>10, <1>11, <1>12, <1>13, <1>14, <1>15, <1>16, <1>17, <1>18 DEF Next, Driver, Others

(* Nobody is lost before the first failure.                                *)
LEMMA AccountingStep == IInv /\ [Next]_vars => Accounted'
<1>. SUFFICES ASSUME IInv, [Next]_vars PROVE Accounted'
  OBVIOUS
<1>. USE DEF IInv
<1>1. CASE NewPass
  BY <1>1 DEF NewPass, book, world, TypeOK, Spawned, Popped, Scheduling, Accounted, Spawning, Tracked
<1>2. ASSUME NEW m \in Members, PassOver(m) PROVE Accounted'
  BY <1>2 DEF PassOver, Considers, Launchable, book, world, TypeOK, Spawned, Popped, Scheduling, Accounted, Spawning, Tracked
<1>3. ASSUME NEW m \in Members, SkipReady(m) PROVE Accounted'
  BY <1>3 DEF SkipReady, Considers, Launchable, world, TypeOK, Spawned, Popped, Scheduling, Accounted, Spawning, Tracked
<1>4. ASSUME NEW m \in Members, RejectResume(m) PROVE Accounted'
  BY <1>4 DEF RejectResume, Considers, Launchable, world, TypeOK, Spawned, Popped, Scheduling, Accounted, Spawning, Tracked
<1>5. ASSUME NEW m \in Members, Spawn(m) PROVE Accounted'
  BY <1>5 DEF Spawn, Considers, Launchable, book, TypeOK, Spawned, Popped, Scheduling, Accounted, Spawning, Tracked
<1>6. CASE Track
  BY <1>6 DEF Track, world, TypeOK, Spawned, Popped, Scheduling, Accounted, Spawning, Tracked
<1>7. ASSUME NEW m \in Members, SpawnFails(m) PROVE Accounted'
  BY <1>7 DEF SpawnFails, Considers, Launchable, book, world, TypeOK, Spawned, Popped, Scheduling, Accounted, Spawning, Tracked
<1>8. CASE EndPass
  <2>1. outcome' = "ok" => ~failed /\ pending = {} /\ running = {}
    BY <1>8 DEF EndPass, Verdict, Tracked
  <2>2. pc' \in {"out", "loop", "reap"}
    BY <1>8 DEF EndPass
  <2>3. outcome' = "ok" => done = Members
    <3>1. ~failed => Members = pending \cup running \cup done
      BY <1>8 DEF EndPass, Accounted, Scheduling, Popped
    <3>. QED
      BY <2>1, <3>1
  <2>. QED
    BY <1>8, <2>2, <2>3 DEF EndPass, book, Popped, Scheduling, Accounted
<1>9. ASSUME NEW m \in Members, Pop(m) PROVE Accounted'
  BY <1>9 DEF Pop, world, TypeOK, Spawned, Popped, Scheduling, Accounted, Spawning, Tracked
<1>10. CASE Judge
  BY <1>10 DEF Judge, world, TypeOK, Spawned, Popped, Scheduling, Accounted, Spawning, Tracked
<1>11. CASE Reaped
  BY <1>11 DEF Reaped, book, world, TypeOK, Spawned, Popped, Scheduling, Accounted, Spawning, Tracked
<1>12. CASE Return
  <2>1. outcome' = "ok" => ~failed
    BY <1>12 DEF Return, Verdict
  <2>2. ~failed => Members = pending \cup running \cup done
    BY <1>12 DEF Return, Accounted, Scheduling, Popped
  <2>3. outcome' = "ok" => done = Members
    BY <1>12, <2>1, <2>2 DEF Return
  <2>. QED
    BY <1>12, <2>3 DEF Return, book, Popped, Scheduling, Accounted
<1>13. CASE Interrupt
  BY <1>13 DEF Interrupt, book, world, TypeOK, Spawned, Popped, Scheduling, Accounted, Spawning, Tracked
<1>14. CASE SendTerm
  BY <1>14 DEF SendTerm, book, world, TypeOK, Spawned, Popped, Scheduling, Accounted, Spawning, Tracked
<1>15. ASSUME NEW m \in Members, AwaitMember(m) PROVE Accounted'
  BY <1>15 DEF AwaitMember, world, TypeOK, Spawned, Popped, Scheduling, Accounted, Spawning, Tracked
<1>16. CASE Propagate
  BY <1>16 DEF Propagate, book, world, TypeOK, Spawned, Popped, Scheduling, Accounted, Spawning, Tracked
<1>17. ASSUME NEW m \in Members, Member(m) PROVE Accounted'
  BY <1>17, MemberStep DEF driver, book, TypeOK, Spawned, Popped, Scheduling, Accounted, Spawning, Tracked
<1>18. CASE Others
  BY <1>18, QuietStep DEF Quiet, driver, book, TypeOK, Spawned, Popped, Scheduling, Accounted, Spawning, Tracked
<1>. QED
  BY <1>1, <1>2, <1>3, <1>4, <1>5, <1>6, <1>7, <1>8, <1>9, <1>10, <1>11, <1>12, <1>13, <1>14, <1>15, <1>16, <1>17, <1>18 DEF Next, Driver, Others

(* What is started or finished stands on finished members.                 *)
LEMMA FoundingStep == IInv /\ [Next]_vars => Founded'
<1>. SUFFICES ASSUME IInv, [Next]_vars PROVE Founded'
  OBVIOUS
<1>. USE DEF IInv
<1>1. CASE NewPass
  BY <1>1 DEF NewPass, book, world, TypeOK, Spawned, Popped, Scheduling, Sorted, Founded, Accounted, Spawning, Tracked, Alive
<1>2. ASSUME NEW m \in Members, PassOver(m) PROVE Founded'
  BY <1>2 DEF PassOver, Considers, Launchable, book, world, TypeOK, Spawned, Popped, Scheduling, Sorted, Founded, Accounted, Spawning, Tracked, Alive
<1>3. ASSUME NEW m \in Members, SkipReady(m) PROVE Founded'
  BY <1>3 DEF SkipReady, Considers, Launchable, world, TypeOK, Spawned, Popped, Scheduling, Sorted, Founded, Accounted, Spawning, Tracked, Alive
<1>4. ASSUME NEW m \in Members, RejectResume(m) PROVE Founded'
  BY <1>4 DEF RejectResume, Considers, Launchable, world, TypeOK, Spawned, Popped, Scheduling, Sorted, Founded, Accounted, Spawning, Tracked, Alive
<1>5. ASSUME NEW m \in Members, Spawn(m) PROVE Founded'
  BY <1>5 DEF Spawn, Considers, Launchable, book, TypeOK, Spawned, Popped, Scheduling, Sorted, Founded, Accounted, Spawning, Tracked, Alive
<1>6. CASE Track
  BY <1>6 DEF Track, world, TypeOK, Spawned, Popped, Scheduling, Sorted, Founded, Accounted, Spawning, Tracked, Alive
<1>7. ASSUME NEW m \in Members, SpawnFails(m) PROVE Founded'
  BY <1>7 DEF SpawnFails, Considers, Launchable, book, world, TypeOK, Spawned, Popped, Scheduling, Sorted, Founded, Accounted, Spawning, Tracked, Alive
<1>8. CASE EndPass
  BY <1>8 DEF EndPass, Verdict, book, world, TypeOK, Spawned, Popped, Scheduling, Sorted, Founded, Accounted, Spawning, Tracked, Alive
<1>9. ASSUME NEW m \in Members, Pop(m) PROVE Founded'
  BY <1>9 DEF Pop, world, TypeOK, Spawned, Popped, Scheduling, Sorted, Founded, Accounted, Spawning, Tracked, Alive
<1>10. CASE Judge
  BY <1>10 DEF Judge, world, TypeOK, Spawned, Popped, Scheduling, Sorted, Founded, Accounted, Spawning, Tracked, Alive
<1>11. CASE Reaped
  BY <1>11 DEF Reaped, book, world, TypeOK, Spawned, Popped, Scheduling, Sorted, Founded, Accounted, Spawning, Tracked, Alive
<1>12. CASE Return
  BY <1>12 DEF Return, Verdict, book, world, TypeOK, Spawned, Popped, Scheduling, Sorted, Founded, Accounted, Spawning, Tracked, Alive
<1>13. CASE Interrupt
  BY <1>13 DEF Interrupt, book, world, TypeOK, Spawned, Popped, Scheduling, Sorted, Founded, Accounted, Spawning, Tracked, Alive
<1>14. CASE SendTerm
  BY <1>14 DEF SendTerm, book, world, TypeOK, Spawned, Popped, Scheduling, Sorted, Founded, Accounted, Spawning, Tracked, Alive
<1>15. ASSUME NEW m \in Members, AwaitMember(m) PROVE Founded'
  BY <1>15 DEF AwaitMember, world, TypeOK, Spawned, Popped, Scheduling, Sorted, Founded, Accounted, Spawning, Tracked, Alive
<1>16. CASE Propagate
  BY <1>16 DEF Propagate, book, world, TypeOK, Spawned, Popped, Scheduling, Sorted, Founded, Accounted, Spawning, Tracked, Alive
<1>17. ASSUME NEW m \in Members, Member(m) PROVE Founded'
  BY <1>17, MemberStep DEF driver, book, TypeOK, Spawned, Popped, Scheduling, Sorted, Founded, Accounted, Spawning, Tracked, Alive
<1>18. CASE Others
  BY <1>18, QuietStep DEF Quiet, driver, book, TypeOK, Spawned, Popped, Scheduling, Sorted, Founded, Accounted, Spawning, Tracked, Alive
<1>. QED
  BY <1>1, <1>2, <1>3, <1>4, <1>5, <1>6, <1>7, <1>8, <1>9, <1>10, <1>11, <1>12, <1>13, <1>14, <1>15, <1>16, <1>17, <1>18 DEF Next, Driver, Others

(* What is finished is no process.                                         *)
LEMMA SettlingStep == IInv /\ [Next]_vars => Settled'
<1>. SUFFICES ASSUME IInv, [Next]_vars PROVE Settled'
  OBVIOUS
<1>. USE DEF IInv
<1>1. CASE NewPass
  BY <1>1 DEF NewPass, book, world, TypeOK, Spawned, Popped, Scheduling, Sorted, Settled, Tracked, Alive, Exited
<1>2. ASSUME NEW m \in Members, PassOver(m) PROVE Settled'
  BY <1>2 DEF PassOver, Considers, Launchable, book, world, TypeOK, Spawned, Popped, Scheduling, Sorted, Settled, Tracked, Alive, Exited
<1>3. ASSUME NEW m \in Members, SkipReady(m) PROVE Settled'
  BY <1>3 DEF SkipReady, Considers, Launchable, world, TypeOK, Spawned, Popped, Scheduling, Sorted, Settled, Tracked, Alive, Exited
<1>4. ASSUME NEW m \in Members, RejectResume(m) PROVE Settled'
  BY <1>4 DEF RejectResume, Considers, Launchable, world, TypeOK, Spawned, Popped, Scheduling, Sorted, Settled, Tracked, Alive, Exited
<1>5. ASSUME NEW m \in Members, Spawn(m) PROVE Settled'
  BY <1>5 DEF Spawn, Considers, Launchable, book, TypeOK, Spawned, Popped, Scheduling, Sorted, Settled, Tracked, Alive, Exited
<1>6. CASE Track
  BY <1>6 DEF Track, world, TypeOK, Spawned, Popped, Scheduling, Sorted, Settled, Tracked, Alive, Exited
<1>7. ASSUME NEW m \in Members, SpawnFails(m) PROVE Settled'
  BY <1>7 DEF SpawnFails, Considers, Launchable, book, world, TypeOK, Spawned, Popped, Scheduling, Sorted, Settled, Tracked, Alive, Exited
<1>8. CASE EndPass
  BY <1>8 DEF EndPass, Verdict, book, world, TypeOK, Spawned, Popped, Scheduling, Sorted, Settled, Tracked, Alive, Exited
<1>9. ASSUME NEW m \in Members, Pop(m) PROVE Settled'
  BY <1>9 DEF Pop, world, TypeOK, Spawned, Popped, Scheduling, Sorted, Settled, Tracked, Alive, Exited
<1>10. CASE Judge
  BY <1>10 DEF Judge, world, TypeOK, Spawned, Popped, Scheduling, Sorted, Settled, Tracked, Alive, Exited
<1>11. CASE Reaped
  BY <1>11 DEF Reaped, book, world, TypeOK, Spawned, Popped, Scheduling, Sorted, Settled, Tracked, Alive, Exited
<1>12. CASE Return
  BY <1>12 DEF Return, Verdict, book, world, TypeOK, Spawned, Popped, Scheduling, Sorted, Settled, Tracked, Alive, Exited
<1>13. CASE Interrupt
  BY <1>13 DEF Interrupt, book, world, TypeOK, Spawned, Popped, Scheduling, Sorted, Settled, Tracked, Alive, Exited
<1>14. CASE SendTerm
  BY <1>14 DEF SendTerm, book, world, TypeOK, Spawned, Popped, Scheduling, Sorted, Settled, Tracked, Alive, Exited
<1>15. ASSUME NEW m \in Members, AwaitMember(m) PROVE Settled'
  BY <1>15 DEF AwaitMember, world, TypeOK, Spawned, Popped, Scheduling, Sorted, Settled, Tracked, Alive, Exited
<1>16. CASE Propagate
  BY <1>16 DEF Propagate, book, world, TypeOK, Spawned, Popped, Scheduling, Sorted, Settled, Tracked, Alive, Exited
<1>17. ASSUME NEW m \in Members, Member(m) PROVE Settled'
  BY <1>17, MemberStep DEF driver, book, TypeOK, Spawned, Popped, Scheduling, Sorted, Settled, Tracked, Alive, Exited
<1>18. CASE Others
  BY <1>18, QuietStep DEF Quiet, driver, book, TypeOK, Spawned, Popped, Scheduling, Sorted, Settled, Tracked, Alive, Exited
<1>. QED
  BY <1>1, <1>2, <1>3, <1>4, <1>5, <1>6, <1>7, <1>8, <1>9, <1>10, <1>11, <1>12, <1>13, <1>14, <1>15, <1>16, <1>17, <1>18 DEF Next, Driver, Others

(* The driver knows the processes it started.                              *)
LEMMA TrackingStep == IInv /\ [Next]_vars => Tracked'
<1>. SUFFICES ASSUME IInv, [Next]_vars PROVE Tracked'
  OBVIOUS
<1>. USE DEF IInv
<1>1. CASE NewPass
  BY <1>1 DEF NewPass, book, world, TypeOK, Spawned, Popped, Scheduling, Sorted, Tracked, Alive, Exited
<1>2. ASSUME NEW m \in Members, PassOver(m) PROVE Tracked'
  BY <1>2 DEF PassOver, Considers, Launchable, book, world, TypeOK, Spawned, Popped, Scheduling, Sorted, Tracked, Alive, Exited
<1>3. ASSUME NEW m \in Members, SkipReady(m) PROVE Tracked'
  BY <1>3 DEF SkipReady, Considers, Launchable, world, TypeOK, Spawned, Popped, Scheduling, Sorted, Tracked, Alive, Exited
<1>4. ASSUME NEW m \in Members, RejectResume(m) PROVE Tracked'
  BY <1>4 DEF RejectResume, Considers, Launchable, world, TypeOK, Spawned, Popped, Scheduling, Sorted, Tracked, Alive, Exited
<1>5. ASSUME NEW m \in Members, Spawn(m) PROVE Tracked'
  BY <1>5 DEF Spawn, Considers, Launchable, book, TypeOK, Spawned, Popped, Scheduling, Sorted, Tracked, Alive, Exited
<1>6. CASE Track
  BY <1>6 DEF Track, world, TypeOK, Spawned, Popped, Scheduling, Sorted, Tracked, Alive, Exited
<1>7. ASSUME NEW m \in Members, SpawnFails(m) PROVE Tracked'
  BY <1>7 DEF SpawnFails, Considers, Launchable, book, world, TypeOK, Spawned, Popped, Scheduling, Sorted, Tracked, Alive, Exited
<1>8. CASE EndPass
  BY <1>8 DEF EndPass, Verdict, book, world, TypeOK, Spawned, Popped, Scheduling, Sorted, Tracked, Alive, Exited
<1>9. ASSUME NEW m \in Members, Pop(m) PROVE Tracked'
  BY <1>9 DEF Pop, world, TypeOK, Spawned, Popped, Scheduling, Sorted, Tracked, Alive, Exited
<1>10. CASE Judge
  BY <1>10 DEF Judge, world, TypeOK, Spawned, Popped, Scheduling, Sorted, Tracked, Alive, Exited
<1>11. CASE Reaped
  BY <1>11 DEF Reaped, book, world, TypeOK, Spawned, Popped, Scheduling, Sorted, Tracked, Alive, Exited
<1>12. CASE Return
  BY <1>12 DEF Return, Verdict, book, world, TypeOK, Spawned, Popped, Scheduling, Sorted, Tracked, Alive, Exited
<1>13. CASE Interrupt
  BY <1>13 DEF Interrupt, book, world, TypeOK, Spawned, Popped, Scheduling, Sorted, Tracked, Alive, Exited
<1>14. CASE SendTerm
  BY <1>14 DEF SendTerm, book, world, TypeOK, Spawned, Popped, Scheduling, Sorted, Tracked, Alive, Exited
<1>15. ASSUME NEW m \in Members, AwaitMember(m) PROVE Tracked'
  BY <1>15 DEF AwaitMember, world, TypeOK, Spawned, Popped, Scheduling, Sorted, Tracked, Alive, Exited
<1>16. CASE Propagate
  BY <1>16 DEF Propagate, book, world, TypeOK, Spawned, Popped, Scheduling, Sorted, Tracked, Alive, Exited
<1>17. ASSUME NEW m \in Members, Member(m) PROVE Tracked'
  BY <1>17, MemberStep DEF driver, book, TypeOK, Spawned, Popped, Scheduling, Sorted, Tracked, Alive, Exited
<1>18. CASE Others
  BY <1>18, QuietStep DEF Quiet, driver, book, TypeOK, Spawned, Popped, Scheduling, Sorted, Tracked, Alive, Exited
<1>. QED
  BY <1>1, <1>2, <1>3, <1>4, <1>5, <1>6, <1>7, <1>8, <1>9, <1>10, <1>11, <1>12, <1>13, <1>14, <1>15, <1>16, <1>17, <1>18 DEF Next, Driver, Others

(* A member is started in a pass, before any failure.                      *)
LEMMA SpawningStep == IInv /\ [Next]_vars => Spawning'
<1>. SUFFICES ASSUME IInv, [Next]_vars PROVE Spawning'
  OBVIOUS
<1>. USE DEF IInv
<1>1. CASE NewPass
  BY <1>1 DEF NewPass, book, world, TypeOK, Spawned, Popped, Scheduling, Accounted, Spawning
<1>2. ASSUME NEW m \in Members, PassOver(m) PROVE Spawning'
  BY <1>2 DEF PassOver, Considers, Launchable, book, world, TypeOK, Spawned, Popped, Scheduling, Accounted, Spawning
<1>3. ASSUME NEW m \in Members, SkipReady(m) PROVE Spawning'
  BY <1>3 DEF SkipReady, Considers, Launchable, world, TypeOK, Spawned, Popped, Scheduling, Accounted, Spawning
<1>4. ASSUME NEW m \in Members, RejectResume(m) PROVE Spawning'
  BY <1>4 DEF RejectResume, Considers, Launchable, world, TypeOK, Spawned, Popped, Scheduling, Accounted, Spawning
<1>5. ASSUME NEW m \in Members, Spawn(m) PROVE Spawning'
  BY <1>5 DEF Spawn, Considers, Launchable, book, TypeOK, Spawned, Popped, Scheduling, Accounted, Spawning
<1>6. CASE Track
  BY <1>6 DEF Track, world, TypeOK, Spawned, Popped, Scheduling, Accounted, Spawning
<1>7. ASSUME NEW m \in Members, SpawnFails(m) PROVE Spawning'
  BY <1>7 DEF SpawnFails, Considers, Launchable, book, world, TypeOK, Spawned, Popped, Scheduling, Accounted, Spawning
<1>8. CASE EndPass
  BY <1>8 DEF EndPass, Verdict, book, world, TypeOK, Spawned, Popped, Scheduling, Accounted, Spawning
<1>9. ASSUME NEW m \in Members, Pop(m) PROVE Spawning'
  BY <1>9 DEF Pop, world, TypeOK, Spawned, Popped, Scheduling, Accounted, Spawning
<1>10. CASE Judge
  BY <1>10 DEF Judge, world, TypeOK, Spawned, Popped, Scheduling, Accounted, Spawning
<1>11. CASE Reaped
  BY <1>11 DEF Reaped, book, world, TypeOK, Spawned, Popped, Scheduling, Accounted, Spawning
<1>12. CASE Return
  BY <1>12 DEF Return, Verdict, book, world, TypeOK, Spawned, Popped, Scheduling, Accounted, Spawning
<1>13. CASE Interrupt
  BY <1>13 DEF Interrupt, book, world, TypeOK, Spawned, Popped, Scheduling, Accounted, Spawning
<1>14. CASE SendTerm
  BY <1>14 DEF SendTerm, book, world, TypeOK, Spawned, Popped, Scheduling, Accounted, Spawning
<1>15. ASSUME NEW m \in Members, AwaitMember(m) PROVE Spawning'
  BY <1>15 DEF AwaitMember, world, TypeOK, Spawned, Popped, Scheduling, Accounted, Spawning
<1>16. CASE Propagate
  BY <1>16 DEF Propagate, book, world, TypeOK, Spawned, Popped, Scheduling, Accounted, Spawning
<1>17. ASSUME NEW m \in Members, Member(m) PROVE Spawning'
  BY <1>17, MemberStep DEF driver, book, TypeOK, Spawned, Popped, Scheduling, Accounted, Spawning
<1>18. CASE Others
  BY <1>18, QuietStep DEF Quiet, driver, book, TypeOK, Spawned, Popped, Scheduling, Accounted, Spawning
<1>. QED
  BY <1>1, <1>2, <1>3, <1>4, <1>5, <1>6, <1>7, <1>8, <1>9, <1>10, <1>11, <1>12, <1>13, <1>14, <1>15, <1>16, <1>17, <1>18 DEF Next, Driver, Others

(* What a pass leaves behind waits for something.                         *)
LEMMA BlockingStep == IInv /\ [Next]_vars => Blocked'
<1>. SUFFICES ASSUME IInv, [Next]_vars PROVE Blocked'
  OBVIOUS
<1>. USE DEF IInv
<1>1. CASE NewPass
  BY <1>1 DEF NewPass, book, world, TypeOK, Blocked, Accounted, Spawning, Tracked, Spawned
<1>2. ASSUME NEW m \in Members, PassOver(m) PROVE Blocked'
  <2>1. running = {} => Cardinality(running) < Jobs
    BY FS_EmptySet
  <2>2. m \in pending => running # {} \/ Deps[m] \cap (pending \ scan') # {}
    BY <1>2, <2>1 DEF PassOver, Considers, Launchable, TypeOK
  <2>. QED
    BY <1>2, <2>2 DEF PassOver, Considers, book, TypeOK, Blocked, Accounted
<1>3. ASSUME NEW m \in Members, SkipReady(m) PROVE Blocked'
  BY <1>3 DEF SkipReady, Considers, Launchable, world, TypeOK, Blocked, Accounted, Spawning, Tracked, Spawned
<1>4. ASSUME NEW m \in Members, RejectResume(m) PROVE Blocked'
  BY <1>4 DEF RejectResume, Considers, Launchable, world, TypeOK, Blocked, Accounted, Spawning, Tracked, Spawned
<1>5. ASSUME NEW m \in Members, Spawn(m) PROVE Blocked'
  BY <1>5 DEF Spawn, Considers, Launchable, book, TypeOK, Blocked, Accounted, Spawning, Tracked, Spawned
<1>6. CASE Track
  BY <1>6 DEF Track, world, TypeOK, Blocked, Accounted, Spawning, Tracked, Spawned
<1>7. ASSUME NEW m \in Members, SpawnFails(m) PROVE Blocked'
  BY <1>7 DEF SpawnFails, Considers, Launchable, book, world, TypeOK, Blocked, Accounted, Spawning, Tracked, Spawned
<1>8. CASE EndPass
  BY <1>8 DEF EndPass, Verdict, book, world, TypeOK, Blocked, Accounted, Spawning, Tracked, Spawned
<1>9. ASSUME NEW m \in Members, Pop(m) PROVE Blocked'
  BY <1>9 DEF Pop, world, TypeOK, Blocked, Accounted, Spawning, Tracked, Spawned
<1>10. CASE Judge
  BY <1>10 DEF Judge, world, TypeOK, Blocked, Accounted, Spawning, Tracked, Spawned
<1>11. CASE Reaped
  BY <1>11 DEF Reaped, book, world, TypeOK, Blocked, Accounted, Spawning, Tracked, Spawned
<1>12. CASE Return
  BY <1>12 DEF Return, Verdict, book, world, TypeOK, Blocked, Accounted, Spawning, Tracked, Spawned
<1>13. CASE Interrupt
  BY <1>13 DEF Interrupt, book, world, TypeOK, Blocked, Accounted, Spawning, Tracked, Spawned
<1>14. CASE SendTerm
  BY <1>14 DEF SendTerm, book, world, TypeOK, Blocked, Accounted, Spawning, Tracked, Spawned
<1>15. ASSUME NEW m \in Members, AwaitMember(m) PROVE Blocked'
  BY <1>15 DEF AwaitMember, world, TypeOK, Blocked, Accounted, Spawning, Tracked, Spawned
<1>16. CASE Propagate
  BY <1>16 DEF Propagate, book, world, TypeOK, Blocked, Accounted, Spawning, Tracked, Spawned
<1>17. ASSUME NEW m \in Members, Member(m) PROVE Blocked'
  BY <1>17, MemberStep DEF driver, book, TypeOK, Blocked, Accounted, Spawning, Tracked, Spawned
<1>18. CASE Others
  BY <1>18, QuietStep DEF Quiet, driver, book, TypeOK, Blocked, Accounted, Spawning, Tracked, Spawned
<1>. QED
  BY <1>1, <1>2, <1>3, <1>4, <1>5, <1>6, <1>7, <1>8, <1>9, <1>10, <1>11, <1>12, <1>13, <1>14, <1>15, <1>16, <1>17, <1>18 DEF Next, Driver, Others

(* What is derived above nothing that is finished disturbs nothing that is.*)
LEMMA DerivedSpares ==
  ASSUME IInv, NEW m \in Members, Derived(m), m \notin done, done \subseteq ready
  PROVE  done \subseteq ready'
<1>. SUFFICES ASSUME NEW n \in done PROVE n \in ready'
  OBVIOUS
<1>1. Closed(done) /\ done \in SUBSET Members
  BY DEF IInv, Founded, Closed, TypeOK
<1>2. n \notin Above(m)
  BY <1>1 DEF Above
<1>. QED
  BY <1>2 DEF Derived, IInv, TypeOK

(* What is finished stays ready unless somebody takes it away.             *)
LEMMA StandingStep == IInv /\ [Next]_vars => Standing'
<1>. SUFFICES ASSUME IInv, [Next]_vars PROVE Standing'
  OBVIOUS
<1>. USE DEF IInv
<1>1. CASE NewPass
  BY <1>1 DEF NewPass, book, world, TypeOK, Standing
<1>2. ASSUME NEW m \in Members, PassOver(m) PROVE Standing'
  BY <1>2 DEF PassOver, Considers, Launchable, book, world, TypeOK, Standing
<1>3. ASSUME NEW m \in Members, SkipReady(m) PROVE Standing'
  BY <1>3 DEF SkipReady, Considers, Launchable, world, TypeOK, Standing
<1>4. ASSUME NEW m \in Members, RejectResume(m) PROVE Standing'
  BY <1>4 DEF RejectResume, Considers, Launchable, world, TypeOK, Standing
<1>5. ASSUME NEW m \in Members, Spawn(m) PROVE Standing'
  BY <1>5 DEF Spawn, Considers, Launchable, book, TypeOK, Standing
<1>6. CASE Track
  BY <1>6 DEF Track, world, TypeOK, Standing
<1>7. ASSUME NEW m \in Members, SpawnFails(m) PROVE Standing'
  BY <1>7 DEF SpawnFails, Considers, Launchable, book, world, TypeOK, Standing
<1>8. CASE EndPass
  BY <1>8 DEF EndPass, Verdict, book, world, TypeOK, Standing
<1>9. ASSUME NEW m \in Members, Pop(m) PROVE Standing'
  BY <1>9 DEF Pop, world, TypeOK, Standing
<1>10. CASE Judge
  BY <1>10 DEF Judge, world, TypeOK, Standing
<1>11. CASE Reaped
  BY <1>11 DEF Reaped, book, world, TypeOK, Standing
<1>12. CASE Return
  BY <1>12 DEF Return, Verdict, book, world, TypeOK, Standing
<1>13. CASE Interrupt
  BY <1>13 DEF Interrupt, book, world, TypeOK, Standing
<1>14. CASE SendTerm
  BY <1>14 DEF SendTerm, book, world, TypeOK, Standing
<1>15. ASSUME NEW m \in Members, AwaitMember(m) PROVE Standing'
  BY <1>15 DEF AwaitMember, world, TypeOK, Standing
<1>16. CASE Propagate
  BY <1>16 DEF Propagate, book, world, TypeOK, Standing
<1>17. ASSUME NEW m \in Members, Member(m) PROVE Standing'
  BY <1>17, MemberStep, DerivedSpares DEF driver, book, Standing, Settled
<1>18. CASE Others
  <2>1. CASE Disturb
    BY <2>1 DEF Disturb, Standing, TypeOK
  <2>2. ASSUME NEW m \in Members, ForeignEnds(m) PROVE Standing'
    BY <2>2, DerivedSpares DEF ForeignEnds, Standing, driver, book
  <2>3. CASE AllOver \/ UNCHANGED vars
    BY <2>3 DEF AllOver, vars, driver, book, world, Standing
  <2>. QED
    BY <1>18, <2>1, <2>2, <2>3 DEF Others
<1>. QED
  BY <1>1, <1>2, <1>3, <1>4, <1>5, <1>6, <1>7, <1>8, <1>9, <1>10, <1>11, <1>12, <1>13, <1>14, <1>15, <1>16, <1>17, <1>18 DEF Next, Driver, Others

(* A driver that returns has reaped everybody.                             *)
LEMMA ReapingStep == IInv /\ [Next]_vars => ReturnedMeansReaped'
<1>. SUFFICES ASSUME IInv, [Next]_vars PROVE ReturnedMeansReaped'
  OBVIOUS
<1>. USE DEF IInv
<1>1. CASE NewPass
  BY <1>1 DEF NewPass, book, world, TypeOK, Tracked, ReturnedMeansReaped, Alive, Exited, Spawned, Popped, Scheduling
<1>2. ASSUME NEW m \in Members, PassOver(m) PROVE ReturnedMeansReaped'
  BY <1>2 DEF PassOver, Considers, Launchable, book, world, TypeOK, Tracked, ReturnedMeansReaped, Alive, Exited, Spawned, Popped, Scheduling
<1>3. ASSUME NEW m \in Members, SkipReady(m) PROVE ReturnedMeansReaped'
  BY <1>3 DEF SkipReady, Considers, Launchable, world, TypeOK, Tracked, ReturnedMeansReaped, Alive, Exited, Spawned, Popped, Scheduling
<1>4. ASSUME NEW m \in Members, RejectResume(m) PROVE ReturnedMeansReaped'
  BY <1>4 DEF RejectResume, Considers, Launchable, world, TypeOK, Tracked, ReturnedMeansReaped, Alive, Exited, Spawned, Popped, Scheduling
<1>5. ASSUME NEW m \in Members, Spawn(m) PROVE ReturnedMeansReaped'
  BY <1>5 DEF Spawn, Considers, Launchable, book, TypeOK, Tracked, ReturnedMeansReaped, Alive, Exited, Spawned, Popped, Scheduling
<1>6. CASE Track
  BY <1>6 DEF Track, world, TypeOK, Tracked, ReturnedMeansReaped, Alive, Exited, Spawned, Popped, Scheduling
<1>7. ASSUME NEW m \in Members, SpawnFails(m) PROVE ReturnedMeansReaped'
  BY <1>7 DEF SpawnFails, Considers, Launchable, book, world, TypeOK, Tracked, ReturnedMeansReaped, Alive, Exited, Spawned, Popped, Scheduling
<1>8. CASE EndPass
  BY <1>8 DEF EndPass, Verdict, book, world, TypeOK, Tracked, ReturnedMeansReaped, Alive, Exited, Spawned, Popped, Scheduling
<1>9. ASSUME NEW m \in Members, Pop(m) PROVE ReturnedMeansReaped'
  BY <1>9 DEF Pop, world, TypeOK, Tracked, ReturnedMeansReaped, Alive, Exited, Spawned, Popped, Scheduling
<1>10. CASE Judge
  BY <1>10 DEF Judge, world, TypeOK, Tracked, ReturnedMeansReaped, Alive, Exited, Spawned, Popped, Scheduling
<1>11. CASE Reaped
  BY <1>11 DEF Reaped, book, world, TypeOK, Tracked, ReturnedMeansReaped, Alive, Exited, Spawned, Popped, Scheduling
<1>12. CASE Return
  BY <1>12 DEF Return, Verdict, book, world, TypeOK, Tracked, ReturnedMeansReaped, Alive, Exited, Spawned, Popped, Scheduling
<1>13. CASE Interrupt
  BY <1>13 DEF Interrupt, book, world, TypeOK, Tracked, ReturnedMeansReaped, Alive, Exited, Spawned, Popped, Scheduling
<1>14. CASE SendTerm
  BY <1>14 DEF SendTerm, book, world, TypeOK, Tracked, ReturnedMeansReaped, Alive, Exited, Spawned, Popped, Scheduling
<1>15. ASSUME NEW m \in Members, AwaitMember(m) PROVE ReturnedMeansReaped'
  BY <1>15 DEF AwaitMember, world, TypeOK, Tracked, ReturnedMeansReaped, Alive, Exited, Spawned, Popped, Scheduling
<1>16. CASE Propagate
  BY <1>16 DEF Propagate, book, world, TypeOK, Tracked, ReturnedMeansReaped, Alive, Exited, Spawned, Popped, Scheduling
<1>17. ASSUME NEW m \in Members, Member(m) PROVE ReturnedMeansReaped'
  BY <1>17, MemberStep DEF driver, book, TypeOK, Tracked, ReturnedMeansReaped, Alive, Exited, Spawned, Popped, Scheduling
<1>18. CASE Others
  BY <1>18, QuietStep DEF Quiet, driver, book, TypeOK, Tracked, ReturnedMeansReaped, Alive, Exited, Spawned, Popped, Scheduling
<1>. QED
  BY <1>1, <1>2, <1>3, <1>4, <1>5, <1>6, <1>7, <1>8, <1>9, <1>10, <1>11, <1>12, <1>13, <1>14, <1>15, <1>16, <1>17, <1>18 DEF Next, Driver, Others

(* A pass that leaves members behind has a process to wait for.            *)
LEMMA StallingStep == IInv /\ [Next]_vars => NeverStalls'
<1>. SUFFICES ASSUME IInv, [Next]_vars PROVE NeverStalls'
  OBVIOUS
<1>. USE DEF IInv
<1>1. CASE NewPass
  BY <1>1 DEF NewPass, book, world, NeverStalls, Tracked
<1>2. ASSUME NEW m \in Members, PassOver(m) PROVE NeverStalls'
  BY <1>2 DEF PassOver, Considers, Launchable, book, world, NeverStalls, Tracked
<1>3. ASSUME NEW m \in Members, SkipReady(m) PROVE NeverStalls'
  BY <1>3 DEF SkipReady, Considers, Launchable, world, NeverStalls, Tracked
<1>4. ASSUME NEW m \in Members, RejectResume(m) PROVE NeverStalls'
  BY <1>4 DEF RejectResume, Considers, Launchable, world, NeverStalls, Tracked
<1>5. ASSUME NEW m \in Members, Spawn(m) PROVE NeverStalls'
  BY <1>5 DEF Spawn, Considers, Launchable, book, NeverStalls, Tracked
<1>6. CASE Track
  BY <1>6 DEF Track, world, NeverStalls, Tracked
<1>7. ASSUME NEW m \in Members, SpawnFails(m) PROVE NeverStalls'
  BY <1>7 DEF SpawnFails, Considers, Launchable, book, world, NeverStalls, Tracked
<1>8. CASE EndPass
  <2>1. SUFFICES ASSUME pending # {}, ~failed, running = {} PROVE FALSE
    BY <1>8 DEF EndPass, NeverStalls, Verdict
  <2>2. PICK m \in pending : Deps[m] \cap pending = {}
    BY <2>1 DEF TypeOK
  <2>3. Deps[m] \cap (pending \ scan) # {}
    BY <1>8, <2>1 DEF EndPass, Blocked
  <2>. QED
    BY <2>2, <2>3
<1>9. ASSUME NEW m \in Members, Pop(m) PROVE NeverStalls'
  BY <1>9 DEF Pop, world, NeverStalls, Tracked
<1>10. CASE Judge
  BY <1>10 DEF Judge, world, NeverStalls, Tracked
<1>11. CASE Reaped
  BY <1>11 DEF Reaped, book, world, NeverStalls, Tracked
<1>12. CASE Return
  BY <1>12 DEF Return, Verdict, book, world, NeverStalls, Tracked
<1>13. CASE Interrupt
  BY <1>13 DEF Interrupt, book, world, NeverStalls, Tracked
<1>14. CASE SendTerm
  BY <1>14 DEF SendTerm, book, world, NeverStalls, Tracked
<1>15. ASSUME NEW m \in Members, AwaitMember(m) PROVE NeverStalls'
  BY <1>15 DEF AwaitMember, world, NeverStalls, Tracked
<1>16. CASE Propagate
  BY <1>16 DEF Propagate, book, world, NeverStalls, Tracked
<1>17. ASSUME NEW m \in Members, Member(m) PROVE NeverStalls'
  BY <1>17, MemberStep DEF driver, book, NeverStalls, Tracked
<1>18. CASE Others
  BY <1>18, QuietStep DEF Quiet, driver, book, NeverStalls, Tracked
<1>. QED
  BY <1>1, <1>2, <1>3, <1>4, <1>5, <1>6, <1>7, <1>8, <1>9, <1>10, <1>11, <1>12, <1>13, <1>14, <1>15, <1>16, <1>17, <1>18 DEF Next, Driver, Others

(* Fewer processes and a smaller count keep the bound.                     *)
LEMMA Shrinking ==
  ASSUME IInv, Alive' \subseteq Alive,
         Scheduling' => Scheduling /\ running' \cup Spawned' \subseteq running \cup Spawned
  PROVE  Bounded'
<1>1. /\ Alive \subseteq Members /\ IsFiniteSet(Alive)
      /\ running \cup Spawned \subseteq Members /\ IsFiniteSet(running \cup Spawned)
  BY FS_Subset DEF IInv, TypeOK, Sorted, Alive
<1>2. /\ Cardinality(Alive') \in Nat /\ Cardinality(Alive) \in Nat
      /\ Cardinality(Alive') <= Cardinality(Alive)
  BY <1>1, FS_Subset, FS_CardinalityType
<1>3. Scheduling' => /\ Cardinality(running' \cup Spawned') \in Nat
                     /\ Cardinality(running \cup Spawned) \in Nat
                     /\ Cardinality(running' \cup Spawned') <= Cardinality(running \cup Spawned)
  BY <1>1, FS_Subset, FS_CardinalityType
<1>4. Cardinality(Alive') <= Jobs
  BY <1>2 DEF IInv, Bounded
<1>5. Scheduling' => Cardinality(running' \cup Spawned') <= Jobs
  BY <1>3 DEF IInv, Bounded
<1>. QED
  BY <1>4, <1>5 DEF Bounded

(* The processes alive are never more than those the driver counts.        *)
LEMMA BoundingStep == IInv /\ [Next]_vars => Bounded'
<1>. SUFFICES ASSUME IInv, [Next]_vars PROVE Bounded'
  OBVIOUS
<1>. USE DEF IInv
<1>1. CASE NewPass
  BY <1>1, Shrinking DEF NewPass, book, TypeOK, Sorted, Spawned, Scheduling, Alive
<1>2. ASSUME NEW m \in Members, PassOver(m) PROVE Bounded'
  BY <1>2, Shrinking DEF PassOver, Considers, Launchable, book, TypeOK, Sorted, Spawned, Scheduling, Alive
<1>3. ASSUME NEW m \in Members, SkipReady(m) PROVE Bounded'
  BY <1>3, Shrinking DEF SkipReady, Considers, Launchable, TypeOK, Sorted, Spawned, Scheduling, Alive
<1>4. ASSUME NEW m \in Members, RejectResume(m) PROVE Bounded'
  BY <1>4, Shrinking DEF RejectResume, Considers, Launchable, TypeOK, Sorted, Spawned, Scheduling, Alive
<1>5. ASSUME NEW m \in Members, Spawn(m) PROVE Bounded'
  <2>1. IsFiniteSet(running) /\ Cardinality(running \cup {m}) = Cardinality(running) + 1
    BY <1>5, FS_Subset, FS_AddElement DEF Spawn, Considers, Launchable, TypeOK, Sorted
  <2>2. Cardinality(running \cup {m}) <= Jobs
    BY <1>5, <2>1, FS_CardinalityType DEF Spawn, Launchable
  <2>3. Alive' \subseteq running \cup {m} /\ running' \cup Spawned' = running \cup {m}
    BY <1>5 DEF Spawn, Considers, Alive, Tracked, Scheduling, Spawned, TypeOK, book
  <2>4. IsFiniteSet(running \cup {m}) /\ IsFiniteSet(Alive')
        /\ Cardinality(Alive') <= Cardinality(running \cup {m})
    BY <2>1, <2>3, FS_Subset, FS_AddElement
  <2>5. Cardinality(Alive') <= Jobs
    BY <2>2, <2>4, FS_CardinalityType
  <2>. QED
    BY <2>2, <2>3, <2>5 DEF Bounded
<1>6. CASE Track
  BY <1>6, Shrinking DEF Track, TypeOK, Sorted, Spawned, Scheduling, Alive
<1>7. ASSUME NEW m \in Members, SpawnFails(m) PROVE Bounded'
  BY <1>7, Shrinking DEF SpawnFails, Considers, Launchable, book, TypeOK, Sorted, Spawned, Scheduling, Alive
<1>8. CASE EndPass
  BY <1>8, Shrinking DEF EndPass, Verdict, book, TypeOK, Sorted, Spawned, Scheduling, Alive
<1>9. ASSUME NEW m \in Members, Pop(m) PROVE Bounded'
  BY <1>9, Shrinking DEF Pop, TypeOK, Sorted, Spawned, Scheduling, Alive
<1>10. CASE Judge
  BY <1>10, Shrinking DEF Judge, TypeOK, Sorted, Spawned, Scheduling, Alive
<1>11. CASE Reaped
  BY <1>11, Shrinking DEF Reaped, book, TypeOK, Sorted, Spawned, Scheduling, Alive
<1>12. CASE Return
  BY <1>12, Shrinking DEF Return, Verdict, book, TypeOK, Sorted, Spawned, Scheduling, Alive
<1>13. CASE Interrupt
  BY <1>13, Shrinking DEF Interrupt, book, TypeOK, Sorted, Spawned, Scheduling, Alive
<1>14. CASE SendTerm
  BY <1>14, Shrinking DEF SendTerm, book, TypeOK, Sorted, Spawned, Scheduling, Alive
<1>15. ASSUME NEW m \in Members, AwaitMember(m) PROVE Bounded'
  BY <1>15, Shrinking DEF AwaitMember, TypeOK, Sorted, Spawned, Scheduling, Alive
<1>16. CASE Propagate
  BY <1>16, Shrinking DEF Propagate, book, TypeOK, Sorted, Spawned, Scheduling, Alive
<1>17. ASSUME NEW m \in Members, Member(m) PROVE Bounded'
  BY <1>17, MemberStep, Shrinking DEF driver, book, TypeOK, Spawned, Scheduling, Alive
<1>18. CASE Others
  BY <1>18, QuietStep, Shrinking DEF Quiet, driver, book, Spawned, Scheduling, Alive
<1>. QED
  BY <1>1, <1>2, <1>3, <1>4, <1>5, <1>6, <1>7, <1>8, <1>9, <1>10, <1>11, <1>12, <1>13, <1>14, <1>15, <1>16, <1>17, <1>18 DEF Next, Driver, Others

-----------------------------------------------------------------------------
LEMMA Initially == Init => IInv
<1>. SUFFICES ASSUME Init PROVE IInv
  OBVIOUS
<1>1. Alive = {} /\ Cardinality(Alive) = 0
  BY FS_EmptySet DEF Init, Alive
<1>2. TypeOK
  <2>1. held \subseteq Members /\ prior \subseteq Members /\ entry \subseteq prior
    BY DEF Init
  <2>2. proc \in [Members -> {"none", "starting", "deriving", "exit0", "exit1"}]
    BY DEF Init
  <2>3. interrupts \in 0 .. MaxInterrupts /\ disturbances \in 0 .. MaxDisturbances
    BY DEF Init
  <2>4. /\ pc = "loop" /\ pending = Members /\ running = {} /\ done = {} /\ scan = {}
        /\ exited = {} /\ hand = Nobody /\ failed = FALSE /\ recorded = {} /\ outcome = "none"
        /\ termed = {} /\ ready \subseteq Members
    BY DEF Init
  <2>. QED
    BY <2>1, <2>2, <2>3, <2>4 DEF TypeOK
<1>3. Bounded
  <2>1. running \cup Spawned = {}
    BY DEF Init, Spawned
  <2>2. Cardinality(running \cup Spawned) = 0
    BY <2>1, FS_EmptySet
  <2>3. 0 <= Jobs
    OBVIOUS
  <2>. QED
    BY <1>1, <2>2, <2>3 DEF Bounded
<1>4. Sorted /\ Accounted /\ Founded /\ Settled /\ Spawning
  BY DEF Init, Sorted, Accounted, Founded, Settled, Spawning, Spawned, Popped, Scheduling
<1>5. Tracked
  BY <1>1 DEF Init, Tracked, Spawned, Popped
<1>6. Blocked /\ Standing /\ ReturnedMeansReaped /\ NeverStalls
  BY DEF Init, Blocked, Standing, ReturnedMeansReaped, NeverStalls
<1>. QED
  BY <1>2, <1>3, <1>4, <1>5, <1>6 DEF IInv

(* The invariant of the scheduler.                                         *)
THEOREM Invariance == Spec => []IInv
<1>1. IInv /\ [Next]_vars => IInv'
  BY TypingStep, SortingStep, AccountingStep, FoundingStep, SettlingStep, TrackingStep,
     BoundingStep, BlockingStep, SpawningStep, StandingStep, ReapingStep, StallingStep DEF IInv
<1>. QED
  BY Initially, <1>1, PTL DEF Spec

(* Every variable keeps its type, for every closure and every bound.       *)
THEOREM Typing == Spec => []TypeOK
<1>1. IInv => TypeOK
  BY DEF IInv
<1>. QED
  BY <1>1, Invariance, PTL

(* No member is started or counted as finished before everything it        *)
(* depends on has finished, in every acyclic closure.                      *)
THEOREM OnDone == Spec => []StandsOnDone
<1>1. IInv => StandsOnDone
  BY DEF IInv, Founded, StandsOnDone
<1>. QED
  BY <1>1, Invariance, PTL

(* At most --jobs processes are alive, an interrupt's leftovers included.  *)
THEOREM Bound == Spec => []JobsBound
<1>1. IInv => JobsBound
  BY DEF IInv, Bounded, JobsBound
<1>. QED
  BY <1>1, Invariance, PTL

(* A driver that returns has reaped and recorded every process.            *)
THEOREM Reaping == Spec => []ReturnedMeansReaped
<1>1. IInv => ReturnedMeansReaped
  BY DEF IInv
<1>. QED
  BY <1>1, Invariance, PTL

(* The stalled return is unreachable, as the code says.                    *)
THEOREM NoStall == Spec => []NeverStalls
<1>1. IInv => NeverStalls
  BY DEF IInv
<1>. QED
  BY <1>1, Invariance, PTL

(* A successful return means that the whole closure is ready at once, if   *)
(* nobody took outputs away meanwhile.                                     *)
THEOREM Readiness == Spec => []SuccessMeansReady
<1>1. IInv => SuccessMeansReady
  BY DEF IInv, Standing, Accounted, TypeOK, SuccessMeansReady
<1>. QED
  BY <1>1, Invariance, PTL

(* After a failure or an interrupt no process is started.                  *)
THEOREM NoStart == Spec => NothingStartsAfterFailure
<1>1. IInv /\ [Next]_vars =>
        [failed \/ pc \in {"term", "await", "out"} =>
           \A m \in Members : proc[m] = "none" => proc'[m] = "none"]_vars
  <2>. SUFFICES ASSUME IInv, Next, failed \/ pc \in {"term", "await", "out"},
                       NEW m \in Members, proc[m] = "none"
                PROVE  proc'[m] = "none"
    OBVIOUS
  <2>1. ASSUME NEW n \in Members, Spawn(n) PROVE FALSE
    BY <2>1 DEF Spawn, Considers, IInv, Accounted
  <2>2. ASSUME NEW n \in Members, AwaitMember(n) PROVE proc'[m] = "none"
    BY <2>2 DEF AwaitMember, IInv, Tracked, TypeOK
  <2>3. ASSUME NEW n \in Members, Member(n) PROVE proc'[m] = "none"
    BY <2>3, MemberStep DEF IInv, TypeOK, Alive
  <2>4. CASE Others
    BY <2>4, QuietStep DEF Quiet
  <2>5. CASE UNCHANGED proc
    BY <2>5
  <2>. QED
    BY <2>1, <2>2, <2>3, <2>4, <2>5 DEF Next, Driver, Others, NewPass, PassOver, SkipReady,
       RejectResume, Track, SpawnFails, EndPass, Pop, Judge, Reaped, Return, Interrupt, SendTerm,
       Propagate
<1>. QED
  BY <1>1, Invariance, PTL DEF Spec, NothingStartsAfterFailure
=============================================================================
