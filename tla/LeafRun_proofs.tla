--------------------------- MODULE LeafRun_proofs ---------------------------
(* Proofs about the processes the driver supervises: a leaf on the host,    *)
(* and the job of a Build or a Validate.execute at a remote site.          *)
EXTENDS LeafRun, RemoteJob, WellFoundedInduction, TLAPS

(* The types, of the streams and of the rest.                              *)
Streams ==
  /\ pipe \in Seq(Lines) /\ Len(pipe) <= PipeCap
  /\ queue \in Seq(Lines \cup {"EOF"}) /\ Len(queue) <= QueueCap
  /\ held \in Lines \cup {None} /\ (pump = "put" => held # None)

Processes ==
  /\ backend \in Backends /\ leaf \in {"runs", "exited", "reaped"}
  /\ code \in {"none", "zero", "bad"} /\ killed \subseteq {"leaf", "kin"}
  /\ kin \in {"none", "near", "far", "detached"}
  /\ stranger \in {"none", "lives", "unseen", "caught", "hit"}
  /\ pump \in {"off", "read", "put", "eof", "ends", "dead"} /\ err \in {"off", "reads", "dead"}
  /\ stop \in BOOLEAN /\ told \in BOOLEAN

Place ==
  /\ pc \in TryPoints \cup {"start", "result", "unwind", "join", "escape", "done"}
  /\ sig \in {"TERM", "KILL"} /\ back \in {"none", "reap", "giveup", "finish2", "join"}
  /\ (pc \in {"look", "signal", "grace"} => back # "none")
  /\ target \in BOOLEAN /\ late \in BOOLEAN

Locals ==
  /\ due \in BOOLEAN /\ abandoned \in BOOLEAN
  /\ why \in {"none", "cancelled", "timeout", "regerror", "unrecorded", "raised"}
  /\ pre \in {"none", "zero", "bad"} /\ rc \in {"none", "zero", "bad"}
  /\ {thread, drained, bound} \subseteq Threads \cup {None}
  /\ heard \subseteq Events /\ said \subseteq Kinds /\ lines \in 0 .. MaxLines
  /\ result \in {"none", "answer", "failed", "timeout", "cancelled", "regerror", "unrecorded",
                 "nothread", "raised"}

LEMMA TypeParts == TypeOK <=> Streams /\ Processes /\ Place /\ Locals
  BY DEF TypeOK, Streams, Processes, Place, Locals

LEMMA SequencesTyped ==
  ASSUME NEW S, NEW s \in Seq(S)
  PROVE  /\ \A x \in S : Append(s, x) \in Seq(S) /\ Len(Append(s, x)) = Len(s) + 1
         /\ s # <<>> => Head(s) \in S /\ Tail(s) \in Seq(S) /\ Len(Tail(s)) = Len(s) - 1
  OBVIOUS

LEMMA QueueTyped ==
  ASSUME Streams, queue # <<>>
  PROVE  Head(queue) \in Kinds \cup {"noise", "EOF"}
  BY SequencesTyped DEF Streams, Lines

LEMMA StreamsTyped == Streams /\ Processes /\ Place /\ Locals /\ [Next]_vars => Streams'
<1> SUFFICES ASSUME Streams /\ Processes /\ Place /\ Locals, [Next]_vars PROVE Streams'
  OBVIOUS
<1> USE LeafAssumption
<1>1. CASE LeafLeaks
  BY <1>1 DEF LeafLeaks, Streams, Lines, process, reader, teardown, reading, turn, ghosts
<1>2. CASE LeafExits
  BY <1>2 DEF LeafExits, Streams, Lines, process, reader, teardown, reading, turn, ghosts
<1>3. CASE KinFloods
  BY <1>3, SequencesTyped DEF KinFloods, Streams, Lines, process, reader, teardown, reading, turn, ghosts
<1>4. CASE KinEnds
  BY <1>4 DEF KinEnds, Streams, Lines, process, reader, teardown, reading, turn, ghosts
<1>5. CASE PidIsReused
  BY <1>5 DEF PidIsReused, Streams, Lines, process, reader, teardown, reading, turn, ghosts
<1>6. CASE PumpReads
  <2>1. pipe' \in Seq(Lines) /\ Len(pipe') <= PipeCap /\ Head(pipe) \in Lines
    BY <1>6, SequencesTyped DEF PumpReads, Streams
  <2>2. None \notin Lines
    BY LeafAssumption DEF Lines, Kinds, Threads
  <2>3. held' \in Lines \cup {None} /\ (pump' = "put" => held' # None) /\ UNCHANGED queue
    BY <1>6, <2>1, <2>2 DEF PumpReads
  <2> QED BY <2>1, <2>3 DEF Streams
<1>7. CASE PumpAtEof
  BY <1>7 DEF PumpAtEof, Streams, Lines, process, reader, teardown, reading, turn, ghosts
<1>8. CASE PumpPuts
  <2>1. UNCHANGED pipe /\ held' = None /\ pump' # "put"
    BY <1>8 DEF PumpPuts
  <2>2. \A x \in Lines \cup {"EOF"} :
          Append(queue, x) \in Seq(Lines \cup {"EOF"}) /\ Len(Append(queue, x)) = Len(queue) + 1
    BY SequencesTyped DEF Streams
  <2>3. queue' \in Seq(Lines \cup {"EOF"}) /\ Len(queue') <= QueueCap
    BY <1>8, <2>2, SMTT(60) DEF PumpPuts, Streams
  <2> QED BY <2>1, <2>3 DEF Streams
<1>9. CASE PumpEnds
  BY <1>9 DEF PumpEnds, Streams, Lines, process, reader, teardown, reading, turn, ghosts
<1>10. CASE ErrEnds
  BY <1>10 DEF ErrEnds, Streams, Lines, process, reader, teardown, reading, turn, ghosts
<1>11. CASE Look
  BY <1>11 DEF Look, Streams, Lines, process, reader, teardown, reading, turn, ghosts
<1>12. CASE Signal
  BY <1>12 DEF Signal, Streams, Lines, process, reader, teardown, reading, turn, ghosts
<1>13. CASE GoneWithin
  BY <1>13 DEF GoneWithin, GoBack, Escalate, Reaped, Streams, Lines, process, reader, teardown, reading, turn, ghosts
<1>14. CASE StartReader
  BY <1>14 DEF StartReader, Raise, Forget, Kept, Streams, Lines, process, reader, teardown, reading, turn, ghosts
<1>15. CASE Unwind
  BY <1>15 DEF Unwind, Terminate, Streams, Lines, process, reader, teardown, reading, turn, ghosts
<1>16. CASE Join
  BY <1>16 DEF Join, Streams, Lines, process, reader, teardown, reading, turn, ghosts
<1>17. CASE LookBeforeWait
  BY <1>17 DEF LookBeforeWait, Streams, Lines, process, reader, teardown, reading, turn, ghosts
<1>18. CASE Get
  BY <1>18, SequencesTyped, QueueTyped, SMTT(60) DEF Get, Took, Bind, Threads, Streams, Lines, process, reader, teardown, reading, turn, ghosts
<1>19. CASE GetRaises
  BY <1>19, SequencesTyped, QueueTyped DEF GetRaises, Raise, Forget, Streams, Lines, process, reader, teardown, reading, turn, ghosts
<1>20. CASE AwaitExit
  BY <1>20 DEF AwaitExit, Streams, Lines, process, reader, teardown, reading, turn, ghosts
<1>21. CASE PollThenKill
  BY <1>21 DEF PollThenKill, Reaped, Terminate, Streams, Lines, process, reader, teardown, reading, turn, ghosts
<1>22. CASE Reap
  BY <1>22 DEF Reap, Reaped, Streams, Lines, process, reader, teardown, reading, turn, ghosts
<1>23. CASE Drain
  <2>1. UNCHANGED <<pipe, held, pump>>
    BY <1>23 DEF Drain
  <2>2. queue' \in Seq(Lines \cup {"EOF"}) /\ Len(queue') <= QueueCap
    <3>1. queue' = queue \/ (queue # <<>> /\ queue' = Tail(queue))
      BY <1>23 DEF Drain
    <3>2. queue \in Seq(Lines \cup {"EOF"}) /\ Len(queue) <= QueueCap /\ Len(queue) \in Nat
      BY DEF Streams
    <3>3. queue # <<>> => Tail(queue) \in Seq(Lines \cup {"EOF"}) /\ Len(Tail(queue)) = Len(queue) - 1
      BY <3>2, SequencesTyped
    <3> QED BY <3>1, <3>2, <3>3
  <2> QED BY <2>1, <2>2 DEF Streams
<1>24. CASE DrainRaises
  BY <1>24, SequencesTyped, QueueTyped DEF DrainRaises, Raise, Forget, Streams, Lines, process, reader, teardown, reading, turn, ghosts
<1>25. CASE LookAtPump
  BY <1>25 DEF LookAtPump, Streams, Lines, process, reader, teardown, reading, turn, ghosts
<1>26. CASE JoinErr
  BY <1>26 DEF JoinErr, Terminate, Streams, Lines, process, reader, teardown, reading, turn, ghosts
<1>27. CASE GiveUp
  BY <1>27 DEF GiveUp, Streams, Lines, process, reader, teardown, reading, turn, ghosts
<1>28. CASE Flush
  BY <1>28, SequencesTyped DEF Flush, Streams, Lines, process, reader, teardown, reading, turn, ghosts
<1>29. CASE BindDrained
  BY <1>29 DEF BindDrained, Bind, Unbound, Streams, Lines, process, reader, teardown, reading, turn, ghosts
<1>30. CASE Conclude
  BY <1>30 DEF Conclude, Verdict, Streams, Lines, process, reader, teardown, reading, turn, ghosts
<1>31. CASE WaitForExit
  BY <1>31 DEF WaitForExit, Terminate, Streams, Lines, process, reader, teardown, reading, turn, ghosts
<1>32. CASE FinishStreams
  BY <1>32 DEF FinishStreams, Terminate, Streams, Lines, process, reader, teardown, reading, turn, ghosts
<1>33. CASE Return
  BY <1>33 DEF Return, Streams, Lines, process, reader, teardown, reading, turn, ghosts
<1>34. CASE Interrupted
  BY <1>34 DEF Interrupted, Raise, Forget, Streams, Lines, process, reader, teardown, reading, turn, ghosts
<1>35. CASE Tick
  BY <1>35 DEF Tick, Streams, Lines, process, reader, teardown, reading, turn, ghosts
<1>36. CASE \E k \in Kinds : LeafWrites(k)
  BY <1>36, SequencesTyped DEF LeafWrites, Streams, Lines, process, reader, teardown, reading, turn, ghosts
<1>37. CASE UNCHANGED vars
  BY <1>37 DEF vars, Streams, Lines, process, reader, teardown, reading, turn, ghosts
<1> QED
  BY <1>1, <1>2, <1>3, <1>4, <1>5, <1>6, <1>7, <1>8, <1>9, <1>10, <1>11, <1>12,
     <1>13, <1>14, <1>15, <1>16, <1>17, <1>18, <1>19, <1>20, <1>21, <1>22, <1>23, <1>24,
     <1>25, <1>26, <1>27, <1>28, <1>29, <1>30, <1>31, <1>32, <1>33, <1>34, <1>35, <1>36, <1>37
  DEF Next, Leaf, Pump, Conductor, Group, Way, Codex, Claude

LEMMA ProcessesTyped == Streams /\ Processes /\ Place /\ Locals /\ [Next]_vars => Processes'
<1> SUFFICES ASSUME Streams /\ Processes /\ Place /\ Locals, [Next]_vars PROVE Processes'
  OBVIOUS
<1> USE LeafAssumption
<1>1. CASE LeafLeaks
  BY <1>1 DEF LeafLeaks, Processes, process, reader, teardown, reading, turn, ghosts
<1>2. CASE LeafExits
  BY <1>2 DEF LeafExits, Processes, process, reader, teardown, reading, turn, ghosts
<1>3. CASE KinFloods
  BY <1>3 DEF KinFloods, Processes, process, reader, teardown, reading, turn, ghosts
<1>4. CASE KinEnds
  BY <1>4 DEF KinEnds, Processes, process, reader, teardown, reading, turn, ghosts
<1>5. CASE PidIsReused
  BY <1>5 DEF PidIsReused, Processes, process, reader, teardown, reading, turn, ghosts
<1>6. CASE PumpReads
  BY <1>6 DEF PumpReads, Processes, process, reader, teardown, reading, turn, ghosts
<1>7. CASE PumpAtEof
  BY <1>7 DEF PumpAtEof, Processes, process, reader, teardown, reading, turn, ghosts
<1>8. CASE PumpPuts
  BY <1>8 DEF PumpPuts, Processes, process, reader, teardown, reading, turn, ghosts
<1>9. CASE PumpEnds
  BY <1>9 DEF PumpEnds, Processes, process, reader, teardown, reading, turn, ghosts
<1>10. CASE ErrEnds
  BY <1>10 DEF ErrEnds, Processes, process, reader, teardown, reading, turn, ghosts
<1>11. CASE Look
  BY <1>11 DEF Look, Processes, process, reader, teardown, reading, turn, ghosts
<1>12. CASE Signal
  BY <1>12 DEF Signal, Processes, process, reader, teardown, reading, turn, ghosts
<1>13. CASE GoneWithin
  BY <1>13 DEF GoneWithin, GoBack, Escalate, Reaped, Processes, process, reader, teardown, reading, turn, ghosts
<1>14. CASE StartReader
  BY <1>14 DEF StartReader, Raise, Forget, Kept, Processes, process, reader, teardown, reading, turn, ghosts
<1>15. CASE Unwind
  BY <1>15 DEF Unwind, Terminate, Processes, process, reader, teardown, reading, turn, ghosts
<1>16. CASE Join
  BY <1>16 DEF Join, Processes, process, reader, teardown, reading, turn, ghosts
<1>17. CASE LookBeforeWait
  BY <1>17 DEF LookBeforeWait, Processes, process, reader, teardown, reading, turn, ghosts
<1>18. CASE Get
  BY <1>18, QueueTyped DEF Get, Took, Bind, Threads, Processes, process, reader, teardown, reading, turn, ghosts
<1>19. CASE GetRaises
  BY <1>19, QueueTyped DEF GetRaises, Raise, Forget, Processes, process, reader, teardown, reading, turn, ghosts
<1>20. CASE AwaitExit
  BY <1>20 DEF AwaitExit, Processes, process, reader, teardown, reading, turn, ghosts
<1>21. CASE PollThenKill
  BY <1>21 DEF PollThenKill, Reaped, Terminate, Processes, process, reader, teardown, reading, turn, ghosts
<1>22. CASE Reap
  BY <1>22 DEF Reap, Reaped, Processes, process, reader, teardown, reading, turn, ghosts
<1>23. CASE Drain
  BY <1>23, QueueTyped DEF Drain, Leftover, AfterLine, Threads, Processes, process, reader, teardown, reading, turn, ghosts
<1>24. CASE DrainRaises
  BY <1>24, QueueTyped DEF DrainRaises, Raise, Forget, Processes, process, reader, teardown, reading, turn, ghosts
<1>25. CASE LookAtPump
  BY <1>25 DEF LookAtPump, Processes, process, reader, teardown, reading, turn, ghosts
<1>26. CASE JoinErr
  BY <1>26 DEF JoinErr, Terminate, Processes, process, reader, teardown, reading, turn, ghosts
<1>27. CASE GiveUp
  <2>1. UNCHANGED <<process, backend, pump, err, told>> /\ stop' \in BOOLEAN
    BY <1>27 DEF GiveUp, Processes, teardown, turn, ghosts
  <2> QED BY <2>1 DEF Processes, process
<1>28. CASE Flush
  BY <1>28 DEF Flush, Processes, process, reader, teardown, reading, turn, ghosts
<1>29. CASE BindDrained
  BY <1>29 DEF BindDrained, Bind, Unbound, Processes, process, reader, teardown, reading, turn, ghosts
<1>30. CASE Conclude
  BY <1>30 DEF Conclude, Verdict, Processes, process, reader, teardown, reading, turn, ghosts
<1>31. CASE WaitForExit
  BY <1>31 DEF WaitForExit, Terminate, Processes, process, reader, teardown, reading, turn, ghosts
<1>32. CASE FinishStreams
  BY <1>32 DEF FinishStreams, Terminate, Processes, process, reader, teardown, reading, turn, ghosts
<1>33. CASE Return
  BY <1>33 DEF Return, Processes, process, reader, teardown, reading, turn, ghosts
<1>34. CASE Interrupted
  BY <1>34 DEF Interrupted, Raise, Forget, Processes, process, reader, teardown, reading, turn, ghosts
<1>35. CASE Tick
  BY <1>35 DEF Tick, Processes, process, reader, teardown, reading, turn, ghosts
<1>36. CASE \E k \in Kinds : LeafWrites(k)
  BY <1>36 DEF LeafWrites, Processes, process, reader, teardown, reading, turn, ghosts
<1>37. CASE UNCHANGED vars
  BY <1>37 DEF vars, Processes, process, reader, teardown, reading, turn, ghosts
<1> QED
  BY <1>1, <1>2, <1>3, <1>4, <1>5, <1>6, <1>7, <1>8, <1>9, <1>10, <1>11, <1>12,
     <1>13, <1>14, <1>15, <1>16, <1>17, <1>18, <1>19, <1>20, <1>21, <1>22, <1>23, <1>24,
     <1>25, <1>26, <1>27, <1>28, <1>29, <1>30, <1>31, <1>32, <1>33, <1>34, <1>35, <1>36, <1>37
  DEF Next, Leaf, Pump, Conductor, Group, Way, Codex, Claude

LEMMA PlaceTyped == Streams /\ Processes /\ Place /\ Locals /\ [Next]_vars => Place'
<1> SUFFICES ASSUME Streams /\ Processes /\ Place /\ Locals, [Next]_vars PROVE Place'
  OBVIOUS
<1> USE LeafAssumption
<1>1. CASE LeafLeaks
  BY <1>1 DEF LeafLeaks, Place, TryPoints, process, reader, teardown, reading, turn, ghosts
<1>2. CASE LeafExits
  BY <1>2 DEF LeafExits, Place, TryPoints, process, reader, teardown, reading, turn, ghosts
<1>3. CASE KinFloods
  BY <1>3 DEF KinFloods, Place, TryPoints, process, reader, teardown, reading, turn, ghosts
<1>4. CASE KinEnds
  BY <1>4 DEF KinEnds, Place, TryPoints, process, reader, teardown, reading, turn, ghosts
<1>5. CASE PidIsReused
  BY <1>5 DEF PidIsReused, Place, TryPoints, process, reader, teardown, reading, turn, ghosts
<1>6. CASE PumpReads
  BY <1>6 DEF PumpReads, Place, TryPoints, process, reader, teardown, reading, turn, ghosts
<1>7. CASE PumpAtEof
  BY <1>7 DEF PumpAtEof, Place, TryPoints, process, reader, teardown, reading, turn, ghosts
<1>8. CASE PumpPuts
  BY <1>8 DEF PumpPuts, Place, TryPoints, process, reader, teardown, reading, turn, ghosts
<1>9. CASE PumpEnds
  BY <1>9 DEF PumpEnds, Place, TryPoints, process, reader, teardown, reading, turn, ghosts
<1>10. CASE ErrEnds
  BY <1>10 DEF ErrEnds, Place, TryPoints, process, reader, teardown, reading, turn, ghosts
<1>11. CASE Look
  BY <1>11 DEF Look, Place, TryPoints, process, reader, teardown, reading, turn, ghosts
<1>12. CASE Signal
  BY <1>12 DEF Signal, Place, TryPoints, process, reader, teardown, reading, turn, ghosts
<1>13. CASE GoneWithin
  BY <1>13 DEF GoneWithin, GoBack, Escalate, Reaped, Place, TryPoints, process, reader, teardown, reading, turn, ghosts
<1>14. CASE StartReader
  BY <1>14 DEF StartReader, Raise, Forget, Kept, Place, TryPoints, process, reader, teardown, reading, turn, ghosts
<1>15. CASE Unwind
  BY <1>15 DEF Unwind, Terminate, Place, TryPoints, process, reader, teardown, reading, turn, ghosts
<1>16. CASE Join
  BY <1>16 DEF Join, Place, TryPoints, process, reader, teardown, reading, turn, ghosts
<1>17. CASE LookBeforeWait
  BY <1>17 DEF LookBeforeWait, Place, TryPoints, process, reader, teardown, reading, turn, ghosts
<1>18. CASE Get
  BY <1>18, QueueTyped DEF Get, Took, Bind, Threads, Place, TryPoints, process, reader, teardown, reading, turn, ghosts
<1>19. CASE GetRaises
  BY <1>19, QueueTyped DEF GetRaises, Raise, Forget, Place, TryPoints, process, reader, teardown, reading, turn, ghosts
<1>20. CASE AwaitExit
  BY <1>20 DEF AwaitExit, Place, TryPoints, process, reader, teardown, reading, turn, ghosts
<1>21. CASE PollThenKill
  BY <1>21 DEF PollThenKill, Reaped, Terminate, Place, TryPoints, process, reader, teardown, reading, turn, ghosts
<1>22. CASE Reap
  BY <1>22 DEF Reap, Reaped, Place, TryPoints, process, reader, teardown, reading, turn, ghosts
<1>23. CASE Drain
  BY <1>23, QueueTyped DEF Drain, Leftover, AfterLine, Threads, Place, TryPoints, process, reader, teardown, reading, turn, ghosts
<1>24. CASE DrainRaises
  BY <1>24, QueueTyped DEF DrainRaises, Raise, Forget, Place, TryPoints, process, reader, teardown, reading, turn, ghosts
<1>25. CASE LookAtPump
  BY <1>25 DEF LookAtPump, Place, TryPoints, process, reader, teardown, reading, turn, ghosts
<1>26. CASE JoinErr
  BY <1>26 DEF JoinErr, Terminate, Place, TryPoints, process, reader, teardown, reading, turn, ghosts
<1>27. CASE GiveUp
  BY <1>27 DEF GiveUp, Place, TryPoints, process, reader, teardown, reading, turn, ghosts
<1>28. CASE Flush
  BY <1>28 DEF Flush, Place, TryPoints, process, reader, teardown, reading, turn, ghosts
<1>29. CASE BindDrained
  BY <1>29 DEF BindDrained, Bind, Unbound, Place, TryPoints, process, reader, teardown, reading, turn, ghosts
<1>30. CASE Conclude
  BY <1>30 DEF Conclude, Verdict, Place, TryPoints, process, reader, teardown, reading, turn, ghosts
<1>31. CASE WaitForExit
  BY <1>31 DEF WaitForExit, Terminate, Place, TryPoints, process, reader, teardown, reading, turn, ghosts
<1>32. CASE FinishStreams
  BY <1>32 DEF FinishStreams, Terminate, Place, TryPoints, process, reader, teardown, reading, turn, ghosts
<1>33. CASE Return
  BY <1>33 DEF Return, Place, TryPoints, process, reader, teardown, reading, turn, ghosts
<1>34. CASE Interrupted
  BY <1>34 DEF Interrupted, Raise, Forget, Place, TryPoints, process, reader, teardown, reading, turn, ghosts
<1>35. CASE Tick
  BY <1>35 DEF Tick, Place, TryPoints, process, reader, teardown, reading, turn, ghosts
<1>36. CASE \E k \in Kinds : LeafWrites(k)
  BY <1>36 DEF LeafWrites, Place, TryPoints, process, reader, teardown, reading, turn, ghosts
<1>37. CASE UNCHANGED vars
  BY <1>37 DEF vars, Place, TryPoints, process, reader, teardown, reading, turn, ghosts
<1> QED
  BY <1>1, <1>2, <1>3, <1>4, <1>5, <1>6, <1>7, <1>8, <1>9, <1>10, <1>11, <1>12,
     <1>13, <1>14, <1>15, <1>16, <1>17, <1>18, <1>19, <1>20, <1>21, <1>22, <1>23, <1>24,
     <1>25, <1>26, <1>27, <1>28, <1>29, <1>30, <1>31, <1>32, <1>33, <1>34, <1>35, <1>36, <1>37
  DEF Next, Leaf, Pump, Conductor, Group, Way, Codex, Claude

LEMMA LocalsTyped == Streams /\ Processes /\ Place /\ Locals /\ [Next]_vars => Locals'
<1> SUFFICES ASSUME Streams /\ Processes /\ Place /\ Locals, [Next]_vars PROVE Locals'
  OBVIOUS
<1> USE LeafAssumption
<1>1. CASE LeafLeaks
  BY <1>1 DEF LeafLeaks, Locals, Place, Threads, Kinds, process, reader, teardown, reading, turn, ghosts
<1>2. CASE LeafExits
  BY <1>2 DEF LeafExits, Locals, Place, Threads, Kinds, process, reader, teardown, reading, turn, ghosts
<1>3. CASE KinFloods
  BY <1>3 DEF KinFloods, Locals, Place, Threads, Kinds, process, reader, teardown, reading, turn, ghosts
<1>4. CASE KinEnds
  BY <1>4 DEF KinEnds, Locals, Place, Threads, Kinds, process, reader, teardown, reading, turn, ghosts
<1>5. CASE PidIsReused
  BY <1>5 DEF PidIsReused, Locals, Place, Threads, Kinds, process, reader, teardown, reading, turn, ghosts
<1>6. CASE PumpReads
  BY <1>6 DEF PumpReads, Locals, Place, Threads, Kinds, process, reader, teardown, reading, turn, ghosts
<1>7. CASE PumpAtEof
  BY <1>7 DEF PumpAtEof, Locals, Place, Threads, Kinds, process, reader, teardown, reading, turn, ghosts
<1>8. CASE PumpPuts
  BY <1>8 DEF PumpPuts, Locals, Place, Threads, Kinds, process, reader, teardown, reading, turn, ghosts
<1>9. CASE PumpEnds
  BY <1>9 DEF PumpEnds, Locals, Place, Threads, Kinds, process, reader, teardown, reading, turn, ghosts
<1>10. CASE ErrEnds
  BY <1>10 DEF ErrEnds, Locals, Place, Threads, Kinds, process, reader, teardown, reading, turn, ghosts
<1>11. CASE Look
  BY <1>11 DEF Look, Locals, Place, Threads, Kinds, process, reader, teardown, reading, turn, ghosts
<1>12. CASE Signal
  BY <1>12 DEF Signal, Locals, Place, Threads, Kinds, process, reader, teardown, reading, turn, ghosts
<1>13. CASE GoneWithin
  BY <1>13 DEF GoneWithin, GoBack, Escalate, Reaped, Locals, Place, Threads, Kinds, process, reader, teardown, reading, turn, ghosts
<1>14. CASE StartReader
  BY <1>14 DEF StartReader, Raise, Forget, Kept, Locals, Place, Threads, Kinds, process, reader, teardown, reading, turn, ghosts
<1>15. CASE Unwind
  BY <1>15 DEF Unwind, Terminate, Locals, Place, Threads, Kinds, process, reader, teardown, reading, turn, ghosts
<1>16. CASE Join
  BY <1>16 DEF Join, Locals, Place, Threads, Kinds, process, reader, teardown, reading, turn, ghosts
<1>17. CASE LookBeforeWait
  BY <1>17 DEF LookBeforeWait, Locals, Place, Threads, Kinds, process, reader, teardown, reading, turn, ghosts
<1>18. CASE Get
  <2>1. CASE queue = <<>>
    BY <1>18, <2>1 DEF Get, Locals, process, reader, teardown, reading, turn, ghosts
  <2>2. CASE queue # <<>>
    <3>1. Took(Head(queue)) /\ UNCHANGED <<due, abandoned, pre, rc, drained, said, lines, result>>
      BY <1>18, <2>2 DEF Get, ghosts
    <3>2. heard' \subseteq Events /\ thread' \in Threads \cup {None} /\ bound' \in Threads \cup {None}
          /\ why' \in {why, "regerror"}
      BY <3>1 DEF Took, Bind, Locals
    <3> QED BY <3>1, <3>2 DEF Locals
  <2> QED BY <2>1, <2>2
<1>19. CASE GetRaises
  BY <1>19, QueueTyped DEF GetRaises, Raise, Forget, Locals, Place, Threads, Kinds, process, reader, teardown, reading, turn, ghosts
<1>20. CASE AwaitExit
  BY <1>20 DEF Processes, AwaitExit, Locals, Place, Threads, Kinds, process, reader, teardown, reading, turn, ghosts
<1>21. CASE PollThenKill
  BY <1>21 DEF Processes, PollThenKill, Reaped, Terminate, Locals, Place, Threads, Kinds, process, reader, teardown, reading, turn, ghosts
<1>22. CASE Reap
  BY <1>22 DEF Processes, Reap, Reaped, Locals, Place, Threads, Kinds, process, reader, teardown, reading, turn, ghosts
<1>23. CASE Drain
  BY <1>23, QueueTyped DEF Drain, Leftover, AfterLine, Threads, Locals, Place, Threads, Kinds, process, reader, teardown, reading, turn, ghosts
<1>24. CASE DrainRaises
  BY <1>24, QueueTyped DEF DrainRaises, Raise, Forget, Locals, Place, Threads, Kinds, process, reader, teardown, reading, turn, ghosts
<1>25. CASE LookAtPump
  BY <1>25 DEF LookAtPump, Locals, Place, Threads, Kinds, process, reader, teardown, reading, turn, ghosts
<1>26. CASE JoinErr
  BY <1>26 DEF JoinErr, Terminate, Locals, Place, Threads, Kinds, process, reader, teardown, reading, turn, ghosts
<1>27. CASE GiveUp
  BY <1>27 DEF GiveUp, Locals, Place, Threads, Kinds, process, reader, teardown, reading, turn, ghosts
<1>28. CASE Flush
  BY <1>28 DEF Flush, Locals, Place, Threads, Kinds, process, reader, teardown, reading, turn, ghosts
<1>29. CASE BindDrained
  BY <1>29 DEF BindDrained, Bind, Unbound, Locals, Place, Threads, Kinds, process, reader, teardown, reading, turn, ghosts
<1>30. CASE Conclude
  BY <1>30 DEF Conclude, Verdict, Locals, Place, Threads, Kinds, process, reader, teardown, reading, turn, ghosts
<1>31. CASE WaitForExit
  BY <1>31 DEF Processes, WaitForExit, Terminate, Locals, Place, Threads, Kinds, process, reader, teardown, reading, turn, ghosts
<1>32. CASE FinishStreams
  BY <1>32 DEF FinishStreams, Terminate, Locals, Place, Threads, Kinds, process, reader, teardown, reading, turn, ghosts
<1>33. CASE Return
  BY <1>33 DEF Return, Locals, Place, Threads, Kinds, process, reader, teardown, reading, turn, ghosts
<1>34. CASE Interrupted
  BY <1>34 DEF Interrupted, Raise, Forget, Locals, Place, Threads, Kinds, process, reader, teardown, reading, turn, ghosts
<1>35. CASE Tick
  BY <1>35 DEF Tick, Locals, Place, Threads, Kinds, process, reader, teardown, reading, turn, ghosts
<1>36. CASE \E k \in Kinds : LeafWrites(k)
  BY <1>36 DEF LeafWrites, Locals, Place, Threads, Kinds, process, reader, teardown, reading, turn, ghosts
<1>37. CASE UNCHANGED vars
  BY <1>37 DEF vars, Locals, Place, Threads, Kinds, process, reader, teardown, reading, turn, ghosts
<1> QED
  BY <1>1, <1>2, <1>3, <1>4, <1>5, <1>6, <1>7, <1>8, <1>9, <1>10, <1>11, <1>12,
     <1>13, <1>14, <1>15, <1>16, <1>17, <1>18, <1>19, <1>20, <1>21, <1>22, <1>23, <1>24,
     <1>25, <1>26, <1>27, <1>28, <1>29, <1>30, <1>31, <1>32, <1>33, <1>34, <1>35, <1>36, <1>37
  DEF Next, Leaf, Pump, Conductor, Group, Way, Codex, Claude

(* Every reachable state of the supervision has the types of TypeOK.       *)
THEOREM TypeSafe == Spec => []TypeOK
<1>1. Init => TypeOK
  <2> SUFFICES ASSUME Init PROVE TypeOK
    OBVIOUS
  <2>1. Streams
    BY LeafAssumption DEF Init, Streams
  <2>2. Processes /\ Place
    BY DEF Init, Processes, Place
  <2>3. lines \in 0 .. MaxLines
    BY LeafAssumption DEF Init
  <2>4. Locals
    BY <2>3 DEF Init, Locals
  <2> QED BY <2>1, <2>2, <2>4, TypeParts
<1>2. TypeOK /\ [Next]_vars => TypeOK'
  <2>1. TypeOK' <=> Streams' /\ Processes' /\ Place' /\ Locals'
    BY DEF TypeOK, Streams, Processes, Place, Locals
  <2> QED BY <2>1, TypeParts, StreamsTyped, ProcessesTyped, PlaceTyped, LocalsTyped
<1> QED BY <1>1, <1>2, PTL DEF Spec

-----------------------------------------------------------------------------
(* What the invariants speak of.                                           *)

Stopped ==
  /\ leaf # "runs" \/ "leaf" \in killed
  /\ ~InGroup \/ "kin" \in killed

InTeardown == pc \in {"look", "signal", "grace"}
Before == pc \in {"start", "start2", "head", "get", "eofwait", "wait"}
Killing == pc \in {"pre", "reap"} \/ (InTeardown /\ back = "reap")
After ==
  \/ pc \in {"drain", "empty", "err", "giveup", "flush", "result", "finish", "finish2", "escape", "done"}
  \/ InTeardown /\ back \in {"giveup", "finish2"}
Ends == {"cancelled", "timeout", "regerror"}

\* Where the conductor is, by what ended the read.
WayInv ==
  /\ Before => why = "none"
  /\ Killing => why \in Ends
  /\ why = "raised" => pc \in {"unwind", "join", "done"} \/ (InTeardown /\ back = "join")
  /\ pc \in {"unwind", "join"} \/ (InTeardown /\ back = "join") => why = "raised"
  /\ result # "none" => pc = "done"
  /\ why \in {"regerror", "unrecorded"} => thread # None
  /\ Before => bound = thread

\* The pid belongs to nobody else while the leaf or its group has it.
PidInv ==
  /\ stranger # "none" => leaf = "reaped" /\ ~InGroup
  /\ pc = "signal" /\ ~target => stranger # "none"

StrangerInv ==
  /\ stranger # "hit"
  /\ pc = "signal" /\ target => stranger \in {"none", "unseen"}

\* The second round of the teardown leaves nobody in reach who was not sent SIGKILL.
StopInv ==
  /\ pc = "grace" /\ sig = "KILL" => Stopped
  /\ pc \in {"reap", "join"} => Stopped
  /\ why \in Ends /\ After => Stopped
  /\ AllAreStopped

\* A status that counts is one the leaf ended with before it was told anything.
StatusInv ==
  /\ pre = "zero" => leaf # "runs" /\ code = "zero" /\ ~told
  /\ Before \/ pc = "pre" => ~told
  /\ After /\ why = "none" => leaf = "reaped" /\ rc = code /\ ~told

\* The thread the read goes by is the one the host has recorded.
ThreadInv ==
  /\ thread # None /\ why \in {"none", "timeout", "cancelled"} /\ pc \notin {"escape", "done"} =>
       bound = thread
  /\ AcceptedStands

(* Each step of the conductor goes where what ended the read says.         *)
LEMMA WayHolds ==
  ASSUME TypeOK, Place, WayInv, [Next]_vars
  PROVE  WayInv'
<1> USE LeafAssumption DEF WayInv, Place, TryPoints, InTeardown, Before, Killing, Ends, After, Threads
<1>1. CASE LeafLeaks
  BY <1>1 DEF LeafLeaks, process, reader, teardown, reading, turn, ghosts
<1>2. CASE LeafExits
  BY <1>2 DEF LeafExits, process, reader, teardown, reading, turn, ghosts
<1>3. CASE KinFloods
  BY <1>3 DEF KinFloods, process, reader, teardown, reading, turn, ghosts
<1>4. CASE KinEnds
  BY <1>4 DEF KinEnds, process, reader, teardown, reading, turn, ghosts
<1>5. CASE PidIsReused
  BY <1>5 DEF PidIsReused, process, reader, teardown, reading, turn, ghosts
<1>6. CASE \E k \in Kinds : LeafWrites(k)
  BY <1>6 DEF LeafWrites, process, reader, teardown, reading, turn, ghosts
<1>7. CASE Pump \/ ErrEnds \/ Tick
  BY <1>7 DEF Pump, PumpReads, PumpAtEof, PumpPuts, PumpEnds, ErrEnds, Tick, process, reader, teardown, reading, turn, ghosts
<1>8. CASE Look
  BY <1>8 DEF Look, process, reader, teardown, reading, turn, ghosts
<1>9. CASE Signal
  BY <1>9 DEF Signal, process, reader, teardown, reading, turn, ghosts
<1>10. CASE GoneWithin
  BY <1>10 DEF GoneWithin, GoBack, Escalate, Reaped, process, reader, teardown, reading, turn, ghosts
<1>11. CASE StartReader
  BY <1>11 DEF StartReader, Raise, Forget, Kept, process, reader, teardown, reading, turn, ghosts
<1>12. CASE Unwind
  BY <1>12 DEF Unwind, Terminate, process, reader, teardown, reading, turn, ghosts
<1>13. CASE Join
  BY <1>13 DEF Join, process, reader, teardown, reading, turn, ghosts
<1>14. CASE LookBeforeWait
  BY <1>14 DEF LookBeforeWait, process, reader, teardown, reading, turn, ghosts
<1>15. CASE Get
  BY <1>15 DEF Get, Took, Bind, process, reader, teardown, reading, turn, ghosts
<1>16. CASE GetRaises
  BY <1>16 DEF GetRaises, Raise, Forget, process, reader, teardown, reading, turn, ghosts
<1>17. CASE AwaitExit
  BY <1>17 DEF AwaitExit, process, reader, teardown, reading, turn, ghosts
<1>18. CASE PollThenKill
  BY <1>18 DEF PollThenKill, Reaped, Terminate, process, reader, teardown, reading, turn, ghosts
<1>19. CASE Reap
  BY <1>19 DEF Reap, Reaped, process, reader, teardown, reading, turn, ghosts
<1>20. CASE Drain
  BY <1>20 DEF Drain, Leftover, AfterLine, process, reader, teardown, reading, turn, ghosts
<1>21. CASE DrainRaises
  BY <1>21 DEF DrainRaises, Raise, Forget, process, reader, teardown, reading, turn, ghosts
<1>22. CASE LookAtPump
  BY <1>22 DEF LookAtPump, process, reader, teardown, reading, turn, ghosts
<1>23. CASE JoinErr
  BY <1>23 DEF JoinErr, Terminate, process, reader, teardown, reading, turn, ghosts
<1>24. CASE GiveUp
  BY <1>24 DEF GiveUp, process, reader, teardown, reading, turn, ghosts
<1>25. CASE Flush
  BY <1>25 DEF Flush, process, reader, teardown, reading, turn, ghosts
<1>26. CASE BindDrained
  BY <1>26 DEF BindDrained, Bind, Unbound, Healthy, process, reader, teardown, reading, turn, ghosts
<1>27. CASE Conclude
  BY <1>27 DEF Conclude, Unbound, Verdict, Healthy, process, reader, teardown, reading, turn, ghosts
<1>28. CASE WaitForExit
  BY <1>28 DEF WaitForExit, Terminate, process, reader, teardown, reading, turn, ghosts
<1>29. CASE FinishStreams
  BY <1>29 DEF FinishStreams, Terminate, process, reader, teardown, reading, turn, ghosts
<1>30. CASE Return
  BY <1>30 DEF Return, process, reader, teardown, reading, turn, ghosts
<1>31. CASE Interrupted
  BY <1>31 DEF Interrupted, Raise, Forget, process, reader, teardown, reading, turn, ghosts
<1>32. CASE UNCHANGED vars
  BY <1>32 DEF vars, process, reader, teardown, reading, turn, ghosts
<1> QED
  BY <1>1, <1>2, <1>3, <1>4, <1>5, <1>6, <1>7, <1>8, <1>9, <1>10, <1>11, <1>12,
     <1>13, <1>14, <1>15, <1>16, <1>17, <1>18, <1>19, <1>20, <1>21, <1>22, <1>23, <1>24,
     <1>25, <1>26, <1>27, <1>28, <1>29, <1>30, <1>31, <1>32
  DEF Next, Leaf, Pump, Conductor, Group, Way, Codex, Claude

(* A pid is given away only where leaf and group are gone.                 *)
LEMMA PidHolds ==
  ASSUME Place, PidInv, [Next]_vars
  PROVE  PidInv'
<1> USE LeafAssumption DEF PidInv, Place, InGroup
<1>1. CASE LeafLeaks
  BY <1>1 DEF LeafLeaks, process, reader, teardown, reading, turn, ghosts
<1>2. CASE LeafExits
  BY <1>2 DEF LeafExits, process, reader, teardown, reading, turn, ghosts
<1>3. CASE KinFloods
  BY <1>3 DEF KinFloods, process, reader, teardown, reading, turn, ghosts
<1>4. CASE KinEnds
  BY <1>4 DEF KinEnds, process, reader, teardown, reading, turn, ghosts
<1>5. CASE PidIsReused
  BY <1>5 DEF PidIsReused, process, reader, teardown, reading, turn, ghosts
<1>6. CASE \E k \in Kinds : LeafWrites(k)
  BY <1>6 DEF LeafWrites, process, reader, teardown, reading, turn, ghosts
<1>7. CASE Pump \/ ErrEnds \/ Tick
  BY <1>7 DEF Pump, PumpReads, PumpAtEof, PumpPuts, PumpEnds, ErrEnds, Tick, process, reader, teardown, reading, turn, ghosts
<1>8. CASE Look
  BY <1>8 DEF Look, process, reader, teardown, reading, turn, ghosts
<1>9. CASE Signal
  BY <1>9 DEF Signal, process, reader, teardown, reading, turn, ghosts
<1>10. CASE GoneWithin
  BY <1>10 DEF GoneWithin, GoBack, Escalate, Reaped, process, reader, teardown, reading, turn, ghosts
<1>11. CASE StartReader
  BY <1>11 DEF StartReader, Raise, Forget, Kept, process, reader, teardown, reading, turn, ghosts
<1>12. CASE Unwind
  BY <1>12 DEF Unwind, Terminate, process, reader, teardown, reading, turn, ghosts
<1>13. CASE Join
  BY <1>13 DEF Join, process, reader, teardown, reading, turn, ghosts
<1>14. CASE LookBeforeWait
  BY <1>14 DEF LookBeforeWait, process, reader, teardown, reading, turn, ghosts
<1>15. CASE Get
  BY <1>15 DEF Get, Took, Bind, process, reader, teardown, reading, turn, ghosts
<1>16. CASE GetRaises
  BY <1>16 DEF GetRaises, Raise, Forget, process, reader, teardown, reading, turn, ghosts
<1>17. CASE AwaitExit
  BY <1>17 DEF AwaitExit, process, reader, teardown, reading, turn, ghosts
<1>18. CASE PollThenKill
  BY <1>18 DEF PollThenKill, Reaped, Terminate, process, reader, teardown, reading, turn, ghosts
<1>19. CASE Reap
  BY <1>19 DEF Reap, Reaped, process, reader, teardown, reading, turn, ghosts
<1>20. CASE Drain
  BY <1>20 DEF Drain, Leftover, AfterLine, process, reader, teardown, reading, turn, ghosts
<1>21. CASE DrainRaises
  BY <1>21 DEF DrainRaises, Raise, Forget, process, reader, teardown, reading, turn, ghosts
<1>22. CASE LookAtPump
  BY <1>22 DEF LookAtPump, process, reader, teardown, reading, turn, ghosts
<1>23. CASE JoinErr
  BY <1>23 DEF JoinErr, Terminate, process, reader, teardown, reading, turn, ghosts
<1>24. CASE GiveUp
  BY <1>24 DEF GiveUp, process, reader, teardown, reading, turn, ghosts
<1>25. CASE Flush
  BY <1>25 DEF Flush, process, reader, teardown, reading, turn, ghosts
<1>26. CASE BindDrained
  BY <1>26 DEF BindDrained, Bind, Unbound, Healthy, process, reader, teardown, reading, turn, ghosts
<1>27. CASE Conclude
  BY <1>27 DEF Conclude, Unbound, Verdict, Healthy, process, reader, teardown, reading, turn, ghosts
<1>28. CASE WaitForExit
  BY <1>28 DEF WaitForExit, Terminate, process, reader, teardown, reading, turn, ghosts
<1>29. CASE FinishStreams
  BY <1>29 DEF FinishStreams, Terminate, process, reader, teardown, reading, turn, ghosts
<1>30. CASE Return
  BY <1>30 DEF Return, process, reader, teardown, reading, turn, ghosts
<1>31. CASE Interrupted
  BY <1>31 DEF Interrupted, Raise, Forget, process, reader, teardown, reading, turn, ghosts
<1>32. CASE UNCHANGED vars
  BY <1>32 DEF vars, process, reader, teardown, reading, turn, ghosts
<1> QED
  BY <1>1, <1>2, <1>3, <1>4, <1>5, <1>6, <1>7, <1>8, <1>9, <1>10, <1>11, <1>12,
     <1>13, <1>14, <1>15, <1>16, <1>17, <1>18, <1>19, <1>20, <1>21, <1>22, <1>23, <1>24,
     <1>25, <1>26, <1>27, <1>28, <1>29, <1>30, <1>31, <1>32
  DEF Next, Leaf, Pump, Conductor, Group, Way, Codex, Claude

(* Who has the pid when a target is signalled got it after the look.       *)
LEMMA StrangerHolds ==
  ASSUME Place, PidInv, StrangerInv, [Next]_vars
  PROVE  StrangerInv'
<1> USE LeafAssumption DEF StrangerInv, PidInv, Place, InGroup
<1>1. CASE LeafLeaks
  BY <1>1 DEF LeafLeaks, process, reader, teardown, reading, turn, ghosts
<1>2. CASE LeafExits
  BY <1>2 DEF LeafExits, process, reader, teardown, reading, turn, ghosts
<1>3. CASE KinFloods
  BY <1>3 DEF KinFloods, process, reader, teardown, reading, turn, ghosts
<1>4. CASE KinEnds
  BY <1>4 DEF KinEnds, process, reader, teardown, reading, turn, ghosts
<1>5. CASE PidIsReused
  BY <1>5 DEF PidIsReused, process, reader, teardown, reading, turn, ghosts
<1>6. CASE \E k \in Kinds : LeafWrites(k)
  BY <1>6 DEF LeafWrites, process, reader, teardown, reading, turn, ghosts
<1>7. CASE Pump \/ ErrEnds \/ Tick
  BY <1>7 DEF Pump, PumpReads, PumpAtEof, PumpPuts, PumpEnds, ErrEnds, Tick, process, reader, teardown, reading, turn, ghosts
<1>8. CASE Look
  BY <1>8 DEF Look, process, reader, teardown, reading, turn, ghosts
<1>9. CASE Signal
  BY <1>9 DEF Signal, process, reader, teardown, reading, turn, ghosts
<1>10. CASE GoneWithin
  BY <1>10 DEF GoneWithin, GoBack, Escalate, Reaped, process, reader, teardown, reading, turn, ghosts
<1>11. CASE StartReader
  BY <1>11 DEF StartReader, Raise, Forget, Kept, process, reader, teardown, reading, turn, ghosts
<1>12. CASE Unwind
  BY <1>12 DEF Unwind, Terminate, process, reader, teardown, reading, turn, ghosts
<1>13. CASE Join
  BY <1>13 DEF Join, process, reader, teardown, reading, turn, ghosts
<1>14. CASE LookBeforeWait
  BY <1>14 DEF LookBeforeWait, process, reader, teardown, reading, turn, ghosts
<1>15. CASE Get
  BY <1>15 DEF Get, Took, Bind, process, reader, teardown, reading, turn, ghosts
<1>16. CASE GetRaises
  BY <1>16 DEF GetRaises, Raise, Forget, process, reader, teardown, reading, turn, ghosts
<1>17. CASE AwaitExit
  BY <1>17 DEF AwaitExit, process, reader, teardown, reading, turn, ghosts
<1>18. CASE PollThenKill
  BY <1>18 DEF PollThenKill, Reaped, Terminate, process, reader, teardown, reading, turn, ghosts
<1>19. CASE Reap
  BY <1>19 DEF Reap, Reaped, process, reader, teardown, reading, turn, ghosts
<1>20. CASE Drain
  BY <1>20 DEF Drain, Leftover, AfterLine, process, reader, teardown, reading, turn, ghosts
<1>21. CASE DrainRaises
  BY <1>21 DEF DrainRaises, Raise, Forget, process, reader, teardown, reading, turn, ghosts
<1>22. CASE LookAtPump
  BY <1>22 DEF LookAtPump, process, reader, teardown, reading, turn, ghosts
<1>23. CASE JoinErr
  BY <1>23 DEF JoinErr, Terminate, process, reader, teardown, reading, turn, ghosts
<1>24. CASE GiveUp
  BY <1>24 DEF GiveUp, process, reader, teardown, reading, turn, ghosts
<1>25. CASE Flush
  BY <1>25 DEF Flush, process, reader, teardown, reading, turn, ghosts
<1>26. CASE BindDrained
  BY <1>26 DEF BindDrained, Bind, Unbound, Healthy, process, reader, teardown, reading, turn, ghosts
<1>27. CASE Conclude
  BY <1>27 DEF Conclude, Unbound, Verdict, Healthy, process, reader, teardown, reading, turn, ghosts
<1>28. CASE WaitForExit
  BY <1>28 DEF WaitForExit, Terminate, process, reader, teardown, reading, turn, ghosts
<1>29. CASE FinishStreams
  BY <1>29 DEF FinishStreams, Terminate, process, reader, teardown, reading, turn, ghosts
<1>30. CASE Return
  BY <1>30 DEF Return, process, reader, teardown, reading, turn, ghosts
<1>31. CASE Interrupted
  BY <1>31 DEF Interrupted, Raise, Forget, process, reader, teardown, reading, turn, ghosts
<1>32. CASE UNCHANGED vars
  BY <1>32 DEF vars, process, reader, teardown, reading, turn, ghosts
<1> QED
  BY <1>1, <1>2, <1>3, <1>4, <1>5, <1>6, <1>7, <1>8, <1>9, <1>10, <1>11, <1>12,
     <1>13, <1>14, <1>15, <1>16, <1>17, <1>18, <1>19, <1>20, <1>21, <1>22, <1>23, <1>24,
     <1>25, <1>26, <1>27, <1>28, <1>29, <1>30, <1>31, <1>32
  DEF Next, Leaf, Pump, Conductor, Group, Way, Codex, Claude

(* Who has been stopped stays so: a leaf that was leaks nothing.           *)
LEMMA StopHolds ==
  ASSUME Place, WayInv, PidInv, StopInv, [Next]_vars
  PROVE  StopInv'
<1> USE LeafAssumption DEF StopInv, AllAreStopped, Stopped, WayInv, PidInv, Place, InGroup, InTeardown, Before, Killing, After, Ends
<1>1. CASE LeafLeaks
  BY <1>1 DEF LeafLeaks, process, reader, teardown, reading, turn, ghosts
<1>2. CASE LeafExits
  BY <1>2 DEF LeafExits, process, reader, teardown, reading, turn, ghosts
<1>3. CASE KinFloods
  BY <1>3 DEF KinFloods, process, reader, teardown, reading, turn, ghosts
<1>4. CASE KinEnds
  BY <1>4 DEF KinEnds, process, reader, teardown, reading, turn, ghosts
<1>5. CASE PidIsReused
  BY <1>5 DEF PidIsReused, process, reader, teardown, reading, turn, ghosts
<1>6. CASE \E k \in Kinds : LeafWrites(k)
  BY <1>6 DEF LeafWrites, process, reader, teardown, reading, turn, ghosts
<1>7. CASE Pump \/ ErrEnds \/ Tick
  BY <1>7 DEF Pump, PumpReads, PumpAtEof, PumpPuts, PumpEnds, ErrEnds, Tick, process, reader, teardown, reading, turn, ghosts
<1>8. CASE Look
  BY <1>8 DEF Look, process, reader, teardown, reading, turn, ghosts
<1>9. CASE Signal
  BY <1>9 DEF Signal, process, reader, teardown, reading, turn, ghosts
<1>10. CASE GoneWithin
  BY <1>10 DEF GoneWithin, GoBack, Escalate, Reaped, process, reader, teardown, reading, turn, ghosts
<1>11. CASE StartReader
  BY <1>11 DEF StartReader, Raise, Forget, Kept, process, reader, teardown, reading, turn, ghosts
<1>12. CASE Unwind
  BY <1>12 DEF Unwind, Terminate, process, reader, teardown, reading, turn, ghosts
<1>13. CASE Join
  BY <1>13 DEF Join, process, reader, teardown, reading, turn, ghosts
<1>14. CASE LookBeforeWait
  BY <1>14 DEF LookBeforeWait, process, reader, teardown, reading, turn, ghosts
<1>15. CASE Get
  BY <1>15 DEF Get, Took, Bind, process, reader, teardown, reading, turn, ghosts
<1>16. CASE GetRaises
  BY <1>16 DEF GetRaises, Raise, Forget, process, reader, teardown, reading, turn, ghosts
<1>17. CASE AwaitExit
  BY <1>17 DEF AwaitExit, process, reader, teardown, reading, turn, ghosts
<1>18. CASE PollThenKill
  BY <1>18 DEF PollThenKill, Reaped, Terminate, process, reader, teardown, reading, turn, ghosts
<1>19. CASE Reap
  BY <1>19 DEF Reap, Reaped, process, reader, teardown, reading, turn, ghosts
<1>20. CASE Drain
  BY <1>20 DEF Drain, Leftover, AfterLine, process, reader, teardown, reading, turn, ghosts
<1>21. CASE DrainRaises
  BY <1>21 DEF DrainRaises, Raise, Forget, process, reader, teardown, reading, turn, ghosts
<1>22. CASE LookAtPump
  BY <1>22 DEF LookAtPump, process, reader, teardown, reading, turn, ghosts
<1>23. CASE JoinErr
  BY <1>23 DEF JoinErr, Terminate, process, reader, teardown, reading, turn, ghosts
<1>24. CASE GiveUp
  BY <1>24 DEF GiveUp, process, reader, teardown, reading, turn, ghosts
<1>25. CASE Flush
  BY <1>25 DEF Flush, process, reader, teardown, reading, turn, ghosts
<1>26. CASE BindDrained
  BY <1>26 DEF BindDrained, Bind, Unbound, Healthy, process, reader, teardown, reading, turn, ghosts
<1>27. CASE Conclude
  BY <1>27 DEF Conclude, Unbound, Verdict, Healthy, process, reader, teardown, reading, turn, ghosts
<1>28. CASE WaitForExit
  BY <1>28 DEF WaitForExit, Terminate, process, reader, teardown, reading, turn, ghosts
<1>29. CASE FinishStreams
  BY <1>29 DEF FinishStreams, Terminate, process, reader, teardown, reading, turn, ghosts
<1>30. CASE Return
  BY <1>30 DEF Return, process, reader, teardown, reading, turn, ghosts
<1>31. CASE Interrupted
  BY <1>31 DEF Interrupted, Raise, Forget, process, reader, teardown, reading, turn, ghosts
<1>32. CASE UNCHANGED vars
  BY <1>32 DEF vars, process, reader, teardown, reading, turn, ghosts
<1> QED
  BY <1>1, <1>2, <1>3, <1>4, <1>5, <1>6, <1>7, <1>8, <1>9, <1>10, <1>11, <1>12,
     <1>13, <1>14, <1>15, <1>16, <1>17, <1>18, <1>19, <1>20, <1>21, <1>22, <1>23, <1>24,
     <1>25, <1>26, <1>27, <1>28, <1>29, <1>30, <1>31, <1>32
  DEF Next, Leaf, Pump, Conductor, Group, Way, Codex, Claude

(* Statuses of leaves that were told nothing.                              *)
LEMMA StatusHolds ==
  ASSUME Place, WayInv, StatusInv, [Next]_vars
  PROVE  StatusInv'
<1> USE LeafAssumption DEF StatusInv, WayInv, Place, InTeardown, Before, Killing, After, Ends
<1>1. CASE LeafLeaks
  BY <1>1 DEF LeafLeaks, process, reader, teardown, reading, turn, ghosts
<1>2. CASE LeafExits
  BY <1>2 DEF LeafExits, process, reader, teardown, reading, turn, ghosts
<1>3. CASE KinFloods
  BY <1>3 DEF KinFloods, process, reader, teardown, reading, turn, ghosts
<1>4. CASE KinEnds
  BY <1>4 DEF KinEnds, process, reader, teardown, reading, turn, ghosts
<1>5. CASE PidIsReused
  BY <1>5 DEF PidIsReused, process, reader, teardown, reading, turn, ghosts
<1>6. CASE \E k \in Kinds : LeafWrites(k)
  BY <1>6 DEF LeafWrites, process, reader, teardown, reading, turn, ghosts
<1>7. CASE Pump \/ ErrEnds \/ Tick
  BY <1>7 DEF Pump, PumpReads, PumpAtEof, PumpPuts, PumpEnds, ErrEnds, Tick, process, reader, teardown, reading, turn, ghosts
<1>8. CASE Look
  BY <1>8 DEF Look, process, reader, teardown, reading, turn, ghosts
<1>9. CASE Signal
  BY <1>9 DEF Signal, process, reader, teardown, reading, turn, ghosts
<1>10. CASE GoneWithin
  BY <1>10 DEF GoneWithin, GoBack, Escalate, Reaped, process, reader, teardown, reading, turn, ghosts
<1>11. CASE StartReader
  BY <1>11 DEF StartReader, Raise, Forget, Kept, process, reader, teardown, reading, turn, ghosts
<1>12. CASE Unwind
  BY <1>12 DEF Unwind, Terminate, process, reader, teardown, reading, turn, ghosts
<1>13. CASE Join
  BY <1>13 DEF Join, process, reader, teardown, reading, turn, ghosts
<1>14. CASE LookBeforeWait
  BY <1>14 DEF LookBeforeWait, process, reader, teardown, reading, turn, ghosts
<1>15. CASE Get
  BY <1>15 DEF Get, Took, Bind, process, reader, teardown, reading, turn, ghosts
<1>16. CASE GetRaises
  BY <1>16 DEF GetRaises, Raise, Forget, process, reader, teardown, reading, turn, ghosts
<1>17. CASE AwaitExit
  BY <1>17 DEF AwaitExit, process, reader, teardown, reading, turn, ghosts
<1>18. CASE PollThenKill
  BY <1>18 DEF PollThenKill, Reaped, Terminate, process, reader, teardown, reading, turn, ghosts
<1>19. CASE Reap
  BY <1>19 DEF Reap, Reaped, process, reader, teardown, reading, turn, ghosts
<1>20. CASE Drain
  BY <1>20 DEF Drain, Leftover, AfterLine, process, reader, teardown, reading, turn, ghosts
<1>21. CASE DrainRaises
  BY <1>21 DEF DrainRaises, Raise, Forget, process, reader, teardown, reading, turn, ghosts
<1>22. CASE LookAtPump
  BY <1>22 DEF LookAtPump, process, reader, teardown, reading, turn, ghosts
<1>23. CASE JoinErr
  BY <1>23 DEF JoinErr, Terminate, process, reader, teardown, reading, turn, ghosts
<1>24. CASE GiveUp
  BY <1>24 DEF GiveUp, process, reader, teardown, reading, turn, ghosts
<1>25. CASE Flush
  BY <1>25 DEF Flush, process, reader, teardown, reading, turn, ghosts
<1>26. CASE BindDrained
  BY <1>26 DEF BindDrained, Bind, Unbound, Healthy, process, reader, teardown, reading, turn, ghosts
<1>27. CASE Conclude
  BY <1>27 DEF Conclude, Unbound, Verdict, Healthy, process, reader, teardown, reading, turn, ghosts
<1>28. CASE WaitForExit
  BY <1>28 DEF WaitForExit, Terminate, process, reader, teardown, reading, turn, ghosts
<1>29. CASE FinishStreams
  BY <1>29 DEF FinishStreams, Terminate, process, reader, teardown, reading, turn, ghosts
<1>30. CASE Return
  BY <1>30 DEF Return, process, reader, teardown, reading, turn, ghosts
<1>31. CASE Interrupted
  BY <1>31 DEF Interrupted, Raise, Forget, process, reader, teardown, reading, turn, ghosts
<1>32. CASE UNCHANGED vars
  BY <1>32 DEF vars, process, reader, teardown, reading, turn, ghosts
<1> QED
  BY <1>1, <1>2, <1>3, <1>4, <1>5, <1>6, <1>7, <1>8, <1>9, <1>10, <1>11, <1>12,
     <1>13, <1>14, <1>15, <1>16, <1>17, <1>18, <1>19, <1>20, <1>21, <1>22, <1>23, <1>24,
     <1>25, <1>26, <1>27, <1>28, <1>29, <1>30, <1>31, <1>32
  DEF Next, Leaf, Pump, Conductor, Group, Way, Codex, Claude

(* The thread and its record.                                              *)
LEMMA ThreadHolds ==
  ASSUME TypeOK, Place, WayInv, StatusInv, ThreadInv, [Next]_vars
  PROVE  ThreadInv'
<1> USE LeafAssumption DEF ThreadInv, AcceptedStands, StatusInv, WayInv, Place, InTeardown, Before, Killing, After, Ends, TryPoints
<1>0. why \in {"none", "cancelled", "timeout", "regerror", "unrecorded", "raised"}
  BY DEF TypeOK
<1>1. CASE LeafLeaks
  BY <1>1 DEF LeafLeaks, process, reader, teardown, reading, turn, ghosts
<1>2. CASE pc # "done" /\ LeafExits
  BY <1>2 DEF LeafExits, process, reader, teardown, reading, turn, ghosts
<1>3. CASE KinFloods
  BY <1>3 DEF KinFloods, process, reader, teardown, reading, turn, ghosts
<1>4. CASE KinEnds
  BY <1>4 DEF KinEnds, process, reader, teardown, reading, turn, ghosts
<1>5. CASE PidIsReused
  BY <1>5 DEF PidIsReused, process, reader, teardown, reading, turn, ghosts
<1>6. CASE \E k \in Kinds : LeafWrites(k)
  BY <1>6 DEF LeafWrites, process, reader, teardown, reading, turn, ghosts
<1>7. CASE Pump \/ ErrEnds \/ Tick
  BY <1>7 DEF Pump, PumpReads, PumpAtEof, PumpPuts, PumpEnds, ErrEnds, Tick, process, reader, teardown, reading, turn, ghosts
<1>8. CASE Look
  BY <1>8 DEF Look, process, reader, teardown, reading, turn, ghosts
<1>9. CASE Signal
  BY <1>9 DEF Signal, process, reader, teardown, reading, turn, ghosts
<1>10. CASE GoneWithin
  BY <1>10 DEF GoneWithin, GoBack, Escalate, Reaped, process, reader, teardown, reading, turn, ghosts
<1>11. CASE StartReader
  BY <1>11 DEF StartReader, Raise, Forget, Kept, process, reader, teardown, reading, turn, ghosts
<1>12. CASE Unwind
  BY <1>12 DEF Unwind, Terminate, process, reader, teardown, reading, turn, ghosts
<1>13. CASE Join
  BY <1>13 DEF Join, process, reader, teardown, reading, turn, ghosts
<1>14. CASE LookBeforeWait
  BY <1>14 DEF LookBeforeWait, process, reader, teardown, reading, turn, ghosts
<1>15. CASE Get
  BY <1>15 DEF Get, Took, Bind, process, reader, teardown, reading, turn, ghosts
<1>16. CASE GetRaises
  BY <1>16 DEF GetRaises, Raise, Forget, process, reader, teardown, reading, turn, ghosts
<1>17. CASE AwaitExit
  BY <1>17 DEF AwaitExit, process, reader, teardown, reading, turn, ghosts
<1>18. CASE PollThenKill
  BY <1>18 DEF PollThenKill, Reaped, Terminate, process, reader, teardown, reading, turn, ghosts
<1>19. CASE Reap
  BY <1>19 DEF Reap, Reaped, process, reader, teardown, reading, turn, ghosts
<1>20. CASE Drain
  BY <1>20 DEF Drain, Leftover, AfterLine, process, reader, teardown, reading, turn, ghosts
<1>21. CASE DrainRaises
  BY <1>21 DEF DrainRaises, Raise, Forget, process, reader, teardown, reading, turn, ghosts
<1>22. CASE LookAtPump
  BY <1>22 DEF LookAtPump, process, reader, teardown, reading, turn, ghosts
<1>23. CASE JoinErr
  BY <1>23 DEF JoinErr, Terminate, process, reader, teardown, reading, turn, ghosts
<1>24. CASE GiveUp
  BY <1>24 DEF GiveUp, process, reader, teardown, reading, turn, ghosts
<1>25. CASE Flush
  BY <1>25 DEF Flush, process, reader, teardown, reading, turn, ghosts
<1>26. CASE BindDrained
  BY <1>26 DEF BindDrained, Bind, Unbound, Healthy, process, reader, teardown, reading, turn, ghosts
<1>27. CASE Conclude
  BY <1>0, <1>27 DEF Conclude, Unbound, Verdict, Healthy, process, reader, teardown, reading, turn, ghosts
<1>28. CASE WaitForExit
  BY <1>28 DEF WaitForExit, Terminate, process, reader, teardown, reading, turn, ghosts
<1>29. CASE FinishStreams
  BY <1>29 DEF FinishStreams, Terminate, process, reader, teardown, reading, turn, ghosts
<1>30. CASE Return
  BY <1>0, <1>30 DEF Return, process, reader, teardown, reading, turn, ghosts
<1>31. CASE Interrupted
  BY <1>31 DEF Interrupted, Raise, Forget, process, reader, teardown, reading, turn, ghosts
<1>32. CASE UNCHANGED vars
  BY <1>32 DEF vars, process, reader, teardown, reading, turn, ghosts
<1> QED
  BY <1>1, <1>2, <1>3, <1>4, <1>5, <1>6, <1>7, <1>8, <1>9, <1>10, <1>11, <1>12,
     <1>13, <1>14, <1>15, <1>16, <1>17, <1>18, <1>19, <1>20, <1>21, <1>22, <1>23, <1>24,
     <1>25, <1>26, <1>27, <1>28, <1>29, <1>30, <1>31, <1>32
  DEF Next, Leaf, Pump, Conductor, Group, Way, Codex, Claude

(* Where a line of the stream is once it is written and not yet read.      *)
On(k, s) == \E i \in 1 .. Len(s) : s[i] = k
EofLast(s) == \A i \in 1 .. Len(s) : s[i] = "EOF" => i = Len(s)
Under(k) == On(k, pipe) \/ On(k, queue) \/ (pump = "put" /\ held = k)
Reading == why # "raised" /\ ~abandoned

\* While somebody listens the reader of stdout ends at the end of it.
PumpInv ==
  /\ ~stop
  /\ pump \in {"eof", "ends", "dead"} => Closed
  /\ pc = "start" \/ (pc = "start2" /\ backend = "codex") => pump = "off"
  /\ pc \notin {"start", "start2"} \/ (pc = "start2" /\ backend = "claude") => pump # "off"
  /\ pc # "flush"
  /\ pc \in {"result", "escape", "done"} => pump = "dead"

\* A line that was written is read or on its way, and none is made up.
LinesInv == \A k \in Events : k \in said <=> k \in heard \/ Under(k)

\* The end of the stream is the last of the queue, and nothing is left behind it.
EofInv ==
  /\ EofLast(queue)
  /\ On("EOF", queue) => pump \in {"ends", "dead"}
  /\ backend = "codex" /\ why = "none" /\ (pc = "eofwait" \/ After) =>
       queue = <<>> /\ pump \in {"ends", "dead"}

VerdictInv ==
  /\ pc \in {"wait", "finish", "finish2"} \/ (InTeardown /\ back = "finish2") => backend = "claude"
  /\ backend = "claude" => said = {}
  /\ result = "timeout" => why = "timeout" /\ (backend = "codex" => ~Healthy)
  /\ result = "answer" =>
       why \in {"none", "timeout"} /\ (backend = "codex" => "fail" \notin heard)

ReadInv ==
  /\ VerdictInv
  /\ Reading => PumpInv /\ EofInv /\ (backend = "codex" => LinesInv)

LEMMA OnAppend ==
  ASSUME NEW S, NEW s \in Seq(S), NEW x \in S, NEW k
  PROVE  /\ On(k, Append(s, x)) <=> On(k, s) \/ k = x
         /\ ~On("EOF", s) => EofLast(Append(s, x))
<1>1. /\ Len(Append(s, x)) = Len(s) + 1 /\ Len(s) \in Nat
      /\ \A i \in 1 .. Len(s) : Append(s, x)[i] = s[i]
      /\ Append(s, x)[Len(s) + 1] = x
  OBVIOUS
<1>2. \A i \in 1 .. Len(s) + 1 : i \in 1 .. Len(s) \/ i = Len(s) + 1
  BY <1>1
<1>3. 1 .. Len(s) \subseteq 1 .. Len(s) + 1 /\ Len(s) + 1 \in 1 .. Len(s) + 1
  BY <1>1
<1>4. On(k, Append(s, x)) <=> On(k, s) \/ k = x
  BY <1>1, <1>2, <1>3 DEF On
<1>5. ~On("EOF", s) => EofLast(Append(s, x))
  BY <1>1, <1>2 DEF On, EofLast
<1> QED BY <1>4, <1>5

LEMMA OnTail ==
  ASSUME NEW S, NEW s \in Seq(S), s # <<>>, NEW k
  PROVE  /\ On(k, s) <=> k = Head(s) \/ On(k, Tail(s))
         /\ EofLast(s) => EofLast(Tail(s)) /\ (Head(s) = "EOF" => Tail(s) = <<>>)
<1>1. /\ Len(s) \in Nat \ {0} /\ Tail(s) \in Seq(S) /\ Len(Tail(s)) = Len(s) - 1
      /\ Head(s) = s[1] /\ \A i \in 1 .. Len(s) - 1 : Tail(s)[i] = s[i + 1]
  OBVIOUS
<1>2. \A i \in 1 .. Len(s) : i = 1 \/ (i - 1 \in 1 .. Len(s) - 1 /\ i = (i - 1) + 1)
  BY <1>1
<1>3. 1 \in 1 .. Len(s) /\ \A i \in 1 .. Len(s) - 1 : i + 1 \in 1 .. Len(s)
  BY <1>1
<1>4. On(k, s) <=> k = Head(s) \/ On(k, Tail(s))
  BY <1>1, <1>2, <1>3 DEF On
<1>5. ASSUME EofLast(s) PROVE EofLast(Tail(s))
  <2>1. \A i \in 1 .. Len(s) - 1 : s[i + 1] = "EOF" => i + 1 = Len(s)
    BY <1>3, <1>5 DEF EofLast
  <2>2. \A n \in Nat : \A i \in 1 .. n - 1 : i + 1 = n => i = n - 1
    OBVIOUS
  <2>3. \A i \in 1 .. Len(s) - 1 : Tail(s)[i] = "EOF" => i = Len(s) - 1
    <3> TAKE i \in 1 .. Len(s) - 1
    <3>1. Tail(s)[i] = s[i + 1]
      BY <1>1
    <3>2. s[i + 1] = "EOF" => i = Len(s) - 1
      BY <1>1, <2>1, <2>2
    <3> QED BY ONLY <3>1, <3>2
  <2> DEFINE t == Tail(s)
  <2>4. Len(t) = Len(s) - 1
    BY <1>1
  <2>5. \A i \in 1 .. Len(s) - 1 : t[i] = "EOF" => i = Len(s) - 1
    BY <2>3
  <2>6. EofLast(t)
    <3> HIDE DEF t
    <3> QED BY <2>4, <2>5 DEF EofLast
  <2> QED BY <2>6
<1>6. ASSUME EofLast(s), Head(s) = "EOF" PROVE Tail(s) = <<>>
  <2>1. s[1] = "EOF" /\ 1 \in 1 .. Len(s)
    BY <1>1, <1>6
  <2>2. Len(s) = 1
    BY <2>1, <1>6 DEF EofLast
  <2>3. Len(Tail(s)) = 0
    BY <1>1, <2>2
  <2>4. \A t \in Seq(S) : Len(t) = 0 => t = <<>>
    OBVIOUS
  <2> QED BY <1>1, <2>3, <2>4
<1> QED BY <1>4, <1>5, <1>6

LEMMA OnNothing == \A k : ~On(k, <<>>)
  BY DEF On

(* A line that is written is read, or stays where it is counted.           *)
LEMMA ReadHolds ==
  ASSUME TypeOK, Place, WayInv, ReadInv, [Next]_vars
  PROVE  ReadInv'
<1> USE LeafAssumption DEF ReadInv, VerdictInv, Reading, PumpInv, LinesInv, EofInv, Under, Healthy,
      WayInv, Place, InTeardown, Before, Killing, After, Ends, TryPoints
<1>s. /\ pipe \in Seq(Lines) /\ queue \in Seq(Lines \cup {"EOF"})
      /\ held \in Lines \cup {None} /\ (pump = "put" => held # None)
      /\ Events \cap {"EOF", "noise", "id", "other"} = {} /\ None \notin Events \cup {"EOF"}
  BY DEF TypeOK
<1>b. backend \in {"codex", "claude"}
  BY DEF TypeOK
<1>0. why \in {"none", "cancelled", "timeout", "regerror", "unrecorded", "raised"}
  BY DEF TypeOK
<1>1. CASE LeafLeaks
  BY <1>1 DEF LeafLeaks, Closed, Holds, process, reader, teardown, reading, turn, ghosts
<1>2. CASE pc # "done" /\ LeafExits
  BY <1>2 DEF LeafExits, Closed, Holds, process, reader, teardown, reading, turn, ghosts
<1>3. CASE KinFloods
  <2>1. \A k : On(k, pipe') <=> On(k, pipe) \/ k = "noise"
    BY <1>3, <1>s, OnAppend DEF KinFloods, Lines
  <2>2. ~Closed
    BY <1>3 DEF KinFloods, Closed
  <2> QED BY <1>3, <1>s, <2>1, <2>2 DEF KinFloods, process, reader, teardown, reading, turn, ghosts
<1>4. CASE KinEnds
  BY <1>4 DEF KinEnds, Closed, Holds, process, reader, teardown, reading, turn, ghosts
<1>5. CASE PidIsReused
  BY <1>5 DEF PidIsReused, Closed, Holds, process, reader, teardown, reading, turn, ghosts
<1>6. CASE \E k \in Kinds : LeafWrites(k)
  <2> PICK j \in Kinds : LeafWrites(j)
    BY <1>6
  <2>1. \A k : On(k, pipe') <=> On(k, pipe) \/ k = j
    BY <1>s, OnAppend DEF LeafWrites, Lines
  <2>2. ~Closed
    BY DEF LeafWrites, Closed
  <2> QED BY <1>s, <2>1, <2>2 DEF LeafWrites, process, reader, teardown, reading, turn, ghosts
<1>7. CASE Pump \/ ErrEnds \/ Tick
  <2>1. CASE PumpReads
    <3>1. pipe # <<>> /\ pipe' = Tail(pipe) /\ pump = "read"
      BY <2>1 DEF PumpReads
    <3>2. \A k : On(k, pipe) <=> k = Head(pipe) \/ On(k, pipe')
      BY <1>s, <3>1, OnTail
    <3>3. ~stop => pump' \in {"read", "put"} /\ (backend = "codex" => pump' = "put" /\ held' = Head(pipe))
      BY <2>1 DEF PumpReads
    <3> QED BY <2>1, <3>1, <3>2, <3>3 DEF PumpReads, teardown, reading, turn, ghosts
  <2>2. CASE PumpAtEof
    BY <2>2 DEF PumpAtEof, Closed, Holds, process, reader, teardown, reading, turn, ghosts
  <2>3. CASE PumpPuts
    <3>1. \A x \in Lines \cup {"EOF"} : \A k : On(k, Append(queue, x)) <=> On(k, queue) \/ k = x
      BY <1>s, OnAppend
    <3>2. \A x \in Lines \cup {"EOF"} : ~On("EOF", queue) => EofLast(Append(queue, x))
      BY <1>s, OnAppend
    <3>3. CASE Reading /\ pump = "put"
      <4>1. queue' = Append(queue, held) /\ pump' = "read" /\ held \in Lines /\ held # "EOF"
        BY <1>s, <2>3, <3>3 DEF PumpPuts, Lines, Kinds, Threads
      <4>2. EofLast(queue') /\ ~On("EOF", queue') /\ \A k : On(k, queue') <=> On(k, queue) \/ k = held
        BY <3>1, <3>2, <3>3, <4>1
      <4> QED BY <2>3, <3>3, <4>1, <4>2 DEF PumpPuts, process, teardown, reading, turn, ghosts
    <3>4. CASE Reading /\ pump = "eof"
      <4>1. queue' = Append(queue, "EOF") /\ pump' = "ends"
        BY <2>3, <3>4 DEF PumpPuts
      <4>2. EofLast(queue') /\ \A k : On(k, queue') <=> On(k, queue) \/ k = "EOF"
        BY <3>1, <3>2, <3>4, <4>1
      <4> QED BY <1>s, <2>3, <3>4, <4>1, <4>2 DEF PumpPuts, Closed, Holds, process, teardown, reading, turn, ghosts
    <3>5. CASE ~Reading
      BY <2>3, <3>5 DEF PumpPuts, process, teardown, reading, turn, ghosts
    <3> QED BY <2>3, <3>3, <3>4, <3>5 DEF PumpPuts
  <2>4. CASE PumpEnds \/ ErrEnds \/ Tick
    BY <2>4 DEF PumpEnds, ErrEnds, Tick, Joining, Closed, Holds, process, reader, teardown, reading, turn, ghosts
  <2> QED BY <1>7, <2>1, <2>2, <2>3, <2>4 DEF Pump
<1>8. CASE Look
  BY <1>8 DEF Look, Closed, Holds, process, reader, teardown, reading, turn, ghosts
<1>9. CASE Signal
  BY <1>9 DEF Signal, Closed, Holds, process, reader, teardown, reading, turn, ghosts
<1>10. CASE GoneWithin
  BY <1>10 DEF GoneWithin, GoBack, Escalate, Reaped, Closed, Holds, process, reader, teardown, reading, turn, ghosts
<1>11. CASE StartReader
  BY <1>11, <1>b DEF StartReader, Raise, Forget, Kept, Closed, Holds, process, reader, teardown, reading, turn, ghosts
<1>12. CASE Unwind
  BY <1>12 DEF Unwind, Terminate, Closed, Holds, process, reader, teardown, reading, turn, ghosts
<1>13. CASE Join
  BY <1>13 DEF Join, Closed, Holds, process, reader, teardown, reading, turn, ghosts
<1>14. CASE LookBeforeWait
  BY <1>14 DEF LookBeforeWait, Closed, Holds, process, reader, teardown, reading, turn, ghosts
<1>15. CASE Get
  <2>1. CASE queue = <<>>
    BY <1>15, <2>1 DEF Get, Closed, Holds, process, reader, teardown, reading, turn, ghosts
  <2>2. CASE queue # <<>>
    <3>1. /\ queue' = Tail(queue) /\ Took(Head(queue)) /\ pc = "get"
          /\ UNCHANGED <<backend, process, pipe, pump, held, stop, abandoned, pre, ghosts>>
      BY <1>15, <2>2 DEF Get
    <3>2. /\ \A k : On(k, queue) <=> k = Head(queue) \/ On(k, queue')
          /\ EofLast(queue) => EofLast(queue') /\ (Head(queue) = "EOF" => queue' = <<>>)
      BY <1>s, <2>2, <3>1, OnTail
    <3>3. \A k \in Events : k \in heard' <=> k \in heard \/ k = Head(queue)
      BY <1>s, <3>1 DEF Took, Threads
    <3>4. \A k \in Events : Under(k) \/ k \in heard <=> (Under(k) \/ k \in heard)'
      BY <3>1, <3>2, <3>3
    <3>5. Reading /\ backend = "codex" => LinesInv'
      BY <3>1, <3>4 DEF ghosts
    <3>6. Reading => EofLast(queue') /\ (On("EOF", queue') => pump \in {"ends", "dead"})
      BY <3>2
    <3>7. /\ pc' \in {"eofwait", "head", "pre"}
          /\ pc' = "eofwait" => Head(queue) = "EOF"
          /\ why' = why \/ pc' = "pre"
      BY <3>1 DEF Took, Bind, Threads
    <3>8. Reading /\ pc' = "eofwait" => queue' = <<>> /\ pump \in {"ends", "dead"}
      BY <3>2, <3>7
    <3>9. Reading => PumpInv' /\ EofInv'
      BY <3>1, <3>6, <3>7, <3>8 DEF Closed, Holds, process
    <3>10. VerdictInv'
      <4>1. UNCHANGED <<result, said, backend, pre>> /\ result = "none" /\ pc' \notin {"wait", "finish", "finish2", "look", "signal", "grace"}
        BY <3>1, <3>7 DEF ghosts
      <4> QED BY <4>1
    <3>11. why # "raised"
      BY <3>1
    <3> QED BY <3>1, <3>5, <3>9, <3>10, <3>11
  <2> QED BY <2>1, <2>2
<1>16. CASE GetRaises
  BY <1>16 DEF GetRaises, Raise, Forget, Closed, Holds, process, reader, teardown, reading, turn, ghosts
<1>17. CASE AwaitExit
  BY <1>17 DEF AwaitExit, Closed, Holds, process, reader, teardown, reading, turn, ghosts
<1>18. CASE PollThenKill
  BY <1>18 DEF PollThenKill, Reaped, Terminate, Closed, Holds, process, reader, teardown, reading, turn, ghosts
<1>19. CASE Reap
  BY <1>19, <1>b DEF Reap, Reaped, Closed, Holds, process, reader, teardown, reading, turn, ghosts
<1>20. CASE Drain
  <2>1. CASE queue = <<>>
    BY <1>20, <2>1 DEF Drain, Closed, Holds, process, reader, teardown, reading, turn, ghosts
  <2>2. CASE queue # <<>>
    <3>1. /\ queue' = Tail(queue) /\ Leftover(Head(queue)) /\ pc = "drain" /\ pc' \in {"drain", "err"}
          /\ UNCHANGED <<backend, process, pipe, pump, held, stop, why, abandoned, pre, ghosts>>
      BY <1>20, <2>2 DEF Drain, Leftover, AfterLine
    <3>2. /\ \A k : On(k, queue) <=> k = Head(queue) \/ On(k, queue')
          /\ EofLast(queue) => EofLast(queue')
      BY <1>s, <2>2, <3>1, OnTail
    <3>3. \A k \in Events : k \in heard' <=> k \in heard \/ k = Head(queue)
      BY <1>s, <3>1 DEF Leftover, Threads
    <3>4. \A k \in Events : Under(k) \/ k \in heard <=> (Under(k) \/ k \in heard)'
      BY <3>1, <3>2, <3>3
    <3>5. Reading /\ backend = "codex" => LinesInv'
      BY <3>1, <3>4 DEF ghosts
    <3>6. Reading => PumpInv' /\ EofInv'
      BY <2>2, <3>1, <3>2 DEF Closed, Holds, process
    <3>7. VerdictInv'
      BY <3>1 DEF ghosts
    <3> QED BY <3>1, <3>5, <3>6, <3>7
  <2> QED BY <2>1, <2>2
<1>21. CASE DrainRaises
  BY <1>21 DEF DrainRaises, Raise, Forget, Closed, Holds, process, reader, teardown, reading, turn, ghosts
<1>22. CASE LookAtPump
  BY <1>22 DEF LookAtPump, Closed, Holds, process, reader, teardown, reading, turn, ghosts
<1>23. CASE JoinErr
  BY <1>23 DEF JoinErr, Terminate, Closed, Holds, process, reader, teardown, reading, turn, ghosts
<1>24. CASE GiveUp
  BY <1>24 DEF GiveUp, ErrDead, PumpDead, Closed, Holds, process, reader, teardown, reading, turn, ghosts
<1>25. CASE Flush
  BY <1>25 DEF Flush, process, teardown, reading, turn, ghosts
<1>26. CASE BindDrained
  BY <1>26 DEF BindDrained, Bind, Unbound, Healthy, Closed, Holds, process, reader, teardown, reading, turn, ghosts
<1>27. CASE Conclude
  BY <1>0, <1>27 DEF Conclude, Unbound, Verdict, Healthy, Closed, Holds, process, reader, teardown, reading, turn, ghosts
<1>28. CASE WaitForExit
  BY <1>28 DEF WaitForExit, Terminate, Closed, Holds, process, reader, teardown, reading, turn, ghosts
<1>29. CASE FinishStreams
  BY <1>29 DEF FinishStreams, ErrDead, PumpDead, Terminate, Closed, Holds, process, reader, teardown, reading, turn, ghosts
<1>30. CASE Return
  BY <1>0, <1>30 DEF Return, Closed, Holds, process, reader, teardown, reading, turn, ghosts
<1>31. CASE Interrupted
  BY <1>31 DEF Interrupted, Raise, Forget, Closed, Holds, process, reader, teardown, reading, turn, ghosts
<1>32. CASE UNCHANGED vars
  BY <1>32 DEF vars, Closed, Holds, process, reader, teardown, reading, turn, ghosts
<1> QED
  BY <1>1, <1>2, <1>3, <1>4, <1>5, <1>6, <1>7, <1>8, <1>9, <1>10, <1>11, <1>12,
     <1>13, <1>14, <1>15, <1>16, <1>17, <1>18, <1>19, <1>20, <1>21, <1>22, <1>23, <1>24,
     <1>25, <1>26, <1>27, <1>28, <1>29, <1>30, <1>31, <1>32
  DEF Next, Leaf, Pump, Conductor, Group, Way, Codex, Claude

-----------------------------------------------------------------------------
(* The theorems.                                                           *)

LEMMA InitHolds ==
  Init => WayInv /\ PidInv /\ StrangerInv /\ StopInv /\ StatusInv /\ ThreadInv
  BY DEF Init, WayInv, PidInv, StrangerInv, StopInv, AllAreStopped, StatusInv, ThreadInv,
         AcceptedStands, Stopped, InTeardown, Before, Killing, After, Ends, InGroup

LEMMA PlaceOfTypes == TypeOK => Place
  BY TypeParts

(* However the conductor ends a leaf before its time, by the cap, a        *)
(* cancellation, a refused record or an exception, the leaf and what is    *)
(* left in its group are gone or have been sent SIGKILL.                   *)
THEOREM GroupIsStopped == Spec => []AllAreStopped
<1>1. TypeOK /\ WayInv /\ PidInv /\ StopInv /\ [Next]_vars => (WayInv /\ PidInv /\ StopInv)'
  BY PlaceOfTypes, WayHolds, PidHolds, StopHolds
<1>2. StopInv => AllAreStopped
  BY DEF StopInv
<1> QED BY <1>1, <1>2, InitHolds, TypeSafe, PTL DEF Spec

(* A process that has the leaf's pid after it is signalled at most once,   *)
(* and only when it got the pid after the look that precedes the signal.   *)
THEOREM StrangersAreSafe == Spec => []NoStrangerIsSignalled
<1>1. TypeOK /\ PidInv /\ StrangerInv /\ [Next]_vars => (PidInv /\ StrangerInv)'
  BY PlaceOfTypes, PidHolds, StrangerHolds
<1>2. StrangerInv => NoStrangerIsSignalled
  BY DEF StrangerInv, NoStrangerIsSignalled
<1> QED BY <1>1, <1>2, InitHolds, TypeSafe, PTL DEF Spec

LEMMA AnswerInvariant == Spec => [](TypeOK /\ WayInv /\ StatusInv /\ ThreadInv)
<1>1. TypeOK /\ WayInv /\ StatusInv /\ ThreadInv /\ [Next]_vars => (WayInv /\ StatusInv /\ ThreadInv)'
  BY PlaceOfTypes, WayHolds, StatusHolds, ThreadHolds
<1> QED BY <1>1, InitHolds, TypeSafe, PTL DEF Spec

(* An accepted turn is that of a leaf that ended by itself with 0, and its *)
(* thread is the one recorded.                                             *)
THEOREM AnswersStand == Spec => []AcceptedStands
<1>1. ThreadInv => AcceptedStands
  BY DEF ThreadInv
<1> QED BY <1>1, AnswerInvariant, PTL

(* The turn is read to its end: what had been written and was not read at   *)
(* the verdict is behind a stream that was given up, or in the queue.      *)
THEOREM TurnsAreReadOut == Spec => []TurnIsReadOut
<1>1. Init => ReadInv
  BY OnNothing, LeafAssumption DEF Init, ReadInv, VerdictInv, Reading, PumpInv, EofInv, LinesInv, EofLast, On,
     Under, After, InTeardown
<1>2. TypeOK /\ WayInv /\ ReadInv /\ [Next]_vars => ReadInv'
  BY PlaceOfTypes, ReadHolds
<1>3. TypeOK /\ WayInv /\ ReadInv => TurnIsReadOut
  <2> SUFFICES ASSUME TypeOK, WayInv, ReadInv, ~abandoned, result \in {"timeout", "answer"}
               PROVE  /\ result = "timeout" /\ pre = "zero" /\ "msg" \in said /\ "fail" \notin said =>
                            queue # <<>>
                      /\ result = "answer" /\ "fail" \in said => why = "timeout"
    BY DEF TurnIsReadOut
  <2>1. pc = "done" /\ why # "raised"
    BY DEF WayInv, ReadInv, VerdictInv
  <2>2. PumpInv /\ EofInv /\ (backend = "codex" => LinesInv)
    BY <2>1 DEF ReadInv, Reading
  <2>3. pump = "dead" /\ pipe = <<>>
    BY <2>1, <2>2 DEF PumpInv, Closed
  <2>4. backend \in {"codex", "claude"}
    BY LeafAssumption DEF TypeOK
  <2>5. CASE backend = "claude"
    BY <2>5 DEF ReadInv, VerdictInv
  <2>6. CASE backend = "codex" /\ queue = <<>>
    <3>1. \A k \in Events : k \in said <=> k \in heard
      BY <2>2, <2>3, <2>6, OnNothing DEF LinesInv, Under
    <3>2. heard \subseteq Events
      BY DEF TypeOK
    <3>3. said \subseteq Kinds
      BY DEF TypeOK
    <3>4. "msg" \in said => ("msg" \in Events)
      BY <3>3 DEF Kinds, Threads
    <3>5. "fail" \in said => ("fail" \in Events)
      BY <3>3 DEF Kinds, Threads
    <3> QED BY <2>6, <3>1, <3>2, <3>4, <3>5 DEF ReadInv, VerdictInv, Healthy
  <2>7. CASE backend = "codex" /\ queue # <<>>
    BY <2>1, <2>2, <2>7 DEF EofInv, After, ReadInv, VerdictInv
  <2> QED BY <2>4, <2>5, <2>6, <2>7
<1> QED BY <1>1, <1>2, <1>3, AnswerInvariant, PTL DEF Spec

(* No thread is recorded for a leaf that was told to end or cancelled.     *)
THEOREM KilledAreNotBound == Spec => NoBindingForTheKilled
<1>1. TypeOK /\ WayInv /\ StatusInv /\ ThreadInv /\ [Next]_vars
        => (bound' # bound => ~told /\ why # "cancelled")
  <2> SUFFICES ASSUME TypeOK, WayInv, StatusInv, [Next]_vars, bound' # bound
               PROVE  ~told /\ why # "cancelled"
    OBVIOUS
  <2>1. CASE Get
    BY <2>1 DEF Get, WayInv, StatusInv, Before
  <2>2. CASE BindDrained
    BY <2>2 DEF BindDrained, Unbound, Healthy, TypeOK, WayInv, StatusInv, After, InTeardown
  <2>3. CASE ~(Get \/ BindDrained)
    <3>1. UNCHANGED bound
      BY <2>3 DEF Next, Leaf, Pump, Conductor, Group, Way, Codex, Claude, vars, turn,
        LeafLeaks, LeafExits, KinFloods, KinEnds, PidIsReused, LeafWrites,
        PumpReads, PumpAtEof, PumpPuts, PumpEnds, ErrEnds, Look, Signal, GoneWithin,
        StartReader, Unwind, Join, LookBeforeWait, GetRaises, AwaitExit, PollThenKill, Reap,
        Drain, Leftover, DrainRaises, LookAtPump, JoinErr, GiveUp, Flush, Conclude,
        WaitForExit, FinishStreams, Return, Interrupted, Tick
    <3> QED BY <3>1
  <2> QED BY <2>1, <2>2, <2>3
<1>2. TypeOK /\ WayInv /\ StatusInv /\ ThreadInv /\ [Next]_vars
        => [bound' # bound => ~told /\ why # "cancelled"]_vars
  BY <1>1
<1> QED BY <1>2, AnswerInvariant, PTL DEF Spec, NoBindingForTheKilled

-----------------------------------------------------------------------------
(***************************************************************************)
(* The job at a remote site.  Its proof rests on one induction, JobInv:    *)
(* where the driver and its ssh call are, what the script's commands did,  *)
(* that each command that ended has its line unless one was taken, that a  *)
(* shipped file which still looks like its source was read as that unless  *)
(* a rewrite was undone, and which attempt built a binary.                 *)
(***************************************************************************)
USE PlacesAssumption

DriverTyped ==
  /\ driver \in Waits \cup Steps \cup {"ended"}
  /\ att \in 0 .. MaxAttempts
  /\ kind \in [Attempts -> JobKinds] /\ place \in [Attempts -> Places \cup {Nothing}]
  /\ used \in [Attempts -> Binary \cup {Nothing}]

SiteTyped ==
  /\ proc \in [Attempts -> Calls \cup {"none", "answered", "failed"}]
  /\ {node, answer} \subseteq [Attempts -> Machines \cup {Nothing}]
  /\ did \in [Attempts -> Seq(Deed)] /\ touched \in [Attempts -> SUBSET {"line", "input"}]
  /\ \A a \in Attempts : answer[a] \in {node[a], Nothing} /\ Len(did[a]) <= Commands[kind[a]]
  /\ dir \in [Attempts -> BOOLEAN] /\ parent \in BOOLEAN

ReceiptTyped ==
  /\ printed \in Seq([command : Nat, code : Codes])
  /\ local \in Input
  /\ files \in Content \cup {Nothing} /\ copy \in Content \cup {Nothing}

RecordTyped ==
  /\ read \in [Attempts -> Report \cup {Nothing}]
  /\ log \subseteq [attempt : Attempts, command : Nat, code : Codes, input : Input]
  /\ binary \in Binary \cup {Nothing}

(* Where the driver is in an attempt and how far its ssh call has come at   *)
(* the site; an attempt that is not made yet has done nothing.              *)
InStep ==
  /\ driver # "ended" => att \in Attempts
  /\ driver = "create" => proc[att] \in {"parent", "mkdir", "answered", "failed"}
  /\ driver = "run" => proc[att] \in {"start", "next", "command", "answered", "failed"}
  /\ driver = "remove" => proc[att] \in {"rm", "rmdir", "answered"}
  /\ driver \in Steps => proc[att] = "answered"
  /\ driver \in {"create", "stage"} => did[att] = <<>>
  /\ driver \in {"run", "collect"} => files \in Content
  /\ \A a \in Attempts :
       /\ proc[a] # "none" => place[a] \in Places
       /\ a > att => proc[a] = "none" /\ ~dir[a] /\ used[a] = Nothing /\ read[a] = Nothing

(* The script's progress and what its commands did agree.                   *)
InProgress ==
  \A a \in Attempts :
    /\ proc[a] \in {"none", "parent", "mkdir", "start"} => did[a] = <<>>
    /\ proc[a] = "command" => did[a] # <<>>
    /\ \A i \in DOMAIN did[a] :
         did[a][i].code = "running" => proc[a] = "command" /\ i = Len(did[a])

(* A job that answered the driver had no command left to run.               *)
RunOut ==
  (driver = "run" /\ proc[att] = "answered") \/ driver \in {"collect", "check"} => ~More(att)

(* Every command that ended while the driver waited has its line, when none *)
(* was taken.                                                               *)
Reported ==
  driver \in {"run", "collect", "check"} /\ "line" \notin touched[att] =>
    \A i \in DOMAIN did[att] :
      did[att][i].code # "running" =>
        \E k \in DOMAIN printed : printed[k] = [command |-> i, code |-> did[att][i].code]

(* A shipped file that was rewritten does not look like an input again, as  *)
(* long as no rewrite is undone, so one that still does is what every       *)
(* command read.                                                            *)
AsShipped ==
  "input" \notin touched[att] =>
    /\ driver \in {"run", "collect"} =>
         \A i \in DOMAIN did[att] : files.input \in {did[att][i].input, Changed}
    /\ driver = "check" =>
         \A i \in DOMAIN did[att] : copy.input \in {did[att][i].input, Changed}

(* What was read of an attempt is what its commands did, as far as nothing  *)
(* was hidden of it, and stays so: its job is over.                         *)
ReadRight ==
  \A a \in Attempts : read[a] # Nothing =>
    /\ proc[a] \in {"rm", "rmdir", "answered"}
    /\ a = att => driver \in {"remove", "append", "record", "ended"}
    /\ \A i \in DOMAIN read[a].codes : read[a].codes[i] # "nostart"
    /\ "line" \notin touched[a] =>
         /\ DOMAIN read[a].codes = DOMAIN did[a]
         /\ \A i \in DOMAIN did[a] : did[a][i].code = read[a].codes[i]
    /\ "input" \notin touched[a] =>
         \A i \in DOMAIN did[a] : did[a][i].input = read[a].input

(* The host removes and records what it has read.                           *)
ReadFirst ==
  /\ driver \in {"remove", "append", "record"} => read[att] # Nothing
  /\ \A a \in Attempts : proc[a] \in {"rm", "rmdir"} \/ (did[a] # <<>> /\ ~dir[a]) =>
                           read[a] # Nothing

(* An entry repeats what was read.                                          *)
Logged ==
  \A e \in log :
    /\ e.attempt \in Attempts /\ read[e.attempt] # Nothing
    /\ e.command \in DOMAIN read[e.attempt].codes
    /\ e.code = read[e.attempt].codes[e.command] /\ e.input = read[e.attempt].input

(* A record of a binary tells of an attempt that is over.                   *)
IsOf(b) ==
  /\ b.att \in Attempts /\ proc[b.att] = "answered"
  /\ b.place = place[b.att] /\ b.machine = answer[b.att]

BuiltWhere ==
  /\ binary # Nothing => /\ IsOf(binary)
                         /\ binary.att < att \/ (binary.att = att /\ driver = "ended")
  /\ \A a \in Attempts :
       /\ used[a] # Nothing => IsOf(used[a]) /\ used[a].att < a
       /\ kind[a] = "execute" /\ proc[a] # "none" =>
            used[a] # Nothing /\ used[a].place = place[a] /\ used[a].machine # Nothing
       /\ kind[a] = "execute" /\ (proc[a] \in {"next", "command"} \/ did[a] # <<>>) =>
            node[a] = used[a].machine

JobInv ==
  /\ DriverTyped /\ SiteTyped /\ ReceiptTyped /\ RecordTyped
  /\ InStep /\ InProgress /\ RunOut /\ Reported /\ AsShipped
  /\ ReadRight /\ ReadFirst /\ Logged /\ BuiltWhere

Codewise(a) == [i \in Ran(a) |-> CHOOSE st \in Codes : Tells(i, st)]

LEMMA LineIsAppended ==
  ASSUME NEW S, NEW s \in Seq(S), NEW x \in S
  PROVE  /\ Append(s, x) \in Seq(S)
         /\ \A k \in DOMAIN s : k \in DOMAIN Append(s, x) /\ Append(s, x)[k] = s[k]
         /\ Len(s) + 1 \in DOMAIN Append(s, x) /\ Append(s, x)[Len(s) + 1] = x
<1>1. Append(s, x) \in Seq(S) /\ Len(Append(s, x)) = Len(s) + 1 /\ Len(s) \in Nat
  OBVIOUS
<1>2. \A k \in 1 .. Len(s) : Append(s, x)[k] = s[k]
  OBVIOUS
<1>3. Append(s, x)[Len(s) + 1] = x
  OBVIOUS
<1>4. DOMAIN s = 1 .. Len(s) /\ DOMAIN Append(s, x) = 1 .. Len(s) + 1
  BY <1>1
<1> QED  BY <1>1, <1>2, <1>3, <1>4

(* A command has one line, and so tells one code.                          *)
LEMMA TellsOne ==
  ASSUME NEW i, NEW c, NEW d, Tells(i, c), Tells(i, d)
  PROVE  c = d
<1>1. PICK k \in DOMAIN printed : Statuses(i) = {k} /\ printed[k].code = c
  BY DEF Tells
<1>2. PICK m \in DOMAIN printed : Statuses(i) = {m} /\ printed[m].code = d
  BY DEF Tells
<1>3. k = m
  BY <1>1, <1>2
<1> QED  BY <1>1, <1>2, <1>3

(* What the driver reads of lines that agree is what the commands did, when *)
(* none was taken: each has a line of its own, so a line that was added     *)
(* makes two of them, or one of a command that did not run.                 *)
LEMMA RanAsReported ==
  ASSUME JobInv, driver = "check", StatusesAgree(att), "line" \notin touched[att]
  PROVE  /\ DOMAIN did[att] = 1 .. Len(did[att]) /\ Ran(att) = DOMAIN did[att]
         /\ \A i \in DOMAIN did[att] : /\ did[att][i].code \in Codes
                                      /\ Tells(i, did[att][i].code)
                                      /\ Codewise(att)[i] = did[att][i].code
<1> DEFINE D == did[att]
           n == Len(D)
           c == Commands[kind[att]]
<1>1. /\ att \in Attempts /\ D \in Seq(Deed) /\ n \in Nat /\ c \in Nat /\ n <= c
      /\ DOMAIN D = 1 .. n
  BY DEF JobInv, DriverTyped, SiteTyped, InStep
<1>2. \A i \in 1 .. n : D[i].code \in Codes
  <2>1. \A i \in 1 .. n : D[i] \in Deed
    BY <1>1
  <2>2. \A i \in 1 .. n : D[i].code # "running"
    BY <1>1 DEF JobInv, InStep, Steps, InProgress
  <2> QED  BY <2>1, <2>2 DEF Deed
<1>3. \A i \in 1 .. n : \E k \in DOMAIN printed : printed[k] = [command |-> i, code |-> D[i].code]
  BY <1>1, <1>2 DEF JobInv, Reported, Codes
<1>4. ASSUME NEW i \in 1 .. n PROVE UpstreamOk(i) /\ Tells(i, D[i].code)
  <2>1. PICK k \in DOMAIN printed : printed[k] = [command |-> i, code |-> D[i].code]
    BY <1>3
  <2>2. k \in Statuses(i) /\ i \in 1 .. c
    BY <1>1, <2>1 DEF Statuses
  <2>3. UpstreamOk(i) /\ \E st \in Codes : Tells(i, st)
    BY <2>2 DEF StatusesAgree
  <2>4. PICK m \in DOMAIN printed : Statuses(i) = {m}
    BY <2>3 DEF Tells
  <2>5. Statuses(i) = {k} /\ printed[k].code = D[i].code
    <3>1. k \in {m}
      BY <2>2, <2>4
    <3>2. printed[k].code = D[i].code
      BY <2>1
    <3> QED  BY <2>4, <3>1, <3>2
  <2> HIDE DEF D
  <2> QED  BY <2>3, <2>5 DEF Tells
<1>5. ASSUME NEW i \in 1 .. c, UpstreamOk(i), i > n PROVE FALSE
  <2>1. PICK j \in 1 .. n : D[j].code # "ok"
    BY <1>1, <1>5 DEF JobInv, RunOut, More
  <2>2. j \in 1 .. i - 1
    BY <1>1, <1>5
  <2>3. Tells(j, "ok") /\ Tells(j, D[j].code)
    BY <1>4, <1>5, <2>2 DEF UpstreamOk
  <2> QED  BY <2>1, <2>3, TellsOne
<1>6. Ran(att) = 1 .. n
  <2>1. \A i \in Ran(att) : i \in 1 .. n
    BY <1>1, <1>5 DEF Ran
  <2>2. \A i \in 1 .. n : i \in Ran(att)
    BY <1>1, <1>4 DEF Ran
  <2> QED  BY <2>1, <2>2
<1>7. ASSUME NEW i \in 1 .. n PROVE Codewise(att)[i] = D[i].code
  <2>1. \E st \in Codes : Tells(i, st)
    BY <1>2, <1>4
  <2>2. Tells(i, CHOOSE st \in Codes : Tells(i, st))
    BY <2>1
  <2>3. (CHOOSE st \in Codes : Tells(i, st)) = D[i].code
    BY <1>4, <2>2, TellsOne
  <2> QED  BY <1>6, <2>3 DEF Codewise
<1> QED  BY <1>1, <1>2, <1>4, <1>6, <1>7

(* The commands that ran, as lines that agree tell it, are the first ones,  *)
(* and each tells one code - whatever the lines are.                        *)
LEMMA RanAreFirst ==
  ASSUME NEW a \in Attempts, Commands[kind[a]] \in Nat, StatusesAgree(a)
  PROVE  /\ \E n \in 0 .. Commands[kind[a]] : Ran(a) = 1 .. n
         /\ \A i \in Ran(a) : /\ Codewise(a)[i] \in Codes
                              /\ Tells(i, Codewise(a)[i])
<1> DEFINE c == Commands[kind[a]]
           U == {i \in 1 .. c + 1 : i = c + 1 \/ ~UpstreamOk(i)}
<1>1. U \in SUBSET Nat /\ c + 1 \in U
  OBVIOUS
<1>2. PICK m \in U : \A j \in U : ~(<<j, m>> \in OpToRel(<, Nat))
  BY <1>1, NatLessThanWellFounded, WFMin
<1>3. m \in 1 .. c + 1 /\ \A j \in U : m <= j
  <2>1. m \in Nat /\ \A j \in U : j \in Nat /\ ~(j < m)
    BY <1>1, <1>2 DEF OpToRel
  <2>2. m \in 1 .. c + 1
    OBVIOUS
  <2> HIDE DEF U
  <2> QED  BY <2>1, <2>2
<1>4. Ran(a) = 1 .. m - 1
  <2>1. ASSUME NEW i \in 1 .. m - 1 PROVE i \in Ran(a)
    <3>1. i \in 1 .. c /\ i \notin U
      BY <1>3
    <3> QED  BY <3>1 DEF Ran
  <2>2. ASSUME NEW i \in Ran(a) PROVE i \in 1 .. m - 1
    <3>1. i \in 1 .. c /\ UpstreamOk(i)
      BY DEF Ran
    <3>2. m <= i => UpstreamOk(m)
      BY <1>3, <3>1 DEF UpstreamOk
    <3>3. m <= i => m = c + 1
      BY <3>2
    <3> QED  BY <1>3, <3>1, <3>3
  <2> QED  BY <2>1, <2>2
<1>5. ASSUME NEW i \in Ran(a) PROVE Codewise(a)[i] \in Codes /\ Tells(i, Codewise(a)[i])
  <2>1. \E st \in Codes : Tells(i, st)
    BY DEF Ran, StatusesAgree
  <2>2. LET st == CHOOSE st \in Codes : Tells(i, st) IN st \in Codes /\ Tells(i, st)
    BY <2>1
  <2> QED  BY <2>2 DEF Codewise
<1>6. m - 1 \in 0 .. c
  BY <1>3
<1> QED  BY <1>4, <1>5, <1>6

LEMMA ReportShape ==
  ASSUME NEW r \in Report
  PROVE  r.input \in Input /\ \E n \in Nat : r.codes \in [1 .. n -> Codes]
<1>1. PICK n \in Lengths : r.codes \in [1 .. n -> Codes]
  BY DEF Report
<1>2. n \in Nat
  BY <1>1 DEF Lengths, JobKinds
<1> QED  BY <1>1, <1>2 DEF Report

(* A command whose entry is missing has a first.                           *)
LEMMA FirstUnlogged ==
  ASSUME NEW n \in Nat, NEW U \in SUBSET (1 .. n), U # {}
  PROVE  (CHOOSE i \in U : \A j \in U : i <= j) \in U
<1>1. U \in SUBSET Nat
  OBVIOUS
<1>2. PICK i \in U : \A j \in U : ~(<<j, i>> \in OpToRel(<, Nat))
  BY <1>1, NatLessThanWellFounded, WFMin
<1>3. \A j \in U : i <= j
  <2> TAKE j \in U
  <2>1. i \in Nat /\ j \in Nat
    BY <1>1
  <2>2. ~(j < i)
    BY <1>2, <2>1 DEF OpToRel
  <2> QED  BY <2>1, <2>2
<1>4. \E x \in U : \A j \in U : x <= j
  BY <1>3
<1> QED  BY <1>4

LEMMA AttemptStarts ==
  ASSUME JobInv, NEW k \in JobKinds, NEW p \in Places, Start(k, p)
  PROVE  JobInv'
<1> USE DEF attempts, site, receipt, records, Refuse, Calling, Goes, Steps, Waits
<1>a. att \in Nat /\ att' = att + 1 /\ att' \in Attempts
  BY DEF JobInv, DriverTyped, Start, Attempts
<1>b. /\ binary \in Binary \cup {Nothing}
      /\ used' = [used EXCEPT ![att'] = IF k = "execute" THEN binary ELSE Nothing]
  BY DEF JobInv, RecordTyped, Start
<1>c. did[att'] = <<>> /\ proc[att'] = "none" /\ \A n \in Nat : Len(did[att']) <= n
  BY <1>a DEF JobInv, InStep, InProgress
<1>1. DriverTyped'
  BY <1>a, <1>b DEF JobInv, DriverTyped, Start
<1>2. SiteTyped'
  BY <1>a, <1>c DEF JobInv, DriverTyped, SiteTyped, Calls, Start
<1>3. (ReceiptTyped /\ RecordTyped /\ Logged)'
  BY DEF JobInv, ReceiptTyped, Start, RunsWhereBuilt, NamesMachine, RecordTyped, Logged,
     DriverTyped, InStep
<1>4. InStep'
  BY <1>a, <1>c DEF JobInv, DriverTyped, SiteTyped, InStep, Start
<1>5. (InProgress /\ RunOut /\ Reported)'
  BY DEF JobInv, DriverTyped, SiteTyped, InStep, InProgress, RunOut, More, Reported, Start,
     RunsWhereBuilt, NamesMachine
<1>6. AsShipped'
  BY DEF JobInv, DriverTyped, SiteTyped, InStep, AsShipped, Start, RunsWhereBuilt, NamesMachine
<1>7. (ReadRight /\ ReadFirst)'
  BY DEF JobInv, DriverTyped, SiteTyped, InStep, InProgress, ReadRight, ReadFirst, Start,
     RunsWhereBuilt, NamesMachine
<1>8. BuiltWhere'
  <2>0. ASSUME NEW b, IsOf(b), b.att <= att PROVE IsOf(b)'
    <3>1. b.att \in Attempts /\ b.att # att'
      BY <1>a, <2>0 DEF IsOf, Attempts
    <3>2. place'[b.att] = place[b.att] /\ answer' = answer
      BY <1>a, <3>1 DEF JobInv, DriverTyped, Start
    <3>3. proc'[b.att] = proc[b.att]
      BY <1>a, <3>1 DEF JobInv, SiteTyped, Start
    <3> QED  BY <2>0, <3>1, <3>2, <3>3 DEF IsOf
  <2>1. binary # Nothing => IsOf(binary)' /\ binary.att < att'
    <3>1. binary # Nothing => IsOf(binary) /\ binary.att <= att /\ binary.att < att'
      <4>1. binary # Nothing => IsOf(binary) /\ (binary.att < att \/ binary.att = att)
        BY DEF JobInv, BuiltWhere
      <4>2. IsOf(binary) => binary.att \in Nat
        BY DEF IsOf, Attempts
      <4> QED  BY <1>a, <4>1, <4>2
    <3> QED  BY <2>0, <3>1 DEF Start
  <2>2. ASSUME NEW a \in Attempts, a # att', used[a] # Nothing
        PROVE  IsOf(used[a])'
    <3>1. a <= att
      BY <1>a, <2>2 DEF JobInv, InStep, Attempts
    <3>2. IsOf(used[a]) /\ used[a].att <= att
      BY <1>a, <2>2, <3>1 DEF JobInv, BuiltWhere, IsOf, Attempts
    <3>3. used'[a] = used[a]
      BY <1>a, <2>2 DEF JobInv, DriverTyped, Start
    <3> QED  BY <2>0, <3>2, <3>3
  <2>3. UNCHANGED <<binary, did, node>>
    BY DEF Start
  <2>4. ASSUME NEW a \in Attempts, a # att' PROVE UNCHANGED <<used[a], kind[a], proc[a], place[a]>>
    BY <2>4 DEF JobInv, DriverTyped, SiteTyped, Start
  <2>5. /\ used'[att'] = (IF k = "execute" THEN binary ELSE Nothing)
        /\ kind'[att'] = k /\ place'[att'] = p /\ did[att'] = <<>>
        /\ proc'[att'] # "none" =>
             proc'[att'] = "parent" /\ RunsWhereBuilt(used'[att'], p) /\ NamesMachine(used'[att'])
        /\ k = "execute" => binary # Nothing
    BY <1>a, <1>c DEF JobInv, DriverTyped, SiteTyped, Start
  <2> QED
    BY <2>1, <2>2, <2>3, <2>4, <2>5 DEF JobInv, BuiltWhere, RunsWhereBuilt, NamesMachine
<1> QED BY <1>1, <1>2, <1>3, <1>4, <1>5, <1>6, <1>7, <1>8 DEF JobInv

LEMMA CallAnswers ==
  ASSUME JobInv, Answered
  PROVE  JobInv'
<1> USE DEF attempts, site, receipt, records, Refuse, Calling, Goes, Steps, Waits
<1>1. (DriverTyped /\ ReceiptTyped /\ RecordTyped /\ Logged)'
  BY DEF JobInv, DriverTyped, Answered, Waits, ReceiptTyped, RecordTyped, Logged, InStep
<1>2. SiteTyped'
  BY DEF JobInv, SiteTyped, Calls, DriverTyped, Answered, Waits
<1>3. InStep'
  BY DEF JobInv, DriverTyped, SiteTyped, InStep, Answered, Waits
<1>4. (InProgress /\ RunOut /\ Reported)'
  BY DEF JobInv, DriverTyped, SiteTyped, InStep, InProgress, RunOut, More, Reported, Answered,
     Waits
<1>5. AsShipped'
  BY DEF JobInv, DriverTyped, SiteTyped, InStep, AsShipped, Answered, Waits
<1>6. (ReadRight /\ ReadFirst)'
  BY DEF JobInv, DriverTyped, SiteTyped, InStep, InProgress, ReadRight, ReadFirst, Answered, Waits
<1>7. BuiltWhere'
  BY DEF JobInv, DriverTyped, SiteTyped, InStep, InProgress, BuiltWhere, IsOf, Answered, Waits
<1> QED BY <1>1, <1>2, <1>3, <1>4, <1>5, <1>6, <1>7 DEF JobInv

LEMMA AttemptIsLeft ==
  ASSUME JobInv, Refuse /\ UNCHANGED <<attempts, site, local, records>>
  PROVE  JobInv'
<1> USE DEF attempts, site, receipt, records, Refuse, Calling, Goes, Steps, Waits
<1>1. (DriverTyped /\ ReceiptTyped /\ RecordTyped /\ Logged)'
  BY DEF JobInv, DriverTyped, ReceiptTyped, RecordTyped, Logged, InStep
<1>2. SiteTyped'
  BY DEF JobInv, SiteTyped, Calls, DriverTyped
<1>3. InStep'
  BY DEF JobInv, DriverTyped, SiteTyped, InStep
<1>4. (InProgress /\ RunOut /\ Reported)'
  BY DEF JobInv, DriverTyped, SiteTyped, InStep, InProgress, RunOut, More, Reported
<1>5. AsShipped'
  BY DEF JobInv, DriverTyped, SiteTyped, InStep, AsShipped
<1>6. (ReadRight /\ ReadFirst)'
  BY DEF JobInv, DriverTyped, SiteTyped, InStep, InProgress, ReadRight, ReadFirst
<1>7. BuiltWhere'
  BY DEF JobInv, DriverTyped, SiteTyped, InStep, InProgress, BuiltWhere, IsOf
<1> QED BY <1>1, <1>2, <1>3, <1>4, <1>5, <1>6, <1>7 DEF JobInv

LEMMA JobIsShipped ==
  ASSUME JobInv, Stage
  PROVE  JobInv'
<1> USE DEF attempts, site, receipt, records, Refuse, Calling, Goes, Steps, Waits
<1>1. CASE Refuse /\ UNCHANGED <<attempts, site, local, records>>
  BY <1>1, AttemptIsLeft
<1>2. CASE /\ driver = "stage"
             /\ files' = [input |-> local, output |-> TRUE, binary |-> FALSE]
             /\ Calling(att, "run", "start")
             /\ UNCHANGED <<printed, copy, attempts, node, answer, dir, parent, did, touched,
                            local, records>>
  <2>1. (DriverTyped /\ ReceiptTyped /\ RecordTyped /\ Logged)'
    BY <1>2 DEF JobInv, DriverTyped, ReceiptTyped, Content, RecordTyped, Logged, InStep
  <2>2. SiteTyped'
    BY <1>2 DEF JobInv, SiteTyped, Calls, DriverTyped
  <2>3. InStep'
    <3>1. files' \in Content
      BY <1>2 DEF JobInv, ReceiptTyped, Content
    <3> QED
      BY <1>2, <3>1 DEF JobInv, DriverTyped, SiteTyped, InStep
  <2>4. (InProgress /\ RunOut /\ Reported)'
    BY <1>2 DEF JobInv, DriverTyped, SiteTyped, InStep, InProgress, RunOut, More, Reported
  <2>5. AsShipped'
    BY <1>2 DEF JobInv, DriverTyped, SiteTyped, InStep, AsShipped
  <2>6. (ReadRight /\ ReadFirst)'
    BY <1>2 DEF JobInv, DriverTyped, SiteTyped, InStep, InProgress, ReadRight, ReadFirst
  <2>7. BuiltWhere'
    BY <1>2 DEF JobInv, DriverTyped, SiteTyped, InStep, InProgress, BuiltWhere, IsOf
  <2> QED BY <2>1, <2>2, <2>3, <2>4, <2>5, <2>6, <2>7 DEF JobInv
<1> QED
  BY <1>1, <1>2 DEF Stage, Codewise

LEMMA CopyIsTaken ==
  ASSUME JobInv, Collect
  PROVE  JobInv'
<1> USE DEF attempts, site, receipt, records, Refuse, Calling, Goes, Steps, Waits
<1>1. CASE Refuse /\ UNCHANGED <<attempts, site, local, records>>
  BY <1>1, AttemptIsLeft
<1>2. CASE /\ driver = "collect" /\ driver' = "check" /\ copy' = files
             /\ UNCHANGED <<printed, files, attempts, site, local, records>>
  <2>1. (DriverTyped /\ ReceiptTyped /\ RecordTyped /\ Logged)'
    BY <1>2 DEF JobInv, DriverTyped, ReceiptTyped, RecordTyped, Logged, InStep
  <2>2. SiteTyped'
    BY <1>2 DEF JobInv, SiteTyped, Calls, DriverTyped
  <2>3. InStep'
    BY <1>2 DEF JobInv, DriverTyped, SiteTyped, InStep
  <2>4. (InProgress /\ RunOut /\ Reported)'
    BY <1>2 DEF JobInv, DriverTyped, SiteTyped, InStep, InProgress, RunOut, More, Reported
  <2>5. AsShipped'
    BY <1>2 DEF JobInv, DriverTyped, SiteTyped, InStep, AsShipped
  <2>6. (ReadRight /\ ReadFirst)'
    BY <1>2 DEF JobInv, DriverTyped, SiteTyped, InStep, InProgress, ReadRight, ReadFirst
  <2>7. BuiltWhere'
    BY <1>2 DEF JobInv, DriverTyped, SiteTyped, InStep, InProgress, BuiltWhere, IsOf
  <2> QED BY <2>1, <2>2, <2>3, <2>4, <2>5, <2>6, <2>7 DEF JobInv
<1> QED
  BY <1>1, <1>2 DEF Collect, Codewise

LEMMA CopyIsRead ==
  ASSUME JobInv, Check
  PROVE  JobInv'
<1> USE DEF attempts, site, receipt, records, Refuse, Calling, Goes, Steps, Waits
<1>1. CASE Refuse /\ UNCHANGED <<attempts, site, local, records>>
  BY <1>1, AttemptIsLeft
<1>2. CASE /\ driver = "check" /\ StatusesAgree(att) /\ ComesBackAsSent(copy) /\ AllStarted(att)
             /\ read' = [read EXCEPT ![att] = [input |-> local, codes |-> Codewise(att)]]
             /\ Calling(att, "remove", "rm")
             /\ UNCHANGED <<receipt, attempts, node, answer, dir, parent, did, touched, local, log,
                            binary>>
  <2>a. /\ att \in Attempts /\ kind[att] \in JobKinds /\ Commands[kind[att]] \in Nat
        /\ local \in Input
    BY <1>2 DEF JobInv, DriverTyped, ReceiptTyped, InStep
  <2>b. PICK n \in 0 .. Commands[kind[att]] : Ran(att) = 1 .. n
    BY <1>2, <2>a, RanAreFirst
  <2>e. /\ DOMAIN Codewise(att) = 1 .. n
        /\ \A k \in 1 .. n : Codewise(att)[k] \in Codes /\ Codewise(att)[k] # "nostart"
    <3>1. DOMAIN Codewise(att) = 1 .. n
      BY <2>b DEF Codewise
    <3>2. \A k \in 1 .. n : Codewise(att)[k] \in Codes /\ Tells(k, Codewise(att)[k])
      BY <1>2, <2>a, <2>b, RanAreFirst
    <3> QED  BY <1>2, <2>b, <3>1, <3>2 DEF AllStarted
  <2>c. [input |-> local, codes |-> Codewise(att)] \in Report
    <3>1. n \in Lengths
      BY <2>a, <2>b DEF Lengths
    <3>2. Codewise(att) \in [1 .. n -> Codes]
      <4>1. Codewise(att) = [k \in 1 .. n |-> Codewise(att)[k]]
        BY <2>b DEF Codewise
      <4> QED  BY <2>e, <4>1
    <3>3. Codewise(att) \in UNION {[1 .. k -> Codes] : k \in Lengths}
      BY <3>1, <3>2
    <3> QED  BY <2>a, <3>3 DEF Report
  <2>f. "line" \notin touched[att] =>
          /\ DOMAIN Codewise(att) = DOMAIN did[att]
          /\ \A k \in DOMAIN did[att] : did[att][k].code = Codewise(att)[k]
    BY <1>2, <2>b, <2>e, RanAsReported
  <2>g. "input" \notin touched[att] => \A k \in DOMAIN did[att] : did[att][k].input = local
    <3>1. copy.input = local /\ local # Changed
      BY <1>2, <2>a DEF ComesBackAsSent
    <3> QED  BY <1>2, <3>1 DEF JobInv, AsShipped
  <2>d. /\ read'[att] = [input |-> local, codes |-> Codewise(att)] /\ read'[att] # Nothing
        /\ \A a \in Attempts : a # att => read'[a] = read[a]
    BY <1>2, <2>a, <2>c DEF JobInv, RecordTyped
  <2>1. (DriverTyped /\ ReceiptTyped)'
    BY <1>2 DEF JobInv, DriverTyped, ReceiptTyped
  <2>2. SiteTyped'
    BY <1>2 DEF JobInv, SiteTyped, Calls, DriverTyped
  <2>3. RecordTyped'
    BY <1>2, <2>c DEF JobInv, RecordTyped
  <2>4. InStep'
    BY <1>2 DEF JobInv, DriverTyped, SiteTyped, InStep
  <2>5. (InProgress /\ RunOut /\ Reported)'
    BY <1>2 DEF JobInv, DriverTyped, SiteTyped, InStep, InProgress, RunOut, More, Reported
  <2>6. AsShipped'
    BY <1>2 DEF JobInv, DriverTyped, SiteTyped, InStep, AsShipped
  <2>7. (ReadRight /\ ReadFirst)'
    <3>1. ReadRight'
      <4> SUFFICES ASSUME NEW a \in Attempts, read'[a] # Nothing
                   PROVE  /\ proc'[a] \in {"rm", "rmdir", "answered"}
                          /\ a = att => driver' \in {"remove", "append", "record", "ended"}
                          /\ \A k \in DOMAIN read'[a].codes : read'[a].codes[k] # "nostart"
                          /\ "line" \notin touched[a] =>
                               /\ DOMAIN read'[a].codes = DOMAIN did[a]
                               /\ \A k \in DOMAIN did[a] : did[a][k].code = read'[a].codes[k]
                          /\ "input" \notin touched[a] =>
                               \A k \in DOMAIN did[a] : did[a][k].input = read'[a].input
        BY <1>2 DEF ReadRight
      <4>1. CASE a = att
        <5>1. proc'[att] = "rm" /\ driver' = "remove"
          BY <1>2, <2>a DEF JobInv, SiteTyped
        <5>2. read'[att].codes = Codewise(att) /\ read'[att].input = local
          BY <2>d
        <5> HIDE DEF Codewise
        <5> QED  BY <2>e, <2>f, <2>g, <4>1, <5>1, <5>2
      <4>2. CASE a # att
        BY <1>2, <2>d, <4>2 DEF JobInv, SiteTyped, ReadRight
      <4> QED  BY <4>1, <4>2
    <3>2. ReadFirst'
      BY <1>2, <2>a, <2>d DEF JobInv, SiteTyped, ReadFirst
    <3> QED  BY <3>1, <3>2
  <2>8. Logged'
    <3>1. read[att] = Nothing
      BY <1>2, <2>a DEF JobInv, ReadRight
    <3> QED  BY <1>2, <2>d, <3>1 DEF JobInv, Logged
  <2>9. BuiltWhere'
    BY <1>2 DEF JobInv, DriverTyped, SiteTyped, InStep, InProgress, BuiltWhere, IsOf
  <2> QED BY <2>1, <2>2, <2>3, <2>4, <2>5, <2>6, <2>7, <2>8, <2>9 DEF JobInv
<1> QED
  BY <1>1, <1>2 DEF Check, Codewise

LEMMA EntryIsWritten ==
  ASSUME JobInv, AppendEntry
  PROVE  JobInv'
<1> USE DEF attempts, site, receipt, records, Refuse, Calling, Goes, Steps, Waits
<1>1. CASE Refuse /\ UNCHANGED <<attempts, site, local, records>>
  BY <1>1, AttemptIsLeft
<1>2. CASE /\ driver = "append"
             /\ \/ \E i \in Unlogged :
                     /\ log' = log \cup {[attempt |-> att, command |-> i,
                                          code |-> read[att].codes[i], input |-> read[att].input]}
                     /\ UNCHANGED driver
                \/ driver' = "record" /\ UNCHANGED log
             /\ UNCHANGED <<receipt, attempts, site, local, read, binary>>
  <2>a. /\ att \in Attempts /\ read[att] \in Report /\ read[att] # Nothing
        /\ read[att].codes \in [DOMAIN read[att].codes -> Codes] /\ read[att].input \in Input
        /\ DOMAIN read[att].codes \subseteq Nat
    <3>1. att \in Attempts /\ read[att] \in Report /\ read[att] # Nothing
      BY <1>2 DEF JobInv, RecordTyped, InStep, ReadFirst
    <3>2. PICK n \in Nat : read[att].codes \in [1 .. n -> Codes]
      BY <3>1, ReportShape
    <3> QED  BY <3>1, <3>2, ReportShape
  <2>1. (DriverTyped /\ ReceiptTyped)'
    BY <1>2 DEF JobInv, DriverTyped, ReceiptTyped
  <2>2. SiteTyped'
    BY <1>2 DEF JobInv, SiteTyped, Calls, DriverTyped
  <2>3. RecordTyped'
    BY <1>2, <2>a DEF JobInv, RecordTyped, Unlogged
  <2>4. InStep'
    BY <1>2 DEF JobInv, DriverTyped, SiteTyped, InStep
  <2>5. (InProgress /\ RunOut /\ Reported)'
    BY <1>2 DEF JobInv, DriverTyped, SiteTyped, InStep, InProgress, RunOut, More, Reported
  <2>6. AsShipped'
    BY <1>2 DEF JobInv, DriverTyped, SiteTyped, InStep, AsShipped
  <2>7. (ReadRight /\ ReadFirst)'
    BY <1>2 DEF JobInv, DriverTyped, SiteTyped, InStep, InProgress, ReadRight, ReadFirst
  <2>8. Logged'
    BY <1>2, <2>a DEF JobInv, Logged, Unlogged
  <2>9. BuiltWhere'
    BY <1>2 DEF JobInv, DriverTyped, SiteTyped, InStep, InProgress, BuiltWhere, IsOf
  <2> QED BY <2>1, <2>2, <2>3, <2>4, <2>5, <2>6, <2>7, <2>8, <2>9 DEF JobInv
<1>3. ASSUME Unlogged # {}
      PROVE  (CHOOSE i \in Unlogged : \A j \in Unlogged : i <= j) \in Unlogged
  <2>1. read[att] \in Report
    BY DEF JobInv, RecordTyped, InStep, ReadFirst, AppendEntry
  <2>2. PICK n \in Nat : read[att].codes \in [1 .. n -> Codes]
    BY <2>1, ReportShape
  <2>3. Unlogged \in SUBSET (1 .. n)
    BY <2>2 DEF Unlogged
  <2> QED  BY <1>3, <2>3, FirstUnlogged
<1> QED
  BY <1>1, <1>2, <1>3 DEF AppendEntry

LEMMA AttemptIsRecorded ==
  ASSUME JobInv, Record
  PROVE  JobInv'
<1> USE DEF attempts, site, receipt, records, Refuse, Calling, Goes, Steps, Waits
<1>1. (DriverTyped /\ ReceiptTyped /\ Logged)'
  BY DEF JobInv, DriverTyped, Record, ReceiptTyped, Logged, RecordTyped, InStep
<1>2. SiteTyped'
  BY DEF JobInv, SiteTyped, Calls, DriverTyped, Record
<1>3. RecordTyped'
  <2>1. [att |-> att, place |-> place[att], machine |-> answer[att]] \in Binary
    BY DEF JobInv, DriverTyped, SiteTyped, InStep, Binary, Record
  <2> QED
    BY <2>1 DEF JobInv, RecordTyped, Record
<1>4. InStep'
  BY DEF JobInv, DriverTyped, SiteTyped, InStep, Record
<1>5. (InProgress /\ RunOut /\ Reported)'
  BY DEF JobInv, DriverTyped, SiteTyped, InStep, InProgress, RunOut, More, Reported, Record
<1>6. AsShipped'
  BY DEF JobInv, DriverTyped, SiteTyped, InStep, AsShipped, Record
<1>7. (ReadRight /\ ReadFirst)'
  BY DEF JobInv, DriverTyped, SiteTyped, InStep, InProgress, ReadRight, ReadFirst, Record
<1>8. BuiltWhere'
  BY DEF JobInv, DriverTyped, SiteTyped, InStep, InProgress, BuiltWhere, IsOf, Record
<1> QED BY <1>1, <1>2, <1>3, <1>4, <1>5, <1>6, <1>7, <1>8 DEF JobInv

LEMMA InputsChange ==
  ASSUME JobInv, CaseFilesChange
  PROVE  JobInv'
<1> USE DEF attempts, site, receipt, records, Refuse, Calling, Goes, Steps, Waits
<1>1. (DriverTyped /\ RecordTyped /\ Logged)'
  BY DEF JobInv, DriverTyped, CaseFilesChange, RecordTyped, Logged, InStep
<1>2. SiteTyped'
  BY DEF JobInv, SiteTyped, Calls, DriverTyped, CaseFilesChange
<1>3. ReceiptTyped'
  <2>1. local' \in Input
    BY DEF JobInv, ReceiptTyped, Input, CaseFilesChange
  <2> QED
    BY <2>1 DEF JobInv, ReceiptTyped, CaseFilesChange
<1>4. InStep'
  BY DEF JobInv, DriverTyped, SiteTyped, InStep, CaseFilesChange
<1>5. (InProgress /\ RunOut /\ Reported)'
  BY DEF JobInv, DriverTyped, SiteTyped, InStep, InProgress, RunOut, More, Reported,
     CaseFilesChange
<1>6. AsShipped'
  BY DEF JobInv, DriverTyped, SiteTyped, InStep, AsShipped, CaseFilesChange
<1>7. (ReadRight /\ ReadFirst)'
  BY DEF JobInv, DriverTyped, SiteTyped, InStep, InProgress, ReadRight, ReadFirst, CaseFilesChange
<1>8. BuiltWhere'
  BY DEF JobInv, DriverTyped, SiteTyped, InStep, InProgress, BuiltWhere, IsOf, CaseFilesChange
<1> QED BY <1>1, <1>2, <1>3, <1>4, <1>5, <1>6, <1>7, <1>8 DEF JobInv

LEMMA ParentIsMade ==
  ASSUME JobInv, NEW a \in Attempts, MakeParent(a)
  PROVE  JobInv'
<1> USE DEF attempts, site, receipt, records, Refuse, Calling, Goes, Steps, Waits
<1>1. (DriverTyped /\ ReceiptTyped /\ RecordTyped /\ Logged)'
  BY DEF JobInv, DriverTyped, MakeParent, ReceiptTyped, RecordTyped, Logged, InStep
<1>2. SiteTyped'
  BY DEF JobInv, SiteTyped, Calls, DriverTyped, MakeParent
<1>3. InStep'
  BY DEF JobInv, DriverTyped, SiteTyped, InStep, MakeParent
<1>4. (InProgress /\ RunOut /\ Reported)'
  BY DEF JobInv, DriverTyped, SiteTyped, InStep, InProgress, RunOut, More, Reported, MakeParent
<1>5. AsShipped'
  BY DEF JobInv, DriverTyped, SiteTyped, InStep, AsShipped, MakeParent
<1>6. (ReadRight /\ ReadFirst)'
  BY DEF JobInv, DriverTyped, SiteTyped, InStep, InProgress, ReadRight, ReadFirst, MakeParent
<1>7. BuiltWhere'
  BY DEF JobInv, DriverTyped, SiteTyped, InStep, InProgress, BuiltWhere, IsOf, MakeParent
<1> QED BY <1>1, <1>2, <1>3, <1>4, <1>5, <1>6, <1>7 DEF JobInv

LEMMA DirIsMade ==
  ASSUME JobInv, NEW a \in Attempts, MakeDir(a)
  PROVE  JobInv'
<1> USE DEF attempts, site, receipt, records, Refuse, Calling, Goes, Steps, Waits
<1>1. (DriverTyped /\ ReceiptTyped /\ RecordTyped /\ Logged)'
  BY DEF JobInv, DriverTyped, MakeDir, ReceiptTyped, RecordTyped, Logged, InStep
<1>2. SiteTyped'
  BY DEF JobInv, SiteTyped, Calls, DriverTyped, MakeDir
<1>3. InStep'
  BY DEF JobInv, DriverTyped, SiteTyped, InStep, MakeDir
<1>4. (InProgress /\ RunOut /\ Reported)'
  BY DEF JobInv, DriverTyped, SiteTyped, InStep, InProgress, RunOut, More, Reported, MakeDir
<1>5. AsShipped'
  BY DEF JobInv, DriverTyped, SiteTyped, InStep, AsShipped, MakeDir
<1>6. (ReadRight /\ ReadFirst)'
  BY DEF JobInv, DriverTyped, SiteTyped, InStep, InProgress, ReadRight, ReadFirst, MakeDir
<1>7. BuiltWhere'
  BY DEF JobInv, DriverTyped, SiteTyped, InStep, InProgress, BuiltWhere, IsOf, MakeDir
<1> QED BY <1>1, <1>2, <1>3, <1>4, <1>5, <1>6, <1>7 DEF JobInv

LEMMA ScriptIsStarted ==
  ASSUME JobInv, NEW a \in Attempts, ScriptStarts(a)
  PROVE  JobInv'
<1> USE DEF attempts, site, receipt, records, Refuse, Calling, Goes, Steps, Waits
<1>1. (DriverTyped /\ ReceiptTyped /\ RecordTyped /\ Logged)'
  BY DEF JobInv, DriverTyped, ScriptStarts, Wants, ReceiptTyped, RecordTyped, Logged, InStep
<1>2. SiteTyped'
  <2>1. PICK m \in MachinesAt[place[a]] : \E says \in {m, Nothing} :
          node' = [node EXCEPT ![a] = m] /\ answer' = [answer EXCEPT ![a] = says]
    BY DEF ScriptStarts
  <2>2. PICK says \in {m, Nothing} :
          node' = [node EXCEPT ![a] = m] /\ answer' = [answer EXCEPT ![a] = says]
    BY <2>1
  <2> DEFINE M == Machines \cup {Nothing}
  <2>3. node' \in [Attempts -> M] /\ answer' \in [Attempts -> M]
    <3>1. place[a] \in Places
      BY DEF JobInv, InStep, ScriptStarts
    <3>2. m \in M /\ says \in M
      BY <3>1 DEF Machines
    <3>3. node \in [Attempts -> M] /\ answer \in [Attempts -> M]
      BY DEF JobInv, SiteTyped
    <3> HIDE DEF M
    <3> QED  BY <2>2, <3>2, <3>3
  <2>4. \A x \in Attempts : answer'[x] \in {node'[x], Nothing}
    BY <2>2 DEF JobInv, SiteTyped
  <2>5. proc' \in [Attempts -> Calls \cup {"none", "answered", "failed"}]
    BY DEF JobInv, SiteTyped, Calls, ScriptStarts
  <2> QED
    BY <2>3, <2>4, <2>5 DEF JobInv, SiteTyped, ScriptStarts
<1>3. InStep'
  BY DEF JobInv, DriverTyped, SiteTyped, InStep, ScriptStarts, Wants
<1>4. (InProgress /\ RunOut /\ Reported)'
  <2>1. UNCHANGED <<did, driver, att, printed>> /\ proc[a] = "start" /\ did[a] = <<>>
    BY DEF JobInv, InProgress, ScriptStarts
  <2>2. \/ proc' = [proc EXCEPT ![a] = "next"]
        \/ proc' = [proc EXCEPT ![a] = "failed"]
    BY DEF ScriptStarts
  <2>3. InProgress'
    BY <2>1, <2>2 DEF JobInv, SiteTyped, InProgress
  <2>4. (RunOut /\ Reported)'
    BY <2>1, <2>2 DEF JobInv, SiteTyped, DriverTyped, InStep, RunOut, Reported, More, ScriptStarts
  <2> QED  BY <2>3, <2>4
<1>5. AsShipped'
  BY DEF JobInv, DriverTyped, SiteTyped, InStep, AsShipped, ScriptStarts, Wants
<1>6. (ReadRight /\ ReadFirst)'
  BY DEF JobInv, DriverTyped, SiteTyped, InStep, InProgress, ReadRight, ReadFirst, ScriptStarts,
     Wants
<1>7. BuiltWhere'
  BY DEF JobInv, DriverTyped, SiteTyped, InStep, InProgress, BuiltWhere, IsOf, ScriptStarts, Wants
<1> QED BY <1>1, <1>2, <1>3, <1>4, <1>5, <1>6, <1>7 DEF JobInv

LEMMA CommandIsStarted ==
  ASSUME JobInv, NEW a \in Attempts, CommandStarts(a)
  PROVE  JobInv'
<1> USE DEF attempts, site, receipt, records, Refuse, Calling, Goes, Steps, Waits
<1>a. PICK d \in Deed : did' = [did EXCEPT ![a] = Append(@, d)] /\ d.code = "running"
                        /\ (Attended(a) => d.input = files.input)
  <2>1. Attended(a) => files \in Content
    BY DEF JobInv, DriverTyped, InStep, CommandStarts, Attended
  <2>2. [code |-> "running", input |-> IF Attended(a) THEN files.input ELSE Nothing] \in Deed
    BY <2>1 DEF Deed, Content
  <2> QED
    BY <2>2 DEF CommandStarts
<1>b. did[a] \in Seq(Deed) /\ Len(did[a]) < Commands[kind[a]]
  BY DEF JobInv, SiteTyped, CommandStarts, More
<1>1. (DriverTyped /\ ReceiptTyped /\ RecordTyped /\ Logged)'
  BY DEF JobInv, DriverTyped, CommandStarts, More, Attended, ReceiptTyped, RecordTyped, Logged,
     InStep
<1>2. SiteTyped'
  <2>1. Append(did[a], d) \in Seq(Deed) /\ Len(Append(did[a], d)) = Len(did[a]) + 1
    BY <1>b
  <2>2. Commands[kind[a]] \in Nat /\ Len(did[a]) + 1 <= Commands[kind[a]]
    BY <1>b DEF JobInv, DriverTyped
  <2>3. did' \in [Attempts -> Seq(Deed)]
    BY <1>a, <2>1 DEF JobInv, SiteTyped
  <2>4. \A x \in Attempts : Len(did'[x]) <= Commands[kind[x]]
    BY <1>a, <2>1, <2>2 DEF JobInv, SiteTyped
  <2> QED
    BY <2>3, <2>4 DEF JobInv, SiteTyped, Calls, CommandStarts
<1>3. InStep'
  BY DEF JobInv, DriverTyped, SiteTyped, InStep, CommandStarts, More, Attended
<1>4. (InProgress /\ RunOut /\ Reported)'
  <2>1. /\ did'[a] = Append(did[a], d) /\ Len(did'[a]) = Len(did[a]) + 1
        /\ DOMAIN did'[a] = 1 .. Len(did[a]) + 1 /\ did'[a][Len(did[a]) + 1] = d
        /\ \A k \in 1 .. Len(did[a]) : did'[a][k] = did[a][k]
        /\ \A x \in Attempts : x # a => did'[x] = did[x]
    BY <1>a, <1>b DEF JobInv, SiteTyped
  <2>2. /\ proc[a] = "next" /\ proc' = [proc EXCEPT ![a] = "command"]
        /\ UNCHANGED <<driver, att, printed, kind>>
    BY DEF CommandStarts
  <2>3. InProgress'
    <3> SUFFICES ASSUME NEW x \in Attempts
                 PROVE  /\ proc'[x] \in {"none", "parent", "mkdir", "start"} => did'[x] = <<>>
                        /\ proc'[x] = "command" => did'[x] # <<>>
                        /\ \A k \in DOMAIN did'[x] :
                             did'[x][k].code = "running" => proc'[x] = "command" /\ k = Len(did'[x])
      BY DEF InProgress
    <3>1. CASE x # a
      BY <2>1, <2>2, <3>1 DEF JobInv, SiteTyped, InProgress
    <3>2. CASE x = a
      <4>1. \A k \in 1 .. Len(did[a]) : did[a][k].code # "running"
        BY <1>b, <2>2 DEF JobInv, InProgress
      <4>2. proc'[a] = "command" /\ did'[a] # <<>>
        <5>1. Len(did'[a]) # 0
          BY <1>b, <2>1
        <5>2. proc'[a] = "command"
          BY <2>2 DEF JobInv, SiteTyped
        <5> QED  BY <5>1, <5>2
      <4>3. \A k \in DOMAIN did'[a] : k \in 1 .. Len(did[a]) \/ k = Len(did'[a])
        BY <1>b, <2>1
      <4> QED  BY <2>1, <3>2, <4>1, <4>2, <4>3
    <3> QED  BY <3>1, <3>2
  <2>4. RunOut'
    BY <2>1, <2>2 DEF JobInv, DriverTyped, SiteTyped, InStep, RunOut, More
  <2>5. Reported'
    <3>1. touched' = touched
      BY DEF CommandStarts
    <3> QED  BY <1>a, <1>b, <2>1, <2>2, <3>1 DEF JobInv, Reported
  <2> QED  BY <2>3, <2>4, <2>5
<1>5. AsShipped'
  BY DEF JobInv, DriverTyped, SiteTyped, InStep, AsShipped, CommandStarts, More, Attended
<1>6. (ReadRight /\ ReadFirst)'
  BY DEF JobInv, DriverTyped, SiteTyped, InStep, InProgress, ReadRight, ReadFirst, CommandStarts,
     More, Attended
<1>7. BuiltWhere'
  BY DEF JobInv, DriverTyped, SiteTyped, InStep, InProgress, BuiltWhere, IsOf, CommandStarts,
     More, Attended
<1> QED BY <1>1, <1>2, <1>3, <1>4, <1>5, <1>6, <1>7 DEF JobInv

LEMMA CommandHasEnded ==
  ASSUME JobInv, NEW a \in Attempts, NEW st \in Codes, CommandEnds(a, st)
  PROVE  JobInv'
<1> USE DEF attempts, site, receipt, records, Refuse, Calling, Goes, Steps, Waits
<1>a. /\ did[a] \in Seq(Deed) /\ Len(did[a]) \in Nat /\ Len(did[a]) \in DOMAIN did[a]
      /\ DOMAIN did[a] = 1 .. Len(did[a])
  <2>1. did[a] \in Seq(Deed) /\ did[a] # <<>>
    BY DEF JobInv, SiteTyped, InProgress, CommandEnds
  <2> QED  BY <2>1
<1> DEFINE n == Len(did[a])
           d == [did[a][n] EXCEPT !.code = st]
<1>b. d \in Deed /\ d.code = st /\ d.input = did[a][n].input
  <2>1. did[a][n] \in Deed
    BY <1>a
  <2> QED  BY <2>1 DEF Deed
<1>c. did' = [did EXCEPT ![a] = [did[a] EXCEPT ![n] = d]]
  BY DEF CommandEnds
<1>d. /\ did'[a] = [did[a] EXCEPT ![n] = d] /\ did'[a] \in Seq(Deed) /\ Len(did'[a]) = n
      /\ \A x \in Attempts : x # a => did'[x] = did[x]
  <2>1. did'[a] = [did[a] EXCEPT ![n] = d] /\ \A x \in Attempts : x # a => did'[x] = did[x]
    BY <1>c DEF JobInv, SiteTyped
  <2> HIDE DEF d
  <2>2. [did[a] EXCEPT ![n] = d] \in Seq(Deed) /\ Len([did[a] EXCEPT ![n] = d]) = n
    BY <1>a, <1>b
  <2> QED  BY <2>1, <2>2
<1>e. Attended(a) => files \in Content /\ driver = "run" /\ att = a
  BY DEF JobInv, DriverTyped, InStep, CommandEnds, Attended
<1> HIDE DEF n, d
<1>f. /\ Attended(a) => printed' = Append(printed, [command |-> n, code |-> st])
      /\ ~Attended(a) => UNCHANGED printed
      /\ proc[a] = "command" /\ proc' = [proc EXCEPT ![a] = "next"]
      /\ UNCHANGED <<driver, attempts, node, answer, dir, parent, touched, local, copy, records>>
  BY DEF CommandEnds, n
<1>g. [command |-> n, code |-> st] \in [command : Nat, code : Codes]
  BY <1>a DEF n
<1>h. LET l == [command |-> n, code |-> st]
      IN  /\ Append(printed, l) \in Seq([command : Nat, code : Codes])
          /\ \A k \in DOMAIN printed :
               k \in DOMAIN Append(printed, l) /\ Append(printed, l)[k] = printed[k]
          /\ \E k \in DOMAIN Append(printed, l) : Append(printed, l)[k] = l
  <2>1. printed \in Seq([command : Nat, code : Codes])
    BY DEF JobInv, ReceiptTyped
  <2> DEFINE l == [command |-> n, code |-> st]
  <2>2. l \in [command : Nat, code : Codes]
    BY <1>g
  <2> HIDE DEF l
  <2>3. /\ Append(printed, l) \in Seq([command : Nat, code : Codes])
        /\ \A k \in DOMAIN printed :
              k \in DOMAIN Append(printed, l) /\ Append(printed, l)[k] = printed[k]
        /\ \E k \in DOMAIN Append(printed, l) : Append(printed, l)[k] = l
    BY <2>1, <2>2, LineIsAppended
  <2> QED  BY <2>3 DEF l
<1>1. (DriverTyped /\ RecordTyped /\ Logged)'
  BY DEF JobInv, DriverTyped, CommandEnds, Attended, InStep, Content, Deed, RecordTyped, Logged
<1>2. SiteTyped'
  <2>1. did' \in [Attempts -> Seq(Deed)] /\ \A x \in Attempts : Len(did'[x]) <= Commands[kind[x]]
    BY <1>c, <1>d DEF JobInv, SiteTyped, n
  <2> QED
    BY <2>1, <1>f DEF JobInv, SiteTyped, Calls
<1>3. ReceiptTyped'
  <2>1. printed' \in Seq([command : Nat, code : Codes])
    <3>1. printed \in Seq([command : Nat, code : Codes])
      BY DEF JobInv, ReceiptTyped
    <3>2. CASE Attended(a)
      BY <1>f, <1>h, <3>2
    <3>3. CASE ~Attended(a)
      BY <1>f, <3>1, <3>3
    <3> QED  BY <3>2, <3>3
  <2>2. files' \in Content \cup {Nothing}
    BY <1>e DEF JobInv, ReceiptTyped, CommandEnds, Content
  <2> QED  BY <1>f, <2>1, <2>2 DEF JobInv, ReceiptTyped
<1>4. InStep'
  <2>1. driver \in {"run", "collect"} => files' \in Content
    BY <1>e DEF JobInv, InStep, CommandEnds, Content
  <2>2. \A x \in Attempts : /\ proc'[x] = "none" => proc[x] = "none"
                           /\ x # a => proc'[x] = proc[x]
    BY <1>f DEF JobInv, SiteTyped
  <2>3. proc'[a] = "next"
    BY <1>f DEF JobInv, SiteTyped
  <2> QED  BY <1>d, <1>f, <2>1, <2>2, <2>3 DEF JobInv, InStep
<1>5. (InProgress /\ RunOut /\ Reported)'
  <2>1. InProgress'
    <3> SUFFICES ASSUME NEW x \in Attempts
                 PROVE  /\ proc'[x] \in {"none", "parent", "mkdir", "start"} => did'[x] = <<>>
                        /\ proc'[x] = "command" => did'[x] # <<>>
                        /\ \A k \in DOMAIN did'[x] :
                             did'[x][k].code = "running" => proc'[x] = "command" /\ k = Len(did'[x])
      BY DEF InProgress
    <3>1. CASE x # a
      BY <1>d, <1>f, <3>1 DEF JobInv, SiteTyped, InProgress
    <3>2. CASE x = a
      <4>1. \A k \in DOMAIN did'[a] : did'[a][k].code # "running"
        BY <1>a, <1>b, <1>d DEF JobInv, InProgress, n, Codes
      <4> QED  BY <1>f, <3>2, <4>1 DEF JobInv, SiteTyped
    <3> QED  BY <3>1, <3>2
  <2>2. RunOut'
    BY <1>d, <1>e, <1>f DEF JobInv, DriverTyped, SiteTyped, InStep, RunOut, More, Attended
  <2>3. Reported'
    <3> SUFFICES ASSUME driver \in {"run", "collect", "check"}, "line" \notin touched[att],
                        NEW i \in DOMAIN did'[att], did'[att][i].code # "running"
                 PROVE  \E k \in DOMAIN printed' :
                          printed'[k] = [command |-> i, code |-> did'[att][i].code]
      BY <1>f DEF Reported
    <3>1. CASE a # att
      BY <1>d, <1>f, <3>1 DEF JobInv, InStep, Reported, Attended
    <3>2. CASE a = att /\ i # n
      <4>1. i \in DOMAIN did[att] /\ did'[att][i] = did[att][i]
        BY <1>a, <1>d, <3>2
      <4>2. PICK k \in DOMAIN printed : printed[k] = [command |-> i, code |-> did'[att][i].code]
        <5>1. Reported
          BY DEF JobInv
        <5> QED  BY <4>1, <5>1 DEF Reported
      <4> QED  BY <1>f, <1>h, <3>2, <4>2 DEF Attended
    <3>3. CASE a = att /\ i = n
      <4>1. did'[att][i].code = st
        BY <1>a, <1>b, <1>d, <3>3 DEF n
      <4> QED  BY <1>f, <1>h, <3>3, <4>1 DEF Attended
    <3> QED  BY <3>1, <3>2, <3>3
  <2> QED  BY <2>1, <2>2, <2>3
<1>6. AsShipped'
  BY DEF JobInv, DriverTyped, SiteTyped, InStep, AsShipped, CommandEnds, Attended, Content, Deed
<1>7. (ReadRight /\ ReadFirst)'
  BY DEF JobInv, DriverTyped, SiteTyped, InStep, InProgress, ReadRight, ReadFirst, CommandEnds,
     Attended, Content, Deed
<1>8. BuiltWhere'
  BY DEF JobInv, DriverTyped, SiteTyped, InStep, InProgress, BuiltWhere, IsOf, CommandEnds,
     Attended, Content, Deed
<1> QED BY <1>1, <1>2, <1>3, <1>4, <1>5, <1>6, <1>7, <1>8 DEF JobInv

LEMMA ScriptHasEnded ==
  ASSUME JobInv, NEW a \in Attempts, ScriptEnds(a)
  PROVE  JobInv'
<1> USE DEF attempts, site, receipt, records, Refuse, Calling, Goes, Steps, Waits
<1>1. (DriverTyped /\ ReceiptTyped /\ RecordTyped /\ Logged)'
  BY DEF JobInv, DriverTyped, ScriptEnds, ReceiptTyped, RecordTyped, Logged, InStep
<1>2. SiteTyped'
  BY DEF JobInv, SiteTyped, Calls, DriverTyped, ScriptEnds
<1>3. InStep'
  BY DEF JobInv, DriverTyped, SiteTyped, InStep, ScriptEnds
<1>4. (InProgress /\ RunOut /\ Reported)'
  BY DEF JobInv, DriverTyped, SiteTyped, InStep, InProgress, RunOut, More, Reported, ScriptEnds
<1>5. AsShipped'
  BY DEF JobInv, DriverTyped, SiteTyped, InStep, AsShipped, ScriptEnds
<1>6. (ReadRight /\ ReadFirst)'
  BY DEF JobInv, DriverTyped, SiteTyped, InStep, InProgress, ReadRight, ReadFirst, ScriptEnds
<1>7. BuiltWhere'
  BY DEF JobInv, DriverTyped, SiteTyped, InStep, InProgress, BuiltWhere, IsOf, ScriptEnds
<1> QED BY <1>1, <1>2, <1>3, <1>4, <1>5, <1>6, <1>7 DEF JobInv

LEMMA FileIsRewritten ==
  ASSUME JobInv, NEW a \in Attempts, Interferes(a)
  PROVE  JobInv'
<1> USE DEF attempts, site, receipt, records, Refuse, Calling, Goes, Steps, Waits
<1>a. /\ a = att /\ driver \in {"run", "collect"} /\ did[a] # <<>> /\ files \in Content
      /\ UNCHANGED <<driver, attempts, proc, node, answer, dir, parent, did, printed, copy, local,
                     records>>
  BY DEF JobInv, InStep, Interferes, Alive, Attended
<1>b. /\ files' \in Content
      /\ \/ touched' = touched /\ files'.input \in {files.input, Changed}
         \/ touched' = [touched EXCEPT ![a] = @ \cup {"input"}]
  <2>1. 0 .. local \subseteq Input
    BY DEF JobInv, ReceiptTyped, Input
  <2> QED  BY <1>a, <2>1 DEF Interferes, Hides, Content
<1>c. /\ touched' \in [Attempts -> SUBSET {"line", "input"}]
      /\ \A x \in Attempts : /\ "line" \in touched'[x] <=> "line" \in touched[x]
                             /\ x # a => touched'[x] = touched[x]
      /\ \/ "input" \in touched'[a]
         \/ touched' = touched /\ files'.input \in {files.input, Changed}
  <2>1. CASE touched' = touched /\ files'.input \in {files.input, Changed}
    BY <2>1 DEF JobInv, SiteTyped
  <2>2. CASE touched' = [touched EXCEPT ![a] = @ \cup {"input"}]
    BY <2>2 DEF JobInv, SiteTyped
  <2> QED  BY <1>b, <2>1, <2>2
<1>1. (DriverTyped /\ RecordTyped /\ Logged)'
  BY <1>a DEF JobInv, DriverTyped, RecordTyped, Logged
<1>2. SiteTyped'
  BY <1>a, <1>c DEF JobInv, SiteTyped
<1>3. ReceiptTyped'
  BY <1>a, <1>b DEF JobInv, ReceiptTyped
<1>4. (InStep /\ InProgress)'
  BY <1>a, <1>b DEF JobInv, InStep, InProgress
<1>5. (RunOut /\ Reported)'
  BY <1>a, <1>c DEF JobInv, RunOut, More, Reported
<1>6. AsShipped'
  <2> SUFFICES ASSUME "input" \notin touched'[att]
               PROVE  \A i \in DOMAIN did[att] : files'.input \in {did[att][i].input, Changed}
    BY <1>a DEF AsShipped
  <2>1. touched' = touched /\ files'.input \in {files.input, Changed}
    BY <1>a, <1>c
  <2> QED  BY <1>a, <2>1 DEF JobInv, AsShipped
<1>7. (ReadRight /\ ReadFirst)'
  <2>1. read[a] = Nothing
    BY <1>a DEF JobInv, ReadRight
  <2> QED  BY <1>a, <1>c, <2>1 DEF JobInv, ReadRight, ReadFirst
<1>8. BuiltWhere'
  BY <1>a DEF JobInv, BuiltWhere, IsOf
<1> QED BY <1>1, <1>2, <1>3, <1>4, <1>5, <1>6, <1>7, <1>8 DEF JobInv

LEMMA LineIsTaken ==
  ASSUME JobInv, NEW a \in Attempts, NEW k \in DOMAIN printed, TakesLine(a, k)
  PROVE  JobInv'
<1> USE DEF attempts, site, receipt, records, Refuse, Calling, Goes, Steps, Waits
<1>a. /\ a = att /\ driver = "run"
      /\ touched' = [touched EXCEPT ![a] = @ \cup {"line"}]
      /\ "line" \in touched'[a] /\ ("input" \in touched[a] => "input" \in touched'[a])
      /\ UNCHANGED <<driver, attempts, proc, node, answer, dir, parent, did, local, files, copy,
                     records>>
  BY DEF JobInv, SiteTyped, TakesLine, Hides, Alive, Attended
<1>b. printed' \in Seq([command : Nat, code : Codes])
  <2>1. printed \in Seq([command : Nat, code : Codes]) /\ k \in 1 .. Len(printed)
    BY DEF JobInv, ReceiptTyped
  <2> DEFINE L == [command : Nat, code : Codes]
  <2> HIDE DEF L
  <2>2. SubSeq(printed, 1, k - 1) \in Seq(L) /\ SubSeq(printed, k + 1, Len(printed)) \in Seq(L)
    <3>1. printed \in Seq(L) /\ k \in 1 .. Len(printed)
      BY <2>1 DEF L
    <3> QED  BY <3>1
  <2>3. printed' = SubSeq(printed, 1, k - 1) \o SubSeq(printed, k + 1, Len(printed))
    BY DEF TakesLine, RemoveAt
  <2>4. printed' \in Seq(L)
    BY <2>2, <2>3
  <2> QED  BY <2>4 DEF L
<1>1. (DriverTyped /\ RecordTyped /\ Logged)'
  BY <1>a DEF JobInv, DriverTyped, RecordTyped, Logged
<1>2. SiteTyped'
  BY <1>a DEF JobInv, SiteTyped
<1>3. ReceiptTyped'
  BY <1>a, <1>b DEF JobInv, ReceiptTyped
<1>4. (InStep /\ InProgress)'
  BY <1>a DEF JobInv, InStep, InProgress
<1>5. (RunOut /\ Reported)'
  BY <1>a DEF JobInv, RunOut, More, Reported
<1>6. AsShipped'
  BY <1>a DEF JobInv, AsShipped
<1>7. (ReadRight /\ ReadFirst)'
  <2>1. \A x \in Attempts : x # a => touched'[x] = touched[x]
    BY <1>a DEF JobInv, SiteTyped
  <2>2. read[a] = Nothing
    BY <1>a DEF JobInv, ReadRight
  <2> QED  BY <1>a, <2>1, <2>2 DEF JobInv, ReadRight, ReadFirst
<1>8. BuiltWhere'
  BY <1>a DEF JobInv, BuiltWhere, IsOf
<1> QED BY <1>1, <1>2, <1>3, <1>4, <1>5, <1>6, <1>7, <1>8 DEF JobInv

LEMMA LineIsAdded ==
  ASSUME JobInv, NEW a \in Attempts, NEW i \in 1 .. Commands[kind[a]] + 1,
         NEW st \in Codes, StrayLine(a, i, st)
  PROVE  JobInv'
<1> USE DEF attempts, site, receipt, records, Refuse, Calling, Goes, Steps, Waits
<1>a. [command |-> i, code |-> st] \in [command : Nat, code : Codes]
  <2>1. i \in Nat
    BY DEF JobInv, DriverTyped
  <2> QED  BY <2>1 DEF Codes
<1>b. /\ printed' \in Seq([command : Nat, code : Codes])
      /\ \A k \in DOMAIN printed : k \in DOMAIN printed' /\ printed'[k] = printed[k]
  BY <1>a, LineIsAppended DEF JobInv, ReceiptTyped, StrayLine
<1>1. DriverTyped'
  BY DEF JobInv, DriverTyped, StrayLine, Alive, Attended
<1>2. SiteTyped'
  BY DEF JobInv, SiteTyped, Calls, DriverTyped, StrayLine, Alive, Attended
<1>3. ReceiptTyped'
  BY <1>b DEF JobInv, ReceiptTyped, StrayLine
<1>4. RecordTyped'
  BY DEF JobInv, RecordTyped, StrayLine, Alive, Attended
<1>5. InStep'
  BY DEF JobInv, DriverTyped, SiteTyped, InStep, StrayLine, Alive, Attended
<1>6. (InProgress /\ RunOut /\ Reported)'
  BY <1>b DEF JobInv, InProgress, RunOut, More, Reported, StrayLine
<1>7. AsShipped'
  BY DEF JobInv, DriverTyped, SiteTyped, InStep, AsShipped, StrayLine, Alive, Attended
<1>8. (ReadRight /\ ReadFirst)'
  BY DEF JobInv, DriverTyped, SiteTyped, InStep, InProgress, ReadRight, ReadFirst, StrayLine,
     Alive, Attended
<1>9. Logged'
  BY DEF JobInv, Logged, DriverTyped, RecordTyped, InStep, StrayLine, Alive, Attended
<1>10. BuiltWhere'
  BY DEF JobInv, DriverTyped, SiteTyped, InStep, InProgress, BuiltWhere, IsOf, StrayLine, Alive,
     Attended
<1> QED BY <1>1, <1>2, <1>3, <1>4, <1>5, <1>6, <1>7, <1>8, <1>9, <1>10 DEF JobInv

LEMMA DirIsRemoved ==
  ASSUME JobInv, NEW a \in Attempts, RemoveDir(a)
  PROVE  JobInv'
<1> USE DEF attempts, site, receipt, records, Refuse, Calling, Goes, Steps, Waits
<1>1. (DriverTyped /\ ReceiptTyped /\ RecordTyped /\ Logged)'
  BY DEF JobInv, DriverTyped, RemoveDir, ReceiptTyped, RecordTyped, Logged, InStep
<1>2. SiteTyped'
  BY DEF JobInv, SiteTyped, Calls, DriverTyped, RemoveDir
<1>3. InStep'
  BY DEF JobInv, DriverTyped, SiteTyped, InStep, RemoveDir
<1>4. (InProgress /\ RunOut /\ Reported)'
  BY DEF JobInv, DriverTyped, SiteTyped, InStep, InProgress, RunOut, More, Reported, RemoveDir
<1>5. AsShipped'
  BY DEF JobInv, DriverTyped, SiteTyped, InStep, AsShipped, RemoveDir
<1>6. (ReadRight /\ ReadFirst)'
  BY DEF JobInv, DriverTyped, SiteTyped, InStep, InProgress, ReadRight, ReadFirst, RemoveDir
<1>7. BuiltWhere'
  BY DEF JobInv, DriverTyped, SiteTyped, InStep, InProgress, BuiltWhere, IsOf, RemoveDir
<1> QED BY <1>1, <1>2, <1>3, <1>4, <1>5, <1>6, <1>7 DEF JobInv

LEMMA ParentIsRemoved ==
  ASSUME JobInv, NEW a \in Attempts, RemoveParent(a)
  PROVE  JobInv'
<1> USE DEF attempts, site, receipt, records, Refuse, Calling, Goes, Steps, Waits
<1>1. (DriverTyped /\ ReceiptTyped /\ RecordTyped /\ Logged)'
  BY DEF JobInv, DriverTyped, RemoveParent, ReceiptTyped, RecordTyped, Logged, InStep
<1>2. SiteTyped'
  BY DEF JobInv, SiteTyped, Calls, DriverTyped, RemoveParent
<1>3. InStep'
  BY DEF JobInv, DriverTyped, SiteTyped, InStep, RemoveParent
<1>4. (InProgress /\ RunOut /\ Reported)'
  BY DEF JobInv, DriverTyped, SiteTyped, InStep, InProgress, RunOut, More, Reported, RemoveParent
<1>5. AsShipped'
  BY DEF JobInv, DriverTyped, SiteTyped, InStep, AsShipped, RemoveParent
<1>6. (ReadRight /\ ReadFirst)'
  BY DEF JobInv, DriverTyped, SiteTyped, InStep, InProgress, ReadRight, ReadFirst, RemoveParent
<1>7. BuiltWhere'
  BY DEF JobInv, DriverTyped, SiteTyped, InStep, InProgress, BuiltWhere, IsOf, RemoveParent
<1> QED BY <1>1, <1>2, <1>3, <1>4, <1>5, <1>6, <1>7 DEF JobInv

LEMMA NothingOfTheJob ==
  ASSUME JobInv, UNCHANGED jobVars
  PROVE  JobInv'
<1> USE DEF attempts, site, receipt, records, Refuse, Calling, Goes, Steps, Waits
<1>1. (DriverTyped /\ ReceiptTyped /\ RecordTyped /\ Logged)'
  BY DEF JobInv, DriverTyped, jobVars, ReceiptTyped, RecordTyped, Logged, InStep
<1>2. SiteTyped'
  BY DEF JobInv, SiteTyped, Calls, DriverTyped, jobVars
<1>3. InStep'
  BY DEF JobInv, DriverTyped, SiteTyped, InStep, jobVars
<1>4. (InProgress /\ RunOut /\ Reported)'
  BY DEF JobInv, DriverTyped, SiteTyped, InStep, InProgress, RunOut, More, Reported, jobVars
<1>5. AsShipped'
  BY DEF JobInv, DriverTyped, SiteTyped, InStep, AsShipped, jobVars
<1>6. (ReadRight /\ ReadFirst)'
  BY DEF JobInv, DriverTyped, SiteTyped, InStep, InProgress, ReadRight, ReadFirst, jobVars
<1>7. BuiltWhere'
  BY DEF JobInv, DriverTyped, SiteTyped, InStep, InProgress, BuiltWhere, IsOf, jobVars
<1> QED BY <1>1, <1>2, <1>3, <1>4, <1>5, <1>6, <1>7 DEF JobInv

LEMMA JobStarts == JobInit => JobInv
<1> SUFFICES ASSUME JobInit PROVE JobInv
  OBVIOUS
<1>1. DriverTyped
  BY DEF JobInit, DriverTyped, JobKinds
<1>2. SiteTyped
  <2>1. \A a \in Attempts : did[a] = <<>> /\ kind[a] = "build"
    BY DEF JobInit
  <2>2. <<>> \in Seq(Deed) /\ Len(<<>>) = 0 /\ Commands["build"] \in Nat
    BY DEF JobKinds
  <2>3. did \in [Attempts -> Seq(Deed)]
    BY <2>2 DEF JobInit
  <2>4. \A a \in Attempts : Len(did[a]) <= Commands[kind[a]]
    BY <2>1, <2>2
  <2> QED  BY <2>3, <2>4 DEF JobInit, SiteTyped
<1>3. ReceiptTyped /\ RecordTyped
  BY DEF JobInit, ReceiptTyped, RecordTyped, Input
<1>4. InStep /\ InProgress /\ RunOut /\ Reported /\ AsShipped
  BY DEF JobInit, InStep, Steps, InProgress, RunOut, Reported, AsShipped, Attempts
<1>5. ReadRight /\ ReadFirst /\ Logged /\ BuiltWhere
  BY DEF JobInit, ReadRight, ReadFirst, Logged, BuiltWhere
<1> QED  BY <1>1, <1>2, <1>3, <1>4, <1>5 DEF JobInv

LEMMA JobSteps == JobInv /\ [JobNext]_jobVars => JobInv'
<1> SUFFICES ASSUME JobInv, [JobNext]_jobVars PROVE JobInv'
  OBVIOUS
<1>1. CASE GivenUp \/ Crash
  BY <1>1, AttemptIsLeft DEF GivenUp, Crash
<1>2. CASE Answered \/ Stage \/ Collect \/ Check \/ AppendEntry \/ Record \/ CaseFilesChange
  BY <1>2, CallAnswers, JobIsShipped, CopyIsTaken, CopyIsRead, EntryIsWritten, AttemptIsRecorded,
     InputsChange
<1>3. CASE \E k \in JobKinds, p \in Places : Start(k, p)
  BY <1>3, AttemptStarts
<1>4. ASSUME NEW a \in Attempts,
             MakeParent(a) \/ MakeDir(a) \/ ScriptStarts(a) \/ CommandStarts(a) \/ ScriptEnds(a)
      PROVE  JobInv'
  BY <1>4, ParentIsMade, DirIsMade, ScriptIsStarted, CommandIsStarted, ScriptHasEnded
<1>5. ASSUME NEW a \in Attempts, \E st \in Codes : CommandEnds(a, st) PROVE JobInv'
  BY <1>5, CommandHasEnded
<1>6. ASSUME NEW a \in Attempts, Interferes(a) \/ \E k \in DOMAIN printed : TakesLine(a, k)
      PROVE  JobInv'
  BY <1>6, FileIsRewritten, LineIsTaken
<1>7. ASSUME NEW a \in Attempts,
             \E i \in 1 .. Commands[kind[a]] + 1, st \in {"ok", "fail"} : StrayLine(a, i, st)
      PROVE  JobInv'
  BY <1>7, LineIsAdded DEF Codes
<1>8. ASSUME NEW a \in Attempts, RemoveDir(a) \/ RemoveParent(a) PROVE JobInv'
  BY <1>8, DirIsRemoved, ParentIsRemoved
<1>9. CASE UNCHANGED jobVars
  BY <1>9, NothingOfTheJob
<1> QED
  BY <1>1, <1>2, <1>3, <1>4, <1>5, <1>6, <1>7, <1>8, <1>9 DEF JobNext, Driver, Site

LEMMA JobInvariant == JobSpec => []JobInv
  BY JobStarts, JobSteps, PTL DEF JobSpec

(* Every variable of a remote job keeps its type, for any places, machines, *)
(* commands and number of attempts.                                        *)
THEOREM JobsKeepTheirTypes == JobSpec => []JobTypeOK
<1>1. JobInv => JobTypeOK
  BY DEF JobInv, DriverTyped, SiteTyped, ReceiptTyped, RecordTyped, JobTypeOK
<1> QED  BY <1>1, JobInvariant, PTL

(* An entry of the command log tells what a command did at the site, and of *)
(* which inputs, whatever was rewritten, removed or printed beside and      *)
(* whichever attempts ran, except the half that a status line taken, or a   *)
(* rewrite undone, can forge (_run_job reads all before it records).        *)
THEOREM EntriesAreTrue == JobSpec => []EntriesTellWhatRan
<1>1. JobInv => EntriesTellWhatRan
  <2> SUFFICES ASSUME JobInv, NEW e \in log
               PROVE  LET a == e.attempt  i == e.command
                      IN  /\ e.code # "nostart"
                          /\ "line" \notin touched[a] => i \in DOMAIN did[a] /\ did[a][i].code = e.code
                          /\ "input" \notin touched[a] /\ i \in DOMAIN did[a] =>
                               did[a][i].input = e.input
    BY DEF EntriesTellWhatRan
  <2>1. /\ e.attempt \in Attempts /\ read[e.attempt] # Nothing
        /\ e.command \in DOMAIN read[e.attempt].codes
        /\ e.code = read[e.attempt].codes[e.command] /\ e.input = read[e.attempt].input
    BY DEF JobInv, Logged
  <2> QED  BY <2>1 DEF JobInv, ReadRight
<1> QED  BY <1>1, JobInvariant, PTL

(* A job that ran anything leaves its directory at the site until what its  *)
(* commands did was read, the whole of it where no status line was taken    *)
(* (_run_job removes it last): a job refused before has its directory yet.  *)
THEOREM EvidenceStays == JobSpec => []EvidenceIsKept
<1>1. JobInv => EvidenceIsKept
  <2> SUFFICES ASSUME JobInv, NEW a \in Attempts, did[a] # <<>>, ~dir[a]
               PROVE  /\ read[a] # Nothing
                      /\ "line" \notin touched[a] =>
                           /\ DOMAIN read[a].codes = DOMAIN did[a]
                           /\ \A i \in DOMAIN did[a] : read[a].codes[i] = did[a][i].code
    BY DEF EvidenceIsKept
  <2>1. read[a] # Nothing
    <3>1. ReadFirst /\ dir[a] \in BOOLEAN
      BY DEF JobInv, SiteTyped
    <3> QED  BY <3>1 DEF ReadFirst
  <2> QED  BY <2>1 DEF JobInv, ReadRight
<1> QED  BY <1>1, JobInvariant, PTL

(* What Validate.execute runs, it runs at the place and on the machine that *)
(* built the binary, wherever the operator's map and the scheduler sent the *)
(* two (_execute_inproc refuses another place, the script another machine). *)
THEOREM BinariesRunWhereBuilt == JobSpec => []RanWhereBuilt
<1>1. JobInv => RanWhereBuilt
  <2> SUFFICES ASSUME JobInv, NEW a \in Attempts, kind[a] = "execute", did[a] # <<>>
               PROVE  place[a] = place[used[a].att] /\ node[a] = node[used[a].att]
    BY DEF RanWhereBuilt
  <2>1. proc[a] # "none"
    BY DEF JobInv, InProgress
  <2>2. /\ IsOf(used[a]) /\ used[a].place = place[a] /\ used[a].machine # Nothing
        /\ node[a] = used[a].machine
    BY <2>1 DEF JobInv, BuiltWhere
  <2>3. answer[used[a].att] \in {node[used[a].att], Nothing}
    BY <2>2 DEF JobInv, SiteTyped, IsOf
  <2> QED  BY <2>2, <2>3 DEF IsOf
<1> QED  BY <1>1, JobInvariant, PTL
=============================================================================
