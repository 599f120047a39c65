------------------------ MODULE Registration_proofs ------------------------
(* Proofs about the thread registration, for any children and any number   *)
(* of errors and crashes.                                                  *)
EXTENDS Registration, TLAPS

LEMMA RowType ==
  ASSUME NEW s \in Sessions, NEW d \in BOOLEAN
  PROVE  Row(s, d) \in Rows
BY DEF Row, Rows

LEMMA NoTxIsNot == NoTx \notin Txs /\ ~NoTx.live /\ (\A t \in Txs : t.live)
BY DEF NoTx, Txs

LEMMA InitInv == Init => IInv
<1> SUFFICES ASSUME Init PROVE IInv
  OBVIOUS
<1>1. TypeOK
  BY RegistrationAssumption, RowType
     DEF Init, TypeOK, Sessions, Indexes, Labels, Nobody, Rows, Row
<1>2. ~tx.live
  BY DEF Init, NoTx
<1> QED
  BY <1>1, <1>2, RegistrationAssumption
     DEF Init, IInv, TxInv, HolderInv, Held, SeenInv, ReportedIsDurable, SeenIndex, SeenResponse,
         Journaled, Row, Nobody

-----------------------------------------------------------------------------
(* Types, and the lock.                                                    *)

(* The parts of a live transaction.                                        *)
LEMMA TxParts ==
  ASSUME TypeOK, tx.live
  PROVE  /\ tx \in Txs /\ tx.journal \in BOOLEAN /\ tx.child \in Children
         /\ tx.saved \subseteq Files
         /\ tx.oldResponse \in Sessions /\ tx.oldIndex \in Indexes
         /\ tx.newIndex \in Indexes
<1>1. tx # NoTx
  BY DEF NoTx
<1>2. tx \in Txs
  BY <1>1 DEF TypeOK
<1> QED BY <1>2 DEF Txs

LEMMA TypeStep == IInv /\ [Next]_vars => TypeOK'
<1> SUFFICES ASSUME IInv, [Next]_vars PROVE TypeOK'
  OBVIOUS
<1>0. TypeOK /\ HolderInv
  BY DEF IInv
<1> USE RegistrationAssumption
<1>1. CASE UNCHANGED vars
  BY <1>0, <1>1 DEF TypeOK, vars, files
<1>2. ASSUME NEW c \in Children, WriteResponse(c) PROVE TypeOK'
  BY <1>0, <1>2 DEF WriteResponse, TypeOK, Sessions
<1>3. ASSUME NEW c \in Children, Enter(c) PROVE TypeOK'
  <2>1. Wanted(c) \subseteq {"launch", "register", "finish", "repair", "restart"}
    BY <1>0 DEF Wanted, TypeOK
  <2> QED BY <1>0, <1>3, <2>1 DEF Enter, TypeOK, files, Goto, Labels, Nobody
<1>4. ASSUME NEW c \in Children,
             \/ FindNothing(c) \/ FindStaging(c) \/ Sync(c)
      PROVE  TypeOK'
  BY <1>0, <1>4 DEF FindNothing, FindStaging, Sync, Resumed, At, Goto, TypeOK, files, Labels
<1>5. ASSUME NEW c \in Children, UndoIndex(c) \/ UndoResponse(c) PROVE TypeOK'
  <2>1. tx.live
    BY <1>0, <1>5 DEF UndoIndex, UndoResponse, At, HolderInv, Held, Journaled
  <2>2. \A v \in {tx.saved \ {"index"}, tx.saved \ {"response"}} :
          [tx EXCEPT !.saved = v] \in Txs
    BY <1>0, <2>1, TxParts DEF Txs
  <2> QED BY <1>0, <1>5, <2>1, <2>2, TxParts
          DEF UndoIndex, UndoResponse, At, Goto, TypeOK, Labels
<1>6. ASSUME NEW c \in Children, Unjournal(c) \/ Commit(c) \/ WriteJournal(c) PROVE TypeOK'
  <2>1. tx.live
    BY <1>0, <1>6 DEF Unjournal, Commit, WriteJournal, At, HolderInv, Held, Journaled, Mine
  <2>2. \A b \in BOOLEAN : [tx EXCEPT !.journal = b] \in Txs
    BY <1>0, <2>1, TxParts DEF Txs
  <2> QED BY <1>0, <1>6, <2>2 DEF Unjournal, Commit, WriteJournal, At, Goto, TypeOK, files, Labels
<1>7. ASSUME NEW c \in Children, Sweep(c) PROVE TypeOK'
  BY <1>0, <1>7 DEF Sweep, At, Goto, TypeOK, files, Labels
<1>8. ASSUME NEW c \in Children, AppendRow(c) PROVE TypeOK'
  <2>1. Row(response[c], op[c] = "finish") \in Rows
    BY <1>0, RowType DEF TypeOK
  <2> QED BY <1>0, <1>8, <2>1 DEF AppendRow, At, Goto, Leave, TypeOK, Indexes, Labels, Nobody
<1>9. ASSUME NEW c \in Children, Recovered(c) \/ Conflict(c) \/ Raise(c) PROVE TypeOK'
  BY <1>0, <1>9 DEF Recovered, Conflict, Raise, At, Goto, Leave, TypeOK, files, Labels, Nobody
<1>10. ASSUME NEW c \in Children, Stage(c) PROVE TypeOK'
  <2>1. Row("thread", FALSE) \in Rows
    BY RowType DEF Sessions
  <2>2. tx' \in Txs
    BY <1>0, <1>10, <2>1 DEF Stage, TypeOK, Txs, Indexes
  <2> QED BY <1>0, <1>10, <2>2 DEF Stage, At, Goto, TypeOK, files, Labels
<1>11. ASSUME NEW c \in Children, RenameResponse(c) PROVE TypeOK'
  BY <1>0, <1>11 DEF RenameResponse, At, Goto, TypeOK, Labels, Sessions
<1>12. ASSUME NEW c \in Children, RenameIndex(c) PROVE TypeOK'
  <2>1. tx.live
    BY <1>0, <1>12 DEF RenameIndex, At, HolderInv, Held, Mine
  <2> QED BY <1>0, <1>12, <2>1, TxParts DEF RenameIndex, At, Goto, TypeOK, Labels
<1>13. ASSUME NEW c \in Children, Clean(c) PROVE TypeOK'
  BY <1>0, <1>13 DEF Clean, At, Goto, Leave, TypeOK, files, Labels, Nobody
<1>14. ASSUME NEW c \in Children, Error(c) PROVE TypeOK'
  <2>1. \A l \in {"recover", "raise"} : l \in Labels /\ l # "out"
    BY DEF Labels
  <2> QED BY <1>0, <1>14, <2>1 DEF Error, Goto, TypeOK, files, Undone, Uncaught
<1>15. ASSUME NEW c \in Children, Crash(c) PROVE TypeOK'
  BY <1>0, <1>15 DEF Crash, Goto, TypeOK, files, Labels, Nobody
<1> QED
  BY <1>1, <1>2, <1>3, <1>4, <1>5, <1>6, <1>7, <1>8, <1>9, <1>10, <1>11, <1>12, <1>13,
     <1>14, <1>15 DEF Next, Settled, Step

-----------------------------------------------------------------------------
(* The staging directory.                                                  *)

LEMMA TxStep == IInv /\ [Next]_vars => TxInv'
<1> SUFFICES ASSUME IInv, [Next]_vars PROVE TxInv'
  OBVIOUS
<1>0. TypeOK /\ TxInv /\ HolderInv /\ SeenInv
  BY DEF IInv
<1>1. tx.live => tx.child \in Children /\ tx.journal \in BOOLEAN
  BY <1>0, TxParts
<1>2. CASE UNCHANGED <<files, tx>>
  BY <1>0, <1>2 DEF TxInv, Journaled, files
<1>3. ASSUME NEW c \in Children, WriteResponse(c) PROVE TxInv'
  BY <1>0, <1>1, <1>3 DEF WriteResponse, TxInv, Journaled, TypeOK
<1>4. ASSUME NEW c \in Children, UndoIndex(c) PROVE TxInv'
  <2>1. tx.live /\ tx.journal /\ tx \in Txs
    BY <1>0, <1>4, TxParts DEF UndoIndex, At, HolderInv, Held, Journaled
  <2>2. CASE UNCHANGED <<index, tx>>
    BY <1>0, <1>4, <2>2 DEF UndoIndex, TxInv, Journaled
  <2>3. CASE index' = tx.oldIndex /\ tx' = [tx EXCEPT !.saved = @ \ {"index"}]
    BY <1>0, <1>4, <2>1, <2>3 DEF UndoIndex, TxInv, Journaled, Txs
  <2> QED BY <1>4, <2>2, <2>3 DEF UndoIndex
<1>5. ASSUME NEW c \in Children, UndoResponse(c) PROVE TxInv'
  <2>1. tx.live /\ tx.journal /\ tx \in Txs
    BY <1>0, <1>5, TxParts DEF UndoResponse, At, HolderInv, Held, Journaled
  <2>2. CASE UNCHANGED <<response, tx>>
    BY <1>0, <1>5, <2>2 DEF UndoResponse, TxInv, Journaled
  <2>3. CASE /\ response' = [response EXCEPT ![tx.child] = tx.oldResponse]
             /\ tx' = [tx EXCEPT !.saved = @ \ {"response"}]
    BY <1>0, <1>1, <1>5, <2>1, <2>3 DEF UndoResponse, TxInv, Journaled, Txs, TypeOK
  <2> QED BY <1>5, <2>2, <2>3 DEF UndoResponse
<1>6. ASSUME NEW c \in Children, Unjournal(c) \/ Commit(c) \/ WriteJournal(c) PROVE TxInv'
  <2>1. tx.live /\ tx \in Txs
    BY <1>0, <1>6, TxParts
       DEF Unjournal, Commit, WriteJournal, At, HolderInv, Held, Journaled, Mine
  <2>2. /\ tx'.live /\ tx'.child = tx.child /\ tx'.saved = tx.saved
        /\ tx'.oldResponse = tx.oldResponse /\ tx'.oldIndex = tx.oldIndex
        /\ tx'.newIndex = tx.newIndex
    BY <1>6, <2>1 DEF Unjournal, Commit, WriteJournal, Txs
  <2>3. CASE Unjournal(c) \/ Commit(c)
    <3>1. ~tx'.journal
      BY <2>1, <2>3 DEF Unjournal, Commit, Txs
    <3> QED BY <1>0, <2>1, <2>2, <2>3, <3>1 DEF Unjournal, Commit, TxInv, Journaled, files
  <2>4. CASE WriteJournal(c)
    <3>1. Unchanged /\ UNCHANGED files
      BY <1>0, <2>4 DEF WriteJournal, At, HolderInv, Held
    <3> QED BY <1>0, <2>1, <2>2, <3>1 DEF TxInv, Journaled, files, Unchanged
  <2> QED BY <1>6, <2>3, <2>4
<1>7. ASSUME NEW c \in Children, Sweep(c) \/ Clean(c) PROVE TxInv'
  BY <1>7, NoTxIsNot DEF Sweep, Clean, TxInv, Journaled
<1>8. ASSUME NEW c \in Children, AppendRow(c) PROVE TxInv'
  BY <1>0, <1>8 DEF AppendRow, At, HolderInv, Held, TxInv, Journaled
<1>9. ASSUME NEW c \in Children, Stage(c) PROVE TxInv'
  <2>1. response[c] # "none"
    BY <1>0, <1>9 DEF Stage, At, HolderInv, Held, SeenInv
  <2>2. /\ ~tx'.journal /\ tx'.child = c /\ tx'.oldResponse = response[c]
        /\ tx'.oldIndex = index /\ tx'.newIndex = [index EXCEPT ![c] = Row("thread", FALSE)]
        /\ UNCHANGED files
    BY <1>9 DEF Stage
  <2> QED BY <2>1, <2>2 DEF TxInv, Journaled, files
<1>10. ASSUME NEW c \in Children, RenameResponse(c) PROVE TxInv'
  BY <1>0, <1>10 DEF RenameResponse, At, HolderInv, Held, Mine, Unchanged, TxInv, Journaled, TypeOK, Files
<1>11. ASSUME NEW c \in Children, RenameIndex(c) PROVE TxInv'
  BY <1>0, <1>11 DEF RenameIndex, At, HolderInv, Held, Mine, TxInv, Journaled, Files
<1> QED
  BY <1>2, <1>3, <1>4, <1>5, <1>6, <1>7, <1>8, <1>9, <1>10, <1>11
     DEF Next, Settled, Step, vars, Enter, FindNothing, FindStaging, Recovered, Conflict, Sync,
         Raise, Error, Crash

-----------------------------------------------------------------------------
(* The holder of the lock.                                                 *)

LEMMA HolderStep == IInv /\ [Next]_vars => HolderInv'
<1> SUFFICES ASSUME IInv, [Next]_vars, NEW h \in Children, lock' = h
             PROVE  Held(h)'
  BY DEF HolderInv
<1>0. TypeOK /\ TxInv /\ HolderInv /\ SeenInv
  BY DEF IInv
<1>1. h # Nobody
  BY RegistrationAssumption DEF Nobody
<1>2. tx.live => tx.child \in Children /\ tx.journal \in BOOLEAN
  BY <1>0, TxParts
<1>3. CASE UNCHANGED vars
  BY <1>0, <1>3 DEF HolderInv, Held, vars, files, Journaled, Mine, Unchanged
<1>4. ASSUME NEW c \in Children, WriteResponse(c) PROVE Held(h)'
  <2>1. lock = h /\ response[c] = "none" /\ UNCHANGED <<index, tx, pc>>
        /\ response' = [response EXCEPT ![c] = "provisional"]
        /\ stage' = [stage EXCEPT ![c] = "written"]
    BY <1>4 DEF WriteResponse
  <2>2. tx.live => c # tx.child
    BY <1>0, <2>1 DEF TxInv
  <2>3. c # h
    BY <1>0, <1>4, <2>1 DEF WriteResponse, HolderInv, Held
  <2> QED BY <1>0, <1>2, <2>1, <2>2, <2>3
          DEF HolderInv, Held, Journaled, Mine, Unchanged, TypeOK
<1>5. ASSUME NEW c \in Children, Enter(c) PROVE Held(h)'
  <2>1. c = h /\ pc'[h] = "recover" /\ stage' = stage
    BY <1>0, <1>5 DEF Enter, Goto, TypeOK
  <2>2. stage[h] # "new"
    BY <1>5, <2>1 DEF Enter, Wanted
  <2> QED BY <2>1, <2>2 DEF Held
<1>6. ASSUME NEW c \in Children, Crash(c) PROVE Held(h)'
  <2>1. c # h /\ lock = h
    BY <1>1, <1>6 DEF Crash
  <2> QED BY <1>0, <1>6, <2>1
          DEF Crash, Goto, TypeOK, HolderInv, Held, files, Journaled, Mine, Unchanged
<1>7. ASSUME NEW c \in Children,
             AppendRow(c) \/ Recovered(c) \/ Conflict(c) \/ Clean(c) \/ Raise(c)
      PROVE  Held(h)'
  BY <1>1, <1>7 DEF AppendRow, Recovered, Conflict, Clean, Raise, Leave
<1>9. ASSUME FindNothing(h) \/ FindStaging(h) PROVE Held(h)'
  <2>1. lock = h /\ stage' = stage /\ UNCHANGED <<files, tx>>
    BY <1>9 DEF FindNothing, FindStaging, At
  <2>2. CASE FindNothing(h)
    <3>1. ~tx.live /\ pc'[h] \in {"raise", "body"}
      BY <1>0, <2>2 DEF FindNothing, Goto, Resumed, TypeOK
    <3> QED BY <1>0, <2>1, <3>1 DEF HolderInv, Held
  <2>3. CASE FindStaging(h)
    <3>1. tx.live /\ pc'[h] = (IF tx.journal THEN "undoIndex" ELSE "sweep")
      BY <1>0, <2>3 DEF FindStaging, Goto, TypeOK
    <3> QED BY <1>0, <1>2, <2>1, <3>1 DEF HolderInv, Held, Journaled
  <2> QED BY <1>9, <2>2, <2>3
<1>10. ASSUME UndoIndex(h) PROVE Held(h)'
  <2>1. lock = h /\ stage' = stage /\ Journaled /\ tx \in Txs
    BY <1>0, <1>10, TxParts DEF UndoIndex, At, HolderInv, Held, Journaled
  <2>2. tx'.live /\ tx'.journal /\ tx'.oldIndex = tx.oldIndex
    BY <1>10, <2>1 DEF UndoIndex, Journaled, Txs
  <2>3. \/ pc'[h] = "undoResponse" /\ index' = tx.oldIndex
        \/ pc'[h] = "raise"
    BY <1>0, <1>10 DEF UndoIndex, Goto, TypeOK
  <2> QED BY <1>0, <2>1, <2>2, <2>3 DEF HolderInv, Held, Journaled
<1>11. ASSUME UndoResponse(h) PROVE Held(h)'
  <2>1. lock = h /\ stage' = stage /\ Journaled /\ tx \in Txs /\ index' = tx.oldIndex
    BY <1>0, <1>11, TxParts DEF UndoResponse, At, HolderInv, Held, Journaled
  <2>2. tx'.live /\ tx'.journal /\ tx'.oldIndex = tx.oldIndex /\ tx'.child = tx.child
        /\ tx'.oldResponse = tx.oldResponse
    BY <1>11, <2>1 DEF UndoResponse, Journaled, Txs
  <2>3. \/ pc'[h] = "unjournal" /\ response'[tx.child] = tx.oldResponse
        \/ pc'[h] = "raise"
    BY <1>0, <1>2, <1>11, <2>1 DEF UndoResponse, Goto, TypeOK, Journaled
  <2> QED BY <1>0, <2>1, <2>2, <2>3 DEF HolderInv, Held, Journaled
<1>12. ASSUME Unjournal(h) \/ Commit(h) \/ WriteJournal(h) PROVE Held(h)'
  <2>1. lock = h /\ stage' = stage /\ tx.live /\ tx \in Txs /\ UNCHANGED files
    BY <1>0, <1>12, TxParts
       DEF Unjournal, Commit, WriteJournal, At, HolderInv, Held, Journaled, Mine
  <2>2. tx'.live /\ tx'.child = tx.child /\ tx'.oldResponse = tx.oldResponse
        /\ tx'.oldIndex = tx.oldIndex /\ tx'.newIndex = tx.newIndex /\ tx'.saved = tx.saved
    BY <1>12, <2>1 DEF Unjournal, Commit, WriteJournal, Txs
  <2>3. CASE Unjournal(h)
    <3>1. ~tx'.journal /\ pc'[h] = "sweep"
      BY <1>0, <2>1, <2>3 DEF Unjournal, Goto, TypeOK, Txs
    <3> QED BY <1>0, <2>1, <2>2, <3>1 DEF HolderInv, Held
  <2>4. CASE Commit(h)
    <3>1. ~tx'.journal /\ pc'[h] = "clean"
      BY <1>0, <2>1, <2>4 DEF Commit, Goto, TypeOK, Txs
    <3>2. Mine(h) /\ response[h] = "thread" /\ index = tx.newIndex
      BY <1>0, <2>1, <2>4 DEF Commit, At, HolderInv, Held
    <3>3. index[h].session = "thread"
      BY <1>0, <2>1, <3>2, TxParts DEF TxInv, Mine, Indexes, Row
    <3> QED BY <1>0, <2>1, <2>2, <3>1, <3>2, <3>3 DEF HolderInv, Held, Mine, files
  <2>5. CASE WriteJournal(h)
    <3>1. tx'.journal /\ pc'[h] = "renameResponse"
      BY <1>0, <2>1, <2>5 DEF WriteJournal, Goto, TypeOK, Txs
    <3>2. Mine(h) /\ Unchanged /\ tx.saved = Files
      BY <1>0, <2>1, <2>5 DEF WriteJournal, At, HolderInv, Held
    <3> QED BY <1>0, <2>1, <2>2, <3>1, <3>2 DEF HolderInv, Held, Mine, Unchanged, files
  <2> QED BY <1>12, <2>3, <2>4, <2>5
<1>13. ASSUME Sweep(h) PROVE Held(h)'
  <2>1. lock = h /\ stage' = stage /\ pc'[h] = "recover"
    BY <1>0, <1>13 DEF Sweep, At, Goto, TypeOK
  <2> QED BY <1>0, <2>1 DEF HolderInv, Held
<1>14. ASSUME Stage(h) PROVE Held(h)'
  <2>1. lock = h /\ stage' = stage /\ pc'[h] = "journal" /\ UNCHANGED files
    BY <1>0, <1>14 DEF Stage, At, Goto, TypeOK
  <2>2. tx'.live /\ ~tx'.journal /\ tx'.child = h /\ tx'.oldResponse = response[h]
        /\ tx'.oldIndex = index /\ tx'.saved = Files
    BY <1>14 DEF Stage
  <2> QED BY <1>0, <2>1, <2>2 DEF HolderInv, Held, Mine, Unchanged, files
<1>15. ASSUME RenameResponse(h) PROVE Held(h)'
  <2>1. lock = h /\ stage' = stage /\ pc'[h] = "renameIndex" /\ response'[h] = "thread"
        /\ UNCHANGED <<index, tx>>
    BY <1>0, <1>15 DEF RenameResponse, At, Goto, TypeOK
  <2>2. Mine(h) /\ tx.journal /\ tx.saved = Files
    BY <1>0, <1>15 DEF RenameResponse, At, HolderInv, Held
  <2> QED BY <1>0, <2>1, <2>2 DEF HolderInv, Held, Mine
<1>16. ASSUME RenameIndex(h) \/ Sync(h) PROVE Held(h)'
  <2>1. lock = h /\ stage' = stage /\ pc'[h] \in {"sync", "commit"}
        /\ UNCHANGED <<response, tx>>
    BY <1>0, <1>16 DEF RenameIndex, Sync, At, Goto, TypeOK, files
  <2>2. Mine(h) /\ tx.journal /\ response[h] = "thread" /\ index' = tx.newIndex
    BY <1>0, <1>16 DEF RenameIndex, Sync, At, HolderInv, Held, files
  <2> QED BY <1>0, <2>1, <2>2 DEF HolderInv, Held, Mine
<1>17. ASSUME Error(h) PROVE Held(h)'
  <2>1. lock = h /\ stage' = stage /\ pc'[h] \in {"recover", "raise"}
    BY <1>0, <1>17 DEF Error, Goto, TypeOK
  <2> QED BY <1>0, <2>1 DEF HolderInv, Held
<1> QED
  <2>1. ASSUME NEW c \in Children, Step(c) \/ Error(c) PROVE Held(h)'
    <3>1. CASE c = h
      BY <1>5, <1>7, <1>9, <1>10, <1>11, <1>12, <1>13, <1>14, <1>15, <1>16, <1>17, <2>1, <3>1
         DEF Step
    <3>2. CASE c # h
      BY <1>1, <1>5, <1>7, <2>1, <3>2
         DEF Step, Error, At, FindNothing, FindStaging, UndoIndex, UndoResponse, Unjournal,
             Sweep, Stage, WriteJournal, RenameResponse, RenameIndex, Sync, Commit
    <3> QED BY <3>1, <3>2
  <2> QED BY <1>3, <1>4, <1>6, <2>1 DEF Next, Settled

-----------------------------------------------------------------------------
(* What a locked reader sees, step by step.                                *)

LEMMA SeenType == TypeOK => SeenResponse \in [Children -> Sessions] /\ SeenIndex \in Indexes
<1> SUFFICES ASSUME TypeOK PROVE SeenResponse \in [Children -> Sessions] /\ SeenIndex \in Indexes
  OBVIOUS
<1>1. Journaled => /\ tx.child \in Children /\ tx.oldResponse \in Sessions
                   /\ tx.oldIndex \in Indexes
  BY TxParts DEF Journaled
<1> QED BY <1>1 DEF SeenResponse, SeenIndex, TypeOK

(* A locked reader sees no step of a transaction but the removal of the    *)
(* journal that commits it.                                                *)
LEMMA SeenUnchanged ==
  ASSUME IInv, NEW c \in Children,
         \/ Enter(c) \/ FindNothing(c) \/ FindStaging(c) \/ UndoIndex(c) \/ UndoResponse(c)
         \/ Unjournal(c) \/ Sweep(c) \/ Recovered(c) \/ Conflict(c) \/ Stage(c)
         \/ WriteJournal(c) \/ RenameResponse(c) \/ RenameIndex(c) \/ Sync(c) \/ Clean(c)
         \/ Raise(c) \/ Error(c) \/ Crash(c)
  PROVE  UNCHANGED <<SeenResponse, SeenIndex>>
<1>0. TypeOK /\ TxInv /\ HolderInv
  BY DEF IInv
<1>1. tx.live => tx \in Txs /\ tx.child \in Children /\ tx.journal \in BOOLEAN
  BY <1>0, TxParts
<1>2. CASE UNCHANGED <<files, tx>>
  BY <1>2 DEF SeenResponse, SeenIndex, Journaled, files
<1>3. CASE UndoIndex(c) \/ UndoResponse(c)
  <2>1. Journaled /\ tx \in Txs
    BY <1>0, <1>1, <1>3 DEF UndoIndex, UndoResponse, At, HolderInv, Held, Journaled
  <2>2. /\ tx'.live /\ tx'.journal /\ tx'.child = tx.child
        /\ tx'.oldResponse = tx.oldResponse /\ tx'.oldIndex = tx.oldIndex
    BY <1>3, <2>1 DEF UndoIndex, UndoResponse, Journaled, Txs
  <2>3. [response' EXCEPT ![tx.child] = tx.oldResponse]
          = [response EXCEPT ![tx.child] = tx.oldResponse]
    BY <1>0, <1>1, <1>3, <2>1 DEF UndoIndex, UndoResponse, TypeOK
  <2> QED BY <2>1, <2>2, <2>3 DEF SeenResponse, SeenIndex, Journaled
<1>4. CASE Unjournal(c)
  <2>1. Journaled /\ Unchanged /\ tx \in Txs /\ UNCHANGED files
    BY <1>0, <1>1, <1>4 DEF Unjournal, At, HolderInv, Held, Journaled, Unchanged
  <2>2. ~tx'.journal
    BY <1>4, <2>1 DEF Unjournal, Txs
  <2>3. SeenResponse = response /\ SeenIndex = index
    BY <1>0, <2>1 DEF SeenResponse, SeenIndex, Unchanged, TypeOK
  <2> QED BY <2>1, <2>2, <2>3 DEF SeenResponse, SeenIndex, Journaled, files
<1>5. CASE Sweep(c) \/ Clean(c)
  <2>1. ~Journaled /\ UNCHANGED files /\ tx' = NoTx
    BY <1>0, <1>5 DEF Sweep, Clean, At, HolderInv, Held, Journaled
  <2> QED BY <2>1, NoTxIsNot DEF SeenResponse, SeenIndex, Journaled, files
<1>6. CASE Stage(c)
  <2>1. ~Journaled /\ UNCHANGED files /\ ~tx'.journal
    BY <1>0, <1>6 DEF Stage, At, HolderInv, Held, Journaled
  <2> QED BY <2>1 DEF SeenResponse, SeenIndex, Journaled, files
<1>7. CASE WriteJournal(c)
  <2>1. ~tx.journal /\ Unchanged /\ tx \in Txs /\ UNCHANGED files
    BY <1>0, <1>1, <1>7 DEF WriteJournal, At, HolderInv, Held, Mine
  <2>2. /\ tx'.child = tx.child /\ tx'.oldResponse = tx.oldResponse
        /\ tx'.oldIndex = tx.oldIndex
    BY <1>7, <2>1 DEF WriteJournal, Txs
  <2>3. [response EXCEPT ![tx.child] = tx.oldResponse] = response
    BY <1>0, <2>1 DEF Unchanged, TypeOK
  <2> QED BY <2>1, <2>2, <2>3 DEF SeenResponse, SeenIndex, Journaled, Unchanged, files
<1>8. CASE RenameResponse(c) \/ RenameIndex(c)
  <2>1. Journaled /\ tx.child = c /\ tx' = tx
    BY <1>0, <1>8 DEF RenameResponse, RenameIndex, At, HolderInv, Held, Mine, Journaled
  <2>2. [response' EXCEPT ![c] = tx.oldResponse] = [response EXCEPT ![c] = tx.oldResponse]
    BY <1>0, <1>8 DEF RenameResponse, RenameIndex, TypeOK
  <2> QED BY <2>1, <2>2 DEF SeenResponse, SeenIndex, Journaled
<1> QED
  BY <1>2, <1>3, <1>4, <1>5, <1>6, <1>7, <1>8
     DEF Enter, FindNothing, FindStaging, Recovered, Conflict, Sync, Raise, Error, Crash

LEMMA SeenWriteResponse ==
  ASSUME IInv, NEW c \in Children, WriteResponse(c)
  PROVE  Seen!WriteResponse(c)
<1>0. TypeOK /\ TxInv
  BY DEF IInv
<1>1. tx.live => tx.child \in Children /\ tx.child # c
  BY <1>0, TxParts DEF WriteResponse, TxInv
<1>2. CASE Journaled
  BY <1>0, <1>1, <1>2 DEF WriteResponse, Seen!WriteResponse, SeenResponse, SeenIndex, Journaled, TypeOK
<1>3. CASE ~Journaled
  BY <1>0, <1>3 DEF WriteResponse, Seen!WriteResponse, SeenResponse, SeenIndex, Journaled, TypeOK
<1> QED BY <1>2, <1>3

LEMMA SeenAppendRow ==
  ASSUME IInv, NEW c \in Children, AppendRow(c)
  PROVE  Seen!WriteRow(c)
<1>0. TypeOK /\ HolderInv /\ SeenInv
  BY DEF IInv
<1>1. ~Journaled /\ ~Journaled' /\ response[c] # "none"
  BY <1>0 DEF AppendRow, At, HolderInv, Held, Journaled, SeenInv
<1>2. response' = response /\ index' = [index EXCEPT ![c] = Row(response[c], op[c] = "finish")]
  BY DEF AppendRow
<1>3. Row(response[c], op[c] = "finish") = Seen!Row(response[c], op[c] = "finish")
  BY DEF Row, Seen!Row
<1> QED BY <1>1, <1>2, <1>3 DEF Seen!WriteRow, SeenResponse, SeenIndex

LEMMA SeenCommit ==
  ASSUME IInv, NEW c \in Children, Commit(c)
  PROVE  Seen!Bind(c)
<1>0. TypeOK /\ HolderInv /\ TxInv
  BY DEF IInv
<1>1. Journaled /\ tx \in Txs /\ tx.child = c /\ response[c] = "thread" /\ index = tx.newIndex
      /\ tx.oldResponse # "none" /\ UNCHANGED files
  BY <1>0, TxParts DEF Commit, At, HolderInv, Held, Mine, Journaled, TxInv
<1>2. ~tx'.journal
  BY <1>1 DEF Commit, Txs
<1>3. SeenResponse = [response EXCEPT ![c] = tx.oldResponse] /\ SeenResponse' = response
  BY <1>1, <1>2 DEF SeenResponse, Journaled, files
<1>4. SeenIndex = tx.oldIndex /\ SeenIndex' = [tx.oldIndex EXCEPT ![c] = Seen!Row("thread", FALSE)]
  BY <1>0, <1>1, <1>2 DEF SeenIndex, Journaled, TxInv, files, Row, Seen!Row
<1>5. response = [SeenResponse EXCEPT ![c] = "thread"]
  BY <1>0, <1>1, <1>3 DEF TypeOK
<1> QED BY <1>0, <1>1, <1>3, <1>4, <1>5 DEF Seen!Bind, TypeOK

LEMMA SeenSteps ==
  ASSUME IInv, [Next]_vars
  PROVE  \/ UNCHANGED <<SeenResponse, SeenIndex>>
         \/ \E c \in Children : Seen!WriteResponse(c) \/ Seen!WriteRow(c) \/ Seen!Bind(c)
<1>1. CASE UNCHANGED vars
  BY <1>1 DEF vars, files, SeenResponse, SeenIndex, Journaled
<1>2. ASSUME NEW c \in Children, WriteResponse(c) \/ AppendRow(c) \/ Commit(c)
      PROVE  Seen!WriteResponse(c) \/ Seen!WriteRow(c) \/ Seen!Bind(c)
  BY <1>2, SeenWriteResponse, SeenAppendRow, SeenCommit
<1>3. ASSUME NEW c \in Children, Step(c) \/ Error(c) \/ Crash(c),
             ~AppendRow(c), ~Commit(c)
      PROVE  UNCHANGED <<SeenResponse, SeenIndex>>
  BY <1>3, SeenUnchanged DEF Step
<1> QED BY <1>1, <1>2, <1>3 DEF Next, Settled, Step

-----------------------------------------------------------------------------
LEMMA SeenStep == IInv /\ [Next]_vars => SeenInv' /\ ReportedIsDurable'
<1> SUFFICES ASSUME IInv, [Next]_vars PROVE SeenInv' /\ ReportedIsDurable'
  OBVIOUS
<1>0. TypeOK /\ TxInv /\ HolderInv /\ SeenInv /\ ReportedIsDurable
  BY DEF IInv
<1>1. SeenResponse \in [Children -> Sessions] /\ SeenIndex \in Indexes
  BY <1>0, SeenType
<1>2. TypeOK'
  BY TypeStep
<1>3. ASSUME NEW d \in Children
      PROVE  /\ SeenIndex'[d].session \in {"none", SeenResponse'[d]}
             /\ SeenResponse[d] = "thread" => SeenResponse'[d] = "thread"
             /\ SeenResponse[d] = "thread" /\ SeenIndex[d].session = "thread"
                  => SeenIndex'[d].session = "thread"
  <2>1. CASE UNCHANGED <<SeenResponse, SeenIndex>>
    BY <1>0, <2>1 DEF SeenInv
  <2>2. ASSUME NEW c \in Children, Seen!WriteResponse(c) PROVE <1>3!2
    BY <1>0, <1>1, <2>2 DEF Seen!WriteResponse, SeenInv
  <2>3. ASSUME NEW c \in Children, Seen!WriteRow(c) PROVE <1>3!2
    BY <1>0, <1>1, <2>3 DEF Seen!WriteRow, Seen!Row, SeenInv, Indexes
  <2>4. ASSUME NEW c \in Children, Seen!Bind(c) PROVE <1>3!2
    BY <1>0, <1>1, <2>4 DEF Seen!Bind, Seen!Row, SeenInv, Indexes
  <2> QED BY <2>1, <2>2, <2>3, <2>4, SeenSteps
<1>4. ASSUME NEW d \in Children, stage'[d] # "new" PROVE response'[d] # "none"
  <2>1. response[d] # "none" => response'[d] # "none"
    <3>1. CASE UNCHANGED response
      BY <3>1
    <3>2. ASSUME NEW c \in Children, WriteResponse(c) \/ RenameResponse(c) PROVE (response[d] # "none" => response'[d] # "none")
      BY <1>0, <3>2 DEF WriteResponse, RenameResponse, TypeOK
    <3>3. ASSUME NEW c \in Children, UndoResponse(c) PROVE (response[d] # "none" => response'[d] # "none")
      <4>1. tx.live /\ tx.child \in Children /\ tx.oldResponse # "none"
        BY <1>0, <3>3, TxParts DEF UndoResponse, At, HolderInv, Held, Journaled, TxInv
      <4> QED BY <1>0, <3>3, <4>1 DEF UndoResponse, TypeOK
    <3> QED BY <3>1, <3>2, <3>3
            DEF Next, Settled, Step, vars, files, Enter, FindNothing, FindStaging, UndoIndex,
                Unjournal, Sweep, AppendRow, Recovered, Conflict, Stage, WriteJournal,
                RenameIndex, Sync, Commit, Clean, Raise, Error, Crash
  <2>2. CASE stage[d] # "new"
    BY <1>0, <2>1, <2>2 DEF SeenInv
  <2>3. CASE stage[d] = "new"
    <3>1. stage'[d] # stage[d]
      BY <1>4, <2>3
    <3>2. ~ \E c \in Children : At(c, pc[c]) /\ stage' = [stage EXCEPT ![c] = stage'[c]]
      BY <1>0, <2>3, <3>1 DEF At, HolderInv, Held, TypeOK
    <3>3. WriteResponse(d)
      BY <1>0, <2>3, <3>1, <3>2
         DEF Next, Settled, Step, vars, WriteResponse, Enter, FindNothing, FindStaging,
             UndoIndex, UndoResponse, Unjournal, Sweep, AppendRow, Recovered, Conflict, Stage,
             WriteJournal, RenameResponse, RenameIndex, Sync, Commit, Clean, Raise, Error, Crash,
             TypeOK, At, Leave
    <3> QED BY <1>0, <3>3 DEF WriteResponse, TypeOK
  <2> QED BY <2>2, <2>3
<1>5. ASSUME NEW d \in Children, stage'[d] = "bound"
      PROVE  SeenResponse'[d] = "thread" /\ SeenIndex'[d].session = "thread"
  <2>1. CASE stage[d] = "bound"
    BY <1>0, <1>3, <2>1 DEF ReportedIsDurable
  <2>2. CASE stage[d] # "bound"
    <3>1. Clean(d)
      BY <1>0, <1>5, <2>2
         DEF Next, Settled, Step, vars, WriteResponse, Enter, FindNothing, FindStaging,
             UndoIndex, UndoResponse, Unjournal, Sweep, AppendRow, Recovered, Conflict, Stage,
             WriteJournal, RenameResponse, RenameIndex, Sync, Commit, Clean, Raise, Error, Crash,
             TypeOK, Leave
    <3>2. response'[d] = "thread" /\ index'[d].session = "thread" /\ ~Journaled'
      BY <1>0, <3>1, NoTxIsNot DEF Clean, At, HolderInv, Held, files, Journaled
    <3> QED BY <3>2 DEF SeenResponse, SeenIndex
  <2> QED BY <2>1, <2>2
<1> QED BY <1>3, <1>4, <1>5 DEF SeenInv, ReportedIsDurable

-----------------------------------------------------------------------------
(* Every reachable state satisfies the inductive invariant of the          *)
(* registration and its recovery.                                          *)
THEOREM Invariance == Spec => []IInv
<1>1. IInv /\ [Next]_vars => IInv'
  BY TypeStep, TxStep, HolderStep, SeenStep DEF IInv
<1> QED BY <1>1, InitInv, PTL DEF Spec

(* The types hold, and whoever is past its entry holds the lock alone.     *)
THEOREM Typing == Spec => []TypeOK
<1>1. IInv => TypeOK
  BY DEF IInv
<1> QED BY <1>1, Invariance, PTL

(* The recovery never refuses for a missing backup, however often earlier  *)
(* recoveries died (_recover_json_transactions_unlocked).                  *)
THEOREM RecoveryNeverRefuses == Spec => []BackupsSuffice
<1>1. IInv => BackupsSuffice
  BY DEF IInv, BackupsSuffice, TxInv, HolderInv, Held, At
<1> QED BY <1>1, Invariance, PTL

(* A reader under the lock never works on split identities.                *)
THEOREM Whole == Spec => []NoSplitIdentities
<1>1. IInv => NoSplitIdentities
  <2> SUFFICES ASSUME IInv, NEW c \in Children, At(c, "body"), NEW d \in Children
               PROVE  index[d].session \in {"none", response[d]}
    BY DEF NoSplitIdentities
  <2>1. ~Journaled
    BY DEF IInv, HolderInv, Held, At, Journaled
  <2> QED BY <2>1 DEF IInv, SeenInv, SeenResponse, SeenIndex
<1> QED BY <1>1, Invariance, PTL

(* A registration reported as done stays (_write_json_transaction).        *)
THEOREM Durable == Spec => []ReportedIsDurable
<1>1. IInv => ReportedIsDurable
  BY DEF IInv
<1> QED BY <1>1, Invariance, PTL

(* The journaled transaction with its recovery implements the registration *)
(* that happens at once.                                                   *)
THEOREM Refinement == Spec => ImplementsAtomicRegistration
<1>1. Init => Seen!Init
  BY NoTxIsNot DEF Init, Seen!Init, SeenResponse, SeenIndex, Journaled, Row, Seen!Row
<1>2. IInv /\ [Next]_vars => [Seen!Next]_<<SeenResponse, SeenIndex>>
  BY SeenSteps DEF Seen!Next
<1> QED BY <1>1, <1>2, Invariance, PTL DEF Spec, Seen!Spec, ImplementsAtomicRegistration
=============================================================================
