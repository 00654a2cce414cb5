----------------------- MODULE RenameApplyBatch_proofs -----------------------
(***************************************************************************)
(* What the executor promises for the batch: how a step may move a file,   *)
(* in which order Undo works, what a rolled-back journal stands for, and   *)
(* that the executor implements ReversibleBatch.                           *)
(***************************************************************************)
EXTENDS RenameApplyRecord_proofs

\* Three steps of the program rename a file; the others are the environment's.
LEMMA FilesMove ==
  ASSUME [Next]_vars
  PROVE  \/ UNCHANGED <<src, dst>>
         \/ RenameForward \/ RestoreForeign \/ RenameBack
         \/ EnvironmentNext
<1>1. CASE ApplyNext
  BY <1>1
     DEF ApplyNext, JournalBatch, Commence, CancelApply, SkipEntry, RefuseEntry,
         CheckpointApplying, ReproveSource, RefuseUnbound, ConfirmRename, RestoreSync,
         SyncForward, LeaveInFlight, CommitForward, RecordApplied, FinishApply, fileVars
<1>2. CASE ReconcileNext
  BY <1>2 DEF ReconcileNext, PassSettledEntry, ReconcileEntry, Publish, fileVars
<1>3. CASE UndoNext
  BY <1>3
     DEF UndoNext, BeginUndo, CancelUndo, PassUndoEntry, CheckpointRollingBack, ProveUndo,
         RefuseUnboundUndo, ConfirmUndo, SyncBack, LeaveUndoInFlight, CommitBack,
         RecordRolledBack, FinishUndo, fileVars
<1>4. CASE StartReconcile \/ UserNext \/ UNCHANGED vars
  BY <1>4
     DEF StartReconcile, UserNext, StartApply, StartUndo, CancelReview, vars, fileVars
<1> QED BY <1>1, <1>2, <1>3, <1>4 DEF Next, OperationNext

LEMMA ForwardMoves ==
  ASSUME FilesOK, RenameForward
  PROVE  \/ UNCHANGED <<src, dst>>
         \/ /\ dst[cur] = "none"
            /\ \A i \in Entry :
                 /\ i = cur => src'[i] = "none" /\ dst'[i] = src[i]
                 /\ i # cur => src'[i] = src[i] /\ dst'[i] = dst[i]
BY DEF RenameForward, RenameNoReplace, MoveForward, FilesOK, fileVars

LEMMA BackMoves ==
  ASSUME FilesOK, RestoreForeign \/ RenameBack
  PROVE  \/ UNCHANGED <<src, dst>>
         \/ /\ src[cur] = "none"
            /\ \A i \in Entry :
                 /\ i = cur => dst'[i] = "none" /\ src'[i] = dst[i]
                 /\ i # cur => src'[i] = src[i] /\ dst'[i] = dst[i]
BY DEF RestoreForeign, RenameBack, RenameNoReplace, MoveBack, FilesOK, fileVars

\* No step of the program destroys or duplicates an object, whatever the other
\* programs put at the two paths between its steps, and a power loss does not.
THEOREM NeverClobbersCorrect == Spec => NeverClobbers
<1> DEFINE A == externals' = externals =>
                  \A i \in Entry :
                    \/ src'[i] = src[i] /\ dst'[i] = dst[i]
                    \/ dst[i] = "none" /\ src'[i] = "none" /\ dst'[i] = src[i]
                    \/ src[i] = "none" /\ dst'[i] = "none" /\ src'[i] = dst[i]
<1>1. ASSUME TypeInv, [Next]_vars PROVE A
  <2>1. FilesOK /\ RunOK
    BY <1>1, TypeInvSplit
  <2>2. CASE UNCHANGED <<src, dst>>
    BY <2>2
  <2>3. CASE RenameForward
    BY <2>1, <2>3, ForwardMoves
  <2>4. CASE RestoreForeign \/ RenameBack
    BY <2>1, <2>4, BackMoves
  <2>5. CASE \E i \in Entry : ExternalChange(i)
    BY <2>1, <2>5 DEF ExternalChange, RunOK
  <2>6. CASE ProcessCrash
    BY <2>2, <2>6 DEF ProcessCrash, fileVars
  <2>7. CASE \E lost \in SUBSET Entry : PowerLoss(lost)
    BY <2>1, <2>7 DEF PowerLoss, Revertible, FilesOK
  <2> QED BY <1>1, <2>2, <2>3, <2>4, <2>5, <2>6, <2>7, FilesMove DEF EnvironmentNext
<1>2. TypeInv /\ [Next]_vars => [A]_vars
  BY <1>1
<1> QED BY <1>2, TypeInit, TypeStep, PTL DEF Spec, NeverClobbers

----------------------------------------------------------------------------
(* The order of an Undo. *)

LEMMA AwayFromUndo ==
  ASSUME pc' \notin UndoLoop \cup {"restore"}
  PROVE  OrderInv'
BY DEF OrderInv

LEMMA NoLoop ==
  /\ \A step \in ApplyStep \cup ReconcileStep \cup {"idle", "undoStart", "undoFinish"} :
       step \notin UndoLoop
  /\ "restore" \notin UndoLoop
  /\ "restore" \notin {"idle", "reconcile", "undoStart", "undoFinish"}
BY DEF UndoLoop, BeforeReverse, AfterReverse, ApplyStep, ReconcileStep

LEMMA ApplyOrder ==
  ASSUME RunOK, ApplyNext
  PROVE  OrderInv'
<1>1. ASSUME NEW s, FailEntry(s) PROVE pc' \in {"finish", "idle"}
  BY <1>1 DEF FailEntry, Checkpoint, JournalWriteFails, ReturnErr, Return
<1>2. CASE ConfirmRename
  <2>1. CASE Goto("restore", cur) /\ dst[cur] = "foreign"
    BY <1>2, <2>1, NoLoop DEF ConfirmRename, Goto, fileVars, OrderInv
  <2>2. CASE Goto("sync", cur) \/ FailEntry("ApplyFailed")
    BY <1>1, <2>2, AwayFromUndo, NoLoop DEF Goto, ApplyStep
  <2> QED BY <1>2, <2>1, <2>2 DEF ConfirmRename
<1>3. CASE ~ConfirmRename
  <2>1. pc' \in (ApplyStep \ {"restore"}) \cup {"idle"}
    BY <1>1, <1>3
       DEF ApplyNext, JournalBatch, Commence, CancelApply, SkipEntry, RefuseEntry,
           CheckpointApplying, ReproveSource, RefuseUnbound, RenameForward, RestoreForeign,
           RestoreSync, SyncForward, SyncFails, LeaveInFlight, CommitForward, RecordApplied,
           FinishApply, Checkpoint, Close, Goto, JournalWriteFails, CatalogueRefuses,
           CatalogueCommit, ReturnErr, ReturnOk, Return, ApplyStep
  <2> QED BY <2>1, AwayFromUndo, NoLoop
<1> QED BY <1>2, <1>3

LEMMA ReconcileOrder ==
  ASSUME ReconcileNext
  PROVE  OrderInv'
<1>1. pc' \in {"reconcile", "undoStart", "idle"}
  BY DEF ReconcileNext, PassSettledEntry, ReconcileEntry, Publish, Checkpoint, Close, Goto,
         JournalWriteFails, ReturnErr, ReturnOk, Return
<1> QED BY <1>1, AwayFromUndo, NoLoop DEF ReconcileStep

\* The entries above k are not applied any more.
ReversedAbove(k, rec) == \A j \in Entry : j > k => rec.st[j] # "Applied"

LEMMA CheckpointOrder ==
  ASSUME NEW rec, NEW next, NEW k, Checkpoint(rec, next, k), ReversedAbove(k, rec),
         next # "restore"
  PROVE  OrderInv'
<1>1. CASE pc' = "idle"
  BY <1>1, AwayFromUndo, NoLoop
<1>2. CASE disk' = rec /\ mem' = rec /\ pc' = next /\ cur' = k
  BY <1>2 DEF ReversedAbove, OrderInv
<1> QED BY <1>1, <1>2 DEF Checkpoint, JournalWriteFails, ReturnErr, Return

LEMMA GotoOrder ==
  ASSUME OrderInv, pc \in UndoLoop, NEW next, NEW k, Goto(next, k), UNCHANGED mem,
         ReversedAbove(k, mem), next # "restore"
  PROVE  OrderInv'
BY DEF OrderInv, ReversedAbove, Goto

LEMMA UndoOrder ==
  ASSUME RunOK, OrderInv, UndoNext
  PROVE  OrderInv'
<1>1. pc \in UndoLoop => disk = mem /\ ReversedAbove(cur, mem)
  BY DEF OrderInv, ReversedAbove
<1>2. ASSUME pc \in UndoLoop, cur \in Entry, NEW tx, NEW s, s # "Applied"
      PROVE  /\ ReversedAbove(cur, SetEntry(tx, cur, s))
             /\ ReversedAbove(cur - 1, SetEntry(tx, cur, s))
  BY <1>1, <1>2, NAssumption DEF ReversedAbove, SetEntry, RunOK, Journal, Entry, NAssumption
<1>3. pc \in EntryStep => cur \in Entry
  BY DEF RunOK, CursorFits
<1>4. ASSUME pc \in BeforeReverse, RefuseUndo PROVE OrderInv'
  BY <1>2, <1>3, <1>4, CheckpointOrder DEF RefuseUndo, UndoLoop, EntryStep
<1>5. ASSUME pc' \in {"idle", "undoFinish"} PROVE OrderInv'
  BY <1>5, AwayFromUndo, NoLoop
<1>6. CASE BeginUndo
  <2>1. \A tx : ReversedAbove(N, [mem EXCEPT !.tx = tx])
    BY NAssumption DEF ReversedAbove, Entry, NAssumption
  <2>2. CASE Close([mem EXCEPT !.tx = "RollbackFailed"])
    BY <1>5, <2>2 DEF Close, JournalWriteFails, ReturnErr, ReturnOk, Return
  <2>3. CASE Checkpoint([mem EXCEPT !.tx = "RollingBack"], "undoEntry", N)
    BY <2>1, <2>3, CheckpointOrder
  <2> QED BY <1>6, <2>2, <2>3 DEF BeginUndo
<1>7. CASE CancelUndo \/ FinishUndo
  BY <1>5, <1>7
     DEF CancelUndo, FinishUndo, Goto, Close, JournalWriteFails, ReturnErr, ReturnOk, Return
<1>8. CASE PassUndoEntry
  <2>1. pc \in UndoLoop /\ cur \in Entry /\ mem.st[cur] # "Applied"
    BY <1>8 DEF PassUndoEntry, UndoLoop, Undoable
  <2>2. ReversedAbove(cur - 1, mem)
    BY <1>1, <2>1, NAssumption DEF ReversedAbove, Entry, NAssumption
  <2> QED BY <1>8, <2>1, <2>2, GotoOrder DEF PassUndoEntry
<1>9. CASE CheckpointRollingBack
  <2>1. pc \in UndoLoop /\ cur \in Entry
    BY <1>9 DEF CheckpointRollingBack, UndoLoop
  <2>2. CASE Checkpoint(SetEntry(mem.tx, cur, "RollingBack"), "undoProve", cur)
    BY <1>2, <2>1, <2>2, CheckpointOrder
  <2>3. CASE CatalogueRefuses(cur, "dst")
    BY <1>5, <2>3 DEF CatalogueRefuses, ReturnErr, Return
  <2> QED BY <1>9, <2>2, <2>3 DEF CheckpointRollingBack
<1>10. ASSUME pc \in UndoLoop, NEW next, Goto(next, cur), UNCHANGED mem, next # "restore"
       PROVE  OrderInv'
  BY <1>1, <1>10, GotoOrder
<1>11. CASE ProveUndo
  <2>1. pc \in BeforeReverse /\ pc \in UndoLoop
    BY <1>11 DEF ProveUndo, BeforeReverse, UndoLoop
  <2> QED BY <1>4, <1>10, <1>11, <2>1 DEF ProveUndo
<1>12. CASE RefuseUnboundUndo
  BY <1>4, <1>12 DEF RefuseUnboundUndo, BeforeReverse
<1>13. CASE RenameBack
  <2>1. pc \in BeforeReverse /\ pc \in UndoLoop
    BY <1>13 DEF RenameBack, BeforeReverse, UndoLoop
  <2> QED BY <1>4, <1>10, <1>13, <2>1 DEF RenameBack
<1>14. ASSUME StopInFlight PROVE OrderInv'
  BY <1>5, <1>14 DEF StopInFlight, Checkpoint, JournalWriteFails, ReturnErr, Return
<1>15. CASE ConfirmUndo \/ SyncBack \/ LeaveUndoInFlight
  <2>1. pc \in UndoLoop
    BY <1>15 DEF ConfirmUndo, SyncBack, LeaveUndoInFlight, UndoLoop, AfterReverse
  <2> QED
    BY <1>10, <1>14, <1>15, <2>1 DEF ConfirmUndo, SyncBack, SyncFails, LeaveUndoInFlight
<1>16. CASE CommitBack
  <2>1. pc \in UndoLoop
    BY <1>16 DEF CommitBack, UndoLoop, AfterReverse
  <2>2. CASE ReturnErr
    BY <1>5, <2>2 DEF ReturnErr, Return
  <2> QED BY <1>10, <1>16, <2>1, <2>2 DEF CommitBack, CatalogueCommit
<1>17. CASE RecordRolledBack
  <2>1. pc \in UndoLoop /\ cur \in Entry
    BY <1>3, <1>17 DEF RecordRolledBack, UndoLoop, AfterReverse, EntryStep
  <2> QED BY <1>2, <1>17, <2>1, CheckpointOrder DEF RecordRolledBack
<1> QED
  BY <1>6, <1>7, <1>8, <1>9, <1>11, <1>12, <1>13, <1>15, <1>16, <1>17 DEF UndoNext

LEMMA OrderStep == TypeInv /\ OrderInv /\ [Next]_vars => OrderInv'
<1> SUFFICES ASSUME TypeInv, OrderInv, [Next]_vars PROVE OrderInv'
  OBVIOUS
<1>1. RunOK /\ FilesOK
  BY TypeInvSplit
<1>2. CASE ApplyNext
  BY <1>1, <1>2, ApplyOrder
<1>3. CASE ReconcileNext
  BY <1>3, ReconcileOrder
<1>4. CASE UndoNext
  BY <1>1, <1>4, UndoOrder
<1>5. ASSUME pc' \in {"journal", "reconcile", "idle"} PROVE OrderInv'
  BY <1>5, AwayFromUndo, NoLoop DEF ApplyStep, ReconcileStep
<1>6. CASE \/ \E mode \in {"AbortAll", "SkipUnsafeSubset"} : StartApply(mode)
           \/ StartUndo \/ StartReconcile \/ ProcessCrash
           \/ \E lost \in SUBSET Entry : PowerLoss(lost)
  BY <1>5, <1>6 DEF StartApply, StartUndo, StartReconcile, ProcessCrash, PowerLoss, Stop, Return
<1>7. CASE CancelReview \/ UNCHANGED vars
  <2>1. UNCHANGED <<dst, disk, mem, pc, cur>>
    BY <1>7 DEF CancelReview, vars, fileVars
  <2> QED BY <2>1 DEF OrderInv
<1>8. CASE \E i \in Entry : ExternalChange(i)
  <2>1. UNCHANGED <<disk, mem, pc, cur>>
    BY <1>8 DEF ExternalChange
  <2>2. pc = "restore" => cur \in Entry
    BY <1>1 DEF RunOK, CursorFits, EntryStep, Restoring
  <2>3. \A i \in Entry : dst'[i] = dst[i] \/ dst'[i] # "own"
    BY <1>1, <1>8 DEF ExternalChange, FilesOK
  <2> QED BY <2>1, <2>2, <2>3 DEF OrderInv
<1> QED
  BY <1>2, <1>3, <1>4, <1>6, <1>7, <1>8
     DEF Next, OperationNext, UserNext, EnvironmentNext

LEMMA OrderInit == Init => OrderInv
BY NoLoop DEF Init, OrderInv

\* Undo reverses the latest applied entry first: a reviewed file leaves its
\* destination only when the journal lists no later entry as applied.
THEOREM ReverseOrderCorrect == Spec => ReverseOrder
<1> DEFINE A == crashes' = crashes /\ externals' = externals =>
                  \A i, j \in Entry :
                    i < j /\ dst[i] = "own" /\ dst'[i] # "own" => disk.st[j] # "Applied"
<1>1. ASSUME TypeInv, OrderInv, [Next]_vars PROVE A
  <2>1. FilesOK /\ RunOK
    BY <1>1, TypeInvSplit
  <2>2. CASE UNCHANGED <<src, dst>>
    BY <2>2
  <2>3. CASE RenameForward
    BY <2>1, <2>3, ForwardMoves
  <2>4. CASE RestoreForeign
    <3>1. dst[cur] # "own"
      BY <1>1, <2>4 DEF RestoreForeign, OrderInv
    <3> QED BY <2>1, <2>4, <3>1, BackMoves
  <2>5. CASE RenameBack
    <3>1. pc \in UndoLoop
      BY <2>5 DEF RenameBack, UndoLoop, BeforeReverse
    <3>2. \A j \in Entry : j > cur => disk.st[j] # "Applied"
      BY <1>1, <3>1 DEF OrderInv
    <3> QED BY <2>1, <2>5, <3>2, BackMoves, NAssumption DEF RunOK, Entry, NAssumption
  <2>6. CASE EnvironmentNext
    BY <2>1, <2>6 DEF EnvironmentNext, ExternalChange, ProcessCrash, PowerLoss, Stop, RunOK
  <2> QED BY <1>1, <2>2, <2>3, <2>4, <2>5, <2>6, FilesMove
<1>2. TypeInv /\ OrderInv /\ [Next]_vars => [A]_vars
  BY <1>1
<1> QED BY <1>2, TypeInit, TypeStep, OrderInit, OrderStep, PTL DEF Spec, ReverseOrder

----------------------------------------------------------------------------
(* What a journal that says rolled back stands for. *)

Unwinding == UndoLoop \cup {"undoFinish"}

NoneApplying(rec) == \A i \in Entry : rec.st[i] # "Applying"

LEMMA AwayFromUnwinding ==
  ASSUME disk'.tx = "RolledBack" => NothingLeft(disk'), mem'.tx # "RolledBack",
         pc' \notin Unwinding
  PROVE  SettledInv'
BY DEF SettledInv, NothingLeft, Unwinding

LEMMA NotUnwinding ==
  \A step \in ApplyStep \cup ReconcileStep \cup {"idle", "undoStart"} : step \notin Unwinding
BY DEF Unwinding, UndoLoop, BeforeReverse, AfterReverse, ApplyStep, ReconcileStep

\* An operation that returns has written rec, or nothing.
LEMMA ReturnSettled ==
  ASSUME SettledInv, Return, NEW rec, disk' \in {disk, rec},
         rec.tx = "RolledBack" => NothingLeft(rec)
  PROVE  SettledInv'
BY AwayFromUnwinding, NotUnwinding DEF SettledInv, Return, Blank

LEMMA CheckpointSettled ==
  ASSUME SettledInv, NEW rec, NEW next, NEW k, Checkpoint(rec, next, k),
         rec.tx # "RolledBack", next \in Unwinding => NoneApplying(rec)
  PROVE  SettledInv'
<1>1. CASE disk' = rec /\ mem' = rec /\ pc' = next
  BY <1>1 DEF SettledInv, Unwinding, NoneApplying
<1> QED
  BY <1>1, ReturnSettled DEF Checkpoint, JournalWriteFails, ReturnErr

LEMMA CloseSettled ==
  ASSUME SettledInv, NEW rec, Close(rec), rec.tx = "RolledBack" => NothingLeft(rec)
  PROVE  SettledInv'
BY ReturnSettled DEF Close, JournalWriteFails, ReturnErr, ReturnOk

LEMMA GotoSettled ==
  ASSUME SettledInv, NEW next, NEW k, Goto(next, k), mem'.tx = mem.tx,
         next \in Unwinding => NoneApplying(mem')
  PROVE  SettledInv'
BY DEF SettledInv, Goto, Unwinding, NoneApplying, NothingLeft

LEMMA ApplySettled ==
  ASSUME RunOK, SettledInv, ApplyNext
  PROVE  SettledInv'
<1>0. /\ mem.tx # "RolledBack"
      /\ \A step \in ApplyStep : step \notin Unwinding
      /\ mem \in Journal
  BY NotUnwinding DEF SettledInv, RunOK
<1>1. ASSUME NEW s, FailEntry(s) PROVE SettledInv'
  BY <1>0, <1>1, CheckpointSettled DEF FailEntry, SetEntry, ApplyStep
<1>2. ASSUME NEW next \in ApplyStep, NEW k, Goto(next, k), UNCHANGED mem PROVE SettledInv'
  BY <1>0, <1>2, GotoSettled
<1>3. ASSUME NEW rec, NEW next \in ApplyStep, NEW k, Checkpoint(rec, next, k),
             rec.tx # "RolledBack"
      PROVE  SettledInv'
  BY <1>0, <1>3, CheckpointSettled
<1>4. ASSUME ReturnErr, UNCHANGED disk PROVE SettledInv'
  BY <1>0, <1>4, ReturnSettled DEF ReturnErr
<1>5. {"commence", "entry", "reprove", "bindFailed", "rename", "confirm", "restore",
       "restoreSync", "sync", "inFlight", "commit", "record", "finish"} \subseteq ApplyStep
  BY DEF ApplyStep
<1>6. CASE JournalBatch
  BY <1>0, <1>3, <1>5, <1>6 DEF JournalBatch
<1>7. CASE Commence \/ CancelApply \/ FinishApply
  <2>1. \A tx : [mem EXCEPT !.tx = tx].tx = tx
    BY <1>0 DEF Journal
  <2>2. CASE Commence
    BY <1>3, <1>5, <2>1, <2>2, CloseSettled DEF Commence
  <2>3. CASE CancelApply
    BY <2>1, <2>3, CloseSettled DEF CancelApply
  <2>4. CASE FinishApply
    BY <1>0, <2>4, CloseSettled DEF FinishApply, Journal
  <2> QED BY <1>7, <2>2, <2>3, <2>4
<1>8. CASE SkipEntry
  BY <1>2, <1>5, <1>8 DEF SkipEntry
<1>9. CASE RefuseEntry \/ RefuseUnbound \/ LeaveInFlight
  BY <1>1, <1>9 DEF RefuseEntry, RefuseUnbound, LeaveInFlight
<1>10. CASE CheckpointApplying
  <2>1. SetEntry(mem.tx, cur, "Applying").tx # "RolledBack"
    BY <1>0 DEF SetEntry
  <2> QED BY <1>3, <1>4, <1>5, <1>10, <2>1 DEF CheckpointApplying, CatalogueRefuses
<1>11. CASE ReproveSource \/ RenameForward \/ RestoreForeign
  BY <1>1, <1>2, <1>5, <1>11 DEF ReproveSource, RenameForward, RestoreForeign
<1>12. CASE ConfirmRename
  BY <1>1, <1>2, <1>5, <1>12 DEF ConfirmRename
<1>13. CASE RestoreSync \/ SyncForward
  BY <1>1, <1>2, <1>5, <1>13 DEF RestoreSync, SyncForward, SyncFails
<1>14. CASE CommitForward
  BY <1>2, <1>4, <1>5, <1>14 DEF CommitForward, CatalogueCommit
<1>15. CASE RecordApplied
  <2>1. SetEntry(mem.tx, cur, "Applied").tx # "RolledBack"
    BY <1>0 DEF SetEntry
  <2> QED BY <1>3, <1>5, <1>15, <2>1 DEF RecordApplied
<1> QED
  BY <1>6, <1>7, <1>8, <1>9, <1>10, <1>11, <1>12, <1>13, <1>14, <1>15 DEF ApplyNext

LEMMA ReconcileSettled ==
  ASSUME SettledInv, ReconcileNext
  PROVE  SettledInv'
<1>0. mem.tx # "RolledBack" /\ "reconcile" \notin Unwinding /\ "undoStart" \notin Unwinding
  BY NotUnwinding DEF SettledInv, ReconcileStep
<1>1. CASE PassSettledEntry
  BY <1>0, <1>1, GotoSettled DEF PassSettledEntry
<1>2. CASE ReconcileEntry
  <2>1. Goto("reconcile", cur + 1) /\ mem'.tx = mem.tx
    BY <1>2 DEF ReconcileEntry, SetEntry
  <2> QED BY <1>0, <2>1, GotoSettled
<1>3. CASE Publish
  <2>1. Promote(mem).tx # "RolledBack"
    <3>1. CASE Promote(mem) = mem
      BY <1>0, <3>1
    <3>2. CASE Promote(mem) = [mem EXCEPT !.tx = "Applied"] /\ mem.tx = "Applying"
      BY <3>2
    <3> QED BY <3>1, <3>2 DEF Promote
  <2>2. CASE ReturnOk /\ UNCHANGED disk
    BY <2>1, <2>2, ReturnSettled DEF ReturnOk
  <2> QED
    BY <1>0, <1>3, <2>1, <2>2, GotoSettled, CheckpointSettled, CloseSettled DEF Publish
<1> QED BY <1>1, <1>2, <1>3 DEF ReconcileNext

LEMMA UndoSettled ==
  ASSUME RunOK, SettledInv, UndoNext
  PROVE  SettledInv'
<1>0. /\ mem.tx # "RolledBack" /\ mem \in Journal
      /\ pc \in Unwinding => NoneApplying(mem)
  BY DEF SettledInv, RunOK, Unwinding, NoneApplying
<1>1. ASSUME NEW next, NEW k, Goto(next, k), UNCHANGED mem, pc \in Unwinding
      PROVE  SettledInv'
  BY <1>0, <1>1, GotoSettled
<1>2. ASSUME NEW next, NEW k, NEW s, s # "Applying", pc \in Unwinding,
             Checkpoint(SetEntry(mem.tx, cur, s), next, k)
      PROVE  SettledInv'
  <2> DEFINE rec == SetEntry(mem.tx, cur, s)
  <2>1. rec.tx # "RolledBack" /\ NoneApplying(rec)
    BY <1>0, <1>2 DEF SetEntry, NoneApplying, Journal
  <2>2. Checkpoint(rec, next, k)
    BY <1>2
  <2> HIDE DEF rec
  <2> QED BY <2>1, <2>2, CheckpointSettled
<1>3. ASSUME ReturnErr, UNCHANGED disk PROVE SettledInv'
  BY <1>0, <1>3, ReturnSettled DEF ReturnErr
<1>4. CASE BeginUndo
  <2>1. \A tx : [mem EXCEPT !.tx = tx].tx = tx /\ [mem EXCEPT !.tx = tx].st = mem.st
    BY <1>0 DEF Journal
  <2>2. CASE Close([mem EXCEPT !.tx = "RollbackFailed"])
    BY <2>1, <2>2, CloseSettled
  <2>3. ASSUME \A i \in Entry : mem.st[i] \notin InFlight,
               Checkpoint([mem EXCEPT !.tx = "RollingBack"], "undoEntry", N)
        PROVE  SettledInv'
    <3>1. NoneApplying([mem EXCEPT !.tx = "RollingBack"])
      BY <2>1, <2>3 DEF NoneApplying, InFlight
    <3> QED BY <2>1, <2>3, <3>1, CheckpointSettled
  <2> QED BY <1>4, <2>2, <2>3 DEF BeginUndo
<1>5. /\ {"undoEntry", "undoFinish"} \subseteq Unwinding
      /\ BeforeReverse \subseteq Unwinding /\ AfterReverse \subseteq Unwinding
  BY DEF Unwinding, UndoLoop
<1>6. CASE CancelUndo \/ PassUndoEntry
  BY <1>1, <1>5, <1>6 DEF CancelUndo, PassUndoEntry
<1>7. CASE CheckpointRollingBack
  BY <1>2, <1>3, <1>5, <1>7 DEF CheckpointRollingBack, CatalogueRefuses
<1>8. CASE ProveUndo \/ RefuseUnboundUndo \/ RenameBack
  <2>1. pc \in Unwinding
    BY <1>5, <1>8 DEF ProveUndo, RefuseUnboundUndo, RenameBack, BeforeReverse
  <2>2. CASE RefuseUndo
    BY <1>2, <2>1, <2>2 DEF RefuseUndo
  <2> QED BY <1>1, <1>8, <2>1, <2>2 DEF ProveUndo, RefuseUnboundUndo, RenameBack
<1>9. CASE ConfirmUndo \/ SyncBack \/ LeaveUndoInFlight
  <2>1. pc \in Unwinding
    BY <1>5, <1>9 DEF ConfirmUndo, SyncBack, LeaveUndoInFlight, AfterReverse
  <2>2. CASE StopInFlight
    BY <1>2, <2>1, <2>2 DEF StopInFlight
  <2> QED
    BY <1>1, <1>9, <2>1, <2>2 DEF ConfirmUndo, SyncBack, SyncFails, LeaveUndoInFlight
<1>10. CASE CommitBack
  <2>1. pc \in Unwinding
    BY <1>5, <1>10 DEF CommitBack, AfterReverse
  <2> QED BY <1>1, <1>3, <1>10, <2>1 DEF CommitBack, CatalogueCommit
<1>11. CASE RecordRolledBack
  <2>1. pc \in Unwinding
    BY <1>5, <1>11 DEF RecordRolledBack, AfterReverse
  <2> QED BY <1>2, <1>11, <2>1 DEF RecordRolledBack
<1>12. CASE FinishUndo
  <2> DEFINE tx == IF Incomplete(mem) THEN "RollbackFailed" ELSE "RolledBack"
             rec == [mem EXCEPT !.tx = tx]
  <2>1. pc \in Unwinding /\ Close(rec)
    BY <1>5, <1>12 DEF FinishUndo
  <2>2. rec.tx = "RolledBack" => NothingLeft(rec)
    BY <1>0, <2>1 DEF Incomplete, NothingLeft, NoneApplying, Journal
  <2> HIDE DEF rec
  <2> QED BY <2>1, <2>2, CloseSettled
<1> QED
  BY <1>4, <1>6, <1>7, <1>8, <1>9, <1>10, <1>11, <1>12 DEF UndoNext

LEMMA SettledStep == TypeInv /\ SettledInv /\ [Next]_vars => SettledInv'
<1> SUFFICES ASSUME TypeInv, SettledInv, [Next]_vars PROVE SettledInv'
  OBVIOUS
<1>1. RunOK
  BY TypeInvSplit
<1>2. CASE OperationNext
  BY <1>1, <1>2, ApplySettled, ReconcileSettled, UndoSettled DEF OperationNext
<1>3. ASSUME NEW mode \in {"AbortAll", "SkipUnsafeSubset"}, StartApply(mode)
      PROVE  SettledInv'
  BY <1>3, AwayFromUnwinding, NotUnwinding DEF StartApply, SettledInv, ApplyStep
<1>4. CASE StartReconcile \/ StartUndo
  <2>1. disk.tx # "RolledBack"
    BY <1>4 DEF StartReconcile, StartUndo, NeedsReconciliation, InFlight, SettledInv,
         NothingLeft
  <2>2. UNCHANGED disk /\ mem' = disk /\ pc' = "reconcile"
    BY <1>4 DEF StartReconcile, StartUndo
  <2> QED BY <2>1, <2>2, AwayFromUnwinding, NotUnwinding DEF ReconcileStep
<1>5. CASE CancelReview \/ (\E i \in Entry : ExternalChange(i)) \/ UNCHANGED vars
  <2>1. UNCHANGED <<disk, mem, pc>>
    BY <1>5 DEF CancelReview, ExternalChange, vars
  <2> QED BY <2>1 DEF SettledInv, NothingLeft
<1>6. CASE ProcessCrash \/ \E lost \in SUBSET Entry : PowerLoss(lost)
  BY <1>6, ReturnSettled DEF ProcessCrash, PowerLoss, Stop, SettledInv
<1> QED
  BY <1>2, <1>3, <1>4, <1>5, <1>6 DEF Next, UserNext, EnvironmentNext

LEMMA SettledInit == Init => SettledInv
BY NotUnwinding DEF Init, SettledInv, Blank, Unwinding

\* A journal that says rolled back has nothing left to reverse and has every
\* undisturbed file at its source, when a review is applied at most once.
THEOREM RolledBackMeansHomeCorrect ==
  ASSUME MaxReviewUses \in {0, 1}
  PROVE  Spec => []RolledBackMeansHome
<1>1. SettledInv /\ JournalBrackets => RolledBackMeansHome
  BY DEF SettledInv, NothingLeft, JournalBrackets, RolledBackMeansHome, AtSource,
       AtDestination, Away
<1> QED
  BY <1>1, JournalBracketsCorrect, TypeInit, TypeStep, SettledInit, SettledStep, PTL
     DEF Spec

----------------------------------------------------------------------------
(* The refinement. *)

Refines == Batch!Next \/ UNCHANGED <<Place, Claim>>

LEMMA StatesClassed ==
  /\ \A s : Classed(s) = "unsure" <=> s \in InFlight
  /\ \A s : Classed(s) \in {"home", "away", "unsure"}
BY DEF Classed

\* Between two records one claim is given up or made, or none is.
OneSwitch(r1, r2) ==
  \/ SameClaims(r1, r2)
  \/ \E e \in Entry :
       /\ \A i \in Entry \ {e} : Classed(r1.st[i]) = Classed(r2.st[i])
       /\ r1.st[e] \in InFlight \/ r2.st[e] \in InFlight

\* A write refines: whatever it settles is true, and nothing else is in flight.
LEMMA WriteRefines ==
  ASSUME UNCHANGED <<src, dst, touched>>, Truthful(disk)', OnlyFlight(disk'),
         OneSwitch(disk, disk')
  PROVE  Refines
<1>1. UNCHANGED Place
  BY DEF Place
<1>2. /\ Claim = [i \in Entry |-> Classed(disk.st[i])]
      /\ Claim' = [i \in Entry |-> Classed(disk'.st[i])]
  BY DEF Claim, Classed
<1>3. CASE SameClaims(disk, disk')
  BY <1>1, <1>2, <1>3 DEF SameClaims, Refines
<1>4. ASSUME NEW e \in Entry,
             \A i \in Entry \ {e} : Classed(disk.st[i]) = Classed(disk'.st[i]),
             Classed(disk.st[e]) # Classed(disk'.st[e]),
             disk.st[e] \in InFlight \/ disk'.st[e] \in InFlight
      PROVE  Refines
  <2>1. Claim' = [Claim EXCEPT ![e] = Classed(disk'.st[e])]
    BY <1>2, <1>4
  <2>2. CASE disk'.st[e] \in InFlight
    <3>1. \A j \in Entry : Claim[j] # "unsure"
      BY <1>2, <1>4, <2>2, StatesClassed DEF OnlyFlight
    <3>2. Batch!Announce(e)
      BY <1>1, <2>1, <2>2, <3>1, StatesClassed DEF Batch!Announce
    <3> QED BY <3>2 DEF Refines, Batch!Next
  <2>3. CASE disk'.st[e] \notin InFlight
    <3>1. Claim[e] = "unsure" /\ Classed(disk'.st[e]) \in {"home", "away"}
      BY <1>2, <1>4, <2>3, StatesClassed
    <3>2. Place[e] # "lost" => Classed(disk'.st[e]) = Place[e]
      <4>1. e \in touched => Place[e] = "lost"
        BY DEF Place
      <4>2. CASE e \notin touched
        <5>1. \/ AtSource(e) /\ disk'.st[e] \in Home
              \/ AtDestination(e) /\ disk'.st[e] \in Away
          BY <4>2 DEF Truthful, EntryTrue, AtSource, AtDestination
        <5> QED BY <2>3, <4>2, <5>1
                DEF Place, Classed, AtSource, AtDestination, Home, Away, InFlight
      <4> QED BY <4>1, <4>2
    <3>3. Batch!Settle(e)
      BY <1>1, <2>1, <3>1, <3>2 DEF Batch!Settle
    <3> QED BY <3>3 DEF Refines, Batch!Next
  <2> QED BY <2>2, <2>3
<1> QED BY <1>3, <1>4 DEF OneSwitch, SameClaims

\* A step that writes nothing and moves no file is invisible.
LEMMA Invisible ==
  ASSUME UNCHANGED <<src, dst, touched, disk>>
  PROVE  Refines
BY DEF Refines, Place, Claim

LEMMA SetClaims ==
  ASSUME RunOK, cur \in Entry, NEW tx, NEW s,
         mem.st[cur] \in InFlight \/ s \in InFlight, SameClaims(disk, mem)
  PROVE  OneSwitch(disk, SetEntry(tx, cur, s))
<1> DEFINE rec == SetEntry(tx, cur, s)
<1>1. rec.st[cur] = s /\ \A i \in Entry \ {cur} : rec.st[i] = mem.st[i]
  BY DEF SetEntry, RunOK, Journal
<1> HIDE DEF rec
<1>2. disk.st[cur] \in InFlight \/ rec.st[cur] \in InFlight
  BY <1>1, StatesClassed DEF SameClaims
<1>3. \A i \in Entry \ {cur} : Classed(disk.st[i]) = Classed(rec.st[i])
  BY <1>1 DEF SameClaims
<1> QED BY <1>2, <1>3 DEF OneSwitch, rec

\* A new state of the same class changes no claim.
LEMMA ResetClaims ==
  ASSUME RunOK, NEW tx, NEW s, Classed(s) = Classed(mem.st[cur]), SameClaims(disk, mem)
  PROVE  OneSwitch(disk, SetEntry(tx, cur, s))
BY DEF SetEntry, RunOK, Journal, SameClaims, OneSwitch

LEMMA TxClaims ==
  ASSUME RunOK, SameClaims(disk, mem)
  PROVE  /\ OneSwitch(disk, mem) /\ OneSwitch(disk, disk)
         /\ \A tx : OneSwitch(disk, [mem EXCEPT !.tx = tx])
BY DEF OneSwitch, SameClaims, RunOK, Journal

LEMMA ReturnClaims ==
  ASSUME Return
  PROVE  ClaimInv'
BY DEF Return, ClaimInv

\* What a write adds to the journal, and what the copy says after it.
LEMMA CheckpointClaims ==
  ASSUME NEW rec, NEW next, NEW k, Checkpoint(rec, next, k), OneSwitch(disk, rec),
         next # "reconcile"
  PROVE  ClaimInv' /\ OneSwitch(disk, disk')
<1>1. OneSwitch(disk, disk)
  BY DEF OneSwitch, SameClaims
<1>2. CASE JournalWriteFails(rec)
  BY <1>1, <1>2, ReturnClaims DEF JournalWriteFails, ReturnErr
<1>3. CASE disk' = rec /\ mem' = rec /\ pc' = next
  BY <1>3 DEF ClaimInv, SameClaims
<1> QED BY <1>2, <1>3 DEF Checkpoint

LEMMA CloseClaims ==
  ASSUME NEW rec, Close(rec), OneSwitch(disk, rec)
  PROVE  ClaimInv' /\ OneSwitch(disk, disk')
<1>1. OneSwitch(disk, disk)
  BY DEF OneSwitch, SameClaims
<1> QED BY <1>1, ReturnClaims DEF Close, JournalWriteFails, ReturnErr, ReturnOk

LEMMA QuietClaims ==
  ASSUME ClaimInv, UNCHANGED disk
  PROVE  /\ OneSwitch(disk, disk')
         /\ UNCHANGED mem /\ pc' \in Steps \cup {"idle"}
            /\ (pc' # "idle" => pc # "idle" /\ (pc' = "reconcile" <=> pc = "reconcile"))
              => ClaimInv'
BY DEF ClaimInv, SameClaims, OneSwitch

LEMMA ApplyClaims ==
  ASSUME RunOK, TruthInv, ClaimInv, ApplyNext
  PROVE  ClaimInv' /\ OneSwitch(disk, disk')
<1>0. /\ pc \notin {"idle", "reconcile"} => SameClaims(disk, mem)
      /\ pc \in EntryStep => cur \in Entry
  BY DEF ClaimInv, RunOK, CursorFits
<1>1. ASSUME pc \in BeforeRename \cup AfterRename \cup Restoring,
             NEW s \in {"ApplyFailed", "Applying"}, FailEntry(s)
      PROVE  ClaimInv' /\ OneSwitch(disk, disk')
  <2>1. pc \in EntryStep /\ pc \notin {"idle", "reconcile"}
    BY <1>1 DEF EntryStep, BeforeRename, AfterRename, Restoring
  <2>2. cur \in Entry /\ mem.st[cur] \in InFlight
    BY <1>1, <2>1, InFlightFacts DEF InFlight
  <2>3. OneSwitch(disk, SetEntry("ApplyFailed", cur, s))
    BY <1>0, <2>1, <2>2, SetClaims
  <2> QED BY <1>1, <2>3, CheckpointClaims DEF FailEntry
<1>2. ASSUME pc \notin {"idle", "reconcile"}, NEW next \in ApplyStep, NEW k, Goto(next, k),
             UNCHANGED mem
      PROVE  ClaimInv' /\ OneSwitch(disk, disk')
  BY <1>2, QuietClaims DEF Goto, ApplyStep, Steps
<1>3. ASSUME ReturnErr, UNCHANGED disk PROVE ClaimInv' /\ OneSwitch(disk, disk')
  BY <1>3, ReturnClaims, QuietClaims DEF ReturnErr
<1>4. {"entry", "reprove", "bindFailed", "rename", "confirm", "restore", "restoreSync",
       "sync", "inFlight", "commit", "record"} \subseteq ApplyStep
  BY DEF ApplyStep
<1>5. CASE JournalBatch
  BY <1>0, <1>5, TxClaims, CheckpointClaims DEF JournalBatch
<1>6. CASE Commence
  BY <1>0, <1>6, TxClaims, CheckpointClaims, CloseClaims DEF Commence
<1>7. CASE CancelApply
  BY <1>0, <1>7, TxClaims, CloseClaims DEF CancelApply
<1>8. CASE SkipEntry
  BY <1>2, <1>4, <1>8 DEF SkipEntry
<1>9. CASE RefuseEntry
  <2>1. pc = "entry" /\ cur \in Entry /\ FailEntry("ApplyFailed")
    BY <1>9 DEF RefuseEntry
  <2>2. mem.st[cur] \in {"Planned", "Skipped"}
    BY <2>1, NAssumption DEF TruthInv, StepKnows, UntriedFrom, Entry, NAssumption
  <2>3. Classed("ApplyFailed") = Classed(mem.st[cur])
    BY <2>2 DEF Classed, InFlight, Away
  <2>4. OneSwitch(disk, SetEntry("ApplyFailed", cur, "ApplyFailed"))
    BY <1>0, <2>1, <2>3, ResetClaims
  <2> QED BY <2>1, <2>4, CheckpointClaims DEF FailEntry
<1>10. CASE CheckpointApplying
  <2>1. OneSwitch(disk, SetEntry(mem.tx, cur, "Applying"))
    BY <1>0, <1>10, SetClaims DEF CheckpointApplying, InFlight
  <2> QED BY <1>3, <1>10, <2>1, CheckpointClaims DEF CheckpointApplying, CatalogueRefuses
<1>11. CASE ReproveSource \/ RefuseUnbound \/ RenameForward
  <2>1. pc \in BeforeRename
    BY <1>11 DEF ReproveSource, RefuseUnbound, RenameForward, BeforeRename
  <2> QED
    BY <1>1, <1>2, <1>4, <1>11, <2>1
       DEF ReproveSource, RefuseUnbound, RenameForward, BeforeRename
<1>12. CASE ConfirmRename
  <2>1. pc \in AfterRename /\ pc \notin {"idle", "reconcile"}
    BY <1>12 DEF ConfirmRename, AfterRename
  <2> QED BY <1>1, <1>2, <1>4, <1>12, <2>1 DEF ConfirmRename
<1>13. CASE RestoreForeign \/ RestoreSync
  <2>1. pc \in Restoring /\ pc \notin {"idle", "reconcile"}
    BY <1>13 DEF RestoreForeign, RestoreSync, Restoring
  <2> QED BY <1>1, <1>2, <1>4, <1>13, <2>1 DEF RestoreForeign, RestoreSync, SyncFails
<1>14. CASE SyncForward \/ LeaveInFlight
  <2>1. pc \in AfterRename /\ pc \notin {"idle", "reconcile"}
    BY <1>14 DEF SyncForward, LeaveInFlight, AfterRename
  <2> QED BY <1>1, <1>2, <1>4, <1>14, <2>1 DEF SyncForward, LeaveInFlight, SyncFails
<1>15. CASE CommitForward
  BY <1>2, <1>3, <1>4, <1>15 DEF CommitForward, CatalogueCommit
<1>16. CASE RecordApplied
  <2>1. pc \in EntryStep /\ pc \in AfterRename /\ pc \notin {"idle", "reconcile"}
    BY <1>16 DEF RecordApplied, EntryStep, AfterRename
  <2>2. OneSwitch(disk, SetEntry(mem.tx, cur, "Applied"))
    BY <1>0, <2>1, InFlightFacts, SetClaims DEF InFlight
  <2> QED BY <1>16, <2>2, CheckpointClaims DEF RecordApplied
<1>17. CASE FinishApply
  <2> DEFINE tx == IF mem.tx = "Applying" THEN "Applied" ELSE mem.tx
  <2>1. Close([mem EXCEPT !.tx = tx]) /\ pc \notin {"idle", "reconcile"}
    BY <1>17 DEF FinishApply
  <2> QED BY <1>0, <2>1, TxClaims, CloseClaims
<1> QED
  BY <1>5, <1>6, <1>7, <1>8, <1>9, <1>10, <1>11, <1>12, <1>13, <1>14, <1>15, <1>16, <1>17
     DEF ApplyNext

\* Recovery may be ahead of the journal, about its one entry in flight.
LEMMA ReconcileClaims ==
  ASSUME RunOK, ClaimInv, OnlyFlight(disk), ReconcileNext
  PROVE  ClaimInv' /\ OneSwitch(disk, disk')
<1>0. pc = "reconcile" /\ \A i \in Entry : mem.st[i] = disk.st[i] \/ disk.st[i] \in InFlight
  BY DEF ClaimInv, ReconcileNext, PassSettledEntry, ReconcileEntry, Publish
<1>1. CASE PassSettledEntry
  BY <1>1, QuietClaims DEF PassSettledEntry, Goto, Steps, ReconcileStep
<1>2. CASE ReconcileEntry
  <2> DEFINE s == Reconciled(mem.st[cur], Classify(cur))
  <2>1. /\ cur \in Entry /\ mem.st[cur] \in InFlight /\ Goto("reconcile", cur + 1)
        /\ mem' \in {mem, SetEntry(mem.tx, cur, s)}
    BY <1>2 DEF ReconcileEntry
  <2>2. disk.st[cur] \in InFlight
    BY <1>0, <2>1
  <2> HIDE DEF s
  <2>3. \A i \in Entry \ {cur} : mem'.st[i] = mem.st[i]
    BY <2>1 DEF SetEntry, RunOK, Journal
  <2> QED BY <1>0, <2>1, <2>2, <2>3, QuietClaims DEF Goto, ClaimInv
<1>3. CASE Publish
  <2>1. Promote(mem).st = mem.st
    BY DEF Promote, RunOK, Journal
  <2>2. OneSwitch(disk, Promote(mem))
    <3>1. CASE \A i \in Entry : mem.st[i] = disk.st[i]
      BY <2>1, <3>1 DEF OneSwitch, SameClaims
    <3>2. ASSUME NEW e \in Entry, disk.st[e] \in InFlight PROVE OneSwitch(disk, Promote(mem))
      BY <1>0, <2>1, <3>2 DEF OneSwitch, OnlyFlight
    <3> QED BY <1>0, <3>1, <3>2
  <2>3. CASE Promote(mem) = disk /\ Goto("undoStart", 0) /\ UNCHANGED mem
    BY <2>1, <2>3, QuietClaims DEF Goto, ClaimInv, SameClaims
  <2>4. CASE ReturnOk /\ UNCHANGED disk
    BY <2>4, ReturnClaims, QuietClaims DEF ReturnOk
  <2> QED BY <1>3, <2>2, <2>3, <2>4, CheckpointClaims, CloseClaims DEF Publish
<1> QED BY <1>1, <1>2, <1>3 DEF ReconcileNext

LEMMA UndoClaims ==
  ASSUME RunOK, TruthInv, ClaimInv, UndoNext
  PROVE  ClaimInv' /\ OneSwitch(disk, disk')
<1>0. /\ pc \notin {"idle", "reconcile"}
      /\ SameClaims(disk, mem)
  BY DEF ClaimInv, UndoNext, BeginUndo, CancelUndo, PassUndoEntry, CheckpointRollingBack,
       ProveUndo, RefuseUnboundUndo, RenameBack, ConfirmUndo, SyncBack, LeaveUndoInFlight,
       CommitBack, RecordRolledBack, FinishUndo
<1>1. ASSUME NEW next \in UndoStep, NEW k, Goto(next, k), UNCHANGED mem
      PROVE  ClaimInv' /\ OneSwitch(disk, disk')
  BY <1>0, <1>1, QuietClaims DEF Goto, UndoStep, Steps
<1>2. ASSUME pc \in BeforeReverse \cup AfterReverse,
             NEW s \in {"RollingBack", "RolledBack", "RollbackFailed"}, NEW next, NEW k,
             next # "reconcile", Checkpoint(SetEntry(mem.tx, cur, s), next, k)
      PROVE  ClaimInv' /\ OneSwitch(disk, disk')
  <2>1. pc \in EntryStep
    BY <1>2 DEF EntryStep
  <2>2. OneSwitch(disk, SetEntry(mem.tx, cur, s))
    BY <1>0, <1>2, <2>1, InFlightFacts, SetClaims DEF InFlight
  <2> QED BY <1>2, <2>2, CheckpointClaims
<1>3. ASSUME ReturnErr, UNCHANGED disk PROVE ClaimInv' /\ OneSwitch(disk, disk')
  BY <1>3, ReturnClaims, QuietClaims DEF ReturnErr
<1>4. {"undoEntry", "undoFinish", "undoProve", "undoBindFailed", "undoRename", "undoConfirm",
       "undoSync", "undoStop", "undoCommit", "undoRecord"} \subseteq UndoStep
  BY DEF UndoStep
<1>5. CASE BeginUndo
  BY <1>0, <1>5, TxClaims, CheckpointClaims, CloseClaims DEF BeginUndo
<1>6. CASE CancelUndo \/ PassUndoEntry
  BY <1>1, <1>4, <1>6 DEF CancelUndo, PassUndoEntry
<1>7. CASE CheckpointRollingBack
  <2>1. OneSwitch(disk, SetEntry(mem.tx, cur, "RollingBack"))
    BY <1>0, <1>7, SetClaims DEF CheckpointRollingBack, InFlight
  <2> QED BY <1>3, <1>7, <2>1, CheckpointClaims DEF CheckpointRollingBack, CatalogueRefuses
<1>8. CASE ProveUndo \/ RefuseUnboundUndo \/ RenameBack
  <2>1. pc \in BeforeReverse
    BY <1>8 DEF ProveUndo, RefuseUnboundUndo, RenameBack, BeforeReverse
  <2>2. CASE RefuseUndo
    BY <1>2, <2>1, <2>2 DEF RefuseUndo
  <2> QED BY <1>1, <1>4, <1>8, <2>2 DEF ProveUndo, RefuseUnboundUndo, RenameBack
<1>9. CASE ConfirmUndo \/ SyncBack \/ LeaveUndoInFlight
  <2>1. pc \in AfterReverse
    BY <1>9 DEF ConfirmUndo, SyncBack, LeaveUndoInFlight, AfterReverse
  <2>2. CASE StopInFlight
    BY <1>2, <2>1, <2>2 DEF StopInFlight
  <2> QED BY <1>1, <1>4, <1>9, <2>2 DEF ConfirmUndo, SyncBack, SyncFails, LeaveUndoInFlight
<1>10. CASE CommitBack
  BY <1>1, <1>3, <1>4, <1>10 DEF CommitBack, CatalogueCommit
<1>11. CASE RecordRolledBack
  <2>1. pc \in AfterReverse
    BY <1>11 DEF RecordRolledBack, AfterReverse
  <2> QED BY <1>2, <1>11, <2>1 DEF RecordRolledBack
<1>12. CASE FinishUndo
  BY <1>0, <1>12, TxClaims, CloseClaims DEF FinishUndo
<1> QED
  BY <1>5, <1>6, <1>7, <1>8, <1>9, <1>10, <1>11, <1>12 DEF UndoNext

LEMMA OutsideClaims ==
  ASSUME MaxReviewUses \in {0, 1}, RunOK, TruthInv, ClaimInv,
         StartReconcile \/ UserNext \/ EnvironmentNext \/ UNCHANGED vars
  PROVE  ClaimInv' /\ UNCHANGED disk
<1>1. ASSUME NEW mode \in {"AbortAll", "SkipUnsafeSubset"}, StartApply(mode)
      PROVE  ClaimInv' /\ UNCHANGED disk
  <2>1. /\ disk = Blank /\ UNCHANGED disk /\ pc' = "journal"
        /\ \A i \in Entry : mem'.st[i] \in {"Planned", "Skipped"}
    BY <1>1 DEF StartApply, RunOK, TruthInv, FreshUntilApplied
  <2> QED BY <2>1 DEF ClaimInv, SameClaims, Blank, Classed, InFlight, Away
<1>2. CASE StartReconcile \/ StartUndo
  BY <1>2 DEF StartReconcile, StartUndo, ClaimInv
<1>3. CASE CancelReview \/ (\E i \in Entry : ExternalChange(i)) \/ UNCHANGED vars
  <2>1. UNCHANGED <<disk, mem, pc>>
    BY <1>3 DEF CancelReview, ExternalChange, vars
  <2> QED BY <2>1 DEF ClaimInv, SameClaims
<1>4. CASE ProcessCrash \/ \E lost \in SUBSET Entry : PowerLoss(lost)
  BY <1>4, ReturnClaims DEF ProcessCrash, PowerLoss, Stop
<1> QED BY <1>1, <1>2, <1>3, <1>4 DEF UserNext, EnvironmentNext

LEMMA ClaimInit == Init => ClaimInv
BY DEF Init, ClaimInv

\* Everything a step needs to know to be a step of ReversibleBatch.
RefInv == IInv /\ SequenceInv /\ ClaimInv

LEMMA RefInit == Init => RefInv
BY TypeInit, TruthInit, SequenceInit, ClaimInit DEF RefInv, IInv

LEMMA RefStep ==
  ASSUME MaxReviewUses \in {0, 1}
  PROVE  RefInv /\ [Next]_vars => RefInv' /\ OneSwitch(disk, disk')
<1> SUFFICES ASSUME RefInv, [Next]_vars PROVE RefInv' /\ OneSwitch(disk, disk')
  OBVIOUS
<1>1. RunOK /\ TruthInv /\ ClaimInv /\ OnlyFlight(disk) /\ TypeInv
  BY TypeInvSplit DEF RefInv, IInv, SequenceInv, InOrder
<1>2. IInv' /\ SequenceInv'
  BY <1>1, TruthStep, SequenceStep DEF RefInv
<1>3. CASE OperationNext
  BY <1>1, <1>2, <1>3, ApplyClaims, ReconcileClaims, UndoClaims DEF OperationNext, RefInv
<1>4. CASE StartReconcile \/ UserNext \/ EnvironmentNext \/ UNCHANGED vars
  BY <1>1, <1>2, <1>4, OutsideClaims, QuietClaims DEF RefInv
<1> QED BY <1>3, <1>4 DEF Next

\* A rename of the program moves an entry that is in flight.
LEMMA ForwardRefines ==
  ASSUME RunOK, FilesOK, TruthInv, RenameForward, src' # src \/ dst' # dst
  PROVE  Refines
<1>1. pc \in EntryStep /\ pc \in BeforeRename
  BY DEF RenameForward, EntryStep, BeforeRename
<1>2. /\ MoveForward(cur) /\ UNCHANGED <<touched, disk>>
  BY DEF RenameForward, Goto, envVars, fileVars
<1>3. /\ cur \in Entry /\ disk.st[cur] \in InFlight
      /\ cur \notin touched => AtSource(cur)
  BY <1>1, InFlightFacts DEF InFlight
<1>4. UNCHANGED Claim
  BY <1>2 DEF Claim
<1>5. CASE cur \in touched
  <2>1. UNCHANGED Place
    BY <1>2, <1>5 DEF Place, MoveForward, FilesOK
  <2> QED BY <1>4, <2>1 DEF Refines
<1>6. CASE cur \notin touched
  <2>1. Place[cur] = "home" /\ Place' = [Place EXCEPT ![cur] = "away"]
    BY <1>2, <1>3, <1>6 DEF Place, MoveForward, FilesOK, AtSource
  <2>2. Batch!Move(cur)
    BY <1>3, <1>4, <2>1 DEF Batch!Move, Claim
  <2> QED BY <1>3, <2>2 DEF Refines, Batch!Next
<1> QED BY <1>5, <1>6

LEMMA BackRefines ==
  ASSUME RunOK, FilesOK, TruthInv, RenameBack, src' # src \/ dst' # dst
  PROVE  Refines
<1>1. pc \in EntryStep /\ pc \in BeforeReverse
  BY DEF RenameBack, EntryStep, BeforeReverse
<1>2. /\ MoveBack(cur) /\ UNCHANGED <<touched, disk>>
  BY DEF RenameBack, Goto, envVars, fileVars
<1>3. /\ cur \in Entry /\ disk.st[cur] \in InFlight
      /\ cur \notin touched => AtDestination(cur)
  BY <1>1, InFlightFacts DEF InFlight
<1>4. UNCHANGED Claim
  BY <1>2 DEF Claim
<1>5. CASE cur \in touched
  <2>1. UNCHANGED Place
    BY <1>2, <1>5 DEF Place, MoveBack, FilesOK
  <2> QED BY <1>4, <2>1 DEF Refines
<1>6. CASE cur \notin touched
  <2>1. Place[cur] = "away" /\ Place' = [Place EXCEPT ![cur] = "home"]
    BY <1>2, <1>3, <1>6 DEF Place, MoveBack, FilesOK, AtDestination
  <2>2. Batch!Move(cur)
    BY <1>3, <1>4, <2>1 DEF Batch!Move, Claim
  <2> QED BY <1>3, <2>2 DEF Refines, Batch!Next
<1> QED BY <1>5, <1>6

\* A swapped-in object is put back: the entry was lost to the batch before.
LEMMA RestoreRefines ==
  ASSUME RunOK, FilesOK, TruthInv, RestoreForeign, src' # src \/ dst' # dst
  PROVE  Refines
<1>1. MoveBack(cur) /\ UNCHANGED <<touched, disk>>
  BY DEF RestoreForeign, Goto, envVars, fileVars
<1>2. cur \in touched
  BY DEF RestoreForeign, TruthInv, StepKnows, Restoring
<1>3. UNCHANGED <<Place, Claim>>
  BY <1>1, <1>2 DEF Place, Claim, MoveBack, FilesOK
<1> QED BY <1>3 DEF Refines

\* A power loss forgets at most the rename of the one entry in flight.
LEMMA PowerLossRefines ==
  ASSUME RunOK, FilesOK, TruthInv, OnlyFlight(disk), NEW lost \in SUBSET Entry,
         PowerLoss(lost)
  PROVE  Refines
<1>1. /\ UNCHANGED <<touched, disk, Claim>>
      /\ \A i \in Entry : dst'[i] = IF i \in lost THEN src[i] ELSE dst[i]
      /\ \A i \in lost : Revertible(i)
  BY DEF PowerLoss, Stop, Claim
<1>2. ASSUME NEW i \in lost, i \notin touched
      PROVE  /\ disk.st[i] \in InFlight
             /\ Place[i] # Place'[i] /\ {Place[i], Place'[i]} = {"home", "away"}
  <2>1. EntryTrue(i, disk.st[i]) /\ i \in Entry
    BY <1>2 DEF TruthInv, Truthful
  <2>2. \/ AtSource(i) /\ unsynced[i] = "back" /\ disk.st[i] = "RollingBack"
        \/ AtDestination(i) /\ unsynced[i] = "forward" /\ disk.st[i] = "Applying"
    BY <1>1, <1>2, <2>1 DEF EntryTrue, Revertible, AtSource, AtDestination
  <2> QED
    BY <1>1, <1>2, <2>1, <2>2 DEF Place, AtSource, AtDestination, InFlight
<1>3. CASE lost \subseteq touched
  <2>1. UNCHANGED Place
    BY <1>1, <1>3 DEF Place
  <2> QED BY <1>1, <2>1 DEF Refines
<1>4. ASSUME NEW e \in lost \ touched PROVE Refines
  <2>1. \A i \in lost : i # e => i \in touched
    BY <1>2, <1>4 DEF OnlyFlight
  <2>2. Place' = [Place EXCEPT ![e] = IF @ = "home" THEN "away" ELSE "home"]
    <3>1. \A i \in Entry \ {e} : Place'[i] = Place[i]
      BY <1>1, <2>1 DEF Place
    <3>2. Place'[e] = IF Place[e] = "home" THEN "away" ELSE "home"
      BY <1>2, <1>4
    <3>3. Place = [i \in Entry |-> Place[i]] /\ Place' = [i \in Entry |-> Place'[i]]
      BY DEF Place
    <3> QED BY <3>1, <3>2, <3>3
  <2>3. Batch!Move(e)
    BY <1>1, <1>2, <1>4, <2>2 DEF Batch!Move, Claim
  <2> QED BY <2>3 DEF Refines, Batch!Next
<1> QED BY <1>3, <1>4

LEMMA InterferenceRefines ==
  ASSUME RunOK, FilesOK, NEW i \in Entry, ExternalChange(i)
  PROVE  Refines
<1>1. /\ UNCHANGED <<disk, Claim>> /\ touched' = touched \cup {i}
      /\ \A j \in Entry \ {i} : dst'[j] = dst[j]
  BY DEF ExternalChange, Claim, FilesOK
<1>2. CASE i \in touched
  <2>1. UNCHANGED Place
    BY <1>1, <1>2 DEF Place
  <2> QED BY <1>1, <2>1 DEF Refines
<1>3. CASE i \notin touched
  <2>1. Place[i] # "lost" /\ Place' = [Place EXCEPT ![i] = "lost"]
    BY <1>1, <1>3 DEF Place
  <2>2. Batch!Interfere(i)
    BY <1>1, <2>1 DEF Batch!Interfere
  <2> QED BY <2>2 DEF Refines, Batch!Next
<1> QED BY <1>2, <1>3

\* Only the environment interferes.
LEMMA TouchedKept ==
  ASSUME OperationNext \/ StartReconcile \/ UserNext \/ UNCHANGED vars
  PROVE  UNCHANGED touched
<1>1. /\ \A rec, next, k : Checkpoint(rec, next, k) => UNCHANGED touched
      /\ \A rec : Close(rec) => UNCHANGED touched
      /\ \A next, k : Goto(next, k) => UNCHANGED touched
      /\ \A i, place : CatalogueRefuses(i, place) => UNCHANGED touched
      /\ \A i, place, next : CatalogueCommit(i, place, next) => UNCHANGED touched
  BY DEF Checkpoint, Close, Goto, CatalogueRefuses, CatalogueCommit, envVars
<1>2. CASE ApplyNext
  BY <1>1, <1>2
     DEF ApplyNext, JournalBatch, Commence, CancelApply, SkipEntry, RefuseEntry, FailEntry,
         CheckpointApplying, ReproveSource, RefuseUnbound, RenameForward, ConfirmRename,
         RestoreForeign, RestoreSync, SyncForward, SyncFails, LeaveInFlight, CommitForward,
         RecordApplied, FinishApply
<1>3. CASE ReconcileNext
  BY <1>1, <1>3 DEF ReconcileNext, PassSettledEntry, ReconcileEntry, Publish, envVars
<1>4. CASE UndoNext
  BY <1>1, <1>4
     DEF UndoNext, BeginUndo, CancelUndo, PassUndoEntry, CheckpointRollingBack, ProveUndo,
         RefuseUnboundUndo, RenameBack, RefuseUndo, ConfirmUndo, StopInFlight, SyncBack,
         SyncFails, LeaveUndoInFlight, CommitBack, RecordRolledBack, FinishUndo
<1>5. CASE StartReconcile \/ UserNext \/ UNCHANGED vars
  BY <1>5 DEF StartReconcile, UserNext, StartApply, StartUndo, CancelReview, vars, envVars
<1> QED BY <1>2, <1>3, <1>4, <1>5 DEF OperationNext

LEMMA RefineStep ==
  ASSUME MaxReviewUses \in {0, 1}
  PROVE  RefInv /\ [Next]_vars => [Batch!Next]_<<Place, Claim>>
<1> SUFFICES ASSUME RefInv, [Next]_vars PROVE Refines
  BY DEF Refines
<1>1. RunOK /\ FilesOK /\ TruthInv /\ OnlyFlight(disk)
  BY TypeInvSplit DEF RefInv, IInv, SequenceInv, InOrder
<1>2. OneSwitch(disk, disk') /\ Truthful(disk)' /\ OnlyFlight(disk')
  BY RefStep DEF RefInv, IInv, TruthInv, SequenceInv, InOrder
<1>3. CASE UNCHANGED <<src, dst, touched>>
  BY <1>2, <1>3, WriteRefines
<1>4. CASE RenameForward \/ RestoreForeign \/ RenameBack
  <2>1. UNCHANGED touched
    BY <1>4 DEF RenameForward, RestoreForeign, RenameBack, Goto, FailEntry, RefuseUndo,
         Checkpoint, envVars
  <2> QED BY <1>1, <1>3, <1>4, <2>1, ForwardRefines, RestoreRefines, BackRefines
<1>5. CASE EnvironmentNext
  <2>1. CASE ProcessCrash
    BY <1>3, <2>1 DEF ProcessCrash, Stop, fileVars
  <2> QED BY <1>1, <1>5, <2>1, PowerLossRefines, InterferenceRefines DEF EnvironmentNext
<1>6. CASE OperationNext \/ StartReconcile \/ UserNext \/ UNCHANGED vars
  <2>1. UNCHANGED touched
    BY <1>6, TouchedKept
  <2> QED BY <1>3, <1>4, <1>5, <2>1, FilesMove
<1> QED BY <1>5, <1>6 DEF Next

\* The executor, its recovery and its Undo implement a reversible batch for
\* every number of entries and every fault, crash, power loss and interference,
\* when a review is applied at most once.
THEOREM ImplementsBatchCorrect ==
  ASSUME MaxReviewUses \in {0, 1}
  PROVE  Spec => ImplementsBatch
<1>1. Init => Batch!Init
  BY DEF Init, Batch!Init, Place, Claim, Blank, InFlight, Away
<1> QED
  BY <1>1, RefInit, RefStep, RefineStep, PTL
     DEF Spec, ImplementsBatch, Batch!Spec, Batch!vars
=============================================================================
