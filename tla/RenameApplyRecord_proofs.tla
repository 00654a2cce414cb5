----------------------- MODULE RenameApplyRecord_proofs -----------------------
(***************************************************************************)
(* What the journal records is durable and in order: proofs for every      *)
(* batch size, every bound and any number of uses of a review.  And the    *)
(* library catalogue follows it, when a review is applied at most once.    *)
(***************************************************************************)
EXTENDS RenameApply_proofs

WorkSteps == BeforeRename \cup AfterRename \cup Restoring \cup BeforeReverse \cup AfterReverse

\* What a record must say for an operation to stand at a step of entry k.
StepAllows(step, k, rec) ==
  /\ step \in BeforeRename \cup AfterRename \cup Restoring => rec.st[k] = "Applying"
  /\ step \in BeforeReverse \cup AfterReverse => rec.st[k] = "RollingBack"

SyncedSteps == {"commit", "record", "undoCommit", "undoRecord"}

\* A step that renames nothing can only make a rename durable.
Settles == \A i \in Entry : unsynced'[i] \in {unsynced[i], "no"}

LEMMA SettlesWhen ==
  ASSUME FilesOK
  PROVE  /\ UNCHANGED fileVars \/ UNCHANGED unsynced => Settles
         /\ \A i : Synced(i) => Settles /\ (i \in Entry => unsynced'[i] = "no")
BY DEF FilesOK, Settles, Synced, fileVars

LEMMA SetDurable ==
  ASSUME RunOK, DurableRec(mem), NEW tx, NEW s,
         s \in {"Applied", "RollingBack", "RollbackFailed"} => unsynced[cur] # "forward",
         s = "RolledBack" => unsynced[cur] # "back"
  PROVE  DurableRec(SetEntry(tx, cur, s))
BY DEF DurableRec, SetEntry, RunOK, Journal

LEMMA TxDurable ==
  ASSUME NEW rec, NEW tx, DurableRec(rec)
  PROVE  DurableRec([rec EXCEPT !.tx = tx])
BY DEF DurableRec

LEMMA RecDurable ==
  ASSUME Settles
  PROVE  /\ \A rec : DurableRec(rec) /\ disk' = rec => DurableRec(disk)'
         /\ \A rec : DurableRec(rec) /\ mem' = rec => DurableRec(mem)'
BY DEF DurableRec, Settles

LEMMA IdleDurable ==
  ASSUME Return, DurableRec(disk)'
  PROVE  DurableInv'
BY DEF Return, DurableInv, DurableRec, Blank, StepRecorded, BeforeRename, AfterRename,
       Restoring, BeforeReverse, AfterReverse

LEMMA WriteFailsDurable ==
  ASSUME DurableInv, NEW rec, DurableRec(rec), JournalWriteFails(rec), Settles
  PROVE  DurableInv'
<1>1. DurableRec(disk)'
  BY RecDurable DEF DurableInv, JournalWriteFails
<1> QED BY <1>1, IdleDurable DEF JournalWriteFails, ReturnErr

LEMMA CheckpointDurable ==
  ASSUME DurableInv, NEW rec, NEW next, NEW k, DurableRec(rec), StepAllows(next, k, rec),
         next \notin SyncedSteps, Checkpoint(rec, next, k), Settles
  PROVE  DurableInv'
<1>1. ASSUME disk' = rec, mem' = rec, pc' = next, cur' = k PROVE DurableInv'
  BY <1>1, RecDurable DEF DurableInv, StepRecorded, RecordedAs, StepAllows, SyncedSteps
<1> QED BY <1>1, WriteFailsDurable DEF Checkpoint

LEMMA CloseDurable ==
  ASSUME DurableInv, NEW rec, DurableRec(rec), Close(rec), Settles
  PROVE  DurableInv'
<1>1. ASSUME disk' = rec, ReturnOk PROVE DurableInv'
  BY <1>1, RecDurable, IdleDurable DEF ReturnOk
<1> QED BY <1>1, WriteFailsDurable DEF Close

LEMMA GotoDurable ==
  ASSUME DurableInv, NEW next, NEW k, Goto(next, k), UNCHANGED mem, Settles,
         StepAllows(next, k, mem), StepAllows(next, k, disk),
         next \in SyncedSteps => unsynced'[k] = "no"
  PROVE  DurableInv'
BY RecDurable DEF Goto, DurableInv, StepRecorded, RecordedAs, StepAllows, SyncedSteps

\* A step of an entry knows how it is recorded; the others know nothing.
LEMMA StepFacts ==
  ASSUME DurableInv
  PROVE  /\ StepAllows(pc, cur, mem) /\ StepAllows(pc, cur, disk)
         /\ \A step, k, rec : step \notin WorkSteps => StepAllows(step, k, rec)
BY DEF DurableInv, StepRecorded, RecordedAs, StepAllows, WorkSteps

\* One entry's durability changes, under an in-flight record on both sides.
LEMMA SwitchDurable ==
  ASSUME DurableInv, RunOK, pc \in WorkSteps, NEW next, Goto(next, cur), UNCHANGED mem,
         \A i \in Entry \ {cur} : unsynced'[i] = unsynced[i],
         unsynced'[cur] = "forward" => mem.st[cur] = "Applying",
         StepAllows(next, cur, mem), next \in SyncedSteps => unsynced'[cur] = "no"
  PROVE  DurableInv'
<1>1. /\ cur \in Entry /\ cur' = cur /\ pc' = next /\ UNCHANGED <<disk, mem>>
      /\ mem.st[cur] \in {"Applying", "RollingBack"} /\ disk.st[cur] = mem.st[cur]
  BY StepFacts DEF Goto, DurableInv, StepRecorded, RecordedAs, RunOK, CursorFits, EntryStep,
       WorkSteps
<1>2. DurableRec(disk)' /\ DurableRec(mem)'
  BY <1>1 DEF DurableInv, DurableRec
<1> QED BY <1>1, <1>2 DEF DurableInv, StepRecorded, RecordedAs, StepAllows, SyncedSteps

LEMMA FailEntryDurable ==
  ASSUME DurableInv, RunOK, NEW s \in {"ApplyFailed", "Applying"}, FailEntry(s),
         Settles
  PROVE  DurableInv'
<1>1. DurableRec(SetEntry("ApplyFailed", cur, s))
  BY SetDurable DEF DurableInv
<1>2. "finish" \notin WorkSteps \cup SyncedSteps
  BY DEF WorkSteps, SyncedSteps, BeforeRename, AfterRename, Restoring, BeforeReverse,
         AfterReverse
<1> QED BY <1>1, <1>2, StepFacts, CheckpointDurable DEF FailEntry

\* The steps of the loops are bound to no record.
LEMMA LoopAllows ==
  ASSUME NEW step \in {"commence", "entry", "finish", "reconcile", "undoStart", "undoEntry",
                       "undoFinish"},
         NEW k, NEW rec
  PROVE  StepAllows(step, k, rec) /\ step \notin SyncedSteps
BY DEF StepAllows, SyncedSteps, BeforeRename, AfterRename, Restoring, BeforeReverse,
       AfterReverse

LEMMA RefuseUndoDurable ==
  ASSUME DurableInv, RunOK, FilesOK, pc \in BeforeReverse, RefuseUndo, UNCHANGED fileVars
  PROVE  DurableInv'
<1>1. unsynced[cur] # "forward"
  BY DEF DurableInv, DurableRec, StepRecorded, RecordedAs, RunOK, CursorFits, EntryStep
<1>2. DurableRec(SetEntry(mem.tx, cur, "RollbackFailed"))
  BY <1>1, SetDurable DEF DurableInv
<1> QED BY <1>2, LoopAllows, SettlesWhen, CheckpointDurable DEF RefuseUndo

LEMMA MovesDurable ==
  ASSUME DurableInv, RunOK, FilesOK, RenameForward \/ RestoreForeign \/ RenameBack
  PROVE  DurableInv'
<1>0. /\ pc \in BeforeRename \cup AfterRename \cup Restoring => mem.st[cur] = "Applying"
      /\ pc \in BeforeReverse \cup AfterReverse => mem.st[cur] = "RollingBack"
  BY DEF DurableInv, StepRecorded, RecordedAs
<1>1. CASE RenameForward
  <2>1. pc \in BeforeRename /\ pc \in WorkSteps /\ mem.st[cur] = "Applying"
    BY <1>0, <1>1 DEF RenameForward, BeforeRename, WorkSteps
  <2>2. CASE MoveForward(cur) /\ Goto("confirm", cur) /\ UNCHANGED mem
    <3>1. /\ \A i \in Entry \ {cur} : unsynced'[i] = unsynced[i]
          /\ StepAllows("confirm", cur, mem) /\ "confirm" \notin SyncedSteps
      BY <2>1, <2>2 DEF MoveForward, FilesOK, StepAllows, SyncedSteps, BeforeReverse,
           AfterReverse
    <3> QED BY <2>1, <2>2, <3>1, SwitchDurable
  <2>3. CASE FailEntry("ApplyFailed") /\ UNCHANGED fileVars
    BY <2>3, SettlesWhen, FailEntryDurable
  <2> QED BY <1>1, <2>2, <2>3 DEF RenameForward
<1>2. CASE RestoreForeign
  <2>1. pc \in Restoring /\ pc \in WorkSteps /\ mem.st[cur] = "Applying"
    BY <1>0, <1>2 DEF RestoreForeign, Restoring, WorkSteps
  <2>2. CASE MoveBack(cur) /\ Goto("restoreSync", cur) /\ UNCHANGED mem
    <3>1. /\ \A i \in Entry \ {cur} : unsynced'[i] = unsynced[i]
          /\ StepAllows("restoreSync", cur, mem) /\ "restoreSync" \notin SyncedSteps
      BY <2>1, <2>2 DEF MoveBack, FilesOK, StepAllows, SyncedSteps, BeforeReverse,
           AfterReverse
    <3> QED BY <2>1, <2>2, <3>1, SwitchDurable
  <2>3. CASE FailEntry("ApplyFailed") /\ UNCHANGED fileVars
    BY <2>3, SettlesWhen, FailEntryDurable
  <2> QED BY <1>2, <2>2, <2>3 DEF RestoreForeign
<1>3. CASE RenameBack
  <2>1. pc \in BeforeReverse /\ pc \in WorkSteps /\ mem.st[cur] = "RollingBack"
    BY <1>0, <1>3 DEF RenameBack, BeforeReverse, WorkSteps
  <2>2. CASE MoveBack(cur) /\ Goto("undoConfirm", cur) /\ UNCHANGED mem
    <3>1. /\ \A i \in Entry \ {cur} : unsynced'[i] = unsynced[i]
          /\ cur \in Entry => unsynced'[cur] = "back"
          /\ cur \in Entry
          /\ StepAllows("undoConfirm", cur, mem) /\ "undoConfirm" \notin SyncedSteps
      BY <2>1, <2>2 DEF MoveBack, FilesOK, StepAllows, SyncedSteps, BeforeRename,
           AfterRename, Restoring, RunOK, CursorFits, EntryStep
    <3> QED BY <2>1, <2>2, <3>1, SwitchDurable
  <2>3. CASE RefuseUndo /\ UNCHANGED fileVars
    BY <2>1, <2>3, RefuseUndoDurable
  <2> QED BY <1>3, <2>2, <2>3 DEF RenameBack
<1> QED BY <1>1, <1>2, <1>3

\* A commit or a refusal of the catalogue leaves the files and the journal alone.
LEMMA CatalogueDurable ==
  ASSUME DurableInv, UNCHANGED <<fileVars, disk>>, ReturnErr
  PROVE  DurableInv'
<1>1. DurableRec(disk)'
  BY DEF DurableInv, DurableRec, fileVars
<1> QED BY <1>1, IdleDurable DEF ReturnErr

LEMMA ApplyDurable ==
  ASSUME DurableInv, RunOK, FilesOK, ApplyNext
  PROVE  DurableInv'
<1>0. /\ DurableRec(mem) /\ \A tx : DurableRec([mem EXCEPT !.tx = tx])
      /\ StepAllows(pc, cur, mem) /\ StepAllows(pc, cur, disk)
      /\ UNCHANGED fileVars => Settles
  BY TxDurable, StepFacts, SettlesWhen DEF DurableInv
<1>1. CASE JournalBatch
  BY <1>0, <1>1, LoopAllows, CheckpointDurable DEF JournalBatch, fileVars
<1>2. CASE Commence
  <2>1. CASE Close([mem EXCEPT !.tx = "ApplyFailed"])
    BY <1>0, <1>2, <2>1, CloseDurable DEF Commence, fileVars
  <2>2. CASE Checkpoint([mem EXCEPT !.tx = "Applying"], "entry", 1)
    BY <1>0, <1>2, <2>2, LoopAllows, CheckpointDurable DEF Commence, fileVars
  <2> QED BY <1>2, <2>1, <2>2 DEF Commence
<1>3. CASE CancelApply
  BY <1>0, <1>3, CloseDurable DEF CancelApply, fileVars
<1>4. CASE SkipEntry
  BY <1>0, <1>4, LoopAllows, GotoDurable DEF SkipEntry, fileVars
<1>5. CASE RefuseEntry \/ RefuseUnbound \/ LeaveInFlight
  BY <1>0, <1>5, FailEntryDurable DEF RefuseEntry, RefuseUnbound, LeaveInFlight, fileVars
<1>6. CASE CheckpointApplying
  <2>1. DurableRec(SetEntry(mem.tx, cur, "Applying"))
    BY <1>0, SetDurable
  <2>2. /\ StepAllows("reprove", cur, SetEntry(mem.tx, cur, "Applying"))
        /\ "reprove" \notin SyncedSteps
    BY <1>6 DEF CheckpointApplying, SetEntry, RunOK, Journal, StepAllows, SyncedSteps,
         BeforeReverse, AfterReverse
  <2>3. UNCHANGED fileVars
    BY <1>6 DEF CheckpointApplying
  <2>4. CASE Checkpoint(SetEntry(mem.tx, cur, "Applying"), "reprove", cur)
    BY <1>0, <2>1, <2>2, <2>3, <2>4, CheckpointDurable
  <2>5. CASE CatalogueRefuses(cur, "src")
    BY <2>3, <2>5, CatalogueDurable DEF CatalogueRefuses
  <2> QED BY <1>6, <2>4, <2>5 DEF CheckpointApplying
<1>7. ASSUME pc \in BeforeRename \cup AfterRename \cup Restoring,
             NEW next \in BeforeRename \cup AfterRename \cup Restoring
      PROVE  /\ StepAllows(next, cur, mem) /\ StepAllows(next, cur, disk)
  BY <1>0, <1>7 DEF StepAllows, BeforeRename, AfterRename, Restoring, BeforeReverse,
       AfterReverse
<1>8. CASE ReproveSource
  <2>1. pc \in BeforeRename /\ {"rename", "bindFailed"} \subseteq BeforeRename \ SyncedSteps
    BY <1>8 DEF ReproveSource, BeforeRename, SyncedSteps
  <2>2. UNCHANGED fileVars
    BY <1>8 DEF ReproveSource, fileVars
  <2> QED
    BY <1>0, <1>7, <1>8, <2>1, <2>2, GotoDurable, FailEntryDurable DEF ReproveSource
<1>9. CASE ConfirmRename
  <2>1. pc \in AfterRename /\ "sync" \in AfterRename \ SyncedSteps
        /\ "restore" \in Restoring \ SyncedSteps
    BY <1>9 DEF ConfirmRename, AfterRename, Restoring, SyncedSteps
  <2>2. UNCHANGED fileVars
    BY <1>9 DEF ConfirmRename, fileVars
  <2> QED
    BY <1>0, <1>7, <1>9, <2>1, <2>2, GotoDurable, FailEntryDurable DEF ConfirmRename
<1>10. ASSUME pc \in AfterRename \cup Restoring, SyncFails("inFlight") PROVE DurableInv'
  <2>1. "inFlight" \in AfterRename \ SyncedSteps
    BY DEF AfterRename, SyncedSteps
  <2> QED BY <1>7, <1>10, <2>1, SettlesWhen, GotoDurable DEF SyncFails
<1>11. CASE RestoreSync
  BY <1>10, <1>11, SettlesWhen, FailEntryDurable DEF RestoreSync, Restoring
<1>12. CASE SyncForward
  <2>1. pc \in AfterRename /\ "commit" \in AfterRename /\ cur \in Entry
    BY <1>12 DEF SyncForward, AfterRename, RunOK, CursorFits, EntryStep
  <2>2. CASE Synced(cur) /\ Goto("commit", cur) /\ UNCHANGED mem
    BY <1>7, <2>1, <2>2, SettlesWhen, GotoDurable
  <2> QED BY <1>10, <1>12, <2>1, <2>2 DEF SyncForward
<1>13. CASE CommitForward
  <2>1. /\ pc \in AfterRename /\ "record" \in AfterRename /\ cur \in Entry
        /\ unsynced[cur] = "no" /\ UNCHANGED fileVars
    BY <1>13 DEF CommitForward, AfterRename, RunOK, CursorFits, EntryStep, DurableInv
  <2>2. CASE Goto("record", cur) /\ UNCHANGED mem
    BY <1>0, <1>7, <2>1, <2>2, GotoDurable DEF fileVars
  <2>3. CASE ReturnErr /\ UNCHANGED disk
    BY <2>1, <2>3, CatalogueDurable
  <2> QED BY <1>13, <2>2, <2>3 DEF CommitForward, CatalogueCommit
<1>14. CASE RecordApplied
  <2>1. unsynced[cur] = "no"
    BY <1>14 DEF RecordApplied, DurableInv
  <2>2. DurableRec(SetEntry(mem.tx, cur, "Applied"))
    BY <1>0, <2>1, SetDurable
  <2> QED
    BY <1>0, <1>14, <2>2, LoopAllows, CheckpointDurable DEF RecordApplied, fileVars
<1>15. CASE FinishApply
  BY <1>0, <1>15, CloseDurable DEF FinishApply, fileVars
<1>16. CASE RenameForward \/ RestoreForeign
  BY <1>16, MovesDurable
<1> QED
  BY <1>1, <1>2, <1>3, <1>4, <1>5, <1>6, <1>8, <1>9, <1>11, <1>12, <1>13, <1>14, <1>15,
     <1>16 DEF ApplyNext

\* Recovery forces the rename it confirms before it settles the entry.
LEMMA ReconcileDurable ==
  ASSUME DurableInv, RunOK, FilesOK, ReconcileNext
  PROVE  DurableInv'
<1>0. /\ DurableRec(mem) /\ \A tx : DurableRec([mem EXCEPT !.tx = tx])
      /\ UNCHANGED fileVars => Settles
  BY TxDurable, SettlesWhen DEF DurableInv
<1>1. CASE PassSettledEntry
  BY <1>0, <1>1, LoopAllows, GotoDurable DEF PassSettledEntry, fileVars
<1>2. CASE ReconcileEntry
  <2> DEFINE s == Reconciled(mem.st[cur], Classify(cur))
  <2>1. /\ cur \in Entry /\ Goto("reconcile", cur + 1) /\ mem.st[cur] \in InFlight
        /\ mem' \in {mem, SetEntry(mem.tx, cur, s)}
    BY <1>2 DEF ReconcileEntry
  <2>2. Settles
    BY <1>2, <2>1 DEF ReconcileEntry, Settles, FilesOK
  <2>3. DurableRec(disk)'
    BY <2>1, <2>2, RecDurable DEF DurableInv, Goto
  <2>4. ASSUME mem' = SetEntry(mem.tx, cur, s), Classify(cur) \in Decisive,
               unsynced' = IF Mutated(mem.st[cur], Classify(cur))
                           THEN [unsynced EXCEPT ![cur] = "no"] ELSE unsynced
        PROVE  DurableRec(mem)'
    <3>1. mem.st[cur] = "RollingBack" => unsynced[cur] # "forward"
      BY <2>1 DEF DurableInv, DurableRec
    <3>2. s = "Applied" => unsynced'[cur] # "forward"
      BY <2>1, <2>4, <3>1 DEF Reconciled, Mutated, Decisive, InFlight, FilesOK
    <3>3. s = "RolledBack" => unsynced'[cur] # "back"
      BY <2>1, <2>4 DEF Reconciled, Mutated, Decisive, InFlight, FilesOK
    <3>4. s \in {"Applied", "Skipped", "RolledBack"}
      BY DEF Reconciled
    <3>5. /\ \A i \in Entry \ {cur} : mem'.st[i] = mem.st[i]
          /\ mem'.st[cur] = s
      BY <2>1, <2>4 DEF SetEntry, RunOK, Journal
    <3> HIDE DEF s
    <3> QED
      BY <2>1, <2>2, <3>2, <3>3, <3>4, <3>5 DEF DurableInv, DurableRec, Settles
  <2>5. DurableRec(mem)'
    BY <1>0, <1>2, <2>2, <2>4, RecDurable DEF ReconcileEntry
  <2> QED
    BY <2>1, <2>3, <2>5
       DEF Goto, DurableInv, StepRecorded, BeforeRename, AfterRename, Restoring,
           BeforeReverse, AfterReverse
<1>3. CASE Publish
  <2>1. DurableRec(Promote(mem)) /\ UNCHANGED fileVars
    BY <1>0, <1>3 DEF Promote, Publish, fileVars
  <2>2. CASE Goto("undoStart", 0) /\ UNCHANGED mem
    BY <1>0, <2>1, <2>2, LoopAllows, GotoDurable
  <2>3. CASE Checkpoint(Promote(mem), "undoStart", 0)
    BY <1>0, <2>1, <2>3, LoopAllows, CheckpointDurable
  <2>4. CASE ReturnOk /\ UNCHANGED disk
    <3>1. DurableRec(disk)'
      BY <1>0, <2>1, <2>4, RecDurable DEF DurableInv
    <3> QED BY <2>4, <3>1, IdleDurable DEF ReturnOk
  <2>5. CASE Close(Promote(mem))
    BY <1>0, <2>1, <2>5, CloseDurable
  <2> QED BY <1>3, <2>2, <2>3, <2>4, <2>5 DEF Publish
<1> QED BY <1>1, <1>2, <1>3 DEF ReconcileNext

LEMMA UndoDurable ==
  ASSUME DurableInv, RunOK, FilesOK, UndoNext
  PROVE  DurableInv'
<1>0. /\ DurableRec(mem) /\ \A tx : DurableRec([mem EXCEPT !.tx = tx])
      /\ StepAllows(pc, cur, mem) /\ StepAllows(pc, cur, disk)
      /\ UNCHANGED fileVars => Settles
  BY TxDurable, StepFacts, SettlesWhen DEF DurableInv
<1>1. CASE BeginUndo
  BY <1>0, <1>1, LoopAllows, CheckpointDurable, CloseDurable DEF BeginUndo, fileVars
<1>2. CASE CancelUndo \/ PassUndoEntry
  BY <1>0, <1>2, LoopAllows, GotoDurable DEF CancelUndo, PassUndoEntry, fileVars
<1>3. CASE CheckpointRollingBack
  <2> DEFINE rec == SetEntry(mem.tx, cur, "RollingBack")
  <2>1. cur \in Entry /\ Undoable(cur) /\ UNCHANGED fileVars
    BY <1>3 DEF CheckpointRollingBack
  <2>2. unsynced[cur] # "forward"
    BY <1>0, <2>1 DEF DurableRec, Undoable
  <2>3. DurableRec(rec)
    BY <1>0, <2>2, SetDurable
  <2>4. StepAllows("undoProve", cur, rec) /\ "undoProve" \notin SyncedSteps
    BY <2>1 DEF SetEntry, RunOK, Journal, StepAllows, SyncedSteps, BeforeRename, AfterRename,
         Restoring
  <2>5. CASE Checkpoint(rec, "undoProve", cur)
    <3> HIDE DEF rec
    <3> QED BY <1>0, <2>1, <2>3, <2>4, <2>5, CheckpointDurable
  <2>6. CASE CatalogueRefuses(cur, "dst")
    BY <2>1, <2>6, CatalogueDurable DEF CatalogueRefuses
  <2> QED BY <1>3, <2>5, <2>6 DEF CheckpointRollingBack
<1>4. ASSUME pc \in BeforeReverse \cup AfterReverse,
             NEW next \in BeforeReverse \cup AfterReverse
      PROVE  StepAllows(next, cur, mem) /\ StepAllows(next, cur, disk)
  BY <1>0, <1>4 DEF StepAllows, BeforeRename, AfterRename, Restoring, BeforeReverse,
       AfterReverse
<1>5. CASE ProveUndo
  <2>1. /\ pc \in BeforeReverse
        /\ {"undoRename", "undoBindFailed"} \subseteq BeforeReverse \ SyncedSteps
        /\ UNCHANGED fileVars
    BY <1>5 DEF ProveUndo, BeforeReverse, SyncedSteps, fileVars
  <2> QED BY <1>0, <1>4, <1>5, <2>1, GotoDurable, RefuseUndoDurable DEF ProveUndo
<1>6. CASE RefuseUnboundUndo
  BY <1>6, RefuseUndoDurable DEF RefuseUnboundUndo, BeforeReverse, fileVars
<1>7. CASE RenameBack
  BY <1>7, MovesDurable
<1>8. ASSUME pc \in AfterReverse, StopInFlight, UNCHANGED fileVars PROVE DurableInv'
  <2>1. unsynced[cur] # "forward"
    BY <1>8 DEF DurableInv, DurableRec, StepRecorded, RecordedAs, RunOK, CursorFits, EntryStep
  <2>2. DurableRec(SetEntry(mem.tx, cur, "RollingBack"))
    BY <1>0, <2>1, SetDurable
  <2> QED BY <1>0, <1>8, <2>2, LoopAllows, CheckpointDurable DEF StopInFlight
<1>9. CASE ConfirmUndo
  <2>1. pc \in AfterReverse /\ "undoSync" \in AfterReverse \ SyncedSteps /\ UNCHANGED fileVars
    BY <1>9 DEF ConfirmUndo, AfterReverse, SyncedSteps, fileVars
  <2> QED BY <1>0, <1>4, <1>8, <1>9, <2>1, GotoDurable DEF ConfirmUndo
<1>10. CASE SyncBack
  <2>1. /\ pc \in AfterReverse /\ {"undoCommit", "undoStop"} \subseteq AfterReverse
        /\ "undoStop" \notin SyncedSteps /\ cur \in Entry
    BY <1>10 DEF SyncBack, AfterReverse, SyncedSteps, RunOK, CursorFits, EntryStep
  <2>2. CASE Synced(cur) /\ Goto("undoCommit", cur) /\ UNCHANGED mem
    BY <1>4, <2>1, <2>2, SettlesWhen, GotoDurable
  <2>3. CASE SyncFails("undoStop")
    BY <1>4, <2>1, <2>3, SettlesWhen, GotoDurable DEF SyncFails
  <2> QED BY <1>10, <2>2, <2>3 DEF SyncBack
<1>11. CASE LeaveUndoInFlight
  BY <1>8, <1>11 DEF LeaveUndoInFlight, AfterReverse, fileVars
<1>12. CASE CommitBack
  <2>1. /\ pc \in AfterReverse /\ "undoRecord" \in AfterReverse /\ cur \in Entry
        /\ unsynced[cur] = "no" /\ UNCHANGED fileVars
    BY <1>12 DEF CommitBack, AfterReverse, RunOK, CursorFits, EntryStep, DurableInv
  <2>2. CASE Goto("undoRecord", cur) /\ UNCHANGED mem
    BY <1>0, <1>4, <2>1, <2>2, GotoDurable DEF fileVars
  <2>3. CASE ReturnErr /\ UNCHANGED disk
    BY <2>1, <2>3, CatalogueDurable
  <2> QED BY <1>12, <2>2, <2>3 DEF CommitBack, CatalogueCommit
<1>13. CASE RecordRolledBack
  <2>1. unsynced[cur] = "no"
    BY <1>13 DEF RecordRolledBack, DurableInv
  <2>2. DurableRec(SetEntry(mem.tx, cur, "RolledBack"))
    BY <1>0, <2>1, SetDurable
  <2> QED
    BY <1>0, <1>13, <2>2, LoopAllows, CheckpointDurable DEF RecordRolledBack, fileVars
<1>14. CASE FinishUndo
  BY <1>0, <1>14, CloseDurable DEF FinishUndo, fileVars
<1> QED
  BY <1>1, <1>2, <1>3, <1>5, <1>6, <1>7, <1>9, <1>10, <1>11, <1>12, <1>13, <1>14
     DEF UndoNext

\* After a power loss nothing is unsynced any more.
LEMMA OutsideDurable ==
  ASSUME DurableInv, RunOK, FilesOK, StartReconcile \/ UserNext \/ EnvironmentNext
  PROVE  DurableInv'
<1>1. ASSUME NEW mode \in {"AbortAll", "SkipUnsafeSubset"}, StartApply(mode)
      PROVE  DurableInv'
  <2>1. /\ UNCHANGED <<unsynced, disk>> /\ pc' = "journal"
        /\ \A i \in Entry : mem'.st[i] \in {"Planned", "Skipped"}
    BY <1>1 DEF StartApply, fileVars
  <2> QED
    BY <2>1 DEF DurableInv, DurableRec, StepRecorded, BeforeRename, AfterRename, Restoring,
         BeforeReverse, AfterReverse
<1>2. CASE StartReconcile \/ StartUndo
  <2>1. UNCHANGED <<unsynced, disk>> /\ pc' = "reconcile" /\ mem' = disk
    BY <1>2 DEF StartReconcile, StartUndo, fileVars
  <2> QED
    BY <2>1 DEF DurableInv, DurableRec, StepRecorded, BeforeRename, AfterRename, Restoring,
         BeforeReverse, AfterReverse
<1>3. CASE CancelReview \/ \E i \in Entry : ExternalChange(i)
  <2>1. UNCHANGED <<unsynced, disk, mem, pc, cur>>
    BY <1>3 DEF CancelReview, ExternalChange, fileVars
  <2> QED BY <2>1 DEF DurableInv, DurableRec, StepRecorded, RecordedAs
<1>4. ASSUME Stop, Settles PROVE DurableInv'
  <2>1. DurableRec(disk)'
    BY <1>4, RecDurable DEF Stop, DurableInv
  <2> QED BY <1>4, <2>1, IdleDurable DEF Stop
<1>5. CASE ProcessCrash
  BY <1>4, <1>5, SettlesWhen DEF ProcessCrash
<1>6. CASE \E lost \in SUBSET Entry : PowerLoss(lost)
  BY <1>4, <1>6 DEF PowerLoss, Settles
<1> QED BY <1>1, <1>2, <1>3, <1>5, <1>6 DEF UserNext, EnvironmentNext

LEMMA DurableInit == Init => DurableInv
BY DEF Init, DurableInv, DurableRec, Blank, StepRecorded, BeforeRename, AfterRename,
       Restoring, BeforeReverse, AfterReverse

LEMMA DurableStep == TypeInv /\ DurableInv /\ [Next]_vars => DurableInv'
<1> SUFFICES ASSUME TypeInv, DurableInv, [Next]_vars PROVE DurableInv'
  OBVIOUS
<1>1. RunOK /\ FilesOK
  BY TypeInvSplit
<1>2. CASE Next
  BY <1>1, <1>2, ApplyDurable, ReconcileDurable, UndoDurable, OutsideDurable
     DEF Next, OperationNext
<1>3. CASE UNCHANGED vars
  <2>1. UNCHANGED <<unsynced, disk, mem, pc, cur>>
    BY <1>3 DEF vars, fileVars
  <2> QED BY <2>1 DEF DurableInv, DurableRec, StepRecorded, RecordedAs
<1> QED BY <1>2, <1>3

\* What the journal records is durable: whatever the batch size, the failures,
\* the crashes, the power losses and the number of times a review is applied,
\* the journal never says Applied or RolledBack of a rename that a power loss
\* may still undo.
THEOREM RecordedIsDurableCorrect == Spec => []RecordedIsDurable
<1>1. DurableInv => RecordedIsDurable
  BY DEF DurableInv, DurableRec, RecordedIsDurable
<1> QED BY <1>1, TypeInit, TypeStep, DurableInit, DurableStep, PTL DEF Spec

----------------------------------------------------------------------------
(* One entry after the other. *)

LEMMA NothingAsked ==
  ASSUME NEW step \in {"idle", "finish", "reconcile", "undoStart", "undoFinish"},
         NEW k, NEW rec
  PROVE  OrderKnows(step, k, rec)
BY DEF OrderKnows, ApplyWork, UndoWork, BeforeRename, AfterRename, Restoring, BeforeReverse,
       AfterReverse

LEMMA WorkAsked ==
  ASSUME NEW step, NEW k, NEW rec, step \in ApplyWork \cup UndoWork
  PROVE  /\ step \in ApplyWork =>
              (OrderKnows(step, k, rec) <=>
                 /\ FlightAt(k, rec) /\ PassedBelow(k, rec) /\ UntriedFrom(k + 1, rec)
                 /\ rec.st[k] = "Applying")
         /\ step \in UndoWork =>
              (OrderKnows(step, k, rec) <=> FlightAt(k, rec) /\ rec.st[k] = "RollingBack")
BY DEF OrderKnows, ApplyWork, UndoWork, BeforeRename, AfterRename, Restoring, BeforeReverse,
       AfterReverse

LEMMA TxOrder ==
  ASSUME NEW rec \in Journal, NEW tx, InOrder(rec)
  PROVE  InOrder([rec EXCEPT !.tx = tx])
BY DEF InOrder, OnlyFlight, StartedInOrder, Journal

\* An entry that was started has only settled or started entries before it.
LEMMA StartedPassed ==
  ASSUME NEW rec, NEW k \in Entry, StartedInOrder(rec), rec.st[k] \notin Unstarted
  PROVE  PassedBelow(k, rec)
BY DEF StartedInOrder, PassedBelow

LEMMA SetOrder ==
  ASSUME RunOK, cur \in Entry, InOrder(mem), NEW tx, NEW s,
         s \in InFlight => FlightAt(cur, mem),
         s \in Stopped => UntriedFrom(cur + 1, mem),
         s \notin Unstarted => PassedBelow(cur, mem)
  PROVE  InOrder(SetEntry(tx, cur, s))
<1> DEFINE rec == SetEntry(tx, cur, s)
<1>1. /\ rec.st[cur] = s
      /\ \A i \in Entry \ {cur} : rec.st[i] = mem.st[i]
  BY DEF SetEntry, RunOK, Journal
<1> HIDE DEF rec
<1>2. OnlyFlight(rec)
  BY <1>1 DEF InOrder, OnlyFlight, FlightAt
<1>3. ASSUME NEW i \in Entry, NEW j \in Entry, i < j, rec.st[i] \in Stopped
      PROVE  rec.st[j] \in Unstarted
  <2>1. CASE i = cur
    <3>1. j \in cur+1..N /\ j # cur
      BY <1>3, <2>1, NAssumption DEF Entry, NAssumption
    <3> QED BY <1>1, <1>3, <2>1, <3>1 DEF UntriedFrom, Unstarted
  <2>2. CASE j = cur
    <3>1. i # cur
      BY <1>3, <2>2, NAssumption DEF Entry, NAssumption
    <3> QED BY <1>1, <1>3, <2>2, <3>1 DEF PassedBelow
  <2>3. CASE i # cur /\ j # cur
    BY <1>1, <1>3, <2>3 DEF InOrder, StartedInOrder
  <2> QED BY <2>1, <2>2, <2>3
<1> QED BY <1>2, <1>3 DEF InOrder, StartedInOrder, rec

LEMMA BlankOrder == InOrder(Blank)
BY DEF InOrder, OnlyFlight, StartedInOrder, Blank, InFlight, Unstarted

LEMMA ReturnSequence ==
  ASSUME Return, InOrder(disk')
  PROVE  SequenceInv'
BY BlankOrder, NothingAsked DEF Return, SequenceInv

LEMMA CheckpointSequence ==
  ASSUME SequenceInv, NEW rec, NEW next, NEW k, InOrder(rec), OrderKnows(next, k, rec),
         Checkpoint(rec, next, k)
  PROVE  SequenceInv'
<1>1. CASE JournalWriteFails(rec)
  BY <1>1, ReturnSequence DEF JournalWriteFails, ReturnErr, SequenceInv
<1> QED BY <1>1 DEF Checkpoint, SequenceInv

LEMMA CloseSequence ==
  ASSUME SequenceInv, NEW rec, InOrder(rec), Close(rec)
  PROVE  SequenceInv'
BY ReturnSequence DEF Close, JournalWriteFails, ReturnErr, ReturnOk, SequenceInv

LEMMA GotoSequence ==
  ASSUME SequenceInv, NEW next, NEW k, Goto(next, k), UNCHANGED mem,
         OrderKnows(next, k, mem)
  PROVE  SequenceInv'
BY DEF Goto, SequenceInv

LEMMA FailEntrySequence ==
  ASSUME SequenceInv, RunOK, cur \in Entry, NEW s \in {"ApplyFailed", "Applying"},
         FailEntry(s), FlightAt(cur, mem), UntriedFrom(cur + 1, mem), PassedBelow(cur, mem)
  PROVE  SequenceInv'
<1>1. InOrder(SetEntry("ApplyFailed", cur, s))
  BY SetOrder DEF SequenceInv
<1> QED BY <1>1, NothingAsked, CheckpointSequence DEF FailEntry

LEMMA ApplySequence ==
  ASSUME SequenceInv, RunOK, ApplyNext
  PROVE  SequenceInv'
<1>0. /\ InOrder(mem) /\ OrderKnows(pc, cur, mem) /\ mem \in Journal
      /\ \A tx : InOrder([mem EXCEPT !.tx = tx])
      /\ pc \in ApplyWork => cur \in Entry
  BY TxOrder DEF SequenceInv, RunOK, CursorFits, EntryStep, ApplyWork
<1>1. ASSUME pc = "entry", cur \in Entry
      PROVE  /\ FlightAt(cur, mem) /\ PassedBelow(cur, mem) /\ UntriedFrom(cur + 1, mem)
             /\ mem.st[cur] \in {"Planned", "Skipped"} /\ NoFlight(mem)
  BY <1>0, <1>1, NAssumption
     DEF OrderKnows, NoFlight, FlightAt, UntriedFrom, Entry, NAssumption
<1>2. ASSUME pc \in ApplyWork
      PROVE  /\ cur \in Entry /\ FlightAt(cur, mem) /\ PassedBelow(cur, mem)
             /\ UntriedFrom(cur + 1, mem) /\ mem.st[cur] = "Applying"
  BY <1>0, <1>2, WorkAsked
<1>3. ASSUME pc \in ApplyWork, NEW s \in {"ApplyFailed", "Applying"}, FailEntry(s)
      PROVE  SequenceInv'
  BY <1>2, <1>3, FailEntrySequence
<1>4. ASSUME pc \in ApplyWork, NEW next \in ApplyWork, Goto(next, cur), UNCHANGED mem
      PROVE  SequenceInv'
  BY <1>2, <1>4, WorkAsked, GotoSequence
<1>5. CASE JournalBatch
  <2>1. OrderKnows("commence", 0, mem)
    BY <1>0, <1>5 DEF JournalBatch, OrderKnows, ApplyWork, UndoWork, BeforeRename,
         AfterRename, Restoring, BeforeReverse, AfterReverse
  <2> QED BY <1>0, <1>5, <2>1, CheckpointSequence DEF JournalBatch
<1>6. CASE Commence
  <2> DEFINE rec == [mem EXCEPT !.tx = "Applying"]
  <2>1. \A i \in Entry : rec.st[i] \in Unstarted
    BY <1>0, <1>6 DEF Commence, OrderKnows, Journal
  <2>2. OrderKnows("entry", 1, rec)
    BY <2>1, NAssumption DEF OrderKnows, NoFlight, PassedBelow, UntriedFrom, Unstarted, InFlight,
         ApplyWork, UndoWork, BeforeRename, AfterRename, Restoring, BeforeReverse,
         AfterReverse, Entry, NAssumption
  <2>3. InOrder(rec)
    BY <1>0
  <2>4. CASE Checkpoint(rec, "entry", 1)
    <3> HIDE DEF rec
    <3> QED BY <2>2, <2>3, <2>4, CheckpointSequence
  <2>5. CASE Close([mem EXCEPT !.tx = "ApplyFailed"])
    BY <1>0, <2>5, CloseSequence
  <2> QED BY <1>6, <2>4, <2>5 DEF Commence
<1>7. CASE CancelApply
  BY <1>0, <1>7, CloseSequence DEF CancelApply
<1>8. CASE SkipEntry
  <2>1. pc = "entry" /\ cur \in Entry /\ mem.st[cur] = "Skipped"
    BY <1>8 DEF SkipEntry
  <2>2. OrderKnows("entry", cur + 1, mem)
    BY <1>1, <2>1, NAssumption
       DEF OrderKnows, PassedBelow, UntriedFrom, Stopped, ApplyWork, UndoWork, BeforeRename,
           AfterRename, Restoring, BeforeReverse, AfterReverse, Entry, NAssumption
  <2> QED BY <1>8, <2>2, GotoSequence DEF SkipEntry
<1>9. CASE RefuseEntry
  BY <1>1, <1>9, FailEntrySequence DEF RefuseEntry
<1>10. CASE CheckpointApplying
  <2> DEFINE rec == SetEntry(mem.tx, cur, "Applying")
  <2>1. pc = "entry" /\ cur \in Entry
    BY <1>10 DEF CheckpointApplying
  <2>2. InOrder(rec)
    BY <1>0, <1>1, <2>1, SetOrder DEF Stopped
  <2>3. FlightAt(cur, rec) /\ PassedBelow(cur, rec) /\ UntriedFrom(cur + 1, rec)
        /\ rec.st[cur] = "Applying"
    BY <1>0, <1>1, <2>1, NAssumption
       DEF SetEntry, FlightAt, PassedBelow, UntriedFrom, Journal, Entry, NAssumption
  <2>4. OrderKnows("reprove", cur, rec)
    BY <2>3, WorkAsked DEF ApplyWork, BeforeRename
  <2>5. CASE Checkpoint(rec, "reprove", cur)
    <3> HIDE DEF rec
    <3> QED BY <2>2, <2>4, <2>5, CheckpointSequence
  <2>6. CASE CatalogueRefuses(cur, "src")
    BY <2>6, ReturnSequence DEF CatalogueRefuses, ReturnErr, SequenceInv
  <2> QED BY <1>10, <2>5, <2>6 DEF CheckpointApplying
<1>11. {"reprove", "bindFailed", "rename", "confirm", "restore", "restoreSync", "sync",
        "inFlight", "commit", "record"} \subseteq ApplyWork
  BY DEF ApplyWork, BeforeRename, AfterRename, Restoring
<1>12. CASE ReproveSource \/ RefuseUnbound \/ RenameForward
  BY <1>3, <1>4, <1>11, <1>12 DEF ReproveSource, RefuseUnbound, RenameForward
<1>13. CASE ConfirmRename
  BY <1>3, <1>4, <1>11, <1>13 DEF ConfirmRename
<1>14. CASE RestoreForeign \/ RestoreSync
  BY <1>3, <1>4, <1>11, <1>14 DEF RestoreForeign, RestoreSync, SyncFails
<1>15. CASE SyncForward \/ LeaveInFlight
  BY <1>3, <1>4, <1>11, <1>15 DEF SyncForward, LeaveInFlight, SyncFails
<1>16. CASE CommitForward
  <2>1. CASE Goto("record", cur) /\ UNCHANGED mem
    BY <1>4, <1>11, <1>16, <2>1 DEF CommitForward
  <2>2. CASE ReturnErr /\ UNCHANGED disk
    BY <2>2, ReturnSequence DEF ReturnErr, SequenceInv
  <2> QED BY <1>16, <2>1, <2>2 DEF CommitForward, CatalogueCommit
<1>17. CASE RecordApplied
  <2> DEFINE rec == SetEntry(mem.tx, cur, "Applied")
  <2>1. pc \in ApplyWork
    BY <1>11, <1>17 DEF RecordApplied
  <2>2. InOrder(rec)
    BY <1>0, <1>2, <2>1, SetOrder DEF InFlight, Stopped
  <2>3. OrderKnows("entry", cur + 1, rec)
    BY <1>0, <1>2, <2>1, NAssumption
       DEF SetEntry, OrderKnows, NoFlight, FlightAt, InFlight, PassedBelow, UntriedFrom,
           Stopped, ApplyWork, UndoWork, BeforeRename, AfterRename, Restoring,
           BeforeReverse, AfterReverse, Journal, Entry, NAssumption
  <2>4. Checkpoint(rec, "entry", cur + 1)
    BY <1>17 DEF RecordApplied
  <2> HIDE DEF rec
  <2> QED BY <2>2, <2>3, <2>4, CheckpointSequence
<1>18. CASE FinishApply
  <2> DEFINE tx == IF mem.tx = "Applying" THEN "Applied" ELSE mem.tx
  <2>1. Close([mem EXCEPT !.tx = tx])
    BY <1>18 DEF FinishApply
  <2> QED BY <1>0, <2>1, CloseSequence
<1> QED
  BY <1>5, <1>6, <1>7, <1>8, <1>9, <1>10, <1>12, <1>13, <1>14, <1>15, <1>16, <1>17, <1>18
     DEF ApplyNext

LEMMA ReconcileSequence ==
  ASSUME SequenceInv, RunOK, ReconcileNext
  PROVE  SequenceInv'
<1>0. InOrder(mem) /\ InOrder(disk) /\ mem \in Journal
  BY DEF SequenceInv, RunOK
<1>1. CASE PassSettledEntry
  BY <1>1, NothingAsked, GotoSequence DEF PassSettledEntry
<1>2. CASE ReconcileEntry
  <2> DEFINE s == Reconciled(mem.st[cur], Classify(cur))
  <2>1. /\ cur \in Entry /\ mem.st[cur] \in InFlight /\ Goto("reconcile", cur + 1)
        /\ mem' \in {mem, SetEntry(mem.tx, cur, s)}
    BY <1>2 DEF ReconcileEntry
  <2>2. s \in {"Applied", "Skipped", "RolledBack"}
    BY DEF Reconciled
  <2>3. PassedBelow(cur, mem)
    BY <1>0, <2>1, StartedPassed DEF InOrder, InFlight, Unstarted
  <2>4. InOrder(SetEntry(mem.tx, cur, s))
    <3> HIDE DEF s
    <3> QED BY <1>0, <2>1, <2>2, <2>3, SetOrder DEF InFlight, Stopped
  <2> HIDE DEF s
  <2>5. InOrder(mem')
    BY <1>0, <2>1, <2>4
  <2> QED BY <1>0, <2>1, <2>5, NothingAsked DEF Goto, SequenceInv
<1>3. CASE Publish
  <2>1. InOrder(Promote(mem))
    BY <1>0, TxOrder DEF Promote
  <2>2. CASE ReturnOk /\ UNCHANGED disk
    BY <1>0, <2>2, ReturnSequence DEF ReturnOk
  <2> QED
    BY <1>3, <2>1, <2>2, NothingAsked, GotoSequence, CheckpointSequence, CloseSequence
       DEF Publish
<1> QED BY <1>1, <1>2, <1>3 DEF ReconcileNext

LEMMA UndoSequence ==
  ASSUME SequenceInv, RunOK, UndoNext
  PROVE  SequenceInv'
<1>0. /\ InOrder(mem) /\ mem \in Journal
      /\ \A tx : InOrder([mem EXCEPT !.tx = tx])
      /\ pc \in UndoWork => cur \in Entry
  BY TxOrder DEF SequenceInv, RunOK, CursorFits, EntryStep, UndoWork
<1>1. ASSUME NEW rec, NEW k
      PROVE  OrderKnows("undoEntry", k, rec) <=> NoFlight(rec)
  BY DEF OrderKnows, ApplyWork, UndoWork, BeforeRename, AfterRename, Restoring,
       BeforeReverse, AfterReverse
<1>2. ASSUME pc \in UndoWork
      PROVE  cur \in Entry /\ FlightAt(cur, mem) /\ mem.st[cur] = "RollingBack"
  BY <1>0, <1>2, WorkAsked DEF SequenceInv
<1>3. ASSUME cur \in Entry, FlightAt(cur, mem), mem.st[cur] \notin Unstarted,
             NEW s \in {"RollingBack", "RolledBack", "RollbackFailed"}
      PROVE  /\ InOrder(SetEntry(mem.tx, cur, s))
             /\ FlightAt(cur, SetEntry(mem.tx, cur, s))
             /\ SetEntry(mem.tx, cur, s).st[cur] = s
  <2>1. PassedBelow(cur, mem)
    BY <1>0, <1>3, StartedPassed DEF InOrder
  <2> QED BY <1>0, <1>3, <2>1, SetOrder DEF Stopped, FlightAt, SetEntry, Journal
<1>4. ASSUME pc \in UndoWork, NEW s \in {"RolledBack", "RollbackFailed"},
             Checkpoint(SetEntry(mem.tx, cur, s), "undoEntry", cur - 1)
      PROVE  SequenceInv'
  <2> DEFINE rec == SetEntry(mem.tx, cur, s)
  <2>1. InOrder(rec) /\ FlightAt(cur, rec) /\ rec.st[cur] = s
    BY <1>2, <1>3, <1>4 DEF Unstarted
  <2>2. NoFlight(rec)
    BY <2>1 DEF NoFlight, FlightAt, InFlight
  <2>3. OrderKnows("undoEntry", cur - 1, rec)
    BY <1>1, <2>2
  <2>4. Checkpoint(rec, "undoEntry", cur - 1)
    BY <1>4
  <2> HIDE DEF rec
  <2> QED BY <2>1, <2>3, <2>4, CheckpointSequence
<1>5. ASSUME pc \in UndoWork, NEW next \in UndoWork, Goto(next, cur), UNCHANGED mem
      PROVE  SequenceInv'
  BY <1>2, <1>5, WorkAsked, GotoSequence
<1>6. ASSUME pc \in UndoWork, StopInFlight PROVE SequenceInv'
  <2>1. InOrder(SetEntry(mem.tx, cur, "RollingBack"))
    BY <1>2, <1>3, <1>6 DEF Unstarted
  <2> QED BY <1>6, <2>1, NothingAsked, CheckpointSequence DEF StopInFlight
<1>7. {"undoProve", "undoBindFailed", "undoRename", "undoConfirm", "undoSync", "undoStop",
       "undoCommit", "undoRecord"} \subseteq UndoWork
  BY DEF UndoWork, BeforeReverse, AfterReverse
<1>8. CASE BeginUndo
  <2>1. CASE Close([mem EXCEPT !.tx = "RollbackFailed"])
    BY <1>0, <2>1, CloseSequence
  <2>2. ASSUME \A i \in Entry : mem.st[i] \notin InFlight,
               Checkpoint([mem EXCEPT !.tx = "RollingBack"], "undoEntry", N)
        PROVE  SequenceInv'
    <3>1. NoFlight([mem EXCEPT !.tx = "RollingBack"])
      BY <1>0, <2>2 DEF NoFlight, Journal
    <3> QED BY <1>0, <1>1, <2>2, <3>1, CheckpointSequence
  <2> QED BY <1>8, <2>1, <2>2 DEF BeginUndo
<1>9. CASE CancelUndo
  BY <1>9, NothingAsked, GotoSequence DEF CancelUndo
<1>10. pc = "undoEntry" => NoFlight(mem)
  BY DEF SequenceInv, OrderKnows
<1>11. CASE PassUndoEntry
  BY <1>1, <1>10, <1>11, GotoSequence DEF PassUndoEntry
<1>12. CASE CheckpointRollingBack
  <2> DEFINE rec == SetEntry(mem.tx, cur, "RollingBack")
  <2>1. cur \in Entry /\ FlightAt(cur, mem) /\ mem.st[cur] \notin Unstarted
    BY <1>10, <1>12 DEF CheckpointRollingBack, Undoable, NoFlight, FlightAt, Unstarted
  <2>2. InOrder(rec) /\ OrderKnows("undoProve", cur, rec)
    BY <1>3, <1>7, <2>1, WorkAsked
  <2>3. CASE Checkpoint(rec, "undoProve", cur)
    <3> HIDE DEF rec
    <3> QED BY <2>2, <2>3, CheckpointSequence
  <2>4. CASE CatalogueRefuses(cur, "dst")
    BY <2>4, ReturnSequence DEF CatalogueRefuses, ReturnErr, SequenceInv
  <2> QED BY <1>12, <2>3, <2>4 DEF CheckpointRollingBack
<1>13. CASE ProveUndo \/ RefuseUnboundUndo \/ RenameBack
  <2>1. pc \in UndoWork
    BY <1>7, <1>13 DEF ProveUndo, RefuseUnboundUndo, RenameBack
  <2>2. CASE RefuseUndo
    BY <1>4, <2>1, <2>2 DEF RefuseUndo
  <2> QED BY <1>5, <1>7, <1>13, <2>1, <2>2 DEF ProveUndo, RefuseUnboundUndo, RenameBack
<1>14. CASE ConfirmUndo \/ SyncBack \/ LeaveUndoInFlight
  <2>1. pc \in UndoWork
    BY <1>7, <1>14 DEF ConfirmUndo, SyncBack, LeaveUndoInFlight
  <2> QED
    BY <1>5, <1>6, <1>7, <1>14, <2>1 DEF ConfirmUndo, SyncBack, SyncFails, LeaveUndoInFlight
<1>15. CASE CommitBack
  <2>1. CASE Goto("undoRecord", cur) /\ UNCHANGED mem
    BY <1>5, <1>7, <1>15, <2>1 DEF CommitBack
  <2>2. CASE ReturnErr /\ UNCHANGED disk
    BY <2>2, ReturnSequence DEF ReturnErr, SequenceInv
  <2> QED BY <1>15, <2>1, <2>2 DEF CommitBack, CatalogueCommit
<1>16. CASE RecordRolledBack
  BY <1>4, <1>7, <1>16 DEF RecordRolledBack
<1>17. CASE FinishUndo
  BY <1>0, <1>17, CloseSequence DEF FinishUndo
<1> QED
  BY <1>8, <1>9, <1>11, <1>12, <1>13, <1>14, <1>15, <1>16, <1>17 DEF UndoNext

LEMMA SequenceStep == TypeInv /\ SequenceInv /\ [Next]_vars => SequenceInv'
<1> SUFFICES ASSUME TypeInv, SequenceInv, [Next]_vars PROVE SequenceInv'
  OBVIOUS
<1>1. RunOK
  BY TypeInvSplit
<1>2. CASE OperationNext
  BY <1>1, <1>2, ApplySequence, ReconcileSequence, UndoSequence DEF OperationNext
<1>3. ASSUME NEW mode \in {"AbortAll", "SkipUnsafeSubset"}, StartApply(mode)
      PROVE  SequenceInv'
  <2>1. UNCHANGED disk /\ pc' = "journal" /\ \A i \in Entry : mem'.st[i] \in Unstarted
    BY <1>3 DEF StartApply, Unstarted
  <2>2. InOrder(mem')
    BY <2>1 DEF InOrder, OnlyFlight, StartedInOrder, InFlight, Unstarted
  <2>3. OrderKnows(pc', cur', mem')
    BY <2>1 DEF OrderKnows, ApplyWork, UndoWork, BeforeRename, AfterRename, Restoring,
         BeforeReverse, AfterReverse
  <2> QED BY <2>1, <2>2, <2>3 DEF SequenceInv
<1>4. CASE StartReconcile \/ StartUndo
  <2>1. UNCHANGED disk /\ mem' = disk /\ pc' = "reconcile"
    BY <1>4 DEF StartReconcile, StartUndo
  <2> QED BY <2>1, NothingAsked DEF SequenceInv
<1>5. CASE CancelReview \/ (\E i \in Entry : ExternalChange(i)) \/ UNCHANGED vars
  <2>1. UNCHANGED <<disk, mem, pc, cur>>
    BY <1>5 DEF CancelReview, ExternalChange, vars
  <2> QED BY <2>1 DEF SequenceInv
<1>6. CASE ProcessCrash \/ \E lost \in SUBSET Entry : PowerLoss(lost)
  BY <1>6, ReturnSequence DEF ProcessCrash, PowerLoss, Stop, SequenceInv
<1> QED
  BY <1>2, <1>3, <1>4, <1>5, <1>6 DEF Next, UserNext, EnvironmentNext

LEMMA SequenceInit == Init => SequenceInv
BY BlankOrder, NothingAsked DEF Init, SequenceInv

\* One entry after the other: for every batch size, however often a review is
\* applied, at most one entry of the journal is in flight, and none behind a
\* failed or unattempted one has been started.
THEOREM EntriesInOrderCorrect == Spec => []EntriesInOrder
<1>1. SequenceInv => EntriesInOrder
  BY DEF SequenceInv, InOrder, OnlyFlight, StartedInOrder, Stopped, Unstarted,
       EntriesInOrder, OneInFlight, AppliedInOrder
<1> QED BY <1>1, TypeInit, TypeStep, SequenceInit, SequenceStep, PTL DEF Spec

----------------------------------------------------------------------------
(* The library catalogue follows the journal. *)

LEMMA FreeRows ==
  ASSUME NEW step \in {"idle", "journal", "commence", "entry", "finish", "sync", "inFlight",
                       "commit", "reconcile", "undoStart", "undoEntry", "undoConfirm",
                       "undoSync", "undoStop", "undoCommit", "undoFinish"},
         NEW k
  PROVE  RowKnown(step, k)
BY DEF RowKnown, NamesSource, NamesDestination, Restoring, BeforeReverse

LEMMA CatSame ==
  ASSUME UNCHANGED cat
  PROVE  /\ \A rec : CatRec(rec) /\ disk' = rec => CatRec(disk)'
         /\ \A rec : CatRec(rec) /\ mem' = rec => CatRec(mem)'
         /\ \A step, k : RowKnown(step, k) /\ pc' = step /\ cur' = k => RowKnown(pc, cur)'
BY DEF CatRec, RowKnown

\* The row of an entry in flight may move: no record speaks about it.
LEMMA CatMoves ==
  ASSUME FilesOK, CatalogueBound, cur \in Entry, NEW place,
         cat' \in {cat, CatalogueAt(cur, place)}
  PROVE  /\ \A rec : CatRec(rec) /\ rec.st[cur] \in InFlight /\ disk' = rec => CatRec(disk)'
         /\ \A rec : CatRec(rec) /\ rec.st[cur] \in InFlight /\ mem' = rec => CatRec(mem)'
         /\ cat' = CatalogueAt(cur, place) => cat'[cur] = place
         /\ \A i \in Entry \ {cur} : cat'[i] = cat[i]
BY DEF FilesOK, CatalogueAt, CatRec, InFlight, Forward, Backward

LEMMA SetCat ==
  ASSUME RunOK, CatRec(mem), NEW tx, NEW s,
         s \in Forward => cat[cur] = "dst", s \in Backward => cat[cur] = "src"
  PROVE  CatRec(SetEntry(tx, cur, s))
BY DEF CatRec, SetEntry, RunOK, Journal

LEMMA TxCat ==
  ASSUME NEW rec, NEW tx, CatRec(rec)
  PROVE  CatRec([rec EXCEPT !.tx = tx])
BY DEF CatRec

LEMMA ReturnCat ==
  ASSUME Return, CatRec(disk)'
  PROVE  CatalogueInv'
BY FreeRows DEF Return, CatalogueInv, RowKnown, NamesSource, NamesDestination, Restoring,
       BeforeReverse

LEMMA CheckpointCat ==
  ASSUME CatalogueBound, CatalogueInv, UNCHANGED cat, NEW rec, NEW next, NEW k, CatRec(rec),
         RowKnown(next, k), next # "reconcile", Checkpoint(rec, next, k)
  PROVE  CatalogueInv'
<1>1. CASE JournalWriteFails(rec)
  <2>1. CatRec(disk)'
    BY <1>1, CatSame DEF JournalWriteFails, CatalogueInv
  <2> QED BY <1>1, <2>1, ReturnCat DEF JournalWriteFails, ReturnErr
<1>2. CASE disk' = rec /\ mem' = rec /\ pc' = next /\ cur' = k
  BY <1>2, CatSame DEF CatalogueInv
<1> QED BY <1>1, <1>2 DEF Checkpoint

LEMMA CloseCat ==
  ASSUME CatalogueBound, CatalogueInv, UNCHANGED cat, NEW rec, CatRec(rec), Close(rec)
  PROVE  CatalogueInv'
<1>1. CatRec(disk)' /\ Return
  BY CatSame DEF Close, JournalWriteFails, ReturnErr, ReturnOk, CatalogueInv
<1> QED BY <1>1, ReturnCat

LEMMA GotoCat ==
  ASSUME CatalogueBound, CatalogueInv, UNCHANGED <<cat, mem>>, pc # "idle", NEW next, NEW k,
         RowKnown(next, k), next = "reconcile" => pc = "reconcile", Goto(next, k)
  PROVE  CatalogueInv'
BY CatSame DEF CatalogueInv, Goto

LEMMA FailEntryCat ==
  ASSUME CatalogueBound, CatalogueInv, RunOK, pc # "idle", UNCHANGED cat, NEW s, FailEntry(s),
         s \in Forward => cat[cur] = "dst", s \in Backward => cat[cur] = "src"
  PROVE  CatalogueInv'
<1>1. CatRec(SetEntry("ApplyFailed", cur, s))
  BY SetCat DEF CatalogueInv
<1> QED BY <1>1, FreeRows, CheckpointCat DEF FailEntry

\* A begin() or COMMIT that fails leaves the entry in flight in the journal.
LEMMA RefusesCat ==
  ASSUME CatalogueBound, CatalogueInv, NEW i, NEW place, CatalogueRefuses(i, place)
  PROVE  CatalogueInv'
<1>1. CatRec(disk)'
  BY CatSame DEF CatalogueRefuses, CatalogueInv
<1> QED BY <1>1, ReturnCat DEF CatalogueRefuses, ReturnErr

LEMMA CommitCat ==
  ASSUME CatalogueBound, CatalogueInv, FilesOK, cur \in Entry, pc # "idle", NEW place, NEW next,
         <<place, next>> \in {<<"dst", "record">>, <<"src", "undoRecord">>},
         disk.st[cur] \in InFlight, mem.st[cur] \in InFlight,
         CatalogueCommit(cur, place, next)
  PROVE  CatalogueInv'
<1>1. CASE cat' = CatalogueAt(cur, place) /\ Goto(next, cur) /\ UNCHANGED mem
  <2>1. CatRec(disk)' /\ CatRec(mem)' /\ cat'[cur] = place
    BY <1>1, CatMoves DEF CatalogueInv, Goto
  <2>2. RowKnown(pc, cur)' /\ next # "reconcile"
    BY <1>1, <2>1 DEF Goto, RowKnown, NamesSource, NamesDestination, Restoring, BeforeReverse
  <2> QED BY <1>1, <2>1, <2>2 DEF CatalogueInv, Goto
<1>2. CASE cat' \in {cat, CatalogueAt(cur, place)} /\ ReturnErr /\ UNCHANGED disk
  <2>1. CatRec(disk)'
    BY <1>2, CatMoves DEF CatalogueInv
  <2> QED BY <1>2, <2>1, ReturnCat DEF ReturnErr
<1> QED BY <1>1, <1>2 DEF CatalogueCommit

LEMMA ApplyCat ==
  ASSUME CatalogueBound, CatalogueInv, TruthInv, RunOK, FilesOK, ApplyNext
  PROVE  CatalogueInv'
<1>0. /\ pc # "idle" => CatRec(mem) /\ \A tx : CatRec([mem EXCEPT !.tx = tx])
      /\ pc \in NamesSource => cat[cur] = "src"
      /\ pc \in NamesDestination => cat[cur] = "dst"
  BY TxCat DEF CatalogueInv, RowKnown
<1>1. {"reprove", "bindFailed", "rename", "confirm", "restore", "restoreSync"}
        \subseteq NamesSource
  BY DEF NamesSource, Restoring
<1>2. ASSUME pc \in NamesSource, pc # "idle", FailEntry("ApplyFailed"), UNCHANGED cat
      PROVE  CatalogueInv'
  BY <1>0, <1>2, FailEntryCat DEF Forward
<1>3. ASSUME pc \in NamesSource, pc # "idle", NEW next, Goto(next, cur),
             UNCHANGED <<mem, cat>>, next # "reconcile",
             next \in NamesSource \/ next \in {"sync", "inFlight"}
      PROVE  CatalogueInv'
  <2>1. RowKnown(next, cur)
    BY <1>0, <1>3, FreeRows DEF RowKnown, NamesSource, NamesDestination, Restoring,
         BeforeReverse
  <2> QED BY <1>3, <2>1, GotoCat
<1>4. ASSUME pc = "entry", cur \in Entry PROVE cat[cur] = "src"
  <2>1. mem.st[cur] \in {"Planned", "Skipped"}
    BY <1>4, NAssumption DEF TruthInv, StepKnows, UntriedFrom, Entry, NAssumption
  <2> QED BY <1>0, <1>4, <2>1 DEF CatRec, Backward
<1>5. CASE JournalBatch
  BY <1>0, <1>5, FreeRows, CheckpointCat DEF JournalBatch
<1>6. CASE Commence
  BY <1>0, <1>6, FreeRows, CheckpointCat, CloseCat DEF Commence
<1>7. CASE CancelApply
  BY <1>0, <1>7, CloseCat DEF CancelApply
<1>8. CASE SkipEntry
  BY <1>8, FreeRows, GotoCat DEF SkipEntry
<1>9. CASE RefuseEntry
  BY <1>4, <1>9, FailEntryCat DEF RefuseEntry, Forward
<1>10. CASE CheckpointApplying
  <2> DEFINE rec == SetEntry(mem.tx, cur, "Applying")
  <2>1. CASE CatalogueReady(cur, "src") /\ UNCHANGED cat /\ Checkpoint(rec, "reprove", cur)
    <3>1. CatRec(rec) /\ pc # "idle"
      BY <1>0, <1>10, SetCat DEF CheckpointApplying, Forward, Backward
    <3>2. RowKnown("reprove", cur)
      BY <2>1 DEF CatalogueReady, RowKnown, NamesDestination, BeforeReverse
    <3> HIDE DEF rec
    <3> QED BY <2>1, <3>1, <3>2, CheckpointCat
  <2>2. CASE CatalogueRefuses(cur, "src")
    BY <2>2, RefusesCat
  <2> QED BY <1>10, <2>1, <2>2 DEF CheckpointApplying
<1>11. CASE ReproveSource \/ RefuseUnbound \/ RenameForward
  BY <1>1, <1>2, <1>3, <1>11 DEF ReproveSource, RefuseUnbound, RenameForward
<1>12. CASE ConfirmRename
  BY <1>1, <1>2, <1>3, <1>12 DEF ConfirmRename
<1>13. CASE RestoreForeign \/ RestoreSync
  BY <1>1, <1>2, <1>3, <1>13 DEF RestoreForeign, RestoreSync, SyncFails
<1>14. CASE SyncForward
  BY <1>14, FreeRows, GotoCat DEF SyncForward, SyncFails
<1>15. CASE LeaveInFlight
  BY <1>15, FailEntryCat DEF LeaveInFlight, Forward, Backward
<1>16. CASE CommitForward
  <2>1. pc \in EntryStep /\ pc # "idle"
    BY <1>16 DEF CommitForward, EntryStep, AfterRename
  <2>2. cur \in Entry /\ disk.st[cur] \in InFlight /\ mem.st[cur] \in InFlight
    BY <1>16, <2>1, InFlightFacts DEF CommitForward, AfterRename, InFlight
  <2> QED BY <1>16, <2>1, <2>2, CommitCat DEF CommitForward
<1>17. CASE RecordApplied
  <2>1. pc \in NamesDestination /\ pc # "idle"
    BY <1>17 DEF RecordApplied, NamesDestination
  <2>2. CatRec(SetEntry(mem.tx, cur, "Applied"))
    BY <1>0, <2>1, SetCat DEF Backward
  <2> QED BY <1>17, <2>2, FreeRows, CheckpointCat DEF RecordApplied
<1>18. CASE FinishApply
  <2> DEFINE tx == IF mem.tx = "Applying" THEN "Applied" ELSE mem.tx
  <2>1. Close([mem EXCEPT !.tx = tx]) /\ pc # "idle" /\ UNCHANGED cat
    BY <1>18 DEF FinishApply
  <2> QED BY <1>0, <2>1, CloseCat
<1> QED
  BY <1>5, <1>6, <1>7, <1>8, <1>9, <1>10, <1>11, <1>12, <1>13, <1>14, <1>15, <1>16, <1>17,
     <1>18 DEF ApplyNext

LEMMA ReconcileCat ==
  ASSUME CatalogueBound, CatalogueInv, RunOK, FilesOK, ReconcileNext
  PROVE  CatalogueInv'
<1>0. pc # "idle" => CatRec(mem)
  BY DEF CatalogueInv
<1>1. CASE PassSettledEntry
  BY <1>1, FreeRows, GotoCat DEF PassSettledEntry
<1>2. CASE ReconcileEntry
  <2> DEFINE place == CatalogueSide(Classify(cur))
             s == Reconciled(mem.st[cur], Classify(cur))
  <2>1. /\ pc = "reconcile" /\ cur \in Entry /\ mem.st[cur] \in InFlight
        /\ disk.st[cur] \in InFlight
        /\ Goto("reconcile", cur + 1) /\ cat' \in {cat, CatalogueAt(cur, place)}
        /\ \/ UNCHANGED mem
           \/ mem' = SetEntry(mem.tx, cur, s) /\ cat' = CatalogueAt(cur, place)
    BY <1>2 DEF ReconcileEntry, CatalogueInv
  <2>2. CatRec(disk)'
    BY <2>1, CatMoves DEF CatalogueInv, Goto
  <2>3. CASE UNCHANGED mem
    <3>1. CatRec(mem)'
      BY <1>0, <2>1, <2>3, CatMoves
    <3> QED BY <2>1, <2>2, <2>3, <3>1, FreeRows
            DEF CatalogueInv, Goto, RowKnown, NamesSource, NamesDestination, Restoring,
                BeforeReverse
  <2>4. CASE mem' = SetEntry(mem.tx, cur, s) /\ cat' = CatalogueAt(cur, place)
    <3>1. /\ mem'.st[cur] = s /\ cat'[cur] = place
          /\ \A i \in Entry \ {cur} : mem'.st[i] = mem.st[i] /\ cat'[i] = cat[i]
      BY <2>1, <2>4, CatMoves DEF SetEntry, RunOK, Journal
    <3>2. \/ s = "Applied" /\ place = "dst"
          \/ s \in {"Skipped", "RolledBack"} /\ place = "src"
      BY DEF Reconciled, CatalogueSide
    <3> HIDE DEF s, place
    <3>3. CatRec(mem)'
      BY <1>0, <2>1, <3>1, <3>2 DEF CatRec, Forward, Backward
    <3>4. mem'.st[cur] \notin InFlight
      BY <3>1, <3>2 DEF InFlight
    <3> QED BY <2>1, <2>2, <3>1, <3>3, <3>4
            DEF CatalogueInv, Goto, RowKnown, NamesSource, NamesDestination, Restoring,
                BeforeReverse
  <2> QED BY <2>1, <2>3, <2>4
<1>3. CASE Publish
  <2>1. CatRec(Promote(mem)) /\ UNCHANGED cat /\ pc # "idle"
    BY <1>0, <1>3, TxCat DEF Promote, Publish
  <2>2. CASE ReturnOk /\ UNCHANGED disk
    <3>1. CatRec(disk)'
      BY <2>1, <2>2, CatSame DEF CatalogueInv
    <3> QED BY <2>2, <3>1, ReturnCat DEF ReturnOk
  <2> QED
    BY <1>3, <2>1, <2>2, FreeRows, GotoCat, CheckpointCat, CloseCat DEF Publish
<1> QED BY <1>1, <1>2, <1>3 DEF ReconcileNext

LEMMA UndoCat ==
  ASSUME CatalogueBound, CatalogueInv, TruthInv, RunOK, FilesOK, UndoNext
  PROVE  CatalogueInv'
<1>0. /\ pc # "idle" => CatRec(mem) /\ \A tx : CatRec([mem EXCEPT !.tx = tx])
      /\ pc \in NamesSource => cat[cur] = "src"
      /\ pc \in NamesDestination => cat[cur] = "dst"
  BY TxCat DEF CatalogueInv, RowKnown
<1>1. ASSUME pc \in BeforeReverse, RefuseUndo, UNCHANGED cat PROVE CatalogueInv'
  <2>1. pc \in NamesDestination /\ pc # "idle"
    BY <1>1 DEF NamesDestination, BeforeReverse
  <2>2. CatRec(SetEntry(mem.tx, cur, "RollbackFailed"))
    BY <1>0, <2>1, SetCat DEF Backward
  <2> QED BY <1>1, <2>1, <2>2, FreeRows, CheckpointCat DEF RefuseUndo
<1>2. ASSUME pc # "idle", StopInFlight, UNCHANGED cat PROVE CatalogueInv'
  <2>1. CatRec(SetEntry(mem.tx, cur, "RollingBack"))
    BY <1>0, <1>2, SetCat DEF Forward, Backward
  <2> QED BY <1>2, <2>1, FreeRows, CheckpointCat DEF StopInFlight
<1>3. CASE BeginUndo
  BY <1>0, <1>3, FreeRows, CheckpointCat, CloseCat DEF BeginUndo
<1>4. CASE CancelUndo \/ PassUndoEntry
  BY <1>4, FreeRows, GotoCat DEF CancelUndo, PassUndoEntry
<1>5. CASE CheckpointRollingBack
  <2> DEFINE rec == SetEntry(mem.tx, cur, "RollingBack")
  <2>1. CASE CatalogueReady(cur, "dst") /\ UNCHANGED cat /\ Checkpoint(rec, "undoProve", cur)
    <3>1. CatRec(rec)
      BY <1>0, <1>5, SetCat DEF CheckpointRollingBack, Forward, Backward
    <3>2. RowKnown("undoProve", cur)
      BY <2>1 DEF CatalogueReady, RowKnown, NamesSource, Restoring
    <3> HIDE DEF rec
    <3> QED BY <2>1, <3>1, <3>2, CheckpointCat
  <2>2. CASE CatalogueRefuses(cur, "dst")
    BY <2>2, RefusesCat
  <2> QED BY <1>5, <2>1, <2>2 DEF CheckpointRollingBack
<1>6. ASSUME pc \in BeforeReverse, NEW next \in BeforeReverse \cup {"undoConfirm"},
             Goto(next, cur), UNCHANGED <<mem, cat>>
      PROVE  CatalogueInv'
  <2>1. /\ pc # "idle" /\ next # "reconcile"
        /\ cat[cur] = "dst"
    BY <1>0, <1>6 DEF NamesDestination, BeforeReverse
  <2>2. RowKnown(next, cur)
    BY <1>6, <2>1 DEF RowKnown, NamesSource, Restoring, BeforeReverse
  <2> QED BY <1>6, <2>1, <2>2, GotoCat
<1>7. CASE ProveUndo
  BY <1>1, <1>6, <1>7 DEF ProveUndo, BeforeReverse
<1>8. CASE RefuseUnboundUndo \/ RenameBack
  BY <1>1, <1>6, <1>8 DEF RefuseUnboundUndo, RenameBack, BeforeReverse
<1>9. CASE ConfirmUndo \/ SyncBack \/ LeaveUndoInFlight
  BY <1>2, <1>9, FreeRows, GotoCat DEF ConfirmUndo, SyncBack, SyncFails, LeaveUndoInFlight
<1>10. CASE CommitBack
  <2>1. pc \in EntryStep /\ pc # "idle"
    BY <1>10 DEF CommitBack, EntryStep, AfterReverse
  <2>2. cur \in Entry /\ disk.st[cur] \in InFlight /\ mem.st[cur] \in InFlight
    BY <1>10, <2>1, InFlightFacts DEF CommitBack, AfterReverse, InFlight
  <2> QED BY <1>10, <2>1, <2>2, CommitCat DEF CommitBack
<1>11. CASE RecordRolledBack
  <2>1. pc \in NamesSource /\ pc # "idle"
    BY <1>11 DEF RecordRolledBack, NamesSource
  <2>2. CatRec(SetEntry(mem.tx, cur, "RolledBack"))
    BY <1>0, <2>1, SetCat DEF Forward
  <2> QED BY <1>11, <2>2, FreeRows, CheckpointCat DEF RecordRolledBack
<1>12. CASE FinishUndo
  BY <1>0, <1>12, CloseCat DEF FinishUndo
<1> QED
  BY <1>3, <1>4, <1>5, <1>7, <1>8, <1>9, <1>10, <1>11, <1>12 DEF UndoNext

LEMMA CatalogueStep ==
  ASSUME MaxReviewUses \in {0, 1}
  PROVE  IInv /\ CatalogueInv /\ [Next]_vars => CatalogueInv'
<1> SUFFICES ASSUME IInv, CatalogueInv, [Next]_vars, CatalogueBound PROVE CatalogueInv'
  BY DEF CatalogueInv
<1>1. RunOK /\ FilesOK /\ TruthInv
  BY TypeInvSplit DEF IInv
<1>2. CASE OperationNext
  BY <1>1, <1>2, ApplyCat, ReconcileCat, UndoCat DEF OperationNext
<1>3. ASSUME NEW mode \in {"AbortAll", "SkipUnsafeSubset"}, StartApply(mode)
      PROVE  CatalogueInv'
  <2>1. /\ disk = Blank /\ UNCHANGED <<disk, cat>> /\ pc' = "journal"
        /\ \A i \in Entry : mem'.st[i] \in {"Planned", "Skipped"}
    BY <1>1, <1>3 DEF StartApply, RunOK, TruthInv, FreshUntilApplied
  <2>2. \A i \in Entry : cat[i] = "src"
    BY <2>1 DEF CatalogueInv, CatRec, Blank, Backward
  <2>3. CatRec(disk)' /\ CatRec(mem)'
    BY <2>1, <2>2 DEF CatRec, Blank, Forward
  <2> QED BY <2>1, <2>3
          DEF CatalogueInv, RowKnown, NamesSource, NamesDestination, Restoring, BeforeReverse
<1>4. CASE StartReconcile \/ StartUndo
  <2>1. UNCHANGED <<disk, cat>> /\ mem' = disk /\ pc' = "reconcile"
    BY <1>4 DEF StartReconcile, StartUndo
  <2>2. CatRec(disk)' /\ CatRec(mem)'
    BY <2>1, CatSame DEF CatalogueInv
  <2> QED BY <2>1, <2>2
          DEF CatalogueInv, RowKnown, NamesSource, NamesDestination, Restoring, BeforeReverse
<1>5. CASE CancelReview \/ (\E i \in Entry : ExternalChange(i)) \/ UNCHANGED vars
  <2>1. UNCHANGED <<disk, mem, pc, cur, cat>>
    BY <1>5 DEF CancelReview, ExternalChange, vars
  <2> QED BY <2>1, CatSame DEF CatalogueInv
<1>6. CASE ProcessCrash \/ \E lost \in SUBSET Entry : PowerLoss(lost)
  <2>1. UNCHANGED <<cat, disk>> /\ Return
    BY <1>6 DEF ProcessCrash, PowerLoss, Stop
  <2> QED BY <2>1, CatSame, ReturnCat DEF CatalogueInv
<1> QED
  BY <1>2, <1>3, <1>4, <1>5, <1>6 DEF Next, UserNext, EnvironmentNext

LEMMA CatalogueInit == Init => CatalogueInv
BY FreeRows DEF Init, CatalogueInv, CatRec, Blank, Forward

\* The library catalogue names the path the journal settled on, for every batch
\* size and whatever other programs do, when a review is applied at most once.
THEOREM CatalogueFollowsJournalCorrect ==
  ASSUME MaxReviewUses \in {0, 1}
  PROVE  Spec => []CatalogueFollowsJournal
<1>1. Init => IInv
  BY TypeInit, TruthInit DEF IInv
<1>2. CatalogueInv => CatalogueFollowsJournal
  BY DEF CatalogueInv, CatRec, Forward, Backward, CatalogueFollowsJournal
<1> QED BY <1>1, <1>2, TruthStep, CatalogueInit, CatalogueStep, PTL DEF Spec
=============================================================================
