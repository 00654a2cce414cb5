---------------------------- MODULE RenameApply ----------------------------
(***************************************************************************)
(* The shared rename executor of archivefs-core (dat/rename_apply): one    *)
(* journalled batch of RenameMove entries, from the in-memory review       *)
(* through Apply, crash recovery (reconcile) and Undo (rollback).          *)
(*                                                                         *)
(* Each entry moves one reviewed file from its source path to its          *)
(* destination path.  A step is one system call or one journal write, so   *)
(* another program, a process crash or a power loss may fall between any   *)
(* two of them.  One operation runs at a time; which threads may overlap,  *)
(* and what then happens to the journal, is the subject of JournalAccess.  *)
(***************************************************************************)
EXTENDS Naturals, FiniteSets

CONSTANTS
  N,               \* entries in the batch, in journal order
  CatalogueBound,  \* the batch also moves library-catalogue rows
  MaxReviewUses,   \* bound: how often the page may apply the review it holds
  MaxFaults,       \* bound: failed journal writes, directory syncs, commits
  MaxExternal,     \* bound: changes made by other programs
  MaxCrashes       \* bound: process crashes and power losses

ASSUME NAssumption == N \in Nat \ {0}
ASSUME BoundsAssumption ==
  /\ CatalogueBound \in BOOLEAN
  /\ MaxReviewUses \in Nat /\ MaxFaults \in Nat
  /\ MaxExternal \in Nat /\ MaxCrashes \in Nat

VARIABLES
  src, dst,   \* what each entry's source and destination path holds
  unsynced,   \* a rename of the entry not yet forced to its directories
  cat,        \* which of the two paths the library catalogue names
  disk,       \* the journal file
  op, pc,     \* the running operation and its next step
  cur,        \* the entry it is working on
  mem,        \* its copy of the transaction
  held, uses, \* the reviewed, still Planned copy the page keeps for Apply
  faults, externals, crashes,   \* budgets spent
  touched     \* entries another program has interfered with

fileVars == <<src, dst, unsynced>>
reviewVars == <<held, uses>>
envVars == <<externals, crashes, touched>>
vars == <<fileVars, cat, disk, op, pc, cur, mem, reviewVars, faults, envVars>>

Entry == 1..N

\* A path holds nothing, the object whose identity was reviewed, or another.
Content == {"none", "own", "foreign"}

TransactionState ==
  {"Planned", "Applying", "Applied", "ApplyFailed",
   "RollingBack", "RolledBack", "RollbackFailed"}

EntryState ==
  {"Planned", "Applying", "Applied", "ApplyFailed",
   "RollingBack", "RolledBack", "RollbackFailed", "Skipped"}

InFlight == {"Applying", "RollingBack"}

\* "Absent": no journal has been written yet.
Journal == [tx : TransactionState \cup {"Absent"}, st : [Entry -> EntryState]]

Blank == [tx |-> "Absent", st |-> [i \in Entry |-> "Planned"]]

Operation == {"none", "apply", "reconcile", "undo"}

ApplyStep ==
  {"journal", "commence", "entry", "reprove", "bindFailed", "rename", "confirm",
   "restore", "restoreSync", "sync", "inFlight", "commit", "record", "finish"}

ReconcileStep == {"reconcile"}

UndoStep ==
  {"undoStart", "undoEntry", "undoProve", "undoBindFailed", "undoRename",
   "undoConfirm", "undoSync", "undoStop", "undoCommit", "undoRecord",
   "undoFinish"}

Init ==
  /\ src = [i \in Entry |-> "own"]
  /\ dst = [i \in Entry |-> "none"]
  /\ unsynced = [i \in Entry |-> "no"]
  /\ cat = [i \in Entry |-> "src"]
  /\ disk = Blank
  /\ op = "none" /\ pc = "idle" /\ cur = 0 /\ mem = Blank
  /\ held = TRUE /\ uses = 0
  /\ faults = 0 /\ externals = 0 /\ crashes = 0
  /\ touched = {}

----------------------------------------------------------------------------
(* Failures, the end of an operation and the journal write.                *)

Fault == faults < MaxFaults /\ faults' = faults + 1
NoFault == faults' = faults

\* Mutant of Return: the finished operation's copy lives on.
ReturnKeepingCopy == op' = "none" /\ pc' = "idle" /\ cur' = 0 /\ mem' = mem

\* The operation returns; its copy of the transaction is dropped.
Return == op' = "none" /\ pc' = "idle" /\ cur' = 0 /\ mem' = Blank

\* After Ok of an Apply the page drops the review; after an error it keeps it.
ReturnOk == Return /\ held' = (held /\ op # "apply") /\ NoFault
ReturnErr == Return /\ held' = held

\* A failed write may already have replaced the journal: the seal of the new
\* generation is committed after the file (journal.rs:407-419).
JournalWriteFails(rec) == Fault /\ disk' \in {disk, rec} /\ ReturnErr

\* Write rec and continue at step next of entry k.
Checkpoint(rec, next, k) ==
  /\ \/ /\ disk' = rec /\ mem' = rec
        /\ pc' = next /\ cur' = k
        /\ UNCHANGED <<op, held>> /\ NoFault
     \/ JournalWriteFails(rec)
  /\ UNCHANGED <<uses, envVars>>

\* Write rec, then return Ok.
Close(rec) ==
  /\ \/ disk' = rec /\ ReturnOk
     \/ JournalWriteFails(rec)
  /\ UNCHANGED <<uses, envVars>>

\* Continue without a write.
Goto(next, k) ==
  /\ pc' = next /\ cur' = k
  /\ UNCHANGED <<op, disk, held, uses, envVars>>

SetEntry(tx, i, state) == [tx |-> tx, st |-> [mem.st EXCEPT ![i] = state]]

\* Mutant of RenameNoReplace: a plain rename, which replaces its target.
PlainRename(from, to) == from # "none"

\* renameat2(RENAME_NOREPLACE): what the system call accepts.
RenameNoReplace(from, to) == from # "none" /\ to = "none"

MoveForward(i) ==
  /\ src' = [src EXCEPT ![i] = "none"]
  /\ dst' = [dst EXCEPT ![i] = src[i]]
  /\ unsynced' = [unsynced EXCEPT ![i] = "forward"]

MoveBack(i) ==
  /\ dst' = [dst EXCEPT ![i] = "none"]
  /\ src' = [src EXCEPT ![i] = dst[i]]
  /\ unsynced' = [unsynced EXCEPT ![i] = "back"]

\* Both parent directories are forced to disk, or the sync fails.
Synced(i) == unsynced' = [unsynced EXCEPT ![i] = "no"]

\* A bound batch's catalogue row follows the file in one SQLite transaction.
CatalogueAt(i, place) ==
  IF CatalogueBound THEN [cat EXCEPT ![i] = place] ELSE cat

\* The association read by begin() outside recovery must be the one to move.
CatalogueReady(i, place) == CatalogueBound => cat[i] = place

\* begin() refuses: the operation returns without a write.
CatalogueRefuses(i, place) ==
  /\ CatalogueBound
  /\ IF CatalogueReady(i, place) THEN Fault ELSE NoFault
  /\ ReturnErr
  /\ UNCHANGED <<cat, disk, uses, envVars>>

\* COMMIT, then go on at step next; or an error, whether or not it committed.
CatalogueCommit(i, place, next) ==
  \/ /\ cat' = CatalogueAt(i, place)
     /\ Goto(next, cur)
     /\ UNCHANGED <<mem, faults>>
  \/ /\ CatalogueBound
     /\ Fault /\ cat' \in {cat, CatalogueAt(i, place)}
     /\ ReturnErr
     /\ UNCHANGED <<disk, uses, envVars>>

----------------------------------------------------------------------------
(* Apply.                                                                  *)

PreflightOK(i) == src[i] = "own" /\ dst[i] = "none"

\* The whole batch is preflighted on the caller's copy.  AbortAll refuses the
\* batch when any entry conflicts; SkipUnsafeSubset skips those entries.
StartApply(mode) ==
  LET unsafe == {i \in Entry : ~PreflightOK(i)} IN
  /\ op = "none" /\ held /\ uses < MaxReviewUses
  /\ mode = "AbortAll" => unsafe = {}
  /\ op' = "apply" /\ pc' = "journal" /\ cur' = 0
  /\ mem' = [tx |-> "Planned",
             st |-> [i \in Entry |->
                       IF i \in unsafe THEN "Skipped" ELSE "Planned"]]
  /\ uses' = uses + 1
  /\ UNCHANGED <<fileVars, cat, disk, held, faults, envVars>>

\* The exact batch is journalled before the first mutation.
JournalBatch ==
  /\ pc = "journal"
  /\ Checkpoint(mem, "commence", 0)
  /\ UNCHANGED <<fileVars, cat>>

Commence ==
  /\ pc = "commence"
  /\ IF \A i \in Entry : mem.st[i] = "Skipped"
     THEN Close([mem EXCEPT !.tx = "ApplyFailed"])
     ELSE Checkpoint([mem EXCEPT !.tx = "Applying"], "entry", 1)
  /\ UNCHANGED <<fileVars, cat>>

\* Cancellation is noticed between entries only.
CancelApply ==
  /\ pc = "entry" /\ cur \in Entry
  /\ Close([mem EXCEPT !.tx = "ApplyFailed"])
  /\ UNCHANGED <<fileVars, cat>>

SkipEntry ==
  /\ pc = "entry" /\ cur \in Entry
  /\ mem.st[cur] = "Skipped"
  /\ Goto("entry", cur + 1)
  /\ UNCHANGED <<fileVars, cat, mem, faults>>

\* Record the failed entry and leave the loop: the batch stops here.
FailEntry(state) == Checkpoint(SetEntry("ApplyFailed", cur, state), "finish", cur)

RefuseEntry ==
  /\ pc = "entry" /\ cur \in Entry
  /\ mem.st[cur] # "Skipped"
  /\ ~PreflightOK(cur)
  /\ FailEntry("ApplyFailed")
  /\ UNCHANGED <<fileVars, cat>>

\* Mutant of CheckpointApplying: Applying is noted in memory only.
ApplyingInMemory ==
  /\ pc = "entry" /\ cur \in Entry
  /\ mem.st[cur] # "Skipped"
  /\ PreflightOK(cur)
  /\ mem' = SetEntry(mem.tx, cur, "Applying")
  /\ Goto("reprove", cur)
  /\ UNCHANGED <<fileVars, cat, faults>>

\* The catalogue lock is taken, then Applying is written BEFORE the rename.
CheckpointApplying ==
  /\ pc = "entry" /\ cur \in Entry
  /\ mem.st[cur] # "Skipped"
  /\ PreflightOK(cur)
  /\ \/ /\ CatalogueReady(cur, "src")
        /\ Checkpoint(SetEntry(mem.tx, cur, "Applying"), "reprove", cur)
        /\ UNCHANGED cat
     \/ CatalogueRefuses(cur, "src")
  /\ UNCHANGED fileVars

\* Bind the parent directories and prove the source again.
ReproveSource ==
  /\ pc = "reprove"
  /\ \/ src[cur] = "own" /\ Goto("rename", cur) /\ UNCHANGED <<mem, faults>>
     \/ src[cur] # "own" /\ FailEntry("ApplyFailed")
     \/ Fault /\ Goto("bindFailed", cur) /\ UNCHANGED mem
  /\ UNCHANGED <<fileVars, cat>>

RefuseUnbound ==
  /\ pc = "bindFailed"
  /\ FailEntry("ApplyFailed")
  /\ UNCHANGED <<fileVars, cat>>

RenameForward ==
  /\ pc = "rename"
  /\ IF RenameNoReplace(src[cur], dst[cur])
     THEN MoveForward(cur) /\ Goto("confirm", cur) /\ UNCHANGED <<mem, faults>>
     ELSE FailEntry("ApplyFailed") /\ UNCHANGED fileVars
  /\ UNCHANGED cat

\* confirm_rename_bound, and the test that opens restore_failed_rename.
ConfirmRename ==
  /\ pc = "confirm"
  /\ CASE src[cur] = "none" /\ dst[cur] = "own" ->
            Goto("sync", cur) /\ UNCHANGED <<mem, faults>>
       [] src[cur] = "none" /\ dst[cur] = "foreign" ->
            Goto("restore", cur) /\ UNCHANGED <<mem, faults>>
       [] OTHER -> FailEntry("ApplyFailed")
  /\ UNCHANGED <<fileVars, cat>>

\* A swapped-in object was moved: put it back, never overwriting.
RestoreForeign ==
  /\ pc = "restore"
  /\ IF RenameNoReplace(dst[cur], src[cur])
     THEN MoveBack(cur) /\ Goto("restoreSync", cur) /\ UNCHANGED <<mem, faults>>
     ELSE FailEntry("ApplyFailed") /\ UNCHANGED fileVars
  /\ UNCHANGED cat

\* The directory sync failed: the entry stays in flight.
SyncFails(next) == Fault /\ Goto(next, cur) /\ UNCHANGED <<unsynced, mem>>

RestoreSync ==
  /\ pc = "restoreSync"
  /\ \/ Synced(cur) /\ FailEntry("ApplyFailed")
     \/ SyncFails("inFlight")
  /\ UNCHANGED <<src, dst, cat>>

SyncForward ==
  /\ pc = "sync"
  /\ \/ Synced(cur) /\ Goto("commit", cur) /\ UNCHANGED <<mem, faults>>
     \/ SyncFails("inFlight")
  /\ UNCHANGED <<src, dst, cat>>

\* Mutant of LeaveInFlight: a failed sync is recorded as a clean failure.
FailUnsynced ==
  /\ pc = "inFlight"
  /\ FailEntry("ApplyFailed")
  /\ UNCHANGED <<fileVars, cat>>

LeaveInFlight ==
  /\ pc = "inFlight"
  /\ FailEntry("Applying")
  /\ UNCHANGED <<fileVars, cat>>

CommitForward ==
  /\ pc = "commit"
  /\ CatalogueCommit(cur, "dst", "record")
  /\ UNCHANGED fileVars

RecordApplied ==
  /\ pc = "record"
  /\ Checkpoint(SetEntry(mem.tx, cur, "Applied"), "entry", cur + 1)
  /\ UNCHANGED <<fileVars, cat>>

\* The unconditional last write, after the loop ended or was left.
FinishApply ==
  /\ pc = "finish" \/ (pc = "entry" /\ cur = N + 1)
  /\ Close([mem EXCEPT !.tx = IF @ = "Applying" THEN "Applied" ELSE @])
  /\ UNCHANGED <<fileVars, cat>>

----------------------------------------------------------------------------
(* Recovery: the filesystem decides what became of an in-flight entry.     *)

\* Mutant of NeedsReconciliation: only the transaction's own state counts.
ApplyingOnly == disk.tx = "Applying"

\* What the recovery page passes to reconcile_recovery.
NeedsReconciliation ==
  \/ disk.tx = "Applying"
  \/ \E i \in Entry : disk.st[i] \in InFlight

StartReconcile ==
  /\ op = "none" /\ NeedsReconciliation
  /\ op' = "reconcile" /\ pc' = "reconcile" /\ cur' = 1
  /\ mem' = disk
  /\ UNCHANGED <<fileVars, cat, disk, reviewVars, faults, envVars>>

Classify(i) ==
  CASE dst[i] = "foreign" -> "DestinationIdentityChanged"
    [] src[i] = "foreign" -> "SourceIdentityChanged"
    [] src[i] = "own" /\ dst[i] = "none" -> "RenameDidNotHappen"
    [] src[i] = "none" /\ dst[i] = "own" -> "RenameConfirmed"
    [] src[i] = "own" /\ dst[i] = "own" -> "BothSourceAndDestination"
    [] OTHER -> "BothAbsent"

Decisive == {"RenameDidNotHappen", "RenameConfirmed"}

\* Mutant of Reconciled: the intention is believed, not the filesystem.
ReconciledAsIntended(state, kind) ==
  IF state = "Applying" THEN "Applied" ELSE "RolledBack"

Reconciled(state, kind) ==
  IF kind = "RenameConfirmed" THEN "Applied"
  ELSE IF state = "Applying" THEN "Skipped" ELSE "RolledBack"

\* Mutant of Mutated: recovery settles without forcing the directories.
NeverMutated(state, kind) == FALSE

\* The rename the entry was in flight for is the one the filesystem shows.
Mutated(state, kind) ==
  kind = (IF state = "Applying" THEN "RenameConfirmed" ELSE "RenameDidNotHappen")

\* Mutant of CatalogueSide: recovery always completes the forward row.
AlwaysForward(kind) == "dst"

CatalogueSide(kind) == IF kind = "RenameConfirmed" THEN "dst" ELSE "src"

PassSettledEntry ==
  /\ pc = "reconcile" /\ cur \in Entry
  /\ mem.st[cur] \notin InFlight
  /\ Goto("reconcile", cur + 1)
  /\ UNCHANGED <<fileVars, cat, mem, faults>>

\* Directories first, then the catalogue, then the state of the copy.
ReconcileEntry ==
  LET kind == Classify(cur)
      syncedNow == IF Mutated(mem.st[cur], kind)
                   THEN [unsynced EXCEPT ![cur] = "no"] ELSE unsynced
      moved == CatalogueAt(cur, CatalogueSide(kind))
  IN
  /\ pc = "reconcile" /\ cur \in Entry
  /\ mem.st[cur] \in InFlight
  /\ \/ /\ kind \in Decisive
        /\ unsynced' = syncedNow /\ cat' = moved
        /\ mem' = SetEntry(mem.tx, cur, Reconciled(mem.st[cur], kind))
        /\ NoFault
     \/ \* the sync or the catalogue commit fails: unresolved
        /\ kind \in Decisive
        /\ Fault
        /\ \/ unsynced' = unsynced /\ cat' = cat
           \/ CatalogueBound /\ unsynced' = syncedNow /\ cat' \in {cat, moved}
        /\ UNCHANGED mem
     \/ /\ kind \notin Decisive
        /\ UNCHANGED <<unsynced, cat, mem, faults>>
  /\ Goto("reconcile", cur + 1)
  /\ UNCHANGED <<src, dst>>

\* reconcile_transaction_level_state
Promote(rec) ==
  IF rec.tx = "Applying" /\ \A i \in Entry : rec.st[i] \in {"Applied", "Skipped"}
  THEN [rec EXCEPT !.tx = "Applied"] ELSE rec

\* One write, only when something changed; Undo then goes on.
Publish ==
  LET rec == Promote(mem) IN
  /\ pc = "reconcile" /\ cur = N + 1
  /\ IF op = "undo"
     THEN IF rec = disk
          THEN Goto("undoStart", 0) /\ UNCHANGED <<mem, faults>>
          ELSE Checkpoint(rec, "undoStart", 0)
     ELSE IF rec = disk
          THEN ReturnOk /\ UNCHANGED <<disk, uses, envVars>>
          ELSE Close(rec)
  /\ UNCHANGED <<fileVars, cat>>

----------------------------------------------------------------------------
(* Undo.                                                                   *)

\* The sealed journal is authoritative: the fence adopts it.  A RolledBack
\* journal is answered without a change.
StartUndo ==
  /\ op = "none" /\ disk.tx \notin {"Absent", "RolledBack"}
  /\ op' = "undo" /\ pc' = "reconcile" /\ cur' = 1
  /\ mem' = disk
  /\ UNCHANGED <<fileVars, cat, disk, reviewVars, faults, envVars>>

\* Unresolved entries end the pass before anything is moved.
BeginUndo ==
  /\ pc = "undoStart"
  /\ IF \E i \in Entry : mem.st[i] \in InFlight
     THEN Close([mem EXCEPT !.tx = "RollbackFailed"])
     ELSE Checkpoint([mem EXCEPT !.tx = "RollingBack"], "undoEntry", N)
  /\ UNCHANGED <<fileVars, cat>>

CancelUndo ==
  /\ pc = "undoEntry" /\ cur \in Entry
  /\ Goto("undoFinish", 0)
  /\ UNCHANGED <<fileVars, cat, mem, faults>>

\* guarded_move_retry: an entry whose undo was refused is retried only when
\* its destination holds the reviewed object and its source is free.
Undoable(i) ==
  \/ mem.st[i] = "Applied"
  \/ mem.st[i] = "RollbackFailed" /\ src[i] = "none" /\ dst[i] = "own"

PassUndoEntry ==
  /\ pc = "undoEntry" /\ cur \in Entry
  /\ ~Undoable(cur)
  /\ Goto("undoEntry", cur - 1)
  /\ UNCHANGED <<fileVars, cat, mem, faults>>

\* RollingBack is written BEFORE the reverse rename.
CheckpointRollingBack ==
  /\ pc = "undoEntry" /\ cur \in Entry
  /\ Undoable(cur)
  /\ \/ /\ CatalogueReady(cur, "dst")
        /\ Checkpoint(SetEntry(mem.tx, cur, "RollingBack"), "undoProve", cur)
        /\ UNCHANGED cat
     \/ CatalogueRefuses(cur, "dst")
  /\ UNCHANGED fileVars

\* Mutant of RefuseUndo: a refused entry is left recorded as applied.
RefuseUndoSilently ==
  Checkpoint(SetEntry(mem.tx, cur, "Applied"), "undoEntry", cur - 1)

\* A clean refusal: the independent earlier entries continue.
RefuseUndo == Checkpoint(SetEntry(mem.tx, cur, "RollbackFailed"), "undoEntry", cur - 1)

UndoProved(i) == dst[i] = "own" /\ src[i] = "none"

\* Still the recorded object, and the original path is free; then the parent
\* directories are bound.
ProveUndo ==
  /\ pc = "undoProve"
  /\ \/ UndoProved(cur) /\ Goto("undoRename", cur) /\ UNCHANGED <<mem, faults>>
     \/ ~UndoProved(cur) /\ RefuseUndo
     \/ Fault /\ Goto("undoBindFailed", cur) /\ UNCHANGED mem
  /\ UNCHANGED <<fileVars, cat>>

RefuseUnboundUndo ==
  /\ pc = "undoBindFailed"
  /\ RefuseUndo
  /\ UNCHANGED <<fileVars, cat>>

RenameBack ==
  /\ pc = "undoRename"
  /\ IF RenameNoReplace(dst[cur], src[cur])
     THEN MoveBack(cur) /\ Goto("undoConfirm", cur) /\ UNCHANGED <<mem, faults>>
     ELSE RefuseUndo /\ UNCHANGED fileVars
  /\ UNCHANGED cat

\* Mutant of StopInFlight: the pass goes on past an entry left in flight.
PassInFlight ==
  Checkpoint(SetEntry(mem.tx, cur, "RollingBack"), "undoEntry", cur - 1)

\* The file has moved: an entry left in flight stops the pass.
StopInFlight == Checkpoint(SetEntry(mem.tx, cur, "RollingBack"), "undoFinish", 0)

ConfirmUndo ==
  /\ pc = "undoConfirm"
  /\ IF src[cur] = "own"
     THEN Goto("undoSync", cur) /\ UNCHANGED <<mem, faults>>
     ELSE StopInFlight
  /\ UNCHANGED <<fileVars, cat>>

SyncBack ==
  /\ pc = "undoSync"
  /\ \/ Synced(cur) /\ Goto("undoCommit", cur) /\ UNCHANGED <<mem, faults>>
     \/ SyncFails("undoStop")
  /\ UNCHANGED <<src, dst, cat>>

LeaveUndoInFlight ==
  /\ pc = "undoStop"
  /\ StopInFlight
  /\ UNCHANGED <<fileVars, cat>>

CommitBack ==
  /\ pc = "undoCommit"
  /\ CatalogueCommit(cur, "src", "undoRecord")
  /\ UNCHANGED fileVars

RecordRolledBack ==
  /\ pc = "undoRecord"
  /\ Checkpoint(SetEntry(mem.tx, cur, "RolledBack"), "undoEntry", cur - 1)
  /\ UNCHANGED <<fileVars, cat>>

\* Mutant of Incomplete: entries an earlier Undo refused do not count.
IncompleteThisPass(rec) == \E i \in Entry : rec.st[i] \in {"Applied", "RollingBack"}

\* Complete only when nothing is left applied, in flight or refused.
Incomplete(rec) ==
  \E i \in Entry : rec.st[i] \in {"Applied", "RollingBack", "RollbackFailed"}

FinishUndo ==
  /\ pc = "undoFinish" \/ (pc = "undoEntry" /\ cur = 0)
  /\ Close([mem EXCEPT !.tx = IF Incomplete(mem) THEN "RollbackFailed" ELSE "RolledBack"])
  /\ UNCHANGED <<fileVars, cat>>

----------------------------------------------------------------------------
(* The environment.                                                        *)

\* The user dismisses the review without applying it.
CancelReview ==
  /\ op = "none" /\ held
  /\ held' = FALSE
  /\ UNCHANGED <<fileVars, cat, disk, op, pc, cur, mem, uses, faults, envVars>>

\* Another program creates, replaces or removes what one path holds.
ExternalChange(i) ==
  /\ externals < MaxExternal
  /\ externals' = externals + 1
  /\ touched' = touched \cup {i}
  /\ \/ \E c \in {"none", "foreign"} \ {src[i]} :
          src' = [src EXCEPT ![i] = c] /\ UNCHANGED dst
     \/ \E c \in {"none", "foreign"} \ {dst[i]} :
          dst' = [dst EXCEPT ![i] = c] /\ UNCHANGED src
  /\ UNCHANGED <<unsynced, cat, disk, op, pc, cur, mem, reviewVars, faults, crashes>>

Stop ==
  /\ crashes < MaxCrashes /\ crashes' = crashes + 1
  /\ Return /\ held' = FALSE
  /\ UNCHANGED <<cat, disk, uses, faults, externals, touched>>

ProcessCrash == Stop /\ UNCHANGED fileVars

\* A rename that was never synced may be gone after a power loss.
Revertible(i) ==
  \/ unsynced[i] = "forward" /\ src[i] = "none"
  \/ unsynced[i] = "back" /\ dst[i] = "none"

PowerLoss(lost) ==
  /\ Stop
  /\ lost \subseteq {i \in Entry : Revertible(i)}
  /\ src' = [i \in Entry |-> IF i \in lost THEN dst[i] ELSE src[i]]
  /\ dst' = [i \in Entry |-> IF i \in lost THEN src[i] ELSE dst[i]]
  /\ unsynced' = [i \in Entry |-> "no"]

----------------------------------------------------------------------------

ApplyNext ==
  \/ JournalBatch \/ Commence \/ CancelApply \/ SkipEntry \/ RefuseEntry
  \/ CheckpointApplying \/ ReproveSource \/ RefuseUnbound \/ RenameForward
  \/ ConfirmRename \/ RestoreForeign \/ RestoreSync \/ SyncForward \/ LeaveInFlight
  \/ CommitForward \/ RecordApplied \/ FinishApply

ReconcileNext == PassSettledEntry \/ ReconcileEntry \/ Publish

UndoNext ==
  \/ BeginUndo \/ CancelUndo \/ PassUndoEntry \/ CheckpointRollingBack
  \/ ProveUndo \/ RefuseUnboundUndo \/ RenameBack \/ ConfirmUndo
  \/ SyncBack \/ LeaveUndoInFlight \/ CommitBack \/ RecordRolledBack \/ FinishUndo

OperationNext == ApplyNext \/ ReconcileNext \/ UndoNext

UserNext ==
  \/ \E mode \in {"AbortAll", "SkipUnsafeSubset"} : StartApply(mode)
  \/ StartUndo
  \/ CancelReview

EnvironmentNext ==
  \/ \E i \in Entry : ExternalChange(i)
  \/ ProcessCrash
  \/ \E lost \in SUBSET Entry : PowerLoss(lost)

Next == OperationNext \/ StartReconcile \/ UserNext \/ EnvironmentNext

Spec == Init /\ [][Next]_vars

----------------------------------------------------------------------------
(* Properties.                                                             *)

\* Every variable keeps its type, and an operation that is not running keeps
\* no step, no entry and no copy of the transaction.
TypeOK ==
  /\ src \in [Entry -> Content] /\ dst \in [Entry -> Content]
  /\ unsynced \in [Entry -> {"no", "forward", "back"}]
  /\ cat \in [Entry -> {"src", "dst"}]
  /\ disk \in Journal /\ mem \in Journal
  /\ op \in Operation
  /\ pc \in ApplyStep \cup ReconcileStep \cup UndoStep \cup {"idle"}
  /\ cur \in 0..N+1
  /\ held \in BOOLEAN /\ uses \in 0..MaxReviewUses
  /\ faults \in 0..MaxFaults /\ externals \in 0..MaxExternal
  /\ crashes \in 0..MaxCrashes
  /\ touched \subseteq Entry
  /\ (op = "none") <=> (pc = "idle")
  /\ op = "none" => cur = 0 /\ mem = Blank

AtSource(i) == src[i] = "own" /\ dst[i] = "none"
AtDestination(i) == src[i] = "none" /\ dst[i] = "own"

Away == {"Applying", "Applied", "RollingBack", "RollbackFailed"}
Home == {"Planned", "Skipped", "Applying", "ApplyFailed", "RollingBack", "RolledBack"}

\* The journal file brackets the truth about every entry no other program
\* touched: at each instant, also between a system call and the write that
\* records it and after any crash, a file at its destination is recorded as
\* applied or possibly in flight, and a file at its source as not applied or
\* possibly in flight (executor.rs:416-420).
JournalBrackets ==
  \A i \in Entry \ touched :
    \/ AtSource(i) /\ disk.st[i] \in Home
    \/ AtDestination(i) /\ disk.st[i] \in Away

\* The library catalogue names the path the journal settled on, whatever other
\* programs did: recovery and Undo commit the row before they record an entry
\* (database/organisation_paths.rs).
CatalogueFollowsJournal ==
  CatalogueBound =>
    \A i \in Entry :
      /\ disk.st[i] \in {"Applied", "RollbackFailed"} => cat[i] = "dst"
      /\ disk.st[i] \in {"Planned", "Skipped", "ApplyFailed", "RolledBack"} =>
           cat[i] = "src"

\* A settled record never outruns the durability of the rename it records
\* (executor.rs:735-752, reconcile.rs:208-236, rollback.rs:1290-1304).
RecordedIsDurable ==
  \A i \in Entry :
    /\ disk.st[i] = "Applied" => unsynced[i] # "forward"
    /\ disk.st[i] = "RolledBack" => unsynced[i] # "back"

\* At most one entry is in flight: a pass that leaves one behind stops, and no
\* later pass starts a second one before it is resolved.
OneInFlight ==
  \A i, j \in Entry :
    disk.st[i] \in InFlight /\ disk.st[j] \in InFlight => i = j

\* Once an entry failed or was left unapplied, no later entry has been started.
AppliedInOrder ==
  \A i, j \in Entry :
    i < j /\ disk.st[i] \in {"Planned", "ApplyFailed"} =>
      disk.st[j] \in {"Planned", "Skipped"}

\* One entry after the other: each pass stops at its first failure and at an
\* entry it leaves in flight (executor.rs:583-613, rollback.rs:484).
EntriesInOrder == OneInFlight /\ AppliedInOrder

\* A journal that says rolled back has every undisturbed file at its source.
RolledBackMeansHome ==
  disk.tx = "RolledBack" =>
    \A i \in Entry :
      /\ disk.st[i] \notin {"Applying", "Applied", "RollingBack", "RollbackFailed"}
      /\ i \notin touched => src[i] = "own"

\* No step of the program destroys or duplicates an object: it only moves what
\* a path holds to the entry's other path, and only when that one is empty.
NeverClobbers ==
  [][externals' = externals =>
      \A i \in Entry :
        \/ src'[i] = src[i] /\ dst'[i] = dst[i]
        \/ dst[i] = "none" /\ src'[i] = "none" /\ dst'[i] = src[i]
        \/ src[i] = "none" /\ dst'[i] = "none" /\ src'[i] = dst[i]]_vars

\* Write-ahead: the reviewed file leaves its source only while the journal file
\* says Applying, and its destination only while it says RollingBack.
\* A power loss that forgets an unsynced rename is not a move of the program.
WriteAhead ==
  [][crashes' = crashes /\ externals' = externals =>
      \A i \in Entry :
        /\ src[i] = "own" /\ src'[i] # "own" => disk.st[i] = "Applying"
        /\ dst[i] = "own" /\ dst'[i] # "own" => disk.st[i] = "RollingBack"]_vars

\* Undo reverses the latest applied entry first: a file goes back only when no
\* later entry is still recorded as applied.
ReverseOrder ==
  [][crashes' = crashes /\ externals' = externals =>
      \A i, j \in Entry :
        i < j /\ dst[i] = "own" /\ dst'[i] # "own" => disk.st[j] # "Applied"]_vars

\* An entry left in flight by a crash, a failed sync or a failed write does not
\* stay in flight unless another program interfered with it.
InFlightResolves ==
  \A i \in Entry : []<>(disk.st[i] \notin InFlight \/ i \in touched)

----------------------------------------------------------------------------
(* The refinement: what a reader of the journal and of the two paths sees. *)

Place ==
  [i \in Entry |-> IF i \in touched THEN "lost"
                   ELSE IF dst[i] = "own" THEN "away" ELSE "home"]

Claim ==
  [i \in Entry |-> IF disk.st[i] \in InFlight THEN "unsure"
                   ELSE IF disk.st[i] \in Away THEN "away" ELSE "home"]

Batch == INSTANCE ReversibleBatch WITH place <- Place, claim <- Claim

\* The executor, its recovery and its Undo together implement a reversible
\* batch: every step of theirs is one of its steps, or is invisible.
ImplementsBatch == Batch!Spec
=============================================================================
