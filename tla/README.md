# A TLA+ model of EmuWiz

EmuWiz (crates `archivefs-core`, `archivefs-cli`, `archivefs-gui`) identifies and
organises a collection of game files. Nearly everything it does is reading and
deciding; what can hurt the user is the small part that *changes* things: moving
files, recording what was moved, taking it back, and picking up after a crash.
This directory models that part, checks it with TLC and proves the core of it
with TLAPS. Paths below are relative to `src/crates/archivefs-core/src/` unless
they start with `gui:` (`src/crates/archivefs-gui/src/`).

## 1. Inventory

| Component | State it keeps | Operations | Interacts with | What makes it correct |
|---|---|---|---|---|
| Shared executor `dat/rename_apply/{executor,rollback,reconcile}.rs` | the running copy of a transaction; the files | Apply, recovery, Undo | journal, catalogue, file system, page | no file lost or overwritten; the journal never lies about a file; Undo restores everything or says what is left |
| Journal `dat/rename_apply/{journal,model}.rs` | one JSON file per transaction; the in-process live registry | write, read, list, leave untouched, remove, finalise | seal store, executor, pages | a write is all or nothing; recovery and an operation never write the same journal at once |
| Seals `dat/rename_apply/seal.rs` | a SQLite row per journal: committed and pending generation and digest | begin, commit, verify, forget | every journal write | a crash between the steps never makes an honest journal untrusted, and a foreign one never becomes trusted |
| Catalogue rows `database/organisation_paths.rs` | rows that name a file's path | begin, commit, in recovery too | executor | the row follows the file |
| DAT page `gui:dat_sources_page.rs` | the review, the running job, the recovery list | review, confirm, cancel, undo, resume, reconcile on each frame | executor | a batch is applied as reviewed, once |
| Exact resume `dat/rename_apply/exact_resume.rs` | the approval envelope and its checkpoint in the journal | inspect, observe, resume, refuse for good | executor, journal, recovery, Undo | resumes only what was approved and proved, and nothing that was taken back; a completed resume has skipped nothing |
| Links, copies, replacements `dat/rename_apply/{dirsync,copy,replacement}.rs` | quarantine names, tombstones, retained originals | create, undo, finalise | executor | an object it did not create is never removed |
| ROM organisation, repair, MAME reconstruction, publisher profiles | created folders, staging | batches through the executor | executor | as the executor, and their own folders are removed only when empty |
| Conversion queue `conversion_queue/durable.rs` | `queue.json`, its lock, the owner's snapshot; each attempt's staging and journal folder | open, enqueue, start, run, retry, cancel, prune | windows, converter, Repair transactions | no publication lost, repeated or misreported; destinations reserved; nothing runs unasked |
| Queue controller `gui:gui_v2/wiiu_disc/queue.rs` | per window an inbox, a worker, what Start authorised | send a command, cancel what runs, leave | the queue, its user | no command lost; a cancel stops the job it was meant for; the queue is given back |
| Database restore `database/restore.rs` | live, staged, emergency and superseded databases; a receipt per reviewed restore; the exclusion | restore, roll back, settle an interrupted receipt | the library database, two windows | a commit is never out of reach; receipts tell what became of the database |
| Patch output `patch_output_recovery.rs`, `standalone_patch.rs` | the output, its provenance receipt, a temporary file and a journal per attempt | publish, resume, roll back, dismiss | two pages, other programs | an output always has its receipt and journal; nobody's file is replaced or removed |
| Restore guard, save snapshots | leases, snapshot trees | acquire, restore, roll back | emulators | a restore and an emulator never write at once |
| Everything else (identification, scanning, pages, CLI) | caches, views | reading | – | pure functions or presentation; not for a model checker |

Hard behaviours: a process crash or power loss between any two system calls;
other programs changing the same folders; a directory sync, a journal write or a
database commit that fails, or succeeds and is reported as failed; a user who
cancels, repeats or goes back; a recovery that runs on the page's every frame.
`PROJECT.json` lists them as hazards, each at the line where it bites.

## 2. Plan

1. `RenameApply` – the executor for moves: Apply, recovery, Undo, catalogue,
   page; `ReversibleBatch` – what it promises; the inductive invariants and the
   first theorems. **Done.**
2. `JournalSeal`, `LiveRegistry`, `JournalAccess` – the write protocol of a
   journal, the registry of who works on it, and the threads that do; theorems:
   recovery never overlaps an operation, an honest journal is always trusted, a
   confirmed write is never lost, an Undo replaces only what it judged. **Done.**
3. `ConversionQueue`, `ConversionController` – the durable queue and the windows
   that work on it. **Done.**
4. `DatabaseRestore` – restore, its two rollbacks and the settlement of
   interrupted receipts, from two windows. **Done.**
5. `PatchOutput` – the publication of a patched file and its recovery. **Done.**
6. `ExactResume` – exact resume around everything in `RenameApply`. **Done.**
7. Every safety property the runs check of `RenameApply`, and that it implements
   `ReversibleBatch`, as theorems. **Done.**
8. Every safety property of the queue, of the patch output, of the threads on a
   journal and of the database restore as theorems. **Done.** `ResumeSettles` and the
   theorems about `RenameApply` with a resume around it. Next.
9. `JournalAccess` extended with `remove_journal` and `forget` and with two
   processes; `RenameApply` with `reenter_recovery_reconciliation`, links and
   replacements with Finalise; the memory card restore guard, save snapshots, MAME
   staging.

## 3. Modules

* `RenameApply` – state machine of one batch of `N` moves.
* `RenameApplyInductive` – its inductive invariants.
* `ReversibleBatch` – the abstract specification: per entry a place and a durable
  claim. `RenameApply` instantiates it (`Batch`) with `Place` and `Claim`.
* `RenameApply_proofs` (types, and that the journal is truthful),
  `RenameApplyRecord_proofs` (it is durable, in order, and the catalogue follows it),
  `RenameApplyBatch_proofs` (moves, Undo, the refinement) – TLAPS proofs.
* `JournalSeal` – one journal file and its row in the seal store: the steps of a
  journal write. `LiveRegistry` – the guards of the in-process registry.
* `JournalAccess` – composes the two with the threads that apply, undo, recover
  and leave a transaction; `JournalAccessInductive` – its inductive invariants.
* `JournalAccess_proofs` – TLAPS proofs.
* `ExactResume` – extends `RenameApply` with the checkpoint and the actions of a
  resume; everything of `RenameApply` goes on around it.
* `ConversionQueue` – the queue library, the conversion of one attempt and the
  Repair transaction that publishes it. `ConversionController` extends it with the
  windows that use it. `ConversionInductive` – their inductive invariant;
  `Conversion_proofs` – TLAPS proofs.
* `PatchOutput` – the publication of a patched file and its recovery.
  `PatchOutputInductive` – its inductive invariant; `PatchOutput_proofs` – TLAPS
  proofs.
* `DatabaseRestore` – restore, rollback and settlement. `DatabaseRestoreInductive` –
  its inductive invariants; `DatabaseRestore_proofs` (types, no commit is lost),
  `DatabaseRestoreTrue_proofs` (the receipts are true) – TLAPS proofs.
* `MCRenameApply`, `MCExactResume`, `MCJournalAccess`, `MCConversion`,
  `MCDatabaseRestore`, `MCPatchOutput` – what TLC runs; their `.cfg` files give the
  bounds.

### RenameApply and the code

| Variable | In the code |
|---|---|
| `src`, `dst` | what the entry's source and destination path hold: nothing, the object whose identity was captured in the review (`identity_matches`), or another |
| `unsynced` | a rename issued on bound directories and not yet fsynced (`RenameDirs::sync_and_verify`) |
| `cat` | which path the `archives` row names, when the entry carries a catalogue binding |
| `disk` | the journal file: transaction state and entry states; `Absent` before the first write |
| `op`, `pc`, `cur`, `mem` | the running function, where it is, its loop index, its `RenameTransaction` |
| `held`, `uses` | `apply_review` of the page and how often it was confirmed |
| `faults`, `externals`, `crashes`, `touched` | bookkeeping of the bounds, and which entries other programs touched |

A step of the model is one system call, database commit or journal write with
the control flow up to the next. So a check and the mutation it guards are
different steps (`ProveUndo` and `RenameBack`, `ReproveSource` and
`RenameForward`), and another program or a crash may come between them.

* **Apply** (`apply_transaction_inner`): `StartApply` preflights the whole batch
  in either `HardConflictMode`; `JournalBatch` and `Commence` write the Planned
  and the Applying journal; each entry goes through `CheckpointApplying`,
  `ReproveSource`, `RenameForward`, `ConfirmRename`, `SyncForward`, `CommitForward`,
  `RecordApplied`; `FailEntry` leaves the loop, and `FinishApply` is the
  unconditional last write. `RestoreForeign` and `RestoreSync` are
  `restore_failed_rename`.
* **Recovery** (`reconcile_owned`): `ReconcileEntry` classifies an in-flight entry
  from its two paths, syncs, commits the catalogue row and settles the copy;
  `Publish` promotes the transaction and writes once, only if something changed.
* **Undo** (`rollback_transaction_inner`): `StartUndo` adopts the journal, runs the
  same recovery, then goes backwards through `CheckpointRollingBack`, `ProveUndo`,
  `RenameBack`, `ConfirmUndo`, `SyncBack`, `CommitBack`, `RecordRolledBack`. A clean
  refusal continues with the next entry, an uncertain one stops the pass.
* **Failures**: each journal write may fail, with the file replaced or not
  (`write_journal` commits the seal after the file); syncs, binding and commits
  may fail; COMMIT may succeed and be reported as failed.
* **Environment**: another program removes or replaces what a path holds; the
  process dies; the power fails and any set of unsynced renames is forgotten.

Abstractions: identities, names and journal contents are reduced to what the
guards compare. A redirected ancestor directory appears only as a failed binding
or sync. For a move both paths are in one directory (the page uses
`DirectoryPolicy::SameDirectory`), so a rename is forgotten or kept as a whole.
Forgetting the journal's own rename after a power loss is not modelled. One
operation runs at a time in `RenameApply`; `JournalAccess` says when that is so.

### JournalAccess and the code

| Variable | In the code |
|---|---|
| `file`, `seal` | the journal on disk, and its row of `journal_seals` (generation, digest, pending generation, pending digest; NULL is 0 or `None`) |
| `live`, `reconciling`, `undoing` | `LIVE_STATE`: who holds a `LiveTransactionGuard`, a `ReconcileGuard`, an `UndoSerialGuard`, per process |
| `task`, `pc` | the function a thread runs on this transaction, and where it is |
| `copy`, `next`, `intent` | its `RenameTransaction`, the record `write_journal` got, the generation of its `Intent` |
| `acked` | history: the edits of every record whose `write_journal` returned Ok |
| `unread` | history: recoveries that settled the copy they had listed because the journal, by then another, could not be read |

A journal is the set of edits it records: who announced which entry as in flight
("moving"), who settled it, and how. That is all the properties tell apart: a
write that loses an edit, adopts a foreign one or settles twice is visible, and
the digest of a record is the record. An Apply or Undo goes through its entries
in some order with one announcement and one outcome each (`NextEdits`); what it
does to files in between is `RenameApply`'s.

* `write_journal` is `Begin` (one immediate transaction: classify, refuse or
  record the intent), `Write` (the atomic replacement, which may fail, or land and
  report a failure when the folder's binding is checked afterwards) and `Commit`
  (one UPDATE, refused when its generation is no longer pending).
* `MarkLive` waits for the recoveries of its process, `Serialise` for another
  organisation Undo; `ClaimRecovery` refuses a live transaction, `Reread` a copy
  that is no longer the journal, if it can read the journal; if it cannot, it goes
  on from the copy, as `if let Ok(current)` does (`reconcile.rs:109`).
* `Validate` is `JournalFence::validate`, the adoption of the sealed journal and
  the Undo's own reconciliation; `CheckFence` is the comparison before every write
  of a pass. Verifying the seal and reading the file are one step.
* `LeaveUntouched` reads and writes without a claim, as
  `resolve_leave_untouched` does, under the conditions of its button.
* `ListRecovery` takes journals with entries in flight. A page also passes one
  that only the transaction's state calls Applying; its recovery writes like any
  other and adds no case here.
* A page starts one worker at a time (`PageIdle`). Which thread belongs to which
  page is a constant; a worker its page has abandoned (`abandon_apply_work`) no
  longer counts for the page, so it is a page of its own.
* A crash ends all threads of a process and its registry. Another program may
  remove the journal or put one of its own in its place.

### ExactResume and the code

`checkpoint` is `ExactResumeState`: `Pending`, `Failed` and `Interrupted` are one value,
`Resumable`, because `inspect_exact_resume` answers the same for the three. A
resume is one more value of `op`, and works on `mem` like the others.

* `MayResume` is `inspect_exact_resume` for a transaction the page lists
  (`is_rollbackable`). That the envelope matches the current plan is the page's
  condition for the button; a resume that is never offered is a resume the user
  does not start.
* `ResumeObserve` is `reconcile_exact_entries`: every path is looked at before any
  state changes; entries take the state that was seen, in order, up to the first
  that proves nothing or whose directories cannot be forced. `ResumeRefuse` then
  writes `NotResumable`, for good, also when it was only a failed sync (as the test at
  `exact_resume.rs:905` expects); when a path cannot be looked at nothing is written.
* `Mutation` is `apply_mutation_in` with the checkpoint after it: the same actions as
  in Apply. Unlike Apply a failed resume has no last write (`ResumeFails`), and a
  failed preflight forbids another resume (`ResumeConflict`).
* `Ordinary` is everything else: only an Apply that reaches its end changes the
  checkpoint. `MoveByHand` is the user who renames a reviewed file in a file manager,
  in either direction; `unsynced` tells of the program's own renames only.

One operation runs at a time here too. Between the page's reading of the journal
and its worker's `mark_transaction_live` an Undo from another page could pass; the
worker judges the copy the page gave it. That window is not modelled.

### ConversionQueue, ConversionController and the code

| Variable | In the code |
|---|---|
| `disk`, `synced` | `queue.json` as it is read, and as it survives a power loss |
| `owner`, `mem`, `poisoned` | the window whose worker holds the directory lock, its `snapshot`, its poisoned flag |
| `run` | `run_next` in progress: converting, publication announced or published, its Undo, settling |
| `cancel` | each window's cancellation flag |
| `journal`, `staging` | the Repair journal in an attempt's `journal_dir`, and whether its `staging_root` exists |
| `output`, `source` | what is at each destination, and each source against its review |
| `cmds`, `alive`, `active` | `Inbox`: commands that wait, whether a worker owns them, the job that runs |
| `worker`, `through` | where the worker is, and the order up to which Start authorised |
| `sent`, `user`, `troubles` | bounds, and what the user asked for |

`Commit` has the four outcomes of `commit`: refused for its size, not written, written
but not forced, durable; the second and third poison the queue until it is opened
again. A job's plan is named by its destination; nested destinations, which also
exclude each other, are reduced to equal ones. A publication is the journal of its
Repair transaction reduced to what `publication_settled_without_output` and Undo tell
apart; how a transaction gets there is `RenameApply`'s subject. `RepairUndo` is the
Repair page's Undo; it refuses an attempt that is running in the process that runs it.
A power loss brings `queue.json` back to its last durable version while journals and
outputs stay. Messages from the worker to the window, progress and the view are left
out: a user may send any command about any job, as from a stale card. `MaxSequence`
stands for the exhaustion of the `u64`.

### DatabaseRestore and the code

| Variable | In the code |
|---|---|
| `disk`, `durable` | which inode each name beside the database has, and the receipts; as read and as a power loss leaves them |
| `data` | the content of each inode; a hash is the content. Commits have numbers, and the backup of a plan a content of its own: no two plans restore the same bytes, and no backup has the bytes of a commit |
| `lock` | the holder of `RestoreExclusion` |
| `plan`, `held` | the reviewed restore a page keeps, and a completed receipt reviewed for rollback |
| `task` | what each window's worker does, where it is, and its receipt |
| `confirms`, `uses`, `troubles`, `displaced` | bounds, and which contents an exchange took off the live path |

In `disk`, `effect`, `since` and `stale` are history: what the restore did to the live
database, whether another restore overtook the interrupted receipt, and whether
Finalise settled it from a copy it had read before it took the exclusion. Each
receipt write, copy, sync and exchange is a step. One directory sync, a
receipt's too, makes earlier exchanges durable; a power loss keeps all or none of
what came after the last sync, or the exchange without the receipts after it. A
new file may get the inode of a removed one, which is what identity checks by inode
must survive. A page holds one review at a time; the older window keeps a plan
whose rollback failed (`Keeping`).

### PatchOutput and the code

| Variable | In the code |
|---|---|
| `directory` | the states of the folder since its last sync: destination, provenance receipt, each attempt's temporary file and journal |
| `changed` | whether the source or the patch is no longer the reviewed one |
| `apply` | each attempt's step and its journal in memory |
| `plans`, `recover` | the recovery a page has reviewed, and what its worker does |
| `troubles` | bound |
| `unread` | history: attempts whose receipt a rollback could not read |

A rollback removes the output, the temporary file and the receipt (`RemoveAll`); a
receipt it cannot read counts as another's and stays (`LeaveReceipt`). Wherever a
file is judged by its hash, a failed read makes it differ (`Mismatches`), as
`verify_file` does. Looking a path up is taken to answer: reads, writes, links, syncs
and removals fail.

A power loss goes back to any state in the sequence; a journal write that syncs makes
it one state again. A retry prepares the same bytes, so the destination's hash does
not tell whose output it is: `dest` names the attempt only for the properties, the
guards compare what the code does. Other programs only create a file at the
destination, where there is none: that another program replaces an output between its
verification and its removal is not modelled. Writers of the first journal schema appear only as what recovery accepts
of it. `Together` says whether an attempt or a recovery may start while another works.

## 4. Runs

Deadlock checking is off: the system rightly stops when the batch or the queue is
finished and the budgets are spent.

| Run | Bounds | Checks |
|---|---|---|
| `safety` | 3 entries, catalogue, 2 faults, 1 change, 2 crashes | type invariant, `CatalogueFollowsJournal`, `EntriesInOrder`, the refinement `ImplementsBatch` |
| `resume` | 2 entries, 2 faults, 2 changes, 2 crashes, fair | `JournalBrackets`, `RecordedIsDurable`, `RolledBackMeansHome`, `NeverClobbers`, `WriteAhead`, `ReverseOrder`, `ReversalIsFinal`, `ResumeSettles`, `InFlightResolves` |
| `worker` | Apply/Undo worker, 2 recoveries; 2 entries, 2 faults, 2 crashes, 1 failed read | type invariant, `RecoveryExcluded`, `HonestStaysTrusted`, `NothingLost` |
| `external` | Undo, the page's recovery or Leave; 1 fault, 2 changes, 2 crashes, 1 failed read | `NeverAdopted` |
| `organise` | 2 organisation Undos, 1 recovery; 1 entry, fair | `FenceHolds`, `TasksEnd` |
| `conversion` | 2 windows, 2 destinations, 2 jobs, 2 attempts, 4 sequence numbers, 3 commands, 2 troubles, fair | type invariant, `PublicationIsRecorded`, `OnePublication`, `DestinationsReserved`, `OutcomesAreTrue`, `NoLostCommand`, `RestartReads`, `OnlyWhatWasStarted`, `EvidenceKept`, `WorkersLeave` |
| `restore` | 2 windows, 2 restores confirmed once, 1 use of the library, 5 files, 2 troubles | type invariant, `NoCommitLost`, `ReceiptsAreTrue`, `ClassifiedTruly`, `RollbackStaysPossible` |
| `patch` | 2 attempts, 2 recovery workers one at a time, 3 troubles | type invariant, `OutputIsRecorded`, `TerminalIsTrue`, `PublishedIsOffered`, `NeverClobbers` |
| `leave` | an Apply and Leave untouched | *violated*: disagreement 1 |
| `unread` | a worker beside a recovery; 2 entries, 1 failed read | *violated*: disagreement 2 |
| `kept_plan` | 1 restore confirmed twice, 2 troubles | *violated*: disagreement 3 |
| `patch_race` | 1 attempt beside a recovery | *violated*: disagreement 4 |

Two faults and two crashes are enough for a fault during the recovery of an
earlier one, and for a crash during the Undo or the resume that follows a crash
during Apply. Two changes let another program occupy a path and free it again, let
the user move a file away and back, or disturb both paths of an entry. Three entries
put one between a refused or failed entry and the end of the pass; the relations the
other properties state are between an entry and an earlier or later one.
`ImplementsBatch` and `EntriesInOrder` are not promised of a resume, which settles
several disturbed entries at once and may apply an earlier entry later.

In the runs of `JournalAccess` two crashes let one fall between the steps of a
write and another into the write that builds on its pending generation; two
recoveries beside a worker are the DAT page's and History's, which also run
beside each other. `Outcomes` has one element where recoveries are to agree and
two where they may not. `MaxUnread` bounds the recoveries that go on from an older
copy; `unread` (disagreement 2) shows what such a one destroys, and `HonestStaysTrusted`,
`NeverAdopted` and `NothingLost` are promised of the states before it. The run
`organise` has none, only because liveness would take too long: `FenceHolds` is proved
with any number of them. The runs of a page with its own Undo start from the
journal of an Apply that died with an entry in flight.

In the runs of the queue one window gives every command and the other opens the
queue, which is what can take the lock away. Two attempts are what a retry needs,
and what exhausts it. In `restore` two plans make one receipt overtake another; each
is confirmed once, because confirming a kept plan again is what `kept_plan` shows to
fail. In `patch` nobody starts while another works, because the opposite is what
`patch_race` shows to fail; the code does not enforce it. A failed read of a receipt is
one of its three troubles; `TerminalIsTrue` lets the journal of that rollback be untrue
about the receipt, and about nothing else.

In the passing runs of `RenameApply` a review is applied at most once
(`MaxReviewUses = 1`), because a second use breaks the journal (the fourth of the other
disagreements). So what they check of reversals is about resume, recovery and Undo, not
about a review applied again; likewise only `kept_plan` confirms a restore twice.

### Disagreements shown by a run

1. `leave`: `journal.rs:571-574` says Leave untouched writes everything back
   unchanged. The page offers it while its Apply runs, and it then writes back an
   older record.
2. `unread`: `reconcile.rs:105-107` compares the listed copy with the journal because
   reconciling an older one would write it back over an operation's result. When the
   journal cannot be read at that moment the comparison is skipped, and the recovery
   does write it back: an entry a worker had announced is no longer in the journal.
3. `kept_plan`: a restore whose rollback failed can be confirmed again with the plan
   the page kept. The new try overwrites the receipt that named the original and the
   emergency backup, contrary to `restore.rs:41-43`.
4. `patch_race`: a recovery may start for a publication that is still running; the
   publication then writes over the terminal journal that should remain as history.

### Other disagreements found while modelling

The models exclude or record these; no run is spent on them.

1. `dat/rename_apply/model.rs:35` says `Applied` means that every requested entry was
   renamed. A crash between the Applying checkpoint and the rename makes recovery
   record the entry `Skipped` and then promote the batch to `Applied`.
2. `model.rs:126` says a `Completed` checkpoint means that every approved operation is
   confirmed. An Apply of a safe subset stores it with entries skipped
   (`executor.rs:619-623`); a later resume is refused as inconsistent. `ResumeSettles` is
   therefore stated of a resume only.
3. `model.rs:361-365` counts `ApplyFailed` entries as never applied. When a file
   appears at the source path between a rename and its confirmation, the entry is
   recorded `ApplyFailed` with its file at the destination; Undo passes it by.
4. `executor.rs:293-296` says a rolled back batch is refused before any journal write,
   for every caller. The refusal looks at the caller's copy. After an Apply that
   ended in an error the page keeps its Planned review (`gui:dat_sources_page.rs`
   3846-3857); once the batch has been recovered and undone, confirming that review
   again writes it over the rolled-back journal and applies it once more. With
   `MaxReviewUses = 2` and one failed write TLC finds this for a single entry. Confirmed
   as a safe subset before the Undo, the same copy records `Skipped` over an entry that
   was moved.
5. `seal.rs:13-14` says a crash leaves the journal equal to the committed or the
   pending digest. `begin_reconcile` refuses an operation but not another
   recovery; two recoveries that found an entry differently, a second intent over the
   first and a crash leave a file that is neither. For the same reason `NeverAdopted`
   is checked with one recovering page.
6. `rollback.rs:203-205` says a changed journal is never overwritten from memory.
   Two Undos from two pages pass their fences and write one over the other; only
   organisation Undos are serialised.
7. `database/restore.rs:1405-1408` says Finalise cannot settle from a stale receipt. It
   reads the receipt before it takes the exclusion (1418-1419); `stale` marks such
   receipts and the properties exempt them. A receipt that another restore overtook
   while it was interrupted (`since`) cannot be told either.
8. A patch publication that dies while its journal is Planned or Preparing, or between
   linking the provenance receipt and announcing the publication, needs a review
   that has no button, and the page refuses the destination. Rollback removes the
   temporary file before the terminal state is written, contrary to
   `docs/PATCH_OUTPUT_DURABLE_RECOVERY.md:25-26`.
9. A rollback of a patch output that cannot read the provenance receipt leaves it, as if
   it were another's, and still records `RolledBack` (`patch_output_recovery.rs:878-886`).
   No recovery looks at that journal again, and the receipt that stayed refuses every
   later attempt at the same destination.
10. `docs/design/DURABLE_CONVERSION_QUEUE.md:111-112` permits the retry of a stopped
   conversion once its Repair transaction is rolled back, and `gui:gui_v2/wiiu_disc/queue.rs`
   77 sends the user there first. The page offers the retry by the disposition stored when
   the job stopped (922), which nothing refreshes, not even opening the queue again:
   `DurableConversionQueue::retry` would accept, and the destination stays reserved.

### Fairness

`FairResumeSpec` assumes weak fairness of the steps of an operation or resume – a
worker thread that runs keeps running – and of `StartReconcile`: `poll` calls `refresh_recovery` on every
frame (`gui:dat_sources_page.rs` 4011-4018) and so keeps reconciling what needs
it. Nothing is assumed of the user. `InFlightResolves` exempts entries another
program disturbed: those wait for a manual review by design. Fault and crash
budgets make failures finite, without which no recovery could be promised.

`JournalAccess` assumes weak fairness of what a started task does without waiting
and strong fairness of the two waits: they are loops on one condition variable
that every released guard notifies, so a waiter may find the claim taken again,
but not for ever if it is free again and again. Nothing makes a page list or a
user start anything. The run `organise` has one recovering page.

The queue's `FairSpec` assumes weak fairness of each window's worker thread. The
converter ends, one way or the other; the user sends finitely many commands.

## 5. Proofs

Of `RenameApply`, for any number of entries, faults, interferences, crashes and power
losses:

| theorem | review applied | what holds | inductive invariant |
|---|---|---|---|
| `TypeCorrect` | any number of times | `TypeOK` | `TypeInv` |
| `NeverClobbersCorrect` | any number of times | `NeverClobbers`: no object is destroyed or duplicated | `TypeInv` |
| `ReverseOrderCorrect` | any number of times | `ReverseOrder`: Undo reverses the latest applied entry first | `OrderInv` |
| `RecordedIsDurableCorrect` | any number of times | `RecordedIsDurable`: a settled record is beyond the reach of a power loss | `DurableInv` |
| `EntriesInOrderCorrect` | any number of times | `EntriesInOrder`: one entry in flight, none started behind a failed one | `SequenceInv` |
| `JournalBracketsCorrect` | at most once | `JournalBrackets`: a file at its destination is recorded as applied or possibly in flight, one at its source as not applied or possibly in flight, at every instant | `IInv` |
| `WriteAheadCorrect` | at most once | `WriteAhead`: a file is moved only under its journalled intention | `IInv` |
| `CatalogueFollowsJournalCorrect` | at most once | `CatalogueFollowsJournal`: the catalogue names the path the journal settled on | `IInv`, `CatalogueInv` |
| `RolledBackMeansHomeCorrect` | at most once | `RolledBackMeansHome`: rolled back means nothing left applied, every undisturbed file home | `IInv`, `SettledInv` |
| `ImplementsBatchCorrect` | at most once | `ImplementsBatch`: every step is a step of `ReversibleBatch` or invisible | `IInv`, `SequenceInv`, `ClaimInv` |

"At most once" is the assumption `MaxReviewUses \in {0, 1}`, the restriction explained
above. The first five need no such
assumption: a review applied twice makes the
journal forget what it moved, but not by losing an object, an order or a sync.

`JournalBrackets` is not inductive. A journal may say Applying while the running
copy is about to say ApplyFailed, and only knowing where the operation stands tells
whether that is true; and a power loss moves a file without a write. `IInv` adds:
the running copy is truthful as well as the file (`Truthful`); an unsynced rename
is admitted only by the in-flight state that announces it (`EntryTrue`), so
forgetting it leads to a truthful record again; what each step knows of its
entry and of the ones after it (`StepKnows`); the intention is in the journal
throughout (`Announced`); and nothing is recorded before the review's first use
(`FreshUntilApplied`), which is where applying it twice fails.

The proof has one step per action, grouped by what an action does to the files:
checkpoints write the copy and so need its truth; moves happen only between an
in-flight record on both sides; external changes only take entries out of the
claim.

The other invariants add what each property alone does not say of the states
between. `DurableInv`: both records call the entry at hand in flight while it is
worked on, and a record that follows a sync finds nothing unsynced. `SequenceInv`:
at which steps nothing is in flight, at which only the entry at hand, and that
Apply has settled everything before it. `CatalogueInv`: which path the catalogue names
at which step; the row moves only while the entry is in flight in both records, when
no record speaks about it. `OrderInv` and `SettledInv`: Undo works on the journal
itself, with nothing applied above its cursor and nothing in flight forwards.

For the refinement, `ClaimInv` says that the running copy makes the same claims as
the journal, except that recovery is ahead of it about what the journal leaves
unsure. So a write changes one claim (`OneSwitch`), from or to unsure, also when
recovery publishes all its results at once: `SequenceInv` leaves it only one entry
to resolve. A claim given up is an `Announce` because nothing else is in flight, a
claim made is a true `Settle` because the new journal is truthful, a rename is a `Move`
because its entry is in flight in the journal, and a power loss is a `Move` because
only the one entry in flight can be unsynced.

These theorems are about `RenameApply`; `ExactResume` has more behaviours, and for them
the run `resume` checks six of the properties.

About the threads on one journal, for any set of threads, any assignment of tasks,
pages and processes, and any bounds:

* `RecoveryExcludedCorrect`: `Spec => []RecoveryExcluded`. The invariant,
  `RegistryInv`, says at which steps a task holds which guard and that a process
  never holds operation and recovery guards together.
* `HonestStaysTrustedCorrect`: `Spec => []HonestStaysTrusted`;
  `NothingLostCorrect`: `Spec => []NothingLost`;
  `FenceHoldsCorrect`: `Spec => FenceHolds`. These three assume `SerialWriters`: one
  process, no Leave untouched, at most one thread that applies or undoes unless
  all Undos are serialised, and recoveries that agree. What happens without the
  second is disagreement 1, without the third and the fourth the sixth and the
  fifth of the others; no run has two processes. The first two also assume that
  `None` is no record, and say nothing once a recovery went on without having read
  the journal (`unread`), which is disagreement 2; the third holds then too.
* `NeverAdoptedCorrect`: `Spec => []NeverAdopted`. It assumes `OnePageSettles`: an
  earlier run sealed the journal and left it, and in one process one page recovers it,
  leaves it or undoes it; it too says nothing after a failed read; a journal with no seal row at all is adopted by the
  recovery that lists it if it disappears again before the write (`SealCheck`
  "absent"), two recoveries are the fifth of the others, and an organisation Undo beside a
  Leave untouched is the interleaving of disagreement 1.

The invariants are `SealInv` – the file is what the seal records or announces,
every writer past its intent is the announced one, and writers at the same time
are recoveries with the same record – `KeptInv` – an operation's copy holds everything
confirmed – and `FenceInv` – an Undo that writes has the journal itself as its copy.
The step that needs thought is a recovery that claims while another is writing:
it saw an entry in flight, so the other has not yet replaced the file
(`SettledClosed`: a settled record has none in flight), so both copies are that
file and both records the same.

`AdoptInv`, for `NeverAdopted`, says that an alien record is in nobody's hands past
its intent. A recovery or a Leave may hold one and be about to announce it; then
the file is still alien or gone (`WriterClean`), because nobody else writes: an
operation would have excluded the recovery (`RegistryInv`) or is kept from starting
by the page. So its intent is refused.

About the conversion queue, for any windows, ids, destinations, attempts, commands and
troubles, under no assumption but those on the constants:

| theorem | what holds |
|---|---|
| `QueueTypeCorrect` | `TypeOK` |
| `PublicationIsRecordedCorrect` | `PublicationIsRecorded`: an output is that of the last attempt the durable file records, or of a pruned job |
| `OnePublicationCorrect` | `OnePublication`: at most one publication of a job is not rolled back |
| `DestinationsReservedCorrect` | `DestinationsReserved`: unfinished jobs have different destinations |
| `OutcomesAreTrueCorrect` | `OutcomesAreTrue`: cancelled and completed are what the user did and what happened |
| `RestartReadsCorrect` | `RestartReads`: the file can always be opened again |
| `NoLostCommandCorrect` | `NoLostCommand`: a command has a worker |
| `OnlyWhatWasStartedCorrect` | `OnlyWhatWasStarted`: a conversion starts only on what the last Start saw |
| `EvidenceKeptCorrect` | `EvidenceKept`: no step forgets or reopens an attempt |

All follow from one invariant, `QueueInv`. Its heart is `Sound`, said of three
snapshots at once – the file, its last durable version and the owner's copy – against
the same journals, outputs and cancellations: the snapshot is valid, its unfinished
jobs have destinations of their own, and the evidence fits each job (`JobEvident`:
only the last attempt may have a publication in doubt, only its output may stand, and
no attempt the snapshot does not know of has any evidence). That every snapshot is
sound is what makes a power loss harmless, and what makes it inductive is `RunInv`:
evidence changes only while an attempt runs, and then its record is durable
(`synced = mem`). A job of an older snapshot is told from a pruned one by the sequence
number, which no snapshot lowers. `WorkerInv` says which window has which part of the
inbox and the lock, `OwnerInv` that the authorised range lies before everything
queued later and that a selected job is still the first.

About the patch output, for any attempts, workers and troubles, when an attempt or a
recovery starts only while nothing else works (`Separate`, that is `~Together`; the
run `patch_race` shows what happens otherwise):

| theorem | what holds |
|---|---|
| `TypeCorrect` | `TypeOK` |
| `OutputIsRecordedCorrect` | `OutputIsRecorded`: an output is announced, with both hashes, and has its receipt |
| `TerminalIsTrueCorrect` | `TerminalIsTrue`: completed and rolled back are true of the directory, but for a receipt a rollback could not read |
| `PublishedIsOfferedCorrect` | `PublishedIsOffered`: an interrupted publication is offered for resuming |
| `NeverClobbersCorrect` | `NeverClobbers`: the destination appears only where nothing is |

The first four hold of every state a power loss may go back to, so the invariant,
`RecordInv`, says `Sound` of every directory in the sequence, and of the newest one what
each attempt (`AttemptKnows`) and each recovery (`RecoveryKnows`) has made true by the
step it is at. `Sound` survives a power loss because the sequence only loses a suffix;
an attempt or recovery does not outlive it.

About the database restore, for any windows, plans, files, commits and troubles:

| theorem | when | what holds |
|---|---|---|
| `RestoreTypeCorrect` | always | `TypeOK`: also that the live path always has a file and no file two names |
| `NoCommitLostCorrect` | one restorer, each plan once | `NoCommitLost`: what an exchange took off the live path is in a file some receipt names |
| `RollbackStaysPossibleCorrect` | one restorer, each plan once | `RollbackStaysPossible`: an unused completed restore passes the review of a rollback |
| `ReceiptsAreTrueCorrect` | one restorer, each plan once | `ReceiptsAreTrue`: a terminal receipt says what became of the live database, also after a power loss |
| `ClassifiedTrulyCorrect` | one restorer, each plan once | `ClassifiedTruly`: an interrupted receipt is classified as what really happened |

"One restorer" is `OneRestorer`: all windows but one only roll back, as in the code, where
Blue has no restore and no finalise. "Each plan once" is `ConfirmedOnce`,
that is `MaxConfirms \in {0, 1}`; the run `kept_plan` shows a commit lost without it.

`TypeLockInv` says at which steps a worker holds the exclusion, and that a name about to
be exchanged has a file: who holds the exclusion is the only one that may take a
name out of use. `KeptInv` is about copies of a receipt, because every one of them – on
disk, as it survives a power loss, a worker's, a page's – may become the receipt on disk:
a recovery writes what it read earlier, a refused rollback what its page held. So it
says the same of all copies of a plan's receipt (`GoodCopy`): a copy that knows the staged
replacement also names a safety backup that is in the directory, durably, and holds the
content the plan expects (`Secured`). No step takes that away, because a name no copy
mentions is the only one reserved (`NamesApart`: the safety backup of a plan is never what
another removes), and because only the file at the live path is written. Before
an exchange both receipts know the replacement and the live database is what the plan
expects (`StepAt`); after it every copy does (`Gone`), since each plan is confirmed once and
nobody else works on the plan of a running restore (`AloneAt`). So a content that is no
longer live has its receipt.

`TrueInv` is about what the receipts say. A power loss leaves the directory as it is, as
it is durable, or torn: the names of the one with the receipts of the other (`Torn`). So it
asks of all three that every receipt, terminal or interrupted, is judged rightly by the file
that is then live (`JudgedPair`): a terminal receipt is true, and `assess_receipt` of an
interrupted one gives the restore's real effect (`Judge`). That survives an exchange only
because a receipt of another restore is either one no file judges (`Fixed`) or is marked as
overtaken, and because before an exchange no durable receipt lags behind that would be
judged otherwise (`LagOf`): the worker has just had its own receipt and every earlier one
synced. What each worker knows by its step of its receipt on disk and of the live file is
`RunInv`. A rollback starts from the content of the live database and not from its inode; that the
live database is then really this restore follows from `TowerInv`: the restores in
force lie on each other, each on the content its plan expected, and the last is live. There the
assumption that a plan's content is no commit's and no other plan's is used
(`RestoreAssumption`).

Only model-checked: exact resume, and all liveness (fairness and ENABLED are outside the
prover's reach).

## 6. Not modelled

* Of the executor: symlink, hard link, copy and replacement entries, Finalise,
  `reenter_recovery_reconciliation`; journal removal and `forget`; compact recovery and
  the writer gate; a power loss that forgets the journal's own rename; two EmuWiz
  processes on one journal (the registry is per process); created folders.
* Of exact resume: malformed envelopes and other format versions, which only refuse.
* Of the queue: the codec, the view, nested destinations, a plan reviewed anew after
  its source changed.
* Of the database: taking, listing and pruning backups, `journal_state.rs`, what
  SQLite's own recovery does, schema changes, backups with the same bytes as one
  another or as the live database.
* Of patching: `shared_transaction.rs`, `patch_output_recovery/tree.rs`, composition
  provenance.
* MAME staging, the memory card restore guard, save snapshots, ES-DE coordination
  and emulator updates are state machines too and are left for later; the remaining
  components marked `not_modelled` in `PROJECT.json` have their reason there.
