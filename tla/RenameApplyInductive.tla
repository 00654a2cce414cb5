----------------------- MODULE RenameApplyInductive -----------------------
(***************************************************************************)
(* The inductive invariants behind the safety of RenameApply, proved in    *)
(* RenameApply_proofs, RenameApplyRecord_proofs and                        *)
(* RenameApplyBatch_proofs.                                                *)
(***************************************************************************)
EXTENDS RenameApply

\* The steps that work on entry cur before and after its rename.
BeforeRename == {"reprove", "bindFailed", "rename"}
AfterRename == {"confirm", "sync", "inFlight", "commit", "record"}
Restoring == {"restore", "restoreSync"}
BeforeReverse == {"undoProve", "undoBindFailed", "undoRename"}
AfterReverse == {"undoConfirm", "undoSync", "undoStop", "undoCommit", "undoRecord"}

EntryStep == BeforeRename \cup AfterRename \cup Restoring \cup BeforeReverse \cup AfterReverse

\* The entry index a step may be at.
CursorFits(step, k) ==
  /\ step \in EntryStep => k \in Entry
  /\ step \in {"entry", "reconcile"} => k \in 1..N+1
  /\ step = "undoEntry" => k \in 0..N

TypeInv == TypeOK /\ CursorFits(pc, cur)

\* What a journalled state s may say of an untouched entry i: an unsynced
\* rename, which a power loss may undo, is admitted by an in-flight state only.
EntryTrue(i, s) ==
  \/ /\ AtSource(i) /\ s \in Home
     /\ unsynced[i] = "no" \/ (unsynced[i] = "back" /\ s = "RollingBack")
  \/ /\ AtDestination(i) /\ s \in Away
     /\ unsynced[i] = "no" \/ (unsynced[i] = "forward" /\ s = "Applying")

Truthful(rec) == \A i \in Entry \ touched : EntryTrue(i, rec.st[i])

\* The entries from k on have not been attempted.
UntriedFrom(k, rec) == \A i \in k..N : rec.st[i] \in {"Planned", "Skipped"}

\* What an operation whose copy is rec knows when it stands at a step of entry k.
StepKnows(step, k, rec) ==
  /\ step \in {"journal", "commence"} =>
       \A i \in Entry : rec.st[i] \in {"Planned", "Skipped"}
  /\ step = "entry" => UntriedFrom(k, rec)
  /\ step \in BeforeRename \cup AfterRename \cup Restoring => UntriedFrom(k + 1, rec)
  /\ step \in BeforeRename =>
       rec.st[k] = "Applying" /\ (k \notin touched => AtSource(k))
  /\ step \in AfterRename =>
       rec.st[k] = "Applying" /\ (k \notin touched => AtDestination(k))
  /\ step \in Restoring => rec.st[k] = "Applying" /\ k \in touched
  /\ step = "restore" => dst[k] # "own"
  /\ step \in BeforeReverse =>
       rec.st[k] = "RollingBack" /\ (k \notin touched => AtDestination(k))
  /\ step \in AfterReverse =>
       rec.st[k] = "RollingBack" /\ (k \notin touched => AtSource(k))
  /\ step \in {"commit", "record", "undoCommit", "undoRecord"} =>
       (k \notin touched => unsynced[k] = "no")

\* An intention is in the journal before anything is moved.
Announced == pc \in EntryStep => disk.st[cur] = mem.st[cur]

\* Nothing is recorded before the review is applied for the first time.
FreshUntilApplied == uses = 0 => disk = Blank /\ pc = "idle"

\* The inductive invariant: the journal and the running copy are both truthful.
TruthInv ==
  /\ Truthful(disk)
  /\ pc # "idle" => Truthful(mem)
  /\ StepKnows(pc, cur, mem)
  /\ Announced
  /\ FreshUntilApplied

IInv == TypeInv /\ TruthInv

----------------------------------------------------------------------------
(* Durability *)

\* The state an entry is recorded in, in the journal and in the copy, while a
\* step works on it.
RecordedAs(state) == disk.st[cur] = state /\ mem.st[cur] = state

StepRecorded ==
  /\ pc \in BeforeRename \cup AfterRename \cup Restoring => RecordedAs("Applying")
  /\ pc \in BeforeReverse \cup AfterReverse => RecordedAs("RollingBack")

\* A reversal starts from a durable rename and may be refused with it.
DurableRec(rec) ==
  \A i \in Entry :
    /\ rec.st[i] \in {"Applied", "RollingBack", "RollbackFailed"} => unsynced[i] # "forward"
    /\ rec.st[i] = "RolledBack" => unsynced[i] # "back"

DurableInv ==
  /\ StepRecorded
  /\ DurableRec(disk) /\ DurableRec(mem)
  /\ pc \in {"commit", "record", "undoCommit", "undoRecord"} => unsynced[cur] = "no"

----------------------------------------------------------------------------
(* Undo *)

UndoLoop == {"undoEntry"} \cup BeforeReverse \cup AfterReverse

\* Undo works on what the journal says, and has left nothing applied above it.
OrderInv ==
  /\ pc \in UndoLoop =>
       /\ disk = mem
       /\ \A j \in Entry : j > cur => mem.st[j] # "Applied"
  /\ pc = "restore" => dst[cur] # "own"

NothingLeft(rec) ==
  \A i \in Entry : rec.st[i] \notin {"Applying", "Applied", "RollingBack", "RollbackFailed"}

\* Only the end of an Undo writes RolledBack, and no operation starts from it.
SettledInv ==
  /\ disk.tx = "RolledBack" => NothingLeft(disk)
  /\ mem.tx # "RolledBack"
  /\ pc \in UndoLoop \cup {"undoFinish"} => \A i \in Entry : mem.st[i] # "Applying"

----------------------------------------------------------------------------
(* One entry after the other *)

OnlyFlight(rec) ==
  \A i, j \in Entry : rec.st[i] \in InFlight /\ rec.st[j] \in InFlight => i = j

\* No entry is in flight, or none but entry k.
NoFlight(rec) == \A i \in Entry : rec.st[i] \notin InFlight
FlightAt(k, rec) == \A i \in Entry \ {k} : rec.st[i] \notin InFlight

Stopped == {"Planned", "ApplyFailed"}
Unstarted == {"Planned", "Skipped"}

StartedInOrder(rec) ==
  \A i, j \in Entry : i < j /\ rec.st[i] \in Stopped => rec.st[j] \in Unstarted

\* Apply has settled every entry before k and has not started those after it.
PassedBelow(k, rec) == \A i \in Entry : i < k => rec.st[i] \notin Stopped

ApplyWork == BeforeRename \cup AfterRename \cup Restoring
UndoWork == BeforeReverse \cup AfterReverse

OrderKnows(step, k, rec) ==
  /\ step \in {"journal", "commence"} => \A i \in Entry : rec.st[i] \in Unstarted
  /\ step = "entry" => NoFlight(rec) /\ PassedBelow(k, rec) /\ UntriedFrom(k, rec)
  /\ step \in ApplyWork =>
       /\ FlightAt(k, rec) /\ PassedBelow(k, rec) /\ UntriedFrom(k + 1, rec)
       /\ rec.st[k] = "Applying"
  /\ step = "undoEntry" => NoFlight(rec)
  /\ step \in UndoWork => FlightAt(k, rec) /\ rec.st[k] = "RollingBack"

InOrder(rec) == OnlyFlight(rec) /\ StartedInOrder(rec)

SequenceInv == InOrder(disk) /\ InOrder(mem) /\ OrderKnows(pc, cur, mem)

----------------------------------------------------------------------------
(* The library catalogue *)

Forward == {"Applied", "RollbackFailed"}
Backward == {"Planned", "Skipped", "ApplyFailed", "RolledBack"}

CatRec(rec) ==
  \A i \in Entry :
    /\ rec.st[i] \in Forward => cat[i] = "dst"
    /\ rec.st[i] \in Backward => cat[i] = "src"

\* Which path the catalogue names while a step works on entry k.
NamesSource == {"reprove", "bindFailed", "rename", "confirm", "undoRecord"} \cup Restoring
NamesDestination == BeforeReverse \cup {"record"}

RowKnown(step, k) ==
  /\ step \in NamesSource => cat[k] = "src"
  /\ step \in NamesDestination => cat[k] = "dst"

CatalogueInv ==
  CatalogueBound =>
    /\ CatRec(disk) /\ (pc # "idle" => CatRec(mem))
    /\ RowKnown(pc, cur)
    /\ pc = "reconcile" =>
         \A i \in Entry : mem.st[i] \in InFlight => disk.st[i] \in InFlight

----------------------------------------------------------------------------
(* The refinement *)

Classed(s) == IF s \in InFlight THEN "unsure" ELSE IF s \in Away THEN "away" ELSE "home"

SameClaims(r1, r2) == \A i \in Entry : Classed(r1.st[i]) = Classed(r2.st[i])

\* The running copy makes the journal's claims; only recovery is ahead of it,
\* about what the journal leaves unsure.
ClaimInv ==
  /\ pc \notin {"idle", "reconcile"} => SameClaims(disk, mem)
  /\ pc = "reconcile" =>
       \A i \in Entry : mem.st[i] = disk.st[i] \/ disk.st[i] \in InFlight
=============================================================================
