----------------------------- MODULE ExactResume -----------------------------
(***************************************************************************)
(* Exact resume (core dat/rename_apply/exact_resume.rs): the DAT page      *)
(* continues an interrupted Apply under the approval its journal carries.  *)
(* It shares the mutation of an entry with Apply and everything else in    *)
(* RenameApply goes on around it: recovery on every frame, Undo, crashes.  *)
(*                                                                         *)
(* The approval (ExactResumeEnvelope) never changes, and only the page     *)
(* whose plan still matches it offers a resume; what changes is the        *)
(* checkpoint stored beside it.                                            *)
(***************************************************************************)
EXTENDS RenameApply

\* Batches with an envelope are the DAT page's, which bind no catalogue rows.
ASSUME EnvelopeAssumption == ~CatalogueBound

VARIABLE checkpoint  \* ExactResumeState in the journal file

resumeVars == <<vars, checkpoint>>

\* Pending, Failed and Interrupted leave the batch "Resumable".
Checkpoints == {"Resumable", "Completed", "NotResumable"}

ResumeInit == Init /\ checkpoint = "Resumable"

Rolled == {"RollingBack", "RolledBack", "RollbackFailed"}

AllApplied(rec) == \A i \in Entry : rec.st[i] = "Applied"

-----------------------------------------------------------------------------
(* Writes: the checkpoint is part of the journal.                          *)

Persist(rec, mark) ==
  \/ disk' = rec /\ checkpoint' = mark /\ NoFault
  \/ Fault /\ UNCHANGED <<disk, checkpoint>>

\* Write rec and return; what is returned does not matter to the page's state.
ResumeClose(rec, mark) ==
  /\ \/ Persist(rec, mark)
     \/ Fault /\ disk' = rec /\ checkpoint' = mark
  /\ ReturnErr
  /\ UNCHANGED <<uses, envVars>>

-----------------------------------------------------------------------------
(* From the button to the first checkpoint.                                *)

\* Mutant of MayResume: a reversal does not count as settled.
MayResumeReversed ==
  /\ disk.tx # "Absent"
  /\ checkpoint = "Resumable"
  /\ ~(disk.tx = "Applied" /\ AllApplied(disk))

\* inspect_exact_resume answers Available, for a transaction that
\* find_rollbackable_transactions lists.
MayResume ==
  /\ disk.tx \notin Rolled \cup {"Absent"}
  /\ disk.tx = "Applied" => \E i \in Entry : disk.st[i] = "Applied"
  /\ checkpoint = "Resumable"
  /\ ~(disk.tx = "Applied" /\ AllApplied(disk))

StartResume ==
  /\ op = "none" /\ MayResume
  /\ op' = "resume" /\ pc' = "observe" /\ cur' = 0
  /\ mem' = disk
  /\ UNCHANGED <<fileVars, cat, disk, reviewVars, faults, envVars, checkpoint>>

\* What the two paths prove about an entry, whatever the journal says of it.
Observed(i) ==
  CASE src[i] = "own" /\ dst[i] = "none" -> "Planned"
    [] src[i] = "none" /\ dst[i] = "own" -> "Applied"
    [] OTHER -> "unproved"

\* Mutant of Durable: what is seen at the destination is recorded unforced.
SeenOnly(proved) == unsynced

\* confirm_durable
Durable(proved) ==
  [i \in Entry |-> IF i \in proved /\ Observed(i) = "Applied" THEN "no" ELSE unsynced[i]]

\* reconcile_exact_entries: all paths are looked at first, or nothing is
\* recorded.  Then the entries before the first that is not proved, or whose
\* rename cannot be made durable, take the state that was seen.
ResumeObserve ==
  /\ pc = "observe"
  /\ \/ \E k \in 1..N+1 :
          /\ \A i \in 1..k-1 : Observed(i) # "unproved"
          /\ IF k \in Entry /\ Observed(k) # "unproved"
             THEN Observed(k) = "Applied" /\ Fault ELSE NoFault
          /\ unsynced' = Durable(1..k-1)
          /\ mem' = [mem EXCEPT !.st =
                       [i \in Entry |-> IF i < k THEN Observed(i) ELSE mem.st[i]]]
          /\ Goto(IF k \in Entry THEN "refuse" ELSE "begin", 0)
     \/ /\ Fault /\ ReturnErr
        /\ UNCHANGED <<unsynced, disk, uses, envVars>>
  /\ UNCHANGED <<src, dst, cat, checkpoint>>

\* refuse: for good.
ResumeRefuse ==
  /\ pc = "refuse"
  /\ ResumeClose(mem, "NotResumable")
  /\ UNCHANGED <<fileVars, cat>>

ResumeBegin ==
  /\ pc = "begin"
  /\ IF AllApplied(mem)
     THEN ResumeClose([mem EXCEPT !.tx = "Applied"], "Completed")
     ELSE /\ Checkpoint([mem EXCEPT !.tx = "Applying"], "entry", 1)
          /\ UNCHANGED checkpoint
  /\ UNCHANGED <<fileVars, cat>>

-----------------------------------------------------------------------------
(* The loop over what is not applied yet.                                  *)

AtEntry == op = "resume" /\ pc = "entry" /\ cur \in Entry
Pending == AtEntry /\ mem.st[cur] # "Applied"

ResumePass ==
  /\ AtEntry /\ mem.st[cur] = "Applied"
  /\ Goto("entry", cur + 1)
  /\ UNCHANGED <<fileVars, cat, mem, faults, checkpoint>>

\* Mutant of ResumeCancel: a cancelled loop falls through to its end.
ResumeCancelThrough ==
  /\ Pending
  /\ ResumeClose([mem EXCEPT !.tx = "Applied"], "Completed")
  /\ UNCHANGED <<fileVars, cat>>

ResumeCancel ==
  /\ Pending
  /\ ResumeClose([mem EXCEPT !.tx = "ApplyFailed"], "Resumable")
  /\ UNCHANGED <<fileVars, cat>>

\* A failed preflight ends the resume and forbids another.
ResumeConflict ==
  /\ Pending /\ ~PreflightOK(cur)
  /\ ResumeClose(SetEntry("ApplyFailed", cur, "ApplyFailed"), "NotResumable")
  /\ UNCHANGED <<fileVars, cat>>

ResumeEntry ==
  /\ Pending /\ PreflightOK(cur)
  /\ Checkpoint(SetEntry(mem.tx, cur, "Applying"), "reprove", cur)
  /\ UNCHANGED <<fileVars, cat, checkpoint>>

\* apply_mutation_in and the checkpoint that follows it.
Mutation ==
  /\ op = "resume"
  /\ \/ ReproveSource \/ RefuseUnbound \/ RenameForward \/ ConfirmRename
     \/ RestoreForeign \/ RestoreSync \/ SyncForward \/ LeaveInFlight
     \/ CommitForward \/ RecordApplied
  /\ UNCHANGED checkpoint

\* A failed mutation was recorded with the transaction; there is no last write.
ResumeFails ==
  /\ op = "resume" /\ pc = "finish"
  /\ ReturnErr /\ NoFault
  /\ UNCHANGED <<fileVars, cat, disk, uses, envVars, checkpoint>>

ResumeFinish ==
  /\ op = "resume" /\ pc = "entry" /\ cur = N + 1
  /\ ResumeClose([mem EXCEPT !.tx = "Applied"], "Completed")
  /\ UNCHANGED <<fileVars, cat>>

ResumeStep ==
  \/ ResumeObserve \/ ResumeRefuse \/ ResumeBegin \/ ResumePass \/ ResumeCancel
  \/ ResumeConflict \/ ResumeEntry \/ Mutation \/ ResumeFails \/ ResumeFinish

-----------------------------------------------------------------------------
(* Around a resume.                                                        *)

\* The other operations keep the checkpoint, but for an Apply that reached its
\* end, with entries of an unsafe subset skipped or not.
Ordinary(A) ==
  /\ op # "resume" /\ A
  /\ checkpoint' = IF op = "apply" /\ disk' # disk /\ disk'.tx = "Applied"
                   THEN "Completed" ELSE checkpoint

\* The user renames the reviewed file by hand, in either direction; `unsynced'
\* tells of the program's own renames.
MoveByHand(i) ==
  /\ externals < MaxExternal
  /\ externals' = externals + 1
  /\ touched' = touched \cup {i}
  /\ RenameNoReplace(src[i], dst[i]) \/ RenameNoReplace(dst[i], src[i])
  /\ src' = [src EXCEPT ![i] = dst[i]]
  /\ dst' = [dst EXCEPT ![i] = src[i]]
  /\ unsynced' = [unsynced EXCEPT ![i] = "no"]
  /\ UNCHANGED <<cat, disk, op, pc, cur, mem, reviewVars, faults, crashes>>

ResumeNext ==
  \/ Ordinary(Next)
  \/ StartResume \/ ResumeStep
  \/ op = "resume" /\ EnvironmentNext /\ UNCHANGED checkpoint
  \/ \E i \in Entry : MoveByHand(i) /\ UNCHANGED checkpoint

ResumeSpec == ResumeInit /\ [][ResumeNext]_resumeVars

\* A running operation keeps running, and the page reconciles on every frame
\* (dat_sources_page.rs poll); Apply, resume and Undo wait for the user.
FairResumeSpec ==
  /\ ResumeSpec
  /\ WF_resumeVars(Ordinary(OperationNext) \/ ResumeStep)
  /\ WF_resumeVars(Ordinary(StartReconcile))

-----------------------------------------------------------------------------
(* Properties.                                                             *)

\* "Any rollback state is settled: reconciliation would reset reversed entries
\* to Planned and resume would replay them" (exact_resume.rs:338): once an Undo
\* has begun, no Apply, recovery or resume takes the journal out of the
\* rollback states or moves a file forward again.
ReversalIsFinal ==
  [][disk.tx \in Rolled =>
       /\ disk'.tx \in Rolled
       /\ crashes' = crashes /\ externals' = externals =>
            \A i \in Entry : src[i] = "own" => src'[i] = "own"]_resumeVars

\* A resume that reports completion has not skipped anything, whatever crashes,
\* recoveries and earlier failures left: every entry is recorded as applied,
\* every undisturbed file is at its destination and its rename is durable.
ResumeSettles ==
  [][op = "resume" /\ checkpoint' = "Completed" =>
       /\ AllApplied(disk')
       /\ \A i \in Entry :
            /\ i \notin touched => AtDestination(i)
            /\ i \notin touched => unsynced[i] = "no"]_resumeVars
=============================================================================
