---------------------------- MODULE PatchOutput ----------------------------
(***************************************************************************)
(* Publishing the output of a standalone patch and recovering what was     *)
(* interrupted (core patch_output_recovery.rs, standalone_patch.rs and the *)
(* two pages that run them).  Operations write one output: the destination *)
(* and its provenance receipt are shared, the journal and the temporary    *)
(* file are an operation's own.  A retry prepares the same bytes, so the   *)
(* destination's hash does not tell whose output it is; a receipt's does.  *)
(*                                                                         *)
(* The directory is the sequence of what it was since it was last synced.  *)
(***************************************************************************)
EXTENDS Naturals, Sequences, SequencesExt

CONSTANTS Ops,         \* attempts to create the output
          Workers,     \* the pages' recovery workers
          Together,    \* does a worker start while another one runs?
          MaxTroubles  \* bound: failed calls, kills and power losses

ASSUME PatchAssumption ==
  /\ Together \in BOOLEAN
  /\ MaxTroubles \in Nat
  /\ {"absent", "other"} \cap Ops = {}

VARIABLES directory,  \* its states since the last sync, the present one last
          changed,    \* is the source or the patch no longer the reviewed one?
          apply,      \* the step of each attempt, and its journal in memory
          plans,      \* the recovery each page has reviewed
          recover,    \* what each recovery worker does
          unread,     \* the attempts whose receipt a rollback could not read
          troubles

vars == <<directory, changed, apply, plans, recover, unread, troubles>>

Disk == Last(directory)

States == {"none", "planned", "preparing", "prepared", "verifying_temporary",
           "publishing", "published", "verifying_published", "completed",
           "failed", "rolling_back", "rolled_back", "rollback_failed"}
Terminal == {"completed", "rolled_back"}
\* Mutant of Announced: the state written while the output is verified is not
\* one of them.
AnnouncedBriefly == {"publishing", "published"}

Announced == {"publishing", "published", "verifying_published"}

Journals == [state : States,
             output : BOOLEAN,     \* expected_output_sha256 is recorded
             receipt : BOOLEAN]    \* provenance_sha256 is recorded

NoJournal == [state |-> "none", output |-> FALSE, receipt |-> FALSE]

Directories ==
  [dest : {"absent", "other"} \cup Ops,
   receipt : {"absent"} \cup Ops,
   temp : [Ops -> {"absent", "partial", "whole"}],
   journal : [Ops -> Journals]]

Actions == {"resume", "rollback", "dismiss"}
NoPlan == [op |-> "none", action |-> "none", state |-> "none", matches |-> FALSE]
Idle == [at |-> "", op |-> "none", journal |-> NoJournal]
Ready == [at |-> "", journal |-> NoJournal]

ApplySteps == {"", "preparing", "producing", "announcing", "writing", "finalising",
               "failing", "publishing", "linking", "recording", "verifying",
               "checking", "cleaning"}
RecoverSteps == {"", "complete", "announce", "link", "record", "verify", "clean",
                 "roll back", "remove dest", "remove temp", "remove receipt",
                 "give up", "drop temp", "drop receipt", "finish"}

TypeOK ==
  /\ directory # <<>>
  /\ \A i \in DOMAIN directory : directory[i] \in Directories
  /\ changed \in BOOLEAN
  /\ \A o \in Ops : apply[o] \in [at : ApplySteps, journal : Journals]
  /\ \A w \in Workers :
       /\ plans[w] = NoPlan \/ (plans[w].op \in Ops /\ plans[w].action \in Actions)
       /\ recover[w].at \in RecoverSteps /\ recover[w].journal \in Journals
       /\ recover[w].at = "" <=> recover[w] = Idle
  /\ unread \subseteq Ops
  /\ troubles <= MaxTroubles

Init ==
  /\ directory = <<[dest |-> "absent", receipt |-> "absent",
                    temp |-> [o \in Ops |-> "absent"],
                    journal |-> [o \in Ops |-> NoJournal]]>>
  /\ changed = FALSE
  /\ apply = [o \in Ops |-> Ready]
  /\ plans = [w \in Workers |-> NoPlan]
  /\ recover = [w \in Workers |-> Idle]
  /\ unread = {}
  /\ troubles = 0

-----------------------------------------------------------------------------
(* The directory.                                                          *)

Spend(n) == troubles' = troubles + n /\ troubles' <= MaxTroubles

Becomes(d) == directory' = Append(directory, d)

\* write_journal: replaced and the directory synced, not replaced, or replaced
\* without the sync.  The last two are errors.
Writes == {"ok", "lost", "unsynced"}

WriteJournal(o, journal, result) ==
  LET d == [Disk EXCEPT !.journal[o] = journal] IN
  /\ Spend(IF result = "ok" THEN 0 ELSE 1)
  /\ directory' = CASE result = "ok" -> <<d>>
                    [] result = "lost" -> directory
                    [] result = "unsynced" -> Append(directory, d)

\* remove_owned_artifact, of a file that may be absent.
Removed(d, o, part) ==
  CASE part = "dest" -> [d EXCEPT !.dest = "absent"]
    [] part = "temp" -> [d EXCEPT !.temp[o] = "absent"]
    [] part = "receipt" -> [d EXCEPT !.receipt = "absent"]

\* Nobody works on the output, unless pages are used together.
MayStart == Together \/ (/\ \A o \in Ops : apply[o].at = ""
                         /\ \A w \in Workers : recover[w].at = "")

-----------------------------------------------------------------------------
(* apply_standalone_patch and publish_durable_patch_output.                *)

At(o, at) == apply[o].at = at
Same == UNCHANGED <<changed, plans, recover, unread>>

\* transition: a failed write ends the attempt with the journal as it is.
Transition(o, journal, next) ==
  \E result \in Writes :
    /\ WriteJournal(o, journal, result)
    /\ apply' = [apply EXCEPT ![o] =
                   IF result = "ok" THEN [at |-> next, journal |-> journal] ELSE Ready]

\* The failure is recorded if it can be; the attempt ends.
Fail(o) ==
  /\ \E result \in Writes :
       WriteJournal(o, [apply[o].journal EXCEPT !.state = "failed"], result)
  /\ apply' = [apply EXCEPT ![o] = Ready]

\* The output and its receipt must be absent.
Begin(o) ==
  /\ MayStart
  /\ At(o, "") /\ Disk.journal[o].state = "none"
  /\ ~changed
  /\ Disk.dest = "absent" /\ Disk.receipt = "absent"
  /\ Transition(o, [NoJournal EXCEPT !.state = "planned"], "preparing")
  /\ Same

Prepare(o) ==
  /\ At(o, "preparing")
  /\ Transition(o, [apply[o].journal EXCEPT !.state = "preparing"], "producing")
  /\ Same

\* The decoder's bytes are hashed, or it fails.
Produce(o) ==
  /\ At(o, "producing")
  /\ \/ Transition(o, [apply[o].journal EXCEPT !.state = "prepared", !.output = TRUE],
                   "announcing")
     \/ Fail(o)
  /\ Same

AnnounceTemporary(o) ==
  /\ At(o, "announcing")
  /\ Transition(o, [apply[o].journal EXCEPT !.state = "verifying_temporary"], "writing")
  /\ Same

\* Created without clobbering, written, synced and verified.
WriteTemporary(o) ==
  /\ At(o, "writing")
  /\ \/ /\ Disk.temp[o] = "absent"
        /\ Becomes([Disk EXCEPT !.temp[o] = "whole"])
        /\ apply' = [apply EXCEPT ![o].at = "finalising"]
        /\ UNCHANGED troubles
     \/ /\ Spend(1)
        /\ \E left \in {"absent", "partial", "whole"} :
             Becomes([Disk EXCEPT !.temp[o] = left])
        /\ apply' = [apply EXCEPT ![o].at = "failing"]
  /\ Same

\* The source is hashed again (the patch is not), the receipt is linked without
\* clobbering and its hash is kept in memory.
FinaliseReceipt(o) ==
  /\ At(o, "finalising")
  /\ \/ /\ Disk.receipt = "absent"
        /\ Becomes([Disk EXCEPT !.receipt = o])
        /\ apply' = [apply EXCEPT ![o] = [at |-> "publishing",
                                         journal |-> [@.journal EXCEPT !.receipt = TRUE]]]
        /\ UNCHANGED troubles
     \/ /\ changed \/ Disk.receipt # "absent"
        /\ apply' = [apply EXCEPT ![o].at = "failing"]
        /\ UNCHANGED <<directory, troubles>>
     \/ /\ Spend(1)
        /\ \/ UNCHANGED directory
           \/ Disk.receipt = "absent" /\ Becomes([Disk EXCEPT !.receipt = o])
        /\ apply' = [apply EXCEPT ![o].at = "failing"]
  /\ Same

RecordFailure(o) == At(o, "failing") /\ Fail(o) /\ Same

\* Mutant of AnnouncePublication: the output is linked first.
AnnounceLater(o) ==
  /\ At(o, "publishing")
  /\ apply' = [apply EXCEPT ![o].at = "linking", ![o].journal.state = "publishing"]
  /\ UNCHANGED <<directory, troubles>>
  /\ Same

\* The receipt's hash is durable before the output appears.
AnnouncePublication(o) ==
  /\ At(o, "publishing")
  /\ Transition(o, [apply[o].journal EXCEPT !.state = "publishing"], "linking")
  /\ Same

\* Mutant of CanLink: rename instead of hard_link.
CanRename == TRUE

\* hard_link never replaces a file.
CanLink == Disk.dest = "absent"

Link(o) ==
  /\ At(o, "linking")
  /\ \/ /\ CanLink /\ Disk.temp[o] # "absent"
        /\ Becomes([Disk EXCEPT !.dest = o])
        /\ apply' = [apply EXCEPT ![o].at = "recording"]
        /\ UNCHANGED troubles
     \/ /\ CanLink => Disk.temp[o] = "absent"
        /\ apply' = [apply EXCEPT ![o].at = "failing"]
        /\ UNCHANGED <<directory, troubles>>
     \/ Spend(1) /\ apply' = [apply EXCEPT ![o].at = "failing"] /\ UNCHANGED directory
  /\ Same

RecordPublished(o) ==
  /\ At(o, "recording")
  /\ Transition(o, [apply[o].journal EXCEPT !.state = "published"], "verifying")
  /\ Same

AnnounceVerification(o) ==
  /\ At(o, "verifying")
  /\ Transition(o, [apply[o].journal EXCEPT !.state = "verifying_published"], "checking")
  /\ Same

\* verify_file: a file that cannot be read does not match either.
Mismatches(matches) ==
  \/ ~matches /\ UNCHANGED troubles
  \/ matches /\ Spend(1)

\* The output is verified by its content.
Complete(o) ==
  /\ At(o, "checking")
  /\ \/ /\ Disk.dest \in Ops
        /\ Transition(o, [apply[o].journal EXCEPT !.state = "completed"], "cleaning")
     \/ /\ Mismatches(Disk.dest \in Ops)
        /\ apply' = [apply EXCEPT ![o] = Ready]
        /\ UNCHANGED directory
  /\ Same

Clean(o) ==
  /\ At(o, "cleaning")
  /\ \/ Becomes(Removed(Disk, o, "temp")) /\ UNCHANGED troubles
     \/ Spend(1) /\ UNCHANGED directory
  /\ apply' = [apply EXCEPT ![o] = Ready]
  /\ Same

-----------------------------------------------------------------------------
(* inspect_patch_output_operation                                          *)

\* A receipt whose hash is not recorded yet is recognised by what it says once
\* the publication was announced (legacy_provenance_hash).
ReceiptMatches(o) ==
  IF Disk.journal[o].receipt THEN Disk.receipt = o
  ELSE Disk.journal[o].state \in Announced /\ Disk.receipt \in Ops

OutputMatches(o) ==
  Disk.dest \in Ops \/ (~Disk.journal[o].output /\ Disk.dest = "other")
TemporaryMatches(o) == Disk.temp[o] = "whole"

Classification(o) ==
  LET state == Disk.journal[o].state IN
  CASE state \in Terminal -> state
    [] state \notin Terminal /\ changed -> "unsafe_to_resume"
    [] OTHER ->
       IF state \in Announced /\ OutputMatches(o) /\ ReceiptMatches(o)
       THEN "publication_likely_complete"
       ELSE IF /\ state \in {"prepared", "verifying_temporary", "publishing"}
               /\ TemporaryMatches(o) /\ ReceiptMatches(o) /\ Disk.dest = "absent"
       THEN "safe_to_resume"
       ELSE IF state = "failed" THEN "failed" ELSE "needs_review"

\* What the pages offer for a classification.
Offered(o) ==
  CASE Classification(o) = "publication_likely_complete" -> {"resume", "rollback"}
    [] Classification(o) = "safe_to_resume" -> {"resume"}
    [] Classification(o) = "failed" /\ Disk.dest = "absent" -> {"dismiss"}
    [] OTHER -> {}

\* plan_patch_output_recovery: the token is the state and whether the
\* destination matches.
Review(w, o, action) ==
  /\ recover[w] = Idle
  /\ Disk.journal[o].state # "none"
  /\ action \in Offered(o)
  /\ plans' = [plans EXCEPT ![w] =
       [op |-> o, action |-> action, state |-> Disk.journal[o].state,
        matches |-> OutputMatches(o)]]
  /\ UNCHANGED <<directory, changed, apply, recover, unread, troubles>>

\* verify_plan
TokenHolds(plan) ==
  /\ Disk.journal[plan.op].state = plan.state
  /\ OutputMatches(plan.op) = plan.matches

-----------------------------------------------------------------------------
(* resume_, rollback_ and dismiss_failed_patch_output.                     *)

Doing(w, at) == recover[w].at = at
Rest == UNCHANGED <<changed, apply, plans, unread>>

Step(w, next) == recover' = [recover EXCEPT ![w].at = next]
\* Mutant of Return: the journal in memory stays for the next recovery.
ReturnHolding(w) == recover' = [recover EXCEPT ![w].at = ""]

Return(w) == recover' = [recover EXCEPT ![w] = Idle]

\* A transition of a recovery: a failed write ends it.
Move(w, state, next) ==
  LET r == recover[w]
      journal == [r.journal EXCEPT !.state = state] IN
  \E result \in Writes :
    /\ WriteJournal(r.op, journal, result)
    /\ recover' = [recover EXCEPT ![w] =
         IF result = "ok" THEN [r EXCEPT !.at = next, !.journal = journal] ELSE Idle]

\* Mutant of Dismissable: whatever stands at the two paths is removed.
DismissableAll(o) == Disk.dest = "absent"

\* What a failed attempt left is its own.
Dismissable(o) ==
  /\ Disk.dest = "absent"
  /\ Disk.temp[o] = "absent" \/ (Disk.journal[o].output /\ Disk.temp[o] = "whole")
  /\ Disk.receipt = "absent" \/ (Disk.journal[o].receipt /\ Disk.receipt = o)

\* The reviewed plan must hold, and the classification allow the action.
Run(w) ==
  LET o == plans[w].op IN
  /\ MayStart
  /\ recover[w] = Idle /\ plans[w] # NoPlan
  /\ plans' = [plans EXCEPT ![w] = NoPlan]
  /\ \/ /\ TokenHolds(plans[w]) /\ UNCHANGED troubles
        /\ LET class == Classification(o)
              first == CASE plans[w].action = "resume"
                              /\ class = "publication_likely_complete" -> "complete"
                         [] plans[w].action = "resume" /\ class = "safe_to_resume" -> "announce"
                         [] plans[w].action = "rollback"
                              /\ class = "publication_likely_complete" -> "roll back"
                         [] plans[w].action = "dismiss" /\ class = "failed"
                              /\ Dismissable(o) -> "drop temp"
                         [] OTHER -> "" IN
          recover' = [recover EXCEPT ![w] =
            IF first = "" THEN Idle
            ELSE [at |-> first, op |-> o, journal |->
                    IF plans[w].action = "dismiss" THEN Disk.journal[o]
                    ELSE [Disk.journal[o] EXCEPT !.receipt = TRUE]]]
     \/ Mismatches(TokenHolds(plans[w])) /\ UNCHANGED recover
  /\ UNCHANGED <<directory, changed, apply, unread>>

ResumeAnnounce(w) == Doing(w, "announce") /\ Move(w, "publishing", "link") /\ Rest

ResumeLink(w) ==
  /\ Doing(w, "link")
  /\ \/ /\ CanLink /\ Disk.temp[recover[w].op] # "absent"
        /\ Becomes([Disk EXCEPT !.dest = recover[w].op])
        /\ Step(w, "record")
        /\ UNCHANGED troubles
     \/ /\ CanLink => Disk.temp[recover[w].op] = "absent"
        /\ Return(w)
        /\ UNCHANGED <<directory, troubles>>
     \/ Spend(1) /\ Return(w) /\ UNCHANGED directory
  /\ Rest

ResumeRecord(w) == Doing(w, "record") /\ Move(w, "published", "verify") /\ Rest

ResumeVerify(w) ==
  /\ Doing(w, "verify")
  /\ \/ Disk.dest \in Ops /\ Move(w, "verifying_published", "complete")
     \/ Mismatches(Disk.dest \in Ops) /\ Return(w) /\ UNCHANGED directory
  /\ Rest

\* The receipt is verified once more.
ResumeComplete(w) ==
  /\ Doing(w, "complete")
  /\ \/ Disk.receipt = recover[w].op /\ Move(w, "completed", "clean")
     \/ Mismatches(Disk.receipt = recover[w].op) /\ Return(w) /\ UNCHANGED directory
  /\ Rest

ResumeClean(w) ==
  /\ Doing(w, "clean")
  /\ \/ Becomes(Removed(Disk, recover[w].op, "temp")) /\ UNCHANGED troubles
     \/ Spend(1) /\ UNCHANGED directory
  /\ Return(w)
  /\ Rest

RollBack(w) == Doing(w, "roll back") /\ Move(w, "rolling_back", "remove dest") /\ Rest

\* A removal of the rollback; a failure leads to "rollback_failed".
RemovePart(w, at, part, next) ==
  /\ Doing(w, at)
  /\ \/ /\ Becomes(IF part = "receipt" /\ Disk.receipt # recover[w].op
                   THEN Disk ELSE Removed(Disk, recover[w].op, part))
        /\ Step(w, next)
        /\ UNCHANGED troubles
     \/ Spend(1) /\ Step(w, "give up") /\ UNCHANGED directory
  /\ Rest

\* A receipt that cannot be read is taken for another's and stays.
LeaveReceipt(w) ==
  /\ Doing(w, "remove receipt")
  /\ Spend(1)
  /\ Step(w, "finish")
  /\ unread' = unread \cup {recover[w].op}
  /\ UNCHANGED <<directory, changed, apply, plans>>

\* The output, the temporary file, and the receipt when it is the recorded one.
RemoveAll(w) ==
  \/ RemovePart(w, "remove dest", "dest", "remove temp")
  \/ RemovePart(w, "remove temp", "temp", "remove receipt")
  \/ RemovePart(w, "remove receipt", "receipt", "finish")
  \/ LeaveReceipt(w)

GiveUp(w) ==
  /\ Doing(w, "give up")
  /\ \E result \in Writes :
       WriteJournal(recover[w].op,
                    [recover[w].journal EXCEPT !.state = "rollback_failed"], result)
  /\ Return(w)
  /\ Rest

\* Of a dismissal; an error ends it with the journal still "failed".
Drop(w, at, part, next) ==
  /\ Doing(w, at)
  /\ \/ /\ Becomes(IF part = "receipt" /\ ~recover[w].journal.receipt
                   THEN Disk ELSE Removed(Disk, recover[w].op, part))
        /\ Step(w, next)
        /\ UNCHANGED troubles
     \/ Spend(1) /\ Return(w) /\ UNCHANGED directory
  /\ Rest

DropAll(w) ==
  \/ Drop(w, "drop temp", "temp", "drop receipt")
  \/ Drop(w, "drop receipt", "receipt", "finish")

Finish(w) ==
  /\ Doing(w, "finish")
  /\ \E result \in Writes :
       WriteJournal(recover[w].op,
                    [recover[w].journal EXCEPT !.state = "rolled_back"], result)
  /\ Return(w)
  /\ Rest

-----------------------------------------------------------------------------
(* Around the operations.                                                  *)

\* Another program creates the destination, and syncs the directory.
OthersCreate ==
  /\ Disk.dest = "absent"
  /\ directory' = <<[Disk EXCEPT !.dest = "other"]>>
  /\ Spend(1)
  /\ UNCHANGED <<changed, apply, plans, recover, unread>>

SourceChanges ==
  /\ ~changed
  /\ changed' = TRUE
  /\ Spend(1)
  /\ UNCHANGED <<directory, apply, plans, recover, unread>>

Die ==
  /\ Spend(1)
  /\ apply' = [o \in Ops |-> Ready]
  /\ plans' = [w \in Workers |-> NoPlan]
  /\ recover' = [w \in Workers |-> Idle]
  /\ UNCHANGED <<changed, unread>>

Killed == Die /\ UNCHANGED directory

\* What the directory was at some moment since its last sync.
PowerLoss == Die /\ \E i \in DOMAIN directory : directory' = <<directory[i]>>

Apply(o) ==
  \/ Begin(o) \/ Prepare(o) \/ Produce(o) \/ AnnounceTemporary(o) \/ WriteTemporary(o)
  \/ FinaliseReceipt(o) \/ RecordFailure(o) \/ AnnouncePublication(o) \/ Link(o)
  \/ RecordPublished(o) \/ AnnounceVerification(o) \/ Complete(o) \/ Clean(o)

Recover(w) ==
  \/ Run(w) \/ ResumeAnnounce(w) \/ ResumeLink(w) \/ ResumeRecord(w) \/ ResumeVerify(w)
  \/ ResumeComplete(w) \/ ResumeClean(w) \/ RollBack(w) \/ RemoveAll(w) \/ GiveUp(w)
  \/ DropAll(w) \/ Finish(w)

Next ==
  \/ \E o \in Ops : Apply(o)
  \/ \E w \in Workers :
       \/ \E o \in Ops, action \in Actions : Review(w, o, action)
       \/ Recover(w)
  \/ OthersCreate \/ SourceChanges \/ Killed \/ PowerLoss

Spec == Init /\ [][Next]_vars

-----------------------------------------------------------------------------
(* Properties.                                                             *)

Working == \/ \E o \in Ops : apply[o].at # ""
           \/ \E w \in Workers : recover[w].at # ""

\* "It records intent before any user-visible output is created"
\* (patch_output_recovery.rs:5): whatever a power loss leaves, an output at the
\* destination has the receipt of its own attempt and a journal that announced
\* it and knows both hashes.
OutputIsRecorded ==
  \A i \in DOMAIN directory : LET d == directory[i] IN
    d.dest \in Ops =>
      /\ d.receipt = d.dest
      /\ LET j == d.journal[d.dest] IN
         /\ j.output /\ j.receipt
         /\ j.state \in Announced \cup {"completed", "rolling_back", "rollback_failed"}

\* A terminal journal is true of the directory, also after a power loss: the
\* attempt's output and receipt are there, or nothing of it is, but for a receipt
\* the rollback could not read.
TerminalIsTrue ==
  \A i \in DOMAIN directory : \A o \in Ops : LET d == directory[i] IN
    /\ d.journal[o].state = "completed" => d.dest = o /\ d.receipt = o
    /\ d.journal[o].state = "rolled_back" =>
         /\ d.dest # o /\ d.temp[o] = "absent"
         /\ d.receipt # o \/ o \in unread

\* An output that was published and then interrupted is offered for recovery.
PublishedIsOffered ==
  \A o \in Ops :
    /\ Disk.dest = o /\ ~changed /\ ~Working
    /\ Disk.journal[o].state \notin {"completed", "rolling_back", "rollback_failed"}
    => "resume" \in Offered(o)

\* "Rollback removes only an unchanged output proven to have been created by
\* that journal" (docs/PATCH_OUTPUT_DURABLE_RECOVERY.md), and a publication
\* replaces nothing: the destination only appears, or is removed by the rollback
\* of the attempt that created it, or is forgotten by a power loss.
NeverClobbers ==
  [][Disk'.dest # Disk.dest =>
       \/ Disk.dest = "absent"
       \/ Disk.dest \in Ops /\ Disk.journal[Disk.dest].state = "rolling_back"
       \/ PowerLoss]_vars

\* "Completed and rolled-back journals remain as history"
\* (docs/PATCH_OUTPUT_DURABLE_RECOVERY.md).
TerminalIsFinal ==
  [][\A o \in Ops : Disk.journal[o].state \in Terminal =>
       Disk'.journal[o].state = Disk.journal[o].state \/ PowerLoss]_vars
=============================================================================
