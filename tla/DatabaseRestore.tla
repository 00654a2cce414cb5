-------------------------- MODULE DatabaseRestore --------------------------
(***************************************************************************)
(* Restoring the library database from a backup, undoing a completed       *)
(* restore and settling an interrupted one (core database/restore.rs).     *)
(* The History page of the older window and that of Blue are processes of  *)
(* their own: they share the directory, the receipts in it and the locks.  *)
(*                                                                         *)
(* A file is an inode with a content; a hash is the content itself.  One   *)
(* directory sync, also that of a receipt, makes every earlier exchange    *)
(* and removal beside the database durable.                                *)
(***************************************************************************)
EXTENDS Naturals, FiniteSets, FiniteSetsExt

CONSTANTS Windows,      \* processes that show the restore receipts
          Plans,        \* reviewed restores, each with a receipt and a backup
                        \* content of its own
          None,         \* no window, no content
          Buttons,      \* what each window's user does
          Keeping,      \* windows that keep a review when its rollback fails
          MaxConfirms,  \* bound: how often one plan is confirmed
          MaxUses,      \* bound: commits to the library by its normal use
          MaxNames,     \* bound: files beside the database at once
          MaxTroubles   \* bound: failed calls, kills and power losses

\* No backup has the bytes of a commit of the library.
ASSUME RestoreAssumption ==
  /\ Buttons \in [Windows -> SUBSET {"restore", "rollback", "finalise"}]
  /\ Keeping \subseteq Windows
  /\ {MaxConfirms, MaxUses, MaxNames, MaxTroubles} \subseteq Nat
  /\ None \notin Windows \cup Plans \cup Nat
  /\ Plans \cap Nat = {}

VARIABLES disk,      \* names, receipts and two histories, as they are read
          durable,   \* the same as it survives a power loss
          data,      \* the content of each inode
          lock,      \* the window that holds the RestoreExclusion
          plan,      \* who reviewed each plan, and the live content it expects
          held,      \* each window's completed receipt reviewed for rollback
          task,      \* what each window's worker does, with its receipt
          confirms, uses, troubles,
          displaced  \* history: contents an exchange took off the live path

vars == <<disk, durable, data, lock, plan, held, task,
          confirms, uses, troubles, displaced>>

Live == 0
Names == 0..MaxNames
Inodes == 1..(MaxNames + 1)
\* What a commit of the library wrote, or the content of a plan's backup.
Contents == 0..MaxUses \cup Plans

States == {"none", "validating", "emergency_created", "staged", "applied",
           "verification", "completed", "failed", "rollback_attempted",
           "rolled_back", "rollback_failed"}
Terminal == {"completed", "failed", "rolled_back", "rollback_failed"}

Receipts ==
  [state : States,
   emergency : Names, emergency_sha : Contents \cup {None},
   staged : Names, staged_sha : Contents \cup {None},
   original : Inodes \cup {0}, replacement : Inodes \cup {0},
   applied_sha : Contents \cup {None},
   rollback : Names, rollback_identity : Inodes \cup {0},
   intact : {"unknown", "yes", "no"}]

\* receipt_for, before it is written and as it is when nothing was written.
NoReceipt ==
  [state |-> "none", emergency |-> 0, emergency_sha |-> None, staged |-> 0,
   staged_sha |-> None, original |-> 0, replacement |-> 0, applied_sha |-> None,
   rollback |-> 0, rollback_identity |-> 0, intact |-> "unknown"]

NoReview == [plan |-> None, receipt |-> NoReceipt]
Idle == [op |-> "idle", at |-> "", plan |-> None, receipt |-> NoReceipt]

Steps == {"", "excluding", "validating", "backing up", "staging", "exchanging",
          "applied", "syncing", "verifying", "removing", "completing", "refusing",
          "rolling back", "exchanging back", "giving up", "checking",
          "assessing"}

TypeOK ==
  /\ \A d \in {disk, durable} :
       /\ d.names \in [Names -> Inodes \cup {0}]
       /\ d.receipts \in [Plans -> Receipts]
       /\ d.effect \in [Plans -> {"none", "restored", "rolled back"}]
       /\ {d.since, d.stale} \subseteq [Plans -> BOOLEAN]
       /\ d.names[Live] # 0
       /\ \A m, n \in Names : m # n /\ d.names[m] # 0 => d.names[m] # d.names[n]
  /\ data \in [Inodes -> Contents]
  /\ lock \in Windows \cup {None}
  /\ \A w \in Windows :
       /\ task[w].op \in {"idle", "restore", "rollback", "finalise"}
       /\ task[w].at \in Steps
       /\ task[w].receipt \in Receipts
       /\ task[w].op = "idle" <=> task[w].plan = None
       /\ lock = w => task[w].op \in {"restore", "rollback"}
       /\ held[w].receipt.state \in {"none", "completed"}
  /\ displaced \subseteq Contents
  /\ uses <= MaxUses /\ troubles <= MaxTroubles

Init ==
  /\ disk = [names |-> [n \in Names |-> IF n = Live THEN 1 ELSE 0],
             receipts |-> [p \in Plans |-> NoReceipt],
             effect |-> [p \in Plans |-> "none"],
             since |-> [p \in Plans |-> FALSE],
             stale |-> [p \in Plans |-> FALSE]]
  /\ durable = disk
  /\ data = [i \in Inodes |-> 0]
  /\ lock = None
  /\ plan = [p \in Plans |-> [by |-> None, expects |-> None]]
  /\ held = [w \in Windows |-> NoReview]
  /\ task = [w \in Windows |-> Idle]
  /\ confirms = [p \in Plans |-> 0]
  /\ uses = 0
  /\ troubles = 0
  /\ displaced = {}

-----------------------------------------------------------------------------
(* Files.                                                                  *)

LiveFile(d) == d.names[Live]
LiveContent == data[LiveFile(disk)]

\* What a receipt or a worker still names, or remembers by its inode.
Known == {disk.receipts[p] : p \in Plans} \cup {durable.receipts[p] : p \in Plans}
         \cup {task[w].receipt : w \in Windows} \cup {held[w].receipt : w \in Windows}

\* reserve_sibling: a name that no file has and no record mentions.
FreeNames == {n \in Names \ {Live} :
  /\ disk.names[n] = 0 /\ durable.names[n] = 0
  /\ \A r \in Known : n \notin {r.emergency, r.staged, r.rollback}}

\* A new file gets an inode that no name has: one no record mentions, or one
\* that a removed file had.
NewInode(i) ==
  LET free == {j \in Inodes : \A n \in Names : j \notin {disk.names[n], durable.names[n]}}
      known == {j \in free : \E r \in Known :
                  j \in {r.original, r.replacement, r.rollback_identity}}
  IN i \in known \/ (i \in free \ known /\ i = Min(free \ known))

\* A name's inode.
File(d, n) == IF n = 0 THEN 0 ELSE d.names[n]

Without(d, n) == IF n = 0 THEN d ELSE [d EXCEPT !.names[n] = 0]

\* renameat2(RENAME_EXCHANGE) by p's operation: what it makes of the restore,
\* and every other interrupted receipt that was overtaken.
Exchanged(p, n, effect) ==
  [disk EXCEPT
     !.names = [disk.names EXCEPT ![Live] = disk.names[n], ![n] = disk.names[Live]],
     !.effect[p] = effect,
     !.since = [q \in Plans |-> disk.since[q] \/
                  (q # p /\ disk.receipts[q].state \notin Terminal \cup {"none"})]]

\* write_receipt: the receipt is not replaced, replaced without a directory
\* sync, or durable together with every earlier change of the directory.
Writes == {"ok", "lost", "unsynced"}
Cost(result) == IF result = "ok" THEN 0 ELSE 1
Spend(n) == troubles' = troubles + n /\ troubles' <= MaxTroubles

WriteReceipt(d, synced, p, receipt, result) ==
  /\ disk' = IF result = "lost" THEN d ELSE [d EXCEPT !.receipts[p] = receipt]
  /\ durable' = IF result = "ok" THEN disk' ELSE synced

-----------------------------------------------------------------------------
(* The worker of a window.                                                 *)

At(w, op, at) == task[w].op = op /\ task[w].at = at

Go(w, at, receipt) ==
  task' = [task EXCEPT ![w].at = at, ![w].receipt = receipt]

\* Mutant of Return: the exclusion is left behind.
ReturnLocked(w) ==
  /\ task' = [task EXCEPT ![w] = Idle]
  /\ UNCHANGED lock

\* The call returns: its exclusion is dropped.
Return(w) ==
  /\ task' = [task EXCEPT ![w] = Idle]
  /\ lock' = IF lock = w THEN None ELSE lock

Same == UNCHANGED <<confirms, uses, displaced, plan, held>>

WithoutPlans(W) ==
  [p \in Plans |-> IF plan[p].by \in W THEN [plan[p] EXCEPT !.by = None] ELSE plan[p]]

\* prepare_database_restore: the plan is good for the live content it saw.
\* The page holds one review, of a restore or of a rollback.
Prepare(w, p) ==
  /\ "restore" \in Buttons[w]
  /\ task[w] = Idle
  /\ plan[p].expects = None
  /\ plan' = [WithoutPlans({w}) EXCEPT ![p] = [by |-> w, expects |-> LiveContent]]
  /\ held' = [held EXCEPT ![w] = NoReview]
  /\ UNCHANGED <<disk, durable, data, lock, task, confirms, uses, troubles, displaced>>

\* The receipt is announced before any lock is taken.  An error leaves the
\* page its plan.
Confirm(w, p) ==
  /\ task[w] = Idle
  /\ plan[p].by = w
  /\ confirms[p] < MaxConfirms
  /\ confirms' = [confirms EXCEPT ![p] = @ + 1]
  /\ LET r == [NoReceipt EXCEPT !.state = "validating"] IN
     \E result \in Writes :
       /\ Spend(Cost(result))
       /\ WriteReceipt(disk, durable, p, r, result)
       /\ task' = IF result = "ok"
                  THEN [task EXCEPT ![w] = [op |-> "restore", at |-> "excluding",
                                            plan |-> p, receipt |-> r]]
                  ELSE task
  /\ UNCHANGED <<data, lock, plan, held, uses, displaced>>

\* RestoreExclusion::acquire: refused while another operation or a writer
\* has the database.
Exclude(w) ==
  /\ At(w, "restore", "excluding")
  /\ \/ /\ lock = None
        /\ lock' = w
        /\ Go(w, "validating", [task[w].receipt EXCEPT !.original = LiveFile(disk)])
     \/ Go(w, "refusing", task[w].receipt) /\ UNCHANGED lock
  /\ UNCHANGED <<disk, durable, data, troubles>> /\ Same

\* refuse: before the exchange the original is intact by construction.
Refuse(w) ==
  /\ At(w, "restore", "refusing")
  /\ \E result \in Writes :
       /\ Spend(Cost(result))
       /\ WriteReceipt(disk, durable, task[w].plan,
            [task[w].receipt EXCEPT !.state = "failed", !.intact = "yes"], result)
  /\ Return(w)
  /\ UNCHANGED data /\ Same

\* validate_plan_live_freshness
Fresh(w) == plan[task[w].plan].expects = LiveContent

\* Under the exclusion: the plan is fresh, and the names of the safety backup
\* and of the staged replacement are durable before either file exists.
Validate(w) ==
  /\ At(w, "restore", "validating")
  /\ \/ /\ ~Fresh(w)
        /\ Go(w, "refusing", task[w].receipt)
        /\ UNCHANGED <<disk, durable, troubles>>
     \/ /\ Fresh(w)
        /\ \E e, s \in FreeNames : \E result \in Writes :
             LET r == [task[w].receipt EXCEPT !.emergency = e, !.staged = s] IN
             /\ e < s /\ e = Min(FreeNames) /\ s = Min(FreeNames \ {e})
             /\ Spend(Cost(result))
             /\ WriteReceipt(disk, durable, task[w].plan, r, result)
             /\ Go(w, IF result = "ok" THEN "backing up" ELSE "refusing", r)
     \/ Spend(1) /\ Go(w, "refusing", task[w].receipt) /\ UNCHANGED <<disk, durable>>
  /\ UNCHANGED <<data, lock>> /\ Same

\* A copy is made, verified and recorded; when any of that fails the copy is
\* removed and the restore refused without it.
CopyRecorded(w, name, content, receipt, next, without) ==
  \/ \E i \in Inodes : NewInode(i) /\ \E result \in Writes :
       /\ data' = [data EXCEPT ![i] = content]
       /\ Spend(Cost(result))
       /\ LET d == [disk EXCEPT !.names[name] = i] IN
          IF result = "ok"
          THEN /\ WriteReceipt(d, durable, task[w].plan, receipt[i], result)
               /\ Go(w, next, receipt[i])
          ELSE /\ WriteReceipt(disk, durable, task[w].plan, receipt[i], result)
               /\ Go(w, "refusing", without)
  \/ /\ Spend(1)
     /\ Go(w, "refusing", without)
     /\ UNCHANGED <<disk, durable, data>>

BackUp(w) ==
  /\ At(w, "restore", "backing up")
  /\ LET r == task[w].receipt IN
     CopyRecorded(w, r.emergency, LiveContent,
       [i \in Inodes |-> [r EXCEPT !.emergency_sha = LiveContent,
                                   !.state = "emergency_created"]],
       "staging", [r EXCEPT !.emergency = 0])
  /\ UNCHANGED lock /\ Same

Unstaged(receipt) ==
  [receipt EXCEPT !.staged = 0, !.staged_sha = None, !.replacement = 0]

\* Mutant of Stage: the staged copy's hash and identity stay in memory.
StageUnrecorded(w) ==
  /\ At(w, "restore", "staging")
  /\ LET r == task[w].receipt IN
     \E i \in Inodes :
       /\ NewInode(i)
       /\ data' = [data EXCEPT ![i] = task[w].plan]
       /\ disk' = [disk EXCEPT !.names[r.staged] = i]
       /\ durable' = disk'
       /\ Go(w, "exchanging", [r EXCEPT !.staged_sha = task[w].plan,
                                        !.replacement = i, !.state = "staged"])
  /\ UNCHANGED <<lock, troubles>> /\ Same

Stage(w) ==
  /\ At(w, "restore", "staging")
  /\ LET r == task[w].receipt IN
     CopyRecorded(w, r.staged, task[w].plan,
       [i \in Inodes |-> [r EXCEPT !.staged_sha = task[w].plan, !.replacement = i,
                                   !.state = "staged"]],
       "exchanging", Unstaged(r))
  /\ UNCHANGED lock /\ Same

\* The destructive boundary.
Exchange(w) ==
  /\ At(w, "restore", "exchanging")
  /\ LET p == task[w].plan
         r == task[w].receipt IN
     \/ /\ disk' = Exchanged(p, r.staged, "restored")
        /\ displaced' = displaced \cup {LiveContent}
        /\ Go(w, "applied", [r EXCEPT !.state = "applied", !.applied_sha = r.staged_sha])
        /\ UNCHANGED troubles
     \/ /\ Spend(1)
        /\ disk' = Without(disk, r.staged)
        /\ Go(w, "refusing", Unstaged(r))
        /\ UNCHANGED displaced
  /\ UNCHANGED <<durable, data, lock, confirms, uses, plan, held>>

\* Receipts after the exchange are best effort.
PublishApplied(w) ==
  /\ At(w, "restore", "applied")
  /\ \E result \in Writes :
       /\ Spend(Cost(result))
       /\ WriteReceipt(disk, durable, task[w].plan, task[w].receipt, result)
  /\ Go(w, "syncing", task[w].receipt)
  /\ UNCHANGED <<data, lock>> /\ Same

SyncExchange(w) ==
  /\ At(w, "restore", "syncing")
  /\ LET r == [task[w].receipt EXCEPT !.state = "verification"] IN
     \/ \E result \in Writes :
          /\ Spend(Cost(result))
          /\ WriteReceipt(disk, disk, task[w].plan, r, result)
          /\ Go(w, "verifying", r)
     \/ Spend(1) /\ Go(w, "rolling back", r) /\ UNCHANGED <<disk, durable>>
  /\ UNCHANGED <<data, lock>> /\ Same

\* Mutant of Verify: a failure after the exchange is refused like one before.
VerifyRefused(w) ==
  /\ At(w, "restore", "verifying")
  /\ LET r == task[w].receipt IN
     \/ /\ LiveFile(disk) = r.replacement /\ LiveContent = r.staged_sha
        /\ Go(w, "removing", r)
        /\ UNCHANGED troubles
     \/ Spend(1) /\ Go(w, "refusing", r)
  /\ UNCHANGED <<disk, durable, data, lock>> /\ Same

\* verify_applied_identity and validate_live_database
Verify(w) ==
  /\ At(w, "restore", "verifying")
  /\ LET r == task[w].receipt IN
     \/ /\ LiveFile(disk) = r.replacement /\ LiveContent = r.staged_sha
        /\ Go(w, "removing", r)
        /\ UNCHANGED troubles
     \/ Spend(1) /\ Go(w, "rolling back", r)
  /\ UNCHANGED <<disk, durable, data, lock>> /\ Same

\* The superseded original is removed; failing to is only a warning.
RemoveSuperseded(w) ==
  /\ At(w, "restore", "removing")
  /\ \/ /\ disk' = Without(disk, task[w].receipt.staged)
        /\ \/ durable' = disk' /\ UNCHANGED troubles
           \/ Spend(1) /\ UNCHANGED durable
     \/ Spend(1) /\ UNCHANGED <<disk, durable>>
  /\ Go(w, "completing", task[w].receipt)
  /\ UNCHANGED <<data, lock>> /\ Same

Complete(w) ==
  /\ At(w, "restore", "completing")
  /\ \E result \in Writes :
       /\ Spend(Cost(result))
       /\ WriteReceipt(disk, durable, task[w].plan,
            [task[w].receipt EXCEPT !.state = "completed", !.intact = "no"], result)
  /\ Return(w)
  /\ plan' = [plan EXCEPT ![task[w].plan].by = None]
  /\ UNCHANGED <<data, confirms, uses, displaced, held>>

-----------------------------------------------------------------------------
(* roll_back_after_exchange                                                *)

BeginRollBack(w) ==
  /\ At(w, "restore", "rolling back")
  /\ LET r == [task[w].receipt EXCEPT !.state = "rollback_attempted"] IN
     /\ \E result \in Writes :
          /\ Spend(Cost(result))
          /\ WriteReceipt(disk, durable, task[w].plan, r, result)
     /\ Go(w, "exchanging back", r)
  /\ UNCHANGED <<data, lock>> /\ Same

\* The superseded original must be what it was before it is put back.
ExchangeBack(w) ==
  /\ At(w, "restore", "exchanging back")
  /\ LET p == task[w].plan
         r == task[w].receipt IN
     \/ /\ File(disk, r.staged) = r.original
        /\ data[r.original] = plan[p].expects
        /\ disk' = Exchanged(p, r.staged, "none")
        /\ Go(w, "checking", r)
        /\ UNCHANGED troubles
     \/ Spend(1) /\ Go(w, "giving up", r) /\ UNCHANGED disk
  /\ UNCHANGED <<durable, data, lock>> /\ Same

GiveUp(w) ==
  /\ At(w, "restore", "giving up")
  /\ \E result \in Writes :
       /\ Spend(Cost(result))
       /\ WriteReceipt(disk, durable, task[w].plan,
            [task[w].receipt EXCEPT !.state = "rollback_failed", !.intact = "no"], result)
  /\ Return(w)
  /\ UNCHANGED data /\ Same

CheckBack(w) ==
  /\ At(w, "restore", "checking")
  /\ LET r == task[w].receipt IN
     \E result \in Writes :
       \/ /\ Spend(Cost(result))
          /\ WriteReceipt(Without(disk, r.staged), disk, task[w].plan,
               [r EXCEPT !.state = "rolled_back", !.intact = "yes"], result)
       \/ /\ Spend(1 + Cost(result))
          /\ WriteReceipt(disk, durable, task[w].plan,
               [r EXCEPT !.state = "rollback_failed", !.intact = "unknown"], result)
  /\ Return(w)
  /\ UNCHANGED data /\ Same

-----------------------------------------------------------------------------
(* rollback_database_restore                                               *)

\* Mutant of InputsHold: what the library has become since is not asked.
EmergencyHolds(r) ==
  /\ r.emergency_sha # None
  /\ File(disk, r.emergency) # 0
  /\ data[File(disk, r.emergency)] = r.emergency_sha

\* review_rollback_inputs
InputsHold(r) ==
  /\ r.emergency_sha # None
  /\ File(disk, r.emergency) # 0
  /\ data[File(disk, r.emergency)] = r.emergency_sha
  /\ r.applied_sha = LiveContent

\* review_database_rollback: the window holds the receipt it read.  Reviewing
\* another drops what it held, also when the review is refused.
ReviewRollback(w, p) ==
  /\ "rollback" \in Buttons[w]
  /\ task[w] = Idle
  /\ disk.receipts[p].state = "completed"
  /\ held' = [held EXCEPT ![w] = IF InputsHold(disk.receipts[p])
                                 THEN [plan |-> p, receipt |-> disk.receipts[p]]
                                 ELSE NoReview]
  /\ plan' = WithoutPlans({w})
  /\ UNCHANGED <<disk, durable, data, lock, task, confirms, uses, troubles, displaced>>

\* The call failed: the older window keeps its review.
ReviewAfterError(w) == IF w \in Keeping THEN held ELSE [held EXCEPT ![w] = NoReview]

\* Refused by a lock or by inputs that no longer hold, nothing is written.
\* Otherwise the attempt is durable before anything is staged.
BeginRollback(w) ==
  /\ task[w] = Idle
  /\ held[w].plan # None
  /\ \/ /\ lock = None /\ InputsHold(held[w].receipt)
        /\ \E n \in FreeNames : \E result \in Writes :
             LET r == [held[w].receipt EXCEPT !.state = "rollback_attempted",
                         !.rollback = n, !.rollback_identity = 0,
                         !.replacement = LiveFile(disk)] IN
             /\ n = Min(FreeNames)
             /\ Spend(Cost(result))
             /\ WriteReceipt(disk, durable, held[w].plan, r, result)
             /\ IF result = "ok"
                THEN /\ task' = [task EXCEPT ![w] = [op |-> "rollback", at |-> "staging",
                                                     plan |-> held[w].plan, receipt |-> r]]
                     /\ lock' = w
                     /\ UNCHANGED held
                ELSE UNCHANGED <<task, lock>> /\ held' = ReviewAfterError(w)
     \/ /\ lock # None \/ ~InputsHold(held[w].receipt)
        /\ held' = ReviewAfterError(w)
        /\ UNCHANGED <<disk, durable, task, lock, troubles>>
  /\ UNCHANGED <<data, plan, confirms, uses, displaced>>

Unrolled(receipt) ==
  [receipt EXCEPT !.rollback = 0, !.rollback_identity = 0, !.state = "completed"]

StageRollback(w) ==
  /\ At(w, "rollback", "staging")
  /\ LET r == task[w].receipt IN
     CopyRecorded(w, r.rollback, data[File(disk, r.emergency)],
       [i \in Inodes |-> [r EXCEPT !.rollback_identity = i]], "exchanging", Unrolled(r))
  /\ UNCHANGED lock /\ Same

\* The restored database remains in place.
RefuseRollback(w) ==
  /\ At(w, "rollback", "refusing")
  /\ \E result \in Writes :
       /\ Spend(Cost(result))
       /\ WriteReceipt(disk, durable, task[w].plan, task[w].receipt, result)
  /\ Return(w)
  /\ held' = ReviewAfterError(w)
  /\ UNCHANGED <<data, plan, confirms, uses, displaced>>

ExchangeRollback(w) ==
  /\ At(w, "rollback", "exchanging")
  /\ LET r == task[w].receipt IN
     \/ /\ disk' = Exchanged(task[w].plan, r.rollback, "rolled back")
        /\ displaced' = displaced \cup {LiveContent}
        /\ Go(w, "checking", r)
        /\ UNCHANGED troubles
     \/ /\ Spend(1)
        /\ disk' = Without(disk, r.rollback)
        /\ Go(w, "refusing", Unrolled(r))
        /\ UNCHANGED displaced
  /\ UNCHANGED <<durable, data, lock, confirms, uses, plan, held>>

\* Verified, the restored database is removed; otherwise it is put back, or
\* that fails as well.
CheckRollback(w) ==
  /\ At(w, "rollback", "checking")
  /\ LET p == task[w].plan
         r == task[w].receipt IN
     \E result \in Writes :
       \/ /\ LiveFile(disk) = r.rollback_identity
          /\ Spend(Cost(result))
          /\ WriteReceipt(Without(disk, r.rollback), disk, p,
               [r EXCEPT !.state = "rolled_back", !.intact = "yes"], result)
          /\ held' = [held EXCEPT ![w] = NoReview]
       \/ LET back == Exchanged(p, r.rollback, "restored") IN
          \E synced \in {back, durable} :
            /\ Spend(1 + Cost(result) + IF synced = back THEN 0 ELSE 1)
            /\ WriteReceipt(Without(back, r.rollback), synced, p, Unrolled(r), result)
            /\ held' = ReviewAfterError(w)
       \/ /\ Spend(2 + Cost(result))
          /\ WriteReceipt(disk, durable, p,
               [r EXCEPT !.state = "rollback_failed", !.intact = "unknown"], result)
          /\ held' = ReviewAfterError(w)
  /\ Return(w)
  /\ UNCHANGED <<data, plan, confirms, uses, displaced>>

-----------------------------------------------------------------------------
(* Interrupted receipts.                                                   *)

\* assess_receipt and assess_rollback: judged by the identity of the live file.
Assess(r) ==
  IF r.state = "rollback_attempted" /\ r.rollback # 0
  THEN IF LiveFile(disk) = r.replacement THEN "replacement"
       ELSE IF LiveFile(disk) = r.rollback_identity THEN "rollback" ELSE "unrecognised"
  ELSE IF \/ r.staged_sha = None
             /\ r.state \notin {"applied", "verification", "rollback_attempted"}
          \/ LiveFile(disk) = r.original
       THEN "original"
       ELSE IF LiveFile(disk) = r.replacement THEN "replacement" ELSE "unrecognised"

Interrupted(p) == disk.receipts[p].state \notin Terminal \cup {"none"}

\* Mutant of Settled: the hash at exchange time is not filled in.
SettledAsRead(r) ==
  CASE Assess(r) = "original" -> {[r EXCEPT !.state = "failed", !.intact = "yes"]}
    [] Assess(r) = "replacement" ->
         {[Unrolled(r) EXCEPT !.state = "completed", !.intact = "no"]}
    [] Assess(r) = "rollback" -> {[r EXCEPT !.state = "rolled_back", !.intact = "yes"]}
    [] Assess(r) = "unrecognised" -> {}

\* The terminal receipt an assessment allows, none when it is not recognised.
Settled(r) ==
  CASE Assess(r) = "original" -> {[r EXCEPT !.state = "failed", !.intact = "yes"]}
    [] Assess(r) = "replacement" ->
         {[Unrolled(r) EXCEPT !.intact = "no", !.applied_sha = r.staged_sha]}
    [] Assess(r) = "rollback" -> {[r EXCEPT !.state = "rolled_back", !.intact = "yes"]}
    [] Assess(r) = "unrecognised" -> {}

\* finalise_interrupted_restore: the receipt is read first ...
ReadInterrupted(w, p) ==
  /\ "finalise" \in Buttons[w]
  /\ task[w] = Idle
  /\ Interrupted(p)
  /\ task' = [task EXCEPT ![w] = [op |-> "finalise", at |-> "assessing",
                                  plan |-> p, receipt |-> disk.receipts[p]]]
  /\ UNCHANGED <<disk, durable, data, lock, troubles>> /\ Same

\* ... then the exclusion is taken, the files are judged and the receipt is
\* written; or it is refused.
Finalise(w) ==
  /\ At(w, "finalise", "assessing")
  /\ \/ /\ lock = None
        /\ \E r \in Settled(task[w].receipt), result \in Writes :
             LET p == task[w].plan
                 stale == disk.receipts[p] # task[w].receipt IN
             /\ Spend(Cost(result))
             /\ WriteReceipt([disk EXCEPT !.stale[p] = @ \/ stale], durable, p, r, result)
     \/ UNCHANGED <<disk, durable, troubles>>
  /\ Return(w)
  /\ UNCHANGED data /\ Same

-----------------------------------------------------------------------------
(* Around the operations.                                                  *)

\* Mutant of Use: no RESERVED lock, a worker of the library may still commit.
UseLocked ==
  /\ uses < MaxUses
  /\ uses' = uses + 1
  /\ data' = [data EXCEPT ![LiveFile(disk)] = uses + 1]
  /\ UNCHANGED <<disk, durable, lock, plan, held, task, confirms, troubles, displaced>>

\* The library is used: nobody commits while an exclusion is held.
Use ==
  /\ lock = None
  /\ uses < MaxUses
  /\ uses' = uses + 1
  /\ data' = [data EXCEPT ![LiveFile(disk)] = uses + 1]
  /\ UNCHANGED <<disk, durable, lock, plan, held, task, confirms, troubles, displaced>>

Die(W) ==
  /\ Spend(1)
  /\ task' = [w \in Windows |-> IF w \in W THEN Idle ELSE task[w]]
  /\ held' = [w \in Windows |-> IF w \in W THEN NoReview ELSE held[w]]
  /\ plan' = WithoutPlans(W)
  /\ lock' = IF lock \in W THEN None ELSE lock
  /\ UNCHANGED <<data, confirms, uses, displaced>>

Killed(w) == Die({w}) /\ UNCHANGED <<disk, durable>>

\* Of the changes since the last sync all are kept, none, or an exchange and
\* not the receipts written after it.
PowerLoss ==
  /\ Die(Windows)
  /\ disk' \in {disk, durable,
               [disk EXCEPT !.receipts = durable.receipts, !.stale = durable.stale]}
  /\ durable' = disk'

Restore(w) ==
  \/ Exclude(w) \/ Refuse(w) \/ Validate(w) \/ BackUp(w) \/ Stage(w) \/ Exchange(w)
  \/ PublishApplied(w) \/ SyncExchange(w) \/ Verify(w) \/ RemoveSuperseded(w)
  \/ Complete(w) \/ BeginRollBack(w) \/ ExchangeBack(w) \/ GiveUp(w) \/ CheckBack(w)

Rollback(w) ==
  \/ BeginRollback(w) \/ StageRollback(w) \/ RefuseRollback(w)
  \/ ExchangeRollback(w) \/ CheckRollback(w)

Next ==
  \/ \E w \in Windows :
       \/ \E p \in Plans : \/ Prepare(w, p) \/ Confirm(w, p)
                           \/ ReviewRollback(w, p) \/ ReadInterrupted(w, p)
       \/ Restore(w) \/ Rollback(w) \/ Finalise(w) \/ Killed(w)
  \/ Use
  \/ PowerLoss

Spec == Init /\ [][Next]_vars

-----------------------------------------------------------------------------
(* Properties.                                                             *)

\* A receipt's files whose content the library may need.
OnRecord(c) ==
  \E p \in Plans : LET r == disk.receipts[p] IN
    \/ r.emergency_sha = c /\ File(disk, r.emergency) # 0
       /\ data[File(disk, r.emergency)] = c
    \/ \E n \in {r.staged, r.rollback} : File(disk, n) # 0 /\ data[File(disk, n)] = c

\* "Every failure after it keeps the original reachable" (restore.rs:39): a
\* commit an exchange took off the live path is in the live database again, or
\* in a file that a receipt on disk names.
NoCommitLost ==
  \A c \in displaced \ Plans : LiveContent = c \/ OnRecord(c)

TrueReceipt(d, p) ==
  LET r == d.receipts[p] IN
  r.state \in Terminal =>
    /\ r.intact = "yes" => d.effect[p] # "restored"
    /\ r.intact = "no" => d.effect[p] = "restored"
    /\ r.state = "completed" => r.intact = "no"

\* A terminal receipt says what became of the live database (restore.rs:190),
\* also after a power loss, unless another restore overtook the receipt while
\* it was interrupted or it was finalised from an older copy.
ReceiptsAreTrue ==
  \A d \in {disk, durable} : \A p \in Plans :
    ~d.since[p] /\ ~d.stale[p] => TrueReceipt(d, p)

\* "An interruption at any point can be classified after restart from file
\* identity, even after the database has been used again" (restore.rs:35), as
\* long as no other restore overtook it.
ClassifiedTruly ==
  \A p \in Plans :
    Interrupted(p) /\ ~disk.since[p] /\ ~disk.stale[p] /\ (\A w \in Windows : task[w].plan # p) =>
      Assess(disk.receipts[p]) =
        CASE disk.effect[p] = "none" -> "original"
          [] disk.effect[p] = "restored" -> "replacement"
          [] disk.effect[p] = "rolled back" -> "rollback"

\* A completed restore whose database was not used since can be rolled back,
\* also when its receipt was completed after a crash (restore.rs:1452).
RollbackStaysPossible ==
  \A p \in Plans :
    /\ disk.receipts[p].state = "completed"
    /\ lock = None /\ ~disk.since[p] /\ ~disk.stale[p]
    /\ LiveContent = p
    => InputsHold(disk.receipts[p])
=============================================================================
