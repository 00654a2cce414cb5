-------------------------- MODULE ConversionQueue --------------------------
(***************************************************************************)
(* The durable conversion queue (core conversion_queue/durable.rs) with    *)
(* the conversion of one attempt (wiiu_conversion.rs) and the Repair       *)
(* transaction that publishes its output.  This module holds the library's *)
(* operations; ConversionController drives them as the windows' workers do.*)
(*                                                                         *)
(* A reviewed plan is named by its destination.  The journal of an attempt *)
(* is reduced to what publication_settled_without_output and Undo tell     *)
(* apart; how a Repair transaction gets there is RenameApply's subject.    *)
(***************************************************************************)
EXTENDS Naturals, Sequences, FiniteSets, SequencesExt

CONSTANTS Windows,      \* EmuWiz processes with the conversion page
          None,         \* no window, no job
          Dests,        \* destinations, one reviewed plan for each
          Waiting,      \* the plans an earlier session left queued, in order
          MaxJobs,      \* MAX_QUEUE_JOBS
          MaxAttempts,  \* MAX_JOB_ATTEMPTS
          MaxSequence,  \* bound: sequence numbers handed out
          MaxTroubles   \* bound: failed commits and I/O errors, changes by
                        \* other programs, crashes and power losses

ASSUME QueueAssumption ==
  /\ Waiting \in Seq(Dests) /\ Len(Waiting) <= MaxSequence /\ Len(Waiting) <= MaxJobs
  /\ \A m, n \in 1..Len(Waiting) : m # n => Waiting[m] # Waiting[n]
  /\ None \notin Windows \cup Nat
  /\ {MaxJobs, MaxAttempts, MaxSequence} \subseteq Nat \ {0}
  /\ MaxTroubles \in Nat

VARIABLES disk,      \* queue.json as it is read
          synced,    \* queue.json as it survives a power loss
          owner,     \* the window whose worker holds the directory lock
          mem,       \* the owner's DurableConversionQueue.snapshot
          poisoned,  \* its poisoned flag
          run,       \* run_next in progress: where it is, its job, its outcome
          cancel,    \* each window's cancellation flag
          journal,   \* the Repair journal in each attempt's journal_dir
          staging,   \* attempts whose staging_root exists
          output,    \* what is at each destination
          source,    \* each plan's source against its review
          troubles

storeVars == <<disk, synced, mem, poisoned>>
evidenceVars == <<journal, staging, output, source>>
queueVars == <<storeVars, owner, run, cancel, evidenceVars, troubles>>

Ids == 1..MaxSequence
Attempts == Ids \X (1..MaxAttempts)
JobStates == {"queued", "running", "completed", "failed", "cancelled",
              "interrupted", "blocked_stale", "blocked_input_missing"}
Dispositions == {"none", "restart", "review"}
Jobs == [dest : Dests, order : Ids, state : JobStates,
         attempts : BoundedSeq(JobStates, MaxAttempts), retry : Dispositions]
IsSnapshot(s) ==
  /\ s.next \in 1..(MaxSequence + 1)
  /\ DOMAIN s.jobs \subseteq Ids
  /\ \A j \in DOMAIN s.jobs : s.jobs[j] \in Jobs

\* At a destination: nothing, another program's file, an attempt's output.
Absent == <<0, 0>>
Foreign == <<0, 1>>

NoRun == [at |-> "idle", job |-> 0, outcome |-> "none"]

NewJob(d, order) ==
  [dest |-> d, order |-> order, state |-> "queued", attempts |-> <<>>, retry |-> "none"]

QueueInit ==
  /\ disk = [next |-> Len(Waiting) + 1,
             jobs |-> [j \in 1..Len(Waiting) |-> NewJob(Waiting[j], j)]]
  /\ synced = disk
  /\ owner = None
  /\ mem = disk
  /\ poisoned = FALSE
  /\ run = NoRun
  /\ cancel = [w \in Windows |-> FALSE]
  /\ journal = [a \in Attempts |-> "empty"]
  /\ staging = {}
  /\ output = [d \in Dests |-> Absent]
  /\ source = [d \in Dests |-> "reviewed"]
  /\ troubles = 0

-----------------------------------------------------------------------------
(* Persistence.                                                            *)

\* validate_snapshot: what inspect accepts; open refuses anything else.
Valid(s) ==
  /\ Cardinality(DOMAIN s.jobs) <= MaxJobs
  /\ \A j \in DOMAIN s.jobs : LET job == s.jobs[j] IN
       /\ j <= job.order /\ job.order < s.next
       /\ \A k \in DOMAIN s.jobs \ {j} :
            /\ s.jobs[k].order # job.order
            /\ ~(job.state = "running" /\ s.jobs[k].state = "running")
       /\ \A n \in 1..Len(job.attempts) :
            /\ job.attempts[n] \notin {"queued", "blocked_input_missing"}
            /\ job.attempts[n] = "running" => n = Len(job.attempts)
       /\ job.state = "running" <=> "running" \in ToSet(job.attempts)

\* commit: the snapshot is refused for its size, not written, written but
\* not forced to disk, or durable.  Only the first leaves the queue usable
\* after an error.  A file that is not the owner's snapshot is never replaced.
Commit(next, result) ==
  /\ result \in {"ok", "unsynced"} => disk = mem
  /\ disk' = IF result \in {"ok", "unsynced"} THEN next ELSE disk
  /\ synced' = IF result = "ok" THEN next ELSE synced
  /\ mem' = IF result = "ok" THEN next ELSE mem
  /\ poisoned' = (poisoned \/ result \in {"unwritten", "unsynced"})
  /\ troubles' = IF result = "ok" THEN troubles ELSE troubles + 1
  /\ troubles' <= MaxTroubles

Results == {"ok", "refused", "unwritten", "unsynced"}

LastState(job, s) ==
  IF job.attempts # <<>> /\ Last(job.attempts) = "running"
  THEN ReplaceAt(job.attempts, Len(job.attempts), s)
  ELSE job.attempts

\* transition: the job's state, that of its running attempt, its disposition.
Moved(job, s, r) ==
  [job EXCEPT !.state = s, !.attempts = LastState(job, s), !.retry = r]

Put(j, job) == [mem EXCEPT !.jobs = [mem.jobs EXCEPT ![j] = job]]

-----------------------------------------------------------------------------
(* Evidence.                                                               *)

Recorded(j, job) == {<<j, n>> : n \in 1..Len(job.attempts)}

\* Mutant of RequiresReview: only the destination is looked at.
OutputPresent(j, job) == output[job.dest] # Absent

\* retry_disposition: the destination is taken, or an attempt's staging is
\* gone or its publication neither unstarted nor rolled back.
RequiresReview(j, job) ==
  \/ output[job.dest] # Absent
  \/ \E a \in Recorded(j, job) :
       a \notin staging \/ journal[a] \notin {"empty", "rolledback"}

Disposition(j, job) == IF RequiresReview(j, job) THEN "review" ELSE "restart"

\* Mutant of Reserved: only jobs that wait or run hold their destination.
ReservedByLive(d, others) ==
  \E j \in others \cap DOMAIN mem.jobs :
    mem.jobs[j].dest = d /\ mem.jobs[j].state \in {"queued", "running"}

\* check_collision: a job that is neither completed nor cancelled holds it.
Reserved(d, others) ==
  \E j \in others \cap DOMAIN mem.jobs :
    mem.jobs[j].dest = d /\ mem.jobs[j].state \notin {"completed", "cancelled"}

\* revalidation_failure, and the state it blocks the job in.
Blocked(j) ==
  LET d == mem.jobs[j].dest IN
  IF source[d] = "missing" THEN {"blocked_input_missing"}
  ELSE IF Reserved(d, Ids \ {j}) \/ output[d] # Absent \/ source[d] # "reviewed"
       THEN {"blocked_stale"} ELSE {}

-----------------------------------------------------------------------------
(* Opening and the short operations.  Each is the whole call of its owner. *)

\* open: takes the lock, reads the file, and turns the job of a worker that
\* exited into an interrupted one.
Abandoned(snap) == {j \in DOMAIN snap.jobs : snap.jobs[j].state = "running"}

Recovered(snap) ==
  [snap EXCEPT !.jobs = [j \in DOMAIN snap.jobs |->
     LET job == snap.jobs[j] IN
     IF j \in Abandoned(snap) THEN Moved(job, "interrupted", Disposition(j, job))
     ELSE job]]

Open(w, result) ==
  /\ owner = None
  /\ IF Abandoned(disk) = {}
     THEN /\ result = "ok"
          /\ mem' = disk
          /\ poisoned' = FALSE
          /\ UNCHANGED <<disk, synced, troubles>>
     ELSE /\ disk' = IF result \in {"ok", "unsynced"} THEN Recovered(disk) ELSE disk
          /\ synced' = IF result = "ok" THEN Recovered(disk) ELSE synced
          /\ mem' = IF result = "ok" THEN Recovered(disk) ELSE mem
          /\ poisoned' = FALSE
          /\ troubles' = IF result = "ok" THEN troubles ELSE troubles + 1
          /\ troubles' <= MaxTroubles
  /\ owner' = IF result = "ok" THEN w ELSE None
  /\ UNCHANGED <<run, cancel, evidenceVars>>

\* Mutant of Drop: another descriptor keeps the lock.
DropInherited ==
  UNCHANGED <<storeVars, owner, run, cancel, evidenceVars, troubles>>

\* Drop: the lock is released.
Drop ==
  /\ owner' = None
  /\ UNCHANGED <<storeVars, run, cancel, evidenceVars, troubles>>

Unrun == UNCHANGED <<owner, run, cancel, evidenceVars>>

MayEnqueue(d) ==
  /\ ~poisoned
  /\ Cardinality(DOMAIN mem.jobs) < MaxJobs
  /\ ~Reserved(d, Ids)
  /\ output[d] = Absent
  /\ source[d] = "reviewed"
  /\ mem.next <= MaxSequence

Enqueue(d, result) ==
  /\ MayEnqueue(d)
  /\ Commit([next |-> mem.next + 1,
             jobs |-> [j \in DOMAIN mem.jobs \cup {mem.next} |->
               IF j = mem.next THEN NewJob(d, j) ELSE mem.jobs[j]]], result)
  /\ Unrun

MayCancel(j) ==
  ~poisoned /\ j \in DOMAIN mem.jobs /\ mem.jobs[j].state = "queued"

CancelQueued(j, result) ==
  /\ MayCancel(j)
  /\ Commit(Put(j, Moved(mem.jobs[j], "cancelled", "none")), result)
  /\ Unrun

Retryable(job) ==
  job.state \in {"failed", "interrupted", "blocked_stale", "blocked_input_missing"}

MayRetry(j) ==
  /\ ~poisoned
  /\ j \in DOMAIN mem.jobs
  /\ Retryable(mem.jobs[j])
  /\ ~RequiresReview(j, mem.jobs[j])
  /\ \/ Blocked(j) # {}
     \/ Len(mem.jobs[j].attempts) < MaxAttempts /\ mem.next <= MaxSequence

\* Mutant of Requeued: the sequence number is used but not taken.
RequeuedUntaken(j) ==
  Put(j, [mem.jobs[j] EXCEPT !.order = mem.next, !.state = "queued",
                             !.retry = "none"])

\* The job goes behind what is already queued.
Requeued(j) ==
  [next |-> mem.next + 1,
   jobs |-> [mem.jobs EXCEPT ![j] =
     [mem.jobs[j] EXCEPT !.order = mem.next, !.state = "queued", !.retry = "none"]]]

Retry(j, result) ==
  /\ MayRetry(j)
  /\ \/ \E s \in Blocked(j) : Commit(Put(j, Moved(mem.jobs[j], s, "restart")), result)
     \/ Blocked(j) = {} /\ Commit(Requeued(j), result)
  /\ Unrun

\* Mutant of Prunable: any job whose work has ended.
PrunableEnded(job) == job.state \notin {"queued", "running"}

\* prune_completed: no failed or interrupted attempt, nothing to review.
Prunable(job) ==
  /\ ToSet(job.attempts) \subseteq {"completed", "cancelled"}
  /\ \/ job.state = "completed"
     \/ job.state = "cancelled" /\ job.retry # "review"

Kept == {j \in DOMAIN mem.jobs : ~Prunable(mem.jobs[j])}

\* prune_completed(0): with nothing to remove, nothing is written.
Prune(result) ==
  /\ ~poisoned
  /\ IF Kept = DOMAIN mem.jobs
     THEN result = "ok" /\ UNCHANGED <<storeVars, troubles>>
     ELSE Commit([mem EXCEPT !.jobs = [j \in Kept |-> mem.jobs[j]]], result)
  /\ Unrun

-----------------------------------------------------------------------------
(* run_next.                                                               *)

QueuedJobs == {j \in DOMAIN mem.jobs : mem.jobs[j].state = "queued"}

FirstQueued == CHOOSE j \in QueuedJobs :
           \A k \in QueuedJobs : mem.jobs[j].order <= mem.jobs[k].order

MayRun == ~poisoned /\ Abandoned(mem) = {} /\ QueuedJobs # {}

\* run_next returns with the job as it is in memory, or with an error.
Returned(j, result) ==
  run' = [at |-> "returned", job |-> j,
          outcome |-> IF result = "ok" THEN mem'.jobs[j].state ELSE "error"]

\* The job is settled before anything runs.
RunSettles(j, s, r, result) ==
  /\ Commit(Put(j, Moved(mem.jobs[j], s, r)), result)
  /\ Returned(j, result)
  /\ UNCHANGED <<owner, cancel, evidenceVars>>

RunCancelled(w, result) ==
  /\ cancel[w]
  /\ RunSettles(FirstQueued, "cancelled", "none", result)

RunBlocked(w, result) ==
  /\ ~cancel[w]
  /\ \E s \in Blocked(FirstQueued) : RunSettles(FirstQueued, s, "restart", result)

Reviewable(j) ==
  Blocked(j) = {} /\ mem.jobs[j].attempts # <<>> /\ RequiresReview(j, mem.jobs[j])

RunReview(w, result) ==
  /\ ~cancel[w]
  /\ Reviewable(FirstQueued)
  /\ RunSettles(FirstQueued, "failed", "review", result)

\* No staging directory, or an occupied journal directory: no attempt.
RunUnprepared(w, result) ==
  /\ ~cancel[w] /\ Blocked(FirstQueued) = {} /\ ~Reviewable(FirstQueued)
  /\ Len(mem.jobs[FirstQueued].attempts) < MaxAttempts
  /\ RunSettles(FirstQueued, "failed", "review", result)

Attempted(job) ==
  [job EXCEPT !.state = "running", !.attempts = Append(@, "running")]

\* Mutant of RunStarts: the conversion starts without recording the attempt
\* durably first.
RunUnrecorded(w, result) ==
  /\ ~cancel[w] /\ Blocked(FirstQueued) = {} /\ ~Reviewable(FirstQueued)
  /\ Len(mem.jobs[FirstQueued].attempts) < MaxAttempts
  /\ result = "ok"
  /\ LET j == FirstQueued
         next == Put(j, Attempted(mem.jobs[j])) IN
     /\ disk' = next /\ mem' = next
     /\ staging' = staging \cup {<<j, Len(mem.jobs[j].attempts) + 1>>}
     /\ run' = [at |-> "converting", job |-> j, outcome |-> "none"]
  /\ UNCHANGED <<synced, poisoned, troubles, owner, cancel, journal, output, source>>

\* The attempt, its staging directory and the running state are durable
\* before the converter runs.  An error drops the staging directory.
RunStarts(w, result) ==
  /\ ~cancel[w] /\ Blocked(FirstQueued) = {} /\ ~Reviewable(FirstQueued)
  /\ Len(mem.jobs[FirstQueued].attempts) < MaxAttempts
  /\ LET j == FirstQueued
         a == <<j, Len(mem.jobs[j].attempts) + 1>> IN
     /\ Commit(Put(j, Attempted(mem.jobs[j])), result)
     /\ IF result = "ok"
        THEN /\ staging' = staging \cup {a}
             /\ run' = [at |-> "converting", job |-> j, outcome |-> "none"]
        ELSE /\ UNCHANGED staging
             /\ Returned(j, result)
  /\ UNCHANGED <<owner, cancel, journal, output, source>>

RunError(w) ==
  /\ \/ poisoned
     \/ Abandoned(mem) # {}
     \/ /\ QueuedJobs # {} /\ ~cancel[w] /\ Blocked(FirstQueued) = {} /\ ~Reviewable(FirstQueued)
        /\ Len(mem.jobs[FirstQueued].attempts) >= MaxAttempts
  /\ run' = [NoRun EXCEPT !.at = "returned", !.outcome = "error"]
  /\ UNCHANGED <<storeVars, owner, cancel, evidenceVars, troubles>>

\* run_next up to the converter: each way it can go.
RunBegins(w, result) ==
  \/ RunError(w) /\ result = "ok"
  \/ MayRun /\ \/ RunCancelled(w, result)
               \/ RunBlocked(w, result)
               \/ RunReview(w, result)
               \/ RunUnprepared(w, result)
               \/ RunStarts(w, result)

Current == <<run.job, Len(mem.jobs[run.job].attempts)>>
RunDest == mem.jobs[run.job].dest

Ends(outcome) ==
  /\ run' = [run EXCEPT !.at = "settling", !.outcome = outcome]
  /\ UNCHANGED <<storeVars, owner, cancel>>

\* The converter stops before publication: the flag, a source or destination
\* that is no longer what was reviewed, a lost staging directory, an I/O or
\* verification error.
ConvertStops(w) ==
  /\ run.at = "converting"
  /\ \/ cancel[w] /\ Ends("cancelled") /\ UNCHANGED troubles
     \/ /\ source[RunDest] # "reviewed" \/ output[RunDest] # Absent
        /\ Ends("stale") /\ UNCHANGED troubles
     \/ Current \notin staging /\ Ends("failed") /\ UNCHANGED troubles
     \/ troubles < MaxTroubles /\ Ends("failed") /\ troubles' = troubles + 1
  /\ UNCHANGED evidenceVars

\* A progress checkpoint that fails stops the converter and run_next returns
\* its error without recording an outcome.
CheckpointFails(w, result) ==
  /\ run.at = "converting"
  /\ result # "ok"
  /\ Commit(mem, result)
  /\ cancel' = [cancel EXCEPT ![w] = TRUE]
  /\ Returned(run.job, result)
  /\ UNCHANGED <<owner, evidenceVars>>

\* Everything is proved again, the flag read, and the Repair transaction
\* writes its journal.
Announce(w) ==
  /\ run.at = "converting"
  /\ ~cancel[w]
  /\ source[RunDest] = "reviewed"
  /\ output[RunDest] = Absent
  /\ Current \in staging
  /\ journal' = [journal EXCEPT ![Current] = "pending"]
  /\ run' = [run EXCEPT !.at = "announced"]
  /\ UNCHANGED <<storeVars, owner, cancel, staging, output, source, troubles>>

\* The output is renamed into place, never over another file.
Publish ==
  /\ run.at = "announced"
  /\ output[RunDest] = Absent /\ Current \in staging
  /\ output' = [output EXCEPT ![RunDest] = Current]
  /\ run' = [run EXCEPT !.at = "published"]
  /\ UNCHANGED <<storeVars, owner, cancel, journal, staging, source, troubles>>

\* Mutant of Confirm: the file at the destination is not verified.
ConfirmUnverified ==
  /\ run.at = "published"
  /\ run' = [run EXCEPT !.at = "settling", !.outcome = "completed"]
  /\ UNCHANGED <<storeVars, owner, cancel, evidenceVars, troubles>>

\* The journal says Applied and the output is verified where it belongs.
Confirm ==
  /\ run.at = "published"
  /\ output[RunDest] = Current
  /\ journal' = [journal EXCEPT ![Current] = "applied"]
  /\ run' = [run EXCEPT !.at = "settling", !.outcome = "completed"]
  /\ UNCHANGED <<storeVars, owner, cancel, staging, output, source, troubles>>

\* The publication is cancelled, fails, or is not confirmed.
PublicationFails(w) ==
  /\ \/ /\ run.at = "announced"
        /\ \/ /\ cancel[w] \/ output[RunDest] # Absent \/ Current \notin staging
              /\ UNCHANGED troubles
           \/ troubles < MaxTroubles /\ troubles' = troubles + 1
     \/ /\ run.at = "published"
        /\ \/ output[RunDest] # Current /\ UNCHANGED troubles
           \/ troubles < MaxTroubles /\ troubles' = troubles + 1
  /\ run' = [run EXCEPT !.at = "undoing"]
  /\ UNCHANGED <<storeVars, owner, cancel, evidenceVars>>

\* An Undo moves the output back to its staging directory, or finds that it
\* was never moved.
Undone(a, d) ==
  \/ /\ output[d] = a /\ a \in staging
     /\ output' = [output EXCEPT ![d] = Absent]
     /\ journal' = [journal EXCEPT ![a] = "rolledback"]
  \/ /\ output[d] # a
     /\ journal[a] = "pending"
     /\ journal' = [journal EXCEPT ![a] = "rolledback"]
     /\ UNCHANGED output

\* The converter rolls its own publication back; that may fail as well.
RollBack ==
  /\ run.at = "undoing"
  /\ \/ Undone(Current, RunDest) /\ UNCHANGED troubles
     \/ troubles < MaxTroubles /\ troubles' = troubles + 1 /\ UNCHANGED <<journal, output>>
     \/ /\ output[RunDest] # Current \/ Current \notin staging
        /\ UNCHANGED <<journal, output, troubles>>
  /\ run' = [run EXCEPT !.at = "settling", !.outcome = "transaction"]
  /\ UNCHANGED <<storeVars, owner, cancel, staging, source>>

\* The state run_next records for each error of the converter.
Settled(w, disposition) ==
  CASE run.outcome = "completed" -> "completed"
    [] run.outcome = "cancelled" -> "cancelled"
    [] run.outcome = "stale" -> "blocked_stale"
    [] run.outcome = "failed" -> "failed"
    [] run.outcome = "transaction" ->
         IF cancel[w] /\ disposition = "restart" THEN "cancelled" ELSE "failed"

\* The outcome is recorded with what the evidence now allows.
Settle(w, result) ==
  /\ run.at = "settling"
  /\ LET job == mem.jobs[run.job]
         r == IF run.outcome = "completed" THEN "none" ELSE Disposition(run.job, job) IN
     Commit(Put(run.job, Moved(job, Settled(w, r), r)), result)
  /\ Returned(run.job, result)
  /\ UNCHANGED <<owner, cancel, evidenceVars>>

-----------------------------------------------------------------------------
(* Outside the queue.                                                      *)

\* The user undoes a publication on the Repair page; a live transaction is
\* refused there.
RepairUndo(a) ==
  /\ journal[a] \in {"pending", "applied"}
  /\ ~(run.at \in {"announced", "published", "undoing"} /\ a = Current)
  /\ \E d \in Dests :
       /\ \/ output[d] = a
          \/ \A e \in Dests : output[e] # a
       /\ Undone(a, d)
  /\ UNCHANGED <<storeVars, owner, run, cancel, staging, source, troubles>>

\* Another program creates or removes a file, changes a source, or removes a
\* staging directory.
External ==
  /\ troubles < MaxTroubles
  /\ troubles' = troubles + 1
  /\ \/ \E d \in Dests, x \in {Absent, Foreign} :
          /\ output[d] # x
          /\ x = Foreign => output[d] = Absent
          /\ output' = [output EXCEPT ![d] = x]
          /\ UNCHANGED <<source, staging>>
     \/ \E d \in Dests, x \in {"reviewed", "changed", "missing"} :
          /\ source[d] # x
          /\ source' = [source EXCEPT ![d] = x]
          /\ UNCHANGED <<output, staging>>
     \/ \E a \in staging :
          /\ staging' = staging \ {a}
          /\ UNCHANGED <<output, source>>
  /\ UNCHANGED <<storeVars, owner, run, cancel, journal>>
=============================================================================
