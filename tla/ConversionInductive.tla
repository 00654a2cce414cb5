------------------------ MODULE ConversionInductive ------------------------
(***************************************************************************)
(* The inductive invariant behind the safety of ConversionController,      *)
(* proved in Conversion_proofs.                                            *)
(***************************************************************************)
EXTENDS ConversionController

RunSteps == {"idle", "converting", "announced", "published", "undoing",
             "settling", "returned"}
Outcomes == {"none", "error", "stale", "transaction"} \cup JobStates
WorkerSteps == {"none", "opening", "loop", "selected", "running"}

\* A snapshot is a record whose jobs are a table over some ids.
Snapshot(s) ==
  /\ s = [next |-> s.next, jobs |-> s.jobs]
  /\ s.next \in 1..(MaxSequence + 1)
  /\ DOMAIN s.jobs \subseteq Ids
  /\ s.jobs \in [DOMAIN s.jobs -> Jobs]

QueueTyped ==
  /\ Snapshot(disk) /\ Snapshot(synced) /\ Snapshot(mem)
  /\ owner \in Windows \cup {None}
  /\ poisoned \in BOOLEAN
  /\ run \in [at : RunSteps, job : Ids \cup {0}, outcome : Outcomes]
  /\ cancel \in [Windows -> BOOLEAN]
  /\ journal \in [Attempts -> {"empty", "pending", "applied", "rolledback"}]
  /\ staging \subseteq Attempts
  /\ output \in [Dests -> Attempts \cup {Absent, Foreign}]
  /\ source \in [Dests -> {"reviewed", "changed", "missing"}]
  /\ troubles \in 0..MaxTroubles

WindowTyped ==
  /\ cmds \in [Windows -> Seq(Commands(Ids))]
  /\ alive \in [Windows -> BOOLEAN]
  /\ active \in [Windows -> Ids \cup {None}]
  /\ worker \in [Windows -> WorkerSteps]
  /\ through \in [Windows -> 0..MaxSequence]
  /\ sent \in 0..MaxCommands
  /\ user \in [cancelled : SUBSET Ids, started : SUBSET (Ids \X Ids)]

TypeInv == QueueTyped /\ WindowTyped

-----------------------------------------------------------------------------
(* What holds of every snapshot.                                           *)

\* Two jobs whose work is not over have destinations of their own.
Over(job) == job.state \in {"completed", "cancelled"}
ReservedOnce(s) ==
  \A j, k \in DOMAIN s.jobs :
    j # k /\ ~Over(s.jobs[j]) /\ ~Over(s.jobs[k]) => s.jobs[j].dest # s.jobs[k].dest

\* What the evidence in journals jn and at destinations out says about a job,
\* when the user has cancelled the jobs in can: only its last attempt may have a
\* publication in doubt, and only that one's output may stand, at the job's
\* destination; a job that waits or is cancelled has none; a completed one had it
\* confirmed.
Quiet(jn, j, n) == jn[<<j, n>>] \in {"empty", "rolledback"}

JobEvident(j, job, jn, out, can) ==
  LET last == Len(job.attempts) IN
  /\ \A n \in 1..MaxAttempts :
       /\ n > last => jn[<<j, n>>] = "empty"
       /\ n < last => Quiet(jn, j, n)
       /\ job.state \in {"queued", "cancelled"} => Quiet(jn, j, n)
       /\ \A d \in Dests : out[d] = <<j, n>> => n = last /\ d = job.dest
  /\ job.state = "cancelled" => j \in can
  /\ job.state = "completed" =>
       /\ last > 0 /\ job.attempts[last] = "completed"
       /\ jn[<<j, last>>] \in {"applied", "rolledback"}

\* An id that was not handed out has no evidence.
Evident(s, jn, out, can) ==
  /\ \A j \in DOMAIN s.jobs : JobEvident(j, s.jobs[j], jn, out, can)
  /\ \A j \in Ids, n \in 1..MaxAttempts : j >= s.next =>
       jn[<<j, n>>] = "empty" /\ \A d \in Dests : out[d] # <<j, n>>
  /\ \A j \in Ids \ DOMAIN s.jobs : \A m, n \in 1..MaxAttempts :
       m # n => Quiet(jn, j, m) \/ Quiet(jn, j, n)

Sound(s, jn, out, can) ==
  /\ Snapshot(s)
  /\ Valid(s)
  /\ ReservedOnce(s)
  /\ Evident(s, jn, out, can)

\* A restart reads a sound queue, and the owner of the queue works on one.
SoundQueue ==
  /\ Sound(disk, journal, output, user.cancelled)
  /\ Sound(synced, journal, output, user.cancelled)
  /\ owner # None => Sound(mem, journal, output, user.cancelled)

-----------------------------------------------------------------------------
(* What the windows' workers know.                                         *)

Owning == {"loop", "selected", "running"}

WorkerInv ==
  /\ \A w \in Windows :
       /\ alive[w] <=> worker[w] # "none"
       /\ worker[w] \in Owning <=> owner = w
       /\ active[w] # None => worker[w] \in {"selected", "running"}
       /\ cmds[w] # <<>> => alive[w]
       /\ worker[w] \notin Owning => through[w] = 0
  /\ run.at # "idle" <=> owner # None /\ worker[owner] = "running"

\* What Start authorised lies before what was queued since; the job that was
\* selected is still the first one.
OwnerInv ==
  owner # None =>
    /\ ~poisoned => disk = mem
    /\ through[owner] < mem.next
    /\ \A j \in QueuedJobs : mem.jobs[j].order <= through[owner] =>
         <<j, mem.jobs[j].order>> \in user.started
    /\ worker[owner] = "selected" =>
         /\ HasHead(owner)
         /\ active[owner] = FirstQueued
         /\ cancel[owner] => FirstQueued \in user.cancelled

\* While an attempt runs its record is durable.
Active == RunSteps \ {"idle", "returned"}

RunInv ==
  run.at \in Active =>
    /\ ~poisoned /\ synced = mem
    /\ run.job \in DOMAIN mem.jobs
    /\ mem.jobs[run.job].state = "running"
    /\ active[owner] = run.job
    /\ cancel[owner] => run.job \in user.cancelled
    /\ run.at = "converting" => journal[Current] = "empty"
    /\ run.at \in {"announced", "published", "undoing"} => journal[Current] = "pending"
    /\ run.at = "settling" =>
         /\ run.outcome \in {"completed", "cancelled", "stale", "failed", "transaction"}
         /\ run.outcome = "completed" => journal[Current] \in {"applied", "rolledback"}
         /\ run.outcome = "cancelled" =>
              run.job \in user.cancelled /\ journal[Current] \in {"empty", "rolledback"}

\* The inductive invariant.
QueueInv == TypeInv /\ SoundQueue /\ WorkerInv /\ OwnerInv /\ RunInv
=============================================================================
