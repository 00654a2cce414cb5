----------------------- MODULE ConversionController -----------------------
(***************************************************************************)
(* The windows that use the conversion queue (gui gui_v2/wiiu_disc/        *)
(* queue.rs): each has an inbox, at most one worker thread that opens the  *)
(* queue, works through the commands, runs what Start authorised and gives *)
(* the queue back.  What a window shows is left out: any command may be    *)
(* sent about any job, as from a stale view.                               *)
(***************************************************************************)
EXTENDS ConversionQueue

CONSTANTS Buttons,      \* the commands each window's user gives
          MaxCommands,  \* bound: commands sent
          MaxInbox      \* bound: commands that wait

Ops == {"enqueue", "retry", "cancel", "start", "prune", "recover"}

ASSUME ControllerAssumption ==
  /\ Buttons \in [Windows -> SUBSET Ops]
  /\ {MaxCommands, MaxInbox} \subseteq Nat

VARIABLES cmds,     \* Inbox.cmds
          alive,    \* Inbox.alive: a worker owns the inbox
          active,   \* Inbox.active_job
          worker,   \* where the worker thread is
          through,  \* its run_through_order, 0 for None
          sent,
          user      \* history: jobs the user cancelled, starts the user gave

windowVars == <<cmds, alive, active, worker, through, sent, user>>
vars == <<queueVars, windowVars>>

\* A job card is about a job of some snapshot of the queue.
Commands(ids) == [op : {"enqueue"}, arg : Dests]
                 \cup [op : {"retry", "cancel"}, arg : ids]
                 \cup [op : {"start", "prune", "recover"}, arg : {None}]

TypeOK ==
  /\ IsSnapshot(disk) /\ IsSnapshot(synced) /\ IsSnapshot(mem)
  /\ owner \in Windows \cup {None}
  /\ poisoned \in BOOLEAN
  /\ run.job \in Ids \cup {0}
  /\ run.at \in {"idle", "converting", "announced", "published", "undoing",
                 "settling", "returned"}
  /\ cancel \in [Windows -> BOOLEAN]
  /\ journal \in [Attempts -> {"empty", "pending", "applied", "rolledback"}]
  /\ staging \subseteq Attempts
  /\ output \in [Dests -> Attempts \cup {Absent, Foreign}]
  /\ source \in [Dests -> {"reviewed", "changed", "missing"}]
  /\ \A w \in Windows :
       /\ ToSet(cmds[w]) \subseteq Commands(Ids)
       /\ alive[w] <=> worker[w] # "none"
       /\ worker[w] \in {"loop", "selected", "running"} <=> owner = w
       /\ active[w] # None => worker[w] \in {"selected", "running"}
  /\ run.at # "idle" <=> owner # None /\ worker[owner] = "running"
  /\ through \in [Windows -> 0..MaxSequence]
  /\ troubles <= MaxTroubles /\ sent <= MaxCommands

Init ==
  /\ QueueInit
  /\ cmds = [w \in Windows |-> <<>>]
  /\ alive = [w \in Windows |-> FALSE]
  /\ active = [w \in Windows |-> None]
  /\ worker = [w \in Windows |-> "none"]
  /\ through = [w \in Windows |-> 0]
  /\ sent = 0
  /\ user = [cancelled |-> {}, started |-> {}]

-----------------------------------------------------------------------------
(* The window's own thread.                                                *)

\* send: the command is queued and, when no worker owns the inbox, a worker
\* is spawned, both under the inbox lock.
Send(w) ==
  /\ sent < MaxCommands
  /\ sent' = sent + 1
  /\ Len(cmds[w]) < MaxInbox
  /\ \E c \in Commands(DOMAIN disk.jobs) :
       c.op \in Buttons[w] /\ cmds' = [cmds EXCEPT ![w] = Append(@, c)]
  /\ alive' = [alive EXCEPT ![w] = TRUE]
  /\ worker' = [worker EXCEPT ![w] = IF alive[w] THEN @ ELSE "opening"]
  /\ UNCHANGED <<queueVars, active, through, user>>

\* Mutant of CancelRunning: the flag is set whichever job runs.
CancelWhatRuns(w) ==
  /\ sent < MaxCommands
  /\ sent' = sent + 1
  /\ \E j \in DOMAIN disk.jobs :
       /\ user' = [user EXCEPT !.cancelled = @ \cup {j}]
       /\ cancel' = [cancel EXCEPT ![w] = alive[w] \/ @]
  /\ UNCHANGED <<storeVars, owner, run, evidenceVars, troubles, cmds,
                 alive, active, worker, through>>

\* cancel_running: the job on the card may not be the one that runs now.
CancelRunning(w) ==
  /\ sent < MaxCommands
  /\ sent' = sent + 1
  /\ \E j \in DOMAIN disk.jobs :
       /\ user' = [user EXCEPT !.cancelled = @ \cup {j}]
       /\ cancel' = [cancel EXCEPT ![w] = (alive[w] /\ active[w] = j) \/ @]
  /\ UNCHANGED <<storeVars, owner, run, evidenceVars, troubles, cmds,
                 alive, active, worker, through>>

-----------------------------------------------------------------------------
(* The worker thread.                                                      *)

Leaves(w) ==
  /\ alive' = [alive EXCEPT ![w] = FALSE]
  /\ active' = [active EXCEPT ![w] = None]
  /\ worker' = [worker EXCEPT ![w] = "none"]
  /\ through' = [through EXCEPT ![w] = 0]

\* The queue is opened, or the commands are dropped because another window
\* has it or it cannot be recovered.
WorkerOpens(w) ==
  /\ worker[w] = "opening"
  /\ \/ /\ owner # None
        /\ cmds' = [cmds EXCEPT ![w] = <<>>]
        /\ Leaves(w)
        /\ UNCHANGED queueVars
     \/ /\ Open(w, "ok")
        /\ worker' = [worker EXCEPT ![w] = "loop"]
        /\ UNCHANGED <<cmds, alive, active, through>>
     \/ /\ \E result \in Results \ {"ok"} : Open(w, result)
        /\ cmds' = [cmds EXCEPT ![w] = <<>>]
        /\ Leaves(w)
  /\ UNCHANGED <<sent, user>>

HasHead(w) == QueuedJobs # {} /\ mem.jobs[FirstQueued].order <= through[w]

\* Mutant of WorkerLeaves: whether a command waits is not looked at again
\* under the lock.
WorkerLeavesUnlocked(w) ==
  /\ worker[w] = "loop"
  /\ ~HasHead(w)
  /\ Drop
  /\ Leaves(w)
  /\ user' = [user EXCEPT !.started = {}]
  /\ UNCHANGED <<cmds, sent>>

\* Nothing to do: queue and inbox are given back together.
WorkerLeaves(w) ==
  /\ worker[w] = "loop"
  /\ cmds[w] = <<>>
  /\ ~HasHead(w)
  /\ Drop
  /\ Leaves(w)
  /\ user' = [user EXCEPT !.started = {}]
  /\ UNCHANGED <<cmds, sent>>

\* A command is taken; an error, or a retry that only blocked its job, ends
\* what Start authorised.
Taken(w, op) ==
  /\ worker[w] = "loop"
  /\ cmds[w] # <<>>
  /\ Head(cmds[w]).op = op
  /\ cmds' = [cmds EXCEPT ![w] = Tail(@)]
  /\ UNCHANGED <<alive, active, worker, sent>>

Done(w, ok) == through' = [through EXCEPT ![w] = IF ok THEN @ ELSE 0]
Refused(w) == Done(w, FALSE) /\ UNCHANGED queueVars

DoEnqueue(w) ==
  /\ Taken(w, "enqueue")
  /\ LET d == Head(cmds[w]).arg IN
     \/ \E result \in Results : Enqueue(d, result) /\ Done(w, result = "ok")
     \/ ~MayEnqueue(d) /\ Refused(w)
  /\ UNCHANGED user

DoRetry(w) ==
  /\ Taken(w, "retry")
  /\ LET j == Head(cmds[w]).arg IN
     \/ \E result \in Results :
          Retry(j, result) /\ Done(w, result = "ok" /\ Blocked(j) = {})
     \/ ~MayRetry(j) /\ Refused(w)
  /\ UNCHANGED user

DoCancel(w) ==
  /\ Taken(w, "cancel")
  /\ LET j == Head(cmds[w]).arg IN
     /\ user' = [user EXCEPT !.cancelled = @ \cup {j}]
     /\ \/ \E result \in Results : CancelQueued(j, result) /\ Done(w, FALSE)
        \/ ~MayCancel(j) /\ Refused(w)

QueuedOrders == {mem.jobs[j].order : j \in QueuedJobs}

\* Mutant of DoStart: everything that will ever be queued is authorised.
DoStartAll(w) ==
  /\ Taken(w, "start")
  /\ through' = [through EXCEPT ![w] = MaxSequence]
  /\ user' = [user EXCEPT !.started = {<<j, mem.jobs[j].order>> : j \in QueuedJobs}]
  /\ UNCHANGED queueVars

\* Start authorises what is queued now, by its place in the queue.
DoStart(w) ==
  /\ Taken(w, "start")
  /\ through' = [through EXCEPT ![w] = Max({0} \cup QueuedOrders)]
  /\ user' = [user EXCEPT !.started = {<<j, mem.jobs[j].order>> : j \in QueuedJobs}]
  /\ UNCHANGED queueVars

DoPrune(w) ==
  /\ Taken(w, "prune")
  /\ \/ \E result \in Results : Prune(result) /\ Done(w, result = "ok")
     \/ poisoned /\ Refused(w)
  /\ UNCHANGED user

\* Recover only opens the queue.
DoRecover(w) ==
  /\ Taken(w, "recover")
  /\ UNCHANGED <<queueVars, through, user>>

\* The next job becomes the one that can be cancelled, its flag cleared.
Select(w) ==
  /\ worker[w] = "loop"
  /\ cmds[w] = <<>>
  /\ HasHead(w)
  /\ active' = [active EXCEPT ![w] = FirstQueued]
  /\ cancel' = [cancel EXCEPT ![w] = FALSE]
  /\ worker' = [worker EXCEPT ![w] = "selected"]
  /\ UNCHANGED <<storeVars, owner, run, evidenceVars, troubles, cmds,
                 alive, through, sent, user>>

RunNext(w) ==
  /\ worker[w] = "selected"
  /\ \E result \in Results : RunBegins(w, result)
  /\ worker' = [worker EXCEPT ![w] = "running"]
  /\ UNCHANGED <<cmds, alive, active, through, sent, user>>

Work(w) ==
  /\ worker[w] = "running"
  /\ \/ ConvertStops(w) \/ Announce(w) \/ Publish \/ Confirm
     \/ PublicationFails(w) \/ RollBack
     \/ \E result \in Results : CheckpointFails(w, result) \/ Settle(w, result)
  /\ UNCHANGED windowVars

\* Mutant of AfterRun: an error does not end what Start authorised.
AfterRunGoOn(w) ==
  /\ worker[w] = "running"
  /\ run.at = "returned"
  /\ run' = NoRun
  /\ active' = [active EXCEPT ![w] = None]
  /\ worker' = [worker EXCEPT ![w] = "loop"]
  /\ UNCHANGED <<storeVars, owner, cancel, evidenceVars, troubles,
                 cmds, alive, through, sent, user>>

\* run_next returned: anything but a completed, uncancelled job ends what
\* Start authorised.
AfterRun(w) ==
  /\ worker[w] = "running"
  /\ run.at = "returned"
  /\ run' = NoRun
  /\ active' = [active EXCEPT ![w] = None]
  /\ worker' = [worker EXCEPT ![w] = "loop"]
  /\ Done(w, ~cancel[w] /\ run.outcome = "completed")
  /\ UNCHANGED <<storeVars, owner, cancel, evidenceVars, troubles,
                 cmds, alive, sent, user>>

WorkerStep(w) ==
  \/ WorkerOpens(w) \/ WorkerLeaves(w)
  \/ DoEnqueue(w) \/ DoRetry(w) \/ DoCancel(w) \/ DoStart(w) \/ DoPrune(w)
  \/ DoRecover(w) \/ Select(w) \/ RunNext(w) \/ Work(w) \/ AfterRun(w)

-----------------------------------------------------------------------------
\* The process of the windows in W dies; what they worked on stays as it is.
Die(W) ==
  /\ troubles < MaxTroubles
  /\ troubles' = troubles + 1
  /\ cmds' = [w \in Windows |-> IF w \in W THEN <<>> ELSE cmds[w]]
  /\ alive' = [w \in Windows |-> alive[w] /\ w \notin W]
  /\ active' = [w \in Windows |-> IF w \in W THEN None ELSE active[w]]
  /\ worker' = [w \in Windows |-> IF w \in W THEN "none" ELSE worker[w]]
  /\ through' = [w \in Windows |-> IF w \in W THEN 0 ELSE through[w]]
  /\ cancel' = [w \in Windows |-> cancel[w] /\ w \notin W]
  /\ owner' = IF owner \in W THEN None ELSE owner
  /\ run' = IF owner \in W THEN NoRun ELSE run
  /\ user' = [user EXCEPT !.started = IF owner \in W THEN {} ELSE @]
  /\ UNCHANGED <<mem, poisoned, evidenceVars, sent>>

Killed(w) == Die({w}) /\ UNCHANGED <<disk, synced>>
PowerLoss == Die(Windows) /\ disk' = synced /\ UNCHANGED synced

Next ==
  \/ \E w \in Windows : Send(w) \/ CancelRunning(w) \/ WorkerStep(w) \/ Killed(w)
  \/ PowerLoss
  \/ (\E a \in Attempts : RepairUndo(a)) /\ UNCHANGED windowVars
  \/ External /\ UNCHANGED windowVars

Spec == Init /\ [][Next]_vars

\* A worker thread keeps running until it leaves.
FairSpec == Spec /\ \A w \in Windows : WF_vars(WorkerStep(w))

-----------------------------------------------------------------------------
(* Properties.                                                             *)

\* An output the queue put at a destination belongs to the last attempt of a
\* job as it survives a power loss, or of a job whose row was pruned: run_next
\* records the attempt durably before the converter runs (durable.rs:475).
PublicationIsRecorded ==
  \A a \in Attempts : \A d \in Dests : output[d] = a =>
    IF a[1] \in DOMAIN synced.jobs
    THEN a[2] = Len(synced.jobs[a[1]].attempts)
    ELSE a[1] < synced.next

\* However often a job is retried after crashes and Undos, at most one of its
\* attempts has a publication that is not rolled back, and the others' journals
\* are retained (durable.rs:325, 408).
OnePublication ==
  \A j \in Ids : \A m, n \in 1..MaxAttempts :
    m # n => ~({journal[<<j, m>>], journal[<<j, n>>]} \subseteq {"pending", "applied"})

\* Two jobs whose work is not over never share a destination, in what a restart
\* reads (durable.rs:631).
DestinationsReserved ==
  \A j, k \in DOMAIN disk.jobs :
    /\ j # k
    /\ {disk.jobs[j].state, disk.jobs[k].state} \cap {"completed", "cancelled"} = {}
    => disk.jobs[j].dest # disk.jobs[k].dest

\* "You cancelled this conversion. Nothing was published." (queue.rs:86): a
\* job is cancelled only when the user cancelled that job, not the one that ran
\* before it, and none of its attempts has a publication in doubt.  A completed
\* job's output was confirmed: its journal says Applied, or a later Undo rolled
\* it back (durable.rs:538).
OutcomesAreTrue ==
  \A j \in DOMAIN disk.jobs : LET job == disk.jobs[j] IN
    /\ job.state = "cancelled" =>
         /\ j \in user.cancelled
         /\ \A n \in 1..Len(job.attempts) : journal[<<j, n>>] \in {"empty", "rolledback"}
    /\ job.state = "completed" =>
         journal[<<j, Len(job.attempts)>>] \in {"applied", "rolledback"}

\* What a restart reads, also after a power loss, is a queue that inspect
\* accepts: commit never has to refuse a transition, and open never finds its
\* own file invalid (durable.rs:701).
RestartReads == Valid(disk) /\ Valid(synced)

\* A command is never left in an inbox that no worker owns (queue.rs:357).
NoLostCommand == \A w \in Windows : cmds[w] # <<>> => alive[w]

\* The converter starts a job only if the last Start of this session saw it
\* queued at this place: "explicit; never automatic after a restart"
\* (queue.rs:170), and a retry waits for another Start.
OnlyWhatWasStarted ==
  [][(run'.at = "converting" /\ run.at # "converting") =>
       <<run'.job, mem.jobs[run'.job].order>> \in user.started]_vars

\* Short of a power loss that brings the last durable file back, no step
\* forgets or reopens a recorded attempt, and a row that is pruned leaves no
\* publication in doubt: nothing pending, and nothing applied but its completed
\* attempt's output (durable.rs:575).
EvidenceKept ==
  [][disk' # synced =>
     \A j \in DOMAIN disk.jobs :
       LET old == disk.jobs[j].attempts IN
       IF j \in DOMAIN disk'.jobs
       THEN LET new == disk'.jobs[j].attempts IN
            /\ Len(old) <= Len(new)
            /\ \A n \in 1..Len(old) : old[n] = "running" \/ new[n] = old[n]
       ELSE \A n \in 1..Len(old) :
              \/ journal[<<j, n>>] \in {"empty", "rolledback"}
              \/ journal[<<j, n>>] = "applied" /\ old[n] = "completed"
    ]_disk

\* Every worker gives the queue back: no error, cancellation or blocked job
\* at the head makes it go round for ever (queue.rs:427).
WorkersLeave == \A w \in Windows : alive[w] ~> ~alive[w]
=============================================================================
