----------------------- MODULE PatchOutputInductive -----------------------
(***************************************************************************)
(* The inductive invariant behind the safety of PatchOutput when attempts  *)
(* and recoveries do not overlap, proved in PatchOutput_proofs.            *)
(***************************************************************************)
EXTENDS PatchOutput

Busy(o) == apply[o].at # ""
Recovering(w) == recover[w].at # ""

\* States under which an output may stand at the destination.
Standing == Announced \cup {"completed", "rolling_back", "rollback_failed"}

\* A journal knows the output's hash once it is prepared, and the receipt's
\* before an output may stand.
Informed(j) ==
  /\ j.state \in Standing \cup {"prepared", "verifying_temporary"} => j.output
  /\ j.state \in Standing => j.receipt

TypeInv ==
  /\ directory \in Seq(Directories) /\ directory # <<>>
  /\ changed \in BOOLEAN
  /\ apply \in [Ops -> [at : ApplySteps, journal : Journals]]
  /\ plans \in [Workers -> [op : Ops \cup {"none"}, action : Actions \cup {"none"},
                            state : States, matches : BOOLEAN]]
  /\ \A w \in Workers :
       plans[w] = NoPlan \/ (plans[w].op \in Ops /\ plans[w].action \in Actions)
  /\ recover \in [Workers -> [at : RecoverSteps, op : Ops \cup {"none"},
                              journal : Journals]]
  /\ \A w \in Workers : IF Recovering(w) THEN recover[w].op \in Ops ELSE recover[w] = Idle
  /\ unread \subseteq Ops
  /\ troubles \in 0..MaxTroubles

\* What holds of the directory at every moment, so also of what a power loss
\* leaves: the announcement knows both hashes, an output at the destination is
\* announced and has its receipt, a terminal journal is true, but for the receipts
\* of the attempts in skipped.
Sound(d, skipped) ==
  /\ \A o \in Ops : LET j == d.journal[o] IN
       /\ Informed(j)
       /\ j.state = "completed" => d.dest = o
       /\ j.state = "rolled_back" => /\ d.dest # o /\ d.temp[o] = "absent"
                                     /\ d.receipt # o \/ o \in skipped
  /\ d.dest \in Ops => d.receipt = d.dest /\ d.journal[d.dest].state \in Standing

AllSound == \A i \in DOMAIN directory : Sound(directory[i], unread)

\* At most one attempt or recovery works at a time.
Exclusive ==
  /\ \A o, p \in Ops : Busy(o) /\ Busy(p) => o = p
  /\ \A v, w \in Workers : Recovering(v) /\ Recovering(w) => v = w
  /\ \A o \in Ops, w \in Workers : ~(Busy(o) /\ Recovering(w))

\* What an attempt knows at each step.
BeforeLink == {"preparing", "producing", "announcing", "writing", "finalising",
               "failing", "publishing", "linking"}
WithOutput == {"announcing", "writing", "finalising", "publishing", "linking",
               "recording", "verifying", "checking"}
WithReceipt == {"publishing", "linking", "recording", "verifying", "checking"}

AttemptKnows(o) ==
  LET at == apply[o].at
      journal == apply[o].journal IN
  /\ at \notin {"", "cleaning"} => Disk.journal[o].state \notin Terminal
  /\ at \in BeforeLink => Disk.dest # o
  /\ at \in WithOutput => journal.output
  /\ at \in WithReceipt => journal.receipt /\ Disk.receipt = o
  /\ at = "linking" => Disk.journal[o].state = "publishing"
  /\ at \in {"recording", "verifying", "checking", "cleaning"} => Disk.dest = o
  /\ at = "cleaning" => Disk.journal[o].state = "completed"

\* What a recovery knows at each step about its attempt.
Resuming == {"announce", "link", "record", "verify", "complete"}
Removing == {"remove temp", "remove receipt", "drop temp", "drop receipt", "finish"}
Announcing == Resuming \cup {"roll back", "remove dest", "remove temp",
                             "remove receipt", "give up"}

RecoveryKnows(w) ==
  LET at == recover[w].at
      o == recover[w].op
      journal == recover[w].journal IN
  /\ at \in Announcing => journal.output /\ journal.receipt
  /\ at \in Resuming \cup {"roll back", "remove dest"} => Disk.receipt = o
  /\ at \in Announcing => Disk.journal[o].state \notin Terminal
  /\ at = "link" => Disk.journal[o].state = "publishing"
  /\ at = "complete" => Disk.dest = o
  /\ at = "clean" => Disk.journal[o].state = "completed"
  /\ at \in {"roll back", "remove dest"} => Disk.dest = o
  /\ at = "remove dest" => Disk.journal[o].state = "rolling_back"
  /\ at \in Removing => Disk.dest \notin Ops
  /\ at \in {"remove receipt", "drop receipt", "finish"} => Disk.temp[o] = "absent"
  /\ at \in {"drop temp", "drop receipt"} /\ ~journal.receipt => Disk.receipt # o
  /\ at = "finish" => Disk.receipt # o \/ o \in unread

\* The inductive invariant.
RecordInv ==
  /\ AllSound
  /\ Exclusive
  /\ \A o \in Ops : AttemptKnows(o)
  /\ \A w \in Workers : Recovering(w) => RecoveryKnows(w)
=============================================================================
