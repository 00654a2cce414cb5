---------------------- MODULE DatabaseRestoreInductive ----------------------
(***************************************************************************)
(* What a restore, a rollback and the settlement of an interrupted one     *)
(* keep true between their steps: the types, who may touch the directory,  *)
(* what each copy of a receipt says, and how the restores in force lie on  *)
(* each other.                                                             *)
(***************************************************************************)
EXTENDS DatabaseRestore

Effects == {"none", "restored", "rolled back"}

Disks == [names : [Names -> Inodes \cup {0}],
          receipts : [Plans -> Receipts],
          effect : [Plans -> Effects],
          since : [Plans -> BOOLEAN],
          stale : [Plans -> BOOLEAN]]

\* The live path always has a file, and a file one name.
Sound(d) ==
  /\ d.names[Live] # 0
  /\ \A m, n \in Names : m # n /\ d.names[m] # 0 => d.names[m] # d.names[n]

Tasks == [op : {"idle", "restore", "rollback", "finalise"}, at : Steps,
          plan : Plans \cup {None}, receipt : Receipts]
Reviews == [plan : Plans \cup {None}, receipt : Receipts]

TypeInv ==
  /\ disk \in Disks /\ durable \in Disks
  /\ Sound(disk) /\ Sound(durable)
  /\ data \in [Inodes -> Contents]
  /\ lock \in Windows \cup {None}
  /\ plan \in [Plans -> [by : Windows \cup {None}, expects : Contents \cup {None}]]
  /\ held \in [Windows -> Reviews]
  /\ task \in [Windows -> Tasks]
  /\ confirms \in [Plans -> Nat]
  /\ displaced \subseteq Contents
  /\ uses \in 0..MaxUses /\ troubles \in 0..MaxTroubles

\* A worker at a step has a plan, a page that holds a review a completed receipt.
ShapeAt(w) ==
  /\ task[w].op = "idle" <=> task[w].plan = None
  /\ task[w].op = "idle" => task[w].receipt = NoReceipt
  /\ held[w].plan = None => held[w].receipt = NoReceipt
  /\ held[w].plan # None => held[w].receipt.state = "completed"

Unlocked == {"excluding", "refusing"}
RestoreSteps == {"excluding", "validating", "backing up", "staging", "exchanging",
                 "applied", "syncing", "verifying", "removing", "completing",
                 "refusing", "rolling back", "exchanging back", "giving up",
                 "checking"}
RollbackSteps == {"staging", "exchanging", "refusing", "checking"}

\* The directory is changed under the exclusion only, and the files that a
\* worker is about to exchange exist.
LockAt(w) ==
  LET t == task[w] IN
  /\ lock = w => t.op \in {"restore", "rollback"}
  /\ t.op = "restore" =>
       /\ t.at \in RestoreSteps
       /\ t.at \notin Unlocked => lock = w
       /\ lock = w => t.receipt.original # 0
       /\ t.at \in {"backing up", "staging"} =>
            t.receipt.emergency # 0 /\ t.receipt.staged # 0
       /\ t.at = "exchanging" => File(disk, t.receipt.staged) # 0
  /\ t.op = "rollback" =>
       /\ t.at \in RollbackSteps
       /\ lock = w
       /\ t.at = "staging" => t.receipt.rollback # 0 /\ File(disk, t.receipt.emergency) # 0
       /\ t.at \in {"exchanging", "checking"} => File(disk, t.receipt.rollback) # 0

TypeLockInv == TypeInv /\ (\A w \in Windows : ShapeAt(w) /\ LockAt(w))

-----------------------------------------------------------------------------
(* The copies of a plan's receipt.                                         *)

CopiesOf(p) ==
  {disk.receipts[p], durable.receipts[p]}
  \cup {task[w].receipt : w \in {v \in Windows : task[v].plan = p}}
  \cup {held[w].receipt : w \in {v \in Windows : held[v].plan = p}}

\* The safety backup is the library as the restore found it, and stays.
Secured(r, p) ==
  /\ plan[p].expects # None
  /\ r.emergency_sha = plan[p].expects
  /\ r.emergency # 0
  /\ disk.names[r.emergency] # 0
  /\ durable.names[r.emergency] = disk.names[r.emergency]
  /\ data[disk.names[r.emergency]] = plan[p].expects

GoodCopy(r, p) ==
  /\ r.staged_sha \in {None, p} /\ r.applied_sha \in {None, p}
  /\ r.replacement # 0 => r.staged_sha = p
  /\ r.state = "completed" => r.staged_sha = p /\ r.applied_sha = p /\ r.intact = "no"
  /\ r.staged_sha # None => Secured(r, p)

\* No name is an emergency backup and something a step may remove, nor the
\* emergency backup of two plans.
NamesApart ==
  \A p, q \in Plans : \A r \in CopiesOf(p), s \in CopiesOf(q) :
    r.emergency # 0 => /\ r.emergency \notin {s.staged, s.rollback}
                       /\ p # q => r.emergency # s.emergency

\* A worker's receipt at each step, and the live database under its exclusion.
Early == {"excluding", "validating", "backing up", "staging", "refusing"}
StepAt(w) ==
  LET t == task[w]
      r == t.receipt
      p == t.plan IN
  /\ t.op = "restore" =>
       /\ plan[p].expects # None /\ r.state # "completed"
       /\ t.at \in Early => r.staged_sha = None /\ r.replacement = 0
       /\ t.at \notin Early => r.staged_sha = p
       /\ t.at \notin Early \cup {"exchanging"} => r.applied_sha = p
       /\ t.at \in {"backing up", "staging", "exchanging"} => LiveContent = plan[p].expects
       /\ t.at = "staging" => Secured(r, p)
       /\ t.at = "exchanging" =>
            disk.receipts[p].staged_sha = p /\ durable.receipts[p].staged_sha = p
  /\ t.op = "rollback" =>
       /\ r.staged_sha = p /\ r.applied_sha = p /\ r.intact = "no"
       /\ t.at \in {"staging", "exchanging"} => LiveContent = p

CopyInv ==
  /\ \A p \in Plans : \A r \in CopiesOf(p) : GoodCopy(r, p)
  /\ NamesApart
  /\ \A w \in Windows : StepAt(w)

-----------------------------------------------------------------------------
(* One window restores and finalises, each plan once.                      *)

ConfirmedOnce == MaxConfirms \in {0, 1}
OneRestorer ==
  \E w \in Windows : \A v \in Windows \ {w} : Buttons[v] \subseteq {"rollback"}

Pending == Early \cup {"exchanging"}

\* The plan's exchange is yet to come.
Before(p) ==
  \E w \in Windows : task[w].op = "restore" /\ task[w].plan = p /\ task[w].at \in Pending

\* Nobody else works on the plan of a restore, and a rollback keeps its review.
AloneAt(w) ==
  /\ task[w].op = "restore" =>
       /\ "restore" \in Buttons[w]
       /\ disk.receipts[task[w].plan].state # "completed"
       /\ \A v \in Windows : held[v].plan # task[w].plan
       /\ \A v \in Windows \ {w} : task[v].plan # task[w].plan
  /\ task[w].op = "finalise" => "finalise" \in Buttons[w]
  /\ task[w].op = "rollback" => held[w].plan = task[w].plan

Unconfirmed(p) ==
  /\ disk.receipts[p] = NoReceipt /\ durable.receipts[p] = NoReceipt
  /\ disk.effect[p] = "none" /\ durable.effect[p] = "none"
  /\ \A w \in Windows : task[w].plan # p /\ held[w].plan # p

PlanInv ==
  \A p \in Plans :
    /\ confirms[p] \in {0, 1}
    /\ confirms[p] = 0 => Unconfirmed(p)
    /\ plan[p].by # None => plan[p].expects # None /\ "restore" \in Buttons[plan[p].by]
    /\ confirms[p] # 0 => plan[p].expects # None

\* The plan's exchange is over, and every copy of its receipt knows the
\* replacement.
Gone(p) ==
  /\ confirms[p] # 0
  /\ ~Before(p)
  /\ \A r \in CopiesOf(p) : r.staged_sha = p

DisplacedInv ==
  \A c \in displaced \ Plans : \E p \in Plans : plan[p].expects = c /\ Gone(p)

AloneInv == PlanInv /\ \A w \in Windows : AloneAt(w)

KeptInv == CopyInv /\ AloneInv /\ DisplacedInv

-----------------------------------------------------------------------------
(* What a receipt says of the live database.  After a power loss the       *)
(* directory is what it was, what was durable, or a torn mixture.          *)

Torn(d, u) == [d EXCEPT !.receipts = u.receipts, !.stale = u.stale]

Label(effect) == CASE effect = "none" -> "original"
                   [] effect = "restored" -> "replacement"
                   [] effect = "rolled back" -> "rollback"

\* Assess, when live is the file at the live path.
AssessAs(live, r) ==
  IF r.state = "rollback_attempted" /\ r.rollback # 0
  THEN IF live = r.replacement THEN "replacement"
       ELSE IF live = r.rollback_identity THEN "rollback" ELSE "unrecognised"
  ELSE IF \/ r.staged_sha = None
             /\ r.state \notin {"applied", "verification", "rollback_attempted"}
          \/ live = r.original
       THEN "original"
       ELSE IF live = r.replacement THEN "replacement" ELSE "unrecognised"

Open(r) == r.state \notin Terminal \cup {"none"}

\* The receipt is true of the effect, or will be judged so.
Judge(live, effect, r) ==
  /\ r.state \in Terminal =>
       /\ r.intact = "yes" => effect # "restored"
       /\ r.intact = "no" => effect = "restored"
       /\ r.state = "completed" => r.intact = "no"
  /\ Open(r) => AssessAs(live, r) = Label(effect)

Judged(d) ==
  \A p \in Plans :
    ~d.since[p] /\ ~d.stale[p] => Judge(LiveFile(d), d.effect[p], d.receipts[p])

JudgedPair(d, u) == Judged(d) /\ Judged(u) /\ Judged(Torn(d, u))

\* Whatever the live file is, the judgement is the same.
Fixed(r) ==
  \/ ~Open(r)
  \/ r.staged_sha = None /\ r.state \notin {"applied", "verification", "rollback_attempted"}

\* No durable receipt but p's is judged by a file that an exchange moves,
\* unless the exchange marks it.
LagOf(d, u, p) ==
  \A q \in Plans \ {p} :
    u.receipts[q] = d.receipts[q] \/ Fixed(u.receipts[q]) \/ d.since[q]

\* The restores in force lie on each other, the last on the live path.
Tower(live, effect, plans) ==
  /\ live \in Plans => effect[live] = "restored"
  /\ \A p \in Plans : effect[p] = "restored" =>
       /\ plans[p].expects \in Plans => effect[plans[p].expects] = "restored"
       /\ plans[p].expects # live
       /\ \A q \in Plans \ {p} : effect[q] = "restored" => plans[q].expects # plans[p].expects

\* No commit is anywhere before it was made.
Made(c) == c \in Nat => c <= uses

TowerInv ==
  /\ Tower(LiveContent, disk.effect, plan)
  /\ Tower(data[LiveFile(durable)], durable.effect, plan)
  /\ \A i \in Inodes : Made(data[i])
  /\ \A p \in Plans : Made(plan[p].expects)

\* A receipt of a restore between its staging and its end.
Like(a, r) ==
  /\ a.state \in {"staged", "applied", "verification", "rollback_attempted"}
  /\ a.staged_sha # None /\ a.rollback = 0
  /\ a.original = r.original /\ a.replacement = r.replacement

Both(p, r) == disk.receipts[p] = r /\ durable.receipts[p] = r

\* A restore that has exchanged, or exchanged back, the files.
AppliedAt(w) ==
  LET r == task[w].receipt
      p == task[w].plan IN
  /\ Like(r, r) /\ Like(disk.receipts[p], r) /\ Like(durable.receipts[p], r)
  /\ r.replacement # r.original
  /\ IF task[w].at = "checking"
     THEN disk.effect[p] = "none" /\ LiveFile(disk) = r.original
     ELSE disk.effect[p] = "restored" /\ LiveFile(disk) = r.replacement /\ LiveContent = p

RestoreAt(w) ==
  LET t == task[w]
      r == t.receipt
      p == t.plan IN
  /\ r.rollback = 0
  /\ t.at \in Pending => disk.effect[p] = "none"
  /\ t.at \in Early \ {"refusing"} => r.state \in {"validating", "emergency_created"}
  /\ t.at = "excluding" \/ (t.at = "refusing" /\ lock # w) =>
       Fixed(disk.receipts[p]) /\ Fixed(durable.receipts[p])
  /\ t.at \in {"validating", "backing up", "staging", "exchanging"} =>
       LiveFile(disk) = r.original
  /\ t.at = "exchanging" =>
       /\ Both(p, r) /\ r.state = "staged"
       /\ File(disk, r.staged) = r.replacement /\ data[r.replacement] = p
  /\ t.at \notin Pending => AppliedAt(w)
  /\ t.at \notin Early => LagOf(disk, durable, p)

RollbackAt(w) ==
  LET t == task[w]
      r == t.receipt
      p == t.plan IN
  /\ t.at = "refusing" => r.state = "completed" /\ disk.effect[p] = "restored"
  /\ t.at # "refusing" => r.state = "rollback_attempted" /\ r.rollback # 0 /\ Both(p, r)
  /\ t.at \in {"staging", "exchanging"} =>
       disk.effect[p] = "restored" /\ LiveFile(disk) = r.replacement
  /\ t.at = "exchanging" =>
       File(disk, r.rollback) = r.rollback_identity
       /\ data[r.rollback_identity] = plan[p].expects
  /\ t.at = "checking" =>
       /\ disk.effect[p] = "rolled back"
       /\ LiveFile(disk) = r.rollback_identity /\ LiveContent = plan[p].expects
       /\ File(disk, r.rollback) = r.replacement /\ data[r.replacement] = p
  /\ t.at \in {"exchanging", "checking"} => LagOf(disk, durable, p)

RunAt(w) ==
  /\ task[w].op = "restore" => RestoreAt(w)
  /\ task[w].op = "rollback" => RollbackAt(w)
  /\ task[w].op = "finalise" => Open(task[w].receipt)

RunInv == \A w \in Windows : RunAt(w)

TrueInv == JudgedPair(disk, durable) /\ TowerInv /\ RunInv
=============================================================================
