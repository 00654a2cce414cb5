--------------------- MODULE DatabaseRestoreTrue_proofs ---------------------
(***************************************************************************)
(* Proofs that a terminal receipt tells the truth and that an interrupted  *)
(* one is classified from the identity of the live file, whatever is left  *)
(* of the directory by a power loss, when one window restores and          *)
(* finalises, each plan once.                                              *)
(***************************************************************************)
EXTENDS DatabaseRestore_proofs

-----------------------------------------------------------------------------
(* What a step makes of the judgement of the receipts *)

LEMMA TornOf ==
  ASSUME NEW d \in Disks, NEW u \in Disks
  PROVE  /\ Torn(d, u).names = d.names /\ Torn(d, u).effect = d.effect
         /\ Torn(d, u).since = d.since
         /\ Torn(d, u).receipts = u.receipts /\ Torn(d, u).stale = u.stale
         /\ Torn(d, u) \in Disks
BY DEF Disks, Torn

LEMMA TornItself ==
  ASSUME NEW d \in Disks, Judged(d)
  PROVE  Judged(Torn(d, d))
BY TornOf DEF Judged, LiveFile

\* The same live file, restores and receipts, but for what went stale.
Alike(e, d) ==
  /\ LiveFile(e) = LiveFile(d) /\ e.effect = d.effect /\ e.since = d.since
  /\ e.receipts = d.receipts
  /\ \A q \in Plans : d.stale[q] => e.stale[q]

LEMMA AlikeJudged ==
  ASSUME NEW d \in Disks, NEW u \in Disks, NEW e \in Disks, JudgedPair(d, u), Alike(e, d)
  PROVE  JudgedPair(e, u) /\ JudgedPair(e, d) /\ JudgedPair(e, e)
<1>1. Judged(d) /\ Judged(u) /\ Judged(Torn(d, u))
  BY DEF JudgedPair
<1>2. Judged(e)
  BY <1>1 DEF Judged, Alike
<1>3. Judged(Torn(e, u))
  BY <1>1, TornOf DEF Judged, Alike, LiveFile
<1>4. Judged(Torn(e, d))
  BY <1>1, TornOf DEF Judged, Alike, LiveFile
<1>5. Judged(Torn(e, e))
  BY <1>2, TornItself
<1> QED BY <1>1, <1>2, <1>3, <1>4, <1>5 DEF JudgedPair

LEMMA WriteJudged ==
  ASSUME NEW d \in Disks, NEW u \in Disks, JudgedPair(d, u),
         NEW p \in Plans, NEW b \in Receipts, NEW result, WriteReceipt(d, u, p, b, result),
         ~d.since[p] /\ ~d.stale[p] => Judge(LiveFile(d), d.effect[p], b)
  PROVE  JudgedPair(disk', durable')
<1> DEFINE e == [d EXCEPT !.receipts[p] = b]
<1>1. /\ e \in Disks /\ e.names = d.names /\ e.effect = d.effect
      /\ e.since = d.since /\ e.stale = d.stale
      /\ e.receipts = [d.receipts EXCEPT ![p] = b]
  BY DEF Disks
<1>2. disk' \in {d, e} /\ durable' \in {disk', u}
  BY DEF WriteReceipt
<1> HIDE DEF e
<1>3. Judged(d) /\ Judged(u) /\ Judged(Torn(d, u))
  BY DEF JudgedPair
<1>4. Judged(e)
  <2> SUFFICES ASSUME NEW q \in Plans, ~e.since[q], ~e.stale[q]
               PROVE  Judge(LiveFile(e), e.effect[q], e.receipts[q])
    BY DEF Judged
  <2>1. d.receipts \in [Plans -> Receipts]
    BY DEF Disks
  <2>2. e.receipts[q] = IF q = p THEN b ELSE d.receipts[q]
    BY <1>1, <2>1
  <2>3. LiveFile(e) = LiveFile(d) /\ ~d.since[q] /\ ~d.stale[q] /\ e.effect[q] = d.effect[q]
    BY <1>1 DEF LiveFile
  <2>4. CASE q = p
    BY <2>2, <2>3, <2>4
  <2>5. CASE q # p
    <3>1. Judge(LiveFile(d), d.effect[q], d.receipts[q])
      BY <1>3, <2>3 DEF Judged
    <3> QED BY <2>2, <2>3, <2>5, <3>1
  <2> QED BY <2>4, <2>5
<1>5. Judged(Torn(e, u))
  BY <1>1, <1>3, TornOf DEF Judged, LiveFile
<1>6. Judged(Torn(d, d)) /\ Judged(Torn(e, e))
  BY <1>1, <1>3, <1>4, TornItself
<1> QED BY <1>2, <1>3, <1>4, <1>5, <1>6 DEF JudgedPair

\* A judgement that the live file has no part in.
LEMMA FixedJudge ==
  ASSUME NEW r, Fixed(r), NEW live, NEW other, NEW effect, Judge(live, effect, r)
  PROVE  Judge(other, effect, r)
<1>1. CASE ~Open(r)
  BY <1>1 DEF Judge
<1>2. CASE /\ r.staged_sha = None
           /\ r.state \notin {"applied", "verification", "rollback_attempted"}
  BY <1>2 DEF Judge, AssessAs
<1> QED BY <1>1, <1>2 DEF Fixed

LEMMA SwapJudged ==
  ASSUME disk \in Disks, Sound(disk), durable \in Disks, JudgedPair(disk, durable),
         NEW p \in Plans, NEW n \in Names, disk.names[n] # 0, NEW effect \in Effects,
         LagOf(disk, durable, p),
         Judge(disk.names[n], effect, disk.receipts[p]),
         Judge(disk.names[n], effect, durable.receipts[p])
  PROVE  JudgedPair(Exchanged(p, n, effect), durable)
<1> DEFINE e == Exchanged(p, n, effect)
<1>1. /\ e \in Disks /\ e.names[Live] = disk.names[n]
      /\ e.receipts = disk.receipts /\ e.stale = disk.stale
      /\ e.effect = [disk.effect EXCEPT ![p] = effect]
      /\ e.since = [q \in Plans |-> disk.since[q] \/
                      (q # p /\ disk.receipts[q].state \notin Terminal \cup {"none"})]
  BY Swapped
<1> HIDE DEF e
<1>2. Judged(disk) /\ Judged(durable) /\ Judged(Torn(disk, durable))
  BY DEF JudgedPair
<1>3. e.effect[p] = effect /\ \A q \in Plans \ {p} : e.effect[q] = disk.effect[q]
  BY <1>1 DEF Disks
<1>4. \A q \in Plans : ~e.since[q] =>
        ~disk.since[q] /\ (q # p => ~Open(disk.receipts[q]))
  BY <1>1 DEF Open
<1>5. Judged(e)
  <2> SUFFICES ASSUME NEW q \in Plans, ~e.since[q], ~e.stale[q]
               PROVE  Judge(LiveFile(e), e.effect[q], e.receipts[q])
    BY DEF Judged
  <2>1. CASE q = p
    BY <1>1, <1>3, <2>1 DEF LiveFile
  <2>2. CASE q # p
    <3>1. Judge(LiveFile(disk), disk.effect[q], disk.receipts[q])
      BY <1>1, <1>2, <1>4 DEF Judged
    <3>2. Fixed(disk.receipts[q])
      BY <1>4, <2>2 DEF Fixed
    <3> QED BY <1>1, <1>3, <2>2, <3>1, <3>2, FixedJudge
  <2> QED BY <2>1, <2>2
<1>6. Judged(Torn(e, durable))
  <2> SUFFICES ASSUME NEW q \in Plans, ~e.since[q], ~durable.stale[q]
               PROVE  Judge(LiveFile(e), e.effect[q], durable.receipts[q])
    BY <1>1, TornOf DEF Judged, LiveFile
  <2>1. CASE q = p
    BY <1>1, <1>3, <2>1 DEF LiveFile
  <2>2. CASE q # p
    <3>1. Judge(LiveFile(disk), disk.effect[q], durable.receipts[q])
      BY <1>2, <1>4, TornOf DEF Judged, LiveFile
    <3>2. Fixed(durable.receipts[q])
      BY <1>4, <2>2 DEF Fixed, LagOf
    <3> QED BY <1>3, <2>2, <3>1, <3>2, FixedJudge
  <2> QED BY <2>1, <2>2
<1> QED BY <1>2, <1>5, <1>6 DEF JudgedPair, e

-----------------------------------------------------------------------------
(* The restores in force *)

LEMMA TowerPush ==
  ASSUME NEW live, NEW effect \in [Plans -> Effects], NEW plans, Tower(live, effect, plans),
         NEW p \in Plans, effect[p] # "restored", plans[p].expects = live
  PROVE  Tower(p, [effect EXCEPT ![p] = "restored"], plans)
<1> DEFINE new == [effect EXCEPT ![p] = "restored"]
<1>1. new[p] = "restored" /\ \A q \in Plans \ {p} : new[q] = effect[q]
  OBVIOUS
<1> HIDE DEF new
<1>2. live # p /\ (live \in Plans => new[live] = "restored")
  BY <1>1 DEF Tower
<1>3. \A q \in Plans \ {p} : new[q] = "restored" =>
        /\ plans[q].expects \in Plans => effect[plans[q].expects] = "restored"
        /\ plans[q].expects # live /\ plans[q].expects # p
  BY <1>1 DEF Tower
<1>4. \A q \in Plans \ {p} : new[q] = "restored" =>
        \A s \in Plans \ {q} : new[s] = "restored" => plans[s].expects # plans[q].expects
  BY <1>1, <1>3 DEF Tower
<1> QED BY <1>1, <1>2, <1>3, <1>4 DEF Tower, new

LEMMA TowerPop ==
  ASSUME NEW effect \in [Plans -> Effects], NEW plans, NEW p \in Plans,
         Tower(p, effect, plans), NEW x \in Effects \ {"restored"}
  PROVE  Tower(plans[p].expects, [effect EXCEPT ![p] = x], plans)
<1> DEFINE new == [effect EXCEPT ![p] = x]
           live == plans[p].expects
<1>1. new[p] # "restored" /\ \A q \in Plans \ {p} : new[q] = effect[q]
  OBVIOUS
<1> HIDE DEF new
<1>2. effect[p] = "restored" /\ live # p
  BY DEF Tower
<1>3. live \in Plans => new[live] = "restored"
  BY <1>1, <1>2 DEF Tower
<1>4. ASSUME NEW q \in Plans, new[q] = "restored"
      PROVE  /\ plans[q].expects \in Plans => new[plans[q].expects] = "restored"
             /\ plans[q].expects # live
             /\ \A s \in Plans \ {q} : new[s] = "restored" => plans[s].expects # plans[q].expects
  BY <1>1, <1>2, <1>4 DEF Tower
<1> QED BY <1>3, <1>4 DEF Tower, new

\* A new commit on the live path.
LEMMA TowerUsed ==
  ASSUME NEW live, NEW effect, NEW plans, Tower(live, effect, plans),
         NEW c, c \notin Plans, \A p \in Plans : plans[p].expects # c
  PROVE  Tower(c, effect, plans)
BY DEF Tower

LEMMA TowerPlans ==
  ASSUME NEW live, NEW effect, NEW plans, NEW other, Tower(live, effect, plans),
         \A p \in Plans : effect[p] = "restored" => other[p].expects = plans[p].expects
  PROVE  Tower(live, effect, other)
BY DEF Tower

\* A step that brings no commit from nowhere, and leaves the two images on
\* towers of their own.
LEMMA TowerNext ==
  ASSUME TypeInv, TowerInv, uses' = uses, PlansStay,
         \A i \in Inodes : Made(data'[i]),
         Tower(LiveContent', disk'.effect, plan),
         Tower(data'[LiveFile(durable')], durable'.effect, plan)
  PROVE  TowerInv'
<1>1. \A p \in Plans : plan'[p].expects = plan[p].expects
  BY DEF PlansStay
<1>2. /\ Tower(LiveContent', disk'.effect, plan')
      /\ Tower(data'[LiveFile(durable')], durable'.effect, plan')
  BY <1>1, TowerPlans
<1>3. /\ \A i \in Inodes : Made(data[i])'
      /\ \A p \in Plans : Made(plan[p].expects)'
  BY <1>1 DEF TowerInv, Made
<1> QED BY <1>2, <1>3 DEF TowerInv

LEMMA TowerSame ==
  ASSUME TypeInv, TowerInv, uses' = uses, PlansStay,
         LiveContent' = LiveContent, disk'.effect = disk.effect,
         data'[LiveFile(durable)] = data[LiveFile(durable)],
         \/ LiveFile(durable') = LiveFile(durable) /\ durable'.effect = durable.effect
         \/ LiveFile(durable') = LiveFile(disk') /\ durable'.effect = disk'.effect,
         \A i \in Inodes : Made(data'[i])
  PROVE  TowerInv'
<1>1. Tower(LiveContent', disk'.effect, plan)
  BY DEF TowerInv
<1>2. LiveContent' = data'[LiveFile(disk')]
  BY DEF LiveContent
<1>3. Tower(data'[LiveFile(durable')], durable'.effect, plan)
  BY <1>1, <1>2 DEF TowerInv
<1> QED BY <1>1, <1>3, TowerNext

\* The same when no file is written.
LEMMA TowerCalm ==
  ASSUME TypeInv, TowerInv, UNCHANGED <<uses, data>>, PlansStay,
         LiveFile(disk') = LiveFile(disk), disk'.effect = disk.effect,
         \/ LiveFile(durable') = LiveFile(durable) /\ durable'.effect = durable.effect
         \/ LiveFile(durable') = LiveFile(disk') /\ durable'.effect = disk'.effect
  PROVE  TowerInv'
<1>1. LiveContent' = LiveContent
  BY DEF LiveContent
<1>2. \A i \in Inodes : Made(data'[i])
  BY DEF TowerInv
<1> QED BY <1>1, <1>2, TowerSame

-----------------------------------------------------------------------------
(* What a step leaves of the other workers *)

LEMMA RollExpects ==
  ASSUME TypeLockInv, KeptInv, NEW v \in Windows, task[v].op \in {"restore", "rollback"}
  PROVE  task[v].plan \in Plans /\ plan[task[v].plan].expects # None
<1>1. PICK p, r : p = task[v].plan /\ r = task[v].receipt
  OBVIOUS
<1>2. p \in Plans /\ GoodCopy(r, p) /\ StepAt(v)
  BY <1>1, WorkerFacts
<1>3. CASE task[v].op = "restore"
  BY <1>1, <1>2, <1>3 DEF StepAt
<1>4. CASE task[v].op = "rollback"
  <2>1. r.staged_sha = p
    BY <1>1, <1>2, <1>4 DEF StepAt
  <2> QED BY <1>1, <1>2, <2>1, NoneApart DEF GoodCopy, Secured
<1> QED BY <1>1, <1>2, <1>3, <1>4

LEMMA RunKept ==
  ASSUME TypeLockInv, KeptInv, NEW v \in Windows, RunAt(v), task'[v] = task[v], ExpectsKept,
         lock' = v <=> lock = v, NEW p, p = task[v].plan,
         task[v].op \in {"restore", "rollback"} =>
           /\ disk'.receipts[p] = disk.receipts[p]
           /\ durable'.receipts[p] \in {durable.receipts[p], disk.receipts[p]}
           /\ disk'.effect[p] = disk.effect[p],
         lock = v =>
           /\ disk'.names = disk.names /\ data' = data
           /\ LagOf(disk, durable, p) => LagOf(disk', durable', p)
  PROVE  RunAt(v)'
<1>1. LockAt(v)
  BY DEF TypeLockInv
<1>2. lock = v => /\ LiveFile(disk') = LiveFile(disk) /\ LiveContent' = LiveContent
                  /\ \A n : File(disk', n) = File(disk, n)
  BY DEF LiveFile, LiveContent, File
<1>3. CASE task[v].op = "restore"
  <2>1. RestoreAt(v)
    BY <1>3 DEF RunAt
  <2>2. CASE lock # v
    <3>1. task[v].at \in {"excluding", "refusing"}
      BY <1>1, <1>3, <2>2 DEF LockAt, Unlocked
    <3> QED BY <1>3, <2>1, <2>2, <3>1 DEF RestoreAt, RunAt, Pending, Early
  <2>3. CASE lock = v
    <3>1. task[v].at \notin Pending => AppliedAt(v)'
      BY <1>2, <1>3, <2>1, <2>3 DEF RestoreAt, AppliedAt
    <3>2. RestoreAt(v)'
      BY <1>2, <1>3, <2>1, <2>3, <3>1 DEF RestoreAt, Both
    <3> QED BY <1>3, <3>2 DEF RunAt
  <2> QED BY <2>2, <2>3
<1>4. CASE task[v].op = "rollback"
  <2>1. RollbackAt(v) /\ lock = v
    BY <1>1, <1>4 DEF RunAt, LockAt
  <2>2. plan'[p].expects = plan[p].expects
    BY <1>4, RollExpects DEF ExpectsKept
  <2>3. RollbackAt(v)'
    BY <1>2, <1>4, <2>1, <2>2 DEF RollbackAt, Both
  <2> QED BY <1>4, <2>3 DEF RunAt
<1>5. CASE task[v].op \notin {"restore", "rollback"}
  BY <1>5 DEF RunAt
<1> QED BY <1>3, <1>4, <1>5

\* A step that touches no file and writes only the receipt of p, without the
\* exclusion.
Quiet(p) ==
  /\ disk'.names = disk.names /\ disk'.effect = disk.effect /\ disk'.since = disk.since
  /\ data' = data /\ durable' \in {durable, disk'}
  /\ Fixed(durable.receipts[p])

LEMMA LagQuiet ==
  ASSUME NEW p \in Plans, NEW b, Written(p, b), Quiet(p),
         NEW q, LagOf(disk, durable, q)
  PROVE  LagOf(disk', durable', q)
<1> SUFFICES ASSUME NEW s \in Plans \ {q}
             PROVE  \/ durable'.receipts[s] = disk'.receipts[s] \/ Fixed(durable'.receipts[s])
                    \/ disk'.since[s]
  BY DEF LagOf
<1>1. CASE durable' = disk'
  BY <1>1
<1>2. CASE durable' = durable /\ s = p
  BY <1>2 DEF Quiet
<1>3. CASE durable' = durable /\ s # p
  BY <1>3 DEF LagOf, Written, Quiet
<1> QED BY <1>1, <1>2, <1>3 DEF Quiet

LEMMA OthersRun ==
  ASSUME TypeLockInv, KeptInv, RunInv, NEW w \in Windows, task[w].op # "idle",
         NEW p, p = task[w].plan, NEW b, Written(p, b), EffectsKept(p), Stepped(w),
         lock' = lock \/ (lock = w /\ lock' = None) \/ (lock = None /\ lock' = w),
         lock \in Windows \ {w} => (UNCHANGED <<disk, durable, data>>
                                    \/ (task[w].op = "restore" /\ Quiet(p))),
         NEW v \in Windows \ {w}
  PROVE  RunAt(v)'
<1>1. /\ RunAt(v) /\ task'[v] = task[v] /\ p \in Plans /\ AloneInv
  BY WorkerFacts DEF RunInv, Stepped, KeptInv
<1>2. ExpectsKept
  BY DEF Stepped, PlansStay, ExpectsKept
<1>3. lock' = v <=> lock = v
  BY NoneApart
<1>4. PICK q : q = task[v].plan
  OBVIOUS
<1>5. CASE lock = v
  <2>1. CASE UNCHANGED <<disk, durable, data>>
    BY <1>1, <1>2, <1>3, <1>4, <2>1, RunKept
  <2>2. CASE task[w].op = "restore" /\ Quiet(p)
    <3>1. q # p
      BY <1>1, <1>4, <2>2 DEF AloneInv, AloneAt
    <3>2. task[v].op \in {"restore", "rollback"} => q \in Plans
      BY <1>4, RollExpects
    <3>3. task[v].op \in {"restore", "rollback"} =>
            /\ disk'.receipts[q] = disk.receipts[q]
            /\ durable'.receipts[q] \in {durable.receipts[q], disk.receipts[q]}
            /\ disk'.effect[q] = disk.effect[q]
      BY <2>2, <3>1, <3>2 DEF Written, Quiet
    <3>4. LagOf(disk, durable, q) => LagOf(disk', durable', q)
      BY <1>1, <2>2, LagQuiet
    <3>5. disk'.names = disk.names /\ data' = data
      BY <2>2 DEF Quiet
    <3> QED BY <1>1, <1>2, <1>3, <1>4, <3>3, <3>4, <3>5, RunKept
  <2> QED BY <1>5, <2>1, <2>2
<1>6. CASE lock # v
  <2>1. CASE task[v].op = "restore"
    <3>1. q # p /\ q \in Plans
      BY <1>1, <1>4, <2>1, NoOtherRestore, RollExpects
    <3>2. /\ disk'.receipts[q] = disk.receipts[q]
          /\ durable'.receipts[q] \in {durable.receipts[q], disk.receipts[q]}
          /\ disk'.effect[q] = disk.effect[q]
      BY <3>1 DEF Written, EffectsKept
    <3> QED BY <1>1, <1>2, <1>3, <1>4, <1>6, <3>2, RunKept
  <2>2. CASE task[v].op # "restore"
    <3>1. task[v].op # "rollback"
      BY <1>6 DEF TypeLockInv, LockAt
    <3> QED BY <1>1, <1>2, <1>3, <1>4, <1>6, <2>2, <3>1, RunKept
  <2> QED BY <2>1, <2>2
<1> QED BY <1>5, <1>6

\* A worker's step keeps the invariant, given what it must show of its own.
LEMMA TrueMoves ==
  ASSUME TypeLockInv, KeptInv, TrueInv, NEW w \in Windows, task[w].op # "idle",
         NEW p, p = task[w].plan, NEW b, Written(p, b), EffectsKept(p), Stepped(w),
         lock' = lock \/ (lock = w /\ lock' = None) \/ (lock = None /\ lock' = w),
         lock \in Windows \ {w} => (UNCHANGED <<disk, durable, data>>
                                    \/ (task[w].op = "restore" /\ Quiet(p))),
         JudgedPair(disk', durable'), TowerInv', RunAt(w)'
  PROVE  TrueInv'
<1>1. \A v \in Windows \ {w} : RunAt(v)'
  BY OthersRun DEF TrueInv
<1>2. RunInv'
  BY <1>1 DEF RunInv
<1> QED BY <1>2 DEF TrueInv

LEMMA TrueReturns ==
  ASSUME TypeLockInv, KeptInv, TrueInv, NEW w \in Windows, task[w].op # "idle",
         NEW p, p = task[w].plan, NEW b, Written(p, b), EffectsKept(p), Return(w),
         UNCHANGED confirms, PlansStay,
         held' = held \/ held' = [held EXCEPT ![w] = NoReview],
         lock \in Windows \ {w} => (UNCHANGED <<disk, durable, data>>
                                    \/ (task[w].op = "restore" /\ Quiet(p))),
         JudgedPair(disk', durable'), TowerInv'
  PROVE  TrueInv'
<1>1. p \in Plans /\ TypeInv
  BY WorkerFacts
<1>2. Stepped(w) /\ task'[w] = Idle
  BY <1>1, ReturnStepped
<1>3. lock' = lock \/ (lock = w /\ lock' = None)
  BY <1>1, Returned
<1>4. RunAt(w)'
  BY <1>2, IdleFields DEF RunAt
<1> QED BY <1>2, <1>3, <1>4, TrueMoves

\* A receipt is written, and the live file is what it was.
LEMMA CalmWrite ==
  ASSUME TypeInv, TrueInv, UNCHANGED <<uses, data>>, PlansStay,
         NEW p \in Plans, NEW b \in Receipts, NEW d \in Disks, Alike(d, disk),
         NEW s \in {durable, disk}, NEW result, WriteReceipt(d, s, p, b, result),
         ~d.since[p] /\ ~d.stale[p] => Judge(LiveFile(disk), disk.effect[p], b)
  PROVE  /\ JudgedPair(disk', durable') /\ TowerInv'
         /\ Written(p, b) /\ EffectsKept(p)
         /\ LiveFile(disk') = LiveFile(disk) /\ LiveContent' = LiveContent
         /\ disk'.effect = disk.effect /\ disk'.since = disk.since
         /\ disk'.names = d.names /\ disk'.receipts[p] \in {disk.receipts[p], b}
         /\ durable' \in {disk', s}
         /\ result = "ok" => durable' = disk' /\ disk'.receipts[p] = b
<1>1. disk \in Disks /\ durable \in Disks /\ JudgedPair(disk, durable) /\ TowerInv
  BY DEF TypeInv, TrueInv
<1>2. JudgedPair(d, durable) /\ JudgedPair(d, disk)
  BY <1>1, AlikeJudged
<1>3. LiveFile(d) = LiveFile(disk) /\ d.effect = disk.effect /\ d.since = disk.since
      /\ d.receipts = disk.receipts
  BY DEF Alike
<1>4. JudgedPair(disk', durable')
  BY <1>1, <1>2, <1>3, WriteJudged
<1>5. /\ Written(p, b) /\ disk'.names = d.names /\ disk'.effect = d.effect
      /\ disk'.since = d.since /\ disk'.receipts[p] \in {disk.receipts[p], b}
      /\ result = "ok" => durable' = disk' /\ disk'.receipts[p] = b
  BY <1>1, <1>3, WriteWritten
<1>6. durable' \in {disk', s}
  BY DEF WriteReceipt
<1>7. LiveFile(disk') = LiveFile(disk) /\ LiveContent' = LiveContent
  BY <1>3, <1>5 DEF LiveFile, LiveContent
<1>8. TowerInv'
  <2>1. \/ LiveFile(durable') = LiveFile(durable) /\ durable'.effect = durable.effect
        \/ LiveFile(durable') = LiveFile(disk') /\ durable'.effect = disk'.effect
    BY <1>3, <1>5, <1>6, <1>7
  <2> QED BY <1>1, <1>3, <1>5, <1>7, <2>1, TowerCalm
<1>9. EffectsKept(p)
  BY <1>3, <1>5, <1>6 DEF EffectsKept
<1> QED BY <1>3, <1>4, <1>5, <1>6, <1>7, <1>8, <1>9

LEMMA AlikeItself ==
  /\ Alike(disk, disk)
  /\ \A n \in Names : TypeInv => Alike(Without(disk, n), disk) /\ Without(disk, n) \in Disks
<1>1. Alike(disk, disk)
  BY DEF Alike
<1>2. ASSUME NEW n \in Names, TypeInv
      PROVE  Alike(Without(disk, n), disk) /\ Without(disk, n) \in Disks
  BY <1>2, Removed DEF TypeInv, Alike, LiveFile
<1> QED BY <1>1, <1>2

\* No receipt is written, and the live file is what it was.
LEMMA CalmStep ==
  ASSUME TypeInv, TrueInv, UNCHANGED <<uses, data>>, PlansStay,
         disk' \in Disks, Alike(disk', disk), durable' \in {durable, disk'}, NEW p \in Plans
  PROVE  /\ JudgedPair(disk', durable') /\ TowerInv'
         /\ \A b : Written(p, b)
         /\ EffectsKept(p)
         /\ LiveFile(disk') = LiveFile(disk) /\ LiveContent' = LiveContent
         /\ disk'.effect = disk.effect /\ disk'.since = disk.since
         /\ disk'.receipts = disk.receipts
<1>1. disk \in Disks /\ durable \in Disks /\ JudgedPair(disk, durable) /\ TowerInv
  BY DEF TypeInv, TrueInv
<1>2. /\ LiveFile(disk') = LiveFile(disk) /\ disk'.effect = disk.effect
      /\ disk'.since = disk.since /\ disk'.receipts = disk.receipts
  BY DEF Alike
<1>3. JudgedPair(disk', durable) /\ JudgedPair(disk', disk')
  BY <1>1, AlikeJudged
<1>4. JudgedPair(disk', durable')
  BY <1>3
<1>5. LiveContent' = LiveContent
  BY <1>2 DEF LiveContent
<1>6. TowerInv'
  BY <1>1, <1>2, TowerCalm
<1>7. EffectsKept(p) /\ \A b : Written(p, b)
  BY <1>2, NothingWritten
<1> QED BY <1>2, <1>4, <1>5, <1>6, <1>7

\* A copy is made beside the database, or is not.
LEMMA CopyTrue ==
  ASSUME TypeInv, TrueInv, UNCHANGED uses, PlansStay, NEW w \in Windows,
         NEW p \in Plans, p = task[w].plan, NEW name \in Names \ {Live}, NEW content, Made(content),
         NEW receipt \in [Inodes -> Receipts], NEW next, NEW without,
         CopyRecorded(w, name, content, receipt, next, without),
         \A i \in Inodes : Judge(LiveFile(disk), disk.effect[p], receipt[i])
  PROVE  /\ JudgedPair(disk', durable') /\ TowerInv'
         /\ LiveFile(disk') = LiveFile(disk) /\ LiveContent' = LiveContent
         /\ disk'.effect = disk.effect /\ disk'.since = disk.since
<1>1. /\ disk \in Disks /\ durable \in Disks /\ JudgedPair(disk, durable) /\ TowerInv
      /\ data \in [Inodes -> Contents] /\ Sound(disk)
  BY DEF TypeInv, TrueInv
<1>2. CASE UNCHANGED <<disk, durable, data>>
  <2>1. Alike(disk', disk)
    BY <1>2 DEF Alike
  <2> QED BY <1>1, <1>2, <2>1, CalmStep
<1>3. ASSUME NEW i \in Inodes, NEW result \in Writes, NewInode(i),
             data' = [data EXCEPT ![i] = content],
             LET d == [disk EXCEPT !.names[name] = i] IN
             IF result = "ok"
             THEN /\ WriteReceipt(d, durable, task[w].plan, receipt[i], result)
                  /\ Go(w, next, receipt[i])
             ELSE /\ WriteReceipt(disk, durable, task[w].plan, receipt[i], result)
                  /\ Go(w, "refusing", without)
      PROVE  /\ JudgedPair(disk', durable') /\ TowerInv'
             /\ LiveFile(disk') = LiveFile(disk) /\ LiveContent' = LiveContent
             /\ disk'.effect = disk.effect /\ disk'.since = disk.since
  <2> DEFINE d == [disk EXCEPT !.names[name] = i]
  <2>1. \A m \in Names : disk.names[m] # i /\ durable.names[m] # i
    BY <1>3, FreshInode
  <2>2. /\ d \in Disks /\ d.names = [disk.names EXCEPT ![name] = i]
        /\ d.receipts = disk.receipts /\ d.effect = disk.effect
        /\ d.since = disk.since /\ d.stale = disk.stale
    BY <1>1 DEF Disks
  <2>3. LiveFile(d) = LiveFile(disk)
    BY <1>1, <2>2, LiveIsAName DEF LiveFile, Disks
  <2>4. Alike(d, disk)
    BY <2>2, <2>3 DEF Alike
  <2>5. PICK e \in {d, disk} : WriteReceipt(e, durable, p, receipt[i], result)
    BY <1>3
  <2> HIDE DEF d
  <2>6. e \in Disks /\ Alike(e, disk) /\ receipt[i] \in Receipts
    BY <1>1, <2>2, <2>4, <2>5, AlikeItself
  <2>7. JudgedPair(e, durable) /\ LiveFile(e) = LiveFile(disk) /\ e.effect = disk.effect
        /\ e.since = disk.since /\ e.receipts = disk.receipts
    BY <1>1, <2>6, AlikeJudged DEF Alike
  <2>8. JudgedPair(disk', durable')
    BY <1>1, <2>5, <2>6, <2>7, WriteJudged
  <2>9. /\ disk'.names = e.names /\ disk'.effect = disk.effect /\ disk'.since = disk.since
        /\ durable' \in {disk', durable}
    BY <1>1, <2>5, <2>6, <2>7, WriteWritten DEF WriteReceipt
  <2>10. LiveFile(disk') = LiveFile(disk)
    BY <2>7, <2>9 DEF LiveFile
  <2>11. /\ data'[LiveFile(disk)] = data[LiveFile(disk)]
         /\ data'[LiveFile(durable)] = data[LiveFile(durable)]
    BY <1>1, <1>3, <2>1, LiveIsAName, Types DEF LiveFile
  <2>12. LiveContent' = LiveContent
    BY <2>10, <2>11 DEF LiveContent
  <2>13. \A j \in Inodes : Made(data'[j])
    BY <1>1, <1>3 DEF TowerInv
  <2>14. TowerInv'
    BY <1>1, <2>9, <2>11, <2>12, <2>13, TowerSame
  <2> QED BY <2>8, <2>9, <2>10, <2>12, <2>14
<1> QED BY <1>2, <1>3 DEF CopyRecorded

-----------------------------------------------------------------------------
(* The steps of a restore *)

LEMMA JudgeEarly ==
  ASSUME NEW r, r.staged_sha = None, NEW live,
         r.state \notin {"applied", "verification", "rollback_attempted", "completed",
                         "failed", "rolled_back", "rollback_failed"}
  PROVE  Judge(live, "none", r)
BY DEF Judge, AssessAs, Label, Terminal

LEMMA ExcludeTrue ==
  ASSUME TypeLockInv, KeptInv, TrueInv, NEW w \in Windows, Exclude(w)
  PROVE  TrueInv'
<1>1. PICK p, r, l : p = task[w].plan /\ r = task[w].receipt /\ l = LiveFile(disk)
  OBVIOUS
<1> DEFINE b == [r EXCEPT !.original = l]
<1>2. /\ task[w].op = "restore" /\ task[w].at = "excluding"
      /\ "validating" \in Steps /\ "refusing" \in Steps
  BY DEF Exclude, At, Steps
<1>3. TypeInv /\ p \in Plans /\ r \in Receipts /\ l \in Inodes
  BY <1>1, <1>2, WorkerFacts, Types
<1>4. /\ b \in Receipts /\ b.original = l /\ b.rollback = r.rollback /\ b.state = r.state
  BY <1>3 DEF Receipts
<1>5. /\ UNCHANGED <<disk, durable, data, confirms, plan, held, uses>>
      /\ \/ lock' = w /\ lock = None /\ Go(w, "validating", b)
         \/ lock' = lock /\ Go(w, "refusing", r)
  BY <1>1 DEF Exclude, Same
<1> HIDE DEF b
<1>6. disk' \in Disks /\ Alike(disk', disk) /\ PlansStay
  BY <1>3, <1>5, PlansSame DEF TypeInv, Alike
<1>7. /\ JudgedPair(disk', durable') /\ TowerInv' /\ Written(p, r) /\ EffectsKept(p)
  BY <1>3, <1>5, <1>6, CalmStep
<1>8. RestoreAt(w)
  BY <1>2 DEF TrueInv, RunInv, RunAt
<1>9. RunAt(w)' /\ Stepped(w)
  <2>1. CASE lock' = w /\ Go(w, "validating", b)
    <3>1. /\ task'[w].op = "restore" /\ task'[w].plan = p /\ Stepped(w)
          /\ task'[w].at = "validating" /\ task'[w].receipt = b
      BY <1>1, <1>2, <1>3, <1>4, <1>5, <2>1, GoStepped
    <3>2. RestoreAt(w)'
      BY <1>1, <1>2, <1>4, <1>5, <1>8, <3>1 DEF RestoreAt, Early, Pending
    <3> QED BY <3>1, <3>2 DEF RunAt
  <2>2. CASE lock' = lock /\ Go(w, "refusing", r)
    <3>1. /\ task'[w].op = "restore" /\ task'[w].plan = p /\ Stepped(w)
          /\ task'[w].at = "refusing" /\ task'[w].receipt = r
      BY <1>1, <1>2, <1>3, <1>5, <2>2, GoStepped
    <3>2. RestoreAt(w)'
      BY <1>1, <1>2, <1>5, <1>8, <3>1 DEF RestoreAt, Early, Pending
    <3> QED BY <3>1, <3>2 DEF RunAt
  <2> QED BY <1>5, <2>1, <2>2
<1>10. lock' = lock \/ (lock = None /\ lock' = w)
  BY <1>5
<1> QED BY <1>1, <1>2, <1>5, <1>7, <1>9, <1>10, TrueMoves

LEMMA RefuseTrue ==
  ASSUME TypeLockInv, KeptInv, TrueInv, NEW w \in Windows, Refuse(w)
  PROVE  TrueInv'
<1>1. PICK p, r : p = task[w].plan /\ r = task[w].receipt
  OBVIOUS
<1> DEFINE b == [r EXCEPT !.state = "failed", !.intact = "yes"]
<1>2. task[w].op = "restore" /\ task[w].at = "refusing"
  BY DEF Refuse, At
<1>3. TypeInv /\ p \in Plans /\ r \in Receipts /\ disk \in Disks
  BY <1>1, <1>2, WorkerFacts
<1>4. b \in Receipts /\ b.state = "failed" /\ b.intact = "yes"
  BY <1>3 DEF Receipts, States
<1>5. /\ UNCHANGED <<data, confirms, plan, held, uses>> /\ Return(w)
      /\ \E result \in Writes : WriteReceipt(disk, durable, p, b, result)
  BY <1>1 DEF Refuse, Same
<1> HIDE DEF b
<1>6. RestoreAt(w)
  BY <1>2 DEF TrueInv, RunInv, RunAt
<1>7. disk.effect[p] = "none"
  BY <1>1, <1>2, <1>6 DEF RestoreAt, Pending, Early
<1>8. Judge(LiveFile(disk), disk.effect[p], b)
  BY <1>4, <1>7 DEF Judge, Open, Terminal
<1>9. PlansStay /\ Alike(disk, disk)
  BY <1>5, PlansSame, AlikeItself
<1>10. /\ JudgedPair(disk', durable') /\ TowerInv' /\ Written(p, b) /\ EffectsKept(p)
       /\ disk'.effect = disk.effect /\ disk'.since = disk.since
       /\ disk'.names = disk.names /\ durable' \in {disk', durable}
  BY <1>3, <1>4, <1>5, <1>8, <1>9, CalmWrite
<1>11. lock # w => Quiet(p)
  BY <1>1, <1>2, <1>5, <1>6, <1>10 DEF RestoreAt, Quiet
<1>12. lock \in Windows \ {w} => (task[w].op = "restore" /\ Quiet(p))
  BY <1>2, <1>11
<1> QED BY <1>1, <1>2, <1>5, <1>9, <1>10, <1>12, TrueReturns

\* Where a restore stands before its exchange.
LEMMA EarlyFacts ==
  ASSUME TypeLockInv, KeptInv, TrueInv, NEW w \in Windows, task[w].op = "restore",
         task[w].at \in {"validating", "backing up", "staging"},
         NEW p, p = task[w].plan, NEW r, r = task[w].receipt
  PROVE  /\ TypeInv /\ p \in Plans /\ r \in Receipts /\ disk \in Disks /\ durable \in Disks
         /\ lock = w /\ LiveFile(disk) = r.original /\ disk.effect[p] = "none"
         /\ r.rollback = 0 /\ r.staged_sha = None /\ r.replacement = 0
         /\ r.state \in {"validating", "emergency_created"}
         /\ plan[p].expects # None /\ task[w].at \in Pending
<1>1. /\ TypeInv /\ p \in Plans /\ r \in Receipts /\ disk \in Disks /\ durable \in Disks
      /\ StepAt(w)
  BY WorkerFacts
<1>2. RestoreAt(w) /\ LockAt(w)
  BY DEF TrueInv, RunInv, RunAt, TypeLockInv
<1>3. task[w].at \in Early \ {"refusing"} /\ task[w].at \notin Unlocked /\ task[w].at \in Pending
  BY DEF Early, Unlocked, Pending
<1> QED BY <1>1, <1>2, <1>3 DEF RestoreAt, LockAt, StepAt

\* It goes on, or to its refusal.
LEMMA EarlyTrue ==
  ASSUME TypeLockInv, KeptInv, TrueInv, NEW w \in Windows, task[w].op = "restore",
         lock = w, lock' = w,
         NEW p, p = task[w].plan, NEW at \in {"backing up", "staging", "refusing"},
         NEW a \in Receipts, Go(w, at, a), a.rollback = 0, disk'.effect[p] = "none",
         at # "refusing" =>
           /\ a.state \in {"validating", "emergency_created"}
           /\ LiveFile(disk') = a.original,
         UNCHANGED <<confirms, plan, held>>, NEW b, Written(p, b), EffectsKept(p),
         JudgedPair(disk', durable'), TowerInv'
  PROVE  TrueInv'
<1>1. p \in Plans /\ at \in Steps
  BY WorkerFacts DEF Steps
<1>2. /\ task'[w].op = "restore" /\ task'[w].plan = p /\ Stepped(w)
      /\ task'[w].at = at /\ task'[w].receipt = a
  <2>1. /\ Go(w, at, a) /\ at \in Steps /\ a \in Receipts /\ p \in Plans
        /\ task[w].plan = p /\ UNCHANGED <<confirms, plan, held>>
    BY <1>1
  <2>2. Stepped(w) /\ task'[w].op = task[w].op /\ task'[w].plan = p
        /\ task'[w].at = at /\ task'[w].receipt = a
    BY <2>1, GoStepped
  <2> QED BY <2>2
<1>3. RestoreAt(w)'
  <2>1. at \notin {"excluding", "validating", "exchanging"} /\ at \in Early
    BY DEF Early
  <2>2. at = "refusing" => lock' = w
    OBVIOUS
  <2> QED BY <1>2, <2>1, <2>2 DEF RestoreAt, Pending
<1>4. RunAt(w)'
  BY <1>2, <1>3 DEF RunAt
<1> QED BY <1>2, <1>4, TrueMoves

LEMMA ValidateTrue ==
  ASSUME TypeLockInv, KeptInv, TrueInv, NEW w \in Windows, Validate(w)
  PROVE  TrueInv'
<1>1. PICK p, r : p = task[w].plan /\ r = task[w].receipt
  OBVIOUS
<1>2. task[w].op = "restore" /\ task[w].at = "validating"
  BY DEF Validate, At
<1>3. /\ TypeInv /\ p \in Plans /\ r \in Receipts /\ disk \in Disks /\ lock = w
      /\ LiveFile(disk) = r.original /\ disk.effect[p] = "none"
      /\ r.rollback = 0 /\ r.staged_sha = None
      /\ r.state \in {"validating", "emergency_created"}
  BY <1>1, <1>2, EarlyFacts
<1>4. UNCHANGED <<data, confirms, plan, held, uses, lock>> /\ PlansStay
  BY PlansSame DEF Validate, Same
<1>5. ASSUME Go(w, "refusing", r), UNCHANGED <<disk, durable>>
      PROVE  TrueInv'
  <2>1. Alike(disk', disk) /\ disk' \in Disks
    BY <1>3, <1>5 DEF Alike
  <2>2. /\ JudgedPair(disk', durable') /\ TowerInv' /\ Written(p, r) /\ EffectsKept(p)
        /\ disk'.effect = disk.effect
    BY <1>3, <1>4, <1>5, <2>1, CalmStep
  <2> QED BY <1>1, <1>2, <1>3, <1>4, <1>5, <2>2, EarlyTrue
<1>6. ASSUME NEW e \in FreeNames, NEW s \in FreeNames, NEW result \in Writes,
             LET a == [r EXCEPT !.emergency = e, !.staged = s] IN
             /\ WriteReceipt(disk, durable, p, a, result)
             /\ Go(w, IF result = "ok" THEN "backing up" ELSE "refusing", a)
      PROVE  TrueInv'
  <2> DEFINE a == [r EXCEPT !.emergency = e, !.staged = s]
             at == IF result = "ok" THEN "backing up" ELSE "refusing"
  <2>1. WriteReceipt(disk, durable, p, a, result) /\ Go(w, at, a)
    BY <1>6
  <2>2. e \in Names /\ s \in Names
    BY DEF FreeNames
  <2>3. /\ a \in Receipts /\ a.rollback = 0 /\ a.staged_sha = None /\ a.state = r.state
        /\ a.original = r.original
    BY <1>3, <2>2 DEF Receipts
  <2>4. at \in {"backing up", "staging", "refusing"}
    OBVIOUS
  <2> HIDE DEF a, at
  <2>5. Judge(LiveFile(disk), disk.effect[p], a)
    BY <1>3, <2>3, JudgeEarly
  <2>6. /\ JudgedPair(disk', durable') /\ TowerInv' /\ Written(p, a) /\ EffectsKept(p)
        /\ disk'.effect = disk.effect /\ LiveFile(disk') = LiveFile(disk)
    BY <1>3, <1>4, <2>1, <2>3, <2>5, CalmWrite, AlikeItself
  <2> QED BY <1>1, <1>2, <1>3, <1>4, <2>1, <2>3, <2>4, <2>6, EarlyTrue
<1> QED BY <1>1, <1>5, <1>6 DEF Validate

LEMMA BackUpTrue ==
  ASSUME TypeLockInv, KeptInv, TrueInv, NEW w \in Windows, BackUp(w)
  PROVE  TrueInv'
<1>1. PICK p, r, c : p = task[w].plan /\ r = task[w].receipt /\ c = LiveContent
  OBVIOUS
<1> DEFINE made == [i \in Inodes |-> [r EXCEPT !.emergency_sha = c,
                                               !.state = "emergency_created"]]
           without == [r EXCEPT !.emergency = 0]
<1>2. task[w].op = "restore" /\ task[w].at = "backing up"
  BY DEF BackUp, At
<1>3. /\ TypeInv /\ p \in Plans /\ r \in Receipts /\ disk \in Disks /\ lock = w
      /\ LiveFile(disk) = r.original /\ disk.effect[p] = "none"
      /\ r.rollback = 0 /\ r.staged_sha = None
      /\ r.state \in {"validating", "emergency_created"}
  BY <1>1, <1>2, EarlyFacts
<1>4. UNCHANGED <<confirms, plan, held, uses, lock>> /\ PlansStay
  BY PlansSame DEF BackUp, Same
<1>5. /\ made \in [Inodes -> Receipts]
      /\ \A i \in Inodes : /\ made[i].staged_sha = None /\ made[i].state = "emergency_created"
                           /\ made[i].rollback = 0 /\ made[i].original = r.original
      /\ without \in Receipts /\ without.rollback = 0
  <2> DEFINE m == [r EXCEPT !.emergency_sha = c, !.state = "emergency_created"]
  <2>1. c \in Contents
    BY <1>1, <1>3, Types
  <2>2. m \in Receipts
    BY <1>3, <2>1 DEF Receipts, States
  <2>3. /\ m.staged_sha = None /\ m.state = "emergency_created" /\ m.rollback = 0
        /\ m.original = r.original
    BY <1>3 DEF Receipts
  <2>4. without \in Receipts /\ without.rollback = 0
    BY <1>3, LiveIsAName DEF Receipts, Live
  <2>5. made = [i \in Inodes |-> m]
    OBVIOUS
  <2> HIDE DEF m, made
  <2> QED BY <2>2, <2>3, <2>4, <2>5
<1>6. CopyRecorded(w, r.emergency, c, made, "staging", without)
  BY <1>1 DEF BackUp
<1>7. r.emergency \in Names \ {Live}
  BY <1>1, <1>2, <1>3 DEF TypeLockInv, LockAt, Receipts, Live
<1>8. Made(c)
  BY <1>1, <1>3, Types DEF TrueInv, TowerInv, LiveContent
<1> HIDE DEF made, without
<1>9. \A i \in Inodes : Judge(LiveFile(disk), disk.effect[p], made[i])
  BY <1>3, <1>5, JudgeEarly
<1>10. /\ JudgedPair(disk', durable') /\ TowerInv'
       /\ LiveFile(disk') = LiveFile(disk) /\ disk'.effect = disk.effect
  BY <1>1, <1>3, <1>4, <1>5, <1>6, <1>7, <1>8, <1>9, CopyTrue
<1>11. CASE Go(w, "refusing", without) /\ UNCHANGED <<disk, durable, data>>
  <2>1. Written(p, without) /\ EffectsKept(p)
    BY <1>3, <1>11, NothingWritten
  <2> QED BY <1>1, <1>2, <1>3, <1>4, <1>5, <1>10, <1>11, <2>1, EarlyTrue
<1>12. ASSUME NEW i \in Inodes, NEW m, m = made[i],
              Copied(w, p, r.emergency, c, m, "staging", without, i)
       PROVE  TrueInv'
  <2>1. /\ Written(p, m) /\ EffectsKept(p)
        /\ Go(w, "staging", m) \/ Go(w, "refusing", without)
    BY <1>12 DEF Copied
  <2>2. m \in Receipts /\ m.rollback = 0 /\ m.state = "emergency_created" /\ m.original = r.original
    BY <1>5, <1>12
  <2>3. CASE Go(w, "staging", m)
    BY <1>1, <1>2, <1>3, <1>4, <1>10, <2>1, <2>2, <2>3, EarlyTrue
  <2>4. CASE Go(w, "refusing", without)
    BY <1>1, <1>2, <1>3, <1>4, <1>5, <1>10, <2>1, <2>4, EarlyTrue
  <2> QED BY <2>1, <2>3, <2>4
<1>13. r.emergency \in Names
  BY <1>7
<1> QED BY <1>1, <1>3, <1>4, <1>6, <1>11, <1>12, <1>13, CopyMade

LEMMA PlanMade == \A p \in Plans : Made(p) /\ p \notin Nat /\ p # None
BY RestoreAssumption DEF RestoreAssumption, Made

LEMMA UnstagedOK ==
  ASSUME NEW r \in Receipts
  PROVE  Unstaged(r) \in Receipts /\ Unstaged(r).rollback = r.rollback
BY LiveIsAName DEF Receipts, Unstaged, Live

LEMMA StageTrue ==
  ASSUME TypeLockInv, KeptInv, TrueInv, NEW w \in Windows, Stage(w)
  PROVE  TrueInv'
<1>1. PICK p, r : p = task[w].plan /\ r = task[w].receipt
  OBVIOUS
<1> DEFINE made == [i \in Inodes |-> [r EXCEPT !.staged_sha = p, !.replacement = i,
                                               !.state = "staged"]]
           without == Unstaged(r)
<1>2. task[w].op = "restore" /\ task[w].at = "staging"
  BY DEF Stage, At
<1>3. /\ TypeInv /\ p \in Plans /\ r \in Receipts /\ disk \in Disks /\ lock = w
      /\ LiveFile(disk) = r.original /\ disk.effect[p] = "none" /\ r.rollback = 0
      /\ data \in [Inodes -> Contents]
  BY <1>1, <1>2, EarlyFacts, WorkerFacts
<1>4. UNCHANGED <<confirms, plan, held, uses, lock>> /\ PlansStay
  BY PlansSame DEF Stage, Same
<1>5. /\ made \in [Inodes -> Receipts]
      /\ \A i \in Inodes : /\ made[i].staged_sha = p /\ made[i].state = "staged"
                           /\ made[i].rollback = 0 /\ made[i].original = r.original
                           /\ made[i].staged = r.staged /\ made[i].replacement = i
      /\ without \in Receipts /\ without.rollback = 0
  <2>1. ASSUME NEW i \in Inodes
        PROVE  /\ made[i] \in Receipts /\ made[i].staged_sha = p /\ made[i].state = "staged"
               /\ made[i].rollback = 0 /\ made[i].original = r.original
               /\ made[i].staged = r.staged /\ made[i].replacement = i
    <3> DEFINE m == [r EXCEPT !.staged_sha = p, !.replacement = i, !.state = "staged"]
    <3>1. p \in Contents
      BY <1>3 DEF Contents
    <3>2. m \in Receipts
      BY <1>3, <3>1 DEF Receipts, States
    <3>3. /\ m.staged_sha = p /\ m.state = "staged" /\ m.rollback = 0
          /\ m.original = r.original /\ m.staged = r.staged /\ m.replacement = i
      BY <1>3 DEF Receipts
    <3>4. made[i] = m
      OBVIOUS
    <3> HIDE DEF m, made
    <3> QED BY <3>2, <3>3, <3>4
  <2>2. without \in Receipts /\ without.rollback = 0
    BY <1>3, UnstagedOK
  <2>3. made = [i \in Inodes |-> made[i]]
    OBVIOUS
  <2> HIDE DEF made
  <2> QED BY <2>1, <2>2, <2>3
<1>6. CopyRecorded(w, r.staged, p, made, "exchanging", without)
  BY <1>1 DEF Stage
<1>7. r.staged \in Names \ {Live} /\ r.staged \in Names
  BY <1>1, <1>2, <1>3 DEF TypeLockInv, LockAt, Receipts, Live
<1>8. Made(p) /\ p # None
  BY <1>3, PlanMade
<1> HIDE DEF made, without
<1>9. \A i \in Inodes : Judge(LiveFile(disk), disk.effect[p], made[i])
  BY <1>3, <1>5 DEF Judge, AssessAs, Label, Terminal
<1>10. /\ JudgedPair(disk', durable') /\ TowerInv'
       /\ LiveFile(disk') = LiveFile(disk) /\ disk'.effect = disk.effect
  BY <1>1, <1>3, <1>4, <1>5, <1>6, <1>7, <1>8, <1>9, CopyTrue
<1>11. CASE Go(w, "refusing", without) /\ UNCHANGED <<disk, durable, data>>
  <2>1. Written(p, without) /\ EffectsKept(p)
    BY <1>3, <1>11, NothingWritten
  <2> QED BY <1>1, <1>2, <1>3, <1>4, <1>5, <1>10, <1>11, <2>1, EarlyTrue
<1>12. ASSUME NEW i \in Inodes, NEW m, m = made[i],
              Copied(w, p, r.staged, p, m, "exchanging", without, i)
       PROVE  TrueInv'
  <2>1. /\ Written(p, m) /\ EffectsKept(p) /\ data' = [data EXCEPT ![i] = p]
        /\ \/ /\ Go(w, "exchanging", m)
              /\ disk'.names = [disk.names EXCEPT ![r.staged] = i]
              /\ durable' = disk' /\ disk'.receipts[p] = m
           \/ Go(w, "refusing", without)
    BY <1>12 DEF Copied
  <2>2. m \in Receipts /\ m.rollback = 0 /\ m.state = "staged" /\ m.original = r.original
        /\ m.staged = r.staged /\ m.replacement = i
    BY <1>5, <1>12
  <2>3. CASE /\ Go(w, "exchanging", m)
             /\ disk'.names = [disk.names EXCEPT ![r.staged] = i]
             /\ durable' = disk' /\ disk'.receipts[p] = m
    <3>1. "exchanging" \in Steps
      BY DEF Steps
    <3>2. /\ task'[w].op = "restore" /\ task'[w].plan = p /\ Stepped(w)
          /\ task'[w].at = "exchanging" /\ task'[w].receipt = m
      BY <1>1, <1>2, <1>3, <1>4, <2>2, <2>3, <3>1, GoStepped
    <3>3. File(disk', m.staged) = i
      BY <1>3, <1>7, <2>2, <2>3 DEF File, Disks, Live
    <3>4. data'[i] = p
      BY <1>3, <2>1
    <3>5. LagOf(disk', durable', p)
      BY <2>3 DEF LagOf
    <3>6. /\ Both(p, m)' /\ LiveFile(disk') = m.original /\ disk'.effect[p] = "none"
          /\ "exchanging" \in Pending /\ "exchanging" \notin Early
      BY <1>3, <1>10, <2>2, <2>3 DEF Both, Early, Pending
    <3>7. RestoreAt(w)'
      <4>1. /\ m.rollback = 0 /\ m.state = "staged" /\ File(disk', m.staged) = m.replacement
            /\ data'[m.replacement] = p
        BY <2>2, <3>3, <3>4
      <4> QED BY <3>2, <3>5, <3>6, <4>1 DEF RestoreAt
    <3>8. RunAt(w)'
      BY <3>2, <3>7 DEF RunAt
    <3> QED BY <1>1, <1>2, <1>3, <1>4, <1>10, <2>1, <3>2, <3>8, TrueMoves
  <2>4. CASE Go(w, "refusing", without)
    <3>1. /\ task[w].op = "restore" /\ p = task[w].plan /\ lock = w /\ lock' = w
          /\ without \in Receipts /\ without.rollback = 0 /\ disk'.effect[p] = "none"
          /\ UNCHANGED <<confirms, plan, held>>
      BY <1>1, <1>2, <1>3, <1>4, <1>5, <1>10
    <3> QED BY <1>10, <2>1, <2>4, <3>1, EarlyTrue
  <2> QED BY <2>1, <2>3, <2>4
<1> QED BY <1>1, <1>3, <1>4, <1>6, <1>7, <1>11, <1>12, CopyMade

\* A receipt of a restore is judged by which of its two files is live.
LEMMA JudgeLike ==
  ASSUME NEW r, NEW a, Like(a, r), r.original # r.replacement
  PROVE  Judge(r.original, "none", a) /\ Judge(r.replacement, "restored", a)
BY DEF Like, Judge, AssessAs, Label, Terminal, Open

LEMMA SwapLag ==
  ASSUME disk \in Disks, Sound(disk), NEW p \in Plans, NEW n \in Names, disk.names[n] # 0,
         NEW effect, effect \in Effects, NEW u, LagOf(disk, u, p)
  PROVE  LagOf(Exchanged(p, n, effect), u, p)
<1> DEFINE e == Exchanged(p, n, effect)
           since == [q \in Plans |-> disk.since[q] \/
                      (q # p /\ disk.receipts[q].state \notin Terminal \cup {"none"})]
<1>1. /\ e \in Disks /\ e.names[Live] = disk.names[n]
      /\ e.receipts = disk.receipts /\ e.stale = disk.stale
      /\ e.effect = [disk.effect EXCEPT ![p] = effect]
      /\ e.since = since
  BY Swapped
<1>2. \A q \in Plans : disk.since[q] => since[q]
  OBVIOUS
<1> HIDE DEF e, since
<1>3. LagOf(e, u, p)
  BY <1>1, <1>2 DEF LagOf
<1> QED BY <1>3 DEF e

LEMMA SwapName ==
  ASSUME disk \in Disks, Sound(disk), NEW p \in Plans, NEW n \in Names, disk.names[n] # 0,
         NEW effect, effect \in Effects
  PROVE  Exchanged(p, n, effect).names[n] = disk.names[Live]
BY Swapped

\* The exchange for p of the live file and the one at n.
LEMMA SwapStep ==
  ASSUME TypeInv, NEW p \in Plans, NEW n \in Names, disk.names[n] # 0, n # 0,
         NEW effect, effect \in Effects, disk' = Exchanged(p, n, effect), durable' = durable, data' = data
  PROVE  /\ LiveFile(disk') = disk.names[n] /\ LiveContent' = data[disk.names[n]]
         /\ disk'.names[n] = LiveFile(disk) /\ LiveFile(disk) # disk.names[n]
         /\ disk'.receipts = disk.receipts /\ disk'.effect = [disk.effect EXCEPT ![p] = effect]
         /\ disk'.effect[p] = effect
         /\ EffectsKept(p) /\ \A b : Written(p, b)
<1>1. disk \in Disks /\ Sound(disk) /\ disk.effect \in [Plans -> Effects]
  BY DEF TypeInv, Disks
<1> DEFINE e == Exchanged(p, n, effect)
<1>0. /\ e \in Disks /\ e.names[Live] = disk.names[n]
      /\ e.receipts = disk.receipts /\ e.stale = disk.stale
      /\ e.effect = [disk.effect EXCEPT ![p] = effect]
      /\ e.since = [q \in Plans |-> disk.since[q] \/
                      (q # p /\ disk.receipts[q].state \notin Terminal \cup {"none"})]
  BY <1>1, Swapped
<1>01. e.names[n] = disk.names[Live]
  BY <1>1, SwapName
<1>2. /\ disk'.names[Live] = disk.names[n] /\ disk'.names[n] = disk.names[Live]
      /\ disk'.receipts = disk.receipts /\ disk'.effect = [disk.effect EXCEPT ![p] = effect]
  BY <1>0, <1>01
<1>3. disk.names[Live] # disk.names[n]
  BY <1>1, LiveIsAName DEF Sound, Live
<1>4. disk'.effect[p] = effect /\ EffectsKept(p)
  BY <1>1, <1>2 DEF EffectsKept
<1> QED BY <1>2, <1>3, <1>4 DEF LiveFile, LiveContent, Written

LEMMA ExchangeTrue ==
  ASSUME TypeLockInv, KeptInv, TrueInv, NEW w \in Windows, Exchange(w)
  PROVE  TrueInv'
<1>1. PICK p, r : p = task[w].plan /\ r = task[w].receipt
  OBVIOUS
<1> DEFINE a == [r EXCEPT !.state = "applied", !.applied_sha = r.staged_sha]
           e == Exchanged(p, r.staged, "restored")
<1>2. /\ task[w].op = "restore" /\ task[w].at = "exchanging"
      /\ "applied" \in Steps /\ "applied" \notin Pending
  BY DEF Exchange, At, Steps, Pending, Early
<1>3. /\ TypeInv /\ p \in Plans /\ r \in Receipts /\ disk \in Disks /\ durable \in Disks
      /\ Sound(disk) /\ r.staged \in Names /\ disk.effect \in [Plans -> Effects]
  BY <1>1, <1>2, WorkerFacts DEF Disks
<1>4. /\ LockAt(w) /\ StepAt(w) /\ RestoreAt(w) /\ JudgedPair(disk, durable) /\ TowerInv
  BY <1>1, <1>2, WorkerFacts DEF TypeLockInv, TrueInv, RunInv, RunAt
<1>5. /\ lock = w /\ File(disk, r.staged) # 0
      /\ r.staged_sha = p /\ LiveContent = plan[p].expects
  BY <1>1, <1>2, <1>4 DEF LockAt, StepAt, Unlocked, Early
<1>6. /\ disk.effect[p] = "none" /\ r.rollback = 0 /\ r.state = "staged"
      /\ LiveFile(disk) = r.original
      /\ disk.receipts[p] = r /\ durable.receipts[p] = r
      /\ File(disk, r.staged) = r.replacement /\ data[r.replacement] = p
      /\ LagOf(disk, durable, p)
  BY <1>1, <1>2, <1>4 DEF RestoreAt, Pending, Early, Both
<1>7. r.staged # 0 /\ disk.names[r.staged] = r.replacement /\ r.replacement # 0
  BY <1>5, <1>6 DEF File
<1>8. a \in Receipts /\ a.state = "applied" /\ a.staged_sha = p /\ a.rollback = 0
      /\ a.original = r.original /\ a.replacement = r.replacement
  BY <1>3, <1>5, <1>6 DEF Receipts, States
<1>9. /\ UNCHANGED <<durable, data, lock, confirms, uses, plan, held>>
      /\ \/ disk' = e /\ Go(w, "applied", a)
         \/ disk' = Without(disk, r.staged) /\ Go(w, "refusing", Unstaged(r))
  BY <1>1 DEF Exchange
<1>10. PlansStay /\ p # None /\ "restored" \in Effects
  BY <1>3, <1>9, PlansSame, PlanMade DEF Effects
<1> HIDE DEF a, e
<1>11. CASE disk' = e /\ Go(w, "applied", a)
  <2>1. /\ LiveFile(disk') = r.replacement /\ LiveContent' = p
        /\ r.original # r.replacement
        /\ disk'.receipts = disk.receipts
        /\ disk'.effect = [disk.effect EXCEPT ![p] = "restored"] /\ disk'.effect[p] = "restored"
        /\ EffectsKept(p) /\ Written(p, a)
    BY <1>3, <1>6, <1>7, <1>9, <1>10, <1>11, SwapStep DEF e
  <2>2. Like(r, r) /\ Like(a, a) /\ Like(r, a)
    BY <1>5, <1>6, <1>8, <1>10 DEF Like
  <2>3. Judge(r.replacement, "restored", r)
    BY <2>1, <2>2, JudgeLike
  <2>4. JudgedPair(disk', durable')
    BY <1>3, <1>4, <1>6, <1>7, <1>9, <1>10, <1>11, <2>3, SwapJudged DEF e
  <2>5. LagOf(disk', durable', p)
    BY <1>3, <1>6, <1>7, <1>9, <1>10, <1>11, SwapLag DEF e
  <2>6. TowerInv'
    <3>1. Tower(LiveContent, disk.effect, plan)
      BY <1>4 DEF TowerInv
    <3>2. Tower(p, [disk.effect EXCEPT ![p] = "restored"], plan)
      BY <1>3, <1>5, <1>6, <3>1, TowerPush
    <3>3. Tower(data'[LiveFile(durable')], durable'.effect, plan) /\ \A i \in Inodes : Made(data'[i])
      BY <1>4, <1>9 DEF TowerInv
    <3> QED BY <1>3, <1>4, <1>9, <1>10, <2>1, <3>2, <3>3, TowerNext
  <2>7. /\ task'[w].op = "restore" /\ task'[w].plan = p /\ Stepped(w)
        /\ task'[w].at = "applied" /\ task'[w].receipt = a
    BY <1>1, <1>2, <1>3, <1>8, <1>9, <1>11, GoStepped
  <2>8. AppliedAt(w)'
    BY <1>6, <1>8, <1>9, <2>1, <2>2, <2>7 DEF AppliedAt
  <2>9. RestoreAt(w)'
    BY <1>2, <1>8, <2>5, <2>7, <2>8 DEF RestoreAt, Pending, Early
  <2>10. RunAt(w)'
    BY <2>7, <2>9 DEF RunAt
  <2> QED BY <1>1, <1>2, <1>5, <1>9, <2>1, <2>4, <2>6, <2>7, <2>10, TrueMoves
<1>12. CASE disk' = Without(disk, r.staged) /\ Go(w, "refusing", Unstaged(r))
  <2>1. disk' \in Disks /\ Alike(disk', disk)
    BY <1>3, <1>12, AlikeItself
  <2>2. /\ JudgedPair(disk', durable') /\ TowerInv' /\ Written(p, r) /\ EffectsKept(p)
        /\ disk'.effect = disk.effect
    BY <1>3, <1>4, <1>9, <1>10, <2>1, CalmStep
  <2>3. Unstaged(r) \in Receipts /\ Unstaged(r).rollback = 0
    BY <1>3, <1>6, UnstagedOK
  <2> QED BY <1>1, <1>2, <1>3, <1>5, <1>6, <1>9, <1>12, <2>2, <2>3, EarlyTrue
<1> QED BY <1>9, <1>11, <1>12

\* Where a restore stands once it has exchanged the files.
LEMMA AppliedFacts ==
  ASSUME TypeLockInv, KeptInv, TrueInv, NEW w \in Windows, task[w].op = "restore",
         task[w].at \notin Pending, NEW p, p = task[w].plan, NEW r, r = task[w].receipt
  PROVE  /\ TypeInv /\ p \in Plans /\ p # None /\ r \in Receipts
         /\ disk \in Disks /\ durable \in Disks /\ Sound(disk)
         /\ lock = w /\ r.rollback = 0 /\ r.staged_sha = p /\ r.staged \in Names
         /\ Like(r, r) /\ Like(disk.receipts[p], r) /\ Like(durable.receipts[p], r)
         /\ r.replacement # r.original /\ LagOf(disk, durable, p)
         /\ IF task[w].at = "checking"
            THEN disk.effect[p] = "none" /\ LiveFile(disk) = r.original
            ELSE disk.effect[p] = "restored" /\ LiveFile(disk) = r.replacement /\ LiveContent = p
<1>1. /\ TypeInv /\ p \in Plans /\ r \in Receipts /\ disk \in Disks /\ durable \in Disks
      /\ Sound(disk) /\ r.staged \in Names
  BY WorkerFacts
<1>2. lock = w /\ r.staged_sha = p /\ p # None
  BY <1>1, LaterFacts, PlanMade
<1>3. RestoreAt(w) /\ task[w].at \notin Early
  BY DEF TrueInv, RunInv, RunAt, Pending
<1>4. AppliedAt(w) /\ LagOf(disk, durable, p) /\ r.rollback = 0
  BY <1>3 DEF RestoreAt
<1> QED BY <1>1, <1>2, <1>4 DEF AppliedAt

LEMMA LagWrite ==
  ASSUME NEW p \in Plans, NEW b, Written(p, b), disk'.since = disk.since,
         durable' \in {durable, disk, disk'}, LagOf(disk, durable, p)
  PROVE  LagOf(disk', durable', p)
<1>1. \A q \in Plans \ {p} : disk'.receipts[q] = disk.receipts[q]
  BY DEF Written
<1>2. CASE durable' = disk'
  BY <1>2 DEF LagOf
<1>3. CASE durable' = disk
  BY <1>1, <1>3 DEF LagOf
<1>4. CASE durable' = durable
  BY <1>1, <1>4 DEF LagOf
<1> QED BY <1>2, <1>3, <1>4

LEMMA LaterTrue ==
  ASSUME TypeLockInv, KeptInv, TrueInv, NEW w \in Windows, task[w].op = "restore",
         task[w].at \notin Pending, NEW p, p = task[w].plan, NEW r, r = task[w].receipt,
         NEW at \in RestoreSteps \ Pending, NEW a \in Receipts, Like(a, r), Go(w, at, a),
         UNCHANGED <<lock, confirms, plan, held>>, NEW b, Written(p, b), EffectsKept(p),
         JudgedPair(disk', durable'), TowerInv', LagOf(disk', durable', p),
         Like(disk'.receipts[p], r), Like(durable'.receipts[p], r),
         IF at = "checking"
         THEN disk'.effect[p] = "none" /\ LiveFile(disk') = r.original
         ELSE disk'.effect[p] = "restored" /\ LiveFile(disk') = r.replacement /\ LiveContent' = p
  PROVE  TrueInv'
<1>1. p \in Plans /\ lock = w /\ r.replacement # r.original
  BY AppliedFacts
<1>2. at \in Steps
  BY DEF RestoreSteps, Steps
<1>3. /\ task'[w].op = "restore" /\ task'[w].plan = p /\ Stepped(w)
      /\ task'[w].at = at /\ task'[w].receipt = a
  <2>1. /\ Go(w, at, a) /\ at \in Steps /\ a \in Receipts /\ p \in Plans
        /\ task[w].plan = p /\ UNCHANGED <<confirms, plan, held>>
    BY <1>1, <1>2
  <2>2. Stepped(w) /\ task'[w].op = task[w].op /\ task'[w].plan = p
        /\ task'[w].at = at /\ task'[w].receipt = a
    BY <2>1, GoStepped
  <2> QED BY <2>2
<1>4. /\ Like(a, a) /\ Like(disk'.receipts[p], a) /\ Like(durable'.receipts[p], a)
      /\ a.original = r.original /\ a.replacement = r.replacement /\ a.rollback = 0
  BY DEF Like
<1>5. AppliedAt(w)'
  BY <1>1, <1>3, <1>4 DEF AppliedAt
<1>6. at \notin Early /\ at # "exchanging" /\ at \notin Pending
  BY DEF Pending
<1>7. RestoreAt(w)'
  BY <1>3, <1>4, <1>5, <1>6 DEF RestoreAt, Early
<1>8. RunAt(w)'
  BY <1>3, <1>7 DEF RunAt
<1> QED BY <1>1, <1>3, <1>8, TrueMoves

\* It goes on in force, with a receipt written or not.
LEMMA LaterWrites ==
  ASSUME TypeLockInv, KeptInv, TrueInv, NEW w \in Windows, task[w].op = "restore",
         task[w].at \notin Pending \cup {"checking"},
         NEW p, p = task[w].plan, NEW r, r = task[w].receipt,
         NEW at \in RestoreSteps \ (Pending \cup {"checking"}),
         NEW a \in Receipts, Like(a, r), Go(w, at, a),
         UNCHANGED <<data, uses, lock, confirms, plan, held>>,
         NEW s \in {durable, disk}, NEW result, WriteReceipt(disk, s, p, a, result)
  PROVE  TrueInv'
<1>1. /\ TypeInv /\ p \in Plans /\ disk \in Disks
      /\ Like(disk.receipts[p], r) /\ Like(durable.receipts[p], r) /\ r.replacement # r.original
      /\ LagOf(disk, durable, p)
      /\ disk.effect[p] = "restored" /\ LiveFile(disk) = r.replacement /\ LiveContent = p
  BY AppliedFacts
<1>2. Judge(LiveFile(disk), disk.effect[p], a)
  BY <1>1, JudgeLike
<1>3. PlansStay /\ Alike(disk, disk)
  BY PlansSame, AlikeItself
<1>4. /\ JudgedPair(disk', durable') /\ TowerInv' /\ Written(p, a) /\ EffectsKept(p)
      /\ LiveFile(disk') = LiveFile(disk) /\ LiveContent' = LiveContent
      /\ disk'.effect = disk.effect /\ disk'.since = disk.since
      /\ disk'.receipts[p] \in {disk.receipts[p], a} /\ durable' \in {disk', s}
  BY <1>1, <1>2, <1>3, CalmWrite
<1>5. LagOf(disk', durable', p)
  BY <1>1, <1>4, LagWrite
<1>6. Like(disk'.receipts[p], r) /\ Like(durable'.receipts[p], r)
  BY <1>1, <1>4
<1> QED BY <1>1, <1>4, <1>5, <1>6, LaterTrue

LEMMA LaterCalm ==
  ASSUME TypeLockInv, KeptInv, TrueInv, NEW w \in Windows, task[w].op = "restore",
         task[w].at \notin Pending \cup {"checking"},
         NEW p, p = task[w].plan, NEW r, r = task[w].receipt,
         NEW at \in RestoreSteps \ (Pending \cup {"checking"}),
         NEW a \in Receipts, Like(a, r), Go(w, at, a),
         UNCHANGED <<data, uses, lock, confirms, plan, held>>,
         disk' \in {disk, Without(disk, r.staged)}, durable' \in {durable, disk'}
  PROVE  TrueInv'
<1>1. /\ TypeInv /\ p \in Plans /\ disk \in Disks /\ r.staged \in Names
      /\ Like(disk.receipts[p], r) /\ Like(durable.receipts[p], r)
      /\ LagOf(disk, durable, p)
      /\ disk.effect[p] = "restored" /\ LiveFile(disk) = r.replacement /\ LiveContent = p
  BY AppliedFacts
<1>2. PlansStay /\ Alike(disk', disk) /\ disk' \in Disks
  BY <1>1, PlansSame, AlikeItself
<1>3. /\ JudgedPair(disk', durable') /\ TowerInv' /\ Written(p, a) /\ EffectsKept(p)
      /\ LiveFile(disk') = LiveFile(disk) /\ LiveContent' = LiveContent
      /\ disk'.effect = disk.effect /\ disk'.since = disk.since
      /\ disk'.receipts = disk.receipts
  BY <1>1, <1>2, CalmStep
<1>4. LagOf(disk', durable', p)
  BY <1>1, <1>3, LagWrite
<1>5. Like(disk'.receipts[p], r) /\ Like(durable'.receipts[p], r)
  BY <1>1, <1>3
<1> QED BY <1>1, <1>3, <1>4, <1>5, LaterTrue

\* A receipt that only goes on in its state.
LEMMA LikeState ==
  ASSUME NEW r \in Receipts, Like(r, r), NEW s \in {"verification", "rollback_attempted"}
  PROVE  [r EXCEPT !.state = s] \in Receipts /\ Like([r EXCEPT !.state = s], r)
BY DEF Receipts, Like, States

LEMMA PublishAppliedTrue ==
  ASSUME TypeLockInv, KeptInv, TrueInv, NEW w \in Windows, PublishApplied(w)
  PROVE  TrueInv'
<1>1. PICK p, r : p = task[w].plan /\ r = task[w].receipt
  OBVIOUS
<1>2. /\ task[w].op = "restore" /\ task[w].at = "applied"
      /\ task[w].at \notin Pending /\ "syncing" \in RestoreSteps \ (Pending \cup {"checking"})
  BY DEF PublishApplied, At, Pending, Early, RestoreSteps
<1>3. r \in Receipts /\ Like(r, r)
  BY <1>1, <1>2, AppliedFacts
<1>4. /\ Go(w, "syncing", r) /\ UNCHANGED <<data, uses, lock, confirms, plan, held>>
      /\ \E result \in Writes : WriteReceipt(disk, durable, p, r, result)
  BY <1>1 DEF PublishApplied, Same
<1> QED BY <1>1, <1>2, <1>3, <1>4, LaterWrites

LEMMA SyncExchangeTrue ==
  ASSUME TypeLockInv, KeptInv, TrueInv, NEW w \in Windows, SyncExchange(w)
  PROVE  TrueInv'
<1>1. PICK p, r : p = task[w].plan /\ r = task[w].receipt
  OBVIOUS
<1> DEFINE a == [r EXCEPT !.state = "verification"]
<1>2. /\ task[w].op = "restore" /\ task[w].at = "syncing" /\ task[w].at \notin Pending
      /\ {"verifying", "rolling back"} \subseteq RestoreSteps \ (Pending \cup {"checking"})
  BY DEF SyncExchange, At, Pending, Early, RestoreSteps
<1>3. r \in Receipts /\ Like(r, r)
  BY <1>1, <1>2, AppliedFacts
<1>4. a \in Receipts /\ Like(a, r)
  BY <1>3, LikeState
<1>5. /\ UNCHANGED <<data, uses, lock, confirms, plan, held>>
      /\ \/ /\ Go(w, "verifying", a)
            /\ \E result \in Writes : WriteReceipt(disk, disk, p, a, result)
         \/ Go(w, "rolling back", a) /\ UNCHANGED <<disk, durable>>
  BY <1>1 DEF SyncExchange, Same
<1> HIDE DEF a
<1>6. ASSUME NEW result \in Writes, WriteReceipt(disk, disk, p, a, result), Go(w, "verifying", a)
      PROVE  TrueInv'
  BY <1>1, <1>2, <1>4, <1>5, <1>6, LaterWrites
<1>7. CASE Go(w, "rolling back", a) /\ UNCHANGED <<disk, durable>>
  BY <1>1, <1>2, <1>4, <1>5, <1>7, LaterCalm
<1> QED BY <1>5, <1>6, <1>7

LEMMA VerifyTrue ==
  ASSUME TypeLockInv, KeptInv, TrueInv, NEW w \in Windows, Verify(w)
  PROVE  TrueInv'
<1>1. PICK p, r : p = task[w].plan /\ r = task[w].receipt
  OBVIOUS
<1>2. /\ task[w].op = "restore" /\ task[w].at = "verifying" /\ task[w].at \notin Pending
      /\ {"removing", "rolling back"} \subseteq RestoreSteps \ (Pending \cup {"checking"})
  BY DEF Verify, At, Pending, Early, RestoreSteps
<1>3. r \in Receipts /\ Like(r, r)
  BY <1>1, <1>2, AppliedFacts
<1>4. /\ UNCHANGED <<disk, durable, data, uses, lock, confirms, plan, held>>
      /\ Go(w, "removing", r) \/ Go(w, "rolling back", r)
  BY <1>1 DEF Verify, Same
<1>5. disk' \in {disk, Without(disk, r.staged)} /\ durable' \in {durable, disk'}
  BY <1>4
<1>6. CASE Go(w, "removing", r)
  BY <1>1, <1>2, <1>3, <1>4, <1>5, <1>6, LaterCalm
<1>7. CASE Go(w, "rolling back", r)
  BY <1>1, <1>2, <1>3, <1>4, <1>5, <1>7, LaterCalm
<1> QED BY <1>4, <1>6, <1>7

LEMMA RemoveSupersededTrue ==
  ASSUME TypeLockInv, KeptInv, TrueInv, NEW w \in Windows, RemoveSuperseded(w)
  PROVE  TrueInv'
<1>1. PICK p, r : p = task[w].plan /\ r = task[w].receipt
  OBVIOUS
<1>2. /\ task[w].op = "restore" /\ task[w].at = "removing" /\ task[w].at \notin Pending
      /\ "completing" \in RestoreSteps \ (Pending \cup {"checking"})
  BY DEF RemoveSuperseded, At, Pending, Early, RestoreSteps
<1>3. r \in Receipts /\ Like(r, r)
  BY <1>1, <1>2, AppliedFacts
<1>4. /\ Go(w, "completing", r) /\ UNCHANGED <<data, uses, lock, confirms, plan, held>>
      /\ disk' \in {disk, Without(disk, r.staged)} /\ durable' \in {durable, disk'}
  BY <1>1 DEF RemoveSuperseded, Same
<1> QED BY <1>1, <1>2, <1>3, <1>4, LaterCalm

LEMMA BeginRollBackTrue ==
  ASSUME TypeLockInv, KeptInv, TrueInv, NEW w \in Windows, BeginRollBack(w)
  PROVE  TrueInv'
<1>1. PICK p, r : p = task[w].plan /\ r = task[w].receipt
  OBVIOUS
<1> DEFINE a == [r EXCEPT !.state = "rollback_attempted"]
<1>2. /\ task[w].op = "restore" /\ task[w].at = "rolling back" /\ task[w].at \notin Pending
      /\ "exchanging back" \in RestoreSteps \ (Pending \cup {"checking"})
  BY DEF BeginRollBack, At, Pending, Early, RestoreSteps
<1>3. r \in Receipts /\ Like(r, r)
  BY <1>1, <1>2, AppliedFacts
<1>4. a \in Receipts /\ Like(a, r)
  BY <1>3, LikeState
<1>5. /\ UNCHANGED <<data, uses, lock, confirms, plan, held>> /\ Go(w, "exchanging back", a)
      /\ \E result \in Writes : WriteReceipt(disk, durable, p, a, result)
  BY <1>1 DEF BeginRollBack, Same
<1> HIDE DEF a
<1> QED BY <1>1, <1>2, <1>4, <1>5, LaterWrites

\* A call's last receipt is written, and the live file is what it was.
LEMMA EndTrue ==
  ASSUME TypeLockInv, KeptInv, TrueInv, NEW w \in Windows, task[w].op # "idle", lock = w,
         NEW p, p = task[w].plan, Return(w), UNCHANGED <<uses, data, confirms>>, PlansStay,
         held' = held \/ held' = [held EXCEPT ![w] = NoReview],
         NEW b \in Receipts, NEW d \in Disks, Alike(d, disk), NEW s \in {durable, disk},
         NEW result, WriteReceipt(d, s, p, b, result), Judge(LiveFile(disk), disk.effect[p], b)
  PROVE  TrueInv'
<1>1. p \in Plans /\ TypeInv
  BY WorkerFacts
<1>2. JudgedPair(disk', durable') /\ TowerInv' /\ Written(p, b) /\ EffectsKept(p)
  BY <1>1, CalmWrite
<1> QED BY <1>1, <1>2, TrueReturns

LEMMA EndState ==
  ASSUME NEW r \in Receipts, NEW s \in Terminal, NEW i \in {"unknown", "yes", "no"},
         NEW live, NEW effect, i = "yes" => effect # "restored", i = "no" => effect = "restored",
         s = "completed" => i = "no"
  PROVE  /\ [r EXCEPT !.state = s, !.intact = i] \in Receipts
         /\ Judge(live, effect, [r EXCEPT !.state = s, !.intact = i])
<1> DEFINE a == [r EXCEPT !.state = s, !.intact = i]
<1>0. s \in States
  BY DEF States, Terminal
<1>1. a \in Receipts /\ a.state = s /\ a.intact = i
  BY <1>0, StateSet DEF Receipts
<1> HIDE DEF a
<1>2. Judge(live, effect, a)
  BY <1>1 DEF Judge, Open
<1> QED BY <1>1, <1>2 DEF a

LEMMA CompleteTrue ==
  ASSUME TypeLockInv, KeptInv, TrueInv, NEW w \in Windows, Complete(w)
  PROVE  TrueInv'
<1>1. PICK p, r : p = task[w].plan /\ r = task[w].receipt
  OBVIOUS
<1> DEFINE b == [r EXCEPT !.state = "completed", !.intact = "no"]
<1>2. /\ task[w].op = "restore" /\ task[w].at = "completing" /\ task[w].at \notin Pending
  BY DEF Complete, At, Pending, Early
<1>3. /\ TypeInv /\ p \in Plans /\ r \in Receipts /\ disk \in Disks /\ lock = w
      /\ disk.effect[p] = "restored"
  BY <1>1, <1>2, AppliedFacts
<1>4. b \in Receipts /\ Judge(LiveFile(disk), disk.effect[p], b)
  BY <1>3, EndState DEF Terminal
<1>5. /\ UNCHANGED <<data, confirms, held, uses>> /\ Return(w)
      /\ plan' = [plan EXCEPT ![p].by = None]
      /\ \E result \in Writes : WriteReceipt(disk, durable, p, b, result)
  BY <1>1 DEF Complete
<1> HIDE DEF b
<1>6. PlansStay /\ Alike(disk, disk)
  BY <1>3, <1>5, AlikeItself DEF PlansStay, TypeInv
<1> QED BY <1>1, <1>2, <1>3, <1>4, <1>5, <1>6, EndTrue

LEMMA GiveUpTrue ==
  ASSUME TypeLockInv, KeptInv, TrueInv, NEW w \in Windows, GiveUp(w)
  PROVE  TrueInv'
<1>1. PICK p, r : p = task[w].plan /\ r = task[w].receipt
  OBVIOUS
<1> DEFINE b == [r EXCEPT !.state = "rollback_failed", !.intact = "no"]
<1>2. /\ task[w].op = "restore" /\ task[w].at = "giving up" /\ task[w].at \notin Pending
  BY DEF GiveUp, At, Pending, Early
<1>3. /\ TypeInv /\ p \in Plans /\ r \in Receipts /\ disk \in Disks /\ lock = w
      /\ disk.effect[p] = "restored"
  BY <1>1, <1>2, AppliedFacts
<1>4. b \in Receipts /\ Judge(LiveFile(disk), disk.effect[p], b)
  BY <1>3, EndState DEF Terminal
<1>5. /\ UNCHANGED <<data, confirms, plan, held, uses>> /\ Return(w)
      /\ \E result \in Writes : WriteReceipt(disk, durable, p, b, result)
  BY <1>1 DEF GiveUp, Same
<1> HIDE DEF b
<1>6. PlansStay /\ Alike(disk, disk)
  BY <1>5, PlansSame, AlikeItself
<1> QED BY <1>1, <1>2, <1>3, <1>4, <1>5, <1>6, EndTrue

LEMMA CheckBackTrue ==
  ASSUME TypeLockInv, KeptInv, TrueInv, NEW w \in Windows, CheckBack(w)
  PROVE  TrueInv'
<1>1. PICK p, r : p = task[w].plan /\ r = task[w].receipt
  OBVIOUS
<1> DEFINE back == [r EXCEPT !.state = "rolled_back", !.intact = "yes"]
           failed == [r EXCEPT !.state = "rollback_failed", !.intact = "unknown"]
<1>2. /\ task[w].op = "restore" /\ task[w].at = "checking" /\ task[w].at \notin Pending
  BY DEF CheckBack, At, Pending, Early
<1>3. /\ TypeInv /\ p \in Plans /\ r \in Receipts /\ disk \in Disks /\ lock = w
      /\ r.staged \in Names /\ disk.effect[p] = "none"
  BY <1>1, <1>2, AppliedFacts
<1>4. /\ back \in Receipts /\ Judge(LiveFile(disk), disk.effect[p], back)
      /\ failed \in Receipts /\ Judge(LiveFile(disk), disk.effect[p], failed)
  BY <1>3, EndState DEF Terminal
<1>5. /\ UNCHANGED <<data, confirms, plan, held, uses>> /\ Return(w)
      /\ \E result \in Writes :
           \/ WriteReceipt(Without(disk, r.staged), disk, p, back, result)
           \/ WriteReceipt(disk, durable, p, failed, result)
  BY <1>1 DEF CheckBack, Same
<1> HIDE DEF back, failed
<1>6. /\ PlansStay /\ Alike(disk, disk)
      /\ Alike(Without(disk, r.staged), disk) /\ Without(disk, r.staged) \in Disks
  BY <1>3, <1>5, PlansSame, AlikeItself
<1>7. ASSUME NEW result \in Writes, WriteReceipt(Without(disk, r.staged), disk, p, back, result)
      PROVE  TrueInv'
  BY <1>1, <1>2, <1>3, <1>4, <1>5, <1>6, <1>7, EndTrue
<1>8. ASSUME NEW result \in Writes, WriteReceipt(disk, durable, p, failed, result)
      PROVE  TrueInv'
  BY <1>1, <1>2, <1>3, <1>4, <1>5, <1>6, <1>8, EndTrue
<1> QED BY <1>5, <1>7, <1>8

LEMMA ExchangeBackTrue ==
  ASSUME TypeLockInv, KeptInv, TrueInv, NEW w \in Windows, ExchangeBack(w)
  PROVE  TrueInv'
<1>1. PICK p, r : p = task[w].plan /\ r = task[w].receipt
  OBVIOUS
<1> DEFINE e == Exchanged(p, r.staged, "none")
<1>2. /\ task[w].op = "restore" /\ task[w].at = "exchanging back" /\ task[w].at \notin Pending
      /\ {"checking", "giving up"} \subseteq RestoreSteps \ Pending
  BY DEF ExchangeBack, At, Pending, Early, RestoreSteps
<1>3. /\ TypeInv /\ p \in Plans /\ r \in Receipts /\ disk \in Disks /\ durable \in Disks
      /\ Sound(disk) /\ r.staged \in Names
      /\ Like(r, r) /\ Like(disk.receipts[p], r) /\ Like(durable.receipts[p], r)
      /\ r.replacement # r.original /\ LagOf(disk, durable, p)
      /\ disk.effect[p] = "restored" /\ LiveContent = p
  BY <1>1, <1>2, AppliedFacts
<1>4. r.original # 0
  BY <1>1, <1>2, LaterFacts
<1>5. /\ UNCHANGED <<durable, data, lock, confirms, uses, plan, held>>
      /\ \/ /\ File(disk, r.staged) = r.original /\ data[r.original] = plan[p].expects
            /\ disk' = e /\ Go(w, "checking", r)
         \/ Go(w, "giving up", r) /\ UNCHANGED disk
  BY <1>1 DEF ExchangeBack, Same
<1>6. PlansStay /\ "none" \in Effects /\ "none" \in Effects \ {"restored"}
  BY <1>5, PlansSame DEF Effects
<1> HIDE DEF e
<1>7. CASE /\ File(disk, r.staged) = r.original /\ data[r.original] = plan[p].expects
           /\ disk' = e /\ Go(w, "checking", r)
  <2>1. r.staged # 0 /\ disk.names[r.staged] = r.original /\ disk.names[r.staged] # 0
    BY <1>4, <1>7 DEF File
  <2>2. /\ LiveFile(disk') = r.original /\ LiveContent' = plan[p].expects
        /\ disk'.receipts = disk.receipts
        /\ disk'.effect = [disk.effect EXCEPT ![p] = "none"] /\ disk'.effect[p] = "none"
        /\ EffectsKept(p) /\ Written(p, r)
    <3>1. /\ TypeInv /\ disk' = Exchanged(p, r.staged, "none") /\ durable' = durable
          /\ data' = data /\ disk.names[r.staged] # 0 /\ r.staged # 0
      BY <1>3, <1>5, <1>7, <2>1 DEF e
    <3>2. /\ LiveFile(disk') = disk.names[r.staged] /\ LiveContent' = data[disk.names[r.staged]]
          /\ disk'.receipts = disk.receipts
          /\ disk'.effect = [disk.effect EXCEPT ![p] = "none"] /\ disk'.effect[p] = "none"
          /\ EffectsKept(p) /\ \A b : Written(p, b)
      BY <1>3, <1>6, <3>1, SwapStep
    <3> QED BY <1>7, <2>1, <3>2
  <2>3. /\ Judge(disk.names[r.staged], "none", disk.receipts[p])
        /\ Judge(disk.names[r.staged], "none", durable.receipts[p])
    BY <1>3, <2>1, JudgeLike
  <2>4. JudgedPair(disk, durable) /\ TowerInv
    BY DEF TrueInv
  <2>5. JudgedPair(disk', durable')
    BY <1>3, <1>5, <1>6, <1>7, <2>1, <2>3, <2>4, SwapJudged DEF e
  <2>6. LagOf(disk', durable', p)
    BY <1>3, <1>5, <1>6, <1>7, <2>1, SwapLag DEF e
  <2>7. TowerInv'
    <3>1. Tower(p, disk.effect, plan) /\ disk.effect \in [Plans -> Effects]
      BY <1>3, <2>4 DEF TowerInv, Disks
    <3>2. Tower(plan[p].expects, [disk.effect EXCEPT ![p] = "none"], plan)
      BY <1>3, <1>6, <3>1, TowerPop
    <3>3. Tower(data'[LiveFile(durable')], durable'.effect, plan) /\ \A i \in Inodes : Made(data'[i])
      BY <1>5, <2>4 DEF TowerInv
    <3> QED BY <1>3, <1>5, <1>6, <2>2, <2>4, <3>2, <3>3, TowerNext
  <2>8. Like(disk'.receipts[p], r) /\ Like(durable'.receipts[p], r)
    BY <1>3, <1>5, <2>2
  <2> QED BY <1>1, <1>2, <1>3, <1>5, <1>7, <2>2, <2>5, <2>6, <2>7, <2>8, LaterTrue
<1>8. CASE Go(w, "giving up", r) /\ UNCHANGED disk
  <2>1. disk' \in {disk, Without(disk, r.staged)} /\ durable' \in {durable, disk'}
    BY <1>5, <1>8
  <2>2. /\ task[w].at \notin Pending \cup {"checking"}
        /\ "giving up" \in RestoreSteps \ (Pending \cup {"checking"})
    BY <1>2
  <2> QED BY <1>1, <1>2, <1>3, <1>5, <1>8, <2>1, <2>2, LaterCalm
<1> QED BY <1>5, <1>7, <1>8

-----------------------------------------------------------------------------
(* The steps of a rollback *)

LEMMA RollingFacts ==
  ASSUME TypeLockInv, KeptInv, TrueInv, NEW w \in Windows, task[w].op = "rollback",
         NEW p, p = task[w].plan, NEW r, r = task[w].receipt
  PROVE  /\ TypeInv /\ p \in Plans /\ p # None /\ r \in Receipts
         /\ disk \in Disks /\ durable \in Disks /\ Sound(disk) /\ disk.effect \in [Plans -> Effects]
         /\ lock = w /\ r.rollback \in Names /\ r.intact = "no"
         /\ r.emergency # 0 /\ data[disk.names[r.emergency]] = plan[p].expects
         /\ data \in [Inodes -> Contents] /\ JudgedPair(disk, durable) /\ TowerInv
         /\ Unrolled(r) \in Receipts /\ Unrolled(r).intact = "no" /\ Unrolled(r).state = "completed"
         /\ RollbackAt(w)
<1>1. /\ TypeInv /\ p \in Plans /\ r \in Receipts /\ disk \in Disks /\ durable \in Disks
      /\ Sound(disk) /\ r.rollback \in Names /\ GoodCopy(r, p) /\ data \in [Inodes -> Contents]
  BY WorkerFacts
<1>2. /\ lock = w /\ p # None /\ r.staged_sha = p /\ r.intact = "no"
      /\ Unrolled(r) \in Receipts /\ Unrolled(r).intact = "no"
  BY <1>1, RollFacts, PlanMade
<1>3. Secured(r, p)
  BY <1>1, <1>2 DEF GoodCopy
<1>4. RollbackAt(w) /\ JudgedPair(disk, durable) /\ TowerInv
  BY DEF TrueInv, RunInv, RunAt
<1>5. Unrolled(r).state = "completed" /\ disk.effect \in [Plans -> Effects]
  BY <1>1 DEF Unrolled, Receipts, Disks
<1> QED BY <1>1, <1>2, <1>3, <1>4, <1>5 DEF Secured

\* A rollback that changed nothing goes to its refusal.
LEMMA RollRefuses ==
  ASSUME TypeLockInv, KeptInv, TrueInv, NEW w \in Windows, task[w].op = "rollback",
         NEW p, p = task[w].plan, NEW a \in Receipts, Go(w, "refusing", a),
         UNCHANGED <<lock, confirms, plan, held>>, NEW b, Written(p, b), EffectsKept(p),
         JudgedPair(disk', durable'), TowerInv',
         a.state = "completed", disk'.effect[p] = "restored"
  PROVE  TrueInv'
<1>1. p \in Plans /\ lock = w /\ "refusing" \in Steps
  BY RollingFacts DEF Steps
<1>2. /\ task'[w].op = "rollback" /\ task'[w].plan = p /\ Stepped(w)
      /\ task'[w].at = "refusing" /\ task'[w].receipt = a
  <2>1. /\ Go(w, "refusing", a) /\ "refusing" \in Steps /\ a \in Receipts /\ p \in Plans
        /\ task[w].plan = p /\ UNCHANGED <<confirms, plan, held>>
    BY <1>1
  <2>2. Stepped(w) /\ task'[w].op = task[w].op /\ task'[w].plan = p
        /\ task'[w].at = "refusing" /\ task'[w].receipt = a
    BY <2>1, GoStepped
  <2> QED BY <2>2
<1>3. RollbackAt(w)'
  BY <1>2 DEF RollbackAt
<1>4. RunAt(w)'
  BY <1>2, <1>3 DEF RunAt
<1> QED BY <1>1, <1>2, <1>4, TrueMoves

\* A rollback is judged by its own copy of the replacement's identity.
LEMMA JudgeRolled ==
  ASSUME NEW r, r.state = "rollback_attempted", r.rollback # 0
  PROVE  /\ Judge(r.replacement, "restored", r)
         /\ r.rollback_identity # r.replacement => Judge(r.rollback_identity, "rolled back", r)
BY DEF Judge, AssessAs, Label, Terminal

LEMMA StageRollbackTrue ==
  ASSUME TypeLockInv, KeptInv, TrueInv, NEW w \in Windows, StageRollback(w)
  PROVE  TrueInv'
<1>1. PICK p, r, c : p = task[w].plan /\ r = task[w].receipt /\ c = data[File(disk, r.emergency)]
  OBVIOUS
<1> DEFINE made == [i \in Inodes |-> [r EXCEPT !.rollback_identity = i]]
           without == Unrolled(r)
<1>2. task[w].op = "rollback" /\ task[w].at = "staging" /\ "exchanging" \in Steps
  BY DEF StageRollback, At, Steps
<1>3. /\ TypeInv /\ p \in Plans /\ r \in Receipts /\ disk \in Disks /\ durable \in Disks
      /\ lock = w /\ r.rollback \in Names /\ data \in [Inodes -> Contents] /\ TowerInv
      /\ r.emergency # 0 /\ data[disk.names[r.emergency]] = plan[p].expects
      /\ without \in Receipts /\ without.state = "completed" /\ RollbackAt(w)
  BY <1>1, <1>2, RollingFacts
<1>4. /\ r.state = "rollback_attempted" /\ r.rollback # 0
      /\ disk.effect[p] = "restored" /\ LiveFile(disk) = r.replacement
  BY <1>1, <1>2, <1>3 DEF RollbackAt
<1>5. c = plan[p].expects /\ Made(c)
  BY <1>1, <1>3 DEF File, TowerInv
<1>6. /\ made \in [Inodes -> Receipts]
      /\ \A i \in Inodes : /\ made[i].state = "rollback_attempted" /\ made[i].rollback = r.rollback
                           /\ made[i].replacement = r.replacement /\ made[i].rollback_identity = i
  <2>1. ASSUME NEW i \in Inodes
        PROVE  /\ made[i] \in Receipts
               /\ made[i].state = "rollback_attempted" /\ made[i].rollback = r.rollback
               /\ made[i].replacement = r.replacement /\ made[i].rollback_identity = i
    BY <1>3, <1>4 DEF Receipts
  <2>2. made = [i \in Inodes |-> made[i]]
    OBVIOUS
  <2> HIDE DEF made
  <2> QED BY <2>1, <2>2
<1>7. /\ CopyRecorded(w, r.rollback, c, made, "exchanging", without)
      /\ UNCHANGED <<confirms, plan, held, uses, lock>>
  BY <1>1 DEF StageRollback, Same
<1>8. PlansStay /\ r.rollback \in Names \ {Live}
  BY <1>3, <1>4, <1>7, PlansSame DEF Live
<1> HIDE DEF made, without
<1>9. \A i \in Inodes : Judge(LiveFile(disk), disk.effect[p], made[i])
  <2>1. ASSUME NEW i \in Inodes, NEW m, m = made[i]
        PROVE  Judge(LiveFile(disk), disk.effect[p], m)
    <3>1. m.state = "rollback_attempted" /\ m.rollback # 0 /\ m.replacement = r.replacement
      BY <1>4, <1>6, <2>1
    <3>2. Judge(m.replacement, "restored", m)
      BY <3>1, JudgeRolled
    <3> QED BY <1>4, <3>1, <3>2
  <2> QED BY <2>1
<1>10. /\ JudgedPair(disk', durable') /\ TowerInv'
       /\ LiveFile(disk') = LiveFile(disk) /\ disk'.effect = disk.effect
  BY <1>1, <1>3, <1>5, <1>6, <1>7, <1>8, <1>9, CopyTrue
<1>11. CASE Go(w, "refusing", without) /\ UNCHANGED <<disk, durable, data>>
  <2>1. Written(p, without) /\ EffectsKept(p)
    BY <1>3, <1>11, NothingWritten
  <2> QED BY <1>1, <1>2, <1>3, <1>4, <1>7, <1>10, <1>11, <2>1, RollRefuses
<1>12. ASSUME NEW i \in Inodes, NEW m, m = made[i],
              Copied(w, p, r.rollback, c, m, "exchanging", without, i)
       PROVE  TrueInv'
  <2>1. /\ Written(p, m) /\ EffectsKept(p) /\ data' = [data EXCEPT ![i] = c]
        /\ \/ /\ Go(w, "exchanging", m)
              /\ disk'.names = [disk.names EXCEPT ![r.rollback] = i]
              /\ durable' = disk' /\ disk'.receipts[p] = m
           \/ Go(w, "refusing", without)
    BY <1>12 DEF Copied
  <2>2. /\ m \in Receipts /\ m.state = "rollback_attempted" /\ m.rollback = r.rollback
        /\ m.replacement = r.replacement /\ m.rollback_identity = i
    BY <1>6, <1>12
  <2>3. CASE /\ Go(w, "exchanging", m)
             /\ disk'.names = [disk.names EXCEPT ![r.rollback] = i]
             /\ durable' = disk' /\ disk'.receipts[p] = m
    <3>1. /\ task'[w].op = "rollback" /\ task'[w].plan = p /\ Stepped(w)
          /\ task'[w].at = "exchanging" /\ task'[w].receipt = m
      <4>1. /\ Go(w, "exchanging", m) /\ "exchanging" \in Steps /\ m \in Receipts /\ p \in Plans
            /\ task[w].plan = p /\ UNCHANGED <<confirms, plan, held>>
        BY <1>1, <1>2, <1>3, <1>7, <2>2, <2>3
      <4>2. Stepped(w) /\ task'[w].op = task[w].op /\ task'[w].plan = p
            /\ task'[w].at = "exchanging" /\ task'[w].receipt = m
        BY <4>1, GoStepped
      <4> QED BY <1>2, <4>2
    <3>2. File(disk', m.rollback) = i
      BY <1>3, <1>8, <2>2, <2>3 DEF File, Disks, Live
    <3>3. data'[i] = plan'[p].expects
      BY <1>3, <1>5, <1>7, <2>1
    <3>4. LagOf(disk', durable', p)
      BY <2>3 DEF LagOf
    <3>5. RollbackAt(w)'
      BY <1>4, <1>10, <2>2, <2>3, <3>1, <3>2, <3>3, <3>4 DEF RollbackAt, Both
    <3>6. RunAt(w)'
      BY <3>1, <3>5 DEF RunAt
    <3> QED BY <1>1, <1>2, <1>3, <1>7, <1>10, <2>1, <3>1, <3>6, TrueMoves
  <2>4. CASE Go(w, "refusing", without)
    BY <1>1, <1>2, <1>3, <1>4, <1>7, <1>10, <2>1, <2>4, RollRefuses
  <2> QED BY <2>1, <2>3, <2>4
<1>13. CASE \E i \in Inodes : Copied(w, p, r.rollback, c, made[i], "exchanging", without, i)
  BY <1>12, <1>13
<1>14. /\ p \in Plans /\ task[w].plan = p /\ r.rollback \in Names /\ PlansStay
       /\ CopyRecorded(w, r.rollback, c, made, "exchanging", without)
  BY <1>1, <1>3, <1>7, <1>8
<1>15. \/ Go(w, "refusing", without) /\ UNCHANGED <<disk, durable, data>>
       \/ \E i \in Inodes : Copied(w, p, r.rollback, c, made[i], "exchanging", without, i)
  BY <1>14, CopyMade
<1> QED BY <1>11, <1>13, <1>15

LEMMA RefuseRollbackTrue ==
  ASSUME TypeLockInv, KeptInv, TrueInv, NEW w \in Windows, RefuseRollback(w)
  PROVE  TrueInv'
<1>1. PICK p, r : p = task[w].plan /\ r = task[w].receipt
  OBVIOUS
<1>2. task[w].op = "rollback" /\ task[w].at = "refusing"
  BY DEF RefuseRollback, At
<1>3. /\ TypeInv /\ p \in Plans /\ r \in Receipts /\ disk \in Disks /\ lock = w
      /\ r.intact = "no" /\ RollbackAt(w)
  BY <1>1, <1>2, RollingFacts
<1>4. r.state = "completed" /\ disk.effect[p] = "restored"
  BY <1>1, <1>2, <1>3 DEF RollbackAt
<1>5. Judge(LiveFile(disk), disk.effect[p], r)
  BY <1>3, <1>4 DEF Judge, Open, Terminal
<1>6. /\ UNCHANGED <<data, plan, confirms, uses>> /\ Return(w)
      /\ \E result \in Writes : WriteReceipt(disk, durable, p, r, result)
      /\ held' = held \/ held' = [held EXCEPT ![w] = NoReview]
  BY <1>1, ReviewDropped DEF RefuseRollback
<1>7. PlansStay /\ Alike(disk, disk)
  BY <1>6, PlansSame, AlikeItself
<1> QED BY <1>1, <1>2, <1>3, <1>5, <1>6, <1>7, EndTrue

LEMMA ExchangeRollbackTrue ==
  ASSUME TypeLockInv, KeptInv, TrueInv, NEW w \in Windows, ExchangeRollback(w)
  PROVE  TrueInv'
<1>1. PICK p, r, u : p = task[w].plan /\ r = task[w].receipt /\ u = Unrolled(r)
  OBVIOUS
<1> DEFINE e == Exchanged(p, r.rollback, "rolled back")
<1>2. task[w].op = "rollback" /\ task[w].at = "exchanging" /\ "checking" \in Steps
  BY DEF ExchangeRollback, At, Steps
<1>3. /\ TypeInv /\ p \in Plans /\ p # None /\ r \in Receipts /\ disk \in Disks /\ durable \in Disks
      /\ Sound(disk) /\ disk.effect \in [Plans -> Effects] /\ lock = w /\ r.rollback \in Names
      /\ JudgedPair(disk, durable) /\ TowerInv
      /\ u \in Receipts /\ u.state = "completed" /\ RollbackAt(w)
  BY <1>1, <1>2, RollingFacts
<1>4. /\ r.state = "rollback_attempted" /\ r.rollback # 0
      /\ disk.receipts[p] = r /\ durable.receipts[p] = r
      /\ disk.effect[p] = "restored" /\ LiveFile(disk) = r.replacement
      /\ File(disk, r.rollback) = r.rollback_identity
      /\ data[r.rollback_identity] = plan[p].expects /\ LagOf(disk, durable, p)
  BY <1>1, <1>2, <1>3 DEF RollbackAt, Both
<1>5. LiveContent = p /\ File(disk, r.rollback) # 0
  BY <1>1, <1>2, RollFacts DEF TypeLockInv, LockAt
<1>6. disk.names[r.rollback] = r.rollback_identity /\ disk.names[r.rollback] # 0
  BY <1>4, <1>5 DEF File
<1>7. /\ UNCHANGED <<durable, data, lock, confirms, uses, plan, held>>
      /\ \/ disk' = e /\ Go(w, "checking", r)
         \/ disk' = Without(disk, r.rollback) /\ Go(w, "refusing", u)
  BY <1>1 DEF ExchangeRollback
<1>8. PlansStay /\ "rolled back" \in Effects /\ "rolled back" \in Effects \ {"restored"}
  BY <1>7, PlansSame DEF Effects
<1> HIDE DEF e
<1>9. CASE disk' = e /\ Go(w, "checking", r)
  <2>1. /\ LiveFile(disk') = r.rollback_identity /\ LiveContent' = plan[p].expects
        /\ disk'.names[r.rollback] = r.replacement /\ r.replacement # r.rollback_identity
        /\ disk'.receipts = disk.receipts
        /\ disk'.effect = [disk.effect EXCEPT ![p] = "rolled back"] /\ disk'.effect[p] = "rolled back"
        /\ EffectsKept(p) /\ Written(p, r)
    <3>1. /\ TypeInv /\ disk' = Exchanged(p, r.rollback, "rolled back") /\ durable' = durable
          /\ data' = data /\ disk.names[r.rollback] # 0 /\ r.rollback # 0
      BY <1>3, <1>4, <1>6, <1>7, <1>9 DEF e
    <3>2. /\ LiveFile(disk') = disk.names[r.rollback]
          /\ LiveContent' = data[disk.names[r.rollback]]
          /\ disk'.names[r.rollback] = LiveFile(disk) /\ LiveFile(disk) # disk.names[r.rollback]
          /\ disk'.receipts = disk.receipts
          /\ disk'.effect = [disk.effect EXCEPT ![p] = "rolled back"] /\ disk'.effect[p] = "rolled back"
          /\ EffectsKept(p) /\ \A b : Written(p, b)
      BY <1>3, <1>8, <3>1, SwapStep
    <3> QED BY <1>4, <1>6, <3>2
  <2>2. Judge(disk.names[r.rollback], "rolled back", r)
    BY <1>4, <1>6, <2>1, JudgeRolled
  <2>3. JudgedPair(disk', durable')
    <3>1. JudgedPair(Exchanged(p, r.rollback, "rolled back"), durable)
      BY <1>3, <1>4, <1>6, <1>8, <2>2, SwapJudged
    <3> QED BY <1>7, <1>9, <3>1 DEF e
  <2>4. LagOf(disk', durable', p)
    <3>1. LagOf(Exchanged(p, r.rollback, "rolled back"), durable, p)
      BY <1>3, <1>4, <1>6, <1>8, SwapLag
    <3> QED BY <1>7, <1>9, <3>1 DEF e
  <2>5. TowerInv'
    <3>1. Tower(p, disk.effect, plan)
      BY <1>3, <1>5 DEF TowerInv
    <3>2. Tower(plan[p].expects, [disk.effect EXCEPT ![p] = "rolled back"], plan)
      BY <1>3, <1>8, <3>1, TowerPop
    <3>3. Tower(data'[LiveFile(durable')], durable'.effect, plan) /\ \A i \in Inodes : Made(data'[i])
      BY <1>3, <1>7 DEF TowerInv
    <3> QED BY <1>3, <1>7, <1>8, <2>1, <3>2, <3>3, TowerNext
  <2>6. /\ task'[w].op = "rollback" /\ task'[w].plan = p /\ Stepped(w)
        /\ task'[w].at = "checking" /\ task'[w].receipt = r
    <3>1. /\ Go(w, "checking", r) /\ "checking" \in Steps /\ r \in Receipts /\ p \in Plans
          /\ task[w].plan = p /\ UNCHANGED <<confirms, plan, held>>
      BY <1>1, <1>2, <1>3, <1>7, <1>9
    <3>2. Stepped(w) /\ task'[w].op = task[w].op /\ task'[w].plan = p
          /\ task'[w].at = "checking" /\ task'[w].receipt = r
      BY <3>1, GoStepped
    <3> QED BY <1>2, <3>2
  <2>7. /\ File(disk', r.rollback) = r.replacement /\ data'[r.replacement] = p
        /\ LiveContent' = plan'[p].expects
    BY <1>4, <1>5, <1>7, <2>1 DEF File, LiveContent
  <2>8. disk'.receipts[p] = r /\ durable'.receipts[p] = r
    BY <1>4, <1>7, <2>1
  <2>9. RollbackAt(w)'
    BY <1>4, <2>1, <2>4, <2>6, <2>7, <2>8 DEF RollbackAt, Both
  <2>10. RunAt(w)'
    BY <2>6, <2>9 DEF RunAt
  <2> QED BY <1>1, <1>2, <1>3, <1>7, <2>1, <2>3, <2>5, <2>6, <2>10, TrueMoves
<1>10. CASE disk' = Without(disk, r.rollback) /\ Go(w, "refusing", u)
  <2>1. disk' \in Disks /\ Alike(disk', disk)
    BY <1>3, <1>10, AlikeItself
  <2>2. /\ JudgedPair(disk', durable') /\ TowerInv' /\ Written(p, r) /\ EffectsKept(p)
        /\ disk'.effect = disk.effect
    BY <1>3, <1>7, <1>8, <2>1, CalmStep
  <2> QED BY <1>1, <1>2, <1>3, <1>4, <1>7, <1>10, <2>2, RollRefuses
<1> QED BY <1>7, <1>9, <1>10

LEMMA SwapLive ==
  ASSUME disk \in Disks, Sound(disk), NEW p \in Plans, NEW n \in Names, disk.names[n] # 0,
         NEW effect, effect \in Effects
  PROVE  Exchanged(p, n, effect).names[Live] = disk.names[n]
BY Swapped

LEMMA SwapEffect ==
  ASSUME disk \in Disks, Sound(disk), NEW p \in Plans, NEW n \in Names, disk.names[n] # 0,
         NEW effect, effect \in Effects
  PROVE  Exchanged(p, n, effect).effect = [disk.effect EXCEPT ![p] = effect]
<1> DEFINE e == Exchanged(p, n, effect)
<1>1. /\ e \in Disks /\ e.names[Live] = disk.names[n]
      /\ e.receipts = disk.receipts /\ e.stale = disk.stale
      /\ e.effect = [disk.effect EXCEPT ![p] = effect]
      /\ e.since = [q \in Plans |-> disk.since[q] \/
                      (q # p /\ disk.receipts[q].state \notin Terminal \cup {"none"})]
  BY Swapped
<1> QED BY <1>1

LEMMA SwapDisk ==
  ASSUME disk \in Disks, Sound(disk), NEW p \in Plans, NEW n \in Names, disk.names[n] # 0,
         NEW effect, effect \in Effects, NEW e, e = Exchanged(p, n, effect)
  PROVE  /\ e \in Disks /\ Sound(e) /\ e.names[Live] = disk.names[n]
         /\ e.receipts = disk.receipts
         /\ e.effect = [disk.effect EXCEPT ![p] = effect]
<1>1. e \in Disks
  BY Swapped
<1>2. Sound(e)
  BY Swapped
<1>3. e.names[Live] = disk.names[n]
  BY SwapLive
<1>4. e.receipts = disk.receipts
  BY Swapped
<1>5. e.effect = [disk.effect EXCEPT ![p] = effect]
  BY SwapEffect
<1> QED BY <1>1, <1>2, <1>3, <1>4, <1>5

\* A rollback whose check failed is exchanged back.
LEMMA PutBack ==
  ASSUME TypeInv, TrueInv, NEW p \in Plans, NEW n \in Names, n # 0,
         disk.names[n] # 0, data[disk.names[n]] = p,
         disk.effect[p] # "restored", LiveContent = plan[p].expects,
         LagOf(disk, durable, p),
         Judge(disk.names[n], "restored", disk.receipts[p]),
         Judge(disk.names[n], "restored", durable.receipts[p]),
         NEW back, back = Exchanged(p, n, "restored"), NEW s \in {back, durable},
         NEW b \in Receipts, b.state = "completed", b.intact = "no", NEW result,
         WriteReceipt(Without(back, n), s, p, b, result),
         UNCHANGED <<data, uses>>, PlansStay
  PROVE  JudgedPair(disk', durable') /\ TowerInv' /\ Written(p, b) /\ EffectsKept(p)
<1>1. /\ disk \in Disks /\ durable \in Disks /\ Sound(disk) /\ disk.effect \in [Plans -> Effects]
      /\ JudgedPair(disk, durable) /\ TowerInv /\ "restored" \in Effects
  BY DEF TypeInv, TrueInv, Disks, Effects
<1>2. JudgedPair(Exchanged(p, n, "restored"), durable)
  BY <1>1, SwapJudged
<1>3. /\ back \in Disks /\ Sound(back) /\ back.names[Live] = disk.names[n]
      /\ back.receipts = disk.receipts
      /\ back.effect = [disk.effect EXCEPT ![p] = "restored"]
  BY <1>1, SwapDisk
<1>4. back.effect[p] = "restored" /\ \A q \in Plans \ {p} : back.effect[q] = disk.effect[q]
  BY <1>1, <1>3
<1>5. PICK d : d = Without(back, n)
  OBVIOUS
<1>6. /\ d \in Disks /\ d.names[Live] = back.names[Live] /\ d.receipts = back.receipts
      /\ d.effect = back.effect /\ d.since = back.since /\ d.stale = back.stale
  BY <1>3, <1>5, Removed
<1>7. Alike(d, back)
  BY <1>6 DEF Alike, LiveFile
<1>8. JudgedPair(d, durable) /\ JudgedPair(d, back)
  BY <1>1, <1>2, <1>3, <1>6, <1>7, AlikeJudged
<1>9. JudgedPair(d, s) /\ s \in Disks
  BY <1>1, <1>3, <1>8
<1>10. Judge(LiveFile(d), d.effect[p], b)
  BY <1>4, <1>6 DEF Judge, Open, Terminal
<1>11. WriteReceipt(d, s, p, b, result)
  BY <1>5
<1>12. JudgedPair(disk', durable')
  BY <1>6, <1>9, <1>10, <1>11, WriteJudged
<1>13. d.receipts = disk.receipts /\ s.receipts \in {disk.receipts, durable.receipts}
  BY <1>3, <1>6
<1>14. Written(p, b) /\ disk'.names = d.names /\ disk'.effect = d.effect
  BY <1>6, <1>11, <1>13, WriteWritten
<1>15. durable' \in {disk', s}
  BY <1>11 DEF WriteReceipt
<1>16. EffectsKept(p)
  BY <1>4, <1>6, <1>14, <1>15 DEF EffectsKept
<1>17. /\ LiveFile(disk') = disk.names[n] /\ disk'.effect = back.effect
       /\ LiveFile(back) = disk.names[n]
  BY <1>3, <1>6, <1>14 DEF LiveFile
<1>18. TowerInv'
  <2>1. Tower(LiveContent, disk.effect, plan) /\ \A i \in Inodes : Made(data'[i])
    BY <1>1 DEF TowerInv
  <2>2. Tower(p, back.effect, plan)
    BY <1>1, <1>3, <2>1, TowerPush
  <2>3. Tower(LiveContent', disk'.effect, plan)
    BY <1>17, <2>2 DEF LiveContent
  <2>4. Tower(data'[LiveFile(durable')], durable'.effect, plan)
    <3>1. CASE durable' = durable
      BY <1>1, <3>1 DEF TowerInv
    <3>2. CASE durable' = disk' \/ durable' = back
      BY <1>17, <2>2, <3>2
    <3> QED BY <1>15, <3>1, <3>2
  <2> QED BY <1>1, <2>1, <2>3, <2>4, TowerNext
<1> QED BY <1>12, <1>14, <1>16, <1>18

LEMMA CheckRollbackTrue ==
  ASSUME TypeLockInv, KeptInv, TrueInv, NEW w \in Windows, CheckRollback(w)
  PROVE  TrueInv'
<1>1. PICK p, r, u, back : /\ p = task[w].plan /\ r = task[w].receipt /\ u = Unrolled(r)
                           /\ back = Exchanged(p, r.rollback, "restored")
  OBVIOUS
<1> DEFINE rolled == [r EXCEPT !.state = "rolled_back", !.intact = "yes"]
           failed == [r EXCEPT !.state = "rollback_failed", !.intact = "unknown"]
<1>2. task[w].op = "rollback" /\ task[w].at = "checking"
  BY DEF CheckRollback, At
<1>3. /\ TypeInv /\ p \in Plans /\ r \in Receipts /\ disk \in Disks /\ lock = w
      /\ r.rollback \in Names
      /\ u \in Receipts /\ u.state = "completed" /\ u.intact = "no" /\ RollbackAt(w)
  BY <1>1, <1>2, RollingFacts
<1>4. /\ r.state = "rollback_attempted" /\ r.rollback # 0
      /\ disk.receipts[p] = r /\ durable.receipts[p] = r
      /\ disk.effect[p] = "rolled back" /\ LiveContent = plan[p].expects
      /\ File(disk, r.rollback) = r.replacement /\ data[r.replacement] = p
      /\ LagOf(disk, durable, p)
  BY <1>1, <1>2, <1>3 DEF RollbackAt, Both
<1>5. disk.names[r.rollback] = r.replacement /\ disk.names[r.rollback] # 0
  BY <1>1, <1>2, <1>4 DEF TypeLockInv, LockAt, File
<1>6. /\ rolled \in Receipts /\ Judge(LiveFile(disk), disk.effect[p], rolled)
      /\ failed \in Receipts /\ Judge(LiveFile(disk), disk.effect[p], failed)
  BY <1>3, <1>4, EndState DEF Terminal
<1>7. /\ Return(w) /\ UNCHANGED <<data, plan, confirms, uses>>
      /\ held' = held \/ held' = [held EXCEPT ![w] = NoReview]
  BY ReviewDropped DEF CheckRollback
<1>8. PICK result \in Writes :
        \/ WriteReceipt(Without(disk, r.rollback), disk, p, rolled, result)
        \/ \E s \in {back, durable} : WriteReceipt(Without(back, r.rollback), s, p, u, result)
        \/ WriteReceipt(disk, durable, p, failed, result)
  BY <1>1 DEF CheckRollback
<1> HIDE DEF rolled, failed
<1>9. /\ PlansStay /\ Alike(disk, disk)
      /\ Alike(Without(disk, r.rollback), disk) /\ Without(disk, r.rollback) \in Disks
  BY <1>3, <1>7, PlansSame, AlikeItself
<1>10. CASE WriteReceipt(Without(disk, r.rollback), disk, p, rolled, result)
  BY <1>1, <1>2, <1>3, <1>6, <1>7, <1>9, <1>10, EndTrue
<1>11. ASSUME NEW s \in {back, durable},
              WriteReceipt(Without(back, r.rollback), s, p, u, result)
       PROVE  TrueInv'
  <2>1. Judge(disk.names[r.rollback], "restored", r)
    BY <1>4, <1>5, JudgeRolled
  <2>2. JudgedPair(disk', durable') /\ TowerInv' /\ Written(p, u) /\ EffectsKept(p)
    BY <1>1, <1>3, <1>4, <1>5, <1>7, <1>9, <1>11, <2>1, PutBack
  <2> QED BY <1>1, <1>2, <1>3, <1>7, <1>9, <2>2, TrueReturns
<1>12. CASE WriteReceipt(disk, durable, p, failed, result)
  BY <1>1, <1>2, <1>3, <1>6, <1>7, <1>9, <1>12, EndTrue
<1> QED BY <1>8, <1>10, <1>11, <1>12
-----------------------------------------------------------------------------
(* An interrupted receipt is settled *)

LEMMA SettledJudged ==
  ASSUME NEW r \in Receipts, NEW b \in Settled(r), NEW effect \in Effects,
         AssessAs(LiveFile(disk), r) = Label(effect)
  PROVE  Judge(LiveFile(disk), effect, b)
<1>1. Assess(r) = Label(effect)
  BY DEF Assess, AssessAs
<1>2. CASE effect = "none"
  <2>1. Assess(r) = "original"
    BY <1>1, <1>2 DEF Label
  <2>2. b = [r EXCEPT !.state = "failed", !.intact = "yes"]
    BY <2>1 DEF Settled
  <2> QED BY <1>2, <2>2, EndState DEF Terminal
<1>3. CASE effect = "restored"
  <2>1. Assess(r) = "replacement"
    BY <1>1, <1>3 DEF Label
  <2>2. b = [Unrolled(r) EXCEPT !.intact = "no", !.applied_sha = r.staged_sha]
    BY <2>1 DEF Settled
  <2>3. b.state = "completed" /\ b.intact = "no"
    BY <2>2 DEF Unrolled, Receipts
  <2> QED BY <1>3, <2>3 DEF Judge, Open, Terminal
<1>4. CASE effect = "rolled back"
  <2>1. Assess(r) = "rollback"
    BY <1>1, <1>4 DEF Label
  <2>2. b = [r EXCEPT !.state = "rolled_back", !.intact = "yes"]
    BY <2>1 DEF Settled
  <2> QED BY <1>4, <2>2, EndState DEF Terminal
<1> QED BY <1>2, <1>3, <1>4 DEF Effects

LEMMA FinaliseTrue ==
  ASSUME TypeLockInv, KeptInv, TrueInv, NEW w \in Windows, Finalise(w)
  PROVE  TrueInv'
<1>1. PICK p, r : p = task[w].plan /\ r = task[w].receipt
  OBVIOUS
<1>2. task[w].op = "finalise"
  BY DEF Finalise, At
<1>3. TypeInv /\ p \in Plans /\ r \in Receipts /\ disk \in Disks
  BY <1>1, <1>2, WorkerFacts
<1>4. /\ UNCHANGED <<data, confirms, plan, held, uses>> /\ Return(w)
      /\ \/ /\ lock = None
            /\ \E b \in Settled(r), result \in Writes :
                 WriteReceipt([disk EXCEPT !.stale[p] = @ \/ disk.receipts[p] # r],
                              durable, p, b, result)
         \/ UNCHANGED <<disk, durable>>
  BY <1>1 DEF Finalise, Same
<1>5. PlansStay
  BY <1>4, PlansSame
<1>6. CASE UNCHANGED <<disk, durable>>
  <2>1. disk' \in Disks /\ Alike(disk', disk)
    BY <1>3, <1>6 DEF Alike
  <2>2. JudgedPair(disk', durable') /\ TowerInv' /\ Written(p, r) /\ EffectsKept(p)
    BY <1>3, <1>4, <1>5, <1>6, <2>1, CalmStep
  <2> QED BY <1>1, <1>2, <1>4, <1>5, <1>6, <2>2, TrueReturns
<1>7. ASSUME NEW b \in Settled(r), NEW result \in Writes, lock = None,
             WriteReceipt([disk EXCEPT !.stale[p] = @ \/ disk.receipts[p] # r],
                          durable, p, b, result)
      PROVE  TrueInv'
  <2> DEFINE d == [disk EXCEPT !.stale[p] = @ \/ disk.receipts[p] # r]
  <2>1. /\ d \in Disks /\ d.names = disk.names /\ d.effect = disk.effect
        /\ d.since = disk.since /\ d.receipts = disk.receipts
        /\ d.stale = [disk.stale EXCEPT ![p] = @ \/ disk.receipts[p] # r]
    BY <1>3 DEF Disks
  <2>2. WriteReceipt(d, durable, p, b, result)
    BY <1>7
  <2> HIDE DEF d
  <2>3. /\ \A q \in Plans : disk.stale[q] => d.stale[q]
        /\ ~d.stale[p] => disk.receipts[p] = r /\ ~disk.stale[p]
    BY <1>3, <2>1 DEF Disks
  <2>4. Alike(d, disk)
    BY <2>1, <2>3 DEF Alike, LiveFile
  <2>5. disk.effect[p] \in Effects /\ b \in Receipts
    BY <1>3, SettledOK DEF Disks
  <2>6. Open(r) /\ Judged(disk)
    BY <1>1, <1>2 DEF TrueInv, RunInv, RunAt, JudgedPair
  <2>7. ASSUME ~d.since[p], ~d.stale[p]
        PROVE  Judge(LiveFile(disk), disk.effect[p], b)
    <3>1. Judge(LiveFile(disk), disk.effect[p], r)
      BY <1>3, <2>1, <2>3, <2>6, <2>7 DEF Judged
    <3>2. AssessAs(LiveFile(disk), r) = Label(disk.effect[p])
      BY <2>6, <3>1 DEF Judge
    <3> QED BY <1>3, <2>5, <3>2, SettledJudged
  <2>8. JudgedPair(disk', durable') /\ TowerInv' /\ Written(p, b) /\ EffectsKept(p)
    BY <1>3, <1>4, <1>5, <2>1, <2>2, <2>4, <2>5, <2>7, CalmWrite
  <2>9. lock \notin Windows
    BY <1>7, NoneApart
  <2> QED BY <1>1, <1>2, <1>4, <1>5, <2>8, <2>9, TrueReturns
<1> QED BY <1>4, <1>6, <1>7

-----------------------------------------------------------------------------
(* Reviews and plans come and go, the library is used, processes die *)

LEMMA FilesSame ==
  ASSUME TypeLockInv, KeptInv, TrueInv, UNCHANGED <<disk, durable, data, uses>>, ExpectsKept,
         \A v \in Windows :
           RunAt(v)' \/ task'[v] = Idle \/ (task'[v] = task[v] /\ (lock' = v <=> lock = v)),
         \A p \in Plans :
           \/ plan'[p].expects = plan[p].expects
           \/ /\ disk.effect[p] # "restored" /\ durable.effect[p] # "restored"
              /\ Made(plan'[p].expects)
  PROVE  TrueInv'
<1>1. JudgedPair(disk', durable')
  BY DEF TrueInv
<1>2. TowerInv'
  <2>1. /\ Tower(LiveContent, disk.effect, plan)
        /\ Tower(data[LiveFile(durable)], durable.effect, plan)
    BY DEF TrueInv, TowerInv
  <2>2. /\ \A p \in Plans : disk.effect[p] = "restored" => plan'[p].expects = plan[p].expects
        /\ \A p \in Plans : durable.effect[p] = "restored" => plan'[p].expects = plan[p].expects
    OBVIOUS
  <2>3. /\ Tower(LiveContent, disk.effect, plan')
        /\ Tower(data[LiveFile(durable)], durable.effect, plan')
    BY <2>1, <2>2, TowerPlans
  <2>4. LiveContent' = LiveContent
    BY DEF LiveContent, LiveFile
  <2>5. /\ \A i \in Inodes : Made(data[i])'
        /\ \A p \in Plans : Made(plan[p].expects)'
    BY DEF TrueInv, TowerInv, Made
  <2> QED BY <2>3, <2>4, <2>5 DEF TowerInv
<1>3. ASSUME NEW v \in Windows PROVE RunAt(v)'
  <2>1. CASE task'[v] = Idle
    BY <2>1, IdleFields DEF RunAt
  <2>2. CASE task'[v] = task[v] /\ (lock' = v <=> lock = v)
    <3>1. PICK p : p = task[v].plan
      OBVIOUS
    <3>2. RunAt(v)
      BY DEF TrueInv, RunInv
    <3> QED BY <2>2, <3>1, <3>2, RunKept
  <2> QED BY <2>1, <2>2
<1> QED BY <1>1, <1>2, <1>3 DEF TrueInv, RunInv

LEMMA PrepareTrue ==
  ASSUME TypeLockInv, KeptInv, TrueInv, NEW w \in Windows, NEW p \in Plans, Prepare(w, p)
  PROVE  TrueInv'
<1>1. TypeInv /\ plan[p].expects = None
  BY DEF TypeLockInv, Prepare
<1>2. /\ plan' = [WithoutPlans({w}) EXCEPT ![p] = [by |-> w, expects |-> LiveContent]]
      /\ UNCHANGED <<disk, durable, data, lock, task, uses>>
  BY DEF Prepare
<1>3. /\ plan'[p].expects = LiveContent
      /\ \A q \in Plans \ {p} : plan'[q].expects = plan[q].expects
  <2>1. WithoutPlans({w}) \in [Plans -> [by : Windows \cup {None}, expects : Contents \cup {None}]]
    BY <1>1, PlansKept
  <2>2. /\ plan'[p] = [by |-> w, expects |-> LiveContent]
        /\ \A q \in Plans \ {p} : plan'[q] = WithoutPlans({w})[q]
    BY <1>2, <2>1
  <2> QED BY <1>1, <2>2, WithoutPlansOf
<1>4. ExpectsKept
  BY <1>1, <1>3 DEF ExpectsKept
<1>5. disk.effect[p] # "restored" /\ durable.effect[p] # "restored"
  BY <1>1 DEF KeptInv, AloneInv, PlanInv, Unconfirmed
<1>6. Made(plan'[p].expects)
  BY <1>1, <1>3, Types DEF TrueInv, TowerInv, LiveContent
<1> QED BY <1>2, <1>3, <1>4, <1>5, <1>6, FilesSame

LEMMA ReviewRollbackTrue ==
  ASSUME TypeLockInv, KeptInv, TrueInv, NEW w \in Windows, NEW p \in Plans, ReviewRollback(w, p)
  PROVE  TrueInv'
<1>1. TypeInv
  BY DEF TypeLockInv
<1>2. plan' = WithoutPlans({w}) /\ UNCHANGED <<disk, durable, data, lock, task, uses>>
  BY DEF ReviewRollback
<1>3. \A q \in Plans : plan'[q].expects = plan[q].expects
  BY <1>1, <1>2, WithoutPlansOf
<1>4. ExpectsKept
  BY <1>3 DEF ExpectsKept
<1> QED BY <1>2, <1>3, <1>4, FilesSame

LEMMA ReadInterruptedTrue ==
  ASSUME TypeLockInv, KeptInv, TrueInv, NEW w \in Windows, NEW p \in Plans, ReadInterrupted(w, p)
  PROVE  TrueInv'
<1> DEFINE t == [op |-> "finalise", at |-> "assessing", plan |-> p, receipt |-> disk.receipts[p]]
<1>1. /\ UNCHANGED <<disk, durable, data, lock, plan, uses>>
      /\ task' = [task EXCEPT ![w] = t] /\ Open(disk.receipts[p])
  BY DEF ReadInterrupted, Same, Interrupted, Open
<1>2. t.op = "finalise" /\ t.receipt = disk.receipts[p]
  OBVIOUS
<1> HIDE DEF t
<1>3. task'[w] = t /\ \A v \in Windows \ {w} : task'[v] = task[v]
  BY <1>1 DEF TypeLockInv, TypeInv
<1>4. RunAt(w)'
  BY <1>1, <1>2, <1>3 DEF RunAt
<1>5. ExpectsKept
  BY <1>1 DEF ExpectsKept
<1>6. \A v \in Windows : RunAt(v)' \/ (task'[v] = task[v] /\ (lock' = v <=> lock = v))
  BY <1>1, <1>3, <1>4
<1> QED BY <1>1, <1>5, <1>6, FilesSame

LEMMA KilledTrue ==
  ASSUME TypeLockInv, KeptInv, TrueInv, NEW w \in Windows, Killed(w)
  PROVE  TrueInv'
<1>1. TypeInv
  BY DEF TypeLockInv
<1>2. /\ plan' = WithoutPlans({w}) /\ UNCHANGED <<disk, durable, data, uses>>
      /\ \A v \in Windows : task'[v] = IF v = w THEN Idle ELSE task[v]
      /\ lock' = IF lock = w THEN None ELSE lock
  BY DEF Killed, Die
<1>3. \A q \in Plans : plan'[q].expects = plan[q].expects
  BY <1>1, <1>2, WithoutPlansOf
<1>4. ExpectsKept
  BY <1>3 DEF ExpectsKept
<1>5. \A v \in Windows : task'[v] = Idle \/ (task'[v] = task[v] /\ (lock' = v <=> lock = v))
  BY <1>2, NoneApart
<1> QED BY <1>2, <1>3, <1>4, <1>5, FilesSame
-----------------------------------------------------------------------------
(* An operation starts *)

\* What its first receipt leaves of the other workers.
LEMMA OthersStart ==
  ASSUME TypeLockInv, KeptInv, NEW v \in Windows, RunAt(v),
         NEW p \in Plans, NEW b, Written(p, b), EffectsKept(p), ExpectsKept,
         lock \in Windows => Quiet(p), task'[v] = task[v], lock' = v <=> lock = v,
         task[v].op \in {"restore", "rollback"} => task[v].plan # p
  PROVE  RunAt(v)'
<1>1. PICK q : q = task[v].plan
  OBVIOUS
<1>2. task[v].op \in {"restore", "rollback"} => q \in Plans \ {p}
  BY <1>1, RollExpects
<1>3. task[v].op \in {"restore", "rollback"} =>
        /\ disk'.receipts[q] = disk.receipts[q]
        /\ durable'.receipts[q] \in {durable.receipts[q], disk.receipts[q]}
        /\ disk'.effect[q] = disk.effect[q]
  BY <1>2 DEF Written, EffectsKept
<1>4. ASSUME lock = v
      PROVE  /\ disk'.names = disk.names /\ data' = data
             /\ LagOf(disk, durable, q) => LagOf(disk', durable', q)
  <2>1. Quiet(p)
    BY <1>4
  <2>2. disk'.names = disk.names /\ data' = data
    BY <2>1 DEF Quiet
  <2> QED BY <2>1, <2>2, LagQuiet
<1> QED BY <1>1, <1>3, <1>4, RunKept

LEMMA ConfirmTrue ==
  ASSUME ConfirmedOnce, TypeLockInv, KeptInv, TrueInv,
         NEW w \in Windows, NEW p \in Plans, Confirm(w, p)
  PROVE  TrueInv'
<1> DEFINE r == [NoReceipt EXCEPT !.state = "validating"]
           t == [op |-> "restore", at |-> "excluding", plan |-> p, receipt |-> r]
<1>1. TypeInv /\ task[w] = Idle /\ task \in [Windows -> Tasks] /\ RunInv
  BY DEF TypeLockInv, TypeInv, Confirm, TrueInv
<1>2. r \in Receipts /\ r.staged_sha = None /\ r.state = "validating" /\ r.rollback = 0
  <2>1. r.staged_sha = None /\ r.state = "validating" /\ r.rollback = 0
    BY DEF NoReceipt
  <2>2. "validating" \in States /\ NoReceipt \in Receipts
    BY NoReceiptOK DEF States
  <2>3. r \in Receipts
    BY <2>2, StateSet
  <2> QED BY <2>1, <2>3
<1>3. /\ UNCHANGED <<data, plan, held, uses, lock>> /\ confirms[p] < MaxConfirms
      /\ confirms[p] \in {0, 1}
  BY DEF Confirm, KeptInv, AloneInv, PlanInv
<1>4. PICK result \in Writes :
        /\ WriteReceipt(disk, durable, p, r, result)
        /\ task' = IF result = "ok" THEN [task EXCEPT ![w] = t] ELSE task
  BY DEF Confirm
<1>5. t.op = "restore" /\ t.at = "excluding" /\ t.plan = p /\ t.receipt = r
  OBVIOUS
<1> HIDE DEF r, t
<1>6. confirms[p] = 0
  BY <1>3 DEF ConfirmedOnce
<1>7. Unconfirmed(p)
  BY <1>6 DEF KeptInv, AloneInv, PlanInv
<1>8. Fixed(NoReceipt) /\ Fixed(r)
  BY <1>2 DEF Fixed, Open, NoReceipt
<1>9. disk.effect[p] = "none" /\ Fixed(disk.receipts[p]) /\ Fixed(durable.receipts[p])
  BY <1>7, <1>8 DEF Unconfirmed
<1>10. Judge(LiveFile(disk), disk.effect[p], r)
  BY <1>2, <1>9, JudgeEarly
<1>11. PlansStay /\ ExpectsKept
  BY <1>3, PlansSame
<1>12. /\ JudgedPair(disk', durable') /\ TowerInv' /\ Written(p, r) /\ EffectsKept(p)
       /\ disk'.effect = disk.effect /\ disk'.since = disk.since /\ disk'.names = disk.names
       /\ durable' \in {disk', durable}
       /\ result = "ok" => durable' = disk' /\ disk'.receipts[p] = r
  <2>1. disk \in Disks /\ Alike(disk, disk)
    BY <1>1, AlikeItself DEF TypeInv
  <2> QED BY <1>1, <1>2, <1>3, <1>4, <1>10, <1>11, <2>1, CalmWrite
<1>13. Quiet(p)
  BY <1>3, <1>9, <1>12 DEF Quiet
<1>14. ASSUME NEW v \in Windows \ {w} PROVE RunAt(v)'
  <2>1. task'[v] = task[v] /\ RunAt(v)
    BY <1>1, <1>4 DEF RunInv
  <2>2. task[v].plan # p
    BY <1>7 DEF Unconfirmed
  <2> QED BY <1>3, <1>11, <1>12, <1>13, <2>1, <2>2, OthersStart
<1>15. RunAt(w)'
  <2>1. CASE result = "ok"
    <3>1. task'[w] = t
      BY <1>1, <1>4, <2>1
    <3>2. "excluding" \in Early /\ "excluding" \in Pending
      BY DEF Early, Pending
    <3>3. disk'.effect[p] = "none" /\ Fixed(disk'.receipts[p]) /\ Fixed(durable'.receipts[p])
      BY <1>8, <1>9, <1>12, <2>1
    <3>4. RestoreAt(w)'
      BY <1>2, <1>5, <3>1, <3>2, <3>3 DEF RestoreAt
    <3> QED BY <1>5, <3>1, <3>4 DEF RunAt
  <2>2. CASE result # "ok"
    BY <1>1, <1>4, <2>2, IdleFields DEF RunAt
  <2> QED BY <2>1, <2>2
<1> QED BY <1>12, <1>14, <1>15 DEF TrueInv, RunInv

LEMMA BeginRollbackTrue ==
  ASSUME TypeLockInv, KeptInv, TrueInv, NEW w \in Windows, BeginRollback(w)
  PROVE  TrueInv'
<1>1. PICK p, h, l : p = held[w].plan /\ h = held[w].receipt /\ l = LiveFile(disk)
  OBVIOUS
<1>2. /\ TypeInv /\ disk \in Disks /\ task[w] = Idle /\ task \in [Windows -> Tasks]
      /\ RunInv /\ TowerInv
      /\ \A q \in Plans : \A s \in CopiesOf(q) : GoodCopy(s, q)
  BY DEF TypeLockInv, TypeInv, BeginRollback, KeptInv, CopyInv, TrueInv
<1>3. p \in Plans /\ h \in Receipts /\ h \in CopiesOf(p) /\ l \in Inodes
  BY <1>1, <1>2, Types, Copies DEF BeginRollback
<1>4. h.applied_sha = p
  <2>1. h.state = "completed"
    BY <1>1 DEF TypeLockInv, ShapeAt, BeginRollback
  <2> QED BY <1>2, <1>3, <2>1 DEF GoodCopy
<1>5. UNCHANGED <<data, plan, uses>> /\ PlansStay /\ ExpectsKept
  BY PlansSame DEF BeginRollback
<1>6. CASE UNCHANGED <<disk, durable, task, lock>>
  <2>1. \A v \in Windows : task'[v] = task[v] /\ (lock' = v <=> lock = v)
    BY <1>6
  <2> QED BY <1>5, <1>6, <2>1, FilesSame
<1>7. ASSUME lock = None, InputsHold(h), NEW n \in FreeNames, NEW result \in Writes,
             LET b == [h EXCEPT !.state = "rollback_attempted", !.rollback = n,
                                !.rollback_identity = 0, !.replacement = l] IN
             /\ WriteReceipt(disk, durable, p, b, result)
             /\ IF result = "ok"
                THEN /\ task' = [task EXCEPT ![w] = [op |-> "rollback", at |-> "staging",
                                                     plan |-> p, receipt |-> b]]
                     /\ lock' = w
                ELSE task' = task /\ lock' = lock
      PROVE  TrueInv'
  <2> DEFINE b == [h EXCEPT !.state = "rollback_attempted", !.rollback = n,
                            !.rollback_identity = 0, !.replacement = l]
             t == [op |-> "rollback", at |-> "staging", plan |-> p, receipt |-> b]
  <2>1. n \in Names /\ n # 0
    BY DEF FreeNames, Live
  <2>2. /\ b \in Receipts /\ b.state = "rollback_attempted" /\ b.rollback # 0
        /\ b.replacement = l
    <3>1. [h EXCEPT !.state = "rollback_attempted"] \in Receipts
      BY <1>3, StateSet DEF States
    <3> QED BY <1>3, <2>1, <3>1 DEF Receipts
  <2>3. t.op = "rollback" /\ t.at = "staging" /\ t.plan = p /\ t.receipt = b
    OBVIOUS
  <2>4. /\ WriteReceipt(disk, durable, p, b, result)
        /\ \/ result = "ok" /\ task' = [task EXCEPT ![w] = t] /\ lock' = w
           \/ task' = task /\ lock' = lock
    BY <1>7
  <2> HIDE DEF b, t
  <2>5. LiveContent = p
    BY <1>4, <1>7 DEF InputsHold
  <2>6. disk.effect[p] = "restored"
    BY <1>2, <1>3, <2>5 DEF TowerInv, Tower
  <2>7. Judge(LiveFile(disk), disk.effect[p], b)
    BY <1>1, <2>2, <2>6, JudgeRolled
  <2>8. /\ JudgedPair(disk', durable') /\ TowerInv' /\ Written(p, b) /\ EffectsKept(p)
        /\ disk'.effect = disk.effect /\ LiveFile(disk') = LiveFile(disk)
        /\ result = "ok" => durable' = disk' /\ disk'.receipts[p] = b
    <3>1. Alike(disk, disk)
      BY AlikeItself
    <3> QED BY <1>2, <1>3, <1>5, <2>2, <2>4, <2>7, <3>1, CalmWrite
  <2>9. ASSUME NEW v \in Windows \ {w} PROVE RunAt(v)'
    <3>1. task'[v] = task[v] /\ RunAt(v) /\ (lock' = v <=> lock = v) /\ lock \notin Windows
      BY <1>2, <1>7, <2>4, NoneApart DEF RunInv
    <3>2. task[v].op = "restore" => task[v].plan # p
      BY <1>1 DEF KeptInv, AloneInv, AloneAt
    <3>3. task[v].op # "rollback"
      BY <3>1 DEF TypeLockInv, LockAt
    <3> QED BY <1>3, <1>5, <2>8, <3>1, <3>2, <3>3, OthersStart
  <2>10. RunAt(w)'
    <3>1. CASE result = "ok" /\ task' = [task EXCEPT ![w] = t]
      <4>1. task'[w] = t
        BY <1>2, <3>1
      <4>2. Both(p, b)' /\ disk'.effect[p] = "restored" /\ LiveFile(disk') = b.replacement
        BY <1>1, <2>2, <2>6, <2>8, <3>1 DEF Both
      <4>3. RollbackAt(w)'
        BY <2>2, <2>3, <4>1, <4>2 DEF RollbackAt
      <4> QED BY <2>3, <4>1, <4>3 DEF RunAt
    <3>2. CASE task' = task
      BY <1>2, <3>2, IdleFields DEF RunAt
    <3> QED BY <2>4, <3>1, <3>2
  <2> QED BY <2>8, <2>9, <2>10 DEF TrueInv, RunInv
<1>8. \/ UNCHANGED <<disk, durable, task, lock>>
      \/ /\ lock = None /\ InputsHold(h)
         /\ \E n \in FreeNames : \E result \in Writes :
              LET b == [h EXCEPT !.state = "rollback_attempted", !.rollback = n,
                                 !.rollback_identity = 0, !.replacement = l] IN
              /\ WriteReceipt(disk, durable, p, b, result)
              /\ IF result = "ok"
                 THEN /\ task' = [task EXCEPT ![w] = [op |-> "rollback", at |-> "staging",
                                                      plan |-> p, receipt |-> b]]
                      /\ lock' = w
                 ELSE task' = task /\ lock' = lock
  BY <1>1 DEF BeginRollback
<1> QED BY <1>6, <1>7, <1>8
-----------------------------------------------------------------------------
(* The library is used, the power fails *)

LEMMA UseTrue ==
  ASSUME TypeLockInv, KeptInv, TrueInv, Use
  PROVE  TrueInv'
<1>1. PICK c, l : c = uses + 1 /\ l = LiveFile(disk)
  OBVIOUS
<1>2. /\ TypeInv /\ TowerInv /\ data \in [Inodes -> Contents] /\ uses \in Nat
      /\ Sound(disk) /\ durable \in Disks /\ Sound(durable)
  BY RestoreAssumption DEF TypeLockInv, TypeInv, TrueInv, RestoreAssumption
<1>3. /\ lock = None /\ uses' = c /\ data' = [data EXCEPT ![l] = c]
      /\ UNCHANGED <<disk, durable, lock, plan, task>>
  BY <1>1 DEF Use
<1>4. c \in Nat /\ c \notin Plans /\ c > uses
  BY <1>1, <1>2, RestoreAssumption DEF RestoreAssumption
<1>5. \A p \in Plans : plan[p].expects # c
  BY <1>1, <1>2, <1>4 DEF TowerInv, Made
<1>6. l \in Inodes /\ LiveFile(durable) \in Inodes
  BY <1>1, <1>2, LiveIsAName DEF TypeInv, Sound, LiveFile, Disks
<1>7. /\ data'[l] = c
      /\ \A i \in Inodes : data'[i] \in {c, data[i]}
      /\ data'[LiveFile(durable)] \in {c, data[LiveFile(durable)]}
  BY <1>2, <1>3, <1>6
<1>8. /\ Tower(c, disk.effect, plan)
      /\ Tower(data'[LiveFile(durable)], durable.effect, plan)
  <2>1. /\ Tower(LiveContent, disk.effect, plan)
        /\ Tower(data[LiveFile(durable)], durable.effect, plan)
    BY <1>2 DEF TowerInv
  <2>2. Tower(c, disk.effect, plan) /\ Tower(c, durable.effect, plan)
    BY <1>4, <1>5, <2>1, TowerUsed
  <2> QED BY <1>7, <2>1, <2>2
<1>9. TowerInv'
  <2>1. LiveContent' = c
    BY <1>1, <1>3, <1>7 DEF LiveContent, LiveFile
  <2>2. \A i \in Inodes : Made(data[i])'
    BY <1>2, <1>3, <1>4, <1>7, <1>1 DEF TowerInv, Made
  <2>3. \A p \in Plans : Made(plan[p].expects)'
    BY <1>2, <1>3, <1>4, <1>1 DEF TowerInv, Made
  <2> QED BY <1>3, <1>8, <2>1, <2>2, <2>3 DEF TowerInv, LiveFile
<1>10. JudgedPair(disk', durable')
  BY <1>3 DEF TrueInv
<1>11. ASSUME NEW v \in Windows PROVE RunAt(v)'
  <2>1. PICK p : p = task[v].plan
    OBVIOUS
  <2>2. RunAt(v) /\ lock # v
    BY <1>3, NoneApart DEF TrueInv, RunInv
  <2>3. ExpectsKept
    BY <1>3, PlansSame
  <2> QED BY <1>3, <2>1, <2>2, <2>3, RunKept
<1> QED BY <1>9, <1>10, <1>11 DEF TrueInv, RunInv

LEMMA PowerLossTrue ==
  ASSUME TypeLockInv, KeptInv, TrueInv, PowerLoss
  PROVE  TrueInv'
<1>1. TypeInv /\ disk \in Disks /\ durable \in Disks /\ TowerInv /\ JudgedPair(disk, durable)
  BY DEF TypeLockInv, TypeInv, TrueInv
<1>2. /\ plan' = WithoutPlans(Windows) /\ UNCHANGED <<data, uses>> /\ durable' = disk'
      /\ \A v \in Windows : task'[v] = Idle
      /\ disk' \in {disk, durable, Torn(disk, durable)}
  BY DEF PowerLoss, Die, Torn
<1>3. \A q \in Plans : plan'[q].expects = plan[q].expects
  BY <1>1, <1>2, WithoutPlansOf
<1>4. Judged(disk') /\ disk' \in Disks
  BY <1>1, <1>2, TornOf DEF JudgedPair
<1>5. Judged(Torn(disk', disk'))
  BY <1>4, TornItself
<1>6. JudgedPair(disk', durable')
  BY <1>2, <1>4, <1>5 DEF JudgedPair
<1>7. \/ LiveFile(disk') = LiveFile(disk) /\ disk'.effect = disk.effect
      \/ LiveFile(disk') = LiveFile(durable) /\ disk'.effect = durable.effect
  BY <1>1, <1>2, TornOf DEF LiveFile
<1>8. TowerInv'
  <2>1. Tower(data[LiveFile(disk')], disk'.effect, plan)
    BY <1>1, <1>7 DEF TowerInv, LiveContent
  <2>2. Tower(data[LiveFile(disk')], disk'.effect, plan')
    BY <1>3, <2>1, TowerPlans
  <2>3. /\ \A i \in Inodes : Made(data[i])'
        /\ \A p \in Plans : Made(plan[p].expects)'
    BY <1>1, <1>2, <1>3 DEF TowerInv, Made
  <2> QED BY <1>2, <2>2, <2>3 DEF TowerInv, LiveContent, LiveFile
<1>9. RunInv'
  BY <1>2, IdleFields DEF RunInv, RunAt
<1> QED BY <1>6, <1>8, <1>9 DEF TrueInv

LEMMA TrueInit == Init => TrueInv
<1> SUFFICES ASSUME Init PROVE TrueInv
  OBVIOUS
<1>1. /\ durable = disk /\ disk.names[Live] = 1 /\ 1 \in Inodes /\ uses = 0
      /\ \A i \in Inodes : data[i] = 0
      /\ \A p \in Plans : disk.receipts[p] = NoReceipt /\ disk.effect[p] = "none"
      /\ \A p \in Plans : plan[p].expects = None
      /\ \A w \in Windows : task[w] = Idle
  <2>1. Live \in Names /\ 1 \in Inodes
    BY LiveIsAName, RestoreAssumption DEF RestoreAssumption, Inodes
  <2> QED BY <2>1 DEF Init
<1>2. \A live : Judge(live, "none", NoReceipt)
  BY DEF Judge, Open, NoReceipt, Terminal
<1>3. Judged(disk) /\ Judged(durable)
  BY <1>1, <1>2 DEF Judged
<1>4. Torn(disk, durable) = disk
  BY DEF Torn, Init
<1>5. JudgedPair(disk, durable)
  BY <1>3, <1>4 DEF JudgedPair
<1>6. 0 \notin Plans
  BY RestoreAssumption DEF RestoreAssumption
<1>7. TowerInv
  <2>1. LiveContent = 0 /\ data[LiveFile(durable)] = 0
    BY <1>1 DEF LiveContent, LiveFile
  <2>2. Tower(0, disk.effect, plan)
    BY <1>1, <1>6 DEF Tower
  <2>3. Made(0) /\ Made(None)
    BY <1>1, NoneApart DEF Made
  <2> QED BY <1>1, <2>1, <2>2, <2>3 DEF TowerInv
<1>8. RunInv
  BY <1>1, IdleFields DEF RunInv, RunAt
<1> QED BY <1>5, <1>7, <1>8 DEF TrueInv

LEMMA TrueNext ==
  ASSUME ConfirmedOnce, OneRestorer, TypeLockInv, KeptInv, TrueInv, [Next]_vars
  PROVE  TrueInv'
<1>1. CASE UNCHANGED vars
  <2>1. UNCHANGED <<disk, durable, data, uses, lock, plan, task>>
    BY <1>1 DEF vars
  <2>2. ExpectsKept
    BY <2>1, PlansSame
  <2>3. \A v \in Windows : task'[v] = task[v] /\ (lock' = v <=> lock = v)
    BY <2>1
  <2> QED BY <2>1, <2>2, <2>3, FilesSame
<1>2. ASSUME NEW w \in Windows, NEW p \in Plans,
             \/ Prepare(w, p) \/ Confirm(w, p) \/ ReviewRollback(w, p) \/ ReadInterrupted(w, p)
      PROVE  TrueInv'
  BY <1>2, PrepareTrue, ConfirmTrue, ReviewRollbackTrue, ReadInterruptedTrue
<1>3. ASSUME NEW w \in Windows, Restore(w)
      PROVE  TrueInv'
  BY <1>3, ExcludeTrue, RefuseTrue, ValidateTrue, BackUpTrue, StageTrue, ExchangeTrue,
     PublishAppliedTrue, SyncExchangeTrue, VerifyTrue, RemoveSupersededTrue, CompleteTrue,
     BeginRollBackTrue, ExchangeBackTrue, GiveUpTrue, CheckBackTrue DEF Restore
<1>4. ASSUME NEW w \in Windows, Rollback(w)
      PROVE  TrueInv'
  BY <1>4, BeginRollbackTrue, StageRollbackTrue, RefuseRollbackTrue, ExchangeRollbackTrue,
     CheckRollbackTrue DEF Rollback
<1>5. ASSUME NEW w \in Windows, Finalise(w) \/ Killed(w)
      PROVE  TrueInv'
  BY <1>5, FinaliseTrue, KilledTrue
<1>6. CASE Use \/ PowerLoss
  BY <1>6, UseTrue, PowerLossTrue
<1> QED BY <1>1, <1>2, <1>3, <1>4, <1>5, <1>6 DEF Next

LEMMA TrueAlways ==
  ASSUME ConfirmedOnce, OneRestorer
  PROVE  Spec => []TrueInv
<1>1. TypeLockInv /\ KeptInv /\ TrueInv /\ [Next]_vars => TrueInv'
  BY TrueNext
<1>2. Init => TrueInv
  BY TrueInit
<1>3. Spec => []KeptInv
  BY KeptAlways
<1> QED BY <1>1, <1>2, <1>3, TypeLockAlways, PTL DEF Spec

-----------------------------------------------------------------------------
(* What the receipts say.                                                  *)

\* A terminal receipt says what became of the live database (restore.rs:190),
\* in the directory as it is read and as it survives a power loss, if one
\* window restores and finalises, each plan once: whatever a step writes last
\* is judged by the files under the exclusion, and every earlier copy that may
\* come back after a power loss is judged true of the file it comes back with.
THEOREM ReceiptsAreTrueCorrect ==
  ASSUME ConfirmedOnce, OneRestorer
  PROVE  Spec => []ReceiptsAreTrue
<1>1. TrueInv => ReceiptsAreTrue
  BY DEF TrueInv, JudgedPair, Judged, Judge, ReceiptsAreTrue, TrueReceipt
<1>2. Spec => []TrueInv
  BY TrueAlways
<1> QED BY <1>1, <1>2, PTL

\* "An interruption at any point can be classified after restart from file
\* identity, even after the database has been used again" (restore.rs:35), if
\* one window restores and finalises, each plan once, and no other restore
\* overtook this one: the live file is the one that the last exchange of this
\* receipt's operation left, and the library writes it in place.
THEOREM ClassifiedTrulyCorrect ==
  ASSUME ConfirmedOnce, OneRestorer
  PROVE  Spec => []ClassifiedTruly
<1>1. TrueInv => ClassifiedTruly
  <2> SUFFICES ASSUME TrueInv, NEW p \in Plans, Interrupted(p), ~disk.since[p], ~disk.stale[p]
               PROVE  Assess(disk.receipts[p]) = Label(disk.effect[p])
    BY DEF ClassifiedTruly, Label
  <2>1. Judge(LiveFile(disk), disk.effect[p], disk.receipts[p])
    BY DEF TrueInv, JudgedPair, Judged
  <2>2. Open(disk.receipts[p])
    BY DEF Interrupted, Open
  <2> QED BY <2>1, <2>2 DEF Judge, AssessAs, Assess
<1>2. Spec => []TrueInv
  BY TrueAlways
<1> QED BY <1>1, <1>2, PTL
=============================================================================
