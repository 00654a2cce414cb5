----------------------- MODULE DatabaseRestore_proofs -----------------------
(***************************************************************************)
(* Proofs about DatabaseRestore, for any windows, plans and bounds.        *)
(***************************************************************************)
EXTENDS DatabaseRestoreInductive, TLAPS

-----------------------------------------------------------------------------
(* The directory *)

LEMMA LiveIsAName == Live \in Names /\ Names \subseteq Nat
BY RestoreAssumption DEF Live, Names, RestoreAssumption

LEMMA NoneApart == None \notin Windows /\ None \notin Plans /\ None \notin Nat
BY RestoreAssumption DEF RestoreAssumption

LEMMA SpendOK ==
  ASSUME TypeInv, NEW n \in Nat, Spend(n)
  PROVE  troubles' \in 0..MaxTroubles
BY RestoreAssumption DEF TypeInv, Spend, RestoreAssumption

LEMMA CostOK == \A result \in Writes : Cost(result) \in Nat
BY DEF Cost

\* A receipt and what its write makes of the two states of the directory.
LEMMA ReceiptWritten ==
  ASSUME NEW d \in Disks, Sound(d), NEW synced \in Disks, Sound(synced),
         NEW p \in Plans, NEW r \in Receipts, NEW result \in Writes,
         WriteReceipt(d, synced, p, r, result)
  PROVE  /\ disk' \in Disks /\ Sound(disk') /\ disk'.names = d.names
         /\ durable' \in Disks /\ Sound(durable')
         /\ durable'.names \in {d.names, synced.names}
<1>1. disk' \in Disks /\ disk'.names = d.names
  BY DEF WriteReceipt, Disks
<1>2. Sound(disk')
  BY <1>1 DEF Sound
<1> QED BY <1>1, <1>2 DEF WriteReceipt

LEMMA Removed ==
  ASSUME NEW d \in Disks, Sound(d), NEW n \in Names
  PROVE  /\ Without(d, n) \in Disks /\ Sound(Without(d, n))
         /\ Without(d, n).names[Live] = d.names[Live]
         /\ \A m \in Names : m # n => Without(d, n).names[m] = d.names[m]
         /\ Without(d, n).receipts = d.receipts /\ Without(d, n).effect = d.effect
         /\ Without(d, n).since = d.since /\ Without(d, n).stale = d.stale
<1>1. CASE n = 0
  BY <1>1 DEF Without, Live
<1>2. CASE n # 0
  <2> DEFINE e == Without(d, n)
  <2>1. e = [d EXCEPT !.names = [d.names EXCEPT ![n] = 0]]
    BY <1>2 DEF Without
  <2>2. /\ e \in Disks /\ e.names = [d.names EXCEPT ![n] = 0]
        /\ e.receipts = d.receipts /\ e.effect = d.effect
        /\ e.since = d.since /\ e.stale = d.stale
    BY <2>1 DEF Disks
  <2>3. /\ e.names[Live] = d.names[Live]
        /\ \A m \in Names : m # n => e.names[m] = d.names[m]
        /\ e.names[n] = 0
    BY <2>2, <1>2, LiveIsAName DEF Disks, Live
  <2>4. Sound(e)
    BY <2>3 DEF Sound
  <2> QED BY <2>2, <2>3, <2>4
<1> QED BY <1>1, <1>2

LEMMA Created ==
  ASSUME NEW d \in Disks, Sound(d), NEW n \in Names, NEW i \in Inodes,
         \A m \in Names : d.names[m] # i
  PROVE  /\ [d EXCEPT !.names[n] = i] \in Disks /\ Sound([d EXCEPT !.names[n] = i])
         /\ [d EXCEPT !.names[n] = i].names = [d.names EXCEPT ![n] = i]
<1> DEFINE e == [d EXCEPT !.names[n] = i]
<1>1. e \in Disks /\ e.names = [d.names EXCEPT ![n] = i]
  BY DEF Disks
<1>2. e.names[n] = i /\ \A m \in Names : m # n => e.names[m] = d.names[m]
  BY <1>1 DEF Disks
<1>3. i # 0
  BY DEF Inodes
<1>4. Sound(e)
  BY <1>2, <1>3, LiveIsAName DEF Sound
<1> QED BY <1>1, <1>4

LEMMA Swapped ==
  ASSUME disk \in Disks, Sound(disk), NEW p \in Plans, NEW n \in Names,
         disk.names[n] # 0, NEW effect \in Effects
  PROVE  /\ Exchanged(p, n, effect) \in Disks /\ Sound(Exchanged(p, n, effect))
         /\ Exchanged(p, n, effect).names[Live] = disk.names[n]
         /\ Exchanged(p, n, effect).names[n] = disk.names[Live]
         /\ \A m \in Names \ {Live, n} : Exchanged(p, n, effect).names[m] = disk.names[m]
         /\ Exchanged(p, n, effect).receipts = disk.receipts
         /\ Exchanged(p, n, effect).stale = disk.stale
         /\ Exchanged(p, n, effect).effect = [disk.effect EXCEPT ![p] = effect]
         /\ Exchanged(p, n, effect).since =
              [q \in Plans |-> disk.since[q] \/
                 (q # p /\ disk.receipts[q].state \notin Terminal \cup {"none"})]
<1> DEFINE e == Exchanged(p, n, effect)
           names == [disk.names EXCEPT ![Live] = disk.names[n], ![n] = disk.names[Live]]
           since == [q \in Plans |-> disk.since[q] \/
                      (q # p /\ disk.receipts[q].state \notin Terminal \cup {"none"})]
<1>0. names \in [Names -> Inodes \cup {0}] /\ since \in [Plans -> BOOLEAN]
  <2>1. disk.names \in [Names -> Inodes \cup {0}] /\ disk.since \in [Plans -> BOOLEAN]
    BY DEF Disks
  <2> QED BY <2>1, LiveIsAName
<1>1. /\ e \in Disks /\ e.receipts = disk.receipts /\ e.stale = disk.stale
      /\ e.effect = [disk.effect EXCEPT ![p] = effect]
      /\ e.since = since /\ e.names = names
  <2>1. e = [disk EXCEPT !.names = names, !.effect[p] = effect, !.since = since]
    BY DEF Exchanged
  <2> HIDE DEF names, since, e
  <2> QED BY <1>0, <2>1 DEF Disks
<1>2. /\ e.names[Live] = disk.names[n] /\ e.names[n] = disk.names[Live]
      /\ \A m \in Names \ {Live, n} : e.names[m] = disk.names[m]
  BY <1>1, LiveIsAName DEF Disks
<1>3. Sound(e)
  BY <1>2, LiveIsAName DEF Sound
<1> QED BY <1>1, <1>2, <1>3

-----------------------------------------------------------------------------
(* The types, and who changes the directory *)

LEMMA FreshInode ==
  ASSUME TypeInv, NEW i \in Inodes, NewInode(i)
  PROVE  \A m \in Names : disk.names[m] # i /\ durable.names[m] # i
BY DEF NewInode

\* Writing a receipt's state keeps its type.
LEMMA StateSet ==
  ASSUME NEW r \in Receipts, NEW s \in States, NEW i \in {"unknown", "yes", "no"}
  PROVE  /\ [r EXCEPT !.state = s] \in Receipts
         /\ [r EXCEPT !.state = s, !.intact = i] \in Receipts
         /\ [r EXCEPT !.state = s, !.intact = i].original = r.original
         /\ [r EXCEPT !.state = s].original = r.original
BY DEF Receipts

LEMMA UnrolledOK ==
  ASSUME NEW r \in Receipts
  PROVE  Unrolled(r) \in Receipts
BY LiveIsAName DEF Receipts, States, Unrolled, Live

LEMMA OriginalSet ==
  ASSUME NEW r \in Receipts, NEW i \in Inodes
  PROVE  [r EXCEPT !.original = i] \in Receipts /\ [r EXCEPT !.original = i].original = i
BY DEF Receipts

LEMMA IdentitySet ==
  ASSUME NEW r \in Receipts, NEW i \in Inodes
  PROVE  /\ [r EXCEPT !.rollback_identity = i] \in Receipts
         /\ [r EXCEPT !.rollback_identity = i].rollback = r.rollback
BY DEF Receipts

LEMMA NoReceiptOK == NoReceipt \in Receipts /\ Idle \in Tasks /\ NoReview \in Reviews
<1>1. NoReceipt \in Receipts
  BY LiveIsAName, NoneApart DEF NoReceipt, Receipts, States, Live
<1> QED BY <1>1 DEF Idle, Tasks, Steps, NoReview, Reviews

LEMMA IdleFields ==
  /\ Idle.op = "idle" /\ Idle.plan = None /\ Idle.receipt = NoReceipt /\ Idle.at = ""
  /\ NoReview.plan = None /\ NoReview.receipt = NoReceipt
BY DEF Idle, NoReview

LEMMA Types ==
  ASSUME TypeInv, NEW w \in Windows
  PROVE  /\ task[w] \in Tasks /\ held[w] \in Reviews
         /\ task[w].receipt \in Receipts /\ held[w].receipt \in Receipts
         /\ task[w].plan \in Plans \cup {None} /\ held[w].plan \in Plans \cup {None}
         /\ \A p \in Plans : disk.receipts[p] \in Receipts /\ durable.receipts[p] \in Receipts
         /\ disk.names \in [Names -> Inodes \cup {0}]
         /\ durable.names \in [Names -> Inodes \cup {0}]
         /\ LiveFile(disk) \in Inodes /\ LiveFile(durable) \in Inodes
         /\ LiveContent \in Contents
<1>1. disk.names \in [Names -> Inodes \cup {0}] /\ durable.names \in [Names -> Inodes \cup {0}]
  BY DEF TypeInv, Disks
<1>2. LiveFile(disk) \in Inodes /\ LiveFile(durable) \in Inodes
  BY <1>1, LiveIsAName DEF TypeInv, LiveFile, Sound
<1>3. LiveContent \in Contents
  BY <1>2 DEF TypeInv, LiveContent
<1>4. task[w] \in Tasks /\ held[w] \in Reviews
  BY DEF TypeInv
<1>5. \A p \in Plans : disk.receipts[p] \in Receipts /\ durable.receipts[p] \in Receipts
  BY DEF TypeInv, Disks
<1> QED BY <1>1, <1>2, <1>3, <1>4, <1>5 DEF Tasks, Reviews

\* A worker at a step works on a plan.
LEMMA Busy ==
  ASSUME TypeInv, NEW w \in Windows, ShapeAt(w), task[w].op # "idle"
  PROVE  task[w].plan \in Plans
BY Types DEF ShapeAt

LEMMA Moved ==
  ASSUME TypeInv, NEW w \in Windows, NEW at \in Steps, NEW r \in Receipts, Go(w, at, r)
  PROVE  /\ task' \in [Windows -> Tasks]
         /\ task'[w].op = task[w].op /\ task'[w].plan = task[w].plan
         /\ task'[w].at = at /\ task'[w].receipt = r
         /\ \A v \in Windows \ {w} : task'[v] = task[v]
<1> DEFINE t == [task[w] EXCEPT !.at = at, !.receipt = r]
<1>1. task' = [task EXCEPT ![w] = t]
  BY DEF Go
<1>2. task \in [Windows -> Tasks]
  BY DEF TypeInv
<1>3. t \in Tasks /\ t.op = task[w].op /\ t.plan = task[w].plan /\ t.at = at /\ t.receipt = r
  BY <1>2 DEF Tasks
<1> HIDE DEF t
<1> QED BY <1>1, <1>2, <1>3

LEMMA Returned ==
  ASSUME TypeInv, NEW w \in Windows, Return(w)
  PROVE  /\ task' \in [Windows -> Tasks] /\ task'[w] = Idle
         /\ \A v \in Windows \ {w} : task'[v] = task[v]
         /\ lock' \in Windows \cup {None} /\ lock' # w
         /\ lock' = lock \/ (lock = w /\ lock' = None)
BY NoReceiptOK, NoneApart DEF TypeInv, Return

\* What another window does leaves a worker's files alone.
LEMMA OtherWindow ==
  ASSUME TypeInv, NEW w \in Windows, NEW v \in Windows \ {w}, LockAt(v),
         task'[v] = task[v],
         lock' = lock \/ (lock = w /\ lock' = None) \/ (lock = None /\ lock' = w),
         lock = w \/ disk'.names = disk.names
  PROVE  LockAt(v)'
<1>1. task[v].op = "restore" /\ task[v].at = "exchanging" => lock = v
  BY DEF LockAt, Unlocked
<1>2. task[v].op = "rollback" => lock = v
  BY DEF LockAt
<1>3. lock = v => lock' = lock /\ disk'.names = disk.names
  BY NoneApart
<1>4. disk'.names = disk.names => \A n : File(disk', n) = File(disk, n)
  BY DEF File
<1>5. lock' = v => lock = v
  BY NoneApart
<1> QED BY <1>1, <1>2, <1>3, <1>4, <1>5 DEF LockAt

LEMMA SameLock ==
  ASSUME NEW v \in Windows, LockAt(v), task'[v] = task[v], lock' = lock,
         disk'.names = disk.names
  PROVE  LockAt(v)'
BY DEF LockAt, File

LEMMA OtherShape ==
  ASSUME NEW v \in Windows, ShapeAt(v), task'[v] = task[v], held'[v] = held[v]
  PROVE  ShapeAt(v)'
BY DEF ShapeAt

\* A worker takes a step: what remains to show is its own part.
LEMMA StepTaken ==
  ASSUME TypeLockInv, NEW w \in Windows, task[w].op # "idle",
         NEW at \in Steps, NEW r \in Receipts, Go(w, at, r),
         disk' \in Disks, durable' \in Disks, Sound(disk'), Sound(durable'),
         data' \in [Inodes -> Contents], lock' \in Windows \cup {None},
         UNCHANGED <<confirms, uses, plan, held>>,
         displaced' \subseteq Contents, troubles' \in 0..MaxTroubles,
         lock' = lock \/ (lock = w /\ lock' = None) \/ (lock = None /\ lock' = w),
         lock = w \/ disk'.names = disk.names,
         LockAt(w)'
  PROVE  TypeLockInv'
<1>1. TypeInv /\ \A v \in Windows : ShapeAt(v) /\ LockAt(v)
  BY DEF TypeLockInv
<1>2. /\ task' \in [Windows -> Tasks]
      /\ task'[w].op = task[w].op /\ task'[w].plan = task[w].plan
      /\ \A v \in Windows \ {w} : task'[v] = task[v]
  BY <1>1, Moved
<1>3. TypeInv'
  BY <1>1, <1>2 DEF TypeInv
<1>4. ASSUME NEW v \in Windows PROVE ShapeAt(v)' /\ LockAt(v)'
  <2>1. CASE v = w
    BY <1>1, <1>2, <2>1 DEF ShapeAt
  <2>2. CASE v # w
    BY <1>1, <1>2, <2>2, OtherWindow, OtherShape
  <2> QED BY <2>1, <2>2
<1> QED BY <1>3, <1>4 DEF TypeLockInv

\* A worker's call returns.
LEMMA StepReturned ==
  ASSUME TypeLockInv, NEW w \in Windows, Return(w),
         disk' \in Disks, durable' \in Disks, Sound(disk'), Sound(durable'),
         data' = data,
         plan' \in [Plans -> [by : Windows \cup {None}, expects : Contents \cup {None}]],
         UNCHANGED <<confirms, uses, displaced>>,
         held' = held \/ held' = [held EXCEPT ![w] = NoReview],
         troubles' \in 0..MaxTroubles,
         lock = w \/ disk'.names = disk.names
  PROVE  TypeLockInv'
<1>1. TypeInv /\ \A v \in Windows : ShapeAt(v) /\ LockAt(v)
  BY DEF TypeLockInv
<1>2. /\ task' \in [Windows -> Tasks] /\ task'[w] = Idle
      /\ \A v \in Windows \ {w} : task'[v] = task[v]
      /\ lock' \in Windows \cup {None} /\ lock' # w
      /\ lock' = lock \/ (lock = w /\ lock' = None)
  BY <1>1, Returned
<1>3. /\ held' \in [Windows -> Reviews]
      /\ held'[w] = held[w] \/ held'[w] = NoReview
      /\ \A v \in Windows \ {w} : held'[v] = held[v]
  BY <1>1, NoReceiptOK DEF TypeInv
<1>4. TypeInv'
  BY <1>1, <1>2, <1>3 DEF TypeInv
<1>5. ASSUME NEW v \in Windows PROVE ShapeAt(v)' /\ LockAt(v)'
  <2>1. CASE v = w
    <3>1. task'[w].op = "idle" /\ task'[w].plan = None /\ task'[w].receipt = NoReceipt
      BY <1>2, IdleFields
    <3>2. LockAt(w)'
      BY <1>2, <3>1 DEF LockAt
    <3>3. ShapeAt(w)'
      BY <1>1, <1>3, <3>1, IdleFields DEF ShapeAt
    <3> QED BY <2>1, <3>2, <3>3
  <2>2. CASE v # w
    BY <1>1, <1>2, <1>3, <2>2, OtherWindow, OtherShape
  <2> QED BY <2>1, <2>2
<1> QED BY <1>4, <1>5 DEF TypeLockInv

LEMMA AtRestore ==
  ASSUME TypeLockInv, NEW w \in Windows, NEW at, At(w, "restore", at)
  PROVE  /\ TypeInv /\ task[w].op = "restore" /\ task[w].at = at
         /\ task[w].plan \in Plans /\ task[w].receipt \in Receipts
         /\ at \notin Unlocked => lock = w
         /\ lock = w => task[w].receipt.original # 0
         /\ disk \in Disks /\ durable \in Disks /\ Sound(disk) /\ Sound(durable)
         /\ data \in [Inodes -> Contents] /\ lock \in Windows \cup {None}
         /\ displaced \subseteq Contents /\ troubles \in 0..MaxTroubles
BY Busy, Types DEF TypeLockInv, At, LockAt, TypeInv

LEMMA AtLocked ==
  ASSUME TypeLockInv, NEW w \in Windows, NEW at, At(w, "restore", at), at \notin Unlocked
  PROVE  /\ TypeInv /\ task[w].op = "restore" /\ task[w].at = at
         /\ task[w].plan \in Plans /\ task[w].receipt \in Receipts
         /\ lock = w /\ task[w].receipt.original # 0
         /\ disk \in Disks /\ durable \in Disks /\ Sound(disk) /\ Sound(durable)
         /\ data \in [Inodes -> Contents] /\ displaced \subseteq Contents
         /\ troubles \in 0..MaxTroubles
BY AtRestore

LEMMA AtRollback ==
  ASSUME TypeLockInv, NEW w \in Windows, NEW at, At(w, "rollback", at)
  PROVE  /\ TypeInv /\ task[w].op = "rollback" /\ task[w].at = at
         /\ task[w].plan \in Plans /\ task[w].receipt \in Receipts
         /\ lock = w
         /\ disk \in Disks /\ durable \in Disks /\ Sound(disk) /\ Sound(durable)
         /\ data \in [Inodes -> Contents] /\ lock \in Windows \cup {None}
         /\ displaced \subseteq Contents /\ troubles \in 0..MaxTroubles
BY Busy, Types DEF TypeLockInv, At, LockAt, TypeInv

\* A step after which nothing is promised of the files.
LEMMA PlainAt ==
  ASSUME NEW w \in Windows, task'[w].op = "restore",
         task'[w].at \in RestoreSteps \ {"exchanging"},
         task'[w].at \in Unlocked \/ lock' = w,
         lock' = w => task'[w].receipt.original # 0,
         task'[w].at \in {"backing up", "staging"} =>
           task'[w].receipt.emergency # 0 /\ task'[w].receipt.staged # 0
  PROVE  LockAt(w)'
BY DEF LockAt

\* A step of a restore under the exclusion, to one that needs no file.
LEMMA RestoreGoes ==
  ASSUME TypeLockInv, NEW w \in Windows, task[w].op = "restore", lock = w, lock' = w,
         NEW at \in RestoreSteps \ {"exchanging"}, NEW r \in Receipts, Go(w, at, r),
         r.original # 0,
         at \in {"backing up", "staging"} => r.emergency # 0 /\ r.staged # 0,
         disk' \in Disks, durable' \in Disks, Sound(disk'), Sound(durable'),
         data' \in [Inodes -> Contents],
         UNCHANGED <<confirms, uses, plan, held>>,
         displaced' \subseteq Contents, troubles' \in 0..MaxTroubles
  PROVE  TypeLockInv'
<1>1. TypeInv /\ at \in Steps
  BY DEF TypeLockInv, RestoreSteps, Steps
<1>2. task'[w].op = "restore" /\ task'[w].at = at /\ task'[w].receipt = r
  BY <1>1, Moved
<1>3. LockAt(w)'
  BY <1>2, PlainAt
<1> QED BY <1>1, <1>3, StepTaken

LEMMA ExcludeTypes ==
  ASSUME TypeLockInv, NEW w \in Windows, Exclude(w)
  PROVE  TypeLockInv'
<1> USE DEF Same
<1>1. /\ TypeInv /\ task[w].op = "restore" /\ task[w].at = "excluding"
      /\ task[w].receipt \in Receipts
  BY AtRestore DEF Exclude
<1> DEFINE r == [task[w].receipt EXCEPT !.original = LiveFile(disk)]
<1>2. r \in Receipts /\ r.original # 0
  <2>1. LiveFile(disk) \in Inodes /\ LiveFile(disk) # 0
    BY <1>1, Types DEF Inodes
  <2> QED BY <1>1, <2>1, OriginalSet
<1>3. /\ disk' \in Disks /\ durable' \in Disks /\ Sound(disk') /\ Sound(durable')
      /\ data' \in [Inodes -> Contents] /\ displaced' \subseteq Contents
      /\ troubles' \in 0..MaxTroubles
  BY <1>1 DEF TypeInv, Exclude
<1>4. CASE lock = None /\ lock' = w /\ Go(w, "validating", r)
  <2> HIDE DEF r
  <2>1. task'[w].op = "restore" /\ task'[w].at = "validating" /\ task'[w].receipt = r
    <3>1. "validating" \in Steps
      BY DEF Steps
    <3> QED BY <1>1, <1>2, <1>4, <3>1, Moved
  <2>2. LockAt(w)'
    BY <1>2, <1>4, <2>1, PlainAt DEF RestoreSteps
  <2> QED BY <1>1, <1>2, <1>3, <1>4, <2>2, StepTaken DEF Exclude, Steps
<1>5. CASE Go(w, "refusing", task[w].receipt) /\ UNCHANGED lock
  <2>1. /\ task'[w].op = "restore" /\ task'[w].at = "refusing"
        /\ task'[w].receipt = task[w].receipt
    <3>1. "refusing" \in Steps
      BY DEF Steps
    <3> QED BY <1>1, <1>5, <3>1, Moved
  <2>2. LockAt(w)'
    BY AtRestore, <1>1, <1>5, <2>1, PlainAt DEF RestoreSteps, Unlocked, Exclude
  <2>3. lock' \in Windows \cup {None}
    BY <1>1, <1>5 DEF TypeInv
  <2> QED BY <1>1, <1>3, <1>5, <2>2, <2>3, StepTaken DEF Exclude, Steps
<1> QED BY <1>4, <1>5 DEF Exclude

LEMMA RefuseTypes ==
  ASSUME TypeLockInv, NEW w \in Windows, Refuse(w)
  PROVE  TypeLockInv'
<1> USE DEF Same
<1>1. /\ TypeInv /\ task[w].plan \in Plans /\ task[w].receipt \in Receipts
      /\ disk \in Disks /\ durable \in Disks /\ Sound(disk) /\ Sound(durable)
  BY AtRestore DEF Refuse
<1> DEFINE r == [task[w].receipt EXCEPT !.state = "failed", !.intact = "yes"]
<1>2. PICK result \in Writes :
        Spend(Cost(result)) /\ WriteReceipt(disk, durable, task[w].plan, r, result)
  BY DEF Refuse
<1>3. r \in Receipts
  BY <1>1, StateSet DEF States
<1>4. /\ disk' \in Disks /\ durable' \in Disks /\ Sound(disk') /\ Sound(durable')
      /\ disk'.names = disk.names
  BY <1>1, <1>2, <1>3, ReceiptWritten
<1>5. troubles' \in 0..MaxTroubles
  BY <1>1, <1>2, SpendOK, CostOK
<1> QED BY <1>1, <1>4, <1>5, StepReturned DEF Refuse, TypeInv

LEMMA ValidateTypes ==
  ASSUME TypeLockInv, NEW w \in Windows, Validate(w)
  PROVE  TypeLockInv'
<1> USE DEF Same
<1> DEFINE t == task[w].receipt
<1>0. At(w, "restore", "validating") /\ "validating" \notin Unlocked
  BY DEF Validate, Unlocked
<1>1. /\ TypeInv /\ task[w].op = "restore" /\ task[w].plan \in Plans /\ t \in Receipts
      /\ lock = w /\ t.original # 0
      /\ disk \in Disks /\ durable \in Disks /\ Sound(disk) /\ Sound(durable)
      /\ data \in [Inodes -> Contents] /\ displaced \subseteq Contents
      /\ troubles \in 0..MaxTroubles
  BY <1>0, AtLocked
<1>2. /\ UNCHANGED <<data, lock, confirms, uses, displaced, plan, held>>
  BY DEF Validate
<1>3. CASE ~Fresh(w) /\ Go(w, "refusing", t) /\ UNCHANGED <<disk, durable, troubles>>
  BY <1>1, <1>2, <1>3, RestoreGoes DEF RestoreSteps
<1>4. CASE Spend(1) /\ Go(w, "refusing", t) /\ UNCHANGED <<disk, durable>>
  BY <1>1, <1>2, <1>4, RestoreGoes, SpendOK DEF RestoreSteps
<1>5. CASE \E e, s \in FreeNames : \E result \in Writes :
             LET r == [t EXCEPT !.emergency = e, !.staged = s] IN
             /\ Spend(Cost(result))
             /\ WriteReceipt(disk, durable, task[w].plan, r, result)
             /\ Go(w, IF result = "ok" THEN "backing up" ELSE "refusing", r)
  <2>1. PICK e \in FreeNames, s \in FreeNames, result \in Writes :
             LET r == [t EXCEPT !.emergency = e, !.staged = s] IN
             /\ Spend(Cost(result))
             /\ WriteReceipt(disk, durable, task[w].plan, r, result)
             /\ Go(w, IF result = "ok" THEN "backing up" ELSE "refusing", r)
    BY <1>5
  <2> DEFINE r == [t EXCEPT !.emergency = e, !.staged = s]
             at == IF result = "ok" THEN "backing up" ELSE "refusing"
  <2>2. r \in Receipts /\ r.original # 0 /\ r.emergency # 0 /\ r.staged # 0
    BY <1>1 DEF Receipts, FreeNames, Live
  <2>3. at \in RestoreSteps \ {"exchanging"}
    BY DEF RestoreSteps
  <2>4. /\ Spend(Cost(result)) /\ WriteReceipt(disk, durable, task[w].plan, r, result)
        /\ Go(w, at, r)
    BY <2>1
  <2> HIDE DEF r, at
  <2>5. disk' \in Disks /\ durable' \in Disks /\ Sound(disk') /\ Sound(durable')
    BY <1>1, <2>2, <2>4, ReceiptWritten
  <2>6. troubles' \in 0..MaxTroubles
    BY <1>1, <2>4, SpendOK, CostOK
  <2> QED BY <1>1, <1>2, <2>2, <2>3, <2>4, <2>5, <2>6, RestoreGoes
<1> QED BY <1>3, <1>4, <1>5 DEF Validate
\* A copy that is made stands under its name when the next step begins.
LEMMA CopyTypes ==
  ASSUME TypeLockInv, NEW w \in Windows, task[w].plan \in Plans,
         NEW name \in Names, NEW content \in Contents,
         NEW receipt \in [Inodes -> Receipts], NEW next, NEW without \in Receipts,
         CopyRecorded(w, name, content, receipt, next, without)
  PROVE  /\ disk' \in Disks /\ durable' \in Disks /\ Sound(disk') /\ Sound(durable')
         /\ data' \in [Inodes -> Contents] /\ troubles' \in 0..MaxTroubles
         /\ \/ \E i \in Inodes : Go(w, next, receipt[i]) /\ disk'.names[name] # 0
            \/ Go(w, "refusing", without)
<1>1. /\ TypeInv /\ disk \in Disks /\ durable \in Disks /\ Sound(disk) /\ Sound(durable)
      /\ data \in [Inodes -> Contents]
  BY DEF TypeLockInv, TypeInv
<1>2. CASE Spend(1) /\ Go(w, "refusing", without) /\ UNCHANGED <<disk, durable, data>>
  BY <1>1, <1>2, SpendOK
<1>3. CASE \E i \in Inodes : NewInode(i) /\ \E result \in Writes :
       /\ data' = [data EXCEPT ![i] = content]
       /\ Spend(Cost(result))
       /\ LET d == [disk EXCEPT !.names[name] = i] IN
          IF result = "ok"
          THEN /\ WriteReceipt(d, durable, task[w].plan, receipt[i], result)
               /\ Go(w, next, receipt[i])
          ELSE /\ WriteReceipt(disk, durable, task[w].plan, receipt[i], result)
               /\ Go(w, "refusing", without)
  <2>1. PICK i \in Inodes, result \in Writes :
       /\ NewInode(i)
       /\ data' = [data EXCEPT ![i] = content]
       /\ Spend(Cost(result))
       /\ LET d == [disk EXCEPT !.names[name] = i] IN
          IF result = "ok"
          THEN /\ WriteReceipt(d, durable, task[w].plan, receipt[i], result)
               /\ Go(w, next, receipt[i])
          ELSE /\ WriteReceipt(disk, durable, task[w].plan, receipt[i], result)
               /\ Go(w, "refusing", without)
    BY <1>3
  <2> DEFINE d == [disk EXCEPT !.names[name] = i]
  <2>2. data' \in [Inodes -> Contents] /\ receipt[i] \in Receipts
    BY <1>1, <2>1
  <2>3. troubles' \in 0..MaxTroubles
    BY <1>1, <2>1, SpendOK, CostOK
  <2>4. d \in Disks /\ Sound(d) /\ d.names = [disk.names EXCEPT ![name] = i]
    <3>1. \A m \in Names : disk.names[m] # i
      BY <1>1, <2>1, FreshInode
    <3>2. i \in Inodes
      BY <2>1
    <3> QED BY <1>1, <3>1, <3>2, Created
  <2>5. d.names[name] = i /\ i # 0
    BY <1>1, <2>4 DEF Disks, Inodes
  <2>6. CASE result = "ok"
    <3>1. WriteReceipt(d, durable, task[w].plan, receipt[i], result) /\ Go(w, next, receipt[i])
      BY <2>1, <2>6
    <3> HIDE DEF d
    <3>2. /\ disk' \in Disks /\ durable' \in Disks /\ Sound(disk') /\ Sound(durable')
          /\ disk'.names = d.names
      BY <1>1, <2>2, <2>4, <3>1, ReceiptWritten
    <3> QED BY <2>2, <2>3, <2>5, <3>1, <3>2
  <2>7. CASE result # "ok"
    <3>1. /\ WriteReceipt(disk, durable, task[w].plan, receipt[i], result)
          /\ Go(w, "refusing", without)
      BY <2>1, <2>7
    <3>2. disk' \in Disks /\ durable' \in Disks /\ Sound(disk') /\ Sound(durable')
      BY <1>1, <2>2, <3>1, ReceiptWritten
    <3> QED BY <2>2, <2>3, <3>1, <3>2
  <2> QED BY <2>6, <2>7
<1> QED BY <1>2, <1>3 DEF CopyRecorded

LEMMA BackUpTypes ==
  ASSUME TypeLockInv, NEW w \in Windows, BackUp(w)
  PROVE  TypeLockInv'
<1> USE DEF Same
<1> DEFINE r == task[w].receipt
           made == [i \in Inodes |-> [r EXCEPT !.emergency_sha = LiveContent,
                                               !.state = "emergency_created"]]
           without == [r EXCEPT !.emergency = 0]
<1>0. At(w, "restore", "backing up") /\ "backing up" \notin Unlocked
  BY DEF BackUp, Unlocked
<1>1. /\ TypeInv /\ task[w].op = "restore" /\ task[w].plan \in Plans /\ r \in Receipts
      /\ lock = w /\ r.original # 0 /\ displaced \subseteq Contents
  BY <1>0, AtLocked
<1>2. LiveContent \in Contents
  BY <1>1, Types
<1>9. r.emergency # 0 /\ r.staged # 0
  BY <1>0 DEF At, LockAt, TypeLockInv
<1>3. /\ made \in [Inodes -> Receipts]
      /\ \A i \in Inodes : made[i].original # 0 /\ made[i].emergency # 0 /\ made[i].staged # 0
      /\ without \in Receipts /\ without.original # 0
  BY <1>1, <1>2, <1>9, LiveIsAName DEF Receipts, States, Live
<1>4. /\ CopyRecorded(w, r.emergency, LiveContent, made, "staging", without)
      /\ UNCHANGED <<lock, confirms, uses, displaced, plan, held>>
  BY DEF BackUp
<1>5. r.emergency \in Names
  BY <1>1 DEF Receipts
<1> HIDE DEF made, without
<1>6. /\ disk' \in Disks /\ durable' \in Disks /\ Sound(disk') /\ Sound(durable')
      /\ data' \in [Inodes -> Contents] /\ troubles' \in 0..MaxTroubles
      /\ \/ \E i \in Inodes : Go(w, "staging", made[i])
         \/ Go(w, "refusing", without)
  BY <1>1, <1>2, <1>3, <1>4, <1>5, CopyTypes
<1>7. "staging" \in RestoreSteps \ {"exchanging"} /\ "refusing" \in RestoreSteps \ {"exchanging"}
  BY DEF RestoreSteps
<1>8. CASE Go(w, "refusing", without)
  BY <1>1, <1>3, <1>4, <1>6, <1>7, <1>8, RestoreGoes
<1>10. CASE \E i \in Inodes : Go(w, "staging", made[i])
  <2>1. PICK i \in Inodes : Go(w, "staging", made[i])
    BY <1>10
  <2>2. /\ made[i] \in Receipts /\ made[i].original # 0
        /\ made[i].emergency # 0 /\ made[i].staged # 0
    BY <1>3
  <2> QED BY <1>1, <1>4, <1>6, <1>7, <2>1, <2>2, RestoreGoes
<1> QED BY <1>6, <1>8, <1>10

LEMMA StageTypes ==
  ASSUME TypeLockInv, NEW w \in Windows, Stage(w)
  PROVE  TypeLockInv'
<1> USE DEF Same
<1> DEFINE r == task[w].receipt
           made == [i \in Inodes |-> [r EXCEPT !.staged_sha = task[w].plan,
                                               !.replacement = i, !.state = "staged"]]
           without == Unstaged(r)
<1>0. At(w, "restore", "staging") /\ "staging" \notin Unlocked
  BY DEF Stage, Unlocked
<1>1. /\ TypeInv /\ task[w].op = "restore" /\ task[w].plan \in Plans /\ r \in Receipts
      /\ lock = w /\ r.original # 0 /\ displaced \subseteq Contents
  BY <1>0, AtLocked
<1>2. task[w].plan \in Contents
  BY <1>1 DEF Contents
<1>9. r.staged # 0
  BY <1>0 DEF At, LockAt, TypeLockInv
<1>3. /\ made \in [Inodes -> Receipts]
      /\ \A i \in Inodes : made[i].original # 0 /\ made[i].staged = r.staged
      /\ without \in Receipts /\ without.original # 0
  BY <1>1, <1>2, LiveIsAName DEF Receipts, States, Live, Unstaged
<1>4. /\ CopyRecorded(w, r.staged, task[w].plan, made, "exchanging", without)
      /\ UNCHANGED <<lock, confirms, uses, displaced, plan, held>>
  BY DEF Stage
<1>5. r.staged \in Names
  BY <1>1 DEF Receipts
<1> HIDE DEF made, without
<1>6. /\ disk' \in Disks /\ durable' \in Disks /\ Sound(disk') /\ Sound(durable')
      /\ data' \in [Inodes -> Contents] /\ troubles' \in 0..MaxTroubles
      /\ \/ \E i \in Inodes : Go(w, "exchanging", made[i]) /\ disk'.names[r.staged] # 0
         \/ Go(w, "refusing", without)
  BY <1>1, <1>2, <1>3, <1>4, <1>5, CopyTypes
<1>7. CASE Go(w, "refusing", without)
  BY <1>1, <1>3, <1>4, <1>6, <1>7, RestoreGoes DEF RestoreSteps
<1>8. CASE \E i \in Inodes : Go(w, "exchanging", made[i]) /\ disk'.names[r.staged] # 0
  <2>1. PICK i \in Inodes : Go(w, "exchanging", made[i]) /\ disk'.names[r.staged] # 0
    BY <1>8
  <2>2. "exchanging" \in Steps /\ "exchanging" \in RestoreSteps
    BY DEF Steps, RestoreSteps
  <2>3. task'[w].op = "restore" /\ task'[w].at = "exchanging" /\ task'[w].receipt = made[i]
    BY <1>1, <1>3, <2>1, <2>2, Moved
  <2>4. r.staged # 0
    BY <1>9
  <2>5. File(disk', made[i].staged) # 0
    BY <1>3, <2>1, <2>4 DEF File
  <2>6. LockAt(w)'
    BY <1>1, <1>3, <1>4, <2>2, <2>3, <2>5 DEF LockAt
  <2> QED BY <1>1, <1>3, <1>4, <1>6, <2>1, <2>2, <2>6, StepTaken
<1> QED BY <1>6, <1>7, <1>8

LEMMA ExchangeTypes ==
  ASSUME TypeLockInv, NEW w \in Windows, Exchange(w)
  PROVE  TypeLockInv'
<1> USE DEF Same
<1> DEFINE r == task[w].receipt
           applied == [r EXCEPT !.state = "applied", !.applied_sha = r.staged_sha]
<1>0. At(w, "restore", "exchanging") /\ "exchanging" \notin Unlocked
  BY DEF Exchange, Unlocked
<1>1. /\ TypeInv /\ task[w].op = "restore" /\ task[w].plan \in Plans /\ r \in Receipts
      /\ lock = w /\ r.original # 0 /\ disk \in Disks /\ durable \in Disks
      /\ Sound(disk) /\ Sound(durable) /\ data \in [Inodes -> Contents]
      /\ displaced \subseteq Contents
      /\ troubles \in 0..MaxTroubles
  BY <1>0, AtLocked
<1>2. UNCHANGED <<durable, data, lock, confirms, uses, plan, held>>
  BY DEF Exchange
<1>3. r.staged \in Names
  BY <1>1 DEF Receipts
<1>4. disk.names[r.staged] # 0
  BY <1>0 DEF TypeLockInv, LockAt, At, File
<1>5. CASE /\ disk' = Exchanged(task[w].plan, r.staged, "restored")
           /\ displaced' = displaced \cup {LiveContent}
           /\ Go(w, "applied", applied)
           /\ UNCHANGED troubles
  <2>1. disk' \in Disks /\ Sound(disk')
    BY <1>1, <1>3, <1>4, <1>5, Swapped DEF Effects
  <2>2. displaced' \subseteq Contents
    BY <1>1, <1>5, Types
  <2>3. applied \in Receipts /\ applied.original # 0
    BY <1>1 DEF Receipts, States
  <2> HIDE DEF applied
  <2> QED BY <1>1, <1>2, <1>5, <2>1, <2>2, <2>3, RestoreGoes DEF RestoreSteps
<1>6. CASE /\ Spend(1) /\ disk' = Without(disk, r.staged)
           /\ Go(w, "refusing", Unstaged(r)) /\ UNCHANGED displaced
  <2>1. disk' \in Disks /\ Sound(disk')
    BY <1>1, <1>3, <1>6, Removed
  <2>2. Unstaged(r) \in Receipts /\ Unstaged(r).original # 0
    BY <1>1, LiveIsAName DEF Receipts, Unstaged, Live
  <2>3. troubles' \in 0..MaxTroubles
    BY <1>1, <1>6, SpendOK
  <2> QED BY <1>1, <1>2, <1>6, <2>1, <2>2, <2>3, RestoreGoes DEF RestoreSteps
<1> QED BY <1>5, <1>6 DEF Exchange

\* A step that writes a receipt under the exclusion and goes on whatever becomes of it.
LEMMA WriteGoes ==
  ASSUME TypeLockInv, NEW w \in Windows, task[w].op = "restore", lock = w,
         NEW p \in Plans, NEW r \in Receipts, NEW s \in Receipts, s.original # 0,
         NEW at \in RestoreSteps \ {"exchanging", "backing up", "staging"}, Go(w, at, s),
         NEW synced \in {disk, durable}, NEW result \in Writes,
         Spend(Cost(result)), WriteReceipt(disk, synced, p, r, result),
         UNCHANGED <<data, lock, confirms, uses, displaced, plan, held>>
  PROVE  TypeLockInv'
<1>1. /\ TypeInv /\ disk \in Disks /\ durable \in Disks /\ Sound(disk) /\ Sound(durable)
      /\ data \in [Inodes -> Contents] /\ displaced \subseteq Contents
  BY DEF TypeLockInv, TypeInv
<1>2. disk' \in Disks /\ durable' \in Disks /\ Sound(disk') /\ Sound(durable')
  BY <1>1, ReceiptWritten
<1>3. troubles' \in 0..MaxTroubles
  BY <1>1, SpendOK, CostOK
<1> QED BY <1>1, <1>2, <1>3, RestoreGoes

LEMMA PublishAppliedTypes ==
  ASSUME TypeLockInv, NEW w \in Windows, PublishApplied(w)
  PROVE  TypeLockInv'
<1>0. At(w, "restore", "applied") /\ "applied" \notin Unlocked
  BY DEF PublishApplied, Unlocked
<1>1. /\ task[w].op = "restore" /\ task[w].plan \in Plans /\ task[w].receipt \in Receipts
      /\ lock = w /\ task[w].receipt.original # 0
  BY <1>0, AtLocked
<1>2. PICK result \in Writes :
        Spend(Cost(result)) /\ WriteReceipt(disk, durable, task[w].plan, task[w].receipt, result)
  BY DEF PublishApplied
<1>3. Go(w, "syncing", task[w].receipt)
      /\ UNCHANGED <<data, lock, confirms, uses, displaced, plan, held>>
  BY DEF PublishApplied, Same
<1> QED BY <1>1, <1>2, <1>3, WriteGoes DEF RestoreSteps

LEMMA SyncExchangeTypes ==
  ASSUME TypeLockInv, NEW w \in Windows, SyncExchange(w)
  PROVE  TypeLockInv'
<1> DEFINE r == [task[w].receipt EXCEPT !.state = "verification"]
<1>0. At(w, "restore", "syncing") /\ "syncing" \notin Unlocked
  BY DEF SyncExchange, Unlocked
<1>1. /\ task[w].op = "restore" /\ task[w].plan \in Plans /\ task[w].receipt \in Receipts
      /\ lock = w /\ task[w].receipt.original # 0 /\ TypeInv
      /\ disk \in Disks /\ durable \in Disks /\ Sound(disk) /\ Sound(durable)
      /\ data \in [Inodes -> Contents] /\ displaced \subseteq Contents
  BY <1>0, AtLocked
<1>2. r \in Receipts /\ r.original # 0
  BY <1>1, StateSet DEF States
<1>3. UNCHANGED <<data, lock, confirms, uses, displaced, plan, held>>
  BY DEF SyncExchange, Same
<1>4. ASSUME NEW result \in Writes, Spend(Cost(result)),
             WriteReceipt(disk, disk, task[w].plan, r, result), Go(w, "verifying", r)
      PROVE  TypeLockInv'
  BY <1>1, <1>2, <1>3, <1>4, WriteGoes DEF RestoreSteps
<1>5. ASSUME Spend(1), Go(w, "rolling back", r), UNCHANGED <<disk, durable>>
      PROVE  TypeLockInv'
  BY <1>1, <1>2, <1>3, <1>5, RestoreGoes, SpendOK DEF RestoreSteps
<1> QED BY <1>4, <1>5 DEF SyncExchange

LEMMA VerifyTypes ==
  ASSUME TypeLockInv, NEW w \in Windows, Verify(w)
  PROVE  TypeLockInv'
<1> DEFINE r == task[w].receipt
<1>0. At(w, "restore", "verifying") /\ "verifying" \notin Unlocked
  BY DEF Verify, Unlocked
<1>1. /\ task[w].op = "restore" /\ task[w].plan \in Plans /\ task[w].receipt \in Receipts
      /\ lock = w /\ task[w].receipt.original # 0 /\ TypeInv
      /\ disk \in Disks /\ durable \in Disks /\ Sound(disk) /\ Sound(durable)
      /\ data \in [Inodes -> Contents] /\ displaced \subseteq Contents
      /\ troubles \in 0..MaxTroubles
  BY <1>0, AtLocked
<1>3. UNCHANGED <<disk, durable, data, lock, confirms, uses, displaced, plan, held>>
  BY DEF Verify, Same
<1>4. ASSUME Go(w, "removing", r), UNCHANGED troubles
      PROVE  TypeLockInv'
  BY <1>1, <1>3, <1>4, RestoreGoes DEF RestoreSteps
<1>5. ASSUME Spend(1), Go(w, "rolling back", r)
      PROVE  TypeLockInv'
  BY <1>1, <1>3, <1>5, RestoreGoes, SpendOK DEF RestoreSteps
<1> QED BY <1>4, <1>5 DEF Verify

LEMMA RemoveTypes ==
  ASSUME TypeLockInv, NEW w \in Windows, RemoveSuperseded(w)
  PROVE  TypeLockInv'
<1> DEFINE r == task[w].receipt
<1>0. At(w, "restore", "removing") /\ "removing" \notin Unlocked
  BY DEF RemoveSuperseded, Unlocked
<1>1. /\ task[w].op = "restore" /\ task[w].plan \in Plans /\ task[w].receipt \in Receipts
      /\ lock = w /\ task[w].receipt.original # 0 /\ TypeInv
      /\ disk \in Disks /\ durable \in Disks /\ Sound(disk) /\ Sound(durable)
      /\ data \in [Inodes -> Contents] /\ displaced \subseteq Contents
      /\ troubles \in 0..MaxTroubles
  BY <1>0, AtLocked
<1>2. r.staged \in Names
  BY <1>1 DEF Receipts
<1>3. UNCHANGED <<data, lock, confirms, uses, displaced, plan, held>>
      /\ Go(w, "completing", r)
  BY DEF RemoveSuperseded, Same
<1>4. /\ disk' \in {disk, Without(disk, r.staged)} /\ durable' \in {disk', durable}
      /\ UNCHANGED troubles \/ Spend(1)
  BY DEF RemoveSuperseded
<1>5. disk' \in Disks /\ durable' \in Disks /\ Sound(disk') /\ Sound(durable')
  BY <1>1, <1>2, <1>4, Removed
<1>6. troubles' \in 0..MaxTroubles
  BY <1>1, <1>4, SpendOK
<1> QED BY <1>1, <1>3, <1>5, <1>6, RestoreGoes DEF RestoreSteps

\* A call returns after the write of a last receipt.
LEMMA WriteReturns ==
  ASSUME TypeLockInv, NEW w \in Windows, lock = w, Return(w),
         NEW d \in Disks, Sound(d), NEW synced \in Disks, Sound(synced),
         NEW p \in Plans, NEW r \in Receipts, NEW result \in Writes,
         WriteReceipt(d, synced, p, r, result),
         NEW n \in Nat, Spend(n),
         plan' \in [Plans -> [by : Windows \cup {None}, expects : Contents \cup {None}]],
         held' = held \/ held' = [held EXCEPT ![w] = NoReview],
         UNCHANGED <<data, confirms, uses, displaced>>
  PROVE  TypeLockInv'
<1>1. TypeInv
  BY DEF TypeLockInv
<1>2. disk' \in Disks /\ durable' \in Disks /\ Sound(disk') /\ Sound(durable')
  BY ReceiptWritten
<1>3. troubles' \in 0..MaxTroubles
  BY <1>1, SpendOK
<1> QED BY <1>2, <1>3, StepReturned

LEMMA PlansKept ==
  ASSUME TypeInv
  PROVE  /\ plan \in [Plans -> [by : Windows \cup {None}, expects : Contents \cup {None}]]
         /\ \A p \in Plans : [plan EXCEPT ![p].by = None]
              \in [Plans -> [by : Windows \cup {None}, expects : Contents \cup {None}]]
         /\ \A W : WithoutPlans(W)
              \in [Plans -> [by : Windows \cup {None}, expects : Contents \cup {None}]]
<1>1. plan \in [Plans -> [by : Windows \cup {None}, expects : Contents \cup {None}]]
  BY DEF TypeInv
<1> QED BY <1>1 DEF WithoutPlans

LEMMA CompleteTypes ==
  ASSUME TypeLockInv, NEW w \in Windows, Complete(w)
  PROVE  TypeLockInv'
<1> DEFINE r == [task[w].receipt EXCEPT !.state = "completed", !.intact = "no"]
<1>0. At(w, "restore", "completing") /\ "completing" \notin Unlocked
  BY DEF Complete, Unlocked
<1>1. /\ task[w].plan \in Plans /\ task[w].receipt \in Receipts /\ lock = w /\ TypeInv
      /\ disk \in Disks /\ durable \in Disks /\ Sound(disk) /\ Sound(durable)
  BY <1>0, AtLocked
<1>2. r \in Receipts
  BY <1>1, StateSet DEF States
<1>3. PICK result \in Writes :
        Spend(Cost(result)) /\ WriteReceipt(disk, durable, task[w].plan, r, result)
  BY DEF Complete
<1>4. /\ Return(w) /\ plan' = [plan EXCEPT ![task[w].plan].by = None]
      /\ UNCHANGED <<data, confirms, uses, displaced, held>>
  BY DEF Complete
<1> HIDE DEF r
<1> QED BY <1>1, <1>2, <1>3, <1>4, WriteReturns, PlansKept, CostOK

LEMMA BeginRollBackTypes ==
  ASSUME TypeLockInv, NEW w \in Windows, BeginRollBack(w)
  PROVE  TypeLockInv'
<1> DEFINE r == [task[w].receipt EXCEPT !.state = "rollback_attempted"]
<1>0. At(w, "restore", "rolling back") /\ "rolling back" \notin Unlocked
  BY DEF BeginRollBack, Unlocked
<1>1. /\ task[w].op = "restore" /\ task[w].plan \in Plans /\ task[w].receipt \in Receipts
      /\ lock = w /\ task[w].receipt.original # 0
  BY <1>0, AtLocked
<1>2. r \in Receipts /\ r.original # 0
  BY <1>1, StateSet DEF States
<1>3. PICK result \in Writes :
        Spend(Cost(result)) /\ WriteReceipt(disk, durable, task[w].plan, r, result)
  BY DEF BeginRollBack
<1>4. Go(w, "exchanging back", r)
      /\ UNCHANGED <<data, lock, confirms, uses, displaced, plan, held>>
  BY DEF BeginRollBack, Same
<1> HIDE DEF r
<1> QED BY <1>1, <1>2, <1>3, <1>4, WriteGoes DEF RestoreSteps

LEMMA ExchangeBackTypes ==
  ASSUME TypeLockInv, NEW w \in Windows, ExchangeBack(w)
  PROVE  TypeLockInv'
<1> DEFINE r == task[w].receipt
<1>0. At(w, "restore", "exchanging back") /\ "exchanging back" \notin Unlocked
  BY DEF ExchangeBack, Unlocked
<1>1. /\ task[w].op = "restore" /\ task[w].plan \in Plans /\ task[w].receipt \in Receipts
      /\ lock = w /\ task[w].receipt.original # 0 /\ TypeInv
      /\ disk \in Disks /\ durable \in Disks /\ Sound(disk) /\ Sound(durable)
      /\ data \in [Inodes -> Contents] /\ displaced \subseteq Contents
      /\ troubles \in 0..MaxTroubles
  BY <1>0, AtLocked
<1>2. r.staged \in Names
  BY <1>1 DEF Receipts
<1>3. UNCHANGED <<durable, data, lock, confirms, uses, displaced, plan, held>>
  BY DEF ExchangeBack, Same
<1>4. ASSUME File(disk, r.staged) = r.original,
             disk' = Exchanged(task[w].plan, r.staged, "none"),
             Go(w, "checking", r), UNCHANGED troubles
      PROVE  TypeLockInv'
  <2>1. disk.names[r.staged] # 0
    BY <1>1, <1>4 DEF File
  <2>2. disk' \in Disks /\ Sound(disk')
    BY <1>1, <1>2, <1>4, <2>1, Swapped DEF Effects
  <2> QED BY <1>1, <1>3, <1>4, <2>2, RestoreGoes DEF RestoreSteps
<1>5. ASSUME Spend(1), Go(w, "giving up", r), UNCHANGED disk
      PROVE  TypeLockInv'
  BY <1>1, <1>3, <1>5, RestoreGoes, SpendOK DEF RestoreSteps
<1> QED BY <1>4, <1>5 DEF ExchangeBack

LEMMA GiveUpTypes ==
  ASSUME TypeLockInv, NEW w \in Windows, GiveUp(w)
  PROVE  TypeLockInv'
<1> DEFINE r == [task[w].receipt EXCEPT !.state = "rollback_failed", !.intact = "no"]
<1>0. At(w, "restore", "giving up") /\ "giving up" \notin Unlocked
  BY DEF GiveUp, Unlocked
<1>1. /\ task[w].plan \in Plans /\ task[w].receipt \in Receipts /\ lock = w /\ TypeInv
      /\ disk \in Disks /\ durable \in Disks /\ Sound(disk) /\ Sound(durable)
  BY <1>0, AtLocked
<1>2. r \in Receipts
  BY <1>1, StateSet DEF States
<1>3. PICK result \in Writes :
        Spend(Cost(result)) /\ WriteReceipt(disk, durable, task[w].plan, r, result)
  BY DEF GiveUp
<1>4. Return(w) /\ UNCHANGED <<data, confirms, uses, displaced, plan, held>>
  BY DEF GiveUp, Same
<1> HIDE DEF r
<1> QED BY <1>1, <1>2, <1>3, <1>4, WriteReturns, PlansKept, CostOK

LEMMA CheckBackTypes ==
  ASSUME TypeLockInv, NEW w \in Windows, CheckBack(w)
  PROVE  TypeLockInv'
<1> DEFINE r == task[w].receipt
           back == [r EXCEPT !.state = "rolled_back", !.intact = "yes"]
           failed == [r EXCEPT !.state = "rollback_failed", !.intact = "unknown"]
<1>0. At(w, "restore", "checking") /\ "checking" \notin Unlocked
  BY DEF CheckBack, Unlocked
<1>1. /\ task[w].plan \in Plans /\ task[w].receipt \in Receipts /\ lock = w /\ TypeInv
      /\ disk \in Disks /\ durable \in Disks /\ Sound(disk) /\ Sound(durable)
  BY <1>0, AtLocked
<1>2. back \in Receipts /\ failed \in Receipts /\ r.staged \in Names
  <2>1. {"rolled_back", "rollback_failed"} \subseteq States
    BY DEF States
  <2>2. back \in Receipts /\ failed \in Receipts
    BY <1>1, <2>1, StateSet
  <2>3. r.staged \in Names
    BY <1>1 DEF Receipts
  <2> QED BY <2>2, <2>3
<1>3. Return(w) /\ UNCHANGED <<data, confirms, uses, displaced, plan, held>>
  BY DEF CheckBack, Same
<1>4. PICK result \in Writes :
       \/ /\ Spend(Cost(result))
          /\ WriteReceipt(Without(disk, r.staged), disk, task[w].plan, back, result)
       \/ /\ Spend(1 + Cost(result))
          /\ WriteReceipt(disk, durable, task[w].plan, failed, result)
  BY DEF CheckBack
<1>5. Without(disk, r.staged) \in Disks /\ Sound(Without(disk, r.staged))
  BY <1>1, <1>2, Removed
<1>6. Cost(result) \in Nat /\ 1 + Cost(result) \in Nat
  BY CostOK
<1> HIDE DEF back, failed
<1>7. CASE /\ Spend(Cost(result))
           /\ WriteReceipt(Without(disk, r.staged), disk, task[w].plan, back, result)
  BY <1>1, <1>2, <1>3, <1>5, <1>6, <1>7, WriteReturns, PlansKept
<1>8. CASE /\ Spend(1 + Cost(result))
           /\ WriteReceipt(disk, durable, task[w].plan, failed, result)
  BY <1>1, <1>2, <1>3, <1>6, <1>8, WriteReturns, PlansKept
<1> QED BY <1>4, <1>7, <1>8

\* A rollback takes a step under its exclusion.
LEMMA RollbackGoes ==
  ASSUME TypeLockInv, NEW w \in Windows, task[w].op = "rollback",
         NEW at \in RollbackSteps, NEW r \in Receipts, Go(w, at, r),
         disk' \in Disks, durable' \in Disks, Sound(disk'), Sound(durable'),
         data' \in [Inodes -> Contents],
         UNCHANGED <<confirms, uses, plan, held, lock>>,
         displaced' \subseteq Contents, troubles' \in 0..MaxTroubles,
         at # "staging",
         at \in {"exchanging", "checking"} => File(disk', r.rollback) # 0
  PROVE  TypeLockInv'
<1>1. TypeInv /\ at \in Steps /\ lock = w
  BY DEF TypeLockInv, RollbackSteps, Steps, LockAt
<1>2. task'[w].op = "rollback" /\ task'[w].at = at /\ task'[w].receipt = r
  BY <1>1, Moved
<1>3. LockAt(w)'
  BY <1>1, <1>2 DEF LockAt
<1> QED BY <1>1, <1>3, StepTaken

\* A page takes or drops a review, of a restore or of a rollback.
LEMMA Reviewed ==
  ASSUME TypeLockInv, NEW w \in Windows, task' = task,
         UNCHANGED <<disk, durable, data, lock, confirms, uses, troubles, displaced>>,
         plan' \in [Plans -> [by : Windows \cup {None}, expects : Contents \cup {None}]],
         NEW h \in Reviews, held' = [held EXCEPT ![w] = h],
         h = NoReview \/ (h.plan \in Plans /\ h.receipt.state = "completed")
  PROVE  TypeLockInv'
<1>1. TypeInv /\ \A v \in Windows : ShapeAt(v) /\ LockAt(v)
  BY DEF TypeLockInv
<1>2. /\ held' \in [Windows -> Reviews] /\ held'[w] = h
      /\ \A v \in Windows \ {w} : held'[v] = held[v]
  BY <1>1 DEF TypeInv
<1>3. TypeInv'
  BY <1>1, <1>2 DEF TypeInv
<1>4. ASSUME NEW v \in Windows PROVE ShapeAt(v)' /\ LockAt(v)'
  <2>1. LockAt(v)'
    BY <1>1, SameLock
  <2>2. CASE v = w
    <3>1. held'[w].plan = None => held'[w].receipt = NoReceipt
      BY <1>2, IdleFields, NoneApart
    <3>2. held'[w].plan # None => held'[w].receipt.state = "completed"
      BY <1>2, IdleFields
    <3> QED BY <1>1, <2>1, <2>2, <3>1, <3>2 DEF ShapeAt
  <2>3. CASE v # w
    BY <1>1, <1>2, <2>1, <2>3 DEF ShapeAt
  <2> QED BY <2>1, <2>2, <2>3, <1>2
<1> QED BY <1>3, <1>4 DEF TypeLockInv

LEMMA PrepareTypes ==
  ASSUME TypeLockInv, NEW w \in Windows, NEW p \in Plans, Prepare(w, p)
  PROVE  TypeLockInv'
<1>1. TypeInv
  BY DEF TypeLockInv
<1>2. WithoutPlans({w}) \in [Plans -> [by : Windows \cup {None}, expects : Contents \cup {None}]]
      /\ LiveContent \in Contents
  BY <1>1, PlansKept, Types
<1>3. plan' = [WithoutPlans({w}) EXCEPT ![p] = [by |-> w, expects |-> LiveContent]]
  BY DEF Prepare
<1>4. plan' \in [Plans -> [by : Windows \cup {None}, expects : Contents \cup {None}]]
  BY <1>2, <1>3
<1> QED BY <1>4, Reviewed, NoReceiptOK DEF Prepare

LEMMA ReviewRollbackTypes ==
  ASSUME TypeLockInv, NEW w \in Windows, NEW p \in Plans, ReviewRollback(w, p)
  PROVE  TypeLockInv'
<1> DEFINE h == IF InputsHold(disk.receipts[p])
                THEN [plan |-> p, receipt |-> disk.receipts[p]] ELSE NoReview
<1>1. TypeInv
  BY DEF TypeLockInv
<1>2. disk.receipts[p] \in Receipts
  BY <1>1, Types
<1>3. h \in Reviews /\ (h = NoReview \/ (h.plan \in Plans /\ h.receipt.state = "completed"))
  BY <1>2, NoReceiptOK DEF Reviews, ReviewRollback
<1>4. /\ held' = [held EXCEPT ![w] = h] /\ plan' = WithoutPlans({w}) /\ task' = task
      /\ UNCHANGED <<disk, durable, data, lock, confirms, uses, troubles, displaced>>
  BY DEF ReviewRollback
<1>5. plan' \in [Plans -> [by : Windows \cup {None}, expects : Contents \cup {None}]]
  BY <1>1, <1>4, PlansKept
<1> HIDE DEF h
<1> QED BY <1>3, <1>4, <1>5, Reviewed

\* A worker starts.
LEMMA Started ==
  ASSUME TypeLockInv, NEW w \in Windows, task[w] = Idle,
         NEW t \in Tasks, task' = [task EXCEPT ![w] = t], t.plan \in Plans, t.op # "idle",
         disk' \in Disks, durable' \in Disks, Sound(disk'), Sound(durable'),
         disk'.names = disk.names,
         UNCHANGED <<data, uses, plan, held, displaced>>,
         confirms' \in [Plans -> Nat], troubles' \in 0..MaxTroubles,
         lock' = lock \/ (lock = None /\ lock' = w),
         LockAt(w)'
  PROVE  TypeLockInv'
<1>1. TypeInv /\ \A v \in Windows : ShapeAt(v) /\ LockAt(v)
  BY DEF TypeLockInv
<1>2. /\ task' \in [Windows -> Tasks] /\ task'[w] = t
      /\ \A v \in Windows \ {w} : task'[v] = task[v]
  BY <1>1 DEF TypeInv
<1>3. lock' \in Windows \cup {None}
  BY <1>1 DEF TypeInv
<1>4. TypeInv'
  BY <1>1, <1>2, <1>3 DEF TypeInv
<1>5. ASSUME NEW v \in Windows PROVE ShapeAt(v)' /\ LockAt(v)'
  <2>1. CASE v = w
    BY <1>1, <1>2, <2>1, NoneApart DEF ShapeAt
  <2>2. CASE v # w
    BY <1>1, <1>2, <2>2, OtherWindow, OtherShape
  <2> QED BY <2>1, <2>2
<1> QED BY <1>4, <1>5 DEF TypeLockInv

\* An idle window has no exclusion.
LEMMA IdleUnlocked ==
  ASSUME TypeLockInv, NEW w \in Windows, task[w] = Idle
  PROVE  lock # w
BY IdleFields DEF TypeLockInv, LockAt

LEMMA ConfirmTypes ==
  ASSUME TypeLockInv, NEW w \in Windows, NEW p \in Plans, Confirm(w, p)
  PROVE  TypeLockInv'
<1> DEFINE r == [NoReceipt EXCEPT !.state = "validating"]
           t == [op |-> "restore", at |-> "excluding", plan |-> p, receipt |-> r]
<1>1. /\ TypeInv /\ disk \in Disks /\ durable \in Disks /\ Sound(disk) /\ Sound(durable)
      /\ task[w] = Idle /\ lock # w
  BY IdleUnlocked DEF TypeLockInv, TypeInv, Confirm
<1>2. r \in Receipts /\ t \in Tasks /\ t.op = "restore" /\ t.at = "excluding"
      /\ t.receipt = r /\ t.plan = p
  <2>1. r \in Receipts
    BY NoReceiptOK DEF Receipts, States
  <2> HIDE DEF r
  <2> QED BY <2>1 DEF Tasks, Steps
<1>3. /\ confirms' = [confirms EXCEPT ![p] = @ + 1]
      /\ UNCHANGED <<data, lock, plan, held, uses, displaced>>
  BY DEF Confirm
<1>4. PICK result \in Writes :
        /\ Spend(Cost(result)) /\ WriteReceipt(disk, durable, p, r, result)
        /\ task' = IF result = "ok" THEN [task EXCEPT ![w] = t] ELSE task
  BY DEF Confirm
<1> HIDE DEF r, t
<1>5. /\ disk' \in Disks /\ durable' \in Disks /\ Sound(disk') /\ Sound(durable')
      /\ disk'.names = disk.names
  BY <1>1, <1>2, <1>4, ReceiptWritten
<1>6. troubles' \in 0..MaxTroubles /\ confirms' \in [Plans -> Nat]
  BY <1>1, <1>3, <1>4, SpendOK, CostOK DEF TypeInv
<1>7. CASE result = "ok"
  <2>1. task'[w] = t
    BY <1>1, <1>4, <1>7 DEF TypeInv
  <2>2. LockAt(w)'
    BY <1>1, <1>2, <1>3, <2>1 DEF LockAt, RestoreSteps, Unlocked
  <2> QED BY <1>1, <1>2, <1>3, <1>4, <1>5, <1>6, <1>7, <2>2, Started
<1>8. CASE result # "ok"
  <2>1. task' = task
    BY <1>4, <1>8
  <2>2. TypeInv'
    BY <1>1, <1>3, <1>5, <1>6, <2>1 DEF TypeInv
  <2>3. ASSUME NEW v \in Windows PROVE ShapeAt(v)' /\ LockAt(v)'
    BY <1>3, <1>5, <2>1 DEF TypeLockInv, ShapeAt, LockAt, File
  <2> QED BY <2>2, <2>3 DEF TypeLockInv
<1> QED BY <1>7, <1>8

LEMMA ReadInterruptedTypes ==
  ASSUME TypeLockInv, NEW w \in Windows, NEW p \in Plans, ReadInterrupted(w, p)
  PROVE  TypeLockInv'
<1> DEFINE t == [op |-> "finalise", at |-> "assessing", plan |-> p, receipt |-> disk.receipts[p]]
<1>1. /\ TypeInv /\ disk \in Disks /\ durable \in Disks /\ Sound(disk) /\ Sound(durable)
      /\ task[w] = Idle /\ lock # w
  BY IdleUnlocked DEF TypeLockInv, TypeInv, ReadInterrupted
<1>2. t \in Tasks /\ t.op = "finalise" /\ t.plan = p
  BY <1>1, Types DEF Tasks, Steps
<1>3. /\ UNCHANGED <<disk, durable, data, lock, confirms, plan, held, uses, displaced, troubles>>
      /\ task' = [task EXCEPT ![w] = t]
  BY DEF ReadInterrupted, Same
<1> HIDE DEF t
<1>4. task'[w] = t
  BY <1>1, <1>3 DEF TypeInv
<1>5. LockAt(w)'
  BY <1>1, <1>2, <1>3, <1>4 DEF LockAt
<1>6. confirms' \in [Plans -> Nat] /\ troubles' \in 0..MaxTroubles
  BY <1>1, <1>3 DEF TypeInv
<1> QED BY <1>1, <1>2, <1>3, <1>5, <1>6, Started

LEMMA ReviewDropped ==
  ASSUME NEW w, held' = ReviewAfterError(w)
  PROVE  held' = held \/ held' = [held EXCEPT ![w] = NoReview]
BY DEF ReviewAfterError

\* A page may drop its review while its worker rests.
LEMMA Dropped ==
  ASSUME TypeLockInv, NEW w \in Windows, task' = task,
         disk' \in Disks, durable' \in Disks, Sound(disk'), Sound(durable'),
         disk'.names = disk.names, troubles' \in 0..MaxTroubles,
         UNCHANGED <<data, lock, confirms, uses, displaced, plan>>,
         held' = held \/ held' = [held EXCEPT ![w] = NoReview]
  PROVE  TypeLockInv'
<1>1. TypeInv /\ \A v \in Windows : ShapeAt(v) /\ LockAt(v)
  BY DEF TypeLockInv
<1>2. /\ held' \in [Windows -> Reviews]
      /\ \A v \in Windows : held'[v] = held[v] \/ held'[v] = NoReview
  BY <1>1, NoReceiptOK DEF TypeInv
<1>3. TypeInv'
  BY <1>1, <1>2 DEF TypeInv
<1>4. ASSUME NEW v \in Windows PROVE ShapeAt(v)' /\ LockAt(v)'
  BY <1>1, <1>2, IdleFields DEF ShapeAt, LockAt, File
<1> QED BY <1>3, <1>4 DEF TypeLockInv

LEMMA BeginRollbackTypes ==
  ASSUME TypeLockInv, NEW w \in Windows, BeginRollback(w)
  PROVE  TypeLockInv'
<1>1. /\ TypeInv /\ disk \in Disks /\ durable \in Disks /\ Sound(disk) /\ Sound(durable)
      /\ task[w] = Idle /\ lock # w /\ troubles \in 0..MaxTroubles
  BY IdleUnlocked DEF TypeLockInv, TypeInv, BeginRollback
<1>2. held[w].plan \in Plans /\ held[w].receipt \in Receipts
  BY <1>1, Types DEF BeginRollback
<1>3. UNCHANGED <<data, plan, confirms, uses, displaced>>
  BY DEF BeginRollback
<1>4. ASSUME held' = ReviewAfterError(w), UNCHANGED <<disk, durable, task, lock, troubles>>
      PROVE  TypeLockInv'
  BY <1>1, <1>3, <1>4, ReviewDropped, Dropped
<1>5. ASSUME lock = None, InputsHold(held[w].receipt), NEW n \in FreeNames, NEW result \in Writes,
        LET r == [held[w].receipt EXCEPT !.state = "rollback_attempted",
                         !.rollback = n, !.rollback_identity = 0,
                         !.replacement = LiveFile(disk)] IN
             /\ Spend(Cost(result))
             /\ WriteReceipt(disk, durable, held[w].plan, r, result)
             /\ IF result = "ok"
                THEN /\ task' = [task EXCEPT ![w] = [op |-> "rollback", at |-> "staging",
                                                     plan |-> held[w].plan, receipt |-> r]]
                     /\ lock' = w
                     /\ UNCHANGED held
                ELSE UNCHANGED <<task, lock>> /\ held' = ReviewAfterError(w)
      PROVE TypeLockInv'
  <2> DEFINE r == [held[w].receipt EXCEPT !.state = "rollback_attempted",
                         !.rollback = n, !.rollback_identity = 0,
                         !.replacement = LiveFile(disk)]
             t == [op |-> "rollback", at |-> "staging", plan |-> held[w].plan, receipt |-> r]
  <2>1. /\ r \in Receipts /\ r.rollback # 0 /\ r.emergency = held[w].receipt.emergency
    <3>1. LiveFile(disk) \in Inodes /\ n \in Names /\ n # 0
      BY <1>1, Types DEF FreeNames, Live
    <3> QED BY <1>2, <3>1 DEF Receipts, States
  <2>2. /\ Spend(Cost(result)) /\ WriteReceipt(disk, durable, held[w].plan, r, result)
        /\ IF result = "ok"
                THEN task' = [task EXCEPT ![w] = t] /\ lock' = w /\ UNCHANGED held
                ELSE UNCHANGED <<task, lock>> /\ held' = ReviewAfterError(w)
    BY <1>5
  <2> HIDE DEF r
  <2>3. t \in Tasks /\ t.op = "rollback" /\ t.at = "staging" /\ t.plan = held[w].plan /\ t.receipt = r
    BY <1>2, <2>1 DEF Tasks, Steps
  <2> HIDE DEF t
  <2>4. /\ disk' \in Disks /\ durable' \in Disks /\ Sound(disk') /\ Sound(durable')
        /\ disk'.names = disk.names
    BY <1>1, <1>2, <2>1, <2>2, ReceiptWritten
  <2>5. troubles' \in 0..MaxTroubles
    BY <1>1, <2>2, SpendOK, CostOK
  <2>6. CASE result = "ok"
    <3>1. task'[w] = t
      BY <1>1, <2>2, <2>6 DEF TypeInv
    <3>2. File(disk', r.emergency) # 0
      BY <1>5, <2>1, <2>4 DEF InputsHold, File
    <3>3. LockAt(w)'
      BY <2>1, <2>2, <2>3, <2>6, <3>1, <3>2 DEF LockAt, RollbackSteps
    <3>4. confirms' \in [Plans -> Nat]
      BY <1>1, <1>3 DEF TypeInv
    <3> QED BY <1>1, <1>2, <1>3, <1>5, <2>2, <2>3, <2>4, <2>5, <2>6, <3>3, <3>4, Started
  <2>7. CASE result # "ok"
    BY <1>1, <1>3, <2>2, <2>4, <2>5, <2>7, ReviewDropped, Dropped
  <2> QED BY <2>6, <2>7
<1> QED BY <1>4, <1>5 DEF BeginRollback

LEMMA StageRollbackTypes ==
  ASSUME TypeLockInv, NEW w \in Windows, StageRollback(w)
  PROVE  TypeLockInv'
<1> USE DEF Same
<1> DEFINE r == task[w].receipt
           made == [i \in Inodes |-> [r EXCEPT !.rollback_identity = i]]
           without == Unrolled(r)
           content == data[File(disk, r.emergency)]
<1>0. At(w, "rollback", "staging")
  BY DEF StageRollback
<1>1. /\ TypeInv /\ task[w].op = "rollback" /\ task[w].plan \in Plans /\ r \in Receipts
      /\ lock = w /\ displaced \subseteq Contents /\ data \in [Inodes -> Contents]
      /\ disk \in Disks
  BY <1>0, AtRollback
<1>2. r.rollback # 0 /\ File(disk, r.emergency) # 0
  BY <1>0 DEF At, LockAt, TypeLockInv
<1>3. content \in Contents
  <2>1. File(disk, r.emergency) \in Inodes
    BY <1>1, <1>2 DEF File, Receipts, Disks
  <2> QED BY <1>1, <2>1
<1>4. /\ made \in [Inodes -> Receipts]
      /\ \A i \in Inodes : made[i].rollback = r.rollback
      /\ without \in Receipts
  <2>1. \A i \in Inodes : made[i] \in Receipts /\ made[i].rollback = r.rollback
    BY <1>1, IdentitySet
  <2> QED BY <1>1, <2>1, UnrolledOK
<1>5. /\ CopyRecorded(w, r.rollback, content, made, "exchanging", without)
      /\ UNCHANGED <<lock, confirms, uses, displaced, plan, held>>
  BY DEF StageRollback
<1>6. r.rollback \in Names
  BY <1>1 DEF Receipts
<1> HIDE DEF made, without, content
<1>7. /\ disk' \in Disks /\ durable' \in Disks /\ Sound(disk') /\ Sound(durable')
      /\ data' \in [Inodes -> Contents] /\ troubles' \in 0..MaxTroubles
      /\ \/ \E i \in Inodes : Go(w, "exchanging", made[i]) /\ disk'.names[r.rollback] # 0
         \/ Go(w, "refusing", without)
  BY <1>1, <1>3, <1>4, <1>5, <1>6, CopyTypes
<1>8. CASE Go(w, "refusing", without)
  BY <1>1, <1>4, <1>5, <1>7, <1>8, RollbackGoes DEF RollbackSteps
<1>9. CASE \E i \in Inodes : Go(w, "exchanging", made[i]) /\ disk'.names[r.rollback] # 0
  <2>1. PICK i \in Inodes : Go(w, "exchanging", made[i]) /\ disk'.names[r.rollback] # 0
    BY <1>9
  <2>2. File(disk', made[i].rollback) # 0 /\ made[i] \in Receipts
    BY <1>2, <1>4, <2>1 DEF File
  <2> QED BY <1>1, <1>5, <1>7, <2>1, <2>2, RollbackGoes DEF RollbackSteps
<1> QED BY <1>7, <1>8, <1>9

LEMMA RefuseRollbackTypes ==
  ASSUME TypeLockInv, NEW w \in Windows, RefuseRollback(w)
  PROVE  TypeLockInv'
<1>0. At(w, "rollback", "refusing")
  BY DEF RefuseRollback
<1>1. /\ task[w].plan \in Plans /\ task[w].receipt \in Receipts /\ lock = w /\ TypeInv
      /\ disk \in Disks /\ durable \in Disks /\ Sound(disk) /\ Sound(durable)
  BY <1>0, AtRollback
<1>2. PICK result \in Writes :
        Spend(Cost(result)) /\ WriteReceipt(disk, durable, task[w].plan, task[w].receipt, result)
  BY DEF RefuseRollback
<1>3. /\ Return(w) /\ held' = ReviewAfterError(w)
      /\ UNCHANGED <<data, plan, confirms, uses, displaced>>
  BY DEF RefuseRollback
<1> QED BY <1>1, <1>2, <1>3, WriteReturns, PlansKept, CostOK, ReviewDropped

LEMMA ExchangeRollbackTypes ==
  ASSUME TypeLockInv, NEW w \in Windows, ExchangeRollback(w)
  PROVE  TypeLockInv'
<1> DEFINE r == task[w].receipt
<1>0. At(w, "rollback", "exchanging")
  BY DEF ExchangeRollback
<1>1. /\ TypeInv /\ task[w].op = "rollback" /\ task[w].plan \in Plans /\ r \in Receipts
      /\ lock = w /\ displaced \subseteq Contents /\ data \in [Inodes -> Contents]
      /\ disk \in Disks /\ durable \in Disks /\ Sound(disk) /\ Sound(durable)
      /\ troubles \in 0..MaxTroubles
  BY <1>0, AtRollback
<1>2. r.rollback \in Names
  BY <1>1 DEF Receipts
<1>3. UNCHANGED <<durable, data, lock, confirms, uses, plan, held>>
  BY DEF ExchangeRollback
<1>4. File(disk, r.rollback) # 0 /\ r.rollback # 0 /\ disk.names[r.rollback] # 0
  BY <1>0 DEF TypeLockInv, LockAt, At, File
<1>5. ASSUME disk' = Exchanged(task[w].plan, r.rollback, "rolled back"),
             displaced' = displaced \cup {LiveContent},
             Go(w, "checking", r), UNCHANGED troubles
      PROVE  TypeLockInv'
  <2>1. disk' \in Disks /\ Sound(disk') /\ disk'.names[r.rollback] = disk.names[Live]
    BY <1>1, <1>2, <1>4, <1>5, Swapped DEF Effects
  <2>2. displaced' \subseteq Contents
    BY <1>1, <1>5, Types
  <2>3. File(disk', r.rollback) # 0
    BY <1>1, <1>4, <2>1 DEF File, Sound
  <2> QED BY <1>1, <1>3, <1>5, <2>1, <2>2, <2>3, RollbackGoes DEF RollbackSteps
<1>6. ASSUME Spend(1), disk' = Without(disk, r.rollback),
             Go(w, "refusing", Unrolled(r)), UNCHANGED displaced
      PROVE  TypeLockInv'
  <2>1. disk' \in Disks /\ Sound(disk')
    BY <1>1, <1>2, <1>6, Removed
  <2>2. Unrolled(r) \in Receipts
    BY <1>1, UnrolledOK
  <2>3. troubles' \in 0..MaxTroubles
    BY <1>1, <1>6, SpendOK
  <2> QED BY <1>1, <1>3, <1>6, <2>1, <2>2, <2>3, RollbackGoes DEF RollbackSteps
<1> QED BY <1>5, <1>6 DEF ExchangeRollback

LEMMA CheckRollbackTypes ==
  ASSUME TypeLockInv, NEW w \in Windows, CheckRollback(w)
  PROVE  TypeLockInv'
<1> DEFINE p == task[w].plan
           r == task[w].receipt
           back == Exchanged(p, r.rollback, "restored")
           rolled == [r EXCEPT !.state = "rolled_back", !.intact = "yes"]
           failed == [r EXCEPT !.state = "rollback_failed", !.intact = "unknown"]
<1>0. At(w, "rollback", "checking")
  BY DEF CheckRollback
<1>1. /\ TypeInv /\ p \in Plans /\ r \in Receipts /\ lock = w
      /\ disk \in Disks /\ durable \in Disks /\ Sound(disk) /\ Sound(durable)
  BY <1>0, AtRollback
<1>2. rolled \in Receipts /\ failed \in Receipts /\ Unrolled(r) \in Receipts /\ r.rollback \in Names
  <2>1. {"rolled_back", "rollback_failed"} \subseteq States
    BY DEF States
  <2>2. rolled \in Receipts /\ failed \in Receipts /\ Unrolled(r) \in Receipts
    BY <1>1, <2>1, StateSet, UnrolledOK
  <2>3. r.rollback \in Names
    BY <1>1 DEF Receipts
  <2> QED BY <2>2, <2>3
<1>3. Return(w) /\ UNCHANGED <<data, plan, confirms, uses, displaced>>
  BY DEF CheckRollback
<1>4. disk.names[r.rollback] # 0
  BY <1>0 DEF TypeLockInv, LockAt, At, File
<1>5. back \in Disks /\ Sound(back)
  BY <1>1, <1>2, <1>4, Swapped DEF Effects
<1>6. Without(disk, r.rollback) \in Disks /\ Sound(Without(disk, r.rollback))
  BY <1>1, <1>2, Removed
<1> HIDE DEF back, rolled, failed
<1>7. Without(back, r.rollback) \in Disks /\ Sound(Without(back, r.rollback))
  BY <1>2, <1>5, Removed
<1>8. PICK result \in Writes :
       \/ /\ Spend(Cost(result))
          /\ WriteReceipt(Without(disk, r.rollback), disk, p, rolled, result)
          /\ held' = [held EXCEPT ![w] = NoReview]
       \/ \E synced \in {back, durable} :
            /\ Spend(1 + Cost(result) + IF synced = back THEN 0 ELSE 1)
            /\ WriteReceipt(Without(back, r.rollback), synced, p, Unrolled(r), result)
            /\ held' = ReviewAfterError(w)
       \/ /\ Spend(2 + Cost(result))
          /\ WriteReceipt(disk, durable, p, failed, result)
          /\ held' = ReviewAfterError(w)
  BY DEF CheckRollback, back, rolled, failed
<1>9. Cost(result) \in Nat /\ 2 + Cost(result) \in Nat
      /\ \A synced \in {back, durable} : (1 + Cost(result) + IF synced = back THEN 0 ELSE 1) \in Nat
  BY CostOK
<1>10. CASE /\ Spend(Cost(result))
            /\ WriteReceipt(Without(disk, r.rollback), disk, p, rolled, result)
            /\ held' = [held EXCEPT ![w] = NoReview]
  BY <1>1, <1>2, <1>3, <1>6, <1>9, <1>10, WriteReturns, PlansKept
<1>11. ASSUME NEW synced \in {back, durable},
              Spend(1 + Cost(result) + IF synced = back THEN 0 ELSE 1),
              WriteReceipt(Without(back, r.rollback), synced, p, Unrolled(r), result),
              held' = ReviewAfterError(w)
       PROVE  TypeLockInv'
  <2> DEFINE n == 1 + Cost(result) + IF synced = back THEN 0 ELSE 1
  <2>1. n \in Nat /\ Spend(n)
    BY <1>9, <1>11
  <2>2. synced \in Disks /\ Sound(synced)
    BY <1>1, <1>5
  <2> HIDE DEF n
  <2> QED BY <1>1, <1>2, <1>3, <1>7, <1>11, <2>1, <2>2, WriteReturns, PlansKept, ReviewDropped
<1>12. CASE /\ Spend(2 + Cost(result))
            /\ WriteReceipt(disk, durable, p, failed, result)
            /\ held' = ReviewAfterError(w)
  BY <1>1, <1>2, <1>3, <1>9, <1>12, WriteReturns, PlansKept, ReviewDropped
<1> QED BY <1>8, <1>10, <1>11, <1>12

LEMMA SettledOK ==
  ASSUME NEW r \in Receipts, NEW s \in Settled(r)
  PROVE  s \in Receipts
<1>1. /\ [r EXCEPT !.state = "failed", !.intact = "yes"] \in Receipts
      /\ [r EXCEPT !.state = "rolled_back", !.intact = "yes"] \in Receipts
      /\ Unrolled(r) \in Receipts
  BY StateSet, UnrolledOK DEF States
<1>2. [Unrolled(r) EXCEPT !.intact = "no", !.applied_sha = r.staged_sha] \in Receipts
  BY <1>1 DEF Receipts
<1>3. Assess(r) \in {"original", "replacement", "rollback", "unrecognised"}
  BY DEF Assess
<1> QED BY <1>1, <1>2, <1>3 DEF Settled

LEMMA FinaliseTypes ==
  ASSUME TypeLockInv, NEW w \in Windows, Finalise(w)
  PROVE  TypeLockInv'
<1>1. /\ TypeInv /\ disk \in Disks /\ durable \in Disks /\ Sound(disk) /\ Sound(durable)
      /\ troubles \in 0..MaxTroubles
  BY DEF TypeLockInv, TypeInv
<1>2. task[w].plan \in Plans /\ task[w].receipt \in Receipts
  BY <1>1, Types, Busy DEF Finalise, At, TypeLockInv
<1>3. Return(w) /\ UNCHANGED <<data, confirms, uses, displaced, plan, held>>
  BY DEF Finalise, Same
<1>4. ASSUME UNCHANGED <<disk, durable, troubles>>
      PROVE  TypeLockInv'
  BY <1>1, <1>3, <1>4, StepReturned, PlansKept
<1>5. ASSUME NEW r \in Settled(task[w].receipt), NEW result \in Writes,
             LET p == task[w].plan
                 stale == disk.receipts[p] # task[w].receipt IN
             /\ Spend(Cost(result))
             /\ WriteReceipt([disk EXCEPT !.stale[p] = @ \/ stale], durable, p, r, result)
      PROVE  TypeLockInv'
  <2> DEFINE p == task[w].plan
             d == [disk EXCEPT !.stale[p] = @ \/ disk.receipts[p] # task[w].receipt]
  <2>1. d \in Disks /\ d.names = disk.names
    <3>1. (disk.stale[p] \/ disk.receipts[p] # task[w].receipt) \in BOOLEAN
      OBVIOUS
    <3> QED BY <1>1, <1>2, <3>1 DEF Disks
  <2>2. Spend(Cost(result)) /\ WriteReceipt(d, durable, p, r, result)
    BY <1>5
  <2> HIDE DEF d
  <2>3. Sound(d)
    BY <1>1, <2>1 DEF Sound
  <2>4. /\ disk' \in Disks /\ durable' \in Disks /\ Sound(disk') /\ Sound(durable')
        /\ disk'.names = disk.names
    BY <1>1, <1>2, <2>1, <2>2, <2>3, SettledOK, ReceiptWritten
  <2>5. troubles' \in 0..MaxTroubles
    BY <1>1, <2>2, SpendOK, CostOK
  <2> QED BY <1>1, <1>3, <2>4, <2>5, StepReturned, PlansKept
<1> QED BY <1>4, <1>5 DEF Finalise

LEMMA UseTypes ==
  ASSUME TypeLockInv, Use
  PROVE  TypeLockInv'
<1>1. TypeInv
  BY DEF TypeLockInv
<1>2. uses' \in 0..MaxUses /\ uses + 1 \in Contents
  BY <1>1, RestoreAssumption DEF TypeInv, Use, Contents, RestoreAssumption
<1>3. data' \in [Inodes -> Contents]
  BY <1>1, <1>2 DEF TypeInv, Use
<1>4. TypeInv'
  BY <1>1, <1>2, <1>3 DEF TypeInv, Use
<1>5. ASSUME NEW v \in Windows PROVE ShapeAt(v)' /\ LockAt(v)'
  BY DEF TypeLockInv, ShapeAt, LockAt, File, Use
<1> QED BY <1>4, <1>5 DEF TypeLockInv

LEMMA DieTypes ==
  ASSUME TypeLockInv, NEW W \in SUBSET Windows, Die(W),
         disk' \in Disks, durable' \in Disks, Sound(disk'), Sound(durable'),
         W = Windows \/ disk'.names = disk.names
  PROVE  TypeLockInv'
<1>1. TypeInv /\ \A v \in Windows : ShapeAt(v) /\ LockAt(v)
  BY DEF TypeLockInv
<1>2. /\ troubles' \in 0..MaxTroubles
      /\ plan' \in [Plans -> [by : Windows \cup {None}, expects : Contents \cup {None}]]
  BY <1>1, SpendOK, PlansKept DEF Die
<1>3. /\ task' \in [Windows -> Tasks] /\ held' \in [Windows -> Reviews]
      /\ lock' \in Windows \cup {None}
  BY <1>1, NoReceiptOK DEF TypeInv, Die
<1>4. TypeInv'
  BY <1>1, <1>2, <1>3 DEF TypeInv, Die
<1>5. ASSUME NEW v \in Windows PROVE ShapeAt(v)' /\ LockAt(v)'
  <2>1. CASE v \in W
    <3>1. task'[v] = Idle /\ held'[v] = NoReview
      BY <2>1 DEF Die
    <3>2. lock' # v
      BY <2>1, NoneApart DEF Die
    <3> QED BY <3>1, <3>2, IdleFields DEF ShapeAt, LockAt
  <2>2. CASE v \notin W
    <3>1. task'[v] = task[v] /\ held'[v] = held[v] /\ disk'.names = disk.names
      BY <2>2 DEF Die
    <3>2. (lock = v => lock' = v) /\ (lock' = v => lock = v)
      BY <2>2, NoneApart DEF Die
    <3> QED BY <1>1, <3>1, <3>2 DEF ShapeAt, LockAt, File
  <2> QED BY <2>1, <2>2
<1> QED BY <1>4, <1>5 DEF TypeLockInv

\* What a power loss leaves.
LEMMA LossTypes ==
  ASSUME TypeInv, PowerLoss
  PROVE  /\ disk' \in Disks /\ Sound(disk') /\ durable' = disk'
         /\ disk'.names \in {disk.names, durable.names}
<1> DEFINE mixed == [disk EXCEPT !.receipts = durable.receipts, !.stale = durable.stale]
<1>1. disk \in Disks /\ durable \in Disks /\ Sound(disk) /\ Sound(durable)
  BY DEF TypeInv
<1>2. mixed \in Disks /\ mixed.names = disk.names
  BY <1>1 DEF Disks
<1>3. Sound(mixed)
  BY <1>1, <1>2 DEF Sound
<1>4. disk' \in {disk, durable, mixed} /\ durable' = disk'
  BY DEF PowerLoss
<1> HIDE DEF mixed
<1> QED BY <1>1, <1>2, <1>3, <1>4

LEMMA TypeLockInit == Init => TypeLockInv
<1> SUFFICES ASSUME Init PROVE TypeLockInv
  OBVIOUS
<1>1. disk \in Disks /\ disk.names = [n \in Names |-> IF n = Live THEN 1 ELSE 0]
  <2>1. 1 \in Inodes /\ NoReceipt \in Receipts
    BY NoReceiptOK, RestoreAssumption DEF Inodes, RestoreAssumption
  <2> QED BY <2>1 DEF Init, Disks, Effects
<1>2. Sound(disk)
  BY <1>1, LiveIsAName DEF Sound
<1>3. /\ 0 \in Contents /\ 0 \in 0..MaxUses /\ 0 \in 0..MaxTroubles
  BY RestoreAssumption DEF Contents, RestoreAssumption
<1>4. TypeInv
  BY <1>1, <1>2, <1>3, NoReceiptOK DEF Init, TypeInv
<1>5. ASSUME NEW w \in Windows PROVE ShapeAt(w) /\ LockAt(w)
  <2>1. task[w] = Idle /\ held[w] = NoReview /\ lock # w
    BY NoneApart DEF Init
  <2> QED BY <2>1, IdleFields DEF ShapeAt, LockAt
<1> QED BY <1>4, <1>5 DEF TypeLockInv

LEMMA TypeLockNext == TypeLockInv /\ [Next]_vars => TypeLockInv'
<1> SUFFICES ASSUME TypeLockInv, [Next]_vars PROVE TypeLockInv'
  OBVIOUS
<1>0. TypeInv
  BY DEF TypeLockInv
<1>1. ASSUME NEW w \in Windows, NEW p \in Plans,
             Prepare(w, p) \/ Confirm(w, p) \/ ReviewRollback(w, p) \/ ReadInterrupted(w, p)
      PROVE  TypeLockInv'
  BY <1>1, PrepareTypes, ConfirmTypes, ReviewRollbackTypes, ReadInterruptedTypes
<1>2. ASSUME NEW w \in Windows, Restore(w) PROVE TypeLockInv'
  BY <1>2, ExcludeTypes, RefuseTypes, ValidateTypes, BackUpTypes, StageTypes, ExchangeTypes,
     PublishAppliedTypes, SyncExchangeTypes, VerifyTypes, RemoveTypes, CompleteTypes,
     BeginRollBackTypes, ExchangeBackTypes, GiveUpTypes, CheckBackTypes DEF Restore
<1>3. ASSUME NEW w \in Windows, Rollback(w) PROVE TypeLockInv'
  BY <1>3, BeginRollbackTypes, StageRollbackTypes, RefuseRollbackTypes,
     ExchangeRollbackTypes, CheckRollbackTypes DEF Rollback
<1>4. ASSUME NEW w \in Windows, Killed(w) PROVE TypeLockInv'
  <2>1. disk \in Disks /\ durable \in Disks /\ Sound(disk) /\ Sound(durable)
    BY <1>0 DEF TypeInv
  <2> QED BY <1>4, <2>1, DieTypes DEF Killed
<1>5. ASSUME PowerLoss PROVE TypeLockInv'
  BY <1>0, <1>5, LossTypes, DieTypes DEF PowerLoss
<1>6. CASE UNCHANGED vars
  <2>1. TypeInv'
    BY <1>0, <1>6 DEF vars, TypeInv
  <2>2. ASSUME NEW v \in Windows PROVE ShapeAt(v)' /\ LockAt(v)'
    BY <1>6 DEF vars, TypeLockInv, ShapeAt, LockAt, File
  <2> QED BY <2>1, <2>2 DEF TypeLockInv
<1> QED BY <1>1, <1>2, <1>3, <1>4, <1>5, <1>6, FinaliseTypes, UseTypes DEF Next

LEMMA TypeLockAlways == Spec => []TypeLockInv
<1> QED BY TypeLockInit, TypeLockNext, PTL DEF Spec

\* The two states of the directory, the live database, the reviews and the
\* workers keep their types, whatever fails; the live path never loses its
\* file, and only a restore or a rollback holds the exclusion.
THEOREM RestoreTypeCorrect == Spec => []TypeOK
<1>1. TypeLockInv => TypeOK
  <2> SUFFICES ASSUME TypeLockInv PROVE TypeOK
    OBVIOUS
  <2>1. TypeInv
    BY DEF TypeLockInv
  <2>2. ASSUME NEW d \in {disk, durable}
        PROVE  /\ d.names \in [Names -> Inodes \cup {0}]
               /\ d.receipts \in [Plans -> Receipts]
               /\ d.effect \in [Plans -> {"none", "restored", "rolled back"}]
               /\ {d.since, d.stale} \subseteq [Plans -> BOOLEAN]
               /\ d.names[Live] # 0
               /\ \A m, n \in Names : m # n /\ d.names[m] # 0 => d.names[m] # d.names[n]
    <3>1. d \in Disks /\ Sound(d)
      BY <2>1 DEF TypeInv
    <3> QED BY <3>1 DEF Disks, Sound, Effects
  <2>3. ASSUME NEW w \in Windows
        PROVE  /\ task[w].op \in {"idle", "restore", "rollback", "finalise"}
               /\ task[w].at \in Steps
               /\ task[w].receipt \in Receipts
               /\ task[w].op = "idle" <=> task[w].plan = None
               /\ lock = w => task[w].op \in {"restore", "rollback"}
               /\ held[w].receipt.state \in {"none", "completed"}
    <3>1. task[w] \in Tasks /\ ShapeAt(w) /\ LockAt(w)
      BY <2>1 DEF TypeInv, TypeLockInv
    <3>2. NoReceipt.state = "none"
      BY DEF NoReceipt
    <3>3. task[w].op = "idle" <=> task[w].plan = None
      BY <3>1 DEF ShapeAt
    <3>4. lock = w => task[w].op \in {"restore", "rollback"}
      BY <3>1 DEF LockAt
    <3>5. held[w].receipt.state \in {"none", "completed"}
      BY <3>1, <3>2 DEF ShapeAt
    <3> QED BY <3>1, <3>3, <3>4, <3>5 DEF Tasks
  <2>4. /\ data \in [Inodes -> Contents] /\ lock \in Windows \cup {None}
        /\ displaced \subseteq Contents /\ uses <= MaxUses /\ troubles <= MaxTroubles
    BY <2>1 DEF TypeInv
  <2> QED BY <2>2, <2>3, <2>4 DEF TypeOK
<1> QED BY <1>1, TypeLockAlways, PTL

-----------------------------------------------------------------------------
(* The copies of a receipt *)

LEMMA Copies ==
  ASSUME NEW p \in Plans
  PROVE  /\ disk.receipts[p] \in CopiesOf(p) /\ durable.receipts[p] \in CopiesOf(p)
         /\ \A w \in Windows : task[w].plan = p => task[w].receipt \in CopiesOf(p)
         /\ \A w \in Windows : held[w].plan = p => held[w].receipt \in CopiesOf(p)
         /\ \A r \in CopiesOf(p) :
              \/ r = disk.receipts[p] \/ r = durable.receipts[p]
              \/ \E w \in Windows : task[w].plan = p /\ r = task[w].receipt
              \/ \E w \in Windows : held[w].plan = p /\ r = held[w].receipt
BY DEF CopiesOf

LEMMA CopiesNext ==
  ASSUME NEW p \in Plans, NEW r \in CopiesOf(p)'
  PROVE  \/ r = disk'.receipts[p] \/ r = durable'.receipts[p]
         \/ \E w \in Windows : task'[w].plan = p /\ r = task'[w].receipt
         \/ \E w \in Windows : held'[w].plan = p /\ r = held'[w].receipt
BY DEF CopiesOf

LEMMA CopyTyped ==
  ASSUME TypeInv, NEW p \in Plans, NEW r \in CopiesOf(p)
  PROVE  r \in Receipts
<1>1. disk.receipts[p] \in Receipts /\ durable.receipts[p] \in Receipts
  BY DEF TypeInv, Disks
<1>2. \A w \in Windows : task[w].receipt \in Receipts /\ held[w].receipt \in Receipts
  BY Types
<1> QED BY <1>1, <1>2, Copies

\* What a step leaves of the receipts when it writes b for the plan p.
Written(p, b) ==
  /\ \A q \in Plans : disk'.receipts[q] = disk.receipts[q] \/ (q = p /\ disk'.receipts[q] = b)
  /\ \A q \in Plans :
       durable'.receipts[q] \in {disk.receipts[q], durable.receipts[q], disk'.receipts[q]}

\* What it leaves of the workers and reviews when w goes on with a, or returns.
Worked(w, p, a) ==
  /\ \A v \in Windows \ {w} : task'[v] = task[v]
  /\ \/ task'[w] = task[w] \/ task'[w] = Idle
     \/ task'[w].plan = p /\ task'[w].receipt = a
  /\ \A v \in Windows : held'[v] = held[v] \/ held'[v] = NoReview

LEMMA CopiesFollow ==
  ASSUME NEW w \in Windows, NEW p \in Plans, NEW a, NEW b, Written(p, b), Worked(w, p, a)
  PROVE  \A q \in Plans : \A r \in CopiesOf(q)' :
           r \in CopiesOf(q) \/ (q = p /\ r \in {a, b})
<1> SUFFICES ASSUME NEW q \in Plans, NEW r \in CopiesOf(q)'
             PROVE  r \in CopiesOf(q) \/ (q = p /\ r \in {a, b})
  OBVIOUS
<1>1. disk'.receipts[q] \in CopiesOf(q) \/ (q = p /\ disk'.receipts[q] = b)
  BY Copies DEF Written
<1>2. durable'.receipts[q] \in CopiesOf(q) \/ (q = p /\ durable'.receipts[q] = b)
  BY <1>1, Copies DEF Written
<1>3. ASSUME NEW v \in Windows, task'[v].plan = q, r = task'[v].receipt
      PROVE  r \in CopiesOf(q) \/ (q = p /\ r \in {a, b})
  <2>1. CASE task'[v] = task[v]
    BY <1>3, <2>1, Copies
  <2>2. CASE task'[v] = Idle
    BY <1>3, <2>2, IdleFields, NoneApart
  <2>3. CASE task'[v].plan = p /\ task'[v].receipt = a
    BY <1>3, <2>3
  <2> QED BY <2>1, <2>2, <2>3 DEF Worked
<1>4. ASSUME NEW v \in Windows, held'[v].plan = q, r = held'[v].receipt
      PROVE  r \in CopiesOf(q) \/ (q = p /\ r \in {a, b})
  BY <1>4, Copies, IdleFields, NoneApart DEF Worked
<1> QED BY <1>1, <1>2, <1>3, <1>4, CopiesNext


LEMMA WriteWritten ==
  ASSUME NEW d \in Disks, NEW synced, d.receipts = disk.receipts,
         synced.receipts \in {disk.receipts, durable.receipts},
         NEW p \in Plans, NEW b, NEW result, WriteReceipt(d, synced, p, b, result)
  PROVE  /\ Written(p, b)
         /\ disk'.names = d.names /\ disk'.effect = d.effect
         /\ disk'.since = d.since /\ disk'.stale = d.stale
         /\ disk'.receipts[p] \in {disk.receipts[p], b}
         /\ result = "ok" => durable' = disk' /\ disk'.receipts[p] = b
         /\ result # "ok" => durable' = synced
<1>1. /\ disk'.names = d.names /\ disk'.effect = d.effect
      /\ disk'.since = d.since /\ disk'.stale = d.stale
      /\ \A q \in Plans : disk'.receipts[q] = d.receipts[q] \/ (q = p /\ disk'.receipts[q] = b)
      /\ result = "ok" => disk'.receipts[p] = b
  BY DEF WriteReceipt, Disks
<1>2. durable' = disk' \/ durable' = synced
  BY DEF WriteReceipt
<1>3. Written(p, b)
  BY <1>1, <1>2 DEF Written
<1> QED BY <1>1, <1>3 DEF WriteReceipt

\* The safety backups that copies of receipts name stay what they are.
BackupsKept ==
  \A q \in Plans : \A r \in CopiesOf(q) : Secured(r, q) => Secured(r, q)'

ExpectsKept ==
  \A q \in Plans : plan[q].expects # None => plan'[q].expects = plan[q].expects

LEMMA SecuredStays ==
  ASSUME NEW q \in Plans, NEW r \in Receipts, Secured(r, q), ExpectsKept,
         disk'.names[r.emergency] = disk.names[r.emergency],
         durable'.names[r.emergency] = disk.names[r.emergency],
         data'[disk.names[r.emergency]] = data[disk.names[r.emergency]]
  PROVE  Secured(r, q)'
BY DEF Secured, ExpectsKept

\* A name that a copy of a receipt may remove is nobody's safety backup.
Removable(n) ==
  n = Live \/ \E p \in Plans : \E s \in CopiesOf(p) : n \in {s.staged, s.rollback}

\* The names besides the live one and n are left alone, and so are their files.
Untouched(n) ==
  /\ \A m \in Names \ {Live, n} : disk'.names[m] = disk.names[m]
  /\ \A m \in Names \ {Live, n} : durable'.names[m] \in {disk.names[m], durable.names[m]}
  /\ \A m \in Names \ {Live, n} :
       disk.names[m] # 0 => data'[disk.names[m]] = data[disk.names[m]]

LEMMA SecuredUntouched ==
  ASSUME TypeInv, ExpectsKept, NEW n \in Names, Untouched(n),
         NEW q \in Plans, NEW r \in Receipts, Secured(r, q), r.emergency # n
  PROVE  Secured(r, q)'
<1>1. r.emergency \in Names \ {Live, n}
  BY DEF Secured, Receipts, Live
<1>2. /\ disk'.names[r.emergency] = disk.names[r.emergency]
      /\ durable'.names[r.emergency] = disk.names[r.emergency]
      /\ data'[disk.names[r.emergency]] = data[disk.names[r.emergency]]
  BY <1>1 DEF Untouched, Secured
<1> QED BY <1>2, SecuredStays

LEMMA BackupsUntouched ==
  ASSUME TypeInv, NamesApart, ExpectsKept, NEW n \in Names, Removable(n), Untouched(n)
  PROVE  BackupsKept
<1> SUFFICES ASSUME NEW q \in Plans, NEW r \in CopiesOf(q), Secured(r, q)
             PROVE  Secured(r, q)'
  BY DEF BackupsKept
<1>1. r \in Receipts /\ r.emergency # 0
  BY CopyTyped DEF Secured
<1>2. r.emergency # n
  BY <1>1 DEF Removable, NamesApart, Live
<1> QED BY <1>1, <1>2, SecuredUntouched

\* A step that leaves every name but the live one to the same files.
LEMMA BackupsSame ==
  ASSUME TypeInv, NamesApart, ExpectsKept, data' = data,
         disk'.names = disk.names, durable'.names \in {disk.names, durable.names}
  PROVE  BackupsKept
<1>1. Removable(Live) /\ Live \in Names
  BY LiveIsAName DEF Removable
<1>2. Untouched(Live)
  BY DEF Untouched
<1> QED BY <1>1, <1>2, BackupsUntouched

\* GoodCopy of a copy that was there.
LEMMA GoodStays ==
  ASSUME NEW q \in Plans, NEW r \in CopiesOf(q), GoodCopy(r, q), BackupsKept
  PROVE  GoodCopy(r, q)'
BY DEF GoodCopy, BackupsKept

\* The names of a copy that mentions no new one.
NamesFrom(r, s) ==
  /\ r.emergency \in {0, s.emergency}
  /\ r.staged \in {0, s.staged, s.rollback} /\ r.rollback \in {0, s.staged, s.rollback}

LEMMA NamesStay ==
  ASSUME NamesApart,
         \A q \in Plans : \A r \in CopiesOf(q)' : \E s \in CopiesOf(q) : NamesFrom(r, s)
  PROVE  NamesApart'
<1> SUFFICES ASSUME NEW p \in Plans, NEW q \in Plans,
                    NEW r \in CopiesOf(p)', NEW s \in CopiesOf(q)', r.emergency # 0
             PROVE  /\ r.emergency \notin {s.staged, s.rollback}
                    /\ p # q => r.emergency # s.emergency
  BY DEF NamesApart
<1>1. PICK r0 \in CopiesOf(p) : NamesFrom(r, r0)
  OBVIOUS
<1>2. PICK s0 \in CopiesOf(q) : NamesFrom(s, s0)
  OBVIOUS
<1>3. r0.emergency # 0 /\ r.emergency = r0.emergency
  BY <1>1 DEF NamesFrom
<1>4. /\ r0.emergency \notin {s0.staged, s0.rollback}
      /\ p # q => r0.emergency # s0.emergency
  BY <1>3 DEF NamesApart
<1> QED BY <1>2, <1>3, <1>4 DEF NamesFrom

LEMMA NamesFollow ==
  ASSUME NamesApart, NEW p \in Plans, NEW a, NEW b, NEW s \in CopiesOf(p),
         NamesFrom(a, s), NamesFrom(b, s),
         \A q \in Plans : \A r \in CopiesOf(q)' :
           r \in CopiesOf(q) \/ (q = p /\ r \in {a, b})
  PROVE  NamesApart'
<1>1. \A r : NamesFrom(r, r)
  BY DEF NamesFrom
<1>2. ASSUME NEW q \in Plans, NEW r \in CopiesOf(q)'
      PROVE  \E s0 \in CopiesOf(q) : NamesFrom(r, s0)
  BY <1>1
<1> QED BY <1>2, NamesStay

\* The step of another window leaves a worker's part of the invariant alone.
LEMMA OtherStep ==
  ASSUME TypeLockInv, NEW w \in Windows, NEW v \in Windows \ {w}, StepAt(v),
         task'[v] = task[v], BackupsKept, ExpectsKept,
         lock = v => LiveContent' = LiveContent,
         task[v].op = "restore" =>
           /\ disk'.receipts[task[v].plan] = disk.receipts[task[v].plan]
           /\ durable'.receipts[task[v].plan]
                \in {disk.receipts[task[v].plan], durable.receipts[task[v].plan]}
  PROVE  StepAt(v)'
<1>1. CASE task[v].op = "restore"
  <2>1. task[v].plan \in Plans
    BY <1>1, Busy DEF TypeLockInv
  <2>2. plan[task[v].plan].expects # None
    BY <1>1 DEF StepAt
  <2>3. plan'[task[v].plan].expects = plan[task[v].plan].expects
    BY <2>1, <2>2 DEF ExpectsKept
  <2>4. task[v].at \notin {"excluding", "refusing"} => lock = v
    BY <1>1 DEF TypeLockInv, LockAt, Unlocked
  <2>5. task[v].at = "staging" => Secured(task[v].receipt, task[v].plan)'
    <3> SUFFICES ASSUME task[v].at = "staging" PROVE Secured(task[v].receipt, task[v].plan)'
      OBVIOUS
    <3>1. PICK r : r = task[v].receipt
      OBVIOUS
    <3>2. PICK p : p = task[v].plan
      OBVIOUS
    <3>3. r \in CopiesOf(p) /\ Secured(r, p) /\ p \in Plans
      BY <1>1, <2>1, <3>1, <3>2, Copies DEF StepAt
    <3>4. Secured(r, p)'
      BY <3>3 DEF BackupsKept
    <3>5. r = task'[v].receipt /\ p = task'[v].plan
      BY <3>1, <3>2
    <3> QED BY <3>4, <3>5
  <2> QED BY <1>1, <2>2, <2>3, <2>4, <2>5 DEF StepAt
<1>2. CASE task[v].op = "rollback"
  <2>1. lock = v
    BY <1>2 DEF TypeLockInv, LockAt
  <2> QED BY <1>2, <2>1 DEF StepAt
<1>3. CASE task[v].op \notin {"restore", "rollback"}
  BY <1>3 DEF StepAt
<1> QED BY <1>1, <1>2, <1>3

-----------------------------------------------------------------------------
(* What a worker's step leaves of the others *)

\* The restores of other plans are what they were.
EffectsKept(p) ==
  \A q \in Plans \ {p} :
    disk'.effect[q] = disk.effect[q] /\ durable'.effect[q] \in {disk.effect[q], durable.effect[q]}

PlansStay ==
  \A q \in Plans : plan'[q].expects = plan[q].expects /\ plan'[q].by \in {plan[q].by, None}

\* A worker's step: it goes on with its operation or returns.
Stepped(w) ==
  /\ confirms' = confirms /\ PlansStay
  /\ \A v \in Windows \ {w} : task'[v] = task[v] /\ held'[v] = held[v]
  /\ \/ task'[w] = Idle /\ held'[w] \in {held[w], NoReview}
     \/ task'[w].op = task[w].op /\ task'[w].plan = task[w].plan /\ held'[w] = held[w]

LEMMA AloneGoes ==
  ASSUME TypeLockInv, AloneInv, NEW w \in Windows, task[w].op # "idle",
         NEW p \in Plans, task[w].plan = p, NEW b, Written(p, b), EffectsKept(p), Stepped(w),
         task'[w].op = "restore" => b.state # "completed"
  PROVE  AloneInv'
<1>1. \A v \in Windows : AloneAt(v)
  BY DEF AloneInv
<1>2. /\ \A v \in Windows : task'[v].plan \in {task[v].plan, None}
      /\ \A v \in Windows : held'[v].plan \in {held[v].plan, None}
      /\ \A v \in Windows : task'[v].op # "idle" =>
           task'[v].op = task[v].op /\ task'[v].plan = task[v].plan /\ held'[v] = held[v]
  BY IdleFields DEF Stepped
<1>3. ASSUME NEW v \in Windows PROVE AloneAt(v)'
  <2>1. CASE task'[v].op = "idle"
    BY <2>1 DEF AloneAt
  <2>2. CASE task'[v].op # "idle"
    <3>1. task'[v].op = task[v].op /\ task'[v].plan = task[v].plan /\ held'[v] = held[v]
      BY <1>2, <2>2
    <3>2. task[v].op = "restore" => task[v].plan # None
      BY NoneApart, Busy DEF TypeLockInv
    <3>3. task'[v].op = "restore" => disk'.receipts[task[v].plan].state # "completed"
      <4> SUFFICES ASSUME task[v].op = "restore"
                   PROVE  disk'.receipts[task[v].plan].state # "completed"
        BY <3>1
      <4>1. task[v].plan \in Plans /\ disk.receipts[task[v].plan].state # "completed"
        BY <1>1, Busy DEF AloneAt, TypeLockInv
      <4>2. CASE v = w
        BY <3>1, <4>1, <4>2 DEF Written
      <4>3. CASE v # w
        <5>1. task[v].plan # p
          BY <1>1, <4>3 DEF AloneAt
        <5> QED BY <4>1, <5>1 DEF Written
      <4> QED BY <4>2, <4>3
    <3> QED BY <1>1, <1>2, <3>1, <3>2, <3>3 DEF AloneAt
  <2> QED BY <2>1, <2>2
<1>4. ASSUME NEW q \in Plans
      PROVE  /\ confirms'[q] \in {0, 1}
             /\ confirms'[q] = 0 => Unconfirmed(q)'
             /\ plan'[q].by # None => plan'[q].expects # None /\ "restore" \in Buttons[plan'[q].by]
             /\ confirms'[q] # 0 => plan'[q].expects # None
  <2>1. /\ confirms[q] \in {0, 1} /\ (confirms[q] = 0 => Unconfirmed(q))
        /\ plan[q].by # None => plan[q].expects # None /\ "restore" \in Buttons[plan[q].by]
        /\ confirms[q] # 0 => plan[q].expects # None
    BY DEF AloneInv, PlanInv
  <2>2. /\ confirms'[q] = confirms[q] /\ plan'[q].expects = plan[q].expects
        /\ plan'[q].by \in {plan[q].by, None}
    BY DEF Stepped, PlansStay
  <2>3. ASSUME confirms[q] = 0 PROVE Unconfirmed(q)'
    <3>1. Unconfirmed(q) /\ q # p
      BY <2>1, <2>3 DEF Unconfirmed
    <3>2. disk'.receipts[q] = NoReceipt /\ durable'.receipts[q] = NoReceipt
      BY <3>1 DEF Unconfirmed, Written
    <3>3. disk'.effect[q] = "none" /\ durable'.effect[q] = "none"
      BY <3>1 DEF Unconfirmed, EffectsKept
    <3>4. \A v \in Windows : task'[v].plan # q /\ held'[v].plan # q
      BY <1>2, <3>1, NoneApart DEF Unconfirmed
    <3> QED BY <3>2, <3>3, <3>4 DEF Unconfirmed
  <2> QED BY <2>1, <2>2, <2>3
<1> QED BY <1>3, <1>4 DEF AloneInv, PlanInv

\* No restore of another window works on the plan of a worker.
LEMMA NoOtherRestore ==
  ASSUME TypeLockInv, AloneInv, NEW w \in Windows, task[w].op # "idle",
         NEW v \in Windows \ {w}, task[v].op = "restore"
  PROVE  task[v].plan # task[w].plan
BY DEF AloneInv, AloneAt

LEMMA GoneGoes ==
  ASSUME AloneInv, NEW w \in Windows, NEW p \in Plans, task[w].plan = p, NEW a, NEW b,
         Stepped(w),
         \A q \in Plans : \A r \in CopiesOf(q)' :
           r \in CopiesOf(q) \/ (q = p /\ r \in {a, b}),
         Gone(p) => a.staged_sha = p /\ b.staged_sha = p,
         task'[w].op = "restore" /\ task'[w].at \in Pending =>
           task[w].op = "restore" /\ task[w].at \in Pending,
         NEW q \in Plans, Gone(q)
  PROVE  Gone(q)'
<1>1. confirms'[q] # 0
  BY DEF Gone, Stepped
<1>2. ~Before(q)'
  <2> SUFFICES ASSUME NEW v \in Windows, task'[v].op = "restore", task'[v].plan = q,
                      task'[v].at \in Pending
               PROVE  Before(q)
    BY DEF Before, Gone
  <2>1. CASE v = w
    <3>1. task'[w].plan = task[w].plan
      BY <2>1, IdleFields DEF Stepped
    <3> QED BY <2>1, <3>1 DEF Before
  <2>2. CASE v # w
    BY <2>2 DEF Stepped, Before
  <2> QED BY <2>1, <2>2
<1>3. \A r \in CopiesOf(q)' : r.staged_sha = q
  BY DEF Gone
<1> QED BY <1>1, <1>2, <1>3 DEF Gone

\* A worker's step keeps the invariant, given what it must show of its own.
LEMMA KeptMoves ==
  ASSUME TypeLockInv, KeptInv, NEW w \in Windows, task[w].op # "idle",
         NEW p \in Plans, task[w].plan = p, NEW a, NEW b,
         Written(p, b), Worked(w, p, a), EffectsKept(p), Stepped(w),
         BackupsKept, NamesApart', GoodCopy(a, p)', GoodCopy(b, p)', StepAt(w)',
         lock # w => LiveContent' = LiveContent,
         \A c \in displaced' \ Plans :
           c \in displaced \/ (plan[p].expects = c /\ Gone(p)'),
         Gone(p) => a.staged_sha = p /\ b.staged_sha = p,
         task'[w].op = "restore" => b.state # "completed",
         task'[w].op = "restore" /\ task'[w].at \in Pending =>
           task[w].op = "restore" /\ task[w].at \in Pending
  PROVE  KeptInv'
<1>1. CopyInv /\ AloneInv /\ DisplacedInv
  BY DEF KeptInv
<1>2. AloneInv'
  BY <1>1, AloneGoes
<1>3. ExpectsKept
  BY DEF Stepped, PlansStay, ExpectsKept
<1>4. \A q \in Plans : \A r \in CopiesOf(q)' :
           r \in CopiesOf(q) \/ (q = p /\ r \in {a, b})
  BY CopiesFollow
<1>5. ASSUME NEW q \in Plans, NEW r \in CopiesOf(q)' PROVE GoodCopy(r, q)'
  <2>1. CASE r \in CopiesOf(q)
    BY <1>1, <2>1, GoodStays DEF CopyInv
  <2>2. CASE q = p /\ r \in {a, b}
    BY <2>2
  <2> QED BY <1>4, <2>1, <2>2
<1>6. ASSUME NEW v \in Windows PROVE StepAt(v)'
  <2>1. CASE v = w
    BY <2>1
  <2>2. CASE v # w
    <3>1. task'[v] = task[v]
      BY <2>2 DEF Stepped
    <3>2. ASSUME task[v].op = "restore"
          PROVE  /\ disk'.receipts[task[v].plan] = disk.receipts[task[v].plan]
                 /\ durable'.receipts[task[v].plan]
                      \in {disk.receipts[task[v].plan], durable.receipts[task[v].plan]}
      <4>1. task[v].plan # p /\ task[v].plan \in Plans
        BY <1>1, <2>2, <3>2, NoOtherRestore, Busy DEF TypeLockInv
      <4> QED BY <4>1 DEF Written
    <3>3. lock = v => LiveContent' = LiveContent
      BY <2>2
    <3>4. StepAt(v)
      BY <1>1 DEF CopyInv
    <3> QED BY <1>3, <2>2, <3>1, <3>2, <3>3, <3>4, OtherStep
  <2> QED BY <2>1, <2>2
<1>7. CopyInv'
  BY <1>5, <1>6 DEF CopyInv
<1>8. DisplacedInv'
  <2> SUFFICES ASSUME NEW c \in displaced' \ Plans
               PROVE  \E q \in Plans : plan'[q].expects = c /\ Gone(q)'
    BY DEF DisplacedInv
  <2>1. CASE plan[p].expects = c /\ Gone(p)'
    BY <2>1 DEF Stepped, PlansStay
  <2>2. CASE c \in displaced
    <3>1. PICK q \in Plans : plan[q].expects = c /\ Gone(q)
      BY <1>1, <2>2 DEF DisplacedInv
    <3>2. plan'[q].expects = c
      BY <3>1 DEF Stepped, PlansStay
    <3>3. Gone(q)'
      BY <1>1, <1>4, <3>1, GoneGoes
    <3> QED BY <3>2, <3>3
  <2> QED BY <2>1, <2>2
<1> QED BY <1>2, <1>7, <1>8 DEF KeptInv

\* The same for a step that takes no commit off the live path.
LEMMA KeptGoes ==
  ASSUME TypeLockInv, KeptInv, NEW w \in Windows, task[w].op # "idle",
         NEW p \in Plans, task[w].plan = p, NEW a, NEW b,
         Written(p, b), Worked(w, p, a), EffectsKept(p), Stepped(w),
         BackupsKept, NamesApart', GoodCopy(a, p)', GoodCopy(b, p)', StepAt(w)',
         lock # w => LiveContent' = LiveContent,
         displaced' \subseteq displaced \cup Plans,
         Gone(p) => a.staged_sha = p /\ b.staged_sha = p,
         task'[w].op = "restore" => b.state # "completed",
         task'[w].op = "restore" /\ task'[w].at \in Pending =>
           task[w].op = "restore" /\ task[w].at \in Pending
  PROVE  KeptInv'
<1>1. \A c \in displaced' \ Plans : c \in displaced \/ (plan[p].expects = c /\ Gone(p)')
  OBVIOUS
<1> QED BY <1>1, KeptMoves

\* A name's file is gone, or may be.
LEMMA RemovedUntouched ==
  ASSUME TypeInv, NEW n \in Names, disk'.names \in {disk.names, Without(disk, n).names},
         durable'.names \in {disk.names, durable.names, Without(disk, n).names}, data' = data
  PROVE  /\ Untouched(n)
         /\ LiveContent' = LiveContent /\ LiveFile(disk') = LiveFile(disk)
<1>1. /\ Without(disk, n).names[Live] = disk.names[Live]
      /\ \A m \in Names : m # n => Without(disk, n).names[m] = disk.names[m]
  BY Removed DEF TypeInv
<1>2. disk'.names[Live] = disk.names[Live]
  BY <1>1
<1> QED BY <1>1, <1>2 DEF Untouched, LiveContent, LiveFile

\* A name is exchanged with the live one.
LEMMA SwappedUntouched ==
  ASSUME TypeInv, NEW n \in Names, disk.names[n] # 0, NEW p \in Plans, NEW effect \in Effects,
         disk'.names \in {Exchanged(p, n, effect).names,
                          Without(Exchanged(p, n, effect), n).names},
         durable'.names \in {durable.names, disk'.names, Exchanged(p, n, effect).names},
         data' = data
  PROVE  Untouched(n)
<1> DEFINE e == Exchanged(p, n, effect)
<1>0. disk \in Disks /\ Sound(disk)
  BY DEF TypeInv
<1>1. /\ e \in Disks /\ Sound(e)
      /\ \A m \in Names \ {Live, n} : e.names[m] = disk.names[m]
  BY <1>0, Swapped
<1> HIDE DEF e
<1>2. \A m \in Names \ {Live, n} : Without(e, n).names[m] = disk.names[m]
  BY <1>1, Removed
<1> QED BY <1>1, <1>2 DEF Untouched, e

LEMMA GoStepped ==
  ASSUME TypeLockInv, NEW w \in Windows, NEW p \in Plans, task[w].plan = p,
         NEW at \in Steps, NEW a \in Receipts, Go(w, at, a),
         UNCHANGED <<confirms, plan, held>>
  PROVE  /\ Stepped(w) /\ Worked(w, p, a)
         /\ task'[w].op = task[w].op /\ task'[w].plan = p
         /\ task'[w].at = at /\ task'[w].receipt = a
<1>1. /\ task'[w].op = task[w].op /\ task'[w].plan = p
      /\ task'[w].at = at /\ task'[w].receipt = a
      /\ \A v \in Windows \ {w} : task'[v] = task[v]
  BY Moved DEF TypeLockInv
<1> QED BY <1>1 DEF Stepped, PlansStay, Worked

LEMMA ReturnStepped ==
  ASSUME TypeLockInv, NEW w \in Windows, NEW p \in Plans, Return(w),
         UNCHANGED confirms, PlansStay,
         held' = held \/ held' = [held EXCEPT ![w] = NoReview]
  PROVE  Stepped(w) /\ (\A a : Worked(w, p, a)) /\ task'[w] = Idle
<1>1. task'[w] = Idle /\ \A v \in Windows \ {w} : task'[v] = task[v]
  BY Returned DEF TypeLockInv
<1>2. /\ \A v \in Windows \ {w} : held'[v] = held[v]
      /\ held'[w] \in {held[w], NoReview}
  BY DEF TypeLockInv, TypeInv
<1> QED BY <1>1, <1>2 DEF Stepped, Worked

LEMMA IdleStep ==
  ASSUME NEW w \in Windows, task'[w] = Idle
  PROVE  StepAt(w)'
BY IdleFields DEF StepAt

\* The facts about a worker that its steps start from.
LEMMA WorkerFacts ==
  ASSUME TypeLockInv, KeptInv, NEW w \in Windows, task[w].op # "idle",
         NEW p, p = task[w].plan, NEW r, r = task[w].receipt
  PROVE  /\ TypeInv /\ p \in Plans /\ r \in Receipts /\ r \in CopiesOf(p)
         /\ GoodCopy(r, p) /\ NamesApart /\ StepAt(w) /\ AloneAt(w)
         /\ Removable(r.staged) /\ Removable(r.rollback)
         /\ r.staged \in Names /\ r.rollback \in Names /\ r.emergency \in Names
         /\ disk \in Disks /\ durable \in Disks /\ Sound(disk) /\ Sound(durable)
         /\ data \in [Inodes -> Contents]
<1>1. TypeInv /\ p \in Plans /\ r \in Receipts
  BY Types, Busy DEF TypeLockInv
<1>2. r \in CopiesOf(p)
  BY <1>1, Copies
<1>3. GoodCopy(r, p) /\ NamesApart /\ StepAt(w) /\ AloneAt(w)
  BY <1>1, <1>2 DEF KeptInv, CopyInv, AloneInv
<1>4. Removable(r.staged) /\ Removable(r.rollback)
  BY <1>1, <1>2 DEF Removable
<1>5. r.staged \in Names /\ r.rollback \in Names /\ r.emergency \in Names
  BY <1>1 DEF Receipts
<1> QED BY <1>1, <1>2, <1>3, <1>4, <1>5 DEF TypeInv

LEMMA WriteStep ==
  ASSUME NEW p \in Plans, NEW b, NEW result, NEW d \in Disks, NEW synced \in Disks,
         d.receipts = disk.receipts, synced.receipts \in {disk.receipts, durable.receipts},
         \A q \in Plans \ {p} : d.effect[q] = disk.effect[q],
         \A q \in Plans \ {p} : synced.effect[q] \in {disk.effect[q], durable.effect[q]},
         WriteReceipt(d, synced, p, b, result)
  PROVE  /\ Written(p, b) /\ EffectsKept(p)
         /\ disk'.names = d.names /\ durable'.names \in {d.names, synced.names}
<1>1. Written(p, b) /\ disk'.names = d.names /\ disk'.effect = d.effect
  BY WriteWritten
<1>2. durable' = disk' \/ durable' = synced
  BY DEF WriteReceipt
<1> QED BY <1>1, <1>2 DEF EffectsKept

LEMMA NothingWritten ==
  ASSUME NEW p \in Plans, NEW b, disk'.receipts = disk.receipts, disk'.effect = disk.effect,
         durable' \in {durable, disk'}
  PROVE  Written(p, b) /\ EffectsKept(p)
BY DEF Written, EffectsKept

\* A copy before anything is staged promises nothing.
LEMMA GoodBare ==
  ASSUME NEW p \in Plans, NEW a, a.staged_sha = None, a.applied_sha \in {None, p},
         a.replacement = 0, a.state # "completed"
  PROVE  GoodCopy(a, p)'
BY NoneApart DEF GoodCopy

LEMMA GoodLater ==
  ASSUME NEW p \in Plans, NEW r \in CopiesOf(p), GoodCopy(r, p), r.staged_sha = p, BackupsKept,
         NEW a, a.emergency = r.emergency, a.emergency_sha = r.emergency_sha,
         a.staged_sha = p, a.applied_sha \in {None, p},
         a.state = "completed" => a.applied_sha = p /\ a.intact = "no"
  PROVE  GoodCopy(a, p)'
<1>1. Secured(r, p)'
  BY NoneApart DEF GoodCopy, BackupsKept
<1>2. Secured(a, p)'
  BY <1>1 DEF Secured
<1> QED BY <1>2 DEF GoodCopy

Bare(a, p) ==
  /\ a.staged_sha = None /\ a.applied_sha \in {None, p}
  /\ a.replacement = 0 /\ a.state # "completed"

LEMMA BareOpen == \A a, p : Bare(a, p) => a.state # "completed"
BY DEF Bare

\* A restore goes on, or to its refusal, before anything is staged.
LEMMA EarlyGoes ==
  ASSUME TypeLockInv, KeptInv, NEW w \in Windows, task[w].op = "restore", task[w].at \in Pending,
         NEW p, p = task[w].plan, NEW r, r = task[w].receipt,
         NEW at \in Early \ {"backing up", "staging"}, NEW a \in Receipts, Go(w, at, a),
         Bare(a, p), NEW b, GoodCopy(b, p)', b.state # "completed",
         Written(p, b), EffectsKept(p), BackupsKept, NamesApart',
         lock # w => LiveContent' = LiveContent,
         UNCHANGED <<confirms, plan, held, displaced>>
  PROVE  KeptInv'
<1>1. p \in Plans /\ StepAt(w)
  BY WorkerFacts
<1>2. at \in Steps
  BY DEF Early, Steps
<1>3. /\ Stepped(w) /\ Worked(w, p, a)
      /\ task'[w].op = task[w].op /\ task'[w].plan = p
      /\ task'[w].at = at /\ task'[w].receipt = a
  BY <1>1, <1>2, GoStepped
<1>4. GoodCopy(a, p)'
  BY <1>1, GoodBare DEF Bare
<1>5. StepAt(w)'
  <2>1. plan'[p].expects # None
    BY <1>1 DEF StepAt
  <2>2. /\ at \in Early /\ at \notin {"backing up", "staging", "exchanging"}
        /\ task'[w].op # "rollback"
    BY <1>3 DEF Early
  <2> QED BY <1>3, <2>1, <2>2 DEF StepAt, Bare
<1>6. ~Gone(p)
  BY <1>1 DEF Gone, Before
<1> QED BY <1>1, <1>3, <1>4, <1>5, <1>6, KeptGoes

\* A copy with no more names than another of its plan.
LEMMA NamesOld ==
  ASSUME TypeLockInv, KeptInv, NEW w \in Windows, task[w].op # "idle",
         NEW p, p = task[w].plan, NEW r, r = task[w].receipt,
         NEW a, NEW b, NamesFrom(a, r), NamesFrom(b, r),
         Written(p, b), Worked(w, p, a)
  PROVE  NamesApart'
<1>1. p \in Plans /\ r \in CopiesOf(p) /\ NamesApart
  BY WorkerFacts
<1>2. \A q \in Plans : \A s \in CopiesOf(q)' : s \in CopiesOf(q) \/ (q = p /\ s \in {a, b})
  BY <1>1, CopiesFollow
<1> QED BY <1>1, <1>2, NamesFollow

LEMMA ExcludeKept ==
  ASSUME TypeLockInv, KeptInv, NEW w \in Windows, Exclude(w)
  PROVE  KeptInv'
<1>1. PICK p, r, l : p = task[w].plan /\ r = task[w].receipt /\ l = LiveFile(disk)
  OBVIOUS
<1> DEFINE b == [r EXCEPT !.original = l]
<1>2. task[w].op = "restore" /\ task[w].at = "excluding"
  BY DEF Exclude, At
<1>3. /\ TypeInv /\ p \in Plans /\ r \in Receipts /\ GoodCopy(r, p) /\ StepAt(w) /\ NamesApart
      /\ l \in Inodes
  BY <1>1, <1>2, WorkerFacts, Types
<1>4. Bare(r, p)
  BY <1>1, <1>2, <1>3, NoneApart DEF StepAt, GoodCopy, Bare, Early
<1>5. b \in Receipts /\ Bare(b, p) /\ NamesFrom(b, r) /\ NamesFrom(r, r)
  BY <1>3, <1>4 DEF Receipts, Bare, NamesFrom
<1>6. /\ UNCHANGED <<disk, durable, data, confirms, plan, held, displaced>>
      /\ Go(w, "validating", b) \/ Go(w, "refusing", r)
  BY <1>1 DEF Exclude, Same
<1> HIDE DEF b
<1>7. Written(p, r) /\ EffectsKept(p)
  BY <1>3, <1>6, NothingWritten
<1>8. BackupsKept
  BY <1>3, <1>6, BackupsSame DEF ExpectsKept
<1>9. GoodCopy(r, p)'
  BY <1>3, <1>4, GoodBare DEF Bare
<1>10. LiveContent' = LiveContent
  BY <1>6 DEF LiveContent, LiveFile
<1>11. ASSUME NEW a \in {r, b}, NEW at \in {"validating", "refusing"}, Go(w, at, a)
       PROVE  KeptInv'
  <2>1. at \in Early \ {"backing up", "staging"} /\ at \in Steps /\ a \in Receipts
        /\ Bare(a, p) /\ NamesFrom(a, r)
    BY <1>3, <1>4, <1>5 DEF Early, Steps
  <2>2. Worked(w, p, a)
    BY <1>1, <1>3, <1>6, <1>11, <2>1, GoStepped
  <2>3. NamesApart'
    BY <1>1, <1>2, <1>5, <1>7, <2>1, <2>2, NamesOld
  <2>4. task[w].at \in Pending
    BY <1>2 DEF Pending, Early
  <2> QED BY <1>1, <1>2, <1>4, <1>6, <1>7, <1>8, <1>9, <1>10, <1>11, <2>1, <2>3, <2>4, EarlyGoes, BareOpen
<1> QED BY <1>6, <1>11

LEMMA KeptReturns ==
  ASSUME TypeLockInv, KeptInv, NEW w \in Windows, task[w].op # "idle",
         NEW p, p = task[w].plan, NEW r, r = task[w].receipt, Return(w),
         UNCHANGED <<confirms, displaced>>, PlansStay,
         held' = held \/ held' = [held EXCEPT ![w] = NoReview],
         NEW b, NamesFrom(b, r), GoodCopy(b, p)', Gone(p) => b.staged_sha = p,
         Written(p, b), EffectsKept(p), BackupsKept,
         lock # w => LiveContent' = LiveContent
  PROVE  KeptInv'
<1>1. p \in Plans
  BY WorkerFacts
<1>2. Stepped(w) /\ Worked(w, p, b) /\ task'[w] = Idle
  BY <1>1, ReturnStepped
<1>3. NamesApart'
  BY <1>2, NamesOld
<1>4. StepAt(w)'
  BY <1>2, IdleStep
<1>5. task'[w].op # "restore"
  BY <1>2, IdleFields
<1> QED BY <1>1, <1>2, <1>3, <1>4, <1>5, KeptGoes

LEMMA PlansSame ==
  ASSUME plan' = plan
  PROVE  PlansStay /\ ExpectsKept
BY DEF PlansStay, ExpectsKept

LEMMA StaysExpected == PlansStay => ExpectsKept
BY DEF PlansStay, ExpectsKept

LEMMA RefuseKept ==
  ASSUME TypeLockInv, KeptInv, NEW w \in Windows, Refuse(w)
  PROVE  KeptInv'
<1>1. PICK p, r : p = task[w].plan /\ r = task[w].receipt
  OBVIOUS
<1> DEFINE b == [r EXCEPT !.state = "failed", !.intact = "yes"]
<1>2. task[w].op = "restore" /\ task[w].at = "refusing"
  BY DEF Refuse, At
<1>3. /\ TypeInv /\ p \in Plans /\ r \in Receipts /\ GoodCopy(r, p) /\ StepAt(w) /\ NamesApart
      /\ disk \in Disks /\ durable \in Disks
  BY <1>1, <1>2, WorkerFacts
<1>4. Bare(b, p) /\ NamesFrom(b, r)
  BY <1>1, <1>2, <1>3, NoneApart DEF StepAt, GoodCopy, Bare, Early, Receipts, NamesFrom
<1>5. PICK result \in Writes : WriteReceipt(disk, durable, p, b, result)
  BY <1>1 DEF Refuse
<1>6. Return(w) /\ UNCHANGED <<data, confirms, plan, held, displaced>>
  BY DEF Refuse, Same
<1> HIDE DEF b
<1>7. /\ Written(p, b) /\ EffectsKept(p)
      /\ disk'.names = disk.names /\ durable'.names \in {disk.names, durable.names}
  BY <1>3, <1>5, WriteStep
<1>8. BackupsKept /\ PlansStay
  BY <1>3, <1>6, <1>7, BackupsSame, PlansSame
<1>9. GoodCopy(b, p)'
  BY <1>3, <1>4, GoodBare DEF Bare
<1>10. LiveContent' = LiveContent
  BY <1>6, <1>7 DEF LiveContent, LiveFile
<1>11. ~Gone(p)
  BY <1>1, <1>2 DEF Gone, Before, Pending, Early
<1> QED BY <1>1, <1>2, <1>4, <1>6, <1>7, <1>8, <1>9, <1>10, <1>11, KeptReturns

\* New names that no record mentions keep the names apart.
LEMMA NamesFresh ==
  ASSUME TypeInv, NamesApart, NEW p \in Plans, NEW r \in CopiesOf(p), NEW a,
         \/ /\ a.emergency \in FreeNames /\ a.staged \in FreeNames
            /\ a.emergency # a.staged /\ a.rollback \in {0, r.rollback}
         \/ /\ a.rollback \in FreeNames /\ a.emergency = r.emergency /\ a.staged = r.staged,
         \A q \in Plans : \A s \in CopiesOf(q)' :
           s \in CopiesOf(q) \/ (q = p /\ s = a)
  PROVE  NamesApart'
<1>1. \A q \in Plans : \A s \in CopiesOf(q) : s \in Known
  BY Copies DEF Known
<1>2. ASSUME NEW n \in FreeNames, NEW q \in Plans, NEW s \in CopiesOf(q)
      PROVE  n # 0 /\ n \notin {s.emergency, s.staged, s.rollback}
  BY <1>1 DEF FreeNames, Live
<1>3. \A n \in FreeNames : n # 0
  BY DEF FreeNames, Live
<1>4. ASSUME NEW q \in Plans, NEW s \in CopiesOf(q)
      PROVE  /\ s.emergency # 0 => s.emergency \notin {a.staged, a.rollback}
             /\ a.emergency # 0 => a.emergency \notin {s.staged, s.rollback}
             /\ q # p /\ s.emergency # 0 => s.emergency # a.emergency
             /\ q # p /\ a.emergency # 0 => a.emergency # s.emergency
  <2>1. /\ s.emergency # 0 => s.emergency \notin {r.staged, r.rollback}
        /\ r.emergency # 0 => r.emergency \notin {s.staged, s.rollback}
        /\ q # p /\ s.emergency # 0 => s.emergency # r.emergency
        /\ q # p /\ r.emergency # 0 => r.emergency # s.emergency
    BY DEF NamesApart
  <2>2. CASE /\ a.emergency \in FreeNames /\ a.staged \in FreeNames
             /\ a.emergency # a.staged /\ a.rollback \in {0, r.rollback}
    BY <1>2, <2>1, <2>2
  <2>3. CASE /\ a.rollback \in FreeNames /\ a.emergency = r.emergency /\ a.staged = r.staged
    BY <1>2, <2>1, <2>3
  <2> QED BY <2>2, <2>3
<1>5. a.emergency # 0 => a.emergency \notin {a.staged, a.rollback}
  <2>1. r.emergency # 0 => r.emergency \notin {r.staged, r.rollback}
    BY DEF NamesApart
  <2> QED BY <1>2, <1>3, <2>1
<1> SUFFICES ASSUME NEW p1 \in Plans, NEW q1 \in Plans,
                    NEW s \in CopiesOf(p1)', NEW t \in CopiesOf(q1)', s.emergency # 0
             PROVE  /\ s.emergency \notin {t.staged, t.rollback}
                    /\ p1 # q1 => s.emergency # t.emergency
  BY DEF NamesApart
<1>6. CASE s \in CopiesOf(p1) /\ t \in CopiesOf(q1)
  BY <1>6 DEF NamesApart
<1>7. CASE s \in CopiesOf(p1) /\ q1 = p /\ t = a
  BY <1>4, <1>7
<1>8. CASE p1 = p /\ s = a /\ t \in CopiesOf(q1)
  BY <1>4, <1>8
<1>9. CASE p1 = p /\ s = a /\ q1 = p /\ t = a
  BY <1>5, <1>9
<1> QED BY <1>6, <1>7, <1>8, <1>9

LEMMA ValidateKept ==
  ASSUME TypeLockInv, KeptInv, NEW w \in Windows, Validate(w)
  PROVE  KeptInv'
<1>1. PICK p, r : p = task[w].plan /\ r = task[w].receipt
  OBVIOUS
<1>2. /\ task[w].op = "restore" /\ task[w].at = "validating"
      /\ At(w, "restore", "validating")
  BY DEF Validate, At
<1>3. /\ TypeInv /\ p \in Plans /\ r \in Receipts /\ r \in CopiesOf(p)
      /\ GoodCopy(r, p) /\ StepAt(w) /\ NamesApart /\ disk \in Disks /\ durable \in Disks
  BY <1>1, <1>2, WorkerFacts
<1>4. Bare(r, p) /\ NamesFrom(r, r) /\ plan[p].expects # None
  BY <1>1, <1>2, <1>3, NoneApart DEF StepAt, GoodCopy, Bare, Early, NamesFrom
<1>5. UNCHANGED <<data, confirms, plan, held, displaced, lock>>
  BY DEF Validate, Same
<1>6. lock = w
  BY <1>2, AtRestore DEF Unlocked
<1>7. task[w].at \in Pending /\ ~Gone(p)
  BY <1>1, <1>2 DEF Gone, Before, Pending, Early
<1>8. ASSUME Go(w, "refusing", r), UNCHANGED <<disk, durable>>
      PROVE  KeptInv'
  <2>1. Written(p, r) /\ EffectsKept(p)
    BY <1>3, <1>8, NothingWritten
  <2>2. BackupsKept
    BY <1>3, <1>5, <1>8, BackupsSame, PlansSame
  <2>3. GoodCopy(r, p)'
    BY <1>3, <1>4, GoodBare DEF Bare
  <2>4. "refusing" \in Early \ {"backing up", "staging"} /\ "refusing" \in Steps
    BY DEF Early, Steps
  <2>5. Worked(w, p, r)
    BY <1>1, <1>3, <1>5, <1>8, <2>4, GoStepped
  <2>6. NamesApart'
    BY <1>1, <1>2, <1>4, <2>1, <2>5, NamesOld
  <2> QED BY <1>1, <1>2, <1>3, <1>4, <1>5, <1>6, <1>7, <1>8, <2>1, <2>2, <2>3, <2>4, <2>6, EarlyGoes, BareOpen
<1>9. ASSUME NEW e \in FreeNames, NEW s \in FreeNames, NEW result \in Writes, e < s, Fresh(w),
             LET a == [r EXCEPT !.emergency = e, !.staged = s] IN
             /\ WriteReceipt(disk, durable, p, a, result)
             /\ Go(w, IF result = "ok" THEN "backing up" ELSE "refusing", a)
      PROVE  KeptInv'
  <2> DEFINE a == [r EXCEPT !.emergency = e, !.staged = s]
             at == IF result = "ok" THEN "backing up" ELSE "refusing"
  <2>1. WriteReceipt(disk, durable, p, a, result) /\ Go(w, at, a)
    BY <1>9
  <2>2. /\ a \in Receipts /\ Bare(a, p) /\ a.emergency = e /\ a.staged = s
        /\ a.rollback = r.rollback
    <3>1. e \in Names /\ s \in Names
      BY DEF FreeNames
    <3>2. a \in Receipts
      BY <1>3, <3>1 DEF Receipts
    <3>3. /\ a.emergency = e /\ a.staged = s /\ a.rollback = r.rollback
          /\ a.staged_sha = r.staged_sha /\ a.applied_sha = r.applied_sha
          /\ a.replacement = r.replacement /\ a.state = r.state
      BY <1>3 DEF Receipts
    <3> QED BY <1>4, <3>2, <3>3 DEF Bare
  <2>3. /\ at \in {"backing up", "refusing"} /\ at \in Steps /\ at \in Pending
        /\ at \in Early /\ at \notin {"staging", "exchanging"}
    BY DEF Steps, Pending, Early
  <2> HIDE DEF a, at
  <2>4. /\ Written(p, a) /\ EffectsKept(p)
        /\ disk'.names = disk.names /\ durable'.names \in {disk.names, durable.names}
    BY <1>3, <2>1, WriteStep
  <2>5. BackupsKept
    BY <1>3, <1>5, <2>4, BackupsSame, PlansSame
  <2>6. GoodCopy(a, p)'
    BY <1>3, <2>2, GoodBare DEF Bare
  <2>7. /\ Stepped(w) /\ Worked(w, p, a)
        /\ task'[w].op = task[w].op /\ task'[w].plan = p
        /\ task'[w].at = at /\ task'[w].receipt = a
    <3>1. /\ Go(w, at, a) /\ at \in Steps /\ a \in Receipts /\ p \in Plans
          /\ task[w].plan = p /\ UNCHANGED <<confirms, plan, held>>
      BY <1>1, <1>3, <1>5, <2>1, <2>2, <2>3
    <3> QED BY <3>1, GoStepped
  <2>8. \A q \in Plans : \A c \in CopiesOf(q)' : c \in CopiesOf(q) \/ (q = p /\ c \in {a, a})
    BY <1>3, <2>4, <2>7, CopiesFollow
  <2>9. e # s
    <3>1. e \in Nat /\ s \in Nat
      BY LiveIsAName DEF FreeNames
    <3>2. e < s
      BY <1>9
    <3> QED BY <3>1, <3>2
  <2>10. NamesApart'
    BY <1>3, <2>2, <2>8, <2>9, NamesFresh
  <2>11. LiveContent' = LiveContent
    BY <1>5, <2>4 DEF LiveContent, LiveFile
  <2>12. StepAt(w)'
    <3>1. plan'[p].expects = plan[p].expects /\ LiveContent = plan[p].expects
      BY <1>1, <1>5, <1>9 DEF Fresh
    <3>2. a.staged_sha = None /\ a.replacement = 0 /\ a.state # "completed"
      BY <2>2 DEF Bare
    <3>3. task'[w].op = "restore" /\ LiveContent' = plan'[p].expects /\ plan'[p].expects # None
      BY <1>2, <1>4, <2>7, <2>11, <3>1
    <3> QED BY <2>3, <2>7, <3>2, <3>3 DEF StepAt
  <2> QED BY <1>1, <1>2, <1>3, <1>5, <1>7, <2>4, <2>5, <2>6, <2>7, <2>10, <2>11, <2>12, <2>2, BareOpen, KeptGoes
<1> QED BY <1>1, <1>8, <1>9 DEF Validate

\* The copy i under the name is on record as a, or only its content is left.
Copied(w, p, name, content, a, next, without, i) ==
  /\ \A m \in Names : disk.names[m] # i /\ durable.names[m] # i
  /\ data' = [data EXCEPT ![i] = content]
  /\ Written(p, a) /\ EffectsKept(p)
  /\ disk'.since = disk.since /\ disk'.stale = disk.stale /\ disk'.effect = disk.effect
  /\ Untouched(name)
  /\ \/ /\ Go(w, next, a)
        /\ disk'.names = [disk.names EXCEPT ![name] = i]
        /\ durable' = disk' /\ disk'.receipts[p] = a
     \/ /\ Go(w, "refusing", without)
        /\ disk'.names = disk.names /\ durable' = durable

\* A copy is made under a name, or the call is on its way to its refusal.
LEMMA CopyMade ==
  ASSUME TypeLockInv, NEW w \in Windows, NEW p \in Plans, task[w].plan = p,
         NEW name \in Names, NEW content, NEW receipt, NEW next, NEW without,
         CopyRecorded(w, name, content, receipt, next, without), PlansStay
  PROVE  \/ Go(w, "refusing", without) /\ UNCHANGED <<disk, durable, data>>
         \/ \E i \in Inodes : Copied(w, p, name, content, receipt[i], next, without, i)
<1>1. /\ TypeInv /\ disk \in Disks /\ durable \in Disks /\ Sound(disk) /\ Sound(durable)
      /\ data \in [Inodes -> Contents]
  BY DEF TypeLockInv, TypeInv
<1>2. CASE Go(w, "refusing", without) /\ UNCHANGED <<disk, durable, data>>
  BY <1>2
<1>3. ASSUME NEW i \in Inodes, NEW result \in Writes, NewInode(i),
             data' = [data EXCEPT ![i] = content],
             LET d == [disk EXCEPT !.names[name] = i] IN
             IF result = "ok"
             THEN /\ WriteReceipt(d, durable, task[w].plan, receipt[i], result)
                  /\ Go(w, next, receipt[i])
             ELSE /\ WriteReceipt(disk, durable, task[w].plan, receipt[i], result)
                  /\ Go(w, "refusing", without)
      PROVE  Copied(w, p, name, content, receipt[i], next, without, i)
  <2> DEFINE d == [disk EXCEPT !.names[name] = i]
  <2>1. \A m \in Names : disk.names[m] # i /\ durable.names[m] # i
    BY <1>1, <1>3, FreshInode
  <2>2. /\ d \in Disks /\ d.names = [disk.names EXCEPT ![name] = i]
        /\ d.receipts = disk.receipts /\ d.effect = disk.effect
        /\ d.since = disk.since /\ d.stale = disk.stale
    BY <1>1 DEF Disks
  <2>3. \A m \in Names : disk.names[m] # 0 => data'[disk.names[m]] = data[disk.names[m]]
    BY <1>1, <1>3, <2>1 DEF Disks
  <2>4. CASE result = "ok"
    <3>1. WriteReceipt(d, durable, p, receipt[i], result) /\ Go(w, next, receipt[i])
      BY <1>3, <2>4
    <3> HIDE DEF d
    <3>2. /\ Written(p, receipt[i]) /\ EffectsKept(p)
      BY <1>1, <2>2, <3>1, WriteStep
    <3>3. /\ disk'.names = d.names /\ disk'.effect = d.effect
          /\ disk'.since = d.since /\ disk'.stale = d.stale
          /\ durable' = disk' /\ disk'.receipts[p] = receipt[i]
      BY <1>1, <2>2, <2>4, <3>1, WriteWritten
    <3>4. \A m \in Names \ {name} : disk'.names[m] = disk.names[m]
      BY <1>1, <2>2, <3>3 DEF Disks
    <3>5. Untouched(name)
      BY <2>3, <3>3, <3>4 DEF Untouched
    <3> QED BY <1>3, <2>1, <2>2, <3>1, <3>2, <3>3, <3>5 DEF Copied
  <2>5. CASE result # "ok"
    <3>1. WriteReceipt(disk, durable, p, receipt[i], result) /\ Go(w, "refusing", without)
      BY <1>3, <2>5
    <3>2. /\ Written(p, receipt[i]) /\ EffectsKept(p)
      BY <1>1, <3>1, WriteStep
    <3>3. /\ disk'.names = disk.names /\ disk'.effect = disk.effect
          /\ disk'.since = disk.since /\ disk'.stale = disk.stale
          /\ durable' = durable
      BY <1>1, <2>5, <3>1, WriteWritten
    <3>4. Untouched(name)
      BY <2>3, <3>3 DEF Untouched
    <3> QED BY <1>3, <2>1, <3>1, <3>2, <3>3, <3>4 DEF Copied
  <2> QED BY <2>4, <2>5
<1> QED BY <1>2, <1>3 DEF CopyRecorded

\* Whatever became of a copy, the live database is what it was.
LEMMA LiveKept ==
  ASSUME TypeInv, NEW name \in Names \ {Live}, NEW i \in Inodes,
         \A m \in Names : disk.names[m] # i, NEW content,
         data' = [data EXCEPT ![i] = content],
         disk'.names = disk.names \/ disk'.names = [disk.names EXCEPT ![name] = i]
  PROVE  LiveContent' = LiveContent /\ LiveFile(disk') = LiveFile(disk)
<1>1. disk'.names[Live] = disk.names[Live]
  BY LiveIsAName DEF TypeInv, Disks
<1>2. disk.names[Live] # i /\ disk.names[Live] \in Inodes
  BY LiveIsAName, Types DEF TypeInv, Disks, Sound
<1> QED BY <1>1, <1>2 DEF TypeInv, LiveContent, LiveFile

LEMMA BackUpKept ==
  ASSUME TypeLockInv, KeptInv, NEW w \in Windows, BackUp(w)
  PROVE  KeptInv'
<1>1. PICK p, r, c : p = task[w].plan /\ r = task[w].receipt /\ c = LiveContent
  OBVIOUS
<1> DEFINE made == [i \in Inodes |-> [r EXCEPT !.emergency_sha = c,
                                               !.state = "emergency_created"]]
           without == [r EXCEPT !.emergency = 0]
<1>2. /\ task[w].op = "restore" /\ task[w].at = "backing up"
      /\ At(w, "restore", "backing up")
  BY DEF BackUp, At
<1>3. /\ TypeInv /\ p \in Plans /\ r \in Receipts /\ r \in CopiesOf(p)
      /\ GoodCopy(r, p) /\ StepAt(w) /\ NamesApart /\ disk \in Disks /\ durable \in Disks
      /\ r.emergency \in Names /\ data \in [Inodes -> Contents]
  BY <1>1, <1>2, WorkerFacts
<1>4. /\ Bare(r, p) /\ plan[p].expects # None /\ c = plan[p].expects
  BY <1>1, <1>2, <1>3, NoneApart DEF StepAt, GoodCopy, Bare, Early
<1>5. UNCHANGED <<confirms, plan, held, displaced, lock>>
  BY DEF BackUp, Same
<1>6. lock = w
  BY <1>2, AtRestore DEF Unlocked
<1>7. task[w].at \in Pending /\ ~Gone(p)
  BY <1>1, <1>2 DEF Gone, Before, Pending, Early
<1>8. r.emergency # 0 /\ r.staged # 0
  BY <1>1, <1>2 DEF TypeLockInv, LockAt
<1>9. /\ \A i \in Inodes : /\ made[i] \in Receipts /\ Bare(made[i], p) /\ NamesFrom(made[i], r)
                           /\ made[i].emergency_sha = c /\ made[i].emergency = r.emergency
      /\ without \in Receipts /\ Bare(without, p) /\ NamesFrom(without, r)
  <2>1. c \in Contents
    BY <1>1, <1>3, <1>2, Types
  <2>2. r \in Receipts /\ Bare(r, p)
    BY <1>3, <1>4
  <2>3. ASSUME NEW i \in Inodes
        PROVE  /\ made[i] \in Receipts /\ Bare(made[i], p) /\ NamesFrom(made[i], r)
               /\ made[i].emergency_sha = c /\ made[i].emergency = r.emergency
    <3> DEFINE m == [r EXCEPT !.emergency_sha = c, !.state = "emergency_created"]
    <3>1. m \in Receipts
      BY <2>1, <2>2 DEF Receipts, States
    <3>2. /\ m.emergency = r.emergency /\ m.staged = r.staged /\ m.rollback = r.rollback
          /\ m.staged_sha = r.staged_sha /\ m.applied_sha = r.applied_sha
          /\ m.replacement = r.replacement /\ m.state = "emergency_created"
          /\ m.emergency_sha = c
      BY <2>2 DEF Receipts
    <3>3. made[i] = m
      OBVIOUS
    <3> HIDE DEF m, made
    <3> QED BY <2>2, <3>1, <3>2, <3>3 DEF Bare, NamesFrom
  <2>4. without \in Receipts /\ Bare(without, p) /\ NamesFrom(without, r)
    <3>1. without \in Receipts
      BY <2>2, LiveIsAName DEF Receipts, Live
    <3>2. /\ without.emergency = 0 /\ without.staged = r.staged /\ without.rollback = r.rollback
          /\ without.staged_sha = r.staged_sha /\ without.applied_sha = r.applied_sha
          /\ without.replacement = r.replacement /\ without.state = r.state
      BY <2>2 DEF Receipts
    <3> HIDE DEF without
    <3> QED BY <2>2, <3>1, <3>2 DEF Bare, NamesFrom
  <2> QED BY <2>3, <2>4
<1>10. CopyRecorded(w, r.emergency, c, made, "staging", without)
  BY <1>1 DEF BackUp
<1>11. PlansStay /\ ExpectsKept
  BY <1>5, PlansSame
<1>12. "refusing" \in Early \ {"backing up", "staging"} /\ "refusing" \in Steps
       /\ "staging" \in Steps /\ "staging" \in Early /\ "staging" \in Pending
  BY DEF Early, Steps, Pending
<1> HIDE DEF made, without
<1>13. ASSUME Go(w, "refusing", without), UNCHANGED <<disk, durable, data>>
       PROVE  KeptInv'
  <2>1. /\ Written(p, without) /\ EffectsKept(p)
    BY <1>3, <1>13, NothingWritten
  <2>2. BackupsKept
    BY <1>3, <1>11, <1>13, BackupsSame
  <2>3. GoodCopy(without, p)'
    BY <1>3, <1>9, GoodBare DEF Bare
  <2>4. Worked(w, p, without)
    BY <1>1, <1>3, <1>5, <1>9, <1>12, <1>13, GoStepped
  <2>5. NamesApart'
    BY <1>1, <1>2, <1>9, <2>1, <2>4, NamesOld
  <2> QED BY <1>1, <1>2, <1>5, <1>6, <1>7, <1>9, <1>12, <1>13, <2>1, <2>2, <2>3, <2>5, EarlyGoes, BareOpen
<1>14. ASSUME NEW i \in Inodes, NEW m, m = made[i],
              Copied(w, p, r.emergency, c, m, "staging", without, i)
       PROVE  KeptInv'
  <2>0. /\ \A n \in Names : disk.names[n] # i /\ durable.names[n] # i
        /\ data' = [data EXCEPT ![i] = c]
        /\ Written(p, m) /\ EffectsKept(p) /\ Untouched(r.emergency)
        /\ \/ /\ Go(w, "staging", m)
              /\ disk'.names = [disk.names EXCEPT ![r.emergency] = i]
              /\ durable' = disk' /\ disk'.receipts[p] = m
           \/ /\ Go(w, "refusing", without)
              /\ disk'.names = disk.names /\ durable' = durable
    BY <1>14 DEF Copied
  <2>1. /\ m \in Receipts /\ Bare(m, p) /\ NamesFrom(m, r)
        /\ m.emergency_sha = c /\ m.emergency = r.emergency
    BY <1>9, <1>14
  <2>3. BackupsKept
    <3> SUFFICES ASSUME NEW q \in Plans, NEW s \in CopiesOf(q), Secured(s, q)
                 PROVE  Secured(s, q)'
      BY DEF BackupsKept
    <3>1. s \in Receipts /\ s.emergency # 0
      BY <1>3, CopyTyped DEF Secured
    <3>2. CASE s.emergency # r.emergency
      BY <1>3, <1>11, <2>0, <3>1, <3>2, SecuredUntouched
    <3>3. CASE s.emergency = r.emergency
      <4>1. q = p
        BY <1>3, <1>8, <3>3 DEF NamesApart
      <4>2. CASE /\ disk'.names = [disk.names EXCEPT ![r.emergency] = i]
                 /\ durable' = disk'
        <5>1. disk'.names[s.emergency] = i /\ durable'.names[s.emergency] = i /\ i # 0
          BY <1>3, <3>3, <4>2 DEF Disks, Inodes
        <5>2. data'[i] = plan[q].expects /\ plan'[q].expects = plan[q].expects
          BY <1>3, <1>4, <1>11, <2>0, <4>1 DEF ExpectsKept
        <5> QED BY <5>1, <5>2 DEF Secured
      <4>3. CASE disk'.names = disk.names /\ durable' = durable
        <5>1. data'[disk.names[s.emergency]] = data[disk.names[s.emergency]]
          BY <1>3, <2>0, <3>3 DEF Disks
        <5> QED BY <1>11, <3>1, <4>3, <5>1, SecuredStays DEF Secured
      <4> QED BY <2>0, <4>2, <4>3
    <3> QED BY <3>2, <3>3
  <2>4. GoodCopy(m, p)'
    BY <1>3, <2>1, GoodBare DEF Bare
  <2>5. LiveContent' = LiveContent
    <3>1. r.emergency \in Names \ {Live}
      BY <1>3, <1>8 DEF Live
    <3> QED BY <1>3, <2>0, <3>1, LiveKept
  <2>6. CASE Go(w, "refusing", without)
    <3>1. Worked(w, p, without)
      BY <1>1, <1>3, <1>5, <1>9, <1>12, <2>6, GoStepped
    <3>2. NamesApart'
      BY <1>1, <1>2, <1>9, <2>0, <2>1, <3>1, NamesOld
    <3> QED BY <1>1, <1>2, <1>5, <1>6, <1>7, <1>9, <1>12, <2>0, <2>1, <2>3, <2>4, <2>6, <3>2, EarlyGoes, BareOpen
  <2>7. CASE /\ Go(w, "staging", m)
             /\ disk'.names = [disk.names EXCEPT ![r.emergency] = i]
             /\ durable' = disk' /\ disk'.receipts[p] = m
    <3>1. /\ Stepped(w) /\ Worked(w, p, m)
          /\ task'[w].op = task[w].op /\ task'[w].plan = p
          /\ task'[w].at = "staging" /\ task'[w].receipt = m
      BY <1>1, <1>3, <1>5, <1>12, <2>1, <2>7, GoStepped
    <3>2. NamesApart'
      BY <1>1, <1>2, <2>0, <2>1, <3>1, NamesOld
    <3>3. Secured(m, p)'
      <4>1. disk'.names[m.emergency] = i /\ durable'.names[m.emergency] = i /\ i # 0
        BY <1>3, <2>1, <2>7 DEF Disks, Inodes
      <4>2. data'[i] = plan[p].expects /\ plan'[p].expects = plan[p].expects
        BY <1>3, <1>4, <1>11, <2>0 DEF ExpectsKept
      <4> QED BY <1>4, <1>8, <2>1, <4>1, <4>2 DEF Secured
    <3>4. StepAt(w)'
      <4>1. plan'[p].expects # None /\ LiveContent' = plan'[p].expects
        BY <1>1, <1>4, <1>5, <2>5
      <4>2. m.staged_sha = None /\ m.replacement = 0 /\ m.state # "completed"
        BY <2>1 DEF Bare
      <4> QED BY <1>2, <1>12, <3>1, <3>3, <4>1, <4>2 DEF StepAt
    <3> QED BY <1>1, <1>2, <1>3, <1>5, <1>6, <1>7, <2>0, <2>1, <2>3, <2>4, <3>1, <3>2, <3>4, BareOpen, KeptGoes
  <2> QED BY <2>0, <2>6, <2>7
<1>15. CASE \E i \in Inodes : Copied(w, p, r.emergency, c, made[i], "staging", without, i)
  BY <1>14, <1>15
<1> QED BY <1>1, <1>3, <1>10, <1>11, <1>13, <1>15, CopyMade

LEMMA StageKept ==
  ASSUME TypeLockInv, KeptInv, NEW w \in Windows, Stage(w)
  PROVE  KeptInv'
<1>1. PICK p, r : p = task[w].plan /\ r = task[w].receipt
  OBVIOUS
<1> DEFINE made == [i \in Inodes |-> [r EXCEPT !.staged_sha = p, !.replacement = i,
                                               !.state = "staged"]]
           without == Unstaged(r)
<1>2. /\ task[w].op = "restore" /\ task[w].at = "staging"
      /\ At(w, "restore", "staging")
  BY DEF Stage, At
<1>3. /\ TypeInv /\ p \in Plans /\ r \in Receipts /\ r \in CopiesOf(p)
      /\ GoodCopy(r, p) /\ StepAt(w) /\ NamesApart /\ disk \in Disks /\ durable \in Disks
      /\ r.staged \in Names /\ data \in [Inodes -> Contents] /\ Removable(r.staged)
  BY <1>1, <1>2, WorkerFacts
<1>4. /\ Bare(r, p) /\ plan[p].expects # None /\ LiveContent = plan[p].expects
      /\ Secured(r, p)
  BY <1>1, <1>2, <1>3, NoneApart DEF StepAt, GoodCopy, Bare, Early
<1>5. UNCHANGED <<confirms, plan, held, displaced, lock>>
  BY DEF Stage, Same
<1>6. lock = w
  BY <1>2, AtRestore DEF Unlocked
<1>7. task[w].at \in Pending /\ ~Gone(p)
  BY <1>1, <1>2 DEF Gone, Before, Pending, Early
<1>8. r.staged # 0
  BY <1>1, <1>2 DEF TypeLockInv, LockAt
<1>9. /\ \A i \in Inodes :
           /\ made[i] \in Receipts /\ NamesFrom(made[i], r)
           /\ made[i].emergency = r.emergency /\ made[i].emergency_sha = r.emergency_sha
           /\ made[i].staged_sha = p /\ made[i].applied_sha \in {None, p}
           /\ made[i].state = "staged"
      /\ without \in Receipts /\ Bare(without, p) /\ NamesFrom(without, r)
  <2>1. p \in Contents
    BY <1>3 DEF Contents
  <2>2. 0 \in Names
    BY LiveIsAName DEF Live
  <2>3. \A i \in Inodes :
          /\ made[i] \in Receipts /\ made[i].emergency = r.emergency
          /\ made[i].emergency_sha = r.emergency_sha /\ made[i].staged = r.staged
          /\ made[i].rollback = r.rollback /\ made[i].staged_sha = p
          /\ made[i].applied_sha = r.applied_sha /\ made[i].state = "staged"
    BY <1>3, <2>1 DEF Receipts, States
  <2>4. /\ without \in Receipts /\ without.emergency = r.emergency
        /\ without.staged = 0 /\ without.rollback = r.rollback
        /\ Bare(without, p)
    <3>1. r \in Receipts
      BY <1>3
    <3>2. without \in Receipts
      BY <2>2, <3>1 DEF Receipts, Unstaged
    <3>3. /\ without.emergency = r.emergency /\ without.staged = 0
          /\ without.rollback = r.rollback /\ without.staged_sha = None
          /\ without.applied_sha = r.applied_sha /\ without.replacement = 0
          /\ without.state = r.state
      BY <3>1 DEF Receipts, Unstaged
    <3>4. Bare(r, p)
      BY <1>4
    <3> QED BY <3>2, <3>3, <3>4 DEF Bare
  <2> HIDE DEF made, without
  <2> QED BY <1>4, <2>3, <2>4 DEF Bare, NamesFrom
<1>10. CopyRecorded(w, r.staged, p, made, "exchanging", without)
  BY <1>1 DEF Stage
<1>11. PlansStay /\ ExpectsKept
  BY <1>5, PlansSame
<1>12. "refusing" \in Early \ {"backing up", "staging"} /\ "refusing" \in Steps
       /\ "exchanging" \in Steps /\ "exchanging" \notin Early /\ "exchanging" \in Pending
  BY DEF Early, Steps, Pending
<1> HIDE DEF made, without
<1>13. ASSUME Go(w, "refusing", without), UNCHANGED <<disk, durable, data>>
       PROVE  KeptInv'
  <2>1. /\ Written(p, without) /\ EffectsKept(p)
    BY <1>3, <1>13, NothingWritten
  <2>2. BackupsKept
    BY <1>3, <1>11, <1>13, BackupsSame
  <2>3. GoodCopy(without, p)'
    BY <1>3, <1>9, GoodBare DEF Bare
  <2>4. Worked(w, p, without)
    BY <1>1, <1>3, <1>5, <1>9, <1>12, <1>13, GoStepped
  <2>5. NamesApart'
    BY <1>1, <1>2, <1>9, <2>1, <2>4, NamesOld
  <2> QED BY <1>1, <1>2, <1>5, <1>6, <1>7, <1>9, <1>12, <1>13, <2>1, <2>2, <2>3, <2>5, EarlyGoes, BareOpen
<1>14. ASSUME NEW i \in Inodes, NEW m, m = made[i],
              Copied(w, p, r.staged, p, m, "exchanging", without, i)
       PROVE  KeptInv'
  <2>0. /\ \A n \in Names : disk.names[n] # i /\ durable.names[n] # i
        /\ data' = [data EXCEPT ![i] = p]
        /\ Written(p, m) /\ EffectsKept(p) /\ Untouched(r.staged)
        /\ \/ /\ Go(w, "exchanging", m)
              /\ disk'.names = [disk.names EXCEPT ![r.staged] = i]
              /\ durable' = disk' /\ disk'.receipts[p] = m
           \/ /\ Go(w, "refusing", without)
              /\ disk'.names = disk.names /\ durable' = durable
    BY <1>14 DEF Copied
  <2>1. /\ m \in Receipts /\ NamesFrom(m, r)
        /\ m.emergency = r.emergency /\ m.emergency_sha = r.emergency_sha
        /\ m.staged_sha = p /\ m.applied_sha \in {None, p} /\ m.state = "staged"
    BY <1>9, <1>14
  <2>2. BackupsKept
    BY <1>3, <1>11, <2>0, BackupsUntouched
  <2>3. GoodCopy(m, p)'
    <3>1. Secured(r, p)'
      BY <1>3, <1>4, <2>2 DEF BackupsKept
    <3>2. Secured(m, p)'
      BY <2>1, <3>1 DEF Secured
    <3> QED BY <2>1, <3>2 DEF GoodCopy
  <2>4. LiveContent' = LiveContent
    <3>1. r.staged \in Names \ {Live}
      BY <1>3, <1>8 DEF Live
    <3> QED BY <1>3, <2>0, <3>1, LiveKept
  <2>5. CASE Go(w, "refusing", without)
    <3>1. Worked(w, p, without)
      BY <1>1, <1>3, <1>5, <1>9, <1>12, <2>5, GoStepped
    <3>2. NamesApart'
      BY <1>1, <1>2, <1>9, <2>0, <2>1, <3>1, NamesOld
    <3> QED BY <1>1, <1>2, <1>5, <1>6, <1>7, <1>9, <1>12, <2>0, <2>1, <2>2, <2>3, <2>5, <3>2, EarlyGoes
  <2>6. CASE /\ Go(w, "exchanging", m)
             /\ disk'.names = [disk.names EXCEPT ![r.staged] = i]
             /\ durable' = disk' /\ disk'.receipts[p] = m
    <3>1. /\ Stepped(w) /\ Worked(w, p, m)
          /\ task'[w].op = task[w].op /\ task'[w].plan = p
          /\ task'[w].at = "exchanging" /\ task'[w].receipt = m
      BY <1>1, <1>3, <1>5, <1>12, <2>1, <2>6, GoStepped
    <3>2. NamesApart'
      BY <1>1, <1>2, <2>0, <2>1, <3>1, NamesOld
    <3>3. StepAt(w)'
      <4>1. plan'[p].expects # None /\ LiveContent' = plan'[p].expects
        BY <1>1, <1>4, <1>5, <2>4
      <4>2. disk'.receipts[p].staged_sha = p /\ durable'.receipts[p].staged_sha = p
        BY <2>1, <2>6
      <4> QED BY <1>2, <1>12, <2>1, <3>1, <4>1, <4>2 DEF StepAt
    <3> QED BY <1>1, <1>2, <1>3, <1>5, <1>6, <1>7, <2>0, <2>1, <2>2, <2>3, <3>1, <3>2, <3>3, KeptGoes
  <2> QED BY <2>0, <2>5, <2>6
<1>15. CASE \E i \in Inodes : Copied(w, p, r.staged, p, made[i], "exchanging", without, i)
  BY <1>14, <1>15
<1> QED BY <1>1, <1>3, <1>10, <1>11, <1>13, <1>15, CopyMade

\* Once the restore of a plan is past its exchange, nobody prepares it again.
LEMMA PlanGone ==
  ASSUME AloneInv, NEW w \in Windows, NEW p \in Plans, task[w].plan = p, task[w].op = "restore",
         NEW a, Stepped(w), Worked(w, p, a), task'[w].op = "restore", task'[w].at \notin Pending,
         task'[w].receipt = a, a.staged_sha = p,
         disk'.receipts[p].staged_sha = p, durable'.receipts[p].staged_sha = p
  PROVE  Gone(p)'
<1>1. /\ \A v \in Windows : held[v].plan # p
      /\ \A v \in Windows \ {w} : task[v].plan # p
  BY DEF AloneInv, AloneAt
<1>2. confirms'[p] # 0
  BY DEF AloneInv, PlanInv, Unconfirmed, Stepped
<1>3. ~Before(p)'
  BY <1>1 DEF Before, Stepped
<1>4. ASSUME NEW s \in CopiesOf(p)' PROVE s.staged_sha = p
  <2>1. \A v \in Windows : held'[v].plan # p
    BY <1>1, IdleFields, NoneApart DEF Stepped
  <2>2. \A v \in Windows \ {w} : task'[v].plan # p
    BY <1>1 DEF Stepped
  <2>3. \A v \in Windows : task'[v].plan = p => task'[v].receipt.staged_sha = p
    BY <2>2
  <2> QED BY <2>1, <2>3, CopiesNext
<1> QED BY <1>2, <1>3, <1>4 DEF Gone

LEMMA ExchangeKept ==
  ASSUME TypeLockInv, KeptInv, NEW w \in Windows, Exchange(w)
  PROVE  KeptInv'
<1>1. PICK p, r : p = task[w].plan /\ r = task[w].receipt
  OBVIOUS
<1> DEFINE a == [r EXCEPT !.state = "applied", !.applied_sha = r.staged_sha]
           without == Unstaged(r)
<1>2. /\ task[w].op = "restore" /\ task[w].at = "exchanging"
      /\ At(w, "restore", "exchanging")
  BY DEF Exchange, At
<1>3. /\ TypeInv /\ p \in Plans /\ r \in Receipts /\ r \in CopiesOf(p)
      /\ GoodCopy(r, p) /\ StepAt(w) /\ NamesApart /\ disk \in Disks /\ durable \in Disks
      /\ r.staged \in Names /\ Removable(r.staged) /\ Sound(disk)
  BY <1>1, <1>2, WorkerFacts
<1>4. /\ plan[p].expects # None /\ LiveContent = plan[p].expects
      /\ r.staged_sha = p /\ r.state # "completed" /\ r.applied_sha \in {None, p}
      /\ disk.receipts[p].staged_sha = p /\ durable.receipts[p].staged_sha = p
  BY <1>1, <1>2, <1>3 DEF StepAt, GoodCopy, Early
<1>5. UNCHANGED <<confirms, plan, held, durable, data, lock>>
  BY DEF Exchange
<1>6. lock = w
  BY <1>2, AtRestore DEF Unlocked
<1>7. task[w].at \in Pending /\ ~Gone(p)
  BY <1>1, <1>2 DEF Gone, Before, Pending, Early
<1>8. r.staged # 0 /\ disk.names[r.staged] # 0
  BY <1>1, <1>2 DEF TypeLockInv, LockAt, File
<1>9. /\ a \in Receipts /\ NamesFrom(a, r) /\ NamesFrom(without, r)
      /\ a.emergency = r.emergency /\ a.emergency_sha = r.emergency_sha
      /\ a.staged_sha = p /\ a.applied_sha = p /\ a.state = "applied"
      /\ without \in Receipts /\ Bare(without, p)
  <2>1. p \in Contents /\ 0 \in Names
    BY <1>3, LiveIsAName DEF Contents, Live
  <2>2. /\ a \in Receipts /\ a.emergency = r.emergency /\ a.emergency_sha = r.emergency_sha
        /\ a.staged_sha = p /\ a.applied_sha = p /\ a.state = "applied"
        /\ a.staged = r.staged /\ a.rollback = r.rollback
    BY <1>3, <1>4, <2>1 DEF Receipts, States
  <2>3. without \in Receipts
    BY <1>3, <2>1 DEF Receipts, Unstaged
  <2>4. /\ without.emergency = r.emergency /\ without.staged = 0
        /\ without.rollback = r.rollback /\ without.staged_sha = None
        /\ without.applied_sha = r.applied_sha /\ without.replacement = 0
        /\ without.state = r.state
    BY <1>3 DEF Receipts, Unstaged
  <2> HIDE DEF a, without
  <2> QED BY <1>4, <2>2, <2>3, <2>4 DEF Bare, NamesFrom
<1>10. \/ /\ disk' = Exchanged(p, r.staged, "restored")
          /\ displaced' = displaced \cup {LiveContent} /\ Go(w, "applied", a)
       \/ /\ disk' = Without(disk, r.staged) /\ displaced' = displaced
          /\ Go(w, "refusing", without)
  BY <1>1 DEF Exchange
<1>11. PlansStay /\ ExpectsKept
  BY <1>5, PlansSame
<1>12. /\ "refusing" \in Early \ {"backing up", "staging"} /\ "refusing" \in Steps
       /\ "applied" \in Steps /\ "applied" \notin Pending
       /\ "applied" \notin Early \cup {"exchanging"}
  BY DEF Early, Steps, Pending
<1> HIDE DEF a, without
<1>13. CASE /\ disk' = Without(disk, r.staged) /\ displaced' = displaced
            /\ Go(w, "refusing", without)
  <2>1. /\ disk'.receipts = disk.receipts /\ disk'.effect = disk.effect
    BY <1>3, <1>13, Removed
  <2>2. /\ Written(p, without) /\ EffectsKept(p)
    BY <1>3, <1>5, <2>1, NothingWritten
  <2>3. Untouched(r.staged) /\ LiveContent' = LiveContent
    BY <1>3, <1>5, <1>13, RemovedUntouched
  <2>4. BackupsKept
    BY <1>3, <1>11, <2>3, BackupsUntouched
  <2>5. GoodCopy(without, p)'
    BY <1>3, <1>9, GoodBare DEF Bare
  <2>6. Worked(w, p, without)
    BY <1>1, <1>3, <1>5, <1>9, <1>12, <1>13, GoStepped
  <2>7. NamesApart'
    BY <1>1, <1>2, <1>9, <2>2, <2>6, NamesOld
  <2> QED BY <1>1, <1>2, <1>5, <1>7, <1>9, <1>12, <1>13, <2>2, <2>3, <2>4, <2>5, <2>7, EarlyGoes, BareOpen
<1>14. CASE /\ disk' = Exchanged(p, r.staged, "restored")
            /\ displaced' = displaced \cup {LiveContent} /\ Go(w, "applied", a)
  <2>1. /\ disk'.receipts = disk.receipts /\ disk'.effect = [disk.effect EXCEPT ![p] = "restored"]
    BY <1>3, <1>8, <1>14, Swapped DEF Effects
  <2>2. /\ Written(p, a) /\ EffectsKept(p)
    BY <1>3, <1>5, <2>1 DEF Written, EffectsKept, Disks
  <2>3. Untouched(r.staged)
    BY <1>3, <1>5, <1>8, <1>14, SwappedUntouched DEF Effects
  <2>4. BackupsKept
    BY <1>3, <1>11, <2>3, BackupsUntouched
  <2>5. GoodCopy(a, p)'
    BY <1>3, <1>4, <1>9, <2>4, GoodLater
  <2>6. /\ Stepped(w) /\ Worked(w, p, a)
        /\ task'[w].op = task[w].op /\ task'[w].plan = p
        /\ task'[w].at = "applied" /\ task'[w].receipt = a
    BY <1>1, <1>3, <1>5, <1>9, <1>12, <1>14, GoStepped
  <2>7. NamesApart'
    BY <1>1, <1>2, <1>9, <2>2, <2>6, NamesOld
  <2>8. StepAt(w)'
    BY <1>2, <1>4, <1>5, <1>9, <1>12, <2>6 DEF StepAt, Pending
  <2>9. Gone(p)'
    <3>1. AloneInv
      BY DEF KeptInv
    <3>2. disk'.receipts[p].staged_sha = p /\ durable'.receipts[p].staged_sha = p
      BY <1>4, <1>5, <2>1
    <3> QED BY <1>1, <1>2, <1>3, <1>9, <1>12, <2>6, <3>1, <3>2, PlanGone
  <2>10. \A c \in displaced' \ Plans : c \in displaced \/ (plan[p].expects = c /\ Gone(p)')
    BY <1>4, <1>14, <2>9
  <2> QED BY <1>1, <1>2, <1>3, <1>6, <1>7, <1>9, <1>12, <2>2, <2>4, <2>5, <2>6, <2>7, <2>8, <2>10, KeptMoves
<1> QED BY <1>10, <1>13, <1>14

\* After the exchange the copies of a receipt differ in what became of it only.
Onward(a, r) ==
  /\ a.emergency = r.emergency /\ a.emergency_sha = r.emergency_sha
  /\ a.staged = r.staged /\ a.rollback = r.rollback
  /\ a.staged_sha = r.staged_sha /\ a.applied_sha = r.applied_sha
  /\ a.state = "completed" => a.intact = "no"

LEMMA OnwardState ==
  ASSUME NEW r \in Receipts, NEW s \in States, NEW i \in {"unknown", "yes", "no"}
  PROVE  /\ [r EXCEPT !.state = s] \in Receipts
         /\ s # "completed" => Onward([r EXCEPT !.state = s], r)
         /\ [r EXCEPT !.state = s, !.intact = i] \in Receipts
         /\ s # "completed" \/ i = "no" => Onward([r EXCEPT !.state = s, !.intact = i], r)
         /\ [r EXCEPT !.state = s].state = s
<1>1. [r EXCEPT !.state = s] \in Receipts /\ [r EXCEPT !.state = s, !.intact = i] \in Receipts
  BY StateSet
<1> QED BY <1>1 DEF Receipts, Onward

LEMMA LaterFacts ==
  ASSUME TypeLockInv, KeptInv, NEW w \in Windows,
         task[w].op = "restore", task[w].at \notin Pending,
         NEW p, p = task[w].plan, NEW r, r = task[w].receipt
  PROVE  /\ lock = w /\ r.staged_sha = p /\ r.applied_sha = p /\ plan[p].expects # None
         /\ p \in Plans /\ r \in Receipts /\ r \in CopiesOf(p) /\ GoodCopy(r, p)
         /\ r.original # 0 /\ Onward(r, r) /\ r.state # "completed"
<1>1. /\ p \in Plans /\ r \in Receipts /\ r \in CopiesOf(p) /\ GoodCopy(r, p) /\ StepAt(w)
  BY WorkerFacts
<1>2. task[w].at \notin Unlocked
  BY DEF Pending, Early, Unlocked
<1>3. LockAt(w)
  BY DEF TypeLockInv
<1>4. lock = w /\ r.original # 0
  BY <1>2, <1>3 DEF LockAt
<1>5. /\ r.staged_sha = p /\ r.applied_sha = p /\ plan[p].expects # None
      /\ r.state # "completed"
  BY <1>1 DEF StepAt, Pending
<1>6. Onward(r, r)
  BY <1>1 DEF GoodCopy, Onward
<1> QED BY <1>1, <1>4, <1>5, <1>6

LEMMA LaterGoes ==
  ASSUME TypeLockInv, KeptInv, NEW w \in Windows,
         task[w].op = "restore", task[w].at \notin Pending,
         NEW p, p = task[w].plan, NEW r, r = task[w].receipt,
         NEW at \in RestoreSteps \ Pending, NEW a \in Receipts, Onward(a, r),
         a.state # "completed", Go(w, at, a),
         Written(p, a), EffectsKept(p), BackupsKept,
         UNCHANGED <<confirms, plan, held, displaced>>
  PROVE  KeptInv'
<1>1. /\ lock = w /\ r.staged_sha = p /\ r.applied_sha = p /\ plan[p].expects # None
      /\ p \in Plans /\ r \in CopiesOf(p) /\ GoodCopy(r, p)
  BY LaterFacts
<1>2. at \in Steps
  BY DEF RestoreSteps, Steps
<1>3. /\ Stepped(w) /\ Worked(w, p, a)
      /\ task'[w].op = task[w].op /\ task'[w].plan = p
      /\ task'[w].at = at /\ task'[w].receipt = a
  BY <1>1, <1>2, GoStepped
<1>4. NamesFrom(a, r)
  BY DEF Onward, NamesFrom
<1>5. NamesApart'
  BY <1>3, <1>4, NamesOld
<1>6. /\ a.staged_sha = p /\ a.applied_sha = p
      /\ a.emergency = r.emergency /\ a.emergency_sha = r.emergency_sha
      /\ a.state = "completed" => a.intact = "no"
  BY <1>1 DEF Onward
<1>7. GoodCopy(a, p)'
  BY <1>1, <1>6, GoodLater
<1>8. StepAt(w)'
  <2>1. /\ at \notin Early /\ at \notin {"exchanging", "backing up", "staging"}
        /\ task'[w].op # "rollback" /\ plan'[p].expects # None
    BY <1>1, <1>3 DEF Pending, Early
  <2> QED BY <1>3, <1>6, <2>1 DEF StepAt
<1>9. task'[w].at \notin Pending /\ task[w].op # "idle" /\ displaced' \subseteq displaced \cup Plans
  BY <1>3
<1> QED BY <1>1, <1>3, <1>5, <1>6, <1>7, <1>8, <1>9, KeptGoes

LEMMA LaterReturns ==
  ASSUME TypeLockInv, KeptInv, NEW w \in Windows,
         task[w].op = "restore", task[w].at \notin Pending,
         NEW p, p = task[w].plan, NEW r, r = task[w].receipt, Return(w),
         NEW b, Onward(b, r), Written(p, b), EffectsKept(p), BackupsKept,
         PlansStay, UNCHANGED <<confirms, held, displaced>>
  PROVE  KeptInv'
<1>1. /\ lock = w /\ r.staged_sha = p /\ r.applied_sha = p
      /\ p \in Plans /\ r \in CopiesOf(p) /\ GoodCopy(r, p)
  BY LaterFacts
<1>2. NamesFrom(b, r)
  BY DEF Onward, NamesFrom
<1>3. /\ b.staged_sha = p /\ b.applied_sha = p
      /\ b.emergency = r.emergency /\ b.emergency_sha = r.emergency_sha
      /\ b.state = "completed" => b.intact = "no"
  BY <1>1 DEF Onward
<1>4. GoodCopy(b, p)'
  BY <1>1, <1>3, GoodLater
<1> QED BY <1>1, <1>2, <1>3, <1>4, KeptReturns

LEMMA PublishAppliedKept ==
  ASSUME TypeLockInv, KeptInv, NEW w \in Windows, PublishApplied(w)
  PROVE  KeptInv'
<1>1. PICK p, r : p = task[w].plan /\ r = task[w].receipt
  OBVIOUS
<1>2. /\ task[w].op = "restore" /\ task[w].at = "applied"
      /\ task[w].at \notin Pending /\ "syncing" \in RestoreSteps \ Pending
  BY DEF PublishApplied, At, Pending, Early, RestoreSteps
<1>3. p \in Plans /\ r \in Receipts /\ Onward(r, r) /\ r.state # "completed" /\ TypeInv /\ NamesApart
      /\ disk \in Disks /\ durable \in Disks
  BY <1>1, <1>2, LaterFacts, WorkerFacts
<1>4. /\ Go(w, "syncing", r) /\ UNCHANGED <<data, confirms, plan, held, displaced>>
      /\ \E result \in Writes : WriteReceipt(disk, durable, p, r, result)
  BY <1>1 DEF PublishApplied, Same
<1>5. /\ Written(p, r) /\ EffectsKept(p)
      /\ disk'.names = disk.names /\ durable'.names \in {disk.names, durable.names}
  BY <1>3, <1>4, WriteStep
<1>6. BackupsKept
  BY <1>3, <1>4, <1>5, BackupsSame, PlansSame
<1> QED BY <1>1, <1>2, <1>3, <1>4, <1>5, <1>6, LaterGoes

LEMMA SyncExchangeKept ==
  ASSUME TypeLockInv, KeptInv, NEW w \in Windows, SyncExchange(w)
  PROVE  KeptInv'
<1>1. PICK p, r : p = task[w].plan /\ r = task[w].receipt
  OBVIOUS
<1> DEFINE a == [r EXCEPT !.state = "verification"]
<1>2. /\ task[w].op = "restore" /\ task[w].at = "syncing" /\ task[w].at \notin Pending
      /\ {"verifying", "rolling back"} \subseteq RestoreSteps \ Pending
  BY DEF SyncExchange, At, Pending, Early, RestoreSteps
<1>3. p \in Plans /\ r \in Receipts /\ Onward(r, r) /\ r.state # "completed" /\ TypeInv /\ NamesApart
      /\ disk \in Disks /\ durable \in Disks
  BY <1>1, <1>2, LaterFacts, WorkerFacts
<1>4. a \in Receipts /\ Onward(a, r) /\ a.state # "completed"
  BY <1>3, OnwardState DEF States
<1>5. /\ UNCHANGED <<data, confirms, plan, held, displaced>>
      /\ \/ /\ Go(w, "verifying", a)
            /\ \E result \in Writes : WriteReceipt(disk, disk, p, a, result)
         \/ Go(w, "rolling back", a) /\ UNCHANGED <<disk, durable>>
  BY <1>1 DEF SyncExchange, Same
<1> HIDE DEF a
<1>6. /\ Written(p, a) /\ EffectsKept(p)
      /\ disk'.names = disk.names /\ durable'.names \in {disk.names, durable.names}
  <2>1. CASE \E result \in Writes : WriteReceipt(disk, disk, p, a, result)
    BY <1>3, <2>1, WriteStep
  <2>2. CASE UNCHANGED <<disk, durable>>
    BY <1>3, <2>2, NothingWritten
  <2> QED BY <1>5, <2>1, <2>2
<1>7. BackupsKept
  BY <1>3, <1>5, <1>6, BackupsSame, PlansSame
<1> QED BY <1>1, <1>2, <1>3, <1>4, <1>5, <1>6, <1>7, LaterGoes

LEMMA VerifyKept ==
  ASSUME TypeLockInv, KeptInv, NEW w \in Windows, Verify(w)
  PROVE  KeptInv'
<1>1. PICK p, r : p = task[w].plan /\ r = task[w].receipt
  OBVIOUS
<1>2. /\ task[w].op = "restore" /\ task[w].at = "verifying" /\ task[w].at \notin Pending
      /\ {"removing", "rolling back"} \subseteq RestoreSteps \ Pending
  BY DEF Verify, At, Pending, Early, RestoreSteps
<1>3. p \in Plans /\ r \in Receipts /\ Onward(r, r) /\ r.state # "completed" /\ TypeInv /\ NamesApart
      /\ disk \in Disks /\ durable \in Disks
  BY <1>1, <1>2, LaterFacts, WorkerFacts
<1>4. /\ UNCHANGED <<disk, durable, data, confirms, plan, held, displaced>>
      /\ Go(w, "removing", r) \/ Go(w, "rolling back", r)
  BY <1>1 DEF Verify, Same
<1>5. Written(p, r) /\ EffectsKept(p)
  BY <1>3, <1>4, NothingWritten
<1>6. BackupsKept
  BY <1>3, <1>4, BackupsSame, PlansSame
<1> QED BY <1>1, <1>2, <1>3, <1>4, <1>5, <1>6, LaterGoes

LEMMA RemoveSupersededKept ==
  ASSUME TypeLockInv, KeptInv, NEW w \in Windows, RemoveSuperseded(w)
  PROVE  KeptInv'
<1>1. PICK p, r : p = task[w].plan /\ r = task[w].receipt
  OBVIOUS
<1>2. /\ task[w].op = "restore" /\ task[w].at = "removing" /\ task[w].at \notin Pending
      /\ "completing" \in RestoreSteps \ Pending
  BY DEF RemoveSuperseded, At, Pending, Early, RestoreSteps
<1>3. p \in Plans /\ r \in Receipts /\ Onward(r, r) /\ r.state # "completed" /\ TypeInv /\ NamesApart
      /\ disk \in Disks /\ durable \in Disks /\ Sound(disk)
      /\ r.staged \in Names /\ Removable(r.staged)
  BY <1>1, <1>2, LaterFacts, WorkerFacts
<1>4. /\ Go(w, "completing", r) /\ UNCHANGED <<data, confirms, plan, held, displaced>>
      /\ disk' \in {disk, Without(disk, r.staged)} /\ durable' \in {durable, disk'}
  BY <1>1 DEF RemoveSuperseded, Same
<1>5. disk'.receipts = disk.receipts /\ disk'.effect = disk.effect
  BY <1>3, <1>4, Removed
<1>6. Written(p, r) /\ EffectsKept(p)
  BY <1>3, <1>4, <1>5, NothingWritten
<1>7. Untouched(r.staged)
  <2>1. /\ disk'.names \in {disk.names, Without(disk, r.staged).names}
        /\ durable'.names \in {durable.names, disk'.names}
    BY <1>4
  <2> QED BY <1>3, <1>4, <2>1, RemovedUntouched
<1>8. BackupsKept
  BY <1>3, <1>4, <1>7, BackupsUntouched, PlansSame
<1> QED BY <1>1, <1>2, <1>3, <1>4, <1>6, <1>8, LaterGoes

LEMMA CompleteKept ==
  ASSUME TypeLockInv, KeptInv, NEW w \in Windows, Complete(w)
  PROVE  KeptInv'
<1>1. PICK p, r : p = task[w].plan /\ r = task[w].receipt
  OBVIOUS
<1> DEFINE b == [r EXCEPT !.state = "completed", !.intact = "no"]
<1>2. /\ task[w].op = "restore" /\ task[w].at = "completing" /\ task[w].at \notin Pending
  BY DEF Complete, At, Pending, Early
<1>3. p \in Plans /\ r \in Receipts /\ Onward(r, r) /\ r.state # "completed" /\ TypeInv /\ NamesApart
      /\ disk \in Disks /\ durable \in Disks
  BY <1>1, <1>2, LaterFacts, WorkerFacts
<1>4. b \in Receipts /\ Onward(b, r)
  BY <1>3, OnwardState DEF States
<1>5. /\ UNCHANGED <<data, confirms, held, displaced>> /\ Return(w)
      /\ plan' = [plan EXCEPT ![p].by = None]
      /\ \E result \in Writes : WriteReceipt(disk, durable, p, b, result)
  BY <1>1 DEF Complete
<1> HIDE DEF b
<1>6. /\ Written(p, b) /\ EffectsKept(p)
      /\ disk'.names = disk.names /\ durable'.names \in {disk.names, durable.names}
  BY <1>3, <1>5, WriteStep
<1>7. PlansStay
  BY <1>3, <1>5 DEF PlansStay, TypeInv
<1>8. BackupsKept
  BY <1>3, <1>5, <1>6, <1>7, BackupsSame, StaysExpected
<1> QED BY <1>1, <1>2, <1>4, <1>5, <1>6, <1>7, <1>8, LaterReturns

LEMMA BeginRollBackKept ==
  ASSUME TypeLockInv, KeptInv, NEW w \in Windows, BeginRollBack(w)
  PROVE  KeptInv'
<1>1. PICK p, r : p = task[w].plan /\ r = task[w].receipt
  OBVIOUS
<1> DEFINE a == [r EXCEPT !.state = "rollback_attempted"]
<1>2. /\ task[w].op = "restore" /\ task[w].at = "rolling back" /\ task[w].at \notin Pending
      /\ "exchanging back" \in RestoreSteps \ Pending
  BY DEF BeginRollBack, At, Pending, Early, RestoreSteps
<1>3. p \in Plans /\ r \in Receipts /\ Onward(r, r) /\ r.state # "completed" /\ TypeInv /\ NamesApart
      /\ disk \in Disks /\ durable \in Disks
  BY <1>1, <1>2, LaterFacts, WorkerFacts
<1>4. a \in Receipts /\ Onward(a, r) /\ a.state # "completed"
  BY <1>3, OnwardState DEF States
<1>5. /\ UNCHANGED <<data, confirms, plan, held, displaced>> /\ Go(w, "exchanging back", a)
      /\ \E result \in Writes : WriteReceipt(disk, durable, p, a, result)
  BY <1>1 DEF BeginRollBack, Same
<1> HIDE DEF a
<1>6. /\ Written(p, a) /\ EffectsKept(p)
      /\ disk'.names = disk.names /\ durable'.names \in {disk.names, durable.names}
  BY <1>3, <1>5, WriteStep
<1>7. BackupsKept
  BY <1>3, <1>5, <1>6, BackupsSame, PlansSame
<1> QED BY <1>1, <1>2, <1>4, <1>5, <1>6, <1>7, LaterGoes

LEMMA ExchangeBackKept ==
  ASSUME TypeLockInv, KeptInv, NEW w \in Windows, ExchangeBack(w)
  PROVE  KeptInv'
<1>1. PICK p, r : p = task[w].plan /\ r = task[w].receipt
  OBVIOUS
<1>2. /\ task[w].op = "restore" /\ task[w].at = "exchanging back" /\ task[w].at \notin Pending
      /\ {"checking", "giving up"} \subseteq RestoreSteps \ Pending
  BY DEF ExchangeBack, At, Pending, Early, RestoreSteps
<1>3. p \in Plans /\ r \in Receipts /\ Onward(r, r) /\ r.state # "completed" /\ TypeInv /\ NamesApart
      /\ disk \in Disks /\ durable \in Disks /\ Sound(disk)
      /\ r.staged \in Names /\ Removable(r.staged) /\ r.original # 0
  BY <1>1, <1>2, LaterFacts, WorkerFacts
<1>4. /\ UNCHANGED <<durable, data, confirms, plan, held, displaced>>
      /\ \/ /\ File(disk, r.staged) = r.original /\ Go(w, "checking", r)
            /\ disk' = Exchanged(p, r.staged, "none")
         \/ Go(w, "giving up", r) /\ UNCHANGED disk
  BY <1>1 DEF ExchangeBack, Same
<1>5. CASE /\ File(disk, r.staged) = r.original /\ Go(w, "checking", r)
           /\ disk' = Exchanged(p, r.staged, "none")
  <2>1. disk.names[r.staged] # 0
    BY <1>3, <1>5 DEF File
  <2>2. disk'.receipts = disk.receipts /\ disk'.effect = [disk.effect EXCEPT ![p] = "none"]
    BY <1>3, <1>5, <2>1, Swapped DEF Effects
  <2>3. Written(p, r) /\ EffectsKept(p)
    BY <1>3, <1>4, <2>2 DEF Written, EffectsKept, Disks
  <2>4. Untouched(r.staged)
    BY <1>3, <1>4, <1>5, <2>1, SwappedUntouched DEF Effects
  <2>5. BackupsKept
    BY <1>3, <1>4, <2>4, BackupsUntouched, PlansSame
  <2> QED BY <1>1, <1>2, <1>3, <1>4, <1>5, <2>3, <2>5, LaterGoes
<1>6. CASE Go(w, "giving up", r) /\ UNCHANGED disk
  <2>1. Written(p, r) /\ EffectsKept(p)
    BY <1>3, <1>4, <1>6, NothingWritten
  <2>2. BackupsKept
    BY <1>3, <1>4, <1>6, BackupsSame, PlansSame
  <2> QED BY <1>1, <1>2, <1>3, <1>4, <1>6, <2>1, <2>2, LaterGoes
<1> QED BY <1>4, <1>5, <1>6

LEMMA GiveUpKept ==
  ASSUME TypeLockInv, KeptInv, NEW w \in Windows, GiveUp(w)
  PROVE  KeptInv'
<1>1. PICK p, r : p = task[w].plan /\ r = task[w].receipt
  OBVIOUS
<1> DEFINE b == [r EXCEPT !.state = "rollback_failed", !.intact = "no"]
<1>2. /\ task[w].op = "restore" /\ task[w].at = "giving up" /\ task[w].at \notin Pending
  BY DEF GiveUp, At, Pending, Early
<1>3. p \in Plans /\ r \in Receipts /\ Onward(r, r) /\ r.state # "completed" /\ TypeInv /\ NamesApart
      /\ disk \in Disks /\ durable \in Disks
  BY <1>1, <1>2, LaterFacts, WorkerFacts
<1>4. b \in Receipts /\ Onward(b, r)
  BY <1>3, OnwardState DEF States
<1>5. /\ UNCHANGED <<data, confirms, plan, held, displaced>> /\ Return(w)
      /\ \E result \in Writes : WriteReceipt(disk, durable, p, b, result)
  BY <1>1 DEF GiveUp, Same
<1> HIDE DEF b
<1>6. /\ Written(p, b) /\ EffectsKept(p)
      /\ disk'.names = disk.names /\ durable'.names \in {disk.names, durable.names}
  BY <1>3, <1>5, WriteStep
<1>7. BackupsKept /\ PlansStay
  BY <1>3, <1>5, <1>6, BackupsSame, PlansSame
<1> QED BY <1>1, <1>2, <1>4, <1>5, <1>6, <1>7, LaterReturns

LEMMA CheckBackKept ==
  ASSUME TypeLockInv, KeptInv, NEW w \in Windows, CheckBack(w)
  PROVE  KeptInv'
<1>1. PICK p, r : p = task[w].plan /\ r = task[w].receipt
  OBVIOUS
<1> DEFINE back == [r EXCEPT !.state = "rolled_back", !.intact = "yes"]
           failed == [r EXCEPT !.state = "rollback_failed", !.intact = "unknown"]
<1>2. /\ task[w].op = "restore" /\ task[w].at = "checking" /\ task[w].at \notin Pending
  BY DEF CheckBack, At, Pending, Early
<1>3. p \in Plans /\ r \in Receipts /\ TypeInv /\ NamesApart
      /\ disk \in Disks /\ durable \in Disks /\ Sound(disk)
      /\ r.staged \in Names /\ Removable(r.staged)
  BY <1>1, <1>2, LaterFacts, WorkerFacts
<1>4. Onward(back, r) /\ Onward(failed, r)
  BY <1>3, OnwardState DEF States
<1>5. /\ UNCHANGED <<data, confirms, plan, held, displaced>> /\ Return(w)
      /\ \E result \in Writes :
           \/ WriteReceipt(Without(disk, r.staged), disk, p, back, result)
           \/ WriteReceipt(disk, durable, p, failed, result)
  BY <1>1 DEF CheckBack, Same
<1>6. PlansStay /\ ExpectsKept
  BY <1>5, PlansSame
<1> HIDE DEF back, failed
<1>7. ASSUME NEW result \in Writes, WriteReceipt(Without(disk, r.staged), disk, p, back, result)
      PROVE  KeptInv'
  <2>1. /\ Without(disk, r.staged) \in Disks /\ Without(disk, r.staged).receipts = disk.receipts
        /\ Without(disk, r.staged).effect = disk.effect
    BY <1>3, Removed
  <2>2. /\ Written(p, back) /\ EffectsKept(p)
        /\ disk'.names = Without(disk, r.staged).names
        /\ durable'.names \in {Without(disk, r.staged).names, disk.names}
    BY <1>3, <1>7, <2>1, WriteStep
  <2>3. Untouched(r.staged)
    BY <1>3, <1>5, <2>2, RemovedUntouched
  <2>4. BackupsKept
    BY <1>3, <1>6, <2>3, BackupsUntouched
  <2> QED BY <1>1, <1>2, <1>4, <1>5, <1>6, <2>2, <2>4, LaterReturns
<1>8. ASSUME NEW result \in Writes, WriteReceipt(disk, durable, p, failed, result)
      PROVE  KeptInv'
  <2>1. /\ Written(p, failed) /\ EffectsKept(p)
        /\ disk'.names = disk.names /\ durable'.names \in {disk.names, durable.names}
    BY <1>3, <1>8, WriteStep
  <2>2. BackupsKept
    BY <1>3, <1>5, <1>6, <2>1, BackupsSame
  <2> QED BY <1>1, <1>2, <1>4, <1>5, <1>6, <2>1, <2>2, LaterReturns
<1> QED BY <1>5, <1>7, <1>8

-----------------------------------------------------------------------------
(* Rollbacks *)

\* A rollback's copies name the same backup of the same restore.
Rolled(a, r) ==
  /\ a.emergency = r.emergency /\ a.emergency_sha = r.emergency_sha
  /\ a.staged = r.staged /\ a.rollback \in {0, r.rollback}
  /\ a.staged_sha = r.staged_sha /\ a.applied_sha = r.applied_sha
  /\ a.state = "completed" => a.intact = "no"


LEMMA RollFacts ==
  ASSUME TypeLockInv, KeptInv, NEW w \in Windows, task[w].op = "rollback",
         NEW p, p = task[w].plan, NEW r, r = task[w].receipt
  PROVE  /\ lock = w /\ r.staged_sha = p /\ r.applied_sha = p /\ r.intact = "no"
         /\ task[w].at \in {"staging", "exchanging"} => LiveContent = p
         /\ p \in Plans /\ r \in Receipts /\ r \in CopiesOf(p) /\ GoodCopy(r, p)
         /\ Rolled(r, r) /\ Rolled(Unrolled(r), r) /\ Unrolled(r) \in Receipts
         /\ Unrolled(r).intact = "no"
<1>1. /\ p \in Plans /\ r \in Receipts /\ r \in CopiesOf(p) /\ GoodCopy(r, p) /\ StepAt(w)
  BY WorkerFacts
<1>2. LockAt(w)
  BY DEF TypeLockInv
<1>3. /\ lock = w /\ r.staged_sha = p /\ r.applied_sha = p /\ r.intact = "no"
      /\ task[w].at \in {"staging", "exchanging"} => LiveContent = p
  BY <1>1, <1>2 DEF LockAt, StepAt
<1>4. Rolled(r, r)
  BY <1>3 DEF Rolled
<1>5. Unrolled(r) \in Receipts
  BY <1>1, UnrolledOK
<1>6. Rolled(Unrolled(r), r) /\ Unrolled(r).intact = "no"
  BY <1>1, <1>3 DEF Receipts, Unrolled, Rolled
<1> QED BY <1>1, <1>3, <1>4, <1>5, <1>6

LEMMA GoodRolled ==
  ASSUME NEW p \in Plans, NEW r \in CopiesOf(p), GoodCopy(r, p),
         r.staged_sha = p, r.applied_sha = p, BackupsKept, NEW a, Rolled(a, r)
  PROVE  GoodCopy(a, p)' /\ NamesFrom(a, r)
<1>1. /\ a.emergency = r.emergency /\ a.emergency_sha = r.emergency_sha
      /\ a.staged_sha = p /\ a.applied_sha = p
      /\ a.state = "completed" => a.intact = "no"
  BY DEF Rolled
<1>2. NamesFrom(a, r)
  BY DEF Rolled, NamesFrom
<1> QED BY <1>1, <1>2, GoodLater

LEMMA RollGoes ==
  ASSUME TypeLockInv, KeptInv, NEW w \in Windows, task[w].op = "rollback",
         NEW p, p = task[w].plan, NEW r, r = task[w].receipt,
         NEW at \in RollbackSteps, NEW a \in Receipts, Rolled(a, r), a.intact = "no", Go(w, at, a),
         NEW b, Rolled(b, r), Written(p, b), EffectsKept(p), BackupsKept,
         at \in {"staging", "exchanging"} => LiveContent' = p,
         displaced' \subseteq displaced \cup Plans,
         UNCHANGED <<confirms, plan, held>>
  PROVE  KeptInv'
<1>1. /\ lock = w /\ r.staged_sha = p /\ r.applied_sha = p
      /\ p \in Plans /\ r \in CopiesOf(p) /\ GoodCopy(r, p)
  BY RollFacts
<1>2. at \in Steps
  BY DEF RollbackSteps, Steps
<1>3. /\ Stepped(w) /\ Worked(w, p, a)
      /\ task'[w].op = task[w].op /\ task'[w].plan = p
      /\ task'[w].at = at /\ task'[w].receipt = a
  BY <1>1, <1>2, GoStepped
<1>4. /\ NamesFrom(a, r) /\ NamesFrom(b, r) /\ GoodCopy(a, p)' /\ GoodCopy(b, p)'
  BY <1>1, GoodRolled
<1>5. NamesApart'
  BY <1>3, <1>4, NamesOld
<1>6. a.staged_sha = p /\ a.applied_sha = p /\ b.staged_sha = p
  BY <1>1 DEF Rolled
<1>7. StepAt(w)'
  BY <1>3, <1>6 DEF StepAt
<1>8. task'[w].op # "restore" /\ task[w].op # "idle"
  BY <1>3
<1> QED BY <1>1, <1>3, <1>4, <1>5, <1>6, <1>7, <1>8, KeptGoes

LEMMA RollReturns ==
  ASSUME TypeLockInv, KeptInv, NEW w \in Windows, task[w].op = "rollback",
         NEW p, p = task[w].plan, NEW r, r = task[w].receipt, Return(w),
         NEW b, Rolled(b, r), Written(p, b), EffectsKept(p), BackupsKept,
         held' = held \/ held' = [held EXCEPT ![w] = NoReview],
         UNCHANGED <<confirms, plan, displaced>>
  PROVE  KeptInv'
<1>1. /\ lock = w /\ r.staged_sha = p /\ r.applied_sha = p
      /\ p \in Plans /\ r \in CopiesOf(p) /\ GoodCopy(r, p)
  BY RollFacts
<1>2. NamesFrom(b, r) /\ GoodCopy(b, p)'
  BY <1>1, GoodRolled
<1>3. b.staged_sha = p
  BY <1>1 DEF Rolled
<1>4. PlansStay
  BY PlansSame
<1> QED BY <1>1, <1>2, <1>3, <1>4, KeptReturns

LEMMA StageRollbackKept ==
  ASSUME TypeLockInv, KeptInv, NEW w \in Windows, StageRollback(w)
  PROVE  KeptInv'
<1>1. PICK p, r, c : p = task[w].plan /\ r = task[w].receipt /\ c = data[File(disk, r.emergency)]
  OBVIOUS
<1> DEFINE made == [i \in Inodes |-> [r EXCEPT !.rollback_identity = i]]
           without == Unrolled(r)
<1>2. /\ task[w].op = "rollback" /\ task[w].at = "staging"
      /\ {"exchanging", "refusing"} \subseteq RollbackSteps
  BY DEF StageRollback, At, RollbackSteps
<1>3. /\ TypeInv /\ p \in Plans /\ r \in Receipts /\ r \in CopiesOf(p) /\ NamesApart
      /\ disk \in Disks /\ durable \in Disks /\ r.rollback \in Names /\ Removable(r.rollback)
  BY <1>1, <1>2, WorkerFacts
<1>4. /\ r.intact = "no" /\ LiveContent = p /\ Rolled(r, r)
      /\ Rolled(without, r) /\ without \in Receipts /\ without.intact = "no"
  BY <1>1, <1>2, RollFacts
<1>5. \A i \in Inodes : made[i] \in Receipts /\ Rolled(made[i], r) /\ made[i].intact = "no"
  BY <1>3, <1>4 DEF Receipts, Rolled
<1>6. /\ CopyRecorded(w, r.rollback, c, made, "exchanging", without)
      /\ UNCHANGED <<confirms, plan, held, displaced>>
  BY <1>1 DEF StageRollback, Same
<1>7. PlansStay /\ ExpectsKept
  BY <1>6, PlansSame
<1>8. r.rollback # 0
  BY <1>1, <1>2 DEF TypeLockInv, LockAt
<1> HIDE DEF made, without
<1>9. ASSUME Go(w, "refusing", without), UNCHANGED <<disk, durable, data>>
      PROVE  KeptInv'
  <2>1. /\ Written(p, without) /\ EffectsKept(p)
    BY <1>3, <1>9, NothingWritten
  <2>2. BackupsKept
    BY <1>3, <1>7, <1>9, BackupsSame
  <2> QED BY <1>1, <1>2, <1>4, <1>6, <1>9, <2>1, <2>2, RollGoes
<1>10. ASSUME NEW i \in Inodes, NEW m, m = made[i],
              Copied(w, p, r.rollback, c, m, "exchanging", without, i)
       PROVE  KeptInv'
  <2>1. /\ \A n \in Names : disk.names[n] # i /\ durable.names[n] # i
        /\ data' = [data EXCEPT ![i] = c]
        /\ Written(p, m) /\ EffectsKept(p) /\ Untouched(r.rollback)
        /\ \/ Go(w, "exchanging", m) /\ disk'.names = [disk.names EXCEPT ![r.rollback] = i]
           \/ Go(w, "refusing", without) /\ disk'.names = disk.names
    BY <1>10 DEF Copied
  <2>2. m \in Receipts /\ Rolled(m, r) /\ m.intact = "no"
    BY <1>5, <1>10
  <2>3. BackupsKept
    BY <1>3, <1>7, <2>1, BackupsUntouched
  <2>4. LiveContent' = LiveContent
    <3>1. r.rollback \in Names \ {Live}
      BY <1>3, <1>8 DEF Live
    <3> QED BY <1>3, <2>1, <3>1, LiveKept
  <2>5. CASE Go(w, "refusing", without)
    BY <1>1, <1>2, <1>4, <1>6, <2>1, <2>2, <2>3, <2>5, RollGoes
  <2>6. CASE Go(w, "exchanging", m)
    BY <1>1, <1>2, <1>4, <1>6, <2>1, <2>2, <2>3, <2>4, <2>6, RollGoes
  <2> QED BY <2>1, <2>5, <2>6
<1>11. CASE \E i \in Inodes : Copied(w, p, r.rollback, c, made[i], "exchanging", without, i)
  BY <1>10, <1>11
<1> QED BY <1>1, <1>3, <1>6, <1>7, <1>9, <1>11, CopyMade

LEMMA RefuseRollbackKept ==
  ASSUME TypeLockInv, KeptInv, NEW w \in Windows, RefuseRollback(w)
  PROVE  KeptInv'
<1>1. PICK p, r : p = task[w].plan /\ r = task[w].receipt
  OBVIOUS
<1>2. task[w].op = "rollback"
  BY DEF RefuseRollback, At
<1>3. /\ TypeInv /\ p \in Plans /\ NamesApart /\ disk \in Disks /\ durable \in Disks
      /\ Rolled(r, r)
  BY <1>1, <1>2, WorkerFacts, RollFacts
<1>4. /\ UNCHANGED <<data, plan, confirms, displaced>> /\ Return(w)
      /\ \E result \in Writes : WriteReceipt(disk, durable, p, r, result)
      /\ held' = held \/ held' = [held EXCEPT ![w] = NoReview]
  BY <1>1, ReviewDropped DEF RefuseRollback
<1>5. /\ Written(p, r) /\ EffectsKept(p)
      /\ disk'.names = disk.names /\ durable'.names \in {disk.names, durable.names}
  BY <1>3, <1>4, WriteStep
<1>6. BackupsKept
  BY <1>3, <1>4, <1>5, BackupsSame, PlansSame
<1> QED BY <1>1, <1>2, <1>3, <1>4, <1>5, <1>6, RollReturns

LEMMA ExchangeRollbackKept ==
  ASSUME TypeLockInv, KeptInv, NEW w \in Windows, ExchangeRollback(w)
  PROVE  KeptInv'
<1>1. PICK p, r, u : p = task[w].plan /\ r = task[w].receipt /\ u = Unrolled(r)
  OBVIOUS
<1>2. /\ task[w].op = "rollback" /\ task[w].at = "exchanging"
      /\ {"checking", "refusing"} \subseteq RollbackSteps
  BY DEF ExchangeRollback, At, RollbackSteps
<1>3. /\ TypeInv /\ p \in Plans /\ r \in Receipts /\ NamesApart
      /\ disk \in Disks /\ durable \in Disks /\ Sound(disk)
      /\ r.rollback \in Names /\ Removable(r.rollback)
  BY <1>1, <1>2, WorkerFacts
<1>4. /\ r.intact = "no" /\ LiveContent = p /\ Rolled(r, r)
      /\ Rolled(u, r) /\ u \in Receipts /\ u.intact = "no"
  BY <1>1, <1>2, RollFacts
<1>5. disk.names[r.rollback] # 0
  BY <1>1, <1>2 DEF TypeLockInv, LockAt, File
<1>6. UNCHANGED <<durable, data, confirms, plan, held>>
  BY DEF ExchangeRollback
<1>7. ExpectsKept
  BY <1>6, PlansSame
<1>8. \/ /\ disk' = Exchanged(p, r.rollback, "rolled back")
         /\ displaced' = displaced \cup {LiveContent} /\ Go(w, "checking", r)
      \/ /\ disk' = Without(disk, r.rollback) /\ displaced' = displaced
         /\ Go(w, "refusing", u)
  BY <1>1 DEF ExchangeRollback
<1>9. CASE /\ disk' = Exchanged(p, r.rollback, "rolled back")
           /\ displaced' = displaced \cup {LiveContent} /\ Go(w, "checking", r)
  <2>1. disk'.receipts = disk.receipts /\ disk'.effect = [disk.effect EXCEPT ![p] = "rolled back"]
    BY <1>3, <1>5, <1>9, Swapped DEF Effects
  <2>2. Written(p, r) /\ EffectsKept(p)
    BY <1>3, <1>6, <2>1 DEF Written, EffectsKept, Disks
  <2>3. Untouched(r.rollback)
    BY <1>3, <1>5, <1>6, <1>9, SwappedUntouched DEF Effects
  <2>4. BackupsKept
    BY <1>3, <1>7, <2>3, BackupsUntouched
  <2>5. displaced' \subseteq displaced \cup Plans
    BY <1>3, <1>4, <1>9
  <2> QED BY <1>1, <1>2, <1>3, <1>4, <1>6, <1>9, <2>2, <2>4, <2>5, RollGoes
<1>10. CASE /\ disk' = Without(disk, r.rollback) /\ displaced' = displaced
            /\ Go(w, "refusing", u)
  <2>1. disk'.receipts = disk.receipts /\ disk'.effect = disk.effect
    BY <1>3, <1>10, Removed
  <2>2. Written(p, r) /\ EffectsKept(p)
    BY <1>3, <1>6, <2>1, NothingWritten
  <2>3. Untouched(r.rollback)
    BY <1>3, <1>6, <1>10, RemovedUntouched
  <2>4. BackupsKept
    BY <1>3, <1>7, <2>3, BackupsUntouched
  <2> QED BY <1>1, <1>2, <1>3, <1>4, <1>6, <1>10, <2>2, <2>4, RollGoes
<1> QED BY <1>8, <1>9, <1>10

LEMMA CheckRollbackKept ==
  ASSUME TypeLockInv, KeptInv, NEW w \in Windows, CheckRollback(w)
  PROVE  KeptInv'
<1>1. PICK p, r : p = task[w].plan /\ r = task[w].receipt
  OBVIOUS
<1> DEFINE back == Exchanged(p, r.rollback, "restored")
           rolled == [r EXCEPT !.state = "rolled_back", !.intact = "yes"]
           failed == [r EXCEPT !.state = "rollback_failed", !.intact = "unknown"]
<1>2. task[w].op = "rollback" /\ task[w].at = "checking"
  BY DEF CheckRollback, At
<1>3. /\ TypeInv /\ p \in Plans /\ r \in Receipts /\ NamesApart
      /\ disk \in Disks /\ durable \in Disks /\ Sound(disk)
      /\ r.rollback \in Names /\ Removable(r.rollback)
  BY <1>1, <1>2, WorkerFacts
<1>4. Rolled(r, r) /\ Rolled(Unrolled(r), r)
  BY <1>1, <1>2, RollFacts
<1>5. Rolled(rolled, r) /\ Rolled(failed, r)
  BY <1>3, <1>4 DEF Receipts, Rolled
<1>6. disk.names[r.rollback] # 0
  BY <1>1, <1>2 DEF TypeLockInv, LockAt, File
<1>7. /\ Return(w) /\ UNCHANGED <<data, plan, confirms, displaced>>
      /\ held' = held \/ held' = [held EXCEPT ![w] = NoReview]
  BY ReviewDropped DEF CheckRollback
<1>8. ExpectsKept
  BY <1>7, PlansSame
<1>9. PICK result \in Writes :
        \/ WriteReceipt(Without(disk, r.rollback), disk, p, rolled, result)
        \/ \E synced \in {back, durable} :
             WriteReceipt(Without(back, r.rollback), synced, p, Unrolled(r), result)
        \/ WriteReceipt(disk, durable, p, failed, result)
  BY <1>1 DEF CheckRollback
<1> HIDE DEF rolled, failed
<1>10. CASE WriteReceipt(Without(disk, r.rollback), disk, p, rolled, result)
  <2>1. /\ Without(disk, r.rollback) \in Disks
        /\ Without(disk, r.rollback).receipts = disk.receipts
        /\ Without(disk, r.rollback).effect = disk.effect
    BY <1>3, Removed
  <2>2. /\ Written(p, rolled) /\ EffectsKept(p)
        /\ disk'.names = Without(disk, r.rollback).names
        /\ durable'.names \in {Without(disk, r.rollback).names, disk.names}
    BY <1>3, <1>10, <2>1, WriteStep
  <2>3. Untouched(r.rollback)
    BY <1>3, <1>7, <2>2, RemovedUntouched
  <2>4. BackupsKept
    BY <1>3, <1>8, <2>3, BackupsUntouched
  <2> QED BY <1>1, <1>2, <1>5, <1>7, <2>2, <2>4, RollReturns
<1>11. ASSUME NEW synced \in {back, durable},
              WriteReceipt(Without(back, r.rollback), synced, p, Unrolled(r), result)
       PROVE  KeptInv'
  <2>1. /\ back \in Disks /\ Sound(back) /\ back.receipts = disk.receipts
        /\ back.effect = [disk.effect EXCEPT ![p] = "restored"]
    BY <1>3, <1>6, Swapped DEF Effects
  <2> HIDE DEF back
  <2>2. /\ Without(back, r.rollback) \in Disks
        /\ Without(back, r.rollback).receipts = disk.receipts
        /\ Without(back, r.rollback).effect = back.effect
    BY <1>3, <2>1, Removed
  <2>3. \A q \in Plans \ {p} : back.effect[q] = disk.effect[q]
    BY <1>3, <2>1 DEF Disks
  <2>4. /\ synced \in Disks /\ synced.receipts \in {disk.receipts, durable.receipts}
        /\ \A q \in Plans \ {p} : synced.effect[q] \in {disk.effect[q], durable.effect[q]}
    BY <1>3, <2>1, <2>3
  <2>5. /\ Written(p, Unrolled(r)) /\ EffectsKept(p)
        /\ disk'.names = Without(back, r.rollback).names
        /\ durable'.names \in {Without(back, r.rollback).names, synced.names}
    BY <1>3, <1>11, <2>2, <2>3, <2>4, WriteStep
  <2>6. Untouched(r.rollback)
    <3>1. durable'.names \in {durable.names, disk'.names, back.names}
      BY <2>5
    <3> QED BY <1>3, <1>6, <1>7, <2>5, <3>1, SwappedUntouched DEF Effects, back
  <2>7. BackupsKept
    BY <1>3, <1>8, <2>6, BackupsUntouched
  <2> QED BY <1>1, <1>2, <1>4, <1>7, <2>5, <2>7, RollReturns
<1>12. CASE WriteReceipt(disk, durable, p, failed, result)
  <2>1. /\ Written(p, failed) /\ EffectsKept(p)
        /\ disk'.names = disk.names /\ durable'.names \in {disk.names, durable.names}
    BY <1>3, <1>12, WriteStep
  <2>2. BackupsKept
    BY <1>3, <1>7, <1>8, <2>1, BackupsSame
  <2> QED BY <1>1, <1>2, <1>5, <1>7, <2>1, <2>2, RollReturns
<1> QED BY <1>9, <1>10, <1>11, <1>12

-----------------------------------------------------------------------------
(* Reviews, starts and the settlement of an interrupted restore *)

\* A worker starts on a plan, or only announces it.
LEMMA KeptStarts ==
  ASSUME TypeLockInv, KeptInv, NEW w \in Windows, task[w] = Idle, NEW p \in Plans, NEW b,
         Written(p, b), Worked(w, p, b), EffectsKept(p),
         \A v \in Windows \ {w} : task'[v] = task[v] /\ held'[v] = held[v],
         task'[w].op = "idle" \/ task'[w].plan = p,
         task'[w].op # "idle" => held'[w] = held[w],
         plan' = plan, plan[p].expects # None,
         \A q \in Plans : confirms'[q] = confirms[q] \/ (q = p /\ ~Gone(p)),
         confirms'[p] = 1,
         BackupsKept, NamesApart', GoodCopy(b, p)', StepAt(w)', AloneAt(w)',
         UNCHANGED displaced, LiveContent' = LiveContent,
         \A v \in Windows \ {w} : task[v].op = "restore" => task[v].plan # p,
         task'[w].op = "restore" => ~Gone(p),
         Gone(p) => b.staged_sha = p
  PROVE  KeptInv'
<1>1. CopyInv /\ AloneInv /\ DisplacedInv
  BY DEF KeptInv
<1>2. ExpectsKept /\ PlansStay
  BY PlansSame
<1>3. \A q \in Plans : \A r \in CopiesOf(q)' : r \in CopiesOf(q) \/ (q = p /\ r \in {b, b})
  BY CopiesFollow
<1>4. CopyInv'
  <2>1. ASSUME NEW q \in Plans, NEW r \in CopiesOf(q)' PROVE GoodCopy(r, q)'
    <3>1. CASE r \in CopiesOf(q)
      BY <1>1, <3>1, GoodStays DEF CopyInv
    <3>2. CASE q = p /\ r \in {b, b}
      BY <3>2
    <3> QED BY <1>3, <3>1, <3>2
  <2>2. ASSUME NEW v \in Windows PROVE StepAt(v)'
    <3>1. CASE v = w
      BY <3>1
    <3>2. CASE v # w
      <4>1. task'[v] = task[v] /\ StepAt(v)
        BY <1>1, <3>2 DEF CopyInv
      <4>2. ASSUME task[v].op = "restore"
            PROVE  /\ disk'.receipts[task[v].plan] = disk.receipts[task[v].plan]
                   /\ durable'.receipts[task[v].plan]
                        \in {disk.receipts[task[v].plan], durable.receipts[task[v].plan]}
        <5>1. task[v].plan # p /\ task[v].plan \in Plans
          BY <3>2, <4>2, Busy DEF TypeLockInv
        <5> QED BY <5>1 DEF Written
      <4> QED BY <1>2, <3>2, <4>1, <4>2, OtherStep
    <3> QED BY <3>1, <3>2
  <2> QED BY <2>1, <2>2 DEF CopyInv
<1>5. /\ \A v \in Windows : task'[v].plan \in {task[v].plan, None, p}
      /\ \A v \in Windows : held'[v].plan \in {held[v].plan, None}
  BY IdleFields DEF Worked
<1>6. AloneInv'
  <2>1. ASSUME NEW v \in Windows PROVE AloneAt(v)'
    <3>1. CASE v = w
      BY <3>1
    <3>2. CASE v # w
      <4>1. AloneAt(v) /\ task'[v] = task[v] /\ held'[v] = held[v]
        BY <1>1, <3>2 DEF AloneInv
      <4>2. CASE task[v].op = "restore"
        <5>1. task[v].plan \in Plans /\ task[v].plan # p /\ task[v].plan # None
          BY <3>2, <4>2, Busy, NoneApart DEF TypeLockInv
        <5>2. /\ \A x \in Windows : held'[x].plan # task[v].plan
              /\ \A x \in Windows \ {v} : task'[x].plan # task[v].plan
          BY <1>5, <4>1, <4>2, <5>1 DEF AloneAt
        <5>3. disk'.receipts[task[v].plan].state # "completed"
          BY <4>1, <4>2, <5>1 DEF AloneAt, Written
        <5> QED BY <4>1, <4>2, <5>2, <5>3 DEF AloneAt
      <4>3. CASE task[v].op # "restore"
        BY <4>1, <4>3 DEF AloneAt
      <4> QED BY <4>2, <4>3
    <3> QED BY <3>1, <3>2
  <2>2. ASSUME NEW q \in Plans
        PROVE  /\ confirms'[q] \in {0, 1}
               /\ confirms'[q] = 0 => Unconfirmed(q)'
               /\ plan'[q].by # None =>
                    plan'[q].expects # None /\ "restore" \in Buttons[plan'[q].by]
               /\ confirms'[q] # 0 => plan'[q].expects # None
    <3>1. /\ confirms[q] \in {0, 1} /\ (confirms[q] = 0 => Unconfirmed(q))
          /\ plan[q].by # None => plan[q].expects # None /\ "restore" \in Buttons[plan[q].by]
          /\ confirms[q] # 0 => plan[q].expects # None
      BY <1>1 DEF AloneInv, PlanInv
    <3>2. CASE q = p
      BY <3>1, <3>2
    <3>3. CASE q # p
      <4>1. confirms'[q] = confirms[q]
        BY <3>3
      <4>2. ASSUME confirms[q] = 0 PROVE Unconfirmed(q)'
        <5>1. Unconfirmed(q)
          BY <3>1, <4>2
        <5>2. disk'.receipts[q] = NoReceipt /\ durable'.receipts[q] = NoReceipt
          BY <3>3, <5>1 DEF Unconfirmed, Written
        <5>3. disk'.effect[q] = "none" /\ durable'.effect[q] = "none"
          BY <3>3, <5>1 DEF Unconfirmed, EffectsKept
        <5>4. \A v \in Windows : task'[v].plan # q /\ held'[v].plan # q
          BY <1>5, <3>3, <5>1, NoneApart DEF Unconfirmed
        <5> QED BY <5>2, <5>3, <5>4 DEF Unconfirmed
      <4> QED BY <3>1, <4>1, <4>2
    <3> QED BY <3>2, <3>3
  <2> QED BY <2>1, <2>2 DEF AloneInv, PlanInv
<1>7. ASSUME NEW q \in Plans, Gone(q) PROVE Gone(q)'
  <2>1. confirms'[q] # 0
    BY <1>7 DEF Gone
  <2>2. ~Before(q)'
    <3> SUFFICES ASSUME NEW v \in Windows, task'[v].op = "restore", task'[v].plan = q,
                        task'[v].at \in Pending
                 PROVE  FALSE
      BY DEF Before
    <3>1. CASE v = w
      BY <1>7, <3>1
    <3>2. CASE v # w
      BY <1>7, <3>2 DEF Gone, Before
    <3> QED BY <3>1, <3>2
  <2>3. \A r \in CopiesOf(q)' : r.staged_sha = q
    BY <1>3, <1>7 DEF Gone
  <2> QED BY <2>1, <2>2, <2>3 DEF Gone
<1>8. DisplacedInv'
  <2> SUFFICES ASSUME NEW c \in displaced \ Plans
               PROVE  \E q \in Plans : plan'[q].expects = c /\ Gone(q)'
    BY DEF DisplacedInv
  <2>1. PICK q \in Plans : plan[q].expects = c /\ Gone(q)
    BY <1>1 DEF DisplacedInv
  <2> QED BY <1>7, <2>1
<1> QED BY <1>4, <1>6, <1>8 DEF KeptInv

LEMMA ConfirmKept ==
  ASSUME ConfirmedOnce, TypeLockInv, KeptInv, NEW w \in Windows, NEW p \in Plans, Confirm(w, p)
  PROVE  KeptInv'
<1> DEFINE r == [NoReceipt EXCEPT !.state = "validating"]
           t == [op |-> "restore", at |-> "excluding", plan |-> p, receipt |-> r]
<1>1. /\ TypeInv /\ disk \in Disks /\ durable \in Disks /\ task[w] = Idle
      /\ NamesApart /\ task \in [Windows -> Tasks] /\ confirms \in [Plans -> Nat]
  BY DEF TypeLockInv, TypeInv, Confirm, KeptInv, CopyInv
<1>2. /\ r.staged_sha = None /\ r.applied_sha = None /\ r.replacement = 0
      /\ r.state = "validating"
      /\ r.emergency = 0 /\ r.staged = 0 /\ r.rollback = 0
  BY DEF NoReceipt
<1>3. /\ confirms' = [confirms EXCEPT ![p] = @ + 1]
      /\ UNCHANGED <<data, plan, held, displaced>>
      /\ plan[p].by = w /\ confirms[p] < MaxConfirms
  BY DEF Confirm
<1>4. PICK result \in Writes :
        /\ WriteReceipt(disk, durable, p, r, result)
        /\ task' = IF result = "ok" THEN [task EXCEPT ![w] = t] ELSE task
  BY DEF Confirm
<1>5. t.op = "restore" /\ t.at = "excluding" /\ t.plan = p /\ t.receipt = r
  OBVIOUS
<1> HIDE DEF r, t
<1>6. plan[p].expects # None /\ "restore" \in Buttons[w] /\ confirms[p] \in {0, 1}
  BY <1>3, NoneApart DEF KeptInv, AloneInv, PlanInv
<1>7. confirms[p] = 0
  BY <1>3, <1>6 DEF ConfirmedOnce
<1>8. Unconfirmed(p) /\ ~Gone(p)
  BY <1>7 DEF KeptInv, AloneInv, PlanInv, Gone
<1>9. /\ confirms'[p] = 1 /\ \A q \in Plans : confirms'[q] = confirms[q] \/ q = p
  BY <1>1, <1>3, <1>7
<1>10. /\ Written(p, r) /\ EffectsKept(p)
       /\ disk'.names = disk.names /\ durable'.names \in {disk.names, durable.names}
  BY <1>1, <1>4, WriteStep
<1>11. BackupsKept /\ LiveContent' = LiveContent
  BY <1>1, <1>3, <1>10, BackupsSame, PlansSame DEF LiveContent, LiveFile
<1>12. /\ \A v \in Windows \ {w} : task'[v] = task[v]
       /\ task'[w] = Idle \/ task'[w] = t
  BY <1>1, <1>4
<1>13. Worked(w, p, r)
  BY <1>1, <1>3, <1>5, <1>12 DEF Worked
<1>14. NamesApart'
  <2>1. \A q \in Plans : \A s \in CopiesOf(q)' : s \in CopiesOf(q) \/ (q = p /\ s \in {r, r})
    BY <1>10, <1>13, CopiesFollow
  <2>2. disk.receipts[p] \in CopiesOf(p) /\ NamesFrom(r, disk.receipts[p])
    BY <1>2, Copies DEF NamesFrom
  <2> QED BY <1>1, <2>1, <2>2, NamesFollow
<1>15. GoodCopy(r, p)'
  BY <1>2, GoodBare
<1>16. StepAt(w)'
  <2>1. plan'[p].expects # None
    BY <1>3, <1>6
  <2>2. "excluding" \in Early /\ "excluding" \notin {"backing up", "staging", "exchanging"}
    BY DEF Early
  <2> QED BY <1>2, <1>5, <1>12, <2>1, <2>2, IdleFields DEF StepAt
<1>17. /\ \A v \in Windows : held'[v].plan # p
       /\ \A v \in Windows \ {w} : task'[v].plan # p
  BY <1>3, <1>8, <1>12 DEF Unconfirmed
<1>18. AloneAt(w)'
  <2>1. disk'.receipts[p].state # "completed"
    BY <1>2, <1>8, <1>10 DEF Written, Unconfirmed, NoReceipt
  <2> QED BY <1>5, <1>6, <1>12, <1>17, <2>1, IdleFields DEF AloneAt
<1>19. \A v \in Windows \ {w} : task[v].plan # p
  BY <1>8 DEF Unconfirmed
<1>20. task'[w].op = "idle" \/ task'[w].plan = p
  BY <1>5, <1>12, IdleFields
<1> QED BY <1>1, <1>3, <1>6, <1>8, <1>9, <1>10, <1>11, <1>12, <1>13, <1>14, <1>15, <1>16,
           <1>18, <1>19, <1>20, KeptStarts

LEMMA ReadInterruptedKept ==
  ASSUME OneRestorer, TypeLockInv, KeptInv, NEW w \in Windows, NEW p \in Plans,
         ReadInterrupted(w, p)
  PROVE  KeptInv'
<1>1. PICK r : r = disk.receipts[p]
  OBVIOUS
<1> DEFINE t == [op |-> "finalise", at |-> "assessing", plan |-> p, receipt |-> r]
<1>2. /\ TypeInv /\ disk \in Disks /\ durable \in Disks /\ task[w] = Idle
      /\ NamesApart /\ task \in [Windows -> Tasks]
      /\ \A q \in Plans : \A s \in CopiesOf(q) : GoodCopy(s, q)
  BY DEF TypeLockInv, TypeInv, ReadInterrupted, KeptInv, CopyInv
<1>3. /\ UNCHANGED <<disk, durable, data, confirms, plan, held, displaced>>
      /\ task' = [task EXCEPT ![w] = t] /\ "finalise" \in Buttons[w]
      /\ r.state \notin Terminal \cup {"none"}
  BY <1>1 DEF ReadInterrupted, Same, Interrupted
<1>4. t.op = "finalise" /\ t.at = "assessing" /\ t.plan = p /\ t.receipt = r
  OBVIOUS
<1> HIDE DEF t
<1>5. task'[w] = t /\ \A v \in Windows \ {w} : task'[v] = task[v]
  BY <1>2, <1>3
<1>6. /\ confirms[p] = 1 /\ plan[p].expects # None
  <2>1. /\ confirms[p] \in {0, 1} /\ (confirms[p] = 0 => Unconfirmed(p))
        /\ confirms[p] # 0 => plan[p].expects # None
    BY DEF KeptInv, AloneInv, PlanInv
  <2>2. ~Unconfirmed(p)
    BY <1>1, <1>3 DEF Unconfirmed, NoReceipt
  <2> QED BY <2>1, <2>2
<1>7. \A v \in Windows \ {w} : task[v].op # "restore"
  <2>1. PICK x \in Windows : \A v \in Windows \ {x} : Buttons[v] \subseteq {"rollback"}
    BY DEF OneRestorer
  <2>2. x = w
    BY <1>3, <2>1
  <2>3. \A v \in Windows \ {w} : "restore" \notin Buttons[v]
    BY <2>1, <2>2
  <2> QED BY <2>3 DEF KeptInv, AloneInv, AloneAt
<1>8. Written(p, r) /\ EffectsKept(p) /\ Worked(w, p, r)
  BY <1>3, <1>4, <1>5, NothingWritten DEF Worked
<1>9. BackupsKept /\ LiveContent' = LiveContent
  BY <1>2, <1>3, BackupsSame, PlansSame DEF LiveContent, LiveFile
<1>10. r \in CopiesOf(p) /\ GoodCopy(r, p)
  BY <1>1, <1>2, Copies
<1>11. GoodCopy(r, p)'
  BY <1>9, <1>10, GoodStays
<1>12. NamesApart'
  <2>1. \A q \in Plans : \A s \in CopiesOf(q)' : s \in CopiesOf(q) \/ (q = p /\ s \in {r, r})
    BY <1>8, CopiesFollow
  <2>2. NamesFrom(r, r)
    BY DEF NamesFrom
  <2> QED BY <1>2, <1>10, <2>1, <2>2, NamesFollow
<1>13. StepAt(w)' /\ AloneAt(w)'
  BY <1>3, <1>4, <1>5 DEF StepAt, AloneAt
<1>14. Gone(p) => r.staged_sha = p
  BY <1>10 DEF Gone
<1>15. task'[w].plan = p /\ task'[w].op # "restore"
  BY <1>4, <1>5
<1> QED BY <1>2, <1>3, <1>5, <1>6, <1>7, <1>8, <1>9, <1>11, <1>12, <1>13, <1>14, <1>15, KeptStarts

LEMMA BeginRollbackKept ==
  ASSUME TypeLockInv, KeptInv, NEW w \in Windows, BeginRollback(w)
  PROVE  KeptInv'
<1>1. PICK p, h, l : p = held[w].plan /\ h = held[w].receipt /\ l = LiveFile(disk)
  OBVIOUS
<1>2. /\ TypeInv /\ disk \in Disks /\ durable \in Disks /\ task[w] = Idle
      /\ NamesApart /\ task \in [Windows -> Tasks] /\ held \in [Windows -> Reviews]
      /\ \A q \in Plans : \A s \in CopiesOf(q) : GoodCopy(s, q)
  BY DEF TypeLockInv, TypeInv, BeginRollback, KeptInv, CopyInv
<1>3. p \in Plans /\ h \in Receipts /\ h \in CopiesOf(p) /\ l \in Inodes
  BY <1>1, <1>2, Types, Copies DEF BeginRollback
<1>4. /\ h.state = "completed" /\ h.staged_sha = p /\ h.applied_sha = p /\ h.intact = "no"
      /\ GoodCopy(h, p)
  <2>1. h.state = "completed"
    BY <1>1 DEF TypeLockInv, ShapeAt, BeginRollback
  <2> QED BY <1>2, <1>3, <2>1 DEF GoodCopy
<1>5. /\ confirms[p] = 1 /\ plan[p].expects # None
  <2>1. /\ confirms[p] \in {0, 1} /\ (confirms[p] = 0 => Unconfirmed(p))
        /\ confirms[p] # 0 => plan[p].expects # None
    BY <1>3 DEF KeptInv, AloneInv, PlanInv
  <2>2. ~Unconfirmed(p)
    BY <1>1 DEF Unconfirmed
  <2> QED BY <2>1, <2>2
<1>6. \A v \in Windows \ {w} : task[v].op = "restore" => task[v].plan # p
  BY <1>1 DEF KeptInv, AloneInv, AloneAt
<1>7. UNCHANGED <<data, plan, confirms, displaced>>
  BY DEF BeginRollback
<1>8. ASSUME NEW b, GoodCopy(b, p)', b.staged_sha = p, Written(p, b), EffectsKept(p), Worked(w, p, b),
             disk'.names = disk.names, durable'.names \in {disk.names, durable.names},
             NamesApart', StepAt(w)',
             \/ task' = task /\ (held' = held \/ held' = [held EXCEPT ![w] = NoReview])
             \/ /\ held' = held /\ task'[w].op = "rollback" /\ task'[w].plan = p
                /\ \A v \in Windows \ {w} : task'[v] = task[v]
      PROVE  KeptInv'
  <2>1. BackupsKept /\ LiveContent' = LiveContent
    BY <1>2, <1>7, <1>8, BackupsSame, PlansSame DEF LiveContent, LiveFile
  <2>2. \A v \in Windows \ {w} : task'[v] = task[v] /\ held'[v] = held[v]
    BY <1>2, <1>8
  <2>3. task'[w].op \in {"idle", "rollback"} /\ (task'[w].op = "idle" \/ task'[w].plan = p)
    BY <1>2, <1>8, IdleFields
  <2>4. task'[w].op # "idle" => held'[w] = held[w]
    BY <1>2, <1>8, IdleFields
  <2>5. AloneAt(w)'
    BY <1>1, <2>3, <2>4 DEF AloneAt
  <2>6. confirms'[p] = 1 /\ task'[w].op # "restore"
        /\ \A q \in Plans : confirms'[q] = confirms[q] \/ (q = p /\ ~Gone(p))
    BY <1>5, <1>7, <2>3
  <2> QED BY <1>2, <1>3, <1>5, <1>6, <1>7, <1>8, <2>1, <2>2, <2>3, <2>4, <2>5, <2>6, KeptStarts
<1>9. ASSUME held' = ReviewAfterError(w), UNCHANGED <<disk, durable, task>>
      PROVE  KeptInv'
  <2>1. held' = held \/ held' = [held EXCEPT ![w] = NoReview]
    BY <1>9, ReviewDropped
  <2>2. Written(p, h) /\ EffectsKept(p) /\ Worked(w, p, h)
    BY <1>2, <1>3, <1>9, <2>1, NothingWritten DEF Worked
  <2>3. GoodCopy(h, p)'
    BY <1>2, <1>3, <1>4, <1>7, <1>9, GoodStays, BackupsSame, PlansSame
  <2>4. NamesApart'
    <3>1. \A q \in Plans : \A s \in CopiesOf(q)' : s \in CopiesOf(q) \/ (q = p /\ s \in {h, h})
      BY <1>3, <2>2, CopiesFollow
    <3>2. NamesFrom(h, h)
      BY DEF NamesFrom
    <3> QED BY <1>2, <1>3, <3>1, <3>2, NamesFollow
  <2>5. StepAt(w)'
    BY <1>2, <1>9, IdleStep
  <2> QED BY <1>4, <1>8, <1>9, <2>1, <2>2, <2>3, <2>4, <2>5
<1>10. ASSUME InputsHold(h), NEW n \in FreeNames, NEW result \in Writes,
              LET b == [h EXCEPT !.state = "rollback_attempted", !.rollback = n,
                                 !.rollback_identity = 0, !.replacement = l] IN
              /\ WriteReceipt(disk, durable, p, b, result)
              /\ IF result = "ok"
                 THEN /\ task' = [task EXCEPT ![w] = [op |-> "rollback", at |-> "staging",
                                                      plan |-> p, receipt |-> b]]
                      /\ UNCHANGED held
                 ELSE task' = task /\ held' = ReviewAfterError(w)
       PROVE  KeptInv'
  <2> DEFINE b == [h EXCEPT !.state = "rollback_attempted", !.rollback = n,
                            !.rollback_identity = 0, !.replacement = l]
             t == [op |-> "rollback", at |-> "staging", plan |-> p, receipt |-> b]
  <2>1. /\ b.state = "rollback_attempted" /\ b.rollback = n /\ b.emergency = h.emergency
        /\ b.emergency_sha = h.emergency_sha /\ b.staged = h.staged
        /\ b.staged_sha = p /\ b.applied_sha = p /\ b.intact = "no"
    BY <1>3, <1>4 DEF Receipts
  <2>2. t.op = "rollback" /\ t.at = "staging" /\ t.plan = p /\ t.receipt = b
    OBVIOUS
  <2>3. /\ WriteReceipt(disk, durable, p, b, result)
        /\ \/ task' = [task EXCEPT ![w] = t] /\ held' = held
           \/ task' = task /\ held' = ReviewAfterError(w)
    BY <1>10
  <2> HIDE DEF b, t
  <2>4. \/ held' = held /\ task'[w] = t /\ \A v \in Windows \ {w} : task'[v] = task[v]
        \/ task' = task /\ (held' = held \/ held' = [held EXCEPT ![w] = NoReview])
    BY <1>2, <2>3, ReviewDropped
  <2>5. /\ Written(p, b) /\ EffectsKept(p)
        /\ disk'.names = disk.names /\ durable'.names \in {disk.names, durable.names}
    BY <1>2, <1>3, <2>3, WriteStep
  <2>6. Worked(w, p, b)
    BY <1>2, <2>2, <2>4 DEF Worked
  <2>7. NamesApart'
    <3>1. \A q \in Plans : \A s \in CopiesOf(q)' : s \in CopiesOf(q) \/ (q = p /\ s \in {b, b})
      BY <1>3, <2>5, <2>6, CopiesFollow
    <3>2. b.rollback \in FreeNames
      BY <1>10, <2>1
    <3> QED BY <1>2, <1>3, <2>1, <3>1, <3>2, NamesFresh
  <2>8. BackupsKept
    BY <1>2, <1>7, <2>5, BackupsSame, PlansSame
  <2>9. GoodCopy(b, p)'
    BY <1>3, <1>4, <2>1, <2>8, GoodLater
  <2>10. LiveContent' = p
    <3>1. LiveContent = p
      BY <1>4, <1>10 DEF InputsHold
    <3> QED BY <1>7, <2>5, <3>1 DEF LiveContent, LiveFile
  <2>11. StepAt(w)'
    <3>1. CASE task'[w] = t
      BY <2>1, <2>2, <2>10, <3>1 DEF StepAt
    <3>2. CASE task' = task
      BY <1>2, <3>2, IdleStep
    <3> QED BY <2>4, <3>1, <3>2
  <2> QED BY <1>8, <2>1, <2>2, <2>4, <2>5, <2>6, <2>7, <2>9, <2>11
<1>11. \/ /\ held' = ReviewAfterError(w) /\ UNCHANGED <<disk, durable, task>>
       \/ /\ InputsHold(h)
          /\ \E n \in FreeNames : \E result \in Writes :
              LET b == [h EXCEPT !.state = "rollback_attempted", !.rollback = n,
                                 !.rollback_identity = 0, !.replacement = l] IN
              /\ WriteReceipt(disk, durable, p, b, result)
              /\ IF result = "ok"
                 THEN /\ task' = [task EXCEPT ![w] = [op |-> "rollback", at |-> "staging",
                                                      plan |-> p, receipt |-> b]]
                      /\ UNCHANGED held
                 ELSE task' = task /\ held' = ReviewAfterError(w)
  BY <1>1 DEF BeginRollback
<1> QED BY <1>9, <1>10, <1>11

\* What finalisation may write, and what it keeps of the receipt it read.
LEMMA SettledGood ==
  ASSUME NEW p \in Plans, NEW r \in Receipts, GoodCopy(r, p), LiveFile(disk) # 0,
         NEW b \in Settled(r)
  PROVE  /\ NamesFrom(b, r) /\ b.emergency = r.emergency /\ b.emergency_sha = r.emergency_sha
         /\ b.staged_sha = r.staged_sha /\ b.replacement = r.replacement
         /\ b.applied_sha \in {None, p}
         /\ b.state = "completed" => b.staged_sha = p /\ b.applied_sha = p /\ b.intact = "no"
<1>1. r.staged_sha \in {None, p} /\ r.applied_sha \in {None, p} /\ (r.replacement # 0 => r.staged_sha = p)
  BY DEF GoodCopy
<1>2. CASE b = [r EXCEPT !.state = "failed", !.intact = "yes"]
  BY <1>1, <1>2 DEF NamesFrom, Receipts
<1>3. CASE b = [r EXCEPT !.state = "rolled_back", !.intact = "yes"]
  BY <1>1, <1>3 DEF NamesFrom, Receipts
<1>4. CASE /\ b = [Unrolled(r) EXCEPT !.intact = "no", !.applied_sha = r.staged_sha]
           /\ Assess(r) = "replacement"
  <2>1. LiveFile(disk) = r.replacement
    BY <1>4 DEF Assess
  <2>2. r.staged_sha = p
    BY <1>1, <2>1
  <2>3. /\ b.emergency = r.emergency /\ b.emergency_sha = r.emergency_sha
        /\ b.staged = r.staged /\ b.rollback = 0 /\ b.staged_sha = r.staged_sha
        /\ b.replacement = r.replacement /\ b.applied_sha = r.staged_sha /\ b.intact = "no"
    BY <1>4 DEF Unrolled, Receipts
  <2> QED BY <2>2, <2>3 DEF NamesFrom
<1>5. Assess(r) \in {"original", "replacement", "rollback", "unrecognised"}
  BY DEF Assess
<1>6. \/ b = [r EXCEPT !.state = "failed", !.intact = "yes"]
      \/ b = [r EXCEPT !.state = "rolled_back", !.intact = "yes"]
      \/ /\ b = [Unrolled(r) EXCEPT !.intact = "no", !.applied_sha = r.staged_sha]
         /\ Assess(r) = "replacement"
  BY <1>5 DEF Settled
<1> QED BY <1>2, <1>3, <1>4, <1>6

LEMMA FinaliseKept ==
  ASSUME TypeLockInv, KeptInv, NEW w \in Windows, Finalise(w)
  PROVE  KeptInv'
<1>1. PICK p, r : p = task[w].plan /\ r = task[w].receipt
  OBVIOUS
<1>2. task[w].op = "finalise"
  BY DEF Finalise, At
<1>3. /\ TypeInv /\ p \in Plans /\ r \in Receipts /\ r \in CopiesOf(p) /\ GoodCopy(r, p)
      /\ NamesApart /\ disk \in Disks /\ durable \in Disks
  BY <1>1, <1>2, WorkerFacts
<1>4. /\ UNCHANGED <<data, confirms, plan, held, displaced>> /\ Return(w)
      /\ \/ \E b \in Settled(r), result \in Writes :
              WriteReceipt([disk EXCEPT !.stale[p] = @ \/ disk.receipts[p] # r],
                           durable, p, b, result)
         \/ UNCHANGED <<disk, durable>>
  BY <1>1 DEF Finalise, Same
<1>5. PlansStay /\ ExpectsKept
  BY <1>4, PlansSame
<1>6. ASSUME NEW b, NamesFrom(b, r), b.emergency = r.emergency, b.emergency_sha = r.emergency_sha,
             b.staged_sha = r.staged_sha, b.replacement = r.replacement, b.applied_sha \in {None, p},
             b.state = "completed" => b.staged_sha = p /\ b.applied_sha = p /\ b.intact = "no",
             Written(p, b), EffectsKept(p), disk'.names = disk.names,
             durable'.names \in {disk.names, durable.names}
      PROVE  KeptInv'
  <2>1. BackupsKept /\ LiveContent' = LiveContent
    BY <1>3, <1>4, <1>5, <1>6, BackupsSame DEF LiveContent, LiveFile
  <2>2. GoodCopy(r, p)'
    BY <1>3, <2>1, GoodStays
  <2>3. GoodCopy(b, p)'
    BY <1>6, <2>2 DEF GoodCopy, Secured
  <2>4. Gone(p) => b.staged_sha = p
    BY <1>3, <1>6 DEF Gone
  <2> QED BY <1>1, <1>2, <1>4, <1>5, <1>6, <2>1, <2>3, <2>4, KeptReturns
<1>7. CASE UNCHANGED <<disk, durable>>
  <2>1. Written(p, r) /\ EffectsKept(p)
    BY <1>3, <1>7, NothingWritten
  <2>2. NamesFrom(r, r)
    BY DEF NamesFrom
  <2>3. /\ r.applied_sha \in {None, p}
        /\ r.state = "completed" => r.staged_sha = p /\ r.applied_sha = p /\ r.intact = "no"
    BY <1>3 DEF GoodCopy
  <2> QED BY <1>6, <1>7, <2>1, <2>2, <2>3
<1>8. ASSUME NEW b \in Settled(r), NEW result \in Writes,
             WriteReceipt([disk EXCEPT !.stale[p] = @ \/ disk.receipts[p] # r],
                          durable, p, b, result)
      PROVE  KeptInv'
  <2> DEFINE d == [disk EXCEPT !.stale[p] = @ \/ disk.receipts[p] # r]
  <2>1. d \in Disks /\ d.receipts = disk.receipts /\ d.effect = disk.effect /\ d.names = disk.names
    BY <1>3 DEF Disks
  <2>2. WriteReceipt(d, durable, p, b, result)
    BY <1>8
  <2> HIDE DEF d
  <2>3. /\ Written(p, b) /\ EffectsKept(p)
        /\ disk'.names = disk.names /\ durable'.names \in {disk.names, durable.names}
    BY <1>3, <2>1, <2>2, WriteStep
  <2>4. LiveFile(disk) # 0
    BY <1>3 DEF TypeInv, Sound, LiveFile
  <2>5. /\ NamesFrom(b, r) /\ b.emergency = r.emergency /\ b.emergency_sha = r.emergency_sha
        /\ b.staged_sha = r.staged_sha /\ b.replacement = r.replacement
        /\ b.applied_sha \in {None, p}
        /\ b.state = "completed" => b.staged_sha = p /\ b.applied_sha = p /\ b.intact = "no"
    BY <1>3, <2>4, SettledGood
  <2> QED BY <1>6, <2>3, <2>5
<1> QED BY <1>4, <1>7, <1>8

\* No worker is touched: reviews and plans come and go, the library is used, or
\* processes die.
LEMMA KeptAround ==
  ASSUME TypeLockInv, KeptInv,
         \A v \in Windows : task'[v] = task[v] \/ task'[v] = Idle,
         \A p \in Plans : \A r \in CopiesOf(p)' : r \in CopiesOf(p),
         \A v \in Windows : held'[v] \in {held[v], NoReview} \/
           (/\ task[v].op = "idle" /\ task'[v].op = "idle"
            /\ held'[v].plan \in Plans => disk.receipts[held'[v].plan].state = "completed"),
         \A v \in Windows : task'[v].op = "rollback" => held'[v] = held[v],
         ExpectsKept, UNCHANGED <<confirms, displaced>>, BackupsKept,
         \A v \in Windows : task'[v].op # "idle" =>
           disk' = disk /\ durable' = durable /\ (lock = v => LiveContent' = LiveContent),
         \A p \in Plans :
           \/ plan'[p].by = None /\ plan'[p].expects = plan[p].expects
           \/ plan'[p] = plan[p]
           \/ plan'[p].expects # None /\ "restore" \in Buttons[plan'[p].by],
         \A p \in Plans : Unconfirmed(p) =>
           /\ disk'.receipts[p] = NoReceipt /\ durable'.receipts[p] = NoReceipt
           /\ disk'.effect[p] = "none" /\ durable'.effect[p] = "none"
  PROVE  KeptInv'
<1>1. /\ CopyInv /\ AloneInv /\ DisplacedInv /\ NamesApart
  BY DEF KeptInv, CopyInv
<1>2. ASSUME NEW q \in Plans, NEW r \in CopiesOf(q)' PROVE GoodCopy(r, q)'
  BY <1>1, GoodStays DEF CopyInv
<1>3. NamesApart'
  <2>1. \A r : NamesFrom(r, r)
    BY DEF NamesFrom
  <2> QED BY <1>1, <2>1, NamesStay
<1>4. ASSUME NEW v \in Windows PROVE StepAt(v)'
  <2>1. CASE task'[v] = Idle
    BY <2>1, IdleStep
  <2>2. CASE task'[v] = task[v] /\ task[v].op # "idle"
    <3>1. StepAt(v) /\ task[v].plan \in Plans
      BY <1>1, <2>2, Busy DEF CopyInv, TypeLockInv
    <3>2. disk' = disk /\ durable' = durable /\ (lock = v => LiveContent' = LiveContent)
      BY <2>2
    <3>3. PICK r, p : r = task[v].receipt /\ p = task[v].plan
      OBVIOUS
    <3>4. p \in Plans /\ r \in CopiesOf(p)
      BY <3>1, <3>3, Copies
    <3>5. Secured(r, p) => Secured(r, p)'
      BY <3>4 DEF BackupsKept
    <3>6. plan[p].expects # None => plan'[p].expects = plan[p].expects
      BY <3>4 DEF ExpectsKept
    <3>7. task[v].op = "restore" /\ task[v].at \notin {"excluding", "refusing"} => lock = v
      BY DEF TypeLockInv, LockAt, Unlocked
    <3>8. task[v].op = "rollback" => lock = v
      BY DEF TypeLockInv, LockAt
    <3>9. task'[v].receipt = r /\ task'[v].plan = p
      BY <2>2, <3>3
    <3>10. task[v].op = "restore" =>
             /\ plan[p].expects # None /\ r.state # "completed"
             /\ task[v].at \in Early => r.staged_sha = None /\ r.replacement = 0
             /\ task[v].at \notin Early => r.staged_sha = p
             /\ task[v].at \notin Early \cup {"exchanging"} => r.applied_sha = p
             /\ task[v].at \in {"backing up", "staging", "exchanging"} => LiveContent = plan[p].expects
             /\ task[v].at = "staging" => Secured(r, p)
             /\ task[v].at = "exchanging" =>
                  disk.receipts[p].staged_sha = p /\ durable.receipts[p].staged_sha = p
      BY <3>1, <3>3 DEF StepAt
    <3>11. task[v].op = "rollback" =>
             /\ r.staged_sha = p /\ r.applied_sha = p /\ r.intact = "no"
             /\ task[v].at \in {"staging", "exchanging"} => LiveContent = p
      BY <3>1, <3>3 DEF StepAt
    <3>12. CASE task[v].op = "restore"
      <4>1. /\ plan'[p].expects # None
            /\ task[v].at \in {"backing up", "staging", "exchanging"} => LiveContent' = plan'[p].expects
            /\ task[v].at = "staging" => Secured(r, p)'
        BY <3>2, <3>5, <3>6, <3>7, <3>10, <3>12
      <4> QED BY <2>2, <3>2, <3>9, <3>10, <3>12, <4>1 DEF StepAt
    <3>13. CASE task[v].op # "restore"
      BY <2>2, <3>2, <3>8, <3>9, <3>11, <3>13 DEF StepAt
    <3> QED BY <3>12, <3>13
  <2>3. CASE task'[v] = task[v] /\ task[v].op = "idle"
    BY <2>3 DEF StepAt
  <2> QED BY <2>1, <2>2, <2>3
<1>5. CopyInv'
  BY <1>2, <1>3, <1>4 DEF CopyInv
<1>6. ASSUME NEW v \in Windows PROVE AloneAt(v)'
  <2>1. CASE task'[v].op = "idle"
    BY <2>1 DEF AloneAt
  <2>2. CASE task'[v].op # "idle"
    <3>1. /\ AloneAt(v) /\ task'[v] = task[v] /\ disk' = disk
      BY <1>1, <2>2, IdleFields DEF AloneInv
    <3>2. CASE task[v].op = "restore"
      <4>1. task[v].plan \in Plans /\ task[v].plan # None
        BY <3>2, Busy, NoneApart DEF TypeLockInv
      <4>2. /\ disk.receipts[task[v].plan].state # "completed"
            /\ \A x \in Windows : held[x].plan # task[v].plan
            /\ \A x \in Windows \ {v} : task[x].plan # task[v].plan
        BY <3>1, <3>2 DEF AloneAt
      <4>3. \A x \in Windows : held'[x].plan # task[v].plan
        BY <4>1, <4>2, IdleFields
      <4>4. \A x \in Windows \ {v} : task'[x].plan # task[v].plan
        BY <4>1, <4>2, IdleFields
      <4> QED BY <3>1, <3>2, <4>2, <4>3, <4>4 DEF AloneAt
    <3>3. CASE task[v].op # "restore"
      BY <3>1, <3>3 DEF AloneAt
    <3> QED BY <3>2, <3>3
  <2> QED BY <2>1, <2>2
<1>7. ASSUME NEW q \in Plans
      PROVE  /\ confirms'[q] \in {0, 1}
             /\ confirms'[q] = 0 => Unconfirmed(q)'
             /\ plan'[q].by # None => plan'[q].expects # None /\ "restore" \in Buttons[plan'[q].by]
             /\ confirms'[q] # 0 => plan'[q].expects # None
  <2>1. /\ confirms[q] \in {0, 1} /\ (confirms[q] = 0 => Unconfirmed(q))
        /\ plan[q].by # None => plan[q].expects # None /\ "restore" \in Buttons[plan[q].by]
        /\ confirms[q] # 0 => plan[q].expects # None
    BY <1>1 DEF AloneInv, PlanInv
  <2>2. ASSUME Unconfirmed(q) PROVE Unconfirmed(q)'
    <3>1. ASSUME NEW v \in Windows PROVE task'[v].plan # q /\ held'[v].plan # q
      <4>1. task'[v].plan # q
        <5>1. task[v].plan # q
          BY <2>2 DEF Unconfirmed
        <5>2. Idle.plan # q
          BY IdleFields, NoneApart
        <5> QED BY <5>1, <5>2
      <4>2. held'[v].plan # q
        <5>1. disk.receipts[q].state # "completed"
          BY <2>2 DEF Unconfirmed, NoReceipt
        <5>2. held[v].plan # q /\ NoReview.plan # q
          BY <2>2, IdleFields, NoneApart DEF Unconfirmed
        <5> QED BY <5>1, <5>2
      <4> QED BY <4>1, <4>2
    <3> QED BY <2>2, <3>1 DEF Unconfirmed
  <2>3. plan[q].expects # None => plan'[q].expects # None
    BY DEF ExpectsKept
  <2> QED BY <2>1, <2>2, <2>3
<1>8. AloneInv'
  BY <1>6, <1>7 DEF AloneInv, PlanInv
<1>9. ASSUME NEW q \in Plans, Gone(q) PROVE Gone(q)'
  <2>1. ~Before(q)'
    BY <1>9, IdleFields DEF Gone, Before
  <2> QED BY <1>9, <2>1 DEF Gone
<1>10. DisplacedInv'
  <2> SUFFICES ASSUME NEW c \in displaced \ Plans
               PROVE  \E q \in Plans : plan'[q].expects = c /\ Gone(q)'
    BY DEF DisplacedInv
  <2>1. PICK q \in Plans : plan[q].expects = c /\ Gone(q)
    BY <1>1 DEF DisplacedInv
  <2>2. c # None
    BY NoneApart DEF TypeLockInv, TypeInv, Contents
  <2>3. plan'[q].expects = c
    BY <2>1, <2>2 DEF ExpectsKept
  <2> QED BY <1>9, <2>1, <2>3
<1> QED BY <1>5, <1>8, <1>10 DEF KeptInv

LEMMA WithoutPlansOf ==
  ASSUME TypeInv, NEW W, NEW p \in Plans
  PROVE  /\ WithoutPlans(W)[p].by \in {plan[p].by, None}
         /\ WithoutPlans(W)[p].expects = plan[p].expects
         /\ WithoutPlans(W)[p] = plan[p] \/ WithoutPlans(W)[p].by = None
<1>1. plan[p] \in [by : Windows \cup {None}, expects : Contents \cup {None}]
  BY DEF TypeInv
<1> QED BY <1>1 DEF WithoutPlans

LEMMA PrepareKept ==
  ASSUME TypeLockInv, KeptInv, NEW w \in Windows, NEW p \in Plans, Prepare(w, p)
  PROVE  KeptInv'
<1>1. /\ TypeInv /\ NamesApart /\ task[w] = Idle /\ held \in [Windows -> Reviews]
      /\ "restore" \in Buttons[w] /\ plan[p].expects = None
  BY DEF TypeLockInv, TypeInv, KeptInv, CopyInv, Prepare
<1>2. /\ plan' = [WithoutPlans({w}) EXCEPT ![p] = [by |-> w, expects |-> LiveContent]]
      /\ held' = [held EXCEPT ![w] = NoReview]
      /\ UNCHANGED <<disk, durable, data, lock, task, confirms, displaced>>
  BY DEF Prepare
<1>3. LiveContent # None
  BY <1>1, Types, NoneApart DEF Contents
<1>4. /\ plan'[p] = [by |-> w, expects |-> LiveContent]
      /\ \A q \in Plans \ {p} : plan'[q] = WithoutPlans({w})[q]
  <2>1. WithoutPlans({w}) \in [Plans -> [by : Windows \cup {None}, expects : Contents \cup {None}]]
    BY <1>1, PlansKept
  <2> QED BY <1>2, <2>1
<1>5. ExpectsKept
  BY <1>1, <1>4, WithoutPlansOf DEF ExpectsKept
<1>6. BackupsKept
  BY <1>1, <1>2, <1>5, BackupsSame
<1>7. /\ \A v \in Windows \ {w} : held'[v] = held[v]
      /\ held'[w] = NoReview
  BY <1>1, <1>2
<1>8. \A q \in Plans : \A r \in CopiesOf(q)' : r \in CopiesOf(q)
  <2> SUFFICES ASSUME NEW q \in Plans, NEW r \in CopiesOf(q)' PROVE r \in CopiesOf(q)
    OBVIOUS
  <2>1. CASE \E v \in Windows : held'[v].plan = q /\ r = held'[v].receipt
    <3>1. PICK v \in Windows : held'[v].plan = q /\ r = held'[v].receipt
      BY <2>1
    <3>2. v # w
      BY <1>7, <3>1, IdleFields, NoneApart
    <3> QED BY <1>7, <3>1, <3>2, Copies
  <2>2. CASE \/ r = disk'.receipts[q] \/ r = durable'.receipts[q]
             \/ \E v \in Windows : task'[v].plan = q /\ r = task'[v].receipt
    BY <1>2, <2>2, Copies
  <2> QED BY <2>1, <2>2, CopiesNext
<1>9. \A v \in Windows : task'[v].op = "rollback" => held'[v] = held[v]
  BY <1>1, <1>2, <1>7, IdleFields
<1>10. ASSUME NEW q \in Plans
       PROVE  \/ plan'[q].by = None /\ plan'[q].expects = plan[q].expects
              \/ plan'[q] = plan[q]
              \/ plan'[q].expects # None /\ "restore" \in Buttons[plan'[q].by]
  <2>1. CASE q = p
    BY <1>1, <1>3, <1>4, <2>1
  <2>2. CASE q # p
    BY <1>1, <1>4, <2>2, WithoutPlansOf
  <2> QED BY <2>1, <2>2
<1>11. LiveContent' = LiveContent
  BY <1>2 DEF LiveContent, LiveFile
<1>12. \A q \in Plans : Unconfirmed(q) =>
         /\ disk'.receipts[q] = NoReceipt /\ durable'.receipts[q] = NoReceipt
         /\ disk'.effect[q] = "none" /\ durable'.effect[q] = "none"
  BY <1>2 DEF Unconfirmed
<1> QED BY <1>2, <1>5, <1>6, <1>7, <1>8, <1>9, <1>10, <1>11, <1>12, KeptAround

LEMMA ReviewRollbackKept ==
  ASSUME TypeLockInv, KeptInv, NEW w \in Windows, NEW p \in Plans, ReviewRollback(w, p)
  PROVE  KeptInv'
<1>1. /\ TypeInv /\ NamesApart /\ task[w] = Idle /\ held \in [Windows -> Reviews]
      /\ disk.receipts[p].state = "completed"
  BY DEF TypeLockInv, TypeInv, KeptInv, CopyInv, ReviewRollback
<1>2. /\ plan' = WithoutPlans({w})
      /\ UNCHANGED <<disk, durable, data, lock, task, confirms, displaced>>
  BY DEF ReviewRollback
<1>3. ExpectsKept
  BY <1>1, <1>2, WithoutPlansOf DEF ExpectsKept
<1>4. BackupsKept
  BY <1>1, <1>2, <1>3, BackupsSame
<1>5. /\ \A v \in Windows \ {w} : held'[v] = held[v]
      /\ held'[w] = NoReview \/ (held'[w].plan = p /\ held'[w].receipt = disk.receipts[p])
  BY <1>1 DEF ReviewRollback
<1>6. ASSUME NEW q \in Plans, NEW r \in CopiesOf(q)' PROVE r \in CopiesOf(q)
  <2>1. CASE \E v \in Windows : held'[v].plan = q /\ r = held'[v].receipt
    <3>1. PICK v \in Windows : held'[v].plan = q /\ r = held'[v].receipt
      BY <2>1
    <3>2. CASE v = w
      <4>1. held'[w] # NoReview
        BY <3>1, <3>2, IdleFields, NoneApart
      <4>2. q = p /\ r = disk.receipts[p]
        BY <1>5, <3>1, <3>2, <4>1
      <4> QED BY <4>2, Copies
    <3>3. CASE v # w
      BY <1>5, <3>1, <3>3, Copies
    <3> QED BY <3>2, <3>3
  <2>2. CASE \/ r = disk'.receipts[q] \/ r = durable'.receipts[q]
             \/ \E v \in Windows : task'[v].plan = q /\ r = task'[v].receipt
    BY <1>2, <2>2, Copies
  <2> QED BY <2>1, <2>2, CopiesNext
<1>7. \A v \in Windows : task'[v].op = "rollback" => held'[v] = held[v]
  BY <1>1, <1>2, <1>5, IdleFields
<1>8. \A v \in Windows : held'[v] \in {held[v], NoReview} \/
           (/\ task[v].op = "idle" /\ task'[v].op = "idle"
            /\ held'[v].plan \in Plans => disk.receipts[held'[v].plan].state = "completed")
  BY <1>1, <1>2, <1>5, IdleFields
<1>9. \A q \in Plans :
        \/ plan'[q].by = None /\ plan'[q].expects = plan[q].expects
        \/ plan'[q] = plan[q]
  BY <1>1, <1>2, WithoutPlansOf
<1>10. LiveContent' = LiveContent
  BY <1>2 DEF LiveContent, LiveFile
<1>11. \A q \in Plans : Unconfirmed(q) =>
         /\ disk'.receipts[q] = NoReceipt /\ durable'.receipts[q] = NoReceipt
         /\ disk'.effect[q] = "none" /\ durable'.effect[q] = "none"
  BY <1>2 DEF Unconfirmed
<1> QED BY <1>2, <1>3, <1>4, <1>6, <1>7, <1>8, <1>9, <1>10, <1>11, KeptAround

LEMMA UseKept ==
  ASSUME TypeLockInv, KeptInv, Use
  PROVE  KeptInv'
<1>1. /\ TypeInv /\ NamesApart /\ data \in [Inodes -> Contents] /\ Sound(disk)
      /\ disk.names \in [Names -> Inodes \cup {0}]
  BY DEF TypeLockInv, TypeInv, KeptInv, CopyInv, Disks
<1>2. /\ lock = None /\ data' = [data EXCEPT ![LiveFile(disk)] = uses + 1]
      /\ UNCHANGED <<disk, durable, lock, plan, held, task, confirms, displaced>>
  BY DEF Use
<1>3. ExpectsKept
  BY <1>2, PlansSame
<1>4. BackupsKept
  <2>1. Live \in Names /\ Removable(Live)
    BY LiveIsAName DEF Removable
  <2>2. ASSUME NEW m \in Names \ {Live}, disk.names[m] # 0
        PROVE  data'[disk.names[m]] = data[disk.names[m]]
    <3>1. disk.names[m] # disk.names[Live] /\ disk.names[m] \in Inodes
      BY <1>1, <2>1, <2>2 DEF Sound
    <3> QED BY <1>1, <1>2, <3>1 DEF LiveFile
  <2>3. Untouched(Live)
    BY <1>2, <2>2 DEF Untouched
  <2> QED BY <1>1, <1>3, <2>1, <2>3, BackupsUntouched
<1>5. \A q \in Plans : \A r \in CopiesOf(q)' : r \in CopiesOf(q)
  BY <1>2 DEF CopiesOf
<1>6. \A v \in Windows : lock # v
  BY <1>2, NoneApart
<1>7. \A q \in Plans : Unconfirmed(q) =>
         /\ disk'.receipts[q] = NoReceipt /\ durable'.receipts[q] = NoReceipt
         /\ disk'.effect[q] = "none" /\ durable'.effect[q] = "none"
  BY <1>2 DEF Unconfirmed
<1> QED BY <1>2, <1>3, <1>4, <1>5, <1>6, <1>7, KeptAround

\* Processes die: the directory may be what it was, or what was durable.
LEMMA DieKept ==
  ASSUME TypeLockInv, KeptInv, NEW W, Die(W), BackupsKept,
         \/ UNCHANGED <<disk, durable>>
         \/ /\ Windows \subseteq W /\ durable' = disk'
            /\ \A q \in Plans : disk'.receipts[q] \in {disk.receipts[q], durable.receipts[q]}
            /\ \A q \in Plans : disk'.effect[q] \in {disk.effect[q], durable.effect[q]}
  PROVE  KeptInv'
<1>1. TypeInv
  BY DEF TypeLockInv
<1>2. /\ \A v \in Windows : task'[v] = IF v \in W THEN Idle ELSE task[v]
      /\ \A v \in Windows : held'[v] = IF v \in W THEN NoReview ELSE held[v]
      /\ plan' = WithoutPlans(W) /\ UNCHANGED <<data, confirms, displaced>>
  BY DEF Die
<1>3. ExpectsKept
  BY <1>1, <1>2, WithoutPlansOf DEF ExpectsKept
<1>4. /\ \A q \in Plans : disk'.receipts[q] \in {disk.receipts[q], durable.receipts[q]}
      /\ \A q \in Plans : durable'.receipts[q] \in {disk.receipts[q], durable.receipts[q]}
  OBVIOUS
<1>5. ASSUME NEW q \in Plans, NEW r \in CopiesOf(q)' PROVE r \in CopiesOf(q)
  <2>1. CASE r \in {disk'.receipts[q], durable'.receipts[q]}
    <3>1. r \in {disk.receipts[q], durable.receipts[q]}
      BY <1>4, <2>1
    <3> QED BY <3>1 DEF CopiesOf
  <2>2. CASE \E v \in Windows : task'[v].plan = q /\ r = task'[v].receipt
    <3>1. PICK v \in Windows : task'[v].plan = q /\ r = task'[v].receipt
      BY <2>2
    <3>2. task'[v] = task[v]
      BY <1>2, <3>1, IdleFields, NoneApart
    <3> QED BY <3>1, <3>2, Copies
  <2>3. CASE \E v \in Windows : held'[v].plan = q /\ r = held'[v].receipt
    <3>1. PICK v \in Windows : held'[v].plan = q /\ r = held'[v].receipt
      BY <2>3
    <3>2. held'[v] = held[v]
      BY <1>2, <3>1, IdleFields, NoneApart
    <3> QED BY <3>1, <3>2, Copies
  <2> QED BY <2>1, <2>2, <2>3, CopiesNext
<1>6. \A v \in Windows : task'[v].op = "rollback" => held'[v] = held[v]
  BY <1>2, IdleFields
<1>7. /\ \A v \in Windows : task'[v] = task[v] \/ task'[v] = Idle
      /\ \A v \in Windows : held'[v] \in {held[v], NoReview}
  BY <1>2
<1>8. \A q \in Plans :
        \/ plan'[q].by = None /\ plan'[q].expects = plan[q].expects
        \/ plan'[q] = plan[q]
  BY <1>1, <1>2, WithoutPlansOf
<1>9. ASSUME NEW v \in Windows, task'[v].op # "idle"
      PROVE  disk' = disk /\ durable' = durable /\ LiveContent' = LiveContent
  <2>1. v \notin W
    BY <1>2, <1>9, IdleFields
  <2>2. UNCHANGED <<disk, durable>>
    BY <2>1
  <2> QED BY <1>2, <2>2 DEF LiveContent, LiveFile
<1>10. \A q \in Plans : Unconfirmed(q) =>
         /\ disk'.receipts[q] = NoReceipt /\ durable'.receipts[q] = NoReceipt
         /\ disk'.effect[q] = "none" /\ durable'.effect[q] = "none"
  BY DEF Unconfirmed
<1> QED BY <1>2, <1>3, <1>5, <1>6, <1>7, <1>8, <1>9, <1>10, KeptAround

LEMMA KilledKept ==
  ASSUME TypeLockInv, KeptInv, NEW w \in Windows, Killed(w)
  PROVE  KeptInv'
<1>1. TypeInv /\ NamesApart
  BY DEF TypeLockInv, KeptInv, CopyInv
<1>2. Die({w}) /\ UNCHANGED <<disk, durable>>
  BY DEF Killed
<1>3. plan' = WithoutPlans({w}) /\ data' = data
  BY <1>2 DEF Die
<1>4. ExpectsKept
  BY <1>1, <1>3, WithoutPlansOf DEF ExpectsKept
<1>5. BackupsKept
  BY <1>1, <1>2, <1>3, <1>4, BackupsSame
<1> QED BY <1>2, <1>5, DieKept

LEMMA PowerLossKept ==
  ASSUME TypeLockInv, KeptInv, PowerLoss
  PROVE  KeptInv'
<1>1. TypeInv /\ NamesApart /\ disk \in Disks /\ durable \in Disks
  BY DEF TypeLockInv, TypeInv, KeptInv, CopyInv
<1>2. /\ Die(Windows) /\ durable' = disk'
      /\ disk' \in {disk, durable,
                    [disk EXCEPT !.receipts = durable.receipts, !.stale = durable.stale]}
  BY DEF PowerLoss
<1>3. plan' = WithoutPlans(Windows) /\ data' = data
  BY <1>2 DEF Die
<1>4. ExpectsKept
  BY <1>1, <1>3, WithoutPlansOf DEF ExpectsKept
<1>5. /\ disk'.names \in {disk.names, durable.names} /\ durable'.names = disk'.names
      /\ disk'.receipts \in {disk.receipts, durable.receipts}
      /\ disk'.effect \in {disk.effect, durable.effect}
  BY <1>1, <1>2 DEF Disks
<1>6. BackupsKept
  <2> SUFFICES ASSUME NEW q \in Plans, NEW r \in CopiesOf(q), Secured(r, q)
               PROVE  Secured(r, q)'
    BY DEF BackupsKept
  <2>1. r \in Receipts
    BY <1>1, CopyTyped
  <2>2. durable.names[r.emergency] = disk.names[r.emergency]
    BY DEF Secured
  <2>3. /\ disk'.names[r.emergency] = disk.names[r.emergency]
        /\ durable'.names[r.emergency] = disk.names[r.emergency]
    BY <1>5, <2>2
  <2> QED BY <1>3, <1>4, <2>1, <2>3, SecuredStays
<1>7. /\ \A q \in Plans : disk'.receipts[q] \in {disk.receipts[q], durable.receipts[q]}
      /\ \A q \in Plans : disk'.effect[q] \in {disk.effect[q], durable.effect[q]}
  BY <1>5
<1> QED BY <1>2, <1>6, <1>7, DieKept

LEMMA KeptInit == Init => KeptInv
<1> SUFFICES ASSUME Init PROVE KeptInv
  OBVIOUS
<1> USE DEF Init
<1>1. /\ \A p \in Plans : disk.receipts[p] = NoReceipt /\ durable.receipts[p] = NoReceipt
      /\ \A p \in Plans : disk.effect[p] = "none" /\ durable.effect[p] = "none"
      /\ \A w \in Windows : task[w] = Idle /\ held[w] = NoReview
      /\ \A p \in Plans : plan[p].by = None /\ plan[p].expects = None /\ confirms[p] = 0
      /\ displaced = {}
  OBVIOUS
<1>2. \A p \in Plans : \A r \in CopiesOf(p) : r = NoReceipt
  <2>1. \A w \in Windows : task[w].receipt = NoReceipt /\ held[w].receipt = NoReceipt
    BY <1>1, IdleFields
  <2> QED BY <1>1, <2>1, Copies
<1> USE DEF NoReceipt
<1>3. \A p \in Plans : GoodCopy(NoReceipt, p)
  BY DEF GoodCopy
<1>4. NamesApart
  BY <1>2 DEF NamesApart
<1>5. \A w \in Windows : StepAt(w) /\ AloneAt(w)
  BY <1>1, IdleFields DEF StepAt, AloneAt
<1>6. \A p \in Plans : Unconfirmed(p)
  BY <1>1, IdleFields, NoneApart DEF Unconfirmed
<1>7. PlanInv
  BY <1>1, <1>6 DEF PlanInv
<1> QED BY <1>1, <1>2, <1>3, <1>4, <1>5, <1>7 DEF KeptInv, CopyInv, AloneInv, DisplacedInv

LEMMA KeptNext ==
  ASSUME ConfirmedOnce, OneRestorer, TypeLockInv, KeptInv, [Next]_vars
  PROVE  KeptInv'
<1>1. CASE UNCHANGED vars
  <2>1. UNCHANGED <<disk, durable, data, lock, plan, held, task, confirms, displaced>>
    BY <1>1 DEF vars
  <2>2. /\ TypeInv /\ NamesApart
    BY DEF TypeLockInv, KeptInv, CopyInv
  <2>3. ExpectsKept
    BY <2>1, PlansSame
  <2>4. BackupsKept
    BY <2>1, <2>2, <2>3, BackupsSame
  <2>5. \A q \in Plans : \A r \in CopiesOf(q)' : r \in CopiesOf(q)
    BY <2>1 DEF CopiesOf
  <2>6. LiveContent' = LiveContent
    BY <2>1 DEF LiveContent, LiveFile
  <2>7. \A q \in Plans : Unconfirmed(q) =>
         /\ disk'.receipts[q] = NoReceipt /\ durable'.receipts[q] = NoReceipt
         /\ disk'.effect[q] = "none" /\ durable'.effect[q] = "none"
    BY <2>1 DEF Unconfirmed
  <2> QED BY <2>1, <2>3, <2>4, <2>5, <2>6, <2>7, KeptAround
<1>2. ASSUME NEW w \in Windows, NEW p \in Plans,
             \/ Prepare(w, p) \/ Confirm(w, p) \/ ReviewRollback(w, p) \/ ReadInterrupted(w, p)
      PROVE  KeptInv'
  BY <1>2, PrepareKept, ConfirmKept, ReviewRollbackKept, ReadInterruptedKept
<1>3. ASSUME NEW w \in Windows, Restore(w)
      PROVE  KeptInv'
  BY <1>3, ExcludeKept, RefuseKept, ValidateKept, BackUpKept, StageKept, ExchangeKept,
     PublishAppliedKept, SyncExchangeKept, VerifyKept, RemoveSupersededKept, CompleteKept,
     BeginRollBackKept, ExchangeBackKept, GiveUpKept, CheckBackKept DEF Restore
<1>4. ASSUME NEW w \in Windows, Rollback(w)
      PROVE  KeptInv'
  BY <1>4, BeginRollbackKept, StageRollbackKept, RefuseRollbackKept, ExchangeRollbackKept,
     CheckRollbackKept DEF Rollback
<1>5. ASSUME NEW w \in Windows, Finalise(w) \/ Killed(w)
      PROVE  KeptInv'
  BY <1>5, FinaliseKept, KilledKept
<1>6. CASE Use \/ PowerLoss
  BY <1>6, UseKept, PowerLossKept
<1> QED BY <1>1, <1>2, <1>3, <1>4, <1>5, <1>6 DEF Next

LEMMA KeptAlways ==
  ASSUME ConfirmedOnce, OneRestorer
  PROVE  Spec => []KeptInv
<1>1. TypeLockInv /\ KeptInv /\ [Next]_vars => KeptInv'
  BY KeptNext
<1>2. Init => KeptInv
  BY KeptInit
<1> QED BY <1>1, <1>2, TypeLockAlways, PTL DEF Spec

-----------------------------------------------------------------------------
(* What is kept.                                                           *)

\* "Every failure after it keeps the original reachable" (restore.rs:39), if
\* one window restores and finalises, each plan once: what an exchange took
\* off the live path is in the safety backup that every copy of the plan's
\* receipt names, and no step removes or rewrites that file.
THEOREM NoCommitLostCorrect ==
  ASSUME ConfirmedOnce, OneRestorer
  PROVE  Spec => []NoCommitLost
<1>1. KeptInv => NoCommitLost
  <2> SUFFICES ASSUME KeptInv, NEW c \in displaced \ Plans
               PROVE  OnRecord(c)
    BY DEF NoCommitLost
  <2>1. PICK p \in Plans : plan[p].expects = c /\ Gone(p)
    BY DEF KeptInv, DisplacedInv
  <2>2. disk.receipts[p] \in CopiesOf(p)
    BY Copies
  <2>3. disk.receipts[p].staged_sha = p /\ p # None
    BY <2>1, <2>2, NoneApart DEF Gone
  <2>4. Secured(disk.receipts[p], p)
    BY <2>2, <2>3 DEF KeptInv, CopyInv, GoodCopy
  <2> QED BY <2>1, <2>4 DEF Secured, OnRecord, File
<1>2. Spec => []KeptInv
  BY KeptAlways
<1> QED BY <1>1, <1>2, PTL

\* A completed restore whose database was not used since can be rolled back
\* (restore.rs:1452), if one window restores and finalises, each plan once: a
\* completed receipt, also one that was completed after a crash, records the
\* content of its plan as applied, and its safety backup is in place.
THEOREM RollbackStaysPossibleCorrect ==
  ASSUME ConfirmedOnce, OneRestorer
  PROVE  Spec => []RollbackStaysPossible
<1>1. KeptInv => RollbackStaysPossible
  <2> SUFFICES ASSUME KeptInv, NEW p \in Plans,
                      disk.receipts[p].state = "completed", LiveContent = p
               PROVE  InputsHold(disk.receipts[p])
    BY DEF RollbackStaysPossible
  <2>1. disk.receipts[p] \in CopiesOf(p)
    BY Copies
  <2>2. GoodCopy(disk.receipts[p], p)
    BY <2>1 DEF KeptInv, CopyInv
  <2>3. disk.receipts[p].staged_sha = p /\ disk.receipts[p].applied_sha = p
    BY <2>2 DEF GoodCopy
  <2>4. Secured(disk.receipts[p], p)
    BY <2>2, <2>3, NoneApart DEF GoodCopy
  <2> QED BY <2>3, <2>4 DEF Secured, InputsHold, File
<1>2. Spec => []KeptInv
  BY KeptAlways
<1> QED BY <1>1, <1>2, PTL
=============================================================================
