------------------------- MODULE Conversion_proofs -------------------------
(***************************************************************************)
(* Proofs about ConversionController, for any windows, destinations, jobs  *)
(* waiting and bounds.                                                     *)
(***************************************************************************)
EXTENDS ConversionInductive, FiniteSetTheorems, WellFoundedInduction, TLAPS

----------------------------------------------------------------------------
(* Numbers and sequences *)

LEMMA Numbers ==
  /\ MaxSequence \in Nat \ {0} /\ MaxAttempts \in Nat \ {0} /\ MaxJobs \in Nat \ {0}
  /\ MaxTroubles \in Nat
  /\ Ids = 1..MaxSequence
BY QueueAssumption DEF QueueAssumption, Ids

\* A set of naturals that is not empty has a least element.
LEMMA LeastNatural ==
  ASSUME NEW S \in SUBSET Nat, S # {}
  PROVE  \E x \in S : \A y \in S : x <= y
<1>1. \E x \in S : \A y \in S : ~ (<<y, x>> \in OpToRel(<, Nat))
  BY NatLessThanWellFounded, WFMin
<1>2. \A x, y \in S : <<y, x>> \notin OpToRel(<, Nat) => x <= y
  BY DEF OpToRel
<1> QED BY <1>1, <1>2

\* A set of naturals below a bound that is not empty has a greatest element.
LEMMA GreatestNatural ==
  ASSUME NEW N \in Nat, NEW S \in SUBSET (0..N), S # {}
  PROVE  Max(S) \in S /\ \A y \in S : Max(S) >= y
<1> DEFINE T == {N - x : x \in S}
<1>1. T \in SUBSET Nat /\ T # {}
  <2>1. \A x \in S : N - x \in Nat
    OBVIOUS
  <2> QED BY <2>1
<1>2. PICK t \in T : \A u \in T : t <= u
  BY <1>1, LeastNatural
<1>3. PICK x \in S : t = N - x
  BY <1>2
<1>4. \A y \in S : x >= y
  <2> SUFFICES ASSUME NEW y \in S PROVE x >= y
    OBVIOUS
  <2>1. t <= N - y
    BY <1>2
  <2> QED BY <1>3, <2>1
<1> QED BY <1>3, <1>4 DEF Max

\* A job's attempts.
LEMMA AttemptsTyped ==
  ASSUME NEW t
  PROVE  t \in BoundedSeq(JobStates, MaxAttempts) <=>
           t \in Seq(JobStates) /\ Len(t) <= MaxAttempts
<1>1. MaxAttempts \in Nat
  BY QueueAssumption DEF QueueAssumption
<1>2. ASSUME t \in BoundedSeq(JobStates, MaxAttempts)
      PROVE  t \in Seq(JobStates) /\ Len(t) <= MaxAttempts
  <2>1. PICK m \in 0..MaxAttempts : t \in [1..m -> JobStates]
    BY <1>2 DEF BoundedSeq, SeqOf
  <2> QED BY <1>1, <2>1
<1>3. ASSUME t \in Seq(JobStates), Len(t) <= MaxAttempts
      PROVE  t \in BoundedSeq(JobStates, MaxAttempts)
  <2>1. Len(t) \in 0..MaxAttempts /\ t \in [1..Len(t) -> JobStates]
    BY <1>1, <1>3
  <2> QED BY <2>1 DEF BoundedSeq, SeqOf
<1> QED BY <1>2, <1>3

----------------------------------------------------------------------------
(* One job *)

\* What validate_snapshot asks of a job by itself.
JobValid(job) ==
  /\ \A n \in 1..Len(job.attempts) :
       /\ job.attempts[n] \notin {"queued", "blocked_input_missing"}
       /\ job.attempts[n] = "running" => n = Len(job.attempts)
  /\ job.state = "running" <=> "running" \in ToSet(job.attempts)

LEMMA JobTyped ==
  ASSUME NEW job \in Jobs
  PROVE  /\ job.attempts \in Seq(JobStates) /\ Len(job.attempts) \in 0..MaxAttempts
         /\ job.dest \in Dests /\ job.order \in Ids /\ job.state \in JobStates
         /\ job.retry \in Dispositions
BY AttemptsTyped, QueueAssumption DEF Jobs, QueueAssumption

\* A running job's last attempt runs, and no other.
LEMMA RunningAttempt ==
  ASSUME NEW job \in Jobs, JobValid(job)
  PROVE  /\ job.state = "running" =>
              Len(job.attempts) > 0 /\ job.attempts[Len(job.attempts)] = "running"
         /\ job.state # "running" =>
              \A n \in 1..Len(job.attempts) : job.attempts[n] # "running"
BY JobTyped DEF JobValid, ToSet

LEMMA MovedFacts ==
  ASSUME NEW job \in Jobs, JobValid(job),
         NEW s \in JobStates \ {"queued", "running"}, NEW r \in Dispositions,
         job.state = "running" => s # "blocked_input_missing"
  PROVE  LET moved == Moved(job, s, r) IN
         /\ moved \in Jobs /\ JobValid(moved)
         /\ moved.dest = job.dest /\ moved.order = job.order
         /\ moved.state = s /\ moved.retry = r
         /\ Len(moved.attempts) = Len(job.attempts)
         /\ \A n \in 1..Len(job.attempts) :
              job.attempts[n] # "running" => moved.attempts[n] = job.attempts[n]
         /\ job.state = "running" => moved.attempts[Len(job.attempts)] = s
<1> DEFINE t == job.attempts
           u == LastState(job, s)
           moved == Moved(job, s, r)
<1>1. /\ t \in Seq(JobStates) /\ Len(t) \in 0..MaxAttempts /\ DOMAIN t = 1..Len(t)
      /\ job.state = "running" => Len(t) > 0 /\ t[Len(t)] = "running"
      /\ job.state # "running" => \A n \in 1..Len(t) : t[n] # "running"
  BY JobTyped, RunningAttempt
<1>2. /\ u \in Seq(JobStates) /\ Len(u) = Len(t)
      /\ \A n \in 1..Len(t) : t[n] # "running" => u[n] = t[n]
      /\ job.state = "running" => u[Len(t)] = s
      /\ job.state # "running" => u = t
  <2>1. CASE job.state = "running"
    <3>1. u = [t EXCEPT ![Len(t)] = s]
      BY <1>1, <2>1 DEF LastState, Last, ReplaceAt
    <3> QED BY <1>1, <2>1, <3>1 DEF JobValid
  <2>2. CASE job.state # "running"
    <3>1. u = t
      BY <1>1, <2>2 DEF LastState, Last
    <3> QED BY <1>1, <2>2, <3>1
  <2> QED BY <2>1, <2>2
<1>3. u \in BoundedSeq(JobStates, MaxAttempts)
  BY <1>1, <1>2, AttemptsTyped
<1>4. /\ moved \in Jobs
      /\ moved.dest = job.dest /\ moved.order = job.order /\ moved.state = s
      /\ moved.retry = r /\ moved.attempts = u
  BY <1>3 DEF Moved, Jobs
<1> HIDE DEF u, moved
<1>5. \A n \in 1..Len(u) : u[n] \notin {"queued", "running", "blocked_input_missing"}
  <2> SUFFICES ASSUME NEW n \in 1..Len(u)
               PROVE  u[n] \notin {"queued", "running", "blocked_input_missing"}
    OBVIOUS
  <2>1. CASE t[n] = "running"
    BY <1>1, <1>2, <2>1 DEF JobValid
  <2>2. CASE t[n] # "running"
    BY <1>1, <1>2, <2>2 DEF JobValid
  <2> QED BY <2>1, <2>2
<1>6. JobValid(moved)
  <2>1. "running" \notin ToSet(u)
    BY <1>2, <1>5 DEF ToSet
  <2> QED BY <1>4, <1>5, <2>1 DEF JobValid
<1> QED BY <1>2, <1>4, <1>6 DEF moved
LEMMA AttemptedFacts ==
  ASSUME NEW job \in Jobs, JobValid(job), job.state # "running",
         Len(job.attempts) < MaxAttempts
  PROVE  LET tried == Attempted(job) IN
         /\ tried \in Jobs /\ JobValid(tried)
         /\ tried.dest = job.dest /\ tried.order = job.order /\ tried.state = "running"
         /\ Len(tried.attempts) = Len(job.attempts) + 1
         /\ \A n \in 1..Len(job.attempts) : tried.attempts[n] = job.attempts[n]
<1> DEFINE t == job.attempts
           u == Append(t, "running")
           tried == Attempted(job)
<1>1. /\ t \in Seq(JobStates) /\ Len(t) \in 0..MaxAttempts
      /\ \A n \in 1..Len(t) : t[n] # "running"
  BY JobTyped, RunningAttempt
<1>2. /\ u \in Seq(JobStates) /\ Len(u) = Len(t) + 1 /\ DOMAIN u = 1..(Len(t) + 1)
      /\ \A n \in 1..Len(t) : u[n] = t[n]
      /\ u[Len(t) + 1] = "running"
  BY <1>1 DEF JobStates
<1> HIDE DEF u
<1>3. u \in BoundedSeq(JobStates, MaxAttempts)
  BY <1>1, <1>2, AttemptsTyped, Numbers
<1>4. /\ tried \in Jobs
      /\ tried.dest = job.dest /\ tried.order = job.order /\ tried.state = "running"
      /\ tried.attempts = u
  BY <1>3 DEF Attempted, Jobs, JobStates, u
<1> HIDE DEF tried
<1>5. JobValid(tried)
  <2>1. "running" \in ToSet(u)
    BY <1>1, <1>2 DEF ToSet
  <2>2. ASSUME NEW n \in 1..Len(u)
        PROVE  /\ u[n] \notin {"queued", "blocked_input_missing"}
               /\ u[n] = "running" => n = Len(u)
    BY <1>1, <1>2, <2>2 DEF JobValid
  <2> QED BY <1>4, <2>1, <2>2 DEF JobValid
<1> QED BY <1>2, <1>4, <1>5 DEF tried

LEMMA NewJobFacts ==
  ASSUME NEW d \in Dests, NEW order \in Ids
  PROVE  /\ NewJob(d, order) \in Jobs /\ JobValid(NewJob(d, order))
         /\ NewJob(d, order).dest = d /\ NewJob(d, order).order = order
         /\ NewJob(d, order).state = "queued" /\ Len(NewJob(d, order).attempts) = 0
<1>1. <<>> \in BoundedSeq(JobStates, MaxAttempts)
  <2>1. ASSUME NEW t, t = <<>> PROVE t \in BoundedSeq(JobStates, MaxAttempts)
    <3>1. t \in Seq(JobStates) /\ Len(t) = 0
      BY <2>1
    <3>2. 0 <= MaxAttempts
      BY Numbers
    <3> HIDE <2>1
    <3> QED BY <3>1, <3>2, AttemptsTyped
  <2> QED BY <2>1
<1>2. NewJob(d, order) \in Jobs
  BY <1>1 DEF NewJob, Jobs, JobStates, Dispositions
<1>3. /\ NewJob(d, order).dest = d /\ NewJob(d, order).order = order
      /\ NewJob(d, order).state = "queued" /\ NewJob(d, order).attempts = <<>>
  BY DEF NewJob
<1>4. Len(NewJob(d, order).attempts) = 0 /\ "running" \notin ToSet(NewJob(d, order).attempts)
  BY <1>3 DEF ToSet
<1>5. JobValid(NewJob(d, order))
  BY <1>3, <1>4 DEF JobValid
<1> QED BY <1>2, <1>3, <1>4, <1>5

----------------------------------------------------------------------------
(* Snapshots *)

LEMMA SnapshotJobs ==
  ASSUME NEW s, Snapshot(s)
  PROVE  /\ DOMAIN s.jobs \subseteq Ids /\ s.next \in 1..(MaxSequence + 1)
         /\ \A j \in DOMAIN s.jobs : s.jobs[j] \in Jobs
         /\ IsFiniteSet(DOMAIN s.jobs)
<1>1. IsFiniteSet(Ids)
  BY Numbers, FS_Interval
<1> QED BY <1>1, FS_Subset DEF Snapshot

\* validate_snapshot, of each job and of two jobs.
LEMMA ValidParts ==
  ASSUME NEW s
  PROVE  Valid(s) <=>
           /\ Cardinality(DOMAIN s.jobs) <= MaxJobs
           /\ \A j \in DOMAIN s.jobs :
                /\ JobValid(s.jobs[j])
                /\ j <= s.jobs[j].order /\ s.jobs[j].order < s.next
           /\ \A j, k \in DOMAIN s.jobs : j # k =>
                /\ s.jobs[k].order # s.jobs[j].order
                /\ ~(s.jobs[j].state = "running" /\ s.jobs[k].state = "running")
BY DEF Valid, JobValid

LEMMA PutSound ==
  ASSUME NEW s, NEW jn, NEW out, NEW can, Sound(s, jn, out, can),
         NEW j \in DOMAIN s.jobs, NEW job \in Jobs, JobValid(job),
         NEW next \in 1..(MaxSequence + 1), s.next <= next,
         job.dest = s.jobs[j].dest, j <= job.order, job.order < next,
         \A k \in DOMAIN s.jobs : k # j =>
           /\ s.jobs[k].order # job.order
           /\ ~(s.jobs[k].state = "running" /\ job.state = "running"),
         ~Over(job) => ~Over(s.jobs[j]),
         JobEvident(j, job, jn, out, can)
  PROVE  Sound([next |-> next, jobs |-> [s.jobs EXCEPT ![j] = job]], jn, out, can)
<1> DEFINE t == [s.jobs EXCEPT ![j] = job]
           u == [next |-> next, jobs |-> t]
<1>1. /\ Snapshot(s) /\ Valid(s) /\ ReservedOnce(s) /\ Evident(s, jn, out, can)
      /\ DOMAIN s.jobs \subseteq Ids /\ s.next \in 1..(MaxSequence + 1)
      /\ s.jobs \in [DOMAIN s.jobs -> Jobs]
  BY DEF Sound, Snapshot
<1>2. /\ DOMAIN t = DOMAIN s.jobs /\ t \in [DOMAIN t -> Jobs]
      /\ t[j] = job /\ \A k \in DOMAIN s.jobs : k # j => t[k] = s.jobs[k]
      /\ u.next = next /\ u.jobs = t /\ u = [next |-> u.next, jobs |-> u.jobs]
  BY <1>1
<1> HIDE DEF t, u
<1>3. Snapshot(u)
  BY <1>1, <1>2 DEF Snapshot
<1>4. Valid(u)
  <2>1. \A k \in DOMAIN s.jobs :
          JobValid(s.jobs[k]) /\ k <= s.jobs[k].order /\ s.jobs[k].order < s.next
    BY <1>1, ValidParts
  <2>2. ASSUME NEW k \in DOMAIN t
        PROVE  JobValid(t[k]) /\ k <= t[k].order /\ t[k].order < next
    <3>1. CASE k = j
      BY <1>2, <3>1
    <3>2. CASE k # j
      <4>1. t[k] = s.jobs[k] /\ s.jobs[k].order \in Ids
        BY <1>1, <1>2, <3>2, JobTyped
      <4> QED BY <1>1, <1>2, <2>1, <4>1, Numbers
    <3> QED BY <3>1, <3>2
  <2>3. ASSUME NEW k \in DOMAIN t, NEW l \in DOMAIN t, k # l
        PROVE  /\ t[l].order # t[k].order
               /\ ~(t[k].state = "running" /\ t[l].state = "running")
    BY <1>1, <1>2, <2>3, ValidParts
  <2> QED BY <1>1, <1>2, <2>2, <2>3, ValidParts
<1>5. ReservedOnce(u)
  BY <1>1, <1>2 DEF ReservedOnce
<1>6. Evident(u, jn, out, can)
  <2>1. \A k \in DOMAIN t : JobEvident(k, t[k], jn, out, can)
    BY <1>1, <1>2 DEF Evident
  <2>2. ASSUME NEW k \in Ids, NEW n \in 1..MaxAttempts, k >= next
        PROVE  jn[<<k, n>>] = "empty" /\ \A d \in Dests : out[d] # <<k, n>>
    <3>1. k >= s.next
      BY <1>1, <2>2, Numbers
    <3> QED BY <1>1, <3>1 DEF Evident
  <2> QED BY <1>1, <1>2, <2>1, <2>2 DEF Evident
<1> QED BY <1>3, <1>4, <1>5, <1>6 DEF Sound, u, t

\* The snapshot without some of its jobs: a job that is dropped has at most its
\* last publication in doubt, like any other.
LEMMA PrunedSound ==
  ASSUME NEW s, NEW jn, NEW out, NEW can, Sound(s, jn, out, can),
         NEW D \in SUBSET (DOMAIN s.jobs)
  PROVE  Sound([next |-> s.next, jobs |-> [j \in D |-> s.jobs[j]]], jn, out, can)
<1> DEFINE t == [j \in D |-> s.jobs[j]]
           u == [next |-> s.next, jobs |-> t]
<1>1. /\ Snapshot(s) /\ Valid(s) /\ ReservedOnce(s) /\ Evident(s, jn, out, can)
      /\ DOMAIN s.jobs \subseteq Ids /\ s.next \in 1..(MaxSequence + 1)
      /\ s.jobs \in [DOMAIN s.jobs -> Jobs] /\ IsFiniteSet(DOMAIN s.jobs)
  BY SnapshotJobs DEF Sound, Snapshot
<1>2. /\ DOMAIN t = D /\ t \in [D -> Jobs] /\ \A k \in D : t[k] = s.jobs[k]
      /\ u.next = s.next /\ u.jobs = t /\ u = [next |-> u.next, jobs |-> u.jobs]
  BY <1>1
<1> HIDE DEF t, u
<1>3. Snapshot(u)
  BY <1>1, <1>2 DEF Snapshot
<1>4. Valid(u)
  <2>1. Cardinality(D) <= MaxJobs
    <3>1. /\ Cardinality(D) <= Cardinality(DOMAIN s.jobs)
          /\ Cardinality(D) \in Nat /\ Cardinality(DOMAIN s.jobs) \in Nat
      BY <1>1, FS_Subset, FS_CardinalityType
    <3> QED BY <1>1, <3>1, ValidParts, Numbers
  <2> QED BY <1>1, <1>2, <2>1, ValidParts
<1>5. ReservedOnce(u)
  BY <1>1, <1>2 DEF ReservedOnce
<1>6. Evident(u, jn, out, can)
  <2>1. \A k \in D : JobEvident(k, t[k], jn, out, can)
    BY <1>1, <1>2 DEF Evident
  <2>2. ASSUME NEW j \in Ids \ D, NEW m \in 1..MaxAttempts, NEW n \in 1..MaxAttempts, m # n
        PROVE  Quiet(jn, j, m) \/ Quiet(jn, j, n)
    <3>1. CASE j \notin DOMAIN s.jobs
      BY <1>1, <2>2, <3>1 DEF Evident
    <3>2. CASE j \in DOMAIN s.jobs
      <4>1. JobEvident(j, s.jobs[j], jn, out, can) /\ Len(s.jobs[j].attempts) \in 0..MaxAttempts
        BY <1>1, <3>2, JobTyped DEF Evident
      <4> QED BY <2>2, <4>1, Numbers DEF JobEvident, Quiet
    <3> QED BY <3>1, <3>2
  <2>3. \A j \in Ids, n \in 1..MaxAttempts : j >= s.next =>
          jn[<<j, n>>] = "empty" /\ \A d \in Dests : out[d] # <<j, n>>
    BY <1>1 DEF Evident
  <2> QED BY <1>2, <2>1, <2>2, <2>3 DEF Evident
<1> QED BY <1>3, <1>4, <1>5, <1>6 DEF Sound, u, t

\* A plan that is queued at a destination nobody holds.
LEMMA EnqueuedSound ==
  ASSUME NEW s, NEW jn, NEW out, NEW can, Sound(s, jn, out, can), NEW d \in Dests,
         Cardinality(DOMAIN s.jobs) < MaxJobs, s.next <= MaxSequence,
         \A k \in DOMAIN s.jobs : s.jobs[k].dest = d => Over(s.jobs[k])
  PROVE  Sound([next |-> s.next + 1,
                jobs |-> [j \in DOMAIN s.jobs \cup {s.next} |->
                  IF j = s.next THEN NewJob(d, j) ELSE s.jobs[j]]], jn, out, can)
<1> DEFINE id == s.next
           t == [j \in DOMAIN s.jobs \cup {s.next} |->
                   IF j = s.next THEN NewJob(d, j) ELSE s.jobs[j]]
           u == [next |-> s.next + 1, jobs |-> t]
           job == NewJob(d, id)
<1>1. /\ Snapshot(s) /\ Valid(s) /\ ReservedOnce(s) /\ Evident(s, jn, out, can)
      /\ DOMAIN s.jobs \subseteq Ids /\ s.next \in 1..(MaxSequence + 1)
      /\ s.jobs \in [DOMAIN s.jobs -> Jobs] /\ IsFiniteSet(DOMAIN s.jobs)
  BY SnapshotJobs DEF Sound, Snapshot
<1>2. /\ id \in Ids /\ job \in Jobs /\ JobValid(job) /\ job.dest = d /\ job.order = id
      /\ job.state = "queued" /\ Len(job.attempts) = 0
  BY <1>1, Numbers, NewJobFacts
<1>3. \A k \in DOMAIN s.jobs :
        /\ JobValid(s.jobs[k]) /\ k <= s.jobs[k].order /\ s.jobs[k].order < id
        /\ s.jobs[k].order \in Ids
  BY <1>1, ValidParts, JobTyped
<1>4. id \notin DOMAIN s.jobs
  BY <1>1, <1>3, Numbers
<1> HIDE DEF job
<1>5. /\ DOMAIN t = DOMAIN s.jobs \cup {id}
      /\ t[id] = job /\ \A k \in DOMAIN s.jobs : t[k] = s.jobs[k]
      /\ u.next = id + 1 /\ u.jobs = t /\ u = [next |-> u.next, jobs |-> u.jobs]
  BY <1>4 DEF job
<1>6. t \in [DOMAIN t -> Jobs]
  <2>1. \A k \in DOMAIN s.jobs \cup {id} :
          (IF k = s.next THEN NewJob(d, k) ELSE s.jobs[k]) \in Jobs
    BY <1>1, <1>2 DEF job
  <2> QED BY <2>1
<1> HIDE DEF id, t, u
<1>7. Snapshot(u)
  <2>1. id + 1 \in 1..(MaxSequence + 1)
    BY <1>1, Numbers DEF id
  <2> QED BY <1>1, <1>2, <1>5, <1>6, <2>1 DEF Snapshot
<1>8. Valid(u)
  <2>1. Cardinality(DOMAIN t) <= MaxJobs
    <3>1. Cardinality(DOMAIN t) = Cardinality(DOMAIN s.jobs) + 1
      BY <1>1, <1>4, <1>5, FS_AddElement
    <3>2. Cardinality(DOMAIN s.jobs) \in Nat
      BY <1>1, FS_CardinalityType
    <3> QED BY <3>1, <3>2, Numbers
  <2>2. ASSUME NEW k \in DOMAIN t
        PROVE  JobValid(t[k]) /\ k <= t[k].order /\ t[k].order < id + 1
    <3>1. CASE k = id
      BY <1>2, <1>5, <3>1, Numbers
    <3>2. CASE k # id
      BY <1>1, <1>2, <1>3, <1>5, <3>2, <2>2, Numbers
    <3> QED BY <3>1, <3>2
  <2>3. ASSUME NEW k \in DOMAIN t, NEW l \in DOMAIN t, k # l
        PROVE  /\ t[l].order # t[k].order
               /\ ~(t[k].state = "running" /\ t[l].state = "running")
    <3>1. CASE k = id
      BY <1>2, <1>3, <1>5, <2>3, <3>1, Numbers
    <3>2. CASE l = id
      BY <1>2, <1>3, <1>5, <2>3, <3>2, Numbers
    <3>3. CASE k # id /\ l # id
      BY <1>1, <1>5, <2>3, <3>3, ValidParts
    <3> QED BY <3>1, <3>2, <3>3
  <2> QED BY <1>5, <2>1, <2>2, <2>3, ValidParts
<1>9. ReservedOnce(u)
  BY <1>1, <1>2, <1>4, <1>5 DEF ReservedOnce
<1>10. Evident(u, jn, out, can)
  <2>1. \A j \in Ids, n \in 1..MaxAttempts : j >= id =>
          jn[<<j, n>>] = "empty" /\ \A e \in Dests : out[e] # <<j, n>>
    BY <1>1 DEF Evident, id
  <2>2. JobEvident(id, job, jn, out, can)
    BY <1>2, <2>1, Numbers DEF JobEvident, Quiet
  <2>3. \A k \in DOMAIN t : JobEvident(k, t[k], jn, out, can)
    BY <1>1, <1>5, <2>2 DEF Evident
  <2>4. \A j \in Ids, n \in 1..MaxAttempts : j >= id + 1 =>
          jn[<<j, n>>] = "empty" /\ \A e \in Dests : out[e] # <<j, n>>
    BY <1>2, <2>1, Numbers
  <2>5. \A j \in Ids \ DOMAIN t : \A m, n \in 1..MaxAttempts :
          m # n => Quiet(jn, j, m) \/ Quiet(jn, j, n)
    BY <1>1, <1>5 DEF Evident
  <2> QED BY <1>5, <2>3, <2>4, <2>5 DEF Evident
<1> QED BY <1>7, <1>8, <1>9, <1>10 DEF Sound, u, t, id

\* open's snapshot: the job of a worker that exited is interrupted.
LEMMA RecoveredSound ==
  ASSUME NEW s, NEW jn, NEW out, NEW can, Sound(s, jn, out, can)
  PROVE  /\ Sound(Recovered(s), jn, out, can)
         /\ \A j \in DOMAIN Recovered(s).jobs :
              j \in DOMAIN s.jobs /\ Recovered(s).jobs[j].state # "running"
         /\ DOMAIN Recovered(s).jobs = DOMAIN s.jobs
<1> DEFINE moved(j) == Moved(s.jobs[j], "interrupted", Disposition(j, s.jobs[j]))
           t == [j \in DOMAIN s.jobs |-> IF j \in Abandoned(s) THEN moved(j) ELSE s.jobs[j]]
           u == [s EXCEPT !.jobs = t]
<1>1. /\ Snapshot(s) /\ Valid(s) /\ ReservedOnce(s) /\ Evident(s, jn, out, can)
      /\ DOMAIN s.jobs \subseteq Ids /\ s.next \in 1..(MaxSequence + 1)
      /\ s.jobs \in [DOMAIN s.jobs -> Jobs]
      /\ s = [next |-> s.next, jobs |-> s.jobs]
  BY DEF Sound, Snapshot
<1>2. \A j \in DOMAIN s.jobs :
        /\ s.jobs[j] \in Jobs /\ JobValid(s.jobs[j])
        /\ j <= s.jobs[j].order /\ s.jobs[j].order < s.next
        /\ Len(s.jobs[j].attempts) \in 0..MaxAttempts
  BY <1>1, ValidParts, JobTyped
<1>3. \A j \in DOMAIN s.jobs : j \notin Abandoned(s) <=> s.jobs[j].state # "running"
  BY DEF Abandoned
<1>4. \A j \in DOMAIN s.jobs :
        /\ moved(j) \in Jobs /\ JobValid(moved(j))
        /\ moved(j).dest = s.jobs[j].dest /\ moved(j).order = s.jobs[j].order
        /\ moved(j).state = "interrupted"
        /\ Len(moved(j).attempts) = Len(s.jobs[j].attempts)
  <2> SUFFICES ASSUME NEW j \in DOMAIN s.jobs
               PROVE  /\ moved(j) \in Jobs /\ JobValid(moved(j))
                      /\ moved(j).dest = s.jobs[j].dest /\ moved(j).order = s.jobs[j].order
                      /\ moved(j).state = "interrupted"
                      /\ Len(moved(j).attempts) = Len(s.jobs[j].attempts)
    OBVIOUS
  <2>1. Disposition(j, s.jobs[j]) \in Dispositions
    BY DEF Disposition, Dispositions
  <2>2. "interrupted" \in JobStates \ {"queued", "running"}
    BY DEF JobStates
  <2> QED BY <1>2, <2>1, <2>2, MovedFacts
<1> HIDE DEF moved
<1>5. /\ DOMAIN t = DOMAIN s.jobs
      /\ \A j \in DOMAIN t :
           /\ t[j] \in Jobs /\ JobValid(t[j]) /\ t[j].state # "running"
           /\ t[j].dest = s.jobs[j].dest /\ t[j].order = s.jobs[j].order
           /\ Len(t[j].attempts) = Len(s.jobs[j].attempts)
           /\ t[j] = s.jobs[j] \/ (t[j].state = "interrupted" /\ s.jobs[j].state = "running")
  <2>1. DOMAIN t = DOMAIN s.jobs
    OBVIOUS
  <2>2. \A j \in DOMAIN s.jobs :
          /\ s.jobs[j].state # "running" => t[j] = s.jobs[j]
          /\ s.jobs[j].state = "running" => t[j] = moved(j)
    BY <1>3
  <2> HIDE DEF t
  <2>3. ASSUME NEW j \in DOMAIN s.jobs
        PROVE  /\ t[j] \in Jobs /\ JobValid(t[j]) /\ t[j].state # "running"
               /\ t[j].dest = s.jobs[j].dest /\ t[j].order = s.jobs[j].order
               /\ Len(t[j].attempts) = Len(s.jobs[j].attempts)
               /\ t[j] = s.jobs[j] \/ (t[j].state = "interrupted" /\ s.jobs[j].state = "running")
    <3>1. CASE s.jobs[j].state = "running"
      BY <1>4, <2>2, <3>1
    <3>2. CASE s.jobs[j].state # "running"
      BY <1>2, <2>2, <3>2
    <3> QED BY <3>1, <3>2
  <2> QED BY <2>1, <2>3
<1>6. t \in [DOMAIN t -> Jobs]
  BY <1>5
<1>7. Recovered(s) = u
  BY DEF Recovered, moved
<1>8. u.next = s.next /\ u.jobs = t /\ u = [next |-> u.next, jobs |-> u.jobs]
  BY <1>1
<1> HIDE DEF t, u
<1>9. Snapshot(u)
  BY <1>1, <1>5, <1>6, <1>8 DEF Snapshot
<1>10. Valid(u)
  <2>1. \A j, k \in DOMAIN t : j # k => t[k].order # t[j].order
    BY <1>1, <1>5, ValidParts
  <2> QED BY <1>1, <1>2, <1>5, <1>8, <2>1, ValidParts
<1>11. ReservedOnce(u)
  BY <1>1, <1>5, <1>8 DEF ReservedOnce, Over
<1>12. Evident(u, jn, out, can)
  <2>1. ASSUME NEW j \in DOMAIN t PROVE JobEvident(j, t[j], jn, out, can)
    <3>1. JobEvident(j, s.jobs[j], jn, out, can)
      BY <1>1, <1>5 DEF Evident
    <3> QED BY <1>5, <3>1 DEF JobEvident
  <2> QED BY <1>1, <1>5, <1>8, <2>1 DEF Evident
<1> QED BY <1>5, <1>7, <1>8, <1>9, <1>10, <1>11, <1>12 DEF Sound

\* Evidence that is settled later, a cancellation the user gives, and what other
\* programs put at a destination leave a snapshot sound.
LEMMA EvidenceSettles ==
  ASSUME NEW s, NEW jn, NEW out, NEW can, NEW jn2, NEW out2, NEW can2,
         Sound(s, jn, out, can), can \subseteq can2,
         \A a \in Attempts : jn2[a] = jn[a] \/ (jn[a] # "empty" /\ jn2[a] = "rolledback"),
         \A d \in Dests : out2[d] = out[d] \/ out2[d] \in {Absent, Foreign}
  PROVE  Sound(s, jn2, out2, can2)
<1>1. /\ Snapshot(s) /\ Valid(s) /\ ReservedOnce(s) /\ Evident(s, jn, out, can)
      /\ DOMAIN s.jobs \subseteq Ids
  BY DEF Sound, Snapshot
<1>2. ASSUME NEW j \in Ids, NEW n \in 1..MaxAttempts
      PROVE  /\ jn2[<<j, n>>] = jn[<<j, n>>]
                \/ (jn[<<j, n>>] # "empty" /\ jn2[<<j, n>>] = "rolledback")
             /\ \A d \in Dests : out2[d] = <<j, n>> => out[d] = <<j, n>>
  BY Numbers DEF Attempts, Absent, Foreign
<1>3. ASSUME NEW j \in DOMAIN s.jobs
      PROVE  JobEvident(j, s.jobs[j], jn2, out2, can2)
  <2>1. JobEvident(j, s.jobs[j], jn, out, can) /\ Len(s.jobs[j].attempts) \in 0..MaxAttempts
    BY <1>1, SnapshotJobs, JobTyped DEF Evident
  <2>2. j \in Ids
    BY <1>1
  <2>3. s.jobs[j].state = "completed" =>
          jn2[<<j, Len(s.jobs[j].attempts)>>] \in {"applied", "rolledback"}
    BY <1>2, <2>1, <2>2, Numbers DEF JobEvident
  <2>4. \A n \in 1..MaxAttempts : Quiet(jn, j, n) => Quiet(jn2, j, n)
    BY <1>2, <2>2 DEF Quiet
  <2> QED BY <1>2, <2>1, <2>2, <2>3, <2>4 DEF JobEvident
<1>4. ASSUME NEW j \in Ids, NEW n \in 1..MaxAttempts, j >= s.next
      PROVE  jn2[<<j, n>>] = "empty" /\ \A d \in Dests : out2[d] # <<j, n>>
  BY <1>1, <1>2, <1>4 DEF Evident
<1>5. ASSUME NEW j \in Ids \ DOMAIN s.jobs, NEW m \in 1..MaxAttempts,
             NEW n \in 1..MaxAttempts, m # n
      PROVE  Quiet(jn2, j, m) \/ Quiet(jn2, j, n)
  <2>1. Quiet(jn, j, m) \/ Quiet(jn, j, n)
    BY <1>1, <1>5 DEF Evident
  <2> QED BY <1>2, <2>1 DEF Quiet
<1> QED BY <1>1, <1>3, <1>4, <1>5 DEF Sound, Evident

\* What a commit leaves in the file, in its durable copy and in memory.
LEMMA CommitSound ==
  ASSUME NEW next, NEW result \in Results, Commit(next, result),
         NEW jn, NEW out, NEW can, Sound(next, jn, out, can),
         Sound(disk, jn, out, can), Sound(synced, jn, out, can), Sound(mem, jn, out, can),
         poisoned \in BOOLEAN, troubles \in 0..MaxTroubles
  PROVE  /\ Sound(disk', jn, out, can) /\ Sound(synced', jn, out, can)
         /\ Sound(mem', jn, out, can)
         /\ poisoned' \in BOOLEAN /\ troubles' \in 0..MaxTroubles
         /\ result = "ok" => disk' = next /\ synced' = next /\ mem' = next /\ poisoned' = poisoned
         /\ result # "ok" => mem' = mem
         /\ (~poisoned => disk = mem) => (~poisoned' => disk' = mem')
<1>1. CASE result = "ok"
  BY <1>1 DEF Commit
<1>2. CASE result # "ok"
  <2>1. mem' = mem /\ synced' = synced /\ (disk' = disk \/ disk' = next)
    BY <1>2 DEF Commit
  <2>2. troubles' \in 0..MaxTroubles
    BY <1>2, Numbers DEF Commit
  <2>3. poisoned' \in BOOLEAN
    BY <1>2 DEF Commit
  <2>4. ~poisoned' => ~poisoned /\ result = "refused" /\ disk' = disk
    BY <1>2 DEF Commit, Results
  <2> QED BY <1>2, <2>1, <2>2, <2>3, <2>4
<1> QED BY <1>1, <1>2

----------------------------------------------------------------------------
(* The head of the queue *)

LEMMA FirstIsQueued ==
  ASSUME Snapshot(mem), QueuedJobs # {}
  PROVE  /\ FirstQueued \in QueuedJobs
         /\ \A k \in QueuedJobs : mem.jobs[FirstQueued].order <= mem.jobs[k].order
<1> DEFINE S == {mem.jobs[j].order : j \in QueuedJobs}
<1>1. \A j \in QueuedJobs : mem.jobs[j].order \in Nat
  BY SnapshotJobs, JobTyped, Numbers DEF QueuedJobs
<1>2. S \in SUBSET Nat /\ S # {}
  BY <1>1
<1>3. PICK x \in S : \A y \in S : x <= y
  BY <1>2, LeastNatural
<1>4. \E j \in QueuedJobs : \A k \in QueuedJobs : mem.jobs[j].order <= mem.jobs[k].order
  BY <1>3
<1> QED BY <1>4 DEF FirstQueued

----------------------------------------------------------------------------
(* The commands of a worker *)

\* A worker between two jobs owns the queue, and nothing runs.
LEMMA InLoop ==
  ASSUME QueueInv, NEW w \in Windows, worker[w] = "loop"
  PROVE  /\ owner = w /\ owner # None /\ run.at = "idle"
         /\ Sound(disk, journal, output, user.cancelled)
         /\ Sound(synced, journal, output, user.cancelled)
         /\ Sound(mem, journal, output, user.cancelled)
         /\ poisoned \in BOOLEAN /\ troubles \in 0..MaxTroubles
         /\ ~poisoned => disk = mem
         /\ through[w] < mem.next /\ through[w] \in 0..MaxSequence
         /\ mem.next \in 1..(MaxSequence + 1)
<1>1. owner = w /\ owner # None
  BY QueueAssumption DEF QueueAssumption, QueueInv, WorkerInv, Owning
<1>2. run.at = "idle"
  BY <1>1 DEF QueueInv, WorkerInv
<1> QED BY <1>1, <1>2, SnapshotJobs
        DEF QueueInv, TypeInv, QueueTyped, WindowTyped, SoundQueue, Sound, OwnerInv

\* A command that leaves a sound queue, and authorises nothing that was queued
\* since.
LEMMA CommandStep ==
  ASSUME QueueInv, NEW w \in Windows, worker[w] = "loop",
         cmds[w] # <<>>, cmds' = [cmds EXCEPT ![w] = Tail(@)],
         alive' = alive, active' = active, worker' = worker, sent' = sent,
         owner' = owner, run' = run, cancel' = cancel,
         journal' = journal, staging' = staging, output' = output, source' = source,
         user' \in [cancelled : SUBSET Ids, started : SUBSET (Ids \X Ids)],
         Sound(disk', journal, output, user'.cancelled),
         Sound(synced', journal, output, user'.cancelled),
         Sound(mem', journal, output, user'.cancelled),
         poisoned' \in BOOLEAN, troubles' \in 0..MaxTroubles, ~poisoned' => disk' = mem',
         through' \in [Windows -> 0..MaxSequence],
         \A v \in Windows \ {w} : through'[v] = through[v],
         through'[w] < mem'.next,
         \A j \in QueuedJobs' : mem'.jobs[j].order <= through'[w] =>
           <<j, mem'.jobs[j].order>> \in user'.started
  PROVE  QueueInv'
<1>1. owner = w /\ owner # None /\ run.at = "idle"
  BY InLoop
<1>2. QueueTyped'
  BY DEF QueueInv, TypeInv, QueueTyped, Sound
<1>3. WindowTyped'
  <2>1. cmds' \in [Windows -> Seq(Commands(Ids))]
    <3>1. Tail(cmds[w]) \in Seq(Commands(Ids))
      BY DEF QueueInv, TypeInv, WindowTyped
    <3> QED BY <3>1 DEF QueueInv, TypeInv, WindowTyped
  <2> QED BY <2>1 DEF QueueInv, TypeInv, WindowTyped
<1>4. SoundQueue'
  BY DEF SoundQueue
<1>5. WorkerInv'
  <2>1. \A v \in Windows : cmds'[v] # <<>> => alive'[v]
    <3> SUFFICES ASSUME NEW v \in Windows, cmds'[v] # <<>> PROVE alive[v]
      OBVIOUS
    <3>1. CASE v = w
      BY <3>1 DEF QueueInv, WorkerInv
    <3>2. CASE v # w
      BY <3>2 DEF QueueInv, WorkerInv, TypeInv, WindowTyped
    <3> QED BY <3>1, <3>2
  <2>2. \A v \in Windows : worker[v] \notin Owning => through'[v] = 0
    BY DEF QueueInv, WorkerInv, Owning
  <2> QED BY <2>1, <2>2 DEF QueueInv, WorkerInv
<1>6. OwnerInv'
  BY <1>1 DEF OwnerInv
<1>7. RunInv'
  BY <1>1 DEF RunInv, Active
<1> QED BY <1>2, <1>3, <1>4, <1>5, <1>6, <1>7 DEF QueueInv, TypeInv

\* What Start authorised stays authorised, or is given up.
LEMMA StillStarted ==
  ASSUME QueueInv, NEW w \in Windows, worker[w] = "loop",
         mem'.next \in Nat, mem.next <= mem'.next,
         NEW ok \in BOOLEAN, Done(w, ok), user'.started = user.started,
         \A j \in QueuedJobs' : mem'.jobs[j].order \in Nat \ {0},
         \A j \in QueuedJobs' :
           \/ j \in QueuedJobs /\ mem'.jobs[j].order = mem.jobs[j].order
           \/ mem'.jobs[j].order >= mem.next
  PROVE  /\ through' \in [Windows -> 0..MaxSequence]
         /\ \A v \in Windows \ {w} : through'[v] = through[v]
         /\ through'[w] < mem'.next
         /\ \A j \in QueuedJobs' : mem'.jobs[j].order <= through'[w] =>
              <<j, mem'.jobs[j].order>> \in user'.started
<1>1. /\ owner = w /\ owner # None /\ through[w] < mem.next
      /\ through[w] \in 0..MaxSequence /\ mem.next \in 1..(MaxSequence + 1)
  BY InLoop
<1>2. through \in [Windows -> 0..MaxSequence]
  BY DEF QueueInv, TypeInv, WindowTyped
<1>3. /\ through' \in [Windows -> 0..MaxSequence]
      /\ \A v \in Windows \ {w} : through'[v] = through[v]
      /\ through'[w] = through[w] \/ through'[w] = 0
  BY <1>2, Numbers DEF Done
<1>4. through'[w] < mem'.next
  BY <1>1, <1>3, Numbers
<1>5. ASSUME NEW j \in QueuedJobs', mem'.jobs[j].order <= through'[w]
      PROVE  <<j, mem'.jobs[j].order>> \in user'.started
  <2>1. through'[w] = through[w] /\ mem'.jobs[j].order < mem.next
    BY <1>1, <1>3, <1>5, Numbers
  <2>2. j \in QueuedJobs /\ mem'.jobs[j].order = mem.jobs[j].order
    BY <1>1, <1>5, <2>1, Numbers
  <2> QED BY <1>1, <1>5, <2>1, <2>2 DEF QueueInv, OwnerInv
<1> QED BY <1>3, <1>4, <1>5

\* A command that commits a sound queue.
LEMMA CommandCommits ==
  ASSUME QueueInv, NEW w \in Windows, NEW op, Taken(w, op),
         NEW next, NEW result \in Results, Commit(next, result), Unrun,
         NEW ok \in BOOLEAN, Done(w, ok),
         user' \in [cancelled : SUBSET Ids, started : SUBSET (Ids \X Ids)],
         user'.started = user.started, user.cancelled \subseteq user'.cancelled,
         Sound(next, journal, output, user'.cancelled),
         mem.next <= next.next,
         \A j \in DOMAIN next.jobs : next.jobs[j].state = "queued" =>
           \/ j \in QueuedJobs /\ next.jobs[j].order = mem.jobs[j].order
           \/ next.jobs[j].order >= mem.next
  PROVE  QueueInv'
<1>1. /\ worker[w] = "loop" /\ cmds[w] # <<>> /\ cmds' = [cmds EXCEPT ![w] = Tail(cmds[w])]
      /\ alive' = alive /\ active' = active /\ worker' = worker /\ sent' = sent
  BY DEF Taken
<1>2. /\ owner' = owner /\ run' = run /\ cancel' = cancel
      /\ journal' = journal /\ staging' = staging /\ output' = output /\ source' = source
  BY DEF Unrun, evidenceVars
<1>3. /\ Sound(disk, journal, output, user'.cancelled)
      /\ Sound(synced, journal, output, user'.cancelled)
      /\ Sound(mem, journal, output, user'.cancelled)
  <2>1. \A s : Sound(s, journal, output, user.cancelled) =>
                 Sound(s, journal, output, user'.cancelled)
    BY EvidenceSettles
  <2> QED BY <1>1, <2>1, InLoop
<1>4. /\ Sound(disk', journal, output, user'.cancelled)
      /\ Sound(synced', journal, output, user'.cancelled)
      /\ Sound(mem', journal, output, user'.cancelled)
      /\ poisoned' \in BOOLEAN /\ troubles' \in 0..MaxTroubles
      /\ result = "ok" => mem' = next
      /\ result # "ok" => mem' = mem
      /\ ~poisoned' => disk' = mem'
  BY <1>1, <1>3, InLoop, CommitSound
<1>5. mem'.next \in 1..(MaxSequence + 1) /\ mem.next \in 1..(MaxSequence + 1)
  BY <1>3, <1>4, SnapshotJobs DEF Sound
<1>6. mem.next <= mem'.next /\ mem'.next \in Nat
  BY <1>4, <1>5, Numbers
<1>7. \A j \in QueuedJobs' :
        \/ j \in QueuedJobs /\ mem'.jobs[j].order = mem.jobs[j].order
        \/ mem'.jobs[j].order >= mem.next
  <2>1. CASE result = "ok"
    BY <1>4, <2>1 DEF QueuedJobs
  <2>2. CASE result # "ok"
    BY <1>4, <2>2 DEF QueuedJobs
  <2> QED BY <2>1, <2>2
<1>8. \A j \in QueuedJobs' : mem'.jobs[j].order \in Nat \ {0}
  <2>1. \A j \in DOMAIN mem'.jobs : mem'.jobs[j].order \in Ids
    BY <1>4, SnapshotJobs, JobTyped DEF Sound
  <2> QED BY <2>1, Numbers DEF QueuedJobs
<1>9. /\ through' \in [Windows -> 0..MaxSequence]
      /\ \A v \in Windows \ {w} : through'[v] = through[v]
      /\ through'[w] < mem'.next
      /\ \A j \in QueuedJobs' : mem'.jobs[j].order <= through'[w] =>
           <<j, mem'.jobs[j].order>> \in user'.started
  BY <1>1, <1>6, <1>7, <1>8, StillStarted
<1> QED BY <1>1, <1>2, <1>4, <1>9, CommandStep

\* A command that is refused.
LEMMA CommandRefused ==
  ASSUME QueueInv, NEW w \in Windows, NEW op, Taken(w, op),
         UNCHANGED queueVars, NEW ok \in BOOLEAN, Done(w, ok),
         user' \in [cancelled : SUBSET Ids, started : SUBSET (Ids \X Ids)],
         user'.started = user.started, user.cancelled \subseteq user'.cancelled
  PROVE  QueueInv'
<1>1. /\ worker[w] = "loop" /\ cmds[w] # <<>> /\ cmds' = [cmds EXCEPT ![w] = Tail(cmds[w])]
      /\ alive' = alive /\ active' = active /\ worker' = worker /\ sent' = sent
  BY DEF Taken
<1>2. /\ owner' = owner /\ run' = run /\ cancel' = cancel
      /\ journal' = journal /\ staging' = staging /\ output' = output /\ source' = source
      /\ disk' = disk /\ synced' = synced /\ mem' = mem /\ poisoned' = poisoned
      /\ troubles' = troubles
  BY DEF queueVars, storeVars, evidenceVars
<1>3. /\ Sound(disk, journal, output, user'.cancelled)
      /\ Sound(synced, journal, output, user'.cancelled)
      /\ Sound(mem, journal, output, user'.cancelled)
  <2>1. \A s : Sound(s, journal, output, user.cancelled) =>
                 Sound(s, journal, output, user'.cancelled)
    BY EvidenceSettles
  <2> QED BY <1>1, <2>1, InLoop
<1>4. mem.next \in Nat /\ mem.next <= mem'.next /\ mem'.next \in Nat
  BY <1>1, <1>2, InLoop, Numbers
<1>5. \A j \in QueuedJobs' : mem'.jobs[j].order \in Nat \ {0}
  <2>1. \A j \in DOMAIN mem'.jobs : mem'.jobs[j].order \in Ids
    BY <1>2, <1>3, SnapshotJobs, JobTyped DEF Sound
  <2> QED BY <2>1, Numbers DEF QueuedJobs
<1>6. \A j \in QueuedJobs' : j \in QueuedJobs /\ mem'.jobs[j].order = mem.jobs[j].order
  BY <1>2 DEF QueuedJobs
<1>7. /\ through' \in [Windows -> 0..MaxSequence]
      /\ \A v \in Windows \ {w} : through'[v] = through[v]
      /\ through'[w] < mem'.next
      /\ \A j \in QueuedJobs' : mem'.jobs[j].order <= through'[w] =>
           <<j, mem'.jobs[j].order>> \in user'.started
  BY <1>1, <1>4, <1>5, <1>6, StillStarted
<1>8. poisoned' \in BOOLEAN /\ troubles' \in 0..MaxTroubles /\ (~poisoned' => disk' = mem')
  BY <1>1, <1>2, InLoop
<1>9. /\ Sound(disk', journal, output, user'.cancelled)
      /\ Sound(synced', journal, output, user'.cancelled)
      /\ Sound(mem', journal, output, user'.cancelled)
  BY <1>2, <1>3
<1> QED BY <1>1, <1>2, <1>7, <1>8, <1>9, CommandStep

\* A command about a job or a plan names one.
LEMMA HeadCommand ==
  ASSUME QueueInv, NEW w \in Windows, cmds[w] # <<>>
  PROVE  /\ Head(cmds[w]).op = "enqueue" => Head(cmds[w]).arg \in Dests
         /\ Head(cmds[w]).op \in {"retry", "cancel"} => Head(cmds[w]).arg \in Ids
<1>1. cmds[w] \in Seq(Commands(Ids))
  BY DEF QueueInv, TypeInv, WindowTyped
<1>2. Head(cmds[w]) \in Commands(Ids)
  BY <1>1
<1> QED BY <1>2 DEF Commands

LEMMA UserTyped ==
  ASSUME QueueInv
  PROVE  user \in [cancelled : SUBSET Ids, started : SUBSET (Ids \X Ids)]
BY DEF QueueInv, TypeInv, WindowTyped

LEMMA EnqueueStep ==
  ASSUME QueueInv, NEW w \in Windows, DoEnqueue(w)
  PROVE  QueueInv'
<1> DEFINE d == Head(cmds[w]).arg
<1>1. /\ Taken(w, "enqueue") /\ worker[w] = "loop" /\ cmds[w] # <<>>
      /\ Head(cmds[w]).op = "enqueue" /\ user' = user
  BY DEF DoEnqueue, Taken
<1>2. d \in Dests
  BY <1>1, HeadCommand
<1>3. user' \in [cancelled : SUBSET Ids, started : SUBSET (Ids \X Ids)]
  BY <1>1, UserTyped
<1>4. ASSUME NEW result \in Results, Enqueue(d, result), Done(w, result = "ok")
      PROVE  QueueInv'
  <2> DEFINE next == [next |-> mem.next + 1,
                      jobs |-> [j \in DOMAIN mem.jobs \cup {mem.next} |->
                        IF j = mem.next THEN NewJob(d, j) ELSE mem.jobs[j]]]
  <2>1. /\ Commit(next, result) /\ Unrun /\ Cardinality(DOMAIN mem.jobs) < MaxJobs
        /\ mem.next <= MaxSequence /\ ~Reserved(d, Ids)
    BY <1>4 DEF Enqueue, MayEnqueue
  <2>2. Sound(mem, journal, output, user.cancelled) /\ mem.next \in 1..(MaxSequence + 1)
    BY <1>1, InLoop
  <2>3. \A k \in DOMAIN mem.jobs : mem.jobs[k].dest = d => Over(mem.jobs[k])
    <3>1. DOMAIN mem.jobs \subseteq Ids
      BY <2>2, SnapshotJobs DEF Sound
    <3> QED BY <2>1, <3>1 DEF Reserved, Over
  <2>4. Sound(next, journal, output, user'.cancelled)
    BY <1>1, <1>2, <2>1, <2>2, <2>3, EnqueuedSound
  <2>5. mem.next <= next.next
    BY <2>2, Numbers
  <2>6. \A j \in DOMAIN next.jobs : next.jobs[j].state = "queued" =>
          \/ j \in QueuedJobs /\ next.jobs[j].order = mem.jobs[j].order
          \/ next.jobs[j].order >= mem.next
    <3> SUFFICES ASSUME NEW j \in DOMAIN next.jobs, next.jobs[j].state = "queued"
                 PROVE  \/ j \in QueuedJobs /\ next.jobs[j].order = mem.jobs[j].order
                        \/ next.jobs[j].order >= mem.next
      OBVIOUS
    <3>1. CASE j = mem.next
      BY <2>2, <3>1, Numbers DEF NewJob
    <3>2. CASE j # mem.next
      BY <3>2 DEF QueuedJobs
    <3> QED BY <3>1, <3>2
  <2> HIDE DEF next
  <2>7. user'.started = user.started /\ user.cancelled \subseteq user'.cancelled
    BY <1>1
  <2>8. (result = "ok") \in BOOLEAN
    OBVIOUS
  <2> QED BY <1>1, <1>3, <1>4, <2>1, <2>4, <2>5, <2>6, <2>7, <2>8, CommandCommits
<1>5. ASSUME Refused(w) PROVE QueueInv'
  <2>1. Done(w, FALSE) /\ UNCHANGED queueVars
    BY <1>5 DEF Refused
  <2> QED BY <1>1, <1>3, <2>1, CommandRefused
<1> QED BY <1>4, <1>5 DEF DoEnqueue

\* Putting a job in the owner's snapshot.
LEMMA PutIs ==
  ASSUME Snapshot(mem), NEW j, NEW job
  PROVE  Put(j, job) = [next |-> mem.next, jobs |-> [mem.jobs EXCEPT ![j] = job]]
BY DEF Put, Snapshot

\* A job moves to a state its evidence allows.
LEMMA MovedSound ==
  ASSUME NEW s, NEW jn, NEW out, NEW can, Sound(s, jn, out, can),
         NEW j \in DOMAIN s.jobs, NEW st \in JobStates \ {"queued", "running"},
         NEW r \in Dispositions,
         s.jobs[j].state = "running" => st # "blocked_input_missing",
         ~Over(s.jobs[j]),
         st = "cancelled" => j \in can /\ \A n \in 1..MaxAttempts : Quiet(jn, j, n),
         st = "completed" =>
           /\ s.jobs[j].state = "running"
           /\ jn[<<j, Len(s.jobs[j].attempts)>>] \in {"applied", "rolledback"}
  PROVE  Sound([next |-> s.next, jobs |-> [s.jobs EXCEPT ![j] = Moved(s.jobs[j], st, r)]],
               jn, out, can)
<1> DEFINE job == s.jobs[j]
           moved == Moved(job, st, r)
<1>1. /\ Valid(s) /\ Snapshot(s) /\ job \in Jobs /\ JobValid(job)
      /\ j <= job.order /\ job.order < s.next /\ s.next \in 1..(MaxSequence + 1)
      /\ JobEvident(j, job, jn, out, can)
  BY SnapshotJobs, ValidParts DEF Sound, Evident
<1>2. /\ moved \in Jobs /\ JobValid(moved)
      /\ moved.dest = job.dest /\ moved.order = job.order
      /\ moved.state = st /\ Len(moved.attempts) = Len(job.attempts)
      /\ job.state = "running" => moved.attempts[Len(job.attempts)] = st
  BY <1>1, MovedFacts
<1>3. /\ Len(job.attempts) \in 0..MaxAttempts
      /\ job.state = "running" => Len(job.attempts) > 0
  BY <1>1, JobTyped, RunningAttempt
<1> HIDE DEF moved
<1>4. JobEvident(j, moved, jn, out, can)
  BY <1>1, <1>2, <1>3 DEF JobEvident
<1>5. \A k \in DOMAIN s.jobs : k # j =>
        /\ s.jobs[k].order # moved.order
        /\ ~(s.jobs[k].state = "running" /\ moved.state = "running")
  BY <1>1, <1>2, ValidParts
<1>6. s.next <= s.next
  BY <1>1, Numbers
<1>7. Sound([next |-> s.next, jobs |-> [s.jobs EXCEPT ![j] = moved]], jn, out, can)
  BY <1>1, <1>2, <1>4, <1>5, <1>6, PutSound
<1> QED BY <1>7 DEF moved

\* The owner's snapshot when one of its jobs moves.
LEMMA MovedInMem ==
  ASSUME NEW jn, NEW out, NEW can, Sound(mem, jn, out, can),
         NEW j \in DOMAIN mem.jobs, NEW st \in JobStates \ {"queued", "running"},
         NEW r \in Dispositions,
         mem.jobs[j].state = "running" => st # "blocked_input_missing",
         ~Over(mem.jobs[j]),
         st = "cancelled" => j \in can /\ \A n \in 1..MaxAttempts : Quiet(jn, j, n),
         st = "completed" =>
           /\ mem.jobs[j].state = "running"
           /\ jn[<<j, Len(mem.jobs[j].attempts)>>] \in {"applied", "rolledback"}
  PROVE  Sound(Put(j, Moved(mem.jobs[j], st, r)), jn, out, can)
<1> DEFINE moved == Moved(mem.jobs[j], st, r)
           next == [next |-> mem.next, jobs |-> [mem.jobs EXCEPT ![j] = moved]]
<1>1. Put(j, moved) = next
  BY PutIs DEF Sound
<1>2. Sound(next, jn, out, can)
  BY MovedSound
<1> HIDE DEF next
<1> QED BY <1>1, <1>2

\* What the file says when nothing about a job asks for a review.
LEMMA NothingToReview ==
  ASSUME NEW j, NEW job, NEW can, JobEvident(j, job, journal, output, can),
         ~RequiresReview(j, job), Len(job.attempts) \in 0..MaxAttempts
  PROVE  \A n \in 1..MaxAttempts : Quiet(journal, j, n)
<1> SUFFICES ASSUME NEW n \in 1..MaxAttempts PROVE Quiet(journal, j, n)
  OBVIOUS
<1>1. CASE n > Len(job.attempts)
  BY <1>1 DEF JobEvident, Quiet
<1>2. CASE n <= Len(job.attempts)
  <2>1. <<j, n>> \in Recorded(j, job)
    BY <1>2, Numbers DEF Recorded
  <2> QED BY <2>1 DEF RequiresReview, Quiet
<1> QED BY <1>1, <1>2, Numbers

LEMMA BlockedStates ==
  ASSUME NEW j, NEW s \in Blocked(j)
  PROVE  /\ s \in JobStates \ {"queued", "running"}
         /\ s \in {"blocked_input_missing", "blocked_stale"}
BY DEF Blocked, JobStates

\* A job moved in the owner's snapshot waits no longer.
LEMMA MovedWaits ==
  ASSUME Sound(mem, journal, output, user.cancelled), NEW j \in DOMAIN mem.jobs,
         NEW st \in JobStates \ {"queued", "running"}, NEW r \in Dispositions,
         mem.jobs[j].state = "running" => st # "blocked_input_missing"
  PROVE  LET next == Put(j, Moved(mem.jobs[j], st, r)) IN
         /\ mem.next <= next.next
         /\ \A k \in DOMAIN next.jobs : next.jobs[k].state = "queued" =>
              \/ k \in QueuedJobs /\ next.jobs[k].order = mem.jobs[k].order
              \/ next.jobs[k].order >= mem.next
<1> DEFINE t == [mem.jobs EXCEPT ![j] = Moved(mem.jobs[j], st, r)]
           next == [next |-> mem.next, jobs |-> t]
<1>1. /\ Snapshot(mem) /\ Valid(mem) /\ mem.jobs[j] \in Jobs /\ JobValid(mem.jobs[j])
      /\ mem.next \in 1..(MaxSequence + 1)
  BY SnapshotJobs, ValidParts DEF Sound
<1>2. Moved(mem.jobs[j], st, r).state = st
  BY <1>1, MovedFacts
<1>3. DOMAIN t = DOMAIN mem.jobs /\ t[j].state = st
      /\ \A k \in DOMAIN mem.jobs : k # j => t[k] = mem.jobs[k]
  BY <1>2
<1> HIDE DEF t
<1>4. mem.next <= next.next
  BY <1>1, Numbers
<1>5. \A k \in DOMAIN next.jobs : next.jobs[k].state = "queued" =>
        k \in QueuedJobs /\ next.jobs[k].order = mem.jobs[k].order
  BY <1>3 DEF QueuedJobs
<1>6. Put(j, Moved(mem.jobs[j], st, r)) = next
  BY <1>1, PutIs DEF t
<1> HIDE DEF next
<1> QED BY <1>4, <1>5, <1>6

LEMMA RetryStep ==
  ASSUME QueueInv, NEW w \in Windows, DoRetry(w)
  PROVE  QueueInv'
<1> DEFINE j == Head(cmds[w]).arg
           job == mem.jobs[j]
<1>1. /\ Taken(w, "retry") /\ worker[w] = "loop" /\ user' = user
  BY DEF DoRetry, Taken
<1>2. /\ user' \in [cancelled : SUBSET Ids, started : SUBSET (Ids \X Ids)]
      /\ user'.started = user.started /\ user.cancelled \subseteq user'.cancelled
  BY <1>1, UserTyped
<1>3. ASSUME NEW result \in Results, Retry(j, result),
             Done(w, result = "ok" /\ Blocked(j) = {})
      PROVE  QueueInv'
  <2>1. /\ MayRetry(j) /\ Unrun /\ j \in DOMAIN mem.jobs /\ Retryable(job)
        /\ ~RequiresReview(j, job)
    BY <1>3 DEF Retry, MayRetry
  <2>2. /\ Sound(mem, journal, output, user.cancelled) /\ mem.next \in 1..(MaxSequence + 1)
        /\ Snapshot(mem) /\ Valid(mem)
    BY <1>1, InLoop DEF Sound
  <2>3. /\ job \in Jobs /\ JobValid(job) /\ JobEvident(j, job, journal, output, user.cancelled)
        /\ Len(job.attempts) \in 0..MaxAttempts
    BY <2>1, <2>2, SnapshotJobs, ValidParts, JobTyped DEF Sound, Evident
  <2>4. ~Over(job) /\ job.state # "running"
    BY <2>1 DEF Retryable, Over
  <2>5. (result = "ok" /\ Blocked(j) = {}) \in BOOLEAN
    OBVIOUS
  <2>6. ASSUME NEW st \in Blocked(j), Commit(Put(j, Moved(job, st, "restart")), result)
        PROVE  QueueInv'
    <3> DEFINE next == Put(j, Moved(job, st, "restart"))
    <3>1. /\ st \in JobStates \ {"queued", "running"} /\ st # "cancelled" /\ st # "completed"
          /\ "restart" \in Dispositions
      BY BlockedStates DEF Dispositions
    <3>2. Sound(next, journal, output, user'.cancelled)
      BY <1>1, <2>1, <2>2, <2>4, <3>1, MovedInMem
    <3>3. /\ mem.next <= next.next
          /\ \A k \in DOMAIN next.jobs : next.jobs[k].state = "queued" =>
               \/ k \in QueuedJobs /\ next.jobs[k].order = mem.jobs[k].order
               \/ next.jobs[k].order >= mem.next
      BY <2>1, <2>2, <2>4, <3>1, MovedWaits
    <3> HIDE DEF next
    <3>4. Commit(next, result)
      BY <2>6 DEF next
    <3> QED BY <1>1, <1>2, <1>3, <2>1, <2>5, <3>2, <3>3, <3>4, CommandCommits
  <2>7. ASSUME Blocked(j) = {}, Commit(Requeued(j), result)
        PROVE  QueueInv'
    <3> DEFINE behind == [job EXCEPT !.order = mem.next, !.state = "queued", !.retry = "none"]
               t == [mem.jobs EXCEPT ![j] = behind]
               next == [next |-> mem.next + 1, jobs |-> t]
    <3>1. /\ mem.next <= MaxSequence /\ mem.next \in Ids
          /\ mem.next + 1 \in 1..(MaxSequence + 1)
      BY <2>1, <2>2, <2>7, Numbers DEF MayRetry
    <3>2. /\ behind \in Jobs /\ behind.dest = job.dest /\ behind.order = mem.next
          /\ behind.state = "queued" /\ behind.attempts = job.attempts
      BY <2>3, <3>1 DEF Jobs, JobStates, Dispositions
    <3> HIDE DEF behind
    <3>3. JobValid(behind)
      BY <2>3, <2>4, <3>2 DEF JobValid
    <3>4. JobEvident(j, behind, journal, output, user.cancelled)
      <4>1. \A n \in 1..MaxAttempts : Quiet(journal, j, n)
        BY <2>1, <2>3, NothingToReview
      <4> QED BY <2>3, <3>2, <4>1 DEF JobEvident
    <3>5. \A k \in DOMAIN mem.jobs : mem.jobs[k].order < mem.next /\ mem.jobs[k].order \in Ids
                                     /\ k <= mem.jobs[k].order /\ k \in Ids
      BY <2>2, SnapshotJobs, ValidParts, JobTyped
    <3>6. \A k \in DOMAIN mem.jobs : mem.jobs[k].order # mem.next
      BY <2>2, <3>5, Numbers
    <3>7. j <= mem.next /\ mem.next < mem.next + 1 /\ mem.next <= mem.next + 1
      BY <2>1, <2>2, <3>5, Numbers
    <3>8. Sound(next, journal, output, user'.cancelled)
      BY <1>1, <2>1, <2>2, <2>4, <3>1, <3>2, <3>3, <3>4, <3>6, <3>7, PutSound
    <3>9. \A k \in DOMAIN next.jobs : next.jobs[k].state = "queued" =>
            \/ k \in QueuedJobs /\ next.jobs[k].order = mem.jobs[k].order
            \/ next.jobs[k].order >= mem.next
      <4>1. DOMAIN t = DOMAIN mem.jobs /\ t[j] = behind
            /\ \A k \in DOMAIN mem.jobs : k # j => t[k] = mem.jobs[k]
        BY <2>1
      <4> HIDE DEF t
      <4>2. mem.next >= mem.next
        BY <2>2, Numbers
      <4> QED BY <3>2, <4>1, <4>2 DEF QueuedJobs
    <3>10. mem.next <= next.next
      BY <3>7
    <3>11. Commit(next, result)
      BY <2>7 DEF Requeued, behind
    <3> HIDE DEF next
    <3> QED BY <1>1, <1>2, <1>3, <2>1, <2>5, <3>8, <3>9, <3>10, <3>11, CommandCommits
  <2> QED BY <1>3, <2>6, <2>7 DEF Retry
<1>4. ASSUME Refused(w) PROVE QueueInv'
  <2>1. Done(w, FALSE) /\ UNCHANGED queueVars
    BY <1>4 DEF Refused
  <2> QED BY <1>1, <1>2, <2>1, CommandRefused
<1> QED BY <1>3, <1>4 DEF DoRetry

LEMMA CancelStep ==
  ASSUME QueueInv, NEW w \in Windows, DoCancel(w)
  PROVE  QueueInv'
<1> DEFINE j == Head(cmds[w]).arg
           job == mem.jobs[j]
<1>1. /\ Taken(w, "cancel") /\ worker[w] = "loop" /\ cmds[w] # <<>>
      /\ Head(cmds[w]).op = "cancel"
      /\ user' = [user EXCEPT !.cancelled = user.cancelled \cup {j}]
  BY DEF DoCancel, Taken
<1>2. /\ user' \in [cancelled : SUBSET Ids, started : SUBSET (Ids \X Ids)]
      /\ user'.started = user.started /\ user'.cancelled = user.cancelled \cup {j}
  BY <1>1, UserTyped, HeadCommand
<1>3. ASSUME NEW result \in Results, CancelQueued(j, result), Done(w, FALSE)
      PROVE  QueueInv'
  <2> DEFINE next == Put(j, Moved(job, "cancelled", "none"))
  <2>1. /\ Unrun /\ j \in DOMAIN mem.jobs /\ job.state = "queued" /\ Commit(next, result)
    BY <1>3 DEF CancelQueued, MayCancel
  <2>2. Sound(mem, journal, output, user.cancelled)
    BY <1>1, InLoop
  <2>3. Sound(mem, journal, output, user'.cancelled) /\ Snapshot(mem)
    <3>1. user.cancelled \subseteq user'.cancelled
      BY <1>2
    <3> QED BY <2>2, <3>1, EvidenceSettles DEF Sound
  <2>4. JobEvident(j, job, journal, output, user'.cancelled)
    BY <2>1, <2>3 DEF Sound, Evident
  <2>5. /\ "cancelled" \in JobStates \ {"queued", "running"} /\ "none" \in Dispositions
        /\ ~Over(job) /\ j \in user'.cancelled /\ \A n \in 1..MaxAttempts : Quiet(journal, j, n)
    BY <1>2, <2>1, <2>4 DEF JobStates, Dispositions, Over, JobEvident
  <2>6. Sound(next, journal, output, user'.cancelled)
    BY <2>1, <2>3, <2>5, MovedInMem
  <2>7. /\ mem.next <= next.next
        /\ \A k \in DOMAIN next.jobs : next.jobs[k].state = "queued" =>
             \/ k \in QueuedJobs /\ next.jobs[k].order = mem.jobs[k].order
             \/ next.jobs[k].order >= mem.next
    BY <2>1, <2>2, <2>5, MovedWaits
  <2> HIDE DEF next
  <2>8. user.cancelled \subseteq user'.cancelled
    BY <1>2
  <2> QED BY <1>1, <1>2, <1>3, <2>1, <2>6, <2>7, <2>8, CommandCommits
<1>4. ASSUME Refused(w) PROVE QueueInv'
  <2>1. Done(w, FALSE) /\ UNCHANGED queueVars
    BY <1>4 DEF Refused
  <2>2. user.cancelled \subseteq user'.cancelled
    BY <1>2
  <2> QED BY <1>1, <1>2, <2>1, <2>2, CommandRefused
<1> QED BY <1>3, <1>4 DEF DoCancel

LEMMA StartStep ==
  ASSUME QueueInv, NEW w \in Windows, DoStart(w)
  PROVE  QueueInv'
<1> DEFINE S == {0} \cup QueuedOrders
<1>1. /\ Taken(w, "start") /\ worker[w] = "loop" /\ cmds[w] # <<>>
      /\ cmds' = [cmds EXCEPT ![w] = Tail(cmds[w])]
      /\ alive' = alive /\ active' = active /\ worker' = worker /\ sent' = sent
      /\ through' = [through EXCEPT ![w] = Max(S)]
      /\ user' = [user EXCEPT !.started = {<<j, mem.jobs[j].order>> : j \in QueuedJobs}]
  BY DEF DoStart, Taken
<1>2. /\ owner' = owner /\ run' = run /\ cancel' = cancel
      /\ journal' = journal /\ staging' = staging /\ output' = output /\ source' = source
      /\ disk' = disk /\ synced' = synced /\ mem' = mem /\ poisoned' = poisoned
      /\ troubles' = troubles
  BY DEF DoStart, queueVars, storeVars, evidenceVars
<1>3. \A j \in QueuedJobs : /\ j \in Ids /\ mem.jobs[j].order \in Ids
                            /\ mem.jobs[j].order < mem.next
  BY <1>1, InLoop, SnapshotJobs, ValidParts, JobTyped DEF Sound, QueuedJobs
<1>4. mem.next \in 1..(MaxSequence + 1)
  BY <1>1, InLoop
<1>5. Max(S) \in S /\ \A y \in S : Max(S) >= y
  <2>1. S \in SUBSET (0..MaxSequence) /\ S # {}
    BY <1>3, Numbers DEF QueuedOrders
  <2> QED BY <2>1, Numbers, GreatestNatural
<1>6. Max(S) < mem.next /\ Max(S) \in 0..MaxSequence
  BY <1>3, <1>4, <1>5, Numbers DEF QueuedOrders
<1>7. /\ user' \in [cancelled : SUBSET Ids, started : SUBSET (Ids \X Ids)]
      /\ user'.cancelled = user.cancelled
      /\ user'.started = {<<j, mem.jobs[j].order>> : j \in QueuedJobs}
  BY <1>1, <1>3, UserTyped
<1> HIDE DEF S
<1>8. /\ through' \in [Windows -> 0..MaxSequence]
      /\ \A v \in Windows \ {w} : through'[v] = through[v]
      /\ through'[w] < mem'.next
  BY <1>1, <1>2, <1>6 DEF QueueInv, TypeInv, WindowTyped
<1>9. \A j \in QueuedJobs' : mem'.jobs[j].order <= through'[w] =>
        <<j, mem'.jobs[j].order>> \in user'.started
  BY <1>2, <1>7 DEF QueuedJobs
<1>10. /\ Sound(disk', journal, output, user'.cancelled)
       /\ Sound(synced', journal, output, user'.cancelled)
       /\ Sound(mem', journal, output, user'.cancelled)
       /\ poisoned' \in BOOLEAN /\ troubles' \in 0..MaxTroubles
       /\ ~poisoned' => disk' = mem'
  BY <1>1, <1>2, <1>7, InLoop
<1> QED BY <1>1, <1>2, <1>7, <1>8, <1>9, <1>10, CommandStep

LEMMA PruneStep ==
  ASSUME QueueInv, NEW w \in Windows, DoPrune(w)
  PROVE  QueueInv'
<1>1. Taken(w, "prune") /\ worker[w] = "loop" /\ user' = user
  BY DEF DoPrune, Taken
<1>2. /\ user' \in [cancelled : SUBSET Ids, started : SUBSET (Ids \X Ids)]
      /\ user'.started = user.started /\ user.cancelled \subseteq user'.cancelled
  BY <1>1, UserTyped
<1>3. ASSUME NEW result \in Results, Prune(result), Done(w, result = "ok")
      PROVE  QueueInv'
  <2>0. (result = "ok") \in BOOLEAN
    OBVIOUS
  <2>1. CASE Kept = DOMAIN mem.jobs
    <3>1. UNCHANGED queueVars
      BY <1>3, <2>1 DEF Prune, Unrun, queueVars, evidenceVars
    <3> QED BY <1>1, <1>2, <1>3, <2>0, <3>1, CommandRefused
  <2>2. CASE Kept # DOMAIN mem.jobs
    <3> DEFINE next == [next |-> mem.next, jobs |-> [j \in Kept |-> mem.jobs[j]]]
    <3>1. /\ Sound(mem, journal, output, user.cancelled) /\ mem.next \in 1..(MaxSequence + 1)
          /\ mem = [next |-> mem.next, jobs |-> mem.jobs]
      BY <1>1, InLoop DEF Sound, Snapshot
    <3>2. Commit(next, result) /\ Unrun
      BY <1>3, <2>2, <3>1 DEF Prune
    <3>3. Kept \in SUBSET (DOMAIN mem.jobs)
      BY DEF Kept
    <3>4. Sound(next, journal, output, user'.cancelled)
      BY <1>1, <3>1, <3>3, PrunedSound
    <3>5. mem.next <= next.next
      BY <3>1, Numbers
    <3>6. \A j \in DOMAIN next.jobs : next.jobs[j].state = "queued" =>
            \/ j \in QueuedJobs /\ next.jobs[j].order = mem.jobs[j].order
            \/ next.jobs[j].order >= mem.next
      BY <3>3 DEF QueuedJobs
    <3> HIDE DEF next
    <3> QED BY <1>1, <1>2, <1>3, <2>0, <3>2, <3>4, <3>5, <3>6, CommandCommits
  <2> QED BY <2>1, <2>2
<1>4. ASSUME Refused(w) PROVE QueueInv'
  <2>1. Done(w, FALSE) /\ UNCHANGED queueVars
    BY <1>4 DEF Refused
  <2> QED BY <1>1, <1>2, <2>1, CommandRefused
<1> QED BY <1>3, <1>4 DEF DoPrune

LEMMA RecoverStep ==
  ASSUME QueueInv, NEW w \in Windows, DoRecover(w)
  PROVE  QueueInv'
<1>1. Taken(w, "recover") /\ UNCHANGED queueVars /\ through' = through /\ user' = user
  BY DEF DoRecover
<1>2. Done(w, TRUE)
  BY <1>1 DEF Done, QueueInv, TypeInv, WindowTyped
<1>3. /\ user' \in [cancelled : SUBSET Ids, started : SUBSET (Ids \X Ids)]
      /\ user'.started = user.started /\ user.cancelled \subseteq user'.cancelled
  BY <1>1, UserTyped
<1> QED BY <1>1, <1>2, <1>3, CommandRefused

----------------------------------------------------------------------------
(* A worker comes and goes *)

\* Nothing runs while no window owns the queue.
LEMMA NoOwner ==
  ASSUME QueueInv, owner = None
  PROVE  run.at = "idle" /\ \A w \in Windows : worker[w] \notin Owning
BY QueueAssumption DEF QueueInv, WorkerInv, QueueAssumption

\* Steps of the windows that leave the queue alone.
LEMMA LeavesFacts ==
  ASSUME QueueInv, NEW w \in Windows, Leaves(w), cmds' \in [Windows -> Seq(Commands(Ids))],
         sent' = sent, user' \in [cancelled : SUBSET Ids, started : SUBSET (Ids \X Ids)],
         \A v \in Windows \ {w} : cmds'[v] = cmds[v], cmds'[w] = <<>>
  PROVE  /\ WindowTyped'
         /\ alive'[w] = FALSE /\ active'[w] = None /\ worker'[w] = "none" /\ through'[w] = 0
         /\ \A v \in Windows \ {w} :
              /\ alive'[v] = alive[v] /\ active'[v] = active[v]
              /\ worker'[v] = worker[v] /\ through'[v] = through[v]
         /\ \A v \in Windows :
              /\ alive'[v] <=> worker'[v] # "none"
              /\ active'[v] # None => worker'[v] \in {"selected", "running"}
              /\ cmds'[v] # <<>> => alive'[v]
              /\ worker'[v] \notin Owning => through'[v] = 0
<1>1. WindowTyped
  BY DEF QueueInv, TypeInv
<1>2. /\ alive'[w] = FALSE /\ active'[w] = None /\ worker'[w] = "none" /\ through'[w] = 0
      /\ \A v \in Windows \ {w} :
           /\ alive'[v] = alive[v] /\ active'[v] = active[v]
           /\ worker'[v] = worker[v] /\ through'[v] = through[v]
  BY <1>1 DEF Leaves, WindowTyped
<1>3. WindowTyped'
  <2>1. alive' \in [Windows -> BOOLEAN] /\ active' \in [Windows -> Ids \cup {None}]
    BY <1>1 DEF WindowTyped, Leaves
  <2>2. worker' \in [Windows -> WorkerSteps] /\ through' \in [Windows -> 0..MaxSequence]
    BY <1>1, Numbers DEF WindowTyped, Leaves, WorkerSteps
  <2> QED BY <1>1, <2>1, <2>2 DEF WindowTyped
<1>4. \A v \in Windows \ {w} :
        /\ alive'[v] <=> worker'[v] # "none"
        /\ active'[v] # None => worker'[v] \in {"selected", "running"}
        /\ cmds'[v] # <<>> => alive'[v]
        /\ worker'[v] \notin Owning => through'[v] = 0
  BY <1>2 DEF QueueInv, WorkerInv
<1> QED BY <1>2, <1>3, <1>4

LEMMA LeaveStep ==
  ASSUME QueueInv, NEW w \in Windows, WorkerLeaves(w)
  PROVE  QueueInv'
<1>1. /\ worker[w] = "loop" /\ Leaves(w) /\ cmds' = cmds /\ cmds[w] = <<>> /\ sent' = sent
      /\ owner' = None /\ user' = [user EXCEPT !.started = {}]
      /\ disk' = disk /\ synced' = synced /\ mem' = mem /\ poisoned' = poisoned
      /\ run' = run /\ cancel' = cancel /\ troubles' = troubles
      /\ journal' = journal /\ staging' = staging /\ output' = output /\ source' = source
  BY DEF WorkerLeaves, Drop, storeVars, evidenceVars
<1>2. owner = w /\ owner # None /\ run.at = "idle"
  BY <1>1, InLoop
<1>3. /\ user' \in [cancelled : SUBSET Ids, started : SUBSET (Ids \X Ids)]
      /\ user'.cancelled = user.cancelled
  BY <1>1, UserTyped
<1>4. cmds' \in [Windows -> Seq(Commands(Ids))]
  BY <1>1 DEF QueueInv, TypeInv, WindowTyped
<1>5. /\ WindowTyped'
      /\ worker'[w] = "none" /\ \A v \in Windows \ {w} : worker'[v] = worker[v]
      /\ \A v \in Windows :
           /\ alive'[v] <=> worker'[v] # "none"
           /\ active'[v] # None => worker'[v] \in {"selected", "running"}
           /\ cmds'[v] # <<>> => alive'[v]
           /\ worker'[v] \notin Owning => through'[v] = 0
  BY <1>1, <1>3, <1>4, LeavesFacts
<1>6. QueueTyped'
  BY <1>1 DEF QueueInv, TypeInv, QueueTyped, Snapshot
<1>7. SoundQueue'
  BY <1>1, <1>3 DEF QueueInv, SoundQueue
<1>8. WorkerInv'
  <2>1. \A v \in Windows : worker'[v] \notin Owning
    BY <1>2, <1>5 DEF QueueInv, WorkerInv, Owning
  <2>2. \A v \in Windows : owner' # v
    BY <1>1, QueueAssumption DEF QueueAssumption
  <2> QED BY <1>1, <1>2, <1>5, <2>1, <2>2 DEF WorkerInv
<1>9. OwnerInv'
  BY <1>1 DEF OwnerInv
<1>10. RunInv'
  BY <1>1, <1>2 DEF RunInv, Active
<1> QED BY <1>5, <1>6, <1>7, <1>8, <1>9, <1>10 DEF QueueInv, TypeInv

\* Opening gives its owner a sound queue, the same as the file, or leaves a sound
\* file.
LEMMA OpenFacts ==
  ASSUME QueueInv, NEW w \in Windows, NEW result \in Results, Open(w, result)
  PROVE  /\ owner = None /\ owner' = (IF result = "ok" THEN w ELSE None)
         /\ Sound(disk', journal, output, user.cancelled)
         /\ Sound(synced', journal, output, user.cancelled)
         /\ Snapshot(mem')
         /\ poisoned' = FALSE /\ troubles' \in 0..MaxTroubles
         /\ result = "ok" => mem' = disk'
         /\ run' = run /\ cancel' = cancel /\ journal' = journal /\ staging' = staging
         /\ output' = output /\ source' = source
<1>1. /\ Sound(disk, journal, output, user.cancelled)
      /\ Sound(synced, journal, output, user.cancelled)
      /\ Snapshot(mem) /\ troubles \in 0..MaxTroubles
  BY DEF QueueInv, SoundQueue, TypeInv, QueueTyped
<1>2. /\ owner = None /\ owner' = (IF result = "ok" THEN w ELSE None)
      /\ run' = run /\ cancel' = cancel /\ journal' = journal /\ staging' = staging
      /\ output' = output /\ source' = source
  BY DEF Open, evidenceVars
<1>3. CASE Abandoned(disk) = {}
  <2>1. /\ result = "ok" /\ mem' = disk /\ poisoned' = FALSE /\ disk' = disk
        /\ synced' = synced /\ troubles' = troubles
    BY <1>3 DEF Open
  <2> QED BY <1>1, <1>2, <2>1 DEF Sound
<1>4. CASE Abandoned(disk) # {}
  <2>1. Sound(Recovered(disk), journal, output, user.cancelled)
    BY <1>1, RecoveredSound
  <2>2. /\ disk' = (IF result \in {"ok", "unsynced"} THEN Recovered(disk) ELSE disk)
        /\ synced' = (IF result = "ok" THEN Recovered(disk) ELSE synced)
        /\ mem' = (IF result = "ok" THEN Recovered(disk) ELSE mem)
        /\ poisoned' = FALSE
        /\ troubles' = (IF result = "ok" THEN troubles ELSE troubles + 1)
        /\ troubles' <= MaxTroubles
    BY <1>4 DEF Open
  <2>3. troubles' \in 0..MaxTroubles
    BY <1>1, <2>2, Numbers
  <2> QED BY <1>1, <1>2, <2>1, <2>2, <2>3 DEF Sound
<1> QED BY <1>3, <1>4

LEMMA OpensStep ==
  ASSUME QueueInv, NEW w \in Windows, WorkerOpens(w)
  PROVE  QueueInv'
<1>1. worker[w] = "opening" /\ sent' = sent /\ user' = user /\ w \in Windows
  BY DEF WorkerOpens
<1>2. /\ user' \in [cancelled : SUBSET Ids, started : SUBSET (Ids \X Ids)]
      /\ cmds \in [Windows -> Seq(Commands(Ids))] /\ owner \in Windows \cup {None}
  BY <1>1, UserTyped DEF QueueInv, TypeInv, WindowTyped, QueueTyped
<1>3. worker[w] \notin Owning /\ owner # w /\ w # None
  BY <1>1, QueueAssumption DEF QueueInv, WorkerInv, Owning, QueueAssumption
<1>4. ASSUME cmds' = [cmds EXCEPT ![w] = <<>>], Leaves(w)
      PROVE  /\ WindowTyped'
             /\ worker'[w] = "none"
             /\ \A v \in Windows \ {w} :
                  worker'[v] = worker[v] /\ active'[v] = active[v] /\ through'[v] = through[v]
             /\ \A v \in Windows :
                  /\ alive'[v] <=> worker'[v] # "none"
                  /\ active'[v] # None => worker'[v] \in {"selected", "running"}
                  /\ cmds'[v] # <<>> => alive'[v]
                  /\ worker'[v] \notin Owning => through'[v] = 0
  <2>1. cmds' \in [Windows -> Seq(Commands(Ids))]
    <3>1. <<>> \in Seq(Commands(Ids))
      OBVIOUS
    <3> QED BY <1>2, <1>4, <3>1
  <2>2. cmds'[w] = <<>> /\ \A v \in Windows \ {w} : cmds'[v] = cmds[v]
    BY <1>2, <1>4
  <2> QED BY <1>1, <1>2, <1>4, <2>1, <2>2, LeavesFacts
<1>5. ASSUME owner # None, cmds' = [cmds EXCEPT ![w] = <<>>], Leaves(w), UNCHANGED queueVars
      PROVE  QueueInv'
  <2>1. /\ disk' = disk /\ synced' = synced /\ mem' = mem /\ poisoned' = poisoned
        /\ owner' = owner /\ run' = run /\ cancel' = cancel /\ troubles' = troubles
        /\ journal' = journal /\ staging' = staging /\ output' = output /\ source' = source
    BY <1>5 DEF queueVars, storeVars, evidenceVars
  <2>2. QueueTyped' /\ SoundQueue'
    BY <1>1, <2>1 DEF QueueInv, TypeInv, QueueTyped, SoundQueue, Snapshot
  <2>3. owner \in Windows \ {w} /\ worker'[owner] = worker[owner]
        /\ active'[owner] = active[owner] /\ through'[owner] = through[owner]
    BY <1>2, <1>3, <1>4, <1>5
  <2>4. WorkerInv'
    <3>1. \A v \in Windows : worker'[v] \in Owning <=> owner' = v
      BY <1>3, <1>4, <1>5, <2>1 DEF QueueInv, WorkerInv, Owning
    <3>2. run'.at # "idle" <=> owner' # None /\ worker'[owner'] = "running"
      BY <2>1, <2>3 DEF QueueInv, WorkerInv
    <3> QED BY <1>4, <1>5, <3>1, <3>2 DEF WorkerInv
  <2>5. OwnerInv'
    BY <1>1, <2>1, <2>3 DEF QueueInv, OwnerInv, HasHead, FirstQueued, QueuedJobs
  <2>6. RunInv'
    BY <1>1, <2>1, <2>3 DEF QueueInv, RunInv, Current
  <2> QED BY <1>4, <1>5, <2>2, <2>4, <2>5, <2>6 DEF QueueInv, TypeInv
<1>6. ASSUME NEW result \in Results, Open(w, result)
      PROVE  /\ QueueTyped' /\ SoundQueue' /\ RunInv' /\ run'.at = "idle" /\ owner = None
  <2>1. /\ owner = None /\ owner' = (IF result = "ok" THEN w ELSE None)
        /\ Sound(disk', journal, output, user.cancelled)
        /\ Sound(synced', journal, output, user.cancelled)
        /\ Snapshot(mem')
        /\ poisoned' = FALSE /\ troubles' \in 0..MaxTroubles
        /\ result = "ok" => mem' = disk'
        /\ run' = run /\ cancel' = cancel /\ journal' = journal /\ staging' = staging
        /\ output' = output /\ source' = source
    BY <1>6, OpenFacts
  <2>2. run.at = "idle"
    BY <2>1, NoOwner
  <2>3. QueueTyped'
    BY <2>1 DEF QueueInv, TypeInv, QueueTyped, Sound
  <2>4. SoundQueue'
    BY <1>1, <2>1 DEF SoundQueue
  <2> QED BY <2>1, <2>2, <2>3, <2>4 DEF RunInv, Active
<1>7. ASSUME Open(w, "ok"), worker' = [worker EXCEPT ![w] = "loop"],
             UNCHANGED <<cmds, alive, active, through>>
      PROVE  QueueInv'
  <2>1. "ok" \in Results
    BY DEF Results
  <2>2. /\ QueueTyped' /\ SoundQueue' /\ RunInv' /\ run'.at = "idle" /\ owner = None
        /\ owner' = w /\ mem' = disk' /\ Snapshot(mem')
    BY <1>6, <1>7, <2>1, OpenFacts
  <2>3. WindowTyped'
    BY <1>1, <1>7 DEF QueueInv, TypeInv, WindowTyped, WorkerSteps
  <2>4. /\ worker'[w] = "loop" /\ \A v \in Windows \ {w} : worker'[v] = worker[v]
        /\ through'[w] = 0
    BY <1>1, <1>3, <1>7 DEF QueueInv, TypeInv, WindowTyped, WorkerInv
  <2>5. WorkerInv'
    <3>1. \A v \in Windows \ {w} : worker[v] \notin Owning
      BY <2>2, NoOwner
    <3>2. \A v \in Windows : worker'[v] \in Owning <=> owner' = v
      BY <2>2, <2>4, <3>1 DEF Owning
    <3>3. \A v \in Windows :
            /\ alive'[v] <=> worker'[v] # "none"
            /\ active'[v] # None => worker'[v] \in {"selected", "running"}
            /\ cmds'[v] # <<>> => alive'[v]
            /\ worker'[v] \notin Owning => through'[v] = 0
      BY <1>1, <1>7, <2>4 DEF QueueInv, WorkerInv, Owning
    <3>4. ~(owner' # None /\ worker'[owner'] = "running")
      BY <2>2, <2>4
    <3> QED BY <2>2, <3>2, <3>3, <3>4 DEF WorkerInv
  <2>6. OwnerInv'
    <3>1. mem'.next \in 1..(MaxSequence + 1)
      BY <2>2, SnapshotJobs
    <3>2. \A j \in QueuedJobs' : mem'.jobs[j].order \in Nat \ {0}
      <4>1. \A j \in DOMAIN mem'.jobs : mem'.jobs[j].order \in Ids
        BY <2>2, SnapshotJobs, JobTyped
      <4> QED BY <4>1, Numbers DEF QueuedJobs
    <3>3. through'[owner'] < mem'.next
      BY <2>2, <2>4, <3>1, Numbers
    <3>4. \A j \in QueuedJobs' : ~(mem'.jobs[j].order <= through'[owner'])
      BY <2>2, <2>4, <3>2
    <3> QED BY <2>2, <2>4, <3>3, <3>4 DEF OwnerInv
  <2> QED BY <2>2, <2>3, <2>5, <2>6 DEF QueueInv, TypeInv
<1>8. ASSUME NEW result \in Results \ {"ok"}, Open(w, result),
             cmds' = [cmds EXCEPT ![w] = <<>>], Leaves(w)
      PROVE  QueueInv'
  <2>1. /\ QueueTyped' /\ SoundQueue' /\ RunInv' /\ run'.at = "idle" /\ owner = None
        /\ owner' = None
    BY <1>6, <1>8, OpenFacts
  <2>2. WorkerInv'
    <3>1. \A v \in Windows : worker'[v] \notin Owning /\ owner' # v
      BY <1>4, <1>8, <2>1, NoOwner, QueueAssumption DEF Owning, QueueAssumption
    <3> QED BY <1>4, <1>8, <2>1, <3>1 DEF WorkerInv
  <2>3. OwnerInv'
    BY <2>1 DEF OwnerInv
  <2> QED BY <1>4, <1>8, <2>1, <2>2, <2>3 DEF QueueInv, TypeInv
<1> QED BY <1>5, <1>7, <1>8 DEF WorkerOpens

----------------------------------------------------------------------------
(* The windows' own steps *)

LEMMA SendStep ==
  ASSUME QueueInv, NEW w \in Windows, Send(w)
  PROVE  QueueInv'
<1>1. PICK c \in Commands(DOMAIN disk.jobs) : cmds' = [cmds EXCEPT ![w] = Append(cmds[w], c)]
  BY DEF Send
<1>2. /\ sent < MaxCommands /\ sent' = sent + 1 /\ alive' = [alive EXCEPT ![w] = TRUE]
      /\ worker' = [worker EXCEPT ![w] = IF alive[w] THEN worker[w] ELSE "opening"]
      /\ active' = active /\ through' = through /\ user' = user
      /\ disk' = disk /\ synced' = synced /\ mem' = mem /\ poisoned' = poisoned
      /\ owner' = owner /\ run' = run /\ cancel' = cancel /\ troubles' = troubles
      /\ journal' = journal /\ staging' = staging /\ output' = output /\ source' = source
  BY DEF Send, queueVars, storeVars, evidenceVars
<1>3. WindowTyped /\ owner \in Windows \cup {None}
  BY DEF QueueInv, TypeInv, QueueTyped
<1>4. c \in Commands(Ids)
  <2>1. DOMAIN disk.jobs \subseteq Ids
    BY DEF QueueInv, TypeInv, QueueTyped, Snapshot
  <2> QED BY <1>1, <2>1 DEF Commands
<1>5. WindowTyped'
  <2>1. Append(cmds[w], c) \in Seq(Commands(Ids))
    BY <1>3, <1>4 DEF WindowTyped
  <2>2. cmds' \in [Windows -> Seq(Commands(Ids))]
    BY <1>1, <1>3, <2>1 DEF WindowTyped
  <2>3. sent' \in 0..MaxCommands
    BY <1>2, <1>3, ControllerAssumption DEF WindowTyped, ControllerAssumption
  <2>4. worker' \in [Windows -> WorkerSteps] /\ alive' \in [Windows -> BOOLEAN]
    BY <1>2, <1>3 DEF WindowTyped, WorkerSteps
  <2> QED BY <1>2, <1>3, <2>2, <2>3, <2>4 DEF WindowTyped
<1>6. QueueTyped' /\ SoundQueue'
  BY <1>2 DEF QueueInv, TypeInv, QueueTyped, SoundQueue, Snapshot
<1>7. /\ \A v \in Windows \ {w} :
           alive'[v] = alive[v] /\ worker'[v] = worker[v] /\ cmds'[v] = cmds[v]
      /\ alive'[w] = TRUE
      /\ alive[w] => worker'[w] = worker[w]
      /\ ~alive[w] => worker[w] = "none" /\ worker'[w] = "opening"
  BY <1>1, <1>2, <1>3 DEF WindowTyped, QueueInv, WorkerInv
<1>8. \A v \in Windows : worker'[v] = worker[v] \/ (worker[v] = "none" /\ worker'[v] = "opening")
  BY <1>7
<1>9. owner # None => worker'[owner] = worker[owner]
  BY <1>3, <1>8 DEF QueueInv, WorkerInv, Owning
<1>10. WorkerInv'
  <2>1. ASSUME NEW v \in Windows
        PROVE  /\ alive'[v] <=> worker'[v] # "none"
               /\ worker'[v] \in Owning <=> owner' = v
               /\ active'[v] # None => worker'[v] \in {"selected", "running"}
               /\ cmds'[v] # <<>> => alive'[v]
               /\ worker'[v] \notin Owning => through'[v] = 0
    <3>1. CASE v = w
      <4>1. CASE alive[w]
        BY <1>2, <1>7, <3>1, <4>1 DEF QueueInv, WorkerInv
      <4>2. CASE ~alive[w]
        BY <1>2, <1>7, <3>1, <4>2 DEF QueueInv, WorkerInv, Owning
      <4> QED BY <4>1, <4>2
    <3>2. CASE v # w
      BY <1>2, <1>7, <3>2 DEF QueueInv, WorkerInv
    <3> QED BY <3>1, <3>2
  <2>2. run'.at # "idle" <=> owner' # None /\ worker'[owner'] = "running"
    BY <1>2, <1>9 DEF QueueInv, WorkerInv
  <2> QED BY <2>1, <2>2 DEF WorkerInv
<1>11. OwnerInv' /\ RunInv'
  BY <1>2, <1>9
     DEF QueueInv, OwnerInv, RunInv, HasHead, FirstQueued, QueuedJobs, Current
<1> QED BY <1>5, <1>6, <1>10, <1>11 DEF QueueInv, TypeInv

LEMMA CancelRunningStep ==
  ASSUME QueueInv, NEW w \in Windows, CancelRunning(w)
  PROVE  QueueInv'
<1>1. PICK j \in DOMAIN disk.jobs :
        /\ user' = [user EXCEPT !.cancelled = user.cancelled \cup {j}]
        /\ cancel' = [cancel EXCEPT ![w] = (alive[w] /\ active[w] = j) \/ cancel[w]]
  BY DEF CancelRunning
<1>2. /\ sent < MaxCommands /\ sent' = sent + 1
      /\ cmds' = cmds /\ alive' = alive /\ active' = active /\ worker' = worker
      /\ through' = through
      /\ disk' = disk /\ synced' = synced /\ mem' = mem /\ poisoned' = poisoned
      /\ owner' = owner /\ run' = run /\ troubles' = troubles
      /\ journal' = journal /\ staging' = staging /\ output' = output /\ source' = source
  BY DEF CancelRunning, storeVars, evidenceVars
<1>3. WindowTyped /\ owner \in Windows \cup {None} /\ DOMAIN disk.jobs \subseteq Ids
      /\ cancel \in [Windows -> BOOLEAN]
  BY DEF QueueInv, TypeInv, QueueTyped, Snapshot
<1>4. /\ user' \in [cancelled : SUBSET Ids, started : SUBSET (Ids \X Ids)]
      /\ user'.started = user.started /\ user'.cancelled = user.cancelled \cup {j}
  BY <1>1, <1>3, UserTyped
<1>5. WindowTyped'
  <2>1. sent' \in 0..MaxCommands
    BY <1>2, <1>3, ControllerAssumption DEF WindowTyped, ControllerAssumption
  <2> QED BY <1>2, <1>3, <1>4, <2>1 DEF WindowTyped
<1>6. QueueTyped'
  <2>1. cancel' \in [Windows -> BOOLEAN]
    <3>1. ((alive[w] /\ active[w] = j) \/ cancel[w]) \in BOOLEAN
      BY <1>3 DEF WindowTyped
    <3> QED BY <1>1, <1>3, <3>1
  <2> QED BY <1>2, <2>1 DEF QueueInv, TypeInv, QueueTyped, Snapshot
<1>7. SoundQueue'
  <2>1. \A s : Sound(s, journal, output, user.cancelled) =>
                 Sound(s, journal, output, user'.cancelled)
    <3>1. user.cancelled \subseteq user'.cancelled
      BY <1>4
    <3> QED BY <3>1, EvidenceSettles
  <2> QED BY <1>2, <2>1 DEF QueueInv, SoundQueue
<1>8. WorkerInv'
  BY <1>2 DEF QueueInv, WorkerInv
<1>9. \A v \in Windows : cancel'[v] => cancel[v] \/ active[v] = j
  BY <1>1, <1>3
<1>10. OwnerInv'
  <2> SUFFICES ASSUME owner # None PROVE OwnerInv'
    BY <1>2 DEF OwnerInv
  <2>1. owner \in Windows
    BY <1>3
  <2>2. /\ ~poisoned => disk = mem
        /\ through[owner] < mem.next
        /\ \A k \in QueuedJobs : mem.jobs[k].order <= through[owner] =>
             <<k, mem.jobs[k].order>> \in user.started
        /\ worker[owner] = "selected" =>
             /\ HasHead(owner) /\ active[owner] = FirstQueued
             /\ cancel[owner] => FirstQueued \in user.cancelled
    BY DEF QueueInv, OwnerInv
  <2>3. worker[owner] = "selected" => (cancel'[owner] => FirstQueued \in user'.cancelled)
    BY <1>4, <1>9, <2>1, <2>2
  <2>4. QueuedJobs' = QueuedJobs /\ FirstQueued' = FirstQueued /\ HasHead(owner)' = HasHead(owner)
    BY <1>2 DEF QueuedJobs, FirstQueued, HasHead
  <2> QED BY <1>2, <1>4, <2>2, <2>3, <2>4 DEF OwnerInv, HasHead
<1>11. RunInv'
  <2> SUFFICES ASSUME run.at \in Active PROVE RunInv'
    BY <1>2 DEF RunInv
  <2>1. owner # None /\ owner \in Windows
    BY <1>3 DEF QueueInv, WorkerInv, Active
  <2>2. cancel'[owner] => run.job \in user'.cancelled
    BY <1>4, <1>9, <2>1 DEF QueueInv, RunInv
  <2>3. Current' = Current
    BY <1>2 DEF Current
  <2> QED BY <1>2, <1>4, <2>2, <2>3 DEF QueueInv, RunInv
<1> QED BY <1>5, <1>6, <1>7, <1>8, <1>10, <1>11 DEF QueueInv, TypeInv

----------------------------------------------------------------------------
(* Outside the queue *)

\* Steps that only settle the evidence, not that of a publication in progress.
LEMMA EvidenceStep ==
  ASSUME QueueInv, UNCHANGED <<storeVars, owner, run, cancel, windowVars>>,
         journal' \in [Attempts -> {"empty", "pending", "applied", "rolledback"}],
         staging' \subseteq Attempts,
         output' \in [Dests -> Attempts \cup {Absent, Foreign}],
         source' \in [Dests -> {"reviewed", "changed", "missing"}],
         troubles' \in 0..MaxTroubles,
         \A a \in Attempts : \/ journal'[a] = journal[a]
                             \/ journal[a] # "empty" /\ journal'[a] = "rolledback",
         \A d \in Dests : output'[d] = output[d] \/ output'[d] \in {Absent, Foreign},
         run.at \in {"announced", "published", "undoing"} => journal'[Current] = journal[Current]
  PROVE  QueueInv'
<1>1. /\ disk' = disk /\ synced' = synced /\ mem' = mem /\ poisoned' = poisoned
      /\ owner' = owner /\ run' = run /\ cancel' = cancel
      /\ cmds' = cmds /\ alive' = alive /\ active' = active /\ worker' = worker
      /\ through' = through /\ sent' = sent /\ user' = user
  BY DEF storeVars, windowVars
<1>2. QueueTyped' /\ WindowTyped'
  BY <1>1 DEF QueueInv, TypeInv, QueueTyped, WindowTyped, Snapshot
<1>3. SoundQueue'
  <2>1. \A s : Sound(s, journal, output, user.cancelled) =>
                 Sound(s, journal', output', user.cancelled)
    BY EvidenceSettles
  <2> QED BY <1>1, <2>1 DEF QueueInv, SoundQueue
<1>4. WorkerInv' /\ OwnerInv'
  BY <1>1 DEF QueueInv, WorkerInv, OwnerInv, HasHead, FirstQueued, QueuedJobs
<1>5. RunInv'
  <2> SUFFICES ASSUME run.at \in Active PROVE RunInv'
    BY <1>1 DEF RunInv
  <2>1. RunInv /\ Current' = Current
    BY <1>1 DEF QueueInv, Current
  <2>2. Current \in Attempts
    <3>1. Snapshot(mem) /\ Valid(mem) /\ run.job \in DOMAIN mem.jobs
          /\ mem.jobs[run.job].state = "running"
      BY <2>1 DEF QueueInv, SoundQueue, Sound, RunInv, WorkerInv, Active
    <3>2. mem.jobs[run.job] \in Jobs /\ JobValid(mem.jobs[run.job]) /\ run.job \in Ids
      BY <3>1, SnapshotJobs, ValidParts
    <3>3. Len(mem.jobs[run.job].attempts) \in 1..MaxAttempts
      BY <3>1, <3>2, RunningAttempt, JobTyped, Numbers
    <3> QED BY <3>2, <3>3 DEF Current, Attempts
  <2>3. \/ journal'[Current] = journal[Current]
        \/ journal[Current] # "empty" /\ journal'[Current] = "rolledback"
    BY <2>2
  <2>4. /\ run.at = "converting" => journal'[Current] = "empty"
        /\ run.at \in {"announced", "published", "undoing"} => journal'[Current] = "pending"
    BY <2>1, <2>3 DEF RunInv
  <2>5. run.at = "settling" =>
          /\ run.outcome \in {"completed", "cancelled", "stale", "failed", "transaction"}
          /\ run.outcome = "completed" => journal'[Current] \in {"applied", "rolledback"}
          /\ run.outcome = "cancelled" =>
               run.job \in user.cancelled /\ journal'[Current] \in {"empty", "rolledback"}
    BY <2>1, <2>3 DEF RunInv
  <2> QED BY <1>1, <2>1, <2>4, <2>5 DEF RunInv
<1> QED BY <1>2, <1>3, <1>4, <1>5 DEF QueueInv, TypeInv

LEMMA RepairUndoStep ==
  ASSUME QueueInv, NEW a \in Attempts, RepairUndo(a), UNCHANGED windowVars
  PROVE  QueueInv'
<1>1. /\ journal[a] \in {"pending", "applied"}
      /\ ~(run.at \in {"announced", "published", "undoing"} /\ a = Current)
      /\ UNCHANGED <<storeVars, owner, run, cancel, windowVars>>
      /\ staging' = staging /\ source' = source /\ troubles' = troubles
  BY DEF RepairUndo
<1>2. PICK d \in Dests : Undone(a, d)
  BY DEF RepairUndo
<1>3. QueueTyped
  BY DEF QueueInv, TypeInv
<1>4. /\ journal' = [journal EXCEPT ![a] = "rolledback"]
      /\ output' = output \/ output' = [output EXCEPT ![d] = Absent]
  BY <1>2 DEF Undone
<1>5. /\ journal' \in [Attempts -> {"empty", "pending", "applied", "rolledback"}]
      /\ output' \in [Dests -> Attempts \cup {Absent, Foreign}]
      /\ \A b \in Attempts : b # a => journal'[b] = journal[b]
      /\ journal'[a] = "rolledback"
      /\ \A e \in Dests : output'[e] = output[e] \/ output'[e] \in {Absent, Foreign}
  BY <1>3, <1>4 DEF QueueTyped
<1>6. run.at \in {"announced", "published", "undoing"} => journal'[Current] = journal[Current]
  BY <1>1, <1>3, <1>4 DEF QueueTyped
<1>7. /\ staging' \subseteq Attempts /\ source' \in [Dests -> {"reviewed", "changed", "missing"}]
      /\ troubles' \in 0..MaxTroubles
  BY <1>1, <1>3 DEF QueueTyped
<1>8. \A b \in Attempts : \/ journal'[b] = journal[b]
                          \/ journal[b] # "empty" /\ journal'[b] = "rolledback"
  BY <1>1, <1>5
<1> QED BY <1>1, <1>5, <1>6, <1>7, <1>8, EvidenceStep

LEMMA ExternalStep ==
  ASSUME QueueInv, External, UNCHANGED windowVars
  PROVE  QueueInv'
<1>1. /\ UNCHANGED <<storeVars, owner, run, cancel, windowVars>> /\ journal' = journal
      /\ troubles < MaxTroubles /\ troubles' = troubles + 1
  BY DEF External
<1>2. QueueTyped
  BY DEF QueueInv, TypeInv
<1>3. troubles' \in 0..MaxTroubles
  BY <1>1, <1>2, Numbers DEF QueueTyped
<1>4. \/ /\ \E d \in Dests, x \in {Absent, Foreign} : output' = [output EXCEPT ![d] = x]
         /\ source' = source /\ staging' = staging
      \/ /\ \E d \in Dests, x \in {"reviewed", "changed", "missing"} :
              source' = [source EXCEPT ![d] = x]
         /\ output' = output /\ staging' = staging
      \/ /\ staging' \subseteq staging /\ output' = output /\ source' = source
  BY DEF External
<1>5. /\ output' \in [Dests -> Attempts \cup {Absent, Foreign}]
      /\ source' \in [Dests -> {"reviewed", "changed", "missing"}]
      /\ staging' \subseteq Attempts
      /\ \A d \in Dests : output'[d] = output[d] \/ output'[d] \in {Absent, Foreign}
  BY <1>2, <1>4 DEF QueueTyped
<1>6. journal' \in [Attempts -> {"empty", "pending", "applied", "rolledback"}]
  BY <1>1, <1>2 DEF QueueTyped
<1> QED BY <1>1, <1>3, <1>5, <1>6, EvidenceStep

----------------------------------------------------------------------------
(* A job runs *)

\* A worker that owns the queue works on a sound one.
LEMMA Owner ==
  ASSUME QueueInv, NEW w \in Windows, worker[w] \in Owning
  PROVE  /\ owner = w /\ owner # None
         /\ \A v \in Windows \ {w} : worker[v] \notin Owning
         /\ Sound(disk, journal, output, user.cancelled)
         /\ Sound(synced, journal, output, user.cancelled)
         /\ Sound(mem, journal, output, user.cancelled)
         /\ poisoned \in BOOLEAN /\ troubles \in 0..MaxTroubles
         /\ ~poisoned => disk = mem
         /\ through[w] < mem.next /\ through[w] \in 0..MaxSequence
         /\ mem.next \in 1..(MaxSequence + 1)
         /\ \A j \in QueuedJobs : mem.jobs[j].order <= through[w] =>
              <<j, mem.jobs[j].order>> \in user.started
<1>1. owner = w /\ owner # None /\ \A v \in Windows \ {w} : worker[v] \notin Owning
  BY QueueAssumption DEF QueueAssumption, QueueInv, WorkerInv
<1> QED BY <1>1, SnapshotJobs
        DEF QueueInv, TypeInv, QueueTyped, WindowTyped, SoundQueue, Sound, OwnerInv

\* The queued jobs of a queue that was committed lie where they lay, or behind.
LEMMA QueuedStays ==
  ASSUME QueueInv, NEW w \in Windows, worker[w] \in Owning,
         Sound(mem', journal, output, user.cancelled),
         mem.next <= mem'.next,
         \A j \in QueuedJobs' :
           \/ j \in QueuedJobs /\ mem'.jobs[j].order = mem.jobs[j].order
           \/ mem'.jobs[j].order >= mem.next
  PROVE  /\ through[w] < mem'.next
         /\ \A j \in QueuedJobs' : mem'.jobs[j].order <= through[w] =>
              <<j, mem'.jobs[j].order>> \in user.started
<1>1. /\ through[w] < mem.next /\ through[w] \in 0..MaxSequence
      /\ mem.next \in 1..(MaxSequence + 1) /\ mem'.next \in 1..(MaxSequence + 1)
      /\ \A j \in QueuedJobs : mem.jobs[j].order <= through[w] =>
           <<j, mem.jobs[j].order>> \in user.started
  BY Owner, SnapshotJobs DEF Sound
<1>2. through[w] < mem'.next
  BY <1>1, Numbers
<1>3. \A j \in QueuedJobs' : mem'.jobs[j].order \in Nat
  <2>1. \A j \in DOMAIN mem'.jobs : mem'.jobs[j].order \in Ids
    BY SnapshotJobs, JobTyped DEF Sound
  <2> QED BY <2>1, Numbers DEF QueuedJobs
<1>4. ASSUME NEW j \in QueuedJobs', mem'.jobs[j].order <= through[w]
      PROVE  <<j, mem'.jobs[j].order>> \in user.started
  <2>1. mem'.jobs[j].order < mem.next
    BY <1>1, <1>3, <1>4, Numbers
  <2>2. j \in QueuedJobs /\ mem'.jobs[j].order = mem.jobs[j].order
    BY <1>1, <1>3, <2>1, Numbers
  <2> QED BY <1>1, <1>4, <2>2
<1> QED BY <1>2, <1>4

\* Steps of the owner that take its worker from one place to another.
LEMMA OwnerMoves ==
  ASSUME QueueInv, NEW w \in Windows, worker[w] \in Owning,
         NEW to \in Owning, worker' = [worker EXCEPT ![w] = to],
         owner' = owner, cmds' = cmds, alive' = alive, sent' = sent, user' = user,
         active' \in [Windows -> Ids \cup {None}],
         \A v \in Windows \ {w} : active'[v] = active[v],
         active'[w] # None => to \in {"selected", "running"},
         through' \in [Windows -> 0..MaxSequence],
         \A v \in Windows \ {w} : through'[v] = through[v],
         run'.at # "idle" <=> to = "running"
  PROVE  WindowTyped' /\ WorkerInv' /\ worker'[w] = to
<1>1. WindowTyped /\ WorkerInv
  BY DEF QueueInv, TypeInv
<1>2. worker'[w] = to /\ \A v \in Windows \ {w} : worker'[v] = worker[v]
  BY <1>1 DEF WindowTyped
<1>3. WindowTyped'
  BY <1>1 DEF WindowTyped, WorkerSteps, Owning
<1>4. owner = w /\ owner # None /\ alive[w]
  BY <1>1, Owner DEF WorkerInv, Owning
<1>5. ASSUME NEW v \in Windows
      PROVE  /\ alive'[v] <=> worker'[v] # "none"
             /\ worker'[v] \in Owning <=> owner' = v
             /\ active'[v] # None => worker'[v] \in {"selected", "running"}
             /\ cmds'[v] # <<>> => alive'[v]
             /\ worker'[v] \notin Owning => through'[v] = 0
  <2>1. CASE v = w
    BY <1>2, <1>4, <2>1 DEF Owning
  <2>2. CASE v # w
    BY <1>1, <1>2, <2>2 DEF WorkerInv
  <2> QED BY <2>1, <2>2
<1>6. run'.at # "idle" <=> owner' # None /\ worker'[owner'] = "running"
  BY <1>2, <1>4
<1> QED BY <1>2, <1>3, <1>5, <1>6 DEF WorkerInv

LEMMA SelectStep ==
  ASSUME QueueInv, NEW w \in Windows, Select(w)
  PROVE  QueueInv'
<1>1. /\ worker[w] = "loop" /\ HasHead(w)
      /\ active' = [active EXCEPT ![w] = FirstQueued]
      /\ cancel' = [cancel EXCEPT ![w] = FALSE]
      /\ worker' = [worker EXCEPT ![w] = "selected"]
      /\ disk' = disk /\ synced' = synced /\ mem' = mem /\ poisoned' = poisoned
      /\ owner' = owner /\ run' = run /\ troubles' = troubles
      /\ journal' = journal /\ staging' = staging /\ output' = output /\ source' = source
      /\ cmds' = cmds /\ alive' = alive /\ through' = through /\ sent' = sent /\ user' = user
  BY DEF Select, storeVars, evidenceVars
<1>2. owner = w /\ owner # None /\ run.at = "idle" /\ Snapshot(mem)
  BY <1>1, InLoop DEF Sound
<1>3. FirstQueued \in QueuedJobs /\ FirstQueued \in Ids
  BY <1>1, <1>2, FirstIsQueued, SnapshotJobs DEF HasHead, QueuedJobs
<1>4. QueueTyped'
  BY <1>1 DEF QueueInv, TypeInv, QueueTyped, Snapshot
<1>5. WindowTyped' /\ WorkerInv' /\ worker'[w] = "selected"
  <2>1. WindowTyped
    BY DEF QueueInv, TypeInv
  <2>2. worker[w] \in Owning /\ "selected" \in Owning
    BY <1>1 DEF Owning
  <2>3. /\ active' \in [Windows -> Ids \cup {None}]
        /\ \A v \in Windows \ {w} : active'[v] = active[v]
    BY <1>1, <1>3, <2>1 DEF WindowTyped
  <2>4. through' \in [Windows -> 0..MaxSequence]
    BY <1>1, <2>1 DEF WindowTyped
  <2> QED BY <1>1, <1>2, <2>2, <2>3, <2>4, OwnerMoves
<1>6. SoundQueue'
  BY <1>1 DEF QueueInv, SoundQueue
<1>7. OwnerInv'
  <2>1. QueuedJobs' = QueuedJobs /\ FirstQueued' = FirstQueued
    BY <1>1 DEF QueuedJobs, FirstQueued
  <2>2. active'[w] = FirstQueued /\ cancel'[w] = FALSE
    BY <1>1 DEF QueueInv, TypeInv, QueueTyped, WindowTyped
  <2>3. QueuedJobs' # {} /\ mem'.jobs[FirstQueued'].order <= through'[owner']
    BY <1>1, <1>2, <2>1 DEF HasHead
  <2>4. /\ ~poisoned => disk = mem
        /\ through[w] < mem.next
        /\ \A j \in QueuedJobs : mem.jobs[j].order <= through[w] =>
             <<j, mem.jobs[j].order>> \in user.started
    BY <1>2 DEF QueueInv, OwnerInv
  <2> QED BY <1>1, <1>2, <2>1, <2>2, <2>3, <2>4 DEF OwnerInv, HasHead
<1>8. RunInv'
  BY <1>1, <1>2 DEF RunInv, Active
<1> QED BY <1>4, <1>5, <1>6, <1>7, <1>8 DEF QueueInv, TypeInv

\* run_next returns, with the queue as it is or with one it committed.
LEMMA RunReturns ==
  ASSUME QueueInv, NEW w \in Windows, worker[w] \in {"selected", "running"},
         worker' = [worker EXCEPT ![w] = "running"],
         UNCHANGED <<owner, evidenceVars, cmds, alive, active, through, sent, user>>,
         cancel' \in [Windows -> BOOLEAN],
         run' \in [at : {"returned"}, job : Ids \cup {0}, outcome : Outcomes],
         Sound(disk', journal, output, user.cancelled),
         Sound(synced', journal, output, user.cancelled),
         Sound(mem', journal, output, user.cancelled),
         poisoned' \in BOOLEAN, troubles' \in 0..MaxTroubles, ~poisoned' => disk' = mem',
         mem.next <= mem'.next,
         \A j \in QueuedJobs' :
           \/ j \in QueuedJobs /\ mem'.jobs[j].order = mem.jobs[j].order
           \/ mem'.jobs[j].order >= mem.next
  PROVE  QueueInv'
<1>1. worker[w] \in Owning /\ owner = w /\ owner # None
  <2>1. worker[w] \in Owning
    BY DEF Owning
  <2> QED BY <2>1, Owner
<1>2. /\ owner' = owner /\ journal' = journal /\ staging' = staging /\ output' = output
      /\ source' = source /\ cmds' = cmds /\ alive' = alive /\ active' = active
      /\ through' = through /\ sent' = sent /\ user' = user /\ run'.at = "returned"
  BY DEF evidenceVars
<1>3. QueueTyped'
  <2>1. run' \in [at : RunSteps, job : Ids \cup {0}, outcome : Outcomes]
    BY DEF RunSteps
  <2> QED BY <1>2, <2>1 DEF QueueInv, TypeInv, QueueTyped, Sound
<1>4. SoundQueue'
  BY <1>2 DEF SoundQueue
<1>5. WindowTyped' /\ WorkerInv' /\ worker'[w] = "running"
  <2>1. "running" \in Owning
    BY DEF Owning
  <2>2. active' \in [Windows -> Ids \cup {None}] /\ through' \in [Windows -> 0..MaxSequence]
    BY <1>2 DEF QueueInv, TypeInv, WindowTyped
  <2> QED BY <1>1, <1>2, <2>1, <2>2, OwnerMoves
<1>6. OwnerInv'
  <2>1. /\ through[w] < mem'.next
        /\ \A j \in QueuedJobs' : mem'.jobs[j].order <= through[w] =>
             <<j, mem'.jobs[j].order>> \in user.started
    BY <1>1, QueuedStays
  <2> QED BY <1>1, <1>2, <1>5, <2>1 DEF OwnerInv
<1>7. RunInv'
  BY <1>2 DEF RunInv, Active
<1> QED BY <1>3, <1>4, <1>5, <1>6, <1>7 DEF QueueInv, TypeInv

\* ... with one it committed.
LEMMA RunCommits ==
  ASSUME QueueInv, NEW w \in Windows, worker[w] \in {"selected", "running"},
         worker' = [worker EXCEPT ![w] = "running"],
         UNCHANGED <<owner, evidenceVars, cmds, alive, active, through, sent, user>>,
         cancel' \in [Windows -> BOOLEAN],
         NEW j \in Ids, NEW next, NEW result \in Results, Commit(next, result),
         Returned(j, result), j \in DOMAIN next.jobs,
         Sound(next, journal, output, user.cancelled), mem.next <= next.next,
         \A k \in DOMAIN next.jobs : next.jobs[k].state = "queued" =>
           \/ k \in QueuedJobs /\ next.jobs[k].order = mem.jobs[k].order
           \/ next.jobs[k].order >= mem.next
  PROVE  QueueInv'
<1>1. worker[w] \in Owning
  BY DEF Owning
<1>2. /\ Sound(disk, journal, output, user.cancelled)
      /\ Sound(synced, journal, output, user.cancelled)
      /\ Sound(mem, journal, output, user.cancelled)
      /\ poisoned \in BOOLEAN /\ troubles \in 0..MaxTroubles /\ (~poisoned => disk = mem)
      /\ mem.next \in 1..(MaxSequence + 1)
  BY <1>1, Owner
<1>3. /\ Sound(disk', journal, output, user.cancelled)
      /\ Sound(synced', journal, output, user.cancelled)
      /\ Sound(mem', journal, output, user.cancelled)
      /\ poisoned' \in BOOLEAN /\ troubles' \in 0..MaxTroubles
      /\ result = "ok" => mem' = next
      /\ result # "ok" => mem' = mem
      /\ ~poisoned' => disk' = mem'
  BY <1>2, CommitSound
<1>4. mem.next <= mem'.next
  BY <1>2, <1>3, Numbers
<1>5. \A k \in QueuedJobs' :
        \/ k \in QueuedJobs /\ mem'.jobs[k].order = mem.jobs[k].order
        \/ mem'.jobs[k].order >= mem.next
  <2>1. CASE result = "ok"
    BY <1>3, <2>1 DEF QueuedJobs
  <2>2. CASE result # "ok"
    BY <1>3, <2>2 DEF QueuedJobs
  <2> QED BY <2>1, <2>2
<1>6. run' \in [at : {"returned"}, job : Ids \cup {0}, outcome : Outcomes]
  <2>1. result = "ok" => mem'.jobs[j].state \in JobStates
    BY <1>3, SnapshotJobs, JobTyped DEF Sound
  <2> QED BY <2>1 DEF Returned, Outcomes
<1> QED BY <1>3, <1>4, <1>5, <1>6, RunReturns

\* ... having moved its job.
LEMMA RunMoves ==
  ASSUME QueueInv, NEW w \in Windows, worker[w] \in {"selected", "running"},
         worker' = [worker EXCEPT ![w] = "running"],
         UNCHANGED <<owner, cancel, evidenceVars, cmds, alive, active, through, sent, user>>,
         NEW j \in DOMAIN mem.jobs, NEW st \in JobStates \ {"queued", "running"},
         NEW r \in Dispositions, NEW result \in Results,
         Commit(Put(j, Moved(mem.jobs[j], st, r)), result), Returned(j, result),
         mem.jobs[j].state = "running" => st # "blocked_input_missing",
         ~Over(mem.jobs[j]),
         st = "cancelled" =>
           j \in user.cancelled /\ \A n \in 1..MaxAttempts : Quiet(journal, j, n),
         st = "completed" =>
           /\ mem.jobs[j].state = "running"
           /\ journal[<<j, Len(mem.jobs[j].attempts)>>] \in {"applied", "rolledback"}
  PROVE  QueueInv'
<1> DEFINE next == Put(j, Moved(mem.jobs[j], st, r))
<1>1. Sound(mem, journal, output, user.cancelled)
  <2>1. worker[w] \in Owning
    BY DEF Owning
  <2> QED BY <2>1, Owner
<1>2. Sound(next, journal, output, user.cancelled)
  BY <1>1, MovedInMem
<1>3. /\ mem.next <= next.next
      /\ \A k \in DOMAIN next.jobs : next.jobs[k].state = "queued" =>
           \/ k \in QueuedJobs /\ next.jobs[k].order = mem.jobs[k].order
           \/ next.jobs[k].order >= mem.next
  BY <1>1, MovedWaits
<1>4. j \in DOMAIN next.jobs /\ j \in Ids
  BY <1>1, SnapshotJobs DEF Put, Sound
<1>5. cancel' \in [Windows -> BOOLEAN]
  BY DEF QueueInv, TypeInv, QueueTyped
<1> HIDE DEF next
<1>6. Commit(next, result)
  BY DEF next
<1> QED BY <1>2, <1>3, <1>4, <1>5, <1>6, RunCommits

\* A job whose attempt starts: nothing of an earlier one is in doubt.
LEMMA StartedSound ==
  ASSUME Sound(mem, journal, output, user.cancelled), NEW j \in QueuedJobs,
         Abandoned(mem) = {}, Blocked(j) = {}, ~Reviewable(j),
         Len(mem.jobs[j].attempts) < MaxAttempts
  PROVE  LET next == Put(j, Attempted(mem.jobs[j])) IN
         /\ Sound(next, journal, output, user.cancelled)
         /\ DOMAIN next.jobs = DOMAIN mem.jobs /\ j \in DOMAIN next.jobs /\ j \in Ids
         /\ next.jobs[j].state = "running"
         /\ Len(next.jobs[j].attempts) = Len(mem.jobs[j].attempts) + 1
         /\ <<j, Len(mem.jobs[j].attempts) + 1>> \in Attempts
         /\ journal[<<j, Len(mem.jobs[j].attempts) + 1>>] = "empty"
         /\ mem.next <= next.next
         /\ \A k \in DOMAIN next.jobs : next.jobs[k].state = "queued" =>
              \/ k \in QueuedJobs /\ next.jobs[k].order = mem.jobs[k].order
              \/ next.jobs[k].order >= mem.next
<1> DEFINE job == mem.jobs[j]
           tried == Attempted(job)
           t == [mem.jobs EXCEPT ![j] = tried]
           next == [next |-> mem.next, jobs |-> t]
<1>1. /\ Snapshot(mem) /\ Valid(mem) /\ j \in DOMAIN mem.jobs /\ j \in Ids
      /\ job.state = "queued" /\ job \in Jobs /\ JobValid(job)
      /\ j <= job.order /\ job.order < mem.next
      /\ mem.next \in 1..(MaxSequence + 1)
      /\ JobEvident(j, job, journal, output, user.cancelled)
      /\ Len(job.attempts) \in 0..MaxAttempts /\ job.dest \in Dests
  BY SnapshotJobs, ValidParts, JobTyped DEF Sound, Evident, QueuedJobs
<1>2. /\ tried \in Jobs /\ JobValid(tried)
      /\ tried.dest = job.dest /\ tried.order = job.order /\ tried.state = "running"
      /\ Len(tried.attempts) = Len(job.attempts) + 1
  BY <1>1, AttemptedFacts
<1> HIDE DEF tried
<1>3. output[job.dest] = Absent
  BY DEF Blocked
<1>4. \A n \in 1..MaxAttempts : Quiet(journal, j, n)
  BY <1>1 DEF JobEvident
<1>5. \A n \in 1..MaxAttempts : \A d \in Dests : output[d] # <<j, n>>
  <2> SUFFICES ASSUME NEW n \in 1..MaxAttempts, NEW d \in Dests, output[d] = <<j, n>>
               PROVE  FALSE
    OBVIOUS
  <2>1. d = job.dest
    BY <1>1 DEF JobEvident
  <2>2. <<j, n>> # Absent
    BY <1>1, Numbers DEF Absent
  <2> QED BY <1>3, <2>1, <2>2
<1>6. JobEvident(j, tried, journal, output, user.cancelled)
  <2>1. \A n \in 1..MaxAttempts : n > Len(tried.attempts) => journal[<<j, n>>] = "empty"
    <3>1. \A n \in 1..MaxAttempts : n > Len(tried.attempts) => n > Len(job.attempts)
      BY <1>1, <1>2, Numbers
    <3> QED BY <1>1, <3>1 DEF JobEvident
  <2> QED BY <1>2, <1>4, <1>5, <2>1 DEF JobEvident
<1>7. \A k \in DOMAIN mem.jobs : k # j =>
        /\ mem.jobs[k].order # tried.order
        /\ ~(mem.jobs[k].state = "running" /\ tried.state = "running")
  BY <1>1, <1>2, ValidParts DEF Abandoned
<1>8. ~Over(job) /\ mem.next <= mem.next
  BY <1>1, Numbers DEF Over
<1>9. Sound(next, journal, output, user.cancelled)
  BY <1>1, <1>2, <1>6, <1>7, <1>8, PutSound
<1>10. /\ DOMAIN t = DOMAIN mem.jobs /\ t[j] = tried
       /\ \A k \in DOMAIN mem.jobs : k # j => t[k] = mem.jobs[k]
  BY <1>1
<1> HIDE DEF t
<1>11. \A k \in DOMAIN next.jobs : next.jobs[k].state = "queued" =>
         k \in QueuedJobs /\ next.jobs[k].order = mem.jobs[k].order
  BY <1>2, <1>10 DEF QueuedJobs
<1>12. /\ <<j, Len(job.attempts) + 1>> \in Attempts
       /\ journal[<<j, Len(job.attempts) + 1>>] = "empty"
  <2>1. Len(job.attempts) + 1 \in 1..MaxAttempts /\ Len(job.attempts) + 1 > Len(job.attempts)
    BY <1>1, Numbers
  <2>2. journal[<<j, Len(job.attempts) + 1>>] = "empty"
    BY <1>1, <2>1 DEF JobEvident
  <2> QED BY <1>1, <2>1, <2>2 DEF Attempts
<1>13. Put(j, tried) = next
  BY <1>1, PutIs DEF t
<1>14. /\ next.jobs = t /\ next.next = mem.next
  OBVIOUS
<1> HIDE DEF next
<1>15. Put(j, Attempted(mem.jobs[j])) = next
  BY <1>13 DEF tried
<1> QED BY <1>1, <1>2, <1>8, <1>9, <1>10, <1>11, <1>12, <1>14, <1>15

LEMMA RunNextStep ==
  ASSUME QueueInv, NEW w \in Windows, RunNext(w)
  PROVE  QueueInv'
<1>1. /\ worker[w] = "selected" /\ worker' = [worker EXCEPT ![w] = "running"]
      /\ UNCHANGED <<cmds, alive, active, through, sent, user>>
  BY DEF RunNext
<1>2. PICK result \in Results : RunBegins(w, result)
  BY DEF RunNext
<1>3. worker[w] \in Owning /\ worker[w] \in {"selected", "running"}
  BY <1>1 DEF Owning
<1>4. /\ owner = w /\ owner # None /\ Snapshot(mem)
      /\ Sound(disk, journal, output, user.cancelled)
      /\ Sound(synced, journal, output, user.cancelled)
      /\ Sound(mem, journal, output, user.cancelled)
      /\ poisoned \in BOOLEAN /\ troubles \in 0..MaxTroubles /\ (~poisoned => disk = mem)
      /\ mem.next \in 1..(MaxSequence + 1)
  BY <1>3, Owner DEF Sound
<1>5. /\ QueuedJobs # {} /\ active[w] = FirstQueued
      /\ cancel[w] => FirstQueued \in user.cancelled
  BY <1>1, <1>4 DEF QueueInv, OwnerInv, HasHead
<1>6. /\ FirstQueued \in QueuedJobs /\ FirstQueued \in DOMAIN mem.jobs
      /\ mem.jobs[FirstQueued].state = "queued"
  BY <1>4, <1>5, FirstIsQueued DEF QueuedJobs
<1>7. /\ mem.jobs[FirstQueued].state # "running" /\ ~Over(mem.jobs[FirstQueued])
      /\ \A n \in 1..MaxAttempts : Quiet(journal, FirstQueued, n)
  BY <1>4, <1>6 DEF Over, Sound, Evident, JobEvident
<1>8. /\ cancel \in [Windows -> BOOLEAN]
      /\ {"cancelled", "failed", "blocked_stale", "blocked_input_missing"}
           \subseteq JobStates \ {"queued", "running"}
      /\ {"none", "restart", "review"} \subseteq Dispositions
  BY DEF QueueInv, TypeInv, QueueTyped, JobStates, Dispositions
<1>9. ASSUME RunError(w) PROVE QueueInv'
  <2>1. /\ run' = [at |-> "returned", job |-> 0, outcome |-> "error"]
        /\ UNCHANGED <<owner, evidenceVars>>
        /\ disk' = disk /\ synced' = synced /\ mem' = mem /\ poisoned' = poisoned
        /\ cancel' = cancel /\ troubles' = troubles
    BY <1>9 DEF RunError, NoRun, storeVars
  <2>2. run' \in [at : {"returned"}, job : Ids \cup {0}, outcome : Outcomes]
    BY <2>1 DEF Outcomes
  <2>3. /\ Sound(disk', journal, output, user.cancelled)
        /\ Sound(synced', journal, output, user.cancelled)
        /\ Sound(mem', journal, output, user.cancelled)
        /\ poisoned' \in BOOLEAN /\ troubles' \in 0..MaxTroubles /\ (~poisoned' => disk' = mem')
        /\ cancel' \in [Windows -> BOOLEAN]
    BY <1>4, <1>8, <2>1
  <2>4. mem.next <= mem'.next
    BY <1>4, <2>1, Numbers
  <2>5. \A j \in QueuedJobs' : j \in QueuedJobs /\ mem'.jobs[j].order = mem.jobs[j].order
    BY <2>1 DEF QueuedJobs
  <2> QED BY <1>1, <1>3, <2>1, <2>2, <2>3, <2>4, <2>5, RunReturns
<1>10. ASSUME NEW st \in JobStates \ {"queued", "running"}, NEW r \in Dispositions,
              st = "cancelled" => FirstQueued \in user.cancelled, st # "completed",
              RunSettles(FirstQueued, st, r, result)
       PROVE  QueueInv'
  <2>1. /\ Commit(Put(FirstQueued, Moved(mem.jobs[FirstQueued], st, r)), result)
        /\ Returned(FirstQueued, result) /\ UNCHANGED <<owner, cancel, evidenceVars>>
    BY <1>10 DEF RunSettles
  <2> QED BY <1>1, <1>3, <1>6, <1>7, <1>10, <2>1, RunMoves
<1>11. ASSUME RunCancelled(w, result) PROVE QueueInv'
  <2>1. FirstQueued \in user.cancelled /\ RunSettles(FirstQueued, "cancelled", "none", result)
    BY <1>5, <1>11 DEF RunCancelled
  <2> QED BY <1>8, <1>10, <2>1
<1>12. ASSUME RunBlocked(w, result) PROVE QueueInv'
  <2>1. PICK s \in Blocked(FirstQueued) : RunSettles(FirstQueued, s, "restart", result)
    BY <1>12 DEF RunBlocked
  <2>2. /\ s \in JobStates \ {"queued", "running"} /\ s # "cancelled" /\ s # "completed"
    BY BlockedStates
  <2> QED BY <1>8, <1>10, <2>1, <2>2
<1>13. ASSUME RunReview(w, result) \/ RunUnprepared(w, result) PROVE QueueInv'
  <2>1. RunSettles(FirstQueued, "failed", "review", result)
    BY <1>13 DEF RunReview, RunUnprepared
  <2> QED BY <1>8, <1>10, <2>1
<1>14. ASSUME MayRun, RunStarts(w, result) PROVE QueueInv'
  <2> DEFINE j == FirstQueued
             a == <<j, Len(mem.jobs[j].attempts) + 1>>
             next == Put(j, Attempted(mem.jobs[j]))
  <2>1. /\ ~poisoned /\ Abandoned(mem) = {} /\ ~cancel[w] /\ Blocked(j) = {} /\ ~Reviewable(j)
        /\ Len(mem.jobs[j].attempts) < MaxAttempts
        /\ Commit(next, result)
        /\ owner' = owner /\ cancel' = cancel /\ journal' = journal /\ output' = output
        /\ source' = source
    BY <1>14 DEF MayRun, RunStarts
  <2>2. /\ Sound(next, journal, output, user.cancelled)
        /\ j \in DOMAIN next.jobs /\ j \in Ids
        /\ next.jobs[j].state = "running"
        /\ Len(next.jobs[j].attempts) = Len(mem.jobs[j].attempts) + 1
        /\ a \in Attempts /\ journal[a] = "empty"
        /\ mem.next <= next.next
        /\ \A k \in DOMAIN next.jobs : next.jobs[k].state = "queued" =>
             \/ k \in QueuedJobs /\ next.jobs[k].order = mem.jobs[k].order
             \/ next.jobs[k].order >= mem.next
    BY <1>4, <1>6, <2>1, StartedSound
  <2>3. CASE result # "ok"
    <3>1. staging' = staging /\ Returned(j, result)
      BY <1>14, <2>3 DEF RunStarts
    <3>2. UNCHANGED <<owner, evidenceVars>> /\ cancel' \in [Windows -> BOOLEAN]
      BY <1>8, <2>1, <3>1 DEF evidenceVars
    <3> HIDE DEF next
    <3> QED BY <1>1, <1>3, <2>1, <2>2, <3>1, <3>2, RunCommits
  <2>4. CASE result = "ok"
    <3>1. /\ staging' = staging \cup {a}
          /\ run' = [at |-> "converting", job |-> j, outcome |-> "none"]
      BY <1>14, <2>4 DEF RunStarts
    <3> HIDE DEF next
    <3>2. /\ Sound(disk', journal, output, user.cancelled)
          /\ Sound(synced', journal, output, user.cancelled)
          /\ Sound(mem', journal, output, user.cancelled)
          /\ poisoned' \in BOOLEAN /\ troubles' \in 0..MaxTroubles
          /\ disk' = next /\ synced' = next /\ mem' = next /\ poisoned' = poisoned
          /\ ~poisoned' => disk' = mem'
      BY <1>4, <2>1, <2>2, <2>4, CommitSound
    <3> HIDE DEF a, j
    <3>3. QueueTyped'
      <4>1. run' \in [at : RunSteps, job : Ids \cup {0}, outcome : Outcomes]
        BY <2>2, <3>1 DEF RunSteps, Outcomes
      <4>2. staging' \subseteq Attempts
        BY <2>2, <3>1 DEF QueueInv, TypeInv, QueueTyped
      <4> QED BY <2>1, <3>2, <4>1, <4>2 DEF QueueInv, TypeInv, QueueTyped, Sound
    <3>4. SoundQueue'
      BY <1>1, <2>1, <3>2 DEF SoundQueue
    <3>5. WindowTyped' /\ WorkerInv' /\ worker'[w] = "running"
      <4>1. "running" \in Owning /\ run'.at # "idle"
        BY <3>1 DEF Owning
      <4>2. active' \in [Windows -> Ids \cup {None}] /\ through' \in [Windows -> 0..MaxSequence]
        BY <1>1 DEF QueueInv, TypeInv, WindowTyped
      <4> QED BY <1>1, <1>3, <2>1, <4>1, <4>2, OwnerMoves
    <3>6. OwnerInv'
      <4>1. \A k \in QueuedJobs' :
              \/ k \in QueuedJobs /\ mem'.jobs[k].order = mem.jobs[k].order
              \/ mem'.jobs[k].order >= mem.next
        BY <2>2, <3>2 DEF QueuedJobs
      <4>2. /\ through[w] < mem'.next
            /\ \A k \in QueuedJobs' : mem'.jobs[k].order <= through[w] =>
                 <<k, mem'.jobs[k].order>> \in user.started
        BY <1>3, <2>2, <3>2, <4>1, QueuedStays
      <4> QED BY <1>1, <1>4, <2>1, <3>2, <3>5, <4>2 DEF OwnerInv
    <3>7. RunInv'
      <4>1. Current' = a
        BY <2>2, <3>1, <3>2 DEF Current, a, j
      <4>2. active'[owner'] = j /\ ~cancel'[owner']
        BY <1>1, <1>4, <1>5, <2>1 DEF j
      <4> QED BY <2>1, <2>2, <3>1, <3>2, <4>1, <4>2 DEF RunInv
    <3> QED BY <3>3, <3>4, <3>5, <3>6, <3>7 DEF QueueInv, TypeInv
  <2> QED BY <2>3, <2>4
<1> QED BY <1>2, <1>9, <1>11, <1>12, <1>13, <1>14 DEF RunBegins

----------------------------------------------------------------------------
(* An attempt runs *)

\* The running attempt's own evidence may change as it likes.
LEMMA RunningEvidence ==
  ASSUME NEW s, NEW jn, NEW out, NEW can, NEW jn2, NEW out2, Sound(s, jn, out, can),
         NEW j \in DOMAIN s.jobs, s.jobs[j].state = "running",
         NEW a, a = <<j, Len(s.jobs[j].attempts)>>,
         \A b \in Attempts : b # a => jn2[b] = jn[b],
         \A d \in Dests : \/ out2[d] = out[d] \/ out2[d] \in {Absent, Foreign}
                          \/ d = s.jobs[j].dest /\ out2[d] = a
  PROVE  Sound(s, jn2, out2, can)
<1>1. /\ Snapshot(s) /\ Valid(s) /\ ReservedOnce(s) /\ Evident(s, jn, out, can)
      /\ DOMAIN s.jobs \subseteq Ids
      /\ \A k \in DOMAIN s.jobs : s.jobs[k] \in Jobs /\ k <= s.jobs[k].order
                                  /\ s.jobs[k].order < s.next /\ s.jobs[k].order \in Ids
      /\ s.next \in 1..(MaxSequence + 1)
  BY SnapshotJobs, ValidParts, JobTyped DEF Sound
<1>2. \A k \in Ids, n \in 1..MaxAttempts : <<k, n>> \in Attempts
  BY DEF Attempts
<1>3. \A k \in Ids, n \in 1..MaxAttempts : k # j \/ n # Len(s.jobs[j].attempts) =>
        /\ jn2[<<k, n>>] = jn[<<k, n>>]
        /\ \A d \in Dests : out2[d] = <<k, n>> => out[d] = <<k, n>>
  <2> SUFFICES ASSUME NEW k \in Ids, NEW n \in 1..MaxAttempts,
                      k # j \/ n # Len(s.jobs[j].attempts)
               PROVE  /\ jn2[<<k, n>>] = jn[<<k, n>>]
                      /\ \A d \in Dests : out2[d] = <<k, n>> => out[d] = <<k, n>>
    OBVIOUS
  <2>1. <<k, n>> # a /\ <<k, n>> \in Attempts
    BY <1>2
  <2>2. <<k, n>> # Absent /\ <<k, n>> # Foreign
    BY Numbers DEF Absent, Foreign
  <2> QED BY <2>1, <2>2
<1>4. ASSUME NEW k \in DOMAIN s.jobs
      PROVE  JobEvident(k, s.jobs[k], jn2, out2, can)
  <2>1. JobEvident(k, s.jobs[k], jn, out, can) /\ Len(s.jobs[k].attempts) \in 0..MaxAttempts
        /\ k \in Ids
    BY <1>1, JobTyped DEF Evident
  <2>2. CASE k = j
    <3>1. \A n \in 1..MaxAttempts : n # Len(s.jobs[j].attempts) =>
            /\ jn2[<<k, n>>] = jn[<<k, n>>]
            /\ \A d \in Dests : out2[d] = <<k, n>> => out[d] = <<k, n>>
      BY <1>3, <2>1
    <3>2. \A d \in Dests, n \in 1..MaxAttempts :
            out2[d] = <<k, n>> => n = Len(s.jobs[k].attempts) /\ d = s.jobs[k].dest
      <4> SUFFICES ASSUME NEW d \in Dests, NEW n \in 1..MaxAttempts, out2[d] = <<k, n>>
                   PROVE  n = Len(s.jobs[k].attempts) /\ d = s.jobs[k].dest
        OBVIOUS
      <4>1. CASE out2[d] = out[d]
        BY <2>1, <4>1 DEF JobEvident
      <4>2. CASE out2[d] \in {Absent, Foreign}
        BY <2>1, <4>2, Numbers DEF Absent, Foreign
      <4>3. CASE d = s.jobs[j].dest /\ out2[d] = a
        BY <2>2, <4>3
      <4> QED BY <4>1, <4>2, <4>3
    <3>3. \A n \in 1..MaxAttempts :
            /\ n > Len(s.jobs[k].attempts) => jn2[<<k, n>>] = "empty"
            /\ n < Len(s.jobs[k].attempts) => Quiet(jn2, k, n)
      BY <2>1, <2>2, <3>1, Numbers DEF JobEvident, Quiet
    <3> QED BY <2>2, <3>2, <3>3 DEF JobEvident
  <2>3. CASE k # j
    <3>1. \A n \in 1..MaxAttempts :
            /\ jn2[<<k, n>>] = jn[<<k, n>>]
            /\ \A d \in Dests : out2[d] = <<k, n>> => out[d] = <<k, n>>
      BY <1>3, <2>1, <2>3
    <3>2. s.jobs[k].state = "completed" =>
            jn2[<<k, Len(s.jobs[k].attempts)>>] \in {"applied", "rolledback"}
      <4> SUFFICES ASSUME s.jobs[k].state = "completed"
                   PROVE  jn2[<<k, Len(s.jobs[k].attempts)>>] \in {"applied", "rolledback"}
        OBVIOUS
      <4>1. Len(s.jobs[k].attempts) \in 1..MaxAttempts
        BY <2>1, Numbers DEF JobEvident
      <4> QED BY <2>1, <3>1, <4>1 DEF JobEvident
    <3> QED BY <2>1, <3>1, <3>2 DEF JobEvident, Quiet
  <2> QED BY <2>2, <2>3
<1>5. ASSUME NEW k \in Ids, NEW n \in 1..MaxAttempts, k >= s.next
      PROVE  jn2[<<k, n>>] = "empty" /\ \A d \in Dests : out2[d] # <<k, n>>
  <2>1. k # j
    BY <1>1, <1>5, Numbers
  <2> QED BY <1>1, <1>3, <1>5, <2>1 DEF Evident
<1>6. ASSUME NEW k \in Ids \ DOMAIN s.jobs, NEW m \in 1..MaxAttempts,
             NEW n \in 1..MaxAttempts, m # n
      PROVE  Quiet(jn2, k, m) \/ Quiet(jn2, k, n)
  <2>1. Quiet(jn, k, m) \/ Quiet(jn, k, n)
    BY <1>1, <1>6 DEF Evident
  <2>2. k # j
    OBVIOUS
  <2> QED BY <1>3, <2>1, <2>2 DEF Quiet
<1> QED BY <1>1, <1>4, <1>5, <1>6 DEF Sound, Evident

\* What an attempt in progress stands on.
LEMMA Running ==
  ASSUME QueueInv, NEW w \in Windows, worker[w] = "running", run.at \in Active
  PROVE  /\ owner = w /\ owner # None /\ ~poisoned /\ synced = mem /\ disk = mem
         /\ Sound(mem, journal, output, user.cancelled)
         /\ run.job \in DOMAIN mem.jobs /\ run.job \in Ids
         /\ mem.jobs[run.job].state = "running" /\ RunDest \in Dests
         /\ Len(mem.jobs[run.job].attempts) \in 1..MaxAttempts
         /\ Current \in Attempts /\ active[w] = run.job
         /\ cancel[w] => run.job \in user.cancelled
<1>1. worker[w] \in Owning
  BY DEF Owning
<1>2. /\ owner = w /\ owner # None /\ (~poisoned => disk = mem)
      /\ Sound(mem, journal, output, user.cancelled)
  BY <1>1, Owner
<1>3. /\ ~poisoned /\ synced = mem /\ run.job \in DOMAIN mem.jobs
      /\ mem.jobs[run.job].state = "running" /\ active[w] = run.job
      /\ cancel[w] => run.job \in user.cancelled
  BY <1>2 DEF QueueInv, RunInv
<1>4. mem.jobs[run.job] \in Jobs /\ JobValid(mem.jobs[run.job]) /\ run.job \in Ids
  BY <1>2, <1>3, SnapshotJobs, ValidParts DEF Sound
<1>5. Len(mem.jobs[run.job].attempts) \in 1..MaxAttempts /\ RunDest \in Dests
  BY <1>3, <1>4, RunningAttempt, JobTyped, Numbers DEF RunDest
<1> QED BY <1>2, <1>3, <1>4, <1>5 DEF Current, Attempts

\* A step of the converter that leaves the queue alone.
LEMMA RunContinues ==
  ASSUME QueueInv, NEW w \in Windows, worker[w] = "running", run.at \in Active,
         UNCHANGED <<storeVars, owner, cancel, windowVars, staging, source>>,
         run' \in [at : Active \ {"converting"}, job : {run.job}, outcome : Outcomes],
         journal' \in [Attempts -> {"empty", "pending", "applied", "rolledback"}],
         \A b \in Attempts : b # Current => journal'[b] = journal[b],
         output' \in [Dests -> Attempts \cup {Absent, Foreign}],
         \A d \in Dests : \/ output'[d] = output[d] \/ output'[d] \in {Absent, Foreign}
                          \/ d = RunDest /\ output'[d] = Current,
         troubles' \in 0..MaxTroubles,
         run'.at \in {"announced", "published", "undoing"} => journal'[Current] = "pending",
         run'.at = "settling" =>
           /\ run'.outcome \in {"completed", "cancelled", "stale", "failed", "transaction"}
           /\ run'.outcome = "completed" => journal'[Current] \in {"applied", "rolledback"}
           /\ run'.outcome = "cancelled" =>
                run.job \in user.cancelled /\ journal'[Current] \in {"empty", "rolledback"}
  PROVE  QueueInv'
<1>1. /\ disk' = disk /\ synced' = synced /\ mem' = mem /\ poisoned' = poisoned
      /\ owner' = owner /\ cancel' = cancel /\ staging' = staging /\ source' = source
      /\ cmds' = cmds /\ alive' = alive /\ active' = active /\ worker' = worker
      /\ through' = through /\ sent' = sent /\ user' = user
      /\ run'.job = run.job /\ run'.at \in Active /\ run'.at # "converting" /\ run'.at # "idle"
  BY DEF storeVars, windowVars, Active
<1>2. /\ owner = w /\ owner # None /\ ~poisoned /\ synced = mem /\ disk = mem
      /\ Sound(mem, journal, output, user.cancelled)
      /\ run.job \in DOMAIN mem.jobs /\ run.job \in Ids
      /\ mem.jobs[run.job].state = "running"
      /\ active[w] = run.job /\ (cancel[w] => run.job \in user.cancelled)
  BY Running
<1>3. QueueTyped'
  <2>1. run' \in [at : RunSteps, job : Ids \cup {0}, outcome : Outcomes]
    BY <1>2 DEF Active
  <2> QED BY <1>1, <2>1 DEF QueueInv, TypeInv, QueueTyped, Snapshot
<1>4. WindowTyped'
  BY <1>1 DEF QueueInv, TypeInv, WindowTyped
<1>5. SoundQueue'
  <2>1. Sound(mem, journal', output', user.cancelled)
    BY <1>2, RunningEvidence DEF Current, RunDest
  <2> QED BY <1>1, <1>2, <2>1 DEF SoundQueue
<1>6. WorkerInv'
  BY <1>1, <1>2 DEF QueueInv, WorkerInv
<1>7. OwnerInv'
  BY <1>1, <1>2 DEF QueueInv, OwnerInv, QueuedJobs
<1>8. RunInv'
  <2>1. Current' = Current
    BY <1>1 DEF Current
  <2> QED BY <1>1, <1>2, <2>1 DEF RunInv
<1> QED BY <1>3, <1>4, <1>5, <1>6, <1>7, <1>8 DEF QueueInv, TypeInv

LEMMA WorkStep ==
  ASSUME QueueInv, NEW w \in Windows, Work(w)
  PROVE  QueueInv'
<1>1. worker[w] = "running" /\ UNCHANGED windowVars
  BY DEF Work
<1>2. /\ QueueTyped /\ RunInv /\ troubles \in 0..MaxTroubles
      /\ worker \in [Windows -> WorkerSteps]
  BY DEF QueueInv, TypeInv, QueueTyped, WindowTyped
<1>3. /\ journal \in [Attempts -> {"empty", "pending", "applied", "rolledback"}]
      /\ output \in [Dests -> Attempts \cup {Absent, Foreign}]
      /\ cancel \in [Windows -> BOOLEAN]
      /\ run \in [at : RunSteps, job : Ids \cup {0}, outcome : Outcomes]
  BY <1>2 DEF QueueTyped
<1>4. /\ {"announced", "published", "undoing", "settling"} \subseteq Active \ {"converting"}
      /\ {"completed", "cancelled", "stale", "failed", "transaction"} \subseteq Outcomes
      /\ {"converting", "announced", "published", "undoing", "settling"} \subseteq Active
  BY DEF Active, RunSteps, Outcomes, JobStates
<1>5. troubles < MaxTroubles => troubles + 1 \in 0..MaxTroubles
  BY <1>2, Numbers
<1>6. ASSUME ConvertStops(w) PROVE QueueInv'
  <2>1. /\ run.at = "converting" /\ UNCHANGED evidenceVars
        /\ \E o \in {"cancelled", "stale", "failed"} :
             Ends(o) /\ (o = "cancelled" => cancel[w])
        /\ troubles' = troubles \/ (troubles < MaxTroubles /\ troubles' = troubles + 1)
    BY <1>6 DEF ConvertStops
  <2>2. PICK o \in {"cancelled", "stale", "failed"} : Ends(o) /\ (o = "cancelled" => cancel[w])
    BY <2>1
  <2>3. /\ run' = [run EXCEPT !.at = "settling", !.outcome = o]
        /\ UNCHANGED <<storeVars, owner, cancel, windowVars, staging, source>>
        /\ journal' = journal /\ output' = output
    BY <1>1, <2>1, <2>2 DEF Ends, evidenceVars
  <2>4. /\ run' \in [at : Active \ {"converting"}, job : {run.job}, outcome : Outcomes]
        /\ run'.at = "settling" /\ run'.outcome = o
    BY <1>3, <1>4, <2>3
  <2>5. run.at \in Active /\ journal[Current] = "empty"
    BY <1>2, <1>4, <2>1 DEF RunInv
  <2>6. cancel[w] => run.job \in user.cancelled
    BY <1>1, <2>5, Running
  <2>7. troubles' \in 0..MaxTroubles
    BY <1>2, <1>5, <2>1
  <2> QED BY <1>1, <1>3, <2>2, <2>3, <2>4, <2>5, <2>6, <2>7, RunContinues
<1>7. ASSUME Announce(w) PROVE QueueInv'
  <2>1. /\ run.at = "converting"
        /\ journal' = [journal EXCEPT ![Current] = "pending"]
        /\ run' = [run EXCEPT !.at = "announced"]
        /\ UNCHANGED <<storeVars, owner, cancel, windowVars, staging, source>>
        /\ output' = output /\ troubles' = troubles
    BY <1>1, <1>7 DEF Announce
  <2>2. run.at \in Active /\ Current \in Attempts
    BY <1>1, <1>4, <2>1, Running
  <2>3. /\ run' \in [at : Active \ {"converting"}, job : {run.job}, outcome : Outcomes]
        /\ run'.at = "announced"
    BY <1>3, <1>4, <2>1
  <2>4. /\ journal' \in [Attempts -> {"empty", "pending", "applied", "rolledback"}]
        /\ journal'[Current] = "pending"
        /\ \A b \in Attempts : b # Current => journal'[b] = journal[b]
    BY <1>3, <2>1, <2>2
  <2> QED BY <1>1, <1>2, <1>3, <2>1, <2>2, <2>3, <2>4, RunContinues
<1>8. ASSUME Publish PROVE QueueInv'
  <2>1. /\ run.at = "announced"
        /\ output' = [output EXCEPT ![RunDest] = Current]
        /\ run' = [run EXCEPT !.at = "published"]
        /\ UNCHANGED <<storeVars, owner, cancel, windowVars, staging, source>>
        /\ journal' = journal /\ troubles' = troubles
    BY <1>1, <1>8 DEF Publish
  <2>2. run.at \in Active /\ Current \in Attempts /\ RunDest \in Dests
    BY <1>1, <1>4, <2>1, Running
  <2>3. /\ run' \in [at : Active \ {"converting"}, job : {run.job}, outcome : Outcomes]
        /\ run'.at = "published"
    BY <1>3, <1>4, <2>1
  <2>4. /\ output' \in [Dests -> Attempts \cup {Absent, Foreign}]
        /\ \A d \in Dests : output'[d] = output[d] \/ (d = RunDest /\ output'[d] = Current)
    BY <1>3, <2>1, <2>2
  <2>5. journal[Current] = "pending"
    BY <1>2, <2>1, <2>2 DEF RunInv
  <2> QED BY <1>1, <1>2, <1>3, <2>1, <2>2, <2>3, <2>4, <2>5, RunContinues
<1>9. ASSUME Confirm PROVE QueueInv'
  <2>1. /\ run.at = "published"
        /\ journal' = [journal EXCEPT ![Current] = "applied"]
        /\ run' = [run EXCEPT !.at = "settling", !.outcome = "completed"]
        /\ UNCHANGED <<storeVars, owner, cancel, windowVars, staging, source>>
        /\ output' = output /\ troubles' = troubles
    BY <1>1, <1>9 DEF Confirm
  <2>2. run.at \in Active /\ Current \in Attempts
    BY <1>1, <1>4, <2>1, Running
  <2>3. /\ run' \in [at : Active \ {"converting"}, job : {run.job}, outcome : Outcomes]
        /\ run'.at = "settling" /\ run'.outcome = "completed"
    BY <1>3, <1>4, <2>1
  <2>4. /\ journal' \in [Attempts -> {"empty", "pending", "applied", "rolledback"}]
        /\ journal'[Current] = "applied"
        /\ \A b \in Attempts : b # Current => journal'[b] = journal[b]
    BY <1>3, <2>1, <2>2
  <2> QED BY <1>1, <1>2, <1>3, <2>1, <2>2, <2>3, <2>4, RunContinues
<1>10. ASSUME PublicationFails(w) PROVE QueueInv'
  <2>1. /\ run.at \in {"announced", "published"}
        /\ run' = [run EXCEPT !.at = "undoing"]
        /\ UNCHANGED <<storeVars, owner, cancel, windowVars, staging, source>>
        /\ journal' = journal /\ output' = output
        /\ troubles' = troubles \/ (troubles < MaxTroubles /\ troubles' = troubles + 1)
    BY <1>1, <1>10 DEF PublicationFails, evidenceVars
  <2>2. run.at \in Active
    BY <1>4, <2>1
  <2>3. /\ run' \in [at : Active \ {"converting"}, job : {run.job}, outcome : Outcomes]
        /\ run'.at = "undoing"
    BY <1>3, <1>4, <2>1
  <2>4. journal[Current] = "pending"
    BY <1>2, <2>1, <2>2 DEF RunInv
  <2>5. troubles' \in 0..MaxTroubles
    BY <1>2, <1>5, <2>1
  <2> QED BY <1>1, <1>3, <2>1, <2>2, <2>3, <2>4, <2>5, RunContinues
<1>11. ASSUME RollBack PROVE QueueInv'
  <2>1. /\ run.at = "undoing"
        /\ run' = [run EXCEPT !.at = "settling", !.outcome = "transaction"]
        /\ UNCHANGED <<storeVars, owner, cancel, windowVars, staging, source>>
        /\ troubles' = troubles \/ (troubles < MaxTroubles /\ troubles' = troubles + 1)
        /\ \/ Undone(Current, RunDest)
           \/ journal' = journal /\ output' = output
    BY <1>1, <1>11 DEF RollBack
  <2>2. run.at \in Active /\ Current \in Attempts /\ RunDest \in Dests
    BY <1>1, <1>4, <2>1, Running
  <2>3. /\ run' \in [at : Active \ {"converting"}, job : {run.job}, outcome : Outcomes]
        /\ run'.at = "settling" /\ run'.outcome = "transaction"
    BY <1>3, <1>4, <2>1
  <2>4. /\ journal' = journal \/ journal' = [journal EXCEPT ![Current] = "rolledback"]
        /\ output' = output \/ output' = [output EXCEPT ![RunDest] = Absent]
    BY <2>1 DEF Undone
  <2>5. /\ journal' \in [Attempts -> {"empty", "pending", "applied", "rolledback"}]
        /\ \A b \in Attempts : b # Current => journal'[b] = journal[b]
        /\ output' \in [Dests -> Attempts \cup {Absent, Foreign}]
        /\ \A d \in Dests : output'[d] = output[d] \/ output'[d] \in {Absent, Foreign}
    BY <1>3, <2>2, <2>4
  <2>6. troubles' \in 0..MaxTroubles
    BY <1>2, <1>5, <2>1
  <2> QED BY <1>1, <2>1, <2>2, <2>3, <2>5, <2>6, RunContinues
<1>12. /\ worker' = worker /\ worker' = [worker EXCEPT ![w] = "running"]
       /\ worker[w] \in {"selected", "running"}
       /\ UNCHANGED <<cmds, alive, active, through, sent, user>>
  BY <1>1, <1>2 DEF windowVars
<1>13. ASSUME NEW result \in Results, CheckpointFails(w, result) PROVE QueueInv'
  <2>1. /\ run.at = "converting" /\ Commit(mem, result) /\ Returned(run.job, result)
        /\ cancel' = [cancel EXCEPT ![w] = TRUE] /\ UNCHANGED <<owner, evidenceVars>>
    BY <1>13 DEF CheckpointFails
  <2>2. run.at \in Active
    BY <1>4, <2>1
  <2>3. /\ Sound(mem, journal, output, user.cancelled) /\ run.job \in DOMAIN mem.jobs
        /\ run.job \in Ids
    BY <1>1, <2>2, Running
  <2>4. cancel' \in [Windows -> BOOLEAN]
    BY <1>3, <2>1
  <2>5. mem.next <= mem.next
    <3>1. mem.next \in 1..(MaxSequence + 1)
      BY <2>3, SnapshotJobs DEF Sound
    <3> QED BY <3>1, Numbers
  <2>6. \A k \in DOMAIN mem.jobs : mem.jobs[k].state = "queued" =>
          \/ k \in QueuedJobs /\ mem.jobs[k].order = mem.jobs[k].order
          \/ mem.jobs[k].order >= mem.next
    BY DEF QueuedJobs
  <2> QED BY <1>12, <2>1, <2>3, <2>4, <2>5, <2>6, RunCommits
<1>14. ASSUME NEW result \in Results, Settle(w, result) PROVE QueueInv'
  <2> DEFINE job == mem.jobs[run.job]
             r == IF run.outcome = "completed" THEN "none" ELSE Disposition(run.job, job)
             st == Settled(w, r)
  <2>1. /\ run.at = "settling"
        /\ Commit(Put(run.job, Moved(job, st, r)), result) /\ Returned(run.job, result)
        /\ UNCHANGED <<owner, cancel, evidenceVars>>
    BY <1>14 DEF Settle
  <2>2. /\ run.at \in Active
        /\ run.outcome \in {"completed", "cancelled", "stale", "failed", "transaction"}
        /\ run.outcome = "completed" => journal[Current] \in {"applied", "rolledback"}
        /\ run.outcome = "cancelled" =>
             run.job \in user.cancelled /\ journal[Current] \in {"empty", "rolledback"}
    BY <1>2, <1>4, <2>1 DEF RunInv
  <2>3. /\ Sound(mem, journal, output, user.cancelled)
        /\ run.job \in DOMAIN mem.jobs /\ job.state = "running"
        /\ Len(job.attempts) \in 1..MaxAttempts
        /\ cancel[w] => run.job \in user.cancelled
    BY <1>1, <2>2, Running
  <2>4. JobEvident(run.job, job, journal, output, user.cancelled) /\ ~Over(job)
    BY <2>3 DEF Sound, Evident, Over
  <2>5. r \in Dispositions
    BY DEF Disposition, Dispositions
  <2>6. /\ st \in JobStates \ {"queued", "running"} /\ st # "blocked_input_missing"
        /\ st = "completed" => run.outcome = "completed"
        /\ st = "cancelled" =>
             \/ run.outcome = "cancelled"
             \/ run.outcome = "transaction" /\ cancel[w] /\ r = "restart"
    BY <2>2 DEF Settled, JobStates
  <2>7. st = "cancelled" =>
          run.job \in user.cancelled /\ \A n \in 1..MaxAttempts : Quiet(journal, run.job, n)
    <3>1. CASE run.outcome = "cancelled"
      <4>1. Quiet(journal, run.job, Len(job.attempts))
        BY <2>2, <3>1 DEF Quiet, Current
      <4>2. ASSUME NEW n \in 1..MaxAttempts PROVE Quiet(journal, run.job, n)
        <5>1. n < Len(job.attempts) \/ n = Len(job.attempts) \/ n > Len(job.attempts)
          BY <2>3, Numbers
        <5> QED BY <2>4, <4>1, <5>1 DEF JobEvident, Quiet
      <4> QED BY <2>2, <3>1, <4>2
    <3>2. CASE run.outcome = "transaction" /\ cancel[w] /\ r = "restart"
      <4>1. ~RequiresReview(run.job, job)
        BY <3>2 DEF Disposition
      <4>2. Len(job.attempts) \in 0..MaxAttempts
        BY <2>3, Numbers
      <4> QED BY <2>3, <2>4, <3>2, <4>1, <4>2, NothingToReview
    <3> QED BY <2>6, <3>1, <3>2
  <2>8. st = "completed" =>
          journal[<<run.job, Len(job.attempts)>>] \in {"applied", "rolledback"}
    BY <2>2, <2>6 DEF Current
  <2> HIDE DEF r, st
  <2> QED BY <1>12, <2>1, <2>3, <2>4, <2>5, <2>6, <2>7, <2>8, RunMoves
<1> QED BY <1>6, <1>7, <1>8, <1>9, <1>10, <1>11, <1>13, <1>14 DEF Work

LEMMA AfterRunStep ==
  ASSUME QueueInv, NEW w \in Windows, AfterRun(w)
  PROVE  QueueInv'
<1>1. /\ worker[w] = "running" /\ run' = NoRun
      /\ active' = [active EXCEPT ![w] = None] /\ worker' = [worker EXCEPT ![w] = "loop"]
      /\ \E ok \in BOOLEAN : Done(w, ok)
      /\ disk' = disk /\ synced' = synced /\ mem' = mem /\ poisoned' = poisoned
      /\ owner' = owner /\ cancel' = cancel /\ troubles' = troubles
      /\ journal' = journal /\ staging' = staging /\ output' = output /\ source' = source
      /\ cmds' = cmds /\ alive' = alive /\ sent' = sent /\ user' = user
  BY DEF AfterRun, storeVars, evidenceVars
<1>2. worker[w] \in Owning /\ "loop" \in Owning
  BY <1>1 DEF Owning
<1>3. /\ owner = w /\ owner # None /\ (~poisoned => disk = mem)
      /\ Sound(mem, journal, output, user.cancelled)
      /\ through[w] < mem.next /\ through[w] \in 0..MaxSequence
      /\ mem.next \in 1..(MaxSequence + 1)
      /\ \A j \in QueuedJobs : mem.jobs[j].order <= through[w] =>
           <<j, mem.jobs[j].order>> \in user.started
  BY <1>2, Owner
<1>4. WindowTyped
  BY DEF QueueInv, TypeInv
<1>5. /\ through' \in [Windows -> 0..MaxSequence]
      /\ \A v \in Windows \ {w} : through'[v] = through[v]
      /\ through'[w] = through[w] \/ through'[w] = 0
  BY <1>1, <1>4, Numbers DEF Done, WindowTyped
<1>6. QueueTyped'
  <2>1. NoRun \in [at : RunSteps, job : Ids \cup {0}, outcome : Outcomes]
    BY DEF NoRun, RunSteps, Outcomes
  <2> QED BY <1>1, <2>1 DEF QueueInv, TypeInv, QueueTyped, Snapshot
<1>7. SoundQueue'
  BY <1>1 DEF QueueInv, SoundQueue
<1>8. WindowTyped' /\ WorkerInv' /\ worker'[w] = "loop"
  <2>1. /\ active' \in [Windows -> Ids \cup {None}]
        /\ \A v \in Windows \ {w} : active'[v] = active[v]
        /\ active'[w] = None
    BY <1>1, <1>4 DEF WindowTyped
  <2>2. run'.at = "idle"
    BY <1>1 DEF NoRun
  <2> QED BY <1>1, <1>2, <1>5, <2>1, <2>2, OwnerMoves
<1>9. OwnerInv'
  <2>1. QueuedJobs' = QueuedJobs
    BY <1>1 DEF QueuedJobs
  <2>2. through'[w] < mem.next
    BY <1>3, <1>5, Numbers
  <2>3. \A j \in QueuedJobs : mem.jobs[j].order \in Nat \ {0}
    BY <1>3, SnapshotJobs, JobTyped, Numbers DEF Sound, QueuedJobs
  <2>4. \A j \in QueuedJobs : mem.jobs[j].order <= through'[w] =>
          <<j, mem.jobs[j].order>> \in user.started
    BY <1>3, <1>5, <2>3
  <2> QED BY <1>1, <1>3, <1>8, <2>1, <2>2, <2>4 DEF OwnerInv
<1>10. RunInv'
  BY <1>1 DEF RunInv, Active, NoRun
<1> QED BY <1>6, <1>7, <1>8, <1>9, <1>10 DEF QueueInv, TypeInv

\* A process that dies leaves files that are sound; what others do goes on.
LEMMA DieStep ==
  ASSUME QueueInv, NEW W \in SUBSET Windows, Die(W),
         \/ disk' = disk
         \/ disk' = synced /\ W = Windows,
         synced' = synced
  PROVE  QueueInv'
<1>1. /\ troubles < MaxTroubles /\ troubles' = troubles + 1
      /\ cmds' = [w \in Windows |-> IF w \in W THEN <<>> ELSE cmds[w]]
      /\ alive' = [w \in Windows |-> alive[w] /\ w \notin W]
      /\ active' = [w \in Windows |-> IF w \in W THEN None ELSE active[w]]
      /\ worker' = [w \in Windows |-> IF w \in W THEN "none" ELSE worker[w]]
      /\ through' = [w \in Windows |-> IF w \in W THEN 0 ELSE through[w]]
      /\ cancel' = [w \in Windows |-> cancel[w] /\ w \notin W]
      /\ owner' = (IF owner \in W THEN None ELSE owner)
      /\ run' = (IF owner \in W THEN NoRun ELSE run)
      /\ user' = [user EXCEPT !.started = IF owner \in W THEN {} ELSE user.started]
      /\ mem' = mem /\ poisoned' = poisoned /\ sent' = sent
      /\ journal' = journal /\ staging' = staging /\ output' = output /\ source' = source
  BY DEF Die, evidenceVars
<1>2. QueueTyped /\ WindowTyped /\ WorkerInv /\ owner \in Windows \cup {None}
  BY DEF QueueInv, TypeInv, QueueTyped
<1>3. None \notin Windows
  BY QueueAssumption DEF QueueAssumption
<1>4. QueueTyped'
  <2>1. troubles' \in 0..MaxTroubles
    BY <1>1, <1>2, Numbers DEF QueueTyped
  <2>2. run' \in [at : RunSteps, job : Ids \cup {0}, outcome : Outcomes]
    BY <1>1, <1>2 DEF QueueTyped, NoRun, RunSteps, Outcomes
  <2>3. cancel' \in [Windows -> BOOLEAN]
    BY <1>1, <1>2 DEF QueueTyped
  <2>4. Snapshot(disk)' /\ Snapshot(synced)' /\ Snapshot(mem)'
    BY <1>1, <1>2 DEF QueueTyped, Snapshot
  <2> QED BY <1>1, <1>2, <2>1, <2>2, <2>3, <2>4 DEF QueueTyped
<1>5. /\ user' \in [cancelled : SUBSET Ids, started : SUBSET (Ids \X Ids)]
      /\ user'.cancelled = user.cancelled
      /\ owner \notin W => user'.started = user.started
  BY <1>1, UserTyped
<1>6. WindowTyped'
  <2>1. cmds' \in [Windows -> Seq(Commands(Ids))]
    <3>1. <<>> \in Seq(Commands(Ids))
      OBVIOUS
    <3> QED BY <1>1, <1>2, <3>1 DEF WindowTyped
  <2>2. alive' \in [Windows -> BOOLEAN] /\ active' \in [Windows -> Ids \cup {None}]
    BY <1>1, <1>2 DEF WindowTyped
  <2>3. worker' \in [Windows -> WorkerSteps] /\ through' \in [Windows -> 0..MaxSequence]
    BY <1>1, <1>2, Numbers DEF WindowTyped, WorkerSteps
  <2> QED BY <1>1, <1>2, <1>5, <2>1, <2>2, <2>3 DEF WindowTyped
<1>7. SoundQueue'
  BY <1>1, <1>5 DEF QueueInv, SoundQueue
<1>8. \A v \in Windows \ W :
        /\ cmds'[v] = cmds[v] /\ (alive'[v] <=> alive[v]) /\ active'[v] = active[v]
        /\ worker'[v] = worker[v] /\ through'[v] = through[v] /\ (cancel'[v] <=> cancel[v])
  BY <1>1
<1>9. \A v \in W :
        /\ cmds'[v] = <<>> /\ ~alive'[v] /\ active'[v] = None
        /\ worker'[v] = "none" /\ through'[v] = 0
  BY <1>1
<1>10. WorkerInv'
  <2>1. ASSUME NEW v \in Windows
        PROVE  /\ alive'[v] <=> worker'[v] # "none"
               /\ worker'[v] \in Owning <=> owner' = v
               /\ active'[v] # None => worker'[v] \in {"selected", "running"}
               /\ cmds'[v] # <<>> => alive'[v]
               /\ worker'[v] \notin Owning => through'[v] = 0
    <3>1. CASE v \in W
      BY <1>1, <1>3, <1>9, <3>1 DEF Owning
    <3>2. CASE v \notin W
      <4>1. owner' = v <=> owner = v
        BY <1>1, <1>3, <3>2
      <4> QED BY <1>2, <1>8, <3>2, <4>1 DEF WorkerInv
    <3> QED BY <3>1, <3>2
  <2>2. run'.at # "idle" <=> owner' # None /\ worker'[owner'] = "running"
    <3>1. CASE owner \in W
      BY <1>1, <3>1 DEF NoRun
    <3>2. CASE owner \notin W
      BY <1>1, <1>2, <1>8, <3>2 DEF WorkerInv
    <3> QED BY <3>1, <3>2
  <2> QED BY <2>1, <2>2 DEF WorkerInv
<1>11. OwnerInv' /\ RunInv'
  <2>1. CASE owner \in W
    BY <1>1, <2>1 DEF OwnerInv, RunInv, NoRun, Active
  <2>2. CASE owner = None
    <3>1. run.at = "idle" /\ owner' = None /\ run' = run
      BY <1>1, <1>3, <2>2, NoOwner
    <3> QED BY <3>1 DEF OwnerInv, RunInv, Active
  <2>3. CASE owner \in Windows \ W
    <3>1. /\ owner' = owner /\ run' = run /\ disk' = disk /\ user'.started = user.started
          /\ worker'[owner] = worker[owner] /\ active'[owner] = active[owner]
          /\ through'[owner] = through[owner] /\ (cancel'[owner] <=> cancel[owner])
      BY <1>1, <1>5, <1>8, <2>3
    <3>2. QueuedJobs' = QueuedJobs /\ FirstQueued' = FirstQueued /\ Current' = Current
      BY <1>1, <3>1 DEF QueuedJobs, FirstQueued, Current
    <3>3. HasHead(owner)' <=> HasHead(owner)
      BY <1>1, <3>1, <3>2 DEF HasHead
    <3>4. OwnerInv'
      BY <1>1, <1>5, <3>1, <3>2, <3>3 DEF QueueInv, OwnerInv
    <3>5. RunInv'
      BY <1>1, <1>5, <3>1, <3>2 DEF QueueInv, RunInv
    <3> QED BY <3>4, <3>5
  <2> QED BY <1>2, <2>1, <2>2, <2>3
<1> QED BY <1>4, <1>6, <1>7, <1>10, <1>11 DEF QueueInv, TypeInv

----------------------------------------------------------------------------
(* The invariant *)

LEMMA QueueInitial == Init => QueueInv
<1> SUFFICES ASSUME Init PROVE QueueInv
  OBVIOUS
<1> DEFINE N == Len(Waiting)
           t == [j \in 1..Len(Waiting) |-> NewJob(Waiting[j], j)]
           s == [next |-> Len(Waiting) + 1, jobs |-> t]
<1>1. /\ N \in Nat /\ N <= MaxSequence /\ N <= MaxJobs
      /\ \A j \in 1..N : Waiting[j] \in Dests /\ j \in Ids
      /\ \A j, k \in 1..N : j # k => Waiting[j] # Waiting[k]
  BY QueueAssumption, Numbers DEF QueueAssumption
<1>2. /\ disk = s /\ synced = s /\ mem = s /\ owner = None /\ poisoned = FALSE /\ run = NoRun
      /\ cancel = [w \in Windows |-> FALSE] /\ journal = [a \in Attempts |-> "empty"]
      /\ staging = {} /\ output = [d \in Dests |-> Absent]
      /\ source = [d \in Dests |-> "reviewed"] /\ troubles = 0
      /\ cmds = [w \in Windows |-> <<>>] /\ alive = [w \in Windows |-> FALSE]
      /\ active = [w \in Windows |-> None] /\ worker = [w \in Windows |-> "none"]
      /\ through = [w \in Windows |-> 0] /\ sent = 0
      /\ user = [cancelled |-> {}, started |-> {}]
  BY DEF Init, QueueInit
<1>3. /\ DOMAIN t = 1..N /\ s.next = N + 1 /\ s.jobs = t
      /\ s = [next |-> s.next, jobs |-> s.jobs]
      /\ \A j \in 1..N :
           /\ t[j] \in Jobs /\ JobValid(t[j]) /\ t[j].dest = Waiting[j] /\ t[j].order = j
           /\ t[j].state = "queued" /\ Len(t[j].attempts) = 0
  BY <1>1, NewJobFacts
<1>4. t \in [1..N -> Jobs]
  <2>1. \A j \in 1..N : NewJob(Waiting[j], j) \in Jobs
    BY <1>1, NewJobFacts
  <2> QED BY <2>1
<1> HIDE DEF N, t, s
<1>5. Snapshot(s)
  <2>1. 1..N \subseteq Ids /\ N + 1 \in 1..(MaxSequence + 1)
    BY <1>1, Numbers
  <2> QED BY <1>3, <1>4, <2>1 DEF Snapshot
<1>6. Valid(s)
  <2>1. Cardinality(1..N) = N
    <3>1. N = 0 \/ 1 <= N
      BY <1>1
    <3>2. Cardinality(1..N) = IF 1 > N THEN 0 ELSE N - 1 + 1
      BY <1>1, FS_Interval
    <3> QED BY <1>1, <3>1, <3>2
  <2>2. \A j \in 1..N : j <= j /\ j < N + 1
    BY <1>1
  <2> QED BY <1>1, <1>3, <2>1, <2>2, ValidParts
<1>7. ReservedOnce(s)
  BY <1>1, <1>3 DEF ReservedOnce
<1>8. \A j \in Ids, n \in 1..MaxAttempts :
        /\ journal[<<j, n>>] = "empty"
        /\ \A d \in Dests : output[d] # <<j, n>>
  <2>1. \A j \in Ids, n \in 1..MaxAttempts : <<j, n>> \in Attempts /\ <<j, n>> # Absent
    BY Numbers DEF Attempts, Absent
  <2> QED BY <1>2, <2>1
<1>9. Evident(s, journal, output, user.cancelled)
  <2>1. \A j \in 1..N : JobEvident(j, t[j], journal, output, user.cancelled)
    BY <1>1, <1>3, <1>8 DEF JobEvident, Quiet
  <2> QED BY <1>3, <1>8, <2>1 DEF Evident, Quiet
<1>10. SoundQueue
  BY <1>2, <1>5, <1>6, <1>7, <1>9 DEF SoundQueue, Sound
<1>11. QueueTyped
  <2>1. NoRun \in [at : RunSteps, job : Ids \cup {0}, outcome : Outcomes]
    BY DEF NoRun, RunSteps, Outcomes
  <2>2. 0 \in 0..MaxTroubles
    BY Numbers
  <2> QED BY <1>2, <1>5, <2>1, <2>2 DEF QueueTyped
<1>12. WindowTyped
  <2>1. <<>> \in Seq(Commands(Ids))
    OBVIOUS
  <2>2. 0 \in 0..MaxSequence /\ 0 \in 0..MaxCommands
    BY Numbers, ControllerAssumption DEF ControllerAssumption
  <2>3. user \in [cancelled : SUBSET Ids, started : SUBSET (Ids \X Ids)]
    BY <1>2
  <2> QED BY <1>2, <2>1, <2>2, <2>3 DEF WindowTyped, WorkerSteps
<1>13. WorkerInv
  <2>1. run.at = "idle" /\ \A w \in Windows : owner # w
    BY <1>2, QueueAssumption DEF NoRun, QueueAssumption
  <2> QED BY <1>2, <2>1 DEF WorkerInv, Owning
<1>14. OwnerInv /\ RunInv
  BY <1>2 DEF OwnerInv, RunInv, NoRun, Active
<1> QED BY <1>10, <1>11, <1>12, <1>13, <1>14 DEF QueueInv, TypeInv

LEMMA QueueStutters == QueueInv /\ UNCHANGED vars => QueueInv'
<1> SUFFICES ASSUME QueueInv, UNCHANGED vars PROVE QueueInv'
  OBVIOUS
<1>1. /\ disk' = disk /\ synced' = synced /\ mem' = mem /\ poisoned' = poisoned
      /\ owner' = owner /\ run' = run /\ cancel' = cancel /\ troubles' = troubles
      /\ journal' = journal /\ staging' = staging /\ output' = output /\ source' = source
      /\ cmds' = cmds /\ alive' = alive /\ active' = active /\ worker' = worker
      /\ through' = through /\ sent' = sent /\ user' = user
  BY DEF vars, queueVars, storeVars, evidenceVars, windowVars
<1>2. QueueTyped' /\ WindowTyped' /\ SoundQueue'
  BY <1>1 DEF QueueInv, TypeInv, QueueTyped, WindowTyped, SoundQueue, Snapshot
<1>3. WorkerInv' /\ OwnerInv' /\ RunInv'
  BY <1>1 DEF QueueInv, WorkerInv, OwnerInv, RunInv, HasHead, FirstQueued, QueuedJobs, Current
<1> QED BY <1>2, <1>3 DEF QueueInv, TypeInv

LEMMA QueueStep == QueueInv /\ [Next]_vars => QueueInv'
<1> SUFFICES ASSUME QueueInv, [Next]_vars PROVE QueueInv'
  OBVIOUS
<1>1. CASE UNCHANGED vars
  BY <1>1, QueueStutters
<1>2. ASSUME NEW w \in Windows, WorkerStep(w) PROVE QueueInv'
  BY <1>2, OpensStep, LeaveStep, EnqueueStep, RetryStep, CancelStep, StartStep, PruneStep,
     RecoverStep, SelectStep, RunNextStep, WorkStep, AfterRunStep DEF WorkerStep
<1>3. ASSUME NEW w \in Windows, Killed(w) PROVE QueueInv'
  BY <1>3, DieStep DEF Killed
<1>4. ASSUME PowerLoss PROVE QueueInv'
  BY <1>4, DieStep DEF PowerLoss
<1>5. ASSUME NEW a \in Attempts, RepairUndo(a), UNCHANGED windowVars PROVE QueueInv'
  BY <1>5, RepairUndoStep
<1>6. ASSUME External, UNCHANGED windowVars PROVE QueueInv'
  BY <1>6, ExternalStep
<1> QED BY <1>1, <1>2, <1>3, <1>4, <1>5, <1>6, SendStep, CancelRunningStep DEF Next

LEMMA QueueInvariant == Spec => []QueueInv
BY QueueInitial, QueueStep, PTL DEF Spec

----------------------------------------------------------------------------
(* What holds of every behaviour *)

\* The queue's files, the journals, what is at the destinations and what each
\* worker thread knows keep the shapes durable.rs and queue.rs give them; a
\* worker owns the inbox for as long as it runs, and the directory lock while it
\* works on the queue.
THEOREM QueueTypeCorrect == Spec => []TypeOK
<1>1. QueueInv => TypeOK
  <2> SUFFICES ASSUME QueueInv PROVE TypeOK
    OBVIOUS
  <2>1. QueueTyped /\ WindowTyped /\ WorkerInv
    BY DEF QueueInv, TypeInv
  <2>2. IsSnapshot(disk) /\ IsSnapshot(synced) /\ IsSnapshot(mem)
    BY <2>1, SnapshotJobs DEF QueueTyped, IsSnapshot
  <2>3. \A w \in Windows : ToSet(cmds[w]) \subseteq Commands(Ids)
    <3> SUFFICES ASSUME NEW w \in Windows PROVE ToSet(cmds[w]) \subseteq Commands(Ids)
      OBVIOUS
    <3>1. cmds[w] \in Seq(Commands(Ids))
      BY <2>1 DEF WindowTyped
    <3> QED BY <3>1 DEF ToSet
  <2>4. troubles <= MaxTroubles /\ sent <= MaxCommands
    BY <2>1, Numbers, ControllerAssumption DEF QueueTyped, WindowTyped, ControllerAssumption
  <2>5. \A w \in Windows :
          /\ alive[w] <=> worker[w] # "none"
          /\ worker[w] \in {"loop", "selected", "running"} <=> owner = w
          /\ active[w] # None => worker[w] \in {"selected", "running"}
    BY <2>1 DEF WorkerInv, Owning
  <2>6. run.at # "idle" <=> owner # None /\ worker[owner] = "running"
    BY <2>1 DEF WorkerInv
  <2>7. run.job \in Ids \cup {0}
        /\ run.at \in {"idle", "converting", "announced", "published", "undoing",
                       "settling", "returned"}
    BY <2>1 DEF QueueTyped, RunSteps
  <2> QED BY <2>1, <2>2, <2>3, <2>4, <2>5, <2>6, <2>7 DEF TypeOK, QueueTyped, WindowTyped
<1> QED BY <1>1, QueueInvariant, PTL

\* However the windows, other programs, crashes and power losses interleave, an
\* output the queue put at a destination is that of the last attempt the durable
\* file records, or of a job whose row was pruned (durable.rs:475).
THEOREM PublicationIsRecordedCorrect == Spec => []PublicationIsRecorded
<1>1. QueueInv => PublicationIsRecorded
  <2> SUFFICES ASSUME QueueInv, NEW a \in Attempts, NEW d \in Dests, output[d] = a
               PROVE  IF a[1] \in DOMAIN synced.jobs
                      THEN a[2] = Len(synced.jobs[a[1]].attempts)
                      ELSE a[1] < synced.next
    BY DEF PublicationIsRecorded
  <2>1. Evident(synced, journal, output, user.cancelled) /\ Snapshot(synced)
    BY DEF QueueInv, SoundQueue, Sound
  <2>2. PICK j \in Ids, n \in 1..MaxAttempts : a = <<j, n>>
    BY DEF Attempts
  <2>3. CASE j \in DOMAIN synced.jobs
    <3>1. n = Len(synced.jobs[j].attempts)
      BY <2>1, <2>2, <2>3 DEF Evident, JobEvident
    <3> QED BY <2>2, <2>3, <3>1
  <2>4. CASE j \notin DOMAIN synced.jobs
    <3>1. ~(j >= synced.next)
      BY <2>1, <2>2 DEF Evident
    <3>2. synced.next \in 1..(MaxSequence + 1)
      BY <2>1, SnapshotJobs
    <3> QED BY <2>2, <2>4, <3>1, <3>2, Numbers
  <2> QED BY <2>3, <2>4
<1> QED BY <1>1, QueueInvariant, PTL

\* A job that is retried after crashes and Undos, on any number of windows, has at
\* most one publication that is not rolled back (durable.rs:325, 408).
THEOREM OnePublicationCorrect == Spec => []OnePublication
<1>1. QueueInv => OnePublication
  <2> SUFFICES ASSUME QueueInv, NEW j \in Ids, NEW m \in 1..MaxAttempts,
                      NEW n \in 1..MaxAttempts, m # n
               PROVE  Quiet(journal, j, m) \/ Quiet(journal, j, n)
    BY DEF OnePublication, Quiet
  <2>1. Evident(disk, journal, output, user.cancelled) /\ Snapshot(disk)
    BY DEF QueueInv, SoundQueue, Sound
  <2>2. CASE j \in DOMAIN disk.jobs
    <3>1. /\ JobEvident(j, disk.jobs[j], journal, output, user.cancelled)
          /\ Len(disk.jobs[j].attempts) \in 0..MaxAttempts
      BY <2>1, <2>2, SnapshotJobs, JobTyped DEF Evident
    <3>2. \/ m > Len(disk.jobs[j].attempts) \/ m < Len(disk.jobs[j].attempts)
          \/ n > Len(disk.jobs[j].attempts) \/ n < Len(disk.jobs[j].attempts)
      BY <3>1, Numbers
    <3> QED BY <3>1, <3>2 DEF JobEvident, Quiet
  <2>3. CASE j \notin DOMAIN disk.jobs
    BY <2>1, <2>3 DEF Evident
  <2> QED BY <2>2, <2>3
<1> QED BY <1>1, QueueInvariant, PTL

\* No enqueue, retry or recovery gives two jobs whose work is not over the same
\* destination, also when a power loss brings the last durable file back
\* (durable.rs:631).
THEOREM DestinationsReservedCorrect == Spec => []DestinationsReserved
<1>1. QueueInv => DestinationsReserved
  BY DEF QueueInv, SoundQueue, Sound, ReservedOnce, Over, DestinationsReserved
<1> QED BY <1>1, QueueInvariant, PTL

\* A job is reported cancelled only to a user who cancelled that job, with nothing
\* of it published or in doubt, and completed only when its publication was
\* confirmed (queue.rs:86, durable.rs:538).
THEOREM OutcomesAreTrueCorrect == Spec => []OutcomesAreTrue
<1>1. QueueInv => OutcomesAreTrue
  <2> SUFFICES ASSUME QueueInv, NEW j \in DOMAIN disk.jobs
               PROVE  LET job == disk.jobs[j] IN
                      /\ job.state = "cancelled" =>
                           /\ j \in user.cancelled
                           /\ \A n \in 1..Len(job.attempts) : Quiet(journal, j, n)
                      /\ job.state = "completed" =>
                           journal[<<j, Len(job.attempts)>>] \in {"applied", "rolledback"}
    BY DEF OutcomesAreTrue, Quiet
  <2>1. /\ JobEvident(j, disk.jobs[j], journal, output, user.cancelled)
        /\ Len(disk.jobs[j].attempts) \in 0..MaxAttempts
    BY SnapshotJobs, JobTyped DEF QueueInv, SoundQueue, Sound, Evident
  <2>2. \A n \in 1..Len(disk.jobs[j].attempts) : n \in 1..MaxAttempts
    BY <2>1, Numbers
  <2> QED BY <2>1, <2>2 DEF JobEvident
<1> QED BY <1>1, QueueInvariant, PTL

\* Any command, error, crash or power loss leaves a file that inspect accepts, so
\* that a restart can open the queue (durable.rs:701).
THEOREM RestartReadsCorrect == Spec => []RestartReads
<1>1. QueueInv => RestartReads
  BY DEF QueueInv, SoundQueue, Sound, RestartReads
<1> QED BY <1>1, QueueInvariant, PTL

\* No command is left in an inbox that no worker owns: a command is sent, and an
\* inbox given up, under the inbox lock (queue.rs:357).
THEOREM NoLostCommandCorrect == Spec => []NoLostCommand
<1>1. QueueInv => NoLostCommand
  BY DEF QueueInv, WorkerInv, NoLostCommand
<1> QED BY <1>1, QueueInvariant, PTL

\* The converter is started only on a job that the last Start of this session saw
\* queued, at the place in the queue it saw it at: what is queued since, or retried,
\* waits for another Start, and so does everything after a restart (queue.rs:170).
THEOREM OnlyWhatWasStartedCorrect == Spec => OnlyWhatWasStarted
<1> DEFINE Starts == run'.at = "converting" /\ run.at # "converting"
           Was == <<run'.job, mem.jobs[run'.job].order>> \in user.started
<1>1. ASSUME QueueInv, [Next]_vars, Starts PROVE Was
  <2>1. CASE UNCHANGED vars
    BY <1>1, <2>1 DEF vars, queueVars
  <2>2. ASSUME NEW w \in Windows, RunNext(w) PROVE Was
    <3>1. worker[w] = "selected" /\ worker[w] \in Owning
      BY <2>2 DEF RunNext, Owning
    <3>2. PICK result \in Results : RunBegins(w, result)
      BY <2>2 DEF RunNext
    <3>3. run'.at = "converting" => run'.job = FirstQueued
      <4>1. ASSUME NEW j, Returned(j, result) PROVE run'.at = "returned"
        BY <4>1 DEF Returned
      <4>2. RunError(w) => run'.at = "returned"
        BY DEF RunError, NoRun
      <4>3. RunCancelled(w, result) \/ RunBlocked(w, result) \/ RunReview(w, result)
              \/ RunUnprepared(w, result) => run'.at = "returned"
        BY <4>1 DEF RunCancelled, RunBlocked, RunReview, RunUnprepared, RunSettles
      <4>4. CASE RunStarts(w, result)
        <5>1. CASE result = "ok"
          BY <4>4, <5>1 DEF RunStarts
        <5>2. CASE result # "ok"
          BY <4>1, <4>4, <5>2 DEF RunStarts
        <5> QED BY <5>1, <5>2
      <4> QED BY <3>2, <4>2, <4>3, <4>4 DEF RunBegins
    <3>4. owner = w /\ owner # None /\ Snapshot(mem)
          /\ \A j \in QueuedJobs : mem.jobs[j].order <= through[w] =>
               <<j, mem.jobs[j].order>> \in user.started
      BY <1>1, <3>1, Owner DEF Sound
    <3>5. HasHead(w)
      BY <1>1, <3>1, <3>4 DEF QueueInv, OwnerInv
    <3>6. FirstQueued \in QueuedJobs
      BY <3>4, <3>5, FirstIsQueued DEF HasHead
    <3> QED BY <1>1, <3>3, <3>4, <3>5, <3>6 DEF HasHead
  <2>3. ASSUME NEW w \in Windows, Work(w) PROVE Was
    <3>1. run \in [at : RunSteps, job : Ids \cup {0}, outcome : Outcomes]
      BY <1>1 DEF QueueInv, TypeInv, QueueTyped
    <3>2. run'.at # "converting"
      <4>1. ConvertStops(w) => run'.at = "settling"
        BY <3>1 DEF ConvertStops, Ends
      <4>2. Announce(w) => run'.at = "announced"
        BY <3>1 DEF Announce
      <4>3. Publish => run'.at = "published"
        BY <3>1 DEF Publish
      <4>4. Confirm \/ RollBack => run'.at = "settling"
        BY <3>1 DEF Confirm, RollBack
      <4>5. PublicationFails(w) => run'.at = "undoing"
        BY <3>1 DEF PublicationFails
      <4>6. \A result \in Results :
              CheckpointFails(w, result) \/ Settle(w, result) => run'.at = "returned"
        BY DEF CheckpointFails, Settle, Returned
      <4> QED BY <2>3, <4>1, <4>2, <4>3, <4>4, <4>5, <4>6 DEF Work
    <3> QED BY <1>1, <3>2
  <2>4. ASSUME run' = run \/ run' = NoRun PROVE Was
    BY <1>1, <2>4 DEF NoRun
  <2>5. ASSUME NEW w \in Windows, WorkerStep(w) PROVE Was
    <3>1. CASE WorkerOpens(w)
      BY <2>4, <3>1 DEF WorkerOpens, Open, queueVars
    <3>2. CASE WorkerLeaves(w)
      BY <2>4, <3>2 DEF WorkerLeaves, Drop
    <3>3. CASE DoEnqueue(w) \/ DoRetry(w) \/ DoCancel(w) \/ DoPrune(w)
      <4>1. run' = run
        BY <3>3 DEF DoEnqueue, DoRetry, DoCancel, DoPrune, Enqueue, Retry, CancelQueued,
                    Prune, Unrun, Refused, queueVars
      <4> QED BY <2>4, <4>1
    <3>4. CASE DoStart(w) \/ DoRecover(w) \/ Select(w)
      BY <2>4, <3>4 DEF DoStart, DoRecover, Select, queueVars
    <3>5. CASE AfterRun(w)
      BY <2>4, <3>5 DEF AfterRun
    <3> QED BY <2>2, <2>3, <2>5, <3>1, <3>2, <3>3, <3>4, <3>5 DEF WorkerStep
  <2>6. ASSUME NEW w \in Windows, Send(w) \/ CancelRunning(w) PROVE Was
    BY <2>4, <2>6 DEF Send, CancelRunning, queueVars
  <2>7. ASSUME (\E w \in Windows : Killed(w)) \/ PowerLoss PROVE Was
    BY <2>4, <2>7 DEF Killed, PowerLoss, Die
  <2>8. ASSUME External \/ (\E a \in Attempts : RepairUndo(a)) PROVE Was
    BY <2>4, <2>8 DEF External, RepairUndo
  <2> QED BY <1>1, <2>1, <2>5, <2>6, <2>7, <2>8 DEF Next
<1>2. QueueInv /\ [Next]_vars => [Starts => Was]_vars
  BY <1>1
<1> QED BY <1>2, QueueInvariant, PTL DEF Spec, OnlyWhatWasStarted

----------------------------------------------------------------------------
(* What a step does to the evidence *)

\* Going from one snapshot to another forgets or reopens no recorded attempt, and
\* drops no job with a publication in doubt.
KeepsAttempts(old, new) ==
  /\ Len(old) <= Len(new)
  /\ \A n \in 1..Len(old) : old[n] = "running" \/ new[n] = old[n]

KeepsEvidence(s, t) ==
  \A j \in DOMAIN s.jobs :
    IF j \in DOMAIN t.jobs
    THEN KeepsAttempts(s.jobs[j].attempts, t.jobs[j].attempts)
    ELSE \A n \in 1..Len(s.jobs[j].attempts) :
           \/ Quiet(journal, j, n)
           \/ journal[<<j, n>>] = "applied" /\ s.jobs[j].attempts[n] = "completed"

LEMMA SameAttempts ==
  ASSUME NEW job \in Jobs
  PROVE  KeepsAttempts(job.attempts, job.attempts)
BY JobTyped, Numbers DEF KeepsAttempts

LEMMA MovedKeeps ==
  ASSUME NEW job \in Jobs, JobValid(job),
         NEW st \in JobStates \ {"queued", "running"}, NEW r \in Dispositions,
         job.state = "running" => st # "blocked_input_missing"
  PROVE  KeepsAttempts(job.attempts, Moved(job, st, r).attempts)
<1>1. Len(job.attempts) \in 0..MaxAttempts
  BY JobTyped
<1>2. /\ Len(Moved(job, st, r).attempts) = Len(job.attempts)
      /\ \A n \in 1..Len(job.attempts) :
           job.attempts[n] # "running" => Moved(job, st, r).attempts[n] = job.attempts[n]
  BY MovedFacts
<1> QED BY <1>1, <1>2, Numbers DEF KeepsAttempts

\* Replacing one job by one that keeps its attempts.
LEMMA PutKeeps ==
  ASSUME Snapshot(mem), NEW j \in DOMAIN mem.jobs, NEW job, NEW next,
         KeepsAttempts(mem.jobs[j].attempts, job.attempts)
  PROVE  KeepsEvidence(mem, [next |-> next, jobs |-> [mem.jobs EXCEPT ![j] = job]])
<1> DEFINE t == [mem.jobs EXCEPT ![j] = job]
<1>1. /\ DOMAIN t = DOMAIN mem.jobs /\ t[j] = job
      /\ \A k \in DOMAIN mem.jobs : k # j => t[k] = mem.jobs[k]
  BY DEF Snapshot
<1>2. \A k \in DOMAIN mem.jobs : KeepsAttempts(mem.jobs[k].attempts, t[k].attempts)
  BY <1>1, SnapshotJobs, SameAttempts
<1> HIDE DEF t
<1>3. KeepsEvidence(mem, [next |-> next, jobs |-> t])
  BY <1>1, <1>2 DEF KeepsEvidence
<1> QED BY <1>3 DEF t

LEMMA MovedInMemKeeps ==
  ASSUME Snapshot(mem), Valid(mem), NEW j \in DOMAIN mem.jobs,
         NEW st \in JobStates \ {"queued", "running"}, NEW r \in Dispositions,
         mem.jobs[j].state = "running" => st # "blocked_input_missing"
  PROVE  KeepsEvidence(mem, Put(j, Moved(mem.jobs[j], st, r)))
<1> DEFINE moved == Moved(mem.jobs[j], st, r)
<1>1. KeepsAttempts(mem.jobs[j].attempts, moved.attempts)
  BY SnapshotJobs, ValidParts, MovedKeeps
<1> HIDE DEF moved
<1>2. KeepsEvidence(mem, [next |-> mem.next, jobs |-> [mem.jobs EXCEPT ![j] = moved]])
  BY <1>1, PutKeeps
<1>3. Put(j, moved) = [next |-> mem.next, jobs |-> [mem.jobs EXCEPT ![j] = moved]]
  BY PutIs
<1>4. KeepsEvidence(mem, Put(j, moved))
  BY <1>2, <1>3
<1> QED BY <1>4 DEF moved

\* A commit puts what keeps the evidence in the place of the owner's snapshot, or
\* leaves the file.
LEMMA CommitKeeps ==
  ASSUME NEW next, NEW result, Commit(next, result), KeepsEvidence(mem, next)
  PROVE  disk' = disk \/ KeepsEvidence(disk, disk')
BY DEF Commit

\* EvidenceKept of one step.
FileKept == disk' = disk \/ KeepsEvidence(disk, disk')

\* The owner's snapshot, as its steps find it.
LEMMA OwnersMem ==
  ASSUME QueueInv, NEW w \in Windows, worker[w] \in Owning
  PROVE  /\ Snapshot(mem) /\ Valid(mem) /\ Evident(mem, journal, output, user.cancelled)
         /\ mem = [next |-> mem.next, jobs |-> mem.jobs]
         /\ mem.next \in 1..(MaxSequence + 1) /\ DOMAIN mem.jobs \subseteq Ids
         /\ \A j \in DOMAIN mem.jobs :
              /\ mem.jobs[j] \in Jobs /\ JobValid(mem.jobs[j])
              /\ mem.jobs[j].order \in Ids /\ mem.jobs[j].order < mem.next
              /\ j <= mem.jobs[j].order
BY Owner, SnapshotJobs, ValidParts, JobTyped DEF Sound, Snapshot

LEMMA CommandsKeep ==
  ASSUME QueueInv, NEW w \in Windows,
         DoEnqueue(w) \/ DoRetry(w) \/ DoCancel(w) \/ DoPrune(w)
  PROVE  FileKept
<1>1. worker[w] = "loop" /\ worker[w] \in Owning
  BY DEF DoEnqueue, DoRetry, DoCancel, DoPrune, Taken, Owning
<1>2. /\ Snapshot(mem) /\ Valid(mem) /\ Evident(mem, journal, output, user.cancelled)
      /\ mem = [next |-> mem.next, jobs |-> mem.jobs]
      /\ mem.next \in 1..(MaxSequence + 1) /\ DOMAIN mem.jobs \subseteq Ids
      /\ \A j \in DOMAIN mem.jobs :
           /\ mem.jobs[j] \in Jobs /\ JobValid(mem.jobs[j])
           /\ mem.jobs[j].order \in Ids /\ mem.jobs[j].order < mem.next
           /\ j <= mem.jobs[j].order
  BY <1>1, OwnersMem
<1>3. ASSUME Refused(w) PROVE FileKept
  BY <1>3 DEF Refused, queueVars, storeVars, FileKept
<1>4. ASSUME NEW d, NEW result, Enqueue(d, result) PROVE FileKept
  <2> DEFINE next == [next |-> mem.next + 1,
                      jobs |-> [j \in DOMAIN mem.jobs \cup {mem.next} |->
                        IF j = mem.next THEN NewJob(d, j) ELSE mem.jobs[j]]]
  <2>1. Commit(next, result)
    BY <1>4 DEF Enqueue
  <2>2. \A j \in DOMAIN mem.jobs : j # mem.next
    BY <1>2, Numbers
  <2>3. \A j \in DOMAIN mem.jobs : j \in DOMAIN next.jobs /\ next.jobs[j] = mem.jobs[j]
    BY <2>2
  <2> HIDE DEF next
  <2>4. KeepsEvidence(mem, next)
    BY <1>2, <2>3, SameAttempts DEF KeepsEvidence
  <2> QED BY <2>1, <2>4, CommitKeeps DEF FileKept
<1>5. ASSUME NEW j, NEW result, Retry(j, result) PROVE FileKept
  <2>1. j \in DOMAIN mem.jobs /\ mem.jobs[j].state # "running"
    BY <1>5 DEF Retry, MayRetry, Retryable
  <2>2. ASSUME NEW s \in Blocked(j), Commit(Put(j, Moved(mem.jobs[j], s, "restart")), result)
        PROVE  FileKept
    <3>1. s \in JobStates \ {"queued", "running"} /\ "restart" \in Dispositions
      BY BlockedStates DEF Dispositions
    <3>2. KeepsEvidence(mem, Put(j, Moved(mem.jobs[j], s, "restart")))
      BY <1>2, <2>1, <3>1, MovedInMemKeeps
    <3> QED BY <2>2, <3>2, CommitKeeps DEF FileKept
  <2>3. ASSUME Commit(Requeued(j), result) PROVE FileKept
    <3> DEFINE behind == [mem.jobs[j] EXCEPT !.order = mem.next, !.state = "queued",
                                             !.retry = "none"]
    <3>1. behind.attempts = mem.jobs[j].attempts
      BY <1>2, <2>1 DEF Jobs
    <3>2. KeepsAttempts(mem.jobs[j].attempts, behind.attempts)
      BY <1>2, <2>1, <3>1, SameAttempts
    <3> HIDE DEF behind
    <3>3. KeepsEvidence(mem, [next |-> mem.next + 1, jobs |-> [mem.jobs EXCEPT ![j] = behind]])
      BY <1>2, <2>1, <3>2, PutKeeps
    <3>4. KeepsEvidence(mem, Requeued(j))
      BY <3>3 DEF Requeued, behind
    <3> QED BY <2>3, <3>4, CommitKeeps DEF FileKept
  <2> QED BY <1>5, <2>2, <2>3 DEF Retry
<1>6. ASSUME NEW j, NEW result, CancelQueued(j, result) PROVE FileKept
  <2>1. /\ j \in DOMAIN mem.jobs /\ mem.jobs[j].state # "running"
        /\ Commit(Put(j, Moved(mem.jobs[j], "cancelled", "none")), result)
        /\ "cancelled" \in JobStates \ {"queued", "running"} /\ "none" \in Dispositions
    BY <1>6 DEF CancelQueued, MayCancel, JobStates, Dispositions
  <2>2. KeepsEvidence(mem, Put(j, Moved(mem.jobs[j], "cancelled", "none")))
    BY <1>2, <2>1, MovedInMemKeeps
  <2> QED BY <2>1, <2>2, CommitKeeps DEF FileKept
<1>7. ASSUME NEW result, Prune(result) PROVE FileKept
  <2>1. CASE Kept = DOMAIN mem.jobs
    BY <1>7, <2>1 DEF Prune, storeVars, FileKept
  <2>2. CASE Kept # DOMAIN mem.jobs
    <3> DEFINE next == [mem EXCEPT !.jobs = [j \in Kept |-> mem.jobs[j]]]
    <3>1. Commit(next, result)
      BY <1>7, <2>2 DEF Prune
    <3>2. /\ DOMAIN next.jobs = Kept /\ Kept \subseteq DOMAIN mem.jobs
          /\ \A j \in Kept : next.jobs[j] = mem.jobs[j]
      BY <1>2 DEF Kept
    <3> HIDE DEF next
    <3>3. ASSUME NEW j \in DOMAIN mem.jobs \ Kept, NEW n \in 1..Len(mem.jobs[j].attempts)
          PROVE  \/ Quiet(journal, j, n)
                 \/ journal[<<j, n>>] = "applied" /\ mem.jobs[j].attempts[n] = "completed"
      <4>1. /\ Prunable(mem.jobs[j]) /\ Len(mem.jobs[j].attempts) \in 0..MaxAttempts
            /\ JobEvident(j, mem.jobs[j], journal, output, user.cancelled)
        BY <1>2, JobTyped DEF Kept, Evident
      <4>2. n \in 1..MaxAttempts
        BY <4>1, Numbers
      <4>3. CASE mem.jobs[j].state = "cancelled"
        BY <4>1, <4>2, <4>3 DEF JobEvident
      <4>4. CASE mem.jobs[j].state = "completed" /\ n < Len(mem.jobs[j].attempts)
        BY <4>1, <4>2, <4>4 DEF JobEvident
      <4>5. CASE mem.jobs[j].state = "completed" /\ n = Len(mem.jobs[j].attempts)
        BY <4>1, <4>5 DEF JobEvident, Quiet
      <4>6. mem.jobs[j].state = "cancelled" \/ mem.jobs[j].state = "completed"
        BY <4>1 DEF Prunable
      <4>7. n < Len(mem.jobs[j].attempts) \/ n = Len(mem.jobs[j].attempts)
        BY <4>1
      <4> QED BY <4>3, <4>4, <4>5, <4>6, <4>7
    <3>4. KeepsEvidence(mem, next)
      BY <1>2, <3>2, <3>3, SameAttempts DEF KeepsEvidence
    <3> QED BY <3>1, <3>4, CommitKeeps DEF FileKept
  <2> QED BY <2>1, <2>2
<1> QED BY <1>3, <1>4, <1>5, <1>6, <1>7 DEF DoEnqueue, DoRetry, DoCancel, DoPrune

LEMMA OpenKeeps ==
  ASSUME QueueInv, NEW w, NEW result, Open(w, result)
  PROVE  FileKept
<1>1. Snapshot(disk) /\ Valid(disk)
  BY DEF QueueInv, SoundQueue, Sound
<1>2. disk' = disk \/ disk' = Recovered(disk)
  BY DEF Open
<1> DEFINE t == [j \in DOMAIN disk.jobs |->
                   IF j \in Abandoned(disk)
                   THEN Moved(disk.jobs[j], "interrupted", Disposition(j, disk.jobs[j]))
                   ELSE disk.jobs[j]]
<1>3. Recovered(disk).jobs = t
  BY <1>1 DEF Recovered, Snapshot
<1>4. ASSUME NEW j \in DOMAIN disk.jobs
      PROVE  KeepsAttempts(disk.jobs[j].attempts, t[j].attempts)
  <2>1. disk.jobs[j] \in Jobs /\ JobValid(disk.jobs[j])
    BY <1>1, SnapshotJobs, ValidParts
  <2>2. CASE j \in Abandoned(disk)
    <3>1. "interrupted" \in JobStates \ {"queued", "running"}
          /\ Disposition(j, disk.jobs[j]) \in Dispositions
      BY DEF JobStates, Disposition, Dispositions
    <3>2. KeepsAttempts(disk.jobs[j].attempts,
             Moved(disk.jobs[j], "interrupted", Disposition(j, disk.jobs[j])).attempts)
      BY <2>1, <3>1, MovedKeeps
    <3> QED BY <2>2, <3>2
  <2>3. CASE j \notin Abandoned(disk)
    BY <2>1, <2>3, SameAttempts
  <2> QED BY <2>2, <2>3
<1>5. DOMAIN t = DOMAIN disk.jobs
  OBVIOUS
<1> HIDE DEF t
<1>6. KeepsEvidence(disk, Recovered(disk))
  BY <1>3, <1>4, <1>5 DEF KeepsEvidence
<1> QED BY <1>2, <1>6 DEF FileKept

LEMMA RunKeeps ==
  ASSUME QueueInv, NEW w \in Windows, RunNext(w) \/ Work(w)
  PROVE  FileKept
<1>1. worker[w] \in Owning
  BY DEF RunNext, Work, Owning
<1>2. /\ Snapshot(mem) /\ Valid(mem)
      /\ \A j \in DOMAIN mem.jobs : mem.jobs[j] \in Jobs /\ JobValid(mem.jobs[j])
  BY <1>1, OwnersMem
<1>3. ASSUME disk' = disk PROVE FileKept
  BY <1>3 DEF FileKept
<1>4. ASSUME RunNext(w) PROVE FileKept
  <2>1. worker[w] = "selected" /\ owner = w /\ owner # None
    BY <1>1, <1>4, Owner DEF RunNext
  <2>2. FirstQueued \in DOMAIN mem.jobs /\ mem.jobs[FirstQueued].state = "queued"
    <3>1. QueuedJobs # {}
      BY <2>1 DEF QueueInv, OwnerInv, HasHead
    <3> QED BY <1>2, <3>1, FirstIsQueued DEF QueuedJobs
  <2>3. PICK result \in Results : RunBegins(w, result)
    BY <1>4 DEF RunNext
  <2>4. CASE RunError(w)
    BY <1>3, <2>4 DEF RunError, storeVars
  <2>5. ASSUME NEW s \in JobStates \ {"queued", "running"}, NEW r \in Dispositions,
               RunSettles(FirstQueued, s, r, result)
        PROVE  FileKept
    <3>1. KeepsEvidence(mem, Put(FirstQueued, Moved(mem.jobs[FirstQueued], s, r)))
      BY <1>2, <2>2, MovedInMemKeeps
    <3>2. Commit(Put(FirstQueued, Moved(mem.jobs[FirstQueued], s, r)), result)
      BY <2>5 DEF RunSettles
    <3> QED BY <3>1, <3>2, CommitKeeps DEF FileKept
  <2>6. /\ {"cancelled", "failed"} \subseteq JobStates \ {"queued", "running"}
        /\ {"none", "restart", "review"} \subseteq Dispositions
    BY DEF JobStates, Dispositions
  <2>7. CASE RunCancelled(w, result)
    BY <2>5, <2>6, <2>7 DEF RunCancelled
  <2>8. CASE RunBlocked(w, result)
    BY <2>5, <2>6, <2>8, BlockedStates DEF RunBlocked
  <2>9. CASE RunReview(w, result) \/ RunUnprepared(w, result)
    BY <2>5, <2>6, <2>9 DEF RunReview, RunUnprepared
  <2>10. CASE RunStarts(w, result)
    <3> DEFINE j == FirstQueued
               tried == Attempted(mem.jobs[j])
    <3>1. Commit(Put(j, tried), result) /\ Len(mem.jobs[j].attempts) < MaxAttempts
      BY <2>10 DEF RunStarts
    <3>2. /\ Len(tried.attempts) = Len(mem.jobs[j].attempts) + 1
          /\ \A n \in 1..Len(mem.jobs[j].attempts) :
               tried.attempts[n] = mem.jobs[j].attempts[n]
          /\ Len(mem.jobs[j].attempts) \in 0..MaxAttempts
      BY <1>2, <2>2, <3>1, AttemptedFacts, JobTyped
    <3>3. KeepsAttempts(mem.jobs[j].attempts, tried.attempts)
      BY <3>2, Numbers DEF KeepsAttempts
    <3> HIDE DEF tried, j
    <3>4. KeepsEvidence(mem, [next |-> mem.next, jobs |-> [mem.jobs EXCEPT ![j] = tried]])
      BY <1>2, <2>2, <3>3, PutKeeps DEF j
    <3>5. Put(j, tried) = [next |-> mem.next, jobs |-> [mem.jobs EXCEPT ![j] = tried]]
      BY <1>2, PutIs
    <3>6. KeepsEvidence(mem, Put(j, tried))
      BY <3>4, <3>5
    <3> QED BY <3>1, <3>6, CommitKeeps DEF FileKept
  <2> QED BY <2>3, <2>4, <2>7, <2>8, <2>9, <2>10 DEF RunBegins
<1>5. ASSUME Work(w) PROVE FileKept
  <2>1. worker[w] = "running"
    BY <1>5 DEF Work
  <2>2. CASE ConvertStops(w) \/ Announce(w) \/ Publish \/ Confirm \/ PublicationFails(w)
             \/ RollBack
    BY <1>3, <2>2 DEF ConvertStops, Ends, Announce, Publish, Confirm, PublicationFails,
                      RollBack, storeVars
  <2>3. ASSUME NEW result \in Results, CheckpointFails(w, result) PROVE FileKept
    <3>1. Commit(mem, result)
      BY <2>3 DEF CheckpointFails
    <3>2. KeepsEvidence(mem, mem)
      BY <1>2, SameAttempts DEF KeepsEvidence
    <3> QED BY <3>1, <3>2, CommitKeeps DEF FileKept
  <2>4. ASSUME NEW result \in Results, Settle(w, result) PROVE FileKept
    <3> DEFINE job == mem.jobs[run.job]
               r == IF run.outcome = "completed" THEN "none" ELSE Disposition(run.job, job)
               st == Settled(w, r)
    <3>1. run.at = "settling" /\ Commit(Put(run.job, Moved(job, st, r)), result)
      BY <2>4 DEF Settle
    <3>2. run.at \in Active
      BY <3>1 DEF Active, RunSteps
    <3>3. run.outcome \in {"completed", "cancelled", "stale", "failed", "transaction"}
      BY <3>1, <3>2 DEF QueueInv, RunInv
    <3>4. run.job \in DOMAIN mem.jobs
      BY <2>1, <3>2, Running
    <3>5. r \in Dispositions
      BY DEF Disposition, Dispositions
    <3>6. st \in JobStates \ {"queued", "running"} /\ st # "blocked_input_missing"
      BY <3>3 DEF Settled, JobStates
    <3> HIDE DEF r, st
    <3>7. KeepsEvidence(mem, Put(run.job, Moved(job, st, r)))
      BY <1>2, <3>4, <3>5, <3>6, MovedInMemKeeps
    <3> QED BY <3>1, <3>7, CommitKeeps DEF FileKept
  <2> QED BY <1>5, <2>2, <2>3, <2>4 DEF Work
<1> QED BY <1>4, <1>5

\* Short of a power loss that brings the last durable file back, no step forgets or
\* reopens a recorded attempt, and no row that is pruned leaves a publication in
\* doubt (durable.rs:575).
THEOREM EvidenceKeptCorrect == Spec => EvidenceKept
<1> DEFINE Keeps == disk' # synced => KeepsEvidence(disk, disk')
<1>1. ASSUME QueueInv, [Next]_vars PROVE [Keeps]_disk
  <2>1. FileKept => [Keeps]_disk
    BY DEF FileKept
  <2>2. disk' = disk => [Keeps]_disk
    OBVIOUS
  <2> HIDE DEF Keeps
  <2>3. CASE UNCHANGED vars
    BY <2>2, <2>3 DEF vars, queueVars, storeVars
  <2>4. ASSUME NEW w \in Windows, WorkerStep(w) PROVE [Keeps]_disk
    <3>1. CASE WorkerOpens(w)
      BY <1>1, <2>1, <2>2, <3>1, OpenKeeps DEF WorkerOpens, queueVars, storeVars
    <3>2. CASE DoEnqueue(w) \/ DoRetry(w) \/ DoCancel(w) \/ DoPrune(w)
      BY <1>1, <2>1, <3>2, CommandsKeep
    <3>3. CASE RunNext(w) \/ Work(w)
      BY <1>1, <2>1, <3>3, RunKeeps
    <3>4. CASE WorkerLeaves(w) \/ DoStart(w) \/ DoRecover(w) \/ Select(w) \/ AfterRun(w)
      BY <2>2, <3>4 DEF WorkerLeaves, Drop, DoStart, DoRecover, Select, AfterRun, queueVars,
                        storeVars
    <3> QED BY <2>4, <3>1, <3>2, <3>3, <3>4 DEF WorkerStep
  <2>5. ASSUME NEW w \in Windows, Send(w) \/ CancelRunning(w) \/ Killed(w) PROVE [Keeps]_disk
    BY <2>2, <2>5 DEF Send, CancelRunning, Killed, queueVars, storeVars
  <2>6. ASSUME PowerLoss PROVE [Keeps]_disk
    BY <2>6 DEF PowerLoss, Keeps
  <2>7. ASSUME External \/ (\E a \in Attempts : RepairUndo(a)) PROVE [Keeps]_disk
    BY <2>2, <2>7 DEF External, RepairUndo, storeVars
  <2> QED BY <1>1, <2>3, <2>4, <2>5, <2>6, <2>7 DEF Next
<1>2. QueueInv /\ [Next]_vars => [Keeps]_disk
  BY <1>1
<1>3. Spec => [][Keeps]_disk
  <2> HIDE DEF Keeps
  <2> QED BY <1>2, QueueInvariant, PTL DEF Spec
<1>4. EvidenceKept <=> [][Keeps]_disk
  BY DEF EvidenceKept, KeepsEvidence, KeepsAttempts, Quiet
<1> QED BY <1>3, <1>4
=============================================================================
