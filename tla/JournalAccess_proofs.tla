------------------------ MODULE JournalAccess_proofs ------------------------
(***************************************************************************)
(* Proofs about JournalAccess, for every set of threads, assignment of     *)
(* them to processes and pages, and every bound: types, and that a         *)
(* recovery excludes operations; then, for threads that write one after    *)
(* the other, that an honest journal is never refused by its own seal,     *)
(* confirmed journal writes are kept, and an Undo replaces only the        *)
(* journal it judged.                                                      *)
(***************************************************************************)
EXTENDS JournalAccessInductive, TLAPS

\* The part of TypeOK about the threads and their guards.
ControlTypes ==
  /\ live \in Holders /\ reconciling \in Holders /\ undoing \in Holders
  /\ task \in [Threads -> Tasks \cup {"none"}]
  /\ pc \in [Threads -> Steps]
  /\ \A t \in Threads : pc[t] = "idle" <=> task[t] = "none"
  /\ copy \in [Threads -> Record \cup {None}]
  /\ next \in [Threads -> Record \cup {None}]
  /\ intent \in [Threads -> Nat]

ControlInv == ControlTypes /\ StepsRegistered /\ GuardsExclude

\* The part of TypeOK about the journal, its seal and the budgets.
DataTypes ==
  /\ file \in Record \cup {None}
  /\ seal \in Row(Record) \cup {None}
  /\ acked \in Record
  /\ faults \in 0..MaxFaults /\ externals \in 0..MaxExternals
  /\ crashes \in 0..MaxCrashes /\ unread \in 0..MaxUnread

LEMMA RegistryInvSplit == RegistryInv <=> ControlInv /\ DataTypes
BY Zenon DEF RegistryInv, ControlInv, TypeOK, ControlTypes, DataTypes

----------------------------------------------------------------------------
(* Records *)

LEMMA SettledTyped ==
  ASSUME NEW r \in Record, NEW o \in Outcomes
  PROVE  Settled(r, o) \in Record
<1>1. ASSUME NEW te \in InFlight(r) PROVE <<te[1], te[2], o>> \in Edit
  BY BoundsAssumption DEF InFlight, Edit, Entries, BoundsAssumption
<1> QED BY <1>1 DEF Settled, Record

LEMMA AlienTyped == Alien \in Record
BY BoundsAssumption DEF Alien, Record, Edit, Entries, BoundsAssumption

LEMMA NextEditsTyped ==
  ASSUME NEW t \in Threads
  PROVE  NextEdits(t) \subseteq Edit
<1>1. Entries \subseteq 0..MaxEntries /\ 0 \in 0..MaxEntries
  BY BoundsAssumption DEF Entries, BoundsAssumption
<1>2. \A n \in 0..MaxEntries, s \in {"note", "moving", "done"} : <<t, n, s>> \in Edit
  BY DEF Edit
<1>3. ASSUME NEW e \in NextEdits(t)
      PROVE  e \in Edit
  <2>1. PICK n \in 0..MaxEntries, s \in {"note", "moving", "done"} : e = <<t, n, s>>
    BY <1>1, <1>3 DEF NextEdits
  <2> QED BY <1>2, <2>1
<1> QED BY <1>3

LEMMA NoteTyped ==
  ASSUME NEW t \in Threads
  PROVE  <<t, 0, "note">> \in Edit
BY BoundsAssumption DEF Edit, BoundsAssumption

LEMMA IntentTyped ==
  ASSUME seal \in Row(Record) \cup {None}, NEW r \in Record, RecordIntent(r)
  PROVE  seal' \in Row(Record) /\ seal'.pgen \in Nat
<1>1. CASE seal = None
  BY <1>1 DEF RecordIntent, Row
<1>2. CASE seal # None
  <2>1. BaseRow.gen \in Nat /\ BaseRow.digest \in Record \cup {None}
    BY <1>2 DEF BaseRow, Row
  <2> QED BY <1>2, <2>1 DEF RecordIntent, Row
<1> QED BY <1>1, <1>2

LEMMA CommitTyped ==
  ASSUME seal \in Row(Record) \cup {None}, NEW g, CanCommit(g), CommitIntent
  PROVE  seal' \in Row(Record)
BY DEF CommitIntent, CanCommit, Row

LEMMA TrustedIsThere == Trusted => file # None
BY DEF Trusted, SealCheck

----------------------------------------------------------------------------
(* Guards *)

LEMMA ReleaseTyped ==
  ASSUME NEW t \in Threads, NEW holders \in Holders
  PROVE  /\ Release(t, holders) \in Holders
         /\ \A p \in Processes : Release(t, holders)[p] \subseteq holders[p]
         /\ \A u \in Threads, p \in Processes :
              u # t /\ u \in holders[p] => u \in Release(t, holders)[p]
BY DEF Release, Holders, Processes

LEMMA TakeTyped ==
  ASSUME NEW t \in Threads, NEW holders \in Holders
  PROVE  /\ Take(t, holders) \in Holders
         /\ Take(t, holders)[Process[t]] = holders[Process[t]] \cup {t}
         /\ \A p \in Processes \ {Process[t]} : Take(t, holders)[p] = holders[p]
         /\ \A p \in Processes : holders[p] \subseteq Take(t, holders)[p]
BY DEF Take, Holders, Processes

LEMMA ReleaseKeepsExclusion ==
  ASSUME ControlInv, NEW t \in Threads, ReleaseAll(t)
  PROVE  /\ live' \in Holders /\ reconciling' \in Holders /\ undoing' \in Holders
         /\ GuardsExclude'
         /\ \A u \in Threads \ {t} :
              /\ u \in live[Process[u]] => u \in live'[Process[u]]
              /\ u \in reconciling[Process[u]] => u \in reconciling'[Process[u]]
              /\ u \in undoing[Process[u]] => u \in undoing'[Process[u]]
<1>1. live \in Holders /\ reconciling \in Holders /\ undoing \in Holders
  BY DEF ControlInv, ControlTypes
<1>2. \A u \in Threads : Process[u] \in Processes
  BY DEF Processes
<1>3. \A p \in Processes :
        /\ live'[p] \subseteq live[p]
        /\ reconciling'[p] \subseteq reconciling[p]
        /\ undoing'[p] \subseteq undoing[p]
  BY <1>1, ReleaseTyped DEF ReleaseAll
<1>4. GuardsExclude'
  BY <1>3 DEF ControlInv, GuardsExclude
<1> QED BY <1>1, <1>2, <1>4, ReleaseTyped DEF ReleaseAll

----------------------------------------------------------------------------
(* Control: what a step does to its own thread *)

LEMMA EndControl ==
  ASSUME ControlInv, NEW t \in Threads, End(t)
  PROVE  ControlInv'
<1>1. ControlTypes'
  BY ReleaseKeepsExclusion
     DEF End, ControlInv, ControlTypes, Steps
<1>2. ASSUME NEW u \in Threads
      PROVE  /\ u # t => /\ pc'[u] = pc[u] /\ task'[u] = task[u]
                         /\ copy'[u] = copy[u] /\ next'[u] = next[u]
             /\ u = t => pc'[u] = "idle" /\ task'[u] = "none"
  BY DEF End, ControlInv, ControlTypes
<1>3. StepsRegistered'
  BY <1>2, ReleaseKeepsExclusion
     DEF End, ControlInv, StepsRegistered, Operating, Recovering, Operations
<1> QED BY <1>1, <1>3, ReleaseKeepsExclusion DEF End, ControlInv

LEMMA ContinueControl ==
  ASSUME ControlInv, NEW t \in Threads,
         NEW step \in {"ready", "fence", "begin", "validate", "commit"},
         NEW c \in Record, NEW n \in Record \cup {None},
         step \in {"fence", "begin", "commit"} => n \in Record,
         step \in {"validate", "ready", "fence"} => task[t] \in Operations,
         pc[t] \notin {"idle", "serialise", "opening", "listed"},
         Continue(t, step, c, n)
  PROVE  ControlInv'
<1>1. ControlTypes'
  BY DEF Continue, registryVars, ControlInv, ControlTypes, Steps
<1>2. GuardsExclude'
  BY DEF Continue, registryVars, ControlInv, GuardsExclude
<1>3. ASSUME NEW u \in Threads
      PROVE  /\ task'[u] = task[u]
             /\ u # t => pc'[u] = pc[u] /\ copy'[u] = copy[u] /\ next'[u] = next[u]
             /\ u = t => pc'[u] = step /\ copy'[u] = c /\ next'[u] = n
  BY DEF Continue, ControlInv, ControlTypes
<1>4. StepsRegistered'
  BY <1>3 DEF Continue, registryVars, ControlInv, StepsRegistered, Operating, Recovering
<1> QED BY <1>1, <1>2, <1>4 DEF ControlInv

LEMMA StartControl ==
  ASSUME ControlInv, NEW t \in Threads, NEW job \in Tasks,
         NEW step \in {"serialise", "opening", "listed", "begin"},
         NEW c \in Record, NEW n \in Record \cup {None},
         step = "begin" => job = "leave" /\ n \in Record,
         step = "listed" => job = "recover",
         step = "opening" => job \in {"apply", "undo"},
         step = "serialise" => job = "organise",
         Start(t, job, step, c, n)
  PROVE  ControlInv'
<1>1. ControlTypes'
  BY DEF Start, registryVars, ControlInv, ControlTypes, Steps, Tasks, Operations
<1>2. GuardsExclude'
  BY DEF Start, registryVars, ControlInv, GuardsExclude
<1>3. ASSUME NEW u \in Threads
      PROVE  /\ u # t => /\ task'[u] = task[u] /\ pc'[u] = pc[u]
                         /\ copy'[u] = copy[u] /\ next'[u] = next[u]
             /\ u = t => /\ task'[u] = job /\ pc'[u] = step
                         /\ copy'[u] = c /\ next'[u] = n
  BY DEF Start, ControlInv, ControlTypes
<1>4. StepsRegistered'
  BY <1>3 DEF Start, registryVars, ControlInv, StepsRegistered, Operating, Recovering,
       Operations
<1> QED BY <1>1, <1>2, <1>4 DEF ControlInv

\* A task other than a recovery or a Leave is an operation.
LEMMA OtherTasks ==
  ASSUME ControlInv, NEW t \in Threads, pc[t] # "idle",
         task[t] \notin {"recover", "leave"}
  PROVE  task[t] \in Operations
BY DEF ControlInv, ControlTypes, Tasks

LEMMA StartTaskRegistered ==
  ASSUME RegistryInv, NEW t \in Threads, StartTask(t)
  PROVE  RegistryInv'
<1>1. ControlInv /\ DataTypes
  BY RegistryInvSplit
<1>2. DataTypes'
  BY <1>1 DEF StartTask, StartApply, StartUndo, StartOrganiseUndo, ListRecovery,
       LeaveUntouched, Start, sealVars, bounds, DataTypes
<1>3. ControlInv'
  <2>1. CASE StartApply(t)
    BY <1>1, <2>1, StartControl DEF StartApply, Tasks, Operations, Record
  <2>2. CASE StartUndo(t)
    BY <1>1, <2>2, StartControl DEF StartUndo, Tasks, Operations, DataTypes
  <2>3. CASE StartOrganiseUndo(t)
    BY <1>1, <2>3, StartControl DEF StartOrganiseUndo, Tasks, Operations, DataTypes
  <2>4. CASE ListRecovery(t)
    BY <1>1, <2>4, StartControl DEF ListRecovery, Tasks, DataTypes
  <2>5. CASE LeaveUntouched(t)
    <3>1. file \in Record /\ file \cup {<<t, 0, "note">>} \in Record
      BY <1>1, <2>5, NoteTyped DEF LeaveUntouched, DataTypes, Record
    <3> QED BY <1>1, <2>5, <3>1, StartControl DEF LeaveUntouched, Tasks
  <2> QED BY <2>1, <2>2, <2>3, <2>4, <2>5 DEF StartTask
<1> QED BY <1>2, <1>3, RegistryInvSplit, PTL

\* Taking a guard: the step that may have to wait, or to be refused.
LEMMA GuardRegistered ==
  ASSUME RegistryInv, NEW t \in Threads,
         Serialise(t) \/ MarkLive(t) \/ ClaimRecovery(t)
  PROVE  RegistryInv'
<1>1. ControlInv /\ DataTypes
  BY RegistryInvSplit
<1>2. DataTypes'
  BY <1>1 DEF Serialise, MarkLive, ClaimRecovery, End, sealVars, bounds, DataTypes
<1>3. live \in Holders /\ reconciling \in Holders /\ undoing \in Holders
  BY <1>1 DEF ControlInv, ControlTypes
<1>4. \A u \in Threads : Process[u] \in Processes
  BY DEF Processes
<1>5. \A holders \in Holders :
        /\ Take(t, holders) \in Holders
        /\ Take(t, holders)[Process[t]] = holders[Process[t]] \cup {t}
        /\ \A p \in Processes \ {Process[t]} : Take(t, holders)[p] = holders[p]
        /\ \A p \in Processes : holders[p] \subseteq Take(t, holders)[p]
  BY TakeTyped
<1>6. ControlInv'
  <2>1. CASE Serialise(t)
    <3>1. ControlTypes'
      BY <1>1, <1>3, <1>5, <2>1 DEF Serialise, ControlInv, ControlTypes, Steps
    <3>2. GuardsExclude'
      BY <1>1, <1>3, <1>5, <2>1 DEF Serialise, MaySerialise, ControlInv, GuardsExclude
    <3>3. \A u \in Threads : u # t => pc'[u] = pc[u]
      BY <1>1, <2>1 DEF Serialise, ControlInv, ControlTypes
    <3>4. pc'[t] = "opening"
      BY <1>1, <2>1 DEF Serialise, ControlInv, ControlTypes
    <3>5. StepsRegistered'
      BY <1>1, <1>3, <1>4, <1>5, <2>1, <3>3, <3>4
         DEF Serialise, ControlInv, StepsRegistered, Operating, Recovering, Operations
    <3> QED BY <3>1, <3>2, <3>5 DEF ControlInv
  <2>2. CASE MarkLive(t)
    <3>1. ControlTypes'
      BY <1>1, <1>3, <1>5, <2>2 DEF MarkLive, ControlInv, ControlTypes, Steps
    <3>2. GuardsExclude'
      BY <1>1, <1>3, <1>5, <2>2 DEF MarkLive, MayMarkLive, ControlInv, GuardsExclude
    <3>3. \A u \in Threads : u # t => pc'[u] = pc[u]
      BY <1>1, <2>2 DEF MarkLive, ControlInv, ControlTypes
    <3>4. pc'[t] \in {"ready", "validate"}
      BY <1>1, <2>2 DEF MarkLive, ControlInv, ControlTypes
    <3>5. StepsRegistered'
      BY <1>1, <1>3, <1>4, <1>5, <2>2, <3>3, <3>4
         DEF MarkLive, ControlInv, StepsRegistered, Operating, Recovering, Operations
    <3> QED BY <3>1, <3>2, <3>5 DEF ControlInv
  <2>3. CASE ClaimRecovery(t) /\ MayReconcile(t)
    <3>1. ControlTypes'
      BY <1>1, <1>3, <1>5, <2>3 DEF ClaimRecovery, ControlInv, ControlTypes, Steps
    <3>2. GuardsExclude'
      BY <1>1, <1>3, <1>5, <2>3 DEF ClaimRecovery, MayReconcile, ControlInv, GuardsExclude
    <3>3. \A u \in Threads : u # t => pc'[u] = pc[u]
      BY <1>1, <2>3 DEF ClaimRecovery, ControlInv, ControlTypes
    <3>4. pc'[t] = "claimed"
      BY <1>1, <2>3 DEF ClaimRecovery, ControlInv, ControlTypes
    <3>5. StepsRegistered'
      BY <1>1, <1>3, <1>4, <1>5, <2>3, <3>3, <3>4
         DEF ClaimRecovery, ControlInv, StepsRegistered, Operating, Recovering, Operations
    <3> QED BY <3>1, <3>2, <3>5 DEF ControlInv
  <2>4. CASE ClaimRecovery(t) /\ ~MayReconcile(t)
    BY <1>1, <2>4, EndControl DEF ClaimRecovery
  <2> QED BY <2>1, <2>2, <2>3, <2>4
<1> QED BY <1>2, <1>6, RegistryInvSplit, PTL

----------------------------------------------------------------------------
(* The steps of a task *)

LEMMA TaskRegistered ==
  ASSUME RegistryInv, NEW t \in Threads,
         Validate(t) \/ Advance(t) \/ Finish(t) \/ CheckFence(t) \/ Reread(t)
  PROVE  RegistryInv'
<1>1. ControlInv /\ DataTypes
  BY RegistryInvSplit
<1>2. DataTypes'
  <2>1. CASE UNCHANGED unread
    BY <1>1, <2>1, BoundsAssumption
       DEF Validate, Advance, Finish, CheckFence, Reread, sealVars, bounds, DataTypes,
           BoundsAssumption
  <2>2. CASE Reread(t) /\ unread < MaxUnread /\ unread' = unread + 1
    BY <1>1, <2>2, BoundsAssumption DEF Reread, sealVars, bounds, DataTypes, BoundsAssumption
  <2> QED BY <2>1, <2>2 DEF Validate, Advance, Finish, CheckFence, Reread, bounds
<1>3. /\ pc[t] # "idle" => copy[t] \in Record
      /\ pc[t] \in {"validate", "ready", "fence"} => task[t] \in Operations
      /\ pc[t] = "fence" => next[t] \in Record
  BY <1>1 DEF ControlInv, StepsRegistered
<1>4. ControlInv'
  <2>1. CASE End(t)
    BY <1>1, <2>1, EndControl
  <2>2. CASE pc[t] = "validate" /\ Trusted /\ Continue(t, "ready", file, None)
    BY <1>1, <1>3, <2>2, TrustedIsThere, ContinueControl DEF DataTypes
  <2>3. ASSUME NEW o \in Outcomes, pc[t] = "validate", Trusted,
               Continue(t, "begin", file, Settled(file, o))
        PROVE  ControlInv'
    <3>1. file \in Record /\ Settled(file, o) \in Record
      BY <1>1, <2>3, TrustedIsThere, SettledTyped DEF DataTypes
    <3> QED BY <1>1, <2>3, <3>1, ContinueControl
  <2>4. CASE Advance(t)
    <3>1. PICK e \in NextEdits(t) :
            Continue(t, IF task[t] = "apply" THEN "begin" ELSE "fence",
                     copy[t], copy[t] \cup {e})
      BY <2>4 DEF Advance
    <3>2. copy[t] \in Record /\ copy[t] \cup {e} \in Record
      BY <1>3, <2>4, NextEditsTyped DEF Advance, Record
    <3> QED BY <1>1, <1>3, <2>4, <3>1, <3>2, ContinueControl DEF Advance
  <2>5. CASE pc[t] = "fence" /\ Goto(t, "begin")
    BY <1>1, <1>3, <2>5, ContinueControl DEF Goto
  <2>6. ASSUME NEW o \in Outcomes, pc[t] = "claimed",
               Continue(t, "begin", copy[t], Settled(copy[t], o))
        PROVE  ControlInv'
    <3>1. copy[t] \in Record /\ Settled(copy[t], o) \in Record
      BY <1>3, <2>6, SettledTyped
    <3> QED BY <1>1, <2>6, <3>1, ContinueControl
  <2> QED
    BY <2>1, <2>2, <2>3, <2>4, <2>5, <2>6 DEF Validate, Finish, CheckFence, Reread, Settle
<1> QED BY <1>2, <1>4, RegistryInvSplit, PTL

\* The three steps of write_journal.
LEMMA WriteRegistered ==
  ASSUME RegistryInv, NEW t \in Threads, Begin(t) \/ Write(t) \/ Commit(t)
  PROVE  RegistryInv'
<1>1. ControlInv /\ DataTypes
  BY RegistryInvSplit
<1>2. pc[t] \in {"begin", "write", "commit"} => copy[t] \in Record /\ next[t] \in Record
  BY <1>1 DEF ControlInv, StepsRegistered
<1>3. UseFault => faults' \in 0..MaxFaults /\ UNCHANGED <<externals, crashes, unread>>
  BY <1>1, BoundsAssumption DEF UseFault, DataTypes, BoundsAssumption
<1>4. CASE Begin(t)
  <2>1. CASE End(t)
    <3>1. DataTypes'
      BY <1>1, <1>2, <1>3, <1>4, IntentTyped DEF Begin, bounds, DataTypes
    <3> QED BY <1>1, <2>1, <3>1, EndControl, RegistryInvSplit, PTL
  <2>2. CASE /\ RecordIntent(next[t])
             /\ intent' = [intent EXCEPT ![t] = seal'.pgen]
             /\ pc' = [pc EXCEPT ![t] = "write"]
             /\ UNCHANGED <<registryVars, task, copy, next, bounds>>
    <3>1. seal' \in Row(Record) /\ seal'.pgen \in Nat
      BY <1>1, <1>2, <1>4, <2>2, IntentTyped DEF Begin, DataTypes
    <3>2. DataTypes'
      BY <1>1, <1>4, <2>2, <3>1 DEF Begin, bounds, DataTypes
    <3>3. ControlTypes'
      BY <1>1, <1>4, <2>2, <3>1
         DEF Begin, registryVars, ControlInv, ControlTypes, Steps
    <3>4. \A u \in Threads : pc'[u] = IF u = t THEN "write" ELSE pc[u]
      BY <1>1, <2>2 DEF ControlInv, ControlTypes
    <3>5. StepsRegistered' /\ GuardsExclude'
      BY <1>1, <1>4, <2>2, <3>4
         DEF Begin, registryVars, ControlInv, StepsRegistered, GuardsExclude,
             Operating, Recovering
    <3> QED BY <3>2, <3>3, <3>5, RegistryInvSplit, PTL DEF ControlInv
  <2> QED BY <1>4, <2>1, <2>2 DEF Begin
<1>5. CASE Write(t)
  <2>1. DataTypes'
    BY <1>1, <1>2, <1>3, <1>5 DEF Write, ReplaceFile, bounds, DataTypes
  <2>2. ControlInv'
    <3>1. CASE End(t)
      BY <1>1, <3>1, EndControl
    <3>2. CASE Goto(t, "commit")
      BY <1>1, <1>2, <1>5, <3>2, ContinueControl DEF Write, Goto
    <3> QED BY <1>5, <3>1, <3>2 DEF Write
  <2> QED BY <2>1, <2>2, RegistryInvSplit, PTL
<1>6. CASE Commit(t)
  <2>1. acked \cup next[t] \in Record
    BY <1>1, <1>2, <1>6 DEF Commit, DataTypes, Record
  <2>2. DataTypes'
    BY <1>1, <1>3, <1>6, <2>1, CommitTyped DEF Commit, bounds, DataTypes
  <2>3. ControlInv'
    <3>1. CASE End(t)
      BY <1>1, <3>1, EndControl
    <3>2. CASE task[t] \notin {"recover", "leave"} /\ Continue(t, AfterWrite(t), next[t], None)
      <4>1. task[t] \in Operations
        BY <1>1, <1>6, <3>2, OtherTasks DEF Commit
      <4>2. AfterWrite(t) \in {"validate", "ready"}
        BY DEF AfterWrite
      <4> QED BY <1>1, <1>2, <1>6, <3>2, <4>1, <4>2, ContinueControl DEF Commit
    <3> QED BY <1>6, <3>1, <3>2 DEF Commit
  <2> QED BY <2>2, <2>3, RegistryInvSplit, PTL
<1> QED BY <1>4, <1>5, <1>6

LEMMA EnvironmentRegistered ==
  ASSUME RegistryInv, ExternalChange \/ \E p \in Processes : Crash(p)
  PROVE  RegistryInv'
<1>1. ControlInv /\ DataTypes
  BY RegistryInvSplit
<1>2. CASE ExternalChange
  <2>1. DataTypes'
    BY <1>1, <1>2, AlienTyped, BoundsAssumption DEF ExternalChange, DataTypes, BoundsAssumption
  <2>2. ControlInv'
    BY <1>1, <1>2
       DEF ExternalChange, registryVars, local, ControlInv, ControlTypes, StepsRegistered,
           GuardsExclude, Operating, Recovering
  <2> QED BY <2>1, <2>2, RegistryInvSplit, PTL
<1>3. ASSUME NEW p \in Processes, Crash(p) PROVE RegistryInv'
  <2>1. DataTypes'
    BY <1>1, <1>3, BoundsAssumption DEF Crash, sealVars, DataTypes, BoundsAssumption
  <2>2. ControlTypes'
    BY <1>1, <1>3
       DEF Crash, ClearProcess, ControlInv, ControlTypes, Holders, Steps
  <2>3. \A q \in Processes :
          /\ live'[q] = IF q = p THEN {} ELSE live[q]
          /\ reconciling'[q] = IF q = p THEN {} ELSE reconciling[q]
          /\ undoing'[q] = IF q = p THEN {} ELSE undoing[q]
    BY <1>1, <1>3 DEF Crash, ClearProcess, ControlInv, ControlTypes, Holders
  <2>4. \A t \in Threads : Process[t] \in Processes
    BY DEF Processes
  <2>5. \A t \in Threads :
          IF Process[t] = p THEN pc'[t] = "idle" /\ task'[t] = "none"
          ELSE /\ pc'[t] = pc[t] /\ task'[t] = task[t]
               /\ copy'[t] = copy[t] /\ next'[t] = next[t]
    BY <1>3 DEF Crash
  <2>6. GuardsExclude'
    BY <1>1, <2>3 DEF ControlInv, GuardsExclude
  <2>7. StepsRegistered'
    BY <1>1, <2>3, <2>4, <2>5
       DEF ControlInv, StepsRegistered, Operating, Recovering, Operations
  <2> QED BY <2>1, <2>2, <2>6, <2>7, RegistryInvSplit, PTL DEF ControlInv
<1> QED BY <1>2, <1>3

----------------------------------------------------------------------------

LEMMA RegistryStarts == Init => RegistryInv
<1> SUFFICES ASSUME Init PROVE RegistryInv
  OBVIOUS
<1>1. live \in Holders /\ reconciling \in Holders /\ undoing \in Holders
  BY DEF Init, RegistryInit, Holders
<1>2. TypeOK
  BY <1>1, InitialAssumption, BoundsAssumption
     DEF Init, TypeOK, Tasks, Steps, SealedRow, Row, Record, InitialAssumption, BoundsAssumption
<1>3. StepsRegistered /\ GuardsExclude
  BY DEF Init, RegistryInit, StepsRegistered, GuardsExclude, Operating, Recovering, Operations
<1> QED BY <1>2, <1>3 DEF RegistryInv

LEMMA RegistryStep == RegistryInv /\ [Next]_vars => RegistryInv'
<1> SUFFICES ASSUME RegistryInv, [Next]_vars PROVE RegistryInv'
  OBVIOUS
<1>1. CASE Next
  BY <1>1, StartTaskRegistered, GuardRegistered, TaskRegistered, WriteRegistered,
     EnvironmentRegistered DEF Next, Work
<1>2. CASE UNCHANGED vars
  BY <1>2 DEF vars, local, bounds, RegistryInv, TypeOK, StepsRegistered, GuardsExclude,
       Operating, Recovering
<1> QED BY <1>1, <1>2

\* Type correctness of the journal, its seal, the registry and the threads,
\* whatever threads run which tasks in how many processes.
THEOREM AccessTypeCorrect == Spec => []TypeOK
<1>1. RegistryInv => TypeOK
  BY DEF RegistryInv
<1> QED BY <1>1, RegistryStarts, RegistryStep, PTL DEF Spec

\* The live registry keeps recoveries apart from the operations of their process:
\* between begin_reconcile's claim and its release no operation of that process is
\* live, for any threads, tasks, faults, crashes and other programs.
THEOREM RecoveryExcludedCorrect == Spec => []RecoveryExcluded
<1>1. RegistryInv => RecoveryExcluded
  BY DEF RegistryInv, StepsRegistered, GuardsExclude, RecoveryExcluded, Processes
<1> QED BY <1>1, RegistryStarts, RegistryStep, PTL DEF Spec

\* The budgets of changes by other programs and of failed reads are only ever spent.
LEMMA BudgetsGrow ==
  ASSUME RegistryInv, [Next]_vars
  PROVE  /\ externals' = 0 => externals = 0
         /\ unread' = 0 => unread = 0
<1>1. externals \in Nat /\ unread \in Nat
  BY BoundsAssumption DEF RegistryInv, TypeOK, BoundsAssumption
<1>2. ASSUME NEW t \in Threads, StartTask(t) \/ Serialise(t) \/ MarkLive(t) \/ Work(t)
      PROVE  externals' = externals /\ unread' \in {unread, unread + 1}
  BY <1>2
     DEF StartTask, StartApply, StartUndo, StartOrganiseUndo, ListRecovery, LeaveUntouched,
         Start, Serialise, MarkLive, Work, Validate, Advance, Finish, CheckFence,
         ClaimRecovery, Reread, Begin, Write, Commit, UseFault, bounds
<1>3. CASE ExternalChange
  BY <1>1, <1>3 DEF ExternalChange
<1> QED BY <1>1, <1>2, <1>3 DEF Next, Crash, vars, bounds

\* What the step of one thread leaves alone of the others.
OthersKeep(t) ==
  \A u \in Threads \ {t} :
    /\ task'[u] = task[u] /\ pc'[u] = pc[u] /\ copy'[u] = copy[u]
    /\ next'[u] = next[u] /\ intent'[u] = intent[u]

----------------------------------------------------------------------------
(* Who writes beside whom *)

LEMMA SettledClosed ==
  ASSUME NEW r \in Record, NEW o \in Outcomes
  PROVE  InFlight(Settled(r, o)) = {}
<1> SUFFICES ASSUME NEW te \in InFlight(Settled(r, o)) PROVE FALSE
  OBVIOUS
<1>1. /\ te \in Threads \X Entries
      /\ <<te[1], te[2], "moving">> \in Settled(r, o)
      /\ \A s \in {"done"} \cup Outcomes : <<te[1], te[2], s>> \notin Settled(r, o)
  BY DEF InFlight
<1>2. <<te[1], te[2], "moving">> \in r
  BY <1>1, OutcomesAssumption DEF Settled, OutcomesAssumption
<1>3. \A s \in {"done"} \cup Outcomes : <<te[1], te[2], s>> \notin r
  BY <1>1 DEF Settled
<1>4. te \in InFlight(r)
  BY <1>1, <1>2, <1>3 DEF InFlight
<1>5. <<te[1], te[2], o>> \in Settled(r, o)
  BY <1>4 DEF Settled
<1> QED BY <1>1, <1>5

\* A live operation is the only writer.
LEMMA OperatorAlone ==
  ASSUME SerialWriters, RegistryInv, Allowed,
         NEW t \in Threads, Operating(t), NEW u \in Threads, Writing(u) \/ Operating(u)
  PROVE  u = t
<1>1. Process[t] = Process[u] /\ Process[t] \in Processes
  BY DEF SerialWriters, Processes
<1>2. task[u] # "none" /\ task[u] \in Tasks \cup {"none"}
  BY DEF RegistryInv, TypeOK, Writing, Operating, Operations
<1>3. task[t] \in May[t] /\ task[u] \in May[u]
  BY <1>2 DEF Allowed, Operating, Operations
<1>4. Operating(u) \/ Recovering(u)
  BY <1>2, <1>3 DEF SerialWriters, Tasks, Operating, Recovering, Writing
<1>5. ~Recovering(u)
  BY <1>1 DEF RegistryInv, StepsRegistered, GuardsExclude
<1>6. CASE u # t
  <2>1. task[t] = "organise" /\ task[u] = "organise"
    BY <1>3, <1>4, <1>5, <1>6 DEF SerialWriters, Operating
  <2>2. t \in undoing[Process[t]] /\ u \in undoing[Process[t]]
    BY <1>1, <1>4, <1>5, <2>1 DEF RegistryInv, StepsRegistered, Operating
  <2> QED BY <1>1, <2>2 DEF RegistryInv, GuardsExclude
<1> QED BY <1>6

LEMMA OperatorNotRecovering ==
  ASSUME RegistryInv, NEW t \in Threads, NEW u \in Threads, Process[t] = Process[u],
         Operating(u)
  PROVE  ~Recovering(t)
BY DEF RegistryInv, StepsRegistered, GuardsExclude, Processes

----------------------------------------------------------------------------
(* Steps that write nothing *)

LEMMA OtherFacts ==
  ASSUME NEW u \in Threads, WriterFacts(u), UNCHANGED <<file, seal>>,
         task'[u] = task[u], pc'[u] = pc[u], copy'[u] = copy[u],
         next'[u] = next[u], intent'[u] = intent[u]
  PROVE  WriterFacts(u)'
<1>1. Writing(u)' <=> Writing(u)
  BY DEF Writing
<1>2. Announced(u)' <=> Announced(u)
  BY DEF Announced
<1>3. InFlight(copy[u])' = InFlight(copy[u])
  BY DEF InFlight
<1>4. \A o \in Outcomes : Settled(copy[u], o)' = Settled(copy[u], o)
  BY <1>3 DEF Settled
<1>5. RecoveryFacts(u)' <=> RecoveryFacts(u)
  BY <1>1, <1>3, <1>4 DEF RecoveryFacts
<1> QED BY <1>2, <1>5 DEF WriterFacts

\* A step of t that leaves the journal, its seal and the other threads alone.
LEMMA QuietStep ==
  ASSUME SealInv, NEW t \in Threads, UNCHANGED <<file, seal, externals>>, OthersKeep(t),
         task'[t] # "none" => task'[t] \in May[t],
         pc'[t] \notin {"begin", "write", "commit"},
         externals = 0 /\ task'[t] = "recover" => file # None /\ InFlight(copy'[t]) # {}
  PROVE  SealInv'
<1>1. \A u \in Threads : task'[u] # "none" => task'[u] \in May[u]
  BY DEF SealInv, Allowed, OthersKeep
<1> SUFFICES ASSUME externals' = 0
             PROVE  (SealMatches /\ WritersAgree /\ \A u \in Threads : WriterFacts(u))'
  BY <1>1 DEF SealInv, Allowed
<1>2. SealMatches /\ WritersAgree /\ \A u \in Threads : WriterFacts(u)
  BY DEF SealInv
<1>3. SealMatches'
  BY <1>2 DEF SealMatches
<1>4. WritersAgree'
  BY <1>2 DEF WritersAgree, Writing, OthersKeep
<1>5. ASSUME NEW u \in Threads PROVE WriterFacts(u)'
  <2>1. CASE u = t
    BY <2>1 DEF WriterFacts, RecoveryFacts, Writing, InFlight
  <2>2. CASE u # t
    BY <1>2, <2>2, OtherFacts DEF OthersKeep
  <2> QED BY <2>1, <2>2
<1> QED BY <1>3, <1>4, <1>5

\* The facts about the threads a step leaves alone follow from its next step.
LEMMA EndQuiet ==
  ASSUME RegistryInv, NEW t \in Threads, End(t)
  PROVE  OthersKeep(t) /\ task'[t] = "none" /\ pc'[t] = "idle"
BY DEF RegistryInv, TypeOK, End, OthersKeep

LEMMA ContinueQuiet ==
  ASSUME RegistryInv, NEW t \in Threads, NEW step, NEW c, NEW n, Continue(t, step, c, n)
  PROVE  /\ OthersKeep(t) /\ task'[t] = task[t]
         /\ pc'[t] = step /\ copy'[t] = c /\ next'[t] = n
BY DEF RegistryInv, TypeOK, Continue, OthersKeep

LEMMA StartQuiet ==
  ASSUME RegistryInv, NEW t \in Threads, NEW job, NEW step, NEW c, NEW n,
         Start(t, job, step, c, n)
  PROVE  /\ OthersKeep(t) /\ task'[t] = job /\ job \in May[t]
         /\ pc'[t] = step /\ copy'[t] = c /\ next'[t] = n
         /\ UNCHANGED <<file, seal, externals>>
BY DEF RegistryInv, TypeOK, Start, OthersKeep, sealVars, bounds

LEMMA EndSealed ==
  ASSUME RegistryInv, SealInv, NEW t \in Threads, End(t), UNCHANGED <<file, seal, externals>>
  PROVE  SealInv'
BY EndQuiet, QuietStep

\* An operation that was alone begins to write.
LEMMA BeginAlone ==
  ASSUME SerialWriters, RegistryInv, SealInv, NEW t \in Threads, Operating(t),
         OthersKeep(t), task'[t] = task[t], pc'[t] = "begin",
         UNCHANGED <<file, seal, externals>>
  PROVE  SealInv'
<1>1. \A u \in Threads : task'[u] # "none" => task'[u] \in May[u]
  BY DEF SealInv, Allowed, OthersKeep
<1> SUFFICES ASSUME externals' = 0
             PROVE  (SealMatches /\ WritersAgree /\ \A u \in Threads : WriterFacts(u))'
  BY <1>1 DEF SealInv, Allowed
<1>2. SealMatches /\ WritersAgree /\ \A u \in Threads : WriterFacts(u)
  BY DEF SealInv
<1>3. SealMatches'
  BY <1>2 DEF SealMatches
<1>4. \A u \in Threads \ {t} : ~Writing(u)
  BY OperatorAlone DEF SealInv
<1>5. WritersAgree'
  BY <1>4 DEF WritersAgree, Writing, OthersKeep
<1>6. ASSUME NEW u \in Threads PROVE WriterFacts(u)'
  <2>1. CASE u = t
    BY <2>1 DEF WriterFacts, Operating, Operations
  <2>2. CASE u # t
    BY <1>2, <2>2, OtherFacts DEF OthersKeep
  <2> QED BY <2>1, <2>2
<1> QED BY <1>3, <1>5, <1>6

\* A claimed recovery begins to write, if its copy is still the journal.
LEMMA RereadSealed ==
  ASSUME SerialWriters, RegistryInv, SealInv, NEW t \in Threads, Reread(t),
         unread' = unread
  PROVE  SealInv'
<1>1. CASE End(t)
  BY <1>1, EndSealed DEF Reread, sealVars, bounds
<1>2. ASSUME NEW o \in Outcomes, file \in {None, copy[t]},
             Continue(t, "begin", copy[t], Settled(copy[t], o))
      PROVE  SealInv'
  <2>1. /\ OthersKeep(t) /\ task'[t] = task[t] /\ pc'[t] = "begin"
        /\ copy'[t] = copy[t] /\ next'[t] = Settled(copy[t], o)
        /\ UNCHANGED <<file, seal, externals>>
    BY <1>2, ContinueQuiet DEF Reread, sealVars, bounds
  <2>2. task[t] = "recover" /\ copy[t] \in Record /\ Recovering(t)
    BY DEF Reread, RegistryInv, StepsRegistered, Recovering
  <2>3. \A u \in Threads : task'[u] # "none" => task'[u] \in May[u]
    BY <2>1 DEF SealInv, Allowed, OthersKeep
  <2> SUFFICES ASSUME externals' = 0
               PROVE  (SealMatches /\ WritersAgree /\ \A u \in Threads : WriterFacts(u))'
    BY <2>3 DEF SealInv, Allowed
  <2>4. SealMatches /\ WritersAgree /\ \A u \in Threads : WriterFacts(u)
    BY <2>1 DEF SealInv
  <2>5. SealMatches'
    BY <2>1, <2>4 DEF SealMatches
  <2>6. file = copy[t] /\ InFlight(copy[t]) # {} /\ file # None
    BY <1>2, <2>2, <2>4 DEF WriterFacts, RecoveryFacts
  <2>7. ASSUME NEW u \in Threads \ {t}, Writing(u)
        PROVE  task[u] = "recover" /\ next[u] = Settled(copy[t], o)
    <3>1. task[u] = "recover"
      <4>1. ~Operating(u)
        BY <2>2, <2>7, OperatorAlone, OperatorNotRecovering DEF SerialWriters, SealInv
      <4> QED BY <2>7, <4>1 DEF RegistryInv, TypeOK, SealInv, Allowed, SerialWriters, Tasks,
                   Operating, Writing
    <3>2. /\ file \in {copy[u], next[u]} /\ copy[u] \in Record
          /\ \E q \in Outcomes : next[u] = Settled(copy[u], q)
      BY <2>4, <2>7, <3>1 DEF WriterFacts, RecoveryFacts, RegistryInv, StepsRegistered, Writing
    <3>3. PICK q \in Outcomes : next[u] = Settled(copy[u], q)
      BY <3>2
    <3>4. o = q
      BY DEF SerialWriters
    <3>5. file # next[u]
      BY <2>6, <3>2, <3>3, SettledClosed
    <3> QED BY <2>6, <3>1, <3>2, <3>3, <3>4, <3>5
  <2>8. WritersAgree'
    <3>1. \A u \in Threads \ {t} : Writing(u)' <=> Writing(u)
      BY <2>1 DEF Writing, OthersKeep
    <3> QED BY <2>1, <2>2, <2>7, <3>1 DEF WritersAgree, OthersKeep
  <2>9. ASSUME NEW u \in Threads PROVE WriterFacts(u)'
    <3>1. CASE u = t
      <4>1. InFlight(copy[t])' = InFlight(copy[t])
        BY <2>1 DEF InFlight
      <4>2. Settled(copy[t], o)' = Settled(copy[t], o)
        BY <2>1, <4>1 DEF Settled
      <4>3. RecoveryFacts(t)'
        BY <2>1, <2>6, <4>1, <4>2 DEF RecoveryFacts
      <4> QED BY <2>1, <3>1, <4>3 DEF WriterFacts
    <3>2. CASE u # t
      BY <2>1, <2>4, <3>2, OtherFacts DEF OthersKeep
    <3> QED BY <3>1, <3>2
  <2> QED BY <2>5, <2>8, <2>9
<1>3. unread \in Nat
  BY BoundsAssumption DEF RegistryInv, TypeOK, BoundsAssumption
<1> QED BY <1>1, <1>2, <1>3 DEF Reread, Settle

----------------------------------------------------------------------------
(* The steps of write_journal *)

\* Threads whose record is t's own keep their facts when the seal announces it.
LEMMA BeginSealed ==
  ASSUME SerialWriters, None \notin Record, RegistryInv, SealInv,
         NEW t \in Threads, Begin(t)
  PROVE  SealInv'
<1>1. CASE End(t) /\ UNCHANGED <<file, seal, externals>>
  BY <1>1, EndSealed
<1>2. CASE /\ ~Refused
           /\ RecordIntent(next[t])
           /\ intent' = [intent EXCEPT ![t] = seal'.pgen]
           /\ pc' = [pc EXCEPT ![t] = "write"]
           /\ UNCHANGED <<registryVars, task, copy, next, bounds, file>>
  <2>1. pc[t] = "begin" /\ next[t] \in Record
    BY DEF Begin, RegistryInv, StepsRegistered
  <2>2. /\ \A u \in Threads : pc'[u] = IF u = t THEN "write" ELSE pc[u]
        /\ intent'[t] = seal'.pgen
        /\ \A u \in Threads \ {t} : intent'[u] = intent[u]
    BY <1>2 DEF RegistryInv, TypeOK
  <2>3. \A u \in Threads : Writing(u)' <=> Writing(u)
    BY <2>1, <2>2 DEF Writing
  <2>4. \A u \in Threads : task'[u] # "none" => task'[u] \in May[u]
    BY <1>2 DEF SealInv, Allowed
  <2> SUFFICES ASSUME externals' = 0
               PROVE  (SealMatches /\ WritersAgree /\ \A u \in Threads : WriterFacts(u))'
    BY <2>4 DEF SealInv, Allowed
  <2>5. SealMatches /\ WritersAgree /\ \A u \in Threads : WriterFacts(u)
    BY <1>2 DEF SealInv, bounds
  <2>6. /\ seal' # None /\ seal'.pdigest = next[t] /\ seal'.pgen \in Nat \ {0}
        /\ seal = None => seal'.digest = None
        /\ seal # None => seal'.digest = BaseRow.digest
    <3>1. seal' \in Row(Record)
      BY <1>2, <2>1, IntentTyped DEF RegistryInv, TypeOK
    <3>2. seal = None => seal'.pdigest = next[t] /\ seal'.pgen = 1 /\ seal'.digest = None
      BY <1>2 DEF RecordIntent
    <3>3. seal # None => /\ seal'.pdigest = next[t] /\ seal'.pgen = BaseRow.gen + 1
                         /\ seal'.digest = BaseRow.digest
      BY <1>2 DEF RecordIntent
    <3>4. seal # None => BaseRow.gen \in Nat
      BY DEF RegistryInv, TypeOK, BaseRow, Row
    <3> QED BY <3>1, <3>2, <3>3, <3>4, NoneAssumption DEF NoneAssumption
  <2>7. SealMatches'
    <3>1. CASE seal = None
      BY <1>2, <2>5, <2>6, <3>1 DEF SealMatches
    <3>2. CASE seal # None /\ file = None
      BY <1>2, <2>5, <2>6, <3>2 DEF SealMatches, BaseRow, SealCheck
    <3>3. CASE seal # None /\ file # None
      BY <1>2, <2>5, <2>6, <3>3 DEF SealMatches, BaseRow, SealCheck
    <3> QED BY <3>1, <3>2, <3>3
  <2>8. WritersAgree'
    BY <1>2, <2>3, <2>5 DEF WritersAgree
  <2>9. ASSUME NEW u \in Threads PROVE WriterFacts(u)'
    <3>1. RecoveryFacts(u)' <=> RecoveryFacts(u)
      <4>1. InFlight(copy[u])' = InFlight(copy[u])
        BY <1>2 DEF InFlight
      <4>2. \A o \in Outcomes : Settled(copy[u], o)' = Settled(copy[u], o)
        BY <1>2, <4>1 DEF Settled
      <4> QED BY <1>2, <2>3, <4>1, <4>2 DEF RecoveryFacts
    <3>2. pc'[u] \in {"write", "commit"} => next[u] = next[t]
      BY <2>1, <2>2, <2>5 DEF WritersAgree, Writing
    <3>3. pc'[u] \in {"write", "commit"} => Announced(u)'
      BY <1>2, <2>6, <3>2 DEF Announced
    <3>4. pc'[u] \in {"write", "commit"} => intent'[u] # 0
      BY <2>2, <2>5, <2>6 DEF WriterFacts
    <3>5. pc'[u] = "commit" => file' = next'[u]
      BY <1>2, <2>2, <2>5 DEF WriterFacts
    <3> QED BY <1>2, <2>5, <3>1, <3>3, <3>4, <3>5 DEF WriterFacts
  <2> QED BY <2>7, <2>8, <2>9
<1> QED BY <1>1, <1>2 DEF Begin, UseFault, bounds

\* The journal becomes what is announced, whether the write reports it or not.
LEMMA WriteSealed ==
  ASSUME SerialWriters, None \notin Record, RegistryInv, SealInv,
         NEW t \in Threads, Write(t)
  PROVE  SealInv'
<1>1. CASE End(t) /\ UNCHANGED <<file, seal, externals>>
  BY <1>1, EndSealed
<1>2. CASE file' = next[t] /\ UNCHANGED <<seal, externals>> /\ (Goto(t, "commit") \/ End(t))
  <2>1. pc[t] = "write" /\ next[t] \in Record /\ next[t] # None
    BY DEF Write, RegistryInv, StepsRegistered
  <2>2. /\ OthersKeep(t)
        /\ \/ task'[t] = "none" /\ pc'[t] = "idle"
           \/ /\ task'[t] = task[t] /\ pc'[t] = "commit" /\ copy'[t] = copy[t]
              /\ next'[t] = next[t] /\ intent'[t] = intent[t]
    <3>1. CASE Goto(t, "commit")
      <4>1. Continue(t, "commit", copy[t], next[t]) /\ intent'[t] = intent[t]
        BY <3>1 DEF Goto, Continue
      <4> QED BY <4>1, ContinueQuiet
    <3>2. CASE End(t)
      BY <3>2, EndQuiet
    <3> QED BY <1>2, <3>1, <3>2
  <2>3. \A u \in Threads : task'[u] # "none" => task'[u] \in May[u]
    <3>1. \A u \in Threads : task[u] # "none" => task[u] \in May[u]
      BY DEF SealInv, Allowed
    <3> QED BY <2>2, <3>1 DEF OthersKeep
  <2> SUFFICES ASSUME externals' = 0
               PROVE  (SealMatches /\ WritersAgree /\ \A u \in Threads : WriterFacts(u))'
    BY <2>3 DEF SealInv, Allowed
  <2>4. SealMatches /\ WritersAgree /\ \A u \in Threads : WriterFacts(u)
    BY <1>2 DEF SealInv
  <2>5. SealMatches'
    BY <1>2, <2>1, <2>4 DEF SealMatches, WriterFacts, Announced
  <2>6. \A u \in Threads : Writing(u)' => Writing(u)
    BY <2>1, <2>2 DEF Writing, OthersKeep
  <2>7. WritersAgree'
    BY <2>1, <2>2, <2>4, <2>6 DEF WritersAgree, Writing, OthersKeep
  <2>8. ASSUME NEW u \in Threads, pc'[u] # "idle" PROVE WriterFacts(u)'
    <3>1. task'[u] = task[u] /\ copy'[u] = copy[u] /\ next'[u] = next[u] /\ intent'[u] = intent[u]
      BY <2>2, <2>8 DEF OthersKeep
    <3>2. Writing(u)' => next[u] = next[t] /\ Writing(u)
      BY <2>1, <2>4, <2>6 DEF WritersAgree, Writing
    <3>3. pc'[u] \in {"write", "commit"} => pc[u] \in {"write", "commit"}
      BY <2>1, <2>2 DEF OthersKeep
    <3>4. pc'[u] \in {"write", "commit"} => Announced(u)' /\ intent'[u] # 0
      BY <1>2, <2>4, <3>1, <3>3 DEF WriterFacts, Announced
    <3>5. task'[u] = "recover" => RecoveryFacts(u)'
      <4>1. InFlight(copy[u])' = InFlight(copy[u])
        BY <3>1 DEF InFlight
      <4>2. \A o \in Outcomes : Settled(copy[u], o)' = Settled(copy[u], o)
        BY <3>1, <4>1 DEF Settled
      <4> QED BY <1>2, <2>1, <2>4, <3>1, <3>2, <4>1, <4>2 DEF WriterFacts, RecoveryFacts
    <3>6. pc'[u] = "commit" => file' = next'[u]
      BY <1>2, <3>1, <3>2 DEF Writing
    <3> QED BY <3>4, <3>5, <3>6 DEF WriterFacts
  <2>9. ASSUME NEW u \in Threads, pc'[u] = "idle" PROVE WriterFacts(u)'
    <3>1. task'[u] # "recover"
      BY <2>2, <2>9 DEF OthersKeep, RegistryInv, TypeOK
    <3> QED BY <2>9, <3>1 DEF WriterFacts
  <2> QED BY <2>5, <2>7, <2>8, <2>9
<1> QED BY <1>1, <1>2 DEF Write, ReplaceFile, UseFault, Goto, Continue, bounds

\* The announced record becomes the sealed one.
LEMMA CommitSealed ==
  ASSUME SerialWriters, None \notin Record, RegistryInv, SealInv,
         NEW t \in Threads, Commit(t)
  PROVE  SealInv'
<1>1. CASE End(t) /\ UNCHANGED <<file, seal, externals>>
  BY <1>1, EndSealed
<1>2. CASE /\ CanCommit(intent[t]) /\ CommitIntent
           /\ IF task[t] \in {"recover", "leave"} THEN End(t)
              ELSE Continue(t, AfterWrite(t), next[t], None)
           /\ UNCHANGED <<file, externals>>
  <2>1. pc[t] = "commit"
    BY DEF Commit
  <2>2. /\ OthersKeep(t) /\ ~Writing(t)' /\ task'[t] # "recover"
        /\ task'[t] # "none" => task'[t] = task[t]
    <3>1. CASE End(t)
      BY <3>1, EndQuiet DEF Writing
    <3>2. CASE task[t] # "recover" /\ Continue(t, AfterWrite(t), next[t], None)
      <4>1. AfterWrite(t) \in {"validate", "ready"}
        BY DEF AfterWrite
      <4> QED BY <3>2, <4>1, ContinueQuiet DEF Writing
    <3> QED BY <1>2, <3>1, <3>2
  <2>3. \A u \in Threads : task'[u] # "none" => task'[u] \in May[u]
    <3>1. \A u \in Threads : task[u] # "none" => task[u] \in May[u]
      BY DEF SealInv, Allowed
    <3> QED BY <2>2, <3>1 DEF OthersKeep
  <2> SUFFICES ASSUME externals' = 0
               PROVE  (SealMatches /\ WritersAgree /\ \A u \in Threads : WriterFacts(u))'
    BY <2>3 DEF SealInv, Allowed
  <2>4. SealMatches /\ WritersAgree /\ \A u \in Threads : WriterFacts(u)
    BY <1>2 DEF SealInv
  <2>5. /\ file = next[t] /\ seal # None /\ seal.pgen # 0 /\ seal.pdigest = next[t]
        /\ next[t] \in Record
    BY <1>2, <2>1, <2>4 DEF WriterFacts, Announced, CanCommit, RegistryInv, StepsRegistered
  <2>6. seal' # None /\ seal'.digest = next[t] /\ seal'.pgen = 0
    <3>1. seal' \in Row(Record)
      BY <1>2, CommitTyped DEF RegistryInv, TypeOK
    <3> QED BY <1>2, <2>5, <3>1, NoneAssumption DEF CommitIntent, NoneAssumption
  <2>7. SealMatches'
    BY <1>2, <2>5, <2>6 DEF SealMatches
  <2>8. \A u \in Threads : Writing(u)' => u # t /\ Writing(u)
    BY <2>2 DEF Writing, OthersKeep
  <2>9. WritersAgree'
    BY <2>4, <2>8, <2>2 DEF WritersAgree, OthersKeep
  <2>10. ASSUME NEW u \in Threads \ {t} PROVE WriterFacts(u)'
    <3>1. /\ task'[u] = task[u] /\ pc'[u] = pc[u] /\ copy'[u] = copy[u]
          /\ next'[u] = next[u] /\ intent'[u] = intent[u]
      BY <2>2 DEF OthersKeep
    <3>2. Writing(u)' <=> Writing(u)
      BY <3>1 DEF Writing
    <3>3. RecoveryFacts(u)' <=> RecoveryFacts(u)
      <4>1. InFlight(copy[u])' = InFlight(copy[u])
        BY <3>1 DEF InFlight
      <4>2. \A o \in Outcomes : Settled(copy[u], o)' = Settled(copy[u], o)
        BY <3>1, <4>1 DEF Settled
      <4> QED BY <1>2, <3>1, <3>2, <4>1, <4>2 DEF RecoveryFacts
    <3>4. Writing(u) => next[u] = next[t]
      BY <2>1, <2>4 DEF WritersAgree, Writing
    <3>5. pc'[u] \in {"write", "commit"} => Announced(u)'
      BY <2>6, <3>1, <3>4 DEF Announced, Writing
    <3> QED BY <1>2, <2>4, <3>1, <3>3, <3>5 DEF WriterFacts
  <2>11. WriterFacts(t)'
    BY <2>2 DEF WriterFacts, Writing
  <2> QED BY <2>7, <2>9, <2>10, <2>11
<1> QED BY <1>1, <1>2 DEF Commit, UseFault, bounds

----------------------------------------------------------------------------

LEMMA StartSealed ==
  ASSUME SerialWriters, RegistryInv, SealInv, NEW t \in Threads, StartTask(t)
  PROVE  SealInv'
<1>1. CASE StartApply(t)
  BY <1>1, StartQuiet, QuietStep DEF StartApply
<1>2. CASE StartUndo(t)
  BY <1>2, StartQuiet, QuietStep DEF StartUndo
<1>3. CASE StartOrganiseUndo(t)
  BY <1>3, StartQuiet, QuietStep DEF StartOrganiseUndo
<1>4. CASE ListRecovery(t)
  BY <1>4, StartQuiet, QuietStep DEF ListRecovery
<1>5. ~LeaveUntouched(t)
  BY DEF LeaveUntouched, Start, SerialWriters
<1> QED BY <1>1, <1>2, <1>3, <1>4, <1>5 DEF StartTask

LEMMA GuardSealed ==
  ASSUME RegistryInv, SealInv, NEW t \in Threads,
         Serialise(t) \/ MarkLive(t) \/ ClaimRecovery(t)
  PROVE  SealInv'
<1>1. CASE End(t) /\ ClaimRecovery(t)
  BY <1>1, EndSealed DEF ClaimRecovery, sealVars, bounds
<1>2. task[t] # "none" => task[t] \in May[t]
  BY DEF SealInv, Allowed
<1>3. CASE Serialise(t) \/ MarkLive(t)
  <2>1. task[t] \in Operations
    BY <1>3 DEF Serialise, MarkLive, RegistryInv, StepsRegistered, Operations
  <2>2. /\ OthersKeep(t) /\ task'[t] = task[t] /\ UNCHANGED <<file, seal, externals>>
        /\ pc'[t] \in {"opening", "ready", "validate"}
    BY <1>3 DEF Serialise, MarkLive, RegistryInv, TypeOK, OthersKeep, sealVars, bounds
  <2> QED BY <1>2, <2>1, <2>2, QuietStep DEF Operations
<1>4. CASE ClaimRecovery(t) /\ ~End(t)
  <2>1. /\ OthersKeep(t) /\ task'[t] = task[t] /\ copy'[t] = copy[t]
        /\ pc'[t] = "claimed" /\ UNCHANGED <<file, seal, externals>>
    BY <1>4 DEF ClaimRecovery, RegistryInv, TypeOK, OthersKeep, sealVars, bounds
  <2>2. task[t] = "recover"
    BY <1>4 DEF ClaimRecovery, RegistryInv, StepsRegistered
  <2>3. externals = 0 => file # None /\ InFlight(copy[t]) # {}
    BY <2>2 DEF SealInv, WriterFacts, RecoveryFacts
  <2> QED BY <1>2, <2>1, <2>2, <2>3, QuietStep
<1> QED BY <1>1, <1>3, <1>4

LEMMA TaskSealed ==
  ASSUME SerialWriters, RegistryInv, SealInv, NEW t \in Threads,
         Validate(t) \/ Advance(t) \/ Finish(t) \/ CheckFence(t)
  PROVE  SealInv'
<1>1. UNCHANGED <<file, seal, externals>>
  BY DEF Validate, Advance, Finish, CheckFence, sealVars, bounds
<1>2. CASE End(t)
  BY <1>1, <1>2, EndSealed
<1>3. ASSUME NEW step \in {"ready", "fence", "begin"}, NEW c, NEW n,
             Continue(t, step, c, n)
      PROVE  SealInv'
  <2>1. Operating(t)
    BY DEF Validate, Advance, Finish, CheckFence, RegistryInv, StepsRegistered, Operating
  <2>2. OthersKeep(t) /\ task'[t] = task[t] /\ pc'[t] = step
    BY <1>3, ContinueQuiet
  <2>3. CASE step = "begin"
    BY <1>1, <2>1, <2>2, <2>3, BeginAlone
  <2>4. CASE step # "begin"
    <3>1. task[t] \in May[t]
      BY <2>1 DEF SealInv, Allowed, Operating, Operations
    <3> QED BY <1>1, <2>1, <2>2, <2>4, <3>1, QuietStep DEF Operating, Operations
  <2> QED BY <2>3, <2>4
<1> QED BY <1>2, <1>3 DEF Validate, Advance, Finish, CheckFence, Goto

LEMMA EnvironmentSealed ==
  ASSUME RegistryInv, SealInv, ExternalChange \/ \E p \in Processes : Crash(p)
  PROVE  SealInv'
<1>1. CASE ExternalChange
  <2>1. externals' # 0 /\ task' = task
    BY <1>1, BoundsAssumption
       DEF ExternalChange, local, RegistryInv, TypeOK, BoundsAssumption
  <2> QED BY <2>1 DEF SealInv, Allowed
<1>2. ASSUME NEW p \in Processes, Crash(p) PROVE SealInv'
  <2>1. UNCHANGED <<file, seal, externals>>
    BY <1>2 DEF Crash, sealVars
  <2>2. \A u \in Threads :
          IF Process[u] = p THEN pc'[u] = "idle" /\ task'[u] = "none"
          ELSE /\ pc'[u] = pc[u] /\ task'[u] = task[u] /\ copy'[u] = copy[u]
               /\ next'[u] = next[u] /\ intent'[u] = intent[u]
    BY <1>2 DEF Crash
  <2>3. \A u \in Threads : task'[u] # "none" => task'[u] \in May[u]
    BY <2>2 DEF SealInv, Allowed
  <2> SUFFICES ASSUME externals' = 0
               PROVE  (SealMatches /\ WritersAgree /\ \A u \in Threads : WriterFacts(u))'
    BY <2>3 DEF SealInv, Allowed
  <2>4. SealMatches /\ WritersAgree /\ \A u \in Threads : WriterFacts(u)
    BY <2>1 DEF SealInv
  <2>5. SealMatches'
    BY <2>1, <2>4 DEF SealMatches
  <2>6. WritersAgree'
    BY <2>2, <2>4 DEF WritersAgree, Writing
  <2>7. ASSUME NEW u \in Threads PROVE WriterFacts(u)'
    <3>1. CASE Process[u] = p
      BY <2>2, <3>1 DEF WriterFacts
    <3>2. CASE Process[u] # p
      BY <2>1, <2>2, <2>4, <3>2, OtherFacts
    <3> QED BY <3>1, <3>2
  <2> QED BY <2>5, <2>6, <2>7
<1> QED BY <1>1, <1>2

LEMMA SealStarts == Init => SealInv
<1>1. Initial # None => SealedRow(Initial) # None
  BY InitialAssumption, NoneAssumption
     DEF InitialAssumption, NoneAssumption, SealedRow, Row
<1>2. Init => SealMatches
  BY <1>1 DEF Init, SealMatches, SealedRow
<1> QED BY <1>2 DEF Init, SealInv, Allowed, WritersAgree, Writing, WriterFacts

LEMMA SealStep ==
  ASSUME SerialWriters, None \notin Record, RegistryInv, SealInv, [Next]_vars,
         unread' = 0, unread = 0
  PROVE  SealInv'
<1>1. CASE Next
  BY <1>1, StartSealed, GuardSealed, TaskSealed, RereadSealed, BeginSealed, WriteSealed,
     CommitSealed, EnvironmentSealed DEF Next, Work
<1>2. CASE UNCHANGED vars
  <2>1. UNCHANGED <<file, seal, externals, task, pc, copy, next, intent>>
    BY <1>2 DEF vars, local, bounds
  <2>2. ASSUME NEW u \in Threads, WriterFacts(u) PROVE WriterFacts(u)'
    BY <2>1, <2>2, OtherFacts
  <2> QED BY <2>1, <2>2 DEF SealInv, Allowed, SealMatches, WritersAgree, Writing
<1> QED BY <1>1, <1>2

LEMMA SealMatchesTrusted == SealMatches => ~Refused
BY DEF SealMatches, Refused, SealCheck

\* A journal that no other program touched is never refused by its seal, whatever
\* crashes and failed writes it met, if its writers go one after the other and
\* recoveries that overlap agree on what they find and read what they settle.
THEOREM HonestStaysTrustedCorrect ==
  ASSUME SerialWriters, None \notin Record
  PROVE  Spec => []HonestStaysTrusted
<1> DEFINE IInv == RegistryInv /\ (unread = 0 => SealInv)
<1>1. IInv /\ [Next]_vars => IInv'
  BY RegistryStep, SealStep, BudgetsGrow
<1>2. IInv => HonestStaysTrusted
  BY SealMatchesTrusted DEF SealInv, HonestStaysTrusted
<1>3. Init => IInv
  BY RegistryStarts, SealStarts
<1> QED BY <1>1, <1>2, <1>3, PTL DEF Spec

-----------------------------------------------------------------------------
(* Confirmed writes are kept and an Undo replaces only what it judged.      *)

\* The invariants, and the threads they are proved for.
Serial == SerialWriters /\ None \notin Record
AccessInv == RegistryInv /\ SealInv /\ KeptInv

----------------------------------------------------------------------------
(* Steps that replace no journal and confirm nothing *)

LEMMA OtherCopyFacts ==
  ASSUME NEW u \in Threads, CopyFacts(u), UNCHANGED <<file, acked>>,
         task'[u] = task[u], pc'[u] = pc[u], copy'[u] = copy[u], next'[u] = next[u]
  PROVE  CopyFacts(u)'
BY DEF CopyFacts, Operating

LEMMA QuietKept ==
  ASSUME KeptInv, NEW t \in Threads, UNCHANGED <<file, acked, externals>>, OthersKeep(t),
         externals = 0 => CopyFacts(t)'
  PROVE  KeptInv'
<1>1. ASSUME externals = 0, NEW u \in Threads PROVE CopyFacts(u)'
  <2>1. CASE u # t
    BY <1>1, <2>1, OtherCopyFacts DEF KeptInv, OthersKeep
  <2> QED BY <1>1, <2>1
<1> QED BY <1>1 DEF KeptInv

LEMMA EndKept ==
  ASSUME RegistryInv, KeptInv, NEW t \in Threads, End(t), UNCHANGED <<file, acked, externals>>
  PROVE  KeptInv'
<1>1. OthersKeep(t) /\ task'[t] = "none"
  BY EndQuiet
<1>2. CopyFacts(t)'
  BY <1>1 DEF CopyFacts, Operating, Operations
<1> QED BY <1>1, <1>2, QuietKept

LEMMA StartKept ==
  ASSUME AccessInv, NEW t \in Threads, StartTask(t)
  PROVE  KeptInv'
<1>1. /\ OthersKeep(t) /\ pc'[t] \in {"opening", "serialise", "listed", "begin"}
      /\ pc'[t] = "begin" => task'[t] = "leave"
      /\ task'[t] = "apply" => file = None /\ copy'[t] = {}
  BY StartQuiet
     DEF AccessInv, StartTask, StartApply, StartUndo, StartOrganiseUndo, ListRecovery,
         LeaveUntouched
<1>2. UNCHANGED <<file, acked, externals>>
  BY DEF StartTask, StartApply, StartUndo, StartOrganiseUndo, ListRecovery,
         LeaveUntouched, Start, sealVars, bounds
<1>3. CopyFacts(t)'
  <2>1. ~Operating(t)' \/ pc'[t] = "listed"
    BY <1>1 DEF Operating, Operations
  <2>2. pc'[t] = "listed" => task'[t] = "recover"
    BY StartQuiet
       DEF AccessInv, StartTask, StartApply, StartUndo, StartOrganiseUndo, ListRecovery,
           LeaveUntouched
  <2> QED BY <1>1, <1>2, <2>1, <2>2 DEF CopyFacts, Operating, Operations
<1> QED BY <1>1, <1>2, <1>3, QuietKept DEF AccessInv

LEMMA GuardKept ==
  ASSUME AccessInv, NEW t \in Threads, Serialise(t) \/ MarkLive(t) \/ ClaimRecovery(t)
  PROVE  KeptInv'
<1>1. CASE End(t) /\ ClaimRecovery(t)
  BY <1>1, EndKept DEF AccessInv, ClaimRecovery, sealVars, bounds
<1>2. CASE Serialise(t)
  <2>1. OthersKeep(t) /\ task'[t] = "organise" /\ pc'[t] = "opening"
    BY <1>2 DEF AccessInv, Serialise, RegistryInv, TypeOK, StepsRegistered, OthersKeep
  <2> QED BY <1>2, <2>1, QuietKept
          DEF AccessInv, Serialise, CopyFacts, Operating, sealVars, bounds
<1>3. CASE MarkLive(t)
  <2>1. /\ OthersKeep(t) /\ task'[t] = task[t] /\ copy'[t] = copy[t]
        /\ pc'[t] = IF task[t] = "apply" THEN "ready" ELSE "validate"
    BY <1>3 DEF AccessInv, MarkLive, RegistryInv, TypeOK, OthersKeep
  <2>2. externals = 0 /\ task[t] = "apply" => acked = {}
    BY <1>3 DEF AccessInv, KeptInv, CopyFacts, MarkLive
  <2>3. externals = 0 => CopyFacts(t)'
    BY <1>3, <2>1, <2>2 DEF CopyFacts, MarkLive
  <2> QED BY <1>3, <2>1, <2>3, QuietKept DEF AccessInv, MarkLive, sealVars, bounds
<1>4. CASE ClaimRecovery(t) /\ ~End(t)
  <2>1. OthersKeep(t) /\ task'[t] = "recover"
    BY <1>4 DEF AccessInv, ClaimRecovery, RegistryInv, TypeOK, StepsRegistered, OthersKeep
  <2> QED BY <1>4, <2>1, QuietKept
          DEF AccessInv, ClaimRecovery, CopyFacts, Operating, Operations, sealVars, bounds
<1> QED BY <1>1, <1>2, <1>3, <1>4

\* A pass goes on from the journal it adopted, or from its own last record.
LEMMA TaskKept ==
  ASSUME AccessInv, NEW t \in Threads,
         Validate(t) \/ Advance(t) \/ Finish(t) \/ CheckFence(t) \/ Reread(t)
  PROVE  KeptInv'
<1>1. UNCHANGED <<file, acked, externals>>
  BY DEF Validate, Advance, Finish, CheckFence, Reread, sealVars, bounds
<1>2. CASE End(t)
  BY <1>1, <1>2, EndKept DEF AccessInv
<1>3. externals = 0 => CopyFacts(t) /\ (file # None => acked \subseteq file)
  BY DEF AccessInv, KeptInv
<1>4. CASE Validate(t) /\ ~End(t)
  <2>1. file # None
    BY <1>4, TrustedIsThere DEF Validate
  <2>2. OthersKeep(t) /\ task'[t] = task[t] /\ copy'[t] = file /\ pc'[t] \in {"ready", "begin"}
    BY <1>4, ContinueQuiet DEF AccessInv, Validate
  <2>3. pc'[t] = "begin" => copy'[t] \subseteq next'[t]
    <3>1. ASSUME NEW o, Continue(t, "begin", file, Settled(file, o))
          PROVE  copy'[t] \subseteq next'[t]
      <4>1. copy'[t] = file /\ next'[t] = Settled(file, o)
        BY <3>1, ContinueQuiet DEF AccessInv
      <4> QED BY <4>1 DEF Settled
    <3>2. Continue(t, "ready", file, None) => pc'[t] = "ready"
      BY ContinueQuiet DEF AccessInv
    <3> QED BY <1>4, <3>1, <3>2 DEF Validate
  <2>4. externals = 0 => CopyFacts(t)'
    BY <1>1, <1>3, <2>1, <2>2, <2>3 DEF CopyFacts
  <2> QED BY <1>1, <2>2, <2>4, QuietKept DEF AccessInv
<1>5. CASE Advance(t)
  <2>1. PICK e : Continue(t, IF task[t] = "apply" THEN "begin" ELSE "fence",
                          copy[t], copy[t] \cup {e})
    BY <1>5 DEF Advance
  <2>2. /\ OthersKeep(t) /\ task'[t] = task[t] /\ copy'[t] = copy[t]
        /\ next'[t] = copy[t] \cup {e}
        /\ pc'[t] = IF task[t] = "apply" THEN "begin" ELSE "fence"
    BY <2>1, ContinueQuiet DEF AccessInv
  <2>3. pc[t] = "ready" /\ Operating(t)
    BY <1>5 DEF Advance, AccessInv, RegistryInv, StepsRegistered, Operating
  <2>4. externals = 0 => CopyFacts(t)'
    BY <1>1, <1>3, <2>2, <2>3 DEF CopyFacts
  <2> QED BY <1>1, <2>2, <2>4, QuietKept DEF AccessInv
<1>6. CASE CheckFence(t) /\ ~End(t)
  <2>1. /\ OthersKeep(t) /\ task'[t] = task[t] /\ copy'[t] = copy[t]
        /\ next'[t] = next[t] /\ pc'[t] = "begin" /\ file = copy[t]
    BY <1>6, ContinueQuiet DEF AccessInv, CheckFence, Goto
  <2>2. pc[t] = "fence" /\ Operating(t)
    BY <1>6 DEF CheckFence, AccessInv, RegistryInv, StepsRegistered, Operating
  <2>3. externals = 0 => CopyFacts(t)'
    BY <1>1, <1>3, <2>1, <2>2 DEF CopyFacts
  <2> QED BY <1>1, <2>1, <2>3, QuietKept DEF AccessInv
<1>7. CASE Reread(t) /\ ~End(t)
  <2>1. OthersKeep(t) /\ task'[t] = "recover"
    BY <1>7, ContinueQuiet DEF AccessInv, Reread, Settle, RegistryInv, StepsRegistered
  <2> QED BY <1>1, <2>1, QuietKept DEF AccessInv, CopyFacts, Operating, Operations
<1> QED BY <1>2, <1>4, <1>5, <1>6, <1>7 DEF Finish

----------------------------------------------------------------------------
(* The steps of write_journal *)

\* Whoever writes, writes everything confirmed so far.
LEMMA WriterKeeps ==
  ASSUME SerialWriters, AccessInv, externals = 0, NEW t \in Threads, Writing(t)
  PROVE  acked \subseteq next[t]
<1>1. task[t] \in Operations \cup {"recover"}
  BY DEF AccessInv, RegistryInv, TypeOK, SealInv, Allowed, SerialWriters, Tasks, Writing
<1>2. CASE task[t] \in Operations
  BY <1>2 DEF AccessInv, KeptInv, CopyFacts, Operating, Writing
<1>3. CASE task[t] = "recover"
  <2>1. /\ file # None /\ file \in {copy[t], next[t]}
        /\ \E o \in Outcomes : next[t] = Settled(copy[t], o)
    BY <1>3 DEF AccessInv, SealInv, WriterFacts, RecoveryFacts
  <2>2. copy[t] \subseteq next[t]
    BY <2>1 DEF Settled
  <2> QED BY <2>1, <2>2 DEF AccessInv, KeptInv
<1> QED BY <1>1, <1>2, <1>3

\* Nobody else is in the middle of a pass, or about to apply, while t writes.
LEMMA WriterAlone ==
  ASSUME SerialWriters, AccessInv, externals = 0,
         NEW t \in Threads, Writing(t), NEW u \in Threads \ {t}
  PROVE  ~Operating(u) /\ ~(task[u] = "apply" /\ pc[u] = "opening")
<1>1. ~Operating(u)
  BY OperatorAlone DEF AccessInv, SealInv
<1>2. ASSUME task[u] = "apply", pc[u] = "opening" PROVE FALSE
  <2>1. file = None
    BY <1>2 DEF AccessInv, KeptInv, CopyFacts
  <2>2. task[t] # "recover"
    BY <2>1 DEF AccessInv, SealInv, WriterFacts, RecoveryFacts
  <2>3. task[t] \in Operations
    BY <2>2 DEF AccessInv, RegistryInv, TypeOK, SealInv, Allowed, SerialWriters, Tasks, Writing
  <2>4. task[t] \in May[t] /\ "apply" \in May[u]
    BY <1>2, <2>3 DEF AccessInv, SealInv, Allowed, Operations
  <2> QED BY <2>3, <2>4 DEF SerialWriters, Operations
<1> QED BY <1>1, <1>2

LEMMA BeginKept ==
  ASSUME AccessInv, NEW t \in Threads, Begin(t)
  PROVE  KeptInv'
<1>1. UNCHANGED <<file, acked, externals>>
  BY DEF Begin, UseFault, bounds
<1>2. CASE End(t)
  BY <1>1, <1>2, EndKept DEF AccessInv
<1>3. CASE pc' = [pc EXCEPT ![t] = "write"] /\ UNCHANGED <<task, copy, next>>
           /\ intent' = [intent EXCEPT ![t] = seal'.pgen]
  <2>1. OthersKeep(t) /\ pc'[t] = "write" /\ pc[t] = "begin"
    BY <1>3 DEF AccessInv, RegistryInv, TypeOK, OthersKeep, Begin
  <2>2. externals = 0 => CopyFacts(t)
    BY DEF AccessInv, KeptInv
  <2>3. externals = 0 => CopyFacts(t)'
    BY <1>1, <1>3, <2>1, <2>2 DEF CopyFacts, Operating
  <2> QED BY <1>1, <2>1, <2>3, QuietKept DEF AccessInv
<1> QED BY <1>2, <1>3 DEF Begin

LEMMA WriteKept ==
  ASSUME Serial, AccessInv, NEW t \in Threads, Write(t)
  PROVE  KeptInv'
<1>1. UNCHANGED <<acked, externals>>
  BY DEF Write, UseFault, bounds
<1>2. CASE End(t) /\ UNCHANGED file
  BY <1>1, <1>2, EndKept DEF AccessInv
<1>3. CASE file' = next[t] /\ (Goto(t, "commit") \/ End(t))
  <2>1. Writing(t) /\ pc[t] = "write" /\ next[t] # None
    BY DEF Write, Writing, AccessInv, RegistryInv, StepsRegistered, Serial
  <2>2. /\ OthersKeep(t)
        /\ \/ task'[t] = "none" /\ pc'[t] = "idle"
           \/ /\ task'[t] = task[t] /\ pc'[t] = "commit" /\ copy'[t] = copy[t]
              /\ next'[t] = next[t]
    BY <1>3, EndQuiet, ContinueQuiet DEF Goto, AccessInv
  <2> SUFFICES ASSUME externals = 0
               PROVE  (/\ acked \subseteq (IF file = None THEN {} ELSE file)
                       /\ \A u \in Threads : CopyFacts(u))'
    BY <1>1 DEF KeptInv
  <2>3. acked \subseteq next[t]
    BY <2>1, WriterKeeps DEF Serial
  <2>4. ASSUME NEW u \in Threads \ {t} PROVE CopyFacts(u)'
    <3>1. ~Operating(u) /\ ~(task[u] = "apply" /\ pc[u] = "opening")
      BY <2>1, WriterAlone DEF Serial
    <3>2. task'[u] = task[u] /\ pc'[u] = pc[u]
      BY <2>2 DEF OthersKeep
    <3> QED BY <3>1, <3>2 DEF CopyFacts, Operating, Operations
  <2>5. CopyFacts(t)
    BY DEF AccessInv, KeptInv
  <2>6. CopyFacts(t)'
    BY <1>1, <2>1, <2>2, <2>5 DEF CopyFacts, Operating, Operations
  <2> QED BY <1>1, <1>3, <2>1, <2>3, <2>4, <2>6
<1> QED BY <1>2, <1>3 DEF Write, ReplaceFile, Goto, Continue

LEMMA CommitKept ==
  ASSUME Serial, AccessInv, NEW t \in Threads, Commit(t)
  PROVE  KeptInv'
<1>1. UNCHANGED <<file, externals>>
  BY DEF Commit, UseFault, bounds
<1>2. CASE End(t) /\ UNCHANGED acked
  BY <1>1, <1>2, EndKept DEF AccessInv
<1>3. CASE /\ acked' = acked \cup next[t]
           /\ IF task[t] \in {"recover", "leave"} THEN End(t)
              ELSE Continue(t, AfterWrite(t), next[t], None)
  <2>1. Writing(t) /\ pc[t] = "commit" /\ next[t] # None
    BY DEF Commit, Writing, AccessInv, RegistryInv, StepsRegistered, Serial
  <2>2. /\ OthersKeep(t)
        /\ \/ task'[t] = "none" /\ pc'[t] = "idle"
           \/ pc'[t] \in {"validate", "ready"} /\ copy'[t] = next[t]
    <3>1. AfterWrite(t) \in {"validate", "ready"}
      BY DEF AfterWrite
    <3> QED BY <1>3, <3>1, EndQuiet, ContinueQuiet DEF AccessInv
  <2> SUFFICES ASSUME externals = 0
               PROVE  (/\ acked \subseteq (IF file = None THEN {} ELSE file)
                       /\ \A u \in Threads : CopyFacts(u))'
    BY <1>1 DEF KeptInv
  <2>3. file = next[t]
    BY <2>1 DEF AccessInv, SealInv, WriterFacts
  <2>4. acked \subseteq next[t]
    BY <2>1, WriterKeeps DEF Serial
  <2>5. ASSUME NEW u \in Threads \ {t} PROVE CopyFacts(u)'
    <3>1. ~Operating(u) /\ ~(task[u] = "apply" /\ pc[u] = "opening")
      BY <2>1, WriterAlone DEF Serial
    <3>2. task'[u] = task[u] /\ pc'[u] = pc[u]
      BY <2>2 DEF OthersKeep
    <3> QED BY <3>1, <3>2 DEF CopyFacts, Operating, Operations
  <2>6. CopyFacts(t)'
    BY <1>3, <2>2, <2>4 DEF CopyFacts, Operating, Operations
  <2> QED BY <1>1, <1>3, <2>1, <2>3, <2>4, <2>5, <2>6
<1> QED BY <1>2, <1>3 DEF Commit

----------------------------------------------------------------------------

LEMMA EnvironmentKept ==
  ASSUME AccessInv, ExternalChange \/ \E p \in Processes : Crash(p)
  PROVE  KeptInv'
<1>1. CASE ExternalChange
  BY <1>1, BoundsAssumption
     DEF ExternalChange, KeptInv, AccessInv, RegistryInv, TypeOK, BoundsAssumption
<1>2. ASSUME NEW p \in Processes, Crash(p) PROVE KeptInv'
  <2>1. UNCHANGED <<file, acked, externals>>
    BY <1>2 DEF Crash, sealVars
  <2>2. \A u \in Threads :
          IF Process[u] = p THEN pc'[u] = "idle" /\ task'[u] = "none"
          ELSE /\ pc'[u] = pc[u] /\ task'[u] = task[u] /\ copy'[u] = copy[u]
               /\ next'[u] = next[u]
    BY <1>2 DEF Crash
  <2>3. ASSUME externals = 0, NEW u \in Threads PROVE CopyFacts(u)'
    <3>1. CASE Process[u] = p
      BY <2>2, <3>1 DEF CopyFacts, Operating, Operations
    <3>2. CASE Process[u] # p
      BY <2>1, <2>2, <2>3, <3>2, OtherCopyFacts DEF AccessInv, KeptInv
    <3> QED BY <3>1, <3>2
  <2> QED BY <2>1, <2>3 DEF AccessInv, KeptInv
<1> QED BY <1>1, <1>2

LEMMA AccessStarts == Init => AccessInv
<1>1. Init => KeptInv
  BY DEF Init, KeptInv, CopyFacts, Operating, Operations
<1> QED BY <1>1, RegistryStarts, SealStarts DEF AccessInv

LEMMA AccessStep ==
  ASSUME Serial, AccessInv, [Next]_vars, unread' = 0, unread = 0
  PROVE  AccessInv'
<1>1. RegistryInv' /\ SealInv'
  BY RegistryStep, SealStep DEF Serial, AccessInv
<1>2. KeptInv'
  <2>1. CASE Next
    BY <2>1, StartKept, GuardKept, TaskKept, BeginKept, WriteKept, CommitKept,
       EnvironmentKept DEF Next, Work
  <2>2. CASE UNCHANGED vars
    <3>1. UNCHANGED <<file, acked, externals, task, pc, copy, next>>
      BY <2>2 DEF vars, local, bounds
    <3>2. ASSUME NEW u \in Threads, CopyFacts(u) PROVE CopyFacts(u)'
      BY <3>1, <3>2, OtherCopyFacts
    <3> QED BY <3>1, <3>2 DEF AccessInv, KeptInv
  <2> QED BY <2>1, <2>2
<1> QED BY <1>1, <1>2 DEF AccessInv

\* Every edit a write_journal confirmed is in the journal for good: no recovery or
\* pass that works from an older copy writes it away, through crashes, failed
\* writes and writes that landed but were reported as failed, unless a recovery
\* went on without having read the journal.
THEOREM NothingLostCorrect ==
  ASSUME SerialWriters, None \notin Record
  PROVE  Spec => []NothingLost
<1> DEFINE IInv == RegistryInv /\ (unread = 0 => AccessInv)
<1>1. IInv /\ [Next]_vars => IInv'
  BY RegistryStep, AccessStep, BudgetsGrow DEF Serial
<1>2. IInv => NothingLost
  BY DEF AccessInv, KeptInv, NothingLost
<1>3. Init => IInv
  BY AccessStarts, RegistryStarts
<1> QED BY <1>1, <1>2, <1>3, PTL DEF Spec

-----------------------------------------------------------------------------
(* An Undo replaces only what it judged, whoever could not read what.       *)

LEMMA ThreadKeeps ==
  ASSUME RegistryInv, NEW t \in Threads,
         StartTask(t) \/ Serialise(t) \/ MarkLive(t) \/ Work(t)
  PROVE  OthersKeep(t) /\ (~Write(t) => UNCHANGED file)
<1>1. CASE End(t)
  BY <1>1, EndQuiet
     DEF StartTask, StartApply, StartUndo, StartOrganiseUndo, ListRecovery, LeaveUntouched,
         Start, Serialise, MarkLive, Work, Validate, Advance, Finish, CheckFence,
         ClaimRecovery, Reread, Begin, Commit, sealVars
<1>2. ASSUME NEW step, NEW c, NEW n, Continue(t, step, c, n) PROVE OthersKeep(t)
  BY <1>2, ContinueQuiet
<1>3. CASE StartTask(t)
  BY <1>3, StartQuiet
     DEF StartTask, StartApply, StartUndo, StartOrganiseUndo, ListRecovery, LeaveUntouched
<1>4. CASE Serialise(t) \/ MarkLive(t) \/ (ClaimRecovery(t) /\ ~End(t))
  BY <1>4 DEF Serialise, MarkLive, ClaimRecovery, RegistryInv, TypeOK, OthersKeep, sealVars
<1>5. CASE (Begin(t) \/ Write(t) \/ Commit(t)) /\ ~End(t)
  BY <1>2, <1>5 DEF Begin, Write, Commit, Goto, RegistryInv, TypeOK, OthersKeep
<1>6. CASE (Validate(t) \/ Advance(t) \/ CheckFence(t) \/ Reread(t)) /\ ~End(t)
  BY <1>2, <1>6 DEF Validate, Advance, CheckFence, Reread, Settle, Goto, sealVars
<1> QED BY <1>1, <1>3, <1>4, <1>5, <1>6 DEF Work, Finish

LEMMA StartAllowed ==
  ASSUME RegistryInv, Allowed, NEW t \in Threads,
         StartTask(t) \/ Serialise(t) \/ MarkLive(t) \/ Work(t)
  PROVE  task'[t] # "none" => task'[t] \in May[t]
<1>1. CASE StartTask(t)
  BY <1>1, StartQuiet
     DEF StartTask, StartApply, StartUndo, StartOrganiseUndo, ListRecovery, LeaveUntouched
<1>2. CASE End(t)
  BY <1>2, EndQuiet
<1>3. CASE UNCHANGED task
  BY <1>3 DEF Allowed
<1> QED BY <1>1, <1>2, <1>3
        DEF Serialise, MarkLive, Work, Validate, Advance, Finish, CheckFence, ClaimRecovery,
            Reread, Settle, Begin, Write, Commit, Goto, Continue

\* The steps by which an Undo comes to write, or nears it.
LEMMA UndoNears ==
  ASSUME RegistryInv, NEW t \in Threads,
         StartTask(t) \/ Serialise(t) \/ MarkLive(t) \/ Work(t),
         task'[t] \in {"undo", "organise"}, pc'[t] \in {"begin", "write"}
  PROVE  \/ copy'[t] = file
         \/ /\ task[t] = task'[t] /\ pc[t] \in {"begin", "write"}
            /\ copy'[t] = copy[t]
<1>1. task \in [Threads -> Tasks \cup {"none"}] /\ pc \in [Threads -> Steps]
  BY DEF RegistryInv, TypeOK
<1>2. ~StartTask(t)
  BY StartQuiet
     DEF StartTask, StartApply, StartUndo, StartOrganiseUndo, ListRecovery, LeaveUntouched
<1>3. ~End(t)
  BY EndQuiet
<1>4. ~Serialise(t) /\ ~MarkLive(t) /\ ~ClaimRecovery(t) /\ ~Finish(t)
  BY <1>1, <1>3 DEF Serialise, MarkLive, ClaimRecovery, Finish
<1>5. ASSUME Advance(t) PROVE FALSE
  BY <1>5, ContinueQuiet DEF Advance
<1>6. ASSUME Reread(t) PROVE FALSE
  BY <1>3, <1>6, ContinueQuiet DEF Reread, Settle, RegistryInv, StepsRegistered
<1>7. CASE Validate(t) \/ CheckFence(t)
  BY <1>3, <1>7, ContinueQuiet DEF Validate, CheckFence, Goto
<1>8. CASE Begin(t)
  BY <1>3, <1>8 DEF Begin
<1>9. ~Write(t) /\ ~Commit(t)
  BY <1>3, ContinueQuiet DEF Write, Commit, Goto, AfterWrite
<1> QED BY <1>2, <1>4, <1>5, <1>6, <1>7, <1>8, <1>9 DEF Work

LEMMA FenceStep ==
  ASSUME SerialWriters, RegistryInv, FenceInv, [Next]_vars
  PROVE  FenceInv'
<1>1. ASSUME NEW t \in Threads, StartTask(t) \/ Serialise(t) \/ MarkLive(t) \/ Work(t)
      PROVE  FenceInv'
  <2>1. OthersKeep(t) /\ (~Write(t) => UNCHANGED file)
    BY <1>1, ThreadKeeps
  <2>2. Allowed'
    BY <1>1, <2>1, StartAllowed DEF FenceInv, Allowed, OthersKeep
  <2> SUFFICES ASSUME externals' = 0, NEW u \in Threads,
                      task'[u] \in {"undo", "organise"}, pc'[u] \in {"begin", "write"}
               PROVE  file' = copy'[u]
    BY <2>2 DEF FenceInv
  <2>3. externals = 0
    BY BudgetsGrow
  <2>4. CASE u = t
    <3>1. ~Write(t)
      <4>1. ASSUME Write(t) PROVE pc'[t] \in {"commit", "idle"}
        BY <4>1, EndQuiet, ContinueQuiet DEF Write, Goto
      <4> QED BY <2>4, <4>1
    <3> QED BY <1>1, <2>1, <2>3, <2>4, <3>1, UndoNears DEF FenceInv
  <2>5. CASE u # t
    <3>1. task'[u] = task[u] /\ pc'[u] = pc[u] /\ copy'[u] = copy[u]
      BY <2>1, <2>5 DEF OthersKeep
    <3>2. Operating(u)
      BY <3>1 DEF Operating, Operations
    <3>3. ~Write(t)
      BY <2>5, <3>2, OperatorAlone DEF FenceInv, Write, Writing
    <3> QED BY <2>1, <2>3, <3>1, <3>3 DEF FenceInv
  <2> QED BY <2>4, <2>5
<1>2. CASE ExternalChange
  <2>1. externals' # 0 /\ task' = task
    BY <1>2, BoundsAssumption DEF ExternalChange, local, RegistryInv, TypeOK, BoundsAssumption
  <2> QED BY <2>1 DEF FenceInv, Allowed
<1>3. ASSUME NEW p \in Processes, Crash(p) PROVE FenceInv'
  <2>1. \A u \in Threads :
          IF Process[u] = p THEN pc'[u] = "idle" /\ task'[u] = "none"
          ELSE pc'[u] = pc[u] /\ task'[u] = task[u] /\ copy'[u] = copy[u]
    BY <1>3 DEF Crash
  <2> QED BY <1>3, <2>1 DEF Crash, sealVars, FenceInv, Allowed
<1>4. CASE UNCHANGED vars
  BY <1>4 DEF vars, local, bounds, sealVars, FenceInv, Allowed
<1> QED BY <1>1, <1>2, <1>3, <1>4 DEF Next

\* An Undo replaces only the journal it validated or wrote last: between its fence
\* and its rename no other thread of the program writes.
THEOREM FenceHoldsCorrect ==
  ASSUME SerialWriters
  PROVE  Spec => FenceHolds
<1> DEFINE A == \A t \in Threads :
        /\ task[t] \in {"undo", "organise"} /\ pc[t] = "write" /\ pc'[t] # "write"
        /\ file' # file /\ externals' = 0
        => file = copy[t]
<1>1. RegistryInv /\ FenceInv /\ [Next]_vars => (RegistryInv /\ FenceInv)'
  BY RegistryStep, FenceStep
<1>2. RegistryInv /\ FenceInv /\ [Next]_vars => A
  BY BudgetsGrow DEF FenceInv
<1>3. RegistryInv /\ FenceInv /\ [Next]_vars => [A]_vars
  BY <1>2
<1>4. Init => RegistryInv /\ FenceInv
  BY RegistryStarts DEF Init, FenceInv, Allowed
<1> QED BY <1>1, <1>3, <1>4, PTL DEF Spec, FenceHolds

----------------------------------------------------------------------------
(* What another program put in place is never sealed.                       *)

OnlySealed == OnePageSettles /\ None \notin Record

LEMMA SettledClean ==
  ASSUME NEW r \in Record, NEW o \in Outcomes
  PROVE  Clean(Settled(r, o)) <=> Clean(r)
BY OutcomesAssumption DEF Settled, Clean, OutcomesAssumption

LEMMA AlienUnclean ==
  ASSUME NEW t \in Threads
  PROVE  ~Clean(Alien)
<1>1. <<t, 0, "alien">> \in Alien
  BY DEF Alien
<1> QED BY <1>1 DEF Clean

LEMMA EditsClean ==
  ASSUME NEW t \in Threads, NEW e \in NextEdits(t)
  PROVE  e[3] # "alien"
<1>1. PICK n \in {0} \cup Entries, s \in {"note", "moving", "done"} : e = <<t, n, s>>
  BY DEF NextEdits
<1> QED BY <1>1

\* A journal the seal does not refuse, while it records one, is one it records.
LEMMA TrustedClean ==
  ASSUME SealClean, ~Refused
  PROVE  file # None /\ Clean(file)
BY DEF SealClean, Refused, SealCheck

\* The file changed under nobody that still has to announce its intent.
NoneAwaits(t) ==
  \A u \in Threads \ {t} : ~(pc[u] = "begin" /\ task[u] \in {"recover", "leave"})

LEMMA StepClean ==
  ASSUME AdoptInv, NEW t \in Threads, OthersKeep(t), SealClean',
         task'[t] # "none" => task'[t] \in May[t], task'[t] # "apply",
         task'[t] \in Operations => \A u \in Threads : task[u] # "leave",
         file' = file \/ NoneAwaits(t), WriterClean(t)'
  PROVE  AdoptInv'
<1>1. ASSUME NEW u \in Threads \ {t} PROVE task'[u] # "apply" /\ WriterClean(u)'
  <2>1. /\ task'[u] = task[u] /\ pc'[u] = pc[u] /\ copy'[u] = copy[u]
        /\ next'[u] = next[u] /\ intent'[u] = intent[u]
    BY DEF OthersKeep
  <2>2. WriterClean(u) /\ task[u] # "apply"
    BY DEF AdoptInv
  <2>3. pc'[u] = "begin" /\ task'[u] \in {"recover", "leave"} =>
          Clean(next'[u]) \/ file' = None \/ ~Clean(file')
    BY <2>1, <2>2 DEF WriterClean, NoneAwaits
  <2>4. ASSUME task'[u] = "leave", NEW v \in Threads PROVE task'[v] \notin Operations
    <3>1. task[v] \notin Operations
      BY <2>1, <2>2, <2>4 DEF WriterClean
    <3>2. v # t => task'[v] = task[v]
      BY DEF OthersKeep
    <3>3. task[u] = "leave"
      BY <2>1, <2>4
    <3> QED BY <3>1, <3>2, <3>3
  <2>5. Operating(u)' <=> Operating(u)
    BY <2>1 DEF Operating
  <2> QED BY <2>1, <2>2, <2>3, <2>4, <2>5 DEF WriterClean
<1>2. \A u \in Threads : task'[u] # "none" => task'[u] \in May[u]
  BY DEF AdoptInv, Allowed, OthersKeep
<1>3. \A u \in Threads : task'[u] # "apply" /\ WriterClean(u)'
  BY <1>1
<1> QED BY <1>2, <1>3 DEF AdoptInv, Allowed

LEMMA EndClean ==
  ASSUME RegistryInv, AdoptInv, NEW t \in Threads, End(t), SealClean',
         file' = file \/ NoneAwaits(t)
  PROVE  AdoptInv'
<1>1. OthersKeep(t) /\ task'[t] = "none" /\ pc'[t] = "idle"
  BY EndQuiet
<1>2. WriterClean(t)'
  BY <1>1 DEF WriterClean, Operating, Operations
<1> QED BY <1>1, <1>2, StepClean DEF Operations

\* A task goes on, with the seal and the file as they are.
LEMMA GoesOnClean ==
  ASSUME RegistryInv, AdoptInv, NEW t \in Threads, OthersKeep(t), UNCHANGED <<file, seal>>,
         task'[t] = task[t], pc'[t] \notin {"write", "commit"},
         Operating(t)' /\ pc'[t] # "validate" => Clean(copy'[t]),
         Operating(t)' /\ pc'[t] \in {"fence", "begin"} => Clean(next'[t]),
         pc'[t] = "begin" /\ task[t] = "recover" =>
           Clean(next'[t]) \/ file = None \/ ~Clean(file),
         task[t] # "leave"
  PROVE  AdoptInv'
<1>1. SealClean'
  BY DEF AdoptInv, SealClean, Clean
<1>2. WriterClean(t)'
  BY DEF WriterClean
<1>3. task'[t] \in Operations => \A u \in Threads : task[u] # "leave"
  BY DEF AdoptInv, WriterClean
<1> QED BY <1>1, <1>2, <1>3, StepClean DEF AdoptInv, Allowed

LEMMA StartClean ==
  ASSUME OnlySealed, RegistryInv, AdoptInv, NEW t \in Threads, StartTask(t)
  PROVE  AdoptInv'
<1>1. /\ OthersKeep(t) /\ UNCHANGED <<file, seal>>
      /\ task'[t] \in May[t]
      /\ task'[t] \in {"undo", "organise", "recover", "leave"}
      /\ pc'[t] \in {"opening", "serialise", "listed", "begin"}
      /\ pc'[t] = "listed" <=> task'[t] = "recover"
      /\ pc'[t] = "begin" <=> task'[t] = "leave"
  <2>1. ~StartApply(t)
    BY DEF StartApply, AdoptInv, SealClean
  <2>2. CASE StartUndo(t)
    BY <2>2, StartQuiet DEF StartUndo
  <2>3. CASE StartOrganiseUndo(t)
    BY <2>3, StartQuiet DEF StartOrganiseUndo
  <2>4. CASE ListRecovery(t)
    BY <2>4, StartQuiet DEF ListRecovery
  <2>5. CASE LeaveUntouched(t)
    BY <2>5, StartQuiet DEF LeaveUntouched
  <2> QED BY <2>1, <2>2, <2>3, <2>4, <2>5 DEF StartTask
<1>2. SealClean'
  BY <1>1 DEF AdoptInv, SealClean, Clean
<1>3. ASSUME task'[t] \in Operations, NEW u \in Threads, task[u] = "leave" PROVE FALSE
  <2>1. "leave" \in May[u]
    BY <1>3 DEF AdoptInv, Allowed
  <2>2. Page[t] = Page[u] /\ "organise" \notin May[t]
    BY <2>1 DEF OnlySealed, OnePageSettles
  <2>3. StartUndo(t)
    BY <1>1, <1>3, <2>2, StartQuiet
       DEF StartTask, StartApply, StartOrganiseUndo, ListRecovery, LeaveUntouched, Operations
  <2> QED BY <1>3, <2>2, <2>3 DEF StartUndo, PageIdle
<1>4. WriterClean(t)'
  <2>1. CASE LeaveUntouched(t)
    <3>1. next'[t] = file \cup {<<t, 0, "note">>} /\ task'[t] = "leave" /\ "leave" \in May[t]
      BY <2>1, StartQuiet DEF LeaveUntouched
    <3>2. Clean(next'[t]) \/ ~Clean(file')
      BY <1>1, <3>1 DEF Clean
    <3>3. ASSUME NEW u \in Threads PROVE task'[u] \notin Operations
      <4>1. Page[u] = Page[t] /\ "organise" \notin May[u]
        BY <3>1 DEF OnlySealed, OnePageSettles
      <4>2. task[u] \notin Operations
        BY <2>1, <4>1 DEF LeaveUntouched, AdoptInv, Allowed, Operations
      <4> QED BY <1>1, <3>1, <4>2 DEF OthersKeep, Operations
    <3> QED BY <1>1, <3>1, <3>2, <3>3 DEF WriterClean, Operating, Operations
  <2>2. CASE ~LeaveUntouched(t)
    <3>1. task'[t] # "leave"
      BY <1>1, <2>2, StartQuiet
         DEF StartTask, StartApply, StartUndo, StartOrganiseUndo, ListRecovery
    <3> QED BY <1>1, <3>1 DEF WriterClean, Operating, Operations
  <2> QED BY <2>1, <2>2
<1>5. task'[t] # "apply"
  BY <1>1
<1> QED BY <1>1, <1>2, <1>3, <1>4, <1>5, StepClean

\* The steps of one thread outside write_journal.
LEMMA TaskClean ==
  ASSUME OnlySealed, RegistryInv, AdoptInv, NEW t \in Threads, unread' = unread,
         \/ Serialise(t) \/ MarkLive(t) \/ ClaimRecovery(t)
         \/ Validate(t) \/ Advance(t) \/ Finish(t) \/ CheckFence(t) \/ Reread(t)
  PROVE  AdoptInv'
<1>1. UNCHANGED <<file, seal>>
  BY DEF Serialise, MarkLive, ClaimRecovery, Validate, Advance, Finish, CheckFence, Reread,
         sealVars
<1>2. SealClean'
  BY <1>1 DEF AdoptInv, SealClean, Clean
<1>3. CASE End(t)
  BY <1>1, <1>2, <1>3, EndClean
<1>4. CASE Serialise(t)
  BY <1>1, <1>4, GoesOnClean
     DEF Serialise, RegistryInv, TypeOK, StepsRegistered, OthersKeep, Operating
<1>5. CASE MarkLive(t)
  <2>1. /\ OthersKeep(t) /\ task'[t] = task[t] /\ pc'[t] = "validate"
        /\ task[t] # "leave"
    BY <1>5
       DEF MarkLive, RegistryInv, TypeOK, StepsRegistered, OthersKeep, AdoptInv, Operations
  <2> QED BY <1>1, <2>1, GoesOnClean
<1>6. CASE ClaimRecovery(t) /\ ~End(t)
  <2>1. OthersKeep(t) /\ task'[t] = task[t] /\ pc'[t] = "claimed" /\ task[t] = "recover"
    BY <1>6 DEF ClaimRecovery, RegistryInv, TypeOK, StepsRegistered, OthersKeep
  <2> QED BY <1>1, <2>1, GoesOnClean DEF Operating, Operations
<1>7. CASE Validate(t) /\ ~End(t)
  <2>1. Trusted /\ task[t] \in Operations
    BY <1>7 DEF Validate, RegistryInv, StepsRegistered
  <2>2. file \in Record /\ Clean(file)
    BY <2>1, TrustedClean DEF Trusted, Refused, AdoptInv, RegistryInv, TypeOK
  <2>3. CASE Continue(t, "ready", file, None)
    BY <1>1, <2>1, <2>2, <2>3, ContinueQuiet, GoesOnClean DEF Operations
  <2>4. ASSUME NEW o \in Outcomes, Continue(t, "begin", file, Settled(file, o))
        PROVE  AdoptInv'
    <3>1. Clean(Settled(file, o))
      BY <2>2, SettledClean
    <3> QED BY <1>1, <2>1, <2>2, <2>4, <3>1, ContinueQuiet, GoesOnClean DEF Operations
  <2> QED BY <1>7, <2>3, <2>4 DEF Validate
<1>8. CASE Advance(t)
  <2>1. PICK e \in NextEdits(t) :
          Continue(t, IF task[t] = "apply" THEN "begin" ELSE "fence", copy[t], copy[t] \cup {e})
    BY <1>8 DEF Advance
  <2>2. task[t] \in Operations /\ Operating(t) /\ pc[t] = "ready"
    BY <1>8 DEF Advance, RegistryInv, StepsRegistered, Operating
  <2>3. Clean(copy[t])
    BY <2>2 DEF AdoptInv, WriterClean
  <2>4. Clean(copy[t] \cup {e})
    BY <2>3, EditsClean DEF Clean
  <2>5. /\ OthersKeep(t) /\ task'[t] = task[t] /\ pc'[t] = "fence"
        /\ copy'[t] = copy[t] /\ next'[t] = copy[t] \cup {e}
    BY <2>1, ContinueQuiet DEF AdoptInv
  <2> QED BY <1>1, <2>2, <2>3, <2>4, <2>5, GoesOnClean DEF Operations
<1>9. CASE CheckFence(t) /\ ~End(t)
  <2>1. /\ OthersKeep(t) /\ task'[t] = task[t] /\ copy'[t] = copy[t]
        /\ next'[t] = next[t] /\ pc'[t] = "begin"
    BY <1>9, ContinueQuiet DEF CheckFence, Goto
  <2>2. task[t] \in Operations /\ Operating(t) /\ pc[t] = "fence"
    BY <1>9 DEF CheckFence, RegistryInv, StepsRegistered, Operating
  <2>3. Clean(copy[t]) /\ Clean(next[t])
    BY <2>2 DEF AdoptInv, WriterClean
  <2> QED BY <1>1, <2>1, <2>2, <2>3, GoesOnClean DEF Operations
<1>10. CASE Reread(t) /\ ~End(t)
  <2>1. task[t] = "recover" /\ copy[t] \in Record /\ file \in {None, copy[t]}
    BY <1>10, BoundsAssumption
       DEF Reread, RegistryInv, TypeOK, StepsRegistered, BoundsAssumption
  <2>2. PICK o \in Outcomes : Continue(t, "begin", copy[t], Settled(copy[t], o))
    BY <1>10 DEF Reread, Settle
  <2>3. Clean(Settled(copy[t], o)) \/ file = None \/ ~Clean(file)
    BY <2>1, SettledClean
  <2> QED BY <1>1, <2>1, <2>2, <2>3, ContinueQuiet, GoesOnClean DEF Operating, Operations
<1> QED BY <1>3, <1>4, <1>5, <1>6, <1>7, <1>8, <1>9, <1>10 DEF Finish

\* The page that recovers or leaves writes alone.
LEMMA AloneClean ==
  ASSUME OnlySealed, RegistryInv, AdoptInv, NEW t \in Threads, pc[t] = "write"
  PROVE  NoneAwaits(t)
<1> SUFFICES ASSUME NEW u \in Threads \ {t}, pc[u] = "begin", task[u] \in {"recover", "leave"}
             PROVE  FALSE
  BY DEF NoneAwaits
<1>1. task[u] \in May[u] /\ task[t] \in May[t] /\ task[t] \in Tasks /\ task[t] # "apply"
  BY DEF AdoptInv, Allowed, RegistryInv, TypeOK
<1>2. May[t] \cap {"recover", "leave"} = {}
  BY <1>1 DEF OnlySealed, OnePageSettles
<1>3. task[t] \in Operations /\ Operating(t)
  BY <1>1, <1>2 DEF Tasks, Operating
<1>4. task[u] = "recover" /\ Recovering(u)
  BY <1>3 DEF AdoptInv, WriterClean, Recovering
<1>5. Process[t] = Process[u]
  BY DEF OnlySealed, OnePageSettles
<1>6. RecoveryExcluded
  BY DEF RegistryInv, StepsRegistered, GuardsExclude, RecoveryExcluded, Processes
<1> QED BY <1>3, <1>4, <1>5, <1>6 DEF RecoveryExcluded

LEMMA BeginClean ==
  ASSUME OnlySealed, RegistryInv, AdoptInv, NEW t \in Threads, Begin(t)
  PROVE  AdoptInv'
<1>1. CASE End(t) /\ UNCHANGED <<file, seal>>
  <2>1. SealClean'
    BY <1>1 DEF AdoptInv, SealClean, Clean
  <2> QED BY <1>1, <2>1, EndClean
<1>2. CASE /\ ~Refused /\ RecordIntent(next[t])
           /\ intent' = [intent EXCEPT ![t] = seal'.pgen]
           /\ pc' = [pc EXCEPT ![t] = "write"]
           /\ UNCHANGED <<registryVars, task, copy, next, bounds, file>>
  <2>1. pc[t] = "begin" /\ next[t] \in Record /\ next[t] # None
    BY DEF Begin, RegistryInv, StepsRegistered, OnlySealed
  <2>2. OthersKeep(t) /\ task'[t] = task[t] /\ copy'[t] = copy[t] /\ next'[t] = next[t]
        /\ pc'[t] = "write"
    BY <1>2 DEF RegistryInv, TypeOK, OthersKeep
  <2>3. file # None /\ Clean(file)
    BY <1>2, TrustedClean DEF AdoptInv
  <2>4. Clean(next[t])
    <3>1. task[t] \in Operations \cup {"recover", "leave"}
      BY <2>1 DEF RegistryInv, TypeOK, Tasks
    <3>2. task[t] \in Operations => Operating(t)
      BY <2>1 DEF Operating
    <3> QED BY <2>1, <2>3, <3>1, <3>2 DEF AdoptInv, WriterClean
  <2>5. SealClean' /\ seal'.pgen # 0
    <3>1. BaseRow.digest # None /\ Clean(BaseRow.digest) /\ BaseRow.gen \in Nat
      BY <1>2, TrustedClean
         DEF AdoptInv, SealClean, BaseRow, SealCheck, RegistryInv, TypeOK, Row
    <3>2. seal' = [gen |-> BaseRow.gen, digest |-> BaseRow.digest,
                   pgen |-> BaseRow.gen + 1, pdigest |-> next[t]]
      BY <1>2 DEF RecordIntent, AdoptInv, SealClean
    <3>3. seal' \in Row(Record)
      BY <1>2, <2>1, IntentTyped DEF RegistryInv, TypeOK
    <3>4. seal' # None
      BY <3>3, NoneAssumption DEF NoneAssumption
    <3>5. /\ seal'.digest = BaseRow.digest /\ seal'.pgen = BaseRow.gen + 1
          /\ seal'.pdigest = next[t]
      BY <3>2
    <3>6. seal'.pgen # 0
      BY <3>1, <3>5
    <3>7. Clean(seal'.digest) /\ Clean(seal'.pdigest)
      BY <2>4, <3>1, <3>5
    <3> QED BY <2>1, <3>1, <3>4, <3>5, <3>6, <3>7 DEF SealClean, Clean
  <2>6. WriterClean(t)'
    <3>1. seal'.pgen # 0 /\ intent'[t] = seal'.pgen
      BY <1>2, <2>5 DEF RegistryInv, TypeOK
    <3>2. WriterClean(t)
      BY DEF AdoptInv
    <3>3. Operating(t)' <=> Operating(t)
      BY <2>1, <2>2 DEF Operating
    <3>4. task'[t] = "leave" => \A u \in Threads : task'[u] \notin Operations
      BY <1>2, <3>2 DEF WriterClean
    <3> QED BY <2>1, <2>2, <2>4, <3>1, <3>2, <3>3, <3>4 DEF WriterClean
  <2>7. task'[t] \in Operations => \A u \in Threads : task[u] # "leave"
    BY <2>2 DEF AdoptInv, WriterClean
  <2> QED BY <1>2, <2>2, <2>5, <2>6, <2>7, StepClean DEF AdoptInv, Allowed
<1> QED BY <1>1, <1>2 DEF Begin, UseFault, bounds

LEMMA WriteClean ==
  ASSUME OnlySealed, RegistryInv, AdoptInv, NEW t \in Threads, Write(t)
  PROVE  AdoptInv'
<1>1. UNCHANGED seal /\ NoneAwaits(t) /\ pc[t] = "write"
  BY AloneClean DEF Write
<1>2. SealClean'
  BY <1>1 DEF AdoptInv, SealClean, Clean
<1>3. CASE End(t)
  BY <1>1, <1>2, <1>3, EndClean
<1>4. CASE Goto(t, "commit") /\ ReplaceFile(next[t])
  <2>1. /\ OthersKeep(t) /\ task'[t] = task[t] /\ copy'[t] = copy[t]
        /\ next'[t] = next[t] /\ pc'[t] = "commit"
    BY <1>4, ContinueQuiet DEF Goto
  <2>2. intent[t] # 0 /\ intent'[t] = intent[t]
    BY <1>1, <1>4 DEF AdoptInv, WriterClean, Goto, Continue
  <2>3. WriterClean(t)'
    <3>1. WriterClean(t) /\ Clean(next[t]) /\ Operating(t)' = Operating(t)
      BY <1>1, <2>1 DEF AdoptInv, WriterClean, Operating
    <3>2. task'[t] = "leave" => \A u \in Threads : task'[u] \notin Operations
      BY <1>4, <2>1, <3>1 DEF WriterClean, OthersKeep, Operations
    <3> QED BY <1>1, <2>1, <2>2, <3>1, <3>2 DEF WriterClean
  <2>4. task'[t] \in Operations => \A u \in Threads : task[u] # "leave"
    BY <2>1 DEF AdoptInv, WriterClean
  <2> QED BY <1>1, <1>2, <2>1, <2>3, <2>4, StepClean DEF AdoptInv, Allowed
<1> QED BY <1>3, <1>4 DEF Write

LEMMA CommitClean ==
  ASSUME OnlySealed, RegistryInv, AdoptInv, NEW t \in Threads, Commit(t)
  PROVE  AdoptInv'
<1>1. UNCHANGED file /\ pc[t] = "commit"
  BY DEF Commit
<1>2. Clean(next[t]) /\ intent[t] # 0
  BY <1>1 DEF AdoptInv, WriterClean
<1>3. SealClean'
  <2>1. CASE UNCHANGED seal
    BY <2>1 DEF AdoptInv, SealClean, Clean
  <2>2. CASE CommitIntent /\ seal.pgen = intent[t]
    <3>1. seal.pdigest # None /\ Clean(seal.pdigest)
      BY <1>2, <2>2 DEF AdoptInv, SealClean
    <3>2. /\ seal'.digest = seal.pdigest /\ seal'.pgen = 0 /\ seal'.pdigest = None
      BY <2>2 DEF CommitIntent
    <3>4. seal' # None
      BY <2>2, NoneAssumption DEF CommitIntent, NoneAssumption, Row, RegistryInv, TypeOK,
         AdoptInv, SealClean
    <3> QED BY <3>1, <3>2, <3>4 DEF SealClean, Clean
  <2> QED BY <2>1, <2>2 DEF Commit, CanCommit
<1>4. CASE End(t)
  BY <1>1, <1>3, <1>4, EndClean
<1>5. CASE task[t] \notin {"recover", "leave"} /\ Continue(t, AfterWrite(t), next[t], None)
  <2>1. /\ OthersKeep(t) /\ task'[t] = task[t] /\ copy'[t] = next[t]
        /\ pc'[t] \in {"validate", "ready"}
    BY <1>5, ContinueQuiet DEF AfterWrite
  <2>2. WriterClean(t)'
    BY <1>2, <1>5, <2>1 DEF WriterClean
  <2>3. task'[t] \in Operations => \A u \in Threads : task[u] # "leave"
    BY <2>1 DEF AdoptInv, WriterClean
  <2> QED BY <1>1, <1>3, <2>1, <2>2, <2>3, StepClean DEF AdoptInv, Allowed
<1> QED BY <1>4, <1>5 DEF Commit

LEMMA EnvironmentClean ==
  ASSUME RegistryInv, AdoptInv, ExternalChange \/ \E p \in Processes : Crash(p)
  PROVE  AdoptInv'
<1>1. UNCHANGED seal
  BY DEF ExternalChange, Crash, sealVars
<1>2. SealClean'
  BY <1>1 DEF AdoptInv, SealClean, Clean
<1>3. CASE ExternalChange
  <2>1. UNCHANGED <<task, pc, copy, next, intent>> /\ file' \in {None, Alien}
    BY <1>3 DEF ExternalChange, local
  <2>2. ASSUME NEW u \in Threads PROVE WriterClean(u)'
    <3>1. file' = None \/ ~Clean(file')
      BY <2>1, AlienUnclean
    <3> QED BY <2>1, <3>1 DEF AdoptInv, WriterClean, Operating
  <2> QED BY <1>2, <2>1, <2>2 DEF AdoptInv, Allowed
<1>4. ASSUME NEW p \in Processes, Crash(p) PROVE AdoptInv'
  <2>1. \A u \in Threads :
          IF Process[u] = p THEN pc'[u] = "idle" /\ task'[u] = "none"
          ELSE /\ pc'[u] = pc[u] /\ task'[u] = task[u] /\ copy'[u] = copy[u]
               /\ next'[u] = next[u] /\ intent'[u] = intent[u]
    BY <1>4 DEF Crash
  <2>2. UNCHANGED file
    BY <1>4 DEF Crash, sealVars
  <2>3. ASSUME NEW u \in Threads PROVE WriterClean(u)'
    <3>1. task'[u] = "leave" => \A v \in Threads : task'[v] \notin Operations
      BY <2>1 DEF AdoptInv, WriterClean, Operations
    <3>2. CASE Process[u] = p
      BY <2>1, <3>1, <3>2 DEF WriterClean, Operating, Operations
    <3>3. CASE Process[u] # p
      BY <2>1, <2>2, <3>1, <3>3 DEF AdoptInv, WriterClean, Operating
    <3> QED BY <3>2, <3>3
  <2> QED BY <1>2, <2>1, <2>3 DEF AdoptInv, Allowed
<1> QED BY <1>3, <1>4

LEMMA AdoptStarts ==
  ASSUME OnlySealed
  PROVE  Init => AdoptInv
<1> SUFFICES ASSUME Init PROVE AdoptInv
  OBVIOUS
<1>1. seal = SealedRow(Initial) /\ Initial # None /\ Clean(Initial)
  BY DEF Init, OnlySealed, OnePageSettles
<1>2. seal # None
  <2>1. Initial \in Record
    BY <1>1, InitialAssumption DEF InitialAssumption
  <2>2. SealedRow(Initial) \in Row(Record)
    BY <2>1 DEF SealedRow, Row
  <2> QED BY <1>1, <2>2, NoneAssumption DEF NoneAssumption
<1>3. SealClean
  BY <1>1, <1>2 DEF SealClean, SealedRow
<1>4. \A t \in Threads : task[t] = "none" /\ pc[t] = "idle"
  BY DEF Init
<1> QED BY <1>3, <1>4 DEF AdoptInv, Allowed, WriterClean, Operating, Operations

LEMMA AdoptStep ==
  ASSUME OnlySealed, RegistryInv, AdoptInv, [Next]_vars, unread' = 0, unread = 0
  PROVE  AdoptInv'
<1>1. CASE Next
  BY <1>1, StartClean, TaskClean, BeginClean, WriteClean, CommitClean, EnvironmentClean
     DEF Next, Work
<1>2. CASE UNCHANGED vars
  BY <1>2
     DEF vars, local, sealVars, bounds, AdoptInv, Allowed, SealClean, WriterClean, Clean, Operating
<1> QED BY <1>1, <1>2

\* A journal that another program put in place of a sealed one is never sealed, in
\* whichever step of a write it appears, as long as one page settles the
\* transaction and reads what it settles.  Recoveries of two pages can seal it.
THEOREM NeverAdoptedCorrect ==
  ASSUME OnePageSettles, None \notin Record
  PROVE  Spec => []NeverAdopted
<1> DEFINE IInv == RegistryInv /\ (unread = 0 => AdoptInv)
<1>1. IInv /\ [Next]_vars => IInv'
  BY AdoptStep, RegistryStep, BudgetsGrow DEF OnlySealed
<1>2. Init => IInv
  BY AdoptStarts, RegistryStarts DEF OnlySealed
<1>3. IInv => NeverAdopted
  BY DEF AdoptInv, SealClean, NeverAdopted, Clean
<1> QED BY <1>1, <1>2, <1>3, PTL DEF Spec
=============================================================================
