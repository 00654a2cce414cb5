---------------------------- MODULE JournalAccess --------------------------
(***************************************************************************)
(* The threads of EmuWiz that read and write one transaction's journal:    *)
(* Apply and Undo workers, organisation Undos, the recovery the pages run  *)
(* on what they list, and the choice "Leave untouched".  Each goes through *)
(* the live registry, or does not, and writes through the seal store.      *)
(*                                                                         *)
(* A journal is the set of edits it records.  An Apply or Undo pass edits  *)
(* the entries one after the other: it announces an entry as "moving" and  *)
(* records it as "done"; a recovery settles announced entries with one of  *)
(* Outcomes.  What the edits do to files is in RenameApply; here they tell *)
(* which writes a journal still contains.                                  *)
(***************************************************************************)
EXTENDS Naturals, JournalSeal, LiveRegistry

CONSTANTS Page,        \* the page a thread works for
          May,         \* the tasks a thread may run
          MaxEntries,  \* entries a thread may edit
          Outcomes,    \* what a recovery may find an announced entry to be
          Initial,     \* the journal an earlier process left, or None
          MaxFaults, MaxExternals, MaxCrashes,
          MaxUnread    \* bound: journals that cannot be read under a claim

VARIABLES task,    \* what a thread runs
          pc,      \* where it is
          copy,    \* its transaction: as last read or written
          next,    \* the record write_journal is writing
          intent,  \* the generation it announced
          acked,   \* edits in records whose write_journal returned Ok
          faults, externals, crashes,
          unread   \* recoveries that went on without the journal

Entries == 1..MaxEntries

\* "note" stands for what a task writes besides entries: the Planned batch,
\* the start of an Undo, the choice to leave the transaction untouched.
Edit == Threads \X (0..MaxEntries) \X ({"note", "moving", "done", "alien"} \cup Outcomes)
Record == SUBSET Edit

ASSUME OutcomesAssumption == Outcomes \cap {"note", "moving", "done", "alien"} = {}
ASSUME NoneAssumption == None \notin Row(Record)
ASSUME BoundsAssumption ==
  /\ MaxEntries \in Nat /\ MaxFaults \in Nat
  /\ MaxExternals \in Nat /\ MaxCrashes \in Nat /\ MaxUnread \in Nat
ASSUME InitialAssumption == Initial \in Record \cup {None}

local == <<task, pc, copy, next, intent>>
bounds == <<faults, externals, crashes, unread>>
vars == <<file, seal, live, reconciling, undoing, local, acked, bounds>>

Operations == {"apply", "undo", "organise"}
Tasks == Operations \cup {"recover", "leave"}
Steps == {"idle", "serialise", "opening", "validate", "ready", "fence",
          "listed", "claimed", "begin", "write", "commit"}

\* A journal another program put in the file's place, with entries in flight.
Alien == {<<t, 0, "alien">> : t \in Threads} \cup (Threads \X Entries \X {"moving"})

\* The entries announced and not settled: Applying or RollingBack.
InFlight(r) ==
  {te \in Threads \X Entries :
     /\ <<te[1], te[2], "moving">> \in r
     /\ \A s \in {"done"} \cup Outcomes : <<te[1], te[2], s>> \notin r}

\* r with the entries in flight settled as outcome says.
Settled(r, outcome) == r \cup {<<te[1], te[2], outcome>> : te \in InFlight(r)}

Init ==
  /\ file = Initial
  /\ seal = IF Initial = None THEN None ELSE SealedRow(Initial)
  /\ RegistryInit
  /\ task = [t \in Threads |-> "none"]
  /\ pc = [t \in Threads |-> "idle"]
  /\ copy = [t \in Threads |-> None]
  /\ next = [t \in Threads |-> None]
  /\ intent = [t \in Threads |-> 0]
  /\ acked = IF Initial = None THEN {} ELSE Initial
  /\ faults = 0 /\ externals = 0 /\ crashes = 0 /\ unread = 0

----------------------------------------------------------------------------
(* Control *)

\* Mutant of End: the thread is idle but its task is still recorded.
EndKeepingTask(t) ==
  /\ ReleaseAll(t)
  /\ pc' = [pc EXCEPT ![t] = "idle"]
  /\ copy' = [copy EXCEPT ![t] = None]
  /\ next' = [next EXCEPT ![t] = None]
  /\ intent' = [intent EXCEPT ![t] = 0]
  /\ UNCHANGED task

\* The task ends, well or not: its guards are dropped, its copy forgotten.
End(t) ==
  /\ ReleaseAll(t)
  /\ task' = [task EXCEPT ![t] = "none"]
  /\ pc' = [pc EXCEPT ![t] = "idle"]
  /\ copy' = [copy EXCEPT ![t] = None]
  /\ next' = [next EXCEPT ![t] = None]
  /\ intent' = [intent EXCEPT ![t] = 0]

\* The thread goes on with a copy and a record to write.
Continue(t, step, c, n) ==
  /\ pc' = [pc EXCEPT ![t] = step]
  /\ copy' = [copy EXCEPT ![t] = c]
  /\ next' = [next EXCEPT ![t] = n]
  /\ UNCHANGED <<registryVars, task, intent>>

Goto(t, step) == Continue(t, step, copy[t], next[t])

Start(t, job, step, c, n) ==
  /\ job \in May[t]
  /\ pc[t] = "idle"
  /\ task' = [task EXCEPT ![t] = job]
  /\ pc' = [pc EXCEPT ![t] = step]
  /\ copy' = [copy EXCEPT ![t] = c]
  /\ next' = [next EXCEPT ![t] = n]
  /\ UNCHANGED <<sealVars, registryVars, intent, acked, bounds>>

\* A page starts a worker from its own thread while none of its jobs runs.  A
\* job it abandoned no longer counts: that worker is a page of its own here.
PageIdle(t) == \A u \in Threads : Page[u] = Page[t] => task[u] = "none"

UseFault ==
  /\ faults < MaxFaults
  /\ faults' = faults + 1
  /\ UNCHANGED <<externals, crashes, unread>>

----------------------------------------------------------------------------
(* Apply and Undo *)

\* Apply of a reviewed batch: its transaction id is new.
StartApply(t) ==
  /\ PageIdle(t)
  /\ file = None /\ seal = None
  /\ Start(t, "apply", "opening", {}, None)

\* Undo from the DAT page or History: both read the journal first.
StartUndo(t) ==
  /\ PageIdle(t)
  /\ file # None
  /\ Start(t, "undo", "opening", file, None)

StartOrganiseUndo(t) ==
  /\ file # None
  /\ Start(t, "organise", "serialise", file, None)

Serialise(t) ==
  /\ pc[t] = "serialise"
  /\ MaySerialise(t)
  /\ undoing' = Take(t, undoing)
  /\ pc' = [pc EXCEPT ![t] = "opening"]
  /\ UNCHANGED <<sealVars, live, reconciling, task, copy, next, intent, acked, bounds>>

MarkLive(t) ==
  /\ pc[t] = "opening"
  /\ MayMarkLive(t)
  /\ live' = Take(t, live)
  /\ pc' = [pc EXCEPT ![t] = IF task[t] = "apply" THEN "ready" ELSE "validate"]
  /\ UNCHANGED <<sealVars, reconciling, undoing, task, copy, next, intent, acked, bounds>>

\* JournalFence::validate adopts the sealed journal; entries in flight are
\* reconciled in it, with a write of their own, and it is validated again.  What
\* cannot be settled stays in flight.
Validate(t) ==
  /\ pc[t] = "validate"
  /\ \/ /\ ~Trusted
        /\ End(t)
     \/ /\ Trusted
        /\ Continue(t, "ready", file, None)
     \/ /\ Trusted
        /\ InFlight(file) # {}
        /\ \E o \in Outcomes : Continue(t, "begin", file, Settled(file, o))
  /\ UNCHANGED <<sealVars, acked, bounds>>

\* The next edit of a pass: the batch or the start of the pass, the outcome of
\* the entry it announced, or the announcement of its next entry.  A pass with
\* foreign entries in flight only notes that they need a review.
NextEdits(t) ==
  LET own == {e \in Entries : <<t, e>> \in InFlight(copy[t])}
      used == {e \in Entries : <<t, e, "moving">> \in copy[t]}
  IN IF <<t, 0, "note">> \notin copy[t] THEN {<<t, 0, "note">>}
     ELSE IF own # {} THEN {<<t, e, "done">> : e \in own}
     ELSE IF InFlight(copy[t]) # {} THEN {}
     ELSE {<<t, e, "moving">> : e \in {d \in Entries \ used : \A c \in 1..(d - 1) : c \in used}}

\* Undo checks its fence before each write_journal; Apply has none.
Advance(t) ==
  /\ pc[t] = "ready"
  /\ \E e \in NextEdits(t) :
       Continue(t, IF task[t] = "apply" THEN "begin" ELSE "fence",
                copy[t], copy[t] \cup {e})
  /\ UNCHANGED <<sealVars, acked, bounds>>

\* The pass is over, was cancelled between two entries, or stopped.
Finish(t) ==
  /\ pc[t] = "ready"
  /\ End(t)
  /\ UNCHANGED <<sealVars, acked, bounds>>

CheckFence(t) ==
  /\ pc[t] = "fence"
  /\ IF file = copy[t] THEN Goto(t, "begin") ELSE End(t)
  /\ UNCHANGED <<sealVars, acked, bounds>>

----------------------------------------------------------------------------
(* Recovery, and Leave untouched *)

\* A page lists the journals and takes one with entries in flight.
ListRecovery(t) ==
  /\ file # None
  /\ InFlight(file) # {}
  /\ Start(t, "recover", "listed", file, None)

ClaimRecovery(t) ==
  /\ pc[t] = "listed"
  /\ IF MayReconcile(t)
     THEN /\ reconciling' = Take(t, reconciling)
          /\ pc' = [pc EXCEPT ![t] = "claimed"]
          /\ UNCHANGED <<live, undoing, task, copy, next, intent>>
     ELSE End(t)
  /\ UNCHANGED <<sealVars, acked, bounds>>

\* Mutant of Reread: the copy read before the claim is used as it is.
UseListedCopy(t) ==
  /\ pc[t] = "claimed"
  /\ \E o \in Outcomes : Continue(t, "begin", copy[t], Settled(copy[t], o))
  /\ UNCHANGED <<sealVars, acked, bounds>>

\* The recovery goes on from the copy it has.
Settle(t) ==
  \E o \in Outcomes : Continue(t, "begin", copy[t], Settled(copy[t], o))

\* The journal is read again under the claim; a copy that differs is refused.
\* One that cannot be read, because it is gone or the read fails, is not: the
\* copy that was listed is used.
Reread(t) ==
  /\ pc[t] = "claimed"
  /\ \/ /\ End(t)
        /\ UNCHANGED bounds
     \/ /\ file \in {None, copy[t]}
        /\ Settle(t)
        /\ UNCHANGED bounds
     \/ /\ file \notin {None, copy[t]}
        /\ unread < MaxUnread
        /\ unread' = unread + 1
        /\ Settle(t)
        /\ UNCHANGED <<faults, externals, crashes>>
  /\ UNCHANGED <<sealVars, acked>>

\* The button is there while no choice is recorded and the page runs no Undo.
\* Nothing is claimed: the journal is read, the choice added, and all of it
\* written back.
LeaveUntouched(t) ==
  /\ file # None
  /\ <<t, 0, "note">> \notin file
  /\ \A u \in Threads : Page[u] = Page[t] => task[u] # "undo"
  /\ Start(t, "leave", "begin", file, file \cup {<<t, 0, "note">>})

----------------------------------------------------------------------------
(* write_journal *)

Begin(t) ==
  /\ pc[t] = "begin"
  /\ \/ /\ Refused
        /\ End(t)
        /\ UNCHANGED <<seal, bounds>>
     \/ /\ UseFault
        /\ End(t)
        /\ UNCHANGED seal
     \/ /\ ~Refused
        /\ RecordIntent(next[t])
        /\ intent' = [intent EXCEPT ![t] = seal'.pgen]
        /\ pc' = [pc EXCEPT ![t] = "write"]
        /\ UNCHANGED <<registryVars, task, copy, next, bounds>>
  /\ UNCHANGED <<file, acked>>

\* The replacement may fail, or land and be reported as failed: the folder's
\* binding is checked once more after it.
Write(t) ==
  /\ pc[t] = "write"
  /\ \/ /\ ReplaceFile(next[t])
        /\ Goto(t, "commit")
        /\ UNCHANGED bounds
     \/ /\ UseFault
        /\ \/ ReplaceFile(next[t])
           \/ UNCHANGED file
        /\ End(t)
  /\ UNCHANGED <<seal, acked>>

\* An Undo validates again after the write of its own reconciliation, which
\* adds no edit of the pass.
AfterWrite(t) ==
  IF \A e \in next[t] \ copy[t] : e[3] \in Outcomes THEN "validate" ELSE "ready"

Commit(t) ==
  /\ pc[t] = "commit"
  /\ \/ /\ CanCommit(intent[t])
        /\ CommitIntent
        /\ acked' = acked \cup next[t]
        /\ IF task[t] \in {"recover", "leave"} THEN End(t)
           ELSE Continue(t, AfterWrite(t), next[t], None)
        /\ UNCHANGED bounds
     \/ /\ ~CanCommit(intent[t])
        /\ End(t)
        /\ UNCHANGED <<seal, acked, bounds>>
     \/ /\ UseFault
        /\ End(t)
        /\ UNCHANGED <<seal, acked>>
  /\ UNCHANGED file

----------------------------------------------------------------------------
(* Environment *)

\* Another program removes the journal or puts another one in its place.
ExternalChange ==
  /\ externals < MaxExternals
  /\ externals' = externals + 1
  /\ file' \in {None, Alien}
  /\ UNCHANGED <<seal, registryVars, local, acked, faults, crashes, unread>>

\* A process dies with its threads and its registry; the other goes on.
Crash(p) ==
  /\ crashes < MaxCrashes
  /\ crashes' = crashes + 1
  /\ ClearProcess(p)
  /\ task' = [t \in Threads |-> IF Process[t] = p THEN "none" ELSE task[t]]
  /\ pc' = [t \in Threads |-> IF Process[t] = p THEN "idle" ELSE pc[t]]
  /\ copy' = [t \in Threads |-> IF Process[t] = p THEN None ELSE copy[t]]
  /\ next' = [t \in Threads |-> IF Process[t] = p THEN None ELSE next[t]]
  /\ intent' = [t \in Threads |-> IF Process[t] = p THEN 0 ELSE intent[t]]
  /\ UNCHANGED <<sealVars, acked, faults, externals, unread>>

----------------------------------------------------------------------------
(* Specification *)

StartTask(t) ==
  \/ StartApply(t) \/ StartUndo(t) \/ StartOrganiseUndo(t)
  \/ ListRecovery(t) \/ LeaveUntouched(t)

\* What a started task does without waiting for another thread.
Work(t) ==
  \/ Validate(t) \/ Advance(t) \/ Finish(t) \/ CheckFence(t)
  \/ ClaimRecovery(t) \/ Reread(t)
  \/ Begin(t) \/ Write(t) \/ Commit(t)

Next ==
  \/ \E t \in Threads : StartTask(t) \/ Serialise(t) \/ MarkLive(t) \/ Work(t)
  \/ ExternalChange
  \/ \E p \in Processes : Crash(p)

Spec == Init /\ [][Next]_vars

\* Threads are scheduled; the condition variable of the registry is woken at
\* every release, and a waiter that may go on again and again gets the lock.
Fairness ==
  \A t \in Threads :
    WF_vars(Work(t)) /\ SF_vars(Serialise(t)) /\ SF_vars(MarkLive(t))

FairSpec == Spec /\ Fairness

----------------------------------------------------------------------------
(* Properties *)

TypeOK ==
  /\ file \in Record \cup {None}
  /\ seal \in Row(Record) \cup {None}
  /\ live \in Holders /\ reconciling \in Holders /\ undoing \in Holders
  /\ task \in [Threads -> Tasks \cup {"none"}]
  /\ pc \in [Threads -> Steps]
  /\ \A t \in Threads : pc[t] = "idle" <=> task[t] = "none"
  /\ copy \in [Threads -> Record \cup {None}]
  /\ next \in [Threads -> Record \cup {None}]
  /\ intent \in [Threads -> Nat]
  /\ acked \in Record
  /\ faults \in 0..MaxFaults /\ externals \in 0..MaxExternals
  /\ crashes \in 0..MaxCrashes /\ unread \in 0..MaxUnread

\* Where an operation is live, and where a recovery holds its claim.
Operating(t) == task[t] \in Operations /\ pc[t] \notin {"serialise", "opening"}
Recovering(t) == task[t] = "recover" /\ pc[t] # "listed"

\* A recovery between its claim and its last write never overlaps a live
\* operation of its process (journal.rs:57-59 "The two never overlap").
RecoveryExcluded ==
  \A t, u \in Threads :
    Process[t] = Process[u] => ~(Recovering(t) /\ Operating(u))

\* Whatever crashes or fails, a journal no other program touched, and that every
\* recovery could read, can always be read and written: its seal never refuses it
\* (seal.rs begin and verify).
HonestStaysTrusted == externals = 0 /\ unread = 0 => ~Refused

\* A journal another program put in place is never sealed: every writer that
\* read it is refused (seal.rs:14-16 "refused and never adopted"), as long as no
\* recovery goes on without reading.
NeverAdopted ==
  seal # None /\ unread = 0 =>
    \A r \in {seal.digest, seal.pdigest} \ {None} : \A e \in r : e[3] # "alien"

\* What a write_journal confirmed stays recorded, whatever is written later and
\* from whichever copy of the transaction, unless a recovery settled the copy it
\* had listed without having read the journal.
NothingLost == externals = 0 /\ unread = 0 /\ file # None => acked \subseteq file

\* No recovery writes away an entry whose edit was confirmed, not even one that
\* failed to read the journal (reconcile.rs:105-107 "An operation that started and
\* finished in between has rewritten the journal; reconciling the old copy would
\* write it back over that result").
RecoveryKeepsResults ==
  [][ \A t \in Threads :
        task[t] = "recover" /\ pc[t] = "write" /\ pc'[t] # "write" /\ file' # file
        => \A e \in acked \cap file : \E f \in file' : <<f[1], f[2]>> = <<e[1], e[2]>> ]_vars

\* An Undo replaces only the journal it validated or wrote last, never one that
\* changed in between (rollback.rs persist; JournalFence).
FenceHolds ==
  [][ \A t \in Threads :
        /\ task[t] \in {"undo", "organise"} /\ pc[t] = "write" /\ pc'[t] # "write"
        /\ file' # file /\ externals' = 0
        => file = copy[t] ]_vars

\* Leave untouched writes the journal back with its choice added and everything
\* else unchanged (journal.rs:571-574).
LeaveKeepsEntries ==
  [][ \A t \in Threads :
        task[t] = "leave" /\ pc[t] = "write" /\ pc'[t] # "write" /\ file' # file
        => file \subseteq file' ]_vars

\* Every task that starts ends: none waits for ever for another's guard.
TasksEnd == \A t \in Threads : pc[t] # "idle" ~> pc[t] = "idle"
=============================================================================
