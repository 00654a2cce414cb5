---------------------------- MODULE LiveRegistry ---------------------------
(***************************************************************************)
(* The in-process registry of what runs on a transaction                   *)
(* (dat/rename_apply/journal.rs 57-190), for one transaction.  The code    *)
(* counts the guards of each kind; here each kind is the set of threads    *)
(* that hold one, per process.                                             *)
(***************************************************************************)
CONSTANTS Threads,
          Process   \* the process a thread belongs to

VARIABLES live,         \* LiveTransactionGuard: applying, undoing, resuming
          reconciling,  \* ReconcileGuard: a recovery's read-classify-write
          undoing       \* UndoSerialGuard: an organisation Undo

registryVars == <<live, reconciling, undoing>>

Processes == {Process[t] : t \in Threads}
Holders == [Processes -> SUBSET Threads]

RegistryInit ==
  /\ live = [p \in Processes |-> {}]
  /\ reconciling = [p \in Processes |-> {}]
  /\ undoing = [p \in Processes |-> {}]

Take(t, holders) == [holders EXCEPT ![Process[t]] = @ \cup {t}]
Release(t, holders) == [holders EXCEPT ![Process[t]] = @ \ {t}]

\* Mutant of the three tests below: nobody waits and nobody is refused.
AtOnce(t) == TRUE

\* An operation waits for the recoveries of its own process, not for other
\* operations.
MayMarkLive(t) == reconciling[Process[t]] = {}

\* A recovery is refused by an operation of its own process, not by another
\* recovery.
MayReconcile(t) == live[Process[t]] = {}

\* Organisation Undos of one process go one after the other.
MaySerialise(t) == undoing[Process[t]] = {}

\* Mutant of ReleaseAll: the claim of a recovery is kept.
ReleaseAllButClaim(t) ==
  /\ live' = Release(t, live)
  /\ undoing' = Release(t, undoing)
  /\ UNCHANGED reconciling

\* Every guard a thread holds is dropped when its task ends, in any way.
ReleaseAll(t) ==
  /\ live' = Release(t, live)
  /\ reconciling' = Release(t, reconciling)
  /\ undoing' = Release(t, undoing)

\* The registry lives in the process and dies with it.
ClearProcess(p) ==
  /\ live' = [live EXCEPT ![p] = {}]
  /\ reconciling' = [reconciling EXCEPT ![p] = {}]
  /\ undoing' = [undoing EXCEPT ![p] = {}]
=============================================================================
