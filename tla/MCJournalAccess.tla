-------------------------- MODULE MCJournalAccess --------------------------
(***************************************************************************)
(* Instances of JournalAccess: which threads EmuWiz has and what they run. *)
(***************************************************************************)
EXTENDS JournalAccessInductive, TLC

CONSTANTS w, o1, o2, r1, r2, ui, gui

\* One process.
OneProcess == [t \in Threads |-> gui]
OwnPages == [t \in Threads |-> t]
OnePage == [t \in Threads |-> gui]
WorkerPages == (w :> gui) @@ (r1 :> gui) @@ (r2 :> r2)

\* A DAT page's worker, the recovery of that page and of History.
WorkerTasks == (w :> {"apply", "undo"}) @@ (r1 :> {"recover"}) @@ (r2 :> {"recover"})

\* A worker and the recovery of another page.
RecoverTasks == (w :> {"apply", "undo"}) @@ (r2 :> {"recover"})

\* Two windows that undo an organisation, and a page's recovery.
OrganiseTasks == (o1 :> {"organise"}) @@ (o2 :> {"organise"}) @@ (r1 :> {"recover"})

\* An Apply and its page's "Leave untouched"; a page's Undo and what the page
\* may do beside it.
LeaveTasks == (w :> {"apply"}) @@ (ui :> {"leave"})
PageTasks == (w :> {"undo"}) @@ (ui :> {"recover", "leave"})

\* What an Apply that died left: an announced entry.
Interrupted == {<<t, n, s>> \in {r1, w} \X {0, 1} \X {"note", "moving"} :
                  t \in Threads /\ (n = 0 <=> s = "note")}
=============================================================================
