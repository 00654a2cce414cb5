---------------------------- MODULE JournalSeal ----------------------------
(***************************************************************************)
(* One transaction's journal file and its row in the independent seal      *)
(* store (dat/rename_apply/seal.rs, journal.rs write_journal).             *)
(*                                                                         *)
(* A journal write is three steps: record the intent in the store, replace *)
(* the file, commit the intent.  Each is atomic - an immediate SQLite      *)
(* transaction, a rename over the old file, one UPDATE - and anything may  *)
(* happen between two of them.  A record stands for the bytes of a journal *)
(* and for their digest alike.                                             *)
(***************************************************************************)
EXTENDS Naturals

CONSTANT None       \* no file, no row, NULL

VARIABLES file,     \* the journal on disk
          seal      \* the row of journal_seals

sealVars == <<file, seal>>

\* Rows over a set of records.  One with NULL pending columns has pgen = 0:
\* generations start at 1.
Row(records) == [gen : Nat, digest : records \cup {None},
                 pgen : Nat, pdigest : records \cup {None}]

\* The row of a journal whose write has been committed.
SealedRow(r) == [gen |-> 1, digest |-> r, pgen |-> 0, pdigest |-> None]

\* Mutant of SealCheck: a crashed write's own record is not recognised.
SealedOnly ==
  CASE seal = None -> IF file = None THEN "absent" ELSE "legacy"
    [] seal # None /\ file = None ->
         IF seal.digest = None THEN "absent" ELSE "mismatch"
    [] seal # None /\ file # None ->
         IF file = seal.digest THEN "sealed" ELSE "mismatch"

\* How the journal relates to its seal.
SealCheck ==
  CASE seal = None /\ file = None -> "absent"
    [] seal = None /\ file # None -> "legacy"
    [] seal # None /\ file = None ->
         IF seal.digest = None THEN "absent" ELSE "mismatch"
    [] seal # None /\ file # None ->
         IF file = seal.digest THEN "sealed"
         ELSE IF seal.pgen # 0 /\ file = seal.pdigest THEN "pending"
         ELSE "mismatch"

Trusted == SealCheck \in {"sealed", "pending"}

\* Mutant of Refused: a changed journal is not refused.
LegacyRefused == SealCheck = "legacy"

\* What begin refuses: SealCheck::refusal.
Refused == SealCheck \in {"legacy", "mismatch"}

\* An intent the file already reached becomes the sealed generation the new
\* intent builds on; any other pending intent is forgotten.
BaseRow ==
  IF SealCheck = "pending"
  THEN [gen |-> seal.pgen, digest |-> seal.pdigest]
  ELSE [gen |-> seal.gen, digest |-> seal.digest]

\* Step 1: the intent to write r, as a new row or over the existing one.
RecordIntent(r) ==
  seal' = IF seal = None
          THEN [gen |-> 0, digest |-> None, pgen |-> 1, pdigest |-> r]
          ELSE [gen |-> BaseRow.gen, digest |-> BaseRow.digest,
                pgen |-> BaseRow.gen + 1, pdigest |-> r]

\* Step 2: the file is replaced as a whole.
ReplaceFile(r) == file' = r

\* Step 3: the pending columns become the sealed ones, if they are still those
\* of generation g.
CanCommit(g) == seal # None /\ seal.pgen = g
CommitIntent ==
  seal' = [gen |-> seal.pgen, digest |-> seal.pdigest,
           pgen |-> 0, pdigest |-> None]
=============================================================================
