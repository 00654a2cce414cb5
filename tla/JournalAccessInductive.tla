----------------------- MODULE JournalAccessInductive ----------------------
(***************************************************************************)
(* The inductive invariants behind the theorems about JournalAccess.       *)
(***************************************************************************)
EXTENDS JournalAccess

\* What each step says of the task, and which guards the task holds there.
StepsRegistered ==
  \A t \in Threads :
    /\ pc[t] = "serialise" => task[t] = "organise"
    /\ pc[t] \in {"opening", "validate", "ready", "fence"} => task[t] \in Operations
    /\ pc[t] \in {"listed", "claimed"} => task[t] = "recover"
    /\ pc[t] # "idle" => copy[t] \in Record
    /\ pc[t] \in {"fence", "begin", "write", "commit"} => next[t] \in Record
    /\ Operating(t) => t \in live[Process[t]]
    /\ Recovering(t) => t \in reconciling[Process[t]]
    /\ task[t] = "organise" /\ pc[t] # "serialise" => t \in undoing[Process[t]]

\* The guards themselves exclude each other.
GuardsExclude ==
  \A p \in Processes :
    /\ live[p] = {} \/ reconciling[p] = {}
    /\ \A t, u \in undoing[p] : t = u

RegistryInv == TypeOK /\ StepsRegistered /\ GuardsExclude

----------------------------------------------------------------------------
(* The seal *)

\* The threads that may write one after the other only: all in one process, at
\* most one that applies or undoes unless all Undos are serialised, none that
\* writes without a claim, and recoveries that agree on what they find.
SerialWriters ==
  /\ \A t, u \in Threads : Process[t] = Process[u]
  /\ \A t \in Threads : "leave" \notin May[t]
  /\ \A t, u \in Threads : t # u =>
       \/ May[t] \cap Operations \subseteq {"organise"} /\ May[u] \cap Operations \subseteq {"organise"}
       \/ May[t] \cap Operations = {}
       \/ May[u] \cap Operations = {}
  /\ \A o, q \in Outcomes : o = q

Writing(t) == pc[t] \in {"begin", "write", "commit"}

Allowed == \A t \in Threads : task[t] # "none" => task[t] \in May[t]

\* The file is what the seal records, or what it announces.
SealMatches ==
  \/ seal = None /\ file = None
  \/ seal # None /\ file = None /\ seal.digest = None
  \/ seal # None /\ file # None /\ file = seal.digest
  \/ seal # None /\ file # None /\ seal.pgen # 0 /\ file = seal.pdigest

\* A writer's record is announced, or already sealed by one that wrote the same.
Announced(t) ==
  /\ seal # None
  /\ IF seal.pgen = 0 THEN seal.digest = next[t] ELSE seal.pdigest = next[t]

\* Several writers at once are recoveries with the same record.
WritersAgree ==
  \A t, u \in Threads :
    Writing(t) /\ Writing(u) /\ t # u =>
      task[t] = "recover" /\ task[u] = "recover" /\ next[t] = next[u]

\* A recovery's copy has entries in flight; while it writes, the journal is still
\* that copy, or already what it becomes.
RecoveryFacts(t) ==
  /\ file # None
  /\ InFlight(copy[t]) # {}
  /\ Writing(t) => /\ file \in {copy[t], next[t]}
                   /\ \E o \in Outcomes : next[t] = Settled(copy[t], o)

WriterFacts(t) ==
  /\ pc[t] \in {"write", "commit"} => Announced(t) /\ intent[t] # 0
  /\ pc[t] = "commit" => file = next[t]
  /\ task[t] = "recover" => RecoveryFacts(t)

SealInv ==
  /\ Allowed
  /\ externals = 0 => SealMatches /\ WritersAgree /\ \A t \in Threads : WriterFacts(t)

----------------------------------------------------------------------------
(* What was confirmed *)

\* An operation works from a copy that holds everything confirmed so far, and
\* adds to it.
CopyFacts(t) ==
  /\ task[t] = "apply" /\ pc[t] = "opening" => file = None /\ copy[t] = {}
  /\ Operating(t) /\ pc[t] # "validate" => acked \subseteq copy[t]
  /\ Operating(t) /\ pc[t] \in {"fence", "begin", "write", "commit"}
       => copy[t] \subseteq next[t]

KeptInv ==
  externals = 0 =>
    /\ acked \subseteq (IF file = None THEN {} ELSE file)
    /\ \A t \in Threads : CopyFacts(t)

\* An Undo that writes has the journal itself as its copy, also after recoveries
\* that could not read it.
FenceInv ==
  /\ Allowed
  /\ externals = 0 =>
       \A t \in Threads :
         task[t] \in {"undo", "organise"} /\ pc[t] \in {"begin", "write"} =>
           file = copy[t]

----------------------------------------------------------------------------
(* What was never sealed *)

Clean(r) == \A e \in r : e[3] # "alien"

\* One page of one process settles what an earlier run sealed and left, and it
\* undoes on that page: nobody recovers beside another, nobody is undone while
\* the choice to leave is written.
OnePageSettles ==
  /\ Initial # None /\ Clean(Initial)
  /\ \A t, u \in Threads : Process[t] = Process[u]
  /\ \A t, u \in Threads :
       May[t] \cap {"recover", "leave"} # {} /\ t # u =>
         May[u] \cap {"recover", "leave"} = {}
  /\ \A t, u \in Threads :
       "leave" \in May[t] => Page[u] = Page[t] /\ "organise" \notin May[u]

\* A sealed journal stays sealed, with one generation at most announced.
SealClean ==
  /\ seal # None /\ seal.digest # None
  /\ Clean(seal.digest)
  /\ seal.pgen # 0 <=> seal.pdigest # None
  /\ seal.pdigest # None => Clean(seal.pdigest)

\* Only a recovery or a choice to leave may hold an alien journal, and then not
\* past its intent: the file it was read from is refused by the seal.
WriterClean(t) ==
  /\ Operating(t) /\ pc[t] # "validate" => Clean(copy[t])
  /\ Operating(t) /\ pc[t] \in {"fence", "begin"} => Clean(next[t])
  /\ pc[t] \in {"write", "commit"} => Clean(next[t])
  /\ pc[t] \in {"write", "commit"} => intent[t] # 0
  /\ pc[t] = "begin" /\ task[t] \in {"recover", "leave"} =>
       Clean(next[t]) \/ file = None \/ ~Clean(file)
  /\ task[t] = "leave" => \A u \in Threads : task[u] \notin Operations

AdoptInv ==
  /\ Allowed
  /\ SealClean
  /\ \A t \in Threads : task[t] # "apply" /\ WriterClean(t)
=============================================================================
