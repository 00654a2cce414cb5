-------------------------- MODULE ReversibleBatch --------------------------
(***************************************************************************)
(* What the rename executor promises for a batch of moves, without files,  *)
(* journals or operations: each entry's object is at one of two places,    *)
(* and a durable claim says where.  A claim is given up before the object  *)
(* may move, one entry at a time, and made again only when it is true.     *)
(***************************************************************************)
CONSTANT Entry

VARIABLES
  place,  \* where the object is; "lost" once another program interfered
  claim   \* what survives a crash says: "home", "away", or "unsure"

vars == <<place, claim>>

Init ==
  /\ place = [i \in Entry |-> "home"]
  /\ claim = [i \in Entry |-> "home"]

\* An intention is recorded; no other entry may be undecided meanwhile.
Announce(i) ==
  /\ \A j \in Entry : claim[j] # "unsure"
  /\ claim' = [claim EXCEPT ![i] = "unsure"]
  /\ UNCHANGED place

\* The object moves, or a move is forgotten by a power loss.
Move(i) ==
  /\ claim[i] = "unsure"
  /\ place[i] # "lost"
  /\ place' = [place EXCEPT ![i] = IF @ = "home" THEN "away" ELSE "home"]
  /\ UNCHANGED claim

\* The outcome is recorded, and it is the truth wherever truth can be known.
Settle(i) ==
  /\ claim[i] = "unsure"
  /\ \E c \in {"home", "away"} :
       /\ place[i] # "lost" => c = place[i]
       /\ claim' = [claim EXCEPT ![i] = c]
  /\ UNCHANGED place

Interfere(i) ==
  /\ place[i] # "lost"
  /\ place' = [place EXCEPT ![i] = "lost"]
  /\ UNCHANGED claim

Next == \E i \in Entry : Announce(i) \/ Move(i) \/ Settle(i) \/ Interfere(i)

Spec == Init /\ [][Next]_vars
=============================================================================
