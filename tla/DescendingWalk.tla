--------------------------- MODULE DescendingWalk ---------------------------
(***************************************************************************)
(* What a walk over candidates promises getFilter, however it finds them:  *)
(* every account of one set, each once, the highest id first, until the    *)
(* limit cuts it short.  The walk along the chains of makeIndex            *)
(* (AccountIndex) and the walk over the chunked bit vectors (CombinedWalk) *)
(* implement it.                                                           *)
(***************************************************************************)
EXTENDS Integers

CONSTANT Ids   \* the ids of accounts

VARIABLES
  status,  \* "idle", "walk", or how the walk ended: "all" examined, or "cut"
  todo,    \* the candidates not yet examined
  visited  \* those examined

vars == <<status, todo, visited>>

Init == status = "idle" /\ todo = {} /\ visited = {}

(* With nothing left the walk may notice at once, or when it would go on.  *)
Goes == status' \in {"walk", "cut"} \/ (status' = "all" /\ todo' = {})

Start ==
  /\ status = "idle"
  /\ todo' \in SUBSET Ids
  /\ visited' = {}
  /\ Goes

Take ==
  /\ status = "walk"
  /\ \E k \in todo :
       /\ \A m \in todo : m <= k
       /\ todo' = todo \ {k}
       /\ visited' = visited \union {k}
  /\ Goes

Reply ==
  /\ status \in {"all", "cut"}
  /\ status' = "idle"
  /\ todo' = {}
  /\ visited' = {}

Next == Start \/ Take \/ Reply

Spec == Init /\ [][Next]_vars

=============================================================================
