---------------------------- MODULE AccountIndex ----------------------------
(***************************************************************************)
(* The account index of index.cpp and the walk get_filter.cpp makes over   *)
(* it, for one indexed attribute.                                          *)
(*                                                                         *)
(* makeIndex threads two linked lists through the accounts array, from the *)
(* highest id down: the value chain joins the accounts that hold the same  *)
(* code of the attribute (nxt_country, nxt_city, nxt_fname, nxt_sname,     *)
(* nxt_phone_code), the nonempty chain those that hold any code but EMPTY  *)
(* (nxt_country_nonempty, ...).  A link is not an id but the distance to   *)
(* the next account, kept in 16 bits or 8.  The heads are in a hash map    *)
(* (first_country_map, ...), keyed by the code, or by NONEMPTY.            *)
(* The five attributes have the same code each, so one stands for all; the *)
(* premium and birth-year lists are value chains too, in arrays that have  *)
(* 0 for no account, without a nonempty chain.                             *)
(*                                                                         *)
(* The build this models is the committed one, with MT undefined: one      *)
(* worker thread, so no request is handled while makeIndex or another      *)
(* query runs.  The loops of both are still modelled step by step: the     *)
(* invariants that make them right are loop invariants.                    *)
(*                                                                         *)
(* A definition next to another of nearly the same name (LinkToNarrower,   *)
(* HeadIfUnset, ...) is a bug the code does not have: put in place of its  *)
(* neighbour it breaks a property, which shows what the property watches.  *)
(***************************************************************************)
EXTENDS Integers

CONSTANTS
  ArrSize,   \* arr_size: the accounts array has the ids 0 .. ArrSize
  Codes,     \* the codes the attribute takes, EMPTY among them
  NONEMPTY,  \* NONEMPTY_8 or NONEMPTY_16: the map key of the nonempty chain
  OffMod,    \* 2^16: a link of the value chain is a uint16_t
  NeMod,     \* 2^8: a link of the nonempty chain is a uint8_t
  MaxLimit,  \* the largest limit a query asks for
  Repost     \* may a client post an id that the last index covers?

EMPTY == 0

ASSUME SizeAssumption  == ArrSize \in Nat \ {0}
ASSUME CodesAssumption == Codes \subseteq Nat /\ EMPTY \in Codes
ASSUME KeyAssumption   == NONEMPTY \in Nat \ Codes
ASSUME WidthAssumption == OffMod \in Nat \ {0} /\ NeMod \in Nat \ {0}
ASSUME LimitAssumption == MaxLimit \in Nat \ {0}
ASSUME RepostAssumption == Repost \in BOOLEAN

Ids  == 0 .. ArrSize
Keys == Codes \union {NONEMPTY}

(* The ways getFilter walks the accounts: along the value chain of one     *)
(* key, along the nonempty chain, along the value chains of several names  *)
(* merged (sname_starts), or one account after the other (nxt_fullscan).   *)
Queries == [links : {"value"}, keys : {{c} : c \in Keys}]
             \union [links : {"nonempty"}, keys : {{NONEMPTY}}]
             \union [links : {"merge"}, keys : (SUBSET (Codes \ {EMPTY})) \ {{}}]
             \union [links : {"scan"}, keys : {{}}]

NoQuery == [links |-> "none", keys |-> {}]

VARIABLES
  pc,       \* what the worker does: "index", "serve", "walk", "done", "cut"
  attr,     \* attr[k]: the attribute of account k
  max_id,   \* the highest id stored
  names,    \* dic_sname: the codes a prefix may stand for, fixed by the load
  first,    \* first_*_map: the head of each chain, 0 when there is none
  nxt,      \* nxt[k]: distance from k to the next account of its value chain
  nxtNe,    \* nxtNe[k]: distance from k to the next of the nonempty chain
  i,        \* makeIndex: the account the loop handles next
  prev,     \* makeIndex: the last account seen of each chain, 0 for none
  seen,     \* history: attr as the last complete makeIndex saw it
  top,      \* history: max_id as the last complete makeIndex saw it
  query,    \* getFilter: how the current query walks
  id,       \* getFilter: the candidate account
  prefix_set, \* getFilter: the next candidate of each chain being merged
  limit,    \* getFilter: how many results may still be added
  visited   \* history: the candidates this query has examined

storeVars == <<attr, max_id, names>>
chainVars == <<first, nxt, nxtNe>>
loopVars  == <<i, prev>>
seenVars  == <<seen, top>>
queryVars == <<query, id, prefix_set, limit, visited>>
vars == <<pc, storeVars, chainVars, loopVars, seenVars, queryVars>>

-----------------------------------------------------------------------------
(* main loads the data and calls makeIndex before it starts the workers.   *)
(* An id of 1 .. max_id that the data lacks is an all-default account.     *)
Init ==
  /\ pc = "index"
  /\ attr \in [Ids -> Codes]
  /\ max_id \in 1 .. ArrSize
  /\ \A k \in Ids : k \notin 1 .. max_id => attr[k] = EMPTY
  /\ names = {attr[k] : k \in Ids} \ {EMPTY}
  /\ first = [c \in Keys |-> 0]
  /\ nxt = [k \in Ids |-> 0]
  /\ nxtNe = [k \in Ids |-> 0]
  /\ i = max_id
  /\ prev = [c \in Keys |-> 0]
  /\ seen = [k \in Ids |-> EMPTY]
  /\ top = 0
  /\ query = NoQuery /\ id = 0 /\ prefix_set = {} /\ limit = 0 /\ visited = {}

-----------------------------------------------------------------------------
(* makeIndex.  The links and the heads of an earlier run are kept: only    *)
(* prev starts afresh.                                                     *)

(* Account k follows p, the account last seen of the chain, if any; else   *)
(* k is the head of the chain.                                             *)
LinkToNarrower(links, p, k, mod) ==
  IF p = 0 THEN links ELSE [links EXCEPT ![p] = (p - k) % (mod - 1)]

LinkToLong(links, p, k, mod) ==
  IF p = 0 THEN links ELSE [links EXCEPT ![p] = (p - k + 1) % mod]

LinkTo(links, p, k, mod) ==
  IF p = 0 THEN links ELSE [links EXCEPT ![p] = (p - k) % mod]

HeadIfUnset(heads, p, key, k) ==
  IF p = 0 /\ heads[key] = 0 THEN [heads EXCEPT ![key] = k] ELSE heads

HeadIf(heads, p, key, k) ==
  IF p = 0 THEN [heads EXCEPT ![key] = k] ELSE heads

(* The last accounts seen, now that account k is: of its code, and of the  *)
(* nonempty chain if it has a code.                                        *)
LastSeenAlways(k) == [c \in Keys |-> IF c \in {attr[k], NONEMPTY} THEN k ELSE prev[c]]

LastSeen(k) ==
  [c \in Keys |->
     IF c = attr[k] \/ (c = NONEMPTY /\ attr[k] # EMPTY) THEN k ELSE prev[c]]

StartIndex ==
  /\ pc = "serve"
  /\ pc' = "index"
  /\ i' = max_id
  /\ prev' = [c \in Keys |-> 0]
  /\ UNCHANGED <<storeVars, chainVars, seenVars, queryVars>>

IndexStep ==
  /\ pc = "index"
  /\ i > 0
  /\ nxt' = LinkTo(nxt, prev[attr[i]], i, OffMod)
  /\ nxtNe' = LinkTo(nxtNe, prev[NONEMPTY], i, NeMod)
  /\ first' = HeadIf(HeadIf(first, prev[attr[i]], attr[i], i),
                     prev[NONEMPTY], NONEMPTY, i)
  /\ prev' = LastSeen(i)
  /\ i' = i - 1
  /\ UNCHANGED <<pc, storeVars, seenVars, queryVars>>

FinishIndex ==
  /\ pc = "index"
  /\ i = 0
  /\ pc' = "serve"
  /\ seen' = attr
  /\ top' = max_id
  /\ UNCHANGED <<storeVars, chainVars, loopVars, queryVars>>

-----------------------------------------------------------------------------
(* postNew stores an account; the chains are not touched.                  *)
PostNew(k, c) ==
  /\ pc = "serve"
  /\ Repost \/ k > top
  /\ attr' = [attr EXCEPT ![k] = c]
  /\ max_id' = IF max_id < k THEN k ELSE max_id
  /\ UNCHANGED <<pc, names, chainVars, loopVars, seenVars, queryVars>>

-----------------------------------------------------------------------------
(* getFilter, once its parameters are read: the walk over candidates.      *)

IsHighest(k, S) == k \in S /\ \A m \in S : m <= k

QueryStart(q, n) ==
  /\ pc = "serve"
  /\ q.links = "merge" => q.keys \subseteq names
  /\ query' = q
  /\ IF q.links = "scan"
     THEN id' = max_id
     ELSE id' \in Ids /\ IsHighest(id', {first[c] : c \in q.keys})
  /\ prefix_set' = IF q.links = "merge" THEN {first[c] : c \in q.keys} ELSE {}
  /\ limit' = n
  /\ visited' = {}
  /\ pc' = CASE id' = 0 -> "done"
             [] id' # 0 /\ n = 0 -> "cut"
             [] OTHER -> "walk"
  /\ UNCHANGED <<storeVars, chainVars, loopVars, seenVars>>

(* The candidate is examined: it passes the query's other filters, and     *)
(* becomes a result, or it does not.                                       *)
Examine(pass) ==
  /\ pc = "walk"
  /\ visited' = visited \union {id}
  /\ limit' = IF pass THEN limit - 1 ELSE limit
  /\ UNCHANGED <<storeVars, chainVars, loopVars, seenVars, query>>

(* More candidates are left: the walk goes on unless the limit is reached. *)
Continue == pc' = IF limit' = 0 THEN "cut" ELSE "walk"

(* The distance to the next candidate of a single chain, 0 when there is   *)
(* none.  The full scan stops after account 0: if(0==id--)goto lbl_out.    *)
DistancePastZero ==
  CASE query.links = "value"    -> nxt[id]
    [] query.links = "nonempty" -> nxtNe[id]
    [] query.links = "scan"     -> 1

Distance ==
  CASE query.links = "value"    -> nxt[id]
    [] query.links = "nonempty" -> nxtNe[id]
    [] query.links = "scan"     -> IF id = 0 THEN 0 ELSE 1

WalkStepUnchecked(pass) ==
  /\ query.links # "merge"
  /\ Examine(pass)
  /\ id' = id - Distance
  /\ Continue
  /\ UNCHANGED prefix_set

WalkStep(pass) ==
  /\ query.links # "merge"
  /\ Examine(pass)
  /\ id' = id - Distance
  /\ IF Distance = 0 THEN pc' = "done" ELSE Continue
  /\ UNCHANGED prefix_set

(* nxt_sname_starts: the candidate gives way to its successor in prefix_set *)
(* and the highest id of the set is next.                                  *)
MergedNoErase ==
  prefix_set \union (IF nxt[id] = 0 THEN {} ELSE {id - nxt[id]})

Merged ==
  (prefix_set \ {id}) \union (IF nxt[id] = 0 THEN {} ELSE {id - nxt[id]})

MergeStep(pass) ==
  /\ query.links = "merge"
  /\ Examine(pass)
  /\ prefix_set' = Merged
  /\ IF Merged = {}
     THEN id' = id /\ pc' = "done"
     ELSE id' \in Ids /\ IsHighest(id', Merged) /\ Continue

Reply ==
  /\ pc \in {"done", "cut"}
  /\ pc' = "serve"
  /\ query' = NoQuery /\ id' = 0 /\ prefix_set' = {} /\ limit' = 0 /\ visited' = {}
  /\ UNCHANGED <<storeVars, chainVars, loopVars, seenVars>>

-----------------------------------------------------------------------------
Next ==
  \/ StartIndex
  \/ IndexStep
  \/ FinishIndex
  \/ \E k \in 1 .. ArrSize, c \in Codes : PostNew(k, c)
  \/ \E q \in Queries, n \in 0 .. MaxLimit : QueryStart(q, n)
  \/ \E pass \in BOOLEAN : WalkStep(pass)
  \/ \E pass \in BOOLEAN : MergeStep(pass)
  \/ Reply

Spec == Init /\ [][Next]_vars

(* The one worker thread runs its loops to their end; which request comes  *)
(* next, and whether one comes, is up to the clients.  What must make      *)
(* progress is a walk that finds no result: one that came back to the      *)
(* candidate it has would go on for ever.                                  *)
Work ==
  \/ IndexStep
  \/ FinishIndex
  \/ WalkStep(FALSE)
  \/ MergeStep(FALSE)
  \/ Reply

FairSpec == Spec /\ WF_vars(Work)

-----------------------------------------------------------------------------
TypeOK ==
  /\ pc \in {"index", "serve", "walk", "done", "cut"}
  /\ attr \in [Ids -> Codes]
  /\ max_id \in 1 .. ArrSize
  /\ names \subseteq Codes \ {EMPTY}
  /\ first \in [Keys -> Ids]
  /\ nxt \in [Ids -> Ids]
  /\ nxtNe \in [Ids -> Ids]
  /\ i \in Ids
  /\ prev \in [Keys -> Ids]
  /\ seen \in [Ids -> Codes]
  /\ top \in Ids
  /\ query \in Queries \union {NoQuery}
  /\ id \in Ids
  /\ prefix_set \subseteq Ids
  /\ limit \in 0 .. MaxLimit
  /\ visited \subseteq Ids

(* The accounts of the value chains, and of the nonempty chain, as of the  *)
(* last complete index.                                                    *)
Holders(cs) == {k \in 1 .. top : seen[k] \in cs}
NonEmpty    == Holders(Codes \ {EMPTY})

(* s is the next account of S below k.                                     *)
IsNextBelow(S, k, s) ==
  /\ k \in S /\ s \in S /\ s < k
  /\ \A m \in S : ~(s < m /\ m < k)

(* Every distance between neighbours of S fits the width of a link.        *)
GapsFit(S, mod) == \A k, s \in S : IsNextBelow(S, k, s) => k - s < mod

(* What a walk has examined so far is the top of S: nothing of S was       *)
(* passed over, and when the chain ends nothing of S is left.              *)
TakesFromTop(S) ==
  /\ \A m \in S, w \in visited : w < m => m \in visited
  /\ pc = "done" => S \subseteq visited

(* A walk along value chains whose distances all fit their 16 bits.        *)
ValueWalk ==
  /\ pc \in {"walk", "cut", "done"}
  /\ query.links \in {"value", "merge"}
  /\ query.keys \subseteq Codes
  /\ \A c \in query.keys : GapsFit(Holders({c}), OffMod)

(* A query for a code or for several (sname_eq, phone_code, sname_null=1,  *)
(* sname_starts) examines every account that held one when the index was   *)
(* built, highest id first, whatever was posted since: no later index run  *)
(* breaks a chain in two, and merged chains lose nothing.                  *)
ValueWalkComplete == ValueWalk => TakesFromTop(Holders(query.keys))

(* ... and no other account, as long as no id covered by an index is       *)
(* posted again: then the last link of a chain is never a stale one, and   *)
(* no stale head is merged in.                                             *)
ValueWalkExact ==
  ValueWalk /\ ~Repost => visited \subseteq Holders(query.keys)

(* Together: along links that fit, over accounts no id of which was posted *)
(* again, getFilter's walk is the walk a query is promised: the holders of *)
(* the codes it asks for, each once, the highest id first.                 *)
ExactWalk == ValueWalk /\ ~Repost

WalkStatus ==
  CASE ExactWalk /\ pc = "walk" -> "walk"
    [] ExactWalk /\ pc = "done" -> "all"
    [] ExactWalk /\ pc = "cut"  -> "cut"
    [] OTHER                    -> "idle"

WalkTodo == IF ExactWalk THEN Holders(query.keys) \ visited ELSE {}

WalkVisited == IF ExactWalk THEN visited ELSE {}

Walk == INSTANCE DescendingWalk WITH
  status <- WalkStatus, todo <- WalkTodo, visited <- WalkVisited

ImplementsWalk == Walk!Spec

(* A query for any code (country_null=0, ...) examines every account that  *)
(* had one, highest id first.  The loop of makeIndex keeps linking the     *)
(* last account of this chain to whatever follows it, so the chain always  *)
(* ends in account 1, with or without a code; nothing else can stray in.   *)
NonemptyWalkComplete ==
  /\ pc \in {"walk", "cut", "done"}
  /\ query.links = "nonempty"
  /\ GapsFit(NonEmpty \union {1}, NeMod)
  => /\ TakesFromTop(NonEmpty)
     /\ visited \subseteq NonEmpty \union {1}

(* Links, however stale or truncated, only ever lead down, and never to    *)
(* account 0, which is not an account: a walk cannot loop or underflow.    *)
CursorDescends ==
  [][ pc = "walk" /\ query.links # "scan"
      => id' \in 1 .. id /\ (pc' # "done" => id' < id) ]_vars

(* Every query is answered, and every index run ends.                      *)
QueryAnswered == pc # "serve" ~> pc = "serve"

=============================================================================
