---------------------------- MODULE CombinedWalk ----------------------------
(***************************************************************************)
(* The chunked bit vectors of chunked_bm_vec.h and the walk getFilter      *)
(* makes over them when a query combines filters (nxt_combined).           *)
(*                                                                         *)
(* There is a bit vector per value of an attribute (chunked_country_vec,   *)
(* chunked_city_vec, chunked_fname_vec, chunked_sex_vec,                   *)
(* chunked_birth_year_vec, chunked_inters_vec), with a bit for each        *)
(* account that has the value.  Bit 0 is the highest id, so that ascending *)
(* bits are descending ids.  A vector is cut into chunks, and the query    *)
(* intersects one chunk after the other, as far as the results it needs.   *)
(*                                                                         *)
(* The data sets the bits; no POST does.                                   *)
(*                                                                         *)
(* A definition next to another of nearly the same name (SetBitById,       *)
(* ...) is a bug the code does not have, which a property notices.         *)
(***************************************************************************)
EXTENDS Integers

CONSTANTS
  ArrSize,    \* arr_size: the highest id an account can have
  num_chunks, \* 4
  Sources,    \* the bit vectors
  MaxLimit    \* the largest limit a query asks for

ASSUME ChunkAssumption == /\ ArrSize \in Nat \ {0} /\ num_chunks \in Nat \ {0}
                          /\ ArrSize % num_chunks = 0
ASSUME LimitAssumption == MaxLimit \in Nat \ {0}

Ids      == 1 .. ArrSize
chunk_sz == ArrSize \div num_chunks
Chunks   == 0 .. num_chunks - 1
Bits     == 0 .. chunk_sz - 1

VARIABLES
  pc,            \* what the process does: "load", "serve", "walk", "done", "cut"
  chunk_arr,     \* chunk_arr[s][c]: the bits set in chunk c of vector s
  and_src,       \* ChunkedAggregator.and_src_vec: vectors an account must be in
  steps,         \* ChunkedAggregator.steps: groups of vectors, it must be in one of each
  current_chunk, \* the chunk being enumerated
  en,            \* the bits of its result that are still to come
  id,            \* getFilter: the candidate account
  limit,         \* getFilter: how many results may still be added
  loaded,        \* history: loaded[s]: the accounts stored with value s
  visited        \* history: the candidates this query has examined

aggVars  == <<and_src, steps, current_chunk, en>>
loopVars == <<id, limit, visited>>
vars == <<pc, chunk_arr, aggVars, loopVars, loaded>>

-----------------------------------------------------------------------------
Init ==
  /\ pc = "load"
  /\ chunk_arr = [s \in Sources |-> [c \in Chunks |-> {}]]
  /\ and_src = {} /\ steps = {} /\ current_chunk = 0 /\ en = {}
  /\ id = 0 /\ limit = 0 /\ visited = {}
  /\ loaded = [s \in Sources |-> {}]

(* loadData stores an account: SetBit(arr_size-id) in the vector of each   *)
(* value it has.                                                           *)
SetBitById(k, S) ==
  chunk_arr' = [s \in Sources |-> [c \in Chunks |->
                  IF s \in S /\ c = k \div chunk_sz
                  THEN chunk_arr[s][c] \union {k % chunk_sz}
                  ELSE chunk_arr[s][c]]]

SetBit(k, S) ==
  chunk_arr' = [s \in Sources |-> [c \in Chunks |->
                  IF s \in S /\ c = (ArrSize - k) \div chunk_sz
                  THEN chunk_arr[s][c] \union {(ArrSize - k) % chunk_sz}
                  ELSE chunk_arr[s][c]]]

Store(k, S) ==
  /\ pc = "load"
  /\ SetBit(k, S)
  /\ loaded' = [s \in Sources |-> IF s \in S THEN loaded[s] \union {k} ELSE loaded[s]]
  /\ UNCHANGED <<pc, aggVars, loopVars>>

FinishLoad ==
  /\ pc = "load"
  /\ pc' = "serve"
  /\ UNCHANGED <<chunk_arr, aggVars, loopVars, loaded>>

-----------------------------------------------------------------------------
(* What run and combine_and leave in the result for chunk c: bits in every *)
(* vector of and, and in one vector of each group of ors.                  *)
Result(and, ors, c) ==
  {b \in Bits : /\ \A s \in and : b \in chunk_arr[s][c]
                /\ \A S \in ors : \E s \in S : b \in chunk_arr[s][c]}

(* The lowest of the bits B of chunk c is next, which is the highest id.   *)
PositionFromZero(c, b) == ArrSize - (chunk_sz * c + b) - 1

Position(c, b) == ArrSize - (chunk_sz * c + b)

TakeBitAgain(c, B) ==
  \E b \in B :
    /\ \A d \in B : b <= d
    /\ current_chunk' = c
    /\ id' = Position(c, b)
    /\ en' = B

TakeBit(c, B) ==
  \E b \in B :
    /\ \A d \in B : b <= d
    /\ current_chunk' = c
    /\ id' = Position(c, b)
    /\ en' = B \ {b}

TakeNone == current_chunk' = num_chunks /\ en' = {} /\ UNCHANGED id

(* getNextBit, with the bits of rest still to come in chunk c: the first   *)
(* of them, or else the first of the next chunk that has any.              *)
getNextBit(and, ors, c, rest) ==
  \/ rest # {} /\ TakeBit(c, rest)
  \/ /\ rest = {}
     /\ \E d \in Chunks :
          /\ d > c
          /\ \A e \in Chunks : c < e /\ e < d => Result(and, ors, e) = {}
          /\ TakeBit(d, Result(and, ors, d))
  \/ rest = {} /\ (\A d \in Chunks : d > c => Result(and, ors, d) = {}) /\ TakeNone

(* The query's filters name the vectors; reset, add, findFirst and the     *)
(* first getNextBit follow.                                                *)
QueryStart(and, ors, n) ==
  /\ pc = "serve"
  /\ and_src' = and /\ steps' = ors
  /\ getNextBit(and, ors, 0, Result(and, ors, 0))
  /\ limit' = n
  /\ pc' = CASE current_chunk' = num_chunks -> "done"
             [] current_chunk' # num_chunks /\ n = 0 -> "cut"
             [] OTHER -> "walk"
  /\ UNCHANGED <<chunk_arr, loaded, visited>>

(* The candidate passes the query's other filters, and becomes a result,   *)
(* or it does not; then the next is looked for.                            *)
WalkStep(pass) ==
  /\ pc = "walk"
  /\ visited' = visited \union {id}
  /\ limit' = IF pass THEN limit - 1 ELSE limit
  /\ getNextBit(and_src, steps, current_chunk, en)
  /\ pc' = IF current_chunk' = num_chunks THEN "done"
           ELSE IF limit' = 0 THEN "cut" ELSE "walk"
  /\ UNCHANGED <<chunk_arr, loaded, and_src, steps>>

(* The aggregator is thread_local: it is left as it is.                    *)
Reply ==
  /\ pc \in {"done", "cut"}
  /\ pc' = "serve"
  /\ id' = 0 /\ limit' = 0 /\ visited' = {}
  /\ UNCHANGED <<chunk_arr, loaded, aggVars>>

-----------------------------------------------------------------------------
Groups == (SUBSET Sources) \ {{}}

Next ==
  \/ \E k \in Ids, S \in SUBSET Sources : Store(k, S)
  \/ FinishLoad
  \/ \E and \in SUBSET Sources, ors \in SUBSET Groups, n \in 0 .. MaxLimit :
       (and # {} \/ ors # {}) /\ QueryStart(and, ors, n)
  \/ \E pass \in BOOLEAN : WalkStep(pass)
  \/ Reply

Spec == Init /\ [][Next]_vars

(* The one worker thread runs a query to its end.  What must make progress *)
(* is a walk that finds no result: one that came back to the candidate it  *)
(* has would go on for ever.                                               *)
FairSpec == Spec /\ WF_vars(Reply \/ WalkStep(FALSE))

-----------------------------------------------------------------------------
TypeOK ==
  /\ pc \in {"load", "serve", "walk", "done", "cut"}
  /\ chunk_arr \in [Sources -> [Chunks -> SUBSET Bits]]
  /\ and_src \subseteq Sources
  /\ steps \subseteq Groups
  /\ current_chunk \in 0 .. num_chunks
  /\ en \subseteq Bits
  /\ id \in 0 .. ArrSize
  /\ pc \in {"walk", "cut"} => id \in Ids
  /\ limit \in 0 .. MaxLimit
  /\ loaded \in [Sources -> SUBSET Ids]
  /\ visited \subseteq Ids

(* The accounts the query asks for: in every vector it names, and in one   *)
(* of each group.                                                          *)
Match ==
  {k \in Ids : /\ \A s \in and_src : k \in loaded[s]
               /\ \A S \in steps : \E s \in S : k \in loaded[s]}

Querying == pc \in {"walk", "done", "cut"}

WalkStatus ==
  CASE pc = "walk" -> "walk"
    [] pc = "done" -> "all"
    [] pc = "cut"  -> "cut"
    [] OTHER       -> "idle"

WalkTodo == IF Querying THEN Match \ visited ELSE {}

Walk == INSTANCE DescendingWalk WITH status <- WalkStatus, todo <- WalkTodo

(* A combined query examines exactly the accounts that were loaded with    *)
(* the values it asks for, the highest id first, each once, whatever       *)
(* chunks they lie in and whatever the query before it left behind.        *)
ImplementsWalk == Walk!Spec

(* Every combined query is answered.                                       *)
QueryAnswered == Querying ~> pc = "serve"

=============================================================================
