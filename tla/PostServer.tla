----------------------------- MODULE PostServer -----------------------------
(***************************************************************************)
(* The worker threads of worker.cpp and the POST requests they handle: what *)
(* a handler stores, in which order it answers and stores, and when the    *)
(* thread that handled the request runs makeIndex again.                   *)
(*                                                                         *)
(* The committed build has one worker; with MT defined it has three, which *)
(* share max_id, the accounts and post_cnt.  Only post_cnt is atomic, so a *)
(* step here is one access to a shared variable.  Workers is the set of    *)
(* threads: the properties that need the threads to be one say so.         *)
(*                                                                         *)
(* A definition next to another of nearly the same name (CompareLate,      *)
(* CountAtLeast, ...) is a bug the code does not have: put in place of its *)
(* neighbour it breaks a property, which shows what the property watches.  *)
(***************************************************************************)
EXTENDS Integers

CONSTANTS
  Workers,   \* the worker threads
  ArrSize,   \* arr_size: the highest id an account can have
  LOW,       \* 10000: the POST after which the short test mode indexes again
  HIGH,      \* 90000: the POST after which every mode does
  MaxPosts   \* bound: post_cnt counts no further, every value above HIGH is alike

ASSUME WorkersAssumption   == Workers # {}
ASSUME SizeAssumption      == ArrSize \in Nat \ {0}
ASSUME ThresholdAssumption == /\ LOW \in Nat \ {0} /\ HIGH \in Nat /\ MaxPosts \in Nat
                              /\ LOW < HIGH /\ HIGH < MaxPosts

Ids == 1 .. ArrSize

VARIABLES
  is_rating, \* read from options.txt: the long mode, without the low threshold
  max_id,    \* the highest id stored, as far as the server knows
  stored,    \* the ids whose account has been stored
  post_cnt,  \* POST requests handled
  pc,        \* pc[w]: where worker w is
  id,        \* id[w]: the account of the request w handles
  from,      \* from[w]: the max_id the index run of w started from
  acked,     \* history: the ids answered 201
  lowRuns,   \* history: how often each worker indexed at the low threshold
  highRuns   \* history: how often the workers indexed at the high threshold

storeVars   == <<max_id, stored>>
historyVars == <<lowRuns, highRuns>>
vars == <<is_rating, storeVars, post_cnt, pc, id, from, acked, historyVars>>

-----------------------------------------------------------------------------
(* loadData stores accounts and makeIndex runs before the workers start.   *)
Init ==
  /\ is_rating \in BOOLEAN
  /\ max_id \in Ids
  /\ stored \in {S \in SUBSET (1 .. max_id) : max_id \in S}
  /\ post_cnt = 0
  /\ pc = [w \in Workers |-> "wait"]
  /\ id = [w \in Workers |-> 0]
  /\ from = [w \in Workers |-> 0]
  /\ acked = {}
  /\ lowRuns = [w \in Workers |-> 0]
  /\ highRuns = 0

Goto(w, l) == pc' = [pc EXCEPT ![w] = l]

(* POST /accounts/new/: postNew answers 201 as soon as it has read the id, *)
(* before it stores anything.                                              *)
AckNew(w, k) ==
  /\ pc[w] = "wait"
  /\ id' = [id EXCEPT ![w] = k]
  /\ acked' = acked \union {k}
  /\ Goto(w, "store")
  /\ UNCHANGED <<is_rating, storeVars, post_cnt, from, historyVars>>

(* A POST that stores nothing: likes, an update, or one refused with 400   *)
(* or 404.  postLikes and postId check the request and store none of it.   *)
Check(w) ==
  /\ pc[w] = "wait"
  /\ Goto(w, "count")
  /\ UNCHANGED <<is_rating, storeVars, post_cnt, id, from, acked, historyVars>>

Store(w) ==
  /\ pc[w] = "store"
  /\ stored' = stored \union {id[w]}
  /\ Goto(w, "compare")
  /\ UNCHANGED <<is_rating, max_id, post_cnt, id, from, acked, historyVars>>

(* if(max_id<id)max_id=id;  one read and one write, not one step.          *)
CompareLate(w) ==
  /\ pc[w] = "compare"
  /\ Goto(w, IF max_id + 1 < id[w] THEN "raise" ELSE "count")
  /\ UNCHANGED <<is_rating, storeVars, post_cnt, id, from, acked, historyVars>>

Compare(w) ==
  /\ pc[w] = "compare"
  /\ Goto(w, IF max_id < id[w] THEN "raise" ELSE "count")
  /\ UNCHANGED <<is_rating, storeVars, post_cnt, id, from, acked, historyVars>>

RaisePast(w) ==
  /\ pc[w] = "raise"
  /\ max_id' = id[w] + 1
  /\ Goto(w, "count")
  /\ UNCHANGED <<is_rating, stored, post_cnt, id, from, acked, historyVars>>

Raise(w) ==
  /\ pc[w] = "raise"
  /\ max_id' = id[w]
  /\ Goto(w, "count")
  /\ UNCHANGED <<is_rating, stored, post_cnt, id, from, acked, historyVars>>

Increment(n) == IF n < MaxPosts THEN n + 1 ELSE n

(* if(++post_cnt==90000||(!is_rating&&post_cnt==10000)) makeIndex();       *)
(* The increment is atomic and compares the value it made; the second      *)
(* comparison reads post_cnt again.                                        *)
CountAtLeast(w) ==
  /\ pc[w] = "count"
  /\ post_cnt' = Increment(post_cnt)
  /\ IF post_cnt' >= HIGH
     THEN Goto(w, "begin") /\ highRuns' = highRuns + 1
     ELSE Goto(w, IF is_rating THEN "wait" ELSE "test") /\ UNCHANGED highRuns
  /\ UNCHANGED <<is_rating, storeVars, id, from, acked, lowRuns>>

CountAnyMode(w) ==
  /\ pc[w] = "count"
  /\ post_cnt' = Increment(post_cnt)
  /\ IF post_cnt' = HIGH
     THEN Goto(w, "begin") /\ highRuns' = highRuns + 1
     ELSE Goto(w, "test") /\ UNCHANGED highRuns
  /\ UNCHANGED <<is_rating, storeVars, id, from, acked, lowRuns>>

Count(w) ==
  /\ pc[w] = "count"
  /\ post_cnt' = Increment(post_cnt)
  /\ IF post_cnt' = HIGH
     THEN Goto(w, "begin") /\ highRuns' = highRuns + 1
     ELSE Goto(w, IF is_rating THEN "wait" ELSE "test") /\ UNCHANGED highRuns
  /\ UNCHANGED <<is_rating, storeVars, id, from, acked, lowRuns>>

TestAtLeast(w) ==
  /\ pc[w] = "test"
  /\ IF post_cnt >= LOW
     THEN Goto(w, "begin") /\ lowRuns' = [lowRuns EXCEPT ![w] = @ + 1]
     ELSE Goto(w, "wait") /\ UNCHANGED lowRuns
  /\ UNCHANGED <<is_rating, storeVars, post_cnt, id, from, acked, highRuns>>

TestAfter(w) ==
  /\ pc[w] = "test"
  /\ IF post_cnt = LOW + 1
     THEN Goto(w, "begin") /\ lowRuns' = [lowRuns EXCEPT ![w] = @ + 1]
     ELSE Goto(w, "wait") /\ UNCHANGED lowRuns
  /\ UNCHANGED <<is_rating, storeVars, post_cnt, id, from, acked, highRuns>>

Test(w) ==
  /\ pc[w] = "test"
  /\ IF post_cnt = LOW
     THEN Goto(w, "begin") /\ lowRuns' = [lowRuns EXCEPT ![w] = @ + 1]
     ELSE Goto(w, "wait") /\ UNCHANGED lowRuns
  /\ UNCHANGED <<is_rating, storeVars, post_cnt, id, from, acked, highRuns>>

(* makeIndex: the loop starts from max_id; what it builds is AccountIndex. *)
BeginIndex(w) ==
  /\ pc[w] = "begin"
  /\ from' = [from EXCEPT ![w] = max_id]
  /\ Goto(w, "index")
  /\ UNCHANGED <<is_rating, storeVars, post_cnt, id, acked, historyVars>>

EndIndexWhile(w) ==
  /\ pc[w] = "index"
  /\ Goto(w, IF post_cnt = HIGH THEN "begin" ELSE "wait")
  /\ UNCHANGED <<is_rating, storeVars, post_cnt, id, from, acked, historyVars>>

EndIndex(w) ==
  /\ pc[w] = "index"
  /\ Goto(w, "wait")
  /\ UNCHANGED <<is_rating, storeVars, post_cnt, id, from, acked, historyVars>>

-----------------------------------------------------------------------------
Handle(w) ==
  \/ Store(w)
  \/ Compare(w)
  \/ Raise(w)
  \/ Count(w)
  \/ Test(w)
  \/ BeginIndex(w)
  \/ EndIndex(w)

Next ==
  \E w \in Workers :
    \/ \E k \in Ids : AckNew(w, k)
    \/ Check(w)
    \/ Handle(w)

Spec == Init /\ [][Next]_vars

(* Each thread runs on until it waits for a request again.                 *)
FairSpec == Spec /\ \A w \in Workers : WF_vars(Handle(w))

-----------------------------------------------------------------------------
TypeOK ==
  /\ is_rating \in BOOLEAN
  /\ max_id \in Ids
  /\ stored \subseteq Ids
  /\ post_cnt \in 0 .. MaxPosts
  /\ pc \in [Workers -> {"wait", "store", "compare", "raise", "count", "test",
                         "begin", "index"}]
  /\ id \in [Workers -> 0 .. ArrSize]
  /\ from \in [Workers -> 0 .. ArrSize]
  /\ acked \subseteq Ids
  /\ lowRuns \in [Workers -> Nat]
  /\ highRuns \in Nat

OneWorker == \A u, w \in Workers : u = w

Indexing(w) == pc[w] \in {"begin", "index"}

(* With one worker an account answered 201 is stored, and max_id covers    *)
(* it, when the next request is read: no later request for its id gets the *)
(* 404 of an unknown id.                                                   *)
AckedIsKnown ==
  OneWorker => \A w \in Workers :
    pc[w] \in {"wait", "count", "test", "begin"} => acked \subseteq stored \intersect 1 .. max_id

(* With one worker an index run covers every account answered 201 so far:  *)
(* no acknowledged account is left out of the chains by the last run.      *)
IndexCoversAcked ==
  OneWorker => \A w \in Workers :
    pc[w] = "index" => acked \subseteq stored \intersect 1 .. from[w]

(* With one worker the short mode indexes once at the low threshold: the   *)
(* second read of post_cnt is still the value the increment made.          *)
LowRunsOnce ==
  OneWorker => \A w \in Workers :
    pc[w] # "test" => lowRuns[w] = IF ~ is_rating /\ post_cnt >= LOW THEN 1 ELSE 0

(* However many workers share post_cnt, exactly one of them indexes at the *)
(* high threshold.                                                         *)
HighRunsOnce == highRuns = IF post_cnt >= HIGH THEN 1 ELSE 0

(* In the long mode no two workers are ever inside makeIndex together.     *)
RatingIndexesAlone ==
  is_rating => \A u, w \in Workers : Indexing(u) /\ Indexing(w) => u = w

(* In the short mode the stale second read may let several workers index   *)
(* at the low threshold, or none, but no worker does so twice.             *)
LowRunsPerWorker == \A w \in Workers : lowRuns[w] <= 1

(* A worker that has taken a request, or started an index run, is back at   *)
(* its connections sooner or later, whatever the others do meanwhile.       *)
RequestHandled == \A w \in Workers : pc[w] # "wait" ~> pc[w] = "wait"

=============================================================================
