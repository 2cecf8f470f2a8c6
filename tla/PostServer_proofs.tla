-------------------------- MODULE PostServer_proofs --------------------------
(***************************************************************************)
(* Proofs about PostServer, for every set of workers and every threshold.  *)
(***************************************************************************)
EXTENDS PostServer, TLAPS

(* The assignments every handler step is made of.                          *)
LEMMA GotoMoves ==
  ASSUME TypeOK, NEW w \in Workers,
         NEW l \in {"wait", "store", "compare", "raise", "count", "test", "begin", "index"},
         Goto(w, l)
  PROVE  /\ pc' \in [Workers -> {"wait", "store", "compare", "raise", "count", "test",
                                 "begin", "index"}]
         /\ pc'[w] = l
         /\ \A v \in Workers : v # w => pc'[v] = pc[v]
  BY DEF TypeOK, Goto

LEMMA IncrementBounds ==
  ASSUME NEW n \in 0 .. MaxPosts
  PROVE  /\ Increment(n) \in 0 .. MaxPosts
         /\ n <= Increment(n)
         /\ n < MaxPosts => Increment(n) = n + 1
         /\ n = MaxPosts => Increment(n) = MaxPosts
  BY ThresholdAssumption DEF Increment

-----------------------------------------------------------------------------
(* Types: a worker about to store or to raise max_id has an account's id.  *)
HoldsId == \A w \in Workers : pc[w] \in {"store", "compare", "raise"} => id[w] \in Ids

BaseInv == TypeOK /\ HoldsId

LEMMA BaseInit == Init => BaseInv
  BY SizeAssumption, ThresholdAssumption DEF Init, BaseInv, TypeOK, HoldsId, Ids

LEMMA BaseStep == BaseInv /\ [Next]_vars => BaseInv'
  <1> SUFFICES ASSUME BaseInv, [Next]_vars PROVE BaseInv'
    OBVIOUS
  <1> USE SizeAssumption, ThresholdAssumption DEF BaseInv
  <1>1. ASSUME NEW w \in Workers, NEW k \in Ids, AckNew(w, k) PROVE BaseInv'
    BY <1>1 DEF AckNew, TypeOK, HoldsId, Goto, storeVars, historyVars, Ids
  <1>2. ASSUME NEW w \in Workers, Check(w) PROVE BaseInv'
    BY <1>2 DEF Check, TypeOK, HoldsId, Goto, storeVars, historyVars
  <1>3. ASSUME NEW w \in Workers, Store(w) PROVE BaseInv'
    BY <1>3 DEF Store, TypeOK, HoldsId, Goto, historyVars
  <1>4. ASSUME NEW w \in Workers, Compare(w) PROVE BaseInv'
    <2>1. pc' = [pc EXCEPT ![w] = "raise"] \/ pc' = [pc EXCEPT ![w] = "count"]
      BY <1>4 DEF Compare, Goto
    <2> QED
      BY <1>4, <2>1 DEF Compare, TypeOK, HoldsId, storeVars, historyVars
  <1>5. ASSUME NEW w \in Workers, Raise(w) PROVE BaseInv'
    BY <1>5 DEF Raise, TypeOK, HoldsId, Goto, historyVars
  <1>6. ASSUME NEW w \in Workers, Count(w) PROVE BaseInv'
    <2>1. post_cnt' \in 0 .. MaxPosts
      BY <1>6, IncrementBounds DEF Count, TypeOK
    <2>2. \E l \in {"begin", "wait", "test"} : pc' = [pc EXCEPT ![w] = l]
      BY <1>6 DEF Count, Goto
    <2>3. highRuns' \in Nat
      BY <1>6 DEF Count, TypeOK
    <2> QED
      BY <1>6, <2>1, <2>2, <2>3 DEF Count, TypeOK, HoldsId, storeVars
  <1>7. ASSUME NEW w \in Workers, Test(w) PROVE BaseInv'
    <2>1. \E l \in {"begin", "wait"} : pc' = [pc EXCEPT ![w] = l]
      BY <1>7 DEF Test, Goto
    <2>2. lowRuns' \in [Workers -> Nat]
      BY <1>7 DEF Test, TypeOK
    <2> QED
      BY <1>7, <2>1, <2>2 DEF Test, TypeOK, HoldsId, storeVars
  <1>8. ASSUME NEW w \in Workers, BeginIndex(w) PROVE BaseInv'
    BY <1>8 DEF BeginIndex, TypeOK, HoldsId, Goto, storeVars, historyVars, Ids
  <1>9. ASSUME NEW w \in Workers, EndIndex(w) PROVE BaseInv'
    BY <1>9 DEF EndIndex, TypeOK, HoldsId, Goto, storeVars, historyVars
  <1>10. CASE UNCHANGED vars
    BY <1>10 DEF vars, TypeOK, HoldsId, storeVars, historyVars
  <1> QED
    BY <1>1, <1>2, <1>3, <1>4, <1>5, <1>6, <1>7, <1>8, <1>9, <1>10 DEF Next, Handle

LEMMA BaseAlways == Spec => []BaseInv
  BY BaseInit, BaseStep, PTL DEF Spec

(* The variables of a server with any number of workers keep their types:  *)
(* max_id never leaves the accounts array.                                 *)
THEOREM TypeCorrect == Spec => []TypeOK
  BY BaseAlways, PTL DEF BaseInv

-----------------------------------------------------------------------------
(* The high threshold is counted by one increment only: the increment and  *)
(* the comparison are one atomic step.                                     *)

LEMMA HighStep == BaseInv /\ HighRunsOnce /\ [Next]_vars => HighRunsOnce'
  <1> SUFFICES ASSUME BaseInv, HighRunsOnce, [Next]_vars PROVE HighRunsOnce'
    OBVIOUS
  <1> USE ThresholdAssumption DEF HighRunsOnce
  <1>1. ASSUME NEW w \in Workers, Count(w) PROVE HighRunsOnce'
    <2>1. post_cnt \in 0 .. MaxPosts
      BY DEF BaseInv, TypeOK
    <2>2. post_cnt' = IF post_cnt < MaxPosts THEN post_cnt + 1 ELSE post_cnt
      BY <1>1 DEF Count, Increment
    <2>3. highRuns' = IF post_cnt' = HIGH THEN highRuns + 1 ELSE highRuns
      BY <1>1 DEF Count
    <2> QED
      BY <2>1, <2>2, <2>3
  <1>2. ASSUME ~ (\E w \in Workers : Count(w)) PROVE UNCHANGED <<post_cnt, highRuns>>
    BY <1>2 DEF Next, Handle, AckNew, Check, Store, Compare, Raise, Test, BeginIndex,
                EndIndex, vars, historyVars, storeVars
  <1> QED
    BY <1>1, <1>2

(* One worker, and only one, indexes at the high threshold, however the    *)
(* workers share post_cnt.                                                 *)
THEOREM HighRunsAreOnce == Spec => []HighRunsOnce
  <1>1. Init => HighRunsOnce
    BY ThresholdAssumption DEF Init, HighRunsOnce
  <1> QED
    BY <1>1, BaseAlways, HighStep, PTL DEF Spec

(* In the long mode a worker that indexes is the one that counted the high *)
(* threshold, and the second test is never reached.                        *)
RatingInv ==
  is_rating =>
    /\ \A w \in Workers : pc[w] # "test" /\ (Indexing(w) => post_cnt >= HIGH)
    /\ \A u, w \in Workers : Indexing(u) /\ Indexing(w) => u = w

LEMMA RatingStep == BaseInv /\ RatingInv /\ [Next]_vars => RatingInv'
  <1> SUFFICES ASSUME BaseInv, RatingInv, [Next]_vars, is_rating' PROVE RatingInv'
    BY DEF RatingInv
  <1> USE ThresholdAssumption
  <1>1. is_rating
    BY DEF Next, Handle, AckNew, Check, Store, Compare, Raise, Count, Test, BeginIndex,
           EndIndex, vars
  <1>2. TypeOK /\ post_cnt \in 0 .. MaxPosts
    BY DEF BaseInv, TypeOK
  <1>3. ASSUME NEW w \in Workers, NEW l \in {"wait", "store", "compare", "raise", "count"},
               Goto(w, l), post_cnt' >= post_cnt, post_cnt' \in Nat
        PROVE  RatingInv'
    <2>1. pc'[w] = l /\ \A v \in Workers : v # w => pc'[v] = pc[v]
      BY <1>2, <1>3, GotoMoves
    <2>2. \A v \in Workers : Indexing(v)' => v # w /\ Indexing(v)
      BY <2>1 DEF Indexing
    <2> QED
      BY <1>1, <1>2, <1>3, <2>1, <2>2 DEF RatingInv
  <1>4. ASSUME NEW w \in Workers, Count(w) PROVE RatingInv'
    <2>1. /\ post_cnt' \in Nat /\ post_cnt' >= post_cnt
          /\ post_cnt' = IF post_cnt < MaxPosts THEN post_cnt + 1 ELSE post_cnt
      BY <1>2, <1>4 DEF Count, Increment
    <2>2. CASE post_cnt' = HIGH
      <3>1. pc'[w] = "begin" /\ \A v \in Workers : v # w => pc'[v] = pc[v]
        BY <1>2, <1>4, <2>2, GotoMoves DEF Count
      <3>2. post_cnt < HIGH
        BY <1>2, <2>1, <2>2
      <3>3. \A v \in Workers : ~ Indexing(v)
        BY <1>1, <1>2, <3>2 DEF RatingInv
      <3>4. \A v \in Workers : Indexing(v)' => v = w
        BY <3>1, <3>3 DEF Indexing
      <3> QED
        BY <1>1, <2>1, <2>2, <3>1, <3>4 DEF RatingInv
    <2>3. CASE post_cnt' # HIGH
      <3>1. Goto(w, "wait")
        BY <1>1, <1>4, <2>3 DEF Count
      <3> QED
        BY <1>3, <2>1, <3>1
    <2> QED
      BY <2>2, <2>3
  <1>5. ASSUME NEW w \in Workers, BeginIndex(w) PROVE RatingInv'
    <2>1. pc'[w] = "index" /\ \A v \in Workers : v # w => pc'[v] = pc[v]
      BY <1>2, <1>5, GotoMoves DEF BeginIndex
    <2>2. \A v \in Workers : Indexing(v)' = Indexing(v)
      BY <1>5, <2>1 DEF Indexing, BeginIndex
    <2>3. post_cnt' = post_cnt
      BY <1>5 DEF BeginIndex
    <2> QED
      BY <1>1, <2>1, <2>2, <2>3 DEF RatingInv
  <1>6. ASSUME NEW w \in Workers, NEW k \in Ids, AckNew(w, k) PROVE RatingInv'
    BY <1>2, <1>3, <1>6 DEF AckNew
  <1>7. ASSUME NEW w \in Workers, Check(w) PROVE RatingInv'
    BY <1>2, <1>3, <1>7 DEF Check
  <1>8. ASSUME NEW w \in Workers, Store(w) PROVE RatingInv'
    BY <1>2, <1>3, <1>8 DEF Store
  <1>9. ASSUME NEW w \in Workers, Compare(w) PROVE RatingInv'
    <2>1. Goto(w, "raise") \/ Goto(w, "count")
      BY <1>9 DEF Compare
    <2> QED
      BY <1>2, <1>3, <1>9, <2>1 DEF Compare
  <1>10. ASSUME NEW w \in Workers, Raise(w) PROVE RatingInv'
    BY <1>2, <1>3, <1>10 DEF Raise
  <1>11. ASSUME NEW w \in Workers, Test(w) PROVE FALSE
    BY <1>1, <1>11 DEF Test, RatingInv
  <1>12. ASSUME NEW w \in Workers, EndIndex(w) PROVE RatingInv'
    BY <1>2, <1>3, <1>12 DEF EndIndex
  <1>13. CASE UNCHANGED vars
    BY <1>1, <1>13 DEF vars, RatingInv, Indexing
  <1> QED
    BY <1>4, <1>5, <1>6, <1>7, <1>8, <1>9, <1>10, <1>11, <1>12, <1>13 DEF Next, Handle

(* In the long mode no two workers are ever inside makeIndex together:     *)
(* makeIndex has no lock, and needs none in that mode against itself.      *)
THEOREM RatingRunsAlone == Spec => []RatingIndexesAlone
  <1>1. Init => RatingInv
    BY DEF Init, RatingInv, Indexing
  <1>2. RatingInv => RatingIndexesAlone
    BY DEF RatingInv, RatingIndexesAlone
  <1> QED
    BY <1>1, <1>2, BaseAlways, RatingStep, PTL DEF Spec

-----------------------------------------------------------------------------
(* Short mode.  A worker indexes at the low threshold only when post_cnt   *)
(* is exactly LOW; to test again it must count, and then post_cnt is past. *)
LowInv ==
  \A w \in Workers :
    /\ lowRuns[w] <= 1
    /\ lowRuns[w] = 1 => post_cnt >= LOW /\ (pc[w] = "test" => post_cnt > LOW)

LEMMA LowStep == BaseInv /\ LowInv /\ [Next]_vars => LowInv'
  <1> SUFFICES ASSUME BaseInv, LowInv, [Next]_vars PROVE LowInv'
    OBVIOUS
  <1> USE ThresholdAssumption
  <1>1. TypeOK /\ post_cnt \in 0 .. MaxPosts /\ lowRuns \in [Workers -> Nat]
    BY DEF BaseInv, TypeOK
  <1>2. ASSUME NEW w \in Workers, NEW l \in {"wait", "store", "compare", "raise", "count",
                                             "begin", "index"},
               Goto(w, l), UNCHANGED <<post_cnt, lowRuns>>
        PROVE  LowInv'
    <2>1. pc'[w] = l /\ \A v \in Workers : v # w => pc'[v] = pc[v]
      BY <1>1, <1>2, GotoMoves
    <2> QED
      BY <1>2, <2>1 DEF LowInv
  <1>3. ASSUME NEW w \in Workers, Count(w) PROVE LowInv'
    <2>1. /\ post_cnt' \in Nat /\ post_cnt' >= post_cnt
          /\ post_cnt' = IF post_cnt < MaxPosts THEN post_cnt + 1 ELSE post_cnt
      BY <1>1, <1>3 DEF Count, Increment
    <2>2. \A v \in Workers : v # w => pc'[v] = pc[v]
      <3>1. \E l \in {"begin", "wait", "test"} : pc' = [pc EXCEPT ![w] = l]
        BY <1>3 DEF Count, Goto
      <3> QED
        BY <1>1, <3>1 DEF TypeOK
    <2>3. UNCHANGED lowRuns
      BY <1>3 DEF Count
    <2>4. post_cnt >= LOW => post_cnt' > LOW
      BY <1>1, <2>1
    <2> QED
      BY <1>1, <2>1, <2>2, <2>3, <2>4 DEF LowInv
  <1>4. ASSUME NEW w \in Workers, Test(w) PROVE LowInv'
    <2>1. CASE post_cnt = LOW
      <3>1. pc'[w] = "begin" /\ \A v \in Workers : v # w => pc'[v] = pc[v]
        BY <1>1, <1>4, <2>1, GotoMoves DEF Test
      <3>2. lowRuns[w] = 0
        BY <1>1, <1>4, <2>1 DEF Test, LowInv
      <3>3. lowRuns'[w] = 1 /\ \A v \in Workers : v # w => lowRuns'[v] = lowRuns[v]
        BY <1>1, <1>4, <2>1, <3>2 DEF Test
      <3>4. post_cnt' = post_cnt
        BY <1>4 DEF Test
      <3> QED
        BY <1>1, <2>1, <3>1, <3>3, <3>4 DEF LowInv
    <2>2. CASE post_cnt # LOW
      BY <1>2, <1>4, <2>2 DEF Test
    <2> QED
      BY <2>1, <2>2
  <1>5. ASSUME NEW w \in Workers, NEW k \in Ids, AckNew(w, k) PROVE LowInv'
    BY <1>2, <1>5 DEF AckNew, historyVars
  <1>6. ASSUME NEW w \in Workers, Check(w) PROVE LowInv'
    BY <1>2, <1>6 DEF Check, historyVars
  <1>7. ASSUME NEW w \in Workers, Store(w) PROVE LowInv'
    BY <1>2, <1>7 DEF Store, historyVars
  <1>8. ASSUME NEW w \in Workers, Compare(w) PROVE LowInv'
    <2>1. Goto(w, "raise") \/ Goto(w, "count")
      BY <1>8 DEF Compare
    <2> QED
      BY <1>2, <1>8, <2>1 DEF Compare, historyVars
  <1>9. ASSUME NEW w \in Workers, Raise(w) PROVE LowInv'
    BY <1>2, <1>9 DEF Raise, historyVars
  <1>10. ASSUME NEW w \in Workers, BeginIndex(w) PROVE LowInv'
    BY <1>2, <1>10 DEF BeginIndex, historyVars
  <1>11. ASSUME NEW w \in Workers, EndIndex(w) PROVE LowInv'
    BY <1>2, <1>11 DEF EndIndex, historyVars
  <1>12. CASE UNCHANGED vars
    BY <1>12 DEF vars, LowInv, historyVars
  <1> QED
    BY <1>3, <1>4, <1>5, <1>6, <1>7, <1>8, <1>9, <1>10, <1>11, <1>12 DEF Next, Handle

(* Whatever the other workers count between a worker's increment and its   *)
(* second read of post_cnt, it indexes at the low threshold at most once.  *)
THEOREM LowRunsAreFew == Spec => []LowRunsPerWorker
  <1>1. Init => LowInv
    <2> SUFFICES ASSUME Init PROVE LowInv
      OBVIOUS
    <2>1. lowRuns \in [Workers -> Nat]
      BY BaseInit DEF BaseInv, TypeOK
    <2>2. \A w \in Workers : lowRuns[w] = 0
      BY DEF Init
    <2>3. ASSUME NEW w \in Workers PROVE lowRuns[w] \in Nat /\ lowRuns[w] <= 1 /\ lowRuns[w] # 1
      BY <2>1, <2>2
    <2> QED
      BY <2>3 DEF LowInv
  <1>2. LowInv => LowRunsPerWorker
    BY DEF LowInv, LowRunsPerWorker
  <1> QED
    BY <1>1, <1>2, BaseAlways, LowStep, PTL DEF Spec

-----------------------------------------------------------------------------
(* One worker.  Between the answer 201 and the end of the handler the one  *)
(* account that may not be stored, or not be covered by max_id, is the one *)
(* the worker holds.                                                       *)
StoredInv ==
  \A w \in Workers :
    /\ pc[w] = "store" => acked \subseteq stored \union {id[w]}
    /\ pc[w] # "store" => acked \subseteq stored

CoveredInv ==
  \A w \in Workers :
    /\ pc[w] \in {"store", "compare", "raise"} => acked \subseteq 1 .. max_id \union {id[w]}
    /\ pc[w] \notin {"store", "compare", "raise"} => acked \subseteq 1 .. max_id
    /\ pc[w] = "raise" => max_id < id[w]
    /\ pc[w] = "index" => from[w] = max_id

(* In the short mode the worker has indexed iff it has read post_cnt at    *)
(* the low threshold or past it.                                           *)
TestedInv ==
  \A w \in Workers :
    /\ is_rating => pc[w] # "test"
    /\ lowRuns[w] = IF ~ is_rating /\ post_cnt >= LOW /\ ~ (pc[w] = "test" /\ post_cnt = LOW)
                    THEN 1 ELSE 0

AloneInv == StoredInv /\ CoveredInv /\ TestedInv

LEMMA AloneInit == Init => AloneInv
  <1> SUFFICES ASSUME Init PROVE AloneInv
    OBVIOUS
  <1>1. StoredInv /\ CoveredInv
    BY DEF Init, StoredInv, CoveredInv
  <1>2. TestedInv
    <2>1. post_cnt = 0 /\ ~ (0 >= LOW)
      BY ThresholdAssumption DEF Init
    <2>2. \A w \in Workers : pc[w] = "wait" /\ lowRuns[w] = 0
      BY DEF Init
    <2> QED
      BY <2>1, <2>2 DEF TestedInv
  <1> QED
    BY <1>1, <1>2 DEF AloneInv

LEMMA AloneStep == OneWorker /\ BaseInv /\ AloneInv /\ [Next]_vars => AloneInv'
  <1> SUFFICES ASSUME OneWorker, BaseInv, AloneInv, [Next]_vars PROVE AloneInv'
    OBVIOUS
  <1> USE ThresholdAssumption DEF AloneInv
  <1>1. /\ TypeOK /\ max_id \in Nat /\ post_cnt \in 0 .. MaxPosts /\ lowRuns \in [Workers -> Nat]
        /\ \A v \in Workers : id[v] \in Nat
        /\ \A v \in Workers : pc[v] \in {"store", "compare", "raise"} => id[v] \in Nat \ {0}
    BY SizeAssumption DEF BaseInv, TypeOK, HoldsId, Ids
  <1>2. \A u, w \in Workers : u = w
    BY DEF OneWorker
  <1>3. ASSUME NEW w \in Workers, NEW k \in Ids, AckNew(w, k) PROVE AloneInv'
    <2>1. /\ pc[w] = "wait" /\ pc'[w] = "store"
          /\ id'[w] = k /\ acked' = acked \union {k}
          /\ UNCHANGED <<is_rating, max_id, stored, post_cnt, lowRuns>>
      BY <1>1, <1>3, GotoMoves DEF AckNew, storeVars, historyVars, TypeOK
    <2> QED
      BY <1>1, <1>2, <2>1 DEF StoredInv, CoveredInv, TestedInv
  <1>4. ASSUME NEW w \in Workers, Store(w) PROVE AloneInv'
    <2>1. /\ pc[w] = "store" /\ pc'[w] = "compare"
          /\ stored' = stored \union {id[w]}
          /\ UNCHANGED <<is_rating, max_id, id, acked, post_cnt, lowRuns>>
      BY <1>1, <1>4, GotoMoves DEF Store, storeVars, historyVars
    <2> QED
      BY <1>1, <1>2, <2>1 DEF StoredInv, CoveredInv, TestedInv
  <1>5. ASSUME NEW w \in Workers, Compare(w) PROVE AloneInv'
    <2>1. /\ pc[w] = "compare"
          /\ UNCHANGED <<is_rating, max_id, stored, id, acked, post_cnt, lowRuns>>
      BY <1>5 DEF Compare, storeVars, historyVars
    <2>2. CASE max_id < id[w]
      <3>1. pc'[w] = "raise"
        BY <1>1, <1>5, <2>2, GotoMoves DEF Compare
      <3> QED
        BY <1>1, <1>2, <2>1, <2>2, <3>1 DEF StoredInv, CoveredInv, TestedInv
    <2>3. CASE ~ (max_id < id[w])
      <3>1. pc'[w] = "count"
        BY <1>1, <1>5, <2>3, GotoMoves DEF Compare
      <3>2. id[w] \in 1 .. max_id
        BY <1>1, <2>1, <2>3
      <3> QED
        BY <1>1, <1>2, <2>1, <3>1, <3>2 DEF StoredInv, CoveredInv, TestedInv
    <2> QED
      BY <2>2, <2>3
  <1>6. ASSUME NEW w \in Workers, Raise(w) PROVE AloneInv'
    <2>1. /\ pc[w] = "raise" /\ pc'[w] = "count" /\ max_id' = id[w]
          /\ UNCHANGED <<is_rating, stored, id, acked, post_cnt, lowRuns>>
      BY <1>1, <1>6, GotoMoves DEF Raise, historyVars
    <2>2. acked \subseteq 1 .. max_id'
      BY <1>1, <2>1 DEF CoveredInv
    <2> QED
      BY <1>1, <1>2, <2>1, <2>2 DEF StoredInv, CoveredInv, TestedInv
  <1>7. ASSUME NEW w \in Workers, Check(w) PROVE AloneInv'
    <2>1. /\ pc[w] = "wait" /\ pc'[w] = "count"
          /\ UNCHANGED <<is_rating, max_id, stored, id, acked, post_cnt, lowRuns>>
      BY <1>1, <1>7, GotoMoves DEF Check, storeVars, historyVars
    <2> QED
      BY <1>1, <1>2, <2>1 DEF StoredInv, CoveredInv, TestedInv
  <1>8. ASSUME NEW w \in Workers, Count(w) PROVE AloneInv'
    <2>1. /\ pc[w] = "count"
          /\ post_cnt' = IF post_cnt < MaxPosts THEN post_cnt + 1 ELSE post_cnt
          /\ UNCHANGED <<is_rating, max_id, stored, id, acked, lowRuns>>
      BY <1>8 DEF Count, Increment, storeVars
    <2>2. /\ pc'[w] \in {"begin", "wait", "test"}
          /\ is_rating => pc'[w] # "test"
          /\ ~ is_rating /\ post_cnt' = LOW => pc'[w] = "test"
      <3>1. CASE post_cnt' = HIGH
        BY <1>1, <1>8, <3>1, GotoMoves DEF Count
      <3>2. CASE post_cnt' # HIGH
        BY <1>1, <1>8, <3>2, GotoMoves DEF Count
      <3> QED
        BY <3>1, <3>2
    <2>3. StoredInv' /\ CoveredInv'
      BY <1>1, <1>2, <2>1, <2>2 DEF StoredInv, CoveredInv
    <2>4. lowRuns[w] = IF ~ is_rating /\ post_cnt >= LOW THEN 1 ELSE 0
      BY <2>1 DEF TestedInv
    <2>5. post_cnt >= LOW <=> post_cnt' >= LOW /\ ~ (post_cnt' = LOW)
      BY <1>1, <2>1
    <2>6. lowRuns'[w] = IF ~ is_rating' /\ post_cnt' >= LOW /\ ~ (pc'[w] = "test" /\ post_cnt' = LOW)
                        THEN 1 ELSE 0
      BY <2>1, <2>2, <2>4, <2>5
    <2> QED
      BY <1>2, <2>1, <2>2, <2>3, <2>6 DEF TestedInv
  <1>9. ASSUME NEW w \in Workers, Test(w) PROVE AloneInv'
    <2>1. /\ pc[w] = "test"
          /\ UNCHANGED <<is_rating, max_id, stored, id, acked, post_cnt>>
      BY <1>9 DEF Test, storeVars
    <2>2. ~ is_rating
      BY <2>1 DEF TestedInv
    <2>3. CASE post_cnt = LOW
      <3>1. pc'[w] = "begin" /\ lowRuns'[w] = lowRuns[w] + 1
        BY <1>1, <1>9, <2>3, GotoMoves DEF Test
      <3>2. lowRuns[w] = 0
        BY <2>1, <2>3 DEF TestedInv
      <3> QED
        BY <1>1, <1>2, <2>1, <2>2, <2>3, <3>1, <3>2 DEF StoredInv, CoveredInv, TestedInv
    <2>4. CASE post_cnt # LOW
      <3>1. pc'[w] = "wait" /\ lowRuns'[w] = lowRuns[w]
        BY <1>1, <1>9, <2>4, GotoMoves DEF Test
      <3> QED
        BY <1>1, <1>2, <2>1, <2>2, <2>4, <3>1 DEF StoredInv, CoveredInv, TestedInv
    <2> QED
      BY <2>3, <2>4
  <1>10. ASSUME NEW w \in Workers, BeginIndex(w) PROVE AloneInv'
    <2>1. /\ pc[w] = "begin" /\ pc'[w] = "index" /\ from'[w] = max_id
          /\ UNCHANGED <<is_rating, max_id, stored, id, acked, post_cnt, lowRuns>>
      BY <1>1, <1>10, GotoMoves DEF BeginIndex, storeVars, historyVars, TypeOK
    <2> QED
      BY <1>1, <1>2, <2>1 DEF StoredInv, CoveredInv, TestedInv
  <1>11. ASSUME NEW w \in Workers, EndIndex(w) PROVE AloneInv'
    <2>1. /\ pc[w] = "index" /\ pc'[w] = "wait"
          /\ UNCHANGED <<is_rating, max_id, stored, id, acked, post_cnt, lowRuns>>
      BY <1>1, <1>11, GotoMoves DEF EndIndex, storeVars, historyVars
    <2> QED
      BY <1>1, <1>2, <2>1 DEF StoredInv, CoveredInv, TestedInv
  <1>12. CASE UNCHANGED vars
    BY <1>12 DEF vars, StoredInv, CoveredInv, TestedInv, storeVars, historyVars
  <1> QED
    BY <1>3, <1>4, <1>5, <1>6, <1>7, <1>8, <1>9, <1>10, <1>11, <1>12 DEF Next, Handle

IfAlone == OneWorker => AloneInv

LEMMA AloneAlways == Spec => [](BaseInv /\ IfAlone)
  <1>1. Init => IfAlone
    BY AloneInit DEF IfAlone
  <1>2. BaseInv /\ IfAlone /\ [Next]_vars => IfAlone'
    <2>1. OneWorker' <=> OneWorker
      BY DEF OneWorker
    <2> QED
      BY <2>1, AloneStep DEF IfAlone
  <1> QED
    BY <1>1, <1>2, BaseAlways, PTL DEF Spec

(* One worker: whoever was answered 201 is stored, and covered by max_id,  *)
(* when the next request is read.                                          *)
THEOREM AckedAreKnown == Spec => []AckedIsKnown
  <1>1. IfAlone => AckedIsKnown
    BY DEF IfAlone, AloneInv, StoredInv, CoveredInv, AckedIsKnown
  <1> QED
    BY <1>1, AloneAlways, PTL

(* One worker: an index run starts from an id at or above every account    *)
(* answered 201, and all of them are stored.                               *)
THEOREM IndexCovers == Spec => []IndexCoversAcked
  <1>1. IfAlone => IndexCoversAcked
    BY DEF IfAlone, AloneInv, StoredInv, CoveredInv, IndexCoversAcked
  <1> QED
    BY <1>1, AloneAlways, PTL

(* One worker: the low threshold starts exactly one index run, in the      *)
(* short mode only.                                                        *)
THEOREM LowRunIsOnce == Spec => []LowRunsOnce
  <1>1. IfAlone => LowRunsOnce
    BY DEF IfAlone, AloneInv, TestedInv, LowRunsOnce
  <1> QED
    BY <1>1, AloneAlways, PTL

=============================================================================
