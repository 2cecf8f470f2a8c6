------------------------ MODULE AccountIndex_proofs ------------------------
(***************************************************************************)
(* Proofs about AccountIndex, for every size of the accounts array, every  *)
(* set of codes and every width of the links: types and descent; what      *)
(* makeIndex builds, and what a walk over it examines.                     *)
(***************************************************************************)
EXTENDS AccountIndex, TLAPS, WellFoundedInduction

(* The remainder a link keeps of a distance, and when it keeps all of it.  *)
LEMMA Remainder ==
  ASSUME NEW a \in Nat, NEW m \in Nat \ {0}
  PROVE  /\ a % m \in 0 .. a
         /\ a < m => a % m = a
  OBVIOUS

(* A set of ids that is not empty has a highest member.                    *)
LEMMA HasHighest ==
  ASSUME NEW n \in Nat, NEW S \in SUBSET (0 .. n), S # {}
  PROVE  \E h \in S : IsHighest(h, S)
  <1> DEFINE T == {n - m : m \in S}
  <1> DEFINE R == OpToRel(<, Nat)
  <1>1. T \subseteq Nat /\ T # {}
    <2>1. \A m \in S : m \in Nat /\ m <= n /\ n - m \in Nat
      OBVIOUS
    <2> QED
      BY <2>1
  <1>2. IsWellFoundedOn(R, Nat)
    BY NatLessThanWellFounded
  <1> HIDE DEF R
  <1>3. \E t \in T : \A u \in T : ~ (<<u, t>> \in R)
    <2> HIDE DEF T
    <2> QED
      BY <1>1, <1>2, WFMin
  <1>4. PICK h \in S : \A u \in T : ~ (<<u, n - h>> \in R)
    BY <1>3
  <1>5. ASSUME NEW m \in S PROVE m <= h
    <2>1. ~ (<<n - m, n - h>> \in R)
      BY <1>4
    <2>2. n - m \in Nat /\ n - h \in Nat
      OBVIOUS
    <2>3. ~ (n - m < n - h)
      BY <2>1, <2>2 DEF R, OpToRel
    <2> QED
      BY <2>3
  <1> QED
    BY <1>5 DEF IsHighest

(* What the ways of walking are.                                           *)
LEMMA QueryShapes ==
  ASSUME NEW q \in Queries
  PROVE  /\ q.links \in {"value", "nonempty", "merge", "scan"}
         /\ q.links = "value" => \E c \in Keys : q.keys = {c}
         /\ q.links = "nonempty" => q.keys = {NONEMPTY}
         /\ q.links = "merge" => q.keys \subseteq Codes /\ q.keys # {}
         /\ q.keys \subseteq Keys
         /\ q # NoQuery
  <1>1. CASE q \in [links : {"value"}, keys : {{c} : c \in Keys}]
    <2>1. PICK c \in Keys : q.keys = {c}
      BY <1>1
    <2> QED
      BY <1>1, <2>1 DEF NoQuery
  <1>2. CASE q \in [links : {"nonempty"}, keys : {{NONEMPTY}}]
    BY <1>2 DEF NoQuery, Keys
  <1>3. CASE q \in [links : {"merge"}, keys : (SUBSET (Codes \ {EMPTY})) \ {{}}]
    BY <1>3 DEF NoQuery, Keys
  <1>4. CASE q \in [links : {"scan"}, keys : {{}}]
    BY <1>4 DEF NoQuery
  <1> QED
    BY <1>1, <1>2, <1>3, <1>4 DEF Queries

-----------------------------------------------------------------------------
(* The first invariant: types, and what keeps a walk inside the array.     *)

(* While makeIndex runs, every chain seen so far lies above the loop.      *)
LoopAbove ==
  pc = "index" =>
    /\ i <= max_id
    /\ \A c \in Keys : prev[c] = 0 \/ i < prev[c]
    /\ \A c \in Codes : prev[c] # 0 => first[c] # 0

(* No link reaches account 0 or below, or up.                              *)
LinksDown ==
  \A k \in Ids : /\ nxt[k] = 0 \/ nxt[k] < k
                 /\ nxtNe[k] = 0 \/ nxtNe[k] < k

(* A name of the dictionary has a head, once an index run is complete.     *)
NamesHeaded ==
  \A c \in names : first[c] # 0 \/ (pc = "index" /\ \E k \in 1 .. i : attr[k] = c)

(* The cursor of a running walk is an account, unless it scans them all.   *)
WalkShape ==
  /\ pc \in {"walk", "cut", "done"} => query \in Queries
  /\ pc = "walk" => limit # 0
  /\ pc \in {"walk", "cut"} /\ query.links # "scan" => id # 0
  /\ pc \in {"walk", "cut"} /\ query.links = "merge" =>
       /\ 0 \notin prefix_set
       /\ IsHighest(id, prefix_set)

BaseInv == TypeOK /\ LoopAbove /\ LinksDown /\ NamesHeaded /\ WalkShape


LEMMA BaseInit == Init => BaseInv
  <1> SUFFICES ASSUME Init PROVE BaseInv
    OBVIOUS
  <1> USE SizeAssumption, CodesAssumption, KeyAssumption, LimitAssumption
  <1>1. TypeOK
    BY DEF Init, TypeOK, Ids, Keys, EMPTY
  <1>2. LoopAbove
    BY DEF Init, LoopAbove, Ids, Keys
  <1>3. LinksDown
    BY DEF Init, LinksDown
  <1>4. NamesHeaded
    <2> SUFFICES ASSUME NEW c \in names PROVE \E k \in 1 .. i : attr[k] = c
      BY DEF NamesHeaded, Init
    <2>1. PICK k \in Ids : attr[k] = c /\ c # EMPTY
      BY DEF Init
    <2> QED
      BY <2>1 DEF Init
  <1>5. WalkShape
    BY DEF Init, WalkShape
  <1> QED
    BY <1>1, <1>2, <1>3, <1>4, <1>5 DEF BaseInv

(* Linking p down to k keeps the links of the array inside it.             *)
LEMMA LinkToType ==
  ASSUME NEW links \in [Ids -> Ids], NEW p \in Ids, NEW k \in Ids, NEW mod \in Nat \ {0},
         p = 0 \/ k < p, k # 0,
         \A m \in Ids : links[m] = 0 \/ links[m] < m
  PROVE  /\ LinkTo(links, p, k, mod) \in [Ids -> Ids]
         /\ \A m \in Ids : LinkTo(links, p, k, mod)[m] = 0 \/ LinkTo(links, p, k, mod)[m] < m
  <1>1. CASE p = 0
    BY <1>1 DEF LinkTo
  <1>2. CASE p # 0
    <2>1. p - k \in Nat /\ p - k < p /\ p - k \in Ids
      BY <1>2, SizeAssumption DEF Ids
    <2>2. (p - k) % mod \in 0 .. (p - k)
      BY <2>1, Remainder
    <2>3. (p - k) % mod \in Ids /\ (p - k) % mod < p
      BY <2>1, <2>2, SizeAssumption, SMTT(30) DEF Ids
    <2> HIDE DEF Ids
    <2> DEFINE d == (p - k) % mod
    <2> HIDE DEF d
    <2> QED
      BY <1>2, <2>3 DEF LinkTo, d
  <1> QED
    BY <1>1, <1>2

LEMMA BaseIndexStep == BaseInv /\ IndexStep => BaseInv'
  <1> SUFFICES ASSUME BaseInv, IndexStep PROVE BaseInv'
    OBVIOUS
  <1> USE SizeAssumption, CodesAssumption, KeyAssumption, LimitAssumption
  <1> USE DEF BaseInv
  <1>1. i \in Ids /\ i # 0 /\ i - 1 \in Ids /\ attr[i] \in Codes
    BY DEF IndexStep, TypeOK, Ids
  <1>2. \A c \in Keys : prev[c] \in Ids /\ (prev[c] = 0 \/ i < prev[c])
    BY DEF IndexStep, TypeOK, LoopAbove
  <1>3. attr[i] \in Keys /\ NONEMPTY \in Keys
    BY <1>1 DEF Keys
  <1>4. /\ nxt' \in [Ids -> Ids]
        /\ nxtNe' \in [Ids -> Ids]
        /\ LinksDown'
    <2>1. /\ nxt' \in [Ids -> Ids]
          /\ \A k \in Ids : nxt'[k] = 0 \/ nxt'[k] < k
      <3>1. /\ nxt \in [Ids -> Ids] /\ (\A m \in Ids : nxt[m] = 0 \/ nxt[m] < m)
            /\ prev[attr[i]] \in Ids /\ (prev[attr[i]] = 0 \/ i < prev[attr[i]])
            /\ OffMod \in Nat \ {0}
        BY <1>1, <1>2, <1>3, WidthAssumption DEF TypeOK, LinksDown
      <3>2. nxt' = LinkTo(nxt, prev[attr[i]], i, OffMod)
        BY DEF IndexStep
      <3> QED
        BY <1>1, <3>1, <3>2, LinkToType
    <2>2. /\ nxtNe' \in [Ids -> Ids]
          /\ \A k \in Ids : nxtNe'[k] = 0 \/ nxtNe'[k] < k
      <3>1. /\ nxtNe \in [Ids -> Ids] /\ (\A m \in Ids : nxtNe[m] = 0 \/ nxtNe[m] < m)
            /\ prev[NONEMPTY] \in Ids /\ (prev[NONEMPTY] = 0 \/ i < prev[NONEMPTY])
            /\ NeMod \in Nat \ {0}
        BY <1>1, <1>2, <1>3, WidthAssumption DEF TypeOK, LinksDown
      <3>2. nxtNe' = LinkTo(nxtNe, prev[NONEMPTY], i, NeMod)
        BY DEF IndexStep
      <3> QED
        BY <1>1, <3>1, <3>2, LinkToType
    <2> QED
      BY <2>1, <2>2 DEF LinksDown
  <1>5. first' \in [Keys -> Ids] /\ prev' \in [Keys -> Ids]
    BY <1>1, <1>2, <1>3 DEF IndexStep, LastSeen, TypeOK, HeadIf
  <1>6. TypeOK'
    BY <1>1, <1>4, <1>5 DEF IndexStep, TypeOK, storeVars, seenVars, queryVars
  <1>7. /\ \A c \in Codes : first[c] # 0 => first'[c] # 0
        /\ first'[attr[i]] # 0
    BY <1>1, <1>2, <1>3 DEF IndexStep, TypeOK, LoopAbove, HeadIf, Keys
  <1>8. LoopAbove'
    <2>1. i' <= max_id'
      BY <1>1 DEF IndexStep, LoopAbove, storeVars, TypeOK, Ids
    <2>2. \A c \in Keys : prev'[c] = 0 \/ i' < prev'[c]
      BY <1>1, <1>2 DEF IndexStep, LastSeen, Ids
    <2>3. \A c \in Codes : prev'[c] # 0 => first'[c] # 0
      BY <1>1, <1>2, <1>7 DEF IndexStep, LastSeen, LoopAbove, Keys
    <2> QED
      BY <2>1, <2>2, <2>3 DEF LoopAbove
  <1>9. NamesHeaded'
    <2> SUFFICES ASSUME NEW c \in names, first'[c] = 0
                 PROVE  \E k \in 1 .. i' : attr[k] = c
      BY DEF NamesHeaded, IndexStep, storeVars
    <2>1. c \in Codes /\ first[c] = 0
      BY <1>7 DEF TypeOK
    <2>2. PICK k \in 1 .. i : attr[k] = c
      BY <2>1 DEF NamesHeaded
    <2>3. k # i
      BY <1>7, <2>2
    <2> QED
      BY <1>1, <2>2, <2>3 DEF IndexStep, Ids
  <1>10. WalkShape'
    BY DEF WalkShape, IndexStep, queryVars, IsHighest
  <1> QED
    BY <1>4, <1>6, <1>8, <1>9, <1>10

LEMMA BaseQueryStart ==
  ASSUME BaseInv, NEW q \in Queries, NEW n \in 0 .. MaxLimit, QueryStart(q, n)
  PROVE  BaseInv'
  <1> USE SizeAssumption, CodesAssumption, KeyAssumption, LimitAssumption
  <1> USE DEF BaseInv
  <1>1. id' \in Ids /\ prefix_set' \subseteq Ids
    BY QueryShapes, SMTT(30) DEF QueryStart, TypeOK, Ids
  <1>2. pc' \in {"walk", "cut", "done"}
    BY DEF QueryStart
  <1>3. TypeOK'
    BY <1>1, <1>2 DEF QueryStart, TypeOK, storeVars, chainVars, loopVars, seenVars
  <1>4. LoopAbove'
    BY <1>2 DEF LoopAbove
  <1>5. LinksDown'
    BY DEF QueryStart, LinksDown, chainVars
  <1>6. NamesHeaded'
    BY DEF QueryStart, NamesHeaded, chainVars, storeVars
  <1>7. WalkShape'
    <2>1. pc' = "walk" => limit' # 0
      BY DEF QueryStart
    <2>2. pc' \in {"walk", "cut"} => id' # 0
      BY DEF QueryStart
    <2>3. query'.links = "merge" => 0 \notin prefix_set' /\ IsHighest(id', prefix_set')
      BY QueryShapes DEF QueryStart, NamesHeaded, IsHighest
    <2> QED
      BY <1>2, <2>1, <2>2, <2>3 DEF WalkShape, QueryStart
  <1> QED
    BY <1>3, <1>4, <1>5, <1>6, <1>7

(* A step of a walk leaves the index alone.                                *)
LEMMA BaseExamine ==
  ASSUME BaseInv, NEW pass \in BOOLEAN, Examine(pass),
         pc' \in {"walk", "cut", "done"}, id' \in Ids, prefix_set' \subseteq Ids,
         WalkShape'
  PROVE  BaseInv'
  <1> USE SizeAssumption, CodesAssumption, KeyAssumption, LimitAssumption
  <1> USE DEF BaseInv
  <1>1. limit' \in 0 .. MaxLimit
    BY DEF Examine, TypeOK, WalkShape
  <1>2. TypeOK'
    BY <1>1 DEF Examine, TypeOK, storeVars, chainVars, loopVars, seenVars
  <1>3. LoopAbove'
    BY DEF LoopAbove
  <1>4. LinksDown'
    BY DEF Examine, LinksDown, chainVars
  <1>5. NamesHeaded'
    BY DEF Examine, NamesHeaded, chainVars, storeVars
  <1> QED
    BY <1>2, <1>3, <1>4, <1>5

(* Along a chain the candidate moves down, and stays in the array.         *)
LEMMA ChainStepDown ==
  ASSUME BaseInv, pc \in {"walk", "cut"}, query.links # "scan",
         NEW links \in {nxt, nxtNe}
  PROVE  /\ id \in 1 .. ArrSize
         /\ links[id] \in Ids
         /\ links[id] # 0 => id - links[id] \in 1 .. (id - 1)
  <1>1. id \in Ids /\ id # 0
    BY DEF BaseInv, TypeOK, WalkShape
  <1>2. links[id] \in Ids /\ (links[id] = 0 \/ links[id] < id)
    BY <1>1 DEF BaseInv, TypeOK, LinksDown
  <1> QED
    BY <1>1, <1>2, SizeAssumption DEF Ids

LEMMA BaseWalkStep ==
  ASSUME BaseInv, NEW pass \in BOOLEAN, WalkStep(pass)
  PROVE  /\ BaseInv'
         /\ query.links # "scan" => id' \in 1 .. id /\ (pc' # "done" => id' < id)
  <1>1. pc = "walk" /\ query \in Queries /\ id \in Ids /\ query.links # "merge"
    BY DEF BaseInv, WalkStep, Examine, WalkShape, TypeOK
  <1>2. query.links \in {"value", "nonempty", "scan"}
    BY <1>1, QueryShapes
  <1>3. /\ Distance \in Ids
        /\ Distance # 0 => id - Distance \in 0 .. (id - 1)
        /\ Distance # 0 /\ query.links # "scan" => id - Distance # 0
        /\ query.links # "scan" => id # 0
    <2>1. CASE query.links = "value"
      <3>1. nxt \in {nxt, nxtNe}
        OBVIOUS
      <3> QED
        BY <1>1, <2>1, <3>1, ChainStepDown, SizeAssumption DEF Distance, Ids
    <2>2. CASE query.links = "nonempty"
      <3>1. nxtNe \in {nxt, nxtNe}
        OBVIOUS
      <3> QED
        BY <1>1, <2>2, <3>1, ChainStepDown, SizeAssumption DEF Distance, Ids
    <2>3. CASE query.links = "scan"
      BY <1>1, <2>3, SizeAssumption DEF Distance, Ids
    <2> QED
      BY <1>2, <2>1, <2>2, <2>3
  <1> HIDE DEF Distance
  <1>4. id' \in Ids /\ pc' \in {"walk", "cut", "done"}
    BY <1>1, <1>3, SizeAssumption DEF WalkStep, Continue, Ids
  <1>5. WalkShape'
    BY <1>1, <1>2, <1>3 DEF WalkShape, WalkStep, Examine, Continue, Ids
  <1>6. prefix_set' \subseteq Ids
    BY DEF BaseInv, TypeOK, WalkStep
  <1>7. BaseInv'
    BY <1>4, <1>5, <1>6, BaseExamine DEF WalkStep
  <1>8. query.links # "scan" => id' \in 1 .. id /\ (pc' # "done" => id' < id)
    BY <1>1, <1>3, SizeAssumption DEF WalkStep, Continue, Ids
  <1> QED
    BY <1>7, <1>8

LEMMA BaseMergeStep ==
  ASSUME BaseInv, NEW pass \in BOOLEAN, MergeStep(pass)
  PROVE  /\ BaseInv'
         /\ id' \in 1 .. id /\ (pc' # "done" => id' < id)
  <1>1. /\ pc = "walk" /\ query \in Queries /\ id \in Ids /\ query.links = "merge"
        /\ prefix_set \subseteq Ids /\ 0 \notin prefix_set /\ IsHighest(id, prefix_set)
    BY DEF BaseInv, MergeStep, Examine, WalkShape, TypeOK
  <1>2. /\ id \in 1 .. ArrSize
        /\ nxt[id] \in Ids
        /\ nxt[id] # 0 => id - nxt[id] \in 1 .. (id - 1)
    BY <1>1, ChainStepDown
  <1>3. Merged \subseteq 1 .. (id - 1)
    <2>1. \A m \in prefix_set \ {id} : m \in Nat /\ m # 0 /\ m <= id /\ m # id
      BY <1>1, SizeAssumption DEF IsHighest, Ids
    <2>2. \A m \in prefix_set \ {id} : m \in 1 .. (id - 1)
      BY <1>2, <2>1, SizeAssumption
    <2>3. \A m \in Merged : m \in prefix_set \ {id} \/ (nxt[id] # 0 /\ m = id - nxt[id])
      BY DEF Merged
    <2> QED
      BY <1>2, <2>2, <2>3
  <1> HIDE DEF Merged
  <1>4. /\ id' \in 1 .. id
        /\ pc' # "done" => id' < id /\ IsHighest(id', Merged)
        /\ pc' \in {"walk", "cut", "done"}
    <2>1. CASE Merged = {}
      BY <1>2, <2>1 DEF MergeStep
    <2>2. CASE Merged # {}
      <3>1. id' \in Merged /\ IsHighest(id', Merged) /\ pc' \in {"walk", "cut"}
        BY <2>2 DEF MergeStep, Continue, IsHighest
      <3> QED
        BY <1>2, <1>3, <3>1, SizeAssumption
    <2> QED
      BY <2>1, <2>2
  <1>5. id' \in Ids /\ prefix_set' \subseteq Ids
    BY <1>2, <1>3, <1>4, SizeAssumption DEF MergeStep, Ids
  <1>6. WalkShape'
    BY <1>1, <1>2, <1>3, <1>4 DEF WalkShape, MergeStep, Examine, Continue
  <1>7. BaseInv'
    BY <1>4, <1>5, <1>6, BaseExamine DEF MergeStep
  <1> QED
    BY <1>4, <1>7

LEMMA BaseStep == BaseInv /\ [Next]_vars => BaseInv'
  <1> SUFFICES ASSUME BaseInv, [Next]_vars PROVE BaseInv'
    OBVIOUS
  <1> USE SizeAssumption, CodesAssumption, KeyAssumption, LimitAssumption
  <1>0. 0 \in Ids /\ 1 .. ArrSize \subseteq Ids /\ 0 \in 0 .. MaxLimit
    BY DEF Ids
  <1>1. CASE StartIndex
    <2>1. TypeOK'
      BY <1>0, <1>1 DEF BaseInv, StartIndex, TypeOK, storeVars, chainVars, seenVars, queryVars
    <2>2. LoopAbove'
      BY <1>1 DEF BaseInv, StartIndex, TypeOK, LoopAbove, storeVars, Keys
    <2>3. LinksDown' /\ NamesHeaded' /\ WalkShape'
      BY <1>1 DEF BaseInv, StartIndex, LinksDown, NamesHeaded, WalkShape,
                  storeVars, chainVars, queryVars
    <2> QED
      BY <2>1, <2>2, <2>3 DEF BaseInv
  <1>2. CASE IndexStep
    BY <1>2, BaseIndexStep
  <1>3. CASE FinishIndex
    <2>1. TypeOK'
      BY <1>0, <1>3 DEF BaseInv, FinishIndex, TypeOK,
                        storeVars, chainVars, loopVars, queryVars
    <2>2. LoopAbove' /\ LinksDown' /\ WalkShape'
      BY <1>3 DEF BaseInv, FinishIndex, LoopAbove, LinksDown, WalkShape,
                  storeVars, chainVars, loopVars, queryVars
    <2>3. NamesHeaded'
      BY <1>3 DEF BaseInv, FinishIndex, NamesHeaded, storeVars, chainVars
    <2> QED
      BY <2>1, <2>2, <2>3 DEF BaseInv
  <1>4. ASSUME NEW k \in 1 .. ArrSize, NEW c \in Codes, PostNew(k, c)
        PROVE  BaseInv'
    <2>1. TypeOK'
      BY <1>4 DEF BaseInv, PostNew, TypeOK, chainVars, loopVars, seenVars, queryVars
    <2>2. LoopAbove' /\ LinksDown' /\ WalkShape'
      BY <1>4 DEF BaseInv, PostNew, LoopAbove, LinksDown, WalkShape,
                  chainVars, loopVars, queryVars
    <2>3. NamesHeaded'
      BY <1>4 DEF BaseInv, PostNew, NamesHeaded, chainVars
    <2> QED
      BY <2>1, <2>2, <2>3 DEF BaseInv
  <1>5. ASSUME NEW q \in Queries, NEW n \in 0 .. MaxLimit, QueryStart(q, n)
        PROVE  BaseInv'
    BY <1>5, BaseQueryStart
  <1>6. ASSUME NEW pass \in BOOLEAN, WalkStep(pass)
        PROVE  BaseInv'
    BY <1>6, BaseWalkStep
  <1>7. ASSUME NEW pass \in BOOLEAN, MergeStep(pass)
        PROVE  BaseInv'
    BY <1>7, BaseMergeStep
  <1>8. CASE Reply
    <2>1. TypeOK'
      BY <1>0, <1>8 DEF BaseInv, Reply, TypeOK, storeVars, chainVars, loopVars, seenVars
    <2>2. LoopAbove' /\ LinksDown' /\ NamesHeaded' /\ WalkShape'
      BY <1>8 DEF BaseInv, Reply, LoopAbove, LinksDown, NamesHeaded, WalkShape,
                  storeVars, chainVars, loopVars
    <2> QED
      BY <2>1, <2>2 DEF BaseInv
  <1>9. CASE UNCHANGED vars
    BY <1>9 DEF BaseInv, TypeOK, LoopAbove, LinksDown, NamesHeaded, WalkShape, vars,
                storeVars, chainVars, loopVars, seenVars, queryVars, IsHighest
  <1> QED
    BY <1>1, <1>2, <1>3, <1>4, <1>5, <1>6, <1>7, <1>8, <1>9 DEF Next

LEMMA BaseInvariance == Spec => []BaseInv
  BY BaseInit, BaseStep, PTL DEF Spec

(* Every variable keeps its type: the cursor of getFilter stays inside the *)
(* accounts array, and so does every link and every head makeIndex stores. *)
THEOREM TypeCorrect == Spec => []TypeOK
  <1>1. BaseInv => TypeOK
    BY DEF BaseInv
  <1> QED
    BY <1>1, BaseInvariance, PTL

(* A walk along a chain, or along several merged, goes strictly down and   *)
(* never to account 0: the loop of getFilter ends, whatever was posted and *)
(* however the links were truncated.                                       *)
THEOREM CursorAlwaysDescends == Spec => CursorDescends
  <1> DEFINE Down == pc = "walk" /\ query.links # "scan"
                       => id' \in 1 .. id /\ (pc' # "done" => id' < id)
  <1>1. BaseInv /\ [Next]_vars => [Down]_vars
    <2> SUFFICES ASSUME BaseInv, Next, pc = "walk", query.links # "scan"
                 PROVE  id' \in 1 .. id /\ (pc' # "done" => id' < id)
      OBVIOUS
    <2>1. PICK pass \in BOOLEAN : WalkStep(pass) \/ MergeStep(pass)
      BY DEF Next, StartIndex, IndexStep, FinishIndex, PostNew, QueryStart, Reply
    <2> QED
      BY <2>1, BaseWalkStep, BaseMergeStep
  <1> QED
    BY <1>1, BaseInvariance, PTL DEF Spec, CursorDescends

-----------------------------------------------------------------------------
(* What makeIndex builds, and what a walk over it examines: the proofs of  *)
(* ValueWalkComplete, ValueWalkExact and NonemptyWalkComplete.             *)

IsLowest(k, S) == k \in S /\ \A m \in S : k <= m

(* Every account of S links to the next one of S below it.                 *)
Threaded(S, links, mod) ==
  \A k, s \in S : IsNextBelow(S, k, s) => links[k] = (k - s) % mod

(* S is threaded down to p, the last account seen, from the head h.        *)
ChainBuilt(S, p, h, links, mod) ==
  /\ Threaded(S, links, mod)
  /\ IF p = 0 THEN S = {} ELSE IsLowest(p, S) /\ IsHighest(h, S)

AnyCode == Codes \ {EMPTY}

(* The accounts the loop of makeIndex has handled, by code.                *)
Processed(cs) == {k \in (i + 1) .. max_id : attr[k] \in cs}

Building ==
  pc = "index" =>
    /\ \A c \in Codes :
         ChainBuilt(Processed({c}), prev[c], first[c], nxt, OffMod)
    /\ ChainBuilt(Processed(AnyCode), prev[NONEMPTY], first[NONEMPTY], nxtNe, NeMod)
    /\ prev[NONEMPTY] = 0 /\ i < max_id => first[NONEMPTY] = i + 1
    /\ prev[NONEMPTY] > i + 1 =>
         nxtNe[prev[NONEMPTY]] = (prev[NONEMPTY] - (i + 1)) % NeMod

(* The nonempty chain, with the account 1 it always ends in.               *)
NonEmptyDown == NonEmpty \union {1}

Built ==
  pc # "index" =>
    /\ top \in 1 .. max_id
    /\ \A c \in Codes :
         /\ Threaded(Holders({c}), nxt, OffMod)
         /\ Holders({c}) # {} => IsHighest(first[c], Holders({c}))
    /\ Threaded(NonEmptyDown, nxtNe, NeMod)
    /\ IsHighest(first[NONEMPTY], NonEmptyDown)

IndexInv == BaseInv /\ Building /\ Built

-----------------------------------------------------------------------------
(* Linking the last account of a chain to one below it extends the chain.  *)
LEMMA ExtendChain ==
  ASSUME NEW S \in SUBSET Ids, NEW links \in [Ids -> Ids],
         NEW p \in Ids, NEW h \in Ids, NEW k \in Ids, NEW mod,
         k # 0, \A m \in S : k < m,
         ChainBuilt(S, p, h, links, mod)
  PROVE  ChainBuilt(S \union {k}, k, IF p = 0 THEN k ELSE h, LinkTo(links, p, k, mod), mod)
  <1> DEFINE T == S \union {k}
  <1> DEFINE new == LinkTo(links, p, k, mod)
  <1>1. \A m \in T : m \in Int /\ k <= m
    BY SizeAssumption DEF Ids
  <1>2. IsLowest(k, T)
    BY <1>1 DEF IsLowest
  <1>3. IsHighest(IF p = 0 THEN k ELSE h, T)
    BY <1>1 DEF ChainBuilt, IsHighest
  <1>4. ASSUME NEW a \in T, NEW s \in T, IsNextBelow(T, a, s)
        PROVE  new[a] = (a - s) % mod
    <2>1. a \in S
      BY <1>1, <1>4 DEF IsNextBelow
    <2>2. p # 0 /\ IsLowest(p, S)
      BY <2>1 DEF ChainBuilt
    <2>3. CASE s \in S
      <3>1. IsNextBelow(S, a, s)
        BY <1>4, <2>1, <2>3 DEF IsNextBelow
      <3>2. a # p
        BY <1>1, <1>4, <2>1, <2>2, <2>3 DEF IsNextBelow, IsLowest
      <3>3. new[a] = links[a]
        BY <2>1, <3>2 DEF LinkTo
      <3> QED
        BY <2>1, <2>3, <3>1, <3>3 DEF ChainBuilt, Threaded
    <2>4. CASE s = k
      <3>1. a = p
        BY <1>1, <1>4, <2>1, <2>2, <2>4 DEF IsNextBelow, IsLowest
      <3> QED
        BY <2>2, <2>4, <3>1 DEF LinkTo
    <2> QED
      BY <2>3, <2>4
  <1> QED
    BY <1>2, <1>3, <1>4 DEF ChainBuilt, Threaded

(* A link out of another chain, or out of the end of this one, leaves what *)
(* is built as it was.                                                     *)
LEMMA KeepChain ==
  ASSUME NEW S \in SUBSET Ids, NEW links \in [Ids -> Ids],
         NEW p, NEW h, NEW q, NEW k, NEW mod,
         q \notin S \/ IsLowest(q, S),
         ChainBuilt(S, p, h, links, mod)
  PROVE  ChainBuilt(S, p, h, LinkTo(links, q, k, mod), mod)
  <1> DEFINE new == LinkTo(links, q, k, mod)
  <1>1. ASSUME NEW a \in S, NEW s \in S, IsNextBelow(S, a, s)
        PROVE  new[a] = (a - s) % mod
    <2>1. \A m \in S : m \in Int
      BY SizeAssumption DEF Ids
    <2>2. a # q
      BY <1>1, <2>1 DEF IsNextBelow, IsLowest
    <2>3. new[a] = links[a]
      BY <2>2 DEF LinkTo
    <2> QED
      BY <1>1, <2>3 DEF ChainBuilt, Threaded
  <1> QED
    BY <1>1 DEF ChainBuilt, Threaded

LEMMA IndexInit == Init => Building /\ Built
  <1> SUFFICES ASSUME Init PROVE Building /\ Built
    OBVIOUS
  <1>1. max_id \in Nat /\ i = max_id /\ pc = "index"
    BY SizeAssumption DEF Init
  <1>2. \A cs : Processed(cs) = {}
    BY <1>1 DEF Processed
  <1>3. \A c \in Keys : prev[c] = 0
    BY DEF Init
  <1>4. ASSUME NEW cs, NEW c \in Keys, NEW links, NEW mod
        PROVE  ChainBuilt(Processed(cs), prev[c], first[c], links, mod)
    BY <1>2, <1>3 DEF ChainBuilt, Threaded
  <1>5. prev[NONEMPTY] = 0 /\ ~ (i < max_id) /\ ~ (prev[NONEMPTY] > i + 1)
    BY <1>1, <1>3 DEF Keys
  <1> QED
    BY <1>1, <1>4, <1>5 DEF Building, Built, Keys, AnyCode

(* One turn of the loop of makeIndex.                                      *)
LEMMA BuildingStep == IndexInv /\ IndexStep => Building'
  <1> SUFFICES ASSUME IndexInv, IndexStep PROVE Building'
    OBVIOUS
  <1> USE CodesAssumption, KeyAssumption
  <1> DEFINE a == attr[i]
  <1>1. /\ pc = "index" /\ pc' = "index"
        /\ i \in Nat \ {0} /\ i \in Ids /\ i' = i - 1 /\ i <= max_id
        /\ max_id \in Nat /\ max_id' = max_id /\ attr' = attr
        /\ a \in Codes /\ a \in Keys /\ NONEMPTY \in Keys /\ a # NONEMPTY
        /\ 1 .. max_id \subseteq Ids
    <2>1. pc = "index" /\ i \in Ids /\ i > 0 /\ i <= max_id /\ max_id \in 1 .. ArrSize
      BY DEF IndexStep, IndexInv, BaseInv, TypeOK, LoopAbove
    <2>2. pc' = "index" /\ i' = i - 1 /\ max_id' = max_id /\ attr' = attr
      BY <2>1 DEF IndexStep, storeVars
    <2>3. i \in Nat \ {0} /\ max_id \in Nat /\ 1 .. max_id \subseteq Ids
      BY <2>1, SizeAssumption DEF Ids
    <2>4. a \in Codes
      BY <2>1 DEF IndexInv, BaseInv, TypeOK
    <2> QED
      BY <2>1, <2>2, <2>3, <2>4 DEF Keys
  <1>2. /\ first \in [Keys -> Ids] /\ prev \in [Keys -> Ids]
        /\ nxt \in [Ids -> Ids] /\ nxtNe \in [Ids -> Ids]
    BY DEF IndexInv, BaseInv, TypeOK
  <1>3. \A cs : /\ Processed(cs)' = Processed(cs) \union (IF a \in cs THEN {i} ELSE {})
                /\ Processed(cs) \in SUBSET Ids
                /\ \A m \in Processed(cs) : i < m
    <2> TAKE cs
    <2>1. (i' + 1) .. max_id' = ((i + 1) .. max_id) \union {i}
      BY <1>1
    <2>2. (i + 1) .. max_id \subseteq Ids
      BY <1>1
    <2> QED
      BY <1>1, <2>1, <2>2 DEF Processed
  <1>4. \A c \in Keys : prev'[c] = IF c = a \/ (c = NONEMPTY /\ a # EMPTY) THEN i ELSE prev[c]
    BY DEF IndexStep, LastSeen
  <1>5. /\ nxt' = LinkTo(nxt, prev[a], i, OffMod)
        /\ nxtNe' = LinkTo(nxtNe, prev[NONEMPTY], i, NeMod)
    BY DEF IndexStep
  <1>6. /\ \A c \in Codes \ {a} : first'[c] = first[c]
        /\ first'[a] = IF prev[a] = 0 THEN i ELSE first[a]
        /\ first'[NONEMPTY] = IF prev[NONEMPTY] = 0 THEN i ELSE first[NONEMPTY]
    BY <1>1, <1>2 DEF IndexStep, HeadIf, Keys
  <1>7. /\ \A c \in Codes : ChainBuilt(Processed({c}), prev[c], first[c], nxt, OffMod)
        /\ ChainBuilt(Processed(AnyCode), prev[NONEMPTY], first[NONEMPTY], nxtNe, NeMod)
        /\ prev[NONEMPTY] = 0 /\ i < max_id => first[NONEMPTY] = i + 1
    BY <1>1 DEF IndexInv, Building
  <1>8. ASSUME NEW c \in Codes
        PROVE  ChainBuilt(Processed({c}), prev[c], first[c], nxt, OffMod)'
    <2>1. CASE c = a
      <3>1. Processed({c})' = Processed({c}) \union {i}
        BY <1>3, <2>1
      <3>2. prev'[c] = i /\ first'[c] = IF prev[c] = 0 THEN i ELSE first[c]
        BY <1>1, <1>4, <1>6, <2>1
      <3>3. ChainBuilt(Processed({c}) \union {i}, i, IF prev[c] = 0 THEN i ELSE first[c],
                       LinkTo(nxt, prev[c], i, OffMod), OffMod)
        BY <1>1, <1>2, <1>3, <1>7, <2>1, ExtendChain
      <3> QED
        BY <1>5, <2>1, <3>1, <3>2, <3>3
    <2>2. CASE c # a
      <3>1. Processed({c})' = Processed({c})
        BY <1>3, <2>2
      <3>2. prev'[c] = prev[c] /\ first'[c] = first[c]
        BY <1>1, <1>4, <1>6, <2>2 DEF Keys
      <3>3. prev[a] \notin Processed({c})
        <4>1. prev[a] = 0 \/ prev[a] \in Processed({a})
          BY <1>1, <1>7 DEF ChainBuilt, IsLowest
        <4>2. 0 \notin Processed({c})
          BY <1>1, <1>3
        <4> QED
          BY <2>2, <4>1, <4>2 DEF Processed
      <3>4. ChainBuilt(Processed({c}), prev[c], first[c], LinkTo(nxt, prev[a], i, OffMod), OffMod)
        BY <1>2, <1>3, <1>7, <3>3, KeepChain
      <3> QED
        BY <1>5, <3>1, <3>2, <3>4
    <2> QED
      BY <2>1, <2>2
  <1>9. ChainBuilt(Processed(AnyCode), prev[NONEMPTY], first[NONEMPTY], nxtNe, NeMod)'
    <2> DEFINE p == prev[NONEMPTY]
    <2>1. CASE a # EMPTY
      <3>1. Processed(AnyCode)' = Processed(AnyCode) \union {i}
        BY <1>1, <1>3, <2>1 DEF AnyCode
      <3>2. prev'[NONEMPTY] = i /\ first'[NONEMPTY] = IF p = 0 THEN i ELSE first[NONEMPTY]
        BY <1>1, <1>4, <1>6, <2>1
      <3>3. ChainBuilt(Processed(AnyCode) \union {i}, i, IF p = 0 THEN i ELSE first[NONEMPTY],
                       LinkTo(nxtNe, p, i, NeMod), NeMod)
        BY <1>1, <1>2, <1>3, <1>7, ExtendChain
      <3> QED
        BY <1>5, <3>1, <3>2, <3>3 DEF AnyCode
    <2>2. CASE a = EMPTY
      <3>1. Processed(AnyCode)' = Processed(AnyCode)
        BY <1>1, <1>3, <2>2 DEF AnyCode
      <3>2. prev'[NONEMPTY] = p
        BY <1>1, <1>4, <2>2
      <3>3. p \notin Processed(AnyCode) \/ IsLowest(p, Processed(AnyCode))
        BY <1>7 DEF ChainBuilt
      <3>4. ChainBuilt(Processed(AnyCode), p, first[NONEMPTY], LinkTo(nxtNe, p, i, NeMod), NeMod)
        BY <1>2, <1>3, <1>7, <3>3, KeepChain
      <3>5. ChainBuilt(Processed(AnyCode), p, first'[NONEMPTY], LinkTo(nxtNe, p, i, NeMod), NeMod)
        BY <1>6, <3>4 DEF ChainBuilt
      <3> QED
        BY <1>5, <3>1, <3>2, <3>5 DEF AnyCode
    <2> QED
      BY <2>1, <2>2
  <1>10. prev'[NONEMPTY] = 0 => first'[NONEMPTY] = i' + 1
    BY <1>1, <1>4, <1>6
  <1>11. prev'[NONEMPTY] > i' + 1 =>
           nxtNe'[prev'[NONEMPTY]] = (prev'[NONEMPTY] - (i' + 1)) % NeMod
    <2> SUFFICES ASSUME prev'[NONEMPTY] > i' + 1
                 PROVE  nxtNe'[prev'[NONEMPTY]] = (prev'[NONEMPTY] - (i' + 1)) % NeMod
      OBVIOUS
    <2>1. prev'[NONEMPTY] = prev[NONEMPTY] /\ prev[NONEMPTY] # 0
      BY <1>1, <1>2, <1>4
    <2>2. i' + 1 = i
      BY <1>1
    <2> QED
      BY <1>1, <1>2, <1>5, <2>1, <2>2 DEF LinkTo
  <1> QED
    BY <1>1, <1>8, <1>9, <1>10, <1>11 DEF Building

(* The loop has run to its end: what it built is the index.                *)
LEMMA BuiltFinish == IndexInv /\ FinishIndex => Built'
  <1> SUFFICES ASSUME IndexInv, FinishIndex PROVE Built'
    OBVIOUS
  <1> USE CodesAssumption, KeyAssumption
  <1>1. /\ pc = "index" /\ i = 0 /\ max_id \in Nat \ {0}
        /\ seen' = attr /\ top' = max_id /\ max_id' = max_id
        /\ first' = first /\ nxt' = nxt /\ nxtNe' = nxtNe
    BY SizeAssumption
       DEF FinishIndex, IndexInv, BaseInv, TypeOK, storeVars, chainVars
  <1>2. \A cs : Holders(cs)' = Processed(cs)
    BY <1>1 DEF Holders, Processed
  <1>3. /\ \A c \in Codes : ChainBuilt(Processed({c}), prev[c], first[c], nxt, OffMod)
        /\ ChainBuilt(Processed(AnyCode), prev[NONEMPTY], first[NONEMPTY], nxtNe, NeMod)
        /\ prev[NONEMPTY] = 0 => first[NONEMPTY] = 1
        /\ prev[NONEMPTY] > 1 => nxtNe[prev[NONEMPTY]] = (prev[NONEMPTY] - 1) % NeMod
    BY <1>1 DEF IndexInv, Building
  <1>4. \A c \in Codes : /\ Threaded(Holders({c}), nxt, OffMod)'
                         /\ Holders({c})' # {} => IsHighest(first[c], Holders({c}))'
    BY <1>1, <1>2, <1>3 DEF ChainBuilt, Threaded, IsHighest
  <1> DEFINE S == Processed(AnyCode)
             p == prev[NONEMPTY]
  <1>5. NonEmptyDown' = S \union {1}
    BY <1>2 DEF NonEmptyDown, NonEmpty, AnyCode
  <1>6. \A m \in S : m \in Nat \ {0}
    BY <1>1 DEF Processed
  <1>7. ASSUME NEW k \in S \union {1}, NEW s \in S \union {1}, IsNextBelow(S \union {1}, k, s)
        PROVE  nxtNe[k] = (k - s) % NeMod
    <2>1. k \in S /\ p # 0 /\ IsLowest(p, S)
      BY <1>3, <1>6, <1>7 DEF IsNextBelow, ChainBuilt
    <2>2. CASE s \in S
      <3>1. IsNextBelow(S, k, s)
        BY <1>7, <2>1, <2>2 DEF IsNextBelow
      <3> QED
        BY <1>3, <2>1, <2>2, <3>1 DEF ChainBuilt, Threaded
    <2>3. CASE s \notin S
      <3>1. s = 1 /\ k = p
        <4>1. s = 1
          BY <2>3
        <4>2. p \in S /\ p <= k
          BY <2>1 DEF IsLowest
        <4>3. p \in Nat /\ k \in Nat /\ p > 1
          <5>1. p # 1 /\ p \in Nat \ {0} /\ k \in Nat \ {0}
            BY <1>6, <2>1, <2>3, <4>1, <4>2
          <5> QED
            BY <5>1
        <4>4. ~ (1 < p /\ p < k)
          BY <1>7, <4>1, <4>2 DEF IsNextBelow
        <4> QED
          BY <4>1, <4>2, <4>3, <4>4
      <3>2. p > 1
        BY <1>6, <1>7, <2>1, <3>1 DEF IsNextBelow
      <3> QED
        BY <1>3, <3>1, <3>2
    <2> QED
      BY <2>2, <2>3
  <1>8. IsHighest(first[NONEMPTY], S \union {1})
    <2>1. CASE p = 0
      BY <1>3, <2>1 DEF ChainBuilt, IsHighest
    <2>2. CASE p # 0
      <3>1. IsHighest(first[NONEMPTY], S)
        BY <1>3, <2>2 DEF ChainBuilt
      <3> QED
        BY <1>6, <3>1 DEF IsHighest
    <2> QED
      BY <2>1, <2>2
  <1>9. Threaded(NonEmptyDown, nxtNe, NeMod)' /\ IsHighest(first[NONEMPTY], NonEmptyDown)'
    BY <1>1, <1>5, <1>7, <1>8 DEF Threaded, IsHighest
  <1> QED
    BY <1>1, <1>4, <1>9 DEF Built

(* Every other step leaves the index and what it was built from alone.     *)
LEMMA BuiltKept ==
  ASSUME IndexInv, pc # "index", pc' # "index",
         UNCHANGED <<first, nxt, nxtNe, seen, top>>,
         max_id \in Nat, max_id' \in Nat, max_id <= max_id'
  PROVE  Built' /\ Building'
  <1>1. \A cs : Holders(cs)' = Holders(cs)
    BY DEF Holders
  <1>2. NonEmptyDown' = NonEmptyDown
    BY <1>1 DEF NonEmptyDown, NonEmpty
  <1>3. top' \in 1 .. max_id'
    BY DEF IndexInv, Built
  <1>4. \A c \in Codes : /\ Threaded(Holders({c}), nxt, OffMod)'
                         /\ Holders({c})' # {} => IsHighest(first[c], Holders({c}))'
    BY <1>1 DEF IndexInv, Built, Threaded, IsHighest
  <1>5. Threaded(NonEmptyDown, nxtNe, NeMod)' /\ IsHighest(first[NONEMPTY], NonEmptyDown)'
    BY <1>2 DEF IndexInv, Built, Threaded, IsHighest
  <1> QED
    BY <1>3, <1>4, <1>5 DEF Built, Building

LEMMA BuildingStart == IndexInv /\ StartIndex => Building' /\ Built'
  <1> SUFFICES ASSUME IndexInv, StartIndex PROVE Building' /\ Built'
    OBVIOUS
  <1>1. /\ pc' = "index" /\ i' = max_id /\ max_id' = max_id /\ max_id \in Nat
        /\ \A c \in Keys : prev'[c] = 0
    BY SizeAssumption DEF StartIndex, IndexInv, BaseInv, TypeOK, storeVars
  <1>2. \A cs : Processed(cs)' = {}
    BY <1>1 DEF Processed
  <1>3. prev'[NONEMPTY] = 0 /\ ~ (i' < max_id') /\ ~ (prev'[NONEMPTY] > i' + 1)
    BY <1>1 DEF Keys
  <1>4. /\ \A c \in Codes : ChainBuilt(Processed({c}), prev[c], first[c], nxt, OffMod)'
        /\ ChainBuilt(Processed(AnyCode), prev[NONEMPTY], first[NONEMPTY], nxtNe, NeMod)'
    BY <1>1, <1>2, <1>3 DEF ChainBuilt, Threaded, Keys, AnyCode
  <1> QED
    BY <1>1, <1>3, <1>4 DEF Building, Built

LEMMA IndexStepInv == IndexInv /\ [Next]_vars => IndexInv'
  <1> SUFFICES ASSUME IndexInv, [Next]_vars PROVE Building' /\ Built'
    BY BaseStep DEF IndexInv
  <1>0. max_id \in Nat
    BY SizeAssumption DEF IndexInv, BaseInv, TypeOK
  <1>1. CASE StartIndex
    BY <1>1, BuildingStart
  <1>2. CASE IndexStep
    BY <1>2, BuildingStep DEF IndexStep, Built
  <1>3. CASE FinishIndex
    BY <1>3, BuiltFinish DEF FinishIndex, Building
  <1>4. ASSUME NEW k \in 1 .. ArrSize, NEW c \in Codes, PostNew(k, c)
        PROVE  Building' /\ Built'
    <2>1. max_id' \in Nat /\ max_id <= max_id'
      BY <1>0, <1>4, SizeAssumption DEF PostNew
    <2> QED
      BY <1>0, <1>4, <2>1, BuiltKept DEF PostNew, chainVars, seenVars
  <1>5. ASSUME NEW q \in Queries, NEW n \in 0 .. MaxLimit, QueryStart(q, n)
        PROVE  Building' /\ Built'
    BY <1>0, <1>5, BuiltKept DEF QueryStart, storeVars, chainVars, seenVars
  <1>6. ASSUME NEW pass \in BOOLEAN, WalkStep(pass)
        PROVE  Building' /\ Built'
    BY <1>0, <1>6, BuiltKept
       DEF WalkStep, Examine, Continue, storeVars, chainVars, seenVars
  <1>7. ASSUME NEW pass \in BOOLEAN, MergeStep(pass)
        PROVE  Building' /\ Built'
    BY <1>0, <1>7, BuiltKept
       DEF MergeStep, Examine, Continue, storeVars, chainVars, seenVars
  <1>8. CASE Reply
    BY <1>0, <1>8, BuiltKept DEF Reply, storeVars, chainVars, seenVars
  <1>9. CASE UNCHANGED vars
    <2>1. CASE pc # "index"
      BY <1>0, <1>9, <2>1, BuiltKept DEF vars, storeVars, chainVars, seenVars
    <2>2. CASE pc = "index"
      <3>1. \A cs : Processed(cs)' = Processed(cs)
        BY <1>9 DEF vars, storeVars, loopVars, Processed
      <3> QED
        BY <1>9, <2>2, <3>1 DEF vars, storeVars, chainVars, loopVars, IndexInv, Building,
                                Built, ChainBuilt, Threaded, IsLowest, IsHighest
    <2> QED
      BY <2>1, <2>2
  <1> QED
    BY <1>1, <1>2, <1>3, <1>4, <1>5, <1>6, <1>7, <1>8, <1>9 DEF Next

LEMMA IndexInvariance == Spec => []IndexInv
  <1>1. Init => IndexInv
    BY BaseInit, IndexInit DEF IndexInv
  <1> QED
    BY <1>1, IndexStepInv, PTL DEF Spec

-----------------------------------------------------------------------------
(* A walk along value chains.                                              *)

Walking == pc \in {"walk", "cut"}

(* The candidates still to come, one of each chain.                        *)
Frontier == IF query.links = "merge" THEN prefix_set ELSE {id}

(* The cursor is the highest of the frontier, below all it has examined.   *)
Above ==
  Walking /\ query.links # "scan" =>
    /\ IsHighest(id, Frontier)
    /\ \A w \in visited : id < w

(* Of each chain the walk has examined everything, or the highest account  *)
(* it has not examined is in the frontier.                                 *)
Ahead(S) ==
  \/ S \subseteq visited
  \/ Walking /\ \E e \in Frontier \intersect S : \A m \in S \ visited : m <= e

ValueAhead == ValueWalk => \A c \in query.keys : Ahead(Holders({c}))

WalkInv == IndexInv /\ Above /\ ValueAhead

(* The step of a walk along value chains, single or merged.                *)
Successors == (Frontier \ {id}) \union (IF nxt[id] = 0 THEN {} ELSE {id - nxt[id]})

LEMMA ValueStep ==
  ASSUME IndexInv, Above, query.links \in {"value", "merge"}, NEW pass \in BOOLEAN,
         WalkStep(pass) \/ MergeStep(pass)
  PROVE  /\ pc = "walk" /\ id \in 1 .. ArrSize /\ nxt[id] \in Ids
         /\ Frontier \subseteq Ids
         /\ visited' = visited \union {id} /\ query' = query
         /\ UNCHANGED <<first, nxt, nxtNe, seen, top>>
         /\ Successors = {} => pc' = "done"
         /\ Successors # {} => /\ pc' \in {"walk", "cut"}
                               /\ Frontier' = Successors
                               /\ IsHighest(id', Successors)
                               /\ id' < id
  <1>1. pc = "walk" /\ id \in 1 .. ArrSize /\ nxt[id] \in Ids
    <2>1. pc = "walk"
      BY DEF WalkStep, MergeStep, Examine
    <2>2. nxt \in {nxt, nxtNe} /\ query.links # "scan"
      OBVIOUS
    <2> QED
      BY <2>1, <2>2, ChainStepDown DEF IndexInv
  <1>2. /\ visited' = visited \union {id} /\ query' = query
        /\ UNCHANGED <<first, nxt, nxtNe, seen, top>>
    BY DEF WalkStep, MergeStep, Examine, chainVars, seenVars
  <1>3. Frontier \subseteq Ids
    BY DEF Frontier, IndexInv, BaseInv, TypeOK
  <1>4. CASE query.links = "value"
    <2>1. WalkStep(pass) /\ Distance = nxt[id] /\ Frontier = {id}
      BY <1>4 DEF MergeStep, Distance, Frontier
    <2>2. Successors = IF nxt[id] = 0 THEN {} ELSE {id - nxt[id]}
      BY <2>1 DEF Successors
    <2>3. id' = id - nxt[id] /\ IF nxt[id] = 0 THEN pc' = "done" ELSE pc' \in {"walk", "cut"}
      BY <2>1 DEF WalkStep, Continue
    <2>4. Frontier' = {id'}
      BY <1>2, <1>4 DEF Frontier
    <2>5. nxt[id] # 0 => IsHighest(id', Successors) /\ id' < id
      BY <1>1, <2>2, <2>3, SizeAssumption DEF IsHighest, Ids
    <2> QED
      BY <1>1, <1>2, <1>3, <2>2, <2>3, <2>4, <2>5
  <1>5. CASE query.links = "merge"
    <2>1. MergeStep(pass) /\ Frontier = prefix_set /\ Successors = Merged
      BY <1>5 DEF WalkStep, Frontier, Merged, Successors
    <2>2. Frontier' = prefix_set' /\ prefix_set' = Merged
      BY <1>2, <1>5, <2>1 DEF Frontier, MergeStep
    <2>3. /\ Merged = {} => pc' = "done"
          /\ Merged # {} => IsHighest(id', Merged) /\ pc' \in {"walk", "cut"}
      BY <2>1 DEF MergeStep, Continue
    <2>4. Merged # {} => id' < id
      BY <2>1, <2>3, BaseMergeStep DEF IndexInv
    <2> QED
      BY <1>1, <1>2, <1>3, <2>1, <2>2, <2>3, <2>4
  <1> QED
    BY <1>4, <1>5

(* Under the widths of the links, the account after k in its chain is the  *)
(* one the link of k names.                                                *)
LEMMA NextOfChain ==
  ASSUME NEW S \in SUBSET Ids, NEW links \in [Ids -> Ids], NEW mod \in Nat \ {0},
         Threaded(S, links, mod), GapsFit(S, mod),
         NEW k \in S, NEW R \in SUBSET S, R # {},
         \A m \in S : m \in R <=> m < k
  PROVE  links[k] # 0 /\ IsHighest(k - links[k], R)
  <1>1. PICK s \in R : IsHighest(s, R)
    BY HasHighest, SizeAssumption DEF Ids
  <1>2. s \in Nat /\ k \in Nat /\ s < k /\ \A m \in S : m \in Nat
    BY SizeAssumption DEF Ids
  <1>3. IsNextBelow(S, k, s)
    BY <1>1, <1>2 DEF IsNextBelow, IsHighest
  <1>4. k - s \in Nat /\ links[k] = (k - s) % mod /\ k - s < mod
    BY <1>2, <1>3 DEF Threaded, GapsFit
  <1>5. links[k] = k - s
    BY <1>4, Remainder
  <1> QED
    BY <1>1, <1>2, <1>5

LEMMA ValueAheadStep ==
  ASSUME WalkInv, ValueWalk, NEW pass \in BOOLEAN, WalkStep(pass) \/ MergeStep(pass)
  PROVE  ValueAhead'
  <1>1. query.links \in {"value", "merge"} /\ query.keys \subseteq Codes
    BY DEF ValueWalk
  <1>2. /\ pc = "walk" /\ id \in 1 .. ArrSize /\ nxt[id] \in Ids
        /\ Frontier \subseteq Ids
        /\ visited' = visited \union {id} /\ query' = query
        /\ UNCHANGED <<first, nxt, nxtNe, seen, top>>
        /\ Successors = {} => pc' = "done"
        /\ Successors # {} => /\ pc' \in {"walk", "cut"}
                              /\ Frontier' = Successors
                              /\ IsHighest(id', Successors)
                              /\ id' < id
    BY <1>1, ValueStep DEF WalkInv
  <1>3. \A cs : Holders(cs)' = Holders(cs)
    BY <1>2 DEF Holders
  <1>4. IsHighest(id, Frontier) /\ \A w \in visited : id < w
    BY <1>1, <1>2 DEF WalkInv, Above, Walking
  <1>5. top \in 1 .. max_id /\ max_id \in 1 .. ArrSize /\ nxt \in [Ids -> Ids] /\ visited \subseteq Ids
    BY <1>2 DEF WalkInv, IndexInv, Built, BaseInv, TypeOK
  <1>6. ASSUME NEW c \in query.keys
        PROVE  Ahead(Holders({c}))'
    <2> DEFINE S == Holders({c})
    <2>1. S \in SUBSET Ids
      BY <1>5, SizeAssumption, SMTT(30) DEF Holders, Ids
    <2>2. Threaded(S, nxt, OffMod) /\ GapsFit(S, OffMod)
      BY <1>1, <1>2 DEF WalkInv, IndexInv, Built, ValueWalk
    <2>3. Ahead(S)
      BY DEF WalkInv, ValueAhead
    <2> HIDE DEF S
    <2>4. CASE S \subseteq visited'
      BY <1>3, <2>4 DEF Ahead, S
    <2>5. CASE ~ (S \subseteq visited')
      <3>1. PICK e \in Frontier \intersect S : \A m \in S \ visited : m <= e
        BY <1>2, <2>3, <2>5 DEF Ahead
      <3>2. PICK f \in Successors \intersect S : \A m \in S \ visited' : m <= f
        <4>1. CASE e # id
          BY <1>2, <3>1, <4>1 DEF Successors
        <4>2. CASE e = id
          <5> DEFINE R == S \ visited'
          <5>1. \A m \in S : m \in Nat /\ id \in Nat
            BY <1>2, <2>1, SizeAssumption DEF Ids
          <5>2. \A m \in S : m \in R <=> m < id
            BY <1>2, <1>4, <3>1, <4>2, <5>1
          <5>3. R \in SUBSET S /\ R # {}
            BY <2>5
          <5>4. nxt[id] # 0 /\ IsHighest(id - nxt[id], R)
            BY <1>5, <2>1, <2>2, <3>1, <4>2, <5>2, <5>3, NextOfChain, WidthAssumption
          <5> QED
            BY <5>4 DEF Successors, IsHighest
        <4> QED
          BY <4>1, <4>2
      <3>3. Walking' /\ Frontier' = Successors
        BY <1>2, <3>2 DEF Walking
      <3> QED
        BY <1>3, <3>2, <3>3 DEF Ahead, S
    <2> QED
      BY <2>4, <2>5
  <1> QED
    BY <1>2, <1>6 DEF ValueAhead

LEMMA AboveStep ==
  ASSUME WalkInv, NEW pass \in BOOLEAN, WalkStep(pass) \/ MergeStep(pass)
  PROVE  Above'
  <1>1. pc = "walk" /\ query \in Queries /\ query' = query /\ visited' = visited \union {id}
    BY DEF WalkInv, IndexInv, BaseInv, WalkShape, WalkStep, MergeStep, Examine
  <1>2. id \in Ids /\ visited \subseteq Ids
    BY DEF WalkInv, IndexInv, BaseInv, TypeOK
  <1>3. CASE query.links = "scan"
    BY <1>1, <1>3 DEF Above
  <1>4. CASE query.links # "scan"
    <2>1. id' \in 1 .. id /\ (pc' # "done" => id' < id)
      BY <1>4, BaseWalkStep, BaseMergeStep DEF WalkInv, IndexInv, MergeStep
    <2>2. \A w \in visited : id < w
      BY <1>1, <1>4 DEF WalkInv, Above, Walking
    <2>3. Walking' => \A w \in visited' : id' < w
      BY <1>1, <1>2, <2>1, <2>2, SizeAssumption DEF Walking, Ids
    <2>4. Walking' => IsHighest(id', Frontier')
      <3>1. CASE query.links = "nonempty"
        BY <1>1, <1>2, <2>1, <3>1, SizeAssumption DEF Frontier, IsHighest, Walking, Ids
      <3>2. CASE query.links \in {"value", "merge"}
        BY <3>2, ValueStep DEF WalkInv, Walking
      <3> QED
        BY <1>1, <1>4, <3>1, <3>2, QueryShapes
    <2> QED
      BY <2>3, <2>4 DEF Above, IsHighest
  <1> QED
    BY <1>3, <1>4

LEMMA WalkQueryStart ==
  ASSUME WalkInv, NEW q \in Queries, NEW n \in 0 .. MaxLimit, QueryStart(q, n)
  PROVE  Above' /\ ValueAhead'
  <1>1. /\ query' = q /\ visited' = {} /\ pc' \in {"walk", "cut", "done"} /\ pc # "index"
        /\ pc' = "done" <=> id' = 0
        /\ UNCHANGED <<first, nxt, nxtNe, seen, top>>
    BY DEF QueryStart, chainVars, seenVars
  <1>2. q.links # "scan" =>
          id' \in Ids /\ IsHighest(id', {first[c] : c \in q.keys})
    BY DEF QueryStart
  <1>3. Frontier' = IF q.links = "merge" THEN {first[c] : c \in q.keys} ELSE {id'}
    BY <1>1 DEF QueryStart, Frontier
  <1>4. Above'
    <2> SUFFICES ASSUME q.links # "scan" PROVE IsHighest(id', Frontier')
      BY <1>1 DEF Above, IsHighest
    <2>1. id' \in Nat
      BY <1>2, SizeAssumption DEF Ids
    <2> QED
      BY <1>2, <1>3, <2>1 DEF IsHighest
  <1>5. ValueAhead'
    <2> SUFFICES ASSUME q.links \in {"value", "merge"}, q.keys \subseteq Codes,
                        NEW c \in q.keys
                 PROVE  Ahead(Holders({c}))'
      BY <1>1 DEF ValueAhead, ValueWalk
    <2> DEFINE S == Holders({c})
    <2>1. Holders({c})' = S
      BY <1>1 DEF Holders
    <2>2. S # {} => IsHighest(first[c], S)
      BY <1>1 DEF WalkInv, IndexInv, Built
    <2>3. first[c] \in {first[d] : d \in q.keys} /\ first[c] \in Ids
      BY DEF WalkInv, IndexInv, BaseInv, TypeOK, Keys
    <2>4. first[c] \in Frontier'
      <3>1. CASE q.links = "merge"
        BY <1>3, <2>3, <3>1
      <3>2. CASE q.links = "value"
        <4>1. q.keys = {c}
          BY <3>2, QueryShapes
        <4>2. id' = first[c]
          BY <1>2, <3>2, <4>1 DEF IsHighest
        <4> QED
          BY <1>3, <3>2, <4>2
      <3> QED
        BY <3>1, <3>2
    <2>5. S # {} => pc' # "done"
      <3> SUFFICES ASSUME S # {}, id' = 0 PROVE FALSE
        BY <1>1
      <3>1. first[c] \in S /\ first[c] <= 0
        BY <1>2, <2>2, <2>3 DEF IsHighest
      <3>2. top \in Ids
        BY DEF WalkInv, IndexInv, BaseInv, TypeOK
      <3>3. first[c] \in 1 .. top
        BY <3>1 DEF Holders
      <3> QED
        BY <3>1, <3>2, <3>3, SizeAssumption DEF Ids
    <2> HIDE DEF S
    <2>6. CASE S = {}
      BY <2>1, <2>6 DEF Ahead
    <2>7. CASE S # {}
      <3>1. Walking' /\ first[c] \in Frontier' \intersect S
        BY <1>1, <2>2, <2>4, <2>5, <2>7 DEF Walking, IsHighest
      <3>2. \A m \in S \ visited' : m <= first[c]
        BY <2>2, <2>7 DEF IsHighest
      <3> QED
        BY <2>1, <3>1, <3>2 DEF Ahead
    <2> QED
      BY <2>6, <2>7
  <1> QED
    BY <1>4, <1>5

LEMMA WalkInit == Init => Above /\ ValueAhead
  BY DEF Init, Above, ValueAhead, ValueWalk, Walking

LEMMA WalkInvStep == WalkInv /\ [Next]_vars => WalkInv'
  <1> SUFFICES ASSUME WalkInv, [Next]_vars PROVE Above' /\ ValueAhead'
    BY IndexStepInv DEF WalkInv
  <1>1. CASE StartIndex \/ FinishIndex \/ IndexStep \/ Reply
             \/ \E k \in 1 .. ArrSize, c \in Codes : PostNew(k, c)
    BY <1>1 DEF StartIndex, FinishIndex, IndexStep, Reply, PostNew, Above, ValueAhead,
                ValueWalk, Walking
  <1>2. ASSUME NEW q \in Queries, NEW n \in 0 .. MaxLimit, QueryStart(q, n)
        PROVE  Above' /\ ValueAhead'
    BY <1>2, WalkQueryStart
  <1>3. ASSUME NEW pass \in BOOLEAN, WalkStep(pass) \/ MergeStep(pass)
        PROVE  Above' /\ ValueAhead'
    <2>1. Above'
      BY <1>3, AboveStep
    <2>2. CASE ValueWalk
      BY <1>3, <2>1, <2>2, ValueAheadStep
    <2>3. CASE ~ ValueWalk
      <3>1. pc = "walk" /\ query' = query /\ seen' = seen /\ top' = top
        BY <1>3 DEF WalkStep, MergeStep, Examine, seenVars
      <3>2. ~ ValueWalk'
        BY <2>3, <3>1 DEF ValueWalk, GapsFit, IsNextBelow, Holders
      <3> QED
        BY <2>1, <3>2 DEF ValueAhead
    <2> QED
      BY <2>1, <2>2, <2>3
  <1>4. CASE UNCHANGED vars
    BY <1>4 DEF WalkInv, vars, seenVars, queryVars, Above, ValueAhead, ValueWalk, Walking,
                Ahead, Frontier, IsHighest, GapsFit, IsNextBelow, Holders
  <1> QED
    BY <1>1, <1>2, <1>3, <1>4 DEF Next

LEMMA WalkInvariance == Spec => []WalkInv
  <1>1. Init => WalkInv
    BY BaseInit, IndexInit, WalkInit DEF WalkInv, IndexInv
  <1> QED
    BY <1>1, WalkInvStep, PTL DEF Spec

(* Nothing the walk asks for and has not examined lies above its cursor.   *)
LEMMA NoneAbove ==
  ASSUME WalkInv, ValueWalk, NEW m \in Holders(query.keys), m \notin visited
  PROVE  Walking /\ m \in Nat /\ m <= id
  <1>1. /\ \A c \in query.keys : Ahead(Holders({c}))
        /\ id \in Ids /\ Frontier \subseteq Ids /\ top \in Ids
    BY DEF WalkInv, ValueAhead, IndexInv, BaseInv, TypeOK, Frontier
  <1>2. Walking => IsHighest(id, Frontier)
    BY DEF WalkInv, Above, ValueWalk
  <1>3. PICK c \in query.keys : m \in Holders({c})
    BY DEF Holders
  <1>4. m \in Nat
    BY <1>1, SizeAssumption DEF Holders, Ids
  <1>5. Walking /\ \E e \in Frontier : m <= e
    BY <1>1, <1>3 DEF Ahead
  <1>6. PICK e \in Frontier : m <= e
    BY <1>5
  <1>7. e <= id
    BY <1>2, <1>5, <1>6 DEF IsHighest
  <1> QED
    BY <1>1, <1>4, <1>5, <1>6, <1>7, SizeAssumption DEF Ids

(* A walk along value chains, of one code or of several merged, examines   *)
(* every account the index holds of those codes, from the highest id down, *)
(* whatever was posted or indexed again before.                            *)
THEOREM ValueWalkIsComplete == Spec => []ValueWalkComplete
  <1>1. WalkInv => ValueWalkComplete
    <2> SUFFICES ASSUME WalkInv, ValueWalk PROVE TakesFromTop(Holders(query.keys))
      BY DEF ValueWalkComplete
    <2>1. visited \subseteq Nat /\ id \in Nat
      BY SizeAssumption DEF WalkInv, IndexInv, BaseInv, TypeOK, Ids
    <2>2. Walking => \A w \in visited : id < w
      BY DEF WalkInv, Above, ValueWalk
    <2>3. pc = "done" => Holders(query.keys) \subseteq visited
      BY NoneAbove DEF Walking
    <2>4. ASSUME NEW m \in Holders(query.keys), NEW w \in visited, w < m
          PROVE  m \in visited
      <3> SUFFICES ASSUME m \notin visited PROVE FALSE
        OBVIOUS
      <3>1. Walking /\ m \in Nat /\ m <= id
        BY NoneAbove
      <3> QED
        BY <2>1, <2>2, <2>4, <3>1
    <2> QED
      BY <2>3, <2>4 DEF TakesFromTop
  <1> QED
    BY <1>1, WalkInvariance, PTL

-----------------------------------------------------------------------------
(* A walk along the nonempty chain.                                        *)

NonemptyWalk ==
  /\ pc \in {"walk", "cut", "done"}
  /\ query.links = "nonempty"
  /\ GapsFit(NonEmptyDown, NeMod)

(* It has examined the chain down to the cursor, account 1 included.       *)
NonemptyAhead ==
  NonemptyWalk =>
    /\ Walking => id \in NonEmptyDown /\ visited = {m \in NonEmptyDown : id < m}
    /\ pc = "done" => visited = NonEmptyDown

LEMMA NonemptyStep ==
  ASSUME IndexInv, NonemptyAhead, NonemptyWalk, NEW pass \in BOOLEAN, WalkStep(pass)
  PROVE  NonemptyAhead'
  <1> DEFINE M == NonEmptyDown
             R == {m \in M : m < id}
  <1>1. /\ pc = "walk" /\ query.links = "nonempty" /\ query' = query
        /\ visited' = visited \union {id} /\ id' = id - nxtNe[id]
        /\ IF nxtNe[id] = 0 THEN pc' = "done" ELSE pc' \in {"walk", "cut"}
        /\ seen' = seen /\ top' = top
    BY DEF NonemptyWalk, WalkStep, Examine, Distance, Continue, seenVars
  <1>2. id \in M /\ visited = {m \in M : id < m}
    BY <1>1 DEF NonemptyAhead, Walking
  <1>3. M \in SUBSET Ids /\ \A m \in M : m \in Nat \ {0}
    <2>1. top \in Nat /\ top <= ArrSize /\ 1 \in Ids
      BY SizeAssumption DEF IndexInv, BaseInv, TypeOK, Ids
    <2> QED
      BY <2>1, SizeAssumption DEF NonEmptyDown, NonEmpty, Holders, Ids
  <1>4. M' = M
    BY <1>1 DEF NonEmptyDown, NonEmpty, Holders
  <1>5. /\ nxtNe \in [Ids -> Ids] /\ nxtNe[1] = 0
        /\ Threaded(M, nxtNe, NeMod) /\ GapsFit(M, NeMod)
    <2>0. 1 \in Ids
      BY SizeAssumption DEF Ids
    <2>1. nxtNe \in [Ids -> Ids] /\ 1 \in Ids
      BY <2>0 DEF IndexInv, BaseInv, TypeOK
    <2>2. nxtNe[1] \in Nat /\ (nxtNe[1] = 0 \/ nxtNe[1] < 1)
      BY <2>1, SizeAssumption DEF IndexInv, BaseInv, LinksDown, Ids
    <2> QED
      BY <1>1, <2>1, <2>2 DEF IndexInv, Built, NonemptyWalk
  <1>6. 1 \in M
    BY DEF NonEmptyDown
  <1> HIDE DEF M
  <1>7. CASE R = {}
    <2>1. id = 1
      BY <1>2, <1>3, <1>6, <1>7
    <2>2. visited' = M /\ pc' = "done"
      <3>1. pc' = "done"
        BY <1>1, <1>5, <2>1
      <3>2. \A m : m \in visited' <=> m \in M /\ (id < m \/ m = id)
        BY <1>1, <1>2
      <3>3. \A m \in M : id < m \/ m = id
        BY <1>3, <2>1
      <3> QED
        BY <3>1, <3>2, <3>3
    <2> QED
      BY <1>4, <2>2 DEF NonemptyAhead, Walking, M
  <1>8. CASE R # {}
    <2>1. nxtNe[id] # 0 /\ IsHighest(id - nxtNe[id], R)
      BY <1>2, <1>3, <1>5, <1>8, NextOfChain, WidthAssumption
    <2>2. id' \in M /\ id' < id /\ \A m \in M : m < id => m <= id'
      BY <1>1, <2>1 DEF IsHighest
    <2>3. visited' = {m \in M : id' < m}
      <3>1. \A m : m \in visited' <=> m \in M /\ (id < m \/ m = id)
        BY <1>1, <1>2
      <3>2. \A m \in M : id' < m <=> (id < m \/ m = id)
        BY <1>2, <1>3, <2>2
      <3> QED
        BY <3>1, <3>2
    <2> QED
      BY <1>1, <1>4, <2>1, <2>2, <2>3 DEF NonemptyAhead, M
  <1> QED
    BY <1>7, <1>8

LEMMA NonemptyInvStep == IndexInv /\ NonemptyAhead /\ [Next]_vars => NonemptyAhead'
  <1> SUFFICES ASSUME IndexInv, NonemptyAhead, [Next]_vars, NonemptyWalk'
               PROVE  NonemptyAhead'
    BY DEF NonemptyAhead
  <1>1. CASE StartIndex \/ FinishIndex \/ IndexStep \/ Reply
             \/ \E k \in 1 .. ArrSize, c \in Codes : PostNew(k, c)
    BY <1>1 DEF StartIndex, FinishIndex, IndexStep, Reply, PostNew, NonemptyWalk, IndexInv,
                BaseInv, TypeOK
  <1>2. ASSUME NEW q \in Queries, NEW n \in 0 .. MaxLimit, QueryStart(q, n)
        PROVE  NonemptyAhead'
    <2>1. /\ query' = q /\ visited' = {} /\ q.links = "nonempty" /\ pc # "index"
          /\ id' \in Ids /\ IsHighest(id', {first[c] : c \in q.keys})
          /\ UNCHANGED <<first, seen, top>>
      BY <1>2 DEF QueryStart, NonemptyWalk, chainVars, seenVars
    <2>2. id' = first[NONEMPTY]
      BY <2>1, QueryShapes DEF IsHighest
    <2>3. NonEmptyDown' = NonEmptyDown /\ IsHighest(id', NonEmptyDown)
      BY <2>1, <2>2 DEF IndexInv, Built, NonEmptyDown, NonEmpty, Holders
    <2>4. \A m \in NonEmptyDown : m \in Nat /\ m # 0
      <3>1. top \in Nat
        BY SizeAssumption DEF IndexInv, BaseInv, TypeOK, Ids
      <3> QED
        BY <3>1 DEF NonEmptyDown, NonEmpty, Holders
    <2>5. id' # 0 /\ pc' # "done"
      BY <1>2, <2>3, <2>4 DEF IsHighest, QueryStart
    <2>6. {m \in NonEmptyDown : id' < m} = {}
      BY <2>3, <2>4 DEF IsHighest
    <2> QED
      BY <2>1, <2>3, <2>5, <2>6 DEF NonemptyAhead, IsHighest
  <1>3. ASSUME NEW pass \in BOOLEAN, WalkStep(pass) \/ MergeStep(pass)
        PROVE  NonemptyAhead'
    <2>1. pc = "walk" /\ query' = query /\ seen' = seen /\ top' = top
      BY <1>3 DEF WalkStep, MergeStep, Examine, seenVars
    <2>2. NonemptyWalk
      BY <2>1 DEF NonemptyWalk, GapsFit, IsNextBelow, NonEmptyDown, NonEmpty, Holders
    <2>3. WalkStep(pass)
      BY <1>3, <2>2 DEF MergeStep, NonemptyWalk
    <2> QED
      BY <2>2, <2>3, NonemptyStep
  <1>4. CASE UNCHANGED vars
    BY <1>4 DEF vars, seenVars, queryVars, NonemptyAhead, NonemptyWalk, Walking,
                GapsFit, IsNextBelow, NonEmptyDown, NonEmpty, Holders
  <1> QED
    BY <1>1, <1>2, <1>3, <1>4 DEF Next

(* A walk along the nonempty chain examines every account that had a code, *)
(* from the highest id down, and beside them at most account 1.            *)
THEOREM NonemptyWalkIsComplete == Spec => []NonemptyWalkComplete
  <1>1. Init => NonemptyAhead
    BY DEF Init, NonemptyAhead, NonemptyWalk
  <1>2. IndexInv /\ NonemptyAhead => NonemptyWalkComplete
    <2> SUFFICES ASSUME IndexInv, NonemptyAhead, NonemptyWalk
                 PROVE  TakesFromTop(NonEmpty) /\ visited \subseteq NonEmptyDown
      BY DEF NonemptyWalkComplete, NonemptyWalk, NonEmptyDown
    <2>1. top \in Nat /\ id \in Nat
      BY SizeAssumption DEF IndexInv, BaseInv, TypeOK, Ids
    <2>2. NonEmpty \subseteq NonEmptyDown /\ \A m \in NonEmptyDown : m \in Nat
      BY <2>1 DEF NonEmptyDown, NonEmpty, Holders
    <2>3. CASE Walking
      BY <2>1, <2>2, <2>3 DEF NonemptyAhead, Walking, TakesFromTop
    <2>4. CASE pc = "done"
      BY <2>2, <2>4 DEF NonemptyAhead, TakesFromTop
    <2> QED
      BY <2>3, <2>4 DEF NonemptyWalk, Walking
  <1> QED
    BY <1>1, <1>2, NonemptyInvStep, IndexInvariance, PTL DEF Spec

-----------------------------------------------------------------------------
(* ValueWalkExact: when no indexed id is posted again, a walk along value  *)
(* chains examines nothing but the accounts of its codes.                  *)


(* The ids the index covers, or will when the current run is complete.     *)
Covered == IF pc = "index" THEN max_id ELSE top

SeenKept == pc # "index" => \A k \in 1 .. top : seen[k] = attr[k]

(* No link leaves an account that no account of its code lies below, and   *)
(* none leaves an account no index run has seen.                           *)
TailsEnd ==
  /\ \A k \in Ids : k > Covered => nxt[k] = 0
  /\ \A k \in 1 .. ArrSize :
       (\A m \in 1 .. (k - 1) : attr[m] # attr[k]) => nxt[k] = 0

HeadsHold ==
  \A c \in Codes : first[c] # 0 => first[c] \in 1 .. Covered /\ attr[first[c]] = c

AppendInv == ~ Repost => top <= max_id /\ SeenKept /\ TailsEnd /\ HeadsHold

(* The walk has strayed nowhere, and will not.                             *)
Straight ==
  ~ Repost /\ ValueWalk =>
    /\ visited \subseteq Holders(query.keys)
    /\ Walking => Frontier \subseteq Holders(query.keys)

-----------------------------------------------------------------------------
LEMMA AppendInit == Init => AppendInv
  <1> SUFFICES ASSUME Init PROVE top <= max_id /\ SeenKept /\ TailsEnd /\ HeadsHold
    BY DEF AppendInv
  <1>1. top <= max_id
    BY SizeAssumption DEF Init
  <1>2. TailsEnd
    BY SizeAssumption DEF Init, TailsEnd, Ids
  <1> QED
    BY <1>1, <1>2 DEF Init, SeenKept, HeadsHold, Keys

LEMMA AppendIndexStep ==
  ASSUME IndexInv, AppendInv, ~ Repost, IndexStep
  PROVE  TailsEnd' /\ HeadsHold'
  <1> DEFINE a == attr[i]
             p == prev[a]
  <1>1. /\ pc = "index" /\ pc' = "index" /\ i \in 1 .. max_id
        /\ max_id \in 1 .. ArrSize /\ max_id' = max_id /\ attr' = attr
        /\ i \in Ids /\ a \in Codes
        /\ prev \in [Keys -> Ids] /\ first \in [Keys -> Ids] /\ nxt \in [Ids -> Ids]
    <2>1. pc = "index" /\ i \in Ids /\ i > 0 /\ i <= max_id /\ max_id \in 1 .. ArrSize
      BY DEF IndexStep, IndexInv, BaseInv, TypeOK, LoopAbove
    <2>2. i \in 1 .. max_id
      BY <2>1, SizeAssumption DEF Ids
    <2> QED
      BY <2>1, <2>2 DEF IndexStep, IndexInv, BaseInv, TypeOK, storeVars
  <1>2. TailsEnd /\ HeadsHold /\ Covered = max_id /\ Covered' = max_id
    BY <1>1 DEF AppendInv, Covered
  <1>3. nxt' = LinkTo(nxt, p, i, OffMod)
    BY DEF IndexStep
  <1>4. p # 0 => p \in (i + 1) .. max_id /\ attr[p] = a
    BY <1>1 DEF IndexInv, Building, ChainBuilt, IsLowest, Processed
  <1>5. TailsEnd'
    <2>1. ASSUME NEW k \in Ids, k > max_id PROVE nxt'[k] = 0
      <3>1. nxt[k] = 0
        BY <1>2, <2>1 DEF TailsEnd
      <3>2. p # 0 => k # p
        BY <1>1, <1>4, <2>1, SizeAssumption DEF Ids
      <3> QED
        BY <1>1, <1>3, <3>1, <3>2 DEF LinkTo
    <2>2. ASSUME NEW k \in 1 .. ArrSize, \A m \in 1 .. (k - 1) : attr[m] # attr[k]
          PROVE  nxt'[k] = 0
      <3>1. nxt[k] = 0 /\ k \in Ids
        BY <1>2, <2>2 DEF TailsEnd, Ids
      <3>2. p # 0 => k # p
        <4> SUFFICES ASSUME p # 0, k = p PROVE FALSE
          OBVIOUS
        <4>1. i \in 1 .. (k - 1)
          BY <1>1, <1>4
        <4> QED
          BY <1>4, <2>2, <4>1
      <3> QED
        BY <1>1, <1>3, <3>1, <3>2 DEF LinkTo
    <2> QED
      BY <1>1, <1>2, <2>1, <2>2 DEF TailsEnd
  <1>6. HeadsHold'
    <2>1. \A c \in Codes : first'[c] = first[c] \/ (c = a /\ first'[c] = i)
      BY <1>1, KeyAssumption DEF IndexStep, HeadIf, Keys
    <2> QED
      BY <1>1, <1>2, <2>1 DEF HeadsHold
  <1> QED
    BY <1>5, <1>6

LEMMA AppendPostNew ==
  ASSUME IndexInv, AppendInv, ~ Repost,
         NEW k \in 1 .. ArrSize, NEW c \in Codes, PostNew(k, c)
  PROVE  top' <= max_id' /\ SeenKept' /\ TailsEnd' /\ HeadsHold'
  <1>1. /\ pc = "serve" /\ pc' = "serve" /\ k > top /\ k \in Ids
        /\ attr' = [attr EXCEPT ![k] = c] /\ attr \in [Ids -> Codes]
        /\ top' = top /\ seen' = seen /\ nxt' = nxt /\ first' = first
        /\ top \in Nat /\ top <= ArrSize
        /\ \A m \in 1 .. ArrSize : m \in Ids
    <2>1. top \in Ids /\ attr \in [Ids -> Codes]
      BY DEF IndexInv, BaseInv, TypeOK
    <2> QED
      BY <2>1, SizeAssumption DEF PostNew, chainVars, seenVars, Ids
  <1>2. top' <= max_id'
    BY <1>1, SizeAssumption DEF PostNew, AppendInv, IndexInv, BaseInv, TypeOK
  <1>3. \A m \in 1 .. top : attr'[m] = attr[m] /\ m \in Ids
    <2>1. \A m \in 1 .. top : m # k /\ m \in Ids
      BY <1>1, SizeAssumption
    <2> QED
      BY <1>1, <2>1
  <1>4. Covered = top /\ Covered' = top
    BY <1>1 DEF Covered
  <1>5. SeenKept'
    BY <1>1, <1>3 DEF SeenKept, AppendInv
  <1>6. HeadsHold'
    BY <1>1, <1>3, <1>4 DEF HeadsHold, AppendInv
  <1>7. TailsEnd'
    <2> SUFFICES ASSUME NEW m \in 1 .. ArrSize,
                        \A h \in 1 .. (m - 1) : attr'[h] # attr'[m]
                 PROVE  nxt[m] = 0
      BY <1>1, <1>4 DEF TailsEnd, AppendInv
    <2>1. CASE m > top
      BY <1>1, <1>4, <2>1 DEF TailsEnd, AppendInv
    <2>2. CASE m <= top
      <3>1. \A h \in 1 .. (m - 1) : attr[h] # attr[m]
        BY <1>1, <1>3, <2>2
      <3> QED
        BY <3>1 DEF TailsEnd, AppendInv
    <2> QED
      BY <1>1, <2>1, <2>2
  <1> QED
    BY <1>2, <1>5, <1>6, <1>7

LEMMA AppendStep == IndexInv /\ AppendInv /\ [Next]_vars => AppendInv'
  <1> SUFFICES ASSUME IndexInv, AppendInv, [Next]_vars, ~ Repost
               PROVE  top' <= max_id' /\ SeenKept' /\ TailsEnd' /\ HeadsHold'
    BY DEF AppendInv
  <1>0. /\ top <= max_id /\ SeenKept /\ TailsEnd /\ HeadsHold
        /\ max_id \in Nat /\ top \in Nat
    <2>1. top \in Ids /\ max_id \in 1 .. ArrSize
      BY DEF IndexInv, BaseInv, TypeOK
    <2> QED
      BY <2>1, SizeAssumption DEF AppendInv, Ids
  <1>1. CASE StartIndex
    <2>1. /\ pc = "serve" /\ pc' = "index"
          /\ UNCHANGED <<attr, max_id, first, nxt, seen, top>>
      BY <1>1 DEF StartIndex, storeVars, chainVars, seenVars
    <2>2. TailsEnd'
      BY <1>0, <2>1, SizeAssumption DEF TailsEnd, Covered, Ids
    <2>3. HeadsHold'
      BY <1>0, <2>1 DEF HeadsHold, Covered
    <2> QED
      BY <1>0, <2>1, <2>2, <2>3 DEF SeenKept
  <1>2. CASE IndexStep
    BY <1>0, <1>2, AppendIndexStep DEF IndexStep, storeVars, seenVars, SeenKept
  <1>3. CASE FinishIndex
    <2>1. /\ pc = "index" /\ pc' = "serve" /\ seen' = attr /\ top' = max_id
          /\ UNCHANGED <<attr, max_id, first, nxt>>
      BY <1>3 DEF FinishIndex, storeVars, chainVars
    <2> QED
      BY <1>0, <2>1 DEF SeenKept, TailsEnd, HeadsHold, Covered
  <1>4. ASSUME NEW k \in 1 .. ArrSize, NEW c \in Codes, PostNew(k, c)
        PROVE  top' <= max_id' /\ SeenKept' /\ TailsEnd' /\ HeadsHold'
    BY <1>4, AppendPostNew
  <1>5. ASSUME pc # "index", pc' # "index",
               UNCHANGED <<attr, max_id, first, nxt, seen, top>>
        PROVE  top' <= max_id' /\ SeenKept' /\ TailsEnd' /\ HeadsHold'
    BY <1>0, <1>5 DEF SeenKept, TailsEnd, HeadsHold, Covered
  <1>6. ASSUME NEW q \in Queries, NEW n \in 0 .. MaxLimit, QueryStart(q, n)
        PROVE  top' <= max_id' /\ SeenKept' /\ TailsEnd' /\ HeadsHold'
    BY <1>5, <1>6 DEF QueryStart, storeVars, chainVars, seenVars
  <1>7. ASSUME NEW pass \in BOOLEAN, WalkStep(pass) \/ MergeStep(pass)
        PROVE  top' <= max_id' /\ SeenKept' /\ TailsEnd' /\ HeadsHold'
    BY <1>5, <1>7
       DEF WalkStep, MergeStep, Examine, Continue, storeVars, chainVars, seenVars
  <1>8. CASE Reply
    BY <1>5, <1>8 DEF Reply, storeVars, chainVars, seenVars
  <1>9. CASE UNCHANGED vars
    BY <1>0, <1>9 DEF vars, storeVars, chainVars, seenVars,
                      SeenKept, TailsEnd, HeadsHold, Covered
  <1> QED
    BY <1>1, <1>2, <1>3, <1>4, <1>6, <1>7, <1>8, <1>9 DEF Next

-----------------------------------------------------------------------------
LEMMA StraightStep ==
  ASSUME WalkInv, AppendInv, Straight, ValueWalk, ~ Repost,
         NEW pass \in BOOLEAN, WalkStep(pass) \/ MergeStep(pass)
  PROVE  Straight'
  <1>1. query.links \in {"value", "merge"} /\ query.keys \subseteq Codes
    BY DEF ValueWalk
  <1>2. /\ pc = "walk" /\ id \in 1 .. ArrSize /\ nxt[id] \in Ids
        /\ Frontier \subseteq Ids
        /\ visited' = visited \union {id} /\ query' = query
        /\ UNCHANGED <<first, nxt, nxtNe, seen, top>>
        /\ Successors = {} => pc' = "done"
        /\ Successors # {} => /\ pc' \in {"walk", "cut"}
                              /\ Frontier' = Successors
                              /\ IsHighest(id', Successors)
                              /\ id' < id
    BY <1>1, ValueStep DEF WalkInv
  <1> DEFINE H == Holders(query.keys)
  <1>3. H' = H
    BY <1>2 DEF Holders
  <1>4. visited \subseteq H /\ Frontier \subseteq H /\ id \in Frontier
    BY <1>1, <1>2 DEF Straight, Walking, WalkInv, Above, IsHighest
  <1>5. ASSUME nxt[id] # 0 PROVE id - nxt[id] \in H
    <2> DEFINE c == seen[id]
               S == Holders({c})
               R == {m \in S : m < id}
    <2>1. id \in 1 .. top /\ c \in query.keys /\ top \in Nat /\ top <= ArrSize
      <3>1. top \in Ids
        BY DEF WalkInv, IndexInv, BaseInv, TypeOK
      <3> QED
        BY <1>4, <3>1, SizeAssumption DEF Holders, Ids
    <2>2. PICK m \in 1 .. (id - 1) : attr[m] = attr[id]
      BY <1>2, <1>5 DEF AppendInv, TailsEnd
    <2>3. m \in 1 .. top /\ m < id
      BY <2>1, <2>2
    <2>4. seen[m] = c
      BY <1>2, <2>1, <2>2, <2>3 DEF AppendInv, SeenKept
    <2>5. m \in R
      BY <2>3, <2>4 DEF Holders
    <2>6. S \in SUBSET Ids /\ id \in S /\ R \in SUBSET S
      BY <2>1, SizeAssumption DEF Holders, Ids
    <2>7. nxt \in [Ids -> Ids] /\ Threaded(S, nxt, OffMod) /\ GapsFit(S, OffMod)
      BY <1>1, <1>2, <2>1 DEF WalkInv, IndexInv, Built, ValueWalk, BaseInv, TypeOK
    <2>8. S \subseteq H
      BY <2>1 DEF Holders
    <2>9. \A k \in S : k \in R <=> k < id
      OBVIOUS
    <2> HIDE DEF S, R, c
    <2>10. IsHighest(id - nxt[id], R)
      BY <2>5, <2>6, <2>7, <2>9, NextOfChain, WidthAssumption
    <2> QED
      BY <2>6, <2>8, <2>10 DEF IsHighest
  <1>6. Successors \subseteq H
    BY <1>4, <1>5 DEF Successors
  <1>7. visited' \subseteq H
    BY <1>2, <1>4
  <1> QED
    BY <1>2, <1>3, <1>6, <1>7 DEF Straight, Walking

LEMMA StraightInvStep == WalkInv /\ AppendInv /\ Straight /\ [Next]_vars => Straight'
  <1> SUFFICES ASSUME WalkInv, AppendInv, Straight, [Next]_vars, ~ Repost, ValueWalk'
               PROVE  Straight'
    BY DEF Straight
  <1>1. CASE StartIndex \/ FinishIndex \/ IndexStep \/ Reply
             \/ \E k \in 1 .. ArrSize, c \in Codes : PostNew(k, c)
    BY <1>1 DEF StartIndex, FinishIndex, IndexStep, Reply, PostNew, ValueWalk
  <1>2. ASSUME NEW q \in Queries, NEW n \in 0 .. MaxLimit, QueryStart(q, n)
        PROVE  Straight'
    <2>1. /\ query' = q /\ visited' = {} /\ pc # "index"
          /\ q.links \in {"value", "merge"} /\ q.keys \subseteq Codes
          /\ id' \in Ids /\ IsHighest(id', {first[c] : c \in q.keys})
          /\ Walking' => id' # 0
          /\ UNCHANGED <<seen, top>>
      BY <1>2 DEF QueryStart, ValueWalk, Walking, seenVars
    <2>2. Holders(q.keys)' = Holders(q.keys)
      BY <2>1 DEF Holders
    <2>3. ASSUME NEW c \in q.keys, first[c] # 0
          PROVE  first[c] \in Holders(q.keys)
      <3>1. first[c] \in 1 .. top /\ attr[first[c]] = c
        BY <2>1, <2>3 DEF AppendInv, HeadsHold, Covered
      <3> QED
        BY <2>1, <3>1 DEF AppendInv, SeenKept, Holders
    <2>4. Walking' => Frontier' \subseteq Holders(q.keys)
      <3>1. CASE q.links = "merge"
        <4>1. Frontier' = {first[c] : c \in q.keys} /\ q.keys \subseteq names
          BY <1>2, <3>1 DEF QueryStart, Frontier
        <4>2. \A c \in q.keys : first[c] # 0
          BY <2>1, <4>1 DEF WalkInv, IndexInv, BaseInv, NamesHeaded
        <4> QED
          BY <2>3, <4>1, <4>2
      <3>2. CASE q.links = "value"
        <4>1. PICK c \in q.keys : id' = first[c]
          BY <2>1 DEF IsHighest
        <4>2. Frontier' = {first[c]}
          BY <2>1, <3>2, <4>1 DEF Frontier
        <4> QED
          BY <2>1, <2>3, <4>1, <4>2
      <3> QED
        BY <2>1, <3>1, <3>2
    <2> QED
      BY <2>1, <2>2, <2>4 DEF Straight
  <1>3. ASSUME NEW pass \in BOOLEAN, WalkStep(pass) \/ MergeStep(pass)
        PROVE  Straight'
    <2>1. pc = "walk" /\ query' = query /\ seen' = seen /\ top' = top
      BY <1>3 DEF WalkStep, MergeStep, Examine, seenVars
    <2>2. ValueWalk
      BY <2>1 DEF ValueWalk, GapsFit, IsNextBelow, Holders
    <2> QED
      BY <1>3, <2>2, StraightStep
  <1>4. CASE UNCHANGED vars
    BY <1>4 DEF vars, seenVars, queryVars, Straight, ValueWalk, Walking, Frontier,
                GapsFit, IsNextBelow, Holders
  <1> QED
    BY <1>1, <1>2, <1>3, <1>4 DEF Next

(* A walk along value chains examines only accounts that held one of its   *)
(* codes when the index was built, if no indexed id is posted again.       *)
THEOREM ValueWalkIsExact == Spec => []ValueWalkExact
  <1>1. Init => AppendInv /\ Straight
    BY AppendInit DEF Init, Straight, ValueWalk
  <1>2. Straight => ValueWalkExact
    BY DEF Straight, ValueWalkExact
  <1> QED
    BY <1>1, <1>2, AppendStep, StraightInvStep, WalkInvariance, PTL DEF Spec, WalkInv

-----------------------------------------------------------------------------
(* The walk of getFilter implements DescendingWalk: the steps of the walk  *)
(* are the abstract ones, every other step stutters.                       *)

WalkFacts == WalkInv /\ AppendInv /\ Straight /\ ValueWalkComplete

LEMMA IdleStutters ==
  ASSUME ~ ExactWalk, ~ ExactWalk'
  PROVE  UNCHANGED Walk!vars
  BY DEF Walk!vars, WalkStatus, WalkTodo, WalkVisited

LEMMA StartMaps ==
  ASSUME WalkFacts, WalkFacts', pc = "serve", ExactWalk', visited' = {},
         pc' \in {"walk", "done", "cut"}
  PROVE  Walk!Start
  <1>1. ~ ExactWalk
    BY DEF ExactWalk, ValueWalk
  <1>2. /\ WalkStatus = "idle"
        /\ WalkVisited' = {}
        /\ WalkTodo' = Holders(query.keys)'
    BY <1>1 DEF WalkStatus, WalkVisited, WalkTodo
  <1>3. Holders(query.keys)' \subseteq Ids
    <2>1. top' \in Ids
      BY DEF WalkFacts, WalkInv, IndexInv, BaseInv, TypeOK
    <2> QED
      BY <2>1, SizeAssumption DEF Holders, Ids
  <1>4. WalkStatus' \in {"walk", "cut"} \/ (WalkStatus' = "all" /\ WalkTodo' = {})
    <2>1. pc' = "done" => Holders(query.keys)' \subseteq {}
      BY DEF WalkFacts, ValueWalkComplete, TakesFromTop, ExactWalk
    <2> QED
      BY <1>2, <2>1 DEF WalkStatus
  <1> QED
    BY <1>2, <1>3, <1>4 DEF Walk!Start, Walk!Goes

LEMMA TakeMaps ==
  ASSUME WalkFacts, WalkFacts', ExactWalk,
         NEW pass \in BOOLEAN, WalkStep(pass) \/ MergeStep(pass)
  PROVE  Walk!Take
  <1>1. ValueWalk /\ ~ Repost /\ query.links \in {"value", "merge"} /\ query.keys \subseteq Codes
    BY DEF ExactWalk, ValueWalk
  <1>2. /\ pc = "walk" /\ visited' = visited \union {id} /\ query' = query
        /\ UNCHANGED <<seen, top>>
        /\ pc' \in {"walk", "done", "cut"}
        /\ id \in Nat /\ visited \subseteq Nat
    <2>1. id \in Nat /\ visited \subseteq Nat
      BY SizeAssumption DEF WalkFacts, WalkInv, IndexInv, BaseInv, TypeOK, Ids
    <2>2. Successors = {} \/ Successors # {}
      OBVIOUS
    <2>3. IndexInv /\ Above
      BY DEF WalkFacts, WalkInv
    <2> QED
      BY <1>1, <2>1, <2>2, <2>3, ValueStep
  <1> DEFINE H == Holders(query.keys)
  <1>3. H' = H /\ ExactWalk'
    BY <1>1, <1>2 DEF Holders, ExactWalk, ValueWalk, GapsFit, IsNextBelow
  <1>4. id \in H /\ id \notin visited
    <2>1. id \in Frontier /\ \A w \in visited : id < w
      BY <1>1, <1>2 DEF WalkFacts, Walking, WalkInv, Above, IsHighest
    <2>2. Frontier \subseteq H
      BY <1>1, <1>2 DEF WalkFacts, Straight, Walking
    <2> QED
      BY <1>2, <2>1, <2>2
  <1>5. \A m \in H \ visited : m <= id
    BY <1>1, NoneAbove DEF WalkFacts
  <1>6. /\ WalkStatus = "walk" /\ WalkTodo = H \ visited /\ WalkVisited = visited
        /\ WalkTodo' = (H \ visited) \ {id} /\ WalkVisited' = visited \union {id}
    BY <1>2, <1>3 DEF WalkStatus, WalkTodo, WalkVisited, ExactWalk
  <1>7. WalkStatus' \in {"walk", "cut"} \/ (WalkStatus' = "all" /\ WalkTodo' = {})
    <2>1. pc' = "done" => H' \subseteq visited'
      BY <1>3 DEF WalkFacts, ValueWalkComplete, TakesFromTop, ExactWalk
    <2> QED
      BY <1>2, <1>3, <2>1 DEF WalkStatus, WalkTodo
  <1> QED
    BY <1>4, <1>5, <1>6, <1>7 DEF Walk!Take, Walk!Goes

LEMMA StepMaps == WalkFacts /\ WalkFacts' /\ [Next]_vars => [Walk!Next]_Walk!vars
  <1> SUFFICES ASSUME WalkFacts, WalkFacts', [Next]_vars PROVE [Walk!Next]_Walk!vars
    OBVIOUS
  <1>1. ASSUME pc \in {"index", "serve"}, pc' \in {"index", "serve"}
        PROVE  UNCHANGED Walk!vars
    BY <1>1, IdleStutters DEF ExactWalk, ValueWalk
  <1>2. CASE StartIndex \/ IndexStep \/ FinishIndex
             \/ \E k \in 1 .. ArrSize, c \in Codes : PostNew(k, c)
    BY <1>1, <1>2 DEF StartIndex, IndexStep, FinishIndex, PostNew
  <1>3. ASSUME NEW q \in Queries, NEW n \in 0 .. MaxLimit, QueryStart(q, n)
        PROVE  Walk!Start \/ UNCHANGED Walk!vars
    <2>1. pc = "serve" /\ visited' = {} /\ pc' \in {"walk", "done", "cut"}
      BY <1>3 DEF QueryStart
    <2>2. ~ ExactWalk
      BY <2>1 DEF ExactWalk, ValueWalk
    <2> QED
      BY <2>1, <2>2, StartMaps, IdleStutters
  <1>4. ASSUME NEW pass \in BOOLEAN, WalkStep(pass) \/ MergeStep(pass)
        PROVE  Walk!Take \/ UNCHANGED Walk!vars
    <2>1. CASE ExactWalk
      BY <1>4, <2>1, TakeMaps
    <2>2. CASE ~ ExactWalk
      <3>1. /\ pc = "walk"
            /\ UNCHANGED <<query, seen, top>>
        BY <1>4 DEF WalkStep, MergeStep, Examine, seenVars
      <3>2. ~ ExactWalk'
        BY <2>2, <3>1 DEF ExactWalk, ValueWalk, GapsFit, IsNextBelow, Holders
      <3> QED
        BY <2>2, <3>2, IdleStutters
    <2> QED
      BY <2>1, <2>2
  <1>5. CASE Reply
    <2>1. pc \in {"done", "cut"} /\ pc' = "serve"
      BY <1>5 DEF Reply
    <2>2. ~ ExactWalk'
      BY <2>1 DEF ExactWalk, ValueWalk
    <2>3. CASE ExactWalk
      <3>1. WalkStatus \in {"all", "cut"}
        BY <2>1, <2>3 DEF WalkStatus
      <3>2. WalkStatus' = "idle" /\ WalkTodo' = {} /\ WalkVisited' = {}
        BY <2>2 DEF WalkStatus, WalkTodo, WalkVisited
      <3> QED
        BY <3>1, <3>2 DEF Walk!Reply, Walk!Next
    <2> QED
      BY <2>2, <2>3, IdleStutters DEF Walk!Next
  <1>6. CASE UNCHANGED vars
    BY <1>6 DEF vars, seenVars, queryVars, Walk!vars, WalkStatus, WalkTodo, WalkVisited,
                ExactWalk, ValueWalk, GapsFit, IsNextBelow, Holders
  <1> QED
    BY <1>2, <1>3, <1>4, <1>5, <1>6 DEF Next, Walk!Next

(* The walk along the chains of makeIndex keeps the promise DescendingWalk *)
(* states, for every size, every set of codes and every width of a link    *)
(* that the gaps fit.                                                      *)
THEOREM ValueWalkImplements == Spec => ImplementsWalk
  <1>1. Init => Walk!Init
    BY DEF Init, Walk!Init, WalkStatus, WalkTodo, WalkVisited, ExactWalk, ValueWalk
  <1>2. Spec => []WalkFacts
    <2>1. Init => AppendInv /\ Straight
      BY AppendInit DEF Init, Straight, ValueWalk
    <2> QED
      BY <2>1, AppendStep, StraightInvStep, WalkInvariance, ValueWalkIsComplete, PTL
         DEF Spec, WalkInv, WalkFacts
  <1> QED
    BY <1>1, <1>2, StepMaps, PTL DEF Spec, ImplementsWalk, Walk!Spec

=============================================================================
