------------------------ MODULE CombinedWalk_proofs ------------------------
(***************************************************************************)
(* Proofs about CombinedWalk, for every size of the accounts array, every  *)
(* number of chunks that divides it and every set of bit vectors.          *)
(***************************************************************************)
EXTENDS CombinedWalk, TLAPS

-----------------------------------------------------------------------------
(* Chunk and bit of an account, and back.                                  *)

LEMMA Multiples ==
  ASSUME NEW m \in Nat, NEW c \in Nat, NEW d \in Nat, c < d
  PROVE  m * c + m <= m * d
  <1>1. m * (d - c - 1) \in Nat
    OBVIOUS
  <1>2. m * (d - c - 1) = m * d - m * c - m
    OBVIOUS
  <1>3. m * c \in Nat /\ m * d \in Nat
    OBVIOUS
  <1> QED
    BY <1>1, <1>2, <1>3

LEMMA Division ==
  ASSUME NEW p \in Nat, NEW m \in Nat \ {0}
  PROVE  /\ p \div m \in Nat /\ p % m \in 0 .. m - 1
         /\ p = m * (p \div m) + (p % m)
  OBVIOUS

LEMMA Sizes == /\ chunk_sz \in Nat \ {0}
               /\ ArrSize = chunk_sz * num_chunks
  <1>1. ArrSize = num_chunks * (ArrSize \div num_chunks) /\ ArrSize \div num_chunks \in Nat
    BY Division, ChunkAssumption
  <1>2. ArrSize \div num_chunks # 0
    BY <1>1, ChunkAssumption
  <1> QED
    BY <1>1, <1>2, ChunkAssumption DEF chunk_sz

(* A bit later in a chunk, or in a later chunk, is a lower id.             *)
LEMMA Order ==
  ASSUME NEW c \in Chunks, NEW b \in -1 .. chunk_sz - 1, NEW d \in Chunks, NEW e \in Bits
  PROVE  /\ Position(c, b) \in Int /\ Position(d, e) \in Ids
         /\ Position(d, e) < Position(c, b) <=> (c < d \/ (c = d /\ b < e))
  <1> DEFINE m == chunk_sz
  <1>1. /\ m \in Nat \ {0} /\ c \in Nat /\ d \in Nat /\ b \in Int /\ e \in Int
        /\ b < m /\ -1 <= b /\ 0 <= e /\ e < m
        /\ d < num_chunks /\ num_chunks \in Nat /\ ArrSize \in Nat
    BY Sizes, ChunkAssumption DEF Chunks, Bits
  <1>2. m * c \in Nat /\ m * d \in Nat
    BY <1>1
  <1>3. /\ c < d => m * c + m <= m * d
        /\ d < c => m * d + m <= m * c
        /\ m * d + m <= ArrSize
    BY <1>1, Multiples, Sizes
  <1> HIDE DEF m
  <1>4. m = chunk_sz
    BY DEF m
  <1>5. Position(c, b) = ArrSize - (m * c + b) /\ Position(d, e) = ArrSize - (m * d + e)
    BY <1>4 DEF Position
  <1>6. Position(d, e) \in Ids
    BY <1>1, <1>2, <1>3, <1>5 DEF Ids
  <1>7. CASE c < d
    BY <1>1, <1>2, <1>3, <1>5, <1>6, <1>7
  <1>8. CASE d < c
    BY <1>1, <1>2, <1>3, <1>5, <1>6, <1>8
  <1>9. CASE c = d
    BY <1>1, <1>2, <1>5, <1>6, <1>9
  <1> QED
    BY <1>1, <1>7, <1>8, <1>9

(* Every account has its bit.                                              *)
LEMMA Places ==
  ASSUME NEW k \in Ids
  PROVE  /\ (ArrSize - k) \div chunk_sz \in Chunks
         /\ (ArrSize - k) % chunk_sz \in Bits
         /\ Position((ArrSize - k) \div chunk_sz, (ArrSize - k) % chunk_sz) = k
  <1> DEFINE p == ArrSize - k
             c == p \div chunk_sz
             b == p % chunk_sz
  <1>1. /\ p \in Nat /\ p < ArrSize /\ k \in Nat /\ ArrSize \in Nat /\ num_chunks \in Nat
        /\ chunk_sz \in Nat \ {0}
    BY Sizes, ChunkAssumption DEF Ids
  <1>2. c \in Nat /\ b \in Bits /\ p = chunk_sz * c + b
    BY <1>1, Division DEF Bits
  <1>3. c < num_chunks
    <2> SUFFICES ASSUME num_chunks <= c PROVE FALSE
      BY <1>1, <1>2
    <2>1. chunk_sz * num_chunks <= chunk_sz * c
      <3>1. CASE num_chunks = c
        BY <1>1, <1>2, <3>1
      <3>2. CASE num_chunks < c
        <4>1. chunk_sz * num_chunks + chunk_sz <= chunk_sz * c
          BY <1>1, <1>2, <3>2, Multiples
        <4> QED
          BY <1>1, <1>2, <4>1
      <3> QED
        BY <1>1, <1>2, <3>1, <3>2
    <2> QED
      BY <1>1, <1>2, <2>1, Sizes DEF Bits
  <1>4. Position(c, b) = k
    BY <1>1, <1>2 DEF Position, Bits
  <1> QED
    BY <1>1, <1>2, <1>3, <1>4 DEF Chunks

-----------------------------------------------------------------------------
(* The bits set are the accounts loaded.                                   *)
BitsLoaded ==
  \A s \in Sources, c \in Chunks, b \in Bits :
    b \in chunk_arr[s][c] <=> Position(c, b) \in loaded[s]

MatchOf(and, ors) ==
  {k \in Ids : /\ \A s \in and : k \in loaded[s]
               /\ \A S \in ors : \E s \in S : k \in loaded[s]}

LEMMA ResultIsMatch ==
  ASSUME BitsLoaded, NEW and \in SUBSET Sources, NEW ors \in SUBSET Groups,
         NEW c \in Chunks, NEW b \in Bits
  PROVE  b \in Result(and, ors, c) <=> Position(c, b) \in MatchOf(and, ors)
  <1>1. Position(c, b) \in Ids
    BY Order, Sizes DEF Bits
  <1>2. \A s \in Sources : b \in chunk_arr[s][c] <=> Position(c, b) \in loaded[s]
    BY DEF BitsLoaded
  <1> QED
    BY <1>1, <1>2 DEF Result, MatchOf, Groups

LEMMA BitsAreInts ==
  /\ Bits \subseteq -1 .. chunk_sz - 1 /\ -1 \in -1 .. chunk_sz - 1
  /\ Bits \subseteq Int /\ Chunks \subseteq Int /\ num_chunks \notin Chunks
  /\ \A b \in Bits : -1 < b
  BY Sizes, ChunkAssumption DEF Bits, Chunks

(* Every match is in some chunk's result.                                  *)
LEMMA MatchHasBit ==
  ASSUME BitsLoaded, NEW and \in SUBSET Sources, NEW ors \in SUBSET Groups,
         NEW k \in MatchOf(and, ors)
  PROVE  \E d \in Chunks : \E e \in Result(and, ors, d) : k = Position(d, e)
  <1>1. k \in Ids
    BY DEF MatchOf
  <1>2. PICK d \in Chunks, e \in Bits : k = Position(d, e)
    BY <1>1, Places
  <1>3. e \in Result(and, ors, d)
    BY <1>2, ResultIsMatch
  <1> QED
    BY <1>2, <1>3

(* getNextBit after bit b of chunk c (-1: none yet) finds the highest      *)
(* match below, and leaves en ready for the next, or there is none.        *)
Below(and, ors, c, b) == {k \in MatchOf(and, ors) : k < Position(c, b)}

At(and, ors, c, b) ==
  /\ c \in Chunks /\ b \in Result(and, ors, c)
  /\ current_chunk = c /\ id = Position(c, b)
  /\ en = {e \in Result(and, ors, c) : b < e}

LEMMA TakeBitFinds ==
  ASSUME BitsLoaded, NEW and \in SUBSET Sources, NEW ors \in SUBSET Groups,
         NEW c \in Chunks, NEW b \in -1 .. chunk_sz - 1, NEW d \in Chunks, NEW B,
         B = {e \in Result(and, ors, d) : c < d \/ b < e}, c <= d,
         \A e \in Chunks : c <= e /\ e < d => {f \in Result(and, ors, e) : c < e \/ b < f} = {},
         UNCHANGED chunk_arr, TakeBit(d, B)
  PROVE  /\ \E f \in Bits : At(and, ors, d, f)'
         /\ id' \in Below(and, ors, c, b)
         /\ \A k \in Below(and, ors, c, b) : k <= id'
  <1>1. PICK f \in B : /\ \A e \in B : f <= e
                       /\ current_chunk' = d /\ id' = Position(d, f) /\ en' = B \ {f}
    BY DEF TakeBit
  <1>2. f \in Bits /\ f \in Result(and, ors, d) /\ (c < d \/ b < f)
    BY <1>1 DEF Result
  <1>3. \A e \in Chunks : Result(and, ors, e)' = Result(and, ors, e)
    BY DEF Result
  <1>4. en' = {e \in Result(and, ors, d) : f < e}
    <2>1. Result(and, ors, d) \subseteq Bits
      BY DEF Result
    <2>2. \A e \in Result(and, ors, d) : e \in Int
      BY <2>1, BitsAreInts
    <2>3. b \in Int /\ f \in Int /\ c \in Int /\ d \in Int
      BY <1>2, BitsAreInts, Sizes
    <2>4. ASSUME NEW e \in Result(and, ors, d) PROVE e \in B \ {f} <=> f < e
      BY <1>1, <1>2, <2>2, <2>3, <2>4
    <2>5. B \subseteq Result(and, ors, d)
      OBVIOUS
    <2> QED
      BY <1>1, <2>4, <2>5
  <1>5. \E g \in Bits : At(and, ors, d, g)'
    BY <1>1, <1>2, <1>3, <1>4 DEF At
  <1>6. id' \in Below(and, ors, c, b)
    <2>1. id' \in MatchOf(and, ors)
      BY <1>1, <1>2, ResultIsMatch
    <2>2. Position(d, f) < Position(c, b)
      BY <1>2, Order, BitsAreInts
    <2> QED
      BY <1>1, <2>1, <2>2 DEF Below
  <1>7. ASSUME NEW k \in Below(and, ors, c, b) PROVE k <= id'
    <2>1. k \in MatchOf(and, ors) /\ k < Position(c, b)
      BY <1>7 DEF Below
    <2>2. PICK e \in Chunks : \E g \in Result(and, ors, e) : k = Position(e, g)
      BY <2>1, MatchHasBit
    <2>3. PICK g \in Result(and, ors, e) : k = Position(e, g)
      BY <2>2
    <2>4. g \in Bits
      BY DEF Result
    <2>5. c < e \/ (c = e /\ b < g)
      BY <2>1, <2>3, <2>4, Order
    <2>6. ~ (e < d)
      BY <2>3, <2>5, BitsAreInts
    <2>7. e = d => f <= g
      BY <1>1, <2>3, <2>5
    <2>8. e \in Int /\ d \in Int /\ f \in Int /\ g \in Int /\ g \in -1 .. chunk_sz - 1
      BY <1>2, <2>4, BitsAreInts
    <2>9. ~ (e < d \/ (e = d /\ g < f))
      BY <2>6, <2>7, <2>8
    <2>10. /\ Position(e, g) \in Int /\ Position(d, f) \in Int
           /\ ~ (Position(d, f) < Position(e, g))
      BY <1>2, <2>8, <2>9, Order, BitsAreInts
    <2> QED
      BY <1>1, <2>3, <2>10
  <1> QED
    BY <1>5, <1>6, <1>7

LEMMA NextBitFinds ==
  ASSUME BitsLoaded, NEW and \in SUBSET Sources, NEW ors \in SUBSET Groups,
         NEW c \in Chunks, NEW b \in -1 .. chunk_sz - 1, NEW rest,
         rest = {e \in Result(and, ors, c) : b < e},
         UNCHANGED chunk_arr, getNextBit(and, ors, c, rest)
  PROVE  \/ /\ current_chunk' = num_chunks /\ en' = {} /\ id' = id
            /\ Below(and, ors, c, b) = {}
         \/ /\ \E d \in Chunks, f \in Bits : At(and, ors, d, f)'
            /\ id' \in Below(and, ors, c, b)
            /\ \A k \in Below(and, ors, c, b) : k <= id'
  <1>1. c \in Int /\ b \in Int
    BY BitsAreInts, Sizes
  <1>2. CASE rest # {} /\ TakeBit(c, rest)
    <2>1. rest = {e \in Result(and, ors, c) : c < c \/ b < e} /\ c <= c
      BY <1>1
    <2>2. ASSUME NEW e \in Chunks, c <= e, e < c
          PROVE  {f \in Result(and, ors, e) : c < e \/ b < f} = {}
      BY <1>1, <2>2, BitsAreInts
    <2>3. /\ \E f \in Bits : At(and, ors, c, f)'
          /\ id' \in Below(and, ors, c, b)
          /\ \A k \in Below(and, ors, c, b) : k <= id'
      <3> HIDE DEF getNextBit
      <3> QED
        BY <1>2, <2>1, <2>2, TakeBitFinds
    <2> QED
      BY <2>3
  <1>3. CASE rest = {} /\ \E d \in Chunks :
               /\ d > c
               /\ \A e \in Chunks : c < e /\ e < d => Result(and, ors, e) = {}
               /\ TakeBit(d, Result(and, ors, d))
    <2>1. PICK d \in Chunks :
               /\ d > c
               /\ \A e \in Chunks : c < e /\ e < d => Result(and, ors, e) = {}
               /\ TakeBit(d, Result(and, ors, d))
      BY <1>3
    <2>2. c < d /\ c <= d /\ d \in Int
      BY <1>1, <2>1, BitsAreInts
    <2>3. Result(and, ors, d) = {e \in Result(and, ors, d) : c < d \/ b < e}
      BY <2>2
    <2>4. ASSUME NEW e \in Chunks, c <= e, e < d
          PROVE  {f \in Result(and, ors, e) : c < e \/ b < f} = {}
      <3>1. e = c \/ c < e
        BY <1>1, <2>4, BitsAreInts
      <3>2. CASE e = c
        BY <1>1, <1>3, <3>2
      <3>3. CASE c < e
        BY <2>1, <2>4, <3>3
      <3> QED
        BY <3>1, <3>2, <3>3
    <2> QED
      BY <2>1, <2>2, <2>3, <2>4, TakeBitFinds
  <1>4. CASE rest = {} /\ (\A d \in Chunks : d > c => Result(and, ors, d) = {}) /\ TakeNone
    <2>1. ASSUME NEW k \in Below(and, ors, c, b) PROVE FALSE
      <3>1. k \in MatchOf(and, ors) /\ k < Position(c, b)
        BY <2>1 DEF Below
      <3>2. PICK e \in Chunks : \E g \in Result(and, ors, e) : k = Position(e, g)
        BY <3>1, MatchHasBit
      <3>3. PICK g \in Result(and, ors, e) : k = Position(e, g)
        BY <3>2
      <3>4. g \in Bits
        BY DEF Result
      <3>5. c < e \/ (c = e /\ b < g)
        BY <3>1, <3>3, <3>4, Order
      <3>6. e > c \/ g \in rest
        BY <1>1, <3>3, <3>5, BitsAreInts
      <3> QED
        BY <1>4, <3>3, <3>6
    <2> QED
      BY <1>4, <2>1 DEF TakeNone
  <1> QED
    BY <1>2, <1>3, <1>4 DEF getNextBit

-----------------------------------------------------------------------------
(* The invariant: the walk has examined the matches above its cursor.      *)
WalkInv ==
  /\ pc \in {"walk", "cut"} => /\ \E c \in Chunks, b \in Bits : At(and_src, steps, c, b)
                              /\ id \in Match
                              /\ visited = {k \in Match : k > id}
  /\ pc = "done" => visited = Match
  /\ pc = "walk" => limit # 0
  /\ pc \in {"load", "serve"} => visited = {}

Inv == TypeOK /\ BitsLoaded /\ WalkInv

LEMMA MatchIs == Match = MatchOf(and_src, steps)
  BY DEF Match, MatchOf

LEMMA InvInit == Init => Inv
  <1> SUFFICES ASSUME Init PROVE Inv
    OBVIOUS
  <1>1. TypeOK
    BY Sizes, ChunkAssumption, LimitAssumption DEF Init, TypeOK, Groups
  <1>2. BitsLoaded /\ WalkInv
    BY DEF Init, BitsLoaded, WalkInv
  <1> QED
    BY <1>1, <1>2 DEF Inv

LEMMA StoreInv ==
  ASSUME Inv, NEW k \in Ids, NEW S \in SUBSET Sources, Store(k, S)
  PROVE  Inv'
  <1> DEFINE kc == (ArrSize - k) \div chunk_sz
             kb == (ArrSize - k) % chunk_sz
  <1>1. kc \in Chunks /\ kb \in Bits /\ Position(kc, kb) = k
    BY Places
  <1>2. ASSUME NEW s \in Sources, NEW c \in Chunks
        PROVE  chunk_arr'[s][c] = IF s \in S /\ c = kc THEN chunk_arr[s][c] \union {kb}
                                                       ELSE chunk_arr[s][c]
    BY DEF Store, SetBit
  <1>3. ASSUME NEW c \in Chunks, NEW b \in Bits
        PROVE  Position(c, b) = k <=> c = kc /\ b = kb
    <2> SUFFICES ASSUME Position(c, b) = k PROVE c = kc /\ b = kb
      BY <1>1
    <2>1. /\ ~ (Position(kc, kb) < Position(c, b))
          /\ ~ (Position(c, b) < Position(kc, kb))
      BY <1>1 DEF Ids
    <2>2. b \in -1 .. chunk_sz - 1 /\ kb \in -1 .. chunk_sz - 1
      BY <1>1, BitsAreInts
    <2> HIDE DEF kc, kb
    <2>3. /\ ~ (c < kc \/ (c = kc /\ b < kb))
          /\ ~ (kc < c \/ (kc = c /\ kb < b))
      BY <1>1, <2>1, <2>2, Order
    <2>4. c \in Int /\ kc \in Int /\ b \in Int /\ kb \in Int
      BY <1>1, BitsAreInts
    <2> QED
      BY <2>3, <2>4
  <1>4. loaded' = [s \in Sources |-> IF s \in S THEN loaded[s] \union {k} ELSE loaded[s]]
    BY DEF Store
  <1>5. chunk_arr' \in [Sources -> [Chunks -> SUBSET Bits]]
    <2>1. chunk_arr' = [s \in Sources |-> [c \in Chunks |->
                          IF s \in S /\ c = kc THEN chunk_arr[s][c] \union {kb}
                                               ELSE chunk_arr[s][c]]]
      BY DEF Store, SetBit
    <2> HIDE DEF kc, kb
    <2> QED
      BY <1>1, <2>1 DEF Inv, TypeOK
  <1> HIDE DEF kc, kb
  <1>6. TypeOK'
    <2>1. loaded' \in [Sources -> SUBSET Ids]
      BY <1>4 DEF Inv, TypeOK
    <2> QED
      BY <1>5, <2>1 DEF Inv, TypeOK, Store, aggVars, loopVars
  <1>7. BitsLoaded'
    <2> SUFFICES ASSUME NEW s \in Sources, NEW c \in Chunks, NEW b \in Bits
                 PROVE  b \in chunk_arr'[s][c] <=> Position(c, b) \in loaded'[s]
      BY DEF BitsLoaded, Position
    <2>1. b \in chunk_arr[s][c] <=> Position(c, b) \in loaded[s]
      BY DEF Inv, BitsLoaded
    <2>2. b \in chunk_arr'[s][c] <=> b \in chunk_arr[s][c] \/ (s \in S /\ c = kc /\ b = kb)
      BY <1>2
    <2>3. Position(c, b) \in loaded'[s] <=>
            Position(c, b) \in loaded[s] \/ (s \in S /\ Position(c, b) = k)
      BY <1>4
    <2> QED
      BY <1>3, <2>1, <2>2, <2>3
  <1>8. WalkInv'
    BY DEF Inv, WalkInv, Store, loopVars
  <1> QED
    BY <1>6, <1>7, <1>8 DEF Inv

LEMMA UnchangedBits ==
  ASSUME BitsLoaded, UNCHANGED <<chunk_arr, loaded>>
  PROVE  BitsLoaded'
  BY DEF BitsLoaded, Position

(* What the search for the next candidate leaves behind.                   *)
LEMMA Advances ==
  ASSUME BitsLoaded, NEW and \in SUBSET Sources, NEW ors \in SUBSET Groups,
         NEW c \in Chunks, NEW b \in -1 .. chunk_sz - 1, NEW rest,
         rest = {e \in Result(and, ors, c) : b < e},
         UNCHANGED <<chunk_arr, loaded>>, and_src' = and, steps' = ors,
         getNextBit(and, ors, c, rest)
  PROVE  /\ current_chunk' \in 0 .. num_chunks /\ en' \subseteq Bits
         /\ Match' = MatchOf(and, ors)
         /\ \/ /\ current_chunk' = num_chunks /\ id' = id
               /\ Below(and, ors, c, b) = {}
            \/ /\ current_chunk' # num_chunks /\ id' \in Ids
               /\ \E d \in Chunks, f \in Bits : At(and_src, steps, d, f)'
               /\ id' \in Below(and, ors, c, b)
               /\ \A k \in Below(and, ors, c, b) : k <= id'
  <1>1. Match' = MatchOf(and, ors)
    BY DEF Match, MatchOf
  <1>2. \A d \in Chunks : d \in 0 .. num_chunks /\ d # num_chunks
    BY ChunkAssumption DEF Chunks
  <1>3. CASE /\ current_chunk' = num_chunks /\ en' = {} /\ id' = id
             /\ Below(and, ors, c, b) = {}
    BY <1>1, <1>3, ChunkAssumption
  <1>4. CASE /\ \E d \in Chunks, f \in Bits : At(and, ors, d, f)'
             /\ id' \in Below(and, ors, c, b)
             /\ \A k \in Below(and, ors, c, b) : k <= id'
    <2>1. PICK d \in Chunks, f \in Bits : At(and, ors, d, f)'
      BY <1>4
    <2>2. current_chunk' = d /\ en' \subseteq Bits
      BY <2>1 DEF At, Result
    <2>3. At(and_src, steps, d, f)'
      BY <2>1 DEF At, Result
    <2>4. id' \in Ids
      BY <1>4 DEF Below, MatchOf
    <2> QED
      BY <1>1, <1>2, <1>4, <2>2, <2>3, <2>4
  <1> QED
    BY <1>3, <1>4, NextBitFinds

LEMMA QueryInv ==
  ASSUME Inv, NEW and \in SUBSET Sources, NEW ors \in SUBSET Groups,
         NEW n \in 0 .. MaxLimit, QueryStart(and, ors, n)
  PROVE  Inv' /\ visited' = {} /\ (pc' = "done" => Match' = {})
  <1> DEFINE B == Below(and, ors, 0, -1)
  <1>1. /\ pc = "serve" /\ visited = {} /\ visited' = {}
        /\ UNCHANGED <<chunk_arr, loaded>> /\ and_src' = and /\ steps' = ors
        /\ getNextBit(and, ors, 0, Result(and, ors, 0)) /\ limit' = n
        /\ pc' \in {"walk", "cut", "done"}
        /\ pc' = "done" <=> current_chunk' = num_chunks
        /\ pc' = "walk" => limit' # 0
    BY DEF QueryStart, Inv, WalkInv
  <1>2. 0 \in Chunks /\ -1 \in -1 .. chunk_sz - 1
    BY ChunkAssumption, BitsAreInts DEF Chunks
  <1>3. Result(and, ors, 0) = {e \in Result(and, ors, 0) : -1 < e}
    BY BitsAreInts DEF Result
  <1>4. B = MatchOf(and, ors)
    <2>1. Position(0, -1) = ArrSize + 1
      BY Sizes, ChunkAssumption DEF Position
    <2>2. \A k \in Ids : k < ArrSize + 1
      BY ChunkAssumption DEF Ids
    <2> QED
      BY <2>1, <2>2 DEF Below, MatchOf
  <1>5. /\ current_chunk' \in 0 .. num_chunks /\ en' \subseteq Bits
        /\ Match' = MatchOf(and, ors)
        /\ \/ /\ current_chunk' = num_chunks /\ id' = id /\ B = {}
           \/ /\ current_chunk' # num_chunks /\ id' \in Ids
              /\ \E d \in Chunks, f \in Bits : At(and_src, steps, d, f)'
              /\ id' \in B /\ \A k \in B : k <= id'
    <2> HIDE DEF B
    <2>1. BitsLoaded
      BY DEF Inv
    <2> QED
      BY <1>1, <1>2, <1>3, <2>1, Advances DEF B
  <1> HIDE DEF B
  <1>6. BitsLoaded'
    BY <1>1, UnchangedBits DEF Inv
  <1>7. id' \in 0 .. ArrSize
    <2>1. Ids \subseteq 0 .. ArrSize
      BY ChunkAssumption DEF Ids
    <2> QED
      BY <1>5, <2>1 DEF Inv, TypeOK
  <1>8. TypeOK'
    BY <1>1, <1>5, <1>7 DEF Inv, TypeOK
  <1>9. Match' \subseteq Ids /\ Ids \subseteq Int
    BY <1>5, ChunkAssumption DEF MatchOf, Ids
  <1>10. WalkInv' /\ (pc' = "done" => Match' = {})
    <2>1. CASE current_chunk' = num_chunks
      BY <1>1, <1>4, <1>5, <2>1 DEF WalkInv
    <2>2. CASE current_chunk' # num_chunks
      <3>1. ASSUME NEW k \in Match' PROVE ~ (k > id')
        <4>1. k <= id' /\ k \in Int /\ id' \in Int
          BY <1>4, <1>5, <1>9, <2>2
        <4> QED
          BY <4>1
      <3> QED
        BY <1>1, <1>4, <1>5, <2>2, <3>1 DEF WalkInv
    <2> QED
      BY <2>1, <2>2
  <1> QED
    BY <1>1, <1>6, <1>8, <1>10 DEF Inv

LEMMA WalkStepInv ==
  ASSUME Inv, NEW pass \in BOOLEAN, WalkStep(pass)
  PROVE  Inv' /\ Match' = Match /\ id \in Match \ visited
         /\ \A m \in Match \ visited : m <= id
  <1>1. /\ pc = "walk" /\ visited' = visited \union {id}
        /\ UNCHANGED <<chunk_arr, loaded, and_src, steps>>
        /\ getNextBit(and_src, steps, current_chunk, en)
        /\ pc' \in {"walk", "cut", "done"}
        /\ pc' = "done" <=> current_chunk' = num_chunks
        /\ pc' = "walk" => limit' # 0
    BY DEF WalkStep
  <1>2. PICK c \in Chunks, b \in Bits : At(and_src, steps, c, b)
    BY <1>1 DEF Inv, WalkInv
  <1>3. /\ id \in Match /\ visited = {k \in Match : k > id}
        /\ and_src \in SUBSET Sources /\ steps \in SUBSET Groups
        /\ id \in Int /\ Match \subseteq Int /\ Match \subseteq Ids
    BY <1>1, ChunkAssumption DEF Inv, WalkInv, TypeOK, Match, Ids
  <1> DEFINE B == Below(and_src, steps, c, b)
  <1>4. B = {k \in Match : k < id}
    BY <1>2, MatchIs DEF Below, At
  <1>5. /\ current_chunk' \in 0 .. num_chunks /\ en' \subseteq Bits
        /\ Match' = MatchOf(and_src, steps)
        /\ \/ /\ current_chunk' = num_chunks /\ id' = id /\ B = {}
           \/ /\ current_chunk' # num_chunks /\ id' \in Ids
              /\ \E d \in Chunks, f \in Bits : At(and_src, steps, d, f)'
              /\ id' \in B /\ \A k \in B : k <= id'
    <2>1. /\ current_chunk = c /\ en = {e \in Result(and_src, steps, c) : b < e}
          /\ b \in -1 .. chunk_sz - 1 /\ BitsLoaded
      BY <1>2, BitsAreInts DEF At, Inv
    <2> HIDE DEF B
    <2> QED
      BY <1>1, <1>3, <2>1, Advances DEF B
  <1> HIDE DEF B
  <1>6. Match' = Match
    BY <1>5, MatchIs
  <1>7. limit' \in 0 .. MaxLimit
    <2>1. limit \in 0 .. MaxLimit /\ limit # 0
      BY <1>1 DEF Inv, TypeOK, WalkInv
    <2> QED
      BY <2>1, LimitAssumption DEF WalkStep
  <1>8. TypeOK'
    <2>1. visited' \subseteq Ids
      BY <1>1, <1>3
    <2>2. id' \in 0 .. ArrSize
      BY <1>3, <1>5, ChunkAssumption DEF Ids
    <2> QED
      BY <1>1, <1>3, <1>5, <1>7, <2>1, <2>2 DEF Inv, TypeOK
  <1>9. WalkInv'
    <2>1. CASE current_chunk' = num_chunks
      <3>1. visited' = Match
        <4>1. ASSUME NEW k \in Match PROVE k \in visited'
          <5>1. ~ (k < id) /\ k \in Int
            BY <1>3, <1>4, <1>5, <2>1
          <5> QED
            BY <1>1, <1>3, <5>1
        <4> QED
          BY <1>1, <1>3, <4>1
      <3> QED
        BY <1>1, <1>6, <2>1, <3>1 DEF WalkInv
    <2>2. CASE current_chunk' # num_chunks
      <3>1. id' \in Match /\ id' < id
        BY <1>4, <1>5, <2>2
      <3>2. visited' = {k \in Match : k > id'}
        <4>1. ASSUME NEW k \in Match PROVE k \in visited' <=> k > id'
          BY <1>1, <1>3, <1>4, <1>5, <2>2, <3>1, <4>1
        <4>2. visited' \subseteq Match
          BY <1>1, <1>3
        <4> QED
          BY <4>1, <4>2
      <3> QED
        BY <1>1, <1>5, <1>6, <2>2, <3>1, <3>2 DEF WalkInv
    <2> QED
      BY <2>1, <2>2
  <1>10. id \in Match \ visited /\ \A m \in Match \ visited : m <= id
    BY <1>3
  <1>11. BitsLoaded'
    BY <1>1, UnchangedBits DEF Inv
  <1> QED
    BY <1>6, <1>8, <1>9, <1>10, <1>11 DEF Inv

LEMMA InvStep == Inv /\ [Next]_vars => Inv'
  <1> SUFFICES ASSUME Inv, [Next]_vars PROVE Inv'
    OBVIOUS
  <1>1. ASSUME NEW k \in Ids, NEW S \in SUBSET Sources, Store(k, S) PROVE Inv'
    BY <1>1, StoreInv
  <1>2. CASE FinishLoad
    <2>1. TypeOK'
      BY <1>2 DEF FinishLoad, Inv, TypeOK, aggVars, loopVars
    <2>2. WalkInv'
      BY <1>2 DEF FinishLoad, Inv, WalkInv, loopVars
    <2> QED
      BY <1>2, <2>1, <2>2, UnchangedBits DEF FinishLoad, Inv
  <1>3. ASSUME NEW and \in SUBSET Sources, NEW ors \in SUBSET Groups,
               NEW n \in 0 .. MaxLimit, QueryStart(and, ors, n)
        PROVE  Inv'
    BY <1>3, QueryInv
  <1>4. ASSUME NEW pass \in BOOLEAN, WalkStep(pass) PROVE Inv'
    BY <1>4, WalkStepInv
  <1>5. CASE Reply
    <2>1. TypeOK'
      BY <1>5, ChunkAssumption, LimitAssumption DEF Reply, Inv, TypeOK, aggVars
    <2>2. WalkInv'
      BY <1>5 DEF Reply, WalkInv
    <2> QED
      BY <1>5, <2>1, <2>2, UnchangedBits DEF Reply, Inv
  <1>6. CASE UNCHANGED vars
    <2>1. TypeOK'
      BY <1>6 DEF vars, aggVars, loopVars, Inv, TypeOK
    <2>2. WalkInv'
      BY <1>6 DEF vars, aggVars, loopVars, Inv, WalkInv, At, Result, Match
    <2> QED
      BY <1>6, <2>1, <2>2, UnchangedBits DEF vars, Inv
  <1> QED
    BY <1>1, <1>2, <1>3, <1>4, <1>5, <1>6 DEF Next

(* Types, and with them that every bit the walk reaches is an account of   *)
(* the array.                                                              *)
THEOREM TypeCorrect == Spec => []TypeOK
  BY InvInit, InvStep, PTL DEF Spec, Inv

-----------------------------------------------------------------------------
(* A combined query's steps are those of DescendingWalk, every other step  *)
(* stutters.                                                               *)
LEMMA IdleStutters ==
  ASSUME ~ Querying, ~ Querying', visited' = visited
  PROVE  UNCHANGED Walk!vars
  BY DEF Walk!vars, WalkStatus, WalkTodo, Querying

LEMMA StepMaps == Inv /\ [Next]_vars => [Walk!Next]_Walk!vars
  <1> SUFFICES ASSUME Inv, [Next]_vars PROVE [Walk!Next]_Walk!vars
    OBVIOUS
  <1>1. ASSUME NEW k \in Ids, NEW S \in SUBSET Sources, Store(k, S)
        PROVE  UNCHANGED Walk!vars
    BY <1>1, IdleStutters DEF Store, Querying, loopVars
  <1>2. CASE FinishLoad
    BY <1>2, IdleStutters DEF FinishLoad, Querying, loopVars
  <1>3. ASSUME NEW and \in SUBSET Sources, NEW ors \in SUBSET Groups,
               NEW n \in 0 .. MaxLimit, QueryStart(and, ors, n)
        PROVE  Walk!Start
    <2>1. /\ pc = "serve" /\ pc' \in {"walk", "done", "cut"}
          /\ visited' = {} /\ (pc' = "done" => Match' = {})
      BY <1>3, QueryInv DEF QueryStart
    <2>2. Match' \subseteq Ids
      BY DEF Match
    <2> QED
      BY <2>1, <2>2 DEF Walk!Start, Walk!Goes, WalkStatus, WalkTodo, Querying
  <1>4. ASSUME NEW pass \in BOOLEAN, WalkStep(pass)
        PROVE  Walk!Take
    <2>1. /\ pc = "walk" /\ pc' \in {"walk", "done", "cut"}
          /\ visited' = visited \union {id}
      BY <1>4 DEF WalkStep
    <2>2. /\ Inv' /\ Match' = Match /\ id \in Match \ visited
          /\ \A m \in Match \ visited : m <= id
      BY <1>4, WalkStepInv
    <2>3. /\ WalkStatus = "walk" /\ WalkTodo = Match \ visited
          /\ WalkTodo' = WalkTodo \ {id}
      BY <2>1, <2>2 DEF WalkStatus, WalkTodo, Querying
    <2>4. WalkStatus' \in {"walk", "cut"} \/ (WalkStatus' = "all" /\ WalkTodo' = {})
      BY <2>1, <2>2 DEF WalkStatus, WalkTodo, Querying, Inv, WalkInv
    <2> QED
      BY <2>1, <2>2, <2>3, <2>4 DEF Walk!Take, Walk!Goes
  <1>5. CASE Reply
    <2>1. WalkStatus \in {"all", "cut"} /\ WalkStatus' = "idle" /\ WalkTodo' = {}
      BY <1>5 DEF Reply, WalkStatus, WalkTodo, Querying
    <2> QED
      BY <1>5, <2>1 DEF Reply, Walk!Reply, Walk!Next
  <1>6. CASE UNCHANGED vars
    BY <1>6 DEF vars, aggVars, loopVars, Walk!vars, WalkStatus, WalkTodo, Querying, Match
  <1> QED
    BY <1>1, <1>2, <1>3, <1>4, <1>5, <1>6 DEF Next, Walk!Next

(* A combined query examines exactly its matches, the highest id first:    *)
(* the walk over the chunks implements DescendingWalk for every size of    *)
(* the array, every number of chunks that divides it and all vectors.      *)
THEOREM CombinedWalkImplements == Spec => ImplementsWalk
  <1>1. Init => Walk!Init
    BY DEF Init, Walk!Init, WalkStatus, WalkTodo, Querying
  <1>2. Spec => []Inv
    BY InvInit, InvStep, PTL DEF Spec
  <1> QED
    BY <1>1, <1>2, StepMaps, PTL DEF Spec, ImplementsWalk, Walk!Spec

=============================================================================
