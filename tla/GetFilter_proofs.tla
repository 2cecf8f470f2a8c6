-------------------------- MODULE GetFilter_proofs --------------------------
(***************************************************************************)
(* Proofs about GetFilter: for any accounts, any set of queries, any order *)
(* of posts and index runs.                                                *)
(***************************************************************************)
EXTENDS GetFilter, TLAPS, WellFoundedInduction

HighestOf(S, h) == h \in S /\ \A m \in S : m <= h

(* The chains as the last index made them: over the accounts it saw.       *)
SeenMembers(attr, c) ==
  {k \in 1 .. top : Key(seen[k], attr) = c /\ (attr = "prem_now" => c # 0)}

SeenBelow(attr, k) == {m \in SeenMembers(attr, Key(seen[k], attr)) : m < k}

(* What the vectors have is right; what the last index saw is right but    *)
(* for the accounts stored late, which it saw before they were stored.     *)
Fresh ==
  /\ loaded \subseteq stored /\ loaded \subseteq 1 .. top
  /\ \A k \in loaded : bits[k] = accounts[k]
  /\ \A k \in 0 .. ArrSize : k \notin stored => accounts[k] = DefaultAccount
  /\ \A k \in 1 .. top : seen[k] = accounts[k] \/ (k \in late /\ seen[k] = DefaultAccount)

(* From its head a chain leads to all that the last index saw on it.       *)
Threaded ==
  \A attr \in Linked :
    /\ \A k \in 1 .. top :
         SeenBelow(attr, k) # {} => HighestOf(SeenBelow(attr, k), nxt[attr][k])
    /\ \A c \in Keys(attr) :
         /\ SeenMembers(attr, c) # {} => HighestOf(SeenMembers(attr, c), first[attr][c])
         /\ first[attr][c] <= top

(* As long as nobody was stored late it leads to nobody else; the chain of *)
(* prem_now never does, for nobody leaves it.                              *)
Straight ==
  \A attr \in Linked : late = {} \/ attr = "prem_now" =>
    /\ \A k \in Ids :
         nxt[attr][k] # 0
           => {k, nxt[attr][k]} \subseteq SeenMembers(attr, Key(seen[k], attr))
    /\ \A c \in Keys(attr) : first[attr][c] # 0 => first[attr][c] \in SeenMembers(attr, c)

(* An answer is that of the accounts as they still are.                    *)
Answered ==
  reply = "200" =>
    /\ query \in Queries
    /\ \/ answer = {} /\ \E f \in query : Fruitless(f)
       \/ answer = Answer(query) /\ \A f \in query : ~ Refused(f) /\ ~ Fruitless(f)

Inv == TypeOK /\ Fresh /\ Threaded /\ Straight /\ Answered

-----------------------------------------------------------------------------
(* Sets of ids.                                                            *)
LEMMA HasLowest ==
  ASSUME NEW S \in SUBSET Nat, S # {}
  PROVE  \E l \in S : \A m \in S : l <= m
  <1> DEFINE R == OpToRel(<, Nat)
  <1>1. IsWellFoundedOn(R, Nat)
    BY NatLessThanWellFounded
  <1> HIDE DEF R
  <1>2. PICK l \in S : \A m \in S : ~ (<<m, l>> \in R)
    BY <1>1, WFMin
  <1>3. ASSUME NEW m \in S PROVE l <= m
    <2>1. ~ (<<m, l>> \in R) /\ m \in Nat /\ l \in Nat
      BY <1>2
    <2> QED
      BY <2>1 DEF R, OpToRel
  <1> QED
    BY <1>3

LEMMA MaxIsHighest ==
  ASSUME NEW n \in Nat, NEW S \in SUBSET (1 .. n), S # {}
  PROVE  HighestOf(S, Max(S))
  <1> DEFINE U == {m \in 0 .. n : \A k \in S : k <= m}
  <1>1. n \in U /\ U \in SUBSET Nat
    OBVIOUS
  <1>2. PICK h \in U : \A m \in U : h <= m
    BY <1>1, HasLowest
  <1>3. h \in 0 .. n /\ \A k \in S : k <= h
    BY <1>2
  <1>4. h \in S
    <2> SUFFICES ASSUME h \notin S PROVE FALSE
      OBVIOUS
    <2>1. \A k \in S : k <= h - 1 /\ 1 <= k
      BY <1>3
    <2>2. h - 1 \in 0 .. n
      <3>1. PICK k \in S : k <= h - 1 /\ 1 <= k
        BY <2>1
      <3> QED
        BY <1>3, <3>1
    <2>3. h - 1 \in U
      BY <2>1, <2>2
    <2> QED
      BY <1>2, <1>3, <2>3
  <1>5. \E x \in S : \A y \in S : x >= y
    BY <1>3, <1>4
  <1>6. Max(S) \in S /\ \A y \in S : Max(S) >= y
    BY <1>5 DEF Max
  <1> QED
    BY <1>6 DEF HighestOf

-----------------------------------------------------------------------------
(* The precedence of filters.                                              *)
LEMMA KindsOfFilters ==
  ASSUME NEW f, Kind(f) \in Kinds
  PROVE  /\ f.pred \in {"eq", "neq", "null0", "null1", "contains", "any", "lt", "gt", "starts"}
         /\ f.pred = "eq" =>
              f.attr \in {"sname", "city", "fname", "phone_code", "country", "birth_year",
                          "email_domain", "status", "sex", "prem_now"}
         /\ f.pred = "contains" => f.attr \in {"interests", "likes"}
         /\ f.pred = "any" => f.attr \in {"city", "fname", "interests"}
         /\ f.pred = "starts" => f.attr = "sname"
  BY DEF Kind, Kinds, precedence

LEMMA RanksAreNumbers == \A c \in Kinds : Rank[c] \in Nat
  <1> SUFFICES ASSUME NEW c \in Kinds PROVE Rank[c] \in Nat
    OBVIOUS
  <1>1. DOMAIN precedence \subseteq Nat
    BY DEF precedence
  <1>2. \E n \in DOMAIN precedence : precedence[n] = c
    BY DEF Kinds
  <1> HIDE DEF precedence
  <1>3. Rank[c] = CHOOSE n \in DOMAIN precedence : precedence[n] = c
    BY DEF Rank
  <1> QED
    BY <1>1, <1>2, <1>3

(* At most one filter heads the walk of a query.                           *)
LEMMA OneHead ==
  ASSUME NEW q \in Queries, NEW f \in q, NEW g \in q, HeadsWalk(q, f), HeadsWalk(q, g)
  PROVE  f = g
  <1> SUFFICES ASSUME f # g PROVE FALSE
    OBVIOUS
  <1>1. Before(f, g) /\ Before(g, f)
    BY DEF HeadsWalk, LastToCheck
  <1>2. Kind(f) \in Kinds /\ Kind(g) \in Kinds
    BY QueryAssumption
  <1>3. Rank[Kind(f)] \in Nat /\ Rank[Kind(g)] \in Nat
    BY <1>2, RanksAreNumbers
  <1> QED
    BY <1>1, <1>3 DEF Before

(* What kinds of filter head a walk, and along which chains.               *)
LEMMA KindsOfHeads ==
  ASSUME NEW f, Kind(f) \in Chained
  PROVE  IF OnNonEmpty(f)
         THEN f.attr \in {"country", "city", "fname", "sname", "phone_code"}
         ELSE /\ f.attr \in Linked
              /\ f.attr = "prem_start" => f.pred \in {"null0", "null1"}
              /\ f.attr # "prem_start" => f.pred \in {"eq", "starts", "null1"}
  BY DEF Kind, Chained, OnNonEmpty, Linked

-----------------------------------------------------------------------------
(* Records.                                                                *)
LEMMA CodesAreKnown ==
  ASSUME NEW a \in Records
  PROVE  /\ \A attr \in {"sname", "city", "fname", "phone_code", "country", "birth_year",
                         "email_domain", "status", "sex", "prem_now"} : a[attr] # UNKNOWN
         /\ UNKNOWN \notin a.interests
  <1>1. CASE a \in Accounts
    BY <1>1, AccountAssumption DEF UNKNOWN
  <1>2. CASE \E b \in Accounts : a = Stored(b)
    BY <1>2, AccountAssumption DEF UNKNOWN, Stored
  <1>3. CASE a = DefaultAccount
    BY <1>3 DEF UNKNOWN, DefaultAccount, EMPTY
  <1> QED
    BY <1>1, <1>2, <1>3 DEF Records

(* A query with a name nobody has, and that the code answers as the        *)
(* reference would, holds for nobody.                                      *)
LEMMA FruitlessHoldsForNone ==
  ASSUME NEW q \in Queries, NEW f \in q, Fruitless(f), ~ Deviates(q), NEW a \in Records
  PROVE  ~ Holds(f, a)
  <1>1. /\ Kind(f) \in Kinds
        /\ UNKNOWN \in f.arg =>
             f.pred \in {"any", "contains"} \/ (f.pred = "eq" /\ f.arg = {UNKNOWN})
    BY QueryAssumption
  <1>2. f.attr # "likes" /\ (f.pred = "any" => UNKNOWN \notin f.arg)
    BY DEF Deviates
  <1>3. CASE Kind(f) = <<"city", "any">>
    <2>1. f.arg = {}
      BY <1>2, <1>3 DEF Fruitless, Kind
    <2> QED
      BY <1>3, <2>1 DEF Holds, Kind
  <1>4. CASE Kind(f) # <<"city", "any">>
    <2>1. UNKNOWN \in f.arg
      BY <1>4 DEF Fruitless
    <2>2. CASE f.pred = "eq" /\ f.arg = {UNKNOWN}
      BY <1>1, <2>2, KindsOfFilters, CodesAreKnown DEF Holds
    <2>3. CASE f.pred = "contains"
      BY <1>1, <1>2, <2>1, <2>3, KindsOfFilters, CodesAreKnown DEF Holds
    <2> QED
      BY <1>1, <1>2, <2>1, <2>2, <2>3
  <1> QED
    BY <1>3, <1>4

-----------------------------------------------------------------------------
(* What each way to walk comes to.                                         *)

(* What is still checked is checked as the reference does.                 *)
LEMMA ChecksAreThose ==
  ASSUME NEW q \in Queries, ~ Deviates(q), NEW f \in filters2check(q), NEW a
  PROVE  Passes(f, a) = Holds(f, a)
  <1>1. f \in q /\ Kind(f) \notin Combined /\ Kind(f) \in Kinds
    BY QueryAssumption DEF filters2check, combined2check
  <1>2. f.attr # "likes"
    BY <1>1 DEF Deviates
  <1>3. f.pred # "contains"
    BY <1>1, <1>2, KindsOfFilters DEF Combined, Kind
  <1> QED
    BY <1>3 DEF Passes

(* Over which records each key is that of a chain.                         *)
LEMMA KeysOfRecords ==
  ASSUME NEW a \in Records, NEW attr \in Linked
  PROVE  Key(a, attr) \in Keys(attr)
  <1>1. CASE a \in Accounts \union {DefaultAccount}
    BY <1>1 DEF Keys
  <1>2. CASE \E b \in Accounts : a = Stored(b)
    <2>1. PICK b \in Accounts : a = Stored(b)
      BY <1>2
    <2>2. Key(a, attr) = Key(b, attr)
      BY <2>1, AccountAssumption DEF Key, Stored, Linked
    <2> QED
      BY <2>2 DEF Keys
  <1> QED
    BY <1>1, <1>2 DEF Records

LEMMA DefaultKeys ==
  /\ Key(DefaultAccount, "prem_now") = 0
  /\ \A attr \in {"country", "city", "fname", "sname", "phone_code"} : DefaultAccount[attr] = EMPTY
  BY DEF Key, DefaultAccount, EMPTY

(* Along a value chain the filter that heads the walk holds for the keys   *)
(* it asks for, but for phone_null=1.                                      *)
LEMMA AskedHolds ==
  ASSUME NEW q \in Queries, NEW f \in q, Kind(f) \in Chained, ~ OnNonEmpty(f),
         Kind(f) # <<"phone_code", "null1">>, NEW a
  PROVE  Holds(f, a) <=> Key(a, f.attr) \in Asked(f)
  <1>1. CASE f.attr = "prem_start"
    <2>1. f.pred \in {"null0", "null1"}
      BY <1>1, KindsOfHeads
    <2>2. Key(a, f.attr) = IF a[f.attr] = EMPTY THEN NULL1 ELSE NULL0
      BY <1>1 DEF Key
    <2>3. CASE f.pred = "null0"
      <3>1. Asked(f) = {NULL0} /\ (Holds(f, a) <=> a[f.attr] # EMPTY)
        BY <1>1, <2>3 DEF Asked, Holds
      <3> QED
        BY <2>2, <3>1 DEF NULL0, NULL1
    <2>4. CASE f.pred = "null1"
      <3>1. Asked(f) = {NULL1} /\ (Holds(f, a) <=> a[f.attr] = EMPTY)
        BY <1>1, <2>4 DEF Asked, Holds
      <3> QED
        BY <2>2, <3>1 DEF NULL0, NULL1
    <2> QED
      BY <2>1, <2>3, <2>4
  <1>2. CASE f.attr # "prem_start" /\ f.pred \in {"eq", "starts"}
    BY <1>2 DEF Holds, Key, Asked
  <1>3. CASE f.attr # "prem_start" /\ f.pred = "null1"
    BY <1>3 DEF Holds, Key, Asked
  <1> QED
    BY <1>1, <1>2, <1>3, KindsOfHeads

-----------------------------------------------------------------------------
(* What the links lead to.                                                 *)
LEMMA ReachesAll ==
  ASSUME TypeOK, Threaded, NEW attr \in Linked, NEW c \in Keys(attr), NEW heads,
         first[attr][c] # 0 => first[attr][c] \in heads,
         NEW k \in SeenMembers(attr, c)
  PROVE  k \in Reached(nxt[attr], heads)
  <1>1. k \in Ids /\ k \in 1 .. top /\ 1 .. top \subseteq Ids
    BY SizeAssumption DEF SeenMembers, TypeOK, Ids
  <1>2. HighestOf(SeenMembers(attr, c), first[attr][c])
    BY DEF Threaded
  <1> SUFFICES ASSUME NEW S \in SUBSET Ids, heads \subseteq S,
                      \A m \in S : nxt[attr][m] # 0 => nxt[attr][m] \in S,
                      k \notin S
               PROVE  FALSE
    BY <1>1 DEF Reached
  <1> DEFINE T == {m \in SeenMembers(attr, c) : m \in S /\ k < m}
  <1>3. SeenMembers(attr, c) \subseteq 1 .. top /\ 1 .. top \subseteq Nat
    BY DEF SeenMembers
  <1>4. first[attr][c] \in T
    <2>1. first[attr][c] \in SeenMembers(attr, c) /\ k <= first[attr][c]
      BY <1>2 DEF HighestOf
    <2>2. first[attr][c] \in S
      BY <2>1, <1>3
    <2> QED
      BY <2>1, <2>2, <1>1, <1>3
  <1>5. PICK l \in T : \A m \in T : l <= m
    BY <1>3, <1>4, HasLowest
  <1>6. /\ l \in SeenMembers(attr, c) /\ l \in S /\ k < l /\ l \in 1 .. top
        /\ Key(seen[l], attr) = c
    BY <1>5 DEF SeenMembers
  <1>7. k \in SeenBelow(attr, l)
    BY <1>6 DEF SeenBelow
  <1>8. nxt[attr][l] \in SeenBelow(attr, l) /\ k <= nxt[attr][l]
    BY <1>6, <1>7 DEF Threaded, HighestOf
  <1>9. nxt[attr][l] \in SeenMembers(attr, c) /\ nxt[attr][l] < l
    BY <1>6, <1>8 DEF SeenBelow
  <1>10. nxt[attr][l] \in S
    BY <1>6, <1>9, <1>3
  <1>11. nxt[attr][l] \in T
    BY <1>8, <1>9, <1>10, <1>1, <1>3
  <1> QED
    BY <1>3, <1>5, <1>6, <1>9, <1>11

LEMMA ReachesOnly ==
  ASSUME TypeOK, Straight, NEW attr \in Linked, late = {} \/ attr = "prem_now",
         NEW C \in SUBSET Keys(attr), NEW k \in Reached(nxt[attr], {first[attr][c] : c \in C} \ {0})
  PROVE  \E c \in C : k \in SeenMembers(attr, c)
  <1> DEFINE S == {m \in 1 .. top : \E c \in C : m \in SeenMembers(attr, c)}
  <1>1. S \in SUBSET Ids
    BY SizeAssumption DEF TypeOK, Ids
  <1>2. {first[attr][c] : c \in C} \ {0} \subseteq S
    <2> SUFFICES ASSUME NEW c \in C, first[attr][c] # 0 PROVE first[attr][c] \in S
      OBVIOUS
    <2>1. first[attr][c] \in SeenMembers(attr, c)
      BY DEF Straight
    <2> QED
      BY <2>1 DEF SeenMembers
  <1>3. ASSUME NEW m \in S, nxt[attr][m] # 0 PROVE nxt[attr][m] \in S
    <2>1. PICK c \in C : m \in SeenMembers(attr, c)
      OBVIOUS
    <2>2. Key(seen[m], attr) = c
      BY <2>1 DEF SeenMembers
    <2>3. nxt[attr][m] \in SeenMembers(attr, c)
      BY <1>1, <1>3, <2>2 DEF Straight
    <2> QED
      BY <2>3 DEF SeenMembers
  <1> HIDE DEF S
  <1>4. k \in S
    BY <1>1, <1>2, <1>3 DEF Reached
  <1> QED
    BY <1>4 DEF S

LEMMA ReachesIds ==
  ASSUME TypeOK, NEW attr \in Linked, NEW heads \in SUBSET (1 .. max_id)
  PROVE  Reached(nxt[attr], heads) \subseteq 1 .. max_id
  <1>1. 1 .. max_id \in SUBSET Ids
    BY SizeAssumption DEF TypeOK, Ids
  <1>2. ASSUME NEW m \in 1 .. max_id, nxt[attr][m] # 0 PROVE nxt[attr][m] \in 1 .. max_id
    <2>1. nxt[attr][m] \in 0 .. ArrSize /\ nxt[attr][m] < m
      BY <1>1 DEF TypeOK
    <2>2. max_id \in Nat /\ ArrSize \in Nat
      BY SizeAssumption DEF TypeOK, Ids
    <2> QED
      BY <1>2, <2>1, <2>2
  <1> QED
    BY <1>1, <1>2 DEF Reached

-----------------------------------------------------------------------------
(* What a makeIndex threads.                                               *)
LEMMA MembersOfIndex ==
  ASSUME accounts \in [0 .. ArrSize -> Records], max_id \in Ids, NEW attr \in Linked
  PROVE  /\ \A c : /\ Members(attr, c) \subseteq 1 .. max_id
                   /\ Members(attr, c) # {} => HighestOf(Members(attr, c), Max(Members(attr, c)))
         /\ \A k : /\ Below(attr, k) \subseteq 1 .. max_id
                   /\ Below(attr, k) # {} => HighestOf(Below(attr, k), Max(Below(attr, k)))
  <1>1. max_id \in Nat
    BY SizeAssumption DEF Ids
  <1>2. \A c : Members(attr, c) \subseteq 1 .. max_id
    BY DEF Members
  <1>3. \A k : Below(attr, k) \subseteq 1 .. max_id
    BY <1>2 DEF Below
  <1> QED
    BY <1>1, <1>2, <1>3, MaxIsHighest

LEMMA LinksOfIndex ==
  ASSUME accounts \in [0 .. ArrSize -> Records], max_id \in Ids,
         NEW links \in [Linked -> [Ids -> 0 .. ArrSize]],
         \A attr \in Linked : \A k \in Ids : links[attr][k] < k
  PROVE  /\ Relinked(links) \in [Linked -> [Ids -> 0 .. ArrSize]]
         /\ \A attr \in Linked : \A k \in Ids :
              /\ Relinked(links)[attr][k] < k
              /\ IF k <= max_id /\ Below(attr, k) # {}
                 THEN HighestOf(Below(attr, k), Relinked(links)[attr][k])
                 ELSE Relinked(links)[attr][k] = links[attr][k]
  <1>1. ASSUME NEW attr \in Linked, NEW k \in Ids
        PROVE  /\ Relinked(links)[attr][k] \in 0 .. ArrSize
               /\ Relinked(links)[attr][k] < k
               /\ IF k <= max_id /\ Below(attr, k) # {}
                  THEN HighestOf(Below(attr, k), Relinked(links)[attr][k])
                  ELSE Relinked(links)[attr][k] = links[attr][k]
    <2>1. Relinked(links)[attr][k]
            = IF k <= max_id /\ Below(attr, k) # {} THEN Max(Below(attr, k)) ELSE links[attr][k]
      BY DEF Relinked
    <2>2. CASE k <= max_id /\ Below(attr, k) # {}
      <3>1. HighestOf(Below(attr, k), Relinked(links)[attr][k]) /\ Below(attr, k) \subseteq 1 .. max_id
        BY <2>1, <2>2, MembersOfIndex
      <3>2. Relinked(links)[attr][k] \in 1 .. max_id /\ Relinked(links)[attr][k] < k
        BY <3>1 DEF HighestOf, Below
      <3>3. 1 .. max_id \subseteq 0 .. ArrSize
        BY SizeAssumption DEF Ids
      <3> QED
        BY <2>2, <3>1, <3>2, <3>3
    <2>3. CASE ~ (k <= max_id /\ Below(attr, k) # {})
      <3>1. Relinked(links)[attr][k] = links[attr][k]
        BY <2>1, <2>3
      <3> QED
        BY <2>3, <3>1
    <2> QED
      BY <2>2, <2>3
  <1>2. Relinked(links) \in [Linked -> [Ids -> 0 .. ArrSize]]
    <2>1. \A attr \in Linked : Relinked(links)[attr] \in [Ids -> 0 .. ArrSize]
      <3> SUFFICES ASSUME NEW attr \in Linked
                   PROVE  Relinked(links)[attr] \in [Ids -> 0 .. ArrSize]
        OBVIOUS
      <3>1. Relinked(links)[attr]
              = [k \in Ids |-> IF k <= max_id /\ Below(attr, k) # {}
                                THEN Max(Below(attr, k)) ELSE links[attr][k]]
        BY DEF Relinked
      <3> QED
        BY <1>1, <3>1
    <2>2. Relinked(links) = [attr \in Linked |-> Relinked(links)[attr]]
      BY DEF Relinked
    <2> QED
      BY <2>1, <2>2
  <1> QED
    BY <1>1, <1>2

LEMMA HeadsOfIndex ==
  ASSUME accounts \in [0 .. ArrSize -> Records], max_id \in Ids, NEW heads,
         NEW attr \in Linked, heads[attr] \in [Keys(attr) -> 0 .. ArrSize]
  PROVE  /\ Reheaded(heads)[attr] \in [Keys(attr) -> 0 .. ArrSize]
         /\ \A c \in Keys(attr) :
              IF Members(attr, c) # {}
              THEN HighestOf(Members(attr, c), Reheaded(heads)[attr][c])
              ELSE Reheaded(heads)[attr][c] = heads[attr][c]
  <1>1. Reheaded(heads)[attr]
          = [c \in Keys(attr) |->
               IF Members(attr, c) # {} THEN Max(Members(attr, c)) ELSE heads[attr][c]]
    BY DEF Reheaded
  <1>2. ASSUME NEW c \in Keys(attr)
        PROVE  /\ IF Members(attr, c) # {}
                  THEN HighestOf(Members(attr, c), Reheaded(heads)[attr][c])
                  ELSE Reheaded(heads)[attr][c] = heads[attr][c]
               /\ Reheaded(heads)[attr][c] \in 0 .. ArrSize
    <2>1. CASE Members(attr, c) # {}
      <3>1. /\ HighestOf(Members(attr, c), Reheaded(heads)[attr][c])
            /\ Members(attr, c) \subseteq 1 .. max_id
        BY <1>1, <2>1, MembersOfIndex
      <3>2. 1 .. max_id \subseteq 0 .. ArrSize
        BY SizeAssumption DEF Ids
      <3> QED
        BY <2>1, <3>1, <3>2 DEF HighestOf
    <2>2. CASE Members(attr, c) = {}
      BY <1>1, <2>2
    <2> QED
      BY <2>1, <2>2
  <1> QED
    BY <1>1, <1>2

-----------------------------------------------------------------------------
(* What each way to walk comes to.                                         *)

(* The answer that a query would have now is what AnswerExact says.        *)
Exact(q) ==
  /\ {k \in Known(q) : Matches(q, k)} \ Stray(q) \subseteq Answer(q)
  /\ \A k \in Answer(q) \ Stray(q) :
       /\ Matches(q \ Crossed(q), k)
       /\ Crossed(q) = {} => k \in Known(q)

(* Vectors are combined.                                                   *)
LEMMA CombinedExact ==
  ASSUME TypeOK, Fresh, NEW q \in Queries, ~ Deviates(q), combined2check(q) # {}
  PROVE  Exact(q)
  <1>1. /\ \A f : ~ HeadsWalk(q, f)
        /\ ~ Scans(q)
    BY DEF HeadsWalk, Scans
  <1>2. Residual(q) = filters2check(q) /\ Crossed(q) = {}
    BY <1>1 DEF Residual, Crossed
  <1>3. loaded \subseteq 0 .. max_id /\ loaded \subseteq 0 .. ArrSize
    BY SizeAssumption DEF TypeOK, Ids
  <1>4. Candidates(q) = {k \in loaded : \A f \in combined2check(q) : Holds(f, bits[k])}
    BY <1>1, <1>3 DEF Candidates
  <1>5. Known(q) = loaded
    BY <1>1, <1>3 DEF Known
  <1>6. ASSUME NEW k \in loaded
        PROVE  k \in Answer(q) <=> Matches(q, k)
    <2>1. bits[k] = accounts[k]
      BY DEF Fresh
    <2>2. \A f \in filters2check(q) : Passes(f, accounts[k]) = Holds(f, accounts[k])
      BY ChecksAreThose
    <2>3. q = combined2check(q) \union filters2check(q)
      BY DEF combined2check, filters2check
    <2> HIDE DEF combined2check, filters2check
    <2> QED
      BY <1>2, <1>4, <2>1, <2>2, <2>3 DEF Answer, Matches
  <1>7. Answer(q) \subseteq loaded
    BY <1>4 DEF Answer
  <1> QED
    BY <1>2, <1>5, <1>6, <1>7 DEF Exact, Matches

(* All accounts are scanned.                                               *)
LEMMA ScanExact ==
  ASSUME TypeOK, NEW q \in Queries, ~ Deviates(q), Scans(q)
  PROVE  Exact(q)
  <1>1. combined2check(q) = {} /\ \A f \in q : ~ HeadsWalk(q, f)
    BY DEF Scans
  <1>2. filters2check(q) = q /\ Crossed(q) = {}
    BY <1>1 DEF filters2check, Crossed
  <1>3. Residual(q) = q
    BY <1>1, <1>2 DEF Residual
  <1>4. Candidates(q) = 0 .. max_id
    BY <1>1, SizeAssumption DEF Candidates, TypeOK, Ids
  <1>5. Known(q) = 0 .. max_id
    BY DEF Known
  <1>6. \A f \in q : \A k : Passes(f, accounts[k]) = Holds(f, accounts[k])
    BY <1>2, ChecksAreThose
  <1> QED
    BY <1>2, <1>3, <1>4, <1>5, <1>6 DEF Answer, Matches, Exact

(* One filter heads the walk along a chain.                                *)
LEMMA ChainOfIds ==
  ASSUME TypeOK, Threaded, NEW q \in Queries, NEW f \in q, HeadsWalk(q, f)
  PROVE  Chain(f) \subseteq 1 .. max_id
  <1>1. 1 .. top \subseteq 1 .. max_id /\ 1 \in 1 .. max_id
    BY SizeAssumption DEF TypeOK, Ids
  <1>2. CASE OnNonEmpty(f)
    BY <1>1, <1>2 DEF Chain, NonEmpty
  <1>3. CASE ~ OnNonEmpty(f)
    <2>1. f.attr \in Linked
      BY <1>3, KindsOfHeads DEF HeadsWalk
    <2>2. \A c \in Keys(f.attr) : first[f.attr][c] # 0 => first[f.attr][c] \in 1 .. max_id
      <3>1. \A c \in Keys(f.attr) : first[f.attr][c] \in 0 .. ArrSize /\ first[f.attr][c] <= top
        BY <2>1 DEF TypeOK, Threaded
      <3>2. top \in Nat /\ max_id \in Nat /\ top <= max_id /\ ArrSize \in Nat
        BY SizeAssumption DEF TypeOK, Ids
      <3> QED
        BY <3>1, <3>2
    <2>3. \A k \in Ids : HeadOf("phone_code", k) => k \in 1 .. max_id
      BY <1>1 DEF HeadOf, NonEmpty
    <2>4. Heads(f) \in SUBSET (1 .. max_id)
      BY <2>2, <2>3 DEF Heads
    <2> QED
      BY <1>3, <2>1, <2>4, ReachesIds DEF Chain
  <1> QED
    BY <1>2, <1>3

LEMMA ChainHasThose ==
  ASSUME TypeOK, Threaded, NEW q \in Queries, ~ Deviates(q), NEW f \in q, HeadsWalk(q, f),
         NEW k \in 1 .. top, seen[k] = accounts[k], Holds(f, accounts[k])
  PROVE  k \in Chain(f)
  <1>1. Kind(f) \in Chained /\ Kind(f) # <<"phone_code", "null1">>
    BY DEF HeadsWalk, Deviates, Kind
  <1>2. CASE OnNonEmpty(f)
    <2>1. accounts[k][f.attr] # EMPTY
      BY <1>2 DEF OnNonEmpty, Holds
    <2> QED
      BY <1>2, <2>1 DEF Chain, NonEmpty
  <1>3. CASE ~ OnNonEmpty(f)
    <2> DEFINE c == Key(accounts[k], f.attr)
    <2>1. f.attr \in Linked
      BY <1>1, <1>3, KindsOfHeads
    <2>2. c \in Asked(f)
      BY <1>1, <1>3, AskedHolds
    <2>3. accounts[k] \in Records
      BY SizeAssumption DEF TypeOK, Ids
    <2>4. c \in Keys(f.attr)
      BY <2>1, <2>3, KeysOfRecords
    <2>5. f.attr = "prem_now" => c # 0
      <3> SUFFICES ASSUME f.attr = "prem_now" PROVE c # 0
        OBVIOUS
      <3>1. f.arg = {1}
        BY QueryAssumption
      <3>2. f.pred = "eq"
        BY <1>1 DEF Kind, Chained
      <3> QED
        BY <2>2, <3>1, <3>2 DEF Asked
    <2>6. k \in SeenMembers(f.attr, c)
      BY <2>5 DEF SeenMembers
    <2>7. first[f.attr][c] # 0 => first[f.attr][c] \in Heads(f)
      BY <1>1, <2>2, <2>4 DEF Heads
    <2> HIDE DEF c
    <2>8. k \in Reached(nxt[f.attr], Heads(f))
      BY <2>1, <2>4, <2>6, <2>7, ReachesAll
    <2> QED
      BY <1>3, <2>8 DEF Chain
  <1> QED
    BY <1>2, <1>3

LEMMA ChainHasNoOther ==
  ASSUME TypeOK, Fresh, Straight, NEW q \in Queries, ~ Deviates(q), NEW f \in q, HeadsWalk(q, f),
         Crossed(q) = {}, NEW k \in Chain(f) \ Stray(q)
  PROVE  k \in 1 .. top /\ seen[k] = accounts[k] /\ Holds(f, accounts[k])
  <1>1. Kind(f) \in Chained /\ Kind(f) # <<"phone_code", "null1">>
    BY DEF HeadsWalk, Deviates, Kind
  <1>2. CASE OnNonEmpty(f)
    <2>1. k \in 1 .. top /\ seen[k][f.attr] # EMPTY
      <3>1. Stray(q) = {1}
        BY <1>2 DEF Stray
      <3> QED
        BY <1>2, <3>1 DEF Chain, NonEmpty
    <2>2. seen[k] # DefaultAccount
      BY <1>1, <1>2, <2>1, KindsOfHeads, DefaultKeys
    <2>3. seen[k] = accounts[k]
      BY <2>1, <2>2 DEF Fresh
    <2> QED
      BY <1>2, <2>1, <2>3 DEF Holds, OnNonEmpty
  <1>3. CASE ~ OnNonEmpty(f)
    <2>1. f.attr \in Linked /\ (late = {} \/ f.attr = "prem_now")
      BY <1>1, <1>3, KindsOfHeads DEF Crossed
    <2> DEFINE C == Asked(f) \cap Keys(f.attr)
    <2>2. C \in SUBSET Keys(f.attr)
      OBVIOUS
    <2>3. k \in Reached(nxt[f.attr], {first[f.attr][c] : c \in C} \ {0})
      BY <1>1, <1>3 DEF Chain, Heads
    <2> HIDE DEF C
    <2>4. PICK c \in C : k \in SeenMembers(f.attr, c)
      BY <2>1, <2>2, <2>3, ReachesOnly
    <2>5. k \in 1 .. top /\ Key(seen[k], f.attr) = c /\ (f.attr = "prem_now" => c # 0)
      BY <2>4 DEF SeenMembers
    <2>6. seen[k] = accounts[k]
      <3>1. CASE late = {}
        BY <2>5, <3>1 DEF Fresh
      <3>2. CASE f.attr = "prem_now"
        <4>1. seen[k] # DefaultAccount
          BY <2>5, <3>2, DefaultKeys
        <4> QED
          BY <2>5, <4>1 DEF Fresh
      <3> QED
        BY <2>1, <3>1, <3>2
    <2>7. Key(accounts[k], f.attr) \in Asked(f)
      BY <2>4, <2>5, <2>6 DEF C
    <2>8. Holds(f, accounts[k])
      BY <1>1, <1>3, <2>7, AskedHolds
    <2> QED
      BY <2>5, <2>6, <2>8
  <1> QED
    BY <1>2, <1>3

LEMMA ChainExact ==
  ASSUME TypeOK, Fresh, Threaded, Straight, NEW q \in Queries, ~ Deviates(q),
         NEW f \in q, HeadsWalk(q, f)
  PROVE  Exact(q)
  <1>1. combined2check(q) = {} /\ ~ Scans(q) /\ filters2check(q) = q
    BY DEF HeadsWalk, Scans, filters2check
  <1>2. \A g \in q : HeadsWalk(q, g) <=> g = f
    BY OneHead
  <1>3. Residual(q) = q \ {f} /\ Crossed(q) \subseteq {f}
    BY <1>1, <1>2 DEF Residual, Crossed
  <1>4. Chain(f) \subseteq 1 .. max_id /\ Chain(f) \subseteq 0 .. ArrSize
    BY ChainOfIds, SizeAssumption DEF TypeOK, Ids
  <1>5. Candidates(q) = Chain(f)
    BY <1>1, <1>2, <1>4 DEF Candidates
  <1>6. Known(q) = {k \in 1 .. top : seen[k] = accounts[k]}
    BY <1>1, SizeAssumption DEF Known, TypeOK, Ids
  <1>7. \A g \in q : \A k : Passes(g, accounts[k]) = Holds(g, accounts[k])
    BY <1>1, ChecksAreThose
  <1>8. ASSUME NEW k \in Known(q), Matches(q, k) PROVE k \in Answer(q)
    <2>1. k \in Chain(f)
      BY <1>6, <1>8, ChainHasThose DEF Matches
    <2> QED
      BY <1>3, <1>5, <1>7, <1>8, <2>1 DEF Answer, Matches
  <1>9. ASSUME NEW k \in Answer(q) \ Stray(q)
        PROVE  Matches(q \ Crossed(q), k) /\ (Crossed(q) = {} => k \in Known(q))
    <2>1. k \in Chain(f) \ Stray(q)
      BY <1>5 DEF Answer
    <2>2. \A g \in q \ {f} : Holds(g, accounts[k])
      BY <1>3, <1>7 DEF Answer
    <2>3. CASE Crossed(q) = {}
      <3>1. k \in Known(q) /\ Holds(f, accounts[k])
        BY <1>6, <2>1, <2>3, ChainHasNoOther
      <3> QED
        BY <2>2, <3>1 DEF Matches
    <2>4. CASE Crossed(q) = {f}
      BY <2>2, <2>4 DEF Matches
    <2> QED
      BY <1>3, <2>3, <2>4
  <1> QED
    BY <1>8, <1>9 DEF Exact

LEMMA WalkExact ==
  ASSUME TypeOK, Fresh, Threaded, Straight, NEW q \in Queries, ~ Deviates(q)
  PROVE  Exact(q)
  <1>1. CASE combined2check(q) # {}
    BY <1>1, CombinedExact
  <1>2. CASE Scans(q)
    BY <1>2, ScanExact
  <1>3. CASE \E f \in q : HeadsWalk(q, f)
    BY <1>3, ChainExact
  <1> QED
    BY <1>1, <1>2, <1>3 DEF Scans

-----------------------------------------------------------------------------
(* Answers stay within the ids that are stored, or 0.                      *)
LEMMA AnswerIsOfIds ==
  ASSUME TypeOK, Threaded, NEW q \in Queries
  PROVE  Answer(q) \subseteq 0 .. max_id
  <1>1. 1 .. max_id \subseteq 0 .. max_id /\ loaded \subseteq 0 .. max_id
    BY DEF TypeOK
  <1>2. \A f \in q : HeadsWalk(q, f) => Chain(f) \subseteq 1 .. max_id
    BY ChainOfIds
  <1>3. Candidates(q) \subseteq 0 .. max_id
    BY <1>1, <1>2 DEF Candidates, TypeOK, Ids
  <1> QED
    BY <1>3 DEF Answer

(* The answers of any query depend on what only POST and makeIndex change. *)
LEMMA AnswerStays ==
  ASSUME UNCHANGED <<storeVars, bitVars, indexVars>>, NEW q
  PROVE  Answer(q)' = Answer(q)
  <1>1. /\ accounts' = accounts /\ max_id' = max_id /\ bits' = bits /\ loaded' = loaded
        /\ nxt' = nxt /\ first' = first /\ seen' = seen /\ top' = top
    BY DEF storeVars, bitVars, indexVars
  <1>2. \A f : Chain(f)' = Chain(f)
    BY <1>1 DEF Chain, NonEmpty, Heads, HeadOf
  <1>3. Candidates(q)' = Candidates(q)
    BY <1>1, <1>2 DEF Candidates
  <1> QED
    BY <1>1, <1>3 DEF Answer

(* The chains are the ones of the accounts that the last index saw.        *)
LEMMA ChainsStay ==
  ASSUME Threaded, Straight, UNCHANGED indexVars, late' = {} => late = {}
  PROVE  Threaded' /\ Straight'
  <1>1. nxt' = nxt /\ first' = first /\ seen' = seen /\ top' = top
    BY DEF indexVars
  <1>2. /\ \A attr, c : SeenMembers(attr, c)' = SeenMembers(attr, c)
        /\ \A attr, k : SeenBelow(attr, k)' = SeenBelow(attr, k)
    BY <1>1 DEF SeenMembers, SeenBelow
  <1>3. Threaded'
    BY <1>1, <1>2 DEF Threaded
  <1>4. Straight'
    BY <1>1, <1>2 DEF Straight
  <1> QED
    BY <1>3, <1>4

-----------------------------------------------------------------------------
LEMMA InvInit == Init => Inv
  <1> SUFFICES ASSUME Init PROVE Inv
    OBVIOUS
  <1> DEFINE links == [attr \in Linked |-> [k \in Ids |-> 0]]
             heads == [attr \in Linked |-> [c \in Keys(attr) |-> 0]]
  <1>1. /\ max_id \in Ids /\ max_id \in Nat /\ top = max_id /\ seen = accounts
        /\ \A k \in loaded : k \in 1 .. max_id
        /\ accounts \in [0 .. ArrSize -> Accounts \union {DefaultAccount}]
    BY SizeAssumption DEF Init, Ids
  <1>2. accounts \in [0 .. ArrSize -> Records]
    BY <1>1 DEF Records
  <1>3. /\ links \in [Linked -> [Ids -> 0 .. ArrSize]]
        /\ \A attr \in Linked : \A k \in Ids : links[attr][k] = 0 /\ links[attr][k] < k
        /\ \A attr \in Linked : heads[attr] \in [Keys(attr) -> 0 .. ArrSize]
        /\ \A attr \in Linked : \A c \in Keys(attr) : heads[attr][c] = 0
    BY SizeAssumption DEF Ids
  <1>4. nxt = Relinked(links) /\ first = Reheaded(heads)
    BY DEF Init
  <1> HIDE DEF links, heads
  <1>5. /\ nxt \in [Linked -> [Ids -> 0 .. ArrSize]]
        /\ \A attr \in Linked : \A k \in Ids :
             /\ nxt[attr][k] < k
             /\ IF k <= max_id /\ Below(attr, k) # {} THEN HighestOf(Below(attr, k), nxt[attr][k])
                ELSE nxt[attr][k] = 0
    <2>1. /\ Relinked(links) \in [Linked -> [Ids -> 0 .. ArrSize]]
          /\ \A attr \in Linked : \A k \in Ids :
               /\ Relinked(links)[attr][k] < k
               /\ IF k <= max_id /\ Below(attr, k) # {}
                  THEN HighestOf(Below(attr, k), Relinked(links)[attr][k])
                  ELSE Relinked(links)[attr][k] = links[attr][k]
      BY <1>1, <1>2, <1>3, LinksOfIndex
    <2> QED
      BY <1>3, <1>4, <2>1
  <1>6. \A attr \in Linked :
          /\ first[attr] \in [Keys(attr) -> 0 .. ArrSize]
          /\ \A c \in Keys(attr) :
               IF Members(attr, c) # {} THEN HighestOf(Members(attr, c), first[attr][c])
               ELSE first[attr][c] = 0
    <2>1. \A attr \in Linked :
            /\ Reheaded(heads)[attr] \in [Keys(attr) -> 0 .. ArrSize]
            /\ \A c \in Keys(attr) :
                 IF Members(attr, c) # {}
                 THEN HighestOf(Members(attr, c), Reheaded(heads)[attr][c])
                 ELSE Reheaded(heads)[attr][c] = heads[attr][c]
      BY <1>1, <1>2, <1>3, HeadsOfIndex
    <2> QED
      BY <1>3, <1>4, <2>1
  <1>7. /\ \A attr, c : SeenMembers(attr, c) = Members(attr, c)
        /\ \A attr, k : SeenBelow(attr, k) = Below(attr, k)
    BY <1>1 DEF SeenMembers, Members, SeenBelow, Below
  <1>8. TypeOK
    <2>1. top \in 1 .. max_id /\ loaded \subseteq 1 .. max_id
      BY <1>1 DEF Ids
    <2>2. /\ bits = accounts /\ stored = loaded /\ late = {} /\ query = {}
          /\ reply = "none" /\ answer = {}
      BY DEF Init
    <2>3. /\ nxt \in [Linked -> [Ids -> 0 .. ArrSize]]
          /\ \A attr \in Linked : \A k \in Ids : nxt[attr][k] < k
          /\ \A attr \in Linked : first[attr] \in [Keys(attr) -> 0 .. ArrSize]
      BY <1>5, <1>6
    <2> QED
      BY <1>1, <1>2, <2>1, <2>2, <2>3 DEF TypeOK
  <1>9. Fresh
    BY <1>1 DEF Init, Fresh
  <1>10. Threaded
    <2>1. \A k \in 1 .. top : k \in Ids /\ k <= max_id
      BY <1>1, SizeAssumption DEF Ids
    <2>2. \A attr : \A c : Members(attr, c) \subseteq 1 .. max_id
      BY DEF Members
    <2>3. ASSUME NEW attr \in Linked, NEW k \in 1 .. top, SeenBelow(attr, k) # {}
          PROVE  HighestOf(SeenBelow(attr, k), nxt[attr][k])
      BY <1>5, <1>7, <2>1, <2>3
    <2>4. ASSUME NEW attr \in Linked, NEW c \in Keys(attr)
          PROVE  /\ SeenMembers(attr, c) # {} => HighestOf(SeenMembers(attr, c), first[attr][c])
                 /\ first[attr][c] <= top
      <3>1. CASE Members(attr, c) = {}
        BY <1>1, <1>6, <1>7, <3>1
      <3>2. CASE Members(attr, c) # {}
        BY <1>1, <1>6, <1>7, <2>2, <3>2 DEF HighestOf
      <3> QED
        BY <3>1, <3>2
    <2> QED
      BY <2>3, <2>4 DEF Threaded
  <1>11. Straight
    <2>1. ASSUME NEW attr \in Linked, NEW k \in Ids, nxt[attr][k] # 0
          PROVE  {k, nxt[attr][k]} \subseteq SeenMembers(attr, Key(seen[k], attr))
      <3>1. k <= max_id /\ nxt[attr][k] \in Below(attr, k)
        BY <1>5, <2>1 DEF HighestOf
      <3>2. nxt[attr][k] \in Members(attr, Key(accounts[k], attr))
        BY <3>1 DEF Below
      <3>3. k \in Members(attr, Key(accounts[k], attr))
        BY <1>1, <3>1, <3>2, SizeAssumption DEF Members, Ids
      <3> QED
        BY <1>1, <1>7, <3>2, <3>3
    <2>2. ASSUME NEW attr \in Linked, NEW c \in Keys(attr), first[attr][c] # 0
          PROVE  first[attr][c] \in SeenMembers(attr, c)
      BY <1>6, <1>7, <2>2 DEF HighestOf
    <2> QED
      BY <2>1, <2>2 DEF Straight
  <1>12. Answered
    BY DEF Init, Answered
  <1> QED
    BY <1>8, <1>9, <1>10, <1>11, <1>12 DEF Inv

LEMMA PostNewKeeps ==
  ASSUME Inv, NEW k \in Ids, NEW a \in Accounts, PostNew(k, a)
  PROVE  Inv'
  <1>1. /\ reply = "none" /\ reply' = reply /\ query' = query /\ answer' = answer
        /\ k \notin stored
        /\ accounts' = [accounts EXCEPT ![k] = Stored(a)]
        /\ max_id' = IF max_id < k THEN k ELSE max_id
        /\ stored' = stored \union {k} /\ late' = late \union ({k} \cap 1 .. top)
        /\ bits' = bits /\ loaded' = loaded /\ UNCHANGED indexVars
        /\ nxt' = nxt /\ first' = first /\ seen' = seen /\ top' = top
    BY DEF PostNew, bitVars, indexVars, replyVars
  <1>2. /\ k \in Nat /\ 0 < k /\ max_id \in Nat /\ max_id' \in Ids /\ top \in Nat
        /\ max_id <= max_id' /\ k <= max_id'
    BY <1>1, SizeAssumption DEF Inv, TypeOK, Ids
  <1>3. TypeOK'
    <2>1. Stored(a) \in Records
      BY DEF Records
    <2>2. accounts' \in [0 .. ArrSize -> Records]
      BY <1>1, <2>1 DEF Inv, TypeOK
    <2>3. 1 .. max_id \subseteq 1 .. max_id' /\ 0 .. max_id \subseteq 0 .. max_id'
      BY <1>2, SizeAssumption DEF Ids
    <2>4. k \in 1 .. max_id'
      BY <1>2, SizeAssumption DEF Ids
    <2>5. /\ loaded' \subseteq 1 .. max_id' /\ stored' \subseteq 1 .. max_id'
          /\ late' \subseteq stored' /\ top' \in 1 .. max_id' /\ answer' \subseteq 0 .. max_id'
      BY <1>1, <2>3, <2>4 DEF Inv, TypeOK
    <2> QED
      BY <1>1, <1>2, <2>2, <2>5 DEF Inv, TypeOK
  <1>4. Fresh'
    <2>1. \A m \in 0 .. ArrSize : m # k => accounts'[m] = accounts[m]
      BY <1>1 DEF Inv, TypeOK
    <2>2. loaded \subseteq 0 .. ArrSize /\ 1 .. top \subseteq 0 .. ArrSize /\ k \in 0 .. ArrSize
      BY <1>2, SizeAssumption DEF Inv, TypeOK, Ids
    <2>3. \A m \in loaded : m # k
      BY <1>1 DEF Inv, Fresh
    <2>4. ASSUME NEW m \in 1 .. top
          PROVE  seen[m] = accounts'[m] \/ (m \in late' /\ seen[m] = DefaultAccount)
      <3>1. CASE m = k
        <4>1. accounts[m] = DefaultAccount /\ m \in late'
          BY <1>1, <2>2, <3>1 DEF Inv, Fresh
        <4>2. seen[m] = DefaultAccount
          BY <4>1 DEF Inv, Fresh
        <4> QED
          BY <4>1, <4>2
      <3>2. CASE m # k
        BY <1>1, <2>1, <2>2, <3>2 DEF Inv, Fresh
      <3> QED
        BY <3>1, <3>2
    <2>5. \A m \in 0 .. ArrSize : m \notin stored' => accounts'[m] = DefaultAccount
      BY <1>1, <2>1 DEF Inv, Fresh
    <2>6. loaded' \subseteq stored' /\ loaded' \subseteq 1 .. top'
      BY <1>1 DEF Inv, Fresh
    <2>7. \A m \in loaded' : bits'[m] = accounts'[m]
      BY <1>1, <2>1, <2>2, <2>3 DEF Inv, Fresh
    <2> QED
      BY <1>1, <2>4, <2>5, <2>6, <2>7 DEF Fresh
  <1>5. Threaded' /\ Straight'
    BY <1>1, ChainsStay DEF Inv
  <1>6. Answered'
    BY <1>1 DEF Answered
  <1> QED
    BY <1>3, <1>4, <1>5, <1>6 DEF Inv

LEMMA MakeIndexKeeps == ASSUME Inv, MakeIndex PROVE Inv'
  <1>1. /\ reply = "none" /\ reply' = reply /\ query' = query /\ answer' = answer
        /\ accounts' = accounts /\ max_id' = max_id /\ stored' = stored /\ late' = late
        /\ bits' = bits /\ loaded' = loaded /\ seen' = accounts /\ top' = max_id
        /\ nxt' = Relinked(nxt) /\ first' = Reheaded(first)
    BY DEF MakeIndex, storeVars, bitVars, replyVars
  <1>2. /\ max_id \in Ids /\ max_id \in 1 .. max_id /\ 1 .. top \subseteq 1 .. max_id
        /\ top \in Nat /\ max_id \in Nat /\ top <= max_id
        /\ accounts \in [0 .. ArrSize -> Records]
    BY SizeAssumption DEF Inv, TypeOK, Ids
  <1>3. /\ nxt' \in [Linked -> [Ids -> 0 .. ArrSize]]
        /\ \A attr \in Linked : \A k \in Ids :
             /\ nxt'[attr][k] < k
             /\ IF k <= max_id /\ Below(attr, k) # {} THEN HighestOf(Below(attr, k), nxt'[attr][k])
                ELSE nxt'[attr][k] = nxt[attr][k]
    <2>1. /\ nxt \in [Linked -> [Ids -> 0 .. ArrSize]]
          /\ \A attr \in Linked : \A k \in Ids : nxt[attr][k] < k
      BY DEF Inv, TypeOK
    <2>2. /\ Relinked(nxt) \in [Linked -> [Ids -> 0 .. ArrSize]]
          /\ \A attr \in Linked : \A k \in Ids :
               /\ Relinked(nxt)[attr][k] < k
               /\ IF k <= max_id /\ Below(attr, k) # {}
                  THEN HighestOf(Below(attr, k), Relinked(nxt)[attr][k])
                  ELSE Relinked(nxt)[attr][k] = nxt[attr][k]
      BY <1>2, <2>1, LinksOfIndex
    <2> QED
      BY <1>1, <2>2
  <1>4. \A attr \in Linked :
          /\ first'[attr] \in [Keys(attr) -> 0 .. ArrSize]
          /\ \A c \in Keys(attr) :
               IF Members(attr, c) # {} THEN HighestOf(Members(attr, c), first'[attr][c])
               ELSE first'[attr][c] = first[attr][c]
    <2>1. \A attr \in Linked : first[attr] \in [Keys(attr) -> 0 .. ArrSize]
      BY DEF Inv, TypeOK
    <2>2. \A attr \in Linked :
            /\ Reheaded(first)[attr] \in [Keys(attr) -> 0 .. ArrSize]
            /\ \A c \in Keys(attr) :
                 IF Members(attr, c) # {}
                 THEN HighestOf(Members(attr, c), Reheaded(first)[attr][c])
                 ELSE Reheaded(first)[attr][c] = first[attr][c]
      BY <1>2, <2>1, HeadsOfIndex
    <2> QED
      BY <1>1, <2>2
  <1>5. /\ \A attr, c : SeenMembers(attr, c)' = Members(attr, c)
        /\ \A attr, k : SeenBelow(attr, k)' = Below(attr, k)
    BY <1>1 DEF SeenMembers, Members, SeenBelow, Below
  <1>6. TypeOK'
    BY <1>1, <1>2, <1>3, <1>4 DEF Inv, TypeOK
  <1>7. Fresh'
    BY <1>1, <1>2 DEF Inv, Fresh
  <1>8. Threaded'
    <2>1. ASSUME NEW attr \in Linked, NEW k \in 1 .. max_id, Below(attr, k) # {}
          PROVE  HighestOf(Below(attr, k), nxt'[attr][k])
      BY <1>2, <1>3, <2>1, SizeAssumption DEF Ids
    <2>2. ASSUME NEW attr \in Linked, NEW c \in Keys(attr)
          PROVE  /\ Members(attr, c) # {} => HighestOf(Members(attr, c), first'[attr][c])
                 /\ first'[attr][c] <= max_id
      <3>1. CASE Members(attr, c) = {}
        <4>1. first'[attr][c] = first[attr][c] /\ first[attr][c] <= top
          BY <1>4, <3>1 DEF Inv, Threaded
        <4>2. first[attr][c] \in 0 .. ArrSize
          BY DEF Inv, TypeOK
        <4> QED
          BY <1>2, <3>1, <4>1, <4>2, SizeAssumption
      <3>2. CASE Members(attr, c) # {}
        <4>1. HighestOf(Members(attr, c), first'[attr][c]) /\ Members(attr, c) \subseteq 1 .. max_id
          BY <1>4, <3>2 DEF Members
        <4> QED
          BY <4>1 DEF HighestOf
      <3> QED
        BY <3>1, <3>2
    <2> QED
      BY <1>1, <1>5, <2>1, <2>2 DEF Threaded
  <1>9. Straight'
    <2> SUFFICES ASSUME NEW attr \in Linked, late = {} \/ attr = "prem_now"
                 PROVE  /\ \A k \in Ids :
                             nxt'[attr][k] # 0
                               => {k, nxt'[attr][k]} \subseteq Members(attr, Key(accounts[k], attr))
                        /\ \A c \in Keys(attr) :
                             first'[attr][c] # 0 => first'[attr][c] \in Members(attr, c)
      BY <1>1, <1>5 DEF Straight
    <2>1. ASSUME NEW c, NEW k \in SeenMembers(attr, c)
          PROVE  seen[k] = accounts[k] /\ k \in Members(attr, c)
      <3>1. k \in 1 .. top /\ Key(seen[k], attr) = c /\ (attr = "prem_now" => c # 0)
        BY DEF SeenMembers
      <3>2. seen[k] = accounts[k]
        <4>1. CASE late = {}
          BY <3>1, <4>1 DEF Inv, Fresh
        <4>2. CASE attr = "prem_now"
          BY <3>1, <4>2, DefaultKeys DEF Inv, Fresh
        <4> QED
          BY <4>1, <4>2
      <3> QED
        BY <1>2, <3>1, <3>2 DEF Members
    <2>2. ASSUME NEW k \in Ids, nxt'[attr][k] # 0
          PROVE  {k, nxt'[attr][k]} \subseteq Members(attr, Key(accounts[k], attr))
      <3>1. CASE k <= max_id /\ Below(attr, k) # {}
        <4>1. nxt'[attr][k] \in Members(attr, Key(accounts[k], attr))
          BY <1>3, <3>1 DEF HighestOf, Below
        <4>2. k \in Members(attr, Key(accounts[k], attr))
          BY <1>2, <3>1, <4>1, SizeAssumption DEF Members, Ids
        <4> QED
          BY <4>1, <4>2
      <3>2. CASE ~ (k <= max_id /\ Below(attr, k) # {})
        <4>1. nxt'[attr][k] = nxt[attr][k]
          BY <1>3, <3>2
        <4>2. {k, nxt[attr][k]} \subseteq SeenMembers(attr, Key(seen[k], attr))
          BY <2>2, <4>1 DEF Inv, Straight
        <4> QED
          BY <2>1, <4>1, <4>2
      <3> QED
        BY <3>1, <3>2
    <2>3. ASSUME NEW c \in Keys(attr), first'[attr][c] # 0
          PROVE  first'[attr][c] \in Members(attr, c)
      <3>1. CASE Members(attr, c) # {}
        BY <1>4, <3>1 DEF HighestOf
      <3>2. CASE Members(attr, c) = {}
        BY <1>4, <2>1, <2>3, <3>2 DEF Inv, Straight
      <3> QED
        BY <3>1, <3>2
    <2> QED
      BY <2>2, <2>3
  <1>10. Answered'
    BY <1>1 DEF Answered
  <1> QED
    BY <1>6, <1>7, <1>8, <1>9, <1>10 DEF Inv

(* The other steps change neither the accounts nor the chains.             *)
LEMMA StoreStays ==
  ASSUME Fresh, Threaded, Straight, UNCHANGED <<storeVars, bitVars, indexVars>>
  PROVE  Fresh' /\ Threaded' /\ Straight'
  <1>1. Fresh'
    BY DEF Fresh, storeVars, bitVars, indexVars
  <1>2. Threaded' /\ Straight'
    BY ChainsStay DEF storeVars
  <1> QED
    BY <1>1, <1>2

LEMMA AskKeeps == ASSUME Inv, NEW q \in Queries, Ask(q) PROVE Inv'
  <1>1. query' = q /\ UNCHANGED <<storeVars, bitVars, indexVars>>
    BY DEF Ask
  <1>2. \/ reply' = "400" /\ answer' = {}
        \/ reply' = "200" /\ answer' = {} /\ \E f \in q : Fruitless(f)
        \/ /\ reply' = "200" /\ answer' = Answer(q)
           /\ \A f \in q : ~ Refused(f) /\ ~ Fruitless(f)
    BY DEF Ask
  <1>3. Answer(q) \subseteq 0 .. max_id
    BY AnswerIsOfIds DEF Inv
  <1>4. TypeOK'
    BY <1>1, <1>2, <1>3 DEF Inv, TypeOK, storeVars, bitVars, indexVars
  <1>5. Fresh' /\ Threaded' /\ Straight'
    BY <1>1, StoreStays DEF Inv
  <1>6. Answer(q)' = Answer(q)
    BY <1>1, AnswerStays
  <1>7. Answered'
    BY <1>1, <1>2, <1>6 DEF Answered
  <1> QED
    BY <1>4, <1>5, <1>7 DEF Inv

LEMMA ReplyKeeps == ASSUME Inv, Reply PROVE Inv'
  <1>1. /\ query' = {} /\ reply' = "none" /\ answer' = {}
        /\ UNCHANGED <<storeVars, bitVars, indexVars>>
    BY DEF Reply
  <1>2. TypeOK'
    BY <1>1 DEF Inv, TypeOK, storeVars, bitVars, indexVars
  <1>3. Fresh' /\ Threaded' /\ Straight'
    BY <1>1, StoreStays DEF Inv
  <1>4. Answered'
    BY <1>1 DEF Answered
  <1> QED
    BY <1>2, <1>3, <1>4 DEF Inv

LEMMA InvStep == Inv /\ [Next]_vars => Inv'
  <1> SUFFICES ASSUME Inv, [Next]_vars PROVE Inv'
    OBVIOUS
  <1>1. CASE UNCHANGED vars
    <2>1. /\ UNCHANGED <<storeVars, bitVars, indexVars>>
          /\ query' = query /\ reply' = reply /\ answer' = answer
      BY <1>1 DEF vars, replyVars
    <2>2. \A q : Answer(q)' = Answer(q)
      BY <2>1, AnswerStays
    <2>3. Answered'
      BY <2>1, <2>2 DEF Inv, Answered
    <2>4. TypeOK'
      BY <2>1 DEF Inv, TypeOK, storeVars, bitVars, indexVars
    <2>5. Fresh' /\ Threaded' /\ Straight'
      BY <2>1, StoreStays DEF Inv
    <2> QED
      BY <2>3, <2>4, <2>5 DEF Inv
  <1> QED
    BY <1>1, PostNewKeeps, MakeIndexKeeps, AskKeeps, ReplyKeeps DEF Next

LEMMA InvAlways == Spec => []Inv
  BY InvInit, InvStep, PTL DEF Spec

(* Every variable keeps its type: ids, whether stored, indexed or answered, *)
(* are at most max_id, links lead down, and no record is anything but one  *)
(* of the data, one postNew made of a request, or a default                *)
(* (src/get_filter.cpp, src/post_new.cpp, src/index.cpp).                  *)
THEOREM TypeCorrect == Spec => []TypeOK
  <1>1. Inv => TypeOK
    BY DEF Inv
  <1> QED
    BY <1>1, InvAlways, PTL

(* Whatever filter chooses the walk and is not checked again, whatever was *)
(* posted and indexed since the load, under whatever new ids: an answer    *)
(* has all the accounts it can know of that the reference filter passes,   *)
(* and only those, but for the exceptions named (src/get_filter.cpp,       *)
(* src/index.cpp).                                                         *)
THEOREM AnswerIsExact == Spec => []AnswerExact
  <1>1. Inv => AnswerExact
    <2> SUFFICES ASSUME Inv, reply = "200", ~ Deviates(query)
                 PROVE  /\ {k \in Known(query) : Matches(query, k)} \ Stray(query) \subseteq answer
                        /\ \A k \in answer \ Stray(query) :
                             /\ Matches(query \ Crossed(query), k)
                             /\ Crossed(query) = {} => k \in Known(query)
      BY DEF AnswerExact
    <2>1. query \in Queries
      BY DEF Inv, Answered
    <2>2. CASE answer = Answer(query)
      BY <2>1, <2>2, WalkExact DEF Inv, Exact
    <2>3. CASE answer = {} /\ \E f \in query : Fruitless(f)
      <3>1. PICK f \in query : Fruitless(f)
        BY <2>3
      <3>2. \A k \in Known(query) : accounts[k] \in Records
        BY SizeAssumption DEF Known, Inv, TypeOK, Ids
      <3>3. \A k \in Known(query) : ~ Matches(query, k)
        BY <2>1, <3>1, <3>2, FruitlessHoldsForNone DEF Matches
      <3> QED
        BY <2>3, <3>3
    <2> QED
      BY <2>2, <2>3 DEF Inv, Answered
  <1> QED
    BY <1>1, InvAlways, PTL

-----------------------------------------------------------------------------
(* What a POST or an index run does to the answer of a query.              *)
LEMMA PostNewLosesNone ==
  ASSUME Inv, NEW m \in Ids, NEW a \in Accounts, PostNew(m, a),
         NEW q \in Queries, NEW k \in Answer(q) \cap stored
  PROVE  k \in Answer(q)'
  <1>1. /\ m \notin stored
        /\ accounts' = [accounts EXCEPT ![m] = Stored(a)]
        /\ max_id' = IF max_id < m THEN m ELSE max_id
        /\ bits' = bits /\ loaded' = loaded
        /\ nxt' = nxt /\ first' = first /\ seen' = seen /\ top' = top
    BY DEF PostNew, bitVars, indexVars
  <1>2. k \in Candidates(q) /\ k \in 0 .. ArrSize /\ k # m
    BY <1>1 DEF Answer, Candidates
  <1>3. accounts'[k] = accounts[k]
    BY <1>1, <1>2 DEF Inv, TypeOK
  <1>4. max_id <= max_id' /\ max_id \in Nat /\ max_id' \in Nat
    BY <1>1, SizeAssumption DEF Inv, TypeOK, Ids
  <1>5. \A f : Chain(f)' = Chain(f)
    BY <1>1 DEF Chain, NonEmpty, Heads, HeadOf
  <1>6. k \in Candidates(q)'
    BY <1>1, <1>2, <1>4, <1>5 DEF Candidates
  <1> QED
    BY <1>2, <1>3, <1>6 DEF Answer

(* An index run sees every stored account as it is; the one that a walk    *)
(* over a nonempty chain ends in, it still ends in.                        *)
LEMMA MakeIndexLosesNone ==
  ASSUME Inv, MakeIndex, NEW q \in Queries, ~ Deviates(q),
         NEW k \in Answer(q) \cap stored, Matches(q, k)
  PROVE  k \in Answer(q)'
  <1>1. /\ accounts' = accounts /\ max_id' = max_id /\ bits' = bits /\ loaded' = loaded
        /\ seen' = accounts /\ top' = max_id
    BY DEF MakeIndex, storeVars, bitVars
  <1>2. Inv' /\ Exact(q)'
    BY MakeIndexKeeps, WalkExact, PTL DEF Inv
  <1>3. k \in 1 .. max_id /\ k \in 0 .. max_id /\ k \in 0 .. ArrSize
    BY SizeAssumption DEF Inv, TypeOK, Ids
  <1>4. CASE k \in Stray(q)
    <2>1. PICK f \in q : HeadsWalk(q, f) /\ OnNonEmpty(f)
      BY <1>4 DEF Stray
    <2>2. k = 1
      BY <1>4 DEF Stray
    <2>3. k \in Chain(f)'
      BY <2>1, <2>2 DEF Chain
    <2>4. k \in Candidates(q)'
      BY <1>3, <2>1, <2>3 DEF Candidates
    <2> QED
      BY <1>1, <2>4 DEF Answer
  <1>5. CASE k \notin Stray(q)
    <2>1. k \in Known(q)'
      <3>1. combined2check(q) # {} => k \in loaded
        BY DEF Answer, Candidates, HeadsWalk, Scans
      <3> QED
        BY <1>1, <1>3, <3>1 DEF Known
    <2>2. Matches(q, k)'
      BY <1>1 DEF Matches
    <2> QED
      BY <1>2, <1>5, <2>1, <2>2 DEF Exact, Stray
  <1> QED
    BY <1>4, <1>5

(* No stored account that passes all filters of a query, and that the      *)
(* query would have answered, is lost to it by a POST or by an index run,  *)
(* late or not (src/post_new.cpp, src/index.cpp).                          *)
THEOREM AnswersAreKept == Spec => AnswersKept
  <1> DEFINE Keeps == reply = "none" /\ reply' = "none"
                => \A q \in Queries : ~ Deviates(q) =>
                     {k \in Answer(q) \cap stored : Matches(q, k)} \subseteq Answer(q)'
  <1>1. Inv /\ [Next]_vars => [Keeps]_vars
    <2> SUFFICES ASSUME Inv, Next, reply = "none", reply' = "none",
                        NEW q \in Queries, ~ Deviates(q),
                        NEW k \in Answer(q) \cap stored, Matches(q, k)
                 PROVE  k \in Answer(q)'
      BY DEF Keeps
    <2>1. CASE \E m \in Ids, a \in Accounts : PostNew(m, a)
      BY <2>1, PostNewLosesNone
    <2>2. CASE MakeIndex
      BY <2>2, MakeIndexLosesNone
    <2>3. CASE (\E p \in Queries : Ask(p)) \/ Reply
      BY <2>3 DEF Ask, Reply
    <2> QED
      BY <2>1, <2>2, <2>3 DEF Next
  <1> QED
    BY <1>1, InvAlways, PTL DEF Spec, AnswersKept

=============================================================================
