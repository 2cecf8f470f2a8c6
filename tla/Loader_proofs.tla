---------------------------- MODULE Loader_proofs ----------------------------
(***************************************************************************)
(* Proofs about Loader: for any data, in whatever order they are loaded,   *)
(* and any accounts posted, the names of an account are found and printed, *)
(* and e-mails in use are refused.                                         *)
(***************************************************************************)
EXTENDS Loader, FiniteSetTheorems, TLAPS

Printed == {"fname", "sname"}     \* the names that have strings
Indexed == {"fname", "interests"} \* ... that have vectors

Has(id, k, n) == n \in ToSet(NamesOf(data[id], k))

(* What is known of the accounts, by the data and by the clients.          *)
Histories ==
  /\ data \in [Ids -> Accounts \union {NoRecord}]
  /\ posted \in [Ids -> Accounts \union {NoRecord}]
  /\ serving \in BOOLEAN
  /\ \A id \in Ids : data[id] = NoRecord \/ posted[id] = NoRecord
  /\ ~ serving => Posted = {}

(* The names of the data have the codes up to val, each its own; others    *)
(* have none, or 0 from clients.                                           *)
Coded ==
  /\ dic \in [Kinds -> [Names -> Int]]
  /\ val \in [Kinds -> Nat]
  /\ \A k \in Kinds :
       /\ IsFiniteSet(InData(k)) /\ val[k] = FirstCode(k) + Cardinality(InData(k))
       /\ \A n \in Names :
            IF n \in InData(k) THEN dic[k][n] \in FirstCode(k) .. val[k] - 1
            ELSE dic[k][n] = ABSENT \/ (serving /\ dic[k][n] = 0)
       /\ \A n, m \in InData(k) : dic[k][n] = dic[k][m] => n = m

(* The strings undo the codes.                                             *)
Spelt ==
  \A k \in Printed :
    /\ strings[k] \in Seq(Names \union {NoName})
    /\ Len(strings[k]) = val[k]
    /\ strings[k][1] = NoName
    /\ \A n \in InData(k) : strings[k][dic[k][n] + 1] = n

(* A vector has the accounts that have the name.                           *)
Vectored ==
  \A k \in Indexed :
    /\ vec[k] \in Seq(SUBSET Ids)
    /\ Len(vec[k]) = val[k]
    /\ \A n \in InData(k) : vec[k][dic[k][n] + 1] = {id \in Loaded : Has(id, k, n)}

(* An account's codes are those of its names; a posted name that the data  *)
(* lack has none.                                                          *)
Stored ==
  /\ DOMAIN accounts = Ids
  /\ \A id \in Ids :
       IF data[id] # NoRecord
       THEN /\ accounts[id].fname = Code(dic.fname, data[id].fname)
            /\ accounts[id].sname = Code(dic.sname, data[id].sname)
            /\ accounts[id].domain = dic.domain[data[id].domain]
            /\ accounts[id].email = data[id].email
       ELSE IF posted[id] # NoRecord
       THEN /\ accounts[id].fname = IF posted[id].fname \in InData("fname")
                                    THEN dic.fname[posted[id].fname] ELSE EMPTY
            /\ accounts[id].domain \in Nat
            /\ accounts[id].email = posted[id].email
       ELSE accounts[id] = NoAccount

(* E-mails in use, once the index is made.                                 *)
Mailed ==
  /\ email_set \subseteq Names \union {NoName}
  /\ \A e \in Names : e \in email_set <=> serving /\ \E id \in Ids : accounts[id].email = e

Inv == Histories /\ Coded /\ Spelt /\ Vectored /\ Stored /\ Mailed

-----------------------------------------------------------------------------
(* Sets of numbers.                                                        *)
LEMMA HasLeast ==
  ASSUME NEW S \in SUBSET Nat, S # {}
  PROVE  \E n \in S : \A m \in S : n <= m
  <1> DEFINE R == OpToRel(<, Nat)
  <1>1. IsWellFoundedOn(R, Nat)
    BY NatLessThanWellFounded
  <1> HIDE DEF R
  <1>2. PICK n \in S : \A m \in S : ~ (<<m, n>> \in R)
    BY <1>1, WFMin
  <1>3. \A m \in S : ~ (m < n)
    BY <1>2 DEF R, OpToRel
  <1> QED
    BY <1>3

(* How many numbers of a set come before one of it: a number for each.     *)
LEMMA CountBelow ==
  ASSUME NEW S \in SUBSET Nat, IsFiniteSet(S), NEW i \in S, NEW j \in S
  PROVE  /\ Cardinality(S) \in Nat
         /\ Cardinality({m \in S : m < i}) \in 0 .. Cardinality(S) - 1
         /\ Cardinality({m \in S : m < i}) = Cardinality({m \in S : m < j}) => i = j
  <1> DEFINE Below(n) == {m \in S : m < n}
  <1>1. ASSUME NEW n \in S, NEW T \in SUBSET S, IsFiniteSet(T), n \in T, Below(n) \subseteq T
        PROVE  /\ Cardinality(T) \in Nat
               /\ Cardinality(Below(n)) \in Nat
               /\ Cardinality(Below(n)) < Cardinality(T)
    <2>1. n \notin Below(n)
      OBVIOUS
    <2> HIDE DEF Below
    <2>2. /\ IsFiniteSet(Below(n))
          /\ Cardinality(Below(n)) <= Cardinality(T)
          /\ Cardinality(T) = Cardinality(Below(n)) => T = Below(n)
      BY <1>1, FS_Subset
    <2>3. Cardinality(Below(n)) \in Nat /\ Cardinality(T) \in Nat
      BY <1>1, <2>2, FS_CardinalityType
    <2> QED
      BY <1>1, <2>1, <2>2, <2>3
  <1>2. ASSUME NEW n \in S, NEW o \in S, n < o
        PROVE  /\ Cardinality(Below(n)) \in Nat
               /\ Cardinality(Below(n)) < Cardinality(Below(o))
    <2>1. n \in Below(o) /\ Below(n) \subseteq Below(o) /\ Below(o) \subseteq S
      <3>1. n \in Nat /\ o \in Nat /\ \A m \in S : m \in Nat
        OBVIOUS
      <3>2. \A m \in S : m < n => m < o
        BY <1>2, <3>1
      <3> QED
        BY <1>2, <3>2
    <2>2. IsFiniteSet(Below(o))
      BY <2>1, FS_Subset
    <2> HIDE DEF Below
    <2> QED
      BY <1>1, <2>1, <2>2
  <1>3. \A n \in S : Below(n) \subseteq S
    OBVIOUS
  <1> HIDE DEF Below
  <1>4. /\ Cardinality(S) \in Nat
        /\ Cardinality(Below(i)) \in 0 .. Cardinality(S) - 1
        /\ Cardinality(Below(j)) \in 0 .. Cardinality(S) - 1
    BY <1>1, <1>3
  <1>5. Cardinality(Below(i)) = Cardinality(Below(j)) => i = j
    <2>1. i \in Nat /\ j \in Nat
      OBVIOUS
    <2> QED
      BY <1>2, <1>4, <2>1
  <1> QED
    BY <1>4, <1>5 DEF Below

-----------------------------------------------------------------------------
(* The names of an account, and those that it is first to have.            *)
LEMMA AccountsAreRecords ==
  ASSUME NEW a \in Accounts
  PROVE  /\ a.fname \in Names \union {NoName} /\ a.sname \in Names \union {NoName}
         /\ a.email \in Names /\ a.domain \in Names /\ a.interests \in Seq(Names)
         /\ a # NoRecord
  <1>1. a \in [fname : Names \union {NoName}, sname : Names \union {NoName}, email : Names,
               domain : Names, interests : Seq(Names), sex : Sexes,
               likes : Seq([id : Ids, ts : Nat])]
    BY AccountAssumption
  <1>2. DOMAIN a # DOMAIN NoRecord
    <2>1. "sex" \in DOMAIN a
      BY <1>1
    <2>2. "sex" \notin DOMAIN NoRecord
      BY DEF NoRecord
    <2> QED
      BY <2>1, <2>2
  <1> QED
    BY <1>1, <1>2

LEMMA NamesAreNames ==
  ASSUME NEW a \in Accounts, NEW k \in Kinds
  PROVE  NamesOf(a, k) \in Seq(Names)
  <1>1. CASE k = "domain"
    BY <1>1, AccountsAreRecords DEF NamesOf
  <1>2. CASE k = "interests"
    BY <1>2, AccountsAreRecords DEF NamesOf
  <1>3. CASE k = "fname"
    BY <1>3, AccountsAreRecords DEF NamesOf
  <1>4. CASE k = "sname"
    BY <1>4, AccountsAreRecords DEF NamesOf
  <1> QED
    BY <1>1, <1>2, <1>3, <1>4 DEF Kinds

NewNames(a, k) == {n \in ToSet(NamesOf(a, k)) : dic[k][n] = ABSENT}

LEMMA NewOnes ==
  ASSUME NEW a \in Accounts, NEW k \in Kinds
  PROVE  /\ New(a, k) \subseteq Nat /\ IsFiniteSet(New(a, k))
         /\ \A i \in New(a, k) : NamesOf(a, k)[i] \in NewNames(a, k)
         /\ \A i, j \in New(a, k) : NamesOf(a, k)[i] = NamesOf(a, k)[j] => i = j
         /\ \A n \in NewNames(a, k) : \E i \in New(a, k) : NamesOf(a, k)[i] = n
         /\ NewNames(a, k) \subseteq Names
  <1> DEFINE names == NamesOf(a, k)
             len == Len(names)
  <1>1. len \in Nat /\ DOMAIN names = 1 .. len /\ \A i \in 1 .. len : names[i] \in Names
    BY NamesAreNames
  <1> HIDE DEF names
  <1>2. New(a, k) = {i \in 1 .. len : /\ dic[k][names[i]] = ABSENT
                                      /\ \A j \in 1 .. i - 1 : names[j] # names[i]}
    BY <1>1 DEF New, names
  <1>3. NewNames(a, k) = {n \in {names[i] : i \in 1 .. len} : dic[k][n] = ABSENT}
    BY <1>1 DEF NewNames, ToSet, names
  <1>4. New(a, k) \subseteq Nat /\ IsFiniteSet(New(a, k))
    <2>1. IsFiniteSet(1 .. len) /\ New(a, k) \subseteq 1 .. len
      BY <1>1, <1>2, FS_Interval
    <2> QED
      BY <2>1, FS_Subset
  <1>5. ASSUME NEW i \in New(a, k), NEW j \in New(a, k), names[i] = names[j]
        PROVE  i = j
    <2>1. i \in Nat /\ j \in Nat /\ 0 < i /\ 0 < j
      BY <1>1, <1>2
    <2>2. ~ (i < j) /\ ~ (j < i)
      BY <1>2, <1>5, <2>1
    <2> QED
      BY <2>1, <2>2
  <1>6. ASSUME NEW n \in NewNames(a, k)
        PROVE  \E i \in New(a, k) : names[i] = n
    <2> DEFINE At == {i \in 1 .. len : names[i] = n}
    <2>1. At # {} /\ At \subseteq Nat
      BY <1>1, <1>3
    <2>2. PICK i \in At : \A j \in At : i <= j
      BY <2>1, HasLeast
    <2>3. \A j \in 1 .. i - 1 : names[j] # names[i]
      BY <1>1, <2>2
    <2> QED
      BY <1>2, <1>3, <2>2, <2>3
  <1> QED
    BY <1>1, <1>2, <1>3, <1>4, <1>5, <1>6 DEF names

(* There are as many new codes as new names.                               *)
LEMMA NewNamesCounted ==
  ASSUME NEW a \in Accounts, NEW k \in Kinds
  PROVE  /\ IsFiniteSet(NewNames(a, k)) /\ Cardinality(NewNames(a, k)) \in Nat
         /\ Cardinality(NewNames(a, k)) = Cardinality(New(a, k))
  <1> DEFINE f == [i \in New(a, k) |-> NamesOf(a, k)[i]]
  <1>1. /\ f \in [New(a, k) -> NewNames(a, k)]
        /\ \A i, j \in New(a, k) : f[i] = f[j] => i = j
        /\ \A n \in NewNames(a, k) : \E i \in New(a, k) : f[i] = n
    BY NewOnes
  <1> HIDE DEF f
  <1>2. f \in Bijection(New(a, k), NewNames(a, k))
    BY <1>1 DEF Bijection, Injection, Surjection, IsInjective
  <1>3. ExistsBijection(New(a, k), NewNames(a, k))
    BY <1>2 DEF ExistsBijection
  <1> QED
    BY <1>3, NewOnes, FS_Bijection, FS_CardinalityType

(* Each new name gets a code of its own, others keep theirs.               *)
LEMMA KnownThen ==
  ASSUME Coded, NEW a \in Accounts, NEW k \in Kinds
  PROVE  /\ Known(a, k) \in [Names -> Int]
         /\ NextVal(a, k) \in Nat /\ NextVal(a, k) = val[k] + Cardinality(NewNames(a, k))
         /\ \A n \in Names : n \notin NewNames(a, k) => Known(a, k)[n] = dic[k][n]
         /\ \A n \in NewNames(a, k) : Known(a, k)[n] \in val[k] .. NextVal(a, k) - 1
         /\ \A n, m \in NewNames(a, k) : Known(a, k)[n] = Known(a, k)[m] => n = m
  <1> DEFINE new == New(a, k)
             at(i) == NamesOf(a, k)[i]
             below(i) == Cardinality({j \in new : j < i})
  <1>1. /\ val[k] \in Nat /\ dic[k] \in [Names -> Int]
        /\ Cardinality(NewNames(a, k)) \in Nat
        /\ NextVal(a, k) = val[k] + Cardinality(NewNames(a, k))
    BY NewNamesCounted DEF Coded, NextVal
  <1>2. ASSUME NEW i \in new
        PROVE  /\ at(i) \in NewNames(a, k) /\ at(i) \in Names
               /\ Known(a, k)[at(i)] = val[k] + below(i)
               /\ below(i) \in 0 .. Cardinality(NewNames(a, k)) - 1
    <2>1. at(i) \in NewNames(a, k) /\ at(i) \in Names
      BY NewOnes
    <2>2. Earlier(a, k, at(i)) = {j \in new : j < i}
      BY NewOnes DEF Earlier
    <2>3. Known(a, k)[at(i)] = val[k] + below(i)
      BY <2>1, <2>2 DEF Known
    <2>4. below(i) \in 0 .. Cardinality(new) - 1
      BY NewOnes, CountBelow
    <2> QED
      BY <2>1, <2>3, <2>4, NewNamesCounted
  <1>3. ASSUME NEW i \in new, NEW j \in new, below(i) = below(j)
        PROVE  i = j
    BY <1>3, NewOnes, CountBelow
  <1>4. ASSUME NEW n \in Names, n \notin NewNames(a, k) PROVE Known(a, k)[n] = dic[k][n]
    <2>1. ~ \E i \in New(a, k) : NamesOf(a, k)[i] = n
      BY <1>2, <1>4
    <2> QED
      BY <2>1 DEF Known
  <1>5. \A n \in NewNames(a, k) : n \in Names /\ \E i \in new : n = at(i)
    BY NewOnes
  <1> HIDE DEF new, at, below
  <1>6. \A n \in NewNames(a, k) : Known(a, k)[n] \in val[k] .. NextVal(a, k) - 1
    BY <1>1, <1>2, <1>5
  <1>7. ASSUME NEW n \in NewNames(a, k), NEW m \in NewNames(a, k),
               Known(a, k)[n] = Known(a, k)[m]
        PROVE  n = m
    <2>1. PICK i \in new, j \in new : n = at(i) /\ m = at(j)
      BY <1>5
    <2>2. below(i) = below(j)
      BY <1>1, <1>2, <1>7, <2>1
    <2> QED
      BY <1>3, <2>1, <2>2
  <1>8. Known(a, k) \in [Names -> Int]
    <2>1. \A n \in Names : Known(a, k)[n] \in Int
      BY <1>1, <1>4, <1>6
    <2>2. Known(a, k) = [n \in Names |-> Known(a, k)[n]]
      BY DEF Known
    <2> QED
      BY <2>1, <2>2
  <1> QED
    BY <1>1, <1>4, <1>6, <1>7, <1>8

-----------------------------------------------------------------------------
(* Loading an account of the data.                                         *)
LEMMA InDataNamed ==
  ASSUME Histories, NEW k \in Kinds
  PROVE  InData(k) \subseteq Names
  <1>1. ASSUME NEW id \in Loaded PROVE ToSet(NamesOf(data[id], k)) \subseteq Names
    <2>1. data[id] \in Accounts
      BY DEF Histories, Loaded
    <2>2. NamesOf(data[id], k) \in Seq(Names)
      BY <2>1, NamesAreNames
    <2> QED
      BY <2>2 DEF ToSet
  <1> QED
    BY <1>1 DEF InData

LEMMA LoadRecords ==
  ASSUME Inv, NEW id \in Ids, NEW a \in Accounts, Load(id, a)
  PROVE  /\ Histories'
         /\ Loaded' = Loaded \union {id}
         /\ data'[id] = a /\ \A j \in Loaded : j # id /\ data'[j] = data[j]
  <1>1. /\ data' = [data EXCEPT ![id] = a] /\ posted' = posted /\ serving' = serving
        /\ id \notin Loaded
    BY DEF Load
  <1>2. a # NoRecord
    BY AccountsAreRecords
  <1>3. Histories'
    <2>1. \A j \in Ids : posted'[j] = NoRecord
      BY <1>1 DEF Inv, Histories, Posted, Load
    <2>2. Posted' = {} /\ serving' \in BOOLEAN
      BY <1>1, <2>1 DEF Inv, Histories, Posted
    <2>3. data' \in [Ids -> Accounts \union {NoRecord}]
      BY <1>1 DEF Inv, Histories
    <2> QED
      BY <1>1, <2>1, <2>2, <2>3 DEF Inv, Histories
  <1>4. data'[id] = a /\ \A j \in Ids : j # id => data'[j] = data[j]
    BY <1>1 DEF Inv, Histories
  <1> QED
    BY <1>1, <1>2, <1>3, <1>4 DEF Loaded

(* What the data have of a name grows by what the account has.             *)
LEMMA LoadNames ==
  ASSUME Inv, NEW id \in Ids, NEW a \in Accounts, Load(id, a), NEW k \in Kinds
  PROVE  /\ InData(k)' = InData(k) \union NewNames(a, k)
         /\ NewNames(a, k) \cap InData(k) = {}
         /\ ToSet(NamesOf(a, k)) \subseteq InData(k)'
         /\ \A n : {j \in Loaded' : Has(j, k, n)'}
                  = {j \in Loaded : Has(j, k, n)}
                      \union {j \in {id} : n \in ToSet(NamesOf(a, k))}
  <1>1. InData(k)' = InData(k) \union ToSet(NamesOf(a, k))
    BY LoadRecords DEF InData
  <1>2. ToSet(NamesOf(a, k)) \subseteq Names
    BY NamesAreNames DEF ToSet
  <1>3. ~ serving
    BY DEF Load
  <1>4. \A n \in Names : dic[k][n] = ABSENT <=> n \notin InData(k)
    <2>1. /\ val[k] \in Nat /\ FirstCode(k) \in Nat
          /\ \A n \in Names : IF n \in InData(k) THEN dic[k][n] \in FirstCode(k) .. val[k] - 1
                              ELSE dic[k][n] = ABSENT
      BY <1>3 DEF Inv, Coded, FirstCode
    <2> QED
      BY <2>1 DEF ABSENT
  <1>5. NewNames(a, k) = ToSet(NamesOf(a, k)) \ InData(k)
    BY <1>2, <1>4 DEF NewNames
  <1>6. ASSUME NEW n
        PROVE  {j \in Loaded' : Has(j, k, n)'}
                 = {j \in Loaded : Has(j, k, n)}
                     \union {j \in {id} : n \in ToSet(NamesOf(a, k))}
    BY LoadRecords DEF Has
  <1> QED
    BY <1>1, <1>5, <1>6

LEMMA LoadCodes ==
  ASSUME Inv, NEW id \in Ids, NEW a \in Accounts, Load(id, a)
  PROVE  Coded'
  <1>1. dic' = [k \in Kinds |-> Known(a, k)] /\ val' = [k \in Kinds |-> NextVal(a, k)]
        /\ serving' = serving /\ ~ serving
    BY DEF Load
  <1>2. dic' \in [Kinds -> [Names -> Int]] /\ val' \in [Kinds -> Nat]
    BY <1>1, KnownThen DEF Inv
  <1>3. ASSUME NEW k \in Kinds
        PROVE  /\ IsFiniteSet(InData(k)') /\ val'[k] = FirstCode(k) + Cardinality(InData(k)')
               /\ \A n \in Names :
                    IF n \in InData(k)' THEN dic'[k][n] \in FirstCode(k) .. val'[k] - 1
                    ELSE dic'[k][n] = ABSENT
               /\ \A n, m \in InData(k)' : dic'[k][n] = dic'[k][m] => n = m
    <2>1. /\ val'[k] = NextVal(a, k) /\ dic'[k] = Known(a, k)
          /\ val'[k] = val[k] + Cardinality(NewNames(a, k))
          /\ Cardinality(NewNames(a, k)) \in Nat /\ IsFiniteSet(NewNames(a, k))
          /\ FirstCode(k) \in Nat /\ val[k] \in Nat
      BY <1>1, KnownThen, NewNamesCounted DEF Inv, Coded, FirstCode
    <2>2. /\ InData(k)' = InData(k) \union NewNames(a, k)
          /\ NewNames(a, k) \cap InData(k) = {} /\ InData(k) \subseteq Names
          /\ NewNames(a, k) \subseteq Names
      BY LoadNames, InDataNamed, NewOnes DEF Inv
    <2>3. IsFiniteSet(InData(k)) /\ val[k] = FirstCode(k) + Cardinality(InData(k))
      BY DEF Inv, Coded
    <2>4. /\ IsFiniteSet(InData(k)')
          /\ Cardinality(InData(k)') = Cardinality(InData(k)) + Cardinality(NewNames(a, k))
      <3>1. Cardinality({}) = 0 /\ Cardinality(InData(k)) \in Nat
        BY <2>3, FS_EmptySet, FS_CardinalityType
      <3>2. InData(k) \cap NewNames(a, k) = {}
        BY <2>2
      <3>3. /\ IsFiniteSet(InData(k) \union NewNames(a, k))
            /\ Cardinality(InData(k) \union NewNames(a, k))
                 = Cardinality(InData(k)) + Cardinality(NewNames(a, k))
                     - Cardinality(InData(k) \cap NewNames(a, k))
        BY <2>1, <2>3, FS_Union
      <3>4. /\ IsFiniteSet(InData(k) \union NewNames(a, k))
            /\ Cardinality(InData(k) \union NewNames(a, k))
                 = Cardinality(InData(k)) + Cardinality(NewNames(a, k))
        BY <2>1, <3>1, <3>2, <3>3
      <3> QED
        BY <2>2, <3>4
    <2>5. \A n \in InData(k) : /\ dic'[k][n] = dic[k][n]
                               /\ dic[k][n] \in FirstCode(k) .. val[k] - 1
      BY <2>1, <2>2, KnownThen DEF Inv, Coded
    <2>6. \A n \in NewNames(a, k) : dic'[k][n] \in val[k] .. val'[k] - 1
      BY <2>1, KnownThen DEF Inv
    <2>7. val'[k] \in Nat /\ val[k] <= val'[k] /\ FirstCode(k) <= val[k]
      BY <2>1, <2>3, FS_CardinalityType
    <2>8. ASSUME NEW n \in Names
          PROVE  IF n \in InData(k)' THEN dic'[k][n] \in FirstCode(k) .. val'[k] - 1
                 ELSE dic'[k][n] = ABSENT
      <3>1. CASE n \in InData(k)
        BY <2>1, <2>2, <2>5, <2>7, <3>1
      <3>2. CASE n \in NewNames(a, k)
        BY <2>1, <2>2, <2>6, <2>7, <3>2
      <3>3. CASE n \notin InData(k) /\ n \notin NewNames(a, k)
        BY <1>1, <2>1, <2>2, <3>3, KnownThen DEF Inv, Coded
      <3> QED
        BY <3>1, <3>2, <3>3
    <2>9. ASSUME NEW n \in InData(k)', NEW m \in InData(k)', dic'[k][n] = dic'[k][m]
          PROVE  n = m
      <3>1. CASE n \in InData(k) /\ m \in InData(k)
        BY <2>5, <2>9, <3>1 DEF Inv, Coded
      <3>2. CASE n \in NewNames(a, k) /\ m \in NewNames(a, k)
        BY <2>1, <2>9, <3>2, KnownThen DEF Inv
      <3>3. ASSUME NEW o \in InData(k), NEW p \in NewNames(a, k) PROVE dic'[k][o] # dic'[k][p]
        BY <2>1, <2>5, <2>6
      <3> QED
        BY <2>2, <2>9, <3>1, <3>2, <3>3
    <2>10. val'[k] = FirstCode(k) + Cardinality(InData(k)')
      <3>1. Cardinality(InData(k)) \in Nat
        BY <2>3, FS_CardinalityType
      <3> QED
        BY <2>1, <2>3, <2>4, <3>1
    <2> QED
      BY <2>4, <2>8, <2>9, <2>10
  <1> QED
    BY <1>1, <1>2, <1>3 DEF Coded

(* What the codes of a kind are after an account is loaded.                *)
LEMMA LoadKind ==
  ASSUME Inv, NEW id \in Ids, NEW a \in Accounts, Load(id, a), NEW k \in Kinds
  PROVE  /\ dic'[k] = Known(a, k) /\ val'[k] = NextVal(a, k)
         /\ FirstCode(k) \in Nat /\ val[k] \in Nat /\ val'[k] \in Nat
         /\ FirstCode(k) <= val[k] /\ val[k] <= val'[k]
         /\ \A n \in InData(k) : /\ n \in Names /\ n \in InData(k)' /\ dic'[k][n] = dic[k][n]
                                /\ dic[k][n] \in FirstCode(k) .. val[k] - 1
         /\ \A n \in NewNames(a, k) : /\ n \in Names /\ n \in InData(k)'
                                     /\ dic'[k][n] \in val[k] .. val'[k] - 1
         /\ \A n \in InData(k)' : n \in Names /\ dic'[k][n] \in FirstCode(k) .. val'[k] - 1
  <1>1. dic'[k] = Known(a, k) /\ val'[k] = NextVal(a, k)
    BY DEF Load
  <1>2. /\ val'[k] = val[k] + Cardinality(NewNames(a, k))
        /\ Cardinality(NewNames(a, k)) \in Nat /\ val[k] \in Nat /\ FirstCode(k) \in Nat
        /\ \A n \in NewNames(a, k) : dic'[k][n] \in val[k] .. val'[k] - 1
    BY <1>1, KnownThen, NewNamesCounted DEF Inv, Coded, FirstCode
  <1>3. FirstCode(k) <= val[k]
    <2>1. IsFiniteSet(InData(k)) /\ val[k] = FirstCode(k) + Cardinality(InData(k))
      BY DEF Inv, Coded
    <2>2. Cardinality(InData(k)) \in Nat
      BY <2>1, FS_CardinalityType
    <2> QED
      BY <1>2, <2>1, <2>2
  <1>4. /\ InData(k)' = InData(k) \union NewNames(a, k)
        /\ NewNames(a, k) \cap InData(k) = {} /\ InData(k) \subseteq Names
        /\ NewNames(a, k) \subseteq Names
    BY LoadNames, InDataNamed, NewOnes DEF Inv
  <1>5. \A n \in InData(k) : /\ dic'[k][n] = dic[k][n]
                             /\ dic[k][n] \in FirstCode(k) .. val[k] - 1
    BY <1>1, <1>4, KnownThen DEF Inv, Coded
  <1>6. ASSUME NEW n \in InData(k)' PROVE dic'[k][n] \in FirstCode(k) .. val'[k] - 1
    BY <1>2, <1>3, <1>4, <1>5
  <1> QED
    BY <1>1, <1>2, <1>3, <1>4, <1>5, <1>6

(* Every new code is a new name's: as many, and each its own.              *)
LEMMA NewCodesAllUsed ==
  ASSUME Coded, NEW a \in Accounts, NEW k \in Kinds, NEW c \in val[k] .. NextVal(a, k) - 1
  PROVE  \E n \in NewNames(a, k) : Known(a, k)[n] = c
  <1> DEFINE S == NewNames(a, k)
             T == val[k] .. NextVal(a, k) - 1
             f == [n \in S |-> Known(a, k)[n]]
  <1>1. /\ f \in [S -> T] /\ \A n, m \in S : f[n] = f[m] => n = m
        /\ val[k] \in Nat /\ NextVal(a, k) \in Nat
        /\ NextVal(a, k) = val[k] + Cardinality(S)
        /\ IsFiniteSet(S) /\ Cardinality(S) \in Nat
    BY KnownThen, NewNamesCounted DEF Coded
  <1>2. IsFiniteSet(T) /\ Cardinality(T) = Cardinality(S)
    <2>1. val[k] \in Int /\ NextVal(a, k) - 1 \in Int
      BY <1>1
    <2>2. IsFiniteSet(T) /\ Cardinality(T) = IF val[k] > NextVal(a, k) - 1 THEN 0
                                           ELSE NextVal(a, k) - 1 - val[k] + 1
      BY <2>1, FS_Interval
    <2> QED
      BY <1>1, <2>2
  <1> HIDE DEF S, T, f
  <1>3. f \in Injection(S, T)
    BY <1>1 DEF Injection, IsInjective
  <1>4. f \in Surjection(S, T)
    BY <1>2, <1>3, FS_Injection
  <1>5. c \in T
    BY DEF T
  <1>6. PICK n \in S : f[n] = c
    BY <1>4, <1>5 DEF Surjection
  <1> QED
    BY <1>6 DEF S, f

LEMMA LoadStrings ==
  ASSUME Inv, NEW id \in Ids, NEW a \in Accounts, Load(id, a), Coded'
  PROVE  Spelt'
  <1> SUFFICES ASSUME NEW k \in Printed
               PROVE  /\ strings'[k] \in Seq(Names \union {NoName})
                      /\ Len(strings'[k]) = val'[k]
                      /\ strings'[k][1] = NoName
                      /\ \A n \in InData(k)' : strings'[k][dic'[k][n] + 1] = n
    BY DEF Spelt
  <1>1. k \in Kinds /\ FirstCode(k) = 1
    BY DEF Printed, Kinds, FirstCode
  <1> DEFINE n0 == val'[k]
             new(c) == CHOOSE n \in Names : dic'[k][n] = c - 1
             s == strings'[k]
  <1>2. /\ strings[k] \in Seq(Names \union {NoName}) /\ Len(strings[k]) = val[k]
        /\ strings[k][1] = NoName
        /\ \A n \in InData(k) : strings[k][dic[k][n] + 1] = n
    BY DEF Inv, Spelt
  <1>3. s = [c \in 1 .. n0 |-> IF c <= val[k] THEN strings[k][c] ELSE new(c)]
    <2>1. s = Strings(a, k)
      BY DEF Load, Printed
    <2>2. Known(a, k) = dic'[k] /\ NextVal(a, k) = n0
      BY <1>1, LoadKind
    <2> QED
      BY <1>2, <2>1, <2>2 DEF Strings
  <1>4. /\ n0 \in Nat /\ val[k] \in Nat /\ 1 <= val[k] /\ val[k] <= n0
        /\ InData(k)' = InData(k) \union NewNames(a, k)
    BY <1>1, LoadKind, LoadNames
  <1>5. ASSUME NEW n \in NewNames(a, k) PROVE new(dic'[k][n] + 1) = n
    <2>1. /\ n \in Names /\ dic'[k][n] \in Nat /\ val[k] <= dic'[k][n]
      BY <1>1, <1>4, LoadKind
    <2>2. \A m \in Names : dic'[k][m] = dic'[k][n] => m = n
      <3>1. ASSUME NEW m \in Names, dic'[k][m] = dic'[k][n] PROVE m \in InData(k)'
        <4>1. dic'[k][m] # ABSENT /\ dic'[k][m] # 0
          BY <1>4, <2>1, <3>1 DEF ABSENT
        <4> QED
          BY <1>1, <4>1 DEF Coded
      <3> QED
        BY <1>1, <1>4, <3>1 DEF Coded
    <2>3. dic'[k][n] + 1 - 1 = dic'[k][n]
      BY <2>1
    <2> QED
      BY <2>1, <2>2, <2>3
  <1>6. ASSUME NEW c \in 1 .. n0, ~ c <= val[k] PROVE new(c) \in Names
    <2>1. c - 1 \in val[k] .. n0 - 1 /\ n0 = NextVal(a, k) /\ dic'[k] = Known(a, k)
      BY <1>1, <1>4, <1>6, LoadKind
    <2>2. PICK n \in NewNames(a, k) : dic'[k][n] = c - 1
      BY <1>1, <2>1, NewCodesAllUsed DEF Inv
    <2>3. n \in Names
      BY <1>1, LoadKind
    <2> QED
      BY <2>2, <2>3
  <1> HIDE DEF new
  <1>7. ASSUME NEW n \in InData(k)' PROVE s[dic'[k][n] + 1] = n
    <2>1. CASE n \in InData(k)
      <3>1. dic'[k][n] = dic[k][n] /\ dic[k][n] \in Nat /\ dic[k][n] <= val[k] - 1
        BY <1>1, <1>4, <2>1, LoadKind
      <3>2. dic[k][n] + 1 \in 1 .. n0 /\ dic[k][n] + 1 <= val[k]
        BY <1>4, <3>1
      <3> QED
        BY <1>2, <1>3, <2>1, <3>1, <3>2
    <2>2. CASE n \in NewNames(a, k)
      <3>1. dic'[k][n] \in Nat /\ val[k] <= dic'[k][n] /\ dic'[k][n] <= n0 - 1
        BY <1>1, <1>4, <2>2, LoadKind
      <3>2. dic'[k][n] + 1 \in 1 .. n0 /\ ~ dic'[k][n] + 1 <= val[k]
        BY <1>4, <3>1
      <3> QED
        BY <1>3, <1>5, <2>2, <3>2
    <2> QED
      BY <1>4, <2>1, <2>2
  <1>8. \A c \in 1 .. n0 : s[c] \in Names \union {NoName}
    <2> SUFFICES ASSUME NEW c \in 1 .. n0 PROVE s[c] \in Names \union {NoName}
      OBVIOUS
    <2>1. c <= val[k] => strings[k][c] \in Names \union {NoName}
      BY <1>2, <1>4
    <2> QED
      BY <1>3, <1>6, <2>1
  <1>9. s \in Seq(Names \union {NoName}) /\ Len(s) = n0
    <2>1. s \in [1 .. n0 -> Names \union {NoName}]
      BY <1>3, <1>8
    <2> QED
      BY <1>4, <2>1
  <1>10. s[1] = NoName
    BY <1>2, <1>3, <1>4
  <1> QED
    BY <1>7, <1>9, <1>10

LEMMA LoadVectors ==
  ASSUME Inv, NEW id \in Ids, NEW a \in Accounts, Load(id, a), Coded'
  PROVE  Vectored'
  <1> SUFFICES ASSUME NEW k \in Indexed
               PROVE  /\ vec'[k] \in Seq(SUBSET Ids)
                      /\ Len(vec'[k]) = val'[k]
                      /\ \A n \in InData(k)' :
                           vec'[k][dic'[k][n] + 1] = {j \in Loaded' : Has(j, k, n)'}
    BY DEF Vectored
  <1> DEFINE n0 == val'[k]
             v == vec'[k]
             codes == {dic'[k][n] : n \in ToSet(NamesOf(a, k))}
             old(c) == IF c <= val[k] THEN vec[k][c] ELSE {}
  <1>1. k \in Kinds
    BY DEF Indexed, Kinds
  <1>2. /\ vec[k] \in Seq(SUBSET Ids) /\ Len(vec[k]) = val[k]
        /\ \A n \in InData(k) : vec[k][dic[k][n] + 1] = {j \in Loaded : Has(j, k, n)}
    BY DEF Inv, Vectored
  <1>3. /\ n0 \in Nat /\ val[k] \in Nat /\ val[k] <= n0 /\ FirstCode(k) \in Nat
        /\ InData(k)' = InData(k) \union NewNames(a, k)
    BY <1>1, LoadKind, LoadNames
  <1>4. PICK cs : /\ v = BitsSet(vec[k], n0, cs, id)
                  /\ \A c \in FirstCode(k) .. n0 - 1 : c \in cs <=> c \in codes
    <2>1. CASE k = "interests"
      <3>1. v = BitsSet(vec[k], n0, {dic'[k][n] : n \in ToSet(a.interests)}, id)
        <4>1. vec'.interests = BitsSet(vec.interests, val'.interests,
                                       {dic'.interests[n] : n \in ToSet(a.interests)}, id)
          BY DEF Load
        <4> QED
          BY <2>1, <4>1
      <3>2. NamesOf(a, k) = a.interests
        BY <2>1 DEF NamesOf
      <3> QED
        BY <3>1, <3>2
    <2>2. CASE k = "fname"
      <3>1. v = BitsSet(vec[k], n0, {Code(dic'.fname, a.fname)}, id)
        <4>1. vec'.fname = BitsSet(vec.fname, val'.fname, {Code(dic'.fname, a.fname)}, id)
          BY DEF Load
        <4> QED
          BY <2>2, <4>1
      <3>2. FirstCode(k) = 1 /\ NamesOf(a, k) = IF a.fname = NoName THEN <<>> ELSE <<a.fname>>
        BY <2>2 DEF FirstCode, NamesOf
      <3>3. codes = IF a.fname = NoName THEN {} ELSE {dic'.fname[a.fname]}
        BY <2>2, <3>2 DEF ToSet
      <3>4. \A c \in FirstCode(k) .. n0 - 1 : c \in {Code(dic'.fname, a.fname)} <=> c \in codes
        <4>1. \A c \in FirstCode(k) .. n0 - 1 : c # EMPTY
          BY <1>3, <3>2 DEF EMPTY
        <4>2. CASE a.fname = NoName
          BY <3>3, <4>1, <4>2 DEF Code
        <4>3. CASE a.fname # NoName
          BY <3>3, <4>3 DEF Code
        <4> QED
          BY <4>2, <4>3
      <3> QED
        BY <3>1, <3>4
    <2> QED
      BY <2>1, <2>2 DEF Indexed
  <1>5. v = [c \in 1 .. n0 |-> old(c) \union (IF c - 1 \in cs THEN {id} ELSE {})]
    BY <1>2, <1>4 DEF BitsSet
  <1>6. \A c \in 1 .. n0 : old(c) \subseteq Ids
    BY <1>2, <1>3
  <1> HIDE DEF v, codes, n0, old
  <1>7. v \in Seq(SUBSET Ids) /\ Len(v) = n0
    <2>1. v \in [1 .. n0 -> SUBSET Ids]
      BY <1>5, <1>6
    <2> QED
      BY <1>3, <2>1
  <1>8. ASSUME NEW n \in InData(k)'
        PROVE  v[dic'[k][n] + 1] = {j \in Loaded' : Has(j, k, n)'}
    <2> DEFINE d == dic'[k][n]
    <2>1. d \in FirstCode(k) .. n0 - 1 /\ d \in Nat /\ d + 1 \in 1 .. n0
      BY <1>1, <1>3, LoadKind DEF n0
    <2>2. d \in codes <=> n \in ToSet(NamesOf(a, k))
      <3>1. \A m \in ToSet(NamesOf(a, k)) : m \in InData(k)'
        BY <1>1, LoadNames
      <3>2. \A m \in InData(k)' : dic'[k][m] = dic'[k][n] => m = n
        BY <1>1 DEF Coded
      <3> QED
        BY <3>1, <3>2 DEF codes
    <2>3. old(d + 1) = {j \in Loaded : Has(j, k, n)}
      <3>1. CASE n \in InData(k)
        <4>1. d = dic[k][n] /\ d <= val[k] - 1
          BY <1>1, <1>3, <3>1, LoadKind
        <4>2. d + 1 <= val[k]
          BY <1>3, <2>1, <4>1
        <4> QED
          BY <1>2, <3>1, <4>1, <4>2 DEF old
      <3>2. CASE n \in NewNames(a, k)
        <4>1. val[k] <= d
          BY <1>1, <1>3, <3>2, LoadKind
        <4>2. ~ d + 1 <= val[k]
          BY <1>3, <2>1, <4>1
        <4>3. n \notin InData(k)
          BY <1>1, <3>2, LoadNames
        <4>4. \A j \in Loaded : ~ Has(j, k, n)
          BY <4>3 DEF InData, Has
        <4> QED
          BY <4>2, <4>4 DEF old
      <3> QED
        BY <1>3, <3>1, <3>2
    <2>4. v[d + 1] = old(d + 1) \union (IF d \in cs THEN {id} ELSE {})
      <3>1. d + 1 - 1 = d
        BY <2>1
      <3> QED
        BY <1>5, <2>1, <3>1
    <2>5. {j \in Loaded' : Has(j, k, n)'}
            = {j \in Loaded : Has(j, k, n)} \union {j \in {id} : n \in ToSet(NamesOf(a, k))}
      BY <1>1, LoadNames
    <2>6. d \in cs <=> n \in ToSet(NamesOf(a, k))
      BY <1>4, <2>1, <2>2 DEF n0
    <2> QED
      BY <2>3, <2>4, <2>5, <2>6
  <1> QED
    BY <1>7, <1>8 DEF v, n0

(* The data have the names of an account they have.                        *)
LEMMA HasItsNames ==
  ASSUME Histories, NEW id \in Loaded
  PROVE  /\ data[id] \in Accounts
         /\ data[id].fname # NoName => data[id].fname \in InData("fname")
         /\ data[id].sname # NoName => data[id].sname \in InData("sname")
         /\ data[id].domain \in InData("domain")
  <1>1. data[id] \in Accounts
    BY DEF Histories, Loaded
  <1>2. \A k : ToSet(NamesOf(data[id], k)) \subseteq InData(k)
    BY DEF InData
  <1>3. /\ data[id].fname # NoName => ToSet(NamesOf(data[id], "fname")) = {data[id].fname}
        /\ data[id].sname # NoName => ToSet(NamesOf(data[id], "sname")) = {data[id].sname}
        /\ ToSet(NamesOf(data[id], "domain")) = {data[id].domain}
    BY DEF NamesOf, ToSet
  <1> QED
    BY <1>1, <1>2, <1>3

LEMMA LoadAccounts ==
  ASSUME Inv, NEW id \in Ids, NEW a \in Accounts, Load(id, a)
  PROVE  Stored' /\ Mailed'
  <1>0. PICK p \in Sortings(a.likes) :
          accounts' = [accounts EXCEPT ![id] =
            [fname |-> Code(dic'.fname, a.fname), sname |-> Code(dic'.sname, a.sname),
             email |-> a.email, domain |-> dic'.domain[a.domain], sex |-> a.sex,
             likes |-> [n \in DOMAIN a.likes |-> a.likes[p[n]]]]]
    BY DEF Load
  <1> DEFINE new == [fname |-> Code(dic'.fname, a.fname), sname |-> Code(dic'.sname, a.sname),
                     email |-> a.email, domain |-> dic'.domain[a.domain], sex |-> a.sex,
                     likes |-> [n \in DOMAIN a.likes |-> a.likes[p[n]]]]
  <1>1. /\ accounts' = [accounts EXCEPT ![id] = new] /\ posted' = posted
        /\ ~ serving /\ serving' = serving /\ email_set' = email_set
    BY <1>0 DEF Load
  <1>2. /\ new.fname = Code(dic'.fname, a.fname) /\ new.sname = Code(dic'.sname, a.sname)
        /\ new.email = a.email /\ new.domain = dic'.domain[a.domain]
    OBVIOUS
  <1> HIDE DEF new
  <1>3. /\ DOMAIN accounts' = Ids /\ accounts'[id] = new
        /\ \A j \in Ids : j # id => accounts'[j] = accounts[j]
    BY <1>1 DEF Inv, Stored
  <1>4. \A k \in Kinds : \A n \in InData(k) : dic'[k][n] = dic[k][n]
    BY LoadKind
  <1>5. ASSUME NEW j \in Loaded
        PROVE  /\ Code(dic'.fname, data[j].fname) = Code(dic.fname, data[j].fname)
               /\ Code(dic'.sname, data[j].sname) = Code(dic.sname, data[j].sname)
               /\ dic'.domain[data[j].domain] = dic.domain[data[j].domain]
    BY <1>4, HasItsNames DEF Inv, Code, Kinds
  <1>6. \A j \in Ids : posted[j] = NoRecord
    BY <1>1 DEF Inv, Histories, Posted
  <1>7. /\ data'[id] = a /\ \A j \in Ids : j # id => data'[j] = data[j]
        /\ a # NoRecord
    BY LoadRecords, AccountsAreRecords DEF Load, Inv, Histories
  <1>8. Stored'
    <2> SUFFICES ASSUME NEW j \in Ids
                 PROVE  IF data'[j] # NoRecord
                        THEN /\ accounts'[j].fname = Code(dic'.fname, data'[j].fname)
                             /\ accounts'[j].sname = Code(dic'.sname, data'[j].sname)
                             /\ accounts'[j].domain = dic'.domain[data'[j].domain]
                             /\ accounts'[j].email = data'[j].email
                        ELSE accounts'[j] = NoAccount /\ posted'[j] = NoRecord
      BY <1>3 DEF Stored
    <2>1. CASE j = id
      BY <1>2, <1>3, <1>7, <2>1
    <2>2. CASE j # id /\ data[j] # NoRecord
      <3>1. /\ accounts[j].fname = Code(dic.fname, data[j].fname)
            /\ accounts[j].sname = Code(dic.sname, data[j].sname)
            /\ accounts[j].domain = dic.domain[data[j].domain]
            /\ accounts[j].email = data[j].email
        BY <2>2 DEF Inv, Stored
      <3>2. j \in Loaded
        BY <2>2 DEF Loaded
      <3> QED
        BY <1>3, <1>5, <1>7, <2>2, <3>1, <3>2
    <2>3. CASE j # id /\ data[j] = NoRecord
      BY <1>1, <1>3, <1>6, <1>7, <2>3 DEF Inv, Stored
    <2> QED
      BY <2>1, <2>2, <2>3
  <1>9. Mailed'
    BY <1>1 DEF Inv, Mailed
  <1> QED
    BY <1>8, <1>9

LEMMA LoadKeeps ==
  ASSUME Inv, NEW id \in Ids, NEW a \in Accounts, Load(id, a)
  PROVE  Inv'
  BY LoadRecords, LoadCodes, LoadStrings, LoadVectors, LoadAccounts DEF Inv

-----------------------------------------------------------------------------
(* Posting an account, and making the index.                               *)
LEMMA InsertedOnes ==
  ASSUME Coded, serving, NEW k \in Kinds, NEW names
  PROVE  /\ Inserted(k, names) \in [Names -> Int]
         /\ \A n \in Names : IF n \in InData(k) THEN Inserted(k, names)[n] = dic[k][n]
                            ELSE /\ Inserted(k, names)[n] \in {ABSENT, 0}
                                 /\ n \in names => Inserted(k, names)[n] = 0
  <1>1. dic[k] \in [Names -> Int] /\ val[k] \in Nat /\ FirstCode(k) \in Nat
    BY DEF Coded, FirstCode
  <1>2. \A n \in Names : IF n \in InData(k) THEN dic[k][n] # ABSENT
                        ELSE dic[k][n] \in {ABSENT, 0}
    BY <1>1 DEF Coded, ABSENT
  <1> QED
    BY <1>1, <1>2 DEF Inserted, ABSENT

LEMMA PostNewKeeps ==
  ASSUME Inv, NEW id \in Ids, NEW a \in Accounts, PostNew(id, a)
  PROVE  Inv'
  <1> DEFINE ins == [dic EXCEPT !.fname = Inserted("fname", {a.fname, a.sname}),
                                !.domain = Inserted("domain", {a.domain}),
                                !.interests = Inserted("interests", ToSet(a.interests))]
             new == [fname |-> Code(dic'.fname, a.fname), sname |-> Code(dic'.fname, a.sname),
                     email |-> a.email, domain |-> dic'.domain[a.domain], sex |-> a.sex,
                     likes |-> <<>>]
  <1>1. /\ dic' = ins /\ accounts' = [accounts EXCEPT ![id] = new]
        /\ posted' = [posted EXCEPT ![id] = a] /\ email_set' = email_set \union {a.email}
        /\ val' = val /\ strings' = strings /\ vec' = vec /\ data' = data
        /\ serving' = serving /\ serving /\ id \notin Loaded \union Posted
    BY DEF PostNew
  <1>2. /\ new.fname = Code(dic'.fname, a.fname) /\ new.email = a.email
        /\ new.domain = dic'.domain[a.domain]
    OBVIOUS
  <1> HIDE DEF new
  <1>3. /\ dic' \in [Kinds -> [Names -> Int]]
        /\ \A k \in Kinds : \A n \in Names :
             IF n \in InData(k) THEN dic'[k][n] = dic[k][n] ELSE dic'[k][n] \in {ABSENT, 0}
        /\ \A n \in Names : n \notin InData("fname") /\ n = a.fname => dic'.fname[n] = 0
        /\ \A n \in Names : n \notin InData("domain") /\ n = a.domain => dic'.domain[n] = 0
    <2> DEFINE f == Inserted("fname", {a.fname, a.sname})
               d == Inserted("domain", {a.domain})
               i == Inserted("interests", ToSet(a.interests))
    <2>1. dic \in [Kinds -> [Names -> Int]]
      BY DEF Inv, Coded
    <2>2. f \in [Names -> Int] /\ d \in [Names -> Int] /\ i \in [Names -> Int]
      BY <1>1, InsertedOnes DEF Inv, Kinds
    <2> HIDE DEF f, d, i
    <2>3. /\ dic' \in [Kinds -> [Names -> Int]]
          /\ dic'["fname"] = f /\ dic'["domain"] = d /\ dic'["interests"] = i
          /\ dic'["sname"] = dic["sname"]
      BY <1>1, <2>1, <2>2 DEF Kinds, f, d, i
    <2>4. \A n \in Names : IF n \in InData("sname") THEN TRUE ELSE dic["sname"][n] \in {ABSENT, 0}
      BY DEF Inv, Coded, Kinds
    <2>5. ASSUME NEW k \in Kinds, NEW n \in Names
          PROVE  IF n \in InData(k) THEN dic'[k][n] = dic[k][n] ELSE dic'[k][n] \in {ABSENT, 0}
      <3>1. CASE k = "fname"
        BY <1>1, <2>3, <3>1, InsertedOnes DEF Inv, f
      <3>2. CASE k = "domain"
        BY <1>1, <2>3, <3>2, InsertedOnes DEF Inv, d
      <3>3. CASE k = "interests"
        BY <1>1, <2>3, <3>3, InsertedOnes DEF Inv, i
      <3>4. CASE k = "sname"
        BY <2>3, <2>4, <3>4
      <3> QED
        BY <3>1, <3>2, <3>3, <3>4 DEF Kinds
    <2>6. \A n \in Names : n \notin InData("fname") /\ n = a.fname => f[n] = 0
      BY <1>1, InsertedOnes DEF Inv, Kinds, f
    <2>7. \A n \in Names : n \notin InData("domain") /\ n = a.domain => d[n] = 0
      BY <1>1, InsertedOnes DEF Inv, Kinds, d
    <2> QED
      BY <2>3, <2>5, <2>6, <2>7
  <1> HIDE DEF ins
  <1>4. /\ Loaded' = Loaded /\ \A k : InData(k)' = InData(k)
        /\ \A j, k, n : Has(j, k, n)' = Has(j, k, n)
    BY <1>1 DEF Loaded, InData, Has
  <1>5. \A k \in Kinds : InData(k) \subseteq Names
    BY InDataNamed DEF Inv
  <1>6. Histories'
    <2>1. serving' \in BOOLEAN /\ serving'
      BY <1>1 DEF Inv, Histories
    <2>2. \A j \in Ids : data'[j] = NoRecord \/ posted'[j] = NoRecord
      BY <1>1 DEF Inv, Histories, Loaded
    <2>3. posted' \in [Ids -> Accounts \union {NoRecord}]
      BY <1>1 DEF Inv, Histories
    <2> QED
      BY <1>1, <2>1, <2>2, <2>3 DEF Inv, Histories
  <1>7. Coded'
    <2> SUFFICES ASSUME NEW k \in Kinds
                 PROVE  /\ IsFiniteSet(InData(k)) /\ val[k] = FirstCode(k) + Cardinality(InData(k))
                        /\ \A n \in Names :
                             IF n \in InData(k) THEN dic'[k][n] \in FirstCode(k) .. val[k] - 1
                             ELSE dic'[k][n] \in {ABSENT, 0}
                        /\ \A n, m \in InData(k) : dic'[k][n] = dic'[k][m] => n = m
      <3>1. val' \in [Kinds -> Nat]
        BY <1>1 DEF Inv, Coded
      <3> QED
        BY <1>1, <1>3, <1>4, <3>1 DEF Coded
    <2> QED
      BY <1>3, <1>5 DEF Inv, Coded
  <1>8. Spelt'
    BY <1>1, <1>3, <1>4, <1>5 DEF Inv, Spelt, Printed, Kinds
  <1>9. Vectored'
    <2>1. ASSUME NEW k \in Indexed, NEW n \in InData(k)
          PROVE  vec[k][dic'[k][n] + 1] = {j \in Loaded : Has(j, k, n)}
      <3>1. k \in Kinds /\ n \in Names
        BY <1>5 DEF Indexed, Kinds
      <3> QED
        BY <1>3, <3>1 DEF Inv, Vectored
    <2>2. ASSUME NEW k, NEW n
          PROVE  {j \in Loaded' : Has(j, k, n)'} = {j \in Loaded : Has(j, k, n)}
      BY <1>4
    <2> QED
      BY <1>1, <1>4, <2>1, <2>2 DEF Inv, Vectored
  <1>10. /\ DOMAIN accounts' = Ids /\ accounts'[id] = new
         /\ \A j \in Ids : j # id => accounts'[j] = accounts[j]
         /\ posted'[id] = a /\ \A j \in Ids : j # id => posted'[j] = posted[j]
         /\ data[id] = NoRecord /\ posted[id] = NoRecord
         /\ a # NoRecord /\ a.email \in Names /\ a.domain \in Names
         /\ a.fname \in Names \union {NoName}
    BY <1>1, AccountsAreRecords DEF Inv, Stored, Histories, Loaded, Posted
  <1>11. Stored'
    <2> SUFFICES ASSUME NEW j \in Ids
                 PROVE  IF data[j] # NoRecord
                        THEN /\ accounts'[j].fname = Code(dic'.fname, data[j].fname)
                             /\ accounts'[j].sname = Code(dic'.sname, data[j].sname)
                             /\ accounts'[j].domain = dic'.domain[data[j].domain]
                             /\ accounts'[j].email = data[j].email
                        ELSE IF posted'[j] # NoRecord
                        THEN /\ accounts'[j].fname = IF posted'[j].fname \in InData("fname")
                                                     THEN dic'.fname[posted'[j].fname] ELSE EMPTY
                             /\ accounts'[j].domain \in Nat
                             /\ accounts'[j].email = posted'[j].email
                        ELSE accounts'[j] = NoAccount
      BY <1>1, <1>4, <1>10 DEF Stored
    <2>1. CASE j = id
      <3>1. new.domain \in Nat
        <4>1. a.domain \in InData("domain") => dic.domain[a.domain] \in Nat
          <5>1. /\ val["domain"] \in Nat /\ FirstCode("domain") = 0
                /\ a.domain \in InData("domain") =>
                     dic["domain"][a.domain] \in FirstCode("domain") .. val["domain"] - 1
            BY <1>10 DEF Inv, Coded, Kinds, FirstCode
          <5> QED
            BY <5>1
        <4>2. /\ a.domain \in InData("domain") => dic'.domain[a.domain] = dic.domain[a.domain]
              /\ a.domain \notin InData("domain") => dic'.domain[a.domain] = 0
          BY <1>3, <1>10 DEF Kinds
        <4> QED
          BY <1>2, <4>1, <4>2
      <3>2. new.fname = IF a.fname \in InData("fname") THEN dic'.fname[a.fname] ELSE EMPTY
        <4>1. NoName \notin InData("fname")
          BY <1>5, NameAssumption DEF Kinds
        <4> QED
          BY <1>2, <1>3, <1>10, <4>1 DEF Code, EMPTY
      <3> QED
        BY <1>2, <1>10, <2>1, <3>1, <3>2
    <2>2. CASE j # id /\ data[j] # NoRecord
      <3>1. /\ accounts[j].fname = Code(dic.fname, data[j].fname)
            /\ accounts[j].sname = Code(dic.sname, data[j].sname)
            /\ accounts[j].domain = dic.domain[data[j].domain]
            /\ accounts[j].email = data[j].email
        BY <2>2 DEF Inv, Stored
      <3>2. j \in Loaded
        BY <2>2 DEF Loaded
      <3>3. /\ Code(dic'.fname, data[j].fname) = Code(dic.fname, data[j].fname)
            /\ Code(dic'.sname, data[j].sname) = Code(dic.sname, data[j].sname)
            /\ dic'.domain[data[j].domain] = dic.domain[data[j].domain]
        BY <1>3, <1>5, <3>2, HasItsNames DEF Inv, Code, Kinds
      <3> QED
        BY <1>10, <2>2, <3>1, <3>3
    <2>3. CASE j # id /\ data[j] = NoRecord /\ posted[j] # NoRecord
      <3>1. /\ accounts[j].fname = IF posted[j].fname \in InData("fname")
                                   THEN dic.fname[posted[j].fname] ELSE EMPTY
            /\ accounts[j].domain \in Nat
            /\ accounts[j].email = posted[j].email
        BY <2>3 DEF Inv, Stored
      <3>2. posted[j].fname \in InData("fname") => dic'.fname[posted[j].fname] = dic.fname[posted[j].fname]
        BY <1>3, <1>5 DEF Kinds
      <3> QED
        BY <1>10, <2>3, <3>1, <3>2
    <2>4. CASE j # id /\ data[j] = NoRecord /\ posted[j] = NoRecord
      BY <1>10, <2>4 DEF Inv, Stored
    <2> QED
      BY <2>1, <2>2, <2>3, <2>4
  <1>12. Mailed'
    <2>1. accounts[id].email = NoName
      BY <1>10 DEF Inv, Stored, NoAccount
    <2>2. accounts'[id].email = a.email
      BY <1>2, <1>10
    <2>3. ASSUME NEW e \in Names
          PROVE  e \in email_set' <=> \E j \in Ids : accounts'[j].email = e
      <3>1. (\E j \in Ids : accounts'[j].email = e)
              <=> e = a.email \/ \E j \in Ids : accounts[j].email = e
        BY <1>10, <2>1, <2>2, NameAssumption
      <3>2. e \in email_set <=> \E j \in Ids : accounts[j].email = e
        BY <1>1 DEF Inv, Mailed
      <3> QED
        BY <1>1, <3>1, <3>2
    <2> QED
      BY <1>1, <1>10, <2>3 DEF Inv, Mailed
  <1> QED
    BY <1>6, <1>7, <1>8, <1>9, <1>11, <1>12 DEF Inv

LEMMA MakeIndexKeeps == Inv /\ MakeIndex => Inv'
  <1> SUFFICES ASSUME Inv, MakeIndex PROVE Inv'
    OBVIOUS
  <1>1. /\ dic' = dic /\ val' = val /\ strings' = strings /\ vec' = vec
        /\ accounts' = accounts /\ data' = data /\ posted' = posted
        /\ email_set' = email_set \union {accounts[k].email : k \in Ids}
        /\ serving'
    BY DEF MakeIndex
  <1>2. serving' \in BOOLEAN
    BY DEF MakeIndex
  <1>3. /\ Loaded' = Loaded /\ Posted' = Posted /\ \A k : InData(k)' = InData(k)
        /\ \A j, k, n : Has(j, k, n)' = Has(j, k, n)
    BY <1>1 DEF Loaded, Posted, InData, Has
  <1>4. Histories' /\ Spelt' /\ Stored'
    BY <1>1, <1>2, <1>3 DEF Inv, Histories, Spelt, Stored
  <1>5. Vectored'
    BY <1>1, <1>3 DEF Inv, Vectored
  <1>6. Coded'
    BY <1>1, <1>3 DEF Inv, Coded
  <1>7. Mailed'
    <2>1. \A j \in Ids : accounts[j].email \in Names \union {NoName}
      <3> SUFFICES ASSUME NEW j \in Ids PROVE accounts[j].email \in Names \union {NoName}
        OBVIOUS
      <3>1. /\ data[j] # NoRecord => data[j].email \in Names
            /\ posted[j] # NoRecord => posted[j].email \in Names
        BY AccountsAreRecords DEF Inv, Histories
      <3> QED
        BY <3>1 DEF Inv, Stored, NoAccount
    <2> QED
      BY <1>1, <2>1 DEF Inv, Mailed
  <1> QED
    BY <1>4, <1>5, <1>6, <1>7 DEF Inv

LEMMA InvInit == Init => Inv
  <1> SUFFICES ASSUME Init PROVE Inv
    OBVIOUS
  <1>1. /\ Loaded = {} /\ Posted = {} /\ \A k : InData(k) = {}
        /\ data = [k \in Ids |-> NoRecord] /\ posted = [k \in Ids |-> NoRecord]
    BY DEF Init, Loaded, Posted, InData
  <1>2. Histories
    BY <1>1 DEF Init, Histories
  <1>3. Coded
    <2>1. dic \in [Kinds -> [Names -> Int]] /\ val \in [Kinds -> Nat]
      BY DEF Init, ABSENT, FirstCode
    <2>2. IsFiniteSet({}) /\ Cardinality({}) = 0
      BY FS_EmptySet
    <2>3. \A k \in Kinds : FirstCode(k) \in Nat /\ val[k] = FirstCode(k)
      BY DEF Init, FirstCode
    <2>4. \A k \in Kinds : \A n \in Names : dic[k][n] = ABSENT
      BY DEF Init
    <2>5. \A k \in Kinds : val[k] = FirstCode(k) + Cardinality({})
      BY <2>2, <2>3
    <2> QED
      BY <1>1, <2>1, <2>2, <2>4, <2>5 DEF Coded
  <1>4. Spelt
    BY <1>1 DEF Init, Spelt, Printed, FirstCode, Kinds
  <1>5. Vectored
    <2>1. vec["fname"] = << {} >> /\ vec["interests"] = << >>
      BY DEF Init
    <2>2. val["fname"] = 1 /\ val["interests"] = 0
      BY DEF Init, FirstCode, Kinds
    <2>3. /\ << {} >> \in Seq(SUBSET Ids) /\ Len(<< {} >>) = 1
          /\ << >> \in Seq(SUBSET Ids) /\ Len(<< >>) = 0
      OBVIOUS
    <2> QED
      BY <1>1, <2>1, <2>2, <2>3 DEF Vectored, Indexed
  <1>6. Stored
    BY <1>1 DEF Init, Stored
  <1>7. Mailed
    BY DEF Init, Mailed
  <1> QED
    BY <1>2, <1>3, <1>4, <1>5, <1>6, <1>7 DEF Inv

LEMMA InvStep == Inv /\ [Next]_vars => Inv'
  <1> SUFFICES ASSUME Inv, [Next]_vars PROVE Inv'
    OBVIOUS
  <1>1. CASE UNCHANGED vars
    <2>1. /\ dic' = dic /\ val' = val /\ strings' = strings /\ vec' = vec
          /\ accounts' = accounts /\ data' = data /\ posted' = posted
          /\ email_set' = email_set /\ serving' = serving
      BY <1>1 DEF vars
    <2>2. /\ Loaded' = Loaded /\ Posted' = Posted /\ \A k : InData(k)' = InData(k)
          /\ \A j, k, n : Has(j, k, n)' = Has(j, k, n)
      BY <2>1 DEF Loaded, Posted, InData, Has
    <2>3. Vectored'
      BY <2>1, <2>2 DEF Inv, Vectored
    <2> QED
      BY <2>1, <2>2, <2>3 DEF Inv, Histories, Coded, Spelt, Stored, Mailed
  <1> QED
    BY <1>1, LoadKeeps, PostNewKeeps, MakeIndexKeeps DEF Next

LEMMA InvAlways == Spec => []Inv
  BY InvInit, InvStep, PTL DEF Spec

-----------------------------------------------------------------------------
(* The codes of the dictionaries stay below val, one for each name at most, *)
(* and there is a string and a vector for each; what is stored of an       *)
(* account has a string (src/load_data.cpp, src/post_new.cpp).             *)
THEOREM NamesAreTyped == Spec => []NamesTyped
  <1>1. Inv => NamesTyped
    <2> SUFFICES ASSUME Inv PROVE NamesTyped
      OBVIOUS
    <2>1. ASSUME NEW k \in Kinds
          PROVE  /\ val[k] \in FirstCode(k) .. FirstCode(k) + Cardinality(Names)
                 /\ Cardinality(Names) \in Nat /\ FirstCode(k) \in 0 .. 1
                 /\ \A n \in Names : dic[k][n] \in {ABSENT} \union 0 .. Cardinality(Names)
      <3>1. InData(k) \subseteq Names
        BY InDataNamed DEF Inv
      <3>2. /\ Cardinality(InData(k)) \in Nat /\ Cardinality(Names) \in Nat
            /\ Cardinality(InData(k)) <= Cardinality(Names)
        BY <3>1, NameAssumption, FS_Subset, FS_CardinalityType
      <3>3. FirstCode(k) \in 0 .. 1 /\ val[k] = FirstCode(k) + Cardinality(InData(k))
        BY DEF Inv, Coded, FirstCode
      <3>4. val[k] \in FirstCode(k) .. FirstCode(k) + Cardinality(Names)
        BY <3>2, <3>3
      <3>5. ASSUME NEW n \in Names
            PROVE  dic[k][n] \in {ABSENT} \union 0 .. Cardinality(Names)
        <4>1. \/ dic[k][n] \in FirstCode(k) .. val[k] - 1
              \/ dic[k][n] = ABSENT \/ dic[k][n] = 0
          BY DEF Inv, Coded
        <4> QED
          BY <3>2, <3>3, <3>4, <4>1
      <3> QED
        BY <3>2, <3>3, <3>4, <3>5
    <2>2. dic \in [Kinds -> [Names -> {ABSENT} \union 0 .. Cardinality(Names)]]
      BY <2>1 DEF Inv, Coded
    <2>3. ASSUME NEW id \in Ids
          PROVE  accounts[id].fname < val.fname /\ accounts[id].domain \in Nat
      <3>1. /\ val["fname"] \in Nat /\ 0 < val["fname"]
        BY <2>1 DEF Kinds, FirstCode
      <3>2. /\ \A n \in InData("fname") : dic["fname"][n] \in Int /\ dic["fname"][n] < val["fname"]
            /\ \A n \in InData("domain") : dic["domain"][n] \in Nat
        <4>1. \A k \in Kinds : InData(k) \subseteq Names
          BY InDataNamed DEF Inv
        <4>2. FirstCode("fname") = 1 /\ FirstCode("domain") = 0 /\ val["domain"] \in Nat
          BY <2>1 DEF Kinds, FirstCode
        <4>3. /\ \A n \in InData("fname") : dic["fname"][n] \in 1 .. val["fname"] - 1
              /\ \A n \in InData("domain") : dic["domain"][n] \in 0 .. val["domain"] - 1
          BY <4>1, <4>2 DEF Inv, Coded, Kinds
        <4> QED
          BY <3>1, <4>2, <4>3
      <3>3. CASE data[id] # NoRecord
        <4>1. /\ accounts[id].fname = Code(dic.fname, data[id].fname)
              /\ accounts[id].domain = dic.domain[data[id].domain]
              /\ id \in Loaded
          BY <3>3 DEF Inv, Stored, Loaded
        <4> QED
          BY <3>1, <3>2, <4>1, HasItsNames DEF Inv, Code, EMPTY
      <3>4. CASE data[id] = NoRecord /\ posted[id] # NoRecord
        BY <3>1, <3>2, <3>4 DEF Inv, Stored, EMPTY
      <3>5. CASE data[id] = NoRecord /\ posted[id] = NoRecord
        BY <3>1, <3>5 DEF Inv, Stored, NoAccount, EMPTY
      <3> QED
        BY <3>3, <3>4, <3>5
    <2>4. /\ \A k \in {"fname", "sname"} : Len(strings[k]) = val[k]
          /\ \A k \in {"fname", "interests"} : Len(vec[k]) = val[k]
      BY DEF Inv, Spelt, Vectored, Printed, Indexed
    <2> QED
      BY <2>1, <2>2, <2>3, <2>4 DEF Inv, Histories, Mailed, NamesTyped
  <1> QED
    BY <1>1, InvAlways, PTL

(* Accounts are printed with their names: dic_fname_strings and the codes  *)
(* of dic_fname correspond, also after postNew put codes 0 into it.        *)
THEOREM NamesAreAlwaysPrinted == Spec => []NamesPrinted
  <1>1. Inv => NamesPrinted
    <2> SUFFICES ASSUME Inv PROVE NamesPrinted
      OBVIOUS
    <2>1. ASSUME NEW k \in Printed
          PROVE  /\ strings[k][EMPTY + 1] = NoName
                 /\ \A n \in InData(k) : strings[k][dic[k][n] + 1] = n
      BY DEF Inv, Spelt, EMPTY
    <2>2. ASSUME NEW id \in Loaded
          PROVE  /\ strings.fname[accounts[id].fname + 1] = data[id].fname
                 /\ strings.sname[accounts[id].sname + 1] = data[id].sname
      <3>1. /\ accounts[id].fname = Code(dic.fname, data[id].fname)
            /\ accounts[id].sname = Code(dic.sname, data[id].sname)
        BY DEF Inv, Stored, Loaded
      <3>2. strings.fname[accounts[id].fname + 1] = data[id].fname
        BY <2>1, <3>1, HasItsNames DEF Inv, Code, Printed
      <3>3. strings.sname[accounts[id].sname + 1] = data[id].sname
        BY <2>1, <3>1, HasItsNames DEF Inv, Code, Printed
      <3> QED
        BY <3>2, <3>3
    <2>3. ASSUME NEW id \in Posted
          PROVE  strings.fname[accounts[id].fname + 1] =
                   IF posted[id].fname \in InData("fname") THEN posted[id].fname ELSE NoName
      <3>1. data[id] = NoRecord
        BY DEF Inv, Histories, Loaded, Posted
      <3> QED
        BY <2>1, <3>1 DEF Inv, Stored, Posted, Printed
    <2> QED
      BY <2>2, <2>3 DEF NamesPrinted
  <1> QED
    BY <1>1, InvAlways, PTL

(* A name of the data finds the accounts that have it, by its vector or by *)
(* its code, and no other name is taken for one of the data's later ones.  *)
THEOREM NamesAlwaysFind == Spec => []NamesFind
  <1>1. Inv => NamesFind
    <2> SUFFICES ASSUME Inv, NEW k \in Kinds \ {"sname"}, NEW n \in Names
                 PROVE  IF n \in InData(k)
                        THEN {id \in Loaded : n \in ToSet(NamesOf(data[id], k))} =
                               IF k = "domain" THEN {id \in Loaded : accounts[id].domain = dic.domain[n]}
                               ELSE vec[k][dic[k][n] + 1]
                        ELSE dic[k][n] \in {ABSENT, 0}
      BY DEF NamesFind
    <2>1. CASE n \notin InData(k)
      BY <2>1 DEF Inv, Coded
    <2>2. CASE n \in InData(k) /\ k # "domain"
      BY <2>2 DEF Inv, Vectored, Indexed, Has, Kinds
    <2>3. CASE n \in InData(k) /\ k = "domain"
      <3>1. ASSUME NEW id \in Loaded
            PROVE  n \in ToSet(NamesOf(data[id], k)) <=> accounts[id].domain = dic.domain[n]
        <4>1. ToSet(NamesOf(data[id], k)) = {data[id].domain}
          BY <2>3 DEF NamesOf, ToSet
        <4>2. accounts[id].domain = dic.domain[data[id].domain] /\ data[id].domain \in InData("domain")
          BY HasItsNames DEF Inv, Stored, Loaded
        <4>3. dic.domain[data[id].domain] = dic.domain[n] => data[id].domain = n
          BY <2>3, <4>2 DEF Inv, Coded
        <4> QED
          BY <4>1, <4>2, <4>3
      <3> QED
        BY <2>3, <3>1
    <2> QED
      BY <2>1, <2>2, <2>3
  <1> QED
    BY <1>1, InvAlways, PTL

(* postId refuses the e-mails in use and no others.                        *)
THEOREM EmailsAreTaken == Spec => []EmailsTaken
  <1>1. Inv => EmailsTaken
    <2> SUFFICES ASSUME Inv, serving, NEW e \in Names
                 PROVE  postId(<<[key |-> "email", val |-> e]>>) = "400"
                          <=> \/ \E k \in Loaded : data[k].email = e
                              \/ \E k \in Posted : posted[k].email = e
      BY DEF EmailsTaken
    <2>1. postId(<<[key |-> "email", val |-> e]>>) = "400" <=> e \in email_set
      <3> DEFINE mem == [key |-> "email", val |-> e]
      <3>1. Refused(mem) <=> e \in email_set
        BY NameAssumption DEF Refused
      <3>2. DOMAIN <<mem>> = {1} /\ <<mem>>[1] = mem
        OBVIOUS
      <3> HIDE DEF mem
      <3>3. postId(<<mem>>) = "400" <=> Refused(mem)
        BY <3>2 DEF postId
      <3> QED
        BY <3>1, <3>3 DEF mem
    <2>2. e \in email_set <=> \E id \in Ids : accounts[id].email = e
      BY DEF Inv, Mailed
    <2>3. ASSUME NEW id \in Ids
          PROVE  accounts[id].email = e
                   <=> (id \in Loaded /\ data[id].email = e) \/ (id \in Posted /\ posted[id].email = e)
      <3>1. CASE data[id] # NoRecord
        BY <3>1 DEF Inv, Histories, Stored, Loaded, Posted
      <3>2. CASE data[id] = NoRecord /\ posted[id] # NoRecord
        BY <3>2 DEF Inv, Stored, Loaded, Posted
      <3>3. CASE data[id] = NoRecord /\ posted[id] = NoRecord
        BY <3>3, NameAssumption DEF Inv, Stored, Loaded, Posted, NoAccount
      <3> QED
        BY <3>1, <3>2, <3>3
    <2>4. Loaded \subseteq Ids /\ Posted \subseteq Ids
      BY DEF Loaded, Posted
    <2> QED
      BY <2>1, <2>2, <2>3, <2>4
  <1> QED
    BY <1>1, InvAlways, PTL

=============================================================================
