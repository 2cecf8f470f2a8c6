---------------------------- MODULE Groups_proofs ----------------------------
(***************************************************************************)
(* Proofs about the counting maps.  Of NgvsMap, for every width of the     *)
(* counts: what each operation preserves and makes of the counts.  Of      *)
(* NgvsMapUse, for every set of keys: no sequence of operations loses a    *)
(* key or a count.  Of Groups, for any accounts, years, limits and number  *)
(* of index runs: what the program's counters hold, that an answer lists   *)
(* the right ones, and that each map is used as NgvsMapUse says.           *)
(***************************************************************************)
EXTENDS Groups, NgvsMapUse, FiniteSetTheorems, TLAPS

(* keys and the keys of vals are inverse to each other.                    *)
Inverses(tbl) ==
  /\ \A k \in Slots(tbl) : tbl.vals[tbl.keys[k]].first = k
  /\ \A u \in Slots(tbl) : tbl.keys[tbl.vals[u].first] = u

IsMap(tbl) ==
  /\ tbl = [size |-> tbl.size, keys |-> tbl.keys, vals |-> tbl.vals, pos |-> tbl.pos]
  /\ MapType(tbl)
  /\ Inverses(tbl)

-----------------------------------------------------------------------------
(* What the operations preserve, and what they make of the counts.         *)

LEMMA Remainders ==
  ASSUME NEW n \in Nat
  PROVE  n % VMod \in 0 .. VMod - 1
  BY CountAssumption

LEMMA RemainderIs ==
  ASSUME NEW q \in Nat, NEW r \in 0 .. VMod - 1
  PROVE  (q * VMod + r) % VMod = r
  <1> DEFINE n == q * VMod + r
             p == n \div VMod
             s == n % VMod
  <1>1. n \in Nat
    BY CountAssumption
  <1>2. n = VMod * p + s /\ s \in 0 .. VMod - 1 /\ p \in Int
    BY <1>1, CountAssumption
  <1> HIDE DEF p, s
  <1>3. VMod * (p - q) = r - s
    BY <1>2, CountAssumption
  <1>4. p - q \in Int /\ r - s < VMod /\ s - r < VMod
    BY <1>2, CountAssumption
  <1>5. CASE p - q >= 1
    <2>1. VMod * (p - q) >= VMod
      BY <1>4, <1>5, CountAssumption
    <2> QED
      BY <1>2, <1>3, <1>4, <2>1, CountAssumption
  <1>6. CASE p - q <= -1
    <2>1. VMod * (p - q) <= - VMod
      BY <1>4, <1>6, CountAssumption
    <2> QED
      BY <1>2, <1>3, <1>4, <2>1, CountAssumption
  <1>7. CASE p = q
    BY <1>2, <1>3, <1>7, CountAssumption
  <1> QED
    BY <1>2, <1>4, <1>5, <1>6, <1>7 DEF s

LEMMA NextRemainder ==
  ASSUME NEW n \in Nat
  PROVE  ((n % VMod) + 1) % VMod = (n + 1) % VMod
  <1> DEFINE q == n \div VMod
             r == n % VMod
  <1>1. n = q * VMod + r /\ r \in 0 .. VMod - 1 /\ q \in Nat
    BY CountAssumption
  <1> HIDE DEF q, r
  <1>2. CASE r + 1 < VMod
    <2>1. r + 1 \in 0 .. VMod - 1 /\ n + 1 = q * VMod + (r + 1)
      BY <1>1, <1>2, CountAssumption
    <2>2. (q * VMod + (r + 1)) % VMod = r + 1
      BY <1>1, <2>1, RemainderIs
    <2>3. (0 * VMod + (r + 1)) % VMod = r + 1
      BY <2>1, RemainderIs
    <2> QED
      BY <2>1, <2>2, <2>3, CountAssumption DEF r
  <1>3. CASE r + 1 = VMod
    <2>1. n + 1 = (q + 1) * VMod + 0 /\ 0 \in 0 .. VMod - 1 /\ q + 1 \in Nat
      BY <1>1, <1>3, CountAssumption
    <2>2. ((q + 1) * VMod + 0) % VMod = 0
      BY <2>1, RemainderIs
    <2>3. (1 * VMod + 0) % VMod = 0
      BY <2>1, RemainderIs
    <2>4. r + 1 = 1 * VMod + 0
      BY <1>3, CountAssumption
    <2>5. (r + 1) % VMod = 0 /\ (n + 1) % VMod = 0
      BY <2>1, <2>2, <2>3, <2>4
    <2> QED
      BY <2>5 DEF r
  <1> QED
    BY <1>1, <1>2, <1>3, CountAssumption

LEMMA PlusFields ==
  ASSUME NEW tbl, IsMap(tbl), NEW u \in Slots(tbl), NEW n \in Nat
  PROVE  LET v == tbl.vals[u]
             r == [tbl.vals EXCEPT ![u] = [first |-> v.first, second |-> (v.second + n) % VMod]]
         IN  /\ r \in [Slots(tbl) -> [first : Slots(tbl), second : 0 .. VMod - 1]]
             /\ Plus(tbl, u, n) = [size |-> tbl.size, keys |-> tbl.keys,
                                   vals |-> r, pos |-> tbl.pos]
  <1> DEFINE v == tbl.vals[u]
             r == [tbl.vals EXCEPT ![u] = [first |-> v.first, second |-> (v.second + n) % VMod]]
  <1>1. v \in [first : Slots(tbl), second : 0 .. VMod - 1]
    BY DEF IsMap, MapType
  <1>2. v.second + n \in Nat
    BY <1>1, CountAssumption
  <1>3. (v.second + n) % VMod \in 0 .. VMod - 1
    BY <1>2, Remainders
  <1>4. r \in [Slots(tbl) -> [first : Slots(tbl), second : 0 .. VMod - 1]]
    BY <1>1, <1>3 DEF IsMap, MapType
  <1>5. [tbl.vals EXCEPT ![u].second = (@ + n) % VMod] = r
    BY <1>1 DEF IsMap, MapType
  <1>6. Plus(tbl, u, n) = [tbl EXCEPT !.vals = r]
    BY <1>5 DEF Plus
  <1> HIDE DEF r
  <1>7. Plus(tbl, u, n) = [size |-> tbl.size, keys |-> tbl.keys, vals |-> r, pos |-> tbl.pos]
    BY <1>6 DEF IsMap
  <1> QED
    BY <1>4, <1>7 DEF r

LEMMA PlusKeeps ==
  ASSUME NEW tbl, IsMap(tbl), NEW k \in Slots(tbl), NEW n \in Nat
  PROVE  LET p == Plus(tbl, tbl.keys[k], n)
         IN  /\ IsMap(p)
             /\ p.size = tbl.size /\ p.keys = tbl.keys /\ p.pos = tbl.pos
             /\ \A j \in Slots(tbl) : p.vals[j].first = tbl.vals[j].first
             /\ \A j \in Slots(tbl) : p.vals[j].second =
                  IF j = tbl.keys[k] THEN (tbl.vals[j].second + n) % VMod ELSE tbl.vals[j].second
             /\ \A c \in Nat : CountOf(p, c) =
                  IF c = k THEN (CountOf(tbl, c) + n) % VMod ELSE CountOf(tbl, c)
  <1> DEFINE u == tbl.keys[k]
             p == Plus(tbl, u, n)
             v == tbl.vals[u]
             r == [tbl.vals EXCEPT ![u] = [first |-> v.first, second |-> (v.second + n) % VMod]]
  <1>1. u \in Slots(tbl)
    BY DEF IsMap, MapType
  <1>2. /\ r \in [Slots(tbl) -> [first : Slots(tbl), second : 0 .. VMod - 1]]
        /\ p = [size |-> tbl.size, keys |-> tbl.keys, vals |-> r, pos |-> tbl.pos]
    BY <1>1, PlusFields
  <1>3. p.size = tbl.size /\ p.keys = tbl.keys /\ p.vals = r /\ p.pos = tbl.pos
    BY <1>2
  <1>4. Slots(p) = Slots(tbl)
    BY <1>3 DEF Slots
  <1>5. \A j \in Slots(tbl) :
          /\ r[j].first = tbl.vals[j].first
          /\ r[j].second = IF j = u THEN (tbl.vals[j].second + n) % VMod ELSE tbl.vals[j].second
    BY <1>1 DEF IsMap, MapType
  <1> HIDE DEF r, p
  <1>6. MapType(p)
    BY <1>2, <1>3, <1>4 DEF MapType, IsMap
  <1>7. Inverses(p)
    BY <1>1, <1>3, <1>4, <1>5 DEF Inverses, IsMap, MapType
  <1>8. p = [size |-> p.size, keys |-> p.keys, vals |-> p.vals, pos |-> p.pos]
    BY <1>2, <1>3
  <1>9. ASSUME NEW c \in Nat
        PROVE  CountOf(p, c) = IF c = k THEN (CountOf(tbl, c) + n) % VMod ELSE CountOf(tbl, c)
    <2>1. CASE c \in Slots(tbl)
      <3>1. tbl.keys[c] \in Slots(tbl) /\ (tbl.keys[c] = u <=> c = k)
        BY <2>1 DEF IsMap, MapType, Inverses
      <3> QED
        BY <2>1, <3>1, <1>3, <1>4, <1>5 DEF CountOf, At
    <2>2. CASE c \notin Slots(tbl)
      BY <2>2, <1>4 DEF CountOf
    <2> QED
      BY <2>1, <2>2
  <1> QED
    BY <1>3, <1>5, <1>6, <1>7, <1>8, <1>9 DEF IsMap, p

LEMMA GrownKeeps ==
  ASSUME NEW tbl, IsMap(tbl), NEW k \in Nat
  PROVE  LET g == Grown(tbl, k)
         IN  /\ IsMap(g)
             /\ k \in Slots(g) /\ g.pos = tbl.pos
             /\ \A c \in Nat : CountOf(g, c) = CountOf(tbl, c)
  <1> DEFINE g == Grown(tbl, k)
             ks == [j \in 0 .. k |-> IF j < tbl.size THEN tbl.keys[j] ELSE j]
             vs == [j \in 0 .. k |-> IF j < tbl.size THEN tbl.vals[j]
                                     ELSE [first |-> j, second |-> 0]]
  <1>1. CASE ~ tbl.size < k + 1
    BY <1>1 DEF Grown, Slots, IsMap, MapType
  <1>2. CASE tbl.size < k + 1
    <2>1. g = [size |-> k + 1, keys |-> ks, vals |-> vs, pos |-> tbl.pos]
      BY <1>2 DEF Grown, IsMap
    <2> HIDE DEF g
    <2>2. g.size = k + 1 /\ g.keys = ks /\ g.vals = vs /\ g.pos = tbl.pos
      BY <2>1
    <2>3. Slots(g) = 0 .. k
      BY <2>2 DEF Slots
    <2>4. /\ tbl.size \in Nat
          /\ \A j \in 0 .. k : j < tbl.size =>
               /\ tbl.keys[j] \in 0 .. k /\ tbl.keys[j] < tbl.size
               /\ tbl.vals[j] \in [first : 0 .. k, second : 0 .. VMod - 1]
               /\ tbl.vals[j].first < tbl.size
      BY <1>2 DEF IsMap, MapType, Slots
    <2>5. \A j \in 0 .. k : [first |-> j, second |-> 0] \in [first : 0 .. k, second : 0 .. VMod - 1]
      BY CountAssumption
    <2>6. /\ ks \in [0 .. k -> 0 .. k]
          /\ vs \in [0 .. k -> [first : 0 .. k, second : 0 .. VMod - 1]]
      BY <2>4, <2>5
    <2>7. \A j \in 0 .. k :
            /\ j < tbl.size => ks[j] = tbl.keys[j] /\ vs[j] = tbl.vals[j]
            /\ ~ j < tbl.size => ks[j] = j /\ vs[j].first = j /\ vs[j].second = 0
      OBVIOUS
    <2> HIDE DEF ks, vs
    <2>8. MapType(g)
      BY <2>2, <2>3, <2>6 DEF MapType, IsMap
    <2>9. \A j \in 0 .. k : vs[ks[j]].first = j /\ ks[vs[j].first] = j
      <3>1. ASSUME NEW j \in 0 .. k, j < tbl.size
            PROVE  vs[ks[j]].first = j /\ ks[vs[j].first] = j
        <4>1. j \in Slots(tbl)
          BY <2>4, <3>1 DEF Slots
        <4>2. tbl.vals[tbl.keys[j]].first = j /\ tbl.keys[tbl.vals[j].first] = j
          BY <4>1 DEF IsMap, Inverses
        <4>3. tbl.vals[j].first \in 0 .. k /\ tbl.vals[j].first < tbl.size
          BY <2>4, <3>1
        <4> QED
          BY <2>4, <2>7, <3>1, <4>2, <4>3
      <3>2. ASSUME NEW j \in 0 .. k, ~ j < tbl.size
            PROVE  vs[ks[j]].first = j /\ ks[vs[j].first] = j
        BY <2>7, <3>2
      <3> QED
        BY <3>1, <3>2
    <2>10. ASSUME NEW c \in Nat PROVE CountOf(g, c) = CountOf(tbl, c)
      BY <2>2, <2>3, <2>4, <2>7, <1>2 DEF CountOf, At, Slots
    <2> QED
      BY <2>1, <2>2, <2>3, <2>8, <2>9, <2>10 DEF IsMap, Inverses, g
  <1> QED
    BY <1>1, <1>2

LEMMA CountedKeeps ==
  ASSUME NEW tbl, IsMap(tbl), NEW k \in Nat
  PROVE  /\ IsMap(Counted(tbl, k)) /\ Counted(tbl, k).pos = tbl.pos
         /\ \A c \in Nat : CountOf(Counted(tbl, k), c) =
              IF c = k THEN (CountOf(tbl, c) + 1) % VMod ELSE CountOf(tbl, c)
  <1> DEFINE g == Grown(tbl, k)
  <1>1. IsMap(g) /\ k \in Slots(g) /\ g.pos = tbl.pos /\ \A c \in Nat : CountOf(g, c) = CountOf(tbl, c)
    BY GrownKeeps
  <1>2. Counted(tbl, k) = Plus(g, g.keys[k], 1)
    BY DEF Counted
  <1> HIDE DEF g
  <1> DEFINE p == Plus(g, g.keys[k], 1)
  <1>3. IsMap(p) /\ p.pos = g.pos
    BY <1>1, PlusKeeps, SMTT(30)
  <1>4. \A c \in Nat : CountOf(p, c) = IF c = k THEN (CountOf(g, c) + 1) % VMod ELSE CountOf(g, c)
    BY <1>1, PlusKeeps, SMTT(30)
  <1> HIDE DEF p
  <1>5. Counted(tbl, k) = p
    BY <1>2 DEF p
  <1> QED
    BY <1>1, <1>3, <1>4, <1>5

(* Two neighbours exchange their keys, and with them their counts.         *)
LEMMA SwapKeeps ==
  ASSUME NEW tbl, IsMap(tbl), NEW u \in Slots(tbl), u + 1 \in Slots(tbl)
  PROVE  LET a == tbl.vals[u].first  b == tbl.vals[u + 1].first
         IN  /\ a \in Slots(tbl) /\ b \in Slots(tbl) /\ a # b
             /\ IsMap(Swap(tbl, u)) /\ Swap(tbl, u).pos = tbl.pos
             /\ \A c \in Nat : CountOf(Swap(tbl, u), c) =
                  IF c = a THEN tbl.vals[u + 1].second
                  ELSE IF c = b THEN tbl.vals[u].second ELSE CountOf(tbl, c)
  <1> DEFINE a == tbl.vals[u].first
             b == tbl.vals[u + 1].first
             s == Swap(tbl, u)
             vs == [tbl.vals EXCEPT ![u] = [first |-> b, second |-> tbl.vals[u].second],
                                    ![u + 1] = [first |-> a, second |-> tbl.vals[u + 1].second]]
             ks == [tbl.keys EXCEPT ![a] = u + 1, ![b] = u]
  <1>1. /\ tbl.keys \in [Slots(tbl) -> Slots(tbl)]
        /\ tbl.vals \in [Slots(tbl) -> [first : Slots(tbl), second : 0 .. VMod - 1]]
        /\ tbl.size \in Nat /\ tbl.pos \in Nat
    BY DEF IsMap, MapType
  <1>2. a \in Slots(tbl) /\ b \in Slots(tbl) /\ tbl.keys[a] = u /\ tbl.keys[b] = u + 1
    BY <1>1 DEF IsMap, Inverses
  <1>3. u \in Int /\ u + 1 # u
    BY DEF Slots
  <1>4. a # b
    BY <1>2, <1>3
  <1>5. s = [tbl EXCEPT !.vals = vs, !.keys = ks]
    <2>1. [tbl.vals EXCEPT ![u].first = b, ![u + 1].first = a] = vs
      BY <1>1, <1>3
    <2>2. [tbl.keys EXCEPT ![a] = @ + 1, ![b] = @ - 1] = ks
      BY <1>1, <1>2, <1>3, <1>4
    <2> QED
      BY <2>1, <2>2 DEF Swap
  <1> HIDE DEF vs, ks
  <1>6. s = [size |-> tbl.size, keys |-> ks, vals |-> vs, pos |-> tbl.pos]
    BY <1>5 DEF IsMap
  <1> HIDE DEF s
  <1>7. s.size = tbl.size /\ s.keys = ks /\ s.vals = vs /\ s.pos = tbl.pos
    BY <1>6
  <1>8. Slots(s) = Slots(tbl)
    BY <1>7 DEF Slots
  <1>9. /\ vs \in [Slots(tbl) -> [first : Slots(tbl), second : 0 .. VMod - 1]]
        /\ ks \in [Slots(tbl) -> Slots(tbl)]
    BY <1>1, <1>2 DEF vs, ks
  <1>10. /\ ks[a] = u + 1 /\ ks[b] = u
         /\ \A k \in Slots(tbl) : k # a /\ k # b => ks[k] = tbl.keys[k]
         /\ vs[u].first = b /\ vs[u + 1].first = a
         /\ vs[u].second = tbl.vals[u].second /\ vs[u + 1].second = tbl.vals[u + 1].second
         /\ \A j \in Slots(tbl) : j # u /\ j # u + 1 => vs[j] = tbl.vals[j]
    BY <1>1, <1>2, <1>3, <1>4 DEF vs, ks
  <1>11. \A k \in Slots(tbl) : k # a /\ k # b => tbl.keys[k] # u /\ tbl.keys[k] # u + 1
    BY <1>1 DEF IsMap, Inverses
  <1>12. \A j \in Slots(tbl) : j # u /\ j # u + 1 => tbl.vals[j].first # a /\ tbl.vals[j].first # b
    BY <1>2 DEF IsMap, Inverses
  <1> HIDE DEF a, b
  <1>13. \A k \in Slots(tbl) : vs[ks[k]].first = k
    <2>1. ASSUME NEW k \in Slots(tbl), k # a, k # b PROVE vs[ks[k]].first = k
      BY <2>1, <1>1, <1>10, <1>11 DEF IsMap, Inverses
    <2> QED
      BY <2>1, <1>10
  <1>14. \A j \in Slots(tbl) : ks[vs[j].first] = j
    <2>1. ASSUME NEW j \in Slots(tbl), j # u, j # u + 1 PROVE ks[vs[j].first] = j
      <3>1. vs[j] = tbl.vals[j] /\ tbl.vals[j].first \in Slots(tbl)
        BY <2>1, <1>1, <1>10
      <3> QED
        BY <2>1, <3>1, <1>10, <1>12 DEF IsMap, Inverses
    <2> QED
      BY <2>1, <1>10
  <1>15. IsMap(s)
    BY <1>1, <1>6, <1>7, <1>8, <1>9, <1>13, <1>14 DEF IsMap, MapType, Inverses
  <1>16. ASSUME NEW c \in Nat
         PROVE  CountOf(s, c) = IF c = a THEN tbl.vals[u + 1].second
                                ELSE IF c = b THEN tbl.vals[u].second ELSE CountOf(tbl, c)
    <2>1. CASE c \in Slots(tbl)
      <3>1. CountOf(s, c) = vs[ks[c]].second /\ CountOf(tbl, c) = tbl.vals[tbl.keys[c]].second
        BY <2>1, <1>7, <1>8 DEF CountOf, At
      <3>2. CASE c = a
        BY <3>1, <3>2, <1>10
      <3>3. CASE c # a /\ c = b
        BY <3>1, <3>3, <1>10
      <3>4. CASE c # a /\ c # b
        <4>1. ks[c] = tbl.keys[c] /\ vs[tbl.keys[c]] = tbl.vals[tbl.keys[c]]
          BY <2>1, <3>4, <1>1, <1>10, <1>11
        <4> QED
          BY <3>1, <3>4, <4>1
      <3> QED
        BY <3>2, <3>3, <3>4
    <2>2. CASE c \notin Slots(tbl)
      BY <2>2, <1>2, <1>8 DEF CountOf
    <2> QED
      BY <2>1, <2>2
  <1> QED
    BY <1>2, <1>4, <1>7, <1>15, <1>16 DEF s, a, b

(* A change of one of two neighbours of equal count, and their exchange,   *)
(* change the count of the other neighbour's key.                          *)
LEMMA ExchangeKeeps ==
  ASSUME NEW tbl, IsMap(tbl), NEW u \in Slots(tbl), u + 1 \in Slots(tbl),
         tbl.vals[u].second = tbl.vals[u + 1].second,
         NEW j \in {u, u + 1}, NEW o \in {u, u + 1}, j # o, NEW n \in Nat
  PROVE  LET s == Swap(Plus(tbl, j, n), u)
             k == tbl.vals[o].first
         IN  /\ IsMap(s) /\ s.pos = tbl.pos
             /\ \A c \in Nat : CountOf(s, c) =
                  IF c = k THEN (CountOf(tbl, c) + n) % VMod ELSE CountOf(tbl, c)
  <1> DEFINE p == Plus(tbl, j, n)
             s == Swap(p, u)
             k == tbl.vals[o].first
             l == tbl.vals[j].first
  <1>1. /\ k \in Slots(tbl) /\ l \in Slots(tbl) /\ j \in Slots(tbl) /\ o \in Slots(tbl)
        /\ tbl.keys[k] = o /\ tbl.keys[l] = j
    BY DEF IsMap, MapType, Inverses
  <1>2. /\ CountOf(tbl, k) = tbl.vals[o].second
        /\ CountOf(tbl, l) = tbl.vals[j].second
    BY <1>1 DEF CountOf, At
  <1>3. /\ IsMap(p) /\ p.size = tbl.size /\ p.pos = tbl.pos
        /\ p.vals[j].first = l /\ p.vals[o].first = k
        /\ p.vals[j].second = (tbl.vals[j].second + n) % VMod
        /\ p.vals[o].second = tbl.vals[o].second
        /\ \A c \in Nat : c # l => CountOf(p, c) = CountOf(tbl, c)
    BY <1>1, PlusKeeps, SMTT(30)
  <1>4. Slots(p) = Slots(tbl)
    BY <1>3 DEF Slots
  <1> HIDE DEF p
  <1>5. /\ IsMap(s) /\ s.pos = p.pos
        /\ p.vals[u].first # p.vals[u + 1].first
        /\ \A c \in Nat : CountOf(s, c) =
             IF c = p.vals[u].first THEN p.vals[u + 1].second
             ELSE IF c = p.vals[u + 1].first THEN p.vals[u].second ELSE CountOf(p, c)
    BY <1>3, <1>4, SwapKeeps
  <1> HIDE DEF s, k, l
  <1>6. tbl.vals[u].second = tbl.vals[j].second /\ tbl.vals[o].second = tbl.vals[j].second
    OBVIOUS
  <1>7. /\ CountOf(s, k) = (CountOf(tbl, k) + n) % VMod
        /\ CountOf(s, l) = CountOf(tbl, l)
    <2>1. k \in Nat /\ l \in Nat
      BY <1>1 DEF Slots, IsMap, MapType
    <2>2. CASE j = u /\ o = u + 1
      BY <2>1, <2>2, <1>2, <1>3, <1>5, <1>6
    <2>3. CASE j = u + 1 /\ o = u
      BY <2>1, <2>3, <1>2, <1>3, <1>5, <1>6
    <2> QED
      BY <2>2, <2>3
  <1>8. \A c \in Nat : c # k /\ c # l => CountOf(s, c) = CountOf(tbl, c)
    BY <1>3, <1>5
  <1> QED
    BY <1>3, <1>5, <1>7, <1>8, SMTT(30) DEF s, k, p

LEMMA IncrementedKeeps ==
  ASSUME NEW tbl, IsMap(tbl), IsSorted(tbl), NEW k \in Slots(tbl)
  PROVE  LET s == Incremented(tbl, k)
         IN  /\ IsMap(s) /\ s.pos = tbl.pos
             /\ \A c \in Nat : CountOf(s, c) =
                  IF c = k THEN (CountOf(tbl, c) + 1) % VMod ELSE CountOf(tbl, c)
  <1> DEFINE u == tbl.keys[k]
  <1>1. u \in Slots(tbl) /\ tbl.vals[u].first = k
    BY DEF IsMap, MapType, Inverses
  <1>2. CASE u = tbl.size - 1 \/ tbl.vals[u].second < tbl.vals[u + 1].second
    BY <1>2, PlusKeeps, SMTT(30) DEF Incremented
  <1>3. CASE ~ (u = tbl.size - 1 \/ tbl.vals[u].second < tbl.vals[u + 1].second)
    <2>1. u \in Int /\ u + 1 \in Slots(tbl) /\ u < u + 1 /\ u # u + 1
      BY <1>1, <1>3 DEF Slots, IsMap, MapType
    <2>2. tbl.vals[u].second \in Int /\ tbl.vals[u + 1].second \in Int
      BY <1>1, <2>1, CountAssumption DEF IsMap, MapType
    <2>3. tbl.vals[u].second = tbl.vals[u + 1].second
      BY <1>1, <1>3, <2>1, <2>2 DEF IsSorted
    <2>4. Incremented(tbl, k) = Swap(Plus(tbl, u + 1, 1), u)
      BY <1>3 DEF Incremented
    <2> HIDE DEF u
    <2> QED
      BY <1>1, <2>1, <2>3, <2>4, ExchangeKeeps
  <1> QED
    BY <1>2, <1>3

LEMMA DecrementedKeeps ==
  ASSUME NEW tbl, IsMap(tbl), IsSorted(tbl), NEW k \in Slots(tbl)
  PROVE  LET s == Decremented(tbl, k)
         IN  /\ IsMap(s) /\ s.pos = tbl.pos
             /\ \A c \in Nat : CountOf(s, c) =
                  IF c = k THEN (CountOf(tbl, c) + (VMod - 1)) % VMod ELSE CountOf(tbl, c)
  <1> DEFINE u == tbl.keys[k]
             h == u - 1
  <1>1. u \in Slots(tbl) /\ tbl.vals[u].first = k /\ VMod - 1 \in Nat
    BY CountAssumption DEF IsMap, MapType, Inverses
  <1>2. CASE u = 0 \/ tbl.vals[u].second > tbl.vals[u - 1].second
    BY <1>1, <1>2, PlusKeeps, SMTT(30) DEF Decremented
  <1>3. CASE ~ (u = 0 \/ tbl.vals[u].second > tbl.vals[u - 1].second)
    <2>1. h \in Slots(tbl) /\ h < u /\ h # u /\ h + 1 = u
      BY <1>1, <1>3 DEF Slots, IsMap, MapType
    <2>2. tbl.vals[u].second \in Int /\ tbl.vals[h].second \in Int
      BY <1>1, <2>1, CountAssumption DEF IsMap, MapType
    <2>3. tbl.vals[h].second = tbl.vals[u].second
      BY <1>1, <1>3, <2>1, <2>2 DEF IsSorted
    <2>4. Decremented(tbl, k) = Swap(Plus(tbl, h, VMod - 1), h)
      BY <1>3 DEF Decremented
    <2> HIDE DEF u, h
    <2> QED
      BY <1>1, <2>1, <2>3, <2>4, ExchangeKeeps
  <1> QED
    BY <1>2, <1>3

(* An order of the pairs takes every pair once.                            *)
LEMMA OrderIsOnto ==
  ASSUME NEW tbl, tbl.size \in Nat, NEW p \in Orders(tbl)
  PROVE  /\ p \in [Slots(tbl) -> Slots(tbl)]
         /\ \A u, j \in Slots(tbl) : p[u] = p[j] => u = j
         /\ \A j \in Slots(tbl) : \E u \in Slots(tbl) : p[u] = j
  <1>1. /\ p \in [Slots(tbl) -> Slots(tbl)]
        /\ \A u, j \in Slots(tbl) : p[u] = p[j] => u = j
    BY DEF Orders
  <1>2. p \in Injection(Slots(tbl), Slots(tbl))
    BY <1>1 DEF Injection, IsInjective
  <1>3. IsFiniteSet(Slots(tbl))
    BY FS_Interval DEF Slots
  <1>4. p \in Surjection(Slots(tbl), Slots(tbl))
    BY <1>2, <1>3, FS_Injection
  <1> QED
    BY <1>1, <1>4 DEF Surjection

LEMMA SortedKeeps ==
  ASSUME NEW tbl, IsMap(tbl), NEW p \in Orders(tbl)
  PROVE  /\ IsMap(SortedBy(tbl, p))
         /\ \A c \in Nat : CountOf(SortedBy(tbl, p), c) = CountOf(tbl, c)
  <1> DEFINE s == SortedBy(tbl, p)
             vs == [u \in Slots(tbl) |-> tbl.vals[p[u]]]
             ks == [k \in Slots(tbl) |-> PlaceOf(tbl, p, k)]
  <1>1. /\ tbl.keys \in [Slots(tbl) -> Slots(tbl)]
        /\ tbl.vals \in [Slots(tbl) -> [first : Slots(tbl), second : 0 .. VMod - 1]]
        /\ tbl.size \in Nat /\ tbl.pos \in Nat
    BY DEF IsMap, MapType
  <1>2. /\ p \in [Slots(tbl) -> Slots(tbl)]
        /\ \A u, j \in Slots(tbl) : p[u] = p[j] => u = j
        /\ \A j \in Slots(tbl) : \E u \in Slots(tbl) : p[u] = j
    BY <1>1, OrderIsOnto
  <1>3. ASSUME NEW k \in Slots(tbl)
        PROVE  PlaceOf(tbl, p, k) \in Slots(tbl) /\ p[PlaceOf(tbl, p, k)] = tbl.keys[k]
    <2>1. PICK u \in Slots(tbl) : p[u] = tbl.keys[k]
      BY <1>1, <1>2
    <2>2. tbl.vals[p[u]].first = k
      BY <2>1 DEF IsMap, Inverses
    <2>3. PlaceOf(tbl, p, k) \in Slots(tbl) /\ tbl.vals[p[PlaceOf(tbl, p, k)]].first = k
      BY <2>2 DEF PlaceOf
    <2> QED
      BY <2>3, <1>2 DEF IsMap, Inverses
  <1>4. Zeros(tbl) \in Nat
    <2>1. IsFiniteSet(Slots(tbl))
      BY <1>1, FS_Interval, SMTT(30) DEF Slots
    <2> QED
      BY <2>1, FS_Subset, FS_CardinalityType DEF Zeros
  <1>5. s = [size |-> tbl.size, keys |-> ks, vals |-> vs, pos |-> tbl.pos + Zeros(tbl)]
    <2> DEFINE z == tbl.pos + Zeros(tbl)
    <2>1. s = [tbl EXCEPT !.vals = vs, !.keys = ks, !.pos = z]
      BY DEF SortedBy
    <2> HIDE DEF s, vs, ks, z
    <2>2. s = [size |-> tbl.size, keys |-> ks, vals |-> vs, pos |-> z]
      BY <2>1 DEF IsMap
    <2> QED
      BY <2>2 DEF z
  <1> HIDE DEF s
  <1>6. s.size = tbl.size /\ s.keys = ks /\ s.vals = vs /\ s.pos = tbl.pos + Zeros(tbl)
    BY <1>5
  <1>7. Slots(s) = Slots(tbl)
    BY <1>6 DEF Slots
  <1>8. MapType(s)
    <2>1. ks \in [Slots(tbl) -> Slots(tbl)]
      BY <1>3
    <2>2. vs \in [Slots(tbl) -> [first : Slots(tbl), second : 0 .. VMod - 1]]
      BY <1>1, <1>2
    <2> HIDE DEF ks, vs
    <2> QED
      BY <1>1, <1>4, <1>6, <1>7, <2>1, <2>2 DEF MapType
  <1>9. \A k \in Slots(tbl) : ks[k] \in Slots(tbl) /\ vs[ks[k]] = tbl.vals[tbl.keys[k]]
    BY <1>3
  <1>10. \A k \in Slots(tbl) : vs[ks[k]].first = k
    BY <1>9 DEF IsMap, Inverses
  <1>11. ASSUME NEW u \in Slots(tbl) PROVE ks[vs[u].first] = u
    <2>1. p[u] \in Slots(tbl) /\ vs[u] = tbl.vals[p[u]] /\ vs[u].first \in Slots(tbl)
      BY <1>1, <1>2
    <2>2. tbl.keys[vs[u].first] = p[u]
      BY <2>1 DEF IsMap, Inverses
    <2>3. ks[vs[u].first] \in Slots(tbl) /\ p[ks[vs[u].first]] = p[u]
      BY <1>3, <2>1, <2>2
    <2> QED
      BY <1>2, <2>3
  <1> HIDE DEF ks, vs
  <1>12. IsMap(s)
    BY <1>5, <1>6, <1>7, <1>8, <1>10, <1>11 DEF IsMap, Inverses
  <1>13. \A c \in Nat : CountOf(s, c) = CountOf(tbl, c)
    BY <1>6, <1>7, <1>9 DEF CountOf, At
  <1> QED
    BY <1>12, <1>13 DEF s

(* Sorted, the pairs with a zero come first.                               *)
LEMMA ZerosFirst ==
  ASSUME NEW tbl, IsMap(tbl), NEW p \in Orders(tbl)
  PROVE  LET s == SortedBy(tbl, p)
         IN  /\ IsSorted(s)
             /\ s.size = tbl.size
             /\ s.pos = tbl.pos + Zeros(tbl)
             /\ Zeros(tbl) \in 0 .. tbl.size
             /\ \A u \in Slots(s) : s.vals[u].second = 0 <=> u < Zeros(tbl)
  <1> DEFINE s == SortedBy(tbl, p)
             v(u) == tbl.vals[p[u]].second
             Y == {u \in Slots(tbl) : v(u) = 0}
             Z == {j \in Slots(tbl) : tbl.vals[j].second = 0}
  <1>1. /\ tbl.vals \in [Slots(tbl) -> [first : Slots(tbl), second : 0 .. VMod - 1]]
        /\ tbl.size \in Nat
    BY DEF IsMap, MapType
  <1>2. /\ p \in [Slots(tbl) -> Slots(tbl)]
        /\ \A u, j \in Slots(tbl) : p[u] = p[j] => u = j
        /\ \A j \in Slots(tbl) : \E u \in Slots(tbl) : p[u] = j
    BY <1>1, OrderIsOnto
  <1>3. /\ \A u, j \in Slots(tbl) : u < j => v(u) <= v(j)
        /\ \A u \in Slots(tbl) : v(u) \in Nat
    BY <1>1, <1>2, CountAssumption DEF Orders
  <1>4. s.size = tbl.size /\ s.pos = tbl.pos + Zeros(tbl)
        /\ s.vals = [u \in Slots(tbl) |-> tbl.vals[p[u]]]
    <2> DEFINE vs == [u \in Slots(tbl) |-> tbl.vals[p[u]]]
               ks == [k \in Slots(tbl) |-> PlaceOf(tbl, p, k)]
               z == tbl.pos + Zeros(tbl)
    <2>1. s = [tbl EXCEPT !.vals = vs, !.keys = ks, !.pos = z]
      BY DEF SortedBy
    <2> HIDE DEF s, vs, ks, z
    <2>2. s = [size |-> tbl.size, keys |-> ks, vals |-> vs, pos |-> z]
      BY <2>1 DEF IsMap
    <2>3. s.size = tbl.size /\ s.pos = z /\ s.vals = vs
      BY <2>2
    <2> QED
      BY <2>3 DEF vs, z
  <1> HIDE DEF s
  <1>5. Slots(s) = Slots(tbl) /\ \A u \in Slots(tbl) : s.vals[u].second = v(u)
    BY <1>4 DEF Slots
  <1>6. IsSorted(s)
    BY <1>3, <1>5 DEF IsSorted
  <1> HIDE DEF v
  <1>7. IsFiniteSet(Y) /\ IsFiniteSet(Z)
    <2>1. tbl.size - 1 \in Int
      BY <1>1
    <2>2. IsFiniteSet(0 .. tbl.size - 1)
      BY <2>1, FS_Interval
    <2>3. Y \subseteq 0 .. tbl.size - 1 /\ Z \subseteq 0 .. tbl.size - 1
      BY DEF Slots
    <2> QED
      BY <2>2, <2>3, FS_Subset
  <1>8. Cardinality(Y) = Zeros(tbl) /\ Cardinality(Y) \in Nat
    <2> DEFINE f == [u \in Y |-> p[u]]
    <2>1. f \in [Y -> Z] /\ \A u, j \in Y : f[u] = f[j] => u = j
      BY <1>2 DEF v
    <2>2. \A j \in Z : \E u \in Y : f[u] = j
      BY <1>2 DEF v
    <2> HIDE DEF f
    <2>3. f \in Bijection(Y, Z)
      BY <2>1, <2>2 DEF Bijection, Injection, Surjection, IsInjective
    <2>4. Cardinality(Z) = Cardinality(Y)
      BY <2>3, <1>7, FS_Bijection DEF ExistsBijection
    <2> QED
      BY <2>4, <1>7, FS_CardinalityType DEF Zeros
  <1> DEFINE Slot == 0 .. tbl.size - 1
  <1>9. Zeros(tbl) \in 0 .. tbl.size
    <2>1. IsFiniteSet(Slot) /\ Cardinality(Slot) = tbl.size
      <3>1. ASSUME NEW n \in Nat PROVE IsFiniteSet(0 .. n - 1) /\ Cardinality(0 .. n - 1) = n
        BY FS_Interval
      <3> QED
        BY <1>1, <3>1
    <2>2. Y \subseteq Slot
      BY DEF Slots
    <2>3. Cardinality(Y) <= Cardinality(Slot)
      BY <2>1, <2>2, FS_Subset
    <2> QED
      BY <1>1, <1>8, <2>1, <2>3
  <1>10. ASSUME NEW u \in Slots(tbl), v(u) = 0 PROVE u < Zeros(tbl)
    <2>1. u \in Nat /\ 0 .. u \subseteq Y
      BY <1>1, <1>3, <1>10 DEF Slots
    <2>2. Cardinality(0 .. u) = u + 1
      BY <2>1, FS_Interval
    <2>3. Cardinality(0 .. u) <= Cardinality(Y)
      BY <2>1, <1>7, FS_Subset
    <2> QED
      BY <2>1, <2>2, <2>3, <1>8
  <1>11. ASSUME NEW u \in Slots(tbl), v(u) # 0 PROVE ~ u < Zeros(tbl)
    <2>1. u \in Nat /\ Y \subseteq 0 .. u - 1
      BY <1>1, <1>3, <1>11 DEF Slots
    <2>2. IsFiniteSet(0 .. u - 1) /\ Cardinality(0 .. u - 1) = u
      BY <2>1, FS_Interval
    <2>3. Cardinality(Y) <= Cardinality(0 .. u - 1)
      BY <2>1, <2>2, FS_Subset
    <2> QED
      BY <2>1, <2>2, <2>3, <1>8
  <1> QED
    BY <1>4, <1>5, <1>6, <1>9, <1>10, <1>11 DEF s

(* The empty map.                                                          *)
LEMMA NewIsMap == IsMap(New) /\ \A c \in Nat : CountOf(New, c) = 0
  <1>1. Slots(New) = {}
    BY DEF Slots, New
  <1>2. MapType(New)
    BY <1>1 DEF MapType, New
  <1> QED
    BY <1>1, <1>2 DEF IsMap, Inverses, New, CountOf

-----------------------------------------------------------------------------
(* Before the first sort a walk begins at the first pair, after it at the  *)
(* first pair without a zero.                                              *)
JustSorted ==
  /\ sorts = 0 => m.pos = 0 /\ ~ fresh
  /\ fresh /\ sorts = 1 =>
       /\ m.pos <= m.size
       /\ IsSorted(m)
       /\ \A u \in Slots(m) : m.vals[u].second = 0 <=> u < m.pos

(* One map under its operations.                                           *)
MapInv ==
  /\ IsMap(m)
  /\ count \in [Keys -> 0 .. VMod - 1]
  /\ sorts \in 0 .. MaxSorts
  /\ fresh \in BOOLEAN
  /\ CountsKept
  /\ \A c \in Nat \ Keys : CountOf(m, c) = 0
  /\ JustSorted

LEMMA MapInvInit == MapInit => MapInv
  <1> SUFFICES ASSUME MapInit PROVE MapInv
    OBVIOUS
  <1>1. CountsKept
    BY NewIsMap, KeysAssumption DEF MapInit, CountsKept
  <1>2. count \in [Keys -> 0 .. VMod - 1]
    BY CountAssumption DEF MapInit
  <1>3. IsMap(m)
    BY NewIsMap DEF MapInit
  <1>4. sorts \in 0 .. MaxSorts
    BY SortsAssumption DEF MapInit
  <1>5. fresh \in BOOLEAN
    BY DEF MapInit
  <1>6. JustSorted /\ \A c \in Nat \ Keys : CountOf(m, c) = 0
    BY NewIsMap DEF MapInit, JustSorted, New
  <1> QED
    BY <1>1, <1>2, <1>3, <1>4, <1>5, <1>6 DEF MapInv

(* A step that changes key k's count by n, in the map as in the history.   *)
LEMMA AddKeeps ==
  ASSUME MapInv, NEW k \in Keys, NEW n \in Nat, Add(k, n),
         \A c \in Nat : CountOf(m', c) =
           IF c = k THEN (CountOf(m, c) + n) % VMod ELSE CountOf(m, c)
  PROVE  /\ count' \in [Keys -> 0 .. VMod - 1] /\ CountsKept'
         /\ \A c \in Nat \ Keys : CountOf(m', c) = 0
  <1>1. count[k] + n \in Nat
    BY CountAssumption DEF MapInv
  <1>2. (count[k] + n) % VMod \in 0 .. VMod - 1
    BY <1>1, Remainders
  <1>3. count' = [count EXCEPT ![k] = (count[k] + n) % VMod]
    BY DEF Add
  <1>4. count' \in [Keys -> 0 .. VMod - 1]
    BY <1>2, <1>3 DEF MapInv
  <1>5. ASSUME NEW c \in Keys PROVE CountOf(m', c) = count'[c]
    BY <1>3, KeysAssumption DEF MapInv, CountsKept
  <1> QED
    BY <1>4, <1>5 DEF CountsKept, MapInv

LEMMA MapInvStep == MapInv /\ [MapNext]_mapVars => MapInv'
  <1> SUFFICES ASSUME MapInv, [MapNext]_mapVars PROVE MapInv'
    OBVIOUS
  <1>1. ASSUME NEW k \in Keys, Count(k) PROVE MapInv'
    <2>1. k \in Nat
      BY KeysAssumption
    <2>2. IsMap(m') /\ m'.pos = m.pos /\ \A c \in Nat : CountOf(m', c) =
            IF c = k THEN (CountOf(m, c) + 1) % VMod ELSE CountOf(m, c)
      BY <1>1, <2>1, CountedKeeps DEF MapInv, Count
    <2> QED
      BY <1>1, <2>2, AddKeeps DEF MapInv, Count, JustSorted
  <1>2. ASSUME Sort PROVE MapInv'
    <2>1. PICK p \in Orders(m) : m' = SortedBy(m, p)
      BY <1>2 DEF Sort
    <2>2. IsMap(m') /\ \A c \in Nat : CountOf(m', c) = CountOf(m, c)
      BY <2>1, SortedKeeps DEF MapInv
    <2>3. JustSorted'
      <3>1. /\ IsSorted(m') /\ m'.size = m.size /\ m'.pos = m.pos + Zeros(m)
            /\ Zeros(m) \in 0 .. m.size
            /\ \A u \in Slots(m') : m'.vals[u].second = 0 <=> u < Zeros(m)
        BY <2>1, ZerosFirst DEF MapInv
      <3>2. sorts' = sorts + 1 /\ sorts \in Nat /\ m.size \in Nat
        BY <1>2, SortsAssumption DEF MapInv, Sort, IsMap, MapType
      <3>3. sorts' = 1 => m'.pos = Zeros(m)
        BY <3>1, <3>2 DEF MapInv, JustSorted
      <3> QED
        BY <3>1, <3>2, <3>3 DEF JustSorted
    <2>4. CountsKept' /\ \A c \in Nat \ Keys : CountOf(m', c) = 0
      BY <1>2, <2>2, KeysAssumption DEF MapInv, Sort, CountsKept
    <2> QED
      BY <1>2, <2>2, <2>3, <2>4, SortsAssumption DEF MapInv, Sort
  <1>3. ASSUME NEW k \in Keys, Inc(k) PROVE MapInv'
    <2>1. IsMap(m') /\ m'.pos = m.pos /\ \A c \in Nat : CountOf(m', c) =
            IF c = k THEN (CountOf(m, c) + 1) % VMod ELSE CountOf(m, c)
      BY <1>3, IncrementedKeeps DEF MapInv, Inc
    <2> QED
      BY <1>3, <2>1, AddKeeps DEF MapInv, Inc, JustSorted
  <1>4. ASSUME NEW k \in Keys, Dec(k) PROVE MapInv'
    <2>1. IsMap(m') /\ m'.pos = m.pos /\ \A c \in Nat : CountOf(m', c) =
            IF c = k THEN (CountOf(m, c) + (VMod - 1)) % VMod ELSE CountOf(m, c)
      BY <1>4, DecrementedKeeps DEF MapInv, Dec
    <2>2. VMod - 1 \in Nat
      BY CountAssumption
    <2> QED
      BY <1>4, <2>1, <2>2, AddKeeps DEF MapInv, Dec, JustSorted
  <1>5. CASE UNCHANGED mapVars
    BY <1>5 DEF MapInv, mapVars, CountsKept, JustSorted
  <1> QED
    BY <1>1, <1>2, <1>3, <1>4, <1>5 DEF MapNext

LEMMA MapInvAlways == MapSpec => []MapInv
  BY MapInvInit, MapInvStep, PTL DEF MapSpec

(* The map and its history keep their types.                               *)
THEOREM MapTypeCorrect == MapSpec => []MapTypeOK
  <1>1. MapInv => MapTypeOK
    <2> SUFFICES ASSUME MapInv PROVE MapTypeOK
      OBVIOUS
    <2>1. DOMAIN m = {"size", "keys", "vals", "pos"}
      BY DEF MapInv, IsMap
    <2> QED
      BY <2>1 DEF MapInv, MapTypeOK, IsMap
  <1> QED
    BY <1>1, MapInvAlways, PTL

(* After any operations every key finds its own pair: sort rebuilds keys   *)
(* from the pairs, inc and dec carry both along.                           *)
THEOREM KeysAlwaysFind == MapSpec => []KeysFind
  <1>1. MapInv => KeysFind
    BY DEF MapInv, IsMap, Inverses, KeysFind
  <1> QED
    BY <1>1, MapInvAlways, PTL

(* After any operations the map holds for every key what was counted for   *)
(* it, modulo the width of the count.                                      *)
THEOREM CountsAreKept == MapSpec => []CountsKept
  <1>1. MapInv => CountsKept
    BY DEF MapInv
  <1> QED
    BY <1>1, MapInvAlways, PTL

(* Just after the first sort a walk lists exactly the keys counted, in the *)
(* order of their counts: the zeros come first, and pos behind them.       *)
THEOREM CountedAreListed == MapSpec => []ListsCounted
  <1>1. MapInv => ListsCounted
    <2> SUFFICES ASSUME MapInv, fresh, sorts = 1
                 PROVE  /\ Walkable(m)
                        /\ {Upwards(m)[u].first : u \in DOMAIN Upwards(m)}
                             = {k \in Keys : count[k] # 0}
                        /\ \A u, j \in DOMAIN Upwards(m) :
                             u < j => Upwards(m)[u].second <= Upwards(m)[j].second
      BY DEF ListsCounted
    <2> DEFINE at(n) == m.pos + n - 1
               U == Upwards(m)
    <2>1. /\ m.size \in Nat /\ m.pos \in Nat /\ m.pos <= m.size
          /\ IsSorted(m)
          /\ \A u \in Slots(m) : m.vals[u].second = 0 <=> u < m.pos
      BY DEF MapInv, JustSorted, IsMap, MapType
    <2>2. DOMAIN U = 1 .. m.size - m.pos /\ \A n \in DOMAIN U : U[n] = m.vals[at(n)]
      BY DEF Upwards
    <2>3. ASSUME NEW n \in DOMAIN U
          PROVE  at(n) \in Slots(m) /\ m.pos <= at(n) /\ n \in Nat
      BY <2>1, <2>2 DEF Slots
    <2> HIDE DEF U
    <2>4. ASSUME NEW n \in DOMAIN U
          PROVE  U[n].first \in Keys /\ count[U[n].first] # 0
      <3> DEFINE k == U[n].first
      <3>1. /\ k \in Slots(m) /\ m.vals[m.keys[k]] = U[n]
        BY <2>2, <2>3 DEF MapInv, IsMap, MapType, Inverses
      <3>2. U[n].second # 0
        <4>1. ~ at(n) < m.pos
          BY <2>1, <2>3 DEF Slots
        <4> QED
          BY <2>1, <2>2, <2>3, <4>1
      <3>3. CountOf(m, k) # 0 /\ k \in Nat
        BY <2>1, <3>1, <3>2 DEF CountOf, At, Slots
      <3> QED
        BY <3>3 DEF MapInv, CountsKept
    <2>5. ASSUME NEW k \in Keys, count[k] # 0
          PROVE  \E n \in DOMAIN U : U[n].first = k
      <3>1. CountOf(m, k) # 0
        BY <2>5 DEF MapInv, CountsKept
      <3>2. k \in Slots(m) /\ m.vals[m.keys[k]].second # 0
        BY <3>1 DEF CountOf, At
      <3>3. m.keys[k] \in Slots(m) /\ m.vals[m.keys[k]].first = k
        BY <3>2 DEF MapInv, IsMap, MapType, Inverses
      <3>4. m.pos <= m.keys[k] /\ m.keys[k] < m.size /\ m.keys[k] \in Nat
        BY <2>1, <3>2, <3>3 DEF Slots
      <3>5. m.keys[k] - m.pos + 1 \in DOMAIN U /\ at(m.keys[k] - m.pos + 1) = m.keys[k]
        BY <2>1, <2>2, <3>4
      <3> QED
        BY <2>2, <3>3, <3>5
    <2>6. ASSUME NEW u \in DOMAIN U, NEW j \in DOMAIN U, u < j
          PROVE  U[u].second <= U[j].second
      <3>1. at(u) < at(j)
        BY <2>1, <2>3, <2>6
      <3> QED
        BY <2>1, <2>2, <2>3, <3>1 DEF IsSorted
    <2> QED
      BY <2>1, <2>4, <2>5, <2>6 DEF Walkable, U
  <1> QED
    BY <1>1, MapInvAlways, PTL

-----------------------------------------------------------------------------
(* The counters of the program.                                            *)

(* What does not depend on the counters.                                   *)
Shape ==
  /\ pc \in {"index", "serve"}
  /\ max_id \in Ids
  /\ accounts \in [1 .. max_id -> Accounts]
  /\ map \in grp
  /\ i \in 0 .. max_id
  /\ runs \in 0 .. MaxRuns
  /\ total \in [Codes -> Nat]
  /\ pc = "index" => runs < MaxRuns
  /\ pc = "serve" => runs > 0

(* In the middle of a run: the earlier runs, and what is counted of it.    *)
CountedSoFar ==
  /\ \A c \in Codes : CountOf(group, c) = (total[c] + UnderWay(c)) % VMod
  /\ \A c \in Nat \ Codes : CountOf(group, c) = 0

(* A walk from pos meets no zero, and after the first run it leaves out    *)
(* nothing else.                                                           *)
Arranged ==
  /\ runs = 0 => group.pos = 0
  /\ pc = "serve" =>
       /\ IsSorted(group)
       /\ \A n \in Slots(group) :
            /\ group.pos <= n => group.vals[n].second # 0
            /\ runs = 1 /\ n < group.pos => group.vals[n].second = 0

Inv == Shape /\ IsMap(group) /\ CountedSoFar /\ Arranged

-----------------------------------------------------------------------------
LEMMA CodesAreNumbers == Codes \subseteq Nat
  BY RowAssumption DEF Codes, Sexes

LEMMA CodeOfAnAccount ==
  ASSUME Shape, NEW k \in 1 .. max_id
  PROVE  CodeOf(accounts[k]) \in Codes
  <1> DEFINE a == accounts[k]
  <1>1. a \in Accounts
    BY DEF Shape
  <1>2. a.country \in Codes /\ a.city \in Codes /\ a.sex \in Codes
    BY <1>1, RowAssumption DEF Codes
  <1>3. map.key \in {"country", "city", "sex"}
    BY DEF Shape, grp
  <1> QED
    BY <1>2, <1>3 DEF CodeOf

LEMMA IdsAreNumbers == Shape => max_id \in Nat \ {0} /\ i \in Nat /\ i <= max_id
  BY RowAssumption DEF Shape, Ids

LEMMA HandledIsFinite ==
  ASSUME Shape, NEW c
  PROVE  IsFiniteSet(Handled(c)) /\ Cardinality(Handled(c)) \in Nat
  <1>1. IsFiniteSet(1 .. max_id)
    BY IdsAreNumbers, FS_Interval
  <1>2. Handled(c) \subseteq 1 .. max_id
    BY DEF Handled
  <1> QED
    BY <1>1, <1>2, FS_Subset, FS_CardinalityType

(* At the start of a run nothing is handled, at its end everything.        *)
LEMMA NothingHandled ==
  ASSUME Shape, i = max_id, NEW c
  PROVE  Cardinality(Handled(c)) = 0
  <1>1. Handled(c) = {}
    BY IdsAreNumbers DEF Handled
  <1> QED
    BY <1>1, FS_EmptySet

LEMMA AllHandled ==
  ASSUME Shape, i = 0, NEW c
  PROVE  Handled(c) = Members(c)
  BY IdsAreNumbers DEF Handled, Members

LEMMA OneMoreHandled ==
  ASSUME Shape, CountStep, NEW c
  PROVE  Cardinality(Handled(c))' =
           IF InRow(accounts[i]) /\ CodeOf(accounts[i]) = c
           THEN Cardinality(Handled(c)) + 1 ELSE Cardinality(Handled(c))
  <1>1. /\ i \in Nat /\ i > 0 /\ i' = i - 1 /\ i \in 1 .. max_id
        /\ max_id' = max_id /\ accounts' = accounts /\ map' = map
    BY IdsAreNumbers DEF CountStep
  <1>2. Handled(c)' = {k \in 1 .. max_id : i' < k /\ InRow(accounts[k]) /\ CodeOf(accounts[k]) = c}
    BY <1>1 DEF Handled, InRow, CodeOf
  <1>3. \A k \in 1 .. max_id : i' < k <=> i < k \/ k = i
    BY <1>1, IdsAreNumbers
  <1>4. CASE InRow(accounts[i]) /\ CodeOf(accounts[i]) = c
    <2>1. Handled(c)' = Handled(c) \cup {i}
      BY <1>1, <1>2, <1>3, <1>4 DEF Handled
    <2>2. i \notin Handled(c)
      BY <1>1 DEF Handled
    <2> QED
      BY <1>4, <2>1, <2>2, HandledIsFinite, FS_AddElement
  <1>5. CASE ~ (InRow(accounts[i]) /\ CodeOf(accounts[i]) = c)
    <2>1. Handled(c)' = Handled(c)
      BY <1>1, <1>2, <1>3, <1>5 DEF Handled
    <2> QED
      BY <1>5, <2>1
  <1> QED
    BY <1>4, <1>5

-----------------------------------------------------------------------------
LEMMA InvInit == Init => Inv
  <1> SUFFICES ASSUME Init PROVE Inv
    OBVIOUS
  <1>1. Shape
    BY RowAssumption, BoundAssumption DEF Init, Shape, Ids
  <1>2. IsMap(group) /\ \A c \in Nat : CountOf(group, c) = 0
    BY NewIsMap DEF Init
  <1>3. CountedSoFar
    <2>1. ASSUME NEW c \in Codes PROVE CountOf(group, c) = (total[c] + UnderWay(c)) % VMod
      <3>1. total[c] = 0 /\ UnderWay(c) = 0
        BY <1>1, NothingHandled DEF Init, UnderWay
      <3>2. 0 % VMod = 0
        BY CountAssumption
      <3> QED
        BY <1>2, <3>1, <3>2, CodesAreNumbers
    <2> QED
      BY <1>2, <2>1 DEF CountedSoFar
  <1>4. Arranged
    BY DEF Init, Arranged, New
  <1> QED
    BY <1>1, <1>2, <1>3, <1>4 DEF Inv

LEMMA StartIndexKeeps == Inv /\ StartIndex => Inv'
  <1> SUFFICES ASSUME Inv, StartIndex PROVE Inv'
    OBVIOUS
  <1>1. Shape'
    BY IdsAreNumbers, BoundAssumption DEF Inv, Shape, StartIndex
  <1>2. IsMap(group)'
    BY DEF Inv, StartIndex
  <1>3. CountedSoFar'
    <2>1. \A c : UnderWay(c) = 0 /\ UnderWay(c)' = 0
      <3>1. \A c : Cardinality(Handled(c))' = 0
        <4>1. \A c : Handled(c)' = {}
          BY <1>1, IdsAreNumbers DEF Handled, StartIndex, Inv
        <4> QED
          BY <4>1, FS_EmptySet
      <3> QED
        BY <3>1 DEF UnderWay, StartIndex
    <2> QED
      BY <2>1 DEF Inv, CountedSoFar, StartIndex
  <1>4. Arranged'
    BY DEF Inv, Shape, Arranged, StartIndex
  <1> QED
    BY <1>1, <1>2, <1>3, <1>4 DEF Inv

LEMMA CountStepKeeps == Inv /\ CountStep => Inv'
  <1> SUFFICES ASSUME Inv, CountStep PROVE Inv'
    OBVIOUS
  <1> DEFINE k == CodeOf(accounts[i])
  <1>1. Shape'
    BY IdsAreNumbers DEF Inv, Shape, CountStep
  <1>2. k \in Codes /\ k \in Nat
    <2>1. i \in 1 .. max_id
      BY IdsAreNumbers DEF Inv, CountStep
    <2> QED
      BY <2>1, CodeOfAnAccount, CodesAreNumbers DEF Inv
  <1>3. /\ IsMap(group') /\ group'.pos = group.pos
        /\ \A c \in Nat : CountOf(group', c) =
             IF InRow(accounts[i]) /\ k = c THEN (CountOf(group, c) + 1) % VMod
                                            ELSE CountOf(group, c)
    <2>1. CASE InRow(accounts[i])
      <3>1. group' = Counted(group, k)
        BY <2>1 DEF CountStep
      <3> HIDE DEF k
      <3> QED
        BY <2>1, <3>1, <1>2, CountedKeeps DEF Inv
    <2>2. CASE ~ InRow(accounts[i])
      BY <2>2 DEF CountStep, Inv
    <2> QED
      BY <2>1, <2>2
  <1>4. CountedSoFar'
    <2>1. ASSUME NEW c \in Codes
          PROVE  CountOf(group', c) = (total'[c] + UnderWay(c)') % VMod
      <3> DEFINE h == Cardinality(Handled(c))
                 n == total[c] + h
      <3>1. h \in Nat /\ n \in Nat /\ c \in Nat
        BY HandledIsFinite, CodesAreNumbers DEF Inv, Shape
      <3>2. UnderWay(c) = h /\ total'[c] = total[c] /\ UnderWay(c)' = h'
        BY DEF UnderWay, CountStep
      <3>3. CountOf(group, c) = n % VMod
        BY <3>2 DEF Inv, CountedSoFar
      <3>4. ((n % VMod) + 1) % VMod = (n + 1) % VMod
        BY <3>1, NextRemainder
      <3>5. h' = IF InRow(accounts[i]) /\ k = c THEN h + 1 ELSE h
        BY OneMoreHandled DEF Inv
      <3>6. CASE InRow(accounts[i]) /\ k = c
        <4>1. total[c] + (h + 1) = n + 1
          BY <3>1 DEF Inv, Shape
        <4> HIDE DEF h, n, k
        <4> QED
          BY <1>3, <3>1, <3>2, <3>3, <3>4, <3>5, <3>6, <4>1
      <3>7. CASE ~ (InRow(accounts[i]) /\ k = c)
        <4> HIDE DEF h, k
        <4> QED
          BY <1>3, <3>1, <3>2, <3>3, <3>5, <3>7
      <3> QED
        BY <3>6, <3>7
    <2>2. \A c \in Nat \ Codes : CountOf(group', c) = 0
      BY <1>2, <1>3 DEF Inv, CountedSoFar
    <2> QED
      BY <2>1, <2>2 DEF CountedSoFar
  <1>5. Arranged'
    BY <1>3 DEF Inv, Arranged, CountStep
  <1> QED
    BY <1>1, <1>3, <1>4, <1>5 DEF Inv

LEMMA SortGroupsKeeps == Inv /\ SortGroups => Inv'
  <1> SUFFICES ASSUME Inv, SortGroups PROVE Inv'
    OBVIOUS
  <1>1. PICK p \in Orders(group) : group' = SortedBy(group, p)
    BY DEF SortGroups
  <1>2. IsMap(group') /\ \A c \in Nat : CountOf(group', c) = CountOf(group, c)
    BY <1>1, SortedKeeps DEF Inv
  <1>3. \A c : Cardinality(Members(c)) \in Nat /\ Cardinality(Members(c)) = UnderWay(c)
    BY HandledIsFinite, AllHandled DEF Inv, SortGroups, UnderWay
  <1>4. Shape'
    <2>1. total' \in [Codes -> Nat]
      BY <1>3 DEF Inv, Shape, SortGroups
    <2>2. runs' \in 0 .. MaxRuns /\ runs' > 0
      BY BoundAssumption DEF Inv, Shape, SortGroups
    <2> QED
      BY <2>1, <2>2 DEF Inv, Shape, SortGroups
  <1>5. CountedSoFar'
    <2>1. ASSUME NEW c \in Codes
          PROVE  CountOf(group', c) = (total'[c] + UnderWay(c)') % VMod
      <3>1. UnderWay(c)' = 0 /\ total'[c] = total[c] + UnderWay(c)
        BY <1>3 DEF SortGroups, UnderWay
      <3>2. total'[c] \in Nat
        BY <1>4 DEF Shape
      <3>3. CountOf(group, c) = (total[c] + UnderWay(c)) % VMod
        BY DEF Inv, CountedSoFar
      <3>4. total'[c] + 0 = total'[c]
        BY <3>2
      <3> QED
        BY <1>2, <3>1, <3>3, <3>4, CodesAreNumbers
    <2>2. \A c \in Nat \ Codes : CountOf(group', c) = 0
      BY <1>2 DEF Inv, CountedSoFar
    <2> QED
      BY <2>1, <2>2 DEF CountedSoFar
  <1>6. Arranged'
    <2>1. /\ IsSorted(group')
          /\ group'.size = group.size
          /\ group'.pos = group.pos + Zeros(group)
          /\ \A n \in Slots(group') : group'.vals[n].second = 0 <=> n < Zeros(group)
      BY <1>1, ZerosFirst DEF Inv
    <2>2. Zeros(group) \in Nat /\ group.pos \in Nat /\ group'.pos \in Nat
      <3>1. group.pos \in Nat /\ group'.pos \in Nat /\ group.size \in Nat
        BY <1>2 DEF Inv, IsMap, MapType
      <3>2. IsFiniteSet(0 .. group.size - 1)
        BY <3>1, FS_Interval
      <3>3. {j \in Slots(group) : group.vals[j].second = 0} \subseteq 0 .. group.size - 1
        BY DEF Slots
      <3> QED
        BY <3>1, <3>2, <3>3, FS_Subset, FS_CardinalityType DEF Zeros
    <2>3. Slots(group') \subseteq Nat
      BY <1>2 DEF IsMap, MapType, Slots
    <2>4. runs' = 1 => group'.pos = Zeros(group)
      BY <2>1, <2>2 DEF Inv, Shape, Arranged, SortGroups
    <2>5. runs' # 0
      BY <1>4 DEF Shape, SortGroups
    <2>6. ASSUME NEW n \in Slots(group')
          PROVE  /\ group'.pos <= n => group'.vals[n].second # 0
                 /\ runs' = 1 /\ n < group'.pos => group'.vals[n].second = 0
      BY <2>1, <2>2, <2>3, <2>4
    <2> QED
      BY <2>1, <2>5, <2>6 DEF Arranged
  <1> QED
    BY <1>2, <1>4, <1>5, <1>6 DEF Inv

LEMMA PostNewKeeps ==
  ASSUME Inv, NEW k \in Ids, NEW a \in Accounts, PostNew(k, a)
  PROVE  Inv'
  <1>1. Shape'
    <2>1. max_id' \in Ids /\ max_id <= max_id' /\ 1 .. max_id' = 1 .. max_id \union {k}
      BY IdsAreNumbers DEF Inv, Shape, PostNew, Ids
    <2>2. accounts' \in [1 .. max_id' -> Accounts]
      BY <2>1 DEF Inv, Shape, PostNew
    <2>3. i' \in 0 .. max_id'
      BY <2>1, IdsAreNumbers, RowAssumption DEF Inv, PostNew, Ids
    <2> QED
      BY <2>1, <2>2, <2>3 DEF Inv, Shape, PostNew
  <1>2. CountedSoFar'
    BY DEF Inv, CountedSoFar, UnderWay, PostNew
  <1>3. Arranged' /\ IsMap(group)'
    BY DEF Inv, Arranged, PostNew
  <1> QED
    BY <1>1, <1>2, <1>3 DEF Inv

LEMMA InvStep == Inv /\ [Next]_vars => Inv'
  <1> SUFFICES ASSUME Inv, [Next]_vars PROVE Inv'
    OBVIOUS
  <1>1. CASE UNCHANGED vars
    BY <1>1 DEF Inv, Shape, CountedSoFar, UnderWay, Handled, InRow, CodeOf, Arranged, vars
  <1> QED
    BY <1>1, StartIndexKeeps, CountStepKeeps, SortGroupsKeeps, PostNewKeeps DEF Next

LEMMA InvAlways == Spec => []Inv
  BY InvInit, InvStep, PTL DEF Spec

(* The counts that the map should hold, and whether nothing was counted    *)
(* since it was sorted.                                                    *)
Counts == [c \in Codes |-> (total[c] + UnderWay(c)) % VMod]
Untouched == runs > 0 /\ \A c \in Codes : UnderWay(c) = 0

LEMMA UseStutters ==
  ASSUME group' = group, runs' = runs, total' = total,
         \A c \in Codes : UnderWay(c)' = UnderWay(c)
  PROVE  UNCHANGED Use!mapVars
  <1>1. Counts' = Counts /\ Untouched' = Untouched
    BY DEF Counts, Untouched
  <1> QED
    BY <1>1 DEF Use!mapVars, Counts, Untouched

LEMMA UseCounts ==
  ASSUME Inv, CountStep, InRow(accounts[i])
  PROVE  \E c \in Codes : Use!Count(c)
  <1>1. PICK k \in Codes : k = CodeOf(accounts[i])
    <2>1. i \in 1 .. max_id
      BY IdsAreNumbers DEF Inv, CountStep
    <2> QED
      BY <2>1, CodeOfAnAccount DEF Inv
  <1>2. /\ group' = Counted(group, k) /\ runs' = runs /\ total' = total
        /\ pc = "index" /\ pc' = "index"
    BY <1>1 DEF CountStep
  <1>3. ASSUME NEW c
        PROVE  /\ UnderWay(c) \in Nat
               /\ UnderWay(c)' = IF c = k THEN UnderWay(c) + 1 ELSE UnderWay(c)
    BY <1>1, <1>2, HandledIsFinite, OneMoreHandled DEF Inv, UnderWay
  <1>4. Counts' = [Counts EXCEPT ![k] = (Counts[k] + 1) % VMod]
    <2>1. Counts'[k] = (Counts[k] + 1) % VMod
      <3>1. total[k] \in Nat
        BY <1>1 DEF Inv, Shape
      <3>2. UnderWay(k) \in Nat /\ UnderWay(k)' = UnderWay(k) + 1
        BY <1>3
      <3>3. (((total[k] + UnderWay(k)) % VMod) + 1) % VMod = (total[k] + UnderWay(k) + 1) % VMod
        BY <3>1, <3>2, NextRemainder
      <3>4. Counts[k] = (total[k] + UnderWay(k)) % VMod
        BY <1>1 DEF Counts
      <3>5. Counts'[k] = (total[k] + UnderWay(k)') % VMod
        BY <1>1, <1>2 DEF Counts
      <3>6. total[k] + UnderWay(k)' = total[k] + UnderWay(k) + 1
        BY <3>1, <3>2
      <3> QED
        BY <3>3, <3>4, <3>5, <3>6
    <2>2. ASSUME NEW c \in Codes, c # k
          PROVE  Counts'[c] = Counts[c]
      <3>1. UnderWay(c)' = UnderWay(c)
        BY <1>3, <2>2
      <3> QED
        BY <3>1, <1>2 DEF Counts
    <2>3. DOMAIN Counts = Codes /\ DOMAIN Counts' = Codes
      BY DEF Counts
    <2>4. Counts = [c \in Codes |-> Counts[c]] /\ Counts' = [c \in Codes |-> Counts'[c]]
      BY DEF Counts
    <2> QED
      BY <1>1, <2>1, <2>2, <2>3, <2>4
  <1>5. ~ Untouched'
    BY <1>1, <1>3 DEF Untouched
  <1>6. Use!Count(k)
    <2>1. group' = Use!Counted(group, k)
      BY <1>2 DEF Counted, Grown, Plus, Use!Counted, Use!Grown, Use!Plus
    <2> QED
      BY <1>2, <1>4, <1>5, <2>1 DEF Use!Count, Use!Add, Counts, Untouched
  <1> QED
    BY <1>1, <1>6

(* NgvsMap read through the instance is NgvsMap.                           *)
LEMMA UseOrders ==
  ASSUME NEW g
  PROVE  Use!Orders(g) = Orders(g)
  <1>1. Use!Slots(g) = Slots(g)
    BY DEF Slots, Use!Slots
  <1> QED
    BY <1>1 DEF Orders, Use!Orders

LEMMA UseZeros ==
  ASSUME NEW g
  PROVE  Use!Zeros(g) = Zeros(g)
  <1>1. Use!Slots(g) = Slots(g)
    BY DEF Slots, Use!Slots
  <1>2. Use!Cardinality({n \in Slots(g) : g.vals[n].second = 0})
          = Cardinality({n \in Slots(g) : g.vals[n].second = 0})
    BY DEF Cardinality, Use!Cardinality
  <1> QED
    BY <1>1, <1>2 DEF Zeros, Use!Zeros

LEMMA UseSortedBy ==
  ASSUME NEW g, NEW p
  PROVE  Use!SortedBy(g, p) = SortedBy(g, p)
  <1>1. Use!Slots(g) = Slots(g)
    BY DEF Slots, Use!Slots
  <1>2. ASSUME NEW c
        PROVE  Use!PlaceOf(g, p, c) = PlaceOf(g, p, c)
    BY <1>1 DEF PlaceOf, Use!PlaceOf
  <1> QED
    BY <1>1, <1>2, UseZeros DEF SortedBy, Use!SortedBy

LEMMA UseSorts ==
  ASSUME Inv, SortGroups
  PROVE  Use!Sort
  <1>1. PICK p \in Orders(group) : group' = SortedBy(group, p)
    BY DEF SortGroups
  <1>2. \A c : Cardinality(Members(c)) \in Nat /\ Cardinality(Members(c)) = UnderWay(c)
    BY HandledIsFinite, AllHandled DEF Inv, SortGroups, UnderWay
  <1>3. /\ runs < MaxRuns /\ runs' = runs + 1 /\ runs' > 0
        /\ \A c : UnderWay(c)' = 0
    BY BoundAssumption DEF Inv, Shape, SortGroups, UnderWay
  <1>4. Counts' = Counts
    <2>1. \A c \in Codes : total'[c] + UnderWay(c)' = total[c] + UnderWay(c)
      BY <1>2, <1>3 DEF Inv, Shape, SortGroups
    <2> QED
      BY <2>1 DEF Counts
  <1>5. Untouched'
    BY <1>3 DEF Untouched
  <1>6. p \in Use!Orders(group) /\ group' = Use!SortedBy(group, p)
    BY <1>1, UseOrders, UseSortedBy
  <1> QED
    BY <1>3, <1>4, <1>5, <1>6 DEF Use!Sort, Counts, Untouched

(* makeIndex uses the counters as the comments of ngvs_map.h allow:        *)
(* counting, then sorting, and every step of Groups is a step of the use   *)
(* of one map, or leaves it alone.                                         *)
THEOREM MapIsUsed == Spec => UsesMap
  <1>1. Init => Use!MapInit
    <2> SUFFICES ASSUME Init PROVE Use!MapInit
      OBVIOUS
    <2>1. \A c \in Codes : total[c] = 0 /\ UnderWay(c) = 0
      BY InvInit, NothingHandled DEF Init, Inv, UnderWay
    <2>2. Counts = [c \in Codes |-> 0]
      <3>1. 0 % VMod = 0
        BY CountAssumption
      <3> QED
        BY <2>1, <3>1 DEF Counts
    <2>3. ~ Untouched
      BY DEF Untouched, Init
    <2> QED
      BY <2>2, <2>3 DEF Init, Use!MapInit, New, Use!New, Counts, Untouched
  <1>2. Inv /\ [Next]_vars => [Use!MapNext]_(Use!mapVars)
    <2> SUFFICES ASSUME Inv, [Next]_vars PROVE [Use!MapNext]_(Use!mapVars)
      OBVIOUS
    <2>1. CASE StartIndex
      <3>1. group' = group /\ runs' = runs /\ total' = total
        BY <2>1 DEF StartIndex
      <3>2. \A c \in Codes : UnderWay(c) = 0 /\ UnderWay(c)' = 0
        <4>1. Shape' /\ i' = max_id' /\ pc = "serve"
          BY <2>1, StartIndexKeeps DEF Inv, StartIndex
        <4>2. \A c : Handled(c)' = {}
          BY <4>1, <2>1, IdsAreNumbers DEF Handled, StartIndex, Inv
        <4> QED
          BY <4>1, <4>2, FS_EmptySet DEF UnderWay
      <3> QED
        BY <3>1, <3>2, UseStutters
    <2>2. CASE CountStep /\ InRow(accounts[i])
      BY <2>2, UseCounts DEF Use!MapNext
    <2>3. CASE CountStep /\ ~ InRow(accounts[i])
      <3>1. group' = group /\ runs' = runs /\ total' = total
        BY <2>3 DEF CountStep
      <3>2. \A c \in Codes : UnderWay(c)' = UnderWay(c)
        BY <2>3, OneMoreHandled DEF Inv, UnderWay, CountStep
      <3> QED
        BY <3>1, <3>2, UseStutters
    <2>4. CASE SortGroups
      BY <2>4, UseSorts DEF Use!MapNext
    <2>5. CASE \E k \in Ids, a \in Accounts : PostNew(k, a)
      <3>1. group' = group /\ runs' = runs /\ total' = total
        BY <2>5 DEF PostNew
      <3>2. \A c \in Codes : UnderWay(c)' = UnderWay(c)
        BY <2>5 DEF PostNew, UnderWay
      <3> QED
        BY <3>1, <3>2, UseStutters
    <2>6. CASE UNCHANGED vars
      <3>1. group' = group /\ runs' = runs /\ total' = total
        BY <2>6 DEF vars
      <3>2. \A c \in Codes : UnderWay(c)' = UnderWay(c)
        BY <2>6 DEF vars, UnderWay, Handled, InRow, CodeOf
      <3> QED
        BY <3>1, <3>2, UseStutters
    <2> QED
      BY <2>1, <2>2, <2>3, <2>4, <2>5, <2>6 DEF Next
  <1> QED
    BY <1>1, <1>2, InvAlways, PTL DEF Spec, UsesMap, Use!MapSpec

(* The map, the loop and the accounts keep their types.                    *)
THEOREM TypeCorrect == Spec => []TypeOK
  <1>1. Inv => TypeOK
    <2> SUFFICES ASSUME Inv PROVE TypeOK
      OBVIOUS
    <2>1. i \in 0 .. ArrSize
      BY IdsAreNumbers, RowAssumption DEF Inv, Shape, Ids
    <2> QED
      BY <2>1 DEF Inv, Shape, IsMap, TypeOK
  <1> QED
    BY <1>1, InvAlways, PTL

(* makeIndex counts each account once a run into the right counter, and no *)
(* sorting or growing of the map puts a count to another key.              *)
THEOREM CountersAlwaysAddUp == Spec => []CountersAddUp
  <1>1. Inv => CountersAddUp
    <2> SUFFICES ASSUME Inv, pc = "serve", NEW c \in Codes
                 PROVE  CountOf(group, c) = total[c] % VMod
      BY DEF CountersAddUp
    <2>1. UnderWay(c) = 0 /\ total[c] \in Nat
      BY DEF UnderWay, Inv, Shape
    <2> QED
      BY <2>1 DEF Inv, CountedSoFar
  <1> QED
    BY <1>1, InvAlways, PTL

-----------------------------------------------------------------------------
(* The places in the map of what an answer names.                          *)
Place(q, n) == IF q.order = "ascend" THEN group.pos + n - 1 ELSE group.size - n

Rest == group.size - group.pos

Length(q) == IF map.key = "sex" \/ Rest < q.limit THEN Rest ELSE q.limit

LEMMA AskedIsRead ==
  ASSUME Shape, NEW q \in Queries, Asked(q)
  PROVE  Reads(q)
  <1>1. q.keys = {map.key}
    BY DEF Asked
  <1>2. CASE map.field = "joined"
    <2>1. q.joined = map.row /\ map.row # EMPTY /\ map.row \in Nat
      BY <1>2, RowAssumption DEF Asked, Shape, grp, Rows, Sexes
    <2>2. fjoined(q) = map.row
      BY <2>1, RowAssumption DEF fjoined
    <2>3. map.key \in {"country", "sex"} /\ map = [field |-> "joined", row |-> map.row, key |-> map.key]
      BY <1>2 DEF Shape, grp
    <2>4. ByYear(q) = map
      BY <1>1, <2>2, <2>3 DEF ByYear
    <2> QED
      BY <1>1, <2>1, <2>2, <2>4 DEF Reads
  <1>3. CASE map.field # "joined"
    <2>1. q.sex = map.row /\ fjoined(q) = EMPTY
      BY <1>3 DEF Asked, fjoined
    <2>2. map.key \in {"country", "city"} /\ map = [field |-> "sex", row |-> map.row, key |-> map.key]
      BY <1>3 DEF Shape, grp
    <2>3. BySex(q) = map
      BY <1>1, <2>1, <2>2 DEF BySex
    <2> QED
      BY <1>1, <2>1, <2>3 DEF Reads
  <1> QED
    BY <1>2, <1>3

LEMMA AnswerPlaces ==
  ASSUME Inv, NEW q \in Queries, Answered(q)
  PROVE  /\ Length(q) \in Nat
         /\ Len(Answer(q)) = Length(q)
         /\ DOMAIN Answer(q) = 1 .. Length(q)
         /\ \A n \in 1 .. Length(q) :
              /\ Place(q, n) \in Slots(group) /\ group.pos <= Place(q, n)
              /\ Answer(q)[n] = group.vals[Place(q, n)]
  <1> DEFINE w == Rest
             P == Pairs(group, q.order)
             S == [first : Slots(group), second : 0 .. VMod - 1]
  <1>1. /\ group.size \in Nat /\ group.pos \in Nat /\ group.pos <= group.size
        /\ group.vals \in [Slots(group) -> S]
    BY DEF Inv, IsMap, MapType, Answered, Walkable
  <1>2. w \in Nat /\ q.limit \in Nat /\ q.order \in {"ascend", "descend"}
    BY <1>1, BoundAssumption DEF Rest, Queries
  <1>3. Length(q) \in Nat /\ Length(q) <= w
    BY <1>2 DEF Length
  <1>4. \A n \in 1 .. w : Place(q, n) \in Slots(group) /\ group.pos <= Place(q, n)
    BY <1>1, <1>2 DEF Place, Slots, Rest
  <1>5. P = [n \in 1 .. w |-> group.vals[Place(q, n)]]
    <2>1. CASE q.order = "ascend"
      BY <2>1 DEF Pairs, Upwards, Place, Rest
    <2>2. CASE q.order = "descend"
      BY <2>2 DEF Pairs, Downwards, Place, Rest
    <2> QED
      BY <1>2, <2>1, <2>2
  <1>6. P \in Seq(S) /\ Len(P) = w
    <2>1. P \in [1 .. w -> S]
      BY <1>1, <1>4, <1>5
    <2> HIDE DEF P, w, S
    <2>2. P \in Seq(S)
      BY <1>2, <2>1
    <2> QED
      BY <1>2, <2>1, <2>2
  <1>7. Answer(q) = Listed(q)
    BY AskedIsRead DEF Inv, Answered, Answer
  <1>8. Listed(q) = IF map.key = "sex" THEN P ELSE SubSeq(P, 1, IF w < q.limit THEN w ELSE q.limit)
    BY <1>6 DEF Listed, Cut
  <1> HIDE DEF P, w
  <1>9. /\ Len(Listed(q)) = Length(q) /\ DOMAIN Listed(q) = 1 .. Length(q)
        /\ \A n \in 1 .. Length(q) : Listed(q)[n] = P[n]
    <2>1. CASE map.key = "sex"
      BY <2>1, <1>2, <1>6, <1>8 DEF Length, w
    <2>2. CASE map.key # "sex"
      <3>1. Listed(q) = SubSeq(P, 1, Length(q))
        BY <2>2, <1>8 DEF Length, w
      <3> QED
        BY <3>1, <1>2, <1>3, <1>6
    <2> QED
      BY <2>1, <2>2
  <1>10. \A n \in 1 .. Length(q) : n \in 1 .. w /\ P[n] = group.vals[Place(q, n)]
    BY <1>2, <1>3, <1>5
  <1> QED
    BY <1>3, <1>4, <1>7, <1>9, <1>10

(* What is at a place that a walk comes to.                                *)
LEMMA WalkedPairs ==
  ASSUME Inv, pc = "serve", NEW j \in Slots(group), group.pos <= j
  PROVE  LET v == group.vals[j]
         IN  /\ v.first \in Known
             /\ v.second = total[v.first] % VMod
             /\ group.keys[v.first] = j
  <1> DEFINE v == group.vals[j]
  <1>1. v.first \in Slots(group) /\ group.keys[v.first] = j /\ v.first \in Nat
    BY DEF Inv, IsMap, MapType, Inverses, Slots
  <1>2. CountOf(group, v.first) = v.second /\ v.second # 0
    BY <1>1 DEF CountOf, At, Inv, Arranged
  <1>3. v.first \in Codes
    BY <1>1, <1>2 DEF Inv, CountedSoFar
  <1>4. v.second = total[v.first] % VMod
    <2>1. UnderWay(v.first) = 0 /\ total[v.first] \in Nat
      BY <1>3 DEF UnderWay, Inv, Shape
    <2>2. CountOf(group, v.first) = (total[v.first] + UnderWay(v.first)) % VMod
      BY <1>3 DEF Inv, CountedSoFar
    <2>3. total[v.first] + 0 = total[v.first]
      BY <2>1
    <2> QED
      BY <1>2, <2>1, <2>2, <2>3
  <1> QED
    BY <1>1, <1>2, <1>3, <1>4 DEF Known

(* A group with accounts has its place, with its counter.                  *)
LEMMA KnownPlaces ==
  ASSUME Inv, pc = "serve", NEW c \in Known
  PROVE  /\ c \in Slots(group) /\ group.keys[c] \in Slots(group)
         /\ group.vals[group.keys[c]].first = c
         /\ group.vals[group.keys[c]].second = total[c] % VMod
         /\ total[c] % VMod # 0
  <1>1. c \in Codes /\ total[c] % VMod # 0 /\ total[c] \in Nat
    BY DEF Known, Inv, Shape
  <1>2. CountOf(group, c) = total[c] % VMod
    BY <1>1 DEF Inv, CountedSoFar, UnderWay
  <1>3. c \in Slots(group)
    BY <1>1, <1>2 DEF CountOf
  <1> QED
    BY <1>1, <1>2, <1>3 DEF CountOf, At, Inv, IsMap, MapType, Inverses

(* An answer names groups of the year or sex asked for, each once, with    *)
(* their counters, in the order asked for, and no more than the limit.     *)
THEOREM AnswerIsAlwaysOrdered == Spec => []AnswerIsOrdered
  <1>1. Inv => AnswerIsOrdered
    <2> SUFFICES ASSUME Inv, NEW q \in Queries, Answered(q)
                 PROVE  /\ map.key # "sex" => Len(Answer(q)) <= q.limit
                        /\ \A n \in DOMAIN Answer(q) :
                             /\ Answer(q)[n].first \in Known
                             /\ Answer(q)[n].second = total[Answer(q)[n].first] % VMod
                             /\ \A l \in DOMAIN Answer(q) : l < n =>
                                  /\ Answer(q)[l].first # Answer(q)[n].first
                                  /\ IF q.order = "ascend"
                                     THEN Answer(q)[l].second <= Answer(q)[n].second
                                     ELSE Answer(q)[l].second >= Answer(q)[n].second
      BY DEF AnswerIsOrdered
    <2>1. /\ pc = "serve" /\ IsSorted(group)
          /\ group.size \in Nat /\ group.pos \in Nat /\ q.limit \in Nat
      BY BoundAssumption DEF Inv, IsMap, MapType, Answered, Arranged, Queries
    <2>2. map.key # "sex" => Len(Answer(q)) <= q.limit
      <3>1. Len(Answer(q)) = Length(q) /\ Rest \in Int
        BY <2>1, AnswerPlaces DEF Rest
      <3> QED
        BY <2>1, <3>1 DEF Length
    <2>3. ASSUME NEW n \in DOMAIN Answer(q)
          PROVE  /\ Answer(q)[n].first \in Known
                 /\ Answer(q)[n].second = total[Answer(q)[n].first] % VMod
                 /\ group.keys[Answer(q)[n].first] = Place(q, n)
                 /\ Place(q, n) \in Slots(group) /\ Answer(q)[n] = group.vals[Place(q, n)]
                 /\ n \in Nat
      <3>1. /\ n \in 1 .. Length(q) /\ n \in Nat
            /\ Place(q, n) \in Slots(group) /\ group.pos <= Place(q, n)
            /\ Answer(q)[n] = group.vals[Place(q, n)]
        BY AnswerPlaces
      <3> QED
        BY <2>1, <3>1, WalkedPairs
    <2>4. ASSUME NEW n \in DOMAIN Answer(q), NEW l \in DOMAIN Answer(q), l < n
          PROVE  /\ Answer(q)[l].first # Answer(q)[n].first
                 /\ IF q.order = "ascend" THEN Answer(q)[l].second <= Answer(q)[n].second
                                          ELSE Answer(q)[l].second >= Answer(q)[n].second
      <3>1. /\ Place(q, l) \in Slots(group) /\ Answer(q)[l] = group.vals[Place(q, l)]
            /\ Place(q, n) \in Slots(group) /\ Answer(q)[n] = group.vals[Place(q, n)]
            /\ group.keys[Answer(q)[l].first] = Place(q, l) /\ l \in Nat
            /\ group.keys[Answer(q)[n].first] = Place(q, n) /\ n \in Nat
        BY <2>3
      <3>2. IF q.order = "ascend" THEN Place(q, l) < Place(q, n) ELSE Place(q, n) < Place(q, l)
        BY <2>1, <2>4, <3>1 DEF Place
      <3>3. Place(q, l) # Place(q, n)
        BY <3>1, <3>2, <2>1 DEF Slots
      <3>4. /\ group.vals[Place(q, l)].second \in Int
            /\ group.vals[Place(q, n)].second \in Int
        BY <3>1, CountAssumption DEF Inv, IsMap, MapType
      <3> QED
        BY <2>1, <3>1, <3>2, <3>3, <3>4 DEF IsSorted
    <2> QED
      BY <2>2, <2>3, <2>4
  <1> QED
    BY <1>1, InvAlways, PTL

(* No group left out of an answer comes before one that it names, and      *)
(* until the index is made again only the limit leaves groups out.  The    *)
(* groups that pos wrongly skips after that are the smallest.              *)
THEOREM AnswerIsAlwaysTop == Spec => []AnswerIsTop
  <1>1. Inv => AnswerIsTop
    <2> SUFFICES ASSUME Inv, NEW q \in Queries, Answered(q)
                 PROVE  /\ runs = 1 /\ LeftOut(q) # {} => Len(Answer(q)) = q.limit
                        /\ \A c \in LeftOut(q), n \in DOMAIN Answer(q) :
                             IF q.order = "descend"
                             THEN Answer(q)[n].second >= total[c] % VMod
                             ELSE runs = 1 => Answer(q)[n].second <= total[c] % VMod
      BY DEF AnswerIsTop
    <2>1. /\ pc = "serve" /\ IsSorted(group)
          /\ group.size \in Nat /\ group.pos \in Nat /\ group.pos <= group.size
          /\ q.limit \in Nat /\ q.order \in {"ascend", "descend"}
      BY BoundAssumption DEF Inv, IsMap, MapType, Answered, Walkable, Arranged, Queries
    <2>2. /\ Len(Answer(q)) = Length(q) /\ Length(q) \in Nat
          /\ DOMAIN Answer(q) = 1 .. Length(q)
          /\ \A n \in 1 .. Length(q) :
               Place(q, n) \in Slots(group) /\ Answer(q)[n] = group.vals[Place(q, n)]
      BY AnswerPlaces
    <2>3. ASSUME NEW c \in LeftOut(q)
          PROVE  LET j == group.keys[c]
                 IN  /\ j \in Slots(group) /\ group.vals[j].second = total[c] % VMod
                     /\ runs = 1 => group.pos <= j
                     /\ \A n \in 1 .. Length(q) : Place(q, n) # j
      <3> DEFINE j == group.keys[c]
      <3>1. c \in Known /\ \A n \in 1 .. Length(q) : Answer(q)[n].first # c
        BY <2>2 DEF LeftOut
      <3>2. /\ j \in Slots(group) /\ group.vals[j].first = c
            /\ group.vals[j].second = total[c] % VMod /\ total[c] % VMod # 0
        BY <2>1, <3>1, KnownPlaces
      <3>3. runs = 1 => group.pos <= j
        BY <2>1, <3>2 DEF Inv, Arranged, Slots
      <3>4. \A n \in 1 .. Length(q) : Place(q, n) # j
        BY <2>2, <3>1, <3>2
      <3> QED
        BY <3>2, <3>3, <3>4
    (* What is left out of an answer lies behind it, or is skipped.        *)
    <2>4. ASSUME NEW c \in LeftOut(q), group.pos <= group.keys[c]
          PROVE  /\ Length(q) = q.limit
                 /\ \A n \in 1 .. Length(q) :
                      IF q.order = "ascend" THEN Place(q, n) < group.keys[c]
                                            ELSE group.keys[c] < Place(q, n)
      <3> DEFINE j == group.keys[c]
                 at == IF q.order = "ascend" THEN j - group.pos + 1 ELSE group.size - j
      <3>1. j \in Slots(group) /\ j \in Nat /\ j < group.size
        BY <2>1, <2>3 DEF Slots
      <3> HIDE DEF j
      <3>2. at \in 1 .. Rest /\ Place(q, at) = j
        BY <2>1, <2>4, <3>1 DEF Place, Rest, j
      <3>3. ~ at \in 1 .. Length(q)
        BY <2>3, <3>2 DEF j
      <3>4. Length(q) < at /\ Length(q) < Rest
        BY <2>1, <2>2, <3>2, <3>3 DEF Rest
      <3>5. Length(q) = q.limit
        <4>1. Rest \in Int
          BY <2>1 DEF Rest
        <4> QED
          BY <2>2, <3>4, <4>1 DEF Length
      <3>6. \A n \in 1 .. Length(q) :
              IF q.order = "ascend" THEN Place(q, n) < j ELSE j < Place(q, n)
        BY <2>1, <2>2, <3>1, <3>4 DEF Place
      <3> QED
        BY <3>5, <3>6 DEF j
    <2>5. runs = 1 /\ LeftOut(q) # {} => Len(Answer(q)) = q.limit
      BY <2>2, <2>3, <2>4
    <2>6. ASSUME NEW c \in LeftOut(q), NEW n \in DOMAIN Answer(q)
          PROVE  IF q.order = "descend" THEN Answer(q)[n].second >= total[c] % VMod
                                        ELSE runs = 1 => Answer(q)[n].second <= total[c] % VMod
      <3> DEFINE j == group.keys[c]
                 k == Place(q, n)
      <3>1. /\ j \in Slots(group) /\ group.vals[j].second = total[c] % VMod
            /\ k \in Slots(group) /\ group.vals[k].second = Answer(q)[n].second
            /\ group.pos <= k
        BY <2>2, <2>3, AnswerPlaces
      <3>2. j \in Int /\ k \in Int /\ group.vals[j].second \in Int /\ group.vals[k].second \in Int
        BY <2>1, <3>1, CountAssumption DEF Slots, Inv, IsMap, MapType
      <3>3. CASE q.order = "descend"
        <4>1. j < k
          BY <2>1, <2>2, <2>4, <3>1, <3>2, <3>3
        <4> QED
          BY <2>1, <3>1, <3>2, <3>3, <4>1 DEF IsSorted
      <3>4. CASE q.order = "ascend" /\ runs = 1
        <4>1. k < j
          BY <2>2, <2>3, <2>4, <3>4
        <4> QED
          BY <2>1, <3>1, <3>2, <3>4, <4>1 DEF IsSorted
      <3> QED
        BY <2>1, <3>3, <3>4
    <2> QED
      BY <2>5, <2>6
  <1> QED
    BY <1>1, InvAlways, PTL

=============================================================================
