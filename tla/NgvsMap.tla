------------------------------ MODULE NgvsMap ------------------------------
(***************************************************************************)
(* The counting map of ngvs_map.h, by what each of its operations makes of *)
(* the map m: vals holds the pairs of key and count, in the order of the   *)
(* counts once the map is sorted, keys the place of each key in vals, and  *)
(* pos (first_nonzero_val_pos) where a walk over the pairs begins.         *)
(*                                                                         *)
(* A definition next to another of nearly the same name (PlaceOfOld,       *)
(* ...) is a bug the code does not have, which a property notices.         *)
(***************************************************************************)
EXTENDS Integers, FiniteSets

CONSTANT VMod   \* 2^16, or 2^32: the counts are uint16_t or uint32_t

ASSUME CountAssumption == VMod \in Nat \ {0}

Slots(m) == 0 .. m.size - 1

MapType(m) ==
  /\ m.size \in Nat
  /\ m.keys \in [Slots(m) -> Slots(m)]
  /\ m.vals \in [Slots(m) -> [first : Slots(m), second : 0 .. VMod - 1]]
  /\ m.pos \in Nat

(* The count of key k: vals[keys[k]].second.                               *)
At(m, k) == m.vals[m.keys[k]].second

CountOf(m, k) == IF k \in Slots(m) THEN At(m, k) ELSE 0

(* ngvs_map(): no keys.                                                    *)
New == [size |-> 0, keys |-> [k \in {} |-> 0], vals |-> [i \in {} |-> 0], pos |-> 0]

(* operator[] makes room for key k, and counts nothing for the keys below. *)
GrownAfresh(m, k) ==
  IF m.size < k + 1
  THEN [m EXCEPT !.size = k + 1,
                 !.keys = [j \in 0 .. k |-> j],
                 !.vals = [j \in 0 .. k |->
                             [first |-> j, second |-> IF j < m.size THEN m.vals[j].second ELSE 0]]]
  ELSE m

Grown(m, k) ==
  IF m.size < k + 1
  THEN [m EXCEPT !.size = k + 1,
                 !.keys = [j \in 0 .. k |-> IF j < m.size THEN m.keys[j] ELSE j],
                 !.vals = [j \in 0 .. k |-> IF j < m.size THEN m.vals[j]
                                            ELSE [first |-> j, second |-> 0]]]
  ELSE m

PlusUnwrapped(m, i, n) == [m EXCEPT !.vals[i].second = @ + n]

Plus(m, i, n) == [m EXCEPT !.vals[i].second = (@ + n) % VMod]

(* m[k].second++                                                           *)
Counted(m, k) == LET g == Grown(m, k) IN Plus(g, g.keys[k], 1)

IsSorted(m) ==
  \A i, j \in Slots(m) : i < j => m.vals[i].second <= m.vals[j].second

(* sort: the pairs in the order of their counts, equal counts in any       *)
(* order, given as the places p they come from; then the places of the     *)
(* keys; and pos counts the zeros on, from where an earlier sort left it.  *)
Zeros(m) == Cardinality({i \in Slots(m) : m.vals[i].second = 0})

OrdersDescending(m) ==
  {p \in [Slots(m) -> Slots(m)] :
     /\ \A i, j \in Slots(m) : p[i] = p[j] => i = j
     /\ \A i, j \in Slots(m) : i < j => m.vals[p[i]].second >= m.vals[p[j]].second}

Orders(m) ==
  {p \in [Slots(m) -> Slots(m)] :
     /\ \A i, j \in Slots(m) : p[i] = p[j] => i = j
     /\ \A i, j \in Slots(m) : i < j => m.vals[p[i]].second <= m.vals[p[j]].second}

PlaceOfOld(m, p, k) == m.keys[k]

PlaceOf(m, p, k) == CHOOSE i \in Slots(m) : m.vals[p[i]].first = k

SortedBy(m, p) ==
  [m EXCEPT !.vals = [i \in Slots(m) |-> m.vals[p[i]]],
            !.keys = [k \in Slots(m) |-> PlaceOf(m, p, k)],
            !.pos = @ + Zeros(m)]

(* Neighbours i and i + 1 change their keys.                               *)
Swap(m, i) ==
  LET a == m.vals[i].first  b == m.vals[i + 1].first
  IN  [m EXCEPT !.vals = [m.vals EXCEPT ![i].first = b, ![i + 1].first = a],
                !.keys = [m.keys EXCEPT ![a] = @ + 1, ![b] = @ - 1]]

(* inc and dec keep a sorted map in order by one exchange with the         *)
(* neighbour of the same count, which takes the key's place.               *)
Incremented(m, k) ==
  LET i == m.keys[k]
  IN  IF i = m.size - 1 \/ m.vals[i].second < m.vals[i + 1].second
      THEN Plus(m, i, 1)
      ELSE Swap(Plus(m, i + 1, 1), i)

Decremented(m, k) ==
  LET i == m.keys[k]
  IN  IF i = 0 \/ m.vals[i].second > m.vals[i - 1].second
      THEN Plus(m, i, VMod - 1)
      ELSE Swap(Plus(m, i - 1, VMod - 1), i - 1)

(* What a walk from begin() to end() visits, in its order, and from        *)
(* rbegin() to rend().  With pos beyond the end there is no telling.       *)
Walkable(m) == m.pos <= m.size

Upwards(m)   == [i \in 1 .. m.size - m.pos |-> m.vals[m.pos + i - 1]]
Downwards(m) == [i \in 1 .. m.size - m.pos |-> m.vals[m.size - i]]

=============================================================================
