----------------------------- MODULE NgvsMapUse -----------------------------
(***************************************************************************)
(* One ngvs_map under every operation it has, in any order the comments    *)
(* allow: inc and dec are for a sorted container only.  What it must keep  *)
(* is the count of every key.                                              *)
(***************************************************************************)
EXTENDS NgvsMap

CONSTANTS
  Keys,      \* the keys counted: codes of a dictionary
  MaxSorts   \* bound: the map is sorted so many times

ASSUME KeysAssumption == Keys \subseteq Nat
ASSUME SortsAssumption == MaxSorts \in Nat

VARIABLES
  m,       \* the map
  count,   \* history: count[k]: what the map should hold for key k
  sorts,   \* history: how often it was sorted
  fresh    \* history: nothing has changed since it was last sorted

mapVars == <<m, count, sorts, fresh>>

MapInit ==
  /\ m = New
  /\ count = [k \in Keys |-> 0]
  /\ sorts = 0
  /\ fresh = FALSE

Add(k, n) == count' = [count EXCEPT ![k] = (@ + n) % VMod]

(* m[k].second++                                                           *)
Count(k) ==
  /\ m' = Counted(m, k)
  /\ Add(k, 1)
  /\ fresh' = FALSE
  /\ UNCHANGED sorts

Sort ==
  /\ sorts < MaxSorts
  /\ \E p \in Orders(m) : m' = SortedBy(m, p)
  /\ sorts' = sorts + 1
  /\ fresh' = TRUE
  /\ UNCHANGED count

(* K_MAX++ and 0-- wrap: neither is prevented.                             *)
Inc(k) ==
  /\ k \in Slots(m)
  /\ IsSorted(m)
  /\ m' = Incremented(m, k)
  /\ Add(k, 1)
  /\ fresh' = FALSE
  /\ UNCHANGED sorts

Dec(k) ==
  /\ k \in Slots(m)
  /\ IsSorted(m)
  /\ m' = Decremented(m, k)
  /\ Add(k, VMod - 1)
  /\ fresh' = FALSE
  /\ UNCHANGED sorts

MapNext ==
  \/ \E k \in Keys : Count(k)
  \/ Sort
  \/ \E k \in Keys : Inc(k)
  \/ \E k \in Keys : Dec(k)

MapSpec == MapInit /\ [][MapNext]_mapVars

-----------------------------------------------------------------------------
MapTypeOK ==
  /\ DOMAIN m = {"size", "keys", "vals", "pos"}
  /\ MapType(m)
  /\ count \in [Keys -> 0 .. VMod - 1]
  /\ sorts \in 0 .. MaxSorts
  /\ fresh \in BOOLEAN

(* Every key finds its own pair, and no pair is another key's, however the *)
(* pairs have moved.                                                       *)
KeysFind ==
  /\ \A k \in Slots(m) : m.vals[m.keys[k]].first = k
  /\ \A i \in Slots(m) : m.keys[m.vals[i].first] = i

(* No operation loses or misplaces a count: the map holds for every key    *)
(* what was counted for it, modulo the width of the count.                 *)
CountsKept == \A k \in Keys : CountOf(m, k) = count[k]

(* A map that has been sorted once, and just now, lists exactly the keys   *)
(* that were counted, in the order of their counts.                        *)
ListsCounted ==
  fresh /\ sorts = 1 =>
    /\ Walkable(m)
    /\ {Upwards(m)[i].first : i \in DOMAIN Upwards(m)} = {k \in Keys : count[k] # 0}
    /\ \A i, j \in DOMAIN Upwards(m) : i < j => Upwards(m)[i].second <= Upwards(m)[j].second

=============================================================================
