------------------------------- MODULE Groups -------------------------------
(***************************************************************************)
(* The group counters: makeIndex counts every account into the maps of     *)
(* `groups' (index.cpp), getGroup answers from them (get_group.cpp).       *)
(*                                                                         *)
(* There are two maps for each year an account joined (f_joined, by        *)
(* country and by sex), and two for each sex (f_sex, by country and by     *)
(* city).  Each is counted, sorted and read by itself, so a behaviour      *)
(* follows one of them, whichever it is.                                   *)
(* One worker: an index run and an answer are not disturbed by requests.   *)
(*                                                                         *)
(* A definition next to another of nearly the same name (CutOneMore,       *)
(* ...) is a bug the code does not have, which a property notices.         *)
(***************************************************************************)
EXTENDS NgvsMap, Sequences

CONSTANTS
  ArrSize,   \* the highest id an account can have
  Years,     \* 8: the years 2011 .. 2010 + Years have a row each
  Accounts,  \* the accounts that the data and the clients may store:
             \* [joined, sex, country, city]
  NoFilter,  \* of a query that has no such parameter
  MaxLimit,  \* the largest limit a query asks for
  MaxRuns    \* bound: the index is made so many times (3 in the program)

Ids   == 1 .. ArrSize
Rows  == 0 .. Years - 1
Sexes == {0, 1}
EMPTY == 0

ASSUME RowAssumption ==
  /\ ArrSize \in Nat \ {0} /\ Years \in Nat \ {0}
  /\ Accounts \subseteq [joined : Rows, sex : Sexes, country : Nat, city : Nat]
  /\ NoFilter \notin Nat
ASSUME BoundAssumption == MaxLimit \in Nat \ {0} /\ MaxRuns \in Nat \ {0}

(* grp: the maps, by the row's field, the row, and the key counted.        *)
grp ==
  [field : {"joined"}, row : Rows, key : {"country", "sex"}]
    \union [field : {"sex"}, row : Sexes, key : {"country", "city"}]

VARIABLES
  pc,        \* "index" or "serve"
  accounts,  \* the accounts 1 .. max_id
  max_id,    \* the highest id stored
  map,       \* which of the maps is followed
  group,     \* ... and the map
  i,         \* makeIndex: the account the loop handles next
  runs,      \* history: how often the index was made
  total      \* history: for each code, the accounts of all runs

vars == <<pc, accounts, max_id, map, group, i, runs, total>>

InRow(a) == a[map.field] = map.row
CodeOf(a) == a[map.key]
Codes == {a.country : a \in Accounts} \union {a.city : a \in Accounts} \union Sexes

-----------------------------------------------------------------------------
(* The data has every id up to the highest: an account it lacked would be  *)
(* counted for the year 1970, outside the rows.                            *)
Init ==
  /\ pc = "index"
  /\ max_id \in Ids
  /\ accounts \in [1 .. max_id -> Accounts]
  /\ map \in grp
  /\ group = New
  /\ i = max_id
  /\ runs = 0
  /\ total = [c \in Codes |-> 0]

(* makeIndex.  The counters of an earlier run are kept.                    *)
StartIndex ==
  /\ pc = "serve"
  /\ runs < MaxRuns
  /\ pc' = "index"
  /\ i' = max_id
  /\ UNCHANGED <<accounts, max_id, map, group, runs, total>>

CountStepAboveOne ==
  /\ pc = "index"
  /\ i > 0
  /\ group' = IF i > 1 /\ InRow(accounts[i]) THEN Counted(group, CodeOf(accounts[i]))
                                             ELSE group
  /\ i' = i - 1
  /\ UNCHANGED <<pc, accounts, max_id, map, runs, total>>

CountStep ==
  /\ pc = "index"
  /\ i > 0
  /\ group' = IF InRow(accounts[i]) THEN Counted(group, CodeOf(accounts[i])) ELSE group
  /\ i' = i - 1
  /\ UNCHANGED <<pc, accounts, max_id, map, runs, total>>

Members(c) == {k \in 1 .. max_id : InRow(accounts[k]) /\ CodeOf(accounts[k]) = c}

SortGroups ==
  /\ pc = "index"
  /\ i = 0
  /\ pc' = "serve"
  /\ \E p \in Orders(group) : group' = SortedBy(group, p)
  /\ runs' = runs + 1
  /\ total' = [c \in Codes |-> total[c] + Cardinality(Members(c))]
  /\ UNCHANGED <<accounts, max_id, map, i>>

(* postNew, for the next id or one the server knows; the counters are not  *)
(* touched.                                                                *)
PostNewCounted(k, a) ==
  /\ pc = "serve"
  /\ k \in 1 .. max_id + 1
  /\ accounts' = [j \in 1 .. max_id \union {k} |-> IF j = k THEN a ELSE accounts[j]]
  /\ max_id' = IF max_id < k THEN k ELSE max_id
  /\ group' = IF InRow(a) THEN Counted(group, CodeOf(a)) ELSE group
  /\ UNCHANGED <<pc, map, i, runs, total>>

PostNew(k, a) ==
  /\ pc = "serve"
  /\ k \in 1 .. max_id + 1
  /\ accounts' = [j \in 1 .. max_id \union {k} |-> IF j = k THEN a ELSE accounts[j]]
  /\ max_id' = IF max_id < k THEN k ELSE max_id
  /\ UNCHANGED <<pc, map, group, i, runs, total>>

Next ==
  \/ StartIndex
  \/ CountStep
  \/ SortGroups
  \/ \E k \in Ids, a \in Accounts : PostNew(k, a)

Spec == Init /\ [][Next]_vars

-----------------------------------------------------------------------------
(* getGroup.  A query is what its parameters say; fbirth, fstatus, flikes, *)
(* fcity, finterests and the keys status and interests are read, and       *)
(* nothing depends on them.                                                *)
Queries ==
  [joined : Rows \union {NoFilter}, sex : Sexes \union {NoFilter},
   keys : SUBSET {"country", "city", "sex"}, order : {"ascend", "descend"},
   limit : 0 .. MaxLimit]

(* A row of EMPTY is no filter.                                            *)
fjoined(q) == IF q.joined = NoFilter THEN EMPTY ELSE q.joined

(* The first that applies of these maps is written.                        *)
ByYear(q) ==
  [field |-> "joined", row |-> fjoined(q), key |-> IF "country" \in q.keys THEN "country" ELSE "sex"]

BySex(q) ==
  [field |-> "sex", row |-> q.sex, key |-> IF "country" \in q.keys THEN "country" ELSE "city"]

Reads(q) ==
  /\ map = IF fjoined(q) # EMPTY THEN ByYear(q) ELSE BySex(q)
  /\ map.key \in q.keys

(* The map's pairs from one end of its order, as many as the limit lets    *)
(* through.                                                                *)
PairsUpwards(m, order) == Upwards(m)

Pairs(m, order) == IF order = "ascend" THEN Upwards(m) ELSE Downwards(m)

CutOneMore(s, n) == SubSeq(s, 1, IF Len(s) < n + 1 THEN Len(s) ELSE n + 1)

Cut(s, n) == SubSeq(s, 1, IF Len(s) < n THEN Len(s) ELSE n)

(* By sex, for a year, the limit is not minded.                            *)
Listed(q) ==
  IF map.key = "sex" THEN Pairs(group, q.order) ELSE Cut(Pairs(group, q.order), q.limit)

(* What the answer to q has of the map.                                    *)
Answer(q) == IF Reads(q) THEN Listed(q) ELSE <<>>

-----------------------------------------------------------------------------
TypeOK ==
  /\ pc \in {"index", "serve"}
  /\ max_id \in Ids
  /\ accounts \in [1 .. max_id -> Accounts]
  /\ map \in grp
  /\ MapType(group)
  /\ i \in 0 .. ArrSize
  /\ runs \in 0 .. MaxRuns

(* When no index run is under way the counter of a code is the number of   *)
(* the row's accounts with it, added up over the runs, modulo its width:   *)
(* each run counts each account once, and sorting moves no count to        *)
(* another key.                                                            *)
CountersAddUp ==
  pc = "serve" => \A c \in Codes : CountOf(group, c) = total[c] % VMod

Known == {c \in Codes : total[c] % VMod # 0}

(* What the index run under way has counted of the code c.                 *)
Handled(c) ==
  {k \in 1 .. max_id : i < k /\ InRow(accounts[k]) /\ CodeOf(accounts[k]) = c}

UnderWay(c) == IF pc = "index" THEN Cardinality(Handled(c)) ELSE 0

(* makeIndex uses the map as one whose counts are those of all accounts    *)
(* handled in all runs: an account handled is one more for one code, and   *)
(* nothing else than the sort at the end of a run moves the pairs; posts   *)
(* leave the map and what it should hold alone.                            *)
Use == INSTANCE NgvsMapUse WITH
  Keys     <- Codes,
  MaxSorts <- MaxRuns,
  m        <- group,
  count    <- [c \in Codes |-> (total[c] + UnderWay(c)) % VMod],
  sorts    <- runs,
  fresh    <- runs > 0 /\ \A c \in Codes : UnderWay(c) = 0

UsesMap == Use!MapSpec

(* What clients mean by a query: one filter and one key ask for a map, but *)
(* joined=2011 is answered by nothing.  With both filters the code answers *)
(* for the year, and with more keys by the country.                        *)
Asked(q) ==
  /\ q.keys = {map.key}
  /\ IF map.field = "joined"
     THEN q.joined = map.row /\ map.row # EMPTY /\ q.sex = NoFilter
     ELSE q.sex = map.row /\ q.joined = NoFilter

(* With pos beyond the end of the map there is no telling.                 *)
Answered(q) == pc = "serve" /\ Asked(q) /\ Walkable(group)

(* An answer names groups of the year or sex asked for, as many as the     *)
(* limit at most, each once, with their counters, none of them 0, in the   *)
(* order asked for.                                                        *)
AnswerIsOrdered ==
  \A q \in Queries : Answered(q) =>
    /\ map.key # "sex" => Len(Answer(q)) <= q.limit
    /\ \A n \in DOMAIN Answer(q) :
         /\ Answer(q)[n].first \in Known
         /\ Answer(q)[n].second = total[Answer(q)[n].first] % VMod
         /\ \A l \in DOMAIN Answer(q) : l < n =>
              /\ Answer(q)[l].first # Answer(q)[n].first
              /\ IF q.order = "ascend" THEN Answer(q)[l].second <= Answer(q)[n].second
                                       ELSE Answer(q)[l].second >= Answer(q)[n].second

LeftOut(q) == Known \ {Answer(q)[n].first : n \in DOMAIN Answer(q)}

(* No group an answer leaves out comes before one it names, and until the  *)
(* index is made a second time it is cut by nothing but the limit.  Made   *)
(* again, pos wrongly skips the smallest groups: that leaves the order     *)
(* right only if it is descending, which is the default.                   *)
AnswerIsTop ==
  \A q \in Queries : Answered(q) =>
    /\ runs = 1 /\ LeftOut(q) # {} => Len(Answer(q)) = q.limit
    /\ \A c \in LeftOut(q), n \in DOMAIN Answer(q) :
         IF q.order = "descend" THEN Answer(q)[n].second >= total[c] % VMod
                                ELSE runs = 1 => Answer(q)[n].second <= total[c] % VMod

-----------------------------------------------------------------------------
(* "1900+year-111 2011-2018": the rows are the years from 2011 on, so a    *)
(* query for the first of them lists its groups.                           *)
FirstYearListed ==
  pc = "serve" /\ map = [field |-> "joined", row |-> 0, key |-> "country"] /\ Known # {}
    => \A q \in Queries :
         q.joined = 0 /\ q.keys = {"country"} /\ q.limit > 0 => Answer(q) # <<>>

=============================================================================
