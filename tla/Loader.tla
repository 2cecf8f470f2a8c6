------------------------------- MODULE Loader -------------------------------
(***************************************************************************)
(* loadData, the dictionaries it makes of the names in the data, and the   *)
(* lists of likers; how postNew looks names up in them; how makeIndex      *)
(* merges the likers; getSuggest, which reads them; and the e-mails in use, *)
(* which postId checks.                                                    *)
(*                                                                         *)
(* Of an account's names there are: the first name (country and city have  *)
(* the same code), the surname, the e-mail domain (whose dictionary has    *)
(* neither strings nor vectors) and the interests.  The data name every    *)
(* account once; clients post ids that are not in the data, once.  All ids *)
(* are below the 30000 that max_id starts from: makeIndex goes over all.   *)
(*                                                                         *)
(* A definition next to another of nearly the same name (KnownAlone,       *)
(* ...) is a bug the code does not have, which a property notices.         *)
(***************************************************************************)
EXTENDS Integers, Sequences, FiniteSets, SequencesExt

CONSTANTS
  ArrSize,  \* the ids of accounts are 1 .. ArrSize
  Names,    \* names of any kind
  NoName,   \* a member that the account does not have
  Accounts  \* the accounts in the data and in requests:
            \* [fname, sname, email, domain, interests, sex, likes]

EMPTY  == 0
ABSENT == -1

Ids   == 1 .. ArrSize
Sexes == {0, 1}

Kinds == {"fname", "sname", "domain", "interests"}

(* Where the codes of a dictionary start: EMPTY is nobody's name.          *)
FirstCodeZero(k) == 0

FirstCode(k) == IF k \in {"fname", "sname"} THEN 1 ELSE 0

ASSUME NameAssumption == IsFiniteSet(Names) /\ NoName \notin Names /\ ArrSize \in Nat

ASSUME AccountAssumption ==
  Accounts \subseteq
    [fname : Names \union {NoName}, sname : Names \union {NoName}, email : Names,
     domain : Names, interests : Seq(Names), sex : Sexes, likes : Seq([id : Ids, ts : Nat])]

VARIABLES
  dic,      \* dic[k][n]: the code of the name n, or ABSENT
  val,      \* dic_*_val: the next code
  strings,  \* dic_fname_strings and dic_sname_strings, from the code 0 on
  vec,      \* chunked_fname_vec and chunked_inters_vec, from the code 0 on
  accounts, \* their codes, sex and likes
  likers,   \* likers[k][s]: who of the sex s likes the account k, and when
  data,     \* history: the accounts as the data have them, by id
  posted,   \* history: the accounts as posted
  email_set, \* e-mails in use
  serving   \* the data are loaded and indexed

vars == <<dic, val, strings, vec, accounts, likers, data, posted, email_set, serving>>

NoAccount ==
  [fname |-> EMPTY, sname |-> EMPTY, email |-> NoName, domain |-> EMPTY, sex |-> 0,
   likes |-> <<>>]

NoRecord == [fname |-> NoName]

Loaded == {k \in Ids : data[k] # NoRecord}
Posted == {k \in Ids : posted[k] # NoRecord}

-----------------------------------------------------------------------------
Init ==
  /\ dic = [k \in Kinds |-> [n \in Names |-> ABSENT]]
  /\ val = [k \in Kinds |-> FirstCode(k)]
  /\ strings = [k \in {"fname", "sname"} |-> <<NoName>>]
  /\ vec = [fname |-> << {} >>, interests |-> <<>>]
  /\ accounts = [k \in Ids |-> NoAccount]
  /\ likers = [k \in Ids |-> [s \in Sexes |-> <<>>]]
  /\ data = [k \in Ids |-> NoRecord]
  /\ posted = [k \in Ids |-> NoRecord]
  /\ email_set = {}
  /\ serving = FALSE

(* The names of an account that go through the dictionary k, in their order. *)
NamesOf(a, k) ==
  CASE k = "domain"    -> <<a.domain>>
    [] k = "interests" -> a.interests
    [] OTHER           -> IF a[k] = NoName THEN <<>> ELSE <<a[k]>>

(* Where in the list a name without a code is met for the first time; such *)
(* names get the next codes.                                               *)
New(a, k) ==
  {i \in DOMAIN NamesOf(a, k) :
     /\ dic[k][NamesOf(a, k)[i]] = ABSENT
     /\ \A j \in 1 .. i - 1 : NamesOf(a, k)[j] # NamesOf(a, k)[i]}

NextVal(a, k) == val[k] + Cardinality(New(a, k))

Earlier(a, k, n) == {j \in New(a, k) : \A i \in New(a, k) : NamesOf(a, k)[i] = n => j < i}

KnownAlone(a, k) ==
  [n \in Names |-> IF \E i \in New(a, k) : NamesOf(a, k)[i] = n THEN val[k] ELSE dic[k][n]]

Known(a, k) ==
  [n \in Names |-> IF \E i \in New(a, k) : NamesOf(a, k)[i] = n
                   THEN val[k] + Cardinality(Earlier(a, k, n))
                   ELSE dic[k][n]]

Code(d, n) == IF n = NoName THEN EMPTY ELSE d[n]

(* The strings, and those of the new codes.                                *)
Strings(a, k) ==
  [c \in 1 .. NextVal(a, k) |->
     IF c <= Len(strings[k]) THEN strings[k][c] ELSE CHOOSE n \in Names : Known(a, k)[n] = c - 1]

(* The vectors and one for each new code, with id in those of the codes.   *)
BitsSet(v, n, codes, id) ==
  [c \in 1 .. n |->
     (IF c <= Len(v) THEN v[c] ELSE {}) \union (IF c - 1 \in codes THEN {id} ELSE {})]

(* The elements of S one after the other, by an order R of them.           *)
InOrder(S, R) ==
  [n \in 1 .. Cardinality(S) |-> CHOOSE e \in S : Cardinality({d \in S : <<d, e>> \in R}) = n - 1]

Ascending(S) == InOrder(S, {p \in S \X S : p[1] < p[2]})

(* Each like is put down with the one who is liked, by the liker's sex.    *)
Places(likes, k) == {n \in DOMAIN likes : likes[n].id = k}

Entries(a, id, k) ==
  LET liking == Ascending(Places(a.likes, k))
  IN  [n \in DOMAIN liking |-> [id |-> id, ts |-> a.likes[liking[n]].ts]]

LikersWith(a, id) ==
  [k \in Ids |-> [s \in Sexes |->
     IF a.sex = s THEN likers[k][s] \o Entries(a, id, k) ELSE likers[k][s]]]

(* The account's own likes go by the id, from the highest; likes of the    *)
(* same account in any order.                                              *)
Sortings(likes) ==
  {p \in Bijection(DOMAIN likes, DOMAIN likes) :
     \A m, n \in DOMAIN likes : m < n => likes[p[m]].id >= likes[p[n]].id}

(* loadData: one account of the data, in whatever order these come.        *)
Load(id, a) ==
  /\ ~ serving
  /\ id \notin Loaded
  /\ dic' = [k \in Kinds |-> Known(a, k)]
  /\ val' = [k \in Kinds |-> NextVal(a, k)]
  /\ strings' = [k \in {"fname", "sname"} |-> Strings(a, k)]
  /\ vec' = [fname |-> BitsSet(vec.fname, val'.fname, {Code(dic'.fname, a.fname)}, id),
             interests |-> BitsSet(vec.interests, val'.interests,
                                   {dic'.interests[n] : n \in ToSet(a.interests)}, id)]
  /\ \E p \in Sortings(a.likes) :
       accounts' = [accounts EXCEPT ![id] =
         [fname |-> Code(dic'.fname, a.fname), sname |-> Code(dic'.sname, a.sname),
          email |-> a.email, domain |-> dic'.domain[a.domain], sex |-> a.sex,
          likes |-> [n \in DOMAIN a.likes |-> a.likes[p[n]]]]]
  /\ likers' = LikersWith(a, id)
  /\ data' = [data EXCEPT ![id] = a]
  /\ UNCHANGED <<posted, email_set, serving>>

(* One entry for each liker who follows himself in a list, at the average  *)
(* of their times.                                                         *)
Starts(l) == {n \in DOMAIN l : n = 1 \/ l[n - 1].id # l[n].id}

RunOf(l, n) == {m \in DOMAIN l : m >= n /\ \A i \in n .. m : l[i].id = l[n].id}

Total(l, run) == SumFunction([m \in run |-> l[m].ts])

MergedToTotal(l) ==
  LET starts == Ascending(Starts(l))
  IN  [i \in DOMAIN starts |->
         [id |-> l[starts[i]].id, ts |-> Total(l, RunOf(l, starts[i]))]]

Merged(l) ==
  LET starts == Ascending(Starts(l))
  IN  [i \in DOMAIN starts |->
         [id |-> l[starts[i]].id,
          ts |-> Total(l, RunOf(l, starts[i])) \div Cardinality(RunOf(l, starts[i]))]]

(* makeIndex: once before the first request, and later by a worker.        *)
MakeIndex ==
  /\ Loaded # {}
  /\ likers' = [k \in Ids |-> [s \in Sexes |-> Merged(likers[k][s])]]
  /\ email_set' = email_set \union {accounts[k].email : k \in Ids}
  /\ serving' = TRUE
  /\ UNCHANGED <<dic, val, strings, vec, accounts, data, posted>>

(* dictionary[name] inserts a name it does not have, with the code 0.      *)
InsertedNext(k, names) ==
  [n \in Names |-> IF n \in names /\ dic[k][n] = ABSENT THEN val[k] ELSE dic[k][n]]

Inserted(k, names) ==
  [n \in Names |-> IF n \in names /\ dic[k][n] = ABSENT THEN 0 ELSE dic[k][n]]

(* postNew: the surname is looked up among the first names, and the likes  *)
(* and the interests' bits of the account itself are not stored.           *)
PostNewUnseen(id, a) ==
  /\ serving
  /\ id \notin Loaded \union Posted
  /\ dic' = [dic EXCEPT !.fname = Inserted("fname", {a.fname, a.sname}),
                        !.domain = Inserted("domain", {a.domain}),
                        !.interests = Inserted("interests", ToSet(a.interests))]
  /\ accounts' = [accounts EXCEPT ![id] =
       [fname |-> Code(dic'.fname, a.fname), sname |-> Code(dic'.fname, a.sname),
        email |-> a.email, domain |-> dic'.domain[a.domain], sex |-> a.sex,
        likes |-> <<>>]]
  /\ posted' = [posted EXCEPT ![id] = a]
  /\ UNCHANGED <<val, strings, vec, likers, data, email_set, serving>>

PostNew(id, a) ==
  /\ serving
  /\ id \notin Loaded \union Posted
  /\ dic' = [dic EXCEPT !.fname = Inserted("fname", {a.fname, a.sname}),
                        !.domain = Inserted("domain", {a.domain}),
                        !.interests = Inserted("interests", ToSet(a.interests))]
  /\ accounts' = [accounts EXCEPT ![id] =
       [fname |-> Code(dic'.fname, a.fname), sname |-> Code(dic'.fname, a.sname),
        email |-> a.email, domain |-> dic'.domain[a.domain], sex |-> a.sex,
        likes |-> <<>>]]
  /\ email_set' = email_set \union {a.email}
  /\ posted' = [posted EXCEPT ![id] = a]
  /\ UNCHANGED <<val, strings, vec, likers, data, serving>>

Next ==
  \/ \E id \in Ids, a \in Accounts : Load(id, a) \/ PostNew(id, a)
  \/ MakeIndex

Spec == Init /\ [][Next]_vars

-----------------------------------------------------------------------------
(* getSuggest: those of my sex who like someone I like, by how far apart   *)
(* in time; then all they like but me.                                     *)
Gap(s, t) == IF s < t THEN t - s ELSE s - t

(* Each like of mine with each entry of somebody else who has it too.      *)
Shared(id) ==
  LET mine == accounts[id].likes
      others(n) == likers[mine[n].id][accounts[id].sex]
  IN  {e \in UNION {{[who |-> others(n)[m].id, like |-> n, entry |-> m,
                      gap |-> Gap(mine[n].ts, others(n)[m].ts)] : m \in DOMAIN others(n)} :
                    n \in DOMAIN mine} : e.who # id}

likers_mp(id) ==
  [j \in {e.who : e \in Shared(id)} |->
     SumFunction([e \in {e \in Shared(id) : e.who = j} |-> e.gap])]

(* sim_vec is sorted by the sum, then by the id.                           *)
Nearer(sum) ==
  {p \in (DOMAIN sum) \X (DOMAIN sum) :
     sum[p[1]] < sum[p[2]] \/ (sum[p[1]] = sum[p[2]] /\ p[1] < p[2])}

(* Of each of them all they like but me, in their order.                   *)
Listed(id) ==
  UNION {{[who |-> j, place |-> n] : n \in DOMAIN accounts[j].likes \ Places(accounts[j].likes, id)} :
         j \in DOMAIN likers_mp(id)}

InTurn(entries, sim) ==
  {p \in entries \X entries :
     \/ <<p[1].who, p[2].who>> \in sim
     \/ p[1].who = p[2].who /\ p[1].place < p[2].place}

Suggested(id) ==
  LET listed == InOrder(Listed(id), InTurn(Listed(id), Nearer(likers_mp(id))))
  IN  [n \in DOMAIN listed |->
         [who |-> listed[n].who, id |-> accounts[listed[n].who].likes[listed[n].place].id]]

Answer(id, limit) ==
  SubSeq(Suggested(id), 1, IF limit < Len(Suggested(id)) THEN limit ELSE Len(Suggested(id)))

(* postId: the members of an update, [key, val], are checked in their      *)
(* order; it stores none of them.                                          *)
Refused(member) ==
  \/ member.key = "email" /\ member.val \in email_set
  \/ member.key \in {"email", "premium", "sex", "status", "birth", "joined"} /\ member.val = NoName
  \/ member.key = "likes"

postId(members) ==
  IF \E n \in DOMAIN members : Refused(members[n]) THEN "400" ELSE "202"

-----------------------------------------------------------------------------
NamesTyped ==
  /\ dic \in [Kinds -> [Names -> {ABSENT} \union 0 .. Cardinality(Names)]]
  /\ \A k \in Kinds : val[k] \in FirstCode(k) .. FirstCode(k) + Cardinality(Names)
  /\ \A k \in {"fname", "sname"} : Len(strings[k]) = val[k]
  /\ \A k \in {"fname", "interests"} : Len(vec[k]) = val[k]
  /\ \A k \in Ids : accounts[k].fname < val.fname /\ accounts[k].domain \in Nat
  /\ data \in [Ids -> Accounts \union {NoRecord}]
  /\ posted \in [Ids -> Accounts \union {NoRecord}]
  /\ email_set \subseteq Names \union {NoName}
  /\ serving \in BOOLEAN

LikersTyped ==
  \A k \in Ids, s \in Sexes : \A n \in DOMAIN likers[k][s] :
    likers[k][s][n].id \in Loaded /\ likers[k][s][n].ts \in Nat

TypeOK == NamesTyped /\ LikersTyped

InData(k) == UNION {ToSet(NamesOf(data[id], k)) : id \in Loaded}

(* An account of the data is answered with the names it has there, and one *)
(* posted with its first name, if the data have that name, or none.        *)
NamesPrinted ==
  /\ \A id \in Loaded :
       /\ strings.fname[accounts[id].fname + 1] = data[id].fname
       /\ strings.sname[accounts[id].sname + 1] = data[id].sname
  /\ \A id \in Posted :
       strings.fname[accounts[id].fname + 1] =
         IF posted[id].fname \in InData("fname") THEN posted[id].fname ELSE NoName

(* A query by a name of the data reads the vector, or compares with the    *)
(* code, of exactly the accounts that have it there, whatever was posted.  *)
(* A name that only clients have used is unknown, or it reads as the code  *)
(* 0: as no first name, as the data's first domain or interest.            *)
NamesFind ==
  \A k \in Kinds \ {"sname"} : \A n \in Names :
    IF n \in InData(k)
    THEN {id \in Loaded : n \in ToSet(NamesOf(data[id], k))} =
           IF k = "domain" THEN {id \in Loaded : accounts[id].domain = dic.domain[n]}
                           ELSE vec[k][dic[k][n] + 1]
    ELSE dic[k][n] \in {ABSENT, 0}

(* An update is refused for its e-mail exactly if an account of the data   *)
(* or a posted one has it, whenever the index was made.                    *)
EmailsTaken ==
  serving => \A e \in Names :
    postId(<<[key |-> "email", val |-> e]>>) = "400"
      <=> \/ \E k \in Loaded : data[k].email = e
          \/ \E k \in Posted : posted[k].email = e

(* What an account likes in the data, and when on average.                 *)
Liked(id) == {data[id].likes[n].id : n \in DOMAIN data[id].likes}

TimeOf(id, k) ==
  Total(data[id].likes, Places(data[id].likes, k)) \div Cardinality(Places(data[id].likes, k))

(* How far apart in time j likes what id likes, too.                       *)
Apart(id, j) ==
  SumFunction([n \in {n \in DOMAIN data[id].likes : data[id].likes[n].id \in Liked(j)} |->
                 Gap(data[id].likes[n].ts, TimeOf(j, data[id].likes[n].id))])

Alike(id) ==
  {j \in Loaded \ {id} : data[j].sex = data[id].sex /\ Liked(j) \intersect Liked(id) # {}}

(* Suggestions are what the data say of those of my sex who like someone I *)
(* like: in whatever order the data came, however often they were indexed, *)
(* whoever was posted, the nearest first, and of each all they like.       *)
SuggestExact ==
  serving => \A id \in Loaded :
    LET answer == Suggested(id)
    IN  /\ \A m, n \in DOMAIN answer :
             LET i == answer[m].who  j == answer[n].who
             IN  /\ i \in Alike(id) /\ answer[m].id # id
                 /\ (m < n /\ i # j) => \/ Apart(id, i) < Apart(id, j)
                                        \/ Apart(id, i) = Apart(id, j) /\ i < j
        /\ \A j \in Alike(id), k \in Ids \ {id} :
             Cardinality({n \in DOMAIN answer : answer[n] = [who |-> j, id |-> k]})
               = Cardinality(Places(data[j].likes, k))

=============================================================================
