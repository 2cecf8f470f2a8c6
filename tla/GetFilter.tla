------------------------------ MODULE GetFilter ------------------------------
(***************************************************************************)
(* GET /accounts/filter/ from the filters of a query to its answer: which  *)
(* filter chooses the walk over candidates, which filters each candidate   *)
(* is still checked against, and over what: accounts loaded, accounts      *)
(* posted since, accounts an index run has covered.                        *)
(*                                                                         *)
(* Here a walk is the set of its candidates.  That it takes them from the  *)
(* highest id down, as far as the limit reaches (DescendingWalk), is left  *)
(* to the modules it is proved in: AccountIndex for the chains, whose      *)
(* links are taken to be wide enough, CombinedWalk for the vectors.  The   *)
(* links of value chains are state here as well, since several attributes' *)
(* chains and an account posted late make a walk stray.                    *)
(*                                                                         *)
(* A client posts an account once, under an id that nobody has.  The index *)
(* may cover that id all the same: the data may leave it out, it may be    *)
(* below the StartMax that max_id starts from, or below an id posted and   *)
(* indexed before it.  Such an account is late.                            *)
(*                                                                         *)
(* A definition next to another of nearly the same name (FirstToCheck,     *)
(* ...) is a bug the code does not have, which a property notices.         *)
(***************************************************************************)
EXTENDS Integers, Sequences, FiniteSetsExt

CONSTANTS
  ArrSize,  \* arr_size: the accounts array has the ids 0 .. ArrSize
  StartMax, \* max_id before the data is loaded
  Accounts, \* the accounts that the data and the clients may store
  Queries   \* the queries, sets of filters [attr, pred, arg], arg a set of codes

EMPTY   == 0
UNKNOWN == -1   \* a name that its dictionary does not have

Ids == 1 .. ArrSize

(* accounts[0], and every id nobody stored.                                *)
DefaultAccount ==
  [sex |-> 0, status |-> 0, country |-> EMPTY, city |-> EMPTY, fname |-> EMPTY,
   sname |-> EMPTY, phone_code |-> EMPTY, birth_ts |-> EMPTY, birth_year |-> 255,
   email |-> EMPTY, email_domain |-> EMPTY, interests |-> {}, likes |-> {},
   prem_start |-> EMPTY, prem_now |-> 0]

ASSUME SizeAssumption == ArrSize \in Nat \ {0} /\ StartMax \in Ids

(* Codes are unsigned, an e-mail is its place in the order of e-mails.     *)
ASSUME AccountAssumption ==
  Accounts \subseteq
    [sex : Nat, status : Nat, country : Nat, city : Nat, fname : Nat, sname : Nat,
     phone_code : Nat, birth_ts : Nat, birth_year : Nat, email : Nat,
     email_domain : Nat, interests : SUBSET Nat, likes : SUBSET Nat,
     prem_start : Nat, prem_now : {0, 1}]

VARIABLES
  accounts, \* accounts[k]
  max_id,   \* the highest id stored
  bits,     \* bits[k]: account k as the chunked vectors have it
  loaded,   \* the ids that have bits
  nxt,      \* nxt[a][k]: the account that k's link of the attribute a leads to
  first,    \* first[a][c]: the head of the chain of the code c
  seen,     \* seen[k]: account k as the last makeIndex saw it
  top,      \* max_id as the last makeIndex saw it
  stored,   \* history: the ids stored by the data or a client
  late,     \* history: those that an index covered before they were stored
  query,    \* the filters of the query being answered
  reply,    \* "none", "200" or "400"
  answer    \* the accounts of the answer

storeVars == <<accounts, max_id, stored, late>>
bitVars   == <<bits, loaded>>
indexVars == <<nxt, first, seen, top>>
replyVars == <<query, reply, answer>>
vars == <<storeVars, bitVars, indexVars, replyVars>>

-----------------------------------------------------------------------------
(* The parameters of a query; each is taken at most once (the got flags).  *)
Param(f) ==
  CASE f.attr \in {"birth_ts", "birth_year"}  -> "birth"
    [] f.attr \in {"email", "email_domain"}   -> "email"
    [] f.attr \in {"prem_start", "prem_now"}  -> "premium"
    [] OTHER                                  -> f.attr

(* enum precedence, in its order.                                          *)
precedence == <<
  <<"interests", "contains">>, <<"sname", "eq">>, <<"city", "eq">>,
  <<"fname", "eq">>, <<"phone_code", "eq">>, <<"country", "eq">>,
  <<"city", "any">>, <<"birth_year", "eq">>, <<"country", "null1">>,
  <<"city", "null1">>, <<"birth_ts", "lt">>, <<"birth_ts", "gt">>,
  <<"prem_start", "null1">>, <<"prem_start", "null0">>, <<"status", "neq">>,
  <<"fname", "any">>, <<"fname", "null1">>, <<"sname", "starts">>,
  <<"sname", "null1">>, <<"phone_code", "null1">>, <<"phone_code", "null0">>,
  <<"interests", "any">>, <<"likes", "contains">>, <<"email_domain", "eq">>,
  <<"email", "lt">>, <<"email", "gt">>, <<"country", "null0">>,
  <<"city", "null0">>, <<"fname", "null0">>, <<"sname", "null0">>,
  <<"status", "eq">>, <<"sex", "eq">>, <<"prem_now", "eq">> >>

Kind(f) == <<f.attr, f.pred>>

Kinds == {precedence[n] : n \in DOMAIN precedence}

Rank == [c \in Kinds |-> CHOOSE n \in DOMAIN precedence : precedence[n] = c]

Before(f, g) == Rank[Kind(f)] < Rank[Kind(g)]

(* Only names that are looked up can be unknown; eq looks up one.          *)
ASSUME QueryAssumption ==
  \A q \in Queries : \A f \in q :
    /\ Kind(f) \in Kinds
    /\ \A g \in q : Param(f) = Param(g) => f = g
    /\ UNKNOWN \in f.arg =>
         f.pred \in {"any", "contains"} \/ (f.pred = "eq" /\ f.arg = {UNKNOWN})
    /\ f.attr = "prem_now" => f.arg = {1}

(* The filters that name a chunked vector, and those that have a chain.    *)
Combined ==
  {<<a, p>> : a \in {"country", "city", "fname"}, p \in {"eq", "null1"}}
    \union {<<"city", "any">>, <<"fname", "any">>, <<"interests", "any">>,
            <<"interests", "contains">>, <<"birth_year", "eq">>, <<"sex", "eq">>}

Chained ==
  {<<a, "null0">> : a \in {"country", "city", "fname", "sname", "phone_code"}}
    \union {<<"sname", "eq">>, <<"sname", "starts">>, <<"sname", "null1">>,
            <<"phone_code", "eq">>, <<"phone_code", "null1">>,
            <<"prem_start", "null0">>, <<"prem_start", "null1">>, <<"prem_now", "eq">>}

-----------------------------------------------------------------------------
(* What the filter f demands of the account a: the reference filter in the *)
(* comment at the end of get_filter.cpp.  A name prefix is the set of the  *)
(* codes of the names it starts; an unset e-mail compares equal.           *)
Holds(f, a) ==
  CASE f.pred \in {"eq", "starts"} -> a[f.attr] \in f.arg
    [] f.pred = "neq"      -> a[f.attr] \notin f.arg
    [] f.pred = "null0"    -> a[f.attr] # EMPTY
    [] f.pred = "null1"    -> a[f.attr] = EMPTY
    [] f.pred = "contains" -> f.arg \subseteq a[f.attr]
    [] f.pred = "any" /\ f.attr = "interests" -> \E c \in f.arg : c \in a.interests
    [] f.pred = "any" /\ f.attr # "interests" -> a[f.attr] \in f.arg
    [] f.pred = "lt" -> a[f.attr] = EMPTY \/ \A n \in f.arg : a[f.attr] <= n
    [] f.pred = "gt" -> (f.attr = "email" /\ a.email = EMPTY) \/ \A n \in f.arg : a[f.attr] >= n

(* The check of a candidate: BY_LIKES_CONTAINS has no case in the switch,   *)
(* and interests_contains is always combined.                              *)
Passes(f, a) == IF f.pred = "contains" THEN TRUE ELSE Holds(f, a)

combined2check(q) == {f \in q : Kind(f) \in Combined}
filters2check(q)  == q \ combined2check(q)

(* filters2check.back(): they are sorted in descending order of precedence. *)
LastToCheck(q, f) ==
  f \in filters2check(q) /\ \A g \in filters2check(q) : g # f => Before(f, g)

(* The one filter that f heads the walk of a query: no vector is combined, *)
(* f is the last to check, and it has a chain.                             *)
HeadsWalk(q, f) == combined2check(q) = {} /\ LastToCheck(q, f) /\ Kind(f) \in Chained

Scans(q) == combined2check(q) = {} /\ \A f \in q : ~ HeadsWalk(q, f)

(* The walk has seen to the filter that heads it: pop_back().              *)
ResidualPopped(q) == {f \in filters2check(q) : ~ LastToCheck(q, f)}

Residual(q) == {f \in filters2check(q) : ~ HeadsWalk(q, f)}

-----------------------------------------------------------------------------
(* The value chains that a query walks along; those of prem_start are kept *)
(* by whether it is set.  Nobody without a premium is on a prem_now chain. *)
NULL0 == 0
NULL1 == 1

Linked == {"sname", "phone_code", "prem_start", "prem_now"}

Key(a, attr) ==
  IF attr = "prem_start" THEN (IF a.prem_start = EMPTY THEN NULL1 ELSE NULL0) ELSE a[attr]

Keys(attr) == {Key(a, attr) : a \in Accounts \union {DefaultAccount}}

Members(attr, c) ==
  {k \in 1 .. max_id : Key(accounts[k], attr) = c /\ (attr = "prem_now" => c # 0)}

(* The members of k's own chain below it.                                  *)
Below(attr, k) == {m \in Members(attr, Key(accounts[k], attr)) : m < k}

(* makeIndex gives each account with somebody below it a link, and each    *)
(* chain with members a head; all else stays as the last index left it.    *)
Relinked(links) ==
  [attr \in Linked |-> [k \in Ids |->
     IF k <= max_id /\ Below(attr, k) # {} THEN Max(Below(attr, k)) ELSE links[attr][k]]]

Reheaded(heads) ==
  [attr \in Linked |-> [c \in Keys(attr) |->
     IF Members(attr, c) # {} THEN Max(Members(attr, c)) ELSE heads[attr][c]]]

(* All that the links lead to from the heads, by 0 to nobody.              *)
Reached(links, heads) ==
  {k \in Ids : \A S \in SUBSET Ids :
     heads \subseteq S /\ (\A m \in S : links[m] # 0 => links[m] \in S) => k \in S}

(* The nonempty chain ends in account 1 whatever that holds, and has it as *)
(* its head when no account has a value.  Every run makes all of it anew.  *)
NonEmpty(attr) == {k \in 1 .. top : seen[k][attr] # EMPTY}

HeadOf(attr, k) ==
  \/ k \in NonEmpty(attr) /\ \A m \in NonEmpty(attr) : m <= k
  \/ k = 1 /\ NonEmpty(attr) = {}

(* The heads that a walk along value chains starts from.  phone_null=1     *)
(* follows the value chain from the head of the nonempty one.              *)
Asked(f) ==
  CASE f.pred \in {"eq", "starts"} -> f.arg
    [] f.attr = "prem_start" -> {IF f.pred = "null0" THEN NULL0 ELSE NULL1}
    [] OTHER -> {EMPTY}

Heads(f) ==
  IF Kind(f) = <<"phone_code", "null1">> THEN {k \in Ids : HeadOf("phone_code", k)}
  ELSE {first[f.attr][c] : c \in Asked(f) \cap Keys(f.attr)} \ {0}

OnNonEmpty(f) == f.pred = "null0" /\ f.attr # "prem_start"

Chain(f) ==
  IF OnNonEmpty(f) THEN NonEmpty(f.attr) \union {1} ELSE Reached(nxt[f.attr], Heads(f))

(* The full scan goes on to accounts[0].                                   *)
Candidates(q) ==
  {k \in 0 .. ArrSize :
     \/ /\ combined2check(q) # {} /\ k \in loaded
        /\ \A f \in combined2check(q) : Holds(f, bits[k])
     \/ \E f \in q : HeadsWalk(q, f) /\ k \in Chain(f)
     \/ Scans(q) /\ k <= max_id}

Answer(q) == {k \in Candidates(q) : \A f \in Residual(q) : Passes(f, accounts[k])}

(* A name nobody has: refused for a country, no account for the others.    *)
(* city_any alone goes on with the names that are known.                   *)
Refused(f) == Kind(f) = <<"country", "eq">> /\ UNKNOWN \in f.arg

Fruitless(f) ==
  IF Kind(f) = <<"city", "any">> THEN f.arg \subseteq {UNKNOWN}
  ELSE f.attr # "country" /\ UNKNOWN \in f.arg

-----------------------------------------------------------------------------
(* The data, and the first index.  An id up to max_id that the data lacks  *)
(* is a default account, in chains but without bits.                       *)
Init ==
  /\ loaded \in (SUBSET Ids) \ {{}}
  /\ accounts \in [0 .. ArrSize -> Accounts \union {DefaultAccount}]
  /\ \A k \in 0 .. ArrSize : k \in loaded <=> accounts[k] # DefaultAccount
  /\ max_id \in loaded \union {StartMax}
  /\ \A k \in loaded \union {StartMax} : k <= max_id
  /\ bits = accounts
  /\ nxt = Relinked([attr \in Linked |-> [k \in Ids |-> 0]])
  /\ first = Reheaded([attr \in Linked |-> [c \in Keys(attr) |-> 0]])
  /\ seen = accounts
  /\ top = max_id
  /\ stored = loaded /\ late = {}
  /\ query = {} /\ reply = "none" /\ answer = {}

(* postNew sets neither interests nor likes of the account.                *)
Stored(a) == [a EXCEPT !.interests = {}, !.likes = {}]

(* postNew: the vectors and the chains are not touched.                    *)
PostNewUnchecked(k, a) ==
  /\ reply = "none"
  /\ k \notin stored
  /\ accounts' = [accounts EXCEPT ![k] = Stored(a)]
  /\ max_id' = k
  /\ stored' = stored \union {k}
  /\ late' = late \union ({k} \cap 1 .. top)
  /\ UNCHANGED <<bitVars, indexVars, replyVars>>

PostNew(k, a) ==
  /\ reply = "none"
  /\ k \notin stored
  /\ accounts' = [accounts EXCEPT ![k] = Stored(a)]
  /\ max_id' = IF max_id < k THEN k ELSE max_id
  /\ stored' = stored \union {k}
  /\ late' = late \union ({k} \cap 1 .. top)
  /\ UNCHANGED <<bitVars, indexVars, replyVars>>

(* makeIndex: the chains are made anew, the vectors stay as loaded.        *)
MakeIndexPast ==
  /\ reply = "none"
  /\ nxt' = Relinked(nxt)
  /\ first' = Reheaded(first)
  /\ seen' = accounts
  /\ top' = max_id + 1
  /\ UNCHANGED <<storeVars, bitVars, replyVars>>

MakeIndex ==
  /\ reply = "none"
  /\ nxt' = Relinked(nxt)
  /\ first' = Reheaded(first)
  /\ seen' = accounts
  /\ top' = max_id
  /\ UNCHANGED <<storeVars, bitVars, replyVars>>

(* A query: refused, answered empty for a name nobody has (by whichever    *)
(* comes first), or answered from the walk.                                *)
Ask(q) ==
  /\ reply = "none"
  /\ query' = q
  /\ \/ \E f \in q : Refused(f) /\ reply' = "400" /\ answer' = {}
     \/ \E f \in q : Fruitless(f) /\ reply' = "200" /\ answer' = {}
     \/ /\ \A f \in q : ~ Refused(f) /\ ~ Fruitless(f)
        /\ reply' = "200" /\ answer' = Answer(q)
  /\ UNCHANGED <<storeVars, bitVars, indexVars>>

Reply ==
  /\ reply # "none"
  /\ query' = {} /\ reply' = "none" /\ answer' = {}
  /\ UNCHANGED <<storeVars, bitVars, indexVars>>

Next ==
  \/ \E k \in Ids, a \in Accounts : PostNew(k, a)
  \/ MakeIndex
  \/ \E q \in Queries : Ask(q)
  \/ Reply

Spec == Init /\ [][Next]_vars

-----------------------------------------------------------------------------
Records == Accounts \union {Stored(a) : a \in Accounts} \union {DefaultAccount}

TypeOK ==
  /\ accounts \in [0 .. ArrSize -> Records]
  /\ max_id \in Ids
  /\ bits \in [0 .. ArrSize -> Accounts \union {DefaultAccount}]
  /\ loaded \subseteq 1 .. max_id
  /\ nxt \in [Linked -> [Ids -> 0 .. ArrSize]]
  /\ \A attr \in Linked : \A k \in Ids : nxt[attr][k] < k
  /\ \A attr \in Linked : first[attr] \in [Keys(attr) -> 0 .. ArrSize]
  /\ seen \in [0 .. ArrSize -> Records]
  /\ top \in 1 .. max_id
  /\ stored \subseteq 1 .. max_id /\ late \subseteq stored
  /\ query \in Queries \union {{}}
  /\ reply \in {"none", "200", "400"}
  /\ answer \subseteq 0 .. max_id

Matches(q, k) == \A f \in q : Holds(f, accounts[k])

(* The accounts a query can know of: those of the data if it combines      *)
(* vectors, those that are still as the last index saw them if it follows  *)
(* chains, and all if it scans, accounts[0] among them.                    *)
Known(q) ==
  {k \in 0 .. max_id :
     \/ combined2check(q) # {} /\ k \in loaded
     \/ combined2check(q) = {} /\ ~ Scans(q) /\ k \in 1 .. top /\ seen[k] = accounts[k]
     \/ Scans(q)}

(* Where the code leaves the reference filter: likes are not checked,      *)
(* phone_null=1 follows the wrong chain, and one unknown name among those  *)
(* of fname_any or interests_any empties the answer.                       *)
Deviates(q) ==
  \E f \in q :
    \/ f.attr = "likes"
    \/ f.pred = "null1" /\ f.attr = "phone_code" /\ HeadsWalk(q, f)
    \/ f.pred = "any" /\ UNKNOWN \in f.arg

(* ... and a null=0 walk ends in account 1, whatever that holds.           *)
Stray(q) == IF \E f \in q : HeadsWalk(q, f) /\ OnNonEmpty(f) THEN {1} ELSE {}

(* An account that is stored late leaves the chains of the accounts        *)
(* without a value, but no link or head that led to it or from it is       *)
(* taken back: walks along chains of these attributes may leave theirs.    *)
Crossed(q) ==
  {f \in q : late # {} /\ HeadsWalk(q, f) /\ ~ OnNonEmpty(f) /\ f.attr # "prem_now"}

(* Whichever of its filters chooses the walk and is not checked again,     *)
(* whatever was posted and indexed since the load, an answer has every     *)
(* account the query can know of that passes all its filters.  It has no   *)
(* other, unless somebody was stored late and it follows one of the chains *)
(* Crossed names; then all its filters but that one still hold.            *)
AnswerExact ==
  reply = "200" /\ ~ Deviates(query) =>
    /\ {k \in Known(query) : Matches(query, k)} \ Stray(query) \subseteq answer
    /\ \A k \in answer \ Stray(query) :
         /\ Matches(query \ Crossed(query), k)
         /\ Crossed(query) = {} => k \in Known(query)

(* No account stored that passes a query's filters, and that the query     *)
(* would have answered, is lost to it by a POST or by an index run.        *)
AnswersKept ==
  [][ reply = "none" /\ reply' = "none"
      => \A q \in Queries : ~ Deviates(q) =>
           {k \in Answer(q) \cap stored : Matches(q, k)} \subseteq Answer(q)' ]_vars

(* "for (auto &&it = acc_map.rbegin(); ...)" and its checks, such as       *)
(* "if(!likes.empty()){//contains ... continue; }": every account answered *)
(* is stored and passes every filter of the query.                         *)
AnswersPassReference ==
  answer \subseteq {k \in stored : Matches(query, k)}

=============================================================================
