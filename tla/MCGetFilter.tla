---------------------------- MODULE MCGetFilter ----------------------------
(***************************************************************************)
(* Accounts and filters for TLC: a few accounts that differ in every       *)
(* attribute and in what they leave out, filters of every kind, alone and  *)
(* those of each way to walk in pairs.                                     *)
(***************************************************************************)
EXTENDS GetFilter

Full ==
  [sex |-> 0, status |-> 0, country |-> 1, city |-> 1, fname |-> 1, sname |-> 1,
   phone_code |-> 1, birth_ts |-> 5, birth_year |-> 30, email |-> 1,
   email_domain |-> 0, interests |-> {0, 1}, likes |-> {1}, prem_start |-> 3,
   prem_now |-> 1]

Other ==
  [sex |-> 1, status |-> 1, country |-> 2, city |-> 2, fname |-> 2, sname |-> 2,
   phone_code |-> 2, birth_ts |-> 8, birth_year |-> 31, email |-> 2,
   email_domain |-> 1, interests |-> {1}, likes |-> {}, prem_start |-> 3,
   prem_now |-> 0]

Bare ==
  [sex |-> 1, status |-> 2, country |-> EMPTY, city |-> EMPTY, fname |-> EMPTY,
   sname |-> EMPTY, phone_code |-> EMPTY, birth_ts |-> 2, birth_year |-> 30,
   email |-> 3, email_domain |-> 0, interests |-> {}, likes |-> {},
   prem_start |-> EMPTY, prem_now |-> 0]

Mixed == [Full EXCEPT !.country = EMPTY, !.city = 2, !.sname = EMPTY,
                      !.phone_code = 2, !.prem_start = EMPTY, !.prem_now = 0, !.email = 2]

SampleAccounts == {Full, Other, Bare, Mixed}

Filter(attr, pred, arg) == [attr |-> attr, pred |-> pred, arg |-> arg]

Names == {"country", "city", "fname", "sname"}

SampleFilters ==
  {Filter(a, "eq", {1}) : a \in Names \union {"phone_code", "sex", "status",
                                               "email_domain", "prem_now"}}
    \union {Filter(a, p, {}) : a \in Names \union {"phone_code"}, p \in {"null0", "null1"}}
    \union {Filter("prem_start", p, {}) : p \in {"null0", "null1"}}
    \union {Filter("birth_year", "eq", {30}), Filter("birth_ts", "lt", {5}),
            Filter("birth_ts", "gt", {5}), Filter("email", "lt", {2}),
            Filter("email", "gt", {2}), Filter("status", "neq", {1}),
            Filter("city", "any", {1, UNKNOWN}), Filter("fname", "any", {1, 2}),
            Filter("interests", "any", {0, 1}), Filter("interests", "contains", {0, 1}),
            Filter("likes", "contains", {1}), Filter("sname", "starts", {1, 2}),
            Filter("country", "eq", {UNKNOWN}), Filter("sname", "eq", {UNKNOWN})}

(* Of every way to walk and to be checked, filters to meet each other in a  *)
(* query.                                                                  *)
Meeting ==
  {f \in SampleFilters :
     Kind(f) \in {<<"country", "eq">>, <<"city", "any">>, <<"sname", "eq">>,
                 <<"sname", "null0">>, <<"phone_code", "null1">>, <<"prem_now", "eq">>,
                 <<"prem_start", "null1">>, <<"status", "neq">>, <<"birth_ts", "lt">>,
                 <<"email", "gt">>, <<"interests", "contains">>, <<"fname", "null0">>}}

SampleQueries ==
  {q \in {{f, g} : f, g \in Meeting} \union {{f} : f \in SampleFilters} :
     \A f, g \in q : Param(f) = Param(g) => f = g}
  \union {{}}

=============================================================================
