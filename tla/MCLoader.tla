------------------------------ MODULE MCLoader ------------------------------
(***************************************************************************)
(* Accounts for TLC: names that differ and coincide between accounts and   *)
(* between kinds, an account without, an interest given twice, an e-mail   *)
(* of two, and likes given twice, to one another and by both sexes.        *)
(***************************************************************************)
EXTENDS Loader

CONSTANTS x, y, z

Like(id, ts) == [id |-> id, ts |-> ts]

Account(fname, sname, email, domain, interests, sex, likes) ==
  [fname |-> fname, sname |-> sname, email |-> email, domain |-> domain,
   interests |-> interests, sex |-> sex, likes |-> likes]

SampleAccounts ==
  {Account(x, y, x, x, <<x, y>>, 0, <<Like(3, 2), Like(3, 5), Like(2, 1)>>),
   Account(NoName, NoName, y, y, <<y, y>>, 0, <<Like(3, 4)>>),
   Account(y, x, x, x, <<>>, 1, <<Like(1, 3)>>),
   Account(z, z, z, z, <<z, x>>, 0, <<Like(2, 7), Like(3, 1)>>)}

=============================================================================
