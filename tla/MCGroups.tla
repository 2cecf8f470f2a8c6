------------------------------ MODULE MCGroups ------------------------------
(***************************************************************************)
(* Accounts for TLC: in every map groups of different sizes can arise, and *)
(* a gap between the codes.                                                *)
(***************************************************************************)
EXTENDS Groups

SampleAccounts ==
  {[joined |-> 1, sex |-> 0, country |-> 2, city |-> 0],
   [joined |-> 1, sex |-> 1, country |-> 0, city |-> 2],
   [joined |-> 0, sex |-> 0, country |-> 2, city |-> 2],
   [joined |-> 1, sex |-> 0, country |-> 0, city |-> 2]}

=============================================================================
