------------------------------ MODULE MCWorker ------------------------------
(***************************************************************************)
(* Requests for TLC: headers of two lengths, so that the Content-Length of *)
(* one request may lie where another has none.                             *)
(***************************************************************************)
EXTENDS Worker

SampleRequests ==
  {[kind |-> "GET", head |-> 1, body |-> 0],
   [kind |-> "POST", head |-> 2, body |-> 2],
   [kind |-> "POST", head |-> 3, body |-> 0]}

=============================================================================
