------------------------------- MODULE Worker -------------------------------
(***************************************************************************)
(* One worker's loop over its connections: epoll, receiving a request into *)
(* the worker's one buffer, and the loop that waits for the body of a POST. *)
(* What the handlers do with a request is PostServer's, GetFilter's and    *)
(* Groups'.                                                                *)
(*                                                                         *)
(* Bytes are counted in a few units: the first one of a request tells GET  *)
(* from POST, the Content-Length and what follows it up to the body are    *)
(* one, each of the others stands for any bytes that are none of these.    *)
(* Nothing else that a client sends holds "gth:" behind offset 100.        *)
(*                                                                         *)
(* A client sends its next request when it has the answer to the last one. *)
(* It may stop sending at any time, or break the connection; its request   *)
(* arrives in any pieces, but one whose header came in pieces is its last. *)
(*                                                                         *)
(* A definition next to another of nearly the same name (FindsLast, ...)   *)
(* is a bug the code does not have, which a property notices.              *)
(***************************************************************************)
EXTENDS Integers, Sequences, FiniteSets

CONSTANTS
  Conns,    \* the connections main has accepted for this worker, by descriptor
  Requests, \* what clients send: [kind, head, body], the sizes in units
  RECV_SZ   \* the size of recv_buff, and the most that recvfrom takes

NUL  == 0
GET  == 1
POST == 2
TEXT == 3
LENGTH(n) == 10 + n   \* Content-Length: n

Bytes(r) ==
  IF r.kind = "GET"
  THEN [p \in 1 .. r.head |-> IF p = 1 THEN GET ELSE TEXT]
  ELSE [p \in 1 .. r.head + r.body |->
          CASE p = 1      -> POST
            [] p = r.head -> LENGTH(r.body)
            [] OTHER      -> TEXT]

Units == {NUL, GET, POST, TEXT} \union {LENGTH(r.body) : r \in Requests}

(* recv_buff has room for a request and the '\0' behind it.                *)
ASSUME RequestAssumption ==
  /\ RECV_SZ \in Nat
  /\ \A r \in Requests :
       /\ r.kind \in {"GET", "POST"} /\ r.head \in Nat /\ r.body \in Nat
       /\ r.head > 0 /\ r.head + r.body < RECV_SZ
       /\ IF r.kind = "POST" THEN r.head > 1 ELSE r.body = 0

None == [kind |-> "none", head |-> 0, body |-> 0]

NoPost == [fd |-> "none", recv_result |-> 0, cont_len |-> 0, body_p |-> 0]

VARIABLES
  conn,        \* "none", "open", "shut" (the peer sends no more) or "reset"
  request,     \* the last request of the peer
  unsent,      \* what it has still to send of it
  chan,        \* what has arrived and is not received
  replied,     \* the peer has the answer to its request
  split,       \* history: the connections on which a header came in pieces
  pc,          \* "poll", "events", "body" or "crashed"
  events,      \* what epoll_wait returned and the loop has not come to
  recv_buff,
  post         \* of the POST whose body is awaited: its connection fd and the
               \* locals recv_result, cont_len and body_p

clientVars == <<request, unsent, split>>
postVars   == <<recv_buff, post>>
vars == <<conn, clientVars, chan, replied, pc, events, postVars>>

-----------------------------------------------------------------------------
Init ==
  /\ conn = [c \in Conns |-> "none"]
  /\ request = [c \in Conns |-> None]
  /\ unsent = [c \in Conns |-> <<>>]
  /\ chan = [c \in Conns |-> <<>>]
  /\ replied = [c \in Conns |-> FALSE]
  /\ split = {}
  /\ pc = "poll"
  /\ events = {}
  /\ recv_buff = [p \in 1 .. RECV_SZ |-> NUL]
  /\ post = NoPost

(* accept4 in main, which adds the descriptor to the worker's epoll set.   *)
Accept(c) ==
  /\ conn[c] = "none"
  /\ conn' = [conn EXCEPT ![c] = "open"]
  /\ UNCHANGED <<clientVars, chan, replied, pc, events, postVars>>

(* A client sends the first n units of a request, then some of the rest.   *)
Begin(c, r, n) ==
  /\ conn[c] = "open"
  /\ unsent[c] = <<>> /\ c \notin split
  /\ request[c] = None \/ replied[c]
  /\ n \in 1 .. Len(Bytes(r))
  /\ request' = [request EXCEPT ![c] = r]
  /\ chan' = [chan EXCEPT ![c] = chan[c] \o SubSeq(Bytes(r), 1, n)]
  /\ unsent' = [unsent EXCEPT ![c] = SubSeq(Bytes(r), n + 1, Len(Bytes(r)))]
  /\ replied' = [replied EXCEPT ![c] = FALSE]
  /\ split' = IF n < r.head THEN split \union {c} ELSE split
  /\ UNCHANGED <<conn, pc, events, postVars>>

SendMore(c, n) ==
  /\ conn[c] = "open"
  /\ n \in 1 .. Len(unsent[c])
  /\ chan' = [chan EXCEPT ![c] = chan[c] \o SubSeq(unsent[c], 1, n)]
  /\ unsent' = [unsent EXCEPT ![c] = SubSeq(unsent[c], n + 1, Len(unsent[c]))]
  /\ UNCHANGED <<conn, request, replied, split, pc, events, postVars>>

(* What has arrived can still be received, unless the connection is reset. *)
Leave(c, how) ==
  /\ conn[c] = "open"
  /\ conn' = [conn EXCEPT ![c] = how]
  /\ unsent' = [unsent EXCEPT ![c] = <<>>]
  /\ chan' = [chan EXCEPT ![c] = IF how = "reset" THEN <<>> ELSE chan[c]]
  /\ UNCHANGED <<request, replied, split, pc, events, postVars>>

-----------------------------------------------------------------------------
(* epoll_wait, level-triggered: a connection with data or at its end.  The *)
(* sets are small: all that is ready fits into events.                     *)
Ready == {c \in Conns : chan[c] # <<>> \/ conn[c] \in {"shut", "reset"}}

Poll ==
  /\ pc = "poll" /\ Ready # {}
  /\ events' = {[fd |-> c, hup |-> conn[c] = "reset"] : c \in Ready}
  /\ pc' = "events"
  /\ UNCHANGED <<conn, clientVars, chan, replied, postVars>>

EventsDone ==
  /\ pc = "events" /\ events = {}
  /\ pc' = "poll"
  /\ UNCHANGED <<conn, clientVars, chan, replied, events, postVars>>

Event(c, hup) == pc = "events" /\ [fd |-> c, hup |-> hup] \in events

Handled(c) == events' = {e \in events : e.fd # c}

Close(c) ==
  /\ conn' = [conn EXCEPT ![c] = "none"]
  /\ request' = [request EXCEPT ![c] = None]
  /\ unsent' = [unsent EXCEPT ![c] = <<>>]
  /\ chan' = [chan EXCEPT ![c] = <<>>]
  /\ replied' = [replied EXCEPT ![c] = FALSE]
  /\ split' = split \ {c}

Hangup(c) ==
  /\ Event(c, TRUE)
  /\ Close(c) /\ Handled(c)
  /\ UNCHANGED <<pc, postVars>>

(* recvfrom returns 0, or -1.                                              *)
ReceiveNoneIgnored(c) ==
  /\ Event(c, FALSE)
  /\ chan[c] = <<>>
  /\ Handled(c)
  /\ UNCHANGED <<conn, clientVars, chan, replied, pc, postVars>>

ReceiveNone(c) ==
  /\ Event(c, FALSE)
  /\ chan[c] = <<>>
  /\ Close(c) /\ Handled(c)
  /\ UNCHANGED <<pc, postVars>>

(* recvfrom of all that has arrived, to the place at in recv_buff.         *)
Taken(c) == IF Len(chan[c]) < RECV_SZ THEN Len(chan[c]) ELSE RECV_SZ

Receive(c, at) ==
  /\ chan[c] # <<>>
  /\ recv_buff' = [p \in 1 .. RECV_SZ |->
                     IF p \in at + 1 .. at + Taken(c) THEN chan[c][p - at] ELSE recv_buff[p]]
  /\ chan' = [chan EXCEPT ![c] = SubSeq(chan[c], Taken(c) + 1, Len(chan[c]))]

(* reqGet answers from whatever the buffer holds.                          *)
ReceiveGetAgain(c) ==
  /\ Event(c, FALSE)
  /\ Receive(c, 0)
  /\ recv_buff'[1] = GET
  /\ replied' = [replied EXCEPT ![c] = TRUE]
  /\ UNCHANGED <<conn, clientVars, pc, events, post>>

ReceiveGet(c) ==
  /\ Event(c, FALSE)
  /\ Receive(c, 0)
  /\ recv_buff'[1] = GET
  /\ replied' = [replied EXCEPT ![c] = TRUE]
  /\ Handled(c)
  /\ UNCHANGED <<conn, clientVars, pc, post>>

(* Neither GET nor POST: what was received is dropped.                     *)
ReceiveOther(c) ==
  /\ Event(c, FALSE)
  /\ Receive(c, 0)
  /\ recv_buff'[1] \notin {GET, POST}
  /\ Handled(c)
  /\ UNCHANGED <<conn, clientVars, replied, pc, post>>

(* strstr(&recv_buff[100],"gth:") finds p in the buffer b; it ends at a    *)
(* '\0', not with what was received.                                       *)
FindsLast(b, p) ==
  /\ p \in 2 .. RECV_SZ /\ b[p] >= LENGTH(0)
  /\ \A q \in p + 1 .. RECV_SZ : b[q] < LENGTH(0)

Finds(b, p) ==
  /\ p \in 2 .. RECV_SZ /\ b[p] >= LENGTH(0)
  /\ \A q \in 2 .. p - 1 : b[q] < LENGTH(0) /\ b[q] # NUL

ReceivePost(c) ==
  /\ Event(c, FALSE)
  /\ Receive(c, 0)
  /\ recv_buff'[1] = POST
  /\ \/ /\ \E p \in 1 .. RECV_SZ :
             /\ Finds(recv_buff', p)
             /\ post' = [fd |-> c, recv_result |-> Taken(c), body_p |-> p + 1,
                         cont_len |-> p + recv_buff'[p] - LENGTH(0)]
        /\ pc' = "body"
     \/ /\ \A p \in 1 .. RECV_SZ : ~ Finds(recv_buff', p)
        /\ pc' = "crashed"  \* strstr returned a null pointer
        /\ UNCHANGED post
  /\ Handled(c)
  /\ UNCHANGED <<conn, clientVars, replied>>

AwaitingLess == pc = "body" /\ post.cont_len > post.recv_result + 1

AwaitingMore == pc = "body" /\ post.cont_len >= post.recv_result

Awaiting == pc = "body" /\ post.cont_len > post.recv_result

BodyMoreTwice ==
  /\ Awaiting
  /\ Receive(post.fd, post.recv_result)
  /\ post' = [post EXCEPT !.recv_result = post.recv_result + 2 * Taken(post.fd)]
  /\ UNCHANGED <<conn, clientVars, replied, pc, events>>

BodyMore ==
  /\ Awaiting
  /\ Receive(post.fd, post.recv_result)
  /\ post' = [post EXCEPT !.recv_result = post.recv_result + Taken(post.fd)]
  /\ UNCHANGED <<conn, clientVars, replied, pc, events>>

(* recvfrom returns -1 (nothing yet) or 0 (the peer is gone), and is       *)
(* called again.                                                           *)
BodyNone ==
  /\ Awaiting
  /\ chan[post.fd] = <<>>
  /\ UNCHANGED vars

(* reqPost answers.                                                        *)
BodyDone ==
  /\ pc = "body" /\ ~ Awaiting
  /\ recv_buff' = [recv_buff EXCEPT ![post.recv_result + 1] = NUL]
  /\ replied' = [replied EXCEPT ![post.fd] = TRUE]
  /\ post' = NoPost
  /\ pc' = "events"
  /\ UNCHANGED <<conn, clientVars, chan, events>>

-----------------------------------------------------------------------------
Client(c) ==
  \/ Accept(c)
  \/ \E r \in Requests : \E n \in 1 .. r.head + r.body : Begin(c, r, n)
  \/ \E n \in 1 .. Len(unsent[c]) : SendMore(c, n)
  \/ \E how \in {"shut", "reset"} : Leave(c, how)

Serve(c) ==
  Hangup(c) \/ ReceiveNone(c) \/ ReceiveGet(c) \/ ReceiveOther(c) \/ ReceivePost(c)

Step ==
  Poll \/ EventsDone \/ BodyMore \/ BodyNone \/ BodyDone \/ \E c \in Conns : Serve(c)

Next == pc # "crashed" /\ (Step \/ \E c \in Conns : Client(c))

Spec == Init /\ [][Next]_vars

(* The worker's thread runs, and a client that has begun to send goes on   *)
(* unless it leaves.                                                       *)
FairSpec ==
  /\ Spec
  /\ WF_vars(Step)
  /\ \A c \in Conns : WF_vars(\E n \in 1 .. Len(unsent[c]) : SendMore(c, n))

-----------------------------------------------------------------------------
(* The '\0' behind a body has its place in recv_buff.                      *)
TypeOK ==
  /\ conn \in [Conns -> {"none", "open", "shut", "reset"}]
  /\ request \in [Conns -> Requests \union {None}]
  /\ \A c \in Conns :
       unsent[c] \in Seq(Units) /\ chan[c] \in Seq(Units) /\ replied[c] \in BOOLEAN
  /\ split \subseteq Conns
  /\ pc \in {"poll", "events", "body", "crashed"}
  /\ events \subseteq [fd : Conns, hup : BOOLEAN]
  /\ recv_buff \in [1 .. RECV_SZ -> Units]
  /\ \/ post = NoPost
     \/ /\ post.fd \in Conns /\ post.recv_result \in 1 .. RECV_SZ - 1
        /\ post.cont_len \in Nat /\ post.body_p \in 1 .. RECV_SZ + 1

(* Whatever other connections left in the buffer, reqPost is given exactly *)
(* the request that the client sent, and where its body begins: of a       *)
(* connection whose headers came in one piece each.                        *)
PostWhole ==
  pc = "body" /\ ~ Awaiting /\ post.fd \notin split
    => /\ SubSeq(recv_buff, 1, post.recv_result) = Bytes(request[post.fd])
       /\ post.body_p = request[post.fd].head + 1

(* A client has no answer before it has sent all of its request, and an    *)
(* answered request leaves nothing behind to be taken for the next one.    *)
AnsweredWhole ==
  \A c \in Conns \ split :
    replied[c] => unsent[c] = <<>> /\ chan[c] = <<>>

(* No connection is closed under a client that has not left it.            *)
NeverCutOff ==
  [][ \A c \in Conns : conn[c] = "open" => conn'[c] # "none" ]_vars

(* The body will never come: the client has left.                          *)
Stuck == Awaiting /\ conn[post.fd] # "open" /\ chan[post.fd] = <<>>

(* A request sent in full is answered, unless its client leaves, or a      *)
(* header came in pieces, or the worker waits for ever for the body of a   *)
(* client that has left.                                                   *)
RequestAnswered ==
  \A c \in Conns :
    conn[c] = "open" /\ request[c] # None /\ unsent[c] = <<>>
      ~> replied[c] \/ conn[c] # "open" \/ split # {} \/ Stuck

(* A connection whose client has left, shutting it down or breaking it, is *)
(* closed, unless a header came in pieces, or the worker waits for ever.   *)
LeftIsClosed ==
  \A c \in Conns :
    conn[c] \in {"shut", "reset"} ~> conn[c] = "none" \/ split # {} \/ Stuck

=============================================================================
