---------------------------- MODULE Worker_proofs ----------------------------
(***************************************************************************)
(* Proofs about Worker: for any number of connections, any requests that   *)
(* fit the buffer, in any pieces.                                          *)
(***************************************************************************)
EXTENDS Worker, TLAPS

InBody(c) == pc = "body" /\ post.fd = c

(* How much of its request the worker has of a connection.                 *)
Got(c) == IF InBody(c) THEN post.recv_result ELSE 0

Types ==
  /\ conn \in [Conns -> {"none", "open", "shut", "reset"}]
  /\ request \in [Conns -> Requests \union {None}]
  /\ unsent \in [Conns -> Seq(Units)]
  /\ chan \in [Conns -> Seq(Units)]
  /\ replied \in [Conns -> BOOLEAN]
  /\ split \subseteq Conns
  /\ pc \in {"poll", "events", "body", "crashed"}
  /\ events \subseteq [fd : Conns, hup : BOOLEAN]
  /\ recv_buff \in [1 .. RECV_SZ -> Units]
  /\ IF pc = "body"
     THEN post \in [fd : Conns, recv_result : 1 .. RECV_SZ - 1, cont_len : Nat,
                    body_p : 1 .. RECV_SZ + 1]
     ELSE post = NoPost

(* What was received, has arrived and is not sent yet fits the request.    *)
Fits ==
  \A c \in Conns : Got(c) + Len(chan[c]) + Len(unsent[c]) <= Len(Bytes(request[c]))

(* A connection that the loop will come to, or whose body it awaits, is    *)
(* open or was left, and one that is open has data for the loop.           *)
EventsHold ==
  /\ pc = "poll" => events = {}
  /\ \A e \in events :
       /\ conn[e.fd] # "none" /\ ~ InBody(e.fd)
       /\ e.hup => conn[e.fd] = "reset"
       /\ conn[e.fd] = "open" => chan[e.fd] # <<>>
  /\ \A c \in Conns :
       /\ conn[c] = "none" => request[c] = None /\ ~ replied[c] /\ ~ InBody(c)
       /\ conn[c] # "open" => unsent[c] = <<>>

Idle(c) == request[c] = None \/ replied[c]

(* The parts of a request lie where they should: what is in the channel    *)
(* follows what was received, and what is unsent follows that.             *)
InPlace(c) ==
  /\ \A n \in 1 .. Len(chan[c]) : chan[c][n] = Bytes(request[c])[Got(c) + n]
  /\ conn[c] = "open" =>
       /\ Got(c) + Len(chan[c]) + Len(unsent[c]) = Len(Bytes(request[c]))
       /\ \A n \in 1 .. Len(unsent[c]) :
            unsent[c][n] = Bytes(request[c])[Got(c) + Len(chan[c]) + n]

Whole(c) ==
  IF InBody(c)
  THEN /\ ~ Idle(c) /\ InPlace(c)
       /\ \A n \in 1 .. post.recv_result : recv_buff[n] = Bytes(request[c])[n]
       /\ post.cont_len = Len(Bytes(request[c]))
       /\ post.body_p = request[c].head + 1
  ELSE IF Idle(c)
  THEN chan[c] = <<>> /\ unsent[c] = <<>>
  ELSE InPlace(c) /\ (chan[c] # <<>> => request[c].head <= Len(chan[c]))
                  /\ (conn[c] = "open" => chan[c] # <<>>)

AllWhole == \A c \in Conns \ split : Whole(c)

Inv == Types /\ Fits /\ EventsHold /\ AllWhole

-----------------------------------------------------------------------------
(* Requests as bytes, and what is done to sequences of bytes.              *)
LEMMA RequestBytes ==
  ASSUME NEW r \in Requests
  PROVE  /\ Bytes(r) \in Seq(Units)
         /\ Len(Bytes(r)) = r.head + r.body
         /\ r.head \in Nat /\ r.body \in Nat /\ r.head > 0 /\ r.head + r.body < RECV_SZ
         /\ r.kind = "GET" => r.body = 0 /\ Bytes(r)[1] = GET
         /\ r.kind # "GET" =>
              /\ r.kind = "POST" /\ r.head > 1 /\ Bytes(r)[1] = POST
              /\ Bytes(r)[r.head] = LENGTH(r.body)
              /\ \A p \in 2 .. r.head - 1 : Bytes(r)[p] = TEXT
  <1>1. /\ r.kind \in {"GET", "POST"} /\ r.head \in Nat /\ r.body \in Nat
        /\ r.head > 0 /\ r.head + r.body < RECV_SZ
        /\ r.kind = "POST" => r.head > 1
        /\ r.kind # "POST" => r.body = 0
    BY RequestAssumption
  <1>2. {GET, POST, TEXT, LENGTH(r.body)} \subseteq Units
    BY DEF Units
  <1>3. CASE r.kind = "GET"
    <2> DEFINE f == [p \in 1 .. r.head |-> IF p = 1 THEN GET ELSE TEXT]
    <2>1. Bytes(r) = f
      BY <1>3 DEF Bytes
    <2>2. f \in [1 .. r.head -> Units] /\ f[1] = GET
      BY <1>1, <1>2
    <2> HIDE DEF f
    <2>3. f \in Seq(Units) /\ Len(f) = r.head
      BY <1>1, <2>2
    <2> QED
      BY <1>1, <1>3, <2>1, <2>2, <2>3
  <1>4. CASE r.kind = "POST"
    <2> DEFINE f == [p \in 1 .. r.head + r.body |->
                       CASE p = 1      -> POST
                         [] p = r.head -> LENGTH(r.body)
                         [] OTHER      -> TEXT]
    <2>1. Bytes(r) = f
      BY <1>4 DEF Bytes
    <2>2. /\ f \in [1 .. r.head + r.body -> Units]
          /\ f[1] = POST /\ f[r.head] = LENGTH(r.body)
          /\ \A p \in 2 .. r.head - 1 : f[p] = TEXT
      BY <1>1, <1>2, <1>4
    <2> HIDE DEF f
    <2>3. f \in Seq(Units) /\ Len(f) = r.head + r.body
      BY <1>1, <2>2
    <2> QED
      BY <1>1, <1>4, <2>1, <2>2, <2>3
  <1> QED
    BY <1>1, <1>3, <1>4

LEMMA NoBytes == Bytes(None) \in Seq(Units) /\ Len(Bytes(None)) = 0
  <1> DEFINE f == [p \in 1 .. 0 |-> CASE p = 1 -> POST [] p = 0 -> LENGTH(0) [] OTHER -> TEXT]
  <1>1. Bytes(None) = f
    BY DEF Bytes, None
  <1>2. f \in [1 .. 0 -> Units]
    OBVIOUS
  <1> HIDE DEF f
  <1> QED
    BY <1>1, <1>2

LEMMA Appended ==
  ASSUME NEW s \in Seq(Units), NEW t \in Seq(Units)
  PROVE  /\ s \o t \in Seq(Units)
         /\ Len(s \o t) = Len(s) + Len(t)
         /\ \A n \in 1 .. Len(s) : (s \o t)[n] = s[n]
         /\ \A n \in 1 .. Len(t) : (s \o t)[Len(s) + n] = t[n]
  OBVIOUS

LEMMA Parts ==
  ASSUME NEW s \in Seq(Units), NEW n \in 0 .. Len(s)
  PROVE  /\ SubSeq(s, 1, n) \in Seq(Units)
         /\ Len(SubSeq(s, 1, n)) = n
         /\ \A k \in 1 .. n : SubSeq(s, 1, n)[k] = s[k]
         /\ SubSeq(s, n + 1, Len(s)) \in Seq(Units)
         /\ Len(SubSeq(s, n + 1, Len(s))) = Len(s) - n
         /\ \A k \in 1 .. Len(s) - n : SubSeq(s, n + 1, Len(s))[k] = s[n + k]
  OBVIOUS

(* A connection that a step leaves alone.                                  *)
LEMMA Undisturbed ==
  ASSUME NEW c, Whole(c),
         request'[c] = request[c], unsent'[c] = unsent[c], chan'[c] = chan[c],
         replied'[c] = replied[c], conn'[c] = conn[c],
         InBody(c)' = InBody(c), InBody(c) => post' = post /\ recv_buff' = recv_buff
  PROVE  Whole(c)'
  BY DEF Whole, InPlace, Idle, Got

LEMMA UndisturbedOutside ==
  ASSUME NEW c, Whole(c), ~ InBody(c), ~ InBody(c)',
         request'[c] = request[c], unsent'[c] = unsent[c], chan'[c] = chan[c],
         replied'[c] = replied[c], conn'[c] = conn[c]
  PROVE  Whole(c)'
  <1>1. Got(c) = 0 /\ Got(c)' = 0
    BY DEF Got
  <1>2. Idle(c)' = Idle(c) /\ InPlace(c)' = InPlace(c)
    BY <1>1 DEF Idle, InPlace
  <1> QED
    BY <1>2 DEF Whole

(* All that has arrived is taken at once.                                  *)
LEMMA TakenIsAll ==
  ASSUME Types, Fits, NEW c \in Conns
  PROVE  /\ chan[c] \in Seq(Units) /\ unsent[c] \in Seq(Units)
         /\ Len(chan[c]) \in Nat /\ Len(unsent[c]) \in Nat /\ Got(c) \in Nat
         /\ Got(c) + Len(chan[c]) + Len(unsent[c]) <= Len(Bytes(request[c]))
         /\ Len(Bytes(request[c])) \in Nat /\ Bytes(request[c]) \in Seq(Units)
         /\ chan[c] # <<>> =>
              /\ request[c] \in Requests /\ Len(Bytes(request[c])) < RECV_SZ
              /\ Taken(c) = Len(chan[c]) /\ Len(chan[c]) > 0
              /\ SubSeq(chan[c], Taken(c) + 1, Len(chan[c])) = <<>>
  <1>1. /\ chan[c] \in Seq(Units) /\ unsent[c] \in Seq(Units)
        /\ Len(chan[c]) \in Nat /\ Len(unsent[c]) \in Nat
    BY DEF Types
  <1>2. Got(c) \in Nat
    BY DEF Types, Got, InBody
  <1>3. Bytes(request[c]) \in Seq(Units) /\ Len(Bytes(request[c])) \in Nat
    <2>1. request[c] \in Requests \/ request[c] = None
      BY DEF Types
    <2>2. Bytes(request[c]) \in Seq(Units)
      BY <2>1, RequestBytes, NoBytes
    <2> QED
      BY <2>2
  <1>4. Got(c) + Len(chan[c]) + Len(unsent[c]) <= Len(Bytes(request[c]))
    BY DEF Fits
  <1>5. ASSUME chan[c] # <<>>
        PROVE  /\ request[c] \in Requests /\ Len(Bytes(request[c])) < RECV_SZ
               /\ Taken(c) = Len(chan[c]) /\ Len(chan[c]) > 0
               /\ SubSeq(chan[c], Taken(c) + 1, Len(chan[c])) = <<>>
    <2>1. Len(chan[c]) > 0
      BY <1>1, <1>5
    <2>2. request[c] \in Requests
      BY <1>1, <1>2, <1>4, <2>1, NoBytes DEF Types
    <2>3. Len(Bytes(request[c])) < RECV_SZ
      BY <2>2, RequestBytes
    <2>4. Taken(c) = Len(chan[c])
      BY <1>1, <1>2, <1>3, <1>4, <2>3, RequestAssumption DEF Taken
    <2>5. SubSeq(chan[c], Taken(c) + 1, Len(chan[c])) = <<>>
      BY <1>1, <2>4
    <2> QED
      BY <2>1, <2>2, <2>3, <2>4, <2>5
  <1> QED
    BY <1>1, <1>2, <1>3, <1>4, <1>5

-----------------------------------------------------------------------------
(* What clients do.                                                        *)
LEMMA AcceptKeeps == ASSUME Inv, NEW c \in Conns, Accept(c) PROVE Inv'
  <1>1. Types'
    BY DEF Inv, Types, Accept, clientVars, postVars
  <1>2. Fits'
    BY DEF Inv, Fits, Accept, clientVars, postVars, Got, InBody
  <1>3. EventsHold'
    BY DEF Inv, Types, EventsHold, Accept, clientVars, postVars, InBody
  <1>4. ASSUME NEW d \in Conns \ split' PROVE Whole(d)'
    <2>1. Whole(d) /\ InBody(d)' = InBody(d)
      BY <1>4 DEF Inv, AllWhole, Accept, clientVars, postVars, InBody
    <2>2. CASE d = c
      <3>1. request[c] = None /\ ~ InBody(c)
        BY DEF Inv, EventsHold, Accept
      <3> QED
        BY <2>1, <2>2, <3>1 DEF Whole, Idle, Accept, clientVars
    <2>3. CASE d # c
      BY <2>1, <2>3, Undisturbed DEF Inv, Types, Accept, clientVars, postVars
    <2> QED
      BY <2>2, <2>3
  <1> QED
    BY <1>1, <1>2, <1>3, <1>4 DEF Inv, AllWhole

LEMMA BeginKeeps ==
  ASSUME Inv, NEW c \in Conns, NEW r \in Requests, NEW n \in Nat, Begin(c, r, n)
  PROVE  Inv'
  <1> DEFINE B == Bytes(r)
  <1>1. B \in Seq(Units) /\ n \in 1 .. Len(B) /\ n \in 0 .. Len(B) /\ r.head \in Nat /\ r # None
    BY RequestBytes DEF Begin, None
  <1>2. /\ SubSeq(B, 1, n) \in Seq(Units) /\ Len(SubSeq(B, 1, n)) = n
        /\ \A k \in 1 .. n : SubSeq(B, 1, n)[k] = B[k]
        /\ SubSeq(B, n + 1, Len(B)) \in Seq(Units)
        /\ Len(SubSeq(B, n + 1, Len(B))) = Len(B) - n
        /\ \A k \in 1 .. Len(B) - n : SubSeq(B, n + 1, Len(B))[k] = B[n + k]
    BY <1>1, Parts
  <1>3. ~ InBody(c) /\ chan[c] = <<>>
    <2>1. Whole(c) /\ Idle(c)
      BY DEF Inv, AllWhole, Begin, Idle
    <2> QED
      BY <2>1 DEF Whole
  <1>4. /\ chan'[c] = SubSeq(B, 1, n)
        /\ chan' = [chan EXCEPT ![c] = SubSeq(B, 1, n)]
    BY <1>2, <1>3 DEF Begin, Inv, Types
  <1>5. /\ unsent' = [unsent EXCEPT ![c] = SubSeq(B, n + 1, Len(B))]
        /\ request' = [request EXCEPT ![c] = r] /\ replied' = [replied EXCEPT ![c] = FALSE]
        /\ conn' = conn /\ pc' = pc /\ events' = events /\ post' = post
        /\ recv_buff' = recv_buff /\ conn[c] = "open"
        /\ split' = IF n < r.head THEN split \union {c} ELSE split
    BY DEF Begin, postVars
  <1> HIDE DEF B
  <1>6. \A d \in Conns : InBody(d)' = InBody(d) /\ Got(d)' = Got(d)
    BY <1>5 DEF InBody, Got
  <1>7. Types'
    BY <1>2, <1>4, <1>5 DEF Inv, Types
  <1>8. Fits'
    <2>1. ASSUME NEW d \in Conns
          PROVE  Got(d)' + Len(chan'[d]) + Len(unsent'[d]) <= Len(Bytes(request'[d]))
      <3>1. CASE d = c
        <4>1. Got(c)' = 0
          BY <1>3, <1>6 DEF Got
        <4> QED
          BY <1>1, <1>2, <1>4, <1>5, <3>1, <4>1 DEF Inv, Types, B
      <3>2. CASE d # c
        BY <1>4, <1>5, <1>6, <3>2 DEF Inv, Types, Fits
      <3> QED
        BY <3>1, <3>2
    <2> QED
      BY <2>1 DEF Fits
  <1>9. EventsHold'
    <2>1. chan'[c] # <<>>
      BY <1>1, <1>2, <1>4
    <2> QED
      BY <1>3, <1>4, <1>5, <1>6, <2>1 DEF Inv, Types, EventsHold
  <1>10. ASSUME NEW d \in Conns \ split' PROVE Whole(d)'
    <2>1. CASE d = c
      <3>1. r.head <= n /\ ~ InBody(c)' /\ Got(c)' = 0
        BY <1>1, <1>3, <1>5, <1>6, <1>10, <2>1 DEF Got
      <3>2. request'[c] = r /\ ~ Idle(c)' /\ unsent'[c] = SubSeq(B, n + 1, Len(B))
        BY <1>1, <1>5 DEF Inv, Types, Idle
      <3>3. InPlace(c)'
        BY <1>1, <1>2, <1>4, <3>1, <3>2 DEF InPlace, B
      <3>4. Len(chan'[c]) = n /\ chan'[c] # <<>>
        BY <1>1, <1>2, <1>4
      <3> QED
        BY <2>1, <3>1, <3>2, <3>3, <3>4 DEF Whole
    <2>2. CASE d # c
      <3>1. Whole(d)
        BY <1>5, <1>10 DEF Inv, AllWhole
      <3> QED
        BY <1>4, <1>5, <1>6, <2>2, <3>1, Undisturbed DEF Inv, Types
    <2> QED
      BY <2>1, <2>2
  <1> QED
    BY <1>7, <1>8, <1>9, <1>10 DEF Inv, AllWhole

LEMMA SendMoreKeeps ==
  ASSUME Inv, NEW c \in Conns, NEW n \in 1 .. Len(unsent[c]), SendMore(c, n)
  PROVE  Inv'
  <1> DEFINE u == unsent[c]
             s == SubSeq(u, 1, n)
             t == SubSeq(u, n + 1, Len(u))
             h == chan[c]
  <1>1. u \in Seq(Units) /\ h \in Seq(Units) /\ n \in 0 .. Len(u) /\ n \in 1 .. Len(u)
    BY DEF Inv, Types
  <1>2. /\ s \in Seq(Units) /\ Len(s) = n /\ \A k \in 1 .. n : s[k] = u[k]
        /\ t \in Seq(Units) /\ Len(t) = Len(u) - n
        /\ \A k \in 1 .. Len(u) - n : t[k] = u[n + k]
    BY <1>1, Parts
  <1>3. /\ chan' = [chan EXCEPT ![c] = h \o s] /\ unsent' = [unsent EXCEPT ![c] = t]
        /\ conn' = conn /\ request' = request /\ replied' = replied /\ split' = split
        /\ pc' = pc /\ events' = events /\ post' = post /\ recv_buff' = recv_buff
        /\ conn[c] = "open"
    BY DEF SendMore, postVars
  <1> HIDE DEF u, s, t, h
  <1>4. /\ h \o s \in Seq(Units) /\ Len(h \o s) = Len(h) + n
        /\ \A k \in 1 .. Len(h) : (h \o s)[k] = h[k]
        /\ \A k \in 1 .. n : (h \o s)[Len(h) + k] = u[k]
    BY <1>1, <1>2, Appended
  <1>5. \A d \in Conns : InBody(d)' = InBody(d) /\ Got(d)' = Got(d)
    BY <1>3 DEF InBody, Got
  <1>6. chan'[c] = h \o s /\ unsent'[c] = t
    BY <1>3 DEF Inv, Types
  <1>7. Types'
    BY <1>2, <1>3, <1>4 DEF Inv, Types
  <1>8. Fits'
    <2>1. ASSUME NEW d \in Conns
          PROVE  Got(d)' + Len(chan'[d]) + Len(unsent'[d]) <= Len(Bytes(request'[d]))
      <3>1. CASE d = c
        <4>1. Got(c) + Len(h) + Len(u) <= Len(Bytes(request[c])) /\ Got(c) \in Nat
          BY TakenIsAll DEF Inv, h, u
        <4>2. Len(chan'[c]) = Len(h) + n /\ Len(unsent'[c]) = Len(u) - n
          BY <1>2, <1>4, <1>6
        <4>3. Got(c)' = Got(c) /\ request'[c] = request[c]
          BY <1>3, <1>5
        <4>4. Len(h) \in Nat /\ Len(u) \in Nat /\ n \in Nat
          BY <1>1
        <4> QED
          BY <3>1, <4>1, <4>2, <4>3, <4>4
      <3>2. CASE d # c
        BY <1>3, <1>5, <3>2 DEF Inv, Types, Fits
      <3> QED
        BY <3>1, <3>2
    <2> QED
      BY <2>1 DEF Fits
  <1>9. EventsHold'
    <2>1. chan'[c] # <<>>
      BY <1>1, <1>4, <1>6
    <2> QED
      BY <1>3, <1>5, <2>1 DEF Inv, Types, EventsHold
  <1>10. ASSUME NEW d \in Conns \ split' PROVE Whole(d)'
    <2>0. Whole(d)
      BY <1>3, <1>10 DEF Inv, AllWhole
    <2>1. CASE d = c
      <3>1. ~ Idle(c) /\ InPlace(c)
        <4>1. u # <<>>
          BY <1>1
        <4> QED
          BY <1>3, <2>0, <2>1, <4>1 DEF Whole, u
      <3>2. Got(c) \in Nat /\ Len(h) \in Nat /\ Len(u) \in Nat
        BY <1>1, TakenIsAll DEF Inv
      <3>3. InPlace(c)'
        <4>1. \A k \in 1 .. Len(h \o s) : (h \o s)[k] = Bytes(request[c])[Got(c) + k]
          <5>1. ASSUME NEW k \in 1 .. Len(h \o s), k > Len(h)
                PROVE  (h \o s)[k] = Bytes(request[c])[Got(c) + k]
            <6> DEFINE j == k - Len(h)
            <6>1. j \in 1 .. n /\ j \in 1 .. Len(u) /\ k = Len(h) + j
              BY <1>1, <1>4, <3>2, <5>1
            <6>2. (h \o s)[Len(h) + j] = u[j]
              BY <1>4, <6>1
            <6>3. u[j] = Bytes(request[c])[Got(c) + Len(h) + j]
              BY <1>3, <3>1, <6>1 DEF InPlace, u, h
            <6>4. Got(c) + Len(h) + j = Got(c) + k
              BY <3>2, <6>1
            <6> QED
              BY <6>1, <6>2, <6>3, <6>4
          <5>2. ASSUME NEW k \in 1 .. Len(h \o s), ~ k > Len(h)
                PROVE  (h \o s)[k] = Bytes(request[c])[Got(c) + k]
            <6>1. k \in 1 .. Len(h)
              BY <1>4, <3>2, <5>2
            <6>2. (h \o s)[k] = h[k] /\ h[k] = Bytes(request[c])[Got(c) + k]
              BY <1>4, <3>1, <6>1 DEF InPlace, h
            <6> QED
              BY <6>2
          <5> QED
            BY <5>1, <5>2
        <4>2. Got(c) + Len(h \o s) + Len(t) = Len(Bytes(request[c]))
          <5>1. Got(c) + Len(h) + Len(u) = Len(Bytes(request[c]))
            BY <1>3, <3>1 DEF InPlace, u, h
          <5> QED
            BY <1>1, <1>2, <1>4, <3>2, <5>1
        <4>3. ASSUME NEW k \in 1 .. Len(t)
              PROVE  t[k] = Bytes(request[c])[Got(c) + Len(h \o s) + k]
          <5>1. n + k \in 1 .. Len(u) /\ t[k] = u[n + k] /\ n \in Nat /\ k \in Nat
            BY <1>1, <1>2, <3>2
          <5>2. u[n + k] = Bytes(request[c])[Got(c) + Len(h) + (n + k)]
            BY <1>3, <3>1, <5>1 DEF InPlace, u, h
          <5>3. Got(c) + Len(h) + (n + k) = Got(c) + Len(h \o s) + k
            BY <1>4, <3>2, <5>1
          <5> QED
            BY <5>1, <5>2, <5>3
        <4> QED
          BY <1>3, <1>5, <1>6, <4>1, <4>2, <4>3 DEF InPlace
      <3>4. request[c].head <= Len(h) => request[c].head <= Len(h \o s)
        <4>1. request[c] \in Requests
          BY <3>1 DEF Inv, Types, Idle
        <4>2. request[c].head \in Nat
          BY <4>1, RequestBytes
        <4> QED
          BY <1>1, <1>4, <3>2, <4>2
      <3>5. ~ Idle(c)' /\ chan'[c] # <<>>
        BY <1>1, <1>3, <1>4, <1>6, <3>1, <3>2 DEF Idle
      <3> QED
        BY <1>3, <1>5, <1>6, <2>0, <2>1, <3>1, <3>3, <3>4, <3>5 DEF Whole, h
    <2>2. CASE d # c
      BY <1>3, <1>5, <2>0, <2>2, Undisturbed DEF Inv, Types
    <2> QED
      BY <2>1, <2>2
  <1> QED
    BY <1>7, <1>8, <1>9, <1>10 DEF Inv, AllWhole

LEMMA LeaveKeeps ==
  ASSUME Inv, NEW c \in Conns, NEW how \in {"shut", "reset"}, Leave(c, how)
  PROVE  Inv'
  <1>1. /\ conn' = [conn EXCEPT ![c] = how] /\ conn[c] = "open"
        /\ unsent' = [unsent EXCEPT ![c] = <<>>]
        /\ chan' = [chan EXCEPT ![c] = IF how = "reset" THEN <<>> ELSE chan[c]]
        /\ request' = request /\ replied' = replied /\ split' = split
        /\ pc' = pc /\ events' = events /\ post' = post /\ recv_buff' = recv_buff
    BY DEF Leave, postVars
  <1>2. <<>> \in Seq(Units) /\ Len(<<>>) = 0
    OBVIOUS
  <1>3. \A d \in Conns : InBody(d)' = InBody(d) /\ Got(d)' = Got(d)
    BY <1>1 DEF InBody, Got
  <1>4. /\ conn'[c] = how /\ unsent'[c] = <<>> /\ chan'[c] \in {<<>>, chan[c]}
        /\ \A d \in Conns : d # c =>
             conn'[d] = conn[d] /\ unsent'[d] = unsent[d] /\ chan'[d] = chan[d]
    BY <1>1 DEF Inv, Types
  <1>5. Types'
    BY <1>1, <1>2 DEF Inv, Types
  <1>6. Fits'
    <2>1. ASSUME NEW d \in Conns
          PROVE  Got(d)' + Len(chan'[d]) + Len(unsent'[d]) <= Len(Bytes(request'[d]))
      <3>1. /\ Got(d) + Len(chan[d]) + Len(unsent[d]) <= Len(Bytes(request[d]))
            /\ Got(d) \in Nat /\ Len(chan[d]) \in Nat /\ Len(unsent[d]) \in Nat
            /\ Len(Bytes(request[d])) \in Nat
        BY TakenIsAll DEF Inv
      <3>2. CASE d = c
        <4>1. Len(chan'[c]) = 0 \/ Len(chan'[c]) = Len(chan[c])
          BY <1>2, <1>4
        <4> QED
          BY <1>1, <1>2, <1>3, <1>4, <3>1, <3>2, <4>1
      <3>3. CASE d # c
        BY <1>1, <1>3, <1>4, <3>1, <3>3
      <3> QED
        BY <3>2, <3>3
    <2> QED
      BY <2>1 DEF Fits
  <1>7. EventsHold'
    BY <1>1, <1>3, <1>4 DEF Inv, Types, EventsHold
  <1>8. ASSUME NEW d \in Conns \ split' PROVE Whole(d)'
    <2>0. Whole(d)
      BY <1>1, <1>8 DEF Inv, AllWhole
    <2>1. CASE d = c
      <3>1. InPlace(c) => InPlace(c)'
        BY <1>1, <1>2, <1>3, <1>4 DEF InPlace
      <3>2. Idle(c)' = Idle(c)
        BY <1>1 DEF Idle
      <3> QED
        BY <1>1, <1>3, <1>4, <2>0, <2>1, <3>1, <3>2 DEF Whole
    <2>2. CASE d # c
      BY <1>1, <1>3, <1>4, <2>0, <2>2, Undisturbed
    <2> QED
      BY <2>1, <2>2
  <1> QED
    BY <1>5, <1>6, <1>7, <1>8 DEF Inv, AllWhole

-----------------------------------------------------------------------------
(* What the worker does between two requests.                              *)
LEMMA PollKeeps == ASSUME Inv, Poll PROVE Inv'
  <1>1. /\ pc = "poll" /\ pc' = "events"
        /\ events' = {[fd |-> c, hup |-> conn[c] = "reset"] : c \in Ready}
        /\ conn' = conn /\ request' = request /\ unsent' = unsent /\ split' = split
        /\ chan' = chan /\ replied' = replied /\ recv_buff' = recv_buff /\ post' = post
    BY DEF Poll, clientVars, postVars
  <1>2. \A d \in Conns : ~ InBody(d) /\ ~ InBody(d)' /\ Got(d)' = Got(d)
    BY <1>1 DEF InBody, Got
  <1>3. ASSUME NEW c \in Ready
        PROVE  c \in Conns /\ conn[c] # "none" /\ (conn[c] = "open" => chan[c] # <<>>)
    <2>1. c \in Conns /\ (chan[c] # <<>> \/ conn[c] \in {"shut", "reset"})
      BY DEF Ready
    <2>2. chan[c] # <<>> => request[c] # None
      <3>1. chan[c] # <<>> => request[c] \in Requests
        BY <2>1, TakenIsAll DEF Inv
      <3>2. None \notin Requests
        BY RequestAssumption DEF None
      <3> QED
        BY <3>1, <3>2
    <2> QED
      BY <2>1, <2>2 DEF Inv, EventsHold
  <1>4. Types'
    <2>1. ASSUME NEW e \in events' PROVE e \in [fd : Conns, hup : BOOLEAN]
      <3>1. PICK c \in Ready : e = [fd |-> c, hup |-> conn[c] = "reset"]
        BY <1>1
      <3>2. c \in Conns /\ (conn[c] = "reset") \in BOOLEAN
        BY <1>3
      <3> QED
        BY <3>1, <3>2
    <2> QED
      BY <1>1, <2>1 DEF Inv, Types
  <1>5. Fits'
    BY <1>1, <1>2 DEF Inv, Fits
  <1>6. EventsHold'
    <2>1. ASSUME NEW e \in events'
          PROVE  /\ conn'[e.fd] # "none" /\ ~ InBody(e.fd)'
                 /\ e.hup => conn'[e.fd] = "reset"
                 /\ conn'[e.fd] = "open" => chan'[e.fd] # <<>>
      <3>1. PICK c \in Ready : e = [fd |-> c, hup |-> conn[c] = "reset"]
        BY <1>1
      <3>2. e.fd = c /\ (e.hup => conn[c] = "reset") /\ c \in Conns
        BY <1>3, <3>1
      <3> QED
        BY <1>1, <1>2, <1>3, <3>2
    <2> QED
      BY <1>1, <1>2, <2>1 DEF Inv, EventsHold
  <1>7. AllWhole'
    <2>1. ASSUME NEW d \in Conns \ split' PROVE Whole(d)'
      BY <1>1, <1>2, <2>1, UndisturbedOutside DEF Inv, AllWhole
    <2> QED
      BY <2>1 DEF AllWhole
  <1> QED
    BY <1>4, <1>5, <1>6, <1>7 DEF Inv

LEMMA EventsDoneKeeps == ASSUME Inv, EventsDone PROVE Inv'
  <1>1. /\ pc = "events" /\ pc' = "poll" /\ events = {} /\ events' = events
        /\ conn' = conn /\ request' = request /\ unsent' = unsent /\ split' = split
        /\ chan' = chan /\ replied' = replied /\ recv_buff' = recv_buff /\ post' = post
    BY DEF EventsDone, clientVars, postVars
  <1>2. \A d \in Conns : ~ InBody(d) /\ ~ InBody(d)' /\ Got(d)' = Got(d)
    BY <1>1 DEF InBody, Got
  <1>3. Types' /\ Fits' /\ EventsHold'
    BY <1>1, <1>2 DEF Inv, Types, Fits, EventsHold
  <1>4. AllWhole'
    <2>1. ASSUME NEW d \in Conns \ split' PROVE Whole(d)'
      BY <1>1, <1>2, <2>1, UndisturbedOutside DEF Inv, AllWhole
    <2> QED
      BY <2>1 DEF AllWhole
  <1> QED
    BY <1>3, <1>4 DEF Inv

LEMMA CloseKeeps ==
  ASSUME Inv, NEW c \in Conns, pc = "events", Close(c), Handled(c), UNCHANGED <<pc, postVars>>
  PROVE  Inv'
  <1>1. /\ conn' = [conn EXCEPT ![c] = "none"] /\ request' = [request EXCEPT ![c] = None]
        /\ unsent' = [unsent EXCEPT ![c] = <<>>] /\ chan' = [chan EXCEPT ![c] = <<>>]
        /\ replied' = [replied EXCEPT ![c] = FALSE] /\ split' = split \ {c}
        /\ events' = {e \in events : e.fd # c}
        /\ pc' = pc /\ recv_buff' = recv_buff /\ post' = post
    BY DEF Close, Handled, postVars
  <1>2. <<>> \in Seq(Units) /\ Len(<<>>) = 0
    OBVIOUS
  <1>3. \A d \in Conns : ~ InBody(d) /\ ~ InBody(d)' /\ Got(d)' = Got(d) /\ Got(d) = 0
    BY <1>1 DEF InBody, Got
  <1>4. /\ conn'[c] = "none" /\ request'[c] = None /\ unsent'[c] = <<>>
        /\ chan'[c] = <<>> /\ replied'[c] = FALSE
        /\ \A d \in Conns : d # c =>
             /\ conn'[d] = conn[d] /\ request'[d] = request[d] /\ unsent'[d] = unsent[d]
             /\ chan'[d] = chan[d] /\ replied'[d] = replied[d]
    BY <1>1 DEF Inv, Types
  <1>5. Types'
    BY <1>1, <1>2 DEF Inv, Types
  <1>6. Fits'
    <2>1. ASSUME NEW d \in Conns
          PROVE  Got(d)' + Len(chan'[d]) + Len(unsent'[d]) <= Len(Bytes(request'[d]))
      <3>1. CASE d = c
        BY <1>2, <1>3, <1>4, <3>1, NoBytes
      <3>2. CASE d # c
        BY <1>3, <1>4, <3>2 DEF Inv, Fits
      <3> QED
        BY <3>1, <3>2
    <2> QED
      BY <2>1 DEF Fits
  <1>7. EventsHold'
    BY <1>1, <1>3, <1>4 DEF Inv, Types, EventsHold
  <1>8. ASSUME NEW d \in Conns \ split' PROVE Whole(d)'
    <2>1. CASE d = c
      BY <1>3, <1>4, <2>1 DEF Whole, Idle
    <2>2. CASE d # c
      <3>1. Whole(d)
        BY <1>1, <1>8, <2>2 DEF Inv, AllWhole
      <3> QED
        BY <1>3, <1>4, <2>2, <3>1, UndisturbedOutside
    <2> QED
      BY <2>1, <2>2
  <1> QED
    BY <1>5, <1>6, <1>7, <1>8 DEF Inv, AllWhole

-----------------------------------------------------------------------------
(* Receiving.                                                              *)
LEMMA ReceivedPlaces ==
  ASSUME Types, Fits, NEW c \in Conns, NEW at \in Nat, Receive(c, at)
  PROVE  /\ chan[c] # <<>> /\ Taken(c) = Len(chan[c]) /\ Len(chan[c]) \in Nat \ {0}
         /\ request[c] \in Requests /\ Len(Bytes(request[c])) < RECV_SZ
         /\ chan' = [chan EXCEPT ![c] = <<>>] /\ chan'[c] = <<>>
         /\ recv_buff' \in [1 .. RECV_SZ -> Units]
         /\ \A p \in 1 .. RECV_SZ : p <= at => recv_buff'[p] = recv_buff[p]
         /\ \A n \in 1 .. Len(chan[c]) :
              at + n <= RECV_SZ => recv_buff'[at + n] = chan[c][n]
  <1>1. /\ chan[c] # <<>> /\ Taken(c) = Len(chan[c]) /\ Len(chan[c]) > 0
        /\ Len(chan[c]) \in Nat /\ chan[c] \in Seq(Units)
        /\ request[c] \in Requests /\ Len(Bytes(request[c])) < RECV_SZ
        /\ SubSeq(chan[c], Taken(c) + 1, Len(chan[c])) = <<>>
    BY TakenIsAll DEF Receive
  <1>2. chan' = [chan EXCEPT ![c] = <<>>] /\ chan'[c] = <<>>
    BY <1>1 DEF Receive, Types
  <1> DEFINE h == chan[c]
             b == [p \in 1 .. RECV_SZ |->
                     IF p \in at + 1 .. at + Len(h) THEN h[p - at] ELSE recv_buff[p]]
  <1>3. recv_buff' = b
    BY <1>1 DEF Receive
  <1> HIDE DEF h
  <1>4. h \in Seq(Units) /\ Len(h) \in Nat
    BY <1>1 DEF h
  <1>5. b \in [1 .. RECV_SZ -> Units]
    <2>1. ASSUME NEW p \in 1 .. RECV_SZ, p \in at + 1 .. at + Len(h) PROVE h[p - at] \in Units
      <3>1. p - at \in 1 .. Len(h)
        BY <1>4, <2>1
      <3> QED
        BY <1>4, <3>1
    <2>2. \A p \in 1 .. RECV_SZ : recv_buff[p] \in Units
      BY DEF Types
    <2> QED
      BY <2>1, <2>2
  <1>6. \A p \in 1 .. RECV_SZ : p <= at => b[p] = recv_buff[p]
    BY <1>4
  <1>7. \A n \in 1 .. Len(h) : at + n <= RECV_SZ => b[at + n] = h[n]
    <2>1. ASSUME NEW n \in 1 .. Len(h), at + n <= RECV_SZ PROVE b[at + n] = h[n]
      <3>1. at + n \in 1 .. RECV_SZ /\ at + n \in at + 1 .. at + Len(h) /\ (at + n) - at = n
        BY <1>4, <2>1, RequestAssumption
      <3> QED
        BY <3>1
    <2> QED
      BY <2>1
  <1> HIDE DEF b
  <1> QED
    BY <1>1, <1>2, <1>3, <1>5, <1>6, <1>7 DEF h

(* A request whose header came in one piece is received from its beginning. *)
LEMMA ReceivedFirst ==
  ASSUME Inv, pc = "events", NEW c \in Conns \ split, Receive(c, 0)
  PROVE  /\ ~ Idle(c) /\ InPlace(c) /\ Got(c) = 0
         /\ request[c].head <= Len(chan[c]) /\ Len(chan[c]) <= Len(Bytes(request[c]))
         /\ \A n \in 1 .. Len(chan[c]) : recv_buff'[n] = Bytes(request[c])[n]
         /\ recv_buff'[1] = Bytes(request[c])[1]
  <1>1. /\ chan[c] # <<>> /\ Len(chan[c]) \in Nat \ {0}
        /\ request[c] \in Requests /\ Len(Bytes(request[c])) < RECV_SZ
        /\ \A n \in 1 .. Len(chan[c]) : 0 + n <= RECV_SZ => recv_buff'[0 + n] = chan[c][n]
    BY ReceivedPlaces DEF Inv
  <1>2. Whole(c) /\ ~ InBody(c) /\ Got(c) = 0
    BY DEF Inv, AllWhole, InBody, Got
  <1>3. ~ Idle(c) /\ InPlace(c) /\ request[c].head <= Len(chan[c])
    BY <1>1, <1>2 DEF Whole
  <1>4. Len(chan[c]) <= Len(Bytes(request[c])) /\ Len(Bytes(request[c])) \in Nat
    BY <1>1, <1>2, TakenIsAll DEF Inv
  <1>5. ASSUME NEW n \in 1 .. Len(chan[c]) PROVE recv_buff'[n] = Bytes(request[c])[n]
    <2>1. 0 + n = n /\ n <= RECV_SZ
      BY <1>1, <1>4, RequestAssumption
    <2> QED
      BY <1>1, <1>2, <1>3, <2>1 DEF InPlace
  <1>6. 1 \in 1 .. Len(chan[c])
    BY <1>1
  <1> QED
    BY <1>2, <1>3, <1>4, <1>5, <1>6

LEMMA ReceiveGetKeeps == ASSUME Inv, NEW c \in Conns, ReceiveGet(c) PROVE Inv'
  <1>1. /\ pc = "events" /\ [fd |-> c, hup |-> FALSE] \in events /\ Receive(c, 0)
        /\ recv_buff'[1] = GET /\ replied' = [replied EXCEPT ![c] = TRUE]
        /\ events' = {e \in events : e.fd # c}
        /\ conn' = conn /\ request' = request /\ unsent' = unsent /\ split' = split
        /\ pc' = pc /\ post' = post
    BY DEF ReceiveGet, Event, Handled, clientVars
  <1>2. /\ chan' = [chan EXCEPT ![c] = <<>>] /\ chan'[c] = <<>>
        /\ recv_buff' \in [1 .. RECV_SZ -> Units]
    BY <1>1, ReceivedPlaces DEF Inv
  <1>3. \A d \in Conns : ~ InBody(d) /\ ~ InBody(d)' /\ Got(d)' = 0 /\ Got(d) = 0
    BY <1>1 DEF InBody, Got
  <1>4. <<>> \in Seq(Units) /\ Len(<<>>) = 0
    OBVIOUS
  <1>5. Types'
    BY <1>1, <1>2, <1>4 DEF Inv, Types
  <1>6. Fits'
    <2>1. ASSUME NEW d \in Conns
          PROVE  Got(d)' + Len(chan'[d]) + Len(unsent'[d]) <= Len(Bytes(request'[d]))
      <3>1. /\ Got(d) + Len(chan[d]) + Len(unsent[d]) <= Len(Bytes(request[d]))
            /\ Len(chan[d]) \in Nat /\ Len(unsent[d]) \in Nat /\ Len(Bytes(request[d])) \in Nat
        BY TakenIsAll DEF Inv
      <3>2. Len(chan'[d]) = 0 \/ chan'[d] = chan[d]
        BY <1>2, <1>4 DEF Inv, Types
      <3> QED
        BY <1>1, <1>3, <3>1, <3>2
    <2> QED
      BY <2>1 DEF Fits
  <1>7. EventsHold'
    <2>1. conn[c] # "none"
      BY <1>1 DEF Inv, EventsHold
    <2> QED
      BY <1>1, <1>2, <1>3, <2>1 DEF Inv, Types, EventsHold
  <1>8. ASSUME NEW d \in Conns \ split' PROVE Whole(d)'
    <2>1. CASE d = c
      <3>1. c \in Conns \ split
        BY <1>1, <1>8, <2>1
      <3>2. /\ ~ Idle(c) /\ request[c].head <= Len(chan[c])
            /\ Bytes(request[c])[1] = GET
        BY <1>1, <3>1, ReceivedFirst
      <3>3. request[c] \in Requests
        BY <3>2 DEF Idle, Inv, Types
      <3>4. Len(Bytes(request[c])) = request[c].head /\ request[c].head \in Nat
        BY <3>2, <3>3, RequestBytes DEF GET, POST
      <3>5. /\ Got(c) + Len(chan[c]) + Len(unsent[c]) <= Len(Bytes(request[c]))
            /\ Len(chan[c]) \in Nat /\ Len(unsent[c]) \in Nat /\ unsent[c] \in Seq(Units)
        BY TakenIsAll DEF Inv
      <3>6. Len(unsent[c]) = 0
        BY <1>3, <3>2, <3>4, <3>5
      <3>7. unsent[c] = <<>>
        BY <3>5, <3>6
      <3> QED
        BY <1>1, <1>2, <1>3, <2>1, <3>7 DEF Whole, Idle, Inv, Types
    <2>2. CASE d # c
      <3>1. Whole(d)
        BY <1>1, <1>8 DEF Inv, AllWhole
      <3> QED
        BY <1>1, <1>2, <1>3, <2>2, <3>1, UndisturbedOutside DEF Inv, Types
    <2> QED
      BY <2>1, <2>2
  <1> QED
    BY <1>5, <1>6, <1>7, <1>8 DEF Inv, AllWhole

LEMMA ReceiveOtherKeeps == ASSUME Inv, NEW c \in Conns, ReceiveOther(c) PROVE Inv'
  <1>1. /\ pc = "events" /\ [fd |-> c, hup |-> FALSE] \in events /\ Receive(c, 0)
        /\ recv_buff'[1] \notin {GET, POST} /\ replied' = replied
        /\ events' = {e \in events : e.fd # c}
        /\ conn' = conn /\ request' = request /\ unsent' = unsent /\ split' = split
        /\ pc' = pc /\ post' = post
    BY DEF ReceiveOther, Event, Handled, clientVars
  <1>2. /\ chan' = [chan EXCEPT ![c] = <<>>] /\ chan'[c] = <<>>
        /\ recv_buff' \in [1 .. RECV_SZ -> Units]
    BY <1>1, ReceivedPlaces DEF Inv
  <1>3. \A d \in Conns : ~ InBody(d) /\ ~ InBody(d)' /\ Got(d)' = 0 /\ Got(d) = 0
    BY <1>1 DEF InBody, Got
  <1>4. <<>> \in Seq(Units) /\ Len(<<>>) = 0
    OBVIOUS
  <1>5. Types'
    BY <1>1, <1>2, <1>4 DEF Inv, Types
  <1>6. Fits'
    <2>1. ASSUME NEW d \in Conns
          PROVE  Got(d)' + Len(chan'[d]) + Len(unsent'[d]) <= Len(Bytes(request'[d]))
      <3>1. /\ Got(d) + Len(chan[d]) + Len(unsent[d]) <= Len(Bytes(request[d]))
            /\ Len(chan[d]) \in Nat /\ Len(unsent[d]) \in Nat /\ Len(Bytes(request[d])) \in Nat
        BY TakenIsAll DEF Inv
      <3>2. Len(chan'[d]) = 0 \/ chan'[d] = chan[d]
        BY <1>2, <1>4 DEF Inv, Types
      <3> QED
        BY <1>1, <1>3, <3>1, <3>2
    <2> QED
      BY <2>1 DEF Fits
  <1>7. EventsHold'
    BY <1>1, <1>2, <1>3 DEF Inv, Types, EventsHold
  <1>8. c \in split
    <2> SUFFICES ASSUME c \in Conns \ split PROVE FALSE
      OBVIOUS
    <2>1. ~ Idle(c) /\ Bytes(request[c])[1] \notin {GET, POST}
      BY <1>1, ReceivedFirst
    <2>2. request[c] \in Requests
      BY <2>1 DEF Idle, Inv, Types
    <2> QED
      BY <2>1, <2>2, RequestBytes
  <1>9. ASSUME NEW d \in Conns \ split' PROVE Whole(d)'
    <2>1. Whole(d) /\ d # c
      BY <1>1, <1>8, <1>9 DEF Inv, AllWhole
    <2> QED
      BY <1>1, <1>2, <1>3, <2>1, UndisturbedOutside DEF Inv, Types
  <1> QED
    BY <1>5, <1>6, <1>7, <1>9 DEF Inv, AllWhole

LEMMA HangupKeeps == ASSUME Inv, NEW c \in Conns, Hangup(c) PROVE Inv'
  BY CloseKeeps DEF Hangup, Event

LEMMA ReceiveNoneKeeps == ASSUME Inv, NEW c \in Conns, ReceiveNone(c) PROVE Inv'
  BY CloseKeeps DEF ReceiveNone, Event

-----------------------------------------------------------------------------
(* The body of a POST.                                                     *)

(* The length that strstr finds stands where it was received.              *)
LEMMA LengthFound ==
  ASSUME Inv, pc = "events", NEW c \in Conns \ split, Receive(c, 0), recv_buff'[1] = POST
  PROVE  /\ request[c] \in Requests /\ request[c].head \in 2 .. RECV_SZ
         /\ recv_buff'[request[c].head] = LENGTH(request[c].body)
         /\ Len(Bytes(request[c])) = request[c].head + request[c].body
         /\ \A p \in 1 .. RECV_SZ : Finds(recv_buff', p) <=> p = request[c].head
  <1>0. PICK r : r = request[c]
    OBVIOUS
  <1> DEFINE b == recv_buff'
  <1>1. /\ r \in Requests /\ Len(Bytes(r)) < RECV_SZ
        /\ Len(chan[c]) \in Nat /\ b \in [1 .. RECV_SZ -> Units]
    BY <1>0, ReceivedPlaces DEF Inv
  <1>2. /\ r.head <= Len(chan[c]) /\ Len(chan[c]) <= Len(Bytes(r))
        /\ \A n \in 1 .. Len(chan[c]) : b[n] = Bytes(r)[n]
        /\ Bytes(r)[1] = POST
    BY <1>0, ReceivedFirst
  <1>3. /\ r.kind # "GET" /\ r.head \in Nat /\ r.body \in Nat /\ r.head > 1
        /\ Len(Bytes(r)) = r.head + r.body /\ Bytes(r)[r.head] = LENGTH(r.body)
        /\ \A p \in 2 .. r.head - 1 : Bytes(r)[p] = TEXT
    <2>1. r.kind # "GET"
      BY <1>1, <1>2, RequestBytes DEF GET, POST
    <2> QED
      BY <1>1, <2>1, RequestBytes
  <1> HIDE DEF b
  <1>4. r.head \in 2 .. RECV_SZ /\ r.head \in 1 .. Len(chan[c])
    BY <1>1, <1>2, <1>3, RequestAssumption
  <1>5. b[r.head] = LENGTH(r.body)
    BY <1>2, <1>3, <1>4
  <1>6. \A p \in 2 .. r.head - 1 : b[p] = TEXT
    BY <1>1, <1>2, <1>3
  <1>7. Finds(b, r.head)
    BY <1>3, <1>4, <1>5, <1>6 DEF Finds, LENGTH, TEXT, NUL
  <1>8. ASSUME NEW p \in 1 .. RECV_SZ, Finds(b, p) PROVE p = r.head
    <2>1. ~ p < r.head
      <3>1. p < r.head => p \in 2 .. r.head - 1
        BY <1>3, <1>8 DEF Finds
      <3> QED
        BY <1>6, <1>8, <3>1 DEF Finds, LENGTH, TEXT
    <2>2. ~ r.head < p
      <3>1. r.head < p => r.head \in 2 .. p - 1
        BY <1>3, <1>8
      <3> QED
        BY <1>3, <1>5, <1>8, <3>1 DEF Finds, LENGTH
    <2> QED
      BY <1>3, <2>1, <2>2
  <1> QED
    BY <1>0, <1>1, <1>3, <1>4, <1>5, <1>7, <1>8 DEF b

LEMMA ReceivePostKeeps == ASSUME Inv, NEW c \in Conns, ReceivePost(c) PROVE Inv'
  <1>0. PICK N : N = Len(chan[c])
    OBVIOUS
  <1>1. /\ pc = "events" /\ [fd |-> c, hup |-> FALSE] \in events /\ Receive(c, 0)
        /\ recv_buff'[1] = POST /\ replied' = replied
        /\ events' = {e \in events : e.fd # c}
        /\ conn' = conn /\ request' = request /\ unsent' = unsent /\ split' = split
        /\ \/ /\ pc' = "body"
              /\ \E p \in 1 .. RECV_SZ :
                   /\ Finds(recv_buff', p)
                   /\ post' = [fd |-> c, recv_result |-> Taken(c), body_p |-> p + 1,
                               cont_len |-> p + recv_buff'[p] - LENGTH(0)]
           \/ /\ pc' = "crashed" /\ post' = post
              /\ \A p \in 1 .. RECV_SZ : ~ Finds(recv_buff', p)
    BY DEF ReceivePost, Event, Handled, clientVars
  <1>2. /\ chan' = [chan EXCEPT ![c] = <<>>] /\ chan'[c] = <<>>
        /\ recv_buff' \in [1 .. RECV_SZ -> Units]
        /\ Taken(c) = N /\ N \in Nat \ {0} /\ chan[c] # <<>>
        /\ request[c] \in Requests /\ Len(Bytes(request[c])) < RECV_SZ
    BY <1>0, <1>1, ReceivedPlaces DEF Inv
  <1>3. /\ \A d \in Conns : ~ InBody(d) /\ Got(d) = 0
        /\ \A d \in Conns : d # c => ~ InBody(d)' /\ Got(d)' = 0
    BY <1>1 DEF InBody, Got
  <1>4. <<>> \in Seq(Units) /\ Len(<<>>) = 0
    OBVIOUS
  <1>5. \A d \in Conns :
          /\ Got(d) + Len(chan[d]) + Len(unsent[d]) <= Len(Bytes(request[d]))
          /\ Len(chan[d]) \in Nat /\ Len(unsent[d]) \in Nat /\ Len(Bytes(request[d])) \in Nat
          /\ unsent[d] \in Seq(Units)
    BY TakenIsAll DEF Inv
  <1>6. Got(c)' \in {0, N}
    BY <1>1, <1>2 DEF Got, InBody
  <1>7. Types'
    <2>1. ASSUME NEW p \in 1 .. RECV_SZ, Finds(recv_buff', p)
          PROVE  p + recv_buff'[p] - LENGTH(0) \in Nat /\ p + 1 \in 1 .. RECV_SZ + 1
      <3>1. recv_buff'[p] \in Units /\ recv_buff'[p] >= LENGTH(0)
        BY <1>2, <2>1 DEF Finds
      <3>2. recv_buff'[p] \in Nat
        BY <3>1, RequestAssumption DEF Units, LENGTH, NUL, GET, POST, TEXT
      <3> QED
        BY <3>1, <3>2, RequestAssumption DEF LENGTH
    <2>2. Taken(c) \in 1 .. RECV_SZ - 1
      BY <1>0, <1>2, <1>3, <1>5, RequestAssumption
    <2>3. IF pc' = "body"
          THEN post' \in [fd : Conns, recv_result : 1 .. RECV_SZ - 1, cont_len : Nat,
                          body_p : 1 .. RECV_SZ + 1]
          ELSE post' = NoPost
      BY <1>1, <2>1, <2>2 DEF Inv, Types
    <2> QED
      BY <1>1, <1>2, <1>4, <2>3 DEF Inv, Types
  <1>8. Fits'
    <2>1. ASSUME NEW d \in Conns
          PROVE  Got(d)' + Len(chan'[d]) + Len(unsent'[d]) <= Len(Bytes(request'[d]))
      <3>1. CASE d = c
        BY <1>0, <1>1, <1>2, <1>3, <1>4, <1>5, <1>6, <3>1
      <3>2. CASE d # c
        BY <1>1, <1>2, <1>3, <1>5, <3>2 DEF Inv, Types
      <3> QED
        BY <3>1, <3>2
    <2> QED
      BY <2>1 DEF Fits
  <1>9. EventsHold'
    <2>1. conn[c] # "none"
      BY <1>1 DEF Inv, EventsHold
    <2> QED
      BY <1>1, <1>2, <1>3, <2>1 DEF Inv, Types, EventsHold
  <1>10. ASSUME NEW d \in Conns \ split' PROVE Whole(d)'
    <2>1. CASE d = c
      <3>1. c \in Conns \ split
        BY <1>1, <1>10, <2>1
      <3>2. /\ ~ Idle(c) /\ InPlace(c)
            /\ \A n \in 1 .. N : recv_buff'[n] = Bytes(request[c])[n]
        BY <1>0, <1>1, <3>1, ReceivedFirst
      <3>3. /\ request[c].head \in 2 .. RECV_SZ /\ request[c].body \in Nat
            /\ recv_buff'[request[c].head] = LENGTH(request[c].body)
            /\ Len(Bytes(request[c])) = request[c].head + request[c].body
            /\ \A p \in 1 .. RECV_SZ : Finds(recv_buff', p) <=> p = request[c].head
        BY <1>1, <1>2, <3>1, LengthFound, RequestBytes
      <3>4. /\ pc' = "body" /\ post'.fd = c /\ post'.recv_result = N
            /\ post'.body_p = request[c].head + 1
            /\ post'.cont_len = request[c].head + LENGTH(request[c].body) - LENGTH(0)
        <4>1. Finds(recv_buff', request[c].head) /\ request[c].head \in 1 .. RECV_SZ
          BY <3>3
        <4>2. PICK p \in 1 .. RECV_SZ :
                /\ Finds(recv_buff', p)
                /\ post' = [fd |-> c, recv_result |-> Taken(c), body_p |-> p + 1,
                            cont_len |-> p + recv_buff'[p] - LENGTH(0)]
          BY <1>1, <4>1
        <4>3. p = request[c].head /\ pc' = "body" /\ Taken(c) = N
          BY <1>1, <1>2, <3>3, <4>1, <4>2
        <4> QED
          BY <3>3, <4>2, <4>3
      <3>5. post'.cont_len = Len(Bytes(request[c]))
        BY <3>3, <3>4 DEF LENGTH
      <3>6. InBody(c)' /\ Got(c)' = N
        BY <3>4 DEF InBody, Got
      <3>7. InPlace(c)'
        <4>1. \A n \in 1 .. Len(chan'[c]) : chan'[c][n] = Bytes(request'[c])[Got(c)' + n]
          BY <1>2, <1>4
        <4>2. ASSUME conn'[c] = "open"
              PROVE  /\ Got(c)' + Len(chan'[c]) + Len(unsent'[c]) = Len(Bytes(request'[c]))
                     /\ \A n \in 1 .. Len(unsent'[c]) :
                          unsent'[c][n] = Bytes(request'[c])[Got(c)' + Len(chan'[c]) + n]
          <5>1. /\ 0 + N + Len(unsent[c]) = Len(Bytes(request[c]))
                /\ \A n \in 1 .. Len(unsent[c]) :
                     unsent[c][n] = Bytes(request[c])[0 + N + n]
            BY <1>0, <1>1, <1>3, <3>2, <4>2 DEF InPlace
          <5>2. 0 + N = N + 0 /\ Len(chan'[c]) = 0 /\ Got(c)' = N
            BY <1>2, <1>4, <3>6
          <5> QED
            BY <1>1, <5>1, <5>2
        <4> QED
          BY <4>1, <4>2 DEF InPlace
      <3> QED
        BY <1>1, <2>1, <3>2, <3>4, <3>5, <3>6, <3>7 DEF Whole, Idle
    <2>2. CASE d # c
      <3>1. Whole(d)
        BY <1>1, <1>10 DEF Inv, AllWhole
      <3> QED
        BY <1>1, <1>2, <1>3, <2>2, <3>1, UndisturbedOutside DEF Inv, Types
    <2> QED
      BY <2>1, <2>2
  <1> QED
    BY <1>7, <1>8, <1>9, <1>10 DEF Inv, AllWhole

LEMMA BodyMoreKeeps == ASSUME Inv, BodyMore PROVE Inv'
  <1>0. PICK c, k, N : c = post.fd /\ k = post.recv_result /\ N = Len(chan[c])
    OBVIOUS
  <1>1. /\ pc = "body" /\ pc' = pc /\ Receive(c, k)
        /\ post' = [post EXCEPT !.recv_result = k + Taken(c)]
        /\ events' = events /\ replied' = replied
        /\ conn' = conn /\ request' = request /\ unsent' = unsent /\ split' = split
    BY <1>0 DEF BodyMore, Awaiting, clientVars
  <1>2. /\ post \in [fd : Conns, recv_result : 1 .. RECV_SZ - 1, cont_len : Nat,
                     body_p : 1 .. RECV_SZ + 1]
        /\ c \in Conns /\ k \in 1 .. RECV_SZ - 1 /\ k \in Nat
    BY <1>0, <1>1, RequestAssumption DEF Inv, Types
  <1>3. /\ chan' = [chan EXCEPT ![c] = <<>>] /\ chan'[c] = <<>>
        /\ recv_buff' \in [1 .. RECV_SZ -> Units]
        /\ Taken(c) = N /\ N \in Nat \ {0} /\ chan[c] # <<>>
        /\ request[c] \in Requests /\ Len(Bytes(request[c])) < RECV_SZ
        /\ \A p \in 1 .. RECV_SZ : p <= k => recv_buff'[p] = recv_buff[p]
        /\ \A n \in 1 .. Len(chan[c]) :
             k + n <= RECV_SZ => recv_buff'[k + n] = chan[c][n]
    BY <1>0, <1>1, <1>2, ReceivedPlaces DEF Inv
  <1>4. <<>> \in Seq(Units) /\ Len(<<>>) = 0
    OBVIOUS
  <1>5. /\ post'.fd = c /\ post'.recv_result = k + N /\ post'.cont_len = post.cont_len
        /\ post'.body_p = post.body_p
    BY <1>0, <1>1, <1>2, <1>3
  <1>6. /\ InBody(c) /\ InBody(c)' /\ Got(c) = k /\ Got(c)' = k + N
        /\ \A d \in Conns : d # c => ~ InBody(d) /\ ~ InBody(d)' /\ Got(d) = 0 /\ Got(d)' = 0
    BY <1>0, <1>1, <1>5 DEF InBody, Got
  <1>7. \A d \in Conns :
          /\ Got(d) + Len(chan[d]) + Len(unsent[d]) <= Len(Bytes(request[d]))
          /\ Len(chan[d]) \in Nat /\ Len(unsent[d]) \in Nat /\ Len(Bytes(request[d])) \in Nat
    BY TakenIsAll DEF Inv
  <1>8. k + N \in 1 .. RECV_SZ - 1 /\ k + N <= Len(Bytes(request[c]))
    <2>1. /\ k + N + Len(unsent[c]) <= Len(Bytes(request[c]))
          /\ Len(unsent[c]) \in Nat /\ Len(Bytes(request[c])) \in Nat
      BY <1>0, <1>2, <1>6, <1>7
    <2>2. Len(Bytes(request[c])) < RECV_SZ /\ N \in Nat /\ k \in Nat /\ k > 0 /\ RECV_SZ \in Nat
      BY <1>2, <1>3, RequestAssumption
    <2>3. PICK L, B : L = Len(unsent[c]) /\ B = Len(Bytes(request[c]))
      OBVIOUS
    <2>4. k + N + L <= B /\ L \in Nat /\ B \in Nat /\ B < RECV_SZ
      BY <2>1, <2>2, <2>3
    <2>5. k + N \in 1 .. RECV_SZ - 1 /\ k + N <= B
      BY <2>2, <2>4
    <2> QED
      BY <2>3, <2>5
  <1>9. Types'
    <2>1. post' \in [fd : Conns, recv_result : 1 .. RECV_SZ - 1, cont_len : Nat,
                     body_p : 1 .. RECV_SZ + 1]
      BY <1>1, <1>2, <1>3, <1>8
    <2> QED
      BY <1>1, <1>3, <1>4, <2>1 DEF Inv, Types
  <1>10. Fits'
    <2>1. ASSUME NEW d \in Conns
          PROVE  Got(d)' + Len(chan'[d]) + Len(unsent'[d]) <= Len(Bytes(request'[d]))
      <3>1. CASE d = c
        BY <1>0, <1>1, <1>2, <1>3, <1>4, <1>6, <1>7, <3>1
      <3>2. CASE d # c
        BY <1>1, <1>3, <1>6, <1>7, <3>2 DEF Inv, Types
      <3> QED
        BY <3>1, <3>2
    <2> QED
      BY <2>1 DEF Fits
  <1>11. EventsHold'
    <2>1. \A e \in events : e.fd # c /\ e.fd \in Conns
      BY <1>6 DEF Inv, Types, EventsHold
    <2>2. \A d \in Conns : InBody(d)' <=> InBody(d)
      BY <1>6
    <2> QED
      BY <1>1, <1>2, <1>3, <2>1, <2>2 DEF Inv, Types, EventsHold
  <1>12. ASSUME NEW d \in Conns \ split' PROVE Whole(d)'
    <2>0. Whole(d)
      BY <1>1, <1>12 DEF Inv, AllWhole
    <2>1. CASE d = c
      <3>1. /\ ~ Idle(c) /\ InPlace(c)
            /\ \A n \in 1 .. k : recv_buff[n] = Bytes(request[c])[n]
            /\ post.cont_len = Len(Bytes(request[c]))
            /\ post.body_p = request[c].head + 1
        BY <1>0, <1>6, <2>0, <2>1 DEF Whole
      <3>2. InPlace(c)'
        <4>1. \A n \in 1 .. Len(chan'[c]) : chan'[c][n] = Bytes(request'[c])[Got(c)' + n]
          BY <1>3, <1>4
        <4>2. ASSUME conn'[c] = "open"
              PROVE  /\ Got(c)' + Len(chan'[c]) + Len(unsent'[c]) = Len(Bytes(request'[c]))
                     /\ \A n \in 1 .. Len(unsent'[c]) :
                          unsent'[c][n] = Bytes(request'[c])[Got(c)' + Len(chan'[c]) + n]
          <5>1. /\ k + N + Len(unsent[c]) = Len(Bytes(request[c]))
                /\ \A n \in 1 .. Len(unsent[c]) :
                     unsent[c][n] = Bytes(request[c])[k + N + n]
            BY <1>0, <1>1, <1>6, <3>1, <4>2 DEF InPlace
          <5>2. (k + N) + 0 = k + N /\ Len(chan'[c]) = 0 /\ Got(c)' = k + N
            BY <1>2, <1>3, <1>4, <1>6
          <5> QED
            BY <1>1, <5>1, <5>2
        <4> QED
          BY <4>1, <4>2 DEF InPlace
      <3>3. ASSUME NEW n \in 1 .. k + N PROVE recv_buff'[n] = Bytes(request[c])[n]
        <4>1. CASE n <= k
          <5>1. n \in 1 .. k /\ n \in 1 .. RECV_SZ
            BY <1>2, <1>3, <3>3, <4>1, RequestAssumption
          <5> QED
            BY <1>3, <3>1, <4>1, <5>1
        <4>2. CASE n > k
          <5> DEFINE j == n - k
          <5>1. j \in 1 .. N /\ k + j = n /\ n <= RECV_SZ
            BY <1>2, <1>3, <1>8, <3>3, <4>2, RequestAssumption
          <5>2. chan[c][j] = Bytes(request[c])[k + j]
            BY <1>0, <1>6, <3>1, <5>1 DEF InPlace
          <5> QED
            BY <1>0, <1>3, <5>1, <5>2
        <4> QED
          BY <1>2, <1>3, <3>3, <4>1, <4>2
      <3> QED
        BY <1>1, <1>5, <1>6, <2>1, <3>1, <3>2, <3>3 DEF Whole, Idle
    <2>2. CASE d # c
      BY <1>1, <1>3, <1>6, <2>0, <2>2, UndisturbedOutside DEF Inv, Types
    <2> QED
      BY <2>1, <2>2
  <1> QED
    BY <1>9, <1>10, <1>11, <1>12 DEF Inv, AllWhole

(* Only a request that came in full is not awaited any longer.             *)
LEMMA NotAwaited ==
  ASSUME Inv, pc = "body", ~ Awaiting, post.fd \notin split
  PROVE  /\ post.fd \in Conns /\ Whole(post.fd) /\ InBody(post.fd)
         /\ post.recv_result = Len(Bytes(request[post.fd]))
         /\ chan[post.fd] = <<>> /\ unsent[post.fd] = <<>>
  <1> DEFINE c == post.fd
             k == post.recv_result
  <1>1. c \in Conns /\ k \in Nat /\ post.cont_len \in Nat /\ ~ post.cont_len > k
    BY RequestAssumption DEF Inv, Types, Awaiting
  <1>2. InBody(c) /\ Got(c) = k
    BY DEF InBody, Got
  <1>3. Whole(c) /\ post.cont_len = Len(Bytes(request[c]))
    BY <1>1, <1>2 DEF Inv, AllWhole, Whole
  <1>4. /\ Got(c) + Len(chan[c]) + Len(unsent[c]) <= Len(Bytes(request[c]))
        /\ Len(chan[c]) \in Nat /\ Len(unsent[c]) \in Nat /\ Len(Bytes(request[c])) \in Nat
        /\ chan[c] \in Seq(Units) /\ unsent[c] \in Seq(Units)
    BY <1>1, TakenIsAll DEF Inv
  <1>5. k = Len(Bytes(request[c])) /\ Len(chan[c]) = 0 /\ Len(unsent[c]) = 0
    BY <1>1, <1>2, <1>3, <1>4
  <1>6. chan[c] = <<>> /\ unsent[c] = <<>>
    BY <1>4, <1>5
  <1> QED
    BY <1>1, <1>2, <1>3, <1>5, <1>6

LEMMA BodyDoneKeeps == ASSUME Inv, BodyDone PROVE Inv'
  <1>0. PICK c, k : c = post.fd /\ k = post.recv_result
    OBVIOUS
  <1>1. /\ pc = "body" /\ ~ Awaiting /\ pc' = "events" /\ post' = NoPost
        /\ recv_buff' = [recv_buff EXCEPT ![k + 1] = NUL]
        /\ replied' = [replied EXCEPT ![c] = TRUE]
        /\ conn' = conn /\ request' = request /\ unsent' = unsent /\ split' = split
        /\ chan' = chan /\ events' = events
    BY <1>0 DEF BodyDone, clientVars
  <1>2. c \in Conns /\ k \in 1 .. RECV_SZ - 1
    BY <1>0, <1>1 DEF Inv, Types
  <1>3. /\ InBody(c) /\ ~ InBody(c)' /\ Got(c)' = 0 /\ Got(c) \in Nat
        /\ \A d \in Conns : d # c => ~ InBody(d) /\ ~ InBody(d)' /\ Got(d) = 0 /\ Got(d)' = 0
    BY <1>0, <1>1, <1>2, RequestAssumption DEF InBody, Got
  <1>4. Types'
    BY <1>1, <1>2 DEF Inv, Types, Units
  <1>5. Fits'
    <2>1. ASSUME NEW d \in Conns
          PROVE  Got(d)' + Len(chan'[d]) + Len(unsent'[d]) <= Len(Bytes(request'[d]))
      <3>1. /\ Got(d) + Len(chan[d]) + Len(unsent[d]) <= Len(Bytes(request[d]))
            /\ Len(chan[d]) \in Nat /\ Len(unsent[d]) \in Nat /\ Len(Bytes(request[d])) \in Nat
        BY TakenIsAll DEF Inv
      <3> QED
        BY <1>1, <1>3, <3>1
    <2> QED
      BY <2>1 DEF Fits
  <1>6. EventsHold'
    <2>1. conn[c] # "none"
      BY <1>2, <1>3 DEF Inv, EventsHold
    <2>2. \A d \in Conns : ~ InBody(d)'
      BY <1>3
    <2>3. \A e \in events : e.fd \in Conns
      BY DEF Inv, Types
    <2> QED
      BY <1>1, <1>2, <2>1, <2>2, <2>3 DEF Inv, Types, EventsHold
  <1>7. ASSUME NEW d \in Conns \ split' PROVE Whole(d)'
    <2>1. CASE d = c
      <3>1. chan[c] = <<>> /\ unsent[c] = <<>>
        BY <1>0, <1>1, <1>7, <2>1, NotAwaited
      <3> QED
        BY <1>1, <1>2, <1>3, <2>1, <3>1 DEF Whole, Idle, Inv, Types
    <2>2. CASE d # c
      <3>1. Whole(d)
        BY <1>1, <1>7 DEF Inv, AllWhole
      <3> QED
        BY <1>1, <1>3, <2>2, <3>1, UndisturbedOutside DEF Inv, Types
    <2> QED
      BY <2>1, <2>2
  <1> QED
    BY <1>4, <1>5, <1>6, <1>7 DEF Inv, AllWhole

-----------------------------------------------------------------------------
LEMMA InvInit == Init => Inv
  <1> SUFFICES ASSUME Init PROVE Inv
    OBVIOUS
  <1>1. <<>> \in Seq(Units) /\ Len(<<>>) = 0
    OBVIOUS
  <1>2. \A c \in Conns : ~ InBody(c) /\ Got(c) = 0
    BY DEF Init, InBody, Got
  <1>3. Types
    BY <1>1 DEF Init, Types, Units
  <1>4. Fits
    BY <1>1, <1>2, NoBytes DEF Init, Fits
  <1>5. EventsHold
    BY <1>2 DEF Init, EventsHold
  <1>6. AllWhole
    BY <1>2 DEF Init, AllWhole, Whole, Idle
  <1> QED
    BY <1>3, <1>4, <1>5, <1>6 DEF Inv

LEMMA InvStep == Inv /\ [Next]_vars => Inv'
  <1> SUFFICES ASSUME Inv, [Next]_vars PROVE Inv'
    OBVIOUS
  <1>1. CASE UNCHANGED vars
    BY <1>1 DEF vars, clientVars, postVars, Inv, Types, Fits, EventsHold, AllWhole, Whole,
                Idle, InPlace, Got, InBody
  <1>2. CASE Poll
    BY <1>2, PollKeeps
  <1>3. CASE EventsDone
    BY <1>3, EventsDoneKeeps
  <1>4. CASE BodyMore
    BY <1>4, BodyMoreKeeps
  <1>5. CASE BodyNone
    BY <1>1, <1>5 DEF BodyNone
  <1>6. CASE BodyDone
    BY <1>6, BodyDoneKeeps
  <1>7. ASSUME NEW c \in Conns, Serve(c) PROVE Inv'
    BY <1>7, HangupKeeps, ReceiveNoneKeeps, ReceiveGetKeeps, ReceiveOtherKeeps,
       ReceivePostKeeps DEF Serve
  <1>8. ASSUME NEW c \in Conns, Client(c) PROVE Inv'
    <2>1. CASE Accept(c)
      BY <2>1, AcceptKeeps
    <2>2. ASSUME NEW r \in Requests, NEW n \in 1 .. r.head + r.body, Begin(c, r, n)
          PROVE  Inv'
      <3>1. n \in Nat
        BY RequestAssumption
      <3> QED
        BY <2>2, <3>1, BeginKeeps
    <2>3. ASSUME NEW n \in 1 .. Len(unsent[c]), SendMore(c, n) PROVE Inv'
      BY <2>3, SendMoreKeeps
    <2>4. ASSUME NEW how \in {"shut", "reset"}, Leave(c, how) PROVE Inv'
      BY <2>4, LeaveKeeps
    <2> QED
      BY <1>8, <2>1, <2>2, <2>3, <2>4 DEF Client
  <1> QED
    BY <1>1, <1>2, <1>3, <1>4, <1>5, <1>6, <1>7, <1>8 DEF Next, Step

LEMMA InvAlways == Spec => []Inv
  BY InvInit, InvStep, PTL DEF Spec

(* Every variable keeps its type: in particular what is received of a      *)
(* request and the '\0' behind it stay inside recv_buff (src/worker.cpp).   *)
THEOREM TypeCorrect == Spec => []TypeOK
  <1>1. Inv => TypeOK
    BY DEF Inv, Types, TypeOK
  <1> QED
    BY <1>1, InvAlways, PTL

(* reqPost is given exactly the request that its client sent, whatever     *)
(* other connections left in the buffer (src/worker.cpp, "POST").           *)
THEOREM PostsAreWhole == Spec => []PostWhole
  <1>1. Inv => PostWhole
    <2> SUFFICES ASSUME Inv, pc = "body", ~ Awaiting, post.fd \notin split
                 PROVE  /\ SubSeq(recv_buff, 1, post.recv_result) = Bytes(request[post.fd])
                        /\ post.body_p = request[post.fd].head + 1
      BY DEF PostWhole
    <2> DEFINE c == post.fd
               k == post.recv_result
    <2>1. c \in Conns /\ Whole(c) /\ InBody(c) /\ k = Len(Bytes(request[c]))
      BY NotAwaited
    <2>2. /\ \A n \in 1 .. k : recv_buff[n] = Bytes(request[c])[n]
          /\ post.body_p = request[c].head + 1
      BY <2>1 DEF Whole
    <2>3. Bytes(request[c]) \in Seq(Units)
      BY <2>1, TakenIsAll DEF Inv
    <2>4. k \in 1 .. RECV_SZ - 1 /\ recv_buff \in [1 .. RECV_SZ -> Units]
      BY DEF Inv, Types
    <2> HIDE DEF c, k
    <2>5. /\ SubSeq(recv_buff, 1, k) \in Seq(Units) /\ Len(SubSeq(recv_buff, 1, k)) = k
          /\ \A n \in 1 .. k : SubSeq(recv_buff, 1, k)[n] = recv_buff[n]
      BY <2>4, RequestAssumption
    <2>6. SubSeq(recv_buff, 1, k) = Bytes(request[c])
      BY <2>1, <2>2, <2>3, <2>5
    <2> QED
      BY <2>2, <2>6 DEF c, k
  <1> QED
    BY <1>1, InvAlways, PTL

(* No client is answered before it has sent all of its request, and nothing *)
(* of an answered request is left to be taken for the next one              *)
(* (src/worker.cpp).                                                        *)
THEOREM AnswersAreWhole == Spec => []AnsweredWhole
  <1>1. Inv => AnsweredWhole
    <2>1. ASSUME Inv, NEW c \in Conns \ split, replied[c]
          PROVE  unsent[c] = <<>> /\ chan[c] = <<>>
      BY <2>1 DEF Inv, AllWhole, Whole, Idle
    <2> QED
      BY <2>1 DEF AnsweredWhole
  <1> QED
    BY <1>1, InvAlways, PTL

(* The worker closes no connection whose client has not left it            *)
(* (src/worker.cpp, the events and the results of recvfrom).               *)
THEOREM NobodyIsCutOff == Spec => NeverCutOff
  <1> DEFINE Keeps == \A c \in Conns : conn[c] = "open" => conn'[c] # "none"
  <1>1. Inv /\ [Next]_vars => [Keeps]_vars
    <2> SUFFICES ASSUME Inv, Next, NEW c \in Conns, conn[c] = "open" PROVE conn'[c] # "none"
      BY DEF Keeps
    <2>1. CASE Poll \/ EventsDone \/ BodyMore \/ BodyNone \/ BodyDone
      BY <2>1 DEF Poll, EventsDone, BodyMore, BodyNone, BodyDone, vars
    <2>2. ASSUME NEW d \in Conns, Serve(d) PROVE conn'[c] # "none"
      <3>1. CASE Hangup(d)
        <4>1. conn[d] = "reset"
          BY <3>1 DEF Hangup, Event, Inv, EventsHold
        <4> QED
          BY <3>1, <4>1 DEF Hangup, Close, Inv, Types
      <3>2. CASE ReceiveNone(d)
        <4>1. conn[d] # "open"
          BY <3>2 DEF ReceiveNone, Event, Inv, EventsHold
        <4> QED
          BY <3>2, <4>1 DEF ReceiveNone, Close, Inv, Types
      <3>3. CASE ReceiveGet(d) \/ ReceiveOther(d) \/ ReceivePost(d)
        BY <3>3 DEF ReceiveGet, ReceiveOther, ReceivePost
      <3> QED
        BY <2>2, <3>1, <3>2, <3>3 DEF Serve
    <2>3. ASSUME NEW d \in Conns, Client(d) PROVE conn'[c] # "none"
      BY <2>3 DEF Client, Accept, Begin, SendMore, Leave, Inv, Types
    <2> QED
      BY <2>1, <2>2, <2>3 DEF Next, Step
  <1> QED
    BY <1>1, InvAlways, PTL DEF Spec, NeverCutOff

=============================================================================
