---------------------------- MODULE ProxyProofs ----------------------------
(***************************************************************************)
(* Proofs about Proxy for any set of connections and any number of         *)
(* messages: no thread uses a socket it has closed, at most one client is  *)
(* left hanging, and nothing is lost inside.                               *)
(***************************************************************************)
EXTENDS Proxy, SequenceTheorems, FiniteSetTheorems, TLAPS

-----------------------------------------------------------------------------
(* Streams. *)

\* A read, or a send, cuts what is there in two.
LEMMA Cut ==
    ASSUME NEW S, NEW s \in Seq(S), NEW m \in 0..Len(s)
    PROVE  /\ Taken(s, m) \in Seq(S) /\ Left(s, m) \in Seq(S)
           /\ Taken(s, m) \o Left(s, m) = s
<1>1. Len(s) \in Nat /\ \A p \in 1..Len(s) : s[p] \in S
  BY LenProperties, ElementOfSeq
<1>2. SubSeq(s, 1, m) \in Seq(S) /\ SubSeq(s, m + 1, Len(s)) \in Seq(S)
  BY <1>1, SubSeqProperties
<1>3. SubSeq(s, 1, m) \o SubSeq(s, m + 1, Len(s)) = s
  <2>1. CASE s = <<>>
    <3>1. m = 0 /\ Len(s) = 0
      BY <1>1, <2>1, EmptySeq
    <3>2. SubSeq(s, 1, m) = <<>> /\ SubSeq(s, m + 1, Len(s)) = <<>>
      BY <3>1, SubSeqEmpty
    <3>. QED BY <2>1, <3>2, ConcatEmptySeq
  <2>2. CASE s # <<>>
    <3>1. SubSeq(s, 1, m) \o SubSeq(s, m + 1, Len(s)) = SubSeq(s, 1, Len(s))
      <4>1. /\ 1 \in 1..(Len(s) + 1) /\ m \in 0..Len(s) /\ m \in (1 - 1)..Len(s)
            /\ Len(s) \in m..Len(s)
        BY <1>1
      <4>. QED BY <4>1, ConcatAdjacentSubSeq
    <3>. QED BY <3>1, SubSeqFull
  <2>. QED BY <2>1, <2>2
<1>. QED BY <1>2, <1>3 DEF Taken, Left

\* A handler keeps the length of what it rewrites, and the cuts made in it.
LEMMA Handled ==
    ASSUME NEW f \in Seq(Nat)
    PROVE  /\ request_handler(f) \in Seq(Message) /\ response_handler(f) \in Seq(Message)
           /\ Len(request_handler(f)) = Len(f) /\ Len(response_handler(f)) = Len(f)
           /\ \A p \in 1..Len(f) : /\ request_handler(f)[p] = <<"request", f[p]>>
                                   /\ response_handler(f)[p] = <<"response", f[p]>>
<1>1. Len(f) \in Nat /\ DOMAIN f = 1..Len(f) /\ \A p \in 1..Len(f) : f[p] \in Nat
  BY LenProperties, ElementOfSeq
<1>2. /\ request_handler(f) = [p \in 1..Len(f) |-> <<"request", f[p]>>]
      /\ response_handler(f) = [p \in 1..Len(f) |-> <<"response", f[p]>>]
  BY <1>1 DEF request_handler, response_handler
<1>3. \A p \in 1..Len(f) : <<"request", f[p]>> \in Message /\ <<"response", f[p]>> \in Message
  BY <1>1 DEF Message
<1>. QED BY <1>1, <1>2, <1>3

\* Concatenation of streams is associative.
LEMMA Associative == \A r, s, t \in Seq(Message) : (r \o s) \o t = r \o (s \o t)
  BY ConcatAssociative

\* A handler rewrites a stream piece by piece.
LEMMA HandledConcat ==
    ASSUME NEW f \in Seq(Nat), NEW g \in Seq(Nat)
    PROVE  /\ request_handler(f \o g) = request_handler(f) \o request_handler(g)
           /\ response_handler(f \o g) = response_handler(f) \o response_handler(g)
<1>1. /\ f \o g \in Seq(Nat) /\ Len(f \o g) = Len(f) + Len(g)
      /\ Len(f) \in Nat /\ Len(g) \in Nat
      /\ \A p \in 1..(Len(f) + Len(g)) :
            (f \o g)[p] = IF p <= Len(f) THEN f[p] ELSE g[p - Len(f)]
  BY ConcatProperties, LenProperties
<1>. DEFINE a == request_handler(f)
            b == request_handler(g)
            c == response_handler(f)
            d == response_handler(g)
<1>2. /\ a \in Seq(Message) /\ b \in Seq(Message) /\ c \in Seq(Message) /\ d \in Seq(Message)
      /\ Len(a) = Len(f) /\ Len(b) = Len(g) /\ Len(c) = Len(f) /\ Len(d) = Len(g)
      /\ \A p \in 1..Len(f) : a[p] = <<"request", f[p]>> /\ c[p] = <<"response", f[p]>>
      /\ \A p \in 1..Len(g) : b[p] = <<"request", g[p]>> /\ d[p] = <<"response", g[p]>>
  BY Handled
<1>3. /\ request_handler(f \o g) \in Seq(Message) /\ response_handler(f \o g) \in Seq(Message)
      /\ Len(request_handler(f \o g)) = Len(f) + Len(g)
      /\ Len(response_handler(f \o g)) = Len(f) + Len(g)
      /\ \A p \in 1..(Len(f) + Len(g)) :
            /\ request_handler(f \o g)[p] = <<"request", (f \o g)[p]>>
            /\ response_handler(f \o g)[p] = <<"response", (f \o g)[p]>>
  BY <1>1, Handled
<1>. HIDE DEF a, b, c, d
<1>4. /\ a \o b \in Seq(Message) /\ Len(a \o b) = Len(f) + Len(g)
      /\ c \o d \in Seq(Message) /\ Len(c \o d) = Len(f) + Len(g)
      /\ \A p \in 1..(Len(f) + Len(g)) :
            /\ (a \o b)[p] = IF p <= Len(f) THEN a[p] ELSE b[p - Len(f)]
            /\ (c \o d)[p] = IF p <= Len(f) THEN c[p] ELSE d[p - Len(f)]
  <2>1. /\ a \o b \in Seq(Message) /\ Len(a \o b) = Len(a) + Len(b)
        /\ \A p \in 1..(Len(a) + Len(b)) : (a \o b)[p] = IF p <= Len(a) THEN a[p] ELSE b[p - Len(a)]
    <3>1. a \in Seq(Message) /\ b \in Seq(Message)
      BY <1>2
    <3>. QED BY <3>1, ConcatProperties
  <2>2. /\ c \o d \in Seq(Message) /\ Len(c \o d) = Len(c) + Len(d)
        /\ \A p \in 1..(Len(c) + Len(d)) : (c \o d)[p] = IF p <= Len(c) THEN c[p] ELSE d[p - Len(c)]
    <3>1. c \in Seq(Message) /\ d \in Seq(Message)
      BY <1>2
    <3>. QED BY <3>1, ConcatProperties
  <2>. QED BY <1>2, <2>1, <2>2
<1>5. \A p \in 1..(Len(f) + Len(g)) : /\ request_handler(f \o g)[p] = (a \o b)[p]
                                      /\ response_handler(f \o g)[p] = (c \o d)[p]
  <2>. TAKE p \in 1..(Len(f) + Len(g))
  <2>1. CASE p <= Len(f)
    <3>1. p \in 1..Len(f) /\ (f \o g)[p] = f[p]
      BY <1>1, <2>1
    <3>2. (a \o b)[p] = <<"request", f[p]>> /\ (c \o d)[p] = <<"response", f[p]>>
      BY <1>2, <1>4, <2>1, <3>1
    <3>. QED BY <1>3, <3>1, <3>2
  <2>2. CASE ~(p <= Len(f))
    <3>1. p - Len(f) \in 1..Len(g) /\ (f \o g)[p] = g[p - Len(f)]
      BY <1>1, <2>2
    <3>2. (a \o b)[p] = <<"request", g[p - Len(f)]>> /\ (c \o d)[p] = <<"response", g[p - Len(f)]>>
      BY <1>2, <1>4, <2>2, <3>1
    <3>. QED BY <1>3, <3>1, <3>2
  <2>. QED BY <2>1, <2>2
<1>6. request_handler(f \o g) = a \o b
  BY <1>3, <1>4, <1>5, SeqEqual
<1>7. response_handler(f \o g) = c \o d
  BY <1>3, <1>4, <1>5, SeqEqual
<1>. QED BY <1>6, <1>7 DEF a, b, c, d

Below(s, t) == \A x \in Range(s), y \in Range(t) : x[2] < y[2]

\* A concatenation is in order when its parts are, and the first lies below the
\* second.
LEMMA InOrderConcat ==
    ASSUME NEW s \in Seq(Message), NEW t \in Seq(Message)
    PROVE  InOrder(s \o t) <=> InOrder(s) /\ InOrder(t) /\ Below(s, t)
<1>1. /\ Len(s) \in Nat /\ Len(t) \in Nat
      /\ DOMAIN s = 1..Len(s) /\ DOMAIN t = 1..Len(t)
      /\ DOMAIN (s \o t) = 1..(Len(s) + Len(t))
      /\ \A p \in 1..(Len(s) + Len(t)) : (s \o t)[p] = IF p <= Len(s) THEN s[p] ELSE t[p - Len(s)]
  <2>1. s \o t \in Seq(Message) /\ Len(s \o t) = Len(s) + Len(t)
    BY ConcatProperties
  <2>. QED BY <2>1, ConcatProperties, LenProperties
<1>2. /\ \A p \in 1..Len(s) : p \in 1..(Len(s) + Len(t)) /\ (s \o t)[p] = s[p]
      /\ \A p \in 1..Len(t) : /\ Len(s) + p \in 1..(Len(s) + Len(t))
                              /\ (s \o t)[Len(s) + p] = t[p]
  BY <1>1
<1>3. ASSUME InOrder(s \o t) PROVE InOrder(s) /\ InOrder(t) /\ Below(s, t)
  <2>1. InOrder(s)
    BY <1>1, <1>2, <1>3 DEF InOrder
  <2>2. InOrder(t)
    <3>. SUFFICES ASSUME NEW p \in 1..Len(t), NEW r \in 1..Len(t), p < r
                  PROVE  t[p][2] < t[r][2]
      BY <1>1 DEF InOrder
    <3>1. /\ Len(s) + p < Len(s) + r
          /\ Len(s) + p \in DOMAIN (s \o t) /\ Len(s) + r \in DOMAIN (s \o t)
      BY <1>1, <1>2
    <3>2. (s \o t)[Len(s) + p][2] < (s \o t)[Len(s) + r][2]
      BY <1>3, <3>1 DEF InOrder
    <3>. QED BY <1>2, <3>2
  <2>3. Below(s, t)
    <3>. SUFFICES ASSUME NEW p \in 1..Len(s), NEW r \in 1..Len(t) PROVE s[p][2] < t[r][2]
      BY <1>1 DEF Below, Range
    <3>1. p < Len(s) + r
      BY <1>1
    <3>. QED BY <1>1, <1>2, <1>3, <3>1 DEF InOrder
  <2>. QED BY <2>1, <2>2, <2>3
<1>4. ASSUME InOrder(s), InOrder(t), Below(s, t) PROVE InOrder(s \o t)
  <2>. SUFFICES ASSUME NEW p \in 1..(Len(s) + Len(t)), NEW r \in 1..(Len(s) + Len(t)), p < r
                PROVE  (s \o t)[p][2] < (s \o t)[r][2]
    BY <1>1 DEF InOrder
  <2>1. CASE r <= Len(s)
    <3>1. p \in 1..Len(s) /\ r \in 1..Len(s) /\ (s \o t)[p] = s[p] /\ (s \o t)[r] = s[r]
      BY <1>1, <2>1
    <3>. QED BY <1>1, <1>4, <3>1 DEF InOrder
  <2>2. CASE p <= Len(s) /\ ~(r <= Len(s))
    <3>1. p \in 1..Len(s) /\ r - Len(s) \in 1..Len(t)
          /\ (s \o t)[p] = s[p] /\ (s \o t)[r] = t[r - Len(s)]
      BY <1>1, <2>2
    <3>. QED BY <1>1, <1>4, <3>1 DEF Below, Range
  <2>3. CASE ~(p <= Len(s))
    <3>1. p - Len(s) \in 1..Len(t) /\ r - Len(s) \in 1..Len(t) /\ p - Len(s) < r - Len(s)
          /\ (s \o t)[p] = t[p - Len(s)] /\ (s \o t)[r] = t[r - Len(s)]
      BY <1>1, <2>3
    <3>. QED BY <1>1, <1>4, <3>1 DEF InOrder
  <2>. QED BY <2>1, <2>2, <2>3
<1>. QED BY <1>3, <1>4

\* A message with a higher number goes to the end.
LEMMA Adding ==
    ASSUME NEW s \in Seq(Message), InOrder(s), NEW x \in Message, \A y \in Range(s) : y[2] < x[2]
    PROVE  InOrder(s \o <<x>>) /\ Range(s \o <<x>>) = Range(s) \cup {x}
<1>1. <<x>> \in Seq(Message) /\ Range(<<x>>) = {x} /\ InOrder(<<x>>)
  BY DEF Range, InOrder
<1>2. Below(s, <<x>>)
  BY <1>1 DEF Below
<1>3. InOrder(s \o <<x>>)
  BY <1>1, <1>2, InOrderConcat
<1>4. Range(s \o <<x>>) = Range(s) \cup Range(<<x>>)
  <2>1. s \in Seq(Message) /\ <<x>> \in Seq(Message)
    BY <1>1
  <2>. QED BY <2>1, RangeConcatenation
<1>. QED BY <1>1, <1>3, <1>4

\* What is taken out of the middle leaves the rest in order, and is in it no more.
LEMMA Dropping ==
    ASSUME NEW a \in Seq(Message), NEW b1 \in Seq(Message), NEW b2 \in Seq(Message),
           NEW d \in Seq(Message), InOrder((a \o (b1 \o b2)) \o d)
    PROVE  /\ InOrder((a \o b1) \o d)
           /\ Range((a \o b1) \o d) = Range((a \o (b1 \o b2)) \o d) \ Range(b2)
           /\ Range(b2) \subseteq Range((a \o (b1 \o b2)) \o d)
<1>1. /\ b1 \o b2 \in Seq(Message) /\ a \o (b1 \o b2) \in Seq(Message) /\ a \o b1 \in Seq(Message)
  <2>1. \A s, t \in Seq(Message) : s \o t \in Seq(Message)
    BY ConcatProperties
  <2>. QED BY <2>1
<1>2. \A s, t \in Seq(Message) :
         /\ InOrder(s \o t) <=> InOrder(s) /\ InOrder(t) /\ Below(s, t)
         /\ Range(s \o t) = Range(s) \cup Range(t)
  BY InOrderConcat, RangeConcatenation
<1>3. /\ InOrder(a \o (b1 \o b2)) /\ InOrder(d) /\ Below(a \o (b1 \o b2), d)
      /\ Range((a \o (b1 \o b2)) \o d) = Range(a \o (b1 \o b2)) \cup Range(d)
  BY <1>1, <1>2
<1>4. /\ InOrder(a) /\ InOrder(b1 \o b2) /\ Below(a, b1 \o b2)
      /\ Range(a \o (b1 \o b2)) = Range(a) \cup Range(b1 \o b2)
  BY <1>1, <1>2, <1>3
<1>5. /\ InOrder(b1) /\ Below(b1, b2) /\ Range(b1 \o b2) = Range(b1) \cup Range(b2)
  BY <1>2, <1>4
<1>6. /\ Range(a \o b1) = Range(a) \cup Range(b1)
      /\ Range((a \o b1) \o d) = Range(a \o b1) \cup Range(d)
  BY <1>1, <1>2
<1>7. Below(a, b1) /\ Below(a, b2) /\ Below(a \o b1, d) /\ Below(b2, d)
  BY <1>3, <1>4, <1>5, <1>6 DEF Below
<1>8. InOrder(a \o b1)
  BY <1>2, <1>4, <1>5, <1>7
<1>9. InOrder((a \o b1) \o d)
  BY <1>1, <1>2, <1>3, <1>7, <1>8
<1>10. \A x \in Range(b2) : x \notin Range(a) /\ x \notin Range(b1) /\ x \notin Range(d)
  <2>1. \A x \in Range(b2) : x[2] \in Nat
    BY RangeOfSeq DEF Message
  <2>. QED BY <1>5, <1>7, <2>1 DEF Below
<1>. QED BY <1>3, <1>4, <1>5, <1>6, <1>9, <1>10

\* A cut before and after the handler.
LEMMA CutHandled ==
    ASSUME NEW f \in Seq(Nat), NEW m \in 0..Len(f)
    PROVE  /\ Taken(f, m) \in Seq(Nat) /\ Left(f, m) \in Seq(Nat)
           /\ request_handler(Taken(f, m)) \o request_handler(Left(f, m)) = request_handler(f)
           /\ response_handler(Taken(f, m)) \o response_handler(Left(f, m)) = response_handler(f)
           /\ m = 0 => Left(f, m) = f
<1>1. Taken(f, m) \in Seq(Nat) /\ Left(f, m) \in Seq(Nat) /\ Taken(f, m) \o Left(f, m) = f
  BY Cut
<1>2. /\ request_handler(Taken(f, m) \o Left(f, m))
           = request_handler(Taken(f, m)) \o request_handler(Left(f, m))
      /\ response_handler(Taken(f, m) \o Left(f, m))
           = response_handler(Taken(f, m)) \o response_handler(Left(f, m))
  BY <1>1, HandledConcat
<1>3. m = 0 => Left(f, m) = f
  BY SubSeqFull DEF Left
<1>. QED BY <1>1, <1>2, <1>3

\* One more message to be handled.
LEMMA HandledAppend ==
    ASSUME NEW f \in Seq(Nat), NEW n \in Nat
    PROVE  /\ request_handler(Append(f, n)) = request_handler(f) \o <<<<"request", n>>>>
           /\ response_handler(Append(f, n)) = response_handler(f) \o <<<<"response", n>>>>
<1>1. <<n>> \in Seq(Nat) /\ Append(f, n) = f \o <<n>>
  BY AppendIsConcat
<1>2. /\ request_handler(<<n>>) = <<<<"request", n>>>>
      /\ response_handler(<<n>>) = <<<<"response", n>>>>
  BY DEF request_handler, response_handler
<1>3. /\ request_handler(f \o <<n>>) = request_handler(f) \o request_handler(<<n>>)
      /\ response_handler(f \o <<n>>) = response_handler(f) \o response_handler(<<n>>)
  BY <1>1, HandledConcat
<1>. QED BY <1>1, <1>2, <1>3

-----------------------------------------------------------------------------
(* Types. *)

\* Every action keeps every variable in its set.
LEMMA TypeStep ==
    ASSUME TypeOK, [Next]_vars
    PROVE  TypeOK'
<1>. USE DEF peers, relayed, buffers, sockets, Goto
<1>1. ASSUME NEW c \in Conn, Peer(c) PROVE TypeOK'
  <2>1. CASE Connect(c)
    BY <2>1 DEF Connect, TypeOK, Location
  <2>2. CASE ClientSends(c)
    <3>1. fromClient' \in [Conn -> Seq(Nat)] /\ sent' \in [Conn -> Nat]
      <4>1. Append(fromClient[c], sent[c] + 1) \in Seq(Nat)
        BY AppendProperties DEF TypeOK
      <4>. QED BY <2>2, <4>1 DEF ClientSends, TypeOK
    <3>. QED BY <2>2, <3>1 DEF ClientSends, TypeOK
  <2>3. CASE RemoteSends(c)
    <3>1. fromRemote' \in [Conn -> Seq(Nat)] /\ answered' \in [Conn -> Nat]
      <4>1. Append(fromRemote[c], answered[c] + 1) \in Seq(Nat)
        BY AppendProperties DEF TypeOK
      <4>. QED BY <2>3, <4>1 DEF RemoteSends, TypeOK
    <3>. QED BY <2>3, <3>1 DEF RemoteSends, TypeOK
  <2>4. CASE ClientCloses(c)
    BY <2>4 DEF ClientCloses, TypeOK
  <2>5. CASE RemoteCloses(c)
    BY <2>5 DEF RemoteCloses, TypeOK
  <2>. QED BY <1>1, <2>1, <2>2, <2>3, <2>4, <2>5 DEF Peer
<1>2. ASSUME NEW c \in Conn, Accept(c) PROVE TypeOK'
  <2>1. pc' \in [Conn -> Location] /\ client_socket' \in Conn \cup {NoConn}
    BY <1>2 DEF Accept, TypeOK, Location
  <2>2. clientOpen' \in [Conn -> BOOLEAN]
    BY <1>2 DEF Accept, Released, TypeOK
  <2>. QED BY <1>2, <2>1, <2>2 DEF Accept, TypeOK
<1>3. ASSUME NEW c \in Conn, NEW m \in 0..Len(fromRemote[c]),
             remote_buffer' = [remote_buffer EXCEPT ![c] = response_handler(Taken(fromRemote[c], m))],
             fromRemote' = [fromRemote EXCEPT ![c] = Left(@, m)]
      PROVE  remote_buffer' \in [Conn -> Seq(Message)] /\ fromRemote' \in [Conn -> Seq(Nat)]
  <2>1. Taken(fromRemote[c], m) \in Seq(Nat) /\ Left(fromRemote[c], m) \in Seq(Nat)
    BY CutHandled DEF TypeOK
  <2>2. response_handler(Taken(fromRemote[c], m)) \in Seq(Message)
    BY <2>1, Handled
  <2>. QED BY <1>3, <2>1, <2>2 DEF TypeOK
<1>4. ASSUME NEW c \in Conn, NEW m \in 0..Len(fromClient[c]),
             local_buffer' = [local_buffer EXCEPT ![c] = request_handler(Taken(fromClient[c], m))],
             fromClient' = [fromClient EXCEPT ![c] = Left(@, m)]
      PROVE  local_buffer' \in [Conn -> Seq(Message)] /\ fromClient' \in [Conn -> Seq(Nat)]
  <2>1. Taken(fromClient[c], m) \in Seq(Nat) /\ Left(fromClient[c], m) \in Seq(Nat)
    BY CutHandled DEF TypeOK
  <2>2. request_handler(Taken(fromClient[c], m)) \in Seq(Message)
    BY <2>1, Handled
  <2>. QED BY <1>4, <2>1, <2>2 DEF TypeOK
<1>5. ASSUME NEW c \in Conn, NEW to \in [Conn -> Seq(Message)], NEW buffer \in Seq(Message),
             NEW m \in 0..Len(buffer)
      PROVE  /\ [to EXCEPT ![c] = @ \o Taken(buffer, m)] \in [Conn -> Seq(Message)]
             /\ [unsent EXCEPT ![c] = @ \cup Range(Left(buffer, m))] \in [Conn -> SUBSET Message]
  <2>1. Taken(buffer, m) \in Seq(Message) /\ Range(Left(buffer, m)) \subseteq Message
    BY Cut, RangeOfSeq
  <2>2. to[c] \o Taken(buffer, m) \in Seq(Message)
    BY <2>1, ConcatProperties
  <2>. QED BY <2>1, <2>2 DEF TypeOK
<1>6. ASSUME NEW c \in Conn, SendFirst(c) \/ SendLocal(c) PROVE TypeOK'
  <2>1. PICK m \in 0..Len(remote_buffer[c]) : Send(c, toClient, remote_buffer[c], m)
    <3>1. Len(remote_buffer[c]) \in Nat
      BY LenProperties DEF TypeOK
    <3>. QED BY <1>6, <3>1 DEF SendFirst, SendLocal
  <2>2. toClient' \in [Conn -> Seq(Message)] /\ unsent' \in [Conn -> SUBSET Message]
    <3>1. toClient \in [Conn -> Seq(Message)] /\ remote_buffer[c] \in Seq(Message)
      BY DEF TypeOK
    <3>. QED BY <1>5, <2>1, <3>1 DEF Send
  <2>. QED BY <1>6, <2>2 DEF SendFirst, SendLocal, TypeOK, Location, Reading
<1>7. ASSUME NEW c \in Conn, SendRemote(c) PROVE TypeOK'
  <2>1. PICK m \in 0..Len(local_buffer[c]) : Send(c, toRemote, local_buffer[c], m)
    <3>1. Len(local_buffer[c]) \in Nat
      BY LenProperties DEF TypeOK
    <3>. QED BY <1>7, <3>1 DEF SendRemote
  <2>2. toRemote' \in [Conn -> Seq(Message)] /\ unsent' \in [Conn -> SUBSET Message]
    <3>1. toRemote \in [Conn -> Seq(Message)] /\ local_buffer[c] \in Seq(Message)
      BY DEF TypeOK
    <3>. QED BY <1>5, <2>1, <3>1 DEF Send
  <2>. QED BY <1>7, <2>2 DEF SendRemote, TypeOK, Location, Reading
<1>8. ASSUME NEW c \in Conn, ReceiveFirst(c) \/ ReadRemote(c) PROVE TypeOK'
  <2>1. remote_buffer' \in [Conn -> Seq(Message)] /\ fromRemote' \in [Conn -> Seq(Nat)]
    BY <1>3, <1>8 DEF ReceiveFirst, ReadRemote, Received
  <2>2. pc' \in [Conn -> Location]
    BY <1>8 DEF ReceiveFirst, ReadRemote, TypeOK, Location, Reading, Sending
  <2>. QED BY <1>8, <2>1, <2>2 DEF ReceiveFirst, ReadRemote, TypeOK
<1>9. ASSUME NEW c \in Conn, ReadLocal(c) PROVE TypeOK'
  <2>1. local_buffer' \in [Conn -> Seq(Message)] /\ fromClient' \in [Conn -> Seq(Nat)]
    BY <1>4, <1>9 DEF ReadLocal, Received
  <2>2. pc' \in [Conn -> Location]
    BY <1>9 DEF ReadLocal, TypeOK, Location, Reading, Sending
  <2>. QED BY <1>9, <2>1, <2>2 DEF ReadLocal, TypeOK
<1>10. ASSUME NEW c \in Conn,
              ConnectRemote(c) \/ Test(c) \/ CloseClient(c) \/ CloseRemote(c) \/ Die(c)
       PROVE  TypeOK'
  <2>1. pc' \in [Conn -> Location]
    BY <1>10 DEF ConnectRemote, Test, CloseClient, CloseRemote, Die, TypeOK, Location, Reading,
       Ended
  <2>2. clientOpen' \in [Conn -> BOOLEAN] /\ remoteOpen' \in [Conn -> BOOLEAN]
    <3>1. (client_socket = c) \in BOOLEAN
      OBVIOUS
    <3>. QED BY <1>10, <3>1 DEF ConnectRemote, Test, CloseClient, CloseRemote, Die, TypeOK
  <2>. QED BY <1>10, <2>1, <2>2 DEF ConnectRemote, Test, CloseClient, CloseRemote, Die, TypeOK
<1>11. CASE UNCHANGED vars
  BY <1>11 DEF vars, TypeOK
<1>. QED
  BY <1>1, <1>2, <1>6, <1>7, <1>8, <1>9, <1>10, <1>11 DEF Next, proxy_handler

-----------------------------------------------------------------------------
(* Sockets. *)

\* Which sockets of a connection are open, as its thread has come to know, and
\* whose socket server_loop keeps open.
Sockets ==
    \A c \in Conn :
        /\ pc[c] \in {"connect", "test"} \cup Reading \cup Sending => clientOpen[c]
        /\ pc[c] \in {"test"} \cup Reading \cup Sending => remoteOpen[c]
        /\ pc[c] \in {"halfClosed", "closed"} => ~clientOpen[c]
        /\ pc[c] = "closed" => ~remoteOpen[c]
        /\ pc[c] = "died" /\ clientOpen[c] => client_socket = c

\* Every action keeps what the threads know of their sockets.
LEMMA SocketsStep ==
    ASSUME TypeOK, Sockets, [Next]_vars
    PROVE  Sockets'
<1>. USE DEF sockets, Goto
<1>1. ASSUME NEW e \in Conn, Accept(e) PROVE Sockets'
  BY <1>1, ConnAssumption DEF Accept, Released, Sockets, TypeOK, Reading, Sending
<1>2. ASSUME NEW e \in Conn, ConnectRemote(e) PROVE Sockets'
  BY <1>2 DEF ConnectRemote, Sockets, TypeOK, Reading, Sending
<1>3. ASSUME NEW e \in Conn, CloseClient(e) \/ CloseRemote(e) PROVE Sockets'
  <2>1. CASE CloseClient(e)
    BY <2>1 DEF CloseClient, Sockets, TypeOK, Reading, Sending
  <2>2. CASE CloseRemote(e)
    BY <2>2 DEF CloseRemote, Sockets, TypeOK, Reading, Sending
  <2>. QED BY <1>3, <2>1, <2>2
<1>4. ASSUME NEW e \in Conn, Die(e) PROVE Sockets'
  BY <1>4 DEF Die, Sockets, TypeOK, Reading, Sending
<1>5. ASSUME NEW e \in Conn, Connect(e) PROVE Sockets'
  BY <1>5 DEF Connect, Sockets, TypeOK, Reading, Sending
<1>6. ASSUME NEW e \in Conn,
             \/ ReceiveFirst(e) \/ ReadLocal(e) \/ ReadRemote(e)
             \/ SendFirst(e) \/ SendRemote(e) \/ SendLocal(e) \/ Test(e)
      PROVE  Sockets'
  <2>1. /\ UNCHANGED <<clientOpen, remoteOpen, client_socket>>
        /\ \E location \in {"test", "closing"} \cup Reading \cup Sending :
              pc' = [pc EXCEPT ![e] = location]
        /\ pc[e] \in {"test"} \cup Reading \cup Sending
    BY <1>6 DEF ReceiveFirst, ReadLocal, ReadRemote, SendFirst, SendRemote, SendLocal, Test,
       Reading, Sending
  <2>. QED BY <2>1 DEF Sockets, TypeOK, Reading, Sending
<1>7. ASSUME NEW e \in Conn,
             ClientSends(e) \/ ClientCloses(e) \/ RemoteSends(e) \/ RemoteCloses(e)
      PROVE  Sockets'
  <2>1. UNCHANGED <<pc, clientOpen, remoteOpen, client_socket>>
    BY <1>7 DEF ClientSends, ClientCloses, RemoteSends, RemoteCloses
  <2>. QED BY <2>1 DEF Sockets
<1>8. CASE UNCHANGED vars
  BY <1>8 DEF vars, Sockets
<1>. QED
  BY <1>1, <1>2, <1>3, <1>4, <1>5, <1>6, <1>7, <1>8 DEF Next, Peer, proxy_handler

-----------------------------------------------------------------------------
(* What is relayed. *)

Conserved(c) ==
    /\ unsent[c] \subseteq ({"request"} \X (1..sent[c])) \cup ({"response"} \X (1..answered[c]))
    /\ pc[c] # "died" =>
         /\ InOrder(Requests(c)) /\ InOrder(Responses(c))
         /\ Range(Requests(c)) = ({"request"} \X (1..sent[c])) \ unsent[c]
         /\ Range(Responses(c)) = ({"response"} \X (1..answered[c])) \ unsent[c]

\* The parts of the two streams.
LEMMA Streams ==
    ASSUME TypeOK, NEW c \in Conn
    PROVE  /\ toRemote[c] \in Seq(Message) /\ toClient[c] \in Seq(Message)
           /\ local_buffer[c] \in Seq(Message) /\ remote_buffer[c] \in Seq(Message)
           /\ request_handler(fromClient[c]) \in Seq(Message)
           /\ response_handler(fromRemote[c]) \in Seq(Message)
           /\ Requests(c) \in Seq(Message) /\ Responses(c) \in Seq(Message)
           /\ Requests(c) = IF pc[c] = "sendRemote"
                            THEN (toRemote[c] \o local_buffer[c]) \o request_handler(fromClient[c])
                            ELSE toRemote[c] \o request_handler(fromClient[c])
           /\ Responses(c) = IF pc[c] \in {"sendFirst", "sendLocal"}
                             THEN (toClient[c] \o remote_buffer[c]) \o response_handler(fromRemote[c])
                             ELSE toClient[c] \o response_handler(fromRemote[c])
<1>1. /\ toRemote[c] \in Seq(Message) /\ toClient[c] \in Seq(Message)
      /\ local_buffer[c] \in Seq(Message) /\ remote_buffer[c] \in Seq(Message)
      /\ request_handler(fromClient[c]) \in Seq(Message)
      /\ response_handler(fromRemote[c]) \in Seq(Message)
  BY Handled DEF TypeOK
<1>2. /\ toRemote[c] \o <<>> = toRemote[c] /\ toClient[c] \o <<>> = toClient[c]
  BY <1>1, ConcatEmptySeq
<1>3. \A s, t \in Seq(Message) : s \o t \in Seq(Message)
  BY ConcatProperties
<1>4. Requests(c) = IF pc[c] = "sendRemote"
                    THEN (toRemote[c] \o local_buffer[c]) \o request_handler(fromClient[c])
                    ELSE toRemote[c] \o request_handler(fromClient[c])
  BY <1>2 DEF Requests
<1>5. Responses(c) = IF pc[c] \in {"sendFirst", "sendLocal"}
                     THEN (toClient[c] \o remote_buffer[c]) \o response_handler(fromRemote[c])
                     ELSE toClient[c] \o response_handler(fromRemote[c])
  BY <1>2 DEF Responses
<1>6. Requests(c) \in Seq(Message)
  BY <1>1, <1>3, <1>4
<1>7. Responses(c) \in Seq(Message)
  BY <1>1, <1>3, <1>5
<1>. QED BY <1>1, <1>4, <1>5, <1>6, <1>7

\* A step that leaves both streams of a connection as they are.
Unmoved(c) ==
    /\ pc'[c] # "died" =>
         pc[c] # "died" /\ Requests(c)' = Requests(c) /\ Responses(c)' = Responses(c)
    /\ sent'[c] = sent[c] /\ answered'[c] = answered[c] /\ unsent'[c] = unsent[c]

\* Conservation speaks of nothing that an unmoved connection changes.
LEMMA UnmovedConserves ==
    ASSUME NEW c \in Conn, Conserved(c), Unmoved(c)
    PROVE  Conserved(c)'
  BY DEF Conserved, Unmoved

\* Nothing of a connection changes but its place and its sockets.
LEMMA UntouchedUnmoved ==
    ASSUME NEW c \in Conn,
           /\ toRemote'[c] = toRemote[c] /\ toClient'[c] = toClient[c]
           /\ fromClient'[c] = fromClient[c] /\ fromRemote'[c] = fromRemote[c]
           /\ local_buffer'[c] = local_buffer[c] /\ remote_buffer'[c] = remote_buffer[c]
           /\ sent'[c] = sent[c] /\ answered'[c] = answered[c] /\ unsent'[c] = unsent[c],
           \/ pc'[c] = pc[c]
           \/ pc'[c] = "died"
           \/ pc[c] \notin Sending \cup {"died"} /\ pc'[c] \notin Sending
    PROVE  Unmoved(c)
<1>1. CASE pc'[c] = "died"
  BY <1>1 DEF Unmoved
<1>2. CASE pc'[c] = pc[c]
  BY <1>2 DEF Unmoved, Requests, Responses, request_handler, response_handler
<1>3. CASE pc[c] \notin Sending \cup {"died"} /\ pc'[c] \notin Sending
  <2>1. /\ pc[c] \notin {"sendRemote", "sendFirst", "sendLocal", "died"}
        /\ pc'[c] \notin {"sendRemote", "sendFirst", "sendLocal"}
    BY <1>3 DEF Sending
  <2>2. Requests(c)' = Requests(c)
    BY <2>1 DEF Requests, request_handler
  <2>3. Responses(c)' = Responses(c)
    BY <2>1 DEF Responses, response_handler
  <2>. QED BY <2>1, <2>2, <2>3 DEF Unmoved
<1>. QED BY <1>1, <1>2, <1>3

\* What the client sends comes last of the requests.
LEMMA ClientSendsConserves ==
    ASSUME TypeOK, TypeOK', NEW c \in Conn, Conserved(c), ClientSends(c)
    PROVE  Conserved(c)'
<1>. DEFINE n == sent[c] + 1
            x == <<"request", n>>
<1>1. n \in Nat /\ x \in Message /\ sent[c] \in Nat /\ sent'[c] = n /\ answered'[c] = answered[c]
  BY DEF ClientSends, TypeOK, Message
<1>2. /\ pc' = pc /\ unsent' = unsent /\ toRemote' = toRemote /\ local_buffer' = local_buffer
      /\ toClient' = toClient /\ remote_buffer' = remote_buffer /\ fromRemote' = fromRemote
  BY DEF ClientSends, relayed, buffers
<1>3. fromClient'[c] = Append(fromClient[c], n) /\ fromClient[c] \in Seq(Nat)
  BY DEF ClientSends, TypeOK
<1>4. Requests(c)' = Requests(c) \o <<x>>
  <2>1. request_handler(fromClient[c])' = request_handler(fromClient[c]) \o <<x>>
    BY <1>1, <1>3, HandledAppend DEF request_handler
  <2>2. PICK front \in Seq(Message) :
           /\ Requests(c) = front \o request_handler(fromClient[c])
           /\ Requests(c)' = front \o request_handler(fromClient[c])'
    <3>1. toRemote[c] \o local_buffer[c] \in Seq(Message) /\ toRemote[c] \in Seq(Message)
      BY Streams, ConcatProperties
    <3>2. CASE pc[c] = "sendRemote"
      BY <1>2, <3>1, <3>2 DEF Requests
    <3>3. CASE pc[c] # "sendRemote"
      <4>1. toRemote[c] \o <<>> = toRemote[c]
        BY <3>1, ConcatEmptySeq
      <4>. QED BY <1>2, <3>1, <3>3, <4>1 DEF Requests
    <3>. QED BY <3>2, <3>3
  <2>3. request_handler(fromClient[c]) \in Seq(Message)
    BY Streams
  <2>4. <<x>> \in Seq(Message)
    BY <1>1
  <2>. QED BY <2>1, <2>2, <2>3, <2>4, ConcatAssociative
<1>5. Responses(c)' = Responses(c)
  BY <1>2 DEF Responses, response_handler
<1>6. ASSUME pc[c] # "died"
      PROVE  /\ InOrder(Requests(c)')
             /\ Range(Requests(c)') = ({"request"} \X (1..n)) \ unsent[c]
  <2>1. \A y \in Range(Requests(c)) : y[2] < x[2]
    BY <1>1, <1>6 DEF Conserved
  <2>2. InOrder(Requests(c) \o <<x>>) /\ Range(Requests(c) \o <<x>>) = Range(Requests(c)) \cup {x}
    BY <1>1, <1>6, <2>1, Streams, Adding DEF Conserved
  <2>3. x \notin unsent[c]
    BY <1>1 DEF Conserved
  <2>4. {"request"} \X (1..n) = ({"request"} \X (1..sent[c])) \cup {x}
    BY <1>1
  <2>5. InOrder(Requests(c)') /\ Range(Requests(c)') = Range(Requests(c)) \cup {x}
    BY <1>4, <2>2
  <2>6. Range(Requests(c)) = ({"request"} \X (1..sent[c])) \ unsent[c]
    BY <1>6 DEF Conserved
  <2>. QED BY <2>3, <2>4, <2>5, <2>6
<1>7. unsent[c] \subseteq ({"request"} \X (1..n)) \cup ({"response"} \X (1..answered[c]))
  BY <1>1 DEF Conserved
<1>. QED BY <1>1, <1>2, <1>5, <1>6, <1>7 DEF Conserved, InOrder, Range

\* A read moves messages through the handler into the hands of the thread.
LEMMA ReadLocalUnmoved ==
    ASSUME TypeOK, TypeOK', NEW c \in Conn, ReadLocal(c)
    PROVE  Unmoved(c)
<1>1. PICK m \in 0..Len(fromClient[c]) :
         /\ local_buffer'[c] = request_handler(Taken(fromClient[c], m))
         /\ fromClient'[c] = Left(fromClient[c], m)
         /\ pc[c] = "readLocal" /\ pc'[c] = IF m > 0 THEN "sendRemote" ELSE "readRemote"
  BY DEF ReadLocal, Received, Goto, TypeOK
<1>2. /\ toRemote' = toRemote /\ toClient' = toClient /\ unsent' = unsent
      /\ sent' = sent /\ answered' = answered
      /\ remote_buffer' = remote_buffer /\ fromRemote' = fromRemote
  BY DEF ReadLocal, relayed
<1>3. Responses(c)' = Responses(c)
  BY <1>1, <1>2 DEF Responses, response_handler
<1>4. /\ fromClient[c] \in Seq(Nat) /\ toRemote[c] \in Seq(Message)
      /\ Requests(c) = toRemote[c] \o request_handler(fromClient[c])
      /\ fromClient'[c] \in Seq(Nat) /\ local_buffer'[c] \in Seq(Message)
      /\ request_handler(fromClient'[c]) \in Seq(Message)
  BY <1>1, Streams, Handled DEF TypeOK
<1>5. /\ request_handler(Taken(fromClient[c], m)) \o request_handler(Left(fromClient[c], m))
           = request_handler(fromClient[c])
      /\ m = 0 => Left(fromClient[c], m) = fromClient[c]
  BY <1>4, CutHandled
<1>6. CASE m > 0
  <2>1. Requests(c)' = (toRemote[c] \o local_buffer'[c]) \o request_handler(fromClient'[c])
    BY <1>1, <1>2, <1>6 DEF Requests, request_handler
  <2>2. (toRemote[c] \o local_buffer'[c]) \o request_handler(fromClient'[c])
          = toRemote[c] \o (local_buffer'[c] \o request_handler(fromClient'[c]))
    BY <1>4, Associative
  <2>3. Requests(c)' = Requests(c)
    BY <1>1, <1>4, <1>5, <2>1, <2>2
  <2>. QED BY <1>1, <1>2, <1>3, <2>3 DEF Unmoved
<1>7. CASE m = 0
  <2>1. fromClient'[c] = fromClient[c]
    BY <1>1, <1>5, <1>7
  <2>2. Requests(c)' = Requests(c)
    <3>1. pc[c] # "sendRemote" /\ pc'[c] # "sendRemote"
      BY <1>1, <1>7
    <3>. QED BY <1>2, <2>1, <3>1 DEF Requests, request_handler
  <2>. QED BY <1>1, <1>2, <1>3, <2>2 DEF Unmoved
<1>. QED BY <1>4, <1>6, <1>7, LenProperties

\* A send takes the first part of the buffer away with it and drops the others.
LEMMA SendRemoteConserves ==
    ASSUME TypeOK, TypeOK', NEW c \in Conn, Conserved(c), SendRemote(c)
    PROVE  Conserved(c)'
<1>. DEFINE buffer == local_buffer[c]
            rest == request_handler(fromClient[c])
<1>0. buffer \in Seq(Message) /\ rest \in Seq(Message) /\ toRemote[c] \in Seq(Message)
  BY Streams
<1>1. PICK m \in 0..Len(buffer) :
         /\ toRemote'[c] = toRemote[c] \o Taken(buffer, m)
         /\ unsent'[c] = unsent[c] \cup Range(Left(buffer, m))
         /\ pc[c] = "sendRemote" /\ pc'[c] = "readRemote"
  <2>1. PICK m \in 1..Len(buffer) : Send(c, toRemote, buffer, m)
    BY DEF SendRemote
  <2>2. m \in 0..Len(buffer)
    BY <1>0, LenProperties
  <2>3. /\ toRemote'[c] = toRemote[c] \o Taken(buffer, m)
        /\ unsent'[c] = unsent[c] \cup Range(Left(buffer, m))
    BY <2>1 DEF Send, TypeOK
  <2>. QED BY <2>2, <2>3 DEF SendRemote, Goto, TypeOK
<1>2. /\ toClient' = toClient /\ sent' = sent /\ answered' = answered
      /\ fromClient' = fromClient /\ remote_buffer' = remote_buffer /\ fromRemote' = fromRemote
  BY DEF SendRemote, peers, buffers
<1>3. Responses(c)' = Responses(c)
  BY <1>1, <1>2 DEF Responses, response_handler
<1>4. /\ Taken(buffer, m) \in Seq(Message) /\ Left(buffer, m) \in Seq(Message)
      /\ Taken(buffer, m) \o Left(buffer, m) = buffer
  BY <1>0, Cut
<1>5. /\ Requests(c) = (toRemote[c] \o (Taken(buffer, m) \o Left(buffer, m))) \o rest
      /\ Requests(c)' = (toRemote[c] \o Taken(buffer, m)) \o rest
  <2>1. Requests(c) = (toRemote[c] \o buffer) \o rest
    BY <1>1 DEF Requests
  <2>2. Requests(c)' = (toRemote'[c] \o <<>>) \o rest
    BY <1>1, <1>2 DEF Requests, request_handler
  <2>3. toRemote'[c] \o <<>> = toRemote'[c]
    <3>1. toRemote'[c] \in Seq(Message)
      BY DEF TypeOK
    <3>. QED BY <3>1, ConcatEmptySeq
  <2>. QED BY <1>1, <1>4, <2>1, <2>2, <2>3
<1>6. /\ InOrder(Requests(c)) /\ InOrder(Responses(c))
      /\ Range(Requests(c)) = ({"request"} \X (1..sent[c])) \ unsent[c]
      /\ Range(Responses(c)) = ({"response"} \X (1..answered[c])) \ unsent[c]
  BY <1>1 DEF Conserved
<1>. HIDE DEF buffer, rest
<1>7. /\ InOrder(Requests(c)')
      /\ Range(Requests(c)') = Range(Requests(c)) \ Range(Left(buffer, m))
      /\ Range(Left(buffer, m)) \subseteq Range(Requests(c))
  <2>. DEFINE b1 == Taken(buffer, m)
              b2 == Left(buffer, m)
              a == toRemote[c]
  <2>1. /\ a \in Seq(Message) /\ b1 \in Seq(Message) /\ b2 \in Seq(Message) /\ rest \in Seq(Message)
        /\ InOrder((a \o (b1 \o b2)) \o rest)
    BY <1>0, <1>4, <1>5, <1>6
  <2>. HIDE DEF a, b1, b2
  <2>2. /\ InOrder((a \o b1) \o rest)
        /\ Range((a \o b1) \o rest) = Range((a \o (b1 \o b2)) \o rest) \ Range(b2)
        /\ Range(b2) \subseteq Range((a \o (b1 \o b2)) \o rest)
    BY <2>1, Dropping
  <2>. QED BY <1>5, <2>2 DEF a, b1, b2
<1>8. Range(Requests(c)') = ({"request"} \X (1..sent[c])) \ unsent'[c]
  BY <1>1, <1>6, <1>7
<1>9. Range(Responses(c)) = ({"response"} \X (1..answered[c])) \ unsent'[c]
  <2>1. \A y \in Range(Left(buffer, m)) : y \notin {"response"} \X (1..answered[c])
    BY <1>6, <1>7
  <2>. QED BY <1>1, <1>6, <2>1
<1>10. unsent'[c] \subseteq ({"request"} \X (1..sent[c])) \cup ({"response"} \X (1..answered[c]))
  BY <1>1, <1>6, <1>7 DEF Conserved
<1>. QED BY <1>2, <1>3, <1>6, <1>7, <1>8, <1>9, <1>10 DEF Conserved, InOrder, Range

\* What the remote host sends comes last of the responses.
LEMMA RemoteSendsConserves ==
    ASSUME TypeOK, TypeOK', NEW c \in Conn, Conserved(c), RemoteSends(c)
    PROVE  Conserved(c)'
<1>. DEFINE n == answered[c] + 1
            x == <<"response", n>>
<1>1. n \in Nat /\ x \in Message /\ answered[c] \in Nat /\ answered'[c] = n /\ sent'[c] = sent[c]
  BY DEF RemoteSends, TypeOK, Message
<1>2. /\ pc' = pc /\ unsent' = unsent /\ toClient' = toClient /\ remote_buffer' = remote_buffer
      /\ toRemote' = toRemote /\ local_buffer' = local_buffer /\ fromClient' = fromClient
  BY DEF RemoteSends, relayed, buffers
<1>3. fromRemote'[c] = Append(fromRemote[c], n) /\ fromRemote[c] \in Seq(Nat)
  BY DEF RemoteSends, TypeOK
<1>4. Responses(c)' = Responses(c) \o <<x>>
  <2>1. response_handler(fromRemote[c])' = response_handler(fromRemote[c]) \o <<x>>
    BY <1>1, <1>3, HandledAppend DEF response_handler
  <2>2. PICK front \in Seq(Message) :
           /\ Responses(c) = front \o response_handler(fromRemote[c])
           /\ Responses(c)' = front \o response_handler(fromRemote[c])'
    <3>1. toClient[c] \o remote_buffer[c] \in Seq(Message) /\ toClient[c] \in Seq(Message)
      BY Streams, ConcatProperties
    <3>2. CASE pc[c] \in {"sendFirst", "sendLocal"}
      BY <1>2, <3>1, <3>2 DEF Responses
    <3>3. CASE pc[c] \notin {"sendFirst", "sendLocal"}
      <4>1. toClient[c] \o <<>> = toClient[c]
        BY <3>1, ConcatEmptySeq
      <4>. QED BY <1>2, <3>1, <3>3, <4>1 DEF Responses
    <3>. QED BY <3>2, <3>3
  <2>3. response_handler(fromRemote[c]) \in Seq(Message)
    BY Streams
  <2>4. <<x>> \in Seq(Message)
    BY <1>1
  <2>. QED BY <2>1, <2>2, <2>3, <2>4, ConcatAssociative
<1>5. Requests(c)' = Requests(c)
  BY <1>2 DEF Requests, request_handler
<1>6. ASSUME pc[c] # "died"
      PROVE  /\ InOrder(Responses(c)')
             /\ Range(Responses(c)') = ({"response"} \X (1..n)) \ unsent[c]
  <2>1. \A y \in Range(Responses(c)) : y[2] < x[2]
    BY <1>1, <1>6 DEF Conserved
  <2>2. InOrder(Responses(c) \o <<x>>) /\ Range(Responses(c) \o <<x>>) = Range(Responses(c)) \cup {x}
    BY <1>1, <1>6, <2>1, Streams, Adding DEF Conserved
  <2>3. x \notin unsent[c]
    BY <1>1 DEF Conserved
  <2>4. {"response"} \X (1..n) = ({"response"} \X (1..answered[c])) \cup {x}
    BY <1>1
  <2>5. InOrder(Responses(c)') /\ Range(Responses(c)') = Range(Responses(c)) \cup {x}
    BY <1>4, <2>2
  <2>6. Range(Responses(c)) = ({"response"} \X (1..answered[c])) \ unsent[c]
    BY <1>6 DEF Conserved
  <2>. QED BY <2>3, <2>4, <2>5, <2>6
<1>7. unsent[c] \subseteq ({"response"} \X (1..n)) \cup ({"request"} \X (1..sent[c]))
  BY <1>1 DEF Conserved
<1>. QED BY <1>1, <1>2, <1>5, <1>6, <1>7 DEF Conserved, InOrder, Range

\* The same of what is read from the remote host, in both places.
LEMMA ReadRemoteUnmoved ==
    ASSUME TypeOK, TypeOK', NEW c \in Conn, ReceiveFirst(c) \/ ReadRemote(c)
    PROVE  Unmoved(c)
<1>1. PICK m \in 0..Len(fromRemote[c]) :
         /\ remote_buffer'[c] = response_handler(Taken(fromRemote[c], m))
         /\ fromRemote'[c] = Left(fromRemote[c], m)
         /\ pc[c] \in {"first", "readRemote"}
         /\ IF m > 0 THEN pc'[c] \in {"sendFirst", "sendLocal"} ELSE pc'[c] \in {"readLocal", "test"}
  BY DEF ReceiveFirst, ReadRemote, Received, Goto, TypeOK
<1>2. /\ toClient' = toClient /\ toRemote' = toRemote /\ unsent' = unsent
      /\ answered' = answered /\ sent' = sent
      /\ local_buffer' = local_buffer /\ fromClient' = fromClient
  BY DEF ReceiveFirst, ReadRemote, relayed
<1>3. Requests(c)' = Requests(c)
  BY <1>1, <1>2 DEF Requests, request_handler
<1>4. /\ fromRemote[c] \in Seq(Nat) /\ toClient[c] \in Seq(Message)
      /\ Responses(c) = toClient[c] \o response_handler(fromRemote[c])
      /\ fromRemote'[c] \in Seq(Nat) /\ remote_buffer'[c] \in Seq(Message)
      /\ response_handler(fromRemote'[c]) \in Seq(Message)
  BY <1>1, Streams, Handled DEF TypeOK
<1>5. /\ response_handler(Taken(fromRemote[c], m)) \o response_handler(Left(fromRemote[c], m))
           = response_handler(fromRemote[c])
      /\ m = 0 => Left(fromRemote[c], m) = fromRemote[c]
  BY <1>4, CutHandled
<1>6. CASE m > 0
  <2>1. Responses(c)' = (toClient[c] \o remote_buffer'[c]) \o response_handler(fromRemote'[c])
    BY <1>1, <1>2, <1>6 DEF Responses, response_handler
  <2>2. (toClient[c] \o remote_buffer'[c]) \o response_handler(fromRemote'[c])
          = toClient[c] \o (remote_buffer'[c] \o response_handler(fromRemote'[c]))
    BY <1>4, Associative
  <2>3. Responses(c)' = Responses(c)
    BY <1>1, <1>4, <1>5, <2>1, <2>2
  <2>. QED BY <1>1, <1>2, <1>3, <2>3 DEF Unmoved
<1>7. CASE m = 0
  <2>1. fromRemote'[c] = fromRemote[c]
    BY <1>1, <1>5, <1>7
  <2>2. Responses(c)' = Responses(c)
    <3>1. pc[c] \notin {"sendFirst", "sendLocal"} /\ pc'[c] \notin {"sendFirst", "sendLocal"}
      BY <1>1, <1>7
    <3>. QED BY <1>2, <2>1, <3>1 DEF Responses, response_handler
  <2>. QED BY <1>1, <1>2, <1>3, <2>2 DEF Unmoved
<1>. QED BY <1>4, <1>6, <1>7, LenProperties

\* The same of what is sent to the client, in both places.
LEMMA SendLocalConserves ==
    ASSUME TypeOK, TypeOK', NEW c \in Conn, Conserved(c), SendFirst(c) \/ SendLocal(c)
    PROVE  Conserved(c)'
<1>. DEFINE buffer == remote_buffer[c]
            rest == response_handler(fromRemote[c])
<1>0. buffer \in Seq(Message) /\ rest \in Seq(Message) /\ toClient[c] \in Seq(Message)
  BY Streams
<1>1. PICK m \in 0..Len(buffer) :
         /\ toClient'[c] = toClient[c] \o Taken(buffer, m)
         /\ unsent'[c] = unsent[c] \cup Range(Left(buffer, m))
         /\ pc[c] \in {"sendFirst", "sendLocal"} /\ pc'[c] \in {"readLocal", "test"}
  <2>1. PICK m \in 1..Len(buffer) : Send(c, toClient, buffer, m)
    BY DEF SendFirst, SendLocal
  <2>2. m \in 0..Len(buffer)
    BY <1>0, LenProperties
  <2>3. /\ toClient'[c] = toClient[c] \o Taken(buffer, m)
        /\ unsent'[c] = unsent[c] \cup Range(Left(buffer, m))
    BY <2>1 DEF Send, TypeOK
  <2>. QED BY <2>2, <2>3 DEF SendFirst, SendLocal, Goto, TypeOK
<1>2. /\ toRemote' = toRemote /\ answered' = answered /\ sent' = sent
      /\ fromRemote' = fromRemote /\ local_buffer' = local_buffer /\ fromClient' = fromClient
  BY DEF SendFirst, SendLocal, peers, buffers
<1>3. Requests(c)' = Requests(c)
  BY <1>1, <1>2 DEF Requests, request_handler
<1>4. /\ Taken(buffer, m) \in Seq(Message) /\ Left(buffer, m) \in Seq(Message)
      /\ Taken(buffer, m) \o Left(buffer, m) = buffer
  BY <1>0, Cut
<1>5. /\ Responses(c) = (toClient[c] \o (Taken(buffer, m) \o Left(buffer, m))) \o rest
      /\ Responses(c)' = (toClient[c] \o Taken(buffer, m)) \o rest
  <2>1. Responses(c) = (toClient[c] \o buffer) \o rest
    BY <1>1 DEF Responses
  <2>2. Responses(c)' = (toClient'[c] \o <<>>) \o rest
    BY <1>1, <1>2 DEF Responses, response_handler
  <2>3. toClient'[c] \o <<>> = toClient'[c]
    <3>1. toClient'[c] \in Seq(Message)
      BY DEF TypeOK
    <3>. QED BY <3>1, ConcatEmptySeq
  <2>. QED BY <1>1, <1>4, <2>1, <2>2, <2>3
<1>6. /\ InOrder(Responses(c)) /\ InOrder(Requests(c))
      /\ Range(Responses(c)) = ({"response"} \X (1..answered[c])) \ unsent[c]
      /\ Range(Requests(c)) = ({"request"} \X (1..sent[c])) \ unsent[c]
  BY <1>1 DEF Conserved
<1>. HIDE DEF buffer, rest
<1>7. /\ InOrder(Responses(c)')
      /\ Range(Responses(c)') = Range(Responses(c)) \ Range(Left(buffer, m))
      /\ Range(Left(buffer, m)) \subseteq Range(Responses(c))
  <2>. DEFINE b1 == Taken(buffer, m)
              b2 == Left(buffer, m)
              a == toClient[c]
  <2>1. /\ a \in Seq(Message) /\ b1 \in Seq(Message) /\ b2 \in Seq(Message) /\ rest \in Seq(Message)
        /\ InOrder((a \o (b1 \o b2)) \o rest)
    BY <1>0, <1>4, <1>5, <1>6
  <2>. HIDE DEF a, b1, b2
  <2>2. /\ InOrder((a \o b1) \o rest)
        /\ Range((a \o b1) \o rest) = Range((a \o (b1 \o b2)) \o rest) \ Range(b2)
        /\ Range(b2) \subseteq Range((a \o (b1 \o b2)) \o rest)
    BY <2>1, Dropping
  <2>. QED BY <1>5, <2>2 DEF a, b1, b2
<1>8. Range(Responses(c)') = ({"response"} \X (1..answered[c])) \ unsent'[c]
  BY <1>1, <1>6, <1>7
<1>9. Range(Requests(c)) = ({"request"} \X (1..sent[c])) \ unsent'[c]
  <2>1. \A y \in Range(Left(buffer, m)) : y \notin {"request"} \X (1..sent[c])
    BY <1>6, <1>7
  <2>. QED BY <1>1, <1>6, <2>1
<1>10. unsent'[c] \subseteq ({"response"} \X (1..answered[c])) \cup ({"request"} \X (1..sent[c]))
  BY <1>1, <1>6, <1>7 DEF Conserved
<1>. QED BY <1>2, <1>3, <1>6, <1>7, <1>8, <1>9, <1>10 DEF Conserved, InOrder, Range

\* A step of one connection touches no other one, but for the socket that
\* server_loop lets go.
LEMMA OthersUntouched ==
    ASSUME TypeOK, NEW c \in Conn, NEW e \in Conn, e # c,
           Peer(e) \/ Accept(e) \/ proxy_handler(e)
    PROVE  /\ toRemote'[c] = toRemote[c] /\ toClient'[c] = toClient[c]
           /\ fromClient'[c] = fromClient[c] /\ fromRemote'[c] = fromRemote[c]
           /\ local_buffer'[c] = local_buffer[c] /\ remote_buffer'[c] = remote_buffer[c]
           /\ sent'[c] = sent[c] /\ answered'[c] = answered[c] /\ unsent'[c] = unsent[c]
           /\ pc'[c] = pc[c]
<1>. USE DEF TypeOK, peers, relayed, buffers, sockets, Goto, Send
<1>1. CASE Connect(e) \/ ClientCloses(e) \/ RemoteCloses(e) \/ Accept(e)
  BY <1>1 DEF Connect, ClientCloses, RemoteCloses, Accept
<1>2. CASE ClientSends(e) \/ RemoteSends(e)
  BY <1>2 DEF ClientSends, RemoteSends
<1>3. CASE ReceiveFirst(e)
  BY <1>3 DEF ReceiveFirst
<1>4. CASE ReadRemote(e)
  BY <1>4 DEF ReadRemote
<1>5. CASE ReadLocal(e)
  BY <1>5 DEF ReadLocal
<1>6. CASE SendFirst(e)
  BY <1>6 DEF SendFirst
<1>7. CASE SendLocal(e)
  BY <1>7 DEF SendLocal
<1>8. CASE SendRemote(e)
  BY <1>8 DEF SendRemote
<1>9. CASE ConnectRemote(e) \/ Test(e) \/ CloseClient(e) \/ CloseRemote(e) \/ Die(e)
  BY <1>9 DEF ConnectRemote, Test, CloseClient, CloseRemote, Die
<1>. QED
  BY <1>1, <1>2, <1>3, <1>4, <1>5, <1>6, <1>7, <1>8, <1>9 DEF Peer, proxy_handler

\* Conservation on one connection, whichever of them makes the step.
LEMMA ConservedStep ==
    ASSUME TypeOK, [Next]_vars, NEW c \in Conn, Conserved(c)
    PROVE  Conserved(c)'
<1>1. TypeOK'
  BY TypeStep
<1>2. CASE ClientSends(c) \/ RemoteSends(c)
  BY <1>1, <1>2, ClientSendsConserves, RemoteSendsConserves
<1>3. CASE SendRemote(c) \/ SendFirst(c) \/ SendLocal(c)
  BY <1>1, <1>3, SendRemoteConserves, SendLocalConserves
<1>4. CASE ReadLocal(c) \/ ReceiveFirst(c) \/ ReadRemote(c)
  BY <1>1, <1>4, ReadLocalUnmoved, ReadRemoteUnmoved, UnmovedConserves
<1>5. CASE \/ Connect(c) \/ ClientCloses(c) \/ RemoteCloses(c) \/ Accept(c)
           \/ ConnectRemote(c) \/ Test(c) \/ CloseClient(c) \/ CloseRemote(c) \/ Die(c)
  <2>1. UNCHANGED <<sent, answered, fromClient, fromRemote, relayed, buffers>>
    BY <1>5 DEF Connect, ClientCloses, RemoteCloses, Accept, ConnectRemote, Test, CloseClient,
       CloseRemote, Die, peers
  <2>2. \/ pc'[c] = pc[c]
        \/ pc'[c] = "died"
        \/ pc[c] \notin Sending \cup {"died"} /\ pc'[c] \notin Sending
    BY <1>5 DEF Connect, ClientCloses, RemoteCloses, Accept, ConnectRemote, Test, CloseClient,
       CloseRemote, Die, Goto, TypeOK, Sending
  <2>. QED BY <2>1, <2>2, UntouchedUnmoved, UnmovedConserves DEF relayed, buffers
<1>6. ASSUME NEW e \in Conn, e # c, Peer(e) \/ Accept(e) \/ proxy_handler(e)
      PROVE  Conserved(c)'
  BY <1>6, OthersUntouched, UntouchedUnmoved, UnmovedConserves
<1>7. CASE UNCHANGED vars
  <2>1. UNCHANGED <<sent, answered, fromClient, fromRemote, relayed, buffers, pc>>
    BY <1>7 DEF vars, relayed, buffers
  <2>. QED BY <2>1, UntouchedUnmoved, UnmovedConserves DEF relayed, buffers
<1>. QED
  BY <1>2, <1>3, <1>4, <1>5, <1>6, <1>7 DEF Next, Peer, proxy_handler

-----------------------------------------------------------------------------
(* The theorems. *)

IInv ==
    /\ TypeOK
    /\ Sockets
    /\ \A c \in Conn : Conserved(c)

\* Nothing has been opened, sent or relayed at the start.
LEMMA InitIInv == Init => IInv
<1>. SUFFICES ASSUME Init PROVE IInv
  OBVIOUS
<1>1. TypeOK
  <2>1. <<>> \in Seq(Nat) /\ <<>> \in Seq(Message)
    OBVIOUS
  <2>. QED BY <2>1 DEF Init, TypeOK, Location
<1>2. Sockets
  BY DEF Init, Sockets, Reading, Sending
<1>3. ASSUME NEW c \in Conn PROVE Conserved(c)
  <2>1. /\ toRemote[c] = <<>> /\ toClient[c] = <<>> /\ pc[c] = "idle" /\ unsent[c] = {}
        /\ fromClient[c] = <<>> /\ fromRemote[c] = <<>> /\ sent[c] = 0 /\ answered[c] = 0
    BY DEF Init
  <2>2. request_handler(<<>>) = <<>> /\ response_handler(<<>>) = <<>>
    <3>1. <<>> \in Seq(Nat) /\ Len(<<>>) = 0
      OBVIOUS
    <3>2. /\ request_handler(<<>>) \in Seq(Message) /\ Len(request_handler(<<>>)) = 0
          /\ response_handler(<<>>) \in Seq(Message) /\ Len(response_handler(<<>>)) = 0
      BY <3>1, Handled
    <3>. QED BY <3>2, EmptySeq
  <2>3. Requests(c) = <<>> /\ Responses(c) = <<>>
    <3>1. <<>> \o <<>> = <<>>
      OBVIOUS
    <3>. QED BY <2>1, <2>2, <3>1 DEF Requests, Responses
  <2>. QED BY <2>1, <2>3 DEF Conserved, InOrder, Range
<1>. QED BY <1>1, <1>2, <1>3 DEF IInv

\* Every reachable state satisfies the inductive invariant.
THEOREM InvariantHolds == Spec => []IInv
<1>1. IInv /\ [Next]_vars => IInv'
  BY TypeStep, SocketsStep, ConservedStep DEF IInv
<1>. QED BY InitIInv, <1>1, PTL DEF Spec

\* The loop never uses a socket it has closed, and a thread that ends by itself
\* leaves neither open (lines 87-126).
THEOREM ClosedSocketsAreNotUsed == Spec => []SocketsInUseAreOpen
<1>1. IInv => SocketsInUseAreOpen
  BY DEF IInv, Sockets, SocketsInUseAreOpen
<1>. QED BY InvariantHolds, <1>1, PTL

\* However many threads have died, only the socket that server_loop refers to can
\* still be open (line 20).
THEOREM OneLeftHanging == Spec => []AtMostOneLeftHanging
<1>1. IInv => AtMostOneLeftHanging
  <2>. SUFFICES ASSUME IInv PROVE AtMostOneLeftHanging
    OBVIOUS
  <2>. DEFINE hanging == {c \in Conn : pc[c] = "died" /\ clientOpen[c]}
  <2>1. hanging = {} \/ hanging = {client_socket}
    BY DEF IInv, Sockets
  <2>2. Cardinality(hanging) = 0 \/ Cardinality(hanging) = 1
    BY <2>1, FS_EmptySet, FS_Singleton
  <2>. QED BY <2>2 DEF AtMostOneLeftHanging
<1>. QED BY InvariantHolds, <1>1, PTL

\* In both directions, for any number of connections and messages and for every way
\* of cutting the streams, a thread that has not raised loses nothing but what a
\* send has not taken, repeats nothing and reorders nothing (lines 71-118).
THEOREM NothingIsLostInside == Spec => []NothingLostInside
<1>1. IInv => NothingLostInside
  BY DEF IInv, Conserved, NothingLostInside
<1>. QED BY InvariantHolds, <1>1, PTL
=============================================================================
