-------------------------- MODULE DatagramsProofs --------------------------
(***************************************************************************)
(* Proofs about Datagrams for any set of clients, any number of sends and  *)
(* any capacity: nothing is lost, repeated or put out of order between the *)
(* receive buffer and print, and the server waits on after every client    *)
(* has quit only if all their quits were lost.                             *)
(***************************************************************************)
EXTENDS Datagrams, SequenceTheorems, TLAPS

-----------------------------------------------------------------------------
(* The inductive invariant. *)

Datagram == [addr : Client, number : Nat, data : Data]

TypeOK ==
    /\ cpc \in [Client -> {"input", "finish", "died"}]
    /\ sends \in [Client -> Nat]
    /\ socket \in Seq(Datagram)
    /\ spc \in {"start", "recvfrom", "print", "finish", "died"}
    /\ spc = "print" => text \in Datagram
    /\ printed \in Seq(Datagram)
    /\ gone \subseteq Datagram

\* The server has not ended.
Alive == spc \in {"start", "recvfrom", "print"}

Items == Range(Arrived)

\* The numbers of one client are increasing in what has arrived.
Ordered ==
    \A p, r \in DOMAIN Arrived :
        p < r /\ Arrived[p].addr = Arrived[r].addr => Arrived[p].number < Arrived[r].number

\* Every datagram sent has arrived or is gone, and not both.
Accounted ==
    /\ \A d \in Items \cup gone : d.number \in 1..sends[d.addr]
    /\ \A d \in Items, e \in gone : d.addr = e.addr => d.number # e.number
    /\ Alive => \A c \in Client : \A n \in 1..sends[c] :
                    \E d \in Items \cup gone : d.addr = c /\ d.number = n

\* A client that has quit has sent a quit last, and no quit has been printed by a
\* server that goes on.
Quits ==
    /\ Alive => \A c \in Client : cpc[c] = "finish" =>
                    [addr |-> c, number |-> sends[c], data |-> "quit"] \in Items \cup gone
    /\ Bound => \A p \in DOMAIN printed : printed[p].data # "quit"
    /\ spc = "start" => printed = <<>>

IInv ==
    /\ TypeOK
    /\ Ordered
    /\ Accounted
    /\ Quits
-----------------------------------------------------------------------------
(* Types. *)

\* Every action keeps every variable in its set.
LEMMA TypeStep ==
    ASSUME TypeOK, [Next]_vars
    PROVE  TypeOK'
<1>1. ASSUME NEW c \in Client, Send(c) PROVE TypeOK'
  <2>1. PICK data \in Data :
           /\ Deliver([addr |-> c, number |-> sends[c] + 1, data |-> data])
           /\ cpc' = [cpc EXCEPT ![c] = IF data = "quit" THEN "finish" ELSE "input"]
    BY <1>1 DEF Send
  <2>2. [addr |-> c, number |-> sends[c] + 1, data |-> data] \in Datagram
    BY DEF TypeOK, Datagram
  <2>. DEFINE d == [addr |-> c, number |-> sends[c] + 1, data |-> data]
  <2>3. socket' \in Seq(Datagram) /\ gone' \subseteq Datagram
    <3>1. Append(socket, d) \in Seq(Datagram)
      BY <2>2, AppendProperties DEF TypeOK
    <3>2. gone' \in {gone, gone \cup {d}} /\ socket' \in {socket, Append(socket, d)}
      BY <2>1 DEF Deliver
    <3>. QED BY <2>2, <3>1, <3>2 DEF TypeOK
  <2>4. cpc' \in [Client -> {"input", "finish", "died"}] /\ sends' \in [Client -> Nat]
    BY <1>1, <2>1 DEF Send, TypeOK
  <2>. QED BY <1>1, <2>3, <2>4 DEF Send, TypeOK
<1>2. ASSUME NEW c \in Client, ClientDies(c) PROVE TypeOK'
  BY <1>2 DEF ClientDies, TypeOK
<1>3. CASE Bind
  BY <1>3 DEF Bind, TypeOK, clients
<1>4. CASE Recvfrom
  <2>1. Head(socket) \in Datagram /\ Tail(socket) \in Seq(Datagram) /\ <<>> \in Seq(Datagram)
    BY <1>4, HeadTailProperties DEF Recvfrom, TypeOK
  <2>. QED BY <1>4, <2>1 DEF Recvfrom, TypeOK, clients
<1>5. CASE PrintText
  <2>1. Append(printed, text) \in Seq(Datagram) /\ <<>> \in Seq(Datagram)
    BY <1>5, AppendProperties DEF PrintText, TypeOK
  <2>. QED BY <1>5, <2>1 DEF PrintText, TypeOK, clients
<1>6. CASE UNCHANGED vars
  BY <1>6 DEF vars, TypeOK
<1>. QED BY <1>1, <1>2, <1>3, <1>4, <1>5, <1>6 DEF Next, server

-----------------------------------------------------------------------------
(* What a step does to the datagrams that have arrived. *)

\* The sequence that has arrived, in the three places it is in.
LEMMA ArrivedParts ==
    ASSUME TypeOK
    PROVE  /\ Arrived \in Seq(Datagram)
           /\ spc = "print" => Arrived = (printed \o <<text>>) \o socket
           /\ spc # "print" => Arrived = printed \o socket
<1>1. printed \o <<>> = printed
  BY ConcatEmptySeq DEF TypeOK
<1>2. spc = "print" => <<text>> \in Seq(Datagram)
  BY DEF TypeOK
<1>. QED BY <1>1, <1>2, ConcatProperties DEF Arrived, TypeOK

\* A send adds its datagram at the end, or to those that are gone.
LEMMA SendAdds ==
    ASSUME TypeOK, NEW d \in Datagram, Deliver(d), UNCHANGED <<spc, text, printed>>
    PROVE  \/ Arrived' = Append(Arrived, d) /\ gone' = gone
           \/ Arrived' = Arrived /\ gone' = gone \cup {d}
<1>1. CASE gone' = gone \cup {d} /\ socket' = socket
  BY <1>1 DEF Arrived
<1>2. CASE gone' = gone /\ socket' = Append(socket, d)
  <2>. DEFINE first == printed \o (IF spc = "print" THEN <<text>> ELSE <<>>)
  <2>1. (IF spc = "print" THEN <<text>> ELSE <<>>) \in Seq(Datagram)
    BY DEF TypeOK
  <2>2. first \in Seq(Datagram) /\ socket \in Seq(Datagram) /\ <<d>> \in Seq(Datagram)
    BY <2>1, ConcatProperties DEF TypeOK
  <2>3. Arrived = first \o socket /\ Arrived' = first \o Append(socket, d)
    BY <1>2 DEF Arrived
  <2>. HIDE DEF first
  <2>4. first \o (socket \o <<d>>) = (first \o socket) \o <<d>>
    <3>1. \A u \in Seq(Datagram) : first \o (socket \o u) = (first \o socket) \o u
      BY <2>2, ConcatAssociative
    <3>. QED BY <2>2, <3>1
  <2>5. first \o socket \in Seq(Datagram)
    BY <2>2, ConcatProperties
  <2>6. Append(socket, d) = socket \o <<d>> /\ Append(first \o socket, d) = (first \o socket) \o <<d>>
    BY <2>2, <2>5, AppendIsConcat
  <2>. QED BY <1>2, <2>3, <2>4, <2>6
<1>3. \/ gone' = gone \cup {d} /\ socket' = socket
      \/ gone' = gone /\ socket' = Append(socket, d)
  BY DEF Deliver
<1>. QED BY <1>1, <1>2, <1>3

\* The server only moves what has arrived from one place to the next, and drops
\* some of the end when it ends.
LEMMA ServerKeeps ==
    ASSUME TypeOK, server
    PROVE  \/ Arrived' = Arrived
           \/ ~Alive' /\ \E n \in 0..Len(Arrived) : Arrived' = SubSeq(Arrived, 1, n)
<1>0. TypeOK'
  BY TypeStep DEF Next
<1>1. CASE Bind
  BY <1>1 DEF Bind, Arrived
<1>2. CASE Recvfrom
  <2>1. socket # <<>> /\ spc = "recvfrom" /\ printed' = printed /\ text' = Head(socket)
    BY <1>2 DEF Recvfrom
  <2>2. /\ Head(socket) \in Datagram /\ Tail(socket) \in Seq(Datagram)
        /\ printed \in Seq(Datagram) /\ socket \in Seq(Datagram)
        /\ <<Head(socket)>> \in Seq(Datagram)
    BY <2>1, HeadTailProperties DEF TypeOK
  <2>3. Arrived = printed \o socket
    BY <2>1, ArrivedParts
  <2>4. CASE socket' = Tail(socket) /\ spc' = "print"
    <3>1. Arrived' = (printed \o <<Head(socket)>>) \o Tail(socket)
      BY <2>1, <2>4 DEF Arrived
    <3>2. socket = <<Head(socket)>> \o Tail(socket)
      <4>1. /\ SubSeq(socket, 1, Len(socket)) = <<socket[1]>> \o SubSeq(socket, 2, Len(socket))
            /\ SubSeq(socket, 1, Len(socket)) = socket
        BY <2>1, <2>2, EmptySeq, SubSeqRecursiveFirst, SubSeqFull
      <4>2. Tail(socket) = SubSeq(socket, 2, Len(socket)) /\ Head(socket) = socket[1]
        BY <2>1, <2>2, TailIsSubSeq
      <4>. QED BY <4>1, <4>2
    <3>3. (printed \o <<Head(socket)>>) \o Tail(socket) = printed \o (<<Head(socket)>> \o Tail(socket))
      BY <2>2, ConcatAssociative
    <3>. QED BY <2>3, <3>1, <3>2, <3>3
  <2>5. CASE socket' = <<>> /\ spc' = "died"
    <3>1. Arrived' = printed
      BY <2>1, <2>2, <2>5, ConcatEmptySeq DEF Arrived
    <3>2. Len(printed) \in 0..Len(Arrived) /\ SubSeq(Arrived, 1, Len(printed)) = printed
      <4>1. Len(Arrived) = Len(printed) + Len(socket) /\ Len(printed) \in Nat /\ Len(socket) \in Nat
        BY <2>2, <2>3, ConcatProperties
      <4>2. CASE printed = <<>>
        BY <4>1, <4>2, SubSeqEmpty
      <4>3. CASE printed # <<>>
        <5>1. Len(printed) \in 1..Len(printed) /\ 1 \in 1..Len(printed)
          BY <2>2, <4>3, EmptySeq
        <5>2. SubSeq(printed \o socket, 1, Len(printed)) = SubSeq(printed, 1, Len(printed))
          BY <2>2, <5>1, SubSeqOfConcat1
        <5>. QED BY <2>2, <2>3, <4>1, <5>2, SubSeqFull
      <4>. QED BY <4>2, <4>3
    <3>. QED BY <2>5, <3>1, <3>2 DEF Alive
  <2>. QED BY <1>2, <2>4, <2>5 DEF Recvfrom
<1>3. CASE PrintText
  <2>1. spc = "print" /\ printed' = Append(printed, text) /\ text' = text
    BY <1>3 DEF PrintText
  <2>2. /\ printed \in Seq(Datagram) /\ text \in Datagram /\ <<text>> \in Seq(Datagram)
        /\ socket \in Seq(Datagram) /\ printed' \in Seq(Datagram)
        /\ printed' = printed \o <<text>>
    BY <1>0, <2>1, AppendIsConcat DEF TypeOK
  <2>3. Arrived = printed' \o socket
    BY <2>1, <2>2, ArrivedParts
  <2>4. CASE spc' = "recvfrom" /\ socket' = socket
    <3>1. printed' \o <<>> = printed'
      BY <2>2, ConcatEmptySeq
    <3>. QED BY <2>3, <2>4, <3>1 DEF Arrived
  <2>5. CASE spc' = "finish" /\ socket' = <<>>
    <3>1. Arrived' = printed'
      BY <2>2, <2>5, ConcatEmptySeq DEF Arrived
    <3>2. Len(printed') \in 0..Len(Arrived) /\ SubSeq(Arrived, 1, Len(printed')) = printed'
      <4>1. /\ Len(Arrived) = Len(printed') + Len(socket)
            /\ Len(printed') \in Nat \ {0} /\ Len(socket) \in Nat
        BY <2>1, <2>2, <2>3, ConcatProperties, AppendProperties
      <4>2. SubSeq(printed' \o socket, 1, Len(printed')) = SubSeq(printed', 1, Len(printed'))
        <5>1. Len(printed') \in 1..Len(printed') /\ 1 \in 1..Len(printed')
          BY <4>1
        <5>. QED BY <2>2, <5>1, SubSeqOfConcat1
      <4>. QED BY <2>2, <2>3, <4>1, <4>2, SubSeqFull
    <3>. QED BY <2>5, <3>1, <3>2 DEF Alive
  <2>. QED BY <1>3, <2>4, <2>5 DEF PrintText
<1>. QED BY <1>1, <1>2, <1>3 DEF server

-----------------------------------------------------------------------------
(* Steps, as the rest of the proof sees them. *)

Sent(c, data) == [addr |-> c, number |-> sends[c] + 1, data |-> data]

\* Client c has sent data.
Sending(c, data) ==
    /\ sends' = [sends EXCEPT ![c] = @ + 1]
    /\ cpc' = [cpc EXCEPT ![c] = IF data = "quit" THEN "finish" ELSE "input"]
    /\ UNCHANGED <<spc, printed>>
    /\ \/ Arrived' = Append(Arrived, Sent(c, data)) /\ gone' = gone
       \/ Arrived' = Arrived /\ gone' = gone \cup {Sent(c, data)}

\* Nothing was sent, and nothing of what has arrived was lost by a server that
\* goes on.
Keeping ==
    /\ UNCHANGED <<sends, gone>>
    /\ \A c \in Client : cpc'[c] = "finish" => cpc[c] = "finish"
    /\ Alive' => Alive /\ Arrived' = Arrived
    /\ Arrived' = Arrived \/ \E n \in 0..Len(Arrived) : Arrived' = SubSeq(Arrived, 1, n)

\* Every step is one of the two.
LEMMA SendingOrKeeping ==
    ASSUME TypeOK, [Next]_vars
    PROVE  (\E c \in Client, data \in Data : Sending(c, data)) \/ Keeping
<1>1. ASSUME NEW c \in Client, Send(c) PROVE \E data \in Data : Sending(c, data)
  <2>1. PICK data \in Data :
           /\ Deliver(Sent(c, data))
           /\ cpc' = [cpc EXCEPT ![c] = IF data = "quit" THEN "finish" ELSE "input"]
    BY <1>1 DEF Send, Sent
  <2>2. Sent(c, data) \in Datagram
    BY DEF TypeOK, Datagram, Sent
  <2>3. UNCHANGED <<spc, text, printed>> /\ sends' = [sends EXCEPT ![c] = @ + 1]
    BY <1>1 DEF Send
  <2>. QED BY <2>1, <2>2, <2>3, SendAdds DEF Sending
<1>2. ASSUME NEW c \in Client, ClientDies(c) PROVE Keeping
  <2>1. UNCHANGED <<sends, socket, spc, text, printed, gone>>
    BY <1>2 DEF ClientDies
  <2>2. \A e \in Client : cpc'[e] = "finish" => cpc[e] = "finish"
    BY <1>2 DEF ClientDies, TypeOK
  <2>3. Arrived' = Arrived /\ (Alive' => Alive)
    BY <2>1 DEF Arrived, Alive
  <2>. QED BY <2>1, <2>2, <2>3 DEF Keeping
<1>3. CASE server
  <2>1. UNCHANGED <<sends, gone, cpc>> /\ Alive
    BY <1>3 DEF server, Bind, Recvfrom, PrintText, clients, Alive
  <2>. QED BY <1>3, <2>1, ServerKeeps DEF Keeping
<1>4. CASE UNCHANGED vars
  <2>1. UNCHANGED <<sends, gone, cpc>> /\ Arrived' = Arrived /\ (Alive' => Alive)
    BY <1>4 DEF vars, Arrived, Alive
  <2>. QED BY <2>1 DEF Keeping
<1>. QED BY <1>1, <1>2, <1>3, <1>4 DEF Next

\* The items of a longer and of a shorter sequence.
LEMMA ItemsOfAppend ==
    ASSUME TypeOK, NEW d \in Datagram
    PROVE  /\ DOMAIN Arrived = 1..Len(Arrived) /\ Len(Arrived) \in Nat
           /\ DOMAIN Append(Arrived, d) = 1..(Len(Arrived) + 1)
           /\ \A p \in 1..Len(Arrived) : Append(Arrived, d)[p] = Arrived[p]
           /\ Append(Arrived, d)[Len(Arrived) + 1] = d
           /\ Range(Append(Arrived, d)) = Items \cup {d}
<1>1. Arrived \in Seq(Datagram)
  BY ArrivedParts
<1>2. /\ Append(Arrived, d) \in Seq(Datagram)
      /\ Len(Append(Arrived, d)) = Len(Arrived) + 1
      /\ \A p \in 1..Len(Arrived) : Append(Arrived, d)[p] = Arrived[p]
      /\ Append(Arrived, d)[Len(Arrived) + 1] = d
  BY <1>1, AppendProperties
<1>3. DOMAIN Arrived = 1..Len(Arrived) /\ Len(Arrived) \in Nat
      /\ DOMAIN Append(Arrived, d) = 1..(Len(Arrived) + 1)
  BY <1>1, <1>2, LenProperties
<1>4. Range(Append(Arrived, d)) = Items \cup {d}
  <2>1. \A p \in 1..(Len(Arrived) + 1) : p \in 1..Len(Arrived) \/ p = Len(Arrived) + 1
    BY <1>3
  <2>. QED BY <1>2, <1>3, <2>1 DEF Range, Items
<1>. QED BY <1>2, <1>3, <1>4

LEMMA ItemsOfPrefix ==
    ASSUME TypeOK, NEW n \in 0..Len(Arrived)
    PROVE  /\ DOMAIN SubSeq(Arrived, 1, n) = 1..n
           /\ 1..n \subseteq DOMAIN Arrived
           /\ \A p \in 1..n : SubSeq(Arrived, 1, n)[p] = Arrived[p]
           /\ Range(SubSeq(Arrived, 1, n)) \subseteq Items
<1>1. Arrived \in Seq(Datagram) /\ DOMAIN Arrived = 1..Len(Arrived) /\ Len(Arrived) \in Nat
  BY ArrivedParts, LenProperties
<1>2. \A p \in 1..n : Arrived[p] \in Datagram
  BY <1>1, ElementOfSeq
<1>3. /\ SubSeq(Arrived, 1, n) \in Seq(Datagram)
      /\ Len(SubSeq(Arrived, 1, n)) = n
      /\ \A p \in 1..n : SubSeq(Arrived, 1, n)[p] = Arrived[p]
  BY <1>1, <1>2, SubSeqProperties
<1>4. DOMAIN SubSeq(Arrived, 1, n) = 1..n /\ 1..n \subseteq DOMAIN Arrived
  BY <1>1, <1>3, LenProperties
<1>. QED BY <1>3, <1>4 DEF Range, Items

-----------------------------------------------------------------------------
(* The three parts of the invariant. *)

\* A new datagram has a higher number than any other of its client.
LEMMA OrderedStep ==
    ASSUME TypeOK, Ordered, Accounted, [Next]_vars
    PROVE  Ordered'
<1>1. ASSUME NEW c \in Client, NEW data \in Data, Sending(c, data),
             Arrived' = Append(Arrived, Sent(c, data))
      PROVE  Ordered'
  <2>1. Sent(c, data) \in Datagram
    BY DEF TypeOK, Datagram, Sent
  <2>2. \A p \in 1..Len(Arrived) : Arrived[p].addr = c => Arrived[p].number < sends[c] + 1
    <3>1. \A p \in 1..Len(Arrived) : Arrived[p] \in Items
      BY <2>1, ItemsOfAppend DEF Items, Range
    <3>. QED BY <3>1 DEF Accounted, TypeOK
  <2>3. SUFFICES ASSUME NEW p \in 1..(Len(Arrived) + 1), NEW r \in 1..(Len(Arrived) + 1), p < r,
                        Arrived'[p].addr = Arrived'[r].addr
                 PROVE  Arrived'[p].number < Arrived'[r].number
    BY <1>1, <2>1, ItemsOfAppend DEF Ordered
  <2>4. p \in 1..Len(Arrived) /\ Arrived'[p] = Arrived[p]
    BY <1>1, <2>1, <2>3, ItemsOfAppend
  <2>5. CASE r \in 1..Len(Arrived)
    BY <1>1, <2>1, <2>3, <2>4, <2>5, ItemsOfAppend DEF Ordered
  <2>6. CASE r = Len(Arrived) + 1
    <3>1. Arrived'[r] = Sent(c, data)
      BY <1>1, <2>1, <2>6, ItemsOfAppend
    <3>2. Arrived[p].addr = c /\ Arrived'[r].number = sends[c] + 1
      BY <2>3, <2>4, <3>1 DEF Sent
    <3>. QED BY <2>2, <2>4, <3>2
  <2>. QED BY <2>1, <2>5, <2>6, ItemsOfAppend
<1>2. CASE Arrived' = Arrived
  BY <1>2 DEF Ordered
<1>3. ASSUME NEW n \in 0..Len(Arrived), Arrived' = SubSeq(Arrived, 1, n) PROVE Ordered'
  <2>1. /\ DOMAIN Arrived' = 1..n /\ 1..n \subseteq DOMAIN Arrived
        /\ \A p \in 1..n : Arrived'[p] = Arrived[p]
    BY <1>3, ItemsOfPrefix
  <2>. QED BY <2>1 DEF Ordered
<1>. QED BY <1>1, <1>2, <1>3, SendingOrKeeping DEF Sending, Keeping

\* A new datagram arrives or is gone; none that was there is lost while the
\* server lives.
LEMMA AccountedStep ==
    ASSUME TypeOK, Accounted, [Next]_vars
    PROVE  Accounted'
<1>1. ASSUME NEW c \in Client, NEW data \in Data, Sending(c, data) PROVE Accounted'
  <2>. DEFINE d == Sent(c, data)
  <2>1. d \in Datagram /\ d.addr = c /\ d.number = sends[c] + 1
    BY DEF TypeOK, Datagram, Sent
  <2>2. \/ Items' = Items \cup {d} /\ gone' = gone
        \/ Items' = Items /\ gone' = gone \cup {d}
    <3>1. Arrived' = Append(Arrived, d) => Items' = Items \cup {d}
      BY <2>1, ItemsOfAppend DEF Items
    <3>2. Arrived' = Arrived => Items' = Items
      BY DEF Items
    <3>. QED BY <1>1, <3>1, <3>2 DEF Sending
  <2>3. /\ sends \in [Client -> Nat] /\ sends' = [sends EXCEPT ![c] = @ + 1]
        /\ Items \subseteq Datagram /\ gone \subseteq Datagram
    BY <1>1, ArrivedParts, RangeOfSeq DEF Sending, TypeOK, Items
  <2>4. Alive' => Alive
    BY <1>1 DEF Sending, Alive
  <2>5. Items' \cup gone' = Items \cup gone \cup {d}
    BY <2>2
  <2>6. \A e \in Datagram : e.addr \in Client /\ e.number \in Nat
    BY DEF Datagram
  <2>. HIDE DEF d
  <2>7. \A e \in Items' \cup gone' : e.number \in 1..sends'[e.addr]
    <3>1. \A e \in Items \cup gone : e.number \in 1..sends'[e.addr]
      BY <2>3, <2>6 DEF Accounted
    <3>2. d.number \in 1..sends'[d.addr]
      BY <2>1, <2>3
    <3>. QED BY <2>5, <3>1, <3>2
  <2>8. \A e \in Items', f \in gone' : e.addr = f.addr => e.number # f.number
    <3>1. \A e \in Items \cup gone : e.addr = d.addr => e.number # d.number
      BY <2>1, <2>3, <2>6 DEF Accounted
    <3>. QED BY <2>2, <3>1 DEF Accounted
  <2>9. ASSUME Alive', NEW e \in Client, NEW n \in 1..sends'[e]
        PROVE  \E f \in Items' \cup gone' : f.addr = e /\ f.number = n
    <3>1. CASE n \in 1..sends[e]
      BY <2>4, <2>5, <2>9, <3>1 DEF Accounted
    <3>2. CASE e = c /\ n = sends[c] + 1
      BY <2>1, <2>5, <3>2
    <3>. QED BY <2>3, <3>1, <3>2
  <2>. QED BY <2>7, <2>8, <2>9 DEF Accounted
<1>2. CASE Keeping
  <2>1. UNCHANGED <<sends, gone>> /\ (Alive' => Alive /\ Items' = Items)
    BY <1>2 DEF Keeping, Items
  <2>2. Items' \subseteq Items
    <3>1. CASE Arrived' = Arrived
      BY <3>1 DEF Items
    <3>2. ASSUME NEW n \in 0..Len(Arrived), Arrived' = SubSeq(Arrived, 1, n)
          PROVE  Items' \subseteq Items
      BY <3>2, ItemsOfPrefix DEF Items
    <3>. QED BY <1>2, <3>1, <3>2 DEF Keeping
  <2>. QED BY <2>1, <2>2 DEF Accounted
<1>. QED BY <1>1, <1>2, SendingOrKeeping

\* A quit is the last datagram of its client, and printing one ends the server.
LEMMA QuitsStep ==
    ASSUME TypeOK, Quits, [Next]_vars
    PROVE  Quits'
<1>1. ASSUME Alive', NEW c \in Client, cpc'[c] = "finish"
      PROVE  [addr |-> c, number |-> sends'[c], data |-> "quit"] \in Items' \cup gone'
  <2>1. ASSUME NEW e \in Client, NEW data \in Data, Sending(e, data)
        PROVE  [addr |-> c, number |-> sends'[c], data |-> "quit"] \in Items' \cup gone'
    <3>1. Items' \cup gone' = Items \cup gone \cup {Sent(e, data)}
      <4>1. Sent(e, data) \in Datagram
        BY DEF TypeOK, Datagram, Sent
      <4>2. Arrived' = Append(Arrived, Sent(e, data)) => Items' = Items \cup {Sent(e, data)}
        BY <4>1, ItemsOfAppend DEF Items
      <4>3. Arrived' = Arrived => Items' = Items
        BY DEF Items
      <4>. QED BY <2>1, <4>2, <4>3 DEF Sending
    <3>2. /\ sends' = [sends EXCEPT ![e] = @ + 1]
          /\ cpc' = [cpc EXCEPT ![e] = IF data = "quit" THEN "finish" ELSE "input"]
          /\ spc' = spc
      BY <2>1 DEF Sending
    <3>3. CASE c = e
      <4>1. data = "quit" /\ sends'[c] = sends[c] + 1
        BY <1>1, <3>2, <3>3 DEF TypeOK
      <4>. QED BY <3>1, <3>3, <4>1 DEF Sent
    <3>4. CASE c # e
      <4>1. cpc[c] = "finish" /\ sends'[c] = sends[c] /\ Alive
        BY <1>1, <3>2, <3>4 DEF TypeOK, Alive
      <4>. QED BY <3>1, <4>1 DEF Quits
    <3>. QED BY <3>3, <3>4
  <2>2. CASE Keeping
    BY <1>1, <2>2 DEF Keeping, Quits, Items
  <2>. QED BY <2>1, <2>2, SendingOrKeeping
<1>2. /\ Bound' => \A p \in DOMAIN printed' : printed'[p].data # "quit"
      /\ spc' = "start" => printed' = <<>>
  <2>1. CASE PrintText
    <3>1. spc = "print" /\ printed' = Append(printed, text) /\ spc' # "start"
      BY <2>1 DEF PrintText
    <3>2. CASE Bound'
      <4>1. text.data # "quit"
        BY <2>1, <3>2 DEF PrintText, Bound
      <4>2. printed \in Seq(Datagram) /\ text \in Datagram
        BY <3>1 DEF TypeOK
      <4>3. /\ DOMAIN printed = 1..Len(printed) /\ Len(printed) \in Nat
            /\ DOMAIN printed' = 1..(Len(printed) + 1)
            /\ \A p \in 1..Len(printed) : printed'[p] = printed[p]
            /\ printed'[Len(printed) + 1] = text
        BY <3>1, <4>2, AppendProperties, LenProperties
      <4>4. \A p \in 1..Len(printed) : printed[p].data # "quit"
        BY <3>1, <4>3 DEF Quits, Bound
      <4>5. \A p \in 1..(Len(printed) + 1) : p \in 1..Len(printed) \/ p = Len(printed) + 1
        BY <4>3
      <4>. QED BY <3>1, <4>1, <4>3, <4>4, <4>5
    <3>. QED BY <3>1, <3>2
  <2>2. CASE Bind
    <3>1. printed' = <<>> /\ spc' # "start"
      BY <2>2 DEF Bind, Quits
    <3>. QED BY <3>1
  <2>3. CASE Recvfrom
    BY <2>3 DEF Recvfrom, Quits, Bound
  <2>4. CASE (\E c \in Client : Send(c) \/ ClientDies(c)) \/ UNCHANGED vars
    <3>1. UNCHANGED <<spc, printed>>
      BY <2>4 DEF Send, ClientDies, vars
    <3>. QED BY <3>1 DEF Quits, Bound
  <2>. QED BY <2>1, <2>2, <2>3, <2>4 DEF Next, server
<1>. QED BY <1>1, <1>2 DEF Quits

-----------------------------------------------------------------------------
(* The theorems. *)

\* Nothing has been sent at the start.
LEMMA InitIInv == Init => IInv
<1>. SUFFICES ASSUME Init PROVE IInv
  OBVIOUS
<1>1. TypeOK
  BY DEF Init, TypeOK
<1>2. Arrived = <<>> /\ Items = {}
  <2>1. spc # "print" /\ printed = <<>> /\ socket = <<>>
    BY DEF Init
  <2>2. printed \o socket = <<>>
    BY <2>1, ConcatEmptySeq DEF TypeOK
  <2>3. Arrived = <<>>
    BY <1>1, <2>1, <2>2, ArrivedParts
  <2>. QED BY <2>3 DEF Items, Range
<1>3. Ordered
  BY <1>2 DEF Ordered
<1>4. Accounted
  BY <1>2 DEF Init, Accounted
<1>5. Quits
  BY DEF Init, Quits, Bound
<1>. QED BY <1>1, <1>3, <1>4, <1>5 DEF IInv

\* Every reachable state satisfies the inductive invariant.
THEOREM InvariantHolds == Spec => []IInv
<1>1. IInv /\ [Next]_vars => IInv'
  BY TypeStep, OrderedStep, AccountedStep, QuitsStep DEF IInv
<1>. QED BY InitIInv, <1>1, PTL DEF Spec

\* Whatever the capacity, the clients and the moment at which the server starts or
\* ends, each client's datagrams arrive in order, once, and without a gap but for
\* those that are gone (client lines 8-15, server lines 10-15).
THEOREM ArrivesInOrder == Spec => []PrintedInOrder
<1>1. IInv => PrintedInOrder
  <2>. SUFFICES ASSUME IInv, NEW c \in Client
                PROVE  /\ \A p, r \in DOMAIN Arrived :
                             p < r /\ Arrived[p].addr = c /\ Arrived[r].addr = c
                                 => Arrived[p].number < Arrived[r].number
                       /\ Numbers(c, Items) \cap Numbers(c, gone) = {}
                       /\ Bound => Numbers(c, Items) \cup Numbers(c, gone) = 1..sends[c]
    BY DEF PrintedInOrder, Items, Range
  <2>1. \A p, r \in DOMAIN Arrived :
            p < r /\ Arrived[p].addr = c /\ Arrived[r].addr = c
                => Arrived[p].number < Arrived[r].number
    BY DEF IInv, Ordered
  <2>2. Numbers(c, Items) \cap Numbers(c, gone) = {}
    BY DEF IInv, Accounted, Numbers
  <2>3. ASSUME Bound PROVE Numbers(c, Items) \cup Numbers(c, gone) = 1..sends[c]
    <3>1. Alive
      BY <2>3 DEF Bound, Alive
    <3>2. Numbers(c, Items) \cup Numbers(c, gone) \subseteq 1..sends[c]
      BY DEF IInv, Accounted, Numbers
    <3>3. 1..sends[c] \subseteq Numbers(c, Items) \cup Numbers(c, gone)
      BY <3>1 DEF IInv, Accounted, Numbers
    <3>. QED BY <3>2, <3>3
  <2>. QED BY <2>1, <2>2, <2>3
<1>. QED BY InvariantHolds, <1>1, PTL

\* A server that waits with an empty buffer after every client has quit has lost
\* every quit (client lines 11-12, server lines 14-15).
THEOREM WaitingMeansLoss == Spec => []WaitsOnlyAfterLoss
<1>1. IInv => WaitsOnlyAfterLoss
  <2>. SUFFICES ASSUME IInv, spc = "recvfrom", socket = <<>>,
                       NEW c \in Client, cpc[c] = "finish"
                PROVE  [addr |-> c, number |-> sends[c], data |-> "quit"] \in gone
    BY DEF WaitsOnlyAfterLoss
  <2>1. [addr |-> c, number |-> sends[c], data |-> "quit"] \in Items \cup gone
    BY DEF IInv, Quits, Alive
  <2>2. Arrived = printed
    <3>1. printed \o <<>> = printed
      BY ConcatEmptySeq DEF IInv, TypeOK
    <3>. QED BY <3>1, ArrivedParts DEF IInv
  <2>3. \A d \in Items : d.data # "quit"
    BY <2>2 DEF IInv, Quits, Bound, Items, Range
  <2>. QED BY <2>1, <2>3
<1>. QED BY InvariantHolds, <1>1, PTL
=============================================================================
