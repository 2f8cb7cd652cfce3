------------------------------- MODULE Proxy -------------------------------
(***************************************************************************)
(* proxy.py: a TCP proxy.  server_loop() accepts connections and starts    *)
(* one thread each; proxy_handler(), the thread, connects to the remote    *)
(* host and relays: what it reads from the client goes through             *)
(* request_handler to the remote, what it then reads from the remote goes  *)
(* through response_handler to the client, until one of the two reads      *)
(* comes back empty.                                                       *)
(*                                                                         *)
(* receive_from and the two handlers are called but not defined in the     *)
(* repository.  receive_from is taken as the loop uses it: it returns some *)
(* of the data that is on its way, or nothing when it stops waiting or the *)
(* peer has closed.  That it stops waiting means that the sockets have a   *)
(* timeout, and with one a send may take only the first part of a buffer,  *)
(* or raise; the code looks at no result of send.  The handlers rewrite a  *)
(* buffer message by message.  Clients and remote hosts send at any time,  *)
(* close at any time, and a call on the socket of a peer that has closed   *)
(* may raise.  Nothing in the file catches an exception, so it ends the    *)
(* thread.                                                                 *)
(***************************************************************************)
EXTENDS Integers, FiniteSets, Sequences, Functions

CONSTANTS
    Conn,           \* the connections clients may open
    MaxRequests,    \* MaxRequests[c]: bound on the messages of the client of c
    MaxResponses,   \* MaxResponses[c]: bound on the messages of the remote of c
    NoConn          \* not a connection

ASSUME ConnAssumption ==
    /\ NoConn \notin Conn
    /\ MaxRequests \in [Conn -> Nat] /\ MaxResponses \in [Conn -> Nat]

VARIABLES
    receive_first,   \* the command-line option
    pc,              \* where the thread of each connection is
    sent,            \* messages the client has sent: 1..sent[c]
    answered,        \* messages the remote host has sent
    fromClient,      \* client's messages not read by the handler yet
    fromRemote,      \* remote's messages not read by the handler yet
    local_buffer,    \* the handler's two variables
    remote_buffer,
    toRemote,        \* what has been sent to the remote host
    toClient,        \* what has been sent to the client
    unsent,          \* what a send has not taken of its buffer
    clientGone,      \* the client has closed its end
    remoteGone,      \* the remote host has closed its end
    clientOpen,      \* client_socket is open
    remoteOpen,      \* remote_socket is open
    client_socket    \* the connection server_loop's variable refers to

peers == <<sent, answered, fromClient, fromRemote, clientGone, remoteGone>>
relayed == <<toRemote, toClient, unsent>>
buffers == <<local_buffer, remote_buffer>>
sockets == <<clientOpen, remoteOpen>>

vars == <<receive_first, pc, sent, answered, fromClient, fromRemote, local_buffer,
          remote_buffer, toRemote, toClient, unsent, clientGone, remoteGone, clientOpen,
          remoteOpen, client_socket>>

Reading == {"first", "readLocal", "readRemote"}
Sending == {"sendFirst", "sendRemote", "sendLocal"}
Ended == {"closed", "died"}
Location == {"idle", "queued", "connect", "test", "closing", "halfClosed"}
            \cup Reading \cup Sending \cup Ended

\* A handled message is tagged with the handler it went through.
request_handler(buffer) == [p \in DOMAIN buffer |-> <<"request", buffer[p]>>]
response_handler(buffer) == [p \in DOMAIN buffer |-> <<"response", buffer[p]>>]

Message == {"request", "response"} \X Nat

TypeOK ==
    /\ receive_first \in BOOLEAN
    /\ pc \in [Conn -> Location]
    /\ sent \in [Conn -> Nat] /\ answered \in [Conn -> Nat]
    /\ fromClient \in [Conn -> Seq(Nat)] /\ fromRemote \in [Conn -> Seq(Nat)]
    /\ local_buffer \in [Conn -> Seq(Message)] /\ remote_buffer \in [Conn -> Seq(Message)]
    /\ toRemote \in [Conn -> Seq(Message)] /\ toClient \in [Conn -> Seq(Message)]
    /\ unsent \in [Conn -> SUBSET Message]
    /\ clientGone \in [Conn -> BOOLEAN] /\ remoteGone \in [Conn -> BOOLEAN]
    /\ clientOpen \in [Conn -> BOOLEAN] /\ remoteOpen \in [Conn -> BOOLEAN]
    /\ client_socket \in Conn \cup {NoConn}

Init ==
    /\ receive_first \in BOOLEAN
    /\ pc = [c \in Conn |-> "idle"]
    /\ sent = [c \in Conn |-> 0] /\ answered = [c \in Conn |-> 0]
    /\ fromClient = [c \in Conn |-> <<>>] /\ fromRemote = [c \in Conn |-> <<>>]
    /\ local_buffer = [c \in Conn |-> <<>>] /\ remote_buffer = [c \in Conn |-> <<>>]
    /\ toRemote = [c \in Conn |-> <<>>] /\ toClient = [c \in Conn |-> <<>>]
    /\ unsent = [c \in Conn |-> {}]
    /\ clientGone = [c \in Conn |-> FALSE] /\ remoteGone = [c \in Conn |-> FALSE]
    /\ clientOpen = [c \in Conn |-> FALSE] /\ remoteOpen = [c \in Conn |-> FALSE]
    /\ client_socket = NoConn

Goto(c, location) == pc' = [pc EXCEPT ![c] = location]

-----------------------------------------------------------------------------
(* The peers. *)

Connect(c) ==
    /\ pc[c] = "idle"
    /\ Goto(c, "queued")
    /\ UNCHANGED <<receive_first, peers, relayed, buffers, sockets, client_socket>>

ClientSends(c) ==
    /\ pc[c] # "idle" /\ ~clientGone[c]
    /\ sent[c] < MaxRequests[c]
    /\ sent' = [sent EXCEPT ![c] = @ + 1]
    /\ fromClient' = [fromClient EXCEPT ![c] = Append(@, sent[c] + 1)]
    /\ UNCHANGED <<receive_first, pc, answered, fromRemote, clientGone, remoteGone, relayed,
                   buffers, sockets, client_socket>>

ClientCloses(c) ==
    /\ pc[c] # "idle" /\ ~clientGone[c]
    /\ clientGone' = [clientGone EXCEPT ![c] = TRUE]
    /\ UNCHANGED <<receive_first, pc, sent, answered, fromClient, fromRemote, remoteGone,
                   relayed, buffers, sockets, client_socket>>

RemoteSends(c) ==
    /\ remoteOpen[c] /\ ~remoteGone[c]
    /\ answered[c] < MaxResponses[c]
    /\ answered' = [answered EXCEPT ![c] = @ + 1]
    /\ fromRemote' = [fromRemote EXCEPT ![c] = Append(@, answered[c] + 1)]
    /\ UNCHANGED <<receive_first, pc, sent, fromClient, clientGone, remoteGone, relayed,
                   buffers, sockets, client_socket>>

RemoteCloses(c) ==
    /\ remoteOpen[c] /\ ~remoteGone[c]
    /\ remoteGone' = [remoteGone EXCEPT ![c] = TRUE]
    /\ UNCHANGED <<receive_first, pc, sent, answered, fromClient, fromRemote, clientGone,
                   relayed, buffers, sockets, client_socket>>

-----------------------------------------------------------------------------
(* server_loop(), lines 19-28. *)

\* Mutant of Released: nothing else than an explicit close closes a socket.
ReleasedNever == clientOpen

\* Line 20 rebinds client_socket: a socket no thread uses any more is closed
\* when the last reference to it goes.
Released ==
    IF client_socket # NoConn /\ pc[client_socket] = "died"
    THEN [clientOpen EXCEPT ![client_socket] = FALSE] ELSE clientOpen

Accept(c) ==
    /\ pc[c] = "queued"
    /\ clientOpen' = [Released EXCEPT ![c] = TRUE]
    /\ client_socket' = c
    /\ Goto(c, "connect")
    /\ UNCHANGED <<receive_first, peers, relayed, buffers, remoteOpen>>

-----------------------------------------------------------------------------
(* proxy_handler(), lines 64-126. *)

\* Mutant of Received: waits until there is something.
ReceivedBlocking(pending) == 1..Len(pending)

\* How much of the pending data a call of receive_from returns.
Received(pending) == 0..Len(pending)

Taken(pending, m) == SubSeq(pending, 1, m)
Left(pending, m) == SubSeq(pending, m + 1, Len(pending))

\* Lines 67-68.
ConnectRemote(c) ==
    /\ pc[c] = "connect"
    /\ remoteOpen' = [remoteOpen EXCEPT ![c] = TRUE]
    /\ Goto(c, IF receive_first THEN "first" ELSE "readLocal")
    /\ UNCHANGED <<receive_first, peers, relayed, buffers, clientOpen, client_socket>>

\* Lines 71-80.
ReceiveFirst(c) ==
    /\ pc[c] = "first"
    /\ \E m \in Received(fromRemote[c]) :
         /\ remote_buffer' =
              [remote_buffer EXCEPT ![c] = response_handler(Taken(fromRemote[c], m))]
         /\ fromRemote' = [fromRemote EXCEPT ![c] = Left(@, m)]
         /\ Goto(c, IF m > 0 THEN "sendFirst" ELSE "readLocal")
    /\ UNCHANGED <<receive_first, sent, answered, fromClient, clientGone, remoteGone, relayed,
                   local_buffer, sockets, client_socket>>

\* Send m of the messages of a buffer to a peer; nobody looks at the others again.
Send(c, to, buffer, m) ==
    /\ to' = [to EXCEPT ![c] = @ \o Taken(buffer, m)]
    /\ unsent' = [unsent EXCEPT ![c] = @ \cup Range(Left(buffer, m))]

\* Line 82.
SendFirst(c) ==
    /\ pc[c] = "sendFirst"
    /\ \E m \in 1..Len(remote_buffer[c]) : Send(c, toClient, remote_buffer[c], m)
    /\ Goto(c, "readLocal")
    /\ UNCHANGED <<receive_first, peers, toRemote, buffers, sockets, client_socket>>

\* Lines 90-98.
ReadLocal(c) ==
    /\ pc[c] = "readLocal"
    /\ \E m \in Received(fromClient[c]) :
         /\ local_buffer' =
              [local_buffer EXCEPT ![c] = request_handler(Taken(fromClient[c], m))]
         /\ fromClient' = [fromClient EXCEPT ![c] = Left(@, m)]
         /\ Goto(c, IF m > 0 THEN "sendRemote" ELSE "readRemote")
    /\ UNCHANGED <<receive_first, sent, answered, fromRemote, clientGone, remoteGone, relayed,
                   remote_buffer, sockets, client_socket>>

\* Line 101.
SendRemote(c) ==
    /\ pc[c] = "sendRemote"
    /\ \E m \in 1..Len(local_buffer[c]) : Send(c, toRemote, local_buffer[c], m)
    /\ Goto(c, "readRemote")
    /\ UNCHANGED <<receive_first, peers, toClient, buffers, sockets, client_socket>>

\* Lines 105-113.
ReadRemote(c) ==
    /\ pc[c] = "readRemote"
    /\ \E m \in Received(fromRemote[c]) :
         /\ remote_buffer' =
              [remote_buffer EXCEPT ![c] = response_handler(Taken(fromRemote[c], m))]
         /\ fromRemote' = [fromRemote EXCEPT ![c] = Left(@, m)]
         /\ Goto(c, IF m > 0 THEN "sendLocal" ELSE "test")
    /\ UNCHANGED <<receive_first, sent, answered, fromClient, clientGone, remoteGone, relayed,
                   local_buffer, sockets, client_socket>>

\* Mutant of SendLocal: the buffer may be sent once more.
SendLocalTwice(c) ==
    /\ pc[c] = "sendLocal"
    /\ \E m \in 1..Len(remote_buffer[c]) : Send(c, toClient, remote_buffer[c], m)
    /\ Goto(c, "test") \/ Goto(c, "sendLocal")
    /\ UNCHANGED <<receive_first, peers, toRemote, buffers, sockets, client_socket>>

\* Line 116.
SendLocal(c) ==
    /\ pc[c] = "sendLocal"
    /\ \E m \in 1..Len(remote_buffer[c]) : Send(c, toClient, remote_buffer[c], m)
    /\ Goto(c, "test")
    /\ UNCHANGED <<receive_first, peers, toRemote, buffers, sockets, client_socket>>

\* Line 121.
Test(c) ==
    /\ pc[c] = "test"
    /\ Goto(c, IF local_buffer[c] = <<>> \/ remote_buffer[c] = <<>>
               THEN "closing" ELSE "readLocal")
    /\ UNCHANGED <<receive_first, peers, relayed, buffers, sockets, client_socket>>

\* Line 122.
CloseClient(c) ==
    /\ pc[c] = "closing"
    /\ clientOpen' = [clientOpen EXCEPT ![c] = FALSE]
    /\ Goto(c, "halfClosed")
    /\ UNCHANGED <<receive_first, peers, relayed, buffers, remoteOpen, client_socket>>

\* Mutant of CloseRemote: no break after the close.
CloseRemoteNoBreak(c) ==
    /\ pc[c] = "halfClosed"
    /\ remoteOpen' = [remoteOpen EXCEPT ![c] = FALSE]
    /\ Goto(c, "readLocal")
    /\ UNCHANGED <<receive_first, peers, relayed, buffers, clientOpen, client_socket>>

\* Lines 123-126.
CloseRemote(c) ==
    /\ pc[c] = "halfClosed"
    /\ remoteOpen' = [remoteOpen EXCEPT ![c] = FALSE]
    /\ Goto(c, "closed")
    /\ UNCHANGED <<receive_first, peers, relayed, buffers, clientOpen, client_socket>>

\* The call the thread is in may raise: the remote refuses the connection, a send
\* has waited too long, or the peer of a read has closed.
MayRaise(c) ==
    \/ pc[c] \in {"connect"} \cup Sending
    \/ pc[c] \in {"first", "readRemote"} /\ remoteGone[c]
    \/ pc[c] = "readLocal" /\ clientGone[c]

\* The thread ends.  Its own references go, so the remote socket is closed, and
\* the client's is too unless server_loop still refers to it.
Die(c) ==
    /\ MayRaise(c)
    /\ remoteOpen' = [remoteOpen EXCEPT ![c] = FALSE]
    /\ clientOpen' = [clientOpen EXCEPT ![c] = client_socket = c]
    /\ Goto(c, "died")
    /\ UNCHANGED <<receive_first, peers, relayed, buffers, client_socket>>

Peer(c) ==
    Connect(c) \/ ClientSends(c) \/ ClientCloses(c) \/ RemoteSends(c) \/ RemoteCloses(c)

proxy_handler(c) ==
    \/ ConnectRemote(c)
    \/ ReceiveFirst(c)
    \/ SendFirst(c)
    \/ ReadLocal(c)
    \/ SendRemote(c)
    \/ ReadRemote(c)
    \/ SendLocal(c)
    \/ Test(c)
    \/ CloseClient(c)
    \/ CloseRemote(c)
    \/ Die(c)

Next == \E c \in Conn : Peer(c) \/ Accept(c) \/ proxy_handler(c)

Spec == Init /\ [][Next]_vars

\* accept() returns a waiting connection, receive_from always returns, and the
\* interpreter schedules every thread that can run.  Nothing is assumed of the
\* peers.
FairSpec ==
    /\ Spec
    /\ \A c \in Conn : WF_vars(Accept(c)) /\ WF_vars(proxy_handler(c))
-----------------------------------------------------------------------------
(* What must hold. *)

\* What went to one side, what the handler has read for it and not sent yet, and
\* what it has not read yet.
Requests(c) ==
    toRemote[c] \o (IF pc[c] = "sendRemote" THEN local_buffer[c] ELSE <<>>)
                \o request_handler(fromClient[c])

Responses(c) ==
    toClient[c] \o (IF pc[c] \in {"sendFirst", "sendLocal"} THEN remote_buffer[c] ELSE <<>>)
                \o response_handler(fromRemote[c])

InOrder(messages) ==
    \A p, r \in DOMAIN messages : p < r => messages[p][2] < messages[r][2]

\* Conservation, in both directions and for every way the chunks are cut: what
\* was relayed, what the handler holds and what it has not read are together the
\* messages sent, once each, in order, each relayed one through its handler, but
\* for those that a send did not take.  A thread that has not raised loses only
\* these and what it never read (lines 71-118).
NothingLostInside ==
    \A c \in Conn : pc[c] # "died" =>
        /\ InOrder(Requests(c)) /\ InOrder(Responses(c))
        /\ Range(Requests(c)) = ({"request"} \X (1..sent[c])) \ unsent[c]
        /\ Range(Responses(c)) = ({"response"} \X (1..answered[c])) \ unsent[c]

\* The loop never reads from or sends to a socket it has closed, and a thread
\* that ends by itself leaves neither open (lines 87-126).
SocketsInUseAreOpen ==
    \A c \in Conn :
        /\ pc[c] \in (Reading \cup Sending \cup {"test"}) => clientOpen[c] /\ remoteOpen[c]
        /\ pc[c] = "closed" => ~clientOpen[c] /\ ~remoteOpen[c]

\* A client whose thread has raised is left hanging on an open socket only while
\* it is the last one accepted: at most one of them, however many threads died.
AtMostOneLeftHanging ==
    Cardinality({c \in Conn : pc[c] = "died" /\ clientOpen[c]}) <= 1

\* Every connection made is accepted and its thread comes to an end, whatever
\* the peers do: the two reads per round cannot keep it going on no data.
EveryConnectionEnds == \A c \in Conn : pc[c] = "queued" ~> pc[c] \in Ended
=============================================================================
