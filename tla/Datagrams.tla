----------------------------- MODULE Datagrams -----------------------------
(***************************************************************************)
(* PythonNetworkProgramming/UDPclient.py and UDPserver.py: clients that    *)
(* send what their users type to the port of a server on the same host,    *)
(* and the server, which prints what it receives.  "quit" ends the client  *)
(* that sends it and the server, if it arrives.                            *)
(*                                                                         *)
(* The network is the loopback interface: a datagram is put into the       *)
(* receive buffer of the socket that is bound to the port, in the order of *)
(* sending, and is gone when there is no such socket or no room.  The two  *)
(* programs never know.                                                    *)
(*                                                                         *)
(* The server's slips are read as what they stand for: "data, addr" and    *)
(* "(addr, text)" with a comma, prinit as print.                           *)
(***************************************************************************)
EXTENDS Integers, Sequences

CONSTANTS
    Client,
    MaxSends,   \* bound on the datagrams of one client
    Capacity    \* datagrams the receive buffer holds

ASSUME CapacityAssumption == Capacity \in Nat /\ Capacity >= 1

\* "wide" stands for a text of more than 1024 bytes, which recvfrom cuts.
Data == {"text", "wide", "quit"}

VARIABLES
    cpc,       \* each client: "input", "finish" or "died"
    sends,     \* how many datagrams each client has sent
    socket,    \* the receive buffer
    spc,       \* the server: "start", "recvfrom", "print", "finish" or "died"
    text,      \* the datagram in its variables data, addr and text, if any
    printed,   \* the datagrams printed
    gone       \* those the network did not deliver

clients == <<cpc, sends>>

vars == <<cpc, sends, socket, spc, text, printed, gone>>

Init ==
    /\ cpc = [c \in Client |-> "input"]
    /\ sends = [c \in Client |-> 0]
    /\ socket = <<>>
    /\ spc = "start"
    /\ text = <<>>
    /\ printed = <<>>
    /\ gone = {}

\* The server's socket is bound: from line 7 to line 18.
Bound == spc \in {"recvfrom", "print"}

-----------------------------------------------------------------------------
(* UDPclient.py. *)

Deliver(datagram) ==
    IF Bound /\ Len(socket) < Capacity
    THEN socket' = Append(socket, datagram) /\ UNCHANGED gone
    ELSE gone' = gone \cup {datagram} /\ UNCHANGED socket

\* Mutant of Send: quit is looked for before anything is sent.
SendQuits(c) ==
    /\ cpc[c] = "input" /\ sends[c] < MaxSends
    /\ \/ /\ cpc' = [cpc EXCEPT ![c] = "finish"]
          /\ UNCHANGED <<sends, socket, gone>>
       \/ /\ sends' = [sends EXCEPT ![c] = @ + 1]
          /\ \E data \in Data \ {"quit"} :
                Deliver([addr |-> c, number |-> sends[c] + 1, data |-> data])
          /\ UNCHANGED cpc
    /\ UNCHANGED <<spc, text, printed>>

\* Lines 8-15.
Send(c) ==
    /\ cpc[c] = "input" /\ sends[c] < MaxSends
    /\ sends' = [sends EXCEPT ![c] = @ + 1]
    /\ \E data \in Data :
         /\ Deliver([addr |-> c, number |-> sends[c] + 1, data |-> data])
         /\ cpc' = [cpc EXCEPT ![c] = IF data = "quit" THEN "finish" ELSE "input"]
    /\ UNCHANGED <<spc, text, printed>>

\* Line 9 raises at the end of the input, and the user may interrupt.
ClientDies(c) ==
    /\ cpc[c] = "input"
    /\ cpc' = [cpc EXCEPT ![c] = "died"]
    /\ UNCHANGED <<sends, socket, spc, text, printed, gone>>

-----------------------------------------------------------------------------
(* UDPserver.py. *)

\* Lines 6-8; another program may have the port.
Bind ==
    /\ spc = "start"
    /\ spc' \in {"recvfrom", "died"}
    /\ UNCHANGED <<clients, socket, text, printed, gone>>

\* Mutant of Recvfrom: the datagram stays in the buffer.
RecvfromPeeks ==
    /\ spc = "recvfrom" /\ socket # <<>>
    /\ text' = Head(socket)
    /\ spc' = "print"
    /\ UNCHANGED <<clients, socket, printed, gone>>

\* Lines 11-12.  A text that was cut inside a character cannot be decoded; the
\* program ends, and its socket with it.
Recvfrom ==
    /\ spc = "recvfrom" /\ socket # <<>>
    /\ text' = Head(socket)
    /\ \/ socket' = Tail(socket) /\ spc' = "print"
       \/ Head(socket).data = "wide" /\ socket' = <<>> /\ spc' = "died"
    /\ UNCHANGED <<clients, printed, gone>>

\* Mutant of PrintText: a client's quit is only the end of that client.
PrintTextStays ==
    /\ spc = "print"
    /\ printed' = Append(printed, text)
    /\ spc' = "recvfrom"
    /\ UNCHANGED <<clients, socket, text, gone>>

\* Lines 13-18: what is still in the buffer when the socket is closed is lost.
PrintText ==
    /\ spc = "print"
    /\ printed' = Append(printed, text)
    /\ IF text.data = "quit"
       THEN spc' = "finish" /\ socket' = <<>>
       ELSE spc' = "recvfrom" /\ UNCHANGED socket
    /\ UNCHANGED <<clients, text, gone>>

server == Bind \/ Recvfrom \/ PrintText

Next == server \/ \E c \in Client : Send(c) \/ ClientDies(c)

Spec == Init /\ [][Next]_vars

\* The server runs on while there is something to receive.  Nothing is assumed of
\* the users.
FairSpec == Spec /\ WF_vars(server)
-----------------------------------------------------------------------------
(* What must hold. *)

\* What has reached the server and is not lost again.
Arrived == printed \o (IF spc = "print" THEN <<text>> ELSE <<>>) \o socket

Numbers(c, datagrams) == {d.number : d \in {e \in datagrams : e.addr = c}}

\* What a client sends is printed in the order of sending and never twice, and
\* while the server lives there is no gap in it but for the datagrams the network
\* has not delivered: none is lost between the buffer and print (server lines 10-15).
PrintedInOrder ==
    \A c \in Client :
        /\ \A p, r \in DOMAIN Arrived :
              p < r /\ Arrived[p].addr = c /\ Arrived[r].addr = c
                  => Arrived[p].number < Arrived[r].number
        /\ LET arrived == Numbers(c, {Arrived[p] : p \in DOMAIN Arrived})
               missing == Numbers(c, gone)
           IN /\ arrived \cap missing = {}
              /\ Bound => arrived \cup missing = 1..sends[c]

\* A server that waits after every client has quit has lost the last datagram of
\* each: one quit that arrives is enough, and it is the only thing that ends the
\* server (client lines 11-12, server lines 14-15).
WaitsOnlyAfterLoss ==
    spc = "recvfrom" /\ socket = <<>> /\ (\A c \in Client : cpc[c] = "finish")
        => \A c \in Client : [addr |-> c, number |-> sends[c], data |-> "quit"] \in gone

\* A quit in the receive buffer ends the server, whatever lies before it and
\* whatever the other clients keep sending.
QuitEndsServer ==
    (\E p \in DOMAIN socket : socket[p].data = "quit") ~> (spc \in {"finish", "died"})
=============================================================================
