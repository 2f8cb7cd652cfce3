------------------------------ MODULE MCProxy ------------------------------
(***************************************************************************)
(* Two connections.  On the first both peers send two messages, so that    *)
(* chunks of one and of two messages and a second round occur; the second  *)
(* one is there for the interleavings with accept and carries nothing from *)
(* its remote host.                                                        *)
(***************************************************************************)
EXTENDS Proxy, TLC

CONSTANTS c1, c2

MCRequests == c1 :> 2 @@ c2 :> 1
MCResponses == c1 :> 2 @@ c2 :> 0
=============================================================================
