---------------------------- MODULE MCDatagrams ----------------------------
(***************************************************************************)
(* Two clients that send up to three datagrams each, to a receive buffer   *)
(* that holds two: the buffer overflows, the server starts late, is ended  *)
(* by either client while the other one sends, or by a text it cannot      *)
(* decode.                                                                 *)
(***************************************************************************)
EXTENDS Datagrams
=============================================================================
