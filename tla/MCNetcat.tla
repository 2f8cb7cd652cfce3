------------------------------ MODULE MCNetcat ------------------------------
(***************************************************************************)
(* Stdin may be empty, end without a linefeed, or hold a line that does or *)
(* does not fit one read of the server; so may the lines typed.  A reply   *)
(* of a command may be empty, short, or as long as the client's buffer.    *)
(* The other client's upload may be longer or shorter than the client's.   *)
(***************************************************************************)
EXTENDS Netcat

MCBuffers == {<<>>, <<"part">>, <<"line">>, <<"line", "part">>}
MCLines == {<<"line">>, <<"part", "line">>}
MCOtherUpload == <<"theirs", "theirs">>
=============================================================================
