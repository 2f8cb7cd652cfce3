------------------------------ MODULE Netcat ------------------------------
(***************************************************************************)
(* 2016-4-9-Netcat.py: the two ends of one connection of the tool.         *)
(*                                                                         *)
(* client_sender() sends what it read from stdin and then alternates: it   *)
(* receives until a read comes back short, prints, reads a line from the   *)
(* user and sends it.  client_handler(), a thread of server_loop(), takes  *)
(* an upload, runs a command given on the command line, and runs commands  *)
(* it receives, as its options say.                                        *)
(*                                                                         *)
(* A stream is a sequence of units; recv returns some of the units that    *)
(* have arrived, at most ServerChunk (1024 bytes) or ClientChunk (4096     *)
(* bytes) of them, blocks when there are none, and returns nothing at the  *)
(* end of the stream.  A unit of text either contains a linefeed ("line")  *)
(* or not ("part").  What a command prints is a number of units.           *)
(*                                                                         *)
(* The server starts a thread for every client, and all of them write      *)
(* their uploads to the same file.  One more thread is there, without its  *)
(* connection: it has received OtherUpload and is about to save it.  What  *)
(* a thread writes starts at the beginning of the file and lies over what  *)
(* another one has written since both opened it.                           *)
(*                                                                         *)
(* The file's indentation is read as two functions at the outer level, and *)
(* its misspelt names as the names they stand for.  Lines 230-239 stand    *)
(* inside the loop of line 230.                                            *)
(***************************************************************************)
EXTENDS Integers, Sequences

CONSTANTS
    ServerChunk,   \* units of one recv(1024)
    ClientChunk,   \* units of one recv(4096)
    Buffers,       \* what stdin may hold when the client starts
    Lines,         \* the lines a user may type
    MaxLines,      \* bound on the number of lines typed
    MaxOutput,     \* bound on the units a command prints
    OtherUpload    \* what another client has uploaded

ASSUME ChunkAssumption ==
    /\ ServerChunk \in Nat /\ ServerChunk >= 1
    /\ ClientChunk \in Nat /\ ClientChunk >= 2

Text == {"part", "line"}

ASSUME BoundsAssumption == MaxLines \in Nat /\ MaxOutput \in Nat

ASSUME TextAssumption ==
    /\ Buffers \subseteq Seq(Text)
    /\ OtherUpload \in Seq({"theirs"})
    /\ \A l \in Lines : l \in Seq(Text) /\ l # <<>> /\ l[Len(l)] = "line"

VARIABLES
    upload, execute, command,   \* the server's options
    toServer, toClient,         \* the two directions of the connection
    cpc,                        \* the client: "send", "recv", "input" or "exit"
    buffer,                     \* what it sends next
    recv_len,                   \* units of its last recv, 1 before the first one
    typed,                      \* lines typed
    spc,                        \* where the server thread is
    file_buffer,                \* the upload so far
    file,                       \* the contents of the file
    saved,                      \* the thread has reported its upload as saved
    other,                      \* the other thread: "open", "write" or "done"
    overlap,                    \* the two have had the file open at a time
    cmd_buffer,                 \* the command being received
    released,                   \* the server's socket is closed
    stream                      \* everything the client has sent

options == <<upload, execute, command>>
client == <<cpc, buffer, recv_len, typed, stream>>
disk == <<file, saved, overlap>>
files == <<file_buffer, disk, other>>

vars == <<upload, execute, command, toServer, toClient, cpc, buffer, recv_len, typed, spc,
          file_buffer, file, saved, other, overlap, cmd_buffer, released, stream>>

Step == {"start", "upload", "open", "write", "execute", "prompt", "recv", "run", "done"}

Reply == {"ack", "nak", "output", "prompt"}

TypeOK ==
    /\ upload \in BOOLEAN /\ execute \in BOOLEAN /\ command \in BOOLEAN
    /\ toServer \in Seq(Text) /\ toClient \in Seq(Reply)
    /\ cpc \in {"send", "recv", "input", "exit"}
    /\ buffer \in Seq(Text)
    /\ recv_len \in 0..ClientChunk
    /\ typed \in 0..MaxLines
    /\ spc \in Step
    /\ file_buffer \in Seq(Text)
    /\ file \in Seq(Text \cup {"theirs"})
    /\ saved \in BOOLEAN /\ overlap \in BOOLEAN
    /\ other \in {"open", "write", "done"}
    /\ cmd_buffer \in Seq(Text)
    /\ released \in BOOLEAN
    /\ stream \in Seq(Text)

Init ==
    /\ upload \in BOOLEAN /\ execute \in BOOLEAN /\ command \in BOOLEAN
    /\ toServer = <<>> /\ toClient = <<>>
    /\ cpc = "send"
    /\ buffer \in Buffers
    /\ recv_len = 1
    /\ typed = 0
    /\ spc = "start"
    /\ file_buffer = <<>> /\ file = <<>> /\ saved = FALSE /\ overlap = FALSE
    /\ other = IF upload THEN "open" ELSE "done"
    /\ cmd_buffer = <<>>
    /\ released = FALSE
    /\ stream = <<>>

\* The lengths a recv of at most chunk units may return from what has arrived.
Reads(pending, chunk) == 1..(IF Len(pending) < chunk THEN Len(pending) ELSE chunk)

Taken(pending, m) == SubSeq(pending, 1, m)
Left(pending, m) == SubSeq(pending, m + 1, Len(pending))

-----------------------------------------------------------------------------
(* client_sender(), lines 100-140. *)

\* Lines 108-115 and 130-133.  A closed server gets nothing.
ClientSend ==
    /\ cpc = "send"
    /\ toServer' = IF released THEN toServer ELSE toServer \o buffer
    /\ stream' = IF released THEN stream ELSE stream \o buffer
    /\ buffer' = <<>>
    /\ recv_len' = 1
    /\ cpc' = "recv"
    /\ UNCHANGED <<options, toClient, typed, spc, files, cmd_buffer, released>>

\* Mutant of ClientRecv: an empty read is repeated like a full one.
ClientRecvInsists ==
    /\ cpc = "recv"
    /\ \/ \E m \in Reads(toClient, ClientChunk) :
            recv_len' = m /\ toClient' = Left(toClient, m)
       \/ toClient = <<>> /\ released /\ recv_len' = 0 /\ UNCHANGED toClient
    /\ cpc' = IF recv_len' \in 1..(ClientChunk - 1) THEN "input" ELSE "recv"
    /\ UNCHANGED <<options, toServer, buffer, typed, spc, files, cmd_buffer, released, stream>>

\* Lines 119-124: a full read is followed by another one.
ClientRecv ==
    /\ cpc = "recv"
    /\ \/ \E m \in Reads(toClient, ClientChunk) :
            recv_len' = m /\ toClient' = Left(toClient, m)
       \/ toClient = <<>> /\ released /\ recv_len' = 0 /\ UNCHANGED toClient
    /\ cpc' = IF recv_len' < ClientChunk THEN "input" ELSE "recv"
    /\ UNCHANGED <<options, toServer, buffer, typed, spc, files, cmd_buffer, released, stream>>

\* Lines 129-130.
Type ==
    /\ cpc = "input"
    /\ typed < MaxLines
    /\ typed' = typed + 1
    /\ buffer' \in Lines
    /\ cpc' = "send"
    /\ UNCHANGED <<options, toServer, toClient, recv_len, spc, files, cmd_buffer, released,
                   stream>>

\* Lines 135-140, which catch everything: raw_input raises at the end of stdin, a
\* call on the socket of a closed server may raise, and the user may interrupt
\* the client anywhere.
ClientExit ==
    /\ cpc # "exit"
    /\ cpc' = "exit"
    /\ UNCHANGED <<options, toServer, toClient, buffer, recv_len, typed, spc, files,
                   cmd_buffer, released, stream>>

-----------------------------------------------------------------------------
(* client_handler(), lines 181-239, started by server_loop() at line 163. *)

\* Where the thread goes from each point, as the options say.
AfterExecute == IF command THEN "prompt" ELSE "done"
AfterUpload == IF execute THEN "execute" ELSE AfterExecute

Start ==
    /\ spc = "start"
    /\ spc' = IF upload THEN "upload" ELSE AfterUpload
    /\ UNCHANGED <<options, toServer, toClient, client, files, cmd_buffer, released>>

\* Mutant of RecvUpload: a short read ends the upload, as it does in the client.
RecvUploadShort ==
    /\ spc = "upload"
    /\ \E m \in Reads(toServer, ServerChunk) :
         /\ file_buffer' = file_buffer \o Taken(toServer, m)
         /\ toServer' = Left(toServer, m)
         /\ spc' = IF m < ServerChunk THEN "open" ELSE "upload"
    /\ UNCHANGED <<options, toClient, client, disk, other, cmd_buffer, released>>

\* Lines 193-199: only the end of the stream ends the loop.
RecvUpload ==
    /\ spc = "upload"
    /\ \/ \E m \in Reads(toServer, ServerChunk) :
            /\ file_buffer' = file_buffer \o Taken(toServer, m)
            /\ toServer' = Left(toServer, m)
            /\ UNCHANGED spc
       \/ /\ toServer = <<>> /\ cpc = "exit"
          /\ spc' = "open"
          /\ UNCHANGED <<file_buffer, toServer>>
    /\ UNCHANGED <<options, toClient, client, disk, other, cmd_buffer, released>>

\* A send of the server: what goes to a client that has exited is lost.
Send(units) == toClient' = IF cpc = "exit" THEN toClient ELSE toClient \o units

\* Mutant of OpenFile: what the file holds is kept.
OpenFileKept == UNCHANGED file /\ overlap' = (overlap \/ spc = "write" \/ other = "write")

\* Opening the file empties it.
OpenFile == file' = <<>> /\ overlap' = (overlap \/ spc = "write" \/ other = "write")

\* What a thread that opened the file before writes into it.
WriteFile(text) ==
    /\ file' = text \o SubSeq(file, Len(text) + 1, Len(file))
    /\ UNCHANGED overlap

\* Lines 202-203, and line 210 when the file cannot be opened.  The client has
\* exited by now, so a send may raise; here it ends the thread.
Open ==
    /\ spc = "open"
    /\ \/ OpenFile /\ spc' = "write" /\ UNCHANGED toClient
       \/ Send(<<"nak">>) /\ spc' \in {AfterUpload, "done"} /\ UNCHANGED <<file, overlap>>
    /\ UNCHANGED <<options, toServer, client, file_buffer, saved, other, cmd_buffer, released>>

\* Lines 204-210; a write that fails may have written a part, and where only the
\* send of line 208 fails, all of it.
Write ==
    /\ spc = "write"
    /\ \/ /\ WriteFile(file_buffer) /\ saved' = TRUE
          /\ Send(<<"ack">>)
          /\ spc' = AfterUpload
       \/ /\ \E m \in 0..Len(file_buffer) : WriteFile(Taken(file_buffer, m))
          /\ UNCHANGED saved
          /\ Send(<<"nak">>)
          /\ spc' \in {AfterUpload, "done"}
    /\ UNCHANGED <<options, toServer, client, file_buffer, other, cmd_buffer, released>>

\* The same lines in the other thread, whose file opens and takes all.
OtherSaves ==
    /\ \/ other = "open" /\ OpenFile /\ other' = "write"
       \/ other = "write" /\ WriteFile(OtherUpload) /\ other' = "done"
    /\ UNCHANGED <<options, toServer, toClient, client, spc, file_buffer, saved, cmd_buffer,
                   released>>

\* The output of a command; a command may print nothing.
Outputs == {[p \in 1..m |-> "output"] : m \in 0..MaxOutput}

\* Lines 214-219.
Execute ==
    /\ spc = "execute"
    /\ \E output \in Outputs : Send(output)
    /\ spc' = AfterExecute
    /\ UNCHANGED <<options, toServer, client, files, cmd_buffer, released>>

\* Mutant of Prompt: the prompt is left out.
PromptSilent ==
    /\ spc = "prompt"
    /\ cmd_buffer' = <<>>
    /\ spc' = "recv"
    /\ UNCHANGED <<options, toServer, toClient, client, files, released>>

\* Lines 226-229.
Prompt ==
    /\ spc = "prompt"
    /\ Send(<<"prompt">>)
    /\ cmd_buffer' = <<>>
    /\ spc' = "recv"
    /\ UNCHANGED <<options, toServer, client, files, released>>

\* Line 231; at the end of the stream recv returns nothing, again and again.
RecvCommand ==
    /\ spc = "recv"
    /\ \/ \E m \in Reads(toServer, ServerChunk) :
            /\ cmd_buffer' = cmd_buffer \o Taken(toServer, m)
            /\ toServer' = Left(toServer, m)
       \/ toServer = <<>> /\ cpc = "exit" /\ UNCHANGED <<cmd_buffer, toServer>>
    /\ spc' = "run"
    /\ UNCHANGED <<options, toClient, client, files, released>>

HasLinefeed(text) == \E p \in DOMAIN text : text[p] = "line"

\* Lines 235-239 and the condition of line 230.
Run ==
    /\ spc = "run"
    /\ \E output \in Outputs : Send(output)
    /\ spc' = IF HasLinefeed(cmd_buffer) THEN "prompt" ELSE "recv"
    /\ UNCHANGED <<options, toServer, client, files, cmd_buffer, released>>

\* A call on the socket of a client that has exited may raise, which ends the
\* thread.
Die ==
    /\ cpc = "exit"
    /\ spc \in {"upload", "execute", "prompt", "recv", "run"}
    /\ spc' = "done"
    /\ UNCHANGED <<options, toServer, toClient, client, files, cmd_buffer, released>>

\* Line 159: server_loop's variable keeps the socket open after the thread has
\* ended, until the next client is accepted.
Release ==
    /\ spc = "done" /\ ~released
    /\ released' = TRUE
    /\ UNCHANGED <<options, toServer, toClient, client, spc, files, cmd_buffer>>

client_sender == ClientSend \/ ClientRecv
client_handler ==
    Start \/ RecvUpload \/ Open \/ Write \/ Execute \/ Prompt \/ RecvCommand \/ Run

Next == client_sender \/ Type \/ ClientExit \/ client_handler \/ OtherSaves \/ Die \/ Release

Spec == Init /\ [][Next]_vars

\* Each program runs on while it is not blocked.  Nothing is assumed of the
\* user, of exceptions or of further clients.
FairSpec == Spec /\ WF_vars(client_sender) /\ WF_vars(client_handler)
-----------------------------------------------------------------------------
(* What must hold. *)

\* Both programs wait in recv, and nothing is on its way to either.
WaitingForEachOther ==
    /\ cpc = "recv" /\ toClient = <<>> /\ ~released
    /\ spc \in {"upload", "recv"} /\ toServer = <<>>

\* The tool talking to itself gets stuck in two situations only: in an upload,
\* whose end the client never signals, and after a reply that filled the
\* client's buffer exactly, which makes it read again (lines 123-124).  In
\* particular the prompts and outputs of the command loop never leave both ends
\* waiting, whatever is typed and however the streams are cut.
StuckOnlyByUploadOrFullRead ==
    WaitingForEachOther => spc = "upload" \/ recv_len = ClientChunk

\* No thread has the file open.
FileClosed == spc # "write" /\ other # "write"

\* What is reported as saved is what the client has sent, the whole of it and in
\* order: not a chunk is dropped and no later line slips in; the file holds it, or the
\* whole upload that another client has saved since, unless the two had the file
\* open at a time (lines 190-208).
UploadIntact ==
    saved =>
        /\ file_buffer = stream
        /\ FileClosed /\ ~overlap => file \in {stream, OtherUpload}

\* No client of the tool reads the answer to its upload: the upload ends with the
\* client, so neither answer is on its way while there is someone to read it
\* (lines 196-197 and 208-210).
NoAnswerToUpload == \A p \in DOMAIN toClient : toClient[p] \notin {"ack", "nak"}

\* "acknowledge that we wrote the file out" (line 207), "Successfully saved file"
\* (line 208): with all threads done, the file is what one client has uploaded.
SavedFileIsAnUpload == saved /\ FileClosed => file \in {stream, OtherUpload}

\* A client that waits for data gets on, unless the two are stuck as above or the
\* server has ended and its socket is still held open: neither end spins while
\* the other one waits for it.
EveryWaitEnds ==
    cpc = "recv" ~> \/ cpc # "recv"
                    \/ WaitingForEachOther
                    \/ spc = "done" /\ ~released

\* "show we receive until we see a linefeed" (line 228): what is run as a command
\* has been received up to a linefeed.
CommandHasLinefeed == spc = "run" => HasLinefeed(cmd_buffer)
=============================================================================
