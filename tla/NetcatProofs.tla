---------------------------- MODULE NetcatProofs ----------------------------
(***************************************************************************)
(* Proofs about Netcat for every size of the receive buffers, every input  *)
(* and every upload of the other client: what is reported as saved is what *)
(* the client has sent, its answer reaches nobody, and the two ends wait   *)
(* for each other in the two known situations only.                        *)
(***************************************************************************)
EXTENDS Netcat, SequenceTheorems, TLAPS

-----------------------------------------------------------------------------
(* The inductive invariant. *)

Before == {"start", "upload", "open", "write"}

\* Until the thread is done with the upload, it has received what the client
\* has sent but for what is on its way; it opens the file only after the client
\* has exited, so nothing is added to the stream from there on.
Received ==
    /\ upload /\ spc \in {"start", "upload"} => file_buffer \o toServer = stream
    /\ spc \in {"open", "write"} \/ saved => cpc = "exit" /\ file_buffer = stream
    /\ spc = "start" => file_buffer = <<>>
    /\ spc \in Before \ {"start"} => upload
    /\ spc \in Before => ~saved

\* Two threads that never had the file open at a time each found it empty.
FileHolds ==
    ~overlap =>
        /\ spc = "write" => file = <<>> /\ other # "write"
        /\ other = "write" => file = <<>>
        /\ saved /\ FileClosed => file \in {stream, OtherUpload}

\* Something is coming to the client, or the server is still going to run what
\* has a linefeed in it and then to prompt.
Owed ==
    \/ spc \notin {"recv", "run"}
    \/ toClient # <<>>
    \/ HasLinefeed(toServer)
    \/ spc = "run" /\ HasLinefeed(cmd_buffer)

\* What the client sends, or has just sent, is owed an answer.
Answered ==
    /\ cpc = "send" => Owed \/ HasLinefeed(buffer)
    /\ cpc = "recv" /\ recv_len # ClientChunk => Owed
    /\ released => spc = "done"

\* No answer to an upload is on its way.
NoAnswers == toClient \in Seq({"output", "prompt"})

IInv ==
    /\ TypeOK
    /\ NoAnswers
    /\ Received
    /\ FileHolds
    /\ Answered
-----------------------------------------------------------------------------
(* Streams. *)

\* A read cuts what has arrived in two.
LEMMA Cut ==
    ASSUME NEW S, NEW s \in Seq(S), NEW chunk \in Nat, NEW m \in Reads(s, chunk)
    PROVE  /\ m \in 1..Len(s) /\ m <= chunk
           /\ Taken(s, m) \in Seq(S) /\ Left(s, m) \in Seq(S)
           /\ Taken(s, m) \o Left(s, m) = s
<1>1. m \in 1..Len(s) /\ m <= chunk
  BY DEF Reads
<1>2. SubSeq(s, 1, m) \in Seq(S) /\ SubSeq(s, m + 1, Len(s)) \in Seq(S)
  BY <1>1, SubSeqProperties
<1>3. SubSeq(s, 1, m) \o SubSeq(s, m + 1, Len(s)) = SubSeq(s, 1, Len(s))
  BY <1>1, ConcatAdjacentSubSeq
<1>. QED BY <1>1, <1>2, <1>3, SubSeqFull DEF Taken, Left

\* A linefeed in a concatenation is in one of its two parts.
LEMMA LinefeedInConcat ==
    ASSUME NEW s \in Seq(Text), NEW t \in Seq(Text)
    PROVE  HasLinefeed(s \o t) <=> HasLinefeed(s) \/ HasLinefeed(t)
<1>1. /\ DOMAIN s = 1..Len(s) /\ DOMAIN t = 1..Len(t)
      /\ DOMAIN (s \o t) = 1..(Len(s) + Len(t))
      /\ Len(s) \in Nat /\ Len(t) \in Nat
  BY ConcatProperties
<1>2. \A p \in 1..(Len(s) + Len(t)) : (s \o t)[p] = IF p <= Len(s) THEN s[p] ELSE t[p - Len(s)]
  BY ConcatProperties
<1>3. ASSUME HasLinefeed(s \o t) PROVE HasLinefeed(s) \/ HasLinefeed(t)
  <2>1. PICK p \in 1..(Len(s) + Len(t)) : (s \o t)[p] = "line"
    BY <1>1, <1>3 DEF HasLinefeed
  <2>2. CASE p <= Len(s)
    BY <1>1, <1>2, <2>1, <2>2 DEF HasLinefeed
  <2>3. CASE ~(p <= Len(s))
    <3>1. p - Len(s) \in 1..Len(t) /\ t[p - Len(s)] = "line"
      BY <1>1, <1>2, <2>1, <2>3
    <3>. QED BY <1>1, <3>1 DEF HasLinefeed
  <2>. QED BY <2>2, <2>3
<1>4. ASSUME HasLinefeed(s) PROVE HasLinefeed(s \o t)
  BY <1>1, <1>2, <1>4 DEF HasLinefeed
<1>5. ASSUME HasLinefeed(t) PROVE HasLinefeed(s \o t)
  <2>1. PICK p \in 1..Len(t) : t[p] = "line"
    BY <1>1, <1>5 DEF HasLinefeed
  <2>2. Len(s) + p \in 1..(Len(s) + Len(t)) /\ (s \o t)[Len(s) + p] = "line"
    BY <1>1, <1>2, <2>1
  <2>. QED BY <1>1, <2>2 DEF HasLinefeed
<1>. QED BY <1>3, <1>4, <1>5

\* What a send does to the stream to the client.
LEMMA Sending ==
    ASSUME NEW S, toClient \in Seq(S), NEW units \in Seq(S), Send(units)
    PROVE  /\ toClient' \in Seq(S)
           /\ cpc = "exit" => toClient' = toClient
           /\ toClient # <<>> => toClient' # <<>>
           /\ cpc # "exit" /\ units # <<>> => toClient' # <<>>
  BY ConcatProperties, ConcatEqualIffEmpty DEF Send

\* A command prints outputs.
LEMMA OutputsAreReplies == Outputs \subseteq Seq({"output"})
<1>. SUFFICES ASSUME NEW m \in 0..MaxOutput PROVE [p \in 1..m |-> "output"] \in Seq({"output"})
  BY DEF Outputs
<1>. QED BY BoundsAssumption

\* A write keeps the file a sequence; on an empty file it leaves what it writes.
LEMMA Writing ==
    ASSUME NEW S, file \in Seq(S), NEW text \in Seq(S), WriteFile(text)
    PROVE  /\ file' \in Seq(S)
           /\ file = <<>> => file' = text
           /\ overlap' = overlap
<1>1. Len(text) \in Nat /\ Len(file) \in Nat /\ \A p \in 1..Len(file) : file[p] \in S
  OBVIOUS
<1>2. SubSeq(file, Len(text) + 1, Len(file)) \in Seq(S)
  BY <1>1, SubSeqProperties
<1>3. file = <<>> => SubSeq(file, Len(text) + 1, Len(file)) = <<>>
  BY <1>1, SubSeqEmpty
<1>. QED BY <1>2, <1>3, ConcatProperties, ConcatEmptySeq DEF WriteFile

-----------------------------------------------------------------------------
(* Types, and what is on its way to the client. *)

\* The sets of replies, one in another.
LEMMA Replies ==
    /\ Seq({"output", "prompt"}) \subseteq Seq(Reply)
    /\ Seq({"output"}) \subseteq Seq({"output", "prompt"})
<1>1. Seq({"output", "prompt"}) \subseteq Seq(Reply)
  BY SeqMonotonic DEF Reply
<1>2. Seq({"output"}) \subseteq Seq({"output", "prompt"})
  BY SeqMonotonic
<1>. QED BY <1>1, <1>2

\* Every action keeps every variable in its set, and no answer to an upload is sent
\* to a client that can read it.
LEMMA TypeStep ==
    ASSUME TypeOK, NoAnswers, Received, [Next]_vars
    PROVE  TypeOK' /\ NoAnswers'
<1>. USE DEF NoAnswers
<1>1. CASE ClientSend
  <2>1. toServer \o buffer \in Seq(Text) /\ stream \o buffer \in Seq(Text) /\ <<>> \in Seq(Text)
    BY ConcatProperties DEF TypeOK
  <2>2. toServer' \in Seq(Text) /\ stream' \in Seq(Text) /\ recv_len' \in 0..ClientChunk
    BY <1>1, <2>1, ChunkAssumption DEF ClientSend, TypeOK
  <2>. QED BY <1>1, <2>1, <2>2 DEF ClientSend, TypeOK, options, files, disk
<1>2. CASE ClientRecv
  <2>1. CASE toClient' = toClient /\ recv_len' = 0
    BY <1>2, <2>1, ChunkAssumption DEF ClientRecv, TypeOK, options, files, disk
  <2>2. CASE ~(toClient' = toClient /\ recv_len' = 0)
    <3>1. PICK m \in Reads(toClient, ClientChunk) : recv_len' = m /\ toClient' = Left(toClient, m)
      BY <1>2, <2>2 DEF ClientRecv
    <3>2. toClient' \in Seq({"output", "prompt"}) /\ m <= ClientChunk /\ m \in Nat
      BY <3>1, Cut, ChunkAssumption
    <3>3. recv_len' \in 0..ClientChunk /\ toClient' \in Seq(Reply)
      BY <3>1, <3>2, ChunkAssumption, Replies
    <3>. QED BY <1>2, <3>2, <3>3 DEF ClientRecv, TypeOK, options, files, disk
  <2>. QED BY <2>1, <2>2
<1>3. CASE Type
  <2>1. buffer' \in Seq(Text) /\ typed' \in 0..MaxLines
    BY <1>3, TextAssumption, BoundsAssumption DEF Type, TypeOK
  <2>. QED BY <1>3, <2>1 DEF Type, TypeOK, options, files, disk
<1>4. CASE ClientExit
  BY <1>4 DEF ClientExit, TypeOK, options, files, disk
<1>5. CASE Start
  BY <1>5 DEF Start, TypeOK, options, files, disk, client, AfterUpload, AfterExecute, Step
<1>6. CASE RecvUpload
  <2>1. CASE UNCHANGED <<file_buffer, toServer>>
    BY <1>6, <2>1 DEF RecvUpload, TypeOK, options, disk, client, Step
  <2>2. CASE ~UNCHANGED <<file_buffer, toServer>>
    <3>1. PICK m \in Reads(toServer, ServerChunk) :
             /\ file_buffer' = file_buffer \o Taken(toServer, m)
             /\ toServer' = Left(toServer, m)
             /\ UNCHANGED spc
      BY <1>6, <2>2 DEF RecvUpload
    <3>2. Taken(toServer, m) \in Seq(Text) /\ Left(toServer, m) \in Seq(Text)
      BY Cut, ChunkAssumption DEF TypeOK
    <3>3. file_buffer' \in Seq(Text) /\ toServer' \in Seq(Text)
      BY <3>1, <3>2, ConcatProperties DEF TypeOK
    <3>. QED BY <1>6, <3>1, <3>3 DEF RecvUpload, TypeOK, options, disk, client, Step
  <2>. QED BY <2>1, <2>2
<1>7. CASE Open
  <2>1. cpc = "exit" /\ toClient' = toClient
    BY <1>7 DEF Open, Send, Received
  <2>2. file' \in Seq(Text \cup {"theirs"}) /\ overlap' \in BOOLEAN
    <3>1. CASE OpenFile
      <4>1. file' \in Seq(Text \cup {"theirs"})
        BY <3>1 DEF OpenFile
      <4>. QED BY <3>1, <4>1 DEF OpenFile
    <3>2. CASE ~OpenFile
      BY <1>7, <3>2 DEF Open, TypeOK
    <3>. QED BY <3>1, <3>2
  <2>3. spc' \in Step
    BY <1>7 DEF Open, AfterUpload, AfterExecute, Step
  <2>. QED BY <1>7, <2>1, <2>2, <2>3 DEF Open, TypeOK, options, client
<1>8. CASE Write
  <2>1. cpc = "exit" /\ toClient' = toClient
    BY <1>8 DEF Write, Send, Received
  <2>2. file' \in Seq(Text \cup {"theirs"}) /\ overlap' = overlap
    <3>1. PICK m \in 0..Len(file_buffer) : WriteFile(file_buffer) \/ WriteFile(Taken(file_buffer, m))
      BY <1>8 DEF Write, TypeOK
    <3>2. file_buffer \in Seq(Text) /\ Taken(file_buffer, m) \in Seq(Text)
      BY SubSeqProperties DEF Taken, TypeOK
    <3>3. Seq(Text) \subseteq Seq(Text \cup {"theirs"})
      BY SeqMonotonic
    <3>. QED BY <3>1, <3>2, <3>3, Writing DEF TypeOK
  <2>3. spc' \in Step /\ saved' \in BOOLEAN
    BY <1>8 DEF Write, AfterUpload, AfterExecute, Step, TypeOK
  <2>. QED BY <1>8, <2>1, <2>2, <2>3 DEF Write, TypeOK, options, client
<1>9. CASE OtherSaves
  <2>1. OtherUpload \in Seq(Text \cup {"theirs"})
    BY SeqMonotonic, TextAssumption
  <2>2. file' \in Seq(Text \cup {"theirs"}) /\ overlap' \in BOOLEAN
    <3>1. CASE OpenFile
      <4>1. file' \in Seq(Text \cup {"theirs"})
        BY <3>1 DEF OpenFile
      <4>. QED BY <3>1, <4>1 DEF OpenFile
    <3>2. CASE WriteFile(OtherUpload)
      BY <2>1, <3>2, Writing DEF TypeOK
    <3>. QED BY <1>9, <3>1, <3>2 DEF OtherSaves
  <2>. QED BY <1>9, <2>2 DEF OtherSaves, TypeOK, options, client
<1>10. CASE Execute \/ Run
  <2>1. PICK output \in Outputs : Send(output)
    BY <1>10 DEF Execute, Run
  <2>2. output \in Seq({"output", "prompt"})
    BY OutputsAreReplies, Replies
  <2>3. toClient' \in Seq({"output", "prompt"}) /\ toClient' \in Seq(Reply)
    BY <2>1, <2>2, Sending, Replies
  <2>4. spc' \in Step
    BY <1>10 DEF Execute, Run, AfterExecute, Step
  <2>. QED BY <1>10, <2>3, <2>4 DEF Execute, Run, TypeOK, options, client, files, disk
<1>11. CASE Prompt
  <2>1. <<"prompt">> \in Seq({"output", "prompt"}) /\ <<>> \in Seq(Text)
    OBVIOUS
  <2>2. toClient' \in Seq({"output", "prompt"}) /\ toClient' \in Seq(Reply)
    BY <1>11, <2>1, Sending, Replies DEF Prompt
  <2>. QED BY <1>11, <2>1, <2>2 DEF Prompt, TypeOK, options, client, files, disk, Step
<1>12. CASE RecvCommand
  <2>1. CASE UNCHANGED <<cmd_buffer, toServer>>
    BY <1>12, <2>1 DEF RecvCommand, TypeOK, options, files, disk, client, Step
  <2>2. CASE ~UNCHANGED <<cmd_buffer, toServer>>
    <3>1. PICK m \in Reads(toServer, ServerChunk) :
             /\ cmd_buffer' = cmd_buffer \o Taken(toServer, m)
             /\ toServer' = Left(toServer, m)
      BY <1>12, <2>2 DEF RecvCommand
    <3>2. Taken(toServer, m) \in Seq(Text) /\ Left(toServer, m) \in Seq(Text)
      BY Cut, ChunkAssumption DEF TypeOK
    <3>3. cmd_buffer' \in Seq(Text) /\ toServer' \in Seq(Text)
      BY <3>1, <3>2, ConcatProperties DEF TypeOK
    <3>. QED BY <1>12, <3>3 DEF RecvCommand, TypeOK, options, files, disk, client, Step
  <2>. QED BY <2>1, <2>2
<1>13. CASE Die
  BY <1>13 DEF Die, TypeOK, options, client, files, disk, Step
<1>14. CASE Release
  BY <1>14 DEF Release, TypeOK, options, client, files, disk
<1>15. CASE UNCHANGED vars
  BY <1>15 DEF vars, TypeOK
<1>. QED
  BY <1>1, <1>2, <1>3, <1>4, <1>5, <1>6, <1>7, <1>8, <1>9, <1>10, <1>11, <1>12, <1>13, <1>14,
     <1>15 DEF Next, client_sender, client_handler

-----------------------------------------------------------------------------
(* The upload and the file. *)

\* A send and a receive keep what is received and what is on its way together.
LEMMA ReceivedStep ==
    ASSUME TypeOK, Received, [Next]_vars
    PROVE  Received'
<1>1. CASE ClientSend
  <2>1. file_buffer \o (toServer \o buffer) = (file_buffer \o toServer) \o buffer
    <3>1. file_buffer \in Seq(Text) /\ toServer \in Seq(Text) /\ buffer \in Seq(Text)
      BY DEF TypeOK
    <3>. QED BY <3>1, ConcatAssociative
  <2>. QED BY <1>1, <2>1 DEF ClientSend, Received, options, files, disk, Before
<1>2. CASE RecvUpload
  <2>1. CASE spc' = "open"
    <3>1. /\ toServer = <<>> /\ cpc = "exit" /\ spc = "upload"
          /\ UNCHANGED <<file_buffer, toServer, upload, cpc, stream, saved>>
      BY <1>2, <2>1 DEF RecvUpload, options, client, disk
    <3>2. file_buffer \o <<>> = file_buffer
      BY ConcatEmptySeq DEF TypeOK
    <3>. QED BY <2>1, <3>1, <3>2 DEF Received, Before
  <2>2. CASE spc' # "open"
    <3>1. PICK m \in Reads(toServer, ServerChunk) :
             /\ file_buffer' = file_buffer \o Taken(toServer, m)
             /\ toServer' = Left(toServer, m)
             /\ spc = "upload" /\ UNCHANGED <<spc, upload, cpc, stream, saved>>
      BY <1>2, <2>2 DEF RecvUpload, options, client, disk
    <3>2. /\ Taken(toServer, m) \in Seq(Text) /\ Left(toServer, m) \in Seq(Text)
          /\ Taken(toServer, m) \o Left(toServer, m) = toServer
      BY Cut, ChunkAssumption DEF TypeOK
    <3>3. file_buffer \in Seq(Text)
      BY DEF TypeOK
    <3>4. \A a, b \in Seq(Text) : (file_buffer \o a) \o b = file_buffer \o (a \o b)
      BY <3>3, ConcatAssociative
    <3>5. file_buffer' \o toServer' = file_buffer \o toServer
      BY <3>1, <3>2, <3>4
    <3>. QED BY <3>1, <3>5 DEF Received, Before
  <2>. QED BY <2>1, <2>2
<1>3. CASE Start \/ Execute \/ Prompt \/ RecvCommand \/ Run \/ Die \/ Release
  BY <1>3 DEF Start, Execute, Prompt, RecvCommand, Run, Die, Release, AfterUpload, AfterExecute,
     Received, options, client, files, disk, Before
<1>4. CASE Open \/ Write
  BY <1>4 DEF Open, Write, AfterUpload, AfterExecute, Received, options, client, Before
<1>5. CASE ClientRecv \/ Type \/ ClientExit \/ OtherSaves \/ UNCHANGED vars
  BY <1>5 DEF ClientRecv, Type, ClientExit, OtherSaves, vars, Received, options, client, files,
     disk, Before
<1>. QED BY <1>1, <1>2, <1>3, <1>4, <1>5 DEF Next, client_sender, client_handler

\* Only Open, Write and the other thread touch the file; nothing else touches what
\* FileHolds says of it but a client that sends, which a saved upload rules out.
LEMMA FileHoldsStep ==
    ASSUME TypeOK, Received, Received', FileHolds, [Next]_vars
    PROVE  FileHolds'
<1>1. CASE Open
  BY <1>1 DEF Open, OpenFile, AfterUpload, AfterExecute, FileHolds, FileClosed, Received, Before,
     client
<1>2. CASE Write
  <2>1. spc = "write" /\ ~saved /\ spc' # "write" /\ file_buffer = stream
    BY <1>2 DEF Write, AfterUpload, AfterExecute, Received, Before
  <2>2. overlap' = overlap /\ other' = other /\ stream' = stream
    BY <1>2 DEF Write, WriteFile, client
  <2>3. ASSUME ~overlap PROVE file = <<>> /\ other # "write"
    BY <2>1, <2>3 DEF FileHolds
  <2>4. ASSUME saved', file = <<>> PROVE file' = stream
    <3>1. file_buffer \in Seq(Text \cup {"theirs"}) /\ file \in Seq(Text \cup {"theirs"})
      BY SeqMonotonic DEF TypeOK
    <3>2. WriteFile(file_buffer)
      BY <1>2, <2>1, <2>4 DEF Write
    <3>. QED BY <2>1, <2>4, <3>1, <3>2, Writing
  <2>. QED BY <2>1, <2>2, <2>3, <2>4 DEF FileHolds
<1>3. CASE OtherSaves
  <2>1. CASE other = "open"
    BY <1>3, <2>1 DEF OtherSaves, OpenFile, FileHolds, FileClosed
  <2>2. CASE other = "write"
    <3>1. WriteFile(OtherUpload) /\ other' = "done" /\ UNCHANGED <<spc, overlap>>
      BY <1>3, <2>2 DEF OtherSaves, WriteFile
    <3>2. OtherUpload \in Seq(Text \cup {"theirs"})
      BY SeqMonotonic, TextAssumption
    <3>3. file = <<>> => file' = OtherUpload
      BY <3>1, <3>2, Writing DEF TypeOK
    <3>. QED BY <2>2, <3>1, <3>3 DEF FileHolds
  <2>. QED BY <1>3, <2>1, <2>2 DEF OtherSaves
<1>4. CASE ClientSend
  BY <1>4 DEF ClientSend, FileHolds, FileClosed, Received, files, disk
<1>5. CASE UNCHANGED <<disk, other, stream>> /\ (spc' = "write" => spc = "write")
               /\ (spc = "write" => spc' = "write")
  BY <1>5 DEF FileHolds, FileClosed, disk
<1>6. CASE \/ ClientRecv \/ Type \/ ClientExit \/ Start \/ RecvUpload \/ Execute \/ Prompt
           \/ RecvCommand \/ Run \/ Die \/ Release \/ UNCHANGED vars
  BY <1>5, <1>6 DEF ClientRecv, Type, ClientExit, Start, RecvUpload, Execute, Prompt, RecvCommand,
     Run, Die, Release, vars, client, files, disk, AfterUpload, AfterExecute
<1>. QED
  BY <1>1, <1>2, <1>3, <1>4, <1>6 DEF Next, client_sender, client_handler

-----------------------------------------------------------------------------
(* Who waits for whom. *)

\* Taking from the stream to the server loses no linefeed.
LEMMA LinefeedKept ==
    ASSUME TypeOK, NEW m \in Reads(toServer, ServerChunk),
           cmd_buffer' = cmd_buffer \o Taken(toServer, m), toServer' = Left(toServer, m),
           HasLinefeed(toServer)
    PROVE  HasLinefeed(toServer') \/ HasLinefeed(cmd_buffer')
<1>1. /\ Taken(toServer, m) \in Seq(Text) /\ Left(toServer, m) \in Seq(Text)
      /\ Taken(toServer, m) \o Left(toServer, m) = toServer
      /\ cmd_buffer \in Seq(Text)
  BY Cut, ChunkAssumption DEF TypeOK
<1>2. HasLinefeed(Taken(toServer, m)) \/ HasLinefeed(Left(toServer, m))
  BY <1>1, LinefeedInConcat
<1>3. HasLinefeed(Taken(toServer, m)) => HasLinefeed(cmd_buffer \o Taken(toServer, m))
  BY <1>1, LinefeedInConcat
<1>. QED BY <1>2, <1>3

\* Whoever takes something out of Owed puts something into it, unless the thread
\* goes where it is owed anyway.
LEMMA AnsweredStep ==
    ASSUME TypeOK, NoAnswers, Answered, [Next]_vars
    PROVE  Answered'
<1>1. CASE ClientSend
  <2>1. cpc = "send" /\ cpc' = "recv" /\ UNCHANGED <<spc, toClient, cmd_buffer, released>>
    BY <1>1 DEF ClientSend
  <2>2. HasLinefeed(toServer) \/ HasLinefeed(buffer) => HasLinefeed(toServer \o buffer)
    BY LinefeedInConcat DEF TypeOK
  <2>3. Owed'
    BY <1>1, <2>1, <2>2 DEF ClientSend, Answered, Owed
  <2>. QED BY <2>1, <2>3 DEF Answered
<1>2. CASE ClientRecv
  <2>1. recv_len' \in 0..ClientChunk
    <3>1. ASSUME NEW m \in Reads(toClient, ClientChunk) PROVE m \in 0..ClientChunk
      BY ChunkAssumption DEF Reads, TypeOK
    <3>. QED BY <1>2, <3>1, ChunkAssumption DEF ClientRecv
  <2>2. cpc' = "input" \/ (recv_len' = ClientChunk /\ cpc' = "recv")
    BY <1>2, <2>1, ChunkAssumption DEF ClientRecv
  <2>. QED BY <1>2, <2>2 DEF ClientRecv, Answered
<1>3. CASE Type
  <2>1. buffer' \in Lines
    BY <1>3 DEF Type
  <2>2. HasLinefeed(buffer')
    <3>1. buffer' \in Seq(Text) /\ buffer' # <<>> /\ buffer'[Len(buffer')] = "line"
      BY <2>1, TextAssumption
    <3>2. Len(buffer') \in DOMAIN buffer'
      BY <3>1, EmptySeq
    <3>. QED BY <3>1, <3>2 DEF HasLinefeed
  <2>. QED BY <1>3, <2>2 DEF Type, Answered
<1>4. CASE Start \/ RecvUpload \/ Open \/ Write \/ Execute
  <2>1. spc' \notin {"recv", "run"} /\ UNCHANGED <<cpc, buffer, recv_len, released>> /\ spc # "done"
    BY <1>4 DEF Start, RecvUpload, Open, Write, Execute, AfterUpload, AfterExecute, client
  <2>. QED BY <2>1 DEF Answered, Owed
<1>5. CASE Prompt
  <2>1. spc = "prompt" /\ UNCHANGED <<cpc, buffer, recv_len, released>>
    BY <1>5 DEF Prompt, client
  <2>2. cpc # "exit" => toClient' # <<>>
    <3>1. <<"prompt">> \in Seq({"output", "prompt"}) /\ <<"prompt">> # <<>>
      OBVIOUS
    <3>. QED BY <1>5, <3>1, Sending DEF Prompt, NoAnswers
  <2>. QED BY <2>1, <2>2 DEF Answered, Owed
<1>6. CASE RecvCommand
  <2>1. spc = "recv" /\ spc' = "run" /\ UNCHANGED <<cpc, buffer, recv_len, released, toClient>>
    BY <1>6 DEF RecvCommand, client
  <2>2. CASE UNCHANGED <<cmd_buffer, toServer>>
    BY <2>1, <2>2 DEF Answered, Owed
  <2>3. CASE ~UNCHANGED <<cmd_buffer, toServer>>
    <3>1. PICK m \in Reads(toServer, ServerChunk) :
             /\ cmd_buffer' = cmd_buffer \o Taken(toServer, m)
             /\ toServer' = Left(toServer, m)
      BY <1>6, <2>3 DEF RecvCommand
    <3>2. HasLinefeed(toServer) => HasLinefeed(toServer') \/ HasLinefeed(cmd_buffer')
      BY <3>1, LinefeedKept
    <3>. QED BY <2>1, <3>2 DEF Answered, Owed
  <2>. QED BY <2>2, <2>3
<1>7. CASE Run
  <2>1. /\ spc = "run" /\ UNCHANGED <<cpc, buffer, recv_len, released, toServer, cmd_buffer>>
        /\ spc' = IF HasLinefeed(cmd_buffer) THEN "prompt" ELSE "recv"
    BY <1>7 DEF Run, client
  <2>2. toClient # <<>> => toClient' # <<>>
    <3>1. PICK output \in Outputs : Send(output)
      BY <1>7 DEF Run
    <3>2. output \in Seq({"output", "prompt"})
      BY OutputsAreReplies, Replies
    <3>. QED BY <3>1, <3>2, Sending DEF NoAnswers
  <2>. QED BY <2>1, <2>2 DEF Answered, Owed
<1>8. CASE ClientExit \/ OtherSaves \/ Die \/ Release \/ UNCHANGED vars
  BY <1>8 DEF ClientExit, OtherSaves, Die, Release, vars, client, files, Answered, Owed
<1>. QED
  BY <1>1, <1>2, <1>3, <1>4, <1>5, <1>6, <1>7, <1>8 DEF Next, client_sender, client_handler

-----------------------------------------------------------------------------
(* The theorems. *)

\* Nothing has been sent, saved or owed at the start.
LEMMA InitIInv == Init => IInv
<1>. SUFFICES ASSUME Init PROVE IInv
  OBVIOUS
<1>1. <<>> \in Seq(Text) /\ <<>> \in Seq(Reply) /\ <<>> \in Seq({"output", "prompt"})
      /\ <<>> \in Seq(Text \cup {"theirs"})
  OBVIOUS
<1>2. buffer \in Seq(Text) /\ recv_len \in 0..ClientChunk /\ typed \in 0..MaxLines
  BY TextAssumption, ChunkAssumption, BoundsAssumption DEF Init
<1>3. TypeOK
  BY <1>1, <1>2 DEF Init, TypeOK, Step
<1>4. Received
  <2>1. file_buffer \o toServer = <<>>
    BY <1>1, ConcatEmptySeq DEF Init
  <2>. QED BY <2>1 DEF Init, Received, Before
<1>5. NoAnswers /\ FileHolds /\ Answered
  BY <1>1 DEF Init, NoAnswers, FileHolds, Answered, Owed
<1>. QED BY <1>3, <1>4, <1>5 DEF IInv

\* Every reachable state satisfies the inductive invariant.
THEOREM InvariantHolds == Spec => []IInv
<1>1. IInv /\ [Next]_vars => IInv'
  BY TypeStep, ReceivedStep, FileHoldsStep, AnsweredStep DEF IInv
<1>. QED BY InitIInv, <1>1, PTL DEF Spec

\* Types (all of 2016-4-9-Netcat.py): every variable keeps to its set.
THEOREM TypeCorrect == Spec => []TypeOK
<1>1. IInv => TypeOK
  BY DEF IInv
<1>. QED BY InvariantHolds, <1>1, PTL

\* Whatever the buffers' sizes and however the streams are cut, both ends wait for
\* each other only in an upload or after a read that filled the client's buffer
\* (lines 119-124 against lines 196-199 and 226-239).
THEOREM OnlyTwoWaysToGetStuck == Spec => []StuckOnlyByUploadOrFullRead
<1>1. IInv => StuckOnlyByUploadOrFullRead
  <2>. SUFFICES ASSUME IInv, WaitingForEachOther PROVE spc = "upload" \/ recv_len = ClientChunk
    BY DEF StuckOnlyByUploadOrFullRead
  <2>1. ~HasLinefeed(toServer)
    BY DEF WaitingForEachOther, HasLinefeed
  <2>. QED BY <2>1 DEF IInv, Answered, Owed, WaitingForEachOther
<1>. QED BY InvariantHolds, <1>1, PTL

\* What is reported as saved is all that the client has sent, and the file holds one
\* client's upload unless two threads had it open at a time (lines 190-208).
THEOREM SavedUploadIsIntact == Spec => []UploadIntact
<1>1. IInv => UploadIntact
  BY DEF IInv, Received, FileHolds, UploadIntact
<1>. QED BY InvariantHolds, <1>1, PTL

\* The answer to an upload is never on its way to a client (lines 196-197 and
\* 208-210).
THEOREM UploadIsNotAnswered == Spec => []NoAnswerToUpload
<1>1. IInv => NoAnswerToUpload
  BY DEF IInv, NoAnswers, NoAnswerToUpload
<1>. QED BY InvariantHolds, <1>1, PTL
=============================================================================
