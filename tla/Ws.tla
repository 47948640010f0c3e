--------------------------------- MODULE Ws ---------------------------------
(***************************************************************************)
(* The WebSocket view (Src/ws.c): upto_ws_prot answers the handshake and   *)
(* then stays in a loop that reads frames, on the thread that serves every *)
(* other connection.                                                       *)
(*                                                                         *)
(* The stream is a sequence of bytes.  A recv takes what is there, or one  *)
(* of Splits when no more has arrived: not always a frame.  data keeps     *)
(* what earlier ones left behind it.                                       *)
(***************************************************************************)
EXTENDS Integers, Sequences, FiniteSetsExt

CONSTANTS Frames, MaxFrames, Splits, DATA_SIZE

ASSUME WsAssumption ==
  /\ DATA_SIZE \in Nat \ {0} /\ MaxFrames \in Nat
  /\ Frames \subseteq Seq(0 .. 255) /\ Splits \subseteq Nat \ {0}

VARIABLES stream, peer, frames, data, reading, killed

wsvars == <<stream, peer, frames, data, reading, killed>>

\* No connection, and the array data not in use.
Closed == [stream |-> <<>>, peer |-> "none", frames |-> 0,
           data |-> [i \in 1 .. DATA_SIZE |-> 0]]

\* The first bytes of data, and for the rest what was there.
Over(bytes, d) == bytes \o SubSeq(d, Len(bytes) + 1, DATA_SIZE)

WsInit ==
  /\ stream = Closed.stream /\ peer = Closed.peer /\ frames = Closed.frames
  /\ data = Closed.data /\ reading = FALSE /\ killed = FALSE

\* The handshake is sent and the loop begins; the client is connected.  data is on the stack
\* and holds zeros or the frame of an earlier session.
upto_ws_prot ==
  /\ stream' = <<>> /\ peer' = "open" /\ frames' = 0 /\ reading' = TRUE
  /\ data' \in {Over(f, Closed.data) : f \in Frames \union {<<>>}}
  /\ UNCHANGED killed

\* The client, external: it sends frames, and ends the connection or loses it.  One that has
\* closed its end answers what it is still sent with a reset.
ClientSends ==
  /\ reading /\ peer = "open" /\ frames < MaxFrames
  /\ \E f \in Frames : stream' = stream \o f
  /\ frames' = frames + 1
  /\ UNCHANGED <<peer, data, reading, killed>>

ClientLeaves ==
  /\ reading
  /\ \/ peer = "open" /\ peer' = "shut" /\ UNCHANGED stream
     \/ peer \in {"open", "shut"} /\ peer' = "reset" /\ stream' = <<>>
  /\ UNCHANGED <<frames, data, reading, killed>>

\* parseWebSocketFrame on the first n bytes of data: 0, -1, or -100 for a closing frame.
parseWebSocketFrame(d, n) ==
  LET mask == d[2] \div 128
      low == d[2] % 128
      payload_len == IF low = 126 THEN d[3] * 256 + d[4] ELSE low
      header == IF low = 126 THEN 4 ELSE 2
  IN IF n < 2 \/ (low = 126 /\ n < 4) \/ low = 127 THEN -1
     ELSE IF n < header + 4 * mask + payload_len THEN -1
     ELSE IF payload_len = 2 /\ d[1] % 16 = 8 THEN -100 ELSE 0

\* The loop ends, and the socket is closed.
close_socket ==
  /\ reading' = FALSE
  /\ stream' = Closed.stream /\ peer' = Closed.peer /\ frames' = Closed.frames
  /\ data' = Closed.data

\* The rest of a round after recv gave n: the frame is parsed and a message is sent back; a
\* closing frame ends the loop.
EndOfRound(n, str, p, d) ==
  IF parseWebSocketFrame(d, n) = -100 THEN close_socket
  ELSE stream' = str /\ peer' = p /\ data' = d /\ UNCHANGED <<frames, reading>>

recvBytes ==
  /\ reading /\ stream # <<>>
  /\ \E n \in {Min({Len(stream), DATA_SIZE, k}) : k \in Splits \union {DATA_SIZE}} :
       EndOfRound(n, SubSeq(stream, n + 1, Len(stream)), peer, Over(SubSeq(stream, 1, n), data))
  /\ UNCHANGED killed

\* Mutant: the end of the stream is a frame that cannot be parsed.
recvEnd_Parsed ==
  /\ reading /\ stream = <<>> /\ peer \in {"shut", "lost"}
  /\ EndOfRound(0, stream, peer, data)
  /\ UNCHANGED killed

\* recv returns 0.
recvEnd ==
  /\ reading /\ stream = <<>> /\ peer \in {"shut", "lost"}
  /\ close_socket
  /\ UNCHANGED killed

\* recv returns -1, as a size_t more than any frame needs: what is left in data is parsed
\* again.  The error is reported once; after it the stream is at its end.  The message that
\* is sent back may raise SIGPIPE, which nothing handles.
recvFails ==
  /\ reading /\ peer = "reset"
  /\ EndOfRound(DATA_SIZE + 65536, stream, "lost", data)
  /\ killed' \in BOOLEAN

WsThread == recvBytes \/ recvEnd \/ recvFails
=============================================================================
