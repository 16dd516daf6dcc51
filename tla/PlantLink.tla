------------------------------ MODULE PlantLink ------------------------------
(***************************************************************************)
(* plant/socket_server.py: PlantLink, the plant's end of the connection,   *)
(* on bytes, with the frame decoder of protocol.py; and a client that      *)
(* connects, sends, dies and comes back.                                   *)
(*                                                                         *)
(* A connection is the record [sent, read, open]: the bytes the client has *)
(* sent on it, how many of them the plant has received, and whether the    *)
(* client still holds it.                                                  *)
(***************************************************************************)
EXTENDS FrameDecoder

CONSTANTS
    None, Closed, ValueError,   \* answers of recv_actuator without a command
    ACTUATOR_SIZE,              \* 12
    CHUNK,                      \* the 256 of recv(256)
    Segments,                   \* what the client may send at a time
    MAX_SEGMENTS,               \* bound: segments in all
    MAX_CONNECTIONS,            \* bound
    MAX_SENT                    \* bound: sensor frames

Connection == [sent : Seq(Byte), read : Nat, open : BOOLEAN]

ASSUME LinkAssumption ==
    /\ ACTUATOR_SIZE \in 0 .. PROTO_MAX_PAYLOAD
    /\ CHUNK \in Nat \ {0}
    /\ Segments \subseteq Seq(Byte)
    /\ None \notin Connection

VARIABLES
    listening,  \* _listener is open
    backlog,    \* the connection that waits to be accepted, or None
    conn,       \* _conn, or None
    dec,        \* _decoder
    stats,      \* LinkStats
    pc,         \* idle, or recv inside recv_actuator
    answer,     \* what the last recv_actuator returned or raised
    segments, connections   \* how many so far

vars == <<listening, backlog, conn, dec, stats, pc, answer, segments,
          connections>>

NewStats == [sensor_frames_sent |-> 0, actuator_frames_received |-> 0,
             errors_crc |-> 0, errors_size |-> 0, errors_type |-> 0,
             bytes_dropped |-> 0]

Init ==
    /\ listening = FALSE
    /\ backlog = None /\ conn = None
    /\ dec = NewDecoder
    /\ stats = NewStats
    /\ pc = "idle"
    /\ answer = None
    /\ segments = 0 /\ connections = 0

-----------------------------------------------------------------------------
(* The client: connects, sends, closes; a reset loses what is unread.      *)

Live(c) == c # None /\ c.open

ClientConnect ==
    /\ listening /\ backlog = None /\ ~Live(conn)
    /\ connections < MAX_CONNECTIONS
    /\ backlog' = [sent |-> << >>, read |-> 0, open |-> TRUE]
    /\ connections' = connections + 1
    /\ UNCHANGED <<listening, conn, dec, stats, pc, answer, segments>>

(* The client changes the connection it holds, accepted or not. *)
ClientDoes(change) ==
    /\ \/ Live(backlog) /\ backlog' = change[backlog] /\ UNCHANGED conn
       \/ Live(conn) /\ conn' = change[conn] /\ UNCHANGED backlog
    /\ UNCHANGED <<listening, dec, stats, pc, answer, connections>>

ClientSend(seg) ==
    /\ segments < MAX_SEGMENTS
    /\ segments' = segments + 1
    /\ ClientDoes([c \in {backlog, conn} \ {None} |-> [c EXCEPT !.sent = @ \o seg]])

ClientClose(reset) ==
    /\ ClientDoes([c \in {backlog, conn} \ {None} |->
          [c EXCEPT !.open = FALSE,
                    !.sent = IF reset THEN SubSeq(@, 1, c.read) ELSE @]])
    /\ UNCHANGED segments

-----------------------------------------------------------------------------

(* listen: idempotent. *)
Listen ==
    /\ pc = "idle"
    /\ listening' = TRUE
    /\ UNCHANGED <<backlog, conn, dec, stats, pc, answer, segments, connections>>

(* Mutant: the decoder of the last connection goes on. *)
AcceptKeepsDecoder ==
    /\ pc = "idle" /\ listening /\ backlog # None
    /\ conn' = backlog
    /\ backlog' = None
    /\ UNCHANGED <<listening, dec, stats, pc, answer, segments, connections>>

(* accept: the connection is replaced, the decoder starts anew. *)
Accept ==
    /\ pc = "idle" /\ listening /\ backlog # None
    /\ conn' = backlog
    /\ backlog' = None
    /\ dec' = NewDecoder
    /\ UNCHANGED <<listening, stats, pc, answer, segments, connections>>

(* close: connection and listener, and whoever waits there. *)
Close ==
    /\ pc = "idle"
    /\ conn' = None /\ listening' = FALSE /\ backlog' = None
    /\ UNCHANGED <<dec, stats, pc, answer, segments, connections>>

(* send_sensor: sendall raises on a connection the client has left, or     *)
(* loses the bytes there; only a send that does not raise is counted.      *)
SendSensor ==
    /\ pc = "idle" /\ conn # None
    /\ stats.sensor_frames_sent < MAX_SENT
    /\ stats' = [stats EXCEPT !.sensor_frames_sent = @ + 1]
    /\ UNCHANGED <<listening, backlog, conn, dec, pc, answer, segments,
                   connections>>

-----------------------------------------------------------------------------
(* recv_actuator. *)

(* unpack_payload, which refuses another size. *)
Unpacked(f) == IF Len(f.payload) = ACTUATOR_SIZE THEN f.payload ELSE ValueError

(* What the actuator frames among those drained unpack to, in order. *)
CommandsIn[frames \in Seq(DecodedFrame)] ==
    IF frames = << >> THEN << >>
    ELSE LET f    == Head(frames)
             ours == IF f.frame_type = TYPE_ACTUATOR THEN <<Unpacked(f)>> ELSE << >>
         IN  ours \o CommandsIn[Tail(frames)]

Merged(st, d) ==
    [st EXCEPT !.errors_crc = d.errors_crc, !.errors_size = d.errors_size,
               !.errors_type = d.errors_type, !.bytes_dropped = d.bytes_dropped]

Counted(st) == [st EXCEPT !.actuator_frames_received = @ + 1]

(* The call: what the decoder still holds comes first. *)
RecvCall ==
    LET held == Drain(dec)
        ours == CommandsIn[held.frames]
    IN  /\ pc = "idle" /\ conn # None
        /\ dec' = held.dec
        /\ IF ours # << >>
           THEN /\ answer' = ours[1]
                /\ stats' = Counted(stats)
                /\ pc' = "idle"
           ELSE pc' = "recv" /\ UNCHANGED <<answer, stats>>
        /\ UNCHANGED <<listening, backlog, conn, segments, connections>>

Unread == SubSeq(conn.sent, conn.read + 1, Len(conn.sent))

(* Mutant: the last frame of the batch wins. *)
RecvChunkLast(n) ==
    LET batch == Drain(Feed(dec, SubSeq(Unread, 1, n)))
        ours  == CommandsIn[batch.frames]
    IN  /\ pc = "recv" /\ n <= Len(Unread)
        /\ conn' = [conn EXCEPT !.read = @ + n]
        /\ dec' = batch.dec
        /\ pc' = IF ours # << >> THEN "idle" ELSE "recv"
        /\ answer' = IF ours # << >> THEN ours[Len(ours)] ELSE answer
        /\ stats' = IF ours # << >> THEN Counted(Merged(stats, dec')) ELSE stats
        /\ UNCHANGED <<listening, backlog, segments, connections>>

(* recv returns n bytes: the first actuator frame they complete is the     *)
(* answer, and the rest of the drained batch is discarded.                 *)
RecvChunk(n) ==
    LET batch == Drain(Feed(dec, SubSeq(Unread, 1, n)))
        ours  == CommandsIn[batch.frames]
    IN  /\ pc = "recv" /\ n <= Len(Unread)
        /\ conn' = [conn EXCEPT !.read = @ + n]
        /\ dec' = batch.dec
        /\ pc' = IF ours # << >> THEN "idle" ELSE "recv"
        /\ answer' = IF ours # << >> THEN ours[1] ELSE answer
        /\ stats' = IF ours # << >> THEN Counted(Merged(stats, dec')) ELSE stats
        /\ UNCHANGED <<listening, backlog, segments, connections>>

(* Nothing to receive: the timeout returns None, a connection that the     *)
(* client has closed raises ConnectionError; both pass the finally.        *)
RecvNothing ==
    /\ pc = "recv" /\ Unread = << >>
    /\ answer' = IF conn.open THEN None ELSE Closed
    /\ stats' = Merged(stats, dec)
    /\ pc' = "idle"
    /\ UNCHANGED <<listening, backlog, conn, dec, segments, connections>>

-----------------------------------------------------------------------------

Next ==
    \/ ClientConnect
    \/ \E seg \in Segments : ClientSend(seg)
    \/ \E reset \in BOOLEAN : ClientClose(reset)
    \/ Listen \/ Accept \/ Close \/ SendSensor
    \/ RecvCall \/ RecvNothing
    \/ \E n \in 1 .. CHUNK : RecvChunk(n)

Spec == Init /\ [][Next]_vars

-----------------------------------------------------------------------------

Received == IF conn = None THEN << >> ELSE SubSeq(conn.sent, 1, conn.read)

(* The decoder over everything received on this connection at once. *)
AtOnce == Drain(Feed(NewDecoder, Received))

(* What the decoder holds and has counted comes from the bytes of the      *)
(* current connection alone, whatever an earlier client left half sent,    *)
(* and does not depend on how the bytes were cut into chunks.              *)
DecoderBelongs == conn # None => dec = AtOnce.dec

FrameBytes[frames \in Seq(DecodedFrame)] ==
    IF frames = << >> THEN 0
    ELSE OVERHEAD + Len(Head(frames).payload) + FrameBytes[Tail(frames)]

(* Every byte received is still in the buffer, was part of a decoded       *)
(* frame, was dropped and counted, or is the magic of a rejected frame;    *)
(* and between calls the link's counters say the same as the decoder's,    *)
(* also after a timeout or an error.                                       *)
BytesAccounted ==
    conn # None =>
        /\ Len(Received) =
            Len(dec.buf) + dec.bytes_dropped + FrameBytes[AtOnce.frames]
            + 2 * (dec.errors_crc + dec.errors_size + dec.errors_type)
        /\ pc = "idle" /\ Received # << >> => stats = Merged(stats, dec)

(* The commands that d will still deliver from connection c. *)
UnderWay(d, c) ==
    LET unread == IF c = None THEN << >> ELSE SubSeq(c.sent, c.read + 1, Len(c.sent))
    IN  CommandsIn[Drain(Feed(d, unread)).frames]
=============================================================================
