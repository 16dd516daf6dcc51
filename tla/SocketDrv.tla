------------------------------ MODULE SocketDrv ------------------------------
(***************************************************************************)
(* drivers/socket_drv.c, the receive side: socket_drv_recv_sensor and its  *)
(* try_extract_frame, against a peer that sends bytes, in any chunks, and  *)
(* may close.  One action per pass of try_extract_frame's loop (named for  *)
(* how the pass ends), one per outcome of poll and recv.                   *)
(*                                                                         *)
(* delivered and taken are history variables.                              *)
(***************************************************************************)
EXTENDS Wire

CONSTANTS
    RX_BUFFER_SIZE,     \* 256
    Segments,           \* the byte sequences the peer may send
    MAX_SEGMENTS        \* bound: how many of them

(* "Receive buffer big enough for several worst-case frames". *)
ASSUME BufferAssumption ==
    RX_BUFFER_SIZE \in Nat /\ RX_BUFFER_SIZE >= OVERHEAD + PROTO_MAX_PAYLOAD

ASSUME StreamAssumption ==
    /\ Segments \subseteq Seq(Byte)
    /\ MAX_SEGMENTS \in Nat

VARIABLES
    pc,         \* where recv_sensor is: idle, extract, poll
    rx_buf,     \* the rx_len bytes held
    stats,      \* socket_drv_stats_t, receive side
    result,     \* what the last call returned (+1, 0 or -1 in the code)
    net,        \* bytes the peer has sent and the driver has not received
    sent,       \* the segments the peer has sent
    open,       \* the peer has not closed
    delivered,  \* history: the payloads returned to the HAL
    taken       \* history: the bytes recv has returned so far

vars == <<pc, rx_buf, stats, result, net, sent, open, delivered, taken>>

Init ==
    /\ pc = "idle"
    /\ rx_buf = << >>
    /\ stats = [ok |-> 0, crc |-> 0, size |-> 0, type |-> 0, dropped |-> 0]
    /\ result = "none"
    /\ net = << >>
    /\ sent = << >>
    /\ open = TRUE
    /\ delivered = << >>
    /\ taken = << >>

-----------------------------------------------------------------------------
(* try_extract_frame.  buf is the buffer once the scan has dropped what    *)
(* precedes the magic.                                                     *)

Line == <<net, sent, open, taken>>

Count(field) == [stats EXCEPT ![field] = @ + 1,
                              !.dropped = @ + Skipped(rx_buf)]

Scanned == [stats EXCEPT !.dropped = @ + Skipped(rx_buf)]

AtFrame == pc = "extract" /\ HasMagic(rx_buf)

HeaderIn == AtFrame /\ Len(Aligned(rx_buf)) >= OVERHEAD

FrameIn ==
    /\ HeaderIn
    /\ LengthOf(Aligned(rx_buf)) <= PROTO_MAX_PAYLOAD
    /\ TypeOf(Aligned(rx_buf)) = TYPE_SENSOR
    /\ Len(Aligned(rx_buf)) >= TotalOf(Aligned(rx_buf))

(* Mutants: a frame of any claimed length is waited for; a frame of the    *)
(* wrong type is left in place; a CRC mismatch drops the whole claimed     *)
(* frame; a wrong size drops only the magic.                               *)
NeedMoreAnyLength ==
    /\ pc = "extract"
    /\ \/ ~HasMagic(rx_buf)
       \/ Len(Aligned(rx_buf)) < OVERHEAD
       \/ HeaderIn /\ Len(Aligned(rx_buf)) < TotalOf(Aligned(rx_buf))
    /\ rx_buf' = Aligned(rx_buf)
    /\ stats' = Scanned
    /\ pc' = "poll"
    /\ UNCHANGED <<result, delivered, Line>>

WrongTypeNoSkip ==
    /\ HeaderIn
    /\ TypeOf(Aligned(rx_buf)) # TYPE_SENSOR
    /\ rx_buf' = Aligned(rx_buf)
    /\ UNCHANGED <<pc, stats, result, delivered, Line>>

CrcMismatchSkipsFrame ==
    /\ FrameIn
    /\ ~CrcOk(Aligned(rx_buf))
    /\ rx_buf' = Drop(Aligned(rx_buf), TotalOf(Aligned(rx_buf)))
    /\ stats' = Count("crc")
    /\ UNCHANGED <<pc, result, delivered, Line>>

WrongSizeSlides ==
    /\ FrameIn
    /\ CrcOk(Aligned(rx_buf))
    /\ LengthOf(Aligned(rx_buf)) # SENSOR_SIZE
    /\ rx_buf' = Drop(Aligned(rx_buf), 2)
    /\ stats' = Count("size")
    /\ UNCHANGED <<pc, result, delivered, Line>>

(* No frame yet: no magic, no full header, or no full frame.  Back to poll *)
(* with what is left.                                                      *)
NeedMore ==
    /\ pc = "extract"
    /\ \/ ~HasMagic(rx_buf)
       \/ Len(Aligned(rx_buf)) < OVERHEAD
       \/ /\ HeaderIn
          /\ LengthOf(Aligned(rx_buf)) <= PROTO_MAX_PAYLOAD
          /\ TypeOf(Aligned(rx_buf)) = TYPE_SENSOR
          /\ Len(Aligned(rx_buf)) < TotalOf(Aligned(rx_buf))
    /\ rx_buf' = Aligned(rx_buf)
    /\ stats' = Scanned
    /\ pc' = "poll"
    /\ UNCHANGED <<result, delivered, Line>>

(* A pass that rejects the frame: skip bytes and go round again. *)
Reject(field, skip) ==
    /\ rx_buf' = Drop(Aligned(rx_buf), skip)
    /\ stats' = Count(field)
    /\ UNCHANGED <<pc, result, delivered, Line>>

Oversized ==
    /\ HeaderIn
    /\ LengthOf(Aligned(rx_buf)) > PROTO_MAX_PAYLOAD
    /\ Reject("size", 2)

WrongType ==
    /\ HeaderIn
    /\ LengthOf(Aligned(rx_buf)) <= PROTO_MAX_PAYLOAD
    /\ TypeOf(Aligned(rx_buf)) # TYPE_SENSOR
    /\ Reject("type", 2)

CrcMismatch ==
    /\ FrameIn
    /\ ~CrcOk(Aligned(rx_buf))
    /\ Reject("crc", 2)

WrongSize ==
    /\ FrameIn
    /\ CrcOk(Aligned(rx_buf))
    /\ LengthOf(Aligned(rx_buf)) # SENSOR_SIZE
    /\ Reject("size", TotalOf(Aligned(rx_buf)))

Deliver ==
    /\ FrameIn
    /\ CrcOk(Aligned(rx_buf))
    /\ LengthOf(Aligned(rx_buf)) = SENSOR_SIZE
    /\ rx_buf' = Drop(Aligned(rx_buf), TotalOf(Aligned(rx_buf)))
    /\ stats' = Count("ok")
    /\ delivered' = Append(delivered, PayloadOf(Aligned(rx_buf)))
    /\ result' = "frame"
    /\ pc' = "idle"
    /\ UNCHANGED Line

-----------------------------------------------------------------------------
(* socket_drv_recv_sensor. *)

(* The call: what is already buffered is tried first. *)
Call ==
    /\ pc = "idle"
    /\ pc' = "extract"
    /\ UNCHANGED <<rx_buf, stats, result, net, sent, open, delivered, taken>>

Return(rc) ==
    /\ result' = rc
    /\ pc' = "idle"
    /\ UNCHANGED <<rx_buf, stats, net, sent, open, delivered, taken>>

(* poll times out: nothing arrived for timeout_ms. *)
PollTimeout ==
    /\ pc = "poll"
    /\ net = << >>
    /\ open
    /\ Return("timeout")

(* The peer closed: recv returns 0 once the bytes are read, but a hang-up  *)
(* that poll reports first wins over bytes that are still unread.          *)
PollHangup ==
    /\ pc = "poll"
    /\ ~open
    /\ Return("error")

(* recv returns n bytes, as many as fit; a full buffer is emptied first.   *)
Kept == IF Len(rx_buf) >= RX_BUFFER_SIZE THEN << >> ELSE rx_buf

(* Mutant: recv is offered the whole buffer, not what is left of it. *)
ReceiveNoRoom(n) ==
    /\ pc = "poll"
    /\ n <= Len(net) /\ n <= RX_BUFFER_SIZE
    /\ rx_buf' = rx_buf \o SubSeq(net, 1, n)
    /\ net' = Drop(net, n)
    /\ taken' = taken \o SubSeq(net, 1, n)
    /\ pc' = "extract"
    /\ UNCHANGED <<stats, result, sent, open, delivered>>

Receive(n) ==
    /\ pc = "poll"
    /\ n <= Len(net) /\ n <= RX_BUFFER_SIZE - Len(Kept)
    /\ rx_buf' = Kept \o SubSeq(net, 1, n)
    /\ stats' = [stats EXCEPT !.dropped = @ + (Len(rx_buf) - Len(Kept))]
    /\ net' = Drop(net, n)
    /\ taken' = taken \o SubSeq(net, 1, n)
    /\ pc' = "extract"
    /\ UNCHANGED <<result, sent, open, delivered>>

-----------------------------------------------------------------------------
(* The peer. *)

PeerSend(seg) ==
    /\ open
    /\ Len(sent) < MAX_SEGMENTS
    /\ net' = net \o seg
    /\ sent' = Append(sent, seg)
    /\ UNCHANGED <<pc, rx_buf, stats, result, open, delivered, taken>>

PeerClose ==
    /\ open
    /\ open' = FALSE
    /\ UNCHANGED <<pc, rx_buf, stats, result, net, sent, delivered, taken>>

Extract == NeedMore \/ Oversized \/ WrongType \/ CrcMismatch \/ WrongSize
              \/ Deliver

Next ==
    \/ Call
    \/ Extract
    \/ PollTimeout
    \/ PollHangup
    \/ \E n \in 1 .. RX_BUFFER_SIZE : Receive(n)
    \/ \E seg \in Segments : PeerSend(seg)
    \/ PeerClose

Spec == Init /\ [][Next]_vars

(* The loop inside try_extract_frame runs without waiting. *)
FairSpec == Spec /\ WF_vars(Extract)

-----------------------------------------------------------------------------
(* Type correctness of the driver's state. *)
TypeOK ==
    /\ pc \in {"idle", "extract", "poll"}
    /\ rx_buf \in Seq(Byte)
    /\ Len(rx_buf) <= RX_BUFFER_SIZE
    /\ stats \in [{"ok", "crc", "size", "type", "dropped"} -> Nat]
    /\ result \in {"none", "frame", "timeout", "error"}
    /\ net \in Seq(Byte)
    /\ open \in BOOLEAN
    /\ taken \in Seq(Byte)

(* Whenever the driver goes to poll, the buffer has room: the extraction   *)
(* has left less than one worst-case frame.  So the overflow branch        *)
(* ("Should never happen") is dead, and recv is never asked for 0 bytes,   *)
(* whose result 0 would be taken for a closed peer.                        *)
RoomToReceive ==
    pc = "poll" => Len(rx_buf) < OVERHEAD + PROTO_MAX_PAYLOAD

(* try_extract_frame's loop always ends: every pass that goes round again  *)
(* has dropped bytes, whatever the buffer holds.                           *)
ExtractEnds == (pc = "extract") ~> (pc # "extract")
=============================================================================
