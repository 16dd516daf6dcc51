-------------------------- MODULE SocketDrv_proofs --------------------------
(***************************************************************************)
(* Proofs about the receive driver, for every payload limit, buffer size,  *)
(* checksum and stream: its buffer bounds first, then its agreement with   *)
(* the plant's decoder.                                                    *)
(***************************************************************************)
EXTENDS MCSocketDrv, FrameDecoder_proofs

-----------------------------------------------------------------------------
(* The passes of try_extract_frame, and the receive call. *)

(* The driver's statistics. *)
Stats == [{"ok", "crc", "size", "type", "dropped"} -> Nat]

(* Counting keeps the statistics numbers. *)
LEMMA CountFacts ==
    ASSUME TypeOK, NEW field \in {"ok", "crc", "size", "type"}
    PROVE  Count(field) \in Stats /\ Scanned \in Stats
<1>1. Skipped(rx_buf) \in Nat
  BY AlignedFacts DEF TypeOK
<1>2. stats \in Stats
  BY DEF TypeOK, Stats
<1>3. ASSUME NEW s \in Stats, NEW f \in {"ok", "crc", "size", "type", "dropped"},
             NEW k \in Nat
      PROVE  [s EXCEPT ![f] = @ + k] \in Stats
  BY <1>3 DEF Stats
<1>4. Scanned = [stats EXCEPT !["dropped"] = @ + Skipped(rx_buf)]
  BY DEF Scanned
<1>5. Count(field) = [[stats EXCEPT ![field] = @ + 1]
                        EXCEPT !["dropped"] = @ + Skipped(rx_buf)]
  BY DEF Count
<1>6. [stats EXCEPT ![field] = @ + 1] \in Stats
  BY <1>2, <1>3
<1>7. Scanned \in Stats
  BY <1>1, <1>2, <1>3, <1>4
<1>8. Count(field) \in Stats
  BY <1>1, <1>3, <1>5, <1>6
<1> QED BY <1>7, <1>8

(* A pass that rejects a frame keeps the buffer inside its size. *)
LEMMA RejectType ==
    ASSUME TypeOK, NEW field \in {"ok", "crc", "size", "type"},
           NEW skip \in 0 .. Len(Aligned(rx_buf)), Reject(field, skip)
    PROVE  TypeOK'
<1>1. /\ Aligned(rx_buf) \in Seq(Byte)
      /\ Len(Aligned(rx_buf)) <= Len(rx_buf)
  BY AlignedFacts DEF TypeOK
<1>2. /\ rx_buf' \in Seq(Byte)
      /\ Len(rx_buf') = Len(Aligned(rx_buf)) - skip
  BY <1>1, DropFacts DEF Reject
<1>3. Len(rx_buf') <= RX_BUFFER_SIZE
  BY <1>1, <1>2, BufferAssumption DEF TypeOK
<1>4. stats' \in Stats
  BY CountFacts DEF Reject
<1> QED BY <1>2, <1>3, <1>4 DEF TypeOK, Reject, Line, Stats

(* Every action keeps the driver's state well typed, for every stream.     *)
LEMMA TypeStep == TypeOK /\ [Next]_vars => TypeOK'
<1> SUFFICES ASSUME TypeOK, [Next]_vars PROVE TypeOK'
  OBVIOUS
<1>A. /\ Aligned(rx_buf) \in Seq(Byte)
      /\ Len(Aligned(rx_buf)) \in Nat
      /\ Len(Aligned(rx_buf)) <= Len(rx_buf)
      /\ HasMagic(rx_buf) => Len(Aligned(rx_buf)) >= 2
  BY AlignedFacts DEF TypeOK
<1>1. CASE Call
  BY <1>1 DEF TypeOK, Call
<1>2. CASE NeedMore
  <2>1. stats' \in Stats
    BY <1>2, CountFacts DEF NeedMore
  <2>2. rx_buf' \in Seq(Byte) /\ Len(rx_buf') <= RX_BUFFER_SIZE
    BY <1>2, <1>A, BufferAssumption DEF TypeOK, NeedMore
  <2> QED BY <1>2, <2>1, <2>2 DEF TypeOK, NeedMore, Line, Stats
<1>3. CASE Oversized
  <2>1. 2 \in 0 .. Len(Aligned(rx_buf)) /\ Reject("size", 2)
    BY <1>3, <1>A DEF Oversized, HeaderIn, AtFrame
  <2> QED BY <2>1, RejectType
<1>4. CASE WrongType
  <2>1. 2 \in 0 .. Len(Aligned(rx_buf)) /\ Reject("type", 2)
    BY <1>4, <1>A DEF WrongType, HeaderIn, AtFrame
  <2> QED BY <2>1, RejectType
<1>5. CASE CrcMismatch
  <2>1. 2 \in 0 .. Len(Aligned(rx_buf)) /\ Reject("crc", 2)
    BY <1>5, <1>A DEF CrcMismatch, FrameIn, HeaderIn, AtFrame
  <2> QED BY <2>1, RejectType
<1>6. ASSUME FrameIn PROVE TotalOf(Aligned(rx_buf)) \in 0 .. Len(Aligned(rx_buf))
  BY <1>6, <1>A, HeaderFacts DEF FrameIn, HeaderIn
<1>7. CASE WrongSize
  <2>1. /\ TotalOf(Aligned(rx_buf)) \in 0 .. Len(Aligned(rx_buf))
        /\ Reject("size", TotalOf(Aligned(rx_buf)))
    BY <1>7, <1>6 DEF WrongSize
  <2> QED BY <2>1, RejectType
<1>8. CASE Deliver
  <2>1. TotalOf(Aligned(rx_buf)) \in 0 .. Len(Aligned(rx_buf))
    BY <1>8, <1>6 DEF Deliver
  <2>2. /\ rx_buf' \in Seq(Byte)
        /\ Len(rx_buf') = Len(Aligned(rx_buf)) - TotalOf(Aligned(rx_buf))
    BY <1>8, <1>A, <2>1, DropFacts DEF Deliver
  <2>3. Len(rx_buf') <= RX_BUFFER_SIZE
    BY <1>A, <2>1, <2>2, BufferAssumption DEF TypeOK
  <2>4. stats' \in Stats
    BY <1>8, CountFacts DEF Deliver
  <2> QED BY <1>8, <2>2, <2>3, <2>4 DEF TypeOK, Deliver, Line, Stats
<1>9. CASE PollTimeout
  BY <1>9 DEF TypeOK, PollTimeout, Return
<1>10. CASE PollHangup
  BY <1>10 DEF TypeOK, PollHangup, Return
<1>11. ASSUME NEW n \in 1 .. RX_BUFFER_SIZE, Receive(n)
       PROVE  TypeOK'
  <2>1. /\ Kept \in Seq(Byte) /\ Len(Kept) \in Nat
        /\ Len(Kept) <= Len(rx_buf)
    BY DEF TypeOK, Kept
  <2>2. n \in 0 .. Len(net) /\ n \in Nat
    BY <1>11, BufferAssumption DEF Receive, TypeOK
  <2>3. net' \in Seq(Byte)
    BY <1>11, <2>2, DropFacts DEF Receive, TypeOK
  <2>4. SubSeq(net, 1, n) \in Seq(Byte) /\ Len(SubSeq(net, 1, n)) = n
    BY <2>2 DEF TypeOK
  <2>5. rx_buf' = Kept \o SubSeq(net, 1, n)
    BY <1>11 DEF Receive
  <2>6. rx_buf' \in Seq(Byte) /\ Len(rx_buf') = Len(Kept) + n
    BY <2>1, <2>4, <2>5
  <2>7. n <= RX_BUFFER_SIZE - Len(Kept)
    BY <1>11 DEF Receive
  <2>8. Len(rx_buf') <= RX_BUFFER_SIZE
    BY <2>1, <2>2, <2>6, <2>7, BufferAssumption
  <2>9. stats' \in Stats
    <3>1. stats \in Stats /\ Len(rx_buf) - Len(Kept) \in Nat
      BY <2>1 DEF TypeOK, Stats
    <3>2. stats' = [stats EXCEPT !.dropped = @ + (Len(rx_buf) - Len(Kept))]
      BY <1>11 DEF Receive
    <3> QED BY <3>1, <3>2 DEF Stats
  <2>10. taken' \in Seq(Byte)
    BY <1>11, <2>4 DEF TypeOK, Receive
  <2> QED BY <1>11, <2>3, <2>6, <2>8, <2>9, <2>10 DEF TypeOK, Receive, Stats
<1>12. ASSUME NEW seg \in Segments, PeerSend(seg) PROVE TypeOK'
  <2>1. net' \in Seq(Byte)
    BY <1>12, StreamAssumption DEF PeerSend, TypeOK
  <2> QED BY <1>12, <2>1 DEF TypeOK, PeerSend
<1>13. CASE PeerClose
  BY <1>13 DEF TypeOK, PeerClose
<1>14. CASE UNCHANGED vars
  BY <1>14 DEF TypeOK, vars
<1> QED BY <1>1, <1>2, <1>3, <1>4, <1>5, <1>7, <1>8, <1>9, <1>10, <1>11,
           <1>12, <1>13, <1>14 DEF Next, Extract

(* At the start the buffer is empty and every counter zero. *)
LEMMA TypeInit == Init => TypeOK
<1> SUFFICES ASSUME Init PROVE TypeOK
  OBVIOUS
<1>1. /\ rx_buf \in Seq(Byte) /\ net \in Seq(Byte) /\ Len(rx_buf) = 0
      /\ taken \in Seq(Byte)
  BY DEF Init
<1>2. stats \in Stats
  BY DEF Init, Stats
<1> QED BY <1>1, <1>2, BufferAssumption DEF Init, TypeOK, Stats

(* The receive buffer never exceeds its size, whatever bytes arrive and in *)
(* whatever chunks recv returns them.                                      *)
THEOREM DriverTypeCorrect == Spec => []TypeOK
  BY TypeInit, TypeStep, PTL DEF Spec

(* No step leaves the driver polling with a full buffer. *)
LEMMA RoomStep == TypeOK /\ RoomToReceive /\ [Next]_vars => RoomToReceive'
<1> SUFFICES ASSUME TypeOK, RoomToReceive, [Next]_vars PROVE RoomToReceive'
  OBVIOUS
<1>A. /\ Aligned(rx_buf) \in Seq(Byte)
      /\ Len(Aligned(rx_buf)) \in Nat
      /\ ~HasMagic(rx_buf) => Len(Aligned(rx_buf)) <= 1
  BY AlignedFacts DEF TypeOK
<1>1. CASE NeedMore
  <2>1. CASE ~HasMagic(rx_buf)
    BY <1>1, <1>A, <2>1, SizeAssumption
       DEF NeedMore, RoomToReceive, OVERHEAD, HEADER_SIZE, CRC_SIZE
  <2>2. CASE Len(Aligned(rx_buf)) < OVERHEAD
    BY <1>1, <1>A, <2>2, SizeAssumption
       DEF NeedMore, RoomToReceive, OVERHEAD, HEADER_SIZE, CRC_SIZE
  <2>3. CASE /\ HeaderIn
             /\ LengthOf(Aligned(rx_buf)) <= PROTO_MAX_PAYLOAD
             /\ Len(Aligned(rx_buf)) < TotalOf(Aligned(rx_buf))
    <3>1. LengthOf(Aligned(rx_buf)) \in Nat
      BY <1>A, <2>3, HeaderFacts DEF HeaderIn
    <3>2. rx_buf' = Aligned(rx_buf)
      BY <1>1 DEF NeedMore
    <3> QED BY <1>A, <2>3, <3>1, <3>2, SizeAssumption
            DEF RoomToReceive, TotalOf, OVERHEAD, HEADER_SIZE, CRC_SIZE
  <2> QED BY <1>1, <2>1, <2>2, <2>3 DEF NeedMore
<1>2. ASSUME pc' # "poll" PROVE RoomToReceive'
  BY <1>2 DEF RoomToReceive
<1>3. ASSUME pc' = pc, rx_buf' = rx_buf PROVE RoomToReceive'
  BY <1>3 DEF RoomToReceive
<1>4. CASE Call
  BY <1>2, <1>4 DEF Call
<1>5. CASE Oversized \/ WrongType \/ CrcMismatch \/ WrongSize
  <2>1. pc' = pc /\ pc = "extract"
    BY <1>5 DEF Oversized, WrongType, CrcMismatch, WrongSize, Reject,
                FrameIn, HeaderIn, AtFrame
  <2> QED BY <1>2, <2>1
<1>6. CASE Deliver
  BY <1>2, <1>6 DEF Deliver
<1>7. CASE PollTimeout \/ PollHangup
  BY <1>2, <1>7 DEF PollTimeout, PollHangup, Return
<1>8. ASSUME NEW n \in 1 .. RX_BUFFER_SIZE, Receive(n)
      PROVE  RoomToReceive'
  BY <1>2, <1>8 DEF Receive
<1>9. ASSUME NEW seg \in Segments, PeerSend(seg) PROVE RoomToReceive'
  BY <1>3, <1>9 DEF PeerSend
<1>10. CASE PeerClose
  BY <1>3, <1>10 DEF PeerClose
<1>11. CASE UNCHANGED vars
  BY <1>3, <1>11 DEF vars
<1> QED BY <1>1, <1>4, <1>5, <1>6, <1>7, <1>8, <1>9, <1>10, <1>11
        DEF Next, Extract

(* Whenever recv_sensor polls, less than one worst-case frame is buffered: *)
(* the overflow branch is dead for every stream and every payload limit.   *)
THEOREM OverflowIsDead == Spec => []RoomToReceive
<1>1. Init => RoomToReceive
  BY DEF Init, RoomToReceive
<1> QED BY <1>1, RoomStep, DriverTypeCorrect, PTL DEF Spec

-----------------------------------------------------------------------------
(* The driver and the plant's decoder. *)

(* What a decoded frame contributes to the payloads the driver delivers. *)
Sized(f) == IF Len(f.payload) = SENSOR_SIZE THEN <<f.payload>> ELSE << >>

(* The same as a function. *)
SizedOf == [f \in DecodedFrame |-> Sized(f)]

(* The payloads of a batch are gathered frame by frame. *)
LEMMA PayloadsDefined ==
    /\ SizedOf \in [DecodedFrame -> Seq(Seq(Byte))]
    /\ Gathers(PayloadsIn, DecodedFrame, SizedOf)
<1> DEFINE Body(s, g) == IF s = << >> THEN << >> ELSE Sized(Head(s)) \o g[Tail(s)]
<1>1. SizedOf \in [DecodedFrame -> Seq(Seq(Byte))]
  <2>1. \A f \in DecodedFrame : f.payload \in Seq(Byte)
    BY DEF DecodedFrame
  <2>2. \A f \in DecodedFrame : Sized(f) \in Seq(Seq(Byte))
    BY <2>1 DEF Sized
  <2> QED BY <2>2 DEF SizedOf
<1>2. PICK g \in [Frames -> Seq(Seq(Byte))] : Gathers(g, DecodedFrame, SizedOf)
  BY <1>1, GatherExists DEF Frames
<1>3. ASSUME NEW s \in Frames, NEW h
      PROVE  Body(s, h) = IF s = << >> THEN << >> ELSE SizedOf[Head(s)] \o h[Tail(s)]
  BY <1>3 DEF SizedOf, Frames
<1>4. g = [s \in Frames |-> Body(s, g)]
  BY <1>2, <1>3 DEF Gathers, Frames
<1>5. PayloadsIn = CHOOSE h : h = [s \in Frames |-> Body(s, h)]
  BY Zenon DEF PayloadsIn, Sized, Frames
<1>6. PayloadsIn = [s \in Frames |-> Body(s, PayloadsIn)]
  <2> HIDE DEF Body
  <2> QED BY <1>4, <1>5
<1>7. \A s \in Frames : PayloadsIn[s] = Body(s, PayloadsIn)
  <2> HIDE DEF Body
  <2> QED BY <1>6
<1> QED BY <1>1, <1>3, <1>7 DEF Gathers, Frames

(* The payloads of a batch with one more frame, or none. *)
LEMMA PayloadsGrow ==
    ASSUME NEW fs \in Seq(DecodedFrame)
    PROVE  /\ PayloadsIn[<< >>] = << >>
           /\ PayloadsIn[fs] \in Seq(Seq(Byte))
           /\ \A f \in DecodedFrame : PayloadsIn[fs \o <<f>>] = PayloadsIn[fs] \o Sized(f)
<1>1. PayloadsIn[<< >>] = << >>
  BY PayloadsDefined, GatherNothing
<1>2. PayloadsIn[fs] \in Seq(Seq(Byte))
  BY PayloadsDefined, GatherType
<1>3. ASSUME NEW f \in DecodedFrame
      PROVE  PayloadsIn[fs \o <<f>>] = PayloadsIn[fs] \o Sized(f)
  <2> DEFINE one == <<f>>
  <2>1. one \in Seq(DecodedFrame) /\ one # << >> /\ Head(one) = f /\ Tail(one) = << >>
    OBVIOUS
  <2>2. Splits(PayloadsIn, DecodedFrame)
    BY PayloadsDefined, GatherConcat
  <2>3. Sized(f) \in Seq(Seq(Byte)) /\ SizedOf[f] = Sized(f)
    BY PayloadsDefined DEF SizedOf
  <2> HIDE DEF one
  <2>4. PayloadsIn[one] = Sized(f) \o << >>
    BY <1>1, <2>1, <2>3, PayloadsDefined DEF Gathers
  <2>5. Sized(f) \o << >> = Sized(f)
    BY <2>3
  <2>6. PayloadsIn[fs \o one] = PayloadsIn[fs] \o PayloadsIn[one]
    BY <2>1, <2>2 DEF Splits
  <2> QED BY <2>4, <2>5, <2>6 DEF one
<1> QED BY <1>1, <1>2, <1>3

(* d is the plant's decoder at the point the driver has reached: b is the  *)
(* driver's buffer, st its statistics, out what it delivered, t all it     *)
(* received, and fs the frames the decoder has given by then.              *)
Stands(d, fs, b, st, out, t) ==
    /\ d \in Decoder
    /\ d.buf = b
    /\ d.errors_crc = st.crc
    /\ d.errors_type = st.type
    /\ d.bytes_dropped = st.dropped
    /\ fs \in Seq(DecodedFrame)
    /\ st.ok + st.size = d.errors_size + Len(fs)
    /\ out = PayloadsIn[fs]
    /\ Drain(Feed(NewDecoder, t)).dec = Drain(d).dec
    /\ Drain(Feed(NewDecoder, t)).frames = fs \o Drain(d).frames

(* The driver's statistics after a pass over b that ended with how. *)
CountedPass(st, st1, b, how) ==
    /\ st1.crc = st.crc + One(how = "crc")
    /\ st1.type = st.type + One(how = "type")
    /\ st1.dropped = st.dropped + Skipped(b)
    /\ st1.ok + st1.size = st.ok + st.size + One(how \in {"size", "frame"})

(* A pass that rejects or takes a frame. *)
LEMMA PassStands ==
    ASSUME NEW d, NEW fs, NEW b, NEW st \in Stats, NEW out, NEW t,
           Stands(d, fs, b, st, out, t), PassOutcome(b) # "more",
           NEW st1 \in Stats, CountedPass(st, st1, b, PassOutcome(b))
    PROVE  Stands(Passed(d), fs \o PassFrame(b), Drop(Aligned(b), PassUsed(b)), st1,
                  PayloadsIn[fs \o PassFrame(b)], t)
<1> DEFINE e == Passed(d)
           gs == PassFrame(b)
           more == Drain(e).frames
<1>1. d \in Decoder /\ d.buf = b /\ b \in Seq(Byte) /\ fs \in Seq(DecodedFrame)
  BY DEF Stands, Decoder
<1>2. e \in Decoder /\ gs \in Seq(DecodedFrame)
  BY <1>1, PassedFacts
<1>3. /\ e.buf = Drop(Aligned(b), PassUsed(b))
      /\ e.errors_crc = d.errors_crc + One(PassOutcome(b) = "crc")
      /\ e.errors_size = d.errors_size + One(PassOutcome(b) = "size")
      /\ e.errors_type = d.errors_type + One(PassOutcome(b) = "type")
      /\ e.bytes_dropped = d.bytes_dropped + Skipped(b)
  <2> DEFINE x == Drop(Aligned(b), PassUsed(b))
  <2>1. e = [buf |-> x,
             errors_crc |-> d.errors_crc + One(PassOutcome(b) = "crc"),
             errors_size |-> d.errors_size + One(PassOutcome(b) = "size"),
             errors_type |-> d.errors_type + One(PassOutcome(b) = "type"),
             bytes_dropped |-> d.bytes_dropped + Skipped(b)]
    BY <1>1, PassedIs
  <2> HIDE DEF x, e
  <2>2. /\ e.buf = x
        /\ e.errors_crc = d.errors_crc + One(PassOutcome(b) = "crc")
        /\ e.errors_size = d.errors_size + One(PassOutcome(b) = "size")
        /\ e.errors_type = d.errors_type + One(PassOutcome(b) = "type")
        /\ e.bytes_dropped = d.bytes_dropped + Skipped(b)
    BY <2>1
  <2> QED BY <2>2 DEF x
<1>4. Drain(e) \in Drained /\ Drain(d).dec = Drain(e).dec /\ Drain(d).frames = gs \o more
  <2>1. Drain(e) \in Drained
    BY <1>2, DrainType
  <2> DEFINE both == gs \o more
  <2>2. Drain(d) = [dec |-> Drain(e).dec, frames |-> both]
    BY <1>1, DrainStep
  <2> HIDE DEF both, e
  <2>3. Drain(d).dec = Drain(e).dec /\ Drain(d).frames = both
    BY <2>2
  <2> QED BY <2>1, <2>3 DEF both
<1>5. Len(gs) = One(PassOutcome(b) = "frame")
  BY DEF PassFrame, FrameOf, One
<1>6. st1.ok + st1.size = e.errors_size + Len(fs \o gs)
  <2>1. Len(fs \o gs) = Len(fs) + Len(gs) /\ Len(fs) \in Nat
    BY <1>1, <1>2
  <2>2. d.errors_size \in Nat /\ st.ok \in Nat /\ st.size \in Nat
    BY <1>1 DEF Decoder, Stats
  <2>3. One(PassOutcome(b) \in {"size", "frame"})
          = One(PassOutcome(b) = "size") + One(PassOutcome(b) = "frame")
    BY DEF One
  <2>4. One(PassOutcome(b) = "size") \in Nat /\ One(PassOutcome(b) = "frame") \in Nat
    BY DEF One
  <2>5. /\ st1.ok + st1.size = (st.ok + st.size) + One(PassOutcome(b) \in {"size", "frame"})
        /\ st.ok + st.size = d.errors_size + Len(fs)
    BY DEF CountedPass, Stands
  <2> DEFINE p == One(PassOutcome(b) = "size")
             q == One(PassOutcome(b) = "frame")
             l == Len(fs)
             m == d.errors_size
  <2>6. l \in Nat /\ p \in Nat /\ q \in Nat /\ m \in Nat
    BY <2>1, <2>2, <2>4
  <2>7. st1.ok + st1.size = (m + l) + (p + q)
    BY <2>3, <2>5
  <2>8. e.errors_size + Len(fs \o gs) = (m + p) + (l + q)
    BY <1>3, <1>5, <2>1
  <2> HIDE DEF p, q, l, m
  <2>9. (m + l) + (p + q) = (m + p) + (l + q)
    BY <2>6
  <2> QED BY <2>7, <2>8, <2>9
<1>7. /\ Drain(Feed(NewDecoder, t)).dec = Drain(e).dec
      /\ Drain(Feed(NewDecoder, t)).frames = (fs \o gs) \o Drain(e).frames
  <2>1. more \in Seq(DecodedFrame)
    BY <1>4 DEF Drained
  <2>2. /\ Drain(Feed(NewDecoder, t)).dec = Drain(d).dec
        /\ Drain(Feed(NewDecoder, t)).frames = fs \o (gs \o more)
    BY <1>4 DEF Stands
  <2> HIDE DEF gs, more, e
  <2>3. fs \o (gs \o more) = (fs \o gs) \o more
    BY <1>1, <1>2, <2>1
  <2>4. Drain(Feed(NewDecoder, t)).frames = (fs \o gs) \o more
    BY <2>2, <2>3
  <2> QED BY <1>4, <2>2, <2>4 DEF more
<1>8. fs \o gs \in Seq(DecodedFrame)
  BY <1>1, <1>2
<1>9. /\ e.errors_crc = st1.crc /\ e.errors_type = st1.type
      /\ e.bytes_dropped = st1.dropped
  BY <1>3 DEF Stands, CountedPass
<1> HIDE DEF e, gs
<1>10. Stands(e, fs \o gs, Drop(Aligned(b), PassUsed(b)), st1, PayloadsIn[fs \o gs], t)
  BY <1>2, <1>3, <1>6, <1>7, <1>8, <1>9 DEF Stands
<1> QED BY <1>10 DEF e, gs

(* A pass that waits for more: the decoder, too, has no frame to give. *)
LEMMA MoreStands ==
    ASSUME NEW d, NEW fs, NEW b, NEW st \in Stats, NEW out, NEW t,
           Stands(d, fs, b, st, out, t), PassOutcome(b) = "more",
           NEW st1 \in Stats, CountedPass(st, st1, b, "more")
    PROVE  /\ Stands(Passed(d), fs, Aligned(b), st1, out, t)
           /\ Settled(Passed(d))
<1> DEFINE e == Passed(d)
<1>1. d \in Decoder /\ d.buf = b /\ b \in Seq(Byte) /\ fs \in Seq(DecodedFrame)
  BY DEF Stands, Decoder
<1>2. e \in Decoder
  BY <1>1, PassedFacts
<1>3. /\ e.buf = Aligned(b)
      /\ e.errors_crc = d.errors_crc
      /\ e.errors_size = d.errors_size
      /\ e.errors_type = d.errors_type
      /\ e.bytes_dropped = d.bytes_dropped + Skipped(b)
  <2> DEFINE x == Drop(Aligned(b), PassUsed(b))
             z == One(FALSE)
  <2>1. e = [buf |-> x,
             errors_crc |-> d.errors_crc + z,
             errors_size |-> d.errors_size + z,
             errors_type |-> d.errors_type + z,
             bytes_dropped |-> d.bytes_dropped + Skipped(b)]
    BY <1>1, PassedIs DEF One
  <2>2. x = Aligned(b)
    <3>1. PassUsed(b) = 0
      BY DEF PassUsed, Used
    <3>2. Aligned(b) \in Seq(Byte)
      BY <1>1, AlignedFacts
    <3> QED BY <3>1, <3>2 DEF Drop
  <2>3. z = 0
    BY DEF One
  <2> HIDE DEF x, e, z
  <2>4. /\ e.buf = x /\ e.errors_crc = d.errors_crc + z
        /\ e.errors_size = d.errors_size + z /\ e.errors_type = d.errors_type + z
        /\ e.bytes_dropped = d.bytes_dropped + Skipped(b)
    BY <2>1
  <2>5. d.errors_crc \in Nat /\ d.errors_size \in Nat /\ d.errors_type \in Nat
    BY <1>1 DEF Decoder
  <2> QED BY <2>2, <2>3, <2>4, <2>5
<1>4. Drain(d).dec = e /\ Drain(d).frames = << >>
  <2>1. Drain(d) = [dec |-> e, frames |-> << >>]
    BY <1>1, DrainStep
  <2> HIDE DEF e
  <2> QED BY <2>1
<1>5. Drain(e) = [dec |-> e, frames |-> << >>]
  <2>1. Drain(Drain(d).dec) = [dec |-> Drain(d).dec, frames |-> << >>]
    BY <1>1, DrainEnds
  <2> HIDE DEF e
  <2> QED BY <1>4, <2>1
<1>6. st1.ok + st1.size = st.ok + st.size
  BY DEF CountedPass, One, Stats
<1>7. st1.crc = st.crc /\ st1.type = st.type /\ st1.dropped = st.dropped + Skipped(b)
  BY DEF CountedPass, One, Stats
<1> HIDE DEF e
<1>8. Stands(e, fs, Aligned(b), st1, out, t)
  BY <1>2, <1>3, <1>4, <1>5, <1>6, <1>7 DEF Stands
<1> QED BY <1>5, <1>8 DEF Settled, e

(* Bytes received while the driver waits. *)
LEMMA ReceiveStands ==
    ASSUME NEW d, NEW fs, NEW b, NEW st, NEW out, NEW t \in Seq(Byte),
           Stands(d, fs, b, st, out, t), Settled(d), NEW y \in Seq(Byte)
    PROVE  Stands(Feed(d, y), fs, b \o y, st, out, t \o y)
<1> DEFINE e == Feed(d, y)
           first == Drain(Feed(NewDecoder, t))
           then == Drain(Feed(first.dec, y))
           z == t \o y
           all == Drain(Feed(NewDecoder, z))
<1>1. d \in Decoder /\ d.buf = b /\ fs \in Seq(DecodedFrame)
  BY DEF Stands
<1>2. /\ e \in Decoder /\ e.buf = b \o y /\ e.errors_crc = d.errors_crc
      /\ e.errors_size = d.errors_size /\ e.errors_type = d.errors_type
      /\ e.bytes_dropped = d.bytes_dropped
  BY <1>1, FeedIs
<1>3. first.dec = d /\ first.frames = fs
  <2>1. first.dec = Drain(d).dec /\ first.frames = fs \o Drain(d).frames
    BY DEF Stands
  <2>2. Drain(d).dec = d /\ Drain(d).frames = << >>
    BY DEF Settled
  <2>3. fs \o << >> = fs
    BY <1>1
  <2> QED BY <2>1, <2>2, <2>3
<1>4. all.dec = then.dec /\ all.frames = first.frames \o then.frames
  BY NewFacts, ChunksDoNotMatter
<1> HIDE DEF first, then, z, all
<1>5. then = Drain(e)
  BY <1>3 DEF then
<1>6. all.dec = Drain(e).dec /\ all.frames = fs \o Drain(e).frames
  BY <1>3, <1>4, <1>5
<1> HIDE DEF e
<1>9. Stands(e, fs, b \o y, st, out, z)
  BY <1>1, <1>2, <1>6 DEF Stands, all
<1> QED BY <1>9 DEF e, z

(* How a pass of try_extract_frame ends, in the decoder's terms.  A wrong  *)
(* type is one to both only when it is no actuator's.                      *)
LEMMA OutcomeOfPass ==
    ASSUME TypeOK
    PROVE  /\ NeedMore => PassOutcome(rx_buf) = "more"
           /\ Oversized => PassOutcome(rx_buf) = "size"
           /\ WrongType /\ TypeOf(Aligned(rx_buf)) # TYPE_ACTUATOR
                => PassOutcome(rx_buf) = "type"
           /\ CrcMismatch => PassOutcome(rx_buf) = "crc"
           /\ WrongSize \/ Deliver => PassOutcome(rx_buf) = "frame"
<1> DEFINE a == Aligned(rx_buf)
<1>1. /\ rx_buf \in Seq(Byte) /\ a \in Seq(Byte) /\ Len(a) \in Nat
      /\ ~HasMagic(rx_buf) => Len(a) <= 1
  BY AlignedFacts DEF TypeOK
<1>2. OVERHEAD = 7
  BY DEF OVERHEAD, HEADER_SIZE, CRC_SIZE
<1>3. PassOutcome(rx_buf) = Outcome(a)
  BY DEF PassOutcome
<1>4. Len(a) >= OVERHEAD => LengthOf(a) \in Nat /\ TotalOf(a) \in Nat
  BY <1>1, HeaderFacts
<1> DEFINE l == LengthOf(a)
           t == TotalOf(a)
<1>5. PROTO_MAX_PAYLOAD \in Nat
  BY SizeAssumption
<1> HIDE DEF a, l, t
<1>6. NeedMore => Outcome(a) = "more"
  <2>1. NeedMore =>
          \/ Len(a) < OVERHEAD
          \/ /\ Len(a) >= OVERHEAD /\ l <= PROTO_MAX_PAYLOAD
             /\ TypeOf(a) = TYPE_SENSOR /\ Len(a) < t
    BY <1>1, <1>2 DEF NeedMore, HeaderIn, a, l, t
  <2> QED BY <1>1, <1>2, <1>4, <1>5, <2>1 DEF Outcome, l, t
<1>7. Oversized => Outcome(a) = "size"
  BY <1>1, <1>2, <1>4, <1>5 DEF Oversized, HeaderIn, Outcome, a
<1>8. WrongType /\ TypeOf(a) # TYPE_ACTUATOR => Outcome(a) = "type"
  BY <1>1, <1>2, <1>4, <1>5 DEF WrongType, HeaderIn, Outcome, a
<1>9. FrameIn => /\ Len(a) >= OVERHEAD /\ l <= PROTO_MAX_PAYLOAD
                 /\ TypeOf(a) = TYPE_SENSOR /\ Len(a) >= t
  BY DEF FrameIn, HeaderIn, a, l, t
<1>10. FrameIn => Outcome(a) = IF CrcOk(a) THEN "frame" ELSE "crc"
  BY <1>1, <1>2, <1>4, <1>5, <1>9 DEF Outcome, l, t
<1>11. /\ CrcMismatch => Outcome(a) = "crc"
       /\ WrongSize \/ Deliver => Outcome(a) = "frame"
  BY <1>10 DEF CrcMismatch, WrongSize, Deliver, a
<1> QED BY <1>3, <1>6, <1>7, <1>8, <1>11 DEF a

(* What Count and the scan do to each counter. *)
LEMMA CountFields ==
    ASSUME TypeOK, NEW field \in {"ok", "crc", "size", "type"}
    PROVE  /\ stats \in Stats /\ Count(field) \in Stats /\ Scanned \in Stats
           /\ Count(field).ok = stats.ok + One(field = "ok")
           /\ Count(field).crc = stats.crc + One(field = "crc")
           /\ Count(field).size = stats.size + One(field = "size")
           /\ Count(field).type = stats.type + One(field = "type")
           /\ Count(field).dropped = stats.dropped + Skipped(rx_buf)
           /\ Scanned.ok = stats.ok /\ Scanned.crc = stats.crc
           /\ Scanned.size = stats.size /\ Scanned.type = stats.type
           /\ Scanned.dropped = stats.dropped + Skipped(rx_buf)
<1>1. stats \in Stats /\ Count(field) \in Stats /\ Scanned \in Stats
  BY CountFacts DEF TypeOK, Stats
<1>2. Scanned = [stats EXCEPT !["dropped"] = @ + Skipped(rx_buf)]
  BY DEF Scanned
<1>3. Count(field) = [[stats EXCEPT ![field] = @ + 1]
                        EXCEPT !["dropped"] = @ + Skipped(rx_buf)]
  BY DEF Count
<1> DEFINE one == [stats EXCEPT ![field] = @ + 1]
<1>4. /\ one \in Stats
      /\ one.ok = stats.ok + One(field = "ok")
      /\ one.crc = stats.crc + One(field = "crc")
      /\ one.size = stats.size + One(field = "size")
      /\ one.type = stats.type + One(field = "type")
      /\ one.dropped = stats.dropped
  BY <1>1 DEF Stats, One
<1>5. Count(field) = [one EXCEPT !["dropped"] = @ + Skipped(rx_buf)]
  BY <1>3
<1> HIDE DEF one
<1>6. /\ Count(field).ok = one.ok /\ Count(field).crc = one.crc
      /\ Count(field).size = one.size /\ Count(field).type = one.type
      /\ Count(field).dropped = one.dropped + Skipped(rx_buf)
  BY <1>4, <1>5 DEF Stats
<1>7. /\ Scanned.ok = stats.ok /\ Scanned.crc = stats.crc
      /\ Scanned.size = stats.size /\ Scanned.type = stats.type
      /\ Scanned.dropped = stats.dropped + Skipped(rx_buf)
  BY <1>1, <1>2 DEF Stats
<1> QED BY <1>1, <1>4, <1>6, <1>7

(* So the driver counts a pass as the decoder does, except that a frame is *)
(* either a good one or one of a wrong size.                               *)
LEMMA CountIsPass ==
    ASSUME TypeOK
    PROVE  /\ CountedPass(stats, Scanned, rx_buf, "more")
           /\ \A field \in {"size", "type", "crc"} :
                 CountedPass(stats, Count(field), rx_buf, field)
           /\ \A field \in {"ok", "size"} :
                 CountedPass(stats, Count(field), rx_buf, "frame")
<1>1. /\ stats.ok \in Nat /\ stats.crc \in Nat /\ stats.size \in Nat
      /\ stats.type \in Nat /\ stats.dropped \in Nat
  BY DEF TypeOK
<1>2. CountedPass(stats, Scanned, rx_buf, "more")
  <2>1. /\ One("more" = "crc") = 0 /\ One("more" = "type") = 0
        /\ One("more" \in {"size", "frame"}) = 0
    BY DEF One
  <2>2. /\ Scanned.ok = stats.ok /\ Scanned.crc = stats.crc
        /\ Scanned.size = stats.size /\ Scanned.type = stats.type
        /\ Scanned.dropped = stats.dropped + Skipped(rx_buf)
    BY CountFields
  <2> QED BY <1>1, <2>1, <2>2 DEF CountedPass
<1>3. ASSUME NEW field \in {"size", "type", "crc"}
      PROVE  CountedPass(stats, Count(field), rx_buf, field)
  <2> DEFINE c == Count(field)
  <2>1. /\ c.ok = stats.ok + One(field = "ok") /\ c.crc = stats.crc + One(field = "crc")
        /\ c.size = stats.size + One(field = "size")
        /\ c.type = stats.type + One(field = "type")
        /\ c.dropped = stats.dropped + Skipped(rx_buf)
    BY CountFields
  <2>2. /\ One(field = "ok") = 0 /\ One(field = "size") \in Nat
        /\ One(field \in {"size", "frame"}) = One(field = "size")
    BY DEF One
  <2> HIDE DEF c
  <2>3. c.ok + c.size = stats.ok + stats.size + One(field \in {"size", "frame"})
    BY <1>1, <2>1, <2>2
  <2> QED BY <2>1, <2>3 DEF CountedPass, c
<1>4. ASSUME NEW field \in {"ok", "size"}
      PROVE  CountedPass(stats, Count(field), rx_buf, "frame")
  <2> DEFINE c == Count(field)
  <2>1. /\ c.ok = stats.ok + One(field = "ok") /\ c.crc = stats.crc + One(field = "crc")
        /\ c.size = stats.size + One(field = "size")
        /\ c.type = stats.type + One(field = "type")
        /\ c.dropped = stats.dropped + Skipped(rx_buf)
    BY CountFields
  <2>2. /\ One(field = "crc") = 0 /\ One(field = "type") = 0
        /\ One("frame" = "crc") = 0 /\ One("frame" = "type") = 0
        /\ One(field = "ok") \in Nat /\ One(field = "size") \in Nat
        /\ One(field = "ok") + One(field = "size") = 1
        /\ One("frame" \in {"size", "frame"}) = 1
    BY DEF One
  <2> HIDE DEF c
  <2>3. c.ok + c.size = stats.ok + stats.size + 1
    BY <1>1, <2>1, <2>2
  <2> QED BY <2>1, <2>2, <2>3 DEF CountedPass, c
<1> QED BY <1>2, <1>3, <1>4

(* The driver's buffer is the end of what it received. *)
EndOf(b, t) == \E k \in 0 .. Len(t) : b = Drop(t, k)

(* So it is after a pass that drops bytes and after a recv. *)
LEMMA EndOfFacts ==
    ASSUME NEW b \in Seq(Byte), NEW t \in Seq(Byte), EndOf(b, t)
    PROVE  /\ \A n \in 0 .. Len(b) : EndOf(Drop(b, n), t)
           /\ \A y \in Seq(Byte) : EndOf(b \o y, t \o y)
<1>1. PICK k \in 0 .. Len(t) : b = Drop(t, k)
  BY DEF EndOf
<1>2. Len(b) = Len(t) - k /\ Len(t) \in Nat
  BY <1>1, DropFacts
<1>3. ASSUME NEW n \in 0 .. Len(b) PROVE EndOf(Drop(b, n), t)
  <2> DEFINE l == Drop(b, n)
             r == Drop(t, k + n)
  <2>1. n \in Nat /\ k \in Nat /\ k + n \in 0 .. Len(t)
    BY <1>2
  <2>2. /\ l \in Seq(Byte) /\ Len(l) = Len(b) - n
        /\ \A i \in 1 .. Len(b) - n : l[i] = b[i + n]
    BY DropFacts
  <2>3. /\ r \in Seq(Byte) /\ Len(r) = Len(t) - (k + n)
        /\ \A i \in 1 .. Len(t) - (k + n) : r[i] = t[i + (k + n)]
    BY <2>1, DropFacts
  <2>4. \A i \in 1 .. Len(t) - k : b[i] = t[i + k]
    BY <1>1, DropFacts
  <2> HIDE DEF l, r
  <2>5. Len(l) = Len(r)
    BY <1>2, <2>1, <2>2, <2>3
  <2>6. ASSUME NEW i \in 1 .. Len(l) PROVE l[i] = r[i]
    <3>1. /\ i \in 1 .. Len(b) - n /\ i \in 1 .. Len(t) - (k + n)
          /\ i + n \in 1 .. Len(t) - k /\ (i + n) + k = i + (k + n)
      BY <1>2, <2>1, <2>2
    <3> QED BY <2>2, <2>3, <2>4, <3>1
  <2>7. l = r
    BY <2>2, <2>3, <2>5, <2>6, SameBytes
  <2> QED BY <2>1, <2>7 DEF EndOf, l, r
<1>4. ASSUME NEW y \in Seq(Byte) PROVE EndOf(b \o y, t \o y)
  <2>1. Drop(t \o y, k) = Drop(t, k) \o y
    <3>1. k \in Nat /\ k <= Len(t)
      BY <1>2
    <3>2. SubSeq(t \o y, k + 1, Len(t \o y)) = SubSeq(t, k + 1, Len(t)) \o y
      BY <3>1, RestGrows
    <3> QED BY <3>2, Zenon DEF Drop
  <2>2. k \in 0 .. Len(t \o y)
    BY <1>2
  <2> QED BY <1>1, <2>1, <2>2 DEF EndOf
<1> QED BY <1>3, <1>4

(* Where the driver stands at a header, its type is one of the stream's. *)
LEMMA HeaderOfStream ==
    ASSUME NEW b \in Seq(Byte), NEW t \in Seq(Byte), EndOf(b, t), NoActuator(t),
           HasMagic(b), Len(Aligned(b)) >= OVERHEAD
    PROVE  TypeOf(Aligned(b)) # TYPE_ACTUATOR
<1> DEFINE a == Aligned(b)
<1>1. /\ Skipped(b) \in 0 .. Len(b) /\ a = Drop(b, Skipped(b)) /\ a \in Seq(Byte)
      /\ MagicAt(a, 1)
  BY AlignedFacts DEF Aligned
<1>2. EndOf(a, t)
  BY <1>1, EndOfFacts
<1>3. PICK k \in 0 .. Len(t) : a = Drop(t, k)
  BY <1>2 DEF EndOf
<1>4. Len(a) = Len(t) - k /\ \A i \in 1 .. Len(t) - k : a[i] = t[i + k]
  BY <1>3, DropFacts
<1>5. Len(a) >= 7
  BY DEF OVERHEAD, HEADER_SIZE, CRC_SIZE
<1> HIDE DEF a
<1>6. Len(t) \in Nat /\ k \in Nat /\ Len(t) - k >= 7
  BY <1>4, <1>5
<1>7. a[1] = t[k + 1] /\ a[2] = t[(k + 1) + 1] /\ a[3] = t[(k + 1) + 2]
  <2>1. 1 + k = k + 1 /\ 2 + k = (k + 1) + 1 /\ 3 + k = (k + 1) + 2
    BY <1>6
  <2>2. 1 \in 1 .. Len(t) - k /\ 2 \in 1 .. Len(t) - k /\ 3 \in 1 .. Len(t) - k
    BY <1>6
  <2> QED BY <1>4, <2>1, <2>2
<1>8. MagicAt(t, k + 1)
  BY <1>1, <1>7 DEF MagicAt
<1>9. k + 1 \in 1 .. Len(t) - 2
  BY <1>6
<1>10. t[(k + 1) + 2] # TYPE_ACTUATOR
  BY <1>8, <1>9 DEF NoActuator
<1> QED BY <1>7, <1>10 DEF TypeOf, a

(* More bytes bring no actuator header only if there was none. *)
LEMMA NoActuatorBefore ==
    ASSUME NEW t \in Seq(Byte), NEW y \in Seq(Byte), NoActuator(t \o y)
    PROVE  NoActuator(t)
<1> SUFFICES ASSUME NEW i \in 1 .. Len(t) - 2, MagicAt(t, i)
             PROVE  t[i + 2] # TYPE_ACTUATOR
  BY DEF NoActuator
<1> DEFINE c == t \o y
<1>1. /\ Len(c) = Len(t) + Len(y) /\ Len(t) \in Nat /\ Len(y) \in Nat
      /\ \A j \in 1 .. Len(t) : c[j] = t[j]
  OBVIOUS
<1>2. NoActuator(c)
  OBVIOUS
<1> HIDE DEF c
<1>3. /\ i \in 1 .. Len(c) - 2 /\ c[i] = t[i] /\ c[i + 1] = t[i + 1]
      /\ c[i + 2] = t[i + 2]
  BY <1>1
<1> QED BY <1>2, <1>3 DEF NoActuator, MagicAt

(* At every step of the driver there is a point the plant's decoder passes *)
(* on the same bytes that is the driver's own.                             *)
AgreeInv ==
    /\ TypeOK
    /\ RoomToReceive
    /\ EndOf(rx_buf, taken)
    /\ NoActuator(taken) =>
          \E d \in Decoder, fs \in Seq(DecodedFrame) :
             /\ Stands(d, fs, rx_buf, stats, delivered, taken)
             /\ pc = "poll" => Settled(d)

(* At the start both have nothing. *)
LEMMA AgreeInit == Init => AgreeInv
<1> SUFFICES ASSUME Init PROVE AgreeInv
  OBVIOUS
<1>1. TypeOK /\ RoomToReceive
  BY TypeInit DEF Init, RoomToReceive
<1>2. rx_buf = << >> /\ taken = << >> /\ delivered = << >> /\ pc = "idle"
  BY DEF Init
<1>3. EndOf(<< >>, << >>)
  <2>1. 0 \in 0 .. Len(<< >>) /\ << >> = Drop(<< >>, 0)
    BY DEF Drop
  <2> QED BY <2>1 DEF EndOf
<1>4. /\ stats.crc = 0 /\ stats.type = 0 /\ stats.dropped = 0
      /\ stats.ok + stats.size = 0
  BY DEF Init
<1>5. Stands(NewDecoder, << >>, << >>, stats, << >>, << >>)
  <2>1. << >> \in Seq(DecodedFrame) /\ Len(<< >>) = 0
    OBVIOUS
  <2>2. PayloadsIn[<< >>] = << >>
    BY <2>1, PayloadsGrow
  <2>3. Feed(NewDecoder, << >>) = NewDecoder
    BY NewFacts, FeedNothing
  <2>4. Drain(NewDecoder).frames = << >>
    BY NewFacts
  <2>5. << >> \o << >> = << >>
    OBVIOUS
  <2>6. stats.ok + stats.size = NewDecoder.errors_size + Len(<< >>)
    BY <1>4, <2>1, NewFacts
  <2> QED BY <1>4, <2>1, <2>2, <2>3, <2>4, <2>5, <2>6, NewFacts DEF Stands
<1>6. NewDecoder \in Decoder /\ << >> \in Seq(DecodedFrame)
  BY NewFacts
<1> QED BY <1>1, <1>2, <1>3, <1>5, <1>6 DEF AgreeInv

(* Every step of the driver keeps it. *)
LEMMA AgreeStep == AgreeInv /\ [Next]_vars => AgreeInv'
<1> SUFFICES ASSUME AgreeInv, [Next]_vars PROVE AgreeInv'
  OBVIOUS
<1>1. TypeOK /\ RoomToReceive /\ EndOf(rx_buf, taken)
  BY DEF AgreeInv
<1>2. TypeOK' /\ RoomToReceive'
  BY <1>1, TypeStep, RoomStep
<1>3. /\ rx_buf \in Seq(Byte) /\ taken \in Seq(Byte) /\ stats \in Stats /\ stats' \in Stats
      /\ Aligned(rx_buf) \in Seq(Byte) /\ Skipped(rx_buf) \in 0 .. Len(rx_buf)
      /\ HasMagic(rx_buf) => Len(Aligned(rx_buf)) >= 2
  BY <1>1, <1>2, AlignedFacts DEF TypeOK, Stats
<1>4. ASSUME rx_buf' = rx_buf, taken' = taken, stats' = stats, delivered' = delivered,
             pc' = "poll" => pc = "poll"
      PROVE  AgreeInv'
  BY <1>2, <1>4 DEF AgreeInv
<1>5. ASSUME NEW n \in 0 .. Len(Aligned(rx_buf))
      PROVE  EndOf(Drop(Aligned(rx_buf), n), taken) /\ EndOf(Aligned(rx_buf), taken)
  <2>1. EndOf(Aligned(rx_buf), taken)
    BY <1>1, <1>3, EndOfFacts DEF Aligned
  <2> QED BY <1>3, <2>1, EndOfFacts
(* A pass that goes round again, or delivers. *)
<1>6. ASSUME taken' = taken, pc' # "poll", EndOf(rx_buf', taken),
             NoActuator(taken) =>
                /\ PassOutcome(rx_buf) # "more"
                /\ rx_buf' = Drop(Aligned(rx_buf), PassUsed(rx_buf))
                /\ CountedPass(stats, stats', rx_buf, PassOutcome(rx_buf))
                /\ \A fs \in Seq(DecodedFrame) : delivered = PayloadsIn[fs] =>
                      delivered' = PayloadsIn[fs \o PassFrame(rx_buf)]
      PROVE  AgreeInv'
  <2>1. ASSUME NoActuator(taken)
        PROVE  \E d \in Decoder, fs \in Seq(DecodedFrame) :
                  Stands(d, fs, rx_buf', stats', delivered', taken)
    <3>1. PICK d \in Decoder, fs \in Seq(DecodedFrame) :
             Stands(d, fs, rx_buf, stats, delivered, taken)
      BY <2>1 DEF AgreeInv
    <3> DEFINE e == Passed(d)
               gs == fs \o PassFrame(rx_buf)
    <3>2. Stands(e, gs, rx_buf', stats', PayloadsIn[gs], taken)
      BY <1>3, <1>6, <2>1, <3>1, PassStands
    <3>3. delivered' = PayloadsIn[gs]
      <4>1. delivered = PayloadsIn[fs]
        BY <3>1 DEF Stands
      <4> QED BY <1>6, <2>1, <4>1
    <3>4. e \in Decoder /\ gs \in Seq(DecodedFrame)
      BY <3>2 DEF Stands
    <3> HIDE DEF e, gs
    <3> QED BY <3>2, <3>3, <3>4
  <2> QED BY <1>2, <1>6, <2>1 DEF AgreeInv
<1>7. CASE NeedMore
  <2>1. /\ rx_buf' = Aligned(rx_buf) /\ stats' = Scanned /\ taken' = taken
        /\ delivered' = delivered
    BY <1>7 DEF NeedMore, Line
  <2>2. PassOutcome(rx_buf) = "more"
    BY <1>1, <1>7, OutcomeOfPass
  <2>3. CountedPass(stats, stats', rx_buf, "more")
    BY <1>1, <2>1, CountIsPass
  <2>4. EndOf(rx_buf', taken)
    BY <1>1, <1>3, <2>1, EndOfFacts DEF Aligned
  <2>5. ASSUME NoActuator(taken)
        PROVE  \E d \in Decoder, fs \in Seq(DecodedFrame) :
                  Stands(d, fs, rx_buf', stats', delivered', taken') /\ Settled(d)
    <3>1. PICK d \in Decoder, fs \in Seq(DecodedFrame) :
             Stands(d, fs, rx_buf, stats, delivered, taken)
      BY <2>5 DEF AgreeInv
    <3> DEFINE e == Passed(d)
    <3>2. Stands(e, fs, rx_buf', stats', delivered', taken') /\ Settled(e)
      BY <1>3, <2>1, <2>2, <2>3, <3>1, MoreStands
    <3>3. e \in Decoder
      BY <3>2 DEF Stands
    <3> HIDE DEF e
    <3> QED BY <3>2, <3>3
  <2> QED BY <1>2, <2>1, <2>4, <2>5 DEF AgreeInv
<1>8. ASSUME NEW field \in {"size", "type", "crc"}, Reject(field, 2), AtFrame,
             NoActuator(taken) => PassOutcome(rx_buf) = field
      PROVE  AgreeInv'
  <2>1. /\ rx_buf' = Drop(Aligned(rx_buf), 2) /\ stats' = Count(field) /\ taken' = taken
        /\ delivered' = delivered /\ pc' # "poll"
    BY <1>8 DEF Reject, Line, AtFrame
  <2>2. EndOf(rx_buf', taken)
    BY <1>3, <1>5, <1>8, <2>1 DEF AtFrame
  <2>3. ASSUME NoActuator(taken)
        PROVE  /\ PassOutcome(rx_buf) # "more"
               /\ PassUsed(rx_buf) = 2
               /\ CountedPass(stats, stats', rx_buf, PassOutcome(rx_buf))
               /\ PassFrame(rx_buf) = << >>
    <3>1. PassOutcome(rx_buf) = field
      BY <1>8, <2>3
    <3>2. CountedPass(stats, Count(field), rx_buf, field)
      BY <1>1, CountIsPass
    <3> QED BY <2>1, <3>1, <3>2 DEF PassUsed, Used, PassFrame, FrameOf
  <2>4. \A fs \in Seq(DecodedFrame) : fs \o << >> = fs
    OBVIOUS
  <2> QED BY <1>6, <2>1, <2>2, <2>3, <2>4
<1>9. CASE Oversized
  <2>1. Reject("size", 2) /\ AtFrame /\ PassOutcome(rx_buf) = "size"
    BY <1>1, <1>9, OutcomeOfPass DEF Oversized, HeaderIn
  <2> QED BY <1>8, <2>1
<1>10. CASE WrongType
  <2>1. /\ Reject("type", 2) /\ AtFrame /\ HasMagic(rx_buf)
        /\ Len(Aligned(rx_buf)) >= OVERHEAD
    BY <1>10 DEF WrongType, HeaderIn, AtFrame
  <2>2. NoActuator(taken) => PassOutcome(rx_buf) = "type"
    BY <1>1, <1>3, <1>10, <2>1, HeaderOfStream, OutcomeOfPass
  <2> QED BY <1>8, <2>1, <2>2
<1>11. CASE CrcMismatch
  <2>1. Reject("crc", 2) /\ AtFrame /\ PassOutcome(rx_buf) = "crc"
    BY <1>1, <1>11, OutcomeOfPass DEF CrcMismatch, FrameIn, HeaderIn
  <2> QED BY <1>8, <2>1
<1>12. CASE WrongSize \/ Deliver
  <2> DEFINE a == Aligned(rx_buf)
             f == [frame_type |-> TypeOf(a), payload |-> PayloadOf(a)]
  <2>1. PassOutcome(rx_buf) = "frame" /\ FrameIn /\ pc = "extract"
    BY <1>1, <1>12, OutcomeOfPass DEF WrongSize, Deliver, FrameIn, HeaderIn, AtFrame
  <2>2. /\ rx_buf' = Drop(a, TotalOf(a)) /\ taken' = taken /\ pc' # "poll"
    BY <1>12, <2>1 DEF WrongSize, Deliver, Reject, Line
  <2>3. /\ PassUsed(rx_buf) = TotalOf(a) /\ PassUsed(rx_buf) \in 0 .. Len(a)
        /\ Len(a) >= OVERHEAD /\ TotalOf(a) <= Len(a)
    BY <1>3, <2>1, OutcomeFacts
  <2>4. EndOf(rx_buf', taken)
    BY <1>5, <2>2, <2>3
  <2>5. f \in DecodedFrame /\ PassFrame(rx_buf) = <<f>> /\ f.payload = PayloadOf(a)
        /\ Len(f.payload) = LengthOf(a)
    <3>1. PICK g \in DecodedFrame : /\ PassFrame(rx_buf) = <<g>> /\ g = f
                                    /\ PassUsed(rx_buf) = OVERHEAD + Len(g.payload)
      BY <1>3, <2>1, FrameFacts
    <3>2. Len(f.payload) \in Nat /\ LengthOf(a) \in Nat
      BY <1>3, <2>3, <3>1, HeaderFacts DEF DecodedFrame
    <3>3. f.payload = PayloadOf(a)
      OBVIOUS
    <3> DEFINE m == Len(f.payload)
               l == LengthOf(a)
    <3>4. 7 + l = 7 + m
      BY <2>3, <3>1 DEF TotalOf, OVERHEAD, HEADER_SIZE, CRC_SIZE
    <3> HIDE DEF m, l
    <3>5. m = l
      BY <3>2, <3>4 DEF m, l
    <3> QED BY <3>1, <3>3, <3>5 DEF m, l
  <2>6. /\ WrongSize => /\ stats' = Count("size") /\ delivered' = delivered
                        /\ LengthOf(a) # SENSOR_SIZE
        /\ Deliver => /\ stats' = Count("ok") /\ delivered' = Append(delivered, PayloadOf(a))
                      /\ LengthOf(a) = SENSOR_SIZE
    BY DEF WrongSize, Deliver, Reject
  <2>7. CountedPass(stats, stats', rx_buf, PassOutcome(rx_buf))
    <3>1. \/ stats' = Count("size")
          \/ stats' = Count("ok")
      BY <1>12, <2>6
    <3>2. ASSUME NEW field \in {"ok", "size"}
          PROVE  CountedPass(stats, Count(field), rx_buf, "frame")
      BY <1>1, CountIsPass
    <3> QED BY <2>1, <3>1, <3>2
  <2> HIDE DEF f, a
  <2>8. ASSUME NEW fs \in Seq(DecodedFrame), delivered = PayloadsIn[fs]
        PROVE  delivered' = PayloadsIn[fs \o <<f>>]
    <3>1. /\ PayloadsIn[fs \o <<f>>] = PayloadsIn[fs] \o Sized(f)
          /\ PayloadsIn[fs] \in Seq(Seq(Byte))
      BY <2>5, PayloadsGrow
    <3>2. f.payload \in Seq(Byte)
      BY <2>5 DEF DecodedFrame
    <3>3. CASE WrongSize
      <4>1. Sized(f) = << >> /\ delivered' = delivered
        BY <2>5, <2>6, <3>3 DEF Sized
      <4> QED BY <2>8, <3>1, <4>1
    <3>4. CASE Deliver
      <4>1. Sized(f) = <<f.payload>> /\ delivered' = Append(delivered, f.payload)
        BY <2>5, <2>6, <3>4 DEF Sized
      <4>2. \A q \in Seq(Seq(Byte)), x \in Seq(Byte) : Append(q, x) = q \o <<x>>
        OBVIOUS
      <4> QED BY <2>8, <3>1, <3>2, <4>1, <4>2
    <3> QED BY <1>12, <3>3, <3>4
  <2> QED BY <1>6, <2>1, <2>2, <2>3, <2>4, <2>5, <2>7, <2>8 DEF a
<1>13. ASSUME NEW n \in 1 .. RX_BUFFER_SIZE, Receive(n) PROVE AgreeInv'
  <2> DEFINE y == SubSeq(net, 1, n)
  <2>1. Kept = rx_buf /\ pc = "poll"
    <3>1. Len(rx_buf) < OVERHEAD + PROTO_MAX_PAYLOAD /\ pc = "poll"
      BY <1>1, <1>13 DEF RoomToReceive, Receive
    <3>2. Len(rx_buf) \in Nat /\ OVERHEAD \in Nat /\ PROTO_MAX_PAYLOAD \in Nat
      BY <1>3, SizeAssumption DEF OVERHEAD, HEADER_SIZE, CRC_SIZE
    <3>3. ~(Len(rx_buf) >= RX_BUFFER_SIZE)
      BY <3>1, <3>2, BufferAssumption
    <3> QED BY <3>1, <3>3 DEF Kept
  <2>2. /\ rx_buf' = rx_buf \o y /\ taken' = taken \o y /\ delivered' = delivered
        /\ pc' # "poll" /\ n <= Len(net)
        /\ stats' = [stats EXCEPT !.dropped = @ + (Len(rx_buf) - Len(Kept))]
    BY <1>13, <2>1 DEF Receive
  <2>3. stats' = stats
    <3>1. Len(rx_buf) - Len(rx_buf) = 0
      BY <1>3
    <3> QED BY <1>3, <2>1, <2>2, <3>1 DEF Stats
  <2>4. y \in Seq(Byte)
    BY <1>1, <1>13, <2>2, BufferAssumption DEF TypeOK
  <2> HIDE DEF y
  <2>5. EndOf(rx_buf', taken')
    BY <1>1, <1>3, <2>2, <2>4, EndOfFacts
  <2>6. ASSUME NoActuator(taken')
        PROVE  \E d \in Decoder, fs \in Seq(DecodedFrame) :
                  Stands(d, fs, rx_buf', stats', delivered', taken')
    <3>1. NoActuator(taken)
      BY <1>3, <2>2, <2>4, <2>6, NoActuatorBefore
    <3>2. PICK d \in Decoder, fs \in Seq(DecodedFrame) :
             Stands(d, fs, rx_buf, stats, delivered, taken) /\ Settled(d)
      BY <2>1, <3>1 DEF AgreeInv
    <3> DEFINE e == Feed(d, y)
    <3>3. Stands(e, fs, rx_buf', stats', delivered', taken')
      BY <1>3, <2>2, <2>3, <2>4, <3>2, ReceiveStands
    <3>4. e \in Decoder
      BY <3>3 DEF Stands
    <3> HIDE DEF e
    <3> QED BY <3>3, <3>4
  <2> QED BY <1>2, <2>2, <2>5, <2>6 DEF AgreeInv
<1>14. CASE Call \/ PollTimeout \/ PollHangup
  BY <1>4, <1>14 DEF Call, PollTimeout, PollHangup, Return
<1>15. CASE PeerClose \/ \E seg \in Segments : PeerSend(seg)
  BY <1>4, <1>15 DEF PeerClose, PeerSend
<1>16. CASE UNCHANGED vars
  BY <1>4, <1>16 DEF vars
<1> QED BY <1>7, <1>9, <1>10, <1>11, <1>12, <1>13, <1>14, <1>15, <1>16
        DEF Next, Extract

(* On every stream without an actuator header, cut into any chunks and     *)
(* over any number of calls, try_extract_frame and the plant's decoder     *)
(* make the same of the bytes: payloads, leftover and error counts.        *)
THEOREM TwoDecodersOneStream == Spec => []DecodersAgree
<1>1. AgreeInv => DecodersAgree
  <2> SUFFICES ASSUME AgreeInv, pc = "poll", NoActuator(taken)
               PROVE  /\ delivered = PayloadsIn[AtOnce.frames]
                      /\ rx_buf = AtOnce.dec.buf
                      /\ stats.crc = AtOnce.dec.errors_crc
                      /\ stats.type = AtOnce.dec.errors_type
                      /\ stats.dropped = AtOnce.dec.bytes_dropped
                      /\ stats.ok + stats.size = AtOnce.dec.errors_size + Len(AtOnce.frames)
    BY DEF DecodersAgree
  <2>1. PICK d \in Decoder, fs \in Seq(DecodedFrame) :
           Stands(d, fs, rx_buf, stats, delivered, taken) /\ Settled(d)
    BY DEF AgreeInv
  <2>2. Drain(d).dec = d /\ Drain(d).frames = << >>
    BY <2>1 DEF Settled
  <2>3. fs \o << >> = fs
    OBVIOUS
  <2>4. AtOnce.dec = d /\ AtOnce.frames = fs
    BY <2>1, <2>2, <2>3 DEF AtOnce, Stands
  <2> QED BY <2>1, <2>4 DEF Stands
<1> QED BY <1>1, AgreeInit, AgreeStep, PTL DEF Spec
=============================================================================
