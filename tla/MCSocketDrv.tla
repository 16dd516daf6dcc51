----------------------------- MODULE MCSocketDrv -----------------------------
(***************************************************************************)
(* The receive driver on small streams: a payload of one byte, at most     *)
(* three, and a checksum that tells the segments apart.  The streams put   *)
(* together intact frames, damaged ones and garbage that looks like the    *)
(* start of a frame, and the driver receives them in any chunks.           *)
(***************************************************************************)
EXTENDS SocketDrv, FrameDecoder

SE == INSTANCE SequencesExt

McCrc(body) == SE!FoldSeq(LAMBDA b, acc : (31 * acc + b) % 65536, 65535, body)

Intact    == {Encode(TYPE_SENSOR, <<7>>), Encode(TYPE_SENSOR, <<85>>)}
Flipped   == [Encode(TYPE_SENSOR, <<7>>) EXCEPT ![6] = 248]
LongClaim == [Encode(TYPE_SENSOR, <<7>>) EXCEPT ![4] = 3]
HugeClaim == [Encode(TYPE_SENSOR, <<7>>) EXCEPT ![5] = 1]
Foreign   == Encode(TYPE_ACTUATOR, <<7>>)
TwoBytes  == Encode(TYPE_SENSOR, <<85, 170>>)
HalfMagic == <<9, 85>>
FalseHead == <<85, 170, 1, 2, 0>>

AllSegments == Intact \cup {Flipped, LongClaim, HugeClaim, Foreign, TwoBytes,
                            HalfMagic, FalseHead}

-----------------------------------------------------------------------------

SentBefore(k) == Len(SE!FlattenSeq(SubSeq(sent, 1, k)))

(* Bytes that have left the driver's buffer for good. *)
Consumed == Len(taken) - Len(rx_buf)

PayloadsOf(K) ==
    LET order == SE!SetToSortSeq(K, LAMBDA i, j : i < j)
    IN  [i \in 1 .. Len(order) |-> PayloadOf(sent[order[i]])]

IntactSent == {k \in 1 .. Len(sent) : sent[k] \in Intact}

(* Resynchronisation loses no intact frame: whatever damage precedes it,   *)
(* and however the stream is cut into chunks, the bytes of an intact frame *)
(* leave the buffer together, as a delivery, in the order of sending; and  *)
(* nothing else is ever delivered.                                         *)
NothingIntactLost ==
    LET passed == {k \in IntactSent : Consumed > SentBefore(k - 1)}
    IN  /\ \A k \in passed : Consumed >= SentBefore(k)
        /\ delivered = PayloadsOf(passed)

(* What the plant's decoder makes of all the bytes received so far.        *)
AtOnce == Drain(Feed(NewDecoder, taken))

(* The payloads of the frames that are as long as a sensor frame.          *)
PayloadsIn[frames \in Seq(DecodedFrame)] ==
    IF frames = << >> THEN << >>
    ELSE (IF Len(Head(frames).payload) = SENSOR_SIZE
          THEN <<Head(frames).payload>> ELSE << >>) \o PayloadsIn[Tail(frames)]

(* No actuator header, which only the plant accepts, anywhere in b.        *)
NoActuator(b) ==
    \A i \in 1 .. Len(b) - 2 : MagicAt(b, i) => b[i + 2] # TYPE_ACTUATOR

(* The C driver, fed in chunks across several calls, and the plant's       *)
(* Python decoder, fed the same bytes at once, agree whenever the driver   *)
(* waits for more: same sensor payloads, same leftover, same counts.  The  *)
(* one difference is a good frame of another size, which is a frame to the *)
(* plant and a size error to the driver.                                   *)
DecodersAgree ==
    pc = "poll" /\ NoActuator(taken) =>
        /\ delivered = PayloadsIn[AtOnce.frames]
        /\ rx_buf = AtOnce.dec.buf
        /\ stats.crc = AtOnce.dec.errors_crc
        /\ stats.type = AtOnce.dec.errors_type
        /\ stats.dropped = AtOnce.dec.bytes_dropped
        /\ stats.ok + stats.size = AtOnce.dec.errors_size + Len(AtOnce.frames)
=============================================================================
