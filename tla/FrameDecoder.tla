---------------------------- MODULE FrameDecoder ----------------------------
(***************************************************************************)
(* plant/protocol.py: FrameDecoder, the plant's own decoder of the same    *)
(* stream, as a function of the bytes it was fed.  A decoder is the record *)
(*     [buf, errors_crc, errors_size, errors_type, bytes_dropped].         *)
(***************************************************************************)
EXTENDS Wire

Decoder == [buf : Seq(Byte), errors_crc : Nat, errors_size : Nat,
            errors_type : Nat, bytes_dropped : Nat]

DecodedFrame == [frame_type : Byte, payload : Seq(Byte)]

NewDecoder == [buf |-> << >>, errors_crc |-> 0, errors_size |-> 0,
               errors_type |-> 0, bytes_dropped |-> 0]

Feed(d, data) == [d EXCEPT !.buf = @ \o data]

(* Mutant: the byte that is kept for the next scan counts as dropped. *)
ResyncOffByOne(d) ==
    [d EXCEPT !.buf = Aligned(@),
              !.bytes_dropped = @ + IF HasMagic(d.buf) THEN Skipped(d.buf)
                                    ELSE Len(d.buf)]

(* The decoder past the scan for the magic. *)
Resync(d) ==
    LET n == Skipped(d.buf)
    IN  [d EXCEPT !.buf = Drop(@, n), !.bytes_dropped = @ + n]

(* How a pass of _try_one ends, a being the buffer past the scan: it waits *)
(* for more bytes (also when the scan has found no magic and left at most  *)
(* one), it rejects what stands behind the magic, or it has a frame.       *)
Outcome(a) ==
    IF Len(a) < OVERHEAD THEN "more"
    ELSE IF LengthOf(a) > PROTO_MAX_PAYLOAD THEN "size"
    ELSE IF TypeOf(a) \notin {TYPE_SENSOR, TYPE_ACTUATOR} THEN "type"
    ELSE IF Len(a) < TotalOf(a) THEN "more"
    ELSE IF CrcOk(a) THEN "frame" ELSE "crc"

One(condition) == IF condition THEN 1 ELSE 0

(* The bytes the pass takes: a rejected frame loses its magic only. *)
Used(a, how) == IF how = "more" THEN 0 ELSE IF how = "frame" THEN TotalOf(a) ELSE 2

(* The decoder after the pass, r being the decoder past the scan. *)
After(r, how) ==
    [buf |-> Drop(r.buf, Used(r.buf, how)),
     errors_crc |-> r.errors_crc + One(how = "crc"),
     errors_size |-> r.errors_size + One(how = "size"),
     errors_type |-> r.errors_type + One(how = "type"),
     bytes_dropped |-> r.bytes_dropped]

(* The frame of the pass, if it has one: a sequence of length 0 or 1. *)
FrameOf(a, how) ==
    IF how = "frame"
    THEN <<[frame_type |-> TypeOf(a), payload |-> PayloadOf(a)]>> ELSE << >>

(* drain: the loop of drain and the tail calls of _try_one, pass by pass,  *)
(* until one waits for more.                                               *)
DrainAll[d \in Decoder] ==
    LET r   == Resync(d)
        how == Outcome(r.buf)
    IN  IF how = "more" THEN [dec |-> r, frames |-> << >>]
        ELSE LET rest == DrainAll[After(r, how)]
             IN  [dec |-> rest.dec, frames |-> FrameOf(r.buf, how) \o rest.frames]

Drain(d) == DrainAll[d]
=============================================================================
