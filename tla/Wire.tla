-------------------------------- MODULE Wire --------------------------------
(***************************************************************************)
(* The frame envelope both ends use (drivers/protocol.h, plant/protocol.py)*)
(*     magic(2) type(1) length(2) payload(length) crc(2)                   *)
(* little endian.  A byte is a number below 256 and a stream of bytes a    *)
(* sequence.  The checksum itself is a parameter: what the decoders need   *)
(* of it is that both ends compute the same function.                      *)
(***************************************************************************)
EXTENDS Integers, Sequences

CONSTANTS
    PROTO_MAX_PAYLOAD,  \* 64
    SENSOR_SIZE,        \* sizeof(sensor_payload_t): 18
    Crc(_)              \* crc16_ccitt over type || length || payload

Byte == 0 .. 255

ASSUME SizeAssumption ==
    /\ PROTO_MAX_PAYLOAD \in Nat
    /\ SENSOR_SIZE \in 0 .. PROTO_MAX_PAYLOAD

MAGIC_LO == 85      \* 0xAA55, low byte first
MAGIC_HI == 170
TYPE_SENSOR == 1
TYPE_ACTUATOR == 2
HEADER_SIZE == 5
CRC_SIZE == 2
OVERHEAD == HEADER_SIZE + CRC_SIZE

(* encode_frame. *)
Encode(type, payload) ==
    LET n    == Len(payload)
        body == <<type, n % 256, n \div 256>> \o payload
    IN  <<MAGIC_LO, MAGIC_HI>> \o body
            \o <<Crc(body) % 256, Crc(body) \div 256>>

(* The scan for the magic: where it stands in b, or the last byte (which   *)
(* may be the first half of one), or 1 for a buffer too short to scan.     *)
MagicAt(b, i) == b[i] = MAGIC_LO /\ b[i + 1] = MAGIC_HI

HasMagic(b) == \E i \in 1 .. Len(b) - 1 : MagicAt(b, i)

ScanEnd(b) ==
    IF HasMagic(b)
    THEN CHOOSE i \in 1 .. Len(b) - 1 :
            MagicAt(b, i) /\ \A j \in 1 .. i - 1 : ~MagicAt(b, j)
    ELSE IF Len(b) > 0 THEN Len(b) ELSE 1

Drop(b, n) == SubSeq(b, n + 1, Len(b))

(* The buffer once everything before the scan's end is dropped. *)
Skipped(b) == ScanEnd(b) - 1

Aligned(b) == Drop(b, Skipped(b))

(* The fields of a frame that starts at the head of b. *)
TypeOf(b) == b[3]

LengthOf(b) == b[4] + 256 * b[5]

TotalOf(b) == OVERHEAD + LengthOf(b)

PayloadOf(b) == SubSeq(b, HEADER_SIZE + 1, HEADER_SIZE + LengthOf(b))

(* Mutant: a frame with a whole checksum is taken as it is. *)
CrcOkUnchecked(b) == b[TotalOf(b)] \in Byte

CrcOk(b) ==
    b[TotalOf(b) - 1] + 256 * b[TotalOf(b)]
        = Crc(SubSeq(b, 3, HEADER_SIZE + LengthOf(b)))
=============================================================================
