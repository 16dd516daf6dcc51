-------------------------------- MODULE Codec --------------------------------
(***************************************************************************)
(* plant/protocol.py against drivers/protocol.h: the checksum both sides   *)
(* compute bit by bit, the payloads the plant packs by format string, and  *)
(* the packed structs the ECU copies them into.                            *)
(*                                                                         *)
(* A uint32_t is the pair <<high, low>> of its halves; a float is the four *)
(* bytes of its binary32 image, which both sides store alike.              *)
(***************************************************************************)
EXTENDS FrameDecoder, Bitwise
LOCAL INSTANCE SequencesExt
LOCAL INSTANCE FiniteSetsExt

Uint16 == 0 .. 65535

(* One of the eight shifts a byte takes; the top bit decides. *)
Shift(crc) ==
    IF crc & 32768 # 0 THEN ((2 * crc) ^^ 4129) % 65536 ELSE (2 * crc) % 65536

(* Mutant: the register starts at 0. *)
Crc16CcittFromZero(data) ==
    LET shift[bit \in 0 .. 8, crc \in Uint16] ==
            IF bit = 8 THEN crc ELSE shift[bit + 1, Shift(crc)]
        over[bytes \in Seq(Byte), crc \in Uint16] ==
            IF bytes = << >> THEN crc
            ELSE over[Tail(bytes), shift[0, crc ^^ (256 * Head(bytes))]]
    IN  over[data, 0]

(* crc16_ccitt: polynomial 0x1021, register 0xFFFF, most significant bit   *)
(* first, in a register that never leaves 16 bits.                         *)
Crc16Ccitt(data) ==
    LET shift[bit \in 0 .. 8, crc \in Uint16] ==
            IF bit = 8 THEN crc ELSE shift[bit + 1, Shift(crc)]
        over[bytes \in Seq(Byte), crc \in Uint16] ==
            IF bytes = << >> THEN crc
            ELSE over[Tail(bytes), shift[0, crc ^^ (256 * Head(bytes))]]
    IN  over[data, 65535]

-----------------------------------------------------------------------------
(* struct: the codes I, f and H, little endian and without padding.        *)

Halfword(n) == <<n % 256, n \div 256>>

PackField(code, x) ==
    CASE code = "I" -> Halfword(x[2]) \o Halfword(x[1])
      [] code = "H" -> Halfword(x)
      [] code = "f" -> x

UnpackField(code, b) ==
    CASE code = "I" -> <<b[3] + 256 * b[4], b[1] + 256 * b[2]>>
      [] code = "H" -> b[1] + 256 * b[2]
      [] code = "f" -> b

CodeSize(code) == IF code = "H" THEN 2 ELSE 4

(* How many bytes the fields before field i take. *)
Offset(codes, i) ==
    FoldLeft(LAMBDA n, code : n + CodeSize(code), 0, SubSeq(codes, 1, i - 1))

Field(codes, data, i) ==
    LET o == Offset(codes, i)
    IN  UnpackField(codes[i], SubSeq(data, o + 1, o + CodeSize(codes[i])))

Pack(fmt, values) ==
    FlattenSeq([i \in 1 .. Len(fmt) |-> PackField(fmt[i], values[i])])

SENSOR_FMT == <<"I", "f", "f", "f", "H">>
ACTUATOR_FMT == <<"I", "f", "H", "H">>

Masked32(n) == <<n[1] % 65536, n[2]>>

(* Mutant: wheel and vehicle speed change places. *)
SensorPackSwapped(f) ==
    Pack(SENSOR_FMT, <<Masked32(f.timestamp_ms), f.omega_wheel, f.v_vehicle,
                       f.brake_pressure, f.fault_flags % 65536>>)

(* SensorFrame.pack_payload, and ActuatorFrame.unpack_payload on a payload *)
(* of its own size (module PlantLink has the others).                      *)
SensorPack(f) ==
    Pack(SENSOR_FMT, <<Masked32(f.timestamp_ms), f.v_vehicle, f.omega_wheel,
                       f.brake_pressure, f.fault_flags % 65536>>)

ActuatorUnpack(data) ==
    [timestamp_ms  |-> Field(ACTUATOR_FMT, data, 1),
     brake_command |-> Field(ACTUATOR_FMT, data, 2),
     ecu_status    |-> Field(ACTUATOR_FMT, data, 3),
     dtc_code      |-> Field(ACTUATOR_FMT, data, 4)]

-----------------------------------------------------------------------------
(* The packed structs of protocol.h, on a little endian machine.           *)

SensorStruct == <<"I", "f", "f", "f", "H">>
ActuatorStruct == <<"I", "f", "H", "H">>

(* memcpy from the frame into sensor_payload_t, and from actuator_payload_t*)
(* into the frame.                                                         *)
SensorRead(data) ==
    [timestamp_ms   |-> Field(SensorStruct, data, 1),
     v_vehicle      |-> Field(SensorStruct, data, 2),
     omega_wheel    |-> Field(SensorStruct, data, 3),
     brake_pressure |-> Field(SensorStruct, data, 4),
     fault_flags    |-> Field(SensorStruct, data, 5)]

ActuatorWrite(a) ==
    Pack(ActuatorStruct,
         <<a.timestamp_ms, a.brake_command, a.ecu_status, a.dtc_code>>)

-----------------------------------------------------------------------------
(* What the checksum should be: the remainder of the message, with its     *)
(* first 16 bits inverted and 16 zero bits appended, modulo                *)
(* x^16 + x^12 + x^5 + 1.  A polynomial over GF(2) is its set of exponents.*)

Exponents(data) ==
    LET bits == 8 * Len(data)
        Bit(e) == (data[Len(data) - (e \div 8)] \div 2^(e % 8)) % 2
    IN  SymDiff({e + 16 : e \in {x \in 0 .. bits - 1 : Bit(x) = 1}},
                bits .. bits + 15)

(* The polynomial p of degree below d + 8, reduced below degree d >= 16.   *)
Reduce8(p, d) ==
    LET rest[e \in 0 .. 8] ==
            IF e = 8 THEN p
            ELSE LET q == rest[e + 1] IN
                 IF d + e \in q
                 THEN SymDiff(q, {d + e - k : k \in {0, 4, 11, 16}}) ELSE q
    IN  rest[0]

Remainder(data) ==
    LET n == Len(data)
        rest[b \in 0 .. n] ==
            IF b = n THEN Exponents(data)
            ELSE LET q == rest[b + 1]
                 IN  IF q = {} THEN {} ELSE Reduce8(q, 8 * b + 16)
    IN  FoldSet(LAMBDA e, sum : sum + 2^e, 0, rest[0])
=============================================================================
