------------------------------ MODULE Milestone ------------------------------
(***************************************************************************)
(* scripts/milestone_w1.py against controller/tests/ping_client.c: the     *)
(* plant sends a sensor frame, the client echoes its speed as a brake      *)
(* command, and the plant compares, frame by frame; on real bytes, packed, *)
(* framed and checked by both sides.                                       *)
(***************************************************************************)
EXTENDS Codec

CONSTANTS
    None,
    FrameCounts,    \* values of --frames
    ClientLimits,   \* values of ping_client's max_frames, 0 for none
    Clock,          \* timestamps
    Speed, Omega,   \* by frame, the float images of v and v / 0.30
    Close           \* by frame, the images within 1e-3 of v

ASSUME MilestoneAssumption ==
    /\ FrameCounts \subseteq Nat /\ ClientLimits \subseteq Nat
    /\ \A k \in DOMAIN Speed : Speed[k] \in Close[k]

VARIABLES
    frames, phase,      \* the argument; send, wait, returned or raised
    i, mismatches, dec, \* the loop's variables and the link's decoder
    verdict,            \* what run returned
    sent, answer,       \* the last sensor frame sent, the last answer
    limit, client,      \* max_frames; up or gone
    handled, shown, replied,    \* count, last frame read, last one written
    down, up            \* the bytes under way

plant == <<frames, phase, i, mismatches, dec, verdict, sent, answer>>
peer  == <<limit, client, handled, shown, replied>>
vars  == <<plant, peer, down, up>>

(* listen and accept are done, the client is connected. *)
Init ==
    /\ frames \in FrameCounts /\ limit \in ClientLimits
    /\ phase = "send" /\ i = 0 /\ mismatches = 0 /\ dec = NewDecoder
    /\ verdict = None /\ sent = None /\ answer = None
    /\ client = "up" /\ handled = 0 /\ shown = None /\ replied = None
    /\ down = << >> /\ up = << >>

Zero == <<0, 0, 0, 0>>

(* send_sensor; the client that has left may or may not be noticed.        *)
Send(now) ==
    /\ phase = "send" /\ i < frames
    /\ sent' = [timestamp_ms |-> now, v_vehicle |-> Speed[i],
                omega_wheel |-> Omega[i], brake_pressure |-> Zero,
                fault_flags |-> 0]
    /\ \/ /\ phase' = "wait"
          /\ \E payload \in {SensorPack(sent')} :
                down' = down \o Encode(TYPE_SENSOR, payload)
       \/ client = "gone" /\ phase' = "raised" /\ UNCHANGED down
    /\ UNCHANGED <<frames, i, mismatches, dec, verdict, answer, peer, up>>

(* recv_actuator gives the echo; bytes without one are waited on. *)
Compare ==
    /\ phase = "wait" /\ up # << >>
    /\ up' = << >>
    /\ \E batch \in {Drain(Feed(dec, up))} :
        /\ dec' = batch.dec
        /\ IF batch.frames = << >> THEN UNCHANGED <<phase, i, answer, mismatches>>
           ELSE
              /\ answer' = ActuatorUnpack(batch.frames[1].payload)
              /\ mismatches' = IF answer'.brake_command \in Close[i]
                               THEN mismatches ELSE mismatches + 1
              /\ phase' = "send" /\ i' = i + 1
    /\ UNCHANGED <<frames, verdict, sent, peer, down>>

(* The timeout ends the run, a closed connection raises. *)
NoAnswer ==
    /\ phase = "wait" /\ up = << >>
    /\ IF client = "up" THEN phase' = "returned" /\ verdict' = 1
       ELSE phase' = "raised" /\ UNCHANGED verdict
    /\ UNCHANGED <<frames, i, mismatches, dec, sent, answer, peer, down, up>>

(* The verdict; the quantiles need two latencies and raise without them.   *)
Report(slow) ==
    /\ phase = "send" /\ i = frames
    /\ IF frames < 2 THEN phase' = "raised" /\ UNCHANGED verdict
       ELSE /\ phase' = "returned"
            /\ verdict' = IF mismatches > 0 \/ dec.errors_crc > 0 \/ slow
                          THEN 1 ELSE 0
    /\ UNCHANGED <<frames, i, mismatches, dec, sent, answer, peer, down, up>>

Run ==
    \/ \E now \in Clock : Send(now)
    \/ Compare \/ NoAnswer
    \/ \E slow \in BOOLEAN : Report(slow)

-----------------------------------------------------------------------------

ECU_MONITOR == 2

(* The client reads a frame and echoes it; it leaves after max_frames.     *)
ClientEcho(now) ==
    /\ client = "up" /\ down # << >>
    /\ down' = << >>
    /\ \E read \in {Drain(Feed(NewDecoder, down)).frames} :
        IF read = << >> THEN UNCHANGED <<up, peer>>
        ELSE
           /\ shown' = SensorRead(read[1].payload)
           /\ replied' = [timestamp_ms |-> now, brake_command |-> shown'.v_vehicle,
                          ecu_status |-> ECU_MONITOR, dtc_code |-> 0]
           /\ \E payload \in {ActuatorWrite(replied')} :
                up' = up \o Encode(TYPE_ACTUATOR, payload)
           /\ handled' = handled + 1
           /\ client' = IF limit # 0 /\ handled' >= limit THEN "gone" ELSE "up"
           /\ UNCHANGED limit
    /\ UNCHANGED plant

(* A signal, or the plant's end. *)
ClientLeaves ==
    /\ client = "up" /\ client' = "gone"
    /\ UNCHANGED <<plant, limit, handled, shown, replied, down, up>>

Over == phase \in {"returned", "raised"} /\ client = "gone" /\ UNCHANGED vars

Next ==
    \/ Run
    \/ \E now \in Clock : ClientEcho(now)
    \/ ClientLeaves
    \/ Over

Spec == Init /\ [][Next]_vars

-----------------------------------------------------------------------------

(* The formats of the plant and the structs of the C side agree: whatever  *)
(* the plant packs, the client reads field by field, and the other way     *)
(* round; and a script that gives up at its first timeout never takes an   *)
(* answer for that of another frame, unlike run_scenario.  So no echo is a *)
(* mismatch, and success means that the client has handled every frame.    *)
EchoFaithful ==
    /\ up # << >> => shown = sent
    /\ phase = "send" /\ i > 0 => answer = replied
    /\ mismatches = 0
    /\ verdict = 0 => handled = frames

Framed(wire) == SubSeq(wire, 3, Len(wire) - CRC_SIZE)

(* "123456789", of crc16_ccitt's docstring and controller/tests/test_crc.c.*)
CheckString == <<49, 50, 51, 52, 53, 54, 55, 56, 57>>

(* The bit by bit checksum of every frame under way is its remainder       *)
(* modulo the generator polynomial, and the known answer is 0x29B1.        *)
CrcIsRemainder ==
    /\ Crc(CheckString) = 10673
    /\ \A wire \in {down, up} \ {<< >>} :
        Crc(Framed(wire)) = Remainder(Framed(wire))

(* CrcCorruptionFault.mutate_wire on offset o, when it acts. *)
FlippedAt(wire, o) == [wire EXCEPT ![o + 1] = @ ^^ 255]

(* Wherever the injector flips a byte, magic, header or payload, and       *)
(* whatever the payload holds, magic bytes included, nothing is decoded    *)
(* from the frame; and a flip in the payload counts as a CRC error.        *)
FlipNeverDelivered ==
    \A o \in 0 .. Len(down) - 3 :
        LET batch == Drain(Feed(NewDecoder, FlippedAt(down, o)))
        IN  /\ batch.frames = << >>
            /\ o >= HEADER_SIZE => batch.dec.errors_crc > 0
=============================================================================
