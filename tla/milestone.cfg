\* Plant and ping client on real bytes and the real checksum.
SPECIFICATION Spec
CONSTANTS
    None = None
    PROTO_MAX_PAYLOAD = 64
    SENSOR_SIZE = 18
    Crc <- Crc16Ccitt
    FrameCounts = {0, 1, 3}
    ClientLimits = {0, 2}
    Clock <- McClock
    Speed <- McSpeed
    Omega <- McOmega
    Close <- McClose
INVARIANTS
    EchoFaithful
    CrcIsRemainder
    FlipNeverDelivered
