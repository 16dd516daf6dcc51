\* Streams of up to three segments, cut into any chunks.
SPECIFICATION FairSpec
CONSTANTS
    PROTO_MAX_PAYLOAD = 3
    SENSOR_SIZE = 1
    Crc <- McCrc
    RX_BUFFER_SIZE = 11
    Segments <- AllSegments
    MAX_SEGMENTS = 3
INVARIANTS
    TypeOK
    RoomToReceive
    NothingIntactLost
    DecodersAgree
PROPERTIES
    ExtractEnds
