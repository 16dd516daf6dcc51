\* Two connections, three segments in any chunks, resets and reconnects.
SPECIFICATION HSpec
CONSTANTS
    PROTO_MAX_PAYLOAD = 3
    SENSOR_SIZE = 1
    ACTUATOR_SIZE = 1
    Crc <- McCrc
    None = None
    Closed = Closed
    ValueError = ValueError
    CHUNK = 9
    Segments <- McSegments
    MAX_SEGMENTS = 3
    MAX_CONNECTIONS = 2
    MAX_SENT = 1
INVARIANTS
    DecoderBelongs
    BytesAccounted
PROPERTIES
    QueueSpec
