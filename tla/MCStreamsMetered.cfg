CONSTANTS
    Streams = {s1}
    MaxEvents = 2
    ChunkSize = 2
SPECIFICATION StreamingSpec
INVARIANT StreamsAreMetered
CHECK_DEADLOCK FALSE
