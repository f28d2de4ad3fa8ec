SPECIFICATION Spec
CONSTANTS
    longest = 9
    Recordings <- MCRecordings
    max_chunk_sec = 6
    min_chunk_sec = 2
    overlap_sec = 1
INVARIANT EveryChunkFits
CHECK_DEADLOCK FALSE
