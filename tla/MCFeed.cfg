CONSTANTS
    q1 = q1
    q2 = q2
    k1 = k1
    k2 = k2
    Requests = {q1, q2}
    Streams = {k1, k2}
    NodeStreams = {k2}
    Cap = 3
    ChunkSize = 2
    Message = 3
    MaxSeq = 7
    Settings <- MCSettings
SPECIFICATION Spec
INVARIANTS FeedInv OnlyDurableSent NextIsNext ChangesFollow AnsweredSent StallCostsOneWait
PROPERTIES Answered Delivered
CHECK_DEADLOCK FALSE
