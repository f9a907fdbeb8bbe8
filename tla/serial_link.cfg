\* One sender Packet object, two send() calls of up to MAX_MTU = 2 bytes,
\* a one-byte hardware FIFO in front of the MAX_MTU-byte RX ring.
CONSTANTS
    Null = Null
    MaxMtu = 2
    Bytes = {0, 1}
    Ids = {0, 1}
    FifoCap = 1
    MaxSubmits = 2
    MaxAttempts = 2
SPECIFICATION FairSpec
INVARIANTS TypeOK PayloadIsLastWritten TruncatedPacketsReportedNotResent PeerStreamIsSentStream
PROPERTY AllBytesSettle SerialLinkRefinesByteStream
CHECK_DEADLOCK FALSE
