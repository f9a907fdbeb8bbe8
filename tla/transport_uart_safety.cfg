\* UART channel: sendImpl succeeds or fails fatally (short write); frames
\* arrive and the receive handler replies via send(); bind() only while stopped.
CONSTANTS
    a1 = a1  a2 = a2  p1 = p1  p2 = p2  p3 = p3  d1 = d1  d2 = d2  e1 = e1
    Worker = Worker
    InvalidPacket = InvalidPacket
    NoCallback = NoCallback
    NoPacket = NoPacket
    Apps <- MCApps
    Packets <- MCPackets3
    DataHandlers <- MCDataHandlers1
    ErrorHandlers <- MCErrorHandlers
    QueueCap = 2
    Interval = 2
    Adapters = {"UART"}
    MaxArrivals = 1
    MaxLinkFaults = 0
    BindWhileRunning = FALSE
    HandlerBinds = TRUE
SYMMETRY MCSymmetry
SPECIFICATION Spec
INVARIANTS TypeOK PacketAccounting FifoUnlessRetried
PROPERTY RateLimited TransportRefinesQueue
VIEW MCViewNoStale
