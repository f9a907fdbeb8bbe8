\* BLE channel: sendImpl may return every esp_err_t class, so the retry
\* path of handleSendError is exercised; bind() only while stopped.
CONSTANTS
    a1 = a1  a2 = a2  p1 = p1  p2 = p2  p3 = p3  d1 = d1  d2 = d2  e1 = e1
    Worker = Worker
    InvalidPacket = InvalidPacket
    NoCallback = NoCallback
    NoPacket = NoPacket
    Apps <- MCApps1
    Packets <- MCPackets3
    DataHandlers <- MCDataHandlers1
    ErrorHandlers <- MCErrorHandlers
    QueueCap = 2
    Interval = 2
    Adapters = {"BLE"}
    MaxArrivals = 0
    MaxLinkFaults = 1
    BindWhileRunning = FALSE
    HandlerBinds = FALSE
SYMMETRY MCSymmetry
SPECIFICATION Spec
INVARIANTS TypeOK PacketAccounting FifoUnlessRetried
PROPERTY RateLimited TransportRefinesQueue
VIEW MCViewNoStale
