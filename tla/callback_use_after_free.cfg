\* bind() destroys the previous PacketCallback under mMutex while the
\* worker, which never takes mMutex to call it, may be running it: from
\* another thread, or from inside the handler itself.
CONSTANTS
    a1 = a1  a2 = a2  p1 = p1  p2 = p2  p3 = p3  d1 = d1  d2 = d2  e1 = e1
    Worker = Worker
    InvalidPacket = InvalidPacket
    NoCallback = NoCallback
    NoPacket = NoPacket
    Apps <- MCApps
    Packets <- MCPackets2
    DataHandlers <- MCDataHandlers2
    ErrorHandlers <- MCErrorHandlers
    QueueCap = 2
    Interval = 2
    Adapters = {"UART"}
    MaxArrivals = 1
    MaxLinkFaults = 0
    BindWhileRunning = TRUE
    HandlerBinds = TRUE
SPECIFICATION Spec
INVARIANT NoCallbackAfterFree
VIEW MCViewNoStale
