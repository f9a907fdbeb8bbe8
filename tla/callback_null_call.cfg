\* Uart::processReceivedData tests mDataCallback, blocks in read(), then
\* calls through mDataCallback again: bind(nullptr) in between is a null call.
CONSTANTS
    a1 = a1  a2 = a2  p1 = p1  p2 = p2  p3 = p3  d1 = d1  d2 = d2  e1 = e1
    Worker = Worker
    InvalidPacket = InvalidPacket
    NoCallback = NoCallback
    NoPacket = NoPacket
    Apps <- MCApps
    Packets <- MCPackets2
    DataHandlers <- MCDataHandlers1
    ErrorHandlers <- MCErrorHandlers
    QueueCap = 2
    Interval = 2
    Adapters = {"UART"}
    MaxArrivals = 1
    MaxLinkFaults = 0
    BindWhileRunning = TRUE
    HandlerBinds = FALSE
SPECIFICATION Spec
INVARIANT NoNullCallbackCall
VIEW MCViewNoStale
