\* start() after stop() restarts the worker, which then transmits packets
\* that a send() racing the stop() left in the queue.
CONSTANTS
    a1 = a1  a2 = a2  p1 = p1  p2 = p2  p3 = p3  d1 = d1  d2 = d2  e1 = e1
    Worker = Worker
    InvalidPacket = InvalidPacket
    NoCallback = NoCallback
    NoPacket = NoPacket
    Apps <- MCApps
    Packets <- MCPackets2
    DataHandlers <- MCDataHandlers1
    ErrorHandlers <- MCErrorHandlers
    QueueCap = 2
    Interval = 2
    Adapters = {"UART"}
    MaxArrivals = 0
    MaxLinkFaults = 0
    BindWhileRunning = FALSE
    HandlerBinds = FALSE
SPECIFICATION Spec
INVARIANT NothingSentFromBeforeStop
