\* USB-JTAG and BLE channels under the fairness of FairSpec: every accepted
\* packet settles while the engine runs, across the receive path (USB-JTAG)
\* and the temporary-error retry loop (BLE).  No symmetry: the property is
\* temporal.
CONSTANTS
    a1 = a1  a2 = a2  p1 = p1  p2 = p2  p3 = p3  d1 = d1  d2 = d2  e1 = e1
    Worker = Worker
    InvalidPacket = InvalidPacket
    NoCallback = NoCallback
    NoPacket = NoPacket
    Apps <- MCApps1
    Packets <- MCPackets2
    DataHandlers <- MCDataHandlers1
    ErrorHandlers <- MCErrorHandlers
    QueueCap = 2
    Interval = 2
    Adapters = {"USB_JTAG", "BLE"}
    MaxArrivals = 1
    MaxLinkFaults = 1
    BindWhileRunning = FALSE
    HandlerBinds = FALSE
SPECIFICATION FairSpec
PROPERTY AcceptedPacketSettles
VIEW MCViewNoStale
