\* An old Uart and its replacement on one port, and a UsbJtag channel:
\* construction, start/stop and destruction, each with its worker.
CONSTANTS
    c1 = c1
    c2 = c2
    c3 = c3
    NoChannel = NoChannel
    Channels <- MCChannels
    Port <- MCPorts
    HasPins = TRUE
SPECIFICATION FairSpec
INVARIANT TypeOK
INVARIANT CallbackOutlivesWorker
PROPERTY DestructionCompletes
\* The program ends once the objects are destroyed or a pure virtual call
\* aborted it.
CHECK_DEADLOCK FALSE
