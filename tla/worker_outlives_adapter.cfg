\* The destructor chain tears down the driver and the derived object
\* before ~Transport stops the worker that still uses them.
CONSTANTS
    c1 = c1
    c2 = c2
    c3 = c3
    NoChannel = NoChannel
    Channels <- MCChannels
    Port <- MCPorts
    HasPins = TRUE
SPECIFICATION Spec
INVARIANT WorkerOutlivesAdapter
CHECK_DEADLOCK FALSE
