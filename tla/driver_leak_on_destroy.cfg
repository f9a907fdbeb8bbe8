\* A channel destroyed while its thread is stopped keeps its driver.
CONSTANTS
    c1 = c1
    c2 = c2
    c3 = c3
    NoChannel = NoChannel
    Channels <- MCChannels
    Port <- MCPorts
    HasPins = TRUE
SPECIFICATION Spec
INVARIANT DriverReleasedOnDestroy
CHECK_DEADLOCK FALSE
