---------------------------- MODULE MC_Lifecycle ----------------------------
EXTENDS Lifecycle, TLC

CONSTANTS c1, c2, c3

MCChannels == {c1, c2, c3}

\* An old Uart and its replacement on UART0, and a UsbJtag channel.
MCPorts == [c \in MCChannels |-> IF c = c3 THEN "USB" ELSE "UART0"]
=============================================================================
