----------------------------- MODULE MCReconnect -----------------------------
\* A tick is about fifteen seconds: the stable session, the read timeout and the longest
\* wait are two ticks, as they are thirty seconds each in the code.
EXTENDS Reconnect

=============================================================================
