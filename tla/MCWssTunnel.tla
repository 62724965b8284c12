---------------------------- MODULE MCWssTunnel -----------------------------
\* One stream with a window of two payloads, granted back one at a time, over channels
\* of one place; the client and the backend send a window each.
EXTENDS WssTunnel
=============================================================================
