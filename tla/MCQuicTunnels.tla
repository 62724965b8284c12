---------------------------- MODULE MCQuicTunnels ----------------------------
\* Three calls of bridge compete for two slots and for one QUIC stream, with a byte of
\* payload each way.
EXTENDS QuicTunnels

=============================================================================
