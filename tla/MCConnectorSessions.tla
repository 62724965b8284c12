------------------------ MODULE MCConnectorSessions ------------------------
(* The sessions of one connector, for TLC.                                 *)
EXTENDS ConnectorSessions
=============================================================================
