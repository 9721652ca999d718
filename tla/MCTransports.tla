---------------------------- MODULE MCTransports ----------------------------
(* The instance of the transports for TLC. *)
EXTENDS Transports, MCHttpTunnels, MCWebsocketRelay

\* The instance is one of those the theorems about the relay are about.
ASSUME PlainRelay
=============================================================================
