--------------------------- MODULE MCHttpTunnels ---------------------------
(* Instances of the HTTP transport for TLC. *)
EXTENDS HttpTunnels, TLC
=============================================================================
