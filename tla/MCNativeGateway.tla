--------------------------- MODULE MCNativeGateway ---------------------------
(* Values of the constants of NativeGateway for TLC: those of RelayPool. *)
EXTENDS NativeGateway, MCRelayPool
=============================================================================
