--------------------------- MODULE MCConnections ----------------------------
(***************************************************************************)
(* One provider and three handshakes for TLC: a third connection meets a   *)
(* replacement still in progress, and Stop meets both.  Providers share    *)
(* nothing but the order in which Stop closes their sessions.              *)
(***************************************************************************)
EXTENDS Connections

=============================================================================
