---------------------------- MODULE MCLifecycle ------------------------------
(***************************************************************************)
(* One provider, one handshake, one request and two calls of Start for     *)
(* TLC: the handshake comes before, during or after Stop, and the second   *)
(* Start follows a failed one or meets a shutdown.  Handshakes that        *)
(* replace one another under Stop are in the run of module Connections.    *)
(***************************************************************************)
EXTENDS Lifecycle

=============================================================================
