--------------------------- MODULE MCRelaySession ---------------------------
(***************************************************************************)
(* One request of a session for TLC: its goroutines contest its slot, and  *)
(* requests meet only in the read loop and in cleanup.  A channel of two   *)
(* places and three messages: the channel fills up while the caller is     *)
(* away, and a terminal message follows chunks.                            *)
(***************************************************************************)
EXTENDS RelaySession

=============================================================================
