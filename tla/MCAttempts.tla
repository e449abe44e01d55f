----------------------------- MODULE MCAttempts -----------------------------
(***************************************************************************)
(* One request for TLC: requests meet only in the registry, where the      *)
(* environment connects, removes and cools providers at any moment.  Three *)
(* providers leave room for two failed attempts, a provider that joins     *)
(* late and one that is cooled by others.                                  *)
(***************************************************************************)
EXTENDS Attempts

=============================================================================
