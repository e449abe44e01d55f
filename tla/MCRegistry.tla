----------------------------- MODULE MCRegistry -----------------------------
(***************************************************************************)
(* A small registry for TLC: one id, so that its operations, its timers    *)
(* and their late callbacks all meet; two connections that replace each    *)
(* other; two goroutines, so that a publisher overlaps a writer; and three *)
(* clock readings, so that two cooldowns with different deadlines fit.     *)
(***************************************************************************)
EXTENDS Registry

=============================================================================
