----------------------------- MODULE MCAffinity -----------------------------
(***************************************************************************)
(* A small instance for TLC: two providers of one priority; one session    *)
(* and requests without one, for models of their own, so that the single   *)
(* cursor kept has to make room; two requests that select at once.  One    *)
(* goroutine changes the registry: a queue that is read late, or full,     *)
(* already gives the selector stale and lost events.                       *)
(***************************************************************************)
EXTENDS Affinity

CONSTANTS p1, p2, s1, m1, m2

SamePriority == [p \in {p1, p2} |-> 0]

ModelOfEach == [s \in {s1, NoSession} |-> IF s = s1 THEN m1 ELSE m2]

=============================================================================
