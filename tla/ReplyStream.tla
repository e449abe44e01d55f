---------------------------- MODULE ReplyStream -----------------------------
(***************************************************************************)
(* What the relay promises the caller of Send: messages of one reply in    *)
(* the order the provider sent them, perhaps with gaps, then exactly one   *)
(* outcome, after which nothing more is seen.                              *)
(***************************************************************************)
EXTENDS Naturals, Sequences

CONSTANTS
  Requests,   \* requests, each with a message id of its own
  MaxMsgs,    \* bound: messages a provider sends for one request
  Outcomes    \* how a call can end

VARIABLES
  taken,      \* the messages the caller has seen, as their numbers in the provider's sequence
  outcome     \* how the call ended, "none" while it has not

Reply == <<taken, outcome>>

Init ==
  /\ taken = [r \in Requests |-> <<>>]
  /\ outcome = [r \in Requests |-> "none"]

Last(s) == IF s = <<>> THEN 0 ELSE s[Len(s)]

Deliver(r) ==
  \E n \in 1 .. MaxMsgs :
    /\ n > Last(taken[r])
    /\ taken' = [taken EXCEPT ![r] = Append(@, n)]

End(r) == \E o \in Outcomes : outcome' = [outcome EXCEPT ![r] = o]

Step(r) ==
  /\ outcome[r] = "none"
  /\ \/ Deliver(r) /\ UNCHANGED outcome
     \/ End(r) /\ UNCHANGED taken
     \/ Deliver(r) /\ End(r)

Next == \E r \in Requests : Step(r)

Spec == Init /\ [][Next]_Reply

=============================================================================
