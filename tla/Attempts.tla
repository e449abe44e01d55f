------------------------------ MODULE Attempts ------------------------------
(***************************************************************************)
(* The attempt loop of the pipeline, internal/pipeline/pipeline.go: how a  *)
(* request is tried on one provider after another.  Several requests run   *)
(* it at once and share the registry, where each may cool the providers    *)
(* the others are choosing from, while providers come and go.              *)
(*                                                                         *)
(* Abstractions.  Of the registry only who is online and who is cooling is *)
(* kept; Register, Disconnect and SetCooldown are atomic there (module     *)
(* Registry).  The selector takes any ready provider: its strategies only  *)
(* prefer one ready provider to another.  An error is its class:           *)
(*   provider   retry it elsewhere and cool the provider (401, 403, 429,   *)
(*              5xx, a transport error, a timeout),                        *)
(*   request    retry it elsewhere, do not cool (400, 404 and the like),   *)
(*   canceled   the caller gave up: neither.                               *)
(***************************************************************************)
EXTENDS Naturals, Sequences, FiniteSets

CONSTANTS
  Requests,   \* requests in flight
  Providers,  \* provider ids
  None        \* no provider

ASSUME AttemptsAssumption == IsFiniteSet(Providers) /\ None \notin Providers

Kinds == {"nonstream", "stream"}

Errors == {"provider", "request", "canceled"}

VARIABLES
  online,    \* providers in the registry
  cooling,   \* those of them that are cooling
  kind,      \* Execute and CountTokens, or Stream
  pc,        \* where the request is
  ctx,       \* its context: live, canceled by the client, or past its deadline
  budget,    \* maxAttempts
  tried,     \* the providers tried
  ready,     \* the providers ready in the list it has taken
  provider,  \* the provider of the attempt
  err,       \* lastErr
  open,      \* the providers of attempts whose context is not canceled
  result,    \* what the caller is told
  log,       \* history: the providers in the order they were tried
  blame      \* history: who made the last attempt fail

registry == <<online, cooling>>
vars == <<registry, kind, pc, ctx, budget, tried, ready, provider, err, open, result, log, blame>>

Init ==
  /\ online = {}
  /\ cooling = {}
  /\ kind = [r \in Requests |-> "nonstream"]
  /\ pc = [r \in Requests |-> "idle"]
  /\ ctx = [r \in Requests |-> "live"]
  /\ budget = [r \in Requests |-> 0]
  /\ tried = [r \in Requests |-> {}]
  /\ ready = [r \in Requests |-> {}]
  /\ provider = [r \in Requests |-> None]
  /\ err = [r \in Requests |-> "none"]
  /\ open = [r \in Requests |-> {}]
  /\ result = [r \in Requests |-> "none"]
  /\ log = [r \in Requests |-> <<>>]
  /\ blame = [r \in Requests |-> "none"]

-----------------------------------------------------------------------------
(* The registry, as the rest of the gateway changes it. *)

Connect(p) ==
  /\ online' = online \cup {p}
  /\ cooling' = cooling \ {p}
  /\ UNCHANGED <<kind, pc, ctx, budget, tried, ready, provider, err, open, result, log, blame>>

Leave(p) ==
  /\ p \in online
  /\ online' = online \ {p}
  /\ cooling' = cooling \ {p}
  /\ UNCHANGED <<kind, pc, ctx, budget, tried, ready, provider, err, open, result, log, blame>>

CooldownEnds(p) ==
  /\ p \in cooling
  /\ cooling' = cooling \ {p}
  /\ UNCHANGED <<online, kind, pc, ctx, budget, tried, ready, provider, err, open, result, log, blame>>

\* SetCooldown of a provider no longer online does nothing.
SetCooldown(p) == cooling' = cooling \cup ({p} \cap online)

\* Requests beyond those of Requests cool providers as well.
OthersCool(p) ==
  /\ SetCooldown(p)
  /\ UNCHANGED <<online, kind, pc, ctx, budget, tried, ready, provider, err, open, result, log, blame>>

-----------------------------------------------------------------------------
(* The loop. *)

Goto(r, where) == pc' = [pc EXCEPT ![r] = where]

\* The call returns; the contexts derived from the request's end with it.
Return(r, what) ==
  /\ Goto(r, "returned")
  /\ result' = [result EXCEPT ![r] = what]
  /\ open' = [open EXCEPT ![r] = {}]

\* an answer that forgets the errors of the attempts made
MutantNoProvider(r) == "unavailable"

\* The answer when nobody can be selected: the last error, if there was an attempt.
NoProvider(r) == IF err[r] = "none" THEN "unavailable" ELSE err[r]

\* The first list decides how many attempts there may be.
Begin(r, k) ==
  /\ pc[r] = "idle"
  /\ kind' = [kind EXCEPT ![r] = k]
  /\ IF online = {}
       THEN Return(r, "unavailable") /\ UNCHANGED budget
       ELSE /\ Goto(r, "select")
            /\ budget' = [budget EXCEPT ![r] = Cardinality(online)]
            /\ UNCHANGED <<open, result>>
  /\ UNCHANGED <<registry, ctx, tried, ready, provider, err, log, blame>>

\* selectProvider takes a list of its own, for every attempt.
List(r) ==
  /\ pc[r] = "select"
  /\ IF online = {}
       THEN Return(r, NoProvider(r)) /\ UNCHANGED ready
       ELSE /\ Goto(r, "choose")
            /\ ready' = [ready EXCEPT ![r] = online \ cooling]
            /\ UNCHANGED <<open, result>>
  /\ UNCHANGED <<registry, kind, ctx, budget, tried, provider, err, log, blame>>

NobodyReady(r) ==
  /\ pc[r] = "choose"
  /\ ready[r] \ tried[r] = {}
  /\ Return(r, NoProvider(r))
  /\ UNCHANGED <<registry, kind, ctx, budget, tried, ready, provider, err, log, blame>>

\* a provider that is not put down as tried
MutantChoose(r, p) ==
  /\ pc[r] = "choose"
  /\ p \in ready[r] \ tried[r]
  /\ Goto(r, "send")
  /\ provider' = [provider EXCEPT ![r] = p]
  /\ open' = [open EXCEPT ![r] = @ \cup {p}]
  /\ log' = [log EXCEPT ![r] = Append(@, p)]
  /\ UNCHANGED <<registry, kind, ctx, budget, tried, ready, err, result, blame>>

\* The choice is made from the list, whatever has happened to it since.
Choose(r, p) ==
  /\ pc[r] = "choose"
  /\ p \in ready[r] \ tried[r]
  /\ Goto(r, "send")
  /\ provider' = [provider EXCEPT ![r] = p]
  /\ tried' = [tried EXCEPT ![r] = @ \cup {p}]
  /\ open' = [open EXCEPT ![r] = @ \cup {p}]
  /\ log' = [log EXCEPT ![r] = Append(@, p)]
  /\ UNCHANGED <<registry, kind, ctx, budget, ready, err, result, blame>>

-----------------------------------------------------------------------------
(* How an attempt ends. *)

\* an attempt whose context is left to live on
MutantFail(r, e, who, kept) ==
  /\ Goto(r, "failed")
  /\ err' = [err EXCEPT ![r] = e]
  /\ blame' = [blame EXCEPT ![r] = who]
  /\ UNCHANGED <<registry, kind, ctx, budget, tried, ready, provider, open, result, log>>

\* The attempt fails for reason e; what it held is given back unless kept.
Fail(r, e, who, kept) ==
  /\ Goto(r, "failed")
  /\ err' = [err EXCEPT ![r] = e]
  /\ blame' = [blame EXCEPT ![r] = who]
  /\ open' = [open EXCEPT ![r] = @ \ ({provider[r]} \ kept)]
  /\ UNCHANGED <<registry, kind, ctx, budget, tried, ready, provider, result, log>>

\* Manager.Send: the request goes to the provider's session, if its context is live.
Sends(r) ==
  /\ pc[r] = "send"
  /\ ctx[r] = "live"
  /\ Goto(r, "try")
  /\ UNCHANGED <<registry, kind, ctx, budget, tried, ready, provider, err, open, result, log, blame>>

\* There is no session, it is closed, or the write fails; or the context is done, which
\* is seen before anything is written.
NotSent(r) ==
  /\ pc[r] = "send"
  /\ \/ Fail(r, "provider", "provider", {})
     \/ ctx[r] = "canceled" /\ Fail(r, "canceled", "client", {})
     \/ ctx[r] = "expired" /\ Fail(r, "provider", "deadline", {})

\* The first packet of a whole answer stops the first-packet timer.
FirstPacket(r) ==
  /\ pc[r] = "try"
  /\ kind[r] = "nonstream"
  /\ Goto(r, "reading")
  /\ UNCHANGED <<registry, kind, ctx, budget, tried, ready, provider, err, open, result, log, blame>>

\* The request is with the provider.
Waiting(r) == pc[r] \in {"try", "reading"}

\* A whole answer, or for a stream a first event that is no error.
Succeeds(r) ==
  /\ Waiting(r)
  /\ IF kind[r] = "stream"
       THEN /\ Goto(r, "streaming")
            /\ result' = [result EXCEPT ![r] = "ok"]
            /\ UNCHANGED open
       ELSE Return(r, "ok")
  /\ UNCHANGED <<registry, kind, ctx, budget, tried, ready, provider, err, log, blame>>

\* The session ends, or the provider answers with an error of either class.
ProviderFails(r, e) ==
  /\ Waiting(r)
  /\ e \in {"provider", "request"}
  /\ Fail(r, e, "provider", {})

\* a first-packet timer for the calls that wait for a whole answer only
MutantBootstrapTimesOut(r) ==
  /\ pc[r] = "try"
  /\ kind[r] = "nonstream"
  /\ Fail(r, "provider", "provider", {provider[r]})

\* The first-packet timer.  A stream cancels the attempt; the other calls have no
\* context of their own for an attempt, so its slot stays until they return.
BootstrapTimesOut(r) ==
  /\ pc[r] = "try"
  /\ Fail(r, "provider", "provider", IF kind[r] = "stream" THEN {} ELSE {provider[r]})

\* The loop sees that the context is done before it sees anything else.
SeesDone(r) ==
  /\ Waiting(r)
  /\ \/ /\ ctx[r] = "canceled" /\ kind[r] = "stream"
        /\ Return(r, "canceled")
        /\ UNCHANGED <<registry, kind, ctx, budget, tried, ready, provider, err, log, blame>>
     \/ /\ ctx[r] = "canceled" /\ kind[r] = "nonstream"
        /\ Fail(r, "canceled", "client", {})
     \/ /\ ctx[r] = "expired"
        /\ Fail(r, "provider", "deadline", {})

\* The relay reacts to the canceled context too and closes the reply, or the stream of
\* events, without an error; the loop may see that first and takes it for a failure.  The
\* request was sent with the context live, so it was canceled during this attempt.
SeesClosed(r) ==
  /\ Waiting(r)
  /\ ctx[r] = "canceled"
  /\ Fail(r, "provider", "client", {})

CanRetry(r) ==
  /\ Len(log[r]) < budget[r]
  /\ ctx[r] = "live"
  /\ err[r] # "canceled"

\* applyProviderCooldown, then the next attempt or the error.
AfterFailure(r) ==
  /\ pc[r] = "failed"
  /\ IF err[r] = "provider" THEN SetCooldown(provider[r]) ELSE UNCHANGED cooling
  /\ IF CanRetry(r)
       THEN Goto(r, "select") /\ UNCHANGED <<open, result>>
       ELSE Return(r, err[r])
  /\ UNCHANGED <<online, kind, ctx, budget, tried, ready, provider, err, log, blame>>

\* buildStreamResult: the stream ends, or falls silent for too long and is cooled.
StreamEnds(r) ==
  /\ pc[r] = "streaming"
  /\ Return(r, "ok")
  /\ UNCHANGED <<registry, kind, ctx, budget, tried, ready, provider, err, log, blame>>

StreamIdle(r) ==
  /\ pc[r] = "streaming"
  /\ SetCooldown(provider[r])
  /\ Return(r, "ok")
  /\ UNCHANGED <<online, kind, ctx, budget, tried, ready, provider, err, log, blame>>

-----------------------------------------------------------------------------
Cancel(r) ==
  /\ pc[r] \notin {"idle", "returned"}
  /\ ctx[r] = "live"
  /\ ctx' = [ctx EXCEPT ![r] = "canceled"]
  /\ UNCHANGED <<registry, kind, pc, budget, tried, ready, provider, err, open, result, log, blame>>

\* The deadline that Execute and CountTokens put on the whole call.
Expire(r) ==
  /\ pc[r] \notin {"idle", "returned"}
  /\ kind[r] = "nonstream"
  /\ ctx[r] = "live"
  /\ ctx' = [ctx EXCEPT ![r] = "expired"]
  /\ UNCHANGED <<registry, kind, pc, budget, tried, ready, provider, err, open, result, log, blame>>

Submit(r) == Sends(r) \/ NotSent(r)

Loop(r) ==
  \/ List(r) \/ NobodyReady(r) \/ (\E p \in Providers : Choose(r, p))
  \/ Submit(r) \/ AfterFailure(r)

Timeout(r) == BootstrapTimesOut(r) \/ SeesDone(r)

Next ==
  \/ \E p \in Providers : Connect(p) \/ Leave(p) \/ CooldownEnds(p) \/ OthersCool(p)
  \/ \E r \in Requests :
       \/ \E k \in Kinds : Begin(r, k)
       \/ Loop(r) \/ FirstPacket(r) \/ Succeeds(r) \/ Timeout(r) \/ SeesClosed(r)
       \/ \E e \in Errors : ProviderFails(r, e)
       \/ StreamEnds(r) \/ StreamIdle(r) \/ Cancel(r) \/ Expire(r)

Spec == Init /\ [][Next]_vars

\* The loop runs on.  An attempt nobody answers meets its first-packet timer, and a whole
\* answer that begins and never ends meets the deadline of its call.
Fairness == \A r \in Requests : WF_vars(Loop(r)) /\ WF_vars(Timeout(r)) /\ WF_vars(Expire(r))

FairSpec == Spec /\ Fairness

-----------------------------------------------------------------------------
(* Properties *)

AttemptsTypeOK ==
  /\ online \subseteq Providers
  /\ cooling \subseteq online
  /\ kind \in [Requests -> Kinds]
  /\ pc \in [Requests -> {"idle", "select", "choose", "send", "try", "reading", "failed",
                          "streaming", "returned"}]
  /\ ctx \in [Requests -> {"live", "canceled", "expired"}]
  /\ budget \in [Requests -> Nat]
  /\ tried \in [Requests -> SUBSET Providers]
  /\ ready \in [Requests -> SUBSET Providers]
  /\ provider \in [Requests -> Providers \cup {None}]
  /\ err \in [Requests -> Errors \cup {"none"}]
  /\ open \in [Requests -> SUBSET Providers]
  /\ result \in [Requests -> Errors \cup {"none", "ok", "unavailable"}]
  /\ log \in [Requests -> Seq(Providers)]
  /\ blame \in [Requests -> {"none", "provider", "client", "deadline"}]

\* However the set of providers changes under the loop, a request tries no provider
\* twice and makes no more attempts than there were providers when it began
\* (pipeline.go:1311-1320).
EachProviderOnce ==
  \A r \in Requests :
    /\ Len(log[r]) <= budget[r]
    /\ \A i, j \in DOMAIN log[r] : log[r][i] = log[r][j] => i = j

\* A stream holds at most its current attempt, and every call gives back what its
\* attempts hold by the time it returns: no slot of a failed attempt outlives the
\* request (attemptCancel on every path, pipeline.go:254-361; defer cancel, 199).
AttemptsReleased ==
  \A r \in Requests :
    /\ pc[r] \in {"idle", "returned"} => open[r] = {}
    /\ kind[r] = "stream" => open[r] \subseteq {provider[r]}
    /\ kind[r] = "stream" /\ pc[r] \in {"select", "choose", "failed"} => open[r] = {}

\* The caller who hears that no provider is available was not let down by one: once an
\* attempt was made, its error is what the call returns (pipeline.go:1322).
ErrorOfAnAttemptWins ==
  \A r \in Requests : result[r] = "unavailable" => log[r] = <<>>

\* Whatever providers do, a call that has begun has an answer or a stream in the end.  It
\* rests on two timers: until the first packet on that of the attempt, and for a whole
\* answer that has begun on the deadline of the call (http.go:111-125, pipeline.go:198).
RequestReturns ==
  \A r \in Requests : pc[r] # "idle" ~> pc[r] \in {"streaming", "returned"}

\* Only what is the provider's own fault cools it (pipeline.go:1186-1187): an attempt
\* that failed because the client gave up cools nobody.
CancelCoolsNobody ==
  [][\A r \in Requests :
       pc[r] = "failed" /\ blame[r] = "client" /\ pc'[r] # "failed" => cooling' = cooling]_vars

=============================================================================
