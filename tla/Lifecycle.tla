------------------------------ MODULE Lifecycle -------------------------------
(***************************************************************************)
(* A service from its start to its shutdown: gateway/service.go Start and  *)
(* Shutdown, internal/httpapi/server/server.go, and what they do to the    *)
(* relay (module Connections, which this module extends and whose Stop it  *)
(* calls) and to the requests that are in flight.                          *)
(*                                                                         *)
(* Start may be called by several goroutines; each that is let in runs a   *)
(* listener in a goroutine of its own and waits for it or for its context. *)
(* Shutdown runs once: whoever comes second returns at once, while the     *)
(* first is still at work.  It closes the listeners, waits for the HTTP    *)
(* requests until its context ends, stops the relay and closes the         *)
(* pipeline.  Handlers given to a host program are not stopped by it.      *)
(*                                                                         *)
(* External, as the code uses it: net/http's Shutdown closes the listeners *)
(* for good, makes any later ListenAndServe return ErrServerClosed, and    *)
(* waits for the requests on its connections; a connection that a          *)
(* handshake has taken over is not waited for.                             *)
(*                                                                         *)
(* Abstractions.  A handshake is here from its upgrade on; until then it   *)
(* keeps no state, and the host program may upgrade one at any time.  A    *)
(* request uses one session (module Attempts has the others).  Closing the *)
(* pipeline ends a subscription and a timer and no request, so it changes  *)
(* nothing here.                                                           *)
(***************************************************************************)
EXTENDS Connections

CONSTANTS
  Starters,   \* the goroutines that call Start
  Host,       \* a goroutine that calls Shutdown and not Start
  Requests    \* the requests there can be

ASSUME LifecycleAssumption == Host \notin Starters

VARIABLES
  started,    \* s.started
  shutdown,   \* s.shutdown
  start,      \* how far a call of Start is, or how it ended
  listener,   \* the goroutine of a Start: s.httpAPI.Start and then errCh
  server,     \* http.Server: open, or closed for good
  phase,      \* how far the Shutdown that counts is
  by,         \* who called it
  timedOut,   \* its context ended before the requests did
  active,     \* the requests net/http's Shutdown waits for
  req,        \* how far a request is
  on,         \* the session it waits for
  seen        \* history: the sessions others could find when Stop looked

serviceVars == <<started, shutdown, start, listener, server, phase, by, timedOut>>
trafficVars == <<active, req, on>>
lifeVars == <<serviceVars, trafficVars, seen>>
lvars == <<vars, lifeVars>>

LifecycleInit ==
  /\ Init
  /\ started = FALSE
  /\ shutdown = FALSE
  /\ start = [c \in Starters |-> "none"]
  /\ listener = [c \in Starters |-> "none"]
  /\ server = "open"
  /\ phase = "no"
  /\ by = Host
  /\ timedOut = FALSE
  /\ active = {}
  /\ req = [r \in Requests |-> "none"]
  /\ on = [r \in Requests |-> NoSession]
  /\ seen = {}

Ended == {"ok", "error", "refused"}

\* A Start that its context has ended must return.
Leaving(c) == start[c] \in {"stopping", "waiting"}

-----------------------------------------------------------------------------
(* Start *)

BeginStart(c) ==
  /\ start[c] = "none"
  /\ IF shutdown \/ started
       THEN /\ start' = [start EXCEPT ![c] = "refused"]
            /\ UNCHANGED <<started, listener>>
       ELSE /\ started' = TRUE
            /\ start' = [start EXCEPT ![c] = "running"]
            /\ listener' = [listener EXCEPT ![c] = "launched"]
  /\ UNCHANGED <<vars, shutdown, server, phase, by, timedOut, trafficVars, seen>>

\* ListenAndServe: it listens, or finds the server closed and hides that error.
Listen(c) ==
  /\ listener[c] = "launched"
  /\ listener' = [listener EXCEPT ![c] = IF server = "open" THEN "listening" ELSE "closed"]
  /\ UNCHANGED <<vars, started, shutdown, start, server, phase, by, timedOut, trafficVars, seen>>

\* The address cannot be used, or accepting fails.
ListenFails(c) ==
  /\ listener[c] \in {"launched", "listening"}
  /\ server = "open"
  /\ listener' = [listener EXCEPT ![c] = "failed"]
  /\ UNCHANGED <<vars, started, shutdown, start, server, phase, by, timedOut, trafficVars, seen>>

\* The listener is gone: ListenAndServe returns ErrServerClosed.
ListenerClosed(c) ==
  /\ listener[c] = "listening"
  /\ server = "closed"
  /\ listener' = [listener EXCEPT ![c] = "closed"]
  /\ UNCHANGED <<vars, started, shutdown, start, server, phase, by, timedOut, trafficVars, seen>>

\* Start returns what its goroutine sent, in either branch of its select; only in
\* the first does a failure make room for another Start.
Return(c) ==
  /\ start[c] \in {"running", "waiting"}
  /\ listener[c] \in {"failed", "closed"}
  /\ start' = [start EXCEPT ![c] = IF listener[c] = "failed" THEN "error" ELSE "ok"]
  /\ started' = IF start[c] = "running" /\ listener[c] = "failed" /\ ~shutdown
                  THEN FALSE ELSE started
  /\ UNCHANGED <<vars, shutdown, listener, server, phase, by, timedOut, trafficVars, seen>>

\* a second caller that waits for the first
MutantWaitForShutdown(c) ==
  /\ start[c] = "stopping"
  /\ phase = "done"
  /\ start' = [start EXCEPT ![c] = "waiting"]
  /\ UNCHANGED <<vars, started, shutdown, listener, server, phase, by, timedOut, trafficVars, seen>>

\* The Shutdown a Start has called returns to it, at once if it is not the first.
ShutdownReturns(c) ==
  /\ start[c] = "stopping"
  /\ by = c => phase = "done"
  /\ start' = [start EXCEPT ![c] = "waiting"]
  /\ UNCHANGED <<vars, started, shutdown, listener, server, phase, by, timedOut, trafficVars, seen>>

-----------------------------------------------------------------------------
(* Shutdown *)

\* The first caller shuts the service down, with a time limit if it is a Start.
Claim(c) ==
  IF shutdown
    THEN UNCHANGED <<shutdown, phase, by>>
    ELSE shutdown' = TRUE /\ phase' = "http" /\ by' = c

\* a Shutdown that runs in the background while Start waits for the listener
MutantContextEnds(c) ==
  /\ start[c] = "running"
  /\ start' = [start EXCEPT ![c] = "waiting"]
  /\ Claim(c)
  /\ UNCHANGED <<vars, started, listener, server, timedOut, trafficVars, seen>>

\* The context of a Start ends and it calls Shutdown.
ContextEnds(c) ==
  /\ start[c] = "running"
  /\ start' = [start EXCEPT ![c] = "stopping"]
  /\ Claim(c)
  /\ UNCHANGED <<vars, started, listener, server, timedOut, trafficVars, seen>>

HostShutsDown ==
  /\ ~shutdown
  /\ Claim(Host)
  /\ UNCHANGED <<vars, started, start, listener, server, timedOut, trafficVars, seen>>

CloseListeners ==
  /\ phase = "http"
  /\ phase' = "draining"
  /\ server' = "closed"
  /\ UNCHANGED <<vars, started, shutdown, start, listener, by, timedOut, trafficVars, seen>>

\* listeners closed and nobody waited for
MutantDrained ==
  /\ phase = "draining"
  /\ phase' = "relay"
  /\ UNCHANGED <<vars, started, shutdown, start, listener, server, by, timedOut, trafficVars, seen>>

Drained ==
  /\ phase = "draining"
  /\ active = {}
  /\ phase' = "relay"
  /\ UNCHANGED <<vars, started, shutdown, start, listener, server, by, timedOut, trafficVars, seen>>

TimeIsUp ==
  /\ phase = "draining"
  /\ phase' = "relay"
  /\ timedOut' = TRUE
  /\ UNCHANGED <<vars, started, shutdown, start, listener, server, by, trafficVars, seen>>

StopRelay ==
  /\ phase = "relay"
  /\ StopBegins
  /\ phase' = "stopping"
  /\ seen' = {s \in Sessions : Entered(s)}
  /\ UNCHANGED <<started, shutdown, start, listener, server, by, timedOut, trafficVars>>

\* relay.Stop has returned; pipe.Close follows.
RelayStopped ==
  /\ phase = "stopping"
  /\ stop = "done"
  /\ phase' = "done"
  /\ UNCHANGED <<vars, started, shutdown, start, listener, server, by, timedOut, trafficVars, seen>>

ShutDown == CloseListeners \/ Drained \/ StopRelay \/ RelayStopped

-----------------------------------------------------------------------------
(* Handshakes and requests *)

Open == \E c \in Starters : listener[c] = "listening" /\ server = "open"

\* A request comes in over the network.
Arrive(r) ==
  /\ Open
  /\ req[r] = "none"
  /\ r \notin active
  /\ active' = active \cup {r}
  /\ UNCHANGED <<vars, serviceVars, req, on, seen>>

\* The relay sends a request, of a client or of the host program, to the session
\* mapped for a provider, if there is one.
Dispatch(r, p) ==
  /\ req[r] = "none"
  /\ IF sessions[p] = NoSession
       THEN /\ req' = [req EXCEPT ![r] = "failed"]
            /\ active' = active \ {r}
            /\ UNCHANGED on
       ELSE /\ req' = [req EXCEPT ![r] = "waiting"]
            /\ on' = [on EXCEPT ![r] = sessions[p]]
            /\ UNCHANGED active
  /\ UNCHANGED <<vars, serviceVars, seen>>

End(r, how) ==
  /\ req' = [req EXCEPT ![r] = how]
  /\ on' = [on EXCEPT ![r] = NoSession]
  /\ active' = active \ {r}
  /\ UNCHANGED <<vars, serviceVars, seen>>

\* The provider's answer, the client's leaving, or an answer that needs no provider.
Answer(r) == (req[r] = "waiting" \/ r \in active) /\ End(r, "answered")

\* The cleanup of its session ends a request (module RelaySession).
Fail(r) == req[r] = "waiting" /\ clean[on[r]] # "none" /\ End(r, "failed")

\* The relay's own steps go on whatever the service does.
Upgraded(s, p) == Upgrade(s, p) /\ UNCHANGED lifeVars
RelayStep(s) == (Handshake(s) \/ Cleanup(s)) /\ UNCHANGED lifeVars
Closing == Stop /\ UNCHANGED lifeVars
Lose(s) == ConnectionFails(s) /\ UNCHANGED lifeVars

-----------------------------------------------------------------------------
StartStep(c) ==
  Listen(c) \/ ListenerClosed(c) \/ Return(c) \/ ShutdownReturns(c)

LifecycleNext ==
  \/ \E c \in Starters :
       \/ BeginStart(c) \/ ListenFails(c) \/ ContextEnds(c) \/ StartStep(c)
  \/ HostShutsDown \/ ShutDown \/ TimeIsUp
  \/ \E s \in Sessions :
       \/ \E p \in Providers : Upgraded(s, p)
       \/ RelayStep(s) \/ Lose(s)
  \/ Closing
  \/ \E r \in Requests :
       \/ \E p \in Providers : Dispatch(r, p)
       \/ Arrive(r) \/ Answer(r) \/ Fail(r)

LifecycleSpec == LifecycleInit /\ [][LifecycleNext]_lvars

(* Goroutines that can run do run, and a request that nobody answers ends    *)
(* with its session.  Nobody is obliged to start, to shut down, to answer or *)
(* to connect.  A Start shuts down with a time limit (service.go:307); the   *)
(* context of another caller may never end.                                  *)
LifecycleFairness ==
  /\ \A c \in Starters : WF_lvars(StartStep(c))
  /\ WF_lvars(ShutDown)
  /\ WF_lvars(by \in Starters /\ TimeIsUp)
  /\ \A s \in Sessions : WF_lvars(RelayStep(s))
  /\ WF_lvars(Closing)
  /\ \A r \in Requests : WF_lvars(Fail(r))

FairLifecycle == LifecycleSpec /\ LifecycleFairness

-----------------------------------------------------------------------------
(* Properties *)

LifecycleTypeOK ==
  /\ started \in BOOLEAN
  /\ shutdown \in BOOLEAN
  /\ start \in [Starters -> {"none", "running", "stopping", "waiting"} \cup Ended]
  /\ listener \in [Starters -> {"none", "launched", "listening", "failed", "closed"}]
  /\ server \in {"open", "closed"}
  /\ phase \in {"no", "http", "draining", "relay", "stopping", "done"}
  /\ by \in Starters \cup {Host}
  /\ timedOut \in BOOLEAN
  /\ active \subseteq Requests
  /\ req \in [Requests -> {"none", "waiting", "answered", "failed"}]
  /\ on \in [Requests -> Sessions \cup {NoSession}]
  /\ seen \subseteq Sessions

\* The graceful order (service.go:338-354): the relay takes the providers away
\* only when every HTTP request has been answered or the time is up, so a request
\* that a shutdown meets is never cut off within the time.
DrainKeepsProviders == stop # "no" /\ ~timedOut => active = {}

\* What Stop leaves open came too late for it (manager.go:151): a session others
\* could find when Stop looked is closed or being closed when Stop returns, or in
\* the hand of the handler that took its place.
StopMissesOnlyLateEntries ==
  stop = "done" => \A s \in seen :
    clean[s] # "none" \/ \E t \in Sessions : hs[t] = "mapped" /\ replaced[t] = s

\* However calls of Start, failures and shutdowns cross, one listener at most is
\* up: only a failure that a Start returns makes room for the next (service.go:291).
OneListener ==
  \A c, d \in Starters :
    listener[c] \in {"launched", "listening"} /\ listener[d] \in {"launched", "listening"} => c = d

\* A Start that its context ends, and that shuts down itself, does not return,
\* and the program does not end, before the requests have or the time is up.
ExitIsGraceful ==
  \A c \in Starters : start[c] = "ok" /\ by = c /\ ~timedOut => active = {}

\* A Start returns once its context has ended, whatever providers and clients do,
\* and whoever else shuts the service down.
StartReturns == \A c \in Starters : Leaving(c) ~> start[c] \in Ended

=============================================================================
