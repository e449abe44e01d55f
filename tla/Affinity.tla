------------------------------ MODULE Affinity ------------------------------
(***************************************************************************)
(* Session affinity: internal/provider/selector/types.go and helpers.go,   *)
(* the cache of bindings internal/provider/session/cache.go, and the       *)
(* events of the registry that reach it through the pipeline.              *)
(*                                                                         *)
(* A selection takes a copy of the registry, then consults the cache, then *)
(* drops the binding, then takes a turn of the round robin, then binds:    *)
(* each under a lock of its own, so selections of the same session, events *)
(* and the cleanup of the cache come in between.  Events are published     *)
(* after the registry's lock is released, so they may come late, in        *)
(* another order, or, when the channel is full, never.                     *)
(*                                                                         *)
(* Abstractions.  A session stands for its binding key, model and session  *)
(* id together.  Of the registry only who is online, in which order they   *)
(* connected and who is cooling is kept (module Registry has the rest).    *)
(* Time passes in steps; a selection reads the clock after it has taken    *)
(* its list, so a cooldown in the list may be over.                        *)
(***************************************************************************)
EXTENDS Integers, Sequences, FiniteSets

CONSTANTS
  Providers,    \* provider ids
  AtStart,      \* providers of a custom relay, registered before the subscription
  Priority,     \* their priorities
  Sessions,     \* binding keys
  NoSession,    \* a request without a session id
  Models,       \* models, the keys of the round robin's cursors
  ModelOf,      \* the model of a session, and of the requests without one
  Requests,     \* requests that select at once
  Workers,      \* goroutines that change the registry
  EventBuffer,  \* capacity of the event channel (64)
  TTL,          \* how long a binding lives unused
  MaxKeys,      \* cursors kept (4096)
  CursorTop,    \* where a cursor starts again (2147483640)
  MaxChanges,   \* bound: changes of the registry
  None          \* no provider, no event

ASSUME AffinityAssumption ==
  /\ AtStart \subseteq Providers
  /\ Priority \in [Providers -> Int]
  /\ NoSession \notin Sessions
  /\ ModelOf \in [Sessions \cup {NoSession} -> Models]
  /\ {EventBuffer, TTL, MaxChanges} \subseteq Nat
  /\ {MaxKeys, CursorTop} \subseteq Nat \ {0}
  /\ IsFiniteSet(Models)
  /\ None \notin Providers

EventTypes == {"connected", "replaced", "disconnected", "cooling", "active"}

Event == [id : Providers, type : EventTypes]

VARIABLES
  online,      \* providers in the registry
  earlier,     \* pairs of them: the first has been connected for longer
  cooling,     \* those that are cooling
  publishing,  \* the event a goroutine has still to publish
  queue,       \* the channel of the selector's subscription
  changes,     \* counts the changes of the registry
  bound,       \* the cache: session -> provider
  age,         \* time since the binding was set or refreshed
  cursors,     \* model -> the round robin's cursor
  phase,       \* where a selection is
  session,     \* its session
  ready,       \* providers ready in its list -> their position in it
  choice,      \* the provider it selected
  home,        \* history: the provider that serves a session, see Settle
  idle         \* history: time since home served it last

registryVars == <<online, earlier, cooling, publishing, changes>>
cacheVars == <<bound, age>>
selectVars == <<phase, session, ready, choice>>
history == <<home, idle>>
vars == <<registryVars, queue, cacheVars, cursors, selectVars, history>>

\* The list of a request that is not selecting.
NoList == [p \in {} |-> 0]

\* The strict orders of a set.
Orders(S) ==
  {e \in SUBSET (S \X S) :
     /\ \A p \in S : <<p, p>> \notin e
     /\ \A p, q \in S : p # q => (<<p, q>> \in e <=> <<q, p>> \notin e)
     /\ \A p, q, o \in S : <<p, q>> \in e /\ <<q, o>> \in e => <<p, o>> \in e}

Init ==
  /\ online = AtStart
  /\ earlier \in Orders(AtStart)
  /\ cooling = {}
  /\ publishing = [w \in Workers |-> None]
  /\ queue = <<>>
  /\ changes = 0
  /\ bound = [s \in Sessions |-> None]
  /\ age = [s \in Sessions |-> 0]
  /\ cursors = [m \in {} |-> 0]
  /\ phase = [r \in Requests |-> "done"]
  /\ session = [r \in Requests |-> NoSession]
  /\ ready = [r \in Requests |-> NoList]
  /\ choice = [r \in Requests |-> None]
  /\ home = [s \in Sessions |-> None]
  /\ idle = [s \in Sessions |-> 0]

-----------------------------------------------------------------------------
(* The registry and its events. *)

\* One change of the registry by goroutine w, which then has an event to publish.
Change(w, p, type) ==
  /\ publishing[w] = None
  /\ changes < MaxChanges
  /\ changes' = changes + 1
  /\ publishing' = [publishing EXCEPT ![w] = [id |-> p, type |-> type]]
  /\ UNCHANGED <<queue, cacheVars, cursors, selectVars, history>>

\* The order of the list without p.
Without(p) == {e \in earlier : p \notin {e[1], e[2]}}

\* A handshake: a new provider, or a new connection of one online.
Connect(w, p) ==
  /\ Change(w, p, IF p \in online THEN "replaced" ELSE "connected")
  /\ online' = online \cup {p}
  /\ earlier' = Without(p) \cup ((online \ {p}) \X {p})
  /\ cooling' = cooling \ {p}

Disconnect(w, p) ==
  /\ p \in online
  /\ Change(w, p, "disconnected")
  /\ online' = online \ {p}
  /\ earlier' = Without(p)
  /\ cooling' = cooling \ {p}

SetCooldown(w, p) ==
  /\ p \in online
  /\ Change(w, p, "cooling")
  /\ cooling' = cooling \cup {p}
  /\ UNCHANGED <<online, earlier>>

CooldownEnds(w, p) ==
  /\ p \in cooling
  /\ Change(w, p, "active")
  /\ cooling' = cooling \ {p}
  /\ UNCHANGED <<online, earlier>>

\* publish to the subscription: a full channel drops the event.
Publish(w) ==
  /\ publishing[w] # None
  /\ queue' = IF Len(queue) < EventBuffer THEN Append(queue, publishing[w]) ELSE queue
  /\ publishing' = [publishing EXCEPT ![w] = None]
  /\ UNCHANGED <<online, earlier, cooling, changes, cacheVars, cursors, selectVars, history>>

-----------------------------------------------------------------------------
(* The cache.  A binding has expired when its time is over, not before. *)

Expired(s) == bound[s] # None /\ age[s] > TTL

\* The bindings of the given sessions are deleted.
Forget(sessions) ==
  /\ bound' = [s \in Sessions |-> IF s \in sessions THEN None ELSE bound[s]]
  /\ age' = [s \in Sessions |-> IF s \in sessions THEN 0 ELSE age[s]]

BoundTo(p) == {s \in Sessions : bound[s] = p}

\* The events that make a binding worthless.
NeedInvalidate(event) == event.type \in {"disconnected", "replaced", "cooling"}

\* HandleProviderEvent and InvalidateProvider.
HandleProviderEvent ==
  /\ queue # <<>>
  /\ queue' = Tail(queue)
  /\ LET event == Head(queue)
         hit == IF NeedInvalidate(event) THEN BoundTo(event.id) ELSE {}
     IN  /\ Forget(hit)
         /\ home' = [s \in Sessions |->
                       IF NeedInvalidate(event) /\ home[s] = event.id THEN None ELSE home[s]]
  /\ UNCHANGED <<registryVars, cursors, selectVars, idle>>

MutantCleanup ==
  /\ \E s \in Sessions : Expired(s)
  /\ Forget({s \in Sessions : Expired(s) /\ age[s] > TTL + 1})
  /\ UNCHANGED <<registryVars, queue, cursors, selectVars, history>>

\* The ticker of cleanupLoop; a tick that finds nothing expired changes nothing.
Cleanup ==
  /\ \E s \in Sessions : Expired(s)
  /\ Forget({s \in Sessions : Expired(s)})
  /\ UNCHANGED <<registryVars, queue, cursors, selectVars, history>>

\* Time passes.  An age counts up to the first step at which a binding has expired.
Tick ==
  /\ \E s \in Sessions : home[s] # None \/ (bound[s] # None /\ age[s] <= TTL)
  /\ age' = [s \in Sessions |-> IF bound[s] # None /\ age[s] <= TTL THEN age[s] + 1 ELSE age[s]]
  /\ home' = [s \in Sessions |-> IF idle[s] >= TTL THEN None ELSE home[s]]
  /\ idle' = [s \in Sessions |-> IF home[s] # None /\ idle[s] < TTL THEN idle[s] + 1 ELSE 0]
  /\ UNCHANGED <<registryVars, queue, bound, cursors, selectVars>>

-----------------------------------------------------------------------------
(* A selection. *)

\* Requests that are selecting for session s.
Selecting(s) == {r \in Requests : session[r] = s /\ phase[r] # "done"}

\* collectReadyProviders, its second part: the ready of the highest priority.
Best(r) ==
  {p \in DOMAIN ready[r] : \A q \in DOMAIN ready[r] : Priority[q] <= Priority[p]}

\* The request for session s takes the list and, with those it has tried and
\* the cooldowns that are over by its clock, finds somebody ready.  (When it finds
\* nobody it returns an error and changes nothing.)
Begin(r, s, tried, over) ==
  LET untried == (online \ tried) \ (cooling \ over)
  IN  /\ phase[r] = "done"
      /\ untried # {}
      /\ phase' = [phase EXCEPT ![r] = IF s = NoSession THEN "fallback" ELSE "lookup"]
      /\ session' = [session EXCEPT ![r] = s]
      /\ ready' = [ready EXCEPT ![r] =
           [p \in untried |-> Cardinality({q \in untried : <<q, p>> \in earlier})]]
      /\ choice' = [choice EXCEPT ![r] = None]
      /\ home' = [t \in Sessions |-> IF t = s /\ home[t] \notin Best(r)' THEN None ELSE home[t]]
      /\ UNCHANGED <<registryVars, queue, cacheVars, cursors, idle>>

\* History: a session has a home when a selection for it ends while no other is
\* under way.  It keeps it until it is idle for the TTL, an event says the
\* provider is gone or cooling, or a list is taken in which the provider is not
\* among the best ready ones.
Settle(r, p) ==
  LET s == session[r]
      settles(t) == t = s /\ (Selecting(s) = {r} \/ home[s] = p)
  IN  /\ home' = [t \in Sessions |-> IF settles(t) THEN p ELSE home[t]]
      /\ idle' = [t \in Sessions |-> IF settles(t) THEN 0 ELSE idle[t]]

\* The selection of r ends with p.
Select(r, p) ==
  /\ phase' = [phase EXCEPT ![r] = "done"]
  /\ choice' = [choice EXCEPT ![r] = p]
  /\ session' = [session EXCEPT ![r] = NoSession]
  /\ ready' = [ready EXCEPT ![r] = NoList]
  /\ Settle(r, p)
  /\ UNCHANGED <<registryVars, queue>>

\* It goes on.
Goto(r, next) ==
  /\ phase' = [phase EXCEPT ![r] = next]
  /\ UNCHANGED <<registryVars, queue, session, ready, history>>

MutantGetAndRefresh(r) ==
  LET s == session[r]
  IN  /\ phase[r] = "lookup"
      /\ \/ /\ bound[s] # None /\ ~Expired(s)
            /\ \/ bound[s] \in Best(r) /\ Select(r, bound[s])
               \/ bound[s] \notin Best(r) /\ Goto(r, "invalidate") /\ UNCHANGED choice
            /\ UNCHANGED cacheVars
         \/ /\ bound[s] = None \/ Expired(s)
            /\ Forget({s} \cap {t \in Sessions : Expired(t)})
            /\ Goto(r, "fallback")
            /\ UNCHANGED choice
      /\ UNCHANGED cursors

MutantHit(r) ==
  LET s == session[r]
  IN  /\ phase[r] = "lookup"
      /\ \/ /\ bound[s] # None /\ ~Expired(s)
            /\ age' = [age EXCEPT ![s] = 0]
            /\ Select(r, bound[s])
            /\ UNCHANGED bound
         \/ /\ bound[s] = None \/ Expired(s)
            /\ Forget({s} \cap {t \in Sessions : Expired(t)})
            /\ Goto(r, "fallback")
            /\ UNCHANGED choice
      /\ UNCHANGED cursors

\* GetAndRefresh, and what Select does with its answer: a binding that has not
\* expired is refreshed, used if its provider is among the best ready ones, and
\* to be dropped otherwise; one that has expired is deleted.
GetAndRefresh(r) ==
  LET s == session[r]
  IN  /\ phase[r] = "lookup"
      /\ \/ /\ bound[s] # None /\ ~Expired(s)
            /\ age' = [age EXCEPT ![s] = 0]
            /\ \/ bound[s] \in Best(r) /\ Select(r, bound[s])
               \/ bound[s] \notin Best(r) /\ Goto(r, "invalidate") /\ UNCHANGED choice
            /\ UNCHANGED bound
         \/ /\ bound[s] = None \/ Expired(s)
            /\ Forget({s} \cap {t \in Sessions : Expired(t)})
            /\ Goto(r, "fallback")
            /\ UNCHANGED choice
      /\ UNCHANGED cursors

\* Invalidate deletes the binding of the session, whichever it is by now.
Invalidate(r) ==
  /\ phase[r] = "invalidate"
  /\ Forget({session[r]})
  /\ Goto(r, "fallback")
  /\ UNCHANGED <<choice, cursors>>

\* The position of p among the best ready ones.
Turn(r, p) == Cardinality({q \in Best(r) : ready[r][q] < ready[r][p]})

\* The cursors after a turn for model m that had the given index.  A new model
\* that finds the map full starts it again.
MutantAdvanced(m, index) == [n \in DOMAIN cursors \cup {m} |-> IF n = m THEN index + 1 ELSE cursors[n]]

Advanced(m, index) ==
  LET kept == IF m \notin DOMAIN cursors /\ Cardinality(DOMAIN cursors) >= MaxKeys
              THEN {} ELSE DOMAIN cursors
  IN  [n \in kept \cup {m} |-> IF n = m THEN index + 1 ELSE cursors[n]]

\* The index of the next turn for model m.
Cursor(m) == IF m \notin DOMAIN cursors \/ cursors[m] >= CursorTop THEN 0 ELSE cursors[m]

\* RoundRobinSelector.Select among the best ready ones.  A request without a
\* session is done with it.
Fallback(r) ==
  LET m == ModelOf[session[r]]
      index == Cursor(m)
  IN  /\ phase[r] = "fallback"
      /\ cursors' = Advanced(m, index)
      /\ \E p \in Best(r) :
           /\ Turn(r, p) = index % Cardinality(Best(r))
           /\ \/ session[r] = NoSession /\ Select(r, p)
              \/ session[r] # NoSession /\ Goto(r, "bind") /\ choice' = [choice EXCEPT ![r] = p]
      /\ UNCHANGED cacheVars

\* Set.
Bind(r) ==
  /\ phase[r] = "bind"
  /\ bound' = [bound EXCEPT ![session[r]] = choice[r]]
  /\ age' = [age EXCEPT ![session[r]] = 0]
  /\ Select(r, choice[r])
  /\ UNCHANGED cursors

Selection(r) == GetAndRefresh(r) \/ Invalidate(r) \/ Fallback(r) \/ Bind(r)

Registry(w, p) == Connect(w, p) \/ Disconnect(w, p) \/ SetCooldown(w, p) \/ CooldownEnds(w, p)

Next ==
  \/ \E w \in Workers, p \in Providers : Registry(w, p)
  \/ \E w \in Workers : Publish(w)
  \/ HandleProviderEvent
  \/ Cleanup
  \/ Tick
  \/ \E r \in Requests, s \in Sessions \cup {NoSession}, tried \in SUBSET Providers :
       \E over \in SUBSET cooling : Begin(r, s, tried, over)
  \/ \E r \in Requests : Selection(r)

Spec == Init /\ [][Next]_vars

\* Goroutines that can run do run, the ticker ticks and time passes.  Nobody has
\* to connect, to leave or to send a request.
FairSpec ==
  /\ Spec
  /\ \A w \in Workers : WF_vars(Publish(w))
  /\ WF_vars(HandleProviderEvent)
  /\ WF_vars(Cleanup)
  /\ WF_vars(Tick)
  /\ \A r \in Requests : WF_vars(Selection(r))

-----------------------------------------------------------------------------
(* Properties. *)

\* Type invariant: types and bounds, the channel's capacity among them.
AffinityTypeOK ==
  /\ online \subseteq Providers
  /\ earlier \subseteq Providers \X Providers
  /\ cooling \subseteq online
  /\ publishing \in [Workers -> Event \cup {None}]
  /\ queue \in Seq(Event)
  /\ Len(queue) <= EventBuffer
  /\ changes \in 0..MaxChanges
  /\ bound \in [Sessions -> Providers \cup {None}]
  /\ age \in [Sessions -> 0..TTL + 1]
  /\ phase \in [Requests -> {"lookup", "invalidate", "fallback", "bind", "done"}]
  /\ session \in [Requests -> Sessions \cup {NoSession}]
  /\ DOMAIN cursors \subseteq Models
  /\ DOMAIN ready = Requests
  /\ \A r \in Requests : DOMAIN ready[r] \subseteq Providers
  /\ choice \in [Requests -> Providers \cup {None}]
  /\ home \in [Sessions -> Providers \cup {None}]
  /\ idle \in [Sessions -> 0..TTL]

\* The round robin keeps no more cursors than it is allowed, and no cursor passes
\* the end of its range, however many models are asked for and for however long.
CursorsBounded ==
  /\ Cardinality(DOMAIN cursors) <= MaxKeys
  /\ \A m \in DOMAIN cursors : cursors[m] \in 1..CursorTop

\* Whatever the cache holds, late, lost and reordered events included: a selection
\* never ends with a provider that is not among the best ready ones of the list it
\* was made from.
ChosenIsReady ==
  [][\A r \in Requests :
       phase[r] # "done" /\ phase'[r] = "done" => choice'[r] \in Best(r)]_vars

\* A session that has settled on a provider is served by it until it is idle for
\* the TTL, an event speaks against the provider, or a list of the session does
\* not have it among its best: other sessions, concurrent selections, the cleanup
\* and events about others do not make it move.
StaysAtHome ==
  [][\A r \in Requests :
       LET s == session[r]
       IN  phase[r] # "done" /\ phase'[r] = "done" /\ s # NoSession =>
             home[s] \in {None, choice'[r]}]_vars

\* No binding outlives its provider for good: even when the event of its loss was
\* dropped or came before the binding, which nothing will use again, is set.
LostBindingsEnd ==
  \A p \in Providers :
    <>[](p \notin online) => <>[](\A s \in Sessions : bound[s] # p)

=============================================================================
