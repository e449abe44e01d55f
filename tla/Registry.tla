------------------------------ MODULE Registry ------------------------------
(***************************************************************************)
(* The runtime provider registry, internal/provider/registry/registry.go.  *)
(*                                                                         *)
(* The registry keeps one entry per provider id, a map of cooldown timers  *)
(* beside it, and a set of event subscribers.  Every operation changes the *)
(* two maps in one critical section of r.mu, releases the lock, and only   *)
(* then publishes its event under the read lock.  A cooldown timer that    *)
(* has fired runs handleCooldownTimer on a goroutine of its own: Stop no   *)
(* longer reaches it, and it may wait for the lock while other operations  *)
(* change the entry it was armed for.                                      *)
(*                                                                         *)
(* Abstractions.  Time is a counter; 0 is Go's zero time.  LastSeenAt,     *)
(* ConnectedAt, the label, the diagnostics and the ring of recent events   *)
(* are shown on the status page only and decide nothing here, so Touch,    *)
(* RecordProviderError and the ring are left out.  Timers (and callbacks)  *)
(* with the same provider and deadline are one element of a set: the first *)
(* to run ends the cooldown and the others find nothing to do.             *)
(***************************************************************************)
EXTENDS Naturals, Sequences, FiniteSets

CONSTANTS
  Providers,    \* provider ids, already trimmed and lower-cased (providerMapKey)
  Conns,        \* connection ids
  Workers,      \* goroutines that call the registry
  Subscribers,  \* callers of Subscribe
  SubBuffer,    \* capacity of a subscriber's channel
  MaxTime,      \* bound: the last clock reading
  NoEntry       \* the absence of an entry in r.providers

Time   == 0 .. MaxTime
States == {"active", "cooling", "disabled"}
Entry  == [conn : Conns, state : States, until : Time]

\* An event as far as the registry distinguishes it: its type and its provider.
EventTypes == {"connected", "replaced", "disconnected", "state_changed"}
Event      == [type : EventTypes, id : Providers]
Timer      == [id : Providers, until : Time]
Callback   == [id : Providers, until : Time, now : Time]

ASSUME RegistryAssumption ==
  /\ Providers # {}
  /\ MaxTime \in Nat \ {0}
  /\ SubBuffer \in Nat \ {0}
  /\ NoEntry \notin Entry

VARIABLES
  clock,           \* the time every time.Now and time.AfterFunc sees
  providers,       \* r.providers
  cooldownTimers,  \* r.cooldownTimers: the deadline of the timer kept for an id, 0 for none
  armed,           \* the runtime's timers that have not fired
  callbacks,       \* timers that fired: their goroutine has read r.now and awaits r.mu
  phase,           \* what a goroutine does: idle, about to publish, or sending under RLock
  event,           \* the event it publishes
  todo,            \* the subscribers it has yet to send to
  sub,             \* a subscription: none, open, or cancelled and its channel closed
  queue            \* what a subscriber's channel holds

lockVars == <<providers, cooldownTimers, armed>>
pubVars  == <<phase, event, todo>>
subVars  == <<sub, queue>>
vars     == <<clock, lockVars, callbacks, pubVars, subVars>>

NoEvent == [type |-> "connected", id |-> CHOOSE p \in Providers : TRUE]

Init ==
  /\ clock = 1
  /\ providers = [p \in Providers |-> NoEntry]
  /\ cooldownTimers = [p \in Providers |-> 0]
  /\ armed = {}
  /\ callbacks = {}
  /\ phase = [w \in Workers |-> "idle"]
  /\ event = [w \in Workers |-> NoEvent]
  /\ todo = [w \in Workers |-> {}]
  /\ sub = [s \in Subscribers |-> "none"]
  /\ queue = [s \in Subscribers |-> <<>>]

-----------------------------------------------------------------------------
(* The lock.  A publisher between its RLock and its RUnlock keeps writers out. *)

\* cancel not kept out by a publisher's read lock
MutantWriteLock == TRUE

WriteLock == \A w \in Workers : phase[w] # "sending"

\* Any clock reading taken before the lock: it may be stale once the lock is held.
Reading == 1 .. clock

Online(p) == providers[p] # NoEntry

Cooling(p) == Online(p) /\ providers[p].state = "cooling"

(* What a goroutine does after its critical section: it goes on to publish e, *)
(* or, when the operation changed nothing worth an event, it is done.         *)
ThenPublish(w, type, p) ==
  /\ phase' = [phase EXCEPT ![w] = "publish"]
  /\ event' = [event EXCEPT ![w] = [type |-> type, id |-> p]]
  /\ UNCHANGED todo

NoPublish == UNCHANGED pubVars

-----------------------------------------------------------------------------
(* Cooldown timers: stopCooldownTimerLocked and replaceCooldownTimerLocked. *)

StopTimer(p) ==
  /\ armed' = armed \ {[id |-> p, until |-> cooldownTimers[p]]}
  /\ cooldownTimers' = [cooldownTimers EXCEPT ![p] = 0]

\* a replacement that forgets to re-arm when a timer is kept already
MutantReplaceTimer(p, u) ==
  /\ armed' = IF cooldownTimers[p] = 0 THEN armed \cup {[id |-> p, until |-> u]} ELSE armed
  /\ cooldownTimers' = [cooldownTimers EXCEPT ![p] = u]

ReplaceTimer(p, u) ==
  /\ armed' = (armed \ {[id |-> p, until |-> cooldownTimers[p]]})
                \cup {[id |-> p, until |-> u]}
  /\ cooldownTimers' = [cooldownTimers EXCEPT ![p] = u]

\* syncCooldownTimerLocked: the timer follows the entry just stored.
SyncTimer(p, e) ==
  IF e.state = "cooling" THEN ReplaceTimer(p, e.until) ELSE StopTimer(p)

-----------------------------------------------------------------------------
(* Register.  normalizeProvider turns a cooldown already over into "active". *)

Normalized(c, state, until, now) ==
  IF state = "cooling" /\ until <= now
    THEN [conn |-> c, state |-> "active", until |-> 0]
    ELSE [conn |-> c, state |-> state, until |-> until]

Register(w, p, c) ==
  /\ phase[w] = "idle"
  /\ WriteLock
  /\ \E now \in Reading, state \in States, until \in Time :
       /\ state # "cooling" => until = 0
       /\ LET e == Normalized(c, state, until, now)
          IN /\ providers' = [providers EXCEPT ![p] = e]
             /\ SyncTimer(p, e)
  /\ \/ /\ ~Online(p)
        /\ ThenPublish(w, "connected", p)
     \/ /\ Online(p)
        /\ providers[p].conn # c
        /\ ThenPublish(w, "replaced", p)
     \/ /\ Online(p)
        /\ providers[p].conn = c
        /\ NoPublish
  /\ UNCHANGED <<clock, callbacks, subVars>>

\* a disconnect that leaves the timer running
MutantDisconnect(w, p, c) ==
  /\ phase[w] = "idle"
  /\ WriteLock
  /\ Online(p)
  /\ providers[p].conn = c
  /\ providers' = [providers EXCEPT ![p] = NoEntry]
  /\ ThenPublish(w, "disconnected", p)
  /\ UNCHANGED <<clock, cooldownTimers, armed, callbacks, subVars>>

\* Disconnect: the entry goes only when the connection named is the current one.
Disconnect(w, p, c) ==
  /\ phase[w] = "idle"
  /\ WriteLock
  /\ Online(p)
  /\ providers[p].conn = c
  /\ providers' = [providers EXCEPT ![p] = NoEntry]
  /\ StopTimer(p)
  /\ ThenPublish(w, "disconnected", p)
  /\ UNCHANGED <<clock, callbacks, subVars>>

\* An event follows only if the state or the deadline changed.
PublishChange(w, p, e) ==
  IF e.state # providers[p].state \/ e.until # providers[p].until
    THEN ThenPublish(w, "state_changed", p)
    ELSE NoPublish

\* SetState: "disconnected" is stored as "disabled", "cooling" is refused.
SetState(w, p, state) ==
  /\ phase[w] = "idle"
  /\ WriteLock
  /\ Online(p)
  /\ state # "cooling"
  /\ LET e == [providers[p] EXCEPT !.state = state, !.until = 0]
     IN /\ providers' = [providers EXCEPT ![p] = e]
        /\ StopTimer(p)
        /\ PublishChange(w, p, e)
  /\ UNCHANGED <<clock, callbacks, subVars>>

\* SetCooldown: a deadline not after the reading means "active" (ClearCooldown is until = 0).
SetCooldown(w, p, until) ==
  /\ phase[w] = "idle"
  /\ WriteLock
  /\ Online(p)
  /\ \E now \in Reading :
       IF until <= now
         THEN LET e == [providers[p] EXCEPT !.state = "active", !.until = 0]
              IN /\ providers' = [providers EXCEPT ![p] = e]
                 /\ StopTimer(p)
                 /\ PublishChange(w, p, e)
         ELSE LET e == [providers[p] EXCEPT !.state = "cooling", !.until = until]
              IN /\ providers' = [providers EXCEPT ![p] = e]
                 /\ ReplaceTimer(p, until)
                 /\ PublishChange(w, p, e)
  /\ UNCHANGED <<clock, callbacks, subVars>>

-----------------------------------------------------------------------------
(* Time passes, a due timer fires, and its goroutine takes the lock. *)

Tick ==
  /\ clock < MaxTime
  /\ clock' = clock + 1
  /\ UNCHANGED <<lockVars, callbacks, pubVars, subVars>>

TimerFires(t) ==
  /\ t \in armed
  /\ t.until <= clock
  /\ armed' = armed \ {t}
  /\ callbacks' = callbacks \cup {[id |-> t.id, until |-> t.until, now |-> clock]}
  /\ UNCHANGED <<clock, providers, cooldownTimers, pubVars, subVars>>

\* handleCooldownTimer without its check that the deadline is still the one it was armed for
MutantTimerIsCurrent(c) == Cooling(c.id)

TimerIsCurrent(c) ==
  /\ Cooling(c.id)
  /\ providers[c.id].until = c.until
  /\ providers[c.id].until <= c.now

HandleCooldownTimer(w, c) ==
  /\ c \in callbacks
  /\ phase[w] = "idle"
  /\ WriteLock
  /\ callbacks' = callbacks \ {c}
  /\ \/ /\ TimerIsCurrent(c)
        /\ providers' = [providers EXCEPT ![c.id].state = "active", ![c.id].until = 0]
        /\ cooldownTimers' = [cooldownTimers EXCEPT ![c.id] = 0]
        /\ ThenPublish(w, "state_changed", c.id)
     \/ /\ ~TimerIsCurrent(c)
        /\ UNCHANGED <<providers, cooldownTimers>>
        /\ NoPublish
  /\ UNCHANGED <<clock, armed, subVars>>

-----------------------------------------------------------------------------
(* publish, and the two sides of a subscription. *)

BeginPublish(w) ==
  /\ phase[w] = "publish"
  /\ phase' = [phase EXCEPT ![w] = "sending"]
  /\ todo' = [todo EXCEPT ![w] = {s \in Subscribers : sub[s] = "open"}]
  /\ UNCHANGED <<clock, lockVars, callbacks, event, subVars>>

\* One non-blocking send on a channel: when it is full the event is dropped.
Offer(q, e) == IF Len(q) < SubBuffer THEN Append(q, e) ELSE q

SendTo(w, s) ==
  /\ phase[w] = "sending"
  /\ s \in todo[w]
  /\ queue' = [queue EXCEPT ![s] = Offer(@, event[w])]
  /\ todo' = [todo EXCEPT ![w] = @ \ {s}]
  /\ UNCHANGED <<clock, lockVars, callbacks, phase, event, sub>>

EndPublish(w) ==
  /\ phase[w] = "sending"
  /\ todo[w] = {}
  /\ phase' = [phase EXCEPT ![w] = "idle"]
  /\ event' = [event EXCEPT ![w] = NoEvent]
  /\ UNCHANGED <<clock, lockVars, callbacks, todo, subVars>>

Subscribe(s) ==
  /\ WriteLock
  /\ sub[s] = "none"
  /\ sub' = [sub EXCEPT ![s] = "open"]
  /\ UNCHANGED <<clock, lockVars, callbacks, pubVars, queue>>

\* The cancel function: it removes the subscriber and closes its channel.
Cancel(s) ==
  /\ WriteLock
  /\ sub[s] = "open"
  /\ sub' = [sub EXCEPT ![s] = "closed"]
  /\ UNCHANGED <<clock, lockVars, callbacks, pubVars, queue>>

Receive(s) ==
  /\ queue[s] # <<>>
  /\ queue' = [queue EXCEPT ![s] = Tail(@)]
  /\ UNCHANGED <<clock, lockVars, callbacks, pubVars, sub>>

-----------------------------------------------------------------------------
Operation(w) ==
  \E p \in Providers :
    \/ \E c \in Conns : Register(w, p, c) \/ Disconnect(w, p, c)
    \/ \E state \in States : SetState(w, p, state)
    \/ \E until \in Time : SetCooldown(w, p, until)

Publish(w) ==
  \/ BeginPublish(w)
  \/ \E s \in Subscribers : SendTo(w, s)
  \/ EndPublish(w)

Next ==
  \/ Tick
  \/ \E t \in armed : TimerFires(t)
  \/ \E w \in Workers, c \in callbacks : HandleCooldownTimer(w, c)
  \/ \E w \in Workers : Operation(w) \/ Publish(w)
  \/ \E s \in Subscribers : Subscribe(s) \/ Cancel(s) \/ Receive(s)

Spec == Init /\ [][Next]_vars

FireTimerOf(p) == \E t \in armed : t.id = p /\ TimerFires(t)

RunCallbackOf(p) ==
  \E w \in Workers, c \in callbacks : c.id = p /\ HandleCooldownTimer(w, c)

(* The clock moves, the runtime fires due timers, and a goroutine that waits *)
(* for r.mu gets it in the end (sync.RWMutex lets no waiter starve).  Nobody *)
(* is obliged to call the registry or to read a subscription.                *)
Fairness ==
  /\ WF_vars(Tick)
  /\ \A p \in Providers : WF_vars(FireTimerOf(p))
  /\ \A p \in Providers : SF_vars(RunCallbackOf(p))
  /\ \A w \in Workers : WF_vars(Publish(w))

FairSpec == Spec /\ Fairness

-----------------------------------------------------------------------------
(* Properties *)

RegistryTypeOK ==
  /\ clock \in Time \ {0}
  /\ providers \in [Providers -> Entry \cup {NoEntry}]
  /\ cooldownTimers \in [Providers -> Time]
  /\ armed \subseteq Timer
  /\ callbacks \subseteq Callback
  /\ phase \in [Workers -> {"idle", "publish", "sending"}]
  /\ event \in [Workers -> Event]
  /\ todo \in [Workers -> SUBSET Subscribers]
  /\ sub \in [Subscribers -> {"none", "open", "closed"}]
  /\ queue \in [Subscribers -> Seq(Event)]
  /\ \A s \in Subscribers : Len(queue[s]) <= SubBuffer

\* The registry keeps a timer exactly for the ids that are cooling, with the entry's deadline.
TimersFollowEntries ==
  \A p \in Providers :
    /\ Cooling(p) => providers[p].until # 0 /\ cooldownTimers[p] = providers[p].until
    /\ ~Cooling(p) => cooldownTimers[p] = 0

\* A cooling entry is never stranded: a timer armed for its deadline, or a
\* callback of such a timer that will find it expired, is on its way
\* (registry.go:118, "cooldown recovery is driven by the timer": no read path ends it).
CoolingWillEnd ==
  \A p \in Providers : Cooling(p) =>
    \/ [id |-> p, until |-> providers[p].until] \in armed
    \/ \E c \in callbacks : c.id = p /\ c.until = providers[p].until /\ c.until <= c.now

\* Together: no cooldown without a timer that ends it, no timer without its cooldown,
\* whatever replaces, disconnects or re-cools the provider while a callback waits.
CooldownHasItsTimer == TimersFollowEntries /\ CoolingWillEnd

\* A timer callback changes only the entry whose cooldown it was armed for, and
\* only once that cooldown is over: a late callback of an earlier cooldown, or of
\* a connection since replaced, never ends a newer one early (registry.go:672-682).
CallbackEndsOnlyItsCooldown ==
  [][\A c \in callbacks \ callbacks' : \A p \in Providers :
       providers'[p] # providers[p] =>
         /\ p = c.id
         /\ Cooling(p)
         /\ providers[p].until = c.until
         /\ c.until <= clock]_vars

\* publish never sends on a channel that cancel has closed (registry.go:625-627).
NoSendOnClosedChannel ==
  \A w \in Workers : phase[w] = "sending" => \A s \in todo[w] : sub[s] = "open"

\* Every cooldown ends or is replaced by another (registry.go:417).
CoolingEnds ==
  \A p \in Providers, u \in Time \ {0} :
    (Cooling(p) /\ providers[p].until = u) ~> ~(Cooling(p) /\ providers[p].until = u)

=============================================================================
