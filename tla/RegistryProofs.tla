--------------------------- MODULE RegistryProofs ---------------------------
(***************************************************************************)
(* The registry's invariants, for every set of providers, connections,     *)
(* goroutines and subscribers and every bound.                             *)
(***************************************************************************)
EXTENDS Registry, TLAPS

(***************************************************************************)
(* Type correctness.                                                       *)
(***************************************************************************)

\* The zero time is a time.
LEMMA ZeroTime == 0 \in Time
BY RegistryAssumption DEF Time

\* A normalised entry is an entry.
LEMMA NormalizedType ==
  ASSUME NEW c \in Conns, NEW state \in States, NEW until \in Time, NEW now \in Nat
  PROVE  /\ Normalized(c, state, until, now) \in Entry
         /\ Normalized(c, state, until, now).state = "cooling"
              => Normalized(c, state, until, now).until > now
BY RegistryAssumption DEF Normalized, Entry, States, Time

\* Offering an event to a channel keeps its type and its bound.
LEMMA OfferType ==
  ASSUME NEW q \in Seq(Event), Len(q) <= SubBuffer, NEW e \in Event
  PROVE  Offer(q, e) \in Seq(Event) /\ Len(Offer(q, e)) <= SubBuffer
BY RegistryAssumption DEF Offer

\* The state of the two maps and of the timers: what the operations change under r.mu.
MapsTypeOK ==
  /\ providers \in [Providers -> Entry \cup {NoEntry}]
  /\ cooldownTimers \in [Providers -> Time]
  /\ armed \subseteq Timer

\* stopCooldownTimerLocked keeps the types of the timers.
LEMMA StopTimerType ==
  ASSUME MapsTypeOK, NEW p \in Providers, StopTimer(p)
  PROVE  cooldownTimers' \in [Providers -> Time] /\ armed' \subseteq Timer
BY RegistryAssumption DEF MapsTypeOK, StopTimer, Time

\* replaceCooldownTimerLocked keeps the types of the timers.
LEMMA ReplaceTimerType ==
  ASSUME MapsTypeOK, NEW p \in Providers, NEW u \in Time, ReplaceTimer(p, u)
  PROVE  cooldownTimers' \in [Providers -> Time] /\ armed' \subseteq Timer
BY RegistryAssumption DEF MapsTypeOK, ReplaceTimer, Timer

\* The publishing variables keep their types whatever the critical section decides.
PubTypeOK ==
  /\ phase \in [Workers -> {"idle", "publish", "sending"}]
  /\ event \in [Workers -> Event]
  /\ todo \in [Workers -> SUBSET Subscribers]

\* An event to publish has the type of an event.
LEMMA ThenPublishType ==
  ASSUME PubTypeOK, NEW w \in Workers, NEW p \in Providers, NEW t \in EventTypes,
         ThenPublish(w, t, p)
  PROVE  PubTypeOK'
BY DEF PubTypeOK, ThenPublish, Event

\* An operation without an event leaves the publishers alone.
LEMMA NoPublishType ==
  ASSUME PubTypeOK, NoPublish
  PROVE  PubTypeOK'
BY DEF PubTypeOK, NoPublish, pubVars

\* Either way, PublishChange keeps the types of the publishers.
LEMMA PublishChangeType ==
  ASSUME PubTypeOK, NEW w \in Workers, NEW p \in Providers, NEW e, PublishChange(w, p, e)
  PROVE  PubTypeOK'
BY ThenPublishType, NoPublishType DEF PublishChange, EventTypes

\* Register stores an entry, normalised.
LEMMA RegisterType ==
  ASSUME RegistryTypeOK, NEW w \in Workers, NEW p \in Providers, NEW c \in Conns,
         Register(w, p, c)
  PROVE  RegistryTypeOK'
<1>1. MapsTypeOK /\ PubTypeOK
  BY DEF RegistryTypeOK, MapsTypeOK, PubTypeOK
<1>2. PICK now \in Reading, state \in States, until \in Time :
        LET e == Normalized(c, state, until, now)
        IN /\ providers' = [providers EXCEPT ![p] = e]
           /\ SyncTimer(p, e)
  BY DEF Register
<1> DEFINE e == Normalized(c, state, until, now)
<1>3. now \in Nat
  BY RegistryAssumption DEF Reading, RegistryTypeOK, Time
<1>4. e \in Entry
  BY <1>3, NormalizedType
<1>5. e.until \in Time
  BY <1>4 DEF Entry
<1>6. providers' \in [Providers -> Entry \cup {NoEntry}]
  BY <1>1, <1>2, <1>4 DEF MapsTypeOK
<1>7. cooldownTimers' \in [Providers -> Time] /\ armed' \subseteq Timer
  BY <1>1, <1>2, <1>5, StopTimerType, ReplaceTimerType DEF SyncTimer
<1>8. PubTypeOK'
  BY <1>1, ThenPublishType, NoPublishType DEF Register, EventTypes
<1> QED
  BY <1>6, <1>7, <1>8 DEF Register, RegistryTypeOK, PubTypeOK, subVars

\* Disconnect keeps the types.
LEMMA DisconnectType ==
  ASSUME RegistryTypeOK, NEW w \in Workers, NEW p \in Providers, NEW c \in Conns,
         Disconnect(w, p, c)
  PROVE  RegistryTypeOK'
<1>1. MapsTypeOK /\ PubTypeOK
  BY DEF RegistryTypeOK, MapsTypeOK, PubTypeOK
<1>2. providers' \in [Providers -> Entry \cup {NoEntry}]
  BY <1>1 DEF MapsTypeOK, Disconnect
<1>3. cooldownTimers' \in [Providers -> Time] /\ armed' \subseteq Timer
  BY <1>1, StopTimerType DEF Disconnect
<1>4. PubTypeOK'
  BY <1>1, ThenPublishType DEF Disconnect, EventTypes
<1> QED
  BY <1>2, <1>3, <1>4 DEF Disconnect, RegistryTypeOK, PubTypeOK, subVars

\* What is kept for an online provider is an entry.
LEMMA OnlineEntry ==
  ASSUME MapsTypeOK, NEW p \in Providers, Online(p)
  PROVE  providers[p] \in Entry
BY DEF MapsTypeOK, Online

\* SetState keeps the types.
LEMMA SetStateType ==
  ASSUME RegistryTypeOK, NEW w \in Workers, NEW p \in Providers, NEW state \in States,
         SetState(w, p, state)
  PROVE  RegistryTypeOK'
<1>1. MapsTypeOK /\ PubTypeOK
  BY DEF RegistryTypeOK, MapsTypeOK, PubTypeOK
<1> DEFINE e == [providers[p] EXCEPT !.state = state, !.until = 0]
<1>a. e \in Entry
  <2>1. Online(p)
    BY DEF SetState
  <2>2. providers[p] \in Entry
    BY <1>1, <2>1, OnlineEntry
  <2> QED
    BY <2>2, ZeroTime DEF Entry
<1>b. providers' = [providers EXCEPT ![p] = e]
  BY DEF SetState
<1>2. providers' \in [Providers -> Entry \cup {NoEntry}]
  BY <1>1, <1>a, <1>b DEF MapsTypeOK
<1>3. cooldownTimers' \in [Providers -> Time] /\ armed' \subseteq Timer
  BY <1>1, StopTimerType DEF SetState
<1>4. PubTypeOK'
  BY <1>1, PublishChangeType DEF SetState
<1> QED
  BY <1>2, <1>3, <1>4 DEF SetState, RegistryTypeOK, PubTypeOK, subVars

\* SetCooldown keeps the types in both its branches.
LEMMA SetCooldownType ==
  ASSUME RegistryTypeOK, NEW w \in Workers, NEW p \in Providers, NEW until \in Time,
         SetCooldown(w, p, until)
  PROVE  RegistryTypeOK'
<1>1. MapsTypeOK /\ PubTypeOK
  BY DEF RegistryTypeOK, MapsTypeOK, PubTypeOK
<1>o. Online(p)
  BY DEF SetCooldown
<1>e. providers[p] \in Entry
  BY <1>1, <1>o, OnlineEntry
<1>a. [providers[p] EXCEPT !.state = "active", !.until = 0] \in Entry
  BY <1>e, ZeroTime DEF Entry, States
<1>b. [providers[p] EXCEPT !.state = "cooling", !.until = until] \in Entry
  BY <1>e DEF Entry, States
<1>2. providers' \in [Providers -> Entry \cup {NoEntry}]
  <2>1. PICK f \in Entry : providers' = [providers EXCEPT ![p] = f]
    BY <1>a, <1>b DEF SetCooldown
  <2> QED
    BY <1>1, <2>1 DEF MapsTypeOK
<1>3. cooldownTimers' \in [Providers -> Time] /\ armed' \subseteq Timer
  BY <1>1, StopTimerType, ReplaceTimerType DEF SetCooldown
<1>4. PubTypeOK'
  BY <1>1, PublishChangeType DEF SetCooldown
<1> QED
  BY <1>2, <1>3, <1>4 DEF SetCooldown, RegistryTypeOK, PubTypeOK, subVars

\* A callback carries the deadline of its timer and the reading of a due clock.
LEMMA TimerFiresType ==
  ASSUME RegistryTypeOK, NEW t, TimerFires(t)
  PROVE  RegistryTypeOK'
BY DEF RegistryTypeOK, TimerFires, Timer, Callback, pubVars, subVars

\* A callback keeps the types, whether it is current or stale.
LEMMA HandleCooldownTimerType ==
  ASSUME RegistryTypeOK, NEW w \in Workers, NEW c, HandleCooldownTimer(w, c)
  PROVE  RegistryTypeOK'
<1>1. c \in Callback /\ c.id \in Providers
  BY DEF RegistryTypeOK, HandleCooldownTimer, Callback
<1>2. CASE TimerIsCurrent(c)
  <2>1. providers' = [providers EXCEPT
          ![c.id] = [providers[c.id] EXCEPT !.state = "active", !.until = 0]]
    BY <1>1, <1>2 DEF HandleCooldownTimer, RegistryTypeOK
  <2>2. [providers[c.id] EXCEPT !.state = "active", !.until = 0] \in Entry
    <3>1. providers[c.id] \in Entry
      BY <1>1, <1>2 DEF TimerIsCurrent, Cooling, Online, RegistryTypeOK
    <3> QED
      BY <3>1, ZeroTime DEF Entry, States
  <2>3. providers' \in [Providers -> Entry \cup {NoEntry}]
    BY <2>1, <2>2 DEF RegistryTypeOK
  <2>4. cooldownTimers' \in [Providers -> Time]
    BY <1>2, ZeroTime DEF HandleCooldownTimer, RegistryTypeOK
  <2>5. PubTypeOK'
    BY <1>1, <1>2, ThenPublishType
    DEF HandleCooldownTimer, RegistryTypeOK, PubTypeOK, EventTypes
  <2> QED
    BY <2>3, <2>4, <2>5 DEF HandleCooldownTimer, RegistryTypeOK, PubTypeOK, subVars
<1>3. CASE ~TimerIsCurrent(c)
  BY <1>3 DEF HandleCooldownTimer, RegistryTypeOK, NoPublish, pubVars, subVars
<1> QED
  BY <1>2, <1>3

\* Publishing keeps the types, and a channel within its capacity.
LEMMA PublishType ==
  ASSUME RegistryTypeOK, NEW w \in Workers, Publish(w)
  PROVE  RegistryTypeOK'
<1>1. CASE BeginPublish(w)
  BY <1>1 DEF BeginPublish, RegistryTypeOK, lockVars, subVars
<1>2. ASSUME NEW s \in Subscribers, SendTo(w, s)
      PROVE  RegistryTypeOK'
  <2>1. Offer(queue[s], event[w]) \in Seq(Event) /\ Len(Offer(queue[s], event[w])) <= SubBuffer
    BY <1>2, OfferType DEF RegistryTypeOK
  <2>2. /\ queue' \in [Subscribers -> Seq(Event)]
        /\ \A r \in Subscribers : Len(queue'[r]) <= SubBuffer
    BY <1>2, <2>1 DEF SendTo, RegistryTypeOK
  <2>3. todo' \in [Workers -> SUBSET Subscribers]
    BY <1>2 DEF SendTo, RegistryTypeOK
  <2> QED
    BY <1>2, <2>2, <2>3 DEF SendTo, RegistryTypeOK, lockVars
<1>3. CASE EndPublish(w)
  <2>1. NoEvent \in Event
    BY RegistryAssumption DEF NoEvent, Event, EventTypes
  <2> QED
    BY <1>3, <2>1 DEF EndPublish, RegistryTypeOK, lockVars, subVars
<1> QED
  BY <1>1, <1>2, <1>3 DEF Publish

\* Subscribing, cancelling and receiving keep the types.
LEMMA SubscriptionType ==
  ASSUME RegistryTypeOK, NEW s \in Subscribers, Subscribe(s) \/ Cancel(s) \/ Receive(s)
  PROVE  RegistryTypeOK'
<1>1. CASE Subscribe(s)
  BY <1>1 DEF Subscribe, RegistryTypeOK, lockVars, pubVars
<1>2. CASE Cancel(s)
  BY <1>2 DEF Cancel, RegistryTypeOK, lockVars, pubVars
<1>3. CASE Receive(s)
  <2>1. Tail(queue[s]) \in Seq(Event) /\ Len(Tail(queue[s])) <= SubBuffer
    BY <1>3, RegistryAssumption DEF Receive, RegistryTypeOK
  <2> QED
    BY <1>3, <2>1 DEF Receive, RegistryTypeOK, lockVars, pubVars
<1> QED
  BY <1>1, <1>2, <1>3

\* Every reachable state is well typed.
THEOREM TypeCorrect == Spec => []RegistryTypeOK
<1>1. Init => RegistryTypeOK
  <2>1. NoEvent \in Event
    BY RegistryAssumption DEF NoEvent, Event, EventTypes
  <2> QED
    BY <2>1, RegistryAssumption DEF Init, RegistryTypeOK, Time
<1>2. RegistryTypeOK /\ [Next]_vars => RegistryTypeOK'
  <2> SUFFICES ASSUME RegistryTypeOK, [Next]_vars
               PROVE  RegistryTypeOK'
    OBVIOUS
  <2>1. CASE Tick
    BY <2>1, RegistryAssumption
    DEF Tick, RegistryTypeOK, Time, lockVars, pubVars, subVars
  <2>2. CASE \E t \in armed : TimerFires(t)
    BY <2>2, TimerFiresType
  <2>3. CASE \E w \in Workers, c \in callbacks : HandleCooldownTimer(w, c)
    BY <2>3, HandleCooldownTimerType
  <2>4. ASSUME NEW w \in Workers, Operation(w)
        PROVE  RegistryTypeOK'
    BY <2>4, RegisterType, DisconnectType, SetStateType, SetCooldownType DEF Operation
  <2>5. ASSUME NEW w \in Workers, Publish(w)
        PROVE  RegistryTypeOK'
    BY <2>5, PublishType
  <2>6. ASSUME NEW s \in Subscribers, Subscribe(s) \/ Cancel(s) \/ Receive(s)
        PROVE  RegistryTypeOK'
    BY <2>6, SubscriptionType
  <2>7. CASE UNCHANGED vars
    BY <2>7 DEF vars, lockVars, pubVars, subVars, RegistryTypeOK
  <2> QED
    BY <2>1, <2>2, <2>3, <2>4, <2>5, <2>6, <2>7 DEF Next
<1> QED
  BY <1>1, <1>2, PTL DEF Spec

-----------------------------------------------------------------------------
(***************************************************************************)
(* The read lock protects a publisher's channels.                          *)
(***************************************************************************)

\* publish never sends on a channel that cancel has closed: while a publisher
\* is between RLock and RUnlock, Cancel cannot take the write lock.
THEOREM NoSendOnClosed == Spec => []NoSendOnClosedChannel
<1>1. Init => NoSendOnClosedChannel
  BY DEF Init, NoSendOnClosedChannel
<1>2. RegistryTypeOK /\ NoSendOnClosedChannel /\ [Next]_vars => NoSendOnClosedChannel'
  <2> SUFFICES ASSUME RegistryTypeOK, NoSendOnClosedChannel, [Next]_vars
               PROVE  NoSendOnClosedChannel'
    OBVIOUS
  <2> USE DEF NoSendOnClosedChannel, RegistryTypeOK
  <2>1. CASE Tick
    BY <2>1 DEF Tick, pubVars, subVars
  <2>2. CASE \E t \in armed : TimerFires(t)
    BY <2>2 DEF TimerFires, pubVars, subVars
  <2>3. CASE \E w \in Workers, c \in callbacks : HandleCooldownTimer(w, c)
    BY <2>3 DEF HandleCooldownTimer, ThenPublish, NoPublish, pubVars, subVars
  <2>4. ASSUME NEW w \in Workers, Operation(w)
        PROVE  NoSendOnClosedChannel'
    BY <2>4 DEF Operation, Register, Disconnect, SetState, SetCooldown,
                PublishChange, ThenPublish, NoPublish, pubVars, subVars
  <2>5. ASSUME NEW w \in Workers, Publish(w)
        PROVE  NoSendOnClosedChannel'
    BY <2>5 DEF Publish, BeginPublish, SendTo, EndPublish, lockVars, subVars
  <2>6. ASSUME NEW s \in Subscribers, Subscribe(s) \/ Cancel(s) \/ Receive(s)
        PROVE  NoSendOnClosedChannel'
    BY <2>6 DEF Subscribe, Cancel, Receive, WriteLock, lockVars, pubVars
  <2>7. CASE UNCHANGED vars
    BY <2>7 DEF vars, pubVars, subVars
  <2> QED
    BY <2>1, <2>2, <2>3, <2>4, <2>5, <2>6, <2>7 DEF Next
<1> QED
  BY <1>1, <1>2, TypeCorrect, PTL DEF Spec

-----------------------------------------------------------------------------
(***************************************************************************)
(* Cooldowns and their timers.  CooldownHasItsTimer alone is not inductive: *)
(* a callback found with the right deadline must also have read the clock  *)
(* after it, which only its creation by TimerFires shows.                  *)
(***************************************************************************)

CallbacksAreDue == \A c \in callbacks : c.until <= c.now /\ c.now <= clock

TimerInv == CooldownHasItsTimer /\ CallbacksAreDue

\* A timer that fires leaves a callback behind that has read a clock past its deadline.
LEMMA TimerFiresInv ==
  ASSUME RegistryTypeOK, TimerInv, NEW t, TimerFires(t)
  PROVE  TimerInv'
<1> USE DEF RegistryTypeOK, TimerInv, CallbacksAreDue, CooldownHasItsTimer
<1> DEFINE fired == [id |-> t.id, until |-> t.until, now |-> clock]
<1>1. t \in Timer /\ t \in armed /\ t.until <= clock /\ UNCHANGED <<clock, providers, cooldownTimers>>
  BY DEF TimerFires
<1>2. armed' = armed \ {t} /\ callbacks' = callbacks \cup {fired}
  BY DEF TimerFires
<1>3. CallbacksAreDue'
  BY <1>1, <1>2, RegistryAssumption DEF Time, Timer
<1>4. TimersFollowEntries'
  BY <1>1 DEF TimersFollowEntries, Cooling, Online
<1>5. CoolingWillEnd'
  <2> SUFFICES ASSUME NEW p \in Providers, Cooling(p)
               PROVE  \/ [id |-> p, until |-> providers[p].until] \in armed'
                      \/ \E c \in callbacks' :
                           c.id = p /\ c.until = providers[p].until /\ c.until <= c.now
    BY <1>1 DEF CoolingWillEnd, Cooling, Online
  <2>1. CASE t = [id |-> p, until |-> providers[p].until]
    <3>1. fired \in callbacks' /\ fired.id = p /\ fired.until = providers[p].until
             /\ fired.until <= fired.now
      BY <1>1, <1>2, <2>1
    <3> QED
      BY <3>1
  <2>2. CASE t # [id |-> p, until |-> providers[p].until]
    BY <1>2, <2>2 DEF CoolingWillEnd
  <2> QED
    BY <2>1, <2>2
<1> QED
  BY <1>3, <1>4, <1>5

\* After a step that changes the entry of p only, it is enough to look at p.
LEMMA OnlyOneEntry ==
  ASSUME RegistryTypeOK, TimerInv, NEW p \in Providers,
         NEW e \in Entry \cup {NoEntry}, NEW u \in Time,
         providers' = [providers EXCEPT ![p] = e],
         cooldownTimers' = [cooldownTimers EXCEPT ![p] = u],
         \A t \in Timer : t.id # p => (t \in armed' <=> t \in armed),
         UNCHANGED <<clock, callbacks>>,
         (e # NoEntry /\ e.state = "cooling")
            => e.until # 0 /\ u = e.until /\ [id |-> p, until |-> u] \in armed',
         ~(e # NoEntry /\ e.state = "cooling") => u = 0
  PROVE  TimerInv'
<1> USE DEF RegistryTypeOK, TimerInv, CallbacksAreDue, CooldownHasItsTimer
<1>1. CallbacksAreDue'
  OBVIOUS
<1>2. TimersFollowEntries'
  BY DEF TimersFollowEntries, Cooling, Online
<1>3. CoolingWillEnd'
  <2> SUFFICES ASSUME NEW q \in Providers, Cooling(q)'
               PROVE  \/ [id |-> q, until |-> providers'[q].until] \in armed'
                      \/ \E c \in callbacks' :
                           c.id = q /\ c.until = providers'[q].until /\ c.until <= c.now
    BY DEF CoolingWillEnd
  <2>1. CASE q = p
    BY <2>1 DEF Cooling, Online
  <2>2. CASE q # p
    <3>1. providers'[q] = providers[q] /\ Cooling(q)
      BY <2>2 DEF Cooling, Online
    <3>2. [id |-> q, until |-> providers[q].until] \in Timer
      BY <3>1 DEF Cooling, Online, Entry, Timer
    <3> QED
      BY <2>2, <3>1, <3>2 DEF CoolingWillEnd
  <2> QED
    BY <2>1, <2>2
<1> QED
  BY <1>1, <1>2, <1>3

\* Both timer helpers leave other providers' timers alone.
LEMMA TimerHelpers ==
  ASSUME RegistryTypeOK, NEW p \in Providers, NEW u \in Time
  PROVE  /\ StopTimer(p) =>
              /\ cooldownTimers' = [cooldownTimers EXCEPT ![p] = 0]
              /\ \A t \in Timer : t.id # p => (t \in armed' <=> t \in armed)
         /\ ReplaceTimer(p, u) =>
              /\ cooldownTimers' = [cooldownTimers EXCEPT ![p] = u]
              /\ \A t \in Timer : t.id # p => (t \in armed' <=> t \in armed)
              /\ [id |-> p, until |-> u] \in armed'
BY DEF StopTimer, ReplaceTimer, Timer

\* Register arms a timer for a cooling entry and stops the timer of any other.
LEMMA RegisterInv ==
  ASSUME RegistryTypeOK, TimerInv, NEW w \in Workers, NEW p \in Providers, NEW c \in Conns,
         Register(w, p, c)
  PROVE  TimerInv'
<1>1. PICK now \in Reading, state \in States, until \in Time :
        LET e == Normalized(c, state, until, now)
        IN /\ providers' = [providers EXCEPT ![p] = e]
           /\ SyncTimer(p, e)
  BY DEF Register
<1> DEFINE e == Normalized(c, state, until, now)
<1>2. now \in Nat
  BY RegistryAssumption DEF Reading, RegistryTypeOK, Time
<1>3. e \in Entry /\ (e.state = "cooling" => e.until > now)
  BY <1>2, NormalizedType
<1>4. e.until \in Time /\ e # NoEntry
  BY <1>3, RegistryAssumption DEF Entry
<1>5. UNCHANGED <<clock, callbacks>>
  BY DEF Register
<1>a. providers' = [providers EXCEPT ![p] = e] /\ SyncTimer(p, e)
  BY <1>1
<1> HIDE DEF e
<1>6. CASE e.state = "cooling"
  <2>1. ReplaceTimer(p, e.until)
    BY <1>a, <1>6 DEF SyncTimer
  <2>2. e.until # 0
    BY <1>2, <1>3, <1>4, <1>6, RegistryAssumption DEF Time
  <2> QED
    BY <1>a, <1>3, <1>4, <1>5, <1>6, <2>1, <2>2, TimerHelpers, OnlyOneEntry
<1>7. CASE e.state # "cooling"
  <2>1. StopTimer(p)
    BY <1>a, <1>7 DEF SyncTimer
  <2> QED
    BY <1>a, <1>3, <1>4, <1>5, <1>7, <2>1, ZeroTime, TimerHelpers, OnlyOneEntry
<1> QED
  BY <1>6, <1>7

\* Disconnect takes the timer along with the entry.
LEMMA DisconnectInv ==
  ASSUME RegistryTypeOK, TimerInv, NEW w \in Workers, NEW p \in Providers, NEW c \in Conns,
         Disconnect(w, p, c)
  PROVE  TimerInv'
<1>1. providers' = [providers EXCEPT ![p] = NoEntry] /\ StopTimer(p) /\ UNCHANGED <<clock, callbacks>>
  BY DEF Disconnect
<1> QED
  BY <1>1, ZeroTime, TimerHelpers, OnlyOneEntry

\* SetState never leaves an entry cooling and stops its timer.
LEMMA SetStateInv ==
  ASSUME RegistryTypeOK, TimerInv, NEW w \in Workers, NEW p \in Providers, NEW state \in States,
         SetState(w, p, state)
  PROVE  TimerInv'
<1> DEFINE e == [providers[p] EXCEPT !.state = state, !.until = 0]
<1>a. MapsTypeOK /\ Online(p) /\ state # "cooling"
  <2>1. MapsTypeOK
    BY DEF RegistryTypeOK, MapsTypeOK
  <2> QED
    BY <2>1 DEF SetState
<1>d. providers[p] \in Entry
  BY <1>a, OnlineEntry
<1>b. e \in Entry
  BY <1>d, ZeroTime DEF Entry
<1>c. e.state = state
  BY <1>d DEF Entry
<1>1. e \in Entry /\ e.state # "cooling"
  BY <1>a, <1>b, <1>c
<1>2. /\ providers' = [providers EXCEPT ![p] = e]
      /\ StopTimer(p)
      /\ UNCHANGED <<clock, callbacks>>
  BY DEF SetState
<1> HIDE DEF e
<1> QED
  BY <1>1, <1>2, ZeroTime, TimerHelpers, OnlyOneEntry

\* SetCooldown arms a timer for its deadline, or ends the cooldown and stops the timer.
LEMMA SetCooldownInv ==
  ASSUME RegistryTypeOK, TimerInv, NEW w \in Workers, NEW p \in Providers, NEW until \in Time,
         SetCooldown(w, p, until)
  PROVE  TimerInv'
<1> DEFINE active  == [providers[p] EXCEPT !.state = "active", !.until = 0]
           cooling == [providers[p] EXCEPT !.state = "cooling", !.until = until]
<1>a. MapsTypeOK
  BY DEF RegistryTypeOK, MapsTypeOK
<1>b. Online(p)
  BY DEF SetCooldown
<1>c. "active" \in States /\ "cooling" \in States
  BY DEF States
<1>d. providers[p] \in Entry
  BY <1>a, <1>b, OnlineEntry
<1>1. active \in Entry /\ active.state = "active"
  BY <1>c, <1>d, ZeroTime DEF Entry
<1>2. cooling \in Entry /\ cooling.state = "cooling" /\ cooling.until = until
  BY <1>c, <1>d DEF Entry
<1>3. PICK now \in Reading :
        \/ /\ providers' = [providers EXCEPT ![p] = active]
           /\ StopTimer(p)
        \/ /\ ~(until <= now)
           /\ providers' = [providers EXCEPT ![p] = cooling]
           /\ ReplaceTimer(p, until)
  BY DEF SetCooldown
<1>4. UNCHANGED <<clock, callbacks>>
  BY DEF SetCooldown
<1>5. ~(until <= now) => until # 0
  BY RegistryAssumption DEF Reading, RegistryTypeOK, Time
<1>6. NoEntry \notin Entry
  BY RegistryAssumption
<1> HIDE DEF active, cooling
<1>7. CASE providers' = [providers EXCEPT ![p] = active] /\ StopTimer(p)
  BY <1>1, <1>4, <1>6, <1>7, ZeroTime, TimerHelpers, OnlyOneEntry
<1>8. CASE ~(until <= now) /\ providers' = [providers EXCEPT ![p] = cooling] /\ ReplaceTimer(p, until)
  BY <1>2, <1>4, <1>5, <1>6, <1>8, TimerHelpers, OnlyOneEntry
<1> QED
  BY <1>3, <1>7, <1>8

\* A callback either ends its own cooldown, timer entry included, or leaves the
\* maps alone; in both cases no cooling entry depended on it afterwards.
LEMMA HandleCooldownTimerInv ==
  ASSUME RegistryTypeOK, TimerInv, NEW w \in Workers, NEW c, HandleCooldownTimer(w, c)
  PROVE  TimerInv'
<1> USE DEF RegistryTypeOK, TimerInv, CallbacksAreDue, CooldownHasItsTimer
<1>1. /\ c \in callbacks /\ c.id \in Providers /\ c.until <= c.now
      /\ callbacks' = callbacks \ {c}
      /\ UNCHANGED <<clock, armed>>
  BY DEF HandleCooldownTimer, Callback
<1>2. CallbacksAreDue'
  BY <1>1
<1>3. CASE TimerIsCurrent(c)
  <2>1. /\ providers' = [providers EXCEPT ![c.id].state = "active", ![c.id].until = 0]
        /\ cooldownTimers' = [cooldownTimers EXCEPT ![c.id] = 0]
    BY <1>3 DEF HandleCooldownTimer
  <2>2. \A q \in Providers : q # c.id =>
           providers'[q] = providers[q] /\ cooldownTimers'[q] = cooldownTimers[q]
    BY <1>1, <2>1
  <2>3. providers[c.id] \in Entry
    BY <1>1, <1>3 DEF TimerIsCurrent, Cooling, Online
  <2>4. ~Cooling(c.id)' /\ cooldownTimers'[c.id] = 0
    BY <1>1, <2>1, <2>3 DEF Cooling, Entry
  <2>5. TimersFollowEntries'
    BY <2>2, <2>4 DEF TimersFollowEntries, Cooling, Online
  <2>6. CoolingWillEnd'
    BY <1>1, <2>2, <2>4 DEF CoolingWillEnd, Cooling, Online
  <2> QED
    BY <1>2, <2>5, <2>6
<1>4. CASE ~TimerIsCurrent(c)
  <2>1. UNCHANGED <<providers, cooldownTimers>>
    BY <1>4 DEF HandleCooldownTimer
  <2>2. TimersFollowEntries'
    BY <2>1 DEF TimersFollowEntries, Cooling, Online
  <2>3. CoolingWillEnd'
    BY <1>1, <1>4, <2>1 DEF CoolingWillEnd, TimerIsCurrent, Cooling, Online
  <2> QED
    BY <1>2, <2>2, <2>3
<1> QED
  BY <1>3, <1>4

\* TimerInv depends on the clock, the two maps, the timers and the callbacks only.
LEMMA TimerInvFrame ==
  ASSUME RegistryTypeOK, TimerInv, UNCHANGED <<lockVars, callbacks>>,
         clock' \in Nat, clock <= clock'
  PROVE  TimerInv'
<1>1. CallbacksAreDue'
  BY RegistryAssumption DEF TimerInv, CallbacksAreDue, RegistryTypeOK, Callback, Time, lockVars
<1>2. CooldownHasItsTimer'
  BY DEF TimerInv, CooldownHasItsTimer, TimersFollowEntries, CoolingWillEnd, Cooling, Online, lockVars
<1> QED
  BY <1>1, <1>2 DEF TimerInv

\* Every step keeps TimerInv.
LEMMA TimerInvInductive ==
  ASSUME RegistryTypeOK, TimerInv, [Next]_vars
  PROVE  TimerInv'
<1>0. clock \in Nat
  BY RegistryAssumption DEF RegistryTypeOK, Time
<1>1. CASE Tick
  BY <1>0, <1>1, TimerInvFrame DEF Tick
<1>2. CASE \E t \in armed : TimerFires(t)
  BY <1>2, TimerFiresInv
<1>3. CASE \E w \in Workers, c \in callbacks : HandleCooldownTimer(w, c)
  BY <1>3, HandleCooldownTimerInv
<1>4. ASSUME NEW w \in Workers, Operation(w)
      PROVE  TimerInv'
  BY <1>4, RegisterInv, DisconnectInv, SetStateInv, SetCooldownInv DEF Operation
<1>5. ASSUME NEW w \in Workers, Publish(w)
      PROVE  TimerInv'
  BY <1>0, <1>5, TimerInvFrame DEF Publish, BeginPublish, SendTo, EndPublish
<1>6. ASSUME NEW s \in Subscribers, Subscribe(s) \/ Cancel(s) \/ Receive(s)
      PROVE  TimerInv'
  BY <1>0, <1>6, TimerInvFrame DEF Subscribe, Cancel, Receive
<1>7. CASE UNCHANGED vars
  BY <1>0, <1>7, TimerInvFrame DEF vars
<1> QED
  BY <1>1, <1>2, <1>3, <1>4, <1>5, <1>6, <1>7 DEF Next

\* No cooldown without a timer that will end it, no timer without its cooldown.
THEOREM CooldownTimers == Spec => []CooldownHasItsTimer
<1>1. Init => TimerInv
  BY RegistryAssumption
  DEF Init, TimerInv, CooldownHasItsTimer, TimersFollowEntries, CoolingWillEnd,
      CallbacksAreDue, Cooling, Online
<1>2. RegistryTypeOK /\ TimerInv /\ [Next]_vars => TimerInv'
  BY TimerInvInductive
<1>3. TimerInv => CooldownHasItsTimer
  BY DEF TimerInv
<1> QED
  BY <1>1, <1>2, <1>3, TypeCorrect, PTL DEF Spec

\* What one step may do to a callback: see CallbackEndsOnlyItsCooldown.
CallbackStep ==
  \A c \in callbacks \ callbacks' : \A p \in Providers :
    providers'[p] # providers[p] =>
      /\ p = c.id
      /\ Cooling(p)
      /\ providers[p].until = c.until
      /\ c.until <= clock

\* Only HandleCooldownTimer ends callbacks, one at a time.
LEMMA CallbackStepHolds ==
  ASSUME RegistryTypeOK, TimerInv, Next
  PROVE  CallbackStep
<1>1. CASE \E w \in Workers, c \in callbacks : HandleCooldownTimer(w, c)
  <2>1. PICK w \in Workers, c \in callbacks : HandleCooldownTimer(w, c)
    BY <1>1
  <2>2. callbacks \ callbacks' = {c} /\ c.id \in Providers
    BY <2>1 DEF HandleCooldownTimer, RegistryTypeOK, Callback
  <2>3. CASE TimerIsCurrent(c)
    <3>1. \A p \in Providers : p # c.id => providers'[p] = providers[p]
      BY <2>1, <2>2, <2>3 DEF HandleCooldownTimer, RegistryTypeOK
    <3>2. c.until <= clock
      BY RegistryAssumption
      DEF TimerInv, CallbacksAreDue, RegistryTypeOK, Callback, Time
    <3> QED
      BY <2>2, <2>3, <3>1, <3>2 DEF CallbackStep, TimerIsCurrent
  <2>4. CASE ~TimerIsCurrent(c)
    BY <2>1, <2>4 DEF HandleCooldownTimer, CallbackStep
  <2> QED
    BY <2>3, <2>4
<1>2. CASE Tick
  BY <1>2 DEF Tick, CallbackStep
<1>3. CASE \E t \in armed : TimerFires(t)
  BY <1>3 DEF TimerFires, CallbackStep
<1>4. ASSUME NEW w \in Workers, Operation(w)
      PROVE  CallbackStep
  BY <1>4 DEF Operation, Register, Disconnect, SetState, SetCooldown, CallbackStep
<1>5. ASSUME NEW w \in Workers, Publish(w)
      PROVE  CallbackStep
  BY <1>5 DEF Publish, BeginPublish, SendTo, EndPublish, CallbackStep
<1>6. ASSUME NEW s \in Subscribers, Subscribe(s) \/ Cancel(s) \/ Receive(s)
      PROVE  CallbackStep
  BY <1>6 DEF Subscribe, Cancel, Receive, CallbackStep
<1> QED
  BY <1>1, <1>2, <1>3, <1>4, <1>5, <1>6 DEF Next

\* A timer callback, however late, changes only the entry whose cooldown it was
\* armed for, and only once that cooldown is over.
THEOREM CallbackEndsOnlyItsOwn == Spec => CallbackEndsOnlyItsCooldown
<1>1. Init => TimerInv
  BY RegistryAssumption
  DEF Init, TimerInv, CooldownHasItsTimer, TimersFollowEntries, CoolingWillEnd,
      CallbacksAreDue, Cooling, Online
<1>2. RegistryTypeOK /\ TimerInv /\ [Next]_vars => TimerInv'
  BY TimerInvInductive
<1>3. RegistryTypeOK /\ TimerInv /\ [Next]_vars => [CallbackStep]_vars
  BY CallbackStepHolds
<1> QED
  BY <1>1, <1>2, <1>3, TypeCorrect, PTL DEF Spec, CallbackEndsOnlyItsCooldown, CallbackStep

=============================================================================
