--------------------------- MODULE AffinityProofs ---------------------------
(***************************************************************************)
(* Session affinity, for any number of providers, sessions, requests and   *)
(* publishers, any priorities, and any limits.                             *)
(***************************************************************************)
EXTENDS Affinity, FiniteSetTheorems, TLAPS

(***************************************************************************)
(* Type correctness.                                                       *)
(***************************************************************************)

\* What the type invariant says of the registry and its events, of the cache with
\* the history of homes, and of the selections.
EventsTypeOK ==
  /\ online \subseteq Providers
  /\ earlier \subseteq Providers \X Providers
  /\ cooling \subseteq online
  /\ publishing \in [Workers -> Event \cup {None}]
  /\ queue \in Seq(Event)
  /\ Len(queue) <= EventBuffer
  /\ changes \in 0..MaxChanges

CacheTypeOK ==
  /\ bound \in [Sessions -> Providers \cup {None}]
  /\ age \in [Sessions -> 0..TTL + 1]
  /\ home \in [Sessions -> Providers \cup {None}]
  /\ idle \in [Sessions -> 0..TTL]

SelectTypeOK ==
  /\ DOMAIN cursors \subseteq Models
  /\ DOMAIN ready = Requests
  /\ \A r \in Requests : DOMAIN ready[r] \subseteq Providers
  /\ phase \in [Requests -> {"lookup", "invalidate", "fallback", "bind", "done"}]
  /\ session \in [Requests -> Sessions \cup {NoSession}]
  /\ choice \in [Requests -> Providers \cup {None}]

\* A selection that looks at the cache has a session, and one that is about to
\* bind has chosen one of the best ready providers of its list.
SelectionInv ==
  \A r \in Requests :
    /\ phase[r] \in {"lookup", "invalidate", "bind"} => session[r] \in Sessions
    /\ phase[r] = "bind" => choice[r] \in Best(r)

\* The parts make up the type invariant.
LEMMA TypeParts == AffinityTypeOK <=> EventsTypeOK /\ CacheTypeOK /\ SelectTypeOK
BY DEF AffinityTypeOK, EventsTypeOK, CacheTypeOK, SelectTypeOK

\* The numbers are natural, and None is not a provider.
LEMMA Bounds ==
  /\ EventBuffer \in Nat /\ TTL \in Nat /\ MaxChanges \in Nat
  /\ MaxKeys \in Nat \ {0} /\ CursorTop \in Nat \ {0}
BY AffinityAssumption

\* A change of the registry keeps the types and leaves cache and selections alone.
LEMMA RegistryType ==
  ASSUME EventsTypeOK, NEW w \in Workers, NEW p \in Providers, Registry(w, p)
  PROVE  EventsTypeOK' /\ UNCHANGED <<queue, cacheVars, cursors, selectVars, history>>
<1>1. ASSUME NEW type \in EventTypes, Change(w, p, type)
      PROVE  /\ publishing' \in [Workers -> Event \cup {None}]
             /\ changes' \in 0..MaxChanges
             /\ UNCHANGED <<queue, cacheVars, cursors, selectVars, history>>
  <2>1. [id |-> p, type |-> type] \in Event
    BY <1>1 DEF Event
  <2> QED
    BY <1>1, <2>1, Bounds DEF Change, EventsTypeOK
<1>2. Without(p) \subseteq Providers \X Providers
  BY DEF Without, EventsTypeOK
<1>3. CASE Connect(w, p)
  <2>1. PICK type \in EventTypes : Change(w, p, type)
    BY <1>3 DEF Connect, EventTypes
  <2>2. online' \subseteq Providers /\ cooling' \subseteq online'
    BY <1>3 DEF Connect, EventsTypeOK
  <2>3. earlier' \subseteq Providers \X Providers
    BY <1>2, <1>3 DEF Connect, EventsTypeOK
  <2> QED
    BY <1>1, <2>1, <2>2, <2>3 DEF EventsTypeOK
<1>4. CASE Disconnect(w, p)
  <2>1. Change(w, p, "disconnected")
    BY <1>4 DEF Disconnect
  <2>2. online' \subseteq Providers /\ cooling' \subseteq online' /\ earlier' \subseteq Providers \X Providers
    BY <1>2, <1>4 DEF Disconnect, EventsTypeOK
  <2>3. "disconnected" \in EventTypes
    BY DEF EventTypes
  <2> QED
    BY <1>1, <2>1, <2>2, <2>3 DEF EventsTypeOK
<1>5. CASE SetCooldown(w, p) \/ CooldownEnds(w, p)
  <2>1. PICK type \in EventTypes : Change(w, p, type)
    BY <1>5 DEF SetCooldown, CooldownEnds, EventTypes
  <2>2. cooling' \subseteq online /\ UNCHANGED <<online, earlier>>
    BY <1>5 DEF SetCooldown, CooldownEnds, EventsTypeOK
  <2> QED
    BY <1>1, <2>1, <2>2 DEF EventsTypeOK
<1> QED
  BY <1>3, <1>4, <1>5 DEF Registry

\* Publishing keeps the types: a full channel takes no event.
LEMMA PublishType ==
  ASSUME EventsTypeOK, NEW w \in Workers, Publish(w)
  PROVE  EventsTypeOK' /\ UNCHANGED <<cacheVars, cursors, selectVars, history>>
<1>1. publishing[w] \in Event
  BY DEF Publish, EventsTypeOK
<1>2. publishing' \in [Workers -> Event \cup {None}]
  BY DEF Publish, EventsTypeOK
<1>3. queue' \in Seq(Event) /\ Len(queue') <= EventBuffer
  BY <1>1, Bounds DEF Publish, EventsTypeOK
<1> QED
  BY <1>2, <1>3 DEF Publish, EventsTypeOK, cacheVars, selectVars, history

\* Forgetting bindings keeps their types.
LEMMA ForgetType ==
  ASSUME CacheTypeOK, NEW S, Forget(S)
  PROVE  bound' \in [Sessions -> Providers \cup {None}] /\ age' \in [Sessions -> 0..TTL + 1]
BY Bounds DEF CacheTypeOK, Forget

\* Settling keeps the types of the history.
LEMMA SettleType ==
  ASSUME CacheTypeOK, NEW r \in Requests, NEW p \in Providers, Settle(r, p)
  PROVE  home' \in [Sessions -> Providers \cup {None}] /\ idle' \in [Sessions -> 0..TTL]
BY Bounds DEF CacheTypeOK, Settle

\* The end of a selection keeps the types of the selections.
LEMMA SelectType ==
  ASSUME SelectTypeOK, NEW r \in Requests, NEW p \in Providers, Select(r, p),
         DOMAIN cursors' \subseteq Models
  PROVE  SelectTypeOK' /\ UNCHANGED <<registryVars, queue>>
<1>1. DOMAIN NoList = {}
  BY DEF NoList
<1> QED
  BY <1>1 DEF SelectTypeOK, Select

\* The handling of an event keeps the types.
LEMMA HandleType ==
  ASSUME EventsTypeOK, CacheTypeOK, HandleProviderEvent
  PROVE  EventsTypeOK' /\ CacheTypeOK' /\ UNCHANGED <<cursors, selectVars>>
<1>1. queue' \in Seq(Event) /\ Len(queue') <= EventBuffer
  BY Bounds DEF HandleProviderEvent, EventsTypeOK
<1>2. PICK S : Forget(S)
  BY DEF HandleProviderEvent
<1>3. home' \in [Sessions -> Providers \cup {None}] /\ idle' = idle
  BY DEF HandleProviderEvent, CacheTypeOK
<1> QED
  BY <1>1, <1>2, <1>3, ForgetType DEF HandleProviderEvent, EventsTypeOK, CacheTypeOK, registryVars

\* Time and the cleanup keep the types.
LEMMA TimeType ==
  ASSUME CacheTypeOK, Cleanup \/ Tick
  PROVE  CacheTypeOK' /\ UNCHANGED <<registryVars, queue, cursors, selectVars>>
<1>1. CASE Cleanup
  BY <1>1, ForgetType DEF Cleanup, CacheTypeOK, history
<1>2. CASE Tick
  <2>1. age' \in [Sessions -> 0..TTL + 1] /\ idle' \in [Sessions -> 0..TTL]
    BY <1>2, Bounds DEF Tick, CacheTypeOK
  <2>2. home' \in [Sessions -> Providers \cup {None}]
    BY <1>2 DEF Tick, CacheTypeOK
  <2> QED
    BY <1>2, <2>1, <2>2 DEF Tick, CacheTypeOK
<1> QED
  BY <1>1, <1>2

\* The beginning of a selection keeps the types.
LEMMA BeginType ==
  ASSUME EventsTypeOK, CacheTypeOK, SelectTypeOK,
         NEW r \in Requests, NEW s \in Sessions \cup {NoSession}, NEW tried, NEW over,
         Begin(r, s, tried, over)
  PROVE  /\ CacheTypeOK'
         /\ SelectTypeOK'
         /\ UNCHANGED <<registryVars, queue, cacheVars, cursors, idle>>
<1>1. home' \in [Sessions -> Providers \cup {None}]
  BY DEF Begin, CacheTypeOK
<1>2. UNCHANGED <<registryVars, queue, cacheVars, cursors, idle>>
  BY DEF Begin
<1> DEFINE untried == (online \ tried) \ (cooling \ over)
           list == [p \in untried |-> Cardinality({q \in untried : <<q, p>> \in earlier})]
<1>3. ready' = [ready EXCEPT ![r] = list] /\ DOMAIN list \subseteq Providers
  BY DEF Begin, EventsTypeOK
<1> HIDE DEF list
<1>4. DOMAIN ready' = Requests /\ \A q \in Requests : DOMAIN ready'[q] \subseteq Providers
  BY <1>3 DEF SelectTypeOK
<1>5. /\ phase' \in [Requests -> {"lookup", "invalidate", "fallback", "bind", "done"}]
      /\ session' \in [Requests -> Sessions \cup {NoSession}]
      /\ choice' \in [Requests -> Providers \cup {None}]
  BY DEF Begin, SelectTypeOK
<1> QED
  BY <1>1, <1>2, <1>4, <1>5 DEF CacheTypeOK, SelectTypeOK, cacheVars

\* The best ready providers are providers.
LEMMA BestAreProviders ==
  ASSUME SelectTypeOK, NEW r \in Requests
  PROVE  Best(r) \subseteq Providers
BY DEF SelectTypeOK, Best

\* A selection that goes on keeps its types.
LEMMA GotoType ==
  ASSUME SelectTypeOK, NEW r \in Requests,
         NEW next \in {"invalidate", "fallback", "bind"}, Goto(r, next),
         choice' \in [Requests -> Providers \cup {None}],
         DOMAIN cursors' \subseteq Models
  PROVE  SelectTypeOK' /\ UNCHANGED <<registryVars, queue, history>>
BY DEF SelectTypeOK, Goto

\* The cursors stay cursors of models.
LEMMA CursorsType ==
  ASSUME SelectTypeOK, NEW r \in Requests, Fallback(r)
  PROVE  DOMAIN cursors' \subseteq Models
<1>1. ModelOf[session[r]] \in Models
  BY AffinityAssumption DEF SelectTypeOK
<1> QED
  BY <1>1 DEF Fallback, Advanced, SelectTypeOK

\* A step of a selection keeps the types.
LEMMA SelectionType ==
  ASSUME CacheTypeOK, SelectTypeOK, SelectionInv, NEW r \in Requests, Selection(r)
  PROVE  CacheTypeOK' /\ SelectTypeOK' /\ UNCHANGED <<registryVars, queue>>
<1>1. CASE GetAndRefresh(r)
  <2>1. DOMAIN cursors' \subseteq Models
    BY <1>1 DEF GetAndRefresh, SelectTypeOK
  <2>2. CASE /\ age' = [age EXCEPT ![session[r]] = 0]
             /\ \/ bound[session[r]] \in Best(r) /\ Select(r, bound[session[r]])
                \/ Goto(r, "invalidate") /\ UNCHANGED choice
             /\ UNCHANGED bound
    <3>a. 0 \in 0..TTL + 1
      BY Bounds
    <3>b. age' \in [Sessions -> 0..TTL + 1]
      BY <2>2, <3>a DEF CacheTypeOK
    <3>1. bound' \in [Sessions -> Providers \cup {None}] /\ age' \in [Sessions -> 0..TTL + 1]
      BY <2>2, <3>b DEF CacheTypeOK
    <3>2. CASE bound[session[r]] \in Best(r) /\ Select(r, bound[session[r]])
      <4>1. bound[session[r]] \in Providers
        BY <3>2, BestAreProviders
      <4>2. Settle(r, bound[session[r]])
        BY <3>2 DEF Select
      <4> QED
        BY <2>1, <3>1, <3>2, <4>1, <4>2, SelectType, SettleType DEF CacheTypeOK
    <3>3. CASE Goto(r, "invalidate") /\ UNCHANGED choice
      BY <2>1, <3>1, <3>3, GotoType DEF CacheTypeOK, SelectTypeOK, history
    <3> QED
      BY <2>2, <3>2, <3>3
  <2>3. CASE /\ Forget({session[r]} \cap {t \in Sessions : Expired(t)})
             /\ Goto(r, "fallback")
             /\ UNCHANGED choice
    BY <2>1, <2>3, ForgetType, GotoType DEF CacheTypeOK, SelectTypeOK, history
  <2> QED
    BY <1>1, <2>2, <2>3 DEF GetAndRefresh
<1>2. CASE Invalidate(r)
  BY <1>2, ForgetType, GotoType DEF Invalidate, CacheTypeOK, SelectTypeOK, history
<1>3. CASE Fallback(r)
  <2>1. DOMAIN cursors' \subseteq Models
    BY <1>3, CursorsType
  <2>2. PICK p \in Best(r) :
          \/ Select(r, p)
          \/ Goto(r, "bind") /\ choice' = [choice EXCEPT ![r] = p]
    BY <1>3 DEF Fallback
  <2>3. p \in Providers /\ UNCHANGED cacheVars
    BY <1>3, BestAreProviders DEF Fallback
  <2>4. CASE Select(r, p)
    <3>1. Settle(r, p)
      BY <2>4 DEF Select
    <3> QED
      BY <2>1, <2>3, <2>4, <3>1, SelectType, SettleType DEF CacheTypeOK, cacheVars
  <2>5. CASE Goto(r, "bind") /\ choice' = [choice EXCEPT ![r] = p]
    <3>1. choice' \in [Requests -> Providers \cup {None}]
      BY <2>3, <2>5 DEF SelectTypeOK
    <3> QED
      BY <2>1, <2>3, <2>5, <3>1, GotoType DEF CacheTypeOK, cacheVars, history
  <2> QED
    BY <2>2, <2>4, <2>5
<1>4. CASE Bind(r)
  <2>1. choice[r] \in Providers /\ session[r] \in Sessions
    BY <1>4, BestAreProviders DEF Bind, SelectionInv
  <2>2. Select(r, choice[r]) /\ Settle(r, choice[r]) /\ DOMAIN cursors' \subseteq Models
    BY <1>4 DEF Bind, Select, SelectTypeOK
  <2>3. bound' \in [Sessions -> Providers \cup {None}] /\ age' \in [Sessions -> 0..TTL + 1]
    BY <1>4, <2>1, Bounds DEF Bind, CacheTypeOK
  <2> QED
    BY <2>1, <2>2, <2>3, SelectType, SettleType DEF CacheTypeOK
<1> QED
  BY <1>1, <1>2, <1>3, <1>4 DEF Selection

\* The invariant of selections is kept by every step.
LEMMA SelectionInvStep ==
  ASSUME SelectTypeOK, SelectionInv, [Next]_vars
  PROVE  SelectionInv'
<1>1. CASE UNCHANGED selectVars
  BY <1>1 DEF SelectionInv, selectVars, Best
<1>2. ASSUME NEW r \in Requests, NEW s \in Sessions \cup {NoSession},
             NEW tried, NEW over, Begin(r, s, tried, over)
      PROVE  SelectionInv'
  <2>1. \A q \in Requests \ {r} :
          UNCHANGED <<phase[q], session[q], choice[q], ready[q]>>
    BY <1>2 DEF Begin, SelectTypeOK
  <2>2. \A q \in Requests \ {r} : UNCHANGED Best(q)
    BY <2>1 DEF Best
  <2>3. /\ phase'[r] = (IF s = NoSession THEN "fallback" ELSE "lookup")
        /\ session'[r] = s
    BY <1>2 DEF Begin, SelectTypeOK
  <2> QED
    BY <2>1, <2>2, <2>3 DEF SelectionInv
<1>3. ASSUME NEW r \in Requests, Selection(r)
      PROVE  SelectionInv'
  <2>1. CASE \E p : Select(r, p)
    <3>1. PICK p : Select(r, p)
      BY <2>1
    <3>2. \A q \in Requests \ {r} :
            UNCHANGED <<phase[q], session[q], choice[q], ready[q]>>
      BY <3>1 DEF Select, SelectTypeOK
    <3>3. \A q \in Requests \ {r} : UNCHANGED Best(q)
      BY <3>2 DEF Best
    <3>4. phase'[r] = "done"
      BY <3>1 DEF Select, SelectTypeOK
    <3> QED
      BY <3>2, <3>3, <3>4 DEF SelectionInv
  <2>2. ASSUME NEW next \in {"invalidate", "fallback", "bind"}, Goto(r, next),
               session[r] \in Sessions \/ next = "fallback",
               \A q \in Requests \ {r} : UNCHANGED choice[q],
               next = "bind" => choice'[r] \in Best(r)
        PROVE  SelectionInv'
    <3>1. UNCHANGED <<session, ready>>
      BY <2>2 DEF Goto
    <3>2. \A q \in Requests : UNCHANGED Best(q)
      BY <3>1 DEF Best
    <3>3. \A q \in Requests : phase'[q] = IF q = r THEN next ELSE phase[q]
      BY <2>2 DEF Goto, SelectTypeOK
    <3> QED
      BY <2>2, <3>1, <3>2, <3>3 DEF SelectionInv
  <2>3. CASE GetAndRefresh(r)
    <3>1. session[r] \in Sessions
      BY <2>3 DEF GetAndRefresh, SelectionInv
    <3>2. CASE \E p : Select(r, p)
      BY <2>1, <3>2
    <3>3. CASE Goto(r, "invalidate") /\ UNCHANGED choice
      BY <2>2, <3>1, <3>3
    <3>4. CASE Goto(r, "fallback") /\ UNCHANGED choice
      BY <2>2, <3>1, <3>4
    <3> QED
      BY <2>3, <3>2, <3>3, <3>4 DEF GetAndRefresh
  <2>4. CASE Invalidate(r)
    BY <2>2, <2>4 DEF Invalidate
  <2>5. CASE Fallback(r)
    <3>1. PICK p \in Best(r) :
            \/ Select(r, p)
            \/ session[r] # NoSession /\ Goto(r, "bind") /\ choice' = [choice EXCEPT ![r] = p]
      BY <2>5 DEF Fallback
    <3>2. CASE Select(r, p)
      BY <2>1, <3>2
    <3>3. CASE session[r] # NoSession /\ Goto(r, "bind") /\ choice' = [choice EXCEPT ![r] = p]
      <4>1. session[r] \in Sessions
        BY <3>3 DEF SelectTypeOK
      <4>2. choice'[r] = p /\ \A q \in Requests \ {r} : UNCHANGED choice[q]
        BY <3>3 DEF SelectTypeOK
      <4> QED
        BY <2>2, <3>1, <3>3, <4>1, <4>2
    <3> QED
      BY <3>1, <3>2, <3>3
  <2>6. CASE Bind(r)
    BY <2>1, <2>6 DEF Bind
  <2> QED
    BY <1>3, <2>3, <2>4, <2>5, <2>6 DEF Selection
<1>4. CASE UNCHANGED vars
  BY <1>1, <1>4 DEF vars
<1>5. ASSUME NEW w \in Workers, NEW p \in Providers, Registry(w, p)
      PROVE  UNCHANGED selectVars
  BY <1>5 DEF Registry, Connect, Disconnect, SetCooldown, CooldownEnds, Change
<1>6. ASSUME NEW w \in Workers, Publish(w)
      PROVE  UNCHANGED selectVars
  BY <1>6 DEF Publish
<1>7. HandleProviderEvent \/ Cleanup \/ Tick => UNCHANGED selectVars
  BY DEF HandleProviderEvent, Cleanup, Tick
<1> QED
  BY <1>1, <1>2, <1>3, <1>4, <1>5, <1>6, <1>7 DEF Next

\* The initial states have the types.
LEMMA InitType == Init => AffinityTypeOK /\ SelectionInv
<1> SUFFICES ASSUME Init PROVE AffinityTypeOK /\ SelectionInv
  OBVIOUS
<1>1. EventsTypeOK
  <2>1. earlier \subseteq Providers \X Providers
    BY AffinityAssumption DEF Init, Orders
  <2>2. <<>> \in Seq(Event)
    OBVIOUS
  <2> QED
    BY <2>1, <2>2, Bounds, AffinityAssumption DEF Init, EventsTypeOK
<1>2. CacheTypeOK
  BY Bounds DEF Init, CacheTypeOK
<1>3. SelectTypeOK
  BY DEF Init, SelectTypeOK, NoList
<1>4. SelectionInv
  BY DEF Init, SelectionInv
<1> QED
  BY <1>1, <1>2, <1>3, <1>4, TypeParts

\* Every step keeps them.
LEMMA NextType == AffinityTypeOK /\ SelectionInv /\ [Next]_vars => AffinityTypeOK'
<1> SUFFICES ASSUME EventsTypeOK, CacheTypeOK, SelectTypeOK, SelectionInv, [Next]_vars
             PROVE  EventsTypeOK' /\ CacheTypeOK' /\ SelectTypeOK'
  BY TypeParts DEF AffinityTypeOK, EventsTypeOK, CacheTypeOK, SelectTypeOK
<1>1. UNCHANGED <<cursors, selectVars>> => SelectTypeOK'
  BY DEF SelectTypeOK, selectVars
<1>2. UNCHANGED <<cacheVars, history>> => CacheTypeOK'
  BY DEF CacheTypeOK, cacheVars, history
<1>3. UNCHANGED <<registryVars, queue>> => EventsTypeOK'
  BY DEF EventsTypeOK, registryVars
<1>4. CASE UNCHANGED vars
  BY <1>1, <1>2, <1>3, <1>4 DEF vars
<1>5. ASSUME NEW w \in Workers, NEW p \in Providers, Registry(w, p)
      PROVE  EventsTypeOK' /\ CacheTypeOK' /\ SelectTypeOK'
  BY <1>1, <1>2, <1>5, RegistryType
<1>6. ASSUME NEW w \in Workers, Publish(w)
      PROVE  EventsTypeOK' /\ CacheTypeOK' /\ SelectTypeOK'
  BY <1>1, <1>2, <1>6, PublishType
<1>7. CASE HandleProviderEvent
  BY <1>1, <1>7, HandleType
<1>8. CASE Cleanup \/ Tick
  BY <1>1, <1>3, <1>8, TimeType
<1>9. ASSUME NEW r \in Requests, NEW s \in Sessions \cup {NoSession},
             NEW tried, NEW over, Begin(r, s, tried, over)
      PROVE  EventsTypeOK' /\ CacheTypeOK' /\ SelectTypeOK'
  BY <1>3, <1>9, BeginType
<1>10. ASSUME NEW r \in Requests, Selection(r)
       PROVE  EventsTypeOK' /\ CacheTypeOK' /\ SelectTypeOK'
  BY <1>3, <1>10, SelectionType
<1> QED
  BY <1>4, <1>5, <1>6, <1>7, <1>8, <1>9, <1>10 DEF Next

\* The types, and what a selection knows where it is, are invariant.
LEMMA TypesAndSelections == Spec => [](AffinityTypeOK /\ SelectionInv)
<1>1. AffinityTypeOK /\ SelectionInv /\ [Next]_vars => SelectionInv'
  BY SelectionInvStep, TypeParts
<1> QED
  BY <1>1, InitType, NextType, PTL DEF Spec

\* Every variable keeps its type, the channel its capacity and an age its bound.
THEOREM TypeCorrect == Spec => []AffinityTypeOK
BY TypesAndSelections, PTL

(***************************************************************************)
(* The round robin.                                                        *)
(***************************************************************************)

\* A turn keeps the cursors within their bounds: a model that is not known adds one
\* to a map that is not full, or starts the map again.
LEMMA FallbackBounds ==
  ASSUME SelectTypeOK, CursorsBounded, NEW r \in Requests, Fallback(r)
  PROVE  CursorsBounded'
<1> DEFINE m == ModelOf[session[r]]
           index == Cursor(m)
<1>1. IsFiniteSet(DOMAIN cursors)
  BY AffinityAssumption, FS_Subset DEF SelectTypeOK
<1>2. index \in Nat /\ index < CursorTop
  BY Bounds DEF Cursor, CursorsBounded
<1>3. index + 1 \in 1..CursorTop
  BY <1>2, Bounds
<1>4. cursors' = Advanced(m, index)
  BY DEF Fallback
<1> HIDE DEF m, index
<1>5. CASE m \notin DOMAIN cursors /\ Cardinality(DOMAIN cursors) >= MaxKeys
  <2>1. DOMAIN cursors' = {m} /\ cursors'[m] = index + 1
    BY <1>4, <1>5 DEF Advanced
  <2>2. Cardinality({m}) = 1
    BY FS_Singleton
  <2> QED
    BY <1>3, <2>1, <2>2, Bounds DEF CursorsBounded
<1>6. CASE ~(m \notin DOMAIN cursors /\ Cardinality(DOMAIN cursors) >= MaxKeys)
  <2>1. /\ DOMAIN cursors' = DOMAIN cursors \cup {m}
        /\ \A n \in DOMAIN cursors' : cursors'[n] = IF n = m THEN index + 1 ELSE cursors[n]
    BY <1>4, <1>6 DEF Advanced
  <2>2. Cardinality(DOMAIN cursors \cup {m}) <= MaxKeys
    <3>1. CASE m \in DOMAIN cursors
      <4>1. DOMAIN cursors \cup {m} = DOMAIN cursors
        BY <3>1
      <4> QED
        BY <4>1 DEF CursorsBounded
    <3>2. CASE m \notin DOMAIN cursors
      <4>1. Cardinality(DOMAIN cursors) \in Nat
        BY <1>1, FS_CardinalityType
      <4>2. Cardinality(DOMAIN cursors \cup {m}) = Cardinality(DOMAIN cursors) + 1
        BY <1>1, <3>2, FS_AddElement
      <4> QED
        BY <1>6, <3>2, <4>1, <4>2, Bounds
    <3> QED
      BY <3>1, <3>2
  <2> QED
    BY <1>3, <2>1, <2>2 DEF CursorsBounded
<1> QED
  BY <1>5, <1>6

\* No other step touches the cursors.
LEMMA OtherCursors ==
  ASSUME [Next]_vars, \A r \in Requests : ~Fallback(r)
  PROVE  UNCHANGED cursors
BY DEF Next, vars, Registry, Connect, Disconnect, SetCooldown, CooldownEnds, Change, Publish,
       HandleProviderEvent, Cleanup, Tick, Begin, Selection, GetAndRefresh, Invalidate, Bind

\* The map of cursors never outgrows its limit, nor a cursor its range.
THEOREM CursorsStayBounded == Spec => []CursorsBounded
<1>1. Init => CursorsBounded
  <2> SUFFICES ASSUME Init PROVE CursorsBounded
    OBVIOUS
  <2>1. DOMAIN cursors = {}
    BY DEF Init
  <2> QED
    BY <2>1, FS_EmptySet, Bounds DEF CursorsBounded
<1>2. AffinityTypeOK /\ CursorsBounded /\ [Next]_vars => CursorsBounded'
  <2> SUFFICES ASSUME AffinityTypeOK, CursorsBounded, [Next]_vars
               PROVE  CursorsBounded'
    OBVIOUS
  <2>1. CASE \E r \in Requests : Fallback(r)
    BY <2>1, FallbackBounds, TypeParts
  <2>2. CASE \A r \in Requests : ~Fallback(r)
    BY <2>2, OtherCursors DEF CursorsBounded
  <2> QED
    BY <2>1, <2>2
<1> QED
  BY <1>1, <1>2, TypeCorrect, PTL DEF Spec

(***************************************************************************)
(* What a selection ends with.                                             *)
(***************************************************************************)

\* A step of another request, or of no request, does not end the selection of r.
LEMMA EndsByItself ==
  ASSUME SelectTypeOK, NEW r \in Requests, [Next]_vars,
         phase[r] # "done", phase'[r] = "done"
  PROVE  Selection(r)
<1>1. ASSUME NEW q \in Requests, q # r, Selection(q)
      PROVE  phase'[r] = phase[r]
  BY <1>1 DEF Selection, GetAndRefresh, Invalidate, Fallback, Bind, Select, Goto, SelectTypeOK
<1>2. ASSUME NEW q \in Requests, NEW s \in Sessions \cup {NoSession},
             NEW tried, NEW over, Begin(q, s, tried, over)
      PROVE  phase'[r] # "done" \/ phase'[r] = phase[r]
  <2>1. \E next \in {"fallback", "lookup"} : phase' = [phase EXCEPT ![q] = next]
    BY <1>2 DEF Begin
  <2> QED
    BY <2>1 DEF SelectTypeOK
<1>3. ASSUME NEW w \in Workers, NEW p \in Providers, Registry(w, p)
      PROVE  phase' = phase
  BY <1>3 DEF Registry, Connect, Disconnect, SetCooldown, CooldownEnds, Change, selectVars
<1>4. ASSUME NEW w \in Workers, Publish(w)
      PROVE  phase' = phase
  BY <1>4 DEF Publish, selectVars
<1>5. HandleProviderEvent \/ Cleanup \/ Tick \/ UNCHANGED vars => phase' = phase
  BY DEF HandleProviderEvent, Cleanup, Tick, vars, selectVars
<1> QED
  BY <1>1, <1>2, <1>3, <1>4, <1>5 DEF Next

\* A selection ends in one of three ways: with its binding, which is among the best
\* ready ones, with its turn of the round robin, or with what it binds.
LEMMA EndOfSelection ==
  ASSUME SelectTypeOK, SelectionInv, NEW r \in Requests, Selection(r),
         phase[r] # "done", phase'[r] = "done"
  PROVE  /\ choice'[r] \in Best(r)
         /\ \/ phase[r] = "lookup" /\ choice'[r] = bound[session[r]]
            \/ phase[r] = "fallback" /\ session[r] = NoSession
            \/ phase[r] = "bind"
<1>1. ASSUME NEW next \in {"invalidate", "fallback", "bind"}
      PROVE  ~Goto(r, next)
  BY <1>1 DEF Goto, SelectTypeOK
<1>2. ASSUME NEW p, Select(r, p)
      PROVE  choice'[r] = p
  BY <1>2 DEF Select, SelectTypeOK
<1>3. CASE GetAndRefresh(r)
  BY <1>1, <1>2, <1>3 DEF GetAndRefresh
<1>4. CASE Invalidate(r)
  BY <1>1, <1>4 DEF Invalidate
<1>5. CASE Fallback(r)
  BY <1>1, <1>2, <1>5 DEF Fallback
<1>6. CASE Bind(r)
  BY <1>2, <1>6 DEF Bind, SelectionInv
<1> QED
  BY <1>3, <1>4, <1>5, <1>6 DEF Selection

\* No selection ends with a provider that is not among the best ready ones of its
\* list, whatever binding it has met.
THEOREM ChoiceIsReady == Spec => ChosenIsReady
<1>1. ASSUME AffinityTypeOK, SelectionInv, [Next]_vars
      PROVE  [\A r \in Requests :
               phase[r] # "done" /\ phase'[r] = "done" => choice'[r] \in Best(r)]_vars
  BY <1>1, TypeParts, EndsByItself, EndOfSelection
<1> QED
  BY <1>1, TypesAndSelections, PTL DEF Spec, ChosenIsReady

(***************************************************************************)
(* A session stays where it is at home.                                    *)
(***************************************************************************)

\* The home of a session is bound, has not expired, and is among the best of every
\* list from which a selection for the session is being made; these have yet to
\* look at the cache.
HomeInv ==
  \A s \in Sessions : home[s] # None =>
    /\ bound[s] = home[s]
    /\ age[s] <= idle[s]
    /\ \A r \in Selecting(s) : phase[r] = "lookup" /\ home[s] \in Best(r)

\* A home has not expired.
LEMMA HomeIsFresh ==
  ASSUME CacheTypeOK, HomeInv, NEW s \in Sessions, home[s] # None
  PROVE  ~Expired(s)
BY Bounds DEF CacheTypeOK, HomeInv, Expired

\* Events, the cleanup and time: a home that is kept keeps its binding.
LEMMA EnvironmentHome ==
  ASSUME CacheTypeOK, HomeInv, HandleProviderEvent \/ Cleanup \/ Tick
  PROVE  HomeInv'
<1>1. \A s \in Sessions : UNCHANGED Selecting(s)
  BY DEF HandleProviderEvent, Cleanup, Tick, selectVars, Selecting
<1>2. \A r \in Requests : UNCHANGED <<Best(r), phase[r]>>
  BY DEF HandleProviderEvent, Cleanup, Tick, selectVars, Best
<1> SUFFICES ASSUME NEW s \in Sessions, home'[s] # None
             PROVE  /\ home'[s] = home[s]
                    /\ bound'[s] = bound[s]
                    /\ age'[s] <= idle'[s]
  <2>1. \A s \in Sessions : Selecting(s)' = Selecting(s) /\ Selecting(s) \subseteq Requests
    BY <1>1 DEF Selecting
  <2> QED
    BY <1>2, <2>1 DEF HomeInv
<1>3. CASE HandleProviderEvent
  <2> DEFINE event == Head(queue)
             hit == IF NeedInvalidate(event) THEN BoundTo(event.id) ELSE {}
  <2>1. home'[s] = home[s] /\ ~(NeedInvalidate(event) /\ home[s] = event.id)
    BY <1>3 DEF HandleProviderEvent
  <2>2. bound[s] = home[s] /\ age[s] <= idle[s]
    BY <2>1 DEF HomeInv
  <2>3. s \notin hit
    BY <2>1, <2>2 DEF BoundTo
  <2>4. Forget(hit) /\ idle' = idle
    BY <1>3 DEF HandleProviderEvent
  <2> HIDE DEF hit
  <2> QED
    BY <2>1, <2>2, <2>3, <2>4 DEF Forget
<1>4. CASE Cleanup
  <2>1. home' = home /\ idle' = idle
    BY <1>4 DEF Cleanup, history
  <2>2. ~Expired(s) /\ age[s] <= idle[s]
    BY <2>1, HomeIsFresh DEF HomeInv
  <2> QED
    BY <1>4, <2>1, <2>2 DEF Cleanup, Forget
<1>5. CASE Tick
  <2>1. home'[s] = home[s] /\ idle[s] < TTL
    BY <1>5, Bounds DEF Tick, CacheTypeOK
  <2>2. idle'[s] = idle[s] + 1 /\ bound' = bound
    BY <1>5, <2>1 DEF Tick
  <2>3. age[s] <= idle[s] /\ age[s] \in Nat /\ idle[s] \in Nat
    BY <2>1, Bounds DEF HomeInv, CacheTypeOK
  <2>4. age'[s] <= age[s] + 1 /\ age'[s] \in Nat
    BY <1>5, <2>3 DEF Tick
  <2> QED
    BY <2>1, <2>2, <2>3, <2>4
<1> QED
  BY <1>3, <1>4, <1>5

\* The beginning of a selection: its list has the home among its best, or the
\* session has a home no longer.
LEMMA BeginHome ==
  ASSUME SelectTypeOK, HomeInv, NEW r \in Requests, NEW s \in Sessions \cup {NoSession},
         NEW tried, NEW over, Begin(r, s, tried, over)
  PROVE  HomeInv'
<1>1. /\ UNCHANGED <<bound, age, idle>>
      /\ phase[r] = "done"
      /\ phase'[r] = (IF s = NoSession THEN "fallback" ELSE "lookup")
      /\ session'[r] = s
  BY DEF Begin, SelectTypeOK, cacheVars
<1>2. \A q \in Requests \ {r} : UNCHANGED <<phase[q], session[q], ready[q]>>
  BY DEF Begin, SelectTypeOK
<1>3. \A q \in Requests \ {r} : UNCHANGED Best(q)
  BY <1>2 DEF Best
<1> SUFFICES ASSUME NEW t \in Sessions, home'[t] # None, NEW q \in Selecting(t)'
             PROVE  /\ home'[t] = home[t]
                    /\ phase'[q] = "lookup" /\ home'[t] \in Best(q)'
  <2>1. \A t \in Sessions : home'[t] # None => home'[t] = home[t]
    BY DEF Begin
  <2> QED
    BY <1>1, <2>1 DEF HomeInv
<1>4. home'[t] = home[t] /\ (t = s => home'[t] \in Best(r)')
  BY DEF Begin
<1>5. q \in Requests /\ session'[q] = t /\ phase'[q] # "done"
  BY DEF Selecting
<1>6. CASE q = r
  <2>1. t = s /\ s # NoSession
    BY <1>1, <1>5, <1>6, AffinityAssumption
  <2> QED
    BY <1>1, <1>4, <1>6, <2>1
<1>7. CASE q # r
  <2>1. q \in Selecting(t) /\ UNCHANGED <<phase[q], Best(q)>>
    BY <1>2, <1>3, <1>5, <1>7 DEF Selecting
  <2> QED
    BY <1>4, <2>1 DEF HomeInv
<1> QED
  BY <1>6, <1>7

\* The end of a selection with p, which is bound afterwards, for a session whose
\* home is p or nowhere.
LEMMA SelectHome ==
  ASSUME CacheTypeOK, SelectTypeOK, HomeInv, NEW r \in Requests, NEW p \in Providers,
         phase[r] # "done", session[r] \in Sessions, home[session[r]] \in {None, p},
         Select(r, p),
         bound' = [bound EXCEPT ![session[r]] = p],
         age' = [age EXCEPT ![session[r]] = 0]
  PROVE  HomeInv'
<1>1. /\ \A q \in Requests \ {r} : UNCHANGED <<phase[q], session[q], ready[q]>>
      /\ phase'[r] = "done"
  BY DEF Select, SelectTypeOK
<1>2. \A q \in Requests \ {r} : UNCHANGED Best(q)
  BY <1>1 DEF Best
<1>3. \A t \in Sessions : Selecting(t)' = Selecting(t) \ {r}
  BY <1>1 DEF Selecting
<1> SUFFICES ASSUME NEW t \in Sessions, home'[t] # None
             PROVE  /\ bound'[t] = home'[t]
                    /\ age'[t] <= idle'[t]
                    /\ Selecting(t)' # {} => home'[t] = home[t]
  <2>1. ASSUME NEW t \in Sessions, home'[t] # None, NEW q \in Selecting(t)'
        PROVE  phase'[q] = "lookup" /\ home'[t] \in Best(q)'
    <3>1. q \in Selecting(t) /\ q \in Requests \ {r}
      BY <1>3, <2>1 DEF Selecting
    <3>2. home'[t] = home[t]
      BY <2>1
    <3> QED
      BY <1>1, <1>2, <2>1, <3>1, <3>2 DEF HomeInv
  <2> QED
    BY <2>1 DEF HomeInv
<1>4. Settle(r, p)
  BY DEF Select
<1>5. CASE t = session[r]
  <2>1. bound'[t] = p /\ age'[t] = 0
    BY <1>5 DEF CacheTypeOK
  <2>2. Selecting(t) = {r} \/ home[t] = p
    BY <1>4, <1>5 DEF Settle
  <2>3. home'[t] = p /\ idle'[t] = 0
    BY <1>4, <1>5, <2>2 DEF Settle
  <2>4. Selecting(t)' # {} => home[t] = p
    BY <1>3, <2>2
  <2> QED
    BY <2>1, <2>3, <2>4
<1>6. CASE t # session[r]
  <2>1. bound'[t] = bound[t] /\ age'[t] = age[t]
    BY <1>6 DEF CacheTypeOK
  <2>2. home'[t] = home[t] /\ idle'[t] = idle[t]
    BY <1>4, <1>6 DEF Settle
  <2> QED
    BY <2>1, <2>2 DEF HomeInv
<1> QED
  BY <1>5, <1>6

\* A selection goes on only when its session has no home; it leaves the bindings of
\* the others alone.
LEMMA GotoHome ==
  ASSUME SelectTypeOK, HomeInv, NEW r \in Requests, NEW next, next # "done", Goto(r, next),
         phase[r] # "done",
         session[r] \in Sessions => home[session[r]] = None,
         \A t \in Sessions \ {session[r]} : bound'[t] = bound[t] /\ age'[t] = age[t]
  PROVE  HomeInv'
<1>1. UNCHANGED <<session, ready, home, idle>>
  BY DEF Goto, history
<1>2. \A q \in Requests \ {r} : phase'[q] = phase[q]
  BY DEF Goto, SelectTypeOK
<1>3. \A q \in Requests : UNCHANGED Best(q)
  BY <1>1 DEF Best
<1> SUFFICES ASSUME NEW t \in Sessions, home[t] # None
             PROVE  /\ bound'[t] = home[t]
                    /\ age'[t] <= idle[t]
                    /\ \A q \in Selecting(t)' : phase'[q] = "lookup" /\ home[t] \in Best(q)'
  BY <1>1 DEF HomeInv
<1>4. t # session[r]
  OBVIOUS
<1>5. bound'[t] = bound[t] /\ age'[t] = age[t]
  BY <1>4
<1>6. ASSUME NEW q \in Selecting(t)'
      PROVE  q \in Selecting(t) /\ q \in Requests \ {r}
  BY <1>1, <1>2, <1>4 DEF Selecting
<1> QED
  BY <1>2, <1>3, <1>5, <1>6 DEF HomeInv

\* The steps of a selection.
LEMMA SelectionHome ==
  ASSUME CacheTypeOK, SelectTypeOK, SelectionInv, HomeInv, NEW r \in Requests, Selection(r)
  PROVE  HomeInv'
<1> DEFINE s == session[r]
<1>1. CASE GetAndRefresh(r)
  <2>1. s \in Sessions /\ phase[r] = "lookup" /\ r \in Selecting(s)
    BY <1>1 DEF GetAndRefresh, SelectionInv, Selecting
  <2>2. home[s] # None => bound[s] = home[s] /\ home[s] \in Best(r) /\ ~Expired(s)
    BY <2>1, HomeIsFresh DEF HomeInv
  <2>3. CASE /\ bound[s] \in Best(r) /\ Select(r, bound[s])
             /\ age' = [age EXCEPT ![s] = 0] /\ UNCHANGED bound
    <3>1. bound[s] \in Providers
      BY <2>3, BestAreProviders
    <3>2. bound' = [bound EXCEPT ![s] = bound[s]]
      BY <2>1, <2>3 DEF CacheTypeOK
    <3>3. phase[r] # "done" /\ home[s] \in {None, bound[s]}
      BY <2>1, <2>2
    <3> QED
      BY <2>1, <2>3, <3>1, <3>2, <3>3, SelectHome
  <2>4. CASE /\ bound[s] # None /\ bound[s] \notin Best(r) /\ Goto(r, "invalidate")
             /\ age' = [age EXCEPT ![s] = 0] /\ UNCHANGED bound
    <3>1. home[s] = None
      BY <2>2, <2>4
    <3>2. \A t \in Sessions \ {s} : bound'[t] = bound[t] /\ age'[t] = age[t]
      BY <2>4 DEF CacheTypeOK
    <3> QED
      BY <2>1, <2>4, <3>1, <3>2, GotoHome
  <2>5. CASE /\ bound[s] = None \/ Expired(s)
             /\ Forget({s} \cap {t \in Sessions : Expired(t)}) /\ Goto(r, "fallback")
    <3>1. home[s] = None
      BY <2>2, <2>5
    <3>2. \A t \in Sessions \ {s} : bound'[t] = bound[t] /\ age'[t] = age[t]
      BY <2>5 DEF Forget
    <3> QED
      BY <2>1, <2>5, <3>1, <3>2, GotoHome
  <2> QED
    BY <1>1, <2>3, <2>4, <2>5 DEF GetAndRefresh
<1>2. CASE Invalidate(r)
  <2>1. s \in Sessions /\ phase[r] = "invalidate" /\ r \in Selecting(s)
    BY <1>2 DEF Invalidate, SelectionInv, Selecting
  <2>2. home[s] = None
    BY <2>1 DEF HomeInv
  <2>3. \A t \in Sessions \ {s} : bound'[t] = bound[t] /\ age'[t] = age[t]
    BY <1>2 DEF Invalidate, Forget
  <2> QED
    BY <1>2, <2>1, <2>2, <2>3, GotoHome DEF Invalidate
<1>3. CASE Fallback(r)
  <2>1. phase[r] = "fallback" /\ UNCHANGED <<bound, age>>
    BY <1>3 DEF Fallback, cacheVars
  <2>2. s \in Sessions => home[s] = None
    <3>1. s \in Sessions => r \in Selecting(s)
      BY <2>1 DEF Selecting
    <3> QED
      BY <2>1, <3>1 DEF HomeInv
  <2>3. PICK p \in Best(r) : \/ s = NoSession /\ Select(r, p)
                             \/ Goto(r, "bind")
    BY <1>3 DEF Fallback
  <2>4. CASE s = NoSession /\ Select(r, p)
    <3>1. \A t \in Sessions : UNCHANGED <<home[t], idle[t]>>
      BY <2>4, AffinityAssumption DEF Select, Settle
    <3>2. \A q \in Requests \ {r} : UNCHANGED <<phase[q], session[q], ready[q]>>
      BY <2>4 DEF Select, SelectTypeOK
    <3>3. \A q \in Requests \ {r} : UNCHANGED Best(q)
      BY <3>2 DEF Best
    <3>4. \A t \in Sessions : Selecting(t)' \subseteq Selecting(t) \ {r}
      <4>1. phase'[r] = "done"
        BY <2>4 DEF Select, SelectTypeOK
      <4> QED
        BY <3>2, <4>1 DEF Selecting
    <3> QED
      BY <2>1, <3>1, <3>2, <3>3, <3>4 DEF HomeInv, Selecting
  <2>5. CASE Goto(r, "bind")
    BY <2>1, <2>2, <2>5, GotoHome
  <2> QED
    BY <2>3, <2>4, <2>5
<1>4. CASE Bind(r)
  <2>1. s \in Sessions /\ phase[r] = "bind" /\ r \in Selecting(s) /\ choice[r] \in Providers
    BY <1>4, BestAreProviders DEF Bind, SelectionInv, Selecting
  <2>2. home[s] = None
    BY <2>1 DEF HomeInv
  <2>3. /\ Select(r, choice[r])
        /\ bound' = [bound EXCEPT ![s] = choice[r]]
        /\ age' = [age EXCEPT ![s] = 0]
    BY <1>4 DEF Bind
  <2> QED
    BY <2>1, <2>2, <2>3, SelectHome
<1> QED
  BY <1>1, <1>2, <1>3, <1>4 DEF Selection

\* Every step keeps the invariant of homes.
LEMMA HomeInvStep ==
  ASSUME CacheTypeOK, SelectTypeOK, SelectionInv, HomeInv, [Next]_vars
  PROVE  HomeInv'
<1>1. CASE UNCHANGED <<cacheVars, selectVars, history>>
  BY <1>1 DEF HomeInv, Selecting, Best, cacheVars, selectVars, history
<1>2. ASSUME NEW w \in Workers, NEW p \in Providers, Registry(w, p)
      PROVE  UNCHANGED <<cacheVars, selectVars, history>>
  BY <1>2 DEF Registry, Connect, Disconnect, SetCooldown, CooldownEnds, Change
<1>3. ASSUME NEW w \in Workers, Publish(w)
      PROVE  UNCHANGED <<cacheVars, selectVars, history>>
  BY <1>3 DEF Publish
<1>4. UNCHANGED vars => UNCHANGED <<cacheVars, selectVars, history>>
  BY DEF vars
<1> QED
  BY <1>1, <1>2, <1>3, <1>4, EnvironmentHome, BeginHome, SelectionHome DEF Next

\* A session that has settled on a provider is served by no other until something
\* speaks against the provider, for any number of concurrent selections.
THEOREM SessionsStayAtHome == Spec => StaysAtHome
<1>1. Init => HomeInv
  BY DEF Init, HomeInv
<1>2. AffinityTypeOK /\ SelectionInv /\ HomeInv /\ [Next]_vars => HomeInv'
  BY HomeInvStep, TypeParts
<1>3. Spec => []HomeInv
  BY <1>1, <1>2, TypesAndSelections, PTL DEF Spec
<1>4. ASSUME AffinityTypeOK, SelectionInv, HomeInv, [Next]_vars
      PROVE  [\A r \in Requests :
               LET s == session[r]
               IN  phase[r] # "done" /\ phase'[r] = "done" /\ s # NoSession =>
                     home[s] \in {None, choice'[r]}]_vars
  <2> SUFFICES ASSUME NEW r \in Requests,
                      phase[r] # "done", phase'[r] = "done", session[r] # NoSession
               PROVE  home[session[r]] \in {None, choice'[r]}
    OBVIOUS
  <2>1. /\ session[r] \in Sessions
        /\ r \in Selecting(session[r])
    BY <1>4 DEF AffinityTypeOK, Selecting
  <2>2. \/ phase[r] = "lookup" /\ choice'[r] = bound[session[r]]
        \/ phase[r] = "bind"
    BY <1>4, TypeParts, EndsByItself, EndOfSelection
  <2> QED
    BY <1>4, <2>1, <2>2 DEF HomeInv
<1> QED
  BY <1>3, <1>4, TypesAndSelections, PTL DEF Spec, StaysAtHome
=============================================================================
