--------------------------- MODULE LifecycleProofs ----------------------------
(***************************************************************************)
(* Proofs about modules Connections and Lifecycle.  First the relay alone: *)
(* its types, that no session is lost, that a cleanup never unmaps another *)
(* session, and that the registry agrees with the map when nothing is      *)
(* under way.  Then that the relay inside a service takes only those       *)
(* steps, so that all this holds in the service; the service's types; the  *)
(* order of a shutdown; that one listener at most is up; and what the      *)
(* relay's Stop leaves open.                                               *)
(***************************************************************************)
EXTENDS Lifecycle, TLAPS

-----------------------------------------------------------------------------
(* The relay: module Connections.                                           *)

\* Some provider exists, so a session always has an owner.
LEMMA InitType ==
  ASSUME Init
  PROVE  ConnectionsTypeOK
<1> DEFINE any == CHOOSE p \in Providers : TRUE
<1>1. any \in Providers
  BY ConnectionsAssumption
<1> QED
  BY <1>1 DEF Init, ConnectionsTypeOK

\* The handler of a session keeps the types.
LEMMA HandlerType ==
  ASSUME ConnectionsTypeOK, NEW s \in Sessions, NEW p \in Providers, Upgrade(s, p) \/ Handshake(s)
  PROVE  ConnectionsTypeOK'
<1> USE DEF ConnectionsTypeOK
<1>1. CASE Upgrade(s, p)
  BY <1>1 DEF Upgrade
<1>2. CASE MapSession(s)
  BY <1>2 DEF MapSession
<1>3. CASE CloseReplaced(s)
  BY <1>3 DEF CloseReplaced, BeginCleanup
<1>4. CASE ReplacedClosed(s)
  BY <1>4 DEF ReplacedClosed
<1>5. CASE Announce(s)
  BY <1>5 DEF Announce, Register, Mapped
<1> QED
  BY <1>1, <1>2, <1>3, <1>4, <1>5 DEF Handshake

\* A session's end keeps the types.
LEMMA CleanupType ==
  ASSUME ConnectionsTypeOK, NEW s \in Sessions, ConnectionFails(s) \/ Cleanup(s)
  PROVE  ConnectionsTypeOK'
<1> USE DEF ConnectionsTypeOK
<1>1. CASE ConnectionFails(s)
  BY <1>1 DEF ConnectionFails, BeginCleanup
<1>2. CASE Unmap(s)
  BY <1>2 DEF Unmap
<1>3. CASE Notify(s)
  BY <1>3 DEF Notify, Disconnect
<1> QED
  BY <1>1, <1>2, <1>3 DEF Cleanup

\* Stop keeps the types: only sessions are in its snapshot.
LEMMA StopType ==
  ASSUME ConnectionsTypeOK, StopBegins \/ Stop
  PROVE  ConnectionsTypeOK'
<1> USE DEF ConnectionsTypeOK
<1>1. CASE StopBegins
  BY <1>1 DEF StopBegins
<1>2. CASE \E s \in Sessions : StopTurnsTo(s)
  BY <1>2 DEF StopTurnsTo
<1>3. CASE StopCloses
  BY <1>3 DEF StopCloses, BeginCleanup
<1>4. CASE StopClosed
  BY <1>4 DEF StopClosed
<1>5. CASE StopEnds
  BY <1>5 DEF StopEnds
<1> QED
  BY <1>1, <1>2, <1>3, <1>4, <1>5 DEF Stop

\* Every step keeps the types.
LEMMA NextType ==
  ASSUME ConnectionsTypeOK, [Next]_vars
  PROVE  ConnectionsTypeOK'
<1>1. CASE UNCHANGED vars
  BY <1>1 DEF ConnectionsTypeOK, vars
<1>2. Providers # {}
  BY ConnectionsAssumption
<1> QED
  BY <1>1, <1>2, HandlerType, CleanupType, StopType DEF Next

\* Every variable keeps its type: Stop, for one, closes sessions and nothing else.
THEOREM TypeCorrect == Spec => []ConnectionsTypeOK
<1>1. Init => ConnectionsTypeOK
  BY InitType
<1>2. ConnectionsTypeOK /\ [Next]_vars => ConnectionsTypeOK'
  BY NextType
<1> QED
  BY <1>1, <1>2, PTL DEF Spec

-----------------------------------------------------------------------------
(***************************************************************************)
(* What a step may do to the map, to the handlers and to the cleanups: all *)
(* the proofs below need of Stop, of Upgrade and of BeginCleanup is here.  *)
(***************************************************************************)

\* Cleanup begins somewhere and nothing else changes but Stop's own state.
LEMMA QuietSteps ==
  ASSUME ConnectionsTypeOK, NEW s \in Sessions,
         CloseReplaced(s) \/ ConnectionFails(s) \/ StopBegins \/ Stop \/ UNCHANGED vars
  PROVE  /\ UNCHANGED <<sessions, current, owner, hs, replaced, late>>
         /\ \A t \in Sessions :
              clean'[t] = clean[t] \/ (clean[t] = "none" /\ clean'[t] = "begun")
<1> USE DEF ConnectionsTypeOK
<1>1. CASE CloseReplaced(s)
  BY <1>1 DEF CloseReplaced, BeginCleanup
<1>2. CASE ConnectionFails(s)
  BY <1>2 DEF ConnectionFails, BeginCleanup
<1>3. CASE StopCloses
  BY <1>3 DEF StopCloses, BeginCleanup
<1>4. CASE StopBegins \/ (\E t \in Sessions : StopTurnsTo(t)) \/ StopClosed \/ StopEnds
  BY <1>4 DEF StopBegins, StopTurnsTo, StopClosed, StopEnds
<1>5. CASE UNCHANGED vars
  BY <1>5 DEF vars
<1> QED
  BY <1>1, <1>2, <1>3, <1>4, <1>5 DEF Stop

\* The steps of a session there are besides.
LEMMA StepCases ==
  ASSUME [Next]_vars, Sessions # {}
  PROVE  \E s \in Sessions :
           \/ CloseReplaced(s) \/ ConnectionFails(s) \/ StopBegins \/ Stop \/ UNCHANGED vars
           \/ \E p \in Providers : Upgrade(s, p)
           \/ MapSession(s) \/ ReplacedClosed(s) \/ Announce(s)
           \/ Unmap(s) \/ Notify(s)
BY DEF Next, Handshake, Cleanup

-----------------------------------------------------------------------------

\* NoLostSession is inductive by itself: the step that unmaps a session for a new
\* one leaves it to the handler of the new one, which waits for its cleanup.
LEMMA NoLostInductive ==
  ASSUME ConnectionsTypeOK, NoLostSession, [Next]_vars
  PROVE  NoLostSession'
<1> USE DEF ConnectionsTypeOK, NoLostSession, Entered, Mapped
<1>0. CASE Sessions = {}
  BY <1>0
<1> SUFFICES ASSUME Sessions # {}
             PROVE  NoLostSession'
  BY <1>0
<1>1. PICK s \in Sessions :
        \/ CloseReplaced(s) \/ ConnectionFails(s) \/ StopBegins \/ Stop \/ UNCHANGED vars
        \/ \E p \in Providers : Upgrade(s, p)
        \/ MapSession(s) \/ ReplacedClosed(s) \/ Announce(s)
        \/ Unmap(s) \/ Notify(s)
  BY StepCases
<1>2. CASE CloseReplaced(s) \/ ConnectionFails(s) \/ StopBegins \/ Stop \/ UNCHANGED vars
  BY <1>2, QuietSteps
<1>3. ASSUME NEW p \in Providers, Upgrade(s, p)
      PROVE  NoLostSession'
  BY <1>3 DEF Upgrade
<1>4. CASE MapSession(s)
  BY <1>4 DEF MapSession
<1>5. CASE ReplacedClosed(s)
  BY <1>5, ConnectionsAssumption DEF ReplacedClosed
<1>6. CASE Announce(s)
  BY <1>6 DEF Announce
<1>7. CASE Unmap(s)
  BY <1>7, ConnectionsAssumption DEF Unmap
<1>8. CASE Notify(s)
  BY <1>8 DEF Notify
<1> QED
  BY <1>1, <1>2, <1>3, <1>4, <1>5, <1>6, <1>7, <1>8

\* No open connection is lost from the map without a handler that closes it.
THEOREM NoSessionLost == Spec => []NoLostSession
<1>1. Init => NoLostSession
  BY DEF Init, NoLostSession, Entered
<1>2. ConnectionsTypeOK /\ NoLostSession /\ [Next]_vars => NoLostSession'
  BY NoLostInductive
<1> QED
  BY <1>1, <1>2, TypeCorrect, PTL DEF Spec

\* What one step may take out of the map: see CleanupSparesNewSession.
SparingStep ==
  \A p \in Providers :
    sessions[p] # NoSession /\ sessions'[p] = NoSession => clean[sessions[p]] = "begun"

\* Only Unmap empties an entry, and only the entry of its own session.
LEMMA SparingStepHolds ==
  ASSUME ConnectionsTypeOK, Next
  PROVE  SparingStep
<1> USE DEF ConnectionsTypeOK, SparingStep
<1>0. CASE Sessions = {}
  BY <1>0
<1>1. CASE Sessions # {}
  <2>1. PICK s \in Sessions :
          \/ CloseReplaced(s) \/ ConnectionFails(s) \/ StopBegins \/ Stop \/ UNCHANGED vars
          \/ \E p \in Providers : Upgrade(s, p)
          \/ MapSession(s) \/ ReplacedClosed(s) \/ Announce(s)
          \/ Unmap(s) \/ Notify(s)
    BY <1>1, StepCases
  <2>2. CASE CloseReplaced(s) \/ ConnectionFails(s) \/ StopBegins \/ Stop \/ UNCHANGED vars
    BY <2>2, QuietSteps
  <2>3. CASE MapSession(s)
    BY <2>3, ConnectionsAssumption DEF MapSession
  <2>4. CASE Unmap(s)
    BY <2>4 DEF Unmap, Mapped
  <2>5. CASE (\E p \in Providers : Upgrade(s, p)) \/ ReplacedClosed(s) \/ Announce(s) \/ Notify(s)
    BY <2>5 DEF Upgrade, ReplacedClosed, Announce, Notify
  <2> QED
    BY <2>1, <2>2, <2>3, <2>4, <2>5
<1> QED
  BY <1>0, <1>1

\* A provider drops out of the map only through the cleanup of the session mapped for it.
THEOREM CleanupSpares == Spec => CleanupSparesNewSession
<1>1. ConnectionsTypeOK /\ [Next]_vars => [SparingStep]_vars
  BY SparingStepHolds
<1> QED
  BY <1>1, TypeCorrect, PTL DEF Spec, CleanupSparesNewSession, SparingStep

-----------------------------------------------------------------------------
(***************************************************************************)
(* The registry and the map.  RegistryAgrees speaks of quiet states only;  *)
(* what holds on the way there is                                          *)
(*   - the map and the registry name sessions of the provider, and the     *)
(*     registry only such as were announced;                               *)
(*   - a session about to report its loss has left the map for good;       *)
(*   - a running session in the map is the registry's;                     *)
(*   - the registry's session is in the map, or is about to report its     *)
(*     loss, or another handler of the provider is yet to announce.        *)
(* The last two hold as long as nobody was announced late.                 *)
(***************************************************************************)

NamesTheirOwn ==
  \A p \in Providers :
    /\ sessions[p] # NoSession => owner[sessions[p]] = p /\ Entered(sessions[p])
    /\ current[p] # NoSession => owner[current[p]] = p /\ hs[current[p]] = "running"

LossAfterMap == \A s \in Sessions : clean[s] = "notify" => Entered(s) /\ ~Mapped(s)

NoneLate == \A s \in Sessions : ~late[s]

MappedIsCurrent ==
  NoneLate => \A s \in Sessions : hs[s] = "running" /\ Mapped(s) => current[owner[s]] = s

CurrentIsMapped ==
  NoneLate => \A p \in Providers : current[p] # NoSession =>
    \/ sessions[p] = current[p]
    \/ clean[current[p]] = "notify"
    \/ \E t \in Sessions : owner[t] = p /\ hs[t] \in {"mapped", "announce"}

LateAnnounced == \A s \in Sessions : late[s] => hs[s] = "running"

AgreeInv == NamesTheirOwn /\ LossAfterMap /\ MappedIsCurrent /\ CurrentIsMapped /\ LateAnnounced

\* Beginning a cleanup, and Stop, touch neither the map nor the registry.
LEMMA AgreeQuiet ==
  ASSUME ConnectionsTypeOK, AgreeInv, NEW s \in Sessions,
         CloseReplaced(s) \/ ConnectionFails(s) \/ StopBegins \/ Stop \/ UNCHANGED vars
  PROVE  AgreeInv'
<1>1. /\ UNCHANGED <<sessions, current, owner, hs, replaced, late>>
      /\ \A t \in Sessions :
           clean'[t] = clean[t] \/ (clean[t] = "none" /\ clean'[t] = "begun")
  BY QuietSteps
<1> QED
  BY <1>1 DEF AgreeInv, NamesTheirOwn, LossAfterMap, MappedIsCurrent, CurrentIsMapped,
              LateAnnounced, NoneLate, Entered, Mapped, ConnectionsTypeOK

\* A session that is only upgraded is in no map yet.
LEMMA AgreeUpgrade ==
  ASSUME ConnectionsTypeOK, AgreeInv, NEW s \in Sessions, NEW p \in Providers, Upgrade(s, p)
  PROVE  AgreeInv'
<1> USE DEF ConnectionsTypeOK, AgreeInv, Upgrade, Entered, Mapped
<1>1. NamesTheirOwn'
  BY DEF NamesTheirOwn
<1>2. LossAfterMap'
  BY DEF LossAfterMap
<1>3. MappedIsCurrent'
  BY DEF MappedIsCurrent, NoneLate
<1>4. CurrentIsMapped'
  BY DEF CurrentIsMapped, NoneLate
<1>5. LateAnnounced'
  BY DEF LateAnnounced
<1> QED
  BY <1>1, <1>2, <1>3, <1>4, <1>5

\* A session enters the map before it is announced: until then its handler is the one in progress.
LEMMA AgreeMap ==
  ASSUME ConnectionsTypeOK, AgreeInv, NEW s \in Sessions, MapSession(s)
  PROVE  AgreeInv'
<1> USE DEF ConnectionsTypeOK, AgreeInv, MapSession, Entered, Mapped
<1>1. NamesTheirOwn'
  BY DEF NamesTheirOwn
<1>2. LossAfterMap'
  BY DEF LossAfterMap
<1>3. MappedIsCurrent'
  BY DEF MappedIsCurrent, NoneLate
<1>4. CurrentIsMapped'
  BY DEF CurrentIsMapped, NoneLate
<1>5. LateAnnounced'
  BY DEF LateAnnounced
<1> QED
  BY <1>1, <1>2, <1>3, <1>4, <1>5

\* A handler that has seen the old session closed is still to announce its own.
LEMMA AgreeReplacedClosed ==
  ASSUME ConnectionsTypeOK, AgreeInv, NEW s \in Sessions, ReplacedClosed(s)
  PROVE  AgreeInv'
<1> USE DEF ConnectionsTypeOK, AgreeInv, ReplacedClosed, Entered, Mapped
<1>1. NamesTheirOwn'
  BY ConnectionsAssumption DEF NamesTheirOwn
<1>2. LossAfterMap'
  BY DEF LossAfterMap
<1>3. MappedIsCurrent'
  BY DEF MappedIsCurrent, NoneLate
<1>4. CurrentIsMapped'
  BY DEF CurrentIsMapped, NoneLate
<1>5. LateAnnounced'
  BY DEF LateAnnounced
<1> QED
  BY <1>1, <1>2, <1>3, <1>4, <1>5

\* A session announced in time is the one the map points to.
LEMMA AgreeAnnounce ==
  ASSUME ConnectionsTypeOK, AgreeInv, NEW s \in Sessions, Announce(s)
  PROVE  AgreeInv'
<1>1. /\ hs[s] = "announce"
      /\ hs' = [hs EXCEPT ![s] = "running"]
      /\ current' = [current EXCEPT ![owner[s]] = s]
      /\ UNCHANGED <<sessions, owner, clean>>
  BY DEF Announce, Register
<1>2. late' = [late EXCEPT ![s] = ~Mapped(s)] /\ late \in [Sessions -> BOOLEAN]
  BY DEF Announce, ConnectionsTypeOK
<1>3. late'[s] = ~Mapped(s) /\ \A t \in Sessions : t # s => late'[t] = late[t]
  BY <1>2
<1>4. NoneLate' => Mapped(s)
  BY <1>3, Zenon DEF NoneLate
<1>5. NoneLate' => \A t \in Sessions : t # s => ~late[t]
  BY <1>3, Zenon DEF NoneLate
<1>a. ~late[s]
  BY <1>1 DEF AgreeInv, LateAnnounced
<1>b. NoneLate' => NoneLate
  BY <1>5, <1>a, Zenon DEF NoneLate
<1>6. owner[s] \in Providers /\ s # NoSession
  BY ConnectionsAssumption DEF ConnectionsTypeOK
<1> USE DEF ConnectionsTypeOK, AgreeInv, Entered, Mapped
<1>7. NamesTheirOwn'
  BY <1>1, <1>6 DEF NamesTheirOwn
<1>8. LossAfterMap'
  BY <1>1 DEF LossAfterMap
<1>9. MappedIsCurrent'
  <2> SUFFICES ASSUME NoneLate'
               PROVE  \A t \in Sessions : hs'[t] = "running" /\ Mapped(t)' => current'[owner'[t]] = t
    BY Zenon DEF MappedIsCurrent
  <2> QED
    BY <1>1, <1>4, <1>6, <1>b DEF MappedIsCurrent
<1>10. CurrentIsMapped'
  <2> SUFFICES ASSUME NoneLate', NEW p \in Providers, current'[p] # NoSession
               PROVE  \/ sessions'[p] = current'[p]
                      \/ clean'[current'[p]] = "notify"
                      \/ \E t \in Sessions : owner'[t] = p /\ hs'[t] \in {"mapped", "announce"}
    BY Zenon DEF CurrentIsMapped
  <2>1. CASE p = owner[s]
    BY <1>1, <1>4, <1>6, <2>1
  <2>2. CASE p # owner[s]
    BY <1>1, <1>6, <1>b, <2>2 DEF CurrentIsMapped
  <2> QED
    BY <2>1, <2>2
<1>11. LateAnnounced'
  BY <1>1, <1>3 DEF LateAnnounced
<1> QED
  BY <1>7, <1>8, <1>9, <1>10, <1>11

\* A session that leaves the map goes on to report its loss.
LEMMA AgreeUnmap ==
  ASSUME ConnectionsTypeOK, AgreeInv, NEW s \in Sessions, Unmap(s)
  PROVE  AgreeInv'
<1> USE DEF ConnectionsTypeOK, AgreeInv, Unmap, Entered, Mapped
<1>1. NamesTheirOwn'
  BY DEF NamesTheirOwn
<1>2. LossAfterMap'
  BY ConnectionsAssumption DEF LossAfterMap, NamesTheirOwn
<1>3. MappedIsCurrent'
  BY ConnectionsAssumption DEF MappedIsCurrent, NoneLate
<1>4. CurrentIsMapped'
  BY DEF CurrentIsMapped, NoneLate
<1>5. LateAnnounced'
  BY DEF LateAnnounced
<1> QED
  BY <1>1, <1>2, <1>3, <1>4, <1>5

\* A loss takes only the session that reports it out of the registry.
LEMMA AgreeNotify ==
  ASSUME ConnectionsTypeOK, AgreeInv, NEW s \in Sessions, Notify(s)
  PROVE  AgreeInv'
<1> USE DEF ConnectionsTypeOK, AgreeInv, Notify, Disconnect, Entered, Mapped
<1>1. NamesTheirOwn'
  BY DEF NamesTheirOwn
<1>2. LossAfterMap'
  BY DEF LossAfterMap
<1>3. MappedIsCurrent'
  BY DEF MappedIsCurrent, NoneLate, LossAfterMap
<1>4. CurrentIsMapped'
  BY DEF CurrentIsMapped, NoneLate, NamesTheirOwn
<1>5. LateAnnounced'
  BY DEF LateAnnounced
<1> QED
  BY <1>1, <1>2, <1>3, <1>4, <1>5

\* Every step keeps AgreeInv.
LEMMA AgreeInductive ==
  ASSUME ConnectionsTypeOK, AgreeInv, [Next]_vars
  PROVE  AgreeInv'
<1>0. CASE Sessions = {}
  BY <1>0, NextType
  DEF ConnectionsTypeOK, AgreeInv, NamesTheirOwn, LossAfterMap, MappedIsCurrent, CurrentIsMapped,
      LateAnnounced
<1>1. CASE Sessions # {}
  BY <1>1, StepCases, AgreeQuiet, AgreeUpgrade, AgreeMap, AgreeReplacedClosed,
     AgreeAnnounce, AgreeUnmap, AgreeNotify
<1> QED
  BY <1>0, <1>1

\* When nothing is under way and nobody was announced late, registry and map agree.
THEOREM RegistryAgreesWithMap == Spec => []RegistryAgrees
<1>1. Init => AgreeInv
  BY DEF Init, AgreeInv, NamesTheirOwn, LossAfterMap, MappedIsCurrent, CurrentIsMapped,
             LateAnnounced
<1>2. ConnectionsTypeOK /\ AgreeInv /\ [Next]_vars => AgreeInv'
  BY AgreeInductive
<1>3. ConnectionsTypeOK /\ AgreeInv => RegistryAgrees
  <2> SUFFICES ASSUME ConnectionsTypeOK, AgreeInv, Quiet, NoneLate, NEW p \in Providers
               PROVE  current[p] = sessions[p]
    BY DEF RegistryAgrees, NoneLate, ConnectionsTypeOK
  <2> USE DEF ConnectionsTypeOK, AgreeInv, NamesTheirOwn, Quiet, Entered, Mapped
  <2>1. CASE sessions[p] # NoSession
    BY <2>1 DEF MappedIsCurrent
  <2>2. CASE sessions[p] = NoSession
    BY <2>2 DEF CurrentIsMapped
  <2> QED
    BY <2>1, <2>2
<1> QED
  BY <1>1, <1>2, <1>3, TypeCorrect, PTL DEF Spec

-----------------------------------------------------------------------------
(* The service: module Lifecycle.                                           *)

\* A step of the service is a step of the relay or leaves the relay alone.
LEMMA RelayPart ==
  ASSUME [LifecycleNext]_lvars
  PROVE  [Next]_vars
<1>1. ASSUME NEW c \in Starters, BeginStart(c) \/ ListenFails(c) \/ ContextEnds(c) \/ StartStep(c)
      PROVE  UNCHANGED vars
  BY <1>1 DEF BeginStart, ListenFails, ContextEnds, StartStep, Listen, ListenerClosed, Return, ShutdownReturns
<1>2. CASE HostShutsDown \/ TimeIsUp \/ CloseListeners \/ Drained \/ RelayStopped
  BY <1>2 DEF HostShutsDown, TimeIsUp, CloseListeners, Drained, RelayStopped
<1>3. CASE StopRelay
  BY <1>3 DEF StopRelay, Next
<1>4. ASSUME NEW s \in Sessions, (\E p \in Providers : Upgraded(s, p)) \/ RelayStep(s) \/ Lose(s)
      PROVE  Next
  BY <1>4 DEF Upgraded, RelayStep, Lose, Next
<1>5. CASE Closing
  BY <1>5 DEF Closing, Next
<1>6. ASSUME NEW r \in Requests, (\E p \in Providers : Dispatch(r, p)) \/ Arrive(r) \/ Answer(r) \/ Fail(r)
      PROVE  UNCHANGED vars
  BY <1>6 DEF Dispatch, Arrive, Answer, Fail, End
<1>7. CASE UNCHANGED lvars
  BY <1>7 DEF lvars
<1> QED
  BY <1>1, <1>2, <1>3, <1>4, <1>5, <1>6, <1>7 DEF LifecycleNext, ShutDown

\* The service implements the relay's specification: nothing a service does to its
\* relay is missing from the model of the relay alone.
THEOREM ServiceRunsRelay == LifecycleSpec => Spec
<1>1. LifecycleInit => Init
  BY DEF LifecycleInit
<1>2. [LifecycleNext]_lvars => [Next]_vars
  BY RelayPart
<1> QED
  BY <1>1, <1>2, PTL DEF LifecycleSpec, Spec

\* So no open connection is lost in a service either, whatever start, requests and
\* shutdown do around the relay.
THEOREM NoSessionLostInService == LifecycleSpec => [](ConnectionsTypeOK /\ NoLostSession)
BY ServiceRunsRelay, TypeCorrect, NoSessionLost, PTL

-----------------------------------------------------------------------------
(* Types *)

\* The calls of Start keep the types.
LEMMA StartTypes ==
  ASSUME LifecycleTypeOK, NEW c \in Starters,
         BeginStart(c) \/ ListenFails(c) \/ ContextEnds(c) \/ StartStep(c)
  PROVE  LifecycleTypeOK'
<1> USE DEF LifecycleTypeOK, Ended, trafficVars
<1>1. CASE BeginStart(c)
  BY <1>1 DEF BeginStart
<1>2. CASE ListenFails(c)
  BY <1>2 DEF ListenFails
<1>3. CASE ContextEnds(c)
  BY <1>3 DEF ContextEnds, Claim
<1>4. CASE Listen(c)
  BY <1>4 DEF Listen
<1>5. CASE ListenerClosed(c)
  BY <1>5 DEF ListenerClosed
<1>6. CASE Return(c)
  BY <1>6 DEF Return
<1>7. CASE ShutdownReturns(c)
  BY <1>7 DEF ShutdownReturns
<1> QED
  BY <1>1, <1>2, <1>3, <1>4, <1>5, <1>6, <1>7 DEF StartStep

\* Shutdown keeps the types.
LEMMA ShutdownTypes ==
  ASSUME LifecycleTypeOK, HostShutsDown \/ ShutDown \/ TimeIsUp
  PROVE  LifecycleTypeOK'
<1> USE DEF LifecycleTypeOK, trafficVars
<1>1. CASE HostShutsDown
  BY <1>1 DEF HostShutsDown, Claim
<1>2. CASE TimeIsUp
  BY <1>2 DEF TimeIsUp
<1>3. CASE CloseListeners
  BY <1>3 DEF CloseListeners
<1>4. CASE Drained
  BY <1>4 DEF Drained
<1>5. CASE StopRelay
  BY <1>5 DEF StopRelay
<1>6. CASE RelayStopped
  BY <1>6 DEF RelayStopped
<1> QED
  BY <1>1, <1>2, <1>3, <1>4, <1>5, <1>6 DEF ShutDown

\* Requests keep the types: the session one waits for is one the map held.
LEMMA RequestTypes ==
  ASSUME LifecycleTypeOK, ConnectionsTypeOK, NEW r \in Requests,
         (\E p \in Providers : Dispatch(r, p)) \/ Arrive(r) \/ Answer(r) \/ Fail(r)
  PROVE  LifecycleTypeOK'
<1> USE DEF LifecycleTypeOK, serviceVars
<1>1. CASE \E p \in Providers : Dispatch(r, p)
  BY <1>1 DEF Dispatch, ConnectionsTypeOK
<1>2. CASE Arrive(r)
  BY <1>2 DEF Arrive
<1>3. CASE Answer(r) \/ Fail(r)
  BY <1>3 DEF Answer, Fail, End
<1> QED
  BY <1>1, <1>2, <1>3

\* What the relay does by itself, and a step that does nothing.
RelayAlone ==
  \/ \E s \in Sessions :
       (\E p \in Providers : Upgraded(s, p)) \/ RelayStep(s) \/ Lose(s)
  \/ Closing
  \/ UNCHANGED lvars

\* The relay's own steps leave the service and its requests as they are.
LEMMA RelayAloneChangesNoService ==
  ASSUME RelayAlone
  PROVE  UNCHANGED lifeVars
BY DEF RelayAlone, Upgraded, RelayStep, Lose, Closing, lvars

\* Every variable of a service keeps its type.
THEOREM ServiceTypeCorrect == LifecycleSpec => []LifecycleTypeOK
<1>1. LifecycleInit => LifecycleTypeOK
  BY DEF LifecycleInit, LifecycleTypeOK, Ended
<1>2. ConnectionsTypeOK /\ LifecycleTypeOK /\ [LifecycleNext]_lvars => LifecycleTypeOK'
  <2> SUFFICES ASSUME ConnectionsTypeOK, LifecycleTypeOK, [LifecycleNext]_lvars
               PROVE  LifecycleTypeOK'
    OBVIOUS
  <2>1. CASE RelayAlone
    BY <2>1, RelayAloneChangesNoService
       DEF lifeVars, serviceVars, trafficVars, LifecycleTypeOK
  <2> QED
    BY <2>1, StartTypes, ShutdownTypes, RequestTypes DEF LifecycleNext, RelayAlone
<1> QED
  BY <1>1, <1>2, NoSessionLostInService, PTL DEF LifecycleSpec

-----------------------------------------------------------------------------
(***************************************************************************)
(* The order of a shutdown.  The phase tells whether the server still      *)
(* takes requests and whether the relay may be stopped; once the requests  *)
(* are drained none can come back, for that takes an open server.          *)
(***************************************************************************)
ShutdownOrder ==
  /\ stop # "no" => phase \in {"stopping", "done"}
  /\ server = "open" => phase \in {"no", "http"}
  /\ phase \in {"relay", "stopping", "done"} /\ ~timedOut => active = {}
  /\ shutdown <=> phase # "no"

\* The relay's own steps begin no stop and take none back.
LEMMA RelayAloneStop ==
  ASSUME RelayAlone
  PROVE  stop # "no" \/ UNCHANGED stop
<1>1. ASSUME NEW s \in Sessions, NEW p \in Providers, Upgraded(s, p)
      PROVE  UNCHANGED stop
  BY <1>1 DEF Upgraded, Upgrade
<1>2. ASSUME NEW s \in Sessions, RelayStep(s)
      PROVE  UNCHANGED stop
  BY <1>2 DEF RelayStep, Handshake, MapSession, CloseReplaced, BeginCleanup, ReplacedClosed,
              Announce, Cleanup, Unmap, Notify
<1>3. ASSUME NEW s \in Sessions, Lose(s)
      PROVE  UNCHANGED stop
  BY <1>3 DEF Lose, ConnectionFails, BeginCleanup
<1>4. CASE Closing
  BY <1>4 DEF Closing, Stop, StopTurnsTo, StopCloses, BeginCleanup, StopClosed, StopEnds
<1>5. CASE UNCHANGED lvars
  BY <1>5 DEF lvars, vars
<1> QED
  BY <1>1, <1>2, <1>3, <1>4, <1>5 DEF RelayAlone

\* Every step keeps the order of a shutdown.
LEMMA ShutdownOrderInductive ==
  ASSUME LifecycleTypeOK, ShutdownOrder, [LifecycleNext]_lvars
  PROVE  ShutdownOrder'
<1> USE DEF ShutdownOrder, LifecycleTypeOK
<1>1. CASE RelayAlone
  <2>1. UNCHANGED <<phase, server, active, timedOut, shutdown>>
    BY <1>1, RelayAloneChangesNoService DEF lifeVars, serviceVars, trafficVars
  <2> QED
    BY <2>1, <1>1, RelayAloneStop
<1>2. ASSUME NEW c \in Starters, BeginStart(c) \/ ListenFails(c) \/ StartStep(c)
      PROVE  ShutdownOrder'
  <2>1. UNCHANGED <<vars, shutdown, server, phase, timedOut, trafficVars>>
    BY <1>2 DEF BeginStart, ListenFails, StartStep, Listen, ListenerClosed, Return, ShutdownReturns
  <2> QED
    BY <2>1 DEF vars, trafficVars
<1>3. ASSUME NEW c \in Starters, ContextEnds(c)
      PROVE  ShutdownOrder'
  BY <1>3 DEF ContextEnds, Claim, vars, trafficVars
<1>4. CASE HostShutsDown
  BY <1>4 DEF HostShutsDown, Claim, vars, trafficVars
<1>5. CASE TimeIsUp
  BY <1>5 DEF TimeIsUp, vars, trafficVars
<1>6. CASE CloseListeners
  BY <1>6 DEF CloseListeners, vars, trafficVars
<1>7. CASE Drained
  BY <1>7 DEF Drained, vars, trafficVars
<1>8. CASE StopRelay
  BY <1>8 DEF StopRelay, StopBegins, trafficVars
<1>9. CASE RelayStopped
  BY <1>9 DEF RelayStopped, vars, trafficVars
<1>10. ASSUME NEW r \in Requests, Arrive(r)
       PROVE  ShutdownOrder'
  BY <1>10 DEF Arrive, Open, vars, serviceVars
<1>11. ASSUME NEW r \in Requests, (\E p \in Providers : Dispatch(r, p)) \/ Answer(r) \/ Fail(r)
       PROVE  ShutdownOrder'
  <2>1. UNCHANGED <<vars, serviceVars>> /\ active' \subseteq active
    BY <1>11 DEF Dispatch, Answer, Fail, End
  <2> QED
    BY <2>1 DEF vars, serviceVars
<1> QED
  BY <1>1, <1>2, <1>3, <1>4, <1>5, <1>6, <1>7, <1>8, <1>9, <1>10, <1>11
     DEF LifecycleNext, ShutDown, RelayAlone

\* The order of a shutdown holds always.
THEOREM ShutdownIsOrdered == LifecycleSpec => []ShutdownOrder
<1>1. LifecycleInit => ShutdownOrder
  BY DEF LifecycleInit, Init, ShutdownOrder
<1>2. LifecycleTypeOK /\ ShutdownOrder /\ [LifecycleNext]_lvars => ShutdownOrder'
  BY ShutdownOrderInductive
<1> QED
  BY <1>1, <1>2, ServiceTypeCorrect, PTL DEF LifecycleSpec

\* Within the time limit no request that is waited for loses its provider.
THEOREM DrainSparesProviders == LifecycleSpec => []DrainKeepsProviders
<1>1. ShutdownOrder => DrainKeepsProviders
  BY DEF ShutdownOrder, DrainKeepsProviders
<1> QED
  BY <1>1, ShutdownIsOrdered, PTL

-----------------------------------------------------------------------------
(***************************************************************************)
(* The calls of Start.  One at most has not returned; it alone may have a  *)
(* listener that is up, and if it shuts down itself it leaves that only    *)
(* when the shutdown is over.                                              *)
(***************************************************************************)
Live(c) == start[c] \in {"running", "stopping", "waiting"}

OneStart ==
  /\ \A c \in Starters : Live(c) => started
  /\ \A c, d \in Starters : Live(c) /\ Live(d) => c = d
  /\ \A c \in Starters : listener[c] \in {"launched", "listening"} => Live(c)
  /\ \A c \in Starters : by = c => shutdown /\ (start[c] # "stopping" => phase = "done")

\* Every step keeps it: a Start is let in only when none is live, and makes room
\* for the next only by returning.
LEMMA OneStartInductive ==
  ASSUME LifecycleTypeOK, LifecycleTypeOK', ShutdownOrder, OneStart, [LifecycleNext]_lvars
  PROVE  OneStart'
<1> USE DEF OneStart, LifecycleTypeOK, Live, Ended, LifecycleAssumption
<1>1. CASE RelayAlone
  BY <1>1, RelayAloneChangesNoService DEF lifeVars, serviceVars
<1>2. ASSUME NEW c \in Starters, BeginStart(c)
      PROVE  OneStart'
  BY <1>2 DEF BeginStart
<1>3. ASSUME NEW c \in Starters, ListenFails(c) \/ Listen(c) \/ ListenerClosed(c)
      PROVE  OneStart'
  BY <1>3 DEF ListenFails, Listen, ListenerClosed
<1>4. ASSUME NEW c \in Starters, Return(c)
      PROVE  OneStart'
  BY <1>4 DEF Return
<1>5. ASSUME NEW c \in Starters, ShutdownReturns(c)
      PROVE  OneStart'
  BY <1>5 DEF ShutdownReturns
<1>6. ASSUME NEW c \in Starters, ContextEnds(c)
      PROVE  OneStart'
  BY <1>6, LifecycleAssumption DEF ContextEnds, Claim
<1>7. CASE HostShutsDown
  BY <1>7, LifecycleAssumption DEF HostShutsDown, Claim
<1>8. CASE TimeIsUp \/ CloseListeners \/ Drained \/ StopRelay \/ RelayStopped
  BY <1>8 DEF TimeIsUp, CloseListeners, Drained, StopRelay, RelayStopped
<1>9. ASSUME NEW r \in Requests, (\E p \in Providers : Dispatch(r, p)) \/ Arrive(r) \/ Answer(r) \/ Fail(r)
      PROVE  OneStart'
  BY <1>9 DEF Dispatch, Arrive, Answer, Fail, End, serviceVars
<1> QED
  BY <1>1, <1>2, <1>3, <1>4, <1>5, <1>6, <1>7, <1>8, <1>9
     DEF LifecycleNext, ShutDown, StartStep, RelayAlone

\* One Start at most has not returned.
THEOREM OneStartLives == LifecycleSpec => []OneStart
<1>1. LifecycleInit => OneStart
  BY LifecycleAssumption DEF LifecycleInit, OneStart, Live
<1>2. LifecycleTypeOK /\ LifecycleTypeOK' /\ ShutdownOrder /\ OneStart /\ [LifecycleNext]_lvars => OneStart'
  BY OneStartInductive
<1> QED
  BY <1>1, <1>2, ServiceTypeCorrect, ShutdownIsOrdered, PTL DEF LifecycleSpec

\* One listener at most is up, however starts, failures and shutdowns cross.
THEOREM OneListenerIsUp == LifecycleSpec => []OneListener
<1>1. OneStart => OneListener
  BY DEF OneStart, OneListener
<1> QED
  BY <1>1, OneStartLives, PTL

\* A Start that shuts down itself returns with the requests done or the time up.
THEOREM ExitsAreGraceful == LifecycleSpec => []ExitIsGraceful
<1>1. OneStart /\ ShutdownOrder => ExitIsGraceful
  BY DEF OneStart, ShutdownOrder, ExitIsGraceful
<1> QED
  BY <1>1, OneStartLives, ShutdownIsOrdered, PTL

-----------------------------------------------------------------------------
(***************************************************************************)
(* What Stop leaves open.  A session that others could find when Stop      *)
(* looked is in the snapshot, in Stop's hand, in the hand of the handler   *)
(* that took its place, or being closed; from each it goes to another or   *)
(* to its end.                                                             *)
(***************************************************************************)
Covered(s) ==
  \/ clean[s] # "none"
  \/ s \in snapshot
  \/ turn = s
  \/ \E t \in Sessions : hs[t] = "mapped" /\ replaced[t] = s

StopCoversSeen ==
  /\ stop # "no" => \A s \in seen : Covered(s)
  /\ stop # "closing" => snapshot = {} /\ turn = NoSession

\* Stop's snapshot holds every session of the map, and whoever is not in the map
\* is in the hand of a handler (NoLostSession).
LEMMA StopBeginsCovering ==
  ASSUME ConnectionsTypeOK, NoLostSession, StopBegins, NEW s \in Sessions, Entered(s)
  PROVE  Covered(s)'
<1> USE DEF ConnectionsTypeOK
<1>1. UNCHANGED <<clean, hs, replaced>> /\ snapshot' = {sessions[p] : p \in Providers} \ {NoSession}
  BY DEF StopBegins
<1>2. CASE clean[s] # "none"
  BY <1>2, <1>1 DEF Covered
<1>3. CASE Mapped(s)
  <2>1. s \in snapshot'
    BY <1>1, <1>3, ConnectionsAssumption DEF Mapped
  <2> QED
    BY <2>1 DEF Covered
<1>4. CASE \E t \in Sessions : hs[t] = "mapped" /\ replaced[t] = s
  BY <1>4, <1>1 DEF Covered
<1> QED
  BY <1>2, <1>3, <1>4 DEF NoLostSession

\* A covered session stays covered: a handler lets go only of a session that is
\* closed, and so does Stop.
LEMMA CoveredStays ==
  ASSUME ConnectionsTypeOK, [Next]_vars, stop # "no", NEW s \in Sessions, Covered(s)
  PROVE  Covered(s)'
<1> USE DEF ConnectionsTypeOK, Covered
<1>1. ASSUME NEW t \in Sessions, CloseReplaced(t) \/ ConnectionFails(t)
      PROVE  Covered(s)'
  BY <1>1 DEF CloseReplaced, ConnectionFails, BeginCleanup
<1>2. ASSUME NEW t \in Sessions, NEW p \in Providers, Upgrade(t, p)
      PROVE  Covered(s)'
  BY <1>2 DEF Upgrade
<1>3. ASSUME NEW t \in Sessions, MapSession(t)
      PROVE  Covered(s)'
  BY <1>3 DEF MapSession
<1>4. ASSUME NEW t \in Sessions, ReplacedClosed(t)
      PROVE  Covered(s)'
  <2>1. CASE replaced[t] = s
    <3>1. clean[s] = "done" /\ clean' = clean
      BY <1>4, <2>1, ConnectionsAssumption DEF ReplacedClosed
    <3> QED
      BY <3>1
  <2>2. CASE replaced[t] # s
    BY <1>4, <2>2 DEF ReplacedClosed
  <2> QED
    BY <2>1, <2>2
<1>5. ASSUME NEW t \in Sessions, Announce(t)
      PROVE  Covered(s)'
  BY <1>5 DEF Announce
<1>6. ASSUME NEW t \in Sessions, Unmap(t) \/ Notify(t)
      PROVE  Covered(s)'
  BY <1>6 DEF Unmap, Notify
<1>7. ASSUME NEW t \in Sessions, StopTurnsTo(t)
      PROVE  Covered(s)'
  BY <1>7, ConnectionsAssumption DEF StopTurnsTo
<1>8. CASE StopCloses
  BY <1>8 DEF StopCloses, BeginCleanup
<1>9. CASE StopClosed
  BY <1>9 DEF StopClosed
<1>10. CASE StopEnds \/ UNCHANGED vars
  BY <1>10 DEF StopEnds, vars
<1>11. CASE StopBegins
  BY <1>11 DEF StopBegins
<1> QED
  BY <1>1, <1>2, <1>3, <1>4, <1>5, <1>6, <1>7, <1>8, <1>9, <1>10, <1>11
     DEF Next, Handshake, Cleanup, Stop

\* Only while Stop is closing is there anything in its snapshot or in its hand.
LEMMA StopIdle ==
  ASSUME ConnectionsTypeOK, StopCoversSeen, [Next]_vars, stop' # "closing"
  PROVE  snapshot' = {} /\ turn' = NoSession
<1> USE DEF StopCoversSeen
<1>1. ASSUME NEW t \in Sessions,
             \/ \E p \in Providers : Upgrade(t, p)
             \/ Handshake(t) \/ ConnectionFails(t) \/ Cleanup(t)
      PROVE  UNCHANGED <<stop, snapshot, turn>>
  BY <1>1 DEF Upgrade, Handshake, MapSession, CloseReplaced, BeginCleanup, ReplacedClosed,
              Announce, ConnectionFails, Cleanup, Unmap, Notify
<1>2. CASE StopBegins
  BY <1>2 DEF StopBegins
<1>3. CASE Stop
  BY <1>3, ConnectionsAssumption DEF Stop, StopTurnsTo, StopCloses, BeginCleanup, StopClosed, StopEnds
<1>4. CASE UNCHANGED vars
  BY <1>4 DEF vars
<1> QED
  BY <1>1, <1>2, <1>3, <1>4 DEF Next

\* What the service has seen changes only when it stops the relay.
LEMMA SeenSteps ==
  ASSUME [LifecycleNext]_lvars
  PROVE  StopRelay \/ UNCHANGED seen
<1>1. CASE RelayAlone
  BY <1>1, RelayAloneChangesNoService DEF lifeVars
<1>2. ASSUME NEW c \in Starters, BeginStart(c) \/ ListenFails(c) \/ ContextEnds(c) \/ StartStep(c)
      PROVE  UNCHANGED seen
  BY <1>2 DEF BeginStart, ListenFails, ContextEnds, StartStep, Listen, ListenerClosed, Return, ShutdownReturns
<1>3. CASE HostShutsDown \/ TimeIsUp \/ CloseListeners \/ Drained \/ RelayStopped
  BY <1>3 DEF HostShutsDown, TimeIsUp, CloseListeners, Drained, RelayStopped
<1>4. ASSUME NEW r \in Requests, (\E p \in Providers : Dispatch(r, p)) \/ Arrive(r) \/ Answer(r) \/ Fail(r)
      PROVE  UNCHANGED seen
  BY <1>4 DEF Dispatch, Arrive, Answer, Fail, End
<1> QED
  BY <1>1, <1>2, <1>3, <1>4 DEF LifecycleNext, ShutDown, RelayAlone

\* Only StopRelay begins the relay's stop.
LEMMA StopBeginsOnce ==
  ASSUME [LifecycleNext]_lvars, stop = "no", stop' # "no"
  PROVE  StopRelay
<1>1. ASSUME NEW c \in Starters, BeginStart(c) \/ ListenFails(c) \/ ContextEnds(c) \/ StartStep(c)
      PROVE  FALSE
  BY <1>1 DEF BeginStart, ListenFails, ContextEnds, StartStep, Listen, ListenerClosed, Return,
              ShutdownReturns, vars
<1>2. CASE HostShutsDown \/ TimeIsUp \/ CloseListeners \/ Drained \/ RelayStopped
  BY <1>2 DEF HostShutsDown, TimeIsUp, CloseListeners, Drained, RelayStopped, vars
<1>3. ASSUME NEW r \in Requests, (\E p \in Providers : Dispatch(r, p)) \/ Arrive(r) \/ Answer(r) \/ Fail(r)
      PROVE  FALSE
  BY <1>3 DEF Dispatch, Arrive, Answer, Fail, End, vars
<1>4. CASE RelayAlone
  BY <1>4, RelayAloneStop
<1> QED
  BY <1>1, <1>2, <1>3, <1>4 DEF LifecycleNext, ShutDown, RelayAlone

\* Every step keeps what Stop has to close in sight.
LEMMA StopCoversSeenInductive ==
  ASSUME ConnectionsTypeOK, LifecycleTypeOK, NoLostSession, StopCoversSeen, [LifecycleNext]_lvars
  PROVE  StopCoversSeen'
<1>1. [Next]_vars
  BY RelayPart
<1>2. stop' # "closing" => snapshot' = {} /\ turn' = NoSession
  BY <1>1, StopIdle
<1>3. ASSUME stop' # "no", NEW s \in seen'
      PROVE  Covered(s)'
  <2>1. CASE StopRelay
    <3>1. StopBegins /\ s \in Sessions /\ Entered(s)
      BY <1>3, <2>1 DEF StopRelay
    <3> QED
      BY <3>1, StopBeginsCovering
  <2>2. CASE ~StopRelay
    <3>1. stop # "no" /\ seen' = seen
      BY <1>3, <2>2, StopBeginsOnce, SeenSteps
    <3>2. s \in Sessions /\ Covered(s)
      BY <3>1, <1>3 DEF StopCoversSeen, LifecycleTypeOK
    <3> QED
      BY <3>1, <3>2, <1>1, CoveredStays
  <2> QED
    BY <2>1, <2>2
<1> QED
  BY <1>2, <1>3 DEF StopCoversSeen

\* A session that Stop could see is closed when Stop is done, or some other handler
\* is closing it: only sessions that enter the map later are left open.
THEOREM StopLeavesOnlyLateEntries == LifecycleSpec => []StopMissesOnlyLateEntries
<1>1. LifecycleInit => StopCoversSeen
  BY DEF LifecycleInit, Init, StopCoversSeen
<1>2. ConnectionsTypeOK /\ LifecycleTypeOK /\ NoLostSession /\ StopCoversSeen /\ [LifecycleNext]_lvars
        => StopCoversSeen'
  BY StopCoversSeenInductive
<1>3. ConnectionsTypeOK /\ LifecycleTypeOK /\ StopCoversSeen => StopMissesOnlyLateEntries
  BY ConnectionsAssumption
     DEF StopCoversSeen, Covered, StopMissesOnlyLateEntries, LifecycleTypeOK
<1> QED
  BY <1>1, <1>2, <1>3, NoSessionLostInService, ServiceTypeCorrect, PTL DEF LifecycleSpec

=============================================================================
