---------------------------- MODULE Connections -----------------------------
(***************************************************************************)
(* The relay's session map and the registry's view of it:                  *)
(* internal/wsrelay/manager.go with the life of a session.go session and   *)
(* the two callbacks the service binds to the registry.                    *)
(*                                                                         *)
(* Every websocket upgrade is a session of its own, handled by its own     *)
(* goroutine, and its heartbeat may end it before the handler has gone on. *)
(* Cleanup runs once; whoever else calls it waits until it is over         *)
(* (sync.Once).  The map and the registry are changed under two different  *)
(* locks, one after the other, so announcements and reports of a loss may  *)
(* reach the registry in another order than the map saw them.              *)
(*                                                                         *)
(* Abstractions.  A session stands for its connection id, which is new for *)
(* every handshake.  Of the registry only the connection of each entry is  *)
(* kept: Register and Disconnect are atomic in it (module Registry).  The  *)
(* checks before the upgrade end in an HTTP error and keep no state; Touch *)
(* changes only a time shown on the status page.                           *)
(***************************************************************************)
EXTENDS Naturals, FiniteSets

CONSTANTS
  Providers,  \* provider ids, normalised (providerMapKey)
  Sessions,   \* the handshakes there can be
  NoSession   \* no session

ASSUME ConnectionsAssumption == NoSession \notin Sessions /\ Providers # {}

VARIABLES
  sessions,   \* m.sessions
  current,    \* the registry: the connection current for a provider
  owner,      \* the provider a session belongs to
  hs,         \* how far the handler of a session is
  replaced,   \* the session the handler found in the map and has to close
  clean,      \* how far the session's cleanup is
  stop,       \* how far Stop is
  snapshot,   \* the sessions Stop has yet to close
  turn,       \* the session it is closing
  late        \* history: the session was no longer mapped when it was announced

vars == <<sessions, current, owner, hs, replaced, clean, stop, snapshot, turn, late>>

Init ==
  /\ sessions = [p \in Providers |-> NoSession]
  /\ current = [p \in Providers |-> NoSession]
  /\ owner = [s \in Sessions |-> CHOOSE p \in Providers : TRUE]
  /\ hs = [s \in Sessions |-> "none"]
  /\ replaced = [s \in Sessions |-> NoSession]
  /\ clean = [s \in Sessions |-> "none"]
  /\ stop = "no"
  /\ snapshot = {}
  /\ turn = NoSession
  /\ late = [s \in Sessions |-> FALSE]

(* Registry.Register and Registry.Disconnect, as the callbacks reach them. *)

Register(p, s) == current' = [current EXCEPT ![p] = s]

\* a loss reported by provider id alone, as with an empty connection id
MutantDisconnect(p, s) == current' = [current EXCEPT ![p] = NoSession]

\* Nothing happens unless s is the connection registered.
Disconnect(p, s) ==
  current' = [current EXCEPT ![p] = IF @ = s THEN NoSession ELSE @]

Mapped(s) == sessions[owner[s]] = s

\* handlers past the map, whose session others can find
Entered(s) == hs[s] \in {"mapped", "announce", "running"}

-----------------------------------------------------------------------------
(* handleWebsocket *)

\* The upgrade: newSession starts the heartbeat.
Upgrade(s, p) ==
  /\ hs[s] = "none"
  /\ hs' = [hs EXCEPT ![s] = "upgraded"]
  /\ owner' = [owner EXCEPT ![s] = p]
  /\ UNCHANGED <<sessions, current, replaced, clean, stop, snapshot, turn, late>>

\* the map entered without looking at whom it held
MutantMapSession(s) ==
  /\ hs[s] = "upgraded"
  /\ hs' = [hs EXCEPT ![s] = "mapped"]
  /\ sessions' = [sessions EXCEPT ![owner[s]] = s]
  /\ UNCHANGED <<current, owner, replaced, clean, stop, snapshot, turn, late>>

MapSession(s) ==
  /\ hs[s] = "upgraded"
  /\ hs' = [hs EXCEPT ![s] = "mapped"]
  /\ replaced' = [replaced EXCEPT ![s] = sessions[owner[s]]]
  /\ sessions' = [sessions EXCEPT ![owner[s]] = s]
  /\ UNCHANGED <<current, owner, clean, stop, snapshot, turn, late>>

\* The handler waits for the cleanup of the session it replaced.
ReplacedClosed(s) ==
  /\ hs[s] = "mapped"
  /\ replaced[s] # NoSession => clean[replaced[s]] = "done"
  /\ hs' = [hs EXCEPT ![s] = "announce"]
  /\ UNCHANGED <<sessions, current, owner, replaced, clean, stop, snapshot, turn, late>>

\* onConnected, Registry.HandleProviderConnected; then the read loop starts.
Announce(s) ==
  /\ hs[s] = "announce"
  /\ hs' = [hs EXCEPT ![s] = "running"]
  /\ Register(owner[s], s)
  /\ late' = [late EXCEPT ![s] = ~Mapped(s)]
  /\ UNCHANGED <<sessions, owner, replaced, clean, stop, snapshot, turn>>

-----------------------------------------------------------------------------
(* cleanup and handleSessionClosed *)

BeginCleanup(s) ==
  /\ clean[s] = "none"
  /\ clean' = [clean EXCEPT ![s] = "begun"]
  /\ UNCHANGED <<sessions, current, owner, hs, replaced, stop, snapshot, turn, late>>

\* The heartbeat fails, from the upgrade on, or the read loop, once it runs.
ConnectionFails(s) == hs[s] # "none" /\ BeginCleanup(s)

CloseReplaced(s) ==
  /\ hs[s] = "mapped"
  /\ replaced[s] # NoSession
  /\ BeginCleanup(replaced[s])

\* a cleanup that deletes whatever is mapped for its provider
MutantUnmap(s) ==
  /\ clean[s] = "begun"
  /\ sessions' = [sessions EXCEPT ![owner[s]] = NoSession]
  /\ clean' = [clean EXCEPT ![s] = IF Mapped(s) THEN "notify" ELSE "done"]
  /\ UNCHANGED <<current, owner, hs, replaced, stop, snapshot, turn, late>>

\* a map that Stop keeps locked while it closes the sessions
MutantUnmapWaits(s) ==
  /\ clean[s] = "begun"
  /\ stop # "closing"
  /\ sessions' = [sessions EXCEPT ![owner[s]] = IF @ = s THEN NoSession ELSE @]
  /\ clean' = [clean EXCEPT ![s] = IF Mapped(s) THEN "notify" ELSE "done"]
  /\ UNCHANGED <<current, owner, hs, replaced, stop, snapshot, turn, late>>

\* handleSessionClosed under m.mu: the loss is reported only by the session the map points to.
Unmap(s) ==
  /\ clean[s] = "begun"
  /\ IF Mapped(s)
       THEN /\ sessions' = [sessions EXCEPT ![owner[s]] = NoSession]
            /\ clean' = [clean EXCEPT ![s] = "notify"]
       ELSE /\ clean' = [clean EXCEPT ![s] = "done"]
            /\ UNCHANGED sessions
  /\ UNCHANGED <<current, owner, hs, replaced, stop, snapshot, turn, late>>

\* onDisconnected, Registry.HandleProviderDisconnected.
Notify(s) ==
  /\ clean[s] = "notify"
  /\ Disconnect(owner[s], s)
  /\ clean' = [clean EXCEPT ![s] = "done"]
  /\ UNCHANGED <<sessions, owner, hs, replaced, stop, snapshot, turn, late>>

-----------------------------------------------------------------------------
(* Manager.Stop: a snapshot of the map, then one cleanup after the other. *)

StopBegins ==
  /\ stop = "no"
  /\ stop' = "closing"
  /\ snapshot' = {sessions[p] : p \in Providers} \ {NoSession}
  /\ UNCHANGED <<sessions, current, owner, hs, replaced, clean, turn, late>>

StopTurnsTo(s) ==
  /\ s \in snapshot
  /\ turn = NoSession
  /\ turn' = s
  /\ snapshot' = snapshot \ {s}
  /\ UNCHANGED <<sessions, current, owner, hs, replaced, clean, stop, late>>

StopCloses == turn # NoSession /\ BeginCleanup(turn)

StopClosed ==
  /\ turn # NoSession
  /\ clean[turn] = "done"
  /\ turn' = NoSession
  /\ UNCHANGED <<sessions, current, owner, hs, replaced, clean, stop, snapshot, late>>

\* a Stop that returns without a look at the rest of its snapshot
MutantStopEnds ==
  /\ stop = "closing"
  /\ turn = NoSession
  /\ stop' = "done"
  /\ snapshot' = {}
  /\ UNCHANGED <<sessions, current, owner, hs, replaced, clean, turn, late>>

StopEnds ==
  /\ stop = "closing"
  /\ snapshot = {}
  /\ turn = NoSession
  /\ stop' = "done"
  /\ UNCHANGED <<sessions, current, owner, hs, replaced, clean, snapshot, turn, late>>

-----------------------------------------------------------------------------
Handshake(s) == MapSession(s) \/ CloseReplaced(s) \/ ReplacedClosed(s) \/ Announce(s)

Cleanup(s) == Unmap(s) \/ Notify(s)

Stop ==
  \/ \E s \in Sessions : StopTurnsTo(s)
  \/ StopCloses
  \/ StopClosed
  \/ StopEnds

Next ==
  \/ \E s \in Sessions :
       \/ \E p \in Providers : Upgrade(s, p)
       \/ Handshake(s) \/ ConnectionFails(s) \/ Cleanup(s)
  \/ StopBegins
  \/ Stop

Spec == Init /\ [][Next]_vars

(* Goroutines that can run do run; nobody is obliged to connect, to fail or  *)
(* to call Stop.                                                             *)
Fairness ==
  /\ \A s \in Sessions : WF_vars(Handshake(s)) /\ WF_vars(Cleanup(s))
  /\ WF_vars(Stop)

FairSpec == Spec /\ Fairness

-----------------------------------------------------------------------------
(* Properties *)

ConnectionsTypeOK ==
  /\ sessions \in [Providers -> Sessions \cup {NoSession}]
  /\ current \in [Providers -> Sessions \cup {NoSession}]
  /\ owner \in [Sessions -> Providers]
  /\ hs \in [Sessions -> {"none", "upgraded", "mapped", "announce", "running"}]
  /\ replaced \in [Sessions -> Sessions \cup {NoSession}]
  /\ clean \in [Sessions -> {"none", "begun", "notify", "done"}]
  /\ stop \in {"no", "closing", "done"}
  /\ snapshot \subseteq Sessions
  /\ turn \in Sessions \cup {NoSession}
  /\ late \in [Sessions -> BOOLEAN]

\* No open connection is lost: a session that has been in the map and that nobody
\* closes is still the one the map points to, unless the handler that took its
\* place has it in hand to close it (manager.go:389-399).
NoLostSession ==
  \A s \in Sessions : Entered(s) /\ clean[s] = "none" =>
    \/ Mapped(s)
    \/ \E t \in Sessions : hs[t] = "mapped" /\ replaced[t] = s

\* Replacing first and closing afterwards protects the new connection
\* (manager.go:396): a provider drops out of the map only through the cleanup
\* of the very session the map points to.
CleanupSparesNewSession ==
  [][\A p \in Providers :
       sessions[p] # NoSession /\ sessions'[p] = NoSession => clean[sessions[p]] = "begun"]_vars

Quiet == \A s \in Sessions : hs[s] \in {"none", "running"} /\ clean[s] \in {"none", "done"}

\* When no handler and no cleanup is under way, the registry names for every
\* provider the session the relay sends to, however handshakes, failures and
\* replacements crossed; the one thing that can part them is a session
\* announced when the map no longer held it.
RegistryAgrees == Quiet /\ (\A s \in Sessions : ~late[s]) => current = sessions

\* Stop ends, though it waits for cleanups that other goroutines run.
StopReturns == stop = "closing" ~> stop = "done"

\* "The registry manages the providers online" (registry.go:115): when nothing is
\* under way no provider is listed whose connection is closed.
ListedIsOnline ==
  Quiet => \A p \in Providers : current[p] # NoSession => clean[current[p]] = "none"

=============================================================================
