---------------------------- MODULE RelaySession ----------------------------
(***************************************************************************)
(* One websocket session of a provider and the requests in flight on it:   *)
(* internal/wsrelay/session.go with the callers of http.go.                *)
(*                                                                         *)
(* A request has a slot: an entry in the pending map and a reply channel   *)
(* of fixed capacity.  Four goroutines may take the slot out of the map,   *)
(* each in a critical section of pendingMu, and whoever takes it out       *)
(* closes the channel afterwards, outside the lock:                        *)
(*   the read loop    when a terminal message arrives (dispatch),          *)
(*   the watcher      when the request's context is done,                  *)
(*   the caller       when its own send fails,                             *)
(*   cleanup          when the session ends, for all that are left.        *)
(*                                                                         *)
(* Abstractions.  Message ids come from GenerateMessageID and are distinct,*)
(* so a request stands for its id and the duplicate-id branch is out of    *)
(* reach.  A message is its number in the provider's sequence and its      *)
(* kind; http_response and stream_end are both "end".  Ping and pong       *)
(* change nothing here.                                                    *)
(***************************************************************************)
EXTENDS Naturals, Sequences, FiniteSets

CONSTANTS
  Requests,   \* requests made on this session
  Capacity,   \* capacity of a reply channel (16 in the code)
  MaxMsgs,    \* bound: messages the provider sends for one request
  NoRequest   \* the read loop or cleanup deals with no request

ASSUME SessionAssumption ==
  /\ Capacity \in Nat \ {0}
  /\ MaxMsgs \in Nat
  /\ NoRequest \notin Requests

Kinds == {"chunk", "end", "error"}
Msg   == [n : 0 .. MaxMsgs, kind : Kinds]
Terminal(m) == m.kind # "chunk"

\* The error cleanup sends to the requests it harvests; it has no place in the sequence.
SessionError == [n |-> 0, kind |-> "error"]

Outcomes == {"end", "error", "closed", "cancelled", "timeout", "send_error"}

VARIABLES
  closed,     \* s.closed is closed
  conn,       \* the websocket is open
  pending,    \* the requests with an entry in s.pending
  buf,        \* what a reply channel holds
  chClosed,   \* a reply channel is closed
  lost,       \* history: a message found the reply channel full
  cancelled,  \* the request's context is done
  caller,     \* the caller's progress
  watcher,    \* the watcher goroutine of a request
  arrived,    \* how many messages the provider has sent for a request
  taken,      \* the messages the caller has taken
  outcome,    \* how the call ended
  readPc,     \* the read loop: reading, about to offer or to close, or gone
  readReq,    \* the request it looked up
  readMsg,    \* the message it dispatches
  cleanPc,    \* cleanup: not begun, to harvest, notifying, about to close a slot, done
  harvest,    \* the requests cleanup has harvested and not yet notified
  cleanReq    \* the one it notified and not yet closed

slotVars   == <<buf, chClosed, lost>>
callVars   == <<caller, taken, outcome>>
readVars   == <<readPc, readReq, readMsg>>
cleanVars  == <<closed, conn, cleanPc, harvest, cleanReq>>
vars == <<slotVars, callVars, readVars, cleanVars, pending, cancelled, watcher, arrived>>

Init ==
  /\ closed = FALSE
  /\ conn = TRUE
  /\ pending = {}
  /\ buf = [r \in Requests |-> <<>>]
  /\ chClosed = [r \in Requests |-> FALSE]
  /\ lost = [r \in Requests |-> FALSE]
  /\ cancelled = [r \in Requests |-> FALSE]
  /\ caller = [r \in Requests |-> "idle"]
  /\ watcher = [r \in Requests |-> "off"]
  /\ arrived = [r \in Requests |-> 0]
  /\ taken = [r \in Requests |-> <<>>]
  /\ outcome = [r \in Requests |-> "none"]
  /\ readPc = "read"
  /\ readReq = NoRequest
  /\ readMsg = SessionError
  /\ cleanPc = "none"
  /\ harvest = {}
  /\ cleanReq = NoRequest

-----------------------------------------------------------------------------
(* The reply channel: pendingRequest.trySend and pendingRequest.close. *)

\* a trySend that gives up one place too early
MutantTrySendShort(r, m) ==
  /\ buf' = [buf EXCEPT ![r] = IF ~chClosed[r] /\ Len(@) < Capacity - 1 THEN Append(@, m) ELSE @]
  /\ lost' = [lost EXCEPT ![r] = @ \/ (~chClosed[r] /\ Len(buf[r]) >= Capacity)]

TrySend(r, m) ==
  /\ buf' = [buf EXCEPT ![r] = IF ~chClosed[r] /\ Len(@) < Capacity THEN Append(@, m) ELSE @]
  /\ lost' = [lost EXCEPT ![r] = @ \/ (~chClosed[r] /\ Len(buf[r]) >= Capacity)]

CloseReply(r) == chClosed' = [chClosed EXCEPT ![r] = TRUE]

-----------------------------------------------------------------------------
(* The caller: request (register, send) and then the loop that reads replies. *)

RegisterPending(r) ==
  /\ caller[r] = "idle"
  /\ pending' = pending \cup {r}
  /\ caller' = [caller EXCEPT ![r] = "registered"]
  /\ UNCHANGED <<slotVars, readVars, cleanVars, cancelled, watcher, arrived, taken, outcome>>

\* a send that does not look at s.closed
MutantMaySend(r) == ~cancelled[r]

\* send looks at s.closed and at the context before it writes.
MaySend(r) == ~closed /\ ~cancelled[r]

CheckSend(r) ==
  /\ caller[r] = "registered"
  /\ caller' = [caller EXCEPT ![r] = IF MaySend(r) THEN "sending" ELSE "failed"]
  /\ UNCHANGED <<slotVars, readVars, cleanVars, pending, cancelled, watcher, arrived, taken, outcome>>

\* The write succeeds.
WriteRequest(r) ==
  /\ caller[r] = "sending"
  /\ conn
  /\ caller' = [caller EXCEPT ![r] = "written"]
  /\ UNCHANGED <<slotVars, readVars, cleanVars, pending, cancelled, watcher, arrived, taken, outcome>>

\* The watcher starts and the channel goes to the caller.
StartWatcher(r) ==
  /\ caller[r] = "written"
  /\ caller' = [caller EXCEPT ![r] = "reading"]
  /\ watcher' = [watcher EXCEPT ![r] = "watching"]
  /\ UNCHANGED <<slotVars, readVars, cleanVars, pending, cancelled, arrived, taken, outcome>>

\* The write fails, for a connection already closed or for a deadline passed.
WriteFails(r) ==
  /\ caller[r] = "sending"
  /\ caller' = [caller EXCEPT ![r] = "failed"]
  /\ UNCHANGED <<slotVars, readVars, cleanVars, pending, cancelled, watcher, arrived, taken, outcome>>

\* a failed send that leaves its slot in the map
MutantAbandonSend(r) ==
  /\ caller[r] = "failed"
  /\ CloseReply(r)
  /\ caller' = [caller EXCEPT ![r] = "returned"]
  /\ outcome' = [outcome EXCEPT ![r] = "send_error"]
  /\ UNCHANGED <<buf, lost, readVars, cleanVars, pending, cancelled, watcher, arrived, taken>>

AbandonSend(r) ==
  /\ caller[r] = "failed"
  /\ pending' = pending \ {r}
  /\ CloseReply(r)
  /\ caller' = [caller EXCEPT ![r] = "returned"]
  /\ outcome' = [outcome EXCEPT ![r] = "send_error"]
  /\ UNCHANGED <<buf, lost, readVars, cleanVars, cancelled, watcher, arrived, taken>>

Return(r, o) ==
  /\ caller' = [caller EXCEPT ![r] = "returned"]
  /\ outcome' = [outcome EXCEPT ![r] = o]

\* a reading loop that goes on after a terminal message
MutantTakeReply(r) ==
  /\ caller[r] = "reading"
  /\ buf[r] # <<>>
  /\ buf' = [buf EXCEPT ![r] = Tail(@)]
  /\ taken' = [taken EXCEPT ![r] = Append(@, Head(buf[r]))]
  /\ IF Terminal(Head(buf[r]))
       THEN outcome' = [outcome EXCEPT ![r] = Head(buf[r]).kind]
       ELSE UNCHANGED outcome
  /\ UNCHANGED <<chClosed, lost, caller, readVars, cleanVars, pending, cancelled, watcher, arrived>>

\* Stream and NonStreamWithBootstrap: a terminal message ends the call.
TakeReply(r) ==
  /\ caller[r] = "reading"
  /\ buf[r] # <<>>
  /\ buf' = [buf EXCEPT ![r] = Tail(@)]
  /\ taken' = [taken EXCEPT ![r] = Append(@, Head(buf[r]))]
  /\ IF Terminal(Head(buf[r]))
       THEN Return(r, Head(buf[r]).kind)
       ELSE UNCHANGED <<caller, outcome>>
  /\ UNCHANGED <<chClosed, lost, readVars, cleanVars, pending, cancelled, watcher, arrived>>

\* The channel is closed and empty: "closed unexpectedly".
SeeClosed(r) ==
  /\ caller[r] = "reading"
  /\ buf[r] = <<>>
  /\ chClosed[r]
  /\ Return(r, "closed")
  /\ UNCHANGED <<slotVars, readVars, cleanVars, pending, cancelled, watcher, arrived, taken>>

SeeCancelled(r) ==
  /\ caller[r] = "reading"
  /\ cancelled[r]
  /\ Return(r, "cancelled")
  /\ UNCHANGED <<slotVars, readVars, cleanVars, pending, cancelled, watcher, arrived, taken>>

\* The first-packet timer of NonStreamWithBootstrap.  The context is not
\* cancelled, so the slot stays in the map and late answers still reach it.
BootstrapTimeout(r) ==
  /\ caller[r] = "reading"
  /\ taken[r] = <<>>
  /\ Return(r, "timeout")
  /\ UNCHANGED <<slotVars, readVars, cleanVars, pending, cancelled, watcher, arrived, taken>>

CancelContext(r) ==
  /\ ~cancelled[r]
  /\ cancelled' = [cancelled EXCEPT ![r] = TRUE]
  /\ UNCHANGED <<slotVars, callVars, readVars, cleanVars, pending, watcher, arrived>>

-----------------------------------------------------------------------------
(* The watcher goroutine of a request. *)

WatcherSeesClosed(r) ==
  /\ watcher[r] = "watching"
  /\ closed
  /\ watcher' = [watcher EXCEPT ![r] = "gone"]
  /\ UNCHANGED <<slotVars, callVars, readVars, cleanVars, pending, cancelled, arrived>>

\* It removes the slot if it is still there and then owns its close.
WatcherSeesCancel(r) ==
  /\ watcher[r] = "watching"
  /\ cancelled[r]
  /\ pending' = pending \ {r}
  /\ watcher' = [watcher EXCEPT ![r] = IF r \in pending THEN "owner" ELSE "gone"]
  /\ UNCHANGED <<slotVars, callVars, readVars, cleanVars, cancelled, arrived>>

WatcherCloses(r) ==
  /\ watcher[r] = "owner"
  /\ CloseReply(r)
  /\ watcher' = [watcher EXCEPT ![r] = "gone"]
  /\ UNCHANGED <<buf, lost, callVars, readVars, cleanVars, pending, cancelled, arrived>>

-----------------------------------------------------------------------------
(* The read loop: run and dispatch. *)

\* The provider answers what it was sent, in any way, as soon as the write has
\* begun and even after a terminal message.
Answers(r) == caller[r] \notin {"idle", "registered"} /\ arrived[r] < MaxMsgs

\* a dispatch that leaves the entry of a terminal message in the map
MutantDispatch(r, kind) ==
  /\ readPc = "read"
  /\ conn
  /\ Answers(r)
  /\ arrived' = [arrived EXCEPT ![r] = @ + 1]
  /\ \/ /\ r \in pending
        /\ readPc' = "offer"
        /\ readReq' = r
        /\ readMsg' = [n |-> arrived[r] + 1, kind |-> kind]
     \/ /\ r \notin pending
        /\ UNCHANGED readVars
  /\ UNCHANGED <<slotVars, callVars, cleanVars, pending, cancelled, watcher>>

Dispatch(r, kind) ==
  /\ readPc = "read"
  /\ conn
  /\ Answers(r)
  /\ arrived' = [arrived EXCEPT ![r] = @ + 1]
  /\ \/ /\ r \in pending
        /\ pending' = IF kind = "chunk" THEN pending ELSE pending \ {r}
        /\ readPc' = "offer"
        /\ readReq' = r
        /\ readMsg' = [n |-> arrived[r] + 1, kind |-> kind]
     \/ /\ r \notin pending
        /\ UNCHANGED <<pending, readVars>>
  /\ UNCHANGED <<slotVars, callVars, cleanVars, cancelled, watcher>>

DispatchOffers ==
  /\ readPc = "offer"
  /\ TrySend(readReq, readMsg)
  /\ readPc' = IF Terminal(readMsg) THEN "close" ELSE "read"
  /\ UNCHANGED <<chClosed, readReq, readMsg, callVars, cleanVars, pending, cancelled, watcher, arrived>>

DispatchCloses ==
  /\ readPc = "close"
  /\ CloseReply(readReq)
  /\ readPc' = "read"
  /\ UNCHANGED <<buf, lost, readReq, readMsg, callVars, cleanVars, pending, cancelled, watcher, arrived>>

-----------------------------------------------------------------------------
(* cleanup: once, by whichever goroutine comes first. *)

BeginCleanup ==
  /\ cleanPc = "none"
  /\ closed' = TRUE
  /\ cleanPc' = "harvest"
  /\ UNCHANGED <<conn, harvest, cleanReq, slotVars, callVars, pending, cancelled, watcher, arrived>>

\* The heartbeat failed, the session was replaced, or the manager stops.
OtherCleanup == BeginCleanup /\ UNCHANGED readVars

\* ReadJSON failed: the read loop runs cleanup itself, or waits for it to be over.
ReadFails ==
  /\ readPc = "read"
  /\ readPc' = "gone"
  /\ UNCHANGED <<readReq, readMsg>>
  /\ \/ BeginCleanup
     \/ /\ cleanPc # "none"
        /\ UNCHANGED <<slotVars, callVars, cleanVars, pending, cancelled, watcher, arrived>>

Harvest ==
  /\ cleanPc = "harvest"
  /\ harvest' = pending
  /\ pending' = {}
  /\ cleanPc' = "notify"
  /\ UNCHANGED <<closed, conn, cleanReq, slotVars, callVars, readVars, cancelled, watcher, arrived>>

Notify(r) ==
  /\ cleanPc = "notify"
  /\ r \in harvest
  /\ TrySend(r, SessionError)
  /\ harvest' = harvest \ {r}
  /\ cleanReq' = r
  /\ cleanPc' = "close"
  /\ UNCHANGED <<closed, conn, chClosed, callVars, readVars, pending, cancelled, watcher, arrived>>

\* a cleanup that notifies without closing the reply channel
MutantCloseHarvested ==
  /\ cleanPc = "close"
  /\ cleanReq' = NoRequest
  /\ cleanPc' = "notify"
  /\ UNCHANGED <<closed, conn, harvest, slotVars, callVars, readVars, pending, cancelled, watcher, arrived>>

CloseHarvested ==
  /\ cleanPc = "close"
  /\ CloseReply(cleanReq)
  /\ cleanReq' = NoRequest
  /\ cleanPc' = "notify"
  /\ UNCHANGED <<closed, conn, harvest, buf, lost, callVars, readVars, pending, cancelled, watcher, arrived>>

EndCleanup ==
  /\ cleanPc = "notify"
  /\ harvest = {}
  /\ conn' = FALSE
  /\ cleanPc' = "done"
  /\ UNCHANGED <<closed, harvest, cleanReq, slotVars, callVars, readVars, pending, cancelled, watcher, arrived>>

-----------------------------------------------------------------------------
Send(r)  == CheckSend(r) \/ WriteRequest(r) \/ WriteFails(r) \/ StartWatcher(r) \/ AbandonSend(r)
Read(r)  == TakeReply(r) \/ SeeClosed(r) \/ SeeCancelled(r)
Watch(r) == WatcherSeesClosed(r) \/ WatcherSeesCancel(r) \/ WatcherCloses(r)

ReadLoop == DispatchOffers \/ DispatchCloses
Cleanup  == Harvest \/ (\E r \in Requests : Notify(r)) \/ CloseHarvested \/ EndCleanup

Next ==
  \/ \E r \in Requests :
       \/ RegisterPending(r) \/ Send(r) \/ Read(r) \/ BootstrapTimeout(r)
       \/ CancelContext(r) \/ Watch(r)
       \/ \E kind \in Kinds : Dispatch(r, kind)
  \/ ReadLoop
  \/ OtherCleanup
  \/ ReadFails
  \/ Cleanup

Spec == Init /\ [][Next]_vars

(* Goroutines that can run do run.  Neither the provider nor a context is   *)
(* obliged to do anything, and nobody is obliged to end the session.        *)
Fairness ==
  /\ \A r \in Requests : WF_vars(Send(r)) /\ WF_vars(Read(r)) /\ WF_vars(Watch(r))
  /\ WF_vars(ReadLoop)
  /\ WF_vars(Cleanup)

FairSpec == Spec /\ Fairness

-----------------------------------------------------------------------------
(* Properties *)

SessionTypeOK ==
  /\ closed \in BOOLEAN
  /\ conn \in BOOLEAN
  /\ pending \subseteq Requests
  /\ buf \in [Requests -> Seq(Msg)]
  /\ \A r \in Requests : Len(buf[r]) <= Capacity
  /\ chClosed \in [Requests -> BOOLEAN]
  /\ lost \in [Requests -> BOOLEAN]
  /\ cancelled \in [Requests -> BOOLEAN]
  /\ caller \in [Requests -> {"idle", "registered", "sending", "written", "failed", "reading", "returned"}]
  /\ watcher \in [Requests -> {"off", "watching", "owner", "gone"}]
  /\ arrived \in [Requests -> 0 .. MaxMsgs]
  /\ taken \in [Requests -> Seq(Msg)]
  /\ outcome \in [Requests -> Outcomes \cup {"none"}]
  /\ readPc \in {"read", "offer", "close", "gone"}
  /\ readReq \in Requests \cup {NoRequest}
  /\ readMsg \in Msg
  /\ cleanPc \in {"none", "harvest", "notify", "close", "done"}
  /\ harvest \subseteq Requests
  /\ cleanReq \in Requests \cup {NoRequest}

\* Exactly one goroutine ends a reply: at most one terminal message, the
\* provider's or cleanup's, ever enters a request's reply channel
\* (dispatch deletes the entry it will end, session.go:130-132, before cleanup harvests).
OneTerminalPerReply ==
  \A r \in Requests :
    LET seen == taken[r] \o buf[r]
    IN \A i, j \in DOMAIN seen : Terminal(seen[i]) /\ Terminal(seen[j]) => i = j

\* A reply that ends well and met no full channel is complete: the caller has
\* every message the provider sent, from the first to the terminal one.
CleanEndIsComplete ==
  \A r \in Requests :
    outcome[r] = "end" /\ ~lost[r] => \A i \in DOMAIN taken[r] : taken[r][i].n = i

\* Once cleanup has harvested, nobody who waits for a reply is left in the map,
\* where no one would ever close the channel: a request that registers too
\* late is refused by send (session.go:192-196) and takes its slot back.
NoOrphanedCaller ==
  cleanPc \in {"notify", "close", "done"} =>
    \A r \in pending : caller[r] \in {"registered", "failed"}

\* No message is put into a closed channel (a panic in Go), though the read
\* loop and cleanup send outside the lock under which they found the slot.
NoSendOnClosedReply ==
  [][\A r \in Requests : chClosed[r] => Len(buf'[r]) <= Len(buf[r]) /\ chClosed'[r]]_vars

\* The session keeps the promise of ReplyStream.  The error of cleanup, which can only be
\* the last that a caller takes, is its outcome there and no message of the provider's.
Numbers(s) ==
  LET given == IF s # <<>> /\ s[Len(s)].n = 0 THEN Len(s) - 1 ELSE Len(s)
  IN  [i \in 1 .. given |-> s[i].n]

Promise == INSTANCE ReplyStream
  WITH taken <- [r \in Requests |-> Numbers(taken[r])]

KeepsReplyPromise == Promise!Spec

\* A caller whose context is done, or whose session is closed, returns.
CallerReturns ==
  \A r \in Requests :
    (caller[r] = "reading" /\ (cancelled[r] \/ closed)) ~> caller[r] = "returned"

\* A context that is done, or a session that closes, gives the slot back.
SlotReleased ==
  \A r \in Requests : (r \in pending /\ (cancelled[r] \/ closed)) ~> r \notin pending

=============================================================================
