-------------------------- MODULE RelaySessionProofs --------------------------
(***************************************************************************)
(* Proofs about module RelaySession: its types, that no caller is left in  *)
(* the pending map after cleanup, that nothing enters a closed reply       *)
(* channel, that a reply is ended once, that one which ends well is        *)
(* complete, and that the session keeps the promise of ReplyStream.        *)
(***************************************************************************)
EXTENDS RelaySession, TLAPS

\* What the bounds and the values outside the data are.
LEMMA Constants ==
  /\ Capacity \in Nat \ {0} /\ MaxMsgs \in Nat /\ NoRequest \notin Requests
  /\ SessionError \in Msg
BY SessionAssumption DEF SessionError, Msg, Kinds

\* trySend keeps a channel's type and its capacity.
LEMMA TrySendType ==
  ASSUME SessionTypeOK, NEW r \in Requests, NEW m \in Msg, TrySend(r, m)
  PROVE  /\ buf' \in [Requests -> Seq(Msg)]
         /\ \A q \in Requests : Len(buf'[q]) <= Capacity
         /\ lost' \in [Requests -> BOOLEAN]
<1> DEFINE q1 == IF ~chClosed[r] /\ Len(buf[r]) < Capacity THEN Append(buf[r], m) ELSE buf[r]
<1>1. buf' = [buf EXCEPT ![r] = q1] /\ buf \in [Requests -> Seq(Msg)]
  BY DEF TrySend, SessionTypeOK
<1>2. buf[r] \in Seq(Msg) /\ Len(buf[r]) <= Capacity /\ Capacity \in Nat
  BY Constants DEF SessionTypeOK
<1>3. q1 \in Seq(Msg)
  BY <1>2
<1>4. Len(q1) <= Capacity
  <2>1. CASE ~chClosed[r] /\ Len(buf[r]) < Capacity
    <3>1. q1 = Append(buf[r], m) /\ Len(Append(buf[r], m)) = Len(buf[r]) + 1 /\ Len(buf[r]) \in Nat
      BY <1>2, <2>1
    <3> QED
      BY <1>2, <2>1, <3>1
  <2>2. CASE ~(~chClosed[r] /\ Len(buf[r]) < Capacity)
    BY <1>2, <2>2
  <2> QED
    BY <2>1, <2>2
<1>5. lost' \in [Requests -> BOOLEAN]
  BY DEF TrySend, SessionTypeOK
<1> HIDE DEF q1
<1>6. buf' \in [Requests -> Seq(Msg)]
  BY <1>1, <1>3
<1>7. \A q \in Requests : Len(buf'[q]) <= Capacity
  BY <1>1, <1>4 DEF SessionTypeOK
<1> QED
  BY <1>5, <1>6, <1>7

\* The sending half of a call keeps the types.
LEMMA SendType ==
  ASSUME SessionTypeOK, NEW r \in Requests, RegisterPending(r) \/ Send(r)
  PROVE  SessionTypeOK'
<1> USE DEF SessionTypeOK, slotVars, readVars, cleanVars
<1>1. CASE RegisterPending(r)
  BY <1>1 DEF RegisterPending
<1>2. CASE CheckSend(r)
  BY <1>2 DEF CheckSend
<1>3. CASE WriteRequest(r)
  BY <1>3 DEF WriteRequest
<1>4. CASE WriteFails(r)
  BY <1>4 DEF WriteFails
<1>5. CASE StartWatcher(r)
  BY <1>5 DEF StartWatcher
<1>6. CASE AbandonSend(r)
  BY <1>6 DEF AbandonSend, CloseReply, Outcomes
<1> QED
  BY <1>1, <1>2, <1>3, <1>4, <1>5, <1>6 DEF Send

\* Taking a message off a channel keeps it within its capacity.
LEMMA TakeReplyType ==
  ASSUME SessionTypeOK, NEW r \in Requests, TakeReply(r)
  PROVE  SessionTypeOK'
<1> USE DEF slotVars, readVars, cleanVars
<1>1. buf[r] \in Seq(Msg) /\ buf[r] # <<>> /\ taken[r] \in Seq(Msg)
  BY DEF TakeReply, SessionTypeOK
<1>2. Head(buf[r]) \in Msg /\ Tail(buf[r]) \in Seq(Msg) /\ Len(Tail(buf[r])) = Len(buf[r]) - 1
  BY <1>1
<1>3. Append(taken[r], Head(buf[r])) \in Seq(Msg)
  BY <1>1, <1>2
<1>4. buf' \in [Requests -> Seq(Msg)] /\ taken' \in [Requests -> Seq(Msg)]
  BY <1>2, <1>3 DEF TakeReply, SessionTypeOK
<1>5. \A q \in Requests : Len(buf'[q]) <= Capacity
  <2> SUFFICES ASSUME NEW q \in Requests
               PROVE  Len(buf'[q]) <= Capacity
    OBVIOUS
  <2>1. CASE q = r
    <3>1. buf'[r] = Tail(buf[r]) /\ Len(buf[r]) <= Capacity /\ Len(buf[r]) \in Nat
      BY <1>1 DEF TakeReply, SessionTypeOK
    <3> QED
      BY <1>2, <2>1, <3>1, Constants
  <2>2. CASE q # r
    BY <2>2 DEF TakeReply, SessionTypeOK
  <2> QED
    BY <2>1, <2>2
<1>6. Terminal(Head(buf[r])) => Head(buf[r]).kind \in Outcomes
  BY <1>2 DEF Terminal, Msg, Kinds, Outcomes
<1>7. /\ caller' \in [Requests -> {"idle", "registered", "sending", "written", "failed", "reading", "returned"}]
      /\ outcome' \in [Requests -> Outcomes \cup {"none"}]
  BY <1>6 DEF TakeReply, Return, SessionTypeOK
<1> QED
  BY <1>4, <1>5, <1>7 DEF TakeReply, SessionTypeOK

\* The other ways a call ends, and the end of a context, keep the types.
LEMMA ReturnType ==
  ASSUME SessionTypeOK, NEW r \in Requests,
         SeeClosed(r) \/ SeeCancelled(r) \/ BootstrapTimeout(r) \/ CancelContext(r)
  PROVE  SessionTypeOK'
<1> USE DEF SessionTypeOK, slotVars, callVars, readVars, cleanVars
<1>1. CASE SeeClosed(r)
  BY <1>1 DEF SeeClosed, Return, Outcomes
<1>2. CASE SeeCancelled(r)
  BY <1>2 DEF SeeCancelled, Return, Outcomes
<1>3. CASE BootstrapTimeout(r)
  BY <1>3 DEF BootstrapTimeout, Return, Outcomes
<1>4. CASE CancelContext(r)
  BY <1>4 DEF CancelContext
<1> QED
  BY <1>1, <1>2, <1>3, <1>4

\* A watcher keeps the types.
LEMMA WatchType ==
  ASSUME SessionTypeOK, NEW r \in Requests, Watch(r)
  PROVE  SessionTypeOK'
<1> USE DEF SessionTypeOK, slotVars, callVars, readVars, cleanVars
<1>1. CASE WatcherSeesClosed(r)
  BY <1>1 DEF WatcherSeesClosed
<1>2. CASE WatcherSeesCancel(r)
  BY <1>2 DEF WatcherSeesCancel
<1>3. CASE WatcherCloses(r)
  BY <1>3 DEF WatcherCloses, CloseReply
<1> QED
  BY <1>1, <1>2, <1>3 DEF Watch

\* What the read loop is about to offer belongs to a request.
ReadHasRequest == readPc \in {"offer", "close"} => readReq \in Requests

CleanHasRequest == cleanPc = "close" => cleanReq \in Requests

TypeInv == SessionTypeOK /\ ReadHasRequest /\ CleanHasRequest

\* The read loop keeps the types.
LEMMA ReadLoopType ==
  ASSUME TypeInv,
         \/ \E r \in Requests, kind \in Kinds : Dispatch(r, kind)
         \/ ReadLoop
         \/ ReadFails
  PROVE  TypeInv'
<1> USE DEF TypeInv, slotVars, callVars, readVars, cleanVars
<1>1. ASSUME NEW r \in Requests, NEW kind \in Kinds, Dispatch(r, kind)
      PROVE  TypeInv'
  <2>1. arrived[r] + 1 \in 0 .. MaxMsgs
    BY <1>1, Constants DEF Dispatch, Answers, SessionTypeOK
  <2>2. [n |-> arrived[r] + 1, kind |-> kind] \in Msg
    BY <2>1 DEF Msg
  <2>3. arrived' \in [Requests -> 0 .. MaxMsgs]
    BY <1>1, <2>1 DEF Dispatch, SessionTypeOK
  <2>4. /\ readPc' \in {"read", "offer", "close", "gone"}
        /\ readReq' \in Requests \cup {NoRequest}
        /\ readMsg' \in Msg
        /\ pending' \subseteq Requests
        /\ ReadHasRequest'
    BY <1>1, <2>2 DEF Dispatch, SessionTypeOK, ReadHasRequest
  <2> QED
    BY <1>1, <2>3, <2>4 DEF Dispatch, SessionTypeOK, CleanHasRequest
<1>2. CASE DispatchOffers
  <2>1. /\ buf' \in [Requests -> Seq(Msg)]
        /\ \A q \in Requests : Len(buf'[q]) <= Capacity
        /\ lost' \in [Requests -> BOOLEAN]
    BY <1>2, TrySendType DEF DispatchOffers, ReadHasRequest, SessionTypeOK
  <2> QED
    BY <1>2, <2>1 DEF DispatchOffers, SessionTypeOK, ReadHasRequest, CleanHasRequest
<1>3. CASE DispatchCloses
  BY <1>3 DEF DispatchCloses, CloseReply, SessionTypeOK, ReadHasRequest, CleanHasRequest
<1>4. CASE ReadFails
  BY <1>4 DEF ReadFails, BeginCleanup, SessionTypeOK, ReadHasRequest, CleanHasRequest
<1> QED
  BY <1>1, <1>2, <1>3, <1>4 DEF ReadLoop

\* Cleanup keeps the types.
LEMMA CleanupType ==
  ASSUME TypeInv, OtherCleanup \/ Cleanup
  PROVE  TypeInv'
<1> USE DEF TypeInv, slotVars, callVars, readVars, cleanVars, ReadHasRequest, CleanHasRequest
<1>1. CASE OtherCleanup
  BY <1>1 DEF OtherCleanup, BeginCleanup, SessionTypeOK
<1>2. CASE Harvest
  BY <1>2 DEF Harvest, SessionTypeOK
<1>3. ASSUME NEW r \in Requests, Notify(r)
      PROVE  TypeInv'
  <2>1. /\ buf' \in [Requests -> Seq(Msg)]
        /\ \A q \in Requests : Len(buf'[q]) <= Capacity
        /\ lost' \in [Requests -> BOOLEAN]
    BY <1>3, TrySendType, Constants DEF Notify
  <2> QED
    BY <1>3, <2>1 DEF Notify, SessionTypeOK
<1>4. CASE CloseHarvested
  BY <1>4 DEF CloseHarvested, CloseReply, SessionTypeOK
<1>5. CASE EndCleanup
  BY <1>5 DEF EndCleanup, SessionTypeOK
<1> QED
  BY <1>1, <1>2, <1>3, <1>4, <1>5 DEF Cleanup

\* The steps of one request leave the read loop and cleanup where they are.
LEMMA RequestFrame ==
  ASSUME NEW r \in Requests,
         \/ RegisterPending(r) \/ Send(r) \/ Read(r) \/ BootstrapTimeout(r)
         \/ CancelContext(r) \/ Watch(r)
  PROVE  UNCHANGED <<readVars, cleanVars>>
BY DEF RegisterPending, Send, CheckSend, WriteRequest, WriteFails, StartWatcher, AbandonSend,
       Read, TakeReply, SeeClosed, SeeCancelled, BootstrapTimeout, CancelContext,
       Watch, WatcherSeesClosed, WatcherSeesCancel, WatcherCloses

\* Every step keeps TypeInv.
LEMMA TypeInductive ==
  ASSUME TypeInv, [Next]_vars
  PROVE  TypeInv'
<1>1. ASSUME NEW r \in Requests,
             \/ RegisterPending(r) \/ Send(r) \/ Read(r) \/ BootstrapTimeout(r)
             \/ CancelContext(r) \/ Watch(r)
      PROVE  TypeInv'
  <2>1. SessionTypeOK'
    BY <1>1, SendType, TakeReplyType, ReturnType, WatchType DEF Read, TypeInv
  <2>2. ReadHasRequest' /\ CleanHasRequest'
    BY <1>1, RequestFrame DEF TypeInv, ReadHasRequest, CleanHasRequest, readVars, cleanVars
  <2> QED
    BY <2>1, <2>2 DEF TypeInv
<1>2. CASE UNCHANGED vars
  BY <1>2 DEF TypeInv, SessionTypeOK, ReadHasRequest, CleanHasRequest,
              vars, slotVars, callVars, readVars, cleanVars
<1> QED
  BY <1>1, <1>2, ReadLoopType, CleanupType DEF Next

\* Every channel begins empty.
LEMMA InitType ==
  ASSUME Init
  PROVE  TypeInv
<1>1. <<>> \in Seq(Msg) /\ Len(<<>>) = 0 /\ 0 <= Capacity /\ 0 \in 0 .. MaxMsgs
  BY Constants
<1> DEFINE empty == <<>>
<1>2. empty \in Seq(Msg) /\ Len(empty) <= Capacity
  BY <1>1
<1>3. buf = [r \in Requests |-> empty] /\ taken = [r \in Requests |-> empty]
  BY DEF Init
<1> HIDE DEF empty
<1>4. /\ buf \in [Requests -> Seq(Msg)]
      /\ \A r \in Requests : Len(buf[r]) <= Capacity
      /\ taken \in [Requests -> Seq(Msg)]
  BY <1>2, <1>3
<1>5. arrived \in [Requests -> 0 .. MaxMsgs] /\ readMsg \in Msg
  BY <1>1, Constants DEF Init
<1> QED
  BY <1>4, <1>5 DEF Init, TypeInv, SessionTypeOK, ReadHasRequest, CleanHasRequest

\* Every variable keeps its type; no reply channel holds more than its capacity.
THEOREM TypeCorrect == Spec => []SessionTypeOK
<1>1. Init => TypeInv
  BY InitType
<1>2. TypeInv /\ [Next]_vars => TypeInv'
  BY TypeInductive
<1>3. TypeInv => SessionTypeOK
  BY DEF TypeInv
<1> QED
  BY <1>1, <1>2, <1>3, PTL DEF Spec

-----------------------------------------------------------------------------
(***************************************************************************)
(* Orphans.  NoOrphanedCaller rests on the order in cleanup: closed is set *)
(* before the harvest, so whoever registers after it finds the session     *)
(* closed when it sends.                                                   *)
(***************************************************************************)

ClosedFirst == cleanPc # "none" => closed

OrphanInv == NoOrphanedCaller /\ ClosedFirst

\* Every step keeps OrphanInv.
LEMMA OrphanInductive ==
  ASSUME TypeInv, OrphanInv, [Next]_vars
  PROVE  OrphanInv'
<1> USE DEF OrphanInv, NoOrphanedCaller, ClosedFirst, slotVars, callVars, readVars, cleanVars
<1>t. SessionTypeOK
  BY DEF TypeInv
<1>1. ASSUME NEW r \in Requests, RegisterPending(r) \/ Send(r)
      PROVE  OrphanInv'
  <2>1. CASE RegisterPending(r)
    BY <2>1, <1>t DEF RegisterPending, SessionTypeOK
  <2>2. CASE CheckSend(r)
    BY <2>2, <1>t DEF CheckSend, MaySend, SessionTypeOK
  <2>3. CASE WriteRequest(r) \/ WriteFails(r) \/ StartWatcher(r) \/ AbandonSend(r)
    BY <2>3, <1>t DEF WriteRequest, WriteFails, StartWatcher, AbandonSend, SessionTypeOK
  <2> QED
    BY <1>1, <2>1, <2>2, <2>3 DEF Send
<1>2. ASSUME NEW r \in Requests,
             Read(r) \/ BootstrapTimeout(r) \/ CancelContext(r) \/ Watch(r)
      PROVE  OrphanInv'
  <2>1. /\ pending' \subseteq pending
        /\ UNCHANGED cleanVars
        /\ \A q \in Requests : caller'[q] = caller[q] \/ caller[q] = "reading"
    BY <1>2, <1>t
    DEF Read, TakeReply, SeeClosed, SeeCancelled, BootstrapTimeout, Return, CancelContext,
        Watch, WatcherSeesClosed, WatcherSeesCancel, WatcherCloses, SessionTypeOK
  <2> QED
    BY <2>1, <1>t DEF SessionTypeOK
<1>3. CASE \E r \in Requests, kind \in Kinds : Dispatch(r, kind)
  BY <1>3 DEF Dispatch
<1>4. CASE ReadLoop
  BY <1>4 DEF ReadLoop, DispatchOffers, DispatchCloses
<1>5. CASE OtherCleanup \/ ReadFails
  BY <1>5 DEF OtherCleanup, ReadFails, BeginCleanup
<1>6. CASE Cleanup
  BY <1>6 DEF Cleanup, Harvest, Notify, CloseHarvested, EndCleanup
<1>7. CASE UNCHANGED vars
  BY <1>7 DEF vars
<1> QED
  BY <1>1, <1>2, <1>3, <1>4, <1>5, <1>6, <1>7 DEF Next

\* After the harvest nobody who waits for a reply is left in the map.
THEOREM NoOrphan == Spec => []NoOrphanedCaller
<1>1. Init => TypeInv /\ OrphanInv
  BY InitType DEF Init, OrphanInv, NoOrphanedCaller, ClosedFirst
<1>2. TypeInv /\ OrphanInv /\ [Next]_vars => (TypeInv /\ OrphanInv)'
  BY TypeInductive, OrphanInductive
<1>3. OrphanInv => NoOrphanedCaller
  BY DEF OrphanInv
<1> QED
  BY <1>1, <1>2, <1>3, PTL DEF Spec

-----------------------------------------------------------------------------
(* A closed channel. *)

\* What one step may do to a reply channel: see NoSendOnClosedReply.
ChannelStep ==
  \A r \in Requests : chClosed[r] => Len(buf'[r]) <= Len(buf[r]) /\ chClosed'[r]

\* trySend leaves a closed channel alone, and no other.
LEMMA TrySendClosed ==
  ASSUME SessionTypeOK, NEW r \in Requests, NEW m, TrySend(r, m), UNCHANGED chClosed
  PROVE  ChannelStep
<1> SUFFICES ASSUME NEW q \in Requests, chClosed[q]
             PROVE  buf'[q] = buf[q] /\ Len(buf[q]) \in Nat
  BY DEF ChannelStep
<1> QED
  BY DEF TrySend, SessionTypeOK

\* A channel grows through TrySend only, which looks whether it is closed.
LEMMA ChannelStepHolds ==
  ASSUME TypeInv, Next
  PROVE  ChannelStep
<1> USE DEF slotVars
<1>t. SessionTypeOK /\ \A q \in Requests : Len(buf[q]) \in Nat
  BY DEF TypeInv, SessionTypeOK
<1>1. CASE UNCHANGED <<buf, chClosed>>
  BY <1>1, <1>t DEF ChannelStep
<1>2. ASSUME NEW r \in Requests, UNCHANGED buf, CloseReply(r)
      PROVE  ChannelStep
  BY <1>2, <1>t DEF ChannelStep, CloseReply, SessionTypeOK
<1>3. ASSUME NEW r \in Requests, TakeReply(r)
      PROVE  ChannelStep
  <2>1. buf[r] \in Seq(Msg) /\ buf[r] # <<>>
    BY <1>3, <1>t DEF TakeReply, SessionTypeOK
  <2>2. Len(Tail(buf[r])) <= Len(buf[r])
    BY <2>1
  <2>3. buf' = [buf EXCEPT ![r] = Tail(buf[r])] /\ UNCHANGED chClosed
    BY <1>3 DEF TakeReply
  <2> QED
    BY <2>2, <2>3, <1>t DEF ChannelStep, SessionTypeOK
<1>4. CASE DispatchOffers
  BY <1>4, <1>t, TrySendClosed DEF DispatchOffers, TypeInv, ReadHasRequest
<1>5. ASSUME NEW r \in Requests, Notify(r)
      PROVE  ChannelStep
  BY <1>5, <1>t, TrySendClosed DEF Notify
<1>6. ASSUME NEW r \in Requests, Send(r) \/ Watch(r)
      PROVE  ChannelStep
  BY <1>1, <1>2, <1>6
  DEF Send, CheckSend, WriteRequest, WriteFails, StartWatcher, AbandonSend,
      Watch, WatcherSeesClosed, WatcherSeesCancel, WatcherCloses
<1>7. ASSUME NEW r \in Requests,
             RegisterPending(r) \/ SeeClosed(r) \/ SeeCancelled(r) \/ BootstrapTimeout(r) \/ CancelContext(r)
      PROVE  ChannelStep
  BY <1>1, <1>7 DEF RegisterPending, SeeClosed, SeeCancelled, BootstrapTimeout, CancelContext
<1>8. CASE \E r \in Requests, kind \in Kinds : Dispatch(r, kind)
  BY <1>1, <1>8 DEF Dispatch
<1>9. CASE DispatchCloses \/ CloseHarvested
  BY <1>2, <1>9 DEF DispatchCloses, CloseHarvested, TypeInv, ReadHasRequest, CleanHasRequest
<1>10. CASE OtherCleanup \/ ReadFails \/ Harvest \/ EndCleanup
  BY <1>1, <1>10 DEF OtherCleanup, ReadFails, BeginCleanup, Harvest, EndCleanup
<1> QED
  BY <1>3, <1>4, <1>5, <1>6, <1>7, <1>8, <1>9, <1>10 DEF Next, Read, ReadLoop, Cleanup

\* A closed reply channel stays closed and takes in nothing more.
THEOREM ClosedReplyTakesNothing == Spec => NoSendOnClosedReply
<1>1. Init => TypeInv
  BY InitType
<1>2. TypeInv /\ [Next]_vars => TypeInv'
  BY TypeInductive
<1>3. TypeInv /\ [Next]_vars => [ChannelStep]_vars
  BY ChannelStepHolds
<1> QED
  BY <1>1, <1>2, <1>3, PTL DEF Spec, NoSendOnClosedReply, ChannelStep

-----------------------------------------------------------------------------
(***************************************************************************)
(* One terminal message.  The right to end a reply is with the entry in    *)
(* the map, or with the read loop about to offer a terminal message, or    *)
(* with cleanup that has harvested the entry, never with two of them; and  *)
(* as long as one of them has it, no terminal message has gone out.        *)
(***************************************************************************)

Seen(r) == taken[r] \o buf[r]

NoTerminal(s) == \A i \in DOMAIN s : ~Terminal(s[i])

AtMostOne(s) == \A i, j \in DOMAIN s : Terminal(s[i]) /\ Terminal(s[j]) => i = j

ReadEnds(r) == readPc = "offer" /\ readReq = r /\ Terminal(readMsg)

MayEnd(r) == r \in pending \/ ReadEnds(r) \/ r \in harvest

OneRight ==
  \A r \in Requests :
    /\ ~(r \in pending /\ ReadEnds(r))
    /\ ~(r \in pending /\ r \in harvest)
    /\ ~(ReadEnds(r) /\ r \in harvest)

IdleUntouched == \A r \in Requests : caller[r] = "idle" => ~MayEnd(r) /\ NoTerminal(Seen(r))

RightMeansOpen == \A r \in Requests : MayEnd(r) => NoTerminal(Seen(r))

NeverTwo == \A r \in Requests : AtMostOne(Seen(r))

EndInv == OneRight /\ IdleUntouched /\ RightMeansOpen /\ NeverTwo

\* What one more message does to the terminal messages of a sequence.
LEMMA AppendTerminal ==
  ASSUME NEW s \in Seq(Msg), NEW m \in Msg
  PROVE  /\ NoTerminal(s) => AtMostOne(s) /\ AtMostOne(Append(s, m))
         /\ ~Terminal(m) /\ NoTerminal(s) => NoTerminal(Append(s, m))
         /\ ~Terminal(m) /\ AtMostOne(s) => AtMostOne(Append(s, m))
<1>1. /\ Len(s) \in Nat /\ DOMAIN s = 1 .. Len(s)
      /\ DOMAIN Append(s, m) = 1 .. Len(s) + 1
      /\ Append(s, m)[Len(s) + 1] = m
      /\ \A i \in 1 .. Len(s) : Append(s, m)[i] = s[i]
  OBVIOUS
<1>2. \A i \in 1 .. Len(s) + 1 : i \in 1 .. Len(s) \/ i = Len(s) + 1
  BY <1>1
<1> DEFINE t == Append(s, m)
<1> HIDE DEF t
<1>3. NoTerminal(s) => AtMostOne(s)
  BY DEF NoTerminal, AtMostOne
<1>4. /\ DOMAIN t = 1 .. Len(s) + 1 /\ t[Len(s) + 1] = m
      /\ \A i \in 1 .. Len(s) : t[i] = s[i]
  BY <1>1 DEF t
<1>5. /\ NoTerminal(s) => AtMostOne(t)
      /\ ~Terminal(m) /\ NoTerminal(s) => NoTerminal(t)
      /\ ~Terminal(m) /\ AtMostOne(s) => AtMostOne(t)
  BY <1>1, <1>2, <1>4 DEF NoTerminal, AtMostOne
<1> QED
  BY <1>3, <1>5 DEF t

\* Appending to the channel appends to what is seen; taking from it changes nothing.
LEMMA SeenSequences ==
  ASSUME NEW s \in Seq(Msg), NEW t \in Seq(Msg), NEW m \in Msg
  PROVE  /\ s \o t \in Seq(Msg)
         /\ s \o Append(t, m) = Append(s \o t, m)
         /\ t # <<>> => Append(s, Head(t)) \o Tail(t) = s \o t
<1>1. s \o t \in Seq(Msg) /\ s \o Append(t, m) = Append(s \o t, m)
  OBVIOUS
<1>2. ASSUME t # <<>>
      PROVE  Append(s, Head(t)) \o Tail(t) = s \o t
  BY <1>2
<1> QED
  BY <1>1, <1>2

\* After a trySend of m to r, what is seen of r has grown by m or not at all.
LEMMA TrySendSeen ==
  ASSUME SessionTypeOK, NEW r \in Requests, NEW m \in Msg, TrySend(r, m), UNCHANGED taken
  PROVE  /\ \A q \in Requests : Seen(q) \in Seq(Msg)
         /\ Seen(r)' = Seen(r) \/ Seen(r)' = Append(Seen(r), m)
         /\ \A q \in Requests : q # r => Seen(q)' = Seen(q)
<1>1. \A q \in Requests : taken[q] \in Seq(Msg) /\ buf[q] \in Seq(Msg)
  BY DEF SessionTypeOK
<1>2. \A q \in Requests : Seen(q) \in Seq(Msg)
  BY <1>1, SeenSequences DEF Seen
<1>3. buf'[r] = buf[r] \/ buf'[r] = Append(buf[r], m)
  BY DEF TrySend, SessionTypeOK
<1>4. Seen(r)' = Seen(r) \/ Seen(r)' = Append(Seen(r), m)
  <2>1. taken[r] \o Append(buf[r], m) = Append(taken[r] \o buf[r], m)
    BY <1>1, SeenSequences
  <2>2. Seen(r)' = taken[r] \o buf'[r]
    BY DEF Seen
  <2> QED
    BY <1>3, <2>1, <2>2 DEF Seen
<1>5. \A q \in Requests : q # r => buf'[q] = buf[q]
  BY DEF TrySend, SessionTypeOK
<1> QED
  BY <1>2, <1>4, <1>5 DEF Seen

\* A step that shows no new message and gives nobody a right is harmless.
LEMMA EndFrame ==
  ASSUME EndInv,
         \A r \in Requests : Seen(r)' = Seen(r),
         \A r \in Requests : caller'[r] = "idle" => caller[r] = "idle",
         \A r \in Requests : r \in pending' => r \in pending,
         \A r \in Requests : ReadEnds(r)' => ReadEnds(r),
         \A r \in Requests : r \in harvest' => r \in harvest
  PROVE  EndInv'
<1>1. \A r \in Requests : MayEnd(r)' => MayEnd(r)
  BY DEF MayEnd
<1>2. OneRight'
  BY DEF EndInv, OneRight
<1>3. IdleUntouched'
  BY <1>1 DEF EndInv, IdleUntouched, NoTerminal
<1>4. RightMeansOpen'
  BY <1>1 DEF EndInv, RightMeansOpen, NoTerminal
<1>5. NeverTwo'
  BY DEF EndInv, NeverTwo, AtMostOne
<1> QED
  BY <1>2, <1>3, <1>4, <1>5 DEF EndInv

\* Who offers m to r takes part in the right only for a terminal m, and then gives it up.
LEMMA EndOffer ==
  ASSUME SessionTypeOK, EndInv, NEW r \in Requests, NEW m \in Msg,
         TrySend(r, m), UNCHANGED <<taken, caller, pending>>,
         Terminal(m) => MayEnd(r) /\ ~MayEnd(r)',
         \A q \in Requests : ReadEnds(q)' => ReadEnds(q),
         \A q \in Requests : q \in harvest' => q \in harvest
  PROVE  EndInv'
<1>1. /\ \A q \in Requests : Seen(q) \in Seq(Msg)
      /\ Seen(r)' = Seen(r) \/ Seen(r)' = Append(Seen(r), m)
      /\ \A q \in Requests : q # r => Seen(q)' = Seen(q)
  BY TrySendSeen
<1>2. \A q \in Requests : MayEnd(q)' => MayEnd(q)
  BY DEF MayEnd
<1>3. OneRight'
  BY DEF EndInv, OneRight
<1>4. IdleUntouched'
  <2>1. caller[r] = "idle" => NoTerminal(Seen(r)')
    BY <1>1, AppendTerminal DEF EndInv, IdleUntouched
  <2> QED
    BY <1>1, <1>2, <2>1 DEF EndInv, IdleUntouched, NoTerminal
<1>5. MayEnd(r)' => NoTerminal(Seen(r)')
  BY <1>1, <1>2, AppendTerminal DEF EndInv, RightMeansOpen
<1>6. RightMeansOpen'
  BY <1>1, <1>2, <1>5 DEF EndInv, RightMeansOpen, NoTerminal
<1>7. AtMostOne(Seen(r)')
  BY <1>1, AppendTerminal DEF EndInv, RightMeansOpen, NeverTwo
<1>8. NeverTwo'
  BY <1>1, <1>7 DEF EndInv, NeverTwo, AtMostOne
<1> QED
  BY <1>3, <1>4, <1>6, <1>8 DEF EndInv

\* The caller takes what it sees from the channel; the others show it nothing new.
LEMMA SeenKept ==
  ASSUME TypeInv, NEW r \in Requests,
         Send(r) \/ Read(r) \/ BootstrapTimeout(r) \/ CancelContext(r) \/ Watch(r)
  PROVE  \A q \in Requests : Seen(q)' = Seen(q)
<1>t. SessionTypeOK
  BY DEF TypeInv
<1>1. CASE TakeReply(r)
  <2>1. buf[r] \in Seq(Msg) /\ buf[r] # <<>> /\ taken[r] \in Seq(Msg)
    BY <1>t, <1>1 DEF TakeReply, SessionTypeOK
  <2>2. Head(buf[r]) \in Msg
    BY <2>1
  <2>3. Append(taken[r], Head(buf[r])) \o Tail(buf[r]) = taken[r] \o buf[r]
    BY <2>1, <2>2, SeenSequences
  <2>4. /\ buf' = [buf EXCEPT ![r] = Tail(buf[r])]
        /\ taken' = [taken EXCEPT ![r] = Append(taken[r], Head(buf[r]))]
    BY <1>1 DEF TakeReply
  <2> QED
    BY <1>t, <2>3, <2>4 DEF Seen, SessionTypeOK
<1>2. CASE ~TakeReply(r)
  <2>1. UNCHANGED <<buf, taken>>
    BY <1>2
    DEF Send, CheckSend, WriteRequest, WriteFails, StartWatcher, AbandonSend,
        Read, SeeClosed, SeeCancelled, BootstrapTimeout, CancelContext,
        Watch, WatcherSeesClosed, WatcherSeesCancel, WatcherCloses, slotVars, callVars
  <2> QED
    BY <2>1 DEF Seen
<1> QED
  BY <1>1, <1>2

\* The caller, the watcher and the context: they only take the right away.
LEMMA EndRequest ==
  ASSUME TypeInv, EndInv, NEW r \in Requests,
         Send(r) \/ Read(r) \/ BootstrapTimeout(r) \/ CancelContext(r) \/ Watch(r)
  PROVE  EndInv'
<1>t. SessionTypeOK
  BY DEF TypeInv
<1>1. UNCHANGED <<readVars, cleanVars>>
  BY RequestFrame
<1>2. /\ \A q \in Requests : q \in pending' => q \in pending
      /\ \A q \in Requests : caller'[q] = "idle" => caller[q] = "idle"
  BY <1>t
  DEF Send, CheckSend, WriteRequest, WriteFails, StartWatcher, AbandonSend,
      Read, TakeReply, SeeClosed, SeeCancelled, BootstrapTimeout, Return, CancelContext,
      Watch, WatcherSeesClosed, WatcherSeesCancel, WatcherCloses, slotVars, callVars, SessionTypeOK
<1>3. \A q \in Requests : Seen(q)' = Seen(q)
  BY SeenKept
<1> QED
  BY <1>1, <1>2, <1>3, EndFrame DEF ReadEnds, readVars, cleanVars

\* A request that registers has met nobody yet.
LEMMA EndRegister ==
  ASSUME TypeInv, EndInv, NEW r \in Requests, RegisterPending(r)
  PROVE  EndInv'
<1>1. /\ caller[r] = "idle" /\ caller' = [caller EXCEPT ![r] = "registered"]
      /\ pending' = pending \cup {r}
      /\ UNCHANGED <<readPc, readReq, readMsg, harvest>>
      /\ \A q \in Requests : Seen(q)' = Seen(q)
  BY DEF RegisterPending, slotVars, readVars, cleanVars, Seen
<1>2. \A q \in Requests : ReadEnds(q)' <=> ReadEnds(q)
  BY <1>1 DEF ReadEnds
<1>3. ~MayEnd(r) /\ NoTerminal(Seen(r))
  BY <1>1 DEF EndInv, IdleUntouched
<1>4. \A q \in Requests : q # r => (MayEnd(q)' <=> MayEnd(q))
  BY <1>1, <1>2 DEF MayEnd
<1>5. OneRight'
  BY <1>1, <1>2, <1>3 DEF EndInv, OneRight, MayEnd
<1>6. IdleUntouched'
  BY <1>1, <1>4 DEF EndInv, IdleUntouched, NoTerminal, TypeInv, SessionTypeOK
<1>7. RightMeansOpen'
  BY <1>1, <1>3, <1>4 DEF EndInv, RightMeansOpen, NoTerminal
<1>8. NeverTwo'
  BY <1>1 DEF EndInv, NeverTwo, AtMostOne
<1> QED
  BY <1>5, <1>6, <1>7, <1>8 DEF EndInv

\* Dispatch hands the right from the map to the read loop, for a terminal message only.
LEMMA EndDispatch ==
  ASSUME TypeInv, EndInv, NEW r \in Requests, NEW kind \in Kinds, Dispatch(r, kind)
  PROVE  EndInv'
<1>1. /\ readPc = "read" /\ UNCHANGED <<caller, harvest>>
      /\ \A q \in Requests : Seen(q)' = Seen(q)
      /\ \A q \in Requests : ~ReadEnds(q)
  BY DEF Dispatch, slotVars, callVars, cleanVars, Seen, ReadEnds
<1>2. /\ \A q \in Requests : q \in pending' => q \in pending
      /\ \A q \in Requests : ReadEnds(q)' => q \in pending /\ q \notin pending'
  BY <1>1 DEF Dispatch, readVars, ReadEnds, Terminal
<1>3. \A q \in Requests : MayEnd(q)' => MayEnd(q)
  BY <1>1, <1>2 DEF MayEnd
<1>4. OneRight'
  BY <1>1, <1>2 DEF EndInv, OneRight
<1>5. IdleUntouched'
  BY <1>1, <1>3 DEF EndInv, IdleUntouched, NoTerminal
<1>6. RightMeansOpen'
  BY <1>1, <1>3 DEF EndInv, RightMeansOpen, NoTerminal
<1>7. NeverTwo'
  BY <1>1 DEF EndInv, NeverTwo, AtMostOne
<1> QED
  BY <1>4, <1>5, <1>6, <1>7 DEF EndInv

\* The read loop offers what it took out of the map, once.
LEMMA EndReadLoop ==
  ASSUME TypeInv, EndInv, ReadLoop
  PROVE  EndInv'
<1>1. CASE DispatchOffers
  <2>0. PICK r \in Requests, m \in Msg : r = readReq /\ m = readMsg
    BY <1>1 DEF TypeInv, ReadHasRequest, SessionTypeOK, DispatchOffers
  <2>1. SessionTypeOK /\ TrySend(r, m) /\ UNCHANGED <<taken, caller, pending, harvest>>
    BY <1>1, <2>0 DEF TypeInv, DispatchOffers, TrySend, callVars, cleanVars
  <2>2. \A q \in Requests : ~ReadEnds(q)'
    BY <1>1 DEF DispatchOffers, ReadEnds
  <2>3. Terminal(m) => MayEnd(r) /\ ~MayEnd(r)'
    BY <1>1, <2>0, <2>1, <2>2 DEF DispatchOffers, MayEnd, ReadEnds, EndInv, OneRight
  <2> QED
    BY <2>1, <2>2, <2>3, EndOffer
<1>2. CASE DispatchCloses
  <2>1. /\ UNCHANGED <<caller, pending, harvest>>
        /\ \A q \in Requests : Seen(q)' = Seen(q)
        /\ \A q \in Requests : ~ReadEnds(q)'
    BY <1>2 DEF DispatchCloses, callVars, cleanVars, Seen, ReadEnds
  <2> QED
    BY <2>1, EndFrame
<1> QED
  BY <1>1, <1>2 DEF ReadLoop

\* Cleanup takes the rights in the map over, and uses each once.
LEMMA EndCleanupSteps ==
  ASSUME TypeInv, EndInv, OtherCleanup \/ ReadFails \/ Cleanup \/ UNCHANGED vars
  PROVE  EndInv'
<1>1. CASE OtherCleanup \/ ReadFails \/ CloseHarvested \/ EndCleanup \/ UNCHANGED vars
  <2>1. /\ UNCHANGED <<caller, pending, harvest>>
        /\ \A q \in Requests : Seen(q)' = Seen(q)
        /\ \A q \in Requests : ReadEnds(q)' => ReadEnds(q)
    BY <1>1
    DEF OtherCleanup, ReadFails, BeginCleanup, CloseHarvested, EndCleanup, Seen, ReadEnds,
        vars, slotVars, callVars, readVars, cleanVars
  <2> QED
    BY <2>1, EndFrame
<1>2. CASE Harvest
  <2>1. /\ harvest' = pending /\ pending' = {}
        /\ UNCHANGED caller
        /\ \A q \in Requests : Seen(q)' = Seen(q)
        /\ \A q \in Requests : ReadEnds(q)' <=> ReadEnds(q)
    BY <1>2 DEF Harvest, Seen, ReadEnds, slotVars, callVars, readVars
  <2>2. \A q \in Requests : MayEnd(q)' => MayEnd(q)
    BY <2>1 DEF MayEnd
  <2>3. OneRight'
    BY <2>1 DEF EndInv, OneRight
  <2>4. IdleUntouched' /\ RightMeansOpen' /\ NeverTwo'
    BY <2>1, <2>2 DEF EndInv, IdleUntouched, RightMeansOpen, NeverTwo, NoTerminal, AtMostOne
  <2> QED
    BY <2>3, <2>4 DEF EndInv
<1>3. ASSUME NEW r \in Requests, Notify(r)
      PROVE  EndInv'
  <2>1. /\ r \in harvest /\ harvest' = harvest \ {r}
        /\ TrySend(r, SessionError)
        /\ UNCHANGED <<taken, caller, pending>>
        /\ \A q \in Requests : ReadEnds(q)' <=> ReadEnds(q)
    BY <1>3 DEF Notify, callVars, readVars, ReadEnds
  <2>2. MayEnd(r) /\ ~MayEnd(r)'
    BY <2>1 DEF MayEnd, EndInv, OneRight
  <2> QED
    BY <2>1, <2>2, Constants, EndOffer DEF TypeInv
<1> QED
  BY <1>1, <1>2, <1>3 DEF Cleanup

\* At the start nothing is seen and nobody may end anything.
LEMMA EndInit ==
  ASSUME Init
  PROVE  EndInv
<1>1. \A r \in Requests : Seen(r) = <<>>
  BY DEF Init, Seen
<1>2. \A r \in Requests : ~MayEnd(r)
  BY DEF Init, MayEnd, ReadEnds
<1>3. NoTerminal(<<>>) /\ AtMostOne(<<>>)
  BY DEF NoTerminal, AtMostOne
<1> QED
  BY <1>1, <1>2, <1>3
  DEF EndInv, OneRight, MayEnd, IdleUntouched, RightMeansOpen, NeverTwo

\* Every step keeps EndInv.
LEMMA EndInductive ==
  ASSUME TypeInv, EndInv, [Next]_vars
  PROVE  EndInv'
BY EndRequest, EndRegister, EndDispatch, EndReadLoop, EndCleanupSteps DEF Next

\* At most one terminal message ever enters the reply channel of a request.
THEOREM OneTerminal == Spec => []OneTerminalPerReply
<1>1. Init => TypeInv /\ EndInv
  BY InitType, EndInit
<1>2. TypeInv /\ EndInv /\ [Next]_vars => (TypeInv /\ EndInv)'
  BY TypeInductive, EndInductive
<1>3. EndInv => OneTerminalPerReply
  BY DEF EndInv, NeverTwo, AtMostOne, Seen, OneTerminalPerReply
<1> QED
  BY <1>1, <1>2, <1>3, PTL DEF Spec

-----------------------------------------------------------------------------
(***************************************************************************)
(* Completeness.  What the caller sees are the provider's messages from    *)
(* the first on, as long as none was lost and cleanup has put in no error  *)
(* of its own.  That a message continues them when it is offered is known  *)
(* because the read loop offers one before it reads the next, and because  *)
(* a request in the map has been offered all that has arrived.             *)
(***************************************************************************)

OnlyProviders(s) == \A i \in DOMAIN s : s[i].n # 0

FromTheFirst(s) == \A i \in DOMAIN s : s[i].n = i

IsError(m) == m.n = 0 => m.kind = "error"

OnlyErrorsAdded(s) == \A i \in DOMAIN s : IsError(s[i])

Offering(r) == readPc = "offer" /\ readReq = r

Whole(r) == ~lost[r] /\ OnlyProviders(Seen(r))

UnaskedIsUnanswered ==
  \A r \in Requests : caller[r] = "idle" => arrived[r] = 0 /\ Seen(r) = <<>> /\ ~Offering(r)

CleanupAddsErrors ==
  /\ \A r \in Requests : OnlyErrorsAdded(Seen(r))
  /\ IsError(readMsg)

WholeIsInOrder == \A r \in Requests : Whole(r) => FromTheFirst(Seen(r))

OfferContinues ==
  \A r \in Requests :
    Whole(r) /\ ~chClosed[r] /\ Offering(r) =>
      readMsg.n = Len(Seen(r)) + 1 /\ arrived[r] = readMsg.n

PendingHasAll ==
  \A r \in Requests :
    Whole(r) /\ ~chClosed[r] /\ r \in pending /\ ~Offering(r) => arrived[r] = Len(Seen(r))

EndWasTaken ==
  \A r \in Requests : outcome[r] = "end" => \E i \in DOMAIN taken[r] : taken[r][i].kind = "end"

OrderInv ==
  /\ UnaskedIsUnanswered /\ CleanupAddsErrors /\ WholeIsInOrder
  /\ OfferContinues /\ PendingHasAll /\ EndWasTaken

\* What one more message does to the order of a sequence.
LEMMA AppendOrder ==
  ASSUME NEW s \in Seq(Msg), NEW m \in Msg
  PROVE  /\ OnlyProviders(Append(s, m)) => OnlyProviders(s) /\ m.n # 0
         /\ FromTheFirst(s) /\ m.n = Len(s) + 1 => FromTheFirst(Append(s, m))
         /\ OnlyErrorsAdded(s) /\ IsError(m) => OnlyErrorsAdded(Append(s, m))
         /\ Len(Append(s, m)) = Len(s) + 1
<1>1. /\ Len(s) \in Nat /\ DOMAIN s = 1 .. Len(s)
      /\ DOMAIN Append(s, m) = 1 .. Len(s) + 1
      /\ Append(s, m)[Len(s) + 1] = m
      /\ \A i \in 1 .. Len(s) : Append(s, m)[i] = s[i]
      /\ Len(Append(s, m)) = Len(s) + 1
  OBVIOUS
<1>2. \A i \in 1 .. Len(s) + 1 : i \in 1 .. Len(s) \/ i = Len(s) + 1
  BY <1>1
<1>3. Len(s) + 1 \in 1 .. Len(s) + 1 /\ \A i \in 1 .. Len(s) : i \in 1 .. Len(s) + 1
  BY <1>1
<1> DEFINE t == Append(s, m)
<1>4. /\ DOMAIN t = 1 .. Len(s) + 1 /\ t[Len(s) + 1] = m
      /\ \A i \in 1 .. Len(s) : t[i] = s[i]
  BY <1>1
<1> HIDE DEF t
<1>5. OnlyProviders(t) => OnlyProviders(s) /\ m.n # 0
  BY <1>1, <1>3, <1>4 DEF OnlyProviders
<1>6. FromTheFirst(s) /\ m.n = Len(s) + 1 => FromTheFirst(t)
  BY <1>1, <1>2, <1>4 DEF FromTheFirst
<1>7. OnlyErrorsAdded(s) /\ IsError(m) => OnlyErrorsAdded(t)
  BY <1>1, <1>2, <1>4 DEF OnlyErrorsAdded
<1> QED
  BY <1>1, <1>5, <1>6, <1>7 DEF t

\* A step that shows no new message, begins no offer and lets no request in is harmless.
LEMMA OrderFrame ==
  ASSUME SessionTypeOK, OrderInv,
         UNCHANGED <<lost, arrived, readReq, readMsg>>,
         readPc' = "offer" => readPc = "offer",
         \A r \in Requests : Offering(r) => Offering(r)' \/ r \notin pending',
         \A r \in Requests : Seen(r)' = Seen(r),
         \A r \in Requests : chClosed[r] => chClosed'[r],
         \A r \in Requests : caller'[r] = "idle" => caller[r] = "idle",
         pending' \subseteq pending,
         EndWasTaken'
  PROVE  OrderInv'
<1>1. \A r \in Requests : (Whole(r)' <=> Whole(r)) /\ (Offering(r)' => Offering(r))
  BY DEF Whole, Offering, OnlyProviders
<1>2. UnaskedIsUnanswered'
  BY <1>1 DEF OrderInv, UnaskedIsUnanswered
<1>3. CleanupAddsErrors'
  BY DEF OrderInv, CleanupAddsErrors, OnlyErrorsAdded, IsError
<1>4. WholeIsInOrder'
  BY <1>1 DEF OrderInv, WholeIsInOrder, FromTheFirst
<1>5. OfferContinues'
  BY <1>1 DEF OrderInv, OfferContinues
<1>6. PendingHasAll'
  BY <1>1 DEF OrderInv, PendingHasAll
<1> QED
  BY <1>2, <1>3, <1>4, <1>5, <1>6 DEF OrderInv

\* After an offer of m to r, r is no longer whole, or closed, or has m as its last.
LEMMA TrySendWhole ==
  ASSUME SessionTypeOK, NEW r \in Requests, NEW m \in Msg, TrySend(r, m), UNCHANGED <<taken, chClosed>>
  PROVE  /\ \A q \in Requests : q # r => Seen(q)' = Seen(q) /\ lost'[q] = lost[q]
         /\ Whole(r)' => Whole(r)
         /\ \/ Seen(r)' = Append(Seen(r), m) /\ ~chClosed[r]
            \/ Seen(r)' = Seen(r) /\ (chClosed'[r] \/ ~Whole(r)')
<1>1. /\ Seen(r) \in Seq(Msg)
      /\ Seen(r)' = Seen(r) \/ Seen(r)' = Append(Seen(r), m)
      /\ \A q \in Requests : q # r => Seen(q)' = Seen(q)
  BY TrySendSeen
<1>2. /\ \A q \in Requests : q # r => lost'[q] = lost[q]
      /\ lost[r] => lost'[r]
  BY DEF TrySend, SessionTypeOK
<1>3. Whole(r)' => Whole(r)
  <2> SUFFICES ASSUME Whole(r)'
               PROVE  OnlyProviders(Seen(r))
    BY <1>2 DEF Whole
  <2>1. OnlyProviders(Seen(r)')
    BY DEF Whole, OnlyProviders
  <2> QED
    BY <1>1, <2>1, AppendOrder
<1>4. CASE ~chClosed[r] /\ Len(buf[r]) < Capacity
  <2>1. taken[r] \in Seq(Msg) /\ buf[r] \in Seq(Msg)
    BY DEF SessionTypeOK
  <2>2. buf'[r] = Append(buf[r], m)
    BY <1>4 DEF TrySend, SessionTypeOK
  <2>3. taken[r] \o Append(buf[r], m) = Append(taken[r] \o buf[r], m)
    BY <2>1, SeenSequences
  <2>4. Seen(r)' = Append(Seen(r), m)
    BY <2>2, <2>3 DEF Seen
  <2> QED
    BY <1>1, <1>2, <1>3, <1>4, <2>4
<1>5. CASE ~(~chClosed[r] /\ Len(buf[r]) < Capacity)
  <2>1. buf' = buf
    BY <1>5 DEF TrySend, SessionTypeOK
  <2>2. ~chClosed[r] => Len(buf[r]) >= Capacity
    <3>1. Len(buf[r]) \in Nat /\ Capacity \in Nat
      BY Constants DEF SessionTypeOK
    <3> QED
      BY <1>5, <3>1
  <2>3. ~chClosed[r] => lost'[r]
    BY <2>2 DEF TrySend, SessionTypeOK
  <2>4. Seen(r)' = Seen(r)
    BY <2>1 DEF Seen
  <2> QED
    BY <1>1, <1>2, <1>3, <2>3, <2>4 DEF Whole
<1> QED
  BY <1>4, <1>5

\* The caller, the watcher and the context.
LEMMA OrderRequest ==
  ASSUME TypeInv, OrderInv, NEW r \in Requests,
         Send(r) \/ Read(r) \/ BootstrapTimeout(r) \/ CancelContext(r) \/ Watch(r)
  PROVE  OrderInv'
<1>t. SessionTypeOK
  BY DEF TypeInv
<1>1. UNCHANGED <<readPc, readReq, readMsg>>
  BY RequestFrame DEF readVars
<1>2. /\ UNCHANGED <<lost, arrived>>
      /\ pending' \subseteq pending
      /\ \A q \in Requests : chClosed[q] => chClosed'[q]
      /\ \A q \in Requests : caller'[q] = "idle" => caller[q] = "idle"
  BY <1>t
  DEF Send, CheckSend, WriteRequest, WriteFails, StartWatcher, AbandonSend, CloseReply,
      Read, TakeReply, SeeClosed, SeeCancelled, BootstrapTimeout, Return, CancelContext,
      Watch, WatcherSeesClosed, WatcherSeesCancel, WatcherCloses, slotVars, callVars, SessionTypeOK
<1>3. \A q \in Requests : Seen(q)' = Seen(q)
  BY SeenKept
<1>4. EndWasTaken'
  <2>1. CASE TakeReply(r)
    <3>1. buf[r] \in Seq(Msg) /\ buf[r] # <<>> /\ taken[r] \in Seq(Msg)
      BY <1>t, <2>1 DEF TakeReply, SessionTypeOK
    <3> DEFINE m == Head(buf[r])
               t == Append(taken[r], m)
    <3>2. m \in Msg
      BY <3>1
    <3>3. /\ DOMAIN t = 1 .. Len(taken[r]) + 1
          /\ t[Len(taken[r]) + 1] = m /\ Len(taken[r]) + 1 \in DOMAIN t
          /\ \A i \in DOMAIN taken[r] : i \in DOMAIN t /\ t[i] = taken[r][i]
      BY <3>1, <3>2
    <3>4. taken' = [taken EXCEPT ![r] = t]
      BY <2>1 DEF TakeReply
    <3>5. \A q \in Requests : outcome'[q] = outcome[q] \/ (q = r /\ outcome'[q] = m.kind)
      BY <1>t, <2>1 DEF TakeReply, Return, SessionTypeOK
    <3> HIDE DEF m, t
    <3>6. \A q \in Requests : q # r => taken'[q] = taken[q]
      BY <1>t, <3>4 DEF SessionTypeOK
    <3>7. taken'[r] = t
      BY <1>t, <3>4 DEF SessionTypeOK
    <3> QED
      BY <3>3, <3>5, <3>6, <3>7 DEF OrderInv, EndWasTaken
  <2>2. CASE ~TakeReply(r)
    <3>1. UNCHANGED taken /\ \A q \in Requests : outcome'[q] = outcome[q] \/ outcome'[q] # "end"
      BY <1>t, <2>2
      DEF Send, CheckSend, WriteRequest, WriteFails, StartWatcher, AbandonSend,
          Read, SeeClosed, SeeCancelled, BootstrapTimeout, Return, CancelContext,
          Watch, WatcherSeesClosed, WatcherSeesCancel, WatcherCloses, callVars, SessionTypeOK
    <3> QED
      BY <3>1 DEF OrderInv, EndWasTaken
  <2> QED
    BY <2>1, <2>2
<1>5. \A q \in Requests : Offering(q)' <=> Offering(q)
  BY <1>1 DEF Offering
<1> QED
  BY <1>t, <1>1, <1>2, <1>3, <1>4, <1>5, OrderFrame

\* A request that registers has been sent nothing.
LEMMA OrderRegister ==
  ASSUME TypeInv, OrderInv, NEW r \in Requests, RegisterPending(r)
  PROVE  OrderInv'
<1>1. /\ caller[r] = "idle" /\ caller' = [caller EXCEPT ![r] = "registered"]
      /\ pending' = pending \cup {r}
      /\ UNCHANGED <<readPc, readReq, readMsg, lost, chClosed, arrived, taken, outcome>>
      /\ \A q \in Requests : Seen(q)' = Seen(q)
  BY DEF RegisterPending, slotVars, readVars, Seen
<1>2. \A q \in Requests : (Whole(q)' <=> Whole(q)) /\ (Offering(q)' <=> Offering(q))
  BY <1>1 DEF Whole, Offering, OnlyProviders
<1>3. arrived[r] = Len(Seen(r))
  BY <1>1 DEF OrderInv, UnaskedIsUnanswered
<1>4. UnaskedIsUnanswered'
  BY <1>1, <1>2 DEF OrderInv, UnaskedIsUnanswered, TypeInv, SessionTypeOK
<1>5. CleanupAddsErrors' /\ EndWasTaken'
  BY <1>1 DEF OrderInv, CleanupAddsErrors, OnlyErrorsAdded, IsError, EndWasTaken
<1>6. WholeIsInOrder' /\ OfferContinues'
  BY <1>1, <1>2 DEF OrderInv, WholeIsInOrder, FromTheFirst, OfferContinues
<1>7. PendingHasAll'
  BY <1>1, <1>2, <1>3 DEF OrderInv, PendingHasAll
<1> QED
  BY <1>4, <1>5, <1>6, <1>7 DEF OrderInv

\* What dispatch is about to offer is the next message after all that was offered before.
LEMMA OrderDispatch ==
  ASSUME TypeInv, OrderInv, NEW r \in Requests, NEW kind \in Kinds, Dispatch(r, kind)
  PROVE  OrderInv'
<1>1. /\ readPc = "read" /\ caller[r] # "idle"
      /\ UNCHANGED <<caller, lost, chClosed, taken, outcome>>
      /\ pending' \subseteq pending
      /\ \A q \in Requests : Seen(q)' = Seen(q)
  BY DEF Dispatch, Answers, slotVars, callVars, Seen
<1>2. /\ arrived'[r] = arrived[r] + 1 /\ arrived[r] \in Nat
      /\ \A q \in Requests : q # r => arrived'[q] = arrived[q]
  BY Constants DEF Dispatch, TypeInv, SessionTypeOK
<1>3. \A q \in Requests : ~Offering(q)
  BY <1>1 DEF Offering
<1>4. \A q \in Requests : Whole(q)' <=> Whole(q)
  BY <1>1 DEF Whole, OnlyProviders
<1>5. \/ /\ r \in pending /\ Offering(r)' /\ readMsg'.n = arrived[r] + 1
         /\ \A q \in Requests : Offering(q)' => q = r
      \/ /\ r \notin pending /\ UNCHANGED readMsg
         /\ \A q \in Requests : ~Offering(q)'
  BY <1>3 DEF Dispatch, Offering, readVars
<1>6. UnaskedIsUnanswered'
  BY <1>1, <1>2, <1>5 DEF OrderInv, UnaskedIsUnanswered
<1>7. CleanupAddsErrors'
  BY <1>1, <1>2, <1>5 DEF OrderInv, CleanupAddsErrors, OnlyErrorsAdded, IsError
<1>8. WholeIsInOrder' /\ EndWasTaken'
  BY <1>1, <1>4 DEF OrderInv, WholeIsInOrder, FromTheFirst, EndWasTaken
<1>9. OfferContinues'
  BY <1>1, <1>2, <1>3, <1>4, <1>5 DEF OrderInv, OfferContinues, PendingHasAll
<1>10. PendingHasAll'
  BY <1>1, <1>2, <1>3, <1>4, <1>5 DEF OrderInv, PendingHasAll
<1> QED
  BY <1>6, <1>7, <1>8, <1>9, <1>10 DEF OrderInv

\* The read loop's offer goes behind what was offered before.
LEMMA OrderOffers ==
  ASSUME TypeInv, OrderInv, DispatchOffers
  PROVE  OrderInv'
<1>t. SessionTypeOK
  BY DEF TypeInv
<1>0. PICK r \in Requests, m \in Msg : r = readReq /\ m = readMsg
  BY DEF TypeInv, ReadHasRequest, SessionTypeOK, DispatchOffers
<1>1. /\ TrySend(r, m) /\ Offering(r)
      /\ UNCHANGED <<taken, outcome, caller, pending, arrived, chClosed, readMsg>>
  BY <1>0 DEF DispatchOffers, TrySend, Offering, callVars
<1>2. /\ \A q \in Requests : q # r => Seen(q)' = Seen(q) /\ lost'[q] = lost[q]
      /\ Whole(r)' => Whole(r)
      /\ \/ Seen(r)' = Append(Seen(r), m) /\ ~chClosed[r]
         \/ Seen(r)' = Seen(r) /\ (chClosed'[r] \/ ~Whole(r)')
  BY <1>t, <1>1, TrySendWhole
<1>3. Seen(r) \in Seq(Msg)
  BY <1>t, <1>1, TrySendSeen
<1>4. \A q \in Requests : ~Offering(q)' /\ (q # r => ~Offering(q))
  BY <1>0 DEF DispatchOffers, Offering
<1>5. \A q \in Requests : q # r => (Whole(q)' <=> Whole(q))
  BY <1>2 DEF Whole, OnlyProviders
<1>6. UnaskedIsUnanswered'
  BY <1>1, <1>2, <1>4 DEF OrderInv, UnaskedIsUnanswered
<1>7. CleanupAddsErrors'
  <2>1. OnlyErrorsAdded(Seen(r)')
    BY <1>0, <1>2, <1>3, AppendOrder DEF OrderInv, CleanupAddsErrors
  <2> QED
    BY <1>1, <1>2, <2>1 DEF OrderInv, CleanupAddsErrors, OnlyErrorsAdded, IsError
<1>8. WholeIsInOrder'
  <2>1. Whole(r)' => FromTheFirst(Seen(r)')
    BY <1>0, <1>1, <1>2, <1>3, AppendOrder DEF OrderInv, WholeIsInOrder, OfferContinues
  <2> QED
    BY <1>2, <1>5, <2>1 DEF OrderInv, WholeIsInOrder, FromTheFirst
<1>9. OfferContinues' /\ EndWasTaken'
  BY <1>1, <1>4 DEF OrderInv, OfferContinues, EndWasTaken
<1>10. PendingHasAll'
  <2>1. Whole(r)' /\ ~chClosed'[r] => arrived[r] = Len(Seen(r)')
    BY <1>0, <1>1, <1>2, <1>3, AppendOrder DEF OrderInv, OfferContinues
  <2> QED
    BY <1>1, <1>2, <1>4, <1>5, <2>1 DEF OrderInv, PendingHasAll
<1> QED
  BY <1>6, <1>7, <1>8, <1>9, <1>10 DEF OrderInv

\* Cleanup's error ends what is whole.
LEMMA OrderNotify ==
  ASSUME TypeInv, EndInv, OrderInv, NEW r \in Requests, Notify(r)
  PROVE  OrderInv'
<1>t. SessionTypeOK
  BY DEF TypeInv
<1>1. /\ TrySend(r, SessionError) /\ r \in harvest
      /\ UNCHANGED <<taken, outcome, caller, pending, arrived, chClosed, readPc, readReq, readMsg>>
  BY DEF Notify, callVars, readVars
<1>2. /\ \A q \in Requests : q # r => Seen(q)' = Seen(q) /\ lost'[q] = lost[q]
      /\ Whole(r)' => Whole(r)
      /\ \/ Seen(r)' = Append(Seen(r), SessionError) /\ ~chClosed[r]
         \/ Seen(r)' = Seen(r) /\ (chClosed'[r] \/ ~Whole(r)')
  BY <1>t, <1>1, Constants, TrySendWhole
<1>3. Seen(r) \in Seq(Msg)
  BY <1>t, <1>1, Constants, TrySendSeen
<1>4. \A q \in Requests : Offering(q)' <=> Offering(q)
  BY <1>1 DEF Offering
<1>5. \A q \in Requests : q # r => (Whole(q)' <=> Whole(q))
  BY <1>2 DEF Whole, OnlyProviders
<1>6. Whole(r)' => Seen(r)' = Seen(r) /\ chClosed'[r]
  <2>1. Seen(r)' = Append(Seen(r), SessionError) => ~OnlyProviders(Seen(r)')
    BY <1>3, Constants, AppendOrder DEF SessionError
  <2>2. Whole(r)' => OnlyProviders(Seen(r)')
    BY DEF Whole, OnlyProviders
  <2> QED
    BY <1>2, <2>1, <2>2
<1>7. UnaskedIsUnanswered'
  <2>1. caller[r] # "idle"
    BY <1>1 DEF EndInv, IdleUntouched, MayEnd
  <2> QED
    BY <1>1, <1>2, <1>4, <2>1 DEF OrderInv, UnaskedIsUnanswered
<1>8. CleanupAddsErrors'
  <2>0. IsError(SessionError)
    BY DEF IsError, SessionError
  <2>1. OnlyErrorsAdded(Seen(r)')
    BY <1>2, <1>3, <2>0, Constants, AppendOrder DEF OrderInv, CleanupAddsErrors
  <2> QED
    BY <1>1, <1>2, <2>1 DEF OrderInv, CleanupAddsErrors, OnlyErrorsAdded, IsError
<1>9. WholeIsInOrder'
  BY <1>2, <1>5, <1>6 DEF OrderInv, WholeIsInOrder, FromTheFirst
<1>10. OfferContinues' /\ PendingHasAll' /\ EndWasTaken'
  BY <1>1, <1>2, <1>4, <1>5, <1>6 DEF OrderInv, OfferContinues, PendingHasAll, EndWasTaken
<1> QED
  BY <1>7, <1>8, <1>9, <1>10 DEF OrderInv

\* Every step keeps OrderInv.
LEMMA OrderInductive ==
  ASSUME TypeInv, EndInv, OrderInv, [Next]_vars
  PROVE  OrderInv'
<1>1. CASE \/ DispatchCloses \/ OtherCleanup \/ ReadFails \/ Harvest
           \/ CloseHarvested \/ EndCleanup \/ UNCHANGED vars
  <2>1. /\ UNCHANGED <<lost, arrived, readReq, readMsg, caller, taken, outcome, buf>>
        /\ pending' \subseteq pending
        /\ readPc' = readPc \/ (readPc # "offer" /\ readPc' # "offer")
    BY <1>1
    DEF DispatchCloses, OtherCleanup, ReadFails, BeginCleanup, Harvest, CloseHarvested, EndCleanup,
        vars, slotVars, callVars, readVars, cleanVars
  <2>2. \A r \in Requests : chClosed[r] => chClosed'[r]
    BY <1>1
    DEF DispatchCloses, OtherCleanup, ReadFails, BeginCleanup, Harvest, CloseHarvested, EndCleanup,
        CloseReply, TypeInv, SessionTypeOK, vars, slotVars, cleanVars
  <2>3. /\ \A r \in Requests : Seen(r)' = Seen(r)
        /\ \A r \in Requests : Offering(r) => Offering(r)'
        /\ EndWasTaken'
    BY <2>1 DEF Seen, Offering, OrderInv, EndWasTaken
  <2> QED
    BY <2>1, <2>2, <2>3, OrderFrame DEF TypeInv
<1> QED
  BY <1>1, OrderRequest, OrderRegister, OrderDispatch, OrderOffers, OrderNotify
  DEF Next, ReadLoop, Cleanup

\* Nothing was asked yet.
LEMMA OrderInit ==
  ASSUME Init
  PROVE  OrderInv
<1>1. \A r \in Requests : Seen(r) = <<>> /\ ~Offering(r)
  BY DEF Init, Seen, Offering
<1>2. FromTheFirst(<<>>) /\ OnlyErrorsAdded(<<>>)
  BY DEF FromTheFirst, OnlyErrorsAdded
<1>3. IsError(readMsg)
  BY DEF Init, IsError, SessionError
<1>4. \A r \in Requests : arrived[r] = 0 /\ outcome[r] # "end" /\ r \notin pending
  BY DEF Init
<1> QED
  BY <1>1, <1>2, <1>3, <1>4
  DEF OrderInv, UnaskedIsUnanswered, CleanupAddsErrors, WholeIsInOrder, OfferContinues,
      PendingHasAll, EndWasTaken

\* What was taken is the beginning of what is seen.
LEMMA TakenFirst ==
  ASSUME NEW s \in Seq(Msg), NEW t \in Seq(Msg), NEW i \in DOMAIN s
  PROVE  i \in DOMAIN (s \o t) /\ (s \o t)[i] = s[i]
<1>1. /\ Len(s) \in Nat /\ Len(t) \in Nat /\ DOMAIN s = 1 .. Len(s)
      /\ s \o t \in Seq(Msg) /\ Len(s \o t) = Len(s) + Len(t)
  OBVIOUS
<1>2. i \in 1 .. Len(s) /\ i \in 1 .. Len(s) + Len(t)
  BY <1>1
<1>3. DOMAIN (s \o t) = 1 .. Len(s) + Len(t)
  BY <1>1
<1>4. (s \o t)[i] = s[i]
  BY <1>2
<1> QED
  BY <1>2, <1>3, <1>4

\* A reply that ends well and of which nothing was lost has every message from the first on.
THEOREM CleanEndsAreComplete == Spec => []CleanEndIsComplete
<1>1. Init => TypeInv /\ EndInv /\ OrderInv
  BY InitType, EndInit, OrderInit
<1>2. TypeInv /\ EndInv /\ OrderInv /\ [Next]_vars => (TypeInv /\ EndInv /\ OrderInv)'
  BY TypeInductive, EndInductive, OrderInductive
<1>3. ASSUME TypeInv, EndInv, OrderInv
      PROVE  CleanEndIsComplete
  <2> SUFFICES ASSUME NEW r \in Requests, outcome[r] = "end", ~lost[r]
               PROVE  \A i \in DOMAIN taken[r] : taken[r][i].n = i
    BY DEF CleanEndIsComplete
  <2>1. taken[r] \in Seq(Msg) /\ buf[r] \in Seq(Msg)
    BY <1>3 DEF TypeInv, SessionTypeOK
  <2>2. \A i \in DOMAIN taken[r] : i \in DOMAIN Seen(r) /\ Seen(r)[i] = taken[r][i]
    BY <2>1, TakenFirst DEF Seen
  <2>3. PICK e \in DOMAIN Seen(r) : Seen(r)[e].kind = "end"
    BY <1>3, <2>2 DEF OrderInv, EndWasTaken
  <2>4. \A i \in DOMAIN Seen(r) : Seen(r)[i].n = 0 => Seen(r)[i].kind = "error"
    BY <1>3 DEF OrderInv, CleanupAddsErrors, OnlyErrorsAdded, IsError
  <2>5. AtMostOne(Seen(r))
    BY <1>3 DEF EndInv, NeverTwo
  <2>6. OnlyProviders(Seen(r))
    <3> SUFFICES ASSUME NEW i \in DOMAIN Seen(r), Seen(r)[i].n = 0
                 PROVE  FALSE
      BY DEF OnlyProviders
    <3>1. Seen(r)[i].kind = "error"
      BY <2>4
    <3>2. i = e
      BY <2>3, <2>5, <3>1 DEF AtMostOne, Terminal
    <3> QED
      BY <2>3, <3>1, <3>2
  <2>7. FromTheFirst(Seen(r))
    BY <1>3, <2>6 DEF OrderInv, WholeIsInOrder, Whole
  <2> QED
    BY <2>2, <2>7 DEF FromTheFirst
<1> QED
  BY <1>1, <1>2, <1>3, PTL DEF Spec

-----------------------------------------------------------------------------
(***************************************************************************)
(* The promise of ReplyStream.  What is seen of a reply has growing        *)
(* numbers, because the read loop offers each message before it reads the  *)
(* next and numbers are given on arrival; only cleanup's error has none.   *)
(* A caller that has not returned has taken no terminal message, and so no *)
(* error of cleanup.                                                       *)
(***************************************************************************)

Growing(s) == \A i, j \in DOMAIN s : i < j => s[j].n = 0 \/ s[i].n < s[j].n

UpTo(s, k) == \A i \in DOMAIN s : s[i].n <= k

SeenGrows == \A r \in Requests : Growing(Seen(r)) /\ UpTo(Seen(r), arrived[r])

OfferIsNew ==
  \A r \in Requests :
    Offering(r) => /\ arrived[r] = readMsg.n /\ readMsg.n > 0
                   /\ UpTo(Seen(r), readMsg.n - 1)

CallGoesOn ==
  \A r \in Requests :
    /\ outcome[r] = "none" <=> caller[r] # "returned"
    /\ outcome[r] = "none" => NoTerminal(taken[r])

PromiseInv == SeenGrows /\ OfferIsNew /\ CallGoesOn

\* A message that is newer than all before it, or has no number, keeps the growth.
LEMMA AppendGrowing ==
  ASSUME NEW s \in Seq(Msg), NEW m \in Msg, NEW k \in Nat, Growing(s),
         m.n = 0 \/ UpTo(s, m.n - 1), UpTo(s, k), m.n <= k
  PROVE  Growing(Append(s, m)) /\ UpTo(Append(s, m), k)
<1>1. /\ Len(s) \in Nat /\ DOMAIN s = 1 .. Len(s)
      /\ DOMAIN Append(s, m) = 1 .. Len(s) + 1
      /\ Append(s, m)[Len(s) + 1] = m
      /\ \A i \in 1 .. Len(s) : Append(s, m)[i] = s[i]
  OBVIOUS
<1>2. \A i \in 1 .. Len(s) : s[i] \in Msg
  BY <1>1
<1>3. m.n \in Nat /\ \A i \in 1 .. Len(s) : s[i].n \in Nat
  BY <1>2, Constants DEF Msg
<1> DEFINE t == Append(s, m)
<1>4. /\ DOMAIN t = 1 .. Len(s) + 1 /\ t[Len(s) + 1] = m
      /\ \A i \in 1 .. Len(s) : t[i] = s[i]
  BY <1>1
<1> HIDE DEF t
<1>5. \A i \in 1 .. Len(s) + 1 : i \in 1 .. Len(s) \/ i = Len(s) + 1
  BY <1>1
<1>6. Growing(t)
  <2> SUFFICES ASSUME NEW i \in DOMAIN t, NEW j \in DOMAIN t, i < j
               PROVE  t[j].n = 0 \/ t[i].n < t[j].n
    BY DEF Growing
  <2>1. i \in 1 .. Len(s)
    BY <1>1, <1>4
  <2>2. CASE j \in 1 .. Len(s)
    BY <1>1, <1>4, <2>1, <2>2 DEF Growing
  <2>3. CASE j = Len(s) + 1
    <3>1. t[i] = s[i] /\ t[j] = m
      BY <1>4, <2>1, <2>3
    <3>2. m.n # 0 => s[i].n <= m.n - 1
      BY <1>1, <2>1 DEF UpTo
    <3> QED
      BY <1>3, <2>1, <3>1, <3>2
  <2> QED
    BY <1>4, <1>5, <2>2, <2>3
<1>7. UpTo(t, k)
  BY <1>1, <1>4, <1>5 DEF UpTo
<1> QED
  BY <1>6, <1>7 DEF t

\* The call itself: it ends once, and goes on only after a message that is not terminal.
LEMMA CallInductive ==
  ASSUME TypeInv, CallGoesOn, [Next]_vars
  PROVE  CallGoesOn'
<1>t. SessionTypeOK
  BY DEF TypeInv
<1>1. ASSUME NEW r \in Requests, TakeReply(r)
      PROVE  CallGoesOn'
  <2> DEFINE m == Head(buf[r])
  <2>1. buf[r] \in Seq(Msg) /\ buf[r] # <<>> /\ taken[r] \in Seq(Msg)
    BY <1>t, <1>1 DEF TakeReply, SessionTypeOK
  <2>2. m \in Msg
    BY <2>1
  <2>3. ~Terminal(m) /\ NoTerminal(taken[r]) => NoTerminal(Append(taken[r], m))
    BY <2>1, <2>2, AppendTerminal
  <2>4. m.kind # "none"
    BY <2>2 DEF Msg, Kinds
  <2>5. /\ caller[r] = "reading"
        /\ taken' = [taken EXCEPT ![r] = Append(taken[r], m)]
        /\ \/ /\ Terminal(m)
              /\ caller' = [caller EXCEPT ![r] = "returned"]
              /\ outcome' = [outcome EXCEPT ![r] = m.kind]
           \/ ~Terminal(m) /\ UNCHANGED <<caller, outcome>>
    BY <1>1 DEF TakeReply, Return
  <2> HIDE DEF m
  <2>6. \A q \in Requests : q # r => taken'[q] = taken[q] /\ caller'[q] = caller[q] /\ outcome'[q] = outcome[q]
    BY <1>t, <2>5 DEF SessionTypeOK
  <2>7. /\ taken'[r] = Append(taken[r], m)
        /\ \/ Terminal(m) /\ caller'[r] = "returned" /\ outcome'[r] = m.kind
           \/ ~Terminal(m) /\ caller'[r] = caller[r] /\ outcome'[r] = outcome[r]
    BY <1>t, <2>5 DEF SessionTypeOK
  <2>8. /\ outcome'[r] = "none" <=> caller'[r] # "returned"
        /\ outcome'[r] = "none" => NoTerminal(taken'[r])
    BY <2>3, <2>4, <2>5, <2>7 DEF CallGoesOn
  <2> QED
    BY <2>6, <2>8 DEF CallGoesOn
<1>2. ASSUME NEW r \in Requests, RegisterPending(r) \/ Send(r) \/ SeeClosed(r) \/ SeeCancelled(r)
                                   \/ BootstrapTimeout(r)
      PROVE  CallGoesOn'
  BY <1>t, <1>2
  DEF RegisterPending, Send, CheckSend, WriteRequest, WriteFails, StartWatcher, AbandonSend,
      SeeClosed, SeeCancelled, BootstrapTimeout, Return, CallGoesOn, SessionTypeOK
<1>3. CASE UNCHANGED callVars
  BY <1>3 DEF CallGoesOn, callVars
<1>4. \/ UNCHANGED callVars
      \/ \E r \in Requests : \/ TakeReply(r) \/ RegisterPending(r) \/ Send(r) \/ SeeClosed(r)
                             \/ SeeCancelled(r) \/ BootstrapTimeout(r)
  BY DEF Next, Read, CancelContext, Watch, WatcherSeesClosed, WatcherSeesCancel, WatcherCloses,
         Dispatch, ReadLoop, DispatchOffers, DispatchCloses, OtherCleanup, ReadFails, BeginCleanup,
         Cleanup, Harvest, Notify, CloseHarvested, EndCleanup, vars
<1> QED
  BY <1>1, <1>2, <1>3, <1>4

\* Every step keeps the growth of what is seen.
LEMMA SeenGrowsInductive ==
  ASSUME TypeInv, SeenGrows, OfferIsNew, [Next]_vars
  PROVE  SeenGrows' /\ OfferIsNew'
<1>t. SessionTypeOK
  BY DEF TypeInv
<1>1. ASSUME \A r \in Requests : Seen(r)' = Seen(r), UNCHANGED <<arrived, readMsg>>,
             \A r \in Requests : Offering(r)' => Offering(r)
      PROVE  SeenGrows' /\ OfferIsNew'
  BY <1>1 DEF SeenGrows, OfferIsNew, Growing, UpTo
<1>2. ASSUME NEW r \in Requests, NEW kind \in Kinds, Dispatch(r, kind)
      PROVE  SeenGrows' /\ OfferIsNew'
  <2>1. /\ \A q \in Requests : Seen(q)' = Seen(q) /\ ~Offering(q)
        /\ \A q \in Requests : Offering(q)' => q = r /\ readMsg'.n = arrived[r] + 1
    BY <1>2 DEF Dispatch, slotVars, callVars, readVars, Seen, Offering
  <2>2. /\ arrived'[r] = arrived[r] + 1 /\ arrived[r] \in Nat
        /\ \A q \in Requests : q # r => arrived'[q] = arrived[q]
    BY <1>2, <1>t, Constants DEF Dispatch, SessionTypeOK
  <2>3. UpTo(Seen(r), arrived[r] + 1)
    <3>1. Seen(r) \in Seq(Msg)
      BY <1>t, SeenSequences DEF Seen, SessionTypeOK
    <3>2. \A i \in DOMAIN Seen(r) : Seen(r)[i] \in Msg
      BY <3>1
    <3>3. \A i \in DOMAIN Seen(r) : Seen(r)[i].n \in Nat
      BY <3>2, Constants DEF Msg
    <3> QED
      BY <2>2, <3>3 DEF SeenGrows, UpTo
  <2>4. SeenGrows'
    BY <2>1, <2>2, <2>3 DEF SeenGrows, Growing, UpTo
  <2>5. OfferIsNew'
    <3>1. UpTo(Seen(r), arrived[r]) /\ (arrived[r] + 1) - 1 = arrived[r]
      BY <2>2 DEF SeenGrows
    <3> QED
      BY <2>1, <2>2, <3>1 DEF OfferIsNew, UpTo
  <2> QED
    BY <2>4, <2>5
<1>3. ASSUME NEW r \in Requests, NEW m \in Msg, TrySend(r, m), UNCHANGED <<taken, arrived>>,
             m.n = 0 \/ (UpTo(Seen(r), m.n - 1) /\ m.n <= arrived[r])
      PROVE  SeenGrows' /\ \A q \in Requests : q # r => Seen(q)' = Seen(q)
  <2>1. /\ \A q \in Requests : Seen(q) \in Seq(Msg)
        /\ Seen(r)' = Seen(r) \/ Seen(r)' = Append(Seen(r), m)
        /\ \A q \in Requests : q # r => Seen(q)' = Seen(q)
    BY <1>t, <1>3, TrySendSeen
  <2>2. arrived[r] \in Nat
    BY <1>t, Constants DEF SessionTypeOK
  <2>3. m.n <= arrived[r]
    BY <1>3, <2>2
  <2>4. Growing(Append(Seen(r), m)) /\ UpTo(Append(Seen(r), m), arrived[r])
    BY <1>3, <2>1, <2>2, <2>3, AppendGrowing DEF SeenGrows
  <2>5. Growing(Seen(r)') /\ UpTo(Seen(r)', arrived[r])
    BY <2>1, <2>4 DEF SeenGrows
  <2> QED
    BY <1>3, <2>1, <2>5 DEF SeenGrows, Growing, UpTo
<1>4. CASE DispatchOffers
  <2>1. PICK r \in Requests, m \in Msg : r = readReq /\ m = readMsg
    BY <1>4 DEF TypeInv, ReadHasRequest, SessionTypeOK, DispatchOffers
  <2>2. /\ TrySend(r, m) /\ Offering(r) /\ UNCHANGED <<taken, arrived>>
        /\ \A q \in Requests : ~Offering(q)'
    BY <1>4, <2>1 DEF DispatchOffers, Offering, callVars
  <2>3. UpTo(Seen(r), m.n - 1) /\ m.n <= arrived[r]
    <3>1. arrived[r] \in Nat
      BY <1>t, Constants DEF SessionTypeOK
    <3> QED
      BY <2>1, <2>2, <3>1 DEF OfferIsNew
  <2> QED
    BY <1>3, <2>2, <2>3 DEF OfferIsNew
<1>5. ASSUME NEW r \in Requests, Notify(r)
      PROVE  SeenGrows' /\ OfferIsNew'
  <2>1. /\ TrySend(r, SessionError) /\ UNCHANGED <<taken, arrived, readPc, readReq, readMsg>>
        /\ SessionError.n = 0
    BY <1>5 DEF Notify, callVars, readVars, SessionError
  <2>2. SeenGrows' /\ \A q \in Requests : q # r => Seen(q)' = Seen(q)
    BY <1>3, <2>1, Constants
  <2>3. Offering(r) => UpTo(Seen(r)', readMsg.n - 1)
    <3> SUFFICES ASSUME Offering(r)
                 PROVE  UpTo(Seen(r)', readMsg.n - 1)
      OBVIOUS
    <3>1. /\ Seen(r) \in Seq(Msg)
          /\ Seen(r)' = Seen(r) \/ Seen(r)' = Append(Seen(r), SessionError)
      BY <1>t, <2>1, Constants, TrySendSeen
    <3>2. readMsg.n > 0 /\ readMsg.n \in Nat /\ UpTo(Seen(r), readMsg.n - 1) /\ Growing(Seen(r))
      BY <1>t, Constants DEF OfferIsNew, SeenGrows, SessionTypeOK, Msg
    <3>3. readMsg.n - 1 \in Nat /\ SessionError.n <= readMsg.n - 1
      BY <2>1, <3>2
    <3>4. UpTo(Append(Seen(r), SessionError), readMsg.n - 1)
      BY <2>1, <3>1, <3>2, <3>3, Constants, AppendGrowing
    <3> QED
      BY <3>1, <3>2, <3>4
  <2>4. \A q \in Requests : Offering(q)' <=> Offering(q)
    BY <2>1 DEF Offering
  <2> QED
    BY <2>1, <2>2, <2>3, <2>4 DEF OfferIsNew, UpTo
<1>6. ASSUME NEW r \in Requests,
             Send(r) \/ Read(r) \/ BootstrapTimeout(r) \/ CancelContext(r) \/ Watch(r)
      PROVE  SeenGrows' /\ OfferIsNew'
  <2>1. \A q \in Requests : Seen(q)' = Seen(q)
    BY <1>6, SeenKept
  <2>2. UNCHANGED <<readVars, arrived>>
    BY <1>6
    DEF Send, CheckSend, WriteRequest, WriteFails, StartWatcher, AbandonSend,
        Read, TakeReply, SeeClosed, SeeCancelled, BootstrapTimeout, CancelContext,
        Watch, WatcherSeesClosed, WatcherSeesCancel, WatcherCloses
  <2> QED
    BY <1>1, <2>1, <2>2 DEF readVars, Offering
<1>7. CASE \/ DispatchCloses \/ OtherCleanup \/ ReadFails \/ Harvest
           \/ CloseHarvested \/ EndCleanup \/ UNCHANGED vars
           \/ \E r \in Requests : RegisterPending(r)
  <2>1. /\ UNCHANGED <<arrived, readReq, readMsg, taken, buf>>
        /\ readPc' = readPc \/ readPc' # "offer"
    BY <1>7
    DEF DispatchCloses, OtherCleanup, ReadFails, BeginCleanup, Harvest, CloseHarvested, EndCleanup,
        RegisterPending, vars, slotVars, callVars, readVars, cleanVars
  <2> QED
    BY <1>1, <2>1 DEF Seen, Offering
<1> QED
  BY <1>2, <1>4, <1>5, <1>6, <1>7 DEF Next, ReadLoop, Cleanup

\* What the abstract caller sees of a message taken.
LEMMA NumbersAppend ==
  ASSUME NEW s \in Seq(Msg), NEW m \in Msg, OnlyProviders(s)
  PROVE  /\ m.n = 0 => Numbers(Append(s, m)) = Numbers(s)
         /\ m.n # 0 => Numbers(Append(s, m)) = Append(Numbers(s), m.n)
         /\ Promise!Last(Numbers(s)) = IF s = <<>> THEN 0 ELSE s[Len(s)].n
<1> DEFINE t == Append(s, m)
<1>1. /\ Len(s) \in Nat /\ DOMAIN s = 1 .. Len(s) /\ Len(t) = Len(s) + 1
      /\ t[Len(s) + 1] = m /\ \A i \in 1 .. Len(s) : t[i] = s[i]
      /\ t # <<>>
  OBVIOUS
<1>2. s # <<>> => Len(s) \in DOMAIN s /\ Len(s) # 0
  BY <1>1
<1>3. Numbers(s) = [i \in 1 .. Len(s) |-> s[i].n]
  BY <1>2 DEF Numbers, OnlyProviders
<1>4. Numbers(t) = [i \in 1 .. (IF m.n = 0 THEN Len(s) ELSE Len(s) + 1) |-> t[i].n]
  BY <1>1 DEF Numbers
<1> HIDE DEF t
<1>5. m.n = 0 => Numbers(t) = Numbers(s)
  BY <1>1, <1>3, <1>4
<1>6. Numbers(s) \in Seq(Nat) /\ Len(Numbers(s)) = Len(s)
  <2>1. \A i \in 1 .. Len(s) : s[i] \in Msg
    BY <1>1
  <2>2. \A i \in 1 .. Len(s) : s[i].n \in Nat
    BY <2>1, Constants DEF Msg
  <2> QED
    BY <1>1, <1>3, <2>2
<1>7. m.n # 0 => Numbers(t) = Append(Numbers(s), m.n)
  <2>1. m.n \in Nat
    BY Constants DEF Msg
  <2> SUFFICES ASSUME m.n # 0
               PROVE  Numbers(t) = Append(Numbers(s), m.n)
    OBVIOUS
  <2>2. Numbers(t) = [i \in 1 .. Len(s) + 1 |-> t[i].n]
    BY <1>4
  <2>3. /\ Append(Numbers(s), m.n) = [i \in 1 .. Len(s) + 1 |->
                                        IF i = Len(s) + 1 THEN m.n ELSE Numbers(s)[i]]
    BY <1>1, <1>6, <2>1
  <2>4. \A i \in 1 .. Len(s) + 1 :
          t[i].n = IF i = Len(s) + 1 THEN m.n ELSE Numbers(s)[i]
    BY <1>1, <1>3
  <2> QED
    BY <2>2, <2>3, <2>4
<1>8. Promise!Last(Numbers(s)) = IF s = <<>> THEN 0 ELSE s[Len(s)].n
  <2>1. CASE s = <<>>
    <3>1. Len(Numbers(s)) = 0
      BY <1>6, <2>1
    <3>2. Numbers(s) = <<>>
      BY <1>6, <3>1
    <3> QED
      BY <2>1, <3>2 DEF Promise!Last
  <2>2. CASE s # <<>>
    <3>1. Numbers(s) # <<>> /\ Numbers(s)[Len(s)] = s[Len(s)].n
      BY <1>1, <1>2, <1>3, <1>6, <2>2
    <3> QED
      BY <1>6, <2>2, <3>1 DEF Promise!Last
  <2> QED
    BY <2>1, <2>2
<1> QED
  BY <1>5, <1>7, <1>8 DEF t

\* Nothing was taken yet.
LEMMA PromiseInit ==
  ASSUME Init
  PROVE  PromiseInv /\ Promise!Init
<1>1. \A r \in Requests : Seen(r) = <<>> /\ ~Offering(r)
  BY DEF Init, Seen, Offering
<1>2. Growing(<<>>) /\ UpTo(<<>>, 0) /\ NoTerminal(<<>>)
  BY DEF Growing, UpTo, NoTerminal
<1>3. PromiseInv
  BY <1>1, <1>2 DEF Init, PromiseInv, SeenGrows, OfferIsNew, CallGoesOn
<1>4. Numbers(<<>>) = <<>>
  BY DEF Numbers
<1>5. Promise!Init
  BY <1>4 DEF Init, Promise!Init
<1> QED
  BY <1>3, <1>5

\* What is taken next is what is seen after all that was taken.
LEMMA NextSeen ==
  ASSUME NEW s \in Seq(Msg), NEW t \in Seq(Msg), t # <<>>
  PROVE  Len(s) + 1 \in DOMAIN (s \o t) /\ (s \o t)[Len(s) + 1] = Head(t)
<1>1. /\ Len(s) \in Nat /\ Len(t) \in Nat /\ Len(t) # 0
      /\ s \o t \in Seq(Msg) /\ Len(s \o t) = Len(s) + Len(t)
      /\ Head(t) = t[1]
  OBVIOUS
<1>2. DOMAIN (s \o t) = 1 .. Len(s) + Len(t)
  BY <1>1
<1>3. ASSUME NEW k \in Nat, NEW n \in Nat, n # 0
      PROVE  k + 1 \in 1 .. k + n
  BY <1>3
<1>4. Len(s) + 1 \in DOMAIN (s \o t)
  BY <1>1, <1>2, <1>3
<1>5. (s \o t)[Len(s) + 1] = t[1]
  BY <1>1, <1>3
<1> QED
  BY <1>1, <1>4, <1>5

\* A caller takes its next message: a delivery, an end, or a delivery that ends the call.
LEMMA TakeKeepsPromise ==
  ASSUME TypeInv, CleanupAddsErrors, PromiseInv, NEW r \in Requests, TakeReply(r)
  PROVE  Promise!Step(r)
<1>t. SessionTypeOK
  BY DEF TypeInv
<1> DEFINE m == Head(buf[r])
           given == [q \in Requests |-> Numbers(taken[q])]
<1>1. buf[r] \in Seq(Msg) /\ buf[r] # <<>> /\ taken[r] \in Seq(Msg)
  BY <1>t DEF TakeReply, SessionTypeOK
<1>2. m \in Msg
  BY <1>1
<1>3. /\ taken' = [taken EXCEPT ![r] = Append(taken[r], m)]
      /\ caller[r] = "reading"
      /\ \/ /\ Terminal(m)
            /\ outcome' = [outcome EXCEPT ![r] = m.kind]
         \/ ~Terminal(m) /\ UNCHANGED outcome
  BY DEF TakeReply, Return
<1>4. outcome[r] = "none" /\ NoTerminal(taken[r])
  BY <1>3 DEF PromiseInv, CallGoesOn
<1>5. /\ \A i \in DOMAIN taken[r] : i \in DOMAIN Seen(r) /\ Seen(r)[i] = taken[r][i]
      /\ Len(taken[r]) + 1 \in DOMAIN Seen(r) /\ Seen(r)[Len(taken[r]) + 1] = m
  BY <1>1, TakenFirst, NextSeen DEF Seen
<1>6. \A i \in DOMAIN Seen(r) : Seen(r)[i].n = 0 => Terminal(Seen(r)[i])
  BY DEF CleanupAddsErrors, OnlyErrorsAdded, IsError, Terminal
<1>7. OnlyProviders(taken[r])
  BY <1>4, <1>5, <1>6 DEF OnlyProviders, NoTerminal
<1>8. m.n = 0 => Terminal(m)
  BY <1>5, <1>6
<1>9. m.n # 0 => m.n \in 1 .. MaxMsgs /\ m.n > Promise!Last(Numbers(taken[r]))
  <2> SUFFICES ASSUME m.n # 0
               PROVE  m.n \in 1 .. MaxMsgs /\ m.n > Promise!Last(Numbers(taken[r]))
    OBVIOUS
  <2>1. m.n \in 1 .. MaxMsgs
    BY <1>2, Constants DEF Msg
  <2>2. Promise!Last(Numbers(taken[r])) =
          IF taken[r] = <<>> THEN 0 ELSE taken[r][Len(taken[r])].n
    BY <1>1, <1>2, <1>7, NumbersAppend
  <2>3. CASE taken[r] = <<>>
    BY <2>1, <2>2, <2>3, Constants
  <2>4. CASE taken[r] # <<>>
    <3>1. Len(taken[r]) \in DOMAIN taken[r] /\ Len(taken[r]) < Len(taken[r]) + 1
      BY <1>1, <2>4
    <3>2. taken[r][Len(taken[r])].n < m.n
      BY <1>5, <3>1 DEF PromiseInv, SeenGrows, Growing
    <3>3. taken[r][Len(taken[r])].n \in Nat
      <4>1. taken[r][Len(taken[r])] \in Msg
        BY <1>1, <3>1
      <4> QED
        BY <4>1, Constants DEF Msg
    <3> QED
      BY <2>1, <2>2, <2>4, <3>2, <3>3, Constants
  <2> QED
    BY <2>3, <2>4
<1>10. Terminal(m) => m.kind \in Outcomes
  BY <1>2 DEF Msg, Kinds, Terminal, Outcomes
<1> HIDE DEF m
<1>11. \A q \in Requests : q # r => taken'[q] = taken[q]
  BY <1>t, <1>3 DEF SessionTypeOK
<1>12. taken'[r] = Append(taken[r], m)
  BY <1>t, <1>3 DEF SessionTypeOK
<1>13. Numbers(taken[r])' = Numbers(taken'[r])
  BY DEF Numbers
<1>14. given' = [q \in Requests |-> Numbers(taken'[q])]
  BY DEF Numbers
<1>15. CASE m.n = 0
  <2>1. Numbers(taken'[r]) = Numbers(taken[r])
    BY <1>1, <1>2, <1>7, <1>12, <1>15, NumbersAppend
  <2>2. \A q \in Requests : Numbers(taken'[q]) = Numbers(taken[q])
    BY <1>11, <2>1
  <2>3. given' = given
    BY <1>14, <2>2
  <2>4. Terminal(m) /\ outcome' = [outcome EXCEPT ![r] = m.kind]
    BY <1>3, <1>8, <1>15
  <2> QED
    BY <1>4, <1>10, <2>3, <2>4 DEF Promise!Step, Promise!End
<1>16. CASE m.n # 0
  <2>1. Numbers(taken'[r]) = Append(Numbers(taken[r]), m.n)
    BY <1>1, <1>2, <1>7, <1>12, <1>16, NumbersAppend
  <2>2. given' = [given EXCEPT ![r] = Append(given[r], m.n)]
    BY <1>11, <1>14, <2>1
  <2>3. given[r] = Numbers(taken[r])
    OBVIOUS
  <2>4. Promise!Deliver(r)
    BY <1>9, <1>16, <2>2, <2>3 DEF Promise!Deliver
  <2> QED
    BY <1>3, <1>4, <1>10, <2>4 DEF Promise!Step, Promise!End
<1> QED
  BY <1>15, <1>16

\* A call that ends without a message keeps what was given and has an outcome.
LEMMA EndKeepsPromise ==
  ASSUME TypeInv, CallGoesOn, NEW r \in Requests,
         AbandonSend(r) \/ SeeClosed(r) \/ SeeCancelled(r) \/ BootstrapTimeout(r)
  PROVE  Promise!Step(r)
<1>1. PICK o \in Outcomes : outcome' = [outcome EXCEPT ![r] = o] /\ UNCHANGED taken
  BY DEF AbandonSend, SeeClosed, SeeCancelled, BootstrapTimeout, Return, Outcomes
<1>2. outcome[r] = "none"
  BY DEF CallGoesOn, AbandonSend, SeeClosed, SeeCancelled, BootstrapTimeout
<1> QED
  BY <1>1, <1>2 DEF Promise!Step, Promise!End, Numbers

\* Every step of the session is a step of ReplyStream, or none.
LEMMA StepKeepsPromise ==
  ASSUME TypeInv, CleanupAddsErrors, PromiseInv, [Next]_vars
  PROVE  [Promise!Next]_(Promise!Reply)
<1>1. ASSUME NEW r \in Requests,
             TakeReply(r) \/ AbandonSend(r) \/ SeeClosed(r) \/ SeeCancelled(r) \/ BootstrapTimeout(r)
      PROVE  Promise!Next
  BY <1>1, TakeKeepsPromise, EndKeepsPromise DEF Promise!Next, PromiseInv
<1>2. CASE UNCHANGED <<taken, outcome>>
  BY <1>2 DEF Promise!Reply, Numbers
<1>3. \/ UNCHANGED <<taken, outcome>>
      \/ \E r \in Requests : \/ TakeReply(r) \/ AbandonSend(r) \/ SeeClosed(r)
                             \/ SeeCancelled(r) \/ BootstrapTimeout(r)
  BY DEF Next, Send, CheckSend, WriteRequest, WriteFails, StartWatcher, RegisterPending,
         Read, CancelContext, Watch, WatcherSeesClosed, WatcherSeesCancel, WatcherCloses,
         Dispatch, ReadLoop, DispatchOffers, DispatchCloses, OtherCleanup, ReadFails, BeginCleanup,
         Cleanup, Harvest, Notify, CloseHarvested, EndCleanup, vars, callVars
<1> QED
  BY <1>1, <1>2, <1>3

\* Every caller gets messages of its reply in the provider's order, then one outcome.
THEOREM KeepsThePromise == Spec => KeepsReplyPromise
<1> DEFINE Inv == TypeInv /\ EndInv /\ OrderInv /\ PromiseInv
<1>1. Init => Inv /\ Promise!Init
  BY InitType, EndInit, OrderInit, PromiseInit
<1>2. Inv /\ [Next]_vars => Inv'
  BY TypeInductive, EndInductive, OrderInductive, CallInductive, SeenGrowsInductive DEF PromiseInv
<1>3. Inv /\ [Next]_vars => [Promise!Next]_(Promise!Reply)
  BY StepKeepsPromise DEF OrderInv
<1> HIDE DEF Inv
<1> QED
  BY <1>1, <1>2, <1>3, PTL DEF Spec, KeepsReplyPromise, Promise!Spec

=============================================================================
