------------------------- MODULE StreamRelayProofs --------------------------
(***************************************************************************)
(* What is proved of module StreamRelay, for every set of streams and      *)
(* every capacity.  First the loop with its timer; then, for the order and *)
(* the end of what the client gets:                                        *)
(*   - the decoder: wherever a text is cut, but inside a line end, it      *)
(*     makes of the parts what it makes of the whole;                      *)
(*   - the stream: what is read of its text is a beginning of its events;  *)
(*   - the reply channel: unless a chunk was dropped, what waits in it is  *)
(*     the text the relay has not read, piece after piece;                 *)
(*   - the way: the items on their way to the client are the next events,  *)
(*     with at most one part of an event and an error at the end, and      *)
(*     every step of loop, converter and handler keeps it so.              *)
(* The feeding of a chunk is a recursive function; instead of an induction *)
(* the least token where a claim would fail is taken (AllOfARow).          *)
(***************************************************************************)
EXTENDS StreamRelay, SequenceTheorems, WellFoundedInduction, TLAPS

\* The loop and its timer.
LoopTypeOK ==
  /\ loop \in {"first", "waiting", "sending", "done"}
  /\ loop = "sending" <=> todo # <<>>
  /\ idle \in {"off", "armed", "fired"}
  /\ {cooled, stalled, last} \subseteq BOOLEAN

\* The others.
OthersTypeOK ==
  /\ stream \in Streams
  /\ relay \in {"reading", "offering", "closed"}
  /\ converter \in {"reading", "closed"}
  /\ handler \in {"reading", "ended", "failed", "gone"}
  /\ left \in BOOLEAN

\* A timer that has fired when the loop waits has fired while it waited; when the
\* provider has been cooled the timer is off for good, the loop being about to return.
TimerInv ==
  /\ loop = "waiting" /\ idle = "fired" => stalled
  /\ cooled => stalled /\ idle = "off" /\ loop \in {"sending", "done"} /\ last

LoopInv == LoopTypeOK /\ TimerInv

\* Going on with items: it sends, waits or returns; and does not wait after the last.
LEMMA GoOnStep ==
  ASSUME LoopInv, NEW items, NEW isLast \in BOOLEAN, GoOn(items, isLast), Rearm,
         ~cooled \/ isLast
  PROVE  LoopInv'
<1>1. /\ loop' \in {"sending", "waiting", "done"}
      /\ loop' = "waiting" => ~isLast
      /\ last' = isLast
      /\ loop' = "sending" <=> todo' # <<>>
      /\ UNCHANGED <<cooled, stalled>>
  BY DEF GoOn
<1>2. /\ loop' = "sending" => idle' = idle
      /\ loop' = "waiting" => idle' = "armed"
      /\ loop' = "done" => idle' = "off"
  BY <1>1 DEF Rearm
<1>3. LoopTypeOK'
  BY <1>1, <1>2 DEF LoopInv, LoopTypeOK
<1>4. ~(loop' = "waiting" /\ idle' = "fired")
  BY <1>2
<1>5. ASSUME cooled
      PROVE  (stalled /\ idle = "off" /\ loop \in {"sending", "done"} /\ last)'
  BY <1>1, <1>2, <1>5 DEF LoopInv, TimerInv
<1> QED
  BY <1>1, <1>3, <1>4, <1>5 DEF LoopInv, TimerInv

\* Every step keeps the invariant.
LEMMA LoopInvStep == LoopInv /\ [Next]_vars => LoopInv'
<1> SUFFICES ASSUME LoopInv, [Next]_vars
             PROVE  LoopInv'
  OBVIOUS
<1>1. CASE UNCHANGED <<loop, todo, last, idle, cooled, stalled>>
  BY <1>1 DEF LoopInv, LoopTypeOK, TimerInv
<1>2. CASE Provider \/ GiveUpSlot \/ Fetch \/ RelayStops \/ Converter \/ Handler \/ Leave
           \/ UNCHANGED vars
  <2>1. UNCHANGED loopVars
    BY <1>2 DEF Provider, SendChunk, SendEnd, SendRest, Fail, Dispatch, GiveUpSlot, Fetch,
                RelayStops, Converter, Convert, HandOn, ConverterStops, Handler, Write, HandlerReturns, Leave, vars
  <2> QED
    BY <1>1, <2>1 DEF loopVars
<1>3. CASE TimerFires
  BY <1>3 DEF TimerFires, LoopInv, LoopTypeOK, TimerInv
<1>4. CASE IdleTimeout
  <2>1. stalled
    BY <1>4 DEF IdleTimeout, LoopInv, TimerInv
  <2>2. loop' = "sending" /\ idle' = "off" /\ cooled' /\ last' /\ UNCHANGED stalled
    BY <1>4 DEF IdleTimeout
  <2>3. todo' # <<>>
    <3> DEFINE rest == Items("tail", Flush(buf))
    <3>1. todo' = rest \o Error /\ Error # <<>> /\ Error \in Seq({Error[1]})
      BY <1>4 DEF IdleTimeout, Error
    <3>2. \E payloads : rest = [i \in DOMAIN payloads |-> [kind |-> "tail", payload |-> payloads[i]]]
      BY DEF Items
    <3> QED
      BY <3>1
  <2> QED
    BY <2>1, <2>2, <2>3 DEF LoopInv, LoopTypeOK, TimerInv
<1>5. CASE EventsClosed
  <2>1. ~cooled /\ Rearm /\ FlushAnd(<<>>)
    BY <1>5 DEF EventsClosed, LoopInv, TimerInv
  <2>2. GoOn(Items("tail", Flush(buf)) \o <<>>, TRUE)
    BY <2>1 DEF FlushAnd
  <2> QED
    BY <2>1, <2>2, GoOnStep
<1>6. CASE Take
  <2>1. ~cooled /\ Rearm /\ Process(offer)
    BY <1>6 DEF Take, LoopInv, TimerInv
  <2>2. \E items : \E isLast \in BOOLEAN : GoOn(items, isLast)
    BY <2>1 DEF Process, FlushAnd
  <2> QED
    BY <2>1, <2>2, GoOnStep
<1>7. CASE Send \/ SendFails
  <2>1. Rearm /\ (GoOn(<<>>, TRUE) \/ GoOn(Tail(todo), last))
    BY <1>7 DEF Send, SendFails
  <2>2. last \in BOOLEAN /\ (~cooled \/ last)
    BY DEF LoopInv, LoopTypeOK, TimerInv
  <2>3. CASE GoOn(<<>>, TRUE)
    BY <2>1, <2>3, GoOnStep
  <2>4. CASE GoOn(Tail(todo), last)
    BY <2>1, <2>2, <2>4, GoOnStep
  <2> QED
    BY <2>1, <2>3, <2>4
<1> QED
  BY <1>2, <1>3, <1>4, <1>5, <1>6, <1>7 DEF Next, Relay

\* So do the others.
LEMMA OthersStep == OthersTypeOK /\ [Next]_vars => OthersTypeOK'
<1> SUFFICES ASSUME OthersTypeOK, [Next]_vars
             PROVE  OthersTypeOK'
  OBVIOUS
<1>1. CASE Provider \/ GiveUpSlot \/ Fetch \/ RelayStops
  BY <1>1 DEF Provider, SendChunk, SendEnd, SendRest, Fail, Dispatch, GiveUpSlot, Fetch,
              RelayStops, clientVars, OthersTypeOK
<1>2. CASE Relay \/ TimerFires
  BY <1>2 DEF Relay, Take, EventsClosed, IdleTimeout, Send, SendFails, TimerFires, relayVars,
              replyVars, clientVars, OthersTypeOK
<1>3. CASE Converter \/ Handler \/ Leave
  BY <1>3 DEF Converter, Convert, HandOn, ConverterStops, Handler, Write, HandlerReturns, Leave,
              relayVars, replyVars, clientVars, OthersTypeOK
<1>4. CASE UNCHANGED vars
  BY <1>4 DEF vars, relayVars, replyVars, clientVars, OthersTypeOK
<1> QED
  BY <1>1, <1>2, <1>3, <1>4 DEF Next

\* Every variable but the texts keeps its type, and the loop sends exactly when it has
\* something to send: no item is forgotten in a loop that waits or has returned.
THEOREM StreamTypeCorrect == Spec => []StreamTypeOK
<1>1. Init => LoopInv /\ OthersTypeOK
  BY DEF Init, LoopInv, LoopTypeOK, TimerInv, OthersTypeOK
<1>2. LoopInv /\ OthersTypeOK => StreamTypeOK
  BY DEF LoopInv, LoopTypeOK, OthersTypeOK, StreamTypeOK
<1> QED
  BY <1>1, <1>2, LoopInvStep, OthersStep, PTL DEF Spec

\* A provider is cooled for being idle only when the loop had nothing else to do than
\* to wait for it: the time a slow client takes is not counted.
THEOREM SlowClientsBlameNobody == Spec => []SlowClientBlamesNobody
<1>1. Init => LoopInv
  BY DEF Init, LoopInv, LoopTypeOK, TimerInv
<1>2. LoopInv => SlowClientBlamesNobody
  BY DEF LoopInv, TimerInv, SlowClientBlamesNobody
<1> QED
  BY <1>1, <1>2, LoopInvStep, PTL DEF Spec

-----------------------------------------------------------------------------
(* Rows: what replaces induction. *)

\* What holds of the first of a row and of the next to each it holds of, holds of all.
LEMMA AllOfARow ==
  ASSUME NEW a \in Nat, NEW b \in Nat, NEW S, a \in S,
         \A i \in a..b - 1 : i \in S => i + 1 \in S
  PROVE  \A i \in a..b : i \in S
<1> DEFINE T == {i \in a..b : i \notin S}
<1> SUFFICES ASSUME T # {} PROVE FALSE
  OBVIOUS
<1>1. PICK x \in T : \A y \in T : ~ (<<y, x>> \in OpToRel(<, Nat))
  <2>1. T \subseteq Nat
    OBVIOUS
  <2> HIDE DEF T
  <2> QED  BY <2>1, NatLessThanWellFounded, WFMin
<1>2. x # a
  OBVIOUS
<1>3. x - 1 \notin T
  <2> SUFFICES ASSUME x - 1 \in T PROVE FALSE
    OBVIOUS
  <2>1. <<x - 1, x>> \in OpToRel(<, Nat)
    BY DEF OpToRel
  <2> QED  BY <1>1, <2>1
<1>4. x - 1 \in a..b - 1 /\ (x - 1) + 1 = x
  BY <1>2
<1> QED  BY <1>3, <1>4

\* A row can be built from its start, each from the one before.
Grows(n, S, start, next) ==
  n \in Nat /\ start \in S /\ \A i \in 1..n : \A x \in S : next[i][x] \in S

IsRow(f, n, S, start, next) ==
  f \in [0..n -> S] /\ f[0] = start /\ \A i \in 1..n : f[i] = next[i][f[i - 1]]

LEMMA RowExists ==
  ASSUME NEW n, NEW S, NEW start, NEW next, Grows(n, S, start, next)
  PROVE  \E f : IsRow(f, n, S, start, next)
<1>0. n \in Nat /\ start \in S /\ \A i \in 1..n : \A x \in S : next[i][x] \in S
  BY DEF Grows
<1> DEFINE Is(f, k) == f[0] = start /\ \A i \in 1..k : f[i] = next[i][f[i - 1]]
           T == {k \in 0..n : \E f \in [0..k -> S] : Is(f, k)}
<1>1. 0 \in T
  <2>1. [i \in 0..0 |-> start] \in [0..0 -> S] /\ Is([i \in 0..0 |-> start], 0)
    BY <1>0
  <2>2. 0 \in 0..n
    BY <1>0
  <2> HIDE DEF Is
  <2> QED  BY <2>1, <2>2
<1>2. ASSUME NEW k \in 0..n - 1, k \in T
      PROVE  k + 1 \in T
  <2>1. PICK f \in [0..k -> S] : Is(f, k)
    BY <1>2
  <2> DEFINE x == next[k + 1][f[k]]
             g == [i \in 0..k + 1 |-> IF i = k + 1 THEN x ELSE f[i]]
  <2>2. x \in S
    BY <1>0, <2>1
  <2>3. f[0] = start /\ \A i \in 1..k : f[i] = next[i][f[i - 1]]
    BY <2>1
  <2> HIDE DEF Is
  <2>4. g \in [0..k + 1 -> S]
    <3> HIDE DEF x
    <3> QED  BY <1>0, <2>2
  <2>5. g[k + 1] = x /\ \A i \in 0..k : g[i] = f[i]
    <3> HIDE DEF x
    <3> QED  BY <1>0
  <2> HIDE DEF g
  <2>6. g[0] = start
    BY <1>0, <2>3, <2>5
  <2>7. ASSUME NEW i \in 1..k + 1
        PROVE  g[i] = next[i][g[i - 1]]
    <3>1. CASE i = k + 1
      <4>1. i - 1 = k /\ k \in 0..k
        BY <1>0, <3>1
      <4> QED  BY <2>5, <3>1, <4>1
    <3>2. CASE i # k + 1
      <4>1. i \in 1..k /\ i \in 0..k /\ i - 1 \in 0..k
        BY <1>0, <3>2
      <4> QED  BY <2>3, <2>5, <4>1
    <3> QED  BY <3>1, <3>2
  <2>8. Is(g, k + 1)
    BY <2>6, <2>7 DEF Is
  <2>9. k + 1 \in 0..n
    BY <1>0
  <2> QED  BY <2>4, <2>8, <2>9, Zenon
<1>3. n \in T
  <2> HIDE DEF T
  <2>1. \A k \in 0..n : k \in T
    BY <1>0, <1>1, <1>2, AllOfARow
  <2> QED  BY <1>0, <2>1
<1>4. PICK f \in [0..n -> S] : Is(f, n)
  BY <1>3, Zenon
<1> QED  BY <1>4, Zenon DEF IsRow

-----------------------------------------------------------------------------
(* The decoder. *)

\* What a text is made of.
Token == STRING \cup Blank

\* What may come out of it, from frames or from chunks that are payloads themselves.
Payload == {ParseFrame(frame)[1] : frame \in Seq(Token)} \cup {Trim(text) : text \in Seq(Token)}

\* Where it may be.
Fed == [payloads : Seq(Payload), buf : Seq(Token)]

\* A frame has one payload or none.
LEMMA FrameShape ==
  ASSUME NEW frame
  PROVE  ParseFrame(frame) = <<>> \/ ParseFrame(frame) = <<ParseFrame(frame)[1]>>
<1>1. ParseFrame(frame) = <<>> \/ \E payload : ParseFrame(frame) = <<payload>>
  BY Zenon DEF ParseFrame
<1> QED
  BY <1>1

LEMMA FramePayloads ==
  ASSUME NEW frame \in Seq(Token)
  PROVE  ParseFrame(frame) \in Seq(Payload) /\ Len(ParseFrame(frame)) <= 1
<1>1. ParseFrame(frame)[1] \in Payload
  BY DEF Payload
<1>2. CASE ParseFrame(frame) = <<>>
  BY <1>2
<1>3. CASE ParseFrame(frame) = <<ParseFrame(frame)[1]>>
  <2> DEFINE x == ParseFrame(frame)[1]
  <2>1. x \in Payload /\ ParseFrame(frame) = <<x>>
    BY <1>1, <1>3
  <2> HIDE DEF x
  <2> QED
    BY <2>1
<1> QED
  BY <1>2, <1>3, FrameShape

LEMMA FeedOneIsFed ==
  ASSUME NEW fed \in Fed, NEW t \in Token
  PROVE  FeedOne(fed, t) \in Fed
<1>1. fed = [payloads |-> fed.payloads, buf |-> fed.buf]
  BY DEF Fed
<1>2. fed.payloads \in Seq(Payload) /\ fed.buf \in Seq(Token)
  BY DEF Fed
<1>3. CASE t \notin Blank
  <2>1. Append(fed.buf, t) \in Seq(Token)
    BY <1>2
  <2>2. FeedOne(fed, t) = [fed EXCEPT !.buf = Append(fed.buf, t)]
    BY <1>3, Zenon DEF FeedOne
  <2> QED
    BY <1>1, <1>2, <2>1, <2>2 DEF Fed
<1>4. CASE t \in Blank /\ (fed.buf = <<>> \/ Last(fed.buf) # "N")
  <2>1. Append(fed.buf, "N") \in Seq(Token)
    <3>1. \A x \in Token : Append(fed.buf, x) \in Seq(Token)
      BY <1>2
    <3>2. "N" \in Token
      BY DEF Token, Blank
    <3> QED
      BY <3>1, <3>2
  <2>2. FeedOne(fed, t) = [fed EXCEPT !.buf = Append(fed.buf, "N")]
    BY <1>4, Zenon DEF FeedOne
  <2> QED
    BY <1>1, <1>2, <2>1, <2>2 DEF Fed
<1>5. CASE t \in Blank /\ ~(fed.buf = <<>> \/ Last(fed.buf) # "N")
  <2>1. Front(fed.buf) \in Seq(Token)
    BY <1>2 DEF Front
  <2>2. ParseFrame(Front(fed.buf)) \in Seq(Payload)
    BY <2>1, FramePayloads
  <2>3. fed.payloads \o ParseFrame(Front(fed.buf)) \in Seq(Payload)
    BY <1>2, <2>2
  <2>4. FeedOne(fed, t) = [payloads |-> fed.payloads \o ParseFrame(Front(fed.buf)), buf |-> <<>>]
    BY <1>5 DEF FeedOne
  <2> QED
    BY <2>3, <2>4 DEF Fed
<1> QED
  BY <1>3, <1>4, <1>5

\* A token of a chunk, when those before it have been fed.
FeedNext(fed, chunk, i) == IF LineEndGoesOn(chunk, i) THEN fed ELSE FeedOne(fed, chunk[i])

Start(held) == [payloads |-> <<>>, buf |-> held]

IsFeeding(row, held, chunk) ==
  /\ row \in [0..Len(chunk) -> Fed]
  /\ row[0] = Start(held)
  /\ \A i \in 1..Len(chunk) : row[i] = FeedNext(row[i - 1], chunk, i)
  /\ Feed(held, chunk) = row[Len(chunk)]

LEMMA FeedIsARow ==
  ASSUME NEW held \in Seq(Token), NEW chunk \in Seq(Token)
  PROVE  \E row : IsFeeding(row, held, chunk)
<1> DEFINE n == Len(chunk)
           Body(f) == [i \in 0..n |-> IF i = 0 THEN [payloads |-> <<>>, buf |-> held]
                                      ELSE IF LineEndGoesOn(chunk, i) THEN f[i - 1]
                                      ELSE FeedOne(f[i - 1], chunk[i])]
           fed == CHOOSE f : f = Body(f)
           next == [i \in 1..n |-> [x \in Fed |-> FeedNext(x, chunk, i)]]
           start == Start(held)
<1>1. Feed(held, chunk) = fed[n]
  BY Zenon DEF Feed
<1>2. n \in Nat /\ \A i \in 1..n : chunk[i] \in Token
  OBVIOUS
<1> HIDE DEF n
<1>3. \A i \in 1..n : \A x \in Fed : FeedNext(x, chunk, i) \in Fed
  BY <1>2, FeedOneIsFed DEF FeedNext
<1>4. \A i \in 1..n : \A x \in Fed : next[i][x] = FeedNext(x, chunk, i) /\ next[i][x] \in Fed
  BY <1>3
<1>5. start \in Fed
  BY DEF Start, Fed
<1>6. PICK f : IsRow(f, n, Fed, start, next)
  <2> HIDE DEF next, start
  <2>1. Grows(n, Fed, start, next)
    BY <1>2, <1>4, <1>5 DEF Grows
  <2> QED
    BY <2>1, RowExists, Zenon
<1>7. f \in [0..n -> Fed] /\ f[0] = start /\ \A i \in 1..n : f[i] = next[i][f[i - 1]]
  BY <1>6, Zenon DEF IsRow
<1>8. \A i \in 0..n : Body(f)[i] = f[i]
  <2> SUFFICES ASSUME NEW i \in 0..n
               PROVE  Body(f)[i] = f[i]
    OBVIOUS
  <2>1. CASE i = 0
    BY <1>7, <2>1 DEF Start
  <2>2. CASE i # 0
    <3>1. i \in 1..n /\ i - 1 \in 0..n
      BY <1>2, <2>2
    <3>2. f[i] = FeedNext(f[i - 1], chunk, i)
      BY <1>4, <1>7, <3>1
    <3> QED
      BY <2>2, <3>2 DEF FeedNext
  <2> QED
    BY <2>1, <2>2
<1>9. f = Body(f)
  <2>1. f = [i \in 0..n |-> f[i]] /\ Body(f) = [i \in 0..n |-> Body(f)[i]]
    BY <1>7
  <2> HIDE DEF Body
  <2> QED
    BY <1>8, <2>1
<1>10. fed = Body(fed)
  <2> HIDE DEF Body
  <2> QED
    BY <1>9
<1> HIDE DEF fed
<1>11. \A i \in 0..n : fed[i] = IF i = 0 THEN Start(held) ELSE FeedNext(fed[i - 1], chunk, i)
  BY <1>10 DEF FeedNext, Start
<1>12. fed = [i \in 0..n |-> fed[i]]
  BY <1>10
<1> HIDE DEF Body
<1>13. \A i \in 0..n : fed[i] \in Fed
  <2> DEFINE T == {i \in 0..n : fed[i] \in Fed}
  <2>1. 0 \in T
    BY <1>2, <1>5, <1>11
  <2>2. \A i \in 0..n - 1 : i \in T => i + 1 \in T
    <3> SUFFICES ASSUME NEW i \in 0..n - 1, i \in T
                 PROVE  i + 1 \in T
      OBVIOUS
    <3>1. i + 1 \in 1..n /\ i + 1 \in 0..n /\ (i + 1) - 1 = i /\ i + 1 # 0
      BY <1>2
    <3>2. fed[i + 1] = FeedNext(fed[i], chunk, i + 1)
      BY <1>11, <3>1
    <3> QED
      BY <1>3, <3>1, <3>2
  <2> HIDE DEF T
  <2>3. \A i \in 0..n : i \in T
    BY <1>2, <2>1, <2>2, AllOfARow
  <2> QED
    BY <2>3 DEF T
<1>14. /\ fed \in [0..n -> Fed]
       /\ fed[0] = Start(held)
       /\ \A i \in 1..n : fed[i] = FeedNext(fed[i - 1], chunk, i)
  <2>1. fed[0] = Start(held)
    BY <1>2, <1>11
  <2>2. \A i \in 1..n : fed[i] = FeedNext(fed[i - 1], chunk, i)
    BY <1>2, <1>11
  <2>3. fed \in [0..n -> Fed]
    BY <1>12, <1>13
  <2> QED
    BY <2>1, <2>2, <2>3
<1> QED
  BY <1>1, <1>14 DEF IsFeeding, n

LEMMA FeedIsFed ==
  ASSUME NEW held \in Seq(Token), NEW chunk \in Seq(Token)
  PROVE  Feed(held, chunk) \in Fed
<1>1. PICK row : IsFeeding(row, held, chunk)
  BY FeedIsARow
<1> QED
  BY <1>1 DEF IsFeeding

LEMMA FeedNothing ==
  ASSUME NEW held \in Seq(Token)
  PROVE  Feed(held, <<>>) = Start(held)
<1> DEFINE chunk == <<>>
<1>1. chunk \in Seq(Token) /\ Len(chunk) = 0
  OBVIOUS
<1> HIDE DEF chunk
<1>2. PICK row : IsFeeding(row, held, chunk)
  BY <1>1, FeedIsARow
<1>3. Feed(held, chunk) = Start(held)
  BY <1>1, <1>2 DEF IsFeeding
<1> QED
  BY <1>3 DEF chunk

\* A chunk with a token more.
LEMMA FeedMore ==
  ASSUME NEW held \in Seq(Token), NEW chunk \in Seq(Token), NEW t \in Token
  PROVE  Feed(held, Append(chunk, t)) =
           IF Len(chunk) > 0 /\ chunk[Len(chunk)] = "R" /\ t = "N" THEN Feed(held, chunk)
           ELSE FeedOne(Feed(held, chunk), t)
<1> DEFINE more == Append(chunk, t)
           n == Len(chunk)
<1>1. PICK one : IsFeeding(one, held, chunk)
  BY FeedIsARow
<1>2. PICK two : IsFeeding(two, held, more)
  <2>1. more \in Seq(Token)
    OBVIOUS
  <2> HIDE DEF more
  <2> QED
    BY <2>1, FeedIsARow
<1>3. /\ n \in Nat /\ Len(more) = n + 1 /\ more[n + 1] = t
      /\ \A i \in 1..n : more[i] = chunk[i]
  OBVIOUS
<1> HIDE DEF more, n
<1>4. \A i \in 1..n : LineEndGoesOn(more, i) = LineEndGoesOn(chunk, i)
  <2> SUFFICES ASSUME NEW i \in 1..n
               PROVE  LineEndGoesOn(more, i) = LineEndGoesOn(chunk, i)
    OBVIOUS
  <2>1. CASE i = 1
    BY <2>1 DEF LineEndGoesOn
  <2>2. CASE i # 1
    <3>1. i - 1 \in 1..n
      BY <1>3, <2>2
    <3> QED
      BY <1>3, <3>1 DEF LineEndGoesOn
  <2> QED
    BY <2>1, <2>2
<1> DEFINE T == {i \in 0..n : two[i] = one[i]}
<1>5. 0 \in T
  BY <1>1, <1>2, <1>3 DEF IsFeeding
<1>6. \A i \in 0..n - 1 : i \in T => i + 1 \in T
  <2> SUFFICES ASSUME NEW i \in 0..n - 1, i \in T
               PROVE  i + 1 \in T
    OBVIOUS
  <2>1. i + 1 \in 1..n /\ i + 1 \in 1..n + 1 /\ (i + 1) - 1 = i /\ i + 1 \in 0..n
    BY <1>3
  <2>2. one[i + 1] = FeedNext(one[i], chunk, i + 1)
    BY <1>1, <2>1 DEF IsFeeding, n
  <2>3. two[i + 1] = FeedNext(two[i], more, i + 1)
    BY <1>2, <1>3, <2>1 DEF IsFeeding
  <2> QED
    BY <1>3, <1>4, <2>1, <2>2, <2>3 DEF FeedNext
<1>7. two[n] = one[n]
  <2> HIDE DEF T
  <2>1. \A i \in 0..n : i \in T
    BY <1>3, <1>5, <1>6, AllOfARow
  <2>2. n \in T
    BY <1>3, <2>1
  <2> QED
    BY <2>2 DEF T
<1>8. Feed(held, chunk) = one[n] /\ Feed(held, more) = two[n + 1]
  BY <1>1, <1>2, <1>3 DEF IsFeeding, n
<1>9. two[n + 1] = FeedNext(two[n], more, n + 1)
  <2>1. n + 1 \in 1..n + 1 /\ (n + 1) - 1 = n
    BY <1>3
  <2> QED
    BY <1>2, <1>3, <2>1 DEF IsFeeding
<1>10. LineEndGoesOn(more, n + 1) <=> n > 0 /\ chunk[n] = "R" /\ t = "N"
  <2>1. CASE n = 0
    BY <2>1 DEF LineEndGoesOn
  <2>2. CASE n # 0
    <3>1. n \in 1..n /\ n + 1 > 1 /\ n > 0 /\ (n + 1) - 1 = n
      BY <1>3, <2>2
    <3> QED
      BY <1>3, <3>1 DEF LineEndGoesOn
  <2> QED
    BY <2>1, <2>2
<1> QED
  BY <1>3, <1>7, <1>8, <1>9, <1>10 DEF FeedNext, more, n

\* A chunk begins between the two characters of a line end.
Between(text, k) == k > 0 /\ k < Len(text) /\ text[k] = "R" /\ text[k + 1] = "N"

\* The next token of a chunk of a text.
LEMMA FeedChunk ==
  ASSUME NEW text \in Seq(Token), NEW held \in Seq(Token), NEW k \in Nat, NEW n \in Nat,
         k + n + 1 <= Len(text)
  PROVE  LET fed == Feed(held, SubSeq(text, k + 1, k + n))
         IN  Feed(held, SubSeq(text, k + 1, k + n + 1)) =
               IF n > 0 /\ Between(text, k + n) THEN fed ELSE FeedOne(fed, text[k + n + 1])
<1> DEFINE chunk == SubSeq(text, k + 1, k + n)
           t == text[k + n + 1]
<1>1. chunk \in Seq(Token) /\ Len(chunk) = n /\ \A i \in 1..n : chunk[i] = text[k + i]
  OBVIOUS
<1>2. t \in Token
  OBVIOUS
<1>3. SubSeq(text, k + 1, k + n + 1) = Append(chunk, t)
  <2>1. Len(SubSeq(text, k + 1, k + n + 1)) = n + 1 /\ Len(Append(chunk, t)) = n + 1
    BY <1>1
  <2>2. \A i \in 1..n + 1 : SubSeq(text, k + 1, k + n + 1)[i] = text[k + i]
    OBVIOUS
  <2>3. \A i \in 1..n + 1 : Append(chunk, t)[i] = text[k + i]
    <3> SUFFICES ASSUME NEW i \in 1..n + 1
                 PROVE  Append(chunk, t)[i] = text[k + i]
      OBVIOUS
    <3>1. CASE i = n + 1
      <4>1. k + i = k + n + 1
        BY <3>1
      <4>2. Append(chunk, t)[i] = t
        <5> HIDE DEF chunk, t
        <5> QED
          BY <1>1, <1>2, <3>1
      <4> QED
        BY <4>1, <4>2
    <3>2. CASE i # n + 1
      <4>1. i \in 1..n
        BY <3>2
      <4> HIDE DEF chunk, t
      <4> QED
        BY <1>1, <4>1
    <3> QED
      BY <3>1, <3>2
  <2>4. SubSeq(text, k + 1, k + n + 1) \in Seq(Token) /\ Append(chunk, t) \in Seq(Token)
    BY <1>1, <1>2
  <2> HIDE DEF chunk, t
  <2> QED
    BY <2>1, <2>2, <2>3, <2>4, SeqEqual
<1>4. n > 0 => chunk[n] = text[k + n]
  BY <1>1
<1>5. n > 0 => (Between(text, k + n) <=> chunk[n] = "R" /\ t = "N")
  <2>1. (k + n) + 1 = k + n + 1 /\ (n > 0 => k + n > 0) /\ k + n < Len(text)
    OBVIOUS
  <2> HIDE DEF chunk
  <2> QED
    BY <1>4, <2>1 DEF Between
<1>6. Feed(held, Append(chunk, t)) =
        IF Len(chunk) > 0 /\ chunk[Len(chunk)] = "R" /\ t = "N" THEN Feed(held, chunk)
        ELSE FeedOne(Feed(held, chunk), t)
  <2> HIDE DEF chunk, t
  <2> QED
    BY <1>1, <1>2, FeedMore
<1>7. Feed(held, Append(chunk, t)) =
        IF n > 0 /\ Between(text, k + n) THEN Feed(held, chunk) ELSE FeedOne(Feed(held, chunk), t)
  <2> HIDE DEF chunk, t
  <2> QED
    BY <1>1, <1>5, <1>6
<1> QED
  BY <1>3, <1>7

\* A text that came in one piece, token by token.
LEMMA ReadNext ==
  ASSUME NEW text \in Seq(Token), NEW k \in Nat, k < Len(text)
  PROVE  /\ ReadTo(text, k) \in Fed
         /\ ReadTo(text, k + 1) = IF Between(text, k) THEN ReadTo(text, k)
                                  ELSE FeedOne(ReadTo(text, k), text[k + 1])
<1> DEFINE n == 0
<1>1. <<>> \in Seq(Token) /\ n \in Nat /\ n + k + 1 <= Len(text) /\ n + 1 = 1 /\ n + k = k
  OBVIOUS
<1>2. SubSeq(text, 1, k) \in Seq(Token)
  OBVIOUS
<1>3. Between(text, k) => k > 0
  BY DEF Between
<1>4. Feed(<<>>, SubSeq(text, 1, k + 1)) =
        IF k > 0 /\ Between(text, k) THEN Feed(<<>>, SubSeq(text, 1, k))
        ELSE FeedOne(Feed(<<>>, SubSeq(text, 1, k)), text[k + 1])
  <2> HIDE DEF n
  <2>1. Feed(<<>>, SubSeq(text, n + 1, n + k + 1)) =
          IF k > 0 /\ Between(text, n + k) THEN Feed(<<>>, SubSeq(text, n + 1, n + k))
          ELSE FeedOne(Feed(<<>>, SubSeq(text, n + 1, n + k)), text[n + k + 1])
    BY <1>1, FeedChunk
  <2> QED
    BY <1>1, <2>1
<1> QED
  BY <1>1, <1>2, <1>3, <1>4, FeedIsFed DEF ReadTo

LEMMA ReadIsFed ==
  ASSUME NEW text \in Seq(Token), NEW k \in 0..Len(text)
  PROVE  ReadTo(text, k) \in Fed
<1>1. SubSeq(text, 1, k) \in Seq(Token) /\ <<>> \in Seq(Token)
  OBVIOUS
<1> QED
  BY <1>1, FeedIsFed DEF ReadTo

\* What was read, with what is read of a chunk that follows.
After(fed, more) == [payloads |-> fed.payloads \o more.payloads, buf |-> more.buf]

LEMMA FeedOneAfter ==
  ASSUME NEW fed \in Fed, NEW more \in Fed, NEW t \in Token
  PROVE  FeedOne(After(fed, more), t) = After(fed, FeedOne(more, t))
<1> DEFINE frame == ParseFrame(Front(more.buf))
<1>1. /\ fed.payloads \in Seq(Payload) /\ more.payloads \in Seq(Payload) /\ more.buf \in Seq(Token)
      /\ more = [payloads |-> more.payloads, buf |-> more.buf]
  BY DEF Fed
<1>2. CASE t \notin Blank
  BY <1>1, <1>2 DEF FeedOne, After
<1>3. CASE t \in Blank /\ (more.buf = <<>> \/ Last(more.buf) # "N")
  BY <1>1, <1>3 DEF FeedOne, After
<1>4. CASE t \in Blank /\ ~(more.buf = <<>> \/ Last(more.buf) # "N")
  <2>1. Front(more.buf) \in Seq(Token)
    BY <1>1 DEF Front
  <2>2. frame \in Seq(Payload)
    BY <2>1, FramePayloads
  <2>3. (fed.payloads \o more.payloads) \o frame = fed.payloads \o (more.payloads \o frame)
    <3> DEFINE a == fed.payloads
               b == more.payloads
    <3>1. a \in Seq(Payload) /\ b \in Seq(Payload)
      BY <1>1
    <3> HIDE DEF a, b, frame
    <3>2. (a \o b) \o frame = a \o (b \o frame)
      BY <2>2, <3>1, ConcatAssociative
    <3> QED
      BY <3>2 DEF a, b
  <2> QED
    BY <1>4, <2>3 DEF FeedOne, After
<1> QED
  BY <1>2, <1>3, <1>4

\* Wherever a text is cut, but between the characters of a line end, the rest gives what was to
\* come (stream_adapter.go, Feed).
LEMMA CutAnywhere ==
  ASSUME NEW text \in Seq(Token), NEW k \in Nat, NEW n \in Nat, k + n <= Len(text),
         ~Between(text, k)
  PROVE  ReadTo(text, k + n) =
           After(ReadTo(text, k), Feed(ReadTo(text, k).buf, SubSeq(text, k + 1, k + n)))
<1> DEFINE read == ReadTo(text, k)
           Rest(i) == Feed(read.buf, SubSeq(text, k + 1, k + i))
           T == {i \in 0..n : ReadTo(text, k + i) = After(read, Rest(i))}
<1>1. read \in Fed
  BY ReadIsFed
<1>2. /\ read.buf \in Seq(Token) /\ read.payloads \in Seq(Payload)
      /\ read = [payloads |-> read.payloads, buf |-> read.buf]
  BY <1>1 DEF Fed
<1> HIDE DEF read
<1>3. 0 \in T
  <2>1. SubSeq(text, k + 1, k + 0) = <<>> /\ k + 0 = k
    OBVIOUS
  <2>2. Rest(0) = Start(read.buf)
    BY <1>2, <2>1, FeedNothing
  <2>3. read.payloads \o <<>> = read.payloads
    BY <1>2
  <2>4. After(read, Start(read.buf)) = read
    BY <1>2, <2>3 DEF After, Start
  <2>5. ReadTo(text, k + 0) = read
    BY <2>1 DEF read
  <2> HIDE DEF Rest
  <2> QED
    BY <2>2, <2>4, <2>5
<1>4. \A i \in 0..n - 1 : i \in T => i + 1 \in T
  <2> SUFFICES ASSUME NEW i \in 0..n - 1, i \in T
               PROVE  i + 1 \in T
    OBVIOUS
  <2>1. /\ i \in Nat /\ i + 1 \in 0..n /\ k + i \in Nat /\ k + i + 1 <= Len(text) /\ k + i < Len(text)
        /\ k + (i + 1) = k + i + 1 /\ (k + i) + 1 = k + i + 1 /\ k + i + 1 \in 1..Len(text)
    OBVIOUS
  <2>2. text[k + i + 1] \in Token
    BY <2>1
  <2>3. ReadTo(text, k + i + 1) = IF Between(text, k + i) THEN ReadTo(text, k + i)
                                  ELSE FeedOne(ReadTo(text, k + i), text[k + i + 1])
    BY <2>1, ReadNext
  <2>4. Rest(i + 1) = IF i > 0 /\ Between(text, k + i) THEN Rest(i)
                      ELSE FeedOne(Rest(i), text[k + i + 1])
    <3> DEFINE held == read.buf
    <3>1. held \in Seq(Token) /\ i \in Nat /\ k + i + 1 <= Len(text) /\ k + (i + 1) = k + i + 1
      BY <1>2, <2>1
    <3> HIDE DEF held
    <3>2. Feed(held, SubSeq(text, k + 1, k + i + 1)) =
            IF i > 0 /\ Between(text, k + i) THEN Feed(held, SubSeq(text, k + 1, k + i))
            ELSE FeedOne(Feed(held, SubSeq(text, k + 1, k + i)), text[k + i + 1])
      BY <3>1, FeedChunk, Zenon
    <3> QED
      BY <3>1, <3>2, Zenon DEF held
  <2>5. Rest(i) \in Fed
    <3>1. SubSeq(text, k + 1, k + i) \in Seq(Token)
      BY <2>1
    <3> QED
      BY <1>2, <3>1, FeedIsFed
  <2>6. i = 0 => ~Between(text, k + i)
    OBVIOUS
  <2> HIDE DEF Rest
  <2>7. FeedOne(After(read, Rest(i)), text[k + i + 1]) = After(read, FeedOne(Rest(i), text[k + i + 1]))
    BY <1>1, <2>2, <2>5, FeedOneAfter DEF read
  <2> QED
    BY <2>1, <2>3, <2>4, <2>6, <2>7
<1> HIDE DEF T
<1>5. \A i \in 0..n : i \in T
  BY <1>3, <1>4, AllOfARow
<1>6. n \in T
  BY <1>5
<1> QED
  BY <1>6 DEF T, read

\* A set of numbers has a least one, and a greatest one if there is a bound.
LEMMA LeastIs ==
  ASSUME NEW S \in SUBSET Nat, S # {}
  PROVE  Min(S) \in S /\ \A i \in S : Min(S) <= i
<1>1. PICK x \in S : \A y \in S : ~ (<<y, x>> \in OpToRel(<, Nat))
  BY NatLessThanWellFounded, WFMin
<1>2. \A y \in S : x <= y
  <2> SUFFICES ASSUME NEW y \in S, y < x
               PROVE  FALSE
    OBVIOUS
  <2>1. <<y, x>> \in OpToRel(<, Nat)
    BY DEF OpToRel
  <2> QED
    BY <1>1, <2>1
<1> QED
  BY <1>2 DEF Min

LEMMA GreatestIs ==
  ASSUME NEW n \in Nat, NEW S \in SUBSET (0..n), S # {}
  PROVE  Max(S) \in S /\ \A i \in S : i <= Max(S)
<1> DEFINE T == {n - i : i \in S}
<1>1. T \in SUBSET Nat /\ T # {}
  <2>1. \A i \in S : n - i \in Nat
    OBVIOUS
  <2> QED
    BY <2>1
<1>2. Min(T) \in T /\ \A i \in T : Min(T) <= i
  <2> HIDE DEF T
  <2> QED
    BY <1>1, LeastIs
<1>3. PICK x \in S : Min(T) = n - x
  BY <1>2
<1>4. \A y \in S : x >= y
  <2> SUFFICES ASSUME NEW y \in S
               PROVE  x >= y
    OBVIOUS
  <2>1. n - y \in T
    OBVIOUS
  <2> HIDE DEF T
  <2> QED
    BY <1>2, <1>3, <2>1
<1>5. Max(S) \in S /\ \A y \in S : Max(S) >= y
  BY <1>4 DEF Max
<1> QED
  BY <1>5

\* There is ink in a text that does not consist of line ends.
LEMMA Ink ==
  ASSUME NEW text \in Seq(Token)
  PROVE  HasInk(text) <=> \E i \in 1..Len(text) : text[i] \notin Blank
<1> DEFINE ink == {i \in 1..Len(text) : text[i] \notin Blank}
<1>1. Trim(text) = IF ink = {} THEN <<>> ELSE SubSeq(text, Min(ink), Max(ink))
  <2>1. DOMAIN text = 1..Len(text)
    OBVIOUS
  <2> QED
    BY <2>1, Zenon DEF Trim
<1>2. ASSUME ink # {}
      PROVE  SubSeq(text, Min(ink), Max(ink)) # <<>>
  <2>1. ink \in SUBSET Nat /\ ink \in SUBSET (0..Len(text)) /\ Len(text) \in Nat
    OBVIOUS
  <2> HIDE DEF ink
  <2>2. Min(ink) \in ink /\ Max(ink) \in ink /\ Min(ink) <= Max(ink)
    BY <1>2, <2>1, LeastIs, GreatestIs
  <2>3. Min(ink) \in 1..Len(text) /\ Max(ink) \in 1..Len(text)
    BY <2>2 DEF ink
  <2>4. Len(SubSeq(text, Min(ink), Max(ink))) = Max(ink) - Min(ink) + 1
    BY <2>2, <2>3
  <2>5. Len(SubSeq(text, Min(ink), Max(ink))) # 0
    BY <2>2, <2>3, <2>4
  <2> QED
    BY <2>5, EmptySeq, Zenon
<1>3. ink = {} <=> ~ \E i \in 1..Len(text) : text[i] \notin Blank
  OBVIOUS
<1> HIDE DEF ink
<1> QED
  BY <1>1, <1>2, <1>3 DEF HasInk

\* A token of JSON, as a chunk.
LEMMA OneToken ==
  ASSUME NEW t \in Token, t \notin Blank, t # "ev"
  PROVE  HasInk(<<t>>) /\ Trim(<<t>>) = <<t>> /\ ~LooksLikeSSE(<<t>>)
<1> DEFINE text == <<t>>
           ink == {i \in 1..Len(text) : text[i] \notin Blank}
<1>1. text \in Seq(Token) /\ Len(text) = 1 /\ text[1] = t /\ DOMAIN text = 1..Len(text)
  OBVIOUS
<1>2. HasInk(text)
  <2> HIDE DEF text
  <2> QED
    BY <1>1, Ink
<1>3. ink = {1}
  <2> HIDE DEF text
  <2> QED
    BY <1>1
<1>4. Min(ink) = 1 /\ Max(ink) = 1
  <2>1. ink \in SUBSET Nat /\ ink \in SUBSET (0..1) /\ ink # {} /\ 1 \in Nat
    BY <1>3
  <2>2. Min(ink) \in ink /\ Max(ink) \in ink
    BY <2>1, LeastIs, GreatestIs
  <2> QED
    BY <1>3, <2>2
<1>5. SubSeq(text, 1, 1) = text
  <2> HIDE DEF text
  <2> QED
    BY <1>1, SubSeqFull
<1>6. Trim(text) = IF ink = {} THEN <<>> ELSE SubSeq(text, Min(ink), Max(ink))
  <2> HIDE DEF text
  <2> QED
    BY <1>1, Zenon DEF Trim, ink
<1>7. Trim(text) = text
  <2> HIDE DEF text, ink
  <2> QED
    BY <1>3, <1>4, <1>5, <1>6
<1>8. ~LooksLikeSSE(text)
  <2>1. Len(FieldName) = 2
    BY DEF FieldName
  <2> HIDE DEF text
  <2>2. ~IsPrefix(FieldName, text)
    BY <1>1, <2>1 DEF IsPrefix
  <2>3. Head(text) = t
    BY <1>1
  <2> QED
    BY <2>2, <2>3 DEF LooksLikeSSE
<1> QED
  BY <1>2, <1>7, <1>8

-----------------------------------------------------------------------------
(* The streams. *)

\* A text that StreamsAssumption allows.
Readable(text) ==
  /\ text \in Seq(Token)
  /\ \A i \in 1..Len(text) :
       text[i] \in Blank => ReadTo(text, i - 1).buf # <<>> \/ LineEndGoesOn(text, i)

\* What waits in the buffer begins with ink.
LEMMA BufferHasInk ==
  ASSUME NEW text, Readable(text), NEW k \in 0..Len(text), ReadTo(text, k).buf # <<>>
  PROVE  HasInk(ReadTo(text, k).buf)
<1>0. text \in Seq(Token)
  BY DEF Readable
<1> DEFINE Good(b) == b = <<>> \/ b[1] \notin Blank
           T == {i \in 0..Len(text) : Good(ReadTo(text, i).buf)}
<1>1. 0 \in T
  <2>1. <<>> \in Seq(Token) /\ SubSeq(text, 1, 0) = <<>> /\ 0 \in 0..Len(text)
    BY <1>0
  <2>2. ReadTo(text, 0) = Start(<<>>)
    BY <2>1, FeedNothing DEF ReadTo
  <2>3. ReadTo(text, 0).buf = <<>>
    BY <2>2 DEF Start
  <2> QED
    BY <2>1, <2>3
<1>2. \A i \in 0..Len(text) - 1 : i \in T => i + 1 \in T
  <2> SUFFICES ASSUME NEW i \in 0..Len(text) - 1, i \in T
               PROVE  i + 1 \in T
    OBVIOUS
  <2>1. /\ i \in Nat /\ i < Len(text) /\ i + 1 \in 0..Len(text) /\ i + 1 \in 1..Len(text)
        /\ (i + 1) - 1 = i
    BY <1>0
  <2> DEFINE read == ReadTo(text, i)
             t == text[i + 1]
  <2>2. read \in Fed /\ ReadTo(text, i + 1) = IF Between(text, i) THEN read ELSE FeedOne(read, t)
    BY <1>0, <2>1, ReadNext
  <2>3. Good(read.buf)
    OBVIOUS
  <2>4. read.buf \in Seq(Token) /\ read = [payloads |-> read.payloads, buf |-> read.buf] /\ t \in Token
    BY <1>0, <2>1, <2>2 DEF Fed
  <2>5. LineEndGoesOn(text, i + 1) => Between(text, i)
    BY <1>0, <2>1 DEF LineEndGoesOn, Between
  <2>6. ~Between(text, i) => t \notin Blank \/ read.buf # <<>>
    BY <2>1, <2>5 DEF Readable
  <2> HIDE DEF read, t
  <2>7. ASSUME ~Between(text, i)
        PROVE  Good(FeedOne(read, t).buf)
    <3>1. CASE t \notin Blank
      <4>1. FeedOne(read, t).buf = Append(read.buf, t)
        BY <2>4, <3>1 DEF FeedOne
      <4> QED
        BY <2>3, <2>4, <3>1, <4>1
    <3>2. CASE t \in Blank /\ Last(read.buf) # "N"
      <4>1. read.buf # <<>>
        BY <2>6, <2>7, <3>2
      <4>2. "N" \in Token
        BY DEF Token, Blank
      <4>3. FeedOne(read, t).buf = Append(read.buf, "N")
        BY <2>4, <3>2 DEF FeedOne
      <4> QED
        BY <2>3, <2>4, <4>1, <4>2, <4>3
    <3>3. CASE t \in Blank /\ Last(read.buf) = "N"
      <4>1. read.buf # <<>>
        BY <2>6, <2>7, <3>3
      <4>2. FeedOne(read, t).buf = <<>>
        BY <3>3, <4>1 DEF FeedOne
      <4> QED
        BY <4>2
    <3> QED
      BY <3>1, <3>2, <3>3
  <2>8. Good(ReadTo(text, i + 1).buf)
    BY <2>2, <2>3, <2>7
  <2> QED
    BY <2>1, <2>8
<1>3. k \in T
  <2> DEFINE n == Len(text)
  <2>1. n \in Nat /\ k \in 0..n
    BY <1>0
  <2> HIDE DEF T, n
  <2>2. \A i \in 0..n - 1 : i \in T => i + 1 \in T
    BY <1>2 DEF n
  <2>3. \A i \in 0..n : i \in T
    BY <1>1, <2>1, <2>2, AllOfARow
  <2> QED
    BY <2>1, <2>3
<1>4. ReadTo(text, k).buf \in Seq(Token)
  BY <1>0, ReadIsFed DEF Fed
<1> DEFINE held == ReadTo(text, k).buf
<1>5. held \in Seq(Token) /\ held # <<>> /\ held[1] \notin Blank
  BY <1>3, <1>4
<1> HIDE DEF held, T
<1>6. 1 \in 1..Len(held)
  BY <1>5
<1>7. HasInk(held)
  BY <1>5, <1>6, Ink
<1> QED
  BY <1>7 DEF held

\* A chunk that is cut as it should is fed, whatever is in the buffer.
LEMMA ChunkIsFed ==
  ASSUME NEW text, Readable(text), NEW k \in Nat, NEW n \in Nat \ {0}, k + n <= Len(text),
         ~Between(text, k),
         LET chunk == SubSeq(text, k + 1, k + n)
         IN  IF HasInk(ReadTo(text, k).buf) THEN HasInk(chunk)
             ELSE HasInk(chunk) => LooksLikeSSE(Trim(chunk))
  PROVE  Adapt(ReadTo(text, k).buf, SubSeq(text, k + 1, k + n)) =
           Feed(ReadTo(text, k).buf, SubSeq(text, k + 1, k + n))
<1> DEFINE held == ReadTo(text, k).buf
           chunk == SubSeq(text, k + 1, k + n)
<1>0. text \in Seq(Token) /\ k \in 0..Len(text) /\ k + 1 \in 1..Len(text) /\ (k + 1) - 1 = k
  BY DEF Readable
<1>1. chunk \in Seq(Token) /\ Len(chunk) = n /\ chunk[1] = text[k + 1]
  <2>1. /\ k + 1 \in Nat /\ k + n \in Nat /\ k + 1 <= k + n /\ (k + n) - (k + 1) + 1 = n
        /\ 1 \in 1..n /\ (k + 1) - 1 + 1 = k + 1
    BY <1>0
  <2>2. \A i \in (k + 1)..(k + n) : text[i] \in Token
    BY <1>0
  <2>3. /\ chunk \in Seq(Token) /\ Len(chunk) = n
        /\ \A i \in 1..n : chunk[i] = text[k + i]
    BY <1>0, <2>1, <2>2
  <2> QED
    BY <2>1, <2>3
<1>2. held \in Seq(Token)
  BY <1>0, ReadIsFed DEF Fed
<1>3. held # <<>> => HasInk(held)
  BY <1>0, BufferHasInk
<1>4. held = <<>> => HasInk(chunk)
  <2> SUFFICES ASSUME held = <<>>
               PROVE  HasInk(chunk)
    OBVIOUS
  <2>1. LineEndGoesOn(text, k + 1) => Between(text, k)
    BY <1>0 DEF LineEndGoesOn, Between
  <2>2. text[k + 1] \notin Blank
    BY <1>0, <2>1 DEF Readable
  <2>3. 1 \in 1..Len(chunk) /\ chunk[1] \notin Blank
    <3> HIDE DEF chunk
    <3> QED
      BY <1>1, <2>2
  <2> HIDE DEF chunk
  <2> QED
    BY <1>1, <2>3, Ink
<1> HIDE DEF held, chunk
<1>5. IF HasInk(held) THEN HasInk(chunk) ELSE HasInk(chunk) => LooksLikeSSE(Trim(chunk))
  BY DEF held, chunk
<1>6. HasInk(chunk) /\ (HasInk(held) \/ LooksLikeSSE(Trim(chunk)))
  BY <1>3, <1>4, <1>5
<1>7. Adapt(held, chunk) = Feed(held, chunk)
  BY <1>6, Zenon DEF Adapt
<1> QED
  BY <1>7 DEF held, chunk

\* What the decoder has made of the first k tokens of a stream, and how many payloads that is.
Read(s, k) == IF s.eol = <<>> THEN [payloads |-> SubSeq(Events[s], 1, k), buf |-> <<>>]
              ELSE ReadTo(TextOf[s], k)

Count(s, k) == Len(Read(s, k).payloads)

\* A chunk may begin after the first k tokens.
Cuttable(s, k) == s.eol = <<>> \/ ~Between(TextOf[s], k)

\* ProperCut, but for its end.
CutWell(s, held, chunk) ==
  s.eol # <<>> => IF HasInk(held) THEN HasInk(chunk) ELSE HasInk(chunk) => LooksLikeSSE(Trim(chunk))

LEMMA StreamFacts ==
  ASSUME NEW s \in Streams
  PROVE  /\ TextOf[s] \in Seq(Token)
         /\ s.eol = <<>> =>
              /\ \A i \in 1..Len(TextOf[s]) : TextOf[s][i] \notin Blank /\ TextOf[s][i] # "ev"
              /\ Len(Events[s]) = Len(TextOf[s])
              /\ Events[s] \in Seq(Payload)
              /\ \A i \in 1..Len(TextOf[s]) : Events[s][i] = <<TextOf[s][i]>>
         /\ s.eol # <<>> =>
              /\ Readable(TextOf[s])
              /\ Events[s] = ReadTo(TextOf[s], Len(TextOf[s])).payloads
                               \o Flush(ReadTo(TextOf[s], Len(TextOf[s])).buf)
<1> DEFINE text == TextOf[s]
           whole == ReadTo(text, Len(text))
           events == Events[s]
<1>1. text \in Seq(STRING)
  BY StreamsAssumption
<1>2. s.eol = <<>> => /\ \A i \in DOMAIN text : text[i] \notin Blank \cup {"ev"}
                      /\ events = [i \in DOMAIN text |-> <<text[i]>>]
  BY StreamsAssumption
<1>3. s.eol # <<>> =>
        /\ events = whole.payloads \o Flush(whole.buf)
        /\ \A i \in DOMAIN text :
             text[i] \in Blank => ReadTo(text, i - 1).buf # <<>> \/ LineEndGoesOn(text, i)
  BY StreamsAssumption
<1> HIDE DEF text, events, whole
<1>4. text \in Seq(Token) /\ DOMAIN text = 1..Len(text) /\ Len(text) \in Nat
  <2>1. \A i \in 1..Len(text) : text[i] \in Token
    BY <1>1 DEF Token
  <2> QED
    BY <1>1, <2>1
<1>5. ASSUME s.eol = <<>>
      PROVE  /\ \A i \in 1..Len(text) : text[i] \notin Blank /\ text[i] # "ev"
             /\ Len(events) = Len(text)
             /\ events \in Seq(Payload)
             /\ \A i \in 1..Len(text) : events[i] = <<text[i]>>
  <2>1. \A i \in 1..Len(text) : text[i] \notin Blank /\ text[i] # "ev" /\ text[i] \in Token
    BY <1>2, <1>4, <1>5
  <2>2. \A i \in 1..Len(text) : <<text[i]>> \in Payload
    <3> SUFFICES ASSUME NEW i \in 1..Len(text)
                 PROVE  <<text[i]>> \in Payload
      OBVIOUS
    <3> DEFINE t == text[i]
    <3>1. t \in Token /\ Trim(<<t>>) = <<t>>
      BY <2>1, OneToken
    <3> HIDE DEF t
    <3>2. <<t>> \in Seq(Token)
      BY <3>1
    <3>3. <<t>> \in Payload
      BY <3>1, <3>2 DEF Payload
    <3> QED
      BY <3>3 DEF t
  <2>3. events = [i \in 1..Len(text) |-> <<text[i]>>]
    BY <1>2, <1>4, <1>5
  <2>4. \A i \in 1..Len(text) : events[i] = <<text[i]>> /\ events[i] \in Payload
    BY <2>2, <2>3
  <2>5. events \in [1..Len(text) -> Payload]
    BY <2>3, <2>4
  <2>6. events \in Seq(Payload) /\ Len(events) = Len(text)
    BY <1>4, <2>5
  <2> QED
    BY <2>1, <2>4, <2>6
<1>6. s.eol # <<>> => Readable(text)
  BY <1>3, <1>4 DEF Readable
<1> QED
  BY <1>3, <1>4, <1>5, <1>6 DEF text, events, whole

LEMMA TextIsARow ==
  ASSUME NEW s \in Streams
  PROVE  TextOf[s] \in Seq(Token) /\ Len(TextOf[s]) \in Nat
<1>1. TextOf[s] \in Seq(Token)
  BY StreamFacts, Zenon
<1> QED
  BY <1>1

LEMMA JsonFacts ==
  ASSUME NEW s \in Streams, s.eol = <<>>
  PROVE  /\ \A i \in 1..Len(TextOf[s]) : TextOf[s][i] \notin Blank /\ TextOf[s][i] # "ev"
         /\ Len(Events[s]) = Len(TextOf[s])
         /\ Events[s] \in Seq(Payload)
         /\ \A i \in 1..Len(TextOf[s]) : Events[s][i] = <<TextOf[s][i]>>
BY StreamFacts, Zenon

LEMMA NoInk == ~HasInk(<<>>)
<1> DEFINE text == <<>>
<1>1. text \in Seq(Token) /\ Len(text) = 0
  OBVIOUS
<1> HIDE DEF text
<1>2. HasInk(text) <=> \E i \in 1..Len(text) : text[i] \notin Blank
  BY <1>1, Ink
<1>3. ~HasInk(text)
  BY <1>1, <1>2
<1> QED
  BY <1>3 DEF text

LEMMA FlushShape ==
  ASSUME NEW held \in Seq(Token)
  PROVE  /\ Flush(held) \in Seq(Payload)
         /\ Len(Flush(held)) <= 1
         /\ held = <<>> => Flush(held) = <<>>
<1>1. ASSUME held = <<>>
      PROVE  ParseFrame(held) = <<>>
  <2>1. ~HasInk(held)
    <3> QED
      BY <1>1, NoInk
  <2>2. Trim(held) = <<>>
    BY <2>1 DEF HasInk
  <2> QED
    BY <2>2, Zenon DEF ParseFrame
<1> QED
  BY <1>1, FramePayloads DEF Flush

\* The events of a stream are what is read of its whole text.
LEMMA EventsAreRead ==
  ASSUME NEW s \in Streams
  PROVE  /\ Read(s, Len(TextOf[s])) \in Fed
         /\ Events[s] = Read(s, Len(TextOf[s])).payloads \o Flush(Read(s, Len(TextOf[s])).buf)
         /\ Events[s] \in Seq(Payload)
<1> DEFINE n == Len(TextOf[s])
           read == Read(s, n)
           events == Events[s]
<1>1. n \in Nat /\ n \in 0..n /\ TextOf[s] \in Seq(Token)
  BY TextIsARow
<1>2. CASE s.eol = <<>>
  <2>1. events \in Seq(Payload) /\ Len(events) = n
    BY <1>2, JsonFacts
  <2>2. read = [payloads |-> SubSeq(events, 1, n), buf |-> <<>>]
    BY <1>2 DEF Read
  <2> HIDE DEF read, events
  <2>3. SubSeq(events, 1, n) = events
    BY <2>1, SubSeqFull
  <2>4. <<>> \in Seq(Token)
    OBVIOUS
  <2>5. Flush(<<>>) = <<>>
    BY <2>4, FlushShape
  <2>6. events \o <<>> = events
    BY <2>1
  <2>7. read \in Fed /\ events = read.payloads \o Flush(read.buf)
    BY <2>1, <2>2, <2>3, <2>4, <2>5, <2>6 DEF Fed
  <2> QED
    BY <2>1, <2>7 DEF read, events
<1>3. CASE s.eol # <<>>
  <2>1. read = ReadTo(TextOf[s], n)
    BY <1>3 DEF Read
  <2>2. events = read.payloads \o Flush(read.buf)
    BY <1>3, <2>1, StreamFacts
  <2>3. read \in Fed
    BY <1>1, <2>1, ReadIsFed
  <2> HIDE DEF read, events
  <2>4. read.payloads \in Seq(Payload) /\ read.buf \in Seq(Token)
    BY <2>3 DEF Fed
  <2>5. Flush(read.buf) \in Seq(Payload)
    BY <2>4, FlushShape
  <2>6. events \in Seq(Payload)
    BY <2>2, <2>4, <2>5
  <2> QED
    BY <2>2, <2>3, <2>6 DEF read, events
<1> QED
  BY <1>2, <1>3

\* A part of a stream, and the rest of it.
LEMMA Concatenated ==
  ASSUME NEW S, NEW a \in Seq(S), NEW b \in Seq(S)
  PROVE  /\ a \o b \in Seq(S)
         /\ Len(a \o b) = Len(a) + Len(b)
         /\ \A i \in 1..Len(a) : (a \o b)[i] = a[i]
         /\ \A i \in 1..Len(b) : (a \o b)[Len(a) + i] = b[i]
BY ConcatProperties

\* The decoder is always where it would be had the text come in one piece.
LEMMA ChunkIsRead ==
  ASSUME NEW s \in Streams, NEW k \in Nat, NEW n \in Nat \ {0}, k + n <= Len(TextOf[s]),
         s.eol = <<>> => n = 1, Cuttable(s, k),
         CutWell(s, Read(s, k).buf, SubSeq(TextOf[s], k + 1, k + n))
  PROVE  /\ Read(s, k) \in Fed
         /\ Adapt(Read(s, k).buf, SubSeq(TextOf[s], k + 1, k + n)) \in Fed
         /\ Read(s, k + n) = After(Read(s, k), Adapt(Read(s, k).buf, SubSeq(TextOf[s], k + 1, k + n)))
<1> DEFINE text == TextOf[s]
           chunk == SubSeq(text, k + 1, k + n)
           read == Read(s, k)
           fed == Adapt(read.buf, chunk)
<1>1. text \in Seq(Token) /\ k \in 0..Len(text) /\ k + 1 \in 1..Len(text) /\ k + n <= Len(text)
  <2>1. text \in Seq(Token) /\ Len(text) \in Nat
    BY TextIsARow
  <2> QED
    BY <2>1
<1>2. CASE s.eol = <<>>
  <2> DEFINE t == text[k + 1]
             events == Events[s]
  <2>1. /\ t \in Token /\ t \notin Blank /\ t # "ev" /\ events[k + 1] = <<t>> /\ n = 1
        /\ events \in Seq(Payload) /\ Len(events) = Len(text)
    <3>1. /\ \A i \in 1..Len(text) : text[i] \notin Blank /\ text[i] # "ev"
          /\ Len(events) = Len(text)
          /\ events \in Seq(Payload)
          /\ \A i \in 1..Len(text) : events[i] = <<text[i]>>
      BY <1>2, JsonFacts
    <3>2. t \in Token
      BY <1>1
    <3> HIDE DEF text, events
    <3> QED
      BY <1>1, <1>2, <3>1, <3>2
  <2>2. read = [payloads |-> SubSeq(events, 1, k), buf |-> <<>>]
    BY <1>2 DEF Read
  <2>3. Read(s, k + n) = [payloads |-> SubSeq(events, 1, k + 1), buf |-> <<>>]
    BY <1>2, <2>1 DEF Read
  <2> HIDE DEF read, events
  <2>4. chunk = <<t>>
    <3>1. chunk \in Seq(Token) /\ Len(chunk) = 1 /\ chunk[1] = t
      <4> DEFINE j == k + 1
      <4>1. j \in 1..Len(text) /\ k + n = j /\ text \in Seq(Token)
        BY <1>1, <2>1
      <4> HIDE DEF text, j
      <4>2. /\ SubSeq(text, j, j) \in Seq(Token) /\ Len(SubSeq(text, j, j)) = 1
            /\ SubSeq(text, j, j)[1] = text[j]
        BY <4>1
      <4> QED
        BY <4>1, <4>2 DEF t, j
    <3> HIDE DEF chunk, t
    <3>2. <<t>> \in Seq(Token) /\ Len(<<t>>) = 1 /\ <<t>>[1] = t
      BY <2>1
    <3>3. \A i \in 1..1 : chunk[i] = <<t>>[i]
      BY <3>1, <3>2
    <3> QED
      BY <3>1, <3>2, <3>3, SeqEqual
  <2> HIDE DEF chunk, t, text
  <2>5. ~HasInk(<<>>)
    BY NoInk
  <2>6. HasInk(chunk) /\ Trim(chunk) = <<t>> /\ ~LooksLikeSSE(Trim(chunk))
    BY <2>1, <2>4, OneToken
  <2>7. read.buf = <<>> /\ read.payloads = SubSeq(events, 1, k)
    BY <2>2
  <2>8. fed = [payloads |-> <<Trim(chunk)>>, buf |-> read.buf]
    BY <2>5, <2>6, <2>7, Zenon DEF Adapt
  <2>9. fed = [payloads |-> << <<t>> >>, buf |-> <<>>]
    BY <2>6, <2>7, <2>8
  <2> HIDE DEF fed
  <2> DEFINE x == <<t>>
  <2>10. x \in Payload /\ x = events[k + 1]
    BY <1>1, <2>1
  <2> HIDE DEF x
  <2>11. <<x>> \in Seq(Payload) /\ SubSeq(events, 1, k) \in Seq(Payload)
    BY <1>1, <2>1, <2>10
  <2>12. SubSeq(events, 1, k) \o <<x>> = SubSeq(events, 1, k + 1)
    <3>1. Len(SubSeq(events, 1, k) \o <<x>>) = k + 1 /\ Len(SubSeq(events, 1, k + 1)) = k + 1
      BY <1>1, <2>1, <2>10
    <3>2. \A i \in 1..k + 1 : SubSeq(events, 1, k + 1)[i] = events[i]
      BY <1>1, <2>1
    <3>3. \A i \in 1..k + 1 : (SubSeq(events, 1, k) \o <<x>>)[i] = events[i]
      <4> DEFINE p == SubSeq(events, 1, k)
      <4>1. p \in Seq(Payload) /\ Len(p) = k /\ \A i \in 1..k : p[i] = events[i]
        BY <1>1, <2>1
      <4> HIDE DEF p
      <4>2. p \o <<x>> = Append(p, x)
        BY <2>10, <4>1
      <4>3. \A i \in 1..k + 1 : Append(p, x)[i] = events[i]
        BY <2>10, <4>1
      <4> QED
        BY <4>2, <4>3 DEF p
    <3>4. SubSeq(events, 1, k) \o <<x>> \in Seq(Payload) /\ SubSeq(events, 1, k + 1) \in Seq(Payload)
      BY <1>1, <2>1, <2>11
    <3> QED
      BY <3>1, <3>2, <3>3, <3>4, SeqEqual
  <2>13. fed \in Fed /\ read \in Fed
    <3>1. fed = [payloads |-> <<x>>, buf |-> <<>>]
      BY <2>9 DEF x
    <3>2. <<>> \in Seq(Token)
      OBVIOUS
    <3> QED
      BY <2>2, <2>11, <3>1, <3>2 DEF Fed
  <2>14. Read(s, k + n) = After(read, fed)
    <3>1. fed.payloads = <<x>> /\ fed.buf = <<>>
      BY <2>9 DEF x
    <3> QED
      BY <2>3, <2>7, <2>12, <3>1 DEF After
  <2> QED
    BY <2>13, <2>14 DEF read, fed, chunk, text
<1>3. CASE s.eol # <<>>
  <2>1. Readable(text) /\ ~Between(text, k)
    BY <1>3, StreamFacts DEF Cuttable
  <2>2. read = ReadTo(text, k) /\ Read(s, k + n) = ReadTo(text, k + n)
    BY <1>3 DEF Read
  <2>3. IF HasInk(ReadTo(text, k).buf) THEN HasInk(chunk)
        ELSE HasInk(chunk) => LooksLikeSSE(Trim(chunk))
    BY <1>3, <2>2 DEF CutWell
  <2> HIDE DEF text
  <2>4. Adapt(ReadTo(text, k).buf, chunk) = Feed(ReadTo(text, k).buf, chunk)
    BY <1>1, <2>1, <2>3, ChunkIsFed
  <2>5. ReadTo(text, k + n) = After(ReadTo(text, k), Feed(ReadTo(text, k).buf, chunk))
    BY <1>1, <2>1, CutAnywhere
  <2>6. ReadTo(text, k) \in Fed
    BY <1>1, ReadIsFed
  <2>7. ReadTo(text, k).buf \in Seq(Token) /\ chunk \in Seq(Token)
    BY <1>1, <2>6 DEF Fed
  <2>8. Feed(ReadTo(text, k).buf, chunk) \in Fed
    BY <2>7, FeedIsFed
  <2> QED
    BY <2>2, <2>4, <2>5, <2>6, <2>8 DEF text
<1> QED
  BY <1>2, <1>3

\* What has been read where a chunk may begin is a beginning of the events.
LEMMA ReadIsBeginning ==
  ASSUME NEW s \in Streams, NEW k \in 0..Len(TextOf[s]), Cuttable(s, k)
  PROVE  /\ Read(s, k) \in Fed
         /\ Count(s, k) \in 0..Len(Events[s])
         /\ \A i \in 1..Count(s, k) : Read(s, k).payloads[i] = Events[s][i]
<1> DEFINE text == TextOf[s]
           events == Events[s]
           read == Read(s, k)
           c == Count(s, k)
<1>1. text \in Seq(Token) /\ k \in Nat /\ Len(text) - k \in Nat /\ k + (Len(text) - k) = Len(text)
  <2>1. text \in Seq(Token) /\ Len(text) \in Nat
    BY TextIsARow
  <2> QED
    BY <2>1
<1>2. events \in Seq(Payload)
  BY EventsAreRead
<1>3. CASE s.eol = <<>>
  <2>1. read = [payloads |-> SubSeq(events, 1, k), buf |-> <<>>] /\ Len(events) = Len(text)
    BY <1>3, JsonFacts DEF Read
  <2> HIDE DEF read, events
  <2>2. /\ SubSeq(events, 1, k) \in Seq(Payload) /\ Len(SubSeq(events, 1, k)) = k
        /\ \A i \in 1..k : SubSeq(events, 1, k)[i] = events[i]
    BY <1>2, <2>1
  <2>3. <<>> \in Seq(Token)
    OBVIOUS
  <2>4. read \in Fed
    BY <2>1, <2>2, <2>3 DEF Fed
  <2>5. c = k
    BY <2>1, <2>2 DEF Count, read
  <2> HIDE DEF c
  <2> QED
    BY <2>1, <2>2, <2>4, <2>5 DEF read, events, c
<1>4. CASE s.eol # <<>>
  <2> DEFINE whole == ReadTo(text, Len(text))
             rest == Feed(ReadTo(text, k).buf, SubSeq(text, k + 1, Len(text)))
  <2>1. read = ReadTo(text, k) /\ ~Between(text, k)
    BY <1>4 DEF Read, Cuttable
  <2>2. whole = After(ReadTo(text, k), rest)
    <3> HIDE DEF text
    <3>1. ReadTo(text, k + (Len(text) - k)) =
            After(ReadTo(text, k), Feed(ReadTo(text, k).buf, SubSeq(text, k + 1, k + (Len(text) - k))))
      <4> DEFINE n == Len(text) - k
      <4>1. n \in Nat /\ k + n <= Len(text)
        BY <1>1
      <4> HIDE DEF n
      <4>2. ReadTo(text, k + n) =
              After(ReadTo(text, k), Feed(ReadTo(text, k).buf, SubSeq(text, k + 1, k + n)))
        BY <1>1, <2>1, <4>1, CutAnywhere
      <4> QED
        BY <4>2 DEF n
    <3> QED
      BY <1>1, <3>1
  <2>3. events = whole.payloads \o Flush(whole.buf)
    BY <1>4, StreamFacts
  <2>4. read \in Fed
    BY <1>1, <2>1, ReadIsFed
  <2>5. read.payloads \in Seq(Payload) /\ read.buf \in Seq(Token)
    BY <2>4 DEF Fed
  <2>6. rest \in Fed
    <3>1. SubSeq(text, k + 1, Len(text)) \in Seq(Token)
      BY <1>1
    <3> QED
      BY <2>1, <2>5, <3>1, FeedIsFed
  <2>7. rest.payloads \in Seq(Payload) /\ rest.buf \in Seq(Token)
    BY <2>6 DEF Fed
  <2>8. Flush(rest.buf) \in Seq(Payload)
    BY <2>7, FlushShape
  <2>9. events = (read.payloads \o rest.payloads) \o Flush(rest.buf)
    <3> HIDE DEF whole, rest, events, read, text
    <3>1. whole = [payloads |-> read.payloads \o rest.payloads, buf |-> rest.buf]
      BY <2>1, <2>2 DEF After
    <3>2. whole.payloads = read.payloads \o rest.payloads /\ whole.buf = rest.buf
      BY <3>1
    <3> QED
      BY <2>3, <3>2
  <2>10. c = Len(read.payloads)
    BY DEF Count
  <2> DEFINE a == read.payloads
             b == rest.payloads
             f == Flush(rest.buf)
  <2>11. a \in Seq(Payload) /\ b \in Seq(Payload) /\ f \in Seq(Payload) /\ events = (a \o b) \o f
    BY <2>5, <2>7, <2>8, <2>9
  <2> HIDE DEF a, b, f, events, c
  <2>12. Len(a) \in 0..Len(events) /\ \A i \in 1..Len(a) : a[i] = events[i]
    <3>1. /\ a \o b \in Seq(Payload) /\ Len(a \o b) = Len(a) + Len(b)
          /\ \A i \in 1..Len(a) : (a \o b)[i] = a[i]
      BY <2>11, Concatenated
    <3>2. /\ Len(events) = Len(a \o b) + Len(f)
          /\ \A i \in 1..Len(a \o b) : events[i] = (a \o b)[i]
      BY <2>11, <3>1, Concatenated
    <3>3. Len(a) \in Nat /\ Len(b) \in Nat /\ Len(f) \in Nat
      BY <2>11
    <3> QED
      BY <3>1, <3>2, <3>3
  <2> QED
    BY <2>4, <2>10, <2>12 DEF a, read, c, events
<1> QED
  BY <1>3, <1>4

\* The payloads of a chunk are the events that come next.
LEMMA ChunkGives ==
  ASSUME NEW s \in Streams, NEW k \in Nat, NEW n \in Nat \ {0}, k + n <= Len(TextOf[s]),
         s.eol = <<>> => n = 1, Cuttable(s, k), Cuttable(s, k + n),
         CutWell(s, Read(s, k).buf, SubSeq(TextOf[s], k + 1, k + n))
  PROVE  LET fed == Adapt(Read(s, k).buf, SubSeq(TextOf[s], k + 1, k + n))
         IN  /\ fed.payloads \in Seq(Payload)
             /\ fed.buf = Read(s, k + n).buf
             /\ Count(s, k + n) = Count(s, k) + Len(fed.payloads)
             /\ \A i \in 1..Len(fed.payloads) : fed.payloads[i] = Events[s][Count(s, k) + i]
<1> DEFINE fed == Adapt(Read(s, k).buf, SubSeq(TextOf[s], k + 1, k + n))
           a == Read(s, k).payloads
           b == fed.payloads
           ab == Read(s, k + n).payloads
<1>1. Read(s, k) \in Fed /\ fed \in Fed /\ Read(s, k + n) = After(Read(s, k), fed)
  BY ChunkIsRead
<1>2. a \in Seq(Payload) /\ b \in Seq(Payload) /\ ab = a \o b /\ fed.buf = Read(s, k + n).buf
  BY <1>1 DEF Fed, After
<1>3. /\ Len(ab) = Count(s, k + n) /\ Len(a) = Count(s, k)
  BY DEF Count
<1>4. Len(ab) \in 0..Len(Events[s]) /\ \A i \in 1..Len(ab) : ab[i] = Events[s][i]
  <2>1. Len(TextOf[s]) \in Nat
    BY TextIsARow
  <2>2. k + n \in 0..Len(TextOf[s])
    BY <2>1
  <2> QED
    BY <1>3, <2>2, ReadIsBeginning
<1> HIDE DEF a, ab, fed
<1>5. b \in Seq(Payload)
  BY <1>2
<1> HIDE DEF b
<1>6. /\ Len(ab) = Len(a) + Len(b)
      /\ \A i \in 1..Len(b) : ab[Len(a) + i] = b[i]
  BY <1>2, <1>5, Concatenated
<1>7. \A i \in 1..Len(b) : Len(a) + i \in 1..Len(ab)
  BY <1>2, <1>5, <1>6
<1> QED
  BY <1>2, <1>3, <1>4, <1>5, <1>6, <1>7 DEF b, fed

\* What is flushed at the end is the event that was left, if any.
LEMMA RestGives ==
  ASSUME NEW s \in Streams
  PROVE  LET k == Len(TextOf[s])
             rest == Flush(Read(s, k).buf)
         IN  /\ Count(s, k) + Len(rest) = Len(Events[s])
             /\ \A i \in 1..Len(rest) : rest[i] = Events[s][Count(s, k) + i]
<1> DEFINE k == Len(TextOf[s])
           a == Read(s, k).payloads
           rest == Flush(Read(s, k).buf)
<1>1. Read(s, k) \in Fed /\ Events[s] = a \o rest
  BY EventsAreRead
<1>2. a \in Seq(Payload) /\ rest \in Seq(Payload)
  BY <1>1, FlushShape DEF Fed
<1>3. Count(s, k) = Len(a)
  BY DEF Count
<1> HIDE DEF a, rest, k
<1> QED
  BY <1>1, <1>2, <1>3, Concatenated DEF rest, k

\* Up to where an answer goes: no payload that ends it comes before, and none is left out but
\* after one.
Unended(s, q) == q <= Len(Events[s]) /\ \A i \in 1..q : ~IsTerminal(Events[s][i])

LEMMA MeantFacts ==
  ASSUME NEW s \in Streams
  PROVE  /\ Events[s] \in Seq(Payload)
         /\ Meant[s] \in Seq(Payload)
         /\ Len(Meant[s]) <= Len(Events[s])
         /\ \A i \in 1..Len(Meant[s]) : Meant[s][i] = Events[s][i]
         /\ \A i \in 1..Len(Meant[s]) - 1 : ~IsTerminal(Events[s][i])
         /\ Len(Meant[s]) < Len(Events[s]) =>
              Len(Meant[s]) > 0 /\ IsTerminal(Events[s][Len(Meant[s])])
<1> DEFINE events == Events[s]
           ends == {i \in 1..Len(events) : IsTerminal(events[i])}
           meant == Meant[s]
<1>1. events \in Seq(Payload)
  BY EventsAreRead
<1>2. DOMAIN events = 1..Len(events) /\ Len(events) \in Nat
  BY <1>1
<1>3. meant = IF ends = {} THEN events ELSE SubSeq(events, 1, Min(ends))
  BY <1>2 DEF Meant
<1> HIDE DEF events
<1>4. CASE ends = {}
  <2>1. meant = events /\ \A i \in 1..Len(events) : ~IsTerminal(events[i])
    BY <1>3, <1>4
  <2> HIDE DEF meant, ends
  <2> QED
    BY <1>1, <1>2, <2>1 DEF meant, events
<1>5. CASE ends # {}
  <2> DEFINE m == Min(ends)
  <2>1. ends \in SUBSET Nat
    OBVIOUS
  <2>2. m \in ends /\ \A i \in ends : m <= i
    <3> HIDE DEF ends
    <3> QED
      BY <1>5, <2>1, LeastIs
  <2> HIDE DEF m
  <2>3. m \in 1..Len(events) /\ IsTerminal(events[m])
    BY <2>2
  <2>4. \A i \in 1..m - 1 : ~IsTerminal(events[i])
    <3> SUFFICES ASSUME NEW i \in 1..m - 1, IsTerminal(events[i])
                 PROVE  FALSE
      OBVIOUS
    <3>1. i \in 1..Len(events) /\ ~(m <= i)
      BY <1>2, <2>3
    <3>2. i \in ends
      BY <3>1
    <3> QED
      BY <2>2, <3>1, <3>2
  <2>5. meant = SubSeq(events, 1, m)
    BY <1>3, <1>5 DEF m
  <2> HIDE DEF meant, ends
  <2>6. meant \in Seq(Payload) /\ Len(meant) = m /\ \A i \in 1..m : meant[i] = events[i]
    BY <1>1, <1>2, <2>3, <2>5
  <2> QED
    BY <1>1, <1>2, <2>3, <2>4, <2>6 DEF meant, events
<1> QED
  BY <1>4, <1>5

-----------------------------------------------------------------------------
(* The way to the client. *)

\* What the loop sends.
Item == [kind : {"payload", "tail", "error"}, payload : Payload \cup {<<>>}]

\* The events of a stream come in their order from the one after the n-th on, only the last of
\* them may be a part, and an error is last.
InARow(s, line, n) ==
  \A i \in 1..Len(line) :
    /\ line[i].kind = "error" => i = Len(line)
    /\ line[i].kind = "tail" => \A j \in i + 1..Len(line) : line[j].kind = "error"
    /\ line[i].kind = "payload" => n + i <= Len(Events[s]) /\ line[i].payload = Events[s][n + i]

\* Nothing comes after the end of the answer.
Within(s, line, n) ==
  \A i \in 1..Len(line) :
    /\ line[i].kind = "payload" => n + i <= Len(Meant[s])
    /\ line[i].kind = "tail" => n + i <= Len(Meant[s]) + 1

Only(kind, line) == \A i \in 1..Len(line) : line[i].kind = kind

NoError(line) == \A i \in 1..Len(line) : line[i].kind # "error"

\* No item is a part only.
AllWhole(s, line, n) == \A i \in 1..Len(line) : line[i].payload = Events[s][n + i]

\* What was got begins with n events that it should.
Right(s, g, n) == n <= Len(Meant[s]) /\ \A i \in 1..n : g[i] = Meant[s][i]

LEMMA Regrouped ==
  ASSUME NEW a \in Seq(Item), NEW b \in Seq(Item), NEW c \in Seq(Item)
  PROVE  (a \o b) \o c = a \o (b \o c)
BY ConcatAssociative

LEMMA Kinds ==
  ASSUME NEW line \in Seq(Item), NEW i \in 1..Len(line)
  PROVE  line[i] \in Item /\ line[i].kind \in {"payload", "tail", "error"}
<1>1. line[i] \in Item
  OBVIOUS
<1> QED
  BY <1>1 DEF Item

\* Two rows that are one after another.
LEMMA RowJoined ==
  ASSUME NEW s, NEW a \in Seq(Item), NEW b \in Seq(Item), NEW n \in Nat,
         InARow(s, a, n), Only("payload", a), InARow(s, b, n + Len(a))
  PROVE  InARow(s, a \o b, n)
<1> DEFINE line == a \o b
<1>1. /\ Len(line) = Len(a) + Len(b) /\ Len(a) \in Nat /\ Len(b) \in Nat
      /\ \A i \in 1..Len(a) : line[i] = a[i]
      /\ \A i \in 1..Len(b) : line[Len(a) + i] = b[i]
  BY Concatenated
<1> HIDE DEF line
<1>2. SUFFICES ASSUME NEW i \in 1..Len(line)
               PROVE  /\ line[i].kind = "error" => i = Len(line)
                      /\ line[i].kind = "tail" => \A j \in i + 1..Len(line) : line[j].kind = "error"
                      /\ line[i].kind = "payload" =>
                           n + i <= Len(Events[s]) /\ line[i].payload = Events[s][n + i]
  BY DEF InARow, line
<1>3. CASE i <= Len(a)
  <2>1. i \in 1..Len(a) /\ line[i] = a[i] /\ a[i].kind = "payload"
    BY <1>1, <1>3 DEF Only
  <2> QED
    BY <2>1 DEF InARow
<1>4. CASE i > Len(a)
  <2> DEFINE k == i - Len(a)
  <2>1. k \in 1..Len(b) /\ i = Len(a) + k /\ n + i = (n + Len(a)) + k
    BY <1>1, <1>4
  <2> HIDE DEF k
  <2>2. line[i] = b[k]
    BY <1>1, <2>1
  <2>3. /\ b[k].kind = "error" => k = Len(b)
        /\ b[k].kind = "tail" => \A j \in k + 1..Len(b) : b[j].kind = "error"
        /\ b[k].kind = "payload" =>
             (n + Len(a)) + k <= Len(Events[s]) /\ b[k].payload = Events[s][(n + Len(a)) + k]
    BY <2>1 DEF InARow
  <2>4. ASSUME line[i].kind = "tail", NEW j \in i + 1..Len(line)
        PROVE  line[j].kind = "error"
    <3>1. j - Len(a) \in k + 1..Len(b) /\ j - Len(a) \in 1..Len(b) /\ j = Len(a) + (j - Len(a))
      BY <1>1, <2>1
    <3>2. line[j] = b[j - Len(a)]
      BY <1>1, <3>1
    <3> QED
      BY <2>2, <2>3, <2>4, <3>1, <3>2
  <2> QED
    BY <1>1, <2>1, <2>2, <2>3, <2>4
<1> QED
  BY <1>1, <1>3, <1>4

LEMMA WholeJoined ==
  ASSUME NEW s, NEW a \in Seq(Item), NEW b \in Seq(Item), NEW n \in Nat,
         AllWhole(s, a, n), AllWhole(s, b, n + Len(a))
  PROVE  AllWhole(s, a \o b, n)
<1> DEFINE line == a \o b
<1>1. /\ Len(line) = Len(a) + Len(b) /\ Len(a) \in Nat /\ Len(b) \in Nat
      /\ \A i \in 1..Len(a) : line[i] = a[i]
      /\ \A i \in 1..Len(b) : line[Len(a) + i] = b[i]
  BY Concatenated
<1> HIDE DEF line
<1>2. SUFFICES ASSUME NEW i \in 1..Len(line)
               PROVE  line[i].payload = Events[s][n + i]
  BY DEF AllWhole, line
<1>3. CASE i <= Len(a)
  BY <1>1, <1>3 DEF AllWhole
<1>4. CASE i > Len(a)
  <2>1. i - Len(a) \in 1..Len(b) /\ i = Len(a) + (i - Len(a)) /\ n + i = (n + Len(a)) + (i - Len(a))
    BY <1>1, <1>4
  <2>2. line[i] = b[i - Len(a)]
    BY <1>1, <2>1
  <2> QED
    BY <2>1, <2>2 DEF AllWhole
<1> QED
  BY <1>1, <1>3, <1>4

\* A row whose end is cut off.
LEMMA RowCut ==
  ASSUME NEW s, NEW a \in Seq(Item), NEW b \in Seq(Item), NEW n \in Nat
  PROVE  /\ InARow(s, a \o b, n) => InARow(s, a, n)
         /\ Within(s, a \o b, n) => Within(s, a, n)
         /\ AllWhole(s, a \o b, n) => AllWhole(s, a, n)
         /\ \A kind : Only(kind, a \o b) => Only(kind, a)
<1> DEFINE line == a \o b
<1>1. /\ Len(line) = Len(a) + Len(b) /\ Len(a) \in Nat /\ Len(b) \in Nat
      /\ \A i \in 1..Len(a) : line[i] = a[i]
  BY Concatenated
<1> HIDE DEF line
<1>2. \A i \in 1..Len(a) : i \in 1..Len(line) /\ i <= Len(a)
  BY <1>1
<1>3. InARow(s, line, n) => InARow(s, a, n)
  <2> SUFFICES ASSUME InARow(s, line, n), NEW i \in 1..Len(a)
               PROVE  /\ a[i].kind = "error" => i = Len(a)
                      /\ a[i].kind = "tail" => \A j \in i + 1..Len(a) : a[j].kind = "error"
                      /\ a[i].kind = "payload" =>
                           n + i <= Len(Events[s]) /\ a[i].payload = Events[s][n + i]
    BY DEF InARow
  <2>1. /\ line[i].kind = "error" => i = Len(line)
        /\ line[i].kind = "tail" => \A j \in i + 1..Len(line) : line[j].kind = "error"
        /\ line[i].kind = "payload" =>
             n + i <= Len(Events[s]) /\ line[i].payload = Events[s][n + i]
    BY <1>2 DEF InARow
  <2>2. \A j \in i + 1..Len(a) : j \in i + 1..Len(line) /\ line[j] = a[j]
    BY <1>1
  <2>3. line[i] = a[i] /\ (i = Len(line) => i = Len(a))
    BY <1>1
  <2> QED
    BY <2>1, <2>2, <2>3
<1>4. Within(s, line, n) => Within(s, a, n)
  BY <1>1, <1>2 DEF Within
<1>5. AllWhole(s, line, n) => AllWhole(s, a, n)
  BY <1>1, <1>2 DEF AllWhole
<1>6. \A kind : Only(kind, line) => Only(kind, a)
  BY <1>1, <1>2 DEF Only
<1> QED
  BY <1>3, <1>4, <1>5, <1>6 DEF line

\* A row without its first.
LEMMA RowTail ==
  ASSUME NEW s, NEW line \in Seq(Item), line # <<>>, NEW n \in Nat
  PROVE  /\ Tail(line) \in Seq(Item) /\ Len(Tail(line)) = Len(line) - 1
         /\ InARow(s, line, n) => InARow(s, Tail(line), n + 1)
         /\ Within(s, line, n) => Within(s, Tail(line), n + 1)
         /\ AllWhole(s, line, n) => AllWhole(s, Tail(line), n + 1)
         /\ \A kind : Only(kind, line) => Only(kind, Tail(line))
         /\ line[1].kind # "error" /\ NoError(Tail(line)) => NoError(line)
<1> DEFINE a == Tail(line)
<1>1. /\ a \in Seq(Item) /\ Len(a) = Len(line) - 1 /\ Len(line) \in Nat \ {0}
      /\ \A i \in 1..Len(a) : a[i] = line[i + 1]
  OBVIOUS
<1> HIDE DEF a
<1>2. \A i \in 1..Len(a) : i + 1 \in 1..Len(line) /\ (n + 1) + i = n + (i + 1)
  BY <1>1
<1>3. InARow(s, line, n) => InARow(s, a, n + 1)
  <2> SUFFICES ASSUME InARow(s, line, n), NEW i \in 1..Len(a)
               PROVE  /\ a[i].kind = "error" => i = Len(a)
                      /\ a[i].kind = "tail" => \A j \in i + 1..Len(a) : a[j].kind = "error"
                      /\ a[i].kind = "payload" =>
                           (n + 1) + i <= Len(Events[s]) /\ a[i].payload = Events[s][(n + 1) + i]
    BY DEF InARow
  <2>1. /\ line[i + 1].kind = "error" => i + 1 = Len(line)
        /\ line[i + 1].kind = "tail" => \A j \in (i + 1) + 1..Len(line) : line[j].kind = "error"
        /\ line[i + 1].kind = "payload" =>
             n + (i + 1) <= Len(Events[s]) /\ line[i + 1].payload = Events[s][n + (i + 1)]
    BY <1>2 DEF InARow
  <2>2. \A j \in i + 1..Len(a) : j + 1 \in (i + 1) + 1..Len(line) /\ line[j + 1] = a[j]
    BY <1>1
  <2>3. line[i + 1] = a[i] /\ (i + 1 = Len(line) => i = Len(a))
    BY <1>1
  <2> QED
    BY <1>2, <2>1, <2>2, <2>3
<1>4. Within(s, line, n) => Within(s, a, n + 1)
  BY <1>1, <1>2 DEF Within
<1>5. AllWhole(s, line, n) => AllWhole(s, a, n + 1)
  BY <1>1, <1>2 DEF AllWhole
<1>6. \A kind : Only(kind, line) => Only(kind, a)
  BY <1>1, <1>2 DEF Only
<1>7. line[1].kind # "error" /\ NoError(a) => NoError(line)
  <2> SUFFICES ASSUME line[1].kind # "error", NoError(a), NEW i \in 1..Len(line)
               PROVE  line[i].kind # "error"
    BY DEF NoError
  <2>1. CASE i = 1
    BY <2>1
  <2>2. CASE i # 1
    <3>1. i - 1 \in 1..Len(a) /\ (i - 1) + 1 = i
      BY <1>1, <2>2
    <3> QED
      BY <1>1, <3>1 DEF NoError
  <2> QED
    BY <2>1, <2>2
<1> QED
  BY <1>1, <1>3, <1>4, <1>5, <1>6, <1>7 DEF a

\* What is next to be sent, after what was: if it is no error, what was sent are payloads, and if
\* it is no payload, at most an error follows.
LEMMA NextInRow ==
  ASSUME NEW s, NEW a \in Seq(Item), NEW b \in Seq(Item), b # <<>>, NEW n \in Nat,
         InARow(s, a \o b, n)
  PROVE  /\ b[1].kind # "error" => Only("payload", a) /\ AllWhole(s, a, n)
         /\ b[1].kind = "error" => Tail(b) = <<>>
         /\ b[1].kind = "tail" => Only("error", Tail(b)) /\ InARow(s, Tail(b), n + Len(a))
         /\ b[1].kind = "payload" =>
              n + Len(a) + 1 <= Len(Events[s]) /\ b[1].payload = Events[s][n + Len(a) + 1]
<1> DEFINE line == a \o b
           c == Tail(b)
<1>1. /\ Len(line) = Len(a) + Len(b) /\ Len(a) \in Nat /\ Len(b) \in Nat /\ Len(b) >= 1
      /\ \A i \in 1..Len(a) : line[i] = a[i]
      /\ \A i \in 1..Len(b) : line[Len(a) + i] = b[i]
  <2>1. Len(b) \in Nat \ {0}
    OBVIOUS
  <2> QED
    BY <2>1, Concatenated
<1>2. Len(c) = Len(b) - 1 /\ c \in Seq(Item) /\ \A i \in 1..Len(c) : c[i] = b[i + 1]
  OBVIOUS
<1> HIDE DEF line, c
<1>3. \A i \in 1..Len(line) :
        /\ line[i].kind = "error" => i = Len(line)
        /\ line[i].kind = "tail" => \A j \in i + 1..Len(line) : line[j].kind = "error"
        /\ line[i].kind = "payload" =>
             n + i <= Len(Events[s]) /\ line[i].payload = Events[s][n + i]
  BY DEF InARow, line
<1>4. Len(a) + 1 \in 1..Len(line) /\ line[Len(a) + 1] = b[1] /\ n + (Len(a) + 1) = n + Len(a) + 1
  BY <1>1
<1>5. ASSUME b[1].kind # "error"
      PROVE  Only("payload", a) /\ AllWhole(s, a, n)
  <2>1. ASSUME NEW i \in 1..Len(a)
        PROVE  a[i].kind = "payload" /\ a[i].payload = Events[s][n + i]
    <3>1. i \in 1..Len(line) /\ Len(a) + 1 \in i + 1..Len(line) /\ i # Len(line) /\ line[i] = a[i]
      BY <1>1
    <3>2. a[i].kind \in {"payload", "tail", "error"}
      BY Kinds
    <3> QED
      BY <1>3, <1>4, <1>5, <3>1, <3>2
  <2> QED
    BY <2>1 DEF Only, AllWhole
<1>6. ASSUME b[1].kind = "error"
      PROVE  c = <<>>
  <2>1. Len(a) + 1 = Len(line)
    BY <1>3, <1>4, <1>6
  <2>2. Len(c) = 0
    BY <1>1, <1>2, <2>1
  <2> QED
    BY <1>2, <2>2
<1>7. ASSUME b[1].kind = "tail"
      PROVE  Only("error", c) /\ InARow(s, c, n + Len(a))
  <2>1. ASSUME NEW i \in 1..Len(c)
        PROVE  c[i].kind = "error" /\ i = Len(c)
    <3>1. /\ i + 1 \in 1..Len(b) /\ Len(a) + (i + 1) \in (Len(a) + 1) + 1..Len(line)
          /\ Len(a) + (i + 1) \in 1..Len(line)
      BY <1>1, <1>2
    <3>2. line[Len(a) + (i + 1)] = c[i]
      BY <1>1, <1>2, <3>1
    <3>3. c[i].kind = "error"
      BY <1>3, <1>4, <1>7, <3>1, <3>2
    <3>4. Len(a) + (i + 1) = Len(line)
      BY <1>3, <3>1, <3>2, <3>3
    <3> QED
      BY <1>1, <1>2, <3>3, <3>4
  <2>2. Only("error", c)
    BY <2>1 DEF Only
  <2>3. InARow(s, c, n + Len(a))
    <3> SUFFICES ASSUME NEW i \in 1..Len(c)
                 PROVE  /\ c[i].kind = "error" => i = Len(c)
                        /\ c[i].kind # "tail" /\ c[i].kind # "payload"
      BY DEF InARow
    <3> QED
      BY <2>1
  <2> QED
    BY <2>2, <2>3
<1>8. b[1].kind = "payload" =>
        n + Len(a) + 1 <= Len(Events[s]) /\ b[1].payload = Events[s][n + Len(a) + 1]
  BY <1>3, <1>4
<1> QED
  BY <1>5, <1>6, <1>7, <1>8 DEF c

\* How far an answer goes.
LEMMA AnswerGoesOn ==
  ASSUME NEW s \in Streams, NEW q \in Nat, Unended(s, q)
  PROVE  /\ q <= Len(Meant[s])
         /\ q + 1 <= Len(Events[s]) =>
              /\ q + 1 <= Len(Meant[s])
              /\ IsTerminal(Events[s][q + 1]) => Len(Meant[s]) = q + 1
              /\ ~IsTerminal(Events[s][q + 1]) => Unended(s, q + 1)
         /\ q + 1 = Len(Events[s]) => Len(Meant[s]) = q + 1
         /\ q = Len(Events[s]) => Len(Meant[s]) = q
<1> DEFINE m == Len(Meant[s])
           e == Len(Events[s])
<1>1. /\ m \in Nat /\ e \in Nat /\ m <= e
      /\ \A i \in 1..m - 1 : ~IsTerminal(Events[s][i])
      /\ m < e => m > 0 /\ IsTerminal(Events[s][m])
  <2>1. Events[s] \in Seq(Payload) /\ Meant[s] \in Seq(Payload)
    BY MeantFacts
  <2>2. m \in Nat /\ e \in Nat
    BY <2>1
  <2> QED
    BY <2>2, MeantFacts
<1>2. q <= e /\ \A i \in 1..q : ~IsTerminal(Events[s][i])
  BY DEF Unended
<1> HIDE DEF m
<1>3. m < e => m > q
  <2> SUFFICES ASSUME m < e, m <= q
               PROVE  FALSE
    BY <1>1
  <2>1. m \in 1..q
    BY <1>1
  <2> QED
    BY <1>1, <1>2, <2>1
<1>4. q + 1 <= e /\ ~IsTerminal(Events[s][q + 1]) => Unended(s, q + 1)
  <2> SUFFICES ASSUME q + 1 <= e, ~IsTerminal(Events[s][q + 1]), NEW i \in 1..q + 1
               PROVE  ~IsTerminal(Events[s][i])
    BY DEF Unended
  <2>1. CASE i = q + 1
    BY <2>1
  <2>2. CASE i # q + 1
    <3>1. i \in 1..q
      BY <2>2
    <3> QED
      BY <1>2, <3>1
  <2> QED
    BY <2>1, <2>2
<1>5. q + 1 <= e /\ IsTerminal(Events[s][q + 1]) => m = q + 1
  <2> SUFFICES ASSUME q + 1 <= e, IsTerminal(Events[s][q + 1]), m # q + 1
               PROVE  FALSE
    OBVIOUS
  <2>1. m > q + 1
    BY <1>1, <1>3
  <2>2. q + 1 \in 1..m - 1
    BY <1>1, <2>1
  <2> QED
    BY <1>1, <2>2
<1> HIDE DEF e
<1>6. /\ q <= m
      /\ q + 1 <= e => q + 1 <= m
      /\ q + 1 = e => m = q + 1
      /\ q = e => m = q
  BY <1>1, <1>2, <1>3
<1> QED
  BY <1>4, <1>5, <1>6 DEF m, e

-----------------------------------------------------------------------------
(* What is where: the items on their way, what waits in the reply channel, and what the *)
(* relay offers. *)

LEMMA AdaptIsFed ==
  ASSUME NEW held \in Seq(Token), NEW chunk \in Seq(Token)
  PROVE  Adapt(held, chunk) \in Fed
<1> DEFINE x == Trim(chunk)
<1>1. Feed(held, chunk) \in Fed
  BY FeedIsFed
<1>2. x \in Payload
  BY DEF Payload
<1> HIDE DEF x
<1>3. [payloads |-> <<x>>, buf |-> held] \in Fed /\ [payloads |-> <<>>, buf |-> held] \in Fed
  BY <1>2 DEF Fed
<1> QED
  BY <1>1, <1>3, Zenon DEF Adapt, x

LEMMA ItemsShape ==
  ASSUME NEW kind \in {"payload", "tail"}, NEW payloads \in Seq(Payload)
  PROVE  /\ Items(kind, payloads) \in Seq(Item)
         /\ Len(Items(kind, payloads)) = Len(payloads)
         /\ \A i \in 1..Len(payloads) :
              Items(kind, payloads)[i] = [kind |-> kind, payload |-> payloads[i]]
<1> DEFINE items == Items(kind, payloads)
<1>1. Len(payloads) \in Nat /\ \A i \in 1..Len(payloads) : payloads[i] \in Payload
  OBVIOUS
<1>2. items = [i \in 1..Len(payloads) |-> [kind |-> kind, payload |-> payloads[i]]]
  BY DEF Items
<1>3. \A i \in 1..Len(payloads) : [kind |-> kind, payload |-> payloads[i]] \in Item
  BY <1>1 DEF Item
<1>4. items \in [1..Len(payloads) -> Item]
  BY <1>2, <1>3
<1>5. items \in Seq(Item) /\ Len(items) = Len(payloads)
  <2> HIDE DEF items
  <2> QED
    BY <1>1, <1>4
<1> QED
  BY <1>2, <1>5

LEMMA ErrorShape == Error \in Seq(Item) /\ Len(Error) = 1 /\ Error[1].kind = "error"
BY DEF Error, Item

ItemsInv ==
  /\ chunks \in Seq(Item) /\ carried \in Seq(Item) /\ out \in Seq(Item) /\ todo \in Seq(Item)
  /\ got \in Seq(Payload \cup {<<>>})
  /\ buf \in Seq(Token)
  /\ converter = "closed" => carried = <<>>

\* The text reaches the relay whole, and in pieces the decoder copes with.
Unharmed == proper /\ ~holed

\* How much of the text the relay has read.
Came == IF reply = <<>> THEN sent ELSE reply[1].from

\* Where the decoder is: what the relay offers has not been fed yet.
Fresh == Came - Len(offer.text)

MessageTypes == {"stream_chunk", "http_response", "stream_end", "error"}

Message == [type : MessageTypes, from : Nat, text : Seq(Token)]

\* A message has a piece of the text, or is at the place where it was sent.
MessageInv(m) ==
  /\ m.from + Len(m.text) <= Len(Text)
  /\ m.text = Chunk(m.from, Len(m.text))
  /\ m.type \in {"stream_chunk", "http_response"} <=> m.text # <<>>
  /\ m.type \in {"stream_end", "http_response"} => m.from + Len(m.text) = Len(Text)
  /\ m.text # <<>> => Len(m.text) \in Sizes(m.from) /\ (proper => ProperCut(m.from, Len(m.text)))

\* Where the text goes on after the i-th message.
NextFrom(i) == IF i = Len(reply) THEN sent ELSE reply[i + 1].from

\* Unless a chunk was dropped the messages that wait are one after the other in the text.
ReplyInv ==
  /\ sent \in 0..Len(Text)
  /\ reply \in Seq(Message)
  /\ \A i \in 1..Len(reply) : MessageInv(reply[i])
  /\ ~holed => \A i \in 1..Len(reply) : reply[i].from + Len(reply[i].text) = NextFrom(i)

OfferInv ==
  /\ offer.text \in Seq(Token)
  /\ relay # "offering" => offer = Nothing
  /\ relay = "offering" => offer.type \in MessageTypes \cup {"stream_start"}
  /\ offer.type \in {"stream_chunk", "http_response"} <=> offer.text # <<>>
  /\ ~holed =>
       /\ Len(offer.text) <= Came /\ offer.text = SubSeq(Text, Fresh + 1, Came)
       /\ offer.type \in {"stream_end", "http_response"} => Came = Len(Text)

TypeInv == LoopTypeOK /\ OthersTypeOK /\ ItemsInv /\ ReplyInv /\ OfferInv

\* What the loop makes of an event.
LEMMA ProcessGoesOn ==
  ASSUME ItemsInv, OfferInv, Process(offer)
  PROVE  buf' \in Seq(Token) /\ \E items \in Seq(Item), isLast \in BOOLEAN : GoOn(items, isLast)
<1> DEFINE fed == Adapt(buf, offer.text)
<1>1. fed.payloads \in Seq(Payload) /\ fed.buf \in Seq(Token) /\ buf \in Seq(Token)
  <2>1. fed \in Fed /\ buf \in Seq(Token)
    BY AdaptIsFed DEF ItemsInv, OfferInv
  <2> QED
    BY <2>1 DEF Fed
<1>2. Items("payload", fed.payloads) \in Seq(Item)
  BY <1>1, ItemsShape
<1>3. Items("tail", Flush(fed.buf)) \in Seq(Item) /\ Items("tail", Flush(buf)) \in Seq(Item)
  <2>1. Flush(fed.buf) \in Seq(Payload) /\ Flush(buf) \in Seq(Payload)
    BY <1>1, FlushShape
  <2> QED
    BY <2>1, ItemsShape
<1>4. Error \in Seq(Item) /\ <<>> \in Seq(Item) /\ <<>> \in Seq(Token)
  BY ErrorShape
<1> DEFINE payloads == Items("payload", fed.payloads)
           tail == Items("tail", Flush(fed.buf))
           rest == Items("tail", Flush(buf))
<1>5. \/ GoOn(<<>>, FALSE) /\ buf' = buf
      \/ GoOn(payloads, FALSE) /\ buf' = fed.buf
      \/ GoOn(payloads \o tail, TRUE) /\ buf' = <<>>
      \/ GoOn(rest \o <<>>, TRUE) /\ buf' = <<>>
      \/ GoOn(rest \o Error, TRUE) /\ buf' = <<>>
  BY Zenon DEF Process, FlushAnd
<1>6. payloads \in Seq(Item) /\ tail \in Seq(Item) /\ rest \in Seq(Item)
  BY <1>2, <1>3
<1> HIDE DEF payloads, tail, rest, fed
<1>7. payloads \o tail \in Seq(Item) /\ rest \o <<>> \in Seq(Item) /\ rest \o Error \in Seq(Item)
  BY <1>4, <1>6
<1> QED
  BY <1>1, <1>4, <1>5, <1>6, <1>7

LEMMA ItemsStep == TypeInv /\ [Next]_vars => ItemsInv'
<1> SUFFICES ASSUME TypeInv, [Next]_vars
             PROVE  ItemsInv'
  OBVIOUS
<1>1. ItemsInv /\ OfferInv /\ LoopTypeOK
  BY DEF TypeInv
<1> USE DEF ItemsInv
<1>2. CASE UNCHANGED <<buf, todo, out, carried, clientVars>>
  BY <1>1, <1>2 DEF clientVars
<1>3. CASE Provider \/ GiveUpSlot \/ Fetch \/ RelayStops \/ TimerFires \/ UNCHANGED vars
  <2>1. UNCHANGED <<buf, todo, out, carried, clientVars>>
    BY <1>3 DEF Provider, SendChunk, SendEnd, SendRest, Fail, Dispatch, GiveUpSlot, Fetch,
                RelayStops, TimerFires, vars, loopVars
  <2> QED
    BY <1>2, <2>1
<1>4. CASE Take
  <2>1. UNCHANGED <<out, carried, clientVars>> /\ Process(offer)
    BY <1>4 DEF Take
  <2>2. buf' \in Seq(Token) /\ todo' \in Seq(Item)
    BY <1>1, <2>1, ProcessGoesOn DEF GoOn
  <2> QED
    BY <1>1, <2>1, <2>2 DEF clientVars
<1>5. CASE EventsClosed \/ IdleTimeout
  <2> DEFINE rest == Items("tail", Flush(buf))
  <2>1. UNCHANGED <<out, carried, clientVars>> /\ buf' = <<>>
        /\ (todo' = rest \o <<>> \/ todo' = rest \o Error)
    BY <1>5 DEF EventsClosed, IdleTimeout, FlushAnd, GoOn
  <2>2. rest \in Seq(Item)
    <3>1. Flush(buf) \in Seq(Payload)
      BY <1>1, FlushShape
    <3> QED
      BY <3>1, ItemsShape
  <2> HIDE DEF rest
  <2>3. todo' \in Seq(Item)
    <3>1. <<>> \in Seq(Item) /\ Error \in Seq(Item)
      BY ErrorShape
    <3>2. rest \o <<>> \in Seq(Item) /\ rest \o Error \in Seq(Item)
      <4> HIDE DEF ItemsInv
      <4> QED
        BY <2>2, <3>1
    <3> QED
      BY <2>1, <3>2
  <2>4. <<>> \in Seq(Token)
    OBVIOUS
  <2> QED
    BY <1>1, <2>1, <2>3, <2>4 DEF clientVars
<1>6. CASE Send
  <2>1. todo # <<>> /\ UNCHANGED <<buf, carried, clientVars>> /\ out' = Append(out, Head(todo))
        /\ (todo' = <<>> \/ todo' = Tail(todo))
    BY <1>1, <1>6 DEF Send, GoOn, LoopTypeOK
  <2>2. todo \in Seq(Item) /\ out \in Seq(Item)
    BY <1>1
  <2>3. Append(out, Head(todo)) \in Seq(Item) /\ Tail(todo) \in Seq(Item) /\ <<>> \in Seq(Item)
    BY <2>1, <2>2
  <2>4. out' \in Seq(Item) /\ todo' \in Seq(Item)
    BY <2>1, <2>3
  <2> QED
    BY <1>1, <2>1, <2>4 DEF clientVars
<1>7. CASE SendFails
  <2>1. todo # <<>> /\ UNCHANGED <<buf, out, carried, clientVars>>
        /\ (todo' = <<>> \/ todo' = Tail(todo))
    BY <1>1, <1>7 DEF SendFails, GoOn, LoopTypeOK
  <2>2. todo \in Seq(Item)
    BY <1>1
  <2>3. Tail(todo) \in Seq(Item) /\ <<>> \in Seq(Item)
    BY <2>1, <2>2
  <2>4. todo' \in Seq(Item)
    BY <2>1, <2>3
  <2> QED
    BY <1>1, <2>1, <2>4 DEF clientVars
<1>8. CASE Convert
  <2>1. Head(out) \in Item
    BY <1>1, <1>8 DEF Convert
  <2> QED
    BY <1>1, <1>8, <2>1 DEF Convert, clientVars, loopVars
<1>9. CASE HandOn
  BY <1>1, <1>9 DEF HandOn, loopVars
<1>10. CASE ConverterStops
  BY <1>1, <1>10 DEF ConverterStops, loopVars
<1>11. CASE Write
  <2>1. chunks # <<>> /\ UNCHANGED <<buf, todo, out, carried, converter>> /\ chunks' = Tail(chunks)
        /\ (got' = got \/ got' = Append(got, Head(chunks).payload))
    BY <1>11 DEF Write, loopVars
  <2>2. chunks \in Seq(Item) /\ got \in Seq(Payload \cup {<<>>})
    BY <1>1
  <2>3. Head(chunks) \in Item /\ Tail(chunks) \in Seq(Item)
    BY <2>1, <2>2
  <2>4. Head(chunks).payload \in Payload \cup {<<>>}
    BY <2>3 DEF Item
  <2>5. Append(got, Head(chunks).payload) \in Seq(Payload \cup {<<>>})
    BY <2>2, <2>4
  <2>6. got' \in Seq(Payload \cup {<<>>}) /\ chunks' \in Seq(Item)
    BY <2>1, <2>2, <2>3, <2>5
  <2> QED
    BY <1>1, <2>1, <2>6
<1>12. CASE HandlerReturns \/ Leave
  BY <1>1, <1>12 DEF HandlerReturns, Leave, loopVars
<1> QED
  BY <1>3, <1>4, <1>5, <1>6, <1>7, <1>8, <1>9, <1>10, <1>11, <1>12
     DEF Next, Relay, Converter, Handler

LEMMA ChunkShape ==
  ASSUME OthersTypeOK, NEW from \in Nat, NEW n \in Nat \ {0}, from + n <= Len(Text)
  PROVE  /\ Chunk(from, n) \in Seq(Token) /\ Len(Chunk(from, n)) = n /\ Chunk(from, n) # <<>>
         /\ Chunk(from, n) = SubSeq(Text, from + 1, from + n)
<1>1. Text \in Seq(Token) /\ Len(Text) \in Nat
  BY TextIsARow DEF Text, OthersTypeOK
<1>2. Chunk(from, n) \in Seq(Token) /\ Len(Chunk(from, n)) = n
  BY <1>1 DEF Chunk
<1> QED
  BY <1>2 DEF Chunk

LEMMA RelayInit ==
  ASSUME Init
  PROVE  ReplyInv /\ OfferInv /\ Came = sent
<1>1. Text \in Seq(Token) /\ Len(Text) \in Nat /\ OthersTypeOK
  BY TextIsARow DEF Text, OthersTypeOK, Init
<1>2. reply = <<>> /\ Came = sent /\ ~holed /\ relay = "offering"
  BY DEF Init, Came
<1>3. ASSUME sent \in 0..Len(Text)
      PROVE  ReplyInv
  <2>1. <<>> \in Seq(Message) /\ Len(<<>>) = 0
    OBVIOUS
  <2> QED
    BY <1>2, <1>3, <2>1 DEF ReplyInv
<1>4. CASE sent = 0 /\ offer = Event("stream_start", 0, <<>>)
  <2>1. <<>> \in Seq(Token) /\ Len(<<>>) = 0 /\ SubSeq(Text, 1, 0) = <<>> /\ 0 \in 0..Len(Text)
    BY <1>1
  <2>2. offer.text = <<>> /\ offer.type = "stream_start"
    BY <1>4 DEF Event
  <2>3. Fresh = 0 /\ Came = 0 /\ 0 <= 0
    <3>1. 0 - 0 = 0 /\ 0 <= 0
      OBVIOUS
    <3> QED
      BY <1>2, <1>4, <2>1, <2>2, <3>1, Zenon DEF Fresh
  <2>4. SubSeq(Text, 0 + 1, 0) = <<>>
    BY <1>1
  <2> QED
    BY <1>2, <1>3, <1>4, <2>1, <2>2, <2>3, <2>4 DEF OfferInv
<1>5. ASSUME NEW n \in Sizes(0), NEW type \in {"stream_chunk", "http_response"},
             type = "http_response" => n = Len(Text), sent = n, offer = Event(type, 0, Chunk(0, n))
      PROVE  ReplyInv /\ OfferInv
  <2>1. n \in Nat \ {0} /\ 0 + n <= Len(Text) /\ 0 + n = n /\ 0 + 1 = 1 /\ n - n = 0
    BY <1>1 DEF Sizes
  <2>2. Chunk(0, n) \in Seq(Token) /\ Len(Chunk(0, n)) = n /\ Chunk(0, n) # <<>>
        /\ Chunk(0, n) = SubSeq(Text, 0 + 1, 0 + n)
    BY <1>1, <2>1, ChunkShape
  <2>3. offer.text = Chunk(0, n) /\ offer.type = type
    BY <1>5 DEF Event
  <2>4. Fresh = 0
    BY <1>2, <1>5, <2>1, <2>2, <2>3 DEF Fresh
  <2>5. OfferInv
    BY <1>1, <1>2, <1>5, <2>1, <2>2, <2>3, <2>4 DEF OfferInv, MessageTypes
  <2> QED
    BY <1>1, <1>3, <1>5, <2>1, <2>5
<1> QED
  BY <1>2, <1>3, <1>4, <1>5 DEF Init

\* An event without text.
LEMMA NoText ==
  ASSUME NEW text \in Seq(Token), NEW n \in 0..Len(text)
  PROVE  /\ Len(<<>>) = 0 /\ <<>> \in Seq(Token) /\ n - 0 = n /\ n + 0 = n /\ 0 <= n
         /\ SubSeq(text, n + 1, n) = <<>> /\ SubSeq(text, n + 1, n + 0) = <<>>
OBVIOUS

LEMMA CameIs ==
  ASSUME OthersTypeOK, ReplyInv
  PROVE  Len(Text) \in Nat /\ sent \in 0..Len(Text) /\ Came \in 0..Len(Text) /\ Came \in Nat
<1>1. Len(Text) \in Nat /\ sent \in 0..Len(Text)
  BY TextIsARow DEF Text, OthersTypeOK, ReplyInv
<1>2. CASE reply = <<>>
  BY <1>1, <1>2 DEF Came
<1>3. CASE reply # <<>>
  <2>1. 1 \in 1..Len(reply) /\ reply[1] \in Message
    BY <1>3 DEF ReplyInv
  <2>2. reply[1].from \in Nat /\ Len(reply[1].text) \in Nat
    BY <2>1 DEF Message
  <2>3. reply[1].from + Len(reply[1].text) <= Len(Text)
    BY <2>1 DEF ReplyInv, MessageInv
  <2>4. Came = reply[1].from
    BY <1>3 DEF Came
  <2> QED
    BY <1>1, <2>2, <2>3, <2>4
<1> QED
  BY <1>2, <1>3

\* What is said of a message does not change with time.
LEMMA StillSo ==
  ASSUME NEW m, stream' = stream, proper' => proper, MessageInv(m)
  PROVE  MessageInv(m)'
<1>1. Text' = Text /\ Len(Text)' = Len(Text)
  BY DEF Text
<1>2. Chunk(m.from, Len(m.text))' = Chunk(m.from, Len(m.text))
  BY <1>1 DEF Chunk
<1>3. Sizes(m.from)' = Sizes(m.from)
  BY <1>1 DEF Sizes
<1>4. ProperCut(m.from, Len(m.text))' <=> ProperCut(m.from, Len(m.text))
  BY <1>1, <1>2, Zenon DEF ProperCut
<1> QED
  BY <1>1, <1>2, <1>3, <1>4 DEF MessageInv

\* What the read loop makes of what the provider sends: the message is added, or dropped.
LEMMA Dispatched ==
  ASSUME TypeInv, Provider
  PROVE  /\ UNCHANGED <<stream, relay, offer, loopVars, out, carried, clientVars>>
         /\ proper' => proper
         /\ ~holed' => ~holed
         /\ \/ UNCHANGED <<sent, reply>>
            \/ UNCHANGED reply /\ holed' /\ sent' \in 0..Len(Text)
            \/ \E m \in Message :
                 /\ reply' = Append(reply, m) /\ m.from = sent /\ sent' = sent + Len(m.text)
                 /\ MessageInv(m)'
<1>1. OthersTypeOK /\ Text \in Seq(Token) /\ Len(Text) \in Nat /\ sent \in 0..Len(Text) /\ sent \in Nat
  <2>1. OthersTypeOK /\ Len(Text) \in Nat /\ sent \in 0..Len(Text)
    BY CameIs DEF TypeInv
  <2> QED
    BY <2>1, TextIsARow DEF Text, OthersTypeOK
<1>2. \E m : Dispatch(m)
  BY DEF Provider, SendChunk, SendEnd, SendRest, Fail
<1>3. UNCHANGED <<stream, relay, offer, loopVars, out, carried, clientVars>> /\ Text' = Text
  BY <1>2 DEF Dispatch, Text
<1>4. (proper' => proper) /\ (~holed' => ~holed)
  <2>1. proper' => proper
    BY Zenon DEF Provider, SendChunk, SendEnd, SendRest, Fail
  <2>2. holed => holed'
    BY Zenon DEF Provider, SendChunk, SendEnd, SendRest, Fail
  <2> QED
    BY <2>1, <2>2
<1>5. ASSUME NEW n \in Sizes(sent), NEW type \in {"stream_chunk", "http_response"},
             type = "http_response" => sent + n = Len(Text), sent' = sent + n,
             reply' = Append(reply, Event(type, sent, Chunk(sent, n))),
             proper' = (proper /\ ProperCut(sent, n))
      PROVE  \E m \in Message :
               /\ reply' = Append(reply, m) /\ m.from = sent /\ sent' = sent + Len(m.text)
               /\ MessageInv(m)'
  <2> DEFINE c == Chunk(sent, n)
             m == Event(type, sent, c)
  <2>1. n \in Nat \ {0} /\ sent + n <= Len(Text)
    BY <1>1 DEF Sizes
  <2>2. c \in Seq(Token) /\ Len(c) = n /\ c # <<>>
    BY <1>1, <2>1, ChunkShape
  <2> HIDE DEF c
  <2>3. m.type = type /\ m.from = sent /\ m.text = c
    BY DEF Event
  <2>4. m \in Message
    BY <1>1, <2>2 DEF Event, Message, MessageTypes
  <2>5. c = Chunk(sent, n)
    BY DEF c
  <2>6. reply' = Append(reply, m)
    BY <1>5 DEF c
  <2>7. /\ sent + n <= Len(Text') /\ c = Chunk(sent, n) /\ n \in Sizes(sent)
        /\ (proper' => ProperCut(sent, n))
        /\ type = "http_response" => sent + n = Len(Text')
    BY <1>3, <1>5, <2>1, <2>5
  <2> HIDE DEF m
  <2>8. \E k : k = m
    OBVIOUS
  <2>9. PICK k : k = m
    BY <2>8
  <2>10. k.type = type /\ k.from = sent /\ k.text = c /\ Len(k.text) = n /\ k \in Message
    BY <2>2, <2>3, <2>4, <2>9
  <2>11. MessageInv(k)'
    <3>1. Chunk(k.from, Len(k.text))' = Chunk(sent, n)
      BY <1>3, <2>10 DEF Chunk
    <3>2. Sizes(k.from)' = Sizes(sent)
      BY <1>3, <2>10 DEF Sizes
    <3>3. ProperCut(k.from, Len(k.text))' <=> ProperCut(sent, n)
      BY <1>3, <2>10, <3>1, Zenon DEF ProperCut
    <3> QED
      BY <1>3, <2>2, <2>7, <2>10, <3>1, <3>2, <3>3 DEF MessageInv
  <2> QED
    BY <1>5, <2>2, <2>6, <2>9, <2>10, <2>11
<1>6. ASSUME NEW type \in {"stream_end", "error"}, type = "stream_end" => sent = Len(Text),
             sent' = sent, reply' = Append(reply, Event(type, sent, <<>>))
      PROVE  \E m \in Message :
               /\ reply' = Append(reply, m) /\ m.from = sent /\ sent' = sent + Len(m.text)
               /\ MessageInv(m)'
  <2> DEFINE m == Event(type, sent, <<>>)
  <2>1. /\ Len(<<>>) = 0 /\ <<>> \in Seq(Token) /\ sent + 0 = sent
        /\ SubSeq(Text, sent + 1, sent + 0) = <<>>
    BY <1>1, NoText
  <2>2. m.type = type /\ m.from = sent /\ m.text = <<>> /\ m \in Message
    BY <1>1, <2>1 DEF Event, Message, MessageTypes
  <2>3. reply' = Append(reply, m)
    BY <1>6
  <2> HIDE DEF m
  <2>4. \E k : k = m
    OBVIOUS
  <2>5. PICK k : k = m
    BY <2>4
  <2>6. k.type = type /\ k.from = sent /\ k.text = <<>> /\ k \in Message /\ Len(k.text) = 0
    BY <2>1, <2>2, <2>5
  <2>7. MessageInv(k)'
    <3>1. Chunk(k.from, Len(k.text))' = <<>>
      BY <1>3, <2>1, <2>6 DEF Chunk
    <3> QED
      BY <1>1, <1>3, <1>6, <2>1, <2>6, <3>1 DEF MessageInv
  <2> QED
    BY <1>6, <2>1, <2>3, <2>5, <2>6, <2>7
<1>7. ASSUME NEW n \in 1..Len(Text), SendChunk(n)
      PROVE  \/ UNCHANGED reply /\ holed' /\ sent' \in 0..Len(Text)
             \/ \E m \in Message :
                  /\ reply' = Append(reply, m) /\ m.from = sent /\ sent' = sent + Len(m.text)
                  /\ MessageInv(m)'
  <2>1. /\ n \in Sizes(sent) /\ sent' = sent + n /\ proper' = (proper /\ ProperCut(sent, n))
        /\ reply' = reply \/ reply' = Append(reply, Event("stream_chunk", sent, Chunk(sent, n)))
        /\ reply' = reply => holed'
    BY <1>7 DEF SendChunk, Dispatch
  <2>2. sent + n \in 0..Len(Text)
    BY <1>1, <2>1 DEF Sizes
  <2> QED
    BY <1>5, <2>1, <2>2
<1>8. ASSUME SendRest
      PROVE  \/ UNCHANGED <<sent, reply>>
             \/ \E m \in Message :
                  /\ reply' = Append(reply, m) /\ m.from = sent /\ sent' = sent + Len(m.text)
                  /\ MessageInv(m)'
  <2> DEFINE n == Len(Text) - sent
  <2>1. /\ n \in Sizes(sent) /\ sent' = (IF reply' = reply THEN sent ELSE Len(Text))
        /\ proper' = (proper /\ ProperCut(sent, n))
        /\ reply' = reply \/ reply' = Append(reply, Event("http_response", sent, Chunk(sent, n)))
    BY <1>8 DEF SendRest, Dispatch
  <2>2. sent + n = Len(Text)
    BY <1>1
  <2> HIDE DEF n
  <2>3. CASE reply' = reply
    BY <2>1, <2>3
  <2>4. CASE reply' # reply
    <3>1. sent' = sent + n
      BY <2>1, <2>2, <2>4
    <3> QED
      BY <1>5, <2>1, <2>2, <2>4, <3>1, Zenon
  <2> QED
    BY <2>3, <2>4
<1>9. ASSUME SendEnd \/ Fail
      PROVE  \/ UNCHANGED <<sent, reply>>
             \/ \E m \in Message :
                  /\ reply' = Append(reply, m) /\ m.from = sent /\ sent' = sent + Len(m.text)
                  /\ MessageInv(m)'
  <2>1. /\ sent' = sent
        /\ \/ reply' = reply
           \/ reply' = Append(reply, Event("error", sent, <<>>))
           \/ sent = Len(Text) /\ reply' = Append(reply, Event("stream_end", sent, <<>>))
    BY <1>9 DEF SendEnd, Fail, Dispatch, Whole
  <2>2. CASE reply' = Append(reply, Event("error", sent, <<>>))
    BY <1>6, <2>1, <2>2, Zenon
  <2>3. CASE sent = Len(Text) /\ reply' = Append(reply, Event("stream_end", sent, <<>>))
    BY <1>6, <2>1, <2>3, Zenon
  <2> QED
    BY <2>1, <2>2, <2>3
<1> QED
  BY <1>3, <1>4, <1>7, <1>8, <1>9 DEF Provider

\* What the relay reads is the next piece of the text, and cut as it was sent.
LEMMA FetchGives ==
  ASSUME TypeInv, Fetch
  PROVE  LET text == offer'.text
         IN  /\ UNCHANGED <<stream, sent, proper, holed, loopVars, out, carried, clientVars>>
             /\ relay = "reading" /\ relay' = "offering"
             /\ offer'.type \in MessageTypes /\ text \in Seq(Token)
             /\ offer'.type \in {"stream_chunk", "http_response"} <=> text # <<>>
             /\ text # <<>> => Len(text) \in Sizes(Came) /\ (proper => ProperCut(Came, Len(text)))
             /\ ~holed =>
                  /\ Fresh = Came /\ Fresh' = Came
                  /\ Came' = Came + Len(text) /\ Came' <= Len(Text)
                  /\ text = Chunk(Came, Len(text))
                  /\ offer'.type \in {"stream_end", "http_response"} => Came' = Len(Text)
<1>1. /\ UNCHANGED <<stream, sent, proper, holed, loopVars, out, carried, clientVars>>
      /\ relay = "reading" /\ relay' = "offering"
  BY DEF Fetch
<1>2. /\ OthersTypeOK /\ ReplyInv /\ OfferInv /\ Text \in Seq(Token)
      /\ Len(Text) \in Nat /\ sent \in 0..Len(Text) /\ Came \in 0..Len(Text) /\ Came \in Nat
  <2>1. OthersTypeOK /\ ReplyInv /\ OfferInv
    BY DEF TypeInv
  <2>2. Text \in Seq(Token)
    BY <2>1, TextIsARow DEF Text, OthersTypeOK
  <2> QED
    BY <2>1, <2>2, CameIs
<1>3. /\ Len(<<>>) = 0 /\ <<>> \in Seq(Token) /\ Came - 0 = Came /\ Came + 0 = Came
      /\ SubSeq(Text, Came + 1, Came + 0) = <<>>
  BY <1>2, NoText
<1>4. Fresh = Came
  <2>1. offer.text = <<>>
    BY <1>1, <1>2 DEF OfferInv, Nothing, Event
  <2> QED
    BY <1>3, <2>1 DEF Fresh
<1>5. CASE reply = <<>>
  <2>1. offer' = Event("error", 0, <<>>) /\ reply' = reply
    BY <1>5 DEF Fetch
  <2>2. offer'.type = "error" /\ offer'.text = <<>>
    BY <2>1 DEF Event
  <2>3. Came' = Came
    BY <1>1, <2>1 DEF Came
  <2>4. Fresh' = Came
    BY <1>3, <2>2, <2>3 DEF Fresh
  <2>5. Chunk(Came, 0) = <<>>
    BY <1>3 DEF Chunk
  <2> QED
    BY <1>1, <1>2, <1>3, <1>4, <2>2, <2>3, <2>4, <2>5 DEF MessageTypes
<1>6. CASE reply # <<>>
  <2> DEFINE m == reply[1]
             text == offer'.text
             n == Len(text)
  <2>1. offer' = m /\ reply' = Tail(reply)
    BY <1>6 DEF Fetch
  <2>2. /\ reply \in Seq(Message) /\ 1 \in 1..Len(reply) /\ Len(reply) \in Nat /\ m \in Message
        /\ Came = m.from
    BY <1>2, <1>6 DEF ReplyInv, Came
  <2>3. m.type \in MessageTypes /\ text \in Seq(Token) /\ n \in Nat /\ text = m.text
    BY <2>1, <2>2 DEF Message
  <2>4. MessageInv(m)
    BY <1>2, <2>2 DEF ReplyInv
  <2> HIDE DEF text
  <2>5. /\ Came + n <= Len(Text) /\ text = Chunk(Came, n)
        /\ m.type \in {"stream_chunk", "http_response"} <=> text # <<>>
        /\ m.type \in {"stream_end", "http_response"} => Came + n = Len(Text)
        /\ text # <<>> => n \in Sizes(Came) /\ (proper => ProperCut(Came, n))
    BY <2>2, <2>3, <2>4 DEF MessageInv
  <2>6. ~holed => Came' = Came + n
    <3>1. ~holed => Came + n = NextFrom(1)
      BY <1>2, <2>2, <2>3 DEF ReplyInv
    <3>2. Came' = NextFrom(1)
      <4> DEFINE t == Tail(reply)
      <4>1. /\ t \in Seq(Message) /\ Len(t) = Len(reply) - 1
            /\ \A i \in 1..Len(t) : t[i] = reply[i + 1]
        BY <1>6, <2>2, HeadTailProperties
      <4>2. Came' = IF t = <<>> THEN sent ELSE t[1].from
        BY <1>1, <2>1, Zenon DEF Came
      <4> HIDE DEF t
      <4>3. CASE Len(reply) = 1
        <5>1. t = <<>>
          BY <4>1, <4>3
        <5> QED
          BY <4>2, <4>3, <5>1 DEF NextFrom
      <4>4. CASE Len(reply) # 1
        <5>1. 1 \in 1..Len(t)
          BY <2>2, <4>1, <4>4
        <5>2. t # <<>> /\ t[1] = reply[1 + 1]
          BY <4>1, <5>1
        <5> QED
          BY <4>2, <4>4, <5>2 DEF NextFrom
      <4> QED
        BY <4>3, <4>4
    <3> QED
      BY <3>1, <3>2
  <2>7. ~holed => Fresh' = Came
    <3>1. (Came + n) - n = Came
      BY <1>2, <2>3
    <3> QED
      BY <2>6, <3>1 DEF Fresh, text
  <2> QED
    BY <1>1, <1>4, <2>1, <2>3, <2>5, <2>6, <2>7 DEF text
<1> QED
  BY <1>5, <1>6

\* Everybody else leaves the reply to the relay.
LEMMA ReplyUntouched ==
  ASSUME [Next]_vars
  PROVE  Provider \/ GiveUpSlot \/ Fetch \/ RelayStops \/ UNCHANGED replyVars
BY DEF Next, TimerFires, Relay, Take, EventsClosed, IdleTimeout, Send, SendFails, Converter, Convert,
       HandOn, ConverterStops, Handler, Write, HandlerReturns, Leave, vars, relayVars

\* How much the relay has read does not change while it reads nothing.
LEMMA CameStays ==
  ASSUME TypeInv, Provider \/ GiveUpSlot
  PROVE  /\ UNCHANGED <<stream, relay, offer, loopVars, out, carried, clientVars>>
         /\ proper' => proper
         /\ ~holed' => ~holed /\ Came' = Came
<1>1. CASE Provider
  <2>1. /\ UNCHANGED <<stream, relay, offer, loopVars, out, carried, clientVars>>
        /\ proper' => proper
        /\ ~holed' => ~holed
        /\ \/ UNCHANGED <<sent, reply>>
           \/ UNCHANGED reply /\ holed' /\ sent' \in 0..Len(Text)
           \/ \E m \in Message :
                /\ reply' = Append(reply, m) /\ m.from = sent /\ sent' = sent + Len(m.text)
                /\ MessageInv(m)'
    BY <1>1, Dispatched
  <2>2. ASSUME NEW m \in Message, reply' = Append(reply, m), m.from = sent
        PROVE  Came' = Came
    <3>1. reply \in Seq(Message)
      BY DEF TypeInv, ReplyInv
    <3>2. CASE reply = <<>>
      <4>1. reply' # <<>> /\ reply'[1] = m
        BY <2>2, <3>1, <3>2
      <4> QED
        BY <2>2, <3>2, <4>1 DEF Came
    <3>3. CASE reply # <<>>
      <4>1. Append(reply, m) # <<>> /\ Append(reply, m)[1] = reply[1]
        BY <3>1, <3>3
      <4> QED
        BY <2>2, <3>3, <4>1 DEF Came
    <3> QED
      BY <3>2, <3>3
  <2>3. UNCHANGED <<sent, reply>> => Came' = Came
    BY DEF Came
  <2> QED
    BY <2>1, <2>2, <2>3
<1>2. CASE GiveUpSlot
  BY <1>2 DEF GiveUpSlot, Came
<1> QED
  BY <1>1, <1>2

LEMMA ReplyStep == TypeInv /\ [Next]_vars => ReplyInv'
<1> SUFFICES ASSUME TypeInv, [Next]_vars
             PROVE  ReplyInv'
  OBVIOUS
<1>1. ReplyInv /\ Len(Text) \in Nat /\ sent \in 0..Len(Text) /\ reply \in Seq(Message) /\ Len(reply) \in Nat
  BY CameIs DEF TypeInv, ReplyInv
<1>2. ASSUME stream' = stream, proper' => proper, NEW m, \E i \in 1..Len(reply) : m = reply[i]
      PROVE  MessageInv(m)'
  <2>1. MessageInv(m)
    BY <1>1, <1>2 DEF ReplyInv
  <2> QED
    BY <1>2, <2>1, StillSo
\* The messages are some of those there were, perhaps with a new one behind them.
<1>3. ASSUME \A i \in 1..Len(reply') : \A m : m = reply'[i] => MessageInv(m)'
      PROVE  \A i \in 1..Len(reply') : MessageInv(reply[i])'
  <2> SUFFICES ASSUME NEW i \in 1..Len(reply')
               PROVE  MessageInv(reply[i])'
    OBVIOUS
  <2>1. PICK m : m = reply'[i]
    OBVIOUS
  <2>2. MessageInv(m)'
    BY <1>3, <2>1
  <2> QED
    BY <2>1, <2>2 DEF MessageInv, Chunk, Sizes, ProperCut, Text
<1>4. CASE UNCHANGED <<stream, sent, reply, proper, holed>>
  <2>1. \A i \in 1..Len(reply') : \A m : m = reply'[i] => MessageInv(m)'
    BY <1>2, <1>4
  <2>2. Text' = Text
    BY <1>4 DEF Text
  <2>3. ~holed => \A i \in 1..Len(reply) : reply'[i].from + Len(reply'[i].text) = NextFrom(i)'
    BY <1>1, <1>4 DEF ReplyInv, NextFrom
  <2> QED
    BY <1>1, <1>3, <1>4, <2>1, <2>2, <2>3 DEF ReplyInv
<1>5. CASE Provider
  <2>1. /\ stream' = stream /\ (proper' => proper) /\ (~holed' => ~holed)
        /\ \/ UNCHANGED <<sent, reply>>
           \/ UNCHANGED reply /\ holed' /\ sent' \in 0..Len(Text)
           \/ \E m \in Message :
                /\ reply' = Append(reply, m) /\ m.from = sent /\ sent' = sent + Len(m.text)
                /\ MessageInv(m)'
    BY <1>5, Dispatched
  <2>2. Text' = Text
    BY <2>1 DEF Text
  <2>3. CASE UNCHANGED reply /\ (UNCHANGED sent \/ (holed' /\ sent' \in 0..Len(Text)))
    <3>1. \A i \in 1..Len(reply') : \A m : m = reply'[i] => MessageInv(m)'
      BY <1>2, <2>1, <2>3
    <3>2. ~holed' => \A i \in 1..Len(reply) : reply'[i].from + Len(reply'[i].text) = NextFrom(i)'
      BY <1>1, <2>1, <2>3 DEF ReplyInv, NextFrom
    <3> QED
      BY <1>1, <1>3, <2>2, <2>3, <3>1, <3>2 DEF ReplyInv
  <2>4. ASSUME NEW m \in Message, reply' = Append(reply, m), m.from = sent,
               sent' = sent + Len(m.text), MessageInv(m)'
        PROVE  ReplyInv'
    <3>1. /\ reply' \in Seq(Message) /\ Len(reply') = Len(reply) + 1 /\ reply'[Len(reply) + 1] = m
          /\ \A i \in 1..Len(reply) : reply'[i] = reply[i]
      BY <1>1, <2>4
    <3>2. m.from \in Nat /\ Len(m.text) \in Nat
      BY <2>4 DEF Message
    <3>3. m.from + Len(m.text) <= Len(Text)
      BY <2>2, <2>4 DEF MessageInv
    <3>4. \A i \in 1..Len(reply') : \A k : k = reply'[i] => MessageInv(k)'
      <4> SUFFICES ASSUME NEW i \in 1..Len(reply'), NEW k, k = reply'[i]
                   PROVE  MessageInv(k)'
        OBVIOUS
      <4>1. CASE i <= Len(reply)
        BY <1>1, <1>2, <2>1, <3>1, <4>1
      <4>2. CASE i > Len(reply)
        <5>1. k = m
          BY <1>1, <3>1, <4>2
        <5> QED
          BY <2>4, <5>1
      <4> QED
        BY <1>1, <3>1, <4>1, <4>2
    <3>5. ASSUME ~holed', NEW i \in 1..Len(reply')
          PROVE  reply'[i].from + Len(reply'[i].text) = NextFrom(i)'
      <4>1. CASE i = Len(reply) + 1
        BY <2>4, <3>1, <4>1 DEF NextFrom
      <4>2. CASE i = Len(reply)
        BY <1>1, <2>1, <2>4, <3>1, <3>5, <4>2 DEF NextFrom, ReplyInv
      <4>3. CASE i < Len(reply)
        <5>1. i \in 1..Len(reply) /\ i + 1 \in 1..Len(reply) /\ i # Len(reply) /\ i # Len(reply')
          BY <1>1, <3>1, <3>5, <4>3
        <5> QED
          BY <1>1, <2>1, <3>1, <3>5, <5>1 DEF NextFrom, ReplyInv
      <4> QED
        BY <1>1, <3>1, <3>5, <4>1, <4>2, <4>3
    <3>6. sent' \in 0..Len(Text)
      BY <1>1, <2>4, <3>2, <3>3
    <3> QED
      BY <1>3, <2>2, <3>1, <3>4, <3>5, <3>6 DEF ReplyInv
  <2> QED
    BY <2>1, <2>3, <2>4
<1>6. CASE Fetch /\ reply # <<>>
  <2>1. UNCHANGED <<stream, sent, proper, holed>> /\ reply' = Tail(reply)
    BY <1>6 DEF Fetch
  <2>2. /\ reply' \in Seq(Message) /\ Len(reply') = Len(reply) - 1
        /\ \A i \in 1..Len(reply') : reply'[i] = reply[i + 1] /\ i + 1 \in 1..Len(reply)
    BY <1>1, <1>6, <2>1
  <2>3. \A i \in 1..Len(reply') : \A m : m = reply'[i] => MessageInv(m)'
    BY <1>2, <2>1, <2>2
  <2>4. Text' = Text
    BY <2>1 DEF Text
  <2>5. ASSUME ~holed', NEW i \in 1..Len(reply')
        PROVE  reply'[i].from + Len(reply'[i].text) = NextFrom(i)'
    <3>1. reply[i + 1].from + Len(reply[i + 1].text) = NextFrom(i + 1)
      BY <1>1, <2>1, <2>2, <2>5 DEF ReplyInv
    <3>2. NextFrom(i + 1) = NextFrom(i)'
      <4>1. CASE i = Len(reply')
        BY <1>1, <2>1, <2>2, <4>1 DEF NextFrom
      <4>2. CASE i # Len(reply')
        <5>1. i + 1 \in 1..Len(reply') /\ i + 1 # Len(reply)
          BY <1>1, <2>2, <4>2
        <5> QED
          BY <2>1, <2>2, <4>2, <5>1 DEF NextFrom
      <4> QED
        BY <4>1, <4>2
    <3> QED
      BY <2>2, <3>1, <3>2
  <2> QED
    BY <1>1, <1>3, <2>1, <2>2, <2>3, <2>4, <2>5 DEF ReplyInv
<1>7. CASE RelayStops
  <2>1. UNCHANGED <<stream, sent>> /\ reply' = <<>>
    BY <1>7 DEF RelayStops
  <2>2. <<>> \in Seq(Message) /\ Len(<<>>) = 0 /\ Text' = Text
    BY <2>1 DEF Text
  <2> QED
    BY <1>1, <2>1, <2>2 DEF ReplyInv
<1>8. GiveUpSlot \/ (Fetch /\ reply = <<>>) => UNCHANGED <<stream, sent, reply, proper, holed>>
  BY DEF GiveUpSlot, Fetch
<1>9. UNCHANGED replyVars => UNCHANGED <<stream, sent, reply, proper, holed>>
  BY DEF replyVars
<1> QED
  BY <1>4, <1>5, <1>6, <1>7, <1>8, <1>9, ReplyUntouched

LEMMA OfferStep == TypeInv /\ ReplyInv' /\ OthersTypeOK' /\ [Next]_vars => OfferInv'
<1> SUFFICES ASSUME TypeInv, ReplyInv', OthersTypeOK', [Next]_vars
             PROVE  OfferInv'
  OBVIOUS
<1>1. OfferInv /\ OthersTypeOK /\ Text \in Seq(Token) /\ Len(Text) \in Nat /\ Came \in Nat
  BY CameIs, TextIsARow DEF TypeInv, Text, OthersTypeOK
<1>2. CASE Provider \/ GiveUpSlot
  <2>1. UNCHANGED <<stream, relay, offer>> /\ (~holed' => ~holed /\ Came' = Came)
    BY <1>2, CameStays
  <2>2. Text' = Text
    BY <2>1 DEF Text
  <2>3. ~holed' => Fresh' = Fresh
    BY <2>1 DEF Fresh
  <2> QED
    BY <1>1, <2>1, <2>2, <2>3 DEF OfferInv
<1>3. CASE Fetch
  <2> DEFINE text == offer'.text
             n == Len(text)
  <2>1. /\ UNCHANGED <<stream, holed>> /\ relay' = "offering"
        /\ offer'.type \in MessageTypes /\ text \in Seq(Token)
        /\ offer'.type \in {"stream_chunk", "http_response"} <=> text # <<>>
        /\ ~holed => /\ Fresh' = Came /\ Came' = Came + n
                     /\ text = Chunk(Came, n)
                     /\ offer'.type \in {"stream_end", "http_response"} => Came' = Len(Text)
    BY <1>3, FetchGives
  <2>2. Text' = Text
    BY <2>1 DEF Text
  <2>3. ~holed => n <= Came' /\ text = SubSeq(Text, Fresh' + 1, Came')
    <3>1. n \in Nat
      BY <2>1
    <3> HIDE DEF n
    <3>2. n <= Came + n
      BY <1>1, <3>1
    <3> QED
      BY <2>1, <3>2 DEF Chunk
  <2> QED
    BY <2>1, <2>2, <2>3 DEF OfferInv
<1>4. CASE RelayStops \/ Take
  <2>1. offer' = Nothing /\ relay' # "offering" /\ stream' = stream
    BY <1>4 DEF RelayStops, Take, Nothing, replyVars
  <2>2. offer'.text = <<>> /\ offer'.type = "none" /\ Text' = Text
    BY <2>1 DEF Nothing, Event, Text
  <2>3. Came' \in 0..Len(Text)
    <3>1. Came \in 0..Len(Text) /\ sent \in 0..Len(Text)
      BY CameIs DEF TypeInv
    <3>2. Came' = sent \/ Came' = Came
      BY <1>4 DEF RelayStops, Take, replyVars, Came
    <3> QED
      BY <3>1, <3>2
  <2>4. /\ Len(<<>>) = 0 /\ <<>> \in Seq(Token) /\ Came' - 0 = Came' /\ 0 <= Came'
        /\ SubSeq(Text, Came' + 1, Came') = <<>>
    BY <1>1, <2>3, NoText
  <2>5. Fresh' = Came'
    BY <2>2, <2>4 DEF Fresh
  <2> QED
    BY <2>1, <2>2, <2>4, <2>5 DEF OfferInv
<1>5. CASE TimerFires \/ EventsClosed \/ IdleTimeout \/ Send \/ SendFails \/ Converter \/ Handler
           \/ Leave \/ UNCHANGED vars
  <2>1. UNCHANGED relayVars
    BY <1>5 DEF TimerFires, EventsClosed, IdleTimeout, Send, SendFails, Converter, Convert, HandOn,
                ConverterStops, Handler, Write, HandlerReturns, Leave, vars
  <2>2. UNCHANGED <<stream, sent, reply, holed, relay, offer>>
    BY <2>1 DEF relayVars, replyVars
  <2>3. Text' = Text /\ Came' = Came /\ Fresh' = Fresh
    BY <2>2 DEF Text, Came, Fresh
  <2> QED
    BY <1>1, <2>2, <2>3 DEF OfferInv
<1> QED
  BY <1>2, <1>3, <1>4, <1>5 DEF Next, Relay

-----------------------------------------------------------------------------
(* The decoder, as the loop goes on. *)

\* The loop goes on, with the events or with what it has made of the last one.
Going == loop \in {"first", "waiting"} \/ (loop = "sending" /\ ~last)

\* As long as the loop goes on the decoder is where it would be had the text come in one piece,
\* and what it is offered is cut well.
DecoderInv ==
  Unharmed /\ Going /\ relay # "closed" =>
    /\ Cuttable(stream, Fresh) /\ Cuttable(stream, Came)
    /\ buf = Read(stream, Fresh).buf
    /\ offer.text # <<>> =>
         /\ stream.eol = <<>> => Len(offer.text) = 1
         /\ CutWell(stream, buf, offer.text)

LEMMA ReadNothing ==
  ASSUME NEW s \in Streams
  PROVE  Read(s, 0).buf = <<>> /\ Count(s, 0) = 0 /\ Cuttable(s, 0)
<1> DEFINE read == Read(s, 0)
<1>1. TextOf[s] \in Seq(Token) /\ Events[s] \in Seq(Payload)
  BY TextIsARow, EventsAreRead
<1>2. read = [payloads |-> <<>>, buf |-> <<>>]
  <2>1. CASE s.eol = <<>>
    <3>1. SubSeq(Events[s], 1, 0) = <<>>
      BY <1>1
    <3> QED
      BY <2>1, <3>1 DEF Read
  <2>2. CASE s.eol # <<>>
    <3>1. SubSeq(TextOf[s], 1, 0) = <<>>
      BY <1>1
    <3>2. Feed(<<>>, <<>>) = Start(<<>>)
      <4>1. <<>> \in Seq(Token)
        OBVIOUS
      <4> QED
        BY <4>1, FeedNothing
    <3> QED
      BY <2>2, <3>1, <3>2 DEF Read, ReadTo, Start
  <2> QED
    BY <2>1, <2>2
<1>3. ~Between(TextOf[s], 0)
  BY DEF Between
<1>4. Len(<<>>) = 0
  OBVIOUS
<1> QED
  BY <1>2, <1>3, <1>4 DEF Count, Cuttable

\* What a proper cut is.
LEMMA ProperCuts ==
  ASSUME NEW from, NEW n \in Sizes(from), ProperCut(from, n)
  PROVE  /\ Cuttable(stream, from + n) /\ CutWell(stream, Read(stream, from).buf, Chunk(from, n))
         /\ stream.eol = <<>> => n = 1
<1>1. stream.eol = <<>> => n = 1
  BY DEF Sizes
<1>2. CASE stream.eol = <<>>
  BY <1>1, <1>2 DEF Cuttable, CutWell
<1>3. CASE stream.eol # <<>>
  <2>1. /\ IF HasInk(ReadTo(Text, from).buf) THEN HasInk(Chunk(from, n))
           ELSE HasInk(Chunk(from, n)) => LooksLikeSSE(Trim(Chunk(from, n)))
        /\ ~(from + n < Len(Text) /\ <<Text[from + n], Text[from + n + 1]>> = <<"R", "N">>)
    BY <1>3, Zenon DEF ProperCut
  <2>2. ~Between(Text, from + n)
    BY <2>1 DEF Between
  <2>3. Read(stream, from) = ReadTo(Text, from)
    BY <1>3, Zenon DEF Read, Text
  <2> QED
    BY <1>3, <2>1, <2>2, <2>3 DEF Cuttable, CutWell, Text
<1> QED
  BY <1>2, <1>3

LEMMA DecoderInit ==
  ASSUME Init
  PROVE  DecoderInv
<1>1. OthersTypeOK /\ stream \in Streams /\ Len(Text) \in Nat
  BY TextIsARow DEF OthersTypeOK, Init, Text
<1>2. Read(stream, 0).buf = <<>> /\ Cuttable(stream, 0) /\ Came = sent
  BY <1>1, ReadNothing, RelayInit
<1>3. CASE sent = 0 /\ offer = Event("stream_start", 0, <<>>)
  <2>1. Fresh = 0 /\ offer.text = <<>> /\ buf = <<>>
    <3>1. Len(<<>>) = 0 /\ 0 - 0 = 0
      OBVIOUS
    <3>2. offer.text = <<>> /\ buf = <<>>
      BY <1>3 DEF Event, Init
    <3> QED
      BY <1>2, <1>3, <3>1, <3>2, Zenon DEF Fresh
  <2> QED
    BY <1>2, <1>3, <2>1 DEF DecoderInv
<1>4. ASSUME NEW n \in Sizes(0), NEW type, sent = n, proper = ProperCut(0, n),
             offer = Event(type, 0, Chunk(0, n))
      PROVE  DecoderInv
  <2>1. n \in Nat \ {0} /\ 0 + n <= Len(Text) /\ 0 + n = n
    BY <1>1 DEF Sizes
  <2>2. Len(Chunk(0, n)) = n
    BY <1>1, <2>1, ChunkShape
  <2>3. offer.text = Chunk(0, n) /\ buf = <<>>
    BY <1>4 DEF Event, Init
  <2>4. Fresh = 0
    BY <1>2, <1>4, <2>1, <2>2, <2>3 DEF Fresh
  <2>5. proper => /\ Cuttable(stream, n) /\ CutWell(stream, Read(stream, 0).buf, Chunk(0, n))
                  /\ stream.eol = <<>> => n = 1
    BY <1>1, <1>4, <2>1, ProperCuts
  <2> QED
    BY <1>2, <1>4, <2>2, <2>3, <2>4, <2>5 DEF DecoderInv, Unharmed
<1> QED
  BY <1>3, <1>4 DEF Init

\* What comes of the chunk the relay offers.
LEMMA ChunkTaken ==
  ASSUME TypeInv, DecoderInv, Unharmed, Going, relay # "closed", offer.text # <<>>
  PROVE  LET fed == Adapt(buf, offer.text)
         IN  /\ fed.payloads \in Seq(Payload)
             /\ fed.buf = Read(stream, Came).buf
             /\ Count(stream, Came) = Count(stream, Fresh) + Len(fed.payloads)
             /\ \A i \in 1..Len(fed.payloads) :
                  fed.payloads[i] = Events[stream][Count(stream, Fresh) + i]
<1> DEFINE n == Len(offer.text)
<1>1. /\ stream \in Streams /\ Came \in 0..Len(Text) /\ offer.text \in Seq(Token)
      /\ Len(offer.text) <= Came /\ offer.text = SubSeq(Text, Fresh + 1, Came)
  BY CameIs DEF TypeInv, OthersTypeOK, OfferInv, Unharmed
<1>2. /\ Cuttable(stream, Fresh) /\ Cuttable(stream, Came)
      /\ buf = Read(stream, Fresh).buf
      /\ stream.eol = <<>> => n = 1
      /\ CutWell(stream, buf, offer.text)
  BY DEF DecoderInv
<1>3. n \in Nat \ {0} /\ Fresh \in Nat /\ Fresh + n = Came /\ Came <= Len(Text)
  <2>1. Len(Text) \in Nat
    BY <1>1, TextIsARow DEF Text
  <2>2. n \in Nat /\ n # 0
    BY <1>1
  <2> HIDE DEF n
  <2>3. Fresh = Came - n
    BY DEF Fresh, n
  <2>4. n <= Came
    BY <1>1 DEF n
  <2> QED
    BY <1>1, <2>1, <2>2, <2>3, <2>4
<1> HIDE DEF n
<1>4. offer.text = SubSeq(TextOf[stream], Fresh + 1, Fresh + n) /\ Fresh + n <= Len(TextOf[stream])
  BY <1>1, <1>3 DEF Text
<1> DEFINE k == Fresh
<1>5. /\ k \in Nat /\ Came = k + n /\ offer.text = SubSeq(TextOf[stream], k + 1, k + n)
      /\ k + n <= Len(TextOf[stream])
  BY <1>3, <1>4
<1>6. /\ Cuttable(stream, k) /\ Cuttable(stream, k + n)
      /\ buf = Read(stream, k).buf
      /\ CutWell(stream, Read(stream, k).buf, SubSeq(TextOf[stream], k + 1, k + n))
  BY <1>2, <1>5
<1> HIDE DEF k
<1>7. LET fed == Adapt(Read(stream, k).buf, SubSeq(TextOf[stream], k + 1, k + n))
      IN  /\ fed.payloads \in Seq(Payload)
          /\ fed.buf = Read(stream, k + n).buf
          /\ Count(stream, k + n) = Count(stream, k) + Len(fed.payloads)
          /\ \A i \in 1..Len(fed.payloads) : fed.payloads[i] = Events[stream][Count(stream, k) + i]
  BY <1>1, <1>2, <1>3, <1>5, <1>6, ChunkGives
<1>8. /\ Read(stream, k).buf = buf /\ SubSeq(TextOf[stream], k + 1, k + n) = offer.text
      /\ k + n = Came
  BY <1>5, <1>6
<1> QED
  BY <1>7, <1>8, Zenon DEF k

LEMMA DecoderStep == TypeInv /\ OfferInv' /\ DecoderInv /\ [Next]_vars => DecoderInv'
<1> SUFFICES ASSUME TypeInv, OfferInv', DecoderInv, [Next]_vars,
                    (Unharmed /\ Going /\ relay # "closed")'
             PROVE  (/\ Cuttable(stream, Fresh) /\ Cuttable(stream, Came)
                     /\ buf = Read(stream, Fresh).buf
                     /\ offer.text # <<>> =>
                          /\ stream.eol = <<>> => Len(offer.text) = 1
                          /\ CutWell(stream, buf, offer.text))'
  BY DEF DecoderInv
<1>1. /\ OthersTypeOK /\ OfferInv /\ stream \in Streams
      /\ Len(Text) \in Nat /\ Came \in 0..Len(Text) /\ Came \in Nat
      /\ relay # "offering" => offer.text = <<>>
      /\ offer.text = <<>> => Fresh = Came
  <2>1. OthersTypeOK /\ OfferInv
    BY DEF TypeInv
  <2>2. Len(<<>>) = 0 /\ Came \in Nat /\ Len(Text) \in Nat /\ Came \in 0..Len(Text)
    BY CameIs DEF TypeInv
  <2>3. stream \in Streams /\ (relay # "offering" => offer = Nothing)
    BY <2>1 DEF OthersTypeOK, OfferInv
  <2>4. offer.text = <<>> => Fresh = Came - 0
    BY <2>2, Zenon DEF Fresh
  <2>5. Nothing.text = <<>>
    BY DEF Nothing, Event
  <2> QED
    BY <2>1, <2>2, <2>3, <2>4, <2>5
<1>2. ASSUME UNCHANGED <<stream, buf>>, Came' = Came, offer'.text = offer.text, Unharmed, Going,
             relay # "closed"
      PROVE  (/\ Cuttable(stream, Fresh) /\ Cuttable(stream, Came)
              /\ buf = Read(stream, Fresh).buf
              /\ offer.text # <<>> =>
                   /\ stream.eol = <<>> => Len(offer.text) = 1
                   /\ CutWell(stream, buf, offer.text))'
  <2>1. Fresh' = Fresh
    BY <1>2 DEF Fresh
  <2> QED
    BY <1>2, <2>1 DEF DecoderInv
<1>3. CASE Fetch
  <2> DEFINE n == Len(offer'.text)
  <2>1. /\ UNCHANGED <<stream, proper, holed, loopVars>> /\ relay = "reading"
        /\ offer'.text \in Seq(Token)
        /\ offer'.text # <<>> => n \in Sizes(Came) /\ (proper => ProperCut(Came, n))
        /\ ~holed => Fresh' = Came /\ Came' = Came + n /\ offer'.text = Chunk(Came, n)
    BY <1>3, FetchGives
  <2>2. Unharmed /\ Going /\ relay # "closed" /\ Fresh = Came
    BY <1>1, <2>1 DEF Unharmed, Going, loopVars
  <2>3. Cuttable(stream, Came) /\ buf = Read(stream, Came).buf
    BY <2>2 DEF DecoderInv
  <2>4. CASE offer'.text = <<>>
    <3>1. n = 0 /\ Came + 0 = Came
      BY <1>1, <2>4
    <3>2. Came' = Came
      BY <2>1, <2>2, <3>1 DEF Unharmed
    <3> QED
      BY <2>1, <2>2, <2>3, <2>4, <3>2 DEF Unharmed, loopVars
  <2>5. CASE offer'.text # <<>>
    <3>1. n \in Sizes(Came) /\ ProperCut(Came, n) /\ offer'.text = Chunk(Came, n) /\ Came' = Came + n
          /\ Fresh' = Came /\ UNCHANGED <<stream, buf>>
      BY <2>1, <2>2, <2>5 DEF Unharmed, loopVars
    <3>2. n = Len(offer'.text)
      OBVIOUS
    <3> HIDE DEF n
    <3>3. /\ Cuttable(stream, Came + n) /\ CutWell(stream, Read(stream, Came).buf, Chunk(Came, n))
          /\ stream.eol = <<>> => n = 1
      BY <3>1, ProperCuts
    <3> QED
      BY <2>3, <3>1, <3>2, <3>3
  <2> QED
    BY <2>4, <2>5
<1>4. CASE Provider \/ GiveUpSlot
  <2>1. /\ UNCHANGED <<stream, relay, offer, loopVars>>
        /\ Unharmed /\ Came' = Came
    BY <1>4, CameStays DEF Unharmed
  <2> QED
    BY <1>2, <2>1 DEF loopVars, Going
<1>5. CASE Take
  <2>1. /\ loop \in {"first", "waiting"} /\ relay = "offering" /\ ~Final(offer) /\ offer'.text = <<>>
        /\ UNCHANGED <<stream, proper, holed>> /\ Came' = Came /\ Process(offer)
    BY <1>5 DEF Take, Nothing, Event, replyVars, Came
  <2>2. Unharmed /\ Going /\ relay # "closed"
    BY <2>1 DEF Going, Unharmed
  <2>3. buf' = Read(stream, Came).buf
    <3>1. CASE offer.type = "stream_start"
      <4>1. offer.text = <<>> /\ buf' = buf
        BY <1>1, <2>1, <3>1 DEF OfferInv, Process, MessageTypes
      <4> QED
        BY <1>1, <2>2, <4>1 DEF DecoderInv
    <3>2. CASE offer.type = "stream_chunk"
      <4>1. offer.text # <<>> /\ buf' = Adapt(buf, offer.text).buf
        BY <1>1, <2>1, <3>2 DEF OfferInv, Process, MessageTypes
      <4> QED
        BY <2>2, <4>1, ChunkTaken
    <3> QED
      BY <1>1, <2>1, <3>1, <3>2 DEF OfferInv, Final, MessageTypes
  <2>4. Cuttable(stream, Came)
    BY <2>2 DEF DecoderInv
  <2>5. Fresh' = Came
    <3>1. Len(<<>>) = 0 /\ Came \in Nat /\ Came - 0 = Came
      BY <1>1
    <3> QED
      BY <2>1, <3>1 DEF Fresh
  <2> QED
    BY <2>1, <2>3, <2>4, <2>5
<1>6. CASE EventsClosed \/ IdleTimeout
  <2>1. last' = TRUE /\ loop' \in {"sending", "done"}
    BY <1>6 DEF EventsClosed, IdleTimeout, FlushAnd, GoOn
  <2> QED
    BY <2>1 DEF Going
<1>7. CASE Send \/ SendFails
  <2>1. /\ loop = "sending" /\ UNCHANGED <<buf, relayVars>>
        /\ (GoOn(<<>>, TRUE) \/ GoOn(Tail(todo), last))
    BY <1>7 DEF Send, SendFails
  <2>2. Going
    BY <2>1 DEF Going, GoOn
  <2> QED
    BY <1>2, <2>1, <2>2 DEF relayVars, replyVars, Unharmed, Came
<1>8. CASE RelayStops
  BY <1>8 DEF RelayStops
<1>9. CASE TimerFires \/ Converter \/ Handler \/ Leave \/ UNCHANGED vars
  <2>1. UNCHANGED <<relayVars, buf, loop, last>>
    BY <1>9 DEF TimerFires, Converter, Convert, HandOn, ConverterStops, Handler, Write,
                HandlerReturns, Leave, vars, loopVars
  <2> QED
    BY <1>2, <2>1 DEF relayVars, replyVars, Going, Unharmed, Came
<1> QED
  BY <1>3, <1>4, <1>5, <1>6, <1>7, <1>8, <1>9 DEF Next, Relay

-----------------------------------------------------------------------------
(* The way to the client, as its goroutines go on. *)

\* What the loop has sent and the client can still get; and with it what the loop has to send.
OnTheWay == IF converter = "closed" THEN chunks ELSE chunks \o carried \o out

Coming == IF converter = "closed" THEN chunks ELSE OnTheWay \o todo

\* What the client has got is right, but for a part at its end that an error follows.
GotInv ==
  \/ Right(stream, got, Len(got))
  \/ /\ Len(got) > 0 /\ Right(stream, got, Len(got) - 1)
     /\ Only("error", Coming) /\ (left \/ Coming # <<>>)

LineInv == InARow(stream, Coming, Len(got)) /\ Within(stream, OnTheWay, Len(got))

\* As long as the loop goes on all is whole, and what comes is what the decoder has made of the
\* text; and nothing that ends the answer has been sent.
GoingInv ==
  converter = "reading" =>
    /\ Going => Right(stream, got, Len(got)) /\ Only("payload", Coming)
    /\ Going /\ relay # "closed" => Len(got) + Len(Coming) = Count(stream, Fresh)
    /\ loop \in {"first", "waiting"} \/ (loop = "sending" /\ todo[1].kind # "error") =>
         Unended(stream, Len(got) + Len(OnTheWay))

\* Without a client that leaves nothing is lost: a loop that ends without an error has sent all.
WholeInv ==
  ~left =>
    /\ converter = "closed" => loop = "done"
    /\ Going => relay # "closed"
    /\ NoError(Coming) =>
         /\ loop = "sending" /\ last =>
              /\ Len(got) + Len(Coming) = Len(Events[stream])
              /\ AllWhole(stream, Coming, Len(got))
         /\ loop = "done" =>
              /\ Len(got) + Len(Coming) = Len(Meant[stream])
              /\ AllWhole(stream, Coming, Len(got))

\* What is left of this when the handler has returned.
ReturnedInv ==
  /\ \/ Right(stream, got, Len(got))
     \/ Len(got) > 0 /\ Right(stream, got, Len(got) - 1) /\ (left \/ handler = "failed")
  /\ handler = "ended" /\ ~left => got = Meant[stream]

ReadingInv == GotInv /\ LineInv /\ GoingInv /\ WholeInv

Delivered == IF handler = "reading" THEN ReadingInv ELSE ReturnedInv

LEMMA Ways ==
  ASSUME TypeInv
  PROVE  /\ stream \in Streams /\ got \in Seq(Payload \cup {<<>>}) /\ Len(got) \in Nat
         /\ OnTheWay \in Seq(Item) /\ Coming \in Seq(Item) /\ todo \in Seq(Item) /\ chunks \in Seq(Item)
         /\ Len(OnTheWay) \in Nat /\ Len(Coming) \in Nat /\ Len(todo) \in Nat
         /\ converter = "reading" =>
              /\ Coming = OnTheWay \o todo
              /\ Len(Coming) = Len(OnTheWay) + Len(todo)
              /\ \A i \in 1..Len(todo) : Coming[Len(OnTheWay) + i] = todo[i]
              /\ \A i \in 1..Len(OnTheWay) : Coming[i] = OnTheWay[i]
         /\ converter = "closed" => Coming = chunks /\ OnTheWay = chunks
<1>1. /\ stream \in Streams /\ got \in Seq(Payload \cup {<<>>}) /\ converter \in {"reading", "closed"}
      /\ chunks \in Seq(Item) /\ carried \in Seq(Item) /\ out \in Seq(Item) /\ todo \in Seq(Item)
  BY DEF TypeInv, OthersTypeOK, ItemsInv
<1>2. chunks \o carried \o out \in Seq(Item)
  BY <1>1
<1>3. OnTheWay \in Seq(Item)
  BY <1>1, <1>2 DEF OnTheWay
<1>4. converter = "reading" => Coming = OnTheWay \o todo
  BY DEF Coming
<1>5. converter = "closed" => Coming = chunks /\ OnTheWay = chunks
  BY DEF Coming, OnTheWay
<1> DEFINE a == OnTheWay
<1>6. a \in Seq(Item)
  BY <1>3
<1> HIDE DEF a
<1>7. /\ a \o todo \in Seq(Item) /\ Len(a \o todo) = Len(a) + Len(todo)
      /\ \A i \in 1..Len(a) : (a \o todo)[i] = a[i]
      /\ \A i \in 1..Len(todo) : (a \o todo)[Len(a) + i] = todo[i]
  BY <1>1, <1>6, Concatenated
<1>8. Coming \in Seq(Item)
  BY <1>1, <1>4, <1>5, <1>7 DEF a
<1>9. Len(got) \in Nat /\ Len(a) \in Nat /\ Len(Coming) \in Nat /\ Len(todo) \in Nat
  BY <1>1, <1>6, <1>8
<1> QED
  BY <1>1, <1>3, <1>4, <1>5, <1>7, <1>8, <1>9 DEF a

LEMMA Joined ==
  ASSUME NEW a \in Seq(Item), NEW b \in Seq(Item)
  PROVE  /\ \A kind : Only(kind, a) /\ Only(kind, b) => Only(kind, a \o b)
         /\ \A kind : Only(kind, a \o b) => Only(kind, b)
         /\ NoError(a \o b) => NoError(a) /\ NoError(b)
<1> DEFINE line == a \o b
<1>1. /\ Len(line) = Len(a) + Len(b) /\ Len(a) \in Nat /\ Len(b) \in Nat
      /\ \A i \in 1..Len(a) : line[i] = a[i]
      /\ \A i \in 1..Len(b) : line[Len(a) + i] = b[i]
  BY Concatenated
<1> HIDE DEF line
<1>2. ASSUME NEW i \in 1..Len(line)
      PROVE  (i \in 1..Len(a) /\ line[i] = a[i])
             \/ (i - Len(a) \in 1..Len(b) /\ line[i] = b[i - Len(a)])
  <2>1. CASE i <= Len(a)
    BY <1>1, <2>1
  <2>2. CASE i > Len(a)
    <3>1. i - Len(a) \in 1..Len(b) /\ Len(a) + (i - Len(a)) = i
      BY <1>1, <2>2
    <3> QED
      BY <1>1, <3>1
  <2> QED
    BY <1>1, <2>1, <2>2
<1>3. /\ \A i \in 1..Len(a) : i \in 1..Len(line)
      /\ \A i \in 1..Len(b) : Len(a) + i \in 1..Len(line)
  BY <1>1
<1>4. \A kind : Only(kind, a) /\ Only(kind, b) => Only(kind, line)
  BY <1>2 DEF Only
<1>5. \A kind : Only(kind, line) => Only(kind, b)
  BY <1>1, <1>3 DEF Only
<1>6. NoError(line) => NoError(a) /\ NoError(b)
  BY <1>1, <1>3 DEF NoError
<1> QED
  BY <1>4, <1>5, <1>6 DEF line

\* The handler has returned: nothing changes any more.
LEMMA NobodyReads ==
  ASSUME Delivered, handler # "reading", UNCHANGED <<stream, got, handler, left>>
  PROVE  Delivered'
BY DEF Delivered, ReturnedInv

\* Neither what comes nor the loop changes; the relay stops only when that is over, or the client
\* has left.
LEMMA Quiet ==
  ASSUME TypeInv, Delivered, handler = "reading",
         UNCHANGED <<stream, got, handler, converter, loop, last, todo>>,
         OnTheWay' = OnTheWay, Coming' = Coming, left => left',
         relay' # "closed" => relay # "closed" /\ Fresh' = Fresh,
         relay' = "closed" => relay = "closed" \/ left \/ loop = "done"
  PROVE  Delivered'
<1>1. GotInv /\ LineInv /\ GoingInv /\ WholeInv /\ handler' = "reading"
  BY DEF Delivered, ReadingInv
<1>2. GotInv'
  BY <1>1 DEF GotInv
<1>3. LineInv'
  BY <1>1 DEF LineInv
<1>4. Going' = Going
  BY DEF Going
<1>5. GoingInv'
  BY <1>1, <1>4 DEF GoingInv
<1>6. WholeInv'
  <2>1. Going => loop # "done"
    BY DEF Going
  <2> QED
    BY <1>1, <1>4, <2>1 DEF WholeInv
<1> QED
  BY <1>1, <1>2, <1>3, <1>5, <1>6 DEF Delivered, ReadingInv

\* The loop goes on though the client has left and nothing of it will be handed on.
LEMMA Unseen ==
  ASSUME TypeInv, Delivered, handler = "reading", converter = "closed", left,
         UNCHANGED <<stream, clientVars>>
  PROVE  Delivered'
<1>1. GotInv /\ LineInv /\ UNCHANGED <<stream, converter, chunks, handler, got, left>>
  BY DEF Delivered, ReadingInv, clientVars
<1>2. Coming' = Coming /\ OnTheWay' = OnTheWay
  BY <1>1 DEF Coming, OnTheWay
<1>3. GotInv' /\ LineInv'
  BY <1>1, <1>2 DEF GotInv, LineInv
<1>4. GoingInv' /\ WholeInv'
  BY <1>1 DEF GoingInv, WholeInv
<1> QED
  BY <1>1, <1>3, <1>4 DEF Delivered, ReadingInv

\* The loop has waited and goes on with some items.
LEMMA Fetched ==
  ASSUME TypeInv, Delivered, handler = "reading", converter = "reading",
         loop \in {"first", "waiting"},
         NEW items \in Seq(Item), NEW isLast \in BOOLEAN,
         UNCHANGED <<stream, out, carried, clientVars>>,
         todo' = items, last' = isLast,
         loop' = IF items # <<>> THEN "sending" ELSE IF isLast THEN "done" ELSE "waiting",
         InARow(stream, items, Len(got) + Len(OnTheWay)),
         ~isLast => /\ Only("payload", items) /\ relay' # "closed"
                    /\ Len(got) + Len(OnTheWay) + Len(items) = Count(stream, Fresh'),
         isLast /\ ~left /\ NoError(items) =>
           /\ Len(got) + Len(OnTheWay) + Len(items) = Len(Events[stream])
           /\ AllWhole(stream, items, Len(got) + Len(OnTheWay))
  PROVE  Delivered'
<1> DEFINE n == Len(got)
           a == OnTheWay
<1>1. /\ stream \in Streams /\ n \in Nat /\ a \in Seq(Item) /\ Len(a) \in Nat /\ Len(items) \in Nat
      /\ a \o items \in Seq(Item) /\ Len(a \o items) = Len(a) + Len(items)
  BY Ways, Concatenated
<1>2. todo = <<>> /\ Coming = a
  <2>1. todo = <<>>
    BY DEF TypeInv, LoopTypeOK
  <2> HIDE DEF a
  <2>2. a \o <<>> = a
    BY <1>1
  <2> QED
    BY <2>1, <2>2 DEF Coming, a
<1>3. a' = a /\ n' = n /\ Coming' = a \o items /\ handler' = "reading" /\ converter' = "reading"
      /\ left' = left /\ stream' = stream /\ got' = got
  BY DEF Coming, OnTheWay, clientVars
<1>4. /\ Right(stream, got, n) /\ Only("payload", a) /\ Unended(stream, n + Len(a))
      /\ InARow(stream, a, n) /\ Within(stream, a, n)
  BY <1>2 DEF Delivered, ReadingInv, LineInv, GoingInv, Going
<1>5. AllWhole(stream, a, n)
  BY <1>4 DEF InARow, Only, AllWhole
<1>6. InARow(stream, a \o items, n)
  BY <1>1, <1>4, RowJoined
<1>7. GotInv' /\ LineInv'
  BY <1>3, <1>4, <1>6 DEF GotInv, LineInv
<1>8. Going' => ~isLast
  BY DEF Going
<1>9. GoingInv'
  <2>1. ASSUME Going'
        PROVE  (Right(stream, got, Len(got)) /\ Only("payload", Coming)
                /\ Len(got) + Len(Coming) = Count(stream, Fresh))'
    <3>1. Only("payload", a \o items)
      BY <1>1, <1>4, <1>8, <2>1, Joined
    <3>2. n + Len(a \o items) = Count(stream, Fresh')
      BY <1>1, <1>8, <2>1
    <3> QED
      BY <1>3, <1>4, <3>1, <3>2
  <2>2. Unended(stream, Len(got) + Len(OnTheWay))'
    BY <1>3, <1>4
  <2> QED
    BY <2>1, <2>2 DEF GoingInv
<1>10. WholeInv'
  <2> SUFFICES ASSUME ~left
               PROVE  (/\ Going => relay # "closed"
                       /\ NoError(Coming) =>
                            /\ loop = "sending" /\ last =>
                                 /\ Len(got) + Len(Coming) = Len(Events[stream])
                                 /\ AllWhole(stream, Coming, Len(got))
                            /\ loop = "done" =>
                                 /\ Len(got) + Len(Coming) = Len(Meant[stream])
                                 /\ AllWhole(stream, Coming, Len(got)))'
    BY <1>3 DEF WholeInv
  <2>1. Going' => relay' # "closed"
    BY <1>8
  <2>2. ASSUME NoError(a \o items), isLast
        PROVE  /\ n + Len(a \o items) = Len(Events[stream])
               /\ AllWhole(stream, a \o items, n)
               /\ items = <<>> => n + Len(a \o items) = Len(Meant[stream])
    <3>1. NoError(items)
      BY <1>1, <2>2, Joined
    <3>2. n + Len(a) + Len(items) = Len(Events[stream]) /\ AllWhole(stream, items, n + Len(a))
      BY <2>2, <3>1
    <3>3. AllWhole(stream, a \o items, n)
      BY <1>1, <1>5, <3>2, WholeJoined
    <3>4. n + Len(a) \in Nat /\ n + Len(a \o items) = n + Len(a) + Len(items)
      BY <1>1
    <3>5. ASSUME items = <<>>
          PROVE  n + Len(a) + Len(items) = Len(Meant[stream])
      <4>1. Len(items) = 0 /\ n + Len(a) + 0 = n + Len(a)
        BY <1>1, <3>5
      <4> QED
        BY <1>1, <1>4, <3>2, <3>4, <4>1, AnswerGoesOn
    <3> QED
      BY <3>2, <3>3, <3>4, <3>5
  <2>3. /\ (loop = "sending" /\ last)' => isLast
        /\ loop' = "done" => isLast /\ items = <<>>
    OBVIOUS
  <2> HIDE DEF n, a
  <2> QED
    BY <1>3, <2>1, <2>2, <2>3 DEF n
<1> QED
  BY <1>3, <1>7, <1>9, <1>10 DEF Delivered, ReadingInv

\* The loop sends its next item.
LEMMA Sent ==
  ASSUME TypeInv, TypeInv', Delivered, handler = "reading", converter = "reading", Send
  PROVE  Delivered'
<1> DEFINE n == Len(got)
           a == OnTheWay
           x == todo[1]
           b == a \o <<x>>
           q == n + Len(a)
<1>1. /\ loop = "sending" /\ todo # <<>> /\ todo \in Seq(Item) /\ x \in Item /\ Head(todo) = x
      /\ x.kind \in {"payload", "tail", "error"} /\ 1 \in 1..Len(todo)
  <2>1. loop = "sending" /\ todo # <<>> /\ todo \in Seq(Item)
    BY DEF Send, TypeInv, LoopTypeOK, ItemsInv
  <2>2. 1 \in 1..Len(todo)
    BY <2>1
  <2> QED
    BY <2>1, <2>2, Kinds
<1>2. /\ stream \in Streams /\ n \in Nat /\ a \in Seq(Item) /\ Len(a) \in Nat /\ q \in Nat
      /\ Coming = a \o todo /\ Len(Coming) = Len(a) + Len(todo) /\ Len(todo) \in Nat
      /\ Coming[Len(a) + 1] = x /\ Len(a) + 1 \in 1..Len(Coming)
  <2>1. /\ stream \in Streams /\ n \in Nat /\ a \in Seq(Item) /\ Len(a) \in Nat
        /\ Coming = a \o todo /\ Len(Coming) = Len(a) + Len(todo) /\ Len(todo) \in Nat
        /\ \A i \in 1..Len(todo) : Coming[Len(a) + i] = todo[i]
    BY Ways
  <2> HIDE DEF a, n
  <2>2. Coming[Len(a) + 1] = todo[1]
    BY <1>1, <2>1
  <2>3. Len(a) + 1 \in 1..Len(Coming) /\ n + Len(a) \in Nat
    BY <1>1, <2>1
  <2> QED
    BY <2>1, <2>2, <2>3
<1>3. <<x>> \in Seq(Item) /\ b \in Seq(Item) /\ Len(b) = Len(a) + 1
      /\ <<x>> \o Tail(todo) = todo /\ Tail(todo) \in Seq(Item) /\ Len(Tail(todo)) = Len(todo) - 1
  <2> HIDE DEF a
  <2>1. <<x>> \in Seq(Item) /\ <<x>> \o Tail(todo) = todo /\ Tail(todo) \in Seq(Item)
        /\ Len(Tail(todo)) = Len(todo) - 1
    BY <1>1
  <2> HIDE DEF x
  <2> QED
    BY <1>2, <2>1
<1>4. Coming = b \o Tail(todo)
  <2> DEFINE t == Tail(todo)
             y == <<x>>
  <2> HIDE DEF t, y, a
  <2>1. y \in Seq(Item) /\ t \in Seq(Item) /\ a \in Seq(Item)
    BY <1>2, <1>3 DEF t, y
  <2>2. (a \o y) \o t = a \o (y \o t)
    BY <2>1, Regrouped, Zenon
  <2> QED
    BY <1>2, <1>3, <2>2 DEF t, y
<1>5. /\ b = OnTheWay' /\ n' = n /\ handler' = "reading" /\ converter' = "reading" /\ left' = left
      /\ stream' = stream /\ got' = got /\ relay' = relay /\ Fresh' = Fresh
  <2>1. /\ out' = Append(out, x) /\ UNCHANGED <<relayVars, carried, clientVars>>
    BY <1>1 DEF Send
  <2>2. OnTheWay' = chunks \o carried \o Append(out, x) /\ a = chunks \o carried \o out
    BY <2>1 DEF OnTheWay, clientVars
  <2>3. chunks \in Seq(Item) /\ carried \in Seq(Item) /\ out \in Seq(Item)
    BY DEF TypeInv, ItemsInv
  <2> HIDE DEF x, a
  <2>4. Append(out, x) = out \o <<x>>
    BY <1>1, <2>3
  <2>5. b = OnTheWay'
    <3> DEFINE c == chunks \o carried
               y == <<x>>
    <3>1. c \in Seq(Item) /\ y \in Seq(Item)
      BY <1>3, <2>3
    <3> HIDE DEF c, y
    <3>2. (c \o out) \o y = c \o (out \o y)
      <4>1. out \in Seq(Item) /\ c \in Seq(Item) /\ y \in Seq(Item)
        BY <2>3, <3>1
      <4> QED
        BY <4>1, Regrouped, Zenon
    <3> QED
      BY <2>2, <2>4, <3>2 DEF c, y
  <2> QED
    BY <2>1, <2>5 DEF relayVars, replyVars, clientVars, Fresh, Came
<1>6. GotInv /\ LineInv /\ GoingInv /\ WholeInv
  BY DEF Delivered, ReadingInv
<1>7. InARow(stream, Coming, n) /\ Within(stream, a, n)
  BY <1>6 DEF LineInv
<1>8. /\ x.kind # "error" => Only("payload", a) /\ AllWhole(stream, a, n) /\ Unended(stream, q)
      /\ x.kind = "error" => Tail(todo) = <<>>
      /\ x.kind = "tail" => Only("error", Tail(todo))
      /\ x.kind = "payload" => q + 1 <= Len(Events[stream]) /\ x.payload = Events[stream][q + 1]
  <2>1. InARow(stream, a \o todo, n)
    BY <1>2, <1>7
  <2> HIDE DEF a, n
  <2> QED
    BY <1>1, <1>2, <1>6, <2>1, NextInRow DEF GoingInv, a, n
<1>9. x.kind # "error" =>
        /\ q <= Len(Meant[stream])
        /\ q + 1 <= Len(Events[stream]) =>
             /\ q + 1 <= Len(Meant[stream])
             /\ IsTerminal(Events[stream][q + 1]) => Len(Meant[stream]) = q + 1
             /\ ~IsTerminal(Events[stream][q + 1]) => Unended(stream, q + 1)
        /\ q + 1 = Len(Events[stream]) => Len(Meant[stream]) = q + 1
  <2> HIDE DEF a, n, x, q
  <2> QED
    BY <1>2, <1>8, AnswerGoesOn
<1> HIDE DEF n, a, x, q
<1>14. /\ Len(b) = Len(a) + 1 /\ n + Len(b) = q + 1 /\ b = a \o <<x>>
      /\ b[Len(a) + 1] = x /\ \A i \in 1..Len(a) : b[i] = a[i]
  <2> DEFINE y == <<x>>
  <2>1. y \in Seq(Item) /\ Len(y) = 1 /\ y[1] = x /\ 1 \in 1..1
    BY <1>3
  <2> HIDE DEF y
  <2>2. Len(a \o y) = Len(a) + 1 /\ (a \o y)[Len(a) + 1] = x /\ \A i \in 1..Len(a) : (a \o y)[i] = a[i]
    <3>1. /\ Len(a \o y) = Len(a) + Len(y)
          /\ \A i \in 1..Len(a) : (a \o y)[i] = a[i]
          /\ \A i \in 1..Len(y) : (a \o y)[Len(a) + i] = y[i]
      <4>1. a \in Seq(Item) /\ y \in Seq(Item)
        BY <1>2, <2>1
      <4> QED
        BY <4>1, Concatenated
    <3>2. (a \o y)[Len(a) + 1] = y[1]
      BY <2>1, <3>1
    <3> QED
      BY <2>1, <3>1, <3>2
  <2>3. n + (Len(a) + 1) = q + 1
    BY <1>2 DEF q
  <2> QED
    BY <2>2, <2>3 DEF y
<1> HIDE DEF b
<1>10. Within(stream, b, n)
  <2>1. ASSUME NEW i \in 1..Len(b)
        PROVE  /\ b[i].kind = "payload" => n + i <= Len(Meant[stream])
               /\ b[i].kind = "tail" => n + i <= Len(Meant[stream]) + 1
    <3>1. CASE i <= Len(a)
      <4>1. i \in 1..Len(a) /\ b[i] = a[i]
        BY <1>2, <1>14, <3>1
      <4> QED
        BY <1>7, <4>1 DEF Within
    <3>2. CASE i > Len(a)
      <4>1. i = Len(a) + 1 /\ n + i = q + 1
        BY <1>2, <1>14, <3>2
      <4>2. b[i] = x
        BY <1>14, <4>1
      <4>3. Len(Meant[stream]) \in Nat
        <5>1. Meant[stream] \in Seq(Payload)
          BY <1>2, MeantFacts
        <5> QED
          BY <5>1
      <4>4. x.kind = "payload" => q + 1 <= Len(Meant[stream])
        BY <1>8, <1>9
      <4>5. x.kind = "tail" => q <= Len(Meant[stream])
        BY <1>9
      <4> DEFINE m == Len(Meant[stream])
      <4>6. m \in Nat /\ (x.kind = "payload" => q + 1 <= m) /\ (x.kind = "tail" => q <= m)
        BY <4>3, <4>4, <4>5
      <4> HIDE DEF m
      <4>7. (x.kind = "payload" => n + i <= m) /\ (x.kind = "tail" => n + i <= m + 1)
        <5>1. q \in Nat /\ n + i = q + 1
          BY <1>2, <4>1
        <5>2. n + i <= m + 1 <=> q <= m
          BY <4>6, <5>1
        <5>3. n + i <= m <=> q + 1 <= m
          BY <5>1
        <5> QED
          BY <4>6, <5>2, <5>3
      <4> QED
        BY <4>2, <4>7 DEF m
    <3> QED
      BY <1>2, <1>14, <3>1, <3>2
  <2> QED
    BY <2>1 DEF Within
<1>11. Len(b) = Len(a) + 1 /\ n + Len(b) = q + 1
  BY <1>14
<1>12. CASE x.kind = "payload" /\ IsTerminal(x.payload)
  <2>1. /\ todo' = <<>> /\ loop' = "done"
    BY <1>1, <1>12 DEF Send, GoOn
  <2>2. Coming' = b
    <3>1. Coming' = OnTheWay' \o <<>>
      BY <1>5, <2>1 DEF Coming
    <3>2. b \o <<>> = b
      BY <1>3
    <3> QED
      BY <1>5, <3>1, <3>2
  <2>3. Len(Meant[stream]) = q + 1
    BY <1>8, <1>9, <1>12
  <2>4. InARow(stream, b, n)
    <3>1. InARow(stream, b \o Tail(todo), n)
      BY <1>4, <1>7
    <3> QED
      BY <1>2, <1>3, <3>1, RowCut
  <2>5. AllWhole(stream, b, n)
    <3>1. AllWhole(stream, <<x>>, n + Len(a))
      BY <1>8, <1>12 DEF AllWhole, q
    <3> QED
      BY <1>2, <1>3, <1>8, <1>12, <3>1, WholeJoined DEF b
  <2>6. Right(stream, got, n)
    <3>1. ~Only("error", Coming)
      BY <1>2, <1>12 DEF Only
    <3> QED
      BY <1>6, <3>1 DEF GotInv, n
  <2>7. GotInv' /\ LineInv'
    BY <1>5, <1>10, <2>2, <2>4, <2>6 DEF GotInv, LineInv, n
  <2>8. ~Going'
    BY <2>1 DEF Going
  <2>9. GoingInv'
    BY <2>1, <2>8 DEF GoingInv
  <2>10. WholeInv'
    <3>1. (Len(got) + Len(Coming) = Len(Meant[stream]) /\ AllWhole(stream, Coming, Len(got)))'
      BY <1>5, <1>11, <2>2, <2>3, <2>5 DEF n
    <3> QED
      BY <1>5, <2>1, <2>8, <3>1 DEF WholeInv
  <2> QED
    BY <1>5, <2>7, <2>9, <2>10 DEF Delivered, ReadingInv
<1>13. CASE ~(x.kind = "payload" /\ IsTerminal(x.payload))
  <2>1. /\ todo' = Tail(todo) /\ last' = last
        /\ loop' = IF Tail(todo) # <<>> THEN "sending" ELSE IF last THEN "done" ELSE "waiting"
    <3>1. GoOn(Tail(todo), last)
      BY <1>1, <1>13 DEF Send
    <3> QED
      BY <3>1 DEF GoOn
  <2>2. Coming' = Coming
    BY <1>4, <1>5, <2>1 DEF Coming
  <2>3. GotInv' /\ LineInv'
    BY <1>5, <1>6, <1>7, <1>10, <2>2 DEF GotInv, LineInv, n
  <2>4. Going' => Going
    BY <1>1, <2>1, Zenon DEF Going
  <2>5. Going => x.kind = "payload"
    BY <1>2, <1>5, <1>6, <1>1, Zenon DEF GoingInv, Only
  <2>6. last \in BOOLEAN
    BY DEF TypeInv, LoopTypeOK
  <2>7. ASSUME loop' \in {"first", "waiting"} \/ (loop' = "sending" /\ todo'[1].kind # "error")
        PROVE  Unended(stream, q + 1)
    <3>1. x.kind = "payload"
      <4>1. CASE loop' \in {"first", "waiting"}
        <5>1. ~last
          BY <2>1, <4>1
        <5> QED
          BY <1>1, <2>5, <5>1 DEF Going
      <4>2. CASE loop' = "sending" /\ todo'[1].kind # "error"
        <5>1. Tail(todo) # <<>> /\ 1 \in 1..Len(Tail(todo)) /\ Tail(todo)[1].kind # "error"
          <6>1. Tail(todo) # <<>> /\ Tail(todo)[1].kind # "error"
            BY <2>1, <2>6, <4>2
          <6> QED
            BY <1>3, <6>1
        <5> QED
          BY <1>1, <1>8, <5>1 DEF Only
      <4> QED
        BY <2>7, <4>1, <4>2
    <3> QED
      BY <1>8, <1>9, <1>13, <3>1
  <2>8. GoingInv'
    <3>1. (Going => Right(stream, got, Len(got)) /\ Only("payload", Coming))'
      BY <1>5, <1>6, <2>2, <2>4 DEF GoingInv, n
    <3>2. (Going /\ relay # "closed" => Len(got) + Len(Coming) = Count(stream, Fresh))'
      BY <1>5, <1>6, <2>2, <2>4 DEF GoingInv, n
    <3>3. (loop \in {"first", "waiting"} \/ (loop = "sending" /\ todo[1].kind # "error") =>
             Unended(stream, Len(got) + Len(OnTheWay)))'
      BY <1>5, <1>11, <2>7 DEF n
    <3> QED
      BY <3>1, <3>2, <3>3 DEF GoingInv
  <2>9. WholeInv'
    <3> SUFFICES ASSUME ~left
                 PROVE  (/\ Going => relay # "closed"
                         /\ NoError(Coming) =>
                              /\ loop = "sending" /\ last =>
                                   /\ Len(got) + Len(Coming) = Len(Events[stream])
                                   /\ AllWhole(stream, Coming, Len(got))
                              /\ loop = "done" =>
                                   /\ Len(got) + Len(Coming) = Len(Meant[stream])
                                   /\ AllWhole(stream, Coming, Len(got)))'
      BY <1>5 DEF WholeInv
    <3>1. (Going => relay # "closed")'
      BY <1>5, <1>6, <2>4 DEF WholeInv
    <3>2. NoError(Coming) /\ last =>
            n + Len(Coming) = Len(Events[stream]) /\ AllWhole(stream, Coming, n)
      BY <1>1, <1>6 DEF WholeInv, n
    <3>3. ASSUME NoError(Coming), loop' = "done"
          PROVE  last /\ n + Len(Coming) = Len(Meant[stream])
      <4>1. last /\ Tail(todo) = <<>>
        BY <2>1, <3>3
      <4>2. Len(Coming) = Len(a) + 1 /\ n + Len(Coming) = q + 1
        <5>1. Len(<<>>) = 0
          OBVIOUS
        <5>2. Len(Tail(todo)) = 0
          BY <4>1, <5>1
        <5>3. Len(Tail(todo)) = Len(todo) - 1 /\ Len(todo) \in Nat
          BY <1>2, <1>3
        <5>4. Len(todo) = 1
          BY <5>2, <5>3
        <5> QED
          BY <1>2, <5>4 DEF q
      <4>3. x.kind # "error"
        BY <1>2, <3>3 DEF NoError
      <4> QED
        BY <1>9, <3>2, <3>3, <4>1, <4>2, <4>3
    <3>4. (loop = "sending" /\ last)' => last
      BY <2>1
    <3> QED
      BY <1>5, <2>2, <3>1, <3>2, <3>3, <3>4 DEF n
  <2> QED
    BY <1>5, <2>3, <2>8, <2>9 DEF Delivered, ReadingInv
<1> QED
  BY <1>12, <1>13

\* The loop cannot send its next item, the client having left.
LEMMA NotSent ==
  ASSUME TypeInv, TypeInv', Delivered, handler = "reading", converter = "reading", SendFails
  PROVE  Delivered'
<1> DEFINE n == Len(got)
           a == OnTheWay
           x == todo[1]
<1>1. /\ loop = "sending" /\ todo # <<>> /\ todo \in Seq(Item) /\ Head(todo) = x
      /\ x.kind \in {"payload", "tail", "error"} /\ 1 \in 1..Len(todo)
      /\ Tail(todo) \in Seq(Item)
  <2>1. loop = "sending" /\ todo # <<>> /\ todo \in Seq(Item)
    BY DEF SendFails, TypeInv, LoopTypeOK, ItemsInv
  <2>2. 1 \in 1..Len(todo) /\ Tail(todo) \in Seq(Item)
    BY <2>1
  <2> QED
    BY <2>1, <2>2, Kinds
<1>2. /\ stream \in Streams /\ n \in Nat /\ a \in Seq(Item) /\ Len(a) \in Nat
      /\ Coming = a \o todo /\ Len(Coming) = Len(a) + Len(todo) /\ Len(todo) \in Nat
      /\ Coming[Len(a) + 1] = x /\ Len(a) + 1 \in 1..Len(Coming)
  <2>1. /\ stream \in Streams /\ n \in Nat /\ a \in Seq(Item) /\ Len(a) \in Nat
        /\ Coming = a \o todo /\ Len(Coming) = Len(a) + Len(todo) /\ Len(todo) \in Nat
        /\ \A i \in 1..Len(todo) : Coming[Len(a) + i] = todo[i]
    BY Ways
  <2> HIDE DEF a, n
  <2>2. Coming[Len(a) + 1] = todo[1]
    BY <1>1, <2>1
  <2>3. Len(a) + 1 \in 1..Len(Coming) /\ n + Len(a) \in Nat
    BY <1>1, <2>1
  <2> QED
    BY <2>1, <2>2, <2>3
<1>3. /\ a' = a /\ n' = n /\ handler' = "reading" /\ converter' = "reading"
      /\ left /\ left' = left /\ stream' = stream /\ got' = got
  BY <1>1 DEF SendFails, AttemptDone, Canceled, OnTheWay, relayVars, replyVars, clientVars
<1>4. GotInv /\ LineInv /\ GoingInv
  BY DEF Delivered, ReadingInv
<1>5. InARow(stream, a \o todo, n) /\ Within(stream, a, n)
  BY <1>2, <1>4 DEF LineInv
<1>6. /\ x.kind # "error" => Only("payload", a)
      /\ x.kind = "error" => Tail(todo) = <<>>
      /\ x.kind = "tail" => Only("error", Tail(todo)) /\ InARow(stream, Tail(todo), n + Len(a))
  <2> HIDE DEF a, n
  <2> QED
    BY <1>1, <1>2, <1>5, NextInRow
<1>7. WholeInv'
  BY <1>3 DEF WholeInv
<1>8. Going => x.kind = "payload"
  BY <1>1, <1>2, <1>4 DEF GoingInv, Only
<1> HIDE DEF a, n, x
<1>9. a \o <<>> = a
  BY <1>2
<1>10. InARow(stream, a, n) /\ (Only("error", Coming) => Only("error", a))
  BY <1>1, <1>2, <1>5, RowCut
<1>11. CASE x.kind = "payload"
  <2>1. todo' = <<>> /\ loop' = "done"
    BY <1>1, <1>11 DEF SendFails, GoOn
  <2>2. Coming' = a
    BY <1>3, <1>9, <2>1 DEF Coming, a
  <2>3. GotInv' /\ LineInv'
    BY <1>3, <1>4, <1>5, <1>10, <2>2 DEF GotInv, LineInv, n, a
  <2>4. GoingInv'
    BY <2>1 DEF GoingInv, Going
  <2> QED
    BY <1>3, <1>7, <2>3, <2>4 DEF Delivered, ReadingInv
<1>12. CASE x.kind # "payload"
  <2>1. /\ todo' = Tail(todo) /\ last' = last
        /\ loop' = IF Tail(todo) # <<>> THEN "sending" ELSE IF last THEN "done" ELSE "waiting"
    <3>1. GoOn(Tail(todo), last)
      BY <1>1, <1>12 DEF SendFails
    <3> QED
      BY <3>1 DEF GoOn
  <2>2. last
    BY <1>1, <1>8, <1>12 DEF Going, TypeInv, LoopTypeOK
  <2>3. ~Going' /\ loop' \notin {"first", "waiting"}
    BY <2>1, <2>2 DEF Going
  <2>4. loop' = "sending" => x.kind = "tail" /\ todo'[1].kind = "error"
    <3> SUFFICES ASSUME loop' = "sending"
                 PROVE  x.kind = "tail" /\ todo'[1].kind = "error"
      OBVIOUS
    <3>1. Tail(todo) # <<>>
      BY <2>1, <2>2
    <3>2. 1 \in 1..Len(Tail(todo))
      BY <1>1, <3>1
    <3> QED
      BY <1>1, <1>6, <1>12, <2>1, <3>1, <3>2 DEF Only
  <2>5. GoingInv'
    BY <2>3, <2>4 DEF GoingInv
  <2>6. Coming' = a \o Tail(todo)
    BY <1>3, <2>1 DEF Coming, a
  <2>7. InARow(stream, a \o Tail(todo), n)
    <3>1. CASE x.kind = "error"
      BY <1>6, <1>9, <1>10, <3>1
    <3>2. CASE x.kind = "tail"
      BY <1>1, <1>2, <1>6, <1>10, <3>2, RowJoined
    <3> QED
      BY <1>1, <1>12, <3>1, <3>2
  <2>8. Only("error", Coming) => Only("error", a \o Tail(todo))
    <3>1. Only("error", a \o todo) => Only("error", a) /\ Only("error", todo)
      BY <1>1, <1>2, <1>10, Joined
    <3>2. 0 \in Nat /\ (Only("error", todo) => Only("error", Tail(todo)))
      BY <1>1, RowTail
    <3> QED
      BY <1>1, <1>2, <3>1, <3>2, Joined
  <2>9. GotInv' /\ LineInv'
    BY <1>3, <1>4, <1>5, <2>6, <2>7, <2>8 DEF GotInv, LineInv, n, a
  <2> QED
    BY <1>3, <1>7, <2>5, <2>9 DEF Delivered, ReadingInv
<1> QED
  BY <1>11, <1>12

\* The converter has nothing more to read, or drops what it holds, the client having left.
LEMMA Stopped ==
  ASSUME TypeInv, Delivered, handler = "reading", ConverterStops
  PROVE  Delivered'
<1> DEFINE n == Len(got)
<1>1. /\ converter = "reading" /\ converter' = "closed" /\ handler' = "reading" /\ left' = left
      /\ stream' = stream /\ got' = got /\ chunks' = chunks /\ loop' = loop
      /\ Coming' = chunks /\ OnTheWay' = chunks /\ n' = n
  BY DEF ConverterStops, Coming, OnTheWay, relayVars, replyVars, loopVars
<1>2. GotInv /\ LineInv /\ GoingInv /\ WholeInv
  BY DEF Delivered, ReadingInv
<1>3. /\ chunks \in Seq(Item) /\ carried \in Seq(Item) /\ out \in Seq(Item) /\ todo \in Seq(Item)
      /\ n \in Nat
  BY Ways DEF TypeInv, ItemsInv
<1>4. OnTheWay = chunks \o carried \o out /\ Coming = OnTheWay \o todo
  BY <1>1 DEF OnTheWay, Coming
<1> DEFINE c == chunks \o carried
           d == c \o out
<1> HIDE DEF n
<1>5. c \in Seq(Item) /\ OnTheWay = d /\ Coming = d \o todo
  BY <1>3, <1>4
<1> HIDE DEF c
<1>6. d \in Seq(Item)
  BY <1>3, <1>5
<1> HIDE DEF d
<1>7. /\ InARow(stream, d \o todo, n) => InARow(stream, d, n)
      /\ \A kind : Only(kind, d \o todo) => Only(kind, d)
  BY <1>3, <1>6, RowCut
<1>8. /\ InARow(stream, c \o out, n) => InARow(stream, c, n)
      /\ Within(stream, c \o out, n) => Within(stream, c, n)
      /\ \A kind : Only(kind, c \o out) => Only(kind, c)
  BY <1>3, <1>5, RowCut
<1>9. /\ InARow(stream, chunks \o carried, n) => InARow(stream, chunks, n)
      /\ Within(stream, chunks \o carried, n) => Within(stream, chunks, n)
      /\ \A kind : Only(kind, chunks \o carried) => Only(kind, chunks)
  BY <1>3, RowCut
<1>10. /\ InARow(stream, Coming, n) => InARow(stream, chunks, n)
       /\ Within(stream, OnTheWay, n) => Within(stream, chunks, n)
       /\ Only("error", Coming) => Only("error", chunks)
  BY <1>5, <1>7, <1>8, <1>9 DEF c, d
<1>11. LineInv'
  BY <1>1, <1>2, <1>10 DEF LineInv, n
<1>12. GoingInv'
  BY <1>1 DEF GoingInv
<1>13. left \/ (loop = "done" /\ Coming = chunks)
  <2>1. CASE carried # <<>>
    BY <2>1 DEF ConverterStops, Canceled
  <2>2. CASE carried = <<>>
    <3>1. out = <<>> /\ loop = "done" /\ todo = <<>>
      BY <2>2 DEF ConverterStops, TypeInv, LoopTypeOK
    <3>2. chunks \o <<>> = chunks
      BY <1>3
    <3> QED
      BY <1>4, <2>2, <3>1, <3>2
  <2> QED
    BY <2>1, <2>2
<1>14. GotInv'
  BY <1>1, <1>2, <1>10, <1>13 DEF GotInv, n
<1>15. WholeInv'
  <2>1. loop = "done" => ~Going'
    BY <1>1 DEF Going
  <2> QED
    BY <1>1, <1>2, <1>13, <2>1 DEF WholeInv, n
<1> QED
  BY <1>1, <1>11, <1>12, <1>14, <1>15 DEF Delivered, ReadingInv

\* The handler writes what is next, or the error.
LEMMA Written ==
  ASSUME TypeInv, TypeInv', Delivered, Write
  PROVE  Delivered'
<1> DEFINE n == Len(got)
           a == Coming
           w == OnTheWay
           x == chunks[1]
<1>1. /\ handler = "reading" /\ chunks # <<>> /\ chunks' = Tail(chunks) /\ Head(chunks) = x
      /\ UNCHANGED <<relayVars, loopVars, out, carried, converter, left>>
  <2>1. chunks \in Seq(Item)
    BY Ways
  <2> QED
    BY <2>1 DEF Write
<1>2. GotInv /\ LineInv /\ GoingInv /\ WholeInv
  BY <1>1 DEF Delivered, ReadingInv
<1>3. /\ stream \in Streams /\ got \in Seq(Payload \cup {<<>>}) /\ n \in Nat
      /\ a \in Seq(Item) /\ w \in Seq(Item)
      /\ chunks \in Seq(Item)
  BY Ways
<1>4. /\ Len(chunks) \in Nat \ {0}
      /\ 1 \in 1..Len(chunks) /\ x.kind \in {"payload", "tail", "error"}
      /\ x.payload \in Payload \cup {<<>>}
  <2>1. Len(chunks) \in Nat \ {0}
    BY <1>1, <1>3
  <2>2. x \in Item
    BY <1>3, <2>1
  <2> QED
    BY <2>1, <2>2 DEF Item
\* What comes begins with it.
<1>5. /\ w # <<>> /\ w[1] = x /\ Tail(w) = OnTheWay'
      /\ a # <<>> /\ a[1] = x /\ Tail(a) = Coming'
  <2> DEFINE c == chunks \o carried
             d == c \o out
  <2>0. ASSUME NEW u \in Seq(Item), u # <<>>, NEW v \in Seq(Item)
        PROVE  /\ u \o v \in Seq(Item) /\ u \o v # <<>>
               /\ (u \o v)[1] = u[1] /\ Tail(u \o v) = Tail(u) \o v
    BY <2>0
  <2>1. carried \in Seq(Item) /\ out \in Seq(Item) /\ todo \in Seq(Item)
    BY DEF TypeInv, ItemsInv
  <2>2. c # <<>> /\ c[1] = x /\ Tail(c) = Tail(chunks) \o carried /\ c \in Seq(Item)
    BY <1>1, <1>3, <2>0, <2>1
  <2>3. CASE converter = "closed"
    BY <1>1, <2>3 DEF Coming, OnTheWay
  <2>4. CASE converter # "closed"
    <3> HIDE DEF c, x
    <3>1. d # <<>> /\ d[1] = x /\ Tail(d) = Tail(c) \o out /\ d \in Seq(Item)
      BY <2>0, <2>1, <2>2
    <3>2. w = d /\ a = d \o todo
      BY <2>4 DEF Coming, OnTheWay, c
    <3>3. OnTheWay' = (Tail(chunks) \o carried) \o out
      BY <1>1, <2>4 DEF OnTheWay
    <3>4. OnTheWay' = Tail(d)
      BY <2>2, <3>1, <3>3
    <3>5. Coming' = Tail(d) \o todo
      BY <1>1, <2>4, <3>4 DEF Coming, loopVars
    <3> HIDE DEF d
    <3>6. d \o todo # <<>> /\ (d \o todo)[1] = x /\ Tail(d \o todo) = Tail(d) \o todo
      BY <2>0, <2>1, <3>1
    <3> QED
      BY <3>1, <3>2, <3>4, <3>5, <3>6
  <2> QED
    BY <2>3, <2>4
<1>6. /\ Len(Coming') = Len(a) - 1 /\ Len(OnTheWay') = Len(w) - 1
      /\ Len(a) \in Nat \ {0} /\ Len(w) \in Nat \ {0}
      /\ InARow(stream, Coming', n + 1) /\ Within(stream, OnTheWay', n + 1)
      /\ AllWhole(stream, a, n) => AllWhole(stream, Coming', n + 1)
      /\ \A kind : Only(kind, a) => Only(kind, Coming')
      /\ x.kind # "error" /\ NoError(Coming') => NoError(a)
  <2> HIDE DEF a, w, n, x
  <2>1. InARow(stream, a, n) /\ Within(stream, w, n)
    BY <1>2 DEF LineInv, a, w, n
  <2>2. /\ Len(Tail(a)) = Len(a) - 1
        /\ InARow(stream, a, n) => InARow(stream, Tail(a), n + 1)
        /\ AllWhole(stream, a, n) => AllWhole(stream, Tail(a), n + 1)
        /\ \A kind : Only(kind, a) => Only(kind, Tail(a))
        /\ a[1].kind # "error" /\ NoError(Tail(a)) => NoError(a)
    BY <1>3, <1>5, RowTail
  <2>3. /\ Len(Tail(w)) = Len(w) - 1
        /\ Within(stream, w, n) => Within(stream, Tail(w), n + 1)
    BY <1>3, <1>5, RowTail
  <2>4. Len(a) \in Nat \ {0} /\ Len(w) \in Nat \ {0}
    BY <1>3, <1>5
  <2>5. Tail(a) = Coming' /\ Tail(w) = OnTheWay' /\ a[1] = x
    BY <1>5
  <2> QED
    BY <2>1, <2>2, <2>3, <2>4, <2>5, Zenon
<1>7. /\ stream' = stream /\ left' = left /\ converter' = converter /\ loop' = loop /\ last' = last
      /\ todo' = todo /\ relay' = relay /\ Fresh' = Fresh /\ Going' = Going
  BY <1>1 DEF relayVars, replyVars, loopVars, Fresh, Came, Going
<1>8. 1 \in 1..Len(a) /\ 1 \in 1..Len(w)
  BY <1>6
<1>9. /\ x.kind = "payload" => x.payload = Events[stream][n + 1]
      /\ x.kind = "payload" => n + 1 <= Len(Meant[stream])
      /\ x.kind = "tail" => n + 1 <= Len(Meant[stream]) + 1 /\ Only("error", Coming')
  <2> HIDE DEF a, w, n, x
  <2>1. /\ a[1].kind = "tail" => \A j \in 2..Len(a) : a[j].kind = "error"
        /\ a[1].kind = "payload" => a[1].payload = Events[stream][n + 1]
    BY <1>2, <1>8 DEF LineInv, InARow, a, n
  <2>2. /\ w[1].kind = "payload" => n + 1 <= Len(Meant[stream])
        /\ w[1].kind = "tail" => n + 1 <= Len(Meant[stream]) + 1
    BY <1>2, <1>8 DEF LineInv, Within, w, n
  <2>3. \A j \in 1..Len(Coming') : j + 1 \in 2..Len(a) /\ Coming'[j] = a[j + 1]
    <3>1. Coming' = Tail(a)
      BY <1>5
    <3> QED
      BY <1>3, <1>5, <1>6, <3>1
  <2>4. x.kind = "tail" => Only("error", Coming')
    BY <1>5, <2>1, <2>3 DEF Only
  <2>5. a[1] = x /\ w[1] = x
    BY <1>5
  <2> QED
    BY <2>1, <2>2, <2>4, <2>5, Zenon
<1>10. CASE x.kind = "error"
  <2>1. handler' = "failed" /\ got' = got
    BY <1>1, <1>10 DEF Write
  <2> QED
    BY <1>2, <1>7, <2>1 DEF Delivered, ReturnedInv, GotInv
<1>11. CASE x.kind # "error"
  <2>1. handler' = "reading" /\ got' = Append(got, x.payload)
    BY <1>1, <1>11 DEF Write
  <2>2. Len(got') = n + 1 /\ got'[n + 1] = x.payload /\ \A i \in 1..n : got'[i] = got[i]
    <3> HIDE DEF x
    <3> QED
      BY <1>3, <1>4, <2>1
  <2>3. Right(stream, got, n)
    <3>1. ~Only("error", Coming)
      BY <1>5, <1>8, <1>11 DEF Only
    <3> QED
      BY <1>2, <3>1 DEF GotInv
  <2> HIDE DEF n, x, a, w
  <2>4. Meant[stream] \in Seq(Payload) /\ Len(Meant[stream]) \in Nat
        /\ \A i \in 1..Len(Meant[stream]) : Meant[stream][i] = Events[stream][i]
    <3>1. Meant[stream] \in Seq(Payload)
      BY <1>3, MeantFacts
    <3>2. \A i \in 1..Len(Meant[stream]) : Meant[stream][i] = Events[stream][i]
      BY <1>3, MeantFacts
    <3> QED
      BY <3>1, <3>2
  <2>5. Right(stream, got', n)
    BY <2>2, <2>3 DEF Right
  <2>6. ASSUME n + 1 <= Len(Meant[stream]), x.payload = Events[stream][n + 1]
        PROVE  Right(stream, got', n + 1)
    <3>1. n + 1 \in 1..Len(Meant[stream])
      BY <1>3, <2>4, <2>6
    <3>2. Meant[stream][n + 1] = Events[stream][n + 1]
      BY <2>4, <3>1
    <3>3. ASSUME NEW i \in 1..n + 1
          PROVE  got'[i] = Meant[stream][i]
      <4>1. CASE i = n + 1
        BY <2>2, <2>6, <3>2, <4>1
      <4>2. CASE i # n + 1
        <5>1. i \in 1..n
          BY <1>3, <4>2
        <5> QED
          BY <2>2, <2>3, <5>1 DEF Right
      <4> QED
        BY <4>1, <4>2
    <3> QED
      BY <2>6, <3>3 DEF Right
  <2>7. LineInv'
    BY <1>6, <1>7, <2>2 DEF LineInv
  <2>8. Going /\ converter = "reading" => Right(stream, got', n + 1) /\ Only("payload", Coming')
    <3> SUFFICES ASSUME Going, converter = "reading"
                 PROVE  Right(stream, got', n + 1) /\ Only("payload", Coming')
      OBVIOUS
    <3>1. Only("payload", a)
      BY <1>2 DEF GoingInv, a
    <3>2. x.kind = "payload"
      BY <1>5, <1>8, <3>1 DEF Only
    <3> QED
      BY <1>6, <1>9, <2>6, <3>1, <3>2
  <2>9. n + 1 + Len(Coming') = n + Len(a) /\ n + 1 + Len(OnTheWay') = n + Len(w)
    BY <1>3, <1>6
  <2>10. GoingInv'
    <3>1. (converter = "reading" => (Going => Right(stream, got, Len(got)) /\ Only("payload", Coming)))'
      BY <1>7, <2>2, <2>8
    <3>2. (converter = "reading" =>
             (Going /\ relay # "closed" => Len(got) + Len(Coming) = Count(stream, Fresh)))'
      BY <1>2, <1>7, <2>2, <2>9 DEF GoingInv, a, n
    <3>3. (converter = "reading" =>
             (loop \in {"first", "waiting"} \/ (loop = "sending" /\ todo[1].kind # "error") =>
                Unended(stream, Len(got) + Len(OnTheWay))))'
      BY <1>2, <1>7, <2>2, <2>9 DEF GoingInv, w, n
    <3> QED
      BY <3>1, <3>2, <3>3 DEF GoingInv
  <2>11. ASSUME ~left, NoError(Coming')
         PROVE  /\ loop = "sending" /\ last =>
                     /\ n + 1 + Len(Coming') = Len(Events[stream])
                     /\ AllWhole(stream, Coming', n + 1)
                /\ loop = "done" =>
                     /\ n + 1 + Len(Coming') = Len(Meant[stream])
                     /\ AllWhole(stream, Coming', n + 1)
                     /\ AllWhole(stream, a, n)
    <3>1. NoError(Coming)
      BY <1>6, <1>11, <2>11 DEF a
    <3> QED
      BY <1>2, <1>6, <2>9, <2>11, <3>1 DEF WholeInv, a, n
  <2>12. WholeInv'
    <3>1. ~left => (converter = "closed" => loop = "done") /\ (Going => relay # "closed")
      BY <1>2 DEF WholeInv
    <3> QED
      BY <1>7, <2>2, <2>11, <3>1 DEF WholeInv
  <2>13. GotInv'
    <3>1. CASE x.kind = "payload"
      BY <1>7, <1>9, <2>2, <2>6, <3>1 DEF GotInv
    <3>2. CASE x.kind = "tail"
      <4>1. Only("error", Coming') /\ n + 1 > 0 /\ (n + 1) - 1 = n
        <5>1. n + 1 > 0 /\ (n + 1) - 1 = n
          BY <1>3
        <5> QED
          BY <1>9, <3>2, <5>1
      <4>2. CASE left \/ Coming' # <<>>
        BY <1>7, <2>2, <2>5, <4>1, <4>2 DEF GotInv
      <4>3. CASE ~left /\ Coming' = <<>>
        <5>1. Len(<<>>) = 0 /\ \A i \in 1..Len(<<>>) : FALSE
          OBVIOUS
        <5>2. NoError(Coming') /\ Len(Coming') = 0
          BY <4>3, <5>1 DEF NoError
        <5>3. loop = "done"
          <6>1. CASE converter = "closed"
            BY <1>2, <4>3, <6>1 DEF WholeInv
          <6>2. CASE converter # "closed"
            <7>1. converter = "reading" /\ loop \in {"first", "waiting", "sending", "done"}
                  /\ (loop = "sending" <=> todo # <<>>)
              BY <6>2 DEF TypeInv, OthersTypeOK, LoopTypeOK
            <7>2. ~Going
              BY <1>5, <1>2, <1>8, <3>2, <7>1 DEF GoingInv, Only, a
            <7>3. loop # "sending"
              <8>1. Len(a) = Len(w) + Len(todo) /\ todo \in Seq(Item)
                BY <7>1, Ways DEF a, w
              <8>2. todo = <<>>
                <9>1. Len(todo) \in Nat
                  BY <8>1
                <9>2. Len(todo) = 0
                  BY <1>6, <5>2, <8>1, <9>1
                <9> QED
                  BY <8>1, <9>2
              <8> QED
                BY <7>1, <8>2
            <7> QED
              BY <7>1, <7>2, <7>3 DEF Going
          <6> QED
            BY <6>1, <6>2
        <5>4. n + 1 + Len(Coming') = Len(Meant[stream]) /\ AllWhole(stream, a, n)
          BY <2>11, <4>3, <5>2, <5>3
        <5>5. n + 1 <= Len(Meant[stream]) /\ x.payload = Events[stream][n + 1]
          <6>1. n + 1 + 0 = n + 1
            BY <1>3
          <6> QED
            BY <1>5, <1>8, <5>2, <5>4, <6>1 DEF AllWhole
        <5> QED
          BY <2>2, <1>7, <2>6, <5>5 DEF GotInv
      <4> QED
        BY <4>2, <4>3
    <3> QED
      BY <1>4, <1>11, <3>1, <3>2
  <2> QED
    BY <2>1, <2>7, <2>10, <2>12, <2>13 DEF Delivered, ReadingInv
<1> QED
  BY <1>10, <1>11

\* The handler returns: all has come, or the client has left.
LEMMA Returned ==
  ASSUME TypeInv, Delivered, HandlerReturns
  PROVE  Delivered'
<1>1. /\ handler = "reading" /\ handler' \in {"ended", "gone"} /\ UNCHANGED <<stream, got, left>>
      /\ handler' = "ended" /\ ~left => chunks = <<>> /\ converter = "closed"
      /\ handler' = "gone" => left
  BY DEF HandlerReturns, relayVars, replyVars
<1>2. GotInv /\ WholeInv
  BY <1>1 DEF Delivered, ReadingInv
<1>3. ASSUME ~left
      PROVE  handler' = "ended" /\ Right(stream, got, Len(got)) /\ got = Meant[stream]
  <2>1. Coming = <<>> /\ converter = "closed"
    BY <1>1, <1>3 DEF Coming
  <2>2. Len(<<>>) = 0 /\ NoError(<<>>)
    BY DEF NoError
  <2>3. Right(stream, got, Len(got))
    BY <1>2, <1>3, <2>1 DEF GotInv
  <2>4. Len(got) + 0 = Len(Meant[stream])
    BY <1>2, <1>3, <2>1, <2>2 DEF WholeInv
  <2>5. got \in Seq(Payload \cup {<<>>}) /\ stream \in Streams
    BY Ways
  <2>6. Meant[stream] \in Seq(Payload)
    BY <2>5, MeantFacts
  <2>7. Meant[stream] \in Seq(Payload \cup {<<>>})
    BY <2>6
  <2> DEFINE meant == Meant[stream]
  <2>8. Len(got) = Len(meant) /\ \A i \in 1..Len(got) : got[i] = meant[i]
    BY <2>3, <2>4, <2>5 DEF Right
  <2>9. meant \in Seq(Payload \cup {<<>>})
    BY <2>7
  <2> HIDE DEF meant
  <2>10. got = meant
    BY <2>5, <2>8, <2>9, SeqEqual
  <2> QED
    BY <1>1, <1>3, <2>3, <2>10 DEF meant
<1> QED
  BY <1>1, <1>2, <1>3 DEF Delivered, ReturnedInv, GotInv

-----------------------------------------------------------------------------
(* What the loop makes of an event, as items. *)

\* The payloads of a chunk are events in their order.
LEMMA PayloadsInRow ==
  ASSUME NEW s \in Streams, NEW payloads \in Seq(Payload), NEW n \in Nat,
         n + Len(payloads) <= Len(Events[s]),
         \A i \in 1..Len(payloads) : payloads[i] = Events[s][n + i]
  PROVE  LET items == Items("payload", payloads)
         IN  InARow(s, items, n) /\ Only("payload", items) /\ AllWhole(s, items, n)
<1> DEFINE items == Items("payload", payloads)
<1>1. /\ Len(items) = Len(payloads) /\ Len(payloads) \in Nat
      /\ \A i \in 1..Len(payloads) : items[i] = [kind |-> "payload", payload |-> payloads[i]]
  BY ItemsShape
<1>2. Len(Events[s]) \in Nat
  <2>1. Events[s] \in Seq(Payload)
    BY EventsAreRead
  <2> QED
    BY <2>1
<1> HIDE DEF items
<1>3. ASSUME NEW i \in 1..Len(items)
      PROVE  items[i].kind = "payload" /\ items[i].payload = Events[s][n + i] /\ n + i <= Len(Events[s])
  <2> DEFINE l == Len(payloads)
             e == Len(Events[s])
  <2>1. l \in Nat /\ e \in Nat /\ n + l <= e /\ i \in 1..l
    BY <1>1, <1>2
  <2>2. items[i] = [kind |-> "payload", payload |-> payloads[i]] /\ payloads[i] = Events[s][n + i]
    BY <1>1
  <2> HIDE DEF l, e
  <2>3. n + i <= e
    BY <2>1
  <2> QED
    BY <2>2, <2>3 DEF e
<1> QED
  BY <1>3 DEF InARow, Only, AllWhole, items

\* What is flushed is one item at most, which may be a part.
LEMMA TailInRow ==
  ASSUME NEW s, NEW held \in Seq(Token), NEW n
  PROVE  LET items == Items("tail", Flush(held))
         IN  /\ items \in Seq(Item) /\ items \o <<>> = items /\ items \o Error \in Seq(Item)
             /\ InARow(s, items, n) /\ InARow(s, items \o Error, n) /\ ~NoError(items \o Error)
<1> DEFINE payloads == Flush(held)
           items == Items("tail", payloads)
           line == items \o Error
<1>1. payloads \in Seq(Payload) /\ Len(payloads) <= 1 /\ Len(payloads) \in Nat
  <2>1. payloads \in Seq(Payload) /\ Len(payloads) <= 1
    BY FlushShape
  <2> QED
    BY <2>1
<1> HIDE DEF payloads
<1>2. /\ items \in Seq(Item) /\ Len(items) = Len(payloads)
      /\ \A i \in 1..Len(payloads) : items[i] = [kind |-> "tail", payload |-> payloads[i]]
  BY <1>1, ItemsShape
<1> HIDE DEF items
<1>3. Error \in Seq(Item) /\ Len(Error) = 1 /\ Error[1].kind = "error"
  BY ErrorShape
<1> DEFINE e == Error
<1>4. e \in Seq(Item) /\ Len(e) = 1 /\ e[1].kind = "error"
  BY <1>3
<1> HIDE DEF e
<1>5. /\ items \o e \in Seq(Item) /\ Len(items \o e) = Len(items) + Len(e)
      /\ \A i \in 1..Len(items) : (items \o e)[i] = items[i]
      /\ \A i \in 1..Len(e) : (items \o e)[Len(items) + i] = e[i]
  <2>1. items \in Seq(Item) /\ e \in Seq(Item)
    BY <1>2, <1>4
  <2> QED
    BY <2>1, Concatenated
<1>6. /\ line \in Seq(Item) /\ Len(line) = Len(items) + 1 /\ line[Len(items) + 1].kind = "error"
      /\ \A i \in 1..Len(items) : line[i] = items[i]
  <2>1. 1 \in 1..Len(e)
    BY <1>4
  <2>2. (items \o e)[Len(items) + 1] = e[1]
    BY <1>5, <2>1
  <2> QED
    BY <1>4, <1>5, <2>2 DEF e
<1> HIDE DEF line
<1>7. ASSUME NEW i \in 1..Len(items)
      PROVE  i = 1 /\ Len(items) = 1 /\ items[i].kind = "tail"
  <2> DEFINE l == Len(payloads)
  <2>1. l \in Nat /\ l <= 1 /\ Len(items) = l /\ i \in 1..l
    BY <1>1, <1>2
  <2>2. items[i] = [kind |-> "tail", payload |-> payloads[i]]
    BY <1>2
  <2> HIDE DEF l
  <2>3. i = 1 /\ l = 1
    BY <2>1
  <2> QED
    BY <2>1, <2>2, <2>3
<1>8. InARow(s, items, n)
  BY <1>7 DEF InARow
<1>9. InARow(s, line, n)
  <2>1. ASSUME NEW i \in 1..Len(line)
        PROVE  \/ i = Len(line) /\ line[i].kind = "error"
               \/ line[i].kind = "tail" /\ \A j \in i + 1..Len(line) : line[j].kind = "error"
    <3>1. CASE i <= Len(items)
      <4>1. i \in 1..Len(items)
        BY <1>1, <1>2, <1>6, <3>1
      <4>2. i = 1 /\ Len(items) = 1 /\ items[i].kind = "tail"
        BY <1>7, <4>1
      <4>3. line[i].kind = "tail" /\ Len(line) = 2 /\ line[2].kind = "error"
        BY <1>6, <4>1, <4>2
      <4>4. \A j \in i + 1..Len(line) : j = 2
        BY <4>2, <4>3
      <4> QED
        BY <4>3, <4>4
    <3>2. CASE i > Len(items)
      <4>1. i = Len(items) + 1
        BY <1>1, <1>2, <1>6, <3>2
      <4> QED
        BY <1>6, <4>1
    <3> QED
      BY <1>1, <1>2, <3>1, <3>2
  <2> QED
    BY <2>1 DEF InARow
<1>10. ~NoError(line)
  <2>1. Len(items) + 1 \in 1..Len(line)
    BY <1>1, <1>2, <1>6
  <2> QED
    BY <1>6, <2>1 DEF NoError
<1>11. items \o <<>> = items
  BY <1>2
<1> QED
  BY <1>2, <1>6, <1>8, <1>9, <1>10, <1>11 DEF line, items, payloads

\* What is flushed when the whole text has been fed is the event that was left.
LEMMA LastInRow ==
  ASSUME NEW s \in Streams, NEW held, held = Read(s, Len(TextOf[s])).buf
  PROVE  LET items == Items("tail", Flush(held))
             n == Count(s, Len(TextOf[s]))
         IN  /\ held \in Seq(Token) /\ n \in Nat
             /\ n + Len(items) = Len(Events[s]) /\ AllWhole(s, items, n)
<1> DEFINE rest == Flush(held)
           items == Items("tail", rest)
           read == Read(s, Len(TextOf[s]))
           n == Count(s, Len(TextOf[s]))
<1>1. read \in Fed
  BY EventsAreRead
<1>2. held \in Seq(Token) /\ Len(read.payloads) \in Nat
  <2>1. read.payloads \in Seq(Payload)
    BY <1>1 DEF Fed
  <2> QED
    BY <1>1, <2>1 DEF Fed
<1>3. n \in Nat
  BY <1>2 DEF Count
<1>4. /\ n + Len(rest) = Len(Events[s])
      /\ \A i \in 1..Len(rest) : rest[i] = Events[s][n + i]
  BY RestGives
<1>5. rest \in Seq(Payload)
  BY <1>2, FlushShape
<1> HIDE DEF rest, n
<1>6. /\ Len(items) = Len(rest)
      /\ \A i \in 1..Len(rest) : items[i] = [kind |-> "tail", payload |-> rest[i]]
  BY <1>5, ItemsShape
<1> HIDE DEF items
<1>7. \A i \in 1..Len(items) : items[i].payload = Events[s][n + i]
  <2> SUFFICES ASSUME NEW i \in 1..Len(items)
               PROVE  items[i].payload = Events[s][n + i]
    OBVIOUS
  <2>1. i \in 1..Len(rest)
    BY <1>6
  <2>2. items[i] = [kind |-> "tail", payload |-> rest[i]]
    BY <1>6, <2>1
  <2>3. rest[i] = Events[s][n + i]
    BY <1>4, <2>1
  <2> QED
    BY <2>2, <2>3
<1> QED
  BY <1>2, <1>3, <1>4, <1>6, <1>7 DEF AllWhole, items, n, rest

\* The loop takes an event.
LEMMA Taken ==
  ASSUME TypeInv, DecoderInv, DecoderInv', Unharmed, Delivered, handler = "reading",
         converter = "reading", Take
  PROVE  Delivered'
<1> DEFINE q == Len(got) + Len(OnTheWay)
           fed == Adapt(buf, offer.text)
           payloads == Items("payload", fed.payloads)
<1>1. /\ loop \in {"first", "waiting"} /\ relay = "offering" /\ Process(offer)
      /\ relay' = IF Final(offer) THEN "closed" ELSE "reading"
      /\ offer' = Nothing
      /\ UNCHANGED <<stream, proper, holed, out, carried, clientVars>> /\ Came' = Came
  BY DEF Take, replyVars, Came
<1>2. Going /\ relay # "closed" /\ OfferInv /\ ItemsInv /\ LoopTypeOK /\ stream \in Streams
  BY <1>1 DEF Going, TypeInv, OthersTypeOK
<1>3. Len(Text) \in Nat /\ Came \in 0..Len(Text) /\ Came \in Nat
  BY CameIs DEF TypeInv
<1>4. Fresh' = Came
  <2>1. Len(<<>>) = 0 /\ Came - 0 = Came
    BY <1>3
  <2>2. offer'.text = <<>> /\ Came' = Came
    BY <1>1 DEF Nothing, Event
  <2> QED
    BY <2>1, <2>2 DEF Fresh
<1>5. q = Count(stream, Fresh) /\ q \in Nat /\ Coming = OnTheWay
  <2>1. Len(got) + Len(Coming) = Count(stream, Fresh)
    BY <1>2 DEF Delivered, ReadingInv, GoingInv
  <2>2. todo = <<>>
    BY <1>1, <1>2 DEF LoopTypeOK
  <2>3. OnTheWay \in Seq(Item) /\ Len(got) \in Nat /\ Len(OnTheWay) \in Nat /\ Coming = OnTheWay \o todo
    BY Ways
  <2> DEFINE a == OnTheWay
  <2>4. a \in Seq(Item)
    BY <2>3
  <2> HIDE DEF a
  <2>5. a \o <<>> = a
    BY <2>4
  <2> QED
    BY <2>1, <2>2, <2>3, <2>5 DEF a
<1>6. buf = Read(stream, Fresh).buf /\ buf \in Seq(Token)
      /\ Cuttable(stream, Fresh) /\ Cuttable(stream, Came)
  BY <1>2 DEF DecoderInv, ItemsInv, Unharmed
<1>7. offer.text # <<>> =>
        /\ fed.payloads \in Seq(Payload)
        /\ fed.buf = Read(stream, Came).buf
        /\ Count(stream, Came) = q + Len(fed.payloads)
        /\ \A i \in 1..Len(fed.payloads) : fed.payloads[i] = Events[stream][q + i]
  BY <1>2, <1>5, ChunkTaken
<1>8. Count(stream, Came) \in 0..Len(Events[stream]) /\ Len(Events[stream]) \in Nat
  <2>1. Events[stream] \in Seq(Payload)
    BY <1>2, EventsAreRead
  <2>2. Count(stream, Came) \in 0..Len(Events[stream])
    BY <1>2, <1>3, <1>6, ReadIsBeginning DEF Text
  <2> QED
    BY <2>1, <2>2
<1> HIDE DEF q, fed
<1>9. offer.text # <<>> =>
        /\ payloads \in Seq(Item) /\ Len(payloads) = Len(fed.payloads)
        /\ InARow(stream, payloads, q) /\ Only("payload", payloads) /\ AllWhole(stream, payloads, q)
        /\ Count(stream, Came) = q + Len(payloads)
  <2> SUFFICES ASSUME offer.text # <<>>
               PROVE  /\ payloads \in Seq(Item) /\ Len(payloads) = Len(fed.payloads)
                      /\ InARow(stream, payloads, q) /\ Only("payload", payloads)
                      /\ AllWhole(stream, payloads, q)
                      /\ Count(stream, Came) = q + Len(payloads)
    OBVIOUS
  <2>1. payloads \in Seq(Item) /\ Len(payloads) = Len(fed.payloads)
    BY <1>7, ItemsShape
  <2>2. q + Len(fed.payloads) <= Len(Events[stream])
    BY <1>7, <1>8
  <2>3. InARow(stream, payloads, q) /\ Only("payload", payloads) /\ AllWhole(stream, payloads, q)
    <3> DEFINE p == fed.payloads
    <3>1. /\ p \in Seq(Payload) /\ q + Len(p) <= Len(Events[stream])
          /\ \A i \in 1..Len(p) : p[i] = Events[stream][q + i]
      BY <1>7, <2>2
    <3> HIDE DEF p
    <3>2. LET items == Items("payload", p)
          IN  InARow(stream, items, q) /\ Only("payload", items) /\ AllWhole(stream, items, q)
      BY <1>2, <1>5, <3>1, PayloadsInRow
    <3> QED
      BY <3>2 DEF p
  <2> QED
    BY <1>7, <2>1, <2>3
<1> HIDE DEF payloads
\* What the items must be.
<1>10. ASSUME NEW items \in Seq(Item), NEW isLast \in BOOLEAN, GoOn(items, isLast),
              InARow(stream, items, q),
              ~isLast => /\ Only("payload", items) /\ relay' # "closed"
                         /\ q + Len(items) = Count(stream, Came),
              isLast /\ NoError(items) =>
                q + Len(items) = Len(Events[stream]) /\ AllWhole(stream, items, q)
       PROVE  Delivered'
  <2>1. /\ todo' = items /\ last' = isLast
        /\ loop' = IF items # <<>> THEN "sending" ELSE IF isLast THEN "done" ELSE "waiting"
    BY <1>10 DEF GoOn
  <2> QED
    BY <1>1, <1>4, <1>10, <2>1, Fetched DEF q
<1>11. CASE offer.type = "stream_start"
  <2>1. GoOn(<<>>, FALSE) /\ offer.text = <<>> /\ relay' # "closed"
    BY <1>1, <1>2, <1>11 DEF Process, OfferInv, Unharmed, Final
  <2>2. Fresh = Came
    <3>1. Len(<<>>) = 0 /\ Came - 0 = Came
      BY <1>3
    <3> QED
      BY <2>1, <3>1 DEF Fresh
  <2>3. <<>> \in Seq(Item) /\ Len(<<>>) = 0 /\ q + 0 = q
    BY <1>5
  <2>4. InARow(stream, <<>>, q) /\ Only("payload", <<>>)
    BY DEF InARow, Only
  <2> QED
    BY <1>5, <1>10, <2>1, <2>2, <2>3, <2>4
<1>12. CASE offer.type = "stream_chunk"
  <2>1. GoOn(payloads, FALSE) /\ offer.text # <<>> /\ relay' # "closed"
    BY <1>1, <1>2, <1>12 DEF Process, OfferInv, Unharmed, Final, payloads, fed
  <2> QED
    BY <1>9, <1>10, <2>1
<1>13. CASE offer.type = "http_response"
  <2> DEFINE rest == Items("tail", Flush(fed.buf))
  <2>1. GoOn(payloads \o rest, TRUE) /\ offer.text # <<>> /\ Came = Len(Text)
    BY <1>1, <1>2, <1>13 DEF Process, OfferInv, Unharmed, payloads, fed
  <2>2. fed.buf = Read(stream, Len(TextOf[stream])).buf
        /\ Count(stream, Came) = Count(stream, Len(TextOf[stream]))
    BY <1>7, <2>1 DEF Text
  <2>3. /\ fed.buf \in Seq(Token)
        /\ Count(stream, Came) + Len(rest) = Len(Events[stream])
        /\ AllWhole(stream, rest, Count(stream, Came))
    BY <1>2, <2>2, LastInRow
  <2>4. rest \in Seq(Item) /\ InARow(stream, rest, Count(stream, Came))
    BY <2>3, TailInRow
  <2> HIDE DEF rest
  <2>5. /\ payloads \in Seq(Item) /\ InARow(stream, payloads, q) /\ Only("payload", payloads)
        /\ AllWhole(stream, payloads, q) /\ Count(stream, Came) = q + Len(payloads)
    BY <1>9, <2>1
  <2>6. InARow(stream, payloads \o rest, q) /\ AllWhole(stream, payloads \o rest, q)
    BY <1>5, <2>3, <2>4, <2>5, RowJoined, WholeJoined
  <2>7. payloads \o rest \in Seq(Item) /\ q + Len(payloads \o rest) = Len(Events[stream])
    <3>1. /\ payloads \o rest \in Seq(Item) /\ Len(payloads \o rest) = Len(payloads) + Len(rest)
          /\ Len(payloads) \in Nat /\ Len(rest) \in Nat
      BY <2>4, <2>5, Concatenated
    <3> QED
      BY <1>5, <2>3, <2>5, <3>1
  <2> QED
    BY <1>10, <2>1, <2>6, <2>7
<1>14. CASE offer.type = "stream_end"
  <2> DEFINE rest == Items("tail", Flush(buf))
  <2>1. GoOn(rest \o <<>>, TRUE) /\ offer.text = <<>> /\ Came = Len(Text)
    BY <1>1, <1>2, <1>14 DEF Process, FlushAnd, OfferInv, Unharmed
  <2>2. Fresh = Len(TextOf[stream])
    <3>1. Len(<<>>) = 0 /\ Came - 0 = Came
      BY <1>3
    <3> QED
      BY <2>1, <3>1 DEF Fresh, Text
  <2>3. q = Count(stream, Len(TextOf[stream])) /\ buf = Read(stream, Len(TextOf[stream])).buf
    BY <1>5, <1>6, <2>2
  <2>4. q + Len(rest) = Len(Events[stream]) /\ AllWhole(stream, rest, q)
    BY <1>2, <2>3, LastInRow
  <2>5. rest \in Seq(Item) /\ rest \o <<>> = rest /\ InARow(stream, rest, q)
    BY <1>6, TailInRow
  <2> HIDE DEF rest
  <2>6. GoOn(rest, TRUE)
    BY <2>1, <2>5
  <2> QED
    BY <1>10, <2>4, <2>5, <2>6
<1>15. CASE offer.type = "error"
  <2> DEFINE rest == Items("tail", Flush(buf))
             items == rest \o Error
  <2>1. GoOn(items, TRUE)
    BY <1>1, <1>15 DEF Process, FlushAnd
  <2>2. items \in Seq(Item) /\ InARow(stream, items, q) /\ ~NoError(items)
    BY <1>6, TailInRow
  <2> HIDE DEF items
  <2> QED
    BY <1>10, <2>1, <2>2
<1> QED
  BY <1>1, <1>2, <1>11, <1>12, <1>13, <1>14, <1>15 DEF OfferInv, MessageTypes

-----------------------------------------------------------------------------
(* The invariant, and what follows from it. *)

\* Cuts that the decoder does not cope with are not judged, nor is what comes after a hole.
DeliveryInv == Unharmed => Delivered

StreamInv == LoopInv /\ TypeInv /\ DecoderInv /\ DeliveryInv

LEMMA DeliveryInit ==
  ASSUME Init
  PROVE  Delivered
<1>1. stream \in Streams /\ Len(Text) \in Nat /\ OthersTypeOK
  BY TextIsARow DEF Init, Text, OthersTypeOK
<1>2. Fresh = 0
  <2>1. Len(<<>>) = 0 /\ 0 - 0 = 0 /\ Came = sent
    BY RelayInit
  <2>2. CASE sent = 0 /\ offer = Event("stream_start", 0, <<>>)
    <3>1. offer.text = <<>>
      BY <2>2 DEF Event
    <3> QED
      BY <2>1, <2>2, <3>1, Zenon DEF Fresh
  <2>3. ASSUME NEW n \in Sizes(0), NEW type, sent = n, offer = Event(type, 0, Chunk(0, n))
        PROVE  Fresh = 0
    <3>1. n \in Nat \ {0} /\ 0 + n <= Len(Text) /\ n - n = 0
      BY <1>1 DEF Sizes
    <3>2. Len(Chunk(0, n)) = n
      BY <1>1, <3>1, ChunkShape
    <3>3. offer.text = Chunk(0, n)
      BY <2>3 DEF Event
    <3> QED
      BY <2>1, <2>3, <3>1, <3>2, <3>3, Zenon DEF Fresh
  <2> QED
    BY <2>2, <2>3 DEF Init
<1>3. Count(stream, Fresh) = 0
  BY <1>1, <1>2, ReadNothing
<1>4. /\ got = <<>> /\ chunks = <<>> /\ carried = <<>> /\ out = <<>> /\ todo = <<>>
      /\ handler = "reading" /\ converter = "reading" /\ loop = "first" /\ relay = "offering"
  BY DEF Init
<1>5. OnTheWay = <<>> /\ Coming = <<>>
  <2>1. <<>> \o <<>> = <<>>
    OBVIOUS
  <2> QED
    BY <1>4, <2>1, Zenon DEF OnTheWay, Coming
<1>6. Len(<<>>) = 0 /\ 0 + 0 = 0
  OBVIOUS
<1>7. Events[stream] \in Seq(Payload) /\ Meant[stream] \in Seq(Payload)
  BY <1>1, MeantFacts
<1>8. Right(stream, <<>>, 0) /\ Unended(stream, 0)
  BY <1>7 DEF Right, Unended
<1>9. Only("payload", <<>>) /\ InARow(stream, <<>>, 0) /\ Within(stream, <<>>, 0)
  BY DEF Only, InARow, Within
<1>10. GotInv /\ LineInv
  BY <1>4, <1>5, <1>6, <1>8, <1>9 DEF GotInv, LineInv
<1>11. GoingInv
  BY <1>3, <1>4, <1>5, <1>6, <1>8, <1>9 DEF GoingInv
<1>12. WholeInv
  BY <1>4 DEF WholeInv
<1> QED
  BY <1>4, <1>10, <1>11, <1>12 DEF Delivered, ReadingInv

LEMMA DeliveryStep ==
  TypeInv /\ TypeInv' /\ DecoderInv /\ DecoderInv' /\ DeliveryInv /\ [Next]_vars => DeliveryInv'
<1> SUFFICES ASSUME TypeInv, TypeInv', DecoderInv, DecoderInv', DeliveryInv, [Next]_vars, Unharmed'
             PROVE  Delivered'
  BY DEF DeliveryInv
<1>1. Unharmed
  <2>1. CASE Provider \/ GiveUpSlot
    BY <2>1, CameStays DEF Unharmed
  <2>2. CASE UNCHANGED replyVars \/ RelayStops \/ Fetch
    <3>1. UNCHANGED <<proper, holed>>
      BY <2>2 DEF replyVars, RelayStops, Fetch
    <3> QED
      BY <3>1 DEF Unharmed
  <2> QED
    BY <2>1, <2>2, ReplyUntouched
<1>2. Delivered
  BY <1>1 DEF DeliveryInv
<1>3. CASE handler # "reading"
  <2>1. UNCHANGED <<stream, got, handler, left>>
    <3>1. CASE Provider \/ GiveUpSlot \/ Fetch \/ RelayStops
      BY <3>1, CameStays DEF Fetch, RelayStops, clientVars
    <3>2. CASE TimerFires \/ Relay
      BY <3>2 DEF TimerFires, Relay, Take, EventsClosed, IdleTimeout, Send, SendFails, relayVars,
                  replyVars, clientVars
    <3>3. CASE Converter \/ Handler \/ Leave \/ UNCHANGED vars
      BY <1>3, <3>3 DEF Converter, Convert, HandOn, ConverterStops, Handler, Write,
                        HandlerReturns, Leave, vars, relayVars, replyVars, clientVars
    <3> QED
      BY <3>1, <3>2, <3>3 DEF Next
  <2> QED
    BY <1>2, <1>3, <2>1, NobodyReads
<1>4. CASE handler = "reading"
  <2>1. GotInv /\ GoingInv /\ WholeInv /\ OfferInv /\ ItemsInv
    BY <1>2, <1>4 DEF Delivered, ReadingInv, TypeInv
  <2>2. ASSUME UNCHANGED <<stream, got, handler, converter, loop, last, todo, chunks, carried, out>>,
               left => left',
               relay' # "closed" => relay # "closed" /\ Fresh' = Fresh,
               relay' = "closed" => relay = "closed" \/ left \/ loop = "done"
        PROVE  Delivered'
    <3>1. OnTheWay' = OnTheWay /\ Coming' = Coming
      BY <2>2 DEF OnTheWay, Coming
    <3> QED
      BY <1>2, <1>4, <2>2, <3>1, Quiet
  <2>3. CASE Provider \/ GiveUpSlot \/ Fetch
    <3>1. UNCHANGED <<stream, got, handler, converter, loop, last, todo, chunks, carried, out, left>>
      BY <2>3, CameStays DEF Fetch, loopVars, clientVars
    <3>2. Fresh' = Fresh
      <4>1. CASE Provider \/ GiveUpSlot
        BY <1>1, <4>1, CameStays DEF Fresh, Unharmed
      <4>2. CASE Fetch
        BY <1>1, <4>2, FetchGives DEF Unharmed
      <4> QED
        BY <2>3, <4>1, <4>2
    <3>3. relay' = relay \/ (relay = "reading" /\ relay' = "offering")
      BY <2>3, CameStays DEF Fetch
    <3> QED
      BY <2>2, <3>1, <3>2, <3>3
  <2>4. CASE RelayStops
    BY <1>4, <2>2, <2>4 DEF RelayStops, AttemptDone, Canceled, loopVars, clientVars
  <2>5. CASE TimerFires \/ Leave \/ UNCHANGED vars
    <3>1. /\ UNCHANGED <<stream, got, handler, converter, loop, last, todo, chunks, carried,
                        out, relay, offer>>
          /\ Came' = Came
          /\ left' = left \/ left' = TRUE
      <4>1. CASE TimerFires
        BY <4>1 DEF TimerFires, relayVars, replyVars, clientVars, Came
      <4>2. CASE Leave
        BY <4>2 DEF Leave, relayVars, replyVars, loopVars, Came
      <4>3. CASE UNCHANGED vars
        BY <4>3 DEF vars, relayVars, replyVars, loopVars, clientVars, Came
      <4> QED
        BY <2>5, <4>1, <4>2, <4>3, Zenon
    <3>2. Fresh' = Fresh
      BY <3>1 DEF Fresh
    <3> QED
      BY <2>2, <3>1, <3>2
  <2>6. CASE Convert \/ HandOn
    <3>1. /\ UNCHANGED <<stream, got, handler, converter, loop, last, todo, relay, offer, left>>
          /\ Came' = Came
      BY <2>6 DEF Convert, HandOn, relayVars, replyVars, loopVars, clientVars, Came
    <3>2. chunks \in Seq(Item) /\ carried \in Seq(Item) /\ out \in Seq(Item)
      BY <2>1 DEF ItemsInv
    <3>3. converter = "reading"
      BY <2>1, <2>6 DEF Convert, HandOn, ItemsInv, TypeInv, OthersTypeOK
    <3>4. chunks' \o carried' \o out' = chunks \o carried \o out
      <4>1. CASE Convert
        <5> DEFINE x == Head(out)
                   t == Tail(out)
        <5>1. carried = <<>> /\ carried' = <<x>> /\ out' = t /\ out # <<>> /\ chunks' = chunks
          BY <4>1 DEF Convert, clientVars
        <5>2. <<x>> \in Seq(Item) /\ t \in Seq(Item) /\ <<x>> \o t = out /\ chunks \o <<>> = chunks
          BY <3>2, <5>1
        <5> DEFINE y == <<x>>
        <5> HIDE DEF y, t
        <5>3. (chunks \o y) \o t = chunks \o (y \o t)
          <6>1. y \in Seq(Item) /\ t \in Seq(Item)
            BY <5>2 DEF y
          <6> QED
            BY <3>2, <6>1, Regrouped, Zenon
        <5> QED
          BY <5>1, <5>2, <5>3 DEF y
      <4>2. CASE HandOn
        <5> DEFINE c == chunks \o carried
        <5>1. chunks' = c /\ carried' = <<>> /\ out' = out /\ c \in Seq(Item)
          BY <3>2, <4>2 DEF HandOn
        <5> HIDE DEF c
        <5>2. c \o <<>> = c
          BY <5>1
        <5> QED
          BY <5>1, <5>2 DEF c
      <4> QED
        BY <2>6, <4>1, <4>2
    <3>5. OnTheWay' = OnTheWay
      BY <3>1, <3>3, <3>4 DEF OnTheWay
    <3>6. Coming' = Coming
      BY <3>1, <3>3, <3>5 DEF Coming
    <3>7. Fresh' = Fresh
      BY <3>1 DEF Fresh
    <3> QED
      BY <1>2, <1>4, <3>1, <3>5, <3>6, <3>7, Quiet
  <2>7. CASE Relay
    <3>1. loop # "done" /\ UNCHANGED <<stream, clientVars>>
      BY <2>7 DEF Relay, Take, EventsClosed, IdleTimeout, Send, SendFails, relayVars,
                  replyVars
    <3>2. CASE converter = "closed"
      <4>1. left
        BY <2>1, <3>1, <3>2 DEF WholeInv
      <4> QED
        BY <1>2, <1>4, <3>1, <3>2, <4>1, Unseen
    <3>3. CASE converter # "closed"
      <4>1. converter = "reading"
        BY <3>3 DEF TypeInv, OthersTypeOK
      <4>2. CASE Take
        BY <1>1, <1>2, <1>4, <4>1, <4>2, Taken
      <4> DEFINE rest == Items("tail", Flush(buf))
      <4>3. /\ rest \in Seq(Item) /\ rest \o <<>> = rest /\ rest \o Error \in Seq(Item)
            /\ InARow(stream, rest, Len(got) + Len(OnTheWay))
            /\ InARow(stream, rest \o Error, Len(got) + Len(OnTheWay)) /\ ~NoError(rest \o Error)
        <5>1. buf \in Seq(Token)
          BY <2>1 DEF ItemsInv
        <5> QED
          BY <5>1, TailInRow
      <4> DEFINE items == rest \o Error
      <4> HIDE DEF rest
      <4>4. CASE EventsClosed
        <5>1. /\ loop = "waiting" /\ UNCHANGED <<stream, out, carried, clientVars>>
              /\ GoOn(rest \o <<>>, TRUE) /\ (relay = "closed" \/ left)
          BY <1>4, <4>4 DEF EventsClosed, FlushAnd, relayVars, replyVars, AttemptDone, Canceled,
                          rest
        <5>2. left
          BY <2>1, <5>1 DEF WholeInv, Going
        <5>3. /\ todo' = rest /\ last' = TRUE
              /\ loop' = IF rest # <<>> THEN "sending" ELSE IF TRUE THEN "done" ELSE "waiting"
          BY <4>3, <5>1 DEF GoOn
        <5> QED
          BY <1>2, <1>4, <4>1, <4>3, <5>1, <5>2, <5>3, Fetched
      <4>5. CASE IdleTimeout
        <5>1. /\ loop = "waiting" /\ UNCHANGED <<stream, out, carried, clientVars>>
              /\ todo' = items /\ last' = TRUE /\ loop' = "sending"
          BY <4>5 DEF IdleTimeout, relayVars, replyVars, rest
        <5>2. items # <<>>
          BY <5>1 DEF TypeInv, LoopTypeOK
        <5>3. /\ items \in Seq(Item) /\ ~NoError(items)
              /\ InARow(stream, items, Len(got) + Len(OnTheWay))
          BY <4>3
        <5> HIDE DEF items
        <5>4. loop' = IF items # <<>> THEN "sending" ELSE IF TRUE THEN "done" ELSE "waiting"
          BY <5>1, <5>2
        <5> QED
          BY <1>2, <1>4, <4>1, <5>1, <5>3, <5>4, Fetched
      <4>6. CASE Send
        BY <1>2, <1>4, <4>1, <4>6, Sent
      <4>7. CASE SendFails
        BY <1>2, <1>4, <4>1, <4>7, NotSent
      <4> QED
        BY <2>7, <4>2, <4>4, <4>5, <4>6, <4>7 DEF Relay
    <3> QED
      BY <3>2, <3>3
  <2>8. CASE ConverterStops
    BY <1>2, <1>4, <2>8, Stopped
  <2>9. CASE Write
    BY <1>2, <2>9, Written
  <2>10. CASE HandlerReturns
    BY <1>2, <2>10, Returned
  <2> QED
    BY <2>3, <2>4, <2>5, <2>6, <2>7, <2>8, <2>9, <2>10 DEF Next, Converter, Handler
<1> QED
  BY <1>3, <1>4

LEMMA StreamInvInit == Init => StreamInv
<1> SUFFICES ASSUME Init
             PROVE  StreamInv
  OBVIOUS
<1>1. LoopInv /\ OthersTypeOK
  BY DEF Init, LoopInv, LoopTypeOK, TimerInv, OthersTypeOK
<1>2. ItemsInv
  BY DEF Init, ItemsInv
<1>3. ReplyInv /\ OfferInv /\ DecoderInv /\ DeliveryInv
  BY RelayInit, DecoderInit, DeliveryInit DEF DeliveryInv
<1> QED
  BY <1>1, <1>2, <1>3 DEF StreamInv, TypeInv, LoopInv

LEMMA StreamInvStep == StreamInv /\ [Next]_vars => StreamInv'
<1> SUFFICES ASSUME StreamInv, [Next]_vars
             PROVE  StreamInv'
  OBVIOUS
<1>1. LoopInv' /\ OthersTypeOK'
  BY LoopInvStep, OthersStep DEF StreamInv, TypeInv
<1>2. ItemsInv' /\ ReplyInv' /\ OfferInv'
  BY <1>1, ItemsStep, ReplyStep, OfferStep DEF StreamInv
<1>3. TypeInv'
  BY <1>1, <1>2 DEF TypeInv, LoopInv
<1>4. DecoderInv'
  BY <1>2, DecoderStep DEF StreamInv
<1>5. DeliveryInv'
  BY <1>3, <1>4, DeliveryStep DEF StreamInv
<1> QED
  BY <1>1, <1>3, <1>4, <1>5 DEF StreamInv

\* A beginning that is right is a prefix.
LEMMA RightIsPrefix ==
  ASSUME NEW s \in Streams, NEW g \in Seq(Payload \cup {<<>>}), NEW n \in 0..Len(g), Right(s, g, n)
  PROVE  IsPrefix(SubSeq(g, 1, n), Meant[s])
<1> DEFINE meant == Meant[s]
           a == SubSeq(g, 1, n)
           b == SubSeq(meant, 1, n)
<1>1. meant \in Seq(Payload) /\ n <= Len(meant) /\ \A i \in 1..n : g[i] = meant[i]
  BY MeantFacts DEF Right
<1>2. meant \in Seq(Payload \cup {<<>>})
  BY <1>1
<1> HIDE DEF meant
<1>3. /\ a \in Seq(Payload \cup {<<>>}) /\ Len(a) = n /\ \A i \in 1..n : a[i] = g[i]
      /\ b \in Seq(Payload \cup {<<>>}) /\ Len(b) = n /\ \A i \in 1..n : b[i] = meant[i]
  <2>1. /\ a \in Seq(Payload \cup {<<>>}) /\ Len(a) = n /\ \A i \in 1..n : a[i] = g[i]
    OBVIOUS
  <2>2. /\ b \in Seq(Payload \cup {<<>>}) /\ Len(b) = n /\ \A i \in 1..n : b[i] = meant[i]
    BY <1>1, <1>2
  <2> QED
    BY <2>1, <2>2
<1> HIDE DEF a, b
<1>4. a = b
  BY <1>1, <1>3, SeqEqual
<1>5. SubSeq(a, 1, Len(a)) = a
  BY <1>3, SubSeqFull
<1> QED
  BY <1>1, <1>3, <1>4, <1>5 DEF IsPrefix, a, b, meant

LEMMA StreamInvSuffices == StreamInv => InOrder /\ CleanEndIsWhole
<1> SUFFICES ASSUME StreamInv
             PROVE  InOrder /\ CleanEndIsWhole
  OBVIOUS
<1>1. /\ stream \in Streams /\ got \in Seq(Payload \cup {<<>>}) /\ Len(got) \in Nat
      /\ Coming \in Seq(Item) /\ (Unharmed => Delivered)
      /\ chunks \in Seq(Item) /\ carried \in Seq(Item) /\ out \in Seq(Item) /\ todo \in Seq(Item)
      /\ converter \in {"reading", "closed"}
  BY Ways DEF StreamInv, DeliveryInv, TypeInv, ItemsInv, OthersTypeOK
<1>2. CleanEndIsWhole
  BY <1>1 DEF CleanEndIsWhole, Unharmed, Delivered, ReturnedInv
<1>3. ASSUME Right(stream, got, Len(got))
      PROVE  IsPrefix(got, Meant[stream])
  <2>1. Len(got) \in 0..Len(got) /\ SubSeq(got, 1, Len(got)) = got
    BY <1>1, SubSeqFull
  <2> QED
    BY <1>1, <1>3, <2>1, RightIsPrefix
<1>4. ASSUME Len(got) > 0, Right(stream, got, Len(got) - 1)
      PROVE  IsPrefix(Front(got), Meant[stream])
  <2>1. Len(got) - 1 \in 0..Len(got)
    BY <1>1, <1>4
  <2> QED
    BY <1>1, <1>4, <2>1, RightIsPrefix DEF Front
<1>5. ASSUME Only("error", Coming), Coming # <<>>
      PROVE  \E i \in DOMAIN InFlight : InFlight[i].kind = "error"
  <2> DEFINE c == chunks \o carried
             d == c \o out
             line == d \o todo
  <2>1. c \in Seq(Item)
    BY <1>1
  <2>2. 1 \in 1..Len(Coming) /\ Coming[1].kind = "error"
    <3>1. 1 \in 1..Len(Coming)
      BY <1>1, <1>5
    <3> QED
      BY <1>5, <3>1 DEF Only
  <2>3. ASSUME NEW u \in Seq(Item), NEW v \in Seq(Item), 1 \in 1..Len(u)
        PROVE  u \o v \in Seq(Item) /\ 1 \in 1..Len(u \o v) /\ (u \o v)[1] = u[1]
    BY <2>3
  <2>4. CASE converter = "closed"
    <3>1. 1 \in 1..Len(chunks) /\ chunks[1].kind = "error"
      BY <2>2, <2>4 DEF Coming
    <3>2. 1 \in 1..Len(c) /\ c[1].kind = "error"
      BY <1>1, <2>3, <3>1
    <3> HIDE DEF c
    <3>3. d \in Seq(Item) /\ 1 \in 1..Len(d) /\ d[1].kind = "error"
      BY <1>1, <2>1, <2>3, <3>2
    <3> HIDE DEF d
    <3>4. line \in Seq(Item) /\ 1 \in 1..Len(line) /\ line[1].kind = "error"
      BY <1>1, <2>3, <3>3
    <3>5. 1 \in DOMAIN line
      <4> HIDE DEF line
      <4> QED
        BY <3>4
    <3> QED
      BY <3>4, <3>5 DEF InFlight, c, d
  <2>5. CASE converter # "closed"
    <3>1. InFlight = Coming
      BY <2>5 DEF InFlight, Coming, OnTheWay
    <3>2. 1 \in DOMAIN Coming
      BY <1>1, <2>2
    <3> QED
      BY <2>2, <3>1, <3>2
  <2> QED
    BY <2>4, <2>5
<1>6. InOrder
  <2> SUFFICES ASSUME Unharmed, ~IsPrefix(got, Meant[stream])
               PROVE  /\ IsPrefix(Front(got), Meant[stream])
                      /\ \/ left \/ handler = "failed"
                         \/ \E i \in DOMAIN InFlight : InFlight[i].kind = "error"
    BY DEF InOrder, Unharmed
  <2>1. Delivered /\ ~Right(stream, got, Len(got))
    BY <1>1, <1>3
  <2>2. CASE handler = "reading"
    BY <1>4, <1>5, <2>1, <2>2 DEF Delivered, ReadingInv, GotInv
  <2>3. CASE handler # "reading"
    BY <1>4, <2>1, <2>3 DEF Delivered, ReturnedInv
  <2> QED
    BY <2>2, <2>3
<1> QED
  BY <1>2, <1>6

\* Unless the full reply channel has dropped a chunk (session.go:33-36), the client gets the events of
\* the provider once and in their order, wherever the text was cut (properly), through the reply
\* channel, the decoder, the loop, the converter and the handler; only the last thing it gets may be
\* part of an event, and then an error follows it.
THEOREM EventsArriveInOrder == Spec => []InOrder
<1> QED
  BY StreamInvInit, StreamInvStep, StreamInvSuffices, PTL DEF Spec

\* Unless a chunk was dropped, a response that ends without an error is the whole answer, though the
\* goroutines that carry it finish one by one, and though the message that ends the reply may be
\* dropped or be overtaken by the end of the request.
THEOREM CleanEndsAreWhole == Spec => []CleanEndIsWhole
<1> QED
  BY StreamInvInit, StreamInvStep, StreamInvSuffices, PTL DEF Spec

=============================================================================
