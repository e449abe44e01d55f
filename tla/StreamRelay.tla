----------------------------- MODULE StreamRelay ----------------------------
(***************************************************************************)
(* A stream after its first event: the session's read loop and the reply   *)
(* channel (internal/wsrelay/session.go), the goroutine of wsrelay.Stream  *)
(* (internal/wsrelay/http.go), the loop of buildStreamResult with the      *)
(* adapter and the idle timer (internal/pipeline/pipeline.go), the         *)
(* goroutine that converts its chunks (gateway/service.go) and the HTTP    *)
(* handler (internal/httpapi/gemini/handler.go).                           *)
(*                                                                         *)
(* The provider has a stream of events to send and cuts its text where it  *)
(* likes.  It may fail, or fall silent, and the client may leave, at any   *)
(* time.  Nobody holds the provider back: the read loop drops what finds   *)
(* the reply channel full, which it does when the client is slow.  The     *)
(* relay's channel of events has no buffer: the relay's goroutine offers   *)
(* an event until the loop takes it.                                       *)
(*                                                                         *)
(* Abstractions.  Text is that of module SSEDecoder.  The goroutines that  *)
(* contest the slot of the request end the reply in one step each (module  *)
(* RelaySession has their steps); what comes for a reply that nobody reads *)
(* any more is left out.  The client asked for server-sent events          *)
(* (alt=sse).  Start, error and loss of the connection carry no data.  A   *)
(* timer may fire any time after it was armed.                             *)
(***************************************************************************)
EXTENDS SSEDecoder

CONSTANTS
  Streams,      \* what a provider may send: records [events, eol, open, cuts]
  ReplyBuffer,  \* capacity of the reply channel (16)
  OutBuffer     \* capacity of the channels of chunks (16)

ASSUME StreamRelayAssumption == ReplyBuffer \in Nat \ {0} /\ OutBuffer \in Nat \ {0}

VARIABLES
  stream,   \* what the provider has to send
  sent,     \* how many tokens of its text it has sent
  pending,  \* the request has its slot in the session, and the reply channel is open
  reply,    \* the reply channel
  relay,    \* the relay's goroutine: reading, offering, closed
  offer,    \* the event it offers, if any
  buf,      \* the decoder's buffer
  loop,     \* the loop: first, waiting, sending, done
  todo,     \* what it has still to send, in order
  last,     \* whether it returns after that
  idle,     \* the idle timer: off, armed, fired
  out,      \* its channel to the converter
  carried,  \* the chunk the converter holds, if any
  converter,\* reading, closed
  chunks,   \* the converter's channel to the handler
  handler,  \* reading, ended, failed, gone
  got,      \* the payloads it has written to the client
  left,     \* the client has left
  cooled,   \* the provider has been cooled for being idle
  proper,   \* history: every cut so far was one the decoder copes with
  holed,    \* history: a chunk was dropped
  stalled   \* history: the timer fired while the loop was waiting

replyVars == <<stream, sent, pending, reply, proper, holed>>
relayVars == <<replyVars, relay, offer>>
loopVars == <<buf, loop, todo, last, idle, cooled, stalled>>
clientVars == <<converter, chunks, handler, got, left>>
vars == <<relayVars, loopVars, out, carried, clientVars>>

-----------------------------------------------------------------------------
(* The provider's stream.  An event is a sequence of lines, each the value *)
(* of a data line or "ev".  Its payload is what a client of the standard   *)
(* reads from it.  The text of a stream that is open lacks the blank line  *)
(* at its end; one without line ends (eol) has a chunk of JSON per event.  *)
(* Any other may be cut after the tokens of cuts.                          *)

Line(eol, line) == (IF line = "ev" THEN <<"ev">> ELSE FieldName \o <<line>>) \o eol

Encode(eol, event) ==
  IF eol = <<>> THEN event
  ELSE FlattenSeq([i \in DOMAIN event |-> Line(eol, event[i])]) \o eol

TextOf == [s \in Streams |->
  LET text == FlattenSeq([i \in DOMAIN s.events |-> Encode(s.eol, s.events[i])])
  IN  IF s.open THEN SubSeq(text, 1, Len(text) - 2 * Len(s.eol)) ELSE text]

PayloadOf(event) ==
  FoldLeft(LAMBDA text, line : IF text = <<>> THEN <<line>> ELSE text \o <<"N", line>>,
           <<>>, SelectSeq(event, LAMBDA line : line # "ev"))

\* The payloads of a stream; [DONE] is none.
Events == [s \in Streams |->
  SelectSeq([i \in DOMAIN s.events |-> PayloadOf(s.events[i])],
            LAMBDA payload : payload # <<"DONE">>)]

\* Those up to one that ends the answer.
Meant == [s \in Streams |->
  LET ends == {i \in DOMAIN Events[s] : IsTerminal(Events[s][i])}
  IN  IF ends = {} THEN Events[s] ELSE SubSeq(Events[s], 1, Min(ends))]

\* The decoder after the first k tokens of a text that came in one piece.
ReadTo(text, k) == Feed(<<>>, SubSeq(text, 1, k))

\* A provider sends what can be understood: chunks of JSON that are values, or a text that
\* has its events in it when it is read in one piece, and no line end before an event begins.
ASSUME StreamsAssumption ==
  \A s \in Streams :
    LET text == TextOf[s]
        whole == ReadTo(text, Len(text))
    IN  /\ text \in Seq(STRING)
        /\ IF s.eol = <<>>
           THEN /\ \A i \in DOMAIN text : text[i] \notin Blank \cup {"ev"}
                /\ Events[s] = [i \in DOMAIN text |-> <<text[i]>>]
           ELSE /\ Events[s] = whole.payloads \o Flush(whole.buf)
                /\ \A i \in DOMAIN text :
                     text[i] \in Blank => ReadTo(text, i - 1).buf # <<>> \/ LineEndGoesOn(text, i)

Text == TextOf[stream]

Whole == sent = Len(Text)

\* A message, and what the relay makes of it; a chunk begins after the first `from` tokens
\* of the text (which the code does not say).
Event(type, from, text) == [type |-> type, from |-> from, text |-> text]

Nothing == Event("none", 0, <<>>)

\* The messages that end a reply: the slot is given up, and the relay's goroutine returns.
Final(event) == event.type \in {"stream_end", "error", "http_response"}

\* The n tokens of the text after the first `from`.
Chunk(from, n) == SubSeq(Text, from + 1, from + n)

\* The cuts the decoder copes with: no chunk is blank while an event is buffered, or
\* starts inside a field name while none is, or ends between CR and LF.
ProperCut(from, n) ==
  LET chunk == Chunk(from, n)
  IN  \/ stream.eol = <<>>
      \/ /\ IF HasInk(ReadTo(Text, from).buf) THEN HasInk(chunk) ELSE HasInk(chunk) => LooksLikeSSE(Trim(chunk))
         /\ ~(from + n < Len(Text) /\ <<Text[from + n], Text[from + n + 1]>> = <<"R", "N">>)

\* How much of the text a chunk may take.
Sizes(from) == {n \in 1..Len(Text) - from :
  IF stream.eol = <<>> THEN n = 1 ELSE from + n \in stream.cuts \cup {Len(Text)}}

-----------------------------------------------------------------------------

\* The loop is entered when the first event has come and is a good one; the relay
\* has handed it over, the loop has not looked at it yet.
Init ==
  /\ stream \in Streams
  /\ buf = <<>>
  /\ \/ sent = 0 /\ proper = TRUE /\ offer = Event("stream_start", 0, <<>>)
     \/ \E n \in Sizes(0), type \in {"stream_chunk", "http_response"} :
          /\ type = "http_response" => n = Len(Text)
          /\ sent = n
          /\ proper = ProperCut(0, n)
          /\ offer = Event(type, 0, Chunk(0, n))
  /\ pending = (offer.type # "http_response")
  /\ reply = <<>>
  /\ holed = FALSE
  /\ relay = "offering"
  /\ loop = "first"
  /\ todo = <<>>
  /\ last = FALSE
  /\ idle = "off"
  /\ out = <<>>
  /\ carried = <<>>
  /\ converter = "reading"
  /\ chunks = <<>>
  /\ handler = "reading"
  /\ got = <<>>
  /\ left = FALSE
  /\ cooled = FALSE
  /\ stalled = FALSE

\* The request's context ends when the client leaves or the handler returns; the
\* context of the attempt is its child, and the loop ends it when it returns.
Canceled == left \/ handler # "reading"

AttemptDone == Canceled \/ loop = "done"

(* The read loop of the session. *)

\* dispatch.  A message that finds the channel full is dropped; one that ends the reply
\* ends it all the same.
Dispatch(event) ==
  /\ pending /\ relay # "closed"
  /\ pending' = ~Final(event)
  /\ reply' = IF Len(reply) < ReplyBuffer THEN Append(reply, event) ELSE reply
  /\ UNCHANGED <<stream, relay, offer, loopVars, out, carried, clientVars>>

\* The provider sends the next n tokens.
SendChunk(n) ==
  /\ n \in Sizes(sent)
  /\ Dispatch(Event("stream_chunk", sent, Chunk(sent, n)))
  /\ sent' = sent + n
  /\ proper' = (proper /\ ProperCut(sent, n))
  /\ holed' = (holed \/ reply' = reply)

\* It ends the stream; or answers with the rest at once; or fails, or is lost.  Of a rest that
\* is dropped nothing remains but that the reply ends.
SendEnd ==
  /\ Whole
  /\ Dispatch(Event("stream_end", sent, <<>>))
  /\ UNCHANGED <<sent, proper, holed>>

SendRest ==
  LET n == Len(Text) - sent
  IN  /\ n \in Sizes(sent)
      /\ Dispatch(Event("http_response", sent, Chunk(sent, n)))
      /\ sent' = IF reply' = reply THEN sent ELSE Len(Text)
      /\ proper' = (proper /\ ProperCut(sent, n))
      /\ UNCHANGED holed

Fail ==
  /\ Dispatch(Event("error", sent, <<>>))
  /\ UNCHANGED <<sent, proper, holed>>

\* The goroutine that waits for the end of the attempt gives up the slot.
GiveUpSlot ==
  /\ pending /\ relay # "closed" /\ AttemptDone
  /\ pending' = FALSE
  /\ UNCHANGED <<stream, sent, reply, relay, offer, proper, holed, loopVars, out, carried,
                 clientVars>>

(* The relay's goroutine. *)

\* It reads the next message, or that the channel is closed.
Fetch ==
  /\ relay = "reading"
  /\ \/ reply # <<>> /\ offer' = Head(reply) /\ reply' = Tail(reply)
     \/ reply = <<>> /\ ~pending /\ offer' = Event("error", 0, <<>>) /\ UNCHANGED reply
  /\ relay' = "offering"
  /\ UNCHANGED <<stream, sent, pending, proper, holed, loopVars, out, carried, clientVars>>

MutantRelayStops ==
  /\ loop # "first" /\ relay = "reading" /\ AttemptDone
  /\ relay' = "closed"
  /\ UNCHANGED <<replyVars, offer, loopVars, out, carried, clientVars>>

\* It sees that the context of the attempt is done, reading or offering.  (What is
\* offered at first has been taken.)
RelayStops ==
  /\ loop # "first" /\ relay # "closed" /\ AttemptDone
  /\ relay' = "closed"
  /\ offer' = Nothing
  /\ reply' = <<>>
  /\ UNCHANGED <<stream, sent, pending, proper, holed, loopVars, out, carried, clientVars>>

(* The loop. *)

Items(kind, payloads) == [i \in DOMAIN payloads |-> [kind |-> kind, payload |-> payloads[i]]]

Error == <<[kind |-> "error", payload |-> <<>>]>>

\* It goes on with some items to send.
GoOn(items, isLast) ==
  /\ todo' = items
  /\ last' = isLast
  /\ loop' = IF items # <<>> THEN "sending" ELSE IF isLast THEN "done" ELSE "waiting"
  /\ UNCHANGED <<cooled, stalled>>

MutantRearmNoDrain ==
  idle' = IF loop' = "waiting" /\ idle = "off" THEN "armed"
          ELSE IF loop' = "done" THEN "off" ELSE idle

MutantRearmLate ==
  idle' = IF loop' = "waiting" /\ loop # "first" THEN "armed"
          ELSE IF loop' = "done" THEN "off" ELSE idle

\* The timer while it does so: started anew before it waits, stopped when it returns.
Rearm == idle' = CASE loop' = "sending" -> idle [] loop' = "waiting" -> "armed" [] OTHER -> "off"

MutantFlushAnd(items) ==
  /\ GoOn(items, TRUE)
  /\ buf' = <<>>

\* It sends what the decoder holds, then the given items, and returns.
FlushAnd(items) ==
  /\ GoOn(Items("tail", Flush(buf)) \o items, TRUE)
  /\ buf' = <<>>

\* process.  Of an http_response the rest is flushed only when no payload ends the answer.
Process(event) ==
  LET fed == Adapt(buf, event.text)
      payloads == Items("payload", fed.payloads)
  IN  \/ event.type = "stream_start" /\ GoOn(<<>>, FALSE) /\ UNCHANGED buf
      \/ event.type = "stream_chunk" /\ GoOn(payloads, FALSE) /\ buf' = fed.buf
      \/ /\ event.type = "http_response"
         /\ GoOn(payloads \o Items("tail", Flush(fed.buf)), TRUE)
         /\ buf' = <<>>
      \/ event.type = "stream_end" /\ FlushAnd(<<>>)
      \/ event.type = "error" /\ FlushAnd(Error)

\* It takes the event the relay offers.
Take ==
  /\ loop \in {"first", "waiting"}
  /\ relay = "offering"
  /\ relay' = IF Final(offer) THEN "closed" ELSE "reading"
  /\ offer' = Nothing
  /\ Process(offer)
  /\ Rearm
  /\ UNCHANGED <<replyVars, out, carried, clientVars>>

\* It finds the events closed, or its context done.
EventsClosed ==
  /\ loop = "waiting"
  /\ relay = "closed" \/ AttemptDone
  /\ FlushAnd(<<>>)
  /\ Rearm
  /\ UNCHANGED <<relayVars, out, carried, clientVars>>

TimerFires ==
  /\ idle = "armed"
  /\ idle' = "fired"
  /\ stalled' = (loop = "waiting")
  /\ UNCHANGED <<relayVars, buf, loop, todo, last, cooled, out, carried, clientVars>>

\* It finds the timer fired: the provider is cooled and the client told.
IdleTimeout ==
  /\ loop = "waiting" /\ idle = "fired"
  /\ cooled' = TRUE
  /\ todo' = Items("tail", Flush(buf)) \o Error
  /\ last' = TRUE
  /\ loop' = "sending"
  /\ buf' = <<>>
  /\ idle' = "off"
  /\ UNCHANGED <<stalled, relayVars, out, carried, clientVars>>

\* sendChunk succeeds.  A payload that ends the answer ends the stream.
Send ==
  /\ loop = "sending"
  /\ Len(out) < OutBuffer
  /\ out' = Append(out, Head(todo))
  /\ IF Head(todo).kind = "payload" /\ IsTerminal(Head(todo).payload)
     THEN GoOn(<<>>, TRUE) ELSE GoOn(Tail(todo), last)
  /\ Rearm
  /\ UNCHANGED <<buf, relayVars, carried, clientVars>>

\* sendChunk finds the context done: a payload that was not sent ends the loop,
\* whether one from the decoder's rest or an error was sent is not asked.
SendFails ==
  /\ loop = "sending" /\ AttemptDone
  /\ IF Head(todo).kind = "payload" THEN GoOn(<<>>, TRUE) ELSE GoOn(Tail(todo), last)
  /\ Rearm
  /\ UNCHANGED <<buf, relayVars, out, carried, clientVars>>

(* The converter and the handler. *)

Convert ==
  /\ converter = "reading" /\ carried = <<>>
  /\ out # <<>>
  /\ carried' = <<Head(out)>>
  /\ out' = Tail(out)
  /\ UNCHANGED <<relayVars, loopVars, clientVars>>

\* It hands the chunk on, or drops it and returns when the request's context is done.
HandOn ==
  /\ carried # <<>>
  /\ Len(chunks) < OutBuffer
  /\ chunks' = chunks \o carried
  /\ carried' = <<>>
  /\ UNCHANGED <<relayVars, loopVars, out, converter, handler, got, left>>

ConverterStops ==
  /\ converter = "reading"
  /\ IF carried = <<>> THEN out = <<>> /\ loop = "done" ELSE Canceled
  /\ converter' = "closed"
  /\ carried' = <<>>
  /\ UNCHANGED <<relayVars, loopVars, out, chunks, handler, got, left>>

\* The handler writes a payload, or the error and returns.
Write ==
  /\ handler = "reading"
  /\ chunks # <<>>
  /\ chunks' = Tail(chunks)
  /\ IF Head(chunks).kind = "error"
     THEN handler' = "failed" /\ UNCHANGED got
     ELSE got' = Append(got, Head(chunks).payload) /\ UNCHANGED handler
  /\ UNCHANGED <<relayVars, loopVars, out, carried, converter, left>>

\* It finds the channel closed, or the context done.
HandlerReturns ==
  /\ handler = "reading"
  /\ \/ chunks = <<>> /\ converter = "closed" /\ handler' = "ended"
     \/ left /\ handler' = "gone"
  /\ UNCHANGED <<relayVars, loopVars, out, carried, converter, chunks, got, left>>

\* The client leaves.
Leave ==
  /\ handler = "reading" /\ ~left
  /\ left' = TRUE
  /\ UNCHANGED <<relayVars, loopVars, out, carried, converter, chunks, handler, got>>

Provider == (\E n \in 1..Len(Text) : SendChunk(n)) \/ SendEnd \/ SendRest \/ Fail

Relay == Take \/ EventsClosed \/ IdleTimeout \/ Send \/ SendFails

Converter == Convert \/ HandOn \/ ConverterStops

Handler == Write \/ HandlerReturns

Next ==
  \/ Provider \/ GiveUpSlot \/ Fetch \/ RelayStops
  \/ TimerFires \/ Relay \/ Converter \/ Handler \/ Leave

Spec == Init /\ [][Next]_vars

\* The loop has something to do.  (Relay is enabled when this holds.)
LoopCanGo ==
  \/ loop \in {"first", "waiting"} /\ (relay # "reading" \/ AttemptDone \/ idle = "fired")
  \/ loop = "sending" /\ (Len(out) < OutBuffer \/ AttemptDone)

\* Goroutines that can run do run, and timers fire.  The provider need not send
\* anything, and the client need not read: nothing is assumed of Write.
FairSpec ==
  /\ Spec
  /\ WF_vars(RelayStops)
  /\ WF_vars(TimerFires)
  /\ []<>~LoopCanGo \/ []<><<Relay>>_vars
  /\ WF_vars(Converter)
  /\ WF_vars(HandlerReturns)

-----------------------------------------------------------------------------
(* Properties. *)

\* Type invariant: where the goroutines are, and the loop sends exactly when it has
\* something to send.
StreamTypeOK ==
  /\ stream \in Streams
  /\ relay \in {"reading", "offering", "closed"}
  /\ loop \in {"first", "waiting", "sending", "done"}
  /\ loop = "sending" <=> todo # <<>>
  /\ idle \in {"off", "armed", "fired"}
  /\ converter \in {"reading", "closed"}
  /\ handler \in {"reading", "ended", "failed", "gone"}
  /\ {left, cooled, stalled, last} \subseteq BOOLEAN

\* The chunks on their way to the client, in the order in which it will get them.
InFlight == chunks \o carried \o out \o todo

\* Unless the reply channel has dropped a chunk (session.go:33-36), the client gets the
\* provider's events once and in order, wherever their text was cut; only the last thing it
\* gets may be part of an event, and then an error follows, unless the client has left.
InOrder ==
  proper /\ ~holed =>
    \/ IsPrefix(got, Meant[stream])
    \/ /\ IsPrefix(Front(got), Meant[stream])
       /\ left \/ handler = "failed" \/ \E i \in DOMAIN InFlight : InFlight[i].kind = "error"

\* Unless a chunk was dropped, a response that ends without an error is the whole answer:
\* nothing is lost in the channels, the buffer or the pending items when the goroutines finish
\* one by one, and an end of the reply that was dropped does not pass for a good one.
CleanEndIsWhole == proper /\ ~holed /\ handler = "ended" /\ ~left => got = Meant[stream]

\* A provider is cooled for being idle only when the time was spent waiting for it,
\* and not while a slow client kept the loop from asking.
SlowClientBlamesNobody == cooled => stalled

\* When the client has left, or the handler has returned, the goroutines of the
\* stream and the relay's return.
Released ==
  Canceled ~> relay = "closed" /\ loop = "done" /\ converter = "closed"

\* A client that reads what it is sent gets an end, whatever the provider does.
ReaderGetsAnEnd == []<>(chunks = <<>>) => <>(handler # "reading")

\* What the adapter's comment says of the text it is given: it may come in parts, and as long
\* as all of them arrive a clean end is a whole answer (stream_adapter.go:52, 69).
CutsDoNotMatter == ~holed /\ handler = "ended" /\ ~left => got = Meant[stream]

=============================================================================
