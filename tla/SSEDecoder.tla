----------------------------- MODULE SSEDecoder -----------------------------
(***************************************************************************)
(* The decoder of internal/pipeline/stream_adapter.go, as functions of the *)
(* buffer and the text fed: it takes the server-sent events of a provider  *)
(* out of the chunks they come in, or passes on chunks that are JSON.      *)
(*                                                                         *)
(* Text is a sequence of tokens.  The field name of a data line is two     *)
(* tokens, so that a chunk may end inside it; any other line that a client *)
(* ignores (an event name, a comment) is the one token "ev"; "N" and "R"   *)
(* are the characters that end lines, and the only white space kept; the   *)
(* rest are values: "J" is a JSON object, "T" is one that ends the answer, *)
(* "DONE" is [DONE], and any other is text.                                *)
(***************************************************************************)
EXTENDS Integers, Sequences, SequencesExt

Blank == {"N", "R"}

Json == {"J", "T"}

\* bytes.TrimSpace.
Trim(s) ==
  LET ink == {i \in DOMAIN s : s[i] \notin Blank}
  IN  IF ink = {} THEN <<>> ELSE SubSeq(s, Min(ink), Max(ink))

HasInk(s) == Trim(s) # <<>>

\* The text cut at each line end.
Cut(s) ==
  LET Step(lines, t) == IF t = "N" THEN Append(lines, <<>>)
                        ELSE Append(Front(lines), Append(Last(lines), t))
  IN  FoldLeft(Step, << <<>> >>, s)

FieldName == <<"da", "ta">>

\* looksLikeSSEPayload.
LooksLikeSSE(s) == s # <<>> /\ (Head(s) = "ev" \/ IsPrefix(FieldName, s))

\* parseSSEFrame: the payload of a frame, or nothing.  The lines are read in order;
\* [DONE], or a line of JSON before any data, ends the reading.
ParseFrame(frame) ==
  LET trimmed == Trim(frame)
      lines == Cut(trimmed)
      Data(i) == IF IsPrefix(FieldName, lines[i]) THEN Trim(SubSeq(lines[i], 3, Len(lines[i])))
                 ELSE <<>>
      IsBareJson(i) ==
        /\ lines[i] # <<>> /\ Head(lines[i]) \in Json
        /\ \A j \in 1..i - 1 : Data(j) = <<>>
      stops == {i \in DOMAIN lines : Data(i) = <<"DONE">> \/ IsBareJson(i)}
      Join(text, i) == IF Data(i) = <<>> THEN text
                       ELSE IF text = <<>> THEN Data(i)
                       ELSE text \o <<"N">> \o Data(i)
      joined == FoldLeft(Join, <<>>, [i \in DOMAIN lines |-> i])
  IN  IF trimmed = <<>> THEN <<>>
      ELSE IF ~LooksLikeSSE(trimmed) THEN <<trimmed>>
      ELSE IF stops # {} THEN
             IF IsBareJson(Min(stops)) THEN <<lines[Min(stops)]>> ELSE <<>>
      ELSE IF joined = <<>> THEN <<>> ELSE <<joined>>

\* normalizeSSENewlines: CR LF is one line end, and a CR by itself another.
LineEndGoesOn(text, i) == i > 1 /\ <<text[i - 1], text[i]>> = <<"R", "N">>

\* A character comes to the buffer: a line end after another ends a frame.
FeedOne(fed, t) ==
  IF t \notin Blank THEN [fed EXCEPT !.buf = Append(@, t)]
  ELSE IF fed.buf = <<>> \/ Last(fed.buf) # "N" THEN [fed EXCEPT !.buf = Append(@, "N")]
  ELSE [payloads |-> fed.payloads \o ParseFrame(Front(fed.buf)), buf |-> <<>>]

\* Feed: the payloads of the frames that are complete, and the buffer.  What was in the
\* buffer before has been searched for frames, and its line ends are normalised.
Feed(buf, chunk) ==
  LET fed[i \in 0..Len(chunk)] ==
        IF i = 0 THEN [payloads |-> <<>>, buf |-> buf]
        ELSE IF LineEndGoesOn(chunk, i) THEN fed[i - 1]
        ELSE FeedOne(fed[i - 1], chunk[i])
  IN  fed[Len(chunk)]

MutantAdapt(buf, chunk) ==
  IF ~HasInk(chunk) THEN [payloads |-> <<>>, buf |-> buf]
  ELSE IF LooksLikeSSE(Trim(chunk)) THEN Feed(buf, chunk)
  ELSE [payloads |-> <<Trim(chunk)>>, buf |-> buf]

\* Adapt: a chunk without ink is dropped; one that looks like events, or comes while
\* some are buffered, is fed; any other is a payload by itself.
Adapt(buf, chunk) ==
  IF ~HasInk(chunk) THEN [payloads |-> <<>>, buf |-> buf]
  ELSE IF HasInk(buf) \/ LooksLikeSSE(Trim(chunk)) THEN Feed(buf, chunk)
  ELSE [payloads |-> <<Trim(chunk)>>, buf |-> buf]

\* Flush: what is left is a frame, though no blank line ends it.
Flush(buf) == ParseFrame(buf)

\* detectGeminiTerminalPayload.
IsTerminal(payload) == payload = <<"T">>

=============================================================================
