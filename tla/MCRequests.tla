----------------------------- MODULE MCRequests -----------------------------
(***************************************************************************)
(* Requests for TLC: the embedded models and a custom list with a model of *)
(* each kind, both strict and not, configurations that are refused, and a  *)
(* client that changes its request twice: any two wishes for thinking meet *)
(* at any model, and a conversation grows by two contents.                 *)
(***************************************************************************)
EXTENDS Requests

Models1(source, entries, aliases) == [source |-> source, entries |-> entries, aliases |-> aliases]

Setting(models, strict, off) ==
  [models |-> models, safetyMode |-> "auto", thinkingOff |-> off, strict |-> strict,
   imagePreview |-> TRUE]

Entry(name, methods, thinking) ==
  [name |-> name, actions |-> {}, methods |-> methods, thinking |-> thinking]

Declared(min, max, zero, dynamic, levels) ==
  [min |-> min, max |-> max, zero |-> zero, dynamic |-> dynamic, levels |-> levels]

Both == {"generateContent", "countTokens"}

\* a model for each kind of thinking: budgets, levels, both, none, and one of no known method
CustomEntries ==
  <<Entry("budgets", Both, <<Declared(256, 1024, FALSE, FALSE, <<>>)>>),
    Entry("levels", Both, <<Declared(0, 0, FALSE, FALSE, <<"low", "medium", "max">>)>>),
    Entry("both", Both, <<Declared(0, 8192, TRUE, FALSE, <<"minimal", "high">>)>>),
    Entry("plain", {"countTokens"}, <<>>),
    Entry("open", {"embedContent"}, <<Declared(0, 0, TRUE, TRUE, <<"low", "medium">>)>>)>>

Pro == Alias("gemini-pro", "gemini-2.5-pro")

Embedded == Models1("embedded", <<>>, <<Pro, Pro>>)
Custom == Models1("custom", CustomEntries,
                  <<Alias("l", "levels"), Alias("plain", "budgets")>>)

MCConfigs ==
  {Setting(m, strict, FALSE) : m \in {Embedded, Custom}, strict \in BOOLEAN}
    \cup {Setting(m, FALSE, TRUE) :
            m \in {Embedded,
                   Models1("embedded", <<>>, <<Alias("gemini-3.1-flash-lite-preview",
                                                     "gemini-2.5-pro")>>),
                   Models1("embedded", <<>>, <<Alias("a", "gemini-4")>>),
                   Models1("embedded", <<>>, <<Pro, Alias("gemini-pro", "gemini-2.5-flash")>>),
                   Models1("custom", <<Entry("m", Both, <<Declared(9, 8, TRUE, TRUE, <<>>)>>)>>, <<>>),
                   Models1("custom", <<>>, <<>>)}}

-----------------------------------------------------------------------------

Content(role, parts) == [role |-> role, parts |-> parts]

Plain(kind, name) == Part(kind, name, "none")
Text == <<Plain("text", "none")>>
Response(name) == Plain("response", name)

MCTurns ==
  {Content("user", Text),
   Content("model", <<Plain("call", "f"), Part("text", "none", "own"), Part("call", "g", "own")>>),
   Content("other", <<Plain("call", "none"), Plain("call", "g")>>),
   Content("none", Text \o <<Response("none"), Response("none")>>),
   Content("user", <<Response("h"), Response("none"), Plain("image", "none")>>)}

Wish(suffix, thinking) == [suffix |-> suffix, thinking |-> thinking]
InSuffix(word, number) == Wish(<<[word |-> word, number |-> number]>>, NoFields)
InBody(field, value) == Wish(<<>>, [NoFields EXCEPT ![field] = <<value>>])

MCWishes ==
  {Wish(<<>>, NoFields)}
    \cup {InSuffix(w, 0) : w \in {"none", "auto", "minimal", "high", "max", "ultra"}}
    \cup {InSuffix("", n) : n \in {0, 300, 30000, -2}}
    \cup {InBody("thinkingLevel", l) : l \in {"none", "", "low", "xhigh", "ultra"}}
    \cup {InBody("thinkingBudget", n) : n \in {0, -1, -5, 1, 600, 100000}}
    \cup {InBody("thinking_budget", 5000), InBody("includeThoughts", FALSE),
          Wish(<<[word |-> "", number |-> 300]>>,
               [NoFields EXCEPT !.thinkingLevel = <<"high">>, !.include_thoughts = <<FALSE>>])}

Body(contents) ==
  [legal |-> TRUE, contents |-> contents, thinking |-> NoFields, responseSchema |-> <<"schema">>,
   responseJsonSchema |-> <<>>, aspectRatio |-> FALSE, responseModalities |-> <<>>,
   tools |-> <<[functionDeclarations |-> << <<[parameters |-> <<"p">>,
                                              parametersJsonSchema |-> <<>>]>> >>,
                function_declarations |-> <<>>]>>,
   safetySettings |-> <<>>, user_id |-> <<>>, session_id |-> <<"s">>, conversation_id |-> <<>>]

Request(action, model, body) ==
  [action |-> action, declared |-> <<action>>, model |-> model, suffix |-> <<>>,
   sessionID |-> <<>>, header |-> <<>>, query |-> <<>>, metadata |-> <<>>, body |-> body]

Opening == Body(<< <<Content("none", Text)>> >>)
Picture == [Opening EXCEPT !.aspectRatio = TRUE, !.safetySettings = <<"own">>]

MCFirstRequests ==
  {Request("generateContent", m, Opening) :
     m \in {"gemini-pro", "gemini-2.5-flash", "gemini-3.1-pro-preview", "budgets", "levels",
            "both", "open", "plain", "gemini-4"}}
    \cup {Request("countTokens", m, b) : m \in {"gemini-2.5-pro", "l"}, b \in {Opening, Picture}}
    \cup {Request("generateContent", "gemini-2.5-flash-image-preview", b) :
            b \in {Picture, Body(<<>>), Body(<< <<>> >>), [Opening EXCEPT !.legal = FALSE]}}
    \cup {[Request("countTokens", "both", Opening) EXCEPT !.declared = <<"generateContent">>]}

=============================================================================
