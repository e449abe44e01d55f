------------------------------- MODULE Requests -------------------------------
(***************************************************************************)
(* How a gateway starts with a configuration of its models and prepares    *)
(* the requests of one client: gateway's New, the prepare functions of     *)
(* internal/pipeline/pipeline.go and what they call, internal/models,      *)
(* internal/normalize, internal/thinking, internal/compat and the          *)
(* extraction of the session.                                              *)
(*                                                                         *)
(* A client of the Gemini API sends the whole conversation every time.     *)
(* Here it sends a first request, then one with a content added at the end *)
(* (Continue) or with other wishes for the thinking (Rephrase).            *)
(*                                                                         *)
(* Abstractions.  Errors are not told apart.  Request ids, times, the alt  *)
(* parameter and the fields of a body nobody looks at are left out, and so *)
(* is the session from a hash of the content, which is never turned on.    *)
(* MaxChanges bounds what the client does after its first request.         *)
(***************************************************************************)
EXTENDS Models, Contents

CONSTANTS
  Configs,        \* the configurations the gateway may be started with
  FirstRequests,  \* what the client may send first
  Turns,          \* the contents it may add
  Wishes,         \* the ways to ask for thinking: [suffix, thinking]
  MaxChanges

Settings ==
  [models : [source : {"embedded", "custom"},
             entries : Seq([name : STRING, actions : SUBSET STRING, methods : SUBSET STRING,
                            thinking : Optional([min : Nat, max : Nat, zero : BOOLEAN,
                                                 dynamic : BOOLEAN, levels : Seq(STRING)])]),
             aliases : Seq([alias : STRING, target : STRING])],
   safetyMode : {"auto", "off"}, thinkingOff : BOOLEAN, strict : BOOLEAN,
   imagePreview : BOOLEAN]

SuffixType == Optional([word : STRING, number : Int])

ContentType == [role : STRING, parts : Seq([kind : STRING, name : STRING, signature : STRING])]

ToolType ==
  LET Declarations == Seq([parameters : Optional(STRING), parametersJsonSchema : Optional(STRING)])
  IN  [functionDeclarations : Optional(Declarations), function_declarations : Optional(Declarations)]

Bodies ==
  [legal : BOOLEAN, contents : Optional(Seq(ContentType)), thinking : ThinkingFields,
   responseSchema : Optional(STRING), responseJsonSchema : Optional(STRING),
   aspectRatio : BOOLEAN, responseModalities : Optional(STRING), tools : Seq(ToolType),
   safetySettings : Optional(STRING), user_id : Optional(STRING),
   session_id : Optional(STRING), conversation_id : Optional(STRING)]

GatewayRequests ==
  [action : Actions, declared : Optional(Actions), model : STRING, suffix : SuffixType,
   sessionID : Optional(STRING), header : Optional(STRING), query : Optional(STRING),
   metadata : Optional(STRING), body : Bodies]

ASSUME ConfigsAssumption == Configs \subseteq Settings

ASSUME ClientAssumption ==
  /\ FirstRequests \subseteq GatewayRequests
  /\ Turns \subseteq ContentType
  /\ Wishes \subseteq [suffix : SuffixType, thinking : ThinkingFields]

ASSUME MaxChangesAssumption == MaxChanges \in Nat

VARIABLES
  phase,     \* "starting", "invalid" (refused by the validation), "failed" or "serving"
  config,    \* the configuration, from Load on the normalised one
  registry,  \* the models' registry, once there is one
  request,   \* what the client has sent last
  prepared,  \* what a provider would be sent for it; nothing if it was refused
  changes    \* how often the client has sent something else

vars == <<phase, config, registry, request, prepared, changes>>

Init ==
  /\ phase = "starting"
  /\ config \in Configs
  /\ registry = <<>> /\ request = <<>> /\ prepared = <<>>
  /\ changes = 0

-----------------------------------------------------------------------------
(* The start. *)

\* config.Prepare and models.New, as gateway.New calls them.
Load ==
  /\ phase = "starting"
  /\ LET models == Normalized(config.models)
     IN  /\ config' = [config EXCEPT !.models = models]
         /\ registry' = IF ValidModels(models) THEN NewRegistry(models) ELSE <<>>
         /\ phase' = CASE ~ValidModels(models) -> "invalid"
                       [] ValidModels(models) /\ registry' = <<>> -> "failed"
                       [] OTHER -> "serving"
  /\ UNCHANGED <<request, prepared, changes>>

-----------------------------------------------------------------------------
(* The preparation of a request. *)

\* Extract of the session: the first source that names one, with its mark.
ExtractSession(r) ==
  LET IsGiven(source) == source[2] # <<>>
      given == SelectSeq(<< <<"", r.sessionID>>, <<"header", r.header>>, <<"query", r.query>>,
                            <<"meta", r.metadata>>, <<"user", r.body.user_id>>,
                            <<"session", r.body.session_id>>,
                            <<"conv", r.body.conversation_id>> >>, IsGiven)
  IN  IF given = <<>> THEN <<>> ELSE <<Head(given)>>

\* No actions declared, any action supported.
SupportsAction(info, action) == info.actions = {} \/ action \in info.actions

\* prepareBaseRequest: the model's name, or nothing.
PrepareBase(r) ==
  LET resolved == Resolve(registry[1], r.model)
  IN  IF /\ r.declared \in {<<>>, <<r.action>>}
         /\ resolved # <<>>
         /\ SupportsAction(registry[1].models[resolved[1]], r.action)
      THEN resolved ELSE <<>>

Preparation(model, r, body) == <<[model |-> model, session |-> ExtractSession(r), body |-> body]>>

StripGatewayOnly(body) == [body EXCEPT !.session_id = <<>>, !.conversation_id = <<>>]

\* countTokens takes no settings, no tools and no generation parameters.
StripCountTokensUnsupported(body) ==
  [StripGatewayOnly(body) EXCEPT
     !.thinking = NoFields, !.responseSchema = <<>>, !.responseJsonSchema = <<>>,
     !.aspectRatio = FALSE, !.responseModalities = <<>>, !.tools = <<>>, !.safetySettings = <<>>]

PrepareCountTokens(r) ==
  LET model == PrepareBase(r)
      body == NormalizeRequest(r.body, config.safetyMode)
  IN  IF model = <<>> \/ body = <<>> THEN <<>>
      ELSE Preparation(model[1], r, StripCountTokensUnsupported(body[1]))

PrepareGenerate(r) ==
  LET model == PrepareBase(r)
      body == NormalizeRequest(r.body, config.safetyMode)
      thinking == ApplyThinking(body[1].thinking, r.suffix,
                                registry[1].models[model[1]].thinking,
                                config.thinkingOff, config.strict)
  IN  IF model = <<>> \/ body = <<>> \/ thinking = <<>> THEN <<>>
      ELSE Preparation(model[1], r,
             ApplyImagePreview(model[1],
                               StripGatewayOnly([body[1] EXCEPT !.thinking = thinking[1]]),
                               config.imagePreview))

Prepare(r) == IF r.action = "countTokens" THEN PrepareCountTokens(r) ELSE PrepareGenerate(r)

Send(r) ==
  /\ phase = "serving"
  /\ request' = <<r>>
  /\ prepared' = Prepare(r)
  /\ UNCHANGED <<phase, config, registry>>

Ask ==
  /\ request = <<>>
  /\ \E r \in FirstRequests : Send(r)
  /\ UNCHANGED changes

Change(r) ==
  /\ changes < MaxChanges
  /\ Send(r)
  /\ changes' = changes + 1

\* The conversation with one more content at its end.
Continue ==
  /\ request # <<>> /\ request[1].body.contents # <<>>
  /\ \E turn \in Turns :
       Change([request[1] EXCEPT !.body.contents[1] = Append(@, turn)])

\* The same conversation, with other wishes.
Rephrase ==
  /\ request # <<>>
  /\ \E w \in Wishes :
       Change([request[1] EXCEPT !.suffix = w.suffix, !.body.thinking = w.thinking])

Next == Load \/ Ask \/ Continue \/ Rephrase

Spec == Init /\ [][Next]_vars

-----------------------------------------------------------------------------
(* Properties. *)

\* The model that a request is prepared for, and what it was asked to think.
Serving == phase = "serving" /\ prepared # <<>>

SupportOf(model) == registry[1].models[model].thinking

Generates(r) == r.action # "countTokens"

\* The variables have their types: there is a registry exactly when the gateway serves, its
\* aliases lead to its models, and what its models declare of their thinking is what the
\* validation allows (models.New); whatever is prepared is prepared for one of its models.
RequestsTypeOK ==
  /\ phase \in {"starting", "invalid", "failed", "serving"}
  /\ registry # <<>> <=> phase = "serving"
  /\ phase = "serving" =>
       /\ \A m \in DOMAIN registry[1].models : SupportOf(m) \in Optional(ThinkingSupport)
       /\ \A a \in DOMAIN registry[1].aliases :
            registry[1].aliases[a].target \in DOMAIN registry[1].models
  /\ request \in Optional(GatewayRequests)
  /\ request # <<>> => phase = "serving"
  /\ prepared # <<>> => request # <<>> /\ prepared[1].model \in DOMAIN registry[1].models
  /\ changes \in 0..MaxChanges

\* A configuration that the validation lets through makes a registry: the two lists of
\* embedded names and the two checks of aliases agree (validateModelsConfig, models.New).
\* An alias that repeats one of the built-in aliases is the exception.
ValidationSuffices ==
  phase = "failed" =>
    /\ config.models.source = "embedded"
    /\ \E i \in DOMAIN config.models.aliases, j \in DOMAIN BuiltInAliases :
         config.models.aliases[i].alias = BuiltInAliases[j].alias

\* A declaration of thinking that makes sense: budgets or levels, with an upper end, and a
\* level for every model that cannot be told to think by itself.
Sensible(s) ==
  /\ TakesBudget(s) \/ TakesLevels(s)
  /\ TakesBudget(s) => s.max > 0 /\ (s.zero \/ s.min > 0)
  /\ ~TakesBudget(s) /\ ~s.dynamic => "medium" \in LevelsOf(s)

\* The model can do what this thinkingConfig says.
Supported(b, s) ==
  /\ b.thinking_level = <<>> /\ b.thinking_budget = <<>> /\ b.include_thoughts = <<>>
  /\ b.thinkingLevel = <<>> \/ b.thinkingBudget = <<>>
  /\ b.thinkingBudget # <<>> =>
       \/ b.thinkingBudget[1] = -1 /\ s.dynamic
       \/ b.thinkingBudget[1] = 0 /\ s.zero
       \/ b.thinkingBudget[1] \in s.min..s.max /\ b.thinkingBudget[1] > 0
  /\ b.thinkingLevel # <<>> =>
       b.thinkingLevel[1] \in {ThinkingLevelToAPIEnum(l) : l \in LevelsOf(s)}

\* Whatever a client asks for, in whatever form, what is sent is one way of thinking that the
\* model has declared, in its range (thinking.Apply).
SentIsSupported ==
  Serving /\ Generates(request[1]) /\ ~config.thinkingOff =>
    LET asked == Asked(request[1].body.thinking, request[1].suffix)
        support == SupportOf(prepared[1].model)
    IN  asked # <<Nothing>> /\ support # <<>> =>
          (Sensible(support[1]) => Supported(prepared[1].body.thinking, support[1]))

\* d asks for no less thinking than c; auto, and an amount against a level, say nothing.
AskedNoLess(c, d) ==
  \/ c.mode = "none" /\ d.mode = "budget" /\ d.budget > 0
  \/ c.mode = "none" /\ d.mode = "level" /\ d.level \in StandardLevels
  \/ c.mode = "budget" /\ d.mode = "budget" /\ 0 < c.budget /\ c.budget <= d.budget
  \/ /\ c.mode = "level" /\ d.mode = "level"
     /\ {c.level, d.level} \subseteq StandardLevels /\ Rank[c.level] <= Rank[d.level]

GivenNoLess(b, d) ==
  /\ b.thinkingBudget # <<>> /\ d.thinkingBudget # <<>> =>
       b.thinkingBudget[1] <= d.thinkingBudget[1]
  /\ b.thinkingLevel # <<>> /\ d.thinkingLevel # <<>> =>
       Rank[b.thinkingLevel[1]] <= Rank[d.thinkingLevel[1]]

LowestFirst(s) == \A l \in LevelsOf(s) : Rank[s.levels[1]] <= Rank[l]

\* A client that asks the same model for more is not given less (ValidateConfig's conversions
\* between budgets and levels and its clamps), if the model names its lowest level first.
MoreAskedMoreGiven ==
  [][LET sent == [c |-> Asked(request[1].body.thinking, request[1].suffix),
                  d |-> Asked(request'[1].body.thinking, request'[1].suffix)]
         support == SupportOf(prepared[1].model)
     IN  /\ Serving /\ prepared' # <<>> /\ prepared'[1].model = prepared[1].model
         /\ Generates(request[1]) /\ ~config.thinkingOff
         /\ support # <<>> /\ Sensible(support[1]) /\ LowestFirst(support[1])
         /\ AskedNoLess(sent.c[1], sent.d[1])
         => GivenNoLess(prepared[1].body.thinking, prepared'[1].body.thinking)]_vars

\* The white picture is put into the first content as long as no content has a picture.
HasPlaceholder ==
  /\ config.imagePreview /\ prepared[1].model = "gemini-2.5-flash-image"
  /\ request[1].body.aspectRatio /\ Generates(request[1])

\* A conversation keeps its past: what was sent of it before is sent again in the same form
\* when a content has been added (NormalizeRequest), so that a provider sees one conversation.
HistoryIsStable ==
  [][Serving /\ prepared' # <<>> /\ ~HasPlaceholder
       /\ request'[1].body.contents # request[1].body.contents
     => IsPrefix(prepared[1].body.contents[1], prepared'[1].body.contents[1])]_vars

=============================================================================
