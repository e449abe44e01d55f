-------------------------------- MODULE Models --------------------------------
(***************************************************************************)
(* The models a gateway knows: the models section of the configuration, as *)
(* internal/config normalises and validates it, and the static registry of *)
(* internal/models/registry.go that is built from it and never changes.    *)
(*                                                                         *)
(* Abstractions.  A name is a string that is normalised already (prefix,   *)
(* suffix and case are gone) and never empty.  Of a model's facts only its *)
(* actions, its methods and its thinking are kept, as sets where the code  *)
(* has lists without duplicates. The public list of the models (List, Get) *)
(* and what an alias shows there are left out.                             *)
(***************************************************************************)
EXTENDS Thinking, SequencesExt

Actions == {"generateContent", "streamGenerateContent", "countTokens"}

\* actionsFromGenerationMethods: one method for both ways to generate.
FromMethods(methods) ==
  (IF "generateContent" \in methods THEN {"generateContent", "streamGenerateContent"} ELSE {})
    \cup (methods \cap {"countTokens"})

ToMethods(actions) ==
  (IF actions \cap {"generateContent", "streamGenerateContent"} # {}
     THEN {"generateContent"} ELSE {})
    \cup (actions \cap {"countTokens"})

Info(actions, methods, thinking) ==
  [actions |-> actions, methods |-> methods, thinking |-> thinking]

-----------------------------------------------------------------------------
(* The models built in. *)

Support(min, max, zero, levels) ==
  [min |-> min, max |-> max, zero |-> zero, dynamic |-> TRUE, levels |-> levels]

BuiltIn(thinking) ==
  LET methods == {"generateContent", "countTokens", "createCachedContent",
                  "batchGenerateContent"}
  IN  Info(FromMethods(methods), methods, thinking)

BudgetsOnly == {"gemini-2.5-pro"}
BudgetsOrNone == {"gemini-2.5-flash", "gemini-2.5-flash-lite"}
NoThinkingAtAll == {"gemini-2.5-flash-image"}
ThreeLevels == {"gemini-3.1-pro-preview", "gemini-pro-latest"}
FourLevels == {"gemini-3-flash-preview", "gemini-3.5-flash", "gemini-3.1-flash-lite",
               "gemini-flash-latest", "gemini-flash-lite-latest"}

Budgets == Support(128, 32768, FALSE, <<>>)
BudgetsOrZero == Support(0, 24576, TRUE, <<>>)
LowToHigh == Support(128, 32768, FALSE, <<"low", "medium", "high">>)
MinimalToHigh == Support(128, 32768, FALSE, <<"minimal", "low", "medium", "high">>)

EmbeddedThinking(m) ==
  IF m \in NoThinkingAtAll THEN <<>>
  ELSE IF m \in BudgetsOnly THEN <<Budgets>>
  ELSE IF m \in BudgetsOrNone THEN <<BudgetsOrZero>>
  ELSE IF m \in ThreeLevels THEN <<LowToHigh>>
  ELSE <<MinimalToHigh>>

EmbeddedModels ==
  [m \in BudgetsOnly \cup BudgetsOrNone \cup NoThinkingAtAll \cup ThreeLevels \cup FourLevels |->
     BuiltIn(EmbeddedThinking(m))]

\* The list that the validation of an alias goes by; the code keeps it beside the models.
DefaultEmbeddedModelNames ==
  {"gemini-2.5-pro", "gemini-2.5-flash", "gemini-2.5-flash-lite", "gemini-2.5-flash-image",
   "gemini-3.1-pro-preview", "gemini-3-flash-preview", "gemini-3.5-flash",
   "gemini-3.1-flash-lite", "gemini-pro-latest", "gemini-flash-latest",
   "gemini-flash-lite-latest"}

Alias(alias, target) == [alias |-> alias, target |-> target]

BuiltInAliases ==
  <<Alias("gemini-2.5-flash-image-preview", "gemini-2.5-flash-image"),
    Alias("gemini-3.1-flash-lite-preview", "gemini-3.1-flash-lite")>>

-----------------------------------------------------------------------------
(* The configuration: [source, entries, aliases], of sequences. *)

Distinct(s, Key(_)) == \A i, j \in DOMAIN s : Key(s[i]) = Key(s[j]) => i = j

EntryName(e) == e.name
AliasName(a) == a.alias

\* normalizeModelAliases: of aliases with one name and target the first is kept.
NormalizeAliases(aliases) ==
  LET Known(kept, a) == \E i \in DOMAIN kept : kept[i].alias = a.alias /\ kept[i].target = a.target
      Keep(kept, a) == IF Known(kept, a) THEN kept ELSE Append(kept, a)
      kept[i \in 0..Len(aliases)] == IF i = 0 THEN <<>> ELSE Keep(kept[i - 1], aliases[i])
  IN  kept[Len(aliases)]

Normalized(cfg) == [cfg EXCEPT !.aliases = NormalizeAliases(@)]

ValidEntry(e) ==
  /\ e.actions # {} \/ e.methods # {}
  /\ e.actions \subseteq Actions
  /\ \A i \in DOMAIN e.thinking : e.thinking[i] \in ThinkingSupport

KnownTargets(cfg) ==
  IF cfg.source = "embedded" THEN DefaultEmbeddedModelNames
  ELSE {cfg.entries[i].name : i \in DOMAIN cfg.entries}

\* a validation that takes any target
MutantValidModels(cfg) ==
  /\ Distinct(cfg.entries, EntryName)
  /\ \A i \in DOMAIN cfg.entries : ValidEntry(cfg.entries[i])
  /\ Distinct(cfg.aliases, AliasName)
  /\ \A i \in DOMAIN cfg.aliases : cfg.aliases[i].alias # cfg.aliases[i].target

ValidModels(cfg) ==
  /\ cfg.source = "embedded" <=> cfg.entries = <<>>
  /\ Distinct(cfg.entries, EntryName)
  /\ \A i \in DOMAIN cfg.entries : ValidEntry(cfg.entries[i])
  /\ Distinct(cfg.aliases, AliasName)
  /\ \A i \in DOMAIN cfg.aliases :
       /\ cfg.aliases[i].alias # cfg.aliases[i].target
       /\ cfg.aliases[i].target \in KnownTargets(cfg)

-----------------------------------------------------------------------------
(* The registry: the models and the aliases, each by name. *)

\* modelFromEntry and prepareModel.
ModelFromEntry(e) ==
  LET actions == (e.actions \cap Actions) \cup FromMethods(e.methods)
  IN  Info(actions, e.methods \cup ToMethods(actions), e.thinking)

BaseModels(cfg) ==
  IF cfg.source = "embedded" THEN EmbeddedModels
  ELSE [m \in {cfg.entries[i].name : i \in DOMAIN cfg.entries} |->
          ModelFromEntry(cfg.entries[CHOOSE i \in DOMAIN cfg.entries : cfg.entries[i].name = m])]

AliasesOf(cfg) == (IF cfg.source = "embedded" THEN BuiltInAliases ELSE <<>>) \o cfg.aliases

\* New: a registry, or nothing when a name is taken or an alias leads nowhere.
NewRegistry(cfg) ==
  LET models == BaseModels(cfg)
      rules == AliasesOf(cfg)
  IN  IF /\ Distinct(cfg.entries, EntryName)
         /\ Distinct(rules, AliasName)
         /\ \A i \in DOMAIN rules :
              rules[i].alias # rules[i].target /\ rules[i].target \in DOMAIN models
      THEN <<[models |-> models,
              aliases |-> [a \in {rules[i].alias : i \in DOMAIN rules} |->
                             rules[CHOOSE i \in DOMAIN rules : rules[i].alias = a]]]>>
      ELSE <<>>

\* resolveReadOnly and ResolveForExecution: the name of a model; an alias counts before it.
Resolve(r, name) ==
  IF name \in DOMAIN r.aliases THEN <<r.aliases[name].target>>
  ELSE IF name \in DOMAIN r.models THEN <<name>>
  ELSE <<>>

=============================================================================
