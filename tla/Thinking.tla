------------------------------- MODULE Thinking -------------------------------
(***************************************************************************)
(* How the thinking a client asks for becomes what the model is sent,      *)
(* internal/thinking/thinking.go.  A client asks in the parentheses after  *)
(* the model's name or in the body's thinkingConfig, by a budget or by a   *)
(* level; models take budgets, levels or both.                             *)
(*                                                                         *)
(* Abstractions.  A thinkingConfig is the record of its six fields, each a *)
(* sequence of at most one value, empty when the field is absent; the rest *)
(* of the body is not looked at.  Spelling (case, blanks) is left out, as  *)
(* are the error's words.  Apply's test for an unknown model is left out:  *)
(* the pipeline refuses such a request before (module Requests).        *)
(***************************************************************************)
EXTENDS Integers, Sequences

\* The levels in their order, standardLevelOrder.
Rank == [minimal |-> 1, low |-> 2, medium |-> 3, high |-> 4, xhigh |-> 5, max |-> 6]

StandardLevels == DOMAIN Rank

LevelBudget == [none |-> 0, auto |-> -1, minimal |-> 512, low |-> 1024, medium |-> 8192,
                high |-> 24576, xhigh |-> 32768, max |-> 128000]

\* What the configuration's validation lets a model declare.
ThinkingSupport ==
  {s \in [min : Nat, max : Nat, zero : BOOLEAN, dynamic : BOOLEAN, levels : Seq(StandardLevels)] :
     s.max > 0 => s.min <= s.max}

Optional(S) == {s \in Seq(S) : Len(s) <= 1}

ThinkingFields ==
  [thinkingLevel : Optional(STRING), thinking_level : Optional(STRING),
   thinkingBudget : Optional(Int), thinking_budget : Optional(Int),
   includeThoughts : Optional(BOOLEAN), include_thoughts : Optional(BOOLEAN)]

NoFields ==
  [thinkingLevel |-> <<>>, thinking_level |-> <<>>, thinkingBudget |-> <<>>,
   thinking_budget |-> <<>>, includeThoughts |-> <<>>, include_thoughts |-> <<>>]

\* The first of two spellings of a field that is there.
Either(f, g) == IF f # <<>> THEN f ELSE g

-----------------------------------------------------------------------------
(* What is asked for: a ThinkingConfig. *)

Asking(mode, budget, level) == [mode |-> mode, budget |-> budget, level |-> level]

Nothing == Asking("budget", 0, "")
NoThinking == Asking("none", 0, "")
AutoThinking == Asking("auto", -1, "")

HasThinkingConfig(c) == c # Nothing

FromBudget(n) ==
  IF n = 0 THEN NoThinking
  ELSE IF n = -1 THEN AutoThinking
  ELSE Asking("budget", n, "")

FromLevel(l) ==
  IF l = "none" THEN NoThinking
  ELSE IF l = "auto" THEN AutoThinking
  ELSE IF l = "" THEN Nothing
  ELSE Asking("level", 0, l)

\* A suffix is a word or, when the word is empty, a number.  Nothing for an illegal one.
SuffixConfig(s) ==
  IF s.word \in StandardLevels \cup {"none", "auto"} THEN <<FromLevel(s.word)>>
  ELSE IF s.word = "" /\ s.number >= -1 THEN <<FromBudget(s.number)>>
  ELSE <<>>

\* The level is preferred to the budget, the camel case to the snake case.
ExtractConfig(b) ==
  LET level == Either(b.thinkingLevel, b.thinking_level)
      budget == Either(b.thinkingBudget, b.thinking_budget)
  IN  IF level # <<>> THEN FromLevel(level[1])
      ELSE IF budget # <<>> THEN FromBudget(budget[1])
      ELSE Nothing

-----------------------------------------------------------------------------
(* What the model can do. *)

LevelsOf(s) == {s.levels[i] : i \in DOMAIN s.levels}

TakesBudget(s) == s.min > 0 \/ s.max > 0
TakesLevels(s) == s.levels # <<>>

ConvertBudgetToLevel(n) ==
  IF n < -1 THEN <<>>
  ELSE IF n = -1 THEN <<"auto">>
  ELSE IF n = 0 THEN <<"none">>
  ELSE IF n <= 512 THEN <<"minimal">>
  ELSE IF n <= 1024 THEN <<"low">>
  ELSE IF n <= 8192 THEN <<"medium">>
  ELSE IF n <= 24576 THEN <<"high">>
  ELSE <<"xhigh">>

Distance(l, m) == IF Rank[l] < Rank[m] THEN Rank[m] - Rank[l] ELSE Rank[l] - Rank[m]

\* the last level for one that is not there
MutantClampLevel(l, s) ==
  IF l \in LevelsOf(s) \/ l \notin StandardLevels \/ s.levels = <<>>
  THEN l
  ELSE s.levels[Len(s.levels)]

\* The nearest level that is supported, the lower of two that are as near.
ClampLevel(l, s) ==
  IF l \in LevelsOf(s) \/ l \notin StandardLevels \/ s.levels = <<>>
  THEN l
  ELSE CHOOSE m \in LevelsOf(s) :
         \A k \in LevelsOf(s) :
           \/ Distance(l, m) < Distance(l, k)
           \/ Distance(l, m) = Distance(l, k) /\ Rank[m] <= Rank[k]

\* a budget that is held to the upper end only
MutantClampBudget(n, s) ==
  IF n # -1 /\ TakesBudget(s) /\ n > s.max THEN s.max ELSE n

ClampBudget(n, s) ==
  IF n = -1 THEN n
  ELSE IF n = 0 /\ ~s.zero THEN s.min
  ELSE IF n = 0 \/ ~TakesBudget(s) THEN n
  ELSE IF n < s.min THEN s.min
  ELSE IF n > s.max THEN s.max
  ELSE n

\* Auto, for a model that cannot choose by itself.
ConvertAutoToMidRange(c, s) ==
  LET mid == (s.min + s.max) \div 2
  IN  IF TakesLevels(s) /\ ~TakesBudget(s) THEN Asking("level", 0, "medium")
      ELSE IF mid > 0 THEN Asking("budget", mid, c.level)
      ELSE IF s.zero THEN Asking("none", 0, c.level)
      ELSE Asking("budget", s.min, c.level)

-----------------------------------------------------------------------------
(* ValidateConfig, step by step; nothing stands for an error. *)

\* To the kind of request the model takes, if it takes but one.
ToCapability(c, s) ==
  IF c.mode = "level" /\ TakesBudget(s) /\ ~TakesLevels(s)
  THEN IF c.level \in DOMAIN LevelBudget
         THEN <<Asking("budget", LevelBudget[c.level], "")>>
         ELSE <<>>
  ELSE IF c.mode = "budget" /\ TakesLevels(s) /\ ~TakesBudget(s)
  THEN LET level == ConvertBudgetToLevel(c.budget)
       IN  IF level = <<>> THEN <<>> ELSE <<Asking("level", 0, ClampLevel(level[1], s))>>
  ELSE <<c>>

\* The level must be one of the model's, or near to one when that is good enough.
ToLevels(c, s, lenient) ==
  IF c.mode # "level" \/ ~TakesLevels(s) \/ c.level \in LevelsOf(s) THEN <<c>>
  ELSE IF lenient /\ ClampLevel(c.level, s) \in LevelsOf(s)
  THEN <<[c EXCEPT !.level = ClampLevel(@, s)]>>
  ELSE <<>>

\* The budget that was asked for is outside the model's range.
OutOfRange(asked, c, s) ==
  /\ asked.mode = "budget" /\ c.mode = "budget"
  /\ TakesBudget(s)
  /\ c.budget < s.min \/ c.budget > s.max \/ (c.budget = 0 /\ ~s.zero)

\* Auto, the range of budgets, and the level of a model that cannot but think.
ToRange(c, s) ==
  LET chosen == IF c.mode = "auto" /\ ~s.dynamic THEN ConvertAutoToMidRange(c, s) ELSE c
      inRange == IF chosen.mode = "level" THEN chosen
                 ELSE [chosen EXCEPT !.budget = ClampBudget(@, s)]
  IN  IF inRange.mode = "none" /\ TakesLevels(s) /\ inRange.level = ""
      THEN [inRange EXCEPT !.level = s.levels[1]]
      ELSE inRange

\* A suffix is adapted to the model even when the configuration is strict.
ValidateConfig(asked, s, strict, fromSuffix) ==
  LET demanding == strict /\ ~fromSuffix
      kind == ToCapability(asked, s)
      level == IF kind = <<>> THEN <<>> ELSE ToLevels(kind[1], s, ~demanding)
  IN  IF level = <<>> \/ (demanding /\ OutOfRange(asked, level[1], s)) THEN <<>>
      ELSE <<ToRange(level[1], s)>>

-----------------------------------------------------------------------------
(* What is written into the body. *)

\* The upstream knows no level above high.
ThinkingLevelToAPIEnum(l) == IF l \in {"xhigh", "max"} THEN "high" ELSE l

IncludeThoughts(b, default) ==
  LET asked == Either(b.includeThoughts, b.include_thoughts)
  IN  IF asked = <<>> THEN <<default>> ELSE asked

LevelFormat(b, c) ==
  [NoFields EXCEPT
     !.thinkingLevel = <<ThinkingLevelToAPIEnum(c.level)>>,
     !.includeThoughts = IF c.mode = "none" THEN <<FALSE>> ELSE IncludeThoughts(b, TRUE)]

BudgetFormat(b, c) ==
  [NoFields EXCEPT
     !.thinkingBudget = <<c.budget>>,
     !.includeThoughts = IF c.mode = "none" THEN <<FALSE>>
                         ELSE IncludeThoughts(b, c.mode = "auto" \/ c.budget > 0)]

ApplyGemini(b, c, s) ==
  IF c.mode = "level" \/ (c.mode = "none" /\ TakesLevels(s))
  THEN LevelFormat(b, c)
  ELSE BudgetFormat(b, c)

\* A suffix counts before the body; nothing for an illegal one.
Asked(b, suffix) == IF suffix # <<>> THEN SuffixConfig(suffix[1]) ELSE <<ExtractConfig(b)>>

\* The thinkingConfig b of a request, for a model that declares support (nothing when it
\* cannot think), after Apply; nothing for an error.
ApplyThinking(b, suffix, support, off, strict) ==
  IF off THEN <<b>>
  ELSE LET asked == Asked(b, suffix)
       IN  IF asked = <<>> THEN <<>>
           ELSE IF ~HasThinkingConfig(asked[1]) THEN <<b>>
           ELSE IF support = <<>> THEN <<NoFields>>
           ELSE LET valid == ValidateConfig(asked[1], support[1], strict, suffix # <<>>)
                IN  IF valid = <<>> THEN <<>>
                    ELSE <<ApplyGemini(b, valid[1], support[1])>>

=============================================================================
