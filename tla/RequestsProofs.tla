---------------------------- MODULE RequestsProofs ----------------------------
(***************************************************************************)
(* What a provider is asked to think is what the model has declared, for   *)
(* every configuration and every client.  The lemmas follow the code: what *)
(* may be asked, the two clamps, the conversion to what the model takes,   *)
(* the range, and what is written; the invariant says that the request     *)
(* prepared is the one sent and that the registry's declarations are valid.*)
(* More asked is more given, because every one of these steps keeps the    *)
(* order of what is asked.  The validation of the models leaves nothing to *)
(* refuse but the aliases of embedded ones.  And a conversation keeps what *)
(* was sent of it, because each pass over its contents looks only back.    *)
(***************************************************************************)
EXTENDS Requests, WellFoundedInduction, TLAPS

\* Of some levels, one is the nearest to a level, and the lowest of those.
LEMMA NearestExists ==
  ASSUME NEW S \in SUBSET StandardLevels, S # {}, NEW l \in StandardLevels
  PROVE  \E m \in S : \A k \in S :
           \/ Distance(l, m) < Distance(l, k)
           \/ Distance(l, m) = Distance(l, k) /\ Rank[m] <= Rank[k]
<1> DEFINE Key(m) == 8 * Distance(l, m) + Rank[m]
           T == {Key(m) : m \in S}
<1>1. \A m \in StandardLevels : Rank[m] \in 1..6
  BY DEF StandardLevels, Rank
<1>2. \A m \in S : Distance(l, m) \in Nat
  BY <1>1 DEF Distance
<1>3. T \subseteq Nat /\ T # {}
  BY <1>1, <1>2
<1>4. PICK x \in T : \A y \in T : ~ (<<y, x>> \in OpToRel(<, Nat))
  <2> HIDE DEF T
  <2> QED  BY <1>3, NatLessThanWellFounded, WFMin
<1>5. PICK m \in S : x = Key(m)
  OBVIOUS
<1>6. \A k \in S : ~ (Key(k) < Key(m))
  <2> SUFFICES ASSUME NEW k \in S, Key(k) < Key(m) PROVE FALSE
    OBVIOUS
  <2>1. Key(k) \in T /\ Key(k) \in Nat /\ x \in Nat
    BY <1>3
  <2>2. <<Key(k), x>> \in OpToRel(<, Nat)
    BY <2>1, <1>5 DEF OpToRel
  <2> QED  BY <2>1, <2>2, <1>4
<1>7. \A k \in S : \/ Distance(l, m) < Distance(l, k)
                   \/ Distance(l, m) = Distance(l, k) /\ Rank[m] <= Rank[k]
  <2> TAKE k \in S
  <2>1. /\ Rank[k] \in 1..6 /\ Rank[m] \in 1..6
        /\ Distance(l, k) \in Nat /\ Distance(l, m) \in Nat
    BY <1>1, <1>2
  <2>2. ~ (8 * Distance(l, k) + Rank[k] < 8 * Distance(l, m) + Rank[m])
    BY <1>6
  <2> QED  BY <2>1, <2>2
<1> QED  BY <1>7

\* A level is clamped to one of the model's.
LEMMA ClampLevelIsOneOfThem ==
  ASSUME NEW s \in ThinkingSupport, s.levels # <<>>, NEW l \in StandardLevels
  PROVE  ClampLevel(l, s) \in LevelsOf(s)
<1>1. s.levels \in Seq(StandardLevels)
  BY DEF ThinkingSupport
<1>2. LevelsOf(s) \in SUBSET StandardLevels /\ LevelsOf(s) # {}
  <2>1. \A i \in DOMAIN s.levels : s.levels[i] \in StandardLevels
    BY <1>1
  <2>2. 1 \in DOMAIN s.levels
    BY <1>1
  <2>3. s.levels[1] \in LevelsOf(s)
    BY <2>2 DEF LevelsOf
  <2>4. LevelsOf(s) \subseteq StandardLevels
    BY <2>1 DEF LevelsOf
  <2> QED  BY <2>3, <2>4
<1>3. CASE l \in LevelsOf(s)
  BY <1>3 DEF ClampLevel
<1>4. CASE l \notin LevelsOf(s)
  <2> DEFINE Nearest(m) == \A k \in LevelsOf(s) :
                             \/ Distance(l, m) < Distance(l, k)
                             \/ Distance(l, m) = Distance(l, k) /\ Rank[m] <= Rank[k]
  <2>1. \E m \in LevelsOf(s) : Nearest(m)
    BY <1>2, NearestExists
  <2>2. ClampLevel(l, s) = CHOOSE m \in LevelsOf(s) : Nearest(m)
    BY <1>4 DEF ClampLevel
  <2> HIDE DEF Nearest
  <2> QED  BY <2>1, <2>2
<1> QED  BY <1>3, <1>4

\* A budget the model can do.
InRange(n, s) ==
  \/ n = 0 /\ s.zero
  \/ n \in s.min..s.max /\ n > 0

\* A budget is clamped to the model's range, and to zero where the model allows it.
LEMMA ClampBudgetIsInRange ==
  ASSUME NEW s \in ThinkingSupport, TakesBudget(s), Sensible(s), NEW n \in Int, n # -1
  PROVE  InRange(ClampBudget(n, s), s)
BY DEF ThinkingSupport, TakesBudget, Sensible, ClampBudget, InRange

-----------------------------------------------------------------------------
(* What is asked, and what it is turned into. *)

\* What an optional value is.
LEMMA OptionalValue ==
  ASSUME NEW S, NEW v \in Optional(S), v # <<>>
  PROVE  v[1] \in S
<1>1. v \in Seq(S)
  BY DEF Optional
<1>2. 1 \in DOMAIN v
  BY <1>1
<1> QED  BY <1>1, <1>2

LEMMA AnOptional ==
  ASSUME NEW S, NEW x \in S
  PROVE  <<x>> \in Optional(S)
<1>1. <<x>> \in Seq(S) /\ Len(<<x>>) = 1
  OBVIOUS
<1> QED  BY <1>1 DEF Optional

\* A level that is asked for is not one of those that mean no level.
IsAsk(c) ==
  \/ c = NoThinking
  \/ c = AutoThinking
  \/ c = Asking("budget", c.budget, "") /\ c.budget \in Int \ {0, -1}
  \/ c = Asking("level", 0, c.level) /\ c.level \notin {"none", "auto", ""}

\* An ask in a mode has the mode's form.
LEMMA AskForms ==
  ASSUME NEW c, IsAsk(c)
  PROVE  /\ c.mode = "budget" => /\ c = Asking("budget", c.budget, "")
                                 /\ c.budget \in Int \ {0, -1}
         /\ c.mode = "level" => /\ c = Asking("level", 0, c.level)
                                /\ c.level \notin {"none", "auto", ""}
         /\ c.mode = "none" => c = NoThinking
         /\ c.mode = "auto" => c = AutoThinking
         /\ c.mode \in {"budget", "level", "none", "auto"}
<1>1. NoThinking.mode = "none" /\ AutoThinking.mode = "auto"
  BY DEF NoThinking, AutoThinking, Asking
<1>2. c = Asking("level", 0, c.level) => c.mode = "level"
  BY DEF Asking
<1>3. ASSUME NEW n, c = Asking("budget", n, "") PROVE c.mode = "budget"
  BY <1>3 DEF Asking
<1>4. c = Asking("budget", c.budget, "") => c.mode = "budget"
  BY <1>3
<1> QED  BY <1>1, <1>2, <1>4 DEF IsAsk

\* Whatever the body and the suffix say is an ask, or nothing.
LEMMA AskedIsAnAsk ==
  ASSUME NEW b \in ThinkingFields, NEW suffix \in SuffixType, Asked(b, suffix) # <<>>
  PROVE  IsAsk(Asked(b, suffix)[1]) \/ Asked(b, suffix) = <<Nothing>>
<1>1. \A n \in Int : IsAsk(FromBudget(n))
  BY DEF FromBudget, IsAsk, Asking
<1>2. \A l \in STRING : IsAsk(FromLevel(l)) \/ FromLevel(l) = Nothing
  BY DEF FromLevel, IsAsk, Asking
<1>3. CASE suffix # <<>>
  <2> DEFINE x == suffix[1]
  <2>1. x \in [word : STRING, number : Int]
    BY <1>3, OptionalValue DEF SuffixType
  <2>2. x.word \in STRING /\ x.number \in Int
    BY <2>1
  <2> HIDE DEF x
  <2>3. \/ SuffixConfig(x) = <<>>
        \/ SuffixConfig(x) = <<FromLevel(x.word)>>
        \/ SuffixConfig(x) = <<FromBudget(x.number)>>
    BY Zenon DEF SuffixConfig
  <2>4. Asked(b, suffix) = SuffixConfig(x)
    BY <1>3 DEF Asked, x
  <2> DEFINE asked == Asked(b, suffix)
  <2>5. \/ asked = <<FromLevel(x.word)>> /\ asked[1] = FromLevel(x.word)
        \/ asked = <<FromBudget(x.number)>> /\ asked[1] = FromBudget(x.number)
    BY <2>3, <2>4
  <2> QED  BY <1>1, <1>2, <2>2, <2>5
<1>4. CASE suffix = <<>>
  <2> DEFINE level == Either(b.thinkingLevel, b.thinking_level)
             budget == Either(b.thinkingBudget, b.thinking_budget)
  <2>1. level # <<>> => level[1] \in STRING
    <3>1. level \in Optional(STRING)
      BY DEF ThinkingFields, Either
    <3> QED  BY <3>1, OptionalValue
  <2>2. budget # <<>> => budget[1] \in Int
    <3>1. budget \in Optional(Int)
      BY DEF ThinkingFields, Either
    <3> QED  BY <3>1, OptionalValue
  <2>3. ExtractConfig(b) = IF level # <<>> THEN FromLevel(level[1])
                           ELSE IF budget # <<>> THEN FromBudget(budget[1])
                           ELSE Nothing
    BY DEF ExtractConfig
  <2>4. IsAsk(ExtractConfig(b)) \/ ExtractConfig(b) = Nothing
    <3> HIDE DEF level, budget
    <3> QED  BY <2>1, <2>2, <2>3, <1>1, <1>2
  <2>5. Asked(b, suffix) = <<ExtractConfig(b)>>
    BY <1>4 DEF Asked
  <2>6. Asked(b, suffix)[1] = ExtractConfig(b)
    BY <2>5
  <2> QED  BY <2>4, <2>5, <2>6
<1> QED  BY <1>3, <1>4

\* The kind of request is one the model takes.
Taken(c, s) ==
  /\ c.mode = "budget" => TakesBudget(s)
  /\ c.mode = "level" => TakesLevels(s)

LEMMA ToCapabilityIsTaken ==
  ASSUME NEW c, IsAsk(c), NEW s \in ThinkingSupport, Sensible(s), ToCapability(c, s) # <<>>
  PROVE  IsAsk(ToCapability(c, s)[1]) /\ Taken(ToCapability(c, s)[1], s)
<1>1. CASE c.mode = "level" /\ TakesBudget(s) /\ ~TakesLevels(s)
  <2> DEFINE l == c.level
             d == Asking("budget", LevelBudget[l], "")
  <2>1. l \notin {"none", "auto", ""}
    BY <1>1, AskForms
  <2>2. ToCapability(c, s) = <<d>> /\ l \in DOMAIN LevelBudget
    BY <1>1 DEF ToCapability
  <2>2a. l \in DOMAIN LevelBudget
    BY <2>2
  <2>3. LevelBudget[l] \in Int \ {0, -1}
    <3> HIDE DEF l
    <3>1. \A k \in DOMAIN LevelBudget :
            k \in {"none", "auto"} \/ k \in {"minimal", "low", "medium", "high", "xhigh", "max"}
      BY DEF LevelBudget
    <3>2. \A k \in {"minimal", "low", "medium", "high", "xhigh", "max"} :
            LevelBudget[k] \in Int \ {0, -1}
      BY DEF LevelBudget
    <3> QED  BY <2>1, <2>2a, <3>1, <3>2
  <2> HIDE DEF l
  <2>4. IsAsk(d) /\ Taken(d, s)
    BY <1>1, <2>3 DEF IsAsk, Asking, Taken
  <2> HIDE DEF d
  <2>5. ToCapability(c, s)[1] = d
    BY <2>2
  <2> QED  BY <2>4, <2>5
<1>2. CASE c.mode = "budget" /\ TakesLevels(s) /\ ~TakesBudget(s)
  <2> DEFINE level == ConvertBudgetToLevel(c.budget)
             l == ClampLevel(level[1], s)
             d == Asking("level", 0, l)
  <2>1. c.budget \in Int \ {0, -1}
    BY <1>2, AskForms
  <2>2. ToCapability(c, s) = IF level = <<>> THEN <<>> ELSE <<d>>
    BY <1>2 DEF ToCapability
  <2>3. level # <<>> /\ ToCapability(c, s) = <<d>>
    <3> HIDE DEF level, d
    <3> QED  BY <2>2
  <2>4. level[1] \in StandardLevels
    BY <2>1, <2>3 DEF ConvertBudgetToLevel, StandardLevels, Rank
  <2>5. l \in LevelsOf(s)
    <3> HIDE DEF level
    <3> QED  BY <1>2, <2>4, ClampLevelIsOneOfThem DEF TakesLevels
  <2> HIDE DEF l
  <2>6. l \in StandardLevels
    <3>1. s.levels \in Seq(StandardLevels)
      BY DEF ThinkingSupport
    <3>2. \A i \in DOMAIN s.levels : s.levels[i] \in StandardLevels
      BY <3>1
    <3> QED  BY <2>5, <3>2 DEF LevelsOf
  <2>7. l \notin {"none", "auto", ""}
    BY <2>6 DEF StandardLevels, Rank
  <2>8. IsAsk(d) /\ Taken(d, s)
    BY <1>2, <2>7 DEF IsAsk, Asking, Taken
  <2>9. ToCapability(c, s)[1] = d
    BY <2>3
  <2> HIDE DEF d
  <2> QED  BY <2>8, <2>9
<1>3. CASE /\ ~ (c.mode = "level" /\ TakesBudget(s) /\ ~TakesLevels(s))
           /\ ~ (c.mode = "budget" /\ TakesLevels(s) /\ ~TakesBudget(s))
  <2>1. ToCapability(c, s) = <<c>>
    BY <1>3 DEF ToCapability
  <2>2. Taken(c, s)
    BY <1>3 DEF Taken, Sensible
  <2> QED  BY <2>1, <2>2
<1> QED  BY <1>1, <1>2, <1>3

\* A level that gets through is one of the model's, and nothing else is changed.
LEMMA ToLevelsIsALevel ==
  ASSUME NEW c, IsAsk(c), NEW s \in ThinkingSupport, Taken(c, s), NEW lenient \in BOOLEAN,
         ToLevels(c, s, lenient) # <<>>
  PROVE  LET d == ToLevels(c, s, lenient)[1]
         IN  \/ c.mode # "level" /\ d = c
             \/ d.mode = "level" /\ d.level \in LevelsOf(s)
<1>1. CASE c.mode # "level"
  BY <1>1 DEF ToLevels
<1>2. CASE c.mode = "level" /\ c.level \in LevelsOf(s)
  BY <1>2 DEF ToLevels
<1>3. CASE c.mode = "level" /\ c.level \notin LevelsOf(s)
  <2> DEFINE m == ClampLevel(c.level, s)
  <2>1. TakesLevels(s)
    BY <1>3 DEF Taken
  <2>2. m \in LevelsOf(s) /\ ToLevels(c, s, lenient) = <<[c EXCEPT !.level = m]>>
    BY <1>3, <2>1 DEF ToLevels
  <2>3. c = Asking("level", 0, c.level)
    BY <1>3, AskForms
  <2> HIDE DEF m
  <2>4. [c EXCEPT !.level = m] = Asking("level", 0, m)
    BY <2>3 DEF Asking
  <2> QED  BY <2>2, <2>4 DEF Asking
<1> QED  BY <1>1, <1>2, <1>3

\* A configuration that is fit to be written for a model.
Fit(c, s) ==
  /\ c.mode \in {"budget", "level", "none", "auto"}
  /\ c.mode = "level" \/ (c.mode = "none" /\ TakesLevels(s)) => c.level \in LevelsOf(s)
  /\ c.mode = "budget" \/ (c.mode = "none" /\ ~TakesLevels(s)) => InRange(c.budget, s)
  /\ c.mode = "auto" => s.dynamic /\ c.budget = -1

LEMMA FitForms ==
  ASSUME NEW s, NEW n, InRange(n, s)
  PROVE  /\ Fit(Asking("budget", n, ""), s)
         /\ ~TakesLevels(s) => Fit(Asking("none", n, ""), s)
<1> DEFINE a == Asking("budget", n, "")
           b == Asking("none", n, "")
<1>1. a.mode = "budget" /\ a.budget = n /\ b.mode = "none" /\ b.budget = n
  BY Zenon DEF Asking
<1> HIDE DEF a, b
<1>2. Fit(a, s) /\ (~TakesLevels(s) => Fit(b, s))
  BY <1>1 DEF Fit
<1> QED  BY <1>2 DEF a, b

\* Auto and the ranges make it fit.
LEMMA ToRangeIsFit ==
  ASSUME NEW c, NEW s \in ThinkingSupport, Sensible(s),
         \/ c.mode = "level" /\ c.level \in LevelsOf(s)
         \/ c.mode # "level" /\ IsAsk(c) /\ Taken(c, s)
  PROVE  Fit(ToRange(c, s), s)
<1> DEFINE chosen == IF c.mode = "auto" /\ ~s.dynamic THEN ConvertAutoToMidRange(c, s) ELSE c
           inRange == IF chosen.mode = "level" THEN chosen
                      ELSE [chosen EXCEPT !.budget = ClampBudget(@, s)]
<1>1. /\ s.min \in Nat /\ s.max \in Nat /\ s.zero \in BOOLEAN /\ s.dynamic \in BOOLEAN
      /\ s.levels \in Seq(StandardLevels)
  BY DEF ThinkingSupport
<1>2. TakesLevels(s) => s.levels[1] \in LevelsOf(s)
  BY <1>1 DEF TakesLevels, LevelsOf
<1>3. \A l \in LevelsOf(s) : l # ""
  <2>1. \A i \in DOMAIN s.levels : s.levels[i] \in StandardLevels
    BY <1>1
  <2>2. \A l \in StandardLevels : l # ""
    BY DEF StandardLevels, Rank
  <2> QED  BY <2>1, <2>2 DEF LevelsOf
<1>4. \/ chosen.mode = "level" /\ chosen.level \in LevelsOf(s)
      \/ chosen.mode = "auto" /\ chosen = AutoThinking /\ s.dynamic
      \/ chosen.mode = "none" /\ chosen = NoThinking
      \/ \E n \in Int \ {-1} : chosen = Asking("budget", n, "") /\ TakesBudget(s)
  <2>1. CASE c.mode = "level"
    BY <2>1
  <2>2. CASE c.mode = "none"
    BY <2>2, AskForms
  <2>3. CASE c.mode = "budget"
    <3>1. c = Asking("budget", c.budget, "") /\ c.budget \in Int \ {0, -1}
      BY <2>3, AskForms
    <3> QED  BY <2>3, <3>1 DEF Taken
  <2>4. CASE c.mode = "auto" /\ s.dynamic
    BY <2>4, AskForms
  <2>5. CASE c.mode = "auto" /\ ~s.dynamic
    <3> DEFINE mid == (s.min + s.max) \div 2
    <3>a. c = AutoThinking
      BY <2>5, AskForms
    <3>b. AutoThinking.level = ""
      BY DEF AutoThinking, Asking
    <3>1. chosen = ConvertAutoToMidRange(c, s) /\ c.level = ""
      BY <2>5, <3>a, <3>b
    <3>2. CASE ~TakesBudget(s)
      <4>1. TakesLevels(s) /\ "medium" \in LevelsOf(s)
        BY <3>2, <2>5 DEF Sensible
      <4>2. chosen = Asking("level", 0, "medium")
        BY <3>1, <3>2, <4>1 DEF ConvertAutoToMidRange
      <4> HIDE DEF chosen
      <4>3. chosen.mode = "level" /\ chosen.level = "medium"
        BY <4>2 DEF Asking
      <4> QED  BY <4>1, <4>3
    <3>3. CASE TakesBudget(s)
      <4>1. mid \in Nat
        BY <1>1
      <4>2. \/ chosen = Asking("budget", mid, "")
            \/ chosen = NoThinking
            \/ chosen = Asking("budget", s.min, "")
        BY <3>1, <3>3 DEF ConvertAutoToMidRange, NoThinking
      <4>3. NoThinking.mode = "none"
        BY DEF NoThinking, Asking
      <4>4. mid \in Int \ {-1} /\ s.min \in Int \ {-1}
        BY <4>1, <1>1
      <4> HIDE DEF chosen, mid
      <4> QED  BY <4>2, <4>3, <4>4, <3>3
    <3> QED  BY <3>2, <3>3
  <2> QED  BY <2>1, <2>2, <2>3, <2>4, <2>5, AskForms
<1> HIDE DEF chosen
<1>5. ToRange(c, s) = IF inRange.mode = "none" /\ TakesLevels(s) /\ inRange.level = ""
                      THEN [inRange EXCEPT !.level = s.levels[1]] ELSE inRange
  BY DEF ToRange, chosen
<1>6. CASE chosen.mode = "level" /\ chosen.level \in LevelsOf(s)
  <2>1. inRange = chosen /\ ToRange(c, s) = chosen
    BY <1>5, <1>6
  <2> QED  BY <1>6, <2>1 DEF Fit
<1>7. CASE chosen.mode = "auto" /\ chosen = AutoThinking /\ s.dynamic
  <2>1. inRange = AutoThinking
    BY <1>7 DEF ClampBudget, AutoThinking, Asking
  <2>2. AutoThinking.mode = "auto" /\ AutoThinking.budget = -1
    BY DEF AutoThinking, Asking
  <2>3. ToRange(c, s) = AutoThinking
    <3> HIDE DEF inRange
    <3> QED  BY <1>5, <2>1, <2>2
  <2> QED  BY <1>7, <2>2, <2>3 DEF Fit
<1>8. CASE chosen.mode = "none" /\ chosen = NoThinking
  <2> DEFINE n == ClampBudget(0, s)
  <2>1. inRange = Asking("none", n, "")
    BY <1>8 DEF NoThinking, Asking
  <2>2. TakesBudget(s) => InRange(n, s)
    BY ClampBudgetIsInRange
  <2> HIDE DEF n, inRange
  <2>3. CASE TakesLevels(s)
    <3>1. ToRange(c, s) = Asking("none", n, s.levels[1])
      BY <1>5, <2>1, <2>3 DEF Asking
    <3> DEFINE r == ToRange(c, s)
    <3> HIDE DEF r
    <3>2. r.mode = "none" /\ r.level = s.levels[1]
      BY <3>1 DEF Asking, r
    <3>3. Fit(r, s)
      BY <1>2, <2>3, <3>2 DEF Fit
    <3> QED  BY <3>3 DEF r
  <2>4. CASE ~TakesLevels(s)
    <3>1. ToRange(c, s) = Asking("none", n, "")
      BY <1>5, <2>1, <2>4
    <3>2. Fit(Asking("none", n, ""), s)
      BY <2>2, <2>4, FitForms DEF Sensible
    <3> QED  BY <3>1, <3>2, Zenon
  <2> QED  BY <2>3, <2>4
<1>9. ASSUME NEW n \in Int \ {-1}, chosen = Asking("budget", n, ""), TakesBudget(s)
      PROVE  Fit(ToRange(c, s), s)
  <2> DEFINE k == ClampBudget(n, s)
  <2>1. inRange = Asking("budget", k, "")
    BY <1>9 DEF Asking
  <2>2. InRange(k, s)
    BY <1>9, ClampBudgetIsInRange
  <2> HIDE DEF k, inRange
  <2>3. ToRange(c, s) = Asking("budget", k, "")
    BY <1>5, <2>1 DEF Asking
  <2>4. Fit(Asking("budget", k, ""), s)
    BY <2>2, FitForms
  <2> QED  BY <2>3, <2>4, Zenon
<1> QED  BY <1>4, <1>6, <1>7, <1>8, <1>9

\* What the validation lets through is fit for the model.
LEMMA ValidIsFit ==
  ASSUME NEW c, IsAsk(c), NEW s \in ThinkingSupport, Sensible(s),
         NEW strict \in BOOLEAN, NEW fromSuffix \in BOOLEAN,
         ValidateConfig(c, s, strict, fromSuffix) # <<>>
  PROVE  Fit(ValidateConfig(c, s, strict, fromSuffix)[1], s)
<1> DEFINE demanding == strict /\ ~fromSuffix
           kind == ToCapability(c, s)
           level == IF kind = <<>> THEN <<>> ELSE ToLevels(kind[1], s, ~demanding)
           valid == ValidateConfig(c, s, strict, fromSuffix)
<1>1. valid = IF level = <<>> \/ (demanding /\ OutOfRange(c, level[1], s)) THEN <<>>
              ELSE <<ToRange(level[1], s)>>
  BY DEF ValidateConfig
<1> HIDE DEF valid, kind
<1>2. level # <<>> /\ valid = <<ToRange(level[1], s)>>
  <2> HIDE DEF level, demanding
  <2> QED  BY <1>1 DEF valid
<1>3. kind # <<>> /\ level = ToLevels(kind[1], s, ~demanding)
  BY <1>2
<1>4. IsAsk(kind[1]) /\ Taken(kind[1], s)
  BY <1>3, ToCapabilityIsTaken DEF kind
<1>5. \/ kind[1].mode # "level" /\ level[1] = kind[1]
      \/ level[1].mode = "level" /\ level[1].level \in LevelsOf(s)
  <2>1. (~demanding) \in BOOLEAN
    OBVIOUS
  <2> HIDE DEF level, demanding
  <2> QED  BY <1>2, <1>3, <1>4, <2>1, ToLevelsIsALevel
<1> HIDE DEF level
<1>6. Fit(ToRange(level[1], s), s)
  BY <1>4, <1>5, ToRangeIsFit
<1>7. valid[1] = ToRange(level[1], s)
  BY <1>2
<1> QED  BY <1>6, <1>7 DEF valid

\* What is fit is written as something the model supports.
LEMMA WrittenIsSupported ==
  ASSUME NEW b \in ThinkingFields, NEW c, NEW s \in ThinkingSupport, Fit(c, s)
  PROVE  Supported(ApplyGemini(b, c, s), s)
<1> DEFINE r == ApplyGemini(b, c, s)
<1>1. CASE c.mode = "level" \/ (c.mode = "none" /\ TakesLevels(s))
  <2>1. r = LevelFormat(b, c)
    BY <1>1 DEF ApplyGemini
  <2>2. /\ r.thinking_level = <<>> /\ r.thinking_budget = <<>> /\ r.include_thoughts = <<>>
        /\ r.thinkingBudget = <<>>
        /\ r.thinkingLevel = <<ThinkingLevelToAPIEnum(c.level)>>
    BY <2>1 DEF LevelFormat, NoFields
  <2>3. r.thinkingLevel[1] = ThinkingLevelToAPIEnum(c.level)
    BY <2>2
  <2>4. c.level \in LevelsOf(s)
    BY <1>1 DEF Fit
  <2> HIDE DEF r
  <2>5. r.thinkingLevel[1] \in {ThinkingLevelToAPIEnum(l) : l \in LevelsOf(s)}
    BY <2>3, <2>4
  <2> QED  BY <2>2, <2>5 DEF Supported, r
<1>2. CASE ~ (c.mode = "level" \/ (c.mode = "none" /\ TakesLevels(s)))
  <2>1. r = BudgetFormat(b, c)
    BY <1>2 DEF ApplyGemini
  <2>2. /\ r.thinking_level = <<>> /\ r.thinking_budget = <<>> /\ r.include_thoughts = <<>>
        /\ r.thinkingLevel = <<>>
        /\ r.thinkingBudget = <<c.budget>>
    BY <2>1 DEF BudgetFormat, NoFields
  <2>3. r.thinkingBudget[1] = c.budget
    BY <2>2
  <2>4. InRange(c.budget, s) \/ (s.dynamic /\ c.budget = -1)
    BY <1>2 DEF Fit
  <2> HIDE DEF r
  <2> QED  BY <2>2, <2>3, <2>4 DEF Supported, InRange, r
<1> QED  BY <1>1, <1>2

\* Whatever is asked for, a model that declares its thinking is sent something it supports.
LEMMA AppliedIsSupported ==
  ASSUME NEW b \in ThinkingFields, NEW suffix \in SuffixType,
         NEW support \in Optional(ThinkingSupport), NEW strict \in BOOLEAN,
         support # <<>>, Sensible(support[1]), Asked(b, suffix) # <<Nothing>>,
         ApplyThinking(b, suffix, support, FALSE, strict) # <<>>
  PROVE  Supported(ApplyThinking(b, suffix, support, FALSE, strict)[1], support[1])
<1> DEFINE asked == Asked(b, suffix)
           valid == ValidateConfig(asked[1], support[1], strict, suffix # <<>>)
           applied == ApplyThinking(b, suffix, support, FALSE, strict)
<1>1. support[1] \in ThinkingSupport
  BY OptionalValue
<1>2. applied =
        IF asked = <<>> THEN <<>>
        ELSE IF ~HasThinkingConfig(asked[1]) THEN <<b>>
        ELSE IF valid = <<>> THEN <<>>
        ELSE <<ApplyGemini(b, valid[1], support[1])>>
  BY DEF ApplyThinking
<1> HIDE DEF applied, valid
<1>3. asked # <<>> /\ IsAsk(asked[1])
  BY <1>2, AskedIsAnAsk DEF applied
<1>4. HasThinkingConfig(asked[1])
  <2>1. Nothing.mode = "budget" /\ Nothing.budget = 0
    BY DEF Nothing, Asking
  <2> HIDE DEF asked
  <2> QED  BY <1>3, <2>1, AskForms DEF HasThinkingConfig
<1>5. valid # <<>> /\ applied = <<ApplyGemini(b, valid[1], support[1])>>
  <2> HIDE DEF asked
  <2> QED  BY <1>2, <1>3, <1>4 DEF applied
<1>6. Fit(valid[1], support[1])
  <2>1. (suffix # <<>>) \in BOOLEAN
    OBVIOUS
  <2> HIDE DEF asked
  <2> QED  BY <1>1, <1>3, <1>5, <2>1, ValidIsFit DEF valid
<1>7. applied[1] = ApplyGemini(b, valid[1], support[1])
  BY <1>5
<1> QED  BY <1>1, <1>6, <1>7, WrittenIsSupported DEF applied

-----------------------------------------------------------------------------
(* More asked, more given.                                                 *)

\* An ask that can be compared with others.
Comparable(c) ==
  /\ c.mode \in {"none", "budget", "level"}
  /\ c.mode = "budget" => c.budget > 0
  /\ c.mode = "level" => c.level \in StandardLevels

\* An ask as a budget, and as the level that a model with levels makes of it.
Amount(c) == IF c.mode = "level" THEN LevelBudget[c.level] ELSE c.budget

LevelFor(c, s) ==
  IF c.mode = "none" THEN s.levels[1]
  ELSE ClampLevel(IF c.mode = "level" THEN c.level ELSE ConvertBudgetToLevel(c.budget)[1], s)

\* The ask is given as a level.
AsLevel(c, s) == IF c.mode = "budget" THEN ~TakesBudget(s) ELSE TakesLevels(s)

\* The ranks, and what keeps their order: the budgets of the levels and their names upstream.
LEMMA RanksAreNumbers ==
  /\ StandardLevels = {"minimal", "low", "medium", "high", "xhigh", "max"}
  /\ \A l \in StandardLevels : Rank[l] \in 1..6
BY DEF StandardLevels, Rank

LEMMA LevelBudgetsGrow ==
  ASSUME NEW l \in StandardLevels, NEW m \in StandardLevels, Rank[l] <= Rank[m]
  PROVE  LevelBudget[l] \in Nat \ {0} /\ LevelBudget[l] <= LevelBudget[m]
BY RanksAreNumbers DEF LevelBudget, Rank

LEMMA NamesGrow ==
  ASSUME NEW l \in StandardLevels, NEW m \in StandardLevels, Rank[l] <= Rank[m]
  PROVE  Rank[ThinkingLevelToAPIEnum(l)] <= Rank[ThinkingLevelToAPIEnum(m)]
BY RanksAreNumbers DEF ThinkingLevelToAPIEnum, Rank

\* No level of the model's is nearer to l than m, and none as near is lower.
IsNearest(l, m, s) ==
  \A k \in LevelsOf(s) :
    \/ Distance(l, m) < Distance(l, k)
    \/ Distance(l, m) = Distance(l, k) /\ Rank[m] <= Rank[k]

LEMMA ClampLevelIsNearest ==
  ASSUME NEW s \in ThinkingSupport, s.levels # <<>>, NEW l \in StandardLevels
  PROVE  IsNearest(l, ClampLevel(l, s), s)
<1>1. LevelsOf(s) \in SUBSET StandardLevels
  <2>1. s.levels \in Seq(StandardLevels)
    BY DEF ThinkingSupport
  <2>2. \A i \in DOMAIN s.levels : s.levels[i] \in StandardLevels
    BY <2>1
  <2> QED  BY <2>2 DEF LevelsOf
<1>2. CASE l \in LevelsOf(s)
  <2>1. ClampLevel(l, s) = l
    BY <1>2 DEF ClampLevel
  <2>2. \A k \in StandardLevels : Rank[k] \in 1..6
    BY RanksAreNumbers
  <2>3. IsNearest(l, l, s)
    <3> SUFFICES ASSUME NEW k \in LevelsOf(s)
                 PROVE  \/ Distance(l, l) < Distance(l, k)
                        \/ Distance(l, l) = Distance(l, k) /\ Rank[l] <= Rank[k]
      BY DEF IsNearest
    <3>1. Rank[k] \in Int /\ Rank[l] \in Int
      BY <1>1, <2>2
    <3> QED  BY <3>1 DEF Distance
  <2> QED  BY <2>1, <2>3
<1>3. CASE l \notin LevelsOf(s)
  <2> DEFINE Nearest(m) == \A k \in LevelsOf(s) :
                             \/ Distance(l, m) < Distance(l, k)
                             \/ Distance(l, m) = Distance(l, k) /\ Rank[m] <= Rank[k]
  <2>1. LevelsOf(s) # {}
    BY ClampLevelIsOneOfThem
  <2>2. \E m \in LevelsOf(s) : Nearest(m)
    BY <1>1, <2>1, NearestExists
  <2>3. ClampLevel(l, s) = CHOOSE m \in LevelsOf(s) : Nearest(m)
    BY <1>3 DEF ClampLevel
  <2>5. \A m : Nearest(m) <=> IsNearest(l, m, s)
    BY DEF IsNearest
  <2> HIDE DEF Nearest
  <2>4. Nearest(ClampLevel(l, s))
    BY <2>2, <2>3
  <2> QED  BY <2>4, <2>5
<1> QED  BY <1>2, <1>3

\* The nearest of two numbers to a larger number is not the smaller one.
Apart(x, y) == IF x < y THEN y - x ELSE x - y

LEMMA NearestGrows ==
  ASSUME NEW a \in Int, NEW b \in Int, NEW m \in Int, NEW k \in Int, a <= b,
         Apart(a, m) < Apart(a, k) \/ (Apart(a, m) = Apart(a, k) /\ m <= k),
         Apart(b, k) < Apart(b, m) \/ (Apart(b, k) = Apart(b, m) /\ k <= m)
  PROVE  m <= k
BY DEF Apart

\* The clamps and the conversion from budgets keep the order.
LEMMA ClampLevelGrows ==
  ASSUME NEW s \in ThinkingSupport, s.levels # <<>>,
         NEW l \in StandardLevels, NEW h \in StandardLevels, Rank[l] <= Rank[h]
  PROVE  Rank[ClampLevel(l, s)] <= Rank[ClampLevel(h, s)]
<1> DEFINE m == ClampLevel(l, s)
           k == ClampLevel(h, s)
<1>1. m \in LevelsOf(s) /\ k \in LevelsOf(s)
  BY ClampLevelIsOneOfThem
<1>2. m \in StandardLevels /\ k \in StandardLevels
  <2>1. s.levels \in Seq(StandardLevels)
    BY DEF ThinkingSupport
  <2>2. \A i \in DOMAIN s.levels : s.levels[i] \in StandardLevels
    BY <2>1
  <2> HIDE DEF m, k
  <2> QED  BY <1>1, <2>2 DEF LevelsOf
<1>3. IsNearest(l, m, s) /\ IsNearest(h, k, s)
  BY ClampLevelIsNearest
<1> HIDE DEF m, k
<1>4. /\ \/ Distance(l, m) < Distance(l, k)
         \/ Distance(l, m) = Distance(l, k) /\ Rank[m] <= Rank[k]
      /\ \/ Distance(h, k) < Distance(h, m)
         \/ Distance(h, k) = Distance(h, m) /\ Rank[k] <= Rank[m]
  BY <1>1, <1>3 DEF IsNearest
<1>5. Rank[l] \in Int /\ Rank[h] \in Int /\ Rank[m] \in Int /\ Rank[k] \in Int
  BY <1>2, RanksAreNumbers
<1>6. /\ Distance(l, m) = Apart(Rank[l], Rank[m]) /\ Distance(l, k) = Apart(Rank[l], Rank[k])
      /\ Distance(h, m) = Apart(Rank[h], Rank[m]) /\ Distance(h, k) = Apart(Rank[h], Rank[k])
  BY DEF Distance, Apart
<1>7. Rank[m] <= Rank[k]
  BY <1>4, <1>5, <1>6, NearestGrows
<1> QED  BY <1>7 DEF m, k

LEMMA ClampBudgetGrows ==
  ASSUME NEW s \in ThinkingSupport, TakesBudget(s), Sensible(s),
         NEW m \in Nat, NEW n \in Nat, m <= n
  PROVE  ClampBudget(m, s) <= ClampBudget(n, s)
BY DEF ThinkingSupport, TakesBudget, Sensible, ClampBudget

LEMMA ConvertGrows ==
  ASSUME NEW m \in Int, NEW n \in Int, 0 < m, m <= n
  PROVE  /\ ConvertBudgetToLevel(m) # <<>> /\ ConvertBudgetToLevel(n) # <<>>
         /\ ConvertBudgetToLevel(m)[1] \in StandardLevels
         /\ ConvertBudgetToLevel(n)[1] \in StandardLevels
         /\ Rank[ConvertBudgetToLevel(m)[1]] <= Rank[ConvertBudgetToLevel(n)[1]]
BY DEF ConvertBudgetToLevel, StandardLevels, Rank

\* A budget or a level that the model takes is only clamped.
LEMMA ToRangeOfAsked ==
  ASSUME NEW c, NEW s
  PROVE  /\ \A n \in Nat : c = Asking("budget", n, "") =>
              ToRange(c, s) = Asking("budget", ClampBudget(n, s), "")
         /\ \A l : c = Asking("level", 0, l) => ToRange(c, s) = c
         /\ c = NoThinking =>
              ToRange(c, s) =
                Asking("none", ClampBudget(0, s), IF TakesLevels(s) THEN s.levels[1] ELSE "")
<1> DEFINE chosen == IF c.mode = "auto" /\ ~s.dynamic THEN ConvertAutoToMidRange(c, s) ELSE c
           inRange == IF chosen.mode = "level" THEN chosen
                      ELSE [chosen EXCEPT !.budget = ClampBudget(@, s)]
<1>1. ToRange(c, s) = IF inRange.mode = "none" /\ TakesLevels(s) /\ inRange.level = ""
                      THEN [inRange EXCEPT !.level = s.levels[1]] ELSE inRange
  BY DEF ToRange
<1>2. c.mode # "auto" => chosen = c
  OBVIOUS
<1> HIDE DEF chosen
<1>3. ASSUME NEW n \in Nat, c = Asking("budget", n, "")
      PROVE  ToRange(c, s) = Asking("budget", ClampBudget(n, s), "")
  <2> DEFINE k == ClampBudget(n, s)
  <2>1. c.mode = "budget"
    BY <1>3 DEF Asking
  <2>2. chosen = Asking("budget", n, "")
    BY <1>2, <1>3, <2>1
  <2>3. inRange = Asking("budget", k, "")
    BY <2>2 DEF Asking
  <2> HIDE DEF inRange, k
  <2>4. inRange.mode = "budget"
    BY <2>3 DEF Asking
  <2> QED  BY <1>1, <2>3, <2>4 DEF k
<1>4. ASSUME NEW l, c = Asking("level", 0, l)
      PROVE  ToRange(c, s) = c
  <2>1. c.mode = "level"
    BY <1>4 DEF Asking
  <2>2. c.mode = "level" /\ chosen = c
    BY <1>2, <2>1
  <2>3. inRange = c
    BY <2>2
  <2> HIDE DEF inRange
  <2> QED  BY <1>1, <2>2, <2>3
<1>5. ASSUME c = NoThinking
      PROVE  ToRange(c, s) =
               Asking("none", ClampBudget(0, s), IF TakesLevels(s) THEN s.levels[1] ELSE "")
  <2> DEFINE z == ClampBudget(0, s)
  <2>1. c = Asking("none", 0, "")
    BY <1>5 DEF NoThinking
  <2>2. c.mode = "none"
    BY <2>1 DEF Asking
  <2>3. chosen = Asking("none", 0, "")
    BY <1>2, <2>1, <2>2
  <2>4. inRange = Asking("none", z, "")
    BY <2>3 DEF Asking
  <2> HIDE DEF inRange, z
  <2>5. inRange.mode = "none" /\ inRange.level = ""
    BY <2>4 DEF Asking
  <2>6. TakesLevels(s) => ToRange(c, s) = Asking("none", z, s.levels[1])
    BY <1>1, <2>4, <2>5 DEF Asking
  <2>7. ~TakesLevels(s) => ToRange(c, s) = Asking("none", z, "")
    BY <1>1, <2>4
  <2> QED  BY <2>6, <2>7 DEF z
<1> QED  BY <1>3, <1>4, <1>5

\* What the validation makes of an ask that can be compared.
Becomes(c, s, level) ==
  LET v == ToRange(level, s)
  IN  /\ AsLevel(c, s) => /\ v.mode = "level" \/ (v.mode = "none" /\ TakesLevels(s))
                          /\ v.level = LevelFor(c, s)
      /\ ~AsLevel(c, s) => /\ ~ (v.mode = "level" \/ (v.mode = "none" /\ TakesLevels(s)))
                           /\ v.budget = ClampBudget(Amount(c), s)

\* A level that the model takes, a budget that it takes, and no thinking become what they should.
LEMMA LevelsBecome ==
  ASSUME NEW c, NEW s, AsLevel(c, s), NEW d,
         c.mode # "none", d = Asking("level", 0, LevelFor(c, s))
  PROVE  Becomes(c, s, d)
<1>1. ToRange(d, s) = d
  BY ToRangeOfAsked
<1> DEFINE l == LevelFor(c, s)
<1>2. d = Asking("level", 0, l)
  OBVIOUS
<1> HIDE DEF l
<1>3. d.mode = "level" /\ d.level = l
  BY <1>2 DEF Asking
<1> QED  BY <1>1, <1>3 DEF Becomes, l

LEMMA BudgetsBecome ==
  ASSUME NEW c, NEW s, ~AsLevel(c, s), NEW d, Amount(c) \in Nat,
         d = Asking("budget", Amount(c), "")
  PROVE  Becomes(c, s, d)
<1> DEFINE k == ClampBudget(Amount(c), s)
           v == ToRange(d, s)
<1>1. v = Asking("budget", k, "")
  BY ToRangeOfAsked
<1> HIDE DEF k, v
<1>2. v.mode = "budget" /\ v.budget = k
  BY <1>1 DEF Asking
<1> QED  BY <1>2 DEF Becomes, k, v

LEMMA NothingBecomes ==
  ASSUME NEW c, NEW s, c = NoThinking
  PROVE  Becomes(c, s, c)
<1> DEFINE k == ClampBudget(0, s)
           v == ToRange(c, s)
           l == IF TakesLevels(s) THEN s.levels[1] ELSE ""
<1>1. v = Asking("none", k, l)
  BY ToRangeOfAsked
<1>2. c.mode = "none" /\ c.budget = 0
  BY DEF NoThinking, Asking
<1>3. /\ AsLevel(c, s) <=> TakesLevels(s)
      /\ Amount(c) = 0 /\ LevelFor(c, s) = s.levels[1]
  BY <1>2 DEF AsLevel, Amount, LevelFor
<1> HIDE DEF k, v, l
<1>4. v.mode = "none" /\ v.budget = k /\ v.level = l
  BY <1>1 DEF Asking
<1> QED  BY <1>3, <1>4 DEF Becomes, k, v, l

\* The five cases: no thinking, a budget and a level, for models with and without them.
LEMMA ValidBecomes ==
  ASSUME NEW c, IsAsk(c), Comparable(c), NEW s \in ThinkingSupport, Sensible(s),
         NEW strict \in BOOLEAN, NEW fromSuffix \in BOOLEAN,
         ValidateConfig(c, s, strict, fromSuffix) # <<>>
  PROVE  \E d : ValidateConfig(c, s, strict, fromSuffix)[1] = ToRange(d, s) /\ Becomes(c, s, d)
<1> DEFINE demanding == strict /\ ~fromSuffix
           kind == ToCapability(c, s)
           level == IF kind = <<>> THEN <<>> ELSE ToLevels(kind[1], s, ~demanding)
           valid == ValidateConfig(c, s, strict, fromSuffix)
<1>1. valid = IF level = <<>> \/ (demanding /\ OutOfRange(c, level[1], s)) THEN <<>>
              ELSE <<ToRange(level[1], s)>>
  BY DEF ValidateConfig
<1> HIDE DEF valid, kind, demanding
<1>2. level # <<>> /\ valid = <<ToRange(level[1], s)>>
  <2> HIDE DEF level
  <2> QED  BY <1>1 DEF valid
<1>3. kind # <<>> /\ level = ToLevels(kind[1], s, ~demanding)
  BY <1>2
<1> HIDE DEF level
<1>4. valid[1] = ToRange(level[1], s)
  BY <1>2
<1>5. ASSUME NEW d, kind = <<d>>, d.mode # "level" \/ ~TakesLevels(s) \/ d.level \in LevelsOf(s)
      PROVE  level[1] = d
  BY <1>3, <1>5 DEF ToLevels
<1>6. CASE c.mode = "none"
  <2>1. c = NoThinking
    BY <1>6, AskForms
  <2>2. kind = <<c>>
    BY <1>6 DEF kind, ToCapability
  <2> QED  BY <1>4, <1>5, <1>6, <2>1, <2>2, NothingBecomes DEF valid
<1>7. CASE c.mode = "budget" /\ TakesBudget(s)
  <2>1. c.budget \in Int /\ c.budget > 0
    BY <1>7, AskForms DEF Comparable
  <2>2. c = Asking("budget", c.budget, "") /\ c.budget \in Nat
    <3>1. c.budget \in Nat
      BY <2>1
    <3> QED  BY <1>7, <3>1, AskForms
  <2>3. kind = <<c>>
    BY <1>7 DEF kind, ToCapability
  <2>4. ~AsLevel(c, s) /\ Amount(c) = c.budget
    BY <1>7 DEF AsLevel, Amount
  <2>5. Becomes(c, s, c)
    BY <2>2, <2>4, BudgetsBecome
  <2> QED  BY <1>4, <1>5, <1>7, <2>3, <2>5 DEF valid
<1>8. CASE c.mode = "budget" /\ ~TakesBudget(s)
  <2> DEFINE n == ConvertBudgetToLevel(c.budget)
             l == ClampLevel(n[1], s)
             d == Asking("level", 0, l)
  <2>1. TakesLevels(s)
    BY <1>8 DEF Sensible
  <2>2. c.budget \in Int /\ c.budget > 0
    BY <1>8, AskForms DEF Comparable
  <2>3. n # <<>> /\ n[1] \in StandardLevels
    BY <2>2, ConvertGrows
  <2>4. kind = IF n = <<>> THEN <<>> ELSE <<d>>
    BY <1>8, <2>1 DEF kind, ToCapability
  <2>5. l \in LevelsOf(s)
    <3> HIDE DEF n
    <3> QED  BY <2>1, <2>3, ClampLevelIsOneOfThem DEF TakesLevels
  <2>6. AsLevel(c, s) /\ LevelFor(c, s) = l
    BY <1>8 DEF AsLevel, LevelFor
  <2> HIDE DEF n, l
  <2>7. kind = <<d>> /\ d.level = l
    BY <2>3, <2>4 DEF Asking
  <2>8. Becomes(c, s, d)
    BY <1>8, <2>6, LevelsBecome
  <2> HIDE DEF d
  <2>9. level[1] = d
    BY <1>5, <2>5, <2>7
  <2> QED  BY <1>4, <2>8, <2>9 DEF valid
<1>9. CASE c.mode = "level" /\ TakesLevels(s)
  <2> DEFINE m == ClampLevel(c.level, s)
  <2>1. c = Asking("level", 0, c.level) /\ c.level \in StandardLevels
    BY <1>9, AskForms DEF Comparable
  <2>2. kind = <<c>>
    BY <1>9 DEF kind, ToCapability
  <2>3. AsLevel(c, s) /\ LevelFor(c, s) = m
    BY <1>9 DEF AsLevel, LevelFor
  <2>4. level[1] = Asking("level", 0, m)
    <3>1. CASE c.level \in LevelsOf(s)
      <4>1. m = c.level
        BY <3>1 DEF ClampLevel
      <4>2. level[1] = c
        BY <1>5, <2>2, <3>1
      <4> QED  BY <2>1, <4>1, <4>2
    <3>2. CASE c.level \notin LevelsOf(s)
      <4>1. level = <<[c EXCEPT !.level = m]>>
        BY <1>2, <1>3, <1>9, <2>2, <3>2 DEF ToLevels
      <4> HIDE DEF m
      <4>2. [c EXCEPT !.level = m] = Asking("level", 0, m)
        BY <2>1 DEF Asking
      <4> QED  BY <4>1, <4>2
    <3> QED  BY <3>1, <3>2
  <2>5. Becomes(c, s, level[1])
    BY <1>9, <2>3, <2>4, LevelsBecome
  <2> QED  BY <1>4, <2>5 DEF valid
<1>10. CASE c.mode = "level" /\ ~TakesLevels(s)
  <2> DEFINE n == LevelBudget[c.level]
             d == Asking("budget", n, "")
  <2>1. TakesBudget(s) /\ c.level \in StandardLevels
    BY <1>10 DEF Sensible, Comparable
  <2>2. n \in Nat
    <3>1. Rank[c.level] <= Rank[c.level]
      BY <2>1, RanksAreNumbers
    <3> QED  BY <2>1, <3>1, LevelBudgetsGrow
  <2>3. ~AsLevel(c, s) /\ Amount(c) = n
    BY <1>10 DEF AsLevel, Amount
  <2>4. kind = <<d>>
    BY <1>3, <1>10, <2>1 DEF kind, ToCapability
  <2> HIDE DEF n
  <2>5. Becomes(c, s, d)
    BY <2>2, <2>3, BudgetsBecome
  <2> HIDE DEF d
  <2>6. level[1] = d
    BY <1>5, <1>10, <2>4
  <2> QED  BY <1>4, <2>5, <2>6 DEF valid
<1> QED  BY <1>6, <1>7, <1>8, <1>9, <1>10 DEF Comparable

\* What is written is the clamped level or the clamped budget.
GivenAs(w, c, s) ==
  /\ AsLevel(c, s) => /\ w.thinkingBudget = <<>>
                      /\ w.thinkingLevel = <<ThinkingLevelToAPIEnum(LevelFor(c, s))>>
  /\ ~AsLevel(c, s) => /\ w.thinkingLevel = <<>>
                       /\ w.thinkingBudget = <<ClampBudget(Amount(c), s)>>

\* It is written as what it has become.
LEMMA BecomesGiven ==
  ASSUME NEW b, NEW c, NEW s, NEW d, Becomes(c, s, d)
  PROVE  GivenAs(ApplyGemini(b, ToRange(d, s), s), c, s)
<1> DEFINE v == ToRange(d, s)
           w == ApplyGemini(b, v, s)
<1>1. /\ AsLevel(c, s) => /\ v.mode = "level" \/ (v.mode = "none" /\ TakesLevels(s))
                          /\ v.level = LevelFor(c, s)
      /\ ~AsLevel(c, s) => /\ ~ (v.mode = "level" \/ (v.mode = "none" /\ TakesLevels(s)))
                           /\ v.budget = ClampBudget(Amount(c), s)
  BY DEF Becomes
<1> HIDE DEF v
<1>2. CASE AsLevel(c, s)
  <2>1. w = LevelFormat(b, v)
    BY <1>1, <1>2 DEF ApplyGemini
  <2>2. w.thinkingBudget = <<>> /\ w.thinkingLevel = <<ThinkingLevelToAPIEnum(v.level)>>
    BY <2>1 DEF LevelFormat, NoFields
  <2> HIDE DEF w
  <2> QED  BY <1>1, <1>2, <2>2 DEF GivenAs, w, v
<1>3. CASE ~AsLevel(c, s)
  <2>1. w = BudgetFormat(b, v)
    BY <1>1, <1>3 DEF ApplyGemini
  <2>2. w.thinkingLevel = <<>> /\ w.thinkingBudget = <<v.budget>>
    BY <2>1 DEF BudgetFormat, NoFields
  <2> HIDE DEF w
  <2> QED  BY <1>1, <1>3, <2>2 DEF GivenAs, w, v
<1> QED  BY <1>2, <1>3

\* Whatever is asked for and can be compared, it is given as such a level or budget.
LEMMA AppliedIsGiven ==
  ASSUME NEW b \in ThinkingFields, NEW suffix \in SuffixType,
         NEW support \in Optional(ThinkingSupport), NEW strict \in BOOLEAN,
         support # <<>>, Sensible(support[1]), Comparable(Asked(b, suffix)[1]),
         ApplyThinking(b, suffix, support, FALSE, strict) # <<>>
  PROVE  /\ IsAsk(Asked(b, suffix)[1])
         /\ GivenAs(ApplyThinking(b, suffix, support, FALSE, strict)[1],
                    Asked(b, suffix)[1], support[1])
<1> DEFINE asked == Asked(b, suffix)
           valid == ValidateConfig(asked[1], support[1], strict, suffix # <<>>)
           applied == ApplyThinking(b, suffix, support, FALSE, strict)
<1>1. support[1] \in ThinkingSupport
  BY OptionalValue
<1>2. applied =
        IF asked = <<>> THEN <<>>
        ELSE IF ~HasThinkingConfig(asked[1]) THEN <<b>>
        ELSE IF valid = <<>> THEN <<>>
        ELSE <<ApplyGemini(b, valid[1], support[1])>>
  BY DEF ApplyThinking
<1> HIDE DEF applied, valid
<1>3. HasThinkingConfig(asked[1])
  <2>1. Nothing.mode = "budget" /\ Nothing.budget = 0
    BY DEF Nothing, Asking
  <2> HIDE DEF asked
  <2> QED  BY <2>1 DEF HasThinkingConfig, Comparable, asked
<1>4. asked # <<>> /\ IsAsk(asked[1])
  <2>1. asked # <<>>
    BY <1>2 DEF applied
  <2>2. asked = <<Nothing>> => asked[1] = Nothing
    OBVIOUS
  <2> QED  BY <1>3, <2>1, <2>2, AskedIsAnAsk DEF HasThinkingConfig
<1>5. valid # <<>> /\ applied = <<ApplyGemini(b, valid[1], support[1])>>
  <2> HIDE DEF asked
  <2> QED  BY <1>2, <1>3, <1>4 DEF applied
<1>6. PICK d : valid[1] = ToRange(d, support[1]) /\ Becomes(asked[1], support[1], d)
  <2>1. (suffix # <<>>) \in BOOLEAN
    OBVIOUS
  <2>2. Comparable(asked[1])
    OBVIOUS
  <2> HIDE DEF asked
  <2> QED  BY <1>1, <1>4, <1>5, <2>1, <2>2, ValidBecomes DEF valid
<1>7. applied[1] = ApplyGemini(b, ToRange(d, support[1]), support[1])
  BY <1>5, <1>6
<1> HIDE DEF asked
<1>8. GivenAs(applied[1], asked[1], support[1])
  BY <1>6, <1>7, BecomesGiven
<1> QED  BY <1>4, <1>8 DEF applied, asked

\* The level that an ask is given as is one of the model's, and grows with the ask.
LEMMA LevelsGrow ==
  ASSUME NEW s \in ThinkingSupport, Sensible(s), LowestFirst(s),
         NEW c, NEW d, IsAsk(c), IsAsk(d), AskedNoLess(c, d), AsLevel(c, s), AsLevel(d, s)
  PROVE  /\ LevelFor(c, s) \in StandardLevels /\ LevelFor(d, s) \in StandardLevels
         /\ Rank[LevelFor(c, s)] <= Rank[LevelFor(d, s)]
<1>1. s.levels \in Seq(StandardLevels) /\ s.levels # <<>>
  <2>1. TakesLevels(s)
    BY DEF AskedNoLess, AsLevel, Sensible
  <2> QED  BY <2>1 DEF ThinkingSupport, TakesLevels
<1>2. \A l \in LevelsOf(s) : l \in StandardLevels
  <2>1. \A i \in DOMAIN s.levels : s.levels[i] \in StandardLevels
    BY <1>1
  <2> QED  BY <2>1 DEF LevelsOf
<1>3. s.levels[1] \in LevelsOf(s)
  BY <1>1 DEF LevelsOf
<1>4. \A l \in StandardLevels : ClampLevel(l, s) \in LevelsOf(s)
  BY <1>1, ClampLevelIsOneOfThem
<1> DEFINE Level(a) == IF a.mode = "level" THEN a.level ELSE ConvertBudgetToLevel(a.budget)[1]
<1>5. \A a : a.mode # "none" => LevelFor(a, s) = ClampLevel(Level(a), s)
  BY DEF LevelFor
<1>6. ASSUME NEW a, IsAsk(a), a.mode = "budget", a.budget > 0
      PROVE  a.budget \in Int /\ Level(a) \in StandardLevels
  <2>1. a.budget \in Int
    BY <1>6, AskForms
  <2>2. ConvertBudgetToLevel(a.budget)[1] \in StandardLevels
    BY <1>6, <2>1, ConvertGrows
  <2> QED  BY <1>6, <2>1, <2>2
<1>7. CASE c.mode = "none"
  <2>1. LevelFor(c, s) = s.levels[1]
    BY <1>7 DEF LevelFor
  <2>2. Level(d) \in StandardLevels /\ d.mode # "none"
    <3>1. CASE d.mode = "budget" /\ d.budget > 0
      BY <1>6, <3>1
    <3>2. CASE d.mode = "level" /\ d.level \in StandardLevels
      BY <3>2
    <3> QED  BY <1>7, <3>1, <3>2 DEF AskedNoLess
  <2> HIDE DEF Level
  <2>3. LevelFor(d, s) \in LevelsOf(s)
    BY <1>4, <1>5, <2>2
  <2> QED  BY <1>2, <1>3, <2>1, <2>3 DEF LowestFirst
<1>8. CASE c.mode = "budget"
  <2>1. d.mode = "budget" /\ 0 < c.budget /\ c.budget <= d.budget
    BY <1>8 DEF AskedNoLess
  <2>2. c.budget \in Int /\ d.budget \in Int
    BY <1>8, <2>1, AskForms
  <2>3. /\ Level(c) \in StandardLevels /\ Level(d) \in StandardLevels
        /\ Rank[Level(c)] <= Rank[Level(d)]
    BY <1>8, <2>1, <2>2, ConvertGrows
  <2> HIDE DEF Level
  <2> QED  BY <1>1, <1>2, <1>4, <1>5, <1>8, <2>1, <2>3, ClampLevelGrows
<1>9. CASE c.mode = "level"
  <2>1. d.mode = "level"
    BY <1>9 DEF AskedNoLess
  <2>2. /\ Level(c) \in StandardLevels /\ Level(d) \in StandardLevels
        /\ Rank[Level(c)] <= Rank[Level(d)]
    BY <1>9, <2>1 DEF AskedNoLess
  <2> HIDE DEF Level
  <2> QED  BY <1>1, <1>2, <1>4, <1>5, <1>9, <2>1, <2>2, ClampLevelGrows
<1> QED  BY <1>7, <1>8, <1>9 DEF AskedNoLess

\* So does the budget that an ask is given as.
LEMMA BudgetsGrow ==
  ASSUME NEW s \in ThinkingSupport, Sensible(s),
         NEW c, NEW d, IsAsk(c), IsAsk(d), AskedNoLess(c, d), ~AsLevel(c, s), ~AsLevel(d, s)
  PROVE  ClampBudget(Amount(c), s) <= ClampBudget(Amount(d), s)
<1>1. TakesBudget(s)
  BY DEF AskedNoLess, AsLevel, Sensible
<1>2. Amount(c) \in Nat /\ Amount(d) \in Nat /\ Amount(c) <= Amount(d)
  <2>1. ASSUME NEW a, IsAsk(a), a.mode = "budget", a.budget > 0
        PROVE  Amount(a) = a.budget /\ a.budget \in Nat
    <3>1. a.budget \in Int
      BY <2>1, AskForms
    <3> QED  BY <2>1, <3>1 DEF Amount
  <2>2. ASSUME NEW a, a.mode = "level", a.level \in StandardLevels
        PROVE  Amount(a) = LevelBudget[a.level] /\ LevelBudget[a.level] \in Nat
    <3>1. Rank[a.level] <= Rank[a.level]
      BY <2>2, RanksAreNumbers
    <3> QED  BY <2>2, <3>1, LevelBudgetsGrow DEF Amount
  <2>3. CASE c.mode = "none"
    <3>1. Amount(c) = 0
      <4>1. c = NoThinking
        BY <2>3, AskForms
      <4>2. c.budget = 0
        BY <4>1 DEF NoThinking, Asking
      <4> QED  BY <2>3, <4>2 DEF Amount
    <3>2. CASE d.mode = "budget" /\ d.budget > 0
      BY <2>1, <3>1, <3>2
    <3>3. CASE d.mode = "level" /\ d.level \in StandardLevels
      BY <2>2, <3>1, <3>3
    <3> QED  BY <2>3, <3>2, <3>3 DEF AskedNoLess
  <2>4. CASE c.mode = "budget"
    <3>1. d.mode = "budget" /\ 0 < c.budget /\ c.budget <= d.budget
      BY <2>4 DEF AskedNoLess
    <3>2. c.budget \in Int /\ d.budget \in Int
      BY <2>4, <3>1, AskForms
    <3>3. d.budget > 0
      BY <3>1, <3>2
    <3> QED  BY <2>1, <2>4, <3>1, <3>3
  <2>5. CASE c.mode = "level"
    <3>1. /\ d.mode = "level" /\ c.level \in StandardLevels /\ d.level \in StandardLevels
          /\ Rank[c.level] <= Rank[d.level]
      BY <2>5 DEF AskedNoLess
    <3>2. LevelBudget[c.level] <= LevelBudget[d.level]
      BY <3>1, LevelBudgetsGrow
    <3> QED  BY <2>2, <2>5, <3>1, <3>2
  <2> QED  BY <2>3, <2>4, <2>5 DEF AskedNoLess
<1> QED  BY <1>1, <1>2, ClampBudgetGrows

\* Who asks for more is given no less.
LEMMA GivenGrows ==
  ASSUME NEW s \in ThinkingSupport, Sensible(s), LowestFirst(s),
         NEW c, NEW d, IsAsk(c), IsAsk(d), AskedNoLess(c, d),
         NEW w, NEW x, GivenAs(w, c, s), GivenAs(x, d, s)
  PROVE  GivenNoLess(w, x)
<1>1. CASE AsLevel(c, s) /\ AsLevel(d, s)
  <2> DEFINE l == ThinkingLevelToAPIEnum(LevelFor(c, s))
             m == ThinkingLevelToAPIEnum(LevelFor(d, s))
  <2>1. Rank[l] <= Rank[m]
    BY <1>1, LevelsGrow, NamesGrow
  <2> HIDE DEF l, m
  <2>2. w.thinkingBudget = <<>> /\ w.thinkingLevel = <<l>> /\ x.thinkingLevel = <<m>>
    BY <1>1 DEF GivenAs, l, m
  <2>3. w.thinkingLevel[1] = l /\ x.thinkingLevel[1] = m
    BY <2>2
  <2> QED  BY <2>1, <2>2, <2>3 DEF GivenNoLess
<1>2. CASE ~AsLevel(c, s) /\ ~AsLevel(d, s)
  <2> DEFINE k == ClampBudget(Amount(c), s)
             n == ClampBudget(Amount(d), s)
  <2>1. k <= n
    BY <1>2, BudgetsGrow
  <2> HIDE DEF k, n
  <2>2. w.thinkingLevel = <<>> /\ w.thinkingBudget = <<k>> /\ x.thinkingBudget = <<n>>
    BY <1>2 DEF GivenAs, k, n
  <2>3. w.thinkingBudget[1] = k /\ x.thinkingBudget[1] = n
    BY <2>2
  <2> QED  BY <2>1, <2>2, <2>3 DEF GivenNoLess
<1>3. CASE ~(AsLevel(c, s) <=> AsLevel(d, s))
  BY <1>3 DEF GivenAs, GivenNoLess
<1> QED  BY <1>1, <1>2, <1>3

-----------------------------------------------------------------------------
(* The registry. *)

\* Every way a model is built in declares a thinking that is valid.
LEMMA EmbeddedIsValid ==
  \A m \in DOMAIN EmbeddedModels : EmbeddedModels[m].thinking \in Optional(ThinkingSupport)
<1> DEFINE V == Optional(ThinkingSupport)
<1>2. {"minimal", "low", "medium", "high"} \subseteq StandardLevels
  BY DEF StandardLevels, Rank
<1>3. <<>> \in Seq(StandardLevels)
  OBVIOUS
<1>4. <<"low", "medium", "high">> \in Seq(StandardLevels)
  BY <1>2
<1>5. <<"minimal", "low", "medium", "high">> \in Seq(StandardLevels)
  BY <1>2
<1>6. /\ Budgets \in ThinkingSupport
      /\ BudgetsOrZero \in ThinkingSupport
      /\ LowToHigh \in ThinkingSupport
      /\ MinimalToHigh \in ThinkingSupport
  BY <1>3, <1>4, <1>5
     DEF Budgets, BudgetsOrZero, LowToHigh, MinimalToHigh, Support, ThinkingSupport
<1>7. <<>> \in V
  <2>1. <<>> \in Seq(ThinkingSupport) /\ Len(<<>>) <= 1
    OBVIOUS
  <2> QED  BY <2>1 DEF Optional
<1>8. \A t \in ThinkingSupport : <<t>> \in V
  BY AnOptional
<1> HIDE DEF V
<1>9. \A m : EmbeddedThinking(m) \in V
  BY <1>6, <1>7, <1>8 DEF EmbeddedThinking
<1>10. \A t : BuiltIn(t).thinking = t
  BY DEF BuiltIn, Info
<1> QED  BY <1>9, <1>10 DEF EmbeddedModels, V

\* A registry made of a valid configuration: its models declare valid thinking, its aliases
\* lead to its models.
Sound(r) ==
  /\ \A m \in DOMAIN r.models : r.models[m].thinking \in Optional(ThinkingSupport)
  /\ \A a \in DOMAIN r.aliases : r.aliases[a].target \in DOMAIN r.models

LEMMA NewRegistryIsSound ==
  ASSUME NEW cfg, ValidModels(cfg), NewRegistry(cfg) # <<>>,
         \A i \in DOMAIN cfg.entries :
           \E S : cfg.entries[i].thinking \in Optional(S)
  PROVE  Sound(NewRegistry(cfg)[1])
<1> DEFINE models == BaseModels(cfg)
           rules == AliasesOf(cfg)
           aliases == [a \in {rules[i].alias : i \in DOMAIN rules} |->
                         rules[CHOOSE i \in DOMAIN rules : rules[i].alias = a]]
           r == NewRegistry(cfg)[1]
<1>1. /\ \A i \in DOMAIN rules : rules[i].target \in DOMAIN models
      /\ NewRegistry(cfg) = <<[models |-> models, aliases |-> aliases]>>
  <2> HIDE DEF models, rules
  <2> QED  BY DEF NewRegistry, models, rules
<1>2. \A a \in DOMAIN aliases : aliases[a].target \in DOMAIN models
  <2> HIDE DEF models, rules
  <2> QED  BY <1>1
<1>3. \A m \in DOMAIN models : models[m].thinking \in Optional(ThinkingSupport)
  <2>1. CASE cfg.source = "embedded"
    BY <2>1, EmbeddedIsValid DEF BaseModels
  <2>2. CASE cfg.source # "embedded"
    <3> SUFFICES ASSUME NEW m \in DOMAIN models
                 PROVE  models[m].thinking \in Optional(ThinkingSupport)
      OBVIOUS
    <3>1. PICK i \in DOMAIN cfg.entries : models[m] = ModelFromEntry(cfg.entries[i])
      BY <2>2 DEF BaseModels
    <3> DEFINE t == cfg.entries[i].thinking
    <3>2. models[m].thinking = t
      BY <3>1 DEF ModelFromEntry, Info
    <3>3. \A k \in DOMAIN t : t[k] \in ThinkingSupport
      BY DEF ValidModels, ValidEntry
    <3>4. PICK S : t \in Optional(S)
      OBVIOUS
    <3> HIDE DEF t
    <3>5. t \in Seq(S) /\ Len(t) <= 1
      BY <3>4 DEF Optional
    <3>6. t \in Seq(ThinkingSupport)
      BY <3>3, <3>5
    <3> QED  BY <3>2, <3>5, <3>6 DEF Optional
  <2> QED  BY <2>1, <2>2
<1>4. r.models = models /\ r.aliases = aliases
  <2> HIDE DEF models, aliases
  <2> QED  BY <1>1
<1> HIDE DEF models, aliases, r
<1>5. Sound(r)
  BY <1>2, <1>3, <1>4 DEF Sound
<1> QED  BY <1>5 DEF r

-----------------------------------------------------------------------------
(* The preparation. *)

\* What normalises a body leaves its thinkingConfig to thinking.Apply.
LEMMA NormalizeKeepsThinking ==
  ASSUME NEW body \in Bodies, NEW mode, NormalizeRequest(body, mode) # <<>>
  PROVE  LET out == NormalizeRequest(body, mode)[1]
         IN  out.thinking = body.thinking /\ "thinking" \in DOMAIN out
<1> DEFINE schema == Renamed(body, "responseSchema", "responseJsonSchema")
           inner == [schema EXCEPT !.tools = NormalizeTools(@),
                                   !.contents = [k \in DOMAIN @ |-> NormalizeContents(@[k])]]
           out == AttachSafetySettings(inner, mode)
<1>1. "thinking" \in DOMAIN body
  BY DEF Bodies
<1>2. schema.thinking = body.thinking /\ "thinking" \in DOMAIN schema
  BY <1>1 DEF Renamed
<1> HIDE DEF schema
<1>3. inner.thinking = body.thinking /\ "thinking" \in DOMAIN inner
  BY <1>2
<1> HIDE DEF inner
<1>4. out.thinking = body.thinking /\ "thinking" \in DOMAIN out
  BY <1>3 DEF AttachSafetySettings
<1>5. NormalizeRequest(body, mode) = <<out>>
  <2>1. body.legal
    BY DEF NormalizeRequest
  <2> QED  BY <2>1, Zenon DEF NormalizeRequest, out, inner, schema
<1> HIDE DEF out
<1>6. NormalizeRequest(body, mode)[1] = out
  BY <1>5
<1> QED  BY <1>4, <1>6

\* What is done to the body after thinking.Apply leaves its result alone.
LEMMA FinishingKeepsThinking ==
  ASSUME NEW body, "thinking" \in DOMAIN body, NEW thinking, NEW model, NEW enabled
  PROVE  ApplyImagePreview(model, StripGatewayOnly([body EXCEPT !.thinking = thinking]),
                           enabled).thinking = thinking
<1> DEFINE applied == [body EXCEPT !.thinking = thinking]
           stripped == StripGatewayOnly(applied)
<1>1. applied.thinking = thinking /\ "thinking" \in DOMAIN applied
  OBVIOUS
<1> HIDE DEF applied
<1>2. stripped.thinking = thinking /\ "thinking" \in DOMAIN stripped
  BY <1>1 DEF StripGatewayOnly
<1> HIDE DEF stripped
<1>3. ApplyImagePreview(model, stripped, enabled).thinking = thinking
  BY <1>2 DEF ApplyImagePreview
<1> QED  BY <1>3 DEF stripped, applied

\* A request that generates is prepared for a model of the registry, with what thinking.Apply
\* makes of its wishes for that model.
LEMMA PrepareApplies ==
  ASSUME Sound(registry[1]), NEW r \in GatewayRequests, Generates(r), Prepare(r) # <<>>
  PROVE  LET model == Prepare(r)[1].model
             applied == ApplyThinking(r.body.thinking, r.suffix, SupportOf(model),
                                      config.thinkingOff, config.strict)
         IN  /\ model \in DOMAIN registry[1].models
             /\ applied # <<>>
             /\ Prepare(r)[1].body.thinking = applied[1]
<1> DEFINE base == PrepareBase(r)
           body == NormalizeRequest(r.body, config.safetyMode)
           thinking == ApplyThinking(body[1].thinking, r.suffix,
                                     registry[1].models[base[1]].thinking,
                                     config.thinkingOff, config.strict)
           sent == ApplyImagePreview(base[1],
                     StripGatewayOnly([body[1] EXCEPT !.thinking = thinking[1]]),
                     config.imagePreview)
<1>1. Prepare(r) = IF base = <<>> \/ body = <<>> \/ thinking = <<>> THEN <<>>
                   ELSE Preparation(base[1], r, sent)
  BY Zenon DEF Prepare, PrepareGenerate, Generates
<1> HIDE DEF thinking, sent
<1>2. /\ base # <<>> /\ body # <<>> /\ thinking # <<>>
      /\ Prepare(r) = Preparation(base[1], r, sent)
  <2> HIDE DEF base, body
  <2> QED  BY <1>1
<1>3. Prepare(r)[1].model = base[1] /\ Prepare(r)[1].body = sent
  <2> HIDE DEF base, body
  <2> QED  BY <1>2 DEF Preparation
<1>4. base[1] \in DOMAIN registry[1].models
  <2> DEFINE resolved == Resolve(registry[1], r.model)
  <2>1. base = resolved
    BY <1>2, Zenon DEF PrepareBase
  <2>2. \/ /\ r.model \in DOMAIN registry[1].aliases
           /\ base = <<registry[1].aliases[r.model].target>>
        \/ r.model \in DOMAIN registry[1].models /\ base = <<r.model>>
    BY <1>2, <2>1, Zenon DEF Resolve
  <2> HIDE DEF base
  <2> QED  BY <2>2 DEF Sound
<1>5. r.body \in Bodies
  BY DEF GatewayRequests
<1>6. body[1].thinking = r.body.thinking /\ "thinking" \in DOMAIN body[1]
  BY <1>2, <1>5, NormalizeKeepsThinking
<1>7. sent.thinking = thinking[1]
  <2> HIDE DEF body, base
  <2> QED  BY <1>6, FinishingKeepsThinking DEF sent
<1>8. thinking = ApplyThinking(r.body.thinking, r.suffix, SupportOf(base[1]),
                               config.thinkingOff, config.strict)
  <2> HIDE DEF body, base
  <2> QED  BY <1>6, Zenon DEF thinking, SupportOf
<1> HIDE DEF base, body
<1> QED  BY <1>2, <1>3, <1>4, <1>7, <1>8

-----------------------------------------------------------------------------
(* The invariant. *)

\* The request sent last, and what was prepared for it with the registry of the start.
Inv ==
  /\ config.strict \in BOOLEAN /\ config.thinkingOff \in BOOLEAN
  /\ phase = "starting" => config \in Settings /\ request = <<>> /\ prepared = <<>>
  /\ phase = "serving" => Sound(registry[1])
  /\ request # <<>> => phase = "serving" /\ request[1] \in GatewayRequests
  /\ prepared # <<>> => request # <<>> /\ prepared = Prepare(request[1])

\* A longer conversation is a request as well.
LEMMA ContinuedIsARequest ==
  ASSUME NEW r \in GatewayRequests, NEW turn \in ContentType, r.body.contents # <<>>
  PROVE  [r EXCEPT !.body.contents[1] = Append(@, turn)] \in GatewayRequests
<1>a. r.body \in Bodies
  BY DEF GatewayRequests
<1>b. \A body \in Bodies : [r EXCEPT !.body = body] \in GatewayRequests
  BY DEF GatewayRequests
<1> DEFINE cs == r.body.contents
           longer == [cs EXCEPT ![1] = Append(@, turn)]
           body == [r.body EXCEPT !.contents = longer]
<1>1. cs \in Optional(Seq(ContentType))
  BY <1>a DEF Bodies
<1>2. cs[1] \in Seq(ContentType)
  BY <1>1, OptionalValue
<1>3. Append(cs[1], turn) \in Seq(ContentType)
  BY <1>2
<1> DEFINE S == Seq(ContentType)
           x == Append(cs[1], turn)
<1>4. longer \in Optional(S)
  <2>1. cs \in Seq(S) /\ Len(cs) <= 1
    BY <1>1 DEF Optional
  <2>2. longer = [cs EXCEPT ![1] = x]
    OBVIOUS
  <2>3. x \in S
    BY <1>3
  <2> HIDE DEF S, cs, x, longer
  <2>4. cs \in [1..Len(cs) -> S] /\ Len(cs) \in Nat
    BY <2>1
  <2>5. longer \in [1..Len(cs) -> S]
    BY <2>2, <2>3, <2>4
  <2>6. longer \in Seq(S) /\ Len(longer) = Len(cs)
    BY <2>4, <2>5
  <2> QED  BY <2>1, <2>6 DEF Optional
<1>5. body \in Bodies
  <2> HIDE DEF longer
  <2> QED  BY <1>a, <1>4 DEF Bodies
<1>6. [r EXCEPT !.body.contents[1] = Append(@, turn)] = [r EXCEPT !.body = body]
  OBVIOUS
<1> HIDE DEF body
<1> QED  BY <1>b, <1>5, <1>6

\* And so are other wishes.
LEMMA RephrasedIsARequest ==
  ASSUME NEW r \in GatewayRequests, NEW w \in [suffix : SuffixType, thinking : ThinkingFields]
  PROVE  [r EXCEPT !.suffix = w.suffix, !.body.thinking = w.thinking] \in GatewayRequests
<1>a. r.body \in Bodies
  BY DEF GatewayRequests
<1> DEFINE body == [r.body EXCEPT !.thinking = w.thinking]
           asked == [r EXCEPT !.suffix = w.suffix]
<1>1. body \in Bodies
  BY <1>a DEF Bodies
<1>2. asked \in GatewayRequests
  BY DEF GatewayRequests
<1>3. [r EXCEPT !.suffix = w.suffix, !.body.thinking = w.thinking]
        = [asked EXCEPT !.body = body]
  BY DEF GatewayRequests
<1> HIDE DEF body, asked
<1>4. [asked EXCEPT !.body = body] \in GatewayRequests
  BY <1>1, <1>2 DEF GatewayRequests
<1> QED  BY <1>3, <1>4

LEMMA InvInit == Init => Inv
<1> SUFFICES ASSUME Init PROVE Inv
  OBVIOUS
<1>1. config \in Settings
  BY ConfigsAssumption DEF Init
<1>2. config.strict \in BOOLEAN /\ config.thinkingOff \in BOOLEAN
  BY <1>1 DEF Settings
<1> QED  BY <1>1, <1>2 DEF Init, Inv

\* A request that is sent is prepared with the configuration and the registry that stay.
LEMMA SendKeepsInv ==
  ASSUME Inv, NEW r \in GatewayRequests, Send(r)
  PROVE  Inv'
<1>1. request' # <<>> /\ request'[1] = r /\ phase' = "serving"
  BY DEF Send
<1>2. prepared' = Prepare(request[1])'
  BY <1>1, Zenon DEF Send, Prepare, PrepareGenerate, PrepareCountTokens, PrepareBase
<1>3. Sound(registry[1])' /\ phase = "serving"
  BY DEF Inv, Send, Sound
<1> QED  BY <1>1, <1>2, <1>3 DEF Inv, Send

LEMMA InvNext == Inv /\ [Next]_vars => Inv'
<1> SUFFICES ASSUME Inv, [Next]_vars PROVE Inv'
  OBVIOUS
<1>1. CASE Load
  <2> DEFINE models == Normalized(config.models)
  <2>1. config \in Settings /\ request = <<>> /\ prepared = <<>>
    BY <1>1 DEF Load, Inv
  <2>2. config' = [config EXCEPT !.models = models]
    BY <1>1 DEF Load
  <2>3. config'.strict \in BOOLEAN /\ config'.thinkingOff \in BOOLEAN
    <3> HIDE DEF models
    <3> QED  BY <2>1, <2>2 DEF Settings
  <2>4. phase' = "serving" => ValidModels(models) /\ NewRegistry(models) # <<>>
                              /\ registry' = NewRegistry(models)
    BY <1>1 DEF Load
  <2>5. models.entries = config.models.entries
    BY <2>1 DEF Normalized, Settings
  <2>6. \A i \in DOMAIN models.entries : \E S : models.entries[i].thinking \in Optional(S)
    <3> DEFINE T == [min : Nat, max : Nat, zero : BOOLEAN, dynamic : BOOLEAN,
                     levels : Seq(STRING)]
               E == [name : STRING, actions : SUBSET STRING, methods : SUBSET STRING,
                     thinking : Optional(T)]
    <3>1. config.models.entries \in Seq(E)
      BY <2>1 DEF Settings
    <3>2. \A i \in DOMAIN config.models.entries : config.models.entries[i] \in E
      <4> HIDE DEF E
      <4> QED  BY <3>1
    <3> HIDE DEF T
    <3> QED  BY <2>5, <3>2
  <2>7. phase' = "serving" => Sound(registry'[1])
    <3> HIDE DEF models
    <3> QED  BY <2>4, <2>6, NewRegistryIsSound
  <2>8. phase' # "starting" /\ request' = <<>> /\ prepared' = <<>>
    BY <1>1, <2>1 DEF Load
  <2>9. Sound(registry[1])' <=> Sound(registry'[1])
    BY DEF Sound
  <2> QED  BY <2>3, <2>7, <2>8, <2>9 DEF Inv
<1>2. CASE Ask
  <2>1. PICK r \in FirstRequests : Send(r)
    BY <1>2 DEF Ask
  <2> QED  BY <2>1, ClientAssumption, SendKeepsInv
<1>3. CASE Continue
  <2>1. /\ request # <<>> /\ request[1].body.contents # <<>>
        /\ \E turn \in Turns : Send([request[1] EXCEPT !.body.contents[1] = Append(@, turn)])
    BY <1>3 DEF Continue, Change
  <2>2. PICK turn \in Turns : Send([request[1] EXCEPT !.body.contents[1] = Append(@, turn)])
    BY <2>1
  <2> DEFINE r == [request[1] EXCEPT !.body.contents[1] = Append(@, turn)]
  <2>3. r \in GatewayRequests
    BY <2>1, ClientAssumption, ContinuedIsARequest DEF Inv
  <2> HIDE DEF r
  <2> QED  BY <2>2, <2>3, SendKeepsInv DEF r
<1>4. CASE Rephrase
  <2>1. PICK w \in Wishes : Send([request[1] EXCEPT !.suffix = w.suffix,
                                                    !.body.thinking = w.thinking])
    BY <1>4 DEF Rephrase, Change
  <2>2. request # <<>>
    BY <1>4 DEF Rephrase
  <2> DEFINE r == [request[1] EXCEPT !.suffix = w.suffix, !.body.thinking = w.thinking]
  <2>3. r \in GatewayRequests
    BY <2>2, ClientAssumption, RephrasedIsARequest DEF Inv
  <2> HIDE DEF r
  <2> QED  BY <2>1, <2>3, SendKeepsInv DEF r
<1>5. CASE UNCHANGED vars
  <2>1. prepared' = prepared /\ request' = request /\ phase' = phase /\ config' = config
        /\ registry' = registry
    BY <1>5 DEF vars
  <2>2. Prepare(request[1])' = Prepare(request[1])
    BY <2>1, Zenon DEF Prepare, PrepareGenerate, PrepareCountTokens, PrepareBase
  <2>3. Sound(registry[1])' <=> Sound(registry[1])
    BY <2>1, Zenon DEF Sound
  <2> QED  BY <2>1, <2>2, <2>3 DEF Inv
<1> QED  BY <1>1, <1>2, <1>3, <1>4, <1>5 DEF Next

\* A prepared request asks for what the model supports.
LEMMA InvImplies == Inv => SentIsSupported
<1> SUFFICES ASSUME Inv, Serving, Generates(request[1]), ~config.thinkingOff
             PROVE  LET asked == Asked(request[1].body.thinking, request[1].suffix)
                        support == SupportOf(prepared[1].model)
                    IN  asked # <<Nothing>> /\ support # <<>> =>
                          (Sensible(support[1]) =>
                             Supported(prepared[1].body.thinking, support[1]))
  BY DEF SentIsSupported
<1> DEFINE r == request[1]
           support == SupportOf(prepared[1].model)
<1> SUFFICES ASSUME Asked(r.body.thinking, r.suffix) # <<Nothing>>, support # <<>>,
                    Sensible(support[1])
             PROVE  Supported(prepared[1].body.thinking, support[1])
  OBVIOUS
<1>1. /\ prepared # <<>> /\ prepared = Prepare(r) /\ r \in GatewayRequests
      /\ Sound(registry[1]) /\ config.thinkingOff = FALSE /\ config.strict \in BOOLEAN
  BY DEF Inv, Serving
<1> DEFINE applied == ApplyThinking(r.body.thinking, r.suffix, support, FALSE, config.strict)
<1>2. /\ prepared[1].model \in DOMAIN registry[1].models
      /\ applied # <<>>
      /\ prepared[1].body.thinking = applied[1]
  BY <1>1, PrepareApplies
<1>3. support \in Optional(ThinkingSupport)
  BY <1>1, <1>2 DEF Sound, SupportOf
<1>4. r.body.thinking \in ThinkingFields /\ r.suffix \in SuffixType
  BY <1>1 DEF GatewayRequests, Bodies
<1> HIDE DEF r, support
<1>5. Supported(applied[1], support[1])
  BY <1>1, <1>2, <1>3, <1>4, AppliedIsSupported
<1> QED  BY <1>2, <1>5

\* For every configuration and every client: what is sent is one way of thinking that the model
\* has declared, in its range, however it was asked for (thinking.Apply).
THEOREM SentIsAlwaysSupported == Spec => []SentIsSupported
<1>1. Init => Inv
  BY InvInit
<1>2. Inv /\ [Next]_vars => Inv'
  BY InvNext
<1>3. Inv => SentIsSupported
  BY InvImplies
<1> QED  BY <1>1, <1>2, <1>3, PTL DEF Spec

\* What is sent next is prepared by the same registry under the same configuration.
LEMMA SentNext ==
  ASSUME Inv, Serving, Next, prepared' # <<>>
  PROVE  \E r \in GatewayRequests :
           /\ request'[1] = r /\ prepared' = Prepare(r)
           /\ r.action = request[1].action
<1>1. request # <<>> /\ phase = "serving" /\ prepared # <<>>
  BY DEF Inv, Serving
<1>2. CASE Continue
  <2>1. PICK turn \in Turns : Send([request[1] EXCEPT !.body.contents[1] = Append(@, turn)])
    BY <1>2 DEF Continue, Change
  <2>2. request[1] \in GatewayRequests /\ request[1].body.contents # <<>>
    BY <1>1, <1>2 DEF Inv, Continue
  <2> DEFINE q == request[1]
             r == [q EXCEPT !.body.contents[1] = Append(@, turn)]
  <2>3. r \in GatewayRequests
    BY <2>2, ClientAssumption, ContinuedIsARequest
  <2>4. r.action = q.action
    <3> HIDE DEF q
    <3> QED  BY <2>2 DEF GatewayRequests, q
  <2> HIDE DEF r
  <2>5. request' = <<r>> /\ prepared' = Prepare(r)
    BY <2>1 DEF r, Send
  <2>6. request'[1] = r
    BY <2>5
  <2> QED  BY <2>3, <2>4, <2>5, <2>6
<1>3. CASE Rephrase
  <2>1. PICK w \in Wishes : Send([request[1] EXCEPT !.suffix = w.suffix,
                                                    !.body.thinking = w.thinking])
    BY <1>3 DEF Rephrase, Change
  <2>2. request[1] \in GatewayRequests
    BY <1>1 DEF Inv
  <2> DEFINE q == request[1]
             r == [q EXCEPT !.suffix = w.suffix, !.body.thinking = w.thinking]
  <2>3. r \in GatewayRequests
    BY <2>2, ClientAssumption, RephrasedIsARequest
  <2>4. r.action = q.action
    <3> HIDE DEF q
    <3> QED  BY <2>2 DEF GatewayRequests, q
  <2> HIDE DEF r
  <2>5. request' = <<r>> /\ prepared' = Prepare(r)
    BY <2>1 DEF r, Send
  <2>6. request'[1] = r
    BY <2>5
  <2> QED  BY <2>3, <2>4, <2>5, <2>6
<1> QED  BY <1>1, <1>2, <1>3 DEF Next, Load, Ask

\* Of two requests prepared for one model, the one that asks for more is given no less.
LEMMA PreparedGrows ==
  ASSUME Inv, Serving, Generates(request[1]), ~config.thinkingOff,
         NEW r \in GatewayRequests, Generates(r), Prepare(r) # <<>>,
         Prepare(r)[1].model = prepared[1].model,
         SupportOf(prepared[1].model) # <<>>,
         Sensible(SupportOf(prepared[1].model)[1]), LowestFirst(SupportOf(prepared[1].model)[1]),
         AskedNoLess(Asked(request[1].body.thinking, request[1].suffix)[1],
                     Asked(r.body.thinking, r.suffix)[1])
  PROVE  GivenNoLess(prepared[1].body.thinking, Prepare(r)[1].body.thinking)
<1> DEFINE support == SupportOf(prepared[1].model)
           q == request[1]
           Wish(x) == Asked(x.body.thinking, x.suffix)[1]
<1>1. /\ prepared # <<>> /\ prepared = Prepare(q) /\ q \in GatewayRequests
      /\ Sound(registry[1]) /\ config.thinkingOff = FALSE /\ config.strict \in BOOLEAN
  BY DEF Inv, Serving
<1>2. support \in Optional(ThinkingSupport) /\ support[1] \in ThinkingSupport
  <2>1. prepared[1].model \in DOMAIN registry[1].models
    BY <1>1, PrepareApplies
  <2>2. support \in Optional(ThinkingSupport)
    BY <1>1, <2>1 DEF Sound, SupportOf
  <2> QED  BY <2>2, OptionalValue
<1>3. Comparable(Wish(q)) /\ Comparable(Wish(r))
  <2>1. ASSUME NEW x \in GatewayRequests, Generates(x), Prepare(x) # <<>>
        PROVE  Wish(x).mode = "budget" => Wish(x).budget \in Int
    <3>1. x.body.thinking \in ThinkingFields /\ x.suffix \in SuffixType
      BY <2>1 DEF GatewayRequests, Bodies
    <3>2. Asked(x.body.thinking, x.suffix) # <<>>
      BY <1>1, <2>1, PrepareApplies DEF ApplyThinking
    <3> DEFINE asked == Asked(x.body.thinking, x.suffix)
    <3>3. IsAsk(asked[1]) \/ asked = <<Nothing>>
      BY <3>1, <3>2, AskedIsAnAsk
    <3> HIDE DEF asked
    <3>4. Nothing.budget = 0
      BY DEF Nothing, Asking
    <3>5. asked = <<Nothing>> => asked[1] = Nothing
      OBVIOUS
    <3>6. asked[1].mode = "budget" => asked[1].budget \in Int
      <4>1. IsAsk(asked[1]) => (asked[1].mode = "budget" => asked[1].budget \in Int)
        <5> SUFFICES ASSUME IsAsk(asked[1]), asked[1].mode = "budget"
                     PROVE  asked[1].budget \in Int
          OBVIOUS
        <5>1. asked[1].budget \in Int \ {0, -1}
          BY AskForms
        <5> QED  BY <5>1
      <4>2. asked[1] = Nothing => asked[1].budget \in Int
        BY <3>4
      <4> QED  BY <3>3, <3>5, <4>1, <4>2
    <3> QED  BY <3>6 DEF asked
  <2>2. ASSUME NEW c, NEW d, AskedNoLess(c, d), c.mode = "budget" => c.budget \in Int,
               d.mode = "budget" => d.budget \in Int
        PROVE  Comparable(c) /\ Comparable(d)
    BY <2>2 DEF AskedNoLess, Comparable
  <2>3. /\ Wish(q).mode = "budget" => Wish(q).budget \in Int
        /\ Wish(r).mode = "budget" => Wish(r).budget \in Int
    BY <1>1, <2>1
  <2>4. AskedNoLess(Wish(q), Wish(r))
    OBVIOUS
  <2> HIDE DEF Wish, q
  <2> QED  BY <2>2, <2>3, <2>4
<1> HIDE DEF support
<1>4. ASSUME NEW x \in GatewayRequests, Generates(x), Prepare(x) # <<>>,
             Prepare(x)[1].model = prepared[1].model, Comparable(Wish(x))
      PROVE  IsAsk(Wish(x)) /\ GivenAs(Prepare(x)[1].body.thinking, Wish(x), support[1])
  <2> DEFINE applied == ApplyThinking(x.body.thinking, x.suffix, support, FALSE, config.strict)
  <2>1. applied # <<>> /\ Prepare(x)[1].body.thinking = applied[1]
    BY <1>1, <1>4, PrepareApplies DEF support
  <2>2. x.body.thinking \in ThinkingFields /\ x.suffix \in SuffixType
    BY <1>4 DEF GatewayRequests, Bodies
  <2>3. support # <<>> /\ Sensible(support[1])
    BY DEF support
  <2>4. IsAsk(Wish(x)) /\ GivenAs(applied[1], Wish(x), support[1])
    BY <1>1, <1>2, <1>4, <2>1, <2>2, <2>3, AppliedIsGiven
  <2> QED  BY <2>1, <2>4
<1>5. IsAsk(Wish(q)) /\ GivenAs(prepared[1].body.thinking, Wish(q), support[1])
  BY <1>1, <1>3, <1>4
<1>6. IsAsk(Wish(r)) /\ GivenAs(Prepare(r)[1].body.thinking, Wish(r), support[1])
  BY <1>3, <1>4
<1>7. AskedNoLess(Wish(q), Wish(r)) /\ Sensible(support[1]) /\ LowestFirst(support[1])
  BY DEF support
<1> HIDE DEF Wish, q
<1> QED  BY <1>2, <1>5, <1>6, <1>7, GivenGrows

\* For every configuration, model and pair of wishes: a client that asks the same model for more
\* thinking is not given less, through all the conversions and clamps (ValidateConfig).
THEOREM MoreIsGiven == Spec => MoreAskedMoreGiven
<1>1. ASSUME Inv, Next
      PROVE  LET sent == [c |-> Asked(request[1].body.thinking, request[1].suffix),
                          d |-> Asked(request'[1].body.thinking, request'[1].suffix)]
                 support == SupportOf(prepared[1].model)
             IN  /\ Serving /\ prepared' # <<>> /\ prepared'[1].model = prepared[1].model
                 /\ Generates(request[1]) /\ ~config.thinkingOff
                 /\ support # <<>> /\ Sensible(support[1]) /\ LowestFirst(support[1])
                 /\ AskedNoLess(sent.c[1], sent.d[1])
                 => GivenNoLess(prepared[1].body.thinking, prepared'[1].body.thinking)
  <2> DEFINE support == SupportOf(prepared[1].model)
             c == Asked(request[1].body.thinking, request[1].suffix)
             d == Asked(request'[1].body.thinking, request'[1].suffix)
  <2> SUFFICES ASSUME Serving, prepared' # <<>>, prepared'[1].model = prepared[1].model,
                      Generates(request[1]), ~config.thinkingOff,
                      support # <<>>, Sensible(support[1]), LowestFirst(support[1]),
                      AskedNoLess(c[1], d[1])
               PROVE  GivenNoLess(prepared[1].body.thinking, prepared'[1].body.thinking)
    <3> HIDE DEF c, d, support
    <3> QED  BY DEF c, d, support
  <2>1. PICK r \in GatewayRequests : /\ request'[1] = r /\ prepared' = Prepare(r)
                                     /\ r.action = request[1].action
    BY <1>1, SentNext
  <2>2. Generates(r) /\ d = Asked(r.body.thinking, r.suffix)
    BY <2>1 DEF Generates
  <2> QED  BY <1>1, <2>1, <2>2, PreparedGrows
<1>2. Inv /\ [Next]_vars /\ ~UNCHANGED vars => Inv /\ Next
  OBVIOUS
<1> QED  BY <1>1, <1>2, InvInit, InvNext, PTL DEF Spec, MoreAskedMoreGiven

\* The phases, the registry and the count of changes.
Control ==
  /\ phase \in {"starting", "invalid", "failed", "serving"}
  /\ registry # <<>> <=> phase = "serving"
  /\ request = <<>> \/ request = <<request[1]>>
  /\ changes \in 0..MaxChanges

\* Every step keeps them; a gateway that serves has a registry and keeps it.
LEMMA ControlNext == Control /\ [Next]_vars => Control'
<1> SUFFICES ASSUME Control, [Next]_vars PROVE Control'
  OBVIOUS
<1>1. CASE Load
  <2>1. /\ phase = "starting" /\ registry = <<>>
        /\ phase' = "serving" \/ phase' \in {"invalid", "failed"}
        /\ registry' # <<>> <=> phase' = "serving"
        /\ UNCHANGED <<request, changes>>
    <3> DEFINE models == Normalized(config.models)
    <3>1. /\ phase = "starting"
          /\ registry' = IF ValidModels(models) THEN NewRegistry(models) ELSE <<>>
          /\ phase' = CASE ~ValidModels(models) -> "invalid"
                        [] ValidModels(models) /\ registry' = <<>> -> "failed"
                        [] OTHER -> "serving"
          /\ UNCHANGED <<request, changes>>
      BY <1>1 DEF Load
    <3> HIDE DEF models
    <3>2. CASE ~ValidModels(models)
      BY <3>1, <3>2 DEF Control
    <3>3. CASE ValidModels(models) /\ registry' = <<>>
      BY <3>1, <3>3 DEF Control
    <3>4. CASE ValidModels(models) /\ registry' # <<>>
      BY <3>1, <3>4 DEF Control
    <3> QED  BY <3>2, <3>3, <3>4
  <2> QED  BY <2>1 DEF Control
<1>2. ASSUME NEW r, Send(r), UNCHANGED changes \/ (changes < MaxChanges /\ changes' = changes + 1)
      PROVE  Control'
  <2>1. request' = <<r>> /\ UNCHANGED <<phase, registry>>
    BY <1>2 DEF Send
  <2>2. changes' \in 0..MaxChanges
    BY <1>2, MaxChangesAssumption DEF Control
  <2> QED  BY <2>1, <2>2 DEF Control
<1>3. CASE Ask
  BY <1>2, <1>3 DEF Ask
<1>4. CASE Continue \/ Rephrase
  <2>1. PICK r : Change(r)
    BY <1>4 DEF Continue, Rephrase
  <2> QED  BY <1>2, <2>1 DEF Change
<1>5. CASE UNCHANGED vars
  BY <1>5 DEF vars, Control
<1> QED  BY <1>1, <1>3, <1>4, <1>5 DEF Next

\* Whatever is prepared is prepared for a model of the registry.
LEMMA PreparedForAModel ==
  ASSUME Sound(registry[1]), NEW r, Prepare(r) # <<>>
  PROVE  /\ Prepare(r)[1].model \in DOMAIN registry[1].models
         /\ Prepare(r)[1].model = PrepareBase(r)[1]
<1> DEFINE base == PrepareBase(r)
<1>1. base # <<>> /\ \E body : Prepare(r) = Preparation(base[1], r, body)
  <2> HIDE DEF base
  <2>1. CASE r.action = "countTokens"
    <3>1. Prepare(r) = PrepareCountTokens(r)
      BY <2>1, Zenon DEF Prepare
    <3> DEFINE body == NormalizeRequest(r.body, config.safetyMode)
               sent == StripCountTokensUnsupported(body[1])
    <3>2. PrepareCountTokens(r) = IF base = <<>> \/ body = <<>> THEN <<>>
                                  ELSE Preparation(base[1], r, sent)
      BY Zenon DEF PrepareCountTokens, base
    <3> HIDE DEF body, sent
    <3> QED  BY <3>1, <3>2
  <2>2. CASE r.action # "countTokens"
    <3>1. Prepare(r) = PrepareGenerate(r)
      BY <2>2, Zenon DEF Prepare
    <3> DEFINE body == NormalizeRequest(r.body, config.safetyMode)
               thinking == ApplyThinking(body[1].thinking, r.suffix,
                                         registry[1].models[base[1]].thinking,
                                         config.thinkingOff, config.strict)
               sent == ApplyImagePreview(base[1],
                         StripGatewayOnly([body[1] EXCEPT !.thinking = thinking[1]]),
                         config.imagePreview)
    <3>2. PrepareGenerate(r) = IF base = <<>> \/ body = <<>> \/ thinking = <<>> THEN <<>>
                               ELSE Preparation(base[1], r, sent)
      BY Zenon DEF PrepareGenerate, base
    <3> HIDE DEF body, thinking, sent
    <3> QED  BY <3>1, <3>2
  <2> QED  BY <2>1, <2>2
<1>2. Prepare(r)[1].model = base[1]
  <2> HIDE DEF base
  <2> QED  BY <1>1 DEF Preparation
<1>3. base[1] \in DOMAIN registry[1].models
  <2>1. base = Resolve(registry[1], r.model)
    BY <1>1, Zenon DEF PrepareBase
  <2>2. \/ /\ r.model \in DOMAIN registry[1].aliases
           /\ base = <<registry[1].aliases[r.model].target>>
        \/ r.model \in DOMAIN registry[1].models /\ base = <<r.model>>
    BY <1>1, <2>1, Zenon DEF Resolve
  <2> HIDE DEF base
  <2> QED  BY <2>2 DEF Sound
<1> QED  BY <1>2, <1>3

\* For every configuration and every client the variables have their types; above all, no
\* request is prepared for a model that the registry does not have.
THEOREM TypeCorrect == Spec => []RequestsTypeOK
<1>1. Init => Inv /\ Control
  BY InvInit, MaxChangesAssumption DEF Init, Control
<1>2. Inv /\ Control => RequestsTypeOK
  <2> SUFFICES ASSUME Inv, Control PROVE RequestsTypeOK
    OBVIOUS
  <2>1. phase = "serving" =>
          /\ \A m \in DOMAIN registry[1].models : SupportOf(m) \in Optional(ThinkingSupport)
          /\ \A a \in DOMAIN registry[1].aliases :
               registry[1].aliases[a].target \in DOMAIN registry[1].models
    BY DEF Inv, Sound, SupportOf
  <2>2. request \in Optional(GatewayRequests)
    <3>1. CASE request = <<>>
      BY <3>1 DEF Optional
    <3>2. CASE request # <<>>
      <4>1. request[1] \in GatewayRequests /\ request = <<request[1]>>
        BY <3>2 DEF Inv, Control
      <4>2. <<request[1]>> \in Optional(GatewayRequests)
        BY <4>1, AnOptional
      <4> QED  BY <4>1, <4>2, Zenon
    <3> QED  BY <3>1, <3>2
  <2>3. prepared # <<>> => request # <<>> /\ prepared[1].model \in DOMAIN registry[1].models
    <3> SUFFICES ASSUME prepared # <<>>
                 PROVE  request # <<>> /\ prepared[1].model \in DOMAIN registry[1].models
      OBVIOUS
    <3>1. request # <<>> /\ prepared = Prepare(request[1]) /\ Sound(registry[1])
      BY DEF Inv
    <3> QED  BY <3>1, PreparedForAModel
  <2>4. request # <<>> => phase = "serving"
    BY DEF Inv
  <2> QED  BY <2>1, <2>2, <2>3, <2>4 DEF Control, RequestsTypeOK
<1> QED  BY <1>1, <1>2, InvNext, ControlNext, PTL DEF Spec

-----------------------------------------------------------------------------
(* What is built step by step over a sequence. *)

\* What holds of the first of a row and of the next to each it holds of, holds of all.
LEMMA AllOfARow ==
  ASSUME NEW a \in Nat, NEW b \in Nat, NEW S, a \in S,
         \A i \in a..b - 1 : i \in S => i + 1 \in S
  PROVE  \A i \in a..b : i \in S
<1> DEFINE T == {i \in a..b : i \notin S}
<1> SUFFICES ASSUME T # {} PROVE FALSE
  OBVIOUS
<1>1. PICK x \in T : \A y \in T : ~ (<<y, x>> \in OpToRel(<, Nat))
  <2>1. T \subseteq Nat
    OBVIOUS
  <2> HIDE DEF T
  <2> QED  BY <2>1, NatLessThanWellFounded, WFMin
<1>2. x # a
  OBVIOUS
<1>3. x - 1 \notin T
  <2> SUFFICES ASSUME x - 1 \in T PROVE FALSE
    OBVIOUS
  <2>1. <<x - 1, x>> \in OpToRel(<, Nat)
    BY DEF OpToRel
  <2> QED  BY <1>1, <2>1
<1>4. x - 1 \in a..b - 1 /\ (x - 1) + 1 = x
  BY <1>2
<1> QED  BY <1>3, <1>4

\* A row can be built from its start, each from the one before.
Grows(n, S, start, next) ==
  n \in Nat /\ start \in S /\ \A i \in 1..n : \A x \in S : next[i][x] \in S

IsRow(f, n, S, start, next) ==
  f \in [0..n -> S] /\ f[0] = start /\ \A i \in 1..n : f[i] = next[i][f[i - 1]]

LEMMA RowExists ==
  ASSUME NEW n, NEW S, NEW start, NEW next, Grows(n, S, start, next)
  PROVE  \E f : IsRow(f, n, S, start, next)
<1>0. n \in Nat /\ start \in S /\ \A i \in 1..n : \A x \in S : next[i][x] \in S
  BY DEF Grows
<1> DEFINE Is(f, k) == f[0] = start /\ \A i \in 1..k : f[i] = next[i][f[i - 1]]
           T == {k \in 0..n : \E f \in [0..k -> S] : Is(f, k)}
<1>1. 0 \in T
  <2>1. [i \in 0..0 |-> start] \in [0..0 -> S] /\ Is([i \in 0..0 |-> start], 0)
    BY <1>0
  <2>2. 0 \in 0..n
    BY <1>0
  <2> HIDE DEF Is
  <2> QED  BY <2>1, <2>2
<1>2. ASSUME NEW k \in 0..n - 1, k \in T
      PROVE  k + 1 \in T
  <2>1. PICK f \in [0..k -> S] : Is(f, k)
    BY <1>2
  <2> DEFINE x == next[k + 1][f[k]]
             g == [i \in 0..k + 1 |-> IF i = k + 1 THEN x ELSE f[i]]
  <2>2. x \in S
    BY <1>0, <2>1
  <2>3. f[0] = start /\ \A i \in 1..k : f[i] = next[i][f[i - 1]]
    BY <2>1
  <2> HIDE DEF Is
  <2>4. g \in [0..k + 1 -> S]
    <3> HIDE DEF x
    <3> QED  BY <1>0, <2>2
  <2>5. g[k + 1] = x /\ \A i \in 0..k : g[i] = f[i]
    <3> HIDE DEF x
    <3> QED  BY <1>0
  <2> HIDE DEF g
  <2>6. g[0] = start
    BY <1>0, <2>3, <2>5
  <2>7. ASSUME NEW i \in 1..k + 1
        PROVE  g[i] = next[i][g[i - 1]]
    <3>1. CASE i = k + 1
      <4>1. i - 1 = k /\ k \in 0..k
        BY <1>0, <3>1
      <4> QED  BY <2>5, <3>1, <4>1
    <3>2. CASE i # k + 1
      <4>1. i \in 1..k /\ i \in 0..k /\ i - 1 \in 0..k
        BY <1>0, <3>2
      <4> QED  BY <2>3, <2>5, <4>1
    <3> QED  BY <3>1, <3>2
  <2>8. Is(g, k + 1)
    BY <2>6, <2>7 DEF Is
  <2>9. k + 1 \in 0..n
    BY <1>0
  <2> QED  BY <2>4, <2>8, <2>9, Zenon
<1>3. n \in T
  <2> HIDE DEF T
  <2>1. \A k \in 0..n : k \in T
    BY <1>0, <1>1, <1>2, AllOfARow
  <2> QED  BY <1>0, <2>1
<1>4. PICK f \in [0..n -> S] : Is(f, n)
  BY <1>3, Zenon
<1> QED  BY <1>4, Zenon DEF IsRow

-----------------------------------------------------------------------------
(* The two checks of the aliases. *)

LEMMA NormalizedIsASequence ==
  ASSUME NEW A, NEW aliases \in Seq(A)
  PROVE  NormalizeAliases(aliases) \in Seq(A)
<1> DEFINE Known(kept, a) ==
             \E i \in DOMAIN kept : kept[i].alias = a.alias /\ kept[i].target = a.target
           Keep(kept, a) == IF Known(kept, a) THEN kept ELSE Append(kept, a)
           n == Len(aliases)
           Kept(f) == [i \in 0..n |-> IF i = 0 THEN <<>> ELSE Keep(f[i - 1], aliases[i])]
           kept == CHOOSE f : f = Kept(f)
           next == [i \in 1..n |-> [s \in Seq(A) |-> Keep(s, aliases[i])]]
<1>1. NormalizeAliases(aliases) = kept[n]
  BY Zenon DEF NormalizeAliases
<1>2. n \in Nat /\ \A i \in 1..n : aliases[i] \in A
  OBVIOUS
<1> HIDE DEF n
<1>3. \A s \in Seq(A) : \A a \in A : Keep(s, a) \in Seq(A)
  <2> SUFFICES ASSUME NEW s \in Seq(A), NEW a \in A PROVE Keep(s, a) \in Seq(A)
    OBVIOUS
  <2>1. Append(s, a) \in Seq(A)
    OBVIOUS
  <2> HIDE DEF Known
  <2> QED  BY <2>1
<1> HIDE DEF Keep
<1>4. \A i \in 1..n : \A s \in Seq(A) : next[i][s] \in Seq(A)
  BY <1>2, <1>3
<1>5. PICK f \in [0..n -> Seq(A)] : f[0] = <<>> /\ \A i \in 1..n : f[i] = next[i][f[i - 1]]
  <2> DEFINE S == Seq(A)
             start == <<>>
  <2>1. start \in S
    OBVIOUS
  <2>2. Grows(n, S, start, next)
    <3> HIDE DEF next, start
    <3> QED  BY <1>2, <1>4, <2>1 DEF Grows
  <2> HIDE DEF next, S, start
  <2>3. \E f : IsRow(f, n, S, start, next)
    BY <2>2, RowExists, Zenon
  <2> QED  BY <2>3, Zenon DEF IsRow, S, start
<1>6. f = Kept(f)
  <2>1. \A i \in 0..n : f[i] = Kept(f)[i]
    <3> SUFFICES ASSUME NEW i \in 0..n PROVE f[i] = Kept(f)[i]
      OBVIOUS
    <3>1. CASE i = 0
      BY <1>5, <3>1
    <3>2. CASE i # 0
      <4>1. i \in 1..n /\ i - 1 \in 0..n
        BY <1>2, <3>2
      <4>2. f[i - 1] \in Seq(A) /\ f[i] = next[i][f[i - 1]]
        BY <1>5, <4>1
      <4>3. f[i] = Keep(f[i - 1], aliases[i])
        BY <4>1, <4>2
      <4> QED  BY <3>2, <4>3
    <3> QED  BY <3>1, <3>2
  <2>2. f = [i \in 0..n |-> f[i]] /\ Kept(f) = [i \in 0..n |-> Kept(f)[i]]
    OBVIOUS
  <2> HIDE DEF Kept
  <2> QED  BY <2>1, <2>2
<1>7. kept = Kept(kept)
  <2> HIDE DEF Kept
  <2> QED  BY <1>6
<1> HIDE DEF kept
<1>8. \A i \in 0..n : kept[i] = IF i = 0 THEN <<>> ELSE Keep(kept[i - 1], aliases[i])
  BY <1>7
<1> HIDE DEF Kept
<1> DEFINE T == {i \in 0..n : kept[i] \in Seq(A)}
<1>9. 0 \in T
  <2>1. 0 \in 0..n
    BY <1>2
  <2>2. kept[0] = <<>>
    BY <1>8, <2>1
  <2>3. kept[0] \in Seq(A)
    <3> HIDE DEF kept
    <3> QED  BY <2>2
  <2> QED  BY <2>1, <2>3, Zenon
<1>10. \A i \in 0..n - 1 : i \in T => i + 1 \in T
  <2> SUFFICES ASSUME NEW i \in 0..n - 1, i \in T PROVE i + 1 \in T
    OBVIOUS
  <2>1. kept[i] \in Seq(A) /\ i + 1 \in 0..n /\ i + 1 \in 1..n /\ (i + 1) - 1 = i /\ i + 1 # 0
    BY <1>2
  <2>2. kept[i + 1] = Keep(kept[i], aliases[i + 1])
    BY <1>8, <2>1
  <2> QED  BY <1>2, <1>3, <2>1, <2>2
<1>11. n \in T
  <2> HIDE DEF T
  <2>1. \A i \in 0..n : i \in T
    BY <1>2, <1>9, <1>10, AllOfARow
  <2> QED  BY <1>2, <2>1
<1> QED  BY <1>1, <1>11

\* The two lists of embedded models have the same names.
LEMMA EmbeddedNames == DOMAIN EmbeddedModels = DefaultEmbeddedModelNames
BY DEF EmbeddedModels, DefaultEmbeddedModelNames, BudgetsOnly, BudgetsOrNone, NoThinkingAtAll,
       ThreeLevels, FourLevels

IsJoined(s, t, u) ==
  /\ DOMAIN u = 1..Len(s) + Len(t)
  /\ \A i \in 1..Len(s) : u[i] = s[i]
  /\ \A i \in 1..Len(t) : u[Len(s) + i] = t[i]

LEMMA JoinedRow ==
  ASSUME NEW S, NEW T, NEW s \in Seq(S), NEW t \in Seq(T)
  PROVE  IsJoined(s, t, s \o t)
BY DEF IsJoined

\* A valid configuration that makes no registry repeats a built-in alias.
LEMMA RefusedForAnAlias ==
  ASSUME NEW cfg, NEW A, cfg.aliases \in Seq(A), ValidModels(cfg), NewRegistry(cfg) = <<>>
  PROVE  /\ cfg.source = "embedded"
         /\ \E i \in DOMAIN cfg.aliases, j \in DOMAIN BuiltInAliases :
              cfg.aliases[i].alias = BuiltInAliases[j].alias
<1> DEFINE own == cfg.aliases
           rules == AliasesOf(cfg)
           models == BaseModels(cfg)
<1>1. /\ Distinct(cfg.entries, EntryName)
      /\ \A i, j \in DOMAIN own : own[i].alias = own[j].alias => i = j
      /\ \A i \in DOMAIN own : own[i].alias # own[i].target /\ own[i].target \in KnownTargets(cfg)
  BY DEF ValidModels, Distinct, AliasName
<1>2. ~ (/\ \A i, j \in DOMAIN rules : rules[i].alias = rules[j].alias => i = j
         /\ \A i \in DOMAIN rules : rules[i].alias # rules[i].target /\ rules[i].target \in DOMAIN models)
  <2>1. ~ (/\ Distinct(cfg.entries, EntryName)
           /\ Distinct(rules, AliasName)
           /\ \A i \in DOMAIN rules : rules[i].alias # rules[i].target /\ rules[i].target \in DOMAIN models)
    <3> DEFINE registryMade == [models |-> models,
                                aliases |-> [a \in {rules[i].alias : i \in DOMAIN rules} |->
                                               rules[CHOOSE i \in DOMAIN rules : rules[i].alias = a]]]
    <3>1. NewRegistry(cfg) =
            IF /\ Distinct(cfg.entries, EntryName)
               /\ Distinct(rules, AliasName)
               /\ \A i \in DOMAIN rules :
                    rules[i].alias # rules[i].target /\ rules[i].target \in DOMAIN models
            THEN <<registryMade>> ELSE <<>>
      BY Zenon DEF NewRegistry
    <3>2. <<registryMade>> # <<>>
      <4> HIDE DEF registryMade
      <4> QED  OBVIOUS
    <3> QED  BY <3>1, <3>2, Zenon
  <2> HIDE DEF rules, models
  <2> QED  BY <1>1, <2>1 DEF Distinct, AliasName
<1>3. DOMAIN models = KnownTargets(cfg)
  <2>1. CASE cfg.source = "embedded"
    BY <2>1, EmbeddedNames DEF BaseModels, KnownTargets
  <2>2. CASE cfg.source # "embedded"
    BY <2>2 DEF BaseModels, KnownTargets
  <2> QED  BY <2>1, <2>2
<1> HIDE DEF models
<1>4. CASE cfg.source # "embedded"
  <2>1. rules = own
    <3>1. rules = <<>> \o own
      BY <1>4, Zenon DEF AliasesOf
    <3> HIDE DEF rules
    <3> QED  BY <3>1
  <2> HIDE DEF rules
  <2> QED  BY <1>1, <1>2, <1>3, <2>1, Zenon
<1>5. CASE cfg.source = "embedded"
  <2> SUFFICES ASSUME \A i \in DOMAIN own, j \in DOMAIN BuiltInAliases :
                        own[i].alias # BuiltInAliases[j].alias
               PROVE  FALSE
    BY <1>5
  <2>1. rules = BuiltInAliases \o own
    BY <1>5, Zenon DEF AliasesOf
  <2>2. /\ DOMAIN BuiltInAliases = 1..2
        /\ \A i, j \in 1..2 : BuiltInAliases[i].alias = BuiltInAliases[j].alias => i = j
        /\ \A i \in 1..2 : /\ BuiltInAliases[i].alias # BuiltInAliases[i].target
                           /\ BuiltInAliases[i].target \in DOMAIN models
    <3>1. DOMAIN models = DefaultEmbeddedModelNames
      BY <1>3, <1>5 DEF KnownTargets
    <3>2. /\ BuiltInAliases[1].alias = "gemini-2.5-flash-image-preview"
          /\ BuiltInAliases[1].target = "gemini-2.5-flash-image"
          /\ BuiltInAliases[2].alias = "gemini-3.1-flash-lite-preview"
          /\ BuiltInAliases[2].target = "gemini-3.1-flash-lite"
          /\ DOMAIN BuiltInAliases = 1..2
      BY DEF BuiltInAliases, Alias
    <3>3. {BuiltInAliases[1].target, BuiltInAliases[2].target} \subseteq DOMAIN models
      BY <3>1, <3>2 DEF DefaultEmbeddedModelNames
    <3>4. \A i \in 1..2 : i = 1 \/ i = 2
      OBVIOUS
    <3> QED  BY <3>2, <3>3, <3>4
  <2>3. /\ DOMAIN rules = 1..2 + Len(own)
        /\ \A i \in 1..2 : rules[i] = BuiltInAliases[i]
        /\ \A i \in 3..2 + Len(own) : rules[i] = own[i - 2] /\ i - 2 \in DOMAIN own
    <3> DEFINE S == {BuiltInAliases[1], BuiltInAliases[2]}
    <3>1. BuiltInAliases \in Seq(S) /\ Len(BuiltInAliases) = 2
      BY DEF BuiltInAliases
    <3> HIDE DEF rules, own, S
    <3>2. own \in Seq(A)
      BY DEF own
    <3>3. /\ DOMAIN rules = 1..Len(BuiltInAliases) + Len(own)
          /\ \A i \in 1..Len(BuiltInAliases) : rules[i] = BuiltInAliases[i]
          /\ \A i \in 1..Len(own) : rules[Len(BuiltInAliases) + i] = own[i]
      <4>1. BuiltInAliases \in Seq(S)
        BY <3>1
      <4>2. IsJoined(BuiltInAliases, own, BuiltInAliases \o own)
        BY <3>2, <4>1, JoinedRow, Zenon
      <4> QED  BY <2>1, <4>2, Zenon DEF IsJoined
    <3>4. Len(own) \in Nat /\ DOMAIN own = 1..Len(own)
      BY <3>2
    <3>5. ASSUME NEW i \in 3..2 + Len(own)
          PROVE  rules[i] = own[i - 2] /\ i - 2 \in DOMAIN own
      <4>1. i - 2 \in 1..Len(own) /\ 2 + (i - 2) = i
        BY <3>4
      <4> QED  BY <3>1, <3>3, <3>4, <4>1
    <3> QED  BY <3>1, <3>3, <3>5
  <2> HIDE DEF rules
  <2>4. Len(own) \in Nat /\ DOMAIN own = 1..Len(own)
    OBVIOUS
  <2> HIDE DEF own
  <2>5. ASSUME NEW i \in DOMAIN rules
        PROVE  i \in 1..2 \/ i \in 3..2 + Len(own)
    BY <2>3, <2>4
  <2>6. ASSUME NEW i \in DOMAIN rules, NEW j \in DOMAIN rules, rules[i].alias = rules[j].alias
        PROVE  i = j
    <3>1. CASE i \in 1..2 /\ j \in 1..2
      BY <2>2, <2>3, <2>6, <3>1
    <3>2. CASE i \in 3..2 + Len(own) /\ j \in 3..2 + Len(own)
      <4>1. i - 2 = j - 2
        BY <1>1, <2>3, <2>6, <3>2
      <4> QED  BY <3>2, <4>1, <2>4
    <3>3. CASE i \in 1..2 /\ j \in 3..2 + Len(own)
      BY <2>2, <2>3, <2>6, <3>3
    <3>4. CASE i \in 3..2 + Len(own) /\ j \in 1..2
      BY <2>2, <2>3, <2>6, <3>4
    <3> QED  BY <2>5, <3>1, <3>2, <3>3, <3>4
  <2>7. ASSUME NEW i \in DOMAIN rules
        PROVE  rules[i].alias # rules[i].target /\ rules[i].target \in DOMAIN models
    <3>1. CASE i \in 1..2
      BY <2>2, <2>3, <3>1
    <3>2. CASE i \in 3..2 + Len(own)
      BY <1>1, <1>3, <2>3, <3>2
    <3> QED  BY <2>5, <3>1, <3>2
  <2> QED  BY <1>2, <2>6, <2>7
<1> QED  BY <1>4, <1>5

\* A gateway that has failed to start has a valid configuration that makes no registry.
FailedInv ==
  phase = "failed" => /\ config.models.aliases \in Seq([alias : STRING, target : STRING])
                      /\ ValidModels(config.models) /\ NewRegistry(config.models) = <<>>

\* What the validation lets through makes a registry, whatever the configuration: only an alias
\* that repeats a built-in one gets as far as the registry and is refused there
\* (validateModelsConfig, models.New).
THEOREM ValidationAlwaysSuffices == Spec => []ValidationSuffices
<1>1. Init => FailedInv
  BY DEF Init, FailedInv
<1>2. ASSUME Inv, FailedInv, [Next]_vars PROVE FailedInv'
  <2>1. CASE Load
    <3> SUFFICES ASSUME phase' = "failed" PROVE FailedInv'
      BY DEF FailedInv
    <3> DEFINE A == [alias : STRING, target : STRING]
               models == Normalized(config.models)
    <3>1. /\ config' = [config EXCEPT !.models = models]
          /\ registry' = IF ValidModels(models) THEN NewRegistry(models) ELSE <<>>
          /\ phase' = CASE ~ValidModels(models) -> "invalid"
                        [] ValidModels(models) /\ registry' = <<>> -> "failed"
                        [] OTHER -> "serving"
      BY <2>1 DEF Load
    <3>2. config \in Settings
      BY <1>2, <2>1 DEF Load, Inv
    <3>3. config.models.aliases \in Seq(A) /\ "aliases" \in DOMAIN config.models
      BY <3>2 DEF Settings
    <3>4. models.aliases \in Seq(A)
      <4>1. models.aliases = NormalizeAliases(config.models.aliases)
        BY <3>3 DEF Normalized
      <4> HIDE DEF models, A
      <4> QED  BY <3>3, <4>1, NormalizedIsASequence
    <3>5. config'.models = models
      <4> HIDE DEF models
      <4> QED  BY <3>1, <3>2 DEF Settings
    <3> HIDE DEF models
    <3>6. ValidModels(models) /\ NewRegistry(models) = <<>>
      <4>1. ValidModels(models) /\ registry' = <<>>
        <5>1. CASE ~ValidModels(models)
          BY <3>1, <5>1
        <5>2. CASE ValidModels(models) /\ registry' # <<>>
          BY <3>1, <5>2
        <5> QED  BY <5>1, <5>2
      <4> QED  BY <3>1, <4>1
    <3>7. ValidModels(config'.models) /\ NewRegistry(config'.models) = <<>>
      BY <3>5, <3>6
    <3> QED  BY <3>4, <3>5, <3>7, Zenon DEF FailedInv
  <2>2. CASE Ask \/ Continue \/ Rephrase
    <3>1. \E r : Send(r)
      BY <2>2 DEF Ask, Continue, Rephrase, Change
    <3> QED  BY <3>1 DEF Send, FailedInv
  <2>3. CASE UNCHANGED vars
    BY <1>2, <2>3 DEF FailedInv, vars
  <2> QED  BY <1>2, <2>1, <2>2, <2>3 DEF Next
<1>3. FailedInv => ValidationSuffices
  BY RefusedForAnAlias DEF FailedInv, ValidationSuffices
<1> QED  BY <1>1, <1>2, <1>3, InvInit, InvNext, PTL DEF Spec

-----------------------------------------------------------------------------
(* The history of a conversation. *)

\* The same as t as far as s goes.
Begins(s, t) ==
  /\ DOMAIN s = 1..Len(s) /\ DOMAIN t = 1..Len(t)
  /\ Len(s) \in Nat /\ Len(t) \in Nat /\ Len(s) <= Len(t)
  /\ \A i \in 1..Len(s) : s[i] = t[i]

LEMMA BeginsIsPrefix ==
  ASSUME NEW s, NEW t, s = [i \in DOMAIN s |-> s[i]], t = [i \in DOMAIN t |-> t[i]], Begins(s, t)
  PROVE  IsPrefix(s, t)
<1> DEFINE S == {s[i] : i \in DOMAIN s} \cup {t[i] : i \in DOMAIN t}
<1>1. s \in [1..Len(s) -> S] /\ t \in [1..Len(t) -> S]
  BY DEF Begins
<1> HIDE DEF S
<1>2. s \in Seq(S) /\ t \in Seq(S)
  BY <1>1 DEF Begins
<1> QED  BY <1>2 DEF Begins, IsPrefix

\* A step that makes of every content something that depends on it and the one before keeps
\* what a history begins with.
Mapped(s, t, f, g) ==
  /\ f = [i \in DOMAIN s |-> f[i]] /\ g = [i \in DOMAIN t |-> g[i]]
  /\ \A i \in 1..Len(s) : f[i] = g[i]

LEMMA MappedBegins ==
  ASSUME NEW s, NEW t, Begins(s, t), NEW f, NEW g, Mapped(s, t, f, g)
  PROVE  Begins(f, g)
<1>1. DOMAIN f = 1..Len(s) /\ DOMAIN g = 1..Len(t)
  BY DEF Begins, Mapped
<1>2. Len(f) = Len(s) /\ Len(g) = Len(t)
  BY <1>1 DEF Begins
<1> QED  BY <1>1, <1>2 DEF Begins, Mapped

\* normalizeContentRoles, content by content.
RoleAfter(c, last) == IF c.role \in Roles THEN c.role ELSE IF last = "user" THEN "model" ELSE "user"

RoleRow(cs, role) ==
  /\ role[0] = "none"
  /\ \A i \in 1..Len(cs) : role[i] = RoleAfter(cs[i], role[i - 1])
  /\ NormalizeContentRoles(cs) = [i \in DOMAIN cs |-> [cs[i] EXCEPT !.role = role[i]]]

LEMMA RolesInARow ==
  ASSUME NEW cs, Len(cs) \in Nat
  PROVE  \E role : RoleRow(cs, role)
<1> DEFINE n == Len(cs)
           S == {"none", "user", "model"}
           next == [i \in 1..n |-> [x \in S |-> RoleAfter(cs[i], x)]]
           Row(f) == [i \in 0..n |-> IF i = 0 THEN "none"
                                     ELSE IF cs[i].role \in Roles THEN cs[i].role
                                     ELSE IF f[i - 1] = "user" THEN "model" ELSE "user"]
           role == CHOOSE f : f = Row(f)
<1>1. NormalizeContentRoles(cs) = [i \in DOMAIN cs |-> [cs[i] EXCEPT !.role = role[i]]]
  BY Zenon DEF NormalizeContentRoles
<1>2. n \in Nat
  OBVIOUS
<1> HIDE DEF n
<1>3. \A c, x : RoleAfter(c, x) \in S
  BY DEF RoleAfter, Roles
<1>4. Grows(n, S, "none", next)
  <2>1. \A i \in 1..n : \A x \in S : next[i][x] \in S
    <3> HIDE DEF S
    <3> QED  BY <1>3
  <2> HIDE DEF next
  <2> QED  BY <1>2, <2>1 DEF Grows
<1>5. PICK f : IsRow(f, n, S, "none", next)
  <2> HIDE DEF S, next
  <2> QED  BY <1>4, RowExists, Zenon
<1>6. f \in [0..n -> S] /\ f[0] = "none" /\ \A i \in 1..n : f[i] = RoleAfter(cs[i], f[i - 1])
  <2>1. f \in [0..n -> S] /\ f[0] = "none" /\ \A i \in 1..n : f[i] = next[i][f[i - 1]]
    BY <1>5, Zenon DEF IsRow
  <2>2. \A i \in 1..n : i - 1 \in 0..n
    BY <1>2
  <2> HIDE DEF S
  <2>3. \A i \in 1..n : f[i - 1] \in S
    BY <2>1, <2>2
  <2> QED  BY <2>1, <2>3
<1>7. f = Row(f)
  <2>1. \A i \in 0..n : f[i] = Row(f)[i]
    <3> SUFFICES ASSUME NEW i \in 0..n PROVE f[i] = Row(f)[i]
      OBVIOUS
    <3>1. CASE i = 0
      BY <1>6, <3>1
    <3>2. CASE i # 0
      <4>1. i \in 1..n
        BY <1>2, <3>2
      <4> QED  BY <1>6, <3>2, <4>1 DEF RoleAfter
    <3> QED  BY <3>1, <3>2
  <2>2. f = [i \in 0..n |-> f[i]] /\ Row(f) = [i \in 0..n |-> Row(f)[i]]
    BY <1>6
  <2> HIDE DEF Row
  <2> QED  BY <2>1, <2>2
<1>8. role = Row(role)
  <2> HIDE DEF Row
  <2> QED  BY <1>7
<1> HIDE DEF role
<1>9. role[0] = "none" /\ \A i \in 1..n : role[i] = RoleAfter(cs[i], role[i - 1])
  <2>1. 0 \in 0..n /\ \A i \in 1..n : i \in 0..n /\ i # 0
    BY <1>2
  <2> QED  BY <1>8, <2>1 DEF RoleAfter
<1> QED  BY <1>1, <1>9 DEF RoleRow, n

LEMMA RolesBegin ==
  ASSUME NEW cs, NEW ds, Begins(cs, ds)
  PROVE  Begins(NormalizeContentRoles(cs), NormalizeContentRoles(ds))
<1>1. PICK a : RoleRow(cs, a)
  BY RolesInARow DEF Begins
<1>2. PICK b : RoleRow(ds, b)
  BY RolesInARow DEF Begins
<1> DEFINE n == Len(cs)
           T == {i \in 0..n : a[i] = b[i]}
<1>3. n \in Nat /\ \A i \in 1..n : i \in 1..Len(ds) /\ cs[i] = ds[i]
  BY DEF Begins
<1>4. 0 \in T
  BY <1>1, <1>2, <1>3 DEF RoleRow
<1>5. \A i \in 0..n - 1 : i \in T => i + 1 \in T
  <2> SUFFICES ASSUME NEW i \in 0..n - 1, i \in T PROVE i + 1 \in T
    OBVIOUS
  <2>1. i + 1 \in 1..n /\ i + 1 \in 0..n /\ (i + 1) - 1 = i /\ a[i] = b[i]
    BY <1>3
  <2>2. a[i + 1] = RoleAfter(cs[i + 1], a[i]) /\ b[i + 1] = RoleAfter(ds[i + 1], b[i])
    BY <1>1, <1>2, <1>3, <2>1 DEF RoleRow
  <2>3. a[i + 1] = b[i + 1]
    BY <1>3, <2>1, <2>2
  <2> QED  BY <2>1, <2>3
<1>6. \A i \in 0..n : a[i] = b[i]
  <2>1. \A i \in 0..n : i \in T
    <3> HIDE DEF T
    <3> QED  BY <1>3, <1>4, <1>5, AllOfARow
  <2> QED  BY <2>1
<1> DEFINE f == NormalizeContentRoles(cs)
           g == NormalizeContentRoles(ds)
<1>7. f = [i \in DOMAIN cs |-> [cs[i] EXCEPT !.role = a[i]]]
  BY <1>1 DEF RoleRow
<1>8. g = [i \in DOMAIN ds |-> [ds[i] EXCEPT !.role = b[i]]]
  BY <1>2 DEF RoleRow
<1>9. \A i \in 1..n : f[i] = g[i]
  <2> HIDE DEF f, g
  <2> SUFFICES ASSUME NEW i \in 1..n PROVE f[i] = g[i]
    OBVIOUS
  <2>1. i \in DOMAIN cs /\ i \in DOMAIN ds /\ cs[i] = ds[i] /\ a[i] = b[i]
    BY <1>3, <1>6 DEF Begins
  <2> QED  BY <1>7, <1>8, <2>1
<1>10. f = [i \in DOMAIN cs |-> f[i]] /\ g = [i \in DOMAIN ds |-> g[i]]
  <2> HIDE DEF f, g
  <2> QED  BY <1>7, <1>8
<1> HIDE DEF f, g
<1>11. Mapped(cs, ds, f, g)
  BY <1>9, <1>10 DEF Mapped
<1>12. Begins(f, g)
  BY <1>11, MappedBegins
<1> QED  BY <1>12 DEF f, g

\* normalizeThoughtSignatures and backfillEmptyFunctionResponseNames, content by content.
Signed(c) ==
  LET Skip(p) == IF p.kind = "call" \/ p.signature # "none" THEN [p EXCEPT !.signature = "skip"] ELSE p
  IN  IF c.role = "model" THEN [c EXCEPT !.parts = [j \in DOMAIN @ |-> Skip(@[j])]] ELSE c

LEMMA SignaturesBegin ==
  ASSUME NEW cs, NEW ds, Begins(cs, ds)
  PROVE  Begins(NormalizeThoughtSignatures(cs), NormalizeThoughtSignatures(ds))
<1>1. /\ NormalizeThoughtSignatures(cs) = [i \in DOMAIN cs |-> Signed(cs[i])]
      /\ NormalizeThoughtSignatures(ds) = [i \in DOMAIN ds |-> Signed(ds[i])]
  BY Zenon DEF NormalizeThoughtSignatures, Signed
<1> DEFINE f == NormalizeThoughtSignatures(cs)
           g == NormalizeThoughtSignatures(ds)
<1> HIDE DEF f, g
<1>2. f = [i \in DOMAIN cs |-> Signed(cs[i])] /\ g = [i \in DOMAIN ds |-> Signed(ds[i])]
  BY <1>1 DEF f, g
<1>3. \A i \in 1..Len(cs) : f[i] = g[i]
  BY <1>2 DEF Begins
<1>4. Mapped(cs, ds, f, g)
  BY <1>2, <1>3 DEF Mapped
<1>5. Begins(f, g)
  BY <1>4, MappedBegins
<1> QED  BY <1>5 DEF f, g

Filled(c, pending) ==
  LET FilledPart(parts, j) ==
        LET k == ResponsesUpTo(parts, j)
        IN  IF parts[j].kind = "response" /\ parts[j].name = "none" /\ k <= Len(pending)
            THEN [parts[j] EXCEPT !.name = pending[k]]
            ELSE parts[j]
  IN  IF c.role = "model" THEN c
      ELSE [c EXCEPT !.parts = [j \in DOMAIN @ |-> FilledPart(@, j)]]

LEMMA NamesBegin ==
  ASSUME NEW cs, NEW ds, Begins(cs, ds)
  PROVE  Begins(BackfillEmptyFunctionResponseNames(cs), BackfillEmptyFunctionResponseNames(ds))
<1>1. /\ BackfillEmptyFunctionResponseNames(cs) = [i \in DOMAIN cs |-> Filled(cs[i], PendingCallNames(cs, i))]
      /\ BackfillEmptyFunctionResponseNames(ds) = [i \in DOMAIN ds |-> Filled(ds[i], PendingCallNames(ds, i))]
  BY Zenon DEF BackfillEmptyFunctionResponseNames, Filled
<1> DEFINE f == BackfillEmptyFunctionResponseNames(cs)
           g == BackfillEmptyFunctionResponseNames(ds)
<1> HIDE DEF f, g
<1>2. /\ f = [i \in DOMAIN cs |-> Filled(cs[i], PendingCallNames(cs, i))]
      /\ g = [i \in DOMAIN ds |-> Filled(ds[i], PendingCallNames(ds, i))]
  BY <1>1 DEF f, g
<1>3. ASSUME NEW i \in 1..Len(cs)
      PROVE  f[i] = g[i]
  <2>1. PendingCallNames(cs, i) = PendingCallNames(ds, i)
    <3>1. i > 1 => i - 1 \in 1..Len(cs)
      BY DEF Begins
    <3>2. i > 1 => cs[i - 1] = ds[i - 1]
      BY <3>1 DEF Begins
    <3> QED  BY <3>2, Zenon DEF PendingCallNames
  <2>2. i \in DOMAIN cs /\ i \in DOMAIN ds /\ cs[i] = ds[i]
    BY DEF Begins
  <2> QED  BY <1>2, <2>1, <2>2
<1>4. Mapped(cs, ds, f, g)
  BY <1>2, <1>3 DEF Mapped
<1>5. Begins(f, g)
  BY <1>4, MappedBegins
<1> QED  BY <1>5 DEF f, g

\* With a content added at the end, all before it is normalised as it was.
LEMMA ContentsBegin ==
  ASSUME NEW A, NEW cs \in Seq(A), NEW turn \in A
  PROVE  IsPrefix(NormalizeContents(cs), NormalizeContents(Append(cs, turn)))
<1> DEFINE ds == Append(cs, turn)
           f == NormalizeContents(cs)
           g == NormalizeContents(ds)
<1>1. Begins(cs, ds)
  BY DEF Begins
<1> HIDE DEF ds
<1>2. Begins(f, g)
  <2>1. Begins(NormalizeContentRoles(cs), NormalizeContentRoles(ds))
    BY <1>1, RolesBegin
  <2>2. Begins(NormalizeThoughtSignatures(NormalizeContentRoles(cs)),
               NormalizeThoughtSignatures(NormalizeContentRoles(ds)))
    BY <2>1, SignaturesBegin
  <2> QED  BY <2>2, NamesBegin DEF NormalizeContents
<1>3. f = [i \in DOMAIN f |-> f[i]] /\ g = [i \in DOMAIN g |-> g[i]]
  <2>1. \A s : BackfillEmptyFunctionResponseNames(s) =
                 [i \in DOMAIN s |-> Filled(s[i], PendingCallNames(s, i))]
    BY Zenon DEF BackfillEmptyFunctionResponseNames, Filled
  <2>2. \A s : BackfillEmptyFunctionResponseNames(s) =
                 [i \in DOMAIN BackfillEmptyFunctionResponseNames(s) |->
                    BackfillEmptyFunctionResponseNames(s)[i]]
    BY <2>1
  <2> QED  BY <2>2, Zenon DEF NormalizeContents
<1> HIDE DEF f, g
<1>4. IsPrefix(f, g)
  BY <1>2, <1>3, BeginsIsPrefix
<1> QED  BY <1>4 DEF f, g, ds

\* What normalises a body does to its contents; the picture asked for stays.
LEMMA NormalizedContents ==
  ASSUME NEW body \in Bodies, NEW mode, NormalizeRequest(body, mode) # <<>>
  PROVE  LET out == NormalizeRequest(body, mode)[1]
         IN  /\ out.contents = [k \in DOMAIN body.contents |-> NormalizeContents(body.contents[k])]
             /\ out.aspectRatio = body.aspectRatio
             /\ {"contents", "aspectRatio"} \subseteq DOMAIN out
<1> DEFINE schema == Renamed(body, "responseSchema", "responseJsonSchema")
           inner == [schema EXCEPT !.tools = NormalizeTools(@),
                                   !.contents = [k \in DOMAIN @ |-> NormalizeContents(@[k])]]
           out == AttachSafetySettings(inner, mode)
           new == [k \in DOMAIN body.contents |-> NormalizeContents(body.contents[k])]
           Fields == {"contents", "aspectRatio"}
<1>1. Fields \subseteq DOMAIN body
  BY DEF Bodies
<1>2. /\ schema.contents = body.contents /\ schema.aspectRatio = body.aspectRatio
      /\ Fields \subseteq DOMAIN schema
  BY <1>1 DEF Renamed
<1>3. /\ inner = [schema EXCEPT !.tools = NormalizeTools(schema.tools), !.contents = new]
  BY <1>2
<1> HIDE DEF schema, new
<1>4. inner.contents = new /\ inner.aspectRatio = body.aspectRatio /\ Fields \subseteq DOMAIN inner
  <2> HIDE DEF inner
  <2> QED  BY <1>2, <1>3
<1> HIDE DEF inner
<1>5. out.contents = new /\ out.aspectRatio = body.aspectRatio /\ Fields \subseteq DOMAIN out
  BY <1>4 DEF AttachSafetySettings
<1>6. NormalizeRequest(body, mode) = <<out>>
  <2>1. body.legal
    BY DEF NormalizeRequest
  <2> QED  BY <2>1, Zenon DEF NormalizeRequest, out, inner, schema
<1> HIDE DEF out
<1>7. NormalizeRequest(body, mode)[1] = out
  BY <1>6
<1> QED  BY <1>5, <1>7 DEF new

\* A white picture may be put into the contents of what is prepared.
MayHavePlaceholder(r) ==
  /\ config.imagePreview /\ PrepareBase(r)[1] = "gemini-2.5-flash-image"
  /\ r.body.aspectRatio /\ Generates(r)

\* Otherwise the contents are sent as they are normalised.
LEMMA SentContents ==
  ASSUME NEW r \in GatewayRequests, Prepare(r) # <<>>, ~MayHavePlaceholder(r)
  PROVE  Prepare(r)[1].body.contents =
           [k \in DOMAIN r.body.contents |-> NormalizeContents(r.body.contents[k])]
<1> DEFINE base == PrepareBase(r)
           body == NormalizeRequest(r.body, config.safetyMode)
           new == [k \in DOMAIN r.body.contents |-> NormalizeContents(r.body.contents[k])]
<1>1. r.body \in Bodies
  BY DEF GatewayRequests
<1>2. body # <<>> => /\ body[1].contents = new
                     /\ body[1].aspectRatio = r.body.aspectRatio
                     /\ {"contents", "aspectRatio"} \subseteq DOMAIN body[1]
  BY <1>1, NormalizedContents
<1> HIDE DEF new
<1>3. CASE r.action = "countTokens"
  <2> DEFINE sent == StripCountTokensUnsupported(body[1])
  <2>1. Prepare(r) = PrepareCountTokens(r)
    BY <1>3, Zenon DEF Prepare
  <2>2. PrepareCountTokens(r) = IF base = <<>> \/ body = <<>> THEN <<>>
                                ELSE Preparation(base[1], r, sent)
    BY Zenon DEF PrepareCountTokens
  <2> HIDE DEF body, base
  <2>3. body # <<>> => sent.contents = new
    <3> DEFINE stripped == StripGatewayOnly(body[1])
    <3>1. body # <<>> => stripped.contents = new /\ "contents" \in DOMAIN stripped
      BY <1>2 DEF StripGatewayOnly
    <3> HIDE DEF stripped
    <3>2. sent = [stripped EXCEPT
            !.thinking = NoFields, !.responseSchema = <<>>, !.responseJsonSchema = <<>>,
            !.aspectRatio = FALSE, !.responseModalities = <<>>, !.tools = <<>>, !.safetySettings = <<>>]
      BY Zenon DEF stripped, StripCountTokensUnsupported
    <3> HIDE DEF sent
    <3> QED  BY <3>1, <3>2
  <2> HIDE DEF sent
  <2>4. body # <<>> /\ Prepare(r) = Preparation(base[1], r, sent)
    BY <2>1, <2>2
  <2>5. Prepare(r)[1].body = sent
    BY <2>4 DEF Preparation
  <2> QED  BY <2>3, <2>4, <2>5 DEF new
<1>4. CASE r.action # "countTokens"
  <2> DEFINE thinking == ApplyThinking(body[1].thinking, r.suffix,
                                       registry[1].models[base[1]].thinking,
                                       config.thinkingOff, config.strict)
             applied == [body[1] EXCEPT !.thinking = thinking[1]]
             stripped == StripGatewayOnly(applied)
             sent == ApplyImagePreview(base[1], stripped, config.imagePreview)
  <2>1. Prepare(r) = PrepareGenerate(r)
    BY <1>4, Zenon DEF Prepare
  <2>2. PrepareGenerate(r) = IF base = <<>> \/ body = <<>> \/ thinking = <<>> THEN <<>>
                             ELSE Preparation(base[1], r, sent)
    BY Zenon DEF PrepareGenerate
  <2>3. ~ (/\ config.imagePreview /\ base[1] = "gemini-2.5-flash-image" /\ r.body.aspectRatio)
    BY <1>4, Zenon DEF MayHavePlaceholder, Generates
  <2> HIDE DEF body, base, thinking
  <2>4. body # <<>> => /\ applied.contents = new /\ applied.aspectRatio = r.body.aspectRatio
                       /\ {"contents", "aspectRatio"} \subseteq DOMAIN applied
    BY <1>2
  <2> HIDE DEF applied
  <2>5. body # <<>> => stripped.contents = new /\ stripped.aspectRatio = r.body.aspectRatio
    BY <2>4 DEF StripGatewayOnly
  <2> HIDE DEF stripped
  <2>6. body # <<>> => sent = stripped
    BY <2>3, <2>5, Zenon DEF ApplyImagePreview
  <2> HIDE DEF sent
  <2>7. body # <<>> /\ Prepare(r) = Preparation(base[1], r, sent)
    BY <2>1, <2>2
  <2>8. Prepare(r)[1].body = sent
    BY <2>7 DEF Preparation
  <2> QED  BY <2>5, <2>6, <2>7, <2>8 DEF new
<1> QED  BY <1>3, <1>4

\* A request with one more content asks for the same of the same model.
Continues(r, q, turn) == r = [q EXCEPT !.body.contents[1] = Append(@, turn)]

AsksTheSame(r, q, turn) ==
  /\ r.body.contents = [q.body.contents EXCEPT ![1] = Append(@, turn)]
  /\ r.body.aspectRatio = q.body.aspectRatio
  /\ r.action = q.action /\ r.declared = q.declared /\ r.model = q.model

LEMMA ContinuedRequest ==
  ASSUME NEW q \in GatewayRequests, NEW turn \in ContentType, q.body.contents # <<>>,
         NEW r, Continues(r, q, turn)
  PROVE  AsksTheSame(r, q, turn)
<1> DEFINE longer == [q.body.contents EXCEPT ![1] = Append(@, turn)]
           body == [q.body EXCEPT !.contents = longer]
<1>1. r = [q EXCEPT !.body = body]
  BY DEF Continues
<1> HIDE DEF longer
<1>2. body.contents = longer /\ body.aspectRatio = q.body.aspectRatio
  BY DEF GatewayRequests, Bodies
<1> HIDE DEF body
<1>3. r.body = body /\ r.action = q.action /\ r.declared = q.declared /\ r.model = q.model
  BY <1>1 DEF GatewayRequests
<1> QED  BY <1>2, <1>3 DEF longer, AsksTheSame

\* The conversation of what is sent next begins with the one sent before.
LEMMA ContinuedIsSent ==
  ASSUME Inv, Serving, ~HasPlaceholder, NEW turn \in Turns, request[1].body.contents # <<>>,
         NEW r, r = [request[1] EXCEPT !.body.contents[1] = Append(@, turn)], Prepare(r) # <<>>
  PROVE  IsPrefix(prepared[1].body.contents[1], Prepare(r)[1].body.contents[1])
<1> DEFINE q == request[1]
           cs == q.body.contents[1]
<1>1. /\ q \in GatewayRequests /\ q.body.contents # <<>> /\ turn \in ContentType
      /\ prepared = Prepare(q) /\ Prepare(q) # <<>> /\ Sound(registry[1])
  BY ClientAssumption DEF Inv, Serving
<1>2. r \in GatewayRequests
  BY <1>1, ContinuedIsARequest
<1> HIDE DEF q
<1>3. /\ r.body.contents = [q.body.contents EXCEPT ![1] = Append(@, turn)]
      /\ r.body.aspectRatio = q.body.aspectRatio
      /\ r.action = q.action /\ r.declared = q.declared /\ r.model = q.model
  <2>1. Continues(r, q, turn)
    BY Zenon DEF q, Continues
  <2>2. q \in GatewayRequests /\ turn \in ContentType /\ q.body.contents # <<>>
    BY <1>1
  <2>3. AsksTheSame(r, q, turn)
    BY <2>1, <2>2, ContinuedRequest
  <2> QED  BY <2>3 DEF AsksTheSame
<1>4. q.body.contents \in Optional(Seq(ContentType))
  BY <1>1 DEF GatewayRequests, Bodies
<1>5. 1 \in DOMAIN q.body.contents /\ cs \in Seq(ContentType)
  <2>1. cs \in Seq(ContentType)
    BY <1>1, <1>4, OptionalValue
  <2> HIDE DEF cs
  <2> QED  BY <1>1, <1>4, <2>1 DEF Optional
<1>6. r.body.contents[1] = Append(cs, turn) /\ 1 \in DOMAIN r.body.contents
  <2> DEFINE old == q.body.contents
             new == r.body.contents
  <2>1. new = [old EXCEPT ![1] = Append(old[1], turn)]
    BY <1>3
  <2>2. 1 \in DOMAIN old
    BY <1>5
  <2> HIDE DEF old, new
  <2>3. new[1] = Append(old[1], turn) /\ 1 \in DOMAIN new
    BY <2>1, <2>2
  <2> QED  BY <2>3 DEF old, new
<1>7. PrepareBase(r) = PrepareBase(q)
  BY <1>3 DEF PrepareBase
<1>8. ~MayHavePlaceholder(q)
  <2>1. Prepare(q)[1].model = PrepareBase(q)[1]
    BY <1>1, PreparedForAModel
  <2> QED  BY <1>1, <2>1, Zenon DEF MayHavePlaceholder, HasPlaceholder, q
<1>9. ~MayHavePlaceholder(r)
  BY <1>3, <1>7, <1>8, Zenon DEF MayHavePlaceholder, Generates
<1> HIDE DEF cs
<1>10. Prepare(q)[1].body.contents[1] = NormalizeContents(cs)
  <2>1. Prepare(q)[1].body.contents =
          [k \in DOMAIN q.body.contents |-> NormalizeContents(q.body.contents[k])]
    BY <1>1, <1>8, SentContents
  <2> QED  BY <1>5, <2>1 DEF cs
<1>11. Prepare(r)[1].body.contents[1] = NormalizeContents(Append(cs, turn))
  <2>1. Prepare(r)[1].body.contents =
          [k \in DOMAIN r.body.contents |-> NormalizeContents(r.body.contents[k])]
    BY <1>2, <1>9, SentContents
  <2> QED  BY <1>6, <2>1
<1>12. IsPrefix(NormalizeContents(cs), NormalizeContents(Append(cs, turn)))
  BY <1>1, <1>5, ContentsBegin
<1> QED  BY <1>1, <1>10, <1>11, <1>12

\* For every conversation: what was sent of it before is sent again in the same form when a
\* content has been added, unless a picture is put into it (NormalizeRequest).
THEOREM HistoryStays == Spec => HistoryIsStable
<1>1. ASSUME Inv, Next
      PROVE  Serving /\ prepared' # <<>> /\ ~HasPlaceholder
               /\ request'[1].body.contents # request[1].body.contents
             => IsPrefix(prepared[1].body.contents[1], prepared'[1].body.contents[1])
  <2> SUFFICES ASSUME Serving, prepared' # <<>>, ~HasPlaceholder,
                      request'[1].body.contents # request[1].body.contents
               PROVE  IsPrefix(prepared[1].body.contents[1], prepared'[1].body.contents[1])
    OBVIOUS
  <2>1. request # <<>> /\ phase = "serving" /\ request[1] \in GatewayRequests
    BY <1>1 DEF Inv, Serving
  <2>2. CASE Continue
    <3>1. PICK turn \in Turns : Send([request[1] EXCEPT !.body.contents[1] = Append(@, turn)])
      BY <2>2 DEF Continue, Change
    <3> DEFINE r == [request[1] EXCEPT !.body.contents[1] = Append(@, turn)]
    <3>2. prepared' = Prepare(r)
      BY <3>1 DEF Send
    <3>3. request[1].body.contents # <<>>
      BY <2>2 DEF Continue
    <3> HIDE DEF r
    <3>4. IsPrefix(prepared[1].body.contents[1], Prepare(r)[1].body.contents[1])
      BY <1>1, <3>2, <3>3, ContinuedIsSent DEF r
    <3> QED  BY <3>2, <3>4
  <2>3. CASE Rephrase
    <3>1. PICK w \in Wishes : Send([request[1] EXCEPT !.suffix = w.suffix,
                                                      !.body.thinking = w.thinking])
      BY <2>3 DEF Rephrase, Change
    <3> DEFINE q == request[1]
               r == [q EXCEPT !.suffix = w.suffix, !.body.thinking = w.thinking]
    <3>2. r.body.contents = q.body.contents
      <4>1. q \in GatewayRequests
        BY <2>1
      <4> HIDE DEF q
      <4> QED  BY <4>1 DEF GatewayRequests, Bodies
    <3> HIDE DEF r
    <3>3. request' = <<r>>
      BY <3>1 DEF r, Send
    <3> QED  BY <3>2, <3>3
  <2> QED  BY <1>1, <2>1, <2>2, <2>3 DEF Next, Load, Ask
<1>2. Inv /\ [Next]_vars /\ ~UNCHANGED vars => Inv /\ Next
  OBVIOUS
<1> QED  BY <1>1, <1>2, InvInit, InvNext, PTL DEF Spec, HistoryIsStable

=============================================================================
