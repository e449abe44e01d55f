------------------------- MODULE ConfigurationProofs --------------------------
(***************************************************************************)
(* Proofs about module Configuration: that a start which renders its       *)
(* configuration, or dies while it does, changes nothing for the next;     *)
(* that what the environment says counts; that what is loaded goes up; and *)
(* that a rendered file makes up for its environment.  They hold in a      *)
(* process that is visited too (module Access).  Of that the second half   *)
(* shows that the loop which matches an origin with a pattern ends, and    *)
(* finds what the pattern stands for, and with it that a process lets in   *)
(* exactly those whom its configuration names.                             *)
(***************************************************************************)
EXTENDS Access, WellFoundedInduction, TLAPS

\* What Prepare makes of a configuration that it accepts.
Prepared(c) == Normalize(ApplyDefaults(c))

\* Nothing is left to fill in, nothing to normalise.
Settled(c) == Unset(c) = {} /\ \A f \in Fields : c[f] # "blank"

\* A configuration: every field has a value of its kind.
Configuration(c) ==
  /\ c = [f \in Fields |-> c[f]]
  /\ \A f \in Fields : c[f] \in Values(f)

LEMMA FieldNames ==
  Fields = {"timeout", "port", "tls", "cert", "certKey", "http", "keys", "bearer", "headers",
            "queries", "cors", "origins", "methods", "credentials", "path", "originMode",
            "wsOrigins", "idHeaders", "idQueries", "logLevel"}
BY DEF Fields, ServerFields, AccessFields, CORSFields, SocketFields, IdentityFields, LoggingFields

\* Prepare, field by field.
LEMMA PreparedFields ==
  ASSUME NEW c
  PROVE  /\ Prepared(c) = [f \in Fields |-> Prepared(c)[f]]
         /\ \A f \in Fields :
              Prepared(c)[f] = IF f \in Unset(c) THEN IF f = "bearer" THEN "on" ELSE "default"
                               ELSE IF c[f] = "blank" THEN "none" ELSE c[f]
BY DEF Prepared, Normalize, ApplyDefaults

\* What is settled stays as it is.
LEMMA SettledStays ==
  ASSUME NEW c, c = [f \in Fields |-> c[f]], Settled(c)
  PROVE  Prepared(c) = c
<1>1. \A f \in Fields : Prepared(c)[f] = c[f]
  BY PreparedFields DEF Settled
<1> QED
  BY <1>1, PreparedFields

\* The defaults.
LEMMA Defaults ==
  /\ Configuration(DefaultConfig)
  /\ Settled(DefaultConfig)
  /\ Validate(DefaultConfig)
  /\ \A f \in Fields \ {"bearer"} : DefaultConfig[f] \in {"off", "none", "default", "empty"}
  /\ \A f \in {"timeout", "port", "path", "originMode", "logLevel", "headers", "queries", "idHeaders", "idQueries"} :
       DefaultConfig[f] = "default"
  /\ DefaultConfig["bearer"] = "on"
  /\ DefaultConfig["methods"] = "none"
<1>1. Zero = [f \in Fields |-> Zero[f]]
  BY DEF Zero
<1>2. \A f \in Fields : Zero[f] = IF f \in Flags THEN "off" ELSE IF f \in Lists THEN "none" ELSE "empty"
  BY DEF Zero
<1>3. DefaultConfig = Prepared(Zero)
  BY DEF DefaultConfig, Prepared
<1>4. Unset(Zero) = {"timeout", "port", "path", "originMode", "logLevel", "bearer", "headers", "queries", "idHeaders", "idQueries"}
  BY <1>2, FieldNames DEF Unset, NoSource, NoIdentity, Flags, Lists
<1>5. \A f \in Fields : DefaultConfig[f] =
        IF f = "bearer" THEN "on"
        ELSE IF f \in {"timeout", "port", "path", "originMode", "logLevel", "headers", "queries", "idHeaders", "idQueries"}
             THEN "default"
        ELSE IF f \in Flags THEN "off" ELSE IF f \in Lists THEN "none" ELSE "empty"
  BY <1>2, <1>3, <1>4, PreparedFields, FieldNames DEF Flags, Lists
<1>6. Configuration(DefaultConfig)
  <2>1. \A f \in Fields : DefaultConfig[f] \in Values(f)
    BY <1>5, FieldNames DEF Values, Flags, Lists
  <2> QED
    BY <2>1, <1>3, PreparedFields DEF Configuration
<1>7. Settled(DefaultConfig)
  BY <1>5, FieldNames DEF Settled, Unset, NoSource, NoIdentity, Flags, Lists
<1>8. Validate(DefaultConfig)
  BY <1>5, FieldNames DEF Validate, PolicyAccepted, Flags, Lists
<1> QED
  BY <1>5, <1>6, <1>7, <1>8, FieldNames DEF Flags, Lists

-----------------------------------------------------------------------------
(* Laying one set of fields over another, and preparing the result.        *)

LEMMA OverFields ==
  ASSUME NEW c, DOMAIN c = Fields, NEW a, DOMAIN a \subseteq Fields
  PROVE  /\ Over(a, c) = [f \in Fields |-> Over(a, c)[f]]
         /\ \A f \in Fields : Over(a, c)[f] = IF f \in DOMAIN a THEN a[f] ELSE c[f]
<1>1. DOMAIN a \cup DOMAIN c = Fields
  OBVIOUS
<1> QED
  BY <1>1 DEF Over

\* Every field has a value of its kind or is a list with nothing but white space.
Readable(c) == \A f \in Fields : c[f] \in Values(f) \/ (f \in Lists /\ c[f] = "blank")

LEMMA PreparedIsConfiguration ==
  ASSUME NEW c, Readable(c)
  PROVE  Configuration(Prepared(c))
<1>1. ASSUME NEW f \in Fields
      PROVE  Prepared(c)[f] \in Values(f)
  <2>1. CASE f \in Unset(c)
    <3>1. f \notin Flags \/ f = "bearer"
      BY <2>1, FieldNames DEF Readable, Unset, Values, Flags, Lists
    <3> QED
      BY <2>1, <3>1, PreparedFields, FieldNames DEF Values, Flags, Lists
  <2>2. CASE f \notin Unset(c)
    BY <2>2, PreparedFields DEF Readable, Values, Flags, Lists
  <2> QED
    BY <2>1, <2>2
<1> QED
  BY <1>1, PreparedFields DEF Configuration

\* Without white space, one preparation settles everything.
LEMMA PreparedSettles ==
  ASSUME NEW c, \A f \in Fields : c[f] # "blank"
  PROVE  Settled(Prepared(c))
<1> DEFINE p == Prepared(c)
<1>1. \A f \in Fields :
        p[f] = IF f \in Unset(c) THEN IF f = "bearer" THEN "on" ELSE "default" ELSE c[f]
  BY PreparedFields
<1> HIDE DEF p
<1>2. \A f \in Fields : p[f] # "blank"
  BY <1>1
<1>3. \A f \in Fields \ {"cert", "certKey"} : p[f] # "empty"
  BY <1>1 DEF Unset
<1>4. ~NoSource(p)
  <2>1. CASE NoSource(c)
    BY <2>1, <1>1, FieldNames DEF NoSource, Unset
  <2>2. CASE ~NoSource(c)
    BY <2>2, <1>1, FieldNames DEF NoSource, Unset
  <2> QED
    BY <2>1, <2>2
<1>5. ~NoIdentity(p)
  BY <1>1, FieldNames DEF NoIdentity, Unset
<1>6. ~(p.cors = "on" /\ p.methods = "none")
  BY <1>1, FieldNames DEF Unset
<1> QED
  BY <1>2, <1>3, <1>4, <1>5, <1>6 DEF Settled, Unset, p

\* What the command line can add to a configuration that is accepted, short of an illegal value,
\* leaves it acceptable.
LEMMA AcceptedAgain ==
  ASSUME NEW c, Configuration(c), Validate(c),
         NEW o, DOMAIN o \subseteq {"timeout", "port", "logLevel"}, \A f \in DOMAIN o : o[f] = "own"
  PROVE  /\ Validate(Prepared(Over(o, c)))
         /\ c.path # "refused" => Prepared(Over(o, c)).path # "refused"
<1> DEFINE b == Over(o, c)
           p == Prepared(b)
<1>1. DOMAIN c = Fields
  BY DEF Configuration
<1>2. \A f \in Fields : b[f] = IF f \in DOMAIN o THEN "own" ELSE c[f]
  BY <1>1, OverFields, FieldNames
<1>3. \A f \in Fields : b[f] # "blank"
  BY <1>2 DEF Configuration, Values
<1>4. \A f \in Fields :
        p[f] = IF f \in Unset(b) THEN IF f = "bearer" THEN "on" ELSE "default" ELSE b[f]
  BY <1>3, PreparedFields
<1>5. ~NoSource(p)
  BY <1>3, PreparedSettles DEF Settled, Unset
<1> HIDE DEF p, b
<1>6. \A f \in Fields : c[f] # "bad"
  BY DEF Validate
<1>7. \A f \in {"cert", "certKey", "tls", "http", "keys", "cors", "origins", "credentials", "wsOrigins"} :
        p[f] = c[f]
  BY <1>2, <1>4, FieldNames DEF Configuration, Unset, Values, Flags, Lists
<1>8. \A f \in {"originMode", "path"} : p[f] = IF c[f] = "empty" THEN "default" ELSE c[f]
  BY <1>2, <1>4, FieldNames DEF Unset
<1>9. Validate(p)
  <2>1. \A f \in Fields : p[f] # "bad"
    BY <1>2, <1>4, <1>6
  <2>2. p.tls = "on" => p.cert # "empty" /\ p.certKey # "empty"
    BY <1>7 DEF Validate
  <2>3. PolicyAccepted(p)
    BY <1>5, <1>7 DEF Validate, PolicyAccepted
  <2>4. p.cors = "on" => p.origins # "none" /\ (p.credentials = "on" => p.origins # "any")
    BY <1>7 DEF Validate
  <2>5. p.originMode = "own" => p.wsOrigins # "none"
    BY <1>7, <1>8 DEF Validate
  <2> QED
    BY <2>1, <2>2, <2>3, <2>4, <2>5 DEF Validate
<1> QED
  BY <1>8, <1>9 DEF p, b

-----------------------------------------------------------------------------
(***************************************************************************)
(* Loading.                                                                *)
(***************************************************************************)

LEMMA Outcomes ==
  /\ \A c : Made(c).ok /\ Made(c).config = c
  /\ ~Refused.ok
BY DEF Made, Refused

\* The environment over a configuration: what is prepared has no white space.
LEMMA EnvironmentOver ==
  ASSUME NEW e, Environment(e), ~Garbled(e), NEW c, Configuration(c)
  PROVE  /\ Over(e, c) = [f \in Fields |-> Over(e, c)[f]]
         /\ \A f \in Fields : /\ Over(e, c)[f] = IF f \in DOMAIN e THEN e[f] ELSE c[f]
                              /\ Over(e, c)[f] \in Values(f)
                              /\ Over(e, c)[f] # "blank"
<1>1. DOMAIN c = Fields /\ DOMAIN e \subseteq Fields
  BY DEF Configuration, Environment
<1>2. \A f \in Fields : Over(e, c)[f] = IF f \in DOMAIN e THEN e[f] ELSE c[f]
  BY <1>1, OverFields
<1>3. \A f \in Fields : Over(e, c)[f] \in Values(f)
  BY <1>2 DEF Environment, Garbled, Configuration
<1>4. \A f \in Fields : Over(e, c)[f] # "blank"
  BY <1>3 DEF Values
<1> QED
  BY <1>1, <1>2, <1>3, <1>4, OverFields

\* The text of a configuration that is accepted is accepted as it stands, and gives that
\* configuration, but for the empty lists, which come back with their defaults.
LEMMA RenderedLoads ==
  ASSUME NEW c, Configuration(c), Settled(c), Validate(c)
  PROVE  /\ Document(ToYAML(c))
         /\ ToYAML(c) # Nothing
         /\ LoadBytes(ToYAML(c)) = Made(Over(ToYAML(c), DefaultConfig))
         /\ Configuration(Over(ToYAML(c), DefaultConfig))
         /\ \A f \in Fields : Over(ToYAML(c), DefaultConfig)[f] = IF c[f] = "none" THEN DefaultConfig[f] ELSE c[f]
<1> DEFINE t == ToYAML(c)
           d == Over(t, DefaultConfig)
<1>1. DOMAIN t = {f \in Fields : c[f] # "none"} /\ \A f \in DOMAIN t : t[f] = c[f]
  BY DEF ToYAML, Restrict
<1>2. DOMAIN DefaultConfig = Fields /\ \A f \in Fields : DefaultConfig[f] \in Values(f)
  BY Defaults DEF Configuration
<1> HIDE DEF t
<1>3. Document(t)
  BY <1>1 DEF Document, Configuration
<1>4. t # Nothing
  <2>1. c["timeout"] # "none"
    BY FieldNames DEF Configuration, Values, Flags, Lists
  <2>2. "timeout" \in DOMAIN t
    BY <1>1, <2>1, FieldNames
  <2> QED
    BY <2>2 DEF Nothing
<1>5. d = [f \in Fields |-> d[f]]
  BY <1>1, <1>2, OverFields
<1>6. \A f \in Fields : d[f] = IF c[f] = "none" THEN DefaultConfig[f] ELSE c[f]
  BY <1>1, <1>2, OverFields
<1>7. Configuration(d)
  BY <1>2, <1>5, <1>6 DEF Configuration
<1> HIDE DEF d
<1>8. Settled(d)
  <2>1. \A f \in Fields : d[f] # "blank"
    BY <1>7 DEF Configuration, Values
  <2>2. \A f \in Fields \ {"cert", "certKey"} : d[f] # "empty"
    <3>1. ASSUME NEW f \in Fields \ {"cert", "certKey"}, c[f] = "none"
          PROVE  d[f] # "empty"
      BY <3>1, <1>6, Defaults DEF Settled, Unset
    <3>2. ASSUME NEW f \in Fields \ {"cert", "certKey"}, c[f] # "none"
          PROVE  d[f] # "empty"
      BY <3>2, <1>6 DEF Settled, Unset
    <3> QED
      BY <3>1, <3>2
  <2>3. d["headers"] # "none" /\ d["idHeaders"] # "none"
    BY <1>6, Defaults, FieldNames
  <2>4. ~(d["cors"] = "on" /\ d["methods"] = "none")
    BY <1>6, Defaults, FieldNames DEF Settled, Unset
  <2> QED
    BY <2>1, <2>2, <2>3, <2>4 DEF Settled, Unset, NoSource, NoIdentity
<1>9. Validate(d)
  <2>1. \A f \in Fields : d[f] # "bad"
    BY <1>6, Defaults DEF Validate
  <2>2. \A f \in {"tls", "cert", "certKey", "http", "cors", "credentials", "originMode"} : d[f] = c[f]
    BY <1>6, FieldNames DEF Configuration, Values, Flags, Lists
  <2>3. \A f \in {"keys", "origins", "wsOrigins"} : c[f] # "none" => d[f] = c[f]
    BY <1>6, FieldNames
  <2>4. PolicyAccepted(d)
    BY <1>8, <2>2, <2>3 DEF Validate, PolicyAccepted, Settled, Unset
  <2> QED
    BY <2>1, <2>2, <2>3, <2>4 DEF Validate
<1>10. Prepared(d) = d
  BY <1>5, <1>8, SettledStays
<1>11. LoadBytes(t) = Made(d)
  BY <1>4, <1>9, <1>10 DEF LoadBytes, Prepare, Prepared, d
<1> QED
  BY <1>3, <1>4, <1>6, <1>7, <1>11 DEF t, d

\* With the environment it was rendered from, a text gives what was rendered.
LEMMA RenderedAgrees ==
  ASSUME NEW e, Environment(e), ~Garbled(e), e # Nothing,
         NEW c, c = Prepared(Over(e, DefaultConfig)), Validate(c)
  PROVE  /\ Configuration(c) /\ Settled(c)
         /\ WithEnvironment(e, Over(ToYAML(c), DefaultConfig)) = Made(c)
<1> DEFINE b == Over(e, DefaultConfig)
           d == Over(ToYAML(c), DefaultConfig)
           again == Over(e, d)
<1>1. \A f \in Fields : /\ b[f] = IF f \in DOMAIN e THEN e[f] ELSE DefaultConfig[f]
                        /\ b[f] \in Values(f) /\ b[f] # "blank"
  BY EnvironmentOver, Defaults
<1>2. b = [f \in Fields |-> b[f]]
  BY EnvironmentOver, Defaults
<1>3. Configuration(c) /\ Settled(c)
  BY <1>1, PreparedIsConfiguration, PreparedSettles DEF Readable
<1>4. Configuration(d) /\ \A f \in Fields : d[f] = IF c[f] = "none" THEN DefaultConfig[f] ELSE c[f]
  BY <1>3, RenderedLoads
<1>5. \A f \in Fields : /\ again[f] = IF f \in DOMAIN e THEN e[f] ELSE d[f]
                        /\ again[f] # "blank"
  BY <1>4, EnvironmentOver
<1>6. \A f \in Fields : c[f] = IF f \in Unset(b) THEN IF f = "bearer" THEN "on" ELSE "default" ELSE b[f]
  BY <1>1, PreparedFields
<1>7. \A f \in Fields : Prepared(again)[f] =
        IF f \in Unset(again) THEN IF f = "bearer" THEN "on" ELSE "default" ELSE again[f]
  BY <1>5, PreparedFields
<1> HIDE DEF again, b, d
<1>8. \A f \in Fields \ DOMAIN e : f \in Unset(b) => f = "methods" /\ b["cors"] = "on" /\ b["methods"] = "none"
  BY <1>1, Defaults, FieldNames DEF Unset, NoSource, NoIdentity, Settled
<1>9. \A f \in Fields : f # "methods" => again[f] = b[f]
  <2>1. ASSUME NEW f \in Fields \ DOMAIN e, f # "methods"
        PROVE  again[f] = b[f]
    BY <2>1, <1>1, <1>4, <1>5, <1>6, <1>8
  <2> QED
    BY <2>1, <1>1, <1>5
<1>10. Prepared(again) = c
  <2>1. \A f \in Fields \ {"methods"} : f \in Unset(again) <=> f \in Unset(b)
    BY <1>9, FieldNames DEF Unset, NoSource, NoIdentity
  <2>2. \A f \in Fields \ {"methods"} : Prepared(again)[f] = c[f]
    BY <2>1, <1>6, <1>7, <1>9
  <2>3. Prepared(again)["methods"] = c["methods"]
    <3>1. CASE again["methods"] = b["methods"]
      <4>1. "methods" \in Unset(again) <=> "methods" \in Unset(b)
        BY <3>1, <1>9, FieldNames DEF Unset, NoSource, NoIdentity
      <4> QED
        BY <3>1, <4>1, <1>6, <1>7, FieldNames
    <3>2. CASE again["methods"] # b["methods"]
      <4>1. "methods" \notin DOMAIN e
        BY <3>2, <1>1, <1>5, FieldNames
      <4>2. d["methods"] # DefaultConfig["methods"]
        BY <3>2, <4>1, <1>1, <1>5, FieldNames
      <4>3. again["methods"] = d["methods"] /\ d["methods"] = c["methods"] /\ c["methods"] # b["methods"]
        BY <4>1, <4>2, <1>1, <1>4, <1>5, FieldNames
      <4>4. c["methods"] = "default"
        BY <4>3, <1>6, FieldNames
      <4>5. "methods" \notin Unset(again)
        BY <4>3, <4>4, <1>5, FieldNames DEF Unset, NoSource, NoIdentity
      <4> QED
        BY <4>3, <4>5, <1>7, FieldNames
    <3> QED
      BY <3>1, <3>2
  <2>4. \A f \in Fields : Prepared(again)[f] = c[f]
    BY <2>2, <2>3
  <2> QED
    BY <2>4, <1>3, PreparedFields DEF Configuration
<1> QED
  BY <1>3, <1>10 DEF WithEnvironment, ApplyEnvOverrides, Prepare, Prepared, again, d

-----------------------------------------------------------------------------
(***************************************************************************)
(* The process.  What a start makes of the file and the environment that   *)
(* there are stays the same until the environment is gone: this is what    *)
(* every start since has loaded, and what a start under way goes on with.  *)
(***************************************************************************)

Loaded == LoadWithEnvBootstrap(file, env)

SourcesInv ==
  /\ Document(file.doc)
  /\ file.kind # "text" => file.doc = Nothing
  /\ Environment(env)

StageInv ==
  /\ stage = "render" => file.kind = "absent" /\ env # Nothing
  /\ stage = "write" => file.kind = "text" /\ file.doc = Nothing /\ env # Nothing
  /\ stage \in {"render", "write", "build", "build failed"} => Loaded = Made(config)
  /\ stage \in {"render", "write", "build", "build failed", "up"} => overrides \in Overrides
  /\ stage = "up" => Loaded.ok /\ config = Prepared(Over(overrides, Loaded.config))
  /\ stage = "build failed" =>
       LET built == Prepare(Over(overrides, config))
       IN ~(built.ok /\ KeyProviderFits(built.config) /\ RoutesFit(built.config))

SaidInv == \A r \in said : r = Loaded

RenderedInv == \A c \in rendered : Configuration(c) /\ Settled(c) /\ Validate(c)

ConfigurationInv == SourcesInv /\ StageInv /\ SaidInv /\ RenderedInv

\* What a start loads is a configuration that is accepted; with an environment it is what that
\* makes of an accepted one, of the defaults where the path has no text.
LEMMA LoadAccepts ==
  ASSUME NEW f, NEW e, Document(f.doc), Environment(e), LoadWithEnvBootstrap(f, e).ok
  PROVE  LET loaded == LoadWithEnvBootstrap(f, e)
         IN /\ loaded = Made(loaded.config)
            /\ Configuration(loaded.config) /\ Validate(loaded.config)
            /\ e # Nothing => ~Garbled(e) /\ \E c : Configuration(c) /\ loaded.config = Prepared(Over(e, c))
            /\ e # Nothing /\ (f.kind = "absent" \/ f.doc = Nothing) =>
                 loaded.config = Prepared(Over(e, DefaultConfig))
<1> DEFINE loaded == LoadWithEnvBootstrap(f, e)
           base == IF f.kind = "text" THEN LoadBytes(f.doc) ELSE Made(DefaultConfig)
<1>1. /\ base.ok /\ loaded = WithEnvironment(e, base.config)
      /\ f.kind \in {"text", "absent"}
  BY Outcomes DEF LoadWithEnvBootstrap
<1>2. Configuration(base.config) /\ Validate(base.config) /\ base = Made(base.config)
  <2>1. CASE base = Made(DefaultConfig)
    BY <2>1, Outcomes, Defaults
  <2>2. CASE base # Made(DefaultConfig)
    <3> DEFINE x == Over(f.doc, DefaultConfig)
    <3>1. base = Prepare(x)
      BY <2>2 DEF LoadBytes
    <3>2. DOMAIN DefaultConfig = Fields /\ \A g \in Fields : DefaultConfig[g] \in Values(g)
      BY Defaults DEF Configuration
    <3>3. \A g \in Fields : x[g] = IF g \in DOMAIN f.doc THEN f.doc[g] ELSE DefaultConfig[g]
      BY <3>2, OverFields DEF Document
    <3>4. Readable(x)
      BY <3>2, <3>3 DEF Readable, Document
    <3>5. base = Made(Prepared(x)) /\ Validate(Prepared(x))
      BY <1>1, <3>1, Outcomes DEF Prepare, Prepared
    <3> QED
      BY <3>4, <3>5, PreparedIsConfiguration, Outcomes
  <2> QED
    BY <2>1, <2>2
<1>3. f.kind = "absent" \/ f.doc = Nothing => base.config = DefaultConfig
  BY Outcomes DEF LoadBytes
<1> HIDE DEF base
<1>4. CASE e = Nothing
  <2>1. ~Garbled(e)
    BY <1>4 DEF Garbled, Nothing
  <2>2. WithEnvironment(e, base.config) = base
    BY <1>2, <1>4, <2>1 DEF WithEnvironment
  <2> QED
    BY <1>1, <1>2, <1>4, <2>2
<1>5. CASE e # Nothing
  <2>1. ~Garbled(e)
    BY <1>1, Outcomes DEF WithEnvironment
  <2>2. loaded = Prepare(Over(e, base.config))
    BY <1>1, <1>5, <2>1 DEF WithEnvironment, ApplyEnvOverrides
  <2> HIDE DEF loaded
  <2>3. loaded.ok
    BY DEF loaded
  <2>4. loaded = Made(Prepared(Over(e, base.config))) /\ Validate(Prepared(Over(e, base.config)))
    BY <2>2, <2>3, Outcomes DEF Prepare, Prepared
  <2>5. Readable(Over(e, base.config))
    BY <1>2, <2>1, EnvironmentOver DEF Readable
  <2>6. loaded.config = Prepared(Over(e, base.config))
    BY <2>4, Outcomes
  <2>7. Configuration(loaded.config) /\ Validate(loaded.config) /\ loaded = Made(loaded.config)
    BY <2>4, <2>5, <2>6, PreparedIsConfiguration
  <2> QED
    BY <1>2, <1>3, <1>5, <2>1, <2>6, <2>7 DEF loaded
<1> QED
  BY <1>4, <1>5

LEMMA InitConfiguration ==
  ASSUME Init
  PROVE  ConfigurationInv
<1>1. SourcesInv
  BY SettingsAssumption DEF Init, SourcesInv
<1>2. StageInv
  BY DEF Init, StageInv
<1>3. SaidInv /\ RenderedInv
  BY DEF Init, SaidInv, RenderedInv
<1> QED
  BY <1>1, <1>2, <1>3 DEF ConfigurationInv

\* A step that leaves the file and the environment alone leaves what they make.
LEMMA SameSources ==
  ASSUME UNCHANGED <<file, env>>
  PROVE  Loaded' = Loaded /\ (SourcesInv => SourcesInv')
BY DEF Loaded, SourcesInv

\* The next-state relation keeps the invariant.
LEMMA StepConfiguration ==
  ASSUME ConfigurationInv, Next
  PROVE  ConfigurationInv'
<1> USE DEF ConfigurationInv
<1>1. CASE Load
  <2>1. UNCHANGED <<file, env, rendered>> /\ stage = "down"
    BY <1>1 DEF Load
  <2>2. /\ config' = Loaded.config
        /\ said' = said \cup {Loaded}
        /\ stage' = IF ~Loaded.ok THEN "load failed"
                    ELSE IF file.kind = "absent" /\ env # Nothing THEN "render" ELSE "build"
        /\ overrides' \in Overrides
    BY <1>1 DEF Load, Loaded
  <2>3. Loaded.ok => Loaded = Made(Loaded.config)
    BY LoadAccepts DEF Loaded, SourcesInv
  <2>4. SourcesInv' /\ Loaded' = Loaded
    BY <2>1, SameSources
  <2>5. StageInv'
    BY <2>1, <2>2, <2>3, <2>4 DEF StageInv
  <2>6. SaidInv' /\ RenderedInv'
    BY <2>1, <2>2, <2>4 DEF SaidInv, RenderedInv
  <2> QED
    BY <2>4, <2>5, <2>6
<1>2. CASE Create
  <2>1. UNCHANGED <<env, config, overrides, said, rendered>> /\ stage = "render"
    BY <1>2 DEF Create
  <2>2. CASE file' = [kind |-> "text", doc |-> Nothing] /\ stage' = "write"
    <3>1. file.kind = "absent" /\ env # Nothing /\ Loaded = Made(config) /\ overrides \in Overrides
      BY <2>1 DEF StageInv
    <3>2. file'.kind = "text" /\ file'.doc = Nothing
      BY <2>2
    <3>3. Loaded' = Loaded
      BY <2>1, <3>1, <3>2, Outcomes DEF Loaded, LoadWithEnvBootstrap, LoadBytes
    <3>4. SourcesInv'
      BY <2>1, <3>2 DEF SourcesInv, Document, Nothing
    <3>5. StageInv'
      BY <2>1, <2>2, <3>1, <3>2, <3>3 DEF StageInv
    <3>6. SaidInv' /\ RenderedInv'
      BY <2>1, <3>3 DEF SaidInv, RenderedInv
    <3> QED
      BY <3>4, <3>5, <3>6
  <2>3. CASE file' = file /\ stage' = "build"
    <3>1. SourcesInv' /\ Loaded' = Loaded
      BY <2>1, <2>3, SameSources
    <3>2. StageInv'
      BY <2>1, <2>3, <3>1 DEF StageInv
    <3>3. SaidInv' /\ RenderedInv'
      BY <2>1, <3>1 DEF SaidInv, RenderedInv
    <3> QED
      BY <3>1, <3>2, <3>3
  <2> QED
    BY <1>2, <2>2, <2>3 DEF Create
<1>3. CASE Write
  <2>1. UNCHANGED <<env, config, overrides, said>> /\ stage = "write" /\ stage' = "build"
    BY <1>3 DEF Write
  <2>2. file.kind = "text" /\ file.doc = Nothing /\ env # Nothing /\ Loaded = Made(config) /\ overrides \in Overrides
    BY <2>1 DEF StageInv
  <2>3. /\ Validate(config)
        /\ ~Garbled(env)
        /\ config = Prepared(Over(env, DefaultConfig))
    <3>1. Loaded.ok /\ Loaded.config = config
      BY <2>2, Outcomes
    <3> QED
      BY <2>2, <3>1, LoadAccepts DEF Loaded, SourcesInv
  <2>4. /\ Configuration(config) /\ Settled(config)
        /\ WithEnvironment(env, Over(ToYAML(config), DefaultConfig)) = Made(config)
    BY <2>2, <2>3, RenderedAgrees DEF SourcesInv
  <2>5. CASE file' = [kind |-> "text", doc |-> ToYAML(config)] /\ rendered' = rendered \cup {config}
    <3>1. file'.kind = "text" /\ file'.doc = ToYAML(config)
      BY <2>5
    <3>2. Document(ToYAML(config)) /\ LoadBytes(ToYAML(config)) = Made(Over(ToYAML(config), DefaultConfig))
      BY <2>3, <2>4, RenderedLoads
    <3>3. Loaded' = WithEnvironment(env, Over(ToYAML(config), DefaultConfig))
      BY <2>1, <3>1, <3>2, Outcomes DEF Loaded, LoadWithEnvBootstrap
    <3>4. Loaded' = Loaded
      BY <2>2, <2>4, <3>3
    <3>5. SourcesInv'
      BY <2>1, <3>1, <3>2 DEF SourcesInv
    <3>6. StageInv'
      BY <2>1, <2>2, <3>4 DEF StageInv
    <3>7. SaidInv'
      BY <2>1, <3>4 DEF SaidInv
    <3>8. RenderedInv'
      BY <2>3, <2>4, <2>5 DEF RenderedInv
    <3> QED
      BY <3>5, <3>6, <3>7, <3>8
  <2>6. CASE UNCHANGED <<file, rendered>>
    <3>1. SourcesInv' /\ Loaded' = Loaded
      BY <2>1, <2>6, SameSources
    <3>2. StageInv'
      BY <2>1, <2>2, <3>1 DEF StageInv
    <3>3. SaidInv' /\ RenderedInv'
      BY <2>1, <2>6, <3>1 DEF SaidInv, RenderedInv
    <3> QED
      BY <3>1, <3>2, <3>3
  <2> QED
    BY <1>3, <2>5, <2>6 DEF Write
<1>4. CASE Build
  <2> DEFINE built == Prepare(Over(overrides, config))
  <2>1. UNCHANGED <<file, env, overrides, said, rendered>> /\ stage = "build"
    BY <1>4 DEF Build
  <2>2. IF built.ok /\ KeyProviderFits(built.config) /\ RoutesFit(built.config)
        THEN stage' = "up" /\ config' = built.config
        ELSE stage' = "build failed" /\ UNCHANGED config
    BY <1>4 DEF Build
  <2>3. Loaded = Made(config) /\ overrides \in Overrides
    BY <2>1 DEF StageInv
  <2>4. SourcesInv' /\ Loaded' = Loaded
    BY <2>1, SameSources
  <2>5. built.ok => built.config = Prepared(Over(overrides, config))
    BY Outcomes DEF Prepare, Prepared
  <2> HIDE DEF built
  <2>6. StageInv'
    <3>1. CASE built.ok /\ KeyProviderFits(built.config) /\ RoutesFit(built.config)
      <4>1. stage' = "up" /\ config' = Prepared(Over(overrides, config))
        BY <2>2, <2>5, <3>1
      <4>2. Loaded.ok /\ Loaded.config = config
        BY <2>3, Outcomes
      <4> QED
        BY <2>1, <2>3, <2>4, <4>1, <4>2 DEF StageInv
    <3>2. CASE ~(built.ok /\ KeyProviderFits(built.config) /\ RoutesFit(built.config))
      <4>1. stage' = "build failed" /\ config' = config /\ overrides' = overrides
        BY <2>1, <2>2, <3>2
      <4>2. built' = built
        BY <4>1 DEF built
      <4>3. ~(built'.ok /\ KeyProviderFits(built'.config) /\ RoutesFit(built'.config))
        BY <3>2, <4>2
      <4> QED
        BY <2>3, <2>4, <4>1, <4>3 DEF StageInv, built
    <3> QED
      BY <3>1, <3>2
  <2>7. SaidInv' /\ RenderedInv'
    BY <2>1, <2>4 DEF SaidInv, RenderedInv
  <2> QED
    BY <2>4, <2>6, <2>7
<1>5. CASE Exit
  <2>1. UNCHANGED <<file, env, said, rendered>> /\ stage' = "down"
    BY <1>5 DEF Exit
  <2>2. SourcesInv' /\ Loaded' = Loaded
    BY <2>1, SameSources
  <2> QED
    BY <2>1, <2>2 DEF StageInv, SaidInv, RenderedInv
<1>6. CASE ForgetEnvironment
  <2>1. UNCHANGED <<file, stage, rendered>> /\ stage = "down" /\ env' = Nothing /\ said' = {}
    BY <1>6 DEF ForgetEnvironment
  <2>2. SourcesInv'
    BY <2>1 DEF SourcesInv, Environment, Nothing
  <2> QED
    BY <2>1, <2>2 DEF StageInv, SaidInv, RenderedInv
<1> QED
  BY <1>1, <1>2, <1>3, <1>4, <1>5, <1>6 DEF Next

\* What a process has loaded, with what file and environment.
THEOREM ConfigurationInvariant == Spec => []ConfigurationInv
<1>1. Init => ConfigurationInv
  BY InitConfiguration
<1>2. ConfigurationInv /\ [Next]_configurationVars => ConfigurationInv'
  <2> SUFFICES ASSUME ConfigurationInv, [Next]_configurationVars
               PROVE  ConfigurationInv'
    OBVIOUS
  <2>1. CASE Next
    BY <2>1, StepConfiguration
  <2>2. CASE UNCHANGED configurationVars
    BY <2>2 DEF configurationVars, ConfigurationInv, SourcesInv, StageInv, SaidInv, RenderedInv, Loaded
  <2> QED
    BY <2>1, <2>2
<1> QED
  BY <1>1, <1>2, PTL DEF Spec

\* A process that is visited (module Access) behaves, but for its visitors, as one that is not:
\* whatever follows of the second holds of the first.
THEOREM VisitsChangeNothing == AccessSpec => Spec
<1>1. AccessInit => Init
  BY DEF AccessInit
<1>2. [AccessNext]_<<configurationVars, visit>> => [Next]_configurationVars
  BY DEF AccessNext, Visit, Answered
<1> QED
  BY <1>1, <1>2, PTL DEF AccessSpec, Spec

-----------------------------------------------------------------------------
(* What follows. *)

\* Starts with the same environment load the same, whatever a start before them has rendered,
\* or begun to (bootstrap.go LoadWithEnvBootstrap).
THEOREM RestartsAlwaysAgree == Spec => []RestartsAgree
<1>1. ConfigurationInv => RestartsAgree
  BY DEF ConfigurationInv, SaidInv, RestartsAgree
<1> QED
  BY <1>1, ConfigurationInvariant, PTL

\* What the environment sets counts, but for what has a default and is set to nothing
\* (bootstrap.go, rule 3).
THEOREM EnvironmentAlwaysWins == Spec => []EnvironmentWins
<1>1. ASSUME ConfigurationInv
      PROVE  EnvironmentWins
  <2> SUFFICES ASSUME stage \in {"render", "write", "build", "up"},
                      NEW f \in DOMAIN env \ DOMAIN overrides
               PROVE  \/ config[f] = env[f]
                      \/ /\ env[f] \in {"empty", "none", "off"}
                         /\ config[f] = IF f = "methods" THEN "default" ELSE DefaultConfig[f]
    BY DEF EnvironmentWins
  <2>1. SourcesInv /\ StageInv
    BY <1>1 DEF ConfigurationInv
  <2>2. env # Nothing
    BY DEF Nothing
  <2>3. Loaded.ok
    BY <2>1, Outcomes DEF StageInv
  <2>4. Configuration(Loaded.config) /\ ~Garbled(env)
    BY <2>1, <2>2, <2>3, LoadAccepts DEF SourcesInv, Loaded
  <2>5. PICK c : Configuration(c) /\ Loaded.config = Prepared(Over(env, c))
    BY <2>1, <2>2, <2>3, LoadAccepts DEF SourcesInv, Loaded
  <2> DEFINE b == Over(env, c)
             p == Prepared(b)
  <2>6. f \in Fields /\ \A g \in Fields : b[g] = IF g \in DOMAIN env THEN env[g] ELSE c[g]
    BY <2>1, <2>4, <2>5, EnvironmentOver DEF SourcesInv, Environment
  <2>7. \A g \in Fields : b[g] # "blank" /\ b[g] \in Values(g)
    BY <2>1, <2>4, <2>5, EnvironmentOver DEF SourcesInv
  <2>8. p[f] = IF f \in Unset(b) THEN IF f = "bearer" THEN "on" ELSE "default" ELSE b[f]
    BY <2>6, <2>7, PreparedFields
  <2>9. Settled(p)
    BY <2>7, PreparedSettles
  <2> HIDE DEF b, p
  <2>10. \/ p[f] = env[f]
         \/ /\ env[f] \in {"empty", "none", "off"}
            /\ p[f] = IF f = "methods" THEN "default" ELSE DefaultConfig[f]
    <3>1. CASE f \notin Unset(b)
      BY <3>1, <2>6, <2>8
    <3>2. CASE f \in Unset(b)
      <4>1. b[f] \in {"empty", "none", "off"}
        BY <3>2 DEF Unset, NoSource, NoIdentity
      <4>2. f \in {"timeout", "port", "path", "originMode", "logLevel", "bearer", "headers", "queries",
                   "idHeaders", "idQueries", "methods"}
        BY <3>2, <2>7, FieldNames DEF Unset, Values, Flags, Lists
      <4> QED
        BY <3>2, <4>1, <4>2, <2>6, <2>8, Defaults
    <3> QED
      BY <3>1, <3>2
  <2>11. config[f] = p[f]
    <3>1. CASE stage # "up"
      BY <3>1, <2>1, <2>5, Outcomes DEF StageInv, p, b
    <3>2. CASE stage = "up"
      <4> DEFINE y == Over(overrides, p)
      <4>1. p = Loaded.config
        BY <2>5 DEF p, b
      <4>2. config = Prepared(y) /\ overrides \in Overrides
        BY <3>2, <2>1, <4>1 DEF StageInv
      <4>3. /\ DOMAIN overrides \subseteq {"timeout", "port", "logLevel"}
            /\ \A g \in DOMAIN overrides : overrides[g] \in {"own", "bad"}
        BY <4>2, OverridesAssumption
      <4>4. DOMAIN p = Fields
        BY <2>4, <4>1 DEF Configuration
      <4>5. y = [g \in Fields |-> y[g]] /\ \A g \in Fields : y[g] = IF g \in DOMAIN overrides THEN overrides[g] ELSE p[g]
        BY <4>3, <4>4, OverFields, FieldNames
      <4> HIDE DEF y
      <4>6. Settled(y)
        <5>1. \A g \in Fields : y[g] # "blank"
          BY <2>9, <4>3, <4>5 DEF Settled
        <5>2. \A g \in Fields \ {"cert", "certKey"} : y[g] # "empty"
          BY <2>9, <4>3, <4>5 DEF Settled, Unset
        <5>3. \A g \in {"bearer", "headers", "queries", "idHeaders", "idQueries", "cors", "methods"} : y[g] = p[g]
          BY <4>3, <4>5, FieldNames
        <5>4. ~NoSource(p) /\ ~NoIdentity(p) /\ ~(p.cors = "on" /\ p.methods = "none")
          BY <2>9 DEF Settled, Unset
        <5>5. ~NoSource(y) /\ ~NoIdentity(y) /\ ~(y.cors = "on" /\ y.methods = "none")
          BY <5>3, <5>4 DEF NoSource, NoIdentity
        <5> QED
          BY <5>1, <5>2, <5>5 DEF Settled, Unset
      <4>7. config = y
        BY <4>2, <4>5, <4>6, SettledStays
      <4> QED
        BY <2>6, <4>5, <4>7
    <3> QED
      BY <3>1, <3>2
  <2> QED
    BY <2>10, <2>11
<1> QED
  BY <1>1, ConfigurationInvariant, PTL

\* What Load accepts, NewService accepts: it prepares the configuration once more, and that
\* takes away nothing that the first time asked for.
THEOREM AcceptedAlwaysStarts == Spec => []AcceptedCanStart
<1>1. ASSUME ConfigurationInv, stage = "build failed", config.path # "refused",
             \A f \in DOMAIN overrides : overrides[f] # "bad"
      PROVE  FALSE
  <2> DEFINE p == Prepared(Over(overrides, config))
  <2>1. SourcesInv /\ StageInv
    BY <1>1 DEF ConfigurationInv
  <2>2. Loaded.ok /\ Loaded.config = config /\ overrides \in Overrides
    BY <1>1, <2>1, Outcomes DEF StageInv
  <2>3. Configuration(config) /\ Validate(config)
    BY <2>1, <2>2, LoadAccepts DEF SourcesInv, Loaded
  <2>4. /\ DOMAIN overrides \subseteq {"timeout", "port", "logLevel"}
        /\ \A f \in DOMAIN overrides : overrides[f] = "own"
    BY <1>1, <2>2, OverridesAssumption
  <2>5. Validate(p) /\ p.path # "refused"
    BY <1>1, <2>3, <2>4, AcceptedAgain
  <2>6. Prepare(Over(overrides, config)) = Made(p)
    BY <2>5 DEF Prepare, Prepared
  <2>7. KeyProviderFits(p) /\ RoutesFit(p)
    BY <2>5 DEF Validate, PolicyAccepted, KeyProviderFits, RoutesFit
  <2> HIDE DEF p
  <2> QED
    BY <1>1, <2>1, <2>6, <2>7, Outcomes DEF StageInv
<1>2. ConfigurationInv => AcceptedCanStart
  BY <1>1 DEF AcceptedCanStart
<1> QED
  BY <1>2, ConfigurationInvariant, PTL

\* A rendered file makes up for the environment it was rendered from (bootstrap.go
\* renderConfigFile).
THEOREM RenderedAlwaysKeeps == Spec => []RenderedKeeps
<1>1. ASSUME ConfigurationInv, NEW c \in rendered, env = Nothing, file.doc = ToYAML(c), NEW r \in said
      PROVE  /\ r.ok
             /\ \A f \in Fields :
                  r.config[f] = c[f] \/ (c[f] = "none" /\ r.config[f] = DefaultConfig[f])
  <2> DEFINE d == Over(ToYAML(c), DefaultConfig)
  <2>1. /\ ToYAML(c) # Nothing
        /\ LoadBytes(ToYAML(c)) = Made(d)
        /\ \A f \in Fields : d[f] = IF c[f] = "none" THEN DefaultConfig[f] ELSE c[f]
    BY <1>1, RenderedLoads DEF ConfigurationInv, RenderedInv
  <2>2. file.kind = "text"
    BY <1>1, <2>1 DEF ConfigurationInv, SourcesInv
  <2>3. ~Garbled(env)
    BY <1>1 DEF Garbled, Nothing
  <2> HIDE DEF d
  <2>4. Loaded = Made(d)
    BY <1>1, <2>1, <2>2, <2>3, Outcomes DEF Loaded, LoadWithEnvBootstrap, WithEnvironment
  <2>5. r = Made(d)
    BY <1>1, <2>4 DEF ConfigurationInv, SaidInv
  <2> QED
    BY <2>1, <2>5, Outcomes
<1>2. ConfigurationInv => RenderedKeeps
  BY <1>1 DEF RenderedKeeps
<1> QED
  BY <1>2, ConfigurationInvariant, PTL

-----------------------------------------------------------------------------
(* Numbers. *)

\* A set of numbers has a least one.
LEMMA LeastExists ==
  ASSUME NEW T, T \subseteq Nat, T # {}
  PROVE  \E x \in T : \A y \in T : x <= y
<1>1. PICK x \in T : \A y \in T : ~ (<<y, x>> \in OpToRel(<, Nat))
  BY NatLessThanWellFounded, WFMin
<1>2. ASSUME NEW y \in T, y < x
      PROVE  FALSE
  BY <1>1, <1>2 DEF OpToRel
<1> QED
  BY <1>2

LEMMA LeastOne ==
  ASSUME NEW S, S # {}, NEW f, \A s \in S : f[s] \in Nat
  PROVE  \E s \in S : \A t \in S : f[s] <= f[t]
<1> DEFINE T == {f[s] : s \in S}
<1>1. T \subseteq Nat /\ T # {}
  OBVIOUS
<1>2. PICK x \in T : \A y \in T : x <= y
  <2> HIDE DEF T
  <2> QED
    BY <1>1, LeastExists
<1> QED
  BY <1>2

\* What holds of the first of a row and of the next to each it holds of, holds of all.
LEMMA AllOfARow ==
  ASSUME NEW a \in Nat, NEW b \in Nat, NEW S, a \in S,
         \A i \in a..b - 1 : i \in S => i + 1 \in S
  PROVE  \A i \in a..b : i \in S
<1> DEFINE T == {i \in a..b : i \notin S}
<1> SUFFICES ASSUME T # {}
             PROVE  FALSE
  OBVIOUS
<1>1. PICK x \in T : \A y \in T : x <= y
  <2>1. T \subseteq Nat
    OBVIOUS
  <2> HIDE DEF T
  <2> QED
    BY <2>1, LeastExists
<1>2. x # a
  OBVIOUS
<1>3. x - 1 \in S
  BY <1>1, <1>2
<1> QED
  BY <1>2, <1>3

\* A loop that comes closer to an end with every step has a result from everywhere.
EndsInTime(S, ends, step, result, steps, most) ==
  /\ ends \in SUBSET S /\ step \in [S -> S] /\ result \in [S -> BOOLEAN]
  /\ steps \in [S -> Nat] /\ most \in Nat /\ \A s \in S : steps[s] < most
  /\ \A s \in S \ ends : steps[step[s]] < steps[s]

IsResult(S, ends, step, result, f) ==
  \A s \in S : f[s] = IF s \in ends THEN result[s] ELSE f[step[s]]

LEMMA LoopHasResult ==
  ASSUME NEW S, NEW ends, NEW step, NEW result, NEW steps, NEW most,
         EndsInTime(S, ends, step, result, steps, most)
  PROVE  \E f \in [S -> BOOLEAN] : IsResult(S, ends, step, result, f)
<1>0. /\ ends \in SUBSET S /\ step \in [S -> S] /\ result \in [S -> BOOLEAN]
      /\ steps \in [S -> Nat] /\ most \in Nat /\ \A s \in S : steps[s] < most
      /\ \A s \in S \ ends : steps[step[s]] < steps[s]
  BY DEF EndsInTime
<1> DEFINE Near(n) == {s \in S : steps[s] < n}
           Is(f, n) == \A s \in Near(n) : f[s] = IF s \in ends THEN result[s] ELSE f[step[s]]
           T == {n \in Nat : \E f \in [Near(n) -> BOOLEAN] : Is(f, n)}
<1>1. 0 \in T
  <2>1. Near(0) = {}
    BY <1>0
  <2>2. [s \in {} |-> TRUE] \in [Near(0) -> BOOLEAN] /\ Is([s \in {} |-> TRUE], 0)
    BY <2>1
  <2> QED
    BY <2>2
<1>2. ASSUME NEW n \in 0..most - 1, n \in T
      PROVE  n + 1 \in T
  <2>1. PICK f \in [Near(n) -> BOOLEAN] : Is(f, n)
    BY <1>2
  <2> DEFINE g == [s \in Near(n + 1) |-> IF s \in Near(n) THEN f[s]
                                         ELSE IF s \in ends THEN result[s] ELSE f[step[s]]]
  <2>2. \A s \in Near(n + 1) \ ends : step[s] \in Near(n)
    BY <1>0
  <2>3. Near(n) \subseteq Near(n + 1) /\ Near(n + 1) \subseteq S
    BY <1>0
  <2> HIDE DEF Near
  <2>4. g \in [Near(n + 1) -> BOOLEAN]
    BY <1>0, <2>2, <2>3
  <2>5. \A s \in Near(n) : g[s] = f[s]
    BY <2>3
  <2>6. ASSUME NEW s \in Near(n + 1)
        PROVE  g[s] = IF s \in ends THEN result[s] ELSE g[step[s]]
    <3>1. CASE s \in ends
      <4>1. s \in Near(n) => f[s] = result[s]
        BY <2>1, <3>1
      <4> QED
        BY <3>1, <4>1
    <3>2. CASE s \notin ends
      <4>1. s \in Near(n) => f[s] = f[step[s]]
        BY <2>1, <3>2
      <4>2. g[step[s]] = f[step[s]]
        BY <2>2, <2>5, <3>2
      <4> QED
        BY <3>2, <4>1, <4>2
    <3> QED
      BY <3>1, <3>2
  <2> HIDE DEF g
  <2>7. Is(g, n + 1)
    BY <2>6
  <2> QED
    BY <2>4, <2>7
<1>3. most \in T
  <2> HIDE DEF T
  <2>1. \A i \in 0..most : i \in T
    BY <1>0, <1>1, <1>2, AllOfARow
  <2> QED
    BY <1>0, <2>1
<1>4. Near(most) = S
  BY <1>0
<1> QED
  BY <1>3, <1>4 DEF IsResult

-----------------------------------------------------------------------------
(***************************************************************************)
(* Patterns.  The rest of a pattern from p on stands for the rest of an    *)
(* origin from o on if its characters can be spread over that, as in       *)
(* Stands.                                                                 *)
(***************************************************************************)

Spread(pattern, origin, p, o, at) ==
  /\ at[p] = o
  /\ at[Len(pattern) + 1] = Len(origin) + 1
  /\ \A i \in p..Len(pattern) :
       IF pattern[i] = "*" THEN at[i] <= at[i + 1]
       ELSE at[i + 1] = at[i] + 1 /\ pattern[i] = origin[at[i]]

Rest(pattern, origin, p, o) ==
  \E at \in [p..Len(pattern) + 1 -> 1..Len(origin) + 1] : Spread(pattern, origin, p, o, at)

LEMMA StandsIsRest ==
  ASSUME NEW pattern \in Seq(STRING), NEW origin \in Seq(STRING)
  PROVE  Stands(pattern, origin) <=> Rest(pattern, origin, 1, 1)
<1>1. DOMAIN pattern = 1..Len(pattern)
  OBVIOUS
<1>2. ASSUME NEW at \in [1..Len(pattern) + 1 -> 1..Len(origin) + 1]
      PROVE  Spread(pattern, origin, 1, 1, at) <=>
               /\ at[1] = 1
               /\ at[Len(pattern) + 1] = Len(origin) + 1
               /\ \A i \in DOMAIN pattern :
                    IF pattern[i] = "*" THEN at[i] <= at[i + 1]
                    ELSE at[i + 1] = at[i] + 1 /\ pattern[i] = origin[at[i]]
  BY <1>1, Zenon DEF Spread
<1> QED
  BY <1>2, Zenon DEF Stands, Rest

\* No pattern stands for no origin.
LEMMA RestOfNothing ==
  ASSUME NEW pattern \in Seq(STRING), NEW origin \in Seq(STRING), NEW o \in 1..Len(origin) + 1
  PROVE  Rest(pattern, origin, Len(pattern) + 1, o) <=> o = Len(origin) + 1
<1> DEFINE L == Len(pattern)
           at == [i \in L + 1..L + 1 |-> Len(origin) + 1]
<1>1. L \in Nat /\ Len(origin) \in Nat
  OBVIOUS
<1>2. Rest(pattern, origin, L + 1, o) => o = Len(origin) + 1
  BY DEF Rest, Spread
<1>3. at \in [L + 1..L + 1 -> 1..Len(origin) + 1] /\ Spread(pattern, origin, L + 1, Len(origin) + 1, at)
  BY <1>1 DEF Spread
<1> QED
  BY <1>2, <1>3 DEF Rest

\* A spread from p on is where p is and a spread from p + 1 on.
LEMMA RestGrows ==
  ASSUME NEW pattern \in Seq(STRING), NEW origin \in Seq(STRING),
         NEW p \in 1..Len(pattern), NEW o \in 1..Len(origin) + 1, NEW next \in 1..Len(origin) + 1,
         Rest(pattern, origin, p + 1, next),
         IF pattern[p] = "*" THEN o <= next ELSE next = o + 1 /\ pattern[p] = origin[o]
  PROVE  Rest(pattern, origin, p, o)
<1> DEFINE L == Len(pattern)
           N == Len(origin)
<1>1. L \in Nat /\ N \in Nat
  OBVIOUS
<1>2. PICK at \in [p + 1..L + 1 -> 1..N + 1] : Spread(pattern, origin, p + 1, next, at)
  BY DEF Rest
<1> DEFINE from == [i \in p..L + 1 |-> IF i = p THEN o ELSE at[i]]
<1> HIDE DEF L, N
<1>3. from \in [p..L + 1 -> 1..N + 1]
  BY <1>1 DEF N
<1>4. from[p] = o /\ from[p + 1] = next /\ \A i \in p + 1..L + 1 : from[i] = at[i]
  BY <1>1, <1>2 DEF Spread, L
<1> HIDE DEF from
<1>5. Spread(pattern, origin, p, o, from)
  <2>1. from[L + 1] = N + 1
    BY <1>1, <1>2, <1>4 DEF Spread, L, N
  <2>2. ASSUME NEW i \in p + 1..L
        PROVE  IF pattern[i] = "*" THEN from[i] <= from[i + 1]
               ELSE from[i + 1] = from[i] + 1 /\ pattern[i] = origin[from[i]]
    <3>1. i \in p + 1..L + 1 /\ i + 1 \in p + 1..L + 1
      BY <1>1 DEF L
    <3>2. from[i] = at[i] /\ from[i + 1] = at[i + 1]
      BY <1>4, <3>1
    <3> QED
      BY <1>2, <3>2 DEF Spread, L
  <2>3. ASSUME NEW i \in p..L
        PROVE  IF pattern[i] = "*" THEN from[i] <= from[i + 1]
               ELSE from[i + 1] = from[i] + 1 /\ pattern[i] = origin[from[i]]
    <3>1. CASE i = p
      BY <1>4, <3>1
    <3>2. CASE i # p
      <4>1. i \in p + 1..L
        BY <1>1, <3>2 DEF L
      <4> QED
        BY <4>1, <2>2
    <3> QED
      BY <3>1, <3>2
  <2> QED
    BY <1>4, <2>1, <2>3 DEF Spread, L, N
<1> QED
  BY <1>3, <1>5 DEF Rest, L, N

LEMMA RestShrinks ==
  ASSUME NEW pattern \in Seq(STRING), NEW origin \in Seq(STRING),
         NEW p \in 1..Len(pattern), NEW o \in 1..Len(origin) + 1, Rest(pattern, origin, p, o)
  PROVE  \E next \in 1..Len(origin) + 1 :
           /\ Rest(pattern, origin, p + 1, next)
           /\ IF pattern[p] = "*" THEN o <= next ELSE next = o + 1 /\ pattern[p] = origin[o]
<1> DEFINE L == Len(pattern)
           N == Len(origin)
<1>1. L \in Nat /\ N \in Nat
  OBVIOUS
<1>2. PICK at \in [p..L + 1 -> 1..N + 1] : Spread(pattern, origin, p, o, at)
  BY DEF Rest
<1> DEFINE to == [i \in p + 1..L + 1 |-> at[i]]
<1>3. to \in [p + 1..L + 1 -> 1..N + 1] /\ \A i \in p + 1..L + 1 : to[i] = at[i]
  BY <1>1
<1>4. p \in p..L /\ p + 1 \in p + 1..L + 1 /\ L + 1 \in p + 1..L + 1
  BY <1>1
<1> HIDE DEF to
<1>5. Spread(pattern, origin, p + 1, at[p + 1], to)
  <2>1. ASSUME NEW i \in p + 1..L
        PROVE  IF pattern[i] = "*" THEN to[i] <= to[i + 1]
               ELSE to[i + 1] = to[i] + 1 /\ pattern[i] = origin[to[i]]
    <3>1. i \in p..L /\ i \in p + 1..L + 1 /\ i + 1 \in p + 1..L + 1
      BY <1>1
    <3> HIDE DEF L
    <3>2. to[i] = at[i] /\ to[i + 1] = at[i + 1]
      BY <1>3, <3>1
    <3> QED
      BY <1>2, <3>1, <3>2 DEF Spread, L
  <2> QED
    BY <1>2, <1>3, <1>4, <2>1 DEF Spread
<1>6. Rest(pattern, origin, p + 1, at[p + 1])
  BY <1>3, <1>5 DEF Rest
<1>7. /\ at[p + 1] \in 1..N + 1
      /\ IF pattern[p] = "*" THEN o <= at[p + 1] ELSE at[p + 1] = o + 1 /\ pattern[p] = origin[o]
  BY <1>1, <1>2, <1>4 DEF Spread
<1> QED
  BY <1>6, <1>7

\* At the end of an origin, only stars can follow.
LEMMA RestAtEnd ==
  ASSUME NEW pattern \in Seq(STRING), NEW origin \in Seq(STRING), NEW p \in 1..Len(pattern) + 1
  PROVE  Rest(pattern, origin, p, Len(origin) + 1) <=> \A i \in p..Len(pattern) : pattern[i] = "*"
<1> DEFINE L == Len(pattern)
           end == Len(origin) + 1
           T == {i \in p..L + 1 : Rest(pattern, origin, i, end)}
<1>1. L \in Nat /\ Len(origin) \in Nat /\ end \in 1..Len(origin) + 1
  OBVIOUS
<1>2. ASSUME NEW i \in p..L, Rest(pattern, origin, i, end)
      PROVE  pattern[i] = "*" /\ Rest(pattern, origin, i + 1, end)
  <2>1. PICK next \in 1..Len(origin) + 1 :
          /\ Rest(pattern, origin, i + 1, next)
          /\ IF pattern[i] = "*" THEN end <= next ELSE next = end + 1 /\ pattern[i] = origin[end]
    BY <1>2, RestShrinks
  <2> QED
    BY <1>1, <2>1
<1>3. Rest(pattern, origin, p, end) => \A i \in p..L : pattern[i] = "*"
  <2> SUFFICES ASSUME Rest(pattern, origin, p, end)
               PROVE  \A i \in p..L : pattern[i] = "*"
    OBVIOUS
  <2>1. p \in T /\ \A i \in p..(L + 1) - 1 : i \in T => i + 1 \in T
    BY <1>1, <1>2
  <2>2. \A i \in p..L + 1 : i \in T
    <3> HIDE DEF T, L
    <3>1. p \in Nat /\ L + 1 \in Nat
      BY <1>1 DEF L
    <3> QED
      BY <2>1, <3>1, AllOfARow
  <2> QED
    BY <1>2, <2>2
<1>4. ASSUME \A i \in p..L : pattern[i] = "*"
      PROVE  Rest(pattern, origin, p, end)
  <2> DEFINE at == [i \in p..L + 1 |-> end]
  <2>1. at \in [p..L + 1 -> 1..Len(origin) + 1] /\ Spread(pattern, origin, p, end, at)
    BY <1>1, <1>4 DEF Spread
  <2> QED
    BY <2>1 DEF Rest
<1> QED
  BY <1>3, <1>4

\* Letters take as many characters as they are.
LEMMA RestAfterLetters ==
  ASSUME NEW pattern \in Seq(STRING), NEW origin \in Seq(STRING),
         NEW p \in 1..Len(pattern) + 1, NEW q \in p..Len(pattern) + 1,
         \A i \in p..q - 1 : pattern[i] # "*",
         NEW o \in 1..Len(origin) + 1, Rest(pattern, origin, p, o)
  PROVE  o + (q - p) \in 1..Len(origin) + 1 /\ Rest(pattern, origin, q, o + (q - p))
<1> DEFINE T == {i \in p..q : /\ o + (i - p) \in 1..Len(origin) + 1
                              /\ Rest(pattern, origin, i, o + (i - p))}
<1>1. p \in Nat /\ q \in Nat /\ o \in Nat /\ Len(origin) \in Nat /\ Len(pattern) \in Nat
  OBVIOUS
<1>2. p \in T
  <2>1. o + (p - p) = o
    BY <1>1
  <2> QED
    BY <1>1, <2>1
<1>3. ASSUME NEW i \in p..q - 1, i \in T
      PROVE  i + 1 \in T
  <2> DEFINE x == o + (i - p)
  <2>1. x \in 1..Len(origin) + 1 /\ Rest(pattern, origin, i, x) /\ pattern[i] # "*" /\ i \in 1..Len(pattern)
    BY <1>1, <1>3
  <2> HIDE DEF x
  <2>2. PICK next \in 1..Len(origin) + 1 :
          Rest(pattern, origin, i + 1, next) /\ next = x + 1
    BY <2>1, RestShrinks
  <2>3. x + 1 = o + ((i + 1) - p) /\ i + 1 \in p..q
    BY <1>1 DEF x
  <2> QED
    BY <2>2, <2>3
<1>4. \A i \in p..q : i \in T
  <2> HIDE DEF T
  <2> QED
    BY <1>1, <1>2, <1>3, AllOfARow
<1> QED
  BY <1>1, <1>4


-----------------------------------------------------------------------------
(***************************************************************************)
(* The matcher.  Each turn of its loop ends it or goes to another place;   *)
(* how far it is from an end is told by mark and, for the same mark, by p. *)
(***************************************************************************)

Step(pattern, origin, at) ==
  IF at.p <= Len(pattern) /\ pattern[at.p] = origin[at.o] THEN [at EXCEPT !.p = @ + 1, !.o = @ + 1]
  ELSE IF at.p <= Len(pattern) /\ pattern[at.p] = "*"
  THEN [at EXCEPT !.p = @ + 1, !.star = at.p, !.mark = at.o]
  ELSE [at EXCEPT !.p = at.star + 1, !.o = at.mark + 1, !.mark = @ + 1]

\* The loop ends at the end of the origin, or where it has no star to come back to.
Meets(pattern, origin, at) == at.p <= Len(pattern) /\ pattern[at.p] \in {origin[at.o], "*"}

Ends(pattern, origin) ==
  {at \in Places(pattern, origin) :
     at.o > Len(origin) \/ (at.star = 0 /\ ~Meets(pattern, origin, at))}

OnlyStars(pattern, at) == \A i \in at.p..Len(pattern) : pattern[i] = "*"

StepsLeft(pattern, origin, at) ==
  ((Len(origin) + 1) - at.mark) * (Len(pattern) + 2) + ((Len(pattern) + 1) - at.p)

LEMMA PlaceFields ==
  ASSUME NEW pattern \in Seq(STRING), NEW origin \in Seq(STRING), NEW at \in Places(pattern, origin)
  PROVE  /\ at.p \in 1..Len(pattern) + 1 /\ at.o \in 1..Len(origin) + 1
         /\ at.star \in 0..Len(pattern) /\ at.mark \in 1..Len(origin) + 1
         /\ at.star < at.p /\ at.mark <= at.o
BY DEF Places

LEMMA StepFields ==
  ASSUME NEW pattern \in Seq(STRING), NEW origin \in Seq(STRING),
         NEW at \in Places(pattern, origin) \ Ends(pattern, origin)
  PROVE  LET to == Step(pattern, origin, at)
         IN /\ to \in Places(pattern, origin)
            /\ \/ /\ at.p <= Len(pattern) /\ pattern[at.p] = origin[at.o]
                  /\ to.p = at.p + 1 /\ to.o = at.o + 1 /\ to.star = at.star /\ to.mark = at.mark
               \/ /\ at.p <= Len(pattern) /\ pattern[at.p] = "*" /\ pattern[at.p] # origin[at.o]
                  /\ to.p = at.p + 1 /\ to.o = at.o /\ to.star = at.p /\ to.mark = at.o
               \/ /\ ~Meets(pattern, origin, at) /\ at.star # 0
                  /\ to.p = at.star + 1 /\ to.o = at.mark + 1
                  /\ to.star = at.star /\ to.mark = at.mark + 1
<1> DEFINE L == Len(pattern)
           N == Len(origin)
           to == Step(pattern, origin, at)
<1>1. L \in Nat /\ N \in Nat
  OBVIOUS
<1> DEFINE P == 1..L + 1
           O == 1..N + 1
           S == 0..L
<1>2. /\ at \in [p : P, o : O, star : S, mark : O]
      /\ at.star < at.p /\ at.mark <= at.o /\ at.o <= N
      /\ at.star # 0 \/ Meets(pattern, origin, at)
  BY <1>1 DEF Places, Ends
<1> HIDE DEF L, N, P, O, S
<1>3. CASE at.p <= L /\ pattern[at.p] = origin[at.o]
  <2>1. to = [at EXCEPT !.p = at.p + 1, !.o = at.o + 1]
    BY <1>3 DEF Step, L
  <2>2. to.p = at.p + 1 /\ to.o = at.o + 1 /\ to.star = at.star /\ to.mark = at.mark
    BY <1>2, <2>1
  <2>3. to \in [p : P, o : O, star : S, mark : O]
    <3>1. at.p + 1 \in P /\ at.o + 1 \in O /\ at.p \in S /\ at.o \in O
      BY <1>1, <1>2, <1>3 DEF P, O, S
    <3>2. to = [p |-> at.p + 1, o |-> at.o + 1, star |-> at.star, mark |-> at.mark]
      BY <1>2, <2>1
    <3> HIDE DEF to
    <3> QED
      BY <1>2, <3>1, <3>2
  <2> HIDE DEF to
  <2>4. to \in Places(pattern, origin)
    BY <1>1, <1>2, <2>2, <2>3 DEF Places, L, N, P, O, S
  <2> QED
    BY <1>3, <2>2, <2>4 DEF to, L
<1>4. CASE at.p <= L /\ pattern[at.p] = "*" /\ pattern[at.p] # origin[at.o]
  <2>1. to = [at EXCEPT !.p = at.p + 1, !.star = at.p, !.mark = at.o]
    BY <1>4 DEF Step, L
  <2>2. to.p = at.p + 1 /\ to.o = at.o /\ to.star = at.p /\ to.mark = at.o
    BY <1>2, <2>1
  <2>3. to \in [p : P, o : O, star : S, mark : O]
    <3>1. at.p + 1 \in P /\ at.o + 1 \in O /\ at.p \in S /\ at.o \in O
      BY <1>1, <1>2, <1>4 DEF P, O, S
    <3>2. to = [p |-> at.p + 1, o |-> at.o, star |-> at.p, mark |-> at.o]
      BY <1>2, <2>1
    <3> HIDE DEF to
    <3> QED
      BY <1>2, <3>1, <3>2
  <2> HIDE DEF to
  <2>4. to \in Places(pattern, origin)
    BY <1>1, <1>2, <2>2, <2>3 DEF Places, L, N, P, O, S
  <2> QED
    BY <1>4, <2>2, <2>4 DEF to, L
<1>5. CASE ~Meets(pattern, origin, at)
  <2>1. to = [at EXCEPT !.p = at.star + 1, !.o = at.mark + 1, !.mark = at.mark + 1]
    BY <1>5 DEF Step, Meets
  <2>2. to.p = at.star + 1 /\ to.o = at.mark + 1 /\ to.star = at.star /\ to.mark = at.mark + 1
    BY <1>2, <2>1
  <2>3. to \in [p : P, o : O, star : S, mark : O]
    <3>1. at.star + 1 \in P /\ at.mark + 1 \in O
      BY <1>1, <1>2 DEF P, O, S
    <3>2. to = [p |-> at.star + 1, o |-> at.mark + 1, star |-> at.star, mark |-> at.mark + 1]
      BY <1>2, <2>1
    <3> HIDE DEF to
    <3> QED
      BY <1>2, <3>1, <3>2
  <2> HIDE DEF to
  <2>4. to \in Places(pattern, origin)
    BY <1>1, <1>2, <2>2, <2>3 DEF Places, L, N, P, O, S
  <2> QED
    BY <1>2, <1>5, <2>2, <2>4 DEF to
<1> QED
  BY <1>3, <1>4, <1>5 DEF Meets, L

LEMMA Lexicographic ==
  ASSUME NEW k \in Nat, NEW a \in Nat, NEW x \in 0..k - 1, NEW b \in Nat, NEW y \in 0..k - 1,
         b < a \/ (b = a /\ y < x)
  PROVE  b * k + y < a * k + x
<1>1. CASE b < a
  <2>1. PICK d \in Nat : a = (b + 1) + d
    <3>1. a - (b + 1) \in Nat /\ a = (b + 1) + (a - (b + 1))
      BY <1>1
    <3> QED
      BY <3>1
  <2>2. a * k = b * k + k + d * k
    BY <2>1
  <2>3. d * k \in Nat /\ b * k \in Nat
    BY <2>1
  <2> QED
    BY <2>2, <2>3
<1>2. CASE b = a /\ y < x
  BY <1>2
<1> QED
  BY <1>1, <1>2

\* Every turn leaves fewer.
LEMMA StepsGetFewer ==
  ASSUME NEW pattern \in Seq(STRING), NEW origin \in Seq(STRING), NEW at \in Places(pattern, origin)
  PROVE  /\ StepsLeft(pattern, origin, at) \in Nat
         /\ StepsLeft(pattern, origin, at) < (Len(origin) + 1) * (Len(pattern) + 2)
         /\ at \notin Ends(pattern, origin) =>
              StepsLeft(pattern, origin, Step(pattern, origin, at)) < StepsLeft(pattern, origin, at)
<1> DEFINE k == Len(pattern) + 2
           a(t) == (Len(origin) + 1) - t.mark
           x(t) == (Len(pattern) + 1) - t.p
<1>1. k \in Nat /\ 0 \in 0..k - 1 /\ Len(pattern) \in Nat /\ Len(origin) \in Nat /\ Len(origin) + 1 \in Nat
  OBVIOUS
<1>2. \A t \in Places(pattern, origin) :
        /\ a(t) \in Nat /\ x(t) \in 0..k - 1 /\ a(t) < Len(origin) + 1
        /\ StepsLeft(pattern, origin, t) = a(t) * k + x(t)
  BY <1>1, PlaceFields DEF StepsLeft
<1>3. at \notin Ends(pattern, origin) =>
        LET to == Step(pattern, origin, at)
        IN to \in Places(pattern, origin) /\ (a(to) < a(at) \/ (a(to) = a(at) /\ x(to) < x(at)))
  <2> SUFFICES ASSUME at \notin Ends(pattern, origin)
               PROVE  LET to == Step(pattern, origin, at)
                      IN to \in Places(pattern, origin) /\ (a(to) < a(at) \/ (a(to) = a(at) /\ x(to) < x(at)))
    OBVIOUS
  <2>1. Step(pattern, origin, at) \in Places(pattern, origin)
    BY StepFields
  <2>2. at.mark <= at.o /\ at.mark \in Nat /\ at.o \in Nat /\ at.p \in Nat
    BY PlaceFields
  <2> DEFINE to == Step(pattern, origin, at)
  <2>3. \/ to.p = at.p + 1 /\ to.mark = at.mark
        \/ to.p = at.p + 1 /\ to.mark = at.o
        \/ to.mark = at.mark + 1
    BY StepFields
  <2>4. to.p \in Nat /\ to.mark \in Nat
    BY <2>1, PlaceFields
  <2> HIDE DEF to
  <2>5. a(to) < a(at) \/ (a(to) = a(at) /\ x(to) < x(at))
    <3>1. CASE to.mark > at.mark
      BY <1>1, <2>2, <2>4, <3>1
    <3>2. CASE to.p = at.p + 1 /\ to.mark = at.mark
      BY <1>1, <2>2, <2>4, <3>2
    <3> QED
      BY <2>2, <2>3, <2>4, <3>1, <3>2
  <2> HIDE DEF k, a, x
  <2> QED
    BY <2>1, <2>5 DEF to
<1> HIDE DEF k, a, x
<1>4. a(at) * k + x(at) \in Nat
  BY <1>1, <1>2
<1>5. a(at) * k + x(at) < (Len(origin) + 1) * k + 0
  BY <1>1, <1>2, Lexicographic
<1>6. (Len(origin) + 1) * k \in Nat
  BY <1>1
<1>7. at \notin Ends(pattern, origin) =>
        StepsLeft(pattern, origin, Step(pattern, origin, at)) < StepsLeft(pattern, origin, at)
  BY <1>1, <1>2, <1>3, Lexicographic
<1>8. a(at) * k + x(at) < (Len(origin) + 1) * k
  BY <1>5, <1>6
<1> QED
  BY <1>2, <1>4, <1>7, <1>8 DEF k
\* What the matcher is to find out at a place: that what is left of the pattern stands for what is
\* left of the origin, or will when the last star swallows more.
Promising(pattern, origin, at) ==
  \/ Rest(pattern, origin, at.p, at.o)
  \/ /\ at.star # 0
     /\ \E j \in at.mark + 1..Len(origin) + 1 : Rest(pattern, origin, at.star + 1, j)

\* Since the last star, every letter has met its own.
OnlyLettersSince(pattern, at) ==
  at.star # 0 =>
    /\ at.p - (at.star + 1) = at.o - at.mark
    /\ \A i \in at.star + 1..at.p - 1 : pattern[i] # "*"

\* A place that a turn leads to a promising one is promising: whatever the origin.
LEMMA TurnIsSound ==
  ASSUME NEW pattern \in Seq(STRING), NEW origin \in Seq(STRING), NEW at \in Places(pattern, origin),
         IF at \in Ends(pattern, origin) THEN at.o > Len(origin) /\ OnlyStars(pattern, at)
         ELSE Promising(pattern, origin, Step(pattern, origin, at))
  PROVE  Promising(pattern, origin, at)
<1> DEFINE L == Len(pattern)
           N == Len(origin)
           to == Step(pattern, origin, at)
<1>1. L \in Nat /\ N \in Nat
  OBVIOUS
<1>2. /\ at.p \in 1..L + 1 /\ at.o \in 1..N + 1 /\ at.star \in 0..L /\ at.mark \in 1..N + 1
      /\ at.star < at.p /\ at.mark <= at.o
  BY PlaceFields
<1>3. CASE at \in Ends(pattern, origin)
  <2>1. at.o = N + 1 /\ \A i \in at.p..L : pattern[i] = "*"
    BY <1>1, <1>2, <1>3 DEF OnlyStars
  <2>2. Rest(pattern, origin, at.p, N + 1)
    BY <1>2, <2>1, RestAtEnd
  <2> QED
    BY <2>1, <2>2 DEF Promising
<1>4. CASE at \notin Ends(pattern, origin)
  <2>1. at.o \in 1..N
    BY <1>1, <1>2, <1>4 DEF Ends
  <2>2. Promising(pattern, origin, to)
    BY <1>4
  <2>3. CASE /\ at.p <= L /\ pattern[at.p] = origin[at.o]
             /\ to.p = at.p + 1 /\ to.o = at.o + 1 /\ to.star = at.star /\ to.mark = at.mark
    <3> HIDE DEF to
    <3>1. CASE Rest(pattern, origin, at.p + 1, at.o + 1)
      <4>1. /\ at.p \in 1..L /\ at.o \in 1..N + 1 /\ at.o + 1 \in 1..N + 1
            /\ IF pattern[at.p] = "*" THEN at.o <= at.o + 1
               ELSE at.o + 1 = at.o + 1 /\ pattern[at.p] = origin[at.o]
        BY <1>1, <1>2, <2>1, <2>3
      <4>2. Rest(pattern, origin, at.p, at.o)
        BY <3>1, <4>1, RestGrows
      <4> QED
        BY <4>2 DEF Promising
    <3>2. CASE ~Rest(pattern, origin, at.p + 1, at.o + 1)
      BY <2>2, <2>3, <3>2 DEF Promising
    <3> QED
      BY <3>1, <3>2
  <2>4. CASE /\ at.p <= L /\ pattern[at.p] = "*"
             /\ to.p = at.p + 1 /\ to.o = at.o /\ to.star = at.p /\ to.mark = at.o
    <3> HIDE DEF to
    <3>1. \E j \in 1..N + 1 : at.o <= j /\ Rest(pattern, origin, at.p + 1, j)
      BY <1>1, <1>2, <2>2, <2>4 DEF Promising
    <3>2. Rest(pattern, origin, at.p, at.o)
      BY <1>1, <1>2, <2>4, <3>1, RestGrows
    <3> QED
      BY <3>2 DEF Promising
  <2>5. CASE /\ at.star # 0
             /\ to.p = at.star + 1 /\ to.o = at.mark + 1 /\ to.star = at.star /\ to.mark = at.mark + 1
    <3> HIDE DEF to
    <3>1. \E j \in at.mark + 1..N + 1 : Rest(pattern, origin, at.star + 1, j)
      BY <1>1, <1>2, <2>1, <2>2, <2>5 DEF Promising
    <3> QED
      BY <2>5, <3>1 DEF Promising
  <2> QED
    BY <1>4, <2>3, <2>4, <2>5, StepFields
<1> QED
  BY <1>3, <1>4

\* A promising place that only letters lead to since the last star leads to another, or is an end
\* that matches: a new star need not remember the one before it.
LEMMA BothGrow ==
  ASSUME NEW at, at.p \in Int, at.star \in Int, at.o \in Int, at.mark \in Int,
         at.p - (at.star + 1) = at.o - at.mark
  PROVE  (at.p + 1) - (at.star + 1) = (at.o + 1) - at.mark
<1>1. \A a, b, c, d \in Int : a - (b + 1) = c - d => (a + 1) - (b + 1) = (c + 1) - d
  BY SMT
<1> DEFINE a == at.p
           b == at.star
           c == at.o
           d == at.mark
<1>2. a \in Int /\ b \in Int /\ c \in Int /\ d \in Int /\ a - (b + 1) = c - d
  OBVIOUS
<1> HIDE DEF a, b, c, d
<1>3. (a + 1) - (b + 1) = (c + 1) - d
  BY <1>1, <1>2
<1> QED
  BY <1>3 DEF a, b, c, d

LEMMA TurnIsComplete ==
  ASSUME NEW pattern \in Seq(STRING), NEW origin \in Seq(STRING), NEW at \in Places(pattern, origin),
         \A i \in DOMAIN origin : origin[i] # "*",
         OnlyLettersSince(pattern, at), Promising(pattern, origin, at)
  PROVE  IF at \in Ends(pattern, origin) THEN at.o > Len(origin) /\ OnlyStars(pattern, at)
         ELSE LET to == Step(pattern, origin, at)
              IN OnlyLettersSince(pattern, to) /\ Promising(pattern, origin, to)
<1> DEFINE L == Len(pattern)
           N == Len(origin)
           to == Step(pattern, origin, at)
<1>1. L \in Nat /\ N \in Nat
  OBVIOUS
<1>2. /\ at.p \in 1..L + 1 /\ at.o \in 1..N + 1 /\ at.star \in 0..L /\ at.mark \in 1..N + 1
      /\ at.star < at.p /\ at.mark <= at.o
  BY PlaceFields
\* Where a later start after the last star would bring it to.
<1>3. ASSUME at.star # 0, NEW j \in at.mark + 1..N + 1, Rest(pattern, origin, at.star + 1, j)
      PROVE  \E x \in at.o + 1..N + 1 : Rest(pattern, origin, at.p, x)
  <2> DEFINE x == j + (at.p - (at.star + 1))
  <2>1. at.star + 1 \in 1..L + 1 /\ at.p \in at.star + 1..L + 1 /\ j \in 1..N + 1
    BY <1>1, <1>2
  <2>2. x \in 1..N + 1 /\ Rest(pattern, origin, at.p, x)
    BY <1>3, <2>1, RestAfterLetters DEF OnlyLettersSince
  <2>3. x >= at.o + 1
    BY <1>1, <1>2, <1>3 DEF OnlyLettersSince
  <2> QED
    BY <1>1, <1>2, <2>2, <2>3
<1>4. CASE at.o = N + 1
  <2>1. Rest(pattern, origin, at.p, N + 1)
    BY <1>1, <1>2, <1>3, <1>4 DEF Promising
  <2>2. OnlyStars(pattern, at)
    BY <1>2, <2>1, RestAtEnd DEF OnlyStars
  <2>3. at \in Ends(pattern, origin)
    BY <1>1, <1>4 DEF Ends
  <2> QED
    BY <1>1, <1>4, <2>2, <2>3
<1>5. CASE at.o # N + 1
  <2>1. at.o \in 1..N /\ origin[at.o] # "*"
    BY <1>1, <1>2, <1>5
  <2>2. ASSUME ~Meets(pattern, origin, at)
        PROVE  ~Rest(pattern, origin, at.p, at.o)
    <3>1. CASE at.p = L + 1
      BY <1>1, <1>2, <2>1, <3>1, RestOfNothing
    <3>2. CASE at.p # L + 1
      <4>1. at.p \in 1..L /\ pattern[at.p] # "*" /\ pattern[at.p] # origin[at.o]
        BY <1>1, <1>2, <2>2, <3>2 DEF Meets
      <4> QED
        BY <1>2, <4>1, RestShrinks
    <3> QED
      BY <3>1, <3>2
  <2>3. at \notin Ends(pattern, origin)
    BY <1>1, <2>1, <2>2 DEF Ends, Promising
  <2>4. CASE /\ at.p <= L /\ pattern[at.p] = origin[at.o]
             /\ to.p = at.p + 1 /\ to.o = at.o + 1 /\ to.star = at.star /\ to.mark = at.mark
    <3> HIDE DEF to
    <3>1. at.p \in 1..L /\ pattern[at.p] # "*"
      BY <1>1, <1>2, <2>1, <2>4
    <3>2. Rest(pattern, origin, at.p, at.o) => Rest(pattern, origin, at.p + 1, at.o + 1)
      BY <1>2, <3>1, RestShrinks
    <3>3. Promising(pattern, origin, to)
      BY <2>4, <3>2 DEF Promising
    <3>4. ASSUME at.star # 0
          PROVE  /\ (at.p + 1) - (at.star + 1) = (at.o + 1) - at.mark
                 /\ \A i \in at.star + 1..(at.p + 1) - 1 : pattern[i] # "*"
      <4>1. at.p - (at.star + 1) = at.o - at.mark /\ \A i \in at.star + 1..at.p - 1 : pattern[i] # "*"
        BY <3>4 DEF OnlyLettersSince
      <4>2. \A i \in at.star + 1..(at.p + 1) - 1 : i = at.p \/ i \in at.star + 1..at.p - 1
        BY <1>1, <1>2
      <4>3. \A i \in at.star + 1..(at.p + 1) - 1 : pattern[i] # "*"
        BY <3>1, <4>1, <4>2
      <4>4. (at.p + 1) - (at.star + 1) = (at.o + 1) - at.mark
        <5>1. at.p \in Int /\ at.star \in Int /\ at.o \in Int /\ at.mark \in Int
          BY <1>1, <1>2
        <5>2. at.p - (at.star + 1) = at.o - at.mark
          BY <4>1
        <5> QED
          BY <5>1, <5>2, BothGrow
      <4> QED
        BY <4>3, <4>4
    <3>5. OnlyLettersSince(pattern, to)
      BY <2>4, <3>4 DEF OnlyLettersSince
    <3> QED
      BY <2>3, <3>3, <3>5 DEF to
  <2>5. CASE /\ at.p <= L /\ pattern[at.p] = "*"
             /\ to.p = at.p + 1 /\ to.o = at.o /\ to.star = at.p /\ to.mark = at.o
    <3> HIDE DEF to
    <3>1. at.p \in 1..L
      BY <1>1, <1>2, <2>5
    <3>2. \E x \in at.o..N + 1 : Rest(pattern, origin, at.p, x)
      BY <1>1, <1>2, <1>3 DEF Promising
    <3>3. PICK x \in at.o..N + 1 : Rest(pattern, origin, at.p, x)
      BY <3>2
    <3>4. \E j \in 1..N + 1 : x <= j /\ Rest(pattern, origin, at.p + 1, j)
      <4>1. x \in 1..N + 1
        BY <1>1, <1>2
      <4> QED
        BY <2>5, <3>1, <3>3, <4>1, RestShrinks
    <3>5. Promising(pattern, origin, to)
      BY <1>1, <1>2, <2>5, <3>1, <3>3, <3>4 DEF Promising
    <3>6. OnlyLettersSince(pattern, to)
      BY <1>1, <1>2, <2>5 DEF OnlyLettersSince
    <3> QED
      BY <2>3, <3>5, <3>6 DEF to
  <2>6. CASE /\ ~Meets(pattern, origin, at) /\ at.star # 0
             /\ to.p = at.star + 1 /\ to.o = at.mark + 1 /\ to.star = at.star /\ to.mark = at.mark + 1
    <3> HIDE DEF to
    <3>1. \E j \in at.mark + 1..N + 1 : Rest(pattern, origin, at.star + 1, j)
      BY <2>2, <2>6 DEF Promising
    <3>2. Promising(pattern, origin, to)
      BY <1>1, <1>2, <2>6, <3>1 DEF Promising
    <3>3. OnlyLettersSince(pattern, to)
      BY <1>1, <1>2, <2>6 DEF OnlyLettersSince
    <3> QED
      BY <2>3, <3>2, <3>3 DEF to
  <2> QED
    BY <2>3, <2>4, <2>5, <2>6, StepFields
<1> QED
  BY <1>4, <1>5
\* The matcher is the loop.
LEMMA MatchIsLoop ==
  ASSUME NEW pattern \in Seq(STRING), NEW origin \in Seq(STRING)
  PROVE  \E m : /\ MatchOriginPattern(pattern, origin) = m[[p |-> 1, o |-> 1, star |-> 0, mark |-> 1]]
                /\ \A at \in Places(pattern, origin) :
                     m[at] <=> IF at \in Ends(pattern, origin)
                               THEN at.o > Len(origin) /\ OnlyStars(pattern, at)
                               ELSE m[Step(pattern, origin, at)]
<1> DEFINE Turn(f) ==
             [at \in Places(pattern, origin) |->
                IF at.o > Len(origin) THEN \A i \in at.p..Len(pattern) : pattern[i] = "*"
                ELSE IF at.p <= Len(pattern) /\ pattern[at.p] = origin[at.o]
                THEN f[[at EXCEPT !.p = @ + 1, !.o = @ + 1]]
                ELSE IF at.p <= Len(pattern) /\ pattern[at.p] = "*"
                THEN f[[at EXCEPT !.p = @ + 1, !.star = at.p, !.mark = at.o]]
                ELSE at.star # 0 /\ f[[at EXCEPT !.p = at.star + 1, !.o = at.mark + 1, !.mark = @ + 1]]]
           m == CHOOSE f : f = Turn(f)
<1>1. MatchOriginPattern(pattern, origin) = m[[p |-> 1, o |-> 1, star |-> 0, mark |-> 1]]
  BY DEF MatchOriginPattern
<1>2. ASSUME NEW f, NEW at \in Places(pattern, origin)
      PROVE  Turn(f)[at] = IF at.o > Len(origin) THEN OnlyStars(pattern, at)
                           ELSE IF Meets(pattern, origin, at) THEN f[Step(pattern, origin, at)]
                           ELSE at.star # 0 /\ f[Step(pattern, origin, at)]
  BY DEF OnlyStars, Meets, Step
<1>3. \E f : f = Turn(f)
  <2> DEFINE P == Places(pattern, origin)
             E == Ends(pattern, origin)
             next == [at \in P |-> IF at \in E THEN at ELSE Step(pattern, origin, at)]
             result == [at \in P |-> at.o > Len(origin) /\ OnlyStars(pattern, at)]
             left == [at \in P |-> StepsLeft(pattern, origin, at)]
             most == (Len(origin) + 1) * (Len(pattern) + 2)
  <2>1. E \in SUBSET P
    BY DEF Ends
  <2>2. next \in [P -> P]
    BY StepFields
  <2>3. result \in [P -> BOOLEAN]
    BY DEF OnlyStars
  <2>4. left \in [P -> Nat] /\ \A at \in P : left[at] < most
    BY StepsGetFewer
  <2>5. most \in Nat
    OBVIOUS
  <2>6. \A at \in P \ E : left[next[at]] < left[at]
    BY <2>2, StepsGetFewer
  <2> HIDE DEF next, result, left, most, P, E
  <2>7. PICK f \in [P -> BOOLEAN] : \A at \in P : f[at] = IF at \in E THEN result[at] ELSE f[next[at]]
    <3>1. EndsInTime(P, E, next, result, left, most)
      BY <2>1, <2>2, <2>3, <2>4, <2>5, <2>6 DEF EndsInTime
    <3>2. \E f \in [P -> BOOLEAN] : IsResult(P, E, next, result, f)
      BY <3>1, LoopHasResult
    <3> QED
      BY <3>2 DEF IsResult
  <2>8. ASSUME NEW at \in P
        PROVE  f[at] = Turn(f)[at]
    <3>1. f[at] \in BOOLEAN /\ next[at] \in P /\ f[next[at]] \in BOOLEAN
      BY <2>2, <2>7
    <3>2. CASE at \in E
      <4>1. f[at] = (at.o > Len(origin) /\ OnlyStars(pattern, at))
        BY <2>7, <3>2 DEF result
      <4>2. at.o > Len(origin) \/ (at.star = 0 /\ ~Meets(pattern, origin, at))
        BY <3>2 DEF E, Ends
      <4>3. CASE at.o > Len(origin)
        BY <1>2, <4>1, <4>3 DEF P, OnlyStars
      <4>4. CASE ~(at.o > Len(origin))
        BY <1>2, <4>1, <4>2, <4>4 DEF P
      <4> QED
        BY <4>3, <4>4
    <3>3. CASE at \notin E
      <4>1. f[at] = f[Step(pattern, origin, at)] /\ f[Step(pattern, origin, at)] \in BOOLEAN
        BY <2>7, <3>1, <3>3 DEF next
      <4>2. ~(at.o > Len(origin)) /\ (at.star # 0 \/ Meets(pattern, origin, at))
        BY <3>3 DEF P, E, Ends
      <4> QED
        BY <1>2, <4>1, <4>2 DEF P
    <3> QED
      BY <3>2, <3>3
  <2>9. f = [at \in P |-> f[at]] /\ Turn(f) = [at \in P |-> Turn(f)[at]]
    BY <2>7 DEF P
  <2> HIDE DEF Turn
  <2>10. f = Turn(f)
    BY <2>8, <2>9
  <2> QED
    BY <2>10
<1>4. m = Turn(m)
  <2> HIDE DEF Turn
  <2> QED
    BY <1>3
<1> HIDE DEF Turn, m
<1>5. ASSUME NEW at \in Places(pattern, origin)
      PROVE  m[at] <=> IF at \in Ends(pattern, origin) THEN at.o > Len(origin) /\ OnlyStars(pattern, at)
                       ELSE m[Step(pattern, origin, at)]
  <2>1. m[at] = IF at.o > Len(origin) THEN OnlyStars(pattern, at)
                ELSE IF Meets(pattern, origin, at) THEN m[Step(pattern, origin, at)]
                ELSE at.star # 0 /\ m[Step(pattern, origin, at)]
    BY <1>2, <1>4
  <2> QED
    BY <2>1 DEF Ends
<1> QED
  BY <1>1, <1>5

LEMMA FirstPlace ==
  ASSUME NEW pattern \in Seq(STRING), NEW origin \in Seq(STRING)
  PROVE  LET at == [p |-> 1, o |-> 1, star |-> 0, mark |-> 1]
         IN /\ at \in Places(pattern, origin) /\ OnlyLettersSince(pattern, at)
            /\ Promising(pattern, origin, at) <=> Rest(pattern, origin, 1, 1)
BY DEF Places, OnlyLettersSince, Promising

\* What the matcher accepts, the pattern stands for.
THEOREM MatchedStands ==
  ASSUME NEW pattern \in Seq(STRING), NEW origin \in Seq(STRING), MatchOriginPattern(pattern, origin)
  PROVE  Stands(pattern, origin)
<1> DEFINE first == [p |-> 1, o |-> 1, star |-> 0, mark |-> 1]
           left == [at \in Places(pattern, origin) |-> StepsLeft(pattern, origin, at)]
<1>1. PICK m : /\ MatchOriginPattern(pattern, origin) = m[first]
               /\ \A at \in Places(pattern, origin) :
                    m[at] <=> IF at \in Ends(pattern, origin)
                              THEN at.o > Len(origin) /\ OnlyStars(pattern, at)
                              ELSE m[Step(pattern, origin, at)]
  BY MatchIsLoop
<1> DEFINE Wrong == {at \in Places(pattern, origin) : m[at] /\ ~Promising(pattern, origin, at)}
<1>2. ASSUME Wrong # {}
      PROVE  FALSE
  <2>1. \A at \in Wrong : left[at] \in Nat
    BY StepsGetFewer
  <2>2. PICK at \in Wrong : \A t \in Wrong : left[at] <= left[t]
    <3> HIDE DEF left, Wrong
    <3> QED
      BY <1>2, <2>1, LeastOne
  <2>3. at \in Places(pattern, origin) /\ m[at] /\ ~Promising(pattern, origin, at)
    BY <2>2
  <2>4. at \notin Ends(pattern, origin)
    BY <1>1, <2>3, TurnIsSound
  <2> DEFINE to == Step(pattern, origin, at)
  <2>5. to \in Places(pattern, origin) /\ m[to] /\ left[to] < left[at] /\ left[to] \in Nat /\ left[at] \in Nat
    BY <1>1, <2>3, <2>4, StepFields, StepsGetFewer
  <2>6. ~Promising(pattern, origin, to)
    BY <2>3, <2>4, TurnIsSound
  <2>7. to \in Wrong
    BY <2>5, <2>6
  <2> HIDE DEF left, Wrong, to
  <2> QED
    BY <2>2, <2>5, <2>7
<1>3. first \in Places(pattern, origin) /\ m[first]
  BY <1>1, FirstPlace
<1>4. Promising(pattern, origin, first)
  BY <1>2, <1>3
<1> QED
  BY <1>4, FirstPlace, StandsIsRest

\* What a pattern stands for, the matcher accepts: only the last star need be remembered.  An origin
\* is the name of a site, and has no star in it.
THEOREM StandingMatches ==
  ASSUME NEW pattern \in Seq(STRING), NEW origin \in Seq(STRING),
         \A i \in DOMAIN origin : origin[i] # "*", Stands(pattern, origin)
  PROVE  MatchOriginPattern(pattern, origin)
<1> DEFINE first == [p |-> 1, o |-> 1, star |-> 0, mark |-> 1]
           left == [at \in Places(pattern, origin) |-> StepsLeft(pattern, origin, at)]
<1>1. PICK m : /\ MatchOriginPattern(pattern, origin) = m[first]
               /\ \A at \in Places(pattern, origin) :
                    m[at] <=> IF at \in Ends(pattern, origin)
                              THEN at.o > Len(origin) /\ OnlyStars(pattern, at)
                              ELSE m[Step(pattern, origin, at)]
  BY MatchIsLoop
<1> DEFINE Wrong == {at \in Places(pattern, origin) :
                       Promising(pattern, origin, at) /\ OnlyLettersSince(pattern, at) /\ ~m[at]}
<1>2. ASSUME Wrong # {}
      PROVE  FALSE
  <2>1. \A at \in Wrong : left[at] \in Nat
    BY StepsGetFewer
  <2>2. PICK at \in Wrong : \A t \in Wrong : left[at] <= left[t]
    <3> HIDE DEF left, Wrong
    <3> QED
      BY <1>2, <2>1, LeastOne
  <2>3. at \in Places(pattern, origin) /\ ~m[at] /\ Promising(pattern, origin, at) /\ OnlyLettersSince(pattern, at)
    BY <2>2
  <2>4. at \notin Ends(pattern, origin)
    BY <1>1, <2>3, TurnIsComplete
  <2> DEFINE to == Step(pattern, origin, at)
  <2>5. to \in Places(pattern, origin) /\ ~m[to] /\ left[to] < left[at] /\ left[to] \in Nat /\ left[at] \in Nat
    BY <1>1, <2>3, <2>4, StepFields, StepsGetFewer
  <2>6. Promising(pattern, origin, to) /\ OnlyLettersSince(pattern, to)
    BY <2>3, <2>4, TurnIsComplete
  <2>7. to \in Wrong
    BY <2>5, <2>6
  <2> HIDE DEF left, Wrong, to
  <2> QED
    BY <2>2, <2>5, <2>7
<1>3. first \in Places(pattern, origin) /\ Promising(pattern, origin, first) /\ OnlyLettersSince(pattern, first)
  BY FirstPlace, StandsIsRest
<1>4. m[first]
  BY <1>2, <1>3
<1> QED
  BY <1>1, <1>4

-----------------------------------------------------------------------------
(* Who is let in. *)

\* The first value found is the one that counts.
LEMMA FirstIsShown ==
  ASSUME NEW places, NEW n \in Nat, DOMAIN places = 1..n, NEW shown, NEW value, value # "none"
  PROVE  First(places, shown) = value <=> Shown(places, shown) = {value}
<1> DEFINE found == {i \in DOMAIN places : places[i] \in DOMAIN shown}
           first == CHOOSE i \in found : \A j \in found : i <= j
           Unseen(j) == \A k \in 1..j - 1 : places[k] \notin DOMAIN shown
<1>1. Shown(places, shown) = {shown[places[i]] : i \in {j \in DOMAIN places :
                                places[j] \in DOMAIN shown /\ Unseen(j)}}
  BY DEF Shown
<1>2. CASE found = {}
  <2>1. First(places, shown) = "none"
    BY <1>2 DEF First
  <2>2. Shown(places, shown) = {}
    BY <1>1, <1>2
  <2> QED
    BY <2>1, <2>2
<1>3. CASE found # {}
  <2>1. found \subseteq Nat
    OBVIOUS
  <2>2. first \in found /\ \A j \in found : first <= j
    <3> HIDE DEF found
    <3> QED
      BY <1>3, <2>1, LeastExists
  <2>3. First(places, shown) = shown[places[first]]
    BY <1>3 DEF First
  <2> HIDE DEF first
  <2>4. {j \in DOMAIN places : places[j] \in DOMAIN shown /\ Unseen(j)} = {first}
    <3>1. Unseen(first)
      BY <2>1, <2>2
    <3>2. ASSUME NEW j \in DOMAIN places, places[j] \in DOMAIN shown, Unseen(j)
          PROVE  j = first
      BY <2>2, <3>2
    <3> QED
      BY <2>2, <3>1, <3>2
  <2>5. Shown(places, shown) = {shown[places[first]]}
    <3> HIDE DEF Unseen
    <3> QED
      BY <1>1, <2>4
  <2> QED
    BY <2>3, <2>5
<1> QED
  BY <1>2, <1>3

LEMMA JoinedRow ==
  ASSUME NEW S, NEW s \in Seq(S), NEW t \in Seq(S)
  PROVE  s \o t \in Seq(S)
OBVIOUS

LEMMA PlacesInARow ==
  ASSUME NEW c
  PROVE  /\ \E n \in Nat : DOMAIN KeyPlaces(c) = 1..n
         /\ \E n \in Nat : DOMAIN IdPlaces(c) = 1..n
<1> DEFINE bearer == <<"authorization", "bearer">>
           header == <<"header", c.headers>>
           query == <<"query", c.queries>>
           idHeader == <<"id header", c.idHeaders>>
           idQuery == <<"id query", c.idQueries>>
           cookie == <<"cookie", "default">>
           P == {bearer, header, query, idHeader, idQuery, cookie}
<1>1. /\ Named("header", c.headers) \in {<<>>, <<header>>}
      /\ Named("query", c.queries) \in {<<>>, <<query>>}
      /\ Named("id header", c.idHeaders) \in {<<>>, <<idHeader>>}
      /\ Named("id query", c.idQueries) \in {<<>>, <<idQuery>>}
  BY Zenon DEF Named
<1>2. /\ KeyPlaces(c) = (IF c.bearer = "on" THEN <<bearer>> ELSE <<>>)
                          \o Named("header", c.headers) \o Named("query", c.queries)
      /\ IdPlaces(c) = Named("id header", c.idHeaders) \o Named("id query", c.idQueries) \o <<cookie>>
  BY Zenon DEF KeyPlaces, IdPlaces
<1> HIDE DEF bearer, header, query, idHeader, idQuery, cookie
<1>3. <<>> \in Seq(P) /\ \A p \in P : <<p>> \in Seq(P)
  <2> HIDE DEF P
  <2>1. ASSUME NEW p \in P
        PROVE  <<p>> \in Seq(P)
    OBVIOUS
  <2> QED
    BY <2>1
<1>4. KeyPlaces(c) \in Seq(P) /\ IdPlaces(c) \in Seq(P)
  <2>1. /\ Named("header", c.headers) \in Seq(P) /\ Named("query", c.queries) \in Seq(P)
        /\ Named("id header", c.idHeaders) \in Seq(P) /\ Named("id query", c.idQueries) \in Seq(P)
        /\ <<bearer>> \in Seq(P) /\ <<cookie>> \in Seq(P) /\ <<>> \in Seq(P)
    BY <1>1, <1>3, Zenon
  <2>2. (IF c.bearer = "on" THEN <<bearer>> ELSE <<>>) \in Seq(P)
    BY <2>1, Zenon
  <2>3. /\ (IF c.bearer = "on" THEN <<bearer>> ELSE <<>>) \o Named("header", c.headers) \in Seq(P)
        /\ Named("id header", c.idHeaders) \o Named("id query", c.idQueries) \in Seq(P)
    BY <2>1, <2>2, JoinedRow, Zenon
  <2> HIDE DEF P
  <2> QED
    BY <1>2, <2>1, <2>2, <2>3, JoinedRow, Zenon
<1> QED
  BY <1>4

\* Every route serves whom it is to serve.
LEMMA ServedAreWelcome ==
  ASSUME NEW c, NEW visitor \in Visitors,
         visitor.pattern # <<>> <=> c.wsOrigins = "own" /\ visitor.origin # <<>>
  PROVE  (IF visitor.route = "socket" THEN HandleWebsocket(c, visitor) ELSE ServeHTTP(c, visitor)) = "served"
           <=> Welcome(c, visitor)
<1> DEFINE known == c.http = "off" \/ Shown(KeyPlaces(c), visitor.shows) = {"key"}
<1>1. First(KeyPlaces(c), visitor.shows) = "key" <=> Shown(KeyPlaces(c), visitor.shows) = {"key"}
  <2>1. PICK n \in Nat : DOMAIN KeyPlaces(c) = 1..n
    BY PlacesInARow
  <2> QED
    BY <2>1, FirstIsShown
<1>2. First(IdPlaces(c), visitor.names) = "bad" <=> Shown(IdPlaces(c), visitor.names) = {"bad"}
  <2>1. PICK n \in Nat : DOMAIN IdPlaces(c) = 1..n
    BY PlacesInARow
  <2> QED
    BY <2>1, FirstIsShown
<1>3. Authenticate(c, visitor) = "pass" <=> known
  BY <1>1 DEF Authenticate
<1>4. MatchOriginPattern(visitor.pattern, visitor.origin) <=> Stands(visitor.pattern, visitor.origin)
  BY VisitorsAssumption, OriginsAssumption, MatchedStands, StandingMatches
<1>5. OriginAllowed(c, visitor) <=>
        \/ c.originMode = "any" \/ c.wsOrigins = "any"
        \/ visitor.origin = <<>> /\ c.originMode # "own"
        \/ c.wsOrigins = "own" /\ visitor.origin # <<>> /\ Stands(visitor.pattern, visitor.origin)
  BY <1>4 DEF OriginAllowed
<1> HIDE DEF known
<1>6. CASE visitor.route = "socket"
  BY <1>2, <1>3, <1>5, <1>6 DEF Welcome, HandleWebsocket, known
<1>7. CASE visitor.route = "open"
  BY <1>7 DEF Welcome, ServeHTTP
<1>8. CASE visitor.route = "api"
  BY <1>3, <1>8 DEF Welcome, ServeHTTP, known
<1> QED
  BY <1>6, <1>7, <1>8, VisitorsAssumption

\* A process lets in exactly those whom its configuration names (server.go, middleware.go,
\* internal/access, manager.go HandleWebsocket): whatever the patterns, as long as no origin has
\* a star in it.
THEOREM RightOnesAlwaysGetIn == AccessSpec => []LetsInTheRightOnes
<1>1. AccessInit => LetsInTheRightOnes
  BY DEF AccessInit, LetsInTheRightOnes
<1>2. ASSUME LetsInTheRightOnes, [AccessNext]_<<configurationVars, visit>>
      PROVE  LetsInTheRightOnes'
  <2>1. CASE Next /\ visit = NoVisit /\ UNCHANGED visit
    BY <2>1 DEF LetsInTheRightOnes
  <2>2. ASSUME NEW visitor \in Visitors, Visit(visitor)
        PROVE  LetsInTheRightOnes'
    <3> DEFINE answer == IF visitor.route = "socket" THEN HandleWebsocket(config, visitor)
                         ELSE ServeHTTP(config, visitor)
    <3>1. answer = "served" <=> Welcome(config, visitor)
      BY <2>2, ServedAreWelcome DEF Visit
    <3>2. config' = config /\ visit' = <<[visitor |-> visitor, answer |-> answer]>>
      BY <2>2 DEF Visit, configurationVars
    <3> HIDE DEF answer
    <3>3. visit'[1].visitor = visitor /\ visit'[1].answer = answer
      BY <3>2
    <3> QED
      BY <3>1, <3>2, <3>3 DEF LetsInTheRightOnes
  <2>3. CASE Answered
    BY <2>3 DEF Answered, LetsInTheRightOnes
  <2>4. CASE UNCHANGED <<configurationVars, visit>>
    BY <1>2, <2>4 DEF LetsInTheRightOnes, configurationVars
  <2> QED
    BY <1>2, <2>1, <2>2, <2>3, <2>4 DEF AccessNext
<1> QED
  BY <1>1, <1>2, PTL DEF AccessSpec

=============================================================================
