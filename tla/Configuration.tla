---------------------------- MODULE Configuration ----------------------------
(***************************************************************************)
(* How a process gets its configuration and goes up: cmd/server/main.go,   *)
(* internal/config (bootstrap.go, load.go, env.go, validate.go,            *)
(* defaults.go) and the checks NewService makes in gateway/service.go.     *)
(*                                                                         *)
(* A start reads config.yaml, or the defaults when there is none, lays the *)
(* environment over it and prepares the result: fills in defaults,         *)
(* normalises, validates.  Without a file and with an environment it also  *)
(* renders the result to a new file, which the next start will read: the   *)
(* file outlives the process, so a crash or a full disk in the middle of   *)
(* the rendering, and an environment that is gone the next time, are part  *)
(* of the behaviours.                                                      *)
(*                                                                         *)
(* Abstractions.  A field stands for those the code treats alike (timeout  *)
(* for every text with a default, the access policy of HTTP for that of    *)
(* the web socket), and a value for its class: "empty" is unset or white   *)
(* space only, "own" and "bad" are legal and illegal values of the user's, *)
(* "garbled" does not parse, a list is "none", "blank" (entries of white   *)
(* space), "default", "own" or, for origins, "any", every origin.  Of the  *)
(* origin's modes "own" is strict and "default" is allow-missing; a path   *)
(* is "refused" that begins with a slash but that the router panics over.  *)
(* A document or an environment is a function from the fields it sets.     *)
(* The models section is in modules Models and Requests.  A short write,   *)
(* which leaves a part of the text, is not modelled: the text is less than *)
(* a page.                                                                 *)
(***************************************************************************)
EXTENDS Functions

CONSTANTS
  Settings,   \* the deployments: each a set of files and one of environments, to begin with
  Overrides   \* the command lines

-----------------------------------------------------------------------------
(* The fields of a Config that variables of the environment set, section   *)
(* by section: flags, lists, and the others, which are texts and a number. *)

ServerFields == {"timeout", "port", "tls", "cert", "certKey"}
AccessFields == {"http", "keys", "bearer", "headers", "queries"}
CORSFields == {"cors", "origins", "methods", "credentials"}
SocketFields == {"path", "originMode", "wsOrigins"}
IdentityFields == {"idHeaders", "idQueries"}
LoggingFields == {"logLevel"}

Fields ==
  ServerFields \cup AccessFields \cup CORSFields \cup SocketFields \cup IdentityFields \cup LoggingFields

Flags == {"tls", "http", "bearer", "cors", "credentials"}
Lists == {"keys", "headers", "queries", "origins", "methods", "wsOrigins", "idHeaders", "idQueries"}

Values(f) ==
  IF f \in Flags THEN {"on", "off"}
  ELSE IF f \in Lists THEN {"none", "default", "own", "any", "bad"}
  ELSE {"empty", "default", "own", "any", "bad", "refused"}

Zero == [f \in Fields |-> IF f \in Flags THEN "off" ELSE IF f \in Lists THEN "none" ELSE "empty"]

Nothing == [f \in {} |-> "empty"]

\* What "above" sets, and under it what "below" has.
Over(above, below) ==
  [f \in DOMAIN above \cup DOMAIN below |-> IF f \in DOMAIN above THEN above[f] ELSE below[f]]

\* What a text can say.  Only there is an entry of a list white space.
Document(doc) ==
  /\ DOMAIN doc \subseteq Fields
  /\ \A f \in DOMAIN doc : doc[f] \in Values(f) \/ (f \in Lists /\ doc[f] = "blank")

\* What variables can say: a list is rid of entries of white space when it is read, and a flag or
\* a number may not parse.
Environment(vars) ==
  /\ DOMAIN vars \subseteq Fields
  /\ \A f \in DOMAIN vars :
       vars[f] \in Values(f) \/ (f \in Flags \cup {"port"} /\ vars[f] = "garbled")

ASSUME SettingsAssumption ==
  \A s \in Settings :
    /\ \A f \in s.files : Document(f.doc) /\ (f.kind # "text" => f.doc = Nothing)
    /\ \A vars \in s.envs : Environment(vars)

\* main has options for the host, the port and the level, and takes an empty one for none.
ASSUME OverridesAssumption ==
  \A o \in Overrides :
    /\ DOMAIN o \subseteq {"timeout", "port", "logLevel"}
    /\ \A f \in DOMAIN o : o[f] \in {"own", "bad"}

-----------------------------------------------------------------------------
(* Defaults, normalisation, validation.                                    *)

\* A policy without any source gets the default sources, a policy with one keeps what it has.
NoSource(c) == c.bearer = "off" /\ c.headers = "none" /\ c.queries = "none"
NoIdentity(c) == c.idHeaders = "none" /\ c.idQueries = "none"

Unset(c) ==
  {f \in Fields \ {"cert", "certKey"} : c[f] = "empty"}
    \cup (IF NoSource(c) THEN {"bearer", "headers", "queries"} ELSE {})
    \cup (IF NoIdentity(c) THEN {"idHeaders", "idQueries"} ELSE {})
    \cup (IF c.cors = "on" /\ c.methods = "none" THEN {"methods"} ELSE {})

ApplyDefaults(c) ==
  [f \in Fields |-> IF f \notin Unset(c) THEN c[f]
                    ELSE IF f = "bearer" THEN "on" ELSE "default"]

Normalize(c) == [f \in Fields |-> IF c[f] = "blank" THEN "none" ELSE c[f]]

MutantPolicyAccepted(c) == c.http = "on" => ~NoSource(c)

PolicyAccepted(c) == c.http = "on" => c.keys # "none" /\ ~NoSource(c)

Validate(c) ==
  /\ \A f \in Fields : c[f] # "bad"
  /\ c.tls = "on" => c.cert # "empty" /\ c.certKey # "empty"
  /\ PolicyAccepted(c)
  /\ c.cors = "on" =>
       /\ c.origins # "none"
       /\ c.credentials = "on" => c.origins # "any"
  /\ c.originMode = "own" => c.wsOrigins # "none"

DefaultConfig == Normalize(ApplyDefaults(Zero))

\* What a start makes of its sources: a configuration, or an error.
Made(c) == [ok |-> TRUE, config |-> c]
Refused == [ok |-> FALSE, config |-> DefaultConfig]

Prepare(c) ==
  LET p == Normalize(ApplyDefaults(c))
  IN IF Validate(p) THEN Made(p) ELSE Refused

-----------------------------------------------------------------------------
(* Loading and rendering.                                                  *)

\* A document is decoded into the defaults; a file without text is the defaults.
LoadBytes(doc) == IF doc = Nothing THEN Made(DefaultConfig) ELSE Prepare(Over(doc, DefaultConfig))

Garbled(env) == \E f \in DOMAIN env : env[f] = "garbled"

MutantApplyEnvOverrides(env, c) == Over(c, env)

\* What a variable sets replaces the field; one that does not parse ends the start.
ApplyEnvOverrides(env, c) == Over(env, c)

WithEnvironment(env, c) ==
  IF Garbled(env) THEN Refused
  ELSE IF env = Nothing THEN Made(c)
  ELSE Prepare(ApplyEnvOverrides(env, c))

MutantLoadWithEnvBootstrap(file, env) ==
  CASE file.kind = "text" -> LoadBytes(file.doc)
    [] file.kind = "absent" -> WithEnvironment(env, DefaultConfig)
    [] OTHER -> Refused

LoadWithEnvBootstrap(file, env) ==
  CASE file.kind = "text" ->
         LET own == LoadBytes(file.doc)
         IN IF own.ok THEN WithEnvironment(env, own.config) ELSE Refused
    [] file.kind = "absent" -> WithEnvironment(env, DefaultConfig)
    [] OTHER -> Refused          \* a directory, or text that is no configuration

MutantToYAML(c) == Restrict(c, {f \in Fields : c[f] \notin {"none", "off"}})

\* Every field but the lists that are empty, which omitempty leaves out.
ToYAML(c) == Restrict(c, {f \in Fields : c[f] # "none"})

-----------------------------------------------------------------------------
(* The process.                                                            *)

VARIABLES
  file,       \* what is at the path: nothing, a directory, a text, or no configuration
  env,        \* the variables set for the next start
  stage,      \* how far the process is, or which error main ended with
  config,     \* what the start loaded, and then what the service runs with
  overrides,  \* its command line
  said,       \* history: what the starts with this environment loaded
  rendered    \* history: the configurations that a start has rendered whole

configurationVars == <<file, env, stage, config, overrides, said, rendered>>

Init ==
  /\ \E s \in Settings : file \in s.files /\ env \in s.envs
  /\ stage = "down"
  /\ config = DefaultConfig
  /\ overrides = Nothing
  /\ said = {}
  /\ rendered = {}

Load ==
  LET loaded == LoadWithEnvBootstrap(file, env)
  IN /\ stage = "down"
     /\ config' = loaded.config
     /\ said' = said \cup {loaded}
     /\ stage' = IF ~loaded.ok THEN "load failed"
                 ELSE IF file.kind = "absent" /\ env # Nothing THEN "render"
                 ELSE "build"
     /\ \E o \in Overrides : overrides' = o
     /\ UNCHANGED <<file, env, rendered>>

\* renderConfigFile opens the file, which makes it empty, and writes it: each may fail, and then
\* the start goes on with what it loaded.
Create ==
  /\ stage = "render"
  /\ \/ file' = [kind |-> "text", doc |-> Nothing] /\ stage' = "write"
     \/ file' = file /\ stage' = "build"
  /\ UNCHANGED <<env, config, overrides, said, rendered>>

Write ==
  /\ stage = "write"
  /\ stage' = "build"
  /\ \/ file' = [kind |-> "text", doc |-> ToYAML(config)] /\ rendered' = rendered \cup {config}
     \/ UNCHANGED <<file, rendered>>
  /\ UNCHANGED <<env, config, overrides, said>>

\* NewStaticKeyProvider wants a key and a source.
KeyProviderFits(c) == c.http = "on" => c.keys # "none" /\ ~NoSource(c)

\* The server's router panics over a path that it has already, and over a malformed pattern.
RoutesFit(c) == c.path # "refused"

\* The command line replaces what it names, and NewService prepares the result once more.
Build ==
  LET built == Prepare(Over(overrides, config))
  IN /\ stage = "build"
     /\ IF built.ok /\ KeyProviderFits(built.config) /\ RoutesFit(built.config)
        THEN stage' = "up" /\ config' = built.config
        ELSE stage' = "build failed" /\ UNCHANGED config
     /\ UNCHANGED <<file, env, overrides, said, rendered>>

\* The process ends: by itself, by a signal, or by a crash at any point.
Exit ==
  /\ stage # "down"
  /\ stage' = "down"
  /\ config' = DefaultConfig
  /\ overrides' = Nothing
  /\ UNCHANGED <<file, env, said, rendered>>

\* The next start gets no environment.
ForgetEnvironment ==
  /\ stage = "down"
  /\ env # Nothing
  /\ env' = Nothing
  /\ said' = {}
  /\ UNCHANGED <<file, stage, config, overrides, rendered>>

Next == Load \/ Create \/ Write \/ Build \/ Exit \/ ForgetEnvironment

Spec == Init /\ [][Next]_configurationVars

-----------------------------------------------------------------------------
(* Properties.                                                             *)

\* Starts with the same environment load the same configuration, or all fail: a start that
\* renders a file, or that dies or runs out of disk while it does, changes nothing for the next
\* (bootstrap.go LoadWithEnvBootstrap).
RestartsAgree == \A r1, r2 \in said : r1 = r2

\* What the environment sets is what the process gets, whatever the file says and unless its
\* command line says otherwise: only an unset text or number, and the sources of a policy or of
\* an identity that has none left, are filled in with their defaults (bootstrap.go, rule 3).
EnvironmentWins ==
  stage \in {"render", "write", "build", "up"} =>
    \A f \in DOMAIN env \ DOMAIN overrides :
      \/ config[f] = env[f]
      \/ /\ env[f] \in {"empty", "none", "off"}
         /\ config[f] = IF f = "methods" THEN "default" ELSE DefaultConfig[f]

\* What Load accepts goes up: NewService refuses only what the command line adds (main.go), or
\* a path for the web socket that is another route's or a malformed pattern, which nothing
\* checks before (server.go:233).
AcceptedCanStart ==
  stage = "build failed" =>
    config.path = "refused" \/ \E f \in DOMAIN overrides : overrides[f] = "bad"

\* A rendered file makes up for the environment it was rendered from: without that, it is
\* accepted and gives the same configuration, but for lists that the environment had emptied,
\* which come back with their defaults (bootstrap.go renderConfigFile, config.go).
RenderedKeeps ==
  \A c \in rendered :
    env = Nothing /\ file.doc = ToYAML(c) =>
      \A r \in said :
        /\ r.ok
        /\ \A f \in Fields :
             r.config[f] = c[f] \/ (c[f] = "none" /\ r.config[f] = DefaultConfig[f])

=============================================================================
