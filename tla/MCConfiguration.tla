-------------------------- MODULE MCConfiguration ----------------------------
(***************************************************************************)
(* Files and environments for TLC.  The fields fall into groups that no    *)
(* rule connects: within a group every choice of the environment meets     *)
(* every choice of the file, and every garbled or illegal value is met     *)
(* once.  Every visitor comes to every process that is up: clients with    *)
(* keys and other values in every place and, for a deployment that lists   *)
(* origins, every origin and every pattern of up to three characters.      *)
(***************************************************************************)
EXTENDS Access, TLC

Set(choice) == Restrict(choice, {f \in DOMAIN choice : choice[f] # "unset"})

\* An access policy, in the file and in the environment.
PolicyDocs ==
  [http : {"unset", "on"}, keys : {"unset", "blank", "own"}, bearer : {"unset", "off"},
   headers : {"unset", "none", "blank", "own"}, queries : {"unset", "none"}]
PolicyEnvs ==
  [http : {"unset", "on"}, keys : {"unset", "none", "own"}, bearer : {"unset", "off"},
   headers : {"unset", "none", "own"}, queries : {"unset", "none"}]

\* Origins of other sites.
CORSDocs ==
  [cors : {"unset", "on"}, origins : {"unset", "blank", "any", "own"},
   methods : {"unset", "blank"}, credentials : {"unset", "on"}]
CORSEnvs ==
  [cors : {"unset", "on", "off"}, origins : {"unset", "none", "any", "own"},
   methods : {"unset", "none", "own"}, credentials : {"unset", "on"}]

\* The rest: certificates, the origins of providers, the names they go by, scalars.
ServerDocs == [tls : {"unset", "on"}, cert : {"unset", "empty", "own"}, certKey : {"unset", "own"}]
ServerEnvs == [tls : {"unset", "on", "off"}, cert : {"unset", "own"}, certKey : {"unset", "empty", "own"}]

OriginDocs == [originMode : {"unset", "empty", "own", "any", "bad"}, wsOrigins : {"unset", "blank", "own"}]
OriginEnvs == [originMode : {"unset", "empty", "own", "bad"}, wsOrigins : {"unset", "none", "any", "own"}]

IdentityDocs ==
  [idHeaders : {"unset", "none", "blank", "own"}, idQueries : {"unset", "none", "own"}]
IdentityEnvs == [idHeaders : {"unset", "none", "own"}, idQueries : {"unset", "none"}]

ScalarDocs ==
  [timeout : {"unset", "empty", "own", "bad"}, port : {"unset", "own", "bad"}, path : {"unset", "refused"}]
ScalarEnvs ==
  [timeout : {"unset", "empty", "own", "bad"}, port : {"unset", "own", "garbled"},
   logLevel : {"unset", "bad"}, path : {"unset", "own", "refused"}]

Text(doc) == [kind |-> "text", doc |-> Set(doc)]
NoText(kind) == [kind |-> kind, doc |-> Nothing]

Deployment(docs, envs) ==
  [files |-> {Text(d) : d \in docs}
               \cup {NoText("absent"), NoText("directory"), NoText("broken")},
   envs |-> {Set(e) : e \in envs}]

MCSettings ==
  {Deployment(PolicyDocs, PolicyEnvs), Deployment(CORSDocs, CORSEnvs),
   Deployment(ServerDocs, ServerEnvs), Deployment(OriginDocs, OriginEnvs),
   Deployment(IdentityDocs, IdentityEnvs),
   Deployment(ScalarDocs, ScalarEnvs)}

MCOverrides == {Nothing, [port |-> "own"], [port |-> "bad", logLevel |-> "own"], [logLevel |-> "bad"]}

Sequences(set, n) == UNION {[1..k -> set] : k \in 1..n}

Comer(route, preflight, shows, names, origin, pattern) ==
  [route |-> route, preflight |-> preflight, shows |-> shows, names |-> names,
   origin |-> origin, pattern |-> pattern]

Shows(place, value) == (place :> value)

Bearer == <<"authorization", "bearer">>

Credentials ==
  {Nothing, Shows(Bearer, "other") @@ Shows(<<"header", "default">>, "key"),
   Shows(<<"header", "default">>, "other") @@ Shows(<<"header", "own">>, "key"),
   Shows(<<"header", "own">>, "key") @@ Shows(<<"query", "default">>, "other")}
    \cup {Shows(place, "key") : place \in {Bearer, <<"header", "default">>, <<"query", "default">>}}

Identities ==
  {Shows(<<"id header", "default">>, "bad"),
   Shows(<<"id query", "own">>, "good") @@ Shows(<<"cookie", "default">>, "bad")}

Clients == {Comer("api", FALSE, shows, Nothing, <<>>, <<>>) : shows \in Credentials}
Preflights == {Comer(route, TRUE, Nothing, Nothing, <<>>, <<>>) : route \in {"open", "api", "socket"}}

\* Providers from everywhere, with the key.
Providers ==
  {Comer("socket", FALSE, Shows(Bearer, "key"), names, <<>>, <<>>) : names \in Identities}
    \cup {Comer("socket", FALSE, shows, Nothing, <<"a">>, <<>>) : shows \in {Nothing, Shows(Bearer, "key")}}
    \cup {Comer("socket", FALSE, Shows(Bearer, "key"), Nothing, origin, pattern) :
            origin \in Sequences({"a", "b"}, 3),
            pattern \in Sequences({"a", "b", "*"}, 3) \ {<<"*">>}}

MCVisitors == Clients \cup Preflights \cup Providers

=============================================================================
