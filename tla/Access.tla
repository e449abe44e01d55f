------------------------------- MODULE Access --------------------------------
(***************************************************************************)
(* Who is let in by a process that is up (module Configuration): the       *)
(* routes and their middleware (internal/httpapi/server/server.go and      *)
(* middleware.go), the access policy (internal/access), and what a         *)
(* handshake is asked before its upgrade (internal/wsrelay/manager.go and  *)
(* origin.go, internal/provider/registry/identity.go).  From its upgrade   *)
(* on a handshake is in module Connections.                                *)
(*                                                                         *)
(* Abstractions.  One header and one query name stand for all that a list  *)
(* has; a credential is a key of the policy or another.  The origins a     *)
(* deployment lists are one pattern, left open until a visitor comes; the  *)
(* characters of an origin are letters, and never the star of a pattern.   *)
(* An access manager is given the one provider of the policy, or none.     *)
(***************************************************************************)
EXTENDS Configuration, Integers, Sequences

CONSTANTS
  Visitors    \* the requests there can be

ASSUME VisitorsAssumption ==
  \A visitor \in Visitors :
    /\ visitor.route \in {"open", "api", "socket"}
    /\ visitor.origin \in Seq(STRING) /\ visitor.pattern \in Seq(STRING)

ASSUME OriginsAssumption ==
  \A visitor \in Visitors : \A i \in DOMAIN visitor.origin : visitor.origin[i] # "*"

VARIABLE
  visit       \* the last visitor and the answer, if any

NoVisit == <<>>

-----------------------------------------------------------------------------
(* Credentials and identity: the first value found, header before query.   *)

Named(place, list) == IF list = "none" THEN <<>> ELSE <<<<place, list>>>>

KeyPlaces(c) ==
  (IF c.bearer = "on" THEN <<<<"authorization", "bearer">>>> ELSE <<>>)
    \o Named("header", c.headers) \o Named("query", c.queries)

IdPlaces(c) ==
  Named("id header", c.idHeaders) \o Named("id query", c.idQueries) \o <<<<"cookie", "default">>>>

First(places, shown) ==
  LET found == {i \in DOMAIN places : places[i] \in DOMAIN shown}
      first == CHOOSE i \in found : \A j \in found : i <= j
  IN IF found = {} THEN "none" ELSE shown[places[first]]

Authenticate(c, visitor) ==
  LET credential == First(KeyPlaces(c), visitor.shows)
  IN IF c.http = "off" THEN "pass"
     ELSE CASE credential = "none" -> "no credentials"
            [] credential = "key" -> "pass"
            [] OTHER -> "invalid credential"

-----------------------------------------------------------------------------
(* Origins.                                                                *)

\* a matcher that does not come back to the last star
MutantMatchOriginPattern(pattern, origin) ==
  LET match[p \in Nat, o \in Nat] ==
        IF o > Len(origin) THEN \A i \in p..Len(pattern) : pattern[i] = "*"
        ELSE IF p <= Len(pattern) /\ pattern[p] = origin[o] THEN match[p + 1, o + 1]
        ELSE IF p <= Len(pattern) /\ pattern[p] = "*" THEN match[p, o + 1]
        ELSE FALSE
  IN match[1, 1]

\* Where the loop of matchOriginPattern is: at p and o in pattern and origin, star is the last
\* star it has passed, 0 for none, and mark how far of the origin that has swallowed.
Places(pattern, origin) ==
  {at \in [p : 1..Len(pattern) + 1, o : 1..Len(origin) + 1,
           star : 0..Len(pattern), mark : 1..Len(origin) + 1] : at.star < at.p /\ at.mark <= at.o}

MatchOriginPattern(pattern, origin) ==
  LET match[at \in Places(pattern, origin)] ==
        IF at.o > Len(origin) THEN \A i \in at.p..Len(pattern) : pattern[i] = "*"
        ELSE IF at.p <= Len(pattern) /\ pattern[at.p] = origin[at.o]
        THEN match[[at EXCEPT !.p = @ + 1, !.o = @ + 1]]
        ELSE IF at.p <= Len(pattern) /\ pattern[at.p] = "*"
        THEN match[[at EXCEPT !.p = @ + 1, !.star = at.p, !.mark = at.o]]
        ELSE at.star # 0 /\ match[[at EXCEPT !.p = at.star + 1, !.o = at.mark + 1, !.mark = @ + 1]]
  IN match[[p |-> 1, o |-> 1, star |-> 0, mark |-> 1]]

OriginAllowed(c, visitor) ==
  \/ c.wsOrigins = "any" \/ c.originMode = "any"
  \/ IF visitor.origin = <<>>
     THEN c.originMode # "own"
     ELSE c.wsOrigins = "own" /\ MatchOriginPattern(visitor.pattern, visitor.origin)

-----------------------------------------------------------------------------
(* Routes.                                                                 *)

\* A preflight request is answered by the CORS middleware, before any other is asked.
ServeHTTP(c, visitor) ==
  IF c.cors = "on" /\ visitor.preflight THEN "preflight"
  ELSE IF visitor.route = "open" \/ Authenticate(c, visitor) = "pass" THEN "served"
  ELSE "unauthorized"

HandleWebsocket(c, visitor) ==
  CASE visitor.preflight -> "method not allowed"
    [] ~visitor.preflight /\ ~OriginAllowed(c, visitor) -> "forbidden"
    [] OTHER -> IF Authenticate(c, visitor) # "pass" THEN "unauthorized"
                ELSE IF First(IdPlaces(c), visitor.names) = "bad" THEN "bad request"
                ELSE "served"

\* A pattern is met where the list is the deployment's own and the visitor names an origin.
Visit(visitor) ==
  /\ stage = "up"
  /\ visitor.pattern # <<>> <=> config.wsOrigins = "own" /\ visitor.origin # <<>>
  /\ visit = NoVisit
  /\ visit' = <<[visitor |-> visitor,
                 answer |-> IF visitor.route = "socket" THEN HandleWebsocket(config, visitor)
                            ELSE ServeHTTP(config, visitor)]>>
  /\ UNCHANGED configurationVars

Answered ==
  /\ visit # NoVisit
  /\ visit' = NoVisit
  /\ UNCHANGED configurationVars

AccessInit == Init /\ visit = NoVisit

AccessNext ==
  \/ Next /\ visit = NoVisit /\ UNCHANGED visit
  \/ \E visitor \in Visitors : Visit(visitor)
  \/ Answered

AccessSpec == AccessInit /\ [][AccessNext]_<<configurationVars, visit>>

-----------------------------------------------------------------------------
(* Properties.                                                             *)

\* What a pattern stands for: the origins that its characters are spread over in order, a star
\* over any number of characters and any other over itself.
Stands(pattern, origin) ==
  \E at \in [1..Len(pattern) + 1 -> 1..Len(origin) + 1] :
    /\ at[1] = 1
    /\ at[Len(pattern) + 1] = Len(origin) + 1
    /\ \A i \in DOMAIN pattern :
         IF pattern[i] = "*" THEN at[i] <= at[i + 1]
         ELSE at[i + 1] = at[i] + 1 /\ pattern[i] = origin[at[i]]

\* The places a policy looks at, and the value that counts of what a visitor shows there.
Shown(places, shown) ==
  {shown[places[i]] : i \in {j \in DOMAIN places :
     places[j] \in DOMAIN shown /\ \A k \in 1..j - 1 : places[k] \notin DOMAIN shown}}

\* Who is served: nobody has to show more than the policy asks, and nobody gets by with less.
Welcome(c, visitor) ==
  LET known == c.http = "off" \/ Shown(KeyPlaces(c), visitor.shows) = {"key"}
      fromHere == \/ c.originMode = "any" \/ c.wsOrigins = "any"
                  \/ visitor.origin = <<>> /\ c.originMode # "own"
                  \/ c.wsOrigins = "own" /\ visitor.origin # <<>>
                       /\ Stands(visitor.pattern, visitor.origin)
  IN CASE visitor.route = "open" -> ~(visitor.preflight /\ c.cors = "on")
       [] visitor.route = "api" -> known /\ ~(visitor.preflight /\ c.cors = "on")
       [] OTHER -> known /\ fromHere /\ ~visitor.preflight
                     /\ Shown(IdPlaces(c), visitor.names) # {"bad"}

\* However a process came by its configuration, it lets in exactly those whom that names: with a
\* key where the policy looks for one and from an origin that the list stands for.
LetsInTheRightOnes ==
  visit # NoVisit =>
    (visit[1].answer = "served" <=> Welcome(config, visit[1].visitor))

=============================================================================
