--------------------------- MODULE AttemptsProofs ---------------------------
(***************************************************************************)
(* The attempt loop, for any number of requests and any finite set of      *)
(* providers.                                                              *)
(***************************************************************************)
EXTENDS Attempts, FiniteSetTheorems, TLAPS

(***************************************************************************)
(* Type correctness.                                                       *)
(***************************************************************************)

\* The number of providers online is a natural number, and not zero when somebody is.
LEMMA OnlineCounts ==
  ASSUME online \subseteq Providers
  PROVE  /\ Cardinality(online) \in Nat
         /\ online # {} => Cardinality(online) > 0
<1>1. IsFiniteSet(online)
  BY AttemptsAssumption, FS_Subset
<1> QED
  BY <1>1, FS_CardinalityType, FS_EmptySet

\* A step of the environment keeps the types.
LEMMA EnvironmentType ==
  ASSUME AttemptsTypeOK, NEW p \in Providers,
         Connect(p) \/ Leave(p) \/ CooldownEnds(p) \/ OthersCool(p)
  PROVE  AttemptsTypeOK'
BY DEF AttemptsTypeOK, Connect, Leave, CooldownEnds, OthersCool, SetCooldown

\* Beginning a call keeps the types.
LEMMA BeginType ==
  ASSUME AttemptsTypeOK, NEW r \in Requests, NEW k \in Kinds, Begin(r, k)
  PROVE  AttemptsTypeOK'
BY OnlineCounts DEF AttemptsTypeOK, Begin, Return, Goto, registry

\* What a call without a provider returns is a result.
LEMMA NoProviderType ==
  ASSUME AttemptsTypeOK, NEW r \in Requests
  PROVE  NoProvider(r) \in Errors \cup {"none", "ok", "unavailable"}
BY DEF AttemptsTypeOK, NoProvider

\* A failed attempt keeps the types.
LEMMA FailType ==
  ASSUME AttemptsTypeOK, NEW r \in Requests, NEW e \in Errors, NEW kept,
         NEW who \in {"provider", "client", "deadline"}, Fail(r, e, who, kept)
  PROVE  AttemptsTypeOK'
<1>1. open' \in [Requests -> SUBSET Providers]
  BY DEF AttemptsTypeOK, Fail
<1>2. pc' \in [Requests -> {"idle", "select", "choose", "send", "try", "reading", "failed",
                            "streaming", "returned"}]
  BY DEF AttemptsTypeOK, Fail, Goto
<1> QED
  BY <1>1, <1>2 DEF AttemptsTypeOK, Fail, registry

\* The steps of the loop keep the types.
LEMMA LoopType ==
  ASSUME AttemptsTypeOK, NEW r \in Requests, Loop(r)
  PROVE  AttemptsTypeOK'
<1>1. CASE List(r)
  <2>1. CASE online = {}
    BY <1>1, <2>1, NoProviderType DEF AttemptsTypeOK, List, Return, Goto, registry
  <2>2. CASE online # {}
    <3>1. ready' = [ready EXCEPT ![r] = online \ cooling] /\ Goto(r, "choose") /\ UNCHANGED <<open, result>>
      BY <1>1, <2>2 DEF List
    <3>2. ready' \in [Requests -> SUBSET Providers]
      BY <3>1 DEF AttemptsTypeOK
    <3> QED
      BY <1>1, <3>1, <3>2 DEF AttemptsTypeOK, List, Goto, registry
  <2> QED
    BY <2>1, <2>2
<1>2. CASE NobodyReady(r)
  BY <1>2, NoProviderType DEF AttemptsTypeOK, NobodyReady, Return, Goto, registry
<1>3. ASSUME NEW p \in Providers, Choose(r, p)
      PROVE  AttemptsTypeOK'
  BY <1>3 DEF AttemptsTypeOK, Choose, Goto, registry
<1>4. CASE AfterFailure(r)
  BY <1>4 DEF AttemptsTypeOK, AfterFailure, SetCooldown, Return, Goto
<1>5. CASE Submit(r)
  <2>1. CASE Sends(r)
    BY <2>1 DEF AttemptsTypeOK, Sends, Goto, registry
  <2>2. CASE NotSent(r)
    BY <2>2, FailType DEF NotSent, Errors
  <2> QED
    BY <1>5, <2>1, <2>2 DEF Submit
<1> QED
  BY <1>1, <1>2, <1>3, <1>4, <1>5 DEF Loop

\* However an attempt ends, the types are kept.
LEMMA EndType ==
  ASSUME AttemptsTypeOK, NEW r \in Requests,
         \/ FirstPacket(r) \/ Succeeds(r) \/ Timeout(r) \/ SeesClosed(r)
         \/ \E e \in Errors : ProviderFails(r, e)
         \/ StreamEnds(r) \/ StreamIdle(r) \/ Cancel(r) \/ Expire(r)
  PROVE  AttemptsTypeOK'
<1>1. CASE FirstPacket(r) \/ Succeeds(r)
  BY <1>1 DEF AttemptsTypeOK, FirstPacket, Succeeds, Return, Goto, registry
<1>2. CASE BootstrapTimesOut(r) \/ SeesClosed(r)
  BY <1>2, FailType DEF BootstrapTimesOut, SeesClosed, Errors
<1>3. ASSUME NEW e \in Errors, ProviderFails(r, e)
      PROVE  AttemptsTypeOK'
  BY <1>3, FailType DEF ProviderFails
<1>6. CASE SeesDone(r)
  <2>1. CASE Return(r, "canceled") /\ UNCHANGED <<registry, kind, ctx, budget, tried, ready, provider, err, log, blame>>
    BY <2>1 DEF AttemptsTypeOK, Return, Goto, registry, Errors
  <2>2. CASE Fail(r, "canceled", "client", {}) \/ Fail(r, "provider", "deadline", {})
    BY <2>2, FailType DEF Errors
  <2> QED
    BY <1>6, <2>1, <2>2 DEF SeesDone
<1>4. CASE StreamEnds(r) \/ StreamIdle(r)
  BY <1>4 DEF AttemptsTypeOK, StreamEnds, StreamIdle, SetCooldown, Return, Goto, registry
<1>5. CASE Cancel(r) \/ Expire(r)
  BY <1>5 DEF AttemptsTypeOK, Cancel, Expire, registry
<1> QED
  BY <1>1, <1>2, <1>3, <1>4, <1>5, <1>6 DEF Timeout

\* The variables keep their types in every reachable state.
THEOREM TypeCorrect == Spec => []AttemptsTypeOK
<1>1. Init => AttemptsTypeOK
  BY DEF Init, AttemptsTypeOK, Kinds
<1>2. AttemptsTypeOK /\ [Next]_vars => AttemptsTypeOK'
  <2> SUFFICES ASSUME AttemptsTypeOK, [Next]_vars PROVE AttemptsTypeOK'
    OBVIOUS
  <2>1. CASE UNCHANGED vars
    BY <2>1 DEF AttemptsTypeOK, vars, registry
  <2> QED
    BY <2>1, EnvironmentType, BeginType, LoopType, EndType DEF Next
<1> QED
  BY <1>1, <1>2, PTL DEF Spec

(***************************************************************************)
(* Every provider at most once.                                            *)
(*                                                                         *)
(* The code keeps a set of tried providers and counts attempts; that both  *)
(* agree with the order in which providers were tried is the invariant.    *)
(***************************************************************************)

\* Each provider once; the set of tried providers and the count of attempts follow the log.
TriedInv ==
  /\ EachProviderOnce
  /\ \A r \in Requests :
       /\ \A i \in DOMAIN log[r] : log[r][i] \in tried[r]
       /\ pc[r] = "idle" => log[r] = <<>>
       /\ pc[r] \in {"select", "choose"} => Len(log[r]) < budget[r]

\* Beginning a call with an empty log gives it a budget of at least one attempt.
LEMMA BeginTried ==
  ASSUME AttemptsTypeOK, TriedInv, NEW r \in Requests, NEW k \in Kinds, Begin(r, k)
  PROVE  TriedInv'
<1>1. UNCHANGED <<log, tried>> /\ log[r] = <<>>
  BY DEF Begin, TriedInv
<1>2. \A q \in Requests : q # r => pc'[q] = pc[q] /\ budget'[q] = budget[q]
  BY DEF AttemptsTypeOK, Begin, Return, Goto
<1>3. /\ Len(log[r]) <= budget'[r]
      /\ pc'[r] # "idle"
      /\ pc'[r] \in {"select", "choose"} => Len(log[r]) < budget'[r]
  <2>1. CASE online = {}
    BY <1>1, <2>1 DEF AttemptsTypeOK, Begin, Return, Goto
  <2>2. CASE online # {}
    BY <1>1, <2>2, OnlineCounts DEF AttemptsTypeOK, Begin, Goto
  <2> QED
    BY <2>1, <2>2
<1> QED
  BY <1>1, <1>2, <1>3 DEF TriedInv, EachProviderOnce

\* Choosing a provider that was not tried appends it to the log.
LEMMA ChooseTried ==
  ASSUME AttemptsTypeOK, TriedInv, NEW r \in Requests, NEW p \in Providers, Choose(r, p)
  PROVE  TriedInv'
<1> DEFINE l == log[r]
<1>1. l \in Seq(Providers) /\ budget[r] \in Nat /\ Len(l) < budget[r]
  BY DEF AttemptsTypeOK, TriedInv, Choose
<1>2. log'[r] = Append(l, p) /\ tried'[r] = tried[r] \cup {p} /\ p \notin tried[r]
  BY DEF AttemptsTypeOK, Choose
<1>3. Len(log'[r]) <= budget'[r]
  BY <1>1, <1>2 DEF Choose
<1>4. \A i \in DOMAIN log'[r] : log'[r][i] \in tried'[r]
  BY <1>1, <1>2 DEF TriedInv
<1>5. \A i, j \in DOMAIN log'[r] : log'[r][i] = log'[r][j] => i = j
  BY <1>1, <1>2 DEF TriedInv, EachProviderOnce
<1>6. pc'[r] = "send"
  BY DEF AttemptsTypeOK, Choose, Goto
<1>7. ASSUME NEW q \in Requests, q # r
      PROVE  log'[q] = log[q] /\ tried'[q] = tried[q] /\ pc'[q] = pc[q]
  BY <1>7 DEF AttemptsTypeOK, Choose, Goto
<1> QED
  BY <1>3, <1>4, <1>5, <1>6, <1>7 DEF TriedInv, EachProviderOnce, Choose

\* No other step touches the log, the set or the budget; a retry leaves room for one more attempt.
LEMMA OtherTried ==
  ASSUME AttemptsTypeOK, TriedInv, NEW r \in Requests,
         UNCHANGED <<log, tried, budget>>,
         \A q \in Requests : q # r => pc'[q] = pc[q],
         pc'[r] # "idle" \/ pc'[r] = pc[r],
         pc'[r] \in {"select", "choose"} => Len(log[r]) < budget[r]
  PROVE  TriedInv'
BY DEF TriedInv, EachProviderOnce

\* The remaining steps of a request meet the conditions of OtherTried.
LEMMA StepTried ==
  ASSUME AttemptsTypeOK, TriedInv, NEW r \in Requests,
         \/ List(r) \/ NobodyReady(r) \/ Submit(r) \/ AfterFailure(r)
         \/ FirstPacket(r) \/ Succeeds(r) \/ Timeout(r) \/ SeesClosed(r)
         \/ \E e \in Errors : ProviderFails(r, e)
         \/ StreamEnds(r) \/ StreamIdle(r) \/ Cancel(r) \/ Expire(r)
  PROVE  TriedInv'
<1>1. UNCHANGED <<log, tried, budget>>
  BY DEF List, NobodyReady, Submit, Sends, NotSent, AfterFailure, FirstPacket, Succeeds, Timeout,
         BootstrapTimesOut, SeesDone, SeesClosed, ProviderFails, Fail, StreamEnds, StreamIdle,
         Cancel, Expire
<1>2. \A q \in Requests : q # r => pc'[q] = pc[q]
  BY DEF AttemptsTypeOK, List, NobodyReady, Submit, Sends, NotSent, AfterFailure, FirstPacket,
         Succeeds, Timeout, BootstrapTimesOut, SeesDone, SeesClosed, ProviderFails, Fail,
         StreamEnds, StreamIdle, Cancel, Expire, Return, Goto
<1>3. pc'[r] # "idle" \/ pc'[r] = pc[r]
  BY DEF AttemptsTypeOK, List, NobodyReady, Submit, Sends, NotSent, AfterFailure, FirstPacket,
         Succeeds, Timeout, BootstrapTimesOut, SeesDone, SeesClosed, ProviderFails, Fail,
         StreamEnds, StreamIdle, Cancel, Expire, Return, Goto
<1>4. pc'[r] \in {"select", "choose"} => Len(log[r]) < budget[r]
  BY DEF AttemptsTypeOK, TriedInv, List, NobodyReady, Submit, Sends, NotSent, AfterFailure,
         CanRetry, FirstPacket, Succeeds, Waiting, Timeout, BootstrapTimesOut, SeesDone, SeesClosed,
         ProviderFails, Fail, StreamEnds, StreamIdle, Cancel, Expire, Return, Goto
<1> QED
  BY <1>1, <1>2, <1>3, <1>4, OtherTried

\* The invariant is inductive.
LEMMA TriedInductive ==
  ASSUME AttemptsTypeOK, TriedInv, [Next]_vars
  PROVE  TriedInv'
<1>1. ASSUME NEW p \in Providers, Connect(p) \/ Leave(p) \/ CooldownEnds(p) \/ OthersCool(p)
      PROVE  TriedInv'
  BY <1>1 DEF TriedInv, EachProviderOnce, Connect, Leave, CooldownEnds, OthersCool
<1>2. CASE UNCHANGED vars
  BY <1>2 DEF TriedInv, EachProviderOnce, vars
<1> QED
  BY <1>1, <1>2, BeginTried, ChooseTried, StepTried DEF Next, Loop

\* Whatever joins, leaves or is cooled meanwhile, a request tries no provider twice
\* and never exceeds the number of attempts it set out with.
THEOREM OncePerProvider == Spec => []EachProviderOnce
<1>1. Init => TriedInv
  BY DEF Init, TriedInv, EachProviderOnce
<1>2. AttemptsTypeOK /\ TriedInv /\ [Next]_vars => TriedInv'
  BY TriedInductive
<1>3. TriedInv => EachProviderOnce
  BY DEF TriedInv
<1> QED
  BY <1>1, <1>2, <1>3, TypeCorrect, PTL DEF Spec

(***************************************************************************)
(* What attempts hold is given back, and an error is not forgotten.        *)
(*                                                                         *)
(* Both are invariants of one request at a time: a step of one leaves the  *)
(* others as they are.                                                     *)
(***************************************************************************)

\* All steps of a request but its beginning and its choices.
Goes(r) ==
  \/ List(r) \/ NobodyReady(r) \/ Submit(r) \/ AfterFailure(r)
  \/ FirstPacket(r) \/ Succeeds(r) \/ Timeout(r) \/ SeesClosed(r)
  \/ \E e \in Errors : ProviderFails(r, e)
  \/ StreamEnds(r) \/ StreamIdle(r) \/ Cancel(r) \/ Expire(r)

\* The steps of a request.
LEMMA StepsOfRequests ==
  ASSUME [Next]_vars
  PROVE  \/ UNCHANGED <<kind, pc, provider, err, open, result, log>>
         \/ \E r \in Requests :
              \/ \E k \in Kinds : Begin(r, k)
              \/ \E p \in Providers : Choose(r, p)
              \/ Goes(r)
<1>1. ASSUME NEW p \in Providers, Connect(p) \/ Leave(p) \/ CooldownEnds(p) \/ OthersCool(p)
      PROVE  UNCHANGED <<kind, pc, provider, err, open, result, log>>
  BY <1>1 DEF Connect, Leave, CooldownEnds, OthersCool
<1>2. CASE UNCHANGED vars
  BY <1>2 DEF vars
<1> QED
  BY <1>1, <1>2 DEF Next, Loop, Goes

\* A step of one request leaves the others alone.
LEMMA OthersKeep ==
  ASSUME AttemptsTypeOK, NEW r \in Requests, NEW q \in Requests, q # r,
         \/ \E k \in Kinds : Begin(r, k)
         \/ \E p \in Providers : Choose(r, p)
         \/ Goes(r)
  PROVE  /\ kind'[q] = kind[q] /\ pc'[q] = pc[q] /\ provider'[q] = provider[q]
         /\ err'[q] = err[q] /\ open'[q] = open[q] /\ result'[q] = result[q]
         /\ log'[q] = log[q]
<1>1. ASSUME NEW k \in Kinds, Begin(r, k)
      PROVE  /\ kind'[q] = kind[q] /\ pc'[q] = pc[q] /\ provider'[q] = provider[q]
             /\ err'[q] = err[q] /\ open'[q] = open[q] /\ result'[q] = result[q]
             /\ log'[q] = log[q]
  BY <1>1 DEF AttemptsTypeOK, Begin, Return, Goto
<1>2. ASSUME NEW p \in Providers, Choose(r, p)
      PROVE  /\ kind'[q] = kind[q] /\ pc'[q] = pc[q] /\ provider'[q] = provider[q]
             /\ err'[q] = err[q] /\ open'[q] = open[q] /\ result'[q] = result[q]
             /\ log'[q] = log[q]
  BY <1>2 DEF AttemptsTypeOK, Choose, Goto
<1>3. CASE Goes(r)
  <2>1. UNCHANGED <<kind, provider, log>>
    BY <1>3 DEF Goes, List, NobodyReady, Submit, Sends, NotSent, AfterFailure, FirstPacket,
           Succeeds, Timeout, BootstrapTimesOut, SeesDone, SeesClosed, ProviderFails, Fail,
           StreamEnds, StreamIdle, Cancel, Expire
  <2>2. pc'[q] = pc[q] /\ result'[q] = result[q]
    BY <1>3 DEF AttemptsTypeOK, Goes, List, NobodyReady, Submit, Sends, NotSent, AfterFailure,
           FirstPacket, Succeeds, Timeout, BootstrapTimesOut, SeesDone, SeesClosed, ProviderFails,
           Fail, StreamEnds, StreamIdle, Cancel, Expire, Return, Goto
  <2>3. err'[q] = err[q] /\ open'[q] = open[q]
    BY <1>3 DEF AttemptsTypeOK, Goes, List, NobodyReady, Submit, Sends, NotSent, AfterFailure,
           FirstPacket, Succeeds, Timeout, BootstrapTimesOut, SeesDone, SeesClosed, ProviderFails,
           Fail, StreamEnds, StreamIdle, Cancel, Expire, Return, Goto
  <2> QED
    BY <2>1, <2>2, <2>3
<1> QED
  BY <1>1, <1>2, <1>3

\* What one request holds.
ReleasedBy(r) ==
  /\ pc[r] \in {"idle", "returned"} => open[r] = {}
  /\ kind[r] = "stream" => open[r] \subseteq {provider[r]}
  /\ kind[r] = "stream" /\ pc[r] \in {"select", "choose", "failed"} => open[r] = {}

\* A failed attempt of a stream gives back what it held.
LEMMA FailReleases ==
  ASSUME AttemptsTypeOK, NEW r \in Requests, ReleasedBy(r), NEW e, NEW who, NEW kept,
         Fail(r, e, who, kept), kind[r] = "stream" => kept = {}
  PROVE  ReleasedBy(r)'
<1>1. /\ pc'[r] = "failed"
      /\ open'[r] = open[r] \ ({provider[r]} \ kept)
      /\ UNCHANGED <<kind, provider>>
  BY DEF AttemptsTypeOK, Fail, Goto
<1> QED
  BY <1>1 DEF ReleasedBy

\* A call that returns holds nothing.
LEMMA ReturnReleases ==
  ASSUME AttemptsTypeOK, NEW r \in Requests, NEW what, Return(r, what)
  PROVE  pc'[r] = "returned" /\ open'[r] = {} /\ result'[r] = what
BY DEF AttemptsTypeOK, Return, Goto

\* A request's own steps keep what it holds in bounds.
LEMMA StepReleases ==
  ASSUME AttemptsTypeOK, NEW r \in Requests, ReleasedBy(r),
         \/ \E k \in Kinds : Begin(r, k)
         \/ \E p \in Providers : Choose(r, p)
         \/ Goes(r)
  PROVE  ReleasedBy(r)'
<1>1. CASE \E what : Return(r, what)
  BY <1>1, ReturnReleases DEF ReleasedBy
<1>2. CASE pc'[r] = pc[r] /\ UNCHANGED <<kind, provider, open>>
  BY <1>2 DEF ReleasedBy
<1>3. ASSUME NEW k \in Kinds, Begin(r, k)
      PROVE  ReleasedBy(r)'
  <2>1. CASE Goto(r, "select") /\ UNCHANGED <<open, result>>
    BY <1>3, <2>1 DEF AttemptsTypeOK, Begin, Goto, ReleasedBy
  <2> QED
    BY <1>1, <1>3, <2>1 DEF Begin
<1>4. ASSUME NEW p \in Providers, Choose(r, p)
      PROVE  ReleasedBy(r)'
  <2>1. pc'[r] = "send" /\ provider'[r] = p /\ open'[r] = open[r] \cup {p} /\ kind' = kind
    BY <1>4 DEF AttemptsTypeOK, Choose, Goto
  <2>2. kind[r] = "stream" => open[r] = {}
    BY <1>4 DEF Choose, ReleasedBy
  <2> QED
    BY <2>1, <2>2 DEF ReleasedBy
<1>5. CASE List(r) \/ AfterFailure(r)
  <2>1. CASE UNCHANGED open /\ (Goto(r, "select") \/ Goto(r, "choose"))
    <3>1. pc[r] \in {"select", "failed"} /\ pc'[r] \in {"select", "choose"}
          /\ UNCHANGED <<kind, provider>>
      BY <1>5, <2>1 DEF AttemptsTypeOK, List, AfterFailure, Goto
    <3> QED
      BY <2>1, <3>1 DEF ReleasedBy
  <2> QED
    BY <1>1, <1>5, <2>1 DEF List, AfterFailure
<1>6. CASE Succeeds(r)
  <2>1. CASE Goto(r, "streaming") /\ UNCHANGED open
    BY <1>6, <2>1 DEF AttemptsTypeOK, Succeeds, Goto, ReleasedBy
  <2> QED
    BY <1>1, <1>6, <2>1 DEF Succeeds
<1>7. CASE NotSent(r) \/ Timeout(r) \/ SeesClosed(r) \/ \E e \in Errors : ProviderFails(r, e)
  BY <1>1, <1>7, FailReleases
     DEF NotSent, Timeout, BootstrapTimesOut, SeesDone, SeesClosed, ProviderFails
<1>8. CASE NobodyReady(r) \/ StreamEnds(r) \/ StreamIdle(r)
  BY <1>1, <1>8 DEF NobodyReady, StreamEnds, StreamIdle
<1>9. CASE Cancel(r) \/ Expire(r)
  BY <1>2, <1>9 DEF Cancel, Expire
<1>10. CASE Sends(r) \/ FirstPacket(r)
  <2>1. pc'[r] \in {"try", "reading"} /\ UNCHANGED <<kind, provider, open>>
    BY <1>10 DEF AttemptsTypeOK, Sends, FirstPacket, Goto
  <2> QED
    BY <2>1 DEF ReleasedBy
<1> QED
  BY <1>3, <1>4, <1>5, <1>6, <1>7, <1>8, <1>9, <1>10 DEF Goes, Submit

\* However an attempt ends, what it holds is given back: by a stream before the next
\* attempt begins, by the other calls at the latest when they return.
THEOREM AttemptsAreReleased == Spec => []AttemptsReleased
<1>1. Init => AttemptsReleased
  BY DEF Init, AttemptsReleased
<1>2. AttemptsTypeOK /\ AttemptsReleased /\ [Next]_vars => AttemptsReleased'
  <2> SUFFICES ASSUME AttemptsTypeOK, AttemptsReleased, [Next]_vars
               PROVE  AttemptsReleased'
    OBVIOUS
  <2>1. \A q \in Requests : ReleasedBy(q)
    BY DEF AttemptsReleased, ReleasedBy
  <2>2. CASE UNCHANGED <<kind, pc, provider, err, open, result, log>>
    BY <2>2 DEF AttemptsReleased
  <2>3. ASSUME NEW r \in Requests,
               \/ \E k \in Kinds : Begin(r, k)
               \/ \E p \in Providers : Choose(r, p)
               \/ Goes(r)
        PROVE  AttemptsReleased'
    <3>1. ReleasedBy(r)'
      BY <2>1, <2>3, StepReleases
    <3>2. ASSUME NEW q \in Requests, q # r
          PROVE  ReleasedBy(q)'
      BY <2>1, <2>3, <3>2, OthersKeep DEF ReleasedBy
    <3> QED
      BY <3>1, <3>2 DEF AttemptsReleased, ReleasedBy
  <2> QED
    BY <2>2, <2>3, StepsOfRequests
<1> QED
  BY <1>1, <1>2, TypeCorrect, PTL DEF Spec

\* Once an attempt was made its error is remembered until the call returns, and only a
\* call that made none says that nobody is available.
RemembersError(r) ==
  /\ pc[r] = "idle" => log[r] = <<>>
  /\ pc[r] = "failed" => err[r] # "none"
  /\ pc[r] \in {"select", "choose"} /\ log[r] # <<>> => err[r] # "none"
  /\ result[r] = "unavailable" => pc[r] = "returned" /\ log[r] = <<>>

\* The request has a provider and no answer yet.
Tried(r) == pc[r] \in {"send", "try", "reading"}

\* A failed attempt leaves its error.
LEMMA FailRemembers ==
  ASSUME AttemptsTypeOK, NEW r \in Requests, RemembersError(r), Tried(r),
         NEW e \in Errors, NEW who, NEW kept, Fail(r, e, who, kept)
  PROVE  RemembersError(r)'
<1>1. pc'[r] = "failed" /\ err'[r] = e /\ UNCHANGED <<log, result>>
  BY DEF AttemptsTypeOK, Fail, Goto
<1> QED
  BY <1>1 DEF RemembersError, Errors, Tried

\* A call that returns an answer or an error.
LEMMA ReturnRemembers ==
  ASSUME AttemptsTypeOK, NEW r \in Requests, NEW what, Return(r, what),
         what = "unavailable" => log'[r] = <<>>
  PROVE  RemembersError(r)'
BY DEF AttemptsTypeOK, Return, Goto, RemembersError

\* A request's own steps keep its error.
LEMMA StepRemembers ==
  ASSUME AttemptsTypeOK, NEW r \in Requests, RemembersError(r),
         \/ \E k \in Kinds : Begin(r, k)
         \/ \E p \in Providers : Choose(r, p)
         \/ Goes(r)
  PROVE  RemembersError(r)'
<1>1. ASSUME NEW k \in Kinds, Begin(r, k)
      PROVE  RemembersError(r)'
  <2>1. log'[r] = <<>>
    BY <1>1 DEF Begin, RemembersError
  <2>2. CASE Goto(r, "select") /\ UNCHANGED <<open, result>>
    BY <1>1, <2>1, <2>2 DEF AttemptsTypeOK, Begin, Goto, RemembersError
  <2> QED
    BY <1>1, <2>1, <2>2, ReturnRemembers DEF Begin
<1>2. ASSUME NEW p \in Providers, Choose(r, p)
      PROVE  RemembersError(r)'
  BY <1>2 DEF AttemptsTypeOK, Choose, Goto, RemembersError
<1>3. NoProvider(r) = "unavailable" /\ pc[r] \in {"select", "choose"} => log[r] = <<>>
  BY DEF NoProvider, RemembersError, AttemptsTypeOK, Errors
<1>4. CASE List(r)
  <2>1. pc[r] = "select" /\ UNCHANGED <<log, err>>
    BY <1>4 DEF List
  <2>2. CASE Goto(r, "choose") /\ UNCHANGED <<open, result>>
    BY <2>1, <2>2 DEF AttemptsTypeOK, Goto, RemembersError
  <2> QED
    BY <1>3, <1>4, <2>1, <2>2, ReturnRemembers DEF List
<1>5. CASE NobodyReady(r)
  BY <1>3, <1>5, ReturnRemembers DEF NobodyReady
<1>6. CASE AfterFailure(r)
  <2>1. pc[r] = "failed" /\ UNCHANGED <<log, err>> /\ err[r] # "none" /\ err[r] # "unavailable"
    BY <1>6 DEF AfterFailure, RemembersError, AttemptsTypeOK, Errors
  <2>2. CASE Goto(r, "select") /\ UNCHANGED <<open, result>>
    BY <2>1, <2>2 DEF AttemptsTypeOK, Goto, RemembersError
  <2> QED
    BY <1>6, <2>1, <2>2, ReturnRemembers DEF AfterFailure
<1>7. CASE Succeeds(r)
  <2>1. CASE Goto(r, "streaming") /\ result' = [result EXCEPT ![r] = "ok"]
    BY <1>7, <2>1 DEF AttemptsTypeOK, Succeeds, Goto, RemembersError
  <2> QED
    BY <1>7, <2>1, ReturnRemembers DEF Succeeds
<1>8. CASE NotSent(r) \/ Timeout(r) \/ SeesClosed(r) \/ \E e \in Errors : ProviderFails(r, e)
  <2>1. CASE \E e \in Errors : \E who, kept : Fail(r, e, who, kept)
    <3>1. Tried(r)
      BY <1>8
         DEF Tried, Waiting, NotSent, Timeout, BootstrapTimesOut, SeesDone, SeesClosed, ProviderFails
    <3> QED
      BY <2>1, <3>1, FailRemembers
  <2>2. CASE Return(r, "canceled")
    BY <2>2, ReturnRemembers
  <2> QED
    BY <1>8, <2>1, <2>2
       DEF NotSent, Timeout, BootstrapTimesOut, SeesDone, SeesClosed, ProviderFails, Errors
<1>9. CASE StreamEnds(r) \/ StreamIdle(r)
  BY <1>9, ReturnRemembers DEF StreamEnds, StreamIdle
<1>10. CASE Cancel(r) \/ Expire(r)
  BY <1>10 DEF Cancel, Expire, RemembersError
<1>11. CASE Sends(r) \/ FirstPacket(r)
  BY <1>11 DEF AttemptsTypeOK, Sends, FirstPacket, Goto, RemembersError
<1> QED
  BY <1>1, <1>2, <1>4, <1>5, <1>6, <1>7, <1>8, <1>9, <1>10, <1>11 DEF Goes, Submit

\* Whoever hears that no provider is available was not let down by one.
THEOREM ErrorsAreNotForgotten == Spec => []ErrorOfAnAttemptWins
<1> DEFINE Remembers == \A r \in Requests : RemembersError(r)
<1>1. Init => Remembers
  BY DEF Init, RemembersError
<1>2. AttemptsTypeOK /\ Remembers /\ [Next]_vars => Remembers'
  <2> SUFFICES ASSUME AttemptsTypeOK, Remembers, [Next]_vars
               PROVE  Remembers'
    OBVIOUS
  <2>1. CASE UNCHANGED <<kind, pc, provider, err, open, result, log>>
    BY <2>1 DEF RemembersError
  <2>2. ASSUME NEW r \in Requests,
               \/ \E k \in Kinds : Begin(r, k)
               \/ \E p \in Providers : Choose(r, p)
               \/ Goes(r)
        PROVE  Remembers'
    <3>1. RemembersError(r)'
      BY <2>2, StepRemembers
    <3>2. ASSUME NEW q \in Requests, q # r
          PROVE  RemembersError(q)'
      BY <2>2, <3>2, OthersKeep DEF RemembersError
    <3> QED
      BY <3>1, <3>2
  <2> QED
    BY <2>1, <2>2, StepsOfRequests
<1>3. Remembers => ErrorOfAnAttemptWins
  BY DEF RemembersError, ErrorOfAnAttemptWins
<1> QED
  BY <1>1, <1>2, <1>3, TypeCorrect, PTL DEF Spec

=============================================================================
