# A verification project for aistudio-gemini-gateway

The gateway takes Gemini API requests over HTTP and has them answered by
*providers*: browsers that hold a websocket to the gateway and execute the
requests they are sent. This directory holds TLA+ modules that model the
gateway's concurrent core, the service from start to shutdown, its configuration
and the preparation of requests; TLC configurations that check them on small
instances; and theorems about them proved with TLAPS. The models are translated
from the Go source under `src/`; `PROJECT.json` ("map") names the lines each
definition stands for.

Run `tlc -config MCx.cfg MCx` to check a model and `tlapm xProofs.tla` to check
the proofs.

## 1. Inventory

How a request travels: the HTTP API decodes it and calls the **pipeline**; the
pipeline asks the **registry** for the providers, the **selector** for one of
them, and the **executor** to call it; the executor calls the **relay manager**,
which finds the provider's **session** and sends the request over its websocket.
Replies come back through the session's read loop into the reply channel of the
request. Providers connect by a websocket handshake handled by the relay manager,
which tells the registry by callbacks; the registry tells its subscribers (the
affinity selector, SDK users) by events.

| Component | State | Operations | Hard behaviour | What makes it correct |
|---|---|---|---|---|
| Registry `internal/provider/registry/registry.go` | entries per provider, cooldown timers, subscribers, diagnostics | Register, Disconnect, SetState, SetCooldown, ClearCooldown, timer callbacks, publish, Subscribe/cancel, Touch | late timer callbacks, events published after the lock is released, channels closed by cancel | timers and cooling entries belong together; every cooldown ends, and only when it is over; no send on a closed channel |
| Relay session `internal/wsrelay/session.go` | pending map, reply channels, `closed`, connection | request, send, dispatch, watcher, heartbeat, cleanup | four goroutines contest a slot and close its channel outside the lock; bounded channels drop messages | one terminal message per reply; nobody waits for ever; slots are given back |
| Relay calls `internal/wsrelay/http.go` | per call | NonStreamWithBootstrap, Stream | first-packet timer, cancellation against answers | messages in order, then one outcome |
| Relay manager `internal/wsrelay/manager.go` | session map | handleWebsocket, handleSessionClosed, Stop, Send | replacement while the old session closes; map and registry under two locks | no session lost; a cleanup spares the newer session; the registry agrees with the map |
| Pipeline `internal/pipeline/pipeline.go` | per request: tried, last error, attempt context | Execute, Stream, CountTokens, retry, classification, cooldown | providers come and go under the loop; cancellation against failure; timeouts | each provider once; attempts released; the caller always hears something, and the right thing |
| Stream relay and SSE adapter `internal/pipeline/pipeline.go` (buildStreamResult), `stream_adapter.go` | decoder buffer, idle timer | Adapt, Flush, forward, idle timeout | chunks cut anywhere; a slow client; idle timer against events against cancellation | the client gets the events once and in order, and what is missing does not pass for an end; the stream ends |
| Selector `internal/provider/selector` | cursors, fallback | Select (three strategies), HandleProviderEvent | selection from a stale list, events that race with a binding | a ready provider of the best priority; a bound session stays with its provider |
| Affinity cache `internal/provider/session/cache.go` | bindings with expiry | GetAndRefresh, Set, Invalidate, InvalidateProvider, cleanup | check-then-act in Get | no expired binding is used |
| Service `gateway/service.go`, `httpapi/server/server.go` | started, shutdown, the listener | Start, Shutdown, requests, status | calls of Start and Shutdown that cross, with handshakes and requests in flight | providers stay until the requests are done; a Start returns, and not before that; what Stop leaves open came too late |
| Configuration `internal/config`, `cmd/server/main.go` | the file, which outlives the process | load, environment, defaults, validation, rendering, command line | the same rules at several places, run two or three times over their own results; a crash while the file is rendered | restarts agree; the environment wins; what is accepted goes up |
| Access control, origin check, identity `internal/access`, `wsrelay/origin.go`, `registry/identity.go`, the HTTP API's routes | read-only after the start | middleware, authentication, matching of origins, naming of a provider | several sources in an order; a matcher that goes back | exactly those are let in whom the configuration names |
| Models' configuration and model registry `internal/config`, `internal/models` | built once, then read | Prepare, New, Resolve | the same rules in two places | what the validation passes makes a registry |
| Preparation of a request `internal/pipeline` (prepare...), `normalize`, `thinking`, `compat`, session extraction | none | NormalizeRequest, thinking.Apply, imagepreview.Apply, Extract | budgets and levels converted, clamped and checked in turn; a conversation sent again and again | what is sent is what the model declares; more asked is more given; a conversation keeps its past |
| AI Studio executor `internal/provider/aistudio` | none | URLs, headers, the call of the relay | - | its outcomes are those of an attempt |

`PROJECT.json` lists every component with its files and status, and under
"hazards" the places where the code is hard to test, with the properties that
cover each.

## 2. The modules

| Module | Models |
|---|---|
| `Registry` | the registry: `registry.go` |
| `RelaySession` | one session and the calls on it: `session.go`, the reading loops of `http.go` |
| `ReplyStream` | abstract: what a call is promised; implemented by `RelaySession` |
| `Connections` | the session map, handshakes, losses, Stop, and the registry's view: `manager.go` |
| `Attempts` | the attempt loops of the pipeline: `pipeline.go` |
| `Affinity` | selection with session affinity, its cache and the events that reach it: `selector/`, `session/cache.go` |
| `SSEDecoder` | the decoder of server-sent events, as functions: `stream_adapter.go` |
| `StreamRelay` | a stream after its first event, from the session to the HTTP handler: `session.go` (dispatch), `http.go` (Stream), `pipeline.go` (buildStreamResult), `gateway/service.go`, `handler.go`; uses `SSEDecoder` |
| `Thinking` | thinking as asked, converted, clamped and written, as functions: `thinking.go` |
| `Models` | the models' configuration and their registry, as functions: `validate.go`, `models/registry.go`, `embedded.go` |
| `Contents` | the body brought into form, as functions: `normalize.go`, `imagepreview.go` |
| `Requests` | the start with a configuration and the preparation of a client's requests: `pipeline.go` (prepare...), `extractor.go`; uses the three above |
| `Lifecycle` | Start, Shutdown, listeners and requests around the relay: `gateway/service.go`, `httpapi/server/server.go`; extends `Connections` |
| `Configuration` | how a process gets its configuration and goes up: `internal/config`, `cmd/server/main.go`, the checks of NewService |
| `Access` | who is let in by a process that is up: routes and middleware, `internal/access`, `origin.go`, `identity.go`; extends `Configuration` |
| `MCRegistry`, `MCRelaySession`, `MCConnections`, `MCAttempts`, `MCAffinity`, `MCStreamRelay`, `MCRequests`, `MCLifecycle`, `MCConfiguration` | the same, instantiated for TLC (`MCConfiguration`: `Configuration` and `Access`) |
| `RegistryProofs`, `RelaySessionProofs`, `LifecycleProofs`, `AttemptsProofs`, `AffinityProofs`, `StreamRelayProofs`, `RequestsProofs`, `ConfigurationProofs` | theorems and proofs (`LifecycleProofs`: `Connections` and `Lifecycle`; `ConfigurationProofs`: `Configuration` and `Access`) |

Operators named `Mutant...` are plausible mistakes in the definition that follows
them. No specification uses them; each is there to show that a property notices
the mistake when it replaces the definition (`PROJECT.json`, "mutants").

### Registry

Every operation changes `r.providers` and `r.cooldownTimers` in one critical
section of `r.mu`, so it is one action; `publish` runs afterwards under the read
lock and is an action per send (`BeginPublish`, `SendTo`, `EndPublish`). A writer
is kept out while somebody sends (`WriteLock`). A timer has three lives: armed in
the runtime (`armed`), kept in the map (`cooldownTimers`), and, when it has fired,
a goroutine that waits for the lock (`callbacks`), which `Stop` no longer reaches.
`time.Now` is read before the lock, so an operation may work with an old reading
(`Reading`). `Register` may bring any state, as a custom relay may
(`gateway/service.go:186-195`); the gateway's own handshake always brings
"active". `SetState` and `ClearCooldown` have no caller in the repository and are
modelled as the API they are.

### RelaySession and ReplyStream

A request is its message id. `pending` is the map; `buf`, `chClosed` are its
reply channel. The critical sections of `pendingMu` are single actions, and what
follows outside the lock (offer, close) are actions of their own, so the read
loop may hold a message for a slot that the watcher, cleanup or a failed send
has taken out and is closing. `request` is split where other goroutines can
come in: registration, the check in `send`, the write, the start of the watcher
(`caller` = registered, sending, written, reading). A provider may answer as soon
as the write has begun, in any way, and go on after a terminal message.
`cancelled` is the context given to `Send`. Stream's relay goroutine and
NonStreamWithBootstrap's loop are one reader: both take messages until a terminal
one, the end of the channel, or the end of the context.

`ReplyStream` says what a call gets: numbers of messages in increasing order,
possibly with gaps, then one outcome, then nothing. The refinement takes
`outcome` as it is and drops cleanup's own error, which can only be the last
message a caller takes. Gaps are real: a full channel drops messages silently
(`session.go:33-36`). The run `session` checks the refinement, the theorem
`KeepsThePromise` proves it.

### Connections

A session is a handshake. Its handler goes upgraded, mapped, (closing the
session it replaced), announced, running; the heartbeat may fail from the
upgrade on. `clean` is the session's `closeOnce`: begun, unmapped and to be
reported, done; whoever else calls cleanup waits for "done". `current` is the
registry's entry; `Registry` shows that Register and Disconnect are atomic. The
variable `late` records that a session was no longer mapped when it was announced.

### Attempts

One loop for Execute, CountTokens ("nonstream") and Stream ("stream"), which
differ in when the context of an attempt is released and in what they do when
the context ends. The registry is reduced to who is online and who is cooling,
and both change at any moment, by other requests too (`OthersCool`). The selector
may return any ready provider not tried. Errors are classes: the provider's
(retryable, cools), the request's (retryable, does not cool), canceled.

An attempt has three places. `send` is the call of `Manager.Send`: it fails without a
session, with a closed one, or with a failed write, and it looks at the context before
it writes anything (`session.go:192-204`), so an attempt made for a client that has
already gone ends there and cools nobody. `try` waits for the first packet, under the
first-packet timer. `reading` is a whole answer that has begun (`FirstPacket`): the timer
has been stopped (`http.go:121-125`), and only the deadline of the call is left. The end
of the context reaches the relay as well; what the loop makes of the relay's reaction
when it sees that first is `SeesClosed`, possible only for a request that was sent.

### Affinity

A selection takes its list of ready providers (`Begin`), looks at the cache
(`GetAndRefresh`), drops a binding it cannot use (`Invalidate`), takes a turn of
the round robin (`Fallback`) and binds (`Bind`): each step has a lock of its own,
so other selections, events and the cache's cleanup come in between. The registry
is reduced to who is online, in which order, and who is cooling; its events are
published after the change, are read late, and are lost when the channel is full.
`AtStart` are the providers of a custom relay, registered before the pipeline
subscribes. A session stands for its model and session id together. `age` is the
time since a binding was last used, the difference between `time.Now` and the
stored expiry; it stops at the first step at which the binding has expired.

`home` and `idle` are history variables: they say when a session has a right to
its provider. It gets one when a selection for it ends while no other is under way
(two first selections of a session may well choose differently, and the later
binding wins) and loses it with an event, with time, or with a list in which the
provider is not among the best. `StaysAtHome` says that nothing else moves it.
(The best are those of the highest priority: when a provider of a higher priority
connects, every session moves to it, though its own provider is ready.)

### SSEDecoder and StreamRelay

Text is a sequence of tokens: the two halves of the field name `data:`, line ends,
a JSON object, one that ends the answer, `[DONE]`, other text. `Adapt`, `Feed`,
`Flush` and `ParseFrame` are the functions of the code on it. The code normalises the
line ends of the whole buffer and then looks for empty lines in it; what was in the
buffer has been through both, so `Feed` takes the new characters one by one
(`FeedOne`): CR LF within the chunk is one line end (`LineEndGoesOn`), and a line end
after a line end completes a frame.

A chunk passes six hands. The provider cuts its text (`SendChunk`) and nobody holds
it back: the session's read loop (`Dispatch`) puts the chunk into the reply channel
of the request, or drops it without a word when the channel is full
(`session.go:33-36`). The relay's goroutine takes it from there (`Fetch`) and offers
it on a channel without a buffer until the loop takes it (`Take`) or the context of
the attempt is done; the loop decodes it, and sends the payloads one by one (`todo`,
`Send`) into a bounded channel; the converter carries one at a time into a second
channel; the handler writes it. The idle timer is armed when the loop begins to wait;
it may fire while the loop is busy, and is then drained. Where the code ignores the
result of a send (what it flushes at the end, the error), the loop goes on although
the context is done (`SendFails`). The handler's return ends the request's context,
as `net/http` does. The goroutine that gives up the slot at the end of the context is
one step here (`GiveUpSlot`); its races are those of `RelaySession`.

A slow client fills the channels one after the other, back to the reply channel, where
chunks are then lost. That the code goes on after such a loss is modelled as it is: the
later chunks and a `stream_end` may still come through, so that **an answer that seems
complete may have a hole**. Nothing in the code notices it, and no comment speaks of
it. `holed` is a history variable that says when a chunk was dropped, and `InOrder` and
`CleanEndIsWhole` speak of the streams of which none was. A last message that is dropped
is no hole: the reply is closed all the same, and the relay makes an error of that.
`SlowClientBlamesNobody`, `Released` and `ReaderGetsAnEnd` hold with holes too.

What the provider means is written down independently of the decoder: a stream is a
sequence of events, encoded (`TextOf`) as a provider would and read (`Events`, and
`Meant` up to the one that ends the answer) as the standard says. A provider is
assumed to send what can be understood (`StreamsAssumption`): chunks of JSON that are
values, or a text in which the decoder finds those events when it gets it in one
piece, and in which no event begins with a line end. What becomes of the text in many
pieces, on its way through the goroutines, is what the properties are about. `cuts`
are the places where a stream's text may be cut. `proper` is a history variable:
every cut so far was one the decoder copes with; the run `stream_cuts` shows what
happens otherwise. `stalled` records what the loop was doing when the timer fired.

### Requests, with Thinking, Models and Contents

The preparation of a request has no state of its own: it reads the configuration and
the registry of the start. What can go wrong in it needs several of its functions, or
two requests, to show. `Requests` therefore starts a gateway with one of several
configurations (`Load`: refused by the validation, failed by `models.New`, or
serving) and follows a client that sends a request (`Ask`), then the same
conversation with a content more (`Continue`) or with other wishes for the thinking
(`Rephrase`). Every step prepares the request as the pipeline does, `prepared` is what
a provider would be sent, and the action properties compare it with what was sent
before.

`ValidateConfig` is cut where the code has its stages: to the kind the model takes
(`ToCapability`), the model's levels (`ToLevels`), the strict check (`OutOfRange`),
auto and the range (`ToRange`). A field that may be absent is a sequence of at most one
value. Bodies keep the fields the code looks at, parts of contents their kind, name and
signature.

Two properties have premises on what a model declares, which the validation does not
require and every built-in model meets. `SentIsSupported` asks for a declaration that
makes sense (`Sensible`): budgets with an upper end, or levels, and the level medium
where auto must be translated into one. (A minimum without a maximum passes the
validation, `validate.go:647`, and is then clamped to nothing.) `MoreAskedMoreGiven`
also asks for the lowest level to be listed first, because that is the one sent for
"none" (`thinking.go:459`). Of `HistoryIsStable` the image preview is excepted: the white picture
is put into the first content only as long as no content has a picture
(`imagepreview.go:57`).

### Lifecycle

`Lifecycle` extends `Connections` and takes its steps over unchanged (`Upgraded`,
`RelayStep`, `Lose`, `Closing`); `StopRelay` is the call of its Stop. Two or more
goroutines may call Start; each that is let in runs a listener in a goroutine
(`listener`: launched, listening, failed, closed) and waits for it or for its
context. `Claim` is the compare-and-set at the top of Shutdown: the first caller
goes through `phase` (http, draining, relay, stopping, done), any other returns at
once (`ShutdownReturns`). A host program may call Shutdown too (`Host`). Of
`net/http` the model assumes what the code uses: Shutdown closes the listeners for
good, later calls of ListenAndServe return ErrServerClosed, and it waits for the
requests in progress but not for a connection that became a websocket. A request
is of a client (`Arrive`, counted in `active`) or of the host program, which nobody
waits for; it waits `on` a session and ends with it. `seen` is a history variable:
the sessions that others could find when Stop looked.

That a Start may fail to bind its address and another be let in afterwards is
modelled as it is: only the branch of the failed listener resets `started`
(`service.go:291`). So is that a Start whose context has ended, while somebody else
shuts the service down, may return before that is over: `ExitIsGraceful` speaks of
the caller that shuts down itself.

### Configuration

A configuration is a function of the fields. Fields that the code treats alike are
one (`timeout` stands for every text with a default, the policy of HTTP for that of
the websocket), and so are values: unset ("empty"), legal, illegal, a list that is empty,
blank, the default or the user's own. A document and an environment set some of the
fields. `LoadWithEnvBootstrap`, `Prepare` (`ApplyDefaults`, `Normalize`, `Validate`),
`ToYAML` are the functions of the code on them. The state is what outlives a
process: the file and the environment. A process starts (`Load`), perhaps renders
the file (`Create` empties it, `Write` fills it, each may fail), prepares once more
with its command line (`Build`), and ends at any point, by a crash too (`Exit`); the
next may have lost the environment (`ForgetEnvironment`). `said` and `rendered` are
history variables, with which starts are compared.

Three of the rules the checks confirm have an edge worth knowing. A file that a
failed rendering left empty is taken for a configuration, so it is never rendered
again, which `RestartsAgree` allows because the defaults are the same. A list that
the environment emptied is left out of the rendered file and comes back as the
default (`RenderedKeeps` says so). A websocket path that is another route's, or a
malformed pattern such as `/ws/{`, passes the validation and panics in the router (the
value "refused", which `AcceptedCanStart` names).

### Access

Between starts and exits, visitors come (`Visit`). A route's answer is what the
middleware, the access manager and, for a handshake, the checks before the upgrade
make of the visitor: CORS preflights first, then the origin, the credential, the
name. `MatchOriginPattern` is the loop of `origin.go` with its two indices and its
memory of the last star; `Stands` says independently what a pattern means, and
`Welcome` who should be let in.

## 3. What is checked

| Run | Instance | States | Properties |
|---|---|---|---|
| `registry` | 1 provider, 2 connections, 2 goroutines, 1 subscriber with a channel of 1, time to 3 | 265 102 | CooldownHasItsTimer; NoSendOnClosedChannel; CallbackEndsOnlyItsCooldown; CoolingEnds |
| `session` | 1 request, a channel of 2, 3 messages | 10 331 | OneTerminalPerReply; CleanEndIsComplete; NoOrphanedCaller; KeepsReplyPromise (refinement); CallerReturns; SlotReleased |
| `connections` | 1 provider, 3 handshakes | 218 379 | NoLostSession; RegistryAgrees; CleanupSparesNewSession; StopReturns |
| `lifecycle` | 1 provider, 1 handshake, 1 request, 2 calls of Start and a host program | 210 876 | DrainKeepsProviders; StopMissesOnlyLateEntries; ExitIsGraceful; StartReturns |
| `attempts` | 1 request, 3 providers | 349 191 | EachProviderOnce; AttemptsReleased; ErrorOfAnAttemptWins; RequestReturns |
| `affinity` | 2 providers, 1 session, 2 models, 2 requests, a channel of 1, 2 changes, 1 cursor up to 2 | 421 263 | CursorsBounded; ChosenIsReady; StaysAtHome; LostBindingsEnd |
| `stream` | 6 streams of 1 to 3 events, cut at the places below, channels of 1 | 599 608 | InOrder; CleanEndIsWhole; SlowClientBlamesNobody; Released; ReaderGetsAnEnd |
| `requests` | 10 configurations, 18 first requests, 5 contents, 25 wishes, 2 changes | 17 785 | ValidationSuffices; SentIsSupported; MoreAskedMoreGiven; HistoryIsStable |
| `configuration` | 6 groups of fields, every file with every environment of a group, 4 command lines, visitors as below | 294 272 | RestartsAgree; EnvironmentWins; AcceptedCanStart; RenderedKeeps; LetsInTheRightOnes |

Types are not checked by a run of their own: they are proved (section 5), or, in
`Configuration` and `Access`, every property looks every field up.

Why the bounds are enough:

- Providers share nothing in the registry but the lock, so one provider shows
  what can happen to an entry; two connections let a disconnect come from the
  connection replaced; two goroutines let an operation come between another's
  critical section and its events; time to 3 has two deadlines that can be
  replaced by one another and pass in either order. A channel of one place is
  full after one event.
- Requests of a session meet in the read loop and in cleanup only; both treat
  them one at a time. Three messages and two places let the channel fill up and
  a terminal message follow chunks, or follow another terminal message.
- The third handshake can replace the second while it is still closing the
  first; Stop may come at any point of it.
- Three providers allow two failed attempts, one that joins late and one cooled
  by others. A second request adds nothing that `OthersCool` does not do.
- Two requests of one session give every race for its binding: both choose, one
  drops what the other has bound, one binds what an event has just spoken
  against. Two changes of the registry suffice for an event that is read too
  late and one that finds the channel full. Sessions share only the cursors;
  requests without a session, for another model, contend for the one cursor kept.
- The streams have an event of several lines, one after the answer's end, CR LF and
  LF, a missing blank line at the end, [DONE], and bare JSON. The shortest may be cut
  anywhere; the others at the places that the decoder tells apart: within a line, before
  and after its end, inside the blank line, between CR and LF, and within the field name
  of the next event. The decoder keeps nothing of an event it has passed on, so two events
  in a row show what a third would. Channels of one place and the chunks that the relay,
  the loop and the converter hold make six places where a chunk can be when somebody
  leaves, or when the next one is dropped. (The theorems are about every proper cut.)
- In `lifecycle` the one handshake comes before, during or after Stop, and the second
  Start follows one that failed or meets a shutdown; handshakes that replace each
  other under Stop are in the run `connections`. One request shows whether any is cut
  off. The theorems of `LifecycleProofs` cover all the larger instances.
- The fields of a configuration fall into groups that no rule connects (policy, CORS,
  certificates, origins, names, scalars). Within a group every choice of the file
  meets every choice of the environment; each illegal and each garbled value occurs.
  Two starts show what the first leaves to the second, and a third does nothing new,
  because the file is only ever written when there is none. Visitors show a key, or
  another value, in every place and in the places before it; origins and patterns are
  all those of up to three of two letters and the star, where a matcher must go back.
- The configurations have a model of each kind of thinking (budgets, levels, both,
  none; with and without auto and zero), strict and not, and one for each reason to be
  refused. The wishes have every level that a model has, has not, or that nobody has,
  budgets on both sides of each bound, and both spellings; two changes let any two
  wishes follow each other at any model. Roles and names are made up from the content
  just before, so a conversation that grows by two contents shows what a third would.

The theorems of section 5 hold for every value of these constants.

Deadlock is checked in the registry and in the configuration, where something can
always happen; the other models may come to rest (all requests returned, Stop over,
no further handshake), so it is not checked there.

### Disagreements with the comments

Three runs show that the code does something else than a comment says
(`PROJECT.json`, "findings"). Each lists a counterexample that TLC finds.

- `connections_ghost`: a connection that fails before it is announced is listed
  as a provider from then on, until it connects again (`manager.go:385-403`,
  against `registry.go:115`). Requests sent to it fail and are retried elsewhere.
- `attempts_cancel`: a client that cancels after the request was sent can get a
  provider cooled (`http.go:116-118`, and for a stream `pipeline.go:324-340`; against
  `pipeline.go:1186` and `1091`). The window is narrow: the loop must see the channel
  that the relay has closed before it sees `ctx.Done`; for a stream without a
  first-packet timeout it sees nothing else.
- `stream_cuts`: a chunk of white space is dropped although an event is buffered, so
  that two lines, or two events, run into one (`stream_adapter.go:46-49`, against `:52`
  and `:69`).

Some things were noticed that take no model to see, or that contradict nothing the
repository says, and have no run:

- a stream whose client is slow may lose chunks in the middle and end as if it were whole
  (`session.go:33-36`; section 2, StreamRelay);
- a payload of several lines is written behind a single `data: `, of which a client
  reads the first line only (`handler.go:470`; AI Studio's JSON comes on one line);
- with strict validation a thinking budget of 0, or auto, that the model does not
  support is adapted after all, because it has become a mode of its own before the
  check (`thinking.go:438`, against `config.example.yaml:299`);
- a file that is valid only together with the environment is refused, since it is
  validated before the environment is laid over it (`bootstrap.go:29`, against `:15`);
- a malformed JSON array in a variable is split at its commas instead of being
  refused (`env.go:636-645`).

## 4. Fairness

Goroutines that can run do run; a waiter for a Go mutex gets it in the end. So
the models assume weak fairness of what a goroutine of the gateway does by
itself: publishing, the steps of a call, watcher, read loop, cleanup, handshake,
Stop, attempt loop, a selection, the subscriber of the events; the ticker of the
cache's cleanup ticks. The callback of a cooldown timer has strong fairness in
`Registry`, because other writers and publishers take the lock over and over,
and `sync.RWMutex` lets no waiter starve; due timers fire, and time passes.
Nothing is assumed of the outside: providers need not answer, connect or fail,
clients need not cancel, subscribers need not read, nobody needs to call Stop.
`RequestReturns` rests on two timers that are on by default: until the first packet on
the first-packet timer (60 s), and, for a whole answer that has begun, on the deadline
of the call (600 s), whose `Expire` is therefore fair. With `bootstrap-timeout` 0 a stream
of a silent provider has no other limit than its client and its provider's session; with
`non-stream-timeout` 0 an answer that begins and never ends has none either.
In `StreamRelay` the loop's fairness is written out, with `LoopCanGo` for "the loop
has a step", because TLC cannot evaluate ENABLED of the decoder in reasonable time.
In `Lifecycle` a request that nobody answers ends with its session, and a shutdown
that a Start began has a time limit (`service.go:307`), so its `TimeIsUp` is fair; the
context of another caller may never end, and `StartReturns` does not need it to.
`Configuration` and `Access` promise nothing that must happen.
Nothing is assumed of the handler's writes: `ReaderGetsAnEnd` has as its premise that
the client keeps reading, and rests on the idle timer (90 s by default).

## 5. What is proved

| Module | Theorem | For every |
|---|---|---|
| `RegistryProofs` | TypeCorrect, NoSendOnClosed, CooldownTimers, CallbackEndsOnlyItsOwn | number of providers, connections, goroutines, subscribers, buffers, times |
| `RelaySessionProofs` | TypeCorrect, NoOrphan, ClosedReplyTakesNothing, OneTerminal, CleanEndsAreComplete, KeepsThePromise | number of requests, capacity, number of messages |
| `AttemptsProofs` | TypeCorrect, OncePerProvider, AttemptsAreReleased, ErrorsAreNotForgotten | number of requests, finite set of providers |
| `AffinityProofs` | TypeCorrect, CursorsStayBounded, ChoiceIsReady, SessionsStayAtHome | number of providers, priorities, sessions, requests, goroutines, changes, TTL, channel, finite set of models, cursor limits |
| `StreamRelayProofs` | StreamTypeCorrect, SlowClientsBlameNobody, EventsArriveInOrder, CleanEndsAreWhole | set of streams (any events, any proper cuts), capacities |
| `LifecycleProofs`, on the relay's map | TypeCorrect, NoSessionLost, CleanupSpares, RegistryAgreesWithMap | number of providers and handshakes |
| `LifecycleProofs`, on the service | ServiceTypeCorrect, ServiceRunsRelay, NoSessionLostInService, DrainSparesProviders, ExitsAreGraceful, StopLeavesOnlyLateEntries, OneListenerIsUp | number of providers, handshakes, requests, callers of Start |
| `RequestsProofs` | TypeCorrect, SentIsAlwaysSupported, MoreIsGiven, ValidationAlwaysSuffices, HistoryStays | set of configurations, first requests, contents, wishes, number of changes |
| `ConfigurationProofs`, on starts | ConfigurationInvariant, RestartsAlwaysAgree, EnvironmentAlwaysWins, AcceptedAlwaysStarts, RenderedAlwaysKeeps | set of deployments (files, environments) and command lines |
| `ConfigurationProofs`, on visitors | VisitsChangeNothing, MatchedStands, StandingMatches, RightOnesAlwaysGetIn | the same, and set of visitors, with patterns and origins of any length |

The assumptions are those stated in the modules (`RegistryAssumption` and so on):
that the constants are numbers or sets of the expected kind and that the value
for "none" is not one of the data. Of the configuration they say what a file, an
environment and a command line can hold at all (`SettingsAssumption`,
`OverridesAssumption`): any of the classes of values, for any of the fields. Of the
visitors, that an origin is a row of characters, none of them a star
(`VisitorsAssumption`, `OriginsAssumption`): an Origin header names a scheme, a host
and a port. MatchedStands needs no such thing, so nobody gets in by an odd origin;
only that the right ones do get in rests on it. Of a provider's streams, that the
decoder understands each when it comes in one piece (`StreamsAssumption`, which TLC
evaluates for the streams of the run): the theorems then say that it understands it
in any proper pieces, as long as none is dropped. StreamTypeCorrect and SlowClientsBlameNobody do not use it.

The arguments, and why the invariants had to be strengthened:

- *CooldownTimers.* `CooldownHasItsTimer` says that a cooling entry has an armed
  timer or a callback that will find it expired. That a callback has read a
  clock not before its deadline is not part of it and is added
  (`CallbacksAreDue`); the operations are then treated alike by the lemma
  `OnlyOneEntry`: what a step does to one provider leaves the others' timers
  alone.
- *NoOrphan.* What is needed besides the statement is that `closed` is set before
  the harvest (`ClosedFirst`): who registers afterwards fails the check of send.
- *OneTerminal.* The right to end a reply is with the entry in the map, with the
  read loop that has taken it out to offer a terminal message, or with cleanup
  that has harvested it, and never with two (`OneRight`); while somebody has it,
  no terminal message has gone out (`RightMeansOpen`).
- *CleanEndsAreComplete.* What a caller has taken or can still take of a reply is
  numbered from the first message on, as long as nothing was lost and cleanup has
  added nothing (`WholeIsInOrder`). To keep that, the message in the read loop's hand
  must be the next (`OfferContinues`), an entry in the map must have been offered all
  that arrived (`PendingHasAll`), and nothing comes before the request
  (`UnaskedIsUnanswered`). A reply that ended well took an "end", and by
  OneTerminal's invariant cleanup then added no error.
- *KeepsThePromise.* The refinement of `ReplyStream`. The numbers of what is seen of a
  reply grow and are no larger than what has arrived (`SeenGrows`), and the message on
  offer is newer than all of it (`OfferIsNew`); a call goes on only after messages
  that end nothing (`CallGoesOn`), so cleanup's error, the only message without a
  number, is the last taken if it is taken at all. Each step is then a delivery, an
  end, both, or a stutter.
- *RegistryAgreesWithMap.* The property speaks of quiet states. On the way there,
  a running session in the map is the registry's (`MappedIsCurrent`), the
  registry's is in the map, or about to report its loss, or a handler of the
  provider is still to announce (`CurrentIsMapped`), and a session about to
  report its loss has left the map for good (`LossAfterMap`).
- *ChoiceIsReady.* A selection about to bind has chosen one of the best of its own
  list, which no other step changes (`SelectionInv`).
- *SessionsStayAtHome.* A session's home is bound and has not expired, because the
  binding is never older than the last use of the home; every selection under way
  for the session has yet to look at the cache and has the home among its best
  (`HomeInv`). So no selection is about to drop the binding or to bind another.
- *SlowClientsBlameNobody.* A timer that has fired while the loop waits has fired
  since it began to wait, because it is rearmed, and drained, whenever the loop
  begins to; and after the idle end the loop never waits again (`TimerInv`).
- *EventsArriveInOrder, CleanEndsAreWhole.* Both have the premise that no chunk was
  dropped (`Unharmed`). Four parts, each an invariant on top of the one before.
  The reply channel: the messages that wait follow one another in the text, the first of
  them where the offered one ends (`ReplyInv`, `OfferInv`), so what has been taken out of
  the channel is a beginning of the text (`Came`), whatever else the provider has sent.
  The decoder: fed with a beginning of a text and then with the rest, it gives what it
  gives for the whole, unless the cut is between CR and LF (`CutAnywhere`, by the least
  token at which the two would differ). So, as long as every cut is proper and the
  loop goes on, the buffer is what it would be after that much of the text in one
  piece (`DecoderInv`), the payloads of the next chunk are the next events
  (`ChunkGives`), and what is flushed at the end is the event that was left
  (`RestGives`).
  The stream: an event is a payload of its number or, if flushed early, a part at that
  number; nothing follows an event that ends the answer (`Unended`).
  The way: everything the client has got and will get, through `chunks`, `carried`,
  `out` and `todo`, is a row of consecutive events from the one after the last it has
  got (`LineInv`); while the loop goes on all of it is whole and counts up to what
  has been decoded (`GoingInv`); a part of an event is last, with an error behind it
  or a client that has left (`GotInv`); and for a client that stays, a loop that
  ended without an error has sent every event (`WholeInv`). When the handler has
  returned only the two facts of the properties are left of this (`ReturnedInv`).
- *SentIsAlwaysSupported.* The lemmas follow the code. Whatever body and suffix say is
  an ask of one of four forms (`AskedIsAnAsk`); `ToCapability` makes it one the model
  takes, `ToLevels` gives it a level of the model's, `ToRange` a budget in its range
  (`ToRangeIsFit`), and what is fit is written as something supported. The clamp of
  levels needs that a nearest level exists (`NearestExists`, by well-foundedness). The
  invariant adds that what was prepared was prepared for the last request by the
  registry that is there, and that this registry's declarations are valid (`Sound`),
  which rests on the validation (`NewRegistryIsSound`).
- *MoreIsGiven.* Every step of the preparation keeps the order of what is asked: the
  budgets of the levels (`LevelBudgetsGrow`), the levels of the budgets, the two
  clamps (`ClampLevelGrows`, `ClampBudgetGrows`), and the conversion to the kind the
  model takes (`ConvertGrows`).
- *ValidationAlwaysSuffices.* The registry refuses a configuration for an alias that
  two models share, or that is a model's name. The validation has asked for the same,
  on the same rows of aliases, brought into form by the same function, so only the
  aliases and names of embedded models, which it does not know, are left
  (`RefusedForAnAlias`). That bringing into form gives a row at all is by induction
  along it (`AllOfARow`).
- *HistoryStays.* A request that goes on keeps a beginning (`Begins`). Each pass over
  the contents is one in which what comes of an entry depends on those before it
  only: roles (`RolesBegin`), signatures (`SignaturesBegin`), names of functions
  (`NamesBegin`), placeholders (`SentContents`); and the models and forms that decide
  which passes are made are the same of both (`AsksTheSame`).
- *ConfigurationInvariant.* Between two starts only the file and the environment are
  left. So the invariant speaks of them: everything that was said is what a start says
  now, of the file that is there, or of a file that is empty or absent, which comes to
  the same. That a rendered file says the same again takes the chain of
  `PreparedSettles` (preparing twice changes nothing), `AcceptedAgain` and
  `RenderedAgrees`.
- *MatchedStands, StandingMatches.* The loop of `matchOriginPattern` has two indices
  and a memory. That it ends, so that the model's recursive function has a value, is
  by a measure of the pairs in their lexicographic order (`StepsGetFewer`). Sound: at
  each place the part of the origin behind is one that the part of the pattern behind
  stands for (`TurnIsSound`). Complete: whenever the pattern stands for the origin, it
  does so from the last star on, with the mark where it is or further (`Promising`),
  and since that star only letters were matched, which fixes where the indices are
  (`TurnIsComplete`, `RestAfterLetters`).
- *RightOnesAlwaysGetIn.* The answer was given under the configuration that is there
  still, because a process that has been visited does nothing else before it has
  answered; then `First` finds what `Shown` describes (`FirstIsShown`), and the two
  theorems about the matcher do the rest.
- *ServiceRunsRelay.* A step of the service is one of the relay's or leaves it alone,
  so every theorem about `Connections` holds in a service; NoSessionLostInService is
  one of them, spelt out.
- *DrainSparesProviders, ExitsAreGraceful.* The stages of a shutdown come in their
  order: the server is closed from the drain on, after which nothing joins `active`,
  and the relay is stopped after the drain or the time limit (`ShutdownOrder`).
- *OneListenerIsUp.* A Start that is let in keeps others out until its listener has
  failed and it has said so (`OneStart`).
- *StopLeavesOnlyLateEntries.* While Stop works its list, each session that could be
  found when it looked is on the list still, or closing, or was replaced by one whose
  handler has it to close (`StopCoversSeen`).
- *OncePerProvider.* The log lists exactly the providers tried (`TriedInv`), and a
  choice excludes them.
- *AttemptsAreReleased* and *ErrorsAreNotForgotten.* Each speaks of one request at
  a time, and a step of one request leaves the others alone (`OthersKeep`). What
  is held needs no strengthening; that an error is remembered does
  (`RemembersError`): a failed attempt has an error, which stays while the next
  provider is chosen, and only a call that made no attempt has none.

Checked by TLC only: all liveness properties (LostBindingsEnd and Released are
liveness too), which are beyond the prover under fairness. Every safety invariant and
action property of the passing runs is also a theorem.

## 6. What is not modelled

- Decoding and joining of payloads, headers, URLs, the fields of a body that the
  gateway does not look at, wording and logging.
- The public list of models (`Registry.Get`, `List`), the session id from a hash of the
  content (never turned on), spelling and normalisation of names.
- `LastSeenAt`, labels, diagnostics, the ring of events: shown, never decided on.
- A chain of several authenticators, which only a host program can build; labels, tags
  and priorities of a provider; the normalisation of names, ids and origins.
- The syntax of YAML and of the variables, but for "does not parse"; a write of the
  rendered file cut short in the middle; the redacted and the example output.
- The executor's URLs and headers, status and dashboard, and how a service adopts a
  custom relay.
- The joining of the chunks of a non-stream answer (`NonStreamWithBootstrap`).
- The raw mode of a stream (no `alt=sse`), in which chunks pass as they are and an
  error in the middle is not told to the client (`handler.go:284-290`).
- `Cache.Get`, which has no caller, and the `fill_first` selector, which is
  `Affinity`'s fallback with the first turn always.
- Memory effects of the data race in `Registry.Get` (`registry.go:502-509`).

## 7. Plan

What could come next, in order of importance:

1. The joining of a non-stream answer (`NonStreamWithBootstrap`) and the raw mode of a
   stream, with what a client is told when either breaks.
2. A service that adopts a custom relay (`service.go`, the callbacks it installs), on
   top of `Lifecycle` and `Registry`.
3. Larger instances of `lifecycle` (a second handshake), when the time of a run allows.
