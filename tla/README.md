# kiro-gateway in TLA+

kiro-gateway is an HTTP gateway (Rust, tokio, axum) that offers the Anthropic
Messages, OpenAI Chat Completions and OpenAI Responses interfaces on top of the
Kiro upstream. This directory holds TLA+ models of its stateful parts, the TLC
configurations that check them on small instances, and TLAPS proofs of what
matters most for every instance. `PROJECT.json` lists the components, the runs,
the source lines each definition stands for, the mutations that each property
detects, the hazards and the theorems.

Paths below are relative to `src/src/`, the crate of the gateway.

## The system

| component | state it keeps | operations | talks to |
| --- | --- | --- | --- |
| Responses store (`response_store/`) | SQLite tables `responses`, `response_requests`, `response_snapshots`, `response_events`; an unbounded command queue; one actor thread | create, transition, transition if in progress, get, delete, append event, list events | every Responses handler and stream, delete and admin endpoints, by queue and oneshot reply |
| Responses handler and live stream (`http/responses/`) | per request: the record handle, the stream's sequence counter, the drop guard's snapshot, the output items | create, emit, fail, close, drop | store, credential manager, model catalog, upstream |
| Credential manager (`credential/token_manager.rs`, `auth/refresh.rs`) | the credential, the refresh state, the refresh lock | ensure fresh, refresh, replace, reload | token endpoint, catalog, JSON file |
| Model catalog (`model_catalog.rs`) | one cached result with its time, the fetch lock | get, invalidate | upstream, credential manager |
| Credential persistence (`credential/persistence.rs`) | the JSON file | write to a temporary file, rename | credential manager |
| Upstream request (`upstream/request.rs`, `integrity.rs`, `transport.rs`) | per call: attempt, emitted, completed | send, retry, decode, end | endpoint, decoder |
| Event stream and JSON decoding (`upstream/event_stream.rs`, `json.rs`) | bytes not yet decoded | push, finish | upstream request |
| Tool call accumulation (`upstream/accumulator.rs`, `tool_state.rs`) | open and ended tool calls in order of arrival | start, append, finish, finish all | every stream |
| Chat Completions and Anthropic streams (`http/openai.rs`, `http/anthropic.rs`) | per stream: block or tool indices, open and closed blocks | one step per upstream event | accumulator, text filter |
| Text filter (`transform/truncation.rs`) | text held back | push, finish | every stream |
| Request conversion, endpoints (`transform/`, `endpoint/`, `protocol/`) | none | JSON to JSON | - |
| Admin sessions (`admin/`) | sessions, login attempts per key | login, check, logout, expire | credential manager, store |
| Credential discovery (`auth/source.rs` and its loaders) | none; it reads the configuration, the JSON file and the CLI's database | find exactly one credential, at each start and reload | credential manager |
| Startup and shutdown (`main.rs`, `config.rs`) | listener, refresh task | start, drain, abort | all |
| Routing, errors, redaction, admin page (`http/router.rs`, `error.rs`, ...) | none | - | - |

The parts interact by calls on one tokio runtime with several worker threads.
Two things are shared by all requests: the store's actor, reached through a
queue, and the credential manager with its catalog, reached through locks. What
is hard is, for each part:

* **Responses.** A record is written by four parties that do not know of each
  other: the handler, the stream, the drop guard of a stream whose client went
  away, and whoever deletes the response. The guard and the storage failure path
  queue their write without waiting. A transaction may fail before it commits,
  or report a failure after it did (`harden_sidecars`). The actor thread may end,
  and the process may be killed, with commands queued. *Correct* means: a record
  is created once, closed at most once, its events are numbered without gaps and
  agree with its status; what a client was sent can be replayed; nobody hangs.
* **Credentials and catalog.** Many requests find the token due at once; a
  refresh may time out, be cancelled with its request, or race a reload by the
  administrator or the write to the JSON file. *Correct* means: one refresh at a
  time, no refresh token spent twice, the file holds what the endpoint last
  issued, models of a replaced credential are not served.
* **Upstream.** A call may be repeated once, only before its first event.
  *Correct* means: nothing is sent twice, a stream that ends without a terminal
  event is incomplete, and every call ends.
* **Streams and tool calls.** Upstream events come in every order, with missing
  or late identifiers. *Correct* means: blocks open before their deltas, close
  once, indices are never reused, arguments end up in their own call.
* **Pure algorithms** (text filter, frame decoder, choice of the active tool
  round). *Correct* means: the result does not depend on where the input was
  split, and agrees with a direct definition.
* **Admin sessions.** *Correct* means: an expired or logged out session opens
  nothing, the number of login attempts in a window is bounded.

## Plan

All of it is built, in this order, the most important first:

1. **Responses**: `ResponseStore` and `Responses`, which composes the store with
   every handler, stream, guard, client and crash; the abstract `ResponseRecord`,
   which they implement; the proofs.
2. **Credentials**: `TokenManager` (refresh lock, timeout, cancellation, reload,
   persistence, crash), `ModelCatalog`, and `CredentialService`, which composes the
   two as `available_models` does; the proofs.
3. **Upstream**: `UpstreamRequest`, the two attempts of `event_stream` over every
   failure point, implementing the abstract `SingleDelivery`; the proofs.
4. **Streams**: the accumulators, then the Anthropic, Chat Completions and Responses
   streams over the same upstream events, each against the protocol its clients rely
   on and against the answer of a client that does not stream.
5. **Pure algorithms**: the text filter and the frame decoder over all short inputs
   and all cuts, JSON answers over all shapes, the active tool round.
6. **AdminSession** with its proofs, `RequestInput`, `CredentialSource`, and
   `Shutdown` composed with Responses, with its proofs.

What is left is under "Not modelled", with the reasons.

## Modules

| module | what it is |
| --- | --- |
| `ResponseRecord` | the abstract lifecycle of a stored response: open, extend, close once, remove for good |
| `ResponseStore` | the tables, the queue, the actor and its commands; a fault per command |
| `Responses` | the handler, the live stream, the drop guard, deletes, disconnects, the end of the actor and crashes, composed with the store; the properties |
| `ResponsesInvariant` | the inductive invariant `IInv`, part by part |
| `ResponsesTheorems` | lemmas about the log and the types; the invariant is inductive; the safety properties follow; every step is a step of `ResponseRecord` or a stutter; a shutdown implements `Responses`, and a timely one costs nothing |
| `Shutdown` | `main` from the signal to the end of the process, around `Responses` |
| `FairLock` | tokio's mutex as a value: join, release, leave |
| `TokenManager` | the credential in memory, refresh and reload, the JSON file, the token endpoint; its properties |
| `ModelCatalog` | the cached result and the lock under which it is fetched |
| `CredentialService` | the two composed; liveness and what the documentation says of them |
| `TokenInvariant` | the inductive invariant `TokenIInv` of `TokenManager`: what always holds, and what holds until the first reload |
| `CredentialTheorems` | types and single flight always, the rest of the invariant until the first reload, and the properties that follow; the composition implements `TokenManager`; no fetch in vain |
| `CredentialSource` | the loaders and `discover`, over starts, refreshes, reloads, restarts and logins elsewhere; its properties |
| `GenerationEvents` | upstream messages and the generation events that `decode_generation_events` makes of them |
| `UpstreamRequest` | one call of `event_stream` with its retry, its stream and its consumer; the properties and `IInv` |
| `SingleDelivery` | what the consumer of a call may rely on, however often it was tried |
| `UpstreamTheorems` | the invariant is inductive, the properties follow, and a call implements `SingleDelivery` |
| `EventStreamDecoder` | the frame decoder over a stream that is cut, damaged or broken off |
| `JsonEvents` | `decode_events` over the shapes of a JSON answer |
| `XmlLeakFilter`, `TextChannel` | the text filter; a text on its way through it in chunks |
| `ToolCallAccumulator` | fragments of calls put together, with late, missing or repeated ids |
| `GenerationAccumulator` | all events added up, and the stop reasons of the three protocols |
| `GenerationStream` | the stream that a handler sees, and what its tool calls mean: the yardstick of the next four |
| `Completion` | the driver of answers that are not streamed |
| `AnthropicStream`, `ChatStream`, `LiveResponse` | the three streaming handlers, event by event |
| `Conversation` | `conversation_body`: which calls and results are sent as structures, which as text |
| `RequestInput` | `into_generation` of the three protocols, one input item after the other |
| `AdminSession` | the session table, the login window, the middleware and the handlers behind it |
| `OperatorTheorems` | sessions, CSRF, the login limit and its refusals for any number of sessions, keys and requests; credentials: what was written is read back, no rotated token returns, no choice and no refusal without a cause |
| `FilterTheorems` | the text filter, for every set of markers, every text and every way of cutting it; facts about sequences that the next three need |
| `InterfaceTheorems` | the answer without streaming, the Messages stream and the Chat Completions stream, for every stream of the upstream |
| `LiveTheorems` | the Responses stream: its items, its end, and the snapshot of one that is left |
| `ConversionTheorems` | the messages of a request and the body made of them, for every conversation; the frame decoder, for all frames and every way of cutting a stream of them |
| `MC...` | model values, small sets and symmetry for TLC. `MCOperators`, `MCConversions` and `MCInterfaces` put modules that share nothing side by side: a behaviour is of one of them |

How they compose: `Shutdown` extends `Responses`, which extends `ResponseStore`;
`CredentialService` extends `TokenManager` and `ModelCatalog`. `UpstreamRequest` shows
which sequences of events a call can yield; `GenerationStream` generates those that a
handler can tell apart, and each handler is composed with it, with the accumulator and
with the filter. `LiveResponse` has the events that `Responses` calls `"item"`, and
abstracts the store to "may fail"; `Responses` has the store and abstracts the items.

### How the state corresponds to the code

Responses:

* `row[id]` is the row of table `responses` together with the document in
  `response_snapshots`; of the document only its `status` field is kept
  (`shown`). `log[id]` are the rows of `response_events`, by insertion.
* `mailbox` is the actor's channel, `reply[r]` the oneshot channel on which the
  task of request `r` waits. A task has one at most. `deleted` is a history
  variable.
* `pc[r]` says at which `.await` the task of request `r` stands. A tokio task is
  never interrupted between two awaits, so one action leads from one await to
  the next and does everything in between: `StoreFailed`, say, is
  `storage_failure_payload` with all it calls, plus the `yield` and the `return`.
* `snapshot[r]` is `ResponseSnapshot`, shared by the stream and its guard, and
  `client[r]` what was yielded to the client.
* `sequence[r]` is the stream's local counter. A stored stream numbers events by
  what the store answers and keeps the counter for a storage error.

An id is the name of its request, because ids are fresh UUIDs. All events
between `response.in_progress` and the terminal one are of type `"item"`: which
items a stream opens and closes matters to clients but not to the store.
`Commands` with a `Get` stand for the read of `previous_response_id`; other reads
change nothing and are left out, and so is `Events`.

Credentials:

* `credential` and `status` are the two `RwLock`s of `TokenManager`, `refreshLock`
  and `fetchLock` the two async mutexes, `cache` the catalog's entry (an expired
  one is none), `file` the JSON file, which is both the configured source and
  `credential.json_path`.
* Tokens are numbered as they are issued. `due` holds the access tokens for which
  `needs_refresh` is true, `revoked` the refresh tokens the endpoint has rotated
  away: it may rotate at each answer or not. `lost` and `reloaded` are history variables.
* Tasks run on several threads, and the locks around the credential are held for one
  read or write only. So, unlike in Responses, a step ends wherever another task
  could see or change something: the check under the lock, the copy of the
  credential, its replacement, the invalidation of the catalog and the write to the
  file are steps of their own (`pc[t]`), and a reload may fall between any two. The
  credential is read for the file in the same step that writes it: only a reload
  could tell the difference, and it reaches the same states by coming earlier or
  later.
* `held[t]` is the local `credential` of `refresh` (line 158), later the answer. A
  call that timed out may still have been dealt with: `Grant` may come before it.
* The background task between two sleeps, a request that calls `ensure_fresh` and an
  administrator who calls `refresh` differ only in when they come: each is a task
  that may begin at any time.

One call to the upstream (`UpstreamRequest`):

* `pc` is the await at which `event_stream` or the stream that it returned is
  suspended, or how it ended; `attempt`, `integrity` (`StreamIntegrity`) and `bytes`
  are the locals of the same names, `partial` says that the decoder holds an
  unfinished frame. `messages` and `events` are the two loops that the stream is in
  between two yields.
* `out` is what was yielded, each item with its attempt, and `sends` counts requests.
  The network is the choice of the next chunk, of what it completes and of failures.

Streams (`GenerationStream` and the handlers):

* `queue` are the events of the message decoded last, `seen` those the handler has
  taken; `upstream` is how the stream stands. An action of a handler is one arm of its
  `match`, with everything it yields: a client that goes away in the middle of an arm
  is covered by `UpstreamRequest` and `Responses`, which end there.
* `acc` is the `GenerationAccumulator`, kept by every handler beside its own state
  (`handler`, `indices`, `live`). What the client sees is `sent`.
* A text is a sequence of characters, of which the marker's two are special; the
  arguments of a call are the pieces `{` and `}`, complete when the braces match.
  Stop reasons are the ones that the conversion to the three protocols tells apart.

Decoder and JSON: bytes are 0..15 and a word of four bytes is two of them, so that
every frame and every cut can be enumerated; the checksum is a parameter. A JSON value
is a record and an object a sequence of pairs in the order of its map. Depth, nodes
and items keep a limit.

Requests (`RequestInput`, `Conversation`): each state is a request that could be
complete, `messages`, `guidance` (system parts and instructions) and `previous`
(`previous_len`, the messages of the stored response) are what `into_generation`
builds, and `RequestBody` is `conversation_body` of it. A part is a number, a name a list of
words with a separator. `shown` is a history variable: what the model asked for and
under which name the client saw it.

Administrators (`AdminSession`): `expires` is the session table, `attempts` the login
windows, `request[r]` a request between the middleware and its handler. `now` is a
clock in ticks. `admitted`, `refused` and `over` are history variables.

Where the credential comes from (`CredentialSource`): `config`, `file` and `database`
are the three places, `gateway` where `main` stands. Refresh and reload, many steps in
`TokenManager`, are one step each: here it matters what they leave for the next start.
`saved` and `settled` are history variables.

The end of the process (`Shutdown`): `gateway` says where `main` stands. A task that the
runtime drops is a task whose client disconnects, the end of the process a crash
without tasks; this is what makes the refinement of `Responses` an identity on its
variables. `drained` and `cut` are history variables.

### Faults

`Faults` may hold `"sql"` (the statement or the commit fails, nothing is written)
and `"harden"` (the commit succeeded, hardening the WAL and SHM files failed, so
the caller is told an error). Each served command chooses one of them or none.

`Mishaps` are those of the credentials: a call that fails before or after the
endpoint has dealt with it, the timeout around it, a request dropped at an await,
a file that cannot be written, a killed process, and an operator who logs in again
and reloads.

The upstream's network may fail at the send, at every chunk and in the body, answer
with an error status, send broken frames, more than `max_body_bytes`, events in any
order, an error event, or nothing; a consumer may drop the stream wherever it is
suspended. The handlers see a stream that may fail at any point, and `LiveResponse` a
store that may refuse any event. Every module with a process restarts or ends it:
`Responses` and `TokenManager` crash, `AdminSession` restarts and forgets,
`CredentialSource` starts again with what was written, `Shutdown` ends in order or by
its timer.

## Runs

| run | question | instance and why it is enough |
| --- | --- | --- |
| `core` | do the safety properties, the inductive invariant and the refinements hold with everything that can go wrong, and does a shutdown cost nothing in time and end when late? | `Shutdown` around one request: both faults, two items, one crash, the actor may end, disconnects anywhere, deletes and the signal at any time. The parties that compete for a record all belong to one request, and two items are enough for an event to be appended after one that failed |
| `pair` | do two requests that share the queue, one of which may continue the other's response, still implement the abstract record? and is a storage error true if no fault follows a commit? | two requests, `"sql"` faults, the actor may end, disconnects anywhere, one crash; no items, as the created and in_progress events are appended like items |
| `live` | does a stored stream's record always leave `in_progress`, and does every request end although the actor may? | one request, two items, `"harden"` faults and disconnects. Without `"sql"` faults, because a failed best-effort transition is never repeated |
| `disconnect` | is the record of every client that disconnects closed? | **violated**, see below |
| `refresh` | is every refresh needed, is its token live, and can a calm status be trusted? | three tasks and all mishaps: one refreshes, one waits, one is cancelled between them. Three issued credentials, so a second refresh follows one that failed or was lost; one crash. The properties are claimed until the first reload |
| `catalog` | is the model list fetched only when needed, and does every caller get past both locks? | two tasks that refresh, fetch, wait, reload and are cancelled, with all mishaps; two credentials, one crash. Two are enough for one to wait for the other at either lock |
| `persisted`, `replaced_models` | does the code do what the documentation and a test say? | **violated**, see below |
| `upstream` | does the consumer see one attempt and one honest end, whatever fails? | ten kinds of chunks, three JSON bodies, a body limit of three chunks: each attempt can end before, at and after its first event, and the second meets the same failures |
| `operators` | *sessions*: does no request run for a session that is over, or change anything with another's CSRF token, and how many logins get through? *credentials*: is a refreshed credential read back as it was, and when is a start refused out of the blue? | two concurrent requests, two sessions and windows of two ticks in five, two keys with two attempts each, one restart: one request can log out the session of the other, or the clock can end it, between check and handler, and two windows meet at their border. All 75 configurations with nine files and six databases; refreshes that read what others wrote, any number of restarts and logins elsewhere |
| `conversions` | *text*: does the filter's output depend on the cuts? *frames*: are exactly the sent messages decoded? *JSON*: are the events those of the answer, in whichever shape it comes? *requests*: does the body pair calls and results and lose nothing? | every text of up to seven characters over four, in every cut, with markers of three and four characters that share prefixes as the real ones do. Two frames, good or with one of 23 damages (each length, checksum, byte and header form), broken off anywhere, every cut. Every combination of text, thinking, up to two calls, usage and reason, in three shapes and three wrappings. Every conversation of five items with up to three calls in the three protocols, from scratch or continued: a round of two calls, its results, and one item out of place |
| `interfaces` | do fragments end up in their call, does each stream keep its protocol, and does it add up to the answer of a client that does not stream? | every stream of four messages out of 19 to 25, for each of the four handlers: text, half markers, thinking, calls with, without and with late ids, errors and both kinds of ends; JSON answers; for Responses functions, custom tools and a store that may fail at any event. Four are enough for two calls to be opened and closed in turns |

`CHECK_DEADLOCK` is on except in two configurations. `MCShutdown`: the process ends.
`MCConversions`: a request of `MaxInputs` items is complete. Everywhere else something can
always happen: a client can delete, a task can ask for a token, and a call, a stream or an
input that has ended repeats its last state by an action that says so.

Bounds: `Requests`, `MaxItems`, `MaxCrashes`, and one queued delete per response
(in `RequestDelete`); `Tasks`, `MaxIssued`; `MaxFrames`, `MaxText`, `MaxBodyBytes` (a
limit of the code, in chunks); `MaxInputs` and `MaxCalls` of an input; `MaxTime`,
`MaxSessions`, `MaxRestarts`, and `FewLogins`, which keeps sessions and login windows,
tables that do not read one another, from filling at the same time. The proofs need none
of them (where one names a bound, it need only be a number).

### What the properties say

Those marked with a star are no property of a run: they are parts of an invariant that is,
or follow from one, and are proved for all instances.

Responses:

* `LogMatchesStatus`: events only with a record, and a terminal event exactly when
  the status is terminal, then last and of that name. It fails if the guard
  overwrites a record that was closed in the meantime.
* `SequenceContiguous`*: numbers 0, 1, 2, ... in the store.
* `ReplayFaithful`: each event a client of a stored stream has seen is in the store
  with the same number and type, unless the response was deleted.
* `ClientStreamWellFormed`: a client sees 0, 1, 2, ... and one terminal event at
  most, the last.
* `DocumentMatchesStatus`*: the stored document's status is the column's, although
  the guard's snapshot carries the status of a finished answer.
* `AnswerIsStored`: a stored answer returned with success has a final record.
* `StorageErrorIsTrue`: a client told `storage_error` is told the truth. This needs
  the absence of `"harden"` faults: with them the record may be completed although
  the client was told otherwise, as README.md says of committed transactions.
* `ImplementsRecord`: the refinement of `ResponseRecord`.
* `StreamLeavesInProgress` (unless the actor is gone), `EveryRequestEnds`: the liveness
  properties.
* `OrderlyShutdown`: a server that drained in time cut no answer, and every record is
  closed unless its client had left or the store refused a write.
* `ImplementsResponses`: nothing new happens to a record; so what holds of Responses
  holds to the end. `ShutdownEnds`: the process does end, whatever hangs.

Credentials, the first five until somebody logs in again or reloads:

* `OnlyDueIsRefreshed`: those who waited for the lock notice that another refreshed.
* `LiveTokenUsed`: the endpoint is not asked with a token that it revoked, unless an
  answer that carried the new one was lost.
* `HealthyIsSaved`*, `RestartCanRefresh`: an administrator who sees neither a refresh
  nor an error may restart: the file holds what memory holds, and the endpoint
  accepts it. They fail if a failed write is not reported. After a timeout or a
  cancellation the status shows a refresh that is over until the next one ends;
  the properties then claim nothing.
* A reload ends these claims for a reason: it takes no lock, so it can put a credential
  into memory that is not due, or an old one whose token was rotated away, in the middle
  of a refresh. What then happens is the finding `persisted`.
* `SingleFlight`*: one refresh at a time, and the status shows it, reloads or not.
* `FetchIsNeeded`: the list is fetched by one task, while none is cached.
* `EveryCallEnds`: the liveness property.
* `FileKeepsTheCredential`: what a refresh wrote loads again, as the very credential that
  is in memory (`FileIsReadBack`), which fails if a field of the file depends on where the
  credential came from; and with a file that can be written a rotated refresh token never
  comes back, over restarts and reloads (`RotatedTokenIsGone`). Without one it may: the
  environment and the CLI's database are read again and hold the token of the first login.
* `RefusalsHaveACause`: a gateway that started once is refused by a later start, although
  nobody changed anything, in one case only: the source is `auto`, and the file it wrote
  itself is now the second candidate (`RefusedByItsOwnFile`). And with `auto`, no start
  and no reload takes one of several logins (`NothingIsChosen`).

The upstream:

* `OneAttemptSeen`*, `AtMostTwoSends`*: a retry never repeats what a client has, and there
  is one. They fail if one event is yielded without being recorded as an emission.
* `EndIsHonest`, `RetriesExhausted`, `FailureEndsStream`*: a stream that just ends was
  completed or says that it was not; an interrupted or empty answer is reported after the
  second attempt only; one failure at most, the last item.
* `DeliversOnce`: the refinement of `SingleDelivery`. `EveryCallEnds`: liveness.
* `StreamIsDecoded`: the frame decoder returns what was sent, as soon as it is there, and
  tells a cut or damaged stream from a good one.
* `AnswerIsDecoded`: a JSON answer has one terminal event, each call once although its
  object is visited twice, and the same events in each shape.

Streams:

* `FilterIsExact`: the filter removes the markers of the whole text and nothing else, and
  delays less than a marker.
* `CallsAreWhole`: the fragments of a call end up in it, whatever ids they carry; made-up
  ids collide with none that comes later. `CompleteIsTrue`: what was cut off or went wrong
  does not pass for an answer.
* `MessagesAreSound` (Anthropic: blocks are counted, content goes to the open one, none
  stays open), `ChatIsSound` (Chat Completions: indices are stable, one end) and
  `ItemsAreSound` (Responses: items are added, go on and are done, one end): the protocol
  of each stream.
* `StreamsAreTheAnswer`: a client that puts its stream together gets what one that does
  not stream is given, and the output of a response lists the items just as they were
  streamed. Where the upstream leaves in doubt which call a fragment belongs
  to, only the text is compared; that rest is under "Also seen".
* `SnapshotIsCurrent`: a client that goes away between two events leaves a stored
  response with all that it was sent.

Requests:

* `RoundsAreWhole`: structures in a body are whole rounds, as the upstream demands.
  `NothingIsLost`: what is not a structure is there as text, once.
* `CurrentRoundIsNative`: the round that the request answers is sent as structures.
  `StoredIsKept`: a continued answer keeps its calls to itself.

Administrators:

* `RequestsAreAuthorised`: an action property, between two states of the table: no handler
  starts for a session that is over, and no change with the CSRF token of another one.
* `LiveSessionsStay`*: nobody else's login, request or clean-up ends or prolongs a session.
* `LoginsAreLimited`: 2 * Limit - 1 attempts in any span of a window's length. The window
  is fixed and begins with the first attempt, so two windows may meet; the bound is reached.
* `RefusedForCause`: a key is refused only for its own attempts of the last minute.

### Fairness

`StoreStep`: the actor thread takes the next command while it runs. `TaskStep`,
`Emit`, `CloseStream`: the runtime polls a task that can go on; for the steps that
wait for the upstream this rests on the overall timeout of the HTTP client
(`main.rs:83`), which ends every call with an error at the latest. New requests,
disconnects, deletes, faults, crashes and the end of the actor are never forced.

For the credentials, `CredentialService!Fairness`: a task that can go on is polled, a
call ends at the latest by the timeout around it (`token_manager.rs:159`) or by that
of the catalog's HTTP client (`token_manager.rs:39`), and a lock goes to the task
that has waited longest.

A call to the upstream is polled while its consumer keeps it, and reqwest's timeout
bounds what it waits for: one weak fairness condition on all its steps but the drop.

`ShutdownFairness` assumes least: the server's future notices that all is drained, the
timer runs out, the runtime drops what is left, the process ends. No request, no store
and no upstream has to move for `ShutdownEnds`.

The other modules claim no liveness: a stream that is not polled any more has no client.

### Findings

`disconnect`: README.md:245-246 says that when a client disconnects and
`store=true`, the record is persisted as incomplete. The handler creates the
record before it awaits the credentials and the upstream (`handler.rs:91`,
`handler.rs:109`), and the guard exists only once the stream does
(`live.rs:240`). A client that goes away in between leaves a record that stays
`in_progress`; nothing, not even a restart, repairs it.

`persisted`: a refresh replaces the credential and then reads it again to write it to
the file (`token_manager.rs:171`, `:180`). A reload that has read the old file and
comes in between puts the old credential back into memory, and it is the old one
that is written: the token just obtained is nowhere, and the old one may be
revoked. README.md:441 says that the refreshed credential is written back.

`replaced_models`: a discovery that was under way when the credential was replaced
fills the cache that the replacement emptied (`model_catalog.rs:88`). The test
`replacing_credential_invalidates_cached_models` shows the sequential case only.

### Also seen

Where the code and what is said of it differ as well; these are read from the code and its
models, and no run shows them.

* README.md:468-469 says that successful results are cached; the code caches errors as
  well (`model_catalog.rs:87-88`).
* The comment at `upstream/request.rs:231-233` says that every yielded event is observable.
  A text of no characters is yielded (`event_stream.rs:142-149`) and rules out a retry,
  although no handler sends anything for it.
* The comment at `upstream/json.rs:13-15` promises the events of an event stream. The
  search for text and stop reason also visits the arguments of calls (`json.rs:35-37`,
  `:91-98`), so an argument named `content` becomes a text of its own.
* README.md:557 gives the order start, delta, stop. A fragment after the end of its call is
  sent as a delta of a stopped block (`anthropic.rs:235-237`).
* README.md:605 gives every call a stable index. Calls without an id all share the key `""`
  and with it one index (`openai.rs:116`).
* README.md:655-656 says that the item of every call is added and done. A message without
  an id that repeats the name of the open call adds a second item (`live.rs:387`), which
  the accumulator does not know and which is never done.
* README.md:225-227 says that names in namespaces are restored. They are for custom tools
  only (`openai_responses.rs:380-381`, `:417-422`).
* README.md:429 says that `auto` refuses to start with no candidate or several. A database
  of the Kiro CLI without a supported login is an error (`auth/sqlite.rs:72-74`) that also
  refuses a start with one candidate elsewhere (`auth/source.rs:101`).

## Proofs

`tlapm` checks eight modules.

### Responses

`ResponsesTheorems` assumes `StoreAssumption` and `ResponsesAssumption` only (the ranges of
the constants, and for a shutdown `ShutdownAssumption`); its theorems hold for any set of
requests, finite or not, any number of items and crashes and any faults.

No property of `Responses` is inductive by itself: whether a queued transition may
write depends on what else is queued before it and on where its caller stands.
`IInv` therefore adds

* `QueueSound`: every queued command is one that its caller sent and still waits
  for, or that outlived its caller; a queued `Create` finds no row, a queued write
  finds an open record or a deleted one;
* `QueueOrder`: per caller at most one awaited command is queued, and nothing
  but deletes stands before it from the same caller;
* `TaskKnows` and `ClientTracksLog`: what a task may assume at each await, and how
  far its client is behind the log;
* `DeletedStaysAway`.

`InitInvariant` and `NextInvariant` show `IInv` inductive, one lemma per group of
actions; a step of one task keeps the others by `UntouchedSound`, and what a
command may do to a log is the data lemma `AppendEventsExtends`. `InvariantHolds`
is `Spec => []IInv`, and `TypesHold`, `LogMatchesStatusHolds`,
`SequenceContiguousHolds`, `ReplayFaithfulHolds`, `ClientStreamWellFormedHolds`,
`DocumentMatchesStatusHolds` and `AnswerIsStoredHolds` follow. `Implements` is
`Spec => ImplementsRecord`, by a step simulation under `IInv`.

`StorageErrorIsTrueHolds` has the hypothesis that `"harden"` is no fault, and needs it: a
commit that is reported as an error leaves a completed record behind a client that was told
`storage_error`. Its invariant `ErrorsSound` says that
while the answer about an event is awaited, or is an error, the record is open or deleted,
and that once a client was told, the record is not completed or failed and no transition of
the request is queued; what remains is best-effort and leaves it incomplete.

### Shutdown

`ShutdownImplements` is step by step: a task that is dropped is a `Disconnect`, the exit
a `Crash`. It needs `ShutdownAssumption`, that a client of Responses may disconnect
everywhere. All theorems of Responses carry over through it; `ShutdownKeepsReplay` and
`ShutdownKeepsLogs` are two of them. `OrderlyShutdownHolds` needs three more facts than
`IInv`: only requests with `store` have records (`StoreWanted`), a task that returned by
itself has answered or told its client the end (`EndSaid`), and once the server is done
there is no active task, now or later (`MainSound`, with `IdleStays`).

### Credentials

`CredentialTheorems` assumes `FairLockAssumption` and `TokenManagerAssumption`.
`SharedInvariant` (types and single flight) is inductive by itself: only the holder steps inside a refresh, and `HolderStays` says that neither
joining nor leaving takes the lock from it. The other properties need `TokenIInv`,
which adds, until the first reload, what the task in a refresh holds (`CopyCurrent`),
that the endpoint accepts either the answer on its way or what is in memory
(`MemoryLive`), that memory runs ahead of the file only within a refresh or after a
failed write (`FileCurrent`), and that tokens yet to be issued are new
(`NumbersIssued`). One lemma per group of actions shows it kept; a reload and a login
only end the claim (`ReloadedStays`). `ServiceIsTokenManager` carries all of it over
to the composition, and `FetchIsNeededHolds` is by an invariant of the catalog's own.

### Upstream

`UpstreamTheorems` assumes `UpstreamAssumption`: chunks are sequences of messages, and a
JSON body becomes events of which the last is terminal, which `EndsOnce` of `JsonEvents`
checks. Any sets of chunks and bodies and any limit are allowed. `IInv` adds to the types
how often a request was sent at each await (`SendsMatchAttempt`), that all that was seen is
of the attempt under way and that nothing was seen where a retry may start (`SeenSoFar`), and
that `completed` comes from an event that was seen (`CompletionKnown`). `CallDeliversOnce` is
the refinement: a step that yields extends the delivery by one item, and every other step,
the retry included, leaves it alone or closes it.

### Administrators

`OperatorTheorems` assumes `AdminAssumption`: limit and window are not zero. `SessionInv` is
inductive and gives the sessions' theorems. `LoginsLimited` is about counting, and needs
per key (`KeyInv`) that the attempts since the start of the open window are no more than
its count (`InWindow`), and that fewer than `Limit` attempts of the last window are younger
than one window's length when the next starts (`BeforeWindow`): the attempt that opened a
window is always too old. A span of one window's length lies in these two parts
(`CoverSize`), so it has fewer than `2 * Limit`. `LoginsRefusedForCause` is the other
direction: `CauseInv` adds that a window counts no attempt that was not let through
(`CountInv`), so a full window that is still open stands for `Limit` attempts of its key.

### Where the credential comes from

Here `OperatorTheorems` assumes `SourceAssumption`: the shape of configurations, files and
databases, and that `AppConfig::validate` lets no key stand beside tokens. The tokens in
them are numbered up to `Granted`. `SourceInv` adds to the types that the file a refresh
wrote is `Written(c)` of the credential it obtained (`SavedInv`), that a file the gateway may
write holds no token that was rotated away (`RevokedInv`), and that a deployment that has
started once finds its credential again unless its own file is a second one (`SettledInv`).
That `Written` loads as what it was made of is the lemma `WrittenLoads`.

### Interfaces

`InterfaceTheorems` assumes `MarkerAssumption` (markers begin with their only `<`, none is a
prefix of another) and `InterfaceAssumption`: the messages and events are those of
`GenerationEvents`, and the events of a JSON answer end with a reason to stop or an error,
which `AnswerIsDecoded` checks of the decoder. Messages, answers, markers and bounds are
otherwise arbitrary. `InterfaceInv` has one part for each of three handlers.

* `ChatInv`: `tool_indices` maps the ids one to one to the numbers below its size, exactly
  these indexes have been sent (`CallsAreSound`), and where every tool event has an id, one
  that was sent is a call of the accumulator (`AnswerSound`), so the reason at the end is
  the one for calls.
* `MessagesInv`: the blocks that were started are the numbers below `next`, those that were
  stopped are `closed` (`OutSound`); the handler remembers each open block (`BlocksKnown`),
  and at most one of them takes content next (`ContentKnown`). A finished stream is such a
  stream and two events more (`Over`).
* `CompletionInv`: an upstream that has ended has said whether the answer is complete, or
  says so with the last event that is queued (`EndIsSaid`); the accumulator's reason is that
  of the last event with one, its calls have buffers that are complete only with whole
  arguments, and events that say nothing leave nothing (`ResultSound`).

The loop of `close_rest`, like the filter's below, is a recursive function. The library's
induction rules cannot be used, so the lemmas about such loops take a least counterexample
(`NatMin`): that there is such a function, and only one, and what it returns.

### Responses, event by event

`LiveTheorems` has the same assumptions. `LiveInv` says that a stream is, until it ends, a
sound one (`LiveSound`), and afterwards a sound one and one terminal event. `LiveSound`
strengthens `ItemsAreSound` by what the handler knows: the items that were added are the
numbers below `next`; the open text, the open thinking and every call it remembers are
items of their kind that were added, and those that it still may continue are not done.
`ItemsAreSoundHolds` follows. The hard case is the end: `finish` closes the text and the
thinking and then goes through the calls, so what is done after each pass of that loop is
an invariant of its own.

`SnapshotIsCurrentHolds` needs the contents as well: `TextsInv` says that the handler's
text, its thinking and the arguments of each call equal the deltas that were sent of their
item, put together (`Said`), and that the snapshot is that of the present state. The calls
whose arguments are wrapped (custom tools) are in it with what was sent of them, too, but
`SnapshotIsCurrent` leaves them out, as the stored form differs. The snapshot lists one item
for each index, which comes down to joining sequences of one element each
(`FlatSingles`).

### The text filter

`FilterTheorems` assumes `MarkerAssumption` and `ChunkAssumption` (chunks are texts).
`drain` is well defined (`DrainExists`, `DrainIsUnique`). That what was handed on and what
is pending are the text without its markers is not inductive: a marker may be complete only
with the next chunk. `TextInv` says it for every continuation instead: whatever `next` comes,
the markers removed from `textIn \o next` leave `textOut` and what they leave of
`textPending \o next`. One round of `drain` keeps this because a marker has its only `<` at
its start, so two of them never overlap, and none is the beginning of another.

### Requests

For requests, `ConversionTheorems` assumes `InputAssumption` (a bound is a number) only:
protocols, tools, the model's made-up names and the length of the conversation are arbitrary.
`InputInv` says of the messages what their conversion relies on: each call that was shown is in
them once, under the name that was asked for (`ShownAgain`: what a client replays leads back to
it); each result is of another input item and of a call that was shown; and calls stand in
messages of the assistant, results in others. `StoredIsKeptHolds` comes with the step: a message that is
replaced is the last one and not a stored one.

The other three follow from `InputInv` alone, by what `conversation_body` makes of such
messages. `RoundUses` and `RoundResults` say what the structures of an active round are;
`NativeHolds` that the last turn is the active round when it may be one. For `NothingIsLost`
the body is a sequence of pieces, one for each message and kind: a call or a result is in the
piece of its own message, split between text and structures (`PickedFacts`), and in no
other, and joining the pieces counts it once (`FlatOnce`, `CallsOnce`, `ResultsOnce`). The
first result of a call is the one sent (`FirstFacts`), by a least counterexample.

### Frames

For the decoder, `ConversionTheorems` assumes `FrameAssumption`: what is sent are bytes, and
each frame is a sound one of the format (`IsFrame`: lengths, both checksums, headers) that
stands for its message, or a damaged one that can be told from it (`IsDamaged`: impossible
lengths, a broken prelude, or a broken body that is there). The checksum is any function, so
that a damaged frame does not check out is assumed; `IsFrame` and `IsDamaged` say it of the
format, not of `decode_one`. TLC evaluates the assumption for the 25 frames of `conversions`.

`decode_one` looks at no byte behind the frame: it says "more" of every proper beginning of a
sound frame, and its message as soon as the last byte is there (`SoundFrame`). Of what begins
like a damaged frame it says "more" or "bad", never a message (`DamagedFrame`). The loop of
`push` ends because each message leaves less (`RestIsShorter`), so there is such a function and
one only (`PushExists`, `PushIsUnique`). Started at the boundary behind frame j it comes to a
later boundary, with the messages in between, and can decode nothing there (`PushYields`, by a
least counterexample). The invariant `WireInv` says
of the decoder between two pushes that for some k the first k frames, all sound, are decoded
and that the buffer is what has come behind them, of which `decode_one` makes "more".
`NothingHeldBack` follows, and that `finish` judges right: what is left in the buffer is the
beginning of a sound frame, and then the stream ends between no two frames, or of a damaged
one (`BrokenOff`).

### Only model-checked

* `CallsAreWhole` needs that made-up ids differ from each other and from those that the
  upstream sends, which is about the digits of a number (`ToString`).
* `StreamsAreTheAnswer` compares three streams with the accumulator's answer event by event.
  Its parts about order and ends are in the theorems above; that the contents are equal is
  an induction over the data of both sides.
* `AnswerIsDecoded`: the decoder searches trees with RECURSIVE operators, of which the provers
  know nothing.
* The findings, and liveness, which is out of the prover's reach.

## Not modelled

* **Responses.** Opening and validating the database file; the text of messages and
  payloads; corrupt stored history beyond the error it leads to; the `Events` read. A
  client that leaves while the events of one delta are on their way may cost the stored
  response that delta: the refresh of the snapshot is in one step with its events.
* **Credentials.** In `TokenManager`: an API key (never due, never refreshed), a
  configuration without a persistence path or with a read-only source; both are in
  `CredentialSource`, which leaves out which table and key of the CLI's database a login
  is in and blank fields of the metadata. Temporary files left by a crash are ignored by
  the code. The contents of model lists with aliases and the lookup of one model.
* **Upstream.** Request headers, endpoint URLs, regions in host names, previews of
  bodies; the arithmetic of the checksum. Stop reasons keep the classes that the three
  protocols tell apart.
* **Streams.** Ids, timestamps, token counts and keep-alives; two calls without an id that
  look alike in one JSON answer.
* **Requests.** Requests that are refused, which reach nothing; the compression of tool
  schemas; images; `count_tokens`. Clients that repeat the id of a call are not legal in any
  of the three protocols. The text of a turn in the history may be empty.
* **Administrators.** The check of the origin, which changes nothing. `allow_login` reads
  the clock before it takes the lock: both are one step.
* **Startup and configuration.** One sequence that ends at its first error, and a
  configuration that is read once. The background refresh is aborted at shutdown, which is
  the cancelled task of `TokenManager`.
* **Routing, error envelopes, redaction, key generation, the admin page.** Stateless:
  nothing in them depends on an earlier request.
