# Verification of the LLM chat service

TLA+ models of the service in `src/app`: what it promises, model-checked with TLC on small
instances and, for the parts named under "What is proved", proved with TLAPS for every value of the
constants. Line numbers are those of the files under `src/`.

## The system

The service is one asyncio process (FastAPI). `POST /v1/chat` stores a prompt, asks a chain of
LLM providers for an answer and stores the outcome. Concurrency is cooperative: the code between
two awaits is atomic, so one action of a model is what one task does from an await to the next.

| Part | State | Operations | Interacts with | Correct when |
|---|---|---|---|---|
| Chat endpoint `api/v1/chat.py` | none of its own | `chat`, `_validate_model` | repository, cache, guardrail, LLM client | prompt stored before the LLM, reply agrees with the row, every request answered |
| History endpoint `api/v1/chat.py` | none of its own | `GET /v1/conversations/{user_id}` | repository | pages agree with their total, a walk through them misses nothing |
| Repository `repositories/postgres.py` | rows | `create_pending`, `mark_*`, `list_by_user` | database; each operation is a commit, then a refresh | a row is settled at most once |
| Response cache `services/cache.py` | dict of answers with expiry | `get`, `put` | chat endpoint | bounded, fresh, never another key's answer |
| Resilient client `services/resilience.py` | a breaker per provider | `generate`, `_call_with_retry` | providers, metrics | ordered fallback, breakers trip on evidence only, always ends |
| Circuit breaker | failures, opening time | `allow`, `record_success`, `record_failure`, `state` | clock | no call while open |
| Providers `services/providers.py` | models seen truncating | `generate` | HTTP, model selector | bad models reported, sound ones spared, no post wasted twice |
| Model selector `services/model_selector.py` | selection, fetch times, denylist, a lock | `get_model`, `mark_bad`, `refresh_all`, ranking | catalogs over HTTP | one fetch per expiry, denylisted models not picked, the pick is the one promised |
| Rate limiter `core/ratelimit.py` | hits per client | `_check` | ASGI stack | at most N in a window, bounded memory, honest `Retry-After` |
| Middlewares `main.py`, `core/{middleware,security_headers,auth,ratelimit,encoding}.py` | locals of each request | wrapped `receive` and `send` | server, routes | one whole, labelled response, recorded as sent |
| Guardrail `services/guardrail.py` | compiled patterns | `check`, `is_out_of_scope_response` | chat endpoint | (matching text) |
| Answer parser `services/formatting.py` | none | `parse_structured_answer` | chat endpoint | never raises |
| Health, logging, tracing, metrics, config | none or counters | | | |
| Lifespan `main.py` | application state | start, warm up, stop | all of the above | |

Hard behaviours: requests that interleave at awaits over shared breakers, cache, selection,
denylist and the set of truncating models; a late answer after a circuit opened; time passing
between a check and its use; a transaction that commits and is then reported as failed; a crash
between two repository operations; one lock over slow HTTP; containers at their limit; two
statements that see two states of a table; wrappers that replace each other's messages while a body
is still coming in. `PROJECT.json` lists them under `hazards` at their lines, with the properties
that cover each.

## Modules

| Module | Models | Role |
|---|---|---|
| `CircuitBreaker` | `CircuitBreaker` of `resilience.py` | operators on one breaker and a time |
| `ResilientClient` | `ResilientLLMClient.generate` and `_call_with_retry` | extends `CircuitBreaker`; concurrent requests |
| `InteractionLifecycle` | abstract: what the service promises of one interaction | refined by `ChatService` |
| `ChatService` | `chat`, the repository operations, cache and LLM as it uses them | concurrent requests with faults |
| `AnswerCache` | abstract: a cache that may forget and never lies | refined by `ResponseCache` |
| `ResponseCache` | `services/cache.py` | TTL, eviction by insertion order |
| `ModelSelector` | `get_model`, `mark_bad`, `refresh_all` of `model_selector.py` | lock, TTL, denylist |
| `ProviderCalls` | `generate` of `providers.py` | extends `ModelSelector` with its callers |
| `ModelRanking` | catalog parsing and the two heuristics of `model_selector.py` | operators, and catalogs that change |
| `ConversationHistory` | `list_by_user` against the writers of the table | clients that walk the pages |
| `SlidingWindow` | abstract: a window over a client's whole history | refined by `RateLimiter` |
| `RateLimiter` | `RateLimitMiddleware._check` | deques, a table that is cleared |
| `AsgiStack` | the middlewares of `main.py:107-124` around any routes | extends `RateLimiter` |
| `*_proofs` | theorems about the module they are named after; `ProviderCalls_proofs` about `ModelSelector` too | TLAPS |
| `MC*` | instances for TLC (symmetry, catalogs) | extended by the runs |

How they fit. `AsgiStack` runs the limiter it extends: a request that gets that far takes a `Check`
of it, and `StackKeepsLimiter` proves that the stack never touches the limiter otherwise, so its
theorems hold there. `ProviderCalls` does the same with the selector: every step of a provider is
one the selector allows (`CallsAreTheMachine`, and with the fairness of the loop the property
`UsesSelector`). The routes of `AsgiStack` answer,
refuse or raise: what `ChatService` does for `/v1/chat`. `ChatService` uses the client and the
cache through their promises only. The client "answers or raises" (`EveryRequestEnds`, and
`CallRaises`, `unavailable` are the two ways to raise); the cache "gives the last answer put under
the key or nothing" (`ImplementsAnswerCache`), so `ChatService!Expire` may drop any entry at any
moment. A provider call is in `ResilientClient` the set of its possible endings, and in
`ProviderCalls` what happens inside. `ModelSelector` leaves open which eligible model is picked;
`ModelRanking` says which.

### ResilientClient

One action per way an await can end. `WalkOn` is the `for` loop from one await to the next: it
skips every open circuit (setting the gauge and the outcome) and stops at the first provider that
admits the request or past the end of the chain. `CallSucceeds`, `CallTimesOut`, `Retry`,
`CallExhausted`, `CallRateLimited`, `CallRejected` and `CallRaises` are the endings of a call:
lines 184-208, tenacity's retry and sleep (124-135), the two `except` clauses, and any other
exception. `admittedAt` is a history variable; `attempt` and `admittedAt` are reset when a call is
left. Several tasks probing one breaker are simply several requests `calling` at one provider.

### ChatService

`pc` says which await a handler is at: `commit` and `refresh` of the repository operation `op`, or
`asking`. `Accept` (or `Reject`) is the code up to the first await; `BlockSensitive`, `CacheHit`
and `CacheMiss` the code after `create_pending`; `LLMAnswers` and `LLMRaises` the code after
`llm.generate`; `Respond` the code after `mark_*`. `RepositoryRaises` is a failed commit or
refresh: no repository call is inside the handler's `try`, so it always ends in a 500. The constant
`Faults` selects which failures a run allows. The text of an answer is one of three kinds: an
ordinary one, the scope sentinel, and JSON on which `parse_structured_answer` raises.

### ResponseCache

`entry` is the dict, `place` its iteration order (assigning to a key that is present keeps its
place). `PutEvicting` drops the first key of a full dict before it assigns, also when the key is
already there. `last` and `got` are history variables.

### ModelSelector and ProviderCalls

The lock is the sequence of its holder and its waiters: `asyncio.Lock` passes ownership in order,
and a newcomer queues behind a woken waiter. `AskFresh`, `AskLocking` and `AskWaiting` are
`get_model` up to its first await; `WakeFresh` and `WakeFetching` the second check; `FetchEnds` the
end of `_refresh` in either way. A catalog is the set of eligible models of each mode, and the
heuristic's choice any one of them that is not denylisted when the catalog arrives. `Boot` is
`refresh_all`, before any request. `owed` and `endedAt` are history variables.

`ProviderCalls` adds the post each caller waits for and the models a provider has seen cut off by
its cap (`uncapped`, `self._uncapped_models`). `GenerateGiven` is a call with a model of its own;
`GenerateAsks`, `GenerateWakes` and `GenerateFetched` are the three moments at which `get_model` may
return, each of which starts the first post. A post ends in one of six ways (`PostEnds`);
`Truncated` starts the second post in the same step, `Condemns` is `_mark_bad_if_auto`. One module
stands for both provider classes. `Thinking` models are sound but spend any cap on their reasoning.
The `Bare` ones among them leave the content key out of a message that was cut off: the
code looks for that key (221-227) before it looks at why the answer ended (228), so such an answer
is condemned as malformed (`FailsForGood`) and never taken for a truncated one. Bare models are
OpenRouter's: Gemini's provider takes a missing content for an empty one (349-350).

### ModelRanking

`Choice` is the way from a catalog to a model: `Parsed` is `parse_*_catalog`, `Eligible` is
`_eligible`, and `Best` holds the models whose key is extreme in `select_openrouter_model` or
`select_gemini_model`. A list comprehension of the code is the set of what it keeps; the order of
the catalog matters at the end only, where `max` and `min` take the first of equals (`First`). What
the regular expressions read in a name (size, version, flash, lite) is given with the model; prices,
sizes and versions are natural numbers for the code's floats. The catalog changes: a model leaves
it, or two are listed the other way round.

### ConversationHistory

`Begin` gives a row its `created_at` (the transaction's `now()`), `CommitPending` makes it visible,
so rows may appear behind others that are newer. `Count` and `ReadPage` are the two statements of
`list_by_user`; between them anything may be committed. A client asks for the next page until one
is short.

### RateLimiter

`Check` is `_check`: `Clears` and `Kept` the clearing of a full table, `Expires` the `while` loop
over the deque, then `Allow`, `Reject`, or `Raise` for a limit of zero, whose empty bucket is full.
`log` (admissions since the last clear) and `promised` (when a rejected client was told to come back)
are history variables. Time is in ticks, because `Retry-After` is rounded to whole seconds.

### AsgiStack

`Arrive` is everything up to the first await, through all the layers; `Receive` a chunk that passes
`BodyLimit.receive_wrapper` into `Utf8Body`; `RouteSends` is `BodyLimit.send_wrapper`, which puts a
413 in place of the routes' messages; `Send` is `RequestId.send_wrapper` and the server; `Fails` and
`Return` are its `except` and `finally`. `out` holds the messages a coroutine is in the middle of
sending, so other requests run between the start and the body of a response.

## What the runs check

| Run | Instance | Shows |
|---|---|---|
| `chain` | 3 requests, 2 providers, 2 attempts, threshold 2, cooldown 2, clock to 3 | `TrippedAtThreshold`, `NoCallAdmittedWhileOpen`, `OpenOnEvidence`, `GaugeShowsTrips`, `WalkInOrder`, `ProbeFailureReopens`, `EveryRequestEnds` |
| `provider` | 2 callers, 1 provider, 2 modes of which one is capped, 2 models of which one is thinking, TTL 1, clock to 1 | `SoundIsNotDenied`, `WasteOnlyShrinks`, `UsesSelector`, and of the selector `LockIsHeld`, `NoNeedlessFetch`, `NoDenylistedPick`, `SelectionIsKept`, `GetModelReturns` |
| `ranking` | every catalog of 3 out of 12 models, caps of 0, 256 and 1024 tokens, both modes and providers | `MeetsContract`, `ChoiceIsSteady` |
| `chat` | 2 requests, an ordinary and a sensitive prompt, an allowed and a refused model, all faults | `PromptStoredBeforeLLM`, `ReplyAgreesWithRow`, `AnswerMatchesQuestion`, `SensitivePromptStaysHere`, `CachedAnswersWereGiven`, `ImplementsLifecycle`, `EveryRequestIsAnswered` |
| `cache` | 3 keys, 2 answers, 2 entries, TTL 2, clock to 4, 4 puts, symmetric | `WithinCapacity`, `AnswersAreFresh`, `LostOnlyToEviction`, `ImplementsAnswerCache` |
| `history` | 4 rows, 1 walking client, pages of 2, symmetric rows | `PageAsPromised`, `WalkMissesNothing` |
| `rate_limit` | 3 clients, a table of 2, limits of 0 and 2, a window of 3 ticks, 2 ticks to the second, clock to 6, symmetric | `NoBurstBeyondLimit`, `MemoryIsBounded`, `RetryAfterIsEnough`, `ImplementsSlidingWindow` |
| `asgi` | 2 requests of any kind, 2 clients of which one has no key, limits of 0 and 1, bodies of at most 2 units in chunks of 0 to 2, clock to 1 | `OneWholeResponse`, `RecordedIsSent`, `BudgetIsForRoutes`, `TooLongIsRefused`, `ResponsesAreLabelled`, `AnsweredOnceRead` |

Every property has a mutant of the code (the operators commented "Mutant of ...") that TLC finds it
to refute. Type invariants are not in the runs: they are theorems (`TypeCorrect`,
`StackTypeCorrect`, `CallTypeCorrect`, `HistoryTypeCorrect`, `RankingTypeCorrect`).

The bounds. Three requests are two failures that open a circuit of threshold two, and one more call
in flight that answers or fails late, retries into an open circuit, or probes; several probes at once
are left to the theorems. The clock to 3 passes a cooldown of 2 and leaves a tick after it, for one
that a late failure has moved. Two providers are the longest chain `build_llm_client` makes. Two chat
requests are what it takes to share a cache entry, to be one a fault hits and one that goes on, and
to use the same prompt with different models. Three keys in a cache of two are an eviction, a
renewal and a third key; the clock to 4 expires entries put at different times. Two callers are a
holder and a waiter of the selector's lock, and two capped posts in flight of which one learns what
the other has already paid for; two providers that share the lock are left to the theorems. An
ordinary model may answer, be cut off and fail in every way a bare one may, so the passing run has
none; `cut_off_blamed` has one. One tick expires a selection, so that a second
fetch follows and has to respect the denylist. The twelve models differ one
by one where a heuristic looks: text, price, context, output, stability, size, version, kind; three
at a time are a winner, a rival and one that leaves. Four rows are two pages, a row committed
between two statements and one committed late. Three clients and a table of two clear the table;
a window of three ticks and seconds of two make the rounding of `Retry-After` matter, and twice the
window lets every stamp of a full deque expire. Two requests interleave their messages and compete
for a limit of one; chunks of up to two units into a body of two end it, or pass the limit, at its
second chunk or later. In `asgi` a table of two is never cleared: that is the matter of `rate_limit`.
`MaxTime` and `MaxPuts` only bound the exploration; nothing else depends on them, and the proofs
hold for any `MaxTime`. `CHECK_DEADLOCK FALSE` is said where things come to an end: requests made
once each, rows all stored, a catalog that is empty, a clock at its bound with nothing left to do.

Fairness. `ResilientClient`: a call in flight ends (weak fairness on `CallEnds`), because the HTTP
client has a timeout (`llm_timeout_seconds`), and a backoff sleep ends. `ChatService`: a started
handler takes its next step (`Proceed`). For the call of the LLM that is the client's timeouts. For
the database the code bounds the wait for a connection only (`pool_timeout`, `database.py:22`), not
a statement: that a commit ends is assumed of the server and of the connection to it, which answer
or break. `ModelSelector` and `ProviderCalls`: a fetch and a post end (both have timeouts) and the
event loop runs a task that was woken. `AsgiStack`: the loop runs a coroutine that can run
and the routes answer, which is what `EveryRequestIsAnswered` says of the chat. Nothing makes
clients send requests or go on with their bodies, the clock advance or faults occur.

## Where documentation and code differ

Four are runs that TLC refutes; `PROJECT.json` quotes the lines under `findings`.

- `answered_settled`: `parse_structured_answer` iterates `dados` and `fontes` outside its
  `try`. With a number there it raises, the client gets a 500, the row stays `pending`, and the
  answer, cached already, does the same to every identical prompt until it expires.
- `mark_bad_refresh`: a `mark_bad` that comes while a catalog fetch for the provider is in
  flight is undone if that fetch fails, because the failure stamps the selection as fresh.
- `rejected_handled`: a chunked body that grows too long after a whole JSON document is carried out
  by the routes and answered with 413 all the same.
- `cut_off_blamed`: `providers.py:184-186` (OpenRouter) promises that a model is not blamed for what
  the cap did to its answer. A cut answer whose message has no content key is taken for a malformed
  one before its `finish_reason` is looked at: the model is denylisted without a second post.

Others were met while reading the code; the models do what the code does, and no run is spent on
them:

- A half-open circuit admits every request, not one probe (`resilience.py:8`, `config.py:128`).
- The gauge stays at "open" after the cooldown until somebody calls (`docs/observability.md:63`
  reads it as the state of the circuit).
- `config.py:123` lists 429 among the retried errors; the client never retries it.
- `models/interaction.py:28` says that a blocked row never reached the LLM; those of the second
  guardrail layer have.
- A denylisted model is given again while nothing else can be selected
  (`docs/architecture/04_resiliencia.md:197`: it leaves the automatic selection and affects at most
  one request).
- The 500 that `RequestId` itself sends is outside of `SecurityHeaders` and lacks its headers
  (`security_headers.py:3-5`); `ResponsesAreLabelled` excepts it.
- A part of a provider's body that is not an object raises `AttributeError`, which the `except` of
  `providers.py:351` does not name (`ProviderCalls!Escapes`, `ResilientClient!CallRaises`).
- A rate limit of 0 raises `IndexError` instead of turning clients away (`RateLimiter!Raise`).
- A client of the history that stops when `offset + limit` reaches the total, instead of at a short
  page, can miss a row stored between the two statements.

## What is proved

`ResilientClient_proofs` (any set of requests, any length of chain, any retries, threshold and
cooldown, negative ones included), `ChatService_proofs` (any requests, prompts, modes, models,
allowlist and any set of faults), `ProviderCalls_proofs` (any callers, providers, modes, models and
refresh interval, any of the modes capped, any of the models thinking, any of those bare), `ModelRanking_proofs` (any
catalogs, of any length), `ConversationHistory_proofs` (any rows, infinitely many included, any
walkers, any size of page), `ResponseCache_proofs` (any finite set of keys, any capacity of at least
one, any TTL), `RateLimiter_proofs` (any clients, limits, window and size of table, limit 0
included) and `AsgiStack_proofs` (any requests, clients with and without keys, limits and body
size). The assumptions are those named in the modules (`BreakerAssumption`, `ChainAssumption`,
`ChatAssumption`, `SelectorAssumption`, `CallAssumption`, `RankingAssumption`, `HistoryAssumption`,
`CacheAssumption`, `LimiterAssumption`, `StackAssumption`); `Settings` bounds nothing, and neither
do they, except for the capacities of the cache and of the limiter's table, which are constants of
the code, and for a window, a second and a page that are not empty. TLC evaluates them in the runs
of their modules. Two theorems have a hypothesis of their own, named with them below:
`BudgetForRoutes` (`Roomy`) and `SelectionIsSteady` (`NamesOnce`). The instances of the runs satisfy
both.

- *Client.* `TypeCorrect`, `TrippedExactlyAtThreshold`, `OpenCircuitAdmitsNoCall`,
  `GaugeFollowsTrips`, `ChainIsWalkedInOrder`, `FailedProbeReopens`. The inductive invariant `IInv`
  adds to the properties that no time stamp (of an opening, of an admission) is in the future and
  that where a request is agrees with its place in the chain. `OpenCircuitAdmitsNoCall` needs the
  former: a failure moves the opening time to now, and only because every admission is at or before
  now do the calls in flight stay on the right side of it. `CircuitOpensOnEvidence` counts: every
  failure a breaker remembers is that of another request, one that has given the provider up
  (`Lost`), so that a circuit is only open when there are as many of those as the threshold.
  `RecordingIsSound` and `StateOfBreaker` say what the breaker's operators preserve, and
  `WalkOnKeepsIInv` is the loop, proved once and cited by the four actions that walk on.
- *Chat.* `TypeCorrect`, `PromptIsStoredBeforeLLM`, `RepliesAgreeWithRows`, `AnswersMatchQuestions`,
  `SensitivePromptsStayHere`, `CacheHoldsGivenAnswers`, and `ChatImplementsLifecycle`: every step of
  the handler is a step of `InteractionLifecycle` or a stutter. `IInv` ties `pc`, `op` and the
  result a handler holds to the row (what is committed, what is about to be) and each cache entry to
  its own key and to a prompt that may be sent. `CacheHoldsGivenAnswers` is inductive on top of it.
- *Selector.* `TypeCorrect`, `FetchesAreSerialised`, `CatalogIsNotHammered`,
  `DenylistedIsNotPicked`, `SelectionIsNeverLost`. `LockIsHeld` is inductive with the type invariant
  alone: a release hands the lock to the next waiter and loses nobody (`ReleaseKeepsLock`).
  `CatalogIsNotHammered` also needs `StampOK`: a time stamp is that of the last fetch, and one that
  is missing is owed a fetch or has one on its way. Without it a selection could look expired, and
  be fetched, for no reason.
- *Providers.* `CallTypeCorrect`, `SoundModelsAreKept`, `NoNewWaste` and `CallsAreTheMachine`, which
  says that the providers move the selector only as it allows and so carries its theorems over to
  them (`CallsFetchInTurn`, `CallsDoNotHammer`, `CallsPickNoDenylisted`, `CallsKeepSelection`).
  `SoundModelsAreKept` is about the thinking models whose cut answers have a content, be it empty or
  null (of the bare ones it is false: `cut_off_blamed`). It needs `Honest`: a post to a model the selector gave out belongs to a request
  that still uses that model at that provider, or the model that is denylisted when the post ends
  would be another than the one that failed.
- *Ranking.* `RankingTypeCorrect`, `ContractIsMet`, `SelectionIsSteady`. That something is chosen
  whenever something fits rests on `Maximal`: a finite set has an element that a strict order puts
  below no other, here for each of the four keys the heuristics rank by. That the choice is steady
  rests on `BestOfFewer`: each filter with its fall-back and each key, taken of fewer models, keeps
  what was best and lets nothing new in; with a lexicographic key that holds because what is not
  below the best is equal to it. `SelectionIsSteady` assumes `NamesOnce`, that a catalog lists a
  name once: with `<<c, d, c>>`, where c and d are equal, the first c may leave and d be chosen with
  c still offered.
- *History.* `HistoryTypeCorrect`, `PagesKeepTheirPromise`, `WalksMissNothing`. `Place` numbers the
  listed rows by how many are newer: n rows have the places 0 to n-1, one each, which is what LIMIT
  and OFFSET count. A row that is stored only ever moves to a later place, and one stored before a
  walk began that the walk has not shown is still at or behind its offset (`Ahead`, `WalkOK`). Only
  the rows begun have to be finitely many, and they always are (`Numbered`).
- *Cache.* `TypeCorrect`, `CapacityIsKept`, `GivenAnswersAreFresh`, `OnlyTheFirstIsEvicted`, and
  `ImplementsCache`: the dict implements `AnswerCache`. `IInv` adds that what is stored under a key
  is the last answer put there and expires a TTL after that put. `CapacityIsKept` counts: an
  eviction takes one key out before the assignment brings at most one in.
- *Limiter.* `TypeCorrect`, `NoBurst`, `BoundedMemory`, `RetryAfterSuffices`, and `Implementation`:
  the deques implement `SlidingWindow`. The inductive invariant says that a deque is the end of its
  client's history, that what it has lost is out of the window, that the history is sorted with
  `limit` admissions apart by at least a window, that a client without a deque has no history, and
  that one who holds a promise still has a full deque whose first stamp leaves the window in time.
  The deque alone would not do: `NoBurstBeyondLimit` is about stamps it has already dropped.
- *Stack.* `StackTypeCorrect`, `OneResponse`, `RecordedStatus`, `TooLongRefused`,
  `LabelledResponses`, by `StackInvariance`. The invariant is that of one request (`ResponseOK`):
  nothing is sent before the routes or a middleware answer; from then on what is on the wire and
  what is still to be sent make up a response, whole or cut by an exception, whose start suits the
  request (its headers, 413 or not); and `RequestId` has noted the status of what went out.
  `StepOfOne` reduces every step to the request that takes it. `TooLongRefused` rests on a second
  invariant, `DeclaredInv` (`DeclaredRefused`): a request whose body is declared too long has not
  entered the routes and is sent its refusal and nothing else. A request that arrives cannot have
  entered before, which is part of the invariant of `BudgetCounts`. `StackKeepsLimiter` and
  `NoBurstBehindStack` carry the limiter's theorems over to the stack. `BudgetCounts` counts, with
  the limiter's invariant and the stack's: the admissions in the log of a client are never more than
  the requests of that client that reached routes that are not public, clears or no clears, and a
  client without a key has none. They are exactly as many (`BudgetForRoutes`) if `Roomy`: the table
  has room for every client with a key, for a full one is cleared and its clients start again.

Every safety property the passing runs check is a theorem. Only model-checked are the liveness
properties (`EveryRequestEnds`, `EveryRequestIsAnswered`, `GetModelReturns`, `AnsweredOnceRead`) and
the fairness in `UsesSelector`: fairness is out of the prover's reach, and so is `ENABLED`, on which
it rests.

## Not modelled, and why

Health checks hold no state between steps, and the configuration is read once: its values are the
constants. Text matching (guardrail patterns, sentinel, what is read in a model's name), JSON
cleaning, log formats, the conversion of a body to UTF-8 and token counts are data no property here
depends on; where the control depends on them they are predicates (`SensitivePrompts`,
`ParseRaises`, the text "sentinel", the fields of `ModelRanking!Model`). CORS is in the stack only
if origins are configured and adds headers. Cancellation of a handler by a client that disconnects
is not modelled, nor is shutdown, which closes the HTTP client without waiting; the warm-up call is
one more request of `ResilientClient`. The in-memory repository is the PostgreSQL one without
faults. `ConversationHistory` assumes that no two rows have the same `created_at`: with ties the
order of the pages is not defined, and a walk may miss a row.

## Plan

1. Done, with proofs: `CircuitBreaker`, `ResilientClient`; `InteractionLifecycle`, `ChatService`;
   `AnswerCache`, `ResponseCache`; `ModelSelector`, `ProviderCalls`, `ModelRanking`;
   `ConversationHistory`; `SlidingWindow`, `RateLimiter`; `AsgiStack`.
2. Next, proofs: what holds of the budget when the table is cleared (`BudgetForRoutes` without
   `Roomy`, per stretch between two clears); the steps of `LLMAnswers` and `LLMRaises` tied to the
   endings of `ResilientClient`, and `ProviderCalls` to its calls, as step-wise refinements.
