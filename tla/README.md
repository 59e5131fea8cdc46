# Synora Gateway: specifications and proofs

TLA+ models of the gateway under `src/synora-gateway`, the TLC configurations
that check them on small instances, and TLAPS proofs of theorems that hold for
every instance. The models are translated from the Go code. Where README, the
technical plan (`src/doc/Synora 技术方案 1.0.md`), a comment or a configuration
says something else, section 3 names the difference.

## 1. The system

One Go process serves chat requests over HTTP. A request passes the
authentication middleware, a chat handler, the dispatcher, the stream forwarder,
the wallet, the risk engine and the audit log, in this order. PostgreSQL (keys,
channels, wallets), Redis (caches, spend metrics), ClickHouse (`call_logs`) and
the upstream providers are external.

| Component | State | Operations | Talks to |
|---|---|---|---|
| Health manager, `internal/router/strategy.go` | per channel: window of 10 outcomes, score, state, failure count, time of the last failure | `UpdateScore`, `GetBestChannel` | called by the dispatcher from every request goroutine |
| Channel service, `internal/router/channel_service.go` | model → channels, filled once at start-up | `LoadAllChannels`, `GetChannelsForModel`, `GetAllModelsStatus` | shares `*Channel` with the health manager |
| Dispatcher, `internal/upstream/dispatcher.go` | per call: tried channels, attempt; HTTP clients per proxy | `Do`, `executeRequest` | health manager, adapters, upstream |
| Stream forwarder, `internal/upstream/stream.go` | per call: text so far | `Forward`, `ProxyResponse` | upstream body, client, adapters |
| Chat handlers, `internal/api/v1_chat.go` | per call: tokens, audit entry | three handlers of the same shape, `deductAndRecord` | all of the others |
| Wallet, `internal/billing/wallet.go` | `wallets`, `wallet_transactions`, Redis `wallet:balance:*` | `CheckBalance`, `DeductBalance`, `GetModelPrice` | middleware, handlers |
| Stripe webhook, `internal/api/v1_billing.go` | the same tables | `Webhook` | wallet rows |
| Auth middleware, `internal/api/middleware/auth.go` | Redis `auth:key:*` | one handler | risk engine, wallet |
| Risk engine, `internal/risk/engine.go` | Redis metrics, `api_keys.status` | `RecordMetric`, `GetMetrics`, `EvaluateRules`, scanner every 30 s | middleware, handlers |
| Audit log, `internal/audit/logger.go` | channel of 1000 entries | `Log`, worker | handlers, ClickHouse |
| Adapters and factory, `internal/adapter` | none | `ToUnifiedRequest`, `ToRequest`, `FromResponse`, `ConvertStreamChunk`, `IsStreamEnd`, `GetAdapter` | dispatcher, forwarder, handlers |
| Tokenizer, `internal/billing/tokenizer.go` | the encodings it has fetched | `CountUnifiedMessagesTokens`, `CountTokens` | handlers, a download |
| Public status, `internal/api/v1_status.go` | none | `GetStatus` | channel service |
| Start-up, `cmd/server/main.go`, `internal/storage` | connections | `main`, `InitDB`, `InitRedis`, `InitClickHouse` | everything |

What is hard about it:

- *Shared health.* Every request scans the channels one lock at a time and
  reports on one of them up to a minute later. Scans, reports of other requests
  and late answers interleave freely.
- *Failover.* One loop shares retries, unknown providers, timeouts, cancelled
  contexts and an exhausted list.
- *Money.* The balance is checked against a cache before the call and charged in
  a transaction after it; recharges, concurrent charges, late cache fills, lost
  answers and crashes come in between.
- *Streams.* The answer is delivered while it is counted, and the stream may
  stop at every point. A chunk is counted before it is flushed, and no write has a
  deadline.
- *Limits.* Spend is checked long before it is recorded; the scanner sees it
  every half minute; an authentication is cached for five minutes.
- *Audit.* A bounded channel that never blocks, one worker, no retry.
- *Start and restart.* Databases may be away, the channels are read row by row,
  health is in memory only, and the status page looks at channels one at a time.
- *Payments.* Stripe delivers an event until it is acknowledged.
- *Protocols.* Three of them meet in pairs; a prompt is counted once and converted
  again for every attempt.

What makes the components correct is stated by the properties below; the hazards
behind them are listed, line by line, in `PROJECT.json`.

## 2. Modules

| Module | Models | Notes |
|---|---|---|
| `HealthManager` | `UpdateScore` and the fields of `Channel` | a report is one step: it runs under the channel's write lock |
| `Failover` | what `Do` promises a handler | abstract |
| `Dispatcher` | `GetBestChannel` channel by channel and `Do` | extends `HealthManager`; implements `Failover` |
| `Account` | atomic charges and credits | abstract |
| `Wallet` | `CheckBalance`, `DeductBalance`, webhook, one step per round trip | implements `Account` |
| `Billing` | deliveries of Stripe events to the webhook | extends `Wallet` |
| `ChatHandler` | one call from dispatch to audit entry, forwarding included | details of the other modules are one step here |
| `Gateway` | a handler with its dispatcher | composes `Dispatcher` and `ChatHandler`; implements `ChatHandler` |
| `Protocols` | conversions, token count, bodies of all attempts, billed prompt | |
| `Server` | start-up, `LoadAllChannels`, `GetAllModelsStatus`, `GetStatus`, crash and restart | extends `HealthManager` |
| `RiskControl` | middleware's key check, metrics, scanner | |
| `AuditLog` | `LogDispatcher` and its worker | |
| `HealthProofs`, `DispatcherProofs`, `WalletProofs`, `ChatHandlerProofs`, `SequenceProofs`, `RiskControlProofs`, `ServerProofs`, `GatewayProofs` | theorems | each extends the module it is about; `WalletProofs` is about `Billing` too, `SequenceProofs` about `Protocols` and `AuditLog`, whose proofs share the lemmas on sequences |
| `MC*` | small instances and bounds | each extends the module it instantiates |

How state and actions correspond to the code:

- **HealthManager.** `window` is `successes` and `latencies`; a latency is kept
  as the band the score looks at (up to 5 s, more, more than 10 s).
  `lastFailureTime` is kept as `quiet`, whether five minutes have gone by. The
  float score is computed exactly, in n-ths of a point, and truncated like the
  code's.
- **Dispatcher.** `Begin` is the handler's call of `Do`. `Scan` reads one channel
  under its read lock. `NoChannel`, `NoAdapter` and `Send` are the three ways a
  scan goes on. `Return` is everything from `executeRequest` to the failover
  decision; `Answer`, `Timeout` and `Aborted` are the ways it comes about.
  `seen` is a history of the scan, read by properties only. `Called`, `OutAt` and
  `Verdict` are what `Failover` sees of a call.
- **Wallet.** Balances are in units of the `DECIMAL(15,4)` columns, charges in
  ticks, `TicksPerUnit` to a unit, because a charge is a float64. `Lock` is
  `SELECT ... FOR UPDATE` with the check behind it, `CommitSQL` is UPDATE, INSERT
  and COMMIT, `Invalidate` the DEL. `Abandon` ends a request anywhere (an error,
  a cancelled context, a crash) and rolls an open transaction back;
  `CommitUnreported` is a commit whose answer was lost. `ledger` and `charges`
  sum up and count the rows of `wallet_transactions`. The 5 s of a cached balance
  begin with its SET, which makes it `young`; `Age` is the passing of the first half,
  `Expire` of the second, and a GET (`Hit`) does not begin them anew.
- **Billing.** `Deliver` is `Wallet`'s `Recharge` for one payment, answered with a
  200 that may get lost; `DeliveryFails` is every other way through the webhook,
  rolled back and answered with an error. An event that was not acknowledged is
  delivered again.
- **ChatHandler.** `faulty` is chosen for each call, `engine` once: the process has a
  risk engine or it has none, and then no metric is recorded. Tokens are counted in
  chunks of text. `ForwardLine` is one iteration of `c.Stream`: read, convert, write
  to the buffer, count, test for the end, flush; the flush may fail, which nobody
  looks at, and `delivered` holds only what was flushed. `WriteBlocks` is a write,
  streamed or not, whose client keeps its connection and does not read: the call waits
  at "blocked" until the write goes through or fails. `BodyEnds` is EOF and every
  read error, which the code does not tell apart. A write or a flush that fails
  cancels the request's context, as `net/http` does. `CountTokens` counts the text of a
  stream, or gets 0 if its encoding cannot be had. In `Proxy`, `metered` is the usage
  the answer reports, any of `Usages`; it has nothing to do with the text. In `Deduct` the
  answer of the commit is lost with the database (`faulty`) or because the client
  leaves while it is under way (`gone'`).
- **Gateway.** `stage` and `left` are `pc` and `gone` of `ChatHandler`, which is
  instantiated with them. `Working` and `Waiting` are steps of the dispatcher;
  the one that ends `Do` is `Answered` or `Unavailable` of the handler at the same
  time (`Returned`). `Proceeds` is what the handler does by itself. `named` is `logEntry.ChannelID`, `asked` a history.
- **Protocols.** A text is its number of tokens. `ToUnified` and `ToRequest` are the
  two halves of a conversion; `Anthropic`'s system prompt is a field of its body.
  `Count` and `CountFails` are `CountUnifiedMessagesTokens` with the tokenizer's
  encodings there, fetched now, or not to be had. The loops over messages and parts
  are folds (`Fold`, with `Total`, `Kept` and `System`), a recursive function each:
  the code's loop up to its n-th element.
- **Server.** `phase` is where `main` is. `ReadChannel` and `ReadMapping` are a row
  each, `ChannelsEnd` and `MappingsEnd` are `rows.Next` returning false, at the end
  or before it: `rows.Err` is not read, and `cut` remembers that.
  The end of the load leads to "router", where gin, which is external, takes routes and
  port (`Run`) or ends the process (`RunFails`: a panic at a route, or the error of
  `r.Run`, which is fatal). `ReadState` is one model of one row of `GetAllModelsStatus`, under the channel's
  read lock. `ever` and `steady` are histories of the page being built.
- **RiskControl.** An `outage` of PostgreSQL and Redis is on from the start, or not;
  `Recover` ends it. Time advances in half minutes, the scanner's period. The two
  reads of `GetMetrics` are one step. A round of the scanner is assumed to be
  shorter than its period.
- **AuditLog.** `offered` and `lost` are histories. `Crash` empties channel and
  worker; an INSERT under way took effect or did not.

## 3. Runs

| Run | Instance | Shows |
|---|---|---|
| `health` | one busy channel and a disabled one, window 5, three latency bands | `ConsecutiveFailures`, `OpenNeedsEvidence`, `FastSuccessNeverHurts` |
| `dispatch` | two requests of two tiers, four channels of which one is disabled and one has no adapter, window 1 | `SelectsBest`, `OutOfBounds`, `BreakerContains` |
| `call` | one handler, four channels of which one is disabled and one has no adapter | handler and dispatcher implement `ChatHandler` with its fairness (`HandlerPromise`), Dispatcher implements `Failover` (`FailoverPromise`), its health steps are those of `HealthManager` (`HealthSpec`); `EntryNamesAnswerer` |
| `wallet` | two callers of one wallet, a payment and one for nobody, redelivered events, faults, two ticks per unit, with fairness | `NonNegative`, `NoLostUpdate`, `ReconciledWithin`, `AcknowledgedIsCredited`, Wallet implements `Account` (`AtomicAccount`), `SettlesOnBalance`, `RequestsFinish` |
| `chat` | one call after another, three adapters, at most three chunks, usages apart from the text, with and without a risk engine, faults | `ChargedIsDelivered`, `EntryTellsCharge`, `SpendReachesLimits`, `EveryCallIsLogged` |
| `risk` | two requests with one key, costs 1 and 2, two rules, behaviours without an outage and with one that may end | `OvershootBounded`, `DailyOverspendIsPaused`, `PauseTakesEffect` |
| `server` | two models, two channels, one crash | `AllOrNothing`, `StatusIsRegular`, `ServesUnlessRefused` |
| `protocols` | up to three messages, every pair of protocols, two attempts | `ConversationKept`, `PromptIsBilled` |
| `audit` | four calls, channel of two, faults and restarts | `StoredInOrder`, `ChargedAccounted`, `CatchesUp` |

Each of these ends without an error and, but for `call`, checks the type invariant
of its module; those of the two modules in `call` are checked by `dispatch` and
`chat`.

### What the documents say and the code does not do

| Run | Said | Found |
|---|---|---|
| `probe` | an open circuit is half-open after 30 s (plan, l. 236) | nothing tries an open circuit; only a call already in flight, or a restart, closes it |
| `next_best` | a failure switches to the next best channel (plan, l. 247) | while the failed channel still ranks first, the loop ends |
| `wallet_cache` | the DEL keeps the cache consistent (`wallet.go:133`) | a late fill puts the old balance back |

These three need several steps to come about. Others are visible in the code at
one place; the models follow the code and no run is spent on them.

Dispatch and streams:

- No write to a client has a deadline (`main.go:117` sets no `WriteTimeout`): a client
  that keeps its connection and stops reading holds its call, which is neither charged
  nor logged as long as it does (`stream.go:57` and `103`). `EveryCallIsLogged` names
  this exception, and the download of an encoding as the other.
- If the last attempt is answered with a 5xx or 429, that answer is passed on, and
  its prompt is billed (`dispatcher.go:113`; plan, l. 253: 503).
- A client that leaves counts as a failure of its channel (`dispatcher.go:94`;
  plan, l. 258: user faults are to be told from channel faults).
- A broken stream ends like a complete one, before its first token too
  (`stream.go:42`; plan, l. 251 and 252: code 599, another channel).
- The text of Anthropic streams is not counted: the counter reads OpenAI's format
  and the adapter passes Anthropic's on (`stream.go:62`, `anthropic.go:94`; README,
  l. 62: all output is counted).
- Answers go back in the provider's format, whatever protocol the client spoke.
- The end of a stream is looked for anywhere in a line, so text that mentions it
  ends the stream (`anthropic.go:98`, `gemini.go:148`).
- A proxy URL that cannot be parsed means no proxy (`dispatcher.go:46`).

Money, limits and the trail:

- A redelivered Stripe event is credited again: no event id is kept
  (`v1_billing.go:76`). `AtomicAccount` shows that each credit is whole, not that
  there is only one.
- Calls that are refused before the dispatch (400, 402, 404) leave no audit entry.
- An uncovered charge is dropped and the balance stays positive
  (`wallet.go:106`; plan, l. 334: a negative balance is refused next time).
- Balance and ledger are rounded separately (`wallet.go:111`). How far they can
  drift apart is `ReconciledWithin`.
- A burst that ends between two scans is not seen by the scanner, and a rule's
  action is ignored: a `rate_limit` rule pauses keys (`engine.go:172`,
  `risk_rules.yaml:12`).
- A full audit channel drops entries (`logger.go:55`; plan, l. 30: every call can
  be traced).
- An answer that is not streamed is charged with the usage its provider reports, which
  is never compared with the text (`v1_chat.go:371`), and before it is flushed. So
  `ChargedIsDelivered` speaks of streams only.
- The charge runs under the request's context: a client that leaves during its COMMIT
  may be charged and leave an entry with a "deduct error" (`wallet.go:129`,
  `v1_chat.go:60`). `EntryTellsCharge` allows that, and nothing else of the kind.
- A gateway that came up without its rules records no spend (`v1_chat.go:65`).
- A stream whose client has left is not charged, since pricing uses the
  cancelled context (`v1_chat.go:46`; plan, l. 333).
- A prompt that could not be counted is billed for an answer that reports its usage,
  and is free for a stream.
- Earlier system prompts are counted but not sent to Anthropic channels.

Conversions (`internal/adapter`; plan, l. 197: nothing is swallowed silently):

- Options without a field on the way are dropped: `stop` from OpenAI to OpenAI too
  (plan, l. 191: passed through), `temperature` and `top_p` for Anthropic, all of
  them for Gemini.
- Of several system prompts Anthropic gets the last one; of several parts of a Gemini
  content only the first is kept, and an OpenAI content of several parts is empty.
- A Gemini request does not tell whether it is a stream; a Gemini content without
  a role keeps none; `max_tokens` 0 is sent to Anthropic as it is.

Start-up and status:

- An error while the channels are loaded is logged only: the gateway serves 404s
  until it is restarted (`main.go:66`). A connection lost between two rows is not
  noticed, and what was read by then is served (`channel_service.go:85`).
- `main.go:103` registers a route with two parameters in one path segment; gin v1.12.0
  panics at such a route before it listens, and the error of `r.Run` is fatal
  (`main.go:117`). gin is external to the models: `RunFails` is this outcome, and all
  that is said of a process that serves is said of a build whose router takes the
  routes.
- Health is never written back: a restart closes every circuit and forgets every
  score.
- `v1_status.go:22` speaks of at least one operational model; one red model makes
  the overall status degraded.
- The tokenizer's first download runs under its mutex and without a timeout.
- The image has no `deploy/risk_rules.yaml`, so the gateway built by the Dockerfile
  runs without a risk engine; compose sets `CLICKHOUSE_URL` and the code reads
  `CLICKHOUSE_ADDR`.

### Bounds, and why they are enough

- `WindowSize` is 10 in the code. 5 shows every pattern the score and the
  breaker tell apart: three failures in a row, trimming, all three latency bands.
  2 and 1 are enough where the score is only an input. The theorems hold for
  every size.
- `MaxFailures` bounds the failure counter of `health`; nothing depends on its
  value beyond three and the window size.
- `dispatch` follows two requests: one more only adds to `BreakerContains`, whose
  bound names their number. There a client leaves only while its request is in
  flight, and is followed until that attempt is reported (`ClientsStay`); `call` has
  no such bound. One handler is enough
  there: a call ends by its own steps, its timeout and its retries, whatever the
  others do to the scores; the calls before it leave every health behind that two
  samples can make.
- `call` has `MaxText` chunks of text at most (one): a second one adds nothing to
  where `Do` ends and the stream begins.
- Wallets do not interact, so one wallet is enough, with two callers. `MaxCharges`
  and `MaxCredits` are two: what goes wrong between transactions takes two.
  `Opening` is 1, so that a charge may not be covered. Two ticks per unit make a
  charge that rounds either way. One payment has a payer, the other an id nobody
  has.
- `MaxLines` bounds the chunks of a stream, delivered and metered; three allow a stop
  before, between and after them. `Usages` are the token counts an answer may report, 0
  included, whatever its prompt and its text.
- `EngineModes` makes `chat` hold the behaviours of a process with a risk engine and of
  one without; `call` has the engine, `Usages` of one and no faults, since Do looks at
  none of them.
- `Outages` makes `risk` hold the behaviours that begin in an outage and those
  without one. `MaxSpend` bounds the metrics in the former; in the latter the inline
  check does, and `OvershootBounded` says how far. `FaultModes` does the same for
  each call of `chat`. `CacheTTL` is 10 in the code and 2 here: an
  entry only has to outlive a tick.
- The audit channel holds two entries against four calls, so that it overflows
  while the worker is busy.

- `server` has one crash (`MaxCrashes`), a window of one sample and one counted
  failure (`MaxFailures`) per channel: a start knows nothing of the one before, and
  the page reads a state, not how it came about. Two channels, one of them shared by
  both models, make every mix of colours.
- `protocols` has conversations of at most `MaxMessages` (three) messages whose
  texts are empty, short, or in two parts: two system prompts and a turn, or two
  turns around one. `MaxAttempts` is two, for every pair of providers in either
  order; `MaxRetries` + 1 is three in the code, and no conversion looks back further
  than the request.

Deadlock is checked in every run.

### Fairness

Goroutines that can run do run: the steps a request takes by itself, the worker
of the audit log and the scanner are weakly fair. A call to an upstream ends
because the HTTP client has a timeout of 60 s, which covers the body as well; no
upstream is assumed to answer. That timeout runs on while a stream waits for its
client, and the next read after it fails, so the end of the body is strongly fair
(`BodyEnds`; `Broken` of `Gateway`). PostgreSQL queues the waiters for a row lock, so
a waiter is not passed over for ever (strong fairness of `Acquire`). Time passes, and
keys expire when theirs is over (`Age`, `Expire`). A container that ended is started
again (`restart: always` in `deploy/docker-compose.yml`), and PostgreSQL and Redis, which
`main` cannot do without, are not away at every one of infinitely many attempts (strong
fairness of `InitDB` and `InitRedis`).

Nothing is assumed of failing databases or of the arrival of requests, except in
`probe`, where requests keep arriving. Nothing is assumed of clients: a write to one
that does not read need never return (`Handle` is fair only outside "blocked"). Nor is
the download of an encoding assumed to end (`CountTokens` is fair only where there is no
text to count), or gin ever to take routes and port (`Run` and `RunFails` are fair
together, not each).

## 4. Proofs

Every invariant the runs check is a theorem, for every value of the constants; so are
the one action property, the three refinements (`HealthSpec`, `FailoverPromise`,
`AtomicAccount`) and the safety part of the fourth (`HandlerPromise`). Each proof
module begins with its inductive invariant, or with the lemmas it needs, and each
invariant was checked by TLC on the instance of its run before it was proved.

| Module | Inductive invariant | Proved |
|---|---|---|
| `HealthProofs` | `HInv` | `HealthTypeOK`, `ConsecutiveFailures`, `OpenNeedsEvidence`, `FastSuccessNeverHurts` |
| `DispatcherProofs` | `IInv` | `TypeOK`, `SelectsBest`, `OutOfBounds`, `BreakerContains`, `HealthSpec`, `FailoverPromise` |
| `WalletProofs` | `IInv`, `BillingIInv` | `TypeOK`, `NoLostUpdate`, `NonNegative`, `ReconciledWithin`, `AtomicAccount`, `AcknowledgedIsCredited` |
| `ChatHandlerProofs` | `IInv` | `TypeOK`, `ChargedIsDelivered`, `EntryTellsCharge`, `SpendReachesLimits` |
| `SequenceProofs` | `ProtocolIInv`, `AuditIInv` | `ProtocolTypeOK`, `ConversationKept`, `PromptIsBilled` of `Protocols`; `TypeOK`, `StoredInOrder`, `ChargedAccounted` of `AuditLog` |
| `RiskControlProofs` | `IInv` | `TypeOK`, `OvershootBounded` |
| `ServerProofs` | `SInv` | `ServerTypeOK`, `AllOrNothing`, `StatusIsRegular`, `ExactIfCalm` |
| `GatewayProofs` | `GInv` | `EntryNamesAnswerer`, that `Gateway` is a `Dispatcher` and a `ChatHandler` |

The arguments:

- **Health.** `HInv` adds `Scored` to the types and to `ConsecutiveFailures`: after its
  first report a channel has a non-empty window, score and state are those its
  window and counter give, and points for recovery are in the score only after five
  quiet minutes. `OpenNeedsEvidence` follows: a score below 60
  needs more than half, or more than three quarters, of the window failed
  (`LowScoreNeedsEvidence`, from `FailCountBounds`). `FastSuccessNeverHurts` is about
  the one report that trims, counts and divides at once: a success in front of a
  window raises no share of failures (`FailuresFade`) and no penalty
  (`PenaltyFades`), so the truncated score does not fall (`ScoreGrows`). The step
  lemma is stated for `UpdateScore` alone and serves `Dispatcher` and `Server` too.
- **Dispatcher.** What is said of a request (`RInv`) speaks of its own variables
  only, so that a step of one request disturbs it for that request alone. Its core is
  `FirstBest`: the candidate kept so far is beaten by none that was read, and beats
  all read before it. `Better` is asymmetric and transitive, so one more channel keeps
  that, whatever is reported in between; and a candidate that fulfils it is the
  lexicographic optimum of `SelectsBest`, with the exclusive tier taken into account
  (`FirstBestIsOptimum`). `BreakerContains` counts, per channel, the requests that
  have it as their pick or are out at it (`Engaged`): from the third failure on nobody
  joins them and each further failure takes one away (`Contained`).
- **Refinements.** Every step of `Dispatcher` that reports is an `UpdateScore` of
  `HealthManager`, and every other one leaves health alone (`ReportsAsSpecified`), so
  all of `HealthProofs` holds for any number of requests. Every step is one of
  `Failover` or a stutter (`KeepsPromise`); that no channel is asked twice and that
  the attempts fit the retries are guards there, so both are proved. A repeated row of
  the mapping and a provider without an adapter are the cases that need care: a pick
  without an adapter is an attempt of the code and no call of the promise.
- **Wallet and Billing.** The type invariant ties the row lock to the open
  transaction, and with it nobody else can change the balance a transaction has read.
  All steps outside a transaction are treated by one lemma, `OutsideTransaction`; the
  drift by one charge is `RoundingDrift`; the refinement is `StepSimulation`. Every
  delivery of an event is a step of `Wallet` (`BillingIsWallet`), so that all of this
  holds with the webhook.
- **ChatHandler.** The tokens metered of a stream are at most those flushed, unless a
  flush has failed; then the context is cancelled, so that the call is never priced
  (`Metered`). `Billed` and `Raised` say what entry and metrics tell at each point of
  `deductAndRecord`.
- **AuditLog.** What was offered is stored, on its way or lost, and nothing is two of
  these (`Placed`); rows, the entry being written and the channel follow each other in
  the order of the offers (`InOrder`). The lemmas are about sequences: what the
  worker's `Head` and the handler's `Append` do to an ascending one.
- **Protocols.** What a conversion does to conversations of every length needs
  induction over data, and the library's induction theorems take an operator, which
  the provers cannot instantiate. `SequenceProofs` has one of its own in which the
  predicate is a set: the order of the naturals is well-founded, so a set of
  them that is not empty has a least member (`LeastNumber`), and a set that holds the
  empty sequence and is closed under `Append` holds every sequence (`SeqClosure`).
  From it follow, once for all loops, that a fold is defined, unique, and goes on by
  one step when an element is appended (`LoopExists`, `LoopsAgree`, `LoopAppend`), and
  from these the equations of `Total`, `Kept` and `System`. The facts about
  conversions are then short: filtering twice is filtering by both (`KeptTwice`), the
  last system prompt survives the ways a conversion keeps it (`SystemIsLast`,
  `SystemKept`), shorter texts have no greater total (`TotalMonotone`), and a
  body counts no more tokens than the request it was made from (`BodyPrice`).
  `ProtocolIInv` says that at every point the request and all bodies sent are the
  conversions of what the client wrote (`Converted`), so a second attempt starts from
  the same request as the first, and that only a prompt whose encoding is missing
  goes without a count (`Counted`).
- **RiskControl.** `Headroom`: spend, and the highest cost once for each request past
  the check, stay below the limit and that cost for each request there can be. The
  argument is about products and cardinalities, which are lemmas.
- **Server.** `Loading` says what was read so far. For the page, each model's counters
  stand for some set of channels (`Tally`): all usable at some moment of the request,
  and with all in it that were read and usable throughout. `StatusIsRegular` follows
  by counting, since the code's average is one of at most 100 for each of them.
  `CalmPageIsExact` sharpens it: for a model whose channels keep their usability while
  the page is written, that set is squeezed between two equal ones, and the count is
  exact, whatever all other channels do.
- **Gateway.** Each step of handler and dispatcher together is a step of either or
  leaves it alone (`GatewayIsDispatcher`, `GatewayIsHandler`), so what is proved of one
  of them holds of the two. `DoIsSoundUnderHandler` says so of selection, breaker and
  the promise of `Do`; `ChatHandlerProofs` is instantiated for the other side:
  `HandlerIsSoundOverDo` are its theorems about a handler over scans, retries
  and timeouts. Of its own the module has `EntryNamesAnswerer`.

The assumptions are the named ones of the modules, and TLC evaluates each of them:
`HealthAssumption`, `DispatcherAssumption` and `NoneAssumption` (finitely many requests,
`None` is neither a channel nor a pick), `WalletAssumption` and `BillingAssumption`
(opening balances that are not negative, positive charges, payments of the amounts a
recharge can have), `ChatAssumption` (the three adapters; token counts and reported usage are not negative), `ProtocolAssumption` (clients write sequences of
messages with at least one part each; every model has an encoding), `AuditAssumption`,
`RiskAssumption` (positive costs and thresholds), `ServerAssumption` (mappings between
models and channels) and `GatewayAssumption` (one handler; a channel that has an
adapter is of one of the three providers).

Only model-checked is liveness: the fairness part of `HandlerPromise`,
`SettlesOnBalance`, `RequestsFinish`, `CatchesUp`, `EveryCallIsLogged`,
`DailyOverspendIsPaused`, `PauseTakesEffect` and `ServesUnlessRefused`. The prover handles
neither `ENABLED` nor fairness. What the three runs of section 3 refute is refuted by
TLC's counterexamples; nothing is proved about them.

## 5. Not modelled

- Options of a request other than `stream`, and the text of a parsed answer: pure
  data nothing here depends on. `ChatHandler` keeps what a stream's conversion does
  to text, end and usage.
- The encoder of the tokenizer, and `ModerateContent`, a pure function nobody calls
  in the server.
- The map of HTTP clients per proxy: which of two equal clients is kept does not
  matter.
- Refusals before the dispatch (400, 402, 404): they change no state.
- `AddChannel`, `CountMessagesTokens` and `CreateCheckoutSession`: without a caller
  or without a route.
- Tables, queries and connection pools: the databases are external.

## 6. Plan

Done: all modules of section 2, their runs, and the proofs of section 4. Nothing of
the plan is left open but what section 5 leaves out and the liveness properties, which
wait for a prover that handles fairness.

When the code changes, start from `map` in `PROJECT.json`, which names the lines
behind each definition: change the definition, run its module's configuration, then
check the inductive invariant of section 4 as an INVARIANT of that run before the
proof is repaired.
