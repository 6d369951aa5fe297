# Verification of mern-auth

TLA+ models of the parts of this repository in which several things happen at
once: sign-up and e-mail verification, the e-mail queue and its workers, the
delivery of a mail through failing providers, the Redis proxy and what is built
on it, the way of an API request through the middlewares, start-up and
shutdown of a process, database migrations, and the session of the web client.
Each model is checked with TLC on small instances; every safety property that is
checked, and the refinements between the models, are proved with TLAPS for
instances of any size.

Paths below are relative to the repository.

## 1. The system

### Components, their state and their operations

| component | state | operations | modelled in |
|---|---|---|---|
| registration (`packages/core/.../registration`) | none of its own; MongoDB `users`, Redis keys, the queue | `register` | `AuthFlow`, `EmailAddress` |
| verification (`packages/core/.../verification`) | none of its own | `verify` | `AuthFlow` |
| token (`packages/core/.../token`) | a Redis key per token, TTL 300 s | `createVerificationToken` | `AuthFlow` |
| redis (`packages/redis`) | one connection per process, its unanswered commands, an opossum breaker | commands behind a proxy that answers `null` to a failed one | `RedisProxy`; as its callers see it, in `AuthFlow` |
| queues (`packages/queues`) | BullMQ queue in Redis, a breaker | `initialize`, `addJob` | `EmailQueue`, `QueueService` |
| worker (`apps/worker`) | jobs with attempts, stalls and locks; running jobs; pauses; dead-letter queue; metrics | start, fetch, complete, fail, dead-letter, drain, resume, stop | `EmailQueue`, `QueueService`, `ProcessLifecycle` |
| email (`packages/email`) | templates, providers, an opossum breaker with statistics, `EmailLog` | `initialize`, `sendVerificationEmail`, `sendEmail`, `sendWithFailover` | `EmailDelivery`, `EmailService` |
| webhooks (`apps/api/.../webhooks`, `bounce-handler.ts`) | `EmailLog` | `handleWebhook`, `recordBounce` | `EmailDelivery` |
| migrations (`packages/database/src/migrations`) | collection `migrations` | `up`, `down`, `status` | `Migrations` |
| database (`packages/database`) | connection, models | connect with retries, ping, disconnect, repositories | `ProcessLifecycle`; what the others need of it |
| app bootstrap (`packages/app-bootstrap`, `apps/api/src/server.ts`) | services, server, worker, shutdown steps | bootstrap, probes, graceful shutdown | `ProcessLifecycle` |
| API pipeline (`apps/api/src/middleware`, `app.ts`) | requests, keep-alive connections, rate-limit counters, response cache | CORS, body, limits, timeout, handlers, error handlers; cache and invalidation | `RequestPipeline`, `ResponseCache` |
| feature flags (`packages/feature-flags`) | Redis keys | evaluate, list, change | `FeatureFlags` |
| web client (`apps/web`) | tokens in local storage, forms, calls | login, register, logout, profile, refresh after a 401 | `WebClient` |
| config, i18n | the environment, the messages | load, validate | as steps of the start, in `ProcessLifecycle` |
| observability | spans, metrics; the tracing SDK's signal handlers | tracing shutdown | the signal handlers, in `ProcessLifecycle` |
| utils | - | `normalizeEmail`, breaker factory, errors, hashing | `EmailAddress`, the breaker's timeout |
| contracts | types | - | no |

How they interact. `register()` reads the rate-limit key, creates the user in a
MongoDB transaction, stores the token in Redis, adds a job to the queue and sets
the rate-limit key; `verify()` reads the token, loads the user, saves it and
deletes the token. The job is fetched by a worker, a process of its own or the
one inside the API process, whose consumer calls `sendEmail`; that writes an
`EmailLog`, fires the breaker around the failover loop over the providers, and
updates the log. Providers call the webhook back, at any time. Stores and
providers are reached through breakers that stop *waiting* at their timeout and
cancel nothing; the same holds of a request's own timeout.

### What is hard here

* Interleavings: several requests for one mailbox; two clicks on one link; two
  workers that both believe they hold a job; two migration processes; two
  signals, each with a shutdown of its own; two calls that refresh one session.
* Late effects: a timed-out Redis command stays on the connection and is
  executed later, perhaps after a newer one; a provider accepts a mail after
  its caller recorded a failure; a webhook overtakes the update of its log; a
  handler answers a request that was answered by its timeout.
* Partial failure: `register()` and `runMigration()` write to several stores or
  in several steps, and any of them may fail or fail with an unknown outcome.
* Crashes and stops: locks expire, jobs stall, dead letters that were on their
  way are lost, a shutdown meets a start.

### What makes each component correct

* Sign-up: one account and at most one 201 per mailbox; a 201 is durable; a
  mailbox is blocked only if it has an account; only an invited account is ever
  verified; a token works once; a reply is true.
* Queue: a completed job was mailed; the number of its mails is bounded; a
  finished job stays so; dead letters are failures and unique; every job
  settles; a stop ends and, without crashes, disturbs no job; `addJob` answers
  what is true of the queue; the metrics add up.
* Delivery: `sendEmail` resolves only for an accepted mail; no provider gets
  one twice from one call; an answer is final; a recorded bounce stays; every
  call is counted once.
* Migrations: none is in effect twice; they are applied in order; a rollback
  reverts the last.
* Redis: callers get their own answers, commands are executed in the order they
  were sent; a disabled flag is off; a cache hit is fresh.
* Requests: limits hold whatever Redis does; every request ends; only a late
  answer costs a client its connection.
* Processes: the database is closed under no request and no job; a start
  settles; a signalled process ends.
* Web client: a form is submitted once; only a failed refresh or a logout ends
  the session; every call ends.

The hazards, each with its line and the properties aimed at it, are in
`PROJECT.json`. A hazard that is simply what the code does has a note instead of a
property, or beside it where a property covers a part; section 6 lists these.

## 2. The modules

    AccountLifecycle <---implements--- AuthFlow  (addresses: EmailAddress)
                                          :  same jobs, same mails
                       MailQueue <---implements--- EmailQueue <---extends--- QueueService
                                                      :  one execution of a slot
                     SendAttempt <---implements--- EmailDelivery <---extends--- EmailService
    RedisProxy <---extends--- FeatureFlags, ResponseCache <---extends--- RedisClients
    Migrations        ProcessLifecycle        RequestPipeline        WebClient

`X_proofs` holds the theorems about `X`, and `MCX` gives its constants values.
`EmailQueue_proofs` is also about `QueueService`, `EmailDelivery_proofs` about
`EmailService`, and `RedisClients_proofs` about the proxy and both its clients.

**AuthFlow** has one action per awaited call of `register()` and `verify()`.
`regPc` and `verPc` hold the next call or the reply; `users` is the unique index
on the normalised address, `token` and `limit` the Redis keys, `jobs` and
`mailed` the queue as seen from sign-up. A request names its token, its job and
its user document, because each call draws one token and creates at most one
user. `Read` and `Outcome` say what the proxy of `circuit-breaker.ts` may do: a
read may answer null, a write may be applied, applied with its reply lost,
dropped, still in flight, or applied and sent again after a reconnect; `late`
holds what is in flight, and `Settled` the order of one connection, which
`RedisProxy` shows (`CommandsInOrder`). MongoDB writes commit, abort, or commit
with the outcome unknown to the caller. `CreateUser` may also fail in
Mongoose's validation: a name of spaces passes the request's schema and is
trimmed by the model's.

**EmailAddress** is `normalizeEmail` on an address as a record (local part,
capitals, dots, domain). `MCAuthFlow` takes its mailboxes from it.

**AccountLifecycle** is what sign-up promises of a mailbox: absent, unverified,
invited, verified, in this order and never back.

**EmailQueue** models the producer's `addJob` (BullMQ ignores an id it holds),
`QueueProcessorService` and `WorkerService`. A *slot* is a unit of a worker's
concurrency. BullMQ is external and modelled from how the code uses it:
`lock`, `stalls` and the stalled check, delayed retries, and the refusal of a
result whose lock is gone. `pending` counts the dead-letter adds that a `failed`
handler started; nobody waits for them, so they die with the process.
`Attempts` (the producer's `attempts: 3`) and `WorkerAttempts`
(`WORKER_MAX_RETRIES`) are different constants because the code takes them from
different places; `DeadLetters` are the workers with a dead-letter queue.
`Crash` includes the forced exit of an API process whose shutdown takes too long.

**QueueService** is the queue as its callers and operators see it: `initialize`
and `addJob` of the producer behind its breaker, with add commands that are late
or lost (`flight`), and the metrics of each processor. Every step of the worker
is one of `EmailQueue` with what it does to the metrics.

**MailQueue** is what sign-up needs of the queue: only an accepted job is mailed,
it stays accepted, and a completed job was mailed. `AuthFlow`'s `QueueEmail`
and `LateAddJob` are its `Accept` (`accepted` is `jobs`), `MailArrives` its
`Deliver`, and no step of `AuthFlow` depends on `completed`.

**EmailDelivery** models `sendEmail`, the breaker, `sendWithFailover` and the
webhooks. A call has two lives, the caller's in `pc` and that of its failover
loop in `left`, because the timeout ends the first and not the second.
`mails[c][p]` counts how often provider p accepted the mail of call c, `log` is
the `EmailLog`, `fate` what became of the mail, `reply` the answer to the last
webhook. The breaker is closed, open, half open or probing; whether a failure
opens it is nondeterministic (a superset of opossum's percentage rule).
`RawBody` tells the handler as written from the application as assembled (see
section 4). It is TRUE in the runs; the proofs cover both values. Under the
fault "rotation" Resend's first signature is that of the other secret.

**EmailService** adds what is around a send: templates and providers that are
initialized or not, the composition of the verification mail, and the
statistics that the breaker's events keep.

**SendAttempt** is what the queue may assume of one execution, and is the
part of `EmailQueue` between `Take` and the settled processor: nothing sent,
then perhaps sent, then `ok` only if sent, or `error` either way. A mail may
still be accepted after `error`; `EmailQueue` counts such a mail as one that its
execution sent (`SendMail` before `Settle` with `error`), so `MailsBounded`
covers it, and no guard of the queue reads `sent`.

**Migrations** models concurrent processes of the command line: the connection,
the read of the records, then per file the transaction (`Begin`, `Commit`,
`Abort`, `CommitFails`) and the record of a failure outside of it, and the exit
code. A migration's own statements are one effect of its transaction.
`appliedAt` comes from a clock that never ties. `Conflict` is MongoDB's write
conflict; `CommitFails` is also the death of the process. `clean` remembers that
a command ran alone and met no fault; it is read by properties only.

**RedisProxy** is one process's connection: the proxy, its breaker, and ioredis
with its commands without a reply (`wire`), of which the first `done` were
executed. A timeout answers the caller and leaves the command; a reconnect sends
every command again, in order. **FeatureFlags** and **ResponseCache** are two of
its clients and **RedisClients** puts them together: a behaviour uses one of
the two, since they share only the connection.

**RequestPipeline** is the application of `app.ts`: a request waits for its body,
for `apiLimiter`, for `authLimiter` and for its handler (`at`), on a keep-alive
connection that carries one request after the other. `Raise` is `next(err)`:
Express walks the rest of the application's chain once, and an error after that
destroys the socket. The counters are in Redis; an increment may fail for its
caller and be executed later.

**ProcessLifecycle** is one process, API or worker: configuration, messages,
services, connection, e-mail, worker (`main`), the server with its requests and
probes, the worker with its jobs, and one shutdown per signal with its own timer
(`shutdown[s]`), beside the signal handler of the tracing SDK. The first poll of
`stop()` belongs to the step that calls it (`Stop`): with no active job `close()` is
called at once, and only a shutdown that saw a job waits (`StopsWaiting`). `missed`
remembers a shutdown that found no worker to stop: its process disconnects and may
run jobs that nobody waits for, and the properties except it.

**WebClient** is one browser tab: tokens in storage, the page and its form, and
calls through the axios instance. The interceptor's refresh belongs to a call
(`at = "refreshing"`), so that two calls may refresh at once. A page that changes
unmounts its form (`Navigates`), by a link or by the success of a call, also of one
whose form was left; the action of an unmounted form goes on, `left` in the model.

## 3. The runs

| run | instance | what it shows |
|---|---|---|
| `auth_faults` | 2 registrations, 2 verifications, 3 addresses of 2 mailboxes, every fault of Redis, queue and MongoDB | the safety of sign-up and verification, and `AccountLifecycle` |
| `auth_redisUp` | the same, only MongoDB fails | with Redis up a 201 leads to a token that verifies and a 404 is truthful |
| `queue_faults` | 1 job added up to twice, 2 workers with 2 slots and 1, 2 attempts, 1 stall, 2 outages of any kind, locks expire under running workers; fair | the safety of the queue, `MailQueue`, that jobs settle and stops end |
| `queue_graceful` | 2 jobs, 1 worker with 2 slots, 3 stops or drains, a producer's breaker with late and lost commands, metrics | an orderly stop makes no job stall; until the first, failures are dead-lettered; `addJob` answers truly and the metrics add up |
| `email_sends` | 2 calls, 2 providers, the service from `initialize` on; unreadable templates, failing and slow providers, failing log; fair | what sending promises, `SendAttempt`, the statistics, that calls are answered |
| `email_bounces` | 1 call, 2 providers, all faults, every fate of a mail, rotated secrets, any number of webhooks | logs, bounces and answers stay consistent |
| `migrations_updown` | 3 files, 2 processes, 6 commands (up, down, status), all faults | nothing applied twice; order until the first rollback; rollbacks revert the last |
| `process` | an API or a worker process, 2 signals, 2 requests, 2 slots, `DB_MAX_RETRIES` 0 or 3, tracing on or off, all faults; fair | an exit 0 leaves nothing behind, the database outlives the work, starts settle, signalled processes end |
| `process_tracing` | a worker with tracing on, no faults | violated, see section 4 |
| `redis` | one connection, 4 commands of the flags (changes among the first 3) or 5 of the cache, a wire of 2, a flag on for 50 % of the users | own replies, commands in order, a disabled flag is off, a hit is fresh |
| `requests` | 3 requests on 2 keep-alive connections, limits of 2 and 1, 2 windows; fair in the timeout | the limits, which requests lose their connection, that requests end |
| `web` | 2 calls at once, forms that are submitted and left, tokens that expire; fair in the API | a form waits for its own call and is submitted once, who ends a session, that calls end |

Bounds, and why they are enough to see the interesting cases. Two registrations
give each race on a mailbox and, with the second mailbox, its absence; two
verifications give the double click. One job and three slots on two workers
give two stale executions beside the one that holds the lock. Jobs interact
through slots only, so a second job matters where slots are scarce and where stops
and metrics count what runs (`queue_graceful`); a second worker matters where locks
are lost, which they are in `queue_faults` only. Two outages give a crash during a
stop, a restart and a second crash; three stops or drains a drain that is resumed,
a stop, a restart and another stop. Two calls are enough to have one fail while the other is in
flight and find the breaker open. Three files and six commands give a failed
migration, its retry and rollbacks around it. Two signals give a shutdown that
meets a shutdown, and either of them meets a start, a request, a job or the
tracing SDK. A wire of two commands holds one that was executed and not
answered in front of one that was not executed, which is what a reconnect
repeats. Five commands of the cache are a fill, an invalidation and a look-up; an
invalidation is a scan and a deletion. Three requests on two connections are one
that is late, one behind it on the same connection, and a stranger; a limit of 1
for sign-up and of 2 for all are reached by them. Two calls of the web client are
one that refreshes and one that is late.

The counters bounded by constants are `MaxAdds`, `MaxOutages`, `MaxRuns`,
`MaxCommands`, `MaxWire`, `MaxWindows`, `MaxVersion` and `MaxRequests`. `Attempts`, `MaxStalled`,
`Slots`, `Retries`, `Max` of the limiters and `Percent` are configuration, at
smaller values than in production (the limiters allow 100 and 10 requests, a job
has 3 attempts). `Hash = 49` is a user in the enabled half of a flag. The type
invariants are the first conjuncts of `AuthInv`, `QueueInv`, `DeliveryInv`,
`OnceInv`, both `ServiceInv`, `LifecycleInv`, `ProxyInv`, `PipelineInv` and
`WebInv`. Symmetry is used only where a run has no liveness property. Deadlock is
checked for `redis` and `web`. Elsewhere requests, calls, commands and jobs run
out, or the process is gone: the model stops when its work is done, and
"everything that was started ends" is stated as liveness instead.

Fairness, and what in the code justifies it:

* `EmailQueue`: a running process goes on (its consumer is bounded, by
  `CallsSettle`); a supervisor restarts a process that ended; an operator resumes
  what was drained; Redis expires the lock of a slot that no longer runs the job
  (not of one that does); BullMQ promotes delayed jobs and runs its stalled check.
* `EmailDelivery`, `EmailService`: only the service's own steps, the breaker's timer
  among them. Nothing is assumed of providers.
* `ProcessLifecycle`: the start goes on, each of its awaits having a timeout of its
  own (server selection, connect, the breakers); timers fire; a shutdown goes on;
  the tracing SDK's flush ends (it is raced with 5 s). Jobs end, in a worker
  process, which waits for them; requests need not: the API gives up on them
  after its timeout.
* `RequestPipeline`: only the timer of connect-timeout. Handlers, bodies and Redis
  may never come to an end.
* `WebClient`: the API answers each call or closes its connection, which is
  `EveryRequestEnds`; axios itself has no timeout.
* `AuthFlow`, `QueueService`, `Migrations`, `RedisClients`: none; their properties
  are safety.

## 4. Where documentation and code differ

Shown by a run:

* `CompletesJobs`: `README.md:123` promises that a graceful shutdown completes the
  jobs in progress. With tracing on, `sdk.ts:206` installs a signal handler that
  flushes the spans and calls `process.exit(0)`, whatever the worker's own
  shutdown still waits for. In the trace the worker runs a job when the signal
  comes, `stop()` sees it and waits, and the flush ends the process.

Met while reading, and modelled as the code has them, without a run of their own.
In sign-up and verification:

* `docs/codebase_explanation_ts.md:268` describes the creation of the user and
  the queueing as one transaction. The code commits the user first
  (`registration.service.ts:306`): a 503 leaves an unverified account behind,
  and a second try is answered 409.
* `registration.service.test.ts:272` expects a failure of the rate-limit write to
  be an error. With the Redis proxy the application injects, it is a `null`, and the
  answer is 201.
* `token.service.ts:68` "verifies" the token by a `ttl` it only logs: with a
  failing Redis the mail carries a token that was never stored, and a live
  token can be answered 404 (`verification.service.ts:53`).
* A name of spaces passes the request's schema and fails in Mongoose. The schema
  allows passwords of 128 characters, of which bcrypt reads 72 bytes.
* `gmail.com` and `googlemail.com` count as different mailboxes, and so do
  plus-addresses.

In the queue and in mail:

* The worker in the API process (`worker.setup.ts:50`) has no dead-letter queue,
  although `docs/ARCHITECTURE.md:278` draws one: `FailedIsDeadLettered` is about
  workers that have it. With `WORKER_MAX_RETRIES` below the producer's three
  attempts, jobs are dead-lettered that are still retried
  (`queue-processor.service.ts:288`).
* `email.consumer.ts` returns `handleVerificationEmail` without awaiting it, so
  that its `catch` never logs a failure.
* The `EmailLog` is for "tracking all email sends" (`email-log.model.ts:4`). A mail
  accepted after the breaker's timeout stays "failed" without a message id.
* `email.service.ts:128` says "Fallback when circuit is open"; opossum calls it
  for every failure, so all errors are stored as `CB_OPEN`.
* The webhook router gets parsed JSON (`app.ts:49` installs `express.json()`
  before `app.ts:85` mounts it), so `req.body.toString()` has no signature that
  fits and every genuine event is refused. What `email_bounces` and the theorems say
  of bounces holds when the handler gets the raw body it expects; without it
  they hold because no bounce is ever recorded.
* Of several svix signatures only the first is read (`resend.provider.ts:82`).
* A delivered event of Resend has no bounce type and is recorded as a bounce
  (`webhooks.controller.ts:80`), a complaint as a soft one. The handler answers
  "marked_invalid" without updating the user.
* `recordBounce` (`email-log.repository.ts:110`) reads `type` and `reason` of an
  object with `bounceType` and `bounceReason`: a bounce is stored without them.

In the database and its migrations:

* `up` runs "all pending migrations", and a failed one is pending. Its record keeps
  the unique name, so it can never be inserted again (`runner.ts:57`).
* Two processes that run `up` at once: the loser's failure handler turns the
  winner's applied record into a failed one (`runner.ts:146`). After a failed
  rollback the next `down` reverts an earlier migration.
* With `DB_MAX_RETRIES` empty or 0, `connect()` returns without connecting.
* `mapUserDocument` reads fields that the schema does not have; the audit log's
  type and its contract differ.

In Redis and the flags:

* `feature-flags.ts:69` fails open "if Redis is down". The proxy throws nothing, a
  failing Redis gives `null`, and a flag without a value is disabled.
* An empty `REDIS_PREFIX_*` passes the schema, and `createRedisKey` throws on it in
  every request.

In the API:

* The response cache and the flag middleware are created
  (`middleware.factory.ts:61`) and mounted on no route.
* A timed-out request is answered 500, not 503: `timeoutErrorHandler` has three
  parameters (`timeout.ts:38`), so Express never calls it as an error handler.
  Malformed JSON and forbidden origins are answered 500 too.
* A request that timed out while `authLimiter` waits for Redis still runs its
  handler. A handler's late answer destroys a keep-alive connection.
* `validate.ts` assigns `req.query`, which Express 5 has as a getter.
* `server.ts` imports the tracing SDK "FIRST"; its calls run after the imports
  that ESM hoists.

At shutdown:

* `docs/ARCHITECTURE.md:327` stops a log shipper, which the code does not, and
  shuts the tracing SDK down as a step of the bootstrap's; in the code that is a
  signal handler of its own.
* A signal during the start of the worker meets a `workerService` that is not yet
  assigned, and stops the rest without it. Before the server listens, a signal
  ends the process by its default action, or with code 0 if tracing is on.

In the web client:

* The client calls login, logout, refresh and profile endpoints that this API
  does not have, and refreshes at a path of its own rather than that of
  `endpoints.ts`.
* `errors: []` of a failed answer is an array, so the forms show nothing.
* A late refresh after a logout stores a token again; a late logout removes the
  tokens of a newer login; a network error in a refresh logs out; a rotated
  refresh token is not stored.

## 5. What is proved

All theorems are about the specifications without fairness, for any values of
the constants that satisfy the `ASSUME` of the module: any number of requests,
mailboxes, jobs, workers, slots, attempts, calls, providers, migrations, signals,
connections and processes, and every set of faults. A theorem that needs more says
so in its `ASSUME`, and the list below repeats it. The assumptions on the constants
are the types of numbers and functions, that a name for "nothing" names nothing
else (`AuthAssumption`, `WebAssumption`, `ClientsAssumption`), and that what is
counted is finite (`QueueAssumption`, `ServiceAssumption`).

* **AuthFlow_proofs.** `AuthInv` is inductive. The safety properties alone are
  not: that only the invited are verified needs that tokens under
  verification were mailed (`TokensWereMailed`) and that mails come from
  accepted jobs (`MailHasJob`); that live tokens have users needs how far a
  request must have come for its traces to exist (`TracesHaveUser`,
  `CommandsInOrder`); one sign-up per mailbox needs that the index maps each
  mailbox to a request for it (`IndexSound`). From it: every safety property of
  `auth_faults`, its two action properties, and the refinement of
  `AccountLifecycle`. That what was consumed stays consumed is argued from the order
  of one connection: a consumed token was mailed, so its job was accepted, so the
  first sending of its command is no longer in flight. Only a SET that is sent again
  after a reconnect brings a token back, and the property says of which accounts:
  verified ones, because `verify()` removes a token after it saved the user.
  That order is `CommandsInOrder` of `RedisProxy`, a theorem too (below).
  `SignUpIsVerifiable` and `NotFoundIsTruthful` are proved under
  `"redis" \notin Faults`, the condition of their run, whatever MongoDB does:
  `RedisUpInv` says that nothing is ever in flight, so that every request past
  `createVerificationToken` has had its key, and a link that was mailed finds it, or
  finds that it expired or was used.
  `QueueAsPromised` and `EveryMailIsExpected` close the gap to the queue: sign-up
  drives its queue as `MailQueue` allows and takes every delivery that `MailQueue`
  may make.
* **EmailQueue_proofs.** `QueueInv` counts. Each execution that may still send
  (`Unsent`) or has sent is paid for by an attempt, a stall or the current
  activity of the job (`Executions`), which bounds the mails by `Attempts +
  MaxStalled` with stale workers included. The set of slots must be finite. That dead
  letters are failures, and single, is proved when no worker is configured with
  fewer attempts than a job has; without that it is false (section 4).
  `OrderlyInv` is about queues whose live workers renew their locks and where no
  process has crashed: the lock of an active job is with the slot that runs it, so
  nothing stalls. `GracefulStopStallsNothing` follows when no process can crash;
  `FailedIsDeadLettered`, which speaks of the time before the first outage, when
  every worker has a dead-letter queue and no more attempts than a job.
  `ServiceIsQueue` makes all this true of `QueueService`. There, `AnswersInv` (what a
  caller was told, and whether its command may still arrive) is unconditional, and
  `MetricsInv` (the counters of each processor against the slots that are busy) is
  proved without crashes and expired locks: a job whose result is refused because
  its lock is gone ends in no counter.
* **EmailDelivery_proofs.** `DeliveryInv`: what is still in `left` was not given
  the mail (`UntriedIsUnsent`), what `got` names accepted it (`GotWasAccepted`),
  and the log follows the call (`LogFollowsCall`: before the call is over the log
  has no provider, so no webhook can find it). From it: all safety properties and
  the refinement of `SendAttempt`. `ServiceIsDelivery` carries them over to
  `EmailService`; its own invariant needs where a call may be while the service
  starts (`StartInv`) and that the breaker decides each call in one step, in which
  exactly one of its counters moves (`StatsInv`, with cardinalities of sets of
  calls, which is why `Call` must be finite).
* **Migrations_proofs.** `OnceInv` needs that a record that can be inserted
  is of a migration that is not in effect. `UpInv` adds, until the first
  rollback, that a process has left nothing unapplied behind (`NothingSkipped`);
  `InOrder` follows. `RollsBackLast` needs that a process which is `clean` is the only
  one that runs (`RunsAlone`), so that what it read as the latest stays the latest
  (`RevertsLatest`); and that with no failure on record, what is in effect has a
  record, so that the latest record is of what was applied last.
* **RedisClients_proofs.** `ProxyInv` is inductive: the wire is in the order of
  sending, what was executed is a prefix of it, and a caller that waits has exactly
  one command with its number, so that no late reply is taken for another's. The
  lemmas on lists are needed because the results of commands are of several types
  and a wire has no set it is a sequence over. `CommandsInOrder` is the theorem on
  which `AuthFlow`'s account of late commands rests. `KillSwitch` and `FreshHit` are
  inductive with the parts that name what is in flight: who writes the key
  (`GlobalWriters`, `PageWriters`), what a change under way has reached
  (`TurningOff`, `Invalidates`), what a read under way will see (`ReadsOff`,
  `ReadsFresh`).
* **RequestPipeline_proofs.** `PipelineInv`: each counter equals what its limiter
  let through or is an overcount, and a request that goes on after its answer is one
  that its timeout answered (`LateIsAnswered`). `ClosedByTheLate` follows: only
  such a request is answered twice.
* **ProcessLifecycle_proofs.** `LifecycleInv` ties the shutdowns to the server and
  the worker: no shutdown is past a step that another, or it, has not finished
  (`ServerFirst`, `ThenWorker`), and which of them may run at each stage of the start
  (`StartedOnce`). With it the connection is closed under no work
  (`DatabaseOutlivesWork`). `UntracedCompletesJobs` proves `CompletesJobs`, which
  `process_tracing` shows violated, of every process without the tracing SDK: that
  handler is its only cause. `StopMoves` is what one call of `stop()` does, for the two
  steps that make it.
* **WebClient_proofs.** `WebInv`: the call that a form waits for is of the form's own
  page and has not ended (`FormWaits`), all others of its kind were left
  (`SubmittedOnce`), and a call that was marked as retried has a refresh behind it
  (`MarkedByRefresh`). `NavigatesKeeps` is the argument for every change of the page:
  a success of the awaited call always leads to another page, so that it frees the
  form, and that of a call that was left either unmounts the form shown or does not
  concern it. `SignedOutByRefresh` is an
  action property of the same steps.

Only model-checked: liveness (`JobsSettle`, `StopEnds`, `CallsSettle`,
`SignalledEnds`, `StartSettles`, `EveryRequestEnds`, `CallsEnd`), which is
outside what the prover handles.

## 6. Not modelled

* `register()`: hashing and the rendering of templates (data). The `throw` branches
  of `createTokenFailed` and `setRateLimitFailed` cannot be reached through the
  proxy; a value in Redis that does not parse is never written.
* Code without callers in this repository: the health methods of the producer, the
  processor and the e-mail service, `verifyToken` and `deleteToken`, pausing,
  resuming and closing the producer, the deprecation notices of `apiVersion`, the
  Sentry performance middleware, reports, audit logs and pagination.
* The breaker's capacity (50 calls in flight); loggers, spans and metrics except
  the counters that `QueueService` and `EmailService` keep.
* The layout of pages, icons and web vitals; the types of `contracts`.
* `EmailLog`'s TTL of 30 days; signature arithmetic. Webhook events are taken to
  carry the message id that `send()` returned.
* A crash in the middle of a request or a call: it is the case in which the
  request never takes its next step. Crashes of workers and of migration processes
  are actions.
* BullMQ, opossum, ioredis, MongoDB, Express and connect-timeout are external and
  modelled from their use.

Modelled, but covered by no property, because it is what the code does. The first
three have properties for the case that Redis is up or the answer is a 201:

* a 503 for an account that exists and can no more be verified
  (`registration.service.ts:306`); a token that was never stored and is mailed
  (`token.service.ts:60`); a live token that is answered 404
  (`verification.service.ts:53`);
* dead letters that the API's worker does not write (`worker.setup.ts:50`) or that
  are lost when a process ends (`queue-processor.service.ts:290`);
* an early bounce, which is dropped (`bounce-handler.ts:26`);
* the record of a failed migration, which stays in the way (`runner.ts:146`):
  `UpInv` tolerates it and `RollsBackLast` excludes it;
* a signal before there is a worker to stop (`server.ts:72`), which is `missed`;
* a flag whose global value could not be read (`feature-flags.ts:69`), which
  `KillSwitch` excepts, and a response stored after the invalidation of its entry
  (`cache.ts:65`), which `FreshHit` excepts;
* a refresh that returns after a logout (`client.ts:45`).

## 7. Plan

1. *Done*: sign-up, queue, delivery, migrations; their invariants and refinements,
   with proofs.
2. *Done*: the Redis proxy with the flags and the cache over it, the API pipeline,
   start-up and shutdown, the web client; the producer and the metrics around
   the queue, initialization and statistics around delivery.
3. *Done*: proofs of every safety property of the runs: `ProxyInv` and
   `CommandsInOrder`, on which `AuthFlow`'s account of late commands rests, with both
   clients; `PipelineInv`; `LifecycleInv` and `DbOutlivesWork`; `WebInv`; the
   `ServiceInv` of `QueueService` and `EmailService`; and, under the conditions of
   their runs, `SignUpIsVerifiable`, `NotFoundIsTruthful`,
   `GracefulStopStallsNothing` and `FailedIsDeadLettered`.
4. Proofs that put the modules together: that an execution of `EmailQueue` is a
   `SendAttempt`, for which `EmailDelivery` may then stand; that `AuthFlow`'s late
   commands behave as those of `RedisProxy`, `Settled` from `CommandsInOrder`. Then
   what liveness rests on and is not itself temporal: bounds that say how many
   steps of a kind a behaviour can have.
