# A TLA+ model of the AI generation service

The service sells image and video generations for tokens. A client creates a task
over HTTP and is charged at once; a Celery worker submits the task to Fal.ai; Fal.ai
answers with a webhook; a monitor polls, fails and refunds what got stuck; clients top
their balance up through Stripe or a payment webhook. No process of it is difficult.
What is difficult is that all of them meet in one PostgreSQL database
(READ COMMITTED, one short transaction each), in a Redis broker with at-least-once
delivery and at a provider, without a lock or a status check between them. That is
what is modelled here.

Paths below are relative to `src/` of the repository unless they name a top-level file.

## Inventory

| Part | State | Operations | What is hard | What makes it correct |
|---|---|---|---|---|
| Creating a task: `api/routers/generations.py`, `services/generation_service.py:28-74` | `tasks`, `users.balance`, `transactions`, a broker message | read price, check balance, insert, charge, dispatch, COMMIT | the message is sent before the COMMIT; the check reads a snapshot | a charge belongs to a task that is worked on; tokens are not spent twice |
| Submission: `workers/generation_tasks.py:30-103` | `status`, `fal_request_id`, loop variable, the message | QUEUED, up to three attempts, PROCESSING or FAILED and refund | crashes, redelivery, responses that are lost, exceptions that are not caught | one job per charge; no task is forgotten |
| Fal.ai webhook: `api/routers/webhooks.py:56`, `generation_service.py:77` | `status`, result, refund | COMPLETED, or FAILED and refund; notify the client | loss, repetition, overtaking the submission | outcome and refund of a task agree |
| Monitor: `generation_tasks.py:171-208`, `task_repo.py:43` | `updated_at`, a list read at the start | poll tasks with a request id, fail and refund the others | overlapping runs, rows that changed since they were read, 50 rows per run | no double refund; every stuck task is reached |
| Polls: `generation_tasks.py:106-168`, `fal_provider.py:87` | messages, rows read before a long wait | COMPLETED, notify | the check is old when it is used; results without a url; errors | a result is its own job's; the client is told |
| Balances: `services/balance_service.py`, `user_repo.py:34` | `users.balance`, `transactions` | charge, refund, top up | concurrent writers, a cached row | the ledger explains the balance; the balance is not negative |
| Payments: `webhooks.py:19,79`, `services/stripe_service.py` | `transactions` | credit | repeated webhooks, two events for one checkout | one credit per payment |
| Price list: `price_repo.py`, `admin.py:90` | `generation_prices` | read, edit | edits between check, charge and refund | a refund is what was paid |
| Sessions: `infrastructure/database/session.py`, `api/dependencies.py` | a pool of 20 + 10 connections | COMMIT, ROLLBACK | identity map, row locks | atomic requests |
| Client callbacks: `workers/webhook_tasks.py`, `services/webhook_service.py` | `webhook_deliveries`, retries | attempt, retry, mark failed | two deliveries of one task, attempts counted from an old row | DELIVERED stays; a bounded number of attempts |
| Failover: `infrastructure/providers/fallback.py` | failure count, open flag, time | submit, switch, probe | a breaker per Celery task, threshold above the attempts | the fallback is used when the primary fails |
| Rate limiter: `infrastructure/redis/rate_limiter.py`, `api/middleware.py` | a sorted set and a block key per API key | admit, block | clocks of several callers, failure of Redis | at most so many requests per window |
| Registration: `services/auth_service.py` | `users` | check, insert | two requests for one id | one account per id |
| Checkout: `api/routers/balance.py:28` | none | amounts | truncation | the tokens paid for are credited |
| Admin panel, web page, metrics, logs, configuration | – | – | – | not modelled |

Interactions: the request handler and the workers share the tables and call each other
only through the broker (`submit_generation.delay`, `poll_task_status.delay`,
`deliver_webhook.delay`); Fal.ai, Stripe and the payment service call the HTTP
endpoints; Celery Beat starts the monitor every 120 s.

`PROJECT.json` lists, under `hazards`, the places where this is hard to test, each with
the properties that would show it going wrong, or the reason why none does.

## Modules

| Module | What it is |
|---|---|
| `TaskContract` | What is promised about a task: the life cycle of `README.md:11`, refunded exactly when it fails. No processes, no messages. |
| `Generation` | The life of a task: the creating request, submission, Fal.ai and its webhook, the monitor, the polls, and everything that can fail between them. |
| `MCGeneration` | Instances of it for TLC. |
| `GenerationProofs` | Its theorems. |
| `Billing` | The tokens: requests that charge, refunds, payments, prices. |
| `MCBilling`, `BillingProofs` | Instances and theorems. |
| `Accounts` | `Billing` with what stands in front of it: registrations, keys, checkouts and their arithmetic. `EXTENDS Billing`; each step is one of the two modules'. |
| `MCAccounts`, `AccountsProofs` | Instances and theorems, among them that `Accounts` implements `Billing`. |
| `Callback` | The delivery of one task's outcome to its `callback_url`: several calls, the chain of messages of each, the rows of `webhook_deliveries`. |
| `MCCallback`, `CallbackProofs` | Instances and theorems. |
| `RateLimiter` | The Lua script that admits or blocks the requests of one API key. |
| `MCRateLimiter`, `RateLimiterProofs` | Instances and theorems. |
| `Failover` | One submission's attempts with its circuit breaker, the primary and the fallback, and a poll of the job. Its instance needs no module of its own. |
| `FailoverProofs` | Its theorems. |
| `WorkerPool` | The Celery worker with several tasks: the queue, the slots, Beat, the monitor's list and the row locks of its transactions. |
| `MCWorkerPool`, `WorkerPoolProofs` | Its instance and theorems. |
| `Totals`, `TotalsProofs` | The sum of a function's values, as the number of pairs it stands for, and what adding to one value does to it; `Billing` and `Callback` add up with it. |

`Generation` and `Billing` divide the create request between them. `Generation` sees the
task and its message and counts refunds; `Billing` sees the snapshot, the checks, the row
lock and the balance, and lets a task be refunded up to `MaxRefunds` times, which is
what `Generation` says can happen: once in a benign environment, more often otherwise.
`Accounts` adds the users themselves: no request authenticates, no checkout is opened and no
payment credited before the account exists, and a payment's amount is what the cents of
its checkout are worth. `WorkerPool` is `Generation` seen from the other side: there a task
has all the processes it could want and everything can happen to it; here the processes
are few, the tasks several, and what happens to one is kept simple.
`Callback` takes over where `Generation` sets `notified`: `HookHandled` and `PollNotify`
make its calls, more than one for a task when a webhook is repeated or races a poll.
`RateLimiter` stands before every request and shares no state with the rest. `Failover` looks
into what `Generation` sees as one turn of the loop (`AttemptAccepted`, `AttemptRejected`,
`AttemptUncaught`, `AttemptResponseLost`), where the two providers are one.

### Generation: state and actions

A transaction is one atomic step at its COMMIT. Wherever the code reads something and
acts on it later – after an `await`, a queue, a network call – the read and the COMMIT
are two actions, and what was read is a variable of the process.

| Variable | In the code |
|---|---|
| `create` | the request's transaction: not begun, open (its message already sent), committed, rolled back |
| `status`, `request`, `url`, `stale` | `Task.status`, `fal_request_id`, whether `result_url` is set, whether `updated_at` is older than the monitor's five minutes |
| `refunds` | committed REFUND rows of the task |
| `submit`, `attempt`, `reply` | the Celery message and the place in `_submit_to_provider`, its loop variable, the request id not yet committed |
| `job`, `jobTask`, `hook` | the jobs at Fal.ai, the task each was submitted for (it is in the webhook's URL), its webhook |
| `polls`, `polling` | queued `poll_task_status` messages; running polls with the request id they read |
| `doomed` | the tasks a running monitor has decided to fail, from rows read at its start |
| `notified` | a `deliver_webhook` message was queued |
| `faults` | counts failures of the environment, up to `MaxFaults` |

| Actions | Code |
|---|---|
| `CreateTask`, `DispatchFails`, `CreateEnds` | the four POST handlers, `_dispatch_generation`, `get_session` |
| `SubmitMissing`, `SubmitStart` | `_submit_to_provider` up to the first COMMIT |
| `AttemptAccepted`, `AttemptRejected`, `AttemptUncaught`, `AttemptResponseLost` | one turn of the loop: accepted, one of the four exception types, any other, accepted but an error is seen |
| `CommitProcessing`, `CommitSubmitFailed` | its two ends |
| `WorkerLost`, `Redelivered` | Celery with `task_acks_late`: a pool process that dies loses the message, a worker that dies gives it back, even after the last COMMIT if it has not acknowledged |
| `JobEnds`, `HookLost`, `HookDuplicated` | Fal.ai (external) |
| `HookHandled`, `HookCommit`, `HookRollback` | `handle_fal_webhook` up to the notification, the COMMIT, or a 500 that makes Fal.ai try again |
| `Age`, `MonitorScan`, `MonitorCommit`, `MonitorDies` | time passing, `_check_stuck_tasks` |
| `PollReturns`, `PollStart`, `PollCommit`, `PollNotify`, `PollLeavesTask`, `PollDies` | `_poll_task_status` |

The environment is the constant `Hazards`, a set of what it may do. A theorem or a run
about a benign environment restricts that set, so the same module answers what holds
always and what holds only while nothing goes wrong. `early_delivery`, `early_hook` and
`slow_submit` are orders of ordinary events and are not bounded; every other hazard counts
against `MaxFaults`. An uncaught exception and a rejected submission are ordinary results
and are not hazards.

### Billing: state and actions

`Authenticate` takes a connection and loads the user's row; `Admit` is the price and the
check in `create_generation_task`; `Charge` is `charge_balance`, whose second check reads
the same object (SQLAlchemy's identity map returns what the session already holds) and
whose UPDATE computes the balance in the database and keeps the row locked until
`CommitCharge`. `Rollback` is any exception, or a dispatch that fails. `RefundBalance`,
`HandleEvent` and `SetPrice` are the other writers; each is one transaction and waits for
the row's lock. `seen`, `after` and the phase are the request's; `cost` remains as
`Task.cost` once it is charged.

### Accounts: state and actions

| Variable | In the code |
|---|---|
| `register` | how far a `POST /auth/register` is: the name was found free, the row is flushed, committed, 409, or 500 |
| `account` | the registration whose `api_key_hash` is in the committed row of a user |
| `answered` | the registrations whose client holds its key |
| `usd` | the amount of a checkout, in thousandths of a dollar: more decimals than cents have |

| Actions | Code |
|---|---|
| `CheckName`, `InsertUser` | `register_user`: the SELECT, and the INSERT that waits for an uncommitted row of the same name and fails on a committed one |
| `CommitUser`, `RollbackUser`, `Answer` | `get_session` after the `yield`, and the 201, in either order (`requirements.txt` admits FastAPI versions with both) |
| `CreateCheckout` | `create_checkout`, with its two truncations `Cents` and `Announced` |
| `AuthenticateUser`, `PayFor`, `HandleUserEvent` | the steps of `Billing` with the guards that need an account; `CentsToTokens` is `_cents_to_tokens` |

### WorkerPool: state and actions

| Variable | In the code |
|---|---|
| `queue`, `slot` | the Redis list; what each pool process executes, for a scan with the rows left, failed and refunded so far |
| `status` | `Task.status` with QUEUED and PROCESSING as one |
| `updated`, `horizon` | `Task.updated_at`, as a stamp: the first row that is submitted has 1, and 0 stands for a row that has not been; the last stamp that is older than five minutes |
| `known`, `job`, `hook` | the rows with a `fal_request_id`; the job of a task; its webhook, whose transaction may hold the row |
| `limit` | `list_stuck`'s limit; any value of `Limits`, chosen at the start |

| Actions | Code |
|---|---|
| `CreateTask`, `BeatTicks`, `Age` | a committed task with its message, Celery Beat, five minutes |
| `Submit` | `_submit_to_provider`, quick enough to be one step here |
| `PollStarts`, `PollReturns` | a poll that ends at once or keeps its slot as long as the job runs |
| `ScanStarts`, `ScanPolls`, `ScanFails`, `ScanRefunds`, `ScanCommits` | `_check_stuck_tasks` row by row: a row lock on the task, one on its user, and the COMMIT that releases them |
| `HookLocks`, `HookRefunds` | `handle_fal_webhook`: the task's row, and after an error the user's |
| `ScanAborted`, `HookAborted` | PostgreSQL aborts a transaction of a deadlock (`Deadlocked`, a set of transactions that wait for each other) |

### Callback: state and actions

An execution looks at the rows of its task only, and they all have the task's
`callback_url`, which never changes; so a model of one task with all its messages is
complete. A `Call` is one `deliver_webhook.delay`. Its first message and those that `self.retry`
publishes are different messages (`Message == Call \X Slot`), each with a life of its own, because two
of them are alive when a worker dies after it has published the retry.

| Variable | In the code |
|---|---|
| `row`, `attempts` | `WebhookDelivery.status` and `attempts` |
| `phase`, `retries` | where a message is: not published, in the broker, posting, answered, giving up, retried, done; `self.request.retries` |
| `found`, `read` | the rows an execution has loaded, and their attempts as it loaded them |
| `posts`, `faults` | requests made for a call; failures so far |
| `source` | whether a call was made and its caller has committed: at once if it is a poll, later if it is a webhook (`Hook`) |
| `payload`, `told` | what an execution read of the task and posts, the outcome or an older status; what the client has taken |

| Actions | Code |
|---|---|
| `Delay`, `CommitSource` | `deliver_webhook.delay`: in `handle_fal_webhook` before the COMMIT, in `_poll_task_status` after it |
| `Begin` | `send_webhook` up to the request: the first row with this URL, or a new one that is not yet committed |
| `Post` | the client's answer; a client that does not answer may have taken the request |
| `CommitDelivered`, `CommitPending` | `update_attempt` with what was read, and the COMMIT |
| `Retry` | `self.retry`: the next attempt is published; the message that was executed is `retried`, and not acknowledged before the execution has ended |
| `MarkRead`, `MarkCommit` | `_mark_webhook_failed`: the rows it loads, and its COMMIT |
| `Dies`, `Redelivered` | an exception that is not caught or a lost process; a worker that dies before it acknowledges, in the middle, after the last COMMIT, or after `Retry` |

`Begin` commits nothing: two executions that both find no row create one each, which is why
there are two ids in the instance and why `PendingIsWorkedOn` speaks of one row. A transaction that rolls back after
its message was queued is one that never commits.

### RateLimiter: state and actions

| Variable | In the code |
|---|---|
| `members`, `keyExpires` | the sorted set, a score and a random number per member, and its EXPIRE |
| `blockedUntil`, `blockExpires` | the block key and its EX |
| `time` | the clock of Redis, by which keys expire |
| `log` | the requests that were admitted or began a block; for the properties only |

Redis runs a script as one step, so a request is one action: `Refuse`, `Block` or `Admit`, in
the script's order of tests. `now` is an argument, the reading of the caller's clock, and
reaches Redis late; both are covered by letting it be at most `Lag` away from the clock of
Redis. A member is the reading and the script's `math.random`. The generator starts
from the same seed in every script, so two requests with the same reading may be
the same member, and the second replaces the first: a number is chosen from `Nonce`, and
`WindowBound` counts members, not requests. If Redis does not answer, the middleware
lets the request pass or fails it, and the state of the limiter is untouched: not a step.

### Failover: state and actions

| Variable | In the code |
|---|---|
| `attempt`, `phase` | the loop of `_submit_to_provider`, and what its turn is doing |
| `failures`, `lastFailure`, `open` | the fields of `CircuitBreaker` |
| `time` | `time.monotonic()` |
| `calls`, `holder` | when each provider was called, for the properties only; which one has accepted the job |

`AskPrimary` and `AskFallback` are `_active_provider`, with what reading `is_open` does to the
breaker: it half-opens by forgetting all failures. `Accepted`, `PrimaryFails`, `FallbackFails` and
`RescueFails` are the ends of `FallbackProvider.submit`; a primary whose failure opens the
breaker is followed by the fallback in the same attempt. `CommitFails` is an error while the
request id is stored, which the loop treats as a failed attempt. `NextAttempt` and `GiveUp`
are the loop's. `Poll` is `get_result` in a later Celery task, whose new breaker is closed. `SameKey`
says whether the fallback's key belongs to the same account, as it does when
`fal_key_fallback` is empty. One execution is complete, because each Celery task makes a breaker of its
own and makes its calls one after the other. `RecoveryTimeout` and `Threshold` are assumed
to be positive, as in the defaults.

## Properties and runs

| Run | Instance | What it shows |
|---|---|---|
| `gen_faults` | 1 task, 2 jobs, a monitor, a poll, 2 attempts, 2 faults, every hazard, fairness | `TypeOK`, `OnlyCommittedTasksRun`, `ProcessingNamesJob`, `ResultOfOwnJob`, `Linked`, `RefundsBounded`, `RefundStep` hold whatever happens, and `SettlesOrStranded`: a committed task ends, except in the two states the property names |
| `gen_contract` | 2 tasks, 2 jobs, 1 monitor, hazards `early_delivery`, `error`, `hook_lost`, 2 faults | `SettledOnce`, its inductive form `BenignInv`, `OutcomeIsAnnounced`, and the implementation of `TaskContract` (`ContractSpec`) |
| `gen_commit_race` | 1 task, hazard `early_delivery`, fairness | violates `PickedUp` |
| `gen_lost_hook` | 1 task, hazard `hook_lost`, fairness | violates `ErrorIsRefunded` |
| `gen_dup_hook` | 1 task, hazard `hook_dup` | violates `SettledOnce` |
| `billing` | `Accounts`: 2 registrations of a user, 2 requests on 2 connections, prices of 0 and 1.5 tokens, a checkout of 1.0 or 1.9 cents and a direct payment, one repetition each | `TypeOK`, `OverdraftBounded`, `LedgerBalances`, `CreditedPerDelivery`, `AccountsTypeOK`, `AnsweredKeyWorks`, `QuoteKept` |
| `billing_overdraft` | `Billing`: 3 requests of a user on 2 connections, prices 0..2 | violates `NoOverdraft` |
| `callback` | 2 calls, one of a webhook and one of a poll, with up to 3 messages each, 2 rows, 1 retry, 1 fault, both hazards, fairness | `TypeOK`, `StatusIsTrue`, `AttemptsWereMade`, `PostsBounded`, `PendingIsWorkedOn`, `ToldOutcome`, `MessageEnds` |
| `callback_attempts` | 1 call, the default of 5 retries, no hazard | violates `AttemptsAsDocumented` |
| `failover` | 4 attempts, threshold 2, recovery after 2 of 6 units of time, two accounts | `TypeOK`, `FallbackBounded`, `GivenUpMeansBoth`, `PrimarySpared`, `PolledInVain` |
| `workers` | 2 tasks of a user, 2 slots, a monitor that reads 1 row or 2, fairness | `TypeOK`, `MonitorsLockInOrder`, `EveryTaskEnds` |
| `ratelimit` | 2 requests in 4 s, blocks of 6 s, lag 1 s, 2 numbers, 7 s, 6 logged requests | `TypeOK`, `WindowBound`, `BlockObeyed`, `BlockEnds`, `BlockIsJustified`, `EveryBlockIsEarned` |

Why these bounds are enough. The actions of `Generation` work on one task, except the
monitor's, which treats its tasks alike; so one task with every hazard, and two tasks
with few of them for the monitor's transaction over both, show the interactions. Two jobs
are needed for a resubmission (an attempt that was accepted without the worker knowing,
or a redelivery) whose webhooks race; a third adds nothing that two do not. One monitor and
one poll keep the liveness check within reach; that two of each change nothing is
proved, for all the invariants of `gen_faults` hold for every set of them, and monitors that
overlap run in `workers`. Two faults allow, for example, a redelivery and a repeated webhook
in one behaviour, on top of every order of ordinary events. Two attempts stand for three:
first, last.

In `billing` two requests share a balance, two registrations a name, and the two payments cover
both endpoints; that more requests and connections are no different is proved
(`OverdraftIsBounded`). Of the two amounts one is a whole number of cents and one is
truncated, and at 150 tokens per dollar a cent is 1.5 tokens, so that both roundings bite.

In `Callback`, two calls that race are the smallest case in which an attempt is lost, DELIVERED
is overwritten, or an old status is delivered before the outcome; one retry gives a first
and a last attempt; the one fault can fall into any of them, or between a retry and the
acknowledgement. Three messages per call are as many as it can need then: the first, its retry, and the
retry of the first when that comes back (`MessageEnds` would fail if `Retry` ever lacked one). Two
webhooks, more calls and more failures are left to the theorems, which hold for every set of them. In `WorkerPool`, two slots are
enough for polls to fill the pool and for two monitors to overlap; with a limit of one
row, a single dead task hides the other; and two tasks of one user are enough for a monitor
and a webhook, or two monitors, to wait for each other's rows. `MaxBacklog = 0` lets Beat put a
scan into an empty queue only: more scans in a row find nothing that one does not, and
the queue still grows by polls and submissions.

In `RateLimiter`, the window is longer than twice the lag, so
that the bound speaks of more than one instant, the block is as long as
`EveryBlockIsEarned` asks for, and the run is long enough for a whole window to pass and for
a block to end by either clock. The bounds are tight: in the same instance `Window - 2 * Lag + 1`
in `WindowBound` is violated, and so is `EveryBlockIsEarned` with a shorter block. (The
defaults, a window and a block of 60 s, give it only as long as clocks agree.)

In `Failover`, four attempts are enough for the breaker to open, recover, and open again, and
the threshold of two tells the first failure from the one that opens it; `FallbackBounded`
is reached.

Jobs, idle monitors and polls, requests and random numbers are interchangeable, so the
safety runs use symmetry; the runs with fairness do not. The bounded instances of
`Generation`, `Callback` and `Failover` stop when every task, call or attempt is done
and no fault is left, and that of `RateLimiter` stops its clock, so deadlock is not checked
there. It is in `billing` and in `workers`: whatever waits for a slot or a row, something can move.

The three kinds of property:

- **Whatever happens.** A PROCESSING row names a job of its task, so a poll can find the
  result; a COMPLETED task is the outcome of a job of its own, with a url only if that job made
  media, and no empty outcome replaces media as long as nothing has failed; after a failure there can be two
  jobs, and the webhook of either overwrites the result of the other
  (`handle_fal_webhook` writes `result_url` whatever it was), which `ResultOfOwnJob` allows; FAILED means refunded, on each path and in one transaction; nothing is
  done for a request that rolled back although its message was sent. `RefundsBounded` says what
  failures can cost: a task has at most `1 + Cardinality(Monitor)` refunds, and as many again
  for each failure.
- **While every message is handled once** (no duplicates, losses of workers, slow
  submissions or webhooks that overtake): a charge is settled once, and the row never
  leaves the life cycle. `BenignInv` says how far row, submission and job can be apart. `OutcomeIsAnnounced`: a client with a
  callback_url is told that a job failed, for the message is queued before the COMMIT. That it is COMPLETED
  can be kept from it, if Fal.ai gives up on the webhook and the broker refuses the poll's message after its
  COMMIT (an exception in `deliver_webhook.delay`, or the end of the process); the property
  says that it takes both, and `gen_contract` with its two faults reaches that case.
- **Eventually.** `Fairness` assumes that an open request ends, a submission goes on, the
  clock advances, Beat keeps starting the monitor, its transaction commits or fails, a
  poll that runs goes on and the provider ends its jobs and delivers what it does not
  give up on – weak fairness, because nothing else disables these steps for good. Strong
  fairness is assumed for taking a queued poll: slots become free and are taken
  by other messages, but the broker's list is first in, first out. Nothing is assumed of
  clients or faults. In `Callback`, the execution of some message is weakly
  fair, not of each: as long as there is something to execute, workers go on with some of it. In `WorkerPool`, Beat, the
  clock, the provider, each slot and the pool's taking of messages are weakly fair, and so is
  PostgreSQL's breaking of deadlocks – of some transaction in it, not of a given one. Strong
  fairness is assumed for a scan that waits for a task's row and a webhook that waits for
  its user's: other transactions lock these rows again and again, but whoever waits is
  granted the row before those who come later. Celery and uvicorn give no stronger guarantee than these, and
  PostgreSQL grants row locks in order.

`SettlesOrStranded` names the two states that are left. A task whose message was spent too
early stays in `created`. A task that names a job without media, whose webhook is
used up, stays in PROCESSING – or in QUEUED, when a message that was redelivered after the
last COMMIT put it back there before its worker died: the row still names the job, so the
monitor polls instead of failing it, and the poll writes nothing.

What concurrent deliveries cannot do to one another is less obvious than what they can.
Attempts are lost and DELIVERED is overwritten, but a row is never left PENDING with
nobody working on it, because whoever commits last is either still to come back or has
decided; and `attempts` never exceeds what was sent. With two rows this is not so: a
message may leave one and continue on the other. A client that is told an old status, and
whose row is DELIVERED by that, still hears of the outcome from any message that is executed
after the COMMIT (`ToldOutcome`), because `send_webhook` does not look at the status of the row it
finds.

`EveryTaskEnds` says what the pool can do to tasks that have nothing to do with each other. Polls
of slow jobs hold every slot for a while, but each job ends; Beat fills the queue, but the
queue is FIFO. What remains is the list: a dead row (`Dead`: its job failed, its webhook was lost,
and a poll writes nothing, so that its `updated_at` stays) is read by every scan in front of
younger ones, and `limit` of them hide all that follow (`Hidden`). Deadlocks do not add to this:
they roll back a batch, which the next scan finds again, or a webhook, which Fal.ai sends
again. Scans do not deadlock among themselves as long as they see the same rows
(`MonitorsLockInOrder`); the exception it names is real and is reached in the instance.
More is true: only one of them at a time has locked rows that are still open (`MonitorsTakeTurns`).

### What the violations show

1. `gen_commit_race`: `submit_generation` can run before the row is visible; its message is
   then spent and the charged task stays `created`, outside the monitor's query.
2. `gen_lost_hook`: `FalProvider.get_result` never reports an error, it raises; the poll
   swallows the exception. A failed job whose webhook is lost is polled for ever and
   not refunded.
3. `gen_dup_hook`: `handle_fal_webhook` does not look at the status, so a repeated error
   webhook refunds twice.
4. `billing_overdraft`: both balance checks compare with the row as it was at
   authentication. Concurrent requests drive the balance below zero – by at most
   `PoolSize - 1` times the highest price (`OverdraftBounded`, proved).
5. `callback_attempts`: `webhook_max_retries` is compared with the number of retries, not of
   attempts, so a client that does not answer is called six times; `README.md:14` says five.

One disagreement is a theorem instead: with the defaults, three attempts never reach the
threshold of five, so the fallback provider that `README.md:18` announces is never called
(`FallbackUnreached`). Where the threshold is within reach, `GivenUpMeansBoth` says that the
fallback does its work, although the breaker may forget its failures between attempts. A poll of
a job that the fallback holds asks the primary: in vain if the accounts differ
(`PolledInVain` says when), and the task is left to its webhook.

## What is proved

All by TLAPS, for every set of tasks, jobs, users, requests, payments, every bound, and –
where not said otherwise – every set of hazards. The assumptions on the constants are
`GenerationAssumption`, `BillingAssumption`, `AccountsAssumption`, `CallbackAssumption`,
`RateLimiterAssumption`, `FailoverAssumption` and `WorkerPoolAssumption`. They say that
bounds are numbers, that a request, task or payment has an owner, that the sets whose sizes are
counted are finite, and that identities of different kinds differ. All safety properties that a
passing run checks are theorems, the type invariants among them.

- `TypeCorrect`, `BillingTypeCorrect`: type correctness, action by action.
- `LinksHold`, `ResultsHold`: `OnlyCommittedTasksRun /\ Linked` is inductive on top of
  `TypeOK`; with it, `ProcessingNamesJob`, `ResultOfOwnJob` and `FailedIsRefunded` are.
  `Linked` is needed because a poll or a worker commits what it read long before: the job
  it remembers must still be one of its task's. `OneJobInv` says that without a failure a task has at
  most one job, so nothing can overwrite its media. (`ProcessingNamesJobHolds`, `FailedIsRefundedHolds` and
  `LinkedHolds` state the parts by name.)
- `RefundsFollowFailures`: the action property `RefundStep`, from the same invariant. It implies
  `FailedIsRefunded`, which no run checks for that reason.
- `ClaimsInvHolds`, `RefundsBoundedHolds`: besides the refunds a task has had, `Claims` counts those that may
  come without another failure: one from the submission or from the job it gets accepted, one from each
  webhook that is not done, one from each monitor that has found the row or can find it as it is
  (QUEUED, no request id). Every step without a failure takes from one of these what it
  adds to another; a failure adds one message, one job or one delivery, so `1 + Cardinality(Monitor)`
  at most. The bound is reached: a submission that takes too long and a monitor
  refund one task twice without a failure, and with one redelivery four times.
- `BenignInvHolds`, `SettledOnceHolds`: under the assumption `Benign` on the constants,
  `BenignInv` is inductive and implies `SettledOnce`. The strengthening is what a reader
  of the code has in mind: while a submission runs the row is QUEUED and fresh, a monitor
  dooms only tasks whose submission is over without a job, and a webhook that is still
  being handled finds its task in PROCESSING.
- `CompletionIsAnnouncedHolds`, `OutcomeIsAnnouncedHolds`: a webhook that is about to commit has queued its
  message (`Told`). So a completion that nobody announces needs a webhook that was lost (`LostHook`)
  and a poll that is gone (`Silent`), and each of them takes a failure (`Paid`); this half asks nothing of the
  environment. The other half, under `Benign`: a row with a job is failed by its webhook only.
- `ContractImplemented`: under `Benign`, every step of `Generation` is a step of
  `TaskContract` or a stutter (`Spec => ContractSpec`).
- `CreditedPerDeliveryHolds`: with the fact that an event that was not sent was not
  repeated.
- `OverdraftIsBounded`: the invariant is that the balance plus
  `(PoolSize - 1) * MaxPrice` covers `Owed`, the set of tokens the open requests saw and
  may still spend, cut off at the highest price. A new request sees at most the balance
  while at most `PoolSize - 1` others are open; a charge leaves with its own claim; the
  row lock keeps the balance an uncommitted charge will write up to date.
- `AccountsImplementBilling`: every step of `Accounts` is one of `Billing` or leaves its variables alone, so
  the theorems above hold of it (`AccountsOverdraftBounded`).
- `AccountsTypeCorrect`, `AnsweredKeyWorksHolds`: at most one registration of a name is inserted and not yet
  committed, and none beside a committed one; that is what the unique index gives, and with
  it a committed row is never replaced.
- `QuoteKeptHolds`: from the lemma `Truncation`, integer arithmetic about `\div`, and the invariant that a
  credit has an opened checkout and its amount is that of the cents.
- `CallbackTypeCorrect`, `PostsBoundedHolds`, `StatusIsTrueHolds`: `AttemptInv` ties the posts of
  a call to the retries and phase of its messages: who has reached `marking` has posted more
  than `MaxRetries` times, and that is what makes FAILED true. For the bound, `Due` is what a message and
  its retries may still post, `MaxRetries + 1 - retries` before its request; a retry takes over what is due of the
  message it comes from, and a call's posts and all that is due of its messages never exceed
  `(MaxRetries + 1) * (1 + faults)` (`DueInv`), for a message that comes back makes at most
  `MaxRetries + 1` requests due again.
- `PendingIsWorkedOnHolds`: `PendingInv` says of a row that it is not PENDING or that some
  message will still decide it; `FoundInv` that an execution has found at most the row
  it works on, so that with one row they all decide the same one.
- `ToldOutcomeHolds`: a payload is read when its execution begins, what was accepted was told, and a message
  ends by telling or by giving up (`ToldInv`).
- `RateLimiterTypeCorrect`: with the size of the set, `SizeInv`: never more members than
  `MaxRequests`, whatever the clocks read.
- `BlockEndsHolds`, `BlockObeyedHolds`: as long as a block is in force by any clock
  within `Lag`, the key holds a time at least as late (`InForceInv`), and a key that
  is set was set by a block that has not run out (`BlockKeyInv`).
- `WindowBoundHolds`: an admitted request young enough to share a stretch with one that
  is still to come is still in the set (`MemberInv`), so a stretch that a new member
  joins lies in the set that was counted (`StretchInv`).
- `BlockIsJustifiedHolds`: each member stands for an admission (`SourceInv`), so a full window is the image
  of at least `MaxRequests` of them.
- `EveryBlockIsEarnedHolds`: the admissions that paid for earlier blocks are older than the window of any
  request that is not refused (`UnblockedIsLate`), so a new block finds `MaxRequests` others
  (`Paid`).
- `FailoverTypeCorrect`, `FallbackBoundedHolds`, `FallbackUnreached`: an open breaker has counted
  `Threshold` failures, and never more than attempts were made (`FailureInv`), so the
  fallback's calls fit into the attempts from the `Threshold`-th on.
- `GivenUpMeansBothHolds`: `BothInv`: as long as the fallback was not called and nothing
  succeeded, no failure was forgotten, so the count is the number of attempts.
- `PrimarySparedHolds`: since the last pause the primary was called once for each counted
  failure (`Burst`); a call after a recovery follows a pause and starts anew.

- `PolledInVainHolds`: as long as the breaker is closed its failures are calls of the primary, so one that is
  open has seen `Threshold` of them (`VainInv`).

- `LedgerAlwaysBalances`, `AccountsLedgerBalances`: a sum over a set is written as the size of a set
  (`Totals`), because what a fold computes cannot be proved by induction here. `TotalGrows` says
  that raising one value by `n` raises the sum by `n`; each writer of a balance raises one value
  of one of the three functions. Only a charged task is refunded, and its cost does not change any
  more, whatever the price list says by then (`LedgerInv`).
- `AttemptsWereMadeHolds`: an execution writes what it read plus one, which may be less than what is
  there by now, so that `attempts` alone is not inductive. `RecordInv` bounds every sum that
  the rows may come to have by the writes that are still to come, in whatever order.
- `WorkerPoolTypeCorrect`, `MonitorsTakeTurnsHolds`, `MonitorsLockInOrderHolds`: the inductive invariant is
  `PoolInv == TypeOK /\ QueueInv /\ StampInv /\ ScanInv`. A task has at most one submission in the
  queue, and only while it is `created` (`QueueInv`). Until that is taken its row has no stamp, no
  request id, no job and no webhook; then it gets one that is younger than all others
  (`StampInv`). What a monitor has locked is older than what it has yet to look at, has no
  request id, and every open row that is older than one on its list is on the list too
  or has a request id (`ScanInv`); for the LIMIT of the query that is the lemma `ListClosed`. So if two
  monitors have locked open rows, the one with the younger row would first have had to wait for
  the older one: one of the rows is no longer open.
- `LocksExclusiveHolds`, `PollsNeverWaitHolds`: two facts that the model of locks rests on. No row is locked
  twice, which needs that a scan refunds one user at a time (`LockInv`). And `PollReturns` rightly
  has no guard for the row: who polls has a request id, and no monitor fails such a row
  (`PollInv`), and a webhook keeps the row only after an error, when a poll stores nothing.

Model-checked only: `SettlesOrStranded`, `MessageEnds` and `EveryTaskEnds`, since liveness under fairness and
ENABLED are beyond the prover; and, of `WorkerPool`, that it does not deadlock as a whole.

## Abstractions

- Prompts, parameters, results, error texts and formats are left out; a job ends with
  media, without (`empty`) or with an error.
- In `Generation`, time is the flag `stale`. Back-off between attempts, Beat's interval and timeouts are
  orders of events.
- In `Generation` and `Billing` a transaction that holds a row lock for a while without reading anything
  else (refund, top up) is one step, and a deadlock abort is one of the rollbacks; `WorkerPool`
  has the locks one by one.
- Prices are natural numbers. (The admin panel does not refuse a negative price.) Amounts are
  in hundredths of a token, checkouts in thousandths of a dollar.
- API keys and their hashes are identities: the key of a registration is the registration.
- In `WorkerPool` the stamps of two rows differ and follow the order of the COMMITs. Rows that were
  submitted at the same moment may be the other way round in the code, but nobody reads their order
  for five minutes, and then it is the same for all who read it.
- In `WorkerPool` a task is submitted once and a submission is one step, whose waiting for the user's
  row is a guard; QUEUED and PROCESSING are one; a poll that ends with an error stands
  for every poll that writes nothing. Messages of `deliver_webhook` are left out: they
  are short and end whatever they find.
- Signature checks of webhooks, listing, status and download endpoints only read.
- `dry_run` disables the dispatch and is a test setting.
- In `Callback` the payload is reduced to whether it tells the outcome; the response code and the
  interval between retries are left out.
- Of the connection pool only its size is modelled, for one uvicorn process
  (`Dockerfile`); waiting for a connection and the 30 s timeout are not.

## Not modelled

- The edit forms of the admin panel. A user's form writes back the balance it was opened with and
  undoes what happened in between; which columns it writes is decided by sqladmin, not here.
  Price edits are in `Billing` (`SetPrice`).
- The web page, metrics, logs, configuration and the read-only endpoints: no component reads back
  what they keep.
- Signatures and tokens of webhooks: only genuine events occur.
- That a task failed by the submission or the monitor is never announced to its client is a
  fact of the code with no sentence of the repository for or against it; it is listed as a hazard.

## Plan

1. `Service`: `Generation` and `Billing` composed, the refund of the one being the credit of
   the other, with tokens conserved over a task's life.
2. A theorem that bounds how many rows can be `Dead` at once.
3. Two pools: more slots than two, with limits and users to match, as far as TLC reaches.
