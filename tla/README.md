# Formal models of the Genos API

TLA+ specifications of the parts of this backend whose correctness depends on
order, interleaving and failure rather than on single functions, TLC
configurations that check them on small instances, and theorems that TLAPS
proves for every instance.

The repository is a Django application: a REST API for chat, tasks, notes and
projects, an AI agent ("Spotlight") that answers questions and proposes writes,
a search index in OpenSearch, billing through Stripe, and commands that a
scheduler (Railway cron) starts every few minutes. Requests run in gunicorn
workers; two of them may run anywhere at the same time, most of them without a
transaction (`ATOMIC_REQUESTS` is off), and any process may be killed by a
deploy. What they share is PostgreSQL and Redis. No component has locks of its
own beyond row locks and constraints: the protocols modelled here are made of
guarded `UPDATE`s, unique constraints, `on_commit` callbacks and crons that
repair what was left behind.

## 1. Inventory

"Modelled" names the module. The rest is listed in `PROJECT.json` with the
reason, and in section 8.

### Agent runs (`search_engine/agent_views.py`, `agent/controller.py`, `models.py`, `stale_runs.py`) — `AgentRun`

* State: the `AgentRun` row (status, `pending_approval_token`, `finished_at`),
  its `AgentStep` rows, and per streamed request a worker thread, an event queue
  and a response generator.
* Operations: POST `/ask/` starts a leg; the loop calls the model, runs read
  tools, and stops at the first write tool with a pending step and an approval
  card; the stream parks the run; POST `/decide/` consumes the token and starts
  another leg, which runs or rejects the write and loops on. The cron
  `reap_stale_agent_runs` closes abandoned runs; deleting a conversation erases
  runs that are not in flight.
* Hard: two decides for one card, a decide before the park is saved, clients
  that disconnect while the worker is in a model call, processes that die
  anywhere, step writes that are best effort, a reaper that closes a live run.
* Correct when: a write runs at most once and only if its own card was
  approved; one leg streams at a time; the row holds a token exactly while it
  waits; nothing streams for ever; a closed or erased run stays that way.

### Webhook outbox (`management/commands/webhook_deliver_tick.py`, `services/webhook_delivery.py`, `models/common/webhook_models.py`) — `WebhookDelivery`

* State: `WebhookDelivery` rows (status, attempts, next attempt, claim stamp),
  `WebhookEndpoint` rows (active, consecutive failures), and the rows a pass has
  read into memory.
* Operations: sweep stale claims, select due rows, claim them by a guarded
  update, read them back, post each, record the result on the row and on the
  endpoint.
* Hard: overlapping passes, a pass that dies after a post, endpoints deleted and
  keys lost in the middle of a pass, counters written from old copies.
* Correct when: no row is stranded, posts are counted, settled rows stay
  settled, every event is settled in the end.

### Webhook events (`services/webhook_enqueue.py`, `signals/task_signals.py`) — `WebhookEnqueue`

* State: a registry of pending events on the database connection, Django's stack
  of savepoints and its list of callbacks.
* Operations: saves of a task schedule an event; callbacks after the commit hand
  it to the outbox.
* Hard: rollbacks take callbacks away and leave the registry; saves without a
  transaction call back at once; callbacks that save tasks themselves; the
  callbacks of other receivers of the save in the same list.
* Correct when: each transaction announces a task once, only if it changed it,
  and in a state that was committed.

### Credit ledger (`search_engine/credit_ledger.py`) — `CreditLedger`

* State: append-only `AiCreditEntry` rows; balances are sums over them.
* Operations: monthly grant on the first read, charge, credit pack (with the
  absorption of debt), manual grant, reversal.
* Hard: check-then-insert races that rest on partial unique constraints, plans
  taken from a cached tier, debt read by three queries, redelivered checkouts,
  month boundaries.
* Correct when: a month is granted once, the allowance is spent before packs,
  and a pack is worth its size whatever was owed.

### Settlement (`search_engine/spend_recorder.py`, `agent_views.py`, `ai_cost_report.py`) — `RequestSettlement`

* State: spend events, one `AiRequestCost` row per request id, the charge.
* Operations: record, close, settle, link a resumed leg to the request, rebuild.
* Hard: an ask has several legs in several processes, each closes the same row,
  any accounting write may be lost, and a rebuild may run at any time.
* Correct when: an ask is charged once, for all its legs, and only if it
  answered.

### Change feed (`services/change_feed.py`, `services/task_cache.py`) — `ChangeFeed`

* State: a version per collection, the cached answer, the keys a thread has
  pending, what each client holds.
* Operations: bump, flush (clear the cache, then move the version), poll,
  refresh, answer from the cache or from the rows.
* Hard: the database and the cache are not one transaction; pending keys outlive
  rollbacks; readers straddle commits.
* Correct when: every commit moves the version, a client up to date by its token
  holds the content, and every client catches up.

### Member schedules (`services/schedules.py`, `management/commands/schedule_tick.py`) — `MemberSchedule`

* State: the `MemberSchedule` row (next run, enabled, zone, claim stamp, failure
  count), the member's zone and membership, the Inbox items filed per run.
* Operations: a tick follows changes of zone, lists what is due, claims a row,
  reads it again, runs the job, files the report under the lock of the row and
  writes the outcome if its claim stands; the member creates, edits, renames, pauses, resumes and deletes.
* Hard: overlapping ticks, a tick that dies or outlives its claim, an edit under
  a running job, local times that do not exist.
* Correct when: a moment runs once and when due, is reported once, none is
  dropped, and what the member did last stands.

### Automatic blocking (`services/task_blocking.py`, `signals/dependency_signals.py`) — `TaskBlocking`

* State: task statuses and dependency rows, and what each request has read.
* Operations: saving a task, adding and removing a dependency and deleting a task
  each set off a sync of the dependents inside the request.
* Hard: a sync reads, counts and saves without a lock; its own save runs the
  receivers again; a save writes every column back; deletes hold a transaction open and put syncs off until it commits.
* Correct when: a task is blocked exactly while it has an open blocker, no
  status but Open, WIP and Blocked is changed automatically, and the recursion
  of the receivers ends.

### Incremental sync (`views/utils/incremental.py`, task and message lists) — `IncrementalSync`

* State: rows with the stamp of their last save, open transactions, the cached
  full answer, per client a checkpoint and a copy of the list.
* Operations: a full or a delta answer, made of two queries and a time taken
  before both; a full answer from the cache, or put there; clearing it, in the
  save and after the commit; the client's comparison of count and id sum.
* Hard: a row is stamped when it is saved and seen when its transaction commits;
  an old answer from the cache carries a new time; hard deletes leave no trace;
  answers get lost.
* Correct when: what a checkpoint has passed is held, and every client ends with
  the rows there are.

### How they meet

A task save calls both `WebhookEnqueue` and `ChangeFeed` from its signal
receivers; the outbox rows it creates are drained by `WebhookDelivery`. The
stream of a leg of an agent run closes the run (`AgentRun`) and then its cost
row (`RequestSettlement`), whose credits become a charge row of the
`CreditLedger`. Here the models are kept apart at the row they exchange:
`WebhookDelivery!Enqueue` takes any row, `RequestSettlement` carries the part of
the run's life that it needs (running, awaiting, final), and
`CreditLedger!PostCharge` takes any cost. The saves of `TaskBlocking` are saves
like any other to the webhook registry, the change feed and the stamps that
`IncrementalSync` reads. The cached full answer is in two models: `ChangeFeed`
is about the threads that clear it and the version a client compares,
`IncrementalSync` about the time it is sent with.

## 2. Modules

| module | role |
| --- | --- |
| `ApprovalGate` | abstract: what an approval flow promises (cards one at a time, answered once, executed once) |
| `AgentRun` | the run, its rows, legs, threads and crons; implements `ApprovalGate` |
| `AgentRunProofs` | its theorems |
| `Outbox` | abstract: what an outbox promises of each event |
| `WebhookDelivery`, `MCWebhookDelivery` | the passes over the outbox; implement `Outbox` |
| `WebhookDeliveryProofs` | their theorems |
| `WebhookEnqueue`, `WebhookEnqueueProofs` | registry and callbacks of one connection |
| `CreditLedger`, `MCCreditLedger`, `CreditLedgerProofs` | the ledger of one user |
| `RequestSettlement`, `RequestSettlementProofs` | the billing of one ask |
| `ChangeFeed` | one collection of one project |
| `MemberSchedule`, `MCMemberSchedule`, `MemberScheduleProofs` | one schedule and the ticks over it |
| `TaskBlocking`, `MCTaskBlocking`, `TaskBlockingProofs` | statuses and dependencies of a few tasks |
| `IncrementalSync` | a list, its writers and its clients |
| `ClientProofs` | the theorems of both models of what a client holds, `ChangeFeed` and `IncrementalSync` |

An `MC` module holds what a `.cfg` cannot write (functions and records as
constants, symmetry, a state constraint); modules without one are checked
directly.

Each module defines, before some of its definitions, variants whose comments
begin with "Slip:". They are how that piece of code could plausibly be wrong (a
dropped guard, a swapped order) and are used by no specification. `PROJECT.json`
pairs each property with the slip that must break it: it shows that the
property depends on the code it is about.

## 3. From code to model

Common to all modules: one action is one statement, or one transaction, that
other processes can see; requests that are refused and change nothing are left
out; texts, payloads, timestamps and money are reduced to what the properties
tell apart. A variable marked `(history)` records something for a property and
is read by no guard.

**AgentRun.** One run. `run` is the row (`old` says that `started_at` has passed
the stale cutoff), `rows` the approval steps, `stream` and `worker` the program
points of each leg's generator and thread, `queue` the event queue between
them, `paused` the pause descriptor the loop returns, `cancelled` the event that
a closed generator sets.
`DecideRead` is the gate on the snapshot and `DecideConsume` the guarded update,
so any number of requests may pass the first. Step writes and the close are best
effort: `WriteRow` and `CloseRun` may be lost (`faults`). `CallModel`, `ReadTurn`, `Propose`,
`Answer` and `WrapUp` are the branches of `_drive_loop`; what the model says is
a choice between them. A disconnect is noticed at a yield only
(`StreamEvent(l, TRUE)`), because that is where a generator is closed, and the
worker notices it between two model calls (`StopCancelled`). `answer` and `ran`
are history: they are what the abstract gate speaks of. Step rows are kept for
write calls only.

**WebhookDelivery.** `delivery` and `endpoint` are the tables; `batch[p]` is the
list of model instances a pass holds, with the values it read. Each `save` and
`update` of the command is an action; `Copy` is the part of a row that is used
after it was read. Stamps are abstract: a claim is `fresh` until `ClaimAges`, a
retry `waits` until `BecomesDue`. The response of a subscriber is a choice in
`Post`. `posts`, `received`, `streak` and `shared` are history.

**WebhookEnqueue.** `pending` is the dictionary on the connection, `hooks` is
Django's `run_on_commit` with the savepoint depth of each callback, `running`
the callbacks of a transaction that has committed. A payload is the number of
the save it was built from. Django is external: `Begin`, `Release`, `Commit`
and `Rollback` do what its `atomic` does. Django filters the callbacks of a block
that rolls back; `Rollback` keeps those of the outer blocks as a prefix (`Outer`),
which is the same, for a callback of a deeper block stands behind them
(`Registering` in the proofs says so). Every save that is no draft also bumps the
change feed (`Bump`), after `schedule_task_event` has looked at the list: the
registry asks whether there is *any* callback. `plain` calls a transaction plain
if its first callback is that of a task save, whatever was registered after it,
the calendar's excepted. `owed`, `due`, `posted`, `undone` and `plain` are
history.

**CreditLedger.** `ledger` is a set of rows whose `id` is the column of the
unique constraint they fall under; the buckets are the sums the code computes
over the same rows. `ensure_monthly_grant` is three steps (is there a grant, how
much is missing, insert); the plan it is called with comes from a tier that is
cached for 60 seconds, so `Look(r, p)` takes any plan the user was ever `told`.
`post_purchase` is four (the three queries of the debt, `CountBought`, `DateBought`
and `ReadDebt`, and the insert in a transaction), `reverse_entry` two. A charge
is of this month or an earlier one, for requests that settle late. `since` and
`crossed` are history: two readers of a month with different plans on their way
at once have `crossed`.

**RequestSettlement.** `leg` holds each leg's stage, `request_id` and cost; `row`
the cost rows; `charge` what the ledger was asked to take. `End` is the close of
the run, after which a decision can start the next leg, and `Close` and `Settle`
come later: this order is the code's, and the window between them is what the
model is about. Spend is summed per `request_id`, as the query does. Prices are
small integers. `overlap` and `raced` are history.

**ChangeFeed.** The content is the number of commits. A thread carries the pending
set (`queued`), whether a flush is registered for the commit (`hook`) and what
is left of the flush (`todo`). A client follows the documented protocol: take
the token, fetch, remember the token it asked with. `announced`, `cleared`,
`made` and `late` are history.

**MemberSchedule.** One schedule. `Moments` is what a recurrence yields in a zone
and `LocalToUtc` what `zoneinfo` makes of a local time, gaps and folds included
(`MCMemberSchedule` checks it against "the first instant the wall clock has
reached it"). `tick[p]` is a record of the program point and of what the tick has
read: `List`, `Rezone` (by the recurrence it listed), `Claim`, `Late`/`Fetch`, the
job, which fails (`Fail`) or is delivered, and `Finish` (the outcome, guarded by
the claim). A delivery takes the lock of the row and looks for the report of its
moment (`Deliver`), and files it or fails when its transaction ends (`File`); in
between every other write of the row waits (`Unlocked`), another delivery
included. `Pass` moves the clock, in units longer than a tick, so only when no tick
is under way; `STALE_CLAIM` is shorter than a unit, so a claim may age at any
moment: for free when its holder is dead (`ClaimAges`), as one of the bounded
events when it lives (`Overrun`). `ran`, `loose` and `told` are history: a moment
becomes `loose` when a second run of it has an excuse, because its claim aged,
the member took it away, a tick read the schedule after its claim was gone, or a
change of zone set the next run back to it or before it.

**TaskBlocking.** `req[r]` is a request with its transaction buffer (`dirty`,
`drop`) and the list of syncs still to do (`todo`). A save is three steps: the
row as `pre_save` reads it (`Stash`), the UPDATE (`Write`, which writes back the
status the request read unless it names one), and `post_save`, which looks at
whether the save crossed the blocking boundary (`Crosses`) and lists the
dependents (`List`). A delete's statements stay in its buffer until it commits
(`Finish`), and rows it wrote are locked until then (`Locked`). A save whose row
is gone is a `Miss`. `byHand` and `raced` are history: `raced` collects the tasks
that a step changed (their status, their dependencies or whether a blocker is
open) while another request was at work on them (`Hands`: it syncs or saves the
task, or its transaction removes a dependency of it or has written it). That two
requests close blockers of a task at once does not count (`Closers`): the
automation is meant to cope with it. `shut` is history too: per request, the
tasks closed when it began or by a member since, less those it has saved itself.

**IncrementalSync.** `Save` stamps a row in an open transaction and `Commit` makes
it visible; `Ask`, `Query`, `Count` and `Receive` are the time taken, the rows
found, the count with its id sum, and what the client does with the answer.
A full answer comes from the cache if it is there (`Hit`) and goes into it if it
was read from the rows (`Fill`), whatever has been committed in between. A save
clears the cached answer within its transaction, and the callback of the commit
again (`Flush`, owed while in `flushing`; `LoseFlush` is a worker that dies or a
cache that cannot be reached); `CacheExpires` is its timeout. With look-back, sums and cache it is the task
list of a project, without (`LookBack = 0`, `HasSums` and `HasCache` false) the
message list of a channel. Time moves with every stamp taken. `belated` is
history: rows whose present version is late, that is committed or flushed later
than the look-back after its stamp, its flush lost, or missing from an answer
that was cached after its flush.

## 4. Runs

| run | question | bounds |
| --- | --- | --- |
| `agent_run` | Do racing decides, crashes, disconnects, the reaper and deletes leave one leg at a time, one execution per approved card and a row that agrees with its threads? Does the run implement `ApprovalGate`, end, and settle every answered card? | 2 decides, 2 cards, 2 turns a leg, 1 lost write |
| `webhook_delivery` | Do rows stay recoverable, counted and settled once? Do the passes implement `Outbox` and settle every event? | 3 events of 2 endpoints, 2 attempts, threshold 2, one crash or one lost key |
| `webhook_overlap` | Can overlapping passes double-send? They can. | 2 passes, no crash, no stale claim |
| `ledger_safety` | Are grants, charges and packs worth what they say in any order? | 2 plans, 2 readers, 1 request, 2 packs, 2 months, 1 operator, 1 buyer |
| `settlement_safety` | Is an ask charged once, for all of its work, only for answers? Does a rebuild leave a settled ask alone? | 3 legs, spend 0 to 3, cap 2, 1 lost write, 2 rebuilds |
| `enqueue_safety` | Is each change announced once at most, in a committed state, and in plain transactions for certain? | 2 tasks, 3 saves, depth 2, all other callers |
| `enqueue_autocommit` | Is every change announced? Not one saved outside a transaction. | 1 task |
| `feed_safety` | Does every commit move the version, does a client that trusts the version hold the content, and does it catch up? | 2 writers, 1 client, 3 writes, 1 fault |
| `schedule_safety` | Does every moment run once, in time, reported once; is none dropped; does the member's edit stand? | 2 ticks, 2 recurrences, 2 zones, 5 units of time in days of 3, grace 2, 3 edits, deaths or overruns |
| `blocking_safety` | Is a task blocked exactly while it has an open blocker, what else does the automation touch, and does its recursion end? | 3 tasks with any dependencies, 2 requests at a time of 3 |
| `sync_safety` | Is what a checkpoint passed held, and does the client catch up? | 2 rows, 1 client, 5 stamps, look-back 2, age cap 3, transactions of 2 stamps, 1 lost answer or flush |
| `sync_messages` | Without look-back, does the next sync include what was committed during the query? Not if it was stamped before. | 1 row |

Why these bounds show what matters:

* `agent_run`: two decides are what a race needs, and they can also follow each
  other, one on each card. Two cards are needed for a token to be stale and for a
  step to be the wrong one. With two turns a leg can read and then propose. The
  theorems of section 6 cover any number of decides, cards and turns.
* `webhook_delivery`: two rows of one endpoint and one of another are what a batch
  needs for shared counters and for the deletion of a neighbour; two attempts and
  a threshold of two put first, middle and last failure within reach. There is
  one pass: with two, the double post makes most of the properties false, which
  is what `webhook_overlap` is about. A pass killed by the crash is followed by
  another one, so claims of the dead are taken over. Claims revived under a pass
  that lives need two: that they strand no row is a theorem
  (`OverlapStrandsNone`).
* `ledger_safety`: the entitlements 1 and 3, a gift of 1, a cost of 4 and packs of
  2 make a charge that the allowance covers with a gift, and charges that
  overshoot it by one, by a pack and by more than one pack. Nothing bounds the
  order in which readers hold the two plans once the user has been told both.
  Two months separate old debt from new. A purchase that reads a debt of one month, after spending in an earlier
  one, and is granted in a third needs three; that case was explored apart, and
  led to the condition on the month in `PackRaisesBalance`. One buyer process
  delivers both packs and repeats deliveries. Two buyers with three packs were
  explored apart too: a pack of an earlier month that another delivery grants in
  between uncovers older debt, hence `NothingUncovered`.
* `settlement_safety`: three legs give a middle one, whose settlement can come
  late on both sides. The cap is below the spend, so it is reached by several
  legs.
* `enqueue_safety`: three saves of two tasks give a transaction with both and an
  earlier one that rolled back; depth two is the least with a savepoint. Callbacks
  of other parts of the program come before, between and after those of the saves.
* `feed_safety`: three writes give one that is lost, one that heals it and one that
  races.
* `schedule_safety`: days of three units with a grace of two put a moment in time,
  late and skipped, and two moments of different zones within one grace, where a
  change of zone can set the schedule back to what ran or forward over what did
  not; the second zone has the midnight that its clocks skip. Three events are an
  edit, a death and an overrun: the latter lets two deliveries of one moment meet
  at the row.
* `blocking_safety`: a task with two blockers, and a chain of three; the third
  request finds what two that overlapped left behind.
* `sync_safety`: one row changes inside the answer's window while another is
  deleted without a trace. With a look-back of 2 and transactions of up to 2
  stamps a transaction may or may not outlive the look-back; the age cap of 3 is
  passed before time ends, so the client falls back to a full answer, from the
  cache or not. One loss is an answer or a flush.

`CHECK_DEADLOCK FALSE` appears where the bounded model runs out of inputs
(months, saves, legs, requests, time); `AgentRun`, `WebhookDelivery` and
`ChangeFeed` are checked for deadlock, `AgentRun` with an explicit `Quiet` step
for its rest. Symmetry is used where only safety is checked: readers, requests,
packs and buyers of the ledger, tasks and requests of the blocking model.
`NoStaleClaim` in `webhook_overlap` is a constraint on what is explored; it
shows that no slow pass is needed.

Four more configurations show, by hand, exceptions that the properties make.
Each ends in a counterexample:

| configuration | module | property | what it shows |
| --- | --- | --- | --- |
| `AgentRunStaleStep.cfg` | `AgentRun` | `ActsOnAnsweredStep` | after two lost writes a leg resumes on an older step than the answered one |
| `LedgerOldDebt.cfg` | `MCCreditLedger` | `PackArrivesWhole` | a pack pays for debt of an earlier month, and the absorption becomes allowance of this one |
| `ScheduleLostOnce.cfg` | `MCMemberSchedule` | `NullMeansPausedOrRun` | a one-off schedule whose member moves east past its hour is lost without a run |
| `BlockingTwoRemovals.cfg` | `TaskBlocking` | `LastBlockerUnblocks` | two requests that remove the last two blockers at once leave the task blocked |

Run one with `tlc -config <file> <module>`.

## 5. Fairness

Only the liveness properties use it.

* `AgentRun`: a thread or a generator that can go on does (`Work`, `Stream`), a
  decide that passed the gate is executed, time passes (`Age`), and the reaper
  comes round, as its cron does. Nobody has to answer a card, to disconnect or to
  delete anything, and crashes are never required. `RunningEnds` therefore rests
  on the reaper whenever a process dies; `AnswerSettles` excludes the process
  that died and the write that was lost, for nothing in the code retries those.
* `WebhookDelivery`: the cron keeps firing and a pass that lives makes progress;
  claims age and retries become due; a key that was lost is put back by the
  operator whom the command alerts. Crashes are bounded, which is the usual
  assumption that a cron is not killed every time.
* `ChangeFeed`: a client keeps making requests (it polls, and does a full
  refresh every ten minutes) and cached answers expire, as their timeout says.
  No writer needs to be scheduled: `EveryClientCatchesUp` holds even if a flush
  never happens.
* `MemberSchedule`: the cron keeps firing, a tick that lives goes on, and claims
  whose holder is dead age. Time itself need not move, and the member owes
  nothing.
* `IncrementalSync`: transactions end, their callbacks run unless lost, the cached
  answer expires, and a client keeps syncing. Answers and flushes may get lost, a
  bounded number of times.

## 6. Proofs

The theorems hold for every value of the constants, under the assumptions the
modules name (`AskAssumption`, `BoundsAssumption` and their like: bounds are
natural numbers, the ask is not a decide, a recurrence yields moments), and
where it says so under one more. Each proof has the same shape: an inductive
invariant, a lemma that every step of `Next` preserves it with one part per
action, and a last temporal step.

**`AgentRunProofs`** (1821 obligations).

* `TypeCorrect`: `TypeOK` is inductive by itself.
* `TokenSafe`, `OneLegAtATime`, `ParkedIsAlone`: from one inductive invariant,
  `Parking`. None of the three is inductive alone. That a close writes the right
  token needs to know that no other leg can be between its consume and its
  close; that needs that a decide can only win when the row is parked; and that
  a parked row has no live thread needs to know that the worker whose pause
  descriptor was saved has returned. `LegDiscipline` states these. A cancelled
  leg may outlive its stream, which is why it is about open streams first and
  threads second.
* `ClosedStaysClosed` (`TerminalIsFinal`): `Streaming` adds what the run may look
  like while a leg streams, `running`, erased, or reaped under a decide. This is
  where the assumption that the first leg ends well inside the stale threshold
  is used.
* `ServedIsCharged` (`ServedRunIsCharged`): `Unserved` says what a leg that has
  charged nothing looks like. It is an argument about the event queue: an answer
  is always behind the work that charges for it, the sentinel is last, and a
  pause descriptor has its card in front of the sentinel, so a stream cannot
  reach the end of a leg that served something without having taken the event
  that charges.
* `ActsOnAnswered` and `GateKept` (the run implements `ApprovalGate`), both under
  `OneLoss`, at most one lost best-effort write. `Gating` adds to `Parking` that
  only the newest card is ever asked about, that it is unanswered and unexecuted
  until then, that one thread is live, and which rows can still be pending. The
  assumption is needed: with two lost writes, `AgentRunStaleStep.cfg` has a leg
  that executes the step of an older card.

**`WebhookDeliveryProofs`** (1674 obligations). `OverlapStrandsNone` is about any
number of passes, and claims that are revived while the pass that holds them is
still posting: `NothingIsStranded` holds as long as no key is lost, for then every
copy in memory has attempts left, whichever pass saved the row since
(`RowsHold`). With a lost key it fails: `_hold_unreadable` gives back a row whose
last attempt another pass has made meanwhile.

The others are under `OnePass` (passes do not overlap, which the cron's period
intends and nothing enforces; without it `webhook_overlap` breaks them). From the
invariant `Delivering`, which relates each point of a pass to the rows of its
batch:

* `TypeCorrect`, `NoneStranded` (`NothingIsStranded`, keys lost or not);
* `OutboxKept`: the passes implement `Outbox`, with `Taken` (a row about to be
  saved as sent was received);
* `PostsCounted`: `Books` allows one uncounted post to the row in hand and one to
  each pass that died;
* `CounterCounts`: `Counters` relates the endpoint's counter, the copy in the batch
  and the streak at every point between the post and the save.

**`RequestSettlementProofs`** (1476):

* `TypeCorrect`, `FailureIsFree`, `ChargedOnce`, from `Settling`: only one leg of
  an ask answers, a request is opened by one leg, and a row that is worth
  something belongs to a request that answered or to one that nobody will charge.
* `RebuildAgainIsNothing`, from `Deriving`: with no write lost, the row of a
  request whose legs are through says what a rebuild would derive for it, whether
  the last leg wrote after the rebuilds that raced with it or before.
* `ChargedWhatItCost` (`OrderlyAskIsCharged`), from `Ordering`, which is about asks
  whose legs are settled before the next one starts, with which no rebuild races
  and whose writes arrive:
  every leg belongs to the first one's request and follows legs that were billed
  as parked (`InLine`), all spend is on that request, and row and charge are
  worth the capped spend if a leg answered and nothing if none did (`Balanced`).
  The spend of an ask is a fold over its requests; `SumOfFirst` reduces it to the
  first.

**`CreditLedgerProofs`** (3180). The buckets are folds over sets of rows. The first
part of the module proves what a sum over a finite set is (that it does not
depend on the order, splits over disjoint parts and grows by the element added)
without induction over an operator: a sum is a function on the subsets of the
set, and two sums that differ would differ on a minimal subset.

* `TypeCorrect`, from `Keeping`: the ledger stays finite, and what readers, buyers
  and the operator hold are rows and sums of rows.
* `MonthlyGrantIsTheBestPlan` (`MonthlyGrantFitsPlan`), from `Granting`: what a
  reader is about to post is enough for its plan, whatever was granted since it
  looked (`NoneShort`); and it is what is missing, or its plan was granted
  meanwhile and the constraint refuses the row, as long as no two readers of a
  month were on their way with different plans (`ReadersAgree`). How old the plans
  are does not matter.
* `AllowanceGoesFirst` (`MonthlyFirst`): from the types alone, but for every month:
  a charge moves the overspend of its month only, and by no more than the part
  that the allowance does not cover.
* `PackIsWorthIt` (`PackIsWorthItsSize`), from `Counting`: no row is of a month to
  come, and what the months after the purchase overspent was charged or taken back
  since the debt was read; so was, beyond that debt, what is owed from the month of
  the purchase on, until a pack of that month or an earlier one is there. The
  purchase is then a computation on four sums, what is owed by the months before,
  by the month itself and by those after it, and what was bought, in two cases:
  `WorthAfterPack` and `WorthOfFirstPack`. That a pack and the row that absorbs a
  debt are new when they are posted needs `AbsorbedWithPack` and, in
  `LedgerAssumption`, that the row of an operator is not taken for that of a pack: in
  the table each row has its primary key, in the model it has the id of its author.

**`WebhookEnqueueProofs`** (1747):

* `TypeCorrect`, from `Enqueueing`, which adds that the stack of blocks stays a
  sequence of frames.
* `OneEventEach` (`OneEventPerChange`) and `SentIsCommitted` (`OnlyCommittedStates`),
  from `Owing`. `Registering` says that the callbacks are ordered by depth and that
  each task has one. A callback that waits for the commit belongs to a change of
  the open transaction, and its registry entry holds the row as it is or a save
  that was undone; each enclosing block restores rows and debts under which the
  callbacks it keeps are still owed (`Stands`). What was undone is never what a
  commit leaves, so the entry that is sent is of a committed state.
* `PlainIsAnnounced` (`PlainChangeIsAnnounced`), from `Announcing`: in a transaction
  whose first callback is that of a task save, with none of the calendar, no draft
  made real and no rollback of an inner block, the registry holds exactly what is
  owed from the first save on, stale entries of earlier transactions having gone
  with it. The change feed's callbacks, which every such save registers, and any
  others that follow are passed over.

**`MemberScheduleProofs`** (1772):

* `TypeCorrect`, `ReportOnce`, `RunIsInTime`, `MemberPrevails`, from `Scheduling`:
  besides the types of what a tick has read, a tick whose reading the member has
  overtaken holds no claim, however many were made since. `ReportOnce`
  (`OneReportPerRun`) rests on `Delivering`: a delivery that holds the row found no
  report of its moment, and nobody else can file one until it lets go.
* `NothingIsDropped` (`NoMomentIsDropped`), from `Advancing`: a tick that has read
  the schedule and holds the claim has the next run of the schedule as it is
  planned, because every change of the plan takes the claim away.
* `JobRunsOnce` (`RunsOnce`), from `Once`: a moment that ran or runs, and is not
  loose, lies behind the next run, or is the next run while the tick that claimed
  it has read it and its claim stands (`Behind`); it lies behind the run of the
  tick that will move the schedule (`HolderIsLast`); and no two ticks run it
  (`RunsAlone`). That an outcome moves the schedule past all of them needs
  `Advancing`.

**`ClientProofs`** (1239), of the two models of what a client holds:

* `PromiseIsKept` (`CheckpointIsAPromise`), from `Promise` (`IncrementalSync`): an
  answer under way already brings everything settled at the time it carries
  (`AnswerBrings`), which is what makes the checkpoint it leaves a promise; and so
  would the cached answer, but for late rows and those whose flush is still to
  come (`CacheBrings`). `TypeCorrect` is of the same module.
* `NoCommitIsSwallowed`, from `Announcing` (`ChangeFeed`): a transaction that
  changed rows has a flush registered, and the newest commit is announced or
  belongs to a thread whose flush still has its bump to do.
* `TokenMeansFresh`, from `Behind` (`ChangeFeed`): what is announced was cleared
  first, a cached answer that is not late is newer than the last clear, and a bump
  outdates every token in use, so a request whose token still stands when it is
  served has read after the last announcement.

**`TaskBlockingProofs`** (3149), for any tasks, dependencies (cycles too) and
requests. `TypeCorrect` rests on `WellFormed`, what the fields of a request say of
each other. `BlockedWhileBlocked` and `MembersRespected` follow from `Blocking`, which says that nobody's
knowledge is out of date unless `raced` says so, and that whatever is not as it
should be is on somebody's list:

* `Judged`: what a sync has read of its task still stands, but that a request which
  closes other blockers may have opened the task meanwhile; if the task or a
  blocker of it was not disturbed, the sync counted rightly. `Saving` says the
  like of a member's save, `Written` of a row in a transaction's buffer (it came
  from an open status to "Blocked", or from "Blocked").
* `Kept`: a transaction that deletes has brought every task it touches into
  agreement with what it sees, or has the task on its list.
* `Settling`: a task that nothing disturbed agrees with its blockers, or a request
  outside a transaction still has it to sync (`Owes`). A commit moves what was
  `Kept` into `Settling`.

A step is proved twice, for the request that takes it (`PutSteps` to `ListSteps`,
`WriteBlocking`, `FinishBlocking`) and for the others, which look on
(`StillSteady`). `CloserWrites` is the heart of it: what a request that closes
blockers of a task does to it, while another one that does the same syncs it, can
only open the task, and only when no open blocker is left. Then

* `BlockedWhileBlocked` (`StatusAgrees`): with nothing under way nobody owes
  anything, so `Settling` is the claim;
* `MembersRespected` (`AutomationRespectsMembers`), from `Judged` for the save of a
  sync and `Written` for a commit;
* `TurnsCostCloses` (`EachCascadeTakesAClose`), from `Shutting`: a closed task that a
  request meets, whatever it read of it before, was closed when the request began
  or by a member since, and not saved by the request after that. A sync writes an
  open status, so it crosses the boundary only on such a task, and takes it off
  `shut` with the same save. This one says nothing of `raced`: it holds for every task.

Model-checked only: all liveness (`RunningEnds`, `AnswerSettles`,
`EventIsSettled`, `EveryClientCatchesUp`, `DueRunIsHandled`, `ClientCatchesUp`),
which is outside the prover's reach. Every other property of a passing run is
stated by a theorem.

## 7. Where the code differs from what it says

Three runs end in a violation; `PROJECT.json` quotes the lines under `findings`.

* The read-back after the claim (`webhook_deliver_tick.py:128`) matches rows that
  another pass claimed.
* A task saved outside a transaction is never announced
  (`webhook_enqueue.py:271`).
* A message that was stamped before a sync's snapshot and committed after its
  query is in no later delta (`message_views.py:124`); the task list looks back
  30 seconds for that reason.

Others were met on the way. Each is an exception that a property names, one of
the configurations at the end of section 4, or noted with its hazard:

* `is_pending_step` (`agent/controller.py:4036`) recognises a pending step by
  columns that are written best effort and ignores `decision`, which is recorded
  with the consume.
* A rejected card whose follow-up answer completes leaves the run `done`, and
  `rejected` is kept for a leg without any final event.
* Two rows of one endpoint in a batch: the failure counter loses a success or
  counts two failures as one (`CounterIsStreak` excludes it).
* Two balance reads that overlap with different plans, one of them cached up to 60
  seconds ago, can each find no grant and grant their plan in full: the constraint
  is per plan (`MonthlyGrantFitsPlan` excludes more than the best plan only then).
* A webhook row whose batch outlived its claim, and whose endpoint's key is lost
  meanwhile, can end as `pending` with no attempt left, where the due filter never
  finds it (`OverlapStrandsNone` excludes lost keys).
* Debt of an earlier month is absorbed in the current one (`credit_ledger.py:553`).
  If the month ends between the read of such a debt and the grant, the absorbing
  row is allowance of the month that is over, and the pack raises what can be
  spent by less than its size (`PackIsWorthItsSize` excludes both). The debt can
  also grow by what another pack, bought in an earlier month and granted in
  between, uncovers: the first purchase is then worth less than its size
  (`NothingUncovered`).
* Two operators can reverse one entry twice (`credit_ledger.py:582`).
* A decision that overtakes the settlement of its leg opens a fresh request, and
  the earlier leg is never charged; one that closes late overwrites a row that was
  charged (`OrderlyAskIsCharged` excludes both). A parked leg is recorded as a
  provider failure until the next leg closes (`agent_views.py:2168`).
* A rebuild that races with a leg can charge failed work (`FailedWorkIsFree`
  excludes it).
* A submitted draft is never announced to webhooks; a stale registry entry stays
  when another callback was registered before the first save; a callback that
  saves a task (the calendar's) clears the entries that wait
  (`PlainChangeIsAnnounced` is about transactions without these).
* An answer cached after the flush of a commit it missed stands behind the new
  token until it expires (`FreshBehindToken` names it, `EveryClientCatchesUp`
  covers it).
* Such an answer is also sent with the time of now (`task_views.py:1961`), up to
  five minutes long: the client's checkpoint passes a row that the answer lacks,
  though the transaction was short. A row it lacks is healed by the sums, an
  edit is not (`CheckpointIsAPromise` and `ClientCatchesUp` exclude such rows as
  `belated`).
* "A synced task never re-triggers a sync of ITS dependents"
  (`dependency_signals.py:12`) is not so if a member closes the task between the
  sync's read and its `pre_save`: the sync puts the status back, crosses the
  boundary, and lists the dependents. What the sentence is there for, that the
  recursion ends, holds: each such turn takes a close (`EachCascadeTakesAClose`).
* A schedule that is edited, or moved to another zone, between a tick's claim and
  its second read runs early, and the report filed under its future moment
  swallows the real one (`RunsWhenDue` excludes it). `_recompute_zone`
  (`schedules.py:689`) looks back by the grace, whoever holds the claim: it can
  schedule a moment again that ran already (`RunsOnce` excludes it), and what it
  computes while a job runs is overwritten by the outcome, which can pass over a
  moment of the new zone (`NoMomentIsDropped` excludes it). It computes by the
  recurrence it listed: after an edit to another one in the listed zone it writes
  a moment of the old. A pause between the two reads raises, and the tick ends red.
* A save of a task writes back the status it read, so that changing a title can
  undo an automatic change, or put back a task that was deleted under it; a sync
  that read too early can reopen a task that was closed since; two requests that
  each add a dependency can close a cycle the check of both refuses; a save that
  fails in a delete's receiver rolls the delete back, although the request answers
  204 if it deletes a dependency (that of a task fails at its next statement)
  (`StatusAgrees` and `AutomationRespectsMembers` exclude what was changed
  under a request, as `raced`).
* The id sum "does not balance unless the sets are the same" (`task_views.py`,
  near line 1916) only if no two sets of one size have one sum: {1, 4} and
  {2, 3} do. What a transaction longer than the look-back changed, or one whose
  flush was lost or came later than that, is not healed by the sums, which speak
  of rows and not of content (`ClientCatchesUp` excludes it).

## 8. Not modelled

`PROJECT.json` lists each of these with its sources.

* Protocols that would make further modules: the e-mail outbox (claimed per user),
  reminders, the agent's undo, the ask quota, the ownership claim.
* Code whose correctness depends on another service: Stripe (its effect on the
  ledger is modelled), GitHub, calendar sync (its effect on a commit's callbacks
  is modelled), the search index, push and presence, OAuth.
* CRUD and permission checks: REST views and serializers, teams and invites,
  cross-team sharing, the task hierarchy, chat writes, whose ordering rests on
  one database constraint per call.
* Pure functions and offline work: prompts, retrieval and tools of the agent,
  cryptography, reports, seeders, evals, retention by age, account deletion,
  alerts, command-line wrappers.

These are most of the repository: of about 170,000 lines of implementation the
files of the modelled components are under a tenth.

Within the modelled parts: a run's undo and the editing of a card's arguments;
the quota counters behind `charged`; the balance cache of 60 seconds; unlimited
plans, promotional and negative manual entries; prices and yen; comment and
message webhooks, which use no registry; project lists, guest tokens and
incremental answers of the feed; running a schedule at once (`run_now`, whose
report has no key) and the `last_*` columns; the two rows of a milestone, soft
deletes, the drafts of a new project, the batch update of dependencies and the
deadlock of two deletes that take row locks in opposite order; the cap of 500
rows, the retention cut and the reactions of message lists.

## 9. Plan

1. Reminders and the e-mail outbox: the guarded update of `MemberSchedule` and the
   batch of `WebhookDelivery` once more, the latter claimed per user
   (`email_notify_tick.py:191` reads back what another pass is sending).
2. The agent's undo on the steps of `AgentRun`.
3. Compositions: `WebhookEnqueue` with `WebhookDelivery` (a committed change is
   received or given up), `RequestSettlement` with `CreditLedger` (the sum of
   charges over overlapping asks and month boundaries).
