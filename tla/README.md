# A TLA+ model of WebDataApiProxyManager

WDAPM is a proxy in front of web-data providers (Exa, Tavily, Firecrawl, Jina).
A client presents one platform API key; the gateway picks one of the operator's
upstream accounts and one of the egress proxies bound to it, forwards the
request, retries it elsewhere when that fails, and keeps the health of accounts
and proxies in SQLite. Firecrawl crawls run asynchronously: their jobs are
tracked and settled by a poller and by webhooks. An operator edits everything
through an admin API.

All state that matters is shared through the database and written by
independent statements, so the behaviours worth checking are interleavings of
statements: request tasks against each other, against the reconcilers, against
the console, and against a restart.

## Inventory

| Component | State | Operations | Talks to | What is hard | What makes it correct |
|---|---|---|---|---|---|
| Gateway proxy (`gateway/src/lib.rs`, `persistence.rs`) | locals of `proxy_request`: attempt, exclusions, kept response, last error | resolve, select, forward, retry, finalize | scheduler, storage, upstream, persistence queue | several awaits per attempt, rows that change underneath, several exits of the loop | retries move on, failover is complete, an answer always comes, and log and counters agree with it |
| Health of accounts and proxies (`storage/src/lib.rs`) | enabled, status, cooldown_until, consecutive_failures, last_failure_at | record success / cooldown / disabled / failure, console edits | every request, reconciler, console | last writer wins; read-then-write updates | a refused account stays out; a failure is counted once |
| Scheduler (`scheduler/src/lib.rs`) | two rotation cursors | `select_route_excluding` | storage | the choice reads several rows at different times | only usable, untried routes; nobody starves |
| Platform keys (`gateway/src/auth.rs`, `storage/src/platform_keys.rs`) | quota, request_count, revoked_at | authorize, create, update, revoke | gateway, console | two statements per admission | quotas hold, charges are exact, admission is atomic |
| Persistence queue and writer | a bounded queue in memory, one writer task | enqueue, fall back, drain | gateway, storage | queue full, restart, rows deleted meanwhile | an accepted job is not forgotten in silence |
| Asynchronous jobs (`worker/src/lib.rs`, `gateway/src/webhook.rs`) | provider_async_jobs, batches in progress | track, poll, defer, settle, webhook | Firecrawl, storage, console | overlapping pollers, webhooks early, repeated or lost | settled once, in the upstream's own terminal state, and eventually |
| Admin API: accounts, proxies, keys | none | CRUD | storage | stale read-modify-write | edits do not bring back what they did not mean to |
| Admin API: sessions (`admin-api/src/auth.rs`) | password hash, session hash and expiry, the default tenant | setup, login, check | storage | torn reads, two setups, a setup cut off | one password, one session, ended by the next login |
| Admin API: audit log | admin_audit_logs | an entry after each change | storage | change and entry are two statements | entries agree with the table |
| Master key (`app/src/main.rs`) | the environment, a key file, the key in use | resolve, generate | storage | killed or without power at any point of start-up | no credential is stored under a key that is not kept |
| Alerts (`worker/src/lib.rs`, `storage/src/alerts.rs`) | rules, last_triggered_at, events | check, deliver, mark, create, edit, delete | storage, webhooks | a pass works on a list it read earlier, webhooks are slow, an error ends the pass, a delivery and its record are two steps | silence follows a delivery, deliveries keep their distance, a condition that goes on is reported |
| Request log archive (`storage/src/lib.rs`, `app/src/background.rs`) | hot table, monthly files | archive, delete, prune, checkpoint | storage, file system | two databases, no common transaction, no automatic checkpoint | no entry lost before retention takes it, even in a power failure; expired entries leave; limits hold |
| Client pools (`gateway/src/client_pool.rs`, the same in `worker/src/lib.rs`) | map from proxy url to client | `client_for` | gateway, worker | check, build, insert | one client per url, and the right one |
| Provider adapters, credentials (`providers/*`, `gateway/src/auth.rs`) | none | extract, build_upstream_request | gateway | several places for a key, several attempts per request | every credential goes where it belongs |
| Core types, frontend, web UI | none | types, static files | | | |

The hazards, each at its line and with the properties that would catch it, are
in `PROJECT.json`.

## Modules

| Module | Stands for |
|---|---|
| `Health` | the health columns of a row and what each UPDATE makes of them; the routing predicate; cooldown length and failure decay |
| `Gateway` | `proxy_request` for any number of concurrent requests, plus the console statements that touch the same rows |
| `MCGateway` | bindings and symmetry for TLC |
| `GatewayProofs` | type correctness and the safety properties of `gw_solo` and `gw_pair`, proved, and that a request takes a bounded number of steps and is never stuck |
| `PlatformKeys` | `authorize` and the console's key handlers, statement by statement |
| `Admission` | the abstract promise: admission is one decision on the key as it is |
| `PlatformKeysProofs` | type correctness, quota, exact charge and the refinement, proved |
| `AsyncJobs` | submissions, queue, writer, due list, pollers, webhooks, restart |
| `MCAsyncJobs` | two beginnings for TLC: a fresh service, and one with jobs of an earlier run |
| `JobLifecycle` | the abstract promise: a job's row follows the upstream and is settled once |
| `AsyncJobsProofs` | type correctness, `AcceptedNotForgotten` and the refinement, proved |
| `RequestLogArchive` | an entry's way from the hot table through a month's archive to the end of its retention; checkpoints, failures, restarts and power failures |
| `LogKeeping` | the abstract promise: an entry stays until retention takes it, and on stable storage survives a power failure |
| `RequestLogArchiveProofs` | type correctness, the refinement, retention and limits, proved, and the calendar arithmetic for every day |
| `CutoffMonth` | the calendar arithmetic of `archive_cutoff_month`, and the calendar |
| `MCArchive` | the archive with the calendar of four centuries |
| `AlertChecks` | the alert checker's timer and passes, webhooks, and the operator's edits of rules |
| `AlertChecksProofs` | type correctness and both safety properties of `AlertChecks`, proved |
| `Rotation` | turns among accounts of equal score: order of last use, shared cursor, use recorded afterwards |
| `RotationProofs` | a bound on the wait for any number of accounts and requests, proved |
| `AdminSessions` | setup, login and the check of a token, statement by statement |
| `MasterKey` | start-up: where the master key comes from and where it is kept |
| `AdminConsole` | the two together: handlers of a process that runs under a key, the account rows they write, the audit log |
| `AdminConsoleProofs` | type correctness and the safety of setup, sessions, credentials and audit log, proved |
| `Forwarding` | what leaves the host for a request and through which client: credentials, client pool, webhook secrets |
| `MCForwarding` | symmetry for TLC |
| `ForwardingProofs` | type correctness and all three invariants of `Forwarding`, proved |

How the state corresponds to the code:

* **Gateway.** `account`, `proxy`, `bound`, `live` are the tables. `req[r]` holds
  the locals of one call of `proxy_request`: `attempt`, `pinned`
  (`using_pinned_async_route`), the cloned account and proxy (`acc`, `px`, and
  the failure counts `fails`, `pxFails` that the cooldown length is computed
  from), `exAcc` and `exRoute` (`excluded_account_ids`, `excluded_routes`),
  `deferred` (`last_retryable_response`), `log` (bundles handed to persistence)
  and `ans`. `tries` and `denied` are history. The program counter stops where
  the code awaits a write: `select` before the scheduler's reads, `send` while
  the exchange with the upstream is out, `proxy` between the account's outcome
  and the proxy's. The console is the `Admin...` actions; an update is a read
  (`AdminReadAccount`, `AdminReadProxy`) and a later write.
* **PlatformKeys.** `issued`, `revoked`, `quota`, `count` are the table's
  columns; `call[r]` is a request between its two statements; `update` holds
  console updates between theirs. `ceiling` is history.
* **AsyncJobs.** `record`, `owner` are columns of provider_async_jobs, `due` the
  open jobs whose `next_poll_at` has passed in the order they are listed, `sub[s]`
  the request task that announces a job, `queue` and `writer` the channel and its
  consumer, `poller[w]` a run of `reconcile_firecrawl_jobs` with the rest of its
  batch and the update it is about to write, `hook` webhook calls between their
  lookup and their update. A history begins with one of `Pasts`: what submissions
  of an earlier run of the process have left in the table (by `Init` nothing of
  them is in memory).
* **RequestLogArchive.** `hot` is the table request_logs, `archived` what the
  month files hold. Both databases run with WAL, `synchronous=NORMAL` and
  `wal_autocheckpoint=0`, so a commit is not on stable storage before a
  checkpoint: `recoverable` is the set of contents the hot table had at its last
  checkpoint or since, any of which a power failure may bring back, and `synced`
  the part of the archive that is checkpointed. `pass` is the maintenance task:
  the rest of its batch and the entries of the month at hand, between the
  statements of `archive_rows_to_partitions`. `retired` is history.
* **AlertChecks.** `row`, `table` and `age` (time since `last_triggered_at`) are
  alert_rules; `check` is `check_alerts`: what is left of the list it read (a
  set, taken in the order of `table`), which of it was ripe at the time the pass
  began, and the rule being
  delivered or marked. `phase` and `due` are tokio's interval with missed ticks
  skipped. Ages stand for times. `quiet`, `unmarked` and `reported` are history.
* **Rotation.** `used` ranks the accounts by the second of `last_used_at`: the number
  of accounts used in earlier seconds, which leaves out seconds in which none was;
  `current` says whether the last second is still running. `cursor` is the
  provider's entry in `account_cursors`, `req[r]` a request between listing,
  choosing and recording the use, with the place of every account in the list it
  read. Accounts are numbered in the order of their names. `waited` is history.
* **CutoffMonth** has no state; `Cutoff` is the function, `FirstOf` the calendar it
  is compared with.
* **AdminSessions, MasterKey, AdminConsole.** `password`, `session`, `until` are the
  rows of admin_config, `tenant` the row that setup alone inserts. `call[h]` is a
  handler between two statements: "hash" while Argon2 works and before the
  password is stored, "tenant" before ensure_tenant, "session" before
  set_admin_session, "expiry" between the two reads of a check, "write" admitted,
  "summary" with a change made and its row not read back yet, "audit" with the
  entry still to be written. `env`, `file`, `inUse` are
  the three places of the master key, `flushed` whether the file has reached the
  disk. `rows[a]` is the key an account's credential is encrypted under, and
  `trail` what the audit log adds up to. `expiry`, `knows`, `cut`, `overlapped`,
  `swapped`, `undone`, `unrecorded` are history.
* **Forwarding.** `req[r]` holds what `proxy_request` has when it builds an
  upstream request: the places in which something the client put is left (`left`),
  the account and egress of the attempt (any that `Gateway` could choose), the
  HTTP client it was given, and the credentials it sent, place by place (`sent`).
  `Arrive` is extract_platform_credential and authorize in one: it empties the
  places of the request's own provider and no others, and refuses a request that
  presents no key, two different ones, or one that authorize does not admit.
  `pool` is the map of clients, `crawls` the jobs that exist upstream, `rows` what
  the persistence writer has stored of them, `settled` history.

Definitions with a comment that begins "Mutant:" are wrong on purpose. Each
stands before the definition it distorts, is used by nothing, and says what a
plausible slip in the code would look like; `PROJECT.json` names the property
that must fail when it takes the place of the right one.

## Runs

| Run | Instance | Shows |
|---|---|---|
| `gw_solo` | 1 request, 3 attempts; 3 accounts (one keyless) and a fourth that may be created, 2 proxies (one malformed), 1 console statement, 1 clock tick | types, `NoRouteTriedTwice`, `FailuresAccountedFor`, `LogsWhatItAnswers`, `GivesUpOnlyWhenExhausted`, `Answered` |
| `gw_pair` | 2 requests, 2 attempts, 1 account with a proxy, 1 console statement, 1 tick | `DeniedStaysOut` and `GivesUpOnlyWhenExhausted` when requests and the console meet in the same rows |
| `gw_direct` | 1 request, 3 attempts, 1 account with 2 proxies, no console | violated: see Findings |
| `gw_keyless` | 2 requests, 1 keyless account | violated: see Findings |
| `keys` | 3 requests, 2 keys, quotas 0 to 2, 2 updates | types, `QuotaNeverOverrun`, `ChargedOnce`, `AdmissionIsAtomic` |
| `jobs` | 3 submissions, 3 jobs, queue of 1, 1 poller with batches of 2, webhooks, deletion of the account, 1 restart; either two submissions are to be made, or 3 jobs wait: one without an account, one no poll can be sent for, one to be settled | types, `SettledOnce`, `AcceptedNotForgotten`, `BundlesDecided`, `TrackedIsSettled` |
| `archive` | 2 entries, months of 2, hot retention 1, retention 2, room for 1 entry, clock to 5, 2 power failures, archiving on or off from round to round; every day of the years 1970 to 2369 | types, `CutoffIsTheMonth`, `KeepsLogs`, `RetiredInTime`, `ArchiveWithinLimits`, `ExpiredLeave` |
| `alerts` | 2 rules (one on accounts, with a dead webhook), 1 account, interval, lookback and window of 2, 1 edit, 1 crash | types, `SilenceIsEarned`, `DeliveriesSpaced`, `StandingIsReported` |
| `alerts_missed` | 1 rule, 2 accounts, the code's times in minutes | violated: see Findings |
| `rotation` | 3 accounts, 2 requests | `WaitIsBounded` with at most 18 others in between, `EveryoneHasATurn` |
| `console` | 2 handlers, 2 passwords with or without blanks, 2 tokens, clock to 1, 1 account, 2 generated keys, 1 power failure or change of the environment | types, `SessionKnowsPassword`, `SetupIsWhole`, `CredentialsOpen`, `TrailExplainsRows`, `ExpiredIsRefused`, `LoginEndsSession` |
| `forwarding` | 2 requests, 2 attempts, 2 platform keys in any places, 3 accounts (one keyless), 2 egresses | types, `CredentialsStayApart`, `OneClientPerEgress`, `WebhooksFindTheirJob` |

Why the bounds are enough. Three attempts are the code's own limit (`max_retries`
2), and `gw_solo` has an account with two proxies, one that shares a proxy and one
with none, so that every way a route can be used up occurs. Two requests suffice
for every pairwise race in a row, since a statement looks at one row and none
looks at more than one other request's effect; on one account with one proxy they
meet between any two of each other's writes. What a request does when another
account takes over does not depend on who changed the rows underneath, so one
request and the console (`gw_solo`) show it. One clock tick makes the shortest
cooldown end and the failure penalty decay by half. A queue of one is full after
one submission (the code's is at least 64: size matters only for how often that
happens). A batch of two is the smallest that reaches past a job which stays at
its head; a third job that is deferred for ever makes more due jobs than it takes,
so that the limit cuts the list (were the list read from its other end, mutant
`ScanLatest`, a job could wait for ever). Three requests and a quota of one or two
put a race at the limit on both sides of it.

Two entries are enough for a batch of two months, for a file that expires while
a younger one stays, and for an archive over its limit of one; rounds cut off by
failures show what a batch smaller than what has expired does. In the alert
runs the window is longer than a webhook call and shorter than two intervals
plus a call, so that passes fall on both sides of it; `alerts_missed` keeps the
code's proportions, five, ten and ten minutes. Two requests are the fewest that
overlap in `Rotation`; a single request passes over an account at most six
times, so the overlap is what costs. The years of `CutoffIsTheMonth` are one cycle that
the arithmetic repeats; for all others `MonthIsRight` is proved.

In `jobs` a single poller meets webhooks and a restart, which leaves its batch
half done; that several pollers change nothing is proved (`JobsAreSettledOnce`).
In `console` two handlers are the fewest that race; with a token more than
logins at one time an old token meets a new session. A generated key more than
there are power failures means that the bound on keys never stops a start-up.
In `forwarding` a second attempt shows what a first one leaves behind, two keys
are enough to contradict each other, three places are all there are, and two
requests race for a client; requests do not otherwise meet.

Symmetry is used in `gw_pair` (requests) and `forwarding` (requests, and the
accounts with a key): both check invariants and properties of single steps, no
liveness.

### Fairness

`Gateway` assumes weak fairness of every request's own steps: tokio runs a task
that is ready, and the client's 60 s timeout ends each exchange. Arrival of a
request is not fair. `AsyncJobs` assumes that request tasks, the writer task and
each reconciliation (its scan, polls and updates: `Reconcile`) run; that an open
job's `next_poll_at` passes; and, strongly, that a job that is polled again and
again, if it can be polled at all, is sometimes answered with its status. Nothing
is assumed of webhooks, of the console or of restarts (`jobs` has one). Without
the strong assumption an upstream that always answers 5xx would rightly keep a job
open.

`RequestLogArchive` assumes that clock and pruning go on (a failure to prune ends
a round as well), that rounds with archiving keep coming, and strongly that each
of their statements, tried again and again, sometimes succeeds. `AlertChecks`
likewise: timer and passes run, and a query or a webhook that is not dead does not
fail for ever; a recording of a delivery may. The dead webhooks have no such
assumption. `Rotation` assumes that requests are served. `AdminConsole` assumes
that a handler which was started runs on. Nothing is assumed of crashes or edits.
`Forwarding` states no liveness: that requests end is `Gateway`'s `Answered`.

## What is proved

TLAPS proves for every value of the constants, from the assumptions named
`...Assumption` in the modules:

* `GatewayProofs!Typing`: `TypeOK` is inductive by itself; `attempt` stays in its
  range because a retry is taken only below `MaxRetries`.
* `GatewayProofs!RefusedStaysOut`: the inductive invariant is that a refused
  account is not `enabled`. Status and cooldown do not work, since a success
  of another request overwrites them; only console statements write `enabled`
  other than to FALSE, and these take the account out of `denied`.
* `GatewayProofs!MovesOnToOtherRoutes`: the strengthening says that every earlier
  failed try is in `exRoute` or its account in `exAcc`, that what is about to be
  sent is in neither, and where in the loop the latest try has not been excluded
  yet. It makes no use of the health rows at all, so no interference can break it.
* `GatewayProofs!AnsweredAsLogged`: until it is answered a request has logged
  nothing, and the response it keeps aside is the latest it was given (`Kept`);
  while an exchange is closing, what is to be logged and what is to be answered
  are the same (`Closing`).
* `GatewayProofs!FailuresAreReal`: no request has more tries than attempts, so each
  failed exchange has a place of its own among finitely many; an outcome raises a
  row's count by one only together with such an exchange, and no edit raises it.
  Requests are assumed to be finitely many, so that exchanges can be counted.
* `GatewayProofs!FailoverIsComplete`: an account is excluded only for lack of a key
  on arrival or for a retryable answer on record, and a route only for a failed
  transport on record over just this route (`Excluded`). So when the scheduler
  finds no egress for an account it has tried it directly and over every proxy
  bound to it that is in rotation at that moment, one that came back between two
  attempts included; an account that was tried directly is not used up by that.
* `GatewayProofs!EveryStepCounts` and `NeverStuck` are what is safety in the liveness
  property `Answered`. A request has a number of steps left (`StepsLeft`), four for
  each attempt it may still make, and every change of its state, whoever causes
  it, uses some up: going round the loop costs an attempt. Until it is answered
  one of its steps has its guard satisfied; the case that needs an argument is
  the scheduler's choice, where among the penalties of the candidates there is a
  least one. What is missing for `Answered` is that an enabled step is taken,
  which is the fairness assumed.
* `PlatformKeysProofs!QuotaSafety`, `ExactCharge`: with `TypeOK`, the counter is
  below the current quota or the quota has been lowered below it; admitted calls
  change a cardinality by exactly one.
* `PlatformKeysProofs!TwoStatementsAsOne`: `Increment` maps to `Admit` or to a
  stutter, `FindKey` to a stutter; a write that follows a stale read maps to
  `SetQuota`, for which it is essential that the update's WHERE clause repeats
  `revoked_at is null`. The step needs that a revoked key was issued.
* `AsyncJobsProofs!JobsAreSettledOnce`: the strengthening (`Faithful`) says that
  whatever a poller or a webhook is about to write as a terminal state is the
  upstream's own, which no longer changes, and that a row exists only for a job
  the provider accepted. The guard of `update_provider_async_job` does the rest.
* `AsyncJobsProofs!NothingForgotten` and `JobTypes`: the columns agree with one
  another (`Columns`), the due list has open jobs only, each once (`Listed`), a
  batch holds each job once (`Batches`), and a submission is in the queue or with
  the writer just when its program counter says so (`Carried`). Lemmas say what
  appending, taking the head and removing one element make of a sequence without
  repetitions, in terms of its set and its length.
* `RequestLogArchiveProofs!NothingIsLost`: the inductive invariant (`Moved`) says
  that whatever a power failure may bring back into the hot table is there now,
  checkpointed in the archive or retired; that what the archive holds beyond its
  last checkpoint is still in the hot table or retired; and that a month's
  entries are in the archive once they are copied and checkpointed before they
  are deleted. Each step then maps to `Write`, `Secure`, `Retire`, `PowerFailure`
  or a stutter. Leaving the checkpoint for later breaks it (mutant `SyncLater`).
* `RequestLogArchiveProofs!NothingTooEarly`: with `Moved`, `Dated`, that whatever is
  stored anywhere has been written; only pruning rows and pruning files take
  entries away for good.
* `RequestLogArchiveProofs!LimitsAreKept`: the loop of `prune_archive_files` carries
  what is left from file to file. `DoomedIs` gives it in closed form: at month m
  it has removed just the files up to m that have expired or from which on the
  entries exceed the limit (`UpTo`). As induction is out of the prover's reach,
  the lemma takes the least month where the two part, which well-foundedness of
  the naturals provides. What stays can then be read off the closed form.
* `RequestLogArchiveProofs!MonthIsRight`: `MonthsAreTheCalendars` says that no day of
  any year from 1970 on is misplaced. The calendar counts days month by month;
  `NewYearIs` and `FirstOfIs` put the count in closed form (the former again by a
  least counterexample), `Decomposed` and `DayFound` take the code's arithmetic
  apart on a day given by its year, month and day, and `EveryDay` compares the
  two. `ErasAreAlike` says in addition that the code's months repeat after
  146 097 days.
* `AlertChecksProofs!SilencedByDelivery` and `WindowIsKept`: the strengthening ties
  the rule being marked to a delivery acknowledged in the same instant, as time
  passes only between passes and while a webhook is called (`InHand`); says that
  time since the mark and time since the delivery agree unless a delivery went
  unrecorded, so that a rule found ripe has been quiet for a window (`Spaced`);
  that a rule at hand is not in the rest of the list, which no edit adds to
  (`Lineup`); and that a pass lasts no longer than one call per rule (`Paced`),
  which `TypeOK` needs.
* `RotationProofs!NobodyWaitsForEver`: an account's distance from its turn is a
  number of four digits (`Left`): how many requests have chosen it and not
  recorded it, which will send it to the end; its place in the list; how many
  requests hold a list in which it has another place; how far the cursor is from
  its place. Choosing another account lowers the last digit, or the one before it
  if that request's list was outdated; recording an account moves the ones behind
  it forward; none raises a digit without lowering a graver one. Choosing the account
  itself may raise it, but then it has not waited any more. What an account
  has waited and what is left stay below `Bound` together (`IInv`), which is
  (N (R + 1))^2 for N accounts and R requests. The hypothesis of the theorem is
  only that the model counts that far. For three accounts and two requests it
  says 81; the run finds that the count never gets beyond 18.
* `ForwardingProofs!EveryKeyInItsPlace`: what is left of a request's credentials is
  in places foreign to its provider; Tavily's body has an emptied `api_key` or
  none, and all of its accounts have a key to take that place; every other
  provider's key goes into one header that holds nothing of the client's. The
  theorem says nothing of what a client puts into the foreign places: see
  Findings.
* `ForwardingProofs!ClientsAreShared`: the pool holds at most one client of an
  egress, which leads there, and a request on its way has the one in the pool.
  That nothing removes a client from the pool is what makes it inductive.
* `ForwardingProofs!OwnWebhooksOnly`: a job, upstream and in its row, carries the
  secret of the very attempt that was accepted.
* `AdminConsoleProofs!SetupCompletes` and `PasswordAndSession`: the strengthening
  (`HoldThePassword`) says that without an overlap one setup runs at a time and
  meets no password, and whoever is on the way to a session holds the password in
  force. Two first setups that overlap break it, hence the exception.
* `AdminConsoleProofs!NoExpiredToken`: the expiry in the table was issued with the
  session in the table, as one statement writes both; the check's second read
  therefore decides alone, whatever the first one has seen.
* `AdminConsoleProofs!CredentialsStayOpen`: a running service has a key, the one that
  is kept, and every row is under it; while the key file is being written there is
  no key and hence no row.
* `AdminConsoleProofs!TrailAndRowsAgree`: exactly the handlers on their way to the audit
  log (at "summary" or "audit") owe an entry, of one change each, and the entries written together with those owed
  account for every row. The handlers are assumed to be finitely many, so that
  what they owe can be counted.

Every safety invariant and every safety property of a step that a run checks is
stated by one of these theorems. Only model-checked is liveness, which the provers
do not reach (`Answered`, `BundlesDecided`, `TrackedIsSettled`, `ExpiredLeave`,
`StandingIsReported`, `EveryoneHasATurn`, `LoginEndsSession`), and that the bound on
the wait is as low as 18 in the instance of `rotation`.

## Findings

* `gw_direct`: an account that has proxies bound to it is reached from the
  host's own address whenever none of them is left to choose; the reason
  recorded is `no_proxy_binding`. In the run two proxies are bound, nobody edits
  anything, the transport fails over the one and then over the other, and the
  request's third attempt goes out directly. README.md:90 ties direct requests to
  accounts without a bound proxy.
* `gw_keyless`: the accounts a route is incompatible with are computed once,
  among the accounts routable on arrival. One that returns from a cooldown
  before an attempt is not excluded and gets a request it cannot serve.
* `alerts_missed`: a rule is silent for ten minutes from the time its delivery was
  recorded, and a pass looks back ten minutes from its start. As the delivery is
  recorded after the pass began, the pass ten minutes later finds the rule silent
  still, and the one fifteen minutes later looks back five minutes too little.
  An account refused in the first minutes after an alert is never reported. In
  the model a unit is a minute and so a slow webhook takes one; in the code it is
  enough that the answer comes in a later second than the pass began.

Smaller ones are visible in the models and have no run. `Increment` refuses a
request whose key is revoked between the lookup and the count with "api key
quota exceeded" (`gateway/src/auth.rs:99`), although its quota has room.
`PassLimit` clamps the entries moved per round to 500
(`storage/src/lib.rs:2490`), while the sample configuration sets "Max logs
processed per archiving/cleanup round" to 5000 (`.env.example:69`).
`Trimmed` takes the blanks from a password that is set up but not from one that
is given at login (`admin-api/src/auth.rs:32`, `:71`), so a password chosen with
blanks around it never works again as it was typed. A setup that is cut off
after its first statement (`cut`) leaves an installation without a tenant which
no later setup completes. README.md:83 says that the first visit generates a
default platform API key; `auth_setup` creates none. `Remainder` empties a place
only for the provider whose clients use it: what a client puts as well into a
place of another provider (`x-api-key` in a request to Firecrawl, say) is content,
forwarded as it came, while AGENT-README.md:26 says "Never log or forward a
Platform API Key" without that restriction and README.md:107 speaks of "that
credential". `ReadBackFails`: a created or changed account that another handler
deletes before it is read back is answered with "not found", and its change has
no entry in the audit log (`admin-api/src/provider_accounts.rs:54`, `:151`).

## Limits of the models

* Storage errors other than violated constraints are left out; the code logs
  them and goes on, except in `resolve_pinned_async_route`,
  `route_incompatible_account_ids` and `authorize`, which answer with an error.
* The reads of one selection are taken together, although the list of accounts
  and each list of proxies are separate queries.
* Account weights are all 100, which is what the admin API creates.
* A cooldown's random fifth is left out. The clock counts minutes.
* Jobs in `AsyncJobs` are polled without a proxy, and the reconciler's writes to
  account rows are reduced to the status column; in `Gateway` the reconciler is
  not an actor, but its statements are the same as those of a second request.
* An archive's size is counted in checkpointed entries. Deleting a file is taken
  to be durable at once, and so are creation and renaming of files. Only what the
  hot table holds is modelled of the hot database.
* A rule's threshold and webhook are fixed in `AlertChecks`; only its being
  enabled is edited, with the rest written back. The table alert_events is
  written and listed, never read by the program, and left out.
* `Rotation` has one set of equal accounts for all requests. Where requests
  differ in it (keyless accounts, exclusions after a failure), the cursor is
  reduced modulo different counts, and no bound on the wait holds in general.
* In `AdminConsole` a power failure touches the key file only: the rows that were
  committed survive it, which is the worst that can happen to them. What a lost
  commit does is in `RequestLogArchive`. An empty password, one that is too short
  and a malformed header are refused before anything is read and left out.
* In `Forwarding` credentials are looked for in the three places that some
  provider's clients use; the rest of a request is content. Every attempt at a
  crawl has a secret, as with a configured webhook address.
* `AdminConsole` uses an account's id again after a deletion, where the code takes
  a fresh one; `ReadBack` then finds the newer row.
* `build_upstream_request(..)?` (`gateway/src/lib.rs:437`) is not an exit of
  `Gateway`: it fails only if a body that was just parsed cannot be serialized,
  and would leave like `ClientFails`.
* A console edit that writes back what it read before a refusal re-enables the
  account. `Gateway` has these statements, but `DeniedStaysOut` lets the console
  decide: the code promises no more.
* The order in which jobs become due is free, which includes every order of
  `next_poll_at`.

## Plan

1. Done: `Health`, `Gateway`, `PlatformKeys` with `Admission`, `AsyncJobs` with
   `JobLifecycle`, their runs, and the proofs above.
2. Done: `RequestLogArchive` with `LogKeeping`, `CutoffMonth`, `AlertChecks`,
   `Rotation`, their runs, and the proofs of all their safety properties.
3. Done: `AdminSessions`, `MasterKey`, `AdminConsole`, `Forwarding`, their runs.
   The invariants of both and `ExpiredIsRefused` are proved.
4. `Rotation` for the proxies of one account, and a refinement from `Rotation` to
   the free choice of `Gateway`.
5. Storage errors in `Gateway` and `AsyncJobs`, and the reconciler's writes to
   account and proxy rows as actions of `Gateway`.
6. A proof that `Gateway` implements an abstract "request is answered with what a
   route said"; a lower bound on the wait than the square in `NobodyWaitsForEver`.
