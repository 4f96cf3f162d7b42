# TLA+ verification of OrgStatus / EduStatus

This directory holds TLA+ models of the repository's services, the TLC
configurations that check them, and TLAPS proofs about them. `PROJECT.json`
lists components, runs, mutants (small bugs each property is shown to catch),
the map from definitions to source lines, findings, hazards and theorems.

    tlc -workers 2 -config Billing.cfg MCBillingMixed
    tlapm BillingProofs.tla

## The system

| Part | State | Operations | What is hard |
| --- | --- | --- | --- |
| Billing (`rust-core/src/billing`) | tables `invoices`, `billing_payments`, `subscriptions` | create, pay, cancel invoice; overdue job every 10 minutes; late fee (no route); subscriptions | transactions read before they lock; the job and handlers wait for each other's rows; rollback between two writes |
| Sessions (`rust-core/src/auth`, `users::set_active`) | tables `users`, `sessions`; Redis counters and blacklist; the clients' cookies | login, refresh, logout, logout_all, revoke, change_password | one count, one eviction, one insert per login; token rotation; set updates miss rows committed later |
| Payments, clients' balances, bank records | `payments`, `clients.paid_amount`, `bank_records` | create/confirm/reject, record_payment, match, auto_reconcile, ignore | one balance kept by five handlers in three tables |
| Organizations, departments, clients, contracts, attendance, users | their tables, with foreign keys and cascades | create, update, delete, bulk_record, ... | several statements in a transaction that may fail at any of them; row locks taken in any order |
| Tenancy (`state.rs`, `tenancy.rs`, `auth/middleware.rs`, row level security) | the connection pool; two settings on each connection | require_auth, begin_tenant_transaction, commit | pooled connections reused by requests of other organizations; two connections per request |
| Reminders | table `reminders` | create, cancel, delete, send_now; job every minute | broadcast before update and commit |
| Realtime hub | connections, rooms | register, join, leave, broadcast, unregister | two tasks per socket, one not stopped; pruning while others come and go |
| Events | `audit_logs` | go-connectors receives a provider's webhook and forwards it to `/events/incoming` | repeated delivery, partial failure |
| go-connectors retry package | circuit breaker counters | `Call`, `Do`, backoff | `fn` runs without the mutex |
| query-router, shard-manager | Redis cache of SELECT results; pools per shard | route a query, execute it on a shard | stale cache; placeholders against parameters; session state of pooled connections |
| web client (`web/src/lib/api.ts`) | `isRefreshing`, `refreshSubscribers` | every API call, refresh on 401 | requests that wait for another one's refresh |
| Connectors, dashboard, anomaly statistics, pages | none shared | pass-through | none a model checker would add to |

Everything in rust-core goes through PostgreSQL transactions at READ COMMITTED
(`state.rs` begins them without another level), go-connectors calls rust-core
over HTTP with a shared secret, query-router calls shard-manager over HTTP, and
the web client calls rust-core through its server's proxy. The reminder job, the
event receiver and the attendance handlers call the WebSocket hub.

What makes each part correct:

- *Billing*: invoices and payments agree; a payment is of the whole invoice;
  paid is final; overdue invoices are noticed; and, one handler at a time,
  cancelled is final and an invoice is paid once.
- *Sessions*: at most `MAX_SESSIONS` sessions; one refresh token opens one
  session; rotation, logout_all and a password change leave no session behind.
- *Ledger*: a client's paid amount counts its live payments; a payment that was
  reconciled is confirmed and names the record that names it; a record is settled once.
- *Tenancy* (where the service connects as `edustatus_app`): a request sees and
  writes rows of its own organization only, whatever connection it gets; every
  request ends; a failed one leaves nothing; a client's total holds its contracts.
- *Reminders and hub*: a reminder that is due is settled (it is not, see
  *Violations*), is announced once unless something fails, and never sent in
  silence; the hub knows the connections it can serve, reaches them all, and
  forgets those that are gone.
- *Shard manager*: a query runs in the schema of the organization it was sent for.
- *Circuit breaker*: counters and state agree; an open breaker spares the
  service; it closes again after recovery.
- *Web client*: every request is settled, with one refresh in flight.

## How transactions are modelled

The models follow PostgreSQL at READ COMMITTED, which is what the code runs on:

- a SELECT sees the rows committed before the statement;
- an UPDATE or DELETE takes the lock of each row it changes and holds it to the
  end of the transaction; when it had to wait, it evaluates its WHERE clause
  again on the row's latest committed version, and uses that version;
- writes become visible to others at the commit; a rollback leaves nothing.

So a handler whose transaction is one UPDATE is one action, a handler that
reads, decides and writes is several, and a lock is a variable where waiting for
it is observable. Dropping a transaction (an error, a client that hangs up, a
killed process) is the action `Rollback`, possible between any two statements;
nothing survives it but committed rows, so a restart of the service is a
`Rollback` of every handler.

A library matters here: sqlx decodes no column of an SQL enum type into a Rust
`String` (`payments.status`, `reminders.status`, `contracts.status`; `invoices`
have a Rust enum, `sessions` none). A handler that reads such a row back with
`RETURNING *` then fails and rolls back. Where it matters a constant
(`RowsDecode`) says whether it decodes. With TRUE a model has every behaviour it has
with FALSE and those of more handlers, except for the job of `Reminders`, which
with FALSE fails as soon as a row is due. So the passing runs use TRUE: what they
check where `RowsDecode` occurs is safety, and the liveness of the hub, which wants
nothing of the job but that a broadcast it began goes on. The runs that expect a
violation use FALSE, so that no result rests on a conversion the code does not have.
The theorems hold for both. In `Tenancy` such a failure is a `Fault`, which may
strike any statement.

## Modules

### Billing, InvoiceLifecycle, MCBilling, MCBillingMixed, BillingProofs

`Billing` is `billing/engine.rs` with its handlers and the job of `main.rs`.
Variables are the committed columns (`status`, `total`, `due`, `payments`), the
row locks (`lock`), each handler's position and the row it read (`pc`, `snap`),
and the rows the running overdue UPDATE still has to lock (`scan`).

| Code | Actions |
| --- | --- |
| `create_invoice` | `CreateInvoice` |
| `pay_invoice` | `PayRead` (get_invoice_by_id), `PayUpdate` (status test, UPDATE that takes the lock), `PayCommit` (INSERT, commit), `PayRefused` |
| `cancel_invoice` | `CancelInvoice` (its WHERE clause is evaluated on the locked row) |
| `apply_late_fee` | `LateFeeRead`, `LateFeeUpdate`, `LateFeeCommit`, `LateFeeRefused` |
| `mark_overdue_invoices` | `JobScan`, `JobLock` for each row, `JobCommit`, `JobFails` |
| transaction dropped | `Rollback` |
| the clock | `DuePasses` |

`InvoiceLifecycle` is what billing promises, each operation in one step. Only one
handler at a time keeps that promise, and no route calls `apply_late_fee`, which
`LateFees` is about. So `MCBillingMixed` starts in one of two worlds: *alone*, every
operation, `apply_late_fee` included, of one handler at a time; *together*, two
handlers of the operations that have a route. The overdue job runs in both.
`AloneImplementsLifecycle` is the refinement in the first world, under the identity
mapping; in the second one it claims nothing (there the lifecycle it maps to stands
still). `PaidInFull` holds in both: a payment reads the total without a lock, which
could only go wrong if a late fee ran beside it.

### Sessions, MCSessions, MCSessionsMixed, SessionsProofs, SessionsWorldsProofs

`Sessions` is `auth/service.rs` and `auth/handlers.rs` for one user. `session`
is the table (with why a row was deactivated, which only properties read),
`held` the refresh tokens that are in some client's cookies, `password` counts
the password changes. Sessions are numbered in the order their transactions
begin, which is the order of `last_used_at`, the column evictions sort by.

| Code | Actions |
| --- | --- |
| `login` | `LoginUser`, `LoginCount`, `LoginEvict`, `LoginCommit` |
| `refresh_tokens` | `RefreshSession`, `RefreshUser`, `RefreshCommit` |
| `logout` | `Logout`: clears cookies, leaves the row |
| `logout_all` | `LogoutAllStart` (snapshot of its UPDATE), `LogoutAllCommit` |
| `revoke_session` | `Revoke` |
| `change_password` | `ChangePasswordRead`, `ChangePasswordUpdate`, `ChangePasswordCommit` |
| `users::set_active` | `SetActive` |
| the clock | `Expire` |

`MCSessionsMixed` runs the module in three worlds, one of which is chosen at the
start. *alone*: every operation, one handler after the other, where what the
handlers promise must hold to the letter (`Alone...`). *together*: two handlers
of several steps in flight, of any kind. *logins*: two handlers in flight, of
which none refreshes or changes the password; a refresh adds a session without
looking at the limit, so `LoginCap` is about this world.

### CircuitBreaker, MCCircuitBreaker, CircuitBreakerProofs

`CircuitBreaker` is `CircuitBreaker.Call` of `retry.go`. The two critical
sections are atomic (`Admit`, `Probe`, `Reject`; `Fail`, `Succeed`), `fn` runs
between them. `failures` and `successes` are counted up to the bounds they are
compared with, which no test can tell from unbounded counters. `healthy` is the
service behind `fn`, external to the repository. `tripped` records who was in
flight when the breaker last opened; nothing reads it but a property. No
connector of the repository uses the breaker yet: the module checks the package
as its callers would find it.

### ClientLedger, MCClientLedger, ClientLedgerProofs

`ClientLedger` is one client's money and the users' who handle it: a user is the
set of organizations whose rows it sees, one (`{o}`) or all. `Home` is the client's
organization; payments and bank records carry one of their own, and
`payments::create` takes the payment's from the request, independently of the
client's. The INSERT of such a payment passes, as foreign keys look past the
policies, while the UPDATE of the balance by a user who does not see the client
changes no row and nobody notices. `paid` is `clients.paid_amount`, `pay` and
`rec` the tables `payments` and `bank_records`, `pairs` what the CTE of each
`auto_reconcile` in flight returned. All handlers but that one test only rows
they hold until their commit, so each of them is one step. `auto_reconcile`
compares rows of a snapshot and updates records by id alone: it is a scan and a
commit. The history variable `overlapped` records whether a handler has run between
the two; the properties that hold only without that say so.

| Code | Actions |
| --- | --- |
| `payments::create`, `clients::record_payment` | `CreatePayment`, `RecordPayment` |
| `payments::confirm`, `payments::reject` | `Confirm`, `Reject` |
| `clients::delete` with its foreign keys | `DeleteClient` |
| `bank_records::import` | `Import`: the lines of a batch that are new |
| `ignore`, `match_payment` | `Ignore`, `MatchPayment` |
| `auto_reconcile` | `AutoScan`, `AutoCommit`, `AutoFail` |

Any of the single steps may also fail; that is the step not being taken.
`BalanceWithinLive` says how far the balance can be off: `match_payment` may bring a
rejected payment back without adding it, and a payment of another organization
(`Foreign`) is counted or not, and subtracted or not, according to who did it. Both
bounds hold for sums, so that one such payment never makes up for two others.
`match_payment` with a payment the user does not see settles the record and
leaves the payment as it is: `PairsAgree` goes from the payment to the record only.
The deletion of a whole organization is not an operation of this module.

### TokenRefresh, MCTokenRefresh, TokenRefreshProofs

`TokenRefresh` is `fetchApi` of `web/src/lib/api.ts` in one browser tab.
JavaScript runs a continuation to its next `await` without interruption, so each
response that arrives is one step. `phase` is where each call is, `answer` the
response to its pending fetch, `access` whether the tab's cookie is valid;
`isRefreshing` and `refreshSubscribers` are the module's two variables. The server
and the network are what the client sees of them: `executed` counts how often a
call took effect, and `stranded`, which only properties read, the subscribers that
a refresh left on the list which failed on `/login`.

| Code | Actions |
| --- | --- |
| a call of `fetchApi` | `Call` |
| its answer | `ReceiveFirst`, `ReceiveRetry` |
| 401: first one, or one during a refresh | `StartRefresh`, `Subscribe` |
| `refreshAccessToken` has ended | `Refreshed` (`onTokenRefreshed`, own retry), `RefreshFailed` (`clearSessionAndRedirect`) |
| the browser leaves the page | `Unload` |
| `auth.logout`, with its `goto('/login')` | `Logout` |
| server, network, cookies | `Serve`, `ServeRefresh`, `Lose`, `Expire`, `OtherTab` |

A 401 that arrives after the refresh it should have shared starts another one; the
model has that. After a failed refresh the list is neither resumed nor rejected. On
any page but `/login` that page is left, and `WaitersMoveOn` says so; on `/login`,
which is not left, a call waits until some later refresh succeeds, a successful
login notwithstanding. `NobodyForgotten` says that no other call is left waiting
without a refresh in flight.

### WsHub, Reminders, MCReminders, RemindersProofs

`WsHub` is `realtime/hub.rs` and `handle_socket` of `realtime/websocket.rs`.
`clients` and `rooms` are the DashMap, `queue` each connection's unbounded
channel, `handler`, `inbound` and `outbound` its three tasks, `cast` the
`broadcast_to_room` each sender is in: DashMap's iterator locks one shard after
the other, so that entries come and go during a broadcast, and the dead ones it
met are removed at its end. What is at the other end (`peer`) is external: it may
close, or vanish without a word, which TCP notices only once something was
written to it. `broadcast_to_user` is one step. `Announcers` are senders that only
relay an event to its room, as `events::incoming` does with a connector's report.
By itself the hub has `HubSpec`.

`Reminders` extends it with the table, the handlers and the job. `Stored` are
rows that another program put into the table before the service first starts;
its database was shared with an earlier back end
(`docs/BACKEND-MIGRATION.md:6-10`). A row is locked from the job's UPDATE to its
commit, and handlers wait for that lock; `fired`, `told` and `lost` are
histories for the properties.

`MCReminders` starts in one of three worlds: the hub alone, with two connections of
one user and a connector that reports events; one reminder and one connection; two
reminders and no connection.

| Code | Actions |
| --- | --- |
| `handle_socket` | `Connect`; `Unregister` after `select!` |
| inbound task | `JoinRoom`, `LeaveRoom`, `Ping`, `InboundEnds` |
| outbound task | `OutboundSends`, `OutboundFails`, `OutboundEnds` |
| `broadcast_to_room` | `CastStart`, `CastVisit` for each entry, `CastEnd` |
| `events::incoming` | `Incoming` |
| `create`, `cancel`, `delete` | `Create`, `Cancel`, `Delete` |
| `send_now` | `SendNowRead`, `SendNowCommit`, `SendNowTell`, `SendNowDone`, `SendNowDropped` |
| `process_due_reminders` | `JobSelect`, `JobFire` and `JobUpdate` for each row, `JobCommit`, `JobFails` |
| the process ends and starts again | `Restart` |
| the clock; peers | `ComesDue`; `Leaves` |

The job's UPDATE tests no status, so a reminder that is cancelled after the SELECT
and before it is sent all the same; the model has that, and no text of the
repository says otherwise, nor of a `send_now` of a reminder that was sent or
cancelled. `FiredPerFault` and `SentWasAnnounced` say what remains true: the job
announces once, and once more for each fault, and nothing is sent unannounced.

### Tenancy, MCTenancy, TenancyProofs

`Tenancy` is a request of rust-core between its token and its answer:
`require_auth` with its transaction that skips row level security, then
`begin_tenant_transaction` on a connection of the pool (`Begin`, `SetSkip`,
`SetOrg`), then the statements of the handler, then the commit. Each handler of
organizations, departments, clients, contracts, attendance and users is the
sequence of statements it executes (`OrgCreate`, `AttendanceBulk`, ...), of
eight kinds (`Select`, `Exists`, `Free`, `Insert`, `Upsert`, `Change`, `Adjust`,
`Remove`), with the policies of `0003_rls_tenant.sql` as `Sees`, the foreign
keys as `Parents` and ON DELETE CASCADE as `Taken`: the rows below the deleted one
that its transaction sees. `db` holds what is in the
tables, uncommitted writes included, and `undo` what each transaction overwrote,
from which follow what others see (`Seen`) and what a rollback restores.
`Blockers` are the transactions a statement waits for: those that wrote the row,
or refer to it, or are deleting what the new row refers to.

| Code | Actions |
| --- | --- |
| `require_auth` | `AuthBegin`, `AuthDone`, `TurnedAway` |
| `tenant_tx_for` | `Begin`, `SetSkip`, `SetOrg` |
| the handlers' statements | `Start`, `Continue` |
| `tx.commit()` | `Commit` |
| `?`, a handler dropped by axum, a deadlock | `Fault`, `Drop` |

Three things the model keeps are worth knowing. Users without an organization are
visible to every organization, and so are super_admins, who are kept as users without
one. Foreign keys are checked without row level security, so that a contract
or an attendance entry of one organization may refer to a client of another, and
deleting that client takes it away: `OwnTenant` is about the rows a statement names,
not about cascades. And `contracts::update` and `cancel` leave the client's total
as it is, which `ContractsCounted` allows (the total holds at least the contracts).

### ShardManager, MCShardManager

`ShardManager` is `shard-manager/src/main.rs`: the handlers behind one tokio
`Mutex`, and a pool of sqlx connections per shard. `execute_on_shard` takes a
connection, sets its search path, drops it, and takes a connection again for the
query. sqlx hands a dropped connection to a spawned task which puts it back at
the end of the idle queue (`leaving`, `Return`), so the second connection can be
another one.

| Code | Actions |
| --- | --- |
| the Mutex | `Arrive`, `Turn` in each handler |
| `get_shard_connection`, `get_organization_location` | of the same names |
| `execute_query` | `Execute`, `AcquireForPath`, `SetSearchPath`, `AcquireForQuery`, `Query` |
| `health_check` | `HealthCheck`, `HealthAcquire`, `HealthSelect` |
| errors, clients that hang up | `Fails`, `HangsUp` |

## Runs

| Run | Bounds | What it shows |
| --- | --- | --- |
| `billing` | 2 invoices; one handler with late fees, or two without; 1 failed job, fairness | `TypeOK`, `PaymentIffPaid`, `PaidInFull`, `AloneImplementsLifecycle`, `PaidIsFinal`, `HandlersFinish`, `OverdueIsNoticed` |
| `billing_double_payment` | 1 invoice, 2 handlers | `AtMostOnePayment` violated |
| `sessions` | 2 handlers, limit 2, 5 sessions, 1 password change; three worlds | `TypeOK`, `ParentRetired`, `SuccessorsBounded`, `LoginsCapped`, `AloneUnderCurrentPassword`, `AloneAllTerminated`, `AloneOldestEvicted` |
| `sessions_terminate` | 2 handlers | `AllTerminated` violated |
| `breaker` | 3 goroutines, threshold 3, fairness | `CountersAgree`, `QuietWhileOpen`, `Recovers`, `Trips` |
| `ledger` | 2 organizations, 2 payments, 2 records, 2 auto_reconcile, amounts 0 to 2 | `TypeOK`, `BalanceWithinLive`, `ReconciledIsConfirmed`, `PairsAgree`, `SettledOnceAlone` |
| `ledger_settled_twice` | 1 organization, 2 payments, 2 records, 1 auto_reconcile, dates 0 and 24 h | `SettledOnce` violated |
| `token_refresh` | 2 API calls, 1 login, 1 login with a wrong password, fairness | `SingleFlight`, `ExecutedOnce`, `NobodyForgotten`, `WaitersMoveOn` |
| `notifications` | 2 connections of one user and a connector; 1 reminder and 1 connection; or 2 reminders; 1 room, 1 fault, fairness | `TypeOK`, `NoGhosts`, `OnlyDeadPruned`, `FiredPerFault`, `SentWasAnnounced`, `GoneIsUnregistered`, `RoomIsReached` |
| `reminders_due` | the same, 1 reminder in the table from the start | `DueIsSettled` violated |
| `tenancy` | 2 requests, 2 connections, 2 organizations, 3 users, 2 contracts, fairness | `TypeOK`, `OwnTenant`, `FailedLeavesNoTrace`, `ContractsCounted`, `EveryRequestEnds` |
| `shard_manager` | 2 requests, 1 shard, pool of 3 | `OwnSchema` violated |

Why the bounds are enough. *Billing*: a race on one row needs two handlers, and
two invoices let the job hold one row while it waits for the other. Amounts are
chosen so that an accepted total of zero, a refused negative total, a tax and a
rounded fee occur; `MaxTotal` stops late fees after the first, and
`MaxJobFaults` is how often the job fails. *Sessions*: a limit of 2 stands for
5: it is reached, exceeded by a race, and brought back by the next login, for
which five sessions are needed. *Circuit breaker*: with three calls in flight, a
threshold of three can be passed in every order. *Ledger*: a record matched
twice needs two payments, a payment matched twice needs two records; with two
organizations there are users who see the client, who see only the other one,
and who see both, so that each can miss what the other does; amount 0 is
imported and refused as a payment, amounts 1 and 2 keep a wrong payment from
standing in for a right one. Dates 24 hours apart are the first that do not
match; they occur in the second run. *Token refresh*: one call can refresh while
another waits and a third brings its 401 late; logins are the calls that answer
401 while no session exists. *Notifications*: a broadcast that meets a connection whose
receiver is gone has another one still to come by, so the hub alone has two, of one
user, who share the messages to it; one connection meets the job, send_now, its own
three tasks and a restart; and two reminders with a limit of one make an execution
leave a due one for the next. The three together are beyond TLC's reach within
minutes; the invariants and action properties of the run are theorems for any
numbers of all of them at once. With `MaxQueue` messages in a channel no ping is
sent, no event reported and no `send_now` requested. *Tenancy*: two connections
and two requests are enough for a connection to be used by both, for rows to be
locked in opposite orders by two `bulk_record`, and for the pool to run dry; the
third user is one without an organization; a client is deleted, given contracts
of either number, and updated by hand, by its own organization, by the other and
by an administrator. *Shard manager*: the default configuration has one shard;
ids of other lengths and regions are refused, and a region that is no number
panics. Rows and requests of `Sessions` and `ClientLedger` are symmetric in
every definition; symmetry is not used in runs with liveness properties. In
`Tenancy` and `ShardManager` each request is served once and the system then
stops: their runs check no deadlock, and `EveryRequestEnds` says what deadlock
freedom would.

*Violations.* `billing_double_payment`: `pay_invoice` tests a row it read
without `FOR UPDATE` and then updates `WHERE id = $1`. The test refuses paid and
cancelled invoices by message, and two requests in flight get past it. So does a
payment beside a cancellation, and the cancelled invoice becomes paid, which leaves
the two tables consistent. One handler at a time, `AloneImplementsLifecycle`
excludes both. `sessions_terminate`: "All sessions
terminated" is not so for a login or refresh that commits after the UPDATE
started. `ledger_settled_twice`: a record ignored while `auto_reconcile` runs
comes back as matched, which `match_payment` would refuse. `shard_manager`: a
query runs on a connection whose search path was never set, or was set for
another organization, while the README promises that organizations' data is
isolated (`src/README.md:139`). `reminders_due`: the job reads due rows into a
struct whose `status` is a `String`, of a column that is an SQL enum, so every
execution that finds a due row fails before it fires anything, at the next
minute again; the comment at `main.rs:75` says that pending reminders are fired
every minute. `create` fails for the same reason, so that the reminder of the
run is one that was in the table before.

Two observations are no findings, for no text of the repository says otherwise.
`auto_reconcile` never sets the payment's `reconciled` flag, so that a later run
matches the same payment with another record. And `auth/handlers.rs:92-96` reads
the refresh request with a `Json` extractor while `api.ts:45-51` posts neither body
nor content type, so that rust-core as it stands refuses every refresh of the
web client; `TokenRefresh` models any answer of the server.

## Fairness

- `Billing`: a started handler goes on to its end unless it waits for a lock
  (weak fairness of its commits and refusals; tokio runs it). A lock step has
  strong fairness: PostgreSQL queues waiters and wakes them when the lock is
  released. The interval timer of `main.rs` starts the job again for ever (weak
  fairness of `JobScan`), also after a failure. Nothing is assumed of clients:
  they need not send a request, nor is `Rollback` fair.
- `CircuitBreaker`: `fn` returns, since the connectors' HTTP clients have
  timeouts; time passes; and some goroutine calls again and again, which is an
  assumption about load, without which no breaker leaves the open state.
- `TokenRefresh`: every fetch is answered or fails (the browser and the proxy end
  it), the event loop handles what arrives, and a navigation that was started
  takes place. Nobody need call, log in or refresh.
- `WsHub`: tokio runs every task that can run, a broadcast goes on to its end, and a
  socket whose peer closed, or that TCP has given up on, ends the task that uses it.
  Nobody need connect, join or report. A lost connection that nothing is written to
  need never be noticed, and `GoneIsUnregistered` does not claim it; `RoomIsReached`
  is about peers that are there.
- `Reminders`: the hub's fairness, and the interval of `main.rs` starts the job again
  for ever. `DueIsSettled` is refuted under it, so the job is not just idle.
- `Tenancy`: each request goes on when it can (tokio), the pool gives a free
  connection to those that wait in turn, and PostgreSQL ends a circle of waiting
  transactions by ending one of them, any of them (`Victim`). Weak fairness is
  enough, as each request is served once. That no transaction waits for a row
  *and* for a connection is what the property rests on.
- `Sessions`, `ClientLedger` and `ShardManager` have no liveness property.

## Proofs

All proofs are for any values of the constants that satisfy the named
assumptions of the modules (in `Billing`: amounts are integers, lock owners are
distinct, and finitely many requests; in `Sessions`: naturals and finitely many
requests; in `CircuitBreaker`: a positive threshold; in `ClientLedger`: finitely
many payments, integer amounts and dates, a home organization, and a NULL that
is no key; in `TokenRefresh`: logins are calls; in `Reminders`: finitely many
rows, a job and a send_now that are different senders; in `Tenancy`: finitely
many requests and contract numbers, profiles of the users' type, and special
values that are no organization, request or connection).

- `BillingProofs`: `TypeCorrect`, `LocksCorrect`, `PaidIffPaymentExists`,
  `PaidStaysPaid`, `PaymentsAreInFull`, `PaymentsAreBounded`, and with one handler
  at a time the refinement `SerialImplementsLifecycle`. `PaymentIffPaid` is
  not inductive: a cancellation could hit a paid row unless its guard excludes
  it, and the job's commit could unless every row it holds is pending, which is
  `LockDiscipline`. `PaymentsBounded` needs the most: each handler that can still
  pay has read the invoice before its first payment and has not ended since, so
  payments and those handlers together are at most the handlers. The refinement
  needs that no row is a draft and that what the handler has read still holds when
  it commits, except that the job may have turned pending into overdue (`SerialInv`):
  what a second handler breaks.
- `SessionsProofs`: `TypeCorrect`, `RotationIsAtomic`, `RotatesOnce`,
  `RefreshesAreBounded`. The
  inductive invariant adds that ids of begun transactions have no row yet
  (`Fresh`), what a refresh in flight carries (`InFlight`), that clients hold
  only tokens of logins (`Roots`) and that parents are such sessions (`Lineage`).
  The bound counts the refreshes in flight with a token together with the sessions
  that replaced it: a replaced session is inactive (`Retired`), so none joins.
- `SessionsWorldsProofs`: `LoginsAreCapped` and, in `Sessions` itself and beside every
  operation but refresh, `CapWithoutRefresh`. Several logins may have counted the same
  sessions, each of which will deactivate some of them and add one. `Ready(j)` are the
  logins that will deactivate at most `j` rows that are active now; `CapInv` says, for
  every `j`, that the sessions beyond `j` and those logins together stay within the
  limit plus the other handlers. A step that deactivates `m` rows lets logins join
  `Ready(j)` that were in `Ready(j + m)` before, whose bound pays for them. One
  handler at a time: `PasswordsAreCurrent`, `AllAreTerminated`, `OldestAreEvicted`,
  from what a handler alone in flight still knows (`Knows`): the password it read is
  the current one, the rows of its snapshot are the committed ones, and those it will
  evict are older than the others.
- `CircuitBreakerProofs`: `BreakerCounts`, `OpenIsQuiet`. The two properties and
  the types are inductive together.
- `ClientLedgerProofs`: `TypeCorrect`, `ReconciledConfirmed`, `MatchesExist`,
  `BalanceCounted`, and without overlap `PairsAgreeAlone` and `RecordsSettledOnce`.
  `BalanceCounted` is about sums over the table of payments, which count each
  payment's units of money, so that no recursion is needed. create, record_payment and
  reject change the balance by the units of the one payment they change, or, for a user
  who does not see the client, a payment of another organization by nothing, which is
  why that payment's units stand on both sides. `match_payment` may bring a payment
  back, which only the upper sum counts (`OwnLiveUnsettled` is the lower one).
  The last two theorems need
  that, while nothing has overlapped, at most one `auto_reconcile` is in flight and
  every record of its CTE is still new (`OneScan`, `ScannedAreNew`): exactly what
  overlap breaks. The lemmas `ReconciledStep` and `RecordStep` say what a step may
  do to a payment's reconciliation and to a record.
- `TokenRefreshProofs`: `OneRefreshAtATime`, `OnlyStrandedWait`, `CallsExecuteOnce`.
  The last needs `ExecutedIsOver`: a call the server has executed is over or its
  answer is on the way and no 401, so that no refresh can send it again.
- `RemindersProofs`: `TypeCorrect`, `NoConnectionComesBack`, `ServedStayRegistered`,
  `FiresOncePerFault`, `SentIsAnnounced`, for any reminders, connections, rooms and
  senders, and `HubByItself` for the hub without reminders. `HubInv` says that a
  broadcast in flight marks only connections without a receiver as dead, and that a connection whose handler has ended is not registered;
  `JobInv` that what the job holds was fired, that what it has still to fire
  (`Unfired`) was fired once per fault at most, and that a committed "sent" has its
  announcement. The hub's steps and the table's are separate lemmas.
- `TenancyProofs`: `TenantsAreSeparate`, `ConnectionsAreNotShared`,
  `FailuresLeaveNoTrace`, `TypeCorrect`, `ContractsAreCounted`, `ContractsHaveClients`,
  for any pool, requests and organizations.
  A connection is idle or belongs to one request (`PoolInv`), exactly during its two
  transactions (`PhaseInv`), and from the second one on carries the settings of that
  request's user (`OwnSettings`); what the policies then let through is no other
  organization's (`SeesItsOwn`). For this nothing is used of the handlers' statements or
  of the rows. `FailuresLeaveNoTrace` adds `RowInv`: no row is open in two
  transactions, only running requests have rows open, what such a row holds is gone or
  carries the name of the request, and what is committed was written by requests
  that committed. It needs that all handlers consist of statements on rows that may
  exist (`HandlersTyped`). The contracts need `ContractInv`, which says of every open
  transaction what its commit will do. `Books`: a client to which it has added contracts
  is there, and kept from deletion; a client it deletes loses all its contracts with
  it; a total it has changed grew by the contracts it added. `Pins`: nobody
  deletes a client that another transaction's new contract refers to. `Stages`: where
  each handler is in its statements: between the last two of `contracts::create` the
  contract is there and the total does not hold it yet, but then the statement on the
  total is still to come, and no commit comes before it. `Effect` sums up what any
  statement writes.

`LocksCorrect`, `PaymentsAreBounded`, `RotatesOnce`, `MatchesExist`,
`CapWithoutRefresh`, `ConnectionsAreNotShared` and `ContractsHaveClients` are theorems
whose property no run repeats.

Every invariant and every action property of the passing runs is a theorem, and so
is the refinement; `PaidInFull` is one without late fees, and TLC checks it with
them, one handler at a time. Left to TLC is liveness, which the prover does not reach:
`HandlersFinish`, `OverdueIsNoticed`, `Recovers`, `Trips`, `WaitersMoveOn`,
`GoneIsUnregistered`, `RoomIsReached`, `EveryRequestEnds`.

## Order of work

1. `Billing` with the abstract `InvoiceLifecycle`; `Sessions`; `CircuitBreaker`.
2. `ClientLedger`; `TokenRefresh`.
3. `WsHub`, by itself and composed with `Reminders` and its job.
4. `Tenancy` with the handlers of the six tables; `ShardManager`.

Each with its run before its proofs. All of it is done. What could come next:
`Tenancy` composed with the hub through `attendance::record`, so that what is announced
after its commit is related to what was committed.

## Not modelled

- *Retry loop and backoff* (go-connectors): a sequential loop of one caller, with
  delays in real time and no shared state.
- *Login rate limiter and access token blacklist*: Redis keys with a time to
  live, about which the code promises nothing that holds when Redis fails, since it
  ignores those errors. A blacklisted or invalid token is one of the reasons for
  `TurnedAway`.
- *Subscriptions and update_invoice*: single statements; the latter edits drafts,
  a status no code path creates. Amounts are integers without a width: an amount
  that overflows an i64 is beyond any price, and neither TLC's integers nor the
  prover's have 64 bits.
- *Webhooks*: go-connectors forwards without state; the provider, which decides about
  repetitions, is not in the repository. Of `events::incoming` the audit record is left
  out, whose failure it ignores.
- *Query router*: its state is a Redis cache whose entries expire with time, and its
  algorithm the concatenation of SQL text.
- *In the hub*: `broadcast_all`, which nobody calls, and peers that read slowly;
  channels are unbounded in the code and memory is not modelled.
- *In the tenancy model*: a `DATABASE_URL` with a superuser's role, which bypasses
  every policy (the header of `0003_rls_tenant.sql`): `OwnTenant` assumes the role
  `edustatus_app`, and so does `Foreign` in `ClientLedger`. Left out are
  the columns no property reads; `parent_id` and
  `dept_id`, which a deletion sets to NULL; `client_limit` and `department_limit`,
  which no handler enforces; the payment tables, which are in `ClientLedger`; the
  refusal of a contract's cancellation for its status, which is a failure like any
  other there.
- *In the shard manager*: the binding of parameters, the conversion of rows, and
  the spelling of numbers in organization ids ("00" and "0" are one region).
- *Anomaly statistics* (floating point), *audit log, dashboard, health,
  configuration*, *placement of organizations on shards* (columns nothing reads),
  *connectors* (stateless translations of external APIs) and *web pages*.
