# Keyzori: TLA+ models, checks and proofs

Keyzori is a licensing server with an SDK. A client activates a license key,
receives a session token, keeps the session alive with heartbeats, reports
usage of metered licenses and releases the session. Operators create licenses
and change, revoke, rotate or delete them while clients are running; Stripe may
manage the expiry of a subscription license. State is split between PostgreSQL
(policy, registrations, meters, Stripe links) and Redis (sessions), and any
number of server processes work on both. The models here are about what that
split makes hard: steps of several handlers falling between each other, writes
to two stores of which one fails, answers that get lost, and leases and
sessions that run out.

Paths below are relative to `apps/server/src` unless they start with `apps/`
or `docs/`.

## 1. The parts of the system

| Part | State | Operations | Works with |
| --- | --- | --- | --- |
| License runtime: `application/services/LicenseService.ts` | none of its own | `activate`, `heartbeat`, `consume`, `deactivate` | license row, allowlists, registrations (PostgreSQL), sessions (Redis), meters |
| Session store: `infrastructure/repositories/RedisSessionRepository.ts` | a key per token and a set of tokens per license, each with an expiry | four Lua scripts: register, refresh, remove, remove all | called inside the admission transaction, and outside any transaction elsewhere |
| Operator actions: `application/services/AdminService.ts` with the license, device and access repositories | license row with `sessionRevision` and `updatedAt`, allowlists, registered devices | create, update, renew, revoke, restore, rotate, terminate, delete, allow, remove, reset | increments `sessionRevision` in the database, then cleans up Redis as well as it can |
| Meters: `DrizzleMeterRepository.ts` | meters with a balance, usage ledger | consume, top up, adjust, create, archive | advisory lock `meter:<license>` |
| Stripe link: `integrations/stripe/StripeSubscriptionService.ts` | `stripe_subscription_links` | link, sync, unlink, reconcile | advisory lock `stripe:<subscription>`, held while Stripe is asked; writes the expiry of the license |
| Stripe inbox: `integrations/stripe/StripeWebhookService.ts` | `stripe_webhook_events` | receive, claim, process, mark | polling worker in every process; leases; backoff |
| SDK client: `apps/sdk/src/core/LicenseClient.ts` and its network, event and device helpers | lifecycle state, token, expiry, timer, counters of failures | activate, heartbeat loop, report usage, deactivate | HTTP API |
| Rate limiting: `plugins/ratelimit.ts` and the limiters of `controllers/license.ts` and `admin.ts` | a sorted set of time stamps per budget in Redis | one script per limiter a request passes | every API route |
| Client address: `controllers/clientIp.ts` | none | which address a request comes from, behind trusted proxies | budgets of the limiters, bindings of sessions |
| Customers: `AdminService.ts`, `DrizzleCustomerRepository.ts` | customer rows with a unique email | create, update, delete | a deletion cascades to licenses and allowlists, then sessions are removed |
| Activity: `ActivityService.ts`, `DrizzleActivityRepository.ts` | events, totals, minute buckets | capture, statistics, retention | called after everything else, failures swallowed by most callers |
| Controllers, validation, OpenAPI, CLI, configuration, migrations, build | none that lasts | translation and start up | |

What is hard, and for each part what makes it correct:

* **Invalidation across two stores.** An operator ends sessions by incrementing
  `sessionRevision` in PostgreSQL; Redis is cleaned up afterwards, best effort.
  Correct means: after the write, no session from before it is accepted, whether
  or not Redis was reached, whatever was already on its way, even if the license
  is restored; and a late cleanup hits no newer session.
* **Admission.** `activate` reads without a lock, then opens a transaction
  with an advisory lock and a row lock, checks again, registers the session in
  Redis *inside* that transaction, and commits. Correct means: slots and
  concurrency limits hold under races; no token is returned for a license that
  was revoked, rotated or deleted meanwhile; sessions nobody received go away.
* **Usage.** A client repeats a report whose answer it did not get. Correct
  means: every event is debited at most once, a success that was seen is in the
  ledger, balances stay in range, and the ledger explains every balance.
* **Stripe.** Webhooks are duplicated, late and out of order, two workers may
  hold the same event. Correct means: no change is lost, none is undone by an
  older one, and links end up showing Stripe's state.
* **The client's own concurrency.** `activate`, `consume`, `deactivate`, the
  heartbeat timer and fatal answers interleave at every await of the SDK. Correct
  means: the heartbeat loop neither dies nor doubles, a session the client was
  given is released whenever `deactivate` came, one failed heartbeat does not
  cost the session, and trouble that lasts ends the client.
* **Limits shared by processes.** A request is stamped by one clock and counted
  later by a script in Redis, under an address that headers may name. Correct
  means: limits hold up to the difference of the clocks and the delay of the script,
  nobody is refused for what others did, `Retry-After` is enough, and no client
  can spend the budget of another.
* **Operations of several statements.** `deleteCustomer` lists licenses, deletes
  rows, cleans up Redis and writes the audit; `createLicense` and the allowlists check
  and insert later. Correct means: references and unique emails hold, sessions of
  what was deleted go away, and every deletion is audited, unless a failure is to blame.
* **Retention.** Several processes prune while others record. Correct means:
  nothing younger than the retention disappears from the views, and totals never shrink.
* **Waiting.** Transactions wait for advisory locks while their holder waits for
  Redis or Stripe. Correct means: every request ends.

The full list, each at the line where it bites, is under `hazards` in
`PROJECT.json`.

## 2. Modules

| Module | What it is |
| --- | --- |
| `RedisSessions` | the sessions of one license as a value, each script an operator on it |
| `LicenseSessions` | abstract: what a license promises about its sessions |
| `LicenseRuntime` | extends `RedisSessions`, implements `LicenseSessions`: API handlers, operator handlers, failures, time |
| `MCLicenseRuntime` | constants for TLC |
| `RedisSessionsProofs`, `LicenseRuntimeProofs`, `LicenseSafetyProofs` | theorems about the session store and the license runtime, and that it implements `LicenseSessions` (section 5) |
| `MeterAccount` | abstract: what the meters of a license promise |
| `MeterLedger` | the transactions that implement it |
| `MeterLedgerProofs` | its theorems, and that it implements `MeterAccount` |
| `MCMeterLedger` | constants for TLC |
| `StripeSync` | webhook inbox, link and reconciliation, the part of `updateLicense` that touches the link |
| `StripeSyncProofs` | its theorems |
| `MCStripeSync` | constants for TLC |
| `LicenseClient` | the SDK: activation, heartbeat loop, usage calls, deactivation |
| `LicenseClientProofs` | its theorems |
| `MCLicenseClient` | constants for TLC |
| `SlidingWindow` | the rate limit script as operators on one sorted set |
| `ClientAddress` | `ClientIpResolver` as an operator, and what proxies and clients may send it |
| `HttpGate` | extends both: requests passing their limiters in several processes |
| `HttpGateProofs` | its theorems, those about `SlidingWindow` and `ClientAddress` included |
| `MCHttpGate` | constants for TLC |
| `ActivityLog` | the three activity tables as bags, `record` and `pruneBefore` as operators |
| `Directory` | extends it: customers, their licenses, allowlists, sessions and audit |
| `DirectoryProofs` | its theorems |
| `MCDirectory` | constants for TLC |

Definitions whose comment begins with *Deliberate fault* are broken variants
used to show that a property notices the fault; no specification uses them.

### LicenseSessions, RedisSessions and LicenseRuntime

`LicenseSessions` knows neither Redis nor handlers nor failures. A license has a standing
(open, blocked by Stripe, revoked, gone; that an open license may have expired is left to `LicenseRuntime`), a secret, a limit, and tokens that are valid or
have ended. A token is admitted once, while the license is open and within the limit;
sessions may end at any time and never come back; an operator terminates all of them in the
step that revokes the license, changes its secret or deletes it; an update, a restoration and
Stripe leave them alone. `Abstract` in `LicenseRuntime` instantiates it: valid are the tokens
handed out that Redis keeps with the license's own revision (`Valid`), whatever the cleanup in
Redis has reached. `LicenseSessions` has no map of its own to the code; it is what
`requireActiveSessionLicense` and the revision promise together.

Everything is keyed by the license id, so one license is modelled. A Redis
script is atomic and so is one operator; a key's expiry is the time left.
SHA-256 of the binding is taken to be free of collisions, and tokens
(`crypto.randomUUID`) are never drawn twice.

| Code | Actions |
| --- | --- |
| `activate` up to the transaction | `ActivateLookup` |
| `admitActivation`: lock, row, policy | `AdmitBegin`, `AdmitReject` |
| `registerSession` in the transaction | `RegisterSession`, `RegisterLimit`, `RegisterFault` |
| trial start, registration, COMMIT | `AdmitCommit`; its failures `AdmitAbort` (a COMMIT whose acknowledgement is lost included), `TransactionLost` |
| the catch block | `AdmitCleanup` |
| `heartbeat`, and the same checks in `consume` | `HeartbeatRefresh`, `HeartbeatLoad`, `HeartbeatDecide`, `HeartbeatReject` |
| `deactivate` | `Deactivate` |
| revoke, terminate, rotate, remove or reset registrations | `Revoke`, `TerminateSessions`, `RotateKey`, `RemoveRegisteredIp`, `RemoveRegisteredDevice`, `ResetRegisteredDevices`; then `OperatorReload`, `OperatorCleanup` |
| restore, delete, update, renew, allowlists | `Restore`, `DeleteLicense`, `UpdateLicense`, `EditAllowlist` |
| Stripe's effect on the license | `Reconcile` |
| process death | `Crash`, `OperatorCrash` |

`lock` stands for the advisory lock and the row lock that an admission takes
together. Other transactions take and release their locks within one step and
only wait for it to be free. `minted`, `issued` and `condemned` are history
variables: tokens given to Redis, tokens a client received, tokens that some
completed operator action terminated.

A secret that is not the current one finds no row and changes nothing, so
`ActivateLookup` starts from the current secret and remembers which it was.
`updateLicense` reads and writes in one step, because its write fails unless
`updatedAt` is the one it read. `lastSeenAt`, metadata and activity are left out.

A token counts as returned (`issued`) at the COMMIT. The answer leaves a little later, after
`touchDevice` and a capture (`LicenseService.ts:418`, `:85`), and an operator may act in between: the
client then receives a token that is terminated already, and its first heartbeat is refused.
`AdmissionIsCurrent` therefore speaks of the COMMIT. A script that Redis runs only after its
handler gave up on it finds the locks free: to everybody else that is `TransactionLost`
followed by `RegisterFault`, and it counts as a `"database"` fault.

### MeterAccount and MeterLedger

`MeterAccount` has no locks and no failures: meters are opened, changed, closed
and debited, an event at most once. `MeterLedger` splits every transaction into
the step that takes the advisory lock and reads and the step that writes and
commits, and lets handlers fail anywhere. `updateLicense` is a read and a later
commit that is refused when `updatedAt` moved (`stale`), as are the list and the
write of `updateMeterDraft`. Event ids of operators are unique UUIDs and are all
written `NoEvent`. The kinds `top_up` and `adjustment` of the ledger are one kind,
`adjust`. `Abstract` instantiates `MeterAccount` with the meters as account and the
`consume` entries as debits.

### StripeSync

A subscription at Stripe is the number of its last change; change *n* is
announced by event *n*. A link shows the version it was last reconciled to: that
stands for status, period, price, `billingRevokedAt` and the rest, which the code
copies together. Handlers hold the subscription lock between `ReconcileBegin`
(or `LinkBegin`) and the write, and ask Stripe in between. Time left until
`nextAttemptAt` and the age of a claim are counted in units; attempts are
counted as long as the backoff still grows. `lastError`, signature
verification and events that name no subscription are left out.

### LicenseClient

One client object of the SDK, on the one thread of its event loop, with the
server as its environment. `net` holds one exchange per request that may be under way;
an exchange is sent, then answered by the server or not, and then settled by the
client with the response or, after a network error or the timeout, without it.

| Code | Actions |
| --- | --- |
| `activate`, `activateOnce` | `Activate`; `ActivateOnce` with `ActivationSucceeds`, `ActivationFails` |
| the timer of `scheduleHeartbeat` | `StartHeartbeat` |
| `runHeartbeat` after its request | `RunHeartbeat` with `HeartbeatThrottled`, `HeartbeatRejected`, `HeartbeatFails`, `HeartbeatSucceeds` |
| `consume`, `consumeOnce` | `Consume`, `ConsumeOnce` |
| `deactivate`, the microtask of `handleFatalError` | `Deactivate`, `FatalCleanup` |
| `deactivateOnce` | `DeactivateOnce`, one disjunct per await |

`release` is where `deactivateOnce` has got to, `fatal` is `fatalCleanupScheduled`
and `cleanup` the queued microtask, before which no timer and no response is
served. Time is counted in ticks: `timer`, `expiresIn` and the age of a request
stand for the timer, `sessionExpiresAtMs` and the times they are compared with;
`expiresIn` stops at 0, because the code treats every expired session alike. Timers and
timeouts are served in the tick they are due. Response headers and body arrive in
one step, since nothing is read or written between them. `event` holds the events
of the last step; a listener that calls the client back is the same as a call right
before or after the step. `held` is a history variable, the tokens the client
received. The lifetime of sessions is fixed in a behaviour, as `SESSION_TTL_SECONDS`
is in the server. Requests the client has given up on are not performed later: a late
heartbeat would only lengthen the session, a late activation is the same as one whose
answer is lost. The server is simpler than `LicenseRuntime`: a session ends by time or by its
own `deactivate`, which always removes it. An operator who ends a session early, and a changed
address, with which `removeSession` answers success and removes nothing, are left out.

### SlidingWindow, ClientAddress and HttpGate

A window is the set of the members of a sorted set, each with its score (`stamp`)
and an `id` for its UUID, and the time at which Redis drops the key. Ids are the numbers
of the admissions of the key, which is also how the proofs tell which admission a member
stands for. The script is atomic; `Consumed` is what it leaves behind, `Exhausted` and
`RetryAfter` are what it answers.

`Resolve` maps socket and headers to an address, as `ClientIpResolver.resolve`
does. `Delivered` is the environment: a client reaches the server directly or
through up to `MaxRoute` trusted proxies (two in the run), writes what it likes into the headers,
and the proxies append to or replace the headers they are set up for. `Charges` are all
the pairs of a client and the address its requests may be charged to in a deployment.

| Code | Actions |
| --- | --- |
| `rateLimiter`: resolve the address, read the clock | `Accept` |
| `enforceRateLimit` lets a request pass, to the next limiter or its handler | `Admit` |
| `enforceRateLimit` answers 429 | `Refuse` |
| `consume` throws, or the process dies | `Fail` |

A request passes the limiter of its address; an admin request then the
limiter of adminPlugin, a runtime request the one of its principal, keyed by
endpoint. `Offset` is how far the clock of a process is ahead of
Redis, at most `MaxOffset`; `MaxDelay` is how long a script may be on its way. `admitted` and `promised` are
history variables; `promised` keeps the latest promise of a key. The stamp of a second limiter is
taken in the step that passes the first one; what may happen in between concerns no property of
a single key. Requests that fail their validation never reach a limiter and
are left out; `Followed` restricts the requests followed in detail to some
addresses, since budgets do not influence each other.

### ActivityLog and Directory

A table of the log is a bag: detail rows, counts per scope and type, counts per
minute, scope and type. Heartbeats have no detail row.

| Code | Actions |
| --- | --- |
| `createCustomer` | `CreateCustomer` |
| `updateCustomer` | `UpdateCustomer`, `UpdateCustomerRow` |
| `deleteCustomer` | `DeleteCustomer`, `ListLicenses`, `DeleteCustomerRow`, `Cleanup` |
| `createLicense` | `CreateLicense`, `InsertLicense` |
| `updateLicense` with a `customerId` | `TransferLicense`, `TransferLicenseRow`, `ReloadLicense` |
| `deleteLicense` | `DeleteLicense`, `DeleteLicenseRow`, `Cleanup` |
| `allowLicenseIp`, `allowLicenseDevice` | `AllowLicenseIp`, `ReadBefore`, `AddAllowed` |
| `removeLicenseAllowedIp`, `removeLicenseAllowedDevice` | `RemoveLicenseAllowedIp`, `RemoveAllowed` |
| `capture` | `Capture`, with a failure that is swallowed |
| `activate` up to the transaction | `Activate`, `Capture` |
| `admitActivation`: row locked, policy; `registerSession`; COMMIT; the catch block | `AdmitActivation`, `StoreSession`, `CommitActivation`, `UndoActivation` |
| its transaction is lost; its script runs after the handler gave up | `TransactionLost`, `StoreLate` |
| `heartbeat`, `deactivate`, as far as sessions and events go | `Heartbeat`, `Deactivate` |
| `pruneExpiredActivity` | `Prune` |
| process death | `Crash` |

`LicenseRuntime` has the details of one license; here many licenses and customers meet, and a
session is only there or not: its token and the license it was drawn for. What makes an
activation refuse is left out (any may be refused), and so is the expiry of sessions, which only
removes. The row of a license is locked from `AdmitActivation` to the end of its
transaction (`Locked`): operators who update or delete it, or insert into its allowlists, wait. The
script in Redis knows nothing of that transaction. It may run when the transaction is lost and
the license deleted; then the handler, if it lives and Redis answers, removes the session in its
catch block. A license read by `updateLicense` is written only if its `updatedAt` did not move; other updates
than those of its customer are in `LicenseRuntime`. An email is a spelling with a normal form, which is
what `customerEmail` makes of it. `owner` and `issued` keep what was
deleted, `leftover` and `unaudited` are history variables that name the sessions and
deletions a failure is to blame for, or a license created or moved in between the list and the
cascade of `deleteCustomer`.

`Mixes` are the sets of operations that may occur in one behaviour. Operations that
share no state cannot meet, so the runs need not combine all of them.

## 3. Runs

| Run | Bounds | Shows |
| --- | --- | --- |
| `invalidation` | 2 API handlers, 1 operator, 2 tokens, 2 addresses, TTL 2, revision up to 2, limits on sessions and slots, failures of Redis and of the database | `ImplementsSessions` (with it `SessionLimit`), `TerminatedNeverAccepted`, `AdmissionIsCurrent`, `StaleNeverCounts`, `CleanupSparesCurrent`, `SetCoversSessions`, `SessionsHoldSlots`, `RegistrationLimits` |
| `policy` | 1 handler, every license type, allowlists, Stripe, expiry, Redis failures, crashes | `ValidSessionsStay` |
| `liveness` | 2 handlers, 1 operator, 2 tokens, Redis and database failures | `RequestsEnd`, `OrphansExpire` |
| `meters` | 2 handlers, 2 meters, 1 event id, balances up to 2, 4 ledger entries, failures | `LedgerExplainsBalance`, `AnswersRecorded`, `MeteredKeepsMeter`, `ImplementsAccount` |
| `usage_after_type_change` | as `meters`, without failures | a violation, see section 4 |
| `stripe_inbox` | 2 workers, 1 operator who links and unlinks, 1 license, 2 changes, lease 1, backoff 1, 1 failure | `NoChangeLost`, `LinkNeverGoesBack`, `Converges` |
| `stripe_links` | 2 operators, 2 licenses, 1 subscription, 1 change, 1 failure, every operation | `LinkedFollowStripe` |
| `stripe_unlink_race` | 2 operators, 1 license, no failures | a violation, see section 4 |
| `client` | 1 usage call at a time, request timeout 3, lifetime 2 or 20, `maxRetries` 2, 1 session | `HeartbeatLoopRuns`, `ReleaseIsLast`, `NoSessionLeft`, `ExpiryNotOverrated`, `OneFailureIsSurvived`, `DeactivationEnds`, `RefreshedOrEnded` |
| `client_offline` | request timeout 1, lifetime 6 | a violation, see section 4 |
| `http_gate` | 2 processes with clocks 1 apart, 1 request each at a time and 3 in all, window 4, second 2, limits 2 and 1, delay 1, time up to 4, 1 failure; 2 clients, 2 proxies, chains of up to 2 forged entries, every header mode | `BudgetHeld`, `RefusalsEarned`, `RetryAfterSuffices`, `BudgetNotStolen` |
| `directory` | 2 operators, 1 application, 2 customers, 3 licenses, 2 tokens, 2 allowlist entries, 3 spellings of 2 emails, 4 operations, retention 1, minute 2, time up to 2, 2 failures, six mixes | `TypeOK` with `EmailsUnique` and `ReferencesHold`, `SessionsEnd`, `DeletionsAudited`, `RestrictionWarned`, `LogComplete` (`DetailKept` and `StatisticsComplete`) |

Why the bounds suffice for the interesting cases. Two handlers give every
pairwise race; a third would repeat one of the two roles. Two tokens with a limit of one or
two reach the limit, pass it after an expiry, and let an old session meet a new
one. A process that dies leaves nothing behind that these failures do not leave (the run has as many states with
crashes as without), so `invalidation` leaves crashes to `policy`. Two revisions allow an invalidation to be followed by a second one before
the cleanup of the first. A balance of 2 with debits of 1 and 2 reaches exact
exhaustion, refusal, and the upper limit; one event id is repeated with the same
and with other units and meters. A lease of one unit runs out while its worker still
waits for Stripe, and lets a second worker take the event. A lifetime of 20 ticks is long enough for two timed out
requests and a safety margin of two ticks, the case `clampHeartbeatInterval` is
designed for, and a lifetime of 2 is below that budget. One session is enough for a
client, which is given no second one once it was active (`HeartbeatLoopRuns` and
the others were also checked with two, without the liveness properties). Three requests
with a limit of one or two reach the limit, are refused and come back after the
promised time; a window of two seconds makes a wait that is no whole number of
seconds, which is over at 5 on the faster clock. States in which the last request has
ended are not followed any further (`Unfinished`): only time passes there. Chains of two forged entries behind two proxies reach `MaxChain`
and pass it, and let a forged entry stand where a proxy's would. In `directory` two operators give
every pair of operations on the same rows, and licenses are created, moved and activated while
their customer is being deleted; two failures let a transaction be lost before a deletion and the
removal of its session fail after it. One application is enough to meet a deletion, since a
session another one stores meets it no differently. A retention shorter than a
minute puts the cutoff into the middle of a bucket. In `http_gate` every admission is, with times up to 4,
within the window and slack of `RefusalsEarned`, so that the run shows the counting; the theorem
`Earned` covers the time. The theorems of section 5 remove the bounds
where they apply.

All runs but those of `LicenseClient`, where time always passes, say `CHECK_DEADLOCK FALSE`: a license may be deleted, tokens, ledger
entries and changes are bounded, and then nothing is left to do.

Fairness. Every handler that can take a step takes it in the end (the event loop
runs ready promises; Redis, PostgreSQL and Stripe answer or fail). A step that
waits for an advisory lock gets strong fairness, since PostgreSQL queues waiters
and serves them in order. Time passes. Stripe delivers every event in the end.
`MeterLedger`, `HttpGate` and `Directory` are checked for safety only.
Operators and clients are not assumed to do anything, and failures are never
forced; in `StripeSync` their number is bounded, which is what "once failures
end" means in `Converges`. In `LicenseClient` only the event loop and time are
fair: timers fire, `AbortSignal.timeout` ends every request, microtasks run; the
server and the network may be silent for ever.

## 4. What the runs found

* **Usage after a change of type** (`usage_after_type_change`). `consume` checks
  the type on a row read before its transaction (`LicenseService.ts:178`), and
  the transaction never looks at the license. An update that ends the metered type in
  between does not stop the debit. `docs/runtime-flow.md:39` says that a report
  is accepted only for a metered license.
* **A link removed after the fact** (`stripe_unlink_race`). `updateLicense` deletes
  the link within its transaction and once more after it
  (`AdminService.ts:412`). If the license was changed back and linked again
  meanwhile, the second call removes the new link without anyone asking for it.
* **Offline without a failure** (`client_offline`). The SDK emits `network:offline`
  and deactivates itself after repeated 429 answers, with no failure strike at
  all (`apps/sdk/src/core/LicenseClient.ts:277`). `docs/sdk-reference.md:210` and the comment
  in `types.ts` give consecutive failures that reach `maxRetries` as the only reason.
* **A limit of `ValidSessionsStay`.** The property fails if the database may drop
  the connection of an admission (`"database"` in `Faults`), which is why `policy`
  leaves that failure out, and with it a script that runs after its handler gave up: the locks are free, an operator terminates the
  sessions, a client activates again, and then the first admission, still
  waiting for Redis, runs its script with the old revision. The purge loop of
  REGISTER_SESSION_SCRIPT deletes every session whose revision *differs* from
  its own (`RedisSessionRepository.ts:17`), the newer one included. The first
  admission fails at its next statement; the newer session is gone. Nothing
  unsafe is accepted, and the other properties hold with that failure.
* **A limit of `RestrictionWarned`.** Without its last clause the property fails: an operator reads a
  list with one entry, another removes that entry, the first one inserts. The new entry
  made the list restrictive and nothing says so (`AdminService.ts:536`), although
  `docs/api-reference.md:268` promises the warning without exception. Two operators
  who both read the empty list are both warned.
* **Limits of `SessionsEnd`.** `docs/cli-reference.md:26` says that the deletion of a customer terminates
  the sessions of its licenses. It misses a license that was created for the customer, or moved to it by `updateLicense`
  (`AdminService.ts:394`), after `deleteCustomer` listed the licenses
  (`AdminService.ts:217`): it is deleted with the customer, and nobody removes its sessions. It also misses a session
  that an activation stores late, after its transaction was lost (`LicenseService.ts:371`), unless the handler
  still removes it. The property names these cases in `leftover`; such sessions stop at their next
  heartbeat or when they expire. Conversely, a license that was moved away after the list
  stays, and yet its sessions are removed (`AdminService.ts:221`): its clients have to
  activate again. No property forbids that.
* **A limit of `BudgetHeld`.** The time stamps of the script come from the processes.
  Two processes whose clocks differ by *d* may admit the limit twice
  within a window that is shorter by *d*. The bound of the property says so.

## 5. Theorems

Proved with TLAPS for every value of the constants that satisfies the assumptions
named in the modules: any number of handlers, operators, clients, processes, rows and
requests, any limits, lifetimes, timeouts, delays and clocks, any bounds. Each proof
module has an inductive invariant `IInv`, which was checked with TLC on the
constants of the run before it was proved; a lemma shows for each action that it keeps
`IInv`, and the theorems follow from `Invariance` (`Spec => []IInv`).

| Module | Theorem | States |
| --- | --- | --- |
| `LicenseRuntimeProofs` | `TypeCorrect` | `TypeOK` |
| `LicenseSafetyProofs` | `CoversSessions`, `HoldSlots`, `NeverAccepted`, `AdmissionCurrent`, `SessionsLimited`, `StaleUncounted`, `RegistrationsLimited`, `CleanupSpares`, `SessionsRefinement`, `EndedStay` | the properties of the run `invalidation`, and `SessionLimit`; `SessionsRefinement` is `Spec => ImplementsSessions`, and `EndedStay`, that no session is revived, follows from it |
| `LicenseSafetyProofs` | `ValidStay` | the property of the run `policy`, if `"database" \notin Faults` |
| `LicenseClientProofs` | `TypeCorrect`, `LoopRuns`, `ReleaseComesLast`, `ReleaseLeavesNone`, `ExpiryIsSafe`, `SurvivesOneFailure` | every safety property of the run `client` |
| `MeterLedgerProofs` | `TypeCorrect`, `LedgerExplains`, `AnswersTrue`, `MeterKept`, `Refinement` | every property of the run `meters`; the last is `Spec => ImplementsAccount` |
| `StripeSyncProofs` | `TypeCorrect`, `NoneLost`, `FollowStripe`, `NeverBack` | every safety property of the Stripe runs |
| `HttpGateProofs` | `TypeCorrect`, `LimitsHold`, `Earned`, `RetrySuffices`, `NotStolen` | every property of the run `http_gate` |
| `DirectoryProofs` | `TypeCorrect`, `SessionsEnded`, `Audited`, `Warned`, `DetailComplete`, `LogIsComplete` | the properties of the run `directory` |

### The license runtime

`RedisSessionsProofs` states what each script does to a store: which tokens are
live afterwards, with which revision, and that the set still covers them.
`LicenseRuntimeProofs` shows per action that types are kept, and sums up what a
step can do to license, sessions and handlers. `LicenseSafetyProofs` has one
lemma per conjunct of the invariant. Tokens, addresses and devices are finite sets.
`IInv` is `TypeOK` with eleven more conjuncts, because none of the
properties is inductive alone:

* `Fresh`: tokens in use were minted before, so a newly drawn token meets no old
  session.
* `NotAhead`: no session and no handler carries a revision beyond the
  license's. An increment therefore leaves all of them behind; this is what
  makes one counter enough to end everything.
* `Terminated`: what was condemned carries an older revision than the license.
  It follows from `NotAhead` at the moment of the increment, and stays because
  revisions only grow. `NeverAccepted` is this with the check of `HeartbeatLoad`.
* `KeyOfRevision`: a handler at the current revision has the current secret,
  because a rotation increments the revision.
* `LockHeld`: what the holder of the locks has checked (license alive, revision,
  limits, a free slot) stays true, because everyone who could change it
  waits for the lock. With `KeyOfRevision` this gives `AdmissionCurrent`, with the free slot
  `RegistrationsLimited`.
* `RoomHeld`: after `RegisterSession` the sessions handed out plus the new one
  fit into the limit; it needs `SetCoversSessions`, or else the script would
  count too few. It gives `SessionsLimited`.
* `OwnSession` and `SessionsHoldSlots`: the session an admission stored has its
  binding, which the commit registers.
* `CleanupBehind`: the minimum a cleanup carries is at most the license's revision.
* `TokensOwn`: the token of an admission on its way belongs to no client and to no other
  admission, not even to one whose transaction was lost.

`SessionsRefinement` maps every step to one of `LicenseSessions`. `StandingStep` sorts the
steps by what they do to the row: an invalidation raises the revision above that of every
session (`NotAhead`), so `Valid` is empty at the commit and not only once Redis is cleaned up;
a deletion empties it too; an update leaves it alone. In the remaining steps no token that
a client has becomes valid (`NothingRevived`): a session that goes on keeps its revision, and
one that is stored has a token that was never seen. An admission commits with a token that is
new (`TokensOwn`), in an open license (`LockHeld`) and within the limit (`RoomHeld`).
`LicenseSessions` says nothing of the time a session has or of why it ended: that
is `ValidSessionsStay`.

`ValidStay` needs one conjunct more, `TransactionsHold`: an admission holds the locks from
taking them until it ends. It is kept only while the database drops no connection, which is the
hypothesis of the theorem and the limit described in section 4. With `LockHeld`
it gives that the purge of REGISTER_SESSION_SCRIPT runs with the license's own revision,
and so deletes nothing that is still valid; every other action either leaves the session
alone, condemns it, or is one of the ends the property allows.

### The SDK client

* `Lifecycle` and `Overlap`: which stages of state, activation, release and requests
  go together. They say that `deactivateOnce` waits for the activation, then for the
  heartbeat, then for usage calls, and that none of these can start again behind its back;
  `ReleaseComesLast` is a consequence.
* `Fatality`: a fatal error has its cleanup queued, or a release has begun; a
  counter at its limit is a fatal error. Without it the loop could stop for a reason
  that `HeartbeatLoopRuns` does not allow.
* `OneSession`: the client is given one session at most and all requests are about it,
  so a release that reached the server leaves none (`ReleaseLeavesNone`).
* `Answers`: a granted lifetime is worth no more than what is left on the
  server and the age of the request that asked for it. This is why
  the client counts from the time it *sent* the request, and gives `ExpiryIsSafe`.
* `Room`: while nothing has failed a heartbeat leaves with a timeout and the safety margin
  to spare; after one failure the retry still leaves before the session expires. It rests on
  lemmas about the two clamps (`clampHeartbeatInterval` and the one of retries) and their
  rounding, for all lifetimes with room for two timed out requests
  (`HasRoomForRetry`). `SurvivesOneFailure` has no other hypothesis.

### Meters

* `LockHeld` and `HandlerHolds`: only the holder of the advisory lock is between reading and
  writing, and the meter that it has read is not archived by then. It may be gone, if the
  license was deleted; then the write finds no row.
* `EventsOnce`: an event has at most one entry in the ledger, which is a debit.
* `RepliesRecorded`: a reply on its way tells of a debit that is in the ledger.
  `AnswersTrue` needs it for the moment the client receives the reply.
* `AbsentIsEmpty`: a meter without a row has no contents that a later creation
  could show.

`Refinement` maps every action to one step of `MeterAccount` or to none. The steps that
begin, fail and reply change neither meters nor debits; a commit is `Open`, `Change`, `Close` or
`DebitOnce` of the account, a deletion of the license `Drop`. At a debit `EventsOnce` is what tells the abstract
account that this event was not debited before. The proof needs at least one meter
(`MeterAssumption`), since a handler always names one.

### Stripe

* `EventsTold`: events are numbered as they come, and Stripe is at least as far as the event.
* `WorkKnown`: a worker reconciles the subscription of the event it claimed, and what Stripe
  told it is at least that event. Leases may run out and a second worker may hold the
  same event; nothing in the invariant excludes that.
* `SnapshotFresh`: as long as a handler holds the lock of the subscription, what Stripe told
  it is no older than any link of that subscription and any event of it that is over. A handler
  that has lost the lock, because its connection broke, may hold an old snapshot,
  and its transaction fails. This is the argument for asking Stripe *under* the lock.
* `EventsShown`, `LinksBehind`, `LinksUnique`: an event that is over, processed or about to
  be marked, shows in every link of its subscription; no link is ahead of Stripe;
  a subscription has one link at most. `NoneLost` is `EventsShown` for processed events.

Assumed: at least one license and one subscription, worker and operator names disjoint.

### Rate limits and client addresses

The invariant ties a window to the admissions it stands for (a history variable):

* `RequestKnown`: a request at a limiter was stamped no longer than `MaxDelay` ago by the clock
  of its process.
* `MembersAdmitted`: each member stands for its own admission, stamped at most `MaxOffset`
  after and `MaxDelay` before it ran. An injection from the members a limiter counts into
  the recent admissions gives `Earned`.
* `StillCounted` and `KeptAlive`: an admission is forgotten only when a window less the slack
  has passed, by a prune for a younger stamp or because Redis drops the key. If the limit plus
  one admissions were closer together, each of the last `limit` of them would still be a member
  (`RoomMeans`), and the window would have been exhausted: `LimitsHold`.
* `PromiseRests`: after a refusal, and as long as nobody else is admitted, the window has room
  or some member leaves it by the promised time. `RetryAfterKnown` proves that
  the rounding up to seconds is enough; `RetrySuffices` follows.

`NotStolen` is a fact about the addresses of a deployment. `ChainStops` shows that the walk
through `x-forwarded-for` never passes the first hop that is no proxy, however
many entries were forged to the left of it and whether or not the chain is too long or
has junk in it; `AgreedKnown` shows for `*` that one genuine header among those
present decides, or else the socket does. Client and proxy addresses are disjoint, and the
proxies set at least one header of those that are believed. Routes have any number of proxies.

### Directory and activity

* `ActorKnown`: what an operation in progress holds, that a warning is due where its entry
  would be the first of the list, and that the license of an activation is there as long as its transaction
  is not lost.
* `IdsIssued`: ids are not given out twice, and rows and owners have ids that were given out. A
  customer that is gone therefore stays gone, which `SessionsEnded` and `Audited` need.
* `SessionsEnd` is inductive with these. An activation that holds the row of its license stores the session
  of a license that is there, since `DeleteLicenseRow`, `DeleteCustomerRow` and `TransferLicenseRow` wait for the lock; once
  its transaction is lost, it removes the session itself. `Holds` says who is to remove a session, and
  `TokensStep`, `LocalStep` and `RowsStep` sort the steps by what they do to sessions, to local states and to rows:
  whoever ends an operation that holds a session either removes it or leaves it in `leftover` (`Abandoned`).
* `EmailsNormal`: stored emails are normal forms, so that uniqueness of the column is
  uniqueness of the address.
* `DetailRows`: the detail rows are the recorded events but for heartbeats and what
  is older than the retention.
* `StatisticsCount`: the row of a scope and a type, or of a minute, a scope and a type, counts
  exactly the occurrences that belong to it, as long as the minute is not older than the retention. The
  occurrences are the copies of the recorded events, told apart by a number; counting
  elements of a finite set instead of adding up a bag makes recording one more element
  (`OccurrenceAdded`, `PartGrows`), and no induction is needed. An event adds one to each row of
  `ScopesOf`, and only there (`CopiesAdd`); pruning takes away only buckets before a
  cutoff that never goes back (`StatisticsAge`). `LogIsComplete` is this and `DetailRows`.
* `AuditKnown`: whatever is gone was reported, is about to be, or its report failed; a license
  may be gone with its customer instead.

Assumed: ids of customers and licenses differ (they are UUIDs), and a normal form is its own
normal form (`trim().toLowerCase()`).

### Only model-checked

* The liveness properties (`RequestsEnd`, `OrphansExpire`, `Converges`, `DeactivationEnds`,
  `RefreshedOrEnded`): fairness and ENABLED are beyond the prover.
* The properties of the violation runs, which do not hold.

## 6. Not modelled, and the plan

Not modelled for good:

* validation of bodies, OpenAPI, the translation of errors and the comparison of
  the admin key: they keep no state, and a request they refuse changes nothing;
* the command line: it calls `AdminService`, so an operator of a module stands for either;
* migrations, the order of start up and of shutdown: they run once and in one
  sequence. What a shutdown interrupts is a crash of the handler or worker in
  the modules, which is the stronger assumption;
* a trusted CIDR of `*`, which `loadServerConfig` accepts (`config.ts:33`). `BudgetNotStolen` does not hold with it, firewall
  or not: every entry of `x-forwarded-for` is trusted, so behind a proxy that appends to it the leftmost
  entry counts, which the client wrote (`clientIp.ts:104`);
* Stripe's own service and signature verification (external);
* sanitising of activity details, paging and ordering of views, metadata.

What is left, if the development goes on: an abstract inbox that `StripeSync` implements (every
change of a subscription is applied once or passed over by a later one), which needs the
properties of its three runs as one specification.
