# Verification of RosPanel

RosPanel is a control panel for VPN servers: one Go process with an SQLite
database, a web panel, a Telegram bot for users and one for operators,
subscription pages, and an agent on every node that runs the Xray core. It sells
its own subscriptions. This directory holds TLA+ models of the parts where
concurrency and failure cost most: billing (orders, balances, promo codes and
terms), the supervision of Xray and how it is kept at the users of the database,
the synchronisation of nodes, the accounting of traffic with its quotas, self-registration,
and what is sent to the outside (mass messages and webhooks); with the TLC
configurations that check them and proofs for TLAPS.

- [Inventory](#inventory)
- [Plan](#plan)
- [What is modelled, and how it corresponds to the code](#what-is-modelled)
- [Runs](#runs)
- [Where code and comments disagree](#where-code-and-comments-disagree)
- [Proofs](#proofs)
- [Only model-checked, and not modelled](#only-model-checked-and-not-modelled)

## Inventory

All paths below are relative to `src/`. The components, the state they keep and
what makes them correct:

| Component | State | Operations | What can go wrong |
|---|---|---|---|
| Order book (`internal/store/wallet.go`, `billing.go`) | `payment_orders`, `users.balance_kop`, `balance_tx`, `promo_codes.uses`, `promo_uses` | create, claim and deliver, cancel, refund, provider refund, buy from balance, redeem | an order delivered twice or un-paid again; a balance below zero or not matching its ledger; a code over its limit |
| Pricing (`internal/core/manager_purchase.go`, the quotes in `manager_wallet.go`) | none; reads user, plan, balance, code | quote a plan, a change, devices, traffic; split with the balance | price read earlier than it is used; rounding between roubles and kopecks |
| Checkout (`manager_payments.go`, order half of `manager_billing.go`, `manager_wallet_extra.go`) | goroutines with rows they read earlier | open (provider, manual, external), callback, 25 s poll, confirm, cancel, refund, take back | callbacks repeated, lost or reordered; work done on stale rows; a failing invoice; restarts |
| Subscriptions (`manager_wallet.go`, `manager_billing.go`) | `users.plan_id`, `expire_at`, add-ons, banked days, `applyPlanMu` | buy from balance, promo codes, cancel, assign, `EnforceBilling` (renew, end) | double taps; lists that are stale when worked through; paid time lost |
| Payment clients (`internal/payments`) | none | create, status, parse callback | external reports; only their outcomes matter here |
| Plugin host (`internal/plugin`) | plugin processes, breakers, events | start, pause, hooks | a hook that calls back into the panel; a paused payment plugin |
| Node sync (`internal/nodeagent`, `server/node_api.go`, `core/manager_nodes_*`) | panel: node rows, commands, shared inputs, wake channels, held polls; agent: report in flight, traffic waiting, `state.json`, `carry.json` | sync, hold, wake, push, book, acknowledge, revoke, update | lost wake-ups, updates run twice, traffic booked twice or acknowledged unbooked |
| Traffic accounting (`core/manager_stats.go`, `manager_users.go`, `store/stats.go`) | Xray's counters; `users.last_up`, `used_up`, `data_limit`, `notified_status`; `traffic_daily`; `statsMu`, `enforceMu`, `enforcePending` | flush (tick, before a restart, on a stop), enforcement pass, reset by period and by hand, quota edit | bytes booked twice or lost over a restart, a failed write or a reset; an alert sent twice; a user who stays cut or is never cut |
| Xray supervisor (`internal/xray`, `core/manager_xray.go`) | process, config file, rollback copy, last applied config, monitors | apply, change live, restart, suspend, resume, stop, supervise a crash, roll back | two processes, a start after a stop, a process that is not what the file says, a crash nobody recovers |
| Reconcile loop (`core/manager.go`) | `m.applied`, `m.rekeyed`, the kick and structural marks | user sync, full reconcile | an edit lost between mark, signal and read; a process that drifts from the database |
| Webhook outbox (`core/manager_webhooks.go`, `store/webhook_outbox.go`) | outbox rows, attempts | emit, deliver, retry | lost or repeated events after a restart |
| Broadcasts (`core/manager_broadcast.go`, `telegram/broadcast.go`) | status, recipients, quarantine | compose, schedule, start, deliver, pause, cancel, retry | a message sent twice or never, a cancelled run that goes on |
| Accounts (`core/manager_signup.go`, `manager_signup_tg.go`, `manager_miniapp.go`, `manager_users.go`, `manager_groups.go`, `telegram/user_bot.go`, `store/registration_requests.go`) | `users` with the Telegram linked now and before, `registration_requests`, `tg_trial_chats`; `miniRegMu`, `signupMu` | sign up by the bot, the Mini App, the API; restore, approve, reject, link, unlink, delete | two accounts or trials for one Telegram, a link taken from its account, a request decided twice or lost |
| Win-back and churn, bans and abuse, devices, incidents, backup and update | see `PROJECT.json` | | timers, windows, limits |
| Protocol servers, host networking, TLS, HTTP and Telegram front ends, web panel | sockets, files, screens | | bytes and rendering; not a subject for these models |

How the billing parts interact: front ends call the manager; the manager reads
through a reader connection and writes through transactions on SQLite's single
writer. Plan writes take one process-wide lock, `applyPlanMu`, from the read of the
user to the commit. Everything else is unsynchronised: pricing before an order,
the network call that makes an invoice, the lists of the poll and of the billing
pass, superseding older checkouts, and the parts of a take-back after a refund.
Payment systems call in by HTTP, any number of times and in any order;
`PollPendingPayments` asks about pending orders every 25 s in case they do not.
`EnforceBilling` is called by the stats poller.

How the others interact: an edit of users or settings is stored, marks what it
changed (`markRekeyed`, `structuralPending`) and kicks the reconcile loop; the loop
brings the panel's own Xray to it through the supervisor and wakes the held polls
of the nodes, which read a snapshot all nodes share. A node's agent keeps one
request with the panel, hands its config to a supervisor of its own, and stops or
resumes it on the panel's word. Crashes, certificate reloads, the watchdog and
operators restart Xray from outside the loops. The stats loop reads Xray's counters
and node reports bring theirs; both charge the same row, and a pass after either
kicks the reconcile loop when someone is over the quota. A broadcast is announced through
the webhook outbox, whose dispatcher and workers survive restarts by leases.

## Plan

The order is by what an error costs.

1. *(done)* The order book with its transactions, pricing, checkout and
   subscriptions, composed in `Billing`; the abstract `Settlement`; the ledger.
2. *(done)* Proofs: type correctness, single claim, refinement of `Settlement`.
3. *(done)* The supervisor under a node agent, and the panel's reconcile loop over
   the same supervisor; node synchronisation on both sides; the webhook outbox, and
   broadcasts over it. Proofs: what the supervisor and node synchronisation promise
   of safety.
4. *(done)* Traffic accounting with resets and quotas, and proofs of what it
   promises of safety.
5. *(done)* Self-registration and its requests, with proofs; proofs for broadcasts
   and the outbox.
6. *(done)* Proofs of what is promised of codes, renewals and paid time; that the
   balances add up; what the reconcile loop promises (`ServesDatabase`,
   `DiskFollows`).
7. *(next)* Devices, incidents; `Traffic` over the reports of `NodeSync`.
8. *(next)* Finer billing: batch limit of the poll, purging cancelled orders, the page's
   check before a cancellation, trial plans, win-back.

| Module | Extends | Role |
|---|---|---|
| `BillingStore` | | tables, and each transaction as an operator over them |
| `Pricing` | `BillingStore` | quotes and order drafts |
| `Checkout` | `Pricing` | orders paid from outside: actions of shoppers, handlers, poll, operator, provider |
| `Subscription` | `Pricing` | balance purchases, codes, the billing pass |
| `Settlement` | | abstract: what is promised about one order |
| `Billing` | `Checkout`, `Subscription` | composition, fairness, properties, refinement mapping |
| `Ledger` | `Billing` | the sums of the books (folds over orders) |
| `MCBilling` | `Ledger` | values for TLC |
| `BillingProofs` | `Billing`, `Ledger` | type correctness, with the lemmas about each transaction; one claim per order, the refinement of `Settlement`; the books |
| `PurchaseProofs` | `BillingProofs` | theorems about codes, renewals, paid time and double taps |
| `Supervisor` | | the Xray supervisor: each operation under `runMu` as a transformer of one record, crashes as actions |
| `Supervised` | `Supervisor` | the supervisor in the hands of a node agent |
| `UserSync` | `Supervisor` | the panel's reconcile loop, cut at every read, API call and write |
| `NodeSync` | | the long poll between the panel and a node, both sides |
| `Outbox` | | webhook deliveries: emit, lease, send, retry, give up |
| `Broadcasts` | `Outbox` | mass messages, and the event each one ends with |
| `Traffic` | | counters, baselines, flushes, enforcement passes and resets |
| `Registration` | | signing up by every way, approvals, and what else moves a Telegram between accounts |
| `MCSupervised`, `MCUserSync`, `MCRegistration` | | values for TLC |
| `SupervisedProofs` | `Supervised` | theorems about the supervisor |
| `UserSyncProofs` | `UserSync` | theorems about what Xray serves and what its file says |
| `NodeSyncProofs` | `NodeSync` | theorems about the long poll |
| `TrafficProofs` | `Traffic` | theorems about what is booked and who is alerted |
| `BroadcastsProofs` | `Broadcasts` | theorems about messages, runs and the deliveries of events |
| `RegistrationProofs` | `Registration` | theorems about trials, links and requests |

## What is modelled

**Steps.** The writer connection is single, so a transaction is one step. A
section under `applyPlanMu` that reads, decides and commits is one step as well:
all plan writes take the lock, and what it reads outside of the user's plan
(balance, code uses) is checked again by the transaction. Whatever the code does
without the lock is split at each point where another goroutine can get in. A
thread keeps what it read: `shop[s].draft` is the priced order of a request,
`hand[h].seen` the status in the row a handler holds, `batch` the rows of the poll,
`job` the lists and the captured time of the billing pass, `tap[t].stamp` the term
a screen showed.

**BillingStore.** `users`, `orders`, `promoUses` and `uses` are the tables, with
the columns the transactions read. `ConfirmOrder` is the whole of
`store.ConfirmOrder`: claim (`markPaidIfOpenOn`, from pending *and* cancelled),
credit, the check that what was priced can still be delivered, debit, delivery,
code use, and the referral reward. `BuyFromBalance`, `RefundToBalance` and
`ProviderRefund` are the other money transactions. `SetCancelled` is the one
unconditional status write the code has left. Three variables are history, read by
properties only: `claims` counts claims, `paidUntil` adds up the time each user
paid for, `gifts` the ledger lines no order stands behind.

**Pricing.** `Quotes` is `quotePurchase`. Prices are whole roubles and balances
kopecks, `Kop` to the rouble, with the roundings of `ceilRub`, `termValueKop` and
`splitBalance`. A quote is a set, since `paidPeriodRub` takes the latest order and
two may share a second.

**Checkout.** A request runs `StartPurchase` (read and price), `ReuseOrder` (the pending
order it may return instead), `InsertOrder`, then for a provider `CreateInvoice` or
`CreateFails` and `LinkOrder`, then `SupersedeOrders`. Manual orders skip the
invoice, external ones skip the reuse. Handlers are any number of callback handlers, the
poll and the operator: they read the order (`ReceiveCallback`, `PollList` and
`PollAsk`, `OperatorConfirms`) and act on it in a later step (`Confirm`,
`CancelPending`, `RefundByProvider`). After a refund, `TakeBackTerm`,
`TakeBackDays`, `TakeBackPlan`, `TakeAddonBack` and `RevertChange` follow in the
steps the code takes. `CheckoutCrash` loses all of that.

The provider (`charge`, `ProviderStep`, `Callbacks`) is external: an invoice is paid
with the right sum or another, voided, or refunded. `Callbacks` gives every report
an invoice has ever given rise to, so callbacks are repeated and reordered by
construction, and lost when no handler takes them. An order is heard of from outside
only once it is linked, because that is how `GetPaymentOrderByProvider` finds it.

**Subscription.** A tap is a screen (`ShowOffer`), perhaps delivered twice
(`TapTwice`), then `TapBuys` or `TapRefused` under the lock. Discount codes are
checked and attached in two steps. The billing pass captures the time and the list
(`BeginPass`), renews user after user (`RenewFromBalance`, `RenewalSkipped`), lists
the expired and ends their terms (`DowngradeExpired`), each re-checked under the
lock with the captured time.

**Supervisor.** `xray` is the struct: the file, the rollback copy, `appliedCfg`, the
child processes, `closed`, `suspended`, the crash count. What the code does while it
holds `runMu` is one operator from record to record (`StartProc`, `StopProc`,
`Restart`, `Suspend`, `Resume`, `Stop`, `ApplyRaw`, `Apply`, `WriteConfig`); what it
does without it is an action: the exit of the process with its monitor's notice of
it (`Crash`), the decision whether to roll back (`Decide`, `AskXray`), the roll-back
and each new start under the lock again (`RollBack`, `StartAgain`), the promotion of
a config that stayed up, in two halves (`Healthy`, `Promote`). A child remembers
what it read at its start, and who is on its two kinds of lanes now, since the API
changes one user by user and the other (Hysteria2) as a whole.

**Supervised.** `TryLive`, `RawApply` and `RawRestore` are the three critical sections
of `ApplyRawLive`; a live change that fails leaves any part of it done. `Revoke` and
`TakeBack` are the two branches of `syncLoop`, with the agent's own flag; `Reload` the
certificate and geo loops; `ShutDown` the signal handler. `WatchdogActs` restarts at
any time, since what the watchdog saw can be old by then. `switched` is history: the
panel's last word, and whether a resume has failed since.

**UserSync.** An edit stores, marks and signals in three steps (`SwitchUser`,
`ResetKey`, `ChangeShape`; `MarkRekeyed`, `TriggerReconcile`; `SignalReload`). The
loop drains the channel, chooses, and then reads, calls the API and writes in a step
each: `CheckIDs` to `SyncHysteria` are `syncUsers`, `BeginReconcile` to
`ApplyGenerated` are `reconcileLocked`. Restarts and crashes of the process come
between any two. `suspect` is history: what has come between the process and the
database that the code does not repair by itself, since the last apply that restarted
the process or found everything right (`Suspected`): an apply that failed, one that
left the process or the file alone although they differ from what it generated, a
roll-back, a start in the middle of a sync, a reconcile that could not read. Every read
of the database may fail ("read" in `MayFail`), and every write of the file or of
`last_config_error` ("write"). `syncUsers` answers both with the full reconcile
(`SyncUnread`, `WriteFile`); `reconcileLocked` returns (`GiveUp`), the kick and the
structural mark gone. The reads of `genOptsFor` that its callers do not hear of leave
the custom inbounds out of the config (`OptionsRead`).

**NodeSync.** `handler[s]` is a request at the panel, from the look-up of the node
(`LookupNodeByToken`) over the booking of its report (`IngestNodeSync`, one
transaction with the claim of its id) and the decision to answer or hold
(`NodeSyncPush`) to the answer (`Recheck`, `WriteNodeSync`). A request the agent gave
up goes on being handled. `inputs` is the snapshot all nodes share, with the cache
that a wake invalidates; `sync` the reconcile loop's part in it (`ReadWorkingSet`,
`FleetChanged`, `NotifyNodes`). At the agent `Sample`, `SyncOnce`, `Revoke` and
`Obey`; `AgentStops` keeps its traffic in `carry.json`, `AgentCrashes` does not. A
config is a number that edits raise. Pieces of traffic come up in their order, which
is no loss: they are told apart only to count them. `dropped`, `missed` and `updates`
are history.

**Outbox, Broadcasts.** A delivery is due, leased, to be tried later or gone; a job is
its copy in this process. `Post` may reach the endpoint and be reported as failed. A
broadcast's `launch` is the goroutine that composes or starts it; `worker` the delivery
loop, with a batch in flight; `control` an operator between the read and the write of
`SetBroadcastStatus`. `Crash` ends them all and keeps the tables. `doubtful` and
`unsure` collect what was sent and not recorded, `hasty` the runs that were resumed
or started again before their recipients were written, and those whose closing-out
failed (`finish` logs the error of `SkipRemainingTargets` and marks the run done):
history, for the exemptions the properties name. A launch can fail at each of its
calls (`LaunchFails`); one failure is left out, the last status write of a scheduled
run that an operator paused in between.

**Registration.** `worker` holds the requests handled at once: a sign-up from its
first look at the table, or an approval. The user bot handles one update at a time;
the Mini App and the API take `miniRegMu` for a Telegram, website sign-ups and their
approvals `signupMu`, the bot and the approval of a Telegram no lock at all
(`LockOf`, `Enters`). `LookUp` is the look under the lock, which finds an account, one
that was unlinked (`RestoreDetachedUser`), or goes to the gate: `Refuse`, or `Admit` to
a request (`RequestRegistration`) or an account. The account is made in the steps of
the code: `CreateUser`, `ApplyUserPlan`, `LinkChat` or `SetUserExternalID`,
`MarkChatTrial`, each of which may fail. Then the bot and the Mini App leave an account
without a link behind and the others delete it (`DropUser`), and an approval puts its
request back (`PutBack`). `Claim` deletes the row of a request, which makes one
approval its owner. Operators and users delete, unlink, move and tie accounts in
between, and a restart cuts everything off. `decisions`, `waiting` and `mixed` are
history: how often a request was decided, who was told to wait, and the Telegrams two
registrations met over that no lock keeps apart.

**Traffic.** `count` is what the running Xray reports, zero again after every restart;
`row` the columns of `users` a flush reads and writes; `day` the local server's
`traffic_daily`. `flush` is the flush that holds `statsMu`: it has read the counters
(`ReadStats`), reads the baselines (`TrafficBaselines`), books the batch
(`ApplyTrafficDeltas`), resets the quotas whose period is over (`ApplyResets`), waits
for its pass, and lets the restart or the stop it was for go on (`Release`). Between
any two of these nodes report, the operator edits, Xray restarts. `pass` has the two
kinds of enforcement passes, of which `enforceMu` lets one in at a time: it reads the
users (`EnforcementUsers`), records and alerts one after another
(`NotifyStatusTransition`) and compares the working set with the one in the config
(`EnforceAfterTraffic`). The operator's reset reads the live counters through a
command (`LiveCounter`) and writes them as the new baseline in a later step
(`ResetTraffic`), without `statsMu`. `carried`, `noded` and `from` are history: what
really went through, and where the quota's count last began. `Left(u)` is what is
still to be booked: what a flush has in hand, and what the counter has grown by since.

**Abstractions.** Time runs in days, the hour of `renewAhead`, of the top-up window
and the day of `renewGrace`, `promoHoldWindow` and `paymentOrderMaxAge` being one
tick each; the 5 minutes in which a hosted page is offered again are a choice
(`ReuseOrder` may insert for a provider in any case). Data and device limits are
reduced to the devices and packs that are bought. A plan write keeps a term only from
the same plan. Price lists, limits and settings do not change while the system runs;
users are not deleted; a code has no owner, expiry or on/off switch; discounts for
several periods and prices set by plugins are left out: they change an amount, not
the order of steps. Of a config the supervisor tells apart the users with their keys
and, as one *shape*, everything else; shapes that load, that do not, and that differ
in custom inbounds alone are what the code asks about. Times of the supervisor
(backoff, a minute since the last apply, a process that ran long enough) are events
that may come at any point. Bytes come one by one and in one direction, a node's
coefficient is one, and the quota watch, which makes a flush due early, is a tick like
any other; who is to be served depends on the quota alone. Of a delivery or message only its fate counts.

**Bounds.** Order ids are handed out from the finite set `Orders`, the clock stops
at `MaxNow`, corrections add up to at most `MaxGift`, the operator extends no term
past `MaxNow`, and a renewal fails when no order id is left. `MaxPushes`,
`MaxEdits`, `MaxEvents` (edits, resets and faults together), `MaxBytes`, `MaxControls`,
`MaxFaults`, `MaxUsers` and `MaxRequests` cap what is done to the other components; `MaxRestarts` is the value at which the
supervisor's crash count stops, since past the first crash it only sets a delay.
Nothing else is capped.

## Runs

The billing runs (`Claims`, `Codes`, `Books`, `Taps`, `Terms`) instantiate `MCBilling`. There two kopecks make a rouble and a period is two days, so that
half roubles and half terms occur. Every run has `CHECK_DEADLOCK FALSE`: the
instances run out of orders, days and edits, and a panel nobody uses rightly does nothing.
Order ids are symmetric where a run says so and checks no liveness.

| Run | Instance | Properties | What it shows |
|---|---|---|---|
| `Claims` | 1 user, 1 order, 1 plan, 1 shopper, 1 callback handler, days 0..2 | `PaidOnce`, `Settles`, `CapturedIsClaimed` | One order and everyone who may settle it: callbacks repeated until they are answered, the poll and the operator, with failing invoices and restarts. |
| `Codes` | 2 users, 2 orders, 1 plan, 2 shoppers, 2 codes, days 0..1, symmetric orders | `OneDiscountPerUser`, `OneOpenCheckout`, `OverLimitByMoneyOnly` | Two users, one invited by the other, two requests and a discount code with a single use: checkouts are superseded and paid all the same, or are open when the use is taken; payments are refunded meanwhile. |
| `Books` | 2 users, 2 orders, 2 plans, 1 shopper, 1 callback handler, days 0..0, symmetric orders | `TypeOK`, `BooksBalance` | Every kind of purchase, paid partly from the balance, with a share for the inviter, refunded to the balance, by the provider, or by both. |
| `Taps` | 1 user, 3 orders, 2 plans, 2 taps, 1 code, days 0..2 | `TapBuysOnce` | A tap delivered twice, for every kind of purchase from the balance, which the operator corrects meanwhile, next to a code that gives days. |
| `Terms` | 1 user, 2 orders, 2 plans, 1 shopper, 1 tap, days 0..3 | `PaidTimeKept`, `RenewsOnTime`, `ExpiredIsEnded` | The pass that renews and ends terms, working through its lists while the user buys, cancels and switches renewal off, the operator assigns plans, and money comes in late. |
| `Supervised` | 2 users, 3 configs (one refused), 2 pushes, 2 monitors, 2 processes | `OneChild`, `StaysDown`, `RunsWhatFileSays`, `CrashRecovers` | Configs pushed one after another, live changes that fail half way, crashes, roll-backs, restarts from the side, revocation and shutdown of a node's Xray. |
| `SwitchedOff` | 1 user, 1 config, 1 push | `RevokedServesNobody` *(violated)* | A node is taken back, Xray fails to start, and the node is switched off again. |
| `Serving` | 1 user, 2 keys, 2 shapes, 2 edits, 1 monitor | `ServesDatabase`, `DiskFollows` | Edits race the sync that puts them on the panel's Xray: switched users, new keys, structural changes, with failing reads, writes and calls, crashes and restarts in between. |
| `Nodes` | 2 pieces of traffic, 2 requests at a time, 2 edits or faults | `CountedOnce`, `UpdatesOnce`, `HeldIsCurrent`, `BelievedAckMeansCounted`, `Follows`, `TrafficArrives` | A node and the panel: reports, pushes, switching off and on, an update, with requests given up, answers lost, stops, crashes and a panel restart. |
| `Mail` | 1 broadcast, 1 recipient, 1 endpoint, 1 operator, 3 controls, 1 fault | `MessagedOnce`, `DoneIsDrained`, `RepeatedOnlyInDoubt`, `CancelHolds`, `NothingLost`, `RunsEnd`, `RowsGo` | A broadcast and the outside event it ends with: composed or scheduled, stopped, resumed and retried, with lost outcomes, failed writes and restarts. |
| `Traffic` | 1 user, 2 quotas, 3 bytes, 2 events | `TypeOK`, `Accounted`, `AlertedOnce`, `QuotaFollows` | Bytes through Xray and through nodes while flushes, enforcement passes, resets of both kinds and edits meet failing calls, restarts, crashes and a stop. |
| `Signups` | 1 chat, 1 website client, 2 requests at a time, 2 accounts, 2 requests filed, 2 events | `OneTrialPerChat`, `NeverDisplaces`, `DecidedOnce`, `NobodyForgotten` | A Telegram and a website client sign up by every way at once, with requests approved, rejected and put back, accounts unlinked, moved, tied and deleted, failing writes and restarts. |

The bounds are enough for the case each run is about. A claim race needs one order and
the three who can claim it; callbacks are repeated by construction. A superseded
checkout that is paid needs two requests and two orders; a limit needs one use, a second
user and an order open when the use goes. A refund on top of a refund needs one order,
the second is there for a balance that is spent in between. A renewal that
overlaps a payment needs the end of a term (the users of `Terms` start one day before it)
and one more period (`MaxNow` 3 with periods of 2). In `Taps` two taps are two deliveries
of one screen, or two screens. `Supervised` has two monitors because a crash can come
while the last one is still being supervised, two process ids because a second child
must be possible to be excluded, and three configs: one that differs in users, one in
shape, one that is refused. In `Serving` one user with two keys can be off, on, and on
with the old key; two edits are one that a sync is busy with and one that overtakes
it; `MaxRestarts` 0 makes every crash count as the first, so that a roll-back can
follow each. It starts in the plain shape (`StartShapes`), and from there edits lead to
every other. Its `VIEW` takes states for one that differ only in which of the
exceptions in `suspect`, other than *midsync*, has come: neither property tells them
apart, no guard reads `suspect`, and an apply that clears it clears all of it. `Nodes` has two requests, since a third one waits for the first to be
noticed dead, and two pieces of traffic with one to a report, so that a backlog
occurs; two edits or faults are what a race needs. `Mail` has one run and one
recipient: runs only meet in the order they are picked, recipients not at all.
`Traffic` has one user, as accounts share nothing but the batch they are written in;
a quota of two bytes is used up partly by Xray and partly by a node, the third byte
goes over it, and a counter that restarts can catch up with its baseline. Two events
are a reset and what it meets. The safety properties were also checked with five bytes
and three events. `Signups` has two requests at a time, which is what a race takes, and
two accounts for one Telegram, which is what every property excludes; the website
client is there for its lock and its requests, the second request id for one that is
asked for again, and two events are a deletion and an unlinking, or a failure and a
restart.

What each billing run leaves out is what would break its property for a known
reason, given with the constants that bring it back. `PaidTimeKept` is checked without
refunds, by the operator or the provider. `takeBackTerm` reads and writes in two critical
sections: a confirmation by a callback, the poll or the operator, or a purchase from the
balance, that lands between the two is on a term the second one ends, although "whatever
else paid for the term" is to stay paid for (`manager_wallet_extra.go`); and a chargeback
takes used-up referral days off a term bought since (`ProviderRefundOrder`). No property
is claimed of a term while it is being taken back.
`TapBuysOnce` is checked without cancellations (`TapActs`): the expiry a tap is held
to returns to its old value after one, and the twin of the tap buys again. `PaidOnce`
and `Settles` hold with `ConfirmEarly = FALSE`, that is, as long as the operator does
not confirm an order while its invoice is being made: `startProviderOrder` writes an
order cancelled without a condition when the invoice fails, and a paid order would be
open again. `Books` does without the poll (a provider without a status endpoint): who
confirms an order makes no difference to the sums, and is the subject of `Claims`.

In the other runs everything in `MayFail` may fail, and a property names what it
leaves out:

- `StaysDown`: a node that was being taken back when the start failed
  (`switched.failed`), see below.
- `ServesDatabase`, `DiskFollows`: the five things in `suspect`.
  *Reverted*: after a roll-back the panel's books stay at the newer config until the
  next full reconcile. *Midsync*: a process started in the middle of a sync has read
  the file of before (the file itself is not excepted).
  *Skipped*: `Apply` leaves the process alone if the generated config is the one it
  applied last, or swaps custom inbounds alone, though a live sync that failed part way
  has taken users off by now; and it leaves the file alone, though a live sync between
  the storing and the flagging of a structural change may have written that change,
  which was then taken back (no failure needed: `Edits` of switches and shapes,
  `MaxEdits` 4).
  *Failed*: an apply that fails leaves `m.applied` as it was (`reconcileLocked` returns
  before `setApplied`) and an error in the settings, which the next live sync clears
  (`MarkConfigApplied`). That sync measures from the users of before: with two accounts,
  failing API calls, starts and restarts, and `MaxEdits` 3, it ends without an error on
  the wrong users. And with a config that Xray refuses it writes what was refused to
  the file (a refused custom shape, no failure, `MaxEdits` 2). An error that could not
  be stored (`SetConfigError` is not checked) leaves the same without a trace.
  *Unread*: `reconcileLocked` returns on an error of `GetSettings` or
  `WorkingCredentials` before it has anything to record, after the loop has taken the
  kick and the structural mark; the loop logs it and waits for the next edit, so Xray and
  the file stay as they are. `Reconcile` is documented otherwise ("Failures are recorded in
  settings.last_config_error and returned", `manager.go`); an error of `genOptsFor` is
  recorded, as the comment says. Inbounds that cannot be read are left out of what is
  generated, and it is applied.
  The instance of `Serving` reaches all five tags; the cases that take more accounts or
  edits than it has came out of the proof, and were replayed with TLC on the instances given here.
- `HeldIsCurrent`: the two gaps `missed` marks, a switch of the node between the
  look-up of its row and the taking of its wake channel, and a change another node's
  poll read into the shared snapshot before the loop compared. The end of the hold,
  27 s at most, closes both; `Follows` has no exemption.
- `BelievedAckMeansCounted`, `TrafficArrives`: a node switched off is not believed, and
  its reports are acknowledged unbooked. When it is switched on again during the hold
  the answer does not say so, and the agent lets go of the report (`believed`,
  `dropped`). A killed agent loses what it had in memory.
- `MessagedOnce`, `RepeatedOnlyInDoubt`: a message or post that arrived and whose
  outcome was lost (`unsure`, `doubtful`).
- `CancelHolds`: the control of an operator who read the status before the
  cancellation; `DoneIsDrained`: a run an operator resumed while its recipients were
  being written, a scheduled one paused while its launch was failing, which starts
  again and adds recipients to what is done, and one whose last recipients could not be
  closed out (`hasty`).
- `OneTrialPerChat`, `NeverDisplaces`: Telegrams in `mixed`. The bot takes no lock, so
  a sign-up there and one in the Mini App can both find no account, as can an
  approval; a registration cut off after its account was made, or whose trial could
  not be recorded, leaves a trial nobody remembers; and a link code may move the
  Telegram in the middle. `NobodyForgotten`: a restart between the claim of a request
  and its account loses the request.
- `Accounted`: users whose operator's reset met a flush, or was done with the counters
  unread (`raced`). `ResetTraffic` reads the counters so that "the next stats poll
  doesn't re-add the user's whole lifetime total", but takes no `statsMu`: a flush that
  has the older counters in hand books them on the new count, a baseline higher than
  the counter it reads is taken for a restart and the whole counter is added, and a
  failed read of the counters makes the baseline zero with the same effect. For the
  equality also the users in `lost`: bytes that ended with the process, that a reset
  dropped, or that a counter hid by catching up with an old baseline. They are never
  charged, so the two inequalities hold for them too.
- `QuotaFollows` has no exemption: raced users are served as what was booked says.

**Fairness.** Runs that check no liveness use `Spec`, without any. `SpecHooks` (`Claims`): payment systems
repeat a callback until it is answered with 200, so receiving it and confirming the order
is strongly fair, and a callback handler that was started runs on (weakly fair), where
restarts may interrupt either; the poll and the operator are under no fairness.
`SpecEnforce` (`Terms`): the pass is
called by the stats poller over and over, and each pass is a finite loop, so its steps are
weakly fair. No fairness is assumed of users, operators or payment.
`FairSpec` of `Supervised`: a monitor's goroutine goes on (weak), and a start that is
tried again and again works in the end (strong). `FairSpec` of `Nodes`: the loops of
panel and agent go on, a hold ends by its timer, and storing, starting and applying
work at last when tried again and again; nothing is assumed of traffic, edits and
faults. `FairSpec` of `Mail`: the workers go on; leases, backoffs and quarantines end
by the clock; writes work but for the faults of the instance, of which there are
finitely many. `FairSpec` of `Traffic`: the stats loop ticks on, a flush, a pass and the
reconcile loop go on once they have begun, and calls that fail do so finitely often;
nothing is assumed of bytes, nodes, operators and restarts. `Serving` checks safety alone.

## Where code and comments disagree

One run checks a statement of a comment against what the code does.

- `SwitchedOff`: the agent (`internal/nodeagent/agent.go`) suspends Xray only when its
  own flag is not set yet. A `Resume` that fails to start Xray has lifted the
  suspension and leaves the flag set; switched off again before the next attempt, the
  node passes the order over, and a reload or the watchdog starts Xray on a disabled
  node. The comment of `Resume` (`internal/xray/supervisor.go`) names those very paths
  as what the suspension rules out.

## Proofs

All theorems hold for every value of the constants that satisfies the named
assumptions (`StoreAssumption`, `PricingAssumption`, `CheckoutAssumption`,
`SubscriptionAssumption`, `BillingAssumption` for billing: identifiers are distinct from their
"none" values, prices and periods are naturals, nobody invited themselves, the
starting users are rows of the table; those of the other modules are named below).
TLC evaluates them in every run.

`TypeCorrect` (`BillingProofs`): `Spec => []TypeOK`. The content of `TypeOK` is
that balances, terms, add-ons and code uses are naturals in all behaviours: every
debit is covered at the moment it is made, and nothing is taken back below zero. It
is not inductive by itself: a handler that shortens a term divides and adds with the
row it holds, so that row must exist and name a plan. `WellFormed` says so: a row that
exists fits its kind, a thread on its way holds on to a row there is, and a
linked row exists. `Inv == TypeOK /\ WellFormed` is inductive (`AlwaysInv`). The
proof has one lemma per group of actions (`ShoppingInv`, `HandlingInv`,
`TappingInv`, ..., `CrashInv`), on lemmas at the beginning of the module about each transaction:
what it returns has the type of the table. `Kept` collects what no transaction does
to a row, so that threads that did not move stay fit.

`ClaimedOnce` (`BillingProofs`): `Spec => []PaidOnce` if `~ConfirmEarly`. The
claim alone is not enough, as an order can go from paid back to cancelled by the
unconditional write of a failing invoice. `ClaimsApart` says why that does not happen: an
order whose invoice is being made is unclaimed and not linked, no two requests make the same
order, callback handlers and the poll hold linked orders only, and the operator
is not about to confirm it. The last conjunct is what the assumption buys.

`SettlesOnce` (`BillingProofs`): `Spec => Settles`, the refinement of
`Settlement` under the mapping `SettlementState` (pending and cancelled are both *open*, since a
cancelled order may still be paid). Each transaction is mapped to a step of `Settlement` or a
stutter (`ConfirmOrderSettles`, `ProviderRefundSettles`, ...), and `StepApart` puts
them together.

`BooksAlwaysBalance` (`BillingProofs`): `Spec => []BooksBalance` if `~ConfirmEarly` and
there are finitely many orders (`LedgerAssumption`: a table has finitely many rows). A
balance is a sum over all orders by the library's fold, a recursive function whose
induction theorem takes an operator as a parameter. What changing one entry, or
two, does to such a sum is therefore proved from the first principles the
prover does accept: subsets of a finite set are well-founded under strict inclusion, and the
induction goes by the set of those subsets the claim holds for (`BillingProofs`, "Sums over finite
sets"). The invariant `BooksInv` adds `BooksKept` to the property: an order that was
not paid has given and refunded nothing, a refund names its source, and drafts are
blank in these columns; without it a claim could start from a row with refunds. Each
transaction is then shown to write to `users` what it changes in the entry of its order,
for the payer and for who invited him, who may be paid by the same transaction. The
hypothesis is the one of `ClaimedOnce`: an order written cancelled after its claim would
take its money out of the books.

`PurchaseProofs` proves what is promised to who pays.

- *Codes.* `DiscountedOnce`, `OpenOnce` and `LimitPassedByMoney` rest on the invariant
  `Discounts` (`AlwaysDiscounts`): a discounted plan that is paid has its row in
  `promo_uses`, an order on its way is the one its request drafted, and what waits for
  money is not paid from the balance. Every step of billing is first classified by what
  it does to codes and orders (`StepKind`, lemma `NextKind`): it opens no order and pays
  none, confirms one, buys one from the balance, or opens one; the properties then go by
  kind. Two hypotheses are facts about the code. `WalletEnabled` in
  `DiscountedOnce`: `confirmOrderPaid` looks at the code only where there is a balance to
  send a second payment to. No `"crash"` in `OpenOnce`: a restart between the insert of
  an order and `supersedePromoOrders` leaves two open. A code is worth at least 1
  (`PricingAssumption`), because `SavePromo` refuses less.
- *Renewals.* `RenewedOnTime` holds for any order of the pass and what users do in
  between, because `renewFromBalance` looks again; it needs that the time the pass
  captured is not ahead of the clock (`PassTime`).
- *Paid time.* `PaidTimeStays` is `[]PaidTimeKept` where nobody refunds
  (`NobodyRefunds`). `TermKept` says that who has paid time left is on a plan that costs
  money until then at least; `ChangesFit` that a change, drafted or stored, is of a
  running term to such a plan, which the confirmation relies on, days later maybe;
  `Unrefunded` that no thread is taking anything back. With refunds and
  other payments in between it can fail (see Runs), since `takeBackTerm` reads and writes in
  two critical sections; nothing is claimed there.
- *Double taps.* `TwinsAreRefused`: a tap that has bought leaves its second delivery
  nothing to buy then and there, unless the days left were set by the operator by hand on
  a user without a plan, and end on the very day bought (`DaysAreOfPlan`). A term bought
  ends on another day (`OtherEnd`), an
  add-on is added to what there was (`AddonAdds`, which takes that a traffic pack holds
  something: `PricingAssumption`, from the check of `p.GB` in `manager_wallet.go`), and a
  term without an end or the plan one is on is not sold again (`NotSoldAgain`); so the
  stamp of the screen has changed or the quote is empty. `TapBuysOnce` itself, which looks
  across any number of later steps, is not provable as it stands: a cancellation may
  bring the stamp back (see Runs).

`SupervisedProofs` proves the four safety properties of `Supervised` under
`SupervisorAssumption` and `SupervisedAssumption` (there is a process id, "none" is
no config and no process, what is pushed are configs). Its invariant `IInv`
(`AlwaysSound`) adds to `TypeOK`: `Sound`, one child that is `cur`, none while
suspended or closed; `AgentFits`, the config of an apply in progress is there;
`ChildFits`, outside of a live change the process is what the file says; and
`OrderHeard`, switched off without a failed resume means suspended. `OneChild` is no
consequence of the types: every one of the eight places that start a process must
first have found or left none. The proof goes by operations (`StopProcSound`,
`StartProcSound`, `RestartSound`, `ApplyRawSound`, ...): each keeps a `Sound` record
`Sound`, whoever calls it, so that the lemmas about actions are short.

`UserSyncProofs` proves `TypeOK`, `ServesDatabase` and `DiskFollows` of `UserSync` under
`SupervisorAssumption` and `UserSyncAssumption`. The invariant follows what is known
from the database to the process. `NumbersFit`: rekeys are numbered by the edits that
made them, and nothing read or marked is ahead of the counter. `ReadFits`: what the
loop has read is what the database holds, or an edit is on its way to it, so that it
will run again. `BelievedFits`: an idle loop has nothing to do or is about to be woken.
`FileFits`: the file holds the users of `m.applied`, each with the key of the database
or marked as rekeyed, and the shape of the settings or one about to be flagged.
`ProcessFits`: the process is as the file says, or as the sync under way has made it.
The last three are qualified by `suspect`, as the properties are, and so is the shape in
`ReadFits`: a sync that could not read its inbounds is `Partly` of the settings. At rest nothing is on
its way and nothing under way, and the five together give the two properties. The first attempt failed for a good
reason: with the exceptions the model had then, the properties are false beyond the
instance TLC had checked (see Runs, *failed* and the file in *skipped*), which
`Suspected` now says. Reads and writes that fail need no new part of the invariant: where
they are answered by a reconcile it is as at the start of one, and where they are not
(`GiveUpInv`) the state is under suspicion.

`NodeSyncProofs` proves the safety properties of `NodeSync` under
`NodeSyncAssumption` (pieces of traffic are naturals and finitely many, a chunk holds
at least one). Its invariant `IInv` (`NodeSyncSound`) has one part per question.
`Made`: ids on disk run ahead of those in use, each made of a piece of traffic not
used before, so there are never more ids than pieces. `Apart`: two requests that share
a piece carry the same report. `Booked`: what is booked is booked once and its id
claimed; this is what makes a resend of the report in flight harmless and needs
`Apart` for the request the agent gave up. `Acks`: a believed acknowledgement is of
what was claimed. `Orders`: an order to update is in one place. `Wakes` and `Parked`:
a stale snapshot is followed by a wake, and so is a request held on it, or it is
marked `missed`. TLC checked `IInv` on the instance of `Nodes` before it was proved.

`TrafficProofs` proves the three safety properties of `Traffic` under
`BoundsAreNumbers`. `AlertedOnce` needs `Alerting`: one pass in its turn at a time; what
it still has to judge is recorded as it read it; and a user recorded active who is over
the quota has run out once more than was alerted. The last part is what makes the order
*record, then alert* safe when another writer comes in between. `Accounted` needs, for
each user not raced, `Sound`: what was booked and is left is no more than what went
through (`BookedOnce`); measured from what a flush has read, the growth of the counter
since is no more than what went through since (`FlushSound`, used when a period begins
again at those counters); and the same of what a reset has read (`ResetSound`, void
once a flush has moved the baseline under it). `Waits`, that the pass of a flush runs
inside the flush, keeps the two apart. The arithmetic is in `GrowthRules`: growth
measured in two parts is never less than in one, which is why giving up a flush can
lose bytes and never invents any. There is one lemma per kind of step (`SoundCarry`,
`SoundRestarts`, `SoundDeltas`, `SoundResets`, ...), each about one user.

`BroadcastsProofs` proves the safety properties of `Broadcasts` and of the `Outbox`
under it, given `OutboxAssumption` (at least one attempt) and `BroadcastsAssumption`
(a broadcast is announced by the event of its id). `Deliveries` follows a delivery from
its row to its job and back: what is being posted was leased, what was taken without a
doubt is on its way to be settled or gone, and every attempt recorded was refused; so a
row goes only for the reasons `NothingLost` lists. `Working` ties the worker to its run,
and `GotOnce` says that whoever got a message is in flight as sent, or recorded, or in
doubt. `Ordered` is about a run: one that is not begun has no launch under way
(`Unmade`); one that runs, is done or is in the worker's hands has left the part of its
launch that writes recipients (`Begins`); and when the worker closes it, and after, nobody
is pending (`Ends`). `Announced` says that an event is stored after its launch let go of
it and not before, so that there is one emission of it. The proof found two behaviours the model had left out, both of them
now in `LaunchFails` and `FinishFails`, and with them the two new cases of `hasty`. TLC
checked the invariant with four controls and two faults before it was proved.

`RegistrationProofs` proves the four properties of `Registration` under
`ApplicantsAreDistinct`, `WaysAreKnown` and `CapsAreNumbers`. The invariant has a part
per question. `Exclusive`: two requests inside the same lock are one. `Decisions`: a
claimed request is held by one approval, undecided, and its row is empty; a row that is
filled again is undecided. `Waits`: whoever waits has a request or is held by an
approval. `Owned`: an account under way is its applicant's. The rest holds for the
Telegrams outside `mixed`: `Alone`, one registration at a time; `Unlinked`, no account
has it while it registers; `Recorded`, `Single` and `Promised`, a trial given is
recorded or about to be, there is one, and one is promised only where there is none.
There is a lemma per action; the parts a step does not touch go by lemmas about what
stays (`ExclusiveStays`, `TrialsStay`, ...). TLC checked the parts on `Signups` before they were proved.

## Only model-checked, and not modelled

Liveness (`CapturedIsClaimed`, `ExpiredIsEnded`, `CrashRecovers`, `Follows`,
`TrafficArrives`, `RunsEnd`, `RowsGo`, `QuotaFollows`) stays with TLC: fairness is out of the prover's
reach. So does one property that holds on the instance and not for every value of the
constants: `TapBuysOnce`, as the expiry a tap is held to is a value that can come back
(that the second delivery is refused at once is proved, `TwinsAreRefused`).
Every other safety property of the runs is proved.

The type invariants of `Supervised`, `NodeSync`, `Registration`, `Broadcasts` and
`UserSync` are proved and in no run, and so is `TwinRefused`.

Not modelled, and why: `PROJECT.json` lists every component. Devices and
incidents are next in the plan; protocol
servers, TLS, host networking, rendering and translations have no control flow these
models would tell anything about. Within traffic: the AmneziaWG tunnel, totals per
lane, coefficients, warnings before a quota is out, charts. Within billing: deleting users, editing the catalogue
while orders are open, trial plans, purging of old cancelled orders, the poll's batch
limit (a batch of 100, oldest first), the poll's alert about a voided order it read up
to 30 s ago, the subscription page's check before the lock of a cancellation, and the audit rows, alerts and webhooks that follow a payment.

Where a definition is coarser than its code, though nothing a property tells apart is lost:

- `CancelIfPending` is one step for all orders it cancels; `CancelPendingOrdersWithPromo`
  lists them and cancels one by one, each only if still pending.
- `ApplyPlanTo` is given a plan. Plan 0, by which an operator takes a user off every
  plan without a refund, is not modelled.
- `Renewable` does not look at `u.Enabled`: users are never switched off in these
  models, which renews more, not less.
- A failing `SetPaymentOrderProvider` leaves an order unlinked with its invoice made,
  as a restart just before it does (`CheckoutCrash`, "crash" in `MayFail`).
- `NewBase` takes a counter of 0 for one Xray has not made yet, and keeps the baseline;
  for one that is there and reads 0 the code writes a baseline of 0.
- `ApplyResets` resets all users who are due in one step, the code user by user. A
  byte counted in between belongs to one user, and is counted before or after.
- `PutBack` takes the reads before it to succeed: `approveWebRequest` returns with
  the request gone when `UserIDByExternalID` fails after the claim.
- `DeleteWebhook` is two statements; the second may fail, and nothing comes in between.
- A panic inside a reconcile, and a panel that stops in the middle of one, are left out
  of `UserSync`: the next boot begins with a full reconcile.
