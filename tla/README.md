# Cats Company server: TLA+ models and proofs

Models of the concurrent core of the Cats Company server (`src/server`, Go), the TLC
configurations that check them on small instances, and TLAPS proofs of their
invariants for every instance. Every definition is translated from the code;
`PROJECT.json` ("map") names the lines each one stands for.

## 1. The system and its components

The server is one or more Go processes ("nodes") behind one MySQL or PostgreSQL
database and, when several nodes run, one Redis. People and bots keep WebSocket
connections to some node; local devices (desktop and extension) connect as
requesters or as tool hosts. The in-memory Hub of a node routes between
the connections of that node; Redis stores leases, routes and pending requests
so that nodes can reach each other's connections.

| Component (code) | State it keeps | Operations | Hard behaviour |
|---|---|---|---|
| Hub, bot connections and body lease (`wshandler.go`, `bot_body_lease.go`, `runtime_registry.go`, `botmgr.go`, `cloud_worker_official_body.go`) | `clients`, `clientsByConn`; lease record per bot (memory, or Redis with a TTL of 2 minutes); runtime routes; the durable `body_id`, `cloud_official_body_id`, connection generation | handshake of `ServeWS`, `registerClient`, displacement, `Hub.Run` unregister, `disconnectClient`, takeover by the official body, transfer | a dozen unlocked steps per handshake; several handshakes of one bot at once; Redis or database failing at any of them; node crashes; a lease that expires under a stalled node |
| Thin-tool RPC and device binding (`thin_tool_rpc.go`, `device_rpc.go` routing, `user_devices.go` binding) | pending table in the requesters' node; device route; `identity` of a connection | request and result handlers, 1 s sweep, cancellation by requester and by replaced target | four parties compete for one entry; ids are chosen by clients and used again; target lookup, add, recheck and forward are separate steps |
| Device RPC with grants (`device_rpc.go`, `runtime_registry.go`) | pending table shared in Redis, grants | request, result, expire | entry taken by id alone; Redis may drop the entry before the sweep |
| Conversation task status (`conversation_task_status.go`, `conversation_task_delivery.go`, `db/taskstatus`) | run rows, aggregate revision, connection generation, outbox rows; recovery timers in memory | publish, recovery timer, reaper, outbox claim and fan-out | a bot reconnecting while its runs are being recovered; a crash that loses the timers; events delivered twice or out of order |
| Service runs and credit (`service_agents_*.go`, `service_run_ledger_writer.go`, `relay_credit_settlement.go`, `cmd/service-run-worker`) | run, lease and receipt rows; ledger; goroutines of the platform and of workers; the relay's bookings | create, claim, renew, complete, await input, fail, reap, record, charge | late reports of a run that was taken over; an admission gate shared by processes that share no lock; a charge of unknown outcome |
| Payments (`commercial_payment.go`, `db/postgres/commercial_payment.go`) | orders, entitlements; the provider's trades and refunds | create, check out, notify, query, cancel, expire, refund, reconcile | the provider answers late, twice, never, or after a cancellation; a refund of unknown outcome |
| Session forks (`session_fork*.go`, `db/sessionfork/store.go`) | copy rows, fork state and history revision of topics | create, retry, acknowledge, cancel, expire | three parties decide one copy while its source moves |
| Push turns (`push_notification_turns.go`, `native_push_tasks.go`) | turns, pending words, timers and deliveries in memory | observe status, observe message, settle, deliver, forget | statuses and words in any order; a delivery that fails or overlaps another |
| Relay budget sync, skill mutations, image gateway race | budgets; mutation rows; attempts in memory | | not modelled, see section 8 |
| Messages, groups, friends, projects; channels; uploads; accounts; SkillHub; artifacts; cloud workers; SDKs and clients | database rows, external services | request and response | single transactions or pure I/O: not modelled, see section 8 |

How they interact: `ServeWS` asks the database for the bot's binding, the lease
manager for the lease, the Hub for registration; the Hub's teardown releases lease and
route, cancels thin-tool requests of the connection, unbinds its device and schedules
recovery of the bot's task runs. The thin-tool router uses the device route the
`hi` frame of a device's connection has bound. The durable connection generation
bumped on registration is what fences the recovery of task runs. Every write of a task status leaves an
outbox event, whose fan-out feeds the clients' conversation lists; the same status, and the bot's
visible messages, feed the push coordinators. Forks send a frame to the bot's connection and
wait for its acknowledgement. Service runs, payments and forks share nothing but the database with the
rest; the ledger writer charges the credit that payments buy, at the relay.

What makes each correct:

* bot connections: one registered client per body and node; leases follow their
  discipline (a conflicting body waits or is refused, only the holder's end or, in Redis, the TTL gives
  the lease back); every registered client can be found and will be removed; a live
  client keeps its route; the official body gets its bot back;
* thin-tool RPC: a request gets one answer, no request of a connected
  requester is lost, nothing stays pending for a requester or a target that is gone;
* task status: terminal runs stay terminal, only quiet runs are recovered, and abandoned ones are, every stored event reaches the clients, a client's list does not go back;
* service runs: one outcome per run, its receipt, bill and charge agree with it, and no run keeps its
  session busy for ever;
* payments: paid and entitled go together, money goes back once, and a payment is not lost;
* forks: a ready copy is the same on both sides, everybody is told the same outcome, none stays pending;
* push turns: one notification per turn, not before its end, with its own words.

## 2. The modules

| Module | Models |
|---|---|
| `ExclusiveLease` | abstract: what the body lease promises, without nodes, handshakes or storage |
| `HubConnections` | the sessions of one bot account, and the refinement of `ExclusiveLease` |
| `HubConnectionsProofs` | TLAPS: invariant and refinement of `HubConnections` |
| `OneShotCalls` | abstract: what a remote call promises its caller |
| `ThinToolRpc` | the pending table, its two handlers, device binding, teardowns; implements `OneShotCalls` |
| `ThinToolRpcProofs` | TLAPS: invariant and refinement of `ThinToolRpc` |
| `TaskRecovery` | the task runs a disconnected bot leaves behind: timers, reapers, generations; implements `ExclusiveLease` |
| `TaskRecoveryProofs` | TLAPS: invariant and refinement of `TaskRecovery` |
| `StatusFeed` | abstract: what the delivery of task statuses promises to whoever watches a topic |
| `TaskOutbox` | the run ledger of a topic, its outbox, the dispatchers, and a web client's conversation list; implements `StatusFeed` |
| `TaskOutboxProofs` | TLAPS: invariant and refinement of `TaskOutbox` |
| `SingleDecision` | abstract: what parties that may each end the same thing promise together |
| `ServiceRuns` | service-agent runs: leases, executors, reaper, receipts, ledger and charges; implements `SingleDecision` |
| `ServiceRunsProofs` | TLAPS: invariants and refinement of `ServiceRuns` |
| `Purchase` | abstract: what buying a plan promises customer and shop |
| `Payments` | the orders of one user against the payment provider; implements `Purchase` |
| `PaymentsProofs` | TLAPS: invariants and refinement of `Payments` |
| `SessionForks` | copies of agent conversations; implements `SingleDecision` |
| `SessionForksProofs` | TLAPS: invariant and refinement of `SessionForks` |
| `TurnNotices` | abstract: what the notifications of agent turns promise their recipient |
| `PushTurns` | push notifications of agent turns; implements `TurnNotices` |
| `PushTurnsProofs` | TLAPS: invariants and refinement of `PushTurns` |
| `MC...` | small instances for TLC |

### HubConnections

One bot account. A member of `Conn` is one dial and the connection that
comes of it; `NodeOf` and `BodyOf` say where it dials and which body it announces.

| Model | Code |
|---|---|
| `pc[c]` from `lookup` to `finish` | where the goroutine of `ServeWS`/`registerClient` is, one label per shared access (database, lease, `h.mu`) |
| `clients`, `byConn` | `h.clients[uid]`, `h.clientsByConn` of all nodes (a connection is on one) |
| `releasing` | between `removeClient` and the release of lease and route |
| `stale[c]` | the clients `addRegisteredClient` returned, still to be closed |
| `holder` | the lease record; its connection id determines body and node, so the id is the record |
| `routes` | the runtime routes in Redis |
| `binding`, `official` | `bot_config.body_id`, `bot_config.cloud_official_body_id` |
| `transfer` | a transfer request between its checks and its update |

The actions follow the handler in order: `LookupOfficial`, then either
`RepairBinding`, `Takeover`, `AwaitRelease` (the official body) or `BindBody` (others),
`Precheck` (409 before the upgrade), `AcquireLease` (after the upgrade), `CheckCurrent`,
`BumpGeneration`, `AddClient` (under `h.mu`), `FinishRegister` (after it), or
`RejectRelease`. Sessions end by `PeerCloses` and `PumpExits` then `HubUnregisters`,
or by `DropClient`, then `ReleaseSession`. `Proceeds` are the paths of the handshake on which its calls succeed,
`CallFails` those on which a database call or the upgrade fails (`LookupFails`, `RepairFails`, `BindBodyFails`,
`UpgradeFails`, `BumpFails`). `Shared = FALSE` is the single process with
the in-memory lease manager, `TRUE` the Redis form (same discipline, TTL, calls that
may fail on the nodes of `Flaky`, also after having written). `ExclusiveLease` lets a lease run out under a live
session only for connections of such nodes (`Unreliable`); a wrong release anywhere else is a violation.

Abstractions: the bounded wait of the takeover may end at any time; the lease's clock is
the action `LeaseExpires`, enabled only when nobody renews any more, and `RenewalsFail`
for a node that stalls or cannot renew; the two reads of a transfer's check are one
step (`TransferCheck`); an identifier nobody refers to may stand for a new connection
(`Recycle`), which keeps the state finite. One assumption on the Redis client: a read that fails
inside a WATCH transaction leaves no write behind it.

### ThinToolRpc

One device and any number of connections that announce it; the requesters are on one node.
A member of `Req` is one request message; `IdOf` gives its (client-chosen) id.

| Model | Code |
|---|---|
| `pc[r]`, `target[r]` | the request handler: `add`, requester recheck, target recheck, forward |
| `pending` | the router's table (`thinToolRPCRouter.pending`), one entry per id |
| `age[r]` | deadline of the entry, against the lifetime of the route recorded in it |
| `claim[c]`, `resultOf[c]` | a result handler between `get` and `finishMatching` |
| `outbox` | an answer for an entry already taken, not sent yet |
| `life`, `byConn` | the Hub's view of a connection during its teardown |
| `bound`, `route`, `touching`, `cancelling` | device identities, `findDeviceRPCTarget`, the refresh of a route, the targets about to be cancelled |

`shared` is a variable that never changes, chosen from `Modes` in the
initial state, so that one run covers the process-local registry and the Redis one.

`OneShotCalls` is what the requester sees of this. A request is *open* while its handler
has yet to add it, while it is in the table, or while a notice for it is to be sent; it is *over* when none of
these is the case. `Drop` (over without an answer) is for a call whose requester has left, and for
shell requests, which outlive the route their notice takes.

### TaskRecovery

The task runs of one bot, and everything that may mark one of them stale. Connections
are those of `HubConnections`, of one body, reduced to what recovery looks at.

| Model | Code |
|---|---|
| `conn[c]` | `registerClient` (`acquired`, `current`, `bumped`, `on`), then `Hub.Run`'s or the send path's teardown (`removed` or `dropped`, `released`, `timed`) |
| `lease` | the body lease's connection; its node is what `botOnlineElsewhere` compares |
| `job[j]` | a timer of `scheduleDisconnectedBotTaskRecovery` (a `Conn`) or the reaper of a node (a `Node`): where it is between the online check, the listing, the read of the generation and the marks |
| `fresh[j]` | the generation the job has read is `bot_connection_generations.generation` |
| `quiet[j]` | the runs whose `updated_at` is not after the job's cutoff |
| `todo[j]` | the rows it has listed and not handled |
| `Unnamed` | the runs whose statuses come without a run id: published and listed like others, refused by `MarkStale` |
| `state[r]`, `aged` | a row of `conversation_task_runs`: its state (`lapsed`: past `expires_at`), and whether `updated_at` is the grace period ago |

There are no clocks and no counters: a time or a generation is only ever
compared with one a job has read before, so each job carries the outcome of the comparison, and the state space
is finite without a bound. Two facts about durations are in the model, both in
`Fire`: the grace period has passed for every run not written since the
disconnection, and a registration that was under way when the timer was scheduled is over
(it takes milliseconds, the grace period is 90 s by default).

Left out: the topic's aggregate, its revision and the outbox (they are `TaskOutbox`); event times and their
rejection (a rejected publication changes nothing); the import of legacy rows; the stores without
generations; and an online check that cannot read the shared lease. `botOnlineElsewhere`
answers no in that case, so `TimersSpareConnected` would not hold: it is listed as
an open hazard. "Connected" means registered and holding the lease: an older connection of the
same body on another node that has lost its lease, and will be closed, does not count.

The lease is the one of `HubConnections`, reduced in the same way; that it still keeps the discipline is checked and
proved by mapping it to `ExclusiveLease` too. Nobody is `Unreliable` there: its
2 minutes run out only when nobody renews any more, and a crash ends the sessions of its own node only.

### TaskOutbox

One topic, the dispatcher of every node, and the conversation list of one web client.

| Model | Code |
|---|---|
| `state[r]`, `at[r]`, `rev` | the rows of `conversation_task_runs`, and the aggregate's clock that a trigger advances |
| `outbox`, `holder`, `due` | `conversation_task_status_outbox`: rows, the claim token's owner, `available_at` |
| `batch[n]`, `step[n]`, `loaded[n]` | a node in `dispatchConversationTaskStatusEvents`: its claimed events, where it is with the first one, the aggregate it has reloaded |
| `view`, `rest`, `reply`, `touched` | the client's list entry, its conversation request, and whether a live update came since |
| `told`, `seen` | history: the newest state broadcast, the runs shown as ended |

A status change (`Write`) is one transaction: row, aggregate clock and event. A dispatcher reads
the aggregate *after* it claimed the event (`Reload`), stamps an empty one with its own clock (`StampIdle`), publishes
(`Fanout`), and only then removes the event (`Complete`). In between it may fail, crash, or lose its claim to another
node. The client merges frames (`Receive`) and list answers (`Apply`) by the rules of
`sidepanel-view.jsx`. Time stamps are only compared: 2k is the instant of revision k, 2k+1 an instant
before the next one. The delay of a frame is the dispatcher's, between reload and fan-out; a publication that Redis
accepts is taken to arrive. Terminal runs do not expire within the model.

`StatusFeed` has one watcher of the topic: the conversation list. Its `owed` revisions are the events of the outbox, `over` the
runs whose row is ended. A status may be shown if it is credible (nothing is said of what has not
happened, and a run that has ended is called active only by what is older than the present revision), not
older than what is shown, and not of a run seen to end.

### ServiceRuns

| Model | Code |
|---|---|
| `state`, `owner`, `lapsed`, `attempts`, `old`, `finished` | a row of `service_runs`; clocks are the facts that a lease has lapsed and that a row is two minutes old |
| `receipt` | `service_run_receipts`, written in the transaction that ends the run |
| `at[w]`, `on[w]` | `executeRun` of a worker process (`cmd/service-run-worker`) |
| `task[r]` | the platform's goroutine for a bot's or an external run: dispatched, let in by the gate, working |
| `ledger`, `billed`, `sweep[n]` | `service_run_ledger`, and the writer of a process between listing, charging and marking |
| `late` | rows past the window of the sweep that comes next: 48 hours after `finished_at` without a ledger row, seven days with a charge to come |
| `paid` | the relay's booking (external, idempotent by run id) |

The rows of the three kinds of runner go through one table with different rules: workers' runs can be claimed
and taken over, external ones are dispatched again, a bot's are ended by the reaper. `Reap` is the whole
transaction of `ReapExpiredServiceRuns` over all rows. Calls may fail before or after having taken
effect (`CallsMayFail`). An executor does not know that it was replaced: its reports are checked by the
row's state only, as in the code. The two sweeps list only rows inside their windows (`~late[r]`); what is older is left to manual reconciliation
(`db/postgres/service_run_ledger.go:103`). The other conditions of the second list, a payer and an amount, hold of every
row that is written as pending: the amount by `resolveBillingState`, the payer because it is the account of the session. Left out: the delivery of receipts to the caller, replay by
`client_token` (it returns the existing row), prices, the size of a sweep's batches (200 and 100), and a
platform without a relay to charge, where nothing pending is ever charged.

`SingleDecision` has one variable for how an item ended and one for what anybody was told of it. Here the
first is the row's state once final, and the second the receipt and the outcome in the ledger. That
outcome was read in an earlier transaction than the one that writes it.

### Payments

| Model | Code |
|---|---|
| `status`, `url`, `due`, `ent`, `from` | `commercial_orders` and the entitlement of the order |
| `at[q]`, `on[q]` | a request handler between two of its calls |
| `found` | orders `reconcile` was just told are paid |
| `page`, `trade`, `paidAt`, `refunds` | the provider (external): page handed out, trade, its time, the request numbers it has booked refunds under |

Every store call is one transaction, every provider call one step that may take effect and yet report
failure; the customer pays at any moment while the page is open. Fulfilment is
one transaction and one action. Left out: cloud-worker credits, the free baseline, trials, purchase
limits, the loop's 7-day cut-off and its throttle, the test channel, and the relay budget sync.

`Purchase` knows what was paid, the plan, how often the money was paid back and what is settled.
Money is the provider's (`trade`, `refunds`), plan and settlement are the shop's (`ent`, `status`); the refinement
says how the two keep in step although no transaction spans them.

### SessionForks

A request and the conversation it creates have one name. `state`, `source`, `srcRev`, `bodyOf`
are the row of `session_forks`; `fence` and `rev` the `fork_state` and `history_revision` of topics;
`frames`, `cloned`, `ack` the runtime (external), which may clone late, twice or never; `told` is the history
of the answers. A copy may be the source of another. Messages, deletions, changes of
members and of the agent's body go on around it. The content of histories is data:
a history is its revision. A copy's decision (`SingleDecision`) is its final state, told
by `told`.

### PushTurns

One agent, one topic and one recipient: recipients are handled one by one and topics share
only the limits of the tables. A candidate is its set of words.

| Model | Code |
|---|---|
| `sent` | statuses the ledger has committed; each is observed late, once or more often |
| `tracked`, `terminal`, `superseded`, `updated`, `words`, `settling` | `trackedTurns` with its fields and its settle timer |
| `current`, `currentAt`, `pending` | `currentRuns`, `pendingByScope` |
| `inFlight`, `delivered`, `courier[c]` | `deliverOnce`, and the goroutines between taking the candidates and discarding them |
| `owed` | handlers that still have to add the native fallback text |

The web and the native coordinator are the same code; the native one also adds the fallback,
so the model's runs are those of the native one, and those of the web one the ones in which nobody is ever owed. A full
table is a refusal that may come at any time (`Refuse`). Forgetting after ten minutes assumes that
a delivery goroutine is done by then. Left out: notifications of runs that wait for confirmation (a key of their own),
empty bodies and truncation, subscriptions and transports.

In `TurnNotices` a word waits, is kept for one run, or is gone. Its call is a push under way, which begins
only after the end of its run, and not while another one is under way or remembered; the words kept for a run are those of its
candidate and of the copies goroutines hold. `ForgetAll` is the restart, after which what is remembered
is gone and may be told again.

## 3. The runs

| Run | Instance | Checks |
|---|---|---|
| `hub_shared` | 2 nodes over Redis, 2 connections of a foreign body on one, the official body's on the other; all database calls, and all Redis calls of the second node, may fail; crashes | invariants and refinement (1.5 M states, about 75 s) |
| `hub_local` | 1 process, 2 connections of a foreign body and the official body's; calls of the handshake may fail; crashes, fairness | liveness (307 k states, about 170 s) |
| `thin_rpc` | 2 requests with the same id of one requester, 2 connections of the device on its node, both deployments | the table's invariants (4.6 M states under symmetry, about 90 s) |
| `thin_live` | 1 request, one device connection on each node, fairness | refinement, and every request is answered (150 k states, about 10 s) |
| `recovery` | 2 nodes, one connection identifier on each (used again and again), 1 run, failing database calls, crashes, fairness of reapers | invariant, refinement, action property and liveness (0.9 M states, about 125 s) |
| `outbox` | 1 topic, 2 runs, 2 revisions, 2 nodes that claim one event at a time, one fault | refinement (1.6 M states, about 130 s) |
| `outbox_live` | the same with 1 run, fairness | the outbox drains, watched runs settle (245 k states, about 55 s) |
| `service_runs` | 2 runs (a worker's beside an external one, or two of one bot), 2 workers, 1 platform process, limit 1, failing calls, deaths, fairness | invariants, refinement and liveness (204 k states, about 120 s) |
| `payments` | 2 orders of two tiers, 2 requests at a time, failing calls about the first order, 2 moments, fairness | invariants, refinement, action property and liveness (0.4 M states, about 60 s) |
| `payments_renewals` | 3 orders of one tier at one moment, one request at a time, no failures | one disagreement, section 6 |
| `session_forks` | 1 conversation, 2 copies (the second perhaps of the first), 2 bodies, one message per conversation, one change of members or body, fairness of time and reaper | invariants, refinement and liveness (0.5 M states, about 30 s) |
| `push_turns` | 2 runs, 1 message, 2 deliveries at a time, event times 1 and 2, failing pushes, restarts, fairness | invariant, refinement, action property and liveness (0.6 M states, about 175 s) |

Each property of a passing run has a mutant: a plausible slip in a mapped definition
(a forgotten release, a dropped recheck, an index cleaned without its set) under which TLC
reports that property violated. Type invariants are not among the runs' invariants: each is part of a proved
invariant (section 7).

Why the bounds are enough to be of interest:

* Hub: three connections of two bodies allow each of displacement by the same body, a registration that overtakes
  another, refusal, and takeover, with a third handshake interleaved; because
  identifiers are recycled (`Recycle`) the same three serve unboundedly many reconnections. The legacy body
  (`LegacyBody`) is in no run: displacement of a legacy client is covered by the theorems only.
* Thin tools: two requests with one id are the least that lets an id be used again while the
  older request's result is on its way; two device connections the least that lets one replace
  the other in the middle of a request. The limits of the pending table (16 per requester, 128 per
  device) are modelled (`HasRoom`) and no run is at them. `Recycle` makes `pc`, `answered` and
  `delivered` of a forgotten request start again; nothing a property speaks of refers to it then.
  `ImplementsCalls` is checked with one request (`thin_live`); for requests that share an id the
  invariants of `thin_rpc` are what TLC checks, and `ThinImplementsCalls` is proved for any number of them.
* Recovery: the two connections are on different nodes, which is where recovery is hard: a timer on
  one, a reconnection on the other, a reaper on each. Displacement on one node is left to
  the theorems, which hold for any `NodeOf`. One run is enough because jobs treat their rows one by
  one and share nothing but the generation. It has an id (`Unnamed = {}`): with a second run the instance is too large
  for a liveness check, and of a run without an id `AbandonedRunsEnd` says nothing. The theorems hold for any `Unnamed`.
* Outbox: two revisions give an older and a newer event, on two nodes; one fault is enough to have
  the older one published last. `MaxRev`, `MaxFaults` and `Limit` bound the revisions, the faults and the events of
  one claim (32 in the code).
* Service runs: `MaxAttempts` is 2 (3 in the code; the theorems hold for any), the least at which a run is taken over
  once and then given up; two workers let a lapsed lease be
  taken over while its first owner still reports. Two bot runs against a limit of one are the least
  that can exceed it. With more platform processes than one the limit is exceeded by
  design (comment in `service_agents_bot_runner.go`): `InflightBounded` states by how many, and is proved for any number.
* Payments: `Horizon` and `Period` are the last moment and the length of a period; two requests about one
  order are the least that overlap. `Scope` and `Faulty` keep the instance small: the second order exists to be an upgrade.
* Forks: `MaxRev` bounds messages per conversation and `MaxTurns` the changes around it: one of
  each is what makes a source differ from its copy.
* Push turns: two runs let words be gathered for the wrong one; two couriers let one delivery overlap
  another. `MaxTime` bounds event times: with two, a status can be older than the current run; each run then has at most two
  statuses of different times.

CHECK_DEADLOCK is off where a bounded system comes to rest: all revisions written, all
runs ended and settled, all copies decided, all orders closed, everything said.

## 4. Fairness

* Hub: weak fairness of every step of a handshake, of a pump that sees a closed
  socket, of `Hub.Run` taking an unregistration, of release and of TTLs. These are
  goroutines which, when runnable, run; the database and Redis calls have deadlines.
  `Dial` is fair for the official body only: the worker's connector retries for ever.
  Nothing is assumed of peers: `PeerCloses`, `Touch`, `DropClient`, `Crash` and the dials of
  other bodies are not fair.
* `OfficialTakesOver` moreover assumes, in its formula, that the minted body
  stays, and that crashes and failing calls cease. It and `OrphanLeaseComesBack` also assume that no registration
  displaces the client that holds the lease (`Overtaken`, in memory only): then both are false, of the code as of the model
  (section 6).
* Where a formula assumes that failures cease, it says that from some point on every step is one of `Orderly`, the
  next-state relation without them. So a step that succeeds is never excluded because a failure could have had the
  same effect, and the formula speaks of every behaviour without failures.
* Thin tools: handlers run, deadlines come, the one-second ticker ticks and notices are sent. No fairness
  of devices: the result may never come, which is what the deadline is for.
* Recovery: the reaper's loop runs, time passes (`Age`), abandoned leases expire. Timers,
  connections and publications are not fair: the timers may all be lost. `AbandonedRunsEnd`
  assumes in its formula that crashes and failures of the reaper's calls cease, and exempts the runs without an id.
* Outbox: claims lapse after their 30 s, every node's ticker runs its dispatcher, a list request is
  answered and applied. Clients need not come on line; faults are bounded.
* Service runs: the reaper's and the ledger writer's tickers run, commands and endpoints have deadlines, a lease that
  nobody renews lapses, some worker polls. Renewals, deaths and failures are not
  fair. `WorkerRunsConclude` assumes that the command is not handed back as retryable for ever,
  `FinishedRunsAreSettled` that the sweeps' calls and the processes cease to fail, and that no window passes
  before the sweep that is due.
* Payments: handlers go on, and the reconciliation loop asks, fulfils and closes. No customer,
  operator or notification is assumed. `PaidIsRecovered` assumes that from some point on the loop
  loses no payment it has found to a failed call; a fulfilment that is refused is not such a failure.
* Forks: time passes and the reaper runs; nothing is asked of the runtime or the user.
* Push turns: timers fire and delivery goroutines run. The fairness of `Settle` is strong: the bound on couriers
  can take a timer's turn away for a while, which the code, with a goroutine per timer, cannot.

## 5. The properties

HubConnections: `OneClientPerBody`, `ClientsAreServed` (no presence that is stuck),
`LiveClientIsRouted`, `ImplementsExclusiveLease`, `ClosedClientLeaves`,
`OrphanLeaseComesBack`, `OfficialTakesOver`.

ThinToolRpc: `AtMostOneAnswer`, `OrdinaryRequestsAccounted`, `NoOrphanPending`,
`ReplacedTargetDrained`, `ImplementsCalls` (an answer once, none lost while its requester is there), `EventuallyAnswered`.

TaskRecovery: `ImplementsExclusiveLease`, `TimersSpareConnected`, `RecoveredWasQuiet`, `AbandonedRunsEnd`.

TaskOutbox: `ImplementsFeed` (no event is removed before its news is out; the list shows what was said, goes forward
and never brings an ended run back), `OutboxDrains`, `WatchedRunsSettle`.

ServiceRuns: `ReceiptTellsOutcome`, `ImplementsDecision`, `ChargesAgree`, `InflightBounded`,
`ActiveRunsMoveOn`, `WorkerRunsConclude`, `FinishedRunsAreSettled`.

Payments: `EntitledAsOrdered`, `ImplementsPurchase`, `PaidStaysInReach` (no cancellation, expiry or
refund takes a paid order out of the recovery loop's reach), `NoWayBack`, `PaidIsRecovered`; `PaidTimeIsKept` is
the one that fails.

SessionForks: `ReadyCopiesAgree`, `FenceMatches`, `ImplementsDecision`, `PendingForksEnd`.

PushTurns: `ImplementsNotices`, `EndedTurnsAreMinded` (an ended turn never waits for nobody),
`EndedTurnsKeepWords`, `EndedTurnsAreTold`.

A refinement replaces several invariants of its component in the runs, because it implies them:
`EventsAreTold`, `NoRevival` and `ViewMovesForward`, `BilledAsEnded`, `RefundedOnce`, `AnswersAgree`,
`OnePushPerRun`, `NoEarlyPush` and `WordsHaveOneRun`. These stay in the modules, with theorems of their own: they
are what the proofs of the refinements rest on.

The comment above each definition says what it means and of which code.

## 6. Where code and comments disagree

One disagreement has a run.

* `payments_renewals`. An early renewal is to start "at the existing entitlement expiry". The expiry is
  looked up among the periods that have begun (`starts_at <= now`), so a renewal
  already bought is not seen, and a second one starts at the same moment as the first: two periods are paid for and run side by side.

The others were met while modelling and are recorded here without a run of their own.

Hub and thin tools:

* The lease manager's comment speaks of preventing duplicate bodies (`bot_body_lease.go:57`). `registerClient` checks
  that the lease is current, then bumps the generation in the database, then adds the client. A connection of
  the lease's own body can displace the lease in between, close, and leave it to another body: both
  end up registered. (`OneClientPerBody` is about one body.)
* A transfer "refuses while the old body still has an active lease" (`botmgr.go:733`). The check uses
  `BotBodyStatus`, whose `Active` needs the lease's connection in the *local* Hub, so it passes on any other node.
* Two handshakes of one body may register in the opposite order of their acquisitions. The holder of the
  in-memory lease is then displaced from `h.clients`, `removeClient` finds nothing to remove and nobody
  releases. In memory there is no TTL: the official body is refused for ever. `hub_local` has the two foreign connections it
  takes; `OfficialTakesOver` and `OrphanLeaseComesBack` exclude the case by name (`Overtaken`), and without that
  premise TLC finds this trace for either of them.
* `finishMatching` compares the entry with what `get` returned a moment before; a result of an *older*
  request with that id gets the newer entry in the first place (`thin_tool_rpc.go:396`).
* A shell request lives 310 s, the requester route recorded with it 300 s: its timeout notice has no
  valid route and is dropped (`thin_tool_rpc.go:772`).
* Takeover closes a foreign holder on its own node only; on another node it has to wait for that holder to go
  away by itself. A result that arrives at the node of a remote device finds that node's own
  (empty) table: a request forwarded to another node is answered by its timeout only.

Task status:

* A bot that reconnected "is never marked stale", the reaper's comment says (`conversation_task_status.go:411`),
  because its generation makes the compare-and-set a no-op. The reaper asks whether the bot is online
  *before* it reads that generation; a reconnection in between is read as the current one and the
  mark succeeds. (The timer has it in the other order, and there the property holds and is proved.)
* The reaper is to recover "any" active rows that outlive the grace period (`conversation_task_status.go:404`). A status without a
  run id is accepted (`conversation_task_status.go:132`) and listed by every sweep, and `MarkStale` refuses an empty id
  (`db/taskstatus/ledger.go:266`): the run of a bot that is gone stays active until it expires, by default six hours after its
  last status. `AbandonedRunsEnd` exempts these runs (`Unnamed`); without the exemption TLC finds one.
* An aggregate found empty is stamped with the clock of the dispatcher after the query: a run that starts in
  between has an older stamp and stays hidden until its next status (`conversation_task_delivery.go:46`).
* The refresh on reconnection joins a list request under way, which may have been answered before it
  (`sidepanel-view.jsx:838`).

Service runs:

* The reaper ends a bot's run at once because, left orphaned, it would hang and its caller poll for ever
  (`db/postgres/service_agents.go:709`). Two runs do: an external one whose endpoint answers "running" or so late that the failure cannot
  be stored, and a bot's run that the gate hands back as retryable; both are orphaned and claimed by nobody.
  `ActiveRunsMoveOn` and `WorkerRunsConclude` state what remains true.
* A worker whose lease was taken over can still fail, or hand back, its successor's run: fail and
  complete do not ask for the instance.
* The sweeps look back 48 hours (`db/postgres/service_run_ledger.go:35`) and seven days (line 114). If they are down or fail for
  longer, a finished run is never billed, or never charged; the comments say so of the second. `FinishedRunsAreSettled` is about
  runs that no window has passed.
* Runs that the reaper fails have no `finished_at` and are never billed, which is why `FinishedRunsAreSettled` is
  about finished ones. With several ledger writers one may refuse what another has booked;
  `ChargesAgree` is about one.
* An orphaned run does not count as active when a session is asked for another: both may run in the end.

Payments:

* An order of a lower tier that is paid after a higher one was fulfilled is never fulfilled and has to be refunded by
  hand (`Outranked` in `PaidIsRecovered`).
* An order whose checkout was declared failed is not asked about again, even if the customer had the page and paid.
* The expiry a renewal starts at is read before the ladder lock; the model has fulfilment as one step.
* An upgrade leaves a renewal that has not begun as it is, with its grants revoked.
* A refund the provider booked and whose local commit failed leaves the entitlement in force until it
  is tried again.

Push turns:

* An end that is reported again while a push is under way which then fails is not retried until
  something else comes (`EndedTurnsAreTold` excludes failed pushes).
* Words that come during a push are kept, but the push's record suppresses them.
* Words that waited for their run replace those gathered under the run's tag earlier.
* Untagged words of a new turn that come before its first status join the previous run, if
  that has ended and is not told yet.
* Every node has a coordinator of its own: a status another node's reaper writes does not push
  what was gathered here.

## 7. What is proved

For all values of the constants that satisfy the named assumptions (`HubAssumption`, `ThinAssumption`,
`RecoveryAssumption`, `OutboxAssumption`, `ServiceAssumption`, `PaymentsAssumption`, `ForksAssumption`,
`PushAssumption`: the domains of the constants, that nodes, workers and connections are different things,
that leases in memory mean one node).

* `HubInvariant`: `Spec => []HubInv`, with `HubInv` the conjunction of `TypeOK`, `ClientsAreServed`,
  `OneClientPerBody`, `LiveClientIsRouted` and `DepartedStayOut`. The last is the
  strengthening: a connection that is in somebody's `stale` set or in `releasing` is in
  neither map, and is past its registration. Without it a
  removed identifier could come back as a client whose route is then cleared by
  somebody else's `stale` set. From it: `HubTypeCorrect`, `HubOneClientPerBody`,
  `HubClientsAreServed`, `HubLiveClientIsRouted`.
* `HubImplementsExclusiveLease`: under `HubInv` every step is a step of `ExclusiveLease` or a
  stutter. The mapping sends `ended` to the connections that are neither registered nor
  between `current` and `add`. `AcquireLease` is `Grant`; teardown steps, `Crash` and the
  rejections are `End`; `ReleaseSession`, `RejectRelease` and `LeaseExpires` are `Release`, and need the invariant to know
  that the connection has no session (any more). The failing calls are `End` or stutters, and only
  `RenewalsFail` is `Expire`, of a connection whose node may lose Redis.
* `ThinInvariant`: `Spec => []ThinInv`, with the checked invariants and four
  strengthenings. `OpenEntries`: the request of an entry is unanswered and has no notice, and a
  request that was not added yet has left no trace. `NobodyAway`: a requester
  that was never there has sent nothing. `TargetsKnown`: nothing refers to a device connection
  that was never there, and without a shared runtime all are local. `LapsedIsShell`: only the notice of a
  shell request can lose its route. From it:
  `ThinTypeCorrect`, `ThinAtMostOneAnswer`, `ThinOrdinaryAccounted`, `ThinNoOrphanPending`,
  `ThinReplacedTargetDrained`.
* `ThinImplementsCalls`: every step is a step of `OneShotCalls` or a stutter. The step that takes
  an entry either leaves a notice, answers, or finds the requester gone, by `OrdinaryRequestsAccounted`
  before and after it; that the answer is the first one is `AtMostOneAnswer`, that nobody comes back to the
  calls of an earlier life is the guard of `Recycle`.
* `RecoveryInvariant`: `Spec => []RecoveryInv`. `TimersSpareConnected` alone is not
  inductive. `SettledBeforeFire`: while a timer that has fired holds the current
  generation, no connection is between its bump and its registration, since its bump would have been later and
  the generation not current. `OneJobPerConn`: a connection that is registered or about to be has no timer of
  its own. `CutoffsAreAged`: what a job may still mark is at least the grace period old. From it:
  `RecoveryTypeCorrect`, `RecoverySparesConnected`, and, as an action property of every step,
  `RecoveryMarksQuiet`.
* `RecoveryImplementsExclusiveLease`: registration and teardown are the steps of the lease; timers, reapers, marks and
  publications are stutters of it. With `HubImplementsExclusiveLease` this makes the lease a contract
  that both modules keep: what the recovery assumes of it is what the Hub does with it.
* `OutboxInvariant`. `DispatchOK`: what a dispatcher has loaded, or published, covers the event it is
  about to remove. `StatusesOK` speaks of all statuses that are shown or may yet be (in the view, in an answer, loaded
  by a dispatcher): an "active" of a run that has ended is older than every "ended" of
  it, and than the view once the run was seen to end; that is what makes `NoRevival`
  inductive. `ReplyOK`: an empty answer is not used if a run was seen to end since it was asked for.
  From it: `OutboxTypeCorrect`, `OutboxEventsAreTold`, `OutboxShownIsReal`, `OutboxNoRevival`,
  `OutboxViewMovesForward`.
* `OutboxImplementsFeed`: a write is `Record`, a publication `Announce` whether it then succeeds or not, an answer that is used
  `LookUp`, the deletion of an event `StrikeOff`; claims, crashes and lapses are stutters. `StatusesOK` gives
  that what is shown is credible and in order, `ReplyOK` that the list goes blank only if it has shown no end, `DispatchOK`
  that an event was announced when it is struck off.
* `ServiceInvariant`, in three parts. `RowOK`: receipts follow states, and only ended rows have a
  `finished_at`. `ExecOK`: a busy worker has a run. `BillOK`: a writer about to record a run has listed it as ended,
  with the outcome it has; as outcomes stay (`ServiceOutcomesStay`), it is still the outcome when it is recorded, in time or not (`late`). From it:
  `ServiceTypeCorrect`, `ServiceReceiptTellsOutcome`, `ServiceBilledAsEnded`. `ServiceChargesAgree` adds `ChargeOK`, what
  a writer between the two systems knows. `ServiceInflightBounded` is a counting argument: the runs under way and those
  a gate has let pass (`LetIn`) are at most `MaxInflight + |Node| - 1`, because every process lets one pass at a
  time, by its lock, and only when it counts fewer than the limit.
* `ServiceImplementsDecision`: rows decide once (`ServiceOutcomesStay`), the receipt is written with the decision, and
  what a sweep bills is by `BillOK` the decision; a run without a ledger row was billed nothing.
* `PaymentsInvariant`: what handlers know is true. `FlowOK`: what is about to be fulfilled was paid, and what is
  about to be completed as refunded was booked. `ProviderOK`: every refund of an order carries
  one number. From it: `PaymentsTypeCorrect`, `PaymentsEntitledAsOrdered`, `PaymentsRefundedAsBooked`,
  `PaymentsRefundedOnce`, and for every step `PaymentsNoWayBack`.
* `PaymentsImplementPurchase`. The delicate step is the provider's booking of a refund: it is `Repay` if it is the first one
  of its order and a stutter if it repeats the number (`ProviderOK`), and its order has been granted its plan.
  `Settle` commits what was booked before.
* `PaymentsPaidStaysInReach` adds `ReachOK`: a plan is granted only to an order that is fulfilled or
  in its refund afterwards, money goes back only for an order that was granted its plan, and a trade is of an order that
  was checked out. So a paid order that is not done with has neither plan nor refund, and fulfilling it is still
  possible, even if it was cancelled or has expired. This is the safety half of `PaidIsRecovered`.
* `ForksInvariant`. `ClonesAreLater`: the runtime clones no earlier than the server has copied, and
  histories only grow; so if the source is as it was copied when the acknowledgement is committed, both are of one history
  (`ReadyCopiesAgree`). `RequestsKnown`: only what was requested is sent to a runtime. From it: `ForksTypeCorrect`,
  `ForksReadyCopiesAgree`, `ForksFenceMatches`, `ForksAnswersAgree`, `ForksStayAsMade`.
* `ForksImplementDecision`: every transaction that ends a copy finds it pending, and every answer is
  given from the row as it is then; so the refinement needs the types, and that what was told is the state (`AnswersAgree`).
* `PushInvariant`. `CouriersRecorded`: a push under way is in `inFlight`. `TerminalsEnded`: a turn is terminal
  only by a committed end of its run. `WordsArrived`: no word is anywhere before it was observed. From it:
  `PushTypeCorrect`, `PushOnePerRun`, `PushNotEarly`, `PushWordsHaveOneRun`, and for every step
  `PushEndedTurnsKeepWords`.
* `PushMindInvariant`. `EndedTurnsAreMinded` is not inductive: `MindedOK` adds what the goroutines know
  (`CouriersHaveWords`: one that is under way carries words; `Carried`: it has the candidate as it is, and once its
  call is over the push is remembered).
  From it `PushEndedTurnsAreMinded`, which is the safety half of `EndedTurnsAreTold`: with somebody
  always about to tell an ended turn, fairness is all that is missing.
* `PushImplementsNotices`: under `PushInv` and `MindInv` every handler, timer and goroutine step is one of `TurnNotices`. Most of
  the proof is about `WordsMove`: each way a message or a status can attach waiting words, replace or merge candidates,
  or drop them keeps every word in one place.

Only model-checked: all liveness (`ClosedClientLeaves`, `OrphanLeaseComesBack`, `OfficialTakesOver`, `EventuallyAnswered`,
`AbandonedRunsEnd`, `OutboxDrains`, `WatchedRunsSettle`, `ActiveRunsMoveOn`, `WorkerRunsConclude`,
`FinishedRunsAreSettled`, `PaidIsRecovered`, `PendingForksEnd`, `EndedTurnsAreTold`).
The prover does not reach liveness under fairness, `ENABLED`, recursive operators or induction over
data; none of the modules with theorems has a recursive operator.

## 8. What is not modelled

Of the modelled components: authorisation and grants, the contents of frames and messages,
metrics, presence broadcasts, and what section 2 names module by module.

Of the others:

* Device RPC with grants: a pending table shared in Redis and taken by request id alone. It is the next module
  to write; two of its hazards are listed in `PROJECT.json`.
* The skill mutation coordinator: a state machine worth a module, but "deliberately not registered" in production
  (`skill_mutation_coordinator.go:99`).
* The image gateway's race and its circuit breaker: one fan-out of attempts, in memory.
* Relay budget sync, cloud-worker lifecycle and the artifact runtime: single-row transactions and calls to external
  services, with reapers of the form modelled in `ServiceRuns` and `SessionForks`.
* The SkillHub pipeline: half of its protocol is a peer that is not in the repository.
* Request-and-response handlers over one database transaction (messages, groups, friends, projects,
  devices), adapters to external services (channels, e-mail, speech, uploads), clients and SDKs, deployment.

The modules cover what is concurrent or has a protocol. The greater part of the server's
code is not: handlers, adapters, schema and rendering have no behaviour a model of
states would add to, and they are most of its lines.
