# OPPW: TLA+ models, checks and proofs

OPPW trades one position a week per account through MetaTrader 5 (MT5). Two
Windows nodes run supervised Python processes; a PHP/MySQL backend holds the
leases, gates, entries and records that keep two processes from doing the same
work. This directory holds TLA+ models of that protocol, the TLC configurations
that check them on small instances, and proofs checked by TLAPS.

## 1. Inventory

| Component | State it keeps | Operations | Hard because of |
|---|---|---|---|
| Global role leases (`coordination.php`, `coordination.py`) | row per account and role: owner, fencing token, `expires_at`; in each process the token, `valid_until_monotonic`, `lease_lost_event`, `stop_event`, a renewal thread | acquireLease, renewLease, releaseLease; start, renewal thread, recover, stop | two clocks, late answers, requests processed after their caller gave up, crash, shutdown |
| Trade gate and weekly entries (`coordination.php`, `broker_execution.py`) | gate row (owner, token, operation id, expiry); entry per week (status, execution id, tokens) | acquire/validate/releaseTradeGate, claim/completeWeeklyEntry; send_buy, modify_sltp, close_position_market | failover in the middle of an order, lost answers, unlocked checks, unknown broker results |
| Runtime loops (`runtime.py`, `oppw_mt5_continuous.py`) | running flag, weekend mode | cycle, startup_reconcile, suspend and resume, shutdown | exceptions inside the recovery handler, order of shutdown |
| Position lifecycle and protection (`position_lifecycle.py`, `broker_execution.py`) | `StrategyState` file: position identity, hard stop, exit latch, protection | adopt, lock hard stop, arm exit, protect, finalize a close | crash between broker and file, adoption, weakening of protection |
| Publisher queue (`publishing.py`) | bounded deques, latest snapshot, worker thread, acknowledged ids | submit, enqueue, take, send, requeue, weekend purge, stop, restart | overflow, stale overwrite, duplicates, worker outliving stop |
| Windows supervisor (`oppw_windows_supervisor.py`) | assignments and their age; per process: child, ready file, back-off | heartbeat, reconcile, start, stop | partition, overlap of two nodes, one unready child blocks the others |
| Service control (`service-control.php`) | node rows with `last_seen_at`; desired state and revision; request events | heartbeat, setDesiredState | two nodes of one role, retried requests, stale master |
| Strategy controls (`strategy-controls.php`) | rule revisions, week state, position triggers, request events | setRule, recordWeekState, recordPositionRuleTrigger | stale revision, final states, retries across failover |
| Ingestion and projections (`ingest.php`, `events-ingest.php`, `authority.php`) | snapshots, events, decisions, open and closed trades | snapshot and event batches | either order of event and snapshot, repeated batches |
| Device sessions (`auth/*.php`, `lib.php`) | devices, pairing codes, tokens | pair, refresh, unpair, revoke | one code used twice, a refresh whose answer is lost |
| Retention (`admin/retention.php`) | archive files, run rows | archive and delete per batch | crash between archive and delete |
| Strategy decisions, session calendar, monitoring payloads | none that outlives a cycle | pure functions of market data and time | numerical, not concurrent |
| Read-only API, analytics, Android app, tools | caches at most | queries, screens, scripts | not part of the protocol |
| Service host (`OPPWServiceHost.cs`) | the child it monitors | start, relaunch, stop | relaunches a supervisor that left processes behind (an action of `Supervisor`) |

How they interact: the supervisor of each node asks service control what to run
and starts EXECUTOR and PUBLISHER processes; assignment is about availability
only. Each process takes its role lease before it works and keeps it with a
renewal thread; every handler of the backend that a process calls checks its
lease. An EXECUTOR takes the trade gate for each broker operation, and a BUY
also claims its week. Snapshots and events go through the publisher queue to
the ingestion handlers; the operator's switches come back through strategy
controls and service control.

What makes each correct, in a sentence:

- leases: a process that may work owns the active row, whatever was lost or late;
  the role is not left without an owner for ever;
- gate and entries: at most one BUY of a week stays at the broker, it is on
  record even if its process died, and the record is true and final;
- position lifecycle: the hard stop is priced once, protection is never weakened,
  an exit once latched happens, a close is recorded from the exact deal;
- publisher queue: a guaranteed snapshot and an event are delivered in order or
  dropped only by a named bound; nothing is accepted without a lease;
- supervisor and service control: no start without a fresh assignment, one unready
  child at a time, every assigned child is started in the end, an operator's
  request has its effect once;
- strategy controls: nothing is recorded under a stale revision, final week states
  are final, an authorised exit is never withdrawn;
- ingestion: the result does not depend on the order or repetition of batches;
- sessions and retention: a code is used once, a row is archived before it goes.

## 2. Modules

| Module | Models |
|---|---|
| `LeaseAuthority` | what a role lease promises: owner, token, active, and the view of each process |
| `RoleLease` | the lease rows and the coordinator with time, threads and messages; implements `LeaseAuthority` |
| `WeeklyEntry` | what the weekly entry promises: one holder of a week, who places its BUY once; no leases, gates or calls |
| `TradeExecution` | gate, weekly entry and the three trade operations, on top of `LeaseAuthority`; implements `WeeklyEntry` |
| `EntryRules` | the weekly entry decision: switches, week outcomes and the executors that decide and record |
| `PositionLifecycle` | a position from its adoption to its reported close, with the state file of each node |
| `Publishing` | the publisher queues and the trade projection that `ingest.php` and `events-ingest.php` both write |
| `Supervisor` | the supervisor of one node, its processes, and the service host that relaunches it |
| `ServiceControl` | the supervisors of several nodes against node rows, assignment and desired state |
| `MCEntryRules`, `MCPositionLifecycle` | the symmetry of the nodes, for TLC |
| `*Proofs` | theorems about the module of the name |

How they fit together. `RoleLease` implements `LeaseAuthority`, and `TradeExecution` is
written on top of it, so what holds of trades holds under every behaviour of the lease
protocol: `LeaseServesTrades` proves that what `RoleLease` does to row, views and tokens is a
`LeaseStep` of `TradeExecution`, which also says that a token changes only where no trade is
under way. The other modules take from their neighbours what those promise:
`EntryRules` lets one entry of a week through (`OneOrderPerWeek`), `Publishing`
opens a position only after the close of the previous one was reported, `PositionLifecycle` leaves out the order
protocol that `TradeExecution` has and takes a broker request for one that is sent or refused, and
`ServiceControl` replaces the start sequence of `Supervisor` by a process that is started or not.

What `Publishing` takes for granted is `EntryWaitsForClose` for one node and whole fills: the exit was filled in one
deal, the executor has not moved to a node whose file knows nothing of the earlier position, and no other position has displaced it
in the file. Outside of these the code does not keep a new position from being published before the close of the
earlier one, and `Publishing` does not show what becomes of that.

### RoleLease

`lease` is the row of `strategy_runtime_leases`; `phase`, `fence`, `validLeft`,
`lost`, `stopEvent`, `renewer` and `wait` are the coordinator's main thread,
`fencing_token`, deadline, events, thread and the remainder of its
`stop_event.wait`. Time is discrete and deadlines are kept as the time left until
them, so the state space stays finite without a clock bound. A call is sent
(`Send`), processed by the backend (`Process`) and received later by an action
of the caller (`Activate`, `RenewAccepted`, ...); it may fail at any time before that
(`CallFails`), with the request processed, lost, or left in `late`, from where
`ProcessLate` may apply it at any later time. One process has one call at a time:
the main thread calls only without a live renewal thread
(`recover_role_lease` joins it, `stop` joins it). `stop`'s join has a timeout of
one second more than the request timeout, so it ends after the thread does.

The handlers run one transaction each and are one step: `acquireLease` locks the
row. It reads the database clock before it waits for the lock, which can only
shorten the lease it grants. The insertion of the first row may fail for one of two racing
processes; to its caller that is a failed call.

`TimingAssumption` needs `RequestTimeout <= SafetyMargin`: the answer of a renewal
may be as old as the request timeout when the local deadline is computed from it.
The defaults meet it with equality (5 s, `settings.py:109,112`), but
`validate_config` (`account_config.py:325`) does not compare the two, and the
timeout of `urlopen` bounds each socket operation and not the whole call. The
property `HolderOwnsLease` is false without it.

### TradeExecution

There is no clock here: the role lease is `LeaseAuthority` (so every behaviour of
`RoleLease` is covered), gates expire at any moment, and a process may be slow
anywhere. `flow[p]` is where process p is in `send_buy`, `modify_sltp` or
`close_position_market`; its steps are those functions' coordination calls,
`managed_position()`, `order_send` and the cleanup in `except`, `finally` and
after the result. `gate` and `entry` are the backend rows, `op` and `order` say what
an execution id stands for and what the broker made of its order. A request is handled in one
step, with one exception: `releaseTradeGate` and `completeWeeklyEntry` check the
EXECUTOR row without a lock and update in a second statement, which is
`CheckExecutor` (or `CheckLate`) followed by the update. Processing and receipt of an
answer are one step, since the process does nothing in between and everything that may
happen in between may also happen before its next step.

The broker is external: it executes or refuses an order it was sent, and a
refusal is final. A returned retcode is taken at its word. A position is found by
`managed_position()` from the moment the broker has executed the order; an order
that was only PLACED is not, as in MT5.

`WeeklyEntry` is what remains for a reader who asks only about the week: a holder, the BUYs at
the broker and those it refused. `ImplementsWeeklyEntry` maps a claim to `Claim`, `order_send` of
a BUY to `Place`, the broker's refusal to `Refuse`, a rejected completion to `Withdraw` (the week
is free again) and every other completion to `Settle`; all else stutters. It contains the finality
of a settled week (`EntryIsFinal`), and that nobody but the holder sends a BUY of the week.

### Supervisor

`pc` is where `run` and `reconcile` are; `stopping` is the item `stop_process` waits for,
wherever it was called from. `proc[k]` joins `item.process` with what the process itself
has done: `"exited"` is a process that ended and was not polled yet. The ready files are
a variable of their own, since `reconcile` believes the files and not the processes; a
stop file exists exactly while `stopping = k`. `reconcile` reads its clock once: `seen`
is what that reading says of back-off and ready timeout, `lag` its age, by which
the back-off it writes is too short; `start_process` reads the clock again (`TooEarly`). The items
of the first loop are visited in any order. Time passes only where the supervisor blocks.

A failure of `Popen` in the `try` of `run` leads to a second reconcile in the handler, and
there to the end of the supervisor (`StartRaises`); its processes live on as `orphan` and the
service host launches a new supervisor that does not know them. Other exceptions of
`reconcile` (log, stop and ready files) take the same way. The properties about readiness
and launching are stated for a node to which this has not happened (`~died`): TLC
finds that an orphan, which keeps the ready file and the role lease of its key, makes a
supervisor start its key again and again without back-off, and the later keys never.

### ServiceControl

`row` is `strategy_supervisor_nodes` with the age of `last_seen_at`, `desired` and
`events` the desired state and its request events. `HandleHeartbeat` is the heartbeat's
transaction with its two conflicts (another node of the role, another role on the machine)
and the assignment it returns; `HandleLate` is one whose sender gave up. Of a
supervisor `run` is kept: wait, heartbeat, `reconcile`, stop; `assigned` is the time
`assignments_fresh` will still say yes. A `reconcile` decides first and then takes up to `StopTime`, whatever it has
decided: one that keeps or starts this process may be busy stopping those of other accounts. `StopTime` is therefore the
time of all the stops of one reconcile and not of one. `unwanted` is no state of the code: it counts how long
a node that the backend does not want has gone on, that is, has its process running or may still start it (`GoesOn`).

`UnwantedNodeStops` is what ADR 0006 promises, with a bound: `HandBackTime`, the sum of an old answer on its way, the
time to live it gives, a reconcile that keeps the process but is busy with others, a poll, a heartbeat that fails and the stop. It does not say that two
nodes never run at once. With the defaults (poll 3 s, request 8 s, TTL 15 s, stale after
20 s) a master that is cut off is stale to the backend before its own assignment has
run out, and the backup starts; for that time, which the bound limits, both have the
process, and the role lease decides which of them works.

### EntryRules

`taps`, `on` and `revision` are the control events and the controls; `outcome` and `recorded` the week
states and their events; `cache` is the context of `refresh_entry_rule_context`, `call` the
outcome under way to `recordWeekState`. `SetRule` and `RecordWeekState` are the two
transactions. `Consider` is `maybe_open_new_week` from the refresh to the decision, `Answered` what follows
the answer. The market is the set of rules it speaks against; the arithmetic that
yields it is left out, and so are inputs that are missing, which make the executor wait.

A fact the properties have to respect: `refresh_entry_rule_context` returns the context it has
for the rest of an interval, even when the refresh that began the interval failed, and nobody compares
the `weekKey` of the context with the week. In the first interval of a week an executor that
could not reach the backend may therefore act on last week's `ENTRY_APPROVED`
(`docs/STRATEGY_SPECIFICATION.md:34` wants a missing backend authority never to permit a BUY). `told` records from
which week's context a decision comes, and `EntryWasApproved` and `OutcomeFollowsControls`
speak of decisions with `told = week`.

### PositionLifecycle

`file[n]` is `StrategyState` on node n, as far as it steers anything: identity, latch, deferred exit,
OR5 authorisation, hard stop, confirmed protection, break-even, the days of the open and the close action. `pc` is
where `startup_reconcile` or the cycle of `run_executor` is, `snap` the
position that stage works on, `call` the broker request it is about to send. A step ends where
the code talks to the broker, and the world moves only before a step that looks at the broker: prices,
closing deals, what the operator does, the death of the process. `trigger` is what
`strategy-controls.php` keeps per position; a move of the executor to the other node is a `Start` there.

| Actions | Code |
|---|---|
| `Start`, `Suspend`, `AbortCycle`, `Crash` | `startup_reconcile`, the exception handlers of `run_executor` |
| `CycleTop`, `LookAgain`, `Finalize` | the two looks at `managed_position` in a cycle, `finalize_closed_position` |
| `NewBar`, `OpenAction`, `CloseAction`, `RegularBar`, `BreakEvenExit` | BEPRE, PRE H, BEO; OH; CH, TO; OR5; BH |
| `AuthorizedOr5`, `ApplyStandardProtection` | `maybe_execute_authorized_or5_exit`, `apply_standard_protection` with the deferred TSL1PRE exit |
| `ModifySend`, `SellSend`, `Buy`, `NoEntry` | `modify_sltp`, `close_position_market`, the entry |

Abstractions: prices are whole numbers with ask = bid; an instant is a day and one of four slots, and
every weekday is a session; one position is open at a time; the hard stop, whose
computation needs leverage and balance, is any of `HardPrice`; `active_sl_reason` is not kept, so that under a deferred exit
`ApplyStandardProtection` may take the branch of the trailing stop or not. Of a partly filled exit only the deal
is modelled: the history may show a SELL deal of a position that is still open (`DealAppears`). Not modelled: the volume that is left, the
carry-over of a position into the next week, the labels of SL and TP exits, and the details of the `EXIT_FILLED`
deduplication (they are in `Publishing`). The revision check of
`recordPositionRuleTrigger` for OR5 is a request that may fail.

What the properties leave out is what the code does:

- A position that appears between the two looks of a cycle is worked on with the latch of the earlier one, and
  is adopted, and its hard stop priced, in the next cycle. The properties speak of positions the file
  names.
- `exact_broker_exit_deal` (`position_lifecycle.py:584`) takes the latest SELL deal of the position and does not ask whether it
  closed it. `EntryWaitsForClose` asks for a SELL deal of each position the node's file has named, which is less
  than the docstring of `finalize_closed_position` says.
- State files are per node: `EntryWaitsForClose` and `ExitStaysLatched` speak of one node's file, and a failover
  carries over only what the backend has recorded (`RuleExitIsAuthorised`). A position displaced in the file by
  another is not waited for (`lost`).
- `ModifySend` sends what it computed from `snap`. A stop the operator raised since then is
  lowered again, so `ProtectionOnlyTightens` compares with `snap`.
- The first correction of an unconfirmed stop may go down
  (`test_first_post_fill_pass_may_correct_provisional_stop_downward`).

### Publishing

`queue` is the event deque of the executor's `MobileMonitorPublisher`, `life` its worker;
`call` holds the request of each worker and one that was given up. `Take`, `Requeue`, `GiveUp`, `Stop`,
`Crash` and `Restart` are the worker; `BeginIngest`/`CommitIngest` the transaction of
`ingest.php`, cut where it has read what is known of a close; `StoreEvents` the one of
`events-ingest.php`. `trades` says how a position is recorded: open, closed with a price or label the
events may replace, or closed with the exact fill. A request may show any position the account
has had: this covers every order in which the snapshot queues are emptied, purged and
refilled, and it includes a stale snapshot put back over a newer one.

With `Overlap = FALSE` the two transactions follow each other; `publishing_overlap` has the
code as it is. What holds in the code and no property contradicts: a crash between saving
`last_exit_deal_ticket` and sending `EXIT_FILLED` loses the event (`Crash` sets `filled`); a position replaced by another
between two accepted snapshots is never marked closed; after a stale snapshot the current projection
goes back, and the ledger repeats a transition; a batch that goes back into a full deque displaces
the newest events; the label of a TSL exit is kept when the closing reason arrives (`labelled`).

### LeaseAuthority

The promise between the lease protocol and its users: a view (the token a process may act under, or 0) is
adopted only from the active row and never survives it.

## 3. Runs

| Run | Configuration | Bounds | Shows |
|---|---|---|---|
| `role_lease` | `MCRoleLease.cfg` | 2 processes, Ttl 6, heartbeat 1, retry delay 0, margin 1, request timeout 1, 1 abandoned request in the network, 3 faults; `FairSpec` | `TypeOK`, `HolderOwnsLease`, `TokenIsExclusive`, `TransientFaultsTolerated`, `ImplementsAuthority`, `LeadershipSettles` |
| `trade_execution` | `MCTradeExecution.cfg` | 2 processes, 2 execution ids in one week, BUY and SELL, 2 lease tokens, 1 fault; `FairSpec` | `TypeOK`, `OneOrderPerWeek`, `EveryOrderIsRecorded`, `ResultsAreTrue`, `GateTokenIsExclusive`, `HolderKeepsGate`, `ImplementsWeeklyEntry`, `ClaimIsResolved` |
| `trade_fence` | `MCTradeExecutionFence.cfg` | no faults | a counterexample to `OrderSentUnderFence` |
| `entry_rules` | `MCEntryRules.cfg` | 2 nodes, the market speaks against nothing or against GAP_MOMENTUM and Tuesday's normalization, 1 switch and 2 changes of it, 3 entry windows (Monday, Tuesday, Monday), 2 lease tokens, 1 fault | `TypeOK`, `ControlsMatchAudit`, `EntryWasApproved`, `OutcomeFollowsControls` |
| `position_lifecycle` | `MCPositionLifecycle.cfg` | 2 nodes, a strategy and a manual position, 3 prices, 2 hard stops, 4 instants; 1 price move, 2 events | `TypeOK`, `RuleExitIsAuthorised`, `HardStopPricedOnce`, `ProtectionOnlyTightens`, `ExitStaysLatched`, `EntryWaitsForClose` |
| `position_intent` | `MCPositionIntent.cfg` | the same with the Friday close action and 1 event | a counterexample to `IntentStaysRetryable` |
| `publishing` | `MCPublishing.cfg` | 2 positions, a buffer of 3 events, 1 fault, transactions one at a time | `TypeOK`, `CloseConverges`, `EventsSurvive` |
| `publishing_overlap` | `MCPublishingOverlap.cfg` | 1 position, no faults, overlapping transactions | a counterexample to `CloseConverges` |
| `service_control` | `MCServiceControl.cfg` | 2 masters and a backup, one master on the backup's machine, 1 request id; times in units of about 10 s: request timeout, TTL and the stops of a reconcile 1, stale after 2, no pause between polls | `TypeOK`, `UnwantedNodeStops` |
| `supervisor` | `MCSupervisor.cfg` | 2 keys, the second may crash at any time; 2 failures of `Popen`; times below; `FairSpec` | `TypeOK`, `ReadyFileIsTrue`, `OneConnects`, `OnlyAssignedRun`, `AssignedIsLaunched`, `UnassignedEnds` |
| `supervisor_starvation` | `MCSupervisorStarvation.cfg` | 3 keys, starts may fail or hang, no crashes of ready processes; `FairSpec` | a counterexample to `FailuresBlockNobody` |
| `supervisor_expiry` | `MCSupervisorExpiry.cfg` | 2 keys, no crashes | a counterexample to `NothingStartsExpired` |

Why the bounds are enough. For the lease: the conflicts are between a holder and one
contender, a renewal and one stale request, and between deadlines whose order, not
length, matters; Ttl 6 leaves room for a heartbeat, several failed renewals and the
margin; three faults let two renewals and a release go wrong in one behaviour.
Larger instances (three processes; Ttl 7, heartbeat 2, retry delay 1, margin 2, request
timeout 2) were run once and agree. For trades: a takeover needs two tokens, a
double order two executions of one week; one fault is a lost claim or completion, a crash, or a late
request, and the other process may be slow anywhere without one. SLTP follows the same steps as SELL and is
in the constant `Kind` but not in the run. Their safety
properties are proved for all values of the constants (section 5).

For the entry rules: a deferral needs Monday and Tuesday of one week and the cached context of
a week a window of the next; one switch that is turned off and on again gives two revisions under
which the same market leads to different outcomes; two tokens give an outcome recorded by
either node. GAP_MOMENTUM is the rule with the longest way, by a deferral.

For the position: the instants are Monday premarket, Thursday premarket (the trailing stop applies from
there on), the close action of Thursday and Friday premarket; the prices are below, just above and well
above the trailing stop, so one move crosses it; two events put, for example, a
crash or an aborted cycle together with a move to the other node, a partial exit or an act of the operator. A
second position is what adoption, displacement and a wrong latch need. For publishing: two
positions are what a stale snapshot and a repeated event need, and a buffer of 3 overflows with the four
events of two positions. For service control: the two conflicts need a second master and a shared
machine; the times are those of the defaults (poll 3 s, request 8 s, TTL 15 s, stop up to 25 s, stale after 20 s) in units of
about 10 s, where every wait but the poll's takes time.

For the supervisor: the times are in units of about 10 s to 30 s and keep the order of the defaults
(poll 3 s, restart delay 5 s, request 8 s, assignment TTL 15 s, stop up to 25 s,
back-off 60 s, ready timeout 150 s) where it decides something: a stop outlasts the TTL and
an attempt outlasts the back-off. Two keys show every conflict over one start; the
starvation needs a third. A key whose ready process may crash is the lower one in
`supervisor`, since of the higher one `AssignedIsLaunched` is false (next section).

`MaxFaults` bounds lost or abandoned calls, crashes, pauses and unknown broker
results together; `MaxToken` bounds lease acquisitions in `TradeExecution` and `EntryRules`; `Slot`
bounds the abandoned requests in the network at once; `MaxRaises` bounds failures of `Popen`;
`MaxTaps`, `MaxClock`, `MaxMoves`, `MaxEvents`, `Instant` and `MaxTrades` bound what their modules
say. Token counters of `RoleLease`
are bounded by what the processes can do before they end.

The nodes are symmetric in `entry_rules` and `position_lifecycle`, which check no liveness. Deadlock
checking is on where the system never stops: time always passes or a process
can act in `RoleLease`, `Supervisor` and `ServiceControl`, and the environment can always move in
`TradeExecution`. It is off in the runs of `EntryRules`, `PositionLifecycle` and
`Publishing`: the entry windows, the instants and the positions are bounded and run out.

### Divergences

`docs/CURRENT_ARCHITECTURE.md:82` says that "Fencing tokens protect actions after
takeover." The tokens are checked at the backend by `validate_trade_gate`; the
broker does not know them, and `order_send` follows without a further check
(`broker_execution.py:1297-1301`). `trade_fence` shows the consequence: a process that
is slow at that point sends an order after another process has taken the
lease over. What does protect the account there is the weekly entry: `OneOrderPerWeek`
holds in the same behaviours.

`docs/CURRENT_ARCHITECTURE.md:86` says that the supervisor "applies bounded per-role
timeout/backoff so one failing account does not indefinitely block the others."
`supervisor_starvation` shows two keys that fail (the EXECUTOR and the PUBLISHER of one
account) taking turns for ever: an attempt may take 150 s and the back-off is 60 s, so when one
attempt ends the other key is eligible again and is earlier in `startup_order` than the third
(the PUBLISHER of another account). The same property is false with two keys
and `Crashing = {1}`: a process that ends right after it was ready, for example by an
exception of `startup_reconcile` (`runtime.py:287`), has no failed start, so no back-off, and
is chosen again at every poll.

`docs/decisions/0006-two-node-windows-supervision.md:16` says that a supervisor that cannot
refresh its assignments "starts nothing and stops managed children after the bounded
assignment TTL." Freshness is asked once before a reconcile, and the reconcile may block
in `stop_process` for longer than the TTL before it starts something (`supervisor_expiry`).

`docs/STRATEGY_SPECIFICATION.md:46` says of the deferred TSL1PRE exit that a "broker rejection, restart,
failover, or later price recovery cannot cancel that intent; the market SELL remains
retryable until the position closes." `close_position_market` writes its own reason over
`exit_latched_reason` before it sends (`broker_execution.py:1503`). When another exit, for example
CH, is tried while the deferred exit waits and the broker refuses it, the latch keeps the other reason, and
`maybe_execute_pending_market_exit` (`broker_execution.py:502-506`) returns without sending from then on:
`position_intent`.

`authority.php:234` says that the projection "must converge on an exact market-exit fill even when a
publisher's flat snapshot reached ingest.php first", and
`docs/decisions/0024-exact-exit-fill-projection-authority.md:17` says it of every delivery order. The
two transactions lock no common row: `ingest.php` finds no `EXIT_FILLED` stage (line 314), `events-ingest.php`
stores it and repairs nothing as the trade is not closed yet, and both commit. The trade keeps the
provisional exit, and the event was acknowledged and is not sent again: `publishing_overlap`. One
transaction at a time, the promise holds, and is proved (`ProjectionConverges`).

## 4. Fairness

`RoleLease!FairSpec`: time passes (strong fairness of `Tick`, since a due renewal may
disable it again and again), the backend answers a request it has received, the renewal thread and the
main thread go on with what they are doing. Nothing obliges a process to start, to
be stopped, to crash, or the network to deliver an abandoned request. `Recovery` is
weakly fair as a whole, as `recover_role_lease` is one loop without a
bound on its retries. `Supervisor!FairSpec`: the supervisor's thread goes on, time
passes, and a heartbeat and a stop end (`urlopen` has a timeout, the stop ends in a kill);
the processes, the backend and the service host owe nothing. `TradeExecution!FairSpec`: a process goes on with the
operation it has begun; nothing is assumed of the lease, the gate's expiry or the
broker. The other modules state safety only and no fairness: what must eventually happen there
depends on a market, an operator or a backend that owe nothing, and
`UnwantedNodeStops` states its promise as a bound on time.

## 5. Proofs

`LeaseAuthorityProofs`: `LeaseViewIsCurrent`, by induction on the abstract lease; from it
`OneBeliever` and `DropsAreSingle`.

`RoleLeaseProofs`, for any set of processes, any number of faults and abandoned
requests and any times that satisfy `TimingAssumption`:

- `RoleLeaseType`, `HolderOwnsLeaseAlways`, `TokenIsExclusiveAlways`,
  `TransientFaultsAreTolerated`, `RoleLeaseImplementsAuthority`; `TokenGrowsAlways`, which no run checks because
  `ImplementsAuthority` contains it.
- `HolderOwnsLease` is not inductive: it must be known where each local deadline came
  from. The invariant `IInv` (`RoleLeaseInvariant`) adds `AnswerInv`, that while a granted
  answer is on its way the row is the caller's with at least `Ttl` less the age of the call;
  `HolderInv`, that a holder's row has at least its local time less the margin;
  `CallInv`, that a renewal under way carries its caller's token and a release is the
  caller's last request; `LateInv`, that an abandoned release was sent by a process that
  has ended; and `PhaseInv`, that a process that has not started or has ended renews nothing.
- `TokenIsExclusive` rests on `TokenInv`: known tokens are at most the row's, the row's
  is known to its owner only, and no two processes know the same one.
- `TransientFaultsTolerated` rests on `Steady`: while the faults so far are tolerated, no process has been
  suspended and one in its main loop is `Working`, that is, its renewal is on time (what is left until
  its local deadline and what the faults have cost cover a TTL and the wait ahead) and an answered renewal has been
  granted, because `HolderInv` makes it the row's owner when the backend processes it. The theorem uses
  the last conjunct of `TimingAssumption`: a failed attempt takes time (`_renew_worker` waits at least 0.1 s).
- The refinement maps a step of the protocol to a `Grant`, `Adopt`, `Drop` or
  `Lapse` of `LeaseAuthority`, or to a stutter.
- `OneHolder` (mutual exclusion) follows from `HolderOwnsLease`; `RequestsMayBeRepeated` says of the
  three handlers, for every row and request, that a repetition changes nothing.
- `LeaseServesTrades` sharpens the refinement to the processes' tokens: a step is `Grant`, `Adopt` by a process
  in start() or recovery (or of the token it already has), the `Drop` of one process, `Lapse`, or a
  stutter. Its hypothesis `SafetyMargin + Heartbeat < Ttl` is what `validate_config` demands
  (`account_config.py:328`); with it an answer in time always makes its process a holder.

`TradeExecutionProofs`, for any sets of processes, executions, weeks and kinds and any bounds:

- `TradeType`, `AtMostOneOrder`, `OrdersAreRecorded`, `RecordedResultsAreTrue`,
  `EntriesAreFinal`, `GateTokensAreExclusive`, `HoldersKeepGates`, `TradeExecutionImplementsWeeklyEntry`, `HandledTwice`.
- The invariant `IInv` consists of `TypeOK`; `FlowInv`, what a process at each step
  knows of its execution, its claim and its order; `CallInv`, that an outstanding
  request was sent from the step its process is in; `LateInv`, that an abandoned
  completion or release comes from an execution that will not send any more, and a completion tells the truth about
  it; `EntryInv`, what each status says of the order of its execution; and `FreshInv`, that
  an execution id that was not created has no order. `OneOrderPerWeek`,
  `EveryOrderIsRecorded` and `ResultsAreTrue` follow from it.
- `GateInv` says that the gate tokens processes hold are at most the row's, and that the
  one equal to the row's is held by the row's owner; the theorem about tokens follows. `HoldersKeepGates` needs `LateInv` as
  well: of the steps that change the gate (`GateSource`), an acquisition is refused while the row is active, and a
  release carries the execution id of a retired execution, not the holder's.
- The refinement to `WeeklyEntry` maps `holder` to the execution of a claimed or final entry (`HolderOf`)
  and the BUYs of a week to those the broker has, split by refusal. It uses `IInv` only: `FlowInv` shows that
  a process that sends holds its week, and `LateInv` with `EntryInv` that a late completion withdraws a week only while
  its holder has nothing at the broker.
- `HandledTwice` says of every handler of gate and entry that a repetition at once changes nothing and has the same answer.

`SupervisorProofs`, for any number of keys and any times:

- `SupervisorType`, `ReadyFilesAreTrue`, `AtMostOneConnects`, `OnlyAssignedAreAlive`.
- `OneConnects` is not inductive. A start is right because next_start_key sees a process that
  is running without a ready file, so the ready files must be true (`ReadyFileIsTrue`),
  and because it looks at assigned keys only, so nothing else may be alive when it is asked
  (`Swept`). `Ended` says that a supervisor that is off has no process and
  `LeftBehind` that orphans come from one that died.

`EntryRulesProofs`, for any nodes, markets, switches and bounds:

- `EntryRulesType`, `SwitchesMatchAudit`, `EntriesApproved`, `OutcomesFollow`.
- `EntryWasApproved` is not inductive: `Acting` says that a node that is about to buy has a context that
  approves, and that an approving context is on record as long as it is of its
  week.
- `OutcomeFollowsControls` rests on `ControlInv`: a request that carries the revision the backend
  has now was decided from the switches the backend has now, and a deferred decision from a week that is deferred.
- `OutcomesMatchEvents` rests on `HistoryInv`, a statement about `strategy_entry_rule_week_state` and its
  event table: every outcome is that of a recorded decision, no recorded decision contradicts it but the deferral
  it replaced, and no id stands for two decisions. `OutcomesAreFinal` and `RecordingTwice` are what repetition and
  late requests can not break.

`ServiceControlProofs`, for any nodes, machines and times:

- `ServiceControlType`, `NodesHandBack`, `OverlapIsBounded`, `SeatsAreKept`, `MachinesHaveOneRole`.
- `HandBackInv` bounds, for each place a node can be in, how long it may already be unwanted: what
  is left of its request, of its assignment and of the stops its reconcile is busy with adds up to at most `HandBackTime`.
- The rows name one node of each role, so the bound says what overlap is left: two nodes run together only while one of them
  hands back, or while the backend, which hears nothing from the master, lets the backup run (`OverlapIsBounded`). The
  leases decide then. `SeatsAreKept` and `MachinesHaveOneRole` are the conflict checks of the
  heartbeat, as promises about the rows over time.

`PublishingProofs`, for any number of positions, buffer size and faults:

- `PublishingType`, and `ProjectionConverges` under `Overlap = FALSE`.
- `FoundInv` says what the open transaction has found of the close it is going to record, compared with what
  is stored; it holds because no event is stored before it commits. `OpenInv` says that at most one
  transaction is open.
- `EventsAreNotLost`, with overlapping transactions too. `UnsentInv` says that no event is pending twice, in the buffer
  or in the batch under way, so that a buffer that drops an event really holds its size of distinct events, and
  that the events of a request the backend has stored are in the store.
- `BatchesCommute` says of the repair that `events-ingest.php` makes that order and repetition of batches do not matter; it is
  the reason why the queue need not deliver in order.
- `ProjectionFollowsEvents`, under `Overlap = FALSE`, goes beyond convergence: what a closed trade shows is a function of the
  stored events (exact if and only if the fill is stored, not provisional once the reason is). `ReasonInv` is its invariant.
- `ClosedTradesStayClosed` and `ExactExitsAreReal`, with overlapping transactions too, and `ExactExitsAreFinal` without them:
  what is left of convergence in `publishing_overlap` is that nothing is reopened or invented. `KnownInv` says that
  an exact exit rests on a stored fill and that an open transaction which read one knows its event; `ReportedInv` that
  every event on its way or stored has happened.

`PositionLifecycleProofs`, for any nodes, positions, prices, instants and bounds:

- `PositionLifecycleType`, `HardStopsPricedOnce`, `LatchedExitsStay`, `StopsOnlyTighten`, `EntriesWaitForCloses`, and
  `RuleExitsAuthorised` for accounts with `Delayed = TRUE`: without the deferral a TSL1PRE exit is sent
  before its trigger is recorded.
- Every decision of a stage has one shape (`Decided`): it saves a state, and goes on, sends an exit or sends
  stops. One lemma per stage says of what kind the saved state is; each property then needs
  one argument per shape and not one per stage.
- The invariants: `TypeInv` (the types, and that identifiers, files and triggers agree); `SellInv`, the exit under way
  has the recorded reason; `OneAtATime`, a cycle works on another position than the file names only when the
  named one is no longer open; `Managed`, what a node tracks is visible, displaced or named by its
  file; `StopInv`, the stop at the broker is below the bid, not below the one seen, and the
  request not below that once protection was confirmed.
- Around the divergence of `position_intent` it is proved what does hold: nothing takes a deferred exit or an
  OR5 authorisation back, or postpones it, while the file names the position (`IntentsAreKept`); it belongs to that
  position, has latched an exit and is on record with the same instant (`IntentsAreRecorded`, by `Authorised` in `TypeInv`);
  and the latched reason changes only with a market exit that is sent for another one
  (`LatchesFollowExits`). So the interrupted retry has that one cause.

The assumptions are those of the modules (`TimingAssumption`, `OwnerAssumption`,
`NoneIsNotAProcess`, `TradeAssumption`, `NoneIsNotAnOperation`, `SupervisorAssumption`, `BoundsAssumption`,
`PositionAssumption`, `PublishingAssumption`, `ServiceAssumption`, and `NoneIsNotACall` and `NoneIsNotARequest`, that
no outstanding call is mistaken for none); TLC evaluates them in every run.

Only model-checked: the liveness properties `LeadershipSettles`, `ClaimIsResolved`,
`AssignedIsLaunched` and `UnassignedEnds`, which are out of the prover's reach. Every invariant,
action property and refinement of the passing runs is proved. `UnwantedNodeStops` bounds the hand-back by
`HandBackTime`; that this is shorter than the time after which the backup takes over is a matter of the configured
times and not stated.

## 6. Not modelled

The components with status `not_modelled` in `PROJECT.json`, with the reason for each:

- Device sessions share no state with the trading protocol; their transactions touch one row each.
- Retention is a batch an administrator starts by hand.
- The read-only API, the analytics cache and the Android application only read what is stored here.
- The session calendar, the strategy arithmetic and the monitoring payloads are functions without state of
  their own, on floating-point numbers and text; the modules take their results from small sets.
- The backtests and research scripts (`src/backtest`, more than a third of the Python code) are
  offline programs over price files, and the tools build, check and release; neither is part of the running system.

Within the modelled components: the content of requests beyond what the
handlers compare, HTTP and JSON, authentication, logging, sizing
and price computation, `request_allowed_now` and the AutoTrading checks (they only
prevent an operation from starting), the dry-run mode, the read-only cycle and the weekend mode of the
publisher process, cash flows, market points and decisions in `ingest.php`, and the push after
`events-ingest.php`.
