# Verification of the Gateway

TLA+ models, TLC runs and TLAPS proofs for the Flask/Socket.IO Gateway in
`backend/`. The Gateway keeps its state in SQLite and in the memory of one
worker process; it talks to Masters and Nodes (ESP32 devices, whose firmware is
not in the repository) over HTTP and MQTT, and to operators through dashboard
routes. What can go wrong here is rarely inside one function: it is a restart
between two commits, a poll that works on a row read before a lock, an ACK of
yesterday's round, a receipt stored after the effect it protects.

## Inventory

| Component | State it keeps | Operations | Hard behaviour | What makes it correct |
| --- | --- | --- | --- | --- |
| Command store (`command_manager.py`) | tables `commands`, `command_delivery`; `_DEVICE_LOCK` | create, claim for dispatch, ACK, response, cancel, sweep, retry | several commits per handler; unlocked readers; crashes; deadlines | bounded packets, honest and final outcomes, everything settles |
| Device exchange (`device_api.py`) | `nodes`, `device_receipts`; offers in flight | `ingest`, `pending_commands`, enrolment | lost, duplicated, reordered packets; receipt committed after the effects | each message has its effect at most once; a duplicate is answered as one |
| Device (`device_simulator.py`; firmware external) | cache of 32 requests | execute, replay the cached ACK/RESPONSE | restart loses the cache | no second execution while the cache holds |
| Broker switch (`mqtt_store.py`) | active, pending, rollback configuration, state, decision, revision | stage, test, confirm, commit, cancel, recover | two parties, deadlines, crash at any step, compare-and-swap | never both configurations, a committed decision is completed |
| MQTT service (`mqtt_service.py`, `mqtt_adapter.py`) | incoming, outgoing, pending, receipts, chat outbox | publish, broker callbacks, handle, drain | bounded queues, callbacks on another thread, retries | nothing acknowledged is lost; states only advance |
| Transport switch (`transport_switch.py`) | one document per device | prepare, apply, probe, confirm, cancel | each step is a command that may time out; crash between command and document | a device is never left on a transport nobody confirmed |
| Local IP (`local_ip.py`) | challenges, listener | challenge, authenticate, configure | expiry and reuse of a nonce; failed restart | a challenge is used once; a failed change is rolled back |
| Mesh (`communication_manager.py`, `packet_manager.py`, `mesh_manager.py`, `routing_manager.py`) | in-memory queues, pending ACKs, routes, duplicate window | send, relay, receive, retry, expire | threads without locks, bounded deques, stale routes | delivered or reported, at most once |
| OTA and firmware (`ota_manager.py`, `firmware_manager.py`) | jobs, releases, device rows, directories | upload, approve, activate, retire, check, create, report | check-then-insert races, unguarded updates, an upload that fails half way | one active job per node, one active release per channel, rows with files |
| Chat (`chat_manager.py`) | messages and their delivery states | send, deliver, read, fail | events out of order from two transports | states only advance |
| Accounts and sessions (`account_settings.py`, `account_sessions.py`) | accounts with versions, sessions | sign in, touch, expire, revoke, change | revocation racing a request | no session survives a revocation, one creator remains |
| Profiles (`mqtt_profiles.py` and neighbours) | catalogue with a revision | add, replace, activate, remove | compare-and-swap, crash between file and table | the active profile exists |
| Backup and runtime (`backup_manager.py`, `gateway_runtime.py`, `runtime_lock.py`) | archive, restore marker, lock file | back up, restore, roll back, start, stop | crash in a restore | old or new data, never a mixture |
| Nodes, sensors, telemetry, configuration | tables | report, sweep, enable, delete, save, graph | every function has its own connection; a sweep works on old rows | a silent node is shown offline, readings keep their parameter |
| Dashboard, deployment, legacy simulator | none the Gateway relies on | | | |

Interaction: operators and devices call Flask routes (threads of one process);
routes call managers; managers commit to SQLite; MQTT callbacks arrive on the
client's thread; one heartbeat thread sweeps deadlines every second; a restart
keeps the tables and files and loses everything in memory.

## Modules

| Module | Models | Composes | Proofs |
| --- | --- | --- | --- |
| `CommandLifecycle` | the command store and its routes | implements `CommandPromise` | `CommandLifecycleProofs` |
| `MqttSwitch` | the broker switch, its threads, the Master | implements `MqttSwitchPromise` | `MqttSwitchProofs` |
| `DeviceExchange` | `ingest`, receipts, the device | takes the steps of `CommandPromise` | `DeviceExchangeProofs` |
| `TransportSwitch` | the transport document and its commands | its commands keep to `CommandPromise` | `UpdatesProofs` |
| `FirmwareReleases` | the release catalogue | `Firmware` (what both firmware modules share); implements `ActiveReleases` | `FirmwareReleasesProofs` |
| `OtaJobs` | checks, jobs, the device's row | takes the steps of `ActiveReleases`; implements `JobPromise` | `UpdatesProofs` |
| `MeshTopology` | masters, links, settings, routes | | `MeshDeliveryProofs` |
| `MeshDelivery` | packets, ACKs, retries, duplicates | EXTENDS `MeshTopology` | `MeshDeliveryProofs` |
| `ChatMessages` | chat rows, outbox, queue, callback | | `RecordsProofs` |
| `SensorRecords` | parameters, graphs, readings | | `ServicesProofs` |
| `NodeRecords` | a node's row and its status | | `RecordsProofs` |
| `BackupRestore` | archives, the restore marker, the server's lock | implements `RestorePromise` | `ServicesProofs` |

`MCCommandLifecycle`, `MCMqttSwitch` and `MCDeviceExchange` instantiate one module
each. `MCUpdates`, `MCServices` and `MCRecords` hold several that share no variable:
a behaviour picks one of them in its first state and the others stay where they are,
since their interleavings would only multiply states that no property relates.

Two promises are where components meet. What `CommandLifecycle` implements
(`KeepsPromise`) is what `DeviceExchange` (`StoreKept`) and `TransportSwitch`
(`StepsKeptInStore`) assume of their commands: each is proved to take no step that
`CommandPromise` does not allow. What `FirmwareReleases` implements (`CatalogueKept`) is
what `OtaJobs` assumes of the releases on offer.

What the plan has left: the bounded queue of incoming MQTT packets with the receipts
of the uplink (`mqtt_service.handle`), and abstract specifications of chat and of the mesh.

## CommandLifecycle

Models `command_manager.py`, the polling side of `device_api.py`
(`pending_commands`, cancel-queued, `COMMAND_ROUTE_FAILED` in `ingest`), and the
command routes and the heartbeat of `server.py`.

**State.** `commands` and `delivery` are the two tables, one row per command
(`ABSENT`: not inserted yet; `expiresAt = NoTime`: no delivery row). `sent`,
`ack`, `executing`, `responded` stand for the timestamp columns being set; the
timestamps that are compared (`timeout_at`, `expires_at`, `last_attempt_at`,
`response_deadline`) are kept. `error` keeps the texts that properties tell
apart. `txn` is the handler that holds `_DEVICE_LOCK` and the commit it does
next; `due` the rows `check_timeouts` has selected and not handled; `marking`
the `mark_command_executing` calls between their two writes; `offers` the claims
whose packet is not built yet; `sends` counts packets (history).

**Actions.** One action is one committed transaction. A handler that commits
once is one action (`Create`, `Cancel`, `CancelQueued`, `RouteFailed`,
`SetState`, `TimeoutNow`, `SweepHandle`, `ClaimExpires`, `RefuseOffer`). A
handler with several commits is a chain through `txn`:

| Handler | Chain |
| --- | --- |
| `claim_device_dispatch` | `Claim` (attempt) → `ClaimMarksSent` if it was QUEUED → `ClaimExtends` (deadline := expiry; the caller gets True) |
| `process_command_ack`, affirmative | `AckBegin` (response deadline, once) → `AckFields` → `AckMoves` |
| `process_command_ack`, negative | `NackBegin` (ACK fields) → `NackMoves` (FAILED) |
| `process_command_response` | `ResponseBegin` (response_at) → `ResponseMoves` |
| `prepare_command_retry` | `RetryBegin` (delivery row) → `RetryResets` (command row) |

While a chain is open, locked handlers wait (`LockFree`) and unlocked ones run:
`SweepSelect`, `ExecuteBegin`, the packet building of `Offer`. `Crash` may come
between any two commits and loses `txn`, `due`, `marking` and `offers`.
`TryMove` is `update_command_state` inside a handler: a refused transition
raises and writes nothing. A command of an enrolled device is moved by polls,
device reports and the operator's cancel and retry; the routes that set states,
time out and execute refuse it (`protect_device_command_results`), which is why
they are restricted to `Legacy`.

**Left out.** Audit events and results (no property reads them); the late
`INSERT OR IGNORE` of a delivery row when a device is enrolled after its command
was created; `delete_command` (nothing calls it); payload validation, priorities
and the limit of 64 rows of a poll; per-command policies (constants here). Whether a packet
is unsupported or too large depends on its payload and is a free choice
(`RefuseOffer`). `RouteFailed` checks the state and moves it in one step; the
code checks before the lock, which can only overwrite the error text of a
command that has failed in the meantime. A changed state keeps or replaces the error
text as the arguments of `update_command_state` say (`ErrorText`).

**Bounds.** Deadlines are in ticks: Timeout 2, AckTimeout 1, ResponseTimeout 2,
Expiry 3, so that every order of the deadlines that the comparisons distinguish
occurs (an ACK just before and just after `timeout_at`, a response deadline before and
after the expiry). MaxRetries 1 gives two attempts and two rounds, which is
where a refund or an off-by-one shows. The clock stops at MaxTime 6; actions that
store a deadline require that it falls before (`Soon`, and the guard of
`Create`), so the bound hides no expiry. Handler commits take no tick (`Tick`
requires `LockFree`). One crash (MaxCrashes 1) reaches every pair of commits; a
second one finds a state the first could have left. One command suffices for
properties of a single row because handlers of other commands only hold the
lock; the capacity then never binds, and is not what a property is about.

**Fairness.** `WF(Tick)`, `WF(SweepSelect)`, `WF(SweepHandle)` and
`WF(Continue)`: `server_time_heartbeat` runs `check_timeouts` every second for as
long as the process lives, and a thread that holds the lock finishes its
handler. Nothing is assumed of devices, polls or operators.

**Runs.**

| Run | Instance | Shows |
| --- | --- | --- |
| `lifecycle` | one command, enrolled or legacy, a retry, a crash | `WireBudget`: at most 1 + max_retries packets ever; `FirstRoundCancelIsHonest`; `TimeoutReasonIsHonest`; `RefusalsAreFinal`, but for a command whose own refusal a crash cut from its failure; `IndInv` (with the type invariant, `AcceptedHasDeadline`, and `ActiveIsSwept`: the sweep's SELECT finds every active command, at the latest after the longest wait of the policy); `OutcomeIsFinal`; `DoneIsForever`, against the unlocked execute route and arbitrary state updates of legacy commands; `EventuallySettles`; `KeepsPromise` (the abstract specification, with its liveness) |

**Abstract specification.** `CommandPromise` is what the requester sees: pending
until one of four outcomes, success and cancellation final, a bounded number of
counted reopenings, a bounded number of packets over the whole life, and every
pending command settles. `KeepsPromise` instantiates it with
`phase <- PhaseOf`, `rounds <- retries`, `packets <- sends`.

## MqttSwitch

Models the switch to another broker: `mqtt_store.py` (the journal), the threads
of `mqtt_service.py` that drive it, the routes and the start of `mqtt_api.py`.
The Master's side is firmware and external: it is modelled as the Gateway's
checks presume it (it prepares and commits only the next shared revision, echoes
what it has done, and may forget an offer it prepared at any moment).

**State.** `doc` is the row of `mqtt_configuration`: the revision, the shared
revision, the active, pending and previous profiles, and the transaction
(`tx` numbers the `transaction_id`s; `decided` is `decision = COMMIT`).
`tester` is the test thread and what it will do next, `candidate` the second
connection it leaves open, `recovery` the thread of `recover_commit`,
`announcing` a confirmation stored and not yet published, `reloading` a reload
under way. `net` is the set of messages published so far; any of them may arrive
at any time, again, or never, which covers loss, repetition and reordering on
all three connections. A digest identifies a profile at a shared revision, so a
message is a kind and an offer of transaction, profile and shared revision.
`calls` are the calls inside the Gateway that have read the row's revision and
not yet written (`recover`, `committed`): the write is refused when another
thread was faster, as `change` does. The operator's calls bring the revision
themselves and are one action each.

**Actions.**

| Code | Actions |
| --- | --- |
| `stage`, `cancel`, `testing`, `confirm` and their routes | `Stage`, `Cancel` (with the rollback message), `Test`, `Confirm` → `Announce` or `AnnounceFails` |
| `_test` | `TesterPrepares` (reads the pending profile when it runs) → `TesterHears`* → `TesterEnds` (reads the revision) → `TesterStores` |
| the worker's deadline check | `WorkerSees` → `WorkerReads` → `Recover("worker")` |
| `SWITCH_COMMITTED` on the worker's connection, the second one, and that of `recover_commit` | `Hear(t)` → `StoreCommitted(t)` |
| `recover_commit`, `reload` | `RecoveryAsks`, `RecoveryEnds`, `Reload` |
| process | `Crash`, `Restart` (`recover`, then perhaps `recover_commit`), `Tick` |
| Master | `MasterPrepares`, `MasterCommits`, `MasterEchoes`, `MasterDrops` |

**Left out.** Secrets and their references, the reasons of a state, the TLS, subscription
and probe proofs one by one (a test proves nothing without all of them; that
`READY` was received stands for them), the first commissioning (`Init` is a
commissioned Gateway with an idle transaction), the limit of 2^32 revisions, the
authorisation of the Master, a stop of the service other than a crash. One
confirmation is announced at a time. The profile the live client runs with is
not followed: the worker's own `SWITCH_COMMITTED` path commits the journal and
does not reload.

**Bounds.** Two profiles and two transactions (MaxTx 2): the second transaction
is where messages of an old one do harm. TestTime 0 and SwitchTime 1 keep
every order of the two deadlines and the clock (before, on and after each second) within
MaxNow 3; `Test` requires that its deadline falls strictly before MaxNow, so no
deadline is hidden by the bound. One crash reaches every point between two
commits. `Trusted` lets the clock be wrong after a restart (`now < 1700000000`).

**Fairness.** The test thread ends within 50 seconds and stores its result
(`TesterPrepares`, `TesterEnds`, `TesterStores`), the worker's loop goes on
(`WorkerSees`, `WorkerReads`, its `Recover` and `StoreCommitted`), a crashed
process is started again, and the clock advances. Nothing is assumed of the
operator, the network or the Master. The worker enters its loop only after its
first connection to the active broker succeeds; the Master learns of a test
through that loop, so a switch that has become READY_TO_CONFIRM had one. The exception
is a reload that finishes the previous switch only after the next test has succeeded,
and whose first connection never succeeds: the fairness of `WorkerSees` excludes it.

**Runs.**

| Run | Instance | Shows |
| --- | --- | --- |
| `switch` | two profiles, two transactions, one crash | `Agreement`: the two sides use one profile or the Master is ahead by the decided switch; `DecisionHasEvidence`; `SwitchInv` (the inductive invariant, with the type invariant); `DecisionStands`; `KeepsSwitchPromise`; `WaitsAreBounded` |

**Abstract specification.** `MqttSwitchPromise` is the switch without threads,
messages or deadlines: propose, abandon or decide, then the peer moves, then
the Gateway. `KeepsSwitchPromise` instantiates it with
`gateway <- doc.active`, `peer <- master.active`, `proposal <- doc.pending`,
`decided <- InDoubt(doc)`.

## DeviceExchange

Models the packets between the Gateway and one enrolled device: `ingest` and
`pending_commands` of `device_api.py`, and the device as
`device_simulator.py` defines it (`SimulatedNode.receive`). It composes
`CommandPromise`: `phase`, `rounds` and `packets` are its variables, `Submit`,
`Offer` and `Retry` take its actions, `TimeOut`, `Cancel` and `ApplyResponse` settle
as it allows. `CommandLifecycle` implements that promise (`KeepsPromise`), so what
is shown here rests on the command store's promise and not on its deadlines.

**State.** `acked`, `claimed` and `expected` are the columns `ack_at`, `sent_at` and
the payload's `expected_revision`; `offered` and `sent` the packets that may be
delivered at any time, again, in any order, or never, over HTTP, MQTT, local IP or
radio; `revision`, `cache`, `runs` the device; `node` its row of table `nodes`,
`receipts` table `device_receipts`, `stored` the samples stored of each TELEMETRY
packet. `ing` is the ingest that holds `LOCK`: which packet, what the command's
state was when it was read, and how far it is. `evicted` and `forgotten` are
history: what a bounded memory has dropped.

**Actions.**

| Code | Actions |
| --- | --- |
| `create_command`, `pending_commands`, `check_timeouts`, `cancel_queued_command`, `prepare_command_retry` | `Submit`, `Offer`, `TimeOut`, `Cancel`, `Retry` |
| `SimulatedNode.receive` | `Replay` (a cached answer), `Execute` (run, save the answer, send it) |
| `SimulatedNode.status`, `.telemetry`, the Master's `COMMAND_ROUTE_FAILED` | `SendStatus`, `SendTelemetry`, `RouteFails` |
| `ingest`, STATUS and TELEMETRY | `IngestReport` (one transaction) |
| `ingest`, ACK, RESPONSE and EVENT | `BeginAnswer` (the command is read) → `ApplyAck` or `ApplyResponse` (the command store commits) → `FinishAnswer` (row, receipt, commit), or `Refuse` (rollback) |
| process | `Crash`, between any two of these |

The command store does not take `LOCK`: `TimeOut`, `Cancel` and `Retry` may come
between the stages of an ingest, which is what the race properties are about.

**Left out.** Negative ACKs (the simulated device never sends one; the Gateway's side
is `NackBegin` of `CommandLifecycle`), ALARM and DIAGNOSTIC packets, HELLO and
enrolment (`Init` is an enrolled device that has announced itself), the checks of
identities and of the changed payload under a known message identifier (a packet here
is its identifier). The device's window of 60 seconds is a lost packet. Its restart
keeps cache and configuration, which it saves in one file before it answers, so it
is no action. Of the commands only the renaming and the revision guard are followed:
they have an effect on both sides that can disagree.

**Bounds.** Two commands, one guarded by a revision: the smallest number in which
one command's effect invalidates another's and one memory slot is contested.
CacheSize 1, ReceiptWindow 2 (1 in `retries`) instead of 32 and 4096: the
boundary is what matters, and it is crossed. Any two commands run at most 3 times
together (MaxRuns): one of them once, one twice, the second time after its answer was
dropped. MaxReports 1 with MaxCopies 2: a sample stored a second time after its receipt was
deleted. One crash, or one retry: with both the state space leaves the range that can be
checked in minutes; the theorems have both.

**Fairness.** None: an exchange promises nothing about delivery, and what must
eventually happen to a command (`EventuallySettles`) belongs to the command store.

**Runs.**

| Run | Instance | Shows |
| --- | --- | --- |
| `exchange` | two commands, a report, a crash, no retries | `SampleStoredOnce`; `RunsOnce`; `SuccessIsEarned`; `FailureIsHonest`; `RowIsConfirmed`; `SuccessReachesRow` |
| `retries` | two commands, a retry each, no reports | `ReceiptSettles`: a receipt never hides a result that was not applied; `ExchangeInv`; `StoreKept`: answers of an old round do to a command only what `CommandPromise` allows |
| `retry_answered` | the same | a retried command cannot succeed when the device answers from its cache: the Gateway has the receipt of that very packet and drops it |

## TransportSwitch

Models `transport_switch.py`: the document that a device's switch between MQTT and
local IP leaves in table `transport_switches`, and the command each step becomes.

**State.** `transport` is the document (transaction, state, last action, the command
of each action), `filing` the document between `create_command`'s commit and `save`,
`steps` the commands with what their results say, `reported` the settled
transaction that `latest_status` names, `overdue` the transactions whose deadline has
passed by the Gateway's clock. `trial` and `replies` are the Master, which is
firmware: CONFIG_CONTRACT.md (731-748) says how it prepares, tries, goes back and
commits. `cut` is history: transactions of which a request was cut off.

**Actions.** Requests hold one lock and begin with `refreshed`: `Show` (GET),
`Prepare` and `Take` (POST), each of the latter followed by `File`, or by `FilingCut` when
the process ends in between. Commands go as the command store lets them:
`Respond`, `GiveUp`, `RetryStep`. `IngestStatus` replaces `latest_status` by any
report made so far. `Run` and `Lapse` are the Master, which may run a command long
after the Gateway has given it up.

**Left out.** The password, the revision that `prepare` compares, the two
transports by name: whether a probe's result proves the path (`path_verified`,
`gateway_verified_transport`, the ACK) is one bit, `proved`. FAILED, TIMEOUT and
CANCELLED commands are one phase, as `refreshed` takes them alike.

**Bounds.** Two transactions, four commands (a whole switch, or two that are
begun), max_retries 1 as in the code, and one fault: a command is retried or a
request is cut off (`OneFault` in `MCUpdates`; both in one behaviour, 750 000
states instead of 280 000, show nothing else and are covered by the proof).

## FirmwareReleases and OtaJobs

`FirmwareReleases` models the catalogue of `firmware_manager.py` and the upload and status
routes. `releases` is the table (status, and whether an approval is on
record), `files` the releases whose directory holds the binary, `request` what each
thread has done and read. An upload is `UploadCopies` → `UploadChecks` → `UploadInserts` →
`UploadCompletes`, and where it fails `UploadInsertFails`, `UploadUndoes`,
`UploadCleans`; a change of status is `StatusReads` → `StatusWrites`. `ReleaseCrash` may
come anywhere.

`OtaJobs` models `ota_manager.py` and its routes. `jobs` and `devices` are the
tables, `active` the ACTIVE releases (`Activate` and `Withdraw` are the steps of
`ActiveReleases`), `work` what a thread has read. A check is
`CheckBegins` → `CheckStores`; a job `JobReads` → `JobChecks` → `JobInserts`, where
the look for an active job is not in the transaction of the INSERT; a report
`UpdateReads` → `UpdateWrites`. `raced` and `doubled` record overlaps: what
overlapping requests may break is excluded by them and by nothing else.

**Abstract specifications.** `ActiveReleases` is the offer that devices see: a release
takes the place of the one of its line, or one is withdrawn. `CatalogueKept`
instantiates it with `active <- ActiveOnes`, the releases whose row says ACTIVE.
`JobPromise` is the jobs as if every request were one step: created for a device without
an open job, then moved along the table. `JobsAreKept` instantiates it with the tables
and the histories as they are.

**Left out.** Validation of fields, checksums, listings, downloads; versions are ranks.

**Bounds.** Two releases of one line and two uploading threads; two threads and two jobs
of one device, of one release, with at most one overlap, which is enough for the second
job, the late report and the report of an old job.

| Run | Instance | Shows |
| --- | --- | --- |
| `updates` | one of the two, or `TransportSwitch` | `OneActivePerLine`; `RowHasFile`; `OneJobPerNode`; `NoTargetAtRest`; `JobsAreKept`; `CommitIsProved`: a Master stays on the new transport only after a probe of that transaction came back over it; `UpdatesInv`: the inductive invariants, each where its part runs, among them `TransportInv`, that an end the document shows is the Master's (`EndIsTrue`), that earlier transactions have ended (`EarlierHaveEnded`), that a step has one command unless a request was cut off (`StepsAreSingle`) |

## MeshTopology and MeshDelivery

`MeshTopology` is the picture of the LoRa mesh in `mesh_manager.py`, whose functions hold
one lock, and the choice of the next hop in `routing_manager.py`. `select_route` holds no
lock: the threshold, the direct link, the neighbours, the threshold once more and every second
link are read one by one, requests of other threads in between, so each reading is a step
and `choice[t]` is what thread `t` has read so far. A link or a setting that changes
meanwhile is recorded in `outdated`. Scores are left out, so any of the candidates found may be
chosen. `MeshDelivery` adds
`communication_manager.py` and the packets of `packet_manager.py`: `pending`, `item`,
the two bounded queues, the `window` of known ids, what each receiving thread
`held` after its check for duplicates, and the retry `sweep`, which works on copies. A
packet is its routing fields and `sealed`, whether its CRC is that of its content.

| Code | Actions |
| --- | --- |
| `select_route` | `SelectBegins` → `ReadsThreshold` → `ReadsDirect` → `ReadsNeighbors` → `ReadsLimit` → `ReadsSecond`* → `SelectStores` or `SelectFails` |
| `send` | a selection, ended by `Send`, or by `SelectEnds` alone if nothing leaves |
| `receive` | `ReceiveChecks` → `ReceiveHandles` (`Answers`, `Delivers` or `Carries`) |
| `_forward_packet` | `ForwardBegins` → a selection → `Forwards` or `ForwardFails`; or `ForwardDrops` |
| `process_retries` | `SweepBegins` → per entry `SweepSkips`, `SweepGivesUp`, `SweepResends` |
| `clear_queues`, the topology's routes | `ClearQueues`, `ChangeRequest` |

**Left out.** The bytes of a packet (whether one is too large is a free choice, except that
an ACK always is, see Observations), statistics, timestamps. Nothing in `src/` calls
`process_retries` or registers a transport; the sweep may start at any time.

**What is promised of a choice.** `RoutesAdvance` ("Avoid loops", `routing_manager.py:12`) is
not what the code keeps, see the run `looped`. `ChoicesAreRight` is: unless a link or threshold
changed while it read, `select_route` has exactly the candidates (`NextHops`) that the mesh
offers when it decides. `OwnHopsAreReported` confines the rest: a route to itself is stored
only of a node that reported a link to itself, and chosen only under such a change.

**Bounds.** One at a time: every order of changes to three nodes' topology; a choice among
them (a relay needs three), for one source and one direction, under changes of links and
thresholds; and the traffic between two, settings fixed, with one message, a window and queues of
one entry, so that both overflow with the second packet. One thread chooses at a time: a choice
reads nothing that another one writes. The proofs have none of these bounds.

## SensorRecords and BackupRestore

`SensorRecords` follows parameters, graphs and readings through `sensor_manager.py`,
`telemetry_manager.py` and the checks of `sensor_widgets.py`; every function opens its
own connection, so a request that calls two is two actions (`AddInserts` →
`AddGraphs`, `DeleteChecks` → `DeleteRemoves`, `GraphReads` → `GraphCreates` →
`GraphShows`, `SaveReads` → `SaveLooks` → `SaveStores`).

`BackupRestore` follows the files of the data directory through `backup_manager.py` and the
preflight of `gateway_runtime.py`: every file belongs to one of two states of the Gateway,
a backup reads file by file, a restoration replaces file by file under the marker
(`RestoreBegins` → `RestoreSaves` → `RestoreMarks` → `MoveSide`, `ReplaceFile`* →
`RestoreEnds`, or `RestoreFails` and the undoing), may end with its process at any
point, and may be resumed. Archives are numbered by age; the retention keeps the
newest and the one in use.

**Abstract specification.** `RestorePromise` is a Gateway whose data are one content, which
is saved to archives, demanded back while nothing serves, and then replaced as a whole or
not at all. `KeepsRestorePromise` instantiates it with `content` (the data, or, while
there is a marker, what they were when it was set: nobody reads them in between),
`kept <- archives`, `demanded <- marker`, `serving <- running`. It is released
(`void`) once a backup under way met a restoration (`clashed`) or a restoration was undone
(`undone`, what `mixed` shows).

**Bounds.** Two parameters, two threads, one reading each, one request cut off. Two files, one
of them a database with a journal; four archives, two kept: a backup that another process
began can end, and its retention delete an archive, while a restoration needs it. That
is how it can happen (`clashed`): `restore` reads its archive (`backup_manager.py:138`) before
its own backup protects it (`:144`).

| Run | Instance | Shows |
| --- | --- | --- |
| `services` | topology, choices, traffic, sensors or backups | `TakenOnce`; `OneOutcome`; `HistoryHasParameter`; `KeepsRestorePromise`; `ServicesInv`: `MeshInv` (with `RolesAgree`, `ChoicesAreRight`, `OwnHopsAreReported`, `RetriesCounted`), `SensorInv` (with `GraphsFollowParameters`), `RestoreInv` (with `MarkerBlocksMixture`, `InterruptedCanResume`) |
| `looped` | choices | a link that improves between two readings of `select_route` makes a node with a link to itself its own next hop |
| `emitted` | the same | `send` emits a packet whose CRC its receivers refuse: `next_hop` is written after the CRC is computed |
| `mixed` | the same | an interrupted restoration is resumed, fails and is undone: the marker goes and the files are of two states |

## ChatMessages and NodeRecords

`ChatMessages` follows private messages through `chat_manager.py` and the chat parts of
`mqtt_service.py`. `chat` is the status of a row, `outbox` table
`mqtt_chat_outbox`, `queue` and `unacked` the service's memory, and `writing` what
each of three kinds of writers has decided: the worker, the client's callback
and the HTTP threads. `worker` is whether a worker is at its loop, and connected. `chat_state` reads the row and then writes it: `Decides` →
`Writes`, so writers can overlap, which `overlapped` records. Sending is `ChatSend` (the
row) → `ChatCounts` (is there room?) → `ChatQueues` (the outbox entry); the worker
hears, drains (`DrainGivesUp`, `DrainQueues`) and publishes. Operators queue messages whether
or not there is a worker: it gets to its loop with its first connection, is not started without a
profile or the confirmation of the ACL, may be stopped, and in the modes for telemetry and
commands leaves the chat out, which to the chat is no worker (`WorkerStarts`, `OnConnect`,
`OnDisconnect`, `WorkerStops`).

`NodeRecords` follows the rows of `node_manager.py`: a report reads the node and later
writes its status, the sweep for silent nodes reads all rows before it writes, operators
add, change, enable and delete. `last_seen` is compared with the clock by class (stale,
fresh, in the future, or with a UTC offset, which the sweep cannot subtract).

**Bounds.** One message each way, two attempts, one place in the outbox, one message with overlapping
writers, one crash; two nodes, two threads.

**Fairness.** `ChatFairness`: a party that has begun to write goes on and time passes. No
fairness is assumed of starting, connecting or draining as such: only if a worker stays at its
loop from some time on, connected or not, does it turn to every entry that stays due
(strong fairness of `Drains`, as the loop visits the outbox every second between other work;
an entry is due on and off), as long as not every pass ends with a message that the full
queue refuses. `MessagesSettle` has the same antecedent; without it the property is false,
as a QUEUED message without a worker shows (Observations).
`RecordFairness`: a thread that has read writes, and the node list is polled (strong,
as reports may keep the threads busy in between).

| Run | Instance | Shows |
| --- | --- | --- |
| `records` | chat, or nodes | `StatusAdvances`; `MessagesSettle`: once a worker stays at its loop no message waits for ever, not one queued before it ran either; `SilenceShows`: a silent node does not stay online while no node's timestamp has an offset; `RecordsInv`: `ChatInv` (with `DeliveredIsAcknowledged`, `AttemptsBoundPublications`, `WaitingIsScheduled`) and `RecordInv` (with `StatusFollowsSwitch`, `OnlineWasSeen`) |
| `silent` | the nodes | one timestamp with a UTC offset stops the sweep, and a silent node stays online |

## What is proved

### The command store

`CommandLifecycleProofs`, for every set of commands and devices, every policy
and any number of crashes, from `CommandAssumption` and `PolicyAssumption`:

| Theorem | States |
| --- | --- |
| `StoreInvariance` | `Spec => []StoreInv` |
| `Invariance` | `Spec => []IndInv` |
| `TypeCorrect` | `Spec => []TypeOK` |
| `WireBudgetHolds` | `Spec => []WireBudget` |
| `AcceptedHasDeadlineHolds` | `Spec => []AcceptedHasDeadline` |
| `FirstRoundCancelHolds` | `Spec => []FirstRoundCancelIsHonest` |
| `TimeoutReasonsAreHonest` | `Spec => []TimeoutReasonIsHonest` |
| `RefusalsHold` | `Spec => []RefusalsAreFinal` |
| `OverdueIsFound` | `Spec => []ActiveIsSwept`, the safety half of `EventuallySettles` |
| `OutcomesAreFinal` | `Spec => OutcomeIsFinal` |
| `StatesFollowTable` | every change of a state is in `ValidTransitions`, checked by the code or not |
| `DoneStaysDone` | `Spec => DoneIsForever` |
| `KeepsPromiseSafely` | `Spec => Promise!Safe` |

The safety properties are not inductive. `IndInv` is what the store's own bookkeeping
says (`StoreInv`, proved first) and what follows for reasons, refusals and deadlines.

`WireBudget` holds because the packets
sent, waiting and being claimed are covered by the persisted attempts
(`AttemptsCover`), which `claim_device_dispatch` increments in an earlier commit
than the packet and which a retry keeps; and the attempts are bounded because a
claim needs one left. `AcceptedHasDeadline` needs `AckInProgress`: the response
deadline is committed before the ACK fields, so whatever a crash cuts off, the
deadline is on disk; and a retry clears it only of a settled row
(`RetryInProgress`). `FirstRoundCancelIsHonest` needs `UnsentIsUnclaimed`
(without `sent_at` no claim of the first round ended) and that a claim of a
QUEUED row holds the lock until `sent_at` is set (`ClaimInProgress`,
`CancelledQueuedStays`). The steps are proved once for all transitions of
`update_command_state` (`MoveKeeps`), once for all handlers' first writes
(`RecordKeeps`), and one by one for the steps that open or close an account.
`StepOutcome` then classifies any step as one of the abstract steps, from which
finality of outcomes and the refinement follow.

`TimeoutReasonIsHonest` needs `AckIsAwaited` (the ACK fields are written only to a row
that still waits for an ACK, so no ACK lands on a row whose error says that none came) and
`ClaimReasonStays` (the two reasons that a claim gives stand on TIMEOUT rows only, so that
no later change of the row can belie them). Its proof found that the arms of `ErrorText`
overlapped where a new reason met one on record: TLC took the first, the prover could
take either, and the reason on record could have won. `RefusalsAreFinal` needs `RefusedFails`: between
the refusal's commit and the failure's, the handler holds the lock and the row still waits
for its ACK; a crash there puts the command into `crashes.cut`, which the property excepts:
the code leaves it active with the refusal on record, and a response completes it. A crash
anywhere else, and of any other command, changes nothing. `TimeoutReasonIsHonest` ties the
two reasons to the attempts and the ACK on record, not to responses: a response that was
recorded (`response_at`) and cut off by a crash does not keep a later claim from giving
RESPONSE_TIMEOUT. `ActiveIsSwept` bounds every
stored deadline by the clock, which a claim, an ACK and a retry each move.
`StatesFollowTable`, of which `DoneIsForever` is a part, goes through every write to the
table: all but one check the transition in the transaction that stores it; the retry's
second commit does not, and needs that the lock kept the row FAILED or TIMEOUT since its
first (`RetryInProgress`).

Only model-checked: liveness (`EventuallySettles`, the fairness of `KeepsPromise`).

### The broker switch

`MqttSwitchProofs`, for every set of profiles, any deadlines, any number of
transactions and crashes, from `ProfileAssumption` and `TimesAssumption`:

| Theorem | States |
| --- | --- |
| `SwitchInvariance` | `Spec => []SwitchInv` |
| `SwitchTypeCorrect` | `Spec => []TypeOK` |
| `AgreementHolds` | `Spec => []Agreement` |
| `DecisionsHaveEvidence` | `Spec => []DecisionHasEvidence` |
| `PendingOwned` | `Spec => []PendingIsOwned` |
| `DecisionsStand` | `Spec => DecisionStands` |
| `DeadlinesAreFixed` | `Spec => DeadlineIsFixed` |
| `LastActiveKept` | `Spec => LastActiveIsKept` |
| `SwitchPromiseKept` | `Spec => KeepsSwitchPromise` |

`Agreement` is not inductive: the step that could break it is the Master's
commit, for which one has to know that the only announcement it can act upon is
that of the switch in doubt. `OffersAreSound` says so of every message and
every thread that may still publish one: an offer of an older transaction
brings no new shared revision, and nothing of an undecided transaction
is announced. The step that ends the doubt needs `ReportsAreTrue` (a report of
the Master, also one that a thread has read and not yet stored, means that the
Master has that shared revision; `ReportMeansMoved`). That the announcement is
the decided offer although it is built from `candidate_profile` needs
`TesterFollows` and `ReadyIsProved`. A step writes the journal in one of five
ways (`JournalStep`, `StepsOfTheJournal`), and the action properties and the
refinement are read off them.

Only model-checked: `WaitsAreBounded`.

### The device exchange

`DeviceExchangeProofs`, for every set of commands, guarded or not, every size of
cache and receipt window, any number of retries, reports and crashes, from
`ExchangeAssumption`:

| Theorem | States |
| --- | --- |
| `ExchangeInvariance` | `Spec => []ExchangeInv` |
| `ExchangeTypeCorrect` | `Spec => []TypeOK` |
| `SamplesStoredOnce` | `Spec => []SampleStoredOnce` |
| `CommandsRunOnce` | `Spec => []RunsOnce` |
| `SuccessEarned` | `Spec => []SuccessIsEarned` |
| `FailuresHonest` | `Spec => []FailureIsHonest` |
| `RowConfirmed` | `Spec => []RowIsConfirmed` |
| `SuccessReaches` | `Spec => []SuccessReachesRow` |
| `ReceiptsSettle` | `Spec => []ReceiptSettles` |
| `StoreKeptByExchange` | `Spec => StoreKept` |

The bounded memories are proved once: `KeepLemma` says that appending with a limit
forgets nothing but what `Lost` names; `RememberLemma` and `SaveLemma` apply it to the
receipts and the cache, so that `MemoryIsSent` (a command that ran is cached or
listed as forgotten) and `StoredIsReceipted` (a stored sample has, or had, its receipt)
are inductive although both memories overflow. `RowIsConfirmed` and `ReceiptSettles`
need `IngestInProgress`: while an ingest is under way its command may be closed without
an answer, or be reopened, but no other answer can settle it, since a second ingest
waits for `LOCK`. `FailureIsHonest` follows from `AnswersAreNumbered` (one result per
run) with `RunsOnce` and `FailureHasCause`; `SuccessReachesRow` from `SuccessIsWritten`
with `RowIsConfirmed`. `StoreStep` maps each step to a step of `CommandPromise` or a
stutter.

### The firmware catalogue, the update jobs and the transport switch

`FirmwareReleasesProofs`, for every set of releases, lines and uploading threads, and
`UpdatesProofs`, for every set of jobs, devices and threads and any number of overlaps,
transactions, commands, retries and cut-off requests:

| Theorem | States |
| --- | --- |
| `ReleaseInvariance` | `ReleaseSpec => []ReleaseInv` |
| `OneActive` | `ReleaseSpec => []OneActivePerLine` |
| `ActiveApproved` | `ReleaseSpec => []ActiveWasApproved` |
| `RowsHaveFiles` | `ReleaseSpec => []RowHasFile` |
| `OtaInvariance` | `OtaSpec => []OtaInv` |
| `OneJob` | `OtaSpec => []OneJobPerNode` |
| `NoTarget` | `OtaSpec => []NoTargetAtRest` |
| `SettledJobsStay` | `OtaSpec => SettledStays` |
| `JobsKept` | `OtaSpec => JobsAreKept` |
| `OfferIsKept` | `ReleaseSpec => CatalogueKept` |
| `TransportInvariance` | `TransportSpec => []TransportInv` |
| `CommitsAreProved` | `TransportSpec => []CommitIsProved` |
| `SwitchIsTrue` | `TransportSpec => [](EndIsTrue /\ StepsAreSingle)` |
| `StepsKept` | `TransportSpec => StepsKeptInStore` |
| `UpdatesInvariance` | `UpdatesSpec => []UpdatesInv` |

`RowHasFile` and `ActiveWasApproved` need `RequestsAreSound`: which step an upload has
reached says what is on disk and in the table, and that no second upload has the
directory; a request checked its transition against what it read, and a release it read
as APPROVED, ACTIVE or RETIRED was read with its approval, so that what it writes is
consistent in itself, although it may write over a newer row.
`OneJobPerNode` needs `WorkIsSound`: while a thread that found no active job has not
inserted its own, either no other job of the device is active or `doubled` says so.
`SettledStays` needs that the state a report was checked against is still the job's, or
`raced` says so. In `JobsAreKept` the INSERT and the UPDATE are where a request takes effect:
`WorkIsSound` says that what it read earlier still holds there. In `CatalogueKept` that is the
UPDATE of a status. One case is neither a replacement nor an update: a release that is
made ACTIVE after its row was deleted retires the one of its line and nothing takes its
place; it is a withdrawal because `OneActivePerLine` leaves one to withdraw.
`CommitIsProved` needs `ConfirmsAreProved` (a `confirm` that exists was made after a proved
probe of its transaction) and `DocumentsAreSound` (a document, filed or about to be, names
only commands of its own transaction, and all of them unless a saving was cut off).
`EndIsTrue` needs `RepliesAreTrue`: an end that a reply or a result names is the
transaction's, since the Master never leaves one. `StepsKeptInStore` maps each command of a
switch to `CommandPromise`: its phase (`StepPhase`), its retries, and as packets the one that
the Master has run. `StepsKept` and `OfferIsKept` have no property in a run of
theirs: TLC found both to hold on the instance of `updates`, and the theorems say it for all.

### The mesh

`MeshDeliveryProofs`, for every set of nodes and messages, any sizes of the window and the
queues and any settings:

| Theorem | States |
| --- | --- |
| `MeshInvariance` | `MeshSpec => []MeshInv` |
| `TakenOnceHolds` | `MeshSpec => []TakenOnce` |
| `OneOutcomeHolds` | `MeshSpec => []OneOutcome` |
| `RetriesAreCounted` | `MeshSpec => []RetriesCounted` |
| `TopologyIsSound` | `MeshSpec => [](RolesAgree /\ ChoicesAreRight /\ OwnHopsAreReported)` |

`EnqueueLemma` and `RememberedLemma` say what a bounded deque keeps. `TakenOnce` needs
`WindowIsSound` (what was taken and never dropped is in the window) and `HeldIsSound` (what
a thread holds after its check is not known yet, and no other thread holds it, or the id
is on record as dropped). `ChoicesAreRight` needs `ChoicesAreSound`, which says reading by
reading what a choice still knows if nothing has overtaken it; without the history
`outdated` it does not hold, and the proof shows that a change of a link or a threshold is the
only way to spoil it. `OneOutcome` and `RetriesCounted` need `SweepIsSound`: an entry the
sweep holds is pending, or was answered while it was held.

### Chat, nodes, sensors and backups

`RecordsProofs`, for every set of messages, operators, nodes and threads, any number of
attempts, overlaps and crashes, and `ServicesProofs`, for every set of parameters,
threads and files, any number of archives and any `backup_keep` of at least 2:

| Theorem | States |
| --- | --- |
| `ChatInvariance` | `ChatSpec => []ChatInv` |
| `StatusesAdvance` | `ChatSpec => StatusAdvances` |
| `DeliveredWasAcknowledged` | `ChatSpec => []DeliveredIsAcknowledged` |
| `PublicationsAreBounded` | `ChatSpec => []AttemptsBoundPublications` |
| `RecordInvariance` | `RecordSpec => []RecordInv` |
| `NodeStatusFollows` | `RecordSpec => [](StatusFollowsSwitch /\ OnlineWasSeen)` |
| `SensorInvariance` | `SensorSpec => []SensorInv` |
| `HistoryKept` | `SensorSpec => []HistoryHasParameter` |
| `GraphsFollow` | `SensorSpec => []GraphsFollowParameters` |
| `RestoreInvariance` | `BackupSpec => []RestoreInv` |
| `MarkerBlocks` | `BackupSpec => []MarkerBlocksMixture` |
| `InterruptedResumes` | `BackupSpec => []InterruptedCanResume` |
| `RestorePromiseKept` | `BackupSpec => KeepsRestorePromise` |
| `RecordsInvariance` | `RecordsSpec => []RecordsInv` |
| `ServicesInvariance` | `ServicesSpec => []ServicesInv`, from the steps' lemmas of the mesh, the sensors and the backups |

`StatusAdvances` needs `WritingIsSound`: what is about to be written may follow the status
the row has now, or the message is `overlapped`; `OverlapsAreKnown` is why a party that
is alone stays alone until it writes. `AttemptsBoundPublications` needs
`EntriesAreSound`: the envelopes in the queue and those published are covered by the
counted attempts. `RecordInv` adds `ReportsAreSound`: the node that a report or a sweep has
read is still enabled, or gone, or on record as written by two; that it was read enabled is
the only reason why writing its status alone keeps `StatusFollowsSwitch`. `SensorInv` adds `ServicesAreSound` (what a thread has read still
holds, or it was overtaken) and `OverlapsAreSeen`. `RestoreInv` adds `BackupIsSound` (a
backup that runs has read the data as they are, and no restoration is past its own
backup), `RestorationIsSound` (what the marker names at each step) and
`ReplacementIsSound` (each file is either as it was or can be given back). Looking for this
invariant is what found the case in which a backup deletes the archive that is being
restored: the bound on archives had hidden it from TLC. For the refinement,
`RestorationIsSound` says what the archive being restored holds, and not only that it is
there, at every step until the restoration ends: `EndsComplete` needs that the files put in
place are those of the archive, and `MarksDemand` that an archive holds what they replace.

Only model-checked: `MessagesSettle` and `SilenceShows`, which are liveness.

### What the prover does not reach

Liveness under fairness and ENABLED stay with TLC: `EventuallySettles`, the fairness of
`KeepsPromise`, `WaitsAreBounded`, `MessagesSettle` and `SilenceShows`. Of the first, the
invariant it rests on is proved (`OverdueIsFound`); that the heartbeat then runs is
fairness. What a recursive definition computes for every input would stay with TLC too; no
module here has one.

## Observations

Met while modelling. The first five are findings that a run shows.

- A retried command whose device answers from its cache stays pending (`retry_answered`).
- `send` and `_forward_packet` change `next_hop` after the CRC (`emitted`); `set_next_hop`,
  which renews it, has no caller. `create_ack` makes packets of at least 191 bytes,
  `MAX_ENCODED_PACKET_BYTES` is 180: the ACK of a delivered packet always raises, after the
  packet was queued, and the route answers 400. The send route adds
  `flags.ack_required` after the size was computed, and practically every packet is too
  large. The receive route passes a parsed document to `decode_packet`, which takes text or
  bytes only.
- `select_route` reads the mesh link by link without a lock of its own and does not exclude the
  source from its relays: a node that reported a link to itself, and whose direct link
  improves between `routing_manager.py:371` and `:281`, is stored as its own next hop
  (`looped`).
- A timestamp with a UTC offset ends the sweep for silent nodes (`silent`).
- Undoing a restoration that resumed another leaves a mixture without a marker (`mixed`).
  The undo writes with `write_bytes`, which is not atomic; the marker is still there then.
- Commands: a retry does not look at the capacity (`command_manager.py:1074`); it clears
  `sent_at`, so cancel-queued reports "Cancelled before dispatch" of a command of an earlier
  round (:1189); its deadline may lie behind the expiry it keeps (:1086); a crash between the
  two commits of a refusal (:821) lets the command complete.
- Broker switch: a test interrupted by a restart stays RECOVERY_REQUIRED when its deadline
  passes (`mqtt_service.py:270`). The worker's own connection commits the journal and does
  not reload the service (:187).
- Transport: a transaction whose `prepare` and `cancel` were both given up stays
  UNKNOWN_REQUIRES_DEVICE_STATUS: `cancel` is not sent again, `prepare` is refused, and only
  a report that names the transaction ends it. A probe that timed out cannot be repeated,
  except by a retry of its command. An older STATUS takes a settled document back.
- Updates: two creations can give a device two jobs, against README.md:775-776; a
  repeated SUCCESS of an old job takes `current_version` back; a late failure of an old job
  writes the row of a device that is on to another; a check clears the target of an active
  job; a job may be made for a release that was withdrawn since it was read.
- Mesh: removing a node leaves the routes over it; a refused settings request has stored its
  earlier values; registering the master as NODE leaves `master_node_id`;
  `_pending_ack` has no bound.
- Chat: `queue_chat` takes messages that nobody will drain: without a worker (no confirmed ACL, no
  first connection yet) or with one in the telemetry or command mode (`mqtt_service.py:89`,
  `:249`, `:265`) they stay QUEUED, past their expiry too; so does a message whose
  row was committed when the process ended before its outbox entry was. STORED never expires; an envelope is queued before its attempt is counted.
- Nodes: enabling an enabled node shows it offline; a timestamp in the future keeps it
  online.

## Not modelled

- The rest of the MQTT service: the bounded queue of incoming packets, the receipts of the
  uplink, diagnostics. What a packet does is `ingest`, which `DeviceExchange` models with loss
  and repetition.
- Local IP, accounts and sessions: authentication and access control, which no property here is
  about. Profiles: a catalogue that each request writes in one transaction under its
  revision.
- `device_control_contract.py`, `device_controls.py`, the configuration documents, power
  schedules and unit transforms: functions of one request.
- Dashboard, deployment and commissioning scripts, TLS and password hashing, the legacy
  simulator, the device firmware (external, modelled as the Gateway presumes it).

`PROJECT.json` lists every part with its files.
