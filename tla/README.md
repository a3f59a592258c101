# deping-client-service: a TLA+ model of the service

These modules model the part of deping-client-service that has behaviour of its
own: the consumer that turns ping results into Telegram alerts, the credits an
alert costs, the payments that buy credits and stake, the WebSocket hub, the
linking of Telegram accounts, the node runners with their registry in
memory, the monitors with what Redis holds of them, the matching of monitors to
nodes, and the program on the chain whose stakes the service mirrors. TLC checks
small instances; TLAPS proves the most important safety properties for every
value of the constants.

Paths below are relative to the repository root.

## 1. The system

### Components, their state and their operations

| component | state | operations | where |
|---|---|---|---|
| alert consumer | queue `telegram_queue`, one channel (prefetch 1) per instance | take, parse, ack, nack, deadline, stop, crash, restart | `services/consumer_service.go` |
| two-packet rule | row of `monitor_health_state` per monitor | read the row, decide, write the row back | `services/alert_service.go:33-86` |
| alert dispatch | `telegram_subscriptions`, `telegram_users`, `telegram_credits` | notifications on? owner's chat? deduct a credit, send or remind | `services/alert_service.go:88-134`, `db/telegram.sql:89-161` |
| payment confirmation | `processed_transactions`, two credit balances, stake of `runner_nodes` | check signature, read the chain, record, credit or stake | `services/telegram_service.go:100`, `services/user_service.go:231`, `services/noderunner_service.go:137-172` |
| live-update hub | channels Register, Unregister, Broadcast; map of clients | Run, ServeWs, bridge | `ws/` |
| Telegram linking and bot | row of `telegram_users` per account, with its one-time code | InitiateLink; /start, /verify, commands behind withAuth, the notification button | `services/telegram_service.go:39-79`, `bot/bot.go` |
| node runners | rows of `runner_nodes`, `MemoryRegistry.nodes` | register, activate, stake, delete, heartbeat, evict | `services/noderunner_service.go`, `services/registry.go` |
| SmartScheduler | last node used per domain | MatchBatch | `services/registry.go:100-145` |
| monitor service | `monitors`, Redis `cache:active_monitors`, `scheduler:due` | create, pause, resume, delete, list, stats | `services/monitor_service.go` |
| users and tokens | `users` | register, login, JWT check | `services/user_service.go`, `router/middleware.go` |
| Solana client | none | read a transaction, derive an address | `solana/solana_client.go` |
| on-chain program | node accounts, vault, treasury | open, reward, claim, buy, stake, top up, withdraw, close | `program/lib.rs` |
| wiring | none | start-up, queues, shutdown | `app/application.go`, `main.go` |

### How they interact

    ping pipeline --> exchange monitor_updates --+--> telegram_queue --> consumer
                                                 |       (one goroutine per instance)
                                                 |         | ProcessPingResult
                                                 |         v
                                                 |      health row --> dispatchAlert
                                                 |                       |   |    \
                                                 |        subscriptions, chat  credit ledger --> Telegram
                                                 |
                                                 +--> exclusive queue --> bridge --> Hub.Run --> WebSockets

    dashboard --> linking, purchases, stake, nodes --> the same tables
    bot       --> linking, mute button ------------> the same tables

    client --> program on the chain --(signature)--> payment confirmation --> balances, stake
    dashboard --> monitors, cache:active_monitors, scheduler:due --> scheduler --> MatchBatch

All instances share the database and the broker and nothing else; the
registry and the hub belong to one instance. Each database call is a
transaction of its own: **no code path of the service holds a transaction over
two calls**, so other goroutines and other instances run between any two.

### What is hard

* read, decide, write back without a lock (health rows, mute button);
* redelivery after a nack, a closed channel or a crash of work that was half done;
* an error that is only logged (`services/alert_service.go:75`), after which the
  batch is acknowledged;
* charging before sending, reminding before marking, staking before recording,
  recording before crediting, each with a failure in between;
* midnight between the start of a transaction and its row lock;
* one goroutine that is the only receiver of a channel it also sends on;
* a one-time code looked up and used in two steps;
* a registry in memory that three steps of a heartbeat keep up with a table;
* a cached list deleted after the row was written, while its reader holds an older one;
* stakes executed on the chain in one order and confirmed in another, or twice.

PROJECT.json lists these under `hazards`, each at its line with the properties
that watch it.

### What makes each component correct

* consumer: nothing lost, nothing settled twice, an acknowledged batch was judged in full;
* rule: two failed checks in a row, not one; one alert per change of the verdict;
* dispatch: quota of free alerts, credits conserved, one charge per alert, one reminder a week;
* payments: a transfer changes a balance exactly once;
* hub: a gapless run of updates per connection, nobody forgotten, the hub never stuck;
* linking: verified only through a code issued to the account, and such a code works;
* node runners: the registry shows the recently heard wallets, and the table is never behind it;
  the progress of a node goes with its key, to whatever wallet that is moved;
* program: the vault holds all stakes, a validator has the minimum, no reward is lost or paid twice;
* its mirror: the rows of a wallet show its stake once each transfer was counted once, for that wallet;
* monitors: a wrong cached list has a reason the code knows of;
* scheduler: no node checks a domain twice in a row, no two nodes idle while checks wait.

## 2. Modules

| module | models | composes |
|---|---|---|
| `TwoPacketRule` | the abstract promise to the owner of a monitor | |
| `AlertConsumer` | queue, consumers, health rows | implements `TwoPacketRule` |
| `CreditGate` | dispatchAlert over the credit ledger | |
| `AlertPipeline` | the queue-to-chat pipeline | `AlertConsumer` + `CreditGate`, implements `AlertConsumer` |
| `Payments` | the four confirmation endpoints | |
| `Hub` | ws/hub.go and ws/bridge.go | |
| `TelegramLink` | linking and the bot | |
| `RunnerNodes` | runner_nodes rows, heartbeat, registry | |
| `StakeProgram` | program/lib.rs | |
| `StakeMirror` | the service and the chain | `Payments` + `StakeProgram`, implements both |
| `MonitorSchedule` | monitors, their keys in Redis, MatchBatch | |
| `MC...` | constants of the runs | |
| `AlertConsumerProofs`, `CreditGateProofs`, `HubProofs`, `TelegramLinkProofs`, `RunnerNodesProofs`, `MonitorScheduleProofs` | theorems | |
| `AlertPipelineProofs` | theorems of the pipeline | `AlertConsumerProofs` |
| `StakeMirrorProofs` | theorems of `Payments`, `StakeProgram` and `StakeMirror` | |

Operators named `Bug...` stand directly before the definition they are a
mutant of: what a plausible slip in that code would be. No specification uses
one. With the mutant in place of its definition the run named in
PROJECT.json must fail, which shows that the property looks at that code.

### AlertConsumer

A message is an index into `log`, the sequence of published bodies. `queue` is
the ready part of telegram_queue; `worker[c]` is the place of `handleDelivery`
in instance c, with the message and result in hand, the row to write and the
alert to send. One action per database round trip: `Judge` (GetHealthState and
the decision), `Upsert`, `Dispatch`; then `Ack`, `RequeueFailed` or `Discard`.
`JudgeFails` and `UpsertFails` are the error paths; the first marks the batch
failed (`lastErr`), the second does not, as in the code. `Expire` is the 30 s
deadline, after which every database call of the batch fails. `Close` is a lost
connection or `Stop`; the broker requeues at once while the goroutine runs on,
and its later Ack has no effect. `StopConsuming` is `Start` returning for good.
`Crash` and `Restart` are the process.

The requeued message returns to the head of the queue. What RabbitMQ does is
modelled from how the code uses it (external entries of the map).

`TwoPacketRule` knows only what was reported, judged, declared and notified
for each monitor. The mapping (`Rule`, at the end of `AlertConsumer`): `reported`
are the outcomes of all published results that name the monitor, each at its place
<<message, index>>, `judged` are those whose row was written, `declared` is the
row's verdict, `notice` is the alert in the worker's hand.

### CreditGate and AlertPipeline

`gate[c]` is the place of `dispatchAlert` called by goroutine c: `CheckEnabled`,
`FindOwner`, `BeginDeduct` (the transaction opens and fixes CURRENT_DATE),
`Deduct` (the row lock is had and the function body runs), `Send`, or `Ask`,
`Nudge`, `Mark` of the reminder. `DeductUnanswered` is a committed transaction
whose answer is lost. `World` is everything else that writes the same rows:
midnight, purchases, mute toggles, link changes, the passing of a week.
The history variables `freeOn`, `spent`, `charged`, `sent`, `lost` count what
happened so that the ledger can be compared with it; `bought` is the sum of all
purchases, `gained` of the positive ones.

The number of credits of a purchase is the client's `credit_balance`, an `int`
whose sign nobody checks (`controllers/telegram.go:92`, `db/telegram.sql:145-161`), so
`Packs` are integers and the balance has no lower bound of its own. What
`CreditsConserved` says is that charges never take more than purchases brought in.

`AlertPipeline` adds the histories `news` (a change of the verdict nobody was told
of), `inbox` (what the chat shows last) and `unmarked` (reminders whose mark was
lost). It replaces `Dispatch` of the consumer by the gate's steps. The two
share the deadline and the crash. It implements `AlertConsumer` (its property
`ImplementsConsumer` is that module's `FairSpec`). The safety part of that is a
theorem, so the consumer's theorems hold of the whole pipeline.

### Payments

A handler has a flow (`telegram`, `monitor`, `stake`, `unstake`) and the flow
fixes the order of its steps, which differs in the code:

| flow | steps |
|---|---|
| telegram credits, monitor credits | check signature, verify on chain, record signature, add credits |
| stake, unstake | verify on chain (controller), check signature, change stake, read user, record signature |

(`FirstStep`, `AfterVerify`, `AfterCheck`.) A credit request claims an amount, which
is compared with the transfer's, and credits of either sign, which are not. A
stake request names a wallet, `req[r].pubkey`: every row of that wallet changes
(`RowsOf`, `node` by row), each with its own threshold, and none where the wallet has
no row, which is no error. Nothing compares the wallet with the parties of the
transfer or the signed-in account (`controllers/noderunner.go:166, 198`), so any
request may name any wallet. Rows are registered before the first request and
stay with their wallet: registering, moving and deleting them is `RunnerNodes`.
`applied` counts how often a transfer changed a balance or stake, `counted` how
often it changed the rows of a wallet.

`EndEarly` ends a handler at any step: an error, a cancelled request
context, a missing user, a crash. The history `cut` holds the transfers a
handler of which ended early.

### Hub

Register and Unregister are unbuffered, so a send and its receive are one step
(`Register`, `Unregister`); Broadcast is a bounded sequence. `run` is where
`Hub.Run` is, with the snapshot it still has to write. `WriteFails` puts Run at
`self-unregister`: it sends on the channel only it receives from, so no action
leaves that place. A gorilla connection answers a close frame inside
ReadMessage and refuses writes from then on, so an ordinary departure of a
client is enough to get there, when an update is written before `Unregister` is
received.

### TelegramLink

`row[u]` is the account's telegram_users row: name, chat, code (0 is NULL),
verified. Codes are numbered in the order they are issued, so they never
collide; four random bytes are taken to be unique. `bot[h]` is a bot handler
between its database calls: telebot runs each update in a goroutine of its own.

### RunnerNodes

`row` is runner_nodes by node key, `memory` the registry by wallet. Times are
ages in ticks, the five minutes are `Window` ticks. A heartbeat is
`UpdateHeartbeat`, `FindByPubkey`, `TrackHeartbeat`. `Restart` empties the
registry. `View` is the page `Me` shows; `ProgressKept` compares it over a step.

`Claims` are the triples of account, wallet and node key that clients register.
Register's ON CONFLICT sets the wallet of the row there is and keeps email,
address and stake (`Replaced`), whichever account asks; the history `moved` says
that a row went to another wallet after its address was written. An account
whose row is moved is sent back to the register page for the old wallet and
finds its progress at the new one, which is what `ProgressKept` follows.
UpdateStake and UpdateUnstake compute is_validator for each row from its own
stake, so that `SetValidator` lets any of the wallet's rows be validators.

### StakeProgram and StakeMirror

`account[a]` is a NodeAccount or `NoAccount`; `tokens` are the balances of
the users' wallets, the staking vault and the treasury. The runtime undoes an
instruction that fails, so each is one action whose guard is the conjunction of
its checks, the checked additions and the transfer at its end. `granted` and
`claimed` count the rewards of an address through closing and reopening.
Each instruction takes the wallet it pays or is paid by, and any wallet will do:
the contexts of StakeTokens and AddStake have a signer but no tie to the owner of
the account, so anyone may stake into any account; ClaimReward has no signer at
all and pays the token account it is given; WithdrawStake and DeleteAccount are
signed by the owner and also pay the token account they are given. For the other
token accounts the program trusts its callers; the model passes its vault and its
treasury.

`StakeMirror` lets transfers be executed by the program (`Execute`) and
confirmed by the handlers of `Payments` afterwards (`Confirm`), in any order and
repeatedly, for whatever wallet the client names. `Elsewhere` is what happens on
the chain without the service: rewards, purchases, the treasury, the stakes of other accounts. `Owner[a]` is the
wallet the address of an account was derived from. `MirrorsStake` states what the
mirror is for: once each executed staking transfer of a wallet's accounts was
counted once for that wallet, and no other transfer was, each of its rows shows the
stake the program holds for it, whoever paid it and whatever was counted for
others. That a transfer can be counted twice is the subject of `pay_staked_twice`,
that it can be counted for another wallet that of `StakeElsewhere.cfg` (section 4).

### MonitorSchedule

An endpoint writes the row (`Write`, in `Create`, `UpdateActive` or `Delete`),
then deletes the key (`Del`), and `Create` arms the monitor (`Arm`); `hand[h]` is
the command handler h has left. `DelFails` is an ignored error, `EndEarly` a
command that fails or is never sent. The reader of `cache:active_monitors` is not
part of the repository: `ReadTable` and `SetKey` are a read-through cache in two
steps, which is what the deletion of the key is written for. The history
`behind` holds the monitors about which a list may be wrong: changed while the
reader held a list, deletion lost, or the owner's balance changed (`Fund`), which
deletes no key.

`Dispatch` is a call of MatchBatch with the due monitors that FindMany returns,
in any order, and the online nodes in any order, since a map gives them in
none. `MatchBatch` is the fold of `Match` over the monitors: `Match` gives one
monitor the first place of the list that is `Eligible`. `served`
is the node that checked each domain last, taken from the assignments and not
from the scheduler's own `lastUsed`.

## 3. Runs

On two cores `stake_mirror`, `runner_lifecycle` and `monitor_schedule` take about a
minute and a half each, every other passing run a minute or less. The type invariants of
`AlertConsumer`, `CreditGate`, `Payments`, `TelegramLink`, `StakeProgram` and
`MonitorSchedule` are theorems and not repeated in the runs.

| run | configuration | what it shows |
|---|---|---|
| `alert_rule` | 1 consumer, no fault, every shape of body, 3 messages | `TwoChecks`; `ImplementsRule`: the consumer implements `TwoPacketRule`, liveness included |
| `alert_faults` | 2 consumers, 2 messages of mixed bodies, 2 faults of five kinds | `HealthConsistent`, `OnePlace`, `AckedMeansJudged`, `EventuallySettled` |
| `alert_pipeline` | 1 instance, 2 batches that go down and up, quota 2, a fault in the consumer and one in the gate | `GateFollowsWorker`, `AlertIsNews`, `OneReminder`, `ImplementsConsumer` |
| `credit_gate` | 2 callers, 1 user, quota 2, 5 alerts, 2 purchases of a credit given or taken, a midnight, an edit, a fault of nine kinds | `FreeQuota`, `CreditsConserved`, `PaidOnce`, `WindowForward`, `GateReturns` |
| `payments_retried` | 2 handlers, 4 requests over a payment, a stake and an unstake, packs of either sign, 2 wallets of which one has a row, 1 early end | `CreditedOnce`, `OnlyFailureLosesCredit`, `StakedMeansRecorded`, `PaymentCredited` |
| `hub_fanout` | 2 connections, channel of 1, 3 updates, peers that leave, stall and fail | `NoGaps`, `NoLag`, `ClientsServed`, `UpdatesArrive`, `GoneIsForgotten` |
| `link_races` | 2 accounts, 2 chats, 2 handlers, 2 codes, 3 commands, 1 failed call | `VerifiedByOwnCode`, `CodeWorks` |
| `runner_lifecycle` | 2 accounts, 2 wallets, 2 nodes of which one is registered by both accounts, 1 heartbeat handler, 4 changes | `OnlineIsRecent`, `DatabaseFirst`, `PdaFits`, `ProgressKept`, `DeletedGoesOffline` |
| `stake_mirror` | 2 accounts of 2 wallets with a row each, 5 transfers (purchase, stake, top-up by the other wallet, withdrawal, closing), 2 handlers, 3 requests for either wallet, 3 instructions elsewhere | `VaultBacked`, `ValidatorHasMinimum`, `RewardsKept`, `MirrorsStake` |
| `monitor_schedule` | 4 monitors of 2 owners on 2 hosts, 3 nodes, 2 of a domain in a batch, 2 handlers, 2 changes, 1 lost command | `CacheExplained`, `Rotation`, `BatchIsFull` |

Why these bounds are enough to be interesting. The rule looks at two checks, so
three messages with up to two results reach down, repeated and restored in every split
over batches. Two consumers, two messages and two faults reach a redelivery
that overlaps the first delivery and a fault during the redelivery. A quota of
two and five alerts exhaust the quota on either side of midnight and go through
the purchased credit to the reminder; the second purchase takes a credit away
before or after it is charged. Four requests with two handlers overlap twice and
retry after each. A channel of capacity one is full with one update;
three updates make one wait behind it and another be written. Two codes are a
code and its replacement, for either account. Three instructions elsewhere open the
mirrored account and open and stake into the one beside it, or earn, fund and claim
a reward of the open one; three requests confirm a stake, a top-up or withdrawal
and the closing, or one of them again, or for the other wallet. Four changes of the
rows register, activate and stake a node and have another account take its key, or
register it back. Three monitors of one host exceed a batch's share of two,
three nodes leave one for the second host; two changes by two handlers
overlap around the reader's two steps. The code's share is five, the minimum
stake is 20 units of 10 raw tokens instead of 10^9: nothing else depends on the
size. Symmetry is used in `stake_mirror` and `monitor_schedule` only,
which have no liveness. `MaxPublish`, `MaxFaults`,
`MaxAlerts`, `MaxBuys`, `MaxDay`, `MaxEdits`, `MaxStarts`, `MaxUpdates`,
`MaxCodes`, `MaxCommands`, `MaxChanges` and `MaxOther` are the bounds on counters;
they occur only in guards, and the theorems hold for every value of them.

Deadlock is not checked: each system may stop, when everything published is
settled and no fault or command is left within the bounds.

### Fairness

* Consumer, gate, handlers and bot: weak fairness of a goroutine's own next
  step. Each step is a call that returns or fails; the goroutine is runnable
  while it waits for nothing.
* `Restart`: docker-compose runs the service with `restart: always`.
* Hub: weak fairness of Run's and ServeWs's own steps; **strong** fairness of
  the cases of the select, because Go picks among ready cases at random and a
  case is not ready while Run writes. A peer that stalls reads again in the
  end (`Resume`); a peer that never does blocks the hub for good, since no write
  deadline is set.
* Runner nodes: time passes and the eviction loop runs.
* Nothing is assumed of publishers, peers, owners, faults, midnight.

`EventuallySettled` lets a message wait when every consumer has stopped: a
closed channel ends `Start` for good, and `app/application.go:166` drops its
error, so a live process may consume nothing for ever. The run checks that
nothing else holds a message back. `UpdatesArrive` and `GoneIsForgotten` exclude
the states after Run blocked itself, the subject of `hub_blocked`.
`PaymentCredited` and `OnlyFailureLosesCredit` exempt payments a handler of which
ended early, the subject of `PayInterrupted.cfg` (section 4).

## 4. Disagreements between code and documentation

Two runs expect a violation:

| run | property | the code | says otherwise |
|---|---|---|---|
| `pay_staked_twice` | `StakedOnce` | check, stake and record are three statements, the record last | services/noderunner_service.go:135, 143 |
| `hub_blocked` | `HubReturns` | Run sends on its own unbuffered channel | ws/hub.go:54 |

Further disagreements, each with a configuration TLC finds a violation with
(`tlc -config <cfg> <MC module>`):

| configuration | property | the code | says otherwise |
|---|---|---|---|
| `AlertUnsaved` | `AckedMeansSaved` | a failed write of the health row is logged and the batch acknowledged | README.md:586 |
| `PayInterrupted` | `RecordedMeansCredited` | the signature is recorded in one statement, the credits added in another | db/repositories/tx_repo.go:10 |
| `AlertRedelivered` | `TwoChecks` | a requeued batch is judged again in full, so one failed check counts twice | README.md:247 |
| `AlertPoison` | `RequeuedOnce` | a batch whose lookup fails each time is requeued without limit | README.md:586 |
| `PipelineUnsaved`, `PipelineInstances` | `AlertIsNews` | a failed row write, or two instances on one row, send an alert again | README.md:252 |
| `PipelineMuted` | `RestoredAfterDown` | `alert_sent` is set before it is known whether the alert goes out | README.md:257 |
| `GateUnmarked` | `OneReminder` | a reminder whose mark fails is sent again | README.md:349 |
| `GateStatus` | `ShownFreeIsFree` | the status is read without the daily reset | dto/telegram.go:24 |
| `PayThreshold` | `MirrorsProgram` | UpdateStake compares raw units with 20, UpdateUnstake with 20 * 10^9 | program/lib.rs:13 |
| `LinkTwice` | `CodeUsedOnce` | two chats that send one code at once are both accepted | README.md:238 |
| `LinkReplaced` | `RelinkInvalidates` | a code replaced between lookup and confirmation is accepted | README.md:239 |
| `LinkPending` | `NullUntilVerified` | /start stores the chat before verification | db/telegram.sql:12 |
| `LinkRenamed` | `NameForDisplay` | /start moves a verified account's chat by username | README.md:90 |

Two more configurations show what no text of the repository rules out and a reader
may still take for granted:

| configuration | property | the code |
|---|---|---|
| `RunnerMoved` | `PdaAlwaysFits` | re-registering a node key from another wallet keeps the address derived for the old one, until the node is activated again (db/repositories/noderunner_repo.go:165-171) |
| `StakeElsewhere` | `OnlyOwnerCounts` | a stake changes the rows of the wallet the client names, not of the one that owns the staked account (controllers/noderunner.go:166, 198) |

In the same way a purchase with a negative number of credits is accepted and may
take a balance below zero, anyone may stake into any account, and a reward may be
claimed to any token account; the models do all of that.

## 5. Proofs

| theorem | module | property |
|---|---|---|
| `TypeCorrect` | the proof modules of one component | `TypeOK` of AlertConsumer, CreditGate, Payments, Hub, TelegramLink, RunnerNodes, MonitorSchedule |
| `RowsConsistent`, `AckedJudged`, `MessagesPlaced`, `DownAfterTwoChecks` | AlertConsumerProofs | `HealthConsistent`, `AckedMeansJudged`, `OnePlace`, `TwoChecks` |
| `CreditsAreConserved`, `QuotaHolds`, `WindowMovesForward`, `ChargesAccounted` | CreditGateProofs | `CreditsConserved`, `FreeQuota`, `WindowForward`, `PaidOnce` |
| `ConsumerKeepsRule` | AlertConsumerProofs | the consumer implements `SafeSpec` of TwoPacketRule: `ImplementsRule` without its liveness |
| `PipelineRefinesConsumer`, `PipelineKeepsConsumer`, `PipelineKeepsRule` | AlertPipelineProofs | the pipeline implements `Spec` of AlertConsumer, has its invariants, and keeps the rule |
| `GateFollows`, `AlertsAreNews`, `RemindersAreRare` | AlertPipelineProofs | `GateFollowsWorker`, `AlertIsNews`, `OneReminder` |
| `PaymentCreditedOnce`, `OnlyFailureLoses`, `StakeIsRecorded` | StakeMirrorProofs | `CreditedOnce`, `OnlyFailureLosesCredit`, `StakedMeansRecorded` of Payments |
| `ChainTypeCorrect`, `ValidatorsHaveMinimum`, `RewardsAreKept`, `VaultIsBacked` | StakeMirrorProofs | `ChainTypeOK`, `ValidatorHasMinimum`, `RewardsKept`, `VaultBacked` of the program |
| `MirrorRefinesProgram`, `MirrorRefinesPayments` | StakeMirrorProofs | the composition implements `ChainSpec` and `Spec` of Payments |
| `MirrorCreditsOnce`, `MirrorVaultBacked`, `RowMirrorsStake` | StakeMirrorProofs | `CreditedOnce`, `VaultBacked`, `MirrorsStake` of the composition |
| `UpdatesGapless`, `NobodyLags`, `OnlyServedWritten` | HubProofs | `NoGaps`, `NoLag`, `ClientsServed` |
| `OwnCode` | TelegramLinkProofs | `VerifiedByOwnCode` |
| `OnlineMeansRecent`, `DatabaseIsFirst`, `AddressFits`, `ProgressIsKept` | RunnerNodesProofs | `OnlineIsRecent`, `DatabaseFirst`, `PdaFits`, `ProgressKept` |
| `CacheIsExplained`, `NodesRotate`, `BatchesAreFull` | MonitorScheduleProofs | `CacheExplained`, `Rotation`, `BatchIsFull` |

They hold for every set of consumers, monitors, callers, users, transfers,
handlers, connections, nodes and chats, every bound and every set of faults, from
the assumptions named in the modules (`MonitorsAssumption`, `BodiesAssumption`,
`BoundsAssumption`, `OwnerAssumption`, ...), which TLC evaluates in the runs.
Where something is summed or counted the set is assumed finite
(`AccountsAssumption`, `FiniteAssumption`).

Some theorems have a hypothesis of their own, the condition of the run that
checks the property. Without it the property is false:

| theorem | hypothesis | without it |
|---|---|---|
| `DownAfterTwoChecks`, `ConsumerKeepsRule`, `PipelineKeepsRule` | `Undisturbed`: one consumer, no fault of the consumer, no poisonous result; the gate may fail | a batch judged again counts a check twice: `AlertRedelivered.cfg` |
| `AlertsAreNews` | one consumer, `"upsert" \notin Faults` | `PipelineInstances.cfg`, `PipelineUnsaved.cfg` |
| `RemindersAreRare` | one consumer | two instances ask before either marks: `PipelineInstances.cfg` with `OneReminder` as its invariant |

The arguments:

* **HealthConsistent.** The row in the table does not suffice: a worker writes a
  row it computed earlier. The strengthening adds that every row in a worker's
  hand is consistent too; the rule maps consistent rows to consistent rows, and
  Upsert writes the three fields together.
* **AckedMeansJudged.** Ack happens when the index is past the batch and no
  result failed. The strengthening says of a busy worker that has not failed
  that every result before its index was judged or named no monitor.
* **OnePlace.** The queue has no duplicates and is disjoint from what is held
  and what is settled; each broker action moves one message. The difficult
  steps are the requeues, which put a message at the head.
* **FreeQuota.** The ledger's counter alone is not enough, since it is reset.
  The strengthening ties the history to it: for the day of the window the
  history equals the counter, for a later day it is zero, for an earlier one it
  is at most the quota. DailyReset only moves to a later day because of `<`.
* **CreditedOnce.** A handler reaches `credit` only by the insert that was not
  refused. The strengthening: a payment not recorded has no handler at `credit`
  and was not credited; at most one handler is at `credit` for it; and while one
  is, it was not credited yet.
* **OnlyFailureLosesCredit.** From the same invariant: the handler that recorded
  the signature is at `credit`, or has credited, or ended early.
* **CreditsConserved.** Deduct moves a credit from the balance to `spent` only where
  the balance is positive, and a purchase adds the same to both sides. That no more is
  spent than gained follows because what was bought is at most what was gained:
  negative purchases only lower it.
* **PaidOnce.** Inductive with the type invariant. The work is in counting: a
  caller enters or leaves the finite set of callers about to send, and the set of
  every other user is untouched.
* **TwoChecks.** The row's counter of consecutive failures, or the one about to be
  written, is the number of distinct failed checks since the last success. It
  grows with the set because a check that is judged is a new one: nothing judged
  is still ready, or ahead in the batch. A batch judged again breaks that, hence
  the hypothesis.
* **ConsumerKeepsRule.** Upsert is the rule's Judge, Dispatch its Notify, Publish
  its Report, all else a stutter. The invariant (`OrderlyInv`): the queue holds the
  messages after the last one taken, in their order; the rows written are for the
  checks in front of the one in hand; the row's counter is positive exactly when the
  last check judged failed; a decision not yet written was taken on the row as it
  is. On a consistent row (`HealthConsistent`) the code's decision is then the
  rule's (`RuleDecides`), though the code keeps a counter and two flags and the rule
  looks at the last two outcomes.
* **The pipeline.** Inside the gate the consumer stutters; the gate's return is
  the consumer's `Dispatch`. `GateFollowsWorker` is inductive with the types of
  the gate.
* **AlertIsNews.** An alert decided and not yet written still differs from the row
  (`RowFresh`), so that writing it makes news; and what is dispatched is news still,
  or its row was not written before the deadline, and then its call gets no further
  than the gate's first query (`NewsAhead`).
* **OneReminder.** Reminders of a user are at most one ahead of those unmarked, and
  not ahead at all while none is marked and no call is about to mark one (`NudgeInv`):
  with one consumer nobody asks between the sending and the marking.
* **NoGaps, NoLag, ClientsServed.** One invariant: the channel holds the updates
  after the last one taken, a snapshot is part of the map, a registered connection
  has been written all that was taken but the one in hand. It says nothing of
  Run once it blocked itself.
* **OnlineIsRecent.** The age of an entry is the age of the last tracked
  heartbeat; only wallets without a recent one have no entry.
* **DatabaseFirst.** The heartbeat marks the rows before it tracks the wallet. The
  strengthening: the rows of a wallet are no older than each heartbeat that is past
  its UPDATE, and no older than the one in memory.
* **PdaFits, ProgressKept.** `PdaFits` is inductive with the types: only Activate
  writes an address, the one of the row it writes to, and only Register changes a
  row's wallet, which marks it. For `ProgressKept` each step is shown to leave email,
  address and flag of the row an account is shown as they are, to move it whole to
  another wallet, or to be one of the exceptions the property names (`RowSuccessor`,
  `OnlyDeleted`); the page is then compared by the row it is computed from. That there is
  a newest row needs `BornInv`: every row was born before the next change.
* **VerifiedByOwnCode.** A code in a row was issued to that row's account, and a
  handler that is about to confirm found its account by the code it carries.
* **ValidatorHasMinimum, RewardsKept.** With the ranges of the amounts they are
  inductive. One lemma (`OneAccount`) says what an instruction owes the
  invariant for the account it changes; each instruction shows that.
* **The composition.** A step of `StakeMirror` is an instruction of the program or
  a step of a handler, never both: each side stutters while the other moves.
  So the theorems of both parts hold of the whole, `CreditedOnce` among them.
* **VaultBacked, MirrorsStake.** The provers know nothing of the sum over a set.
  Its table of partial sums exists for a set of any size, since there is no
  least size for which it does not (`LeastNatural`, from the well-foundedness of the
  naturals); with the table, changing one summand changes the sum by as much
  (`SumChanges`). The vault follows: an instruction changes one account. For the
  mirror, the stake of a wallet's accounts is the sum of the signed amounts of the
  transfers executed on them (`ChainSumKept`), a row's that of the transfers counted
  for its wallet, each as often as it was (`ServiceSumKept`); when each of the
  wallet's was counted once and no other, the two sums have the same summands.
* **Rotation, BatchIsFull.** A fold over a list has values for lists of any length
  by the same argument (`FoldsExist`, `BatchRuns`), so that an invariant of the
  loop can be proved by its step: a monitor before the current one has at most one
  node; the counter of a domain is the number of its nodes in the batch; one that
  was left out below its share left at most one node idle; and the first node that
  checks a domain in the batch is not the one the scheduler remembers from
  before, the last one is what it remembers now.
* **CacheExplained.** The key could be set from a list read long ago. The
  strengthening: while the reader holds a list the key is absent. A list in the
  reader's hand is wrong only about `behind`; one in the cache also about
  monitors whose handler has yet to delete the key, since deleting it takes
  the list away with the reason.

Only model-checked: what must eventually happen (`EventuallySettled`,
`GateReturns`, `PaymentCredited`, `UpdatesArrive`, `GoneIsForgotten`, `CodeWorks`,
`DeletedGoesOffline`), since liveness under fairness and ENABLED are out of the
provers' reach; and with it the liveness parts of the two refinements
`ImplementsConsumer` and `ImplementsRule`. No module declares a recursive operator.

## 6. Not modelled

* `AccumulateReward`, `SetPendingSync`, `GetNodeByPDA`, `DeductCredit`: nothing
  calls them. MatchBatch is modelled although nothing in the repository calls it,
  with its caller as an external step.
* Listing and statistics of monitors and ping logs: they only read.
* A monitor whose `ZADD` fails is never scheduled and `Resume` does not arm it
  again (`services/monitor_service.go:59`). `EndEarly` at `arm` is that failure; nothing
  in the repository says what should become of it, so no property does.
* Users, passwords, tokens: library cryptography around one row.
* Parsing of Solana transactions: `Payments` takes the facts of a transfer as given.
* Signatures, addresses and rent on the chain: taken as the runtime checks them.
  The vault and treasury accounts passed to an instruction are assumed to be the
  program's; the wallets are any. `unstake_request_at` is only ever 0, and
  `RequestUnstake` has no instruction.
* Rows that are registered, moved or deleted between two stake confirmations:
  `Payments` has rows that stay, `RunnerNodes` has rows without amounts.
* Wording and formatting of messages, logging, statistics, CORS, configuration.
* The dashboard's notification toggle: its route's parameter is `id` and the
  handler reads `monitor_id` (`router/router.go:66`, `controllers/telegram.go:120`), so
  it refuses every request and changes nothing. The button of the bot is modelled.
* A connection's first registration with the broker and the start-up order.

## 7. Plan

In this order:

1. The properties of section 4 under the condition that would repair them, as
   theorems: `StakedOnce` when no two handlers confirm one transfer at a time,
   `CodeUsedOnce` and `RelinkInvalidates` when a code is not in two hands.
2. `Payments` with the rows of `RunnerNodes`: a row registered late or moved between
   two confirmations shows only the transfers counted for it since it came.
3. Larger instances of `StakeMirror` where time allows: two mirrored accounts of one
   wallet, two rows of one wallet.
