# Blave Agent trading workspace: formal models

TLA+ models of this repository's trading machine: the reconciler daemon and the
orders it places, the guards around it, the command listener, the bridges that
carry the user's chats to the agent, and the files they share. TLC checks them
on small instances; the main safety properties are proved with TLAPS for every
value of the constants. Source paths are relative to `src/`.

| module | models |
|---|---|
| `Execution` | one symbol: round, executor threads, markers, book, death, restart |
| `AccountGuard` | which account the bot trades: guard, HALT, listener, key changes |
| `OwnShare`, `TwoShares` | bot and user on one netted position, rounds and close-all; the abstract promise it implements |
| `HaltGate` | a start that waits for the next signal |
| `MachineStart` | which reconciler runs after a reboot, a start, a restart |
| `BrokerDesk` | orders to the Taiwan futures broker on the reads of a worker |
| `CommandLoop`, `BacktestJob`, `VersionRestore` | the listener's loop, its background backtest, restoring a strategy version |
| `WorkspaceUpdate` | replacing the code under a running reconciler |
| `HistoryCache` | the cache of market data |
| `TurnSlots`, `WebTurns` | the budget of agent turns; the web bridge (extends `TurnSlots`) |
| `TurnStop`, `TurnReply` | stop pressed on a turn; the text of a turn |
| `TelegramPairing` | which Telegram chat may talk to the machine |
| `ExecutionProofs` | theorems about `Execution` |
| `GuardProofs` | about `AccountGuard` and `HaltGate` |
| `OwnShareProofs` | about `OwnShare`, and that it implements `TwoShares` |
| `SupervisionProofs` | about `MachineStart` and `WorkspaceUpdate` |
| `ListenerProofs` | about `CommandLoop`, `BacktestJob`, `VersionRestore` |
| `SharedFilesProofs` | about `BrokerDesk`, `HistoryCache` |
| `ChatsProofs` | about `TurnSlots`, `WebTurns`, `TurnStop`, `TelegramPairing` |
| `ReplyProofs` | about `TurnReply` |
| `MCExecution`, `MCAccountGuard`, `MCOwnShare`, `MCWebTurns`, `MCTelegramPairing` | instances |
| `MCSideBySide`, `MCChats`, `MCListener` | several parts that share no state in one run |

    tlc -config execution.cfg MCExecution       tlapm ExecutionProofs.tla

## 1. The system

A user's machine runs strategies, one reconciler daemon, a command listener for
the web page, and bridges that let the user talk to an agent. A strategy writes a
target; the daemon makes the account follow it.

    strategies/<name>/signal.py -> state.json            (lib/runner.py)
      x manager/portfolio_config.json                    amounts, weights, styles
      x state/signal_gate.json                           signals a start is to wait out
      -> manager/reconciler.py      polls every 5 s, full round on change or heartbeat
         -> account guard           is this key's account the one the book is of?
         -> lib/portfolio.reconcile book against targets, orders as legs
            -> lib/execute.dispatch_order   market now, or a TWAP / chase / custom thread
               -> lib/venue_wiring          sizing, caps, rounding
                  -> lib/order_<venue>.py   the exchange or broker
         <- manager/orders.jsonl    every fill, one line; its replay is the book
    web page -> runtime/command_listener.py  halt, start, keys, accounts, close-all, backtests
    chats -> runtime/web_bridge.py, telegram_bridge.py -> runtime/agent_turn.py  one turn per message

Everything the processes share is a small file replaced atomically
(`runtime/atomic_file.py`); the writers of one file mostly hold no lock in common.
Inside the daemon run the main thread and one executor thread per symbol; inside the
listener the poll loop, workers and watchers; inside a bridge a poll thread, a dispatcher
and one worker per turn. Between processes, all of these, operator scripts
and the update script act on the same files.

| component | state | operations | what makes it correct |
|---|---|---|---|
| order execution (`lib/execute.py`, round of `lib/portfolio.py`) | legs of the round, thread registry, in-flight markers, fills in memory | start a round, deny, defer, abandon, send, launch, slice, record, reap, restart | no fill is lost silently; nothing is bought twice after a death; a marker stands for a live run; executions and rounds end |
| position book (`lib/portfolio.py`) | `orders.jsonl`, ledger seed | append, replay, seed, zero, write off | the replay is what the bot's orders made of the account |
| venue wiring (`lib/venue_wiring.py`) | none of its own | size, cap, net, restore | a close never sells what the user holds, and leaves no remainder it could close |
| account guard (`manager/reconciler.py`, `lib/portfolio.py`) | `state/venue_account.json`, account record of the seed, round memory | classify a failed read, identify, check, hold, decide, trip | orders follow the account the book was built on; a new account waits for the user |
| kill switch and stops (`lib/guard.py`) | `state/HALT`, in-memory flag, restart stop, account hold, close-all pass | trip, clear, sync, hold | a HALT stops entries wherever it comes from; start is heard; nothing sticks |
| reconciler daemon | singleton lock, heartbeat, round marker | poll, hold for an update, start, be replaced | one trades at a time; none after a reboot before start |
| command listener (`runtime/command_listener.py`) | the command in hand, job and re-run records, report flags | halt, resume, resume_wait, bind, confirm, close_all, backtests, restore | the answer is applied to the question it was given to; the page is current; a panic gets through |
| close-all (`manager/flatten.py`) | lock, marker waits, zero rows | close the bot's share, zero its rows | the bot's positions end flat, the user's stay |
| TW broker desk (`lib/order_president.py`, worker) | snapshot, order marker | claim, log in, send, read | an order rests on a read that shows the earlier ones |
| market data cache (`lib/data.py`) | monthly files or one file with a claimed range | read, extend, batch, migrate | what is never fetched again is there |
| workspace update (`manager/update_workspace.py`) | hold, pending restart | plan, copy, wait, restart, record | no order is cut; replaced code is owed a restart |
| agent turns (`runtime/turn_slots.py`, `turn_stop.py`, `agent_turn.py`) | slot files, stop files, the sink | acquire, reclaim, stop, stream | no more turns than the plan; stop spares what moves money; the chat shows what the history keeps |
| web and Telegram bridges, pairing | queue, leases, offsets, `telegram.json` | poll, file, ack, dispatch; drain, pair, route | a message is answered once; only the linked chat is served |
| strategies' arithmetic, other order and account libraries, paper venue, reporters, research library, shell, templates, release scripts | | | see *Not modelled* |

What is hard here: several threads and processes over files without a lock;
a process that may die between a fill at the venue and its line on disk; orders
whose outcome cannot be read; values read at the start of a round and used at its
end; a HALT that lives both in a file and in memory; a key that changes while a
round is under way; messages leased again after a lost ack; pids handed out
again; a stop that meets an order half sent; a cache extended by two processes.
`PROJECT.json` lists each of these as a hazard at its line,
with the properties that would catch it.

## 2. Execution

One symbol in own-book mode (`lib/portfolio.py`, `_ledger_walk`): the bot diffs
its target against the replay of its own fills, never against the account.

| model | code |
|---|---|
| `pc`, `legs`, `startHalted`, `unflushed` | the main thread in `reconcile`: the legs left, `halted_at_start`, the log lines not yet appended |
| `thread["registered"]` | the entry in `execute._inflight`; `phase` is where the executor loop is |
| `thread["abandoned"]` | a run that ignored its stop and was dropped from the registry |
| `marker`, `mktMarker` | `state/execution/inflight/<symbol>.json`, `<symbol>_market.json` |
| `pos` | what the bot's orders really made of the account; no process sees it |
| `book` | the replay of `orders.jsonl` |
| `resting` | a limit order a dead process left at the venue |
| `halt`, `barred` | `state/HALT`; a restart stop or an account hold |
| `reported`, `acked` | ghosts: the gap the user was asked to verify, and that gap when they last pressed start |

Actions of the round: `StartRound` reads book and HALT once, splits a flip into
a close and an entry. `DenyEntry` is the HALT gate before an entry.
`PlaceHead` is common to all that reach `place_order` (the market marker is on disk by then):
`SkipBarred`, `Defer` (a run of the symbol is in flight; an overdue or flipped one is told to
stop), `Abandon` (the close that no longer waits), `SkipEmpty`, `SendMarket`, `Launch`.
`LegFilled`, `LegFailed`, `LegUnread` are the answers; `FlushLegs`/`FlushLost`
append the lines; `Unmark` removes the marker. The thread: `Slice`, its answers,
`SelfStop`, `LoopEnds`, `Finish` (log), `ReapOwn` (registry and marker),
`RecordLost`. Death and restart: `Die`, `RestingFills`, `Start` (lock, orphan
sweep), `ReapDeadInflight`, `ClearMarkers`, `NothingToReap`. Strategies and
user: `SetTarget`, `PressHalt`, `PressStart`, `Bar`.

Abstractions. Whole lots; each child order is one lot. A below-minimum market
shot at the end of a TWAP and a chase that escalates are further slices. Deadlines are nondeterministic
(`overdue`; `Abandon` any time after a stop), so every timing the code allows is included.
An unconfirmed cancel is an unread fill. The two bars are one, and start
lifts it. The gap between book and account of a *second* cause (the
user trading the symbol, the write-off of `account_short`) is left out:
`pos` is the bot's share. `lib/downtime.py` is imported where present, and is not
part of this repository.

Faults are a constant: `wedge` (a thread ignores its stop for
`_REDUCE_ESCAPE_S`), `unread_fill` (the venue filled, the answer never came),
`lost_record` (the fills could not be appended). Refusals, deaths, orders in
flight at a death and resting orders are always possible.

## 3. AccountGuard

Two processes, the reconciler and the listener, share `.env` (`key`), the ledger
seed (`account`, and the open rows, `book`), `state/HALT` (`halt`) and
`state/venue_account.json` (`guardFile`). The reconciler loads the last once and
writes its `memory` of it back.

| model | code |
|---|---|
| `account` | `venue_account` of the seed: verified id, key fingerprint, the user's answer |
| `book` | ghost: the account on which the open rows were really built |
| `guardFile`, `memory` | `state/venue_account.json`, `_account_guard`: `pending`, `book_hold`, `bind_reset` |
| `halt`, `memoryHalt`, `haltSeen` | `state/HALT` and who set it, `guard._halt_flag`, `_halt_file_seen` |
| `pc`, `uid`, `verdict`, `startHalted` | the round: read positions, read id, check, decide, trip, trade |
| `guardDue`, `knownKey`, `strikes` | `_guard_due`, `_key_fp`, the count of unclassified failures |
| `cmd`, `cmdUid`, `answer` | the command in progress, the id it read, the answer on the user's screen |
| `rebound`, `awaiting`, `blind` | ghosts: a key bound since the round read one; a reset not started since; a fill the account record does not answer for |

`Judge`, `RecordFor` and `CheckAccount` are `book_account_check`; `AccountHeld`,
`HaltOnce` and `HaltAgain` the kill switch as this process sees it. Round: `Poll`
(flag sync, then credentials), `ReadTransient`, `ReadRejected`,
`ReadUnclassified`, `ReadGood`, `Identify`, `CheckBook`, `HoldBook`, `Decide`,
`Trip`, `Enter`, `Close`, `EndRound`; `Die` includes the restart. Listener:
`BindKey`, `BindRead`, `BindCheck`, `PressStart`, `ClearHalt`, `PressHalt`,
`ReadQuestion`, `Confirm`.

Granularity. A read-modify-write of one file with no network call in between is
one step; each exchange read is a step of its own, so a round and a command
interleave there. The HALT, mark and seed writes of a bind that found another
account happen in the code's order inside `BindCheck`; no crash of the listener
between them is modelled. Nondeterministic: how an id read
fails, whether a hold has lasted long enough to ask (three rounds or ten minutes in the code;
from the second held round here), whether positions came back empty, whether the kept account id
changed. The user answers truthfully. One venue, never paper, with an account id
to read; the `unsupported` verdict, a failed venue lookup, unbinding, the outage clock and its notices
are left out.

Two environment faults are excluded in the passing run, because with them the code violates the
properties: `early_start` (start pressed inside a round) and `stale_answer` (an answer
delivered after the next key). All properties are safety; the specification has no fairness.

## 4. The other modules

**OwnShare, TwoShares.** A venue that keeps one net position per symbol shows the sum of what
the user and the bot hold. `own` and `user` are ghosts; the code sees the account
(their sum), `book` (the replay of `orders.jsonl`: quantity and netted lots) and
`short` (the record of an account read short of the book). A round is `RoundStart`,
then its legs: `ReduceFills`, `ReduceNothing`, `ReduceFails`, `NettedExit`, `Forgets` (the
second short read is believed), `EntryFills`, `EntryFails`, `EntryDenied`; `CloseLogged` and
`EntryLogged` write the line a step later. Close-all is `Launch`, `TakeLock`, `Waited`
(for the markers), `ReadBook`, `ReadPositions`, `Restore` (netted lots first), `CloseRow`, `LogClose`, `Zero`, each a step of
its own against the round; two processes may be launched. `TwoShares` is the promise: the bot
opens only while not halted, only ever closes its own, and never moves the user's
share. `OnlyItsOwn` is `INSTANCE TwoShares WITH hand <- user, bot <- own`.

**HaltGate.** `resume_wait` reads each strategy's signal (`ResumeWait`), writes
`state/signal_gate.json` (`WriteGate`) and removes HALT (`LiftHalt`). A round reads HALT and the
states (`Begin`), the gate (`ReadGate`), releases what has changed (`Merge`), and sends
(`EnterLeg`). `waiting` and `asked` are ghosts: what the user does not want
caught up with, and whom they asked to wait.

**MachineStart.** Three places a reconciler may run in (systemd unit, tmux, by hand), the singleton
`lock`, `beat` (heartbeat), the stop `record`, the boot check in its steps (`ListenerRestarts`, `AlreadyRan`,
`StopRecorded`, `StopKills`), the start command (`StartAfterStop`, `StartRestarts`, `StartClears`,
`Ensure`), the web page's `FollowUp`, `Unbind`, and close-all with its one-time `pass`. `"old"` is a
reconciler of a release before the restart gate and the lock.

**BrokerDesk.** Any process may send to the futures broker; none asks it what is
held. `Claim` checks the worker's last `snapshot` against `sendMarker`
and picks the contract month; the login then takes up to `LoginMax`; `Send`, `Recorded`. The worker is
`StartRead`, `ReadPositions` (it also writes the snapshot), `ReadFails`. `Roll`,
`SettlementTime` and `Settles` move the month; `UserBuys` is the user in the same month; `Shows` is the
query's delay. `prompt` and `outran` are ghosts: the last order that left within `Settle` of
its claim, and whether one has left later.

**CommandLoop.** The poll thread (`loop`), the deferred optimizer under `_OPT_LOCK`
(`workers`), and the single-flight report with its two events (`inflight`, `dirty`). A push
reads (`PushReads`) before it arrives (`PushArrives`).

**BacktestJob.** `mgmt_job.json` (`job`), the detached process (`proc`, by pid), the listener's own
child (`handle`) and its `watchers`. Pids are handed out again to other programs; listener
deaths and machine reboots happen anywhere, so a watcher either reaps its child or adopts a stranger's.

**VersionRestore.** The strategy file, the version `index`, `stats.json` (the code it was computed
from) and the quiet re-run of a restore, against backtests of the agent whose write tail
(`lib/runner.py`) looks for a newer restore before and after it takes the results lock.

**WorkspaceUpdate.** The script in its phases (`Begins`, `Stops`, `Copies`, `LooksAtInflight`,
`LooksAtMarker`, `Waits`, `Decides`, `Restarts`, `Records`) against the reconciler
(`HoldSeen`, `RoundMarked`, `Dispatches`, `RoundOver`). `behind` is the replaced code a running
process still executes; `pending` is the restart on record.

**HistoryCache.** Time is counted in half months, so that a month can be cached in part. `parts` is
the monthly directory with each file's mtime, `whole` the single file with the range it
claims. A caller plans what to fetch, fetches, and saves, each a step; batches, the
migration, merging with what another process saved meanwhile (`MergeSingle`), unreadable
files and kills are there. `seams` is a ghost: the months that were cached in part in one of four named ways.

**TurnSlots, WebTurns.** Slot files with an age. `Look`, `Unlink`, `Create` are the reclaim of a
stale slot. The web bridge: the api's `lease` of each message, the poll thread's
`hand`, `queue` and `disk`, the dispatcher (`StartTurn`, `PutBack`), a `Worker` per turn,
`flags` (stop files), and `shown`, what the browser was told. `Die` and `Restart`, expired leases and
lost acks are environment actions. The Telegram bridge is a second process on the same slots.

**TurnStop.** The engine, its tools as sessions of four kinds (plain; named as money by the command line;
a script that becomes money once it has loaded an order library; detached), the watcher that polls the stop file and sweeps the processes (`Notices`, `Sweep`),
`WindUp`, and the desktop shell that kills a runtime which stays silent (`ShellKills`). Claude and Codex
differ in whether a tool outlives its engine, hence `holding` and `waited`.

**TurnReply.** Words as numbers, markup as further tokens. The SDK streams or
not and delivers per block or per message; `sink` has the buffers of `WebSink`, `chat`
those of the renderer, `history` the row kept. `CallsTool` turns what was said into an aside;
`StreamEnds` may resume the turn after an empty reply.

**TelegramPairing.** The api's bot and generation (`backend`), `telegram.json` (`config`), the offset file,
the poller (`PollerReads`, `PollerFetches`, `PollerAnswered`, `PollerApplies`, `PollerSyncs`), the
reset command, and the bridge (`Drain`, `GetUpdates`, `Take`, `PairRead`, `PairWrite`, `Route`).
A message's date is the generation it was sent in.

What all of them share: a read-modify-write of one small file with no call in between is one step;
each call to a network, a process or the user is a step of its own. Deadlines are
nondeterministic unless a property is about them (`TurnStop`, `BrokerDesk`).

## 5. Runs

| run | parts and bounds | states | properties |
|---|---|---|---|
| `execution` | targets -1 and 2 (every flip, both directions), one death at any step, no fault, fair | 0.7 M | `LossIsReported`, `MarkersAreThreads`, `EntryKnowsTheGap`, `ThreadsEnd`, `RoundsEnd` |
| `execution_faults` | targets 0 and 1, all faults, no death, gap at most 1 | 7 M | `RegisteredIsMarked`, `EntryAfterVerdict` |
| `account_guard` | two accounts, three keys (two of one account, exchanged by symmetry), threshold 2 | 7.9 M | `OrdersFollowTheAccount`, `ResetWaitsForStart`, `NoBookAbandoned` |
| `side_by_side` | seven parts, below | 4.8 M | 14 |
| `chats` | turns on shared slots, pairing, stop | 0.4 M | `TurnsInBudget`, `FiledIsAnswered`; `OnlyTheLinkedChat`, `AtMostOnce`, `Converges`; `StopIsExact`, `StopEnds` |
| `listener` | `BacktestJob`, `CommandLoop`, `VersionRestore`, `OwnShare`, fair | 0.5 M | `RecordIsTrue`, `JobSettles`; `PageIsCurrent`, `PanicGetsThrough`; `NumbersMatchCode`, `RerunEnds`; `BookIsShare`, `OnlyItsOwn`, `ExitsEnd` |
| `unread_fill`, `stale_book`, `frozen_hole`, `lost_record`, `netted_short`, `swallowed_note` | one part each | | violations, see *Findings* |

A run of several parts picks one `part` in its initial state and leaves the others
as they are, so its states are the sum and not the product of theirs: it is several
model checks in one. Parts that share state are composed for real: the slot files of
`TurnSlots` under `WebTurns`, the reconciler and close-all in `OwnShare`, the listener and the
reconciler in `AccountGuard`, `HaltGate`, `MachineStart`, the script and the daemon in `WorkspaceUpdate`.

The parts of `side_by_side`:

| part | bounds | states | properties |
|---|---|---|---|
| web turns | three messages in two conversations, two turns at a time, lost acks, two mishaps | 2.1 M | `ExactlyOnce`, `StopHitsItsTurn`, `StartsInOrder` |
| text of a turn | three words | 0.2 M | `ReplyIsKept` |
| machine | three setups, two reboots, two presses, one hand run, two close-alls | 0.4 M | `StoppedUntilStart`, `OneTrades`, `StartTrades` |
| signal gate | two strategies, two signals, three changes, three commands | 0.4 M | `NoCatchUp`, `HeldBackAsAsked` |
| cache | two callers (exchanged by symmetry), two calls, two and a half months, unreadable files, kills | 0.7 M | `HolesOnlyAtSeams` |
| update | three releases, one file of the user, killed and failing scripts | 0.2 M | `NoOrderCut`, `RestartOwed` |
| broker desk | two senders (same symmetry), two sends, logins up to the margin and beyond, clock to 3 | 0.7 M | `OwnMonthOnly`, `SendsInTurn` |

What the properties say is written above each in its module. The ones with the most behind them:

* `LossIsReported`: each fill is in the book, in a living process's memory, told to the
  user, or, while no process lives, covered by a marker on disk. `EntryKnowsTheGap`: an order that
  adds exposure leaves only over the gap the user knew of when pressing start; `EntryAfterVerdict` is
  what remains when fills may vanish.
* `RegisteredIsMarked`: an abandoned run never takes its successor's marker.
* `OrdersFollowTheAccount`: an order that leaves under the key its round was checked with trades the
  account the book was built on, wherever the book's fills all came under a recorded key.
* `BookIsShare`, `OnlyItsOwn`, `ExitsEnd`: the book says what the bot holds, the bot's orders never move
  the user's share, and an unwanted position comes down to nothing.
* `ExactlyOnce`, `AtMostOnce`: what was acknowledged is neither lost nor answered twice.
* `HolesOnlyAtSeams`: a bar nothing will ever fetch again is cached, or lies in a month that
  was cached in part in one of four ways: a batch that asked for part of a month
  (`lib/data.py:504`, `3532-3538`), a file written after its month ended with what was fetched
  before, the migration (`664`), two ranges joined where they touch (`822-828`).
* `StopIsExact`: a stop cuts off nothing that moves money unless the reply says so, and when the turn is
  over everything else is dead.

Bounds. One death reaches every place to die and every state of the next start. Two lots are the
least that make a partly executed run, a flip, and a leg computed over a half-done one. Two
accounts are what a mix-up needs; the second key of one account tells a key from its
account. Two conversations and a shared slot budget are the least that let a message be put back and overtaken. Two
and a half months have a month before, a partial one, and the running one. Larger instances, each passed
alone: pairing with three links (2.3 M states), web turns with two slots, three
messages and liveness (0.4 M), the text of a turn with four words (0.7 M), the broker desk with three
sends and a clock to 5 (27.5 M).

Fairness. Weak fairness of a thread or process means that the operating
system schedules it; every call inside one has a timeout, and watchdogs
(`runtime/reconciler_supervisor.py`, systemd) start a dead process again. So: the daemon's main thread and
executors (`ThreadsEnd`, `RoundsEnd`); the bridge's poll thread, dispatcher and workers, the
ageing of untouched slots (`FiledIsAnswered`); the pairing poller and the bridge, with strong
fairness of the api's answer, which must come now and then (`Converges`); the stop's watcher and the turn's winding up
(`StopEnds`); the listener's poll thread, watchers and return (`JobSettles`,
`PanicGetsThrough`, `RerunEnds`). `PanicGetsThrough` asks nothing of pushes, which may hang, nor of the
optimizer. `RerunEnds` assumes that a re-run adopted from a dead listener ends by itself, since
nothing times it out. `ExitsEnd` needs strong fairness of the venue: a closing order asked again and again
fills at last. Nothing is assumed of the user or the strategies. In a run of several parts the
fairness of a part is asked only where that part's actions can be taken.

Symmetry is used for keys of one account and for callers that differ in name only, both in
runs without temporal formulas over fairness. Deadlock is checked in `execution`, `account_guard`,
`execution_faults` and `listener` (where the parts of the listener may rest; the share may not deadlock). The web turns, a finished turn
and a machine left alone really stop.

## 6. Proofs

Every safety property that a passing run checks is also a theorem. A
theorem holds for every value of the constants that satisfies the named assumption of the module: for
any number of deaths, targets, lots, accounts, keys, bridges, messages, chats, strategies, commands, processes,
months, releases and reboots, and any length of a behaviour. The last column is what it
assumes besides; each fault named there is a switch of the module, described in its header and
in section 7, under which the code does break the property.

| theorem | states | assumes |
|---|---|---|
| `TypeCorrect` | `[]TypeOK` of Execution | |
| `RegisteredStaysMarked` | `[]RegisteredIsMarked` | |
| `EntryWaitsForVerdict` | `EntryAfterVerdict` | |
| `NoSilentLoss`, `MarkersMatchThreads` | `[]LossIsReported`, `[]MarkersAreThreads` | `Faults = {}` |
| `NoBlindEntry` | `EntryKnowsTheGap` | `Faults = {}` |
| `OnlyHaltHidesALoss` | `[](LossIsReported /\ MarkersAreThreads)` and `EntryKnowsTheGap` | no fault but `lost_record`, and no record is lost while a HALT stands |
| `SizedWithinTargets` | `[]WithinTargets` | `Faults = {}`, and no run is recorded while a round has a leg to place (`RecordedBetweenRounds`) |
| `TypesKept` | `[]TypeOK` of AccountGuard | |
| `StartsAreHeard` | `[]StartIsHeard` | |
| `NewAccountWaitsForStart` | `[]ResetWaitsForStart` | no `early_start` |
| `OrdersFollow` | `[]OrdersFollowTheAccount` | no `stale_answer` |
| `NothingAbandoned` | `NoBookAbandoned` | no `stale_answer` |
| `NeverCatchesUp` | `NoCatchUp` | `GateFaults = {}` |
| `OnlyAsked` | `[]HeldBackAsAsked` | |
| `BookStaysTrue` | `[]BookIsShare` | `ShareFaults = {}` |
| `TwoOwners` | `OnlyItsOwn`: OwnShare implements `TwoShares` | `ShareFaults = {}` |
| `OneReconcilerTrades` | `[]OneTrades` | tmux dies when told, the process list can be read |
| `StopHolds` | `[]StoppedUntilStart` | the stop record can be written |
| `AnsweredStartTrades` | `[]StartTrades` | no reconciler died within the last 15 s |
| `NothingIsCut` | `[]NoOrderCut` | no `late_marker`, `long_round`, `split_read` |
| `RestartIsOwed` | `[]RestartOwed` | no `started_meanwhile` |
| `NothingUnreported` | `[]PageIsCurrent` | |
| `RecordStaysTrue` | `[]RecordIsTrue` | |
| `NumbersStayWithCode` | `[]NumbersMatchCode` | no `live_tick` |
| `OrdersInTurn` | `SendsInTurn` | |
| `OneMonthHeld` | `[]OwnMonthOnly` | `DeskFaults = {}` |
| `HolesAreSeams` | `[]HolesOnlyAtSeams` | |
| `BudgetKept`, `HeldStaysFresh` | `[]TurnsInBudget`, `[]HeldIsFresh` | `SlotFaults = {}` |
| `WebInBudget` | `[](TurnsInBudget /\ WorkersHold)` of WebTurns | `SlotFaults = {}` |
| `WebExactlyOnce`, `WebStopHits` | `[]ExactlyOnce`, `[]StopHitsItsTurn` | |
| `WebInOrder` | `StartsInOrder` | |
| `StopsAreExact` | `[]StopIsExact` | `StopFaults = {}`, `CancelAfter < ShellAfter` |
| `ChatStaysLinked` | `[]OnlyTheLinkedChat` | |
| `TurnsAtMostOnce` | `[]AtMostOnce` | `PairFaults = {}` |
| `ReplyStaysKept` | `[]ReplyIsKept` | `ReplyFaults = {}` |
| `HistoryIsWhatWasSaid` | `[]RowIsKept`: the row kept in the history is what was said | |
| `NoteIsLostOnlyToACut` | `[]NoteIsKept`: the note of a stop is in the history unless a suggestion was begun since the last tool | |

An empty last column means: under every fault the module has.

Three of these say that a behaviour of section 7 has one cause. `SizedWithinTargets` excludes, step by
step, only what `stale_book` shows, `NoteIsLostOnlyToACut` only what `swallowed_note` shows, and
`OnlyHaltHidesALoss` only the silence under a standing HALT; nothing else leads there, for any targets,
any number of deaths, any reply.

None of the properties is inductive as it stands. The inductive invariants, layered so that each
proof uses the one below:

* Execution. `Shape`: `TypeOK`, and a leg at the venue is the head of a non-empty list (without it
  `Head(legs)` after `SendMarket` has no type). `FaultInv`: `Shape`; `Quiet` (no thread and nothing
  to flush while the process is down or starting); `HaltStands` (a HALT stands, or all that was
  reported is acknowledged); `RegisteredIsMarked`. `EntryAfterVerdict` follows because every entry
  reads the HALT file in the step that sends it (`EntryReadsHalt`). `LossInv`: `FaultInv` and,
  without faults, no run is abandoned; a thread past its record holds no fills (`HeldByRuns`); a
  round that holds fills, or has an order out, has the market marker on disk (`HeldByRound`); a
  resting order belongs to a dead process whose marker stands (`HeldByVenue`). These make
  `LossIsReported` inductive: at a death, what memory held turns into a gap, and the invariant
  supplies the marker for it. `LossDropped` adds the records that are lost without a HALT. `RangeInv`,
  on top of `LossInv`, for `SizedWithinTargets`: the book, and the book with the round's fills, each
  stay in the range of the targets with what the registered run has filled, with what it may still
  send (`RunFits`), with each leg left (`LegsFit`) and with both legs of a flip (`PairFits`). Both
  books are needed because a death may come before or after the line is written. A range has no
  holes (`Between`), so what the venue fills of an order that fits, fits (`PartFits`).
* AccountGuard. `ResetInv`: an in-memory flag during a round has its file (`MemoryIsDisk`), a reset
  that waits has a HALT on disk or is on its way to the trip (`ResetIsHalted`), and `SeenInv`. For
  `OrdersFollow`, `AccountInv`: the record of a book without a blind fill names its account and a
  key of it (`OwnRecord`), an id that was read is that of its key (`KeyRead`, `IdRead`), and a guard
  with nothing left to ask knows the book's account (`Settled`). `NothingAbandoned` adds
  `AnswerInv`: a question about another account that is still on the screen when the book is of the
  bound key's own account is one that nothing asks or is about to ask any more (`LateAnswer`), and
  none waits while a key is being bound (`BindsUnasked`).
* HaltGate. `WaitInv`: a signal waited on is in the gate or in a command's hand (`Filed`, `Kept`),
  HALT stands until it is in the gate (`Standing`), and a round either saw HALT, or saw the signal
  waited on and leaves the symbol alone (`SeesIt`, `Unlifted`, `Holds`). `AskedInv`: between
  commands a gated strategy is one the user asked to wait, or has no amount; a command on its way
  sees to the rest.
* OwnShare. `BooksInv`: the book with the fill in flight replayed into it is the bot's share
  (`ShareInv`); a close-all at work holds the lock, under HALT, with no order of a round beside it
  (`LockInv`); the book a round started from only shrinks under it (`RoundInv`), and the new side of
  a flip opens from a flat book (`FlipInv`); what close-all is about to send covers the whole share,
  and after it the share is nothing (`CloseInv`). The refinement maps each fill to a trade of
  `TwoShares` and every other step to a stutter; `BooksInv` shows that a closing fill lies between
  the share and zero.
* MachineStart. `AloneInv`: a reconciler from before the lock runs alone (`OldRunsAlone`), so a
  start never puts an old one beside another. `StopInv`: between a reboot that found trading on and
  the next press, the judged machine has its stop on record, and no old reconciler runs under a
  supervisor unless the kill that failed was reported; `PassInv` counts the passes of close-all
  against the requests. `LockInv`, `BeatInv`: a heartbeat that a start would trust has a reconciler
  behind it.
* WorkspaceUpdate. `QuietInv`: from its look at the markers on, the script has a fresh hold, a round
  that runs has a fresh marker, and at the restart there is neither. `OwedInv` follows the replaced
  code through the script: it is on the restart record, or known to an update that has not ended.
* CommandLoop. `PageInv`: one report at a time; what it has not read is marked dirty or about to be
  asked for.
* BacktestJob. `JobInv`: a live run is shown or in the poll thread's hand (`ShownOrInHand`); the
  handle is the recorded run's, and a watcher is of that run or of another pid (`Known`); a result
  read as done was written by the run it is shown for (`ResultIsOwn`).
* VersionRestore. `NumbersInv`: a version number names one code (`IndexShape`), and while the file
  is as it was last restored or run, the current version is that code.
* BrokerDesk. `DeskIInv`: a read that began `Settle` after the last send shows it (`ShownInTime`,
  `ReadingShows`, `SnapshotShows`); the marker is no older than the send (`MarkedFirst`); a claim
  rests on such a read (`ClaimsHold`) and two claims of one contract are `Settle` apart
  (`ClaimsApart`). Nothing is assumed of how long a login takes, which is why the statement speaks
  of orders that left in time. `MonthIInv` adds what a snapshot says of the lots (`LotInv`) and,
  while no order has outrun its claim, `HeldInv`: one order is out at a time, the book is the bot's,
  and an entry or a close is for the month that is held.
* HistoryCache. `CacheIInv`: every month of a directory that is no seam has no hole before its last
  row and none at all once it was written after its end (`DirOK`); a file holds what it claims for
  good (`FileOK`). The same is asked of what each caller has in hand, read before others wrote: the
  directory it migrates, the file it extends, the range it has fetched (`CallerOK`). `Joined` and
  `Consolidates` are the two lemmas with the argument: a union claims nothing over a gap, and a
  migration only the last run of months.
* TurnSlots. `SlotIInv`: a turn holds a slot no other turn holds (`OneOwner`) and its file is fresh;
  a reclaim under way is of no running turn's slot (`ReclaimIsSafe`). The budget then follows from
  an injection into the slots.
* WebTurns. `WebIInv`: memory is what the disk says (`MemInv`), the dispatcher looks up slots for
  waiting conversations without a worker (`ScanInv`), a worker past its turn has a message that is
  over (`RunInv`), the poll thread's hand (`HandInv`), what was acknowledged is kept (`KeptInv`),
  what was answered is known or acknowledged unless its ack was out at a death (`OnceInv`), and
  nothing waits before what was sent earlier in its conversation was handed out (`OrderInv`). For
  `WebInBudget`, `SlotIInv` again, with `WorkersHold`: a worker has a slot exactly from its start to the end of its
  turn. A dispatcher that gives up its look is no step of `TurnSlots`: that has a lemma (`GivingUp`).
* TurnStop. `StopIInv`: what a dead engine left running moves money and is among the names the reply
  will carry (`LeftIsNamed`); Codex is held for such commands and given up only with their names
  (`HoldIsNamed`); where the engine is in each phase, and how long the shell has heard nothing
  (`EngineInv`).
* TelegramPairing. `LinkIInv`: every pairing read, written or about to be written is one the api has
  minted (`ConfigInv`), only the bridge writes a chat (`WriterInv`) and the copy it is about to
  write is of the pairing it has read (`PairInv`); a batch is in order and not below the offset
  (`BatchInv`); what was sent before the pairing is below the offset once the backlog is drained
  (`DrainInv`), which it is before a chat is paired (`FirstInv`); and a pairing that goes takes the
  one turn on its way with it (`LateInv`). For `TurnsAtMostOnce`, `AnswerInv` (what poller and
  command are about to write is what the api says) and `DrainedInv` (a message that was taken is
  below every offset it could be fetched by again).

* TurnReply. `ReplyIInv`: while nobody stopped the turn and it did not fail, the blocks not delivered
  yet are the end of what was said since the last tool, each beginning where the one before ended
  (`Pieces`), and the sink has the rest (`Cut`): it holds it back as the head of a possible marker,
  or has let go of all but the marker (`Caught`). A marker stands at the head of a text or nowhere,
  and a suggestion follows a word (`Shaped`). What the chat has and what it is still owed is what the
  sink has taken (`Drafted`); a picture is the one thing that disturbs this, hence the assumption of
  `ReplyStaysKept`. What the folds over a message's blocks come to is an induction done by hand, from
  the least counterexample (`LeastIndex`, `UpTo`). `NoteInv`: a stopped turn has not failed, and while
  nothing was suggested since the last tool there is nothing to cut in the sink, the open block or
  the blocks before it (`NothingToCut`).

Strengthenings were tried with TLC on a run's instance before they were proved.

Only model-checked:

* liveness (`ThreadsEnd`, `RoundsEnd`, `FiledIsAnswered`, `Converges`, `StopEnds`, `JobSettles`,
  `PanicGetsThrough`, `RerunEnds`, `ExitsEnd`): fairness means `ENABLED`, which is beyond the
  prover.

No module uses a RECURSIVE operator.

## 7. Findings

Each is a run whose property restates a comment of the code and which TLC violates.

| run | comment | what happens |
|---|---|---|
| `unread_fill` | `lib/execute.py:1117` "the reconcile re-diff trues the position up" | in own-book mode the re-diff is against the log that lacks the fill |
| `stale_book` | `lib/execute.py:313` further legs are deferred, the residual is observed next round | a run that records and leaves the registry between the round's read of the book and its dispatch: the same lots are sent again |
| `lost_record` | `lib/portfolio.py:662` the account of each venue's book "outlives a re-seed" | the two writers that seed by themselves (`portfolio.py:905`, `command_listener.py:929`) drop it; the next key is taken for the book's |
| `netted_short` | `lib/venue_wiring.py:378` "the user's own position is exactly restored" | the exit of an entry that netted more than half of the user's position is capped by what the account shows |
| `frozen_hole` | `lib/data.py:641` only the last month can be incomplete | an earlier month cached while it ran and not asked for again is claimed whole by the migration |
| `swallowed_note` | `runtime/agent_turn.py:3772` the note of a stop goes into reply and history | it is appended inside an unclosed suggestion block and cut with it |

One mistake of a model itself came out in a proof and not in a run: `OwnShare` let a netted exit
fill a part of the lots while a flip went on to its entry, which from seven moves on, beyond the run's bound,
sold the user's lots. In the code that is a closing leg of a flip that closes in part, so
the switch `part_flip` now covers the netted exit too.

Windows the passing runs exclude by a fault switch or a ghost; adding the fault to the `.cfg` reproduces each:

| switch | module | what the code does then |
|---|---|---|
| `wedge` | Execution | a close that abandons a wedged run shares its marker: `MarkerCoversFills` (`lib/execute.py:1308`) fails |
| `lost_record` | Execution | fills that cannot be appended while a HALT stands are reported by nobody |
| `early_start` | AccountGuard | a start inside the round removes an older HALT file, the memory flag suppresses the trip: the reset account trades without a start |
| `stale_answer` | AccountGuard | the answer names the venue, not the key; after a rebind to the book's own account it empties that book |
| (`blind`, ghost) | AccountGuard | an unreadable id beside an empty book keeps the old id next to the new key |
| (`Die` ends `awaiting`) | AccountGuard | a death between the reset book and its HALT (`manager/reconciler.py:1217`): the next start trades |
| `part_netted`, `part_flip`, `long_wait`, `late_reduce`, `start_inside`, `by_hand`, `unread_close` | OwnShare | listed in the module's header |
| `resume_inside`, `halt_inside` | HaltGate | the gate is rewritten between a round's reads, or a HALT comes and goes within a round: a catch-up order |
| `unrecorded`, `tmux_survives`, `unreadable`, `stray`, `just_died`, `soon_again` | MachineStart | listed in the header; that strays are gone is not confirmed before the new reconciler starts, which then finds the lock taken |
| (`prompt`, `outran`, ghosts) | BrokerDesk | a login may take 30 s (`LOGIN_TIMEOUT_S`) with a margin of 20 s (`ORDER_SETTLE_S`): a second process may claim on a read begun after the first's claim and before its send, against `_send_lock`'s docstring (`order_president.py:250-254`) |
| `late_fill` | BrokerDesk | a fill reported after the order gave up waiting is not in the book |
| `slow_reclaim` | TurnSlots | the second reclaimer unlinks the file the first has just created (`turn_slots.py:138`) |
| `late_write`, `stale_answer`, `blank` | TelegramPairing | an answer fetched before a reset is written after it and a message may be taken twice; `OnlyTheLinkedChat` holds under all three. Without any of them, too, a reset whose own fetch fails drops the pairing under its own generation, also one the poller wrote since under a newer (`telegram_pairing.py:273-280`); the next tick repairs it (`Converges`) |
| (`undrained`, ghost) | TelegramPairing | a backlog drain that fails is not tried again (`telegram_bridge.py:385-388`) |
| `live_tick` | VersionRestore | a live tick that read the replaced file still writes its results |
| `late_marker`, `long_round`, `split_read`, `started_meanwhile` | WorkspaceUpdate | a restart inside a round; `UnfinishedRestarts` fails for a script that was `killed` or `raised` |
| `blind`, `late_spawn`, `late_money`, `lost_names`, `wedged` | TurnStop | what happens between a sweep's look and its kill, and to names that come back late |
| `image` | TurnReply | a picture in the middle of a reply makes a later `text_replace` repeat what came before it |

## 8. Plan

What was planned and is here: close-all and the netted share, the signal gate, the two-read
write-off, turn slots, the restart stop with its pass, and an abstract promise with its
refinement (`TwoShares`). Next, most important first:

1. `Ledger`: the rows of `orders.jsonl` with cutoffs, contract months and the seed as a file that
   several processes read, change and replace; then `Execution`'s `book` refers to it.
2. `LotGates`: rounding and minimum sizes of a close as functions against a reference.
3. The broker's login protocol (stop after a failure, maintenance windows) beside `BrokerDesk`.
4. `runtime/local_daemon.py` and `report_runner.py`: the desktop's command queue and the retry of uploads.
5. A second symbol in `Execution`, and its refinement to a promise of fills, known fills and reported gap.

Theorems next: a promise of fills, known fills and reported gap that `Execution` implements; the
same invariants for a second symbol, once the model has one; and for each fault switch of section 7
the weakest condition on a behaviour under which the property holds in spite of it, as
`SizedWithinTargets` and `OnlyHaltHidesALoss` state it for two of them.

## 9. Not modelled

* The order and account libraries other than the Taiwan futures broker's are HTTP clients: the models have
  their outcomes. The Capital worker drives Windows COM sessions.
* The lost update between a read and a replace of the ledger seed (`portfolio.py:509`): a change of the seed is
  one step in every model. `lost_record` shows its writers one at a time.
* `lib/downtime.py` is imported where present and is not part of this repository;
  the fallback path of `resume_wait` and the stamp's effect are what is modelled.
* Windows' way of killing a process tree, launchers without a flag file, the desktop's wall clock of a
  turn (`agent_turn.py:4573`), prompts, cards, attachments, formatting and chunking of replies, the web front end.
* `close_symbol.py` and `stop_strategy.py` use close-all's lock, markers and rows for one symbol; amounts,
  secrets, schedules and file commands of the listener.
* Strategies' arithmetic, back-testing, parameter scans, validation, reports and plots: floating-point data with no
  shared state. This is most of `lib/data.py`, `lib/runner.py`, `lib/portfolio.py`'s cost and PnL, `report_templates.py`
  and the two reporters, and the reason why the lines the definitions translate (about 9700) are a
  small part of the repository.
* Paper venue, release and legacy services, the Electron shell beyond stop and chat, templates and
  examples, operator scripts: pure I/O, simulation or packaging. `PROJECT.json` gives the reason for each.
