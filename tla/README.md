# auto-oiltrader: a verification development

TLA+ models of the trading core of auto-oiltrader, the TLC runs that check them on
small instances, and theorems that TLAPS proves for every value of the constants.

## The system

auto-oiltrader is a set of Python daemons, a CLI, a REST API and a dashboard that share
one SQLite database. There are no messages: everything a part knows of another it reads
from a table, at a moment of its own choosing. `daemons/main.py` runs the stream, the
trader, the position manager and the summarizer as threads of one process (the unit files
under `services/` run them as processes); people work through `cli/tradectl.py`,
`interfaces/api.py` and the dashboard, each in a process of its own.

| Component | State it keeps | Operations | Interacts through | What makes it correct |
|---|---|---|---|---|
| tables (`core/db.py`, `db/schema.sql`) | recommendations, orders, positions, cash, marks, commentary | one helper per write, each a `BEGIN IMMEDIATE` transaction | - | one transaction changes one table; the newest cash row is the current one |
| trader daemon (`daemons/trader_daemon.py`, `core/sizing.py`, `core/strategy_loader.py`) | locals of one tick | evaluate strategies, size, stage or fill openings, execute closings | all four tables | every decision takes effect once; limits and halt are respected |
| position manager (`daemons/position_manager.py`, `core/risk.py`) | locals of one tick, marks | mark, decide exits, insert a closing recommendation, set `closing` | recommendations, positions | a closing position has a pending close, and only one |
| people (`cli/tradectl.py`, `interfaces/api.py`, dashboard) | locals of one command | mode, halt, unhalt, approve, reject | all four tables | the last command is heard; a rejected recommendation has no active order |
| database file (`cli/tradectl.py`, `core/db.py`, `db/`) | the main file, its log, backups, cached connections | init-db, migrate, backup, restore, wipe, reseed-cash | the file system | no transaction is lost; what is recorded as applied is applied |
| reconciler (`daemons/reconciler.py`) | one pass | pull positions from IB, compare, halt | positions, cash | a mismatch halts the desk, an alarm has a cause |
| stream daemon (`daemons/stream_daemon.py`, `core/rolling_window.py`) | rolling window, subscriptions, quotes | rebuild, discover chains, subscribe, reconnect, write snapshots | parquet snapshots, positions | subscriptions match the window and what IB sends; held contracts stay subscribed |
| summarizer (`daemons/summarizer.py`, `core/summarizer.py`) | next tick | read the period, write a summary | all tables, read only | every event is in some digest |
| agents (`agents/*.py`, `core/costs.py`) | - | call a language model, log cost | costs, decisions | the monthly budget bounds the spend |
| strategies (`strategies/*.py`, `core/verticals.py`) | parameters | signals from a snapshot | called by the trader | - |
| pure algorithms (`core/dte_policy.py`, `core/risk.py`, `core/rolling_window.py`, `core/pricing.py`) | - | decisions | called | agree with their documentation |

What is hard about it: no lock spans two writes, so every operation that takes two can be
interrupted between them by another thread, by a person, by `database is locked` after
the busy timeout, or by the death of the process; the mode and the list of work are read
once per tick and used stale; the current cash row is whatever sorts last by timestamp,
and not every writer uses the same clock. PROJECT.json lists each hazard at its line.

## The modules

| Module | Models |
|---|---|
| `DeskTables` | the shared tables and one operator per helper of `core/db.py` |
| `TraderDaemon` | `TraderDaemon.tick` with its two handlers and `check_proposed_order` |
| `PositionManager` | `PositionManager.tick`: the rows it reads and writes |
| `HumanOperators` | mode commands, approve and reject |
| `TradeDesk` | the four composed, with crashes, failing writes, fairness, and the properties |
| `PositionBook` | abstract: what the desk promises about positions and their P&L |
| `CashLedger` | the cash table row by row: timestamps, reconciler, reseed-cash |
| `Reconciler` | one pass of the reconciler, while both sides of its comparison change |
| `DatabaseFile` | the database as a file with its log: the commands that create, migrate, copy and delete it |
| `Summarizer` | the schedule of the digests and what they read |
| `MarketStream` | the rolling window, the market data lines, discovery of option chains |
| `ExitRules` | `evaluate_exit` and the prices of a combo, as operators |
| `DtePolicy` | `min_dte_for_new_position`, as operators |
| `PositionLife` | one position under changing prices: admitted, filled, marked, judged, closed |
| `FiniteSums` | the total of a function over a finite set: risk of a book, price of a combo |
| `TradeDeskProofs`, `CashLedgerProofs`, `ReconcilerProofs`, `DatabaseFileProofs`, `SummarizerProofs`, `MarketStreamProofs`, `PositionLifeProofs` | the theorems, one module for each state machine |
| `FiniteSumsProofs` | lemmas on totals, for the desk and for the prices of combos |
| `MCTradeDesk`, `MCCashLedger`, `MCReconciler`, `MCDatabaseFile`, `MCSummarizer`, `MCMarketStream`, `MCPositionLife` | values of constants for TLC |

`TradeDesk` composes the first four modules over `DeskTables` and implements
`PositionBook`. `PositionLife` composes `ExitRules` and `DtePolicy`. The three state
machines `TradeDesk`, `CashLedger` and `PositionLife` look at the same code at different
grains: rows and races, the history of one table, prices. What one of them takes as an
input (what the market quotes, whether a rule fires, whether the policy refuses), another
one models.

### How they correspond to the code

**The desk.** A table is a sequence of records, and the index of a row is its
AUTOINCREMENT id. Of each row only the columns that decide something are kept. A price is
the dollar value of the whole order, mid * qty * 1000 with its sign; order and position
keep it as the code keeps `limit_price` and `open_debit` with `qty`. The current cash row
is one record in `TradeDesk`, as if every row written became the current one. `CashLedger`
shows how far that is justified: always for the writers of `utc_now_iso`, for the
reconciler (which is not part of `TradeDesk`) only in UTC and between ties, and reseed-cash
is left out of `TradeDesk`.

An action ends at one database call, and everything between two calls belongs to the
later one. `trader.pc` names the next call: `"size"` is about to size, `"fillRec"` about to
mark the recommendation executed. Reads that are followed by a decision but no write, such
as `recommendation_has_active_order`, are actions too. Exceptions: the reads inside
`check_proposed_order` are one action, placed at its first read, and `_has_pending_close`
is taken with the insert that follows it, because nobody else inserts closings. What the
strategies signal, what the market quotes, what the DTE policy and the exit rules decide
are inputs, chosen by \E from small sets.

A write that raises sends a handler to the `except` branch of `tick` (`HandlerRaises`,
`HandlerError`), and anywhere else ends the tick. `Crash` kills both daemon threads,
`CommandDies` one person's command; the tables stay. An approved draft order stays
`draft`: the status `submitted` is never written at this commit, so it is left out.
`slipped` is a history variable: nothing in the actions reads it.

**The cash table.** A timestamp is a sort key: two for each millisecond, because the
reconciler's `.123456` sorts below everybody else's `.123Z`. Rows with equal keys come
youngest first, which is what reading the index on `ts` backwards gives. `booked` and
`asked` are histories. `asked` is the mode last asked for, by a person or by the reconciler
halting, with what has undone it since: a reseed, for which nobody asks for a mode, or a row
of the reconciler's own millisecond.

**The reconciler.** A pass reads the mode, then the table, then the account row by row, and
writes in two transactions; `pass.pc` names the next of these. A leg is its identity tuple:
quantities only matter as zero or not, because no code compares them (`report.drift` is
never filled). `owed` is what IB must send before `positionEnd`; later changes of the
account come as further rows and need not come before it. `differed` and `lasting` are
histories: the legs that were on one side only at some moment, or at every moment, since
the pass began. Nothing calls the reconciler at this commit; the model lets a pass begin
whenever none is under way.

**The database file.** `main` is what the main file holds, `wal` what its frames make of
it, `View` what a connection reads. The content of a database is reduced to what the
commands and their promises tell apart: the daemons' transactions, whether there are
tables, the two columns of migration 003, the recorded versions, and where the cash row
comes from. Each database call and each file operation of a command is an action;
`copy2` copies the main file alone, `src.backup` copies the view. A daemon is one cached
connection, which keeps writing to a file that was deleted under it. One person is at
`tradectl` at a time. `scars` and `unclean` are histories. That `settings.toml` exists is
assumed, as it is part of the repository; a copy is taken not to stop half way.

**The digests.** The summarizer reads its sections one after the other, each with a query
of its own; a writer stamps a row and commits it later. A tick may start later than it
asked to, fail, or overrun its boundary. `late` and `broken` are histories. Only the
aligned schedule is modelled (`align_to_clock = true`).

**The stream.** Two threads share the fields of `IBStream`: the stream thread
(`StreamStep`, one action per wait on an answer) and the API thread (`ChainEntry`,
`ChainEnd`). `stream.pc` is the wait: `"discover"`, `"subscribe"` between two futures, or
the future whose chain is awaited. A wait ends with its answer or with its timeout, and the
answer may still come later: `inflight` keeps it, `optParams` and `optDone` take it, for
whichever request is then waiting, as in the code. `lines` is what IB believes, `futSub`,
`fopSub` and `quotes` what the daemon believes. An option is its future and its strike.
Snapshots and ticks are left out.

**One position.** A quote is (bid, ask, last), a snapshot a partial book with a reading of
the chain's IV and spot. All values that may be missing are sets of at most one element,
so that a rule whose input is missing is an existential over nothing. Every actor reads the
newest snapshot when it acts, so a snapshot may come between the pricing of a fill and its
entry context, or between an exit and its close. Quantity is 1. `fresh`, `best` and
`verdict` are history variables.

Bounds of the models: `MaxRecs`, `MaxCrashes`, `MaxFaults` (desk), `MaxRows`, `MaxTime`
(ledger), `LastDay`, `MaxDisconnects`, `MaxRestarts` (stream), `MaxTxns`, `MaxCommands`,
`MaxDeaths` (database file), `MaxTime`, `MaxRows`, `MaxFaults` (digests). `Reconciler` and
`PositionLife` have none: their legs, quotes, views and days are finite sets.

## The runs

| Run | Question | Answer |
|---|---|---|
| `desk_threads` | Both threads loop and interleave, modes change and halt at any moment, one write may fail: is a position sold once and its P&L booked, do the book and every strategy stay within their limits, do halt and loss limit stop openings, is an exit that was asked for eventually done or handed back? | yes, when fills never cost more than `max_loss` (one opening may slip through a halt, a failure may lose one booking; a halt, a failure or an earlier sale excuses the exit) |
| `desk_commands` | With a person, a crash and a failing write: is a recommendation staged once and filled no oftener than the failures explain? | yes, for one person |
| `desk_sequential` | Ticks one at a time, two strategies of different tiers, two prices, all modes, a person: does a closing position have its pending close, does `max_concurrent` hold over positions and staged orders, is `PositionBook` implemented? | yes, without failures, when people leave closings alone and have cancelled no draft |
| `ledger_utc` | With everybody in UTC, is the last command heard and all P&L kept? | P&L yes; the command, unless a reseed or a row of the same millisecond undoes it |
| `stream_roll` | With late and missing answers, a disconnect and a restart, over two days: do the four stores of subscriptions agree, do options go with their future, does an aged future leave? | yes; futures may exceed `max_lines` by the other months |
| `exit_watch` | Under arbitrary snapshots: are exits called by their name, is what is held within its limits, are gains kept, do admission and exits agree, is the policy monotone? | yes, while a combo keeps its sign |
| `recon_pass` | Both sides change while the reconciler reads them: is a complaint about something that was there, and does a lasting mismatch halt the desk? | yes, for a pass that got all rows, and closing positions apart |
| `db_files` | A daemon on the file, commands that die half way: is every transaction kept, every recorded migration applied, the seed replaced by the settings, a restore exact? | yes, when the daemons were stopped in good order, and short of the deaths each property names |
| `digests` | Writers that commit late, ticks that are late, fail or overrun: is every event in some digest? | yes, but for five causes that `EventsReported` names; TLC refutes it without any of them |
| `bug_lost_close` | Does a closing position have a pending close when the threads overlap? | no: a closed position comes back to life |
| `bug_reconciler_halt` | Is the reconciler's halt heard west of UTC? | no: its row sorts below the current one |
| `bug_held_unmarked` | Do positions on a dropped contract continue to be marked? | no: their options are cancelled |

Each `bug_` run is the counterpart of a passing one: it drops the condition under which
the property holds. `bug_lost_close` has the threads overlap, `bug_reconciler_halt` sets
the machine's clock west of UTC. `bug_held_unmarked` needs nothing special: a position is
opened and a day passes. The findings in PROJECT.json quote the statements they refute.

**Bounds.** A second recommendation is enough for one close; a third lets the threads open
again after it, or close again what was handed back, and lets three openings meet limits
that admit two (`desk_threads`); two strategies only matter to slots and
tiers (`desk_sequential`); prices 1 and 2 give a gain, a loss and an even close in both of
these runs, and one loss reaches the halt level. In `desk_commands`, which is about orders
and not about money, one price will do. Two ticks of the ledger's clock and five rows let
rows tie with each other and a reseed edit somebody else's row. One crash and one failing
write are the least that can repeat a fill; the theorems cover any number. Three futures of which two are in the window let
one roll out and one roll in; two strikes with room for one line too few make the budget
bite in the middle of a chain; one disconnect and one restart each meet every point of a
rebuild. Two legs, two two-sided quotes, a last-only and a missing one price credits and
debits through every rule (each of the seven reasons is reached); an iron condor without
its wings sells both strikes, and at one spot they are equally near, one inside its buffer
and one outside; the DTEs lie on both sides of each floor and time stop; a spread and a
single leg of it let positions share a leg, so that one of two can go without a
difference; three commands suffice to create, copy and bring back a file, or to die and
try again twice, and two transactions to have one in a backup and one not; three digests
show each kind of gap between two; the limits are those of `strategies.yaml` and
`settings.toml`, with a strategy that the yaml does not list.

**Deadlock.** The check is off in `ledger_utc`, `db_files` and `digests`, where nothing is
left to do once their bounds are reached, and in `stream_roll`: a tick that needs no
rebuild only writes a snapshot, which the model leaves out, and the days are bounded.

**Fairness.** `desk_threads`: `trader_worker` of `daemons/main.py` loops for ever beside the
other threads, and a tick waits for nothing but its own transactions: weak fairness of the
beginning of a tick, which the model lets begin whenever the desk is not halted, and of its
steps. That a leg which is looked for again and again is at some moment quoted when the
trader looks is an assumption about the market (strong fairness of `CloseQuoted`), without
which a close may be put off for ever, as the code intends. Nothing is assumed of the
position manager, which may stop or go on with stale lists. People may change the mode, halt
and unhalt as they like, but none approves or rejects in this run: see the rejected exit
below. What `ExitHappens` excuses is written in it: a halted desk, a failed write, a
position sold before. `stream_roll`: weak fairness of the stream
thread, whose every wait has a timeout, and strong fairness of `DiscoveryAnswers`: each
tick asks for the list of futures anew, and a connected IB does not let all of these
requests time out.

## Other divergences met, without a run

Met while modelling, and left without a run of their own:

- A person who rejects a closing recommendation writes only the recommendation
  (`core/db.py:535`): the position stays closing for ever, although
  `daemons/trader_daemon.py:691` has a rejected close restore it. `ExitHappens` is checked
  without people who approve or reject.
- A halted desk does not close either: its tick returns before the exits
  (`daemons/trader_daemon.py:372`), so what the manager has put up for exit waits for
  `unhalt`, whatever it loses meanwhile. `ExitHappens` excuses it.
- A refused close is handed back by a second write (`daemons/trader_daemon.py:698`); if that
  one fails, the position stays closing with nothing pending. `ExitHappens` excuses a failed
  write, and `ClosingHasPendingClose` is checked without any.
- A crash between a paper fill and the update of its recommendation fills it again after
  the restart (`daemons/trader_daemon.py:485`); `docs/runbook.md:46` says that restarting is
  safe. `FillsPerRestart` states how often this can happen.
- A rejection cancels the draft orders before it writes the recommendation, which frees a
  slot that the trader may stage again: `max_concurrent` can be exceeded by the rejected
  order's successor. `SlotsBound` says nothing once an order has been cancelled.
- A reconciler pass whose answer times out, or whose connection never came about (`ibapi`'s
  `connect` does not raise), goes on with the rows it has; with an empty book it reports
  OK. `docs/safety.md:67` says that the reconciler refuses to act on stale state.
- The reconciler compares neither quantities nor the legs of closing positions
  (`daemons/reconciler.py:12`, `:141`), takes paper positions for orphans in draft and live
  mode, and is called by nothing (`docs/safety.md:39`). A death between its commentary and
  its halt leaves the alarm without the halt.
- `wipe`, `restore` and `init-db --force` copy the main file without its log
  (`cli/tradectl.py:459`): with a daemon running or killed, the "auto-backup" lacks the last
  transactions, and a daemon that is not restarted goes on writing to the deleted file.
- A migrator that dies between the two columns of migration 003 leaves a database whose
  second column is never added (`cli/tradectl.py:329`): `db/migrations/001_init.sql:7` calls
  the migrations safe to re-run. `RecordedMeansApplied` excludes that death. Likewise an
  `init-db` that dies after the seed leaves the capital of `seed.sql`.
- A digest reports a recommendation in the window of its creation, with the status it has
  at that moment (`core/summarizer.py:193`): one that is executed or rejected after the full
  hour is never reported as such. Positions that are closing are neither among the open nor
  among the closed ones. Of the newest 20 alerts it counts, it lists the newest 10
  (`core/summarizer.py:365`).
- The budget of the agents is never enforced: the query of `core/costs.py:74` calls functions
  that SQLite does not have, so every agent fails before its first call.
- A halt that comes after sizing does not stop the opening at hand, in spite of
  `docs/safety.md:43`; `OpeningsAfterHalt` states the bound of one that does hold.
- Reaching the daily loss limit sets no mode (`docs/runbook.md:74` says it does), and no
  code resets `daily_pnl`.
- The size check compares the signal's `max_loss`, not the price of the fill
  (`core/sizing.py:128`): the book can exceed its limit. `BookRiskBound` assumes fills
  within `max_loss`. The strategy share leaves out staged orders (`core/sizing.py:165`);
  `StrategyShareBound` holds because a staged order never becomes a position at this commit.
- `reject` cancels the orders and then writes the recommendation: an order staged in
  between stays `draft` (`core/db.py:525-535`).
- East of UTC the reconciler's row hides later bookings (`daemons/reconciler.py:273`).
  Even in UTC its row, with microseconds and without a Z, sorts below a row that another
  writer stamped in the same millisecond, and the halt is not heard.
  `reseed-cash`, described as re-applying the capital values (`cli/tradectl.py:473`), also
  replaces a halt by the default mode and the balance by the starting capital (`:274-280`),
  and may edit a row that somebody else inserted in between. `LastAskedIsCurrent` names both
  ways of undoing a mode.
- A chain that answers after its timeout is taken for the answer to the next request
  (`daemons/stream_daemon.py:251`): its options are subscribed as options on the wrong
  future, against `Quote.underlying_local_symbol` (`:76`).
- The stream never reconnects; `docs/runbook.md:65` says it retries every 30 seconds. It
  goes on writing snapshots with the last quotes and a new timestamp, and nothing looks at
  the age of a quote, although `docs/safety.md:66` has stale snapshots rejected and
  `docs/runbook.md:70` stale positions left alone.
- Futures are subscribed without a look at `max_lines` (`LinesBound` states by how many
  they exceed it).
- "defensive close if underlying within 1.5% of short strike" (`config/strategies.yaml:32`):
  of the short legs only the nearest is looked at (`daemons/position_manager.py:158-167`),
  and of two at the same distance the first. The buffer is a share of the strike, so the
  higher one may be under test and the iron condor is held. `HeldWithinRisk` promises the
  distance of one nearest short strike; of all of them TLC refutes it.
- "Time stop (unconditional)" (`core/risk.py:99`): a position with one unquoted leg is
  skipped before its rules are asked (`daemons/position_manager.py:394`).
- "missing data -> conservative interpretation" (`core/dte_policy.py:72`): a missing reading makes its rule
  not apply, and the trader never supplies realized volatility or news, so the high
  volatility floor of 14 and the news blocks never apply to it.
- The rules compare absolute values: a debit combo quoted below zero counts as a gain
  (`KeepsSign` excludes it). A quantity above 1 is counted in the legs' ratios and again
  in the position's `qty`, and the trailing stop's proxy does not grow with it.

## The proofs

Every safety property of the passing runs is a theorem, for all values of the constants
that satisfy the named assumptions of the modules: any number of recommendations,
positions, legs, futures, strikes, writers, backups, crashes and failing writes, and
overlapping threads unless stated otherwise. Where a theorem needs more than the
assumptions, the hypothesis stands in front of `Spec`, under its name:

| Hypothesis | Says | Needed by, and where it comes from |
|---|---|---|
| `OnePerson` | one person works at a time | `StagesOnce`, `BookWithinLimit`, `SlotsHold`; `approve` writes a read order back, so two people can revive a cancelled one |
| `PricesWithinLoss` | no fill costs more than the `max_loss` it was sized with | `BookWithinLimit`, `ShareWithinLimit`; the code sizes with one and records the other |
| `Sequential` | ticks take turns, nothing fails, people leave closings alone | `ExitsStayPending`, `DeskKeepsBook`, `SlotsHold`; how `--once` and the tests run the daemons. `bug_lost_close` shows the first without it |
| `Offset = 0` | the reconciler's machine is in UTC | `LastAskedIsHeard`; `bug_reconciler_halt` shows the rest |
| `Offset <= 0` | its clock is not ahead of UTC | `PnlIsKept`; east of UTC a row of the reconciler hides later bookings |
| `RulesBite` | profit targets and stops are above zero | `ReasonsAreNamed`, `HeldPositionsAreSafe`, `FreshIsKept`; true of `strategies.yaml` and of the defaults of `daemons/position_manager.py`, asked by no code |
| `FloorsAboveStops` | each DTE floor that may apply to a strategy is above its time stop | `FreshIsKept`; true of `settings.toml` and `strategies.yaml`, which nothing compares |
| `FloorsRise` | the floor of a worse case is no lower | `PolicyIsMonotone`; true of `settings.toml` |

Each run satisfies the hypotheses of the properties it checks.

### The desk (`TradeDeskProofs`)

- `Typed`: `TypeOK` with `Placed`, which says what a program counter implies about the
  locals: the recommendation at hand exists, it is an opening in the opening branch, the
  position a closing recommendation names exists. `TypeOK` alone is not inductive:
  without `Placed` a write could be applied to row 0.
- `HaltStopsOpenings`: strengthened by `Halted`. Between admission and insert the trader
  holds at most one opening (`pc` in `draft`, `paper`), and when `slipped` is already 1 it
  holds none, because sizing looks at the current mode.
- `LossHaltHolds`: an admitted opening was sized when the limit was not reached, and only
  the same thread books P&L (`LossChecked`).
- `FillsBounded`: `FillBudget` counts fills against crashes and failing writes. A
  recommendation the trader may still come to fill (`Fresh`) has one fill less than the
  failures allow, and a handler in its `except` branch has one failing write in hand: only
  when the write of `rejected` fails, too, does the recommendation stay pending.
- `StagesOnce`: between the look for an active order and the insert there is none
  (`NoneStaged`), and what a person is about to write back is the draft it was
  (`DraftsStand`).
- `ClosesOnce`: the threads work on lists that may be stale, so the invariant is about every
  closing recommendation that may still act or has acted (`Alive`), whatever its status:
  a position has one, and none while the manager's list holds it (`OneExit`). A pending
  recommendation has no filled order unless the trader is between the fill and its last
  write (`FilledOnce`).
- `PnlAddsUp`: the sum over the closing orders is carried by `Earned`, and the difference to
  the cash row is the booking under way (`Unbooked`) and the lost ones. `Booking` adds that
  the sale under way is none of the lost: when a crash or a failing write cuts it off it
  joins them (`SaleLost`), and each failure can cut off one. Filled orders stay filled under the
  hands of people who write back what they have read (`FillsSafe`, `FillsKnown`).
- `BookWithinLimit`, `ShareWithinLimit`: `BookKept` is about what is owned, that is not yet
  sold, rather than what is held: `closing` may come back over `closed` (`bug_lost_close`),
  and then the table shows a position that the desk has sold (`SoldFirst`). An admitted
  opening counts with its price, which its `max_loss` covers (`LossesKnown`). That only one
  thread opens positions is what lets the check and the insert be two steps.
- `ExitsStayPending`: `Turns`, one thread at a time, with the closing recommendation already
  there when its position is set to `closing`.
- `DeskKeepsBook`: the step simulation behind the refinement `KeepsBook`. `BookReady` is
  what the mapping needs of a state: the manager's list is not stale, a position has
  realized nothing before it is closed, what the trader closes was put up for exit.
- `SlotsHold`: `SlotsInv` counts the recommendations of a strategy that wait for a slot
  together with positions and staged orders (`Used`). It is what makes `slots`, counted
  before signals are emitted, right when the last of them is filled. An opening that stays
  pending is staged, or the tick comes to it (`Served`).

`FiniteSumsProofs` has what these sums need: the total of a set is that of a part and the
rest, changes by the element that is added or removed, and grows with the summands. The
induction theorems of the library take an operator; `SubsetInduction` states induction
over finite sets for a set of subsets, from the well-foundedness of strict inclusion.

### The other state machines

`CashLedgerProofs` proves `LedgerTypes` and `WatermarkHolds` for any clocks, `PnlIsKept`
under `Offset <= 0` and `LastAskedIsHeard` under `Offset = 0`. A row is current because none
is newer (`Newest`), of a tie the youngest, and there always is one (`HasCurrent`). An
appended row becomes the current one if its stamp is not below, and otherwise nobody sees
it (`Appended`). When no row is ahead of the clock (`NoneAhead`), whatever is stamped in UTC
is seen at once; the reconciler's row, half a millisecond below, is seen unless the
current row is of its own millisecond.

`ReconcilerProofs` proves `TypeCorrect`, `RealAlarms` and `LastingMismatchHalts` for any
positions, legs and quantities. The argument: one step changes the positions or the
account, never both, so a leg that has agreed at every moment of the pass, or at none, has
not changed sides since the pass began (`Unmoved`), and what was read of it, however early,
is still true (`LoadedInv`, `OwedInv`, `RowsInv`). `PassInvariant` is that argument as an
invariant; the two properties follow by comparing the reading with the present.

`DatabaseFileProofs` proves `FileTypes`, `DeletesLoseNothing`, `RestoresExactly`,
`MigrationsRecorded` and `SettingsReachTheDesk`. `NothingLost` says nothing of the log, and
without the log it is not inductive: a delete copies the main file alone. `DbInv` adds
where a log can be. In good order a log belongs to somebody who has the file open
(`LogInUse`), nobody writes to a deleted file (`NoneDeleted`), so what is about to be
deleted is not in use and its copy is complete (`CopiedFirst`). Without a file there is no
log but the one a dead delete has left (`NoStrayLog`), so no frames are replayed over the
backup that is put in place (`PlaceEmpty`). The steps that write what they have read are
treated together (`WriteStep`): whatever they change, the transactions stay. `HalfwayInv`
is about what a reader finds between two writes of one command: a seed only before the
settings (`SeedBetween`), half of a migration only between its two columns
(`HalvesBetween`), a recorded version only with its columns, in the file, its log and every
backup (`RecordedFiles`). The premises of both theorems carry over to copies, because a
backup of a half-made file is a half-made file.

`SummarizerProofs` proves `DigestTypes` and `EventsAreReported`. The invariant speaks of
rows that are not yet committed, too: each has its place before anybody can see it
(`Placed`). A tick is due one interval after the one before, unless a lost or overrun tick
lies between (`NextInLine`), and of the sections it has read it has found every row that is
due and neither late nor crowded out (`SectionsRead`).

`MarketStreamProofs` proves `StreamTypes`, `LinesStayAgreed`, `OptionsLeaveTogether`,
`WindowIsSubscribed` and `LinesAreBounded`. `StreamInv` ties the four stores together
(`Distinct`, `Quoted`, `Sent`) and says which futures are subscribed at each point of a
rebuild (`Followed`); `Counted` keeps room for the future whose chain is being subscribed.
`OptionsFollowFutures` is preserved because options are labelled with the future that was
asked for, right or wrong. For the bound of the request ids, `StreamTypes` needs that no
future is subscribed twice by one process: what was chosen stays chosen until it is too
old (`OnceEach`), because the futures before it only get fewer, and each id is one of a
future or of an option that came for the first time (`IdsSpent`).

`PositionLifeProofs` proves `LifeTypes`, `ReasonsAreNamed`, `HeldPositionsAreSafe`,
`GainsAreKept`, `FreshIsKept` and `PolicyIsMonotone` for any strategies, legs, rules and
quotes. The invariant `Judged` is that a verdict stands: until there is something new to
judge it is what the rules say of the present position and snapshot, and the peak is the
best mark of the whole life. The properties follow by cases over the order in which the
rules are asked. `FreshKept` adds that a position just opened is worth what was paid for
it. `PolicyIsMonotone` compares the floors of two markets that differ in one reading.

### Only model-checked

Liveness stays with TLC: `ExitHappens` and `Rolls` need fairness and ENABLED, which are out
of this prover's reach. So do the three `bug_` runs, being counterexamples. What a pure
algorithm computes is proved for all inputs where a property speaks of it (the exit rules,
the floors); strike selection and the numbers of `core/pricing.py` are not modelled.

## The plan

1. Done: all modules above, and a theorem for every safety property of the passing runs.
2. Two people on one recommendation; two daemons started at once; two people at `tradectl`
   on one file.
3. Proofs: what of `ExitHappens` and `Rolls` is safety (each step of a tick leads on, no
   step leads back); `DeskKeepsBook` with overlapping threads, for a book that admits the
   lost close; `OptionsFollowFutures` for the true underlying, when no chain times out.

Not modelled, and why: option pricing and strike selection (floating point), texts of
summaries, notifications and dashboards (formatting), the language model (external), the
agents around it (they fail before they change any state, see above), the stubs
(`learning_loop`, `news_collector`, `critic`, `butterfly_pin`).
