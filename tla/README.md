# A verification of steadyhand

steadyhand is a paper-trading engine for patient investors on the Indonesian
stock exchange: a Python core (`packages/steadyhand`), its Indonesian market and
command line (`packages/steadyhand-idx`), and a browser extension
(`extension/packages`) that gives the same advice beside a broker's page. This
directory holds TLA+ models of it, what TLC checks about them on small instances
and what TLAPS proves about them for every instance.

Contents: [inventory](#inventory) · [modules](#modules) ·
[runs](#runs) · [the paper account](#paperaccount) · [the
configuration](#settings-and-configfile) · [the portfolio](#portfolio) · [the
simulated broker](#simulatedbroker) · [the engine's day](#engineday) · [the saved
state](#snapshot) · [results](#reports-and-results) · [the
exemption](#exemption) · [the strategies](#strategies) · [the market's
rules](#marketrules-and-figures) · [income](#income) · [prices from
Yahoo](#pricefactor-and-yahoosource) · [the bar cache](#barcache) · [the
backtester](#backtestfetch-and-backtest) · [the side panels](#sidepanels) · [what is
proved](#what-is-proved) · [disagreements](#where-code-and-text-disagree) ·
[what is left out](#what-is-not-modelled) · [next](#plan)

## Inventory

| Component | State it keeps | Operations | Hard behaviour | What makes it correct |
|---|---|---|---|---|
| **Paper account** `steadyhand_idx/state.py, paper.py`, commands of `cli.py` | `state.sqlite`: the account row (encoded `EngineState`, strategy, last day), and append-only `day_reports`, `audit`, `runs` | `paper run`, `resume`, `paper switch`; `StateStore.save` and `finish` | several processes read, work for a while, and save only if `last_day` is unchanged; killed anywhere; first runs racing the clock | each day saved once, in order, without a gap; a halt survives all but its resume; the tables agree |
| **Configuration** `config.py`, `cli.py`, `output.py`, `paths.py` | `steadyhand.toml`; the settings saved beside the account | `init`, `training`, an editor, every load | read twice and replaced by one command while others read; bounds written in three places | a run's settings were saved together and none is refused later |
| **Portfolio** `portfolio.py` | positions, a ledger of movements with settlement dates, a cached balance and open movements | deposit, dividend, charge, split, buy, sell | cash that settles later; caches that must equal the ledger; rounding of the cost basis | cash as the ledger defines it; nothing spent twice |
| **Simulated broker** `broker/simulated.py` | one day's session: traded value, proceeds, whether anything was bought | fill each order, close the day | sells fund the duty but not the buys; a buy is trimmed lot by lot | never overdrawn; no buy cut more than needed |
| **Engine day** `engine.py`, `corporate.py`, `sizing.py` | `EngineState`: holdings, pending orders, entitlements, frozen stocks, last closes, unit value, halt, memory | `run_day`: validate, freeze, actions, fill, claims, value, halt, top up, decide | order of the steps; splits against pending orders and dividends; a halt is sticky | value is cash plus holdings; entitlements paid once; nothing ordered while halted |
| **Saved state** `snapshot.py` | none; the document of the account row | encode, decode | what is saved is only part of what is in memory | the next day cannot tell that it was saved |
| **Reinvestment exemption** `exemption.py` | open claims, their protections, the first day of a shortfall | cover by buys, tax at the deadline, break after the grace | claims compete for buys; a shortfall lasts over days | what is exempt plus what is taxed is the dividend |
| **Risk controls** `risk.py` | unit value and high-water mark | revalue, deposit, halt, cut orders | top-ups must not look like gains; rounding | limits hold after cutting |
| **Strategies** `strategies/*.py`, `view.py` | memory carried by the account | decide, once a day | reviews by year and month; decimals that round; splits in the history | new cash is spent once and where it may be; picks are justified |
| **Backtester** `backtest.py`, `universe.py` | ranges fetched, refused days, the state carried | fetch around refusals, look back, run the days, warn | recursion around a refused day, stale closes | what the engine is handed is what the source said |
| **Bar cache** `cache.py` | SQLite: bars, actions, fetched ranges | store, fill gaps | conflicts roll back; refused gaps; today is never stored | a day served is a day fetched; ranges do not lie |
| **Market rules** `rules.py, fees.py, bands.py, ticks.py, calendar.py` | dated tables | load, look up | boundaries of dates and prices | the ends of a band are exact; costs are never owed back |
| **Yahoo source, factors** `yahoo.py, factor.py` | runs of a stock, read once | fetch, reverse splits, recover factors | prices adjusted by factors nobody reports | what is answered is what was traded and paid |
| **Income, metrics** `income.py, metrics.py` | none | pure functions of reports and histories | restatement by splits, year windows, rounding | the figures agree with the ledger and with each other |
| **Training, terms, notes, pages** | none | texts | – | – |
| **Extension history** `history/src` | IndexedDB stores | migrate, record, summarise, forget | several panels on one database; an old panel blocks a migration | a record is whole |
| **Extension risk state and memory** `core/src/risk-state.ts, strategy.ts` | fold of the record; stored memory | halt, resume, remember | readings out of order; settings changed in between | as the Python risk controls |
| **Extension panel** `shell/src/panel.ts, record-read.ts` | a promise queue of jobs, what is drawn | redraw, read, settle, forget | jobs against messages and other panels | what is shown was computed from what is stored |
| **Extension readers** | none | parse a broker's page | – | – |

How they interact. `cli.py` starts one process per command. `paper run` loads
`steadyhand.toml`, reads the account from `state.py`, asks `cache.py` (and through
it Yahoo) for the days' inputs, and for each day calls the pure `run_day`, which
drives the broker, the corporate actions, the claims, the risk controls and the
strategy over an immutable `Portfolio`, then saves the result in one SQLite
transaction. The backtester calls the same `run_day` over a history. Metrics and
the income pages are worked out from the day reports. The extension repeats the
rules in TypeScript over an IndexedDB record that its panels write.

The hazards this code is exposed to, each at its line with the properties that
catch it, are listed in `PROJECT.json` under `hazards`.

## Modules

| Module | Models | Builds on |
|---|---|---|
| `DayJournal` | what the paper account promises: days entered once and in order, a halt that only a resume lifts | |
| `PaperAccount` | the account and its three commands as interleaving, killable processes | refines `DayJournal` |
| `Settings`, `ConfigFile` | what the configuration may say; who reads and rewrites its file | |
| `Portfolio` | ledger, cash and cost | |
| `SimulatedBroker` | a day's fills | `Portfolio` |
| `UnitValue` | the account as a fund of units | |
| `EngineDay` | `run_day` as its ordered steps | `SimulatedBroker`, `UnitValue` |
| `Snapshot` | the state saved and read back | `EngineDay` |
| `Reports`, `Results` | metrics and received income; the day's report | `EngineDay` |
| `Exemption` | claims and protections | |
| `Fractions`, `MarketRules` | roundings; ticks, bands, fees, calendar | |
| `Strategies` | the three strategies and their memory | `MarketRules` |
| `Income`, `Figures` | run-rate, growth, projection; the questions asked | `Reports`, `MarketRules` |
| `PriceFactor`, `YahooSource` | the proof of a factor; what Yahoo's numbers become | `MarketRules` |
| `BarCache` | stored rows against fetched ranges, two processes | |
| `BacktestFetch`, `Backtest` | the search around refused days; lists, look-back, inputs, warnings | |
| `SidePanels` | two panels over one record, halts and resumes | `UnitValue` |
| `PaperAccountProofs`, `ExemptionProofs`, `BarCacheProofs`, `SidePanelsProofs` | theorems | the module named |
| `EngineDayProofs`, `FetchProofs`, `StrategiesProofs` | theorems | `Snapshot` and `Results`; `Backtest` and `YahooSource`; `Strategies`, `Figures` and `ConfigFile` |
| `SumProofs` | induction, sums over finite sets, functions defined step by step, division, dated tables | `MarketRules` |

The `MC…` modules give the constants that a configuration cannot write.

## Runs

| Run | Instance | Asks |
|---|---|---|
| `account` | three commands, two strategies, three days, catch-up cap one | can interleaved and killed commands lose, repeat or skip a day, lose a halt, or make the tables lie; is the account a day journal |
| `account_ends` | the same, fair | does a started run end |
| `portfolio` | two stocks, three days, four movements | do the caches give the ledger's cash; does a sale overstate its gain |
| `engine` | two stocks, four days, two corporate actions or exclusions | sizing, fills, splits, dividends, freezes, halts, deposits; the saved state; what is reported |
| `exemption` | ten days of three short years, two dividends | is every rupiah accounted for |
| `cache` | two readers, six days, one revision | is an answer whole and what the source says |
| `fetch` | six days with a holiday, four dates of lists | does the search end; do inputs and warnings tell the truth |
| `source` | four days, three tick grids, two reads | is what is answered what was traded and paid |
| `strategies` | three stocks, nine days; small tables; small incomes; one file | decisions, tables, income, settings |
| `panels` | two panels, three days, four instants | do halts and resumes mean what they say |
| `resumed`, `weights` | violated | the [disagreements](#where-code-and-text-disagree) |

Some properties are conjunctions of named parts, one per aspect of a hazard:
`StopsLast` of `FrozenForGood` and `HaltedForGood`, `OrdersFit` of
`SalesAreCovered` and `BuysFit`, `PricesAndCostsAreExact` of `BandIsExact` and
`CostsAddUp`, `InputsTellTheTruth` of `EveryDayIsDecided` and what follows from it.

Deadlock checking is off everywhere: each process runs once, each calendar has a
last day, each count of reads, saves or questions a bound, so that every instance stops.

## PaperAccount

`PaperAccount.tla`, checked through `MCPaperAccount.tla`.

**State.** `account` is the row of the `account` table, decoded: the day it was
opened, the strategy, the last day, the days whose movements the encoded state
holds (`booked`), the day of the halt (0: none), whether the unit value is at or
past the drawdown limit (`deep`), and whose memory the state carries. `reports`,
`audit` and `runs` are the append-only tables; `config` is the strategy
`steadyhand.toml` names; `today` is `target_day(now)`. `pc` and `job` are each
process's place and local variables.

**Actions.** One per stretch of code between two accesses of the database:

| Action | Code |
|---|---|
| `StartRun` | `run_paper` up to `day_inputs`: target, strategy check, `days_to_run`, the catch-up cap |
| `Fetch` | `day_inputs`, which may fail |
| `RunOne` | `_run_one` before the save: read the account again, skip a day already saved, refuse stale data, `run_day` |
| `SaveDay` | `StateStore.save` of a day and the loop's next turn |
| `CloseRun`, `FinishRun` | the last read of the account; `StateStore.finish` |
| `AskResume`, `AskSwitch` | `check_resume`, `check_switch` up to the question |
| `Confirmed` | the typed answer and `_save_change` |
| `Killed` | a process that dies (SQLite rolls back), or is answered otherwise |
| `EditConfig`, `DayCompletes` | the operator and the clock |

A saved row replaces the whole row, as the `ON CONFLICT` clause does. A command
that is refused writes nothing and has no action. What `run_day` computes is
`DayRun`: any day may go past the drawdown limit or fall by the daily limit; a
halt already raised stays; a halted day leaves the memory alone. The limits are
taken as fixed: `PastTheLimitIsHalted` speaks of the limits the days ran with,
and an operator who edits `max_drawdown` may of course resume below it.

**Assumption.** `OpeningRace = FALSE` says that no trading day completes while
a *first* run is between its start and its end. With it `NoDaySkipped` and
`RunsTellTheTruth` hold; without it they do not (see below). The theorems that need it
say so.

**Runs.**

- `account` (three commands, two strategies, three days, a catch-up cap of one):
  all safety properties and the refinement of `DayJournal`. Three commands are
  enough for a day computed before and saved after two others of any kind; three
  days for a run that catches up while another saves in the middle; a cap of one
  for both sides of the cap.
- `account_ends`: under weak fairness of a started `paper run`, it ends. The
  fairness is that of the operating system: a running process goes on. Starting a
  command and answering a question are left to the operator, so no fairness is
  assumed for them, and a command waiting for an answer may wait for ever.
- `resumed`: the disagreement below.

## Settings and ConfigFile

`Settings.tla` is `config.py` with the registry's settings: which keys a file may
hold, their defaults, what `load` refuses (`Loads`), what it hands to the
constructors (`Config`) and what each of those refuses by itself. The bounds are
written in three places of the code, and so here. A value is what TOML gives; of the
layout only the form of the `[training]` table is kept.

`ConfigFile.tla` is the life of the file. `Create` and `Write` are the two steps of
`init`; `ReadText`, `Replace`, `CheckRewritten` and `Restore` those of `training`,
which reads the file, changes the line of its level, replaces the file, loads it again
and puts the old text back if that fails; `Save` and `SaveNew` are the operator's
editor, at any time; `StartRun`, `RunDay` and `Switch` are paper runs, which load the
file and write an audit line for each setting that is not what the last day had. Every
command may be killed between two steps. In the `strategies` run three edits may be
saved (`SaveBound`) and two days run (`DayBound`), one of them under the other
strategy; the edits cover each kind of refusal (by type, by range, by a
constructor of a strategy that does not run, no consent).

`SettingsAreTheOperators` says that the settings a run goes on with were saved
together and that nothing refuses them later, that `training` changes the level or
nothing, and that the audit log read from its start gives the settings of the last day
run.

## Portfolio

`Portfolio.tla` models a snapshot of `portfolio.py`: `positions`, `ledger` (the
chain, oldest first), `balance` and `open` (the cached open movements, as places in
the ledger). Each public operation is an action with the method's arguments; a
call the code refuses with an error has no step. `CallsSpec` makes any legal
sequence of calls; days may repeat or be skipped but never go back, as
`_require_not_before_last` demands. Charges may take the cash below zero, as the
code allows: nothing in `charge` looks at the cash.

The `portfolio` run bounds the ledger at four movements (`MaxMovements`), which
is enough for a deposit, a buy, a sale and a second buy before the sale settles, and
splits holdings of at most four shares (`MaxShares`). The properties say that the
caches give the cash that the ledger defines on any day, past ones included, and
that partial sales round the released cost up. That no buy spends what has not settled
is checked with the broker, which alone buys.

## SimulatedBroker

`SimulatedBroker.tla` extends `Portfolio` with a day's session and uses it only
through its operations. `OpenDay` queues at most one order for each stock, as the
sizer places them; `NextInLine` is the sort that puts sells first; `BuyOrder`,
`SellOrder` and `Refuse` are the three fates of an order; `CloseDay` books the
duty. A share stands for a lot, and a price is the price of a lot. A fill may
take any price and any cut for volume, so slippage, ticks, bands and volume are
abstracted to a choice; fees are a rounded-up fraction of the value and the duty
a fixed sum above an exempt value, as `fees.py` defines them.

It is checked as part of the `engine` run, over everything the engine does with it:
with sales settling two days later a day still has unsettled proceeds of one before, and a
sales-only day with duty leaves the spendable cash negative for the day after, though
the settled cash is negative on none (`NeverOverdrawn`). `MostLotsBought` says that a buy is cut to the
largest number of lots that can be paid, with its fee and the duty it may bring.

## EngineDay

`EngineDay.tla` extends `SimulatedBroker` and models `run_day` of `engine.py` with
what it calls: `corporate.py`, `sizing.py` and `risk.py`. `run_day` is one pure
function; the phases of the module are its stages, in its order, so that each has
its own choices of the world and each can be looked between:

| Action | Stage of `run_day` |
|---|---|
| `StartDay` | `_freeze_excluded`; splits and entitlements of `apply_actions` |
| `Pay`, `PayTax` | each dividend that is due, then its tax |
| `OpenMarket` | actions that freeze; which stocks have a bar, at which close |
| `Fill` | `_fill`: the broker's three fates of an order |
| `CloseSession` | `SimulatedBroker.close_day` |
| `Revalue` | last closes, unit value, halt, the month's contribution |
| `Decide` | sizing, the risk limits, the orders for tomorrow |

A share stands for a lot. The strategy may give any weights from `Weights` and buy any
part of what trades. Dividends are on all shares held at the last close, before the
day's splits; what becomes of the shares afterwards does not matter to them. The unit
value is kept in fixed point with one part in `Scale`, rounded down as the code
rounds its decimals of 28 digits: the coarser grain makes the rounding visible.
`worth` and `earned` are histories the code does not keep, and `events` bounds the
corporate actions.

Left out: the check of closes against the price band, which refuses a whole day before
anything changes; a second split on the same day; odd lots; a minimum of several
lots per order; the strategy's memory (in `PaperAccount`, as whose it is); and the
claims of dividends (in `Exemption`), so that every dividend is taxed when paid.

The `engine` run takes two stocks and four days, two corporate actions or exclusions
anywhere in them, closes of 2 or 3 or none, and a contribution on day 3. A capital of
6 buys up to three lots, so weights, limits, cash and fees all bind. Four days allow an order to
be queued, filled, split and sold, a dividend earned before and paid after a sale,
and a halt with days after it.

## Snapshot

`Snapshot.tla` is `snapshot.py` for the engine's state: `EncodeState` writes what a state
is made of, `DecodeState` reads it back, working out again what the portfolio keeps
beside its ledger, and `Readable` is every check that the constructors make on the way.
A backtest never leaves memory while each paper day starts from a saved row, so
`SavedStateCarriesOn`, checked in the `engine` run after every day, is what makes the two
the same. Claims, shortfall and memory are left out, as the engine run has none.

## Reports and Results

`Results.tla` adds to the engine what a day reports (`DayReport`) and wraps the engine's
actions so that each records its part. `Reports.tla` is what is worked out from reports:
the sums and the drawdown of `metrics.py` and the received income of `income.py`, by
day, month and year. `ResultsAddUp` compares all of it with the ledger, which the code
never does. In the four days of the run dividends are paid only near the end, so that
the year's window matters more in `RunRateWasPaid`, over the incomes of the `strategies`
run. What is annualised is a root and is left out.

## Exemption

`Exemption.tla` models `exemption.py` with what surrounds it in a day: `Pay` is the
branch of `_Actions.pay` that opens a claim or taxes at once, `Buy` what
`cover_claims` does with one fill and what the fill adds to the cost basis, `Sell`
the cost a sale releases, and `Close` the whole of `settle_claims`: deadlines,
expired protections, the shortfall and its grace, breaks, and the claims left.
`cover_claims` takes the day's buys one after the other, so a step for each buy is
the same; dividends are paid before anything is traded (`traded`), as in `run_day`.
`paid`, `taxed`, `tax`, `bookings` and `short` are histories the code does not keep:
what was booked on each dividend, and for how many closes a shortfall has lasted.

Dates are trading days of short years (`YearDays`), with the deadline some days into
the next year and the end of a protection at a year's end, as `fees.py` computes
them. The tax is one part in `TaxPart`, rounded up as every rate is.

The `exemption` run takes ten days of three years, two dividends and any buys and
sells on them. A year has four days, its dividends may be reinvested to the first day of
the next, and one is paid two days after its ex-date. So the first claim is open on days 3
to 5 and its protections end on day 8, and the last dividend of a year is paid when its
deadline is over. A shortfall breaks a claim that is still open, or one whose deadline
passed days before; it may also be cured, and begin again. A claim is taxed at its
deadline or covered by two buys, one buy covers two claims, and protections are held to
their end.

`BreaksOnlyAShortfall` keeps apart what a close takes of a dividend: what was uncovered
behind a deadline (`UncoveredPart`), and what of the protections that had not ended before
that day is gone (`LastingPart`). The second needs a shortfall older than its grace, goes as
far as the shortfall does and takes the latest first, whatever the claim's age; the two
together are what is taxed, so that a protection held to its end is not.

## Strategies

`Strategies.tla` has the three strategies of `strategies/`, asked once a day with what they
answered the day before. What they see is up to the day: any portfolio and any buyable
stocks of small sets, as orders may be cut, refused or filled on other days; the
history of dividends and splits is fixed from the start. `BuyAndHold`,
`MonthlySavings` and `DividendGrowth` return weights and memory; `TopUp` is the
water-filling that shares new cash; `Restated` is the view's restatement of a
dividend by the splits from its day on (as an exact fraction: the code divides once and
rounds to 28 digits, which could tell apart only sums that are equal as fractions, as three
thirds and one; the ratios of the run leave none); `Spread` picks one stock at a time by the least
crowded month it pays in. Weights are decimals `<<m, e>>` of `Digits` digits, rounded
where Python's `Decimal` rounds.

In the `strategies` run a year has four days in two months, four digits stand for 28,
and a review looks at the two years before. Nine days hold three reviews, with a holiday
and a weekend; five histories put a split before, between and on ex-dates.
`DecisionsFit` holds of every day's decision for every memory that days before it left.
It allows the rupiah that the code leaves where it divides cash and rounds up what a
stock needs: one for each stock at most. Four digits are the fewest with which the
roundings of the decimals themselves are sure to stay within that for the portfolios of
the run. That is a condition on the constants, `PreciseShares`, which TLC evaluates
(`Precise`) and the theorem assumes; with the code's 28 digits it holds of any portfolio
that could be. dividend-growth leaves cash idle where every stock it may buy is at its
target to within a rupiah (`Reaches`), and not exactly there: the room of a stock is a
difference rounded half to even, and the weight a sum rounded again.

## MarketRules and Figures

`MarketRules.tla` has the tables of `ticks.py`, `bands.py`, `fees.py` and
`calendar.py`: which of them load (`TicksAccepted`, `BandsAccepted`, `FeesAccepted`,
`CalendarAccepted`) and what they answer. An answer is about accepted tables only, as the
program stops on others. `Figures.tla` asks the questions: `AskForABand`, `AskForCosts`,
`AskForIncome`. Each is a pure function, so a state is a question; the runs enumerate small
tables whose tiers and dates begin anywhere, references on both sides of each boundary, and
days on both sides of each change.

## Income

`Income.tla` is `income.py`'s run-rate, payment calendar, growth, goal and projection.
`RunRateWasPaid` compares the run-rate, which restates history, with a shareholder who kept
the shares and was paid day by day (`Reports`): two pieces of code that never meet.
`MoreNeverTakesLonger` is issue 97 over every small question. Growth is measured over one
year (`GrowthSpan`, four in the code), so that the yearly rate is no root; the run has a year of
five days in three months and three years of reports.

## PriceFactor and YahooSource

`YahooSource.tla` starts from what really happened: `YInit` chooses the prices traded on
each day, on its day's grid, a split, a rights issue and dividends. `Recorded` and
`Adjustment` are Yahoo's part, how it divides its history, and are marked external. The
rest is the code's: reversing the splits it reports, finding the runs of prices that are not
whole, proving a run's factor, restoring or refusing (`PriceFactor.tla`), and answering
bars and dividends of any ranges, with the runs read once and kept. The two properties
compare answers with what happened.

The `source` run has four days on three tick grids, the first before any grid is known,
two reads, and a rights issue on either of two days or after the last. Two reads are
enough for a range answered with and without the runs of another. Prices and factors are
fractions. Yahoo's numbers are kept to 1 in 1200 of a rupiah, so that a third of an amount,
which a split of three for one leaves, is one of them: with 1000, a third read back through its
split is further from whole than the ten-thousandth that the code allows. The code meets
numbers of some sixteen digits. That the numbers of an instance are precise enough is a
condition on its constants, `PreciseNumbers`: what the roundings may take off any amount the
stock may have, through any of its splits. The theorems about the source assume it, and TLC
evaluates it in the `source` run (`Precise`).

## BarCache

`BarCache.tla` models one stock in `cache.py`, with the part of `yahoo.py` that
decides what a range is answered. `rows` and `fetched` are the tables. A reader's
read has a step for each access: `Begin` computes the gaps (`Missing`: the ranges
merged in start order, `Joined` one at a time, then walked by `Passed`, each gap
`Trimmed` to its trading days), `Answered` or `Refused` is one request, `Store` one
transaction, which stores rows and range or rolls back on a conflict, and `End` gives
the answer or the error; it also stands for a process killed at any place. Days
end (`DayEnds`) and the source revises a value (`Revise`) at any time.

The source refuses days by rules that depend on the range: prices no factor explains
(`Unpriced`) always, a dividend inside an unproven run only if the range holds a
price that is not whole (`KnowsRuns`), because only then are the runs read. Likewise
a dividend in a proven run is restored only then.

The `cache` run has two readers, three reads of either kind over any range of six
days with a holiday, and one revised day. Two readers and three reads make a gap
computed before and stored after another read of the same days, and a read of bars
over days whose actions are stored. Its dividends are placed so that the range a
dividend is asked in does not change its value; without that a conflict needs no
revision, which is the disagreement below. Left out: the table of restorations,
the look-back before a calendar is known, and today's bar, which is fetched and never
stored.

## BacktestFetch and Backtest

`BacktestFetch.tla` models `_stock`, `_unpriced_actions` and `_around` of
`backtest.py`, which both the backtest and the paper run use: the bars of a window,
and when the source refuses days of it, the clean ranges around them, any of which
may be refused in turn. The list of ranges to ask is a set whose earliest member is
next: the code keeps them in order, and `_clean_ranges` of a range replaces it in
place. The source is free: it may answer, refuse any set of `Nameable` days, not serve the
stock, or fail. `_resumed` is the operator `Resumed`: whether a day's bar is the first
after a refused day.

`Backtest.tla` puts the fetch into a run: the universe's lists (`universe.py`), of which one
that takes effect before, in or after the window may be missing; the look-back for the
dividend history (`LookBack`); and what each day then hands the engine (`Buyable`,
`RefusedOn`, `ActionsOn`, `ResumedOn`), what the strategy sees of the history
(`HistoryDays`, `Incomplete`) and what the run warns of (`Spans`, `DataWarnings`,
`Warned`).

Weak fairness of the next step is assumed: the fetch is one sequential program
whose requests are assumed to return or fail, so it never just stops. The
`fetch` run takes a window of six days with a holiday and a source that may name any
trading day, or a day after the window, so that a search of several rounds happens
and the wrong answers that stop a run do too; lists on four days, two pairs of them
too far apart, put each boundary of a list on one of the window's.

## SidePanels

`SidePanels.tla` models two panels of the extension over one IndexedDB record. Each panel
does one job at a time, a job is several transactions, and another panel's jobs fall
between them: `TakePage` and `RecordValuation` for a portfolio page, `RecordMovements`
for a movement page, `RecordTyped` and `RecordAnswered` for what the user types,
`AskResume`, one `ReadStore` for each of six stores, `GrantResume` or `RefuseResume`, and
`RecordResume`. `Reopen` is a panel closed in the middle of a job. What a panel shows after a
job (`Showing`) is taken from the record at once, where `showRisk` (`panel.ts:661`) reads its six
stores in six transactions: it decides only when a resume or an answer can be asked for, and
a resume is judged by the stores read for it. The halt is nowhere
kept: `RiskState` folds the record into a unit value and a halt each time
(`risk-state.ts`), with `UnitValue.tla`, which the Python engine shares.

The `panels` run takes three days with values 6 or 8 after 10, a flow on the last, and
four recorded instants: a fall past the limit, a resume, a read after it, and a page taken
before the next day and recorded after it fit.

## What is proved

TLAPS checks every leaf of the eight modules below, from the named assumptions on the
constants (`ConstantsOK`, `PortfolioConstants`, `MarketConstants`, `EngineConstants`,
`ExemptionConstants`, `FetchConstants`, `BacktestConstants`, `PanelConstants`,
`CacheConstants`, `ReportsConstants`, `RulesConstants`, `IncomeConstants`,
`FiguresConstants`, `StrategiesConstants`, `ConfigConstants`, `FactorConstants`,
`SourceConstants`) and from the hypotheses that a
theorem states. Some parts of these assumptions are there for the proofs, each as the code
has it: a trade settles after its day (`Lag > 0`; the code has two trading days),
`BySymbol` names each stock once (the engine sorts the symbols of a mapping), a run has a
day (`MaxDay > 0`), the universe has finitely many lists (they are files), the rows of
tables are whole numbers with positive ticks, and ratios of splits and goals are positive (their
constructors refuse others), and the risk limits of the panels are percentages between 1 and 99,
which the constructor of `RiskLimits` demands (`extension/packages/core/src/risk.ts`:
above 0 and below 1).

| Theorem | For every value of the constants | Property |
|---|---|---|
| `PaperAccountProofs` | | |
| `TypeCorrect` | the type invariant | |
| `EachDayOnce`, `EachDayFromTheLast` | two runs save each day once, each from the day before | `EachDaySavedOnce`, `EachDayRunFromTheLast` |
| `HaltedPastTheLimit`, `OnlyItsResumeLiftsAHalt` | a halt stands until its resume | `PastTheLimitIsHalted`, `HaltLiftedByItsResume` |
| `AccountIsAJournal` | the refinement | `JournalSpec` |
| `DaysAreCreditedOnce` | no day is claimed unsaved or twice | |
| `NoGapIsLeft`, `RunsAreTruthful`, `AuditIsComplete` | the tables tell the truth, if `~OpeningRace` | `NoDaySkipped`, `RunsTellTheTruth`, `AuditExplainsTheAccount` |
| `EngineDayProofs` | | |
| `PortfolioTypeCorrect`, `OpenIsExact` | types; the open movements are the ledger's | |
| `CashIsExact` | the cached cash is the cash of the ledger | `CashIsAsDefined` |
| `NoGainIsOverstated` | partial sales release enough cost | `NoGainOverstated` |
| `FreezesLast`, `HaltsLast`, `StopsAreForGood` | freezes and halts last | `StopsLast` |
| `DayIsSound` | the day's invariant | |
| `CashNeverRunsShort` | settled cash is negative on no day to come | `NeverOverdrawn` |
| `NoLotIsMissed` | a buy is for the most lots that can be paid | `MostLotsBought` |
| `OrdersCanBeCarriedOut` | sales are covered, buys fit | `OrdersFit` |
| `DividendsArePaidOnce` | paid and taxed once, on the day | `DividendsPaidOnce` |
| `DepositIsNoLoss` | the lower half of `DepositsAreNeutral`, with no condition | |
| `DaysLeaveOrder` | the invariant of what a day leaves | |
| `PaperGoesOn` | the saved state is accepted, and is what it was | `SavedStateCarriesOn` |
| `DepositsMoveNoPrice` | a deposit moves the price by one part at most, while `PriceIsSmall` | `DepositsAreNeutral` |
| `LossesAlwaysHalt` | a day's loss halts, on days with `ContributionCounts` | `LossesHalt` |
| `ReportsMatchTheLedger` | each day's report is what the ledger booked that day | |
| `ReportsAreTheLedger` | sums, income and drawdown of the reports are those of the ledger | `ResultsAddUp` |
| `ExemptionProofs` | | |
| `ClaimsAreSound` | the invariant of the claims | |
| `DividendsAreAccountedFor` | open and taxed parts make up a dividend, its tax is rounded once a booking | `GrossIsAccountedFor` |
| `ShortfallsAreYoung` | what is protected is invested, or the shortfall's grace runs | `ProtectedIsInvested` |
| `OnlyShortfallsBreak` | at any age only the end of a grace breaks a protection, as far as the shortfall goes, the latest first, and a close taxes that and what missed its deadline | `BreaksOnlyAShortfall` |
| `BuysCoverInOrder` | a buy covers once, the oldest claim first | `BuysCoverOnceOldestFirst` |
| `FetchProofs` | | |
| `RangesAskedOnce` | no range is asked twice, if no refusal names a holiday | `NoRangeAskedTwice` |
| `InputsAreTruthful` | inputs and warnings are the source's and the universe's, under the same condition | `InputsTellTheTruth` |
| `BarsAreReadAsTraded` | a bar answered is what was traded, if the numbers are precise (`PreciseNumbers`) | `ReadAsTraded` |
| `DividendsAreAsPaid` | a dividend answered is what was paid, under the same condition | `DividendsAsPaid` |
| `BarCacheProofs` | | |
| `ReadsAreInOrder` | the invariant of the reads | |
| `ReadsAnswerWhole` | an answer is whole or names what it lacks | `AnswerIsWhole` |
| `ConflictsAreRevisions` | no conflict without a revision, if `ProvenDividends \subseteq Scaled` | `ConflictMeansRevised` |
| `SidePanelsProofs` | | |
| `RecordsAreInOrder` | the record is in the order of its instants | |
| `LimitStopsBuying` | a read past the limit halts a fund that holds units | `AReadPastTheLimitStops` |
| `RecoveryLiftsNothing`, `ResumesLift` | only a resume lifts a halt, and it does | `HaltOutlivesRecovery`, `ResumeLiftsItsHalt` |
| `StrategiesProofs` | | |
| `PricesAndCosts` | the ends of a band and the costs of a trade are exact | `PricesAndCostsAreExact` |
| `RunRateIsPaid` | the run-rate is what was paid, day by day | `RunRateWasPaid` |
| `MoreIsNoLater` | saving more never puts a goal off | `MoreNeverTakesLonger` |
| `PicksGrewForHolders` | no more picks than allowed, and their dividends grew | `PickedDividendsGrew` |
| `CashIsSpentOnce` | every decision spends the cash it may once, to a rupiah a stock, and monthly-savings in no month twice, if the decimals are precise (`PreciseShares`) | `DecisionsFit` |
| `SettingsStayTheOperators` | a run's settings were saved together, and none is refused | `SettingsAreTheOperators` |

**Folds.** The models add up ledgers, walk ranges and fold records with recursive functions
and the folds of the community modules. `SumProofs.tla` proves what is needed of them. The
library's induction theorems take a predicate as a parameter and cannot be used, but the
least number of an inhabited set is a first-order fact (`WFMin`), and with it an induction
is one on the *set* of the numbers, or of the subsets, that have a property: `Naturals`,
`Subsets`, and `Peeled` (a set taken apart one member at a time, as the library's folds do). That a recursive function exists at all is
proved the same way (`StepByStep`, `IterExists`, `FoldExists`, `RiskUnfolds`), and then what
it computes (`SumRemove`, `SumSplit`, `MergedIsStored`, `GapsAreTheRest`, `PastTheLimit`,
`ListedIsAll`, `SpansAreRefused`).

**PaperAccount.** None of the invariants is inductive alone: a step that saves writes a row
the process made earlier, so the invariant has to say what such a row looks like *now*.
`AccountInv` adds that. `SnapshotOf` relates the row a command read to the account: the
account has not gone back behind it, and while its last day is the same, so are its days and
its drawdown, and a halt in the account is the one that was read (a halt may have been lifted
since, which is exactly what the disagreement `resumed` exploits, and why the invariant
cannot say that the rows are equal). `MadeOf` relates the row to be saved to the row read:
`DayRun` of it for a run, the halt lifted for a resume, the strategy changed for a switch.
`RunningOf` ties a process's place to what it holds. `AccountStep` extracts from it that a
step enters one day, saves a change at the same day, or leaves the account alone, which the
action property and the refinement follow from.

The history needs more. `CreditInv` says that no run holds a day of its own that is not
saved, or that another holds; it stands whatever the clock does, because a day is added only
in the transaction that saves it. `HistoryInv` says of each command where it stands against
the account: a run's next day follows one that is saved, or opens the account on the day the
clock shows (`OpeningOf`, `CatchingUpOf`); a row read and not yet saved over was opened the
same day, and the log already tells its halt and its strategy (`ReadOf`). It holds if no day
completes during a first run, and the hypothesis cannot be dropped: with
`OpeningRace = TRUE` TLC finds all three of its consequences violated, the audit log's
because a first run may save its second day over an account that another first run opened
with another strategy.

**Portfolio.** The type invariant and `OpenIsExact` are inductive together (`Consistent`):
the open movements are filtered from those already open, which loses nothing because a booking
is never dated before the last one (`Booked`). `CashRead` splits the ledger's sum into the
movements that are still open and the rest, which is the cached balance. The arithmetic of a
partial sale is `ReleasedBounds`.

**EngineDay.** `FreezesLast` and `HaltsLast` need little: fills are the only steps that
change shares after the start of a day, and they refuse what is frozen; a halt is never
dated later than today, and once its day is decided no order is pending. The other
properties are conjuncts of one inductive invariant, `DayInv`, because they need each other.
`CashOnHand` is about the cash that is settled or owed on every day from today on, and a buy
keeps it because it pays from what is free on *all* of them; the duty of a sales-only day is
why it cannot speak of the spendable cash. `OrdersKept` follows the queued sales through the
splits of the next morning and the fills before them, one order of each stock. `DividendsKept` equates two
sums, over the ledger's bookings of a day and over what was earned, by induction on the
payments.

**Snapshot** (in `EngineDayProofs`). `LeftInv` adds to `DayInv` what the next process relies on: the ledger is in the
order of its days, whatever is held has a close (or a bar that becomes one before the day is
closed), and the price of a unit is its part of the account's worth, rounded down. The last
is the hard one, because a deposit rounds twice: after it the worth lies below
`(price + 1)` for the old units and `price` for the new ones, up to one unit (`TopOf`). From
there `SavedStateCarriesOn` is a matter of codes: `Listed` walks the symbols once
(`ListedIsAll`), and what the decoder works out again, balance and open movements, is what
`Consistent` says of them.

Two theorems have a hypothesis, on the fund of the day. What a top-up rounds away is up to
a unit's price, so `DepositsMoveNoPrice` asks that a unit costs no more rupiah than there
are units (`PriceIsSmall`; the code's funds have millions of units at a price near one, and
TLC finds it true throughout the `engine` run). Without it the property fails: TLC
finds an account opened with 2 rupiah whose stock rises thirtyfold moved by more than one part.
`LossesAlwaysHalt` asks that a contribution is worth the square of a unit's price
(`ContributionCounts`), so that the units a deposit rounds away cannot hide the part of the price
that the limit turns on. It is stated for each day; in the `engine` run, whose accounts have
single-digit amounts, some days fail it by one part (201 squared against 40000), and the
property holds there all the same.

**Results** (in `EngineDayProofs`). The code never compares what it reports with its ledger,
and neither is worked out from the other: a fill adds to both, a charge is noted after the last
fill, a dividend's tax in a booking of its own. `ReportsInv` sets them side by side, kind by
kind: of every day reported, and of the day under way as far as it went (`AllBooked`), the
ledger booked what is noted. The sums follow over any set of days (`CashOfDays`), and with them
the year, the months and the run. `Drawdown` is one pass that keeps the highest price so
far and the deepest fall from it; that no two reports are further apart is an induction on the
reports it has passed.

**Exemption.** `ClaimsInv` has four parts that a step of the day changes together.
`ClaimsAreOfDividends`: each claim is of a dividend paid, and no protection ends before the
first years are over. `Accounted`: what is open of a dividend and what was taxed of it.
`RoundedByBooking`: its tax in units of `TaxPart`, because the bound in whole units that the
property states is not inductive: it forgets by how much earlier bookings were rounded up.
`GraceCounted`: while a shortfall is on record, as many closes have
seen it as days have passed. Two places of the code share an amount out: a
buy's value goes to the claims by age, a shortfall to the pieces of the protections by their
ends. Both are the same lemma, `GivenInRow`: each in a row takes what it may of what those
before it left, so that together they take the amount or all there is. It is an induction on
the last of a row (`LastInRow`), and `SumOfSums` brings the pieces back to their claims. The
lists that the code filters are recursive functions (`Kept`), which keep the order and
the sums (`KeptIsInOrder`, `KeptSums`).
`OnlyShortfallsBreak` follows the parts of one dividend through a close: what had ended
is in no sum (`LastingIs`), what missed its deadline and what broke add up to what is booked
(`PartMoves`, `ClosesTake`), and without a break nothing that lasts is lost (`NothingIsLost`).

**BacktestFetch.** `SearchInv` is inductive: pending ranges are clean and, like the answered
ones, share no day with each other; and each range asked was answered or is no longer clean.
Hence a pending range was never asked. `CleanRangesAreApart` carries it: two maximal
clean ranges that shared a day would be parts of a longer one. Without `NoHolidayNamed`, that
no refusal names a holiday of the window, it is false: `_stock` checks a first refusal only
against the calendar window (`backtest.py:419`), `_around` a later one against the trading
days it can leave out (`:450`), so a first refusal of a holiday alone leaves one clean range,
the whole window, to be asked again.

`FoundInv` adds what was found: every trading day is refused, in a pending range or in an
answered one. A refused range gives way to its clean ranges, and they hold all of its days but
those refused (`CleanRangesCover`). `WindowInv` keeps the lists and the look-back. The rest of
`InputsTellTheTruth` is about the two things a run works out at the end: the spans of a
warning, by induction on the days of the window (two trading days whose places are one
apart have none between: `NextPlace`), and the lists (`WarnedWhenUsed`). A refused holiday
would break the first: `RefusedWarning` would name a day that is not a trading day.

**YahooSource** (in `FetchProofs`). `SourceInv` says of the answers what the properties say, and
of `_runs` that it is empty or the runs of the whole history; the facts never change, so an
answer of a range is right if those runs are. The code cannot know the factor: it tries
every factor that puts the newest open on a multiple of its tick, keeps those that fit, and
believes the last one left. The argument that this is right has three parts. *The true factor is
never lost.* The factor that makes any one affected open read what was traded is among the
candidates of its row (`TrueIsTried`) and fits every other affected row, roundings included
(`TrueFits`). A day is evidence only if the rights issue came after it (`OthersAreWhole`). So
each older row joins the run, all evidence is one run, and no run is closed with a wrong factor
because a row in between did not fit (`FoundIs`). *So a single factor left is the true one* but
for the digits of Yahoo's numbers: `Close` demands that it is alone. *And refining it does no
harm*: the refined factor is the mean, over the run's prices, of what each price makes of it,
and a mean lies between the least and the greatest (`SumBetween`, `RefineIs`), so that it is
enough that factors between two such values restore every price and every dividend
(`RestoredIs`). What rounds to the nearest tick is exact because a price near a valid price,
below or above a tier's end, still has that price as the nearest multiple (`TickNear`,
`NearestIs`). `PreciseNumbers` holds the arithmetic that depends on digits: that prices read
through splits alone are whole, that the true factor is within the code's tolerances, and
that a factor between two refined ones restores. It is false for few digits, as it should be. That one factor
fits no other prices of the history is nowhere assumed: where two fit, `Close` proves
nothing and the days are refused. The theorems assume with the code that prices traded on the
grid it believes (see the disagreements for a finer one).

**BarCache.** What makes an answer whole is a promise and a debt. `CacheInv` is the promise
of a stored range: the bar of each of its trading days, the dividend of each ex-date, none of
a day still trading. `JobOK` is the debt of a read: each day it wants is in a stored range, in a
gap it has not asked yet, or behind a refusal, and a day without a price is in such a gap or
named. `MissingIsTheRest` starts it: merged ranges cover no day that no stored range covers
(`MergedIsStored`), and the gaps and the merged ranges make up the whole of what is wanted
(`GapsAreTheRest`). Stored ranges only grow (`JobGrows`), so whatever others store cannot
increase the debt. For the conflicts, `GivenInv` says that every row, stored or about to be, is
the one the source gives of its day in any range. That needs the hypothesis: a dividend in a
proven run is on a day whose own price is scaled, so that any range that holds it knows the
run. Where it is not, the conflict is real, and is one of the disagreements below.

**SidePanels.** The halt is a fold over the record, derived anew at each look, so what one look
says has to be related to the next. `PanelInv` dates everything: what a panel read, was shown
or asked is older than the clock, and a resume is recorded later than every value it was
judged by. `RiskTyped` and `PastTheLimit` follow the fold along one record: a read past the
limit leaves a halt that holds unless a later resume covers it. `AlikeUntil`, `LaterRead` and
`LaterResume` compare two records that differ in one read or one resume. `LimitStopsBuying`
speaks of records in which no read finds all units sold (`FundHeld`): units are kept to one
part in `Scale`, and a withdrawal of nearly everything can round them to none, which the
code's decimals of the same record would not; TLC finds it true throughout the `panels` run.

**Figures** (in `StrategiesProofs`). A question's state is the question, so the invariant is only that what is asked is
one of the questions (`AskedIs`), and the work is in the operators. *Prices*: the loader compares
each tier with the next (`Neighbours`); that a price rounded to the tick of its tier is the next
valid price of the whole table, also where it leaves the tier, takes all of them, by induction
on the tiers. *Costs*: a quote is checked on the days on which a rate changes; between two such
days every table has the same row, so any day costs what one of the checked days does.
*Run-rate*: the holder's shares on a day are made by a fold over the splits before it, each
rounded down; the run-rate divides today's shares back through the splits since, as one
fraction. `HeldThrough` relates the two by induction on the days: rounding can only lose, and
where every split gives whole shares nothing is lost. The sums of the two are one of fractions
and one of amounts, taken apart one dividend at a time. *Projection*: it is a recursive function of
the months, each of which rounds income and tax. `MonthRises` compares two plans of which one
has no less of anything, one month on; `YearsSooner` follows them to the goal. The growth caps
are in order whatever was measured (`PlansInOrder`).

**Strategies** (in `StrategiesProofs`). `PicksInv` is that dividend-growth remembers nothing
or the picks of a review, and that the history it was made from is still the history. The work
is in one review. `passes` restates every dividend to the review's day, dividing by the splits
since; the holder's shares are multiplied by the splits before. The product of the two is the
product of all splits to that day, the same for every dividend (`ProductOfTwo`,
`RestatedIsPart`), so that a year's total is one same part of the other in every year
(`SumsOfParts`), and positive totals and their order carry over (`PartsKeepOrder`). That a
review of too many candidates picks exactly `MaxStocks` of them needs the order of the picks to
be total (`FirstOf`: crowding, then yield, then name); were two stocks each before the other, or
neither, the next pick might be anything.

`CashIsSpentOnce` counts in parts of the last decimal place a ratio may have. A rounding
takes off or adds less than a thousand of them (`RatioIs`, `KeptIs`, `PlusIs`, `MinusIs`), and
`PreciseShares` says that those of all stocks together are less than a rupiah (`DustIs`). For
a cash shared equally that is the whole argument (`SharedIs`). The water-filling has an
invariant of its turns (`FillsFit`). At first no stock can use its part of the cash: each is
filled to its target, and what is spent and what is unspent make up the cash. From the first stock
that can, all can: it has the least room of those left, its part is what each of them is
offered at least from then on, and each has room for as much. So the loop ends with every
stock at its target, or with the cash spent but for the rupiah that were divided (`TopUpIs`).
That needs the order in which stocks are filled: by symbol instead of by room, a stock
that could use its part comes before one that cannot, and cash stays idle. `SavingsInv` is
what monthly-savings remembers: an instalment, how many are due, and the month it bought in,
which is why it buys once a month also when nothing is due any more.

**ConfigFile** (in `StrategiesProofs`). `ConfigConstants` says only that what an editor saves
has values that TOML has. `ConfigInv` has a part for each who uses the file. *The file*:
what it gives was saved once, but for the level of explanations, as soon as it has a consent
(`FileIsSaved`); that is why a file that `init` created and did not write yet does no harm.
*A command* under way knows the text it will write (`TypedIs`), and while no one else saves, the
file is what its last step left (`RewriteHolds`); it cannot be missing by then, so that nobody
starts a new one under the command. *A run* holds what one such file gave when it loaded
(`LoadedOnce`). *The log* tells the account's settings (`LogTells`): a day's lines are the last
word on the keys they name (`ToldByTheDay`), and a key they do not name is as it was
(`ChangesTell`), also for the settings of a strategy that comes back. The rest is about `load`:
what it lets through is of its kind and within its bounds (`LoadedIs`, `StrategyReads`), which
is what the constructors ask (`LoadedRuns`), and what is saved beside the account is
what the file gave or the default (`SettingsAreRead`).

Only model-checked is liveness (`RunsEnd`, `FetchEnds`), which the provers do not reach: every
other property of the passing runs is a theorem.

## Where code and text disagree

Two have a run whose property states the text and that TLC violates.

- `resumed`: `resume` prints "From the next day run, the strategy's orders are
  placed again" (`cli.py:526`). The optimistic check compares only `last_day`, so a
  run that read the halted account before the resume saves after it, and the
  account is halted again without a new cause. A switch made while a run is under way
  ("{name} trades from the next day run", `cli.py:543`) is undone the same way.
- `weights`: `_ratio.py:9` says that "weights built from these ratios never sum
  above 1". `Decision` adds them up in the default decimal context, which rounds each
  partial sum to even: 18 equal weights of dividend-growth sum above 1, and the day
  stops with `InvalidWeightsError`. So do 24, 26, 35, 36 and 38; the default limits are 15
  and 25 stocks.

The others were met while modelling, and no run is kept for them:

- The strategy is checked once per run, not per day: a run that continues across a switch
  hands the other strategy's memory to its own (`paper.py:247`).
- A first run's list of days is its target day alone. Two first runs on different trading
  days skip the days between: with `OpeningRace = TRUE`, `NoDaySkipped` and
  `RunsTellTheTruth` are violated.
- A dividend inside a proven run is stored as recorded when a range of whole prices is
  read, and restored when a wider one is (`yahoo.py:329`). Whichever is stored first, the
  other is a conflict, although nothing was revised; the plan of the price-factor work
  says that "the cache never meets a conflict" (`price-factor-recovery.md:41`).
- In the extension a halted day's page read again after the resume, with a later reading
  time, brings the resumed halt back (`risk-state.ts:113`).
- `training` promises that every other byte of the file stays
  (M5 design, line 107). A file with CRLF line ends is rewritten with LF. An edit saved
  while the command works is lost or undone by the replacement or the restoration, and a
  kill between the two leaves a file that does not load.
- `factor.py` says that a wrong row "can only leave a run unproven". If the true grid is
  finer than the one believed, a wrong factor may be the only one that fits.
- The run-rate's monthly take-home "can be a minor unit or two more than the holdings'
  monthly figures added up" (`income.py`); it can be one for each holding.

Remarks on behaviour that no text denies:

- a dividend on a scaled day before the first known grid (2014-01-06), or on a day outside
  every run because nothing traded, is answered as recorded, though the design of the
  recovery says that days before the grid stay refused; a scaled day whose prices happen to
  be whole is answered as it is (`ScaledToWhole`); `_runs`, read once, goes stale in a
  process that outlives the day;
- the warning of refused days (`backtest.py:574`) names spans of consecutive trading days of
  the calendar, and no warning says that a run goes past the last list of the universe;
- a split on a day without a bar leaves the next bar's band check against the unsplit close
  (`engine.py:285`);
- an audit line "recorded for the first time" is written again after a switch and back;
  `init` killed before it writes leaves an empty file; a level of `[training]` that is no
  level is refused only when a command renders with it.

## What is not modelled

The rest of the inventory, with reasons, is in `PROJECT.json` under `components`. In short:

- of `run_day`: the check of closes against the price band, a second split of a stock
  on one day, odd lots, `min_lots` above 1;
- of the saved state: claims, memory, the encoding of reports, and upgrades of older documents;
- of the figures: whatever is annualised (roots and logarithms), turnover and ratios of sums;
- of the source: high and low, volumes, split rows, requests and the parsing of answers; of
  the cache: the restorations table and the afresh read of today;
- of the extension: migrations, forgetting, the strategy memory, drawing, and its ports of
  rules that the Python models already cover; the readers of broker pages;
- pages, exports, training texts and developer scripts, which keep no state and have no
  order of events to get wrong.

Of the modelled parts, currency and type checks and the wording of messages are left out.

## Plan

1. The extension's strategy memory (stored only for the settings it was made with) and
   `history`'s migration and forgetting, as actions of `SidePanels`' record.
2. Several splits on one day and the band check of `run_day` in `EngineDay`; claims in
   `Snapshot`.
3. The cache's restorations and its afresh read of today, as further tables of `BarCache`.
