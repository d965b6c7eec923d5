# O_web in TLA+

O_web is a Django application (`src/oracleWeb`) that crawls oracle prices and
AAVE lending pool events from an Ethereum archive node into MySQL, computes
block prices, latencies and the health factor of an address from them, and shows
charts. The crawling is done by a Go library (`src/eth_crawler/main.go`, called
through ctypes as `library.so`). Long jobs are Python threads that HTTP handlers
start and stop; they share the database (autocommit, no transaction spans two
statements of a handler), module globals, request objects and the process, which
any error of a Go call ends (`log.Fatal`).

None of this code has a lock. What makes it correct, where it is, is the order of
its reads and writes, the overlap of its windows, unique keys of the tables, and
the order in which the operator presses buttons. That is what is modelled here.

## 1. Inventory

| Component | State | Operations | Hard because |
|---|---|---|---|
| Price crawl, `datastorage/views.py`, `main.go get_log_data` | tables `Price`, `Summary`; snapshot of `Summary` in each thread | `update_data`, `insert_price`, `auto_update` (start, loop, stop), `all_oracle?update_summary=1` | threads and requests insert one window row by row; `summary.save()` writes back a row read minutes ago; the head is reorganised; the process exits half-way |
| Block prices, `datavisualization/views.py` 37-139 | `BlockPrice`, `BlockPriceUpdateRecord` | `block_granularity_update`, its auto loop | a block may still be arriving when it is averaged; overlapping calls; stale range saved |
| AAVE crawl, `debtmonitor/views.py` 205-520 | per-action tables, `LendingPoolUpdateSummary` (per action and "overall") | `update_data`, `auto_update` forward or `reverse=1` | action by action, summary by summary; "overall" computed from another row; exits |
| Requests as carriers of ranges, both `auto_update` | `request.POST` | each statement that reads or writes it | `auto_main` gives one request to two threads |
| Thread control, `oracleWeb/views.py`, two templates | `RunningThread`, `Config`, `HFPlotConfig`, `do_run` | start, stop and plot buttons, `auto_main`, `auto_plot` | `is_alive` tested, then acted on; buttons as old as the page; threads read the request later |
| Block table, `datastorage/views.py` 100-255, `main.go get_block_time` | `Block`, `BlockNumber` | `update_block`, `block_time_auto_update` | range from an aggregate, goroutine chunks that run past the range |
| Latency, `datavisualization/views.py` 177-435 | `Latency`, `LatencyUpdateRecord` | `latency_data_gen` | a grid resumed from the ends of a recorded range |
| Debt replay, `debtmonitor/debt_function.py`, `debtmonitor/views.py` 738-811 | dictionaries per token | `update_target_debt_data`, `get_token_value` | rows that lack what their log lacked; branches that raise; rounding |
| Chart threads, `gen_hf_chart`, `get_price_line_chart`, `get_latency_chart` | `HFPlotConfig`, module globals | one thread per plot, `auto_plot`, the main page's form | threads share the globals they are configured by and publish in; tables are filled while they are read |
| CSV import, `priceData`, command line crawlers, vendored code | none of its own | | not modelled |

How they interact: `auto_main` starts the threads of the first four rows; price
crawl and block prices meet in `Price` and `Summary`; the two crawls meet in the
request object; everything meets in the process, which an error of any Go call
ends.

What makes them correct: the `Price` table has no hole before its newest row, and
no summary claims what is not stored, since crawls resume from the summary and
never look back; a block price is the mean of *all* rows of its block, since it is
never computed again; the recorded ranges of block prices and of latencies have no
gap, for the same reason; a debt replayed from rows is the one the pool knows; a chart
is of one address and misses nothing up to its block; a call to the Go library ends; a
looping thread can be stopped by a button; a crawl that is kept running catches up.

## 2. Modules

| Module | Models | Checked by |
|---|---|---|
| `PrefixCopy` | abstract: a table that copies a growing log in order, one entry at a time | refined by `DataStorage` |
| `DataStorage` | the price crawl with the node | `MCDataStorage` |
| `DataStorageProofs` | theorems about it and about `PricePipeline` | TLAPS |
| `Granularity` | block prices, over an environment that crawls and reports whole blocks | `MCGranularity` |
| `GranularityProofs` | theorems about it | TLAPS |
| `PricePipeline` | `DataStorage` and `Granularity` composed | `MCPricePipeline` |
| `LendingPool` | the AAVE crawl | `MCLendingPool` |
| `LendingPoolProofs` | theorems about it | TLAPS |
| `SharedRequest` | both `auto_update` loops, statement by statement on `request.POST` | itself |
| `SharedRequestProofs` | theorems about it | TLAPS |
| `WebControl` | the buttons, `auto_main`, `auto_plot` | `MCWebControl` |
| `WebControlProofs` | theorems about it | TLAPS |
| `BlockTime` | the table of block times, and the Go call with its goroutines | itself |
| `BlockTimeProofs` | theorems about it | TLAPS |
| `Latency` | `latency_data_gen`, its loops and its record | `MCLatency` |
| `LatencyProofs` | theorems about it | TLAPS |
| `DebtAccount` | the replay of an address's rows, beside the pool's account of it | `MCDebtAccount` |
| `HealthChart` | the health factor's chart threads over tables being filled | `MCHealthChart` |
| `DebtMonitorProofs` | theorems about `DebtAccount` and `HealthChart` | TLAPS |

Definitions whose comment begins "A slip of the next definition"
are wrong versions of the definition after them, a plausible bug each. No
specification uses them; they serve to see that a property notices the bug.

### DataStorage
A log is `[block, index, current]`; what a feed measures is one of `Values`. `chain[p]`
is the node's answer for a pair, `rows[p]` the `Price` table, `summary[p]` its
`Summary` row (`data_amount` only as its sign, which is all the code tests).
`Fetch` is the Go call, `InsertPrice` one iteration of the insert loop: the least
log of the batch, stored, or refused by the unique key when a row of its block and
index has another price (the `IntegrityError` of `get_or_create`). `WhileLoop`
takes the snapshot of `Summary`, `NextPair` computes a window and enters
`update_data`, `SaveSummary` writes the snapshot's row back. `RefreshRange`,
`RefreshCount`, `RefreshSave` are the two queries and the save of the summary page
per pair. `Mine`, `Reorg` and `NodeError` are the node's (external).

Assumed of the operator (Readme section 4: a small first range, then the summary page,
then the crawlers): a request begins at `StartBlock` or inside the summary
(`Anchored`), and the first crawl of a pair is not concurrent with the summary
page (third conjunct of `RefreshBegin`). Without these the table has holes because the
operator asked for them.

### Granularity
`Query` reads the rows of the range that are not inside the recorded range and
groups them; a mean is represented by the set of rows it is of. `BulkCreate`
stores all or, if one block is priced already, nothing; then `SaveEach` retries
row by row. `ReadRecord` is the `get` of the pair's record and `MakeRecord` the `create` after a
`DoesNotExist`: of two first calls the slower one raises, and a loop's thread ends by that.
`SaveRecord` extends the range as it was read there. A loop is started (`StartLoop`) and
stopped (`StopLoop`) by clicks, sleeps between two calls, and after an exit or an exception
is off until the next click. The environment
inserts rows in order, closes blocks, and reports closed blocks only; that this is
what the crawl does is checked in `PricePipeline` and proved in `DataStorageProofs`.

### PricePipeline
The two specifications side by side: `summary` and `rows` of `DataStorage` are what
`Granularity` reads. `closed` is defined from the crawl's state (`ClosedBlock`).
`QuietRefresh` says whether the summary page may read its bounds while a block is
half inserted.

### LendingPool
A log is a block and an action. `ReadRecord`, `Store`, `SaveRecord` go through the
actions in the order of `aave_log_details`; `bn` is the Python variable that keeps the
previous action's blocks when an action has no table (`FlashLoan`). `Fetch` raises for a
topic that `aave_log_details` does not have (`Unknown`: `Paused`, `Unpaused`) and for a window
with logs of `NoData` actions only. `Store` is `bulk_create`, or the last of the saves per row
that follow when it failed; `StoreRow` is one of these before the last. `SaveOverall`
takes the last action's record, as the code does. A crawler has a direction;
`MaxDirections` bounds how many are ever used. The chain only grows here (`Mine`): this crawler
takes the head block too and begins the next window after it, so a head that is
replaced after that is never fetched again, and `OverallIsStored` would be false of the code
(section 3; `DataStorage` has reorganisations, and windows that overlap).

### SharedRequest
The crawls take one step each; every statement on the POST dictionary is a step
of its own. `shared` is chosen in `Init`: started by `auto_main` or by a button
each. A read of a key that another thread has dropped is `KeyError`.

### WebControl
`threads[k]` holds the threads of kind `k` in the order they were started, the one in
`RunningThread` last; a dead last one makes room for the next (`Started`). A click of the auto
page is served in stages: `CheckWorker` and `StartWorker` for each worker, `Branch` on
`request.POST`, `Launch` of `auto_plot`, `Render`. `Begin` is where a crawler replaces the POST by
`{}`. `shown` is what the user's page shows, as old as its last reload: it decides which buttons
can be pressed. `Patient` restricts "Auto Start" to moments when no thread is about to end. What a
plot thread does is `HealthChart`.

### BlockTime
`NextWindow` and `Request` choose a range and enter `update_block`, which reads the keys' minimum
and maximum (`Entered`). `Block.number` is a foreign key, so the aggregate is of row numbers of
`BlockNumber`, which any crawl makes (`OtherCrawl`); `keys` holds the smallest and the greatest,
which is all that is read of them, and a block numbered earlier by another crawl has one of the
keys given so far (`Insert`). In Go, `Chunks` are the goroutines, `Send` the end of one,
`NodeError` any other failure of a connection, of the latest block or of a header, which ends the
server wherever the range is, `Fatal` the header that does not exist and the same `log.Fatal`
after it, which no retry gets past, `Receive` the wait and the joined map: a row is a pair of the
place its chunk has in the channel and its block, and a block of two chunks keeps its first place,
as JSON objects do in Python (`Joined`). `InsertRow` is one turn of the loop, for the first row in
that order (`First`), `create` raising for a block that has a row.

### Latency
`Limit` is one turn of the loop that cuts `block_to` to what all needed pairs have;
`Train` reads the record, the grid and the prices and trains the windows not recorded
(`ToTrain`); each has a latency, none (`nan`), or an exception that leaves the
function and ends a loop's thread. `BulkCreate`, `SaveEach`, `SaveRecord`, `StartLoop` and
`StopLoop` are as in `Granularity`; `latency_data_auto_gen` is a loop that no button stops. Block
prices are stored in order (`MorePrices` moves `final`), but the recorded end that calls read
(`priced`) is saved by `block_granularity_update` from what it read long before: `RecordPrices`
takes it to any block it may have been at, forward or back. A
latency is represented by `seed`, the block of the price that fills the window's first
rows (`ffill`), since that is what depends on how the range was split. The source has a
price in each block, the target where its feed reported, at least once in a window.

Requests that name `block_from` are left out: one beyond the recorded range leaves a gap that
no later call fills, as in `Granularity`, so `NoWindowSkipped` is about the callers the
web application has. Every needed pair is taken to have a record of block prices when the model
begins. Crawls are taken to grow forward only (`PricedFrom` is a constant): when
earlier prices are added, the strict `>` of `train_var` loses the window that ends at the
recorded beginning.

### DebtAccount
Its `DebtInit`, `DebtNext`, `DebtSpec` and `DebtTypeOK` have names of their own because
`DebtMonitorProofs` extends it together with `HealthChart`. `ledger` is what the pool (external)
knows of the address, `book` what the dictionaries hold. Each action of the pool changes `ledger`,
leaves a log, and its row changes `book` (`Replay...`). `NoRow` are the logs `update_data` drops.
A repayment's row has rate mode "-1" (the log has none), which fits no branch of
`update_target_debt_data`. Amounts are exact in the model and floats of ray arithmetic in the
code, which warns of balances that rounding makes negative just before it asserts that they are
not. Rounding decides only where all of a balance is taken (amounts are otherwise far apart):
`Short` is then a free choice (`below`), and taking nothing from nothing, as a liquidation does of
a variable debt that does not exist, always raises. `repaid`, `switched`, `swapped` and `emptied`
(all of a collateral or of a variable debt was taken) remember what the properties speak of.

### HealthChart
`config` is `HFPlotConfig`, `globals` the copy `gen_hf_chart` makes. A thread takes one step per
read of a global or a table: `CopyConfig`, `ReadStatus`, `ReadRows`, `ReadUntil`,
`ReadCalls` (with the two exceptions that end it, and publication), `Simulate`.
`tables` says up to which block each table is filled, `Crawl` fills one at a time in the
order of `aave_log_details` and then the row "overall" (`LendingPool` in full). The
starters are `AutoConfig`/`AutoStart` and `PostConfig`/`PostStart`, two steps each, since the
dictionary they write is the one the thread will copy. `auto.asked` is the address in the POST
that `auto_plot` holds and reads again on every turn; `WipePost` is a crawler of the same click
that replaces that POST by `{}`, after which the address is the one configured last, by
the form or by the server's start (`AskedTarget`).

## 3. Runs

| Run | Shows | States |
|---|---|---|
| `price_crawl` | `NoHoles`, `SummaryIsStored` with a reorganisation, an exit, a request, two refreshes | 1.4 M |
| `price_threads` | two auto_update threads: refinement of `PrefixCopy`, `SummaryIsStored`, and the liveness `AutoUpdateCatchesUp` | 1.0 M |
| `granularity` | two updaters: means of whole blocks, no gap, `ReportedBlocksGetPrices` | 0.3 M |
| `pipeline` | the crawl is the environment `Granularity` assumes; `PricesUseAllData` | 0.6 M |
| `pool` | `OverallIsStored` with unknown topics, rows saved one by one, an exit; either direction gets through the windows that can be got through | 0.5 M |
| `own_requests` | started by a button each: claims and liveness hold | 0.5 M |
| `web_control` | reach, start, plots | 0.1 M |
| `block_time` | every block of a range is returned, a call ends, what ends the server and the loop | 0.2 M |
| `latency` | no window passed over, splitting the range changes no latency, prices of a window are final, a loop that goes on tries every window | 1.0 M |
| `debt_replay` | collateral and debt against the pool's account, of whom the replay raises | 2.3 M |
| `charts` | charts of a thread that ran alone are complete; `auto_plot` keeps up with the crawl, also after the POST is gone | 0.9 M |
| `one_request` | violation of `RangeIsCrawled` | |

Bounds. Three to four blocks and a window of one or two blocks make every window
case happen: the window at the head, a clipped one, the overlap of two windows at a
block, an empty one, one that is half inserted (two logs in a block). One pair is
enough because pairs share no data but the order of the loop. Two threads are enough for
every race of the code, each being between a thread and the saved row of
another. One exit and one reorganisation each may fall between any two steps; a second
exit starts from a state like the first. `MaxInt` stands for the models' default
2147483647 and is above every block.

`block_time` has two windows of the automatic update (the second is where it ends) and up to three
chunks; `PNum` is 2, of the code's 10, and the range two or three blocks, so that the gap is 1 or
2 and the last chunk passes the range or begins at its end; one error of the node falls anywhere
(`MaxErrors`). `latency` has two windows of two blocks, a first price past the first grid point,
and two needed pairs whose recorded ends differ; the price that fills the second window's first
row is reported at the recorded end or between it and the window (`TwoFeeds`; the proof is for
every feed that reports in each window). `pool` has five contents of a block, among them a pause,
a switch alone and nothing, so that some windows are got through and some are not, and
windows of up to three blocks: one is cut at the head, and after an exit taken again with a block
more, whose rows are then saved one by one.

`debt_replay` needs two tokens because a liquidation pairs two, and six actions to deposit, borrow
twice, repay, be liquidated and withdraw; amounts 1 and 2 make every comparison come out both
ways. `charts` needs two blocks, of which one may be half crawled, two addresses (liquidated in
both, never), and two threads, of which one is `auto_plot`'s and one the form's.

Deadlock is not checked where a run's bounds (blocks, clicks, requests) are used up
and every thread is off: the system then rests. `Granularity` has no such state.

Fairness. Threads are scheduled by the operating system and every Go call ends or ends the
process, so `WF` holds of every step of a started thread and of a request being served. Nothing is
assumed of the operator or the node: no fairness starts a thread, and that a crawler is started
again after an exit is a premise of the liveness properties of `DataStorage` and `LendingPool`
(`KeptRunning`), as is that it is not stopped. `block_granularity_auto_update` and
`latency_auto_update` loop, hence `WF` of `Begin` for `AutoUpdaters`; `Begin` is enabled only in a
loop that was started and sleeps, an exit, a stop or an exception turns it off, and
`ReportedBlocksGetPrices` and `EveryWindowIsTried` have the premise `<>[]` that it is not off. So
has `AutoPlotKeepsUp`, which also supposes the address configured in the end to have been
liquidated. In `HealthChart` the crawl goes on: that it does is `ForwardCatchesUp` of
`LendingPool`. In `BlockTime` a step of a call is fair, which includes that of its goroutines one
by one.

### What `one_request` means
`auto_main` hands one request to both crawlers, and both keep their window in its POST. In the run
the pool's crawler overwrites `block_from` after the price crawler has tested its own window; the
price crawler's `update_data` then stores logs from the pool's `block_from` on, and
`datastorage/views.py:719` saves the price crawler's own `block_to` as the end of what it
crawled. The blocks before the pool's `block_from` are claimed and never crawled. `Readme.md:127`
says of this click that it "will automatically start all database updating"; with a button for each
crawler (`own_requests`) nothing is shared and the claim holds.

### What the properties leave open
Found with the same modules under other constants, or by weakening a property until it
held; no run is about these:
- `get_log_data` takes one contract for the whole window, by the window's first
  block; the window that spans block 12453812 loses the logs after it. (`SwitchBlock <-
  SwitchAt3` in `MCDataStorage`: `AutoUpdateCatchesUp` fails.)
- the summary page reports a block being inserted, `block_granularity_update` averages half
  of it and records it as done. (`QuietRefresh = FALSE` in `MCPricePipeline`:
  `PricesUseAllData` fails.)
- the overall row is `max(block_to, record)`, `min(block_from, record)` of the *last
  action's* row. If the process exits after a reverse window has saved the actions'
  rows, the next forward window takes over their minimum. (`MaxDirections = 2` and
  `MaxBlock = 5` in `MCLendingPool`: `OverallIsStored` fails.)
- the crawler started by a click empties the POST before `auto_plot` reads the address
  from it, so the plot is about the configured one. (Two addresses in
  `MCWebControl`: `PlotsTheAddressTyped` fails.)
- after a reorganisation changed a stored price, `insert_price` raises for every
  thread that meets the row, and the replace branch after it is never reached;
- a forward window moves the minimum of the overall row up to the minimum of the last
  action's row, past logs that are stored;
- a full window without a log of the pool is asked for again and again ("No
  Data" returns before the row is saved); a window with collateral switches only
  ends the crawler (`update_record` is unbound), and so does a log whose topic the code does not
  know (`Paused`, `Unpaused`; the assertion at `debtmonitor/views.py:272`), at the same window
  after every restart: `ForwardCatchesUp` and `ReverseReachesCreation` have the premise that full
  windows can be got through (`Fed`);
- the pool's crawler never fetches a head block again that the node replaces after it was
  stored: its logs are missing from then on, inside the range claimed;
- a request of `block_granularity_update` with a `block_from` past the recorded range
  leaves a gap that no later call fills;
- the first two calls of `block_granularity_update` for a pair race between `get` and `create`; the
  slower one raises `IntegrityError`, which ends the auto-update thread when it is that one;
- two browser tabs: both find a worker dead and start it, and the first of the two threads is
  out of reach; a "Stop Auto" of one tab, served after an "Auto Start" of the other, tells
  what that started to end. (`Tabs` of two in `MCWebControl`: `RunningThreadIsInReach` fails
  after two clicks, `StartRunsAll` after three.)
- "Auto Start" right after "Stop Auto" starts nothing in the place of threads that
  are still ending; "Stop Auto" restarts ended workers first, and a restarted
  one drops the POST that said stop;
- every window of `block_time_auto_update` begins at 12980000, because the aggregate is of
  keys; its second window raises, and one within a chunk of the head ends the server
  (`AutoUpdateEnds` says the first, `ExitsOnlyNearHead` bounds the second while the node answers);
  an error of the node ends the server in any call;
- a debt that was repaid is still shown (`DebtIsThePoolsAndTheRepaid`), and a swap of the rate
  mode ends the chart of the address for good (`ReplaySwap`); so may rounding, where all of a
  collateral or of a variable debt was taken, and so does a liquidation of an address without
  variable debt (`Short`): `RaisesOnlyAtTheBottom` says that of no other address the replay
  raises, transfers of aTokens aside;
- a latency loop ends at a grid without points or a window that cannot be fitted, and nothing
  starts it again but a click;
- when block prices are added before the recorded ones, the latency window that ends where the
  record begins is passed over for good (the strict comparison at `datavisualization/views.py:352`);
- an address that was never liquidated gets no chart (the calls table has no columns,
  `debtmonitor/views.py:672`); `auto_plot` ends at an address without rows
  (`oracleWeb/views.py:429`), and the form's request fails with its configuration kept;
- chart threads that overlap draw one address's rows with another's calls up to a third
  block, and the older may publish last: `AloneIsComplete` without `alone` fails.

## 4. Proofs

`DataStorageProofs`, for any pairs, threads, values, chain and window lengths, any
number of exits and requests:
- `TypeCorrect`: `TypeOK`.
- `PricesHaveNoHoles` (`NoHoles`), `SummaryNeverOverstates` (`SummaryIsStored`): under
  `OneContract` (no feed changes its contract after `StartBlock`) and `SomePair`, with any
  number of reorganisations of the head. `OneContract` is needed (section 3, `get_log_data`
  takes one contract for the whole window).
- `RowsAreOnTheChain`: under `NoReorgs` (the chain is not reorganised) as well, no row
  stands in the place of another (`NoConflicts`), so that the two say of the log itself that it is
  stored.
- `CrawlCopiesTheChain`: under the three assumptions `DataStorage` implements
  `PrefixCopy` (`PricesFollowTheChain`).

The argument: `NoHoles` alone is not inductive, a thread may be about to insert a
batch whose predecessors are missing. The inductive invariant has two parts.

`Base` is about the order of blocks and survives a reorganisation. `Passed(C, R, b)` says
that each log below block `b` has a row with its key; a reorganisation replaces the head
block only, and no `b` in the invariant is past the head, so `Passed` is kept
(`PassedStays`). `Base` says it of the block of every stored row (`StoredOK`), of what a Summary
row or a snapshot of one, however old, claims (`RowOK`), of a call's first block, and, with
the batch added to the rows, of every log in a batch (`CallOK`); of a worker's last block, so
that the row it will save is right (`WorkOK`); of the bounds the summary page has read
(`ReadInv`), during which no pair gets its first row (`FirstRowInv`). All are
monotone in the rows (`RowStays`, `CallStays`, `WorkStays`), which is why no interleaving
can break them. A row with the key of a log is the log or in conflict with it
(`KeyedIsStored`), whence both theorems.

`Strict` is about the order inside a block and holds until the first reorganisation
(`IInv` is `Base` and `used.reorgs = 0 => Strict`): the table is a prefix of the chain
(`PrefixOK`), what precedes a log of a batch is stored or in the batch (`BatchOK`), and a
finished window is stored with its last block (`WindowOK`). `NoHoles` needs it in that case, and
so does the refinement: all that precedes the least log of a batch is stored, so every
insert is `PrefixCopy`'s next copy or, for a row that is there, a stutter
(`InsertCopies`), and a block of the node appends logs (`MineExtends`).

`DataStorageProofs` also composes the two components (`PricePipeline`), for any number of
crawlers, requests and updaters, under the three assumptions and `QuietRefresh`:
- `CrawlIsGranularitysEnvironment`: the crawl implements the environment that `Granularity`
  assumes (`BlockPricesRestOnTheCrawl`).
- `BlockPricesUseAllData`: hence, when calls name no range, every block price is the mean
  of all the rows of its block and no crawled block of the recorded range is skipped
  (`PricesUseAllData`, `NothingSkipped`).

`IInv` lets a Summary row's last block be half inserted; `WholeInv` says that under
`QuietRefresh` it is not, of the table, of every snapshot and of what the summary page has
read, and that a window ends at or past the row it began from (a saved row reports
no less than its snapshot did). `ClosedBlock`, a `CHOOSE`, is shown to exist (the least
missing block, `ClosedIs`), to be the last block below which nothing is missing
(`ClosedIsLast`) and never to move back (`ClosedGrows`). Then an insert is above the closed
block (`InsertIsAbove`) and a save is `Summarise` (`SaveMaps`); all else is a stutter. The
second theorem takes the invariant of `GranularityProofs`, instantiated with the crawl
as its environment, from there. Without `QuietRefresh` both fail (section 3).

`GranularityProofs`, for any pairs, logs and updaters: `TypeCorrect`,
`WholeMeans` (`MeansAreOfWholeBlocks`) and `NoBlockSkipped` (`NothingSkipped`), when requests
name no range. The invariant says of every call that what it read of the record is
gapless and that its batch holds whole blocks and all the new ones of its range.

`DebtMonitorProofs` has the two modules of the debtmonitor app's charts. Of `DebtAccount`, for any
set of tokens, any amounts and any number of actions: `DebtTypes` (`DebtTypeOK`: no balance
becomes negative), `DebtShown` (`DebtIsThePoolsAndTheRepaid`), `CollateralShown`
(`CollateralIsThePools`) and `DrawnUnlessSwappedOrEmptied` (`RaisesOnlyAtTheBottom`). The
invariant has, while nothing has raised, that each token's debts in `book` sum up to the pool's
and what was repaid, that the variable one is no less than the pool's, and that a stable debt that
is not dated is zero (`Matches`: otherwise a repayment would pass it over, and the sum alone is
not kept by a liquidation), and, while no aTokens have moved, that the collateral is the pool's,
able, listed when there is any, and used by the pool unless switched (`Backs`). A liquidation's
cover is split by `Cover` between the replay's debts, however the pool splits it, and the sums are
equal either way; it never takes more than there is, since the pool covers no more than is owed
and `book` has at least that; and while the pool's variable debt is more than what is covered, so
is the replay's, so that rounding decides nothing. So an assertion fails only where collateral is
missing, after a transfer, where all of a balance was taken, or at a swap.

Of `HealthChart`, for any addresses, starters, rows and states of the crawl:
`HealthChartTypes` (`TypeOK`) and `AloneChartIsComplete` (`AloneIsComplete`). The invariant
orders the tables by how far they are filled (`Filled`: overall, calls, call rows, rows,
status), so that what is read after the range holds all up to the range's end, and says of a thread
that ran alone that all others are off and what it has read is whole up to `globals.end`
(`Alone`, `Reads`).

`LatencyProofs`, for any needed pairs, callers, requested ends, grid, bound and number
of exits, and any feed that reports in each window (`Reports`): `LatencyTypes` (`TypeOK`),
`NoWindowIsSkipped` (`NoWindowSkipped`), `SplitChangesNothing` (`SameAsOneCall`) and
`LatenciesAreFinal` (`WindowsArePriced`). `NoWindowSkipped` is not inductive: calls save
ranges extended from what they read long ago. The invariant says of every range, in the table or
read from it, that all windows *up to its end* were tried, also those before its
beginning (`Covers`: a first window without a latency is in no range), and of every call that
its windows are all those after the range it read (`Batched`), so that what it saves is
covered whatever others have saved since (`SavedRange`). A seed is the one of a single call
because two grid points are a window apart (`GridStep`): between the recorded end and
the next window the feed has reported, and these rows are visible (`SeedIsFilledFrom`).
`LatenciesAreFinal` speaks of the prices themselves (`final`), not of the range recorded of
them: a stale save may take that back, but never past what is stored, so that a call cut to it
trains no window too early.

`LendingPoolProofs`, for any actions, contents of blocks, window lengths and heads, under
`OneOperator`: `LendingPoolTypes` (`TypeOK`) and `OverallNeverOverstates`
(`OverallIsStored`). `OneOperator` is what the Readme describes, one crawler, one request
submitted by hand before it, and either only one direction or no exit; TLC finds
`OverallIsStored` violated when any of the three is dropped (the last is the reverse window of
section 3). `OverallIsStored` is not inductive because the overall row is computed from the
last action's row, and "in use" rows are ahead of the table while a window is half done. The
invariant says that a row claims blocks on either side of the window in hand, or of the
window that will be taken next, only when they are stored (`Fits`): what an exit left half
done lies within the window that is taken again (`Resumable`), so it need not be stored
when a row claims it. `TypeOK` needs the same invariant, since `Extended` takes the minimum and
maximum of blocks that have to be within the window.

`SharedRequestProofs`, for any heads and window lengths: `SharedRequestTypes` (`TypeOK`, also
with one request for both), `OwnCrawlersKeepApart` (`OwnRangeIsCrawled`), `OwnCrawlersNeverDie`
(`OwnCrawlersLive`) and `OwnRangesOnlyGrow` (`OwnRangesGrow`). The invariant says of
a crawler with a request of its own, at each statement, what the statements before it have
put there: the range in the POST begins where the crawled blocks end, and at the save it
is crawled (`Own`). The last two theorems, which
no run checks beside `OwnCatchUp`, need, on top of it, that the keys are there from the
statement that writes them to the last that reads them, and that a window that passed
the loop's test ends after the saved range and no later than the head that was read
(`Turn`); the other crawler's steps leave all that alone, since they write to another POST
(`TurnKept`), and the pool's save is the largest block stored because its own blocks end
where its saved range does. With a shared request none of this holds (`one_request`).

`WebControlProofs`, for any workers, plots, addresses and any number of clicks and failures:
`WebControlTypes` (`TypeOK`, for any number of tabs); `ThreadsStayInReach`
(`RunningThreadIsInReach`) with one tab; `StartAllRunsAll` (`StartRunsAll`) with one tab
and a patient user. `is_alive` is read before a thread is started, in another request or
another turn of the loop: the invariant says that what was found dead is still dead then
(`StillDead`), since threads only die (`Calm`) and the one tab waits for its request. For the start of
all it says that no thread is told to end, that the workers gone through have a thread, and that the
POST still names the button (`Starts`). Two tabs break both theorems, an impatient
user the second (section 3).

`BlockTimeProofs`, for any number of loops and requests, any range, any `p_num` and any order in
which the goroutines send: `BlockTimeTypes` (`TypeOK`), `RangeStaysStored` (`RangeIsStored`),
`ExitsNearHead` (`ExitsOnlyNearHead`: errors of the node aside, which end the server anywhere) and
`AutoUpdateStandsStill`: no window of `block_time_auto_update` begins after `StartBlock`. The
chunks cover the range because the multiples of `Gap` below a block are within a gap of it
(`ChunksCover`, `MultipleRem`), and what is joined holds it whatever the order because of the
places a block has in the channel one is the least (`JoinedCovers`). The invariant says of a call
that what was sent was asked for and exists, and that its range is stored or among the rows to be
inserted (`CallOK`). `RangeIsStored` also needs that no row is passed over, that is, `New` of
every block: it follows from the keys being fewer than `FirstBlock` (`KeySpace`), the assumption
that `BlockNumber` has fewer rows than the chain had blocks at `StartBlock`. The same fact keeps
`AutoFrom` at `StartBlock`.

Model-checked only: all liveness (no proof system backend for it here), and `RangeIsCrawled`, the
property `one_request` shows to fail.

## 5. Plan

Order: the crawl first, because all other data rests on it; then what reads it; then
control; then the block table, latencies, debts and charts. Done: sections 2 to 4. Left:

1. The price and latency chart threads (`get_price_line_chart`, `get_latency_chart`) and the
   done flags of `healthfactor_chart_view`, which share globals the way `gen_hf_chart` does.
2. `BlockTime` composed with `DataStorage` by the exit of their common process.

## 6. Not modelled

Decoding of logs into numbers, rendering of pages and charts, the Monte Carlo and VAR numerics (a
choice of outcomes in `Latency`), interest on debts (amounts are in scaled units) and their
rounding, but where a balance is taken to zero, MySQL isolation beyond single statements (each ORM
call is its own transaction, as the settings leave it), requests of `latency_data_gen` with a
`block_from`, CSV import (the same `insert_price` on rows of a file), `initialize_data` (its rows
are the constant `Pairs`), `priceData` (a stub), the command line crawlers, vendored and generated
code (most of the repository's lines: go-ethereum, echarts, bootstrap, jquery).
