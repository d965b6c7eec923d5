---------------------------- MODULE PricePipeline ----------------------------
(***************************************************************************)
(* The price crawl and the block prices together: DataStorage writes the   *)
(* tables Price and Summary, Granularity reads them and writes BlockPrice  *)
(* and BlockPriceUpdateRecord. They share nothing else but the process,    *)
(* which a failing Go call ends for both.                                  *)
(***************************************************************************)
EXTENDS DataStorage

CONSTANTS
  Updaters, AutoUpdaters, Ranges, MaxInt,  \* as in Granularity
  QuietRefresh   \* does the summary page never meet a half crawled block?

ASSUME QuietAssumption == QuietRefresh \in BOOLEAN
ASSUME PriceBoundAssumption == MaxInt \in Nat /\ MaxBlock < MaxInt
ASSUME UpdatersAssumption == AutoUpdaters \subseteq Updaters
ASSUME RangesAssumption == Ranges \subseteq Int \X Int /\ <<-1, -1>> \in Ranges

VARIABLES prices, record, gen   \* as in Granularity

granularity == <<prices, record, gen>>

\* The block up to which a pair is wholly crawled.
ClosedBlock(p) ==
  CHOOSE b \in (StartBlock - 1)..head :
    /\ \A l \in chain[p] : l.block <= b => l \in rows[p]
    /\ b = head \/ \E l \in chain[p] \ rows[p] : l.block = b + 1

\* What block_granularity_update reads of a Summary row.
Reported(p) == [has_data |-> summary[p].has_data,
                min |-> summary[p].min, max |-> summary[p].max]

BlockPrices == INSTANCE Granularity WITH
  Logs <- UNION {LogsAt(b, c) : b \in StartBlock..MaxBlock, c \in BlockContents},
  LastBlock <- MaxBlock,
  MaxExits <- MaxCrashes,
  closed <- [p \in Pairs |-> ClosedBlock(p)],
  summary <- [p \in Pairs |-> Reported(p)],
  exits <- used.crashes

PipelineInit ==
  /\ Init
  /\ prices = [p \in Pairs |-> {}]
  /\ record = [p \in Pairs |-> BlockPrices!NoRange]
  /\ gen = [u \in Updaters |-> BlockPrices!NoGen]

\* With QuietRefresh, the summary page reads the bounds of a pair only while
\* none of its blocks is half inserted.
Quiet == QuietRefresh /\ refresh.stage = "range" /\ refresh'.stage = "count" =>
           \A r \in rows[refresh'.pair], l \in chain[refresh'.pair] :
             l.block = r.block => l \in rows[refresh'.pair]

\* A step of the crawl other than an exit.
CrawlStep ==
  /\ \/ Mine \/ Operator \/ AllOracle
     \/ \E t \in Threads : UpdateData(t)
     \/ \E w \in Workers : StartWorker(w) \/ StopWorker(w) \/ AutoUpdate(w)
  /\ Quiet
  /\ UNCHANGED granularity

BlockPriceStep ==
  /\ UNCHANGED vars
  /\ \E u \in Updaters : BlockPrices!Call(u)

ProcessExit ==
  /\ NodeError
  /\ gen' = [u \in Updaters |-> BlockPrices!NoGen]
  /\ UNCHANGED <<prices, record>>

PipelineNext == CrawlStep \/ BlockPriceStep \/ ProcessExit

PipelineSpec == PipelineInit /\ [][PipelineNext]_<<vars, granularity>>

-----------------------------------------------------------------------------
\* The crawl is what Granularity takes it for: a Summary row never reports a
\* block that is still being inserted, through all interleavings of windows,
\* inserts, stale saves and exits with the block price update.
BlockPricesRestOnTheCrawl == BlockPrices!Spec

\* Readme 2.2, "the web application will automatically use all data in the
\* database to generate the block price": a block price is the mean of all
\* the rows of its block, once those are all there.
PricesUseAllData ==
  \A p \in Pairs : \A x \in prices[p] :
    x.block < summary[p].max => x.of = BlockPrices!RowsOf(p, x.block)

=============================================================================
