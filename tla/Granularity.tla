----------------------------- MODULE Granularity -----------------------------
(***************************************************************************)
(* Block prices: block_granularity_update of the datavisualization app     *)
(* averages the Price rows of every block into one BlockPrice row, and     *)
(* keeps in BlockPriceUpdateRecord the block range it has been through.    *)
(* It is run by the auto-update thread and by every request of the page,   *)
(* side by side and each statement its own transaction.                    *)
(*                                                                         *)
(* A mean is modelled by the set of rows it is the mean of.                *)
(*                                                                         *)
(* The price crawl is the environment: it adds rows above the blocks that  *)
(* are closed (wholly crawled) and reports, in Summary, a range that ends  *)
(* at a closed block. PricePipeline puts the real crawl in its place.      *)
(***************************************************************************)
EXTENDS Integers, FiniteSets

CONSTANTS
  Pairs,         \* rows of TokenPair
  Logs,          \* logs that may be crawled for a pair, with their block
  LastBlock,     \* bound: last block of the chain
  Updaters,      \* threads that run block_granularity_update
  AutoUpdaters,  \* those of them that run it in a loop
  Ranges,        \* <<block_from, block_to>> of the requests, -1 when not given
  MaxInt,        \* default of min_block_number, above every block
  MaxExits       \* bound: exits of the process

ASSUME LogsAssumption == \A l \in Logs : l.block \in 0..LastBlock
ASSUME MaxIntAssumption == /\ LastBlock \in Nat /\ MaxInt \in Nat
                           /\ LastBlock < MaxInt
ASSUME UpdatersAssumption == AutoUpdaters \subseteq Updaters
ASSUME RangesAssumption == Ranges \subseteq Int \X Int /\ <<-1, -1>> \in Ranges
ASSUME ExitsAssumption == MaxExits \in Nat

VARIABLES
  rows,     \* [Pairs -> set of logs] the Price table
  closed,   \* [Pairs -> block up to which the pair is wholly crawled]
  summary,  \* [Pairs -> Report] what Summary says of the pair
  prices,   \* [Pairs -> set of Mean] the BlockPrice table
  record,   \* [Pairs -> Range] the BlockPriceUpdateRecord table
  gen,      \* [Updaters -> Gen] the block_granularity_update calls
  exits     \* how often the process ended

vars == <<rows, closed, summary, prices, record, gen, exits>>
crawl == <<rows, closed, summary>>

Blocks == -1..LastBlock
Report == [has_data: BOOLEAN, min: Int, max: Int]
Range == [row: BOOLEAN, min: Int, max: Int]   \* row: FALSE when there is none yet
Mean == [block: Int, of: SUBSET Logs]
Gen == [stage: {"idle", "sleep", "each", "make", "query", "create", "retry", "record"},
        todo: SUBSET Pairs, snap: [Pairs -> Report], asked: Int \X Int,
        pair: Pairs, read: Range, new: SUBSET Mean]

NoReport == [has_data |-> FALSE, min |-> -1, max |-> -1]
NoRange == [row |-> FALSE, min |-> MaxInt, max |-> -1]
NewRange == [NoRange EXCEPT !.row = TRUE]   \* the defaults of a row just made
NoGen == [stage |-> "idle", todo |-> {}, snap |-> [p \in Pairs |-> NoReport],
          asked |-> <<-1, -1>>, pair |-> CHOOSE p \in Pairs : TRUE,
          read |-> NoRange, new |-> {}]

Lesser(a, b) == IF a < b THEN a ELSE b
Greater(a, b) == IF a < b THEN b ELSE a
RowsOf(p, b) == {l \in rows[p] : l.block = b}
Priced(p, b) == \E x \in prices[p] : x.block = b

TypeOK ==
  /\ rows \in [Pairs -> SUBSET Logs]
  /\ closed \in [Pairs -> Blocks]
  /\ summary \in [Pairs -> Report]
  /\ prices \in [Pairs -> SUBSET Mean]
  /\ record \in [Pairs -> Range]
  /\ gen \in [Updaters -> Gen]
  /\ exits \in 0..MaxExits

Init ==
  /\ rows = [p \in Pairs |-> {}]
  /\ closed \in [Pairs -> Blocks]
  /\ summary = [p \in Pairs |-> NoReport]
  /\ prices = [p \in Pairs |-> {}]
  /\ record = [p \in Pairs |-> NoRange]
  /\ gen = [u \in Updaters |-> NoGen]
  /\ exits = 0

-----------------------------------------------------------------------------
(* The price crawl, as far as block prices can tell.                       *)

Crawl ==
  /\ closed' \in [Pairs -> Blocks]
  /\ \A p \in Pairs : closed[p] <= closed'[p]
  /\ \/ rows' = rows
     \/ \E p \in Pairs, l \in Logs : /\ closed[p] < l.block
                                     /\ rows' = [rows EXCEPT ![p] = @ \cup {l}]
  /\ UNCHANGED <<summary, prices, record, gen, exits>>

\* A Summary row is saved: it reports the first block with a row, up to a
\* closed block (or to an earlier one, when a stale row is saved).
Summarise(p) ==
  /\ \/ /\ rows[p] = {}
        /\ summary' = [summary EXCEPT ![p] = NoReport]
     \/ \E first \in rows[p], b \in 0..closed[p] :
          /\ \A l \in rows[p] : first.block <= l.block
          /\ first.block <= b
          /\ summary' = [summary EXCEPT ![p] =
                           [has_data |-> TRUE, min |-> first.block, max |-> b]]
  /\ UNCHANGED <<rows, closed, prices, record, gen, exits>>

\* log.Fatal in a crawler's Go call ends the process and every thread in it.
Exit ==
  /\ exits < MaxExits
  /\ exits' = exits + 1
  /\ gen' = [u \in Updaters |-> NoGen]
  /\ UNCHANGED <<rows, closed, summary, prices, record>>

-----------------------------------------------------------------------------
(* block_granularity_auto_update: started by a click, it sleeps and calls  *)
(* the update until it is told to stop, the update raises or the process   *)
(* ends. Nothing starts it again but another click.                        *)

StartLoop(u) ==
  /\ u \in AutoUpdaters /\ gen[u].stage = "idle"
  /\ gen' = [gen EXCEPT ![u].stage = "sleep"]
  /\ UNCHANGED <<rows, closed, summary, prices, record, exits>>

\* do_run is FALSE when the loop tests it.
StopLoop(u) ==
  /\ gen[u].stage = "sleep"
  /\ gen' = [gen EXCEPT ![u].stage = "idle"]
  /\ UNCHANGED <<rows, closed, summary, prices, record, exits>>

-----------------------------------------------------------------------------
(* block_granularity_update                                                *)

\* Summary.objects.all() is evaluated once; pairs without data are skipped.
Begin(u, asked) ==
  /\ gen[u].stage = IF u \in AutoUpdaters THEN "sleep" ELSE "idle"
  /\ gen' = [gen EXCEPT ![u] = [NoGen EXCEPT !.stage = "each", !.snap = summary,
                                  !.todo = {p \in Pairs : summary[p].has_data},
                                  !.asked = asked]]
  /\ UNCHANGED <<rows, closed, summary, prices, record, exits>>

\* BlockPriceUpdateRecord.objects.get, or else DoesNotExist.
ReadRecord(u, p) ==
  /\ gen[u].stage = "each" /\ p \in gen[u].todo
  /\ gen' = [gen EXCEPT ![u].stage = IF record[p].row THEN "query" ELSE "make",
                        ![u].pair = p, ![u].read = record[p], ![u].todo = @ \ {p}]
  /\ UNCHANGED <<rows, closed, summary, prices, record, exits>>

\* objects.create: the pair's row is unique, the slower of two first calls
\* raises out of the update, and a loop's thread ends.
MakeRecord(u) ==
  /\ gen[u].stage = "make"
  /\ IF record[gen[u].pair].row
     THEN /\ gen' = [gen EXCEPT ![u] = NoGen]
          /\ UNCHANGED record
     ELSE /\ record' = [record EXCEPT ![gen[u].pair] = NewRange]
          /\ gen' = [gen EXCEPT ![u].stage = "query", ![u].read = NewRange]
  /\ UNCHANGED <<rows, closed, summary, prices, exits>>

\* The range a call goes through: what it was asked, or else what its
\* snapshot of Summary reports.
From(g) == IF g.asked[1] = -1 THEN g.snap[g.pair].min ELSE g.asked[1]
To(g) == IF g.asked[2] = -1 THEN g.snap[g.pair].max ELSE g.asked[2]

\* A slip of the next definition: the last block of the range is left out.
IsNewButLast(g, b) == /\ From(g) <= b /\ b < To(g)
                      /\ g.read.max < b \/ b < g.read.min

IsNew(g, b) == /\ From(g) <= b /\ b <= To(g)
               /\ g.read.max < b \/ b < g.read.min

\* A slip of the next definition: a row per price, not a mean per block.
QueryWithoutMean(u) ==
  /\ gen[u].stage = "query"
  /\ LET g == gen[u]
         new == {[block |-> l.block, of |-> {l}] : l \in {k \in rows[g.pair] : IsNew(g, k.block)}}
     IN gen' = [gen EXCEPT ![u].stage = IF new = {} THEN "each" ELSE "create",
                           ![u].new = new]
  /\ UNCHANGED <<rows, closed, summary, prices, record, exits>>

\* The Price query and the groupby: one mean per block that has a new row.
Query(u) ==
  /\ gen[u].stage = "query"
  /\ LET g == gen[u]
         new == {[block |-> l.block, of |-> RowsOf(g.pair, l.block)] :
                   l \in {k \in rows[g.pair] : IsNew(g, k.block)}}
     IN gen' = [gen EXCEPT ![u].stage = IF new = {} THEN "each" ELSE "create",
                           ![u].new = new]
  /\ UNCHANGED <<rows, closed, summary, prices, record, exits>>

\* A slip of the next definition: the rows themselves are stored.
BulkCreateOfRows(u) ==
  /\ gen[u].stage = "create"
  /\ LET p == gen[u].pair
     IN IF \E x \in gen[u].new : Priced(p, x.block)
        THEN /\ gen' = [gen EXCEPT ![u].stage = "retry"]
             /\ UNCHANGED prices
        ELSE /\ prices' = [prices EXCEPT ![p] = @ \cup UNION {x.of : x \in gen[u].new}]
             /\ gen' = [gen EXCEPT ![u].stage = "record", ![u].new = {}]
  /\ UNCHANGED <<rows, closed, summary, record, exits>>

\* bulk_create is one transaction: one block that is priced already and
\* nothing is stored; the rows are then saved one at a time.
BulkCreate(u) ==
  /\ gen[u].stage = "create"
  /\ LET p == gen[u].pair
     IN IF \E x \in gen[u].new : Priced(p, x.block)
        THEN /\ gen' = [gen EXCEPT ![u].stage = "retry"]
             /\ UNCHANGED prices
        ELSE /\ prices' = [prices EXCEPT ![p] = @ \cup gen[u].new]
             /\ gen' = [gen EXCEPT ![u].stage = "record", ![u].new = {}]
  /\ UNCHANGED <<rows, closed, summary, record, exits>>

\* A slip of the next definition: the first duplicate ends the loop.
SaveEachStops(u) ==
  /\ gen[u].stage = "retry"
  /\ \E x \in gen[u].new :
       LET p == gen[u].pair
           rest == IF Priced(p, x.block) THEN {} ELSE gen[u].new \ {x}
       IN /\ \A y \in gen[u].new : x.block <= y.block
          /\ prices' = IF Priced(p, x.block) THEN prices
                       ELSE [prices EXCEPT ![p] = @ \cup {x}]
          /\ gen' = [gen EXCEPT ![u].new = rest,
                       ![u].stage = IF rest = {} THEN "record" ELSE "retry"]
  /\ UNCHANGED <<rows, closed, summary, record, exits>>

\* tmp_obj.save(), its IntegrityError ignored.
SaveEach(u) ==
  /\ gen[u].stage = "retry"
  /\ \E x \in gen[u].new :
       LET p == gen[u].pair
           rest == gen[u].new \ {x}
       IN /\ \A y \in gen[u].new : x.block <= y.block
          /\ prices' = IF Priced(p, x.block) THEN prices
                       ELSE [prices EXCEPT ![p] = @ \cup {x}]
          /\ gen' = [gen EXCEPT ![u].new = rest,
                       ![u].stage = IF rest = {} THEN "record" ELSE "retry"]
  /\ UNCHANGED <<rows, closed, summary, record, exits>>

\* update_record.save() writes the range read before the query, extended.
SaveRecord(u) ==
  /\ gen[u].stage = "record"
  /\ LET g == gen[u]
     IN record' = [record EXCEPT ![g.pair] =
                     [row |-> TRUE, min |-> Lesser(From(g), g.read.min),
                                    max |-> Greater(To(g), g.read.max)]]
  /\ gen' = [gen EXCEPT ![u].stage = "each"]
  /\ UNCHANGED <<rows, closed, summary, prices, exits>>

Done(u) ==
  /\ gen[u].stage = "each" /\ gen[u].todo = {}
  /\ gen' = [gen EXCEPT ![u] = [NoGen EXCEPT
                                  !.stage = IF u \in AutoUpdaters THEN "sleep" ELSE "idle"]]
  /\ UNCHANGED <<rows, closed, summary, prices, record, exits>>

Update(u) ==
  \/ \E p \in Pairs : ReadRecord(u, p)
  \/ MakeRecord(u) \/ Query(u) \/ BulkCreate(u) \/ SaveEach(u) \/ SaveRecord(u) \/ Done(u)

Call(u) ==
  \/ StartLoop(u) \/ StopLoop(u) \/ Update(u)
  \/ \E asked \in Ranges : Begin(u, asked)

Environment == Crawl \/ Exit \/ \E p \in Pairs : Summarise(p)

Next ==
  \/ Environment
  \/ \E u \in Updaters : Call(u)

Spec == Init /\ [][Next]_vars

\* A call runs to its end, and a loop that has been started calls the update
\* again and again. Nobody has to click.
Fairness ==
  /\ \A u \in Updaters : WF_vars(Update(u))
  /\ \A u \in AutoUpdaters : WF_vars(Begin(u, <<-1, -1>>))

FairSpec == Spec /\ Fairness

-----------------------------------------------------------------------------
(* Properties.                                                             *)

\* A block price is the mean of all the rows its block has: no block is
\* averaged while the crawl is still inside it (BlockPrice rows are written
\* once, a later call skips the blocks of the recorded range).
MeansAreOfWholeBlocks ==
  \A p \in Pairs : \A x \in prices[p] : x.of = RowsOf(p, x.block)

\* The recorded range has no gap: a crawled block inside it has its price,
\* however the calls that extend it from a stale read are interleaved.
NothingSkipped ==
  \A p \in Pairs : \A l \in rows[p] :
    record[p].min <= l.block /\ l.block <= record[p].max => Priced(p, l.block)

\* Every block a Summary row lastingly reports gets its price, by a loop that
\* is not ended for good: an exit and the IntegrityError of two first calls end
\* it, a click starts it again.
ReportedBlocksGetPrices ==
  \A p \in Pairs, l \in Logs, u \in AutoUpdaters :
    <>[](l \in rows[p] /\ summary[p].has_data /\ l.block <= summary[p].max
           /\ gen[u].stage # "idle")
      => <>Priced(p, l.block)

=============================================================================
