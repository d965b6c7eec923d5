-------------------------- MODULE GranularityProofs --------------------------
(***************************************************************************)
(* Block prices are right for every set of pairs, logs and updaters, as    *)
(* long as the calls do not name a block range of their own.               *)
(***************************************************************************)
EXTENDS Granularity, TLAPS

DefaultRange == Ranges = {<<-1, -1>>}
SomePair == Pairs # {}

(***************************************************************************)
(* The inductive invariant. Its parts take a pair's rows (R), its prices   *)
(* (P) and its closed block (c) as parameters.                             *)
(***************************************************************************)
\* The price of a block, in the table or about to be, is of all its rows.
WholeOK(R, c, x) == x.block <= c /\ x.of = {l \in R : l.block = x.block}

\* A Summary row or a snapshot of it: from before the first row to a closed block.
ReportOK(R, c, r) == r.has_data => /\ \A l \in R : r.min <= l.block
                                   /\ r.min <= r.max /\ r.max <= c

PricedIn(P, b) == \E x \in P : x.block = b

\* A recorded range, or a read of it: it begins before the first row, and
\* its rows are priced.
RangeOK(R, P, c, r) ==
  /\ r.max <= c
  /\ r.max # -1 => r.min <= r.max /\ \A l \in R : r.min <= l.block
  /\ \A l \in R : r.min <= l.block /\ l.block <= r.max => PricedIn(P, l.block)

\* A call that has a pair in hand: its new blocks are priced or among the
\* means it still has to save.
WorkOK(R, P, c, g) ==
  g.stage \notin {"idle", "sleep", "each"} =>
    /\ g.snap[g.pair].has_data
    /\ RangeOK(R, P, c, g.read)
    /\ \A x \in g.new : WholeOK(R, c, x)
    /\ g.stage \notin {"make", "query"} =>
         \A l \in R : IsNew(g, l.block) =>
           PricedIn(P, l.block) \/ \E x \in g.new : x.block = l.block

GenOK(u) ==
  LET g == gen[u]
  IN /\ g.asked = <<-1, -1>>
     /\ \A p \in Pairs : ReportOK(rows[p], closed[p], g.snap[p])
     /\ \A p \in g.todo : g.snap[p].has_data
     /\ g.stage \in {"idle", "sleep", "each", "make", "query", "record"} => g.new = {}
     /\ WorkOK(rows[g.pair], prices[g.pair], closed[g.pair], g)

PairOK(p) ==
  /\ \A x \in prices[p] : WholeOK(rows[p], closed[p], x)
  /\ ReportOK(rows[p], closed[p], summary[p])
  /\ RangeOK(rows[p], prices[p], closed[p], record[p])

IInv == TypeOK /\ (\A p \in Pairs : PairOK(p)) /\ \A u \in Updaters : GenOK(u)

-----------------------------------------------------------------------------
\* The values a call starts from are of their types.
LEMMA Constants ==
  ASSUME SomePair
  PROVE  /\ NoReport \in Report /\ NoRange \in Range /\ NewRange \in Range
         /\ NoGen \in Gen
         /\ NoGen.stage = "idle" /\ NoGen.asked = <<-1, -1>> /\ NoGen.todo = {}
         /\ NoGen.new = {}
         /\ \A p \in Pairs : ~NoGen.snap[p].has_data
<1>1. PICK q \in Pairs : TRUE
  BY DEF SomePair
<1>2. (CHOOSE p \in Pairs : TRUE) \in Pairs
  BY <1>1
<1>3. NoReport \in Report /\ NoRange \in Range
  BY MaxIntAssumption DEF NoReport, NoRange, Report, Range
<1>4. NewRange \in Range
  BY <1>3 DEF NewRange, Range
<1> QED
  BY <1>2, <1>3, <1>4 DEF NoGen, Gen, NoReport

\* The initial state has the types of TypeOK.
LEMMA TypeInit ==
  ASSUME SomePair, Init
  PROVE  TypeOK
BY Constants, ExitsAssumption DEF Init, TypeOK

\* Every step keeps the types of TypeOK.
LEMMA TypeStep ==
  ASSUME SomePair, TypeOK, [Next]_vars
  PROVE  TypeOK'
<1> USE DEF TypeOK
<1>1. CASE Crawl
  BY <1>1 DEF Crawl
<1>2. CASE Exit
  BY <1>2, Constants, ExitsAssumption DEF Exit
<1>3. ASSUME NEW p \in Pairs, Summarise(p) PROVE TypeOK'
  <2>1. summary' \in [Pairs -> Report]
    <3>1. CASE summary' = [summary EXCEPT ![p] = NoReport]
      BY <3>1, Constants
    <3>2. CASE \E first \in rows[p], b \in 0..closed[p] :
                 summary' = [summary EXCEPT ![p] =
                               [has_data |-> TRUE, min |-> first.block, max |-> b]]
      BY <3>2, LogsAssumption DEF Report
    <3> QED BY <1>3, <3>1, <3>2 DEF Summarise
  <2> QED BY <1>3, <2>1 DEF Summarise
<1>4. ASSUME NEW u \in Updaters, Call(u) PROVE TypeOK'
  <2>1. gen[u] \in Gen
    OBVIOUS
  <2>2. ASSUME NEW asked \in Ranges, Begin(u, asked) PROVE TypeOK'
    <3>1. [NoGen EXCEPT !.stage = "each", !.snap = summary,
             !.todo = {p \in Pairs : summary[p].has_data}, !.asked = asked] \in Gen
      BY Constants, RangesAssumption DEF Gen
    <3> QED BY <2>2, <3>1 DEF Begin
  <2>3. ASSUME NEW p \in Pairs, ReadRecord(u, p) PROVE TypeOK'
    <3>1. [gen[u] EXCEPT !.stage = IF record[p].row THEN "query" ELSE "make",
                         !.pair = p, !.read = record[p], !.todo = @ \ {p}] \in Gen
      BY <2>1 DEF Gen
    <3> QED BY <2>3, <3>1 DEF ReadRecord
  <2>4. CASE Query(u)
    <3> DEFINE new == {[block |-> l.block, of |-> RowsOf(gen[u].pair, l.block)] :
                         l \in {k \in rows[gen[u].pair] : IsNew(gen[u], k.block)}}
    <3>1. new \subseteq Mean
      BY <2>1, LogsAssumption DEF Mean, RowsOf, Gen
    <3> HIDE DEF new
    <3>2. [gen[u] EXCEPT !.stage = IF new = {} THEN "each" ELSE "create",
                         !.new = new] \in Gen
      BY <2>1, <3>1 DEF Gen
    <3>3. gen' = [gen EXCEPT ![u].stage = IF new = {} THEN "each" ELSE "create",
                             ![u].new = new]
      BY <2>4 DEF Query, new
    <3>4. UNCHANGED <<rows, closed, summary, prices, record, exits>>
      BY <2>4 DEF Query
    <3>5. gen' \in [Updaters -> Gen]
      BY <3>2, <3>3
    <3> QED BY <3>4, <3>5
  <2>5. CASE BulkCreate(u)
    <3>1. /\ [gen[u] EXCEPT !.stage = "retry"] \in Gen
          /\ [gen[u] EXCEPT !.stage = "record", !.new = {}] \in Gen
          /\ gen[u].new \subseteq Mean /\ gen[u].pair \in Pairs
      BY <2>1 DEF Gen
    <3>2. \/ gen' = [gen EXCEPT ![u].stage = "retry"] /\ prices' = prices
          \/ /\ prices' = [prices EXCEPT ![gen[u].pair] = @ \cup gen[u].new]
             /\ gen' = [gen EXCEPT ![u].stage = "record", ![u].new = {}]
      BY <2>5 DEF BulkCreate
    <3>3. gen' \in [Updaters -> Gen]
      BY <3>1, <3>2
    <3>4. prices' \in [Pairs -> SUBSET Mean]
      BY <3>1, <3>2
    <3> QED BY <2>5, <3>3, <3>4 DEF BulkCreate
  <2>6. CASE SaveEach(u)
    <3>1. PICK x \in gen[u].new :
            /\ prices' = IF Priced(gen[u].pair, x.block) THEN prices
                         ELSE [prices EXCEPT ![gen[u].pair] = @ \cup {x}]
            /\ gen' = [gen EXCEPT ![u].new = gen[u].new \ {x},
                         ![u].stage = IF gen[u].new \ {x} = {} THEN "record" ELSE "retry"]
      BY <2>6 DEF SaveEach
    <3>2. gen[u].new \subseteq Mean /\ gen[u].pair \in Pairs
      BY <2>1 DEF Gen
    <3>3. gen' \in [Updaters -> Gen]
      BY <2>1, <3>1 DEF Gen
    <3>4. prices' \in [Pairs -> SUBSET Mean]
      BY <3>1, <3>2
    <3> QED BY <2>6, <3>3, <3>4 DEF SaveEach
  <2>7. CASE SaveRecord(u)
    <3>1. gen[u].pair \in Pairs /\ From(gen[u]) \in Int /\ To(gen[u]) \in Int
      BY <2>1 DEF Gen, From, To, Report
    <3>2. gen[u].read.min \in Int /\ gen[u].read.max \in Int
      BY <2>1 DEF Gen, Range
    <3>3. record' \in [Pairs -> Range]
      BY <2>7, <3>1, <3>2 DEF SaveRecord, Lesser, Greater, Range
    <3>4. [gen[u] EXCEPT !.stage = "each"] \in Gen
      BY <2>1 DEF Gen
    <3> QED BY <2>7, <3>3, <3>4 DEF SaveRecord
  <2>8. CASE Done(u)
    <3>1. [NoGen EXCEPT !.stage = IF u \in AutoUpdaters THEN "sleep" ELSE "idle"] \in Gen
      BY Constants DEF Gen
    <3> QED BY <2>8, <3>1 DEF Done
  <2>9. CASE StartLoop(u) \/ StopLoop(u)
    <3>1. /\ [gen[u] EXCEPT !.stage = "sleep"] \in Gen
          /\ [gen[u] EXCEPT !.stage = "idle"] \in Gen
      BY <2>1 DEF Gen
    <3> QED BY <2>9, <3>1 DEF StartLoop, StopLoop
  <2>10. CASE MakeRecord(u)
    <3>1. /\ [gen[u] EXCEPT !.stage = "query", !.read = NewRange] \in Gen
          /\ gen[u].pair \in Pairs
      BY <2>1, Constants DEF Gen
    <3>2. gen' \in [Updaters -> Gen] /\ record' \in [Pairs -> Range]
      BY <2>10, <3>1, Constants DEF MakeRecord
    <3> QED BY <2>10, <3>2 DEF MakeRecord
  <2> QED BY <1>4, <2>2, <2>3, <2>4, <2>5, <2>6, <2>7, <2>8, <2>9, <2>10 DEF Call, Update
<1>5. CASE UNCHANGED vars
  BY <1>5 DEF vars
<1> QED
  BY <1>1, <1>2, <1>3, <1>4, <1>5 DEF Next, Environment

\* Every table and every call keeps its type (TypeOK).
THEOREM TypeCorrect ==
  ASSUME SomePair
  PROVE  Spec => []TypeOK
BY TypeInit, TypeStep, PTL DEF Spec

-----------------------------------------------------------------------------
\* The crawl adds rows above the closed block only, and prices are only added.
Grows(R, P, c, R2, P2, c2) ==
  /\ c \in Int /\ c2 \in Int /\ c <= c2
  /\ R \subseteq R2 /\ \A l \in R2 : l.block \in Nat
  /\ \A l \in R2 \ R : c < l.block
  /\ P \subseteq P2

\* What is known of a pair stays known while its tables grow.
LEMMA PairGrows ==
  ASSUME NEW R, NEW P, NEW c, NEW R2, NEW P2, NEW c2, Grows(R, P, c, R2, P2, c2)
  PROVE  /\ \A x \in Mean : WholeOK(R, c, x) => WholeOK(R2, c2, x)
         /\ \A r \in Report : ReportOK(R, c, r) => ReportOK(R2, c2, r)
         /\ \A r \in Range : RangeOK(R, P, c, r) => RangeOK(R2, P2, c2, r)
<1> USE DEF Grows
<1>1. ASSUME NEW x \in Mean, WholeOK(R, c, x) PROVE WholeOK(R2, c2, x)
  <2>1. x.block \in Int /\ x.block <= c
    BY <1>1 DEF WholeOK, Mean
  <2>2. {l \in R2 : l.block = x.block} = {l \in R : l.block = x.block}
    BY <2>1
  <2> QED BY <1>1, <2>1, <2>2 DEF WholeOK
<1>2. ASSUME NEW r \in Report, ReportOK(R, c, r) PROVE ReportOK(R2, c2, r)
  BY <1>2 DEF ReportOK, Report
<1>3. ASSUME NEW r \in Range, RangeOK(R, P, c, r) PROVE RangeOK(R2, P2, c2, r)
  <2>1. r.min \in Int /\ r.max \in Int
    BY DEF Range
  <2> QED BY <1>3, <2>1 DEF RangeOK, PricedIn
<1> QED BY <1>1, <1>2, <1>3

\* The range of a call that was not asked for one.
LEMMA DefaultCall ==
  ASSUME NEW g \in Gen, g.asked = <<-1, -1>>
  PROVE  /\ From(g) = g.snap[g.pair].min /\ To(g) = g.snap[g.pair].max
         /\ From(g) \in Int /\ To(g) \in Int
         /\ g.read.min \in Int /\ g.read.max \in Int
         /\ g.read \in Range /\ g.snap[g.pair] \in Report /\ g.new \subseteq Mean
         /\ g.pair \in Pairs
BY DEF From, To, Gen, Report, Range

\* So does what a call has in hand: none of the added rows is in its range.
LEMMA WorkGrows ==
  ASSUME NEW R, NEW P, NEW c, NEW R2, NEW P2, NEW c2, Grows(R, P, c, R2, P2, c2),
         NEW g \in Gen, g.asked = <<-1, -1>>,
         ReportOK(R, c, g.snap[g.pair]), WorkOK(R, P, c, g)
  PROVE  WorkOK(R2, P2, c2, g)
<1>1. CASE g.stage \in {"idle", "sleep", "each"}
  BY <1>1 DEF WorkOK
<1>2. CASE g.stage \notin {"idle", "sleep", "each"}
  <2>1. g.snap[g.pair].has_data /\ RangeOK(R2, P2, c2, g.read)
    BY <1>2, PairGrows, DefaultCall DEF WorkOK
  <2>2. \A x \in g.new : WholeOK(R2, c2, x)
    BY <1>2, PairGrows, DefaultCall DEF WorkOK
  <2>3. ASSUME NEW l \in R2, IsNew(g, l.block) PROVE l \in R
    <3>1. l.block <= g.snap[g.pair].max /\ l.block \in Int
      BY <2>3, DefaultCall DEF IsNew, Grows
    <3>2. g.snap[g.pair].max <= c /\ g.snap[g.pair].max \in Int
      BY <2>1, DefaultCall DEF ReportOK
    <3> QED BY <3>1, <3>2 DEF Grows
  <2>4. P \subseteq P2
    BY DEF Grows
  <2> QED BY <1>2, <2>1, <2>2, <2>3, <2>4 DEF WorkOK, PricedIn
<1> QED BY <1>1, <1>2

\* The initial state satisfies the invariant.
LEMMA InvInit ==
  ASSUME SomePair, Init
  PROVE  IInv
<1>1. TypeOK
  BY TypeInit
<1>2. \A p \in Pairs : /\ rows[p] = {} /\ prices[p] = {}
                       /\ record[p] = NoRange /\ summary[p] = NoReport
                       /\ closed[p] \in Blocks
  BY DEF Init
<1>3. \A p \in Pairs : PairOK(p)
  BY <1>2 DEF PairOK, ReportOK, RangeOK, NoRange, NoReport, Blocks
<1>4. \A u \in Updaters : GenOK(u)
  BY Constants DEF Init, GenOK, WorkOK, ReportOK
<1> QED BY <1>1, <1>3, <1>4 DEF IInv

\* A call that holds no pair is right whatever the tables hold.
LEMMA IdleOK ==
  ASSUME SomePair, NEW u \in Updaters, NEW stage \in {"idle", "sleep"},
         gen'[u] = [NoGen EXCEPT !.stage = stage]
  PROVE  GenOK(u)'
<1>1. /\ gen'[u].stage \in {"idle", "sleep"} /\ gen'[u].asked = <<-1, -1>>
      /\ gen'[u].todo = {} /\ gen'[u].new = {}
      /\ \A p \in Pairs : ~gen'[u].snap[p].has_data
  BY Constants DEF Gen
<1> QED BY <1>1 DEF GenOK, WorkOK, ReportOK

\* NoGen is the idle call.
LEMMA NoGenIdle == ASSUME SomePair PROVE NoGen = [NoGen EXCEPT !.stage = "idle"]
BY Constants DEF Gen

\* Steps of the crawl and additions to a price table keep what they leave alone.
LEMMA GrowInv ==
  ASSUME IInv, TypeOK', UNCHANGED <<summary, record>>,
         \A p \in Pairs : Grows(rows[p], prices[p], closed[p],
                                rows'[p], prices'[p], closed'[p])
  PROVE  /\ \A p \in Pairs :
              (\A x \in prices'[p] \ prices[p] : WholeOK(rows'[p], closed'[p], x))
                => PairOK(p)'
         /\ \A u \in Updaters : gen'[u] = gen[u] => GenOK(u)'
<1>1. ASSUME NEW p \in Pairs,
             \A x \in prices'[p] \ prices[p] : WholeOK(rows'[p], closed'[p], x)
      PROVE  PairOK(p)'
  <2>1. /\ prices[p] \subseteq Mean /\ summary[p] \in Report /\ record[p] \in Range
        /\ Grows(rows[p], prices[p], closed[p], rows'[p], prices'[p], closed'[p])
        /\ PairOK(p)
    BY DEF IInv, TypeOK
  <2>2. \A x \in prices'[p] : WholeOK(rows'[p], closed'[p], x)
    BY <1>1, <2>1, PairGrows DEF PairOK
  <2>3. ReportOK(rows'[p], closed'[p], summary[p])
    BY <2>1, PairGrows DEF PairOK
  <2>4. RangeOK(rows'[p], prices'[p], closed'[p], record[p])
    BY <2>1, PairGrows DEF PairOK
  <2> QED BY <2>2, <2>3, <2>4 DEF PairOK
<1>2. ASSUME NEW u \in Updaters, gen'[u] = gen[u] PROVE GenOK(u)'
  <2> DEFINE g == gen[u]
  <2>1. g \in Gen /\ g.pair \in Pairs /\ \A p \in Pairs : g.snap[p] \in Report
    BY DEF IInv, TypeOK, Gen
  <2>2. GenOK(u)
    BY DEF IInv
  <2>3. \A p \in Pairs : ReportOK(rows'[p], closed'[p], g.snap[p])
    BY <2>1, <2>2, PairGrows DEF GenOK
  <2>4. WorkOK(rows'[g.pair], prices'[g.pair], closed'[g.pair], g)
    BY <2>1, <2>2, WorkGrows DEF GenOK
  <2> QED BY <1>2, <2>2, <2>3, <2>4 DEF GenOK
<1> QED BY <1>1, <1>2

\* Tables that a step leaves alone are an instance of growth.
LEMMA Unchanged ==
  ASSUME TypeOK, NEW p \in Pairs, rows'[p] = rows[p], closed'[p] = closed[p],
         prices[p] \subseteq prices'[p]
  PROVE  Grows(rows[p], prices[p], closed[p], rows'[p], prices'[p], closed'[p])
BY LogsAssumption, MaxIntAssumption DEF TypeOK, Grows, Blocks

\* The crawl, the summary and an exit of the process keep the invariant.
LEMMA EnvironmentInv ==
  ASSUME SomePair, IInv, TypeOK', Environment
  PROVE  IInv'
<1>1. CASE Crawl
  <2>1. ASSUME NEW p \in Pairs
        PROVE  Grows(rows[p], prices[p], closed[p], rows'[p], prices'[p], closed'[p])
    <3>1. closed[p] \in Int /\ closed'[p] \in Int /\ closed[p] <= closed'[p]
      BY <1>1, MaxIntAssumption DEF Crawl, IInv, TypeOK, Blocks
    <3>2. rows[p] \subseteq rows'[p] /\ \A l \in rows'[p] \ rows[p] : closed[p] < l.block
      BY <1>1 DEF Crawl, IInv, TypeOK
    <3>3. \A l \in rows'[p] : l.block \in Nat
      BY LogsAssumption, MaxIntAssumption DEF TypeOK
    <3> QED BY <1>1, <3>1, <3>2, <3>3 DEF Crawl, Grows
  <2>2. UNCHANGED <<summary, record, gen, prices>>
    BY <1>1 DEF Crawl
  <2> QED BY <2>1, <2>2, GrowInv DEF IInv
<1>2. CASE Exit
  <2>1. /\ UNCHANGED <<rows, closed, summary, prices, record>>
        /\ \A u \in Updaters : gen'[u] = NoGen
    BY <1>2 DEF Exit
  <2>2. \A u \in Updaters : GenOK(u)'
    BY <2>1, NoGenIdle, IdleOK
  <2> QED BY <2>1, <2>2 DEF IInv, PairOK
<1>3. ASSUME NEW p \in Pairs, Summarise(p) PROVE IInv'
  <2>1. UNCHANGED <<rows, closed, prices, record, gen>>
    BY <1>3 DEF Summarise
  <2>2. \A u \in Updaters : GenOK(u)'
    BY <2>1 DEF IInv, GenOK
  <2>3. \A q \in Pairs \ {p} : summary'[q] = summary[q]
    BY <1>3 DEF Summarise, IInv, TypeOK
  <2>4. ReportOK(rows[p], closed[p], summary'[p])
    <3>1. CASE summary' = [summary EXCEPT ![p] = NoReport]
      BY <3>1 DEF ReportOK, NoReport, IInv, TypeOK
    <3>2. ASSUME NEW first \in rows[p], NEW b \in 0..closed[p],
                 \A l \in rows[p] : first.block <= l.block, first.block <= b,
                 summary' = [summary EXCEPT ![p] =
                               [has_data |-> TRUE, min |-> first.block, max |-> b]]
          PROVE  ReportOK(rows[p], closed[p], summary'[p])
      <4>1. summary'[p] = [has_data |-> TRUE, min |-> first.block, max |-> b]
        BY <3>2 DEF IInv, TypeOK
      <4> QED BY <3>2, <4>1 DEF ReportOK
    <3> QED BY <1>3, <3>1, <3>2 DEF Summarise
  <2>5. \A q \in Pairs : PairOK(q)'
    BY <2>1, <2>3, <2>4 DEF IInv, PairOK
  <2> QED BY <2>2, <2>5 DEF IInv
<1> QED BY <1>1, <1>2, <1>3 DEF Environment

\* A call begins, takes the next pair or ends.
LEMMA NextPairInv ==
  ASSUME SomePair, DefaultRange, IInv, TypeOK', NEW u \in Updaters,
         \/ \E asked \in Ranges : Begin(u, asked)
         \/ \E p \in Pairs : ReadRecord(u, p)
         \/ Done(u) \/ StartLoop(u) \/ StopLoop(u)
  PROVE  IInv'
<1>1. UNCHANGED <<rows, closed, summary, prices, record>>
  BY DEF Begin, ReadRecord, Done, StartLoop, StopLoop
<1>2. \A p \in Pairs : PairOK(p)'
  BY <1>1 DEF IInv, PairOK
<1>3. \A v \in Updaters \ {u} : GenOK(v)'
  <2>1. \A v \in Updaters \ {u} : gen'[v] = gen[v]
    <3>1. gen \in [Updaters -> Gen]
      BY DEF IInv, TypeOK
    <3>2. ASSUME NEW asked \in Ranges, Begin(u, asked)
          PROVE  \A v \in Updaters \ {u} : gen'[v] = gen[v]
      BY <3>1, <3>2, Zenon DEF Begin
    <3>3. ASSUME NEW p \in Pairs, ReadRecord(u, p)
          PROVE  \A v \in Updaters \ {u} : gen'[v] = gen[v]
      BY <3>1, <3>3 DEF ReadRecord
    <3>4. CASE Done(u) \/ StartLoop(u) \/ StopLoop(u)
      BY <3>1, <3>4 DEF Done, StartLoop, StopLoop
    <3> QED BY <3>2, <3>3, <3>4
  <2> QED BY <1>1, <2>1 DEF IInv, GenOK
<1>4. gen \in [Updaters -> Gen] /\ GenOK(u)
  BY DEF IInv, TypeOK
<1>5. GenOK(u)'
  <2>1. ASSUME NEW asked \in Ranges, Begin(u, asked) PROVE GenOK(u)'
    <3>1. gen'[u] = [NoGen EXCEPT !.stage = "each", !.snap = summary,
                       !.todo = {p \in Pairs : summary[p].has_data}, !.asked = asked]
      BY <1>4, <2>1, Zenon DEF Begin
    <3>2. /\ gen'[u].stage = "each" /\ gen'[u].snap = summary /\ gen'[u].asked = <<-1, -1>>
          /\ gen'[u].new = {}
          /\ gen'[u].todo = {p \in Pairs : summary[p].has_data}
      BY <3>1, Constants DEF Gen, DefaultRange
    <3>3. \A p \in Pairs : ReportOK(rows[p], closed[p], summary[p])
      BY DEF IInv, PairOK
    <3> QED BY <1>1, <3>2, <3>3 DEF GenOK, WorkOK
  <2>2. ASSUME NEW p \in Pairs, ReadRecord(u, p) PROVE GenOK(u)'
    <3>1. /\ gen'[u].stage \in {"make", "query"} /\ gen'[u].snap = gen[u].snap
          /\ gen'[u].asked = gen[u].asked /\ gen'[u].todo \subseteq gen[u].todo
          /\ gen'[u].pair = p /\ gen'[u].read = record[p] /\ gen'[u].new = gen[u].new
          /\ p \in gen[u].todo /\ gen[u].stage = "each"
      <4>1. /\ gen'[u] = [gen[u] EXCEPT !.stage = IF record[p].row THEN "query" ELSE "make",
                             !.pair = p, !.read = record[p], !.todo = @ \ {p}]
            /\ p \in gen[u].todo /\ gen[u].stage = "each"
        BY <1>4, <2>2 DEF ReadRecord
      <4>2. gen[u] \in Gen
        BY <1>4
      <4> QED BY <4>1, <4>2 DEF Gen
    <3>2. gen[u].snap[p].has_data
      BY <1>4, <3>1 DEF GenOK
    <3>3. RangeOK(rows[p], prices[p], closed[p], record[p])
      BY DEF IInv, PairOK
    <3>4. gen[u].new = {}
      BY <1>4, <3>1 DEF GenOK
    <3> QED BY <1>1, <1>4, <3>1, <3>2, <3>3, <3>4 DEF GenOK, WorkOK
  <2>3. CASE Done(u)
    <3>1. gen'[u] = [NoGen EXCEPT !.stage = IF u \in AutoUpdaters THEN "sleep" ELSE "idle"]
      BY <1>4, <2>3 DEF Done
    <3> QED BY <3>1, IdleOK
  <2>4. CASE StartLoop(u) \/ StopLoop(u)
    <3>1. /\ gen[u].stage \in {"idle", "sleep"} /\ gen'[u].stage \in {"idle", "sleep"}
          /\ gen'[u].asked = gen[u].asked /\ gen'[u].snap = gen[u].snap
          /\ gen'[u].todo = gen[u].todo /\ gen'[u].new = gen[u].new
      BY <1>4, <2>4 DEF StartLoop, StopLoop, Gen
    <3> QED BY <1>1, <1>4, <3>1 DEF GenOK, WorkOK
  <2> QED BY <2>1, <2>2, <2>3, <2>4
<1> QED BY <1>2, <1>3, <1>5 DEF IInv

\* The row of a first call is made as if nothing were recorded, or, made by
\* a faster one, ends the call.
LEMMA MakeRecordInv ==
  ASSUME SomePair, IInv, TypeOK', NEW u \in Updaters, MakeRecord(u)
  PROVE  IInv'
<1> DEFINE g == gen[u]
           p == g.pair
<1>1. UNCHANGED <<rows, closed, summary, prices>> /\ g.stage = "make"
  BY DEF MakeRecord
<1>2. g \in Gen /\ GenOK(u) /\ gen \in [Updaters -> Gen] /\ p \in Pairs
      /\ record \in [Pairs -> Range]
  BY DEF IInv, TypeOK, Gen
<1>3. \A v \in Updaters \ {u} : GenOK(v)'
  <2>1. \A v \in Updaters \ {u} : gen'[v] = gen[v]
    BY <1>2 DEF MakeRecord
  <2> QED BY <1>1, <2>1 DEF IInv, GenOK
<1>4. CASE record[p].row
  <2>1. gen'[u] = NoGen /\ record' = record
    BY <1>2, <1>4 DEF MakeRecord
  <2>2. GenOK(u)'
    BY <2>1, NoGenIdle, IdleOK
  <2> QED BY <1>1, <1>3, <2>1, <2>2 DEF IInv, PairOK
<1>5. CASE ~record[p].row
  <2>1. /\ gen' = [gen EXCEPT ![u].stage = "query", ![u].read = NewRange]
        /\ record' = [record EXCEPT ![p] = NewRange]
    BY <1>5 DEF MakeRecord
  <2>2. RangeOK(rows[p], prices[p], closed[p], NewRange)
    <3>1. /\ closed[p] \in Int /\ -1 <= closed[p]
          /\ \A l \in rows[p] : l.block \in Nat
      BY <1>2, LogsAssumption, MaxIntAssumption DEF IInv, TypeOK, Blocks
    <3>2. NewRange.max = -1
      BY DEF NewRange, NoRange
    <3> QED BY <3>1, <3>2 DEF RangeOK
  <2>3. \A q \in Pairs : PairOK(q)'
    <3>1. \A q \in Pairs : record'[q] = IF q = p THEN NewRange ELSE record[q]
      BY <1>2, <2>1
    <3> QED BY <1>1, <2>2, <3>1 DEF IInv, PairOK
  <2>4. GenOK(u)'
    <3>1. /\ gen'[u].stage = "query" /\ gen'[u].read = NewRange
          /\ gen'[u].pair = p /\ gen'[u].snap = g.snap /\ gen'[u].asked = g.asked
          /\ gen'[u].todo = g.todo /\ gen'[u].new = g.new
      BY <1>2, <2>1 DEF Gen
    <3>2. g.new = {} /\ g.snap[p].has_data
      BY <1>1, <1>2 DEF GenOK, WorkOK
    <3>3. WorkOK(rows[p], prices[p], closed[p], gen'[u])
      BY <2>2, <3>1, <3>2 DEF WorkOK
    <3>4. /\ g.asked = <<-1, -1>>
          /\ \A q \in Pairs : ReportOK(rows[q], closed[q], g.snap[q])
          /\ \A q \in g.todo : g.snap[q].has_data
      BY <1>2 DEF GenOK
    <3> HIDE DEF g, p
    <3> QED BY <1>1, <3>1, <3>2, <3>3, <3>4 DEF GenOK
  <2> QED BY <1>3, <2>3, <2>4 DEF IInv
<1> QED BY <1>4, <1>5

\* The query makes a mean of every new block, of all its rows.
LEMMA QueryInv ==
  ASSUME SomePair, IInv, TypeOK', NEW u \in Updaters, Query(u)
  PROVE  IInv'
<1> DEFINE g == gen[u]
           R == rows[g.pair]
           new == {[block |-> l.block, of |-> RowsOf(g.pair, l.block)] :
                     l \in {k \in R : IsNew(g, k.block)}}
<1>1. /\ UNCHANGED <<rows, closed, summary, prices, record>>
      /\ g.stage = "query"
      /\ gen' = [gen EXCEPT ![u].stage = IF new = {} THEN "each" ELSE "create",
                            ![u].new = new]
  BY DEF Query
<1>2. g \in Gen /\ GenOK(u) /\ gen \in [Updaters -> Gen]
  BY DEF IInv, TypeOK
<1>3. /\ \A x \in new : WholeOK(R, closed[g.pair], x)
      /\ \A l \in R : IsNew(g, l.block) => \E x \in new : x.block = l.block
  <2>1. /\ ReportOK(R, closed[g.pair], g.snap[g.pair]) /\ g.snap[g.pair].has_data
        /\ To(g) = g.snap[g.pair].max /\ To(g) \in Int /\ closed[g.pair] \in Int
    <3>1. g.asked = <<-1, -1>>
      BY <1>2 DEF GenOK
    <3>2. /\ To(g) = g.snap[g.pair].max /\ To(g) \in Int /\ g.pair \in Pairs
      BY <1>2, <3>1, DefaultCall
    <3>3. closed[g.pair] \in Int
      BY <3>2, MaxIntAssumption DEF IInv, TypeOK, Blocks
    <3> QED BY <1>1, <1>2, <3>2, <3>3 DEF GenOK, WorkOK
  <2>2. \A l \in R : IsNew(g, l.block) => l.block <= closed[g.pair]
    <3>1. \A l \in R : l.block \in Int
      <4>1. g.pair \in Pairs
        BY <1>2 DEF Gen
      <4> QED BY <4>1, LogsAssumption, MaxIntAssumption DEF IInv, TypeOK
    <3> QED BY <2>1, <3>1 DEF IsNew, ReportOK
  <2>3. ASSUME NEW x \in new PROVE WholeOK(R, closed[g.pair], x)
    <3>1. PICK l \in R : /\ IsNew(g, l.block)
                         /\ x = [block |-> l.block, of |-> RowsOf(g.pair, l.block)]
      OBVIOUS
    <3> QED BY <2>2, <3>1 DEF WholeOK, RowsOf
  <2>4. ASSUME NEW l \in R, IsNew(g, l.block) PROVE \E x \in new : x.block = l.block
    <3> [block |-> l.block, of |-> RowsOf(g.pair, l.block)] \in new
      BY <2>4
    <3> QED OBVIOUS
  <2> QED BY <2>3, <2>4
<1> HIDE DEF new
<1>4. /\ gen'[u].stage = IF new = {} THEN "each" ELSE "create"
      /\ gen'[u].new = new /\ gen'[u].asked = g.asked /\ gen'[u].snap = g.snap
      /\ gen'[u].todo = g.todo /\ gen'[u].pair = g.pair /\ gen'[u].read = g.read
  BY <1>1, <1>2 DEF Gen
<1>5. \A b : IsNew(gen'[u], b) <=> IsNew(g, b)
  BY <1>4 DEF IsNew, From, To
<1>6. WorkOK(R, prices[g.pair], closed[g.pair], gen'[u])
  <2>1. WorkOK(R, prices[g.pair], closed[g.pair], g)
    BY <1>1, <1>2 DEF GenOK
  <2> HIDE DEF g, R
  <2> QED BY <1>1, <1>3, <1>4, <1>5, <2>1, Zenon DEF WorkOK
<1>7. GenOK(u)'
  BY <1>1, <1>2, <1>4, <1>6 DEF GenOK
<1>8. \A v \in Updaters \ {u} : GenOK(v)'
  <2>1. \A v \in Updaters \ {u} : gen'[v] = gen[v]
    BY <1>1, <1>2
  <2> QED BY <1>1, <2>1 DEF IInv, GenOK
<1>9. \A p \in Pairs : PairOK(p)'
  BY <1>1 DEF IInv, PairOK
<1> QED BY <1>7, <1>8, <1>9 DEF IInv

\* Means that are stored, in one transaction or one by one, are whole; the
\* calls of other threads see a larger table only.
LEMMA StoreInv ==
  ASSUME SomePair, IInv, TypeOK', NEW u \in Updaters, BulkCreate(u) \/ SaveEach(u)
  PROVE  IInv'
<1> DEFINE g == gen[u]
           p == g.pair
<1>1. g \in Gen /\ GenOK(u) /\ gen \in [Updaters -> Gen]
      /\ p \in Pairs /\ prices \in [Pairs -> SUBSET Mean]
  BY DEF IInv, TypeOK, Gen
<1>2. PICK added \in SUBSET g.new, left \in SUBSET g.new :
        /\ UNCHANGED <<rows, closed, summary, record>>
        /\ prices' = [prices EXCEPT ![p] = @ \cup added]
        /\ gen'[u].new = left /\ gen'[u].asked = g.asked /\ gen'[u].snap = g.snap
        /\ gen'[u].todo = g.todo /\ gen'[u].pair = p /\ gen'[u].read = g.read
        /\ gen'[u].stage \in {"retry", "record"} /\ g.stage \in {"create", "retry"}
        /\ gen'[u].stage = "record" => left = {}
        /\ \A x \in g.new : x \in left \/ PricedIn(prices'[p], x.block)
        /\ \A v \in Updaters \ {u} : gen'[v] = gen[v]
  <2>1. CASE BulkCreate(u)
    <3>1. CASE \E x \in g.new : Priced(p, x.block)
      <4>1. gen' = [gen EXCEPT ![u].stage = "retry"] /\ prices' = prices
            /\ g.stage = "create"
        BY <2>1, <3>1 DEF BulkCreate
      <4>2. prices' = [prices EXCEPT ![p] = @ \cup {}]
        BY <1>1, <4>1
      <4> WITNESS {} \in SUBSET g.new, g.new \in SUBSET g.new
      <4> QED BY <1>1, <2>1, <4>1, <4>2 DEF BulkCreate, Gen
    <3>2. CASE ~ \E x \in g.new : Priced(p, x.block)
      <4>1. /\ gen' = [gen EXCEPT ![u].stage = "record", ![u].new = {}]
            /\ prices' = [prices EXCEPT ![p] = @ \cup g.new]
            /\ g.stage = "create"
        BY <2>1, <3>2 DEF BulkCreate
      <4>2. \A x \in g.new : PricedIn(prices'[p], x.block)
        BY <1>1, <4>1 DEF PricedIn
      <4> WITNESS g.new \in SUBSET g.new, {} \in SUBSET g.new
      <4> QED BY <1>1, <2>1, <4>1, <4>2 DEF BulkCreate, Gen
    <3> QED BY <3>1, <3>2
  <2>2. CASE SaveEach(u)
    <3>1. PICK x \in g.new :
            /\ prices' = IF Priced(p, x.block) THEN prices
                         ELSE [prices EXCEPT ![p] = @ \cup {x}]
            /\ gen' = [gen EXCEPT ![u].new = g.new \ {x},
                         ![u].stage = IF g.new \ {x} = {} THEN "record" ELSE "retry"]
            /\ g.stage = "retry"
      BY <2>2 DEF SaveEach
    <3> DEFINE add == IF Priced(p, x.block) THEN {} ELSE {x}
    <3>2. prices' = [prices EXCEPT ![p] = @ \cup add]
      BY <1>1, <3>1
    <3>3. PricedIn(prices'[p], x.block)
      BY <1>1, <3>1 DEF PricedIn, Priced
    <3> add \in SUBSET g.new /\ g.new \ {x} \in SUBSET g.new
      OBVIOUS
    <3> HIDE DEF add
    <3> WITNESS add \in SUBSET g.new, g.new \ {x} \in SUBSET g.new
    <3> QED BY <1>1, <2>2, <3>1, <3>2, <3>3, Zenon DEF SaveEach, Gen
  <2> QED BY <2>1, <2>2
<1>3. \A x \in g.new : WholeOK(rows[p], closed[p], x)
  BY <1>1, <1>2 DEF GenOK, WorkOK
<1>4. \A q \in Pairs : prices[q] \subseteq prices'[q]
  BY <1>1, <1>2
<1>5. \A q \in Pairs : Grows(rows[q], prices[q], closed[q],
                             rows'[q], prices'[q], closed'[q])
  BY <1>2, <1>4, Unchanged DEF IInv
<1>6. \A q \in Pairs : PairOK(q)'
  <2>1. \A q \in Pairs : \A x \in prices'[q] \ prices[q] :
          WholeOK(rows'[q], closed'[q], x)
    BY <1>1, <1>2, <1>3
  <2> QED BY <1>2, <1>5, <2>1, GrowInv
<1>7. \A v \in Updaters \ {u} : GenOK(v)'
  BY <1>2, <1>5, GrowInv
<1>8. GenOK(u)'
  <2>1. \A b : IsNew(gen'[u], b) <=> IsNew(g, b)
    BY <1>2 DEF IsNew, From, To
  <2>2. g.read \in Range
    BY <1>1, DefaultCall DEF GenOK
  <2>3. RangeOK(rows'[p], prices'[p], closed'[p], g.read)
    <3>1. RangeOK(rows[p], prices[p], closed[p], g.read)
      BY <1>1, <1>2 DEF GenOK, WorkOK
    <3>2. Grows(rows[p], prices[p], closed[p], rows'[p], prices'[p], closed'[p])
      BY <1>1, <1>5
    <3> QED BY <2>2, <3>1, <3>2, PairGrows
  <2>4. \A l \in rows[p] : IsNew(g, l.block) =>
          PricedIn(prices'[p], l.block) \/ \E x \in gen'[u].new : x.block = l.block
    <3>1. \A l \in rows[p] : IsNew(g, l.block) =>
            PricedIn(prices[p], l.block) \/ \E x \in g.new : x.block = l.block
      BY <1>1, <1>2 DEF GenOK, WorkOK
    <3> QED BY <1>2, <1>4, <1>1, <3>1 DEF PricedIn
  <2>5. WorkOK(rows'[p], prices'[p], closed'[p], gen'[u])
    BY <1>1, <1>2, <1>3, <2>1, <2>3, <2>4 DEF WorkOK, GenOK
  <2> QED BY <1>1, <1>2, <2>5 DEF GenOK
<1> QED BY <1>6, <1>7, <1>8 DEF IInv

\* The range that is saved has no gap: both its parts begin before the first row.
LEMMA SaveRecordInv ==
  ASSUME SomePair, IInv, TypeOK', NEW u \in Updaters, SaveRecord(u)
  PROVE  IInv'
<1> DEFINE g == gen[u]
           p == g.pair
           saved == [row |-> TRUE, min |-> Lesser(From(g), g.read.min),
                                   max |-> Greater(To(g), g.read.max)]
<1>1. /\ UNCHANGED <<rows, closed, summary, prices>>
      /\ g.stage = "record" /\ record' = [record EXCEPT ![p] = saved]
      /\ gen' = [gen EXCEPT ![u].stage = "each"]
  BY DEF SaveRecord
<1>2. g \in Gen /\ GenOK(u) /\ gen \in [Updaters -> Gen] /\ p \in Pairs
      /\ g.asked = <<-1, -1>> /\ g.new = {}
  <2>1. g \in Gen /\ GenOK(u) /\ gen \in [Updaters -> Gen]
    BY DEF IInv, TypeOK
  <2>2. p \in Pairs
    BY <2>1 DEF Gen
  <2> QED BY <1>1, <2>1, <2>2 DEF GenOK
<1>3. /\ ReportOK(rows[p], closed[p], g.snap[p]) /\ g.snap[p].has_data
      /\ RangeOK(rows[p], prices[p], closed[p], g.read)
      /\ \A l \in rows[p] : IsNew(g, l.block) => PricedIn(prices[p], l.block)
  BY <1>1, <1>2 DEF GenOK, WorkOK
<1>4. /\ From(g) = g.snap[p].min /\ To(g) = g.snap[p].max
      /\ From(g) \in Int /\ To(g) \in Int
      /\ g.read.min \in Int /\ g.read.max \in Int
  BY <1>2, DefaultCall
<1>5. \A l \in rows[p] : l.block \in Nat
  BY <1>2, LogsAssumption, MaxIntAssumption DEF IInv, TypeOK
<1>6. closed[p] \in Int /\ -1 <= closed[p]
  BY <1>2, MaxIntAssumption DEF IInv, TypeOK, Blocks
<1>7. RangeOK(rows[p], prices[p], closed[p], saved)
  <2>1. saved.max <= closed[p]
    BY <1>3, <1>4, <1>6 DEF ReportOK, RangeOK, Greater
  <2>2. saved.min <= saved.max /\ \A l \in rows[p] : saved.min <= l.block
    <3>1. saved.min <= From(g) /\ To(g) <= saved.max /\ saved.min \in Int /\ saved.max \in Int
      BY <1>4 DEF Lesser, Greater
    <3>2. From(g) <= To(g) /\ \A l \in rows[p] : From(g) <= l.block
      <4> HIDE DEF saved, p
      <4> QED BY <1>3, <1>4 DEF ReportOK
    <3> HIDE DEF saved
    <3> QED BY <1>4, <1>5, <3>1, <3>2
  <2>3. ASSUME NEW l \in rows[p], l.block <= saved.max
        PROVE  PricedIn(prices[p], l.block)
    <3>1. CASE l.block <= g.read.max
      <4>1. g.read.min <= l.block
        BY <1>3, <1>5, <3>1 DEF RangeOK
      <4> QED BY <1>3, <3>1, <4>1 DEF RangeOK
    <3>2. CASE g.read.max < l.block
      <4>1. From(g) <= l.block /\ l.block <= To(g)
        <5>1. From(g) <= l.block
          BY <1>3, <1>4 DEF ReportOK
        <5>2. l.block <= To(g)
          BY <1>4, <1>5, <2>3, <3>2 DEF Greater
        <5> QED BY <5>1, <5>2
      <4> QED BY <1>3, <3>2, <4>1 DEF IsNew
    <3> QED BY <1>4, <1>5, <3>1, <3>2
  <2> QED BY <2>1, <2>2, <2>3 DEF RangeOK
<1> HIDE DEF saved
<1>8. \A q \in Pairs : PairOK(q)'
  <2>1. \A q \in Pairs : record'[q] = IF q = p THEN saved ELSE record[q]
    BY <1>1, <1>2 DEF IInv, TypeOK
  <2> QED BY <1>1, <1>7, <2>1 DEF IInv, PairOK
<1>9. \A v \in Updaters \ {u} : GenOK(v)'
  <2>1. \A v \in Updaters \ {u} : gen'[v] = gen[v]
    BY <1>1, <1>2
  <2> QED BY <1>1, <2>1 DEF IInv, GenOK
<1>10. GenOK(u)'
  <2>1. /\ gen'[u].stage = "each" /\ gen'[u].new = {} /\ gen'[u].asked = g.asked
        /\ gen'[u].snap = g.snap /\ gen'[u].todo = g.todo
    BY <1>1, <1>2 DEF Gen
  <2> QED BY <1>1, <1>2, <2>1 DEF GenOK, WorkOK
<1> QED BY <1>8, <1>9, <1>10 DEF IInv

\* Every step keeps the invariant.
LEMMA InvStep ==
  ASSUME SomePair, DefaultRange, IInv, [Next]_vars
  PROVE  IInv'
<1>1. TypeOK'
  BY TypeStep DEF IInv
<1>2. CASE Environment
  BY <1>1, <1>2, EnvironmentInv
<1>3. ASSUME NEW u \in Updaters, Call(u) PROVE IInv'
  BY <1>1, <1>3, NextPairInv, MakeRecordInv, QueryInv, StoreInv, SaveRecordInv
     DEF Call, Update
<1>4. CASE UNCHANGED vars
  BY <1>1, <1>4 DEF vars, IInv, PairOK, GenOK
<1> QED BY <1>2, <1>3, <1>4 DEF Next

\* What the invariant says of the tables.
LEMMA IInvImplies ==
  ASSUME IInv
  PROVE  MeansAreOfWholeBlocks /\ NothingSkipped
BY DEF IInv, PairOK, WholeOK, RangeOK, MeansAreOfWholeBlocks, NothingSkipped,
       RowsOf, Priced, PricedIn

\* No block is averaged while it is being crawled (MeansAreOfWholeBlocks),
\* for any number of updaters of any number of pairs.
THEOREM WholeMeans ==
  ASSUME SomePair, DefaultRange
  PROVE  Spec => []MeansAreOfWholeBlocks
BY InvInit, InvStep, IInvImplies, PTL DEF Spec

\* No crawled block inside the recorded range lacks its price (NothingSkipped).
THEOREM NoBlockSkipped ==
  ASSUME SomePair, DefaultRange
  PROVE  Spec => []NothingSkipped
BY InvInit, InvStep, IInvImplies, PTL DEF Spec

=============================================================================
