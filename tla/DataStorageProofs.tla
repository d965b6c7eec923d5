-------------------------- MODULE DataStorageProofs --------------------------
(***************************************************************************)
(* What the price crawl keeps for every set of pairs, threads, prices,     *)
(* exits and reorganisations of the head, and every length of chain and    *)
(* window, as long as no feed changes its contract after StartBlock. What  *)
(* needs a chain that is never reorganised assumes NoReorgs.               *)
(***************************************************************************)
EXTENDS PricePipeline, WellFoundedInduction, TLAPS

NoReorgs == MaxReorgs = 0
OneContract == \A p \in Pairs : SwitchBlock[p] <= StartBlock
SomePair == Pairs # {}

(***************************************************************************)
(* The inductive invariant. Its parts about one pair take the pair's logs  *)
(* on the chain (C), its rows (R) and the head (h) as parameters, so that  *)
(* the facts about them are lemmas without a state. They say what is       *)
(* stored below a block up to the head, which a reorganisation of the head *)
(* leaves alone; what is stored inside a block is Strict's.                *)
(***************************************************************************)
\* A row has the key of l: it is l, or stands in its place (Conflicts).
Keyed(R, l) == \E r \in R : r.block = l.block /\ r.index = l.index

\* Every log below block b has a row.
Passed(C, R, b) == \A l \in C : l.block < b => Keyed(R, l)

ChainOK(C, h) ==
  \A l \in C : /\ StartBlock <= l.block /\ l.block <= h
               /\ \A k \in C : k.block = l.block /\ k.index = l.index => k = l

\* The rows have no hole (NoHoles).
StoredOK(C, R, h) == \A r \in R : /\ StartBlock <= r.block /\ r.block <= h
                                  /\ Passed(C, R, r.block)

\* A Summary row, in the table or in a snapshot of it.
RowOK(C, R, h, row) ==
  row.has_data => /\ R # {}
                  /\ StartBlock <= row.max /\ row.max <= h
                  /\ Passed(C, R, row.max)

\* A thread inside update_data: what precedes its window is stored, and what
\* precedes the block of a log it has yet to insert is stored or will be
\* inserted before.
CallOK(C, R, h, c) ==
  c.stage # "none" =>
    /\ StartBlock <= c.from /\ c.from <= h
    /\ Passed(C, R, c.from)
    /\ c.stage = "insert" => \A l \in c.batch : /\ StartBlock <= l.block /\ l.block <= h
                                                /\ Passed(C, R \cup c.batch, l.block)

\* A worker inside update_data: its window ends at or below the head, and
\* when it is done everything below the window's end is stored.
WorkOK(C, R, h, row, c) ==
  c.stage # "none" =>
    /\ row.has_data /\ R # {}
    /\ StartBlock <= c.to /\ c.to <= h
    /\ c.stage = "insert" => Passed(C, R \cup c.batch, c.to)
    /\ c.stage = "done" => Passed(C, R, c.to)

WorkerInv(w) ==
  LET p == call[w].pair
  IN /\ \A q \in Pairs : RowOK(chain[q], rows[q], head, loop[w].snap[q])
     /\ WorkOK(chain[p], rows[p], head, loop[w].snap[p], call[w])
     /\ call[w].stage # "none" => loop[w].pc = "call"

\* The summary page: no pair gets its first row while it runs, and the bounds
\* it has read are of rows without a hole.
FirstRowInv ==
  refresh.stage # "idle" =>
    \A p \in Pairs : rows[p] = {} => \A t \in Threads : ~Crawling(t, p)
Shown(row) == [row EXCEPT !.has_data = TRUE]
ReadInv ==
  LET p == refresh.pair
  IN /\ refresh.stage \in {"count", "save"} /\ rows[p] # {} =>
          RowOK(chain[p], rows[p], head, Shown(refresh.row))
     /\ refresh.stage = "save" /\ refresh.row.has_data => rows[p] # {}

Base ==
  /\ TypeOK
  /\ \A p \in Pairs : ChainOK(chain[p], head)
  /\ \A p \in Pairs : StoredOK(chain[p], rows[p], head)
  /\ \A p \in Pairs : RowOK(chain[p], rows[p], head, summary[p])
  /\ \A t \in Threads : CallOK(chain[call[t].pair], rows[call[t].pair], head, call[t])
  /\ \A w \in Workers : WorkerInv(w)
  /\ FirstRowInv /\ ReadInv

(***************************************************************************)
(* While nothing was reorganised, the logs of a block come in order too.   *)
(***************************************************************************)
\* What is stored is a prefix of the chain.
PrefixOK(C, R) == R \subseteq C /\ \A l \in C, r \in R : Before(l, r) => l \in R

\* What precedes a log of a batch is stored or in the batch.
BatchOK(C, R, c) ==
  c.stage = "insert" =>
    /\ c.batch \subseteq C
    /\ \A l \in c.batch, k \in C : Before(k, l) => k \in R \cup c.batch

\* Every log below block b is stored.
Covered(C, R, b) == \A l \in C : l.block < b => l \in R

\* The last block of a worker's window is whole when the window is done.
WindowOK(C, R, c) ==
  /\ c.stage = "insert" => Covered(C, R \cup c.batch, c.to + 1)
  /\ c.stage = "done" => Covered(C, R, c.to + 1)

Strict ==
  /\ \A p \in Pairs : PrefixOK(chain[p], rows[p])
  /\ \A t \in Threads : BatchOK(chain[call[t].pair], rows[call[t].pair], call[t])
  /\ \A w \in Workers : WindowOK(chain[call[w].pair], rows[call[w].pair], call[w])

IInv == Base /\ (used.reorgs = 0 => Strict)

-----------------------------------------------------------------------------
\* The values that tables, calls and threads start from are of their types.
LEMMA Constants ==
  ASSUME SomePair
  PROVE  /\ NoSummary \in SummaryRow
         /\ NoCall \in Call
         /\ NoLoop \in Loop
         /\ NoRefresh \in Refresh
         /\ NoCall.stage = "none" /\ NoLoop.pc = "off"
         /\ NoRefresh.stage = "idle" /\ ~NoSummary.has_data
<1>1. PICK q \in Pairs : TRUE
  BY DEF SomePair
<1>2. (CHOOSE p \in Pairs : TRUE) \in Pairs
  BY <1>1
<1> QED
  BY <1>2 DEF NoSummary, NoCall, NoLoop, NoRefresh, SummaryRow, Call, Loop, Refresh

\* What a node can answer for a block is a set of logs of that block.
LEMMA LogsAtType ==
  ASSUME NEW b \in Nat, NEW c \in BlockContents
  PROVE  /\ LogsAt(b, c) \subseteq Log
         /\ \A l \in LogsAt(b, c) : l.block = b
         /\ \A k, l \in LogsAt(b, c) : k.index = l.index => k = l
BY ContentsAssumption DEF LogsAt, Log

\* Every variable keeps its type (TypeOK), whatever the constants.
LEMMA TypeInit ==
  ASSUME SomePair, Init
  PROVE  TypeOK
<1> USE BlocksAssumption, BoundsAssumption
<1>1. head \in StartBlock..MaxBlock
  BY DEF Init
<1>2. chain \in [Pairs -> SUBSET Log]
  <2>1. PICK c \in [Pairs -> [StartBlock..InitialHead -> BlockContents]] :
          chain = [p \in Pairs |->
                     UNION {LogsAt(b, c[p][b]) : b \in StartBlock..InitialHead}]
    BY DEF Init
  <2>2. ASSUME NEW p \in Pairs
        PROVE  UNION {LogsAt(b, c[p][b]) : b \in StartBlock..InitialHead} \subseteq Log
    <3>1. ASSUME NEW b \in StartBlock..InitialHead
          PROVE  LogsAt(b, c[p][b]) \subseteq Log
      BY LogsAtType
    <3> QED BY <3>1
  <2> QED BY <2>1, <2>2
<1>3. rows \in [Pairs -> SUBSET Log] /\ summary \in [Pairs -> SummaryRow]
  BY Constants DEF Init
<1>4. call \in [Threads -> Call] /\ loop \in [Workers -> Loop] /\ refresh \in Refresh
  BY Constants DEF Init
<1>5. used \in [reorgs: 0..MaxReorgs, crashes: 0..MaxCrashes,
                refreshes: 0..MaxRefreshes, calls: 0..MaxCalls]
  BY DEF Init
<1> QED BY <1>1, <1>2, <1>3, <1>4, <1>5 DEF TypeOK

\* What a request of the operator leaves alone.
LEMMA OperatorFrame ==
  ASSUME Operator
  PROVE  /\ UNCHANGED <<head, chain, rows, summary, loop, refresh>>
         /\ used' = used \/ used' = [used EXCEPT !.calls = @ + 1]
<1>1. ASSUME NEW c \in Callers, Respond(c)
      PROVE  UNCHANGED <<head, chain, rows, summary, loop, refresh, used>>
  BY <1>1 DEF Respond
<1>2. ASSUME NEW c \in Callers, NEW p \in Pairs, NEW from \in StartBlock..MaxBlock,
             NEW to \in StartBlock..MaxBlock, NEW replace \in BOOLEAN,
             Submit(c, p, from, to, replace)
      PROVE  /\ UNCHANGED <<head, chain, rows, summary, loop, refresh>>
             /\ used' = [used EXCEPT !.calls = @ + 1]
  BY <1>2 DEF Submit
<1> QED BY <1>1, <1>2 DEF Operator

\* What the page that refreshes the summary leaves alone.
LEMMA RefreshFrame ==
  ASSUME AllOracle
  PROVE  /\ UNCHANGED <<head, chain, rows, call, loop>>
         /\ summary' = summary \/ RefreshSave
         /\ used' = used \/ used' = [used EXCEPT !.refreshes = @ + 1]
<1>1. CASE RefreshBegin
  BY <1>1 DEF RefreshBegin
<1>2. ASSUME NEW p \in Pairs, RefreshRange(p)
      PROVE  UNCHANGED <<head, chain, rows, summary, call, loop, used>>
  BY <1>2 DEF RefreshRange
<1>3. CASE RefreshCount
  BY <1>3 DEF RefreshCount
<1>4. CASE RefreshSave
  BY <1>4 DEF RefreshSave
<1> QED BY <1>1, <1>2, <1>3, <1>4 DEF AllOracle

\* What the loop of an auto_update thread leaves alone between its crawls.
LEMMA LoopFrame ==
  ASSUME NEW w \in Workers, StartWorker(w) \/ StopWorker(w) \/ AutoUpdate(w)
  PROVE  /\ UNCHANGED <<head, chain, rows, refresh, used>>
         /\ summary' = summary \/ SaveSummary(w)
<1>1. CASE StartWorker(w)
  BY <1>1 DEF StartWorker
<1>2. CASE StopWorker(w)
  BY <1>2 DEF StopWorker
<1>3. CASE WhileLoop(w)
  BY <1>3 DEF WhileLoop
<1>4. CASE EndFor(w)
  BY <1>4 DEF EndFor
<1>5. ASSUME NEW p \in Pairs, NextPair(w, p)
      PROVE  UNCHANGED <<head, chain, rows, summary, refresh, used>>
  BY <1>5 DEF NextPair
<1>6. CASE SaveSummary(w)
  BY <1>6 DEF SaveSummary
<1>7. CASE WorkerDies(w)
  BY <1>7 DEF WorkerDies
<1> QED BY <1>1, <1>2, <1>3, <1>4, <1>5, <1>6, <1>7 DEF AutoUpdate

\* What a crawl leaves alone, whoever runs it.
LEMMA CrawlFrame ==
  ASSUME NEW t \in Threads, UpdateData(t)
  PROVE  UNCHANGED <<head, chain, summary, loop, refresh, used>>
<1>1. CASE Fetch(t)
  BY <1>1 DEF Fetch
<1>2. CASE InsertPrice(t)
  BY <1>2 DEF InsertPrice
<1> QED BY <1>1, <1>2 DEF UpdateData

\* A row of the summary with another maximum is a row of the summary.
LEMMA SetMax ==
  ASSUME NEW row \in SummaryRow, NEW m \in Int
  PROVE  /\ [row EXCEPT !.max = m] \in SummaryRow
         /\ [row EXCEPT !.max = m].max = m
         /\ [row EXCEPT !.max = m].min = row.min
         /\ [row EXCEPT !.max = m].has_data = row.has_data
         /\ [row EXCEPT !.max = m].exists = row.exists
BY DEF SummaryRow

\* A step that gives one thread another call leaves every thread a call.
LEMMA CallExcept ==
  ASSUME call \in [Threads -> Call], NEW t \in Threads, NEW r \in Call,
         call' = [call EXCEPT ![t] = r]
  PROVE  call' \in [Threads -> Call]
OBVIOUS

\* Every step keeps the types of TypeOK.
LEMMA TypeStep ==
  ASSUME SomePair, TypeOK, [Next]_vars
  PROVE  TypeOK'
<1> USE DEF TypeOK
<1>1. CASE Mine
  <2>1. PICK c \in [Pairs -> BlockContents] :
          chain' = [p \in Pairs |-> chain[p] \cup LogsAt(head + 1, c[p])]
    BY <1>1 DEF Mine
  <2>2. head' \in StartBlock..MaxBlock /\ head + 1 \in Nat
    BY <1>1, BlocksAssumption DEF Mine
  <2>3. \A p \in Pairs : LogsAt(head + 1, c[p]) \subseteq Log
    BY <2>2, LogsAtType
  <2> QED BY <1>1, <2>1, <2>2, <2>3 DEF Mine
<1>2. CASE Reorg
  <2>1. PICK c \in [Pairs -> BlockContents] :
          chain' = [p \in Pairs |->
                      {l \in chain[p] : l.block # head} \cup LogsAt(head, c[p])]
    BY <1>2 DEF Reorg
  <2>2. \A p \in Pairs : LogsAt(head, c[p]) \subseteq Log
    BY LogsAtType, BlocksAssumption
  <2>3. used'.reorgs \in 0..MaxReorgs /\ used' = [used EXCEPT !.reorgs = @ + 1]
    BY <1>2, BoundsAssumption DEF Reorg
  <2>4. chain' \in [Pairs -> SUBSET Log]
    BY <2>1, <2>2
  <2> QED BY <1>2, <2>3, <2>4 DEF Reorg
<1>3. CASE NodeError
  <2>1. used'.crashes \in 0..MaxCrashes /\ used' = [used EXCEPT !.crashes = @ + 1]
    BY <1>3, BoundsAssumption DEF NodeError
  <2> QED BY <1>3, <2>1, Constants DEF NodeError
<1>4. ASSUME NEW c \in Callers, NEW p \in Pairs, NEW from \in StartBlock..MaxBlock,
             NEW to \in StartBlock..MaxBlock, NEW replace \in BOOLEAN,
             Submit(c, p, from, to, replace)
      PROVE  TypeOK'
  <2>1. Entering(p, from, to, replace) \in Call
    BY BlocksAssumption DEF Entering, Call
  <2>2. used'.calls \in 0..MaxCalls /\ used' = [used EXCEPT !.calls = @ + 1]
    BY <1>4, BoundsAssumption DEF Submit
  <2> QED BY <1>4, <2>1, <2>2 DEF Submit, Threads
<1>5. ASSUME NEW c \in Callers, Respond(c) PROVE TypeOK'
  BY <1>5, Constants DEF Respond, Threads
<1>6. ASSUME NEW t \in Threads, Fetch(t) PROVE TypeOK'
  <2>1. call' \in [Threads -> Call]
    <3>1. PICK logs \in SUBSET chain[call[t].pair] :
            call' = [call EXCEPT ![t].batch = logs,
                                 ![t].stage = IF logs = {} THEN "done" ELSE "insert"]
      <4> DEFINE c == call[t]
                 logs == {l \in chain[c.pair] : /\ c.from <= l.block /\ l.block <= c.to
                                                /\ SameContract(c.pair, c.from, l.block)}
      <4>1. call' = [call EXCEPT ![t].batch = logs,
                                 ![t].stage = IF logs = {} THEN "done" ELSE "insert"]
        BY <1>6, Zenon DEF Fetch
      <4>2. logs \in SUBSET chain[call[t].pair]
        OBVIOUS
      <4> HIDE DEF logs
      <4> QED BY <4>1, <4>2, Zenon
    <3> DEFINE stage == IF logs = {} THEN "done" ELSE "insert"
               r == [call[t] EXCEPT !.batch = logs, !.stage = stage]
    <3>2. call[t] \in Call /\ logs \in SUBSET Log /\ stage \in {"done", "insert"}
      BY DEF Call
    <3>3. r \in Call
      <4> HIDE DEF stage
      <4> QED BY <3>2 DEF Call
    <3>4. call' = [call EXCEPT ![t] = r]
      BY <3>1
    <3>5. call \in [Threads -> Call]
      OBVIOUS
    <3> HIDE DEF r, TypeOK
    <3> QED BY <3>3, <3>4, <3>5, CallExcept
  <2>2. UNCHANGED <<head, chain, rows, summary, loop, refresh, used>>
    BY <1>6 DEF Fetch
  <2> QED BY <2>1, <2>2
<1>7. ASSUME NEW t \in Threads, InsertPrice(t) PROVE TypeOK'
  <2>1. call[t] \in Call
    OBVIOUS
  <2>2. PICK l \in call[t].batch :
          \/ /\ rows' = [rows EXCEPT ![call[t].pair] = @ \cup {l}]
             /\ call' = [call EXCEPT ![t].batch = @ \ {l},
                           ![t].stage = IF call[t].batch \ {l} = {}
                                        THEN "done" ELSE "insert"]
          \/ /\ call' = [call EXCEPT ![t].stage = "error"]
             /\ rows' = rows
    BY <1>7 DEF InsertPrice
  <2>3. \E r \in Call : call' = [call EXCEPT ![t] = r]
    <3>1. CASE call' = [call EXCEPT ![t].stage = "error"]
      <4>1. [call[t] EXCEPT !.stage = "error"] \in Call
        BY <2>1 DEF Call
      <4> QED BY <3>1, <4>1
    <3>2. CASE call' = [call EXCEPT ![t].batch = @ \ {l},
                                    ![t].stage = IF call[t].batch \ {l} = {}
                                                 THEN "done" ELSE "insert"]
      <4> DEFINE stage == IF call[t].batch \ {l} = {} THEN "done" ELSE "insert"
                 r == [call[t] EXCEPT !.batch = @ \ {l}, !.stage = stage]
      <4>1. stage \in {"done", "insert"}
        OBVIOUS
      <4>2. r \in Call
        <5> HIDE DEF stage
        <5> QED BY <2>1, <4>1 DEF Call
      <4>3. call' = [call EXCEPT ![t] = r]
        BY <3>2
      <4> HIDE DEF r
      <4> QED BY <4>2, <4>3
    <3> QED BY <2>2, <3>1, <3>2
  <2>4. call' \in [Threads -> Call]
    BY <2>3
  <2>5. rows' \in [Pairs -> SUBSET Log]
    <3>1. l \in Log
      BY <2>1 DEF Call
    <3> QED BY <2>2, <3>1
  <2>6. UNCHANGED <<head, chain, summary, loop, refresh, used>>
    BY <1>7 DEF InsertPrice
  <2> QED BY <2>4, <2>5, <2>6
<1>8. ASSUME NEW w \in Workers, StartWorker(w) \/ StopWorker(w) \/ WhileLoop(w) \/ EndFor(w)
      PROVE  TypeOK'
  <2>1. loop[w] \in Loop /\ NoLoop \in Loop
    BY Constants
  <2>2. [NoLoop EXCEPT !.pc = "while"] \in Loop
    BY <2>1 DEF Loop
  <2>3. {p \in Pairs : summary[p].exists} \in SUBSET Pairs
    OBVIOUS
  <2>4. CASE StartWorker(w)
    BY <2>2, <2>4 DEF StartWorker
  <2>5. CASE StopWorker(w)
    BY <2>1, <2>5 DEF StopWorker, Loop
  <2>6. CASE WhileLoop(w)
    <3>1. loop' \in [Workers -> Loop]
      BY <2>1, <2>3, <2>6 DEF WhileLoop, Loop
    <3> QED BY <2>6, <3>1 DEF WhileLoop
  <2>7. CASE EndFor(w)
    BY <2>1, <2>7 DEF EndFor, Loop
  <2> QED BY <1>8, <2>4, <2>5, <2>6, <2>7
<1>9. ASSUME NEW w \in Workers, NEW p \in Pairs, NextPair(w, p) PROVE TypeOK'
  <2>1. loop[w] \in Loop /\ loop[w].snap[p] \in SummaryRow
    BY DEF Loop
  <2>2. Entering(p, loop[w].snap[p].max, WindowTo(loop[w].snap[p]), FALSE) \in Call
    BY <2>1, BlocksAssumption, WindowAssumption
       DEF Entering, Call, WindowTo, Lesser, SummaryRow
  <2>3. call' \in [Threads -> Call]
    BY <1>9, <2>2 DEF NextPair, Threads
  <2>4. loop' \in [Workers -> Loop]
    <3>1. \/ loop' = [loop EXCEPT ![w].pc = "call"]
          \/ loop' = [loop EXCEPT ![w].todo = @ \ {p}]
      BY <1>9 DEF NextPair
    <3>2. /\ [loop[w] EXCEPT !.pc = "call"] \in Loop
          /\ [loop[w] EXCEPT !.todo = @ \ {p}] \in Loop
      BY <2>1 DEF Loop
    <3> QED BY <3>1, <3>2
  <2> QED BY <1>9, <2>3, <2>4 DEF NextPair
<1>10. ASSUME NEW w \in Workers, SaveSummary(w) PROVE TypeOK'
  <2>1. call[w] \in Call
    BY DEF Threads
  <2>2. [loop[w].snap[call[w].pair] EXCEPT !.max = call[w].to] \in SummaryRow
    <3>1. loop[w].snap \in [Pairs -> SummaryRow] /\ call[w].pair \in Pairs
          /\ call[w].to \in Int
      BY <2>1 DEF Loop, Call
    <3>2. loop[w].snap[call[w].pair] \in SummaryRow
      BY <3>1
    <3> QED BY <3>1, <3>2, SetMax
  <2>3. /\ summary' = [summary EXCEPT ![call[w].pair] =
                        [loop[w].snap[call[w].pair] EXCEPT !.max = call[w].to]]
        /\ loop' = [loop EXCEPT ![w].pc = "for", ![w].todo = @ \ {call[w].pair}]
        /\ call' = [call EXCEPT ![w] = NoCall]
        /\ UNCHANGED <<head, chain, rows, refresh, used>>
    BY <1>10 DEF SaveSummary
  <2>4. summary' \in [Pairs -> SummaryRow]
    BY <2>2, <2>3
  <2>5. call' \in [Threads -> Call]
    BY <2>3, Constants
  <2>6. loop' \in [Workers -> Loop]
    <3> DEFINE p == call[w].pair
               r == [loop[w] EXCEPT !.pc = "for", !.todo = @ \ {p}]
    <3>1. loop[w] \in Loop
      OBVIOUS
    <3>2. r \in Loop
      <4> HIDE DEF p
      <4> QED BY <3>1 DEF Loop
    <3>3. loop' = [loop EXCEPT ![w] = r]
      BY <2>3
    <3> HIDE DEF r
    <3> QED BY <3>2, <3>3
  <2> QED BY <2>3, <2>4, <2>5, <2>6
<1>11. ASSUME NEW w \in Workers, WorkerDies(w) PROVE TypeOK'
  BY <1>11, Constants DEF WorkerDies, Threads
<1>12. CASE RefreshBegin
  <2>1. used'.refreshes \in 0..MaxRefreshes /\ used' = [used EXCEPT !.refreshes = @ + 1]
    BY <1>12, BoundsAssumption DEF RefreshBegin
  <2> QED BY <1>12, <2>1 DEF RefreshBegin, Refresh
<1>13. ASSUME NEW p \in Pairs, RefreshRange(p) PROVE TypeOK'
  <2>1. PICK lo, hi \in {-1} \cup {l.block : l \in rows[p]} :
          refresh' = [refresh EXCEPT !.stage = "count", !.pair = p,
                        !.row = [exists |-> TRUE, min |-> lo, max |-> hi,
                                 has_data |-> FALSE]]
    BY <1>13 DEF RefreshRange
  <2>2. lo \in Int /\ hi \in Int
    BY DEF Log
  <2> QED BY <1>13, <2>1, <2>2 DEF RefreshRange, Refresh, SummaryRow
<1>14. CASE RefreshCount
  BY <1>14 DEF RefreshCount, Refresh, SummaryRow
<1>15. CASE RefreshSave
  BY <1>15, Constants DEF RefreshSave, Refresh
<1>16. CASE UNCHANGED vars
  BY <1>16 DEF vars
<1> QED
  BY <1>1, <1>2, <1>3, <1>4, <1>5, <1>6, <1>7, <1>8, <1>9, <1>10, <1>11, <1>12,
     <1>13, <1>14, <1>15, <1>16
     DEF Next, Environment, Operator, AllOracle, UpdateData, AutoUpdate

\* Every table, call and thread keeps its type (TypeOK) in every reachable state.
THEOREM TypeCorrect ==
  ASSUME SomePair
  PROVE  Spec => []TypeOK
BY TypeInit, TypeStep, PTL DEF Spec

-----------------------------------------------------------------------------
(* The node adds logs at its head only, and rows are only added: what is   *)
(* known of the blocks below the head stays known.                         *)
Stays(C, R, h, C2, R2, h2) ==
  /\ h \in Int /\ h2 \in Int /\ h <= h2
  /\ C2 \subseteq Log /\ \A l \in C2 \ C : h <= l.block
  /\ R \subseteq R2

\* What lies below a block up to the head is what lay there.
LEMMA PassedStays ==
  ASSUME NEW C, NEW R, NEW h, NEW C2, NEW R2, NEW h2, Stays(C, R, h, C2, R2, h2),
         NEW b \in Int, b <= h, NEW S, NEW S2, Passed(C, S, b), S \subseteq S2
  PROVE  Passed(C2, S2, b)
<1> SUFFICES ASSUME NEW l \in C2, l.block < b
             PROVE  Keyed(S2, l)
  BY DEF Passed
<1>1. l \in C
  <2>1. l.block \in Int /\ h \in Int
    BY DEF Stays, Log
  <2> QED BY <2>1 DEF Stays
<1>2. PICK r \in S : r.block = l.block /\ r.index = l.index
  BY <1>1 DEF Passed, Keyed
<1> QED BY <1>2 DEF Keyed

\* So a Summary row that claims only stored logs still does,
LEMMA RowStays ==
  ASSUME NEW C, NEW R, NEW h, NEW C2, NEW R2, NEW h2, NEW row \in SummaryRow,
         Stays(C, R, h, C2, R2, h2), RowOK(C, R, h, row)
  PROVE  RowOK(C2, R2, h2, row)
<1>1. row.max \in Int /\ StartBlock \in Int
  BY BlocksAssumption DEF SummaryRow
<1>2. R \subseteq R2 /\ h <= h2 /\ h \in Int /\ h2 \in Int
  BY DEF Stays
<1>3. CASE row.has_data
  <2>1. row.max <= h /\ Passed(C, R, row.max)
    BY <1>3 DEF RowOK
  <2>2. Passed(C2, R2, row.max)
    BY <1>1, <1>2, <2>1, PassedStays
  <2> QED BY <1>1, <1>2, <1>3, <2>2 DEF RowOK
<1> QED BY <1>3 DEF RowOK

\* a call of update_data knows what is before its window and its batch,
LEMMA CallStays ==
  ASSUME NEW C, NEW R, NEW h, NEW C2, NEW R2, NEW h2, NEW c \in Call,
         Stays(C, R, h, C2, R2, h2), CallOK(C, R, h, c)
  PROVE  CallOK(C2, R2, h2, c)
<1>1. c.from \in Int /\ StartBlock \in Int /\ \A l \in c.batch : l.block \in Int
  BY BlocksAssumption DEF Call, Log
<1>2. /\ R \subseteq R2 /\ R \cup c.batch \subseteq R2 \cup c.batch
      /\ h <= h2 /\ h \in Int /\ h2 \in Int
  BY DEF Stays
<1>3. CASE c.stage # "none"
  <2>1. StartBlock <= c.from /\ c.from <= h2 /\ Passed(C2, R2, c.from)
    <3>1. StartBlock <= c.from /\ c.from <= h /\ Passed(C, R, c.from)
      BY <1>3 DEF CallOK
    <3>2. Passed(C2, R2, c.from)
      BY <1>1, <1>2, <3>1, PassedStays
    <3> QED BY <1>1, <1>2, <3>1, <3>2
  <2>2. ASSUME c.stage = "insert", NEW l \in c.batch
        PROVE  /\ StartBlock <= l.block /\ l.block <= h2
               /\ Passed(C2, R2 \cup c.batch, l.block)
    <3>1. /\ StartBlock <= l.block /\ l.block <= h
          /\ Passed(C, R \cup c.batch, l.block)
      BY <1>3, <2>2 DEF CallOK
    <3>2. Passed(C2, R2 \cup c.batch, l.block)
      BY <1>1, <1>2, <3>1, PassedStays
    <3> QED BY <1>1, <1>2, <3>1, <3>2
  <2> QED BY <2>1, <2>2 DEF CallOK
<1> QED BY <1>3 DEF CallOK

\* and a thread what is in its window.
LEMMA WorkStays ==
  ASSUME NEW C, NEW R, NEW h, NEW C2, NEW R2, NEW h2,
         NEW row \in SummaryRow, NEW c \in Call,
         Stays(C, R, h, C2, R2, h2), WorkOK(C, R, h, row, c)
  PROVE  WorkOK(C2, R2, h2, row, c)
<1>1. c.to \in Int /\ StartBlock \in Int
  BY BlocksAssumption DEF Call
<1>2. /\ R \subseteq R2 /\ R \cup c.batch \subseteq R2 \cup c.batch
      /\ h <= h2 /\ h \in Int /\ h2 \in Int
  BY DEF Stays
<1>3. CASE c.stage # "none"
  <2>1. row.has_data /\ R # {} /\ StartBlock <= c.to /\ c.to <= h
    BY <1>3 DEF WorkOK
  <2>2. ASSUME c.stage = "insert"
        PROVE  Passed(C2, R2 \cup c.batch, c.to)
    <3>1. Passed(C, R \cup c.batch, c.to)
      BY <1>3, <2>2 DEF WorkOK
    <3> QED BY <1>1, <1>2, <2>1, <3>1, PassedStays
  <2>3. ASSUME c.stage = "done"
        PROVE  Passed(C2, R2, c.to)
    <3>1. Passed(C, R, c.to)
      BY <1>3, <2>3 DEF WorkOK
    <3> QED BY <1>1, <1>2, <2>1, <3>1, PassedStays
  <2> QED BY <1>1, <1>2, <2>1, <2>2, <2>3 DEF WorkOK
<1> QED BY <1>3 DEF WorkOK

\* The initial state satisfies the invariant.
LEMMA BaseInit ==
  ASSUME SomePair, Init
  PROVE  Base
<1>1. TypeOK
  BY TypeInit
<1>2. \A p \in Pairs : ChainOK(chain[p], head)
  <2>1. PICK c \in [Pairs -> [StartBlock..InitialHead -> BlockContents]] :
          chain = [p \in Pairs |->
                     UNION {LogsAt(b, c[p][b]) : b \in StartBlock..InitialHead}]
    BY DEF Init
  <2>2. SUFFICES ASSUME NEW p \in Pairs, NEW l \in chain[p], NEW k \in chain[p]
                 PROVE  /\ StartBlock <= l.block /\ l.block <= head
                        /\ k.block = l.block /\ k.index = l.index => k = l
    BY DEF ChainOK
  <2>3. PICK b \in StartBlock..InitialHead : l \in LogsAt(b, c[p][b])
    BY <2>1
  <2>4. PICK d \in StartBlock..InitialHead : k \in LogsAt(d, c[p][d])
    BY <2>1
  <2>5. b \in Nat /\ d \in Nat /\ c[p][b] \in BlockContents /\ c[p][d] \in BlockContents
    BY BlocksAssumption
  <2>6. l.block = b /\ k.block = d
    BY <2>3, <2>4, <2>5, LogsAtType
  <2> QED BY <2>3, <2>4, <2>5, <2>6, LogsAtType, BlocksAssumption DEF Init
<1>3. /\ \A p \in Pairs : rows[p] = {} /\ ~summary[p].has_data
      /\ \A t \in Threads : call[t].stage = "none"
      /\ \A w \in Workers, p \in Pairs : ~loop[w].snap[p].has_data
      /\ refresh.stage = "idle"
  BY Constants DEF Init, NoLoop
<1>4. \A p \in Pairs : /\ StoredOK(chain[p], rows[p], head)
                       /\ RowOK(chain[p], rows[p], head, summary[p])
  BY <1>3 DEF StoredOK, RowOK
<1>5. \A t \in Threads : CallOK(chain[call[t].pair], rows[call[t].pair], head, call[t])
  BY <1>3 DEF CallOK
<1>6. \A w \in Workers : WorkerInv(w)
  BY <1>3 DEF WorkerInv, WorkOK, RowOK, Threads
<1>7. FirstRowInv /\ ReadInv
  BY <1>3 DEF FirstRowInv, ReadInv
<1> QED BY <1>1, <1>2, <1>4, <1>5, <1>6, <1>7 DEF Base

\* Types of the pieces the steps are about.
LEMMA Pieces ==
  ASSUME TypeOK
  PROVE  /\ \A p \in Pairs : chain[p] \subseteq Log /\ rows[p] \subseteq Log
                             /\ summary[p] \in SummaryRow
         /\ \A t \in Threads : call[t] \in Call /\ call[t].pair \in Pairs
         /\ \A w \in Workers : /\ w \in Threads
                               /\ \A p \in Pairs : loop[w].snap[p] \in SummaryRow
         /\ refresh.pair \in Pairs /\ refresh.row \in SummaryRow
         /\ Shown(refresh.row) \in SummaryRow
         /\ head \in Int
<1> USE DEF TypeOK
<1>1. \A p \in Pairs : chain[p] \subseteq Log /\ rows[p] \subseteq Log
                       /\ summary[p] \in SummaryRow
  OBVIOUS
<1>2. \A t \in Threads : call[t] \in Call /\ call[t].pair \in Pairs
  BY DEF Call
<1>3. \A w \in Workers : /\ w \in Threads
                         /\ \A p \in Pairs : loop[w].snap[p] \in SummaryRow
  BY DEF Loop, Threads
<1>4. refresh.pair \in Pairs /\ refresh.row \in SummaryRow
  BY DEF Refresh
<1>5. Shown(refresh.row) \in SummaryRow
  BY <1>4 DEF SummaryRow, Shown
<1>6. head \in Int
  BY BlocksAssumption
<1> QED BY <1>1, <1>2, <1>3, <1>4, <1>5, <1>6

\* A mined block is past every window and every claim, and so is the head that
\* a reorganisation replaces.
LEMMA NodeInv ==
  ASSUME SomePair, Base, Mine \/ Reorg, TypeOK'
  PROVE  Base'
<1>1. PICK b \in {head, head + 1}, c \in [Pairs -> BlockContents] :
        /\ head' = b
        /\ chain' = [p \in Pairs |-> {l \in chain[p] : l.block # b} \cup LogsAt(b, c[p])]
  <2>1. CASE Reorg
    BY <2>1 DEF Reorg
  <2>2. CASE Mine
    <3>1. PICK c \in [Pairs -> BlockContents] :
            chain' = [p \in Pairs |-> chain[p] \cup LogsAt(head + 1, c[p])]
      BY <2>2 DEF Mine
    <3>2. \A p \in Pairs : chain[p] = {l \in chain[p] : l.block # head + 1}
      BY BlocksAssumption DEF Base, TypeOK, ChainOK, Log
    <3> QED BY <2>2, <3>1, <3>2 DEF Mine
  <2> QED BY <2>1, <2>2
<1>2. /\ b \in Nat /\ head \in Nat /\ head <= b /\ StartBlock <= b /\ StartBlock \in Nat
      /\ UNCHANGED <<rows, summary, call, loop, refresh>>
  BY <1>1, BlocksAssumption DEF Mine, Reorg, Base, TypeOK
<1>3. \A p \in Pairs : /\ Stays(chain[p], rows[p], head, chain'[p], rows'[p], head')
                       /\ ChainOK(chain'[p], head')
  <2> SUFFICES ASSUME NEW p \in Pairs
               PROVE  /\ Stays(chain[p], rows[p], head, chain'[p], rows'[p], head')
                      /\ ChainOK(chain'[p], head')
    OBVIOUS
  <2>1. chain'[p] = {l \in chain[p] : l.block # b} \cup LogsAt(b, c[p])
    BY <1>1
  <2>2. /\ LogsAt(b, c[p]) \subseteq Log
        /\ \A l \in LogsAt(b, c[p]) : l.block = b
        /\ \A k, l \in LogsAt(b, c[p]) : k.index = l.index => k = l
    BY <1>2, LogsAtType
  <2>3. chain[p] \subseteq Log /\ ChainOK(chain[p], head)
    BY Pieces DEF Base
  <2>4. Stays(chain[p], rows[p], head, chain'[p], rows'[p], head')
    BY <1>1, <1>2, <2>1, <2>2, <2>3 DEF Stays
  <2>5. ChainOK(chain'[p], head')
    BY <1>1, <1>2, <2>1, <2>2, <2>3 DEF ChainOK, Log
  <2> QED BY <2>4, <2>5
<1>4. \A p \in Pairs : StoredOK(chain'[p], rows'[p], head')
  <2> SUFFICES ASSUME NEW p \in Pairs, NEW r \in rows[p]
               PROVE  /\ StartBlock <= r.block /\ r.block <= head'
                      /\ Passed(chain'[p], rows'[p], r.block)
    BY <1>2 DEF StoredOK
  <2>1. /\ StartBlock <= r.block /\ r.block <= head /\ Passed(chain[p], rows[p], r.block)
        /\ r.block \in Int /\ rows[p] \subseteq rows'[p]
    BY <1>2, Pieces DEF Base, StoredOK, Log
  <2>2. Stays(chain[p], rows[p], head, chain'[p], rows'[p], head')
    BY <1>3
  <2>3. Passed(chain'[p], rows'[p], r.block)
    BY <2>1, <2>2, PassedStays
  <2> QED BY <1>1, <1>2, <2>1, <2>3
<1>5. \A p \in Pairs, row \in SummaryRow :
        RowOK(chain[p], rows[p], head, row) => RowOK(chain'[p], rows'[p], head', row)
  BY <1>3, RowStays
<1>6. \A p \in Pairs : RowOK(chain'[p], rows'[p], head', summary'[p])
  BY <1>2, <1>5, Pieces DEF Base
<1>7. \A t \in Threads :
        CallOK(chain'[call'[t].pair], rows'[call'[t].pair], head', call'[t])
  BY <1>2, <1>3, CallStays, Pieces DEF Base
<1>8. \A w \in Workers : WorkerInv(w)'
  BY <1>2, <1>3, <1>5, WorkStays, Pieces DEF Base, WorkerInv
<1>9. FirstRowInv' /\ ReadInv'
  BY <1>2, <1>5, Pieces DEF Base, FirstRowInv, ReadInv, Crawling
<1> QED BY <1>3, <1>4, <1>6, <1>7, <1>8, <1>9 DEF Base


\* A log query: the data frame holds every log of the window, because no feed
\* changes its contract inside one.
LEMMA FetchInv ==
  ASSUME SomePair, OneContract, Base, NEW t \in Threads, Fetch(t), TypeOK'
  PROVE  /\ Base'
         /\ call'[t].batch = {l \in chain[call[t].pair] :
                                call[t].from <= l.block /\ l.block <= call[t].to}
         /\ call'[t].stage = IF call'[t].batch = {} THEN "done" ELSE "insert"
         /\ call'[t].pair = call[t].pair /\ call'[t].to = call[t].to
         /\ \A u \in Threads \ {t} : call'[u] = call[u]
<1> DEFINE p == call[t].pair
           C == chain[p]
           R == rows[p]
           logs == {l \in C : call[t].from <= l.block /\ l.block <= call[t].to}
<1>1. /\ UNCHANGED <<head, chain, rows, summary, loop, refresh, used>>
      /\ call[t].stage = "fetch"
  BY DEF Fetch
<1>2. /\ p \in Pairs /\ call[t] \in Call /\ C \subseteq Log
      /\ CallOK(C, R, head, call[t]) /\ ChainOK(C, head)
  BY Pieces DEF Base
<1>3. StartBlock <= call[t].from /\ call[t].from <= head /\ Passed(C, R, call[t].from)
  BY <1>1, <1>2 DEF CallOK
<1>4. \A l \in logs : SameContract(p, call[t].from, l.block)
  BY <1>2, <1>3, BlocksAssumption, SwitchAssumption
     DEF SameContract, OneContract, Log, Call
<1>5. call' = [call EXCEPT ![t].batch = logs,
                           ![t].stage = IF logs = {} THEN "done" ELSE "insert"]
  BY <1>4 DEF Fetch
<1>6. call'[t] = [call[t] EXCEPT !.batch = logs,
                                 !.stage = IF logs = {} THEN "done" ELSE "insert"]
      /\ \A u \in Threads \ {t} : call'[u] = call[u]
  BY <1>5 DEF Base, TypeOK
<1>7. /\ call'[t].pair = p /\ call'[t].from = call[t].from /\ call'[t].to = call[t].to
      /\ call'[t].batch = logs
      /\ call'[t].stage = IF logs = {} THEN "done" ELSE "insert"
  BY <1>2, <1>6 DEF Call
<1>a. ASSUME NEW b \in Int, b <= call[t].to + 1
      PROVE  Passed(C, R \cup logs, b)
  <2> SUFFICES ASSUME NEW k \in C, k.block < b
               PROVE  Keyed(R \cup logs, k)
    BY DEF Passed
  <2>1. k.block \in Int /\ call[t].from \in Int /\ call[t].to \in Int
    BY <1>2 DEF Log, Call
  <2>2. CASE k.block < call[t].from
    BY <1>3, <2>2 DEF Passed, Keyed
  <2>3. CASE call[t].from <= k.block
    <3>1. k \in logs
      BY <1>a, <2>1, <2>3
    <3> QED BY <3>1 DEF Keyed
  <2> QED BY <2>1, <2>2, <2>3
<1>8. CallOK(C, R, head, call'[t])
  <2>1. ASSUME NEW l \in logs
        PROVE  /\ StartBlock <= l.block /\ l.block <= head
               /\ Passed(C, R \cup logs, l.block)
    <3>1. l.block \in Int /\ l.block <= call[t].to + 1
      BY <1>2 DEF Log, Call
    <3>2. StartBlock <= l.block /\ l.block <= head
      BY <1>2 DEF ChainOK
    <3> QED BY <1>a, <3>1, <3>2
  <2> QED BY <1>3, <1>7, <2>1 DEF CallOK
<1>9. \A u \in Threads : CallOK(chain'[call'[u].pair], rows'[call'[u].pair], head', call'[u])
  BY <1>1, <1>6, <1>7, <1>8 DEF Base
<1>10. ASSUME NEW w \in Workers PROVE WorkerInv(w)'
  <2>1. CASE w # t
    BY <1>1, <1>6, <2>1, Pieces DEF Base, WorkerInv
  <2>2. CASE w = t
    <3>1. WorkOK(C, R, head, loop[t].snap[p], call[t]) /\ loop[t].pc = "call"
      BY <1>1, <2>2 DEF Base, WorkerInv
    <3>2. Passed(C, R \cup logs, call[t].to)
      BY <1>2, <1>a DEF Call
    <3>3. logs = {} => R \cup logs = R
      OBVIOUS
    <3>4. WorkOK(C, R, head, loop[t].snap[p], call'[t])
      BY <1>1, <1>7, <3>1, <3>2, <3>3 DEF WorkOK
    <3> QED BY <1>1, <1>7, <2>2, <3>1, <3>4 DEF Base, WorkerInv
  <2> QED BY <2>1, <2>2
<1>11. FirstRowInv'
  <2>1. \A u \in Threads, q \in Pairs : Crawling(u, q)' => Crawling(u, q)
    BY <1>1, <1>6, <1>7 DEF Crawling
  <2> QED BY <1>1, <2>1 DEF Base, FirstRowInv
<1>12. ReadInv'
  BY <1>1 DEF Base, ReadInv
<1>13. Base'
  BY <1>1, <1>9, <1>10, <1>11, <1>12 DEF Base
<1> QED BY <1>6, <1>7, <1>13

\* What insert_price does to the row of a log and to the call: the row is
\* inserted, or refused.
LEMMA InsertCases ==
  ASSUME TypeOK, NEW t \in Threads, InsertPrice(t)
  PROVE  /\ UNCHANGED <<head, chain, summary, loop, refresh, used>>
         /\ call[t].stage = "insert"
         /\ call'[t] \in Call /\ call'[t].pair = call[t].pair
         /\ call'[t].from = call[t].from /\ call'[t].to = call[t].to
         /\ \A u \in Threads \ {t} : call'[u] = call[u]
         /\ \E l \in call[t].batch :
              /\ \A k \in call[t].batch : Before(l, k)
              /\ \A q \in Pairs \ {call[t].pair} : rows'[q] = rows[q]
              /\ \/ /\ rows'[call[t].pair] = rows[call[t].pair] \cup {l}
                    /\ call'[t].batch = call[t].batch \ {l}
                    /\ call'[t].stage = IF call[t].batch \ {l} = {}
                                        THEN "done" ELSE "insert"
                 \/ /\ rows'[call[t].pair] = rows[call[t].pair]
                    /\ call'[t].stage = "error"
<1>1. /\ UNCHANGED <<head, chain, summary, loop, refresh, used>>
      /\ call[t].stage = "insert"
  BY DEF InsertPrice
<1>2. call[t].pair \in Pairs /\ call[t] \in Call
  BY Pieces
<1>3. PICK l \in call[t].batch :
        /\ \A k \in call[t].batch : Before(l, k)
        /\ \/ /\ rows' = [rows EXCEPT ![call[t].pair] = @ \cup {l}]
              /\ call' = [call EXCEPT ![t].batch = call[t].batch \ {l},
                            ![t].stage = IF call[t].batch \ {l} = {}
                                         THEN "done" ELSE "insert"]
           \/ /\ call' = [call EXCEPT ![t].stage = "error"]
              /\ rows' = rows
  BY DEF InsertPrice
<1> DEFINE stage == IF call[t].batch \ {l} = {} THEN "done" ELSE "insert"
           kept == [call[t] EXCEPT !.batch = @ \ {l}, !.stage = stage]
           failed == [call[t] EXCEPT !.stage = "error"]
<1>4. stage \in {"done", "insert"}
  OBVIOUS
<1>5. \/ call' = [call EXCEPT ![t] = kept]
      \/ call' = [call EXCEPT ![t] = failed]
  BY <1>3
<1>6. /\ kept \in Call /\ kept.pair = call[t].pair
      /\ kept.from = call[t].from /\ kept.to = call[t].to
  <2> HIDE DEF stage
  <2> QED BY <1>2, <1>4 DEF Call
<1>7. /\ failed \in Call /\ failed.pair = call[t].pair
       /\ failed.from = call[t].from /\ failed.to = call[t].to
  BY <1>2 DEF Call
<1>8. call \in [Threads -> Call]
  BY DEF TypeOK
<1>9. /\ call'[t] \in Call /\ call'[t].pair = call[t].pair
      /\ call'[t].from = call[t].from /\ call'[t].to = call[t].to
      /\ \A u \in Threads \ {t} : call'[u] = call[u]
  <2> HIDE DEF kept, failed
  <2> QED BY <1>5, <1>6, <1>7, <1>8
<1>10. \/ /\ rows'[call[t].pair] = rows[call[t].pair] \cup {l}
         /\ call'[t].batch = call[t].batch \ {l}
         /\ call'[t].stage = IF call[t].batch \ {l} = {} THEN "done" ELSE "insert"
       \/ rows'[call[t].pair] = rows[call[t].pair] /\ call'[t].stage = "error"
  BY <1>2, <1>3 DEF TypeOK, Call
<1>11. \A q \in Pairs \ {call[t].pair} : rows'[q] = rows[q]
  BY <1>2, <1>3 DEF TypeOK
<1> QED BY <1>1, <1>3, <1>9, <1>10, <1>11

\* The row comes after what the batch still holds of lower blocks, so it makes
\* no hole, and the batch stays what comes next.
LEMMA InsertInv ==
  ASSUME SomePair, Base, NEW t \in Threads, InsertPrice(t), TypeOK'
  PROVE  Base'
<1> DEFINE p == call[t].pair
           C == chain[p]
           R == rows[p]
<1>1. /\ UNCHANGED <<head, chain, summary, loop, refresh, used>>
      /\ call[t].stage = "insert"
      /\ call'[t] \in Call /\ call'[t].pair = p
      /\ call'[t].from = call[t].from /\ call'[t].to = call[t].to
      /\ \A u \in Threads \ {t} : call'[u] = call[u]
  BY InsertCases DEF Base
<1>2. /\ p \in Pairs /\ call[t] \in Call /\ C \subseteq Log /\ R \subseteq Log
      /\ CallOK(C, R, head, call[t]) /\ ChainOK(C, head) /\ StoredOK(C, R, head)
      /\ head \in Int
  BY Pieces DEF Base
<1>3. PICK l \in call[t].batch :
        /\ \A k \in call[t].batch : Before(l, k)
        /\ \A q \in Pairs \ {p} : rows'[q] = rows[q]
        /\ \/ /\ rows'[p] = R \cup {l}
              /\ call'[t].batch = call[t].batch \ {l}
              /\ call'[t].stage = IF call[t].batch \ {l} = {}
                                  THEN "done" ELSE "insert"
           \/ rows'[p] = R /\ call'[t].stage = "error"
  BY InsertCases DEF Base
<1>4. /\ StartBlock <= call[t].from /\ call[t].from <= head
      /\ Passed(C, R, call[t].from)
      /\ \A k \in call[t].batch : /\ StartBlock <= k.block /\ k.block <= head
                                  /\ Passed(C, R \cup call[t].batch, k.block)
  BY <1>1, <1>2 DEF CallOK
<1>5. Passed(C, R \cup {l}, l.block)
  <2> SUFFICES ASSUME NEW k \in C, k.block < l.block
               PROVE  Keyed(R \cup {l}, k)
    BY DEF Passed
  <2>1. PICK r \in R \cup call[t].batch : r.block = k.block /\ r.index = k.index
    BY <1>4 DEF Passed, Keyed
  <2>2. l.block \in Int /\ k.block \in Int
    BY <1>2 DEF Call, Log
  <2>3. ~Before(l, r)
    BY <2>1, <2>2 DEF Before
  <2>4. r \in R
    BY <1>3, <2>1, <2>3
  <2> QED BY <2>1, <2>4 DEF Keyed
<1>6. \A q \in Pairs : Stays(chain[q], rows[q], head, chain'[q], rows'[q], head')
  BY <1>1, <1>3, Pieces DEF Stays, Base
<1>7. \A q \in Pairs : ChainOK(chain'[q], head')
  BY <1>1 DEF Base
<1>8. \A q \in Pairs : StoredOK(chain'[q], rows'[q], head')
  <2> SUFFICES ASSUME NEW q \in Pairs, NEW r \in rows'[q]
               PROVE  /\ StartBlock <= r.block /\ r.block <= head
                      /\ Passed(chain[q], rows'[q], r.block)
    BY <1>1 DEF StoredOK
  <2>1. CASE r \in rows[q]
    <3>1. /\ StartBlock <= r.block /\ r.block <= head /\ Passed(chain[q], rows[q], r.block)
          /\ r.block \in Int
      BY <2>1, Pieces DEF Base, StoredOK, Log
    <3>2. rows[q] \subseteq rows'[q]
      BY <1>3
    <3>3. Passed(chain[q], rows'[q], r.block)
      BY <3>1, <3>2 DEF Passed, Keyed
    <3> QED BY <3>1, <3>3
  <2>2. CASE q = p /\ r = l /\ rows'[p] = R \cup {l}
    BY <1>4, <1>5, <2>2
  <2> QED BY <1>3, <2>1, <2>2
<1>9. \A q \in Pairs, row \in SummaryRow :
        RowOK(chain[q], rows[q], head, row) => RowOK(chain'[q], rows'[q], head', row)
  BY <1>6, RowStays
<1>10. \A q \in Pairs : RowOK(chain'[q], rows'[q], head', summary'[q])
  BY <1>1, <1>9, Pieces DEF Base
<1>11. \/ /\ rows'[p] \cup call'[t].batch = R \cup call[t].batch
          /\ call'[t].batch \subseteq call[t].batch
          /\ call'[t].stage = "done" => call'[t].batch = {}
       \/ call'[t].stage = "error"
  BY <1>3
<1>12. R \subseteq rows'[p]
  BY <1>3
<1>13. CallOK(C, rows'[p], head, call'[t])
  <2>1. Passed(C, rows'[p], call[t].from)
    BY <1>4, <1>12 DEF Passed, Keyed
  <2>2. CASE /\ rows'[p] \cup call'[t].batch = R \cup call[t].batch
             /\ call'[t].batch \subseteq call[t].batch
    BY <1>1, <1>4, <2>1, <2>2 DEF CallOK
  <2>3. CASE call'[t].stage = "error"
    BY <1>1, <1>4, <2>1, <2>3 DEF CallOK
  <2> QED BY <1>11, <2>2, <2>3
<1>14. \A u \in Threads : CallOK(chain'[call'[u].pair], rows'[call'[u].pair], head', call'[u])
  BY <1>1, <1>6, <1>13, CallStays, Pieces DEF Base
<1>15. ASSUME NEW w \in Workers PROVE WorkerInv(w)'
  <2>1. \A q \in Pairs : RowOK(chain'[q], rows'[q], head', loop'[w].snap[q])
    BY <1>1, <1>9, Pieces DEF Base, WorkerInv
  <2>2. CASE w # t
    BY <1>1, <1>6, <2>1, <2>2, WorkStays, Pieces DEF Base, WorkerInv
  <2>3. CASE w = t
    <3>1. WorkOK(C, R, head, loop[t].snap[p], call[t]) /\ loop[t].pc = "call"
      BY <1>1, <2>3 DEF Base, WorkerInv
    <3>2. /\ loop[t].snap[p].has_data /\ R # {}
          /\ StartBlock <= call[t].to /\ call[t].to <= head
          /\ Passed(C, R \cup call[t].batch, call[t].to)
      BY <1>1, <3>1 DEF WorkOK
    <3>3. WorkOK(C, rows'[p], head, loop[t].snap[p], call'[t])
      <4>1. CASE /\ rows'[p] \cup call'[t].batch = R \cup call[t].batch
                 /\ call'[t].stage = "done" => call'[t].batch = {}
        <5>1. call'[t].stage = "done" => rows'[p] = R \cup call[t].batch
          BY <4>1
        <5> QED BY <1>1, <1>12, <3>2, <4>1, <5>1 DEF WorkOK
      <4>2. CASE call'[t].stage = "error"
        BY <1>1, <1>12, <3>2, <4>2 DEF WorkOK
      <4> QED BY <1>11, <4>1, <4>2
    <3> QED BY <1>1, <2>1, <2>3, <3>1, <3>3 DEF WorkerInv
  <2> QED BY <2>2, <2>3
<1>16. FirstRowInv'
  <2>1. \A u \in Threads, q \in Pairs : Crawling(u, q)' => Crawling(u, q)
    BY <1>1 DEF Crawling
  <2>2. \A q \in Pairs : rows'[q] = {} => rows[q] = {}
    BY <1>3
  <2> QED BY <1>1, <2>1, <2>2 DEF Base, FirstRowInv
<1>17. ReadInv'
  <2>1. refresh.stage # "idle" => R # {}
    BY <1>1, <1>2 DEF Base, FirstRowInv, Crawling
  <2>2. refresh.pair \in Pairs /\ Shown(refresh.row) \in SummaryRow
    BY Pieces DEF Base
  <2>3. refresh.stage # "idle" => (rows'[refresh.pair] # {} <=> rows[refresh.pair] # {})
    BY <1>3, <2>1, <2>2
  <2> QED BY <1>1, <1>9, <2>2, <2>3 DEF Base, ReadInv
<1> QED BY <1>1, <1>7, <1>8, <1>10, <1>14, <1>15, <1>16, <1>17 DEF Base
\* The steps of the callers and of the threads' control: the tables and the
\* chain stay as they are.
LEMMA CallerInv ==
  ASSUME SomePair, Base, TypeOK', NEW c \in Callers,
         \/ Respond(c)
         \/ \E p \in Pairs, from, to \in StartBlock..MaxBlock, replace \in BOOLEAN :
              Submit(c, p, from, to, replace)
  PROVE  Base'
<1>1. /\ UNCHANGED <<head, chain, rows, summary, loop, refresh>>
      /\ \A u \in Threads \ {c} : call'[u] = call[u]
      /\ c \in Threads /\ c \notin Workers
  BY ActorsAssumption DEF Respond, Submit, Base, TypeOK, Threads
<1>2. /\ CallOK(chain[call'[c].pair], rows[call'[c].pair], head, call'[c])
      /\ \A q \in Pairs : Crawling(c, q)' =>
           \/ Crawling(c, q)
           \/ rows[q] # {} \/ refresh.stage = "idle"
  <2>1. CASE Respond(c)
    <3>1. call'[c] = NoCall
      BY <1>1, <2>1 DEF Respond, Base, TypeOK
    <3> QED BY <3>1, Constants DEF CallOK, Crawling
  <2>2. ASSUME NEW p \in Pairs, NEW from \in StartBlock..MaxBlock,
               NEW to \in StartBlock..MaxBlock, NEW replace \in BOOLEAN,
               Submit(c, p, from, to, replace)
        PROVE  <1>2
    <3>1. call'[c] = Entering(p, from, to, replace)
      BY <1>1, <2>2 DEF Submit, Base, TypeOK
    <3>2. /\ call'[c].pair = p /\ call'[c].from = from /\ call'[c].stage = "fetch"
      BY <3>1 DEF Entering
    <3>3. RowOK(chain[p], rows[p], head, summary[p]) /\ ChainOK(chain[p], head)
          /\ chain[p] \subseteq Log /\ summary[p] \in SummaryRow
          /\ head \in StartBlock..MaxBlock
      BY Pieces DEF Base, TypeOK
    <3>4. StartBlock <= from /\ from <= head /\ Passed(chain[p], rows[p], from)
      BY <2>2, <3>3, BlocksAssumption
         DEF Submit, Anchored, RowOK, ChainOK, Passed, SummaryRow, Log
    <3>5. rows[p] # {} \/ refresh.stage = "idle"
      BY <2>2 DEF Submit
    <3> QED BY <3>2, <3>4, <3>5 DEF CallOK, Crawling
  <2> QED BY <2>1, <2>2
<1>3. \A u \in Threads : CallOK(chain'[call'[u].pair], rows'[call'[u].pair], head', call'[u])
  BY <1>1, <1>2 DEF Base
<1>4. \A w \in Workers : WorkerInv(w)'
  BY <1>1, Pieces DEF Base, WorkerInv
<1>5. FirstRowInv'
  <2>1. \A u \in Threads \ {c}, q \in Pairs : Crawling(u, q)' => Crawling(u, q)
    BY <1>1 DEF Crawling
  <2> QED BY <1>1, <1>2, <2>1 DEF Base, FirstRowInv
<1>6. ReadInv'
  BY <1>1 DEF Base, ReadInv
<1> QED BY <1>1, <1>3, <1>4, <1>5, <1>6 DEF Base

\* A thread that starts, is stopped or tests its loop touches no table.
LEMMA LoopInv ==
  ASSUME SomePair, Base, TypeOK', NEW w \in Workers,
         StartWorker(w) \/ StopWorker(w) \/ WhileLoop(w) \/ EndFor(w)
  PROVE  Base'
<1>1. /\ UNCHANGED <<head, chain, rows, summary, call, refresh>>
      /\ \A v \in Workers \ {w} : loop'[v] = loop[v]
  BY DEF StartWorker, StopWorker, WhileLoop, EndFor, Base, TypeOK
<1>2. WorkerInv(w)'
  <2>1. /\ \A q \in Pairs : RowOK(chain[q], rows[q], head, loop[w].snap[q])
        /\ WorkOK(chain[call[w].pair], rows[call[w].pair], head,
                  loop[w].snap[call[w].pair], call[w])
        /\ call[w].stage # "none" => loop[w].pc = "call"
    BY DEF Base, WorkerInv
  <2>2. \A q \in Pairs : RowOK(chain[q], rows[q], head, NoLoop.snap[q])
    BY Constants DEF NoLoop, RowOK
  <2>3. \A q \in Pairs : RowOK(chain[q], rows[q], head, summary[q])
    BY DEF Base
  <2>4. \/ loop'[w].snap = loop[w].snap /\ loop'[w].pc = loop[w].pc
        \/ /\ loop[w].pc # "call"
           /\ \/ loop'[w].snap = NoLoop.snap
              \/ loop'[w].snap = summary
              \/ loop'[w].snap = loop[w].snap
    BY DEF StartWorker, StopWorker, WhileLoop, EndFor, Base, TypeOK, Loop, NoLoop
  <2>5. CASE loop'[w].snap = loop[w].snap /\ loop'[w].pc = loop[w].pc
    BY <1>1, <2>1, <2>5 DEF WorkerInv
  <2>6. CASE loop[w].pc # "call"
    <3>1. call[w].stage = "none"
      BY <2>1, <2>6
    <3>2. \A q \in Pairs : RowOK(chain[q], rows[q], head, loop'[w].snap[q])
      BY <2>1, <2>2, <2>3, <2>4
    <3> QED BY <1>1, <3>1, <3>2 DEF WorkerInv, WorkOK
  <2> QED BY <2>4, <2>5, <2>6
<1>3. \A v \in Workers \ {w} : WorkerInv(v)'
  BY <1>1 DEF Base, WorkerInv
<1>4. FirstRowInv' /\ ReadInv'
  BY <1>1 DEF Base, FirstRowInv, ReadInv, Crawling
<1> QED BY <1>1, <1>2, <1>3, <1>4 DEF Base

\* The window auto_update computes begins at the saved end and ends at or
\* before the head (WindowTo).
LEMMA WindowBounds ==
  ASSUME NEW row \in SummaryRow, head \in Nat,
         StartBlock <= row.max, row.max < head
  PROVE  StartBlock <= WindowTo(row) /\ WindowTo(row) <= head
<1>1. row.max \in Int
  BY DEF SummaryRow
<1> QED
  BY <1>1, BlocksAssumption, WindowAssumption DEF WindowTo, Lesser

\* A thread takes the next Summary row: its window begins inside what the row
\* covers, so the first missing log is in it or past it.
LEMMA NextPairInv ==
  ASSUME SomePair, Base, TypeOK', NEW w \in Workers, NEW p \in Pairs, NextPair(w, p)
  PROVE  Base'
<1> DEFINE row == loop[w].snap[p]
<1>1. /\ UNCHANGED <<head, chain, rows, summary, refresh>>
      /\ \A u \in Threads \ {w} : call'[u] = call[u]
      /\ \A v \in Workers \ {w} : loop'[v] = loop[v]
      /\ loop'[w].snap = loop[w].snap
      /\ w \in Threads /\ loop[w].pc = "for"
  <2>1. /\ loop[w] \in Loop /\ loop \in [Workers -> Loop] /\ w \in Threads
        /\ call \in [Threads -> Call]
    BY DEF Base, TypeOK, Threads
  <2>2. \/ loop' = [loop EXCEPT ![w].pc = "call"]
        \/ loop' = [loop EXCEPT ![w].todo = @ \ {p}]
    BY DEF NextPair
  <2>3. loop'[w].snap = loop[w].snap /\ \A v \in Workers \ {w} : loop'[v] = loop[v]
    BY <2>1, <2>2 DEF Loop
  <2>4. \A u \in Threads \ {w} : call'[u] = call[u]
    BY <2>1 DEF NextPair
  <2> QED BY <2>1, <2>3, <2>4 DEF NextPair
<1>2. \/ /\ row.has_data /\ head > row.max
         /\ call'[w] = Entering(p, row.max, WindowTo(row), FALSE)
         /\ loop'[w].pc = "call"
      \/ call' = call /\ call[w].stage = "none"
  <2>1. loop[w] \in Loop /\ call \in [Threads -> Call] /\ loop \in [Workers -> Loop]
    BY DEF Base, TypeOK
  <2>2. call[w].stage = "none"
    BY <1>1 DEF Base, WorkerInv
  <2>3. \/ /\ row.has_data /\ head > row.max
           /\ call' = [call EXCEPT ![w] = Entering(p, row.max, WindowTo(row), FALSE)]
           /\ loop' = [loop EXCEPT ![w].pc = "call"]
        \/ call' = call
    BY DEF NextPair
  <2>4. CASE /\ row.has_data /\ head > row.max
             /\ call' = [call EXCEPT ![w] = Entering(p, row.max, WindowTo(row), FALSE)]
             /\ loop' = [loop EXCEPT ![w].pc = "call"]
    <3>1. call'[w] = Entering(p, row.max, WindowTo(row), FALSE)
      BY <1>1, <2>1, <2>4
    <3>2. loop'[w].pc = "call"
      BY <2>1, <2>4 DEF Loop
    <3> QED BY <2>4, <3>1, <3>2
  <2> QED BY <2>2, <2>3, <2>4
<1>3. /\ RowOK(chain[p], rows[p], head, row) /\ row \in SummaryRow
      /\ head \in Nat /\ chain[p] \subseteq Log
  BY Pieces, BlocksAssumption DEF Base, WorkerInv, TypeOK
<1>4. /\ CallOK(chain[call'[w].pair], rows[call'[w].pair], head, call'[w])
      /\ WorkOK(chain[call'[w].pair], rows[call'[w].pair], head,
                loop[w].snap[call'[w].pair], call'[w])
      /\ call'[w].stage # "none" => loop'[w].pc = "call"
      /\ \A q \in Pairs : Crawling(w, q)' => rows[q] # {}
  <2>1. CASE /\ row.has_data /\ head > row.max
             /\ call'[w] = Entering(p, row.max, WindowTo(row), FALSE)
             /\ loop'[w].pc = "call"
    <3>1. /\ call'[w].pair = p /\ call'[w].from = row.max
          /\ call'[w].to = WindowTo(row) /\ call'[w].stage = "fetch"
      <4> HIDE DEF row
      <4> QED BY <2>1 DEF Entering
    <3>2. /\ StartBlock <= row.max /\ row.max < head /\ rows[p] # {}
          /\ Passed(chain[p], rows[p], row.max) /\ row.max \in Int
      BY <1>3, <2>1 DEF RowOK, SummaryRow
    <3>3. StartBlock <= WindowTo(row) /\ WindowTo(row) <= head
      BY <1>3, <3>2, WindowBounds
    <3>4. row.has_data /\ row.max <= head
      BY <1>3, <2>1, <3>2
    <3>5. CallOK(chain[p], rows[p], head, call'[w])
      BY <3>1, <3>2, <3>4 DEF CallOK
    <3>6. WorkOK(chain[p], rows[p], head, row, call'[w])
      BY <3>1, <3>2, <3>3, <3>4 DEF WorkOK
    <3>7. \A q \in Pairs : Crawling(w, q)' => rows[q] # {}
      BY <3>1, <3>2 DEF Crawling
    <3>8. CallOK(chain[call'[w].pair], rows[call'[w].pair], head, call'[w])
      BY <3>1, <3>5, Zenon
    <3>9. WorkOK(chain[call'[w].pair], rows[call'[w].pair], head,
                 loop[w].snap[call'[w].pair], call'[w])
      BY <3>1, <3>6, Zenon
    <3> QED BY <2>1, <3>7, <3>8, <3>9, Zenon
  <2>2. CASE call' = call /\ call[w].stage = "none"
    BY <2>2 DEF CallOK, WorkOK, Crawling
  <2> QED BY <1>2, <2>1, <2>2, Zenon
<1>5. \A u \in Threads : CallOK(chain'[call'[u].pair], rows'[call'[u].pair], head', call'[u])
  BY <1>1, <1>4 DEF Base
<1>6. WorkerInv(w)'
  BY <1>1, <1>4 DEF Base, WorkerInv
<1>7. \A v \in Workers \ {w} : WorkerInv(v)'
  BY <1>1, Pieces DEF Base, WorkerInv
<1>8. FirstRowInv'
  <2>1. \A u \in Threads \ {w}, q \in Pairs : Crawling(u, q)' => Crawling(u, q)
    BY <1>1 DEF Crawling
  <2> QED BY <1>1, <1>4, <2>1 DEF Base, FirstRowInv
<1>9. ReadInv'
  BY <1>1 DEF Base, ReadInv
<1> QED BY <1>1, <1>5, <1>6, <1>7, <1>8, <1>9 DEF Base

\* A thread saves its copy of the Summary row after its window was inserted,
\* or dies and claims nothing.
LEMMA WorkerEndInv ==
  ASSUME SomePair, Base, TypeOK', NEW w \in Workers, SaveSummary(w) \/ WorkerDies(w)
  PROVE  Base'
<1> DEFINE p == call[w].pair
<1>1. /\ UNCHANGED <<head, chain, rows, refresh>>
      /\ call' = [call EXCEPT ![w] = NoCall]
      /\ w \in Threads /\ p \in Pairs /\ call[w] \in Call
      /\ call \in [Threads -> Call] /\ loop \in [Workers -> Loop]
  BY Pieces DEF SaveSummary, WorkerDies, Base, TypeOK
<1>2. /\ call'[w].stage = "none"
      /\ \A u \in Threads \ {w} : call'[u] = call[u]
  BY <1>1, Constants
<1>3. \A u \in Threads : CallOK(chain'[call'[u].pair], rows'[call'[u].pair], head', call'[u])
  <2>1. CallOK(chain[call'[w].pair], rows[call'[w].pair], head, call'[w])
    BY <1>2 DEF CallOK
  <2> QED BY <1>1, <1>2, <2>1 DEF Base
<1>4. \A u \in Threads, q \in Pairs : Crawling(u, q)' => Crawling(u, q)
  BY <1>1, <1>2 DEF Crawling
<1>5. FirstRowInv' /\ ReadInv'
  BY <1>1, <1>4 DEF Base, FirstRowInv, ReadInv
<1>6. \A v \in Workers \ {w} : loop'[v] = loop[v]
  BY <1>1 DEF SaveSummary, WorkerDies
<1>7. loop'[w].snap = loop[w].snap \/ loop'[w].snap = NoLoop.snap
  BY <1>1 DEF SaveSummary, WorkerDies, Loop
<1>8. WorkerInv(w)'
  <2>1. \A q \in Pairs : RowOK(chain[q], rows[q], head, NoLoop.snap[q])
    BY Constants DEF NoLoop, RowOK
  <2>2. \A q \in Pairs : RowOK(chain[q], rows[q], head, loop[w].snap[q])
    BY DEF Base, WorkerInv
  <2>3. \A q \in Pairs : RowOK(chain[q], rows[q], head, loop'[w].snap[q])
    BY <1>7, <2>1, <2>2
  <2> QED BY <1>1, <1>2, <2>3 DEF WorkerInv, WorkOK
<1>9. \A v \in Workers \ {w} : WorkerInv(v)'
  BY <1>1, <1>2, <1>6, Pieces DEF Base, WorkerInv
<1>10. \A q \in Pairs : RowOK(chain[q], rows[q], head, summary'[q])
  <2>1. CASE WorkerDies(w)
    BY <2>1 DEF WorkerDies, Base
  <2>2. CASE SaveSummary(w)
    <3>1. /\ summary' = [summary EXCEPT ![p] = [loop[w].snap[p] EXCEPT !.max = call[w].to]]
          /\ call[w].stage = "done"
      BY <2>2 DEF SaveSummary
    <3>2. /\ summary'[p].max = call[w].to
          /\ \A q \in Pairs \ {p} : summary'[q] = summary[q]
      BY <1>1, <3>1, Pieces DEF Base, TypeOK, SummaryRow
    <3>3. WorkOK(chain[p], rows[p], head, loop[w].snap[p], call[w])
      BY DEF Base, WorkerInv
    <3>4. RowOK(chain[p], rows[p], head, summary'[p])
      <4>1. call[w].stage = "done"
        BY <3>1
      <4> HIDE DEF p
      <4> QED BY <4>1, <3>2, <3>3 DEF WorkOK, RowOK
    <3> QED BY <3>2, <3>4 DEF Base
  <2> QED BY <2>1, <2>2
<1> QED BY <1>1, <1>3, <1>5, <1>8, <1>9, <1>10 DEF Base

\* The summary page reads a prefix of the chain and saves what it read, which
\* is still stored however late it saves.
LEMMA RefreshInv ==
  ASSUME SomePair, Base, TypeOK',
         \/ RefreshBegin \/ RefreshCount \/ RefreshSave
         \/ \E p \in Pairs : RefreshRange(p)
  PROVE  Base'
<1>1. UNCHANGED <<head, chain, rows, call, loop>>
  BY DEF RefreshBegin, RefreshCount, RefreshSave, RefreshRange
<1>2. \A w \in Workers : WorkerInv(w)'
  BY <1>1 DEF Base, WorkerInv
<1>3. refresh \in Refresh
  BY DEF Base, TypeOK
<1>4. \A q \in Pairs : RowOK(chain[q], rows[q], head, summary'[q])
  <2>1. CASE summary' = summary
    BY <2>1 DEF Base
  <2>2. CASE RefreshSave
    <3> DEFINE p == refresh.pair
    <3>1. summary' = [summary EXCEPT ![p] = refresh.row] /\ refresh.stage = "save"
      BY <2>2 DEF RefreshSave
    <3>2. refresh.row.has_data => RowOK(chain[p], rows[p], head, Shown(refresh.row))
      BY <3>1 DEF Base, ReadInv
    <3>3. Shown(refresh.row).max = refresh.row.max /\ Shown(refresh.row).has_data
      BY <1>3 DEF Shown, Refresh, SummaryRow
    <3>4. RowOK(chain[p], rows[p], head, refresh.row)
      BY <3>2, <3>3 DEF RowOK
    <3> QED BY <1>3, <3>1, <3>4 DEF Base, TypeOK
  <2> QED BY <2>1, <2>2 DEF RefreshBegin, RefreshCount, RefreshRange
<1>5. FirstRowInv'
  <2>1. \A u \in Threads, q \in Pairs : Crawling(u, q)' <=> Crawling(u, q)
    BY <1>1 DEF Crawling
  <2>2. CASE RefreshBegin
    BY <1>1, <2>1, <2>2 DEF RefreshBegin, FirstRowInv
  <2>3. CASE refresh.stage # "idle"
    BY <1>1, <2>1, <2>3 DEF Base, FirstRowInv
  <2> QED BY <2>2, <2>3 DEF RefreshCount, RefreshSave, RefreshRange
<1>6. ReadInv'
  <2>1. CASE RefreshBegin \/ RefreshSave
    <3>1. refresh'.stage \in {"idle", "range"}
      <4>1. CASE RefreshBegin
        BY <1>3, <4>1 DEF RefreshBegin, Refresh
      <4>2. CASE RefreshSave
        <5>1. \/ refresh' = NoRefresh
              \/ \E rest : refresh' = [NoRefresh EXCEPT !.stage = "range", !.todo = rest]
          BY <4>2 DEF RefreshSave
        <5>2. NoRefresh \in Refresh /\ NoRefresh.stage = "idle"
          BY Constants
        <5> QED BY <5>1, <5>2 DEF Refresh
      <4> QED BY <2>1, <4>1, <4>2
    <3> QED BY <3>1 DEF ReadInv
  <2>2. CASE RefreshCount
    <3>1. /\ refresh.stage = "count" /\ refresh'.stage = "save"
          /\ refresh'.pair = refresh.pair
          /\ Shown(refresh'.row) = Shown(refresh.row)
          /\ refresh'.row.has_data <=> rows[refresh.pair] # {}
      <4>1. refresh' = [refresh EXCEPT !.stage = "save",
                          !.row.has_data = (rows[refresh.pair] # {})]
            /\ refresh.stage = "count"
        BY <2>2 DEF RefreshCount
      <4>2. refresh'.row = [refresh.row EXCEPT !.has_data = (rows[refresh.pair] # {})]
        BY <1>3, <4>1 DEF Refresh
      <4>3. refresh'.stage = "save" /\ refresh'.pair = refresh.pair
        BY <1>3, <4>1 DEF Refresh
      <4>4. refresh.row \in SummaryRow
        BY <1>3 DEF Refresh
      <4> DEFINE any == rows[refresh.pair] # {}
                 row == refresh.row
      <4>5. any \in BOOLEAN
        OBVIOUS
      <4>6. /\ Shown([row EXCEPT !.has_data = any]) = Shown(row)
            /\ [row EXCEPT !.has_data = any].has_data = any
        <5> HIDE DEF any, row
        <5>1. row \in SummaryRow
          BY <4>4 DEF row
        <5> QED BY <4>5, <5>1 DEF SummaryRow, Shown
      <4> QED BY <4>1, <4>2, <4>3, <4>6
    <3> QED BY <1>1, <3>1 DEF Base, ReadInv
  <2>3. ASSUME NEW p \in Pairs, RefreshRange(p) PROVE ReadInv'
    <3>1. PICK lo, hi \in {-1} \cup {l.block : l \in rows[p]} :
            /\ IsMaxBlock(hi, rows[p])
            /\ refresh' = [refresh EXCEPT !.stage = "count", !.pair = p,
                             !.row = [exists |-> TRUE, min |-> lo, max |-> hi,
                                      has_data |-> FALSE]]
      BY <2>3 DEF RefreshRange
    <3>2. /\ refresh'.stage = "count" /\ refresh'.pair = p
          /\ refresh'.row = [exists |-> TRUE, min |-> lo, max |-> hi, has_data |-> FALSE]
      BY <1>3, <3>1 DEF Refresh
    <3>3. Shown(refresh'.row).max = hi
      BY <3>2 DEF Shown
    <3>4. StoredOK(chain[p], rows[p], head)
      BY DEF Base
    <3>5. ASSUME rows[p] # {}
          PROVE  RowOK(chain[p], rows[p], head, Shown(refresh'.row))
      <4>1. PICK l \in rows[p] : hi = l.block
        BY <3>1, <3>5 DEF IsMaxBlock
      <4>2. StartBlock <= hi /\ hi <= head /\ Passed(chain[p], rows[p], hi)
        BY <3>4, <4>1 DEF StoredOK
      <4> QED BY <3>3, <3>5, <4>2 DEF RowOK
    <3> QED BY <1>1, <3>2, <3>5 DEF ReadInv
  <2> QED BY <2>1, <2>2, <2>3
<1> QED BY <1>1, <1>2, <1>4, <1>5, <1>6 DEF Base

\* An exit of the process leaves the tables and drops every call and thread.
LEMMA NodeErrorInv ==
  ASSUME SomePair, Base, TypeOK', NodeError
  PROVE  Base'
<1>1. /\ UNCHANGED <<head, chain, rows, summary>>
      /\ call' = [t \in Threads |-> NoCall]
      /\ loop' = [w \in Workers |-> NoLoop]
      /\ refresh' = NoRefresh
  BY DEF NodeError
<1>2. /\ \A t \in Threads : call'[t].stage = "none"
      /\ \A w \in Workers, q \in Pairs : ~loop'[w].snap[q].has_data
      /\ refresh'.stage = "idle"
  BY <1>1, Constants DEF NoLoop
<1>3. \A t \in Threads : CallOK(chain'[call'[t].pair], rows'[call'[t].pair], head', call'[t])
  BY <1>2 DEF CallOK
<1>4. \A w \in Workers : WorkerInv(w)'
  BY <1>2 DEF WorkerInv, WorkOK, RowOK, Threads
<1>5. FirstRowInv' /\ ReadInv'
  BY <1>2 DEF FirstRowInv, ReadInv
<1> QED BY <1>1, <1>3, <1>4, <1>5 DEF Base

\* Every step keeps the invariant.
LEMMA BaseStep ==
  ASSUME SomePair, OneContract, Base, [Next]_vars
  PROVE  Base'
<1>1. TypeOK'
  BY TypeStep DEF Base
<1>2. CASE UNCHANGED vars
  <2>1. \A w \in Workers : WorkerInv(w)'
    BY <1>2 DEF vars, Base, WorkerInv
  <2>2. FirstRowInv' /\ ReadInv'
    BY <1>2 DEF vars, Base, FirstRowInv, ReadInv, Crawling
  <2> QED BY <1>1, <1>2, <2>1, <2>2 DEF vars, Base
<1>3. CASE Mine \/ Reorg \/ NodeError
  BY <1>1, <1>3, NodeInv, NodeErrorInv
<1>4. CASE Operator
  BY <1>1, <1>4, CallerInv DEF Operator
<1>5. CASE AllOracle
  BY <1>1, <1>5, RefreshInv DEF AllOracle
<1>6. ASSUME NEW t \in Threads, UpdateData(t) PROVE Base'
  BY <1>1, <1>6, FetchInv, InsertInv DEF UpdateData
<1>7. ASSUME NEW w \in Workers, StartWorker(w) \/ StopWorker(w) \/ AutoUpdate(w)
      PROVE  Base'
  BY <1>1, <1>7, LoopInv, NextPairInv, WorkerEndInv DEF AutoUpdate
<1> QED
  BY <1>2, <1>3, <1>4, <1>5, <1>6, <1>7 DEF Next, Environment


-----------------------------------------------------------------------------
(* The order inside a block, while nothing was reorganised.                *)

\* A row that stands in the place of a log is the log.
LEMMA PassedIsCovered ==
  ASSUME NEW C, NEW R, NEW h, NEW b, ChainOK(C, h), R \subseteq C, Passed(C, R, b)
  PROVE  Covered(C, R, b)
BY DEF ChainOK, Passed, Keyed, Covered

\* A step that leaves chain and tables alone and gives no thread a batch or a
\* finished window keeps it.
LEMMA StrictKept ==
  ASSUME Strict, UNCHANGED <<chain, rows>>,
         \A t \in Threads : call'[t] = call[t] \/ call'[t].stage \notin {"insert", "done"}
  PROVE  Strict'
<1>1. \A p \in Pairs : PrefixOK(chain[p], rows[p])'
  BY DEF Strict
<1>2. \A t \in Threads : BatchOK(chain'[call'[t].pair], rows'[call'[t].pair], call'[t])
  BY DEF Strict, BatchOK
<1>3. \A w \in Workers : WindowOK(chain'[call'[w].pair], rows'[call'[w].pair], call'[w])
  BY DEF Strict, WindowOK, Threads
<1> QED BY <1>1, <1>2, <1>3 DEF Strict

\* A mined block is past every row, batch and window.
LEMMA StrictMine ==
  ASSUME Base, Strict, Mine
  PROVE  Strict'
<1>1. PICK c \in [Pairs -> BlockContents] :
        chain' = [p \in Pairs |-> chain[p] \cup LogsAt(head + 1, c[p])]
  BY DEF Mine
<1>2. head + 1 \in Nat /\ head \in Int /\ UNCHANGED <<rows, call>>
  BY BlocksAssumption DEF Mine, Base, TypeOK
<1>3. ASSUME NEW p \in Pairs
      PROVE  /\ chain[p] \subseteq chain'[p] /\ chain[p] \subseteq Log
             /\ \A l \in chain[p] : l.block <= head
             /\ \A k \in chain'[p] \ chain[p] : k.block = head + 1
  <2>1. chain'[p] = chain[p] \cup LogsAt(head + 1, c[p])
    BY <1>1
  <2>2. \A l \in LogsAt(head + 1, c[p]) : l.block = head + 1
    BY <1>2, LogsAtType
  <2> QED BY <2>1, <2>2, Pieces DEF Base, ChainOK
<1>4. ASSUME NEW p \in Pairs, NEW l \in chain[p], NEW k \in chain'[p], Before(k, l)
      PROVE  k \in chain[p]
  <2>1. l.block \in Int /\ l.block <= head
    BY <1>3 DEF Log
  <2>2. k.block # head + 1
    BY <1>2, <1>4, <2>1 DEF Before
  <2> QED BY <1>3, <2>2
<1>5. \A p \in Pairs : PrefixOK(chain'[p], rows'[p])
  BY <1>2, <1>3, <1>4 DEF Strict, PrefixOK
<1>6. \A t \in Threads : BatchOK(chain'[call'[t].pair], rows'[call'[t].pair], call'[t])
  <2> SUFFICES ASSUME NEW t \in Threads
               PROVE  BatchOK(chain'[call[t].pair], rows[call[t].pair], call[t])
    BY <1>2
  <2>1. call[t].pair \in Pairs /\ BatchOK(chain[call[t].pair], rows[call[t].pair], call[t])
    BY Pieces DEF Base, Strict
  <2> QED BY <1>3, <1>4, <2>1 DEF BatchOK
<1>7. \A w \in Workers : WindowOK(chain'[call'[w].pair], rows'[call'[w].pair], call'[w])
  <2> SUFFICES ASSUME NEW w \in Workers, call[w].stage # "none"
               PROVE  WindowOK(chain'[call[w].pair], rows[call[w].pair], call[w])
    BY <1>2 DEF WindowOK
  <2> DEFINE p == call[w].pair
  <2>1. /\ p \in Pairs /\ WindowOK(chain[p], rows[p], call[w])
        /\ call[w].to \in Int /\ call[w].to <= head
    BY Pieces DEF Base, Strict, WorkerInv, WorkOK, Call, Threads
  <2>2. \A k \in chain'[p] : k.block < call[w].to + 1 => k \in chain[p]
    BY <1>2, <1>3, <2>1
  <2> QED BY <2>1, <2>2 DEF WindowOK, Covered
<1> QED BY <1>5, <1>6, <1>7 DEF Strict

\* A log query returns the whole window, so nothing before a log of it is
\* neither stored nor in it.
LEMMA StrictFetch ==
  ASSUME SomePair, OneContract, Base, Strict, NEW t \in Threads, Fetch(t), TypeOK'
  PROVE  Strict'
<1> DEFINE p == call[t].pair
           C == chain[p]
           R == rows[p]
           logs == call'[t].batch
<1>1. /\ UNCHANGED <<chain, rows>> /\ call[t].stage = "fetch"
      /\ logs = {l \in C : call[t].from <= l.block /\ l.block <= call[t].to}
      /\ call'[t].stage = IF logs = {} THEN "done" ELSE "insert"
      /\ call'[t].pair = p /\ call'[t].to = call[t].to
      /\ \A u \in Threads \ {t} : call'[u] = call[u]
  <2>1. UNCHANGED <<chain, rows>> /\ call[t].stage = "fetch"
    BY DEF Fetch
  <2> QED BY <2>1, FetchInv, Zenon
<1>2. /\ p \in Pairs /\ call[t] \in Call /\ C \subseteq Log /\ R \subseteq C
      /\ CallOK(C, R, head, call[t]) /\ ChainOK(C, head)
  BY Pieces DEF Base, Strict, PrefixOK
<1>3. Covered(C, R, call[t].from)
  <2>1. Passed(C, R, call[t].from)
    BY <1>1, <1>2 DEF CallOK
  <2> QED BY <1>2, <2>1, PassedIsCovered
<1>4. \A k \in C : k.block <= call[t].to => k \in R \cup logs
  BY <1>1, <1>2, <1>3 DEF Covered, Log, Call
<1>5. BatchOK(C, R, call'[t])
  <2>1. ASSUME NEW l \in logs, NEW k \in C, Before(k, l)
        PROVE  k \in R \cup logs
    <3>1. k.block \in Int /\ l.block \in Int /\ call[t].to \in Int /\ l.block <= call[t].to
      BY <1>1, <1>2 DEF Log, Call
    <3> QED BY <1>4, <2>1, <3>1 DEF Before
  <2> QED BY <1>1, <2>1 DEF BatchOK
<1>6. WindowOK(C, R, call'[t])
  <2>1. \A k \in C : k.block < call[t].to + 1 => k \in R \cup logs
    BY <1>2, <1>4 DEF Log, Call
  <2> QED BY <1>1, <2>1 DEF WindowOK, Covered
<1>7. \A q \in Pairs : PrefixOK(chain'[q], rows'[q])
  BY <1>1 DEF Strict
<1>8. \A u \in Threads : BatchOK(chain'[call'[u].pair], rows'[call'[u].pair], call'[u])
  BY <1>1, <1>5 DEF Strict
<1>9. \A w \in Workers : WindowOK(chain'[call'[w].pair], rows'[call'[w].pair], call'[w])
  BY <1>1, <1>6 DEF Strict, Threads
<1> QED BY <1>7, <1>8, <1>9, Zenon DEF Strict

\* The row that is inserted is of the first log missing, so the table stays a
\* prefix of the chain.
LEMMA StrictInsert ==
  ASSUME Base, Strict, NEW t \in Threads, InsertPrice(t)
  PROVE  Strict'
<1> DEFINE p == call[t].pair
           C == chain[p]
           R == rows[p]
<1>1. /\ chain' = chain /\ call[t].stage = "insert"
      /\ call'[t].pair = p /\ call'[t].to = call[t].to
      /\ \A u \in Threads \ {t} : call'[u] = call[u]
  BY InsertCases DEF Base
<1>2. PICK l \in call[t].batch :
        /\ \A k \in call[t].batch : Before(l, k)
        /\ \A q \in Pairs \ {p} : rows'[q] = rows[q]
        /\ \/ /\ rows'[p] = R \cup {l}
              /\ call'[t].batch = call[t].batch \ {l}
              /\ call'[t].stage = IF call[t].batch \ {l} = {}
                                  THEN "done" ELSE "insert"
           \/ rows'[p] = R /\ call'[t].stage = "error"
  BY InsertCases DEF Base
<1>3. /\ p \in Pairs /\ call[t] \in Call /\ C \subseteq Log
      /\ PrefixOK(C, R) /\ BatchOK(C, R, call[t]) /\ ChainOK(C, head)
  BY Pieces DEF Base, Strict
<1>4. /\ call[t].batch \subseteq C
      /\ \A b \in call[t].batch, k \in C : Before(k, b) => k \in R \cup call[t].batch
  BY <1>1, <1>3 DEF BatchOK
<1>5. PrefixOK(C, R \cup {l})
  <2> SUFFICES ASSUME NEW k \in C, Before(k, l), k \notin R
               PROVE  k = l
    BY <1>3, <1>4 DEF PrefixOK
  <2>1. k \in call[t].batch /\ Before(l, k)
    BY <1>2, <1>4
  <2>2. k.block = l.block /\ k.index = l.index
    BY <1>3, <1>4, <2>1 DEF Before, Log
  <2> QED BY <1>3, <1>4, <2>2 DEF ChainOK
<1>6. \A q \in Pairs : PrefixOK(chain'[q], rows'[q])
  BY <1>1, <1>2, <1>5 DEF Strict
<1>7. \A q \in Pairs : rows[q] \subseteq rows'[q]
  BY <1>2
<1>8. \/ /\ rows'[p] \cup call'[t].batch = R \cup call[t].batch
         /\ call'[t].batch \subseteq call[t].batch
         /\ call'[t].stage = "done" => rows'[p] = R \cup call[t].batch
      \/ call'[t].stage = "error"
  BY <1>2
<1>9. ASSUME NEW u \in Threads
      PROVE  BatchOK(chain'[call'[u].pair], rows'[call'[u].pair], call'[u])
  <2>1. CASE u # t
    <3>1. call[u].pair \in Pairs /\ BatchOK(chain[call[u].pair], rows[call[u].pair], call[u])
      BY Pieces DEF Base, Strict
    <3>2. BatchOK(chain[call[u].pair], rows'[call[u].pair], call[u])
      BY <1>7, <3>1 DEF BatchOK
    <3> QED BY <1>1, <2>1, <3>2
  <2>2. CASE u = t
    BY <1>1, <1>4, <1>8, <2>2 DEF BatchOK
  <2> QED BY <2>1, <2>2
<1>10. ASSUME NEW w \in Workers
       PROVE  WindowOK(chain'[call'[w].pair], rows'[call'[w].pair], call'[w])
  <2>1. w \in Threads /\ WindowOK(chain[call[w].pair], rows[call[w].pair], call[w])
    BY DEF Strict, Threads
  <2>2. CASE w # t
    <3>1. call[w].pair \in Pairs
      BY <2>1, Pieces DEF Base
    <3>2. WindowOK(chain[call[w].pair], rows'[call[w].pair], call[w])
      BY <1>7, <2>1, <3>1 DEF WindowOK, Covered
    <3> QED BY <1>1, <2>1, <2>2, <3>2
  <2>3. CASE w = t
    <3>1. Covered(C, R \cup call[t].batch, call[t].to + 1)
      BY <1>1, <2>1, <2>3 DEF WindowOK
    <3> QED BY <1>1, <1>8, <2>3, <3>1 DEF WindowOK
  <2> QED BY <2>2, <2>3
<1> QED BY <1>6, <1>9, <1>10 DEF Strict

\* Every step but a reorganisation keeps it.
LEMMA StrictStep ==
  ASSUME SomePair, OneContract, Base, Strict, [Next]_vars, ~Reorg
  PROVE  Strict'
<1>1. TypeOK' /\ call \in [Threads -> Call]
  BY TypeStep DEF Base, TypeOK
<1>2. CASE Mine
  BY <1>2, StrictMine
<1>3. ASSUME NEW t \in Threads, UpdateData(t) PROVE Strict'
  BY <1>1, <1>3, StrictFetch, StrictInsert DEF UpdateData
<1>4. CASE UNCHANGED vars \/ AllOracle
  <2>1. UNCHANGED <<chain, rows, call>>
    BY <1>4, RefreshFrame DEF vars
  <2> QED BY <2>1, StrictKept
<1>5. CASE NodeError
  <2>1. UNCHANGED <<chain, rows>> /\ \A t \in Threads : call'[t].stage = "none"
    BY <1>5, Constants DEF NodeError
  <2> QED BY <2>1, StrictKept
<1>6. ASSUME NEW c \in Callers, Respond(c) PROVE Strict'
  <2>1. UNCHANGED <<chain, rows>> /\ call' = [call EXCEPT ![c] = NoCall]
    BY <1>6 DEF Respond
  <2>2. \A t \in Threads : call'[t] = call[t] \/ call'[t].stage = "none"
    BY <1>1, <2>1, Constants
  <2> QED BY <2>1, <2>2, StrictKept
<1>7. ASSUME NEW c \in Callers, NEW p \in Pairs, NEW from \in StartBlock..MaxBlock,
             NEW to \in StartBlock..MaxBlock, NEW replace \in BOOLEAN,
             Submit(c, p, from, to, replace)
      PROVE  Strict'
  <2>1. /\ UNCHANGED <<chain, rows>>
        /\ call' = [call EXCEPT ![c] = Entering(p, from, to, replace)]
    BY <1>7 DEF Submit
  <2>2. Entering(p, from, to, replace).stage = "fetch"
    BY DEF Entering
  <2>3. \A t \in Threads : call'[t] = call[t] \/ call'[t].stage = "fetch"
    BY <1>1, <2>1, <2>2
  <2> QED BY <2>1, <2>3, StrictKept
<1>8. ASSUME NEW w \in Workers, StartWorker(w) \/ StopWorker(w) \/ WhileLoop(w) \/ EndFor(w)
      PROVE  Strict'
  <2>1. UNCHANGED <<chain, rows, call>>
    BY <1>8 DEF StartWorker, StopWorker, WhileLoop, EndFor
  <2> QED BY <2>1, StrictKept
<1>9. ASSUME NEW w \in Workers, SaveSummary(w) \/ WorkerDies(w)
      PROVE  Strict'
  <2>1. UNCHANGED <<chain, rows>> /\ call' = [call EXCEPT ![w] = NoCall]
    BY <1>9 DEF SaveSummary, WorkerDies
  <2>2. \A t \in Threads : call'[t] = call[t] \/ call'[t].stage = "none"
    BY <1>1, <2>1, Constants
  <2> QED BY <2>1, <2>2, StrictKept
<1>10. ASSUME NEW w \in Workers, NEW p \in Pairs, NextPair(w, p)
       PROVE  Strict'
  <2> DEFINE new == Entering(p, loop[w].snap[p].max, WindowTo(loop[w].snap[p]), FALSE)
  <2>1. /\ UNCHANGED <<chain, rows>>
        /\ call' = [call EXCEPT ![w] = new] \/ call' = call
    BY <1>10 DEF NextPair
  <2>2. new.stage = "fetch"
    BY DEF Entering
  <2> HIDE DEF new
  <2>3. \A t \in Threads : call'[t] = call[t] \/ call'[t].stage = "fetch"
    BY <1>1, <2>1, <2>2
  <2> QED BY <2>1, <2>3, StrictKept
<1> QED
  BY <1>2, <1>3, <1>4, <1>5, <1>6, <1>7, <1>8, <1>9, <1>10
     DEF Next, Environment, Operator, AutoUpdate

\* Nothing takes a reorganisation back.
LEMMA ReorgsStay ==
  ASSUME TypeOK, [Next]_vars, used'.reorgs = 0
  PROVE  used.reorgs = 0 /\ ~Reorg
<1>1. used.reorgs \in Nat
  BY DEF TypeOK
<1>2. ASSUME Reorg PROVE FALSE
  BY <1>1, <1>2 DEF Reorg, TypeOK
<1>3. CASE used' = used
  BY <1>2, <1>3
<1>4. CASE \/ used' = [used EXCEPT !.calls = @ + 1]
           \/ used' = [used EXCEPT !.refreshes = @ + 1]
           \/ used' = [used EXCEPT !.crashes = @ + 1]
  BY <1>2, <1>4 DEF TypeOK
<1>5. CASE UNCHANGED vars \/ Mine \/ NodeError
  BY <1>3, <1>4, <1>5 DEF vars, Mine, NodeError
<1>6. CASE Operator
  BY <1>3, <1>4, <1>6, OperatorFrame
<1>7. CASE AllOracle
  BY <1>3, <1>4, <1>7, RefreshFrame
<1>8. CASE \E t \in Threads : UpdateData(t)
  BY <1>3, <1>8, CrawlFrame
<1>9. CASE \E w \in Workers : StartWorker(w) \/ StopWorker(w) \/ AutoUpdate(w)
  BY <1>3, <1>9, LoopFrame
<1> QED
  BY <1>2, <1>5, <1>6, <1>7, <1>8, <1>9 DEF Next, Environment

\* The invariant holds at the start,
LEMMA InvInit ==
  ASSUME SomePair, Init
  PROVE  IInv
<1>1. /\ \A p \in Pairs : rows[p] = {}
      /\ \A t \in Threads : call[t].stage = "none"
  BY Constants DEF Init
<1>2. Strict
  BY <1>1 DEF Strict, PrefixOK, BatchOK, WindowOK, Threads
<1> QED BY <1>2, BaseInit DEF IInv

\* and every step keeps it.
LEMMA InvStep ==
  ASSUME SomePair, OneContract, IInv, [Next]_vars
  PROVE  IInv'
<1>1. Base /\ TypeOK
  BY DEF IInv, Base
<1>2. Base'
  BY <1>1, BaseStep
<1>3. ASSUME used'.reorgs = 0
      PROVE  Strict'
  <2>1. used.reorgs = 0 /\ ~Reorg
    BY <1>1, <1>3, ReorgsStay
  <2>2. Strict
    BY <2>1 DEF IInv
  <2> QED BY <1>1, <2>1, <2>2, StrictStep
<1> QED BY <1>2, <1>3 DEF IInv

-----------------------------------------------------------------------------
\* On a chain that is not reorganised no row stands in the place of a log, so
\* that NoHoles and SummaryIsStored say that the log itself is stored.
NoConflicts == \A p \in Pairs : \A l \in chain[p] : ~Conflicts(p, l)

\* A log with a row of its key is stored, or refused for the row's price.
LEMMA KeyedIsStored ==
  ASSUME NEW p \in Pairs, TypeOK, NEW l \in chain[p], Keyed(rows[p], l)
  PROVE  l \in rows[p] \/ Conflicts(p, l)
<1>1. PICK r \in rows[p] : r.block = l.block /\ r.index = l.index
  BY DEF Keyed
<1>2. r \in Log /\ l \in Log
  BY Pieces
<1>3. CASE r.current = l.current
  <2>1. r = l
    BY <1>1, <1>2, <1>3 DEF Log
  <2> QED BY <2>1
<1>4. CASE r.current # l.current
  BY <1>1, <1>4 DEF Conflicts
<1> QED BY <1>3, <1>4

\* What the invariant says of the tables.
LEMMA IInvImplies ==
  ASSUME IInv
  PROVE  NoHoles /\ SummaryIsStored
<1>1. Base /\ TypeOK
  BY DEF IInv, Base
<1>2. NoHoles
  <2> SUFFICES ASSUME NEW p \in Pairs, NEW l \in chain[p], NEW r \in rows[p],
                      Precedes(l, r)
               PROVE  l \in rows[p] \/ Conflicts(p, l)
    BY DEF NoHoles
  <2>1. CASE used.reorgs = 0
    BY <2>1 DEF IInv, Strict, PrefixOK, Precedes
  <2>2. CASE used.reorgs # 0
    <3>1. l.block < r.block
      BY <2>2 DEF Precedes
    <3>2. Keyed(rows[p], l)
      BY <1>1, <3>1 DEF Base, StoredOK, Passed
    <3> QED BY <1>1, <3>2, KeyedIsStored
  <2> QED BY <2>1, <2>2
<1>3. SummaryIsStored
  <2> SUFFICES ASSUME NEW p \in Pairs, summary[p].has_data
               PROVE  /\ summary[p].max <= head
                      /\ \A l \in chain[p] : l.block < summary[p].max =>
                           l \in rows[p] \/ Conflicts(p, l)
    BY DEF SummaryIsStored
  <2>1. summary[p].max <= head /\ Passed(chain[p], rows[p], summary[p].max)
    BY <1>1 DEF Base, RowOK
  <2>2. ASSUME NEW l \in chain[p], l.block < summary[p].max
        PROVE  l \in rows[p] \/ Conflicts(p, l)
    <3>1. Keyed(rows[p], l)
      BY <2>1, <2>2 DEF Passed
    <3> QED BY <1>1, <3>1, KeyedIsStored
  <2> QED BY <2>1, <2>2
<1> QED BY <1>2, <1>3

\* On a chain that is not reorganised the order inside a block holds too.
LEMMA StrictHolds ==
  ASSUME NoReorgs, IInv
  PROVE  Base /\ Strict /\ NoConflicts
<1>1. used.reorgs = 0
  BY DEF IInv, Base, TypeOK, NoReorgs
<1>2. Base /\ Strict
  BY <1>1 DEF IInv
<1>3. NoConflicts
  BY <1>2 DEF Base, Strict, NoConflicts, Conflicts, ChainOK, PrefixOK
<1> QED BY <1>2, <1>3

\* No crawl leaves a hole in the Price table (NoHoles), for any number of
\* pairs, threads, blocks and reorganisations of the head: a log that precedes
\* a stored row is stored, or stands in conflict with a row of a reorganised
\* block.
THEOREM PricesHaveNoHoles ==
  ASSUME SomePair, OneContract
  PROVE  Spec => []NoHoles
<1>1. IInv => NoHoles
  BY IInvImplies
<1> QED BY <1>1, InvInit, InvStep, PTL DEF Spec

\* Without reorganisations no row contradicts the chain, so that the log itself
\* is stored.
THEOREM RowsAreOnTheChain ==
  ASSUME SomePair, NoReorgs, OneContract
  PROVE  Spec => []NoConflicts
<1>1. IInv => NoConflicts
  BY StrictHolds
<1> QED BY <1>1, InvInit, InvStep, PTL DEF Spec

\* Whatever threads race on it, a Summary row never reports blocks whose logs
\* are not stored or refused (SummaryIsStored), reorganised heads included.
THEOREM SummaryNeverOverstates ==
  ASSUME SomePair, OneContract
  PROVE  Spec => []SummaryIsStored
<1>1. IInv => SummaryIsStored
  BY IInvImplies
<1> QED BY <1>1, InvInit, InvStep, PTL DEF Spec

-----------------------------------------------------------------------------
(* The crawl implements PrefixCopy, with the Price table as the copy.      *)

\* A mined block only adds logs after those of the chain.
LEMMA MineExtends ==
  ASSUME IInv, Mine
  PROVE  Copy!Extend
<1>1. PICK c \in [Pairs -> BlockContents] :
        chain' = [p \in Pairs |-> chain[p] \cup LogsAt(head + 1, c[p])]
  BY DEF Mine
<1>2. head \in Nat
  BY BlocksAssumption DEF IInv, Base, TypeOK
<1>3. ASSUME NEW p \in Pairs
      PROVE  /\ chain[p] \subseteq chain'[p]
             /\ \A l \in chain'[p] \ chain[p], k \in chain[p] : Copy!Precedes(k, l)
  <2>1. chain'[p] = chain[p] \cup LogsAt(head + 1, c[p])
    BY <1>1
  <2>2. \A l \in LogsAt(head + 1, c[p]) : l.block = head + 1
    BY <1>2, LogsAtType
  <2>3. \A k \in chain[p] : k \in Log /\ k.block <= head
    BY DEF IInv, Base, TypeOK, ChainOK
  <2>4. \A k \in chain[p] : k.block < head + 1
    BY <1>2, <2>3 DEF Log
  <2> QED BY <2>1, <2>2, <2>4 DEF Copy!Precedes
<1>4. rows' = rows
  BY DEF Mine
<1> QED BY <1>3, <1>4 DEF Copy!Extend

\* An insert of any thread takes the first log that the table lacks, or one
\* that it has already.
LEMMA InsertCopies ==
  ASSUME NoReorgs, IInv, NEW t \in Threads, InsertPrice(t)
  PROVE  Copy!Next \/ UNCHANGED <<chain, rows>>
<1> DEFINE c == call[t]
           p == c.pair
<1>1. c \in Call /\ p \in Pairs /\ chain' = chain
  BY DEF IInv, Base, TypeOK, Call, InsertPrice
<1>2. PICK l \in c.batch :
        /\ \A k \in c.batch : Before(l, k)
        /\ \/ rows' = [rows EXCEPT ![p] = @ \cup {l}]
           \/ rows' = rows
  BY DEF InsertPrice
<1>3. CASE rows' = rows
  BY <1>1, <1>3
<1>4. CASE rows' = [rows EXCEPT ![p] = @ \cup {l}] /\ l \in rows[p]
  <2>1. rows \in [Pairs -> SUBSET Log] /\ rows[p] \cup {l} = rows[p]
    BY <1>4 DEF IInv, Base, TypeOK
  <2> QED BY <1>1, <1>4, <2>1
<1>5. CASE rows' = [rows EXCEPT ![p] = @ \cup {l}] /\ l \notin rows[p]
  <2>1. BatchOK(chain[p], rows[p], c) /\ c.stage = "insert"
    BY StrictHolds DEF Strict, InsertPrice
  <2>2. /\ c.batch \subseteq chain[p]
        /\ \A k \in chain[p] : Before(k, l) => k \in rows[p] \cup c.batch
    BY <2>1 DEF BatchOK
  <2>3. chain[p] \subseteq Log
    BY <1>1 DEF IInv, Base, TypeOK
  <2>4. ASSUME NEW k \in chain[p], Copy!Precedes(k, l)
        PROVE  k \in rows[p]
    <3>1. Before(k, l) /\ ~Before(l, k)
      BY <2>2, <2>3, <2>4 DEF Copy!Precedes, Before, Log
    <3> QED BY <1>2, <2>2, <3>1
  <2>5. Copy!CopyNext(p)
    BY <1>1, <1>5, <2>2, <2>4 DEF Copy!CopyNext
  <2> QED BY <1>1, <2>5 DEF Copy!Next
<1> QED BY <1>2, <1>3, <1>4, <1>5

\* Every step of the crawl is a step of PrefixCopy or changes neither table nor
\* chain.
LEMMA CopyStep ==
  ASSUME NoReorgs, IInv, [Next]_vars
  PROVE  Copy!Next \/ UNCHANGED <<chain, rows>>
<1>1. ~Reorg
  BY DEF Reorg, NoReorgs, IInv, Base, TypeOK
<1>2. CASE UNCHANGED vars
  BY <1>2 DEF vars
<1>3. CASE Mine
  BY <1>3, MineExtends DEF Copy!Next
<1>4. CASE NodeError
  BY <1>4 DEF NodeError
<1>5. CASE Operator
  BY <1>5 DEF Operator, Respond, Submit
<1>6. CASE AllOracle
  <2>1. ASSUME NEW p \in Pairs, RefreshRange(p) PROVE UNCHANGED <<chain, rows>>
    BY <2>1 DEF RefreshRange
  <2>2. CASE RefreshBegin \/ RefreshCount \/ RefreshSave
    BY <2>2 DEF RefreshBegin, RefreshCount, RefreshSave
  <2> QED BY <1>6, <2>1, <2>2 DEF AllOracle
<1>7. ASSUME NEW t \in Threads, UpdateData(t)
      PROVE  Copy!Next \/ UNCHANGED <<chain, rows>>
  <2>1. CASE Fetch(t)
    BY <2>1 DEF Fetch
  <2>2. CASE InsertPrice(t)
    BY <2>2, InsertCopies
  <2> QED BY <1>7, <2>1, <2>2 DEF UpdateData
<1>8. ASSUME NEW w \in Workers, StartWorker(w) \/ StopWorker(w) \/ AutoUpdate(w)
      PROVE  UNCHANGED <<chain, rows>>
  <2>1. CASE StartWorker(w) \/ StopWorker(w)
    BY <2>1 DEF StartWorker, StopWorker
  <2>2. CASE WhileLoop(w) \/ EndFor(w)
    BY <2>2 DEF WhileLoop, EndFor
  <2>3. CASE SaveSummary(w)
    BY <2>3 DEF SaveSummary
  <2>4. CASE WorkerDies(w)
    BY <2>4 DEF WorkerDies
  <2>5. ASSUME NEW p \in Pairs, NextPair(w, p) PROVE UNCHANGED <<chain, rows>>
    BY <2>5 DEF NextPair
  <2> QED BY <1>8, <2>1, <2>2, <2>3, <2>4, <2>5 DEF AutoUpdate
<1> QED
  BY <1>1, <1>2, <1>3, <1>4, <1>5, <1>6, <1>7, <1>8 DEF Next, Environment

\* Whatever threads insert, from whatever windows, and wherever the process
\* exits, the Price table copies the chain in order (PricesFollowTheChain):
\* update_data, run by all, implements PrefixCopy.
THEOREM CrawlCopiesTheChain ==
  ASSUME SomePair, NoReorgs, OneContract
  PROVE  Spec => PricesFollowTheChain
<1>1. Init => Copy!Init
  BY DEF Init, Copy!Init
<1>2. IInv /\ [Next]_vars => [Copy!Next]_<<chain, rows>>
  BY CopyStep
<1> QED
  BY <1>1, <1>2, InvInit, InvStep, PTL DEF Spec, PricesFollowTheChain, Copy!Spec, Copy!copyVars

-----------------------------------------------------------------------------
(* With the block prices beside it, and a summary page that never reads the *)
(* bounds of a half inserted block, the crawl is what Granularity takes it  *)
(* for. What a Summary row reports is then whole, its last block included.  *)

\* The logs a node can come to hold.
Minable == UNION {LogsAt(b, c) : b \in StartBlock..MaxBlock, c \in BlockContents}

\* A Summary row, in the table or in a snapshot of it: its min is the first
\* stored block, and everything up to its max is stored.
ReportOK(C, R, h, row) ==
  row.has_data => /\ \E l \in R : l.block = row.min
                  /\ \A l \in R : row.min <= l.block
                  /\ row.min <= row.max /\ row.max <= h
                  /\ Covered(C, R, row.max + 1)

\* What the summary page has read of its pair: nothing while there is no row.
QuietRead ==
  LET p == refresh.pair
      row == refresh.row
  IN refresh.stage \in {"count", "save"} =>
       /\ rows[p] = {} => row.min = -1 /\ row.max = -1 /\ ~row.has_data
       /\ rows[p] # {} => /\ ReportOK(chain[p], rows[p], head, Shown(row))
                          /\ refresh.stage = "save" => row.has_data

WholeInv ==
  /\ \A p \in Pairs : chain[p] \subseteq Minable
  /\ \A p \in Pairs : ReportOK(chain[p], rows[p], head, summary[p])
  /\ \A w \in Workers, p \in Pairs : ReportOK(chain[p], rows[p], head, loop[w].snap[p])
  /\ \A w \in Workers : call[w].stage # "none" =>
       loop[w].snap[call[w].pair].max <= call[w].to
  /\ QuietRead

\* The logs of the chain can all come from the node's blocks at the start.
LEMMA WholeInit ==
  ASSUME SomePair, Init
  PROVE  WholeInv
<1>1. PICK c \in [Pairs -> [StartBlock..InitialHead -> BlockContents]] :
        chain = [p \in Pairs |->
                   UNION {LogsAt(b, c[p][b]) : b \in StartBlock..InitialHead}]
  BY DEF Init
<1>2. ASSUME NEW p \in Pairs, NEW l \in chain[p]
      PROVE  l \in Minable
  <2>1. PICK b \in StartBlock..InitialHead : l \in LogsAt(b, c[p][b])
    BY <1>1, <1>2
  <2>2. b \in StartBlock..MaxBlock /\ c[p][b] \in BlockContents
    BY <1>2, BlocksAssumption
  <2> QED BY <2>1, <2>2 DEF Minable
<1>3. /\ \A p \in Pairs : ~summary[p].has_data
      /\ \A w \in Workers, p \in Pairs : ~loop[w].snap[p].has_data
      /\ \A w \in Workers : call[w].stage = "none"
      /\ refresh.stage = "idle"
  BY Constants DEF Init, NoLoop, Threads
<1> QED BY <1>2, <1>3 DEF WholeInv, ReportOK, QuietRead

\* The chain grows above the head and rows are only added.
Grows(C, R, h, C2, R2, h2) ==
  /\ h \in Int /\ h2 \in Int /\ h <= h2
  /\ C \subseteq Log /\ C2 \subseteq Log
  /\ C \subseteq C2 /\ \A l \in C2 \ C : l.block > h
  /\ R \subseteq R2

\* Every step lets them grow so, while nothing is reorganised.
LEMMA TablesGrow ==
  ASSUME IInv, IInv', NoReorgs, [Next]_vars
  PROVE  \A p \in Pairs : Grows(chain[p], rows[p], head, chain'[p], rows'[p], head')
<1> SUFFICES ASSUME NEW p \in Pairs
             PROVE  Grows(chain[p], rows[p], head, chain'[p], rows'[p], head')
  OBVIOUS
<1>1. /\ chain[p] \subseteq Log /\ chain'[p] \subseteq Log
      /\ head \in Nat /\ head' \in Nat
  BY BlocksAssumption DEF IInv, Base, TypeOK
<1>2. CASE Mine
  <2>1. PICK c \in [Pairs -> BlockContents] :
          chain' = [q \in Pairs |-> chain[q] \cup LogsAt(head + 1, c[q])]
    BY <1>2 DEF Mine
  <2>2. head' = head + 1 /\ rows' = rows /\ head + 1 \in Nat
    BY <1>1, <1>2 DEF Mine
  <2>3. \A l \in LogsAt(head + 1, c[p]) : l.block = head + 1
    BY <2>2, LogsAtType
  <2>4. chain'[p] = chain[p] \cup LogsAt(head + 1, c[p])
    BY <2>1
  <2> QED BY <1>1, <2>2, <2>3, <2>4 DEF Grows
<1>3. ASSUME NEW t \in Threads, InsertPrice(t)
      PROVE  Grows(chain[p], rows[p], head, chain'[p], rows'[p], head')
  <2>1. UNCHANGED <<head, chain>> /\ rows \in [Pairs -> SUBSET Log]
    BY <1>3 DEF InsertPrice, IInv, Base, TypeOK
  <2>2. rows[p] \subseteq rows'[p]
    <3>1. \/ rows' = rows
          \/ \E l \in call[t].batch : rows' = [rows EXCEPT ![call[t].pair] = @ \cup {l}]
      BY <1>3 DEF InsertPrice
    <3> QED BY <2>1, <3>1
  <2> QED BY <1>1, <2>1, <2>2 DEF Grows
<1>4. ASSUME UNCHANGED <<head, chain, rows>>
      PROVE  Grows(chain[p], rows[p], head, chain'[p], rows'[p], head')
  BY <1>1, <1>4 DEF Grows
<1>5. ~Reorg
  BY DEF Reorg, NoReorgs, IInv, Base, TypeOK
<1>6. CASE Operator
  BY <1>4, <1>6, OperatorFrame
<1>7. CASE AllOracle
  BY <1>4, <1>7, RefreshFrame
<1>8. CASE \E w \in Workers : StartWorker(w) \/ StopWorker(w) \/ AutoUpdate(w)
  BY <1>4, <1>8, LoopFrame
<1>9. CASE UNCHANGED vars
  BY <1>4, <1>9 DEF vars
<1>10. ASSUME NEW t \in Threads, Fetch(t)
       PROVE  Grows(chain[p], rows[p], head, chain'[p], rows'[p], head')
  BY <1>4, <1>10 DEF Fetch
<1>11. CASE NodeError
  BY <1>4, <1>11 DEF NodeError
<1> QED
  BY <1>2, <1>3, <1>5, <1>6, <1>7, <1>8, <1>9, <1>10, <1>11
     DEF Next, Environment, UpdateData

\* A row that reports whole blocks still does when chain and table grow: what
\* comes is past what it reports, and past the first stored block.
LEMMA ReportGrows ==
  ASSUME NEW C, NEW R, NEW h, NEW C2, NEW R2, NEW h2, NEW row \in SummaryRow,
         Grows(C, R, h, C2, R2, h2), ChainOK(C, h), PrefixOK(C, R), R2 \subseteq C2,
         ReportOK(C, R, h, row)
  PROVE  ReportOK(C2, R2, h2, row)
<1> SUFFICES ASSUME row.has_data
             PROVE  /\ \E l \in R2 : l.block = row.min
                    /\ \A l \in R2 : row.min <= l.block
                    /\ row.min <= row.max /\ row.max <= h2
                    /\ Covered(C2, R2, row.max + 1)
  BY DEF ReportOK
<1>1. /\ \A l \in R : row.min <= l.block
      /\ row.min <= row.max /\ row.max <= h
      /\ Covered(C, R, row.max + 1)
      /\ row.min \in Int /\ row.max \in Int
  BY DEF ReportOK, SummaryRow
<1>2. PICK first \in R : first.block = row.min
  BY DEF ReportOK
<1>3. /\ h \in Int /\ h2 \in Int /\ h <= h2 /\ C2 \subseteq Log
      /\ R \subseteq R2 /\ R \subseteq C /\ \A l \in C2 \ C : l.block > h
  BY DEF Grows, PrefixOK
<1>4. ASSUME NEW l \in R2
      PROVE  row.min <= l.block
  <2>1. l \in C2 /\ l.block \in Int
    BY <1>3 DEF Log
  <2>2. CASE l \in C
    <3>1. CASE l.block < first.block
      BY <1>1, <1>2, <2>2, <3>1 DEF PrefixOK, Before
    <3> QED BY <1>1, <1>2, <2>1, <3>1
  <2>3. CASE l \notin C
    BY <1>1, <1>3, <2>1, <2>3
  <2> QED BY <2>2, <2>3
<1>5. Covered(C2, R2, row.max + 1)
  BY <1>1, <1>3 DEF Covered, Log
<1> QED BY <1>1, <1>2, <1>3, <1>4, <1>5

\* What the loops' snapshots and the Summary rows report is whole after a step
\* that leaves them with reports that were whole before.
LEMMA ReportStep ==
  ASSUME IInv, IInv', NoReorgs, [Next]_vars
  PROVE  \A p \in Pairs, row \in SummaryRow :
           ReportOK(chain[p], rows[p], head, row) =>
             ReportOK(chain'[p], rows'[p], head', row)
<1> SUFFICES ASSUME NEW p \in Pairs, NEW row \in SummaryRow,
                    ReportOK(chain[p], rows[p], head, row)
             PROVE  ReportOK(chain'[p], rows'[p], head', row)
  OBVIOUS
<1>1. Grows(chain[p], rows[p], head, chain'[p], rows'[p], head')
  BY TablesGrow
<1>2. ChainOK(chain[p], head) /\ PrefixOK(chain[p], rows[p])
  BY StrictHolds DEF Base, Strict
<1>3. rows'[p] \subseteq chain'[p]
  <2>1. used'.reorgs = 0
    BY DEF IInv, Base, TypeOK, NoReorgs
  <2>2. Strict'
    BY <2>1 DEF IInv
  <2> QED BY <2>2 DEF Strict, PrefixOK
<1> QED BY <1>1, <1>2, <1>3, ReportGrows

\* A mined block holds logs the node can come to hold.
LEMMA MinableStep ==
  ASSUME IInv, WholeInv, NoReorgs, [Next]_vars
  PROVE  \A p \in Pairs : chain'[p] \subseteq Minable
<1>1. CASE chain' = chain
  BY <1>1 DEF WholeInv
<1>2. CASE Mine
  <2> SUFFICES ASSUME NEW p \in Pairs, NEW l \in chain'[p]
               PROVE  l \in Minable
    OBVIOUS
  <2>1. PICK c \in [Pairs -> BlockContents] :
          chain' = [q \in Pairs |-> chain[q] \cup LogsAt(head + 1, c[q])]
    BY <1>2 DEF Mine
  <2>2. l \in chain[p] \/ l \in LogsAt(head + 1, c[p])
    BY <2>1
  <2>3. head + 1 \in StartBlock..MaxBlock /\ c[p] \in BlockContents
    BY <1>2, BlocksAssumption DEF Mine, IInv, Base, TypeOK
  <2>4. LogsAt(head + 1, c[p]) \subseteq Minable
    BY <2>3 DEF Minable
  <2> QED BY <2>2, <2>4 DEF WholeInv
<1>3. ~Reorg
  BY DEF Reorg, NoReorgs, IInv, Base, TypeOK
<1>4. CASE Operator
  BY <1>1, <1>4, OperatorFrame
<1>5. CASE AllOracle
  BY <1>1, <1>5, RefreshFrame
<1>6. CASE \E w \in Workers : StartWorker(w) \/ StopWorker(w) \/ AutoUpdate(w)
  BY <1>1, <1>6, LoopFrame
<1>7. CASE UNCHANGED vars \/ NodeError
  BY <1>1, <1>7 DEF vars, NodeError
<1>8. CASE \E t \in Threads : UpdateData(t)
  BY <1>1, <1>8 DEF UpdateData, Fetch, InsertPrice
<1> QED
  BY <1>2, <1>3, <1>4, <1>5, <1>6, <1>7, <1>8 DEF Next, Environment

\* A step that keeps or replaces reports by whole ones keeps the part of the
\* invariant about tables, snapshots and windows.
WholeRows ==
  /\ \A p \in Pairs : ReportOK(chain[p], rows[p], head, summary[p])
  /\ \A w \in Workers, p \in Pairs : ReportOK(chain[p], rows[p], head, loop[w].snap[p])
  /\ \A w \in Workers : call[w].stage # "none" =>
       loop[w].snap[call[w].pair].max <= call[w].to

\* A thread's own steps: a snapshot is the table's rows, a window ends past the
\* row it came from, and a saved row reports the window that was inserted.
LEMMA LoopReports ==
  ASSUME SomePair, IInv, IInv', WholeInv, NoReorgs, NEW w \in Workers,
         StartWorker(w) \/ StopWorker(w) \/ AutoUpdate(w)
  PROVE  WholeRows'
<1>1. /\ UNCHANGED <<head, chain, rows>>
      /\ \A v \in Workers \ {w} : loop'[v] = loop[v] /\ call'[v] = call[v]
  <2>1. /\ loop \in [Workers -> Loop] /\ call \in [Threads -> Call]
        /\ Workers \subseteq Threads
    BY DEF IInv, Base, TypeOK, Threads
  <2>2. CASE StartWorker(w) \/ StopWorker(w) \/ WhileLoop(w) \/ EndFor(w)
    BY <2>1, <2>2 DEF StartWorker, StopWorker, WhileLoop, EndFor
  <2>3. CASE SaveSummary(w) \/ WorkerDies(w)
    BY <2>1, <2>3 DEF SaveSummary, WorkerDies
  <2>4. ASSUME NEW p \in Pairs, NextPair(w, p) PROVE <1>1
    BY <2>1, <2>4 DEF NextPair
  <2> QED BY <2>2, <2>3, <2>4 DEF AutoUpdate
<1>2. /\ w \in Threads /\ loop[w] \in Loop /\ call[w] \in Call
      /\ loop \in [Workers -> Loop] /\ call \in [Threads -> Call]
      /\ summary \in [Pairs -> SummaryRow] /\ head \in Int
      /\ call[w].pair \in Pairs
  BY Pieces DEF IInv, Base, TypeOK
<1>3. call[w].stage # "none" => loop[w].pc = "call"
  BY DEF IInv, Base, WorkerInv
<1>4. /\ \A p \in Pairs : ReportOK(chain[p], rows[p], head, NoLoop.snap[p])
      /\ NoCall.stage = "none"
  BY Constants DEF NoLoop, ReportOK
<1>5. /\ \A p \in Pairs : ReportOK(chain[p], rows[p], head, summary[p])
      /\ \A p \in Pairs : ReportOK(chain[p], rows[p], head, loop[w].snap[p])
      /\ call[w].stage # "none" => loop[w].snap[call[w].pair].max <= call[w].to
  BY DEF WholeInv
<1>6. /\ \A p \in Pairs : ReportOK(chain[p], rows[p], head, summary'[p])
      /\ \A p \in Pairs : ReportOK(chain[p], rows[p], head, loop'[w].snap[p])
      /\ call'[w].stage # "none" => loop'[w].snap[call'[w].pair].max <= call'[w].to
  <2>1. CASE StopWorker(w)
    <3>1. loop'[w].snap = loop[w].snap /\ call' = call /\ summary' = summary
      BY <1>2, <2>1 DEF StopWorker, Loop
    <3> QED BY <1>5, <3>1
  <2>2. CASE StartWorker(w) \/ WhileLoop(w) \/ EndFor(w)
    <3>1. /\ call[w].stage = "none" /\ call' = call /\ summary' = summary
      BY <1>3, <2>2 DEF StartWorker, WhileLoop, EndFor
    <3>2. \/ loop'[w].snap = NoLoop.snap
          \/ loop'[w].snap = summary
          \/ loop'[w].snap = loop[w].snap
      <4>1. CASE StartWorker(w)
        BY <1>2, <4>1 DEF StartWorker, NoLoop
      <4>2. CASE WhileLoop(w)
        <5>1. CASE loop[w].do_run
          BY <1>2, <4>2, <5>1 DEF WhileLoop, Loop
        <5>2. CASE ~loop[w].do_run
          BY <1>2, <4>2, <5>2 DEF WhileLoop
        <5> QED BY <5>1, <5>2
      <4>3. CASE EndFor(w)
        BY <1>2, <4>3 DEF EndFor, Loop
      <4> QED BY <2>2, <4>1, <4>2, <4>3
    <3> QED BY <1>4, <1>5, <3>1, <3>2
  <2>3. CASE WorkerDies(w)
    <3>1. summary' = summary
      BY <2>3 DEF WorkerDies
    <3>2. loop'[w] = NoLoop
      BY <1>2, <2>3 DEF WorkerDies
    <3>3. call'[w] = NoCall
      BY <1>2, <2>3 DEF WorkerDies
    <3> QED BY <1>4, <1>5, <3>1, <3>2, <3>3
  <2>4. CASE SaveSummary(w)
    <3> DEFINE p == call[w].pair
               row == loop[w].snap[p]
    <3>1. /\ summary' = [summary EXCEPT ![p] = [row EXCEPT !.max = call[w].to]]
          /\ loop'[w].snap = loop[w].snap /\ call'[w] = NoCall
          /\ call[w].stage = "done"
      BY <1>2, <2>4 DEF SaveSummary, Loop
    <3>2. /\ WorkOK(chain[p], rows[p], head, row, call[w]) /\ row \in SummaryRow
          /\ WindowOK(chain[p], rows[p], call[w])
      BY <1>2, StrictHolds, Pieces DEF Base, WorkerInv, Strict
    <3>3. row.has_data /\ call[w].to <= head /\ Covered(chain[p], rows[p], call[w].to + 1)
      BY <3>1, <3>2 DEF WorkOK, WindowOK
    <3>4. /\ \E l \in rows[p] : l.block = row.min
          /\ \A l \in rows[p] : row.min <= l.block
          /\ row.min <= row.max
      BY <1>2, <1>5, <3>3 DEF ReportOK
    <3> DEFINE saved == [row EXCEPT !.max = call[w].to]
    <3>5. saved.has_data = row.has_data /\ saved.min = row.min /\ saved.max = call[w].to
      BY <3>2 DEF SummaryRow
    <3>6. summary' = [summary EXCEPT ![p] = saved]
      BY <3>1
    <3>7. summary \in [Pairs -> SummaryRow] /\ p \in Pairs
      BY <1>2
    <3>8. summary'[p] = saved /\ \A q \in Pairs \ {p} : summary'[q] = summary[q]
      <4> HIDE DEF saved, p
      <4> QED BY <3>6, <3>7
    <3>9. /\ summary'[p].has_data = row.has_data /\ summary'[p].min = row.min
          /\ summary'[p].max = call[w].to
          /\ \A q \in Pairs \ {p} : summary'[q] = summary[q]
      BY <3>5, <3>8
    <3>10. row.min <= call[w].to
      <4>1. row.max <= call[w].to
        <5>1. call[w].stage # "none"
          BY <2>4 DEF SaveSummary
        <5> QED BY <1>5, <5>1
      <4> QED BY <1>2, <3>2, <3>4, <4>1 DEF SummaryRow, Call
    <3>11. ReportOK(chain[p], rows[p], head, summary'[p])
      <4> HIDE DEF p, row, saved
      <4> QED BY <3>3, <3>4, <3>9, <3>10 DEF ReportOK
    <3>12. \A q \in Pairs : ReportOK(chain[q], rows[q], head, summary'[q])
      <4> HIDE DEF p, row, saved
      <4> QED BY <1>5, <3>9, <3>11
    <3>13. loop'[w].snap = loop[w].snap /\ call'[w].stage = "none"
      BY <1>4, <3>1
    <3> HIDE DEF p, row, saved
    <3> QED BY <1>5, <3>12, <3>13
  <2>5. ASSUME NEW p \in Pairs, NextPair(w, p)
        PROVE  <1>6
    <3> DEFINE row == loop[w].snap[p]
    <3>1. loop'[w].snap = loop[w].snap /\ summary' = summary
      <4>1. \/ loop' = [loop EXCEPT ![w].pc = "call"]
            \/ loop' = [loop EXCEPT ![w].todo = @ \ {p}]
        BY <2>5 DEF NextPair
      <4>2. loop'[w].snap = loop[w].snap
        BY <1>2, <4>1 DEF Loop
      <4> QED BY <2>5, <4>2 DEF NextPair
    <3>2. \/ call' = call
          \/ /\ row.max < head
             /\ call'[w] = Entering(p, row.max, WindowTo(row), FALSE)
      BY <1>2, <2>5 DEF NextPair
    <3>3. row \in SummaryRow
      BY Pieces DEF IInv, Base
    <3>4. ASSUME row.max < head
          PROVE  row.max <= WindowTo(row)
      BY <1>2, <3>3, <3>4, WindowAssumption DEF WindowTo, Lesser, SummaryRow
    <3>5. call'[w].stage # "none" => loop[w].snap[call'[w].pair].max <= call'[w].to
      BY <1>5, <3>2, <3>4 DEF Entering
    <3> QED BY <1>5, <3>1, <3>5
  <2> QED BY <2>1, <2>2, <2>3, <2>4, <2>5 DEF AutoUpdate
<1>7. \A v \in Workers \ {w} :
        /\ \A p \in Pairs : ReportOK(chain[p], rows[p], head, loop'[v].snap[p])
        /\ call'[v].stage # "none" => loop'[v].snap[call'[v].pair].max <= call'[v].to
  BY <1>1 DEF WholeInv
<1> QED BY <1>1, <1>6, <1>7 DEF WholeRows

\* The other steps: only the summary page saves a row, what it has read.
LEMMA OtherReports ==
  ASSUME SomePair, IInv, IInv', WholeInv, NoReorgs, [Next]_vars,
         ~\E w \in Workers : StartWorker(w) \/ StopWorker(w) \/ AutoUpdate(w)
  PROVE  WholeRows'
<1> USE ReportStep
<1>1. /\ \A p \in Pairs : summary[p] \in SummaryRow
      /\ \A w \in Workers : w \in Threads /\ call[w] \in Call
      /\ \A w \in Workers, p \in Pairs : loop[w].snap[p] \in SummaryRow
      /\ summary \in [Pairs -> SummaryRow] /\ call \in [Threads -> Call]
  BY Pieces DEF IInv, Base, TypeOK
<1>2. ASSUME summary' = summary, loop' = loop,
             \A w \in Workers : /\ call'[w].pair = call[w].pair
                                /\ call'[w].to = call[w].to
                                /\ call'[w].stage # "none" => call[w].stage # "none"
      PROVE  WholeRows'
  <2>1. \A p \in Pairs : ReportOK(chain'[p], rows'[p], head', summary'[p])
    BY <1>1, <1>2 DEF WholeInv
  <2>2. \A w \in Workers, p \in Pairs :
          ReportOK(chain'[p], rows'[p], head', loop'[w].snap[p])
    BY <1>1, <1>2 DEF WholeInv
  <2>3. \A w \in Workers : call'[w].stage # "none" =>
          loop'[w].snap[call'[w].pair].max <= call'[w].to
    BY <1>2 DEF WholeInv
  <2> QED BY <2>1, <2>2, <2>3 DEF WholeRows
<1>3. CASE UNCHANGED vars \/ Mine
  BY <1>2, <1>3 DEF vars, Mine
<1>4. ~Reorg
  BY DEF Reorg, NoReorgs, IInv, Base, TypeOK
<1>5. CASE NodeError
  <2>1. /\ \A w \in Workers, p \in Pairs : ~loop'[w].snap[p].has_data
        /\ \A w \in Workers : call'[w].stage = "none"
        /\ summary' = summary
    BY <1>1, <1>5, Constants DEF NodeError, NoLoop
  <2>2. \A p \in Pairs : ReportOK(chain'[p], rows'[p], head', summary'[p])
    BY <1>1, <2>1 DEF WholeInv
  <2> QED BY <2>1, <2>2 DEF WholeRows, ReportOK
<1>6. ASSUME NEW c \in Callers,
             \/ Respond(c)
             \/ \E p \in Pairs, from, to \in StartBlock..MaxBlock, replace \in BOOLEAN :
                  Submit(c, p, from, to, replace)
      PROVE  WholeRows'
  <2>1. /\ summary' = summary /\ loop' = loop
        /\ \A w \in Workers : call'[w] = call[w]
    BY <1>1, <1>6, ActorsAssumption DEF Respond, Submit
  <2> QED BY <1>2, <2>1
<1>7. ASSUME NEW t \in Threads, UpdateData(t)
      PROVE  WholeRows'
  <2>1. summary' = summary /\ loop' = loop
    BY <1>7 DEF UpdateData, Fetch, InsertPrice
  <2>2. /\ call[t].stage # "none" /\ call[t] \in Call
        /\ \/ \E b, s : call' = [call EXCEPT ![t].batch = b, ![t].stage = s]
           \/ \E s : call' = [call EXCEPT ![t].stage = s]
    BY <1>1, <1>7 DEF UpdateData, Fetch, InsertPrice
  <2>3. /\ call'[t].pair = call[t].pair /\ call'[t].to = call[t].to
        /\ \A w \in Threads \ {t} : call'[w] = call[w]
    <3>1. \E r : call' = [call EXCEPT ![t] = r] /\ r.pair = call[t].pair /\ r.to = call[t].to
      <4>1. CASE \E b, s : call' = [call EXCEPT ![t].batch = b, ![t].stage = s]
        <5>1. PICK b, s : call' = [call EXCEPT ![t].batch = b, ![t].stage = s]
          BY <4>1
        <5> DEFINE r == [call[t] EXCEPT !.batch = b, !.stage = s]
        <5>2. call' = [call EXCEPT ![t] = r]
          BY <5>1
        <5>3. r.pair = call[t].pair /\ r.to = call[t].to
          BY <2>2 DEF Call
        <5> QED BY <5>2, <5>3
      <4>2. CASE \E s : call' = [call EXCEPT ![t].stage = s]
        <5>1. PICK s : call' = [call EXCEPT ![t].stage = s]
          BY <4>2
        <5> DEFINE r == [call[t] EXCEPT !.stage = s]
        <5>2. call' = [call EXCEPT ![t] = r]
          BY <5>1
        <5>3. r.pair = call[t].pair /\ r.to = call[t].to
          BY <2>2 DEF Call
        <5> QED BY <5>2, <5>3
      <4> QED BY <2>2, <4>1, <4>2
    <3>2. t \in DOMAIN call
      BY <1>1
    <3> QED BY <1>1, <3>1, <3>2
  <2> QED BY <1>1, <1>2, <2>1, <2>2, <2>3
<1>8. CASE AllOracle
  <2>1. UNCHANGED <<loop, call>>
    BY <1>8, RefreshFrame
  <2>2. CASE summary' = summary
    BY <1>2, <2>1, <2>2
  <2>3. CASE RefreshSave
    <3> DEFINE p == refresh.pair
    <3>1. summary' = [summary EXCEPT ![p] = refresh.row] /\ refresh.stage = "save"
      BY <2>3 DEF RefreshSave
    <3>2. p \in Pairs /\ refresh.row \in SummaryRow
      BY Pieces DEF IInv, Base
    <3>3. /\ rows[p] = {} => ~refresh.row.has_data
          /\ rows[p] # {} => ReportOK(chain[p], rows[p], head, Shown(refresh.row))
      BY <3>1 DEF WholeInv, QuietRead
    <3>4. /\ Shown(refresh.row).min = refresh.row.min
          /\ Shown(refresh.row).max = refresh.row.max
          /\ Shown(refresh.row).has_data
      BY <3>2 DEF Shown, SummaryRow
    <3>5. ReportOK(chain[p], rows[p], head, refresh.row)
      BY <3>3, <3>4 DEF ReportOK
    <3>6. \A q \in Pairs : ReportOK(chain[q], rows[q], head, summary'[q])
      BY <1>1, <3>1, <3>2, <3>5 DEF WholeInv
    <3>7. \A q \in Pairs : summary'[q] \in SummaryRow
      BY <1>1, <3>1, <3>2
    <3>8. \A q \in Pairs : ReportOK(chain'[q], rows'[q], head', summary'[q])
      BY <3>6, <3>7
    <3>9. \A w \in Workers, q \in Pairs :
            ReportOK(chain'[q], rows'[q], head', loop'[w].snap[q])
      BY <1>1, <2>1 DEF WholeInv
    <3> QED BY <2>1, <3>8, <3>9 DEF WholeRows, WholeInv
  <2> QED BY <1>8, <2>2, <2>3, RefreshFrame
<1> QED
  BY <1>3, <1>4, <1>5, <1>6, <1>7, <1>8 DEF Next, Environment, Operator

\* What the summary page has read stays whole while it waits; no pair gets its
\* first row meanwhile.
LEMMA WaitingRead ==
  ASSUME SomePair, IInv, IInv', WholeInv, NoReorgs, [Next]_vars, refresh' = refresh
  PROVE  QuietRead'
<1> DEFINE p == refresh.pair
           row == refresh.row
<1>1. SUFFICES ASSUME refresh.stage \in {"count", "save"}
               PROVE  /\ rows'[p] = {} => row.min = -1 /\ row.max = -1 /\ ~row.has_data
                      /\ rows'[p] # {} =>
                           /\ ReportOK(chain'[p], rows'[p], head', Shown(row))
                           /\ refresh.stage = "save" => row.has_data
  BY DEF QuietRead
<1>2. /\ p \in Pairs /\ row \in SummaryRow /\ Shown(row) \in SummaryRow
      /\ rows \in [Pairs -> SUBSET Log]
  BY Pieces DEF IInv, Base, TypeOK
<1>3. /\ rows[p] = {} => row.min = -1 /\ row.max = -1 /\ ~row.has_data
      /\ rows[p] # {} => /\ ReportOK(chain[p], rows[p], head, Shown(row))
                         /\ refresh.stage = "save" => row.has_data
  BY <1>1 DEF WholeInv, QuietRead
<1>4. CASE rows[p] # {}
  <2>1. rows[p] \subseteq rows'[p]
    BY <1>2, TablesGrow DEF Grows
  <2>2. ReportOK(chain'[p], rows'[p], head', Shown(row))
    BY <1>2, <1>3, <1>4, ReportStep
  <2> QED BY <1>3, <1>4, <2>1, <2>2
<1>5. CASE rows[p] = {}
  <2>1. \A t \in Threads : ~Crawling(t, p)
    BY <1>1, <1>2, <1>5 DEF IInv, Base, FirstRowInv
  <2>2. ASSUME NEW t \in Threads, InsertPrice(t)
        PROVE  rows'[p] = rows[p]
    <3>1. call[t].pair # p
      BY <2>1, <2>2 DEF Crawling, InsertPrice
    <3>2. \/ rows' = rows
          \/ \E l \in call[t].batch : rows' = [rows EXCEPT ![call[t].pair] = @ \cup {l}]
      BY <2>2 DEF InsertPrice
    <3> QED BY <1>2, <3>1, <3>2
  <2>3. CASE rows' = rows
    BY <1>3, <1>5, <2>3
  <2>4. CASE \E t \in Threads : InsertPrice(t)
    BY <1>3, <1>5, <2>2, <2>4
  <2>5. rows' = rows \/ \E t \in Threads : InsertPrice(t)
    <3>1. CASE Operator
      BY <3>1, OperatorFrame
    <3>2. CASE AllOracle
      BY <3>2, RefreshFrame
    <3>3. CASE \E w \in Workers : StartWorker(w) \/ StopWorker(w) \/ AutoUpdate(w)
      BY <3>3, LoopFrame
    <3>4. CASE UNCHANGED vars \/ Environment
      BY <3>4 DEF vars, Environment, Mine, Reorg, NodeError
    <3>5. CASE \E t \in Threads : UpdateData(t)
      BY <3>5 DEF UpdateData, Fetch
    <3> QED BY <3>1, <3>2, <3>3, <3>4, <3>5 DEF Next
  <2> QED BY <2>3, <2>4, <2>5
<1> QED BY <1>4, <1>5

\* The summary page reads the bounds of whole blocks, or of no row.
LEMMA PageRead ==
  ASSUME SomePair, NoReorgs, QuietRefresh, Quiet, IInv, IInv', WholeInv, AllOracle
  PROVE  QuietRead'
<1>1. refresh \in Refresh /\ UNCHANGED <<head, chain, rows>>
  BY RefreshFrame DEF IInv, Base, TypeOK
<1>2. CASE RefreshBegin
  BY <1>1, <1>2 DEF RefreshBegin, Refresh, QuietRead
<1>3. CASE RefreshSave
  <2>1. \/ refresh' = NoRefresh
        \/ \E rest : refresh' = [NoRefresh EXCEPT !.stage = "range", !.todo = rest]
    BY <1>3 DEF RefreshSave
  <2>2. NoRefresh \in Refresh /\ NoRefresh.stage = "idle"
    BY Constants
  <2>3. refresh'.stage \in {"idle", "range"}
    BY <2>1, <2>2 DEF Refresh
  <2> QED BY <2>3 DEF QuietRead
<1>4. CASE RefreshCount
  <2> DEFINE p == refresh.pair
  <2>1. /\ refresh' = [refresh EXCEPT !.stage = "save",
                         !.row.has_data = (rows[p] # {})]
        /\ refresh.stage = "count" /\ refresh.row \in SummaryRow
    BY <1>1, <1>4 DEF RefreshCount, Refresh
  <2>2. /\ refresh'.pair = p /\ refresh'.stage = "save"
        /\ refresh'.row = [refresh.row EXCEPT !.has_data = (rows[p] # {})]
    BY <1>1, <2>1 DEF Refresh
  <2>3. /\ refresh'.row.min = refresh.row.min /\ refresh'.row.max = refresh.row.max
        /\ Shown(refresh'.row) = Shown(refresh.row)
        /\ refresh'.row.has_data <=> rows[p] # {}
    <3>1. refresh.row \in SummaryRow
      BY <2>1
    <3>2. refresh'.row = [refresh.row EXCEPT !.has_data = (rows[p] # {})]
      BY <2>2
    <3>3. refresh'.row.min = refresh.row.min /\ refresh'.row.max = refresh.row.max
      BY <3>1, <3>2 DEF SummaryRow
    <3>4. Shown(refresh'.row) = Shown(refresh.row)
      BY <3>1, <3>2 DEF SummaryRow, Shown
    <3>5. refresh'.row.has_data <=> rows[p] # {}
      BY <3>1, <3>2 DEF SummaryRow
    <3> QED BY <3>3, <3>4, <3>5
  <2>4. /\ rows[p] = {} => refresh.row.min = -1 /\ refresh.row.max = -1
        /\ rows[p] # {} => ReportOK(chain[p], rows[p], head, Shown(refresh.row))
    BY <2>1 DEF WholeInv, QuietRead
  <2> QED BY <1>1, <2>2, <2>3, <2>4 DEF QuietRead
<1>5. ASSUME NEW p \in Pairs, RefreshRange(p)
      PROVE  QuietRead'
  <2> DEFINE C == chain[p]
             R == rows[p]
  <2>1. PICK lo, hi \in {-1} \cup {l.block : l \in R} :
          /\ IsMinBlock(lo, R) /\ IsMaxBlock(hi, R)
          /\ refresh' = [refresh EXCEPT !.stage = "count", !.pair = p,
                           !.row = [exists |-> TRUE, min |-> lo, max |-> hi,
                                    has_data |-> FALSE]]
    BY <1>5 DEF RefreshRange
  <2>2. /\ refresh'.stage = "count" /\ refresh'.pair = p
        /\ refresh'.row = [exists |-> TRUE, min |-> lo, max |-> hi, has_data |-> FALSE]
        /\ refresh.stage = "range"
    BY <1>1, <1>5, <2>1 DEF Refresh, RefreshRange
  <2>3. /\ refresh'.row.min = lo /\ refresh'.row.max = hi /\ ~refresh'.row.has_data
        /\ Shown(refresh'.row).min = lo /\ Shown(refresh'.row).max = hi
    BY <2>2 DEF Shown
  <2>4. /\ C \subseteq Log /\ R \subseteq C /\ PrefixOK(C, R) /\ ChainOK(C, head)
        /\ head \in Int
    BY StrictHolds, Pieces DEF Base, Strict, PrefixOK
  <2>5. ASSUME R # {}
        PROVE  ReportOK(C, R, head, Shown(refresh'.row))
    <3>1. PICK first \in R : lo = first.block /\ \A k \in R : lo <= k.block
      BY <2>1, <2>5 DEF IsMinBlock
    <3>2. PICK last \in R : hi = last.block
      BY <2>1, <2>5 DEF IsMaxBlock
    <3>3. lo <= hi /\ hi <= head /\ hi \in Int
      BY <2>4, <3>1, <3>2 DEF ChainOK, Log
    <3>4. Covered(C, R, hi + 1)
      <4> SUFFICES ASSUME NEW l \in C, l.block < hi + 1
                   PROVE  l \in R
        BY DEF Covered
      <4>1. l.block \in Int
        BY <2>4 DEF Log
      <4>2. CASE l.block < hi
        BY <2>4, <3>2, <4>2 DEF PrefixOK, Before
      <4>3. CASE l.block = hi
        BY <1>1, <2>2, <3>2, <4>3 DEF Quiet
      <4> QED BY <3>3, <4>1, <4>2, <4>3
    <3> QED BY <2>3, <3>1, <3>3, <3>4 DEF ReportOK
  <2>6. ASSUME R = {}
        PROVE  lo = -1 /\ hi = -1
    BY <2>1, <2>6 DEF IsMinBlock, IsMaxBlock
  <2> QED BY <1>1, <2>2, <2>3, <2>5, <2>6 DEF QuietRead
<1> QED BY <1>2, <1>3, <1>4, <1>5 DEF AllOracle

\* Every step keeps what the Summary rows report whole.
LEMMA WholeStep ==
  ASSUME SomePair, NoReorgs, QuietRefresh, Quiet, IInv, IInv', WholeInv, [Next]_vars
  PROVE  WholeInv'
<1>1. \A p \in Pairs : chain'[p] \subseteq Minable
  BY MinableStep
<1>2. WholeRows'
  BY LoopReports, OtherReports
<1>3. QuietRead'
  <2>1. CASE refresh' = refresh
    BY <2>1, WaitingRead
  <2>2. CASE AllOracle
    BY <2>2, PageRead
  <2>3. CASE NodeError
    BY <2>3, Constants DEF NodeError, QuietRead
  <2>4. refresh' = refresh \/ AllOracle \/ NodeError
    <3>1. CASE Operator
      BY <3>1, OperatorFrame
    <3>2. CASE \E w \in Workers : StartWorker(w) \/ StopWorker(w) \/ AutoUpdate(w)
      BY <3>2, LoopFrame
    <3>3. CASE UNCHANGED vars \/ Mine \/ Reorg
      BY <3>3 DEF vars, Mine, Reorg
    <3>4. CASE \E t \in Threads : UpdateData(t)
      BY <3>4, CrawlFrame
    <3> QED BY <3>1, <3>2, <3>3, <3>4 DEF Next, Environment
  <2> QED BY <2>1, <2>2, <2>3, <2>4
<1> QED BY <1>1, <1>2, <1>3 DEF WholeInv, WholeRows

-----------------------------------------------------------------------------
(* The block up to which a pair is wholly crawled (ClosedBlock).           *)
ClosedOf(C, R, h) ==
  CHOOSE b \in (StartBlock - 1)..h :
    /\ \A l \in C : l.block <= b => l \in R
    /\ b = h \/ \E l \in C \ R : l.block = b + 1

\* There is such a block: the head, or the one before the first missing log.
LEMMA ClosedIs ==
  ASSUME NEW C \in SUBSET Log, NEW R, NEW h \in Int, StartBlock <= h, ChainOK(C, h)
  PROVE  LET b == ClosedOf(C, R, h)
         IN  /\ b \in (StartBlock - 1)..h
             /\ \A l \in C : l.block <= b => l \in R
             /\ b = h \/ \E l \in C \ R : l.block = b + 1
<1> DEFINE P(b) == /\ \A l \in C : l.block <= b => l \in R
                   /\ b = h \/ \E l \in C \ R : l.block = b + 1
<1>1. StartBlock \in Int
  BY BlocksAssumption
<1>2. \E b \in (StartBlock - 1)..h : P(b)
  <2>1. CASE C \subseteq R
    BY <1>1, <2>1
  <2>2. CASE ~(C \subseteq R)
    <3> DEFINE S == {l.block : l \in C \ R}
               Less == OpToRel(<, Nat)
    <3>1. S \subseteq Nat /\ S # {}
      BY <2>2 DEF Log
    <3>2. IsWellFoundedOn(Less, Nat)
      BY NatLessThanWellFounded
    <3>3. PICK m \in S : \A n \in S : <<n, m>> \notin Less
      <4> HIDE DEF S, Less
      <4> QED BY <3>1, <3>2, WFMin
    <3>4. m \in Nat /\ \A n \in S : n \in Nat /\ m <= n
      <4>1. \A n \in S : ~(n < m)
        BY <3>1, <3>3 DEF OpToRel
      <4>2. m \in Nat /\ \A n \in S : n \in Nat
        BY <3>1, <3>3
      <4> HIDE DEF S, Less
      <4> QED BY <4>1, <4>2
    <3>5. PICK k \in C \ R : k.block = m
      BY <3>3
    <3>6. m - 1 \in (StartBlock - 1)..h
      BY <1>1, <3>4, <3>5 DEF ChainOK
    <3>7. ASSUME NEW l \in C, l.block <= m - 1
          PROVE  l \in R
      <4>1. ASSUME l \notin R
            PROVE  FALSE
        <5>1. l.block \in S
          BY <4>1
        <5> QED BY <3>4, <3>7, <5>1
      <4> QED BY <4>1
    <3>8. k.block = (m - 1) + 1
      BY <3>4, <3>5
    <3> QED BY <3>5, <3>6, <3>7, <3>8
  <2> QED BY <2>1, <2>2
<1> QED BY <1>2 DEF ClosedOf

\* It is the last block below which nothing is missing.
LEMMA ClosedIsLast ==
  ASSUME NEW C \in SUBSET Log, NEW R, NEW h \in Int, StartBlock <= h, ChainOK(C, h),
         NEW d \in Int, d <= h, Covered(C, R, d + 1)
  PROVE  d <= ClosedOf(C, R, h)
<1> DEFINE b == ClosedOf(C, R, h)
<1>1. /\ b \in (StartBlock - 1)..h
      /\ b = h \/ \E l \in C \ R : l.block = b + 1
  BY ClosedIs
<1>2. b \in Int
  BY <1>1, BlocksAssumption
<1> QED BY <1>1, <1>2 DEF Covered

\* It never moves back.
LEMMA ClosedGrows ==
  ASSUME NEW C \in SUBSET Log, NEW R, NEW h \in Int, StartBlock <= h, ChainOK(C, h),
         NEW C2 \in SUBSET Log, NEW R2, NEW h2 \in Int, ChainOK(C2, h2),
         Grows(C, R, h, C2, R2, h2)
  PROVE  ClosedOf(C, R, h) <= ClosedOf(C2, R2, h2)
<1> DEFINE b == ClosedOf(C, R, h)
<1>1. /\ b \in (StartBlock - 1)..h
      /\ \A l \in C : l.block <= b => l \in R
  BY ClosedIs
<1>2. b \in Int /\ b <= h /\ StartBlock \in Int
  BY <1>1, BlocksAssumption
<1>3. h <= h2 /\ R \subseteq R2 /\ \A l \in C2 \ C : l.block > h
  BY DEF Grows
<1>4. Covered(C2, R2, b + 1)
  <2> SUFFICES ASSUME NEW l \in C2, l.block < b + 1
               PROVE  l \in R2
    BY DEF Covered
  <2>1. l.block \in Int
    BY DEF Log
  <2>2. l \in C
    BY <1>2, <1>3, <2>1
  <2> QED BY <1>1, <1>2, <1>3, <2>1, <2>2
<1>5. b <= h2 /\ StartBlock <= h2
  BY <1>2, <1>3
<1> QED BY <1>2, <1>4, <1>5, ClosedIsLast

\* In every state it is a block of Granularity, and every log up to it is stored.
LEMMA ClosedFacts ==
  ASSUME IInv, NEW p \in Pairs
  PROVE  /\ ClosedBlock(p) = ClosedOf(chain[p], rows[p], head)
         /\ ClosedBlock(p) \in -1..MaxBlock
         /\ \A l \in chain[p] : l.block <= ClosedBlock(p) => l \in rows[p]
         /\ \A d \in Int : d <= head /\ Covered(chain[p], rows[p], d + 1)
                             => d <= ClosedBlock(p)
<1>1. ClosedBlock(p) = ClosedOf(chain[p], rows[p], head)
  BY DEF ClosedBlock, ClosedOf
<1>2. /\ chain[p] \in SUBSET Log /\ head \in Int /\ StartBlock <= head
      /\ head <= MaxBlock /\ ChainOK(chain[p], head)
  BY BlocksAssumption DEF IInv, Base, TypeOK
<1>3. /\ ClosedOf(chain[p], rows[p], head) \in (StartBlock - 1)..head
      /\ \A l \in chain[p] : l.block <= ClosedOf(chain[p], rows[p], head) => l \in rows[p]
  <2> DEFINE C == chain[p]
             h == head
  <2>1. C \in SUBSET Log /\ h \in Int /\ StartBlock <= h /\ ChainOK(C, h)
    BY <1>2
  <2> HIDE DEF C, h
  <2>2. /\ ClosedOf(C, rows[p], h) \in (StartBlock - 1)..h
        /\ \A l \in C : l.block <= ClosedOf(C, rows[p], h) => l \in rows[p]
    BY <2>1, ClosedIs
  <2> QED BY <2>2 DEF C, h
<1>4. ClosedOf(chain[p], rows[p], head) \in -1..MaxBlock
  BY <1>2, <1>3, BlocksAssumption
<1>5. \A d \in Int : d <= head /\ Covered(chain[p], rows[p], d + 1)
                       => d <= ClosedOf(chain[p], rows[p], head)
  BY <1>2, ClosedIsLast
<1> QED BY <1>1, <1>3, <1>4, <1>5

\* No step moves it back.
LEMMA ClosedStep ==
  ASSUME IInv, IInv', NoReorgs, [Next]_vars, NEW p \in Pairs
  PROVE  /\ ClosedBlock(p)' \in -1..MaxBlock
         /\ ClosedBlock(p) <= ClosedBlock(p)'
<1>1. ClosedBlock(p) = ClosedOf(chain[p], rows[p], head)
  BY ClosedFacts
<1>2. ClosedBlock(p)' = ClosedOf(chain'[p], rows'[p], head')
  BY DEF ClosedBlock, ClosedOf
<1>3. /\ chain[p] \in SUBSET Log /\ head \in Int /\ StartBlock <= head
      /\ ChainOK(chain[p], head)
  BY BlocksAssumption DEF IInv, Base, TypeOK
<1>4. /\ chain'[p] \in SUBSET Log /\ head' \in Int /\ StartBlock <= head'
      /\ head' <= MaxBlock /\ ChainOK(chain'[p], head')
  BY BlocksAssumption DEF IInv, Base, TypeOK
<1>5. Grows(chain[p], rows[p], head, chain'[p], rows'[p], head')
  BY TablesGrow
<1>6. ClosedOf(chain[p], rows[p], head) <= ClosedOf(chain'[p], rows'[p], head')
  BY <1>3, <1>4, <1>5, ClosedGrows
<1>7. ClosedOf(chain'[p], rows'[p], head') \in (StartBlock - 1)..head'
  BY <1>4, ClosedIs
<1>8. ClosedOf(chain'[p], rows'[p], head') \in -1..MaxBlock
  BY <1>4, <1>7, BlocksAssumption
<1> QED BY <1>1, <1>2, <1>6, <1>8

\* A row that is inserted is past the closed block, and is one the node can hold.
LEMMA InsertIsAbove ==
  ASSUME NoReorgs, IInv, WholeInv, NEW t \in Threads, InsertPrice(t)
  PROVE  \/ rows' = rows
         \/ \E p \in Pairs, l \in Minable :
              /\ ClosedBlock(p) < l.block
              /\ rows' = [rows EXCEPT ![p] = @ \cup {l}]
<1> DEFINE p == call[t].pair
<1>1. /\ p \in Pairs /\ chain[p] \subseteq Log /\ rows \in [Pairs -> SUBSET Log]
      /\ BatchOK(chain[p], rows[p], call[t]) /\ call[t].stage = "insert"
  BY StrictHolds, Pieces DEF Base, Strict, TypeOK, InsertPrice
<1>2. PICK l \in call[t].batch :
        rows' = rows \/ rows' = [rows EXCEPT ![p] = @ \cup {l}]
  BY DEF InsertPrice
<1>3. l \in chain[p] /\ l \in Minable /\ l.block \in Int
  BY <1>1 DEF BatchOK, WholeInv, Log
<1>4. CASE l \in rows[p]
  <2>1. rows[p] \cup {l} = rows[p]
    BY <1>4
  <2>2. [rows EXCEPT ![p] = rows[p] \cup {l}] = rows
    BY <1>1, <2>1
  <2> QED BY <1>2, <2>2
<1>5. CASE l \notin rows[p]
  <2>1. ClosedBlock(p) \in Int /\ ~(l.block <= ClosedBlock(p))
    BY <1>1, <1>3, <1>5, ClosedFacts, BlocksAssumption
  <2> QED BY <1>1, <1>2, <1>3, <2>1
<1> QED BY <1>4, <1>5

\* A step that saves no Summary row is a step of Granularity's Crawl.
LEMMA CrawlMaps ==
  ASSUME IInv, IInv', WholeInv, NoReorgs, [Next]_vars,
         summary' = summary, used'.crashes = used.crashes, UNCHANGED granularity,
         rows' = rows \/ \E t \in Threads : InsertPrice(t)
  PROVE  BlockPrices!Crawl
<1> DEFINE closed == [p \in Pairs |-> ClosedBlock(p)]
           report == [p \in Pairs |-> Reported(p)]
<1>1. /\ closed' \in [Pairs -> -1..MaxBlock]
      /\ \A p \in Pairs : closed[p] <= closed'[p]
  BY ClosedStep
<1>2. \/ rows' = rows
      \/ \E p \in Pairs, l \in Minable : /\ closed[p] < l.block
                                         /\ rows' = [rows EXCEPT ![p] = @ \cup {l}]
  BY InsertIsAbove
<1>3. UNCHANGED <<report, prices, record, gen, used.crashes>>
  BY DEF Reported, granularity
<1> QED
  BY <1>1, <1>2, <1>3 DEF BlockPrices!Crawl, BlockPrices!Blocks, Minable

\* Saving a Summary row is Granularity's Summarise: nothing of a pair without
\* rows, or the first stored block and a block up to which all is stored.
LEMMA SaveMaps ==
  ASSUME SomePair, IInv, IInv', WholeInv', UNCHANGED granularity,
         UNCHANGED <<head, chain, rows, used>>, NEW p \in Pairs, NEW row \in SummaryRow,
         summary' = [summary EXCEPT ![p] = row],
         ~row.has_data => rows[p] = {} /\ row.min = -1 /\ row.max = -1
  PROVE  BlockPrices!Summarise(p)
<1> DEFINE closed == [q \in Pairs |-> ClosedBlock(q)]
           report == [q \in Pairs |-> Reported(q)]
<1>1. summary \in [Pairs -> SummaryRow] /\ summary'[p] = row
      /\ \A q \in Pairs \ {p} : summary'[q] = summary[q]
  BY DEF IInv, Base, TypeOK
<1>2. report' = [report EXCEPT ![p] =
                   [has_data |-> row.has_data, min |-> row.min, max |-> row.max]]
  BY <1>1 DEF Reported
<1>3. closed' = closed
  BY DEF ClosedBlock
<1>4. UNCHANGED <<rows, closed, prices, record, gen, used.crashes>>
  BY <1>3 DEF granularity
<1>5. CASE ~row.has_data
  <2>1. rows[p] = {} /\ row.min = -1 /\ row.max = -1 /\ row.has_data = FALSE
    BY <1>5 DEF SummaryRow
  <2>2. report' = [report EXCEPT ![p] = BlockPrices!NoReport]
    BY <1>2, <2>1 DEF BlockPrices!NoReport
  <2> QED BY <1>4, <2>1, <2>2 DEF BlockPrices!Summarise
<1>6. CASE row.has_data
  <2>1. ReportOK(chain[p], rows[p], head, row)
    BY <1>1 DEF WholeInv
  <2>2. PICK first \in rows[p] : first.block = row.min
    BY <1>6, <2>1 DEF ReportOK
  <2>3. /\ \A l \in rows[p] : first.block <= l.block
        /\ first.block <= row.max
        /\ row.max <= head /\ Covered(chain[p], rows[p], row.max + 1)
    BY <1>6, <2>1, <2>2 DEF ReportOK
  <2>4. row.max \in Int /\ first.block \in Nat /\ row.has_data = TRUE
    <3>1. rows[p] \subseteq Log
      BY Pieces DEF IInv, Base
    <3> QED BY <1>6, <2>2, <3>1 DEF SummaryRow, Log
  <2>5. row.max <= closed[p] /\ closed[p] \in Int
    BY <2>3, <2>4, ClosedFacts, BlocksAssumption
  <2>6. row.max \in 0..closed[p]
    BY <2>3, <2>4, <2>5
  <2>7. report' = [report EXCEPT ![p] =
                     [has_data |-> TRUE, min |-> first.block, max |-> row.max]]
    BY <1>2, <2>2, <2>4
  <2> QED BY <1>4, <2>3, <2>6, <2>7 DEF BlockPrices!Summarise
<1> QED BY <1>5, <1>6

\* The first state of the pipeline is one of Granularity.
LEMMA MapInit ==
  ASSUME SomePair, PipelineInit
  PROVE  BlockPrices!Init
<1>1. IInv /\ Init
  BY InvInit DEF PipelineInit
<1>2. [p \in Pairs |-> ClosedBlock(p)] \in [Pairs -> -1..MaxBlock]
  BY <1>1, ClosedFacts
<1>3. [p \in Pairs |-> Reported(p)] = [p \in Pairs |-> BlockPrices!NoReport]
  BY <1>1 DEF Init, Reported, NoSummary, BlockPrices!NoReport
<1>4. rows = [p \in Pairs |-> {}] /\ used.crashes = 0
  BY <1>1 DEF Init
<1> QED
  BY <1>2, <1>3, <1>4 DEF PipelineInit, BlockPrices!Init, BlockPrices!Blocks

\* Every step of the crawl is a step of Granularity's environment.
LEMMA CrawlStepMaps ==
  ASSUME SomePair, NoReorgs, IInv, IInv', WholeInv, WholeInv', CrawlStep
  PROVE  BlockPrices!Next
<1>1. [Next]_vars /\ UNCHANGED granularity
  BY DEF CrawlStep, Next, Environment
<1>2. ASSUME summary' = summary, used'.crashes = used.crashes,
             rows' = rows \/ \E t \in Threads : InsertPrice(t)
      PROVE  BlockPrices!Next
  <2>1. BlockPrices!Crawl
    BY <1>1, <1>2, CrawlMaps
  <2> QED BY <2>1 DEF BlockPrices!Next, BlockPrices!Environment
<1>3. ASSUME NEW p \in Pairs, BlockPrices!Summarise(p)
      PROVE  BlockPrices!Next
  BY <1>3 DEF BlockPrices!Next, BlockPrices!Environment
<1>4. used \in [reorgs: 0..MaxReorgs, crashes: 0..MaxCrashes,
                refreshes: 0..MaxRefreshes, calls: 0..MaxCalls]
  BY DEF IInv, Base, TypeOK
<1>5. CASE Mine
  BY <1>2, <1>5 DEF Mine
<1>6. CASE Operator
  <2>1. summary' = summary /\ rows' = rows
    BY <1>6 DEF Operator, Respond, Submit
  <2>2. used' = used \/ used' = [used EXCEPT !.calls = @ + 1]
    BY <1>6 DEF Operator, Respond, Submit
  <2> QED BY <1>2, <1>4, <2>1, <2>2
<1>7. CASE \E t \in Threads : UpdateData(t)
  <2>1. rows' = rows \/ \E t \in Threads : InsertPrice(t)
    BY <1>7 DEF UpdateData, Fetch
  <2>2. summary' = summary /\ used' = used
    BY <1>7 DEF UpdateData, Fetch, InsertPrice
  <2> QED BY <1>2, <2>1, <2>2
<1>8. ASSUME NEW w \in Workers, StartWorker(w) \/ StopWorker(w) \/ AutoUpdate(w)
      PROVE  BlockPrices!Next
  <2>1. UNCHANGED <<head, chain, rows, used>>
    BY <1>8, LoopFrame
  <2>2. CASE SaveSummary(w)
    <3> DEFINE p == call[w].pair
               row == [loop[w].snap[p] EXCEPT !.max = call[w].to]
    <3>1. summary' = [summary EXCEPT ![p] = row] /\ call[w].stage = "done"
      BY <2>2 DEF SaveSummary
    <3>2. /\ p \in Pairs /\ loop[w].snap[p] \in SummaryRow /\ call[w].to \in Int
          /\ WorkOK(chain[p], rows[p], head, loop[w].snap[p], call[w])
      BY Pieces DEF IInv, Base, WorkerInv, Call
    <3>3. row \in SummaryRow /\ row.has_data
      BY <3>1, <3>2 DEF WorkOK, SummaryRow
    <3>4. BlockPrices!Summarise(p)
      <4> HIDE DEF row
      <4> QED BY <1>1, <2>1, <3>1, <3>2, <3>3, SaveMaps
    <3> QED BY <1>3, <3>2, <3>4
  <2>3. CASE ~SaveSummary(w)
    <3>1. summary' = summary
      BY <1>8, <2>3, LoopFrame
    <3> QED BY <1>2, <2>1, <3>1
  <2> QED BY <2>2, <2>3
<1>9. CASE AllOracle
  <2>1. UNCHANGED <<head, chain, rows>>
    BY <1>9, RefreshFrame
  <2>2. CASE RefreshSave
    <3> DEFINE p == refresh.pair
    <3>1. /\ summary' = [summary EXCEPT ![p] = refresh.row] /\ used' = used
          /\ refresh.stage = "save"
      BY <2>2 DEF RefreshSave
    <3>2. p \in Pairs /\ refresh.row \in SummaryRow
      BY Pieces DEF IInv, Base
    <3>3. ~refresh.row.has_data =>
            rows[p] = {} /\ refresh.row.min = -1 /\ refresh.row.max = -1
      BY <3>1 DEF WholeInv, QuietRead
    <3>4. BlockPrices!Summarise(p)
      BY <1>1, <2>1, <3>1, <3>2, <3>3, SaveMaps
    <3> QED BY <1>3, <3>2, <3>4
  <2>3. CASE ~RefreshSave
    <3>1. summary' = summary
      BY <1>9, <2>3, RefreshFrame
    <3>2. used' = used \/ used' = [used EXCEPT !.refreshes = @ + 1]
      BY <1>9, <2>3, RefreshFrame
    <3> QED BY <1>2, <1>4, <2>1, <3>1, <3>2
  <2> QED BY <2>2, <2>3
<1> QED
  BY <1>5, <1>6, <1>7, <1>8, <1>9 DEF CrawlStep

\* An exit of the process is Granularity's Exit.
LEMMA ExitMaps ==
  ASSUME IInv, ProcessExit
  PROVE  BlockPrices!Exit
<1>1. /\ used.crashes < MaxCrashes /\ used' = [used EXCEPT !.crashes = @ + 1]
      /\ UNCHANGED <<head, chain, rows, summary, prices, record>>
      /\ gen' = [u \in Updaters |-> BlockPrices!NoGen]
  BY DEF ProcessExit, NodeError
<1>2. used'.crashes = used.crashes + 1
  BY <1>1 DEF IInv, Base, TypeOK
<1>3. /\ [p \in Pairs |-> ClosedBlock(p)]' = [p \in Pairs |-> ClosedBlock(p)]
      /\ [p \in Pairs |-> Reported(p)]' = [p \in Pairs |-> Reported(p)]
  BY <1>1 DEF ClosedBlock, Reported
<1> QED BY <1>1, <1>2, <1>3 DEF BlockPrices!Exit

\* Every step of the pipeline is one of Granularity, or changes nothing it sees.
LEMMA PipelineStep ==
  ASSUME SomePair, NoReorgs, OneContract, QuietRefresh, IInv, WholeInv,
         [PipelineNext]_<<vars, granularity>>
  PROVE  IInv' /\ WholeInv' /\ [BlockPrices!Next]_BlockPrices!vars
<1>1. CASE UNCHANGED vars
  <2>1. [Next]_vars
    BY <1>1
  <2>2. IInv'
    BY <2>1, InvStep
  <2>3. Quiet
    BY <1>1 DEF vars, Quiet
  <2>4. WholeInv'
    BY <2>1, <2>2, <2>3, WholeStep
  <2>5. CASE BlockPriceStep
    BY <2>2, <2>4, <2>5 DEF BlockPriceStep, BlockPrices!Next
  <2>6. CASE UNCHANGED <<vars, granularity>>
    <3>1. /\ [p \in Pairs |-> ClosedBlock(p)]' = [p \in Pairs |-> ClosedBlock(p)]
          /\ [p \in Pairs |-> Reported(p)]' = [p \in Pairs |-> Reported(p)]
          /\ UNCHANGED <<rows, prices, record, gen, used.crashes>>
      BY <2>6 DEF ClosedBlock, Reported, vars, granularity
    <3> QED BY <2>2, <2>4, <3>1 DEF BlockPrices!vars
  <2>7. CASE CrawlStep
    BY <2>2, <2>4, <2>7, CrawlStepMaps
  <2>8. CASE ProcessExit
    BY <2>2, <2>4, <2>8, ExitMaps DEF BlockPrices!Next, BlockPrices!Environment
  <2> QED BY <2>5, <2>6, <2>7, <2>8 DEF PipelineNext
<1>2. CASE CrawlStep
  <2>1. [Next]_vars /\ Quiet
    BY <1>2 DEF CrawlStep, Next, Environment
  <2>2. IInv'
    BY <2>1, InvStep
  <2>3. WholeInv'
    BY <2>1, <2>2, WholeStep
  <2> QED BY <1>2, <2>2, <2>3, CrawlStepMaps
<1>3. CASE ProcessExit
  <2>1. [Next]_vars /\ refresh' = NoRefresh
    BY <1>3 DEF ProcessExit, NodeError, Next, Environment
  <2>2. IInv' /\ Quiet
    BY <2>1, InvStep, Constants DEF Quiet
  <2>3. WholeInv'
    BY <2>1, <2>2, WholeStep
  <2> QED BY <1>3, <2>2, <2>3, ExitMaps DEF BlockPrices!Next, BlockPrices!Environment
<1> QED
  BY <1>1, <1>2, <1>3 DEF PipelineNext, BlockPriceStep, vars

\* The crawl is the environment Granularity assumes (BlockPricesRestOnTheCrawl):
\* however windows, inserts, stale saves and exits interleave with the block
\* price update, auto_update and all_oracle report in Summary only wholly
\* crawled blocks, as long as the summary page reads no half inserted block.
THEOREM CrawlIsGranularitysEnvironment ==
  ASSUME SomePair, NoReorgs, OneContract, QuietRefresh
  PROVE  PipelineSpec => BlockPricesRestOnTheCrawl
<1>1. PipelineInit => IInv /\ WholeInv /\ BlockPrices!Init
  BY InvInit, WholeInit, MapInit DEF PipelineInit
<1>2. IInv /\ WholeInv /\ [PipelineNext]_<<vars, granularity>>
        => IInv' /\ WholeInv' /\ [BlockPrices!Next]_BlockPrices!vars
  BY PipelineStep
<1> QED BY <1>1, <1>2, PTL DEF PipelineSpec, BlockPricesRestOnTheCrawl, BlockPrices!Spec

-----------------------------------------------------------------------------
(* What GranularityProofs shows of every environment then holds of the crawl. *)
Averages == INSTANCE GranularityProofs WITH
  Logs <- Minable,
  LastBlock <- MaxBlock,
  MaxExits <- MaxCrashes,
  closed <- [p \in Pairs |-> ClosedBlock(p)],
  summary <- [p \in Pairs |-> Reported(p)],
  exits <- used.crashes

DefaultRange == Ranges = {<<-1, -1>>}

\* The specification those theorems are about is the one the crawl implements.
LEMMA SameInit == BlockPrices!Init => Averages!Init
BY DEF BlockPrices!Init, Averages!Init, BlockPrices!NoRange, Averages!NoRange,
       BlockPrices!NoGen, Averages!NoGen, BlockPrices!NoReport, Averages!NoReport,
       BlockPrices!Blocks, Averages!Blocks

\* Action by action the two take the same steps.
LEMMA SameNext == [BlockPrices!Next]_BlockPrices!vars => [Averages!Next]_Averages!vars
<1> USE DEF Minable
<1>1. BlockPrices!Crawl => Averages!Crawl
  BY DEF BlockPrices!Crawl, Averages!Crawl, BlockPrices!Blocks,
               Averages!Blocks
<1>2. BlockPrices!Exit => Averages!Exit
  BY Zenon DEF BlockPrices!Exit, Averages!Exit, BlockPrices!NoGen,
               Averages!NoGen, BlockPrices!NoReport, Averages!NoReport,
               BlockPrices!NoRange, Averages!NoRange
<1>3. ASSUME NEW p \in Pairs, BlockPrices!Summarise(p)
      PROVE  Averages!Summarise(p)
  BY Zenon, <1>3 DEF BlockPrices!Summarise, Averages!Summarise,
               BlockPrices!NoReport, Averages!NoReport
<1>4. ASSUME NEW u \in Updaters, NEW asked \in Ranges, BlockPrices!Begin(u, asked)
      PROVE  Averages!Begin(u, asked)
  BY Zenon, <1>4 DEF BlockPrices!Begin, Averages!Begin, BlockPrices!NoGen,
               Averages!NoGen, BlockPrices!NoReport, Averages!NoReport,
               BlockPrices!NoRange, Averages!NoRange
<1>5. ASSUME NEW u \in Updaters, NEW p \in Pairs, BlockPrices!ReadRecord(u, p)
      PROVE  Averages!ReadRecord(u, p)
  BY Zenon, <1>5 DEF BlockPrices!ReadRecord, Averages!ReadRecord
<1>6. ASSUME NEW u \in Updaters, BlockPrices!Query(u)
      PROVE  Averages!Query(u)
  BY Zenon, <1>6 DEF BlockPrices!Query, Averages!Query, BlockPrices!IsNew,
               Averages!IsNew, BlockPrices!From, Averages!From,
               BlockPrices!To, Averages!To, BlockPrices!RowsOf,
               Averages!RowsOf
<1>7. ASSUME NEW u \in Updaters, BlockPrices!BulkCreate(u)
      PROVE  Averages!BulkCreate(u)
  BY Zenon, <1>7 DEF BlockPrices!BulkCreate, Averages!BulkCreate,
               BlockPrices!Priced, Averages!Priced
<1>8. ASSUME NEW u \in Updaters, BlockPrices!SaveEach(u)
      PROVE  Averages!SaveEach(u)
  BY Zenon, <1>8 DEF BlockPrices!SaveEach, Averages!SaveEach, BlockPrices!Priced,
               Averages!Priced
<1>9. ASSUME NEW u \in Updaters, BlockPrices!SaveRecord(u)
      PROVE  Averages!SaveRecord(u)
  BY Zenon, <1>9 DEF BlockPrices!SaveRecord, Averages!SaveRecord, BlockPrices!From,
               Averages!From, BlockPrices!To, Averages!To, BlockPrices!Lesser,
               Averages!Lesser, BlockPrices!Greater, Averages!Greater
<1>10. ASSUME NEW u \in Updaters, BlockPrices!Done(u)
      PROVE  Averages!Done(u)
  BY Zenon, <1>10 DEF BlockPrices!Done, Averages!Done, BlockPrices!NoGen,
               Averages!NoGen, BlockPrices!NoReport, Averages!NoReport,
               BlockPrices!NoRange, Averages!NoRange
<1>11. ASSUME NEW u \in Updaters, BlockPrices!MakeRecord(u)
      PROVE  Averages!MakeRecord(u)
  BY Zenon, <1>11 DEF BlockPrices!MakeRecord, Averages!MakeRecord,
               BlockPrices!NewRange, Averages!NewRange, BlockPrices!NoGen,
               Averages!NoGen, BlockPrices!NoReport, Averages!NoReport,
               BlockPrices!NoRange, Averages!NoRange
<1>12. ASSUME NEW u \in Updaters, BlockPrices!StartLoop(u) \/ BlockPrices!StopLoop(u)
      PROVE  Averages!StartLoop(u) \/ Averages!StopLoop(u)
  BY Zenon, <1>12 DEF BlockPrices!StartLoop, Averages!StartLoop,
               BlockPrices!StopLoop, Averages!StopLoop
<1>13. UNCHANGED BlockPrices!vars => UNCHANGED Averages!vars
  BY DEF BlockPrices!vars, Averages!vars
<1>14. ASSUME NEW u \in Updaters, BlockPrices!Call(u) PROVE Averages!Call(u)
  BY Zenon, <1>14, <1>4, <1>5, <1>6, <1>7, <1>8, <1>9, <1>10, <1>11, <1>12
     DEF BlockPrices!Call, BlockPrices!Update, Averages!Call, Averages!Update
<1>15. BlockPrices!Next => Averages!Next
  BY Zenon, <1>1, <1>2, <1>3, <1>14
     DEF BlockPrices!Next, BlockPrices!Environment, Averages!Next, Averages!Environment
<1> QED BY <1>13, <1>15

\* The constants of the pipeline are such as Granularity assumes.
LEMMA GranularityAssumptions ==
  /\ \A l \in Minable : l.block \in 0..MaxBlock
  /\ MaxBlock \in Nat /\ MaxInt \in Nat /\ MaxBlock < MaxInt
  /\ MaxCrashes \in Nat
<1>1. \A b \in StartBlock..MaxBlock, c \in BlockContents : \A l \in LogsAt(b, c) : l.block = b
  BY DEF LogsAt
<1>2. \A l \in Minable : l.block \in 0..MaxBlock
  BY <1>1, BlocksAssumption DEF Minable
<1> QED
  BY <1>2, BlocksAssumption, BoundsAssumption, PriceBoundAssumption

\* So the invariant of GranularityProofs holds beside the crawl.
LEMMA AveragesInit ==
  ASSUME SomePair, BlockPrices!Init
  PROVE  Averages!IInv
BY SameInit, Averages!InvInit, GranularityAssumptions, UpdatersAssumption,
   RangesAssumption DEF SomePair, Averages!SomePair

\* Every step keeps it.
LEMMA AveragesStep ==
  ASSUME SomePair, DefaultRange, Averages!IInv, [BlockPrices!Next]_BlockPrices!vars
  PROVE  Averages!IInv'
<1>1. [Averages!Next]_Averages!vars /\ Averages!SomePair /\ Averages!DefaultRange
  BY SameNext DEF SomePair, DefaultRange, Averages!SomePair, Averages!DefaultRange
<1> QED
  BY <1>1, Averages!InvStep, GranularityAssumptions, UpdatersAssumption,
     RangesAssumption, Zenon

\* A price is of all the rows its block has, and no crawled block of the
\* recorded range is without one.
LEMMA AveragesImply ==
  ASSUME Averages!IInv
  PROVE  PricesUseAllData /\ BlockPrices!NothingSkipped
<1>1. Averages!MeansAreOfWholeBlocks /\ Averages!NothingSkipped
  BY Averages!IInvImplies, GranularityAssumptions, UpdatersAssumption, RangesAssumption
<1> QED
  BY <1>1 DEF Averages!MeansAreOfWholeBlocks, Averages!NothingSkipped, PricesUseAllData,
              BlockPrices!NothingSkipped, Averages!RowsOf, BlockPrices!RowsOf,
              Averages!Priced, BlockPrices!Priced

\* A block price is the mean of everything the node has of its block, and no
\* crawled block is skipped (PricesUseAllData): auto_update, update_data and
\* all_oracle on one side, block_granularity_update on the other, any number of
\* each, as long as the calls do not name a block range of their own.
THEOREM BlockPricesUseAllData ==
  ASSUME SomePair, NoReorgs, OneContract, QuietRefresh, DefaultRange
  PROVE  PipelineSpec => [](PricesUseAllData /\ BlockPrices!NothingSkipped)
<1>1. PipelineInit => IInv /\ WholeInv /\ Averages!IInv
  BY InvInit, WholeInit, MapInit, AveragesInit DEF PipelineInit
<1>2. IInv /\ WholeInv /\ Averages!IInv /\ [PipelineNext]_<<vars, granularity>>
        => IInv' /\ WholeInv' /\ Averages!IInv'
  BY PipelineStep, AveragesStep
<1>3. Averages!IInv => PricesUseAllData /\ BlockPrices!NothingSkipped
  BY AveragesImply
<1> QED BY <1>1, <1>2, <1>3, PTL DEF PipelineSpec


=============================================================================
