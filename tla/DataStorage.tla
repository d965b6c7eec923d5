----------------------------- MODULE DataStorage -----------------------------
(***************************************************************************)
(* The price crawl of the datastorage app (oracleWeb/datastorage/views.py) *)
(* with the Go function get_log_data it calls through ctypes.              *)
(*                                                                         *)
(* Three kinds of actors share the MySQL tables Price and Summary, each    *)
(* statement its own transaction:                                          *)
(*   - auto_update threads: `while do_run`, over a snapshot of Summary,    *)
(*     crawl the next window of every pair and save the snapshot's row;    *)
(*   - update_data requests an operator submits by hand;                   *)
(*   - the all_oracle?update_summary=1 request, which recomputes Summary   *)
(*     from the Price rows.                                                *)
(* The archive node is external: it grows, reorganises its head, and may   *)
(* fail a call, in which case Go's log.Fatal ends the whole process.       *)
(***************************************************************************)
EXTENDS Integers, FiniteSets

CONSTANTS
  Pairs,             \* rows of TokenPair (created by initialize_data)
  Workers,           \* auto_update threads
  Callers,           \* request threads that run update_data
  Values,            \* prices a log can carry
  BlockContents,     \* what one block can hold for a pair: sets of <<index, price>>
  StartBlock,        \* where the operator's first crawl of a pair begins
  InitialHead,       \* head of the chain when the server starts
  MaxBlock,          \* bound: last block mined
  EachUpdateAmount,  \* each_update_amount, the length of a window
  SwitchBlock,       \* [Pairs -> Nat]: block at which a feed changed contracts
  MaxReorgs,         \* bound: reorganisations of the head block
  MaxCrashes,        \* bound: process exits
  MaxRefreshes,      \* bound: all_oracle?update_summary=1 requests
  MaxCalls           \* bound: update_data requests submitted by hand

ASSUME ActorsAssumption == Workers \cap Callers = {}
ASSUME BlocksAssumption ==
  /\ StartBlock \in Nat /\ InitialHead \in Nat /\ MaxBlock \in Nat
  /\ StartBlock <= InitialHead /\ InitialHead <= MaxBlock
ASSUME WindowAssumption == EachUpdateAmount \in Nat \ {0}
ASSUME SwitchAssumption == SwitchBlock \in [Pairs -> Nat]
ASSUME ContentsAssumption ==
  /\ BlockContents \subseteq SUBSET (Nat \X Values)
  /\ \A c \in BlockContents : \A d, e \in c : d[1] = e[1] => d = e
ASSUME BoundsAssumption ==
  /\ MaxReorgs \in Nat /\ MaxCrashes \in Nat
  /\ MaxRefreshes \in Nat /\ MaxCalls \in Nat

VARIABLES
  head,      \* number of the node's latest block
  chain,     \* [Pairs -> set of logs] on the node's current chain
  rows,      \* [Pairs -> set of logs] the Price table
  summary,   \* [Pairs -> SummaryRow], exists = FALSE when there is no row
  call,      \* [Threads -> Call] the update_data call a thread is in
  loop,      \* [Workers -> Loop] the for/while state of auto_update
  refresh,   \* the all_oracle request in progress
  used       \* how much of each bound is spent

vars == <<head, chain, rows, summary, call, loop, refresh, used>>
node == <<head, chain>>

Threads == Workers \cup Callers
Log == [block: Nat, index: Nat, current: Values]
SummaryRow == [exists: BOOLEAN, min: Int, max: Int, has_data: BOOLEAN]
Call == [stage: {"none", "fetch", "insert", "done", "error"}, pair: Pairs,
         from: Int, to: Int, replace: BOOLEAN, batch: SUBSET Log]
Loop == [pc: {"off", "while", "for", "call"}, do_run: BOOLEAN,
         todo: SUBSET Pairs, snap: [Pairs -> SummaryRow]]
Refresh == [stage: {"idle", "range", "count", "save"}, todo: SUBSET Pairs,
            pair: Pairs, row: SummaryRow]

NoSummary == [exists |-> FALSE, min |-> -1, max |-> -1, has_data |-> FALSE]
NoCall == [stage |-> "none", pair |-> CHOOSE p \in Pairs : TRUE, from |-> 0,
           to |-> 0, replace |-> FALSE, batch |-> {}]
NoLoop == [pc |-> "off", do_run |-> TRUE, todo |-> {},
           snap |-> [p \in Pairs |-> NoSummary]]
NoRefresh == [stage |-> "idle", todo |-> {}, pair |-> CHOOSE p \in Pairs : TRUE,
              row |-> NoSummary]

Lesser(a, b) == IF a < b THEN a ELSE b

\* The logs a block b holds when its contents are c.
LogsAt(b, c) == {[block |-> b, index |-> e[1], current |-> e[2]] : e \in c}

TypeOK ==
  /\ head \in StartBlock..MaxBlock
  /\ chain \in [Pairs -> SUBSET Log]
  /\ rows \in [Pairs -> SUBSET Log]
  /\ summary \in [Pairs -> SummaryRow]
  /\ call \in [Threads -> Call]
  /\ loop \in [Workers -> Loop]
  /\ refresh \in Refresh
  /\ used \in [reorgs: 0..MaxReorgs, crashes: 0..MaxCrashes,
               refreshes: 0..MaxRefreshes, calls: 0..MaxCalls]

Init ==
  /\ head = InitialHead
  /\ \E c \in [Pairs -> [StartBlock..InitialHead -> BlockContents]] :
       chain = [p \in Pairs |->
                  UNION {LogsAt(b, c[p][b]) : b \in StartBlock..InitialHead}]
  /\ rows = [p \in Pairs |-> {}]
  /\ summary = [p \in Pairs |-> NoSummary]
  /\ call = [t \in Threads |-> NoCall]
  /\ loop = [w \in Workers |-> NoLoop]
  /\ refresh = NoRefresh
  /\ used = [reorgs |-> 0, crashes |-> 0, refreshes |-> 0, calls |-> 0]

-----------------------------------------------------------------------------
(* The archive node (external).                                            *)

Mine ==
  /\ head < MaxBlock
  /\ head' = head + 1
  /\ \E c \in [Pairs -> BlockContents] :
       chain' = [p \in Pairs |-> chain[p] \cup LogsAt(head + 1, c[p])]
  /\ UNCHANGED <<rows, summary, call, loop, refresh, used>>

\* The head block is replaced by a sibling. Nothing in the crawler waits for
\* confirmations: its windows end at the block the node reports as latest.
Reorg ==
  /\ used.reorgs < MaxReorgs
  /\ used' = [used EXCEPT !.reorgs = @ + 1]
  /\ \E c \in [Pairs -> BlockContents] :
       chain' = [p \in Pairs |->
                   {l \in chain[p] : l.block # head} \cup LogsAt(head, c[p])]
  /\ UNCHANGED <<head, rows, summary, call, loop, refresh>>

-----------------------------------------------------------------------------
(* update_data, run by a request thread or by an auto_update thread.       *)

\* get_log_data queries one contract for the whole window: the old one when
\* the window begins before the switch, the new one otherwise.
SameContract(p, a, b) == (a < SwitchBlock[p]) <=> (b < SwitchBlock[p])

Fetch(t) ==
  /\ call[t].stage = "fetch"
  /\ LET c == call[t]
         logs == {l \in chain[c.pair] : /\ c.from <= l.block /\ l.block <= c.to
                                        /\ SameContract(c.pair, c.from, l.block)}
     IN call' = [call EXCEPT ![t].batch = logs,
                             ![t].stage = IF logs = {} THEN "done" ELSE "insert"]
  /\ UNCHANGED <<head, chain, rows, summary, loop, refresh, used>>

Before(l, k) == l.block < k.block \/ (l.block = k.block /\ l.index <= k.index)

\* A stored row with the key of l and another price: get_or_create finds no
\* row with this price, inserts, and the unique key refuses.
Conflicts(p, l) == \E r \in rows[p] : /\ r.block = l.block
                                      /\ r.index = l.index
                                      /\ r.current # l.current

\* A slip of the next definition: rows are inserted in any order.
InsertPriceUnordered(t) ==
  /\ call[t].stage = "insert"
  /\ \E l \in call[t].batch :
       LET p == call[t].pair
           rest == call[t].batch \ {l}
       IN /\ ~Conflicts(p, l)
          /\ rows' = [rows EXCEPT ![p] = @ \cup {l}]
          /\ call' = [call EXCEPT ![t].batch = rest,
                        ![t].stage = IF rest = {} THEN "done" ELSE "insert"]
  /\ UNCHANGED <<head, chain, summary, loop, refresh, used>>

\* insert_price on the next log of the data frame, which keeps the node's
\* order. The IntegrityError leaves update_data before the replace branch;
\* without a conflict that branch rewrites the row with the value it has.
InsertPrice(t) ==
  /\ call[t].stage = "insert"
  /\ \E l \in call[t].batch :
       LET p == call[t].pair
           rest == call[t].batch \ {l}
       IN /\ \A k \in call[t].batch : Before(l, k)
          /\ \/ /\ ~Conflicts(p, l)
                /\ rows' = [rows EXCEPT ![p] = @ \cup {l}]
                /\ call' = [call EXCEPT ![t].batch = rest,
                              ![t].stage = IF rest = {} THEN "done" ELSE "insert"]
             \/ /\ Conflicts(p, l)
                /\ call' = [call EXCEPT ![t].stage = "error"]
                /\ UNCHANGED rows
  /\ UNCHANGED <<head, chain, summary, loop, refresh, used>>

Entering(p, from, to, replace) ==
  [stage |-> "fetch", pair |-> p, from |-> from, to |-> to,
   replace |-> replace, batch |-> {}]

\* How the operator uses the form (Readme section 4: a small first range, the
\* summary page, then auto_update): a range begins at StartBlock or inside what
\* the summary already reports, and the first crawl of a pair and the summary
\* page are not opened while the other is running.
Anchored(p, from) ==
  \/ from = StartBlock
  \/ summary[p].has_data /\ StartBlock <= from /\ from <= summary[p].max

Submit(c, p, from, to, replace) ==
  /\ call[c].stage = "none"
  /\ used.calls < MaxCalls
  /\ from < to
  /\ Anchored(p, from)
  /\ rows[p] = {} => refresh.stage = "idle"
  /\ call' = [call EXCEPT ![c] = Entering(p, from, to, replace)]
  /\ used' = [used EXCEPT !.calls = @ + 1]
  /\ UNCHANGED <<head, chain, rows, summary, loop, refresh>>

Respond(c) ==
  /\ call[c].stage \in {"done", "error"}
  /\ call' = [call EXCEPT ![c] = NoCall]
  /\ UNCHANGED <<head, chain, rows, summary, loop, refresh, used>>

-----------------------------------------------------------------------------
(* auto_update threads.                                                    *)

StartWorker(w) ==
  /\ loop[w].pc = "off"
  /\ loop' = [loop EXCEPT ![w] = [NoLoop EXCEPT !.pc = "while"]]
  /\ UNCHANGED <<head, chain, rows, summary, call, refresh, used>>

StopWorker(w) ==
  /\ loop[w].pc # "off" /\ loop[w].do_run
  /\ loop' = [loop EXCEPT ![w].do_run = FALSE]
  /\ UNCHANGED <<head, chain, rows, summary, call, refresh, used>>

\* `while do_run: for summary in Summary.objects.all()`: the query is
\* evaluated once, every row the body uses comes from this snapshot.
WhileLoop(w) ==
  /\ loop[w].pc = "while"
  /\ loop' = IF loop[w].do_run
             THEN [loop EXCEPT ![w].pc = "for", ![w].snap = summary,
                               ![w].todo = {p \in Pairs : summary[p].exists}]
             ELSE [loop EXCEPT ![w] = NoLoop]
  /\ UNCHANGED <<head, chain, rows, summary, call, refresh, used>>

EndFor(w) ==
  /\ loop[w].pc = "for"
  /\ loop[w].todo = {} \/ ~loop[w].do_run
  /\ loop' = [loop EXCEPT ![w].pc = "while", ![w].todo = {}]
  /\ UNCHANGED <<head, chain, rows, summary, call, refresh, used>>

\* A slip of the next definition: the window is one block short.
WindowToOffByOne(row) == Lesser(head, row.max + EachUpdateAmount - 1)

\* The window of a pair: from the snapshot's max, included, to the latest
\* block or each_update_amount further.
WindowTo(row) == Lesser(head, row.max + EachUpdateAmount)

\* A slip of the next definition: the window begins after the block max names.
NextPairSkipsMaxBlock(w, p) ==
  /\ loop[w].pc = "for" /\ loop[w].do_run
  /\ p \in loop[w].todo
  /\ loop[w].snap[p].has_data /\ head > loop[w].snap[p].max
  /\ LET row == loop[w].snap[p]
     IN call' = [call EXCEPT ![w] = Entering(p, row.max + 1, WindowTo(row), FALSE)]
  /\ loop' = [loop EXCEPT ![w].pc = "call"]
  /\ UNCHANGED <<head, chain, rows, summary, refresh, used>>

\* A slip of the next definition: the row is saved before the window is crawled.
NextPairSavesFirst(w, p) ==
  /\ loop[w].pc = "for" /\ loop[w].do_run
  /\ p \in loop[w].todo
  /\ LET row == loop[w].snap[p]
     IN /\ row.has_data /\ head > row.max
        /\ call' = [call EXCEPT ![w] = Entering(p, row.max, WindowTo(row), FALSE)]
        /\ summary' = [summary EXCEPT ![p] = [row EXCEPT !.max = WindowTo(row)]]
        /\ loop' = [loop EXCEPT ![w].pc = "call"]
  /\ UNCHANGED <<head, chain, rows, refresh, used>>

NextPair(w, p) ==
  /\ loop[w].pc = "for" /\ loop[w].do_run
  /\ p \in loop[w].todo
  /\ LET row == loop[w].snap[p]
     IN \/ /\ row.has_data /\ head > row.max
           /\ call' = [call EXCEPT ![w] = Entering(p, row.max, WindowTo(row), FALSE)]
           /\ loop' = [loop EXCEPT ![w].pc = "call"]
        \/ /\ ~(row.has_data /\ head > row.max)
           /\ loop' = [loop EXCEPT ![w].todo = @ \ {p}]
           /\ UNCHANGED call
  /\ UNCHANGED <<head, chain, rows, summary, refresh, used>>

\* A slip of the next definition: the row reports the head, not the end of the window.
SaveSummaryOfHead(w) ==
  /\ loop[w].pc = "call" /\ call[w].stage = "done"
  /\ LET p == call[w].pair
     IN /\ summary' = [summary EXCEPT ![p] = [loop[w].snap[p] EXCEPT !.max = head]]
        /\ loop' = [loop EXCEPT ![w].pc = "for", ![w].todo = @ \ {p}]
        /\ call' = [call EXCEPT ![w] = NoCall]
  /\ UNCHANGED <<head, chain, rows, refresh, used>>

\* summary.save() writes every field of the snapshot's row, min and amount
\* as they were when the loop began.
SaveSummary(w) ==
  /\ loop[w].pc = "call" /\ call[w].stage = "done"
  /\ LET p == call[w].pair
     IN /\ summary' = [summary EXCEPT ![p] =
                         [loop[w].snap[p] EXCEPT !.max = call[w].to]]
        /\ loop' = [loop EXCEPT ![w].pc = "for", ![w].todo = @ \ {p}]
        /\ call' = [call EXCEPT ![w] = NoCall]
  /\ UNCHANGED <<head, chain, rows, refresh, used>>

\* The IntegrityError of insert_price is not caught: the thread ends.
WorkerDies(w) ==
  /\ loop[w].pc = "call" /\ call[w].stage = "error"
  /\ loop' = [loop EXCEPT ![w] = NoLoop]
  /\ call' = [call EXCEPT ![w] = NoCall]
  /\ UNCHANGED <<head, chain, rows, summary, refresh, used>>

-----------------------------------------------------------------------------
(* all_oracle with update_summary=1: for every pair, one query for the     *)
(* bounds, one for the count, then the save.                               *)

Crawling(t, p) == call[t].stage \in {"fetch", "insert"} /\ call[t].pair = p

\* The request begins; the third conjunct is the operator's order of Submit.
RefreshBegin ==
  /\ refresh.stage = "idle"
  /\ used.refreshes < MaxRefreshes
  /\ \A p \in Pairs : rows[p] = {} => \A t \in Threads : ~Crawling(t, p)
  /\ refresh' = [refresh EXCEPT !.stage = "range", !.todo = Pairs]
  /\ used' = [used EXCEPT !.refreshes = @ + 1]
  /\ UNCHANGED <<head, chain, rows, summary, call, loop>>

\* m is the smallest (largest) block number of S, -1 when there is none.
IsMinBlock(m, S) == IF S = {} THEN m = -1
                    ELSE \E l \in S : m = l.block /\ \A k \in S : m <= k.block
IsMaxBlock(m, S) == IF S = {} THEN m = -1
                    ELSE \E l \in S : m = l.block /\ \A k \in S : k.block <= m

RefreshRange(p) ==
  /\ refresh.stage = "range" /\ p \in refresh.todo
  /\ \E lo, hi \in {-1} \cup {l.block : l \in rows[p]} :
       /\ IsMinBlock(lo, rows[p]) /\ IsMaxBlock(hi, rows[p])
       /\ refresh' = [refresh EXCEPT !.stage = "count", !.pair = p,
                        !.row = [exists |-> TRUE, min |-> lo, max |-> hi,
                                 has_data |-> FALSE]]
  /\ UNCHANGED <<head, chain, rows, summary, call, loop, used>>

\* A slip of the next definition: the bounds read before are not kept.
RefreshCountOnly ==
  /\ refresh.stage = "count"
  /\ refresh' = [refresh EXCEPT !.stage = "save",
                   !.row = [exists |-> TRUE, has_data |-> rows[refresh.pair] # {}]]
  /\ UNCHANGED <<head, chain, rows, summary, call, loop, used>>

RefreshCount ==
  /\ refresh.stage = "count"
  /\ refresh' = [refresh EXCEPT !.stage = "save",
                   !.row.has_data = (rows[refresh.pair] # {})]
  /\ UNCHANGED <<head, chain, rows, summary, call, loop, used>>

RefreshSave ==
  /\ refresh.stage = "save"
  /\ summary' = [summary EXCEPT ![refresh.pair] = refresh.row]
  /\ LET rest == refresh.todo \ {refresh.pair}
     IN refresh' = IF rest = {} THEN NoRefresh
                   ELSE [NoRefresh EXCEPT !.stage = "range", !.todo = rest]
  /\ UNCHANGED <<head, chain, rows, call, loop, used>>

-----------------------------------------------------------------------------
\* A Go call (the log query, or the latest block number) gets an error from
\* the node: log.Fatal ends the Django process, and with it every thread and
\* request. The tables keep what was committed.
NodeError ==
  /\ used.crashes < MaxCrashes
  /\ \/ \E t \in Threads : call[t].stage = "fetch"
     \/ \E w \in Workers : loop[w].pc = "for" /\ loop[w].do_run /\ loop[w].todo # {}
  /\ call' = [t \in Threads |-> NoCall]
  /\ loop' = [w \in Workers |-> NoLoop]
  /\ refresh' = NoRefresh
  /\ used' = [used EXCEPT !.crashes = @ + 1]
  /\ UNCHANGED <<head, chain, rows, summary>>

Environment == Mine \/ Reorg \/ NodeError
UpdateData(t) == Fetch(t) \/ InsertPrice(t)
Operator == \E c \in Callers :
              \/ Respond(c)
              \/ \E p \in Pairs, from, to \in StartBlock..MaxBlock, replace \in BOOLEAN :
                   Submit(c, p, from, to, replace)
AutoUpdate(w) ==
  \/ WhileLoop(w) \/ EndFor(w) \/ SaveSummary(w) \/ WorkerDies(w)
  \/ \E p \in Pairs : NextPair(w, p)
AllOracle ==
  \/ RefreshBegin \/ RefreshCount \/ RefreshSave
  \/ \E p \in Pairs : RefreshRange(p)

Next ==
  \/ Environment \/ Operator \/ AllOracle
  \/ \E t \in Threads : UpdateData(t)
  \/ \E w \in Workers : StartWorker(w) \/ StopWorker(w) \/ AutoUpdate(w)

Spec == Init /\ [][Next]_vars

\* A started thread and a request run to their end; nothing makes the operator
\* click, the node mine, or a worker be started or stopped.
Fairness ==
  /\ \A t \in Threads : WF_vars(UpdateData(t))
  /\ \A w \in Workers : WF_vars(AutoUpdate(w))
  /\ WF_vars(RefreshCount) /\ WF_vars(RefreshSave)
  /\ \A p \in Pairs : WF_vars(RefreshRange(p))

FairSpec == Spec /\ Fairness

-----------------------------------------------------------------------------
(* Properties.                                                             *)

\* The Price table has no hole: a log of the chain that precedes a stored row
\* of its pair is stored too. Windows that overlap by one block, inserts one
\* row at a time, stale snapshots and exits half-way through a data frame all
\* have to leave it so (update_data, insert_price, auto_update). After a
\* reorganisation of a head block that was crawled already, the order inside
\* that block is lost, and a log may be missing where a row of the block's
\* sibling stands in its place; but no other log is passed over.
Precedes(l, r) == IF used.reorgs = 0 THEN Before(l, r) ELSE l.block < r.block
NoHoles ==
  \A p \in Pairs : \A l \in chain[p], r \in rows[p] :
    Precedes(l, r) => l \in rows[p] \/ Conflicts(p, l)

\* The promise of PrefixCopy, with the Price table as the copy: while the chain
\* is not reorganised, every insert of any thread takes the first log missing.
Copy == INSTANCE PrefixCopy WITH source <- chain, copy <- rows
PricesFollowTheChain == Copy!Spec

\* What a Summary row reports is there: every log from its min up to its max,
\* max excluded (that block may be half inserted), is stored or in conflict
\* with a row of a reorganised block, and max is not beyond the node's head.
\* auto_update resumes from max and never looks back, so a row that claimed
\* more would be a loss for good.
SummaryIsStored ==
  \A p \in Pairs : summary[p].has_data =>
    /\ summary[p].max <= head
    /\ \A l \in chain[p] :
         summary[p].min <= l.block /\ l.block < summary[p].max
           => l \in rows[p] \/ Conflicts(p, l)

\* Readme 2.1, "automatically updates all existing data to the latest block":
\* while an auto_update thread is (re)started whenever it is down and is not
\* stopped, every pair it has data of ends up with every log below the head.
KeptRunning(w) == []<>(loop[w].pc # "off") /\ <>[](loop[w].do_run)
UpToDate(p) == summary[p].has_data =>
                 \A l \in chain[p] : l.block < head => l \in rows[p]
AutoUpdateCatchesUp ==
  (\E w \in Workers : KeptRunning(w)) => <>[](\A p \in Pairs : UpToDate(p))

=============================================================================
