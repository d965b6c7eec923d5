----------------------------- MODULE LendingPool -----------------------------
(***************************************************************************)
(* The AAVE crawl of the debtmonitor app: update_data fetches the lending  *)
(* pool's logs of a block range and stores them action by action, each     *)
(* action with a LendingPoolUpdateSummary row of its own, and at the end   *)
(* saves the row "overall", the range the crawl claims to have. auto_update *)
(* threads extend that range forward to the head or, with reverse=1,       *)
(* backward to the block that created the contract.                        *)
(*                                                                         *)
(* A log is a block and an action: which logs of an action a block holds,  *)
(* their index and their fields make no difference to the bookkeeping.     *)
(***************************************************************************)
EXTENDS Integers, FiniteSets

CONSTANTS
  Actions,        \* aave_log_details
  Rank,           \* [Actions -> Nat] their order there
  NoData,         \* actions whose log has an empty data part
  NotKept,        \* actions no table takes (FlashLoan)
  Unknown,        \* events of the pool that are not in it (Paused, Unpaused)
  BlockContents,  \* what one block can hold: sets of topics
  Crawlers,       \* auto_update threads
  Callers,        \* request threads that run update_data
  CreateBlock,    \* contract_create_block
  InitialHead,    \* head of the chain when the server starts
  MaxBlock,       \* bound: last block mined
  EachUpdateAmount, \* each_update_amount
  MaxInt,         \* default of min_block_number, above every block
  MaxDirections,  \* bound: values of reverse the crawlers are started with
  MaxExits,       \* bound: exits of the process
  MaxCalls        \* bound: update_data requests submitted by hand

ASSUME ActorsAssumption == Crawlers \cap Callers = {}
ASSUME ActionsAssumption ==
  /\ Rank \in [Actions -> Nat]
  /\ \A a, b \in Actions : Rank[a] = Rank[b] => a = b
  /\ NoData \subseteq Actions /\ NotKept \subseteq Actions \ NoData
  /\ "overall" \notin Actions /\ Unknown \cap Actions = {}
  /\ BlockContents \subseteq SUBSET (Actions \cup Unknown)
ASSUME BlocksAssumption ==
  /\ CreateBlock \in Nat \ {0} /\ InitialHead \in Nat /\ MaxBlock \in Nat /\ MaxInt \in Nat
  /\ CreateBlock <= InitialHead /\ InitialHead <= MaxBlock /\ MaxBlock < MaxInt
ASSUME WindowAssumption == EachUpdateAmount \in Nat \ {0}
ASSUME BoundsAssumption ==
  MaxDirections \in 1..2 /\ MaxExits \in Nat /\ MaxCalls \in Nat

VARIABLES
  head,     \* number of the node's latest block
  chain,    \* set of the lending pool's logs on the chain
  rows,     \* set of the logs in the tables of their actions
  summary,  \* [Names -> Span] the LendingPoolUpdateSummary table
  call,     \* [Threads -> Call] the update_data call a thread is in
  loop,     \* [Crawlers -> Loop] the state of auto_update
  used      \* how much of each bound is spent

vars == <<head, chain, rows, summary, call, loop, used>>

Threads == Crawlers \cup Callers
Names == Actions \cup {"overall"}
Log == [block: Nat, action: Actions \cup Unknown]
Span == [min: Int, max: Int]
Call == [stage: {"none", "fetch", "read", "store", "record", "overall", "done", "error"},
         from: Int, to: Int, batch: SUBSET Log, record: Span, bn: SUBSET Nat]
Loop == [pc: {"off", "while", "window", "call"}, do_run: BOOLEAN, reverse: BOOLEAN,
         snap: Span]

NoSpan == [min |-> MaxInt, max |-> -1]
NoCall == [stage |-> "none", from |-> 0, to |-> 0, batch |-> {}, record |-> NoSpan, bn |-> {}]
NoLoop == [pc |-> "off", do_run |-> TRUE, reverse |-> FALSE, snap |-> NoSpan]

Lesser(a, b) == IF a < b THEN a ELSE b
Greater(a, b) == IF a < b THEN b ELSE a
LogsAt(b, c) == {[block |-> b, action |-> a] : a \in c}
overall == summary["overall"]

TypeOK ==
  /\ head \in CreateBlock..MaxBlock
  /\ chain \in SUBSET Log /\ rows \in SUBSET Log
  /\ summary \in [Names -> Span]
  /\ call \in [Threads -> Call]
  /\ loop \in [Crawlers -> Loop]
  /\ used \in [exits: 0..MaxExits, calls: 0..MaxCalls, directions: SUBSET BOOLEAN]

Init ==
  /\ head = InitialHead
  /\ \E c \in [CreateBlock..InitialHead -> BlockContents] :
       chain = UNION {LogsAt(b, c[b]) : b \in CreateBlock..InitialHead}
  /\ rows = {}
  /\ summary = [n \in Names |-> NoSpan]
  /\ call = [t \in Threads |-> NoCall]
  /\ loop = [c \in Crawlers |-> NoLoop]
  /\ used = [exits |-> 0, calls |-> 0, directions |-> {}]

-----------------------------------------------------------------------------
(* The node and the process (external).                                    *)

Mine ==
  /\ head < MaxBlock
  /\ head' = head + 1
  /\ \E c \in BlockContents : chain' = chain \cup LogsAt(head + 1, c)
  /\ UNCHANGED <<rows, summary, call, loop, used>>

\* The server is stopped, or a Go call of any thread meets an error and
\* log.Fatal ends the process; the tables keep what was committed.
Exit ==
  /\ used.exits < MaxExits
  /\ used' = [used EXCEPT !.exits = @ + 1]
  /\ call' = [t \in Threads |-> NoCall]
  /\ loop' = [c \in Crawlers |-> NoLoop]
  /\ UNCHANGED <<head, chain, rows, summary>>

-----------------------------------------------------------------------------
(* update_data                                                             *)

Entering(from, to) == [NoCall EXCEPT !.stage = "fetch", !.from = from, !.to = to]

\* No log at all: "No Data". A log whose topic is not known: AssertionError.
\* Logs of actions without a data part are dropped (the topic of
\* ignore_topic0, too); when no other log is left, update_record is unbound
\* where the overall row is computed, and the call raises.
Fetch(t) ==
  /\ call[t].stage = "fetch"
  /\ LET c == call[t]
         logs == {l \in chain : c.from <= l.block /\ l.block <= c.to}
         kept == {l \in logs : l.action \in Actions \ NoData}
         raises == kept = {} \/ \E l \in logs : l.action \in Unknown
     IN call' = [call EXCEPT ![t].batch = kept,
                   ![t].stage = IF logs = {} THEN "done"
                                ELSE IF raises THEN "error" ELSE "read"]
  /\ UNCHANGED <<head, chain, rows, summary, loop, used>>

\* The actions of log_df_dict come in the order of aave_log_details.
Current(c, a) == /\ \E l \in c.batch : l.action = a
                 /\ \A l \in c.batch : Rank[a] <= Rank[l.action]
LogsOf(c, a) == {l \in c.batch : l.action = a}

\* get_or_create of the action's summary row.
ReadRecord(t) ==
  /\ call[t].stage = "read"
  /\ \E a \in Actions : /\ Current(call[t], a)
                        /\ call' = [call EXCEPT ![t].stage = "store",
                                                ![t].record = summary[a]]
  /\ UNCHANGED <<head, chain, rows, summary, loop, used>>

\* bulk_create failed, on a row that is there already: a save per row, those
\* that exist passed over. Other threads and an exit come between two of them.
StoreRow(t) ==
  /\ call[t].stage = "store"
  /\ \E a \in Actions \ NotKept :
       LET logs == LogsOf(call[t], a)
       IN /\ Current(call[t], a) /\ logs \cap rows # {}
          /\ \E l \in logs \ rows : rows' = rows \cup {l}
  /\ UNCHANGED <<head, chain, summary, call, loop, used>>

\* A slip of the next definition: the batch of the last action is lost.
StoreButLast(t) ==
  /\ call[t].stage = "store"
  /\ \E a \in Actions :
       LET logs == LogsOf(call[t], a)
       IN /\ Current(call[t], a) /\ a \notin NotKept
          /\ rows' = IF logs = call[t].batch THEN rows ELSE rows \cup logs
          /\ call' = [call EXCEPT ![t].stage = "record",
                                  ![t].bn = {l.block : l \in logs}]
  /\ UNCHANGED <<head, chain, summary, loop, used>>

\* bulk_create, or the end of the saves: either way the rows are all there. An
\* action no table takes leaves bn, the blocks the summary is computed from, as
\* the previous action set it; max(bn) raises when there was none.
Store(t) ==
  /\ call[t].stage = "store"
  /\ \E a \in Actions :
       LET logs == LogsOf(call[t], a)
       IN /\ Current(call[t], a)
          /\ \/ /\ a \notin NotKept
                /\ rows' = rows \cup logs
                /\ call' = [call EXCEPT ![t].stage = "record",
                                        ![t].bn = {l.block : l \in logs}]
             \/ /\ a \in NotKept
                /\ call' = [call EXCEPT
                     ![t].stage = IF call[t].bn = {} THEN "error" ELSE "record"]
                /\ UNCHANGED rows
  /\ UNCHANGED <<head, chain, summary, loop, used>>

\* The span that covers a span and some blocks.
Extended(s, blocks) ==
  [min |-> CHOOSE m \in blocks \cup {s.min} : \A b \in blocks \cup {s.min} : m <= b,
   max |-> CHOOSE m \in blocks \cup {s.max} : \A b \in blocks \cup {s.max} : b <= m]

\* A slip of the next definition: only the maximum is assigned.
SaveRecordMax(t) ==
  /\ call[t].stage = "record"
  /\ \E a \in Actions :
       LET record == [max |-> Extended(call[t].record, call[t].bn).max]
           rest == call[t].batch \ LogsOf(call[t], a)
       IN /\ Current(call[t], a)
          /\ summary' = [summary EXCEPT ![a] = record]
          /\ call' = [call EXCEPT ![t].batch = rest, ![t].record = record,
                        ![t].stage = IF rest = {} THEN "overall" ELSE "read"]
  /\ UNCHANGED <<head, chain, rows, loop, used>>

SaveRecord(t) ==
  /\ call[t].stage = "record"
  /\ \E a \in Actions :
       LET record == Extended(call[t].record, call[t].bn)
           rest == call[t].batch \ LogsOf(call[t], a)
       IN /\ Current(call[t], a)
          /\ summary' = [summary EXCEPT ![a] = record]
          /\ call' = [call EXCEPT ![t].batch = rest, ![t].record = record,
                        ![t].stage = IF rest = {} THEN "overall" ELSE "read"]
  /\ UNCHANGED <<head, chain, rows, loop, used>>

\* The overall row is computed from the last action's row, not from itself.
SaveOverall(t) ==
  /\ call[t].stage = "overall"
  /\ LET c == call[t]
     IN summary' = [summary EXCEPT !["overall"] =
                      [min |-> Lesser(c.from, c.record.min),
                       max |-> Greater(c.to, c.record.max)]]
  /\ call' = [call EXCEPT ![t].stage = "done"]
  /\ UNCHANGED <<head, chain, rows, loop, used>>

\* How the operator uses the form (Readme section 4): the first request seeds
\* the range before a crawler is started, a later one touches the range; each
\* asks for blocks the node has.
Submit(c, from, to) ==
  /\ call[c].stage = "none"
  /\ used.calls < MaxCalls
  /\ from <= to /\ to <= head
  /\ overall = NoSpan \/ (from <= overall.max + 1 /\ overall.min <= to + 1)
  /\ call' = [call EXCEPT ![c] = Entering(from, to)]
  /\ used' = [used EXCEPT !.calls = @ + 1]
  /\ UNCHANGED <<head, chain, rows, summary, loop>>

Respond(c) ==
  /\ call[c].stage \in {"done", "error"}
  /\ call' = [call EXCEPT ![c] = NoCall]
  /\ UNCHANGED <<head, chain, rows, summary, loop, used>>

-----------------------------------------------------------------------------
(* auto_update                                                             *)

StartCrawler(c, reverse) ==
  /\ loop[c].pc = "off"
  /\ overall # NoSpan
  /\ Cardinality(used.directions \cup {reverse}) <= MaxDirections
  /\ used' = [used EXCEPT !.directions = @ \cup {reverse}]
  /\ loop' = [loop EXCEPT ![c] = [NoLoop EXCEPT !.pc = "while", !.reverse = reverse]]
  /\ UNCHANGED <<head, chain, rows, summary, call>>

StopCrawler(c) ==
  /\ loop[c].pc # "off" /\ loop[c].do_run
  /\ loop' = [loop EXCEPT ![c].do_run = FALSE]
  /\ UNCHANGED <<head, chain, rows, summary, call, used>>

ReadOverall(c) ==
  /\ loop[c].pc = "while"
  /\ loop' = IF loop[c].do_run
             THEN [loop EXCEPT ![c].pc = "window", ![c].snap = overall]
             ELSE [loop EXCEPT ![c] = NoLoop]
  /\ UNCHANGED <<head, chain, rows, summary, call, used>>

\* The blocks still missing on the crawler's side of the range, and the part
\* of them next to the range that one call takes.
Missing(l) == IF l.reverse THEN <<CreateBlock, l.snap.min - 1>> ELSE <<l.snap.max + 1, head>>
Window(l) ==
  LET m == Missing(l)
  IN IF l.reverse THEN <<Greater(m[1], m[2] - EachUpdateAmount + 1), m[2]>>
                  ELSE <<m[1], Lesser(m[2], m[1] + EachUpdateAmount - 1)>>

\* A slip of the next definition: more than a full window must be missing.
EnterWindowLate(c) ==
  /\ loop[c].pc = "window"
  /\ LET m == Missing(loop[c])
         w == Window(loop[c])
     IN \/ /\ m[1] + EachUpdateAmount <= m[2]
           /\ call' = [call EXCEPT ![c] = Entering(w[1], w[2])]
           /\ loop' = [loop EXCEPT ![c].pc = "call"]
        \/ /\ m[2] < m[1] + EachUpdateAmount
           /\ loop' = [loop EXCEPT ![c].pc = "while"]
           /\ UNCHANGED call
  /\ UNCHANGED <<head, chain, rows, summary, used>>

\* latest_block is read here, the wait that follows lies before Fetch.
\* block_to > block_from: at least two blocks have to be missing. The second
\* test, of the window against the range, then always holds.
EnterWindow(c) ==
  /\ loop[c].pc = "window"
  /\ LET m == Missing(loop[c])
         w == Window(loop[c])
     IN \/ /\ m[1] < m[2]
           /\ call' = [call EXCEPT ![c] = Entering(w[1], w[2])]
           /\ loop' = [loop EXCEPT ![c].pc = "call"]
        \/ /\ m[2] <= m[1]
           /\ loop' = [loop EXCEPT ![c].pc = "while"]
           /\ UNCHANGED call
  /\ UNCHANGED <<head, chain, rows, summary, used>>

\* update_data returns to the loop, or raises out of it: the thread ends.
Return(c) ==
  /\ loop[c].pc = "call"
  /\ \/ /\ call[c].stage = "done"
        /\ loop' = [loop EXCEPT ![c].pc = "while"]
     \/ /\ call[c].stage = "error"
        /\ loop' = [loop EXCEPT ![c] = NoLoop]
  /\ call' = [call EXCEPT ![c] = NoCall]
  /\ UNCHANGED <<head, chain, rows, summary, used>>

UpdateData(t) ==
  \/ Fetch(t) \/ ReadRecord(t) \/ StoreRow(t) \/ Store(t) \/ SaveRecord(t)
  \/ SaveOverall(t)
AutoUpdate(c) == ReadOverall(c) \/ EnterWindow(c) \/ Return(c)

Next ==
  \/ Mine \/ Exit
  \/ \E t \in Threads : UpdateData(t)
  \/ \E c \in Callers : \/ Respond(c)
                        \/ \E from, to \in CreateBlock..MaxBlock : Submit(c, from, to)
  \/ \E c \in Crawlers : \/ StopCrawler(c) \/ AutoUpdate(c)
                         \/ \E reverse \in BOOLEAN : StartCrawler(c, reverse)

Spec == Init /\ [][Next]_vars

\* A started thread runs; nobody has to click, and blocks need not be mined.
Fairness ==
  /\ \A t \in Threads : WF_vars(UpdateData(t))
  /\ \A c \in Crawlers : WF_vars(AutoUpdate(c))

FairSpec == Spec /\ Fairness

-----------------------------------------------------------------------------
(* Properties.                                                             *)

Within(b, s) == s.min <= b /\ b <= s.max
Kept(l) == l.action \in Actions \ (NoData \cup NotKept)

\* The overall range is what the page shows as "The Summary of the Log data
\* crawled from aave lending pool in our database": every log in it that a
\* table takes is stored. The crawlers never look inside it again, so what
\* it claims too much is lost for good. It is computed from the row of one
\* action, whatever was stored of the others when the process last ended.
OverallIsStored ==
  \A l \in chain : Kept(l) /\ l.block <= head /\ Within(l.block, overall) => l \in rows

\* A crawler that is not stopped, is started again whenever an exit takes it
\* down, and keeps its direction.
KeptRunning(c, reverse) ==
  /\ []<>(loop[c].pc # "off")
  /\ <>[](loop[c].do_run /\ (loop[c].pc # "off" => loop[c].reverse = reverse))
Stored(b) == \A l \in chain : l.block = b /\ Kept(l) => l \in rows
\* What update_data gets through, and marks as crawled: no topic that it does
\* not know, and a log that a table takes before any flash loan. A window
\* without a log returns "No Data" before the overall row is saved; the others
\* raise, and the crawler meets the same window again after every restart.
Crawlable(logs) ==
  /\ \A l \in logs : l.action \in Actions
  /\ \E l \in logs : /\ Kept(l)
                     /\ \A k \in logs : k.action \in NotKept => Rank[l.action] < Rank[k.action]

\* Every window of full length is such.
Fed ==
  \A b \in CreateBlock..(head - EachUpdateAmount + 1) :
    Crawlable({l \in chain : l.block \in b..(b + EachUpdateAmount - 1)})

\* While the full windows are such, such a forward crawler stores the logs of
\* each block past the range that begins one, the newest block excepted (Readme
\* 3.2: one click "will automatically start all database updating"): neither a
\* short window at the head nor an exit in the middle of one leaves a log
\* behind for good.
ForwardCatchesUp ==
  \A c \in Crawlers : []Fed /\ KeptRunning(c, FALSE) =>
    \A b \in (CreateBlock + 1)..(MaxBlock - 1) :
      (overall # NoSpan /\ overall.max < b /\ b < head /\ b + EachUpdateAmount - 1 <= head)
        ~> Stored(b)

\* While the full windows are such, such a reverse crawler stores those of each
\* block before the range that ends one, down to the one after
\* contract_create_block.
ReverseReachesCreation ==
  \A c \in Crawlers : []Fed /\ KeptRunning(c, TRUE) =>
    \A b \in (CreateBlock + 1)..(MaxBlock - 1) :
      (/\ overall # NoSpan /\ b < overall.min
       /\ CreateBlock < b /\ CreateBlock + EachUpdateAmount - 1 <= b) ~> Stored(b)

=============================================================================
