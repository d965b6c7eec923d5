------------------------------ MODULE BlockTime ------------------------------
(***************************************************************************)
(* The table of block times: update_block and block_time_auto_update       *)
(* (datastorage/views.py 102-240), and the Go call get_block_time they     *)
(* make (eth_crawler/main.go 520-605), which cuts the range into chunks,   *)
(* fetches each in a goroutine, waits for all and joins what they sent.    *)
(*                                                                         *)
(* Block.number is a key of BlockNumber, so Min('number') and Max('number')*)
(* are row numbers of that table, allotted as its rows are made by any     *)
(* crawl, and not the numbers of the blocks.                               *)
(***************************************************************************)
EXTENDS Integers, FiniteSets, SequencesExt

CONSTANTS
  Loops,         \* threads of block_time_auto_update
  Callers,       \* requests of update_block
  FirstBlock,    \* first block a request asks for
  StartBlock,    \* 12980000
  InitialHead, MaxBlock,  \* head when the server starts; bound: last block
  EachUpdateAmount,
  PNum,          \* p_num: the range is cut into that many chunks
  MaxOthers,     \* bound: rows of BlockNumber made by other crawls
  MaxRequests,   \* bound: requests
  MaxErrors      \* bound: errors of the node

Blocks == FirstBlock..MaxBlock

\* BlockNumber has fewer rows than the chain had blocks at StartBlock.
ASSUME BlockTimeAssumption ==
  /\ FirstBlock \in Nat /\ StartBlock \in Blocks /\ InitialHead \in Blocks
  /\ MaxBlock \in Nat /\ Cardinality(Blocks) < FirstBlock
  /\ EachUpdateAmount \in Nat \ {0} /\ PNum \in Nat \ {0}
  /\ MaxOthers \in Nat /\ MaxRequests \in Nat /\ MaxErrors \in Nat
  /\ Loops \cap Callers = {}

VARIABLES
  head,     \* the node's latest block
  numbered, \* the blocks that have a row in BlockNumber
  blocks,   \* the blocks that have a row in Block
  keys,     \* Min('number') and Max('number') of Block, {} for None
  call,     \* [Threads -> Call]
  used      \* how much of each bound is spent

vars == <<head, numbered, blocks, keys, call, used>>

Threads == Loops \cup Callers

\* seen: the keys read at the beginning. sent: the chunks in the channel,
\* named by their first block. todo: rows still to be gone through, each the
\* place of its chunk in the channel and its block.
Call == [pc: {"off", "while", "go", "rows"}, from: Nat, to: Nat,
         seen: SUBSET Nat, sent: Seq(Nat), todo: SUBSET (Nat \X Nat)]
Off == [pc |-> "off", from |-> 0, to |-> 0, seen |-> {}, sent |-> <<>>, todo |-> {}]

TypeOK ==
  /\ head \in InitialHead..MaxBlock
  /\ numbered \subseteq Nat /\ blocks \subseteq numbered
  /\ keys \subseteq 1..Cardinality(numbered) /\ Cardinality(keys) <= 2
  /\ call \in [Threads -> Call]
  /\ used \in [others: 0..MaxOthers, requests: 0..MaxRequests, errors: 0..MaxErrors]

Init ==
  /\ head = InitialHead
  /\ numbered = {} /\ blocks = {} /\ keys = {}
  /\ call = [t \in Threads |-> Off]
  /\ used = [others |-> 0, requests |-> 0, errors |-> 0]

Steps(t, c) == call' = [call EXCEPT ![t] = c]

\* A slip of the next definition: a number that is there is taken for its own
\* key.
InsertByNumber(n) ==
  /\ numbered' = numbered \cup {n}
  /\ blocks' = blocks \cup {n}
  /\ keys' = LET all == keys \cup {n}
             IN {i \in all : (\A j \in all : i <= j) \/ (\A j \in all : i >= j)}

\* BlockNumber.objects.get_or_create(number=n), Block.objects.create: a new
\* number has the next key, one that is there any key given so far.
Insert(n) ==
  /\ numbered' = numbered \cup {n}
  /\ blocks' = blocks \cup {n}
  /\ IF n \in blocks THEN UNCHANGED keys
     ELSE \E k \in IF n \in numbered THEN 1..Cardinality(numbered)
                                    ELSE {Cardinality(numbered) + 1} :
            keys' = LET all == keys \cup {k}
                    IN {i \in all : (\A j \in all : i <= j) \/ (\A j \in all : i >= j)}

Mine ==
  /\ head < MaxBlock
  /\ head' = head + 1
  /\ UNCHANGED <<numbered, blocks, keys, call, used>>

\* insert_price and update_data of debtmonitor number blocks, too.
OtherCrawl(n) ==
  /\ used.others < MaxOthers /\ n \notin numbered
  /\ numbered' = numbered \cup {n}
  /\ used' = [used EXCEPT !.others = @ + 1]
  /\ UNCHANGED <<head, blocks, keys, call>>

-----------------------------------------------------------------------------
(* Python: a window is chosen, update_block is entered.                    *)

Entered(from, to) ==
  [pc |-> "go", from |-> from, to |-> to, seen |-> keys, sent |-> <<>>, todo |-> {}]

StartAuto(a) ==
  /\ call[a].pc = "off"
  /\ Steps(a, [Off EXCEPT !.pc = "while"])
  /\ UNCHANGED <<head, numbered, blocks, keys, used>>

\* max_block_num, or 12980000 if it is less.
AutoFrom == IF \E i \in keys : i >= StartBlock
            THEN CHOOSE i \in keys : \A j \in keys : i >= j
            ELSE StartBlock

NextWindow(a) ==
  LET to == IF head > AutoFrom + EachUpdateAmount THEN AutoFrom + EachUpdateAmount ELSE head
  IN /\ call[a].pc = "while" /\ to > AutoFrom
     /\ Steps(a, Entered(AutoFrom, to))
     /\ UNCHANGED <<head, numbered, blocks, keys, used>>

Request(c, from, to) ==
  /\ call[c].pc = "off" /\ to > from /\ used.requests < MaxRequests
  /\ used' = [used EXCEPT !.requests = @ + 1]
  /\ Steps(c, Entered(from, to))
  /\ UNCHANGED <<head, numbered, blocks, keys>>

-----------------------------------------------------------------------------
(* Go: get_block_time                                                      *)

\* A slip of the next definition: a channel for p_num results.
CapacityOne == PNum
Capacity == PNum * 2

\* ceil((to - from) / p_num)
Gap(c) == (c.to - c.from + PNum - 1) \div PNum
Chunks(c) == {b \in c.from..c.to : (b - c.from) % Gap(c) = 0}
\* A slip of the next definition: the goroutine asks for one block more.
ChunkEndAfter(c, b) == b + Gap(c) + 1
ChunkEnd(c, b) == b + Gap(c)
Waiting(c) == Chunks(c) \ ToSet(c.sent)

\* get_multiple_block_info sends its headers and is done.
Send(t, b) ==
  LET c == call[t]
  IN /\ b \in Waiting(c)
     /\ ChunkEnd(c, b) <= head
     /\ Len(c.sent) < Capacity
     /\ Steps(t, [c EXCEPT !.sent = Append(@, b)])
     /\ UNCHANGED <<head, numbered, blocks, keys, used>>

\* The latest block cannot be had; or a connection or a header fails, whatever
\* the reason, in a goroutine that has not sent yet: log.Fatal ends the server.
NodeError(t) ==
  /\ call[t].pc = "while" \/ (call[t].pc = "go" /\ Waiting(call[t]) # {})
  /\ used.errors < MaxErrors
  /\ used' = [used EXCEPT !.errors = @ + 1]
  /\ call' = [s \in Threads |-> Off]
  /\ UNCHANGED <<head, numbered, blocks, keys>>

\* A header the node does not have is such an error on every try.
Fatal(t, b) ==
  LET c == call[t]
  IN /\ b \in Waiting(c)
     /\ ChunkEnd(c, b) > head
     /\ call' = [s \in Threads |-> Off]
     /\ UNCHANGED <<head, numbered, blocks, keys, used>>

\* The rows of the JSON object the results are joined to, keys as they came:
\* a block of two chunks keeps its first place.
Chunk(c, b) == b..ChunkEnd(c, b)
Joined(c) ==
  {r \in (DOMAIN c.sent) \X (c.from..ChunkEnd(c, c.to)) :
     /\ r[2] \in Chunk(c, c.sent[r[1]])
     /\ \A j \in 1..(r[1] - 1) : r[2] \notin Chunk(c, c.sent[j])}

\* A slip of the next definition: the last result stays in the channel.
ReceiveAllButOne(t) ==
  LET c == call[t]
      received == [c EXCEPT !.sent = SubSeq(@, 1, Len(@) - 1)]
  IN /\ c.pc = "go" /\ Waiting(c) = {}
     /\ Steps(t, [c EXCEPT !.pc = "rows", !.sent = <<>>, !.todo = Joined(received)])
     /\ UNCHANGED <<head, numbered, blocks, keys, used>>

\* wg.Wait returns when every goroutine is done; then the results are received.
Receive(t) ==
  LET c == call[t]
  IN /\ c.pc = "go" /\ Waiting(c) = {}
     /\ Steps(t, [c EXCEPT !.pc = "rows", !.sent = <<>>, !.todo = Joined(c)])
     /\ UNCHANGED <<head, numbered, blocks, keys, used>>

-----------------------------------------------------------------------------
(* Python: the rows are inserted.                                          *)

\* tmp_block_num < min_block_num or tmp_block_num > max_block_num
New(c, n) == (\A i \in c.seen : n < i) \/ (\A i \in c.seen : n > i)

\* The next row: of the earliest chunk, its least block.
First(r, rows) ==
  r \in rows /\ \A s \in rows : r[1] < s[1] \/ (r[1] = s[1] /\ r[2] <= s[2])

\* A slip of the next definition: the row that exists is kept, the loop goes on.
InsertRowOrSkip(t) ==
  LET c == call[t]
  IN /\ c.pc = "rows"
     /\ \E r \in c.todo :
          /\ First(r, c.todo)
          /\ Insert(r[2])
          /\ Steps(t, [c EXCEPT !.todo = @ \ {r}])
     /\ UNCHANGED <<head, used>>

\* Block.objects.create raises for a block that has a row, out of the thread.
InsertRow(t) ==
  LET c == call[t]
  IN /\ c.pc = "rows"
     /\ \E r \in c.todo :
          /\ First(r, c.todo)
          /\ IF New(c, r[2]) THEN Insert(r[2]) ELSE UNCHANGED <<numbered, blocks, keys>>
          /\ Steps(t, IF New(c, r[2]) /\ r[2] \in blocks THEN Off
                      ELSE [c EXCEPT !.todo = @ \ {r}])
     /\ UNCHANGED <<head, used>>

Return(t) ==
  /\ call[t].pc = "rows" /\ call[t].todo = {}
  /\ Steps(t, IF t \in Loops THEN [Off EXCEPT !.pc = "while"] ELSE Off)
  /\ UNCHANGED <<head, numbered, blocks, keys, used>>

Run(t) ==
  \/ t \in Loops /\ NextWindow(t)
  \/ call[t].pc = "go" /\ \E b \in Chunks(call[t]) : Send(t, b) \/ Fatal(t, b)
  \/ Receive(t) \/ InsertRow(t) \/ Return(t)

Next ==
  \/ Mine \/ \E n \in Blocks : OtherCrawl(n)
  \/ \E a \in Loops : StartAuto(a)
  \/ \E c \in Callers, from, to \in Blocks : Request(c, from, to)
  \/ \E t \in Threads : Run(t) \/ NodeError(t)

Spec == Init /\ [][Next]_vars

\* A thread that has begun is scheduled; nothing is assumed of the node, nor
\* of the operator.
FairSpec == Spec /\ \A t \in Threads : WF_vars(Run(t))

-----------------------------------------------------------------------------
(* Properties.                                                             *)

\* Whatever the order in which the goroutines send their chunks, every block
\* of the range is stored or among the rows to be inserted.
RangeIsStored ==
  \A t \in Threads : call[t].pc = "rows" =>
    call[t].from..call[t].to \subseteq blocks \cup {r[2] : r \in call[t].todo}

\* The last chunk goes past the range, by a chunk at most: while the node
\* answers, the server is ended only by a range that comes within a chunk of the
\* head. (An error of the node ends it whatever the range.)
ExitsOnlyNearHead ==
  [][(\E t \in Threads : call[t].pc = "go" /\ call'[t].pc = "off")
       /\ used'.errors = used.errors =>
     \E t \in Threads : call[t].pc = "go" /\ call[t].to + Gap(call[t]) > head]_vars

\* No goroutine waits for room in the channel while nobody receives: a call
\* to the library ends, or the process does.
CallEnds == \A t \in Threads : call[t].pc = "go" ~> call[t].pc # "go"

\* Since the aggregate is of keys, every window of block_time_auto_update
\* begins at StartBlock: its second window raises, if the first did not end
\* the server. No such thread stays to keep the table up to date.
AutoUpdateEnds ==
  \A a \in Loops : (call[a].pc = "while" /\ head > StartBlock) ~> call[a].pc = "off"

=============================================================================
