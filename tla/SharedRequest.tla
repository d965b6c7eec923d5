---------------------------- MODULE SharedRequest ----------------------------
(***************************************************************************)
(* How the two crawlers get their block range: through request.POST. Each  *)
(* auto_update writes block_from and block_to into the POST dictionary of  *)
(* the request it was given, then calls update_data with that request. A   *)
(* start button of the main page makes a request per crawler; auto_main    *)
(* hands its one request object to both.                                   *)
(*                                                                         *)
(* The crawls themselves are those of DataStorage and LendingPool, taken   *)
(* here in one step: one pair, every block holding a log of every action.  *)
(* What is fine-grained instead is every statement that touches the POST.  *)
(***************************************************************************)
EXTENDS Integers

CONSTANTS
  PricesTo,     \* Summary.max_block_number when the server starts
  PoolTo,       \* max_block_number of the overall row when the server starts
  InitialHead, MaxBlock,  \* head when the server starts; bound: last block mined
  PriceAmount,  \* each_update_amount of datastorage
  PoolAmount    \* each_update_amount of debtmonitor

ASSUME SharedAssumption ==
  /\ PricesTo \in Nat \ {0} /\ PoolTo \in Nat \ {0}
  /\ InitialHead \in Nat /\ MaxBlock \in Nat
  /\ PricesTo <= InitialHead /\ PoolTo <= InitialHead /\ InitialHead <= MaxBlock
  /\ PriceAmount \in Nat \ {0} /\ PoolAmount \in Nat \ {0}

VARIABLES
  shared,  \* TRUE: started by auto_main; FALSE: by a button each
  head,    \* the node's latest block
  post,    \* [Requests -> Post] request.POST of each request object
  pc,      \* [Crawlers -> ...] the statement of auto_update each is at
  snap,    \* [Crawlers -> ...] its copies of the saved range and of the head
  max,     \* [Crawlers -> Nat] the saved end of the range
  crawled  \* [Crawlers -> set of blocks] whose logs are stored

vars == <<shared, head, post, pc, snap, max, crawled>>

Crawlers == {"datastorage", "lending_pool"}
Requests == Crawlers
NoKey == 0                       \* no block of interest has number 0
Post == [from: Nat, to: Nat, pair: BOOLEAN]  \* pair: oracle, token0, token1, replace
NoPost == [from |-> NoKey, to |-> NoKey, pair |-> FALSE]

\* The request object a crawler was given.
Req(c) == IF shared THEN "datastorage" ELSE c
P(c) == post[Req(c)]
Amount(c) == IF c = "datastorage" THEN PriceAmount ELSE PoolAmount
NextFrom(c) == IF c = "datastorage" THEN snap[c].max ELSE snap[c].max + 1
\* A slip of the next definition: the window is cut on its other side.
WindowEndBackward(c, from) ==
  IF c = "datastorage" THEN from - PriceAmount ELSE from - PoolAmount - 1
\* The last block of the longest window that begins at a block.
WindowEnd(c, from) == IF c = "datastorage" THEN from + PriceAmount ELSE from + PoolAmount - 1
Known(c) == P(c).from # NoKey /\ P(c).to # NoKey

TypeOK ==
  /\ shared \in BOOLEAN
  /\ head \in InitialHead..MaxBlock
  /\ post \in [Requests -> Post]
  /\ pc \in [Crawlers -> {"start", "while", "from", "to", "test", "clip", "cut", "call", "save", "dead"}]
  /\ snap \in [Crawlers -> [max: Nat, latest: Nat]]
  /\ max \in [Crawlers -> Nat]
  /\ crawled \in [Crawlers -> SUBSET Nat]

Init ==
  /\ shared \in BOOLEAN
  /\ head = InitialHead
  /\ post = [r \in Requests |-> NoPost]
  /\ pc = [c \in Crawlers |-> "start"]
  /\ snap = [c \in Crawlers |-> [max |-> 0, latest |-> 0]]
  /\ max = [c \in Crawlers |-> IF c = "datastorage" THEN PricesTo ELSE PoolTo]
  /\ crawled = [c \in Crawlers |-> 1..max[c]]

Goto(c, l) == pc' = [pc EXCEPT ![c] = l]

Mine ==
  /\ head < MaxBlock
  /\ head' = head + 1
  /\ UNCHANGED <<shared, post, pc, snap, max, crawled>>

-----------------------------------------------------------------------------
(* auto_update                                                             *)

\* request.POST = {} before the loop.
Start(c) ==
  /\ pc[c] = "start"
  /\ post' = [post EXCEPT ![Req(c)] = NoPost]
  /\ Goto(c, "while")
  /\ UNCHANGED <<shared, head, snap, max, crawled>>

\* The summary row and the head are read.
ReadRange(c) ==
  /\ pc[c] = "while"
  /\ snap' = [snap EXCEPT ![c] = [max |-> max[c], latest |-> head]]
  /\ Goto(c, "from")
  /\ UNCHANGED <<shared, head, post, max, crawled>>

\* datastorage names the pair first.
SetFrom(c) ==
  /\ pc[c] = "from"
  /\ post' = [post EXCEPT ![Req(c)].from = NextFrom(c),
                          ![Req(c)].pair = @ \/ c = "datastorage"]
  /\ Goto(c, "to")
  /\ UNCHANGED <<shared, head, snap, max, crawled>>

SetTo(c) ==
  /\ pc[c] = "to"
  /\ post' = [post EXCEPT ![Req(c)].to = snap[c].latest]
  /\ Goto(c, "test")
  /\ UNCHANGED <<shared, head, snap, max, crawled>>

\* A statement that reads a key another thread has just dropped raises.
KeyError(c) ==
  /\ pc[c] \in {"test", "clip", "cut", "call", "save"}
  /\ ~Known(c)
  /\ Goto(c, "dead")
  /\ UNCHANGED <<shared, head, post, snap, max, crawled>>

Test(c) ==
  /\ pc[c] = "test" /\ Known(c)
  /\ Goto(c, IF P(c).to > P(c).from THEN "clip" ELSE "while")
  /\ UNCHANGED <<shared, head, post, snap, max, crawled>>

Clip(c) ==
  /\ pc[c] = "clip" /\ Known(c)
  /\ Goto(c, IF P(c).to > WindowEnd(c, P(c).from) THEN "cut" ELSE "call")
  /\ UNCHANGED <<shared, head, post, snap, max, crawled>>

\* A slip of the next definition: the end of the window is one block short.
CutShort(c) ==
  /\ pc[c] = "cut" /\ Known(c)
  /\ post' = [post EXCEPT ![Req(c)].to = WindowEnd(c, P(c).from) - 1]
  /\ Goto(c, "call")
  /\ UNCHANGED <<shared, head, snap, max, crawled>>

Cut(c) ==
  /\ pc[c] = "cut" /\ Known(c)
  /\ post' = [post EXCEPT ![Req(c)].to = WindowEnd(c, P(c).from)]
  /\ Goto(c, "call")
  /\ UNCHANGED <<shared, head, snap, max, crawled>>

\* update_data of datastorage: the range is read once at its beginning, and
\* must not be empty (nor a key be gone); auto_update saves its row afterwards.
UpdatePrices ==
  LET c == "datastorage"
  IN /\ pc[c] = "call" /\ Known(c)
     /\ \/ /\ P(c).to <= snap[c].max
           /\ Goto(c, "while") /\ UNCHANGED crawled
        \/ /\ P(c).to > snap[c].max /\ (P(c).to <= P(c).from \/ ~P(c).pair)
           /\ Goto(c, "dead") /\ UNCHANGED crawled
        \/ /\ P(c).to > snap[c].max /\ P(c).to > P(c).from /\ P(c).pair
           /\ crawled' = [crawled EXCEPT ![c] = @ \cup P(c).from..P(c).to]
           /\ Goto(c, "save")
     /\ UNCHANGED <<shared, head, post, snap, max>>

\* A slip of the next definition: the end saved is that of the node's chain.
SaveSummaryOfLatest ==
  LET c == "datastorage"
  IN /\ pc[c] = "save" /\ Known(c)
     /\ max' = [max EXCEPT ![c] = snap[c].latest]
     /\ Goto(c, "while")
     /\ UNCHANGED <<shared, head, post, snap, crawled>>

\* summary.max_block_number = request.POST['block_to'], read again after the
\* minutes update_data takes.
SaveSummary ==
  LET c == "datastorage"
  IN /\ pc[c] = "save" /\ Known(c)
     /\ max' = [max EXCEPT ![c] = P(c).to]
     /\ Goto(c, "while")
     /\ UNCHANGED <<shared, head, post, snap, crawled>>

Largest(S) == CHOOSE m \in S : \A n \in S : n <= m

\* update_data of debtmonitor: saves the overall row itself, with the block_to
\* it read at its beginning and the last block its tables now hold. The other
\* half of auto_update's test, block_from below the range, never holds here.
UpdatePool ==
  LET c == "lending_pool"
      blocks == crawled[c] \cup P(c).from..P(c).to
  IN /\ pc[c] = "call" /\ Known(c)
     /\ \/ /\ P(c).to <= snap[c].max
           /\ Goto(c, "while") /\ UNCHANGED <<max, crawled>>
        \/ /\ P(c).to > snap[c].max /\ P(c).to < P(c).from
           /\ Goto(c, "dead") /\ UNCHANGED <<max, crawled>>
        \/ /\ P(c).to > snap[c].max /\ P(c).to >= P(c).from
           /\ crawled' = [crawled EXCEPT ![c] = blocks]
           /\ max' = [max EXCEPT ![c] = Largest(blocks)]
           /\ Goto(c, "while")
     /\ UNCHANGED <<shared, head, post, snap>>

AutoUpdate(c) ==
  \/ Start(c) \/ ReadRange(c) \/ SetFrom(c) \/ SetTo(c) \/ KeyError(c) \/ Test(c)
  \/ Clip(c) \/ Cut(c)
Next ==
  \/ Mine
  \/ \E c \in Crawlers : AutoUpdate(c)
  \/ UpdatePrices \/ SaveSummary \/ UpdatePool

Spec == Init /\ [][Next]_vars

\* Both threads run.
Fairness ==
  /\ \A c \in Crawlers : WF_vars(AutoUpdate(c))
  /\ WF_vars(UpdatePrices) /\ WF_vars(SaveSummary) /\ WF_vars(UpdatePool)

FairSpec == Spec /\ Fairness

-----------------------------------------------------------------------------
(* Properties.                                                             *)

\* No crawler claims a block it has not crawled: the saved end of a range is
\* where its next window begins, so the block would never be looked at again
\* (datastorage/views.py:719, debtmonitor/views.py:405).
RangeIsCrawled == \A c \in Crawlers : 1..max[c] \subseteq crawled[c]

\* Started by a button each, the crawlers keep apart.
OwnRangeIsCrawled == shared \/ RangeIsCrawled

\* Both databases come up to the block before the latest (Readme 3.2: one
\* click "will automatically start all database updating").
BothCatchUp ==
  <>[](\A c \in Crawlers : 1..(head - 1) \subseteq crawled[c])

\* Started by a button each, they do.
OwnCatchUp == shared \/ BothCatchUp

=============================================================================
