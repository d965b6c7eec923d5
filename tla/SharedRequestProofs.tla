------------------------- MODULE SharedRequestProofs -------------------------
(***************************************************************************)
(* What two crawlers keep that were started by a button each, for any      *)
(* chain and any window lengths: neither claims a block it has not crawled,*)
(* neither ends by an exception, and no range is taken back by a save.     *)
(* (With one request for both all three fail.)                             *)
(***************************************************************************)
EXTENDS SharedRequest, TLAPS, WellFoundedInduction

-----------------------------------------------------------------------------
(* The inductive invariant.                                                *)

\* A crawler has blocks, and they end somewhere: the largest is well defined.
HasEnd(S) == \E b \in Nat : \A n \in S : n \in Nat /\ n <= b
Ends == \A c \in Crawlers : HasEnd(crawled[c])

\* A crawler with a POST of its own: what it has copied and written is still
\* what it reads, up to the end of the turn.
Own(c) ==
  /\ 1..max[c] \subseteq crawled[c]
  /\ c = "lending_pool" => \A n \in crawled[c] : n <= max[c]
  /\ pc[c] \in {"from", "to", "test", "clip", "cut", "call", "save"} => snap[c].max = max[c]
  /\ pc[c] \in {"to", "test", "clip", "cut", "call", "save"} => post[c].from = NextFrom(c)
  /\ pc[c] = "save" => post[c].from..post[c].to \subseteq crawled[c]
OwnTurns == ~shared => \A c \in Crawlers : Own(c)

IInv == TypeOK /\ Ends /\ OwnTurns

-----------------------------------------------------------------------------
(* Lemmas.                                                                 *)

\* Some natural numbers that are bounded have a largest.
LEMMA LargestOf ==
  ASSUME NEW S, NEW b \in Nat, \A n \in S : n \in Nat /\ n <= b, S # {}
  PROVE  Largest(S) \in S /\ \A n \in S : n <= Largest(S)
<1> DEFINE T == {b - n : n \in S}
           R == OpToRel(<, Nat)
<1>1. T \subseteq Nat /\ T # {}
  <2>1. \A n \in S : b - n \in Nat
    OBVIOUS
  <2> QED BY <2>1
<1>2. IsWellFoundedOn(R, Nat)
  BY NatLessThanWellFounded
<1>3. PICK m \in T : \A k \in T : <<k, m>> \notin R
  <2> HIDE DEF T, R
  <2> QED BY <1>1, <1>2, WFMin
<1>4. \A k \in T : ~(k < m)
  BY <1>1, <1>3 DEF OpToRel
<1>5. PICK y \in S : m = b - y
  OBVIOUS
<1>6. \A n \in S : ~(b - n < b - y)
  BY <1>4, <1>5
<1>7. \A n \in S : n <= y
  <2> HIDE DEF T, R
  <2> QED BY <1>6
<1> QED BY <1>5, <1>7 DEF Largest

\* Blocks with an end, and a window, have an end.
LEMMA EndOfUnion ==
  ASSUME NEW S, HasEnd(S), NEW from \in Nat, NEW to \in Nat
  PROVE  HasEnd(S \cup from..to)
<1>1. PICK b \in Nat : \A n \in S : n \in Nat /\ n <= b
  BY DEF HasEnd
<1>2. CASE b <= to
  BY <1>1, <1>2 DEF HasEnd
<1>3. CASE to <= b
  BY <1>1, <1>3 DEF HasEnd
<1> QED BY <1>2, <1>3

\* The numbers of the state are numbers.
LEMMA Typed ==
  ASSUME TypeOK, NEW c \in Crawlers
  PROVE  /\ Req(c) \in Requests /\ (~shared => Req(c) = c)
         /\ P(c) \in Post /\ P(c).from \in Nat /\ P(c).to \in Nat /\ P(c).pair \in BOOLEAN
         /\ snap[c].max \in Nat /\ snap[c].latest \in Nat /\ max[c] \in Nat
         /\ NextFrom(c) \in Nat /\ WindowEnd(c, P(c).from) \in Nat
         /\ head \in Nat /\ c \in Requests
<1>1. Req(c) \in Requests /\ (~shared => Req(c) = c) /\ c \in Requests
  BY DEF Req, Requests, Crawlers
<1>2. P(c) \in Post /\ P(c).from \in Nat /\ P(c).to \in Nat /\ P(c).pair \in BOOLEAN
  BY <1>1 DEF TypeOK, P, Post
<1>3. snap[c].max \in Nat /\ snap[c].latest \in Nat /\ max[c] \in Nat
  BY DEF TypeOK
<1> QED BY <1>1, <1>2, <1>3, SharedAssumption DEF TypeOK, NextFrom, WindowEnd

\* A step of one crawler leaves the other's turn as it is.
LEMMA OneTurn ==
  ASSUME IInv, NEW c \in Crawlers, UNCHANGED shared, ~shared => Own(c)',
         ~shared => \A d \in Crawlers : d # c =>
           /\ post'[d] = post[d] /\ pc'[d] = pc[d] /\ snap'[d] = snap[d]
           /\ max'[d] = max[d] /\ crawled'[d] = crawled[d]
  PROVE  OwnTurns'
<1> SUFFICES ASSUME ~shared, NEW d \in Crawlers
             PROVE  Own(d)'
  BY DEF OwnTurns
<1>1. CASE d = c
  BY <1>1
<1>2. CASE d # c
  <2>1. Own(d)
    BY DEF IInv, OwnTurns
  <2> QED BY <1>2, <2>1 DEF Own, NextFrom
<1> QED BY <1>1, <1>2

\* A step that only moves on, without a claim.
LEMMA MovesOn ==
  ASSUME IInv, NEW c \in Crawlers, UNCHANGED <<shared, head, snap, max, crawled>>,
         NEW l \in {"while", "to", "test", "clip", "cut", "call", "dead"}, Goto(c, l),
         post' \in [Requests -> Post],
         \A r \in Requests : r # Req(c) => post'[r] = post[r],
         l \in {"to", "test", "clip", "cut", "call"} /\ ~shared =>
           pc[c] \in {"from", "to", "test", "clip", "cut", "call"} /\ post'[c].from = NextFrom(c)
  PROVE  IInv'
<1>1. pc' \in [Crawlers -> {"start", "while", "from", "to", "test", "clip", "cut", "call", "save", "dead"}]
      /\ pc'[c] = l /\ \A d \in Crawlers : d # c => pc'[d] = pc[d]
  BY DEF IInv, TypeOK, Goto
<1>2. TypeOK' /\ Ends'
  BY <1>1 DEF IInv, TypeOK, Ends, HasEnd
<1>3. ~shared => Own(c)'
  <2> SUFFICES ASSUME ~shared
               PROVE  Own(c)'
    OBVIOUS
  <2>1. Own(c)
    BY DEF IInv, OwnTurns
  <2> QED BY <1>1, <2>1 DEF Own, NextFrom
<1>4. ~shared => \A d \in Crawlers : d # c => post'[d] = post[d]
  BY Typed DEF IInv, Requests
<1>5. OwnTurns'
  BY <1>1, <1>3, <1>4, OneTurn
<1> QED BY <1>2, <1>5 DEF IInv

-----------------------------------------------------------------------------
(* The steps of auto_update.                                               *)

\* The POST is dropped before the loop.
LEMMA StartInv ==
  ASSUME IInv, NEW c \in Crawlers, Start(c)
  PROVE  IInv'
<1>1. NoPost \in Post
  BY DEF NoPost, Post, NoKey
<1>2. Req(c) \in Requests /\ post \in [Requests -> Post]
  BY Typed DEF IInv, TypeOK
<1> QED BY <1>1, <1>2, MovesOn DEF Start

\* The saved range is copied.
LEMMA ReadRangeInv ==
  ASSUME IInv, NEW c \in Crawlers, ReadRange(c)
  PROVE  IInv'
<1>1. /\ pc[c] = "while" /\ UNCHANGED <<shared, head, post, max, crawled>>
      /\ snap' = [snap EXCEPT ![c] = [max |-> max[c], latest |-> head]]
      /\ pc' = [pc EXCEPT ![c] = "from"]
  BY DEF ReadRange, Goto
<1>2. max[c] \in Nat /\ head \in Nat
  BY Typed DEF IInv
<1>3. /\ snap' \in [Crawlers -> [max: Nat, latest: Nat]] /\ snap'[c].max = max[c]
      /\ pc' \in [Crawlers -> {"start", "while", "from", "to", "test", "clip", "cut", "call", "save", "dead"}]
      /\ pc'[c] = "from"
      /\ \A d \in Crawlers : d # c => snap'[d] = snap[d] /\ pc'[d] = pc[d]
  BY <1>1, <1>2 DEF IInv, TypeOK
<1>4. TypeOK' /\ Ends'
  BY <1>1, <1>3 DEF IInv, TypeOK, Ends, HasEnd
<1>5. ~shared => Own(c)'
  <2>1. ~shared => Own(c)
    BY DEF IInv, OwnTurns
  <2> QED BY <1>1, <1>3, <2>1 DEF Own
<1>6. OwnTurns'
  BY <1>1, <1>3, <1>5, OneTurn
<1> QED BY <1>4, <1>6 DEF IInv

\* The first block of the window is written.
LEMMA SetFromInv ==
  ASSUME IInv, NEW c \in Crawlers, SetFrom(c)
  PROVE  IInv'
<1> DEFINE r == Req(c)
           p == [post[r] EXCEPT !.from = NextFrom(c), !.pair = @ \/ c = "datastorage"]
<1>1. /\ pc[c] = "from" /\ UNCHANGED <<shared, head, snap, max, crawled>> /\ Goto(c, "to")
      /\ r \in Requests /\ (~shared => r = c) /\ post \in [Requests -> Post]
      /\ NextFrom(c) \in Nat /\ post[r] \in Post
  BY Typed DEF SetFrom, IInv, TypeOK
<1>2. post' = [post EXCEPT ![r] = p]
  BY <1>1 DEF SetFrom
<1>3. p \in Post /\ p.from = NextFrom(c)
  BY <1>1 DEF Post
<1> HIDE DEF p, r
<1>4. /\ post' \in [Requests -> Post] /\ post'[r] = p
      /\ \A q \in Requests : q # r => post'[q] = post[q]
  BY <1>1, <1>2, <1>3
<1> QED BY <1>1, <1>3, <1>4, MovesOn DEF r

\* The last block is written, or cut to the length of a window.
LEMMA SetToInv ==
  ASSUME IInv, NEW c \in Crawlers, SetTo(c) \/ Cut(c)
  PROVE  IInv'
<1> DEFINE r == Req(c)
<1>1. PICK to \in Nat, l \in {"test", "call"} :
        /\ UNCHANGED <<shared, head, snap, max, crawled>> /\ Goto(c, l)
        /\ post' = [post EXCEPT ![r].to = to] /\ pc[c] \in {"to", "cut"}
  BY Typed DEF SetTo, Cut, IInv
<1>2. /\ r \in Requests /\ (~shared => r = c) /\ post \in [Requests -> Post] /\ post[r] \in Post
  BY Typed DEF IInv, TypeOK
<1> DEFINE p == [post[r] EXCEPT !.to = to]
<1>3. p \in Post /\ p.from = post[r].from /\ post' = [post EXCEPT ![r] = p]
  BY <1>1, <1>2 DEF Post
<1> HIDE DEF p, r
<1>4. /\ post' \in [Requests -> Post] /\ post'[r] = p
      /\ \A q \in Requests : q # r => post'[q] = post[q]
  BY <1>2, <1>3
<1>5. ~shared => post[c].from = NextFrom(c)
  BY <1>1 DEF IInv, OwnTurns, Own
<1> QED BY <1>1, <1>2, <1>3, <1>4, <1>5, MovesOn DEF r

\* Nothing is written: a key is missing, or one of the tests is made.
LEMMA TestInv ==
  ASSUME IInv, NEW c \in Crawlers, KeyError(c) \/ Test(c) \/ Clip(c)
  PROVE  IInv'
<1>1. post \in [Requests -> Post]
  BY DEF IInv, TypeOK
<1>2. PICK l \in {"while", "clip", "cut", "call", "dead"} :
        /\ UNCHANGED <<shared, head, post, snap, max, crawled>> /\ Goto(c, l)
        /\ l \in {"clip", "cut", "call"} => pc[c] \in {"test", "clip"}
  BY DEF KeyError, Test, Clip
<1>3. ~shared /\ pc[c] \in {"test", "clip"} => post[c].from = NextFrom(c)
  BY DEF IInv, OwnTurns, Own
<1> QED BY <1>1, <1>2, <1>3, MovesOn

-----------------------------------------------------------------------------
(* update_data of either app, and the row that is saved.                   *)

\* The window of the price crawl is inserted, or there is nothing to insert.
LEMMA UpdatePricesInv ==
  ASSUME IInv, UpdatePrices
  PROVE  IInv'
<1> DEFINE c == "datastorage"
<1>1. /\ pc[c] = "call" /\ UNCHANGED <<shared, head, post, snap, max>> /\ c \in Crawlers
      /\ post \in [Requests -> Post]
  BY DEF UpdatePrices, Crawlers, IInv, TypeOK
<1>2. CASE UNCHANGED crawled /\ (Goto(c, "while") \/ Goto(c, "dead"))
  BY <1>1, <1>2, MovesOn
<1>3. CASE crawled' = [crawled EXCEPT ![c] = @ \cup P(c).from..P(c).to] /\ Goto(c, "save")
  <2>1. P(c).from \in Nat /\ P(c).to \in Nat /\ (~shared => P(c) = post[c])
    BY <1>1, Typed DEF IInv, P
  <2>2. /\ crawled' \in [Crawlers -> SUBSET Nat]
        /\ crawled'[c] = crawled[c] \cup P(c).from..P(c).to
        /\ pc' \in [Crawlers -> {"start", "while", "from", "to", "test", "clip", "cut", "call", "save", "dead"}]
        /\ pc'[c] = "save"
        /\ \A d \in Crawlers : d # c => crawled'[d] = crawled[d] /\ pc'[d] = pc[d]
    BY <1>1, <1>3, <2>1 DEF Goto, IInv, TypeOK
  <2>3. TypeOK'
    BY <1>1, <2>2 DEF IInv, TypeOK
  <2>4. Ends'
    <3>1. HasEnd(crawled'[c])
      BY <1>1, <2>1, <2>2, EndOfUnion DEF IInv, Ends
    <3> QED BY <2>2, <3>1 DEF IInv, Ends, HasEnd
  <2>5. ~shared => Own(c)'
    <3>1. ~shared => Own(c)
      BY <1>1 DEF IInv, OwnTurns
    <3> QED BY <1>1, <2>1, <2>2, <3>1 DEF Own, NextFrom
  <2>6. OwnTurns'
    BY <1>1, <2>2, <2>5, OneTurn
  <2> QED BY <2>3, <2>4, <2>6 DEF IInv
<1> QED BY <1>2, <1>3 DEF UpdatePrices

\* The Summary row is saved: what the POST says now is what was inserted.
LEMMA SaveSummaryInv ==
  ASSUME IInv, SaveSummary
  PROVE  IInv'
<1> DEFINE c == "datastorage"
<1>1. /\ pc[c] = "save" /\ UNCHANGED <<shared, head, post, snap, crawled>> /\ c \in Crawlers
      /\ max' = [max EXCEPT ![c] = P(c).to] /\ pc' = [pc EXCEPT ![c] = "while"]
  BY DEF SaveSummary, Crawlers, Goto
<1>2. P(c).to \in Nat /\ P(c).from \in Nat /\ (~shared => P(c) = post[c])
  BY <1>1, Typed DEF IInv, P
<1>3. /\ max' \in [Crawlers -> Nat] /\ max'[c] = P(c).to
      /\ pc' \in [Crawlers -> {"start", "while", "from", "to", "test", "clip", "cut", "call", "save", "dead"}]
      /\ pc'[c] = "while"
      /\ \A d \in Crawlers : d # c => max'[d] = max[d] /\ pc'[d] = pc[d]
  BY <1>1, <1>2 DEF IInv, TypeOK
<1>4. TypeOK' /\ Ends'
  BY <1>1, <1>3 DEF IInv, TypeOK, Ends, HasEnd
<1>5. ~shared => Own(c)'
  <2> SUFFICES ASSUME ~shared
               PROVE  Own(c)'
    OBVIOUS
  <2>1. /\ 1..max[c] \subseteq crawled[c] /\ post[c].from = max[c]
        /\ post[c].from..post[c].to \subseteq crawled[c] /\ max[c] \in Nat
    BY <1>1, Typed DEF IInv, OwnTurns, Own, NextFrom
  <2>2. 1..post[c].to \subseteq crawled[c]
    BY <1>2, <2>1
  <2> QED BY <1>1, <1>2, <1>3, <2>2 DEF Own
<1>6. OwnTurns'
  BY <1>1, <1>3, <1>5, OneTurn
<1> QED BY <1>4, <1>6 DEF IInv

\* The window of the pool's crawl is stored; its last block is the new end.
LEMMA UpdatePoolInv ==
  ASSUME IInv, UpdatePool
  PROVE  IInv'
<1> DEFINE c == "lending_pool"
           blocks == crawled[c] \cup P(c).from..P(c).to
<1>1. /\ pc[c] = "call" /\ UNCHANGED <<shared, head, post, snap>> /\ c \in Crawlers
      /\ post \in [Requests -> Post]
  BY DEF UpdatePool, Crawlers, IInv, TypeOK
<1>2. CASE UNCHANGED <<max, crawled>> /\ (Goto(c, "while") \/ Goto(c, "dead"))
  BY <1>1, <1>2, MovesOn
<1>3. CASE /\ P(c).to >= P(c).from
           /\ crawled' = [crawled EXCEPT ![c] = blocks]
           /\ max' = [max EXCEPT ![c] = Largest(blocks)]
           /\ Goto(c, "while")
  <2>1. P(c).from \in Nat /\ P(c).to \in Nat /\ (~shared => P(c) = post[c])
    BY <1>1, Typed DEF IInv, P
  <2>2. HasEnd(blocks) /\ P(c).to \in blocks
    BY <1>1, <1>3, <2>1, EndOfUnion DEF IInv, Ends
  <2>3. blocks \subseteq Nat
    BY <2>2 DEF HasEnd
  <2>4. Largest(blocks) \in blocks /\ \A n \in blocks : n <= Largest(blocks)
    <3>1. PICK b \in Nat : \A n \in blocks : n \in Nat /\ n <= b
      BY <2>2 DEF HasEnd
    <3> HIDE DEF blocks
    <3> QED BY <2>2, <3>1, LargestOf
  <2>5. /\ crawled' \in [Crawlers -> SUBSET Nat] /\ crawled'[c] = blocks
        /\ max' \in [Crawlers -> Nat] /\ max'[c] = Largest(blocks)
        /\ pc' \in [Crawlers -> {"start", "while", "from", "to", "test", "clip", "cut", "call", "save", "dead"}]
        /\ pc'[c] = "while"
        /\ \A d \in Crawlers : d # c => crawled'[d] = crawled[d] /\ max'[d] = max[d] /\ pc'[d] = pc[d]
    <3> HIDE DEF blocks
    <3> QED BY <1>1, <1>3, <2>3, <2>4 DEF Goto, IInv, TypeOK
  <2>6. TypeOK'
    BY <1>1, <2>5 DEF IInv, TypeOK
  <2>7. Ends'
    <3> HIDE DEF blocks
    <3> QED BY <2>2, <2>5 DEF IInv, Ends, HasEnd
  <2>8. ~shared => Own(c)'
    <3> SUFFICES ASSUME ~shared
                 PROVE  Own(c)'
      OBVIOUS
    <3>1. /\ 1..max[c] \subseteq crawled[c] /\ post[c].from = max[c] + 1 /\ max[c] \in Nat
          /\ \A n \in crawled[c] : n <= max[c]
      BY <1>1, Typed DEF IInv, OwnTurns, Own, NextFrom
    <3>2. \A n \in blocks : n <= P(c).to
      <4>1. \A n \in crawled[c] : n \in Nat /\ n <= max[c]
        BY <1>1, <3>1 DEF IInv, TypeOK
      <4> QED BY <1>3, <2>1, <3>1, <4>1
    <3>3. Largest(blocks) = P(c).to
      BY <2>1, <2>2, <2>3, <2>4, <3>2
    <3>4. 1..P(c).to \subseteq blocks
      BY <2>1, <3>1
    <3> HIDE DEF blocks
    <3> QED BY <2>4, <2>5, <3>3, <3>4 DEF Own
  <2>9. OwnTurns'
    BY <1>1, <2>5, <2>8, OneTurn
  <2> QED BY <2>6, <2>7, <2>9 DEF IInv
<1> QED BY <1>2, <1>3 DEF UpdatePool

-----------------------------------------------------------------------------
(* The theorems.                                                           *)

\* Both crawlers have what their summary rows say when the server starts.
LEMMA InvInit == Init => IInv
<1> SUFFICES ASSUME Init
             PROVE  IInv
  OBVIOUS
<1>1. \A c \in Crawlers : /\ pc[c] = "start" /\ max[c] \in Nat /\ crawled[c] = 1..max[c]
                          /\ c = "datastorage" \/ c = "lending_pool"
  BY SharedAssumption DEF Init, Crawlers
<1>2. NoPost \in Post
  BY DEF NoPost, Post, NoKey
<1>3. TypeOK
  <2>1. /\ head \in InitialHead..MaxBlock /\ post \in [Requests -> Post]
        /\ pc \in [Crawlers -> {"start", "while", "from", "to", "test", "clip", "cut", "call", "save", "dead"}]
        /\ snap \in [Crawlers -> [max: Nat, latest: Nat]]
    BY <1>2, SharedAssumption DEF Init
  <2>2. max \in [Crawlers -> Nat] /\ crawled \in [Crawlers -> SUBSET Nat]
    BY <1>1, SharedAssumption DEF Init
  <2>3. shared \in BOOLEAN
    BY DEF Init
  <2> QED BY <2>1, <2>2, <2>3 DEF TypeOK
<1>4. Ends
  BY <1>1 DEF Ends, HasEnd
<1>5. OwnTurns
  BY <1>1 DEF OwnTurns, Own
<1> QED BY <1>3, <1>4, <1>5 DEF IInv

\* Every step keeps the invariant.
LEMMA InvStep == IInv /\ [Next]_vars => IInv'
<1> SUFFICES ASSUME IInv, [Next]_vars
             PROVE  IInv'
  OBVIOUS
<1>1. CASE Mine
  <2>1. head' \in InitialHead..MaxBlock
    BY <1>1, SharedAssumption DEF Mine, IInv, TypeOK
  <2> QED BY <1>1, <2>1 DEF Mine, IInv, TypeOK, Ends, HasEnd, OwnTurns, Own, NextFrom
<1>2. ASSUME NEW c \in Crawlers, AutoUpdate(c)
      PROVE  IInv'
  BY <1>2, StartInv, ReadRangeInv, SetFromInv, SetToInv, TestInv DEF AutoUpdate
<1>3. CASE UpdatePrices \/ SaveSummary \/ UpdatePool
  BY <1>3, UpdatePricesInv, SaveSummaryInv, UpdatePoolInv
<1>4. CASE UNCHANGED vars
  BY <1>4 DEF vars, IInv, TypeOK, Ends, HasEnd, OwnTurns, Own, NextFrom
<1> QED BY <1>1, <1>2, <1>3, <1>4 DEF Next

\* The invariant holds throughout.
LEMMA Invariant == Spec => []IInv
BY InvInit, InvStep, PTL DEF Spec

\* The state of the two crawlers keeps its types, with one request as well:
\* the tables of the pool's crawl always have a last block.
THEOREM SharedRequestTypes == Spec => []TypeOK
<1>1. IInv => TypeOK
  BY DEF IInv
<1> QED BY Invariant, <1>1, PTL

\* Crawlers with a request each never claim a block they have not crawled,
\* although the price crawl reads the window's end again after update_data
\* and the pool's crawl saves the last block it stored (datastorage/views.py
\* 719, debtmonitor/views.py 405).
THEOREM OwnCrawlersKeepApart == Spec => []OwnRangeIsCrawled
<1>1. IInv => OwnRangeIsCrawled
  BY DEF IInv, OwnTurns, Own, OwnRangeIsCrawled, RangeIsCrawled
<1> QED BY Invariant, <1>1, PTL

-----------------------------------------------------------------------------
(* What a crawler with a request of its own does besides: it goes on.      *)

\* A turn of such a crawler: its thread lives, the keys it reads are there, and
\* the window it has written begins at its saved end and ends behind it, at a
\* block that was there when the turn began.
Turn(c) ==
  /\ pc[c] # "dead" /\ 1 <= max[c] /\ max[c] <= head
  /\ pc[c] \in {"from", "to", "test", "clip", "cut", "call", "save"} =>
       snap[c].max = max[c] /\ max[c] <= snap[c].latest /\ snap[c].latest <= head
  /\ pc[c] \in {"to", "test", "clip", "cut", "call", "save"} =>
       post[c].from = NextFrom(c) /\ (c = "datastorage" => post[c].pair)
  /\ pc[c] \in {"test", "clip", "cut", "call", "save"} =>
       1 <= post[c].to /\ post[c].to <= snap[c].latest
  /\ pc[c] = "cut" => WindowEnd(c, post[c].from) < post[c].to
  /\ pc[c] \in {"clip", "cut", "call", "save"} => max[c] < post[c].to
Turns == ~shared => \A c \in Crawlers : Turn(c)

\* What the saved end of a crawler may do in a step.
Grows(c) == max[c] <= max'[c] /\ max'[c] <= head'

\* The other crawler's step, or a new block, is no matter to a turn.
LEMMA TurnKept ==
  ASSUME TypeOK, NEW c \in Crawlers, Turn(c), head' \in Nat, head <= head',
         post'[c] = post[c], pc'[c] = pc[c], snap'[c] = snap[c], max'[c] = max[c]
  PROVE  Turn(c)' /\ Grows(c)
<1>1. /\ max[c] \in Nat /\ snap[c].latest \in Nat /\ head \in Nat /\ max[c] <= head
  BY Typed DEF Turn
<1>2. NextFrom(c)' = NextFrom(c)
  BY DEF NextFrom
<1>3. WindowEnd(c, post[c].from)' = WindowEnd(c, post[c].from)
  BY DEF WindowEnd
<1>4. Grows(c)
  BY <1>1 DEF Grows
<1>5. max'[c] <= head' /\ (snap[c].latest <= head => snap'[c].latest <= head')
  BY <1>1
<1> QED BY <1>2, <1>3, <1>4, <1>5 DEF Turn

\* With a request of its own a crawler reads the POST it wrote.
LEMMA OwnPost ==
  ASSUME TypeOK, ~shared, NEW c \in Crawlers
  PROVE  /\ Req(c) = c /\ P(c) = post[c] /\ c \in Requests /\ post[c] \in Post
         /\ post[c].from \in Nat /\ post[c].to \in Nat /\ post[c].pair \in BOOLEAN
         /\ snap[c].max \in Nat /\ snap[c].latest \in Nat /\ max[c] \in Nat
         /\ head \in Nat /\ NextFrom(c) \in Nat
<1>1. Req(c) = c /\ P(c) = post[c]
  BY Typed DEF P
<1> QED BY <1>1, Typed

\* The first and the last block of the longest window.
LEMMA WindowIs ==
  ASSUME NEW c \in Crawlers, snap[c].max \in Nat
  PROVE  /\ snap[c].max <= NextFrom(c) /\ NextFrom(c) <= snap[c].max + 1
         /\ NextFrom(c) \in Nat
         /\ WindowEnd(c, NextFrom(c)) \in Nat /\ snap[c].max < WindowEnd(c, NextFrom(c))
BY SharedAssumption DEF NextFrom, WindowEnd

\* A crawler that only goes on to another statement.
LEMMA TurnGoes ==
  ASSUME TypeOK, NEW c \in Crawlers, Turn(c), NEW l, Goto(c, l),
         UNCHANGED <<shared, head, snap, max>>,
         l # "dead",
         l \in {"from", "to", "test", "clip", "cut", "call", "save"} =>
           snap[c].max = max[c] /\ max[c] <= snap[c].latest /\ snap[c].latest <= head,
         l \in {"to", "test", "clip", "cut", "call", "save"} =>
           post'[c].from = NextFrom(c) /\ (c = "datastorage" => post'[c].pair),
         l \in {"test", "clip", "cut", "call", "save"} =>
           1 <= post'[c].to /\ post'[c].to <= snap[c].latest,
         l = "cut" => WindowEnd(c, post'[c].from) < post'[c].to,
         l \in {"clip", "cut", "call", "save"} => max[c] < post'[c].to
  PROVE  Turn(c)' /\ Grows(c)
<1>1. pc'[c] = l
  BY DEF Goto, TypeOK
<1>2. NextFrom(c)' = NextFrom(c) /\ WindowEnd(c, post[c].from)' = WindowEnd(c, post'[c].from)
  BY DEF NextFrom, WindowEnd
<1>3. Grows(c)
  BY Typed DEF Turn, Grows
<1> QED BY <1>1, <1>2, <1>3 DEF Turn

\* What the POST says after its end was written.
LEMMA PostIs ==
  ASSUME TypeOK, NEW c \in Requests
  PROVE  \A b : post' = [post EXCEPT ![c].to = b] =>
           post'[c].from = post[c].from /\ post'[c].pair = post[c].pair /\ post'[c].to = b
<1>1. post[c] \in Post /\ post \in [Requests -> Post]
  BY DEF TypeOK
<1> QED BY <1>1 DEF Post

\* Every statement of auto_update: the keys are there, and the window is one.
LEMMA AutoUpdateTurn ==
  ASSUME IInv, ~shared, NEW c \in Crawlers, Turn(c), AutoUpdate(c)
  PROVE  Turn(c)' /\ Grows(c)
<1>1. /\ TypeOK /\ Req(c) = c /\ P(c) = post[c] /\ c \in Requests
      /\ post[c].from \in Nat /\ post[c].to \in Nat /\ post[c].pair \in BOOLEAN
      /\ snap[c].max \in Nat /\ snap[c].latest \in Nat /\ max[c] \in Nat
      /\ head \in Nat /\ 1 <= max[c] /\ max[c] <= head
  BY OwnPost DEF IInv, Turn
<1>2. CASE Start(c)
  BY <1>1, <1>2, TurnGoes DEF Start
<1>3. CASE ReadRange(c)
  <2>1. /\ pc'[c] = "from" /\ snap'[c] = [max |-> max[c], latest |-> head]
        /\ UNCHANGED <<head, max>>
    BY <1>1, <1>3 DEF ReadRange, Goto, TypeOK
  <2>2. snap'[c].max = max[c] /\ snap'[c].latest = head
    BY <2>1
  <2> QED BY <1>1, <2>1, <2>2 DEF Turn, Grows
<1>4. CASE SetFrom(c)
  <2> DEFINE p == [post[c] EXCEPT !.from = NextFrom(c), !.pair = @ \/ c = "datastorage"]
  <2>1. /\ pc[c] = "from" /\ Goto(c, "to") /\ UNCHANGED <<shared, head, snap, max>>
        /\ post' = [post EXCEPT ![c] = p]
    BY <1>1, <1>4 DEF SetFrom
  <2>2. p.from = NextFrom(c) /\ (c = "datastorage" => p.pair)
    <3>1. post[c] \in Post
      BY <1>1 DEF TypeOK
    <3> QED BY <3>1 DEF Post
  <2>3. post'[c] = p
    BY <1>1, <2>1 DEF TypeOK
  <2> HIDE DEF p
  <2> QED BY <1>1, <2>1, <2>2, <2>3, TurnGoes DEF Turn
<1>5. CASE SetTo(c)
  <2>1. /\ pc[c] = "to" /\ Goto(c, "test") /\ UNCHANGED <<shared, head, snap, max>>
        /\ post' = [post EXCEPT ![c].to = snap[c].latest]
    BY <1>1, <1>5 DEF SetTo
  <2>2. /\ post'[c].from = post[c].from /\ post'[c].pair = post[c].pair
        /\ post'[c].to = snap[c].latest
    BY <1>1, <2>1, PostIs
  <2> QED BY <1>1, <2>1, <2>2, TurnGoes DEF Turn
<1>6. pc[c] \in {"test", "clip", "cut", "call", "save"} => Known(c)
  BY <1>1, WindowIs DEF Turn, Known, NoKey
<1>7. CASE KeyError(c)
  BY <1>6, <1>7 DEF KeyError
<1>8. CASE Test(c)
  <2>1. /\ pc[c] = "test" /\ UNCHANGED <<shared, head, post, snap, max>>
        /\ \/ Goto(c, "clip") /\ post[c].to > post[c].from
           \/ Goto(c, "while")
    BY <1>1, <1>8 DEF Test
  <2>2. post[c].from = NextFrom(c) /\ max[c] <= NextFrom(c)
    BY <1>1, <2>1, WindowIs DEF Turn
  <2> QED BY <1>1, <2>1, <2>2, TurnGoes DEF Turn
<1>9. CASE Clip(c)
  <2>1. /\ pc[c] = "clip" /\ UNCHANGED <<shared, head, post, snap, max>>
        /\ \/ Goto(c, "cut") /\ post[c].to > WindowEnd(c, post[c].from)
           \/ Goto(c, "call")
    BY <1>1, <1>9 DEF Clip
  <2>2. WindowEnd(c, post[c].from) \in Nat
    BY <1>1, <2>1, WindowIs DEF Turn
  <2> QED BY <1>1, <2>1, <2>2, TurnGoes DEF Turn
<1>10. CASE Cut(c)
  <2>1. /\ pc[c] = "cut" /\ Goto(c, "call") /\ UNCHANGED <<shared, head, snap, max>>
        /\ post' = [post EXCEPT ![c].to = WindowEnd(c, post[c].from)]
    BY <1>1, <1>10 DEF Cut
  <2>2. /\ post'[c].from = post[c].from /\ post'[c].pair = post[c].pair
        /\ post'[c].to = WindowEnd(c, post[c].from)
    BY <1>1, <2>1, PostIs
  <2>3. /\ max[c] < WindowEnd(c, post[c].from) /\ WindowEnd(c, post[c].from) <= snap[c].latest
        /\ WindowEnd(c, post[c].from) \in Nat
    BY <1>1, <2>1, WindowIs DEF Turn
  <2> QED BY <1>1, <2>1, <2>2, <2>3, TurnGoes DEF Turn
<1> QED BY <1>2, <1>3, <1>4, <1>5, <1>7, <1>8, <1>9, <1>10 DEF AutoUpdate

\* The price crawl inserts its window: there is one, and the pair is named.
LEMMA UpdatePricesTurn ==
  ASSUME IInv, ~shared, Turn("datastorage"), UpdatePrices
  PROVE  Turn("datastorage")' /\ Grows("datastorage")
<1> DEFINE c == "datastorage"
<1>1. /\ TypeOK /\ c \in Crawlers /\ P(c) = post[c] /\ pc[c] = "call"
      /\ post[c].to \in Nat /\ snap[c].max \in Nat /\ max[c] \in Nat
      /\ UNCHANGED <<shared, head, post, snap, max>>
  BY OwnPost DEF IInv, UpdatePrices, Crawlers
<1>2. post[c].from = snap[c].max /\ snap[c].max = max[c] /\ max[c] < post[c].to /\ post[c].pair
  BY <1>1 DEF Turn, NextFrom
<1>3. Goto(c, "save")
  BY <1>1, <1>2 DEF UpdatePrices
<1> QED BY <1>1, <1>3, TurnGoes DEF Turn

\* Its row is saved: the end of the window, which is behind the old one.
LEMMA SaveSummaryTurn ==
  ASSUME IInv, ~shared, Turn("datastorage"), SaveSummary
  PROVE  Turn("datastorage")' /\ Grows("datastorage")
<1> DEFINE c == "datastorage"
<1>1. /\ TypeOK /\ c \in Crawlers /\ P(c) = post[c] /\ pc[c] = "save"
      /\ post[c].to \in Nat /\ snap[c].latest \in Nat /\ max[c] \in Nat /\ head \in Nat
      /\ head' = head
  BY OwnPost DEF IInv, SaveSummary, Crawlers
<1>2. max'[c] = post[c].to /\ pc'[c] = "while"
  BY <1>1 DEF SaveSummary, Goto, TypeOK
<1>3. 1 <= max[c] /\ max[c] < post[c].to /\ post[c].to <= snap[c].latest /\ snap[c].latest <= head
  BY <1>1 DEF Turn
<1>4. 1 <= post[c].to /\ max[c] <= post[c].to /\ post[c].to <= head
  BY <1>1, <1>3
<1> QED BY <1>1, <1>2, <1>4 DEF Turn, Grows

\* The pool's crawl stores its window and saves the largest block it has, which
\* is the end of the window.
LEMMA UpdatePoolTurn ==
  ASSUME IInv, ~shared, Turn("lending_pool"), UpdatePool
  PROVE  Turn("lending_pool")' /\ Grows("lending_pool")
<1> DEFINE c == "lending_pool"
           blocks == crawled[c] \cup post[c].from..post[c].to
<1>1. /\ TypeOK /\ c \in Crawlers /\ P(c) = post[c] /\ pc[c] = "call"
      /\ post[c].to \in Nat /\ post[c].from \in Nat /\ snap[c].latest \in Nat
      /\ snap[c].max \in Nat /\ max[c] \in Nat /\ head \in Nat /\ head' = head
  BY OwnPost DEF IInv, UpdatePool, Crawlers
<1>2. /\ post[c].from = max[c] + 1 /\ snap[c].max = max[c]
      /\ 1 <= max[c] /\ max[c] < post[c].to /\ post[c].to <= snap[c].latest
      /\ snap[c].latest <= head
  BY <1>1 DEF Turn, NextFrom
<1>3. ~(post[c].to <= snap[c].max) /\ ~(post[c].to < post[c].from)
  BY <1>1, <1>2
<1>4. max' = [max EXCEPT ![c] = Largest(blocks)] /\ Goto(c, "while")
  BY <1>1, <1>3 DEF UpdatePool
<1>5. \A n \in blocks : n \in Nat /\ n <= post[c].to
  <2>1. \A n \in crawled[c] : n \in Nat /\ n <= max[c]
    BY <1>1 DEF IInv, OwnTurns, Own, TypeOK
  <2> QED BY <1>1, <1>2, <2>1
<1>6. post[c].to \in blocks
  BY <1>1, <1>2
<1> HIDE DEF blocks
<1>7. Largest(blocks) = post[c].to
  BY <1>1, <1>5, <1>6, LargestOf
<1>8. max'[c] = post[c].to /\ pc'[c] = "while"
  BY <1>1, <1>4, <1>7 DEF Goto, TypeOK
<1>9. 1 <= post[c].to /\ max[c] <= post[c].to /\ post[c].to <= head
  BY <1>1, <1>2
<1> QED BY <1>1, <1>8, <1>9 DEF Turn, Grows

\* Every step of a crawler with a request of its own, and of the other one.
LEMMA TurnStep ==
  ASSUME IInv, ~shared, NEW c \in Crawlers, Turn(c), [Next]_vars
  PROVE  Turn(c)' /\ Grows(c)
<1>1. TypeOK /\ head \in Nat /\ ~shared
  BY Typed DEF IInv
<1>2. CASE Mine
  BY <1>1, <1>2, TurnKept DEF Mine
<1>3. CASE UNCHANGED vars
  BY <1>1, <1>3, TurnKept DEF vars
<1>4. ASSUME NEW d \in Crawlers, AutoUpdate(d)
      PROVE  Turn(c)' /\ Grows(c)
  <2>1. CASE d = c
    BY <1>4, <2>1, AutoUpdateTurn
  <2>2. CASE d # c
    <3>1. Req(d) = d /\ c \in Requests /\ d \in Requests
      BY <1>1, OwnPost
    <3>2. /\ UNCHANGED <<head, max>>
          /\ post'[c] = post[c] /\ pc'[c] = pc[c] /\ snap'[c] = snap[c]
      <4>1. /\ post \in [Requests -> Post] /\ c \in DOMAIN pc /\ c \in DOMAIN snap
        BY <1>1 DEF TypeOK
      <4>2. CASE Start(d) \/ SetTo(d) \/ Cut(d)
        BY <2>2, <3>1, <4>1, <4>2 DEF Start, SetTo, Cut, Goto
      <4>3. CASE ReadRange(d)
        BY <2>2, <4>1, <4>3 DEF ReadRange, Goto
      <4>4. CASE SetFrom(d)
        BY <2>2, <3>1, <4>1, <4>4 DEF SetFrom, Goto
      <4>5. CASE KeyError(d) \/ Test(d) \/ Clip(d)
        BY <2>2, <4>1, <4>5 DEF KeyError, Test, Clip, Goto
      <4> QED BY <1>4, <4>2, <4>3, <4>4, <4>5 DEF AutoUpdate
    <3> QED BY <1>1, <3>2, TurnKept
  <2> QED BY <2>1, <2>2
<1>5. CASE UpdatePrices
  <2>1. CASE c = "datastorage"
    BY <1>5, <2>1, UpdatePricesTurn
  <2>2. CASE c # "datastorage"
    <3>1. UNCHANGED <<head, post, snap, max>> /\ pc'[c] = pc[c]
      BY <1>1, <1>5, <2>2 DEF UpdatePrices, Goto, TypeOK
    <3> QED BY <1>1, <3>1, TurnKept
  <2> QED BY <2>1, <2>2
<1>6. CASE SaveSummary
  <2>1. CASE c = "datastorage"
    BY <1>6, <2>1, SaveSummaryTurn
  <2>2. CASE c # "datastorage"
    <3>1. UNCHANGED <<head, post, snap>> /\ pc'[c] = pc[c] /\ max'[c] = max[c]
      BY <1>1, <1>6, <2>2 DEF SaveSummary, Goto, TypeOK
    <3> QED BY <1>1, <3>1, TurnKept
  <2> QED BY <2>1, <2>2
<1>7. CASE UpdatePool
  <2>1. CASE c = "lending_pool"
    BY <1>7, <2>1, UpdatePoolTurn
  <2>2. CASE c # "lending_pool"
    <3>1. UNCHANGED <<head, post, snap>> /\ pc'[c] = pc[c] /\ max'[c] = max[c]
      BY <1>1, <1>7, <2>2 DEF UpdatePool, Goto, TypeOK
    <3> QED BY <1>1, <3>1, TurnKept
  <2> QED BY <2>1, <2>2
<1> QED BY <1>2, <1>3, <1>4, <1>5, <1>6, <1>7 DEF Next

\* A turn begins as the invariant says: the saved ends are blocks of the chain.
LEMMA TurnsInit == Init => Turns
<1> SUFFICES ASSUME Init, NEW c \in Crawlers
             PROVE  Turn(c)
  BY DEF Turns
<1>1. pc[c] = "start" /\ (max[c] = PricesTo \/ max[c] = PoolTo) /\ head = InitialHead
  BY DEF Init
<1> QED BY <1>1, SharedAssumption DEF Turn

\* Nobody changes how the crawlers were started.
LEMMA StartedOnce == [Next]_vars => UNCHANGED shared
BY DEF Next, vars, Mine, AutoUpdate, Start, ReadRange, SetFrom, SetTo, KeyError, Test, Clip,
       Cut, UpdatePrices, SaveSummary, UpdatePool

\* The turns are kept, whoever steps.
LEMMA TurnsStep == IInv /\ Turns /\ [Next]_vars => Turns'
<1> SUFFICES ASSUME IInv, Turns, [Next]_vars, ~shared', NEW c \in Crawlers
             PROVE  Turn(c)'
  BY DEF Turns
<1>1. ~shared
  BY StartedOnce
<1> QED BY <1>1, TurnStep DEF Turns

\* The turns hold in every state of every behaviour.
LEMMA TurnsHold == Spec => []Turns
<1>1. Init => Turns
  BY TurnsInit
<1>2. IInv /\ Turns /\ [Next]_vars => Turns'
  BY TurnsStep
<1> QED BY <1>1, <1>2, Invariant, PTL DEF Spec

\* With a request each, no thread of auto_update ends by an exception: every key
\* it reads is there, and update_data is never given an empty window (the loops,
\* datastorage/views.py:674 and debtmonitor/views.py:454, have no handler).
OwnCrawlersLive == shared \/ \A c \in Crawlers : pc[c] # "dead"

\* Crawlers with a request each go on for ever, for any lengths of the windows
\* (datastorage/views.py:674, debtmonitor/views.py:454: the loops of auto_update).
THEOREM OwnCrawlersNeverDie == Spec => []OwnCrawlersLive
<1>1. Turns => OwnCrawlersLive
  BY DEF Turns, Turn, OwnCrawlersLive
<1> QED BY <1>1, TurnsHold, PTL

\* With a request each, a save never takes the end of a range back, nor past the
\* latest block of the node, where the next window would pass over blocks not
\* mined yet (datastorage/views.py:719, debtmonitor/views.py:405).
OwnRangesGrow ==
  [][shared \/ \A c \in Crawlers : max[c] <= max'[c] /\ max'[c] <= head']_vars

\* The end that is saved is behind the one that was read, whatever the lengths
\* of the windows (datastorage/views.py:719, debtmonitor/views.py:405).
THEOREM OwnRangesOnlyGrow == Spec => OwnRangesGrow
<1>1. IInv /\ Turns /\ [Next]_vars =>
        [shared \/ \A c \in Crawlers : max[c] <= max'[c] /\ max'[c] <= head']_vars
  BY TurnStep DEF Turns, Grows
<1> QED BY <1>1, Invariant, TurnsHold, PTL DEF Spec, OwnRangesGrow

=============================================================================
