--------------------------- MODULE BlockTimeProofs ---------------------------
(***************************************************************************)
(* The table of block times, for any number of loops and requests, any     *)
(* range, any p_num and any order in which the goroutines send.            *)
(*                                                                         *)
(* BlockNumber has fewer rows than the chain had blocks at StartBlock, so  *)
(* its keys and the numbers of blocks have nothing in common: whatever the *)
(* table holds, a row to be inserted is taken for new, and no window       *)
(* begins after the last one.                                              *)
(***************************************************************************)
EXTENDS BlockTime, FiniteSetTheorems, WellFoundedInduction, TLAPS

-----------------------------------------------------------------------------
(* The inductive invariant.                                                *)

\* The keys there can be: BlockNumber has fewer rows than FirstBlock.
KeySpace == 1..(FirstBlock - 1)
Active(c) == c.pc \in {"go", "rows"}

\* The tables. Only numbers of blocks are in them, the keys are those given.
Tables ==
  /\ head \in InitialHead..MaxBlock
  /\ numbered \subseteq Blocks /\ blocks \subseteq numbered
  /\ keys \subseteq 1..Cardinality(numbered) /\ Cardinality(keys) <= 2
  /\ used \in [others: 0..MaxOthers, requests: 0..MaxRequests, errors: 0..MaxErrors]

\* What is known of the call c of thread t when the node has the blocks up to h
\* and those of B are in the table: its range is of blocks, an automatic one
\* begins at StartBlock, what was sent was asked for and exists, and what is to
\* be inserted are blocks and completes the range.
CallOK(t, c, h, B) ==
  /\ c.seen \subseteq KeySpace
  /\ Active(c) => c.from \in Blocks /\ c.to \in Blocks /\ c.from < c.to
  /\ Active(c) /\ t \in Loops => c.from = StartBlock
  /\ c.pc = "go" => \A i \in DOMAIN c.sent : c.sent[i] \in Chunks(c) /\ c.sent[i] + Gap(c) <= h
  /\ \A r \in c.todo : r[2] \in Blocks
  /\ c.pc = "rows" => c.from..c.to \subseteq B \cup {r[2] : r \in c.todo}

IInv ==
  /\ Tables
  /\ call \in [Threads -> Call]
  /\ \A t \in Threads : CallOK(t, call[t], head, blocks)

-----------------------------------------------------------------------------
\* A chunk is at least one block.
LEMMA GapType ==
  ASSUME NEW c \in Call, c.from < c.to
  PROVE  Gap(c) \in Nat /\ Gap(c) >= 1
<1>1. c.from \in Nat /\ c.to \in Nat /\ PNum \in Nat /\ PNum > 0
  BY BlockTimeAssumption DEF Call
<1> DEFINE x == c.to - c.from + PNum - 1
<1>2. x \in Nat /\ x >= PNum
  BY <1>1
<1> HIDE DEF x
<1>3. x \div PNum \in Nat /\ x \div PNum >= 1
  BY <1>1, <1>2
<1> QED BY <1>3 DEF Gap, x

\* What is left of a multiple is nothing.
LEMMA MultipleRem ==
  ASSUME NEW g \in Nat, g >= 1, NEW k \in Nat
  PROVE  (g * k) % g = 0
<1> DEFINE d == (g * k) \div g
           m == (g * k) % g
<1>1. g * k \in Nat
  BY SMT
<1>2. d \in Int /\ m \in Int /\ g * k = g * d + m /\ 0 <= m /\ m < g
  BY <1>1, SMT
<1> HIDE DEF d, m
<1>3. g * (k - d) = g * k - g * d
  BY <1>2, SMT
<1>4. CASE k - d >= 1
  <2>1. g * (k - d) >= g
    BY <1>4, <1>2, SMT
  <2> QED BY <2>1, <1>3, <1>2, SMT
<1>5. CASE k - d <= -1
  <2>1. g * (k - d) <= -g
    BY <1>5, <1>2, SMT
  <2> QED BY <2>1, <1>3, <1>2, SMT
<1>6. CASE k = d
  BY <1>6, <1>2, SMT DEF m
<1> QED BY <1>4, <1>5, <1>6, <1>2

\* The chunks cover the range.
LEMMA ChunksCover ==
  ASSUME NEW c \in Call, c.from < c.to, NEW n \in c.from..c.to
  PROVE  \E b \in Chunks(c) : n \in Chunk(c, b)
<1> DEFINE g == Gap(c)
           k == (n - c.from) \div g
           b == c.from + g * k
<1>1. g \in Nat /\ g >= 1
  BY GapType
<1>2. c.from \in Nat /\ c.to \in Nat /\ n \in Nat
  BY DEF Call
<1> HIDE DEF g
<1>3. k \in Nat /\ g * k <= n - c.from /\ n - c.from < g * k + g
  BY <1>1, <1>2
<1>4. g * k \in Nat /\ (g * k) % g = 0
  <2>1. g * k \in Nat
    BY <1>1, <1>3
  <2> QED BY <1>1, <1>3, <2>1, MultipleRem
<1> HIDE DEF k
<1>5. b \in c.from..c.to /\ b - c.from = g * k /\ n \in b..(b + g)
  BY <1>1, <1>2, <1>3, <1>4
<1>6. (b - c.from) % g = 0
  BY <1>4, <1>5
<1> QED BY <1>5, <1>6 DEF Chunks, Chunk, ChunkEnd, g

\* A set of natural numbers that is not empty has a least element.
LEMMA LeastOf ==
  ASSUME NEW S \in SUBSET Nat, S # {}
  PROVE  \E m \in S : \A i \in S : m <= i
<1> DEFINE Less == OpToRel(<, Nat)
<1>1. IsWellFoundedOn(Less, Nat)
  BY NatLessThanWellFounded
<1>2. PICK m \in S : \A i \in S : <<i, m>> \notin Less
  <2> HIDE DEF Less
  <2> QED BY <1>1, WFMin
<1>3. m \in Nat /\ \A i \in S : i \in Nat /\ ~(i < m)
  BY <1>2 DEF OpToRel
<1> QED BY <1>3

\* What the goroutines sent holds the range, when all of them have.
LEMMA JoinedCovers ==
  ASSUME NEW c \in Call, c.from < c.to, Waiting(c) = {}
  PROVE  c.from..c.to \subseteq {r[2] : r \in Joined(c)}
<1> SUFFICES ASSUME NEW n \in c.from..c.to
             PROVE  \E r \in Joined(c) : r[2] = n
  OBVIOUS
<1>1. /\ c.from \in Nat /\ c.to \in Nat /\ c.sent \in Seq(Nat)
      /\ Gap(c) \in Nat
  BY GapType DEF Call
<1>2. PICK b \in Chunks(c) : n \in Chunk(c, b)
  BY ChunksCover
<1> DEFINE S == {i \in DOMAIN c.sent : n \in Chunk(c, c.sent[i])}
<1>3. S \subseteq Nat /\ S # {}
  <2>1. b \in ToSet(c.sent)
    BY <1>2 DEF Waiting
  <2>2. PICK i \in DOMAIN c.sent : c.sent[i] = b
    BY <2>1 DEF ToSet
  <2>3. i \in S
    BY <1>2, <2>2
  <2>4. DOMAIN c.sent \subseteq Nat
    BY <1>1
  <2>5. S \subseteq DOMAIN c.sent
    OBVIOUS
  <2> HIDE DEF S
  <2> QED BY <2>3, <2>4, <2>5
<1>4. PICK m \in S : \A i \in S : m <= i
  <2> HIDE DEF S
  <2> QED BY <1>3, LeastOf
<1>5. m \in Nat /\ m \in DOMAIN c.sent /\ n \in Chunk(c, c.sent[m])
  BY <1>1, <1>4
<1>6. ASSUME NEW j \in 1..(m - 1)
      PROVE  n \notin Chunk(c, c.sent[j])
  <2>1. j \in DOMAIN c.sent /\ j < m
    BY <1>1, <1>5
  <2>2. j \notin S
    BY <1>4, <1>5, <2>1
  <2> QED BY <2>1, <2>2
<1>7. n \in c.from..ChunkEnd(c, c.to)
  BY <1>1 DEF ChunkEnd
<1>8. <<m, n>> \in Joined(c)
  BY <1>5, <1>6, <1>7 DEF Joined
<1> QED BY <1>8

\* What they sent are blocks the node has.
LEMMA JoinedExists ==
  ASSUME NEW t \in Threads, NEW c \in Call, NEW h \in InitialHead..MaxBlock, NEW B,
         CallOK(t, c, h, B), c.pc = "go"
  PROVE  \A r \in Joined(c) : r \in Nat \X Nat /\ r[2] \in Blocks
<1>1. /\ FirstBlock \in Nat /\ MaxBlock \in Nat /\ h \in Nat /\ h <= MaxBlock
      /\ Blocks = FirstBlock..MaxBlock
  BY BlockTimeAssumption DEF Blocks
<1>2. /\ c.from \in Blocks /\ c.to \in Blocks /\ c.from < c.to /\ c.sent \in Seq(Nat)
      /\ c.from \in Nat
  BY DEF CallOK, Active, Call
<1>3. Gap(c) \in Nat
  BY GapType, <1>2
<1> TAKE r \in Joined(c)
<1>4. /\ r[1] \in DOMAIN c.sent /\ r[2] \in c.from..ChunkEnd(c, c.to)
      /\ r = <<r[1], r[2]>>
      /\ r[2] \in Chunk(c, c.sent[r[1]])
  BY DEF Joined
<1>5. c.sent[r[1]] + Gap(c) <= h /\ c.sent[r[1]] \in Nat /\ r[1] \in Nat
  <2>1. \A i \in DOMAIN c.sent : i \in Nat /\ c.sent[i] \in Nat
    BY <1>2
  <2>2. \A i \in DOMAIN c.sent : c.sent[i] + Gap(c) <= h
    BY DEF CallOK
  <2> QED BY <1>4, <2>1, <2>2
<1>6. r[2] \in Nat /\ c.from <= r[2]
  BY <1>2, <1>4
<1>7. r[2] <= c.sent[r[1]] + Gap(c)
  BY <1>3, <1>4, <1>5, <1>6 DEF Chunk, ChunkEnd
<1>8. r[2] \in Blocks
  <2>1. FirstBlock <= c.from
    BY <1>1, <1>2
  <2> DEFINE n == r[2]
             m == c.sent[r[1]] + Gap(c)
  <2>2. n \in Nat /\ m \in Nat /\ c.from <= n /\ n <= m /\ m <= h
    BY <1>3, <1>5, <1>6, <1>7
  <2> HIDE DEF n, m
  <2>3. FirstBlock <= n /\ n <= MaxBlock
    BY <1>1, <1>2, <2>1, <2>2
  <2> QED BY <1>1, <2>2, <2>3 DEF n
<1> QED BY <1>4, <1>5, <1>6, <1>8

\* The smallest and the greatest of some keys are two at most.
LEMMA Extremes ==
  ASSUME NEW S \in SUBSET Nat
  PROVE  LET E == {i \in S : (\A j \in S : i <= j) \/ (\A j \in S : i >= j)}
         IN  E \subseteq S /\ Cardinality(E) <= 2
<1> DEFINE E == {i \in S : (\A j \in S : i <= j) \/ (\A j \in S : i >= j)}
<1>1. \E a, b \in Nat : E \subseteq {a, b}
  <2>1. \A i, j \in E : (\A k \in S : i <= k) /\ (\A k \in S : j <= k) => i = j
    OBVIOUS
  <2>2. \A i, j \in E : (\A k \in S : i >= k) /\ (\A k \in S : j >= k) => i = j
    OBVIOUS
  <2>3. \E a \in Nat : \A i \in E : (\A k \in S : i <= k) => i = a
    <3>1. CASE \E a \in E : \A k \in S : a <= k
      BY <2>1, <3>1
    <3> QED BY <3>1
  <2>4. \E b \in Nat : \A i \in E : (\A k \in S : i >= k) => i = b
    <3>1. CASE \E a \in E : \A k \in S : a >= k
      BY <2>2, <3>1
    <3> QED BY <3>1
  <2>5. PICK a \in Nat : \A i \in E : (\A k \in S : i <= k) => i = a
    BY <2>3
  <2>6. PICK b \in Nat : \A i \in E : (\A k \in S : i >= k) => i = b
    BY <2>4
  <2>7. E \subseteq {a, b}
    BY <2>5, <2>6
  <2> QED BY <2>7
<1>2. PICK a \in Nat, b \in Nat : E \subseteq {a, b}
  BY <1>1
<1> HIDE DEF E
<1>3. IsFiniteSet({a}) /\ Cardinality({a}) = 1
  BY FS_Singleton
<1>4. {a, b} = {a} \cup {b}
  OBVIOUS
<1>5. IsFiniteSet({a} \cup {b}) /\ Cardinality({a} \cup {b}) <= 2
  BY <1>3, FS_AddElement
<1>6. Cardinality(E) <= Cardinality({a, b}) /\ IsFiniteSet(E)
  BY <1>2, <1>4, <1>5, FS_Subset
<1>7. Cardinality(E) \in Nat /\ Cardinality({a, b}) \in Nat
  BY <1>4, <1>5, <1>6, FS_CardinalityType
<1>8. Cardinality(E) <= 2
  BY <1>4, <1>5, <1>6, <1>7
<1>9. E \subseteq S
  BY DEF E
<1> QED BY <1>8, <1>9 DEF E

\* BlockNumber has fewer rows than any block's number.
LEMMA FewNumbers ==
  ASSUME NEW N \in SUBSET Blocks
  PROVE  /\ IsFiniteSet(N) /\ Cardinality(N) \in Nat /\ Cardinality(N) < FirstBlock
         /\ 1..Cardinality(N) \subseteq KeySpace
<1>1. IsFiniteSet(Blocks) /\ FirstBlock \in Nat /\ Cardinality(Blocks) < FirstBlock
  BY FS_Interval, BlockTimeAssumption DEF Blocks
<1>2. IsFiniteSet(N) /\ Cardinality(N) <= Cardinality(Blocks)
  BY <1>1, FS_Subset
<1>3. Cardinality(N) \in Nat /\ Cardinality(Blocks) \in Nat
  BY <1>1, <1>2, FS_CardinalityType
<1> QED BY <1>1, <1>2, <1>3 DEF KeySpace

-----------------------------------------------------------------------------
(* The tables.                                                             *)

\* A row more: what was there stays, the keys are still those given.
LEMMA InsertKeeps ==
  ASSUME Tables, NEW n \in Blocks, Insert(n), UNCHANGED <<head, used>>
  PROVE  Tables' /\ blocks' = blocks \cup {n}
<1>1. /\ numbered' = numbered \cup {n} /\ blocks' = blocks \cup {n}
      /\ numbered \subseteq Blocks /\ numbered' \subseteq Blocks /\ blocks' \subseteq numbered'
  BY DEF Insert, Tables
<1>2. IsFiniteSet(numbered) /\ Cardinality(numbered) \in Nat
  BY <1>1, FewNumbers
<1>3. Cardinality(numbered') \in Nat
  BY <1>1, FewNumbers
<1>4. Cardinality(numbered') = IF n \in numbered THEN Cardinality(numbered)
                               ELSE Cardinality(numbered) + 1
  BY <1>1, <1>2, FS_AddElement
<1>5. keys' \subseteq 1..Cardinality(numbered') /\ Cardinality(keys') <= 2
  <2>1. CASE n \in blocks
    <3>1. keys' = keys
      BY <2>1 DEF Insert
    <3>2. n \in numbered
      BY <2>1 DEF Tables
    <3> QED BY <1>4, <3>1, <3>2 DEF Tables
  <2>2. CASE n \notin blocks
    <3>1. PICK k \in IF n \in numbered THEN 1..Cardinality(numbered)
                                       ELSE {Cardinality(numbered) + 1} :
            keys' = LET all == keys \cup {k}
                    IN {i \in all : (\A j \in all : i <= j) \/ (\A j \in all : i >= j)}
      BY <2>2 DEF Insert
    <3> DEFINE all == keys \cup {k}
    <3>2. k \in 1..Cardinality(numbered')
      BY <1>2, <1>4, <3>1
    <3>3. all \subseteq 1..Cardinality(numbered') /\ all \in SUBSET Nat
      BY <1>2, <1>3, <1>4, <3>2 DEF Tables
    <3>4. keys' = {i \in all : (\A j \in all : i <= j) \/ (\A j \in all : i >= j)}
      BY <3>1
    <3> HIDE DEF all
    <3> QED BY <3>3, <3>4, Extremes
  <2> QED BY <2>1, <2>2
<1> QED BY <1>1, <1>5 DEF Tables

\* No key is the number of a block: none reaches StartBlock.
LEMMA KeysAreSmall ==
  ASSUME Tables
  PROVE  keys \subseteq KeySpace /\ AutoFrom = StartBlock
<1>1. keys \subseteq KeySpace
  BY FewNumbers DEF Tables
<1>2. ~ \E i \in keys : i >= StartBlock
  BY <1>1, BlockTimeAssumption DEF KeySpace, Blocks
<1> QED BY <1>1, <1>2 DEF AutoFrom

-----------------------------------------------------------------------------
(* The calls.                                                              *)

\* A thread that is in no call.
While == [Off EXCEPT !.pc = "while"]

LEMMA OffIsCall ==
  ASSUME NEW c \in {Off, While}, NEW t, NEW h, NEW B
  PROVE  c \in Call /\ CallOK(t, c, h, B)
<1>1. Off \in Call /\ While \in Call
  <2>1. {} \in SUBSET (Nat \X Nat) /\ {} \in SUBSET Nat /\ <<>> \in Seq(Nat)
    OBVIOUS
  <2>2. Off \in Call
    BY <2>1 DEF Off, Call
  <2> QED BY <2>2 DEF While, Call
<1>2. ~Active(c) /\ c.seen = {} /\ c.todo = {} /\ c.pc \in {"off", "while"}
  BY DEF Active, Off, While
<1> QED BY <1>1, <1>2 DEF CallOK, Active

\* What is known of a call stays so when blocks are mined and rows inserted.
LEMMA CallStays ==
  ASSUME NEW t, NEW c \in Call, NEW h \in Nat, NEW B, CallOK(t, c, h, B),
         NEW k \in Nat, h <= k, NEW C, B \subseteq C
  PROVE  CallOK(t, c, k, C)
<1>1. c.pc = "go" => \A i \in DOMAIN c.sent : c.sent[i] \in Chunks(c) /\ c.sent[i] + Gap(c) <= k
  <2> SUFFICES ASSUME c.pc = "go", NEW i \in DOMAIN c.sent
               PROVE  c.sent[i] \in Chunks(c) /\ c.sent[i] + Gap(c) <= k
    OBVIOUS
  <2>1. c.sent[i] \in Chunks(c) /\ c.sent[i] + Gap(c) <= h
    BY DEF CallOK
  <2>2. c.from \in Blocks /\ c.to \in Blocks /\ c.from < c.to /\ c.sent \in Seq(Nat)
    BY DEF CallOK, Active, Call
  <2>3. Gap(c) \in Nat /\ c.sent[i] \in Nat
    BY <2>2, GapType
  <2> QED BY <2>1, <2>3
<1>2. c.pc = "rows" => c.from..c.to \subseteq C \cup {r[2] : r \in c.todo}
  BY DEF CallOK
<1> QED BY <1>1, <1>2 DEF CallOK

\* One call changes, nothing is taken out of the tables: the others stay.
LEMMA OneCall ==
  ASSUME IInv, Tables', head <= head', blocks \subseteq blocks',
         NEW t \in Threads, NEW c \in Call, call' = [call EXCEPT ![t] = c],
         CallOK(t, c, head', blocks')
  PROVE  IInv'
<1>1. call \in [Threads -> Call] /\ head \in Nat /\ head' \in Nat
  BY BlockTimeAssumption DEF IInv, Tables, Blocks
<1>2. call' \in [Threads -> Call]
  BY <1>1
<1>3. ASSUME NEW u \in Threads
      PROVE  CallOK(u, call'[u], head', blocks')
  <2>1. CASE u = t
    BY <1>1, <2>1
  <2>2. CASE u # t
    <3>1. call'[u] = call[u] /\ call[u] \in Call
      BY <1>1, <2>2
    <3>2. CallOK(u, call[u], head, blocks)
      BY DEF IInv
    <3>3. CallOK(u, call[u], head', blocks')
      BY <1>1, <3>1, <3>2, CallStays
    <3> QED BY <3>1, <3>3
  <2> QED BY <2>1, <2>2
<1>4. (\A u \in Threads : CallOK(u, call[u], head, blocks))'
  BY <1>3
<1> QED BY <1>2, <1>4 DEF IInv

\* Every call stays: blocks are mined or numbers given.
LEMMA AllCallsStay ==
  ASSUME IInv, Tables', head <= head', UNCHANGED <<blocks, call>>
  PROVE  IInv'
<1>1. call \in [Threads -> Call] /\ head \in Nat /\ head' \in Nat
  BY BlockTimeAssumption DEF IInv, Tables, Blocks
<1>2. ASSUME NEW u \in Threads
      PROVE  CallOK(u, call[u], head', blocks)
  <2>1. CallOK(u, call[u], head, blocks) /\ call[u] \in Call
    BY <1>1 DEF IInv
  <2> QED BY <1>1, <2>1, CallStays
<1>3. (\A u \in Threads : CallOK(u, call[u], head, blocks))'
  BY <1>2
<1> QED BY <1>1, <1>3 DEF IInv

-----------------------------------------------------------------------------
(* The actions.                                                            *)

LEMMA InvInit == Init => IInv
<1> SUFFICES ASSUME Init PROVE IInv
  OBVIOUS
<1>1. Tables
  BY FS_EmptySet, BlockTimeAssumption DEF Init, Tables, Blocks
<1>2. ASSUME NEW t \in Threads
      PROVE  CallOK(t, call[t], head, blocks)
  BY OffIsCall DEF Init
<1> QED BY <1>1, <1>2, OffIsCall DEF Init, IInv

\* The node finds a block, or another crawl numbers one.
LEMMA OthersInv ==
  ASSUME IInv, Mine \/ \E n \in Blocks : OtherCrawl(n)
  PROVE  IInv'
<1>1. CASE Mine
  <2>1. Tables' /\ head <= head' /\ UNCHANGED <<blocks, call>>
    BY <1>1, BlockTimeAssumption DEF Mine, IInv, Tables, Blocks
  <2> QED BY <2>1, AllCallsStay
<1>2. ASSUME NEW n \in Blocks, OtherCrawl(n)
      PROVE  IInv'
  <2>1. /\ numbered' = numbered \cup {n} /\ n \notin numbered /\ numbered \subseteq Blocks
        /\ UNCHANGED <<head, blocks, keys, call>>
    BY <1>2 DEF OtherCrawl, IInv, Tables
  <2>2. IsFiniteSet(numbered) /\ Cardinality(numbered) \in Nat
    BY <2>1, FewNumbers
  <2>3. Cardinality(numbered') = Cardinality(numbered) + 1
    BY <2>1, <2>2, FS_AddElement
  <2>4. keys' \subseteq 1..Cardinality(numbered') /\ Cardinality(keys') <= 2
    BY <2>1, <2>2, <2>3 DEF IInv, Tables
  <2>5. used' \in [others: 0..MaxOthers, requests: 0..MaxRequests, errors: 0..MaxErrors]
    BY <1>2, BlockTimeAssumption DEF OtherCrawl, IInv, Tables
  <2>6. head <= head' /\ head' \in InitialHead..MaxBlock
    BY <2>1, BlockTimeAssumption DEF IInv, Tables, Blocks
  <2>7. Tables'
    BY <2>1, <2>4, <2>5, <2>6 DEF IInv, Tables
  <2> QED BY <2>1, <2>6, <2>7, AllCallsStay
<1> QED BY <1>1, <1>2

\* The tables are as they were.
LEMMA TablesStay ==
  ASSUME IInv, UNCHANGED <<head, numbered, blocks, keys, used>>
  PROVE  Tables' /\ head <= head' /\ blocks \subseteq blocks'
BY BlockTimeAssumption DEF IInv, Tables, Blocks

\* A thread is started.
LEMMA StartAutoInv ==
  ASSUME IInv, NEW a \in Loops, StartAuto(a)
  PROVE  IInv'
<1>1. While \in Call /\ a \in Threads /\ CallOK(a, While, head', blocks')
  BY OffIsCall DEF Threads
<1>2. call' = [call EXCEPT ![a] = While] /\ UNCHANGED <<head, numbered, blocks, keys, used>>
  BY DEF StartAuto, Steps, While
<1> QED BY <1>1, <1>2, TablesStay, OneCall

\* A range of blocks is entered.
LEMMA EnteredOK ==
  ASSUME Tables, NEW t \in Threads, NEW from \in Blocks, NEW to \in Blocks, from < to,
         t \in Loops => from = StartBlock, NEW h, NEW B
  PROVE  Entered(from, to) \in Call /\ CallOK(t, Entered(from, to), h, B)
<1>1. Blocks \subseteq Nat /\ KeySpace \subseteq Nat
  BY BlockTimeAssumption DEF Blocks, KeySpace
<1> DEFINE c == Entered(from, to)
<1>2. /\ c.pc = "go" /\ c.from = from /\ c.to = to /\ c.seen = keys /\ c.todo = {}
      /\ c.sent = <<>>
  BY DEF Entered
<1>3. keys \subseteq KeySpace
  BY KeysAreSmall
<1>4. c \in Call
  <2>1. {} \in SUBSET (Nat \X Nat) /\ keys \in SUBSET Nat /\ <<>> \in Seq(Nat)
    BY <1>1, <1>3
  <2>2. from \in Nat /\ to \in Nat
    BY <1>1
  <2> QED BY <2>1, <2>2 DEF Entered, Call
<1> HIDE DEF c
<1>5. CallOK(t, c, h, B)
  BY <1>2, <1>3 DEF CallOK, Active
<1> QED BY <1>4, <1>5 DEF c

\* A window is chosen: it begins at StartBlock.
LEMMA NextWindowInv ==
  ASSUME IInv, NEW a \in Loops, NextWindow(a)
  PROVE  IInv'
<1> DEFINE to == IF head > StartBlock + EachUpdateAmount THEN StartBlock + EachUpdateAmount
                 ELSE head
<1>1. AutoFrom = StartBlock /\ Tables
  BY KeysAreSmall DEF IInv
<1>2. /\ to > StartBlock /\ call' = [call EXCEPT ![a] = Entered(StartBlock, to)]
      /\ UNCHANGED <<head, numbered, blocks, keys, used>>
  BY <1>1 DEF NextWindow, Steps
<1>3. to \in Blocks /\ StartBlock \in Blocks /\ StartBlock < to
  BY <1>1, <1>2, BlockTimeAssumption DEF Tables, Blocks
<1> HIDE DEF to
<1>4. a \in Threads
  BY DEF Threads
<1>5. Entered(StartBlock, to) \in Call /\ CallOK(a, Entered(StartBlock, to), head', blocks')
  BY <1>1, <1>3, <1>4, EnteredOK
<1> QED BY <1>2, <1>4, <1>5, TablesStay, OneCall

\* A request names a range.
LEMMA RequestInv ==
  ASSUME IInv, NEW c \in Callers, NEW from \in Blocks, NEW to \in Blocks, Request(c, from, to)
  PROVE  IInv'
<1>1. /\ from < to /\ call' = [call EXCEPT ![c] = Entered(from, to)]
      /\ UNCHANGED <<head, numbered, blocks, keys>>
  BY BlockTimeAssumption DEF Request, Steps, Blocks
<1>2. c \in Threads /\ c \notin Loops /\ Tables
  BY BlockTimeAssumption DEF Threads, IInv
<1>3. Entered(from, to) \in Call /\ CallOK(c, Entered(from, to), head', blocks')
  BY <1>1, <1>2, EnteredOK
<1>4. used' \in [others: 0..MaxOthers, requests: 0..MaxRequests, errors: 0..MaxErrors]
  BY BlockTimeAssumption DEF Request, IInv, Tables
<1>5. Tables' /\ head <= head' /\ blocks \subseteq blocks'
  BY <1>1, <1>4, BlockTimeAssumption DEF IInv, Tables, Blocks
<1> QED BY <1>1, <1>2, <1>3, <1>5, OneCall

\* A goroutine sends its chunk: the node has all of it.
LEMMA SendInv ==
  ASSUME IInv, NEW t \in Threads, call[t].pc = "go", NEW b \in Chunks(call[t]), Send(t, b)
  PROVE  IInv'
<1> DEFINE o == call[t]
           c == [o EXCEPT !.sent = Append(@, b)]
<1>1. o \in Call /\ CallOK(t, o, head, blocks) /\ o.pc = "go"
  BY DEF IInv
<1>2. /\ call' = [call EXCEPT ![t] = c] /\ b + Gap(o) <= head
      /\ UNCHANGED <<head, numbered, blocks, keys, used>>
  BY DEF Send, Steps, ChunkEnd
<1>3. o.from \in Nat /\ o.to \in Nat /\ o.sent \in Seq(Nat) /\ b \in Nat
  BY <1>1 DEF Call, Chunks
<1>4. /\ c \in Call /\ c.pc = "go" /\ c.from = o.from /\ c.to = o.to /\ c.seen = o.seen
      /\ c.todo = o.todo /\ c.sent = Append(o.sent, b)
  <2>1. Append(o.sent, b) \in Seq(Nat)
    BY <1>3
  <2> HIDE DEF o
  <2> QED BY <1>1, <2>1 DEF Call
<1>5. Gap(c) = Gap(o) /\ Chunks(c) = Chunks(o)
  <2> HIDE DEF o, c
  <2> QED BY <1>4 DEF Gap, Chunks
<1> HIDE DEF c
<1>6. ASSUME NEW i \in DOMAIN c.sent
      PROVE  c.sent[i] \in Chunks(c) /\ c.sent[i] + Gap(c) <= head
  <2>1. CASE i \in DOMAIN o.sent
    <3>1. c.sent[i] = o.sent[i]
      BY <1>3, <1>4, <2>1
    <3> QED BY <1>1, <1>5, <2>1, <3>1 DEF CallOK
  <2>2. CASE i \notin DOMAIN o.sent
    <3>1. c.sent[i] = b
      BY <1>3, <1>4, <1>6, <2>2
    <3> QED BY <1>2, <1>5, <3>1
  <2> QED BY <2>1, <2>2
<1>7. CallOK(t, c, head', blocks')
  BY <1>1, <1>2, <1>4, <1>6 DEF CallOK, Active
<1> QED BY <1>2, <1>4, <1>7, TablesStay, OneCall

\* The process is ended: no thread is left.
LEMMA FatalInv ==
  ASSUME IInv, NEW t \in Threads, NEW b \in Chunks(call[t]), Fatal(t, b)
  PROVE  IInv'
<1>1. call' = [s \in Threads |-> Off] /\ UNCHANGED <<head, numbered, blocks, keys, used>>
  BY DEF Fatal
<1>2. ASSUME NEW u \in Threads
      PROVE  CallOK(u, call'[u], head', blocks')
  BY <1>1, OffIsCall
<1>3. call' \in [Threads -> Call]
  BY <1>1, OffIsCall
<1>4. (\A u \in Threads : CallOK(u, call[u], head, blocks))'
  BY <1>2
<1> QED BY <1>1, <1>3, <1>4, TablesStay DEF IInv

\* So it is when the node fails.
LEMMA NodeErrorInv ==
  ASSUME IInv, NEW t \in Threads, NodeError(t)
  PROVE  IInv'
<1>1. /\ call' = [s \in Threads |-> Off] /\ used' = [used EXCEPT !.errors = @ + 1]
      /\ used.errors < MaxErrors /\ UNCHANGED <<head, numbered, blocks, keys>>
  BY DEF NodeError
<1>2. ASSUME NEW u \in Threads
      PROVE  CallOK(u, call'[u], head', blocks')
  BY <1>1, OffIsCall
<1>3. call' \in [Threads -> Call]
  BY <1>1, OffIsCall
<1>4. (\A u \in Threads : CallOK(u, call[u], head, blocks))'
  BY <1>2
<1>5. Tables'
  BY <1>1, BlockTimeAssumption DEF IInv, Tables
<1> QED BY <1>3, <1>4, <1>5 DEF IInv

\* The results are joined: they hold the range, and nothing the node has not.
LEMMA ReceiveInv ==
  ASSUME IInv, NEW t \in Threads, Receive(t)
  PROVE  IInv'
<1> DEFINE o == call[t]
           c == [o EXCEPT !.pc = "rows", !.sent = <<>>, !.todo = Joined(o)]
<1>1. o \in Call /\ CallOK(t, o, head, blocks) /\ o.pc = "go" /\ Waiting(o) = {}
  BY DEF IInv, Receive
<1>2. call' = [call EXCEPT ![t] = c] /\ UNCHANGED <<head, numbered, blocks, keys, used>>
  BY DEF Receive, Steps
<1>3. o.from < o.to /\ Active(o)
  BY <1>1 DEF CallOK, Active
<1>4. \A r \in Joined(o) : r \in Nat \X Nat /\ r[2] \in Blocks
  <2>1. head \in InitialHead..MaxBlock
    BY DEF IInv, Tables
  <2> HIDE DEF o
  <2> QED BY <1>1, <2>1, JoinedExists
<1>5. o.from..o.to \subseteq {r[2] : r \in Joined(o)}
  BY <1>1, <1>3, JoinedCovers
<1>6. /\ c \in Call /\ c.pc = "rows" /\ c.from = o.from /\ c.to = o.to /\ c.seen = o.seen
      /\ c.todo = Joined(o)
  <2>1. Joined(o) \in SUBSET (Nat \X Nat) /\ <<>> \in Seq(Nat)
    BY <1>4
  <2> DEFINE J == Joined(o)
  <2> HIDE DEF o, J
  <2> QED BY <1>1, <2>1 DEF Call, J
<1> HIDE DEF c
<1>7. CallOK(t, c, head', blocks')
  <2>1. c.from..c.to \subseteq blocks' \cup {r[2] : r \in c.todo}
    BY <1>5, <1>6
  <2>2. Active(c) /\ c.pc # "go"
    BY <1>6 DEF Active
  <2>3. \A r \in c.todo : r[2] \in Blocks
    BY <1>4, <1>6
  <2> HIDE DEF o
  <2> QED BY <1>1, <1>3, <1>6, <2>1, <2>2, <2>3 DEF CallOK
<1> QED BY <1>2, <1>6, <1>7, TablesStay, OneCall

\* A row is inserted, or raises out of the thread.
LEMMA InsertRowInv ==
  ASSUME IInv, NEW t \in Threads, InsertRow(t)
  PROVE  IInv'
<1> DEFINE o == call[t]
<1>1. o \in Call /\ CallOK(t, o, head, blocks) /\ o.pc = "rows" /\ Tables
  BY DEF IInv, InsertRow
<1>2. PICK r \in o.todo :
        /\ IF New(o, r[2]) THEN Insert(r[2]) ELSE UNCHANGED <<numbered, blocks, keys>>
        /\ Steps(t, IF New(o, r[2]) /\ r[2] \in blocks THEN Off
                    ELSE [o EXCEPT !.todo = @ \ {r}])
  BY DEF InsertRow
<1>3. r[2] \in Blocks /\ UNCHANGED <<head, used>>
  BY <1>1, <1>2 DEF CallOK, InsertRow
<1>4. New(o, r[2])
  <2>1. o.seen \subseteq KeySpace /\ r[2] \in Nat /\ r[2] >= FirstBlock /\ FirstBlock \in Nat
    BY <1>1, <1>3, BlockTimeAssumption DEF CallOK, Blocks
  <2>2. \A i \in o.seen : r[2] > i
    BY <2>1 DEF KeySpace
  <2> QED BY <2>2 DEF New
<1>5. Insert(r[2])
  BY <1>2, <1>4
<1>6. Tables' /\ blocks' = blocks \cup {r[2]} /\ head <= head' /\ blocks \subseteq blocks'
  <2>1. Tables' /\ blocks' = blocks \cup {r[2]}
    BY <1>1, <1>3, <1>5, InsertKeeps
  <2> QED BY <1>3, <2>1, BlockTimeAssumption DEF IInv, Tables, Blocks
<1>7. CASE r[2] \in blocks
  <2>1. call' = [call EXCEPT ![t] = Off]
    BY <1>2, <1>4, <1>7 DEF Steps
  <2>2. Off \in Call /\ CallOK(t, Off, head', blocks')
    BY OffIsCall
  <2> QED BY <1>6, <2>1, <2>2, OneCall
<1>8. CASE r[2] \notin blocks
  <2> DEFINE c == [o EXCEPT !.todo = @ \ {r}]
  <2>1. call' = [call EXCEPT ![t] = c]
    BY <1>2, <1>8 DEF Steps
  <2>2. /\ c \in Call /\ c.pc = "rows" /\ c.from = o.from /\ c.to = o.to /\ c.seen = o.seen
        /\ c.todo = o.todo \ {r}
    BY <1>1 DEF Call
  <2> HIDE DEF c
  <2>3. c.from..c.to \subseteq blocks' \cup {s[2] : s \in c.todo}
    <3>1. o.from..o.to \subseteq blocks \cup {s[2] : s \in o.todo}
      BY <1>1 DEF CallOK
    <3> QED BY <1>6, <2>2, <3>1
  <2>4. CallOK(t, c, head', blocks')
    BY <1>1, <2>2, <2>3 DEF CallOK, Active
  <2> QED BY <1>6, <2>1, <2>2, <2>4, OneCall
<1> QED BY <1>7, <1>8

\* The call returns.
LEMMA ReturnInv ==
  ASSUME IInv, NEW t \in Threads, Return(t)
  PROVE  IInv'
<1> DEFINE c == IF t \in Loops THEN While ELSE Off
<1>1. c \in Call /\ CallOK(t, c, head', blocks')
  BY OffIsCall
<1>2. call' = [call EXCEPT ![t] = c] /\ UNCHANGED <<head, numbered, blocks, keys, used>>
  BY DEF Return, Steps, While
<1> HIDE DEF c
<1> QED BY <1>1, <1>2, TablesStay, OneCall

\* One case per action.
LEMMA InvStep == IInv /\ [Next]_vars => IInv'
<1> SUFFICES ASSUME IInv, [Next]_vars PROVE IInv'
  OBVIOUS
<1>1. CASE Mine \/ \E n \in Blocks : OtherCrawl(n)
  BY <1>1, OthersInv
<1>2. ASSUME NEW a \in Loops, StartAuto(a)
      PROVE  IInv'
  BY <1>2, StartAutoInv
<1>3. ASSUME NEW c \in Callers, NEW from \in Blocks, NEW to \in Blocks, Request(c, from, to)
      PROVE  IInv'
  BY <1>3, RequestInv
<1>4. ASSUME NEW t \in Threads, Run(t)
      PROVE  IInv'
  BY <1>4, NextWindowInv, SendInv, FatalInv, ReceiveInv, InsertRowInv, ReturnInv DEF Run
<1>5. ASSUME NEW t \in Threads, NodeError(t)
      PROVE  IInv'
  BY <1>5, NodeErrorInv
<1>6. CASE UNCHANGED vars
  BY <1>6, TablesStay, AllCallsStay DEF vars
<1> QED BY <1>1, <1>2, <1>3, <1>4, <1>5, <1>6 DEF Next

-----------------------------------------------------------------------------
(* The theorems.                                                           *)

\* The invariant holds in every state of every behaviour.
LEMMA Invariant == Spec => []IInv
<1>1. Init => IInv
  BY InvInit
<1>2. IInv /\ [Next]_vars => IInv'
  BY InvStep
<1> QED BY <1>1, <1>2, PTL DEF Spec

\* The tables and the calls keep their shape; the aggregate of Block.number is
\* of keys, two at most and none of them given to no number (views.py 103-106).
THEOREM BlockTimeTypes == Spec => []TypeOK
<1>1. IInv => TypeOK
  BY BlockTimeAssumption DEF IInv, Tables, TypeOK, Blocks
<1> QED BY <1>1, Invariant, PTL

\* Whatever the order in which the goroutines send their chunks, and whatever
\* p_num and the range are: every block of the range is stored or among the rows
\* to be inserted (main.go 549-571).
THEOREM RangeStaysStored == Spec => []RangeIsStored
<1>1. IInv => RangeIsStored
  BY DEF IInv, CallOK, RangeIsStored
<1> QED BY <1>1, Invariant, PTL

\* As long as the node answers, the server is ended by a range that comes within
\* a chunk of the head, and by no other (main.go 551 and 589-594).
THEOREM ExitsNearHead == Spec => ExitsOnlyNearHead
<1> DEFINE Ends == /\ \E t \in Threads : call[t].pc = "go" /\ call'[t].pc = "off"
                   /\ used'.errors = used.errors
           Near == \E t \in Threads : call[t].pc = "go" /\ call[t].to + Gap(call[t]) > head
<1>1. ASSUME IInv, NEW t \in Threads, call[t].pc = "go", NEW b \in Chunks(call[t]), Fatal(t, b)
      PROVE  Near
  <2>1. call[t] \in Call /\ CallOK(t, call[t], head, blocks) /\ head \in Nat
    BY <1>1, BlockTimeAssumption DEF IInv, Tables, Blocks
  <2>2. call[t].from \in Nat /\ call[t].to \in Nat /\ call[t].from < call[t].to
    BY <1>1, <2>1 DEF CallOK, Active, Call
  <2>3. Gap(call[t]) \in Nat
    BY <2>1, <2>2, GapType
  <2>4. b \in Nat /\ b <= call[t].to /\ b + Gap(call[t]) > head
    BY <1>1, <2>2 DEF Fatal, Chunks, ChunkEnd
  <2>5. call[t].to + Gap(call[t]) > head
    BY <2>1, <2>2, <2>3, <2>4
  <2> QED BY <1>1, <2>5
<1>2. ASSUME IInv, NEW t \in Threads, NEW c, call' = [call EXCEPT ![t] = c],
             call[t].pc # "go" \/ c.pc # "off"
      PROVE  ~Ends
  BY <1>2 DEF IInv
<1>3. IInv /\ [Next]_vars => (Ends => Near)
  <2> SUFFICES ASSUME IInv, [Next]_vars, Ends PROVE Near
    OBVIOUS
  <2>1. CASE Mine \/ (\E n \in Blocks : OtherCrawl(n)) \/ UNCHANGED vars
    BY <2>1 DEF Mine, OtherCrawl, vars
  <2>2. ASSUME NEW a \in Loops, StartAuto(a)
        PROVE  Near
    BY <2>2, <1>2 DEF StartAuto, Steps, Threads
  <2>3. ASSUME NEW c \in Callers, NEW from \in Blocks, NEW to \in Blocks, Request(c, from, to)
        PROVE  Near
    BY <2>3, <1>2 DEF Request, Steps, Threads
  <2>4. ASSUME NEW t \in Threads, Run(t)
        PROVE  Near
    <3>1. CASE NextWindow(t)
      BY <3>1, <2>4, <1>2 DEF NextWindow, Steps
    <3>2. ASSUME NEW b \in Chunks(call[t]), call[t].pc = "go", Send(t, b)
          PROVE  Near
      <4>1. [call[t] EXCEPT !.sent = Append(@, b)].pc = "go"
        BY <3>2 DEF IInv, Call
      <4> QED BY <3>2, <4>1, <1>2 DEF Send, Steps
    <3>3. ASSUME NEW b \in Chunks(call[t]), call[t].pc = "go", Fatal(t, b)
          PROVE  Near
      BY <3>3, <1>1
    <3>4. CASE Receive(t)
      <4>1. [call[t] EXCEPT !.pc = "rows", !.sent = <<>>, !.todo = Joined(call[t])].pc = "rows"
        BY DEF IInv, Call
      <4> QED BY <3>4, <4>1, <1>2 DEF Receive, Steps
    <3>5. CASE InsertRow(t)
      BY <3>5, <1>2 DEF InsertRow, Steps
    <3>6. CASE Return(t)
      BY <3>6, <1>2 DEF Return, Steps
    <3> QED BY <2>4, <3>1, <3>2, <3>3, <3>4, <3>5, <3>6 DEF Run
  <2>5. ASSUME NEW t \in Threads, NodeError(t)
        PROVE  Near
    <3>1. used'.errors = used.errors + 1 /\ used.errors \in Nat
      BY <2>5, BlockTimeAssumption DEF NodeError, IInv, Tables
    <3> QED BY <3>1
  <2> QED BY <2>1, <2>2, <2>3, <2>4, <2>5 DEF Next
<1> QED BY <1>3, Invariant, PTL DEF Spec, ExitsOnlyNearHead

\* No key reaches StartBlock, so every window of block_time_auto_update begins
\* there (views.py 194-198): the table is never kept up to date.
THEOREM AutoUpdateStandsStill ==
  Spec => [](\A a \in Loops : Active(call[a]) => call[a].from = StartBlock)
<1>1. IInv => \A a \in Loops : Active(call[a]) => call[a].from = StartBlock
  BY DEF IInv, CallOK, Threads
<1> QED BY <1>1, Invariant, PTL

=============================================================================
