---------------------------- MODULE LatencyProofs ----------------------------
(***************************************************************************)
(* What latency_data_gen keeps for any grid, any feed, any number of       *)
(* callers, ends and exits: a stored latency is final and is the one a     *)
(* single call would have found, and no window is passed over.             *)
(***************************************************************************)
EXTENDS Latency, TLAPS, WellFoundedInduction

-----------------------------------------------------------------------------
(* Greatest and least numbers.                                             *)

\* The naturals are well founded: a set of some of them has a least.
LEMMA LeastNatural ==
  ASSUME NEW T, T \subseteq Nat, T # {}
  PROVE  \E m \in T : \A k \in T : m <= k
<1> DEFINE R == OpToRel(<, Nat)
<1>1. IsWellFoundedOn(R, Nat)
  BY NatLessThanWellFounded
<1>2. PICK m \in T : \A k \in T : <<k, m>> \notin R
  <2> HIDE DEF R
  <2> QED BY <1>1, WFMin
<1>3. \A k \in T : ~(k < m)
  BY <1>2 DEF OpToRel
<1> QED BY <1>3

\* Python's min of some naturals is one of them and none is below it.
LEMMA MinOf ==
  ASSUME NEW S, S \subseteq Nat, S # {}
  PROVE  Min(S) \in S /\ \A k \in S : Min(S) <= k
BY LeastNatural DEF Min

\* So is max of some that are bounded (-1 is the default of a recorded end).
LEMMA MaxOf ==
  ASSUME NEW n \in Nat, NEW S, S \subseteq -1..n, S # {}
  PROVE  Max(S) \in S /\ \A k \in S : k <= Max(S)
<1> DEFINE T == {n - k : k \in S}
<1>1. \A k \in S : n - k \in Nat
  OBVIOUS
<1>2. T \subseteq Nat /\ T # {}
  BY <1>1
<1>3. PICK m \in T : \A k \in T : m <= k
  <2> HIDE DEF T
  <2> QED BY <1>2, LeastNatural
<1>4. PICK x \in S : m = n - x
  OBVIOUS
<1>5. \A y \in S : x >= y
  BY <1>3, <1>4
<1> QED BY <1>5 DEF Max

\* A part of a set that goes as high as the set has the same max, and Python's
\* "none" for no row is 0.
LEMMA SameMax ==
  ASSUME NEW n \in Nat, NEW A, NEW B, A \subseteq B, B \subseteq 1..n,
         \A b \in B : \E a \in A : b <= a
  PROVE  (IF A = {} THEN 0 ELSE Max(A)) = Max({0} \cup B)
<1> DEFINE S == {0} \cup B
<1>1. S \subseteq -1..n /\ S # {} /\ \A k \in S : k \in Int
  OBVIOUS
<1>2. Max(S) \in S /\ \A k \in S : k <= Max(S)
  <2> HIDE DEF S
  <2> QED BY <1>1, MaxOf
<1>3. CASE A = {}
  BY <1>2, <1>3
<1>4. CASE A # {}
  <2>1. A \subseteq -1..n
    OBVIOUS
  <2>2. Max(A) \in A /\ \A k \in A : k <= Max(A)
    BY <1>4, <2>1, MaxOf
  <2>3. Max(A) \in S /\ Max(A) \in 1..n
    BY <2>2
  <2>4. \A b \in B : b <= Max(A)
    <3>1. \A b \in B : b \in Int
      OBVIOUS
    <3>2. ASSUME NEW b \in B
          PROVE  b <= Max(A)
      <4>1. PICK a \in A : b <= a
        OBVIOUS
      <4>2. a <= Max(A) /\ a \in Int /\ b \in Int
        BY <2>2, <3>1
      <4> QED BY <2>3, <4>1, <4>2
    <3> QED BY <3>2
  <2>5. \A k \in S : k <= Max(A)
    BY <2>3, <2>4
  <2>6. Max(A) <= Max(S) /\ Max(S) <= Max(A) /\ Max(A) \in Int /\ Max(S) \in Int
    <3> HIDE DEF S
    <3> QED BY <1>1, <1>2, <2>3, <2>5
  <2>7. Max(A) = Max(S)
    BY <2>6
  <2> QED BY <1>4, <2>7
<1> QED BY <1>3, <1>4

\* Two points of the grid are a window apart, at least.
LEMMA GridStep ==
  ASSUME NEW a \in Grid, NEW b \in Grid, a < b
  PROVE  a + Frequency <= b
<1>1. GlobalFrom \in Nat /\ Frequency \in Nat \ {0} /\ MaxBlock \in Nat
  BY LatencyAssumption
<1>2. a \in Nat /\ b \in Nat /\ (a - GlobalFrom) % Frequency = 0 /\ (b - GlobalFrom) % Frequency = 0
  BY <1>1 DEF Grid
<1>3. PICK i \in Int : a - GlobalFrom = Frequency * i
  BY <1>1, <1>2
<1>4. PICK j \in Int : b - GlobalFrom = Frequency * j
  BY <1>1, <1>2
<1>5. i + 1 <= j
  BY <1>1, <1>2, <1>3, <1>4
<1>6. Frequency * (i + 1) <= Frequency * j
  BY <1>1, <1>5
<1> QED BY <1>1, <1>2, <1>3, <1>4, <1>6

-----------------------------------------------------------------------------
(* The inductive invariant.                                                *)

\* What a single call over all prices finds.
FilledFrom(q) == Max({0} \cup {b \in feed : b <= q})

\* A feed reports in every window that has prices.
Reports ==
  \A q \in Grid : Window(q) \subseteq PricedFrom..MaxBlock => Window(q) \cap feed # {}

\* A recorded range, in the table or read from it, has grid points for ends.
RangeOK(r) ==
  r # NoRange => /\ r.min \in Grid /\ r.max \in Grid
                 /\ PricedFrom <= r.min /\ r.min <= r.max

\* Every window up to its end was tried, those before its beginning as well: a
\* first window without a latency is in no range and is not passed over.
Covers(r, done) == \A q \in Grid : PricedFrom <= q /\ q <= r.max => q \in done

\* What a call knows: its end is priced for the pairs looked at; its batch is
\* right; its windows are all the ones after the range as it was read.
InRange(c, ends) == \A n \in Needed \ c.todo : c.to # -1 /\ c.to <= ends[n]
Batched(c, done) ==
  /\ RangeOK(c.old) /\ Covers(c.old, done)
  /\ c.points = ToTrain(c.to, c.old)
  /\ c.new # {}
  /\ \A r \in c.new : r.at \in c.points /\ r.seed = FilledFrom(r.at)
CallOK(c, ends, done) ==
  /\ c.stage \notin {"off", "sleep"} => InRange(c, ends)
  /\ c.stage \in {"record", "create", "each", "save"} => c.todo = {}
  /\ c.stage \in {"create", "each", "save"} => Batched(c, done)

\* A stored latency.
Final(r, ends) ==
  /\ r.seed = FilledFrom(r.at)
  /\ \A n \in Needed : r.at + Frequency <= ends[n]

Records == RangeOK(record) /\ Covers(record, tried)
Calling == \A u \in Updaters : CallOK(call[u], final, tried)
Latencies == \A r \in stored : Final(r, final)

IInv == TypeOK /\ Reports /\ Records /\ Calling /\ Latencies

-----------------------------------------------------------------------------
\* Prices and tried windows are only added: what a call knows stays known.
LEMMA CallGrows ==
  ASSUME NEW c \in Call, NEW ends \in [Needed -> Int], NEW ends2 \in [Needed -> Int],
         NEW done, NEW done2, CallOK(c, ends, done),
         done \subseteq done2, \A n \in Needed : ends[n] <= ends2[n]
  PROVE  CallOK(c, ends2, done2)
<1>1. c.to \in Int
  BY LatencyAssumption DEF Call
<1>2. InRange(c, ends) => InRange(c, ends2)
  BY <1>1 DEF InRange
<1>3. Batched(c, done) => Batched(c, done2)
  BY DEF Batched, Covers
<1> QED BY <1>2, <1>3 DEF CallOK

\* So does what is known of a stored latency.
LEMMA FinalGrows ==
  ASSUME NEW r \in Row, NEW ends \in [Needed -> Int], NEW ends2 \in [Needed -> Int],
         Final(r, ends), \A n \in Needed : ends[n] <= ends2[n]
  PROVE  Final(r, ends2)
BY LatencyAssumption DEF Final, Row, Grid

\* A step of one call leaves the others as they are.
LEMMA OneCall ==
  ASSUME IInv, NEW u \in Updaters, NEW c \in Call,
         call' = [call EXCEPT ![u] = c], CallOK(c, final, tried'),
         tried \subseteq tried', UNCHANGED <<feed, final>>
  PROVE  call' \in [Updaters -> Call] /\ Calling' /\ Reports'
<1>1. final \in [Needed -> Int] /\ call \in [Updaters -> Call]
  BY LatencyAssumption DEF IInv, TypeOK
<1>2. ASSUME NEW v \in Updaters
      PROVE  CallOK(call'[v], final, tried')
  <2>1. CASE v = u
    BY <1>1, <2>1
  <2>2. CASE v # u
    <3>1. CallOK(call[v], final, tried) /\ call'[v] = call[v] /\ call[v] \in Call
      BY <1>1, <2>2 DEF IInv, Calling
    <3> QED BY <1>1, <3>1, CallGrows
  <2> QED BY <2>1, <2>2
<1>3. Reports'
  BY DEF IInv, Reports
<1> QED BY <1>1, <1>2, <1>3 DEF Calling, CallOK, InRange, Batched, RangeOK, Covers, FilledFrom, ToTrain

\* What the table of latencies holds stays final when the prices grow.
LEMMA StoredStays ==
  ASSUME IInv, \A n \in Needed : final[n] <= final'[n],
         final' \in [Needed -> Int], UNCHANGED <<feed, stored>>
  PROVE  Latencies'
<1>1. final \in [Needed -> Int] /\ stored \subseteq Row
  BY LatencyAssumption DEF IInv, TypeOK
<1>2. \A r \in stored : Final(r, final')
  BY <1>1, FinalGrows DEF IInv, Latencies
<1> QED BY <1>2 DEF Latencies, Final, FilledFrom

\* A step that changes a call only, and keeps what it knows, keeps it all.
LEMMA CallOnly ==
  ASSUME IInv, NEW u \in Updaters, NEW c \in Call,
         call' = [call EXCEPT ![u] = c], CallOK(c, final, tried),
         UNCHANGED <<feed, final, priced, record, stored, tried, exits>>
  PROVE  IInv'
<1>1. call' \in [Updaters -> Call] /\ Calling' /\ Reports'
  BY OneCall
<1>2. TypeOK'
  BY <1>1 DEF IInv, TypeOK
<1>3. Records'
  BY DEF IInv, Records, RangeOK, Covers
<1>4. Latencies'
  <2>1. final' \in [Needed -> Int] /\ \A n \in Needed : final[n] <= final'[n]
    BY LatencyAssumption DEF IInv, TypeOK
  <2> QED BY <2>1, StoredStays
<1> QED BY <1>1, <1>2, <1>3, <1>4 DEF IInv

\* The values that calls start from.
LEMMA OffIsCall ==
  ASSUME NEW u
  PROVE  /\ NoRange \in Recorded /\ NoRange.max = -1
         /\ Off \in Call /\ Off.stage = "off"
         /\ Idle(u) \in Call /\ Idle(u).stage \in {"off", "sleep"}
<1>1. MaxInt \in Nat /\ MaxInt > 0
  BY LatencyAssumption
<1>2. NoRange \in Recorded /\ NoRange.max = -1
  BY <1>1 DEF NoRange, Recorded
<1>3. Off \in Call /\ Off.stage = "off"
  BY <1>2 DEF Off, Call
<1>4. Idle(u) \in Call /\ Idle(u).stage \in {"off", "sleep"}
  BY <1>3 DEF Idle, Off, Call
<1> QED BY <1>2, <1>3, <1>4

\* The initial state satisfies the invariant.
LEMMA InvInit ==
  ASSUME Init
  PROVE  IInv
<1>1. TypeOK
  BY OffIsCall, LatencyAssumption, FeedsAssumption DEF Init, TypeOK
<1>2. Reports
  BY FeedsAssumption DEF Init, Reports
<1>3. Records
  <2>1. \A q \in Grid : PricedFrom <= q => ~(q <= -1)
    BY LatencyAssumption DEF Grid
  <2>2. record = NoRange /\ NoRange.max = -1
    BY OffIsCall DEF Init
  <2> QED BY <2>1, <2>2 DEF Records, RangeOK, Covers
<1>4. Calling
  BY OffIsCall DEF Init, Calling, CallOK
<1>5. Latencies
  BY DEF Init, Latencies
<1> QED BY <1>1, <1>2, <1>3, <1>4, <1>5 DEF IInv

\* Prices of further blocks break nothing that is known.
LEMMA MorePricesInv ==
  ASSUME IInv, NEW n \in Needed, MorePrices(n)
  PROVE  IInv'
<1>1. /\ final \in [Needed -> PricedFrom..MaxBlock]
      /\ final' = [final EXCEPT ![n] = @ + 1] /\ final[n] < MaxBlock
      /\ UNCHANGED <<feed, priced, record, stored, call, tried, exits>>
  BY DEF MorePrices, IInv, TypeOK
<1>2. final' \in [Needed -> PricedFrom..MaxBlock]
  BY <1>1, LatencyAssumption
<1>3. /\ final \in [Needed -> Int] /\ final' \in [Needed -> Int]
      /\ \A m \in Needed : final[m] <= final'[m]
  BY <1>1, <1>2, LatencyAssumption
<1>4. TypeOK'
  <2>1. \A m \in Needed : priced[m] \in PricedFrom..final[m]
    BY DEF IInv, TypeOK
  <2>2. \A m \in Needed : priced'[m] \in PricedFrom..final'[m]
    BY <1>1, <1>3, <2>1, LatencyAssumption
  <2> QED BY <1>1, <1>2, <2>2 DEF IInv, TypeOK
<1>5. Calling'
  <2>1. \A u \in Updaters : call[u] \in Call /\ CallOK(call[u], final, tried)
    BY DEF IInv, TypeOK, Calling
  <2>2. \A u \in Updaters : CallOK(call[u], final', tried)
    BY <1>3, <2>1, CallGrows
  <2> QED BY <1>1, <2>2
       DEF Calling, CallOK, InRange, Batched, RangeOK, Covers, FilledFrom, ToTrain
<1>6. Reports' /\ Records'
  BY <1>1 DEF IInv, Reports, Records, RangeOK, Covers
<1>7. Latencies'
  BY <1>1, <1>3, StoredStays
<1> QED BY <1>4, <1>5, <1>6, <1>7 DEF IInv

\* Nor does a record of them that a slower call takes back.
LEMMA RecordPricesInv ==
  ASSUME IInv, NEW n \in Needed, RecordPrices(n)
  PROVE  IInv'
<1>1. PICK b \in PricedFrom..final[n] : priced' = [priced EXCEPT ![n] = b]
  BY DEF RecordPrices
<1>2. UNCHANGED <<feed, final, record, stored, call, tried, exits>>
  BY DEF RecordPrices
<1>3. TypeOK'
  <2>1. /\ priced' \in [Needed -> Nat]
        /\ \A m \in Needed : priced'[m] \in PricedFrom..final[m]
    BY <1>1, LatencyAssumption DEF IInv, TypeOK
  <2> QED BY <1>2, <2>1 DEF IInv, TypeOK
<1>4. Reports' /\ Records'
  BY <1>2 DEF IInv, Reports, Records, RangeOK, Covers
<1>5. Calling'
  BY <1>2 DEF IInv, Calling, CallOK, InRange, Batched, RangeOK, Covers, FilledFrom, ToTrain
<1>6. Latencies'
  BY <1>2 DEF IInv, Latencies, Final, FilledFrom
<1> QED BY <1>3, <1>4, <1>5, <1>6 DEF IInv

\* A call begins, with every needed pair to be looked at.
LEMMA BeginInv ==
  ASSUME IInv, NEW u \in Updaters, NEW end \in EndsOf(u), Begin(u, end)
  PROVE  IInv'
<1> DEFINE c == [Off EXCEPT !.stage = "range", !.to = end, !.todo = Needed]
<1>1. end \in {-1} \cup 1..MaxInt
  BY LatencyAssumption DEF EndsOf
<1>2. c \in Call
  BY <1>1, OffIsCall DEF Off, Call
<1>3. CallOK(c, final, tried)
  BY DEF Off, CallOK, InRange
<1>4. call' = [call EXCEPT ![u] = c] /\ UNCHANGED <<feed, final, priced, record, stored, tried, exits>>
  BY DEF Begin, Goes
<1> QED BY <1>2, <1>3, <1>4, CallOnly

\* A call that ends without a result leaves the tables as they are.
LEMMA Ended ==
  ASSUME IInv, NEW u \in Updaters, NEW c \in Call, c.stage \in {"off", "sleep"},
         call' = [call EXCEPT ![u] = c],
         UNCHANGED <<feed, final, priced, record, stored, tried, exits>>
  PROVE  IInv'
<1>1. CallOK(c, final, tried)
  BY DEF CallOK
<1> QED BY <1>1, CallOnly

\* A loop is started and stopped between two calls.
LEMMA LoopInv ==
  ASSUME IInv, NEW u \in Updaters, StartLoop(u) \/ StopLoop(u)
  PROVE  IInv'
<1>1. PICK c \in {Off, [Off EXCEPT !.stage = "sleep"]} : call' = [call EXCEPT ![u] = c]
  BY DEF StartLoop, StopLoop, Goes
<1>2. c \in Call /\ c.stage \in {"off", "sleep"}
  BY OffIsCall DEF Call
<1>3. UNCHANGED <<feed, final, priced, record, stored, tried, exits>>
  BY DEF StartLoop, StopLoop
<1> QED BY <1>1, <1>2, <1>3, Ended

\* A call's end is cut to what one needed pair has.
LEMMA LimitInv ==
  ASSUME IInv, NEW u \in Updaters, NEW n \in Needed, Limit(u, n)
  PROVE  IInv'
<1> DEFINE o == call[u]
           c == [o EXCEPT !.todo = @ \ {n},
                          !.to = IF @ = -1 \/ @ > priced[n] THEN priced[n] ELSE @,
                          !.stage = IF o.todo = {n} THEN "record" ELSE "range"]
<1>1. o \in Call /\ CallOK(o, final, tried) /\ o.stage = "range" /\ n \in o.todo
  BY DEF Limit, IInv, TypeOK, Calling
<1>2. /\ priced[n] \in 1..MaxInt /\ priced[n] <= final[n]
      /\ \A m \in Needed : final[m] \in Int
  BY LatencyAssumption DEF IInv, TypeOK
<1>3. c \in Call
  <2>1. o.to \in {-1} \cup 1..MaxInt /\ o.todo \subseteq Needed
    BY <1>1 DEF Call
  <2> DEFINE to == IF o.to = -1 \/ o.to > priced[n] THEN priced[n] ELSE o.to
             stage == IF o.todo = {n} THEN "record" ELSE "range"
  <2>2. to \in {-1} \cup 1..MaxInt /\ stage \in {"record", "range"}
    BY <1>2, <2>1
  <2>3. c = [o EXCEPT !.todo = @ \ {n}, !.to = to, !.stage = stage]
    OBVIOUS
  <2> HIDE DEF to, stage, c
  <2> QED BY <1>1, <2>1, <2>2, <2>3 DEF Call
<1>4. InRange(o, final) /\ o.to \in Int
  BY <1>1, LatencyAssumption DEF CallOK, Call
<1>5. c.to = IF o.to = -1 \/ o.to > priced[n] THEN priced[n] ELSE o.to
  BY <1>1 DEF Call
<1>6. c.todo = o.todo \ {n} /\ c.stage = IF o.todo = {n} THEN "record" ELSE "range"
  BY <1>1 DEF Call
<1>7. InRange(c, final)
  <2> HIDE DEF c
  <2> QED BY <1>2, <1>4, <1>5, <1>6 DEF InRange
<1>8. CallOK(c, final, tried)
  <2> HIDE DEF c
  <2> QED BY <1>6, <1>7 DEF CallOK
<1>9. call' = [call EXCEPT ![u] = c] /\ UNCHANGED <<feed, final, priced, record, stored, tried, exits>>
  BY DEF Limit, Goes
<1> QED BY <1>3, <1>8, <1>9, CallOnly, Zenon

-----------------------------------------------------------------------------
\* The price before a window that a call sees is the one all prices give: the
\* recorded end is a window earlier and the feed has reported since.
LEMMA SeedIsFilledFrom ==
  ASSUME TypeOK, Reports, NEW old \in Recorded, RangeOK(old),
         NEW to \in {-1} \cup 1..MaxInt, NEW q \in ToTrain(to, old)
  PROVE  Seed(q, to, old) = FilledFrom(q)
<1> DEFINE A == {b \in feed : b <= q /\ b <= to /\ Visible(b, old)}
           B == {b \in feed : b <= q}
<1>1. /\ Frequency \in Nat \ {0} /\ PricedFrom \in Nat \ {0} /\ MaxBlock \in Nat
      /\ GlobalFrom \in Nat \ {0}
  BY LatencyAssumption
<1>2. /\ q \in Grid /\ q \in Nat /\ PricedFrom <= q /\ q <= MaxBlock
      /\ to \in Int /\ q + Frequency <= to
      /\ old.max < q \/ old.min > q + Frequency
  BY <1>1, LatencyAssumption DEF ToTrain, Grid
<1>3. feed \subseteq PricedFrom..MaxBlock /\ old.max \in Int /\ old.min \in Int
  BY <1>1, LatencyAssumption DEF TypeOK, Recorded
<1>4. A \subseteq B /\ B \subseteq 1..MaxBlock
  <2>1. feed \subseteq 1..MaxBlock
    BY <1>1, <1>3
  <2> QED BY <2>1
<1>5. \A b \in B : \E a \in A : b <= a
  <2>1. CASE old = NoRange \/ old.min > q + Frequency
    <3>1. \A b \in B : b \in A
      BY <1>1, <1>2, <1>3, <2>1, OffIsCall DEF Visible
    <3> QED BY <1>3, <3>1
  <2>2. CASE ~(old = NoRange \/ old.min > q + Frequency)
    <3>1. old.max \in Grid /\ PricedFrom <= old.max /\ old.max < q
      <4>1. old # NoRange /\ ~(old.min > q + Frequency)
        BY <2>2
      <4>2. old.max < q
        BY <1>2, <4>1
      <4> QED BY <1>1, <1>3, <4>1, <4>2 DEF RangeOK
    <3>2. old.max + Frequency <= q
      BY <1>2, <3>1, GridStep
    <3>3. Window(old.max) \subseteq PricedFrom..MaxBlock
      BY <1>1, <1>2, <1>3, <3>1, <3>2 DEF Window
    <3>4. PICK b0 \in feed : b0 \in old.max..(old.max + Frequency - 1)
      BY <3>1, <3>3 DEF Reports, Window
    <3>5. b0 \in A
      BY <1>1, <1>2, <1>3, <3>2, <3>4 DEF Visible
    <3>6. \A b \in B : b >= old.max => b \in A
      BY <1>1, <1>2, <1>3 DEF Visible
    <3>7. \A b \in B : b < old.max => b <= b0
      BY <1>1, <1>3, <3>4
    <3> HIDE DEF A, B
    <3>8. \A b \in B : b <= b
      BY <1>4
    <3>9. ASSUME NEW b \in B
          PROVE  \E a \in A : b <= a
      <4>1. b \in Int
        BY <1>4
      <4> QED BY <1>3, <3>5, <3>6, <3>7, <3>8, <4>1
    <3> QED BY <3>9
  <2> QED BY <2>1, <2>2
<1>6. Seed(q, to, old) = (IF A = {} THEN 0 ELSE Max(A)) /\ FilledFrom(q) = Max({0} \cup B)
  BY DEF Seed, FilledFrom
<1> QED
  <2> HIDE DEF A, B
  <2> QED BY <1>1, <1>4, <1>5, <1>6, SameMax

\* The row that fills a window is of a block, or there is none.
LEMMA FilledRange ==
  ASSUME TypeOK, NEW q
  PROVE  FilledFrom(q) \in 0..MaxBlock
<1> DEFINE S == {0} \cup {b \in feed : b <= q}
<1>1. MaxBlock \in Nat /\ S \subseteq -1..MaxBlock /\ S \subseteq 0..MaxBlock /\ S # {}
  <2>1. MaxBlock \in Nat /\ PricedFrom \in Nat /\ feed \subseteq PricedFrom..MaxBlock
    BY LatencyAssumption DEF TypeOK
  <2>2. \A k \in S : k \in 0..MaxBlock
    BY <2>1
  <2>3. \A k \in 0..MaxBlock : k \in -1..MaxBlock
    BY <2>1
  <2>4. 0 \in S
    OBVIOUS
  <2> HIDE DEF S
  <2> QED BY <2>1, <2>2, <2>3, <2>4
<1>2. Max(S) \in S
  <2> HIDE DEF S
  <2> QED BY <1>1, MaxOf
<1>3. Max(S) \in 0..MaxBlock
  BY <1>1, <1>2
<1> QED BY <1>3 DEF FilledFrom

\* The windows that were trained without a result are tried, too.
LEMMA TriedInv ==
  ASSUME IInv, NEW u \in Updaters, NEW points \in SUBSET Grid,
         call' = [call EXCEPT ![u] = Idle(u)], tried' = tried \cup points,
         UNCHANGED <<feed, final, priced, record, stored, exits>>
  PROVE  IInv'
<1>1. CallOK(Idle(u), final, tried') /\ Idle(u) \in Call
  BY OffIsCall DEF CallOK
<1>2. call' \in [Updaters -> Call] /\ Calling' /\ Reports'
  BY <1>1, OneCall
<1>3. TypeOK'
  BY <1>2 DEF IInv, TypeOK
<1>4. Records'
  BY DEF IInv, Records, RangeOK, Covers
<1>5. Latencies'
  <2>1. final' \in [Needed -> Int] /\ \A n \in Needed : final[n] <= final'[n]
    BY LatencyAssumption DEF IInv, TypeOK
  <2> QED BY <2>1, StoredStays
<1> QED BY <1>2, <1>3, <1>4, <1>5 DEF IInv

\* A call reads the record and the prices and trains.
LEMMA TrainInv ==
  ASSUME IInv, NEW u \in Updaters, Train(u)
  PROVE  IInv'
<1> DEFINE o == call[u]
           points == ToTrain(o.to, record)
<1>1. /\ o \in Call /\ CallOK(o, final, tried) /\ o.stage = "record"
      /\ UNCHANGED <<feed, final, priced, record, stored, exits>>
  BY DEF Train, IInv, TypeOK, Calling
<1>2. points \in SUBSET Grid
  BY DEF ToTrain
<1>3. CASE Goes(u, Off) /\ UNCHANGED tried
  BY <1>1, <1>3, OffIsCall, Ended DEF Goes
<1>4. CASE Goes(u, Idle(u)) /\ UNCHANGED tried
  <2>1. Idle(u) \in Call /\ Idle(u).stage \in {"off", "sleep"}
    BY OffIsCall
  <2> HIDE DEF points, o
  <2> QED BY <1>1, <1>4, <2>1, Ended DEF Goes
<1>5. CASE Goes(u, Idle(u)) /\ tried' = tried \cup points
  <2> HIDE DEF points, o
  <2> QED BY <1>1, <1>2, <1>5, TriedInv DEF Goes
<1>6. ASSUME NEW good \in SUBSET points,
             NEW new, new = {[at |-> q, seed |-> Seed(q, o.to, record)] : q \in good},
             new # {}, UNCHANGED tried,
             Goes(u, [o EXCEPT !.stage = "create", !.old = record,
                               !.points = points, !.new = new])
      PROVE  IInv'
  <2> DEFINE c == [o EXCEPT !.stage = "create", !.old = record,
                            !.points = points, !.new = new]
  <2>1. TypeOK /\ Reports /\ record \in Recorded /\ RangeOK(record) /\ Covers(record, tried)
    BY DEF IInv, TypeOK, Records
  <2>2. o.to \in {-1} \cup 1..MaxInt
    BY <1>1 DEF Call
  <2>3. \A q \in points : Seed(q, o.to, record) = FilledFrom(q)
    BY <2>1, <2>2, SeedIsFilledFrom
  <2>4. \A q \in points : q \in Grid /\ FilledFrom(q) \in 0..MaxBlock
    BY <1>2, <2>1, FilledRange
  <2>5. new \subseteq Row
    <3> HIDE DEF points, o
    <3> QED BY <1>6, <2>3, <2>4 DEF Row
  <2>6. \A r \in new : r.at \in points /\ r.seed = FilledFrom(r.at)
    <3> HIDE DEF points, o
    <3> QED BY <1>6, <2>3
  <2>7. /\ c.stage = "create" /\ c.old = record /\ c.points = points /\ c.new = new
        /\ c.to = o.to /\ c.todo = o.todo
    <3> HIDE DEF points
    <3> QED BY <1>1 DEF Call
  <2>8. c \in Call
    <3> HIDE DEF points
    <3> QED BY <1>1, <1>2, <2>1, <2>5 DEF Call
  <2>9. Batched(c, tried)
    <3> HIDE DEF c
    <3> QED BY <1>6, <2>1, <2>6, <2>7 DEF Batched
  <2>10. CallOK(c, final, tried)
    <3> HIDE DEF c, points
    <3> QED BY <1>1, <2>7, <2>9 DEF CallOK, InRange
  <2>11. call' = [call EXCEPT ![u] = c]
    BY <1>6 DEF Goes
  <2> HIDE DEF c
  <2> QED BY <1>1, <1>6, <2>8, <2>10, <2>11, CallOnly
<1> QED BY <1>3, <1>4, <1>5, <1>6 DEF Train

\* Rows that a call stores are final, and no window gets two.
LEMMA StoreInv ==
  ASSUME IInv, NEW u \in Updaters, call[u].stage \in {"create", "each"},
         NEW more \in SUBSET call[u].new, stored' = stored \cup more,
         UNCHANGED <<feed, final>>
  PROVE  /\ Latencies'
         /\ stored' \subseteq Row
         /\ \A r, s \in stored' : r.at = s.at => r = s
<1> DEFINE o == call[u]
<1>1. o \in Call /\ CallOK(o, final, tried) /\ stored \subseteq Row
  BY DEF IInv, TypeOK, Calling
<1>2. InRange(o, final) /\ o.todo = {} /\ Batched(o, tried)
  BY <1>1 DEF CallOK
<1>3. o.new \subseteq Row /\ o.to \in Int
  BY <1>1, LatencyAssumption DEF Call
<1>4. Frequency \in Nat /\ \A n \in Needed : final[n] \in Int
  BY LatencyAssumption DEF IInv, TypeOK
<1>5. ASSUME NEW r \in o.new
      PROVE  Final(r, final)
  <2>1. r.at \in Grid /\ r.at + Frequency <= o.to /\ r.seed = FilledFrom(r.at)
    BY <1>2 DEF Batched, ToTrain
  <2>2. r.at \in Int
    BY <2>1, LatencyAssumption DEF Grid
  <2>3. \A n \in Needed : o.to <= final[n]
    BY <1>2 DEF InRange
  <2> HIDE DEF o
  <2> QED BY <1>3, <1>4, <2>1, <2>2, <2>3 DEF Final
<1>6. stored' \subseteq Row
  BY <1>1, <1>3
<1>7. \A r \in stored' : Final(r, final)
  <2> HIDE DEF o
  <2> QED BY <1>5 DEF IInv, Latencies, o
<1>8. \A r, s \in stored' : r.at = s.at => r = s
  BY <1>6, <1>7 DEF Final, Row
<1>9. Latencies'
  BY <1>7 DEF Latencies, Final, FilledFrom
<1> QED BY <1>6, <1>8, <1>9

\* The next stage of a call that has a batch.
LEMMA StageInv ==
  ASSUME IInv, NEW u \in Updaters, call[u].stage \in {"create", "each"},
         NEW st \in {"each", "save"},
         NEW c, c = [call[u] EXCEPT !.stage = st]
  PROVE  c \in Call /\ CallOK(c, final, tried)
<1> DEFINE o == call[u]
<1>1. o \in Call /\ CallOK(o, final, tried)
  BY DEF IInv, TypeOK, Calling
<1>2. c \in Call
  BY <1>1 DEF Call
<1>3. /\ c.stage = st /\ c.to = o.to /\ c.todo = o.todo /\ c.old = o.old
      /\ c.points = o.points /\ c.new = o.new
  BY <1>1 DEF Call
<1>4. InRange(o, final) /\ o.todo = {} /\ Batched(o, tried)
  BY <1>1 DEF CallOK
<1>5. CallOK(c, final, tried)
  <2> HIDE DEF o
  <2> QED BY <1>3, <1>4 DEF CallOK, InRange, Batched
<1> QED BY <1>2, <1>5

\* The batch is stored as a whole, or not at all.
LEMMA BulkCreateInv ==
  ASSUME IInv, NEW u \in Updaters, BulkCreate(u)
  PROVE  IInv'
<1> DEFINE fails == \E r \in call[u].new : IsStored(r.at)
           st == IF fails THEN "each" ELSE "save"
           c == [call[u] EXCEPT !.stage = st]
           more == IF fails THEN {} ELSE call[u].new
<1>1. /\ call[u].stage = "create" /\ stored' = stored \cup more
      /\ call' = [call EXCEPT ![u] = c]
      /\ UNCHANGED <<feed, final, priced, record, tried, exits>>
  BY DEF BulkCreate, Goes
<1>2. st \in {"each", "save"} /\ more \in SUBSET call[u].new
  OBVIOUS
<1> HIDE DEF fails, st, more
<1>3. c \in Call /\ CallOK(c, final, tried)
  BY <1>1, <1>2, StageInv
<1> HIDE DEF c
<1>4. CallOK(c, final, tried') /\ tried \subseteq tried'
  BY <1>1, <1>3 DEF CallOK, Batched, Covers
<1>5. call' \in [Updaters -> Call] /\ Calling' /\ Reports'
  BY <1>1, <1>3, <1>4, OneCall
<1>6. /\ Latencies' /\ stored' \subseteq Row
      /\ \A r, s \in stored' : r.at = s.at => r = s
  BY <1>1, <1>2, StoreInv
<1>7. TypeOK'
  BY <1>1, <1>5, <1>6 DEF IInv, TypeOK
<1>8. Records'
  BY <1>1 DEF IInv, Records, RangeOK, Covers
<1> QED BY <1>5, <1>6, <1>7, <1>8 DEF IInv

\* A row at a time after a failed batch.
LEMMA SaveEachInv ==
  ASSUME IInv, NEW u \in Updaters, SaveEach(u)
  PROVE  IInv'
<1> DEFINE c == [call[u] EXCEPT !.stage = "save"]
<1>1. call[u].stage = "each" /\ UNCHANGED <<feed, final, priced, record, tried, exits>>
  BY DEF SaveEach
<1>2. CASE Goes(u, c) /\ UNCHANGED stored
  <2>1. c \in Call /\ CallOK(c, final, tried)
    BY <1>1, StageInv
  <2> HIDE DEF c
  <2> QED BY <1>1, <1>2, <2>1, CallOnly DEF Goes
<1>3. ASSUME NEW r \in call[u].new, stored' = stored \cup {r}, UNCHANGED call
      PROVE  IInv'
  <2>1. {r} \in SUBSET call[u].new
    OBVIOUS
  <2>2. /\ Latencies' /\ stored' \subseteq Row
        /\ \A x, y \in stored' : x.at = y.at => x = y
    BY <1>1, <1>3, <2>1, StoreInv
  <2>3. TypeOK'
    BY <1>1, <1>3, <2>2 DEF IInv, TypeOK
  <2>4. Reports' /\ Records'
    BY <1>1 DEF IInv, Reports, Records, RangeOK, Covers
  <2>5. Calling'
    BY <1>1, <1>3
       DEF IInv, Calling, CallOK, InRange, Batched, RangeOK, Covers, FilledFrom, ToTrain
  <2> QED BY <2>2, <2>3, <2>4, <2>5 DEF IInv
<1> QED BY <1>2, <1>3 DEF SaveEach

\* The range a call saves: the one it read, extended by what it stored. Every
\* window up to its end was tried before that read or is one of the call's.
LEMMA SavedRange ==
  ASSUME TypeOK, NEW c \in Call, Batched(c, tried),
         NEW ats, ats = {r.at : r \in c.new},
         NEW range, range = [max |-> Max(ats \cup {c.old.max}),
                             min |-> Min(ats \cup {c.old.min})]
  PROVE  /\ range \in Recorded /\ range.min <= range.max
         /\ RangeOK(range) /\ Covers(range, tried \cup c.points)
<1> DEFINE Highs == ats \cup {c.old.max}
           Lows == ats \cup {c.old.min}
<1>1. /\ GlobalFrom \in Nat \ {0} /\ PricedFrom \in Nat \ {0} /\ MaxBlock \in Nat
      /\ Frequency \in Nat \ {0} /\ MaxInt \in Nat /\ MaxInt > MaxBlock
  BY LatencyAssumption
<1>2. /\ c.old \in Recorded /\ RangeOK(c.old) /\ Covers(c.old, tried)
      /\ c.old.max \in {-1} \cup 1..MaxInt /\ c.old.min \in 1..MaxInt
      /\ c.to \in {-1} \cup 1..MaxInt
  BY DEF Batched, Call, Recorded
<1>3. /\ ats \subseteq c.points /\ ats # {}
      /\ c.points = ToTrain(c.to, c.old)
  BY DEF Batched
<1>4. \A q \in c.points : q \in Grid /\ PricedFrom <= q /\ q + Frequency <= c.to
  BY <1>3 DEF ToTrain
<1>5. \A q \in Grid : q \in 1..MaxBlock /\ q \in 1..MaxInt /\ q \in Int
  BY <1>1 DEF Grid
<1>6. c.old = NoRange => c.old.max = -1 /\ c.old.min = MaxInt
  BY DEF NoRange
<1>7. PICK a \in ats : a \in Grid /\ PricedFrom <= a /\ a \in 1..MaxBlock
  BY <1>3, <1>4, <1>5
<1>8. Max(Highs) \in Highs /\ \A k \in Highs : k <= Max(Highs)
  <2>1. Highs \subseteq -1..MaxInt
    <3>1. \A k \in ats : k \in 1..MaxInt
      BY <1>3, <1>4, <1>5
    <3>2. \A k \in {-1} \cup 1..MaxInt : k \in -1..MaxInt
      BY <1>1
    <3>3. ats \subseteq -1..MaxInt /\ c.old.max \in -1..MaxInt
      BY <1>2, <3>1, <3>2
    <3> QED BY <3>3
  <2> HIDE DEF Highs
  <2>2. Highs # {}
    BY DEF Highs
  <2> QED BY <1>1, <2>1, <2>2, MaxOf
<1>9. Min(Lows) \in Lows /\ \A k \in Lows : Min(Lows) <= k
  <2>1. Lows \subseteq Nat
    <3>1. \A k \in ats : k \in 1..MaxInt
      BY <1>3, <1>4, <1>5
    <3>2. \A k \in 1..MaxInt : k \in Nat
      BY <1>1
    <3>3. ats \subseteq Nat /\ c.old.min \in Nat
      BY <1>2, <3>1, <3>2
    <3> QED BY <3>3
  <2> HIDE DEF Lows
  <2>2. Lows # {}
    BY DEF Lows
  <2> QED BY <2>1, <2>2, MinOf
<1>10. range.max = Max(Highs) /\ range.min = Min(Lows)
  OBVIOUS
<1> HIDE DEF Highs, Lows
<1>11. range.max \in Highs /\ range.min \in Lows /\ range.min <= a /\ a <= range.max
  BY <1>7, <1>8, <1>9, <1>10 DEF Highs, Lows
<1>12. range.max \in ats \/ (range.max = c.old.max /\ c.old # NoRange)
  <2>1. range.max \in ats \/ range.max = c.old.max
    BY <1>11 DEF Highs
  <2>2. c.old = NoRange => range.max # c.old.max
    BY <1>6, <1>7, <1>11
  <2> QED BY <2>1, <2>2
<1>13. range.min \in ats \/ (range.min = c.old.min /\ c.old # NoRange)
  <2>1. range.min \in ats \/ range.min = c.old.min
    BY <1>11 DEF Lows
  <2>2. c.old = NoRange => range.min # c.old.min
    BY <1>1, <1>6, <1>7, <1>11
  <2> QED BY <2>1, <2>2
<1>14. range.max \in Grid
  BY <1>2, <1>3, <1>4, <1>12 DEF RangeOK
<1>15. range.min \in Grid /\ PricedFrom <= range.min
  BY <1>2, <1>3, <1>4, <1>13 DEF RangeOK
<1>16. range.min <= range.max
  <2>1. a \in Int /\ range.min \in Int /\ range.max \in Int
    BY <1>5, <1>7, <1>14, <1>15
  <2> QED BY <1>11, <2>1
<1>17. range \in Recorded
  <2>1. range.min \in 1..MaxInt /\ range.max \in {-1} \cup 1..MaxInt
    BY <1>5, <1>14, <1>15
  <2>2. range = [min |-> range.min, max |-> range.max]
    OBVIOUS
  <2> QED BY <2>1, <2>2 DEF Recorded
<1>18. Covers(range, tried \cup c.points)
  <2>1. ASSUME NEW q \in Grid, PricedFrom <= q, q <= range.max
        PROVE  q \in tried \cup c.points
    <3>1. CASE q <= c.old.max
      BY <1>2, <2>1, <3>1 DEF Covers
    <3>2. CASE ~(q <= c.old.max)
      <4>1. q \in Int /\ c.old.max \in Int /\ c.to \in Int /\ range.max \in Int
        <5>1. \A k \in {-1} \cup 1..MaxInt : k \in Int
          BY <1>1
        <5> QED BY <1>2, <1>5, <1>14, <2>1, <5>1
      <4>2. range.max \in c.points
        BY <1>3, <1>12, <2>1, <3>2
      <4>3. q + Frequency <= c.to
        BY <1>1, <1>4, <2>1, <4>1, <4>2
      <4>4. q \in ToTrain(c.to, c.old)
        BY <2>1, <3>2, <4>1, <4>3 DEF ToTrain
      <4> QED BY <1>3, <4>4
    <3> QED BY <3>1, <3>2
  <2> QED BY <2>1 DEF Covers
<1> QED BY <1>14, <1>15, <1>16, <1>17, <1>18 DEF RangeOK

\* The range is saved, whatever other calls have saved since it was read.
LEMMA SaveRecordInv ==
  ASSUME IInv, NEW u \in Updaters, SaveRecord(u)
  PROVE  IInv'
<1> DEFINE o == call[u]
           ats == {r.at : r \in o.new}
           range == [max |-> Max(ats \cup {o.old.max}), min |-> Min(ats \cup {o.old.min})]
<1>1. /\ o \in Call /\ CallOK(o, final, tried) /\ o.stage = "save"
      /\ record' = range /\ tried' = tried \cup o.points
      /\ call' = [call EXCEPT ![u] = Idle(u)]
      /\ UNCHANGED <<feed, final, priced, stored, exits>>
  BY DEF SaveRecord, Goes, IInv, TypeOK, Calling
<1>2. Batched(o, tried) /\ o.points \subseteq Grid /\ TypeOK
  BY <1>1 DEF CallOK, Call, IInv
<1>3. /\ range \in Recorded /\ range.min <= range.max
      /\ RangeOK(range) /\ Covers(range, tried \cup o.points)
  <2> HIDE DEF o
  <2> QED BY <1>1, <1>2, SavedRange
<1> HIDE DEF range
<1>4. CallOK(Idle(u), final, tried') /\ Idle(u) \in Call
  BY OffIsCall DEF CallOK
<1>5. call' \in [Updaters -> Call] /\ Calling' /\ Reports'
  BY <1>1, <1>4, OneCall
<1>6. TypeOK'
  BY <1>1, <1>2, <1>3, <1>5 DEF TypeOK
<1>7. Records'
  BY <1>1, <1>3 DEF Records, RangeOK, Covers
<1>8. Latencies'
  <2>1. final' \in [Needed -> Int] /\ \A n \in Needed : final[n] <= final'[n]
    BY <1>1, LatencyAssumption DEF IInv, TypeOK
  <2> QED BY <1>1, <2>1, StoredStays
<1> QED BY <1>5, <1>6, <1>7, <1>8 DEF IInv

\* What the process leaves behind: the tables, and no call.
LEMMA ExitInv ==
  ASSUME IInv, Exit
  PROVE  IInv'
<1>1. /\ exits' = exits + 1 /\ exits < MaxExits /\ call' = [u \in Updaters |-> Off]
      /\ UNCHANGED <<feed, final, priced, record, stored, tried>>
  BY DEF Exit
<1>2. TypeOK'
  BY <1>1, OffIsCall, LatencyAssumption DEF IInv, TypeOK
<1>3. Reports' /\ Records'
  BY <1>1 DEF IInv, Reports, Records, RangeOK, Covers
<1>4. Calling'
  BY <1>1, OffIsCall DEF Calling, CallOK
<1>5. Latencies'
  BY <1>1 DEF IInv, Latencies, Final, FilledFrom
<1> QED BY <1>2, <1>3, <1>4, <1>5 DEF IInv

\* Every step keeps the invariant.
LEMMA InvStep ==
  ASSUME IInv, [Next]_vars
  PROVE  IInv'
<1>1. ASSUME NEW n \in Needed, MorePrices(n)
      PROVE  IInv'
  BY <1>1, MorePricesInv
<1>6. ASSUME NEW n \in Needed, RecordPrices(n)
      PROVE  IInv'
  BY <1>6, RecordPricesInv
<1>7. ASSUME NEW u \in Updaters, StartLoop(u) \/ StopLoop(u)
      PROVE  IInv'
  BY <1>7, LoopInv
<1>2. ASSUME NEW u \in Updaters, Run(u)
      PROVE  IInv'
  BY <1>2, LimitInv, TrainInv, BulkCreateInv, SaveEachInv, SaveRecordInv DEF Run
<1>3. ASSUME NEW u \in Updaters, NEW end \in EndsOf(u), Begin(u, end)
      PROVE  IInv'
  BY <1>3, BeginInv
<1>4. CASE Exit
  BY <1>4, ExitInv
<1>5. CASE UNCHANGED vars
  BY <1>5 DEF vars, IInv, TypeOK, Reports, Records, Calling, Latencies, CallOK, InRange,
              Batched, RangeOK, Covers, Final, FilledFrom, ToTrain
<1> QED BY <1>1, <1>2, <1>3, <1>4, <1>5, <1>6, <1>7 DEF Next

-----------------------------------------------------------------------------
(* The theorems.                                                           *)

\* The invariant holds in every state of every behaviour.
LEMMA Invariant == Spec => []IInv
<1>1. Init => IInv
  BY InvInit
<1>2. IInv /\ [Next]_vars => IInv'
  BY InvStep
<1> QED BY <1>1, <1>2, PTL DEF Spec

\* The tables and the calls of latency_data_gen keep their shape, and no window
\* has two latencies (the unique constraint of LatencyRecord).
THEOREM LatencyTypes == Spec => []TypeOK
<1>1. IInv => TypeOK
  BY DEF IInv
<1> QED BY <1>1, Invariant, PTL

\* However calls overlap and save ranges they read before, no window of the
\* recorded range has been passed over (views.py 352 and 420-435).
THEOREM NoWindowIsSkipped == Spec => []NoWindowSkipped
<1>1. IInv => NoWindowSkipped
  <2>1. ASSUME IInv, NEW q \in Grid, q \in record.min..record.max
        PROVE  q \in tried
    <3>1. record \in Recorded /\ RangeOK(record) /\ Covers(record, tried)
      BY <2>1 DEF IInv, TypeOK, Records
    <3>2. record # NoRange
      BY <2>1, LatencyAssumption DEF NoRange
    <3>3. PricedFrom <= q
      BY <2>1, <3>1, <3>2, LatencyAssumption DEF RangeOK, Grid
    <3> QED BY <2>1, <3>1, <3>3, LatencyAssumption DEF Covers, Grid, Recorded
  <2> QED BY <2>1 DEF NoWindowSkipped
<1> QED BY <1>1, Invariant, PTL

\* A stored latency is the one a single call over all prices would have found,
\* however the range was split among calls (views.py:330).
THEOREM SplitChangesNothing == Spec => []SameAsOneCall
<1>1. IInv => SameAsOneCall
  BY DEF IInv, Latencies, Final, FilledFrom, SameAsOneCall
<1> QED BY <1>1, Invariant, PTL

\* A latency is stored only when all block prices of its window are in the
\* table, for every pair that is needed (views.py:351), although slower calls
\* take the recorded ends of the prices back (views.py 121-123).
THEOREM LatenciesAreFinal == Spec => []WindowsArePriced
<1>1. IInv => WindowsArePriced
  BY DEF IInv, Latencies, Final, WindowsArePriced
<1> QED BY <1>1, Invariant, PTL

=============================================================================
