-------------------------- MODULE LendingPoolProofs --------------------------
(***************************************************************************)
(* What the AAVE crawl keeps for any actions, any blocks, any window and   *)
(* any number of exits, as long as one request seeds the range and one     *)
(* crawler extends it: the row "overall" claims nothing that is not stored.*)
(***************************************************************************)
EXTENDS LendingPool, TLAPS, WellFoundedInduction, FiniteSetTheorems

\* The use of the program that the theorems are about: one request by hand,
\* one crawler; and it keeps its direction, or the process never exits. Any
\* of them given up, OverallIsStored fails (see the README).
OneOperator ==
  /\ \A c, d \in Crawlers : c = d
  /\ MaxCalls \in 0..1
  /\ MaxDirections = 1 \/ MaxExits = 0

-----------------------------------------------------------------------------
(* Least and greatest numbers, as min() and max() give them.               *)

\* Some natural numbers have a least one.
LEMMA LeastNatural ==
  ASSUME NEW T, T \subseteq Nat, T # {}
  PROVE  \E m \in T : \A k \in T : m <= k
<1> DEFINE R == OpToRel(<, Nat)
<1>1. IsWellFoundedOn(R, Nat)
  BY NatLessThanWellFounded
<1>2. PICK m \in T : \A k \in T : <<k, m>> \notin R
  <2> HIDE DEF R
  <2> QED BY <1>1, WFMin
<1>3. \A k \in T : ~(k < m)
  BY <1>2 DEF OpToRel
<1> QED BY <1>3

HasLeast(S) == \E m \in S : \A k \in S : m <= k
HasGreatest(S) == \E m \in S : \A k \in S : k <= m
Between(S, low, high) == \A k \in S : k \in Int /\ low <= k /\ k <= high

\* Some numbers that are bounded have a least one.
LEMMA LeastOf ==
  ASSUME NEW low \in Int, NEW high, NEW S, S # {}, Between(S, low, high)
  PROVE  HasLeast(S)
<1> DEFINE T == {k - low : k \in S}
<1>1. \A k \in S : k \in Int /\ k - low \in Nat
  BY DEF Between
<1>2. T \subseteq Nat /\ T # {}
  BY <1>1
<1>3. PICK m \in T : \A k \in T : m <= k
  <2> HIDE DEF T
  <2> QED BY <1>2, LeastNatural
<1>4. PICK y \in S : m = y - low
  OBVIOUS
<1>5. \A k \in S : y - low <= k - low
  BY <1>3, <1>4
<1>6. \A k \in S : y <= k
  <2> HIDE DEF T
  <2> QED BY <1>1, <1>5
<1> QED BY <1>6 DEF HasLeast

\* And a greatest one.
LEMMA GreatestOf ==
  ASSUME NEW low \in Int, NEW high \in Int, NEW S, S # {}, Between(S, low, high)
  PROVE  HasGreatest(S)
<1> DEFINE T == {-k : k \in S}
<1>1. \A k \in S : k \in Int
  BY DEF Between
<1>2. -high \in Int /\ T # {} /\ Between(T, -high, -low)
  BY DEF Between
<1>3. HasLeast(T)
  <2> HIDE DEF T
  <2> QED BY <1>2, LeastOf
<1>4. PICK y \in S : \A k \in T : -y <= k
  BY <1>3 DEF HasLeast
<1>5. \A k \in S : -y <= -k
  BY <1>4
<1>6. \A k \in S : k <= y
  <2> HIDE DEF T
  <2> QED BY <1>1, <1>5
<1> QED BY <1>6 DEF HasGreatest

\* What Extended adds to a row are blocks it was given.
LEMMA ExtendedSpan ==
  ASSUME NEW s \in Span, NEW from \in Int, NEW to \in Int, NEW B \in SUBSET (from..to)
  PROVE  /\ Extended(s, B) \in Span
         /\ Extended(s, B).min \in B \cup {s.min}
         /\ Extended(s, B).max \in B \cup {s.max}
<1> DEFINE Lows == B \cup {s.min}
           Highs == B \cup {s.max}
<1>1. s.min \in Int /\ s.max \in Int /\ \A k \in B : k \in Int /\ from <= k /\ k <= to
  BY DEF Span
<1>2. HasLeast(Lows)
  <2>1. Lesser(from, s.min) \in Int /\ Between(Lows, Lesser(from, s.min), Greater(to, s.min))
    BY <1>1 DEF Between, Lesser, Greater
  <2>2. Lows # {}
    OBVIOUS
  <2> HIDE DEF Lows
  <2> QED BY <2>1, <2>2, LeastOf
<1>3. HasGreatest(Highs)
  <2>1. /\ Lesser(from, s.max) \in Int /\ Greater(to, s.max) \in Int
        /\ Between(Highs, Lesser(from, s.max), Greater(to, s.max))
    BY <1>1 DEF Between, Lesser, Greater
  <2>2. Highs # {}
    OBVIOUS
  <2> HIDE DEF Highs
  <2> QED BY <2>1, <2>2, GreatestOf
<1>4. Extended(s, B).min \in Lows /\ Extended(s, B).max \in Highs
  BY <1>2, <1>3 DEF Extended, HasLeast, HasGreatest
<1>5. Lows \subseteq Int /\ Highs \subseteq Int
  BY <1>1
<1> QED BY <1>4, <1>5 DEF Extended, Span

-----------------------------------------------------------------------------
(* The inductive invariant.                                                *)

\* The logs of the pool are of blocks the node has, and so is what rows claim.
OnChain ==
  /\ \A l \in chain : CreateBlock <= l.block /\ l.block <= head
  /\ \A n \in Names : CreateBlock <= summary[n].min /\ summary[n].max <= head
  /\ overall # NoSpan => CreateBlock <= overall.max /\ overall.min <= head

\* All that a table takes of some blocks is stored.
AllStored(first, last) ==
  \A l \in chain : Kept(l) /\ first <= l.block /\ l.block <= last => l \in rows

\* A row of the summary claims blocks on either side of a window only when
\* they are stored: once the window is, it may be extended to cover both.
Fits(s, from, to) == AllStored(s.min, from - 1) /\ AllStored(to + 1, s.max)
AllFit(from, to) == \A n \in Names : Fits(summary[n], from, to)

\* The window a crawler of each direction would take next.
NextFrom(reverse) ==
  IF reverse THEN Greater(CreateBlock, overall.min - EachUpdateAmount) ELSE overall.max + 1
NextTo(reverse) ==
  IF reverse THEN overall.min - 1 ELSE Lesser(head, overall.max + EachUpdateAmount)

\* Every row fits that window: what a call has left behind half-way is in it.
Resumes(reverse) == AllFit(NextFrom(reverse), NextTo(reverse))

\* No crawler is in the middle of saving rows.
Untouched == \A c \in Crawlers : call[c].bn = {} \/ call[c].stage = "done"
MayCome(reverse) == used.directions \subseteq {reverse} \/ (MaxExits = 0 /\ Untouched)
Resumable == overall # NoSpan => \A r \in BOOLEAN : MayCome(r) => Resumes(r)

Active(c) == c.stage \in {"fetch", "read", "store", "record", "overall"}

\* What an active call knows: its batch is what its window holds and the
\* tables do not; the rows it reads and saves fit its window.
WindowOK(c) == CreateBlock <= c.from /\ c.from <= c.to /\ c.to <= head /\ AllFit(c.from, c.to)
BatchOK(c) ==
  /\ \A l \in c.batch : l \in chain /\ c.from <= l.block /\ l.block <= c.to
  /\ c.stage # "fetch" => \A l \in chain :
       Kept(l) /\ c.from <= l.block /\ l.block <= c.to => l \in rows \cup c.batch
  /\ c.stage = "record" => \A l \in c.batch : Kept(l) /\ Current(c, l.action) => l \in rows
  /\ c.stage = "overall" => c.batch = {}
RecordOK(c) ==
  /\ c.bn \subseteq c.from..c.to
  /\ c.stage = "fetch" => c.bn = {}
  /\ c.stage = "record" => c.bn # {}
  /\ c.stage \in {"store", "record", "overall"} =>
       /\ CreateBlock <= c.record.min /\ c.record.max <= head
       /\ Fits(c.record, c.from, c.to)
CallOK(c) == WindowOK(c) /\ BatchOK(c) /\ RecordOK(c)
Calls == \A t \in Threads : Active(call[t]) => CallOK(call[t])

\* The crawler's window is the next one of its direction, or was when it was
\* chosen, before the head moved on.
Upcoming(c, r) ==
  c.from = NextFrom(r) /\ c.to <= NextTo(r) /\ (r => c.to = NextTo(r))
OwnWindows == \A c \in Crawlers : Active(call[c]) => Upcoming(call[c], loop[c].reverse)

\* The request comes first, then the crawler; it has one direction at a time.
RequestFirst ==
  /\ used.calls = 0 => \A n \in Names : summary[n] = NoSpan
  /\ \A c \in Callers : call[c].stage # "none" => used.calls = 1
  /\ \A c, d \in Callers : call[c].stage # "none" /\ call[d].stage # "none" => c = d
  /\ \A c \in Callers : Active(call[c]) => overall = NoSpan
Loops ==
  /\ \A c \in Crawlers : call[c].stage # "none" => loop[c].pc = "call"
  /\ \A c \in Crawlers : loop[c].pc # "off" =>
       overall # NoSpan /\ loop[c].reverse \in used.directions
  /\ \A c \in Crawlers : loop[c].pc = "window" => loop[c].snap = overall
  /\ MaxDirections = 1 => \A r, s \in used.directions : r = s
Ends == \A t \in Threads : call[t].stage \in {"none", "error"} => call[t].bn = {}
InTurn == RequestFirst /\ Loops /\ Ends

Tables == OnChain /\ OverallIsStored /\ Resumable
IInv == TypeOK /\ Tables /\ Calls /\ OwnWindows /\ InTurn

-----------------------------------------------------------------------------
(* Steps that leave the chain and the summary alone and lose no row.       *)

Still ==
  /\ UNCHANGED <<head, chain, summary>>
  /\ rows \subseteq rows' /\ rows' \subseteq Log

\* The constants and the state, typed.
LEMMA Typed ==
  ASSUME TypeOK
  PROVE  /\ CreateBlock \in Nat \ {0} /\ MaxBlock \in Nat /\ MaxInt \in Nat
         /\ MaxBlock < MaxInt /\ EachUpdateAmount \in Nat \ {0}
         /\ head \in Nat /\ CreateBlock <= head /\ head <= MaxBlock
         /\ \A l \in chain : l.block \in Nat
         /\ \A n \in Names : summary[n].min \in Int /\ summary[n].max \in Int
         /\ overall.min \in Int /\ overall.max \in Int
         /\ \A t \in Threads : call[t].from \in Int /\ call[t].to \in Int
BY BlocksAssumption, WindowAssumption DEF TypeOK, Log, Span, Call, Names, overall

\* NoSpan claims no block, and nobody crawls yet.
LEMMA NoCrawler ==
  ASSUME IInv, overall = NoSpan, NEW c \in Crawlers
  PROVE  loop[c].pc = "off" /\ call[c].stage = "none" /\ ~Active(call[c])
BY DEF IInv, InTurn, Loops, Active

\* The tables keep what they have; a direction that may come could before.
LEMMA TablesStay ==
  ASSUME IInv, Still, \A r \in BOOLEAN : MayCome(r)' => MayCome(r)
  PROVE  Tables'
<1>1. OnChain'
  BY DEF IInv, Tables, OnChain, Still, overall, NoSpan
<1>2. OverallIsStored'
  BY DEF IInv, Tables, OverallIsStored, Still, overall, Kept, Within
<1>3. Resumable'
  BY DEF IInv, Tables, Resumable, Still, Resumes, AllFit, Fits, AllStored, NextFrom, NextTo,
         overall, Kept
<1> QED BY <1>1, <1>2, <1>3 DEF Tables

\* One call takes a step that concerns its own state only.
LEMMA OneCall ==
  ASSUME IInv, Still, NEW t \in Threads, NEW c \in Call,
         call' = [call EXCEPT ![t] = c], Active(c) => CallOK(c)
  PROVE  call' \in [Threads -> Call] /\ Calls'
<1>1. call \in [Threads -> Call]
  BY DEF IInv, TypeOK
<1>2. ASSUME NEW u \in Threads, Active(call'[u])
      PROVE  CallOK(call'[u])
  BY <1>1, <1>2 DEF IInv, Calls
<1>3. Calls'
  <2> SUFFICES ASSUME NEW u \in Threads, Active(call'[u])
               PROVE  CallOK(call[u])'
    BY DEF Calls, Active
  <2>1. CallOK(call'[u])
    BY <1>2
  <2> QED BY <2>1
       DEF Still, CallOK, WindowOK, BatchOK, RecordOK, AllFit, Fits, AllStored, Kept, Current
<1> QED BY <1>1, <1>3

\* The windows crawlers are in stay theirs.
LEMMA OwnStay ==
  ASSUME IInv, Still, \A c \in Crawlers : Active(call'[c]) =>
           Active(call[c]) /\ call'[c].from = call[c].from /\ call'[c].to = call[c].to
           /\ loop'[c].reverse = loop[c].reverse
  PROVE  OwnWindows'
BY DEF IInv, OwnWindows, Still, Upcoming, NextFrom, NextTo, overall, Active

\* A call goes on, without having saved more of its batch.
LEMMA GoesOn ==
  ASSUME IInv, Still, UNCHANGED <<loop, used>>,
         NEW t \in Threads, NEW c \in Call, call' = [call EXCEPT ![t] = c],
         Active(call[t]), Calls', c.from = call[t].from, c.to = call[t].to,
         c.bn = {} \/ c.stage = "done" => call[t].bn = {},
         c.stage = "error" => c.bn = {}, c.stage # "none"
  PROVE  IInv'
<1>1. call \in [Threads -> Call] /\ call' \in [Threads -> Call]
  BY DEF IInv, TypeOK
<1>2. TypeOK'
  BY <1>1 DEF IInv, TypeOK, Still
<1>3. \A u \in Threads : u # t => call'[u] = call[u]
  BY <1>1
<1>4. call'[t] = c
  BY <1>1
<1>5. Tables'
  <2>1. Untouched' => Untouched
    BY <1>3, <1>4 DEF Untouched, Threads
  <2>2. \A r \in BOOLEAN : MayCome(r)' => MayCome(r)
    BY <2>1 DEF MayCome
  <2> QED BY <2>2, TablesStay
<1>6. OwnWindows'
  BY <1>3, <1>4, OwnStay DEF Threads
<1>7. RequestFirst'
  BY <1>3, <1>4 DEF IInv, InTurn, RequestFirst, Active, Still, overall, Threads
<1>8. Loops'
  BY <1>3, <1>4 DEF IInv, InTurn, Loops, Active, Still, overall, Threads
<1>9. Ends'
  BY <1>3, <1>4 DEF IInv, InTurn, Ends, Active
<1> QED BY <1>1, <1>2, <1>5, <1>6, <1>7, <1>8, <1>9 DEF IInv, InTurn

\* The logs of the window are read; those that are kept are the batch.
LEMMA FetchInv ==
  ASSUME IInv, NEW t \in Threads, Fetch(t)
  PROVE  IInv'
<1> DEFINE o == call[t]
           logs == {l \in chain : o.from <= l.block /\ l.block <= o.to}
           kept == {l \in logs : l.action \in Actions \ NoData}
           raises == kept = {} \/ \E l \in logs : l.action \in Unknown
           st == IF logs = {} THEN "done" ELSE IF raises THEN "error" ELSE "read"
           c == [o EXCEPT !.batch = kept, !.stage = st]
<1>1. o \in Call /\ o.stage = "fetch" /\ Active(o) /\ CallOK(o) /\ call \in [Threads -> Call]
  BY DEF Fetch, Active, IInv, TypeOK, Calls
<1>2. kept \subseteq chain /\ kept \subseteq Log
  BY DEF IInv, TypeOK
<1>3. st \in {"done", "error", "read"}
  OBVIOUS
<1>4. call' = [call EXCEPT ![t] = c] /\ Still /\ UNCHANGED <<loop, used>>
  BY <1>1 DEF Fetch, Still, IInv, TypeOK
<1>5. \A l \in chain : Kept(l) /\ o.from <= l.block /\ l.block <= o.to => l \in kept
  BY DEF Kept
<1>6. \A l \in kept : l \in chain /\ o.from <= l.block /\ l.block <= o.to
  OBVIOUS
<1> HIDE DEF kept, logs, raises, st
<1>7. /\ c \in Call /\ c.from = o.from /\ c.to = o.to /\ c.bn = o.bn /\ c.batch = kept
      /\ c.stage = st
  BY <1>1, <1>2, <1>3 DEF Call
<1> HIDE DEF c, o
<1>8. Active(c) => CallOK(c)
  BY <1>1, <1>3, <1>5, <1>6, <1>7 DEF CallOK, WindowOK, BatchOK, RecordOK, Active
<1>9. c.bn = {} /\ c.stage # "none"
  BY <1>1, <1>3, <1>7 DEF CallOK, RecordOK
<1>10. o.bn = {}
  BY <1>7, <1>9
<1>11. Calls'
  BY <1>4, <1>7, <1>8, OneCall
<1> QED BY <1>1, <1>4, <1>7, <1>9, <1>10, <1>11, GoesOn DEF o

\* The row of the next action is read: it fits the window, as all rows do.
LEMMA ReadRecordInv ==
  ASSUME IInv, NEW t \in Threads, ReadRecord(t)
  PROVE  IInv'
<1> DEFINE o == call[t]
<1>1. o \in Call /\ o.stage = "read" /\ Active(o) /\ CallOK(o) /\ call \in [Threads -> Call]
  BY DEF ReadRecord, Active, IInv, TypeOK, Calls
<1>2. PICK a \in Actions : call' = [call EXCEPT ![t].stage = "store", ![t].record = summary[a]]
  BY DEF ReadRecord
<1> DEFINE c == [o EXCEPT !.stage = "store", !.record = summary[a]]
<1>3. call' = [call EXCEPT ![t] = c] /\ Still /\ UNCHANGED <<loop, used>>
  BY <1>1, <1>2 DEF ReadRecord, Still, IInv, TypeOK
<1>4. a \in Names /\ summary[a] \in Span /\ CreateBlock <= summary[a].min /\ summary[a].max <= head
  BY DEF Names, IInv, TypeOK, Tables, OnChain
<1>5. /\ c \in Call /\ c.from = o.from /\ c.to = o.to /\ c.bn = o.bn /\ c.batch = o.batch
      /\ c.stage = "store" /\ c.record = summary[a]
  BY <1>1, <1>4 DEF Call
<1> HIDE DEF c, o
<1>6. CallOK(c)
  BY <1>1, <1>4, <1>5 DEF CallOK, WindowOK, BatchOK, RecordOK, AllFit
<1>7. Calls'
  BY <1>3, <1>5, <1>6, OneCall
<1> QED BY <1>1, <1>3, <1>5, <1>7, GoesOn DEF o

\* A set with at most one direction has no two.
LEMMA OneDirection ==
  ASSUME NEW D \in SUBSET BOOLEAN, Cardinality(D) <= 1
  PROVE  \A r, s \in D : r = s
<1>1. SUFFICES ASSUME NEW r \in D, NEW s \in D, r # s
               PROVE  FALSE
  OBVIOUS
<1>2. IsFiniteSet({r}) /\ Cardinality({r}) = 1
  BY FS_Singleton
<1>3. IsFiniteSet({r} \cup {s}) /\ Cardinality({r} \cup {s}) = 2
  <2>1. s \notin {r}
    BY <1>1
  <2> QED BY <1>2, <2>1, FS_AddElement
<1>4. D = {r} \cup {s}
  BY <1>1
<1> QED BY <1>3, <1>4

\* A call that is over makes room, a row that is empty fits every window.
LEMMA NoCallIsCall ==
  /\ NoCall \in Call /\ ~Active(NoCall) /\ NoCall.bn = {} /\ NoCall.batch = {}
  /\ NoCall.stage = "none"
BY BlocksAssumption DEF NoCall, NoSpan, Call, Span, Active

\* A call that is entered knows its window and nothing more.
LEMMA EnteringIsCall ==
  ASSUME NEW from \in Int, NEW to \in Int, NEW d, d = Entering(from, to)
  PROVE  /\ d \in Call /\ d.stage = "fetch" /\ d.from = from /\ d.to = to
         /\ d.bn = {} /\ d.batch = {}
BY NoCallIsCall DEF Entering, Call

\* The first request: nothing is crawled, nobody else crawls.
LEMMA SubmitInv ==
  ASSUME IInv, OneOperator, NEW c \in Callers, NEW from \in CreateBlock..MaxBlock,
         NEW to \in CreateBlock..MaxBlock, Submit(c, from, to)
  PROVE  IInv'
<1> DEFINE d == Entering(from, to)
<1>1. /\ from <= to /\ to <= head /\ call' = [call EXCEPT ![c] = d]
      /\ Still /\ UNCHANGED loop
      /\ used' = [used EXCEPT !.calls = @ + 1]
  BY DEF Submit, Still, IInv, TypeOK
<1>2. used.calls = 0 /\ MaxCalls = 1
  BY DEF Submit, OneOperator, IInv, TypeOK
<1>3. \A n \in Names : summary[n] = NoSpan
  BY <1>2 DEF IInv, InTurn, RequestFirst
<1>4. overall = NoSpan
  BY <1>3 DEF overall, Names
<1>5. /\ CreateBlock \in Nat \ {0} /\ MaxBlock \in Nat /\ head <= MaxBlock /\ MaxBlock < MaxInt
      /\ MaxInt \in Nat /\ head \in Nat /\ from \in Int /\ to \in Int
  BY Typed, BlocksAssumption DEF IInv
<1>6. /\ d \in Call /\ d.stage = "fetch" /\ d.from = from /\ d.to = to /\ d.bn = {}
      /\ d.batch = {}
  BY <1>5, EnteringIsCall
<1> HIDE DEF d
<1>7. Fits(NoSpan, from, to)
  <2>1. \A l \in chain : l.block \in Nat /\ l.block <= head
    BY Typed DEF IInv, Tables, OnChain
  <2> QED BY <1>5, <2>1 DEF Fits, AllStored, NoSpan
<1>8. CallOK(d)
  BY <1>1, <1>3, <1>5, <1>6, <1>7 DEF CallOK, WindowOK, BatchOK, RecordOK, AllFit
<1>9. call \in [Threads -> Call] /\ call' \in [Threads -> Call] /\ Calls' /\ c \in Threads
  BY <1>1, <1>6, <1>8, OneCall DEF IInv, TypeOK, Threads
<1>10. call'[c] = d /\ \A u \in Threads : u # c => call'[u] = call[u]
  BY <1>1, <1>9
<1>11. c \notin Crawlers /\ Crawlers \subseteq Threads /\ Callers \subseteq Threads
  BY ActorsAssumption DEF Threads
<1>12. /\ used' \in [exits: 0..MaxExits, calls: 0..MaxCalls, directions: SUBSET BOOLEAN]
       /\ used'.calls = 1 /\ used'.directions = used.directions
  BY <1>1, <1>2, BoundsAssumption DEF IInv, TypeOK
<1>13. TypeOK'
  BY <1>1, <1>9, <1>12 DEF IInv, TypeOK, Still
<1>14. Tables'
  <2>1. Untouched' => Untouched
    BY <1>10, <1>11 DEF Untouched
  <2>2. \A r \in BOOLEAN : MayCome(r)' => MayCome(r)
    BY <1>12, <2>1 DEF MayCome
  <2> QED BY <1>1, <2>2, TablesStay
<1>15. OwnWindows'
  BY <1>1, <1>10, <1>11, OwnStay
<1>16. \A u \in Callers : call[u].stage = "none"
  BY <1>2 DEF IInv, InTurn, RequestFirst
<1>17. RequestFirst'
  BY <1>1, <1>4, <1>6, <1>10, <1>11, <1>12, <1>16 DEF RequestFirst, Still, overall
<1>18. Loops'
  BY <1>1, <1>10, <1>11, <1>12 DEF IInv, InTurn, Loops, Still, overall
<1>19. Ends'
  BY <1>6, <1>10 DEF IInv, InTurn, Ends
<1> QED BY <1>9, <1>13, <1>14, <1>15, <1>17, <1>18, <1>19 DEF IInv, InTurn

\* The request is answered.
LEMMA RespondInv ==
  ASSUME IInv, NEW c \in Callers, Respond(c)
  PROVE  IInv'
<1>1. call' = [call EXCEPT ![c] = NoCall] /\ Still /\ UNCHANGED <<loop, used>>
  BY DEF Respond, Still, IInv, TypeOK
<1>2. call \in [Threads -> Call] /\ call' \in [Threads -> Call] /\ Calls' /\ c \in Threads
  BY <1>1, NoCallIsCall, OneCall DEF IInv, TypeOK, Threads
<1>3. call'[c] = NoCall /\ \A u \in Threads : u # c => call'[u] = call[u]
  BY <1>1, <1>2
<1>4. c \notin Crawlers /\ Crawlers \subseteq Threads /\ Callers \subseteq Threads
  BY ActorsAssumption DEF Threads
<1>5. TypeOK'
  BY <1>1, <1>2 DEF IInv, TypeOK, Still
<1>6. Tables'
  <2>1. \A r \in BOOLEAN : MayCome(r)' => MayCome(r)
    BY <1>1, <1>3, <1>4 DEF Untouched, MayCome
  <2> QED BY <1>1, <2>1, TablesStay
<1>7. OwnWindows'
  BY <1>1, <1>3, <1>4, OwnStay
<1>8. RequestFirst'
  BY <1>1, <1>3, <1>4, NoCallIsCall DEF IInv, InTurn, RequestFirst, Still, overall, Active
<1>9. Loops'
  BY <1>1, <1>3, <1>4 DEF IInv, InTurn, Loops, Still, overall
<1>10. Ends'
  BY <1>3, NoCallIsCall DEF IInv, InTurn, Ends
<1> QED BY <1>2, <1>5, <1>6, <1>7, <1>8, <1>9, <1>10 DEF IInv, InTurn

\* A loop that is over, and one that is started.
LEMMA NoLoopIsLoop == NoLoop \in Loop /\ NoLoop.pc = "off"
BY BlocksAssumption DEF NoLoop, NoSpan, Loop, Span

\* Tables and calls are left alone, a loop that is at work keeps its direction.
LEMMA LoopOnly ==
  ASSUME IInv, Still, UNCHANGED call, loop' \in [Crawlers -> Loop], Loops',
         used' \in [exits: 0..MaxExits, calls: 0..MaxCalls, directions: SUBSET BOOLEAN],
         used.directions \subseteq used'.directions, used'.calls = used.calls,
         \A c \in Crawlers : Active(call[c]) => loop'[c].reverse = loop[c].reverse
  PROVE  IInv'
<1>1. TypeOK'
  BY DEF IInv, TypeOK, Still
<1>2. Tables'
  <2>1. \A r \in BOOLEAN : MayCome(r)' => MayCome(r)
    BY DEF Untouched, MayCome
  <2> QED BY <2>1, TablesStay
<1>3. OwnWindows'
  BY OwnStay
<1>4. Calls'
  BY DEF IInv, Calls, Still, CallOK, WindowOK, BatchOK, RecordOK, AllFit, Fits, AllStored,
         Kept, Current, Active
<1>5. RequestFirst' /\ Ends'
  BY DEF IInv, InTurn, RequestFirst, Ends, Still, overall, Active
<1> QED BY <1>1, <1>2, <1>3, <1>4, <1>5 DEF IInv, InTurn

\* A crawler is started; with one direction allowed, it has the others'.
LEMMA StartCrawlerInv ==
  ASSUME IInv, OneOperator, NEW c \in Crawlers, NEW r \in BOOLEAN, StartCrawler(c, r)
  PROVE  IInv'
<1> DEFINE l == [NoLoop EXCEPT !.pc = "while", !.reverse = r]
<1>1. /\ loop[c].pc = "off" /\ overall # NoSpan
      /\ Cardinality(used.directions \cup {r}) <= MaxDirections
      /\ used' = [used EXCEPT !.directions = @ \cup {r}]
      /\ loop' = [loop EXCEPT ![c] = l]
      /\ Still /\ UNCHANGED call
  BY DEF StartCrawler, Still, IInv, TypeOK
<1>2. l \in Loop /\ l.pc = "while" /\ l.reverse = r
  BY NoLoopIsLoop DEF Loop
<1> HIDE DEF l
<1>3. /\ used' \in [exits: 0..MaxExits, calls: 0..MaxCalls, directions: SUBSET BOOLEAN]
      /\ used'.directions = used.directions \cup {r} /\ used'.calls = used.calls
  BY <1>1 DEF IInv, TypeOK
<1>4. loop' \in [Crawlers -> Loop]
  BY <1>1, <1>2 DEF IInv, TypeOK
<1>5. loop'[c] = l /\ \A d \in Crawlers : d # c => loop'[d] = loop[d]
  BY <1>1 DEF IInv, TypeOK
<1>6. MaxDirections = 1 => \A x, y \in used'.directions : x = y
  BY <1>1, <1>3, OneDirection DEF IInv, TypeOK
<1>7. call[c].stage = "none"
  BY <1>1 DEF IInv, InTurn, Loops
<1>8. Loops'
  BY <1>1, <1>2, <1>3, <1>5, <1>6, <1>7 DEF IInv, InTurn, Loops, Still, overall
<1>9. \A d \in Crawlers : Active(call[d]) => loop'[d].reverse = loop[d].reverse
  BY <1>5, <1>7 DEF Active
<1> QED BY <1>1, <1>3, <1>4, <1>8, <1>9, LoopOnly

\* The stop button.
LEMMA StopCrawlerInv ==
  ASSUME IInv, NEW c \in Crawlers, StopCrawler(c)
  PROVE  IInv'
<1>1. /\ loop' = [loop EXCEPT ![c].do_run = FALSE]
      /\ Still /\ UNCHANGED <<call, used>>
  BY DEF StopCrawler, Still, IInv, TypeOK
<1>2. loop' \in [Crawlers -> Loop]
  <2>1. loop \in [Crawlers -> Loop]
    BY DEF IInv, TypeOK
  <2>2. [loop[c] EXCEPT !.do_run = FALSE] \in Loop
    BY <2>1 DEF Loop
  <2> QED BY <1>1, <2>1, <2>2
<1>3. \A d \in Crawlers : /\ loop'[d].pc = loop[d].pc /\ loop'[d].reverse = loop[d].reverse
                          /\ loop'[d].snap = loop[d].snap
  BY <1>1 DEF IInv, TypeOK, Loop
<1>4. Loops'
  BY <1>1, <1>3 DEF IInv, InTurn, Loops, Still, overall
<1> QED BY <1>1, <1>2, <1>3, <1>4, LoopOnly DEF IInv, TypeOK

\* The overall row is read into the loop, or the loop ends.
LEMMA ReadOverallInv ==
  ASSUME IInv, NEW c \in Crawlers, ReadOverall(c)
  PROVE  IInv'
<1> DEFINE l == IF loop[c].do_run THEN [loop[c] EXCEPT !.pc = "window", !.snap = overall]
                ELSE NoLoop
<1>1. loop \in [Crawlers -> Loop] /\ loop[c] \in Loop /\ overall \in Span
  BY DEF IInv, TypeOK, overall, Names
<1>2. /\ loop[c].pc = "while" /\ loop' = [loop EXCEPT ![c] = l]
      /\ Still /\ UNCHANGED <<call, used>>
  BY <1>1 DEF ReadOverall, Still, IInv, TypeOK
<1>3. /\ l \in Loop /\ l.pc \in {"window", "off"}
      /\ l.pc = "window" => l.snap = overall /\ l.reverse = loop[c].reverse
  <2>1. CASE loop[c].do_run
    BY <1>1, <2>1 DEF Loop
  <2>2. CASE ~loop[c].do_run
    BY <2>2, NoLoopIsLoop
  <2> QED BY <2>1, <2>2
<1> HIDE DEF l
<1>4. loop' \in [Crawlers -> Loop] /\ loop'[c] = l
      /\ \A d \in Crawlers : d # c => loop'[d] = loop[d]
  BY <1>1, <1>2, <1>3
<1>5. call[c].stage = "none"
  BY <1>2 DEF IInv, InTurn, Loops
<1>6. Loops'
  BY <1>2, <1>3, <1>4, <1>5 DEF IInv, InTurn, Loops, Still, overall
<1>7. \A d \in Crawlers : Active(call[d]) => loop'[d].reverse = loop[d].reverse
  BY <1>4, <1>5 DEF Active
<1> QED BY <1>2, <1>4, <1>6, <1>7, LoopOnly DEF IInv, TypeOK

\* The window of the loop is the next one of its direction.
LEMMA NextWindow ==
  ASSUME IInv, NEW c \in Crawlers, loop[c].pc = "window",
         Missing(loop[c])[1] < Missing(loop[c])[2],
         NEW from, from = Window(loop[c])[1], NEW to, to = Window(loop[c])[2],
         NEW r, r = loop[c].reverse
  PROVE  /\ from = NextFrom(r) /\ to = NextTo(r)
         /\ CreateBlock <= from /\ from <= to /\ to <= head /\ from \in Int /\ to \in Int
<1>1. loop[c].snap = overall /\ overall # NoSpan
  BY DEF IInv, InTurn, Loops
<1>2. /\ CreateBlock \in Nat \ {0} /\ EachUpdateAmount \in Nat \ {0}
      /\ head \in Nat /\ overall.min \in Int /\ overall.max \in Int
  BY Typed DEF IInv
<1>3. CreateBlock <= overall.max /\ overall.min <= head
  BY <1>1 DEF IInv, Tables, OnChain
<1>4. CASE r
  <2>1. CreateBlock < overall.min - 1
    BY <1>1, <1>4 DEF Missing
  <2>2. from = Greater(CreateBlock, overall.min - 1 - EachUpdateAmount + 1) /\ to = overall.min - 1
    BY <1>1, <1>4 DEF Window, Missing
  <2>3. overall.min - 1 - EachUpdateAmount + 1 = overall.min - EachUpdateAmount
    BY <1>2
  <2> QED BY <1>2, <1>3, <1>4, <2>1, <2>2, <2>3 DEF NextFrom, NextTo, Greater
<1>5. CASE ~r
  <2>1. overall.max + 1 < head
    BY <1>1, <1>5 DEF Missing
  <2>2. from = overall.max + 1 /\ to = Lesser(head, overall.max + 1 + EachUpdateAmount - 1)
    BY <1>1, <1>5 DEF Window, Missing
  <2>3. overall.max + 1 + EachUpdateAmount - 1 = overall.max + EachUpdateAmount
    BY <1>2
  <2> QED BY <1>2, <1>3, <1>5, <2>1, <2>2, <2>3 DEF NextFrom, NextTo, Lesser
<1> QED BY <1>4, <1>5

\* The window is taken, or too little is missing.
LEMMA EnterWindowInv ==
  ASSUME IInv, OneOperator, NEW c \in Crawlers, EnterWindow(c)
  PROVE  IInv'
<1> DEFINE r == loop[c].reverse
           from == Window(loop[c])[1]
           to == Window(loop[c])[2]
           d == Entering(from, to)
<1>1. /\ loop[c].pc = "window" /\ UNCHANGED <<head, chain, rows, summary, used>> /\ Still
      /\ loop \in [Crawlers -> Loop] /\ r \in BOOLEAN /\ call \in [Threads -> Call]
  BY DEF EnterWindow, Still, IInv, TypeOK, Loop
<1>2. call[c].stage = "none" /\ call[c].bn = {} /\ overall # NoSpan /\ r \in used.directions
  BY <1>1 DEF IInv, InTurn, Loops, Ends, Threads
<1>3. \A u \in Crawlers : u = c
  BY DEF OneOperator
<1>4. Untouched
  BY <1>2, <1>3 DEF Untouched
<1>5. MayCome(r)
  BY <1>2, <1>4 DEF MayCome, OneOperator, IInv, InTurn, Loops
<1>6. Resumes(r)
  BY <1>1, <1>2, <1>5 DEF IInv, Tables, Resumable
<1>7. CASE /\ loop' = [loop EXCEPT ![c].pc = "while"]
           /\ UNCHANGED call
  <2>1. loop' \in [Crawlers -> Loop]
    BY <1>1, <1>7 DEF Loop
  <2>2. loop'[c].pc = "while" /\ loop'[c].reverse = r
    BY <1>1, <1>7
  <2>3. Loops'
    BY <1>1, <1>2, <1>3, <1>7, <2>2 DEF IInv, InTurn, Loops, overall
  <2>4. \A u \in Crawlers : Active(call[u]) => loop'[u].reverse = loop[u].reverse
    BY <1>3, <2>2
  <2> QED BY <1>1, <1>7, <2>1, <2>3, <2>4, LoopOnly DEF IInv, TypeOK
<1>8. CASE /\ Missing(loop[c])[1] < Missing(loop[c])[2]
           /\ call' = [call EXCEPT ![c] = d]
           /\ loop' = [loop EXCEPT ![c].pc = "call"]
  <2>1. /\ from = NextFrom(r) /\ to = NextTo(r)
        /\ CreateBlock <= from /\ from <= to /\ to <= head /\ from \in Int /\ to \in Int
    BY <1>1, <1>8, NextWindow
  <2>2. /\ d \in Call /\ d.stage = "fetch" /\ d.from = from /\ d.to = to
        /\ d.bn = {} /\ d.batch = {}
    BY <2>1, EnteringIsCall
  <2> HIDE DEF d, from, to
  <2>3. AllFit(from, to)
    BY <1>6, <2>1 DEF Resumes
  <2>4. CallOK(d)
    BY <2>1, <2>2, <2>3 DEF CallOK, WindowOK, BatchOK, RecordOK
  <2>5. c \in Threads /\ c \notin Callers /\ Callers \subseteq Threads
    BY ActorsAssumption DEF Threads
  <2>6. call' \in [Threads -> Call] /\ Calls'
    BY <1>1, <1>8, <2>2, <2>4, <2>5, OneCall
  <2>7. call'[c] = d /\ \A u \in Threads : u # c => call'[u] = call[u]
    BY <1>1, <1>8, <2>5
  <2>8. loop' \in [Crawlers -> Loop] /\ loop'[c].pc = "call" /\ loop'[c].reverse = r
    BY <1>1, <1>8 DEF Loop
  <2>9. TypeOK'
    BY <1>1, <2>6, <2>8 DEF IInv, TypeOK
  <2>10. Tables'
    <3>1. \A x \in BOOLEAN : MayCome(x)' => MayCome(x)
      BY <1>1, <1>4 DEF MayCome
    <3> QED BY <1>1, <3>1, TablesStay
  <2>11. OwnWindows'
    <3>1. Upcoming(d, r)
      BY <2>1, <2>2, Typed DEF Upcoming, IInv
    <3>2. d.from = NextFrom(r) /\ d.to <= NextTo(r) /\ (r => d.to = NextTo(r))
      BY <3>1 DEF Upcoming
    <3>3. call'[c].from = NextFrom(r) /\ call'[c].to <= NextTo(r) /\ (r => call'[c].to = NextTo(r))
      BY <2>7, <3>2
    <3> QED BY <1>1, <1>3, <2>8, <3>3 DEF OwnWindows, Upcoming, NextFrom, NextTo, overall
  <2>12. RequestFirst'
    BY <1>1, <2>5, <2>7 DEF IInv, InTurn, RequestFirst, Active, overall
  <2>13. Loops'
    BY <1>1, <1>2, <1>3, <2>8 DEF IInv, InTurn, Loops, overall
  <2>14. Ends'
    BY <2>2, <2>7 DEF IInv, InTurn, Ends
  <2> QED BY <2>6, <2>9, <2>10, <2>11, <2>12, <2>13, <2>14 DEF IInv, InTurn
<1> QED BY <1>7, <1>8 DEF EnterWindow

\* The call is over, and the loop goes on or ends.
LEMMA ReturnInv ==
  ASSUME IInv, OneOperator, NEW c \in Crawlers, Return(c)
  PROVE  IInv'
<1>1. /\ loop[c].pc = "call" /\ call[c].stage \in {"done", "error"}
      /\ call' = [call EXCEPT ![c] = NoCall]
      /\ UNCHANGED <<head, chain, rows, summary, used>> /\ Still
      /\ call \in [Threads -> Call] /\ loop \in [Crawlers -> Loop]
  BY DEF Return, Still, IInv, TypeOK
<1>2. \A u \in Crawlers : u = c
  BY DEF OneOperator
<1>3. c \in Threads /\ c \notin Callers /\ Callers \subseteq Threads
  BY ActorsAssumption DEF Threads
<1>4. call' \in [Threads -> Call] /\ Calls'
  BY <1>1, <1>3, NoCallIsCall, OneCall
<1>5. call'[c] = NoCall /\ \A u \in Threads : u # c => call'[u] = call[u]
  BY <1>1, <1>3
<1>6. loop' \in [Crawlers -> Loop] /\ loop'[c].pc \in {"while", "off"}
      /\ (loop'[c].pc # "off" => loop'[c].reverse = loop[c].reverse)
  <2>1. CASE loop' = [loop EXCEPT ![c].pc = "while"]
    BY <1>1, <2>1 DEF Loop
  <2>2. CASE loop' = [loop EXCEPT ![c] = NoLoop]
    BY <1>1, <2>2, NoLoopIsLoop
  <2> QED BY <2>1, <2>2 DEF Return
<1>7. TypeOK'
  BY <1>1, <1>4, <1>6 DEF IInv, TypeOK
<1>8. Tables'
  <2>1. Untouched
    BY <1>1, <1>2, <1>3 DEF Untouched, IInv, InTurn, Ends
  <2>2. \A x \in BOOLEAN : MayCome(x)' => MayCome(x)
    BY <1>1, <2>1 DEF MayCome
  <2> QED BY <1>1, <2>2, TablesStay
<1>9. OwnWindows'
  BY <1>2, <1>5, NoCallIsCall DEF OwnWindows, Active
<1>10. RequestFirst'
  BY <1>1, <1>3, <1>5 DEF IInv, InTurn, RequestFirst, Active, overall
<1>11. Loops'
  BY <1>1, <1>2, <1>5, <1>6, NoCallIsCall DEF IInv, InTurn, Loops, overall
<1>12. Ends'
  BY <1>5, NoCallIsCall DEF IInv, InTurn, Ends
<1> QED BY <1>4, <1>7, <1>8, <1>9, <1>10, <1>11, <1>12 DEF IInv, InTurn

\* The process is down: with an exit allowed there is one direction only, and
\* that one could come before.
LEMMA ExitInv ==
  ASSUME IInv, OneOperator, Exit
  PROVE  IInv'
<1>1. /\ used.exits < MaxExits /\ used' = [used EXCEPT !.exits = @ + 1]
      /\ call' = [t \in Threads |-> NoCall] /\ loop' = [c \in Crawlers |-> NoLoop]
      /\ UNCHANGED <<head, chain, rows, summary>> /\ Still
  BY DEF Exit, Still, IInv, TypeOK
<1>2. \A t \in Threads : call'[t] = NoCall /\ call'[t] \in Call /\ ~Active(call'[t])
  BY <1>1, NoCallIsCall
<1>3. \A c \in Crawlers : loop'[c] \in Loop /\ loop'[c].pc = "off"
  BY <1>1, NoLoopIsLoop
<1>4. /\ used' \in [exits: 0..MaxExits, calls: 0..MaxCalls, directions: SUBSET BOOLEAN]
      /\ used'.calls = used.calls /\ used'.directions = used.directions /\ MaxExits # 0
  BY <1>1, BoundsAssumption DEF IInv, TypeOK
<1>5. TypeOK'
  <2>1. call' \in [Threads -> Call] /\ loop' \in [Crawlers -> Loop]
    BY <1>1, NoCallIsCall, NoLoopIsLoop
  <2> QED BY <1>1, <1>4, <2>1 DEF IInv, TypeOK
<1>6. Tables'
  <2>1. \A r \in BOOLEAN : MayCome(r)' => MayCome(r)
    BY <1>4 DEF MayCome
  <2> QED BY <1>1, <2>1, TablesStay
<1>7. Calls' /\ OwnWindows'
  BY <1>2 DEF Calls, OwnWindows, Active, Threads
<1>8. RequestFirst'
  BY <1>1, <1>2, <1>4, NoCallIsCall DEF IInv, InTurn, RequestFirst, Active, Threads
<1>9. Loops'
  <2>1. \A c \in Crawlers : call'[c].stage = "none"
    BY <1>2, NoCallIsCall DEF Threads
  <2> QED BY <1>3, <1>4, <2>1 DEF IInv, InTurn, Loops
<1>10. Ends'
  BY <1>2, NoCallIsCall DEF Ends
<1> QED BY <1>5, <1>6, <1>7, <1>8, <1>9, <1>10 DEF IInv, InTurn

\* A block past every row and every window: what fitted still fits.
LEMMA MineInv ==
  ASSUME IInv, Mine
  PROVE  IInv'
<1>1. /\ head < MaxBlock /\ head' = head + 1
      /\ UNCHANGED <<rows, summary, call, loop, used>>
  BY DEF Mine
<1>2. PICK s \in BlockContents : chain' = chain \cup LogsAt(head + 1, s)
  BY DEF Mine
<1>3. /\ CreateBlock \in Nat \ {0} /\ MaxBlock \in Nat /\ EachUpdateAmount \in Nat \ {0}
      /\ head \in Nat /\ CreateBlock <= head
      /\ \A l \in chain : l.block \in Nat
      /\ \A n \in Names : summary[n].min \in Int /\ summary[n].max \in Int
      /\ overall.min \in Int /\ overall.max \in Int
      /\ \A t \in Threads : call[t].from \in Int /\ call[t].to \in Int
  BY Typed DEF IInv
<1>4. /\ LogsAt(head + 1, s) \subseteq Log
      /\ \A l \in LogsAt(head + 1, s) : l.block = head + 1
  BY <1>3, ActionsAssumption DEF LogsAt, Log
<1> HIDE DEF LogsAt
<1>5. TypeOK'
  <2>1. head' \in CreateBlock..MaxBlock
    BY <1>1, <1>3
  <2>2. chain' \in SUBSET Log
    BY <1>2, <1>4 DEF IInv, TypeOK
  <2> QED BY <1>1, <2>1, <2>2 DEF IInv, TypeOK
<1>6. ASSUME NEW first, NEW last \in Int, last <= head, AllStored(first, last)
      PROVE  AllStored(first, last)'
  <2> SUFFICES ASSUME NEW l \in chain', Kept(l), first <= l.block, l.block <= last
               PROVE  l \in rows
    BY <1>1 DEF AllStored, Kept
  <2>1. l \in chain
    BY <1>2, <1>3, <1>4, <1>6
  <2> QED BY <1>6, <2>1 DEF AllStored
<1>7. \A n \in Names : CreateBlock <= summary[n].min /\ summary[n].max <= head
  BY DEF IInv, Tables, OnChain
<1>8. overall' = overall
  BY <1>1 DEF overall
<1>9. OnChain'
  <2>1. \A l \in chain' : CreateBlock <= l.block /\ l.block <= head + 1
    BY <1>2, <1>3, <1>4 DEF IInv, Tables, OnChain
  <2>2. \A n \in Names : CreateBlock <= summary[n].min /\ summary[n].max <= head + 1
    BY <1>3, <1>7
  <2>3. overall # NoSpan => CreateBlock <= overall.max /\ overall.min <= head + 1
    BY <1>3 DEF IInv, Tables, OnChain
  <2> QED BY <1>1, <1>8, <2>1, <2>2, <2>3 DEF OnChain, NoSpan
<1>10. OverallIsStored'
  <2> SUFFICES ASSUME NEW l \in chain', Kept(l), Within(l.block, overall)
               PROVE  l \in rows
    BY <1>1, <1>8 DEF OverallIsStored, Kept, Within
  <2>1. overall.max <= head
    BY <1>7 DEF overall, Names
  <2>2. l \in chain
    BY <1>2, <1>3, <1>4, <2>1 DEF Within
  <2>3. l.block <= head
    BY <2>2 DEF IInv, Tables, OnChain
  <2> QED BY <2>2, <2>3 DEF IInv, Tables, OverallIsStored
<1>11. Resumable'
  <2> SUFFICES ASSUME overall # NoSpan, NEW r \in BOOLEAN, MayCome(r)
               PROVE  Resumes(r)'
    BY <1>1, <1>8 DEF Resumable, MayCome, Untouched, NoSpan
  <2>1. AllFit(NextFrom(r), NextTo(r))
    BY DEF IInv, Tables, Resumable, Resumes
  <2>2. NextFrom(r)' = NextFrom(r) /\ NextFrom(r) \in Int /\ NextFrom(r) - 1 <= head
    <3>1. overall.max <= head /\ overall.min <= head
      BY <1>7 DEF IInv, Tables, OnChain, overall, Names
    <3> QED BY <1>3, <1>8, <3>1 DEF NextFrom, Greater
  <2>3. NextTo(r)' \in Int /\ NextTo(r) \in Int /\ NextTo(r) <= NextTo(r)'
    BY <1>1, <1>3, <1>8 DEF NextTo, Lesser
  <2>4. ASSUME NEW n \in Names
        PROVE  /\ AllStored(summary[n].min, NextFrom(r) - 1)'
               /\ AllStored(NextTo(r) + 1, summary[n].max)'
    <3> DEFINE f == NextFrom(r)
               g == NextTo(r)
    <3>1. AllStored(summary[n].min, f - 1) /\ AllStored(g + 1, summary[n].max)
      BY <2>1 DEF AllFit, Fits
    <3> HIDE DEF f, g
    <3>2. AllStored(summary[n].min, f - 1)' /\ f' = f
      <4>1. \A l \in chain' : Kept(l) /\ summary[n].min <= l.block /\ l.block <= f - 1 => l \in chain
        BY <1>2, <1>3, <1>4, <2>2 DEF f
      <4> QED BY <1>1, <2>2, <3>1, <4>1 DEF f, AllStored, Kept
    <3>3. \A l \in chain' : Kept(l) /\ NextTo(r)' + 1 <= l.block /\ l.block <= summary[n].max
                              => l \in chain /\ g + 1 <= l.block
      BY <1>2, <1>3, <1>4, <1>7, <2>3 DEF g
    <3>4. AllStored(NextTo(r) + 1, summary[n].max)'
      BY <1>1, <3>1, <3>3 DEF AllStored, Kept
    <3> QED BY <3>2, <3>4 DEF f
  <2> QED BY <2>4 DEF Resumes, AllFit, Fits
<1>12. Calls'
  <2> SUFFICES ASSUME NEW t \in Threads, Active(call[t])
               PROVE  CallOK(call[t])'
    BY <1>1 DEF Calls, Active
  <2>1. CallOK(call[t]) /\ call[t].from \in Int /\ call[t].to \in Int /\ call[t].record \in Span
    BY <1>3 DEF IInv, Calls, TypeOK, Call
  <2>2. call[t].from - 1 <= head /\ call[t].to <= head
    BY <1>3, <2>1 DEF CallOK, WindowOK
  <2>3. WindowOK(call[t])'
    <3>1. ASSUME NEW n \in Names
          PROVE  /\ AllStored(summary[n].min, call[t].from - 1)'
                 /\ AllStored(call[t].to + 1, summary[n].max)'
      <4>1. /\ AllStored(summary[n].min, call[t].from - 1)
            /\ AllStored(call[t].to + 1, summary[n].max)
        BY <2>1 DEF CallOK, WindowOK, AllFit, Fits
      <4>2. \A l \in chain' :
              l.block <= call[t].from - 1 \/ l.block <= summary[n].max => l \in chain
        BY <1>2, <1>3, <1>4, <1>7, <2>1, <2>2
      <4> QED BY <1>1, <4>1, <4>2 DEF AllStored, Kept
    <3>2. call[t].to <= head + 1
      BY <1>3, <2>1, <2>2
    <3> QED BY <1>1, <2>1, <3>1, <3>2 DEF CallOK, WindowOK, AllFit, Fits
  <2>4. BatchOK(call[t])'
    <3>1. \A l \in chain' : l \in chain \/ ~(l.block <= call[t].to)
      BY <1>2, <1>3, <1>4, <2>1, <2>2
    <3>2. chain \subseteq chain'
      BY <1>2
    <3> QED BY <1>1, <2>1, <3>1, <3>2 DEF CallOK, BatchOK, Kept, Current
  <2>5. RecordOK(call[t])'
    <3>1. ASSUME call[t].stage \in {"store", "record", "overall"}
          PROVE  /\ CreateBlock <= call[t].record.min /\ call[t].record.max <= head + 1
                 /\ AllStored(call[t].record.min, call[t].from - 1)'
                 /\ AllStored(call[t].to + 1, call[t].record.max)'
      <4>1. /\ AllStored(call[t].record.min, call[t].from - 1)
            /\ AllStored(call[t].to + 1, call[t].record.max)
            /\ CreateBlock <= call[t].record.min /\ call[t].record.max <= head
        BY <2>1, <3>1 DEF CallOK, RecordOK, Fits
      <4>2. call[t].record.max \in Int
        BY <2>1 DEF Span
      <4>3. \A l \in chain' :
              l.block <= call[t].from - 1 \/ l.block <= call[t].record.max => l \in chain
        BY <1>2, <1>3, <1>4, <2>1, <2>2, <4>1, <4>2
      <4>4. call[t].record.max <= head + 1
        BY <1>3, <4>1, <4>2
      <4> QED BY <1>1, <4>1, <4>3, <4>4 DEF AllStored, Kept
    <3> QED BY <1>1, <2>1, <3>1 DEF CallOK, RecordOK, Fits
  <2> QED BY <2>3, <2>4, <2>5 DEF CallOK
<1>13. OwnWindows'
  <2> SUFFICES ASSUME NEW c \in Crawlers, Active(call[c]), NEW r \in BOOLEAN, r = loop[c].reverse
               PROVE  Upcoming(call[c], r)'
    BY <1>1 DEF OwnWindows, Active, IInv, TypeOK, Loop, Upcoming, NextFrom, NextTo, overall
  <2>1. Upcoming(call[c], r) /\ call[c].to \in Int
    BY <1>3 DEF IInv, OwnWindows, Threads
  <2>2. NextFrom(r)' = NextFrom(r) /\ (r => NextTo(r)' = NextTo(r))
    BY <1>8 DEF NextFrom, NextTo
  <2>3. NextTo(r) <= NextTo(r)' /\ NextTo(r) \in Int /\ NextTo(r)' \in Int
    BY <1>1, <1>3, <1>8 DEF NextTo, Lesser
  <2> QED BY <1>1, <2>1, <2>2, <2>3 DEF Upcoming
<1>14. InTurn'
  BY <1>1, <1>8 DEF IInv, InTurn, RequestFirst, Loops, Ends, Active
<1> QED BY <1>5, <1>9, <1>10, <1>11, <1>12, <1>13, <1>14 DEF IInv, Tables

\* The logs of the next action are stored, or there is no table for them.
LEMMA StoreInv ==
  ASSUME IInv, NEW t \in Threads, Store(t)
  PROVE  IInv'
<1> DEFINE o == call[t]
<1>1. /\ o \in Call /\ o.stage = "store" /\ Active(o) /\ CallOK(o) /\ call \in [Threads -> Call]
      /\ UNCHANGED <<head, chain, summary, loop, used>>
  BY DEF Store, Active, IInv, TypeOK, Calls
<1>2. PICK a \in Actions :
        /\ Current(o, a)
        /\ \/ /\ a \notin NotKept
              /\ rows' = rows \cup LogsOf(o, a)
              /\ call' = [call EXCEPT ![t].stage = "record",
                                      ![t].bn = {l.block : l \in LogsOf(o, a)}]
           \/ /\ a \in NotKept
              /\ call' = [call EXCEPT ![t].stage = IF o.bn = {} THEN "error" ELSE "record"]
              /\ UNCHANGED rows
  BY DEF Store
<1>3. /\ LogsOf(o, a) # {} /\ \A l \in LogsOf(o, a) : l \in o.batch /\ l \in Log /\ l.action = a
      /\ \A l \in o.batch : l.action = a => l \in LogsOf(o, a)
  BY <1>1, <1>2 DEF LogsOf, Current, Call
<1>4. \A l \in o.batch : l \in chain /\ o.from <= l.block /\ l.block <= o.to /\ l.block \in Nat
  BY <1>1, Typed DEF CallOK, BatchOK, IInv
<1>5. PICK d \in Call :
        /\ call' = [call EXCEPT ![t] = d]
        /\ d.from = o.from /\ d.to = o.to /\ d.batch = o.batch /\ d.record = o.record
        /\ \/ d.stage = "record" /\ d.bn # {} /\ d.bn \subseteq o.from..o.to
           \/ d.stage = "error" /\ d.bn = {} /\ o.bn = {}
  <2>1. CASE a \notin NotKept
    <3> DEFINE bn == {l.block : l \in LogsOf(o, a)}
    <3>1. bn # {} /\ bn \subseteq o.from..o.to /\ bn \subseteq Nat
      <4>1. o.from \in Int /\ o.to \in Int
        BY <1>1 DEF Call
      <4> QED BY <1>3, <1>4, <4>1
    <3>2. call' = [call EXCEPT ![t].stage = "record", ![t].bn = bn]
      BY <1>2, <2>1
    <3> HIDE DEF bn
    <3>3. [o EXCEPT !.stage = "record", !.bn = bn] \in Call
      BY <1>1, <3>1 DEF Call
    <3>4. call' = [call EXCEPT ![t] = [o EXCEPT !.stage = "record", !.bn = bn]]
      BY <1>1, <3>2
    <3> WITNESS [o EXCEPT !.stage = "record", !.bn = bn] \in Call
    <3> QED BY <1>1, <3>1, <3>4 DEF Call
  <2>2. CASE a \in NotKept /\ o.bn = {}
    <3>1. call' = [call EXCEPT ![t].stage = "error"]
      BY <1>2, <2>2
    <3>2. [o EXCEPT !.stage = "error"] \in Call
      BY <1>1 DEF Call
    <3>3. call' = [call EXCEPT ![t] = [o EXCEPT !.stage = "error"]]
      BY <1>1, <3>1
    <3> WITNESS [o EXCEPT !.stage = "error"] \in Call
    <3> QED BY <1>1, <2>2, <3>3 DEF Call
  <2>3. CASE a \in NotKept /\ o.bn # {}
    <3>1. call' = [call EXCEPT ![t].stage = "record"]
      BY <1>2, <2>3
    <3>2. [o EXCEPT !.stage = "record"] \in Call
      BY <1>1 DEF Call
    <3>3. call' = [call EXCEPT ![t] = [o EXCEPT !.stage = "record"]]
      BY <1>1, <3>1
    <3>4. o.bn \subseteq o.from..o.to
      BY <1>1 DEF CallOK, RecordOK
    <3> WITNESS [o EXCEPT !.stage = "record"] \in Call
    <3> QED BY <1>1, <2>3, <3>3, <3>4 DEF Call
  <2> QED BY <2>1, <2>2, <2>3
<1>6. Still
  BY <1>1, <1>2, <1>3 DEF Still, IInv, TypeOK
<1>7. \A l \in LogsOf(o, a) : Kept(l) => l \in rows'
  BY <1>2, <1>3 DEF Kept
<1>8. call'[t] = d /\ \A u \in Threads : u # t => call'[u] = call[u]
  BY <1>1, <1>5
<1>9. \A l \in d.batch : Kept(l) /\ Current(d, l.action) => l \in rows'
  <2> SUFFICES ASSUME NEW l \in o.batch, Kept(l), Current(o, l.action)
               PROVE  l \in rows'
    BY <1>5 DEF Current
  <2>1. l.action \in Actions
    BY DEF Kept
  <2>2. PICK m \in o.batch : m.action = a
    BY <1>2 DEF Current
  <2>3. Rank[l.action] <= Rank[a] /\ Rank[a] <= Rank[l.action]
    BY <1>2, <2>2 DEF Current
  <2>4. Rank[l.action] = Rank[a]
    BY <2>1, <2>3, ActionsAssumption
  <2>5. l.action = a
    BY <2>1, <2>4, ActionsAssumption
  <2> QED BY <1>3, <1>7, <2>5
<1>10. Calls'
  <2> SUFFICES ASSUME NEW u \in Threads, Active(call'[u])
               PROVE  CallOK(call[u])'
    BY DEF Calls, Active
  <2>1. CASE u # t
    <3>1. CallOK(call[u]) /\ call'[u] = call[u]
      BY <1>8, <2>1 DEF IInv, Calls
    <3> QED BY <1>6, <3>1
         DEF Still, CallOK, WindowOK, BatchOK, RecordOK, AllFit, Fits, AllStored, Kept, Current
  <2>2. CASE u = t
    <3>1. d.stage = "record"
      BY <1>5, <1>8, <2>2 DEF Active
    <3>2. WindowOK(call[u])'
      BY <1>1, <1>5, <1>6, <1>8, <2>2 DEF Still, CallOK, WindowOK, AllFit, Fits, AllStored, Kept
    <3>3. BatchOK(call[u])'
      <4>1. \A l \in chain :
              Kept(l) /\ o.from <= l.block /\ l.block <= o.to => l \in rows' \cup o.batch
        BY <1>1, <1>6 DEF Still, CallOK, BatchOK
      <4> QED BY <1>4, <1>5, <1>6, <1>8, <1>9, <2>2, <3>1, <4>1 DEF Still, BatchOK, Kept, Current
    <3>4. RecordOK(call[u])'
      BY <1>1, <1>5, <1>6, <1>8, <2>2, <3>1 DEF Still, CallOK, RecordOK, Fits, AllStored, Kept
    <3> QED BY <3>2, <3>3, <3>4 DEF CallOK
  <2> QED BY <2>1, <2>2
<1> HIDE DEF o
<1> QED BY <1>1, <1>5, <1>6, <1>10, GoesOn DEF o

\* One row of the batch is saved, and nothing else changes.
LEMMA StoreRowInv ==
  ASSUME IInv, NEW t \in Threads, StoreRow(t)
  PROVE  IInv'
<1>1. Still /\ UNCHANGED <<call, loop, used>>
  <2>1. call[t].batch \subseteq Log
    BY DEF IInv, TypeOK, Call
  <2> QED BY <2>1 DEF StoreRow, LogsOf, Still, IInv, TypeOK
<1>2. Loops'
  BY <1>1 DEF IInv, InTurn, Loops, Still, overall
<1> QED BY <1>1, <1>2, LoopOnly DEF IInv, TypeOK

-----------------------------------------------------------------------------
(* Steps that save a row of the summary.                                   *)

\* Requests and crawlers take turns.
LEMMA OneActive ==
  ASSUME IInv, OneOperator, NEW t \in Threads, NEW u \in Threads, Active(call[t]), Active(call[u])
  PROVE  t = u
<1>1. ASSUME NEW c \in Callers, NEW d \in Crawlers, Active(call[c])
      PROVE  ~Active(call[d])
  BY <1>1, NoCrawler DEF IInv, InTurn, RequestFirst
<1>2. ASSUME NEW c \in Callers, NEW d \in Callers, Active(call[c]), Active(call[d])
      PROVE  c = d
  BY <1>2 DEF IInv, InTurn, RequestFirst, Active
<1> QED BY <1>1, <1>2 DEF Threads, OneOperator

\* Whoever works was let in: by the request, or by the range it seeded.
LEMMA ActiveIsLate ==
  ASSUME IInv, NEW t \in Threads, Active(call[t])
  PROVE  /\ used.calls # 0
         /\ t \in Callers => overall = NoSpan
         /\ t \in Crawlers => /\ overall # NoSpan /\ loop[t].pc = "call"
                              /\ loop[t].reverse \in used.directions
<1>1. used.calls = 0 => overall = NoSpan
  BY DEF IInv, InTurn, RequestFirst, overall, Names
<1>2. t \in Callers => used.calls = 1 /\ overall = NoSpan
  BY DEF IInv, InTurn, RequestFirst, Active
<1>3. t \in Crawlers => /\ overall # NoSpan /\ loop[t].pc = "call"
                        /\ loop[t].reverse \in used.directions
  BY DEF IInv, InTurn, Loops, Active
<1> QED BY <1>1, <1>2, <1>3 DEF Threads

\* The action's row now covers its blocks: all of them are in the window.
LEMMA SaveRecordInv ==
  ASSUME IInv, OneOperator, NEW t \in Threads, SaveRecord(t)
  PROVE  IInv'
<1> DEFINE o == call[t]
<1>1. /\ o \in Call /\ o.stage = "record" /\ Active(o) /\ CallOK(o) /\ call \in [Threads -> Call]
      /\ UNCHANGED <<head, chain, rows, loop, used>>
  BY DEF SaveRecord, Active, IInv, TypeOK, Calls
<1> DEFINE record == Extended(o.record, o.bn)
<1>2. PICK a \in Actions :
        /\ Current(o, a)
        /\ summary' = [summary EXCEPT ![a] = record]
        /\ call' = [call EXCEPT ![t].batch = o.batch \ LogsOf(o, a), ![t].record = record,
              ![t].stage = IF o.batch \ LogsOf(o, a) = {} THEN "overall" ELSE "read"]
  BY DEF SaveRecord
<1> DEFINE rest == o.batch \ LogsOf(o, a)
           st == IF rest = {} THEN "overall" ELSE "read"
           d == [o EXCEPT !.batch = rest, !.record = record, !.stage = st]
<1>3. /\ o.from \in Int /\ o.to \in Int /\ o.record \in Span /\ o.bn \in SUBSET (o.from..o.to)
      /\ o.bn # {} /\ CreateBlock \in Nat /\ head \in Nat
  BY <1>1, Typed DEF CallOK, RecordOK, Call, IInv
<1>4. /\ record \in Span /\ record.min \in o.bn \cup {o.record.min}
      /\ record.max \in o.bn \cup {o.record.max}
  BY <1>3, ExtendedSpan
<1> HIDE DEF record
<1>5. /\ CreateBlock <= record.min /\ record.max <= head
      /\ record.min \in Int /\ record.max \in Int
  BY <1>1, <1>3, <1>4 DEF CallOK, WindowOK, RecordOK, Span
<1>6. Fits(record, o.from, o.to)
  <2>1. AllStored(o.record.min, o.from - 1) /\ AllStored(o.to + 1, o.record.max)
    BY <1>1 DEF CallOK, RecordOK, Fits
  <2>2. \A l \in chain : l.block \in Nat
    BY Typed DEF IInv
  <2>3. AllStored(record.min, o.from - 1)
    BY <1>3, <1>4, <2>1, <2>2 DEF AllStored
  <2>4. AllStored(o.to + 1, record.max)
    BY <1>3, <1>4, <2>1, <2>2 DEF AllStored
  <2> QED BY <2>3, <2>4 DEF Fits
<1>7. /\ rest \subseteq o.batch /\ st \in {"overall", "read"} /\ (st = "overall" => rest = {})
      /\ \A l \in o.batch : l.action = a \/ l \in rest
  BY DEF LogsOf
<1> HIDE DEF rest, st
<1>8. call' = [call EXCEPT ![t] = d]
  BY <1>1, <1>2 DEF rest, st
<1>9. /\ d \in Call /\ d.from = o.from /\ d.to = o.to /\ d.bn = o.bn /\ d.batch = rest
      /\ d.record = record /\ d.stage = st
  BY <1>1, <1>4, <1>7 DEF Call
<1> HIDE DEF d
<1>10. /\ call' \in [Threads -> Call] /\ call'[t] = d
       /\ \A u \in Threads : u # t => call'[u] = call[u]
  BY <1>1, <1>8, <1>9
<1>11. /\ a \in Names /\ a # "overall" /\ "overall" \in Names /\ summary \in [Names -> Span]
  BY ActionsAssumption DEF Names, IInv, TypeOK
<1>12. /\ summary' \in [Names -> Span] /\ summary'[a] = record /\ overall' = overall
       /\ \A n \in Names : n # a => summary'[n] = summary[n]
  BY <1>2, <1>4, <1>11 DEF overall
<1>13. TypeOK'
  BY <1>1, <1>10, <1>12 DEF IInv, TypeOK
<1>14. OnChain'
  BY <1>1, <1>5, <1>12 DEF IInv, Tables, OnChain, NoSpan
<1>15. OverallIsStored'
  BY <1>1, <1>12 DEF IInv, Tables, OverallIsStored, Kept, Within
<1>16. Resumable'
  <2> SUFFICES ASSUME overall # NoSpan, NEW r \in BOOLEAN, MayCome(r)'
               PROVE  Resumes(r)'
    BY <1>12 DEF Resumable, NoSpan
  <2>1. t \in Crawlers /\ loop[t].reverse \in used.directions
    BY <1>1, ActiveIsLate DEF Threads
  <2>2. ~Untouched'
    BY <1>3, <1>7, <1>9, <1>10, <2>1 DEF Untouched
  <2>3. used.directions \subseteq {r}
    BY <1>1, <2>2 DEF MayCome
  <2>4. loop[t].reverse = r /\ MayCome(r)
    BY <2>1, <2>3 DEF MayCome
  <2>5. o.from = NextFrom(r) /\ o.to <= NextTo(r)
    BY <1>1, <2>1, <2>4 DEF IInv, OwnWindows, Upcoming
  <2>6. AllFit(NextFrom(r), NextTo(r))
    BY <2>4 DEF IInv, Tables, Resumable, Resumes
  <2>7. NextTo(r) \in Int /\ EachUpdateAmount \in Nat
    BY Typed DEF IInv, NextTo, Lesser
  <2>8. AllStored(record.min, NextFrom(r) - 1) /\ AllStored(NextTo(r) + 1, record.max)
    <3>1. AllStored(o.to + 1, record.max) /\ AllStored(record.min, o.from - 1)
      BY <1>6 DEF Fits
    <3>2. \A l \in chain : l.block \in Nat
      BY Typed DEF IInv
    <3>3. \A b \in Nat : NextTo(r) + 1 <= b => o.to + 1 <= b
      BY <1>3, <2>5, <2>7
    <3> QED BY <2>5, <3>1, <3>2, <3>3 DEF AllStored
  <2>9. NextFrom(r)' = NextFrom(r) /\ NextTo(r)' = NextTo(r)
    BY <1>1, <1>12 DEF NextFrom, NextTo
  <2>10. \A n \in Names : /\ AllStored(summary'[n].min, NextFrom(r) - 1)
                          /\ AllStored(NextTo(r) + 1, summary'[n].max)
    BY <1>12, <2>6, <2>8 DEF AllFit, Fits
  <2> QED BY <1>1, <2>9, <2>10 DEF Resumes, AllFit, Fits, AllStored, Kept
<1>17. Calls'
  <2> SUFFICES ASSUME NEW u \in Threads, Active(call'[u])
               PROVE  CallOK(call[u])'
    BY DEF Calls, Active
  <2>1. u = t
    BY <1>1, <1>10, OneActive
  <2>2. WindowOK(call[u])'
    <3>1. AllFit(o.from, o.to) /\ CreateBlock <= o.from /\ o.from <= o.to /\ o.to <= head
      BY <1>1 DEF CallOK, WindowOK
    <3>2. \A n \in Names : /\ AllStored(summary'[n].min, o.from - 1)
                           /\ AllStored(o.to + 1, summary'[n].max)
      BY <1>6, <1>12, <3>1 DEF AllFit, Fits
    <3> QED BY <1>1, <1>9, <1>10, <2>1, <3>1, <3>2 DEF WindowOK, AllFit, Fits, AllStored, Kept
  <2>3. BatchOK(call[u])'
    <3>1. /\ \A l \in o.batch : l \in chain /\ o.from <= l.block /\ l.block <= o.to
          /\ \A l \in chain :
               Kept(l) /\ o.from <= l.block /\ l.block <= o.to => l \in rows \cup o.batch
          /\ \A l \in o.batch : Kept(l) /\ Current(o, l.action) => l \in rows
      BY <1>1 DEF CallOK, BatchOK
    <3>2. \A l \in chain : Kept(l) /\ o.from <= l.block /\ l.block <= o.to => l \in rows \cup rest
      BY <1>2, <1>7, <3>1
    <3> QED BY <1>1, <1>7, <1>9, <1>10, <2>1, <3>1, <3>2 DEF BatchOK, Kept
  <2>4. RecordOK(call[u])'
    <3>1. AllStored(record.min, o.from - 1) /\ AllStored(o.to + 1, record.max)
      BY <1>6 DEF Fits
    <3> QED BY <1>1, <1>3, <1>5, <1>7, <1>9, <1>10, <2>1, <3>1
         DEF RecordOK, Fits, AllStored, Kept
  <2> QED BY <2>2, <2>3, <2>4 DEF CallOK
<1>18. OwnWindows'
  <2> SUFFICES ASSUME NEW c \in Crawlers, Active(call'[c])
               PROVE  Upcoming(call[c], loop[c].reverse)'
    BY DEF OwnWindows, Active
  <2>1. Active(call[c]) /\ call'[c].from = call[c].from /\ call'[c].to = call[c].to
    BY <1>1, <1>9, <1>10 DEF Threads
  <2>2. Upcoming(call[c], loop[c].reverse)
    BY <2>1 DEF IInv, OwnWindows
  <2> QED BY <1>1, <1>12, <2>1, <2>2 DEF Upcoming, NextFrom, NextTo
<1>19. RequestFirst'
  <2>1. used.calls # 0
    BY <1>1, ActiveIsLate
  <2>2. \A u \in Threads : /\ call'[u].stage # "none" => call[u].stage # "none"
                           /\ Active(call'[u]) => Active(call[u])
    BY <1>1, <1>10 DEF Active
  <2>3. \A c \in Callers : c \in Threads
    BY DEF Threads
  <2>4. RequestFirst
    BY DEF IInv, InTurn
  <2>5. \A c \in Callers : Active(call'[c]) => overall' = NoSpan
    <3>1. \A c \in Callers : Active(call[c]) => overall = NoSpan
      BY <2>4 DEF RequestFirst
    <3> QED BY <1>12, <2>2, <2>3, <3>1
  <2>6. \A c \in Callers : call'[c].stage # "none" => used'.calls = 1
    BY <1>1, <2>2, <2>3, <2>4 DEF RequestFirst
  <2>7. \A c, e \in Callers : call'[c].stage # "none" /\ call'[e].stage # "none" => c = e
    BY <1>1, <2>2, <2>3, <2>4 DEF RequestFirst
  <2> QED BY <1>1, <2>1, <2>5, <2>6, <2>7 DEF RequestFirst, Active, NoSpan
<1>20. Loops'
  <2>1. \A u \in Threads : call'[u].stage # "none" => call[u].stage # "none"
    BY <1>1, <1>10 DEF Active
  <2> QED BY <1>1, <1>12, <2>1 DEF IInv, InTurn, Loops, Threads, NoSpan
<1>21. Ends'
  BY <1>7, <1>9, <1>10 DEF IInv, InTurn, Ends
<1> QED BY <1>13, <1>14, <1>15, <1>16, <1>17, <1>18, <1>19, <1>20, <1>21 DEF IInv, Tables, InTurn

\* The overall row is saved over a window that is stored, with a row that fits
\* it: it claims nothing else, and the crawl can go on from either end.
LEMMA AfterSave ==
  ASSUME IInv, NEW from \in Int, NEW to \in Int, from <= to, AllFit(from, to), AllStored(from, to),
         NEW low \in Int, NEW high \in Int, low <= from, to <= high, CreateBlock <= low, high <= head,
         AllStored(low, from - 1), AllStored(to + 1, high),
         NEW s, s.min = low, s.max = high, NEW n \in Names,
         NEW q, q = s \/ q = summary[n], NEW size \in Nat
  PROVE  /\ AllStored(low, high)
         /\ AllStored(q.min, high) /\ AllStored(Lesser(head, high + size) + 1, q.max)
         /\ AllStored(q.min, Greater(CreateBlock, low - size) - 1) /\ AllStored(low, q.max)
<1>1. /\ \A l \in chain : l.block \in Nat /\ l.block <= head /\ CreateBlock <= l.block
      /\ CreateBlock \in Nat /\ head \in Nat
  BY Typed DEF IInv, Tables, OnChain
<1>2. AllStored(low, high)
  BY <1>1 DEF AllStored
<1>3. q.min \in Int /\ q.max \in Int
  BY Typed DEF IInv
<1>4. AllStored(q.min, from - 1) /\ AllStored(to + 1, q.max)
  BY DEF AllFit, Fits
<1>5. AllStored(q.min, high) /\ AllStored(low, q.max)
  BY <1>1, <1>2, <1>3, <1>4 DEF AllStored
<1>6. AllStored(Lesser(head, high + size) + 1, q.max)
  <2>1. \A b \in Nat : b <= head /\ Lesser(head, high + size) + 1 <= b => low <= b
    BY <1>1 DEF Lesser
  <2> QED BY <1>1, <1>5, <2>1 DEF AllStored
<1>7. AllStored(q.min, Greater(CreateBlock, low - size) - 1)
  <2>1. \A b \in Nat : CreateBlock <= b /\ b <= Greater(CreateBlock, low - size) - 1 => b <= high
    BY <1>1 DEF Greater
  <2> QED BY <1>1, <1>5, <2>1 DEF AllStored
<1> QED BY <1>2, <1>5, <1>6, <1>7

\* The overall row is computed from the window and the last action's row.
LEMMA SaveOverallInv ==
  ASSUME IInv, OneOperator, NEW t \in Threads, SaveOverall(t)
  PROVE  IInv'
<1> DEFINE o == call[t]
           low == Lesser(o.from, o.record.min)
           high == Greater(o.to, o.record.max)
           s == [min |-> low, max |-> high]
           d == [o EXCEPT !.stage = "done"]
<1>1. /\ o \in Call /\ o.stage = "overall" /\ Active(o) /\ CallOK(o) /\ call \in [Threads -> Call]
      /\ UNCHANGED <<head, chain, rows, loop, used>>
      /\ summary' = [summary EXCEPT !["overall"] = s] /\ call' = [call EXCEPT ![t] = d]
  BY DEF SaveOverall, Active, IInv, TypeOK, Calls
<1>2. d \in Call /\ d.stage = "done" /\ ~Active(d)
  BY <1>1 DEF Call, Active
<1>3. /\ o.from \in Int /\ o.to \in Int /\ o.record.min \in Int /\ o.record.max \in Int
      /\ CreateBlock \in Nat \ {0} /\ head \in Nat /\ EachUpdateAmount \in Nat
  BY <1>1, Typed DEF Call, Span, IInv
<1>4. /\ CreateBlock <= o.from /\ o.from <= o.to /\ o.to <= head /\ AllFit(o.from, o.to)
      /\ CreateBlock <= o.record.min /\ o.record.max <= head
      /\ AllStored(o.record.min, o.from - 1) /\ AllStored(o.to + 1, o.record.max)
  BY <1>1 DEF CallOK, WindowOK, RecordOK, Fits
<1>5. AllStored(o.from, o.to)
  BY <1>1 DEF CallOK, BatchOK, AllStored
<1>6. \A l \in chain : l.block \in Nat /\ l.block <= head
  BY Typed DEF IInv, Tables, OnChain
<1>7. /\ low \in Int /\ high \in Int /\ low <= o.from /\ o.to <= high
      /\ CreateBlock <= low /\ high <= head /\ CreateBlock <= high /\ low <= head
  BY <1>3, <1>4 DEF Lesser, Greater
<1>8. AllStored(low, o.from - 1) /\ AllStored(o.to + 1, high)
  <2>1. low = o.from \/ low = o.record.min
    BY DEF Lesser
  <2>2. high = o.to \/ high = o.record.max
    BY DEF Greater
  <2> QED BY <1>3, <1>4, <1>6, <2>1, <2>2 DEF AllStored
<1>9. s \in Span /\ s.min = low /\ s.max = high
  BY <1>7 DEF Span
<1> HIDE DEF low, high, s, d
<1>10. /\ call' \in [Threads -> Call] /\ call'[t] = d
       /\ \A u \in Threads : u # t => call'[u] = call[u]
  BY <1>1, <1>2
<1>11. "overall" \in Names /\ summary \in [Names -> Span]
  BY DEF Names, IInv, TypeOK
<1>12. /\ summary' \in [Names -> Span] /\ overall' = s
       /\ \A n \in Names : summary'[n] = s \/ summary'[n] = summary[n]
  BY <1>1, <1>9, <1>11 DEF overall
<1>13. \A u \in Threads : ~Active(call'[u])
  BY <1>1, <1>2, <1>10, OneActive
<1>14. s # NoSpan
  BY <1>3, <1>7, <1>9 DEF NoSpan
<1>15. \A n \in Names :
         /\ AllStored(summary'[n].min, high)
         /\ AllStored(Lesser(head, high + EachUpdateAmount) + 1, summary'[n].max)
         /\ AllStored(summary'[n].min, Greater(CreateBlock, low - EachUpdateAmount) - 1)
         /\ AllStored(low, summary'[n].max)
  <2> SUFFICES ASSUME NEW n \in Names, NEW q, q = summary'[n]
               PROVE  /\ AllStored(q.min, high)
                      /\ AllStored(Lesser(head, high + EachUpdateAmount) + 1, q.max)
                      /\ AllStored(q.min, Greater(CreateBlock, low - EachUpdateAmount) - 1)
                      /\ AllStored(low, q.max)
    OBVIOUS
  <2>1. q = s \/ q = summary[n]
    BY <1>12
  <2>2. /\ o.from \in Int /\ o.to \in Int /\ o.from <= o.to /\ AllFit(o.from, o.to)
        /\ EachUpdateAmount \in Nat
    BY <1>3, <1>4
  <2> QED BY <1>5, <1>7, <1>8, <1>9, <2>1, <2>2, AfterSave
<1>16. TypeOK'
  BY <1>1, <1>10, <1>12 DEF IInv, TypeOK
<1>17. OnChain'
  BY <1>1, <1>7, <1>9, <1>12 DEF IInv, Tables, OnChain
<1>18. OverallIsStored'
  <2>1. AllStored(low, high)
    BY <1>9, <1>11, <1>12, <1>15 DEF overall
  <2> QED BY <1>1, <1>9, <1>12, <2>1 DEF OverallIsStored, Within, AllStored, Kept
<1>19. Resumable'
  <2> SUFFICES ASSUME NEW r \in BOOLEAN
               PROVE  Resumes(r)'
    BY DEF Resumable
  <2>1. /\ NextFrom(r)' = IF r THEN Greater(CreateBlock, low - EachUpdateAmount) ELSE high + 1
        /\ NextTo(r)' = IF r THEN low - 1 ELSE Lesser(head, high + EachUpdateAmount)
    BY <1>1, <1>9, <1>12 DEF NextFrom, NextTo
  <2>2. /\ NextFrom(r)' - 1 = IF r THEN Greater(CreateBlock, low - EachUpdateAmount) - 1 ELSE high
        /\ NextTo(r)' + 1 = IF r THEN low ELSE Lesser(head, high + EachUpdateAmount) + 1
    BY <1>7, <2>1
  <2>3. ASSUME NEW n \in Names
        PROVE  AllStored(summary[n].min, NextFrom(r) - 1)' /\ AllStored(NextTo(r) + 1, summary[n].max)'
    <3>1. CASE r
      BY <1>1, <1>15, <2>2, <3>1 DEF AllStored, Kept
    <3>2. CASE ~r
      BY <1>1, <1>15, <2>2, <3>2 DEF AllStored, Kept
    <3> QED BY <3>1, <3>2
  <2> QED BY <2>3 DEF Resumes, AllFit, Fits
<1>20. Calls' /\ OwnWindows'
  BY <1>13 DEF Calls, OwnWindows, Active, Threads
<1>21. used.calls # 0
  BY <1>1, ActiveIsLate
<1>22. \A u \in Threads : /\ call'[u].stage # "none" => call[u].stage # "none"
                          /\ call'[u].stage \in {"none", "error"} => call'[u] = call[u]
  BY <1>1, <1>2, <1>10
<1>23. RequestFirst'
  BY <1>1, <1>13, <1>21, <1>22 DEF IInv, InTurn, RequestFirst, Threads, Active
<1>24. Loops'
  <2>1. ASSUME NEW c \in Crawlers, loop[c].pc = "window"
        PROVE  FALSE
    <3>1. overall # NoSpan /\ call[c].stage = "none"
      BY <2>1 DEF IInv, InTurn, Loops
    <3>2. t \in Crawlers /\ t = c
      BY <1>1, <3>1, ActiveIsLate DEF Threads, OneOperator
    <3> QED BY <1>1, <3>1, <3>2
  <2> QED BY <1>1, <1>12, <1>14, <1>22, <2>1 DEF IInv, InTurn, Loops, Threads, NoSpan
<1>25. Ends'
  BY <1>22 DEF IInv, InTurn, Ends
<1> QED BY <1>16, <1>17, <1>18, <1>19, <1>20, <1>23, <1>24, <1>25 DEF IInv, Tables, InTurn

-----------------------------------------------------------------------------
(* The theorems.                                                           *)

\* The server starts with empty tables and nobody at work.
LEMMA InvInit == Init => IInv
<1> SUFFICES ASSUME Init
             PROVE  IInv
  OBVIOUS
<1>1. /\ head = InitialHead /\ rows = {} /\ summary = [n \in Names |-> NoSpan]
      /\ call = [t \in Threads |-> NoCall] /\ loop = [c \in Crawlers |-> NoLoop]
      /\ used = [exits |-> 0, calls |-> 0, directions |-> {}]
  BY DEF Init
<1>2. PICK c \in [CreateBlock..InitialHead -> BlockContents] :
        chain = UNION {LogsAt(b, c[b]) : b \in CreateBlock..InitialHead}
  BY DEF Init
<1>3. \A l \in chain : l \in Log /\ CreateBlock <= l.block /\ l.block <= InitialHead
  <2> SUFFICES ASSUME NEW b \in CreateBlock..InitialHead, NEW l \in LogsAt(b, c[b])
               PROVE  l \in Log /\ CreateBlock <= l.block /\ l.block <= InitialHead
    BY <1>2
  <2>1. b \in Nat /\ c[b] \subseteq Actions \cup Unknown
    BY BlocksAssumption, ActionsAssumption
  <2> QED BY <2>1 DEF LogsAt, Log
<1>4. NoSpan \in Span /\ NoSpan.max = -1 /\ NoSpan.min = MaxInt /\ "overall" \in Names
  BY BlocksAssumption DEF NoSpan, Span, Names
<1>5. \A n \in Names : summary[n] = NoSpan
  BY <1>1
<1>6. overall = NoSpan
  BY <1>4, <1>5 DEF overall
<1>7. TypeOK
  <2>1. head \in CreateBlock..MaxBlock /\ chain \in SUBSET Log /\ rows \in SUBSET Log
    BY <1>1, <1>3, BlocksAssumption
  <2>2. summary \in [Names -> Span] /\ call \in [Threads -> Call] /\ loop \in [Crawlers -> Loop]
    BY <1>1, <1>4, NoCallIsCall, NoLoopIsLoop
  <2>3. used \in [exits: 0..MaxExits, calls: 0..MaxCalls, directions: SUBSET BOOLEAN]
    BY <1>1, BoundsAssumption
  <2> QED BY <2>1, <2>2, <2>3 DEF TypeOK
<1>8. Tables
  <2>1. OnChain
    BY <1>1, <1>3, <1>4, <1>5, <1>6, BlocksAssumption DEF OnChain
  <2>2. OverallIsStored
    BY <1>3, <1>4, <1>6, BlocksAssumption DEF OverallIsStored, Within, Log
  <2> QED BY <1>6, <2>1, <2>2 DEF Tables, Resumable
<1>9. \A t \in Threads : call[t] = NoCall
  BY <1>1
<1>10. Calls /\ OwnWindows /\ Ends
  BY <1>9, NoCallIsCall DEF Calls, OwnWindows, Ends, Threads
<1>11. RequestFirst
  BY <1>5, <1>9, NoCallIsCall DEF RequestFirst, Threads
<1>12. Loops
  BY <1>1, <1>9, NoCallIsCall, NoLoopIsLoop DEF Loops, Threads
<1> QED BY <1>7, <1>8, <1>10, <1>11, <1>12 DEF IInv, InTurn

\* Every step keeps the invariant.
LEMMA InvStep ==
  ASSUME IInv, OneOperator, [Next]_vars
  PROVE  IInv'
<1>1. CASE Mine
  BY <1>1, MineInv
<1>2. CASE Exit
  BY <1>2, ExitInv
<1>3. ASSUME NEW t \in Threads, UpdateData(t)
      PROVE  IInv'
  BY <1>3, FetchInv, ReadRecordInv, StoreRowInv, StoreInv, SaveRecordInv, SaveOverallInv
     DEF UpdateData
<1>4. ASSUME NEW c \in Callers, NEW from \in CreateBlock..MaxBlock,
             NEW to \in CreateBlock..MaxBlock, Submit(c, from, to)
      PROVE  IInv'
  BY <1>4, SubmitInv
<1>5. ASSUME NEW c \in Callers, Respond(c)
      PROVE  IInv'
  BY <1>5, RespondInv
<1>6. ASSUME NEW c \in Crawlers, AutoUpdate(c)
      PROVE  IInv'
  BY <1>6, ReadOverallInv, EnterWindowInv, ReturnInv DEF AutoUpdate
<1>7. ASSUME NEW c \in Crawlers, StopCrawler(c)
      PROVE  IInv'
  BY <1>7, StopCrawlerInv
<1>8. ASSUME NEW c \in Crawlers, NEW r \in BOOLEAN, StartCrawler(c, r)
      PROVE  IInv'
  BY <1>8, StartCrawlerInv
<1>9. CASE UNCHANGED vars
  <2>1. Still /\ UNCHANGED <<rows, call, loop, used>>
    BY <1>9 DEF vars, Still, IInv, TypeOK
  <2>2. Loops'
    BY <2>1 DEF IInv, InTurn, Loops, Still, overall
  <2> QED BY <2>1, <2>2, LoopOnly DEF IInv, TypeOK
<1> QED BY <1>1, <1>2, <1>3, <1>4, <1>5, <1>6, <1>7, <1>8, <1>9 DEF Next

\* The invariant holds throughout.
LEMMA Invariant ==
  ASSUME OneOperator
  PROVE  Spec => []IInv
<1>1. IInv /\ [Next]_vars => IInv'
  BY InvStep
<1> QED BY InvInit, <1>1, PTL DEF Spec

\* The state of the AAVE crawl keeps its types: in particular, bounds that are
\* computed from the blocks of an action are those of blocks there are.
THEOREM LendingPoolTypes ==
  ASSUME OneOperator
  PROVE  Spec => []TypeOK
<1>1. IInv => TypeOK
  BY DEF IInv
<1> QED BY Invariant, <1>1, PTL

\* Every log in the range the row "overall" claims, and a table takes, is
\* stored: update_data saves that row from the last action's row, whatever the
\* process left of the others when it last ended, and it is still true.
THEOREM OverallNeverOverstates ==
  ASSUME OneOperator
  PROVE  Spec => []OverallIsStored
<1>1. IInv => OverallIsStored
  BY DEF IInv, Tables
<1> QED BY Invariant, <1>1, PTL

=============================================================================
