------------------------------- MODULE Latency -------------------------------
(***************************************************************************)
(* latency_data_gen (datavisualization/views.py 177-435): for a source and *)
(* a target pair, the latency of every window of the grid GlobalFrom,      *)
(* GlobalFrom + Frequency, ... is trained from the block prices in the     *)
(* window, stored, and never trained again once the recorded range is past *)
(* it. Page requests, latency_data_auto_gen and latency_auto_update call   *)
(* it at the same time.                                                    *)
(*                                                                         *)
(* The source has a price in every block; the target only where its feed   *)
(* reported, and the price before a window fills its first blocks. A       *)
(* latency is represented by the row that does so, its seed. Training is   *)
(* random (noise on constant columns, a failing irf): it gives a latency   *)
(* or none. Pairs share nothing but the range: there is one.               *)
(***************************************************************************)
EXTENDS Integers, FiniteSetsExt

CONSTANTS
  Needed,      \* the pairs of latency_targets, whose prices limit the range
  Feeds,       \* sets of blocks in which the target's feed may have reported
  Updaters, AutoUpdaters,  \* callers; those among them that loop
  Ends,        \* block_to of the other requests, -1 for none (block_from is -1)
  GlobalFrom,  \* global_block_from, where the grid begins
  PricedFrom,  \* min_block_number of the needed BlockPriceUpdateRecord rows
  Frequency,
  MaxBlock,    \* bound: last block that gets prices
  MaxInt,      \* 2147483647, the default of min_block_number
  MaxExits     \* bound: process exits

ASSUME LatencyAssumption ==
  /\ AutoUpdaters \subseteq Updaters /\ Needed # {}
  /\ GlobalFrom \in Nat \ {0} /\ PricedFrom \in Nat /\ GlobalFrom <= PricedFrom
  /\ MaxBlock \in Nat /\ PricedFrom <= MaxBlock
  /\ Frequency \in Nat \ {0} /\ MaxInt \in Nat /\ MaxInt > MaxBlock + Frequency
  /\ Ends \subseteq {-1} \cup 1..MaxInt /\ MaxExits \in Nat

Grid == {b \in GlobalFrom..MaxBlock : (b - GlobalFrom) % Frequency = 0}
Window(q) == q..(q + Frequency - 1)

\* A feed reports at least once in every window (Chainlink's and Maker's
\* heartbeats are hours, a window is a day).
ASSUME FeedsAssumption ==
  \A f \in Feeds :
    /\ f \subseteq PricedFrom..MaxBlock
    /\ \A q \in Grid : Window(q) \subseteq PricedFrom..MaxBlock => Window(q) \cap f # {}

VARIABLES
  feed,    \* the blocks in which the target's feed reported
  final,   \* [Needed -> block up to which BlockPrice has all its rows]
  priced,  \* [Needed -> ...] max_block_number of BlockPriceUpdateRecord
  record,  \* the row of LatencyUpdateRecord
  stored,  \* LatencyRecord
  call,    \* [Updaters -> Call]
  tried,   \* windows whose result is settled: stored, or none
  exits    \* process exits so far

vars == <<feed, final, priced, record, stored, call, tried, exits>>

Recorded == [min: 1..MaxInt, max: {-1} \cup 1..MaxInt]
Row == [at: Grid, seed: 0..MaxBlock]   \* seed 0: nothing before the window

\* todo: needed pairs not looked at yet. old: the record as it was read.
\* points: the windows trained. new: those that have a latency.
Call == [stage: {"off", "sleep", "range", "record", "create", "each", "save"},
         to: {-1} \cup 1..MaxInt, todo: SUBSET Needed, old: Recorded,
         points: SUBSET Grid, new: SUBSET Row]
NoRange == [min |-> MaxInt, max |-> -1]
Off == [stage |-> "off", to |-> -1, todo |-> {}, old |-> NoRange, points |-> {}, new |-> {}]

TypeOK ==
  /\ feed \subseteq PricedFrom..MaxBlock
  /\ final \in [Needed -> PricedFrom..MaxBlock]
  /\ priced \in [Needed -> Nat] /\ \A n \in Needed : priced[n] \in PricedFrom..final[n]
  /\ record \in Recorded /\ (record # NoRange => record.min <= record.max)
  /\ stored \subseteq Row /\ \A r, s \in stored : r.at = s.at => r = s
  /\ call \in [Updaters -> Call]
  /\ tried \subseteq Grid
  /\ exits \in 0..MaxExits

Init ==
  /\ feed \in Feeds
  /\ final = [n \in Needed |-> PricedFrom] /\ priced = final
  /\ record = NoRange /\ stored = {} /\ tried = {}
  /\ call = [u \in Updaters |-> Off]
  /\ exits = 0

\* block_granularity_update (see Granularity): the rows, without a gap and in
\* order, and then the record of them. A slower call takes it back, to any
\* block that was its end before.
MorePrices(n) ==
  /\ final[n] < MaxBlock
  /\ final' = [final EXCEPT ![n] = @ + 1]
  /\ UNCHANGED <<feed, priced, record, stored, call, tried, exits>>

RecordPrices(n) ==
  /\ \E b \in PricedFrom..final[n] : priced' = [priced EXCEPT ![n] = b]
  /\ UNCHANGED <<feed, final, record, stored, call, tried, exits>>

Goes(u, c) == call' = [call EXCEPT ![u] = c]

\* latency_auto_update is started by a click, without parameters. It sleeps and
\* calls until do_run is FALSE, the call raises or the process ends;
\* latency_data_auto_gen is such a loop that nobody can stop.
StartLoop(u) ==
  /\ u \in AutoUpdaters /\ call[u].stage = "off"
  /\ Goes(u, [Off EXCEPT !.stage = "sleep"])
  /\ UNCHANGED <<feed, final, priced, record, stored, tried, exits>>

StopLoop(u) ==
  /\ call[u].stage = "sleep"
  /\ Goes(u, Off)
  /\ UNCHANGED <<feed, final, priced, record, stored, tried, exits>>

EndsOf(u) == IF u \in AutoUpdaters THEN {-1} ELSE Ends
Idle(u) == IF u \in AutoUpdaters THEN [Off EXCEPT !.stage = "sleep"] ELSE Off

Begin(u, end) ==
  /\ call[u] = Idle(u)
  /\ Goes(u, [Off EXCEPT !.stage = "range", !.to = end, !.todo = Needed])
  /\ UNCHANGED <<feed, final, priced, record, stored, tried, exits>>

\* A slip of the next definition: the end of the last pair looked at.
LimitByTheLast(u, n) ==
  LET c == call[u]
  IN /\ c.stage = "range" /\ n \in c.todo
     /\ Goes(u, [c EXCEPT !.todo = @ \ {n}, !.to = priced[n],
                          !.stage = IF c.todo = {n} THEN "record" ELSE "range"])
     /\ UNCHANGED <<feed, final, priced, record, stored, tried, exits>>

\* One needed pair: block_to is at most the end of its prices.
Limit(u, n) ==
  LET c == call[u]
  IN /\ c.stage = "range" /\ n \in c.todo
     /\ Goes(u, [c EXCEPT !.todo = @ \ {n},
                          !.to = IF @ = -1 \/ @ > priced[n] THEN priced[n] ELSE @,
                          !.stage = IF c.todo = {n} THEN "record" ELSE "range"])
     /\ UNCHANGED <<feed, final, priced, record, stored, tried, exits>>

-----------------------------------------------------------------------------
(* One pair: read the record and the prices, train, store, record.         *)

\* A slip of the next definition: the prices of the last window are left out.
VisibleAfterTheLast(b, old) == b >= old.max + Frequency \/ b <= old.min
\* Prices are read from the recorded end on, or up to the recorded beginning.
Visible(b, old) == b >= old.max \/ b <= old.min

Seed(q, to, old) ==
  LET before == {b \in feed : b <= q /\ b <= to /\ Visible(b, old)}
  IN IF before = {} THEN 0 ELSE Max(before)

\* A slip of the next definition: the window after the recorded end is taken
\* for recorded.
ToTrainAfterNext(to, old) ==
  {q \in Grid : q >= PricedFrom /\ to >= q + Frequency
                /\ (old.max + Frequency < q \/ old.min > q + Frequency)}
\* train_var returns None for the other points.
ToTrain(to, old) ==
  {q \in Grid : q >= PricedFrom /\ to >= q + Frequency
                /\ (old.max < q \/ old.min > q + Frequency)}

\* apply on an empty grid is not a Series, and has no to_frame.
NoPoints(to) == ~\E q \in Grid : q >= PricedFrom /\ q < to
NoTargetRows(to, old) == ~\E b \in feed : b <= to /\ Visible(b, old)

\* The model of a window may fail to fit: get_var_result is outside the try.
\* An exception ends a loop's thread.
Train(u) ==
  LET c == call[u]
      points == ToTrain(c.to, record)
  IN /\ c.stage = "record"
     /\ IF NoTargetRows(c.to, record) THEN Goes(u, Idle(u)) /\ UNCHANGED tried
        ELSE IF NoPoints(c.to) THEN Goes(u, Off) /\ UNCHANGED tried
        ELSE \/ points # {} /\ Goes(u, Off) /\ UNCHANGED tried
             \/ \E good \in SUBSET points :
               LET new == {[at |-> q, seed |-> Seed(q, c.to, record)] : q \in good}
               IN IF new = {} THEN Goes(u, Idle(u)) /\ tried' = tried \cup points
                  ELSE /\ Goes(u, [c EXCEPT !.stage = "create", !.old = record,
                                            !.points = points, !.new = new])
                       /\ UNCHANGED tried
     /\ UNCHANGED <<feed, final, priced, record, stored, exits>>

IsStored(q) == \E r \in stored : r.at = q

\* All or nothing: a row that is there already makes the whole batch fail.
BulkCreate(u) ==
  LET c == call[u]
      fails == \E r \in c.new : IsStored(r.at)
  IN /\ c.stage = "create"
     /\ stored' = IF fails THEN stored ELSE stored \cup c.new
     /\ Goes(u, [c EXCEPT !.stage = IF fails THEN "each" ELSE "save"])
     /\ UNCHANGED <<feed, final, priced, record, tried, exits>>

\* save() of one object after the other, those that exist passed over. The
\* rows that are not there yet come one by one, in order.
SaveEach(u) ==
  LET c == call[u]
      left == {r \in c.new : ~IsStored(r.at)}
  IN /\ c.stage = "each"
     /\ \/ /\ left = {}
           /\ Goes(u, [c EXCEPT !.stage = "save"]) /\ UNCHANGED stored
        \/ \E r \in left :
             /\ \A s \in left : r.at <= s.at
             /\ stored' = stored \cup {r} /\ UNCHANGED call
     /\ UNCHANGED <<feed, final, priced, record, tried, exits>>

\* A slip of the next definition: the range is that of the request.
SaveRequestedRange(u) ==
  LET c == call[u]
  IN /\ c.stage = "save"
     /\ record' = [max |-> c.to, min |-> PricedFrom]
     /\ tried' = tried \cup c.points
     /\ Goes(u, Idle(u))
     /\ UNCHANGED <<feed, final, priced, stored, exits>>

\* A slip of the next definition: the recorded beginning is left as it was.
SaveMaxOnly(u) ==
  LET c == call[u]
  IN /\ c.stage = "save"
     /\ record' = [c.old EXCEPT !.max = Max({r.at : r \in c.new} \cup {@})]
     /\ tried' = tried \cup c.points
     /\ Goes(u, Idle(u))
     /\ UNCHANGED <<feed, final, priced, stored, exits>>

\* The range is extended from what was read of it before the training.
SaveRecord(u) ==
  LET c == call[u]
      ats == {r.at : r \in c.new}
  IN /\ c.stage = "save"
     /\ record' = [max |-> Max(ats \cup {c.old.max}), min |-> Min(ats \cup {c.old.min})]
     /\ tried' = tried \cup c.points
     /\ Goes(u, Idle(u))
     /\ UNCHANGED <<feed, final, priced, stored, exits>>

\* A Go call of another thread ends the process and every loop in it.
Exit ==
  /\ exits < MaxExits
  /\ exits' = exits + 1
  /\ call' = [u \in Updaters |-> Off]
  /\ UNCHANGED <<feed, final, priced, record, stored, tried>>

Run(u) ==
  \/ \E n \in Needed : Limit(u, n)
  \/ Train(u) \/ BulkCreate(u) \/ SaveEach(u) \/ SaveRecord(u)

Next ==
  \/ \E n \in Needed : MorePrices(n) \/ RecordPrices(n)
  \/ \E u \in Updaters : StartLoop(u) \/ StopLoop(u) \/ Run(u)
                           \/ \E end \in EndsOf(u) : Begin(u, end)
  \/ Exit

Spec == Init /\ [][Next]_vars

\* A call that has begun is scheduled, and a loop that has been started calls
\* again and again. Nobody has to click.
FairSpec ==
  /\ Spec
  /\ \A u \in Updaters : WF_vars(Run(u))
  /\ \A u \in AutoUpdaters : WF_vars(Begin(u, -1))

-----------------------------------------------------------------------------
(* Properties.                                                             *)

\* No window of the recorded range was passed over: it would never be looked
\* at again (views.py:352). Overlapping calls save ranges they read before.
NoWindowSkipped == \A q \in Grid : q \in record.min..record.max => q \in tried

\* A stored latency is the one a single call over all prices would have found,
\* however the range was split among calls: what is visible from the recorded
\* end on is enough to fill the next windows (views.py:330).
SameAsOneCall ==
  \A r \in stored : r.seed = Max({0} \cup {b \in feed : b <= r.at})

\* A latency is of a window all of whose block prices are in the table, for
\* every pair that is needed (views.py:351): windows are trained once.
WindowsArePriced ==
  \A r \in stored, n \in Needed : r.at + Frequency <= final[n]

\* A window that is lastingly recorded as priced gets its turn, by a loop that
\* is not ended for good: an empty grid, a model that cannot be fitted or an
\* exit ends it, and only a click starts it again.
EveryWindowIsTried ==
  \A q \in {g \in Grid : PricedFrom <= g /\ g + Frequency <= MaxBlock}, u \in AutoUpdaters :
    <>[]((\A n \in Needed : q + Frequency <= priced[n]) /\ call[u].stage # "off")
      => <>(q \in tried)

=============================================================================
