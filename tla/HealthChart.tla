----------------------------- MODULE HealthChart -----------------------------
(***************************************************************************)
(* The threads that draw the health factor charts (gen_hf_chart,           *)
(* debtmonitor/views.py 639-1031) from tables the lending pool's crawl is  *)
(* filling at the same time, and those who start them: auto_plot, over and *)
(* over, and the main page's form (oracleWeb/views.py 199-222, 421-438).   *)
(* Both write one dictionary, HFPlotConfig; a thread copies it into module *)
(* globals and reads them, and the tables, one after the other.            *)
(*                                                                         *)
(* An address has rows in some blocks and liquidation calls in some; the   *)
(* status of the reserves changes in every block. Addresses are those the  *)
(* replay draws when it has all of this (see DebtAccount), with prices.    *)
(***************************************************************************)
EXTENDS Integers, Sequences, FiniteSetsExt

CONSTANTS
  Targets,    \* addresses
  Deposits,   \* [Targets -> SUBSET Blocks] their rows but LiquidationCall
  Calls,      \* [Targets -> SUBSET Blocks] their liquidation calls
  MaxBlock,   \* bound: last block that is crawled
  Charts,     \* bound: gen_hf_chart threads alive at once
  MaxPosts,   \* bound: requests by the form
  None        \* no chart, no thread

Blocks == 1..MaxBlock

ASSUME ChartAssumption ==
  /\ MaxBlock \in Nat /\ MaxPosts \in Nat /\ None \notin Charts \cup Targets
  /\ Deposits \in [Targets -> SUBSET Blocks] /\ Calls \in [Targets -> SUBSET Blocks]

VARIABLES
  tables,   \* how far each table is filled
  overall,  \* max_block_number of the summary row "overall"
  window,   \* last block of the window being crawled, 0 if there is none
  config,   \* HFPlotConfig
  globals,  \* TargetContract and ReservesStatusEnd of debtmonitor/views.py
  auto,     \* the auto_plot thread; asked: the address in the click's POST
  post,     \* a request by the form: its second half is still to come
  thread,   \* RunningThread['plot_hf']
  chart,    \* [Charts -> Drawing] the gen_hf_chart threads
  shown,    \* HF_previous_chart; HF_chart is drawn from the same
  posts     \* requests so far

vars == <<tables, overall, window, config, globals, auto, post, thread, chart, shown, posts>>
crawl == <<tables, overall, window>>

Request == [target: Targets, end: 0..MaxBlock]
\* What a chart was made from: which rows and calls up to which block, and
\* the last status of the reserves there was.
Figure == [target: Targets, until: 0..MaxBlock, rows: SUBSET Blocks,
           calls: SUBSET Blocks, status: 0..MaxBlock, alone: BOOLEAN]

\* What a thread has read. target: whose rows. alone: no other drawing thread,
\* and no request, since this one was started.
Drawing == [pc: {"off", "config", "status", "rows", "until", "calls", "risk"},
            target: Targets, until: 0..MaxBlock, status: 0..MaxBlock,
            rows: SUBSET Blocks, callRows: SUBSET Blocks, alone: BOOLEAN]

TypeOK ==
  /\ tables \in [status: 0..MaxBlock, rows: 0..MaxBlock, callRows: 0..MaxBlock,
                 calls: 0..MaxBlock]
  /\ overall \in 0..MaxBlock /\ window \in 0..MaxBlock
  /\ tables.calls <= tables.callRows /\ overall <= tables.calls
  /\ config \in Request /\ globals \in Request
  /\ auto \in [pc: {"off", "while", "start"}, do_run: BOOLEAN, asked: Targets \cup {None}]
  /\ post \in BOOLEAN
  /\ thread \in Charts \cup {None}
  /\ chart \in [Charts -> Drawing]
  /\ shown \in Figure \cup {None}
  /\ posts \in 0..MaxPosts

NoDrawing == [pc |-> "off", target |-> CHOOSE t \in Targets : TRUE, until |-> 0, status |-> 0,
              rows |-> {}, callRows |-> {}, alone |-> TRUE]

\* The server starts: the last crawl may have ended in the middle of a window.
Init ==
  /\ overall \in 0..MaxBlock
  /\ tables \in {[status |-> s, rows |-> r, callRows |-> c, calls |-> l] :
       s, r, c, l \in overall..MaxBlock}
  /\ tables.calls <= tables.callRows /\ tables.callRows <= tables.rows
  /\ tables.rows <= tables.status
  /\ window = 0
  /\ config \in [target: Targets, end: {0}] /\ globals = config
  /\ auto = [pc |-> "off", do_run |-> TRUE, asked |-> None]
  /\ post = FALSE /\ posts = 0
  /\ thread = None
  /\ chart = [c \in Charts |-> NoDrawing]
  /\ shown = None

-----------------------------------------------------------------------------
(* The crawl of the lending pool, as far as the charts can tell (the whole *)
(* of it is LendingPool): a window is stored table by table, in the order  *)
(* of aave_log_details, and then recorded.                                 *)

Order == <<"status", "rows", "callRows", "calls">>

NextWindow(to) ==
  /\ window = 0 /\ overall < to
  /\ window' = to
  /\ UNCHANGED <<tables, overall, config, globals, auto, post, thread, chart, shown, posts>>

\* A slip of the next definition: the row is saved before the tables.
RecordFirst ==
  /\ window > 0
  /\ overall' = window
  /\ \/ \E i \in 1..Len(Order) :
          /\ tables[Order[i]] < window /\ \A j \in 1..(i - 1) : tables[Order[j]] >= window
          /\ tables' = [tables EXCEPT ![Order[i]] = window] /\ UNCHANGED window
     \/ /\ \A i \in 1..Len(Order) : tables[Order[i]] >= window
        /\ window' = 0 /\ UNCHANGED tables
  /\ UNCHANGED <<config, globals, auto, post, thread, chart, shown, posts>>

Crawl ==
  /\ window > 0
  /\ \/ \E i \in 1..Len(Order) :
          /\ tables[Order[i]] < window /\ \A j \in 1..(i - 1) : tables[Order[j]] >= window
          /\ tables' = [tables EXCEPT ![Order[i]] = window]
          /\ UNCHANGED <<overall, window>>
     \/ /\ \A i \in 1..Len(Order) : tables[Order[i]] >= window
        /\ overall' = window /\ window' = 0
        /\ UNCHANGED tables
  /\ UNCHANGED <<config, globals, auto, post, thread, chart, shown, posts>>

-----------------------------------------------------------------------------
(* Who starts a thread.                                                    *)

Alive(c) == c # None /\ chart[c].pc # "off"
Disturbed == [c \in Charts |-> IF Alive(c) THEN [chart[c] EXCEPT !.alone = FALSE] ELSE chart[c]]

\* get_interaction_data gives a table without columns when there are no rows.
Known(t) == \E b \in Deposits[t] : b <= tables.rows
Found(t) == Known(t) \/ \E b \in Calls[t] : b <= tables.callRows

\* start_plot_hf
Start ==
  LET c == CHOOSE d \in Charts : ~Alive(d)
  IN /\ \E d \in Charts : ~Alive(d)
     /\ chart' = [Disturbed EXCEPT ![c] =
          [NoDrawing EXCEPT !.pc = "config", !.alone = \A d \in Charts : ~Alive(d)]]
     /\ thread' = c

\* The form: the last block is one the page shows as crawled.
PostConfig(t, end) ==
  /\ posts < MaxPosts /\ ~post
  /\ posts' = posts + 1 /\ post' = TRUE
  /\ config' = [target |-> t, end |-> end]
  /\ chart' = Disturbed
  /\ UNCHANGED <<tables, overall, window, globals, auto, thread, shown>>

\* The request's other half. An address not found is an error of the request.
PostStart ==
  /\ post /\ post' = FALSE
  /\ IF Known(config.target) THEN Start ELSE UNCHANGED <<chart, thread>>
  /\ UNCHANGED <<tables, overall, window, config, globals, auto, shown, posts>>

\* The click: its POST names an address.
StartAuto(t) ==
  /\ auto.pc = "off"
  /\ auto' = [pc |-> "while", do_run |-> TRUE, asked |-> t]
  /\ UNCHANGED <<tables, overall, window, config, globals, post, thread, chart, shown, posts>>

StopAuto ==
  /\ auto.pc # "off" /\ auto.do_run
  /\ auto' = [auto EXCEPT !.do_run = FALSE]
  /\ UNCHANGED <<tables, overall, window, config, globals, post, thread, chart, shown, posts>>

\* A crawler the same click started replaces the POST by {} (request.POST = {},
\* datastorage/views.py:665 and debtmonitor/views.py:444).
WipePost ==
  /\ auto.pc # "off" /\ auto.asked # None
  /\ auto' = [auto EXCEPT !.asked = None]
  /\ UNCHANGED <<tables, overall, window, config, globals, post, thread, chart, shown, posts>>

\* request.POST.get("DebtMonitorTarget", HFPlotConfig['target_address'])
AskedTarget == IF auto.asked = None THEN config.target ELSE auto.asked

\* A slip of the next definition: a block once configured is kept.
AutoConfigKeepsEnd ==
  /\ auto.pc = "while"
  /\ \/ /\ ~auto.do_run
        /\ auto' = [auto EXCEPT !.pc = "off"] /\ UNCHANGED config
     \/ /\ auto.do_run /\ ~Alive(thread)
        /\ config' = [target |-> AskedTarget,
                      end |-> IF config.end = 0 THEN overall ELSE config.end]
        /\ auto' = [auto EXCEPT !.pc = "start"]
  /\ UNCHANGED <<tables, overall, window, globals, post, thread, chart, shown, posts>>

\* One turn of the loop: when the last thread started has ended, the next
\* chart is to go up to the last block recorded. The address is read anew: with
\* the POST gone it is the one the form asked for last.
AutoConfig ==
  /\ auto.pc = "while"
  /\ \/ /\ ~auto.do_run
        /\ auto' = [auto EXCEPT !.pc = "off"] /\ UNCHANGED config
     \/ /\ auto.do_run /\ ~Alive(thread)
        /\ config' = [target |-> AskedTarget, end |-> overall]
        /\ auto' = [auto EXCEPT !.pc = "start"]
  /\ UNCHANGED <<tables, overall, window, globals, post, thread, chart, shown, posts>>

\* An address not found raises out of the loop.
AutoStart ==
  /\ auto.pc = "start"
  /\ auto' = [auto EXCEPT !.pc = IF Found(config.target) THEN "while" ELSE "off"]
  /\ IF Known(config.target) THEN Start ELSE UNCHANGED <<chart, thread>>
  /\ UNCHANGED <<tables, overall, window, config, globals, post, shown, posts>>

-----------------------------------------------------------------------------
(* gen_hf_chart                                                            *)

Draws(c, d) == chart' = [chart EXCEPT ![c] = d]
Others == <<tables, overall, window, config, auto, post, thread, posts>>

CopyConfig(c) ==
  /\ chart[c].pc = "config"
  /\ globals' = config
  /\ Draws(c, [chart[c] EXCEPT !.pc = "status"])
  /\ UNCHANGED <<shown, Others>>

\* An address that was found has rows, and rows have a status before them.
ReadStatus(c) ==
  /\ chart[c].pc = "status"
  /\ Draws(c, [chart[c] EXCEPT !.pc = "rows", !.status = tables.status])
  /\ UNCHANGED <<globals, shown, Others>>

ReadRows(c) ==
  LET t == globals.target
  IN /\ chart[c].pc = "rows"
     /\ Draws(c, [chart[c] EXCEPT !.pc = "until", !.target = t,
                    !.rows = {b \in Deposits[t] : b <= tables.rows},
                    !.callRows = {b \in Calls[t] : b <= tables.callRows}])
     /\ UNCHANGED <<globals, shown, Others>>

ReadUntil(c) ==
  /\ chart[c].pc = "until"
  /\ Draws(c, [chart[c] EXCEPT !.pc = "calls", !.until = globals.end])
  /\ UNCHANGED <<globals, shown, Others>>

\* A slip of the next definition: the chart goes up to the last row read.
ReplayAll(d) ==
  LET last == Max({0} \cup d.rows \cup d.callRows)
  IN [target |-> d.target, until |-> last, rows |-> d.rows, calls |-> d.callRows,
      status |-> Min({last, d.status}), alone |-> d.alone]

\* The rows up to the block asked for are replayed.
Replay(d) ==
  LET UpTo(blocks) == {b \in blocks : b <= d.until}
  IN [target |-> d.target, until |-> d.until, rows |-> UpTo(d.rows),
      calls |-> UpTo(d.callRows), status |-> Min({d.until, d.status}), alone |-> d.alone]

\* The address's calls; then the charts of the past are drawn. No calls at all
\* is a table without columns, and a row of a call that is not among them has
\* no values: either ends the thread.
ReadCalls(c) ==
  LET t == globals.target
      d == chart[c]
      calls == {b \in Calls[t] : b <= tables.calls}
  IN /\ d.pc = "calls"
     /\ IF calls = {} \/ d.rows \cup d.callRows = {}
           \/ ~(d.callRows \subseteq IF t = d.target THEN calls ELSE {})
        THEN Draws(c, NoDrawing) /\ UNCHANGED shown
        ELSE /\ shown' = Replay(d)
             /\ Draws(c, [d EXCEPT !.pc = "risk"])
     /\ UNCHANGED <<globals, Others>>

\* Training and the simulation, whether or not the model fits.
Simulate(c) ==
  /\ chart[c].pc = "risk"
  /\ Draws(c, NoDrawing)
  /\ UNCHANGED <<globals, shown, Others>>

Draw(c) ==
  \/ CopyConfig(c) \/ ReadStatus(c) \/ ReadRows(c) \/ ReadUntil(c) \/ ReadCalls(c)
  \/ Simulate(c)

AutoPlot == AutoConfig \/ AutoStart

Next ==
  \/ \E to \in Blocks : NextWindow(to)
  \/ Crawl
  \/ \E t \in Targets : StartAuto(t) \/ \E end \in 0..overall : PostConfig(t, end)
  \/ PostStart \/ WipePost \/ StopAuto \/ AutoPlot
  \/ \E c \in Charts : Draw(c)

Spec == Init /\ [][Next]_vars

\* Threads and requests that have begun are scheduled, and the crawl goes on
\* (LendingPool: ForwardCatchesUp).
FairSpec ==
  /\ Spec
  /\ WF_vars(\E to \in Blocks : NextWindow(to)) /\ WF_vars(Crawl)
  /\ WF_vars(PostStart) /\ WF_vars(AutoPlot)
  /\ \A c \in Charts : WF_vars(Draw(c))

-----------------------------------------------------------------------------
(* Properties.                                                             *)

\* A chart is of one address and of all it did up to the chart's last block,
\* valued by the reserves' last status there: the crawl fills the tables while
\* they are read one after the other, but only beyond the row "overall". Of a
\* thread that was alone: it shares its globals with every other.
AloneIsComplete ==
  shown # None /\ shown.alone =>
    /\ shown.rows = {b \in Deposits[shown.target] : b <= shown.until}
    /\ shown.calls = {b \in Calls[shown.target] : b <= shown.until}
    /\ shown.status = shown.until

\* While auto_plot runs, the chart of the address configured gets as far as the
\* crawl has been, however many threads end because a liquidation's row is
\* stored before the call, and although the form and the loss of the POST give
\* it another address in between: unless that one has never been liquidated,
\* which no chart can be drawn of.
AutoPlotKeepsUp ==
  \A m \in Blocks :
    <>[](overall >= m /\ auto.pc # "off" /\ auto.do_run /\ Calls[config.target] # {})
      => []<>(shown # None /\ shown.target = config.target /\ shown.until >= m)

=============================================================================
