----------------------------- MODULE WebControl -----------------------------
(***************************************************************************)
(* The thread control of the main app (oracleWeb/oracleWeb/views.py).      *)
(* RunningThread holds, for every kind of background thread, the thread    *)
(* that was started last. The buttons of the main page start and stop one  *)
(* kind; the one button of the auto page starts all of them and the thread *)
(* auto_plot, which makes the three plots again and again, or stops all.   *)
(*                                                                         *)
(* threads[k] is the sequence of threads of kind k in the order they were  *)
(* started; the last is RunningThread[k], and when it has ended the next   *)
(* takes its place.                                                        *)
(***************************************************************************)
EXTENDS Integers, Sequences

CONSTANTS
  AutoWorkers,   \* kinds auto_main starts, in the order of RunningThread
  HandWorkers,   \* kinds only the main page starts (auto_update_latency)
  Wipers,        \* kinds whose thread begins with request.POST = {}
  PlotOrder,     \* kinds of plot, in the order of auto_plot
  HfPlot,        \* the plot made for an address, plot_hf
  Addresses,     \* addresses a user can type
  Default,       \* TargetAddress
  Plottable,     \* addresses whose interactions gen_hf_chart can handle
  Tabs,          \* browser tabs: requests of different tabs overlap
  Patient,       \* TRUE: "Auto Start" is pressed only when nothing is ending
  MaxClicks,     \* bound: buttons pressed
  MaxFailures    \* bound: exceptions that end a thread

SetOf(s) == {s[i] : i \in DOMAIN s}
Workers == SetOf(AutoWorkers) \cup HandWorkers
Plots == SetOf(PlotOrder)
Kinds == Workers \cup Plots \cup {"auto_all"}
Loops == Workers \cup {"auto_all"}   \* threads that run until do_run is FALSE

ASSUME KindsAssumption ==
  /\ AutoWorkers \in Seq(Workers) /\ PlotOrder \in Seq(Plots)
  /\ Workers \cap Plots = {} /\ "auto_all" \notin Workers \cup Plots
  /\ Wipers \subseteq Workers /\ HfPlot \in Plots
ASSUME AddressAssumption == Default \in Addresses /\ Plottable \subseteq Addresses
ASSUME ClickBoundAssumption == Patient \in BOOLEAN /\ MaxClicks \in Nat /\ MaxFailures \in Nat

VARIABLES
  threads,  \* [Kinds -> Seq(Thread)], the last one is RunningThread
  auto_all, \* Config['auto_all']
  target,   \* HFPlotConfig['target_address']
  form,     \* [Requests -> Form] request.POST of each auto_main request
  typed,    \* [Requests -> Addresses] the address that was typed into it
  click,    \* [Tabs -> Click] the request a tab waits for
  shown,    \* [Tabs -> [Loops -> BOOLEAN]] TRUE: its page shows a stop button
  last,     \* the button pressed last
  used      \* how much of each bound is spent

vars == <<threads, auto_all, target, form, typed, click, shown, last, used>>

Requests == 0..MaxClicks   \* 0 stands for the requests whose POST nobody reads
Form == [button: {"start", "stop", "none"}, address: Addresses, wiped: BOOLEAN]
Thread == [pc: {"begin", "test", "work", "dead"}, do_run: BOOLEAN, req: Requests,
           todo: Seq(Plots), address: Addresses]
Click == [stage: {"idle", "check", "start", "branch", "launch", "render"},
          todo: Seq(Workers), req: Requests]

NoForm == [button |-> "none", address |-> Default, wiped |-> FALSE]
NewThread(r) == [pc |-> "begin", do_run |-> TRUE, req |-> r, todo |-> <<>>, address |-> Default]
NoClick == [stage |-> "idle", todo |-> <<>>, req |-> 0]

Lives(t) == t.pc # "dead"
Alive(k) == threads[k] # <<>> /\ Lives(threads[k][Len(threads[k])])
\* The threads of a kind after one more is started and assigned to RunningThread:
\* one that still lives is kept, though no variable refers to it.
Started(k, t) ==
  LET s == threads[k]
  IN IF s = <<>> \/ Alive(k) THEN Append(s, t) ELSE [s EXCEPT ![Len(s)] = t]
\* do_run = FALSE on the thread RunningThread has, if it has one.
Told(s) == IF s = <<>> THEN s ELSE [s EXCEPT ![Len(s)].do_run = FALSE]

TypeOK ==
  /\ \A k \in Kinds : \A i \in DOMAIN threads[k] :
       /\ threads[k][i].pc \in {"begin", "test", "work", "dead"}
       /\ threads[k][i].do_run \in BOOLEAN /\ threads[k][i].req \in Requests
       /\ threads[k][i].address \in Addresses
       /\ SetOf(threads[k][i].todo) \subseteq Plots
  /\ auto_all \in BOOLEAN /\ target \in Addresses
  /\ form \in [Requests -> Form] /\ typed \in [Requests -> Addresses]
  /\ shown \in [Tabs -> [Loops -> BOOLEAN]]
  /\ last \in {"none", "start_all", "stop_all", "hand"}
  /\ used \in [clicks: 0..MaxClicks, failures: 0..MaxFailures]

Init ==
  /\ threads = [k \in Kinds |-> <<>>]
  /\ auto_all = FALSE /\ target = Default
  /\ form = [r \in Requests |-> NoForm] /\ typed = [r \in Requests |-> Default]
  /\ click = [t \in Tabs |-> NoClick]
  /\ shown = [t \in Tabs |-> [k \in Loops |-> FALSE]]
  /\ last = "none"
  /\ used = [clicks |-> 0, failures |-> 0]

-----------------------------------------------------------------------------
(* Buttons.                                                                *)

Press(tab, stage, todo, r) ==
  /\ click[tab].stage = "idle" /\ used.clicks < MaxClicks
  /\ used' = [used EXCEPT !.clicks = @ + 1]
  /\ click' = [click EXCEPT ![tab] = [stage |-> stage, todo |-> todo, req |-> r]]

\* The one button of the auto page.
PressAuto(tab, address) ==
  LET r == used.clicks + 1
      stop == shown[tab]["auto_all"]
  IN /\ Press(tab, "check", AutoWorkers, r)
     /\ Patient /\ ~stop => \A k \in Loops : \A i \in DOMAIN threads[k] :
          Lives(threads[k][i]) => threads[k][i].do_run
     /\ form' = [form EXCEPT ![r] =
          [button |-> IF stop THEN "stop" ELSE "start", address |-> address, wiped |-> FALSE]]
     /\ typed' = [typed EXCEPT ![r] = address]
     /\ last' = IF stop THEN "stop_all" ELSE "start_all"
     /\ UNCHANGED <<threads, auto_all, target, shown>>

\* auto_update_X and stop_auto_update_X: neither looks at the thread there is.
StartByHand(tab, k) ==
  /\ ~shown[tab][k]
  /\ Press(tab, "render", <<>>, 0)
  /\ threads' = [threads EXCEPT ![k] = Started(k, NewThread(0))]
  /\ last' = "hand"
  /\ UNCHANGED <<auto_all, target, form, typed, shown>>

StopByHand(tab, k) ==
  /\ shown[tab][k]
  /\ Press(tab, "render", <<>>, 0)
  /\ threads' = [threads EXCEPT ![k] = Told(@)]
  /\ last' = "hand"
  /\ UNCHANGED <<auto_all, target, form, typed, shown>>

\* The plot forms of the main page; that of the health factor has an address.
PlotByHand(tab, p, address) ==
  /\ Press(tab, "render", <<>>, 0)
  /\ target' = IF p = HfPlot THEN address ELSE target
  /\ threads' = IF p = HfPlot /\ address \notin Plottable THEN threads
                ELSE [threads EXCEPT ![p] =
                       Started(p, [NewThread(0) EXCEPT !.pc = "work", !.address = target'])]
  /\ last' = "hand"
  /\ UNCHANGED <<auto_all, form, typed, shown>>

-----------------------------------------------------------------------------
(* auto_main                                                               *)

\* A slip of the next definition: a worker that lives ends the loop over them.
CheckWorkerBreaks(tab) ==
  /\ click[tab].stage = "check"
  /\ LET todo == click[tab].todo
         ends == todo = <<>> \/ Alive(Head(todo))
     IN click' = [click EXCEPT ![tab].stage = IF ends THEN "branch" ELSE "start"]
  /\ UNCHANGED <<threads, auto_all, target, form, typed, shown, last, used>>

\* `if thread_obj is not None and thread_obj.is_alive()`, for every worker.
CheckWorker(tab) ==
  /\ click[tab].stage = "check"
  /\ LET todo == click[tab].todo
     IN click' = [click EXCEPT
          ![tab].todo = IF todo # <<>> /\ Alive(Head(todo)) THEN Tail(todo) ELSE todo,
          ![tab].stage = IF todo = <<>> THEN "branch"
                         ELSE IF Alive(Head(todo)) THEN "check" ELSE "start"]
  /\ UNCHANGED <<threads, auto_all, target, form, typed, shown, last, used>>

\* A slip of the next definition: the thread is started but not assigned
\* (a thread that has ended stands for the one RunningThread had).
StartWorkerUnassigned(tab) ==
  /\ click[tab].stage = "start"
  /\ LET k == Head(click[tab].todo)
     IN threads' = [threads EXCEPT ![k] =
          Append(<<NewThread(click[tab].req)>>, [NewThread(0) EXCEPT !.pc = "dead"])]
  /\ click' = [click EXCEPT ![tab].todo = Tail(@), ![tab].stage = "check"]
  /\ UNCHANGED <<auto_all, target, form, typed, shown, last, used>>

StartWorker(tab) ==
  /\ click[tab].stage = "start"
  /\ LET k == Head(click[tab].todo)
     IN threads' = [threads EXCEPT ![k] = Started(k, NewThread(click[tab].req))]
  /\ click' = [click EXCEPT ![tab].todo = Tail(@), ![tab].stage = "check"]
  /\ UNCHANGED <<auto_all, target, form, typed, shown, last, used>>

\* request.POST.get('auto_all') is read after the workers were started.
Branch(tab) ==
  /\ click[tab].stage = "branch"
  /\ LET f == form[click[tab].req]
         stop == f.button = "stop" /\ ~f.wiped
     IN /\ threads' = IF stop THEN [k \in Kinds |-> Told(threads[k])] ELSE threads
        /\ auto_all' = (auto_all /\ ~stop)
        /\ click' = [click EXCEPT ![tab].stage =
                       IF stop \/ Alive("auto_all") THEN "render" ELSE "launch"]
  /\ UNCHANGED <<target, form, typed, shown, last, used>>

Launch(tab) ==
  /\ click[tab].stage = "launch"
  /\ threads' = [threads EXCEPT !["auto_all"] = Started("auto_all", NewThread(click[tab].req))]
  /\ auto_all' = TRUE
  /\ click' = [click EXCEPT ![tab].stage = "render"]
  /\ UNCHANGED <<target, form, typed, shown, last, used>>

\* Both pages take the workers' buttons from is_alive, at the end of main and
\* of auto_main; a plain GET of either page does nothing else.
Page == [k \in Loops |-> IF k = "auto_all" THEN auto_all ELSE Alive(k)]
Render(tab) ==
  /\ click[tab].stage \in {"idle", "render"}
  /\ shown' = [shown EXCEPT ![tab] = Page]
  /\ click' = [click EXCEPT ![tab] = NoClick]
  /\ UNCHANGED <<threads, auto_all, target, form, typed, last, used>>

-----------------------------------------------------------------------------
(* The threads.                                                            *)

Step(k, i, t) == threads' = [threads EXCEPT ![k][i] = t]

\* auto_update of datastorage and debtmonitor drops the POST it was given.
Begin(k, i) ==
  LET t == threads[k][i]
  IN /\ t.pc = "begin"
     /\ Step(k, i, [t EXCEPT !.pc = "test"])
     /\ form' = IF k \in Wipers THEN [form EXCEPT ![t.req].wiped = TRUE] ELSE form
     /\ UNCHANGED <<auto_all, target, typed, click, shown, last, used>>

TestDoRun(k, i) ==
  LET t == threads[k][i]
  IN /\ t.pc = "test"
     /\ Step(k, i, IF t.do_run
                   THEN [t EXCEPT !.pc = "work", !.todo = IF k = "auto_all" THEN PlotOrder ELSE <<>>]
                   ELSE [t EXCEPT !.pc = "dead"])
     /\ UNCHANGED <<auto_all, target, form, typed, click, shown, last, used>>

\* An update of a worker, the plot of a plot thread, the sleep of auto_plot.
Finish(k, i) ==
  LET t == threads[k][i]
  IN /\ t.pc = "work" /\ t.todo = <<>>
     /\ Step(k, i, [t EXCEPT !.pc = IF k \in Plots THEN "dead" ELSE "test"])
     /\ UNCHANGED <<auto_all, target, form, typed, click, shown, last, used>>

Fail(k, i) ==
  LET t == threads[k][i]
  IN /\ t.pc = "work" /\ used.failures < MaxFailures
     /\ Step(k, i, [t EXCEPT !.pc = "dead", !.todo = <<>>])
     /\ used' = [used EXCEPT !.failures = @ + 1]
     /\ UNCHANGED <<auto_all, target, form, typed, click, shown, last>>

\* A slip of the next definition: a plot that was made once is not made again.
PlotNextOnce(k, i) ==
  LET t == threads[k][i]
      p == Head(t.todo)
  IN /\ t.pc = "work" /\ t.todo # <<>>
     /\ threads' = IF threads[p] # <<>>
                   THEN [threads EXCEPT ![k][i].todo = Tail(t.todo)]
                   ELSE [threads EXCEPT ![k][i].todo = Tail(t.todo),
                           ![p] = Started(p, [NewThread(t.req) EXCEPT !.pc = "work"])]
     /\ UNCHANGED <<auto_all, target, form, typed, click, shown, last, used>>

\* A slip of the next definition: an empty address when the POST has none.
PlotNextWithoutDefault(k, i) ==
  LET t == threads[k][i]
      p == Head(t.todo)
      f == form[t.req]
  IN /\ t.pc = "work" /\ t.todo # <<>>
     /\ target' = IF p = HfPlot /\ ~Alive(p) THEN IF f.wiped THEN "" ELSE f.address ELSE target
     /\ threads' = [threads EXCEPT ![k][i].todo = Tail(t.todo)]
     /\ UNCHANGED <<auto_all, form, typed, click, shown, last, used>>

\* auto_plot starts a plot when the one before has ended; the address is that
\* of the POST, or HFPlotConfig's when the POST has none.
PlotNext(k, i) ==
  LET t == threads[k][i]
      p == Head(t.todo)
      f == form[t.req]
  IN /\ t.pc = "work" /\ t.todo # <<>>
     /\ target' = IF p = HfPlot /\ ~Alive(p) /\ ~f.wiped THEN f.address ELSE target
     /\ threads' = IF Alive(p) \/ (p = HfPlot /\ target' \notin Plottable)
                   THEN [threads EXCEPT ![k][i].todo = Tail(t.todo)]
                   ELSE [threads EXCEPT ![k][i].todo = Tail(t.todo),
                           ![p] = Started(p, [NewThread(t.req) EXCEPT
                                     !.pc = "work", !.address = target'])]
     /\ UNCHANGED <<auto_all, form, typed, click, shown, last, used>>

Serve(tab) ==
  \/ CheckWorker(tab) \/ StartWorker(tab) \/ Branch(tab) \/ Launch(tab)
  \/ click[tab].stage = "render" /\ Render(tab)
Run(k, i) == Begin(k, i) \/ TestDoRun(k, i) \/ Finish(k, i) \/ PlotNext(k, i)

Next ==
  \/ \E tab \in Tabs :
       \/ Serve(tab) \/ Render(tab)
       \/ \E a \in Addresses : PressAuto(tab, a)
       \/ \E k \in Workers : StartByHand(tab, k) \/ StopByHand(tab, k)
       \/ \E p \in Plots, a \in Addresses : PlotByHand(tab, p, a)
  \/ \E k \in Kinds : \E i \in DOMAIN threads[k] : Run(k, i) \/ Fail(k, i)

Spec == Init /\ [][Next]_vars

\* A request is served and a thread runs; nobody has to press a button.
Fairness ==
  /\ \A tab \in Tabs : WF_vars(Serve(tab))
  /\ \A k \in Kinds : \A i \in 1..(MaxClicks + 1) :
       WF_vars(i \in DOMAIN threads[k] /\ Run(k, i))

FairSpec == Spec /\ Fairness

-----------------------------------------------------------------------------
(* Properties.                                                             *)

Idle == \A tab \in Tabs : click[tab].stage = "idle"

\* A thread that would loop on is the one RunningThread has: no button can
\* reach any other, and it would crawl until the server is killed. auto_main
\* and the pages rely on is_alive, read before the thread is started.
RunningThreadIsInReach ==
  \A k \in Loops : \A i \in DOMAIN threads[k] :
    Lives(threads[k][i]) /\ threads[k][i].do_run => i = Len(threads[k])

\* After "Auto Start" every database update runs on and the plots as well, or
\* has met an exception of its own (Readme 3.2, "with only one click ... it
\* will automatically start all database updating and also update the plot").
StartRunsAll ==
  last = "start_all" /\ Idle =>
    \A k \in SetOf(AutoWorkers) \cup {"auto_all"} :
      threads[k] # <<>> /\ (Alive(k) => threads[k][Len(threads[k])].do_run)

\* The plot auto_plot makes is about the address that was typed beside the
\* button (Readme 3.2, "after inputting the information of your address").
\* The code does not keep this promise: a worker started by the same click
\* drops the POST before auto_plot reads the address (oracleWeb/views.py:427).
PlotsTheAddressTyped ==
  \A i \in DOMAIN threads[HfPlot] :
    LET t == threads[HfPlot][i] IN t.req # 0 => t.address = typed[t.req]

\* While auto_plot runs, each plot is made again after the one before is made
\* (Readme 3.2: "All the plot generation is a while True loop").
PlotsKeepComing ==
  <>[](Alive("auto_all") /\ threads["auto_all"][Len(threads["auto_all"])].do_run)
    => \A p \in Plots : []<>Alive(p) /\ []<>~Alive(p)

=============================================================================
