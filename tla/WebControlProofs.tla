-------------------------- MODULE WebControlProofs --------------------------
(***************************************************************************)
(* What the thread control keeps for any kinds of thread, any number of    *)
(* clicks and failures: its types; with one browser tab, that no thread    *)
(* gets out of reach; and with a patient user, that "Auto Start" starts    *)
(* everything.                                                             *)
(***************************************************************************)
EXTENDS WebControl, TLAPS, SequenceTheorems

OneTab == \E t \in Tabs : Tabs = {t}

-----------------------------------------------------------------------------
(* The inductive invariants.                                               *)

\* The types, with those of the sequences.
Types ==
  /\ TypeOK
  /\ threads \in [Kinds -> Seq(Thread)]
  /\ click \in [Tabs -> Click]
  /\ \A tab \in Tabs : click[tab].stage = "start" => click[tab].todo # <<>>

\* What a button or auto_main has found dead is still dead when the thread is
\* started: the page was rendered, or is_alive was read, and since then
\* nobody has started one.
StillDead ==
  \A tab \in Tabs :
    /\ click[tab].stage = "idle" => \A k \in Workers : ~shown[tab][k] => ~Alive(k)
    /\ click[tab].stage = "start" => ~Alive(Head(click[tab].todo))
    /\ click[tab].stage = "launch" => ~Alive("auto_all")
ReachInv == Types /\ RunningThreadIsInReach /\ StillDead

\* While a start of all is served: nobody is told to end, no worker that was
\* gone through is missing, and the POST's button is that of a start.
Willing == \A k \in Loops : \A i \in DOMAIN threads[k] :
             Lives(threads[k][i]) => threads[k][i].do_run
Gone(tab) ==
  IF click[tab].stage \in {"check", "start"} THEN SetOf(AutoWorkers) \ SetOf(click[tab].todo)
  ELSE IF click[tab].stage \in {"branch", "launch"} THEN SetOf(AutoWorkers)
  ELSE SetOf(AutoWorkers) \cup {"auto_all"}
Starts ==
  last = "start_all" =>
    /\ Willing
    /\ \A tab \in Tabs :
         /\ \A k \in Gone(tab) : threads[k] # <<>>
         /\ click[tab].stage \in {"check", "start", "branch"} =>
              form[click[tab].req].button = "start"
StartInv == Types /\ Starts

-----------------------------------------------------------------------------
(* Sequences of threads.                                                   *)

\* The kinds of thread, and what a thread is made as.
LEMMA Sorts ==
  /\ Workers \subseteq Loops /\ Loops \subseteq Kinds /\ Plots \subseteq Kinds
  /\ "auto_all" \in Loops /\ "auto_all" \notin Workers /\ Loops \cap Plots = {}
  /\ HfPlot \in Plots /\ 0 \in Requests /\ Default \in Addresses
  /\ \A k \in Loops : k \in Workers \/ k = "auto_all"
BY KindsAssumption, AddressAssumption, ClickBoundAssumption DEF Loops, Kinds, Requests

\* A thread that is started.
LEMMA NewThreadIs ==
  ASSUME NEW r \in Requests
  PROVE  /\ NewThread(r) \in Thread /\ NewThread(r).do_run
         /\ \A a \in Addresses :
              [NewThread(r) EXCEPT !.pc = "work", !.address = a] \in Thread
BY Sorts, EmptySeq DEF NewThread, Thread

\* The threads of a kind are a sequence.
LEMMA ThreadsOf ==
  ASSUME Types, NEW k \in Kinds
  PROVE  /\ threads[k] \in Seq(Thread) /\ Len(threads[k]) \in Nat
         /\ DOMAIN threads[k] = 1..Len(threads[k])
         /\ threads[k] # <<>> => Len(threads[k]) \in 1..Len(threads[k])
         /\ \A i \in 1..Len(threads[k]) : threads[k][i] \in Thread
<1>1. threads[k] \in Seq(Thread)
  BY DEF Types
<1> QED BY <1>1, EmptySeq, LenProperties, ElementOfSeq

\* A thread that is started comes last; of the others the living are kept.
LEMMA StartedIs ==
  ASSUME Types, NEW k \in Kinds, NEW t \in Thread, NEW s, s = Started(k, t)
  PROVE  /\ s \in Seq(Thread) /\ s # <<>> /\ Len(s) \in Nat /\ s[Len(s)] = t
         /\ \A i \in 1..Len(s) : i # Len(s) =>
              /\ i \in 1..Len(threads[k]) /\ s[i] = threads[k][i]
              /\ i = Len(threads[k]) => Alive(k)
<1>1. threads[k] \in Seq(Thread) /\ Len(threads[k]) \in Nat
      /\ (threads[k] # <<>> => Len(threads[k]) \in 1..Len(threads[k]))
  BY ThreadsOf
<1>2. CASE threads[k] = <<>> \/ Alive(k)
  <2>1. s = Append(threads[k], t)
    BY <1>2 DEF Started
  <2>2. /\ s \in Seq(Thread) /\ s # <<>> /\ Len(s) = Len(threads[k]) + 1
        /\ \A i \in 1..Len(threads[k]) : s[i] = threads[k][i]
        /\ s[Len(threads[k]) + 1] = t
    BY <1>1, <2>1, AppendProperties
  <2>3. threads[k] = <<>> => Len(threads[k]) = 0
    BY EmptySeq
  <2> QED BY <1>1, <1>2, <2>2, <2>3
<1>3. CASE threads[k] # <<>> /\ ~Alive(k)
  <2>1. s = [threads[k] EXCEPT ![Len(threads[k])] = t]
    BY <1>3 DEF Started
  <2>2. /\ s \in Seq(Thread) /\ Len(s) = Len(threads[k])
        /\ \A i \in 1..Len(threads[k]) : s[i] = IF i = Len(threads[k]) THEN t ELSE threads[k][i]
    BY <1>1, <1>3, <2>1, ExceptSeq
  <2>3. s # <<>>
    BY <1>1, <1>3, <2>2, EmptySeq
  <2> QED BY <1>1, <1>3, <2>2, <2>3
<1> QED BY <1>2, <1>3

\* Only the last thread is told to end.
LEMMA ToldIs ==
  ASSUME NEW s \in Seq(Thread), NEW u, u = Told(s)
  PROVE  /\ u \in Seq(Thread) /\ Len(u) = Len(s) /\ (u = <<>> <=> s = <<>>)
         /\ \A i \in 1..Len(s) : /\ u[i].pc = s[i].pc
                                 /\ u[i].do_run => s[i].do_run /\ i # Len(s)
<1>1. CASE s = <<>>
  BY <1>1, EmptySeq DEF Told
<1>2. CASE s # <<>>
  <2> DEFINE t == [s[Len(s)] EXCEPT !.do_run = FALSE]
  <2>1. Len(s) \in 1..Len(s) /\ \A i \in 1..Len(s) : s[i] \in Thread
    BY <1>2, EmptySeq, ElementOfSeq
  <2>2. t \in Thread /\ t.pc = s[Len(s)].pc /\ ~t.do_run
    BY <2>1 DEF Thread
  <2>3. u = [s EXCEPT ![Len(s)] = t]
    BY <1>2 DEF Told
  <2> HIDE DEF t
  <2>4. /\ u \in Seq(Thread) /\ Len(u) = Len(s)
        /\ \A i \in 1..Len(s) : u[i] = IF i = Len(s) THEN t ELSE s[i]
    BY <2>1, <2>2, <2>3, ExceptSeq
  <2>5. u # <<>>
    BY <2>1, <2>4, EmptySeq
  <2>6. \A i \in 1..Len(s) : /\ u[i].pc = s[i].pc
                             /\ u[i].do_run => s[i].do_run /\ i # Len(s)
    BY <2>2, <2>4
  <2> QED BY <1>2, <2>4, <2>5, <2>6
<1> QED BY <1>1, <1>2

\* One thread takes a step.
LEMMA StepIs ==
  ASSUME Types, NEW k \in Kinds, NEW i \in DOMAIN threads[k], NEW t \in Thread, Step(k, i, t)
  PROVE  /\ threads' \in [Kinds -> Seq(Thread)] /\ threads'[k][i] = t
         /\ \A q \in Kinds : /\ Len(threads'[q]) = Len(threads[q])
                             /\ (threads'[q] = <<>> <=> threads[q] = <<>>)
                             /\ \A j \in 1..Len(threads[q]) :
                                  q # k \/ j # i => threads'[q][j] = threads[q][j]
<1>1. threads \in [Kinds -> Seq(Thread)] /\ i \in 1..Len(threads[k])
  BY ThreadsOf DEF Types
<1> DEFINE s == [threads[k] EXCEPT ![i] = t]
<1>2. /\ s \in Seq(Thread) /\ Len(s) = Len(threads[k])
      /\ \A j \in 1..Len(threads[k]) : s[j] = IF j = i THEN t ELSE threads[k][j]
  BY <1>1, ExceptSeq
<1>3. s # <<>> /\ threads[k] # <<>>
  BY <1>1, <1>2, EmptySeq
<1>4. threads' = [threads EXCEPT ![k] = s]
  BY <1>1 DEF Step
<1> HIDE DEF s
<1> QED BY <1>1, <1>2, <1>3, <1>4

\* A kind of thread gets another sequence of threads.
LEMMA KindIs ==
  ASSUME Types, NEW k \in Kinds, NEW s \in Seq(Thread), threads' = [threads EXCEPT ![k] = s]
  PROVE  /\ threads' \in [Kinds -> Seq(Thread)] /\ threads'[k] = s
         /\ \A q \in Kinds : q # k => threads'[q] = threads[q]
BY DEF Types

\* What TypeOK says of the threads holds of every sequence of threads.
LEMMA ThreadTypes ==
  ASSUME NEW f \in [Kinds -> Seq(Thread)]
  PROVE  \A k \in Kinds : \A i \in DOMAIN f[k] :
           /\ f[k][i].pc \in {"begin", "test", "work", "dead"}
           /\ f[k][i].do_run \in BOOLEAN /\ f[k][i].req \in Requests
           /\ f[k][i].address \in Addresses
           /\ SetOf(f[k][i].todo) \subseteq Plots
<1> SUFFICES ASSUME NEW k \in Kinds, NEW i \in DOMAIN f[k]
             PROVE  /\ f[k][i].pc \in {"begin", "test", "work", "dead"}
                    /\ f[k][i].do_run \in BOOLEAN /\ f[k][i].req \in Requests
                    /\ f[k][i].address \in Addresses
                    /\ SetOf(f[k][i].todo) \subseteq Plots
  OBVIOUS
<1>1. f[k] \in Seq(Thread) /\ i \in 1..Len(f[k])
  BY LenProperties
<1>2. f[k][i] \in Thread
  BY <1>1, ElementOfSeq
<1>3. f[k][i].todo \in Seq(Plots)
  BY <1>2 DEF Thread
<1>4. \A j \in DOMAIN f[k][i].todo : f[k][i].todo[j] \in Plots
  BY <1>3, ElementOfSeq, LenProperties
<1> QED BY <1>2, <1>4 DEF Thread, SetOf

\* A request takes a step.
LEMMA ClickIs ==
  ASSUME Types, NEW tab \in Tabs, NEW c \in Click, click' = [click EXCEPT ![tab] = c],
         c.stage = "start" => c.todo # <<>>
  PROVE  /\ click' \in [Tabs -> Click] /\ click'[tab] = c
         /\ \A u \in Tabs : u # tab => click'[u] = click[u]
         /\ \A u \in Tabs : click'[u].stage = "start" => click'[u].todo # <<>>
BY DEF Types

\* A button is pressed.
LEMMA PressIs ==
  ASSUME Types, NEW tab \in Tabs, NEW stage \in {"check", "render"},
         NEW todo \in Seq(Workers), NEW r \in Requests, Press(tab, stage, todo, r)
  PROVE  /\ click' \in [Tabs -> Click] /\ click[tab].stage = "idle"
         /\ click'[tab] = [stage |-> stage, todo |-> todo, req |-> r]
         /\ \A u \in Tabs : u # tab => click'[u] = click[u]
         /\ \A u \in Tabs : click'[u].stage = "start" => click'[u].todo # <<>>
         /\ used' \in [clicks : 0..MaxClicks, failures : 0..MaxFailures]
<1> DEFINE c == [stage |-> stage, todo |-> todo, req |-> r]
<1>1. c \in Click /\ c.stage # "start"
  BY DEF Click
<1>2. click' = [click EXCEPT ![tab] = c] /\ click[tab].stage = "idle"
  BY DEF Press
<1>3. used' \in [clicks : 0..MaxClicks, failures : 0..MaxFailures]
  <2>1. used.clicks < MaxClicks /\ used' = [used EXCEPT !.clicks = @ + 1]
    BY DEF Press
  <2>2. used \in [clicks : 0..MaxClicks, failures : 0..MaxFailures]
    BY DEF Types, TypeOK
  <2> QED BY <2>1, <2>2, ClickBoundAssumption
<1> HIDE DEF c
<1>4. /\ click' \in [Tabs -> Click] /\ click'[tab] = c
      /\ \A u \in Tabs : u # tab => click'[u] = click[u]
      /\ \A u \in Tabs : click'[u].stage = "start" => click'[u].todo # <<>>
  BY <1>1, <1>2, ClickIs
<1> QED BY <1>2, <1>3, <1>4 DEF c

\* The request of a tab, and what is left of its workers.
LEMMA RequestIs ==
  ASSUME Types, NEW tab \in Tabs
  PROVE  /\ click[tab] \in Click /\ click[tab].req \in Requests
         /\ click[tab].stage \in {"idle", "check", "start", "branch", "launch", "render"}
         /\ click[tab].todo \in Seq(Workers)
         /\ click[tab].todo # <<>> => /\ Head(click[tab].todo) \in Workers
                                      /\ Tail(click[tab].todo) \in Seq(Workers)
<1>1. click[tab] \in Click
  BY DEF Types
<1>2. click[tab].todo \in Seq(Workers) /\ click[tab].req \in Requests
      /\ click[tab].stage \in {"idle", "check", "start", "branch", "launch", "render"}
  BY <1>1 DEF Click
<1> QED BY <1>1, <1>2, HeadTailProperties

\* auto_main looks at the first worker left: alive, it goes on to the next.
LEMMA CheckIs ==
  ASSUME Types, NEW tab \in Tabs, CheckWorker(tab)
  PROVE  LET todo == click[tab].todo
         IN /\ click'[tab].req = click[tab].req
            /\ click'[tab].todo = IF todo # <<>> /\ Alive(Head(todo)) THEN Tail(todo)
                                                                    ELSE todo
            /\ click'[tab].stage = IF todo = <<>> THEN "branch"
                                   ELSE IF Alive(Head(todo)) THEN "check" ELSE "start"
<1> DEFINE todo == click[tab].todo
           rest == IF todo # <<>> /\ Alive(Head(todo)) THEN Tail(todo) ELSE todo
           stage == IF todo = <<>> THEN "branch"
                    ELSE IF Alive(Head(todo)) THEN "check" ELSE "start"
<1>1. click' = [click EXCEPT ![tab].todo = rest, ![tab].stage = stage]
  BY Zenon DEF CheckWorker
<1>2. click \in [Tabs -> Click]
  BY DEF Types
<1>3. click'[tab].req = click[tab].req /\ click'[tab].todo = rest /\ click'[tab].stage = stage
  <2> HIDE DEF rest, stage
  <2> QED BY <1>1, <1>2 DEF Click
<1> QED BY <1>3

-----------------------------------------------------------------------------
(* A step of a thread.                                                     *)

\* It starts no thread of the kinds that loop, revives none, tells none to
\* end, and leaves the requests and the pages alone.
Calm ==
  /\ UNCHANGED <<auto_all, click, shown, last>>
  /\ \A r \in Requests : form'[r].button = form[r].button
  /\ \A q \in Loops :
       /\ Len(threads'[q]) = Len(threads[q]) /\ (threads'[q] = <<>> <=> threads[q] = <<>>)
       /\ \A j \in 1..Len(threads[q]) :
            /\ Lives(threads'[q][j]) => Lives(threads[q][j])
            /\ threads'[q][j].do_run = threads[q][j].do_run

\* A step of one thread alone is calm.
LEMMA StepIsCalm ==
  ASSUME Types, NEW k \in Kinds, NEW i \in DOMAIN threads[k], NEW t \in Thread, Step(k, i, t),
         Lives(t) => Lives(threads[k][i]), t.do_run = threads[k][i].do_run,
         UNCHANGED <<auto_all, click, shown, last>>,
         \A r \in Requests : form'[r].button = form[r].button
  PROVE  /\ Calm /\ threads' \in [Kinds -> Seq(Thread)]
<1>1. /\ threads' \in [Kinds -> Seq(Thread)] /\ threads'[k][i] = t
      /\ \A q \in Kinds : /\ Len(threads'[q]) = Len(threads[q])
                          /\ (threads'[q] = <<>> <=> threads[q] = <<>>)
                          /\ \A j \in 1..Len(threads[q]) :
                               q # k \/ j # i => threads'[q][j] = threads[q][j]
  BY StepIs
<1>2. ASSUME NEW q \in Loops
      PROVE  /\ Len(threads'[q]) = Len(threads[q]) /\ (threads'[q] = <<>> <=> threads[q] = <<>>)
             /\ \A j \in 1..Len(threads[q]) :
                  /\ Lives(threads'[q][j]) => Lives(threads[q][j])
                  /\ threads'[q][j].do_run = threads[q][j].do_run
  BY <1>1, Sorts
<1> QED BY <1>1, <1>2 DEF Calm

\* A step of a thread is calm and keeps the types.
LEMMA ThreadStep ==
  ASSUME Types, NEW k \in Kinds, NEW i \in DOMAIN threads[k], Run(k, i) \/ Fail(k, i)
  PROVE  Calm /\ Types'
<1> DEFINE t == threads[k][i]
<1>1. t \in Thread
  BY ThreadsOf
<1>2. /\ t.pc \in {"begin", "test", "work", "dead"} /\ t.do_run \in BOOLEAN /\ t.req \in Requests
      /\ t.todo \in Seq(Plots) /\ t.address \in Addresses
  BY <1>1 DEF Thread
<1>3. form \in [Requests -> Form] /\ target \in Addresses /\ form[t.req] \in Form
  BY <1>2 DEF Types, TypeOK
<1>4. SUFFICES /\ Calm /\ threads' \in [Kinds -> Seq(Thread)]
               /\ target' \in Addresses /\ form' \in [Requests -> Form] /\ typed' = typed
               /\ used' \in [clicks : 0..MaxClicks, failures : 0..MaxFailures]
  <2>1. UNCHANGED <<auto_all, click, shown, last>>
    BY <1>4 DEF Calm
  <2>2. TypeOK'
    BY <1>4, <2>1, ThreadTypes DEF Types, TypeOK
  <2> QED BY <1>4, <2>1, <2>2 DEF Types
<1>5. CASE Begin(k, i)
  <2> DEFINE u == [t EXCEPT !.pc = "test"]
  <2>1. /\ u \in Thread /\ (Lives(u) => Lives(t)) /\ u.do_run = t.do_run
    BY <1>1, <1>5 DEF Begin, Thread, Lives
  <2>2. Step(k, i, u) /\ UNCHANGED <<auto_all, target, typed, click, shown, last, used>>
    BY <1>5 DEF Begin
  <2>3. form' = IF k \in Wipers THEN [form EXCEPT ![t.req].wiped = TRUE] ELSE form
    BY <1>5 DEF Begin
  <2>4. form' \in [Requests -> Form] /\ \A r \in Requests : form'[r].button = form[r].button
    BY <1>2, <1>3, <2>3 DEF Form
  <2> HIDE DEF u
  <2>5. Calm /\ threads' \in [Kinds -> Seq(Thread)]
    BY <2>1, <2>2, <2>4, StepIsCalm
  <2> QED BY <1>3, <2>2, <2>4, <2>5 DEF Types, TypeOK
<1>6. CASE TestDoRun(k, i)
  <2> DEFINE u == IF t.do_run
                  THEN [t EXCEPT !.pc = "work", !.todo = IF k = "auto_all" THEN PlotOrder ELSE <<>>]
                  ELSE [t EXCEPT !.pc = "dead"]
  <2>1. (IF k = "auto_all" THEN PlotOrder ELSE <<>>) \in Seq(Plots)
    BY KindsAssumption, EmptySeq
  <2>2. /\ u \in Thread /\ (Lives(u) => Lives(t)) /\ u.do_run = t.do_run
    BY <1>1, <1>6, <2>1 DEF TestDoRun, Thread, Lives
  <2>3. Step(k, i, u) /\ UNCHANGED <<auto_all, target, form, typed, click, shown, last, used>>
    BY <1>6 DEF TestDoRun
  <2> HIDE DEF u
  <2>4. Calm /\ threads' \in [Kinds -> Seq(Thread)]
    BY <2>2, <2>3, StepIsCalm
  <2> QED BY <1>3, <2>3, <2>4 DEF Types, TypeOK
<1>7. CASE Finish(k, i)
  <2> DEFINE u == [t EXCEPT !.pc = IF k \in Plots THEN "dead" ELSE "test"]
  <2>1. /\ u \in Thread /\ (Lives(u) => Lives(t)) /\ u.do_run = t.do_run
    BY <1>1, <1>7 DEF Finish, Thread, Lives
  <2>2. Step(k, i, u) /\ UNCHANGED <<auto_all, target, form, typed, click, shown, last, used>>
    BY <1>7 DEF Finish
  <2> HIDE DEF u
  <2>3. Calm /\ threads' \in [Kinds -> Seq(Thread)]
    BY <2>1, <2>2, StepIsCalm
  <2> QED BY <1>3, <2>2, <2>3 DEF Types, TypeOK
<1>8. CASE Fail(k, i)
  <2> DEFINE u == [t EXCEPT !.pc = "dead", !.todo = <<>>]
  <2>1. /\ u \in Thread /\ (Lives(u) => Lives(t)) /\ u.do_run = t.do_run
    BY <1>1, <1>8, EmptySeq DEF Fail, Thread, Lives
  <2>2. Step(k, i, u) /\ UNCHANGED <<auto_all, target, form, typed, click, shown, last>>
    BY <1>8 DEF Fail
  <2>3. used' \in [clicks : 0..MaxClicks, failures : 0..MaxFailures]
    BY <1>8, ClickBoundAssumption DEF Fail, Types, TypeOK
  <2> HIDE DEF u
  <2>4. Calm /\ threads' \in [Kinds -> Seq(Thread)]
    BY <2>1, <2>2, StepIsCalm
  <2> QED BY <1>3, <2>2, <2>3, <2>4
<1>9. CASE PlotNext(k, i)
  <2> DEFINE p == Head(t.todo)
             u == [t EXCEPT !.todo = Tail(t.todo)]
             new == [NewThread(t.req) EXCEPT !.pc = "work", !.address = target']
  <2>1. p \in Plots /\ Tail(t.todo) \in Seq(Plots)
    BY <1>2, <1>9, HeadTailProperties DEF PlotNext
  <2>2. u \in Thread /\ u.pc = t.pc /\ u.do_run = t.do_run
    BY <1>1, <2>1 DEF Thread
  <2>3. target' \in Addresses
    BY <1>3, <1>9 DEF PlotNext, Form
  <2>4. new \in Thread
    BY <1>2, <2>3, NewThreadIs
  <2>5. UNCHANGED <<auto_all, form, typed, click, shown, last, used>>
    BY <1>9 DEF PlotNext
  <2>6. \/ Step(k, i, u)
        \/ threads' = [threads EXCEPT ![k][i] = u, ![p] = Started(p, new)]
    BY <1>9 DEF PlotNext, Step, Types
  <2> HIDE DEF u, new, p
  <2>7. CASE Step(k, i, u)
    <3>1. Calm /\ threads' \in [Kinds -> Seq(Thread)]
      BY <2>2, <2>5, <2>7, StepIsCalm DEF Lives
    <3> QED BY <1>3, <2>3, <2>5, <3>1 DEF Types, TypeOK
  <2>8. CASE threads' = [threads EXCEPT ![k][i] = u, ![p] = Started(p, new)]
    <3> DEFINE v == [threads[k] EXCEPT ![i] = u]
               w == Started(p, new)
    <3>1. p \in Kinds /\ p \notin Loops
      BY <2>1, Sorts
    <3>2. w \in Seq(Thread)
      BY <2>4, <3>1, StartedIs
    <3>3. threads[k] \in Seq(Thread) /\ i \in 1..Len(threads[k])
      BY ThreadsOf
    <3>4. /\ v \in Seq(Thread) /\ Len(v) = Len(threads[k])
          /\ \A j \in 1..Len(threads[k]) : v[j] = IF j = i THEN u ELSE threads[k][j]
      BY <2>2, <3>3, ExceptSeq
    <3>5. v # <<>> /\ threads[k] # <<>>
      BY <3>3, <3>4, EmptySeq
    <3>6. threads' = [[threads EXCEPT ![k] = v] EXCEPT ![p] = w]
      BY <2>8, <3>1 DEF Types
    <3> HIDE DEF v, w
    <3>7. /\ threads' \in [Kinds -> Seq(Thread)]
          /\ \A q \in Loops : threads'[q] = IF q = k THEN v ELSE threads[q]
      BY <3>1, <3>2, <3>4, <3>6, Sorts DEF Types
    <3>8. ASSUME NEW q \in Loops
          PROVE  /\ Len(threads'[q]) = Len(threads[q])
                 /\ (threads'[q] = <<>> <=> threads[q] = <<>>)
                 /\ \A j \in 1..Len(threads[q]) :
                      /\ Lives(threads'[q][j]) => Lives(threads[q][j])
                      /\ threads'[q][j].do_run = threads[q][j].do_run
      BY <2>2, <3>4, <3>5, <3>7 DEF Lives
    <3>9. Calm
      BY <2>5, <3>8 DEF Calm
    <3> QED BY <1>3, <2>3, <2>5, <3>7, <3>9 DEF Types, TypeOK
  <2> QED BY <2>6, <2>7, <2>8
<1> QED BY <1>5, <1>6, <1>7, <1>8, <1>9 DEF Run

-----------------------------------------------------------------------------
(* The types.                                                              *)

\* The types of the parts are those of the whole.
LEMMA TypesAre ==
  ASSUME threads' \in [Kinds -> Seq(Thread)], click' \in [Tabs -> Click],
         \A tab \in Tabs : click'[tab].stage = "start" => click'[tab].todo # <<>>,
         auto_all' \in BOOLEAN, target' \in Addresses,
         form' \in [Requests -> Form], typed' \in [Requests -> Addresses],
         shown' \in [Tabs -> [Loops -> BOOLEAN]],
         last' \in {"none", "start_all", "stop_all", "hand"},
         used' \in [clicks : 0..MaxClicks, failures : 0..MaxFailures]
  PROVE  Types'
<1>1. TypeOK'
  BY ThreadTypes DEF TypeOK
<1> QED BY <1>1 DEF Types

\* At the start there is no thread and no request.
LEMMA TypesInit == Init => Types
<1> SUFFICES ASSUME Init PROVE Types
  OBVIOUS
<1>1. threads \in [Kinds -> Seq(Thread)]
  BY EmptySeq DEF Init
<1>2. 0 \in 0..MaxClicks /\ 0 \in 0..MaxFailures
  BY ClickBoundAssumption
<1>3. NoClick \in Click /\ NoClick.stage # "start" /\ NoForm \in Form
  BY <1>2, EmptySeq, Sorts DEF NoClick, Click, NoForm, Form
<1>4. TypeOK
  BY <1>1, <1>2, <1>3, Sorts, ThreadTypes DEF Init, TypeOK, Requests
<1> QED BY <1>1, <1>3, <1>4 DEF Init, Types

\* The request that a click of the auto page makes.
LEMMA AutoRequest ==
  ASSUME Types, used.clicks < MaxClicks
  PROVE  used.clicks + 1 \in Requests
BY ClickBoundAssumption DEF Types, TypeOK, Requests

\* A worker or auto_plot is started for a request.
LEMMA StartIs ==
  ASSUME Types, NEW k \in Kinds, NEW t \in Thread,
         threads' = [threads EXCEPT ![k] = Started(k, t)]
  PROVE  /\ threads' \in [Kinds -> Seq(Thread)]
         /\ \A q \in Kinds : q # k => threads'[q] = threads[q]
         /\ threads'[k] # <<>> /\ Len(threads'[k]) \in Nat
         /\ threads'[k][Len(threads'[k])] = t
         /\ \A i \in 1..Len(threads'[k]) : i # Len(threads'[k]) =>
              /\ i \in 1..Len(threads[k]) /\ threads'[k][i] = threads[k][i]
              /\ i = Len(threads[k]) => Alive(k)
<1> DEFINE s == Started(k, t)
<1>1. /\ s \in Seq(Thread) /\ s # <<>> /\ Len(s) \in Nat /\ s[Len(s)] = t
      /\ \A i \in 1..Len(s) : i # Len(s) =>
           /\ i \in 1..Len(threads[k]) /\ s[i] = threads[k][i]
           /\ i = Len(threads[k]) => Alive(k)
  BY StartedIs
<1>2. threads' = [threads EXCEPT ![k] = s]
  OBVIOUS
<1> HIDE DEF s
<1>3. /\ threads' \in [Kinds -> Seq(Thread)] /\ threads'[k] = s
      /\ \A q \in Kinds : q # k => threads'[q] = threads[q]
  BY <1>1, <1>2, KindIs
<1> QED BY <1>1, <1>3

\* Every step keeps the types.
LEMMA TypesStep == Types /\ [Next]_vars => Types'
<1> SUFFICES ASSUME Types, [Next]_vars PROVE Types'
  OBVIOUS
<1>0. /\ threads \in [Kinds -> Seq(Thread)] /\ click \in [Tabs -> Click]
      /\ \A tab \in Tabs : click[tab].stage = "start" => click[tab].todo # <<>>
      /\ auto_all \in BOOLEAN /\ target \in Addresses
      /\ form \in [Requests -> Form] /\ typed \in [Requests -> Addresses]
      /\ shown \in [Tabs -> [Loops -> BOOLEAN]]
      /\ last \in {"none", "start_all", "stop_all", "hand"}
      /\ used \in [clicks : 0..MaxClicks, failures : 0..MaxFailures]
  BY DEF Types, TypeOK
<1>1. ASSUME NEW tab \in Tabs, NEW a \in Addresses, PressAuto(tab, a) PROVE Types'
  <2> DEFINE r == used.clicks + 1
             f == [button |-> IF shown[tab]["auto_all"] THEN "stop" ELSE "start",
                   address |-> a, wiped |-> FALSE]
  <2>1. r \in Requests /\ Press(tab, "check", AutoWorkers, r) /\ f \in Form
    BY <1>1, AutoRequest DEF PressAuto, Press, Form
  <2>2. /\ form' = [form EXCEPT ![r] = f] /\ typed' = [typed EXCEPT ![r] = a]
        /\ UNCHANGED <<threads, auto_all, target, shown>>
        /\ last' \in {"none", "start_all", "stop_all", "hand"}
    BY <1>1 DEF PressAuto
  <2> HIDE DEF r, f
  <2>3. form' \in [Requests -> Form] /\ typed' \in [Requests -> Addresses]
    BY <1>0, <2>1, <2>2
  <2>4. /\ click' \in [Tabs -> Click]
        /\ \A u \in Tabs : click'[u].stage = "start" => click'[u].todo # <<>>
        /\ used' \in [clicks : 0..MaxClicks, failures : 0..MaxFailures]
    BY <2>1, PressIs, KindsAssumption
  <2> QED BY <1>0, <2>2, <2>3, <2>4, TypesAre
<1>2. ASSUME NEW tab \in Tabs, Press(tab, "render", <<>>, 0), last' = "hand",
             threads' \in [Kinds -> Seq(Thread)], target' \in Addresses,
             UNCHANGED <<auto_all, form, typed, shown>>
      PROVE  Types'
  <2>1. <<>> \in Seq(Workers)
    BY EmptySeq
  <2>2. /\ click' \in [Tabs -> Click]
        /\ \A u \in Tabs : click'[u].stage = "start" => click'[u].todo # <<>>
        /\ used' \in [clicks : 0..MaxClicks, failures : 0..MaxFailures]
    BY <1>2, <2>1, PressIs, Sorts
  <2> QED BY <1>0, <1>2, <2>2, TypesAre
<1>3. ASSUME NEW tab \in Tabs, NEW k \in Workers, StartByHand(tab, k) PROVE Types'
  <2>1. threads' \in [Kinds -> Seq(Thread)]
    BY <1>3, StartIs, NewThreadIs, Sorts DEF StartByHand
  <2> QED BY <1>0, <1>2, <1>3, <2>1 DEF StartByHand
<1>4. ASSUME NEW tab \in Tabs, NEW k \in Workers, StopByHand(tab, k) PROVE Types'
  <2>1. k \in Kinds /\ Told(threads[k]) \in Seq(Thread)
    BY <1>0, ToldIs, Sorts
  <2>2. threads' = [threads EXCEPT ![k] = Told(threads[k])]
    BY <1>4 DEF StopByHand
  <2>3. threads' \in [Kinds -> Seq(Thread)]
    BY <2>1, <2>2, KindIs
  <2> QED BY <1>0, <1>2, <1>4, <2>3 DEF StopByHand
<1>5. ASSUME NEW tab \in Tabs, NEW p \in Plots, NEW a \in Addresses, PlotByHand(tab, p, a)
      PROVE  Types'
  <2> DEFINE new == [NewThread(0) EXCEPT !.pc = "work", !.address = target']
  <2>1. target' \in Addresses
    BY <1>0, <1>5 DEF PlotByHand
  <2>2. new \in Thread
    BY <2>1, NewThreadIs, Sorts
  <2>3. threads' = threads \/ threads' = [threads EXCEPT ![p] = Started(p, new)]
    BY <1>5 DEF PlotByHand
  <2> HIDE DEF new
  <2>4. threads' \in [Kinds -> Seq(Thread)]
    BY <1>0, <2>2, <2>3, StartIs, Sorts
  <2> QED BY <1>2, <1>5, <2>1, <2>4 DEF PlotByHand
<1>6. ASSUME NEW tab \in Tabs, CheckWorker(tab) PROVE Types'
  <2> DEFINE todo == click[tab].todo
             c == [click[tab] EXCEPT
                     !.todo = IF todo # <<>> /\ Alive(Head(todo)) THEN Tail(todo) ELSE todo,
                     !.stage = IF todo = <<>> THEN "branch"
                               ELSE IF Alive(Head(todo)) THEN "check" ELSE "start"]
  <2>1. c \in Click /\ (c.stage = "start" => c.todo # <<>>)
    BY RequestIs DEF Click
  <2>2. click' = [click EXCEPT ![tab] = c]
    BY <1>0, <1>6 DEF CheckWorker
  <2> HIDE DEF c
  <2>3. /\ click' \in [Tabs -> Click]
        /\ \A u \in Tabs : click'[u].stage = "start" => click'[u].todo # <<>>
    BY <2>1, <2>2, ClickIs
  <2> QED BY <1>0, <1>6, <2>3, TypesAre DEF CheckWorker
<1>7. ASSUME NEW tab \in Tabs, StartWorker(tab) PROVE Types'
  <2> DEFINE k == Head(click[tab].todo)
             c == [click[tab] EXCEPT !.todo = Tail(@), !.stage = "check"]
  <2>1. k \in Workers /\ c \in Click /\ c.stage = "check"
    BY <1>0, <1>7, RequestIs DEF Click, StartWorker
  <2>2. click' = [click EXCEPT ![tab] = c]
    BY <1>0, <1>7 DEF StartWorker
  <2>3. threads' = [threads EXCEPT ![k] = Started(k, NewThread(click[tab].req))]
    BY <1>7 DEF StartWorker
  <2> HIDE DEF c, k
  <2>4. /\ click' \in [Tabs -> Click]
        /\ \A u \in Tabs : click'[u].stage = "start" => click'[u].todo # <<>>
    BY <2>1, <2>2, ClickIs
  <2>5. threads' \in [Kinds -> Seq(Thread)]
    BY <2>1, <2>3, StartIs, NewThreadIs, RequestIs, Sorts
  <2> QED BY <1>0, <1>7, <2>4, <2>5, TypesAre DEF StartWorker
<1>8. ASSUME NEW tab \in Tabs, Branch(tab) PROVE Types'
  <2> DEFINE f == form[click[tab].req]
             stop == f.button = "stop" /\ ~f.wiped
             c == [click[tab] EXCEPT !.stage =
                     IF stop \/ Alive("auto_all") THEN "render" ELSE "launch"]
  <2>1. c \in Click /\ c.stage # "start"
    BY RequestIs DEF Click
  <2>2. click' = [click EXCEPT ![tab] = c]
    BY <1>0, <1>8 DEF Branch
  <2>3. threads' = threads \/ threads' = [k \in Kinds |-> Told(threads[k])]
    BY <1>8 DEF Branch
  <2>4. auto_all' \in BOOLEAN
    BY <1>0, <1>8 DEF Branch
  <2> HIDE DEF c
  <2>5. /\ click' \in [Tabs -> Click]
        /\ \A u \in Tabs : click'[u].stage = "start" => click'[u].todo # <<>>
    BY <2>1, <2>2, ClickIs
  <2>6. threads' \in [Kinds -> Seq(Thread)]
    BY <1>0, <2>3, ToldIs
  <2> QED BY <1>0, <1>8, <2>4, <2>5, <2>6, TypesAre DEF Branch
<1>9. ASSUME NEW tab \in Tabs, Launch(tab) PROVE Types'
  <2> DEFINE c == [click[tab] EXCEPT !.stage = "render"]
  <2>1. c \in Click /\ c.stage # "start"
    BY RequestIs DEF Click
  <2>2. click' = [click EXCEPT ![tab] = c]
    BY <1>0, <1>9 DEF Launch
  <2>3. threads' = [threads EXCEPT !["auto_all"] =
                      Started("auto_all", NewThread(click[tab].req))]
    BY <1>9 DEF Launch
  <2> HIDE DEF c
  <2>4. /\ click' \in [Tabs -> Click]
        /\ \A u \in Tabs : click'[u].stage = "start" => click'[u].todo # <<>>
    BY <2>1, <2>2, ClickIs
  <2>5. threads' \in [Kinds -> Seq(Thread)]
    BY <2>3, StartIs, NewThreadIs, RequestIs, Sorts
  <2> QED BY <1>0, <1>9, <2>4, <2>5, TypesAre DEF Launch
<1>10. ASSUME NEW tab \in Tabs, Render(tab) PROVE Types'
  <2>1. NoClick \in Click /\ NoClick.stage # "start"
    BY EmptySeq, Sorts DEF NoClick, Click
  <2>2. /\ click' \in [Tabs -> Click]
        /\ \A u \in Tabs : click'[u].stage = "start" => click'[u].todo # <<>>
    BY <1>10, <2>1, ClickIs DEF Render
  <2>3. Page \in [Loops -> BOOLEAN]
    BY <1>0 DEF Page, Alive
  <2>4. shown' \in [Tabs -> [Loops -> BOOLEAN]]
    BY <1>0, <1>10, <2>3 DEF Render
  <2> QED BY <1>0, <1>10, <2>2, <2>4, TypesAre DEF Render
<1>11. ASSUME NEW k \in Kinds, NEW i \in DOMAIN threads[k], Run(k, i) \/ Fail(k, i)
       PROVE  Types'
  BY <1>11, ThreadStep
<1>12. CASE UNCHANGED vars
  BY <1>0, <1>12, TypesAre DEF vars
<1> QED BY <1>1, <1>3, <1>4, <1>5, <1>6, <1>7, <1>8, <1>9, <1>10, <1>11, <1>12 DEF Next, Serve

\* The types of the thread control, whatever the kinds of thread, the tabs
\* and the clicks: a thread's plots are plots, a request's workers workers.
THEOREM WebControlTypes == Spec => []TypeOK
<1>1. Init => Types
  BY TypesInit
<1>2. Types /\ [Next]_vars => Types'
  BY TypesStep
<1>3. Types => TypeOK
  BY DEF Types
<1> QED BY <1>1, <1>2, <1>3, PTL DEF Spec

-----------------------------------------------------------------------------
(* One tab: nothing gets out of reach.                                     *)

\* With one tab every request is that of this tab.
LEMMA OnlyTab ==
  ASSUME OneTab, NEW tab \in Tabs
  PROVE  \A u \in Tabs : u = tab
BY DEF OneTab

\* A thread may be started where the last one is dead: no other would loop on.
LEMMA StartInReach ==
  ASSUME Types, RunningThreadIsInReach, NEW k \in Kinds, NEW t \in Thread,
         threads' = [threads EXCEPT ![k] = Started(k, t)], k \in Loops => ~Alive(k)
  PROVE  RunningThreadIsInReach'
<1>1. /\ threads' \in [Kinds -> Seq(Thread)]
      /\ \A q \in Kinds : q # k => threads'[q] = threads[q]
      /\ \A i \in 1..Len(threads'[k]) : i # Len(threads'[k]) =>
           /\ i \in 1..Len(threads[k]) /\ threads'[k][i] = threads[k][i]
           /\ i = Len(threads[k]) => Alive(k)
  BY StartIs
<1> SUFFICES ASSUME NEW q \in Loops, NEW i \in DOMAIN threads'[q],
                    Lives(threads'[q][i]), threads'[q][i].do_run
             PROVE  i = Len(threads'[q])
  BY DEF RunningThreadIsInReach
<1>2. CASE q # k
  BY <1>1, <1>2, Sorts DEF RunningThreadIsInReach
<1>3. CASE q = k
  <2>1. i \in 1..Len(threads'[k])
    BY <1>1, <1>3, LenProperties
  <2>2. DOMAIN threads[k] = 1..Len(threads[k])
    BY ThreadsOf
  <2> QED BY <1>1, <1>3, <2>1, <2>2, Zenon DEF RunningThreadIsInReach
<1> QED BY <1>2, <1>3

\* Whoever is told to end stays in reach.
LEMMA ToldInReach ==
  ASSUME Types, Types', RunningThreadIsInReach,
         \A k \in Loops : threads'[k] = threads[k] \/ threads'[k] = Told(threads[k])
  PROVE  RunningThreadIsInReach'
<1> SUFFICES ASSUME NEW q \in Loops, NEW i \in DOMAIN threads'[q],
                    Lives(threads'[q][i]), threads'[q][i].do_run
             PROVE  i = Len(threads'[q])
  BY DEF RunningThreadIsInReach
<1>1. CASE threads'[q] = threads[q]
  BY <1>1 DEF RunningThreadIsInReach
<1>2. CASE threads'[q] = Told(threads[q])
  <2>1. /\ q \in Kinds /\ threads[q] \in Seq(Thread) /\ threads'[q] \in Seq(Thread)
        /\ DOMAIN threads[q] = 1..Len(threads[q])
    BY Sorts, ThreadsOf DEF Types
  <2>2. /\ Len(threads'[q]) = Len(threads[q])
        /\ \A j \in 1..Len(threads[q]) :
             /\ threads'[q][j].pc = threads[q][j].pc
             /\ threads'[q][j].do_run => threads[q][j].do_run /\ j # Len(threads[q])
    BY <1>2, <2>1, ToldIs
  <2>3. i \in 1..Len(threads[q])
    BY <2>1, <2>2, LenProperties
  <2> QED BY <2>1, <2>2, <2>3 DEF RunningThreadIsInReach, Lives
<1> QED BY <1>1, <1>2

\* A calm step brings no thread of the kinds that loop to life.
LEMMA CalmAlive ==
  ASSUME Types, Types', Calm, NEW k \in Loops
  PROVE  Alive(k)' => Alive(k)
<1>1. k \in Kinds
  BY Sorts
<1>2. threads[k] # <<>> => Len(threads[k]) \in 1..Len(threads[k])
  BY <1>1, ThreadsOf
<1> QED BY <1>2 DEF Calm, Alive

\* A calm step leaves every thread within reach.
LEMMA CalmInReach ==
  ASSUME Types, Types', Calm, RunningThreadIsInReach
  PROVE  RunningThreadIsInReach'
<1> SUFFICES ASSUME NEW q \in Loops, NEW i \in DOMAIN threads'[q],
                    Lives(threads'[q][i]), threads'[q][i].do_run
             PROVE  i = Len(threads'[q])
  BY DEF RunningThreadIsInReach
<1>1. /\ q \in Kinds /\ threads'[q] \in Seq(Thread)
      /\ DOMAIN threads[q] = 1..Len(threads[q])
  BY Sorts, ThreadsOf DEF Types
<1>2. Len(threads'[q]) = Len(threads[q]) /\ i \in 1..Len(threads[q])
  BY <1>1, LenProperties DEF Calm
<1> QED BY <1>1, <1>2 DEF Calm, RunningThreadIsInReach

\* Every step of the thread control with one tab keeps its threads in reach.
LEMMA ReachStep ==
  ASSUME OneTab
  PROVE  ReachInv /\ [Next]_vars => ReachInv'
<1> SUFFICES ASSUME ReachInv, [Next]_vars PROVE ReachInv'
  OBVIOUS
<1>0. Types /\ Types' /\ RunningThreadIsInReach /\ StillDead
  BY TypesStep DEF ReachInv
<1> SUFFICES RunningThreadIsInReach' /\ StillDead'
  BY <1>0 DEF ReachInv
<1>1. ASSUME UNCHANGED threads PROVE RunningThreadIsInReach'
  BY <1>0, <1>1 DEF RunningThreadIsInReach
<1>2. ASSUME NEW tab \in Tabs, click'[tab].stage \notin {"idle", "start", "launch"}
      PROVE  StillDead'
  BY <1>2, OnlyTab DEF StillDead
<1>3. ASSUME NEW tab \in Tabs, NEW a \in Addresses, PressAuto(tab, a)
      PROVE  RunningThreadIsInReach' /\ StillDead'
  <2>1. click'[tab].stage = "check" /\ UNCHANGED threads
    BY <1>0, <1>3, AutoRequest, PressIs, KindsAssumption DEF PressAuto, Press
  <2> QED BY <1>1, <1>2, <2>1
<1>4. ASSUME NEW tab \in Tabs, Press(tab, "render", <<>>, 0)
      PROVE  StillDead' /\ click[tab].stage = "idle"
  <2>1. click'[tab].stage = "render" /\ click[tab].stage = "idle"
    BY <1>0, <1>4 DEF Press, Types
  <2> QED BY <1>2, <2>1
<1>5. ASSUME NEW tab \in Tabs, NEW k \in Workers, StartByHand(tab, k)
      PROVE  RunningThreadIsInReach' /\ StillDead'
  <2>1. StillDead' /\ click[tab].stage = "idle"
    BY <1>4, <1>5 DEF StartByHand
  <2>2. ~Alive(k)
    BY <1>0, <1>5, <2>1 DEF StartByHand, StillDead
  <2>3. RunningThreadIsInReach'
    BY <1>0, <1>5, <2>2, StartInReach, NewThreadIs, Sorts DEF StartByHand
  <2> QED BY <2>1, <2>3
<1>6. ASSUME NEW tab \in Tabs, NEW k \in Workers, StopByHand(tab, k)
      PROVE  RunningThreadIsInReach' /\ StillDead'
  <2>1. StillDead'
    BY <1>4, <1>6 DEF StopByHand
  <2>2. \A q \in Loops : threads'[q] = threads[q] \/ threads'[q] = Told(threads[q])
    BY <1>0, <1>6, Sorts DEF StopByHand, Types
  <2>3. RunningThreadIsInReach'
    BY <1>0, <2>2, ToldInReach
  <2> QED BY <2>1, <2>3
<1>7. ASSUME NEW tab \in Tabs, NEW p \in Plots, NEW a \in Addresses, PlotByHand(tab, p, a)
      PROVE  RunningThreadIsInReach' /\ StillDead'
  <2> DEFINE new == [NewThread(0) EXCEPT !.pc = "work", !.address = target']
  <2>1. StillDead'
    BY <1>4, <1>7 DEF PlotByHand
  <2>2. target' \in Addresses
    BY <1>0 DEF Types, TypeOK
  <2>3. new \in Thread
    BY <2>2, NewThreadIs, Sorts
  <2>4. threads' = threads \/ threads' = [threads EXCEPT ![p] = Started(p, new)]
    BY <1>7 DEF PlotByHand
  <2> HIDE DEF new
  <2>5. RunningThreadIsInReach'
    BY <1>0, <1>1, <2>3, <2>4, StartInReach, Sorts
  <2> QED BY <2>1, <2>5
<1>8. ASSUME NEW tab \in Tabs, CheckWorker(tab)
      PROVE  RunningThreadIsInReach' /\ StillDead'
  <2>1. UNCHANGED <<threads, shown>>
    BY <1>8 DEF CheckWorker
  <2>2. /\ click'[tab].stage \notin {"idle", "launch"}
        /\ click'[tab].stage = "start" => ~Alive(Head(click'[tab].todo))
    BY <1>0, <1>8, CheckIs
  <2>3. StillDead'
    BY <2>1, <2>2, OnlyTab DEF StillDead, Alive
  <2> QED BY <1>1, <2>1, <2>3
<1>9. ASSUME NEW tab \in Tabs, StartWorker(tab)
      PROVE  RunningThreadIsInReach' /\ StillDead'
  <2> DEFINE k == Head(click[tab].todo)
  <2>1. click[tab].stage = "start" /\ ~Alive(k)
    BY <1>0, <1>9 DEF StartWorker, StillDead
  <2>2. k \in Workers /\ NewThread(click[tab].req) \in Thread
    BY <1>0, <2>1, RequestIs, NewThreadIs DEF Types
  <2>3. threads' = [threads EXCEPT ![k] = Started(k, NewThread(click[tab].req))]
    BY <1>9 DEF StartWorker
  <2>4. click'[tab].stage = "check"
    BY <1>0, <1>9, RequestIs DEF StartWorker, Types, Click
  <2> HIDE DEF k
  <2>5. RunningThreadIsInReach'
    BY <1>0, <2>1, <2>2, <2>3, StartInReach, Sorts
  <2> QED BY <1>2, <2>4, <2>5
<1>10. ASSUME NEW tab \in Tabs, Branch(tab)
       PROVE  RunningThreadIsInReach' /\ StillDead'
  <2>1. threads' = threads \/ threads' = [q \in Kinds |-> Told(threads[q])]
    BY <1>10 DEF Branch
  <2>2. \A q \in Loops : threads'[q] = threads[q] \/ threads'[q] = Told(threads[q])
    BY <2>1, Sorts
  <2>3. RunningThreadIsInReach'
    BY <1>0, <2>2, ToldInReach
  <2>4. CASE click'[tab].stage = "render"
    BY <1>2, <2>3, <2>4
  <2>5. CASE click'[tab].stage # "render"
    <3>1. UNCHANGED threads /\ click'[tab].stage = "launch" /\ ~Alive("auto_all")
      BY <1>0, <1>10, <2>5, RequestIs DEF Branch, Types, Click
    <3>2. StillDead'
      BY <3>1, OnlyTab DEF StillDead, Alive
    <3> QED BY <2>3, <3>2
  <2> QED BY <2>4, <2>5
<1>11. ASSUME NEW tab \in Tabs, Launch(tab)
       PROVE  RunningThreadIsInReach' /\ StillDead'
  <2>1. ~Alive("auto_all") /\ NewThread(click[tab].req) \in Thread
    BY <1>0, <1>11, RequestIs, NewThreadIs DEF Launch, StillDead
  <2>2. RunningThreadIsInReach'
    BY <1>0, <1>11, <2>1, StartInReach, Sorts DEF Launch
  <2>3. click'[tab].stage = "render"
    BY <1>0, <1>11, RequestIs DEF Launch, Types, Click
  <2> QED BY <1>2, <2>2, <2>3
<1>12. ASSUME NEW tab \in Tabs, Render(tab)
       PROVE  RunningThreadIsInReach' /\ StillDead'
  <2>1. UNCHANGED threads /\ click'[tab] = NoClick /\ shown'[tab] = Page
    BY <1>0, <1>12 DEF Render, Types, TypeOK
  <2>2. \A k \in Workers : Page[k] = Alive(k)
    BY Sorts DEF Page
  <2>3. \A k \in Workers : shown'[tab][k] = Alive(k) /\ (Alive(k)' <=> Alive(k))
    BY <2>1, <2>2 DEF Alive
  <2>4. \A k \in Workers : ~shown'[tab][k] => ~Alive(k)'
    BY <2>3, Zenon
  <2>5. click'[tab].stage = "idle"
    BY <2>1 DEF NoClick
  <2>6. StillDead'
    BY <2>4, <2>5, OnlyTab DEF StillDead
  <2> QED BY <1>1, <2>1, <2>6
<1>13. ASSUME NEW k \in Kinds, NEW i \in DOMAIN threads[k], Run(k, i) \/ Fail(k, i)
       PROVE  RunningThreadIsInReach' /\ StillDead'
  <2>1. Calm
    BY <1>0, <1>13, ThreadStep
  <2>2. RunningThreadIsInReach'
    BY <1>0, <2>1, CalmInReach
  <2>3. UNCHANGED <<click, shown>> /\ \A q \in Loops : Alive(q)' => Alive(q)
    BY <1>0, <2>1, CalmAlive DEF Calm
  <2>4. \A tab \in Tabs : click[tab].stage = "start" => Head(click[tab].todo) \in Loops
    BY <1>0, RequestIs, Sorts DEF Types
  <2>5. StillDead'
    BY <1>0, <2>3, <2>4, Sorts DEF StillDead
  <2> QED BY <2>2, <2>5
<1>14. CASE UNCHANGED vars
  BY <1>0, <1>14 DEF vars, RunningThreadIsInReach, StillDead, Alive
<1> QED BY <1>3, <1>5, <1>6, <1>7, <1>8, <1>9, <1>10, <1>11, <1>12, <1>13, <1>14 DEF Next, Serve

\* With one browser tab no thread that would loop on gets out of reach: a
\* button, auto_main and the pages start one only where is_alive of the last
\* was FALSE, and nobody has come between the look and the start.
THEOREM ThreadsStayInReach ==
  ASSUME OneTab
  PROVE  Spec => []RunningThreadIsInReach
<1>1. Init => ReachInv
  <2> SUFFICES ASSUME Init PROVE ReachInv
    OBVIOUS
  <2>1. Types
    BY TypesInit
  <2>2. \A k \in Kinds : threads[k] = <<>>
    BY DEF Init
  <2>3. \A k \in Loops : k \in Kinds /\ DOMAIN threads[k] = {}
    BY <2>2, Sorts, EmptySeq, LenProperties
  <2>4. RunningThreadIsInReach
    BY <2>3 DEF RunningThreadIsInReach
  <2>5. \A tab \in Tabs : click[tab] = NoClick
    BY DEF Init
  <2>6. StillDead
    BY <2>2, <2>5, Sorts DEF StillDead, Alive, NoClick
  <2> QED BY <2>1, <2>4, <2>6 DEF ReachInv
<1>2. ReachInv /\ [Next]_vars => ReachInv'
  BY ReachStep
<1>3. ReachInv => RunningThreadIsInReach
  BY DEF ReachInv
<1> QED BY <1>1, <1>2, <1>3, PTL DEF Spec

-----------------------------------------------------------------------------
(* One tab and a patient user: "Auto Start" starts everything.             *)

\* A sequence that is not empty holds its head and what its tail holds.
LEMMA HeadOrTail ==
  ASSUME NEW S, NEW s \in Seq(S), s # <<>>
  PROVE  SetOf(s) \subseteq SetOf(Tail(s)) \cup {Head(s)}
<1> SUFFICES ASSUME NEW i \in DOMAIN s, s[i] # Head(s)
             PROVE  s[i] \in SetOf(Tail(s))
  BY DEF SetOf
<1>1. /\ Len(s) \in Nat /\ i \in 1..Len(s) /\ Head(s) = s[1]
      /\ Tail(s) \in Seq(S) /\ Len(Tail(s)) = Len(s) - 1
      /\ \A j \in 1..Len(Tail(s)) : Tail(s)[j] = s[j + 1]
  BY HeadTailProperties, LenProperties
<1>2. i - 1 \in 1..Len(Tail(s)) /\ Tail(s)[i - 1] = s[i]
  BY <1>1
<1>3. i - 1 \in DOMAIN Tail(s)
  BY <1>1, <1>2, LenProperties
<1> QED BY <1>2, <1>3 DEF SetOf

\* All that auto_main starts loops on.
LEMMA AllLoop == SetOf(AutoWorkers) \subseteq Workers /\ SetOf(AutoWorkers) \cup {"auto_all"} \subseteq Loops
BY DEF Workers, Loops

\* Started threads are willing to go on.
LEMMA StartIsWilling ==
  ASSUME Types, Willing, NEW k \in Kinds, NEW r \in Requests,
         threads' = [threads EXCEPT ![k] = Started(k, NewThread(r))]
  PROVE  /\ Willing' /\ threads'[k] # <<>>
         /\ \A q \in Kinds : threads[q] # <<>> => threads'[q] # <<>>
<1>1. NewThread(r) \in Thread /\ NewThread(r).do_run
  BY NewThreadIs
<1>2. /\ threads' \in [Kinds -> Seq(Thread)]
      /\ \A q \in Kinds : q # k => threads'[q] = threads[q]
      /\ threads'[k] # <<>> /\ threads'[k][Len(threads'[k])] = NewThread(r)
      /\ \A i \in 1..Len(threads'[k]) : i # Len(threads'[k]) =>
           i \in 1..Len(threads[k]) /\ threads'[k][i] = threads[k][i]
  <2> DEFINE t == NewThread(r)
  <2>1. t \in Thread /\ threads' = [threads EXCEPT ![k] = Started(k, t)]
    BY <1>1
  <2> HIDE DEF t
  <2>2. /\ threads' \in [Kinds -> Seq(Thread)]
        /\ \A q \in Kinds : q # k => threads'[q] = threads[q]
        /\ threads'[k] # <<>> /\ threads'[k][Len(threads'[k])] = t
        /\ \A i \in 1..Len(threads'[k]) : i # Len(threads'[k]) =>
             i \in 1..Len(threads[k]) /\ threads'[k][i] = threads[k][i]
    <3>1. /\ threads' \in [Kinds -> Seq(Thread)]
          /\ \A q \in Kinds : q # k => threads'[q] = threads[q]
          /\ threads'[k] # <<>> /\ threads'[k][Len(threads'[k])] = t
      BY <2>1, StartIs
    <3>2. \A i \in 1..Len(threads'[k]) : i # Len(threads'[k]) =>
            i \in 1..Len(threads[k]) /\ threads'[k][i] = threads[k][i]
      <4>1. \A i \in 1..Len(threads'[k]) : i # Len(threads'[k]) =>
              /\ i \in 1..Len(threads[k]) /\ threads'[k][i] = threads[k][i]
              /\ i = Len(threads[k]) => Alive(k)
        BY <2>1, StartIs, Zenon
      <4> QED BY <4>1, Zenon
    <3> QED BY <3>1, <3>2
  <2> QED BY <2>2 DEF t
<1>3. ASSUME NEW q \in Loops, NEW i \in DOMAIN threads'[q], Lives(threads'[q][i])
      PROVE  threads'[q][i].do_run
  <2>1. CASE q # k
    BY <1>2, <1>3, <2>1, Sorts DEF Willing
  <2>2. CASE q = k
    <3>1. i \in 1..Len(threads'[k]) /\ DOMAIN threads[k] = 1..Len(threads[k])
      BY <1>2, <2>2, LenProperties, ThreadsOf
    <3>2. CASE i = Len(threads'[k])
      BY <1>1, <1>2, <2>2, <3>2
    <3>3. CASE i # Len(threads'[k])
      <4>1. i \in DOMAIN threads[q] /\ threads'[q][i] = threads[q][i]
        BY <1>2, <2>2, <3>1, <3>3
      <4> QED BY <1>3, <4>1 DEF Willing
    <3> QED BY <3>2, <3>3
  <2> QED BY <2>1, <2>2
<1> QED BY <1>2, <1>3 DEF Willing

\* With one tab the start of all is a matter of its one request.
LEMMA StartsOfOneTab ==
  ASSUME OneTab, NEW tab \in Tabs,
         last' = "start_all" =>
           /\ Willing' /\ \A k \in Gone(tab)' : threads'[k] # <<>>
           /\ click'[tab].stage \in {"check", "start", "branch"} =>
                form'[click'[tab].req].button = "start"
  PROVE  Starts'
<1> SUFFICES ASSUME last' = "start_all" PROVE Starts'
  BY DEF Starts
<1>1. ASSUME NEW u \in Tabs
      PROVE  /\ \A k \in Gone(u)' : threads'[k] # <<>>
             /\ click'[u].stage \in {"check", "start", "branch"} =>
                  form'[click'[u].req].button = "start"
  BY OnlyTab
<1> QED BY <1>1 DEF Starts

\* Every step of the thread control with one tab and a patient user keeps
\* what a start of all has done.
LEMMA StartStep ==
  ASSUME OneTab, Patient
  PROVE  StartInv /\ [Next]_vars => StartInv'
<1> SUFFICES ASSUME StartInv, [Next]_vars PROVE StartInv'
  OBVIOUS
<1>0. Types /\ Types' /\ Starts
  BY TypesStep DEF StartInv
<1> SUFFICES Starts'
  BY <1>0 DEF StartInv
<1>1. ASSUME last' = "hand" PROVE Starts'
  BY <1>1 DEF Starts
<1>2. ASSUME NEW tab \in Tabs, NEW a \in Addresses, PressAuto(tab, a) PROVE Starts'
  <2> DEFINE r == used.clicks + 1
  <2> SUFFICES ASSUME last' = "start_all"
               PROVE  /\ Willing' /\ \A k \in Gone(tab)' : threads'[k] # <<>>
                      /\ form'[click'[tab].req].button = "start"
    BY StartsOfOneTab
  <2>1. ~shown[tab]["auto_all"]
    BY <1>2 DEF PressAuto
  <2>2. Willing /\ UNCHANGED threads
    BY <1>2, <2>1 DEF PressAuto, Willing
  <2>3. r \in Requests
    BY <1>0, <1>2, AutoRequest DEF PressAuto, Press
  <2>4. /\ click'[tab].stage = "check" /\ click'[tab].todo = AutoWorkers
        /\ click'[tab].req = r
    BY <1>0, <1>2 DEF PressAuto, Press, Types
  <2>5. form'[r].button = "start"
    BY <1>0, <1>2, <2>1, <2>3 DEF PressAuto, Types, TypeOK
  <2>6. Willing'
    BY <2>2 DEF Willing
  <2>7. Gone(tab)' = {}
    BY <2>4 DEF Gone
  <2> QED BY <2>4, <2>5, <2>6, <2>7
<1>3. ASSUME NEW tab \in Tabs, CheckWorker(tab) PROVE Starts'
  <2> DEFINE todo == click[tab].todo
  <2> SUFFICES ASSUME last' = "start_all"
               PROVE  /\ Willing' /\ \A k \in Gone(tab)' : threads'[k] # <<>>
                      /\ form'[click'[tab].req].button = "start"
    BY StartsOfOneTab
  <2>1. UNCHANGED <<threads, form, last>> /\ click[tab].stage = "check"
    BY <1>3 DEF CheckWorker
  <2>2. /\ Willing /\ form[click[tab].req].button = "start"
        /\ \A k \in Gone(tab) : threads[k] # <<>>
    BY <1>0, <2>1 DEF Starts
  <2>3. Gone(tab) = SetOf(AutoWorkers) \ SetOf(todo)
    BY <2>1 DEF Gone
  <2>4. /\ click'[tab].req = click[tab].req
        /\ click'[tab].todo = IF todo # <<>> /\ Alive(Head(todo)) THEN Tail(todo) ELSE todo
        /\ click'[tab].stage = IF todo = <<>> THEN "branch"
                               ELSE IF Alive(Head(todo)) THEN "check" ELSE "start"
    BY <1>0, <1>3, CheckIs
  <2>5. \A k \in Gone(tab)' : k \in Gone(tab) \/ (todo # <<>> /\ Alive(Head(todo)) /\ k = Head(todo))
    <3>1. CASE todo = <<>>
      <4>1. SetOf(todo) = {}
        BY <3>1, EmptySeq, LenProperties DEF SetOf
      <4> QED BY <2>3, <2>4, <3>1, <4>1 DEF Gone
    <3>2. CASE todo # <<>> /\ ~Alive(Head(todo))
      BY <2>3, <2>4, <3>2 DEF Gone
    <3>3. CASE todo # <<>> /\ Alive(Head(todo))
      <4>1. SetOf(todo) \subseteq SetOf(Tail(todo)) \cup {Head(todo)}
        BY <1>0, <3>3, RequestIs, HeadOrTail
      <4>2. Gone(tab)' = SetOf(AutoWorkers) \ SetOf(Tail(todo))
        BY <2>4, <3>3 DEF Gone
      <4> QED BY <2>3, <3>3, <4>1, <4>2
    <3> QED BY <3>1, <3>2, <3>3
  <2>6. Willing'
    BY <2>1, <2>2 DEF Willing
  <2> QED BY <2>1, <2>2, <2>4, <2>5, <2>6 DEF Alive
<1>4. ASSUME NEW tab \in Tabs, StartWorker(tab) PROVE Starts'
  <2> DEFINE todo == click[tab].todo
             h == Head(todo)
             r == click[tab].req
  <2> SUFFICES ASSUME last' = "start_all"
               PROVE  /\ Willing' /\ \A k \in Gone(tab)' : threads'[k] # <<>>
                      /\ form'[click'[tab].req].button = "start"
    BY StartsOfOneTab
  <2>1. UNCHANGED <<form, last>> /\ click[tab].stage = "start"
    BY <1>4 DEF StartWorker
  <2>2. /\ Willing /\ form[click[tab].req].button = "start"
        /\ \A k \in Gone(tab) : threads[k] # <<>>
    BY <1>0, <2>1 DEF Starts
  <2>3. /\ click'[tab].req = click[tab].req /\ click'[tab].todo = Tail(todo)
        /\ click'[tab].stage = "check"
    BY <1>0, <1>4, RequestIs DEF StartWorker, Types, Click
  <2>4. todo \in Seq(Workers) /\ todo # <<>> /\ h \in Kinds /\ r \in Requests
    BY <1>0, <2>1, RequestIs, Sorts DEF Types
  <2>5. threads' = [threads EXCEPT ![h] = Started(h, NewThread(r))]
    BY <1>4 DEF StartWorker
  <2>6. SetOf(todo) \subseteq SetOf(Tail(todo)) \cup {h}
    BY <2>4, HeadOrTail
  <2>7. \A k \in Gone(tab)' : k \in Kinds /\ (k \in Gone(tab) \/ k = h)
    BY <2>1, <2>3, <2>6, AllLoop, Sorts DEF Gone
  <2> HIDE DEF h, r
  <2>8. /\ Willing' /\ threads'[h] # <<>>
        /\ \A q \in Kinds : threads[q] # <<>> => threads'[q] # <<>>
    BY <1>0, <2>2, <2>4, <2>5, StartIsWilling
  <2> QED BY <2>1, <2>2, <2>3, <2>7, <2>8
<1>5. ASSUME NEW tab \in Tabs, Branch(tab) PROVE Starts'
  <2> SUFFICES ASSUME last' = "start_all"
               PROVE  /\ Willing' /\ \A k \in Gone(tab)' : threads'[k] # <<>>
                      /\ click'[tab].stage \notin {"check", "start", "branch"}
    BY StartsOfOneTab
  <2>1. UNCHANGED <<form, last>> /\ click[tab].stage = "branch"
    BY <1>5 DEF Branch
  <2>2. /\ Willing /\ form[click[tab].req].button = "start"
        /\ \A k \in Gone(tab) : threads[k] # <<>>
    BY <1>0, <2>1 DEF Starts
  <2>3. /\ threads' = threads
        /\ click'[tab].stage = IF Alive("auto_all") THEN "render" ELSE "launch"
    BY <1>0, <1>5, <2>2, RequestIs DEF Branch, Types, Click
  <2>4. Gone(tab) = SetOf(AutoWorkers)
    BY <2>1 DEF Gone
  <2>5. \A k \in Gone(tab)' : k \in Gone(tab) \/ (k = "auto_all" /\ Alive("auto_all"))
    BY <2>3, <2>4 DEF Gone
  <2>6. Willing'
    BY <2>2, <2>3 DEF Willing
  <2> QED BY <2>2, <2>3, <2>5, <2>6 DEF Alive
<1>6. ASSUME NEW tab \in Tabs, Launch(tab) PROVE Starts'
  <2> SUFFICES ASSUME last' = "start_all"
               PROVE  /\ Willing' /\ \A k \in Gone(tab)' : threads'[k] # <<>>
                      /\ click'[tab].stage \notin {"check", "start", "branch"}
    BY StartsOfOneTab
  <2>1. UNCHANGED <<form, last>> /\ click[tab].stage = "launch"
    BY <1>6 DEF Launch
  <2>2. Willing /\ \A k \in Gone(tab) : threads[k] # <<>>
    BY <1>0, <2>1 DEF Starts
  <2>3. click'[tab].stage = "render"
    BY <1>0, <1>6, RequestIs DEF Launch, Types, Click
  <2>4. \A k \in Gone(tab)' : k \in Kinds /\ (k \in Gone(tab) \/ k = "auto_all")
    BY <2>1, <2>3, AllLoop, Sorts DEF Gone
  <2>5. /\ Willing' /\ threads'["auto_all"] # <<>>
        /\ \A q \in Kinds : threads[q] # <<>> => threads'[q] # <<>>
    BY <1>0, <1>6, <2>2, RequestIs, StartIsWilling, Sorts DEF Launch
  <2> QED BY <2>2, <2>3, <2>4, <2>5
<1>7. ASSUME NEW tab \in Tabs, Render(tab) PROVE Starts'
  <2> SUFFICES ASSUME last' = "start_all"
               PROVE  /\ Willing' /\ \A k \in Gone(tab)' : threads'[k] # <<>>
                      /\ click'[tab].stage \notin {"check", "start", "branch"}
    BY StartsOfOneTab
  <2>1. /\ UNCHANGED <<threads, last>> /\ click[tab].stage \in {"idle", "render"}
        /\ click'[tab].stage = "idle"
    BY <1>0, <1>7 DEF Render, Types, NoClick
  <2>2. Willing /\ \A k \in Gone(tab) : threads[k] # <<>>
    BY <1>0, <2>1 DEF Starts
  <2>3. Gone(tab)' = Gone(tab)
    BY <2>1 DEF Gone
  <2>4. Willing'
    BY <2>1, <2>2 DEF Willing
  <2> QED BY <2>1, <2>2, <2>3, <2>4
<1>8. ASSUME NEW k \in Kinds, NEW i \in DOMAIN threads[k], Run(k, i) \/ Fail(k, i)
      PROVE  Starts'
  <2>1. Calm
    BY <1>0, <1>8, ThreadStep
  <2>2. SUFFICES ASSUME last = "start_all", Willing PROVE Willing'
    <3>1. \A tab \in Tabs : /\ Gone(tab) \subseteq Loops /\ Gone(tab)' = Gone(tab)
                            /\ form'[click[tab].req].button = form[click[tab].req].button
      BY <1>0, <2>1, AllLoop, RequestIs DEF Calm, Gone
    <3> QED BY <1>0, <2>1, <2>2, <3>1 DEF Calm, Starts
  <2>3. SUFFICES ASSUME NEW q \in Loops, NEW j \in DOMAIN threads'[q], Lives(threads'[q][j])
                 PROVE  threads'[q][j].do_run
    BY DEF Willing
  <2>4. /\ q \in Kinds /\ threads'[q] \in Seq(Thread)
        /\ DOMAIN threads[q] = 1..Len(threads[q])
    BY <1>0, Sorts, ThreadsOf DEF Types
  <2>5. j \in 1..Len(threads[q])
    BY <2>1, <2>4, LenProperties DEF Calm
  <2>6. Lives(threads[q][j]) /\ threads'[q][j].do_run = threads[q][j].do_run
    BY <2>1, <2>3, <2>5 DEF Calm
  <2>7. threads[q][j].do_run
    BY <2>2, <2>4, <2>5, <2>6 DEF Willing
  <2> QED BY <2>6, <2>7
<1>9. CASE UNCHANGED vars
  BY <1>0, <1>9 DEF vars, Starts, Willing, Gone
<1> QED
  BY <1>1, <1>2, <1>3, <1>4, <1>5, <1>6, <1>7, <1>8, <1>9
  DEF Next, Serve, StartByHand, StopByHand, PlotByHand

\* With one tab and a user who lets what is ending end, "Auto Start" starts
\* every database update and the plots; one that has ended since has met an
\* exception, for none was told to end.
THEOREM StartAllRunsAll ==
  ASSUME OneTab, Patient
  PROVE  Spec => []StartRunsAll
<1>1. Init => StartInv
  BY TypesInit DEF Init, StartInv, Starts
<1>2. StartInv /\ [Next]_vars => StartInv'
  BY StartStep
<1>3. StartInv => StartRunsAll
  <2> SUFFICES ASSUME StartInv, last = "start_all", Idle,
                      NEW k \in SetOf(AutoWorkers) \cup {"auto_all"}
               PROVE  threads[k] # <<>> /\ (Alive(k) => threads[k][Len(threads[k])].do_run)
    BY DEF StartRunsAll
  <2>1. PICK tab \in Tabs : Tabs = {tab}
    BY DEF OneTab
  <2>2. k \in Gone(tab) /\ Willing
    BY DEF Idle, Gone, StartInv, Starts
  <2>3. threads[k] # <<>> /\ k \in Loops /\ k \in Kinds
    BY <2>2, AllLoop, Sorts DEF StartInv, Starts
  <2>4. Len(threads[k]) \in DOMAIN threads[k]
    BY <2>3, ThreadsOf DEF StartInv
  <2> QED BY <2>2, <2>3, <2>4 DEF Willing, Alive
<1> QED BY <1>1, <1>2, <1>3, PTL DEF Spec

=============================================================================
