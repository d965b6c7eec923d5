-------------------------- MODULE DebtMonitorProofs --------------------------
(***************************************************************************)
(* The charts of the debtmonitor app. First, what the replay of an         *)
(* address's rows knows and does not know of its debt, for any tokens, any *)
(* amounts and any number of actions (DebtAccount). Then what a chart      *)
(* shows, for any addresses, any crawl and any number of threads and       *)
(* requests: a thread that was alone has drawn all of its address,         *)
(* although nothing it reads is read under a lock (HealthChart).           *)
(***************************************************************************)
EXTENDS DebtAccount, HealthChart, TLAPS

(***************************************************************************)
(* DebtAccount: the inductive invariant. Its parts take an entry of the    *)
(* dictionaries (e), the pool's account (l) and what was repaid (r) as     *)
(* parameters.                                                             *)
(***************************************************************************)
\* The debts match, the variable one is at least the pool's, and a stable debt
\* that is None is no debt: so a liquidation's cover, which is at most what is
\* owed, is there to be taken, and all of the variable debt in the dictionaries
\* is taken only when all of the pool's is.
Matches(e, l, r) ==
  /\ e.variable + e.stable = l.variable + l.stable + r
  /\ l.variable <= e.variable
  /\ ~e.dated => e.stable = 0

\* The collateral matches and is counted, and the pool uses what there is.
Backs(e, l, byHand) ==
  /\ e.collateral = l.collateral /\ e.able
  /\ e.collateral > 0 => e.listed
  /\ ~byHand => (l.able <=> l.collateral > 0)

Debts == ~raised => \A t \in Tokens : Matches(book[t], ledger[t], repaid[t])
Collaterals ==
  ~raised /\ used.transfers = 0 => \A t \in Tokens : Backs(book[t], ledger[t], t \in switched)

DebtInv == DebtTypeOK /\ Debts /\ Collaterals /\ RaisesOnlyAtTheBottom

-----------------------------------------------------------------------------
(* Entries and accounts.                                                   *)

LEMMA EntryTypes ==
  ASSUME NEW e \in Entry, NEW a \in Nat, NEW mode, NEW below
  PROVE  /\ Deposited(e, a) \in Entry
         /\ ~TakesTooMuch(e, a, below) => Withdrawn(e, a) \in Entry
         /\ Borrowed(e, a, mode) \in Entry
         /\ ~RepaysTooMuch(e, a, mode, below) => RepaidBy(e, a, mode) \in Entry
<1>0. /\ e.collateral \in Nat /\ e.able \in BOOLEAN /\ e.listed \in BOOLEAN
      /\ e.variable \in Nat /\ e.stable \in Nat /\ e.dated \in BOOLEAN
  BY DEF Entry
<1>1. Deposited(e, a) \in Entry
  <2>1. (e.able \/ e.collateral = 0) \in BOOLEAN
    OBVIOUS
  <2>2. e.collateral + a \in Nat
    BY <1>0
  <2> QED BY <2>1, <2>2 DEF Entry, Deposited
<1>2. ~TakesTooMuch(e, a, below) => Withdrawn(e, a) \in Entry
  BY <1>0 DEF Entry, TakesTooMuch, Short, Withdrawn
<1>3. Borrowed(e, a, mode) \in Entry
  <2>1. e.stable + a \in Nat /\ e.variable + a \in Nat
    BY <1>0
  <2> QED BY <2>1 DEF Entry, Borrowed
<1>4. ASSUME ~RepaysTooMuch(e, a, mode, below) PROVE RepaidBy(e, a, mode) \in Entry
  <2>1. CASE mode = "1" /\ e.dated
    <3>1. e.stable - a \in Nat
      BY <1>0, <1>4, <2>1 DEF RepaysTooMuch, Short
    <3>2. RepaidBy(e, a, mode) = [e EXCEPT !.stable = @ - a]
      BY <2>1 DEF RepaidBy
    <3> QED BY <3>1, <3>2 DEF Entry
  <2>2. CASE mode = "2"
    <3>1. e.variable - a \in Nat
      BY <1>0, <1>4, <2>2 DEF RepaysTooMuch, Short
    <3>2. RepaidBy(e, a, mode) = [e EXCEPT !.variable = @ - a]
      BY <2>2 DEF RepaidBy
    <3> QED BY <3>1, <3>2 DEF Entry
  <2>3. CASE ~(mode = "1" /\ e.dated) /\ mode # "2"
    BY <2>3 DEF RepaidBy
  <2> QED BY <2>1, <2>2, <2>3
<1> QED BY <1>1, <1>2, <1>3, <1>4

\* A repayment of either mode takes what it says, one of another mode nothing.
LEMMA Repayment ==
  ASSUME NEW e \in Entry, NEW a \in Nat, NEW mode
  PROVE  LET f == RepaidBy(e, a, mode)
         IN /\ f.collateral = e.collateral /\ f.able = e.able /\ f.listed = e.listed
            /\ f.dated = e.dated
            /\ f.variable = IF mode = "2" THEN e.variable - a ELSE e.variable
            /\ f.stable = IF mode = "1" /\ e.dated THEN e.stable - a ELSE e.stable
BY DEF Entry, RepaidBy

\* A liquidation's cover is split into two amounts.
LEMMA CoverSplit ==
  ASSUME NEW e \in Entry, NEW cover \in Nat
  PROVE  LET c == Cover(e, cover)
         IN /\ c.variable \in Nat /\ c.stable \in Nat
            /\ c.variable + c.stable = cover /\ c.variable <= e.variable
            /\ c.stable > 0 => c.variable = e.variable
            /\ cover < e.variable => c.variable = cover /\ c.stable = 0
            /\ c.variable = IF cover < e.variable THEN cover ELSE e.variable
BY DEF Entry, Cover

\* When at least the cover is owed, all of it is taken, and neither debt raises
\* as long as there is more of the variable one.
LEMMA CoverTaken ==
  ASSUME NEW e \in Entry, NEW cover \in Nat,
         cover <= e.variable + e.stable, ~e.dated => e.stable = 0
  PROVE  LET c == Cover(e, cover)
             f == Covered(e, c)
         IN /\ 0 < cover /\ cover < e.variable => \A below : ~CoversTooMuch(e, c, below)
            /\ f \in Entry
            /\ f.variable + f.stable = e.variable + e.stable - cover
            /\ f.variable = IF cover < e.variable THEN e.variable - cover ELSE 0
            /\ f.collateral = e.collateral /\ f.able = e.able /\ f.listed = e.listed
            /\ ~f.dated => f.stable = 0
<1> DEFINE c == Cover(e, cover)
           v == RepaidBy(e, c.variable, "2")
<1>1. /\ c.variable \in Nat /\ c.stable \in Nat /\ c.variable + c.stable = cover
      /\ c.variable <= e.variable /\ (c.stable > 0 => c.variable = e.variable)
  BY CoverSplit
<1>2. e.variable \in Nat /\ e.stable \in Nat /\ e.dated \in BOOLEAN
  BY DEF Entry
<1>3. c.stable <= e.stable /\ (c.stable > 0 => e.dated)
  BY <1>1, <1>2
<1>4. 0 < cover /\ cover < e.variable => \A below : ~CoversTooMuch(e, c, below)
  <2> SUFFICES ASSUME 0 < cover, cover < e.variable, NEW below
               PROVE  ~CoversTooMuch(e, c, below)
    OBVIOUS
  <2>1. c.variable = cover /\ c.stable = 0
    BY <1>2, CoverSplit
  <2> HIDE DEF c
  <2> QED BY <1>2, <2>1 DEF CoversTooMuch, RepaysTooMuch, Short
<1>9. c.variable = IF cover < e.variable THEN cover ELSE e.variable
  BY CoverSplit
<1> HIDE DEF c
<1>6. /\ v.collateral = e.collateral /\ v.able = e.able /\ v.listed = e.listed
      /\ v.dated = e.dated /\ v.stable = e.stable /\ v.variable = e.variable - c.variable
  BY <1>1, Repayment
<1>5. v \in Entry
  <2>1. e.variable - c.variable \in Nat
    BY <1>1, <1>2
  <2> QED BY <2>1 DEF Entry, RepaidBy
<1>7. CASE c.stable > 0
  <2> DEFINE f == RepaidBy(v, c.stable, "1")
  <2> HIDE DEF v
  <2>3. /\ f.collateral = v.collateral /\ f.able = v.able /\ f.listed = v.listed
        /\ f.dated = v.dated /\ f.variable = v.variable /\ f.stable = v.stable - c.stable
    BY <1>1, <1>3, <1>5, <1>6, <1>7, Repayment
  <2>2. f \in Entry
    <3>1. v.stable - c.stable \in Nat /\ v.dated
      BY <1>1, <1>2, <1>3, <1>6, <1>7
    <3> QED BY <1>5, <3>1 DEF Entry, RepaidBy
  <2>4. Covered(e, c) = f
    BY <1>7 DEF Covered, v
  <2> HIDE DEF f
  <2>5. /\ f.variable + f.stable = e.variable + e.stable - cover
        /\ f.variable = IF cover < e.variable THEN e.variable - cover ELSE 0
    BY <1>1, <1>2, <1>3, <1>6, <1>7, <1>9, <2>3
  <2>6. f.collateral = e.collateral /\ f.able = e.able /\ f.listed = e.listed /\ f.dated
    BY <1>3, <1>6, <1>7, <2>3
  <2> QED BY <1>4, <2>2, <2>4, <2>5, <2>6 DEF c
<1>8. CASE c.stable = 0
  <2>1. Covered(e, c) = v
    BY <1>8 DEF Covered
  <2> HIDE DEF v
  <2>2. /\ v.variable + v.stable = e.variable + e.stable - cover
        /\ v.variable = IF cover < e.variable THEN e.variable - cover ELSE 0
    BY <1>1, <1>2, <1>6, <1>8, <1>9
  <2> QED BY <1>4, <1>5, <1>6, <2>1, <2>2 DEF c
<1> QED BY <1>1, <1>7, <1>8

-----------------------------------------------------------------------------
(* Steps.                                                                  *)

LEMMA InitInv ==
  ASSUME DebtInit
  PROVE  DebtInv
<1>1. DebtTypeOK
  BY DEF DebtInit, DebtTypeOK, Account, Entry, NoAccount, NoEntry
<1>0. ASSUME NEW t \in Tokens
      PROVE  book[t] = NoEntry /\ ledger[t] = NoAccount /\ repaid[t] = 0
  BY DEF DebtInit
<1>2. Debts
  <2>1. Matches(NoEntry, NoAccount, 0)
    BY DEF Matches, NoAccount, NoEntry
  <2> QED BY <1>0, <2>1 DEF Debts
<1>3. Collaterals
  <2>1. \A t \in Tokens : Backs(NoEntry, NoAccount, t \in switched)
    BY DEF Backs, NoAccount, NoEntry
  <2> QED BY <1>0, <2>1 DEF Collaterals
<1>4. RaisesOnlyAtTheBottom
  BY DEF DebtInit, RaisesOnlyAtTheBottom
<1> QED BY <1>1, <1>2, <1>3, <1>4 DEF DebtInv

\* A step that changes one token's account to l, what was repaid to r and,
\* unless an assertion raises, the token's entry to e.
LEMMA OneToken ==
  ASSUME DebtInv, NEW t \in Tokens, NEW e, NEW l \in Account, NEW r \in Nat, NEW raises \in BOOLEAN,
         ledger' = [ledger EXCEPT ![t] = l], repaid' = [repaid EXCEPT ![t] = r],
         raised' = (raised \/ raises),
         book' = IF raised \/ raises THEN book ELSE [book EXCEPT ![t] = e],
         used' \in [logs: Nat, transfers: Nat], used.transfers > 0 => used'.transfers > 0,
         swapped' \in BOOLEAN, swapped => swapped',
         emptied' \in BOOLEAN, emptied => emptied',
         switched' \subseteq Tokens, switched \subseteq switched',
         raises /\ ~raised => swapped' \/ emptied' \/ used'.transfers > 0,
         ~raised /\ ~raises => e \in Entry /\ Matches(e, l, r),
         ~raised /\ ~raises /\ used'.transfers = 0 => Backs(e, l, t \in switched')
  PROVE  DebtInv'
<1>1. /\ ledger \in [Tokens -> Account] /\ book \in [Tokens -> Entry]
      /\ raised \in BOOLEAN /\ repaid \in [Tokens -> Nat]
      /\ used \in [logs: Nat, transfers: Nat]
  BY DEF DebtInv, DebtTypeOK
<1>2. DebtTypeOK'
  <2>1. ledger' \in [Tokens -> Account] /\ repaid' \in [Tokens -> Nat]
    BY <1>1
  <2>2. raised' \in BOOLEAN
    BY <1>1
  <2>3. book' \in [Tokens -> Entry]
    BY <1>1
  <2> QED BY <2>1, <2>2, <2>3 DEF DebtTypeOK
<1>3. Debts'
  <2> SUFFICES ASSUME ~raised', NEW x \in Tokens
               PROVE  Matches(book'[x], ledger'[x], repaid'[x])
    BY DEF Debts
  <2>1. ~raised /\ ~raises /\ book' = [book EXCEPT ![t] = e]
    OBVIOUS
  <2>2. CASE x = t
    <3>1. book'[x] = e /\ ledger'[x] = l /\ repaid'[x] = r
      BY <1>1, <2>1, <2>2
    <3> QED BY <2>1, <3>1
  <2>3. CASE x # t
    <3>1. book'[x] = book[x] /\ ledger'[x] = ledger[x] /\ repaid'[x] = repaid[x]
      BY <1>1, <2>1, <2>3
    <3>2. Matches(book[x], ledger[x], repaid[x])
      BY <2>1 DEF DebtInv, Debts
    <3> QED BY <3>1, <3>2
  <2> QED BY <2>2, <2>3
<1>4. Collaterals'
  <2> SUFFICES ASSUME ~raised', used'.transfers = 0, NEW x \in Tokens
               PROVE  Backs(book'[x], ledger'[x], x \in switched')
    BY DEF Collaterals
  <2>1. ~raised /\ ~raises /\ book' = [book EXCEPT ![t] = e]
    OBVIOUS
  <2>2. used.transfers = 0
    <3>1. used.transfers \in Nat
      BY <1>1
    <3> QED BY <3>1
  <2>3. CASE x = t
    <3>1. book'[x] = e /\ ledger'[x] = l
      BY <1>1, <2>1, <2>3
    <3> QED BY <2>1, <2>3, <3>1
  <2>4. CASE x # t
    <3>1. book'[x] = book[x] /\ ledger'[x] = ledger[x]
      BY <1>1, <2>1, <2>4
    <3>2. Backs(book[x], ledger[x], x \in switched)
      BY <2>1, <2>2 DEF DebtInv, Collaterals
    <3> QED BY <3>1, <3>2 DEF Backs
  <2> QED BY <2>3, <2>4
<1>5. RaisesOnlyAtTheBottom'
  <2>1. raised => swapped \/ emptied \/ used.transfers > 0
    BY DEF DebtInv, RaisesOnlyAtTheBottom
  <2> QED BY <2>1 DEF RaisesOnlyAtTheBottom
<1> QED BY <1>2, <1>3, <1>4, <1>5 DEF DebtInv

\* What the invariant says of one token.
LEMMA Facts ==
  ASSUME DebtInv, NEW t \in Tokens
  PROVE  /\ book[t] \in Entry /\ ledger[t] \in Account /\ repaid[t] \in Nat
         /\ raised \in BOOLEAN /\ swapped \in BOOLEAN /\ emptied \in BOOLEAN
         /\ switched \subseteq Tokens /\ used \in [logs: Nat, transfers: Nat]
         /\ ~raised => Matches(book[t], ledger[t], repaid[t])
         /\ ~raised /\ used.transfers = 0 => Backs(book[t], ledger[t], t \in switched)
BY DEF DebtInv, DebtTypeOK, Debts, Collaterals

\* A log leaves the number of transfers.
LEMMA Logged ==
  ASSUME DebtInv, Log
  PROVE  used' \in [logs: Nat, transfers: Nat] /\ used'.transfers = used.transfers
BY DEF DebtInv, DebtTypeOK, Log


LEMMA DepositStep ==
  ASSUME DebtInv, NEW t \in Tokens, NEW a \in Amounts, Deposit(t, a)
  PROVE  DebtInv'
<1> DEFINE e == Deposited(book[t], a)
           l == [ledger[t] EXCEPT !.collateral = @ + a,
                                  !.able = @ \/ ledger[t].collateral = 0]
<1>1. /\ a \in Nat /\ a > 0 /\ book[t] \in Entry /\ ledger[t] \in Account
      /\ repaid[t] \in Nat
  BY DebtAssumption, Facts
<1>2. e \in Entry
  BY <1>1, EntryTypes
<1>3. l \in Account
  <2>1. (ledger[t].able \/ ledger[t].collateral = 0) \in BOOLEAN
    OBVIOUS
  <2>2. ledger[t].collateral + a \in Nat
    BY <1>1 DEF Account
  <2> QED BY <1>1, <2>1, <2>2 DEF Account
<1>4. /\ e.collateral = book[t].collateral + a /\ e.listed
      /\ e.able = (book[t].able \/ book[t].collateral = 0)
      /\ e.variable = book[t].variable /\ e.stable = book[t].stable /\ e.dated = book[t].dated
  BY <1>1 DEF Deposited, Entry
<1>5. /\ l.collateral = ledger[t].collateral + a
      /\ l.able = (ledger[t].able \/ ledger[t].collateral = 0)
      /\ l.variable = ledger[t].variable /\ l.stable = ledger[t].stable
  BY <1>1 DEF Account
<1>6. ~raised => Matches(e, l, repaid[t])
  BY <1>4, <1>5, Facts DEF Matches
<1>7. ~raised /\ used.transfers = 0 => Backs(e, l, t \in switched)
  <2>1. /\ book[t].collateral \in Nat /\ ledger[t].collateral \in Nat
        /\ book[t].able \in BOOLEAN /\ ledger[t].able \in BOOLEAN
    BY <1>1 DEF Entry, Account
  <2> QED BY <1>1, <1>4, <1>5, <2>1, Facts DEF Backs
<1>8. /\ used' \in [logs: Nat, transfers: Nat] /\ used'.transfers = used.transfers
      /\ ledger' = [ledger EXCEPT ![t] = l]
      /\ raised' = (raised \/ FALSE)
      /\ book' = IF raised \/ FALSE THEN book ELSE [book EXCEPT ![t] = e]
      /\ repaid' = repaid /\ switched' = switched /\ swapped' = swapped /\ emptied' = emptied
  BY Logged DEF Deposit, ReplayDeposit, ReplayRow
<1>9. repaid' = [repaid EXCEPT ![t] = repaid[t]]
  BY <1>8 DEF DebtInv, DebtTypeOK
<1> HIDE DEF e, l
<1> QED BY <1>1, <1>2, <1>3, <1>6, <1>7, <1>8, <1>9, OneToken, Facts

LEMMA WithdrawStep ==
  ASSUME DebtInv, NEW t \in Tokens, NEW a \in Amounts, Withdraw(t, a)
  PROVE  DebtInv'
<1> DEFINE e == Withdrawn(book[t], a)
           l == [ledger[t] EXCEPT !.collateral = @ - a,
                                  !.able = @ /\ ledger[t].collateral > a]
<1>0. PICK below \in BOOLEAN :
        ReplayRow(TakesTooMuch(book[t], a, below), [book EXCEPT ![t] = Withdrawn(@, a)])
  BY DEF Withdraw, ReplayWithdraw
<1> DEFINE raises == TakesTooMuch(book[t], a, below)
<1>1. /\ a \in Nat /\ a > 0 /\ book[t] \in Entry /\ ledger[t] \in Account
      /\ repaid[t] \in Nat /\ a <= ledger[t].collateral
  BY DebtAssumption, Facts DEF Withdraw
<1>2. raises \in BOOLEAN /\ (~raises => e \in Entry)
  <2>1. ~raises => e \in Entry
    BY <1>1, EntryTypes
  <2> QED BY <2>1 DEF TakesTooMuch, Short
<1>3. l \in Account
  <2>1. (ledger[t].able /\ ledger[t].collateral > a) \in BOOLEAN
    OBVIOUS
  <2>2. ledger[t].collateral - a \in Nat
    BY <1>1 DEF Account
  <2> QED BY <1>1, <2>1, <2>2 DEF Account
<1>4. /\ e.collateral = book[t].collateral - a /\ e.listed = book[t].listed
      /\ e.able = book[t].able
      /\ e.variable = book[t].variable /\ e.stable = book[t].stable /\ e.dated = book[t].dated
  BY <1>1 DEF Withdrawn, Entry
<1>5. /\ l.collateral = ledger[t].collateral - a
      /\ l.able = (ledger[t].able /\ ledger[t].collateral > a)
      /\ l.variable = ledger[t].variable /\ l.stable = ledger[t].stable
  BY <1>1 DEF Account
<1>6. ~raised => Matches(e, l, repaid[t])
  BY <1>4, <1>5, Facts DEF Matches
<1>7. /\ book[t].collateral \in Nat /\ ledger[t].collateral \in Nat
      /\ book[t].able \in BOOLEAN /\ ledger[t].able \in BOOLEAN
      /\ used.transfers \in Nat
  BY <1>1, Facts DEF Entry, Account
<1>8. ~raised /\ used.transfers = 0 => Backs(e, l, t \in switched)
  BY <1>1, <1>4, <1>5, <1>7, Facts DEF Backs
<1>9. raises /\ ~raised => emptied' \/ used.transfers > 0
  <2>1. emptied' = (emptied \/ a = ledger[t].collateral)
    BY DEF Withdraw
  <2> QED BY <1>1, <1>7, <2>1, Facts DEF Backs, TakesTooMuch, Short
<1>10. /\ used' \in [logs: Nat, transfers: Nat] /\ used'.transfers = used.transfers
       /\ ledger' = [ledger EXCEPT ![t] = l]
       /\ raised' = (raised \/ raises)
       /\ book' = IF raised \/ raises THEN book ELSE [book EXCEPT ![t] = e]
       /\ repaid' = repaid /\ switched' = switched /\ swapped' = swapped
  BY <1>0, Logged DEF Withdraw, Less, ReplayRow
<1>12. emptied' \in BOOLEAN /\ (emptied => emptied')
  BY Facts DEF Withdraw
<1>11. repaid' = [repaid EXCEPT ![t] = repaid[t]]
  BY <1>10 DEF DebtInv, DebtTypeOK
<1> HIDE DEF e, l, raises
<1> QED BY <1>1, <1>2, <1>3, <1>6, <1>8, <1>9, <1>10, <1>11, <1>12, OneToken, Facts


LEMMA BorrowStep ==
  ASSUME DebtInv, NEW t \in Tokens, NEW a \in Amounts, NEW mode \in Modes, Borrow(t, a, mode)
  PROVE  DebtInv'
<1> DEFINE e == Borrowed(book[t], a, mode)
           l == IF mode = "1" THEN [ledger[t] EXCEPT !.stable = @ + a]
                              ELSE [ledger[t] EXCEPT !.variable = @ + a]
<1>1. /\ a \in Nat /\ book[t] \in Entry /\ ledger[t] \in Account /\ repaid[t] \in Nat
  BY DebtAssumption, Facts
<1>2. e \in Entry
  BY <1>1, EntryTypes
<1>3. l \in Account
  <2>1. ledger[t].stable + a \in Nat /\ ledger[t].variable + a \in Nat
    BY <1>1 DEF Account
  <2> QED BY <1>1, <2>1 DEF Account
<1>4. /\ e.collateral = book[t].collateral /\ e.listed = book[t].listed /\ e.able = book[t].able
      /\ e.variable = IF mode = "1" THEN book[t].variable ELSE book[t].variable + a
      /\ e.stable = IF mode = "1" THEN book[t].stable + a ELSE book[t].stable
      /\ e.dated = IF mode = "1" THEN TRUE ELSE book[t].dated
  BY <1>1 DEF Borrowed, Entry
<1>5. /\ l.collateral = ledger[t].collateral /\ l.able = ledger[t].able
      /\ l.variable = IF mode = "1" THEN ledger[t].variable ELSE ledger[t].variable + a
      /\ l.stable = IF mode = "1" THEN ledger[t].stable + a ELSE ledger[t].stable
  BY <1>1 DEF Account
<1>6. ~raised => Matches(e, l, repaid[t])
  <2>1. /\ book[t].variable \in Nat /\ book[t].stable \in Nat
        /\ ledger[t].variable \in Nat /\ ledger[t].stable \in Nat
    BY <1>1 DEF Entry, Account
  <2> QED BY <1>1, <1>4, <1>5, <2>1, Facts DEF Matches
<1>7. ~raised /\ used.transfers = 0 => Backs(e, l, t \in switched)
  BY <1>4, <1>5, Facts DEF Backs
<1>8. /\ used' \in [logs: Nat, transfers: Nat] /\ used'.transfers = used.transfers
      /\ raised' = (raised \/ FALSE)
      /\ book' = IF raised \/ FALSE THEN book ELSE [book EXCEPT ![t] = e]
      /\ repaid' = repaid /\ switched' = switched /\ swapped' = swapped /\ emptied' = emptied
  BY Logged DEF Borrow, ReplayBorrow, ReplayRow
<1>9. ledger' = [ledger EXCEPT ![t] = l]
  BY DEF Borrow
<1>10. repaid' = [repaid EXCEPT ![t] = repaid[t]]
  BY <1>8 DEF DebtInv, DebtTypeOK
<1> HIDE DEF e, l
<1> QED BY <1>1, <1>2, <1>3, <1>6, <1>7, <1>8, <1>9, <1>10, OneToken, Facts

LEMMA RepayStep ==
  ASSUME DebtInv, NEW t \in Tokens, NEW a \in Amounts, NEW mode \in Modes, Repay(t, a, mode)
  PROVE  DebtInv'
<1> DEFINE e == RepaidBy(book[t], a, "-1")
           l == IF mode = "1" THEN [ledger[t] EXCEPT !.stable = @ - a]
                              ELSE [ledger[t] EXCEPT !.variable = @ - a]
<1>1. /\ a \in Nat /\ book[t] \in Entry /\ ledger[t] \in Account /\ repaid[t] \in Nat
      /\ mode = "1" => a <= ledger[t].stable
      /\ mode # "1" => a <= ledger[t].variable
      /\ ledger' = [ledger EXCEPT ![t] = l]
  BY DebtAssumption, Facts DEF Repay, Modes
<1>2. e = book[t] /\ ~RepaysTooMuch(book[t], a, "-1", TRUE)
  BY DEF RepaidBy, RepaysTooMuch
<1>3. /\ ledger[t].variable \in Nat /\ ledger[t].stable \in Nat
      /\ book[t].variable \in Nat /\ book[t].stable \in Nat
  BY <1>1 DEF Account, Entry
<1>4. l \in Account
  <2>1. CASE mode = "1"
    <3>1. ledger[t].stable - a \in Nat
      BY <1>1, <1>3, <2>1
    <3> QED BY <1>1, <2>1, <3>1 DEF Account
  <2>2. CASE mode # "1"
    <3>1. ledger[t].variable - a \in Nat
      BY <1>1, <1>3, <2>2
    <3> QED BY <1>1, <2>2, <3>1 DEF Account
  <2> QED BY <2>1, <2>2
<1>5. /\ l.collateral = ledger[t].collateral /\ l.able = ledger[t].able
      /\ l.variable + l.stable = ledger[t].variable + ledger[t].stable - a
      /\ l.variable <= ledger[t].variable
  BY <1>1, <1>3 DEF Account
<1>6. ~raised => Matches(e, l, repaid[t] + a)
  <2>1. l.variable \in Nat /\ l.stable \in Nat
    BY <1>4 DEF Account
  <2> HIDE DEF e, l
  <2> QED BY <1>1, <1>2, <1>3, <1>5, <2>1, Facts DEF Matches
<1>7. ~raised /\ used.transfers = 0 => Backs(e, l, t \in switched)
  BY <1>2, <1>5, Facts DEF Backs
<1>8. /\ used' \in [logs: Nat, transfers: Nat] /\ used'.transfers = used.transfers
      /\ raised' = (raised \/ FALSE)
      /\ book' = IF raised \/ FALSE THEN book ELSE [book EXCEPT ![t] = e]
      /\ repaid' = [repaid EXCEPT ![t] = repaid[t] + a]
      /\ switched' = switched /\ swapped' = swapped /\ emptied' = emptied
  BY <1>2, Logged DEF Repay, ReplayRepay, ReplayRow
<1>9. repaid[t] + a \in Nat
  BY <1>1
<1> HIDE DEF e, l
<1> QED BY <1>1, <1>2, <1>4, <1>6, <1>7, <1>8, <1>9, OneToken, Facts


LEMMA SwapStep ==
  ASSUME DebtInv, NEW t \in Tokens, Swap(t)
  PROVE  DebtInv'
<1> DEFINE owed == ledger[t].variable + ledger[t].stable
           toVariable == [ledger[t] EXCEPT !.variable = owed, !.stable = 0]
           toStable == [ledger[t] EXCEPT !.stable = owed, !.variable = 0]
<1>1. /\ book[t] \in Entry /\ ledger[t] \in Account /\ repaid[t] \in Nat
  BY Facts
<1>2. toVariable \in Account /\ toStable \in Account
  <2>1. owed \in Nat
    BY <1>1 DEF Account
  <2> HIDE DEF owed
  <2> QED BY <1>1, <2>1 DEF Account
<1>3. /\ ledger' = [ledger EXCEPT ![t] = toVariable] \/ ledger' = [ledger EXCEPT ![t] = toStable]
      /\ swapped' = TRUE /\ repaid' = repaid /\ switched' = switched /\ emptied' = emptied
      /\ raised' = (raised \/ TRUE)
      /\ book' = IF raised \/ TRUE THEN book ELSE [book EXCEPT ![t] = book[t]]
      /\ used' \in [logs: Nat, transfers: Nat] /\ used'.transfers = used.transfers
  BY Logged DEF Swap, ReplaySwap, ReplayRow, Owes
<1>4. repaid' = [repaid EXCEPT ![t] = repaid[t]]
  BY <1>3 DEF DebtInv, DebtTypeOK
<1>5. PICK l \in Account : ledger' = [ledger EXCEPT ![t] = l]
  BY <1>2, <1>3
<1> HIDE DEF toVariable, toStable
<1> QED BY <1>1, <1>3, <1>4, <1>5, OneToken, Facts

LEMMA UseAsCollateralStep ==
  ASSUME DebtInv, NEW t \in Tokens, UseAsCollateral(t)
  PROVE  DebtInv'
<1> DEFINE l == [ledger[t] EXCEPT !.able = ~@]
<1>1. /\ book[t] \in Entry /\ ledger[t] \in Account /\ repaid[t] \in Nat
      /\ switched \subseteq Tokens
  BY Facts
<1>2. l \in Account
  BY <1>1 DEF Account
<1>3. /\ l.collateral = ledger[t].collateral
      /\ l.variable = ledger[t].variable /\ l.stable = ledger[t].stable
  BY <1>1 DEF Account
<1>4. /\ ledger' = [ledger EXCEPT ![t] = l]
      /\ switched' = switched \cup {t} /\ swapped' = swapped /\ repaid' = repaid
      /\ emptied' = emptied
      /\ book' = book /\ raised' = raised
      /\ used' \in [logs: Nat, transfers: Nat] /\ used'.transfers = used.transfers
  BY Logged DEF UseAsCollateral, NoRow
<1>5. /\ repaid' = [repaid EXCEPT ![t] = repaid[t]]
      /\ book' = IF raised \/ FALSE THEN book ELSE [book EXCEPT ![t] = book[t]]
      /\ raised' = (raised \/ FALSE)
  BY <1>4, Facts DEF DebtInv, DebtTypeOK
<1>6. ~raised => Matches(book[t], l, repaid[t])
  BY <1>3, Facts DEF Matches
<1>7. ~raised /\ used.transfers = 0 => Backs(book[t], l, t \in switched')
  BY <1>3, <1>4, Facts DEF Backs
<1> HIDE DEF l
<1> QED BY <1>1, <1>2, <1>4, <1>5, <1>6, <1>7, OneToken, Facts, Zenon

LEMMA TransferStep ==
  ASSUME DebtInv, NEW t \in Tokens, NEW a \in Amounts, Transfer(t, a)
  PROVE  DebtInv'
<1> DEFINE more == [ledger[t] EXCEPT !.collateral = @ + a,
                                     !.able = @ \/ ledger[t].collateral = 0]
           less == [ledger[t] EXCEPT !.collateral = @ - a,
                                     !.able = @ /\ ledger[t].collateral > a]
<1>1. /\ a \in Nat /\ book[t] \in Entry /\ ledger[t] \in Account /\ repaid[t] \in Nat
      /\ used \in [logs: Nat, transfers: Nat]
  BY DebtAssumption, Facts
<1>2. more \in Account
  <2>1. (ledger[t].able \/ ledger[t].collateral = 0) \in BOOLEAN
    OBVIOUS
  <2>2. ledger[t].collateral + a \in Nat
    BY <1>1 DEF Account
  <2> QED BY <1>1, <2>1, <2>2 DEF Account
<1>3. a <= ledger[t].collateral => less \in Account
  <2>1. (ledger[t].able /\ ledger[t].collateral > a) \in BOOLEAN
    OBVIOUS
  <2>2. a <= ledger[t].collateral => ledger[t].collateral - a \in Nat
    BY <1>1 DEF Account
  <2> QED BY <1>1, <2>1, <2>2 DEF Account
<1>4. /\ \/ ledger' = [ledger EXCEPT ![t] = more]
         \/ a <= ledger[t].collateral /\ ledger' = [ledger EXCEPT ![t] = less]
      /\ switched' = switched /\ swapped' = swapped /\ repaid' = repaid
      /\ emptied' = emptied /\ book' = book /\ raised' = raised
  BY DEF Transfer, Less, NoRow
<1>5. /\ used' \in [logs: Nat, transfers: Nat]
      /\ used'.transfers > 0 /\ ~(used'.transfers = 0)
  BY <1>1 DEF Transfer
<1>6. PICK l \in Account : ledger' = [ledger EXCEPT ![t] = l] /\ l.variable = ledger[t].variable
                                                             /\ l.stable = ledger[t].stable
  <2>1. /\ more.variable = ledger[t].variable /\ more.stable = ledger[t].stable
        /\ less.variable = ledger[t].variable /\ less.stable = ledger[t].stable
    BY <1>1 DEF Account
  <2> HIDE DEF more, less
  <2> QED BY <1>2, <1>3, <1>4, <2>1
<1>7. /\ repaid' = [repaid EXCEPT ![t] = repaid[t]]
      /\ book' = IF raised \/ FALSE THEN book ELSE [book EXCEPT ![t] = book[t]]
      /\ raised' = (raised \/ FALSE)
  BY <1>4, Facts DEF DebtInv, DebtTypeOK
<1>8. ~raised => Matches(book[t], l, repaid[t])
  BY <1>6, Facts DEF Matches
<1> HIDE DEF more, less
<1>9. used.transfers > 0 => used'.transfers > 0
  BY <1>5
<1>11. /\ ledger' = [ledger EXCEPT ![t] = l]
       /\ switched' \subseteq Tokens /\ switched \subseteq switched'
       /\ swapped' \in BOOLEAN /\ (swapped => swapped')
       /\ emptied' \in BOOLEAN /\ (emptied => emptied')
  BY <1>4, <1>6, Facts
<1>12. FALSE /\ ~raised => swapped' \/ emptied' \/ used'.transfers > 0
  OBVIOUS
<1>13. ~raised /\ ~FALSE => book[t] \in Entry /\ Matches(book[t], l, repaid[t])
  BY <1>1, <1>8
<1>14. ~raised /\ ~FALSE /\ used'.transfers = 0 => Backs(book[t], l, t \in switched')
  BY <1>5
<1> QED BY <1>1, <1>5, <1>7, <1>9, <1>11, <1>12, <1>13, <1>14, OneToken

LEMMA LiquidationStep ==
  ASSUME DebtInv, NEW debt \in Tokens, NEW cover \in Amounts, NEW collateral \in Tokens,
         NEW seized \in Amounts, LiquidationCall(debt, cover, collateral, seized)
  PROVE  DebtInv'
<1> DEFINE c == Cover(book[debt], cover)
           paid == [book EXCEPT ![debt] = Covered(book[debt], c)]
           after == [paid EXCEPT ![collateral] = Withdrawn(paid[collateral], seized)]
           left == ledger[debt].variable - cover
           lv == IF left < 0 THEN 0 ELSE left
           ls == IF left < 0 THEN ledger[debt].stable + left ELSE ledger[debt].stable
           few == [ledger EXCEPT ![collateral].collateral = @ - seized,
                     ![collateral].able = @ /\ ledger[collateral].collateral > seized]
<1>0. PICK below \in BOOLEAN :
        ReplayRow(\/ CoversTooMuch(book[debt], c, below)
                  \/ TakesTooMuch(paid[collateral], seized, below), after)
  BY DEF LiquidationCall, ReplayLiquidation
<1> DEFINE raises == \/ CoversTooMuch(book[debt], c, below)
                     \/ TakesTooMuch(paid[collateral], seized, below)
<1>1. /\ cover \in Nat /\ seized \in Nat /\ seized > 0
      /\ cover <= ledger[debt].variable + ledger[debt].stable
      /\ seized <= ledger[collateral].collateral
      /\ ledger' = [few EXCEPT ![debt].variable = lv, ![debt].stable = ls]
      /\ raised' = (raised \/ raises)
      /\ book' = IF raised \/ raises THEN book ELSE after
      /\ used' \in [logs: Nat, transfers: Nat] /\ used'.transfers = used.transfers
      /\ repaid' = repaid /\ switched' = switched /\ swapped' = swapped
  <2>1. cover \in Nat /\ seized \in Nat /\ seized > 0
    BY DebtAssumption
  <2>2. /\ cover <= ledger[debt].variable + ledger[debt].stable
        /\ seized <= ledger[collateral].collateral
        /\ Log /\ repaid' = repaid /\ switched' = switched /\ swapped' = swapped
    BY DEF LiquidationCall, Owes
  <2>3. ledger' = [few EXCEPT ![debt].variable = lv, ![debt].stable = ls]
    <3> DEFINE e == Less(collateral, seized)
    <3>1. ledger' = [e EXCEPT ![debt].variable = lv,
                              ![debt].stable = IF left < 0 THEN e[debt].stable + left
                                                           ELSE e[debt].stable]
      BY DEF LiquidationCall
    <3>2. e = few
      BY DEF Less
    <3>3. e[debt].stable = ledger[debt].stable
      <4>1. ledger \in [Tokens -> Account]
        BY DEF DebtInv, DebtTypeOK
      <4>2. ledger[debt] \in Account
        BY <4>1
      <4>3. e[debt].stable = ledger[debt].stable
        BY <4>1, <4>2 DEF Less, Account
      <4> QED BY <4>3
    <3> HIDE DEF e, few, left
    <3> QED BY <3>1, <3>2, <3>3 DEF ls
  <2>4. raised' = (raised \/ raises) /\ book' = IF raised \/ raises THEN book ELSE after
    BY <1>0 DEF ReplayRow
  <2>5. used' \in [logs: Nat, transfers: Nat] /\ used'.transfers = used.transfers
    BY <2>2, Logged
  <2> HIDE DEF lv, ls, few, raises, after
  <2> QED BY <2>1, <2>2, <2>3, <2>4, <2>5
<1>2. /\ ledger \in [Tokens -> Account] /\ book \in [Tokens -> Entry]
      /\ repaid \in [Tokens -> Nat] /\ raised \in BOOLEAN /\ swapped \in BOOLEAN
      /\ switched \subseteq Tokens
  BY DEF DebtInv, DebtTypeOK
<1>3. lv \in Nat /\ ls \in Nat
      /\ lv + ls = ledger[debt].variable + ledger[debt].stable - cover
  <2>1. ledger[debt].variable \in Nat /\ ledger[debt].stable \in Nat
    BY <1>2 DEF Account
  <2> QED BY <1>1, <2>1
<1> HIDE DEF lv, ls
<1>4. ASSUME NEW x \in Tokens
      PROVE  /\ ledger'[x] \in Account
             /\ ledger'[x].variable = IF x = debt THEN lv ELSE ledger[x].variable
             /\ ledger'[x].stable = IF x = debt THEN ls ELSE ledger[x].stable
             /\ ledger'[x].collateral = IF x = collateral THEN ledger[x].collateral - seized
                                                          ELSE ledger[x].collateral
             /\ ledger'[x].able = IF x = collateral
                                  THEN ledger[x].able /\ ledger[x].collateral > seized
                                  ELSE ledger[x].able
  <2>1. ledger[x] \in Account /\ ledger[collateral] \in Account
    BY <1>2
  <2>2. (ledger[collateral].able /\ ledger[collateral].collateral > seized) \in BOOLEAN
    OBVIOUS
  <2>3. ledger[collateral].collateral - seized \in Nat
    BY <1>1, <2>1 DEF Account
  <2>4. /\ few[x] \in Account /\ few \in [Tokens -> Account]
        /\ few[x].variable = ledger[x].variable /\ few[x].stable = ledger[x].stable
        /\ few[x].collateral = IF x = collateral THEN ledger[x].collateral - seized
                                                 ELSE ledger[x].collateral
        /\ few[x].able = IF x = collateral
                         THEN ledger[x].able /\ ledger[x].collateral > seized
                         ELSE ledger[x].able
    BY <1>2, <2>1, <2>2, <2>3 DEF Account
  <2> HIDE DEF few
  <2>5. ledger'[x] = IF x = debt THEN [few[x] EXCEPT !.variable = lv, !.stable = ls] ELSE few[x]
    BY <1>1, <2>4
  <2> QED BY <1>3, <2>4, <2>5 DEF Account
<1>5. ledger' \in [Tokens -> Account]
  <2>1. DOMAIN few = Tokens /\ few = [x \in Tokens |-> few[x]]
    BY <1>2
  <2> HIDE DEF few
  <2>2. ledger' = [x \in Tokens |-> ledger'[x]]
    BY <1>1, <2>1
  <2>3. \A x \in Tokens : ledger'[x] \in Account
    BY <1>4
  <2> QED BY <2>2, <2>3
<1> HIDE DEF few
<1>6. ASSUME ~raised
      PROVE  /\ cover < ledger[debt].variable => ~CoversTooMuch(book[debt], c, below)
             /\ Covered(book[debt], c).variable >= lv
             /\ Covered(book[debt], c) \in Entry
             /\ Covered(book[debt], c).variable + Covered(book[debt], c).stable
                  = book[debt].variable + book[debt].stable - cover
             /\ Covered(book[debt], c).collateral = book[debt].collateral
             /\ Covered(book[debt], c).able = book[debt].able
             /\ Covered(book[debt], c).listed = book[debt].listed
             /\ ~Covered(book[debt], c).dated => Covered(book[debt], c).stable = 0
  <2>1. book[debt] \in Entry /\ Matches(book[debt], ledger[debt], repaid[debt])
        /\ ledger[debt] \in Account /\ repaid[debt] \in Nat
    BY <1>6, Facts
  <2>2. cover <= book[debt].variable + book[debt].stable
    <3>1. /\ book[debt].variable \in Nat /\ book[debt].stable \in Nat
          /\ ledger[debt].variable \in Nat /\ ledger[debt].stable \in Nat
      BY <2>1 DEF Entry, Account
    <3> QED BY <1>1, <2>1, <3>1 DEF Matches
  <2>3. ~book[debt].dated => book[debt].stable = 0
    BY <2>1 DEF Matches
  <2>4. /\ cover < ledger[debt].variable => cover < book[debt].variable
        /\ (IF cover < book[debt].variable THEN book[debt].variable - cover ELSE 0) >= lv
    <3>1. /\ ledger[debt].variable <= book[debt].variable
          /\ book[debt].variable \in Nat /\ ledger[debt].variable \in Nat
      BY <2>1 DEF Matches, Entry, Account
    <3> QED BY <1>1, <3>1 DEF lv
  <2> HIDE DEF lv
  <2> DEFINE f == Covered(book[debt], c)
  <2>5. /\ cover < book[debt].variable => ~CoversTooMuch(book[debt], c, below)
        /\ f \in Entry
        /\ f.variable + f.stable = book[debt].variable + book[debt].stable - cover
        /\ f.variable = IF cover < book[debt].variable THEN book[debt].variable - cover ELSE 0
        /\ f.collateral = book[debt].collateral /\ f.able = book[debt].able
        /\ f.listed = book[debt].listed
        /\ ~f.dated => f.stable = 0
    <3>1. 0 < cover
      BY DebtAssumption
    <3> HIDE DEF f, c
    <3>2. cover < book[debt].variable => \A x : ~CoversTooMuch(book[debt], c, x)
      BY <1>1, <2>1, <2>2, <2>3, <3>1, CoverTaken DEF c
    <3> USE DEF f, c
    <3> QED BY <1>1, <2>1, <2>2, <2>3, <3>2, CoverTaken
  <2>6. (cover < ledger[debt].variable => ~CoversTooMuch(book[debt], c, below))
        /\ f.variable >= lv
    BY <2>4, <2>5
  <2> QED BY <2>5, <2>6
<1> DEFINE covered == Covered(book[debt], c)
<1>7. ASSUME ~raised, NEW x \in Tokens
      PROVE  /\ paid[x] \in Entry /\ paid \in [Tokens -> Entry]
             /\ paid[x] = IF x = debt THEN covered ELSE book[x]
             /\ paid[x].collateral = book[x].collateral /\ paid[x].able = book[x].able
             /\ paid[x].listed = book[x].listed
  <2>1. covered \in Entry /\ covered.collateral = book[debt].collateral
        /\ covered.able = book[debt].able /\ covered.listed = book[debt].listed
    BY <1>6, <1>7
  <2> HIDE DEF covered
  <2>2. paid = [book EXCEPT ![debt] = covered]
    BY DEF covered
  <2> HIDE DEF paid
  <2> QED BY <1>2, <2>1, <2>2
<1>8. ASSUME ~raised, used.transfers = 0, ~emptied'
      PROVE  ~raises
  <2>1. paid[collateral].collateral = book[collateral].collateral
    BY <1>7, <1>8
  <2>2. Backs(book[collateral], ledger[collateral], collateral \in switched)
        /\ book[collateral] \in Entry
    BY <1>8, Facts
  <2>3. book[collateral].collateral = ledger[collateral].collateral
        /\ book[collateral].collateral \in Nat
    BY <2>2 DEF Backs, Entry
  <2> HIDE DEF paid
  <2>4. /\ ~(cover >= ledger[debt].variable) /\ seized # ledger[collateral].collateral
        /\ ledger[debt].variable \in Nat
    BY <1>2, <1>8 DEF LiquidationCall, Account
  <2>5. ~TakesTooMuch(paid[collateral], seized, below)
    BY <1>1, <2>1, <2>3, <2>4 DEF TakesTooMuch, Short
  <2>6. ~CoversTooMuch(book[debt], c, below)
    BY <1>1, <1>6, <1>8, <2>4
  <2> QED BY <2>5, <2>6
\* What the entries are after a liquidation that does not raise.
<1>9. ASSUME ~raised, ~raises, NEW x \in Tokens
      PROVE  /\ after \in [Tokens -> Entry]
             /\ after[x].variable = IF x = debt THEN covered.variable ELSE book[x].variable
             /\ after[x].stable = IF x = debt THEN covered.stable ELSE book[x].stable
             /\ after[x].dated = IF x = debt THEN covered.dated ELSE book[x].dated
             /\ after[x].collateral = IF x = collateral THEN book[x].collateral - seized
                                                        ELSE book[x].collateral
             /\ after[x].able = book[x].able /\ after[x].listed = book[x].listed
  <2>1. /\ paid[x] \in Entry /\ paid \in [Tokens -> Entry] /\ paid[collateral] \in Entry
        /\ paid[x] = IF x = debt THEN covered ELSE book[x]
        /\ paid[x].collateral = book[x].collateral /\ paid[x].able = book[x].able
        /\ paid[x].listed = book[x].listed
    BY <1>7, <1>9
  <2> HIDE DEF paid, covered
  <2>2. Withdrawn(paid[collateral], seized) \in Entry
    BY <1>1, <1>9, <2>1, EntryTypes
  <2>3. after \in [Tokens -> Entry]
    BY <2>1, <2>2
  <2>4. after[x] = IF x = collateral THEN Withdrawn(paid[x], seized) ELSE paid[x]
    BY <2>1
  <2>5. /\ Withdrawn(paid[x], seized).collateral = paid[x].collateral - seized
        /\ Withdrawn(paid[x], seized).variable = paid[x].variable
        /\ Withdrawn(paid[x], seized).stable = paid[x].stable
        /\ Withdrawn(paid[x], seized).dated = paid[x].dated
        /\ Withdrawn(paid[x], seized).able = paid[x].able
        /\ Withdrawn(paid[x], seized).listed = paid[x].listed
    BY <2>1 DEF Withdrawn, Entry
  <2> HIDE DEF after
  <2> QED BY <2>1, <2>3, <2>4, <2>5
<1> HIDE DEF c, paid, after, covered, raises
<1>10. book' \in [Tokens -> Entry]
  <2>1. CASE raised \/ raises
    BY <1>1, <1>2, <2>1
  <2>2. CASE ~raised /\ ~raises
    <3>1. after \in [Tokens -> Entry]
      BY <1>9, <2>2
    <3> QED BY <1>1, <2>2, <3>1
  <2> QED BY <2>1, <2>2
<1>11. raises \in BOOLEAN
  BY DEF raises, CoversTooMuch, RepaysTooMuch, TakesTooMuch, Short
<1>16. emptied' \in BOOLEAN /\ (emptied => emptied')
  BY Facts DEF LiquidationCall
<1>12. DebtTypeOK'
  BY <1>1, <1>2, <1>5, <1>10, <1>11, <1>16 DEF DebtTypeOK
<1>13. Debts'
  <2> SUFFICES ASSUME ~raised', NEW x \in Tokens
               PROVE  Matches(book'[x], ledger'[x], repaid'[x])
    BY DEF Debts
  <2>1. ~raised /\ ~raises /\ book' = after
    BY <1>1
  <2>2. Matches(book[x], ledger[x], repaid[x]) /\ book[x] \in Entry /\ ledger[x] \in Account
        /\ repaid[x] \in Nat
    BY <2>1, Facts
  <2>3. CASE x = debt
    <3>1. /\ covered.variable + covered.stable = book[x].variable + book[x].stable - cover
          /\ ~covered.dated => covered.stable = 0
          /\ covered.variable >= lv /\ lv = ledger'[x].variable
      BY <1>4, <1>6, <2>1, <2>3 DEF covered
    <3>2. /\ book'[x].variable = covered.variable /\ book'[x].stable = covered.stable
          /\ book'[x].dated = covered.dated
      BY <1>9, <2>1, <2>3
    <3>3. ledger'[x].variable + ledger'[x].stable = ledger[x].variable + ledger[x].stable - cover
      BY <1>3, <1>4, <2>3
    <3>4. /\ book[x].variable \in Nat /\ book[x].stable \in Nat
          /\ ledger[x].variable \in Nat /\ ledger[x].stable \in Nat
      BY <2>2 DEF Entry, Account
    <3>5. book'[x].variable + book'[x].stable = ledger'[x].variable + ledger'[x].stable + repaid[x]
      BY <1>1, <2>2, <3>1, <3>2, <3>3, <3>4 DEF Matches
    <3>6. ledger'[x].variable <= book'[x].variable
      <4>1. covered.variable \in Int
        BY <1>6, <2>1 DEF covered, Entry
      <4> QED BY <1>3, <3>1, <3>2, <4>1
    <3> QED BY <1>1, <3>1, <3>2, <3>5, <3>6 DEF Matches
  <2>4. CASE x # debt
    <3>1. /\ book'[x].variable = book[x].variable /\ book'[x].stable = book[x].stable
          /\ book'[x].dated = book[x].dated
      BY <1>9, <2>1, <2>4
    <3>2. ledger'[x].variable = ledger[x].variable /\ ledger'[x].stable = ledger[x].stable
      BY <1>4, <2>4
    <3> QED BY <1>1, <2>2, <3>1, <3>2 DEF Matches
  <2> QED BY <2>3, <2>4
<1>14. Collaterals'
  <2> SUFFICES ASSUME ~raised', used'.transfers = 0, NEW x \in Tokens
               PROVE  Backs(book'[x], ledger'[x], x \in switched')
    BY DEF Collaterals
  <2>1. ~raised /\ ~raises /\ book' = after /\ used.transfers = 0
    BY <1>1
  <2>2. Backs(book[x], ledger[x], x \in switched) /\ book[x] \in Entry /\ ledger[x] \in Account
    BY <2>1, Facts
  <2>3. /\ book'[x].collateral = IF x = collateral THEN book[x].collateral - seized
                                                   ELSE book[x].collateral
        /\ book'[x].able = book[x].able /\ book'[x].listed = book[x].listed
    BY <1>9, <2>1
  <2>4. book[x].collateral \in Nat /\ ledger[x].collateral \in Nat
    BY <2>2 DEF Entry, Account
  <2>5. CASE x = collateral
    <3>1. /\ ledger'[x].collateral = ledger[x].collateral - seized
          /\ ledger'[x].able = (ledger[x].able /\ ledger[x].collateral > seized)
          /\ book'[x].collateral = book[x].collateral - seized
      BY <1>4, <2>3, <2>5
    <3>a. /\ book[x].collateral = ledger[x].collateral /\ book[x].able
          /\ (book[x].collateral > 0 => book[x].listed)
      BY <2>2 DEF Backs
    <3>b. /\ ledger[x].collateral - seized > 0 => ledger[x].collateral > 0
          /\ ledger[x].collateral - seized > 0 <=> ledger[x].collateral > seized
      BY <1>1, <2>4
    <3>2. /\ book'[x].collateral = ledger'[x].collateral /\ book'[x].able
          /\ (book'[x].collateral > 0 => book'[x].listed)
      BY <2>3, <3>1, <3>a, <3>b
    <3>3. x \notin switched => (ledger'[x].able <=> ledger'[x].collateral > 0)
      <4>1. x \notin switched => (ledger[x].able <=> ledger[x].collateral > 0)
        BY <2>2 DEF Backs
      <4>2. ledger[x].collateral > seized => ledger[x].collateral > 0
        BY <1>1, <2>4
      <4>3. ledger'[x].collateral > 0 <=> ledger[x].collateral > seized
        BY <3>1, <3>b
      <4> QED BY <3>1, <4>1, <4>2, <4>3
    <3> QED BY <1>1, <3>2, <3>3 DEF Backs
  <2>6. CASE x # collateral
    <3>1. ledger'[x].collateral = ledger[x].collateral /\ ledger'[x].able = ledger[x].able
          /\ book'[x].collateral = book[x].collateral
      BY <1>4, <2>3, <2>6
    <3> QED BY <1>1, <2>2, <2>3, <3>1 DEF Backs
  <2> QED BY <2>5, <2>6
<1>15. RaisesOnlyAtTheBottom'
  <2>1. raised => swapped \/ emptied \/ used.transfers > 0
    BY DEF DebtInv, RaisesOnlyAtTheBottom
  <2>2. raises /\ ~raised => emptied' \/ used.transfers > 0
    <3>1. used.transfers \in Nat
      BY Facts
    <3> QED BY <1>8, <3>1
  <2> QED BY <1>1, <1>16, <2>1, <2>2 DEF RaisesOnlyAtTheBottom
<1> QED BY <1>12, <1>13, <1>14, <1>15 DEF DebtInv


-----------------------------------------------------------------------------
(* Theorems.                                                               *)

\* Every step of the pool keeps the invariant.
LEMMA NextInv ==
  ASSUME DebtInv, [DebtNext]_debtVars
  PROVE  DebtInv'
<1>1. ASSUME NEW t \in Tokens, NEW a \in Amounts,
             Deposit(t, a) \/ Withdraw(t, a) \/ Transfer(t, a)
      PROVE  DebtInv'
  BY <1>1, DepositStep, WithdrawStep, TransferStep
<1>2. ASSUME NEW t \in Tokens, NEW a \in Amounts, NEW mode \in Modes,
             Borrow(t, a, mode) \/ Repay(t, a, mode)
      PROVE  DebtInv'
  BY <1>2, BorrowStep, RepayStep
<1>3. ASSUME NEW t \in Tokens, NEW a \in Amounts, NEW c \in Tokens, NEW s \in Amounts,
             LiquidationCall(t, a, c, s)
      PROVE  DebtInv'
  BY <1>3, LiquidationStep
<1>4. ASSUME NEW t \in Tokens, Swap(t) \/ UseAsCollateral(t)
      PROVE  DebtInv'
  BY <1>4, SwapStep, UseAsCollateralStep
<1>5. CASE UNCHANGED debtVars
  BY <1>5 DEF debtVars, DebtInv, DebtTypeOK, Debts, Collaterals, RaisesOnlyAtTheBottom
<1> QED BY <1>1, <1>2, <1>3, <1>4, <1>5 DEF DebtNext

\* The invariant holds throughout.
LEMMA Invariance == DebtSpec => []DebtInv
<1>1. DebtInit => DebtInv
  BY InitInv
<1>2. DebtInv /\ [DebtNext]_debtVars => DebtInv'
  BY NextInv
<1> QED BY <1>1, <1>2, PTL DEF DebtSpec

\* The dictionaries and the pool's account keep their types: no amount in the
\* dictionaries ever becomes negative (what assert_negative is there for,
\* debt_function.py:166).
THEOREM DebtTypes == DebtSpec => []DebtTypeOK
<1>1. DebtInv => DebtTypeOK
  BY DEF DebtInv
<1> QED BY <1>1, Invariance, PTL

\* The debt a chart shows is the pool's and all that was ever repaid.
THEOREM DebtShown == DebtSpec => []DebtIsThePoolsAndTheRepaid
<1>1. DebtInv => DebtIsThePoolsAndTheRepaid
  BY DEF DebtInv, Debts, Matches, DebtIsThePoolsAndTheRepaid, Owes
<1> QED BY <1>1, Invariance, PTL

\* The collateral a chart counts is the pool's, as long as no aTokens are moved
\* and the reserve was never switched by hand.
THEOREM CollateralShown == DebtSpec => []CollateralIsThePools
<1>1. ASSUME DebtInv, ~raised, used.transfers = 0, NEW t \in Tokens
      PROVE  /\ book[t].collateral = ledger[t].collateral
             /\ t \notin switched => Counted(t) = PoolCounts(t)
  <2>1. /\ Backs(book[t], ledger[t], t \in switched)
        /\ book[t] \in Entry /\ ledger[t] \in Account
    BY <1>1, Facts
  <2>2. /\ book[t].collateral \in Nat /\ book[t].collateral = ledger[t].collateral
    BY <2>1 DEF Backs, Entry
  <2>3. CASE book[t].collateral > 0
    <3>1. /\ book[t].listed /\ book[t].able
          /\ t \notin switched => ledger[t].able
      BY <2>1, <2>2, <2>3 DEF Backs
    <3> QED BY <2>2, <3>1 DEF Counted, PoolCounts
  <2>4. CASE book[t].collateral = 0
    BY <2>2, <2>4 DEF Counted, PoolCounts
  <2> QED BY <2>2, <2>3, <2>4
<1>2. DebtInv => CollateralIsThePools
  BY <1>1 DEF CollateralIsThePools
<1> QED BY <1>2, Invariance, PTL

\* Only an address that swapped a rate mode, moved aTokens or had all of a
\* collateral or of a variable debt taken has no chart for an assertion of the
\* replay, however much the replay leaves too much of its debts.
THEOREM DrawnUnlessSwappedOrEmptied == DebtSpec => []RaisesOnlyAtTheBottom
<1>1. DebtInv => RaisesOnlyAtTheBottom
  BY DEF DebtInv
<1> QED BY <1>1, Invariance, PTL

-----------------------------------------------------------------------------
(* HealthChart: the inductive invariant.                                   *)

\* The tables are filled in order, and the overall row comes after them all.
Filled ==
  /\ overall <= tables.calls /\ tables.calls <= tables.callRows
  /\ tables.callRows <= tables.rows /\ tables.rows <= tables.status
  /\ window > 0 => overall < window

\* Nobody is asked for a block that is not recorded.
Recorded == config.end <= overall /\ globals.end <= overall

\* All there is of an address up to the block the globals ask for is read.
Whole(read, blocks) ==
  /\ read \subseteq blocks
  /\ \A b \in blocks : b <= globals.end => b \in read

\* What a thread that was alone has read so far: the globals are its own.
Reads(d) ==
  /\ d.pc \in {"rows", "until", "calls"} => globals.end <= d.status
  /\ d.pc \in {"until", "calls"} => /\ d.target = globals.target
                                    /\ Whole(d.rows, Deposits[d.target])
                                    /\ Whole(d.callRows, Calls[d.target])
  /\ d.pc = "calls" => d.until = globals.end

Alone ==
  \A c \in Charts : chart[c].pc # "off" /\ chart[c].alone =>
    /\ \A d \in Charts \ {c} : chart[d].pc = "off"
    /\ Reads(chart[c])

IInv == TypeOK /\ Filled /\ Recorded /\ Alone /\ AloneIsComplete

-----------------------------------------------------------------------------
(* Lemmas.                                                                 *)

\* The numbers of the state are numbers.
LEMMA Typed ==
  ASSUME TypeOK
  PROVE  /\ MaxBlock \in Nat
         /\ overall \in Nat /\ window \in Nat /\ overall <= MaxBlock /\ window <= MaxBlock
         /\ tables.status \in Nat /\ tables.rows \in Nat
         /\ tables.callRows \in Nat /\ tables.calls \in Nat
         /\ config.end \in Nat /\ globals.end \in Nat
         /\ config.target \in Targets /\ globals.target \in Targets
BY ChartAssumption DEF TypeOK, Request

\* The least of two numbers, as min() gives it.
LEMMA MinOfTwo ==
  ASSUME NEW a \in Int, NEW b \in Int, a <= b
  PROVE  Min({a, b}) = a
BY DEF Min

\* A thread that is not there has a target all the same.
LEMMA NoDrawingIsDrawing ==
  ASSUME TypeOK
  PROVE  NoDrawing \in Drawing /\ NoDrawing.pc = "off"
<1>1. (CHOOSE t \in Targets : TRUE) \in Targets
  BY Typed
<1> QED BY <1>1, Typed DEF NoDrawing, Drawing

\* A thread that is disturbed is as far as it was.
LEMMA DisturbedCharts ==
  ASSUME TypeOK
  PROVE  /\ Disturbed \in [Charts -> Drawing]
         /\ \A c \in Charts : /\ Disturbed[c].pc = chart[c].pc
                              /\ chart[c].pc # "off" => ~Disturbed[c].alone
<1>1. chart \in [Charts -> Drawing]
  BY DEF TypeOK
<1>2. \A c \in Charts : Alive(c) <=> chart[c].pc # "off"
  BY ChartAssumption DEF Alive
<1>3. \A c \in Charts : LET d == [chart[c] EXCEPT !.alone = FALSE]
                        IN d \in Drawing /\ d.pc = chart[c].pc /\ ~d.alone
  BY <1>1 DEF Drawing
<1>4. \A c \in Charts :
        Disturbed[c] = IF Alive(c) THEN [chart[c] EXCEPT !.alone = FALSE] ELSE chart[c]
  BY DEF Disturbed
<1>5. Disturbed \in [Charts -> Drawing]
  BY <1>1, <1>3 DEF Disturbed
<1> QED BY <1>2, <1>3, <1>4, <1>5

\* Who starts a thread disturbs all others; it is alone when there is none.
LEMMA StartKeeps ==
  ASSUME IInv, Start, UNCHANGED globals
  PROVE  chart' \in [Charts -> Drawing] /\ thread' \in Charts \cup {None} /\ Alone'
<1> DEFINE c == CHOOSE d \in Charts : ~Alive(d)
           n == [NoDrawing EXCEPT !.pc = "config", !.alone = \A d \in Charts : ~Alive(d)]
<1>1. c \in Charts /\ ~Alive(c) /\ chart' = [Disturbed EXCEPT ![c] = n] /\ thread' = c
  BY DEF Start
<1>2. TypeOK
  BY DEF IInv
<1>3. n \in Drawing /\ n.pc = "config" /\ (n.alone => \A d \in Charts : ~Alive(d))
  BY <1>2, NoDrawingIsDrawing DEF Drawing
<1> HIDE DEF n, c
<1>4. /\ chart' \in [Charts -> Drawing] /\ chart'[c] = n
      /\ \A d \in Charts : d # c => chart'[d] = Disturbed[d]
  BY <1>1, <1>2, <1>3, DisturbedCharts
<1>5. \A d \in Charts : Alive(d) <=> chart[d].pc # "off"
  BY ChartAssumption DEF Alive
<1>6. ASSUME NEW e \in Charts, chart'[e].pc # "off", chart'[e].alone
      PROVE  /\ e = c /\ \A d \in Charts \ {e} : chart'[d].pc = "off"
  BY <1>1, <1>2, <1>3, <1>4, <1>5, <1>6, DisturbedCharts
<1>7. Alone'
  BY <1>3, <1>4, <1>6 DEF Alone, Reads
<1> QED BY <1>1, <1>4, <1>7

\* A step of one thread: alone it was before, alone it is still.
LEMMA OneDraws ==
  ASSUME IInv, NEW c \in Charts, chart[c].pc # "off", NEW d \in Drawing,
         chart' = [chart EXCEPT ![c] = d], d.pc # "off" => d.alone = chart[c].alone
  PROVE  /\ chart' \in [Charts -> Drawing] /\ chart'[c] = d
         /\ \A e \in Charts : chart'[e].pc # "off" /\ chart'[e].alone =>
              /\ e = c /\ chart[c].alone /\ Reads(chart[c])
              /\ \A f \in Charts \ {c} : chart'[f].pc = "off"
<1>1. /\ chart \in [Charts -> Drawing] /\ chart' \in [Charts -> Drawing] /\ chart'[c] = d
      /\ \A e \in Charts : e # c => chart'[e] = chart[e]
  BY DEF IInv, TypeOK
<1>2. \A e \in Charts : chart[e].pc # "off" /\ chart[e].alone =>
        Reads(chart[e]) /\ \A f \in Charts \ {e} : chart[f].pc = "off"
  BY DEF IInv, Alone
<1>3. ASSUME NEW e \in Charts, chart'[e].pc # "off", chart'[e].alone
      PROVE  /\ e = c /\ chart[c].alone /\ Reads(chart[c])
             /\ \A f \in Charts \ {c} : chart'[f].pc = "off"
  <2>1. e = c
    BY <1>1, <1>2, <1>3
  <2> QED BY <1>1, <1>2, <1>3, <2>1
<1> QED BY <1>1, <1>3

-----------------------------------------------------------------------------
(* The crawl, and who starts a thread.                                     *)

\* A window begins beyond what is recorded.
LEMMA NextWindowInv ==
  ASSUME IInv, NEW to \in Blocks, NextWindow(to)
  PROVE  IInv'
<1>1. /\ overall < to /\ window' = to /\ to \in 0..MaxBlock
      /\ UNCHANGED <<tables, overall, config, globals, auto, post, thread, chart, shown, posts>>
  BY Typed DEF NextWindow, Blocks, IInv
<1> QED BY <1>1 DEF IInv, TypeOK, Filled, Recorded, Alone, Reads, Whole, AloneIsComplete

\* One table more is filled, or all are and the window is recorded.
LEMMA CrawlInv ==
  ASSUME IInv, Crawl
  PROVE  IInv'
<1>1. /\ window > 0 /\ window \in 0..MaxBlock /\ overall < window
      /\ UNCHANGED <<config, globals, auto, post, thread, chart, shown, posts>>
  BY DEF Crawl, IInv, TypeOK, Filled
<1>2. TypeOK /\ Filled
  BY DEF IInv
<1>3. Alone' /\ AloneIsComplete'
  BY <1>1 DEF IInv, Alone, Reads, Whole, AloneIsComplete
<1>4. /\ Len(Order) = 4 /\ Order[1] = "status" /\ Order[2] = "rows"
      /\ Order[3] = "callRows" /\ Order[4] = "calls"
  BY DEF Order
<1>5. CASE \E i \in 1..Len(Order) :
             /\ tables[Order[i]] < window /\ \A j \in 1..(i - 1) : tables[Order[j]] >= window
             /\ tables' = [tables EXCEPT ![Order[i]] = window]
             /\ UNCHANGED <<overall, window>>
  <2>1. PICK i \in 1..4 :
          /\ tables[Order[i]] < window /\ \A j \in 1..(i - 1) : tables[Order[j]] >= window
          /\ tables' = [tables EXCEPT ![Order[i]] = window]
          /\ UNCHANGED <<overall, window>>
    BY <1>4, <1>5
  <2>2. tables' \in [status: 0..MaxBlock, rows: 0..MaxBlock, callRows: 0..MaxBlock,
                     calls: 0..MaxBlock]
        /\ Filled'
    <3>1. CASE i = 1
      BY <1>1, <1>2, <1>4, <2>1, <3>1, Typed DEF TypeOK, Filled
    <3>2. CASE i = 2
      <4>1. tables.status >= window
        BY <1>4, <2>1, <3>2
      <4> QED BY <1>1, <1>2, <1>4, <2>1, <3>2, <4>1, Typed DEF TypeOK, Filled
    <3>3. CASE i = 3
      <4>1. tables.rows >= window
        BY <1>4, <2>1, <3>3
      <4> QED BY <1>1, <1>2, <1>4, <2>1, <3>3, <4>1, Typed DEF TypeOK, Filled
    <3>4. CASE i = 4
      <4>1. tables.callRows >= window
        BY <1>4, <2>1, <3>4
      <4> QED BY <1>1, <1>2, <1>4, <2>1, <3>4, <4>1, Typed DEF TypeOK, Filled
    <3> QED BY <3>1, <3>2, <3>3, <3>4
  <2>3. TypeOK'
    BY <1>1, <1>2, <2>1, <2>2 DEF TypeOK, Filled
  <2>4. Recorded'
    BY <1>1, <2>1 DEF IInv, Recorded
  <2> QED BY <1>3, <2>2, <2>3, <2>4 DEF IInv
<1>6. CASE /\ \A i \in 1..Len(Order) : tables[Order[i]] >= window
           /\ overall' = window /\ window' = 0
           /\ UNCHANGED tables
  <2>1. window <= tables.calls
    BY <1>4, <1>6, Typed DEF IInv
  <2>2. TypeOK'
    BY <1>1, <1>2, <1>6, <2>1, Typed DEF TypeOK, Filled
  <2>3. Filled'
    BY <1>1, <1>2, <1>6, <2>1 DEF Filled
  <2>4. Recorded'
    BY <1>1, <1>2, <1>6, Typed DEF IInv, Recorded
  <2> QED BY <1>3, <2>2, <2>3, <2>4 DEF IInv
<1> QED BY <1>5, <1>6 DEF Crawl

\* A request asks for a block that is recorded, and disturbs every thread.
LEMMA PostConfigInv ==
  ASSUME IInv, NEW t \in Targets, NEW end \in 0..overall, PostConfig(t, end)
  PROVE  IInv'
<1>1. /\ posts < MaxPosts /\ posts' = posts + 1 /\ post' = TRUE
      /\ config' = [target |-> t, end |-> end] /\ chart' = Disturbed
      /\ UNCHANGED <<tables, overall, window, globals, auto, thread, shown>>
  BY DEF PostConfig
<1>2. config' \in Request /\ config'.end <= overall
  BY <1>1, Typed DEF Request, IInv
<1>3. chart' \in [Charts -> Drawing] /\ Alone'
  BY <1>1, DisturbedCharts DEF IInv, Alone
<1>4. TypeOK'
  BY <1>1, <1>2, <1>3, ChartAssumption DEF IInv, TypeOK
<1>5. Filled' /\ Recorded' /\ AloneIsComplete'
  BY <1>1, <1>2 DEF IInv, Filled, Recorded, AloneIsComplete
<1> QED BY <1>3, <1>4, <1>5 DEF IInv

\* The dictionary, the loop and the request change; nothing a thread reads.
LEMMA NothingRead ==
  ASSUME IInv, UNCHANGED <<tables, overall, window, globals, shown, posts>>,
         config' \in Request, config'.end <= overall, post' \in BOOLEAN,
         auto' \in [pc: {"off", "while", "start"}, do_run: BOOLEAN, asked: Targets \cup {None}],
         Start \/ UNCHANGED <<chart, thread>>
  PROVE  IInv'
<1>1. chart' \in [Charts -> Drawing] /\ thread' \in Charts \cup {None} /\ Alone'
  <2>1. CASE Start
    BY <2>1, StartKeeps
  <2>2. CASE UNCHANGED <<chart, thread>>
    BY <2>2 DEF IInv, TypeOK, Alone, Reads, Whole
  <2> QED BY <2>1, <2>2
<1>2. TypeOK'
  BY <1>1 DEF IInv, TypeOK
<1>3. Filled' /\ Recorded' /\ AloneIsComplete'
  BY DEF IInv, Filled, Recorded, AloneIsComplete
<1> QED BY <1>1, <1>2, <1>3 DEF IInv

\* The second half of a request; auto_plot is started, stopped, loses
\* its POST, takes a turn.
LEMMA StarterInv ==
  ASSUME IInv, PostStart \/ WipePost \/ StopAuto \/ AutoPlot \/ \E t \in Targets : StartAuto(t)
  PROVE  IInv'
<1>1. /\ config \in Request /\ config.end <= overall /\ post \in BOOLEAN
      /\ auto \in [pc: {"off", "while", "start"}, do_run: BOOLEAN, asked: Targets \cup {None}]
  BY DEF IInv, TypeOK, Recorded
<1>2. CASE PostStart
  BY <1>1, <1>2, NothingRead DEF PostStart
<1>3. CASE StopAuto
  BY <1>1, <1>3, NothingRead DEF StopAuto
<1>4. ASSUME NEW t \in Targets, StartAuto(t)
      PROVE  IInv'
  BY <1>1, <1>4, NothingRead DEF StartAuto
<1>7. CASE WipePost
  BY <1>1, <1>7, NothingRead DEF WipePost
<1>5. CASE AutoConfig
  <2>1. /\ config' \in Request /\ config'.end <= overall
    BY <1>1, <1>5, Typed DEF AutoConfig, AskedTarget, Request, IInv
  <2>2. auto' \in [pc: {"off", "while", "start"}, do_run: BOOLEAN, asked: Targets \cup {None}]
    BY <1>1, <1>5 DEF AutoConfig
  <2> QED BY <1>1, <1>5, <2>1, <2>2, NothingRead DEF AutoConfig
<1>6. CASE AutoStart
  <2>1. auto' \in [pc: {"off", "while", "start"}, do_run: BOOLEAN, asked: Targets \cup {None}]
    BY <1>1, <1>6 DEF AutoStart
  <2> QED BY <1>1, <1>6, <2>1, NothingRead DEF AutoStart
<1> QED BY <1>2, <1>3, <1>4, <1>5, <1>6, <1>7 DEF AutoPlot

-----------------------------------------------------------------------------
(* gen_hf_chart.                                                           *)

\* One thread has read something; the charts stay as they are shown.
LEMMA ReadingInv ==
  ASSUME IInv, UNCHANGED <<shown, Others>>, globals' \in Request, globals'.end <= overall,
         NEW c \in Charts, chart[c].pc # "off", NEW d \in Drawing,
         chart' = [chart EXCEPT ![c] = d], d.pc # "off" => d.alone = chart[c].alone,
         (d.alone /\ Reads(chart[c]) => Reads(chart[c])')
  PROVE  IInv'
<1>1. /\ chart' \in [Charts -> Drawing] /\ chart'[c] = d
      /\ \A e \in Charts : chart'[e].pc # "off" /\ chart'[e].alone =>
           /\ e = c /\ chart[c].alone /\ Reads(chart[c])
           /\ \A f \in Charts \ {c} : chart'[f].pc = "off"
  BY OneDraws
<1>2. Alone'
  BY <1>1 DEF Alone
<1>3. TypeOK'
  BY <1>1 DEF IInv, TypeOK, Others
<1>4. Filled' /\ Recorded' /\ AloneIsComplete'
  BY DEF IInv, Filled, Recorded, AloneIsComplete, Others
<1> QED BY <1>2, <1>3, <1>4 DEF IInv

\* The dictionary is copied into the globals.
LEMMA CopyConfigInv ==
  ASSUME IInv, NEW c \in Charts, CopyConfig(c)
  PROVE  IInv'
<1> DEFINE d == [chart[c] EXCEPT !.pc = "status"]
<1>1. /\ chart[c].pc # "off" /\ chart' = [chart EXCEPT ![c] = d] /\ globals' = config
      /\ UNCHANGED <<shown, Others>> /\ chart \in [Charts -> Drawing]
  BY DEF CopyConfig, Draws, IInv, TypeOK
<1>2. d \in Drawing /\ d.pc = "status" /\ d.alone = chart[c].alone
  BY <1>1 DEF Drawing
<1> HIDE DEF d
<1>3. globals' \in Request /\ globals'.end <= overall
  BY <1>1 DEF IInv, TypeOK, Recorded
<1>4. chart'[c] = d
  BY <1>1
<1>5. Reads(chart[c])'
  BY <1>2, <1>4 DEF Reads
<1> QED BY <1>1, <1>2, <1>3, <1>5, ReadingInv

\* The status table is read: it is filled up to the block asked for.
LEMMA ReadStatusInv ==
  ASSUME IInv, NEW c \in Charts, ReadStatus(c)
  PROVE  IInv'
<1> DEFINE d == [chart[c] EXCEPT !.pc = "rows", !.status = tables.status]
<1>1. /\ chart[c].pc # "off" /\ chart' = [chart EXCEPT ![c] = d] /\ UNCHANGED globals
      /\ UNCHANGED <<shown, Others>> /\ chart \in [Charts -> Drawing]
      /\ globals \in Request /\ globals.end <= overall
      /\ tables.status \in 0..MaxBlock
  BY DEF ReadStatus, Draws, IInv, TypeOK, Recorded
<1>2. d \in Drawing /\ d.pc = "rows" /\ d.alone = chart[c].alone /\ d.status = tables.status
  BY <1>1 DEF Drawing
<1> HIDE DEF d
<1>3. globals.end <= tables.status
  BY Typed DEF IInv, Filled, Recorded
<1>4. chart'[c] = d
  BY <1>1
<1>5. Reads(chart[c])'
  BY <1>1, <1>2, <1>3, <1>4 DEF Reads
<1> QED BY <1>1, <1>2, <1>5, ReadingInv

\* The address's rows are read from tables filled up to the block asked for.
LEMMA ReadRowsInv ==
  ASSUME IInv, NEW c \in Charts, ReadRows(c)
  PROVE  IInv'
<1> DEFINE t == globals.target
           rows == {b \in Deposits[t] : b <= tables.rows}
           calls == {b \in Calls[t] : b <= tables.callRows}
           d == [chart[c] EXCEPT !.pc = "until", !.target = t, !.rows = rows, !.callRows = calls]
<1>1. /\ chart[c].pc = "rows" /\ chart' = [chart EXCEPT ![c] = d] /\ UNCHANGED globals
      /\ UNCHANGED <<shown, Others>> /\ chart \in [Charts -> Drawing]
      /\ globals \in Request /\ globals.end <= overall
  BY DEF ReadRows, Draws, IInv, TypeOK, Recorded
<1>2. /\ t \in Targets /\ rows \subseteq Deposits[t] /\ calls \subseteq Calls[t]
      /\ rows \subseteq Blocks /\ calls \subseteq Blocks
  BY Typed, ChartAssumption DEF IInv
<1>3. Whole(rows, Deposits[t]) /\ Whole(calls, Calls[t])
  <2>1. globals.end <= tables.rows /\ globals.end <= tables.callRows
    BY Typed DEF IInv, Filled, Recorded
  <2>2. Deposits[t] \subseteq Int /\ Calls[t] \subseteq Int
    BY <1>2, ChartAssumption DEF Blocks
  <2> QED BY <2>1, <2>2, Typed DEF Whole, IInv
<1> HIDE DEF rows, calls, t
<1>4. /\ d \in Drawing /\ d.pc = "until" /\ d.alone = chart[c].alone /\ d.target = t
      /\ d.rows = rows /\ d.callRows = calls /\ d.status = chart[c].status
  BY <1>1, <1>2 DEF Drawing
<1> HIDE DEF d
<1>5. chart'[c] = d /\ globals' = globals /\ globals.target = t
  BY <1>1 DEF t
<1>6. Reads(chart[c]) => Reads(chart[c])'
  BY <1>1, <1>3, <1>4, <1>5 DEF Reads, Whole
<1> QED BY <1>1, <1>4, <1>6, ReadingInv

\* The last block of the chart is read from the globals.
LEMMA ReadUntilInv ==
  ASSUME IInv, NEW c \in Charts, ReadUntil(c)
  PROVE  IInv'
<1> DEFINE d == [chart[c] EXCEPT !.pc = "calls", !.until = globals.end]
<1>1. /\ chart[c].pc = "until" /\ chart' = [chart EXCEPT ![c] = d] /\ UNCHANGED globals
      /\ UNCHANGED <<shown, Others>> /\ chart \in [Charts -> Drawing]
      /\ globals \in Request /\ globals.end <= overall /\ globals.end \in 0..MaxBlock
  BY DEF ReadUntil, Draws, IInv, TypeOK, Recorded, Request
<1>2. /\ d \in Drawing /\ d.pc = "calls" /\ d.alone = chart[c].alone /\ d.until = globals.end
      /\ d.target = chart[c].target /\ d.rows = chart[c].rows
      /\ d.callRows = chart[c].callRows /\ d.status = chart[c].status
  BY <1>1 DEF Drawing
<1> HIDE DEF d
<1>3. chart'[c] = d
  BY <1>1
<1>4. Reads(chart[c]) => Reads(chart[c])'
  BY <1>1, <1>2, <1>3 DEF Reads, Whole
<1> QED BY <1>1, <1>2, <1>4, ReadingInv

\* What a thread that was alone has drawn is complete.
LEMMA ReplayIsComplete ==
  ASSUME IInv, NEW d \in Drawing, d.pc = "calls", Reads(d)
  PROVE  /\ Replay(d).rows = {b \in Deposits[d.target] : b <= d.until}
         /\ Replay(d).calls = {b \in Calls[d.target] : b <= d.until}
         /\ Replay(d).status = d.until
<1>1. /\ globals.end <= d.status /\ d.until = globals.end /\ d.status \in Int /\ d.until \in Int
      /\ Whole(d.rows, Deposits[d.target]) /\ Whole(d.callRows, Calls[d.target])
  BY DEF Reads, Drawing
<1>2. Replay(d).status = d.until
  BY <1>1, MinOfTwo DEF Replay
<1>3. {b \in d.rows : b <= d.until} = {b \in Deposits[d.target] : b <= d.until}
  BY <1>1 DEF Whole
<1>4. {b \in d.callRows : b <= d.until} = {b \in Calls[d.target] : b <= d.until}
  BY <1>1 DEF Whole
<1> QED BY <1>2, <1>3, <1>4 DEF Replay

\* What a thread has drawn is a figure.
LEMMA ReplayIsFigure ==
  ASSUME TypeOK, NEW d \in Drawing
  PROVE  Replay(d) \in Figure /\ Replay(d).alone = d.alone /\ Replay(d).target = d.target
         /\ Replay(d).until = d.until
<1>1. /\ d.target \in Targets /\ d.until \in 0..MaxBlock /\ d.status \in 0..MaxBlock
      /\ d.rows \subseteq Blocks /\ d.callRows \subseteq Blocks /\ d.alone \in BOOLEAN
  BY DEF Drawing
<1>2. Min({d.until, d.status}) \in 0..MaxBlock
  <2>1. CASE d.until <= d.status
    BY <1>1, <2>1, MinOfTwo
  <2>2. CASE d.status <= d.until
    <3>1. {d.until, d.status} = {d.status, d.until}
      OBVIOUS
    <3> QED BY <1>1, <2>2, <3>1, MinOfTwo
  <2> QED BY <1>1, <2>1, <2>2
<1>3. {b \in d.rows : b <= d.until} \subseteq Blocks /\ {b \in d.callRows : b <= d.until} \subseteq Blocks
  BY <1>1
<1> QED BY <1>1, <1>2, <1>3 DEF Replay, Figure

\* The calls are read and the chart is drawn; or the thread ends.
LEMMA ReadCallsInv ==
  ASSUME IInv, NEW c \in Charts, ReadCalls(c)
  PROVE  IInv'
<1> DEFINE d == chart[c]
           r == [d EXCEPT !.pc = "risk"]
<1>1. /\ d.pc = "calls" /\ UNCHANGED <<globals, Others>> /\ d \in Drawing
      /\ globals \in Request /\ globals.end <= overall /\ TypeOK
  BY DEF ReadCalls, IInv, TypeOK, Recorded
<1>2. CASE chart' = [chart EXCEPT ![c] = NoDrawing] /\ UNCHANGED shown
  <2>1. Reads(NoDrawing)'
    BY <1>1, NoDrawingIsDrawing DEF Reads, NoDrawing
  <2>2. chart'[c] = NoDrawing
    BY <1>1, <1>2 DEF TypeOK
  <2>3. Reads(chart[c])'
    BY <2>2, NoDrawingIsDrawing, <1>1 DEF Reads
  <2> QED BY <1>1, <1>2, <2>3, NoDrawingIsDrawing, ReadingInv
<1>3. CASE chart' = [chart EXCEPT ![c] = r] /\ shown' = Replay(d)
  <2>1. r \in Drawing /\ r.pc = "risk" /\ r.alone = d.alone
    BY <1>1 DEF Drawing
  <2> HIDE DEF r
  <2>2. /\ chart' \in [Charts -> Drawing] /\ chart'[c] = r
        /\ \A e \in Charts : chart'[e].pc # "off" /\ chart'[e].alone =>
             /\ e = c /\ \A f \in Charts \ {c} : chart'[f].pc = "off"
    BY <1>1, <1>3, <2>1, OneDraws
  <2>3. Alone'
    BY <2>1, <2>2 DEF Alone, Reads
  <2>4. shown' \in Figure
    BY <1>1, <1>3, ReplayIsFigure
  <2>5. TypeOK'
    BY <1>1, <2>2, <2>4 DEF TypeOK, Others
  <2>6. Filled' /\ Recorded'
    BY <1>1 DEF IInv, Filled, Recorded, Others
  <2>7. AloneIsComplete'
    <3> SUFFICES ASSUME shown'.alone
                 PROVE  /\ shown'.rows = {b \in Deposits[shown'.target] : b <= shown'.until}
                        /\ shown'.calls = {b \in Calls[shown'.target] : b <= shown'.until}
                        /\ shown'.status = shown'.until
      BY DEF AloneIsComplete
    <3>1. d.alone
      BY <1>1, <1>3, ReplayIsFigure
    <3>2. Reads(d)
      BY <1>1, <3>1 DEF IInv, Alone
    <3>3. /\ Replay(d).rows = {b \in Deposits[d.target] : b <= d.until}
          /\ Replay(d).calls = {b \in Calls[d.target] : b <= d.until}
          /\ Replay(d).status = d.until
      BY <1>1, <3>2, ReplayIsComplete
    <3>4. Replay(d).target = d.target /\ Replay(d).until = d.until
      BY <1>1, ReplayIsFigure
    <3> HIDE DEF d
    <3> QED BY <1>3, <3>3, <3>4
  <2> QED BY <2>3, <2>5, <2>6, <2>7 DEF IInv
<1> QED BY <1>2, <1>3 DEF ReadCalls, Draws

\* The thread ends.
LEMMA SimulateInv ==
  ASSUME IInv, NEW c \in Charts, Simulate(c)
  PROVE  IInv'
<1>1. /\ chart[c].pc # "off" /\ chart' = [chart EXCEPT ![c] = NoDrawing] /\ UNCHANGED globals
      /\ UNCHANGED <<shown, Others>> /\ globals \in Request /\ globals.end <= overall /\ TypeOK
  BY DEF Simulate, Draws, IInv, TypeOK, Recorded
<1>2. chart'[c] = NoDrawing
  BY <1>1 DEF TypeOK
<1>3. Reads(chart[c])'
  BY <1>1, <1>2, NoDrawingIsDrawing DEF Reads
<1> QED BY <1>1, <1>3, NoDrawingIsDrawing, ReadingInv

-----------------------------------------------------------------------------
(* The theorems.                                                           *)

\* The server starts without threads, wherever the last crawl ended.
LEMMA InvInit == Init => IInv
<1> SUFFICES ASSUME Init
             PROVE  IInv
  OBVIOUS
<1>1. /\ overall \in 0..MaxBlock /\ window = 0 /\ globals = config
      /\ config \in [target: Targets, end: {0}]
      /\ auto = [pc |-> "off", do_run |-> TRUE, asked |-> None]
      /\ post = FALSE /\ posts = 0 /\ thread = None /\ chart = [c \in Charts |-> NoDrawing]
      /\ shown = None
  BY DEF Init
<1>2. PICK s, r, c, l \in overall..MaxBlock :
        tables = [status |-> s, rows |-> r, callRows |-> c, calls |-> l]
  BY DEF Init
<1>3. /\ MaxBlock \in Nat /\ overall \in Nat
      /\ tables \in [status: 0..MaxBlock, rows: 0..MaxBlock, callRows: 0..MaxBlock,
                     calls: 0..MaxBlock]
      /\ overall <= tables.calls
  BY <1>1, <1>2, ChartAssumption
<1>4. config \in Request /\ config.end = 0 /\ config.target \in Targets
  BY <1>1, <1>3 DEF Request
<1>5. NoDrawing \in Drawing /\ NoDrawing.pc = "off"
  <2>1. (CHOOSE t \in Targets : TRUE) \in Targets
    BY <1>4
  <2> QED BY <1>3, <2>1 DEF NoDrawing, Drawing
<1>6. Filled
  <2>1. /\ tables.calls <= tables.callRows /\ tables.callRows <= tables.rows
        /\ tables.rows <= tables.status
    BY DEF Init
  <2> QED BY <1>1, <1>3, <2>1 DEF Filled
<1>7. TypeOK
  <2>1. auto \in [pc: {"off", "while", "start"}, do_run: BOOLEAN, asked: Targets \cup {None}]
    BY <1>1, <1>4
  <2>2. posts \in 0..MaxPosts
    BY <1>1, ChartAssumption
  <2>3. chart \in [Charts -> Drawing] /\ globals \in Request
    BY <1>1, <1>4, <1>5
  <2>4. tables.calls <= tables.callRows
    BY <1>6 DEF Filled
  <2>5. window \in 0..MaxBlock
    BY <1>1, <1>3
  <2>6. post \in BOOLEAN
    BY <1>1, Zenon
  <2>7. thread \in Charts \cup {None} /\ shown \in Figure \cup {None}
    BY <1>1, Zenon
  <2> QED BY <1>1, <1>3, <1>4, <2>1, <2>2, <2>3, <2>4, <2>5, <2>6, <2>7 DEF TypeOK
<1>8. Recorded /\ Alone /\ AloneIsComplete
  BY <1>1, <1>3, <1>4, <1>5 DEF Recorded, Alone, AloneIsComplete
<1> QED BY <1>6, <1>7, <1>8 DEF IInv

\* Every step keeps the invariant.
LEMMA InvStep == IInv /\ [Next]_vars => IInv'
<1> SUFFICES ASSUME IInv, [Next]_vars
             PROVE  IInv'
  OBVIOUS
<1>1. ASSUME NEW to \in Blocks, NextWindow(to)
      PROVE  IInv'
  BY <1>1, NextWindowInv
<1>2. CASE Crawl
  BY <1>2, CrawlInv
<1>3. ASSUME NEW t \in Targets, NEW end \in 0..overall, PostConfig(t, end)
      PROVE  IInv'
  BY <1>3, PostConfigInv
<1>4. CASE PostStart \/ WipePost \/ StopAuto \/ AutoPlot \/ \E t \in Targets : StartAuto(t)
  BY <1>4, StarterInv
<1>5. ASSUME NEW c \in Charts, Draw(c)
      PROVE  IInv'
  BY <1>5, CopyConfigInv, ReadStatusInv, ReadRowsInv, ReadUntilInv, ReadCallsInv, SimulateInv
     DEF Draw
<1>6. CASE UNCHANGED vars
  BY <1>6 DEF vars, IInv, TypeOK, Filled, Recorded, Alone, Reads, Whole, AloneIsComplete
<1> QED BY <1>1, <1>2, <1>3, <1>4, <1>5, <1>6 DEF Next

\* The invariant holds throughout.
LEMMA Invariant == Spec => []IInv
BY InvInit, InvStep, PTL DEF Spec

\* The state of the chart threads keeps its types; among them, that the tables
\* of the crawl are ahead of the row "overall" and calls' rows ahead of calls.
THEOREM HealthChartTypes == Spec => []TypeOK
<1>1. IInv => TypeOK
  BY DEF IInv
<1> QED BY Invariant, <1>1, PTL

\* A chart drawn by a thread that was alone is of one address and of all it did
\* up to the chart's last block: gen_hf_chart reads HFPlotConfig's copy and
\* five tables one after the other while the crawl fills them.
THEOREM AloneChartIsComplete == Spec => []AloneIsComplete
<1>1. IInv => AloneIsComplete
  BY DEF IInv
<1> QED BY Invariant, <1>1, PTL

=============================================================================
