----------------------------- MODULE DebtAccount -----------------------------
(***************************************************************************)
(* The debt of an address as gen_hf_chart replays it (debtmonitor/views.py *)
(* 738-811, debt_function.py 143-253), beside the account the lending pool *)
(* keeps. Every action of the pool (external) leaves a log; update_data    *)
(* turns the log into a row, or drops it; the loop over the rows updates   *)
(* the four dictionaries. book is what the dictionaries hold after the     *)
(* rows so far: the loop begins from nothing for every chart and goes      *)
(* through the rows in order, so it passes through these states.           *)
(*                                                                         *)
(* Amounts are in units that bear interest (scaled balances), the same for *)
(* the pool and the dictionaries. ray_mul and ray_div work on floats and   *)
(* add half of the smallest amount: too little to be seen in a unit of the *)
(* model, but enough to tell a balance of nothing from one below it.       *)
(***************************************************************************)
EXTENDS Integers

CONSTANTS
  Tokens,       \* token_dict: the reserves a chart can be made for
  Amounts,      \* amounts of an action
  TransfersIn,  \* bound: aTokens received from or sent to another address
  MaxLogs       \* bound: actions of the pool

ASSUME DebtAssumption ==
  Amounts \subseteq Nat \ {0} /\ TransfersIn \in Nat /\ MaxLogs \in Nat

VARIABLES
  ledger,    \* [Tokens -> Account], the pool's
  book,      \* [Tokens -> Entry], the dictionaries of the replay
  raised,    \* TRUE: an assertion of the replay has ended the chart's thread
  repaid,    \* [Tokens -> Nat] what the address has repaid so far
  switched,  \* tokens it has ever taken out of its collateral by hand
  swapped,   \* TRUE: it has changed a debt's rate mode
  emptied,   \* TRUE: all of a collateral or of a variable debt was once taken
  used       \* how much of each bound is spent

debtVars == <<ledger, book, raised, repaid, switched, swapped, emptied, used>>

Modes == {"1", "2"}  \* stable = 1, variable = 2
Account == [collateral: Nat, able: BOOLEAN, variable: Nat, stable: Nat]
\* listed: the token is a key of collatearl_able_dict. dated: its stable debt
\* is not None.
Entry == [collateral: Nat, able: BOOLEAN, listed: BOOLEAN,
          variable: Nat, stable: Nat, dated: BOOLEAN]

DebtTypeOK ==
  /\ ledger \in [Tokens -> Account]
  /\ book \in [Tokens -> Entry]
  /\ raised \in BOOLEAN /\ swapped \in BOOLEAN /\ emptied \in BOOLEAN
  /\ repaid \in [Tokens -> Nat]
  /\ switched \subseteq Tokens
  /\ used \in [logs: Nat, transfers: Nat]

NoAccount == [collateral |-> 0, able |-> FALSE, variable |-> 0, stable |-> 0]
NoEntry == [collateral |-> 0, able |-> TRUE, listed |-> FALSE,
            variable |-> 0, stable |-> 0, dated |-> FALSE]

DebtInit ==
  /\ ledger = [t \in Tokens |-> NoAccount]
  /\ book = [t \in Tokens |-> NoEntry]
  /\ raised = FALSE /\ swapped = FALSE /\ emptied = FALSE
  /\ repaid = [t \in Tokens |-> 0]
  /\ switched = {}
  /\ used = [logs |-> 0, transfers |-> 0]

-----------------------------------------------------------------------------
(* update_target_debt_data, by action: the entry afterwards, and whether   *)
(* assert_negative raises instead.                                         *)

Deposited(e, a) ==
  [e EXCEPT !.collateral = @ + a, !.able = @ \/ e.collateral = 0, !.listed = TRUE]

\* A slip of the next definition: the balance before, not the one afterwards.
ShortBefore(balance, a, below) == balance < 0

\* A balance goes below zero. When all of it is taken rounding decides (below);
\* nothing taken from nothing is half of the smallest amount too much.
Short(balance, a, below) == balance < a \/ (balance = a /\ (a = 0 \/ below))

TakesTooMuch(e, a, below) == Short(e.collateral, a, below)
Withdrawn(e, a) == [e EXCEPT !.collateral = @ - a]

Borrowed(e, a, mode) ==
  IF mode = "1" THEN [e EXCEPT !.stable = @ + a, !.dated = TRUE]
                ELSE [e EXCEPT !.variable = @ + a]

RepaysTooMuch(e, a, mode, below) ==
  \/ mode = "1" /\ e.dated /\ Short(e.stable, a, below)
  \/ mode = "2" /\ Short(e.variable, a, below)
\* Neither branch is taken for another mode, nor for a stable debt of None.
RepaidBy(e, a, mode) ==
  CASE mode = "1" /\ e.dated -> [e EXCEPT !.stable = @ - a]
    [] mode = "2"            -> [e EXCEPT !.variable = @ - a]
    [] OTHER                 -> e

-----------------------------------------------------------------------------
(* The replay of one log. A log without data has no row (views.py:289).    *)

ReplayRow(raises, entries) ==
  /\ raised' = (raised \/ raises)
  /\ book' = IF raised \/ raises THEN book ELSE entries

NoRow == UNCHANGED <<book, raised>>

ReplayDeposit(t, a) == ReplayRow(FALSE, [book EXCEPT ![t] = Deposited(@, a)])
ReplayWithdraw(t, a) ==
  \E below \in BOOLEAN :
    ReplayRow(TakesTooMuch(book[t], a, below), [book EXCEPT ![t] = Withdrawn(@, a)])
ReplayBorrow(t, a, mode) == ReplayRow(FALSE, [book EXCEPT ![t] = Borrowed(@, a, mode)])

\* A slip of the next definition: the row of a repayment has its rate mode.
ReplayRepayOf(t, a) ==
  LET mode == IF book[t].variable >= a THEN "2" ELSE "1"
  IN ReplayRow(FALSE, [book EXCEPT ![t] = RepaidBy(@, a, mode)])

\* The log of a repayment has no rate mode, the row's is "-1".
ReplayRepay(t, a) ==
  ReplayRow(RepaysTooMuch(book[t], a, "-1", TRUE), [book EXCEPT ![t] = RepaidBy(@, a, "-1")])

\* "Interaction Data error": there is no branch for a swap of the rate mode.
ReplaySwap == ReplayRow(TRUE, book)

\* What a liquidation takes of either debt: the variable one first.
Cover(e, cover) ==
  IF e.variable < cover THEN [variable |-> e.variable, stable |-> cover - e.variable]
                        ELSE [variable |-> cover, stable |-> 0]
Covered(e, c) ==
  LET v == RepaidBy(e, c.variable, "2")
  IN IF c.stable > 0 THEN RepaidBy(v, c.stable, "1") ELSE v
CoversTooMuch(e, c, below) ==
  \/ RepaysTooMuch(e, c.variable, "2", below)
  \/ c.stable > 0 /\ RepaysTooMuch(e, c.stable, "1", below)

\* A slip of the next definition: the collateral seized is not taken.
ReplayLiquidationOfDebt(debt, cover, collateral, seized) ==
  LET c == Cover(book[debt], cover)
  IN \E below \in BOOLEAN :
       ReplayRow(CoversTooMuch(book[debt], c, below), [book EXCEPT ![debt] = Covered(@, c)])

\* Another: the collateral is taken of the asset of the debt.
ReplayLiquidationOfOne(debt, cover, collateral, seized) ==
  LET c == Cover(book[debt], cover)
      paid == Covered(book[debt], c)
  IN \E below \in BOOLEAN :
       ReplayRow(CoversTooMuch(book[debt], c, below) \/ TakesTooMuch(paid, seized, below),
                 [book EXCEPT ![debt] = Withdrawn(paid, seized)])

\* The variable debt is repaid first, by nothing when there is none.
ReplayLiquidation(debt, cover, collateral, seized) ==
  LET c == Cover(book[debt], cover)
      paid == [book EXCEPT ![debt] = Covered(@, c)]
  IN \E below \in BOOLEAN :
       ReplayRow(\/ CoversTooMuch(book[debt], c, below)
                 \/ TakesTooMuch(paid[collateral], seized, below),
                 [paid EXCEPT ![collateral] = Withdrawn(@, seized)])

-----------------------------------------------------------------------------
(* The pool (external): its account of the address and the log it leaves;  *)
(* a liquidation burns variable debt first.                                *)

Owes(t) == ledger[t].variable + ledger[t].stable
\* The pool takes a reserve out of the collateral when none is left of it.
Less(t, a) == [ledger EXCEPT ![t].collateral = @ - a, ![t].able = @ /\ ledger[t].collateral > a]

Log ==
  /\ used.logs < MaxLogs
  /\ used' = [used EXCEPT !.logs = @ + 1]

Deposit(t, a) ==
  /\ Log
  /\ ledger' = [ledger EXCEPT ![t].collateral = @ + a,
                              ![t].able = @ \/ ledger[t].collateral = 0]
  /\ ReplayDeposit(t, a)
  /\ UNCHANGED <<repaid, switched, swapped, emptied>>

Withdraw(t, a) ==
  /\ a <= ledger[t].collateral /\ Log
  /\ ledger' = Less(t, a)
  /\ emptied' = (emptied \/ a = ledger[t].collateral)
  /\ ReplayWithdraw(t, a)
  /\ UNCHANGED <<repaid, switched, swapped>>

Borrow(t, a, mode) ==
  /\ Log
  /\ ledger' = IF mode = "1" THEN [ledger EXCEPT ![t].stable = @ + a]
                             ELSE [ledger EXCEPT ![t].variable = @ + a]
  /\ ReplayBorrow(t, a, mode)
  /\ UNCHANGED <<repaid, switched, swapped, emptied>>

Repay(t, a, mode) ==
  /\ Log
  /\ \/ mode = "1" /\ a <= ledger[t].stable /\ ledger' = [ledger EXCEPT ![t].stable = @ - a]
     \/ mode = "2" /\ a <= ledger[t].variable /\ ledger' = [ledger EXCEPT ![t].variable = @ - a]
  /\ repaid' = [repaid EXCEPT ![t] = @ + a]
  /\ ReplayRepay(t, a)
  /\ UNCHANGED <<switched, swapped, emptied>>

LiquidationCall(debt, cover, collateral, seized) ==
  /\ cover <= Owes(debt) /\ seized <= ledger[collateral].collateral /\ Log
  /\ LET left == ledger[debt].variable - cover
     IN ledger' = [Less(collateral, seized) EXCEPT
          ![debt].variable = IF left < 0 THEN 0 ELSE left,
          ![debt].stable = IF left < 0 THEN @ + left ELSE @]
  /\ emptied' = \/ emptied
                 \/ cover >= ledger[debt].variable
                 \/ seized = ledger[collateral].collateral
  /\ ReplayLiquidation(debt, cover, collateral, seized)
  /\ UNCHANGED <<repaid, switched, swapped>>

Swap(t) ==
  /\ Log
  /\ \/ ledger[t].stable > 0 /\ ledger' = [ledger EXCEPT ![t].variable = Owes(t), ![t].stable = 0]
     \/ ledger[t].variable > 0 /\ ledger' = [ledger EXCEPT ![t].stable = Owes(t), ![t].variable = 0]
  /\ swapped' = TRUE
  /\ ReplaySwap
  /\ UNCHANGED <<repaid, switched, emptied>>

\* ReserveUsedAsCollateralEnabled and ...Disabled have no data (nor has
\* RebalanceStableBorrowRate, which leaves the amounts alone).
UseAsCollateral(t) ==
  /\ ledger[t].collateral > 0 /\ Log
  /\ ledger' = [ledger EXCEPT ![t].able = ~@]
  /\ switched' = switched \cup {t}
  /\ NoRow
  /\ UNCHANGED <<repaid, swapped, emptied>>

\* aTokens are a token like any other; the pool logs no transfer of them.
Transfer(t, a) ==
  /\ used.transfers < TransfersIn
  /\ used' = [used EXCEPT !.transfers = @ + 1]
  /\ \/ ledger' = [ledger EXCEPT ![t].collateral = @ + a,
                                 ![t].able = @ \/ ledger[t].collateral = 0]
     \/ a <= ledger[t].collateral /\ ledger' = Less(t, a)
  /\ NoRow
  /\ UNCHANGED <<repaid, switched, swapped, emptied>>

DebtNext ==
  \/ \E t \in Tokens, a \in Amounts :
       \/ Deposit(t, a) \/ Withdraw(t, a) \/ Transfer(t, a)
       \/ \E mode \in Modes : Borrow(t, a, mode) \/ Repay(t, a, mode)
       \/ \E c \in Tokens, s \in Amounts : LiquidationCall(t, a, c, s)
  \/ \E t \in Tokens : Swap(t) \/ UseAsCollateral(t)

DebtSpec == DebtInit /\ [][DebtNext]_debtVars

-----------------------------------------------------------------------------
(* Properties.                                                             *)

\* What the chart calls the debt of a token is what the address owes the pool
\* and all it has ever repaid: no repayment is subtracted (the rate mode of
\* its row fits neither branch, debt_function.py:213-233), nothing else is
\* lost or counted twice, and liquidations are told from repayments.
DebtIsThePoolsAndTheRepaid ==
  ~raised => \A t \in Tokens : book[t].variable + book[t].stable = Owes(t) + repaid[t]

\* get_token_value counts a token that is listed and able; the pool, one that
\* is used as collateral.
Counted(t) == IF book[t].listed /\ book[t].able THEN book[t].collateral ELSE 0
PoolCounts(t) == IF ledger[t].able THEN ledger[t].collateral ELSE 0

\* The collateral the health factor is computed from is the pool's, though no
\* row ever says what is collateral, for an address that has neither switched
\* that reserve by hand nor moved aTokens.
CollateralIsThePools ==
  ~raised /\ used.transfers = 0 =>
    \A t \in Tokens : /\ book[t].collateral = ledger[t].collateral
                      /\ t \notin switched => Counted(t) = PoolCounts(t)

\* The assertions of update_target_debt_data end the chart of an address that
\* has swapped a rate mode, moved aTokens, or had all of a collateral or of a
\* variable debt taken, which rounding can make less than nothing; of no other:
\* the debts the replay has too much of make nothing else go below zero.
RaisesOnlyAtTheBottom == raised => swapped \/ emptied \/ used.transfers > 0

=============================================================================
