------------------------------- MODULE MCLedger -------------------------------
(***************************************************************************)
(* Parameters of Ledger for TLC: one player wins from two others; and      *)
(* transfer_plan against a reference, on every larger balance.             *)
(***************************************************************************)
EXTENDS Ledger

ThreePlayersPoints == {<<2, -1, -1>>}

\* Amounts of the rows before the i-th.
Before(rows, i) == SumFunction([n \in 1..(i - 1) |-> rows[n].left])

\* Lay the debts end to end, and the credits: who pays whom what is where they overlap.
Overlap(b, i, j) ==
    LET D == DebtorsOf(b)
        C == CreditorsOf(b)
        from == {Before(D, i), Before(C, j)}
        to == {Before(D, i + 1), Before(C, j + 1)}
    IN Min(to) - Max(from)

Reference(b) ==
    {[payer |-> DebtorsOf(b)[x[1]].player, payee |-> CreditorsOf(b)[x[2]].player,
      amount |-> Overlap(b, x[1], x[2])] :
       x \in {y \in (DOMAIN DebtorsOf(b)) \X (DOMAIN CreditorsOf(b)) : Overlap(b, y[1], y[2]) > 0}}

\* On every zero-sum balance of five players up to three points the plan is the reference.
ASSUME PlanIsReference ==
    \A b \in [1..5 -> -3..3] : SumFunction(b) = 0 =>
        /\ ToSet(Plan(b)) = Reference(b)
        /\ Len(Plan(b)) = Cardinality(Reference(b))
===============================================================================
