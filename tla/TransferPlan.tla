----------------------------- MODULE TransferPlan -----------------------------
(***************************************************************************)
(* Who pays whom to settle a table's balances: debtors and creditors in    *)
(* the order of their IDs, each pays the next until nothing is owed.       *)
(* Balances are functions from players, who are numbered in the order of   *)
(* their IDs, to amounts.                                                  *)
(***************************************************************************)
EXTENDS InOrder, SequencesExt

\* The rows [player, amount] of the loop, with the debtors' amounts made positive.
CreditorsOf(b) ==
    LET ids == {p \in DOMAIN b : b[p] > 0}
    IN [i \in 1..Cardinality(ids) |-> [player |-> Position(ids, i), left |-> b[Position(ids, i)]]]
DebtorsOf(b) ==
    LET ids == {p \in DOMAIN b : b[p] < 0}
    IN [i \in 1..Cardinality(ids) |-> [player |-> Position(ids, i), left |-> -b[Position(ids, i)]]]

Begin(b) == [debtors |-> DebtorsOf(b), creditors |-> CreditorsOf(b), transfers |-> << >>,
             payer |-> 1, payee |-> 1]

Unfinished(s) == s.payer <= Len(s.debtors) /\ s.payee <= Len(s.creditors)

\* One pass of the loop.
Pay(s) ==
    LET d == s.debtors[s.payer]
        c == s.creditors[s.payee]
        amount == IF d.left < c.left THEN d.left ELSE c.left
    IN [debtors |-> [s.debtors EXCEPT ![s.payer].left = @ - amount],
        creditors |-> [s.creditors EXCEPT ![s.payee].left = @ - amount],
        transfers |-> Append(s.transfers, [payer |-> d.player, payee |-> c.player,
                                           amount |-> amount]),
        payer |-> IF d.left = amount THEN s.payer + 1 ELSE s.payer,
        payee |-> IF c.left = amount THEN s.payee + 1 ELSE s.payee]

\* transfer_plan: every pass is done with a player, so that there are fewer than players.
Plan(b) ==
    LET after[n \in 0..Cardinality(DOMAIN b)] ==
          IF n = 0 THEN Begin(b)
          ELSE IF Unfinished(after[n - 1]) THEN Pay(after[n - 1]) ELSE after[n - 1]
    IN after[Cardinality(DOMAIN b)].transfers

\* What a transfer brings player p, and what all of them do.
Brings(t, p) == CASE t.payee = p -> t.amount
                  [] t.payer = p -> -t.amount
                  [] OTHER -> 0
Receives(transfers, p) == SumFunction([i \in DOMAIN transfers |-> Brings(transfers[i], p)])
===============================================================================
