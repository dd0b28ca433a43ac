----------------------------- MODULE MCPayments -----------------------------
(***************************************************************************)
(* An instance of Payments for TLC: one tariff and one pack of tokens, an  *)
(* administrator (account 1) and a customer.                               *)
(***************************************************************************)
EXTENDS Payments

MCProducts ==
    [tariff |-> [limit |-> 3, span |-> 2, tokens |-> 1],
     pack   |-> [limit |-> 0, span |-> 0, tokens |-> 2]]
=============================================================================
