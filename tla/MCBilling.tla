----------------------------- MODULE MCBilling -----------------------------
(***************************************************************************)
(* Billing for TLC: one plan at 900 rupees a month with no annual price.   *)
(***************************************************************************)
EXTENDS Billing, TLC

MCMonthly == [p \in Plans |-> 90000]
MCAnnual == [p \in Plans |-> 0]

Symmetry == Permutations(SubIds) \cup Permutations(Requests)
=============================================================================
