--------------------------- MODULE MCCreditLedger ---------------------------
(* Model-checking instance of CreditLedger. *)
EXTENDS CreditLedger, TLC

CONSTANTS free, pro

PlanCredits == [p \in Plans |-> IF p = pro THEN 3 ELSE 1]

\* Only the plans differ from each other.
Interchangeable ==
    Permutations(Readers) \cup Permutations(Requests)
        \cup Permutations(Packs) \cup Permutations(Buyers)
=============================================================================
