------------------------------ MODULE MCLedger ------------------------------
(* Ledger with one vendor and one order of 4 units, 1 of them used before. *)
(* "A1" and "A-2" compete for what is left; "A-1" and "A-2" use it exactly, *)
(* in money and in quantity.  "A1" and "A-1" are similar.  One reading has  *)
(* the identity of another and another amount, and the other "A1" names no *)
(* order, so that a match may be proposed.  The rules do not distinguish    *)
(* between invoices or between workers.                                    *)
EXTENDS Ledger, TLC

CONSTANTS v1, o1, s1

MCWeakIdentity == [r \in References |-> IF r = "A-2" THEN 2 ELSE IF r = "H" THEN 3 ELSE 1]
MCOrderVendor == [o \in Orders |-> v1]
MCCeiling == [o \in Orders |-> 4]
MCAuthorised == [o \in Orders |-> [s \in Skus |-> 4]]

Paper(reference, total, quantity, order, others) ==
    [vendor |-> v1, reference |-> reference, total |-> total,
     quantities |-> [s \in Skus |-> quantity], order |-> order, others |-> others]

MCReadings ==
    {Paper("A1", 2, 1, None, "passed"), Paper("A1", 1, 1, o1, "review"),
     Paper("A-1", 1, 1, o1, "passed"), Paper("A-2", 2, 2, o1, "passed")}

MCHistory ==
    {[invoice |-> None, vendor |-> v1, order |-> o1, reference |-> "H", amount |-> 1,
      quantities |-> [s \in Skus |-> 1]]}

Symmetry == Permutations(Workers) \cup Permutations(Invoices)
=============================================================================
