--------------------------- MODULE OrderAccounts ---------------------------
(***************************************************************************)
(* What a workspace promises about the orders it accepts invoices on, seen *)
(* from outside: each acceptance is one step.  It takes the amount that is *)
(* shown of the invoice out of what is left of one order, and a reference  *)
(* of the order's vendor that nothing like it has been accepted under.     *)
(* Evaluations, reviews, locks and workers are invisible here; Ledger is   *)
(* shown to implement this module.                                         *)
(***************************************************************************)
EXTENDS Integers

CONSTANTS
    Invoices, Vendors, Orders, Skus,
    Identities,    \* what references have in common that differ in punctuation
    OrderVendor, Ceiling, Authorised

VARIABLES
    left,      \* per order, the amount that may still be accepted
    goods,     \* per order and SKU, the quantity that may still be accepted
    billed,    \* per invoice, the amount it was accepted for (0: not accepted)
    taken      \* per vendor, the identities accepted

vars == <<left, goods, billed, taken>>

(* Imported invoices have used some of each order. *)
Init ==
    /\ left \in [Orders -> Nat] /\ \A o \in Orders : left[o] <= Ceiling[o]
    /\ goods \in [Orders -> [Skus -> Nat]]
    /\ \A o \in Orders, s \in Skus : goods[o][s] <= Authorised[o][s]
    /\ billed = [i \in Invoices |-> 0]
    /\ taken \in [Vendors -> SUBSET Identities]

Deliver(o) ==
    /\ goods' \in [Orders -> [Skus -> Nat]]
    /\ \A s \in Skus : goods'[o][s] <= goods[o][s]
    /\ \A p \in Orders \ {o} : goods'[p] = goods[p]

Accept(i, o) ==
    /\ billed[i] = 0
    /\ \E amount \in 1 .. left[o] :
          /\ left' = [left EXCEPT ![o] = @ - amount]
          /\ billed' = [billed EXCEPT ![i] = amount]
    /\ Deliver(o)
    /\ \E identity \in Identities \ taken[OrderVendor[o]] :
          taken' = [taken EXCEPT ![OrderVendor[o]] = @ \cup {identity}]

Next == \E i \in Invoices, o \in Orders : Accept(i, o)

Spec == Init /\ [][Next]_vars
=============================================================================
