---------------------------- MODULE InvoiceLife ----------------------------
(***************************************************************************)
(* What the desk promises about one invoice, seen from outside: the status *)
(* that invoice_status (main.py:161) shows, and whether the invoice holds  *)
(* an accepted commitment.  Runs, attempts, leases, messages and revisions *)
(* are invisible here.  InvoiceRuns is shown to implement this module.     *)
(***************************************************************************)
CONSTANT Invoices

VARIABLES
    status,      \* [Invoices -> Statuses]
    committed    \* the invoices that hold an accepted commitment

vars == <<status, committed>>

Outcomes == {"APPROVED", "NEEDS_REVIEW", "BLOCKED"}

Statuses == {"ABSENT", "CHECKING", "FAILED", "ON_HOLD", "REJECTED"} \cup Outcomes

Become(i, s) == status' = [status EXCEPT ![i] = s]

Init ==
    /\ status = [i \in Invoices |-> "ABSENT"]
    /\ committed = {}

(* A new document is stored and its first run is queued. *)
Submit(i) ==
    /\ status[i] = "ABSENT"
    /\ Become(i, "CHECKING")
    /\ UNCHANGED committed

(* The checks end with an outcome; only acceptance reserves money. *)
Decide(i) ==
    /\ status[i] = "CHECKING"
    /\ \E outcome \in Outcomes :
         /\ Become(i, outcome)
         /\ committed' = IF outcome = "APPROVED" THEN committed \cup {i} ELSE committed

(* Processing is given up without a decision. *)
GiveUp(i) ==
    /\ status[i] = "CHECKING"
    /\ Become(i, "FAILED")
    /\ UNCHANGED committed

(* Retry of failed processing, or a review that runs the checks again.  The *)
(* accepted and the rejected invoice never come back.                       *)
CheckAgain(i) ==
    /\ status[i] \in {"FAILED", "NEEDS_REVIEW", "BLOCKED", "ON_HOLD"}
    /\ Become(i, "CHECKING")
    /\ UNCHANGED committed

Hold(i) ==
    /\ status[i] = "NEEDS_REVIEW"
    /\ Become(i, "ON_HOLD")
    /\ UNCHANGED committed

Reject(i) ==
    /\ status[i] \in {"NEEDS_REVIEW", "BLOCKED", "ON_HOLD"}
    /\ Become(i, "REJECTED")
    /\ UNCHANGED committed

Next == \E i \in Invoices :
    \/ Submit(i) \/ Decide(i) \/ GiveUp(i)
    \/ CheckAgain(i) \/ Hold(i) \/ Reject(i)

Spec == Init /\ [][Next]_vars

(* Checking always ends: nothing else is promised to happen. *)
FairSpec == Spec /\ \A i \in Invoices : WF_vars(Decide(i) \/ GiveUp(i))

=============================================================================
