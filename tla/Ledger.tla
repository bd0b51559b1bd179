------------------------------- MODULE Ledger -------------------------------
(***************************************************************************)
(* The money side of a workspace: what finalize decides and reserves while *)
(* invoices of the same orders and the same business identity are decided  *)
(* by several workers.  The deciding transaction is taken apart into the   *)
(* lock of the workspace row, the reading of the ledger with the decision, *)
(* and the writes with the commit.  Before it comes the evaluation without *)
(* a lock that the progress view and the assistant are given.              *)
(*                                                                         *)
(* A reading is what the rules know of a document: the outcome of all      *)
(* checks that do not look at other invoices is one field, others.  Amounts *)
(* are whole units of the smallest that matters.  total stands for total,  *)
(* date and currency together when two invoices are compared.  The row     *)
(* locks on the orders, taken after the workspace's, protect nothing more. *)
(* Runs, attempts and tokens are InvoiceRuns; here any worker may take up  *)
(* an invoice whose run is active, also several workers the same one.      *)
(***************************************************************************)
EXTENDS Integers, FiniteSets, Functions

CONSTANTS
    Invoices, Workers, Vendors, Orders, Skus, References,
    None,              \* a null column
    WeakIdentity,      \* [References -> Nat]: references that differ in punctuation
    OrderVendor,       \* [Orders -> Vendors]
    Ceiling,           \* [Orders -> Nat]: the approved amount of an order
    Authorised,        \* [Orders -> [Skus -> Nat]]: the approved quantities
    Readings,          \* the readings that documents and reviewers produce
    History,           \* imported commitments
    MaxRevision        \* bound: revisions explored per invoice

Reading ==
    [vendor: Vendors \cup {None}, reference: References, total: Nat,
     quantities: [Skus -> Nat], order: Orders \cup {None},
     others: {"passed", "review", "blocked"}]

(* A row of the commitment table; invoice is None in imported history. *)
Commitment ==
    [invoice: Invoices \cup {None}, vendor: Vendors, order: Orders,
     reference: References, amount: Nat, quantities: [Skus -> Nat]]

SumOfAmounts(rows) == SumFunction([c \in rows |-> c.amount])

SumOfQuantities(rows, s) == SumFunction([c \in rows |-> c.quantities[s]])

(* The rows of an order stay within its approved amount and quantities.    *)
WithinLimits(rows, o) ==
    /\ SumOfAmounts(rows) <= Ceiling[o]
    /\ \A s \in Skus : SumOfQuantities(rows, s) <= Authorised[o][s]

(* Imported rows have passed the trigger of the table as all others do.    *)
ASSUME LedgerAssumption ==
    /\ None \notin Vendors \cup Orders \cup Invoices \cup Workers
    /\ IsFiniteSet(Invoices)
    /\ WeakIdentity \in [References -> Nat]
    /\ OrderVendor \in [Orders -> Vendors]
    /\ Ceiling \in [Orders -> Nat]
    /\ Authorised \in [Orders -> [Skus -> Nat]]
    /\ Readings \in SUBSET Reading
    /\ History \in SUBSET Commitment
    /\ \A c \in History : c.invoice = None
    /\ IsFiniteSet(History)
    /\ \A o \in Orders : WithinLimits({c \in History : c.order = o}, o)
    /\ MaxRevision \in Nat \ {0}

VARIABLES
    invoices,      \* per invoice: revision (0: not uploaded), run, workflow, arrival
    readings,      \* per invoice, the fields and selections of its current revision
    decisions,     \* per invoice, its current decision
    commitments,   \* the commitment table
    lock,          \* the worker whose transaction holds the workspace row, or None
    workers        \* per worker, where it stands and what it has computed

vars == <<invoices, readings, decisions, commitments, lock, workers>>

-----------------------------------------------------------------------------
(* The rules, as far as they look at the ledger.                           *)

(* The order an invoice is evaluated against: the selected or printed one, *)
(* if it belongs to the vendor.                                            *)
MatchedOrder(r) ==
    IF r.vendor # None /\ r.order # None /\ OrderVendor[r.order] = r.vendor
    THEN r.order ELSE None

RowsOf(o) == {c \in commitments : c.order = o}

Used(o) == SumOfAmounts(RowsOf(o))

UsedQuantity(o, s) == SumOfQuantities(RowsOf(o), s)

WithinBudget(r, o) == r.total > 0 /\ Used(o) + r.total <= Ceiling[o]

WithinQuantities(r, o) ==
    \A s \in Skus :
        r.quantities[s] > 0 => UsedQuantity(o, s) + r.quantities[s] <= Authorised[o][s]

(* What financial_context finds of other invoices: the current decision of *)
(* each, whatever its outcome, and imported history.                       *)
Prior(i) ==
    {[invoice |-> j, vendor |-> decisions[j].vendor, reference |-> decisions[j].reference,
      total |-> decisions[j].total] : j \in {k \in Invoices \ {i} : decisions[k] # None}}
    \cup
    {[invoice |-> None, vendor |-> c.vendor, reference |-> c.reference, total |-> c.amount] :
        c \in {d \in commitments : d.invoice = None}}

Collisions(i, r) == {p \in Prior(i) : p.vendor = r.vendor /\ p.reference = r.reference}

(* Mutated form of Similar: only the exact reference counts. *)
SimilarExactly(i, r) == Collisions(i, r)

Similar(i, r) ==
    {p \in Prior(i) :
        p.vendor = r.vendor /\ WeakIdentity[p.reference] = WeakIdentity[r.reference]}

(* The duplicate check.  The original is the first collision in an order   *)
(* that the query does not say: any of them.                               *)
DuplicateChecks(i, r) ==
    IF r.vendor = None THEN {[state |-> "review", original |-> None]}
    ELSE IF Collisions(i, r) # {}
    THEN {[state |-> IF p.total = r.total THEN "blocked" ELSE "review", original |-> p.invoice] :
             p \in Collisions(i, r)}
    ELSE {[state |-> IF Similar(i, r) # {} THEN "review" ELSE "passed", original |-> None]}

Issue(code, passed) == IF passed THEN {} ELSE {<<code, "review">>}

(* The checks that do not pass, with their state. *)
Issues(r, duplicate) ==
    LET o == MatchedOrder(r)
    IN  (IF r.others = "passed" THEN {} ELSE {<<"others", r.others>>})
        \cup (IF duplicate.state = "passed" THEN {} ELSE {<<"duplicate", duplicate.state>>})
        \cup Issue("vendor", r.vendor # None)
        \cup Issue("po", o # None)
        \cup Issue("budget", o # None /\ WithinBudget(r, o))
        \cup Issue("quantity", o # None => WithinQuantities(r, o))

Outcome(issues) ==
    IF \E c \in issues : c[2] = "blocked" THEN "BLOCKED"
    ELSE IF issues # {} THEN "NEEDS_REVIEW" ELSE "APPROVED"

(* evaluate, for invoice i read as r. *)
Evaluations(i, r) ==
    {LET issues == Issues(r, d)
     IN  [outcome |-> Outcome(issues), issues |-> issues, vendor |-> r.vendor,
          order |-> MatchedOrder(r), reference |-> r.reference, total |-> r.total,
          quantities |-> r.quantities, duplicate |-> d.original] :
        d \in DuplicateChecks(i, r)}

(* What the assistant's text was written about. *)
Explanation(result) == [outcome |-> result.outcome, issues |-> result.issues]

-----------------------------------------------------------------------------
Absent == [revision |-> 0, run |-> "NONE", rejected |-> FALSE, arrival |-> 0]

(* explained: the outcome and the issues that the assistant's explanation  *)
(* was written for; None without a usable explanation.                     *)
Idle ==
    [step |-> "idle", invoice |-> None, revision |-> 0, explained |-> None,
     match |-> None, result |-> None]

Init ==
    /\ invoices = [i \in Invoices |-> Absent]
    /\ readings = [i \in Invoices |-> None]
    /\ decisions = [i \in Invoices |-> None]
    /\ commitments = History
    /\ lock = None
    /\ workers = [w \in Workers |-> Idle]

Uploaded(i) == invoices[i].revision > 0

Arrived == {i \in Invoices : Uploaded(i)}

-----------------------------------------------------------------------------
(* Transactions of people; each holds the workspace lock from start to end. *)

Submit(i) ==
    /\ lock = None
    /\ ~Uploaded(i)
    /\ invoices' = [invoices EXCEPT ![i] =
           [revision |-> 1, run |-> "ACTIVE", rejected |-> FALSE,
            arrival |-> Cardinality(Arrived) + 1]]
    /\ \E r \in Readings : readings' = [readings EXCEPT ![i] = r]
    /\ UNCHANGED <<decisions, commitments, lock, workers>>

Accepted(i) == decisions[i] # None /\ decisions[i].outcome = "APPROVED"

(* Mutated form of Changeable: accepted invoices are not closed. *)
ChangeableAlways(i) == lock = None

(* lock_for_action: accepted invoices are immutable. *)
Changeable(i) == lock = None /\ ~Accepted(i)

(* A review of an invoice that was read: other fields, vendor or order.   *)
Review(i) ==
    /\ Changeable(i)
    /\ invoices[i].run \in {"COMPLETED", "FAILED"}
    /\ ~invoices[i].rejected
    /\ invoices[i].revision < MaxRevision
    /\ invoices' = [invoices EXCEPT ![i].revision = @ + 1, ![i].run = "ACTIVE"]
    /\ \E r \in Readings : readings' = [readings EXCEPT ![i] = r]
    /\ UNCHANGED <<decisions, commitments, lock, workers>>

Retry(i) ==
    /\ Changeable(i)
    /\ invoices[i].run = "FAILED"
    /\ invoices' = [invoices EXCEPT ![i].run = "ACTIVE"]
    /\ UNCHANGED <<readings, decisions, commitments, lock, workers>>

Reject(i) ==
    /\ Changeable(i)
    /\ invoices[i].run = "COMPLETED" /\ ~invoices[i].rejected
    /\ invoices' = [invoices EXCEPT ![i].rejected = TRUE]
    /\ UNCHANGED <<readings, decisions, commitments, lock, workers>>

-----------------------------------------------------------------------------
(* A worker.                                                               *)

Move(w, row) == workers' = [workers EXCEPT ![w] = row]

(* The orders that grounded_match may leave of the assistant's proposal: a *)
(* printed or selected order takes precedence.                             *)
Proposals(r) == IF r.vendor # None /\ r.order = None THEN Orders \cup {None} ELSE {None}

(* preliminary_checks and prepare_assistance: an evaluation without a lock, *)
(* which the assistant explains if that works.                             *)
Prepare(w, i) ==
    /\ workers[w].step = "idle"
    /\ invoices[i].run = "ACTIVE"
    /\ \E e \in Evaluations(i, readings[i]), ready \in BOOLEAN :
         \E o \in IF ready THEN Proposals(readings[i]) ELSE {None} :
            Move(w, [step |-> "prepared", invoice |-> i, revision |-> invoices[i].revision,
                     explained |-> IF ready THEN Explanation(e) ELSE None,
                     match |-> o, result |-> None])
    /\ UNCHANGED <<invoices, readings, decisions, commitments, lock>>

(* Mutated form of LockFree: the transaction does not wait for the lock. *)
LockFreeAlways(w) == workers[w].step = "prepared"

LockFree(w) == workers[w].step = "prepared" /\ lock = None

(* The run of the worker still stands for the invoice.                     *)
Holds(w) ==
    /\ invoices[workers[w].invoice].run = "ACTIVE"
    /\ invoices[workers[w].invoice].revision = workers[w].revision

(* finalize takes the workspace row, then looks whether its run still      *)
(* stands; otherwise it ends without a write.                              *)
LockWorkspace(w) ==
    /\ LockFree(w)
    /\ \/ Holds(w) /\ lock' = w /\ Move(w, [workers[w] EXCEPT !.step = "locked"])
       \/ ~Holds(w) /\ lock' = lock /\ Move(w, Idle)
    /\ UNCHANGED <<invoices, readings, decisions, commitments>>

(* Mutated form of Refreshed: only another outcome refreshes the text. *)
RefreshedOnOutcome(explained, matched, result) ==
    IF explained # None /\ explained.outcome # result.outcome
    THEN Explanation(result) ELSE explained

(* A ready explanation is replaced when an order was matched or when the   *)
(* outcome is not the one it was written for.                              *)
Refreshed(explained, matched, result) ==
    IF explained # None /\ (matched \/ explained.outcome # result.outcome)
    THEN Explanation(result) ELSE explained

Matched(r, o) == IF o = None THEN r ELSE [r EXCEPT !.order = o]

(* financial_context, the match that still holds and evaluate, all under   *)
(* the lock.  Assistance may have been switched off and documents archived *)
(* since it was prepared.                                                  *)
Judge(w) ==
    /\ workers[w].step = "locked"
    /\ \E explained \in {workers[w].explained, None} :
       \E o \in IF explained # None THEN {workers[w].match, None} ELSE {None} :
       \E result \in Evaluations(workers[w].invoice, Matched(readings[workers[w].invoice], o)) :
          Move(w, [workers[w] EXCEPT
                     !.step = "judged", !.match = o, !.result = result,
                     !.explained = Refreshed(explained, o # None, result)])
    /\ UNCHANGED <<invoices, readings, decisions, commitments, lock>>

NewCommitment(i, result) ==
    [invoice |-> i, vendor |-> result.vendor, order |-> result.order,
     reference |-> result.reference, amount |-> result.total, quantities |-> result.quantities]

(* guard_commitment and the constraints of the commitment table, in parts: *)
(* the order is the vendor's, ...                                          *)
GuardOwner(c) == c.order # None /\ c.vendor # None /\ OrderVendor[c.order] = c.vendor

(* ... its amount is not exceeded, ...                                     *)
GuardBudget(c) == c.amount > 0 /\ Used(c.order) + c.amount <= Ceiling[c.order]

(* ... none of its lines is, also those that are not billed, ...           *)
GuardQuantities(c) ==
    \A s \in Skus : UsedQuantity(c.order, s) + c.quantities[s] <= Authorised[c.order][s]

(* ... and neither the invoice nor the identity is there already.          *)
GuardUnique(c) ==
    \A d \in commitments :
        d.invoice # c.invoice /\ ~(d.vendor = c.vendor /\ d.reference = c.reference)

GuardAccepts(c) == GuardOwner(c) /\ GuardBudget(c) /\ GuardQuantities(c) /\ GuardUnique(c)

Unlock(w) == lock' = IF lock = w THEN None ELSE lock

NewDecision(w) ==
    LET result == workers[w].result
    IN  [outcome |-> result.outcome, issues |-> result.issues, vendor |-> result.vendor,
         reference |-> result.reference, total |-> result.total,
         duplicate |-> result.duplicate, explained |-> workers[w].explained,
         matched |-> workers[w].match # None]

(* Mutated form of Reserved: every decision reserves. *)
ReservedAlways(i, result) == {NewCommitment(i, result)}

(* The commitment that goes with a decision. *)
Reserved(i, result) ==
    IF result.outcome = "APPROVED" THEN {NewCommitment(i, result)} ELSE {}

(* The decision, its commitment and the end of the run are committed.      *)
Record(w) ==
    LET i == workers[w].invoice
        result == workers[w].result
    IN  /\ workers[w].step = "judged"
        /\ result.outcome = "APPROVED" => GuardAccepts(NewCommitment(i, result))
        /\ decisions' = [decisions EXCEPT ![i] = NewDecision(w)]
        /\ commitments' = commitments \cup Reserved(i, result)
        /\ invoices' = [invoices EXCEPT ![i].run = "COMPLETED"]
        /\ Unlock(w)
        /\ Move(w, Idle)
        /\ UNCHANGED readings

(* No other attempt is deciding the invoice: it would hold the run's row.  *)
RunRowFree(w) == lock \notin {None, w} => workers[lock].invoice # workers[w].invoice

(* The worker's transaction is rolled back: it crashed, or an exception or *)
(* a refusal of the database left the run active, or failed it.            *)
Stop(w) ==
    /\ workers[w].step # "idle"
    /\ \/ invoices' = invoices
       \/ /\ Holds(w) /\ RunRowFree(w)
          /\ invoices' = [invoices EXCEPT ![workers[w].invoice].run = "FAILED"]
    /\ Unlock(w)
    /\ Move(w, Idle)
    /\ UNCHANGED <<readings, decisions, commitments>>

-----------------------------------------------------------------------------
Next ==
    \/ \E i \in Invoices : Submit(i) \/ Review(i) \/ Retry(i) \/ Reject(i)
    \/ \E w \in Workers, i \in Invoices : Prepare(w, i)
    \/ \E w \in Workers : LockWorkspace(w) \/ Judge(w) \/ Record(w) \/ Stop(w)

Spec == Init /\ [][Next]_vars

-----------------------------------------------------------------------------
Outcomes == {"APPROVED", "NEEDS_REVIEW", "BLOCKED"}

OpenChecks ==
    SUBSET ({"others", "duplicate", "vendor", "po", "budget", "quantity"} \X {"review", "blocked"})

Explanations == [outcome: Outcomes, issues: OpenChecks]

Results ==
    [outcome: Outcomes, issues: OpenChecks, vendor: Vendors \cup {None},
     order: Orders \cup {None}, reference: References, total: Nat,
     quantities: [Skus -> Nat], duplicate: Invoices \cup {None}]

Decisions ==
    [outcome: Outcomes, issues: OpenChecks, vendor: Vendors \cup {None},
     reference: References, total: Nat, duplicate: Invoices \cup {None},
     explained: Explanations \cup {None}, matched: BOOLEAN]

(* A null column is not a row.                                             *)
ASSUME NullAssumption == None \notin Decisions

InvoiceRows ==
    [revision: 0..MaxRevision, run: {"NONE", "ACTIVE", "COMPLETED", "FAILED"},
     rejected: BOOLEAN, arrival: Nat]

WorkerRows ==
    [step: {"idle", "prepared", "locked", "judged"}, invoice: Invoices \cup {None},
     revision: 0..MaxRevision, explained: Explanations \cup {None},
     match: Orders \cup {None}, result: Results \cup {None}]

(* The types; in particular every commitment has a vendor and an order,    *)
(* which the rules may leave open in a decision.                           *)
TypeOK ==
    /\ invoices \in [Invoices -> InvoiceRows]
    /\ readings \in [Invoices -> Reading \cup {None}]
    /\ decisions \in [Invoices -> Decisions \cup {None}]
    /\ commitments \in SUBSET Commitment
    /\ lock \in Workers \cup {None}
    /\ workers \in [Workers -> WorkerRows]

(* The database's own guard never has to refuse what the rules accepted:   *)
(* budgets, quantities and identities that evaluate read are still those   *)
(* of the commit, so no approval ends as a failed run.                     *)
GuardNeverRefuses ==
    \A w \in Workers :
        workers[w].step = "judged" /\ workers[w].result.outcome = "APPROVED"
        => GuardAccepts(NewCommitment(workers[w].invoice, workers[w].result))

(* No two accepted invoices of a vendor have references that differ only   *)
(* in punctuation.  The database enforces uniqueness of the exact          *)
(* reference only; for similar ones there is nothing but the rules.        *)
NoSimilarAcceptance ==
    \A c, d \in commitments :
        /\ c # d
        /\ c.vendor = d.vendor
        /\ c.invoice # None
        => WeakIdentity[c.reference] # WeakIdentity[d.reference]

(* The explanation stored with a decision follows the final policy,        *)
(* although it is written before the lock is taken (pipeline.py:194): it   *)
(* is about the outcome of the decision, and, where an order was matched,  *)
(* about its open checks.                                                  *)
ExplanationFollowsPolicy ==
    \A i \in Invoices :
        LET d == decisions[i]
        IN  d # None /\ d.explained # None
            => /\ d.explained.outcome = d.outcome
               /\ d.matched => d.explained.issues = d.issues

(* What an outsider sees of the ledger. *)
Accounts == INSTANCE OrderAccounts WITH
    Identities <- {WeakIdentity[r] : r \in References},
    left <- [o \in Orders |-> Ceiling[o] - Used(o)],
    goods <- [o \in Orders |-> [s \in Skus |-> Authorised[o][s] - UsedQuantity(o, s)]],
    billed <- [i \in Invoices |-> IF Accepted(i) THEN decisions[i].total ELSE 0],
    taken <- [v \in Vendors |-> {WeakIdentity[c.reference] :
                                    c \in {d \in commitments : d.vendor = v}}]

(* However evaluations, reviews and workers interleave, an invoice is      *)
(* accepted in one step and for good: the decision that people see and the *)
(* row that reserves are for the same amount, which was still left of the  *)
(* order of the same vendor, and no similar reference was accepted before  *)
(* (pipeline.py:278, rules.py:468).                                        *)
KeepsAccounts == Accounts!Spec

(* checks.py and verdict.ts tell the reader of a duplicate that there is an *)
(* earlier invoice, the original, to open.                                 *)
DuplicateNamesEarlierInvoice ==
    \A i \in Invoices :
        decisions[i] # None /\ decisions[i].outcome = "BLOCKED" /\ decisions[i].duplicate # None
        => invoices[decisions[i].duplicate].arrival < invoices[i].arrival
=============================================================================
