---------------------------- MODULE LedgerProofs ----------------------------
(***************************************************************************)
(* Proofs about Ledger, for any sets of invoices, workers, vendors, orders *)
(* and references, any limits and any number of revisions.  evaluate and   *)
(* the trigger compare the same sums, so for what an approval bills it is  *)
(* enough that nothing is committed in between; that the other lines of    *)
(* the order are not exceeded either is a fact about all commitments.  The *)
(* refinement, that Ledger implements OrderAccounts, comes last.           *)
(***************************************************************************)
EXTENDS Ledger, SumTheorems

(* A worker that decides holds the workspace, and its run still stands.    *)
DecidersHoldTheLock ==
    \A w \in Workers :
        workers[w].step \in {"locked", "judged"}
        => lock = w /\ invoices[workers[w].invoice].run = "ACTIVE"

(* Busy workers have an invoice; judged ones a result.                     *)
WorkersAreFilled ==
    \A w \in Workers :
        /\ workers[w].step # "idle" => workers[w].invoice \in Invoices
        /\ workers[w].step = "judged" => workers[w].result \in Results

(* Invoices with a run have been uploaded and read; accepted ones rest.    *)
InvoicesAreRead ==
    \A i \in Invoices :
        /\ invoices[i].run # "NONE" => invoices[i].revision > 0
        /\ invoices[i].revision > 0 => readings[i] \in Reading
        /\ Accepted(i) => invoices[i].run = "COMPLETED"

(* A commitment of an invoice stands for its accepting decision.           *)
Stands(c) ==
    c.invoice # None =>
        /\ Accepted(c.invoice)
        /\ decisions[c.invoice].vendor = c.vendor
        /\ decisions[c.invoice].reference = c.reference

CommitmentsStand == \A c \in commitments : Stands(c)

Dissimilar(c, d) == c.vendor = d.vendor => WeakIdentity[c.reference] # WeakIdentity[d.reference]

(* What the lock protects between the evaluation and the commit: the       *)
(* approved order is still the vendor's and has the money, and neither the *)
(* invoice nor a similar reference has been accepted.                      *)
Fits(c) ==
    /\ GuardOwner(c)
    /\ GuardBudget(c)
    /\ GuardQuantities(c)
    /\ GuardUnique(c)
    /\ \A d \in commitments : Dissimilar(c, d)

Approving(w) == workers[w].step = "judged" /\ workers[w].result.outcome = "APPROVED"

Approval(w) == NewCommitment(workers[w].invoice, workers[w].result)

ApprovalsFit == \A w \in Workers : Approving(w) => Fits(Approval(w))

(* No order is exceeded, in money or in any of its lines. *)
OrdersHold ==
    /\ IsFiniteSet(commitments)
    /\ \A o \in Orders : WithinLimits(RowsOf(o), o)

(* An explanation that a worker is about to store follows its result.      *)
Follows(row) ==
    row.step = "judged" /\ row.explained # None
    => /\ row.explained.outcome = row.result.outcome
       /\ row.match # None => row.explained.issues = row.result.issues

ExplanationsFollow ==
    /\ \A w \in Workers : Follows(workers[w])
    /\ ExplanationFollowsPolicy

LedgerInv ==
    /\ TypeOK
    /\ DecidersHoldTheLock
    /\ WorkersAreFilled
    /\ InvoicesAreRead
    /\ CommitmentsStand
    /\ ApprovalsFit
    /\ OrdersHold
    /\ ExplanationsFollow
    /\ NoSimilarAcceptance

-----------------------------------------------------------------------------
(* The sums over the commitments of an order.                              *)

LEMMA AmountsAreSummed ==
    ASSUME NEW rows \in SUBSET Commitment, IsFiniteSet(rows)
    PROVE  /\ SumOfAmounts(rows) \in Int
           /\ \A c \in Commitment \ rows :
                 SumOfAmounts(rows \cup {c}) = SumOfAmounts(rows) + c.amount
    <1> DEFINE f == [d \in rows |-> d.amount]
    <1>1. SumOfAmounts(rows) = SumFunctionOnSet(f, rows)
        BY DEF SumOfAmounts, SumFunction
    <1>2. \A d \in rows : f[d] \in Int
        BY DEF Commitment
    <1>3. SumFunctionOnSet(f, rows) \in Int
        BY <1>2, SumType
    <1>4. ASSUME NEW c \in Commitment \ rows
          PROVE  SumOfAmounts(rows \cup {c}) = SumOfAmounts(rows) + c.amount
        <2> DEFINE more == rows \cup {c}
                   g == [d \in more |-> d.amount]
        <2>1. SumOfAmounts(more) = SumFunctionOnSet(g, more)
            BY DEF SumOfAmounts, SumFunction
        <2>2. \A d \in more : g[d] \in Int
            BY DEF Commitment
        <2>3. SumFunctionOnSet(g, more) = g[c] + SumFunctionOnSet(g, rows)
            BY <2>2, SumAdds
        <2>4. SumFunctionOnSet(g, rows) = SumFunctionOnSet(f, rows)
            BY SumIsOfValues
        <2> QED  BY <1>1, <1>3, <2>1, <2>3, <2>4 DEF Commitment
    <1> QED  BY <1>1, <1>3, <1>4

LEMMA QuantitiesAreSummed ==
    ASSUME NEW rows \in SUBSET Commitment, IsFiniteSet(rows), NEW s \in Skus
    PROVE  /\ SumOfQuantities(rows, s) \in Int
           /\ \A c \in Commitment \ rows :
                 SumOfQuantities(rows \cup {c}, s) = SumOfQuantities(rows, s) + c.quantities[s]
    <1> DEFINE f == [d \in rows |-> d.quantities[s]]
    <1>1. SumOfQuantities(rows, s) = SumFunctionOnSet(f, rows)
        BY DEF SumOfQuantities, SumFunction
    <1>2. \A d \in rows : f[d] \in Int
        BY DEF Commitment
    <1>3. SumFunctionOnSet(f, rows) \in Int
        BY <1>2, SumType
    <1>4. ASSUME NEW c \in Commitment \ rows
          PROVE  SumOfQuantities(rows \cup {c}, s) = SumOfQuantities(rows, s) + c.quantities[s]
        <2> DEFINE more == rows \cup {c}
                   g == [d \in more |-> d.quantities[s]]
        <2>1. SumOfQuantities(more, s) = SumFunctionOnSet(g, more)
            BY DEF SumOfQuantities, SumFunction
        <2>2. \A d \in more : g[d] \in Int
            BY DEF Commitment
        <2>3. SumFunctionOnSet(g, more) = g[c] + SumFunctionOnSet(g, rows)
            BY <2>2, SumAdds
        <2>4. SumFunctionOnSet(g, rows) = SumFunctionOnSet(f, rows)
            BY SumIsOfValues
        <2> QED  BY <1>1, <1>3, <2>1, <2>3, <2>4 DEF Commitment
    <1> QED  BY <1>1, <1>3, <1>4

LEMMA RowsAreFinite ==
    ASSUME TypeOK, OrdersHold, NEW o
    PROVE  RowsOf(o) \in SUBSET Commitment /\ IsFiniteSet(RowsOf(o))
    BY FS_Subset DEF TypeOK, OrdersHold, RowsOf

-----------------------------------------------------------------------------
(* The rules.                                                              *)

LEMMA OrderIsMatched ==
    ASSUME NEW r \in Reading
    PROVE  /\ MatchedOrder(r) \in Orders \cup {None}
           /\ MatchedOrder(r) # None => /\ r.vendor # None
                                        /\ OrderVendor[MatchedOrder(r)] = r.vendor
    BY DEF MatchedOrder, Reading

LEMMA PriorsAreTyped ==
    ASSUME TypeOK, NEW i \in Invoices, NEW p \in Prior(i)
    PROVE  p.invoice \in Invoices \cup {None}
    BY DEF TypeOK, Prior

LEMMA DuplicateChecksAreTyped ==
    ASSUME TypeOK, NEW i \in Invoices, NEW r \in Reading, NEW d \in DuplicateChecks(i, r)
    PROVE  /\ d.state \in {"passed", "review", "blocked"}
           /\ d.original \in Invoices \cup {None}
           /\ d.state = "passed" => Similar(i, r) = {}
    <1>1. CASE r.vendor = None
        BY <1>1 DEF DuplicateChecks
    <1>2. CASE r.vendor # None /\ Collisions(i, r) # {}
        <2>1. \A p \in Collisions(i, r) : p.invoice \in Invoices \cup {None}
            BY PriorsAreTyped DEF Collisions
        <2> QED  BY <1>2, <2>1 DEF DuplicateChecks
    <1>3. CASE r.vendor # None /\ Collisions(i, r) = {}
        BY <1>3 DEF DuplicateChecks
    <1> QED  BY <1>1, <1>2, <1>3

(* What evaluate returns, and what an approval means.                      *)
LEMMA EvaluationsAreTyped ==
    ASSUME TypeOK, NEW i \in Invoices, NEW r \in Reading, NEW e \in Evaluations(i, r)
    PROVE  /\ e \in Results
           /\ e.vendor = r.vendor /\ e.order = MatchedOrder(r)
           /\ e.reference = r.reference /\ e.total = r.total /\ e.quantities = r.quantities
           /\ e.outcome = "APPROVED" => /\ MatchedOrder(r) # None
                                        /\ WithinBudget(r, MatchedOrder(r))
                                        /\ WithinQuantities(r, MatchedOrder(r))
                                        /\ Similar(i, r) = {}
    <1>1. PICK d \in DuplicateChecks(i, r) :
             e = [outcome |-> Outcome(Issues(r, d)), issues |-> Issues(r, d),
                  vendor |-> r.vendor, order |-> MatchedOrder(r), reference |-> r.reference,
                  total |-> r.total, quantities |-> r.quantities, duplicate |-> d.original]
        BY DEF Evaluations
    <1>2. /\ d.state \in {"passed", "review", "blocked"}
          /\ d.original \in Invoices \cup {None}
          /\ d.state = "passed" => Similar(i, r) = {}
        BY DuplicateChecksAreTyped
    <1>3. Issues(r, d) \in OpenChecks
        BY <1>2 DEF Issues, Issue, OpenChecks, Reading
    <1>4. Outcome(Issues(r, d)) \in Outcomes
        BY DEF Outcome, Outcomes
    <1>5. e \in Results
        BY <1>1, <1>2, <1>3, <1>4, OrderIsMatched DEF Results, Reading
    <1>6. ASSUME e.outcome = "APPROVED"
          PROVE  /\ MatchedOrder(r) # None
                 /\ WithinBudget(r, MatchedOrder(r))
                 /\ WithinQuantities(r, MatchedOrder(r))
                 /\ Similar(i, r) = {}
        <2>1. Issues(r, d) = {}
            BY <1>1, <1>6 DEF Outcome
        <2>2. Issue("budget", MatchedOrder(r) # None /\ WithinBudget(r, MatchedOrder(r))) = {}
            BY <2>1 DEF Issues
        <2>3. Issue("quantity", MatchedOrder(r) # None => WithinQuantities(r, MatchedOrder(r))) = {}
            BY <2>1 DEF Issues
        <2>4. d.state = "passed"
            BY <2>1 DEF Issues
        <2> QED  BY <1>2, <2>2, <2>3, <2>4 DEF Issue
    <1> QED  BY <1>1, <1>5, <1>6

-----------------------------------------------------------------------------
(* The steps.  First the types.                                            *)

LEMMA InitInv == Init => LedgerInv
    <1> SUFFICES ASSUME Init PROVE LedgerInv
        OBVIOUS
    <1> USE LedgerAssumption
    <1>1. TypeOK
        BY DEF Init, Absent, Idle, TypeOK, InvoiceRows, WorkerRows
    <1>2. DecidersHoldTheLock /\ WorkersAreFilled /\ ApprovalsFit
        BY DEF Init, Idle, DecidersHoldTheLock, WorkersAreFilled, ApprovalsFit, Approving
    <1>3. InvoicesAreRead
        BY DEF Init, Absent, InvoicesAreRead, Accepted
    <1>4. CommitmentsStand /\ NoSimilarAcceptance
        BY DEF Init, CommitmentsStand, Stands, NoSimilarAcceptance
    <1>5. OrdersHold
        BY DEF Init, OrdersHold, RowsOf
    <1>6. ExplanationsFollow
        BY DEF Init, Idle, ExplanationsFollow, Follows, ExplanationFollowsPolicy
    <1> QED  BY <1>1, <1>2, <1>3, <1>4, <1>5, <1>6 DEF LedgerInv

(* People change one invoice, and at most what is read of it.  Its new     *)
(* state is active, or completed and rejected.                             *)
PeopleStep(i) ==
    /\ ~Accepted(i)
    /\ \E row \in InvoiceRows :
         /\ row.revision > 0 /\ row.run \in {"ACTIVE", "COMPLETED"}
         /\ invoices' = [invoices EXCEPT ![i] = row]
         /\ \/ readings' = readings /\ invoices[i].revision > 0
            \/ \E r \in Readings : readings' = [readings EXCEPT ![i] = r]
    /\ lock = None
    /\ UNCHANGED <<decisions, commitments, lock, workers>>

LEMMA PeopleSteps ==
    ASSUME LedgerInv, NEW i \in Invoices,
           Submit(i) \/ Review(i) \/ Retry(i) \/ Reject(i)
    PROVE  PeopleStep(i)
    <1> USE LedgerAssumption
    <1>1. invoices[i] \in InvoiceRows /\ invoices \in [Invoices -> InvoiceRows]
        BY DEF LedgerInv, TypeOK
    <1>2. invoices[i].run # "NONE" => invoices[i].revision > 0
        BY DEF LedgerInv, InvoicesAreRead
    <1>3. ASSUME Submit(i) PROVE PeopleStep(i)
        <2>1. Cardinality(Arrived) \in Nat
            BY FS_Subset, FS_CardinalityType DEF Arrived
        <2> DEFINE row == [revision |-> 1, run |-> "ACTIVE", rejected |-> FALSE,
                           arrival |-> Cardinality(Arrived) + 1]
        <2>2. row \in InvoiceRows /\ row.revision > 0 /\ row.run = "ACTIVE"
            BY <2>1 DEF InvoiceRows
        <2>3. ~Accepted(i)
            BY <1>3 DEF Submit, Uploaded, LedgerInv, InvoicesAreRead
        <2>4. invoices' = [invoices EXCEPT ![i] = row]
            BY <1>3 DEF Submit
        <2> QED  BY <1>3, <2>2, <2>3, <2>4 DEF Submit, PeopleStep
    <1>4. ASSUME Review(i) PROVE PeopleStep(i)
        <2> DEFINE row == [invoices[i] EXCEPT !.revision = @ + 1, !.run = "ACTIVE"]
        <2>1. row \in InvoiceRows /\ row.revision > 0 /\ row.run = "ACTIVE"
            BY <1>1, <1>4 DEF Review, Changeable, InvoiceRows
        <2>2. invoices' = [invoices EXCEPT ![i] = row]
            BY <1>4 DEF Review
        <2> QED  BY <1>4, <2>1, <2>2 DEF Review, Changeable, PeopleStep
    <1>5. ASSUME Retry(i) PROVE PeopleStep(i)
        <2> DEFINE row == [invoices[i] EXCEPT !.run = "ACTIVE"]
        <2>1. row \in InvoiceRows /\ row.revision > 0 /\ row.run = "ACTIVE"
            BY <1>1, <1>2, <1>5 DEF Retry, Changeable, InvoiceRows
        <2>2. invoices' = [invoices EXCEPT ![i] = row]
            BY <1>5 DEF Retry
        <2> QED  BY <1>2, <1>5, <2>1, <2>2 DEF Retry, Changeable, PeopleStep
    <1>6. ASSUME Reject(i) PROVE PeopleStep(i)
        <2> DEFINE row == [invoices[i] EXCEPT !.rejected = TRUE]
        <2>1. row \in InvoiceRows /\ row.revision > 0 /\ row.run = "COMPLETED"
            BY <1>1, <1>2, <1>6 DEF Reject, Changeable, InvoiceRows
        <2>2. invoices' = [invoices EXCEPT ![i] = row]
            BY <1>6 DEF Reject
        <2> QED  BY <1>2, <1>6, <2>1, <2>2 DEF Reject, Changeable, PeopleStep
    <1> QED  BY <1>3, <1>4, <1>5, <1>6

(* What does not read invoices and readings is kept by steps that leave    *)
(* the rest alone.                                                         *)
LEMMA LedgerUntouched ==
    ASSUME LedgerInv, UNCHANGED <<decisions, commitments>>
    PROVE  /\ CommitmentsStand' /\ NoSimilarAcceptance'
           /\ OrdersHold' /\ ExplanationFollowsPolicy'
           /\ \A i \in Invoices : Accepted(i)' <=> Accepted(i)
           /\ \A c : Fits(c) => Fits(c)'
    <1>1. CommitmentsStand' /\ NoSimilarAcceptance'
        BY DEF LedgerInv, CommitmentsStand, Stands, Accepted, NoSimilarAcceptance
    <1>2. ASSUME NEW i \in Invoices PROVE Accepted(i)' <=> Accepted(i)
        BY DEF Accepted
    <1>3. ASSUME NEW c, Fits(c) PROVE Fits(c)'
        <2>1. /\ Used(c.order)' = Used(c.order)
              /\ \A s : UsedQuantity(c.order, s)' = UsedQuantity(c.order, s)
            BY DEF Used, UsedQuantity, RowsOf
        <2> QED  BY <1>3, <2>1
                 DEF Fits, GuardOwner, GuardBudget, GuardQuantities, GuardUnique, Dissimilar
    <1>4. OrdersHold'
        BY DEF LedgerInv, OrdersHold, RowsOf
    <1>5. ExplanationFollowsPolicy'
        BY DEF LedgerInv, ExplanationsFollow, ExplanationFollowsPolicy
    <1> QED  BY <1>1, <1>2, <1>3, <1>4, <1>5

LEMMA FitsIsOfTheRow ==
    ASSUME NEW v \in Workers, NEW c, c = Approval(v)', Fits(c)'
    PROVE  Fits(Approval(v))'
    BY DEF Fits, GuardOwner, GuardBudget, GuardQuantities, GuardUnique, Dissimilar,
           Used, UsedQuantity, RowsOf

LEMMA PeoplePreserve ==
    ASSUME LedgerInv, NEW i \in Invoices, PeopleStep(i)
    PROVE  LedgerInv'
    <1> USE LedgerAssumption
    <1>1. TypeOK'
        BY DEF LedgerInv, PeopleStep, TypeOK
    <1>2. DecidersHoldTheLock'
        BY DEF LedgerInv, PeopleStep, DecidersHoldTheLock
    <1>3. WorkersAreFilled'
        BY DEF LedgerInv, PeopleStep, WorkersAreFilled
    <1>4. InvoicesAreRead'
        BY DEF LedgerInv, PeopleStep, InvoicesAreRead, Accepted, TypeOK
    <1>5. ApprovalsFit'
        BY LedgerUntouched
           DEF LedgerInv, PeopleStep, ApprovalsFit, Approving, Approval, NewCommitment
    <1>6. ExplanationsFollow'
        BY LedgerUntouched DEF LedgerInv, PeopleStep, ExplanationsFollow, Follows
    <1> QED  BY <1>1, <1>2, <1>3, <1>4, <1>5, <1>6, LedgerUntouched DEF LedgerInv, PeopleStep

(* A worker moves on, the tables stay.                                     *)
LEMMA WorkerMoves ==
    ASSUME LedgerInv, NEW w \in Workers, NEW row \in WorkerRows, Move(w, row),
           UNCHANGED <<invoices, readings, decisions, commitments>>,
           lock' = lock \/ (lock = None /\ lock' = w),
           row.step # "idle" => row.invoice \in Invoices,
           row.step \in {"locked", "judged"}
               => lock' = w /\ invoices[row.invoice].run = "ACTIVE",
           row.step = "judged"
               => /\ row.result \in Results
                  /\ row.result.outcome = "APPROVED"
                         => Fits(NewCommitment(row.invoice, row.result)),
           Follows(row)
    PROVE  LedgerInv'
    <1> USE LedgerAssumption
    <1>1. workers' = [workers EXCEPT ![w] = row] /\ workers \in [Workers -> WorkerRows]
        BY DEF Move, LedgerInv, TypeOK
    <1>2. TypeOK'
        BY <1>1 DEF LedgerInv, TypeOK
    <1>3. DecidersHoldTheLock'
        BY <1>1 DEF LedgerInv, DecidersHoldTheLock
    <1>4. WorkersAreFilled'
        BY <1>1 DEF LedgerInv, WorkersAreFilled
    <1>5. InvoicesAreRead'
        BY DEF LedgerInv, InvoicesAreRead, Accepted
    <1>6. ASSUME NEW v \in Workers, Approving(v)' PROVE Fits(Approval(v))'
        <2>1. PICK c : c = Approval(v)'
            OBVIOUS
        <2>2. Fits(c)
            BY <1>1, <1>6, <2>1 DEF LedgerInv, ApprovalsFit, Approving, Approval, NewCommitment
        <2>3. Fits(c)'
            BY <2>2, LedgerUntouched
        <2> QED  BY <2>1, <2>3, FitsIsOfTheRow
    <1>7. ExplanationsFollow'
        <2>1. \A v \in Workers : Follows(workers'[v])
            BY <1>1 DEF LedgerInv, ExplanationsFollow
        <2> QED  BY <2>1, LedgerUntouched DEF ExplanationsFollow, Follows
    <1> QED  BY <1>2, <1>3, <1>4, <1>5, <1>6, <1>7, LedgerUntouched DEF LedgerInv, ApprovalsFit

LEMMA PreparePreserves ==
    ASSUME LedgerInv, NEW w \in Workers, NEW i \in Invoices, Prepare(w, i)
    PROVE  LedgerInv'
    <1> USE LedgerAssumption
    <1>1. PICK e \in Evaluations(i, readings[i]), ready \in BOOLEAN :
          \E o \in IF ready THEN Proposals(readings[i]) ELSE {None} :
             Move(w, [step |-> "prepared", invoice |-> i, revision |-> invoices[i].revision,
                      explained |-> IF ready THEN Explanation(e) ELSE None,
                      match |-> o, result |-> None])
        BY DEF Prepare
    <1>2. PICK o \in IF ready THEN Proposals(readings[i]) ELSE {None} :
             Move(w, [step |-> "prepared", invoice |-> i, revision |-> invoices[i].revision,
                      explained |-> IF ready THEN Explanation(e) ELSE None,
                      match |-> o, result |-> None])
        BY <1>1
    <1>3. readings[i] \in Reading /\ invoices[i].revision \in 0..MaxRevision
        BY DEF Prepare, LedgerInv, InvoicesAreRead, TypeOK, InvoiceRows
    <1>4. Explanation(e) \in Explanations
        BY <1>3, EvaluationsAreTyped DEF LedgerInv, Explanation, Explanations, Results
    <1>5. PICK row : row = [step |-> "prepared", invoice |-> i,
                            revision |-> invoices[i].revision,
                            explained |-> IF ready THEN Explanation(e) ELSE None,
                            match |-> o, result |-> None]
        OBVIOUS
    <1>6. row \in WorkerRows
        BY <1>2, <1>3, <1>4, <1>5 DEF WorkerRows, Proposals
    <1>7. Move(w, row) /\ row.step = "prepared" /\ row.invoice \in Invoices /\ Follows(row)
        BY <1>2, <1>5 DEF Follows
    <1> QED  BY <1>6, <1>7, WorkerMoves DEF Prepare

LEMMA LockWorkspacePreserves ==
    ASSUME LedgerInv, NEW w \in Workers, LockWorkspace(w)
    PROVE  LedgerInv'
    <1> USE LedgerAssumption
    <1>1. workers[w] \in WorkerRows /\ workers[w].invoice \in Invoices
        BY DEF LockWorkspace, LockFree, LedgerInv, TypeOK, WorkersAreFilled
    <1>2. ASSUME Holds(w), lock' = w, Move(w, [workers[w] EXCEPT !.step = "locked"])
          PROVE  LedgerInv'
        <2>1. PICK row : row = [workers[w] EXCEPT !.step = "locked"]
            OBVIOUS
        <2>2. row \in WorkerRows
            BY <1>1, <2>1 DEF WorkerRows
        <2>3. /\ Move(w, row) /\ row.step = "locked" /\ row.invoice = workers[w].invoice
              /\ Follows(row)
            BY <1>1, <1>2, <2>1 DEF WorkerRows, Follows
        <2> QED  BY <1>1, <1>2, <2>2, <2>3, WorkerMoves DEF LockWorkspace, LockFree, Holds
    <1>3. ASSUME lock' = lock, Move(w, Idle)
          PROVE  LedgerInv'
        <2>1. Idle \in WorkerRows /\ Idle.step = "idle" /\ Follows(Idle)
            BY DEF Idle, WorkerRows, Follows
        <2> QED  BY <1>3, <2>1, WorkerMoves DEF LockWorkspace
    <1> QED  BY <1>2, <1>3 DEF LockWorkspace

(* An approval under the lock fits: what financial_context finds contains  *)
(* every commitment, by the invoice's decision or by imported history.     *)
LEMMA ApprovedFits ==
    ASSUME LedgerInv, NEW i \in Invoices, invoices[i].run = "ACTIVE",
           NEW r \in Reading, NEW e \in Evaluations(i, r), e.outcome = "APPROVED"
    PROVE  Fits(NewCommitment(i, e))
    <1> USE LedgerAssumption
    <1> DEFINE o == MatchedOrder(r)
    <1>1. PICK c : c = NewCommitment(i, e)
        OBVIOUS
    <1>2. /\ c.invoice = i /\ c.vendor = r.vendor /\ c.order = o
          /\ c.reference = r.reference /\ c.amount = r.total /\ c.quantities = r.quantities
          /\ o # None /\ WithinBudget(r, o) /\ WithinQuantities(r, o) /\ Similar(i, r) = {}
        BY <1>1, EvaluationsAreTyped DEF LedgerInv, NewCommitment
    <1>3. GuardOwner(c)
        BY <1>2, OrderIsMatched DEF GuardOwner
    <1>4. GuardBudget(c)
        BY <1>2 DEF GuardBudget, WithinBudget
    <1>5. ~Accepted(i)
        BY DEF LedgerInv, InvoicesAreRead
    <1>6. ASSUME NEW d \in commitments PROVE d.invoice # i /\ Dissimilar(c, d)
        <2>1. d \in Commitment /\ Stands(d)
            BY DEF LedgerInv, TypeOK, CommitmentsStand
        <2>2. d.invoice # i
            BY <1>5, <2>1 DEF Stands
        <2>3. \E p \in Prior(i) : p.vendor = d.vendor /\ p.reference = d.reference
            <3>1. CASE d.invoice = None
                <4> DEFINE p == [invoice |-> None, vendor |-> d.vendor,
                                 reference |-> d.reference, total |-> d.amount]
                <4>1. p \in Prior(i)
                    BY <3>1 DEF Prior
                <4> QED  BY <4>1
            <3>2. CASE d.invoice # None
                <4> DEFINE j == d.invoice
                <4> DEFINE p == [invoice |-> j, vendor |-> decisions[j].vendor,
                                 reference |-> decisions[j].reference,
                                 total |-> decisions[j].total]
                <4>1. j \in Invoices \ {i} /\ Accepted(j)
                    BY <2>1, <2>2, <3>2 DEF Stands, Commitment
                <4>2. p \in Prior(i)
                    BY <4>1 DEF Prior, Accepted
                <4>3. p.vendor = d.vendor /\ p.reference = d.reference
                    BY <2>1, <3>2 DEF Stands
                <4> QED  BY <4>2, <4>3
            <3> QED  BY <3>1, <3>2
        <2>4. Dissimilar(c, d)
            BY <1>2, <2>3 DEF Dissimilar, Similar
        <2> QED  BY <2>2, <2>4
    <1>7. GuardUnique(c)
        BY <1>2, <1>6 DEF GuardUnique, Dissimilar
    <1>8. GuardQuantities(c)
        <2> SUFFICES ASSUME NEW s \in Skus
                     PROVE  UsedQuantity(o, s) + r.quantities[s] <= Authorised[o][s]
            BY <1>2 DEF GuardQuantities
        <2>1. o \in Orders /\ r.quantities[s] \in Nat
            BY <1>2, OrderIsMatched DEF Reading
        <2>2. UsedQuantity(o, s) \in Int
            BY RowsAreFinite, QuantitiesAreSummed DEF LedgerInv, UsedQuantity
        <2>3. UsedQuantity(o, s) <= Authorised[o][s]
            BY <2>1 DEF LedgerInv, OrdersHold, WithinLimits, UsedQuantity
        <2>4. r.quantities[s] > 0 => UsedQuantity(o, s) + r.quantities[s] <= Authorised[o][s]
            BY <1>2 DEF WithinQuantities
        <2> QED  BY <2>1, <2>2, <2>3, <2>4
    <1> QED  BY <1>1, <1>3, <1>4, <1>6, <1>7, <1>8 DEF Fits

LEMMA JudgePreserves ==
    ASSUME LedgerInv, NEW w \in Workers, Judge(w)
    PROVE  LedgerInv'
    <1> USE LedgerAssumption
    <1> DEFINE i == workers[w].invoice
    <1>1. /\ workers[w] \in WorkerRows /\ i \in Invoices
          /\ lock = w /\ invoices[i].run = "ACTIVE"
        BY DEF Judge, LedgerInv, TypeOK, WorkersAreFilled, DecidersHoldTheLock
    <1>2. readings[i] \in Reading
        BY <1>1 DEF LedgerInv, InvoicesAreRead
    <1>3. PICK x \in {workers[w].explained, None} :
          \E o \in IF x # None THEN {workers[w].match, None} ELSE {None} :
          \E result \in Evaluations(i, Matched(readings[i], o)) :
             Move(w, [workers[w] EXCEPT
                        !.step = "judged", !.match = o, !.result = result,
                        !.explained = Refreshed(x, o # None, result)])
        BY DEF Judge
    <1>4a. PICK o \in IF x # None THEN {workers[w].match, None} ELSE {None} :
          \E result \in Evaluations(i, Matched(readings[i], o)) :
             Move(w, [workers[w] EXCEPT
                        !.step = "judged", !.match = o, !.result = result,
                        !.explained = Refreshed(x, o # None, result)])
        BY <1>3
    <1>4. PICK result \in Evaluations(i, Matched(readings[i], o)) :
             Move(w, [workers[w] EXCEPT
                        !.step = "judged", !.match = o, !.result = result,
                        !.explained = Refreshed(x, o # None, result)])
        BY <1>4a
    <1>5. o \in Orders \cup {None}
        BY <1>1, <1>4a DEF WorkerRows
    <1>6. Matched(readings[i], o) \in Reading
        BY <1>2, <1>5 DEF Matched, Reading
    <1>7. result \in Results
        BY <1>1, <1>6, EvaluationsAreTyped DEF LedgerInv
    <1>8. Refreshed(x, o # None, result) \in Explanations \cup {None}
        BY <1>1, <1>3, <1>7 DEF Refreshed, Explanation, Explanations, Results, WorkerRows
    <1>9. PICK row : row = [workers[w] EXCEPT
                              !.step = "judged", !.match = o, !.result = result,
                              !.explained = Refreshed(x, o # None, result)]
        OBVIOUS
    <1>10. row \in WorkerRows
        BY <1>1, <1>5, <1>7, <1>8, <1>9 DEF WorkerRows
    <1>11. Move(w, row) /\ row.step = "judged" /\ row.invoice = i /\ row.result = result
        BY <1>1, <1>4, <1>9 DEF WorkerRows
    <1>12. result.outcome = "APPROVED" => Fits(NewCommitment(i, result))
        BY <1>1, <1>6, ApprovedFits
    <1>13. UNCHANGED <<invoices, readings, decisions, commitments, lock>>
        BY DEF Judge
    <1>14. Follows(row)
        BY <1>1, <1>9 DEF Follows, Refreshed, Explanation, WorkerRows
    <1> QED  BY <1>1, <1>7, <1>10, <1>11, <1>12, <1>13, <1>14, WorkerMoves

(* A commitment that the trigger accepts exceeds nothing.                  *)
LEMMA CommitmentKeepsOrders ==
    ASSUME TypeOK, OrdersHold, NEW c \in Commitment, Fits(c), commitments' = commitments \cup {c}
    PROVE  OrdersHold'
    <1>1. c \notin commitments /\ c.order \in Orders
        BY DEF Fits, GuardUnique, Commitment
    <1>2. IsFiniteSet(commitments')
        BY FS_AddElement DEF OrdersHold
    <1>3. ASSUME NEW o \in Orders PROVE WithinLimits(RowsOf(o)', o)
        <2>1. CASE o # c.order
            <3>1. RowsOf(o)' = RowsOf(o)
                BY <2>1 DEF RowsOf
            <3> QED  BY <3>1 DEF OrdersHold
        <2>2. CASE o = c.order
            <3> DEFINE rows == RowsOf(o)
            <3>1. RowsOf(o)' = rows \cup {c} /\ c \notin rows
                BY <1>1, <2>2 DEF RowsOf
            <3>2. rows \in SUBSET Commitment /\ IsFiniteSet(rows)
                BY RowsAreFinite
            <3> HIDE DEF rows
            <3>3. SumOfAmounts(rows \cup {c}) = SumOfAmounts(rows) + c.amount
                BY <3>1, <3>2, AmountsAreSummed
            <3>4. \A s \in Skus :
                     SumOfQuantities(rows \cup {c}, s) = SumOfQuantities(rows, s) + c.quantities[s]
                BY <3>1, <3>2, QuantitiesAreSummed
            <3>5. SumOfAmounts(rows) + c.amount <= Ceiling[o]
                BY <2>2 DEF Fits, GuardBudget, Used, rows
            <3>6. \A s \in Skus : SumOfQuantities(rows, s) + c.quantities[s] <= Authorised[o][s]
                BY <2>2 DEF Fits, GuardQuantities, UsedQuantity, rows
            <3> QED  BY <3>1, <3>3, <3>4, <3>5, <3>6 DEF WithinLimits
        <2> QED  BY <2>1, <2>2
    <1> QED  BY <1>2, <1>3 DEF OrdersHold

(* The commit of a decision.  No other worker decides, so nothing of the   *)
(* others rests on the tables it changes.                                  *)
LEMMA RecordPreserves ==
    ASSUME LedgerInv, NEW w \in Workers, Record(w)
    PROVE  LedgerInv'
    <1> USE LedgerAssumption
    <1>1. PICK i : i = workers[w].invoice
        OBVIOUS
    <1>2. PICK result : result = workers[w].result
        OBVIOUS
    <1>3. /\ i \in Invoices /\ result \in Results /\ workers[w] \in WorkerRows
          /\ lock = w /\ invoices[i].run = "ACTIVE" /\ invoices[i].revision > 0
          /\ ~Accepted(i) /\ invoices \in [Invoices -> InvoiceRows]
          /\ decisions \in [Invoices -> Decisions \cup {None}]
        BY <1>1, <1>2 DEF Record, LedgerInv, TypeOK, WorkersAreFilled, DecidersHoldTheLock,
                          InvoicesAreRead
    <1>4. PICK c : c = NewCommitment(i, result)
        OBVIOUS
    <1>5. /\ c.invoice = i /\ c.vendor = result.vendor /\ c.reference = result.reference
          /\ result.outcome = "APPROVED" => Fits(c)
        BY <1>1, <1>2, <1>4
           DEF Record, LedgerInv, ApprovalsFit, Approving, Approval, NewCommitment
    <1>6. result.outcome = "APPROVED" => c \in Commitment
        BY <1>3, <1>4, <1>5 DEF Fits, GuardOwner, NewCommitment, Commitment, Results
    <1>7. PICK d : d = NewDecision(w)
        OBVIOUS
    <1>8. /\ d \in Decisions /\ d.outcome = result.outcome /\ d.issues = result.issues
          /\ d.vendor = result.vendor /\ d.reference = result.reference
          /\ d.explained = workers[w].explained /\ (d.matched <=> workers[w].match # None)
        BY <1>2, <1>3, <1>7 DEF NewDecision, Decisions, Results, WorkerRows
    <1>9. /\ decisions' = [decisions EXCEPT ![i] = d]
          /\ commitments' = commitments \cup (IF result.outcome = "APPROVED" THEN {c} ELSE {})
          /\ invoices' = [invoices EXCEPT ![i].run = "COMPLETED"]
          /\ lock' = None /\ readings' = readings
          /\ workers' = [workers EXCEPT ![w] = Idle]
        BY <1>1, <1>2, <1>3, <1>4, <1>7 DEF Record, Reserved, Unlock, Move
    <1>10. Idle \in WorkerRows /\ Idle.step = "idle"
        BY DEF Idle, WorkerRows
    <1>11. \A v \in Workers : v # w => workers[v].step \notin {"locked", "judged"}
        BY <1>3 DEF LedgerInv, DecidersHoldTheLock
    <1>12. d # None
        BY <1>8, NullAssumption
    <1>13. TypeOK'
        <2>1. invoices' \in [Invoices -> InvoiceRows]
            BY <1>3, <1>9 DEF InvoiceRows
        <2>2. commitments' \in SUBSET Commitment
            BY <1>6, <1>9 DEF LedgerInv, TypeOK
        <2> QED  BY <1>3, <1>8, <1>9, <1>10, <2>1, <2>2 DEF LedgerInv, TypeOK
    <1>14. DecidersHoldTheLock' /\ WorkersAreFilled' /\ ApprovalsFit'
        BY <1>9, <1>10, <1>11
           DEF LedgerInv, TypeOK, DecidersHoldTheLock, WorkersAreFilled, ApprovalsFit, Approving
    <1>15. InvoicesAreRead'
        BY <1>3, <1>9 DEF LedgerInv, InvoicesAreRead, Accepted, InvoiceRows
    <1>16. ASSUME NEW x \in commitments' PROVE Stands(x)'
        <2>1. CASE x \in commitments
            <3>1. Stands(x) /\ x \in Commitment
                BY <2>1 DEF LedgerInv, CommitmentsStand, TypeOK
            <3>2. x.invoice # i
                BY <1>3, <3>1 DEF Stands
            <3> QED  BY <1>9, <3>1, <3>2 DEF Stands, Accepted, Commitment
        <2>2. CASE x = c /\ result.outcome = "APPROVED"
            BY <1>3, <1>5, <1>8, <1>9, <1>12, <2>2 DEF Stands, Accepted
        <2> QED  BY <1>9, <2>1, <2>2
    <1>17. NoSimilarAcceptance'
        BY <1>5, <1>9 DEF LedgerInv, NoSimilarAcceptance, Fits, Dissimilar
    <1>18. OrdersHold'
        <2>1. CASE result.outcome # "APPROVED"
            BY <1>9, <2>1 DEF LedgerInv, OrdersHold, RowsOf
        <2>2. CASE result.outcome = "APPROVED"
            BY <1>5, <1>6, <1>9, <2>2, CommitmentKeepsOrders DEF LedgerInv
        <2> QED  BY <2>1, <2>2
    <1>19. ExplanationsFollow'
        <2>1. \A v \in Workers : Follows(workers[v])
            BY DEF LedgerInv, ExplanationsFollow
        <2>2. Follows(Idle)
            BY DEF Follows, Idle
        <2>3. \A v \in Workers : Follows(workers'[v])
            BY <1>9, <2>1, <2>2 DEF LedgerInv, TypeOK
        <2>4. ExplanationFollowsPolicy'
            <3> SUFFICES ASSUME NEW j \in Invoices, decisions'[j] # None,
                                decisions'[j].explained # None
                         PROVE  /\ decisions'[j].explained.outcome = decisions'[j].outcome
                                /\ decisions'[j].matched
                                   => decisions'[j].explained.issues = decisions'[j].issues
                BY DEF ExplanationFollowsPolicy
            <3>1. CASE j # i
                BY <1>3, <1>9, <3>1
                   DEF LedgerInv, ExplanationsFollow, ExplanationFollowsPolicy
            <3>2. CASE j = i
                <4>1. decisions'[j] = d
                    BY <1>3, <1>9, <3>2
                <4>2. Follows(workers[w]) /\ workers[w].step = "judged"
                    BY <2>1 DEF Record
                <4> QED  BY <1>2, <1>8, <4>1, <4>2 DEF Follows
            <3> QED  BY <3>1, <3>2
        <2> QED  BY <2>3, <2>4 DEF ExplanationsFollow, Follows
    <1> QED  BY <1>13, <1>14, <1>15, <1>16, <1>17, <1>18, <1>19 DEF LedgerInv, CommitmentsStand

LEMMA StopPreserves ==
    ASSUME LedgerInv, NEW w \in Workers, Stop(w)
    PROVE  LedgerInv'
    <1> USE LedgerAssumption
    <1>1. PICK i : i = workers[w].invoice
        OBVIOUS
    <1>2. /\ i \in Invoices /\ workers \in [Workers -> WorkerRows]
          /\ invoices \in [Invoices -> InvoiceRows]
        BY <1>1 DEF Stop, LedgerInv, TypeOK, WorkersAreFilled
    <1>3. /\ workers' = [workers EXCEPT ![w] = Idle]
          /\ lock' = IF lock = w THEN None ELSE lock
          /\ UNCHANGED <<readings, decisions, commitments>>
        BY DEF Stop, Move, Unlock
    <1>4. \/ invoices' = invoices
          \/ /\ invoices[i].run = "ACTIVE" /\ RunRowFree(w)
             /\ invoices' = [invoices EXCEPT ![i].run = "FAILED"]
        BY <1>1 DEF Stop, Holds
    <1>5. Idle \in WorkerRows /\ Idle.step = "idle"
        BY DEF Idle, WorkerRows
    <1>6. TypeOK'
        <2>1. invoices' \in [Invoices -> InvoiceRows]
            BY <1>2, <1>4 DEF InvoiceRows
        <2> QED  BY <1>2, <1>3, <1>5, <2>1 DEF LedgerInv, TypeOK
    <1>7. DecidersHoldTheLock'
        <2> SUFFICES ASSUME NEW v \in Workers, workers'[v].step \in {"locked", "judged"}
                     PROVE  lock' = v /\ invoices'[workers'[v].invoice].run = "ACTIVE"
            BY DEF DecidersHoldTheLock
        <2>1. v # w /\ workers'[v] = workers[v]
            BY <1>2, <1>3, <1>5
        <2>2. lock = v /\ invoices[workers[v].invoice].run = "ACTIVE"
            BY <2>1 DEF LedgerInv, DecidersHoldTheLock
        <2>3. RunRowFree(w) => workers[v].invoice # i
            BY <1>1, <2>1, <2>2 DEF RunRowFree
        <2>4. workers[v].invoice \in Invoices
            BY <2>1 DEF LedgerInv, WorkersAreFilled
        <2> QED  BY <1>2, <1>3, <1>4, <2>1, <2>2, <2>3, <2>4
    <1>8. WorkersAreFilled'
        BY <1>2, <1>3, <1>5 DEF LedgerInv, WorkersAreFilled
    <1>9. InvoicesAreRead'
        <2> SUFFICES ASSUME NEW j \in Invoices
                     PROVE  /\ invoices'[j].run # "NONE" => invoices'[j].revision > 0
                            /\ invoices'[j].revision > 0 => readings'[j] \in Reading
                            /\ Accepted(j)' => invoices'[j].run = "COMPLETED"
            BY DEF InvoicesAreRead
        <2>1. /\ invoices[j].run # "NONE" => invoices[j].revision > 0
              /\ invoices[j].revision > 0 => readings[j] \in Reading
              /\ Accepted(j) => invoices[j].run = "COMPLETED"
            BY DEF LedgerInv, InvoicesAreRead
        <2>2. Accepted(j)' <=> Accepted(j)
            BY <1>3, LedgerUntouched
        <2>3. \/ invoices'[j] = invoices[j]
              \/ /\ j = i /\ invoices[j].run = "ACTIVE" /\ invoices'[j].run = "FAILED"
                 /\ invoices'[j].revision = invoices[j].revision
            BY <1>2, <1>4 DEF InvoiceRows
        <2> QED  BY <1>3, <2>1, <2>2, <2>3
    <1>10. ASSUME NEW v \in Workers, Approving(v)' PROVE Fits(Approval(v))'
        <2>1. v # w /\ workers'[v] = workers[v]
            BY <1>2, <1>3, <1>5, <1>10 DEF Approving
        <2>2. PICK c : c = Approval(v)'
            OBVIOUS
        <2>3. c = Approval(v) /\ Approving(v)
            BY <1>10, <2>1, <2>2 DEF Approval, NewCommitment, Approving
        <2>4. Fits(c)'
            BY <1>3, <2>3, LedgerUntouched DEF LedgerInv, ApprovalsFit
        <2> QED  BY <2>2, <2>4, FitsIsOfTheRow
    <1>11. ExplanationsFollow'
        <2>1. \A v \in Workers : Follows(workers'[v])
            BY <1>2, <1>3, <1>5 DEF LedgerInv, ExplanationsFollow, Follows
        <2> QED  BY <1>3, <2>1, LedgerUntouched DEF ExplanationsFollow, Follows
    <1> QED  BY <1>3, <1>6, <1>7, <1>8, <1>9, <1>10, <1>11, LedgerUntouched
             DEF LedgerInv, ApprovalsFit

-----------------------------------------------------------------------------
LEMMA NextPreserves == LedgerInv /\ [Next]_vars => LedgerInv'
    <1> SUFFICES ASSUME LedgerInv, [Next]_vars PROVE LedgerInv'
        OBVIOUS
    <1>1. ASSUME NEW i \in Invoices, Submit(i) \/ Review(i) \/ Retry(i) \/ Reject(i)
          PROVE  LedgerInv'
        BY <1>1, PeopleSteps, PeoplePreserve
    <1>2. ASSUME NEW w \in Workers, NEW i \in Invoices, Prepare(w, i) PROVE LedgerInv'
        BY <1>2, PreparePreserves
    <1>3. ASSUME NEW w \in Workers, LockWorkspace(w) PROVE LedgerInv'
        BY <1>3, LockWorkspacePreserves
    <1>4. ASSUME NEW w \in Workers, Judge(w) PROVE LedgerInv'
        BY <1>4, JudgePreserves
    <1>5. ASSUME NEW w \in Workers, Record(w) PROVE LedgerInv'
        BY <1>5, RecordPreserves
    <1>6. ASSUME NEW w \in Workers, Stop(w) PROVE LedgerInv'
        BY <1>6, StopPreserves
    <1>7. ASSUME UNCHANGED vars PROVE LedgerInv'
        <2>1. ApprovalsFit'
            BY <1>7, LedgerUntouched
               DEF vars, LedgerInv, ApprovalsFit, Approving, Approval, NewCommitment
        <2>2. ExplanationsFollow'
            BY <1>7, LedgerUntouched DEF vars, LedgerInv, ExplanationsFollow, Follows
        <2> QED  BY <1>7, <2>1, <2>2, LedgerUntouched
                    DEF vars, LedgerInv, TypeOK, DecidersHoldTheLock, WorkersAreFilled,
                        InvoicesAreRead, Accepted
    <1> QED  BY <1>1, <1>2, <1>3, <1>4, <1>5, <1>6, <1>7 DEF Next

LEMMA Inductive == Spec => []LedgerInv
    <1> QED  BY InitInv, NextPreserves, PTL DEF Spec

(* Every commitment has a vendor and an order, every row is well formed.   *)
THEOREM LedgerIsTyped == Spec => []TypeOK
    <1>1. LedgerInv => TypeOK
        BY DEF LedgerInv
    <1> QED  BY <1>1, Inductive, PTL

(* Similar references of a vendor are never accepted twice, however many   *)
(* workers decide and whatever is reviewed in between (rules.py:468).      *)
THEOREM AcceptancesAreDissimilar == Spec => []NoSimilarAcceptance
    <1>1. LedgerInv => NoSimilarAcceptance
        BY DEF LedgerInv
    <1> QED  BY <1>1, Inductive, PTL

(* An approval about to be committed passes what the trigger asks of the   *)
(* owner, the amount and the identity, and is similar to no other: what    *)
(* evaluate read under the workspace lock is still so (pipeline.py:141).   *)
THEOREM ApprovalsStayValid == Spec => []ApprovalsFit
    <1>1. LedgerInv => ApprovalsFit
        BY DEF LedgerInv
    <1> QED  BY <1>1, Inductive, PTL

(* The trigger of the commitment table, which also sums the lines that an  *)
(* approval does not bill, never refuses what the rules accepted           *)
(* (002_commitment_guard.py:24): no approval ends as a failed run.         *)
THEOREM GuardAcceptsApprovals == Spec => []GuardNeverRefuses
    <1>1. LedgerInv => GuardNeverRefuses
        BY DEF LedgerInv, ApprovalsFit, Approving, Approval, Fits, GuardNeverRefuses, GuardAccepts
    <1> QED  BY <1>1, Inductive, PTL

(* However many workers approve invoices of an order, what is committed of *)
(* it exceeds neither its ceiling nor the quantity of a line               *)
(* (002_commitment_guard.py:22).                                           *)
THEOREM OrdersAreNotExceeded == Spec => []OrdersHold
    <1>1. LedgerInv => OrdersHold
        BY DEF LedgerInv
    <1> QED  BY <1>1, Inductive, PTL

(* A stored explanation is about the outcome of its decision and, if an    *)
(* order was matched, about its open checks (pipeline.py:194).             *)
THEOREM ExplanationsFollowPolicy == Spec => []ExplanationFollowsPolicy
    <1>1. LedgerInv => ExplanationFollowsPolicy
        BY DEF LedgerInv, ExplanationsFollow
    <1> QED  BY <1>1, Inductive, PTL

-----------------------------------------------------------------------------
(* The ledger seen from outside: OrderAccounts.  Init maps to Init, the    *)
(* commit of an approval to one Accept, every other step to a stutter.     *)

(* What is left of an order, and of each of its lines, is never negative.  *)
LEMMA UsedIsNatural ==
    ASSUME TypeOK, OrdersHold, NEW o \in Orders
    PROVE  /\ Used(o) \in Nat /\ Used(o) <= Ceiling[o]
           /\ \A s \in Skus : UsedQuantity(o, s) \in Nat /\ UsedQuantity(o, s) <= Authorised[o][s]
    <1> DEFINE rows == RowsOf(o)
               amounts == [c \in rows |-> c.amount]
               quantities(s) == [c \in rows |-> c.quantities[s]]
    <1>1. rows \in SUBSET Commitment /\ IsFiniteSet(rows)
        BY RowsAreFinite
    <1>2. WithinLimits(rows, o)
        BY DEF OrdersHold
    <1>3. Used(o) = SumFunctionOnSet(amounts, rows)
        BY DEF Used, SumOfAmounts, SumFunction
    <1>4. \A s : UsedQuantity(o, s) = SumFunctionOnSet(quantities(s), rows)
        BY DEF UsedQuantity, SumOfQuantities, SumFunction
    <1>5. \A c \in rows : amounts[c] \in Nat /\ \A s \in Skus : quantities(s)[c] \in Nat
        BY <1>1 DEF Commitment
    <1>6. Used(o) <= Ceiling[o] /\ \A s \in Skus : UsedQuantity(o, s) <= Authorised[o][s]
        BY <1>2 DEF WithinLimits, Used, UsedQuantity
    <1> HIDE DEF rows, amounts, quantities
    <1>7. SumFunctionOnSet(amounts, rows) \in Nat
        BY <1>1, <1>5, SumIsNatural
    <1>8. \A s \in Skus : SumFunctionOnSet(quantities(s), rows) \in Nat
        BY <1>1, <1>5, SumIsNatural
    <1> QED  BY <1>3, <1>4, <1>6, <1>7, <1>8

(* Imported commitments have passed the trigger: they leave each order     *)
(* within its limits.                                                      *)
LEMMA AccountsInit == Init => Accounts!Init
    <1> SUFFICES ASSUME Init PROVE Accounts!Init
        OBVIOUS
    <1> USE LedgerAssumption
    <1>1. TypeOK /\ OrdersHold
        BY InitInv DEF LedgerInv
    <1>2. \A o \in Orders :
            /\ Used(o) \in Nat /\ Used(o) <= Ceiling[o]
            /\ \A s \in Skus : UsedQuantity(o, s) \in Nat /\ UsedQuantity(o, s) <= Authorised[o][s]
        BY <1>1, UsedIsNatural
    <1>3. \A o \in Orders : Ceiling[o] - Used(o) \in Nat /\ Ceiling[o] - Used(o) <= Ceiling[o]
        BY <1>2
    <1>4. \A o \in Orders, s \in Skus :
            /\ Authorised[o][s] - UsedQuantity(o, s) \in Nat
            /\ Authorised[o][s] - UsedQuantity(o, s) <= Authorised[o][s]
        BY <1>2
    <1>5. \A i \in Invoices : ~Accepted(i)
        BY DEF Init, Accepted
    <1>6. \A c \in commitments : c.reference \in References
        BY <1>1 DEF TypeOK, Commitment
    <1> QED  BY <1>3, <1>4, <1>5, <1>6 DEF Accounts!Init

(* Steps that neither decide nor commit are invisible. *)
LEMMA AccountsUntouched ==
    ASSUME UNCHANGED <<decisions, commitments>>
    PROVE  UNCHANGED Accounts!vars
    <1>1. \A i : Accepted(i)' <=> Accepted(i)
        BY DEF Accepted
    <1>2. \A o : Used(o)' = Used(o) /\ \A s : UsedQuantity(o, s)' = UsedQuantity(o, s)
        BY DEF Used, UsedQuantity, RowsOf
    <1> QED  BY <1>1, <1>2 DEF Accounts!vars

(* A commitment uses its order up by what it bills, and no other.          *)
LEMMA CommitmentUses ==
    ASSUME TypeOK, OrdersHold, NEW c \in Commitment, Fits(c),
           commitments' = commitments \cup {c}
    PROVE  /\ Used(c.order)' = Used(c.order) + c.amount
           /\ \A s \in Skus :
                 UsedQuantity(c.order, s)' = UsedQuantity(c.order, s) + c.quantities[s]
           /\ \A o \in Orders \ {c.order} :
                 Used(o)' = Used(o) /\ \A s : UsedQuantity(o, s)' = UsedQuantity(o, s)
    <1> DEFINE rows == RowsOf(c.order)
    <1>1. c \notin commitments
        BY DEF Fits, GuardUnique
    <1>2. RowsOf(c.order)' = rows \cup {c} /\ c \notin rows
        BY <1>1 DEF RowsOf
    <1>3. rows \in SUBSET Commitment /\ IsFiniteSet(rows)
        BY RowsAreFinite
    <1>4. /\ Used(c.order) = SumOfAmounts(rows)
          /\ Used(c.order)' = SumOfAmounts(rows \cup {c})
        BY <1>2 DEF Used
    <1>5. \A s : /\ UsedQuantity(c.order, s) = SumOfQuantities(rows, s)
                 /\ UsedQuantity(c.order, s)' = SumOfQuantities(rows \cup {c}, s)
        BY <1>2 DEF UsedQuantity
    <1>6. ASSUME NEW o \in Orders \ {c.order}
          PROVE  Used(o)' = Used(o) /\ \A s : UsedQuantity(o, s)' = UsedQuantity(o, s)
        <2>1. RowsOf(o)' = RowsOf(o)
            BY DEF RowsOf
        <2> QED  BY <2>1 DEF Used, UsedQuantity
    <1> HIDE DEF rows
    <1>7. SumOfAmounts(rows \cup {c}) = SumOfAmounts(rows) + c.amount
        BY <1>2, <1>3, AmountsAreSummed
    <1>8. \A s \in Skus :
             SumOfQuantities(rows \cup {c}, s) = SumOfQuantities(rows, s) + c.quantities[s]
        BY <1>2, <1>3, QuantitiesAreSummed
    <1> QED  BY <1>4, <1>5, <1>6, <1>7, <1>8

(* A decision that accepts is one acceptance of the accounts, any other is *)
(* invisible there.                                                        *)
LEMMA RecordAccepts ==
    ASSUME LedgerInv, LedgerInv', NEW w \in Workers, Record(w)
    PROVE  [Accounts!Next]_(Accounts!vars)
    <1> USE LedgerAssumption
    <1>1. PICK i : i = workers[w].invoice
        OBVIOUS
    <1>2. PICK result : result = workers[w].result
        OBVIOUS
    <1>3. /\ i \in Invoices /\ result \in Results /\ ~Accepted(i)
          /\ decisions \in [Invoices -> Decisions \cup {None}]
        BY <1>1, <1>2 DEF Record, LedgerInv, TypeOK, WorkersAreFilled, DecidersHoldTheLock,
                          InvoicesAreRead
    <1>4. PICK c : c = NewCommitment(i, result)
        OBVIOUS
    <1>5. PICK d : d = NewDecision(w)
        OBVIOUS
    <1>6. d \in Decisions /\ d # None /\ d.outcome = result.outcome /\ d.total = c.amount
        <2>1. d \in Decisions /\ d.outcome = result.outcome /\ d.total = c.amount
            BY <1>2, <1>3, <1>4, <1>5
               DEF NewDecision, NewCommitment, Decisions, Results, LedgerInv, TypeOK, WorkerRows
        <2> QED  BY <2>1, NullAssumption
    <1>7. /\ decisions' = [decisions EXCEPT ![i] = d]
          /\ commitments' = commitments \cup (IF result.outcome = "APPROVED" THEN {c} ELSE {})
        BY <1>1, <1>2, <1>4, <1>5 DEF Record, Reserved
    <1>8. /\ \A j \in Invoices \ {i} :
                decisions'[j] = decisions[j] /\ (Accepted(j)' <=> Accepted(j))
          /\ decisions'[i] = d /\ (Accepted(i)' <=> result.outcome = "APPROVED")
        BY <1>3, <1>6, <1>7 DEF Accepted
    <1>9. CASE result.outcome # "APPROVED"
        <2>1. commitments' = commitments
            BY <1>7, <1>9
        <2>2. \A o : Used(o)' = Used(o) /\ \A s : UsedQuantity(o, s)' = UsedQuantity(o, s)
            BY <2>1 DEF Used, UsedQuantity, RowsOf
        <2>3. \A j \in Invoices : (IF Accepted(j) THEN decisions[j].total ELSE 0)'
                                  = IF Accepted(j) THEN decisions[j].total ELSE 0
            BY <1>3, <1>8, <1>9
        <2> QED  BY <2>1, <2>2, <2>3 DEF Accounts!vars
    <1>10. CASE result.outcome = "APPROVED"
        <2> DEFINE o == c.order
                   v == OrderVendor[o]
                   left == [p \in Orders |-> Ceiling[p] - Used(p)]
                   goods == [p \in Orders |->
                                [s \in Skus |-> Authorised[p][s] - UsedQuantity(p, s)]]
                   billed == [j \in Invoices |-> IF Accepted(j) THEN decisions[j].total ELSE 0]
                   taken == [u \in Vendors |-> {WeakIdentity[e.reference] :
                                                   e \in {x \in commitments : x.vendor = u}}]
        <2>1. Fits(c)
            BY <1>1, <1>2, <1>4, <1>10 DEF Record, LedgerInv, ApprovalsFit, Approving, Approval
        <2>2. /\ c \in Commitment /\ o \in Orders /\ v \in Vendors /\ c.vendor = v
              /\ c.amount \in Nat /\ c.amount > 0 /\ c.reference \in References
              /\ \A s \in Skus : c.quantities[s] \in Nat
            BY <1>3, <1>4, <2>1
               DEF Fits, GuardOwner, GuardBudget, NewCommitment, Commitment, Results
        <2>3. commitments' = commitments \cup {c}
            BY <1>7, <1>10
        <2>4. /\ Used(o)' = Used(o) + c.amount
              /\ \A s \in Skus : UsedQuantity(o, s)' = UsedQuantity(o, s) + c.quantities[s]
              /\ \A p \in Orders \ {o} :
                    Used(p)' = Used(p) /\ \A s : UsedQuantity(p, s)' = UsedQuantity(p, s)
            BY <2>1, <2>2, <2>3, CommitmentUses DEF LedgerInv
        <2>5. \A p \in Orders :
                 /\ Used(p) \in Nat /\ Used(p) <= Ceiling[p] /\ Ceiling[p] \in Nat
                 /\ \A s \in Skus : /\ UsedQuantity(p, s) \in Nat
                                    /\ UsedQuantity(p, s) <= Authorised[p][s]
                                    /\ Authorised[p][s] \in Nat
            BY UsedIsNatural DEF LedgerInv
        <2>6. \A p \in Orders, s \in Skus :
                 Authorised[p][s] - UsedQuantity(p, s) \in Nat
            BY <2>5
        <2>7. \A p \in Orders, s \in Skus :
                 (Authorised[p][s] - UsedQuantity(p, s))' \in Nat
            <3>1. ASSUME NEW p \in Orders, NEW s \in Skus
                  PROVE  UsedQuantity(p, s)' \in Nat /\ UsedQuantity(p, s)' <= Authorised[p][s]
                <4>1. CASE p # o
                    BY <2>4, <2>5, <4>1
                <4>2. CASE p = o
                    <5>1. UsedQuantity(o, s) + c.quantities[s] <= Authorised[o][s]
                        BY <2>1 DEF Fits, GuardQuantities
                    <5> QED  BY <2>2, <2>4, <2>5, <4>2, <5>1
                <4> QED  BY <4>1, <4>2
            <3> QED  BY <2>5, <3>1
        <2>8. c.amount \in 1 .. left[o]
            BY <2>1, <2>2, <2>5 DEF Fits, GuardBudget
        <2>9. left' = [left EXCEPT ![o] = @ - c.amount]
            <3>1. left'[o] = left[o] - c.amount
                BY <2>2, <2>4, <2>5
            <3>2. \A p \in Orders \ {o} : left'[p] = left[p]
                BY <2>4
            <3>3. left \in [Orders -> Int] /\ left' = [p \in Orders |-> left'[p]]
                BY <2>5
            <3> QED  BY <2>2, <3>1, <3>2, <3>3
        <2>10. billed[i] = 0 /\ billed' = [billed EXCEPT ![i] = c.amount]
            BY <1>3, <1>6, <1>8, <1>10
        <2>11. /\ goods' \in [Orders -> [Skus -> Nat]]
               /\ \A s \in Skus : goods'[o][s] <= goods[o][s]
               /\ \A p \in Orders \ {o} : goods'[p] = goods[p]
            <3>1. goods' \in [Orders -> [Skus -> Nat]]
                BY <2>7
            <3>2. ASSUME NEW s \in Skus PROVE goods'[o][s] <= goods[o][s]
                BY <2>2, <2>4, <2>5
            <3>3. ASSUME NEW p \in Orders \ {o} PROVE goods'[p] = goods[p]
                BY <2>4
            <3> QED  BY <3>1, <3>2, <3>3
        <2>12. WeakIdentity[c.reference] \in {WeakIdentity[r] : r \in References} \ taken[v]
            BY <2>1, <2>2 DEF Fits, Dissimilar
        <2>13. taken' = [taken EXCEPT ![v] = @ \cup {WeakIdentity[c.reference]}]
            <3> DEFINE same(u) == {x \in commitments : x.vendor = u}
            <3>1. same(v)' = same(v) \cup {c}
                BY <2>2, <2>3
            <3>2. ASSUME NEW u \in Vendors \ {v} PROVE same(u)' = same(u)
                BY <2>2, <2>3
            <3>3. taken'[v] = taken[v] \cup {WeakIdentity[c.reference]}
                BY <2>2, <3>1
            <3>4. ASSUME NEW u \in Vendors \ {v} PROVE taken'[u] = taken[u]
                BY <3>2
            <3> QED  BY <2>2, <3>3, <3>4
        <2>14. Accounts!Deliver(o)
            BY <2>11 DEF Accounts!Deliver
        <2>15. Accounts!Accept(i, o)
            BY <2>8, <2>9, <2>10, <2>12, <2>13, <2>14 DEF Accounts!Accept
        <2> QED  BY <1>3, <2>2, <2>15 DEF Accounts!Next
    <1> QED  BY <1>9, <1>10

LEMMA AccountsStep ==
    LedgerInv /\ LedgerInv' /\ [Next]_vars => [Accounts!Next]_(Accounts!vars)
    <1> SUFFICES ASSUME LedgerInv, LedgerInv', [Next]_vars
                 PROVE  [Accounts!Next]_(Accounts!vars)
        OBVIOUS
    <1>1. ASSUME NEW w \in Workers, Record(w) PROVE [Accounts!Next]_(Accounts!vars)
        BY <1>1, RecordAccepts
    <1>2. ASSUME UNCHANGED <<decisions, commitments>> PROVE [Accounts!Next]_(Accounts!vars)
        BY <1>2, AccountsUntouched
    <1>3. \/ UNCHANGED <<decisions, commitments>>
          \/ \E w \in Workers : Record(w)
        BY DEF Next, vars, Submit, Review, Retry, Reject, Prepare, LockWorkspace, Judge, Stop
    <1> QED  BY <1>1, <1>2, <1>3

(* Evaluations without a lock, reviews, retries, rejections and rolled back *)
(* transactions are invisible in the accounts of the orders, and the commit *)
(* of an approval is one acceptance there: decision and reservation agree,  *)
(* for good (pipeline.py:278, rules.py:468).                                *)
THEOREM LedgerKeepsAccounts == Spec => KeepsAccounts
    <1> QED  BY AccountsInit, AccountsStep, Inductive, PTL DEF Spec, KeepsAccounts, Accounts!Spec

=============================================================================
