---------------------------- MODULE InvoiceRuns ----------------------------
(***************************************************************************)
(* The run protocol: how an uploaded invoice is processed by at-least-once *)
(* messages, a reconciling dispatcher and workers that may crash, stall    *)
(* past their lease or meet a failing provider, while people hold, reject, *)
(* review and retry it.  One action is one database transaction of         *)
(* pipeline.py, dispatcher.py, main.py or intake.py, or one step of the    *)
(* message broker or of time.                                              *)
(*                                                                         *)
(* What evaluate decides is any outcome here; the ledger module says which *)
(* outcome.  Three timestamps are kept as what the code compares them to:  *)
(* lease_until, retry_at and dispatched_at are unset, ahead of the         *)
(* comparison, or past it, and time moves each one forward on its own.     *)
(* attempt_token is a fresh uuid written together with attempt += 1 and    *)
(* never elsewhere, so the attempt number of the claim stands for it.      *)
(* human_touched is revision > 1 and is left out.                          *)
(***************************************************************************)
EXTENDS Integers, FiniteSets

CONSTANTS
    Invoices,      \* invoices of one workspace
    Runs,          \* identities a run may be given
    Workers,       \* worker processes (celery --concurrency)
    None,          \* a null column
    MaxAttempts,   \* 3 in process and dispatch_once
    RetryLimit,    \* runs an invoice may have and still be retried: 8 (offset(8) in retry)
    MaxRevision,   \* bound: revisions explored per invoice
    MaxMessages    \* bound: copies of one run's message held by the broker

Outcomes == {"APPROVED", "NEEDS_REVIEW", "BLOCKED"}

ASSUME ConstantsAssumption ==
    /\ None \notin Runs \cup Invoices \cup Outcomes
    /\ MaxAttempts \in Nat \ {0}
    /\ RetryLimit \in Nat
    /\ MaxRevision \in Nat \ {0}
    /\ MaxMessages \in Nat \ {0}

VARIABLES
    invoices,     \* the invoice table, keyed by id; currentRun = None: no such row yet
    extraction,   \* per invoice, the revisions whose extraction column is filled
    runs,         \* the run table, keyed by id
    decisions,    \* the decision table, keyed by its unique run_id
    commitments,  \* the invoices an accepted commitment is recorded for
    queue,        \* per run, the copies of its message waiting in the broker
    workers       \* per worker process, the attempt it executes

tables == <<invoices, extraction, runs, decisions, commitments>>
vars == <<invoices, extraction, runs, decisions, commitments, queue, workers>>

-----------------------------------------------------------------------------
Active == {"QUEUED", "RUNNING"}
Terminal == {"COMPLETED", "FAILED"}

(* A timestamp column, by how it compares with the clock. *)
Times == {"UNSET", "AHEAD", "PAST"}

Revisions == 1..MaxRevision

InvoiceRow ==
    [revision: Revisions,
     currentRun: Runs \cup {None},
     currentDecision: Runs \cup {None},
     workflow: {"NONE", "ON_HOLD", "REJECTED"},
     pages: BOOLEAN]

RunRow ==
    [state: {"ABSENT"} \cup Active \cup Terminal,
     invoice: Invoices \cup {None},
     revision: 0..MaxRevision,
     attempt: 0..MaxAttempts,
     token: 0..MaxAttempts,
     lease: Times,
     retryAt: Times,
     dispatchedAt: Times]

(* Where the body of process stands: "idle" outside it, "fatal" and        *)
(* "transient" at its exception handler.                                   *)
Steps == {"idle", "read", "extract", "finalize", "fatal", "transient"}

(* pages and data: what the claim's transaction read of page_data and of   *)
(* the revision's extraction.                                              *)
WorkerRow ==
    [step: Steps, run: Runs \cup {None}, token: 0..MaxAttempts,
     pages: BOOLEAN, data: BOOLEAN]

UntouchedRun(state, i, n) ==
    [state |-> state, invoice |-> i, revision |-> n, attempt |-> 0, token |-> 0,
     lease |-> "UNSET", retryAt |-> "UNSET", dispatchedAt |-> "UNSET"]

AbsentRun == UntouchedRun("ABSENT", None, 0)

NewRun(i, n) == UntouchedRun("QUEUED", i, n)

NewInvoice ==
    [revision |-> 1, currentRun |-> None, currentDecision |-> None,
     workflow |-> "NONE", pages |-> FALSE]

Idle == [step |-> "idle", run |-> None, token |-> 0, pages |-> FALSE, data |-> FALSE]

Init ==
    /\ invoices = [i \in Invoices |-> NewInvoice]
    /\ extraction = [i \in Invoices |-> {}]
    /\ runs = [r \in Runs |-> AbsentRun]
    /\ decisions = [r \in Runs |-> None]
    /\ commitments = {}
    /\ queue = [r \in Runs |-> 0]
    /\ workers = [w \in Workers |-> Idle]

-----------------------------------------------------------------------------
(* Requests of people.  Each runs under the workspace and invoice row locks *)
(* that lock_for_action takes (intake locks the workspace), so it is one    *)
(* step.                                                                    *)

UnusedRun(r) == runs[r].state = "ABSENT"

RunsOf(i) == {r \in Runs : runs[r].invoice = i}

Uploaded(i) == invoices[i].currentRun # None

CurrentState(i) == runs[invoices[i].currentRun].state

Decided(i) == invoices[i].currentDecision # None

CurrentOutcome(i) == decisions[invoices[i].currentDecision]

(* Mutated form of LockForAction: accepted invoices are not refused. *)
LockForActionAcceptsApproved(i) == Uploaded(i)

(* lock_for_action lets through: accepted invoices are immutable. *)
LockForAction(i) ==
    /\ Uploaded(i)
    /\ ~(Decided(i) /\ CurrentOutcome(i) = "APPROVED")

(* Mutated form of DecidedForAction: any decision will do. *)
DecidedForActionStale(i) == Decided(i)

(* decided_for_action lets through: the current run has completed and the  *)
(* current decision was made for the current revision.                     *)
DecidedForAction(i) ==
    /\ CurrentState(i) = "COMPLETED"
    /\ Decided(i)
    /\ runs[invoices[i].currentDecision].revision = invoices[i].revision

StartRun(i, r, n) == runs' = [runs EXCEPT ![r] = NewRun(i, n)]

(* submit_invoice, for a document the workspace has not seen. *)
Submit(i, r) ==
    /\ ~Uploaded(i)
    /\ UnusedRun(r)
    /\ invoices' = [invoices EXCEPT ![i] = [NewInvoice EXCEPT !.currentRun = r]]
    /\ StartRun(i, r, 1)
    /\ UNCHANGED <<extraction, decisions, commitments, queue, workers>>

Hold(i) ==
    /\ LockForAction(i)
    /\ invoices[i].workflow = "NONE"
    /\ DecidedForAction(i)
    /\ CurrentOutcome(i) = "NEEDS_REVIEW"
    /\ invoices' = [invoices EXCEPT ![i].workflow = "ON_HOLD"]
    /\ UNCHANGED <<extraction, runs, decisions, commitments, queue, workers>>

Reject(i) ==
    /\ LockForAction(i)
    /\ invoices[i].workflow # "REJECTED"
    /\ DecidedForAction(i)
    /\ CurrentOutcome(i) \in {"NEEDS_REVIEW", "BLOCKED"}
    /\ invoices' = [invoices EXCEPT ![i].workflow = "REJECTED"]
    /\ UNCHANGED <<extraction, runs, decisions, commitments, queue, workers>>

(* A review stores a new revision that starts from the current extraction, *)
(* corrected, ends a hold, and queues a run of its own.                    *)
(* Mutated forms of ReviewOpen: without the check of the current run, and  *)
(* without the check for a rejection.                                      *)
ReviewOpenWhileActive(i) ==
    /\ LockForAction(i)
    /\ invoices[i].workflow # "REJECTED"
    /\ invoices[i].revision \in extraction[i]

ReviewOpenAfterReject(i) ==
    /\ LockForAction(i)
    /\ CurrentState(i) \notin Active
    /\ invoices[i].revision \in extraction[i]

ReviewOpen(i) ==
    /\ LockForAction(i)
    /\ invoices[i].workflow # "REJECTED"
    /\ CurrentState(i) \notin Active
    /\ invoices[i].revision \in extraction[i]

Review(i, r) ==
    /\ ReviewOpen(i)
    /\ UnusedRun(r)
    /\ invoices[i].revision < MaxRevision
    /\ LET n == invoices[i].revision + 1
       IN  /\ invoices' = [invoices EXCEPT ![i] =
                  [@ EXCEPT !.revision = n, !.currentRun = r, !.workflow = "NONE"]]
           /\ extraction' = [extraction EXCEPT ![i] = @ \cup {n}]
           /\ StartRun(i, r, n)
    /\ UNCHANGED <<decisions, commitments, queue, workers>>

(* Mutated form of RetryOpen: completed runs are retried too. *)
RetryOpenWhenCompleted(i) ==
    /\ LockForAction(i)
    /\ CurrentState(i) \in Terminal
    /\ Cardinality(RunsOf(i)) <= RetryLimit

(* A retry repeats the failed run of the same revision.  Nothing is said   *)
(* here of rejected invoices.                                              *)
RetryOpen(i) ==
    /\ LockForAction(i)
    /\ CurrentState(i) = "FAILED"
    /\ Cardinality(RunsOf(i)) <= RetryLimit

Retry(i, r) ==
    /\ RetryOpen(i)
    /\ UnusedRun(r)
    /\ invoices' = [invoices EXCEPT ![i].currentRun = r]
    /\ StartRun(i, r, invoices[i].revision)
    /\ UNCHANGED <<extraction, decisions, commitments, queue, workers>>

-----------------------------------------------------------------------------
(* The dispatcher.  dispatch_once treats up to ten rows in one transaction; *)
(* the rows are independent and each is locked, so one action treats one    *)
(* row.  A broker that is down ends the batch: no action.                   *)

Due(r) ==
    /\ runs[r].retryAt # "AHEAD"
    /\ runs[r].dispatchedAt # "AHEAD"

(* Mutated form of Selected: runs whose lease has passed are forgotten. *)
SelectedQueuedOnly(r) == runs[r].state = "QUEUED" /\ Due(r)

Selected(r) ==
    /\ \/ runs[r].state = "QUEUED"
       \/ runs[r].state = "RUNNING" /\ runs[r].lease = "PAST"
    /\ Due(r)

(* Mutated form of Exhausted: one attempt too many. *)
ExhaustedLate(r) == runs[r].attempt > MaxAttempts

Exhausted(r) == runs[r].attempt >= MaxAttempts

Send(r) ==
    /\ queue[r] < MaxMessages
    /\ queue' = [queue EXCEPT ![r] = @ + 1]

Dispatched(row) == [row EXCEPT !.dispatchedAt = "AHEAD"]

(* Sent and stamped: dispatched_at is compared with now - 45 seconds. *)
Dispatch(r) ==
    /\ Selected(r) /\ ~Exhausted(r)
    /\ Send(r)
    /\ runs' = [runs EXCEPT ![r] = Dispatched(@)]
    /\ UNCHANGED <<invoices, extraction, decisions, commitments, workers>>

(* Sent, and the dispatcher or its transaction dies before the commit. *)
DispatchUncommitted(r) ==
    /\ Selected(r) /\ ~Exhausted(r)
    /\ Send(r)
    /\ UNCHANGED <<invoices, extraction, runs, decisions, commitments, workers>>

(* The dispatcher gives up a run whose worker stopped at its last attempt. *)
GivenUp(row) == [row EXCEPT !.state = "FAILED"]

DispatchGiveUp(r) ==
    /\ Selected(r) /\ Exhausted(r)
    /\ runs' = [runs EXCEPT ![r] = GivenUp(@)]
    /\ UNCHANGED <<invoices, extraction, decisions, commitments, queue, workers>>

-----------------------------------------------------------------------------
(* The broker and time.                                                    *)

(* A broker restart, or a message acknowledged for a task that failed      *)
(* before its first commit.                                                *)
LoseMessage(r) ==
    /\ queue[r] > 0
    /\ queue' = [queue EXCEPT ![r] = @ - 1]
    /\ UNCHANGED <<tables, workers>>

(* acks_late: a message is unacknowledged while its worker works, and the  *)
(* broker delivers it again after the visibility timeout.                  *)
Redeliver(w) ==
    /\ workers[w].step # "idle"
    /\ Send(workers[w].run)
    /\ UNCHANGED <<tables, workers>>

Pass(r, row) ==
    /\ runs[r].state \in Active      \* no code compares the times of an ended run
    /\ runs' = [runs EXCEPT ![r] = row]
    /\ UNCHANGED <<invoices, extraction, decisions, commitments, queue, workers>>

LeaseExpires(r) ==
    runs[r].lease = "AHEAD" /\ Pass(r, [runs[r] EXCEPT !.lease = "PAST"])

RetryComesDue(r) ==
    runs[r].retryAt = "AHEAD" /\ Pass(r, [runs[r] EXCEPT !.retryAt = "PAST"])

DispatchGrowsOld(r) ==
    runs[r].dispatchedAt = "AHEAD" /\ Pass(r, [runs[r] EXCEPT !.dispatchedAt = "PAST"])

-----------------------------------------------------------------------------
(* A worker.  Deliver is the first transaction of process: it either drops *)
(* the message, ends the run, or claims the run for an attempt.            *)

Deliver(w, r) ==
    /\ workers[w].step = "idle"
    /\ queue[r] > 0
    /\ queue' = [queue EXCEPT ![r] = @ - 1]

Unclaimable(r) ==
    \/ runs[r].state \in Terminal
    \/ runs[r].state = "RUNNING" /\ runs[r].lease = "AHEAD"
    \/ runs[r].retryAt = "AHEAD"

Superseded(r) ==
    LET inv == invoices[runs[r].invoice]
    IN  inv.currentRun # r \/ inv.revision # runs[r].revision

DropMessage(w, r) ==
    /\ Deliver(w, r)
    /\ Unclaimable(r)
    /\ UNCHANGED <<tables, workers>>

(* Mutated form of Claimed: no lease is taken. *)
ClaimedWithoutLease(row) ==
    [row EXCEPT !.state = "RUNNING", !.attempt = @ + 1, !.token = row.attempt + 1]

Claimed(row) ==
    [row EXCEPT !.state = "RUNNING", !.attempt = @ + 1, !.token = row.attempt + 1,
                !.lease = "AHEAD"]

Attempt(r) ==
    LET i == runs[r].invoice
    IN  [step |-> "read", run |-> r, token |-> runs[r].attempt + 1,
         pages |-> invoices[i].pages, data |-> runs[r].revision \in extraction[i]]

(* A run that has used its attempts, or that another run has replaced, is  *)
(* failed instead of claimed.                                              *)
GiveUpOrClaim(w, r) ==
    LET over == Exhausted(r) \/ Superseded(r)
    IN  /\ runs' = [runs EXCEPT ![r] =
                       IF over THEN GivenUp(@) ELSE Claimed(@)]
        /\ workers' = [workers EXCEPT ![w] = IF over THEN @ ELSE Attempt(r)]

Claim(w, r) ==
    /\ Deliver(w, r)
    /\ ~Unclaimable(r)
    /\ GiveUpOrClaim(w, r)
    /\ UNCHANGED <<invoices, extraction, decisions, commitments>>

(* Reading the pages when the claim found none.  The write of page_data is *)
(* the one write of an attempt that no token guards.                       *)
ReadPages(w) ==
    /\ workers[w].step = "read"
    /\ workers' = [workers EXCEPT ![w] = [@ EXCEPT !.step = "extract", !.pages = TRUE]]
    /\ invoices' = IF workers[w].pages THEN invoices
                   ELSE [invoices EXCEPT ![runs[workers[w].run].invoice].pages = TRUE]
    /\ UNCHANGED <<extraction, runs, decisions, commitments, queue>>

(* The provider reads the invoice unless the revision already holds fields; *)
(* the unlocked checks and the assistance that follow change no table here. *)
Extract(w) ==
    /\ workers[w].step = "extract"
    /\ workers' = [workers EXCEPT ![w] = [@ EXCEPT !.step = "finalize", !.data = TRUE]]
    /\ UNCHANGED <<tables, queue>>

(* Any other exception of the body: storage, an unreadable document, a     *)
(* quota, the soft time limit, a refused commitment.                       *)
BreakDown(w) ==
    /\ workers[w].step \in {"read", "extract", "finalize"}
    /\ workers' = [workers EXCEPT ![w].step = "fatal"]
    /\ UNCHANGED <<tables, queue>>

(* The provider is unreachable, times out, limits the rate or answers 5xx. *)
ProviderInterrupted(w) ==
    /\ workers[w].step = "extract"
    /\ ~workers[w].data
    /\ workers' = [workers EXCEPT ![w].step = "transient"]
    /\ UNCHANGED <<tables, queue>>

-----------------------------------------------------------------------------
(* finalize, the only transaction that decides.                            *)

(* Mutated form of TokenHeld: the state of the run is not looked at. *)
TokenHeldAnyState(w) == runs[workers[w].run].token = workers[w].token

TokenHeld(w) ==
    LET row == runs[workers[w].run]
    IN  row.state = "RUNNING" /\ row.token = workers[w].token

(* Mutated form of MayFinalize: the attempt token is not compared. *)
MayFinalizeAnyToken(w) ==
    runs[workers[w].run].state = "RUNNING" /\ ~Superseded(workers[w].run)

MayFinalize(w) ==
    LET r == workers[w].run
    IN  TokenHeld(w) /\ ~Superseded(r)

Leave(w) == workers' = [workers EXCEPT ![w] = Idle]

Completed(row) == [row EXCEPT !.state = "COMPLETED", !.lease = "UNSET"]

DecidedBy(inv, r) == [inv EXCEPT !.currentDecision = r, !.pages = TRUE]

Decide(r, outcome) ==
    LET i == runs[r].invoice
    IN  /\ decisions' = [decisions EXCEPT ![r] = outcome]
        /\ extraction' = [extraction EXCEPT ![i] = @ \cup {runs[r].revision}]
        /\ invoices' = [invoices EXCEPT ![i] = DecidedBy(@, r)]
        /\ runs' = [runs EXCEPT ![r] = Completed(@)]
        /\ commitments' =
               IF outcome = "APPROVED" THEN commitments \cup {i} ELSE commitments

(* decision.run_id and commitment.invoice_id are unique columns: a second  *)
(* row of either is an exception (BreakDown).  The reply to the commit may *)
(* be lost, and then the handler runs after the decision stands.           *)
Finalize(w) ==
    /\ workers[w].step = "finalize"
    /\ MayFinalize(w)
    /\ decisions[workers[w].run] = None
    /\ \E outcome \in Outcomes :
         /\ outcome = "APPROVED" => runs[workers[w].run].invoice \notin commitments
         /\ Decide(workers[w].run, outcome)
    /\ \/ Leave(w)
       \/ workers' = [workers EXCEPT ![w].step = "fatal"]
    /\ UNCHANGED queue

FinalizeRefused(w) ==
    /\ workers[w].step = "finalize"
    /\ ~MayFinalize(w)
    /\ Leave(w)
    /\ UNCHANGED <<tables, queue>>

-----------------------------------------------------------------------------
(* The exception handler of process.                                       *)

Handling(w) == workers[w].step \in {"fatal", "transient"}

Failed(row) == [row EXCEPT !.state = "FAILED", !.lease = "UNSET"]

Requeued(row) ==
    [row EXCEPT !.state = "QUEUED", !.lease = "UNSET", !.dispatchedAt = "UNSET",
                !.retryAt = "AHEAD"]

HandleException(w) ==
    LET r == workers[w].run
        again == workers[w].step = "transient" /\ ~Exhausted(r)
    IN  /\ Handling(w)
        /\ TokenHeld(w)
        /\ runs' = [runs EXCEPT ![r] = IF again THEN Requeued(@) ELSE Failed(@)]
        /\ Leave(w)
        /\ UNCHANGED <<invoices, extraction, decisions, commitments, queue>>

HandlerRefused(w) ==
    /\ Handling(w)
    /\ ~TokenHeld(w)
    /\ Leave(w)
    /\ UNCHANGED <<tables, queue>>

(* The process is killed (memory, deployment, the hard time limit).  The   *)
(* broker requeues the message of a lost worker (reject_on_worker_lost) but *)
(* not of a task stopped by its time limit.                                *)
Crash(w) ==
    /\ workers[w].step # "idle"
    /\ Leave(w)
    /\ Send(workers[w].run) \/ UNCHANGED queue
    /\ UNCHANGED tables

-----------------------------------------------------------------------------
PeopleNext ==
    \/ \E i \in Invoices : Hold(i) \/ Reject(i)
    \/ \E i \in Invoices, r \in Runs : Submit(i, r) \/ Review(i, r) \/ Retry(i, r)

DispatcherNext ==
    \E r \in Runs : Dispatch(r) \/ DispatchUncommitted(r) \/ DispatchGiveUp(r)

EnvironmentNext ==
    \/ \E r \in Runs :
         LoseMessage(r) \/ LeaseExpires(r) \/ RetryComesDue(r) \/ DispatchGrowsOld(r)
    \/ \E w \in Workers : Redeliver(w) \/ Crash(w)

WorkerNext ==
    \/ \E w \in Workers, r \in Runs : DropMessage(w, r) \/ Claim(w, r)
    \/ \E w \in Workers :
         \/ ReadPages(w) \/ Extract(w) \/ BreakDown(w) \/ ProviderInterrupted(w)
         \/ Finalize(w) \/ FinalizeRefused(w)
         \/ HandleException(w) \/ HandlerRefused(w)

Next == PeopleNext \/ DispatcherNext \/ EnvironmentNext \/ WorkerNext

Spec == Init /\ [][Next]_vars

(* Time passes; the dispatcher loops every three seconds and the broker is *)
(* not down for ever; the broker hands out messages in order, so a run that *)
(* is dispatched again and again is delivered at some time even if single  *)
(* messages are lost; a delivered message is worked on or its process is   *)
(* killed at the latest by the hard time limit.  Nobody has to act: there  *)
(* is no fairness for people, crashes or losses.                           *)
TimePasses(r) == LeaseExpires(r) \/ RetryComesDue(r) \/ DispatchGrowsOld(r)

Reconcile(r) == Dispatch(r) \/ DispatchGiveUp(r)

Receive(r) == \E w \in Workers : DropMessage(w, r) \/ Claim(w, r)

Advance(w) ==
    \/ ReadPages(w) \/ Extract(w) \/ BreakDown(w) \/ ProviderInterrupted(w)
    \/ Finalize(w) \/ FinalizeRefused(w)
    \/ HandleException(w) \/ HandlerRefused(w) \/ Crash(w)

Fairness ==
    /\ \A r \in Runs :
         /\ WF_vars(TimePasses(r))
         /\ WF_vars(Reconcile(r))
         /\ SF_vars(Receive(r))
    /\ \A w \in Workers : WF_vars(Advance(w))

FairSpec == Spec /\ Fairness

-----------------------------------------------------------------------------
(* Invariants.                                                             *)

(* Every column holds a value of its type; in particular no run is ever    *)
(* attempted more than MaxAttempts times.                                  *)
TypeOK ==
    /\ invoices \in [Invoices -> InvoiceRow]
    /\ extraction \in [Invoices -> SUBSET Revisions]
    /\ runs \in [Runs -> RunRow]
    /\ decisions \in [Runs -> Outcomes \cup {None}]
    /\ commitments \in SUBSET Invoices
    /\ queue \in [Runs -> 0..MaxMessages]
    /\ workers \in [Workers -> WorkerRow]

(* A run that is queued or running is its invoice's current run and was    *)
(* made for the current revision: one invoice is never checked twice at    *)
(* the same time, and no result can belong to replaced data.               *)
ActiveRunIsCurrent ==
    \A r \in Runs : runs[r].state \in Active => ~Superseded(r)

(* Retries, duplicated messages and revived workers never decide the same  *)
(* revision of an invoice twice, so the revision number a person saw names *)
(* the decision they act on (lock_for_action compares nothing else).       *)
OneDecisionPerRevision ==
    \A r1, r2 \in Runs :
        /\ decisions[r1] # None
        /\ decisions[r2] # None
        /\ runs[r1].invoice = runs[r2].invoice
        /\ runs[r1].revision = runs[r2].revision
        => r1 = r2

(* A run that is running always carries a lease, so the reconciler can find *)
(* it when its worker dies; a queued run has an attempt left; and each is  *)
(* out of sight of the reconciler only until a time passes.                *)
RunsAreRecoverable ==
    \A r \in Runs :
        /\ runs[r].state = "RUNNING" => runs[r].lease # "UNSET" /\ runs[r].retryAt # "AHEAD"
        /\ runs[r].state = "QUEUED" => ~Exhausted(r)

(* A hold or a rejection stands only on a completed run whose decision is  *)
(* for the current revision, and never on an accepted invoice.             *)
WorkflowOnDecidedInvoice ==
    \A i \in Invoices :
        invoices[i].workflow # "NONE" =>
            /\ Uploaded(i)
            /\ DecidedForAction(i)
            /\ CurrentOutcome(i) \in {"NEEDS_REVIEW", "BLOCKED"}
            /\ invoices[i].workflow = "ON_HOLD" => CurrentOutcome(i) = "NEEDS_REVIEW"

(* Money is reserved for an invoice exactly when its current decision      *)
(* accepts it; no retry, stale worker or review separates the two.         *)
CommittedExactlyWhenApproved ==
    \A i \in Invoices :
        i \in commitments <=> Decided(i) /\ CurrentOutcome(i) = "APPROVED"

-----------------------------------------------------------------------------
(* Action properties.                                                      *)

(* A run that has completed or failed never changes again: main.py reads   *)
(* run rows without locking them and relies on it.                         *)
EndedRunsStay ==
    [][\A r \in Runs : runs[r].state \in Terminal => runs'[r].state = runs[r].state]_vars

(* A worker that lost its run to another attempt, or whose run has ended,  *)
(* changes no run, decision, commitment or extraction.                     *)
StaleWorkersWriteNothing ==
    [][\A w \in Workers :
          /\ workers[w].step # "idle"
          /\ ~TokenHeld(w)
          /\ workers'[w] # workers[w]
          => UNCHANGED <<runs, decisions, commitments, extraction>>]_vars

(* Accepted and rejected invoices are closed: revision, runs and decision  *)
(* of theirs never change, whatever messages and workers are still about.  *)
ClosedInvoicesStay ==
    [][\A i \in Invoices :
          i \in commitments \/ invoices[i].workflow = "REJECTED"
          => /\ invoices'[i] = [invoices[i] EXCEPT !.pages = invoices'[i].pages]
             /\ i \in commitments <=> i \in commitments']_vars
-----------------------------------------------------------------------------
(* Liveness and the abstract specification.                                *)

(* Whatever is lost, duplicated, stalled or killed, a queued or running    *)
(* run ends: completed with a decision, or failed where a person can retry. *)
RunsEnd ==
    \A r \in Runs : runs[r].state \in Active ~> runs[r].state \in Terminal

(* invoice_status on the row build_row makes: a decision of an older       *)
(* revision is not shown.                                                  *)
InvoiceStatus(i) ==
    LET state == CurrentState(i)
        applicable == /\ Decided(i)
                      /\ runs[invoices[i].currentDecision].revision = invoices[i].revision
    IN  CASE state \in Active -> "CHECKING"
          [] state = "FAILED" -> "FAILED"
          [] state = "COMPLETED" /\ invoices[i].workflow # "NONE" -> invoices[i].workflow
          [] OTHER -> IF applicable THEN CurrentOutcome(i) ELSE "CHECKING"

Status == [i \in Invoices |-> IF Uploaded(i) THEN InvoiceStatus(i) ELSE "ABSENT"]

Life == INSTANCE InvoiceLife WITH status <- Status, committed <- commitments

(* The run protocol shows people exactly the life cycle of InvoiceLife, and *)
(* under its fairness checking always ends: runs, attempts, leases and     *)
(* messages never leak into the status of an invoice.                      *)
ImplementsInvoiceLife == Life!FairSpec

(* The safety half of the same claim: whatever people, dispatcher, broker  *)
(* and workers do, the status of an invoice only takes the steps that      *)
(* InvoiceLife allows, and money is reserved in the step to APPROVED only. *)
LifeSafety == Life!Spec
=============================================================================
