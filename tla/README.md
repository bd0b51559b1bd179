# A TLA+ model of Tickmark

Tickmark turns a supplier's PDF invoice into a decision (approved, needs
review, blocked) and lets people hold, reject, correct and retry it. The
service is a FastAPI application, a Celery worker and a dispatcher that share a
PostgreSQL database, a Redis broker and an object store
(`services/api/ap/`), with a Next.js client (`apps/web/`). This directory holds
its specification: TLA+ modules, TLC configurations and TLAPS proofs. Paths and
line numbers below are relative to `services/api/ap/`.

## 1. Inventory

| Part | State it keeps | Operations | Talks to |
|---|---|---|---|
| Intake (`intake.py`, `inbox.py`) | invoice, first revision, first run, upload counters | `submit_invoice`, inbox check and save | object store before the transaction, database |
| Dispatcher (`dispatcher.py`) | `run.dispatched_at`, giving up | `dispatch_once`, every three seconds | broker (send), database |
| Worker (`worker.py`, `pipeline.py: process`) | `run.state`, `attempt`, `attempt_token`, `lease_until`, `retry_at`, `invoice.page_data`, events | claim, read, extract, prepare assistance, finalize, exception handler | object store, model provider, database |
| Ledger (`pipeline.py: financial_context, finalize`, migration 002) | decision, commitment; budgets and quantities of an order are sums of its commitments | the deciding transaction and its trigger | workspace row lock |
| Rules (`rules.py`, `documents.py: verify_evidence`) | none: pure | `evaluate` and its helpers | called by finalize, by the preliminary checks and by the seed |
| Actions (`main.py`) | revision, workflow, new runs | `hold`, `reject`, `review`, `retry`, `lock_for_action` | database, under workspace and invoice locks |
| Assistance (`assistant.py`, `extraction.py`) | none; a proposal inside the decision | `retrieve`, `recommend`, `grounded_match` | model provider |
| Company documents (`product.py`) | documents and their archived flag | `save_reference`, `archive_document` | object store, database |
| Team (`product.py`, `auth.py`) | members, invitations | invite, accept, revoke, remove, profile | database |
| Live view (`main.py: stream`, web `use-live-run.ts`) | event table, a cursor per reader | poll by id, reconnect | events written by every transaction |
| Progress checks (`checks.py`), web `status.ts`, `verdict.ts`, `steps.ts` | none: derived | group states, status, verdict, steps | read the decision and events |
| Seed and history (`seed.py`, `history.py`) | imported decisions and commitments | building a new workspace | the same rules and ledger |

What is hard here: two or more workers and at-least-once messages act on one
run (a process may stall past its lease and wake up later); every request of a
person reads run rows it does not lock; a decision, its commitment and the
state of its run must agree under crashes and lost commit replies; money is
shared between invoices that are decided at the same time; the first look at
budgets, documents and duplicates happens outside the deciding transaction;
several limits are checked, then slow work runs, then they are checked again.
`PROJECT.json` lists these hazards at their lines.

What makes each part correct:

* *runs*: one active run per invoice, at most one decision per revision, ended
  runs never change, an attempt that lost its token writes nothing, every run
  ends;
* *actions*: holds and rejections stand on the decision the person saw;
  accepted and rejected invoices are closed;
* *ledger*: no order is overspent in money or quantity, a supplier's reference
  is accepted once, the trigger never has to refuse what the rules accepted,
  the original a duplicate names is the earlier one;
* *documents, team, intake*: the limits hold under concurrency, an invitation
  admits one person, one document makes one invoice, a row is never committed
  before the object it names;
* *rules and what is shown of them*: what is accepted was authorised, whatever
  mixture of lines, tax bases and corrections leads to it; the steps and the
  reason people read tell the same as the outcome;
* *live view*: a page never rests on an ended run, and an ended run is shown
  with everything that was written about it, although the stream may skip
  events and a poll may take back what the stream brought.

## 2. Structure

Each module models one part; none is a copy of another's state.

| Module | Part | Proofs |
|---|---|---|
| `InvoiceRuns`, with `InvoiceLife` as the abstract specification | runs, workers, dispatcher, actions of people | `InvoiceRunsProofs` |
| `Ledger`, with `OrderAccounts` as the abstract specification | decisions and commitments of several invoices under the workspace lock | `LedgerProofs` |
| `Policy` | the rules, what the steps and the list show of them, reviews | `PolicyProofs` |
| `Intake` | submissions, upload counter, quotas, sessions | `IntakeProofs` |
| `References` | company documents | `ReferencesProofs` |
| `Team` | members and invitations | `TeamProofs` |
| `LiveView` | events, stream, the page that watches an invoice | `LiveViewProofs` |

They divide the system at its transactions. `InvoiceRuns` leaves open *what* is
decided; `Ledger` decides from the part of the rules that looks at other
invoices and leaves everything else open; `Policy` computes the rules entirely
and makes one step of what `Ledger` takes apart. `LiveView` takes the run
protocol down to attempts and events and adds the client. `Intake`,
`References` and `Team` share the pattern "check, work without a lock, lock,
check again" and the workspace row. Modules that are proved about contain no
RECURSIVE operator. `SumTheorems` has the facts about sums over finite sets
that `LedgerProofs` and `PolicyProofs` share.

Candidates for more: the steps of a page while a run is in progress (only
the explanation and the stream are modelled), and an abstract specification of
seats (`Team`) or of stored documents (`References`, `Intake`).

*Locks and deadlock.* No run is about cyclic waiting, because the code has one
lock order, read from every transaction that locks more than one row: workspace
(`main.py:438`, `product.py:126`, `188`, `254`, `503`, `569`, `intake.py:54`,
`pipeline.py:142`, the trigger), then invoice or invitation, then run, then the
purchase orders, then a quota. The claim, the exception handler and `emit_many` lock one run,
the dispatcher locks runs with SKIP LOCKED, and none of these asks for another
row. Two quotas are always charged in the same order and outside the workspace
lock. `Intake`, `Team`, `References` and `Ledger` have the locks they need as
state.

## 3. Modules

**`InvoiceRuns`.** One action is one database transaction, or one step of the
broker or of time. The tables are variables of the same name: `invoices`
(revision, current run, current decision, workflow, pages), `extraction` (the
revisions whose column is filled), `runs`, `decisions` (keyed by the unique
`run_id`), `commitments`. `queue` counts a run's messages; `workers` says where
the body of `process` stands in each worker process and what its first
transaction read.

| Code | Actions |
|---|---|
| `intake.py:54-101` | `Submit` |
| `main.py` hold, reject, review, retry | `Hold`, `Reject`, `Review`, `Retry` |
| `dispatcher.py:14-48` | `Dispatch`, `DispatchUncommitted` (sent, not committed), `DispatchGiveUp` |
| `pipeline.py:387-429` | `DropMessage`, `Claim` (which fails an exhausted run) |
| `pipeline.py:430-491` | `ReadPages`, `Extract`, `BreakDown`, `ProviderInterrupted` |
| `pipeline.py:134-348` | `Finalize`, `FinalizeRefused` |
| `pipeline.py:493-522` | `HandleException`, `HandlerRefused` |
| `worker.py:7-16`, the broker | `Redeliver`, `LoseMessage`, `Crash` |
| the clock | `LeaseExpires`, `RetryComesDue`, `DispatchGrowsOld` |

Abstractions. A timestamp is `UNSET`, `AHEAD` or `PAST` of what the code
compares it with. `attempt_token` is written only together with
`attempt += 1`, so the number of the attempt stands for the token.
`human_touched` is `revision > 1` and is left out. A request with a stale
`expected_revision` is refused without effect and is no action. The outcome of
a decision is any of the three. `BreakDown` stands for every exception that is
not the provider's: storage, an unreadable document, a quota, the soft time
limit, a commitment the database refuses. `Finalize` may also lose the reply to
its commit, and then the exception handler runs after the decision stands.
A worker never has to stop at its lease: the hard time limit (270 s) is below
the lease (300 s), but a suspended host runs neither clock, so late workers are
always allowed. `page_data` is the one column an attempt writes without
comparing its token (`pipeline.py:439`); the value is the same for every
attempt. The branch for a superseded run (`pipeline.py:405`) is in `Claim`;
`ActiveRunIsCurrent` shows that it is never taken.

**`InvoiceLife`.** What is promised about one invoice: its status and whether
money is reserved for it. `InvoiceRuns` computes the status with
`invoice_status` (`main.py:161`) from its own state and implements this module.

**`Ledger`.** What `finalize` decides and reserves while invoices of the same
order and the same business identity are decided by several workers. Here the
deciding transaction is taken apart; runs, attempts and tokens are left to
`InvoiceRuns`: any worker may take up an invoice whose run is active, also
several workers the same one.

| Code | Actions |
|---|---|
| `intake.py:54-101`, `main.py` review, retry, reject | `Submit`, `Review`, `Retry`, `Reject` |
| `pipeline.py:534-596`, evaluation without a lock and the assistant | `Prepare` |
| `pipeline.py:136-162`, workspace row, then the tests of the run | `LockWorkspace` |
| `pipeline.py:163-212`, context, match, `evaluate`, explanation | `Judge` |
| `pipeline.py:241-348`, decision, commitment, end of the run | `Record` |
| `pipeline.py:493-522`, rollback or refusal by the database | `Stop` |

A *reading* is what the rules know of one document and its selections: vendor,
reference, total, quantities and order; the outcome of all checks that look at
nothing else is its field `others`. `total` stands for total, date and currency
where two invoices are compared. Numbers are whole units of the smallest
amount that matters (the code computes in decimals, exactly); the code's
`total <= ceiling - committed` is written as a sum. `WeakIdentity` maps a
reference to what is left of it without punctuation. The
conditions of `grounded_match` on the text of documents are a choice: a
proposal made before the lock holds or does not hold under it. Which collision
is named as the original is a choice too, because the query has no order.
Holds are left out: a hold changes nothing that is read here. The row locks on
orders and the trigger's own locks are taken after the workspace's and add no
exclusion.

`Changeable` is the test of `lock_for_action` (`main.py:436-457`) that the
three actions of people on an existing invoice share.

**`OrderAccounts`.** What is promised about the orders of a workspace: what is
left of each, in money and per line, what each invoice was accepted for, and the
identities each vendor has used. Its one action takes an acceptance out of what
is left. `Ledger` computes these four from its decisions and commitments
(`Accounts`) and implements the module: a decision and its reservation are never
apart, an acceptance is never taken back, and no identity is used twice.

**`Policy`.** `Evaluations` is `evaluate`: the set of results it can give for
the fields, the verified fields and the selections of a revision, in a state of
the other invoices (several, when the query for duplicates may list one or
another first).

| Code | Definitions |
|---|---|
| `rules.py:44-51` | `PriceAllowed` |
| `rules.py`, document and required fields, evidence | `DocumentChecks`, `RequiredChecks`, `Critical` |
| vendor and order | `Candidates`, `VendorOf`, `FoundOrder`, `Conflicts`, `OrderOf`, `MatchChecks` |
| lines, prices, allocation | `Valid`, `AddsUp`, `Matching`, `Allocated`, `LineChecks`, `LinesChecks` |
| tax and totals | `Derivable`, `Inclusive`, `Gross`, `TaxChecks`, `TotalsChecks` |
| duplicates, budget, quantities | `DuplicateChecks`, `BudgetChecks`, `Incoming`, `Available` |
| `checks.py` | `CheckGroup`, `Waits`, `GroupState`, `Classify`, `ReasonFor` |
| `steps.ts`, an ended run | `Depends`, `SupplierOpen`, `ItemState`, `OwnState`, `PageState` |
| `main.py: review`, `build_row`; `pipeline.py: finalize` | `Review`, `Row`, `Decide`, `DecideOther` |

Abstractions. An amount is an integer in tenths of a cent, so that a value with
too many decimals exists and is refused (`precision`); quantities and
percentages are whole. The code divides decimals of 28 digits; here a
comparison of quotients is multiplied out, so a rounding in the 28th digit is
left out. A text is what it matches: a vendor, an order, a SKU, or `Other`; a
field may be absent or no number (`Bad`). `found` is the set of fields whose
value the extraction's citation supports; corrections cite the page by the
request's contract. Whether the citation of a unit is still found after its SKU
was corrected depends on text and is a choice (`UnitsFound`). Messages are kept
as `about` where `classify` or the page reads them. A match proposed by the
assistant is left to `Ledger`. `DecideOther` takes an invoice of a fixed set; an
accepted one fits its order, as `Ledger` shows of the deciding transaction.
`PageState` is the page's derivation with the recorded events (`events` true)
and for imported decisions, which have none.

**`Intake`.** Steps of `submit_invoice`, several requests at once, in several
workspaces: `Receive` (the session's workspace row, first lookup), `Store`,
`LockWorkspace` (row lock and refresh), `Charge` (second lookup, limit, quota
upsert, which locks the quota's row), `Commit`, `Refuse` and `Abort`;
`CreateSession` charges its quota and creates the workspace in one step. The
inbox's check (`inbox.py:98`) calls `submit_invoice`.

**`References`.** Steps of `save_reference`: `Check` (first lookup and count),
`Charge` and `ChargeRefused` (two quotas, one transaction), `Read`, `Lock` and
`LockRefused` (second lookup and count), `PutSource`, `PutPages`, `Commit`,
`Abort`; `Archive`; `OthersCharge` is another workspace on the common quota. The
inbox's save (`inbox.py:106`) calls `save_reference`. `Archive` needs the lock
to be free and is one step.

**`Team`.** `Invite` and `CommitInvite` (under the workspace lock), `Revoke`,
`FindInvitation` (without a lock), `Accept`, `AcceptRefused`, `CommitAccept`
(locked, looked up again), `RemoveMember`, `EditProfile` and `CommitProfile`
(no lock at all), `Abort`, and `Expire`, after which no request is admitted.

**`LiveView`.** The server's part is the run protocol as far as it writes events:
an attempt claims, emits around its AI step, finalizes, fails or is taken over
at any time. Emitting is three steps (`Look` at the token, `Insert`, which takes
the id, `CommitEmit`), because two emissions may commit in the other order; the
foreign key of an event waits for a finalize that holds the run. Events of
finalize become visible with the run's end. The page has the cached `detail`, a
request in flight, and an event source with its cursor.

| Code | Actions |
|---|---|
| `pipeline.py: process, emit_many, finalize`, handler | `Claim`, `GiveUp`, `Disabled`, `Look`, `Insert`, `CommitEmit`, `Finalize`, `CommitFinalize`, `Fail`, `Crash` |
| `main.py: review, retry` | `NewRun` |
| `main.py: detail`, one REPEATABLE READ snapshot (`auth.py:21`) | `Answer` |
| `main.py: stream` and `use-live-run.ts:43-62` | `Deliver` |
| `use-live-run.ts:21-41`, the query client | `Poll`, `Refocus`, `Arrive`, `Lose` |

Leases are left out (more attempts may be taken over than the code allows), as
are the reading stages, whose events are like those of the AI step. A broken
connection resumes from the cursor and only delays `Deliver`.

**`MC...`** modules add constants and symmetry sets for TLC; `MCPolicy` has the
register, the documents and the requests.

## 4. Runs

| Run | Bounds | Shows |
|---|---|---|
| `runs_attempts` | 1 invoice, 2 runs, 2 workers, 3 attempts | attempts stay bounded (`TypeOK`), every run stays visible to the dispatcher (`RunsAreRecoverable`), ended runs never change (`EndedRunsStay`), a worker without its token writes nothing (`StaleWorkersWriteNothing`) |
| `runs_revisions` | 1 invoice, 3 runs, 2 workers, 1 attempt, 3 revisions | `ActiveRunIsCurrent`, `OneDecisionPerRevision`, `WorkflowOnDecidedInvoice`, `CommittedExactlyWhenApproved`, `ClosedInvoicesStay`, and every step is a step of `InvoiceLife` (`LifeSafety`) |
| `runs_liveness` | 1 invoice, 2 runs, 1 worker, 2 attempts | every active run ends (`RunsEnd`); the fair life cycle is implemented (`ImplementsInvoiceLife`) |
| `ledger` | 2 invoices, 2 workers, 1 order, 1 line, 2 revisions | the trigger never has to refuse what the rules accepted (`GuardNeverRefuses`), similar references are never both accepted (`NoSimilarAcceptance`), explanations follow the final policy (`ExplanationFollowsPolicy`), every step is a step of `OrderAccounts` (`KeepsAccounts`), `TypeOK` |
| `ledger_duplicates` | the same | **violated**: `DuplicateNamesEarlierInvoice` |
| `policy` | 2 vendors, 3 orders of 2 SKUs, 17 documents, 29 requests, 3 other invoices, 3 revisions | an acceptance charges for its goods no more than was authorised (`GoodsAreAuthorised`); the steps, recorded and as the page derives them, tell the outcome (`ProgressTellsOutcome`); the list gives a reason that a step shows, with the fields it was decided on (`RowGivesReason`); `TypeOK` |
| `intake` | 3 workspaces of which 2 may be created, 4 invoices, 3 documents, 3 requests, 2 uploads a session, 3 a day | `OneInvoicePerDocument`, `CountersAgree` (a workspace's counter and the day's quota), `SubmittedIsStored`, `TypeOK` |
| `references` | 3 documents, 3 contents, 3 requests, 2 active documents, quotas 4 and 5 | `WithinLimit`, `OneRowPerDigest`, `SavedIsStored`, `QuotasAgree`, `TypeOK` |
| `team` | 3 members, 3 invitations, 3 addresses, 2 requests, 3 seats | `WithinLimit`, `OneMemberPerInvitation`, `PendingEmailsDistinct`, `RevokedAdmitsNobody`, `RemovedStayOut`, `TypeOK` |
| `team_emails` | the same | **violated**: `ActiveEmailsDistinct` |
| `live` | 2 runs, 2 attempts of a run and in all | a completed run is shown with all its results (`EndedViewIsComplete`); a page never stays on an ended run (`ViewsSettle`); again and again it holds every committed event (`EventsArrive`); `TypeOK` |
| `live_explanation` | 1 run, 2 attempts | **violated**: `ExplanationBeforeDecision` |

Finding (`ledger_duplicates`). `checks.py:279` and the client's
`verdict.ts:340` speak of an *earlier* invoice when they explain a duplicate.
`financial_context` (`pipeline.py:103`) compares with the current decisions of
all *other* invoices, whenever they arrived and whatever became of them. TLC
finds an invoice that is overtaken by its own copy and then blocked as the
copy's duplicate. The same happens when an invoice waiting for a review is
checked again after its copy was blocked: each of the two then names the other
as the original, and neither can be accepted, because a blocked or rejected
decision still counts.

Finding (`team_emails`). `update_profile` looks for another member with the
new address (`product.py:69-77`) and writes it later, without a lock and without
a unique constraint behind it (`db.py:45-56`). An invitation for that address
that is accepted in between, or a second profile, gives two active members one
address, which both `product.py:77` and `product.py:265` mean to refuse.

Finding (`live_explanation`). The page shows the explanation as running when the
last event of the AI step says so, before it looks at the decision
(`steps.ts:390`), under the comment "the AI explanation is written before the
decision lands" (`steps.ts:47`). TLC lets an attempt write "running" and be taken
over; the assistance is turned off, so the next attempt writes no such event and
decides. The invoice is settled and its explanation stays in progress. A second
way needs no setting: `emit_many` compares the token without locking the run
(`pipeline.py:59`), so the old attempt may add its "running" after its
successor's "passed".

The ledger's instance: an order of 4 units and as many pieces, of which history
used 1. Of its four readings one pair uses the remaining 3 exactly, in money and
in quantity, and another pair exceeds it by one in money; two references are
similar, two equal with another amount, and one reading names no order so that a
match may be proposed. Two invoices and two workers give every order of
preparing, locking and committing, also two workers on one invoice; a second
revision lets an invoice be decided again after the other. Invoices and workers are symmetric.

In the `runs_...` runs one invoice is enough for TLC because no transaction of
`InvoiceRuns` touches two invoices; the proofs hold for any number. Three attempts and two
workers let an old worker meet the next attempt, and the attempt after it. Two
runs give a retry or a review beside the first run, three give every order of
them. `MaxMessages = 1` copy waiting besides those already delivered: more
copies are dropped or claimed the same way. `MaxRevision` and the number of
runs cap what people may ask for. Runs and workers are symmetric in the safety
runs; the liveness run uses no symmetry. Deadlock is not an error: when all
invoices are decided and nobody asks for anything the system rests.

The policy's instance. The documents reach every check in both states: prices at
the edge of one per cent and of one dollar, quantities and amounts at what is left and one
beyond, inclusive and ambiguous tax, rates, discounts and freight, amounts that
are no numbers, a missing or unknown vendor, a closed order, an inactive vendor,
fields that the page does not show. Requests correct single fields, select
vendors and orders, or ask for nothing but another check; two reviews in a row
combine corrections. The other invoices are a copy, a similar reference and one
that uses most of an order. Every sub-expression of the module is evaluated by
the run.

The instances of intake, documents and team have limits that are reached and two
or three requests that race for the last place, for the same row and across
rows; a third workspace makes the sessions' quota refuse. In `live`, two
attempts of one run overtake each other, or one attempt of each of two runs; ids
of an emission and of finalize interleave in every order.

Fairness (`FairSpec`). Weak for the clock of each run, for the dispatcher's
treatment of each run (it loops for ever, `dispatcher.py:51`, and ten rows a
round are ordered by age) and for each busy worker (its body ends or the hard
time limit kills it). Strong for the delivery of a run's message: single
messages may be lost, but a run that is sent again and again is delivered at
some time. None for people, crashes, losses and repeated deliveries.

Fairness of `LiveView`. Weak for `Poll`: the query client's interval fires as
long as the run on the page is active. Strong for `Answer` and `Arrive`: single
requests fail or are cancelled by a settling event, which asks again, but a page
that goes on asking gets an answer some time. None for the stream (`Deliver`), so the two
liveness properties hold without it, and none for workers: an active run may
stay active for ever and the page then keeps it as active.

`GoodsAreAuthorised` allows a cent for each line and one for the total, as the
checks do (`rules.py:263`): it says that these allowances are all there are.
Each property has a mutant of the code that breaks it.

## 5. Proofs

`InvoiceRunsProofs`, for any sets of invoices, runs and workers and any bounds,
from `ConstantsAssumption` only:

* *Types.* `TypeInv` is `TypeOK` with three facts it needs to be inductive:
  stored runs belong to a revision (`RunsOwned`), busy workers and waiting
  messages name stored runs (`WorkersHoldRuns`, `MessagesOfRuns`).
* *Kinds of steps.* `Kinds` sorts the steps: `RunsMove` (at most one active run
  changes, to active or failed, and no invoice does), `RunDecides`
  (finalize), a hold or rejection, a new run. Each invariant is preserved by
  kind, so a new action needs only a lemma that names its kind.
* *Business.* `BusinessInv` strengthens the safety invariants: the current run
  is a stored run of the current revision; exactly completed runs are decided,
  and a completed run is the current one or of an older revision; an accepting
  decision is the current run's. Without the last two
  `OneDecisionPerRevision` and `CommittedExactlyWhenApproved` are not
  inductive: retry and finalize look at the current run only.
* Theorems: `TypeCorrect`, `ActiveRunsAreCurrent`, `RevisionsAreDecidedOnce`,
  `WorkflowStandsOnDecision`, `CommitmentsMatchApprovals`,
  `RunsStayRecoverable`, and the action properties `EndedRunsAreFinal`,
  `StaleWorkersAreFenced`, `ClosedInvoicesAreFinal`.

`RunsImplementLife` closes the module: `Spec => Life!Spec`. `retry`
does not ask whether the invoice was rejected; the proof of `RetryPreserves` shows
why it need not: a rejection stands on a completed run only.

`LedgerProofs`, from `LedgerAssumption` and `NullAssumption` (the constants have
their types; imported rows are finitely many, name no invoice and have passed the
trigger, so that no order starts beyond its limits; a null is not a row):

* `LedgerInv` joins the types with: a deciding worker holds the workspace and
  its run is active (`DecidersHoldTheLock`); an accepted invoice has no active
  run (`InvoicesAreRead`); a commitment stands for its invoice's accepting
  decision (`CommitmentsStand`); an approval that was evaluated still fits
  (`ApprovalsFit`); no order is exceeded, in money or in a line (`OrdersHold`); an
  explanation about to be stored follows its result (`ExplanationsFollow`).
  `NoSimilarAcceptance` alone is not inductive: the rules look at decisions, the
  property at commitments, and only `CommitmentsStand` joins the two; only the
  lock keeps the evaluation true until the commit.
* `GuardNeverRefuses` needs `OrdersHold`. The rules test the lines an invoice
  bills, the trigger all lines of the order; that a line which is not billed is
  within its limit is a fact about all commitments made before, and follows
  because each was accepted by the same trigger (`CommitmentKeepsOrders`).
* The refinement maps the commit of an approval to one `Accept` (`RecordAccepts`,
  which adds the new row to the sums of its order by `CommitmentUses`) and every
  other step to a stutter (`AccountsStep`). It uses `LedgerInv` before and after
  the step.
* Theorems: `LedgerIsTyped`, `AcceptancesAreDissimilar`, `ApprovalsStayValid`,
  `GuardAcceptsApprovals`, `OrdersAreNotExceeded`, `ExplanationsFollowPolicy`, and
  `LedgerKeepsAccounts` (`Spec => Accounts!Spec`).

`SumTheorems` shows that the community modules' `SumFunctionOnSet`, a recursive
function over subsets, adds up: the sum takes out any element (`SumTakesOut`),
grows by the element added (`SumAdds`), depends on the values only
(`SumIsOfValues`), is monotone, distributes over `+` and multiples, and can be
grouped by a key (`SumByKind`). The provers cannot instantiate an induction rule
with an operator parameter, so the induction is done by hand: the subsets of a
finite set for which a fact fails would have a minimal element
(`MinimalSubset`, from the well-foundedness of strict inclusion).

`TeamProofs`, from `TeamAssumption` (finite sets of rows, a positive limit):

* `TeamInv` counts *seats* with every invitation that is neither accepted nor
  revoked, so it needs no clock; the request that invites holds the lock and has
  counted (`InvitersAreChecked`), the one that accepts holds it and has looked
  again (`AccepterIsChecked`). Acceptance moves a seat from the invitation to the
  member, which is why it need not count; `WithinLimit` alone is not inductive.
* Theorems: `TeamIsTyped`, `SeatsStayWithinLimit`, `InvitationsAdmitOne`,
  `AddressesAreInvitedOnce`, `RevocationIsFinal`, `RemovalIsFinal`.

`ReferencesProofs`, from `ReferencesAssumption`: the holder of the lock has
chosen the one row of its digest, or a new row where there is room
(`WritersHaveChosen`), and the objects of its step are there (`ObjectsAreAhead`);
objects are never taken away. Theorems: `ReferencesAreTyped`,
`LibraryStaysWithinLimit`, `DigestsHaveOneRow`, `SavedStaysStored`,
`QuotasStayAgreed`.

`IntakeProofs`, from `IntakeAssumption`: identities of invoices in preparation
differ (`IdentitiesDistinct`), sources are put (`SourcesArePut`), a locked
request knows the current count (`RowsAreFresh`), and one that was charged is
within both limits and has no rival for its document (`ChargedAreChecked`).
Without `RowsAreFresh` the counter could be overwritten with an older one.
Theorems: `IntakeIsTyped`, `DocumentsMakeOneInvoice`, `CountersAlwaysAgree`,
`SubmittedStaysStored`.

`LiveViewProofs`, from `LiveViewAssumption`: a finalizing attempt has written its
group and decision events (`FinalizersWrote`); every completed
run has both, visible (`Written`); an answer under way is complete for the run it
names (`AnswerIsComplete`), also when other steps happen before it arrives.
Visible events never disappear. Theorems: `LiveViewIsTyped`,
`EndedViewsAreComplete`.

`PolicyProofs`, from `PolicyAssumption` and `NullAssumption`: the nulls are apart
from the values; a register entry is an order or a vendor as the tables have
them; a document, a request and another invoice have the field types that the
schema of the service validates (`Request`, `Invoice`); nothing is assumed of
what they say.

* `PolicyIsTyped`: `TypeInv` is `TypeOK` with the fact that a first decision is of
  the first revision. `EvaluationIsTyped` goes through every group of checks.
* `ProgressAlwaysTells` follows from facts about `Evaluations` alone
  (`EvaluationIsSound`): every group has a check; the supplier is open exactly if
  there is no vendor; without a vendor, or without an order, a check of a step that
  does not wait says so; only vendor, order and duplicate checks block.
* `RowAlwaysGivesReason`: `reason_for` takes the least open check by four keys;
  that a finite set of checks has a least one, and that its step is shown, comes
  from `Reasoned`, which `DecisionInv` carries with the current decision.
* `GoodsAreAlwaysAuthorised`: `GoodsInv` says that an accepted invoice keeps what
  its checks established of the prices and totals (`Priced`) and that it still
  fits what is left of the order and of its lines. The rest is arithmetic on
  sums of lines: each line's charge is bounded by its authorised price and the
  tolerance (`rules.py:44-51`) and a cent, the lines are grouped by SKU, and the
  total adds another cent.

Model-checked only: liveness (`RunsEnd`, `ImplementsInvoiceLife`, `ViewsSettle`,
`EventsArrive`), which rests on fairness and ENABLED and is out of the prover's
reach. The safety part of `ImplementsInvoiceLife` is `RunsImplementLife`. Every
invariant and every action property of the passing runs is a theorem.

## 6. Not modelled

* Wording: messages, labels, the texts of `status.ts` and `verdict.ts`, the
  explanation the model writes, and `comparison_view`, which lays decided values
  side by side.
* Text: reading a PDF, finding a quotation on a page, ranking passages of company
  documents (`assistant.py: retrieve`), and the answers of the model provider.
  Each is a choice where a decision rests on it.
* The steps of the page while a run is in progress, except the explanation and
  the arrival of events.
* Export, download, dashboard sums and cookies: reads and formatting.
* The contents of `seed.py`, `history.py`, `samples.py` and
  `followup_examples.py` are data; the rows they import are part of the first
  state of `Ledger` and, as decisions without events, of `Policy`'s page.
* Days: a quota is that of one day. Audit rows: written beside what they report,
  in the same transaction, and read by nobody but people.
* One hazard has no property: `pipeline.py:199` keeps an explanation when the
  outcome stays the same although other checks are open than when it was
  written. The comment above the line promises a refresh for an applied order
  only, so nothing in the repository is contradicted.
* `src/scripts/`, fixtures and layout.
