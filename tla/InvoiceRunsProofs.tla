------------------------- MODULE InvoiceRunsProofs -------------------------
(***************************************************************************)
(* Proofs about InvoiceRuns for any number of invoices, runs, workers,     *)
(* attempts and revisions.                                                 *)
(***************************************************************************)
EXTENDS InvoiceRuns, TLAPS

(* A stored run belongs to a revision of an invoice. *)
RunsOwned ==
    \A r \in Runs : runs[r].state # "ABSENT" =>
        runs[r].invoice \in Invoices /\ runs[r].revision \in Revisions

(* A busy worker works on a stored run. *)
WorkersHoldRuns ==
    \A w \in Workers :
        workers[w].step # "idle" =>
            workers[w].run \in Runs /\ runs[workers[w].run].state # "ABSENT"

(* Only stored runs have messages. *)
MessagesOfRuns ==
    \A r \in Runs : queue[r] > 0 => runs[r].state # "ABSENT"

TypeInv == TypeOK /\ RunsOwned /\ WorkersHoldRuns /\ MessagesOfRuns

(* The current run of an invoice is a stored run of its current revision, *)
(* and only an uploaded invoice has runs, none of a later revision.       *)
CurrentRunIsOwn ==
    /\ \A i \in Invoices : Uploaded(i) =>
         LET row == runs[invoices[i].currentRun]
         IN  row.state # "ABSENT" /\ row.invoice = i /\ row.revision = invoices[i].revision
    /\ \A r \in Runs : runs[r].state # "ABSENT" =>
         /\ Uploaded(runs[r].invoice)
         /\ runs[r].revision <= invoices[runs[r].invoice].revision

(* Exactly the completed runs have a decision, and a completed run is of   *)
(* an older revision or the current run.                                   *)
DecisionsOfCompletedRuns ==
    /\ \A r \in Runs : decisions[r] # None <=> runs[r].state = "COMPLETED"
    /\ \A r \in Runs : runs[r].state = "COMPLETED" =>
         LET inv == invoices[runs[r].invoice]
         IN  r = inv.currentRun \/ runs[r].revision < inv.revision

(* The current decision was made by a run of the invoice, by the current   *)
(* run once that one completed, and an accepting decision is the current   *)
(* run's.                                                                  *)
CurrentDecisionIsOwn ==
    \A i \in Invoices :
        LET inv == invoices[i]
        IN  /\ Decided(i) =>
                 /\ Uploaded(i)
                 /\ runs[inv.currentDecision].invoice = i
                 /\ runs[inv.currentDecision].state = "COMPLETED"
                 /\ CurrentOutcome(i) = "APPROVED" => inv.currentRun = inv.currentDecision
            /\ Uploaded(i) /\ CurrentState(i) = "COMPLETED" =>
                 inv.currentDecision = inv.currentRun

-----------------------------------------------------------------------------
(* Types.                                                                  *)

(* What the actions do to one row keeps it a row, of the same revision. *)
Keeps(new, old) ==
    new \in RunRow /\ new.invoice = old.invoice /\ new.revision = old.revision

LEMMA RunRowEdits ==
    ASSUME NEW row \in RunRow
    PROVE  /\ Keeps(GivenUp(row), row) /\ GivenUp(row).state = "FAILED"
           /\ Keeps(Failed(row), row) /\ Failed(row).state = "FAILED"
           /\ Keeps(Requeued(row), row) /\ Requeued(row).state = "QUEUED"
           /\ Keeps(Completed(row), row) /\ Completed(row).state = "COMPLETED"
           /\ Keeps(Dispatched(row), row) /\ Dispatched(row).state = row.state
BY DEF Keeps, RunRow, Times, Active, Terminal, GivenUp, Failed, Requeued, Completed, Dispatched

LEMMA TimeEdits ==
    ASSUME NEW row \in RunRow, NEW t \in Times
    PROVE  /\ LET new == [row EXCEPT !.lease = t]
              IN  Keeps(new, row) /\ new.state = row.state
           /\ LET new == [row EXCEPT !.retryAt = t]
              IN  Keeps(new, row) /\ new.state = row.state
           /\ LET new == [row EXCEPT !.dispatchedAt = t]
              IN  Keeps(new, row) /\ new.state = row.state
BY DEF Keeps, RunRow

LEMMA ClaimedRow ==
    ASSUME NEW row \in RunRow, row.attempt < MaxAttempts
    PROVE  Keeps(Claimed(row), row) /\ Claimed(row).state = "RUNNING"
<1>1. row.attempt + 1 \in 0..MaxAttempts
    BY ConstantsAssumption DEF RunRow
<1> QED
    BY <1>1 DEF Keeps, RunRow, Times, Active, Claimed

LEMMA NewRunTyped ==
    ASSUME NEW i \in Invoices, NEW n \in Revisions
    PROVE  /\ NewRun(i, n) \in RunRow
           /\ NewRun(i, n).state = "QUEUED"
           /\ NewRun(i, n).invoice = i
           /\ NewRun(i, n).revision = n
<1>1. n \in 0..MaxRevision /\ 0 \in 0..MaxAttempts
    BY ConstantsAssumption DEF Revisions
<1> QED
    BY <1>1 DEF NewRun, UntouchedRun, RunRow, Times, Active

LEMMA DecidedByTyped ==
    ASSUME NEW inv \in InvoiceRow, NEW r \in Runs
    PROVE  DecidedBy(inv, r) \in InvoiceRow
BY DEF DecidedBy, InvoiceRow

LEMMA IdleTyped == Idle \in WorkerRow /\ Idle.step = "idle"
BY ConstantsAssumption DEF Idle, WorkerRow, Steps

LEMMA TypeInit == Init => TypeInv
<1> SUFFICES ASSUME Init PROVE TypeInv
    OBVIOUS
<1> USE DEF Init
<1>1. NewInvoice \in InvoiceRow
    BY ConstantsAssumption DEF NewInvoice, InvoiceRow, Revisions
<1>2. AbsentRun \in RunRow /\ AbsentRun.state = "ABSENT"
    BY ConstantsAssumption DEF AbsentRun, UntouchedRun, RunRow, Times
<1>3. queue \in [Runs -> 0..MaxMessages]
    BY ConstantsAssumption
<1> QED
    BY <1>1, <1>2, <1>3, IdleTyped, ConstantsAssumption DEF TypeInv, TypeOK, RunsOwned, WorkersHoldRuns, MessagesOfRuns

LEMMA QueueTyped ==
    ASSUME TypeInv, NEW r \in Runs,
           \/ Send(r)
           \/ queue[r] > 0 /\ queue' = [queue EXCEPT ![r] = @ - 1]
           \/ queue' = queue
    PROVE  queue' \in [Runs -> 0..MaxMessages]
<1>1. queue \in [Runs -> 0..MaxMessages] /\ queue[r] \in 0..MaxMessages
    BY DEF TypeInv, TypeOK
<1>2. CASE Send(r)
    <2>1. queue[r] + 1 \in 0..MaxMessages
        BY <1>1, <1>2, ConstantsAssumption DEF Send
    <2> QED
        BY <1>1, <1>2, <2>1 DEF Send
<1>3. CASE queue[r] > 0 /\ queue' = [queue EXCEPT ![r] = @ - 1]
    <2>1. queue[r] - 1 \in 0..MaxMessages
        BY <1>1, <1>3, ConstantsAssumption
    <2> QED
        BY <1>1, <1>3, <2>1
<1>4. CASE queue' = queue
    BY <1>1, <1>4
<1> QED
    BY <1>2, <1>3, <1>4

(* A stored run may change to any row that keeps its revision. *)
LEMMA RunChangeTyped ==
    ASSUME TypeInv, NEW r \in Runs, NEW row,
           Keeps(row, runs[r]), runs[r].state # "ABSENT", row.state # "ABSENT",
           runs' = [runs EXCEPT ![r] = row]
    PROVE  /\ runs' \in [Runs -> RunRow]
           /\ RunsOwned'
           /\ \A q \in Runs : runs[q].state # "ABSENT" => runs'[q].state # "ABSENT"
BY DEF TypeInv, TypeOK, RunsOwned, Keeps

(* A worker may change to any row that is idle or keeps its run. *)
LEMMA WorkerChangeTyped ==
    ASSUME TypeInv, NEW w \in Workers, NEW row \in WorkerRow,
           row.step = "idle" \/ (row.run \in Runs /\ runs[row.run].state # "ABSENT"),
           workers' = [workers EXCEPT ![w] = row],
           \A q \in Runs : runs[q].state # "ABSENT" => runs'[q].state # "ABSENT"
    PROVE  workers' \in [Workers -> WorkerRow] /\ WorkersHoldRuns'
BY DEF TypeInv, TypeOK, WorkersHoldRuns

(* Inserting a run leaves the stored runs as they are. *)
LEMMA StartRunTyped ==
    ASSUME TypeInv, NEW i \in Invoices, NEW r \in Runs, NEW n \in Revisions,
           UnusedRun(r), StartRun(i, r, n), UNCHANGED <<queue, workers>>
    PROVE  /\ runs' \in [Runs -> RunRow]
           /\ RunsOwned'
           /\ WorkersHoldRuns'
           /\ MessagesOfRuns'
<1>1. NewRun(i, n) \in RunRow /\ NewRun(i, n).state = "QUEUED" /\ NewRun(i, n).invoice = i
      /\ NewRun(i, n).revision = n
    BY NewRunTyped
<1>2. runs' = [runs EXCEPT ![r] = NewRun(i, n)]
    BY DEF StartRun
<1>3. \A q \in Runs : runs[q].state # "ABSENT" => runs'[q] = runs[q]
    BY <1>2 DEF TypeInv, TypeOK, UnusedRun
<1> QED
    BY <1>1, <1>2, <1>3 DEF TypeInv, TypeOK, RunsOwned, WorkersHoldRuns, MessagesOfRuns

LEMMA TimePassesRow ==
    ASSUME TypeInv, NEW r \in Runs, TimePasses(r)
    PROVE  \E row : Keeps(row, runs[r]) /\ row.state = runs[r].state /\ Pass(r, row)
<1>1. runs[r] \in RunRow /\ "PAST" \in Times
    BY DEF TypeInv, TypeOK, Times
<1> QED
    BY <1>1, TimeEdits DEF TimePasses, LeaseExpires, RetryComesDue, DispatchGrowsOld

LEMMA TypeStep == TypeInv /\ [Next]_vars => TypeInv'
<1> SUFFICES ASSUME TypeInv, [Next]_vars PROVE TypeInv'
    OBVIOUS
<1> USE DEF TypeInv, TypeOK
<1>1. ASSUME NEW i \in Invoices, Hold(i) \/ Reject(i) PROVE TypeInv'
    <2>1. \A s \in {"ON_HOLD", "REJECTED"} : [invoices[i] EXCEPT !.workflow = s] \in InvoiceRow
        BY DEF InvoiceRow
    <2>2. invoices' \in [Invoices -> InvoiceRow]
        BY <1>1, <2>1 DEF Hold, Reject
    <2>3. UNCHANGED <<extraction, runs, decisions, commitments, queue, workers>>
        BY <1>1 DEF Hold, Reject
    <2> QED
        BY <2>2, <2>3 DEF RunsOwned, WorkersHoldRuns, MessagesOfRuns
<1>2. ASSUME NEW i \in Invoices, NEW r \in Runs, Submit(i, r) PROVE TypeInv'
    <2>1. 1 \in Revisions
        BY ConstantsAssumption DEF Revisions
    <2>2. invoices' \in [Invoices -> InvoiceRow]
        BY <1>2, <2>1 DEF Submit, NewInvoice, InvoiceRow
    <2> QED
        BY <1>2, <2>1, <2>2, StartRunTyped DEF Submit
<1>3. ASSUME NEW i \in Invoices, NEW r \in Runs, Review(i, r) PROVE TypeInv'
    <2> DEFINE n == invoices[i].revision + 1
    <2>1. n \in Revisions
        BY <1>3, ConstantsAssumption DEF Review, Revisions, InvoiceRow
    <2>2. [invoices[i] EXCEPT !.revision = n, !.currentRun = r, !.workflow = "NONE"] \in InvoiceRow
        BY <2>1 DEF InvoiceRow
    <2>3. invoices' \in [Invoices -> InvoiceRow] /\ extraction' \in [Invoices -> SUBSET Revisions]
        BY <1>3, <2>1, <2>2 DEF Review
    <2> QED
        BY <1>3, <2>1, <2>3, StartRunTyped DEF Review
<1>4. ASSUME NEW i \in Invoices, NEW r \in Runs, Retry(i, r) PROVE TypeInv'
    <2>1. invoices[i].revision \in Revisions
        BY DEF InvoiceRow
    <2>2. invoices' \in [Invoices -> InvoiceRow]
        BY <1>4 DEF Retry, InvoiceRow
    <2> QED
        BY <1>4, <2>1, <2>2, StartRunTyped DEF Retry
<1>5. ASSUME NEW r \in Runs, Dispatch(r) \/ DispatchUncommitted(r) PROVE TypeInv'
    <2>1. queue' \in [Runs -> 0..MaxMessages]
        BY <1>5, QueueTyped DEF Dispatch, DispatchUncommitted
    <2>2. /\ runs[r].state # "ABSENT"
          /\ UNCHANGED <<invoices, extraction, decisions, commitments, workers>>
          /\ \A q \in Runs : queue'[q] > 0 => queue[q] > 0 \/ q = r
        BY <1>5 DEF Dispatch, DispatchUncommitted, Selected, Send
    <2>3. CASE runs' = runs
        BY <2>1, <2>2, <2>3 DEF RunsOwned, WorkersHoldRuns, MessagesOfRuns
    <2>4. CASE runs' = [runs EXCEPT ![r] = Dispatched(@)]
        <3>1. Keeps(Dispatched(runs[r]), runs[r]) /\ Dispatched(runs[r]).state # "ABSENT"
            BY <2>2, RunRowEdits
        <3> QED
            BY <2>1, <2>2, <2>4, <3>1, RunChangeTyped DEF WorkersHoldRuns, MessagesOfRuns
    <2> QED
        BY <1>5, <2>3, <2>4 DEF Dispatch, DispatchUncommitted
<1>6. ASSUME NEW r \in Runs, DispatchGiveUp(r) PROVE TypeInv'
    <2>1. Keeps(GivenUp(runs[r]), runs[r]) /\ GivenUp(runs[r]).state # "ABSENT"
        BY RunRowEdits
    <2>2. runs' = [runs EXCEPT ![r] = GivenUp(@)] /\ runs[r].state # "ABSENT"
        BY <1>6 DEF DispatchGiveUp, Selected
    <2>3. UNCHANGED <<invoices, extraction, decisions, commitments, queue, workers>>
        BY <1>6 DEF DispatchGiveUp
    <2> QED
        BY <2>1, <2>2, <2>3, RunChangeTyped DEF WorkersHoldRuns, MessagesOfRuns
<1>7. ASSUME NEW r \in Runs, LoseMessage(r) PROVE TypeInv'
    <2>1. queue' \in [Runs -> 0..MaxMessages]
        BY <1>7, QueueTyped DEF LoseMessage
    <2>2. UNCHANGED <<tables, workers>> /\ \A q \in Runs : queue'[q] > 0 => queue[q] > 0
        BY <1>7 DEF LoseMessage
    <2> QED
        BY <2>1, <2>2 DEF tables, RunsOwned, WorkersHoldRuns, MessagesOfRuns
<1>8. ASSUME NEW r \in Runs, TimePasses(r) PROVE TypeInv'
    <2>1. PICK row : Keeps(row, runs[r]) /\ row.state = runs[r].state /\ Pass(r, row)
        BY <1>8, TimePassesRow
    <2>2. runs[r].state # "ABSENT" /\ runs' = [runs EXCEPT ![r] = row]
        BY <2>1 DEF Pass, Active
    <2>3. UNCHANGED <<invoices, extraction, decisions, commitments, queue, workers>>
        BY <2>1 DEF Pass
    <2> QED
        BY <2>1, <2>2, <2>3, RunChangeTyped DEF WorkersHoldRuns, MessagesOfRuns
<1>9. ASSUME NEW w \in Workers, Redeliver(w) \/ Crash(w) PROVE TypeInv'
    <2> DEFINE r == workers[w].run
    <2>1. r \in Runs /\ runs[r].state # "ABSENT"
        BY <1>9 DEF Redeliver, Crash, WorkersHoldRuns
    <2>2. queue' \in [Runs -> 0..MaxMessages]
        BY <1>9, <2>1, QueueTyped DEF Redeliver, Crash
    <2>3. UNCHANGED tables /\ \A q \in Runs : queue'[q] > 0 => queue[q] > 0 \/ q = r
        BY <1>9 DEF Redeliver, Crash, Send
    <2>4. CASE workers' = workers
        BY <2>1, <2>2, <2>3, <2>4 DEF tables, RunsOwned, WorkersHoldRuns, MessagesOfRuns
    <2>5. CASE Leave(w)
        BY <2>1, <2>2, <2>3, <2>5, IdleTyped, WorkerChangeTyped
           DEF tables, Leave, RunsOwned, MessagesOfRuns
    <2> QED
        BY <1>9, <2>4, <2>5 DEF Redeliver, Crash
<1>10. ASSUME NEW w \in Workers, NEW r \in Runs, DropMessage(w, r) PROVE TypeInv'
    <2>1. queue' \in [Runs -> 0..MaxMessages]
        BY <1>10, QueueTyped DEF DropMessage, Deliver
    <2>2. UNCHANGED <<tables, workers>> /\ \A q \in Runs : queue'[q] > 0 => queue[q] > 0
        BY <1>10 DEF DropMessage, Deliver
    <2> QED
        BY <2>1, <2>2 DEF tables, RunsOwned, WorkersHoldRuns, MessagesOfRuns
<1>11. ASSUME NEW w \in Workers, NEW r \in Runs, Claim(w, r) PROVE TypeInv'
    <2>1. queue' \in [Runs -> 0..MaxMessages]
        BY <1>11, QueueTyped DEF Claim, Deliver
    <2>2. runs[r].state # "ABSENT" /\ runs[r].invoice \in Invoices
        BY <1>11 DEF Claim, Deliver, MessagesOfRuns, RunsOwned
    <2>3. /\ UNCHANGED <<invoices, extraction, decisions, commitments>>
          /\ \A q \in Runs : queue'[q] > 0 => queue[q] > 0
        BY <1>11 DEF Claim, Deliver
    <2>4. CASE Exhausted(r) \/ Superseded(r)
        <3>1. Keeps(GivenUp(runs[r]), runs[r]) /\ GivenUp(runs[r]).state # "ABSENT"
            BY RunRowEdits
        <3>2. runs' = [runs EXCEPT ![r] = GivenUp(@)] /\ workers' = workers
            BY <1>11, <2>4 DEF Claim, GiveUpOrClaim
        <3> QED
            BY <2>1, <2>2, <2>3, <3>1, <3>2, RunChangeTyped DEF WorkersHoldRuns, MessagesOfRuns
    <2>5. CASE ~(Exhausted(r) \/ Superseded(r))
        <3>1. runs[r] \in RunRow /\ runs[r].attempt < MaxAttempts
            BY <2>5, ConstantsAssumption DEF Exhausted, RunRow
        <3>2. Keeps(Claimed(runs[r]), runs[r]) /\ Claimed(runs[r]).state # "ABSENT"
            BY <3>1, ClaimedRow
        <3>3. runs[r].attempt + 1 \in 0..MaxAttempts /\ invoices[runs[r].invoice].pages \in BOOLEAN
            BY <2>2, <3>1, ConstantsAssumption DEF RunRow, InvoiceRow
        <3>4. Attempt(r) \in WorkerRow /\ Attempt(r).run = r
            BY <3>3 DEF Attempt, WorkerRow, Steps
        <3>5. runs' = [runs EXCEPT ![r] = Claimed(@)] /\ workers' = [workers EXCEPT ![w] = Attempt(r)]
            BY <1>11, <2>5 DEF Claim, GiveUpOrClaim
        <3>6. /\ runs' \in [Runs -> RunRow]
              /\ RunsOwned'
              /\ \A q \in Runs : runs[q].state # "ABSENT" => runs'[q].state # "ABSENT"
            BY <2>2, <3>2, <3>5, RunChangeTyped
        <3>7. workers' \in [Workers -> WorkerRow] /\ WorkersHoldRuns'
            BY <2>2, <3>4, <3>5, <3>6, WorkerChangeTyped
        <3> QED
            BY <2>1, <2>3, <3>6, <3>7 DEF MessagesOfRuns
    <2> QED
        BY <2>4, <2>5
<1>12. ASSUME NEW w \in Workers, ReadPages(w) PROVE TypeInv'
    <2> DEFINE row == [workers[w] EXCEPT !.step = "extract", !.pages = TRUE]
    <2>1. row \in WorkerRow /\ row.run = workers[w].run /\ workers' = [workers EXCEPT ![w] = row]
        BY <1>12 DEF ReadPages, WorkerRow, Steps
    <2>2. workers[w].run \in Runs /\ runs[workers[w].run].state # "ABSENT"
        BY <1>12 DEF ReadPages, WorkersHoldRuns
    <2>3. UNCHANGED <<extraction, runs, decisions, commitments, queue>>
        BY <1>12 DEF ReadPages
    <2>4. invoices' \in [Invoices -> InvoiceRow]
        <3>1. \A i \in Invoices : [invoices[i] EXCEPT !.pages = TRUE] \in InvoiceRow
            BY DEF InvoiceRow
        <3> QED
            BY <1>12, <3>1 DEF ReadPages
    <2>5. workers' \in [Workers -> WorkerRow] /\ WorkersHoldRuns'
        <3> HIDE DEF row
        <3> QED
            BY <2>1, <2>2, <2>3, WorkerChangeTyped
    <2> QED
        BY <2>3, <2>4, <2>5 DEF RunsOwned, MessagesOfRuns
<1>13. ASSUME NEW w \in Workers, Extract(w) \/ BreakDown(w) \/ ProviderInterrupted(w)
       PROVE  TypeInv'
    <2>1. PICK row \in WorkerRow : row.run = workers[w].run /\ workers' = [workers EXCEPT ![w] = row]
        BY <1>13 DEF Extract, BreakDown, ProviderInterrupted, WorkerRow, Steps
    <2>2. workers[w].run \in Runs /\ runs[workers[w].run].state # "ABSENT"
        BY <1>13 DEF Extract, BreakDown, ProviderInterrupted, WorkersHoldRuns
    <2>3. UNCHANGED <<tables, queue>>
        BY <1>13 DEF Extract, BreakDown, ProviderInterrupted
    <2> QED
        BY <2>1, <2>2, <2>3, WorkerChangeTyped DEF tables, RunsOwned, MessagesOfRuns
<1>14. ASSUME NEW w \in Workers, Finalize(w) PROVE TypeInv'
    <2> DEFINE r == workers[w].run
               i == runs[r].invoice
    <2>1. r \in Runs /\ i \in Invoices /\ runs[r].state # "ABSENT" /\ runs[r].revision \in Revisions
        BY <1>14 DEF Finalize, WorkersHoldRuns, RunsOwned
    <2>2. Keeps(Completed(runs[r]), runs[r]) /\ Completed(runs[r]).state # "ABSENT"
        BY <2>1, RunRowEdits
    <2>3. PICK outcome \in Outcomes : Decide(r, outcome)
        BY <1>14 DEF Finalize
    <2>4. /\ runs' \in [Runs -> RunRow]
          /\ RunsOwned'
          /\ \A q \in Runs : runs[q].state # "ABSENT" => runs'[q].state # "ABSENT"
        BY <2>1, <2>2, <2>3, RunChangeTyped DEF Decide
    <2>5. /\ invoices' \in [Invoices -> InvoiceRow]
          /\ extraction' \in [Invoices -> SUBSET Revisions]
          /\ decisions' \in [Runs -> Outcomes \cup {None}]
          /\ commitments' \in SUBSET Invoices
        BY <2>1, <2>3, DecidedByTyped DEF Decide
    <2>6. PICK row \in WorkerRow :
              /\ row.step = "idle" \/ row.run = workers[w].run
              /\ workers' = [workers EXCEPT ![w] = row]
        <3>1. [workers[w] EXCEPT !.step = "fatal"] \in WorkerRow
              /\ [workers[w] EXCEPT !.step = "fatal"].run = workers[w].run
            BY DEF WorkerRow, Steps
        <3> QED
            BY <1>14, <3>1, IdleTyped DEF Finalize, Leave
    <2>7. workers' \in [Workers -> WorkerRow] /\ WorkersHoldRuns'
        BY <2>1, <2>4, <2>6, WorkerChangeTyped
    <2>8. queue' = queue
        BY <1>14 DEF Finalize
    <2> QED
        BY <2>4, <2>5, <2>7, <2>8 DEF MessagesOfRuns
<1>15. ASSUME NEW w \in Workers, FinalizeRefused(w) \/ HandlerRefused(w) PROVE TypeInv'
    <2>1. Leave(w) /\ UNCHANGED <<tables, queue>>
        BY <1>15 DEF FinalizeRefused, HandlerRefused
    <2> QED
        BY <2>1, IdleTyped, WorkerChangeTyped DEF Leave, tables, RunsOwned, MessagesOfRuns
<1>16. ASSUME NEW w \in Workers, HandleException(w) PROVE TypeInv'
    <2> DEFINE r == workers[w].run
    <2>1. r \in Runs /\ runs[r].state # "ABSENT"
        BY <1>16 DEF HandleException, Handling, WorkersHoldRuns
    <2>2. PICK row \in {Requeued(runs[r]), Failed(runs[r])} : runs' = [runs EXCEPT ![r] = row]
        BY <1>16 DEF HandleException
    <2>3. Keeps(row, runs[r]) /\ row.state # "ABSENT"
        BY <2>1, <2>2, RunRowEdits
    <2>4. Leave(w) /\ UNCHANGED <<invoices, extraction, decisions, commitments, queue>>
        BY <1>16 DEF HandleException
    <2>5. /\ runs' \in [Runs -> RunRow]
          /\ RunsOwned'
          /\ \A q \in Runs : runs[q].state # "ABSENT" => runs'[q].state # "ABSENT"
        BY <2>1, <2>2, <2>3, RunChangeTyped
    <2>6. workers' \in [Workers -> WorkerRow] /\ WorkersHoldRuns'
        BY <2>4, <2>5, IdleTyped, WorkerChangeTyped DEF Leave
    <2> QED
        BY <2>4, <2>5, <2>6 DEF MessagesOfRuns
<1>17. CASE UNCHANGED vars
    BY <1>17 DEF vars, RunsOwned, WorkersHoldRuns, MessagesOfRuns
<1> QED
    BY <1>1, <1>2, <1>3, <1>4, <1>5, <1>6, <1>7, <1>8, <1>9, <1>10, <1>11, <1>12, <1>13,
       <1>14, <1>15, <1>16, <1>17
       DEF Next, PeopleNext, DispatcherNext, EnvironmentNext, WorkerNext, TimePasses

LEMMA TypeInvariance == Spec => []TypeInv
<1>1. Init => TypeInv
    BY TypeInit
<1>2. TypeInv /\ [Next]_vars => TypeInv'
    BY TypeStep
<1> QED
    BY <1>1, <1>2, PTL DEF Spec

(* Every column keeps its type: in particular no run is attempted more     *)
(* than MaxAttempts times, whatever is delivered, lost or killed.          *)
THEOREM TypeCorrect == Spec => []TypeOK
<1>1. TypeInv => TypeOK
    BY DEF TypeInv
<1> QED
    BY <1>1, TypeInvariance, PTL

-----------------------------------------------------------------------------
(* What the actions come to, for the invariants below: most of them leave  *)
(* every invoice alone and move at most one active run.                    *)

SameRun(r) ==
    /\ runs'[r].state = runs[r].state
    /\ runs'[r].invoice = runs[r].invoice
    /\ runs'[r].revision = runs[r].revision

SameInvoice(i) ==
    /\ invoices'[i].revision = invoices[i].revision
    /\ invoices'[i].currentRun = invoices[i].currentRun
    /\ invoices'[i].currentDecision = invoices[i].currentDecision
    /\ invoices'[i].workflow = invoices[i].workflow

MovedRun(r) ==
    /\ runs[r].state \in Active
    /\ runs'[r].state \in Active \cup {"FAILED"}
    /\ runs'[r].invoice = runs[r].invoice
    /\ runs'[r].revision = runs[r].revision

RunsMove ==
    /\ \/ \A r \in Runs : SameRun(r)
       \/ \E r \in Runs : MovedRun(r) /\ \A q \in Runs \ {r} : SameRun(q)
    /\ \A i \in Invoices : SameInvoice(i)
    /\ decisions' = decisions
    /\ commitments' = commitments

RunDecides(r, outcome) ==
    /\ runs[r].state = "RUNNING"
    /\ ~Superseded(r)
    /\ Decide(r, outcome)
    /\ outcome = "APPROVED" => runs[r].invoice \notin commitments

LEMMA RowMoves ==
    ASSUME TypeInv, NEW r \in Runs, NEW row, Keeps(row, runs[r]),
           \/ row.state = runs[r].state
           \/ runs[r].state \in Active /\ row.state \in Active \cup {"FAILED"},
           runs' = [runs EXCEPT ![r] = row],
           UNCHANGED <<invoices, decisions, commitments>>
    PROVE  RunsMove
BY DEF TypeInv, TypeOK, RunsMove, SameRun, SameInvoice, MovedRun, Keeps

LEMMA DispatcherMoves == TypeInv /\ DispatcherNext => RunsMove
<1> SUFFICES ASSUME TypeInv, DispatcherNext PROVE RunsMove
    OBVIOUS
<1> PICK r \in Runs : Dispatch(r) \/ DispatchUncommitted(r) \/ DispatchGiveUp(r)
    BY DEF DispatcherNext
<1>0. runs[r] \in RunRow
    BY DEF TypeInv, TypeOK
<1>1. CASE Dispatch(r)
    BY <1>0, <1>1, RunRowEdits, RowMoves DEF Dispatch
<1>2. CASE DispatchUncommitted(r)
    BY <1>2 DEF DispatchUncommitted, RunsMove, SameRun, SameInvoice
<1>3. CASE DispatchGiveUp(r)
    BY <1>0, <1>3, RunRowEdits, RowMoves DEF DispatchGiveUp, Selected, Active
<1> QED
    BY <1>1, <1>2, <1>3

LEMMA EnvironmentMoves == TypeInv /\ EnvironmentNext => RunsMove
<1> SUFFICES ASSUME TypeInv, EnvironmentNext PROVE RunsMove
    OBVIOUS
<1>1. CASE UNCHANGED tables
    BY <1>1 DEF tables, RunsMove, SameRun, SameInvoice
<1>2. ASSUME NEW r \in Runs, TimePasses(r) PROVE RunsMove
    <2>1. PICK row : Keeps(row, runs[r]) /\ row.state = runs[r].state /\ Pass(r, row)
        BY <1>2, TimePassesRow
    <2> QED
        BY <2>1, RowMoves DEF Pass
<1> QED
    BY <1>1, <1>2
       DEF EnvironmentNext, TimePasses, LoseMessage, Redeliver, Crash

LEMMA WorkerMoves ==
    TypeInv /\ WorkerNext =>
        \/ RunsMove
        \/ \E w \in Workers, outcome \in Outcomes :
             Finalize(w) /\ RunDecides(workers[w].run, outcome)
<1> SUFFICES ASSUME TypeInv, WorkerNext,
                    ~\E w \in Workers, outcome \in Outcomes :
                         Finalize(w) /\ RunDecides(workers[w].run, outcome)
             PROVE  RunsMove
    OBVIOUS
<1>1. CASE UNCHANGED tables
    BY <1>1 DEF tables, RunsMove, SameRun, SameInvoice
<1>2. ASSUME NEW w \in Workers, NEW r \in Runs, Claim(w, r) PROVE RunsMove
    <2>1. runs[r] \in RunRow /\ runs[r].state \in Active
        BY <1>2 DEF TypeInv, TypeOK, MessagesOfRuns, Claim, Deliver, Unclaimable, RunRow, Terminal
    <2>2. CASE Exhausted(r) \/ Superseded(r)
        BY <1>2, <2>1, <2>2, RunRowEdits, RowMoves DEF Claim, GiveUpOrClaim
    <2>3. CASE ~(Exhausted(r) \/ Superseded(r))
        <3>1. runs[r].attempt < MaxAttempts
            BY <2>1, <2>3, ConstantsAssumption DEF Exhausted, RunRow
        <3> QED
            BY <1>2, <2>1, <2>3, <3>1, ClaimedRow, RowMoves DEF Claim, GiveUpOrClaim, Active
    <2> QED
        BY <2>2, <2>3
<1>3. ASSUME NEW w \in Workers, ReadPages(w) PROVE RunsMove
    <2>1. workers[w].run \in Runs /\ runs[workers[w].run].invoice \in Invoices
        BY <1>3 DEF ReadPages, TypeInv, WorkersHoldRuns, RunsOwned
    <2> QED
        BY <1>3, <2>1 DEF ReadPages, RunsMove, SameRun, SameInvoice, TypeInv, TypeOK, InvoiceRow
<1>4. ASSUME NEW w \in Workers, Finalize(w) PROVE FALSE
    BY <1>4 DEF Finalize, RunDecides, MayFinalize, TokenHeld
<1>5. ASSUME NEW w \in Workers, HandleException(w) PROVE RunsMove
    <2> DEFINE r == workers[w].run
    <2>1. r \in Runs /\ runs[r] \in RunRow /\ runs[r].state \in Active
        BY <1>5 DEF HandleException, Handling, TokenHeld, TypeInv, TypeOK, WorkersHoldRuns, Active
    <2>2. PICK row \in {Requeued(runs[r]), Failed(runs[r])} : runs' = [runs EXCEPT ![r] = row]
        BY <1>5 DEF HandleException
    <2>3. Keeps(row, runs[r]) /\ row.state \in Active \cup {"FAILED"}
        BY <2>1, <2>2, RunRowEdits DEF Active
    <2> QED
        BY <1>5, <2>1, <2>2, <2>3, RowMoves DEF HandleException
<1> QED
    BY <1>1, <1>2, <1>3, <1>4, <1>5
       DEF WorkerNext, DropMessage, Extract, BreakDown, ProviderInterrupted, FinalizeRefused,
           HandlerRefused

-----------------------------------------------------------------------------
(* The inductive invariant is TypeInv /\ BusinessInv.                      *)

BusinessInv ==
    /\ CurrentRunIsOwn
    /\ ActiveRunIsCurrent
    /\ DecisionsOfCompletedRuns
    /\ OneDecisionPerRevision
    /\ CurrentDecisionIsOwn
    /\ WorkflowOnDecidedInvoice
    /\ CommittedExactlyWhenApproved

LEMMA BusinessInit == Init => BusinessInv
BY ConstantsAssumption
   DEF Init, BusinessInv, CurrentRunIsOwn, ActiveRunIsCurrent, DecisionsOfCompletedRuns,
       OneDecisionPerRevision, CurrentDecisionIsOwn, WorkflowOnDecidedInvoice,
       CommittedExactlyWhenApproved, NewInvoice, AbsentRun, UntouchedRun, Uploaded, Decided, Active

LEMMA MovePreserves ==
    ASSUME TypeInv, TypeInv', BusinessInv, RunsMove
    PROVE  BusinessInv'
<1> USE DEF TypeInv, TypeOK, BusinessInv
<1>0. /\ \A r \in Runs : /\ runs'[r].invoice = runs[r].invoice
                         /\ runs'[r].revision = runs[r].revision
                         /\ runs'[r].state = "ABSENT" <=> runs[r].state = "ABSENT"
                         /\ runs'[r].state = "COMPLETED" <=> runs[r].state = "COMPLETED"
                         /\ runs'[r].state \in Active => runs[r].state \in Active
      /\ \A i \in Invoices : SameInvoice(i)
      /\ decisions' = decisions /\ commitments' = commitments
    BY DEF RunsMove, SameRun, MovedRun, Active
<1>1. CurrentRunIsOwn'
    <2>1. \A i \in Invoices : Uploaded(i) => invoices[i].currentRun \in Runs
        BY DEF Uploaded, InvoiceRow
    <2>2. \A r \in Runs : runs[r].state # "ABSENT" => SameInvoice(runs[r].invoice)
        BY <1>0 DEF RunsOwned
    <2> QED
        BY ONLY <1>0, <2>1, <2>2, CurrentRunIsOwn DEF CurrentRunIsOwn, SameInvoice, Uploaded
<1>2. ActiveRunIsCurrent'
    BY <1>0 DEF ActiveRunIsCurrent, Superseded, SameInvoice, RunsOwned, Active
<1>3. DecisionsOfCompletedRuns'
    BY <1>0 DEF DecisionsOfCompletedRuns, SameInvoice, RunsOwned
<1>4. OneDecisionPerRevision'
    BY <1>0 DEF OneDecisionPerRevision
<1>5. CurrentDecisionIsOwn'
    BY <1>0 DEF CurrentDecisionIsOwn, SameInvoice, Decided, Uploaded, CurrentState, CurrentOutcome, InvoiceRow
<1>6. WorkflowOnDecidedInvoice'
    BY <1>0 DEF WorkflowOnDecidedInvoice, SameInvoice, Decided, Uploaded, DecidedForAction,
           CurrentState, CurrentOutcome, InvoiceRow
<1>7. CommittedExactlyWhenApproved'
    BY <1>0 DEF CommittedExactlyWhenApproved, SameInvoice, Decided, CurrentOutcome
<1> QED
    BY <1>1, <1>2, <1>3, <1>4, <1>5, <1>6, <1>7

LEMMA WorkflowPreserves ==
    ASSUME TypeInv, TypeInv', BusinessInv, NEW i \in Invoices, Hold(i) \/ Reject(i)
    PROVE  BusinessInv'
<1> USE DEF TypeInv, TypeOK, BusinessInv
<1>0. /\ UNCHANGED <<runs, decisions, commitments>>
      /\ \A j \in Invoices : /\ invoices'[j].revision = invoices[j].revision
                             /\ invoices'[j].currentRun = invoices[j].currentRun
                             /\ invoices'[j].currentDecision = invoices[j].currentDecision
                             /\ j # i => invoices'[j].workflow = invoices[j].workflow
    BY DEF Hold, Reject, InvoiceRow
<1>1. CurrentRunIsOwn'
    BY <1>0 DEF CurrentRunIsOwn, Uploaded, InvoiceRow, RunsOwned
<1>2. ActiveRunIsCurrent'
    BY <1>0 DEF ActiveRunIsCurrent, Superseded, RunsOwned, Active
<1>3. DecisionsOfCompletedRuns'
    BY <1>0 DEF DecisionsOfCompletedRuns, RunsOwned
<1>4. OneDecisionPerRevision'
    BY <1>0 DEF OneDecisionPerRevision
<1>5. CurrentDecisionIsOwn'
    BY <1>0 DEF CurrentDecisionIsOwn, Decided, Uploaded, CurrentState, CurrentOutcome
<1>6. WorkflowOnDecidedInvoice'
    <2>1. LockForAction(i) /\ DecidedForAction(i) /\ CurrentOutcome(i) \in {"NEEDS_REVIEW", "BLOCKED"}
        BY DEF Hold, Reject
    <2>2. invoices'[i].workflow = "ON_HOLD" => CurrentOutcome(i) = "NEEDS_REVIEW"
        BY DEF Hold, Reject, InvoiceRow
    <2> QED
        BY <1>0, <2>1, <2>2 DEF WorkflowOnDecidedInvoice, LockForAction, Decided, Uploaded,
               DecidedForAction, CurrentState, CurrentOutcome
<1>7. CommittedExactlyWhenApproved'
    BY <1>0 DEF CommittedExactlyWhenApproved, Decided, CurrentOutcome
<1> QED
    BY <1>1, <1>2, <1>3, <1>4, <1>5, <1>6, <1>7

(* A new run, when the current one (if any) has failed, or has ended and a *)
(* new revision is made, and the invoice is not accepted.                  *)
LEMMA StartPreserves ==
    ASSUME TypeInv, TypeInv', BusinessInv,
           NEW i \in Invoices, NEW r \in Runs, NEW n \in Revisions,
           UnusedRun(r), StartRun(i, r, n),
           UNCHANGED <<decisions, commitments>>,
           invoices'[i].revision = n, invoices'[i].currentRun = r,
           invoices'[i].currentDecision = invoices[i].currentDecision,
           invoices'[i].workflow = "NONE",
           \A j \in Invoices \ {i} : invoices'[j] = invoices[j],
           Decided(i) => CurrentOutcome(i) # "APPROVED",
           Uploaded(i) => \/ CurrentState(i) = "FAILED" /\ n = invoices[i].revision
                          \/ CurrentState(i) \notin Active /\ n > invoices[i].revision
    PROVE  BusinessInv'
<1> USE DEF BusinessInv
<1>1. /\ runs'[r].state = "QUEUED" /\ runs'[r].invoice = i /\ runs'[r].revision = n
      /\ \A q \in Runs : q # r => runs'[q] = runs[q]
      /\ runs[r].state = "ABSENT"
    BY NewRunTyped DEF StartRun, TypeInv, TypeOK, UnusedRun
<1>2. /\ \A q \in Runs : runs[q].state # "ABSENT" =>
             runs[q].invoice \in Invoices /\ runs[q].revision \in Nat
      /\ \A j \in Invoices : /\ invoices[j].revision \in Nat
                             /\ Uploaded(j) => invoices[j].currentRun \in Runs
                             /\ Decided(j) => invoices[j].currentDecision \in Runs
      /\ n \in Nat /\ None \notin Runs
    BY ConstantsAssumption
       DEF TypeInv, TypeOK, RunsOwned, InvoiceRow, Revisions, Uploaded, Decided
<1>3. \A q \in Runs : runs[q].state # "ABSENT" /\ runs[q].invoice = i =>
         /\ Uploaded(i)
         /\ runs[q].state \notin Active
         /\ runs[q].revision <= n
         /\ runs[q].state = "COMPLETED" => runs[q].revision < n
    <2> SUFFICES ASSUME NEW q \in Runs, runs[q].state # "ABSENT", runs[q].invoice = i
                 PROVE  /\ Uploaded(i)
                        /\ runs[q].state \notin Active
                        /\ runs[q].revision <= n
                        /\ runs[q].state = "COMPLETED" => runs[q].revision < n
        OBVIOUS
    <2>1. Uploaded(i) /\ runs[q].revision <= invoices[i].revision
        BY DEF CurrentRunIsOwn
    <2>2. CurrentState(i) \notin Active
        BY <2>1 DEF Active
    <2>3. runs[q].state \notin Active
        BY <2>2 DEF ActiveRunIsCurrent, Superseded, CurrentState
    <2>4. runs[q].state = "COMPLETED" =>
             q = invoices[i].currentRun \/ runs[q].revision < invoices[i].revision
        BY DEF DecisionsOfCompletedRuns
    <2> QED
        BY <1>2, <2>1, <2>3, <2>4 DEF CurrentState
<1>4. CurrentRunIsOwn'
    <2>1. \A j \in Invoices \ {i} : Uploaded(j) => invoices[j].currentRun # r
        BY <1>1 DEF CurrentRunIsOwn
    <2> QED
        BY ONLY <1>1, <1>2, <1>3, <2>1, CurrentRunIsOwn,
                invoices'[i].revision = n, invoices'[i].currentRun = r,
                \A j \in Invoices \ {i} : invoices'[j] = invoices[j]
           DEF CurrentRunIsOwn, Uploaded
<1>5. ActiveRunIsCurrent'
    BY <1>1, <1>2, <1>3 DEF ActiveRunIsCurrent, Superseded, Active
<1>6. DecisionsOfCompletedRuns'
    BY <1>1, <1>2, <1>3 DEF DecisionsOfCompletedRuns
<1>7. OneDecisionPerRevision'
    BY <1>1 DEF OneDecisionPerRevision, DecisionsOfCompletedRuns
<1>8. CurrentDecisionIsOwn'
    <2>1. \A j \in Invoices : Decided(j) => invoices[j].currentDecision # r
        BY <1>1 DEF CurrentDecisionIsOwn
    <2>2. \A j \in Invoices \ {i} : Uploaded(j) => invoices[j].currentRun # r
        BY <1>1 DEF CurrentRunIsOwn
    <2> QED
        BY <1>1, <1>2, <2>1, <2>2
           DEF CurrentDecisionIsOwn, Decided, Uploaded, CurrentState, CurrentOutcome
<1>9. WorkflowOnDecidedInvoice'
    <2>1. \A j \in Invoices : Decided(j) => invoices[j].currentDecision # r
        BY <1>1 DEF CurrentDecisionIsOwn
    <2>2. \A j \in Invoices \ {i} : Uploaded(j) => invoices[j].currentRun # r
        BY <1>1 DEF CurrentRunIsOwn
    <2> QED
        BY <1>1, <1>2, <2>1, <2>2
           DEF WorkflowOnDecidedInvoice, Decided, Uploaded, DecidedForAction, CurrentState,
               CurrentOutcome
<1>10. CommittedExactlyWhenApproved'
    BY DEF CommittedExactlyWhenApproved, Decided, CurrentOutcome
<1> QED
    BY <1>4, <1>5, <1>6, <1>7, <1>8, <1>9, <1>10

(* finalize decides only for an invoice without acceptance or workflow. *)
LEMMA DecidesOpenInvoice ==
    ASSUME TypeInv, BusinessInv, NEW r \in Runs, NEW outcome \in Outcomes, RunDecides(r, outcome)
    PROVE  LET i == runs[r].invoice
           IN  /\ i \in Invoices /\ runs[r].state = "RUNNING"
               /\ invoices[i].currentRun = r /\ invoices[i].revision = runs[r].revision
               /\ \A j \in Invoices : Decided(j) => invoices[j].currentDecision # r
               /\ \A j \in Invoices \ {i} : Uploaded(j) => invoices[j].currentRun # r
               /\ i \notin commitments /\ invoices[i].workflow = "NONE"
<1> USE DEF BusinessInv
<1> DEFINE i == runs[r].invoice
<1>1. /\ i \in Invoices /\ runs[r].state = "RUNNING"
      /\ invoices[i].currentRun = r /\ invoices[i].revision = runs[r].revision
    BY DEF RunDecides, Superseded, TypeInv, RunsOwned
<1>2. /\ \A j \in Invoices : Decided(j) => invoices[j].currentDecision # r
      /\ \A j \in Invoices \ {i} : Uploaded(j) => invoices[j].currentRun # r
    BY <1>1 DEF CurrentDecisionIsOwn, CurrentRunIsOwn
<1>3. ~(Decided(i) /\ CurrentOutcome(i) = "APPROVED")
    BY <1>1, <1>2 DEF CurrentDecisionIsOwn
<1>4. CurrentState(i) = "RUNNING"
    BY <1>1 DEF CurrentState
<1>5. i \notin commitments /\ invoices[i].workflow = "NONE"
    BY <1>1, <1>3, <1>4
       DEF CommittedExactlyWhenApproved, WorkflowOnDecidedInvoice, DecidedForAction
<1> QED
    BY <1>1, <1>2, <1>5

LEMMA DecisionPreserves ==
    ASSUME TypeInv, TypeInv', BusinessInv,
           NEW r \in Runs, NEW outcome \in Outcomes, RunDecides(r, outcome)
    PROVE  BusinessInv'
<1> USE DEF BusinessInv
<1> DEFINE i == runs[r].invoice
<1>1. /\ i \in Invoices /\ runs[r].state = "RUNNING"
      /\ invoices[i].currentRun = r /\ invoices[i].revision = runs[r].revision
    BY DecidesOpenInvoice
<1>2. /\ runs'[r].state = "COMPLETED" /\ runs'[r].invoice = i
      /\ runs'[r].revision = runs[r].revision
      /\ \A q \in Runs : q # r => runs'[q] = runs[q]
    <2>1. runs \in [Runs -> RunRow] /\ runs' = [runs EXCEPT ![r] = Completed(@)]
        BY DEF RunDecides, Decide, TypeInv, TypeOK
    <2>2. Keeps(Completed(runs[r]), runs[r]) /\ Completed(runs[r]).state = "COMPLETED"
        BY <2>1, RunRowEdits
    <2> QED
        BY <2>1, <2>2 DEF Keeps
<1>3. /\ \A j \in Invoices : /\ invoices'[j].revision = invoices[j].revision
                             /\ invoices'[j].currentRun = invoices[j].currentRun
                             /\ invoices'[j].workflow = invoices[j].workflow
                             /\ j # i => invoices'[j].currentDecision = invoices[j].currentDecision
      /\ invoices'[i].currentDecision = r
    BY <1>1 DEF RunDecides, Decide, DecidedBy, TypeInv, TypeOK, InvoiceRow
<1>4. /\ decisions'[r] = outcome /\ outcome # None
      /\ \A q \in Runs : q # r => decisions'[q] = decisions[q]
      /\ commitments' = IF outcome = "APPROVED" THEN commitments \cup {i} ELSE commitments
    BY ConstantsAssumption DEF RunDecides, Decide, TypeInv, TypeOK
<1>5. /\ \A q \in Runs : runs[q].state # "ABSENT" =>
             runs[q].invoice \in Invoices /\ runs[q].revision \in Nat
      /\ \A j \in Invoices : /\ invoices[j].revision \in Nat
                             /\ Uploaded(j) => invoices[j].currentRun \in Runs
                             /\ Decided(j) => invoices[j].currentDecision \in Runs
      /\ r # None
    BY ConstantsAssumption
       DEF TypeInv, TypeOK, RunsOwned, InvoiceRow, Revisions, Uploaded, Decided
<1>6. /\ \A j \in Invoices : Decided(j) => invoices[j].currentDecision # r
      /\ \A j \in Invoices \ {i} : Uploaded(j) => invoices[j].currentRun # r
    BY DecidesOpenInvoice
<1>7. i \notin commitments /\ invoices[i].workflow = "NONE"
    BY DecidesOpenInvoice
<1>8. CurrentRunIsOwn'
    BY <1>1, <1>2, <1>3, <1>5, <1>6 DEF CurrentRunIsOwn, Uploaded
<1>9. ActiveRunIsCurrent'
    BY <1>1, <1>2, <1>3, <1>5 DEF ActiveRunIsCurrent, Superseded, Active
<1>10. DecisionsOfCompletedRuns'
    BY <1>1, <1>2, <1>3, <1>4, <1>5 DEF DecisionsOfCompletedRuns
<1>11. OneDecisionPerRevision'
    <2>1. \A q \in Runs : q # r /\ decisions[q] # None /\ runs[q].invoice = i =>
             runs[q].revision # runs[r].revision
        BY <1>1, <1>5 DEF DecisionsOfCompletedRuns
    <2> QED
        BY <1>2, <1>4, <2>1 DEF OneDecisionPerRevision
<1>12. CurrentDecisionIsOwn'
    BY <1>1, <1>2, <1>3, <1>4, <1>5, <1>6
       DEF CurrentDecisionIsOwn, Decided, Uploaded, CurrentState, CurrentOutcome
<1>13. WorkflowOnDecidedInvoice'
    BY <1>1, <1>2, <1>3, <1>4, <1>5, <1>6, <1>7
       DEF WorkflowOnDecidedInvoice, Decided, Uploaded, DecidedForAction, CurrentState, CurrentOutcome
<1>14. CommittedExactlyWhenApproved'
    BY <1>1, <1>3, <1>4, <1>5, <1>6, <1>7 DEF CommittedExactlyWhenApproved, Decided, CurrentOutcome
<1> QED
    BY <1>8, <1>9, <1>10, <1>11, <1>12, <1>13, <1>14

LEMMA SubmitPreserves ==
    ASSUME TypeInv, TypeInv', BusinessInv,
           NEW i \in Invoices, NEW r \in Runs, Submit(i, r)
    PROVE  BusinessInv'
<1>1. ~Uploaded(i) /\ ~Decided(i)
    BY DEF Submit, BusinessInv, CurrentDecisionIsOwn
<1>2. invoices'[i] = [NewInvoice EXCEPT !.currentRun = r]
    BY DEF Submit, TypeInv, TypeOK
<1>3. /\ invoices'[i].revision = 1 /\ invoices'[i].currentRun = r
      /\ invoices'[i].currentDecision = invoices[i].currentDecision
      /\ invoices'[i].workflow = "NONE"
    BY <1>1, <1>2 DEF NewInvoice, Decided
<1>4. \A j \in Invoices \ {i} : invoices'[j] = invoices[j]
    BY DEF Submit, TypeInv, TypeOK
<1>5. 1 \in Revisions
    BY ConstantsAssumption DEF Revisions
<1> QED
    BY <1>1, <1>3, <1>4, <1>5, StartPreserves DEF Submit

LEMMA ReviewPreserves ==
    ASSUME TypeInv, TypeInv', BusinessInv,
           NEW i \in Invoices, NEW r \in Runs, Review(i, r)
    PROVE  BusinessInv'
<1> DEFINE n == invoices[i].revision + 1
<1>1. n \in Revisions /\ n > invoices[i].revision
    BY ConstantsAssumption DEF Review, TypeInv, TypeOK, InvoiceRow, Revisions
<1>2. /\ CurrentState(i) \notin Active
      /\ Decided(i) => CurrentOutcome(i) # "APPROVED"
    BY DEF Review, ReviewOpen, LockForAction
<1>3. /\ invoices'[i].revision = n /\ invoices'[i].currentRun = r
      /\ invoices'[i].currentDecision = invoices[i].currentDecision
      /\ invoices'[i].workflow = "NONE"
    BY DEF Review, TypeInv, TypeOK, InvoiceRow
<1>4. \A j \in Invoices \ {i} : invoices'[j] = invoices[j]
    BY DEF Review, TypeInv, TypeOK
<1>5. StartRun(i, r, n) /\ UnusedRun(r) /\ UNCHANGED <<decisions, commitments>>
    BY DEF Review
<1> HIDE DEF n
<1> QED
    BY <1>1, <1>2, <1>3, <1>4, <1>5, StartPreserves

(* A rejected invoice has a completed run, so retry's guard, which asks    *)
(* for a failed one, needs no check of the rejection.                      *)
LEMMA RetryPreserves ==
    ASSUME TypeInv, TypeInv', BusinessInv,
           NEW i \in Invoices, NEW r \in Runs, Retry(i, r)
    PROVE  BusinessInv'
<1>1. CurrentState(i) = "FAILED" /\ LockForAction(i)
    BY DEF Retry, RetryOpen
<1>2. invoices[i].workflow = "NONE"
    BY <1>1 DEF BusinessInv, WorkflowOnDecidedInvoice, DecidedForAction
<1>3. /\ invoices'[i].revision = invoices[i].revision /\ invoices'[i].currentRun = r
      /\ invoices'[i].currentDecision = invoices[i].currentDecision
      /\ invoices'[i].workflow = "NONE"
    BY <1>2 DEF Retry, TypeInv, TypeOK, InvoiceRow
<1>4. \A j \in Invoices \ {i} : invoices'[j] = invoices[j]
    BY DEF Retry, TypeInv, TypeOK
<1>5. invoices[i].revision \in Revisions
    BY DEF TypeInv, TypeOK, InvoiceRow
<1> QED
    BY <1>1, <1>3, <1>4, <1>5, StartPreserves DEF Retry, LockForAction

LEMMA BusinessStep ==
    TypeInv /\ TypeInv' /\ BusinessInv /\ [Next]_vars => BusinessInv'
<1> SUFFICES ASSUME TypeInv, TypeInv', BusinessInv, [Next]_vars PROVE BusinessInv'
    OBVIOUS
<1>1. CASE PeopleNext
    BY <1>1, WorkflowPreserves, SubmitPreserves, ReviewPreserves, RetryPreserves DEF PeopleNext
<1>2. CASE DispatcherNext
    BY <1>2, DispatcherMoves, MovePreserves
<1>3. CASE EnvironmentNext
    BY <1>3, EnvironmentMoves, MovePreserves
<1>4. CASE WorkerNext
    <2>1. CASE RunsMove
        BY <2>1, MovePreserves
    <2>2. ASSUME NEW w \in Workers, NEW outcome \in Outcomes,
                 Finalize(w), RunDecides(workers[w].run, outcome)
          PROVE  BusinessInv'
        <3>1. workers[w].run \in Runs
            BY <2>2 DEF Finalize, TypeInv, WorkersHoldRuns
        <3> QED
            BY <2>2, <3>1, DecisionPreserves
    <2> QED
        BY <1>4, <2>1, <2>2, WorkerMoves
<1>5. CASE UNCHANGED vars
    <2>1. RunsMove
        BY <1>5 DEF vars, RunsMove, SameRun, SameInvoice
    <2> QED
        BY <2>1, MovePreserves
<1> QED
    BY <1>1, <1>2, <1>3, <1>4, <1>5 DEF Next

LEMMA Invariance == Spec => [](TypeInv /\ BusinessInv)
<1>1. Init => TypeInv /\ BusinessInv
    BY TypeInit, BusinessInit
<1>2. TypeInv /\ BusinessInv /\ [Next]_vars => (TypeInv /\ BusinessInv)'
    BY TypeStep, BusinessStep
<1> QED
    BY <1>1, <1>2, PTL DEF Spec

-----------------------------------------------------------------------------
(* The safety properties of the runs, for every value of the constants.    *)

(* A queued or running run is its invoice's current run, made for its      *)
(* current revision.                                                       *)
THEOREM ActiveRunsAreCurrent == Spec => []ActiveRunIsCurrent
<1>1. BusinessInv => ActiveRunIsCurrent
    BY DEF BusinessInv
<1> QED
    BY <1>1, Invariance, PTL

(* However often messages, attempts and retries repeat, a revision of an   *)
(* invoice is decided at most once.                                        *)
THEOREM RevisionsAreDecidedOnce == Spec => []OneDecisionPerRevision
<1>1. BusinessInv => OneDecisionPerRevision
    BY DEF BusinessInv
<1> QED
    BY <1>1, Invariance, PTL

(* Holds and rejections stand only on the current revision's decision, and *)
(* never on an accepted invoice.                                           *)
THEOREM WorkflowStandsOnDecision == Spec => []WorkflowOnDecidedInvoice
<1>1. BusinessInv => WorkflowOnDecidedInvoice
    BY DEF BusinessInv
<1> QED
    BY <1>1, Invariance, PTL

(* Money is reserved exactly for the accepted invoices. *)
THEOREM CommitmentsMatchApprovals == Spec => []CommittedExactlyWhenApproved
<1>1. BusinessInv => CommittedExactlyWhenApproved
    BY DEF BusinessInv
<1> QED
    BY <1>1, Invariance, PTL

-----------------------------------------------------------------------------
(* The action properties, for every value of the constants.                *)

LEMMA Kinds ==
    TypeInv /\ [Next]_vars =>
        \/ RunsMove
        \/ \E w \in Workers, outcome \in Outcomes :
             Finalize(w) /\ workers[w].run \in Runs /\ RunDecides(workers[w].run, outcome)
        \/ \E i \in Invoices : Hold(i) \/ Reject(i)
        \/ \E i \in Invoices, r \in Runs : Submit(i, r) \/ Review(i, r) \/ Retry(i, r)
<1> SUFFICES ASSUME TypeInv, [Next]_vars, ~PeopleNext
             PROVE  \/ RunsMove
                    \/ \E w \in Workers, outcome \in Outcomes :
                         /\ Finalize(w) /\ workers[w].run \in Runs
                         /\ RunDecides(workers[w].run, outcome)
    BY DEF PeopleNext
<1>1. CASE DispatcherNext
    BY <1>1, DispatcherMoves
<1>2. CASE EnvironmentNext
    BY <1>2, EnvironmentMoves
<1>3. CASE WorkerNext
    <2>1. \A w \in Workers : Finalize(w) => workers[w].run \in Runs
        BY DEF Finalize, TypeInv, WorkersHoldRuns
    <2> QED
        BY <1>3, <2>1, WorkerMoves
<1>4. CASE UNCHANGED vars
    BY <1>4 DEF vars, RunsMove, SameRun, SameInvoice
<1> QED
    BY <1>1, <1>2, <1>3, <1>4 DEF Next

(* A run that has completed or failed keeps its state for ever: the        *)
(* unlocked reads of run rows in main.py can rely on an ended run.         *)
THEOREM EndedRunsAreFinal == Spec => EndedRunsStay
<1> DEFINE Stay == \A r \in Runs :
                       runs[r].state \in Terminal => runs'[r].state = runs[r].state
<1>1. ASSUME TypeInv, [Next]_vars PROVE Stay
    <2>1. CASE RunsMove
        BY <2>1 DEF RunsMove, SameRun, MovedRun, Active, Terminal
    <2>2. ASSUME NEW w \in Workers, NEW outcome \in Outcomes, RunDecides(workers[w].run, outcome)
          PROVE  Stay
        BY <1>1, <2>2 DEF RunDecides, Decide, TypeInv, TypeOK, Terminal
    <2>3. ASSUME NEW i \in Invoices, Hold(i) \/ Reject(i) PROVE Stay
        BY <2>3 DEF Hold, Reject
    <2>4. ASSUME NEW i \in Invoices, NEW r \in Runs, Submit(i, r) \/ Review(i, r) \/ Retry(i, r)
          PROVE  Stay
        <3>1. UnusedRun(r) /\ \E n : StartRun(i, r, n)
            BY <2>4 DEF Submit, Review, Retry
        <3> QED
            BY <1>1, <3>1 DEF UnusedRun, StartRun, TypeInv, TypeOK, Terminal
    <2> QED
        BY <1>1, <2>1, <2>2, <2>3, <2>4, Kinds
<1>2. TypeInv /\ [Next]_vars => [Stay]_vars
    BY <1>1
<1> HIDE DEF Stay
<1>3. Spec => [][Stay]_vars
    BY <1>2, TypeInvariance, PTL DEF Spec
<1> QED
    BY <1>3 DEF EndedRunsStay, Stay

(* A step of a worker that no longer holds its run's token changes no run, *)
(* decision, commitment or extraction, however late it comes.              *)
THEOREM StaleWorkersAreFenced == Spec => StaleWorkersWriteNothing
<1> DEFINE Fenced == \A w \in Workers :
                         /\ workers[w].step # "idle"
                         /\ ~TokenHeld(w)
                         /\ workers'[w] # workers[w]
                         => UNCHANGED <<runs, decisions, commitments, extraction>>
<1>1. ASSUME TypeInv, [Next]_vars PROVE Fenced
    <2> SUFFICES ASSUME NEW w \in Workers, workers[w].step # "idle", ~TokenHeld(w),
                        workers'[w] # workers[w]
                 PROVE  UNCHANGED <<runs, decisions, commitments, extraction>>
        OBVIOUS
    <2>1. workers \in [Workers -> WorkerRow]
        BY <1>1 DEF TypeInv, TypeOK
    <2>2. CASE PeopleNext
        BY <2>2 DEF PeopleNext, Hold, Reject, Submit, Review, Retry
    <2>3. CASE DispatcherNext
        BY <2>3 DEF DispatcherNext, Dispatch, DispatchUncommitted, DispatchGiveUp
    <2>4. CASE EnvironmentNext
        BY <2>4 DEF EnvironmentNext, LoseMessage, LeaseExpires, RetryComesDue, DispatchGrowsOld,
                    Pass, Redeliver, Crash, tables
    <2>5. CASE WorkerNext
        <3>1. ASSUME NEW v \in Workers, NEW r \in Runs, DropMessage(v, r) \/ Claim(v, r)
              PROVE  FALSE
            BY <2>1, <3>1 DEF DropMessage, Claim, Deliver, GiveUpOrClaim
        <3>2. ASSUME NEW v \in Workers,
                     \/ ReadPages(v) \/ Extract(v) \/ BreakDown(v) \/ ProviderInterrupted(v)
                     \/ FinalizeRefused(v) \/ HandlerRefused(v)
              PROVE  UNCHANGED <<runs, decisions, commitments, extraction>>
            BY <3>2 DEF ReadPages, Extract, BreakDown, ProviderInterrupted, FinalizeRefused,
                        HandlerRefused, tables
        <3>3. ASSUME NEW v \in Workers, Finalize(v) \/ HandleException(v) PROVE FALSE
            <4>1. v = w
                BY <2>1, <3>3 DEF Finalize, HandleException, Leave
            <4> QED
                BY <3>3, <4>1 DEF Finalize, MayFinalize, HandleException
        <3> QED
            BY <2>5, <3>1, <3>2, <3>3 DEF WorkerNext
    <2>6. CASE UNCHANGED vars
        BY <2>6 DEF vars
    <2> QED
        BY <1>1, <2>2, <2>3, <2>4, <2>5, <2>6 DEF Next
<1>2. TypeInv /\ [Next]_vars => [Fenced]_vars
    BY <1>1
<1> HIDE DEF Fenced
<1>3. Spec => [][Fenced]_vars
    BY <1>2, TypeInvariance, PTL DEF Spec
<1> QED
    BY <1>3 DEF StaleWorkersWriteNothing, Fenced

(* Accepted and rejected invoices keep revision, run, decision and workflow *)
(* whatever requests, messages and workers are still about.                *)
THEOREM ClosedInvoicesAreFinal == Spec => ClosedInvoicesStay
<1> DEFINE Closed(i) == i \in commitments \/ invoices[i].workflow = "REJECTED"
           Same(i) == /\ invoices'[i] = [invoices[i] EXCEPT !.pages = invoices'[i].pages]
                      /\ i \in commitments <=> i \in commitments'
           Stay == \A i \in Invoices : Closed(i) => Same(i)
<1>1. ASSUME TypeInv, TypeInv', BusinessInv, [Next]_vars PROVE Stay
    <2>1. /\ invoices \in [Invoices -> InvoiceRow] /\ invoices' \in [Invoices -> InvoiceRow]
        BY <1>1 DEF TypeInv, TypeOK
    <2>2. ASSUME NEW i \in Invoices, SameInvoice(i), commitments' = commitments PROVE Same(i)
        BY <2>1, <2>2 DEF SameInvoice, InvoiceRow
    <2>3. ASSUME NEW i \in Invoices, Closed(i)
          PROVE  \/ ~LockForAction(i)
                 \/ invoices[i].workflow = "REJECTED" /\ CurrentState(i) = "COMPLETED"
        <3>1. CASE i \in commitments
            BY <1>1, <3>1 DEF BusinessInv, CommittedExactlyWhenApproved, LockForAction
        <3>2. CASE invoices[i].workflow = "REJECTED"
            BY <1>1, <3>2 DEF BusinessInv, WorkflowOnDecidedInvoice, DecidedForAction
        <3> QED
            BY <2>3, <3>1, <3>2
    <2>4. ASSUME NEW i \in Invoices, Closed(i) PROVE Uploaded(i)
        BY <1>1, <2>4 DEF BusinessInv, CommittedExactlyWhenApproved, WorkflowOnDecidedInvoice,
                          CurrentDecisionIsOwn
    <2>5. CASE RunsMove
        BY <2>2, <2>5 DEF RunsMove
    <2>6. ASSUME NEW w \in Workers, NEW outcome \in Outcomes, workers[w].run \in Runs,
                 RunDecides(workers[w].run, outcome)
          PROVE  Stay
        <3> DEFINE k == runs[workers[w].run].invoice
        <3>1. k \in Invoices /\ ~Closed(k)
            BY <1>1, <2>6, DecidesOpenInvoice
        <3>2. ASSUME NEW i \in Invoices \ {k} PROVE Same(i)
            <4>1. invoices'[i] = invoices[i] /\ (i \in commitments' <=> i \in commitments)
                BY <2>1, <2>6 DEF RunDecides, Decide
            <4> QED
                BY <2>1, <4>1 DEF InvoiceRow
        <3> QED
            BY <3>1, <3>2
    <2>7. ASSUME NEW k \in Invoices, NEW r \in Runs, Submit(k, r) \/ Review(k, r) \/ Retry(k, r)
          PROVE  Stay
        <3>1. ~Closed(k)
            BY <2>3, <2>4, <2>7 DEF Submit, Review, Retry, ReviewOpen, RetryOpen
        <3>2. ASSUME NEW i \in Invoices \ {k} PROVE Same(i)
            <4>1. invoices'[i] = invoices[i] /\ commitments' = commitments
                BY <2>1, <2>7 DEF Submit, Review, Retry
            <4> QED
                BY <2>1, <4>1 DEF InvoiceRow
        <3> QED
            BY <3>1, <3>2
    <2>8. ASSUME NEW k \in Invoices, Hold(k) \/ Reject(k) PROVE Stay
        <3>1. ~Closed(k)
            BY <2>3, <2>8 DEF Hold, Reject, LockForAction
        <3>2. ASSUME NEW i \in Invoices \ {k} PROVE Same(i)
            <4>1. invoices'[i] = invoices[i] /\ commitments' = commitments
                BY <2>1, <2>8 DEF Hold, Reject
            <4> QED
                BY <2>1, <4>1 DEF InvoiceRow
        <3> QED
            BY <3>1, <3>2
    <2> QED
        BY <1>1, <2>5, <2>6, <2>7, <2>8, Kinds
<1>2. TypeInv /\ BusinessInv /\ TypeInv' /\ BusinessInv' /\ [Next]_vars => [Stay]_vars
    BY <1>1
<1> HIDE DEF Stay
<1>3. Spec => [][Stay]_vars
    BY <1>2, Invariance, PTL DEF Spec
<1> QED
    BY <1>3 DEF ClosedInvoicesStay, Stay, Closed, Same

-----------------------------------------------------------------------------
(* Leases and attempts: what the dispatcher needs to find a run again.     *)

LEMMA RecoverableStep == TypeInv /\ RunsAreRecoverable /\ [Next]_vars => RunsAreRecoverable'
<1> SUFFICES ASSUME TypeInv, RunsAreRecoverable, [Next]_vars PROVE RunsAreRecoverable'
    OBVIOUS
<1> DEFINE Sound(row) == /\ row.state = "RUNNING" => row.lease # "UNSET" /\ row.retryAt # "AHEAD"
                         /\ row.state = "QUEUED" => ~(row.attempt >= MaxAttempts)
<1>1. runs \in [Runs -> RunRow] /\ \A r \in Runs : runs[r] \in RunRow /\ Sound(runs[r])
    BY DEF TypeInv, TypeOK, RunsAreRecoverable, Exhausted
<1>2. ASSUME NEW r \in Runs, NEW row, Sound(row), runs' = [runs EXCEPT ![r] = row]
      PROVE  RunsAreRecoverable'
    BY <1>1, <1>2 DEF RunsAreRecoverable, Exhausted
<1>3. ASSUME runs' = runs PROVE RunsAreRecoverable'
    BY <1>3 DEF RunsAreRecoverable, Exhausted
<1>4. CASE PeopleNext
    <2>1. ASSUME NEW i, NEW r \in Runs, NEW n, StartRun(i, r, n) PROVE RunsAreRecoverable'
        <3>1. Sound(NewRun(i, n))
            BY ConstantsAssumption DEF NewRun, UntouchedRun
        <3> QED
            BY <1>2, <2>1, <3>1 DEF StartRun
    <2> QED
        BY <1>3, <1>4, <2>1 DEF PeopleNext, Hold, Reject, Submit, Review, Retry
<1>5. CASE DispatcherNext
    <2>1. \A r \in Runs : Sound(Dispatched(runs[r])) /\ Sound(GivenUp(runs[r]))
        BY <1>1 DEF Dispatched, GivenUp, RunRow
    <2> QED
        BY <1>2, <1>3, <1>5, <2>1
           DEF DispatcherNext, Dispatch, DispatchUncommitted, DispatchGiveUp
<1>6. CASE EnvironmentNext
    <2>1. ASSUME NEW r \in Runs
          PROVE  /\ runs[r].lease = "AHEAD" => Sound([runs[r] EXCEPT !.lease = "PAST"])
                 /\ Sound([runs[r] EXCEPT !.retryAt = "PAST"])
                 /\ Sound([runs[r] EXCEPT !.dispatchedAt = "PAST"])
        BY <1>1 DEF RunRow
    <2> HIDE DEF Sound
    <2> QED
        BY <1>2, <1>3, <1>6, <2>1
           DEF EnvironmentNext, LoseMessage, LeaseExpires, RetryComesDue, DispatchGrowsOld, Pass,
               Redeliver, Crash, tables
<1>7. CASE WorkerNext
    <2>1. ASSUME NEW w \in Workers, NEW r \in Runs, Claim(w, r) PROVE RunsAreRecoverable'
        <3>1. runs[r].retryAt # "AHEAD"
            BY <2>1 DEF Claim, Unclaimable
        <3>2. Sound(GivenUp(runs[r])) /\ Sound(Claimed(runs[r]))
            BY <1>1, <3>1 DEF GivenUp, Claimed, RunRow
        <3> QED
            BY <1>2, <2>1, <3>2 DEF Claim, GiveUpOrClaim
    <2>2. ASSUME NEW w \in Workers, Finalize(w) PROVE RunsAreRecoverable'
        <3>1. workers[w].run \in Runs
            BY <2>2 DEF Finalize, TypeInv, WorkersHoldRuns
        <3>2. Sound(Completed(runs[workers[w].run]))
            BY <1>1, <3>1 DEF Completed, RunRow
        <3> QED
            BY <1>2, <2>2, <3>1, <3>2 DEF Finalize, Decide
    <2>3. ASSUME NEW w \in Workers, HandleException(w) PROVE RunsAreRecoverable'
        <3> DEFINE r == workers[w].run
        <3>1. r \in Runs
            BY <2>3 DEF HandleException, Handling, TypeInv, WorkersHoldRuns
        <3>2. Sound(Failed(runs[r])) /\ (~Exhausted(r) => Sound(Requeued(runs[r])))
            BY <1>1, <3>1 DEF Failed, Requeued, Exhausted, RunRow
        <3> HIDE DEF Sound
        <3>3. PICK row : Sound(row) /\ runs' = [runs EXCEPT ![r] = row]
            BY <2>3, <3>2 DEF HandleException
        <3> QED
            BY <1>2, <3>1, <3>3
    <2> QED
        BY <1>3, <1>7, <2>1, <2>2, <2>3
           DEF WorkerNext, DropMessage, ReadPages, Extract, BreakDown, ProviderInterrupted,
               FinalizeRefused, HandlerRefused, tables
<1>8. CASE UNCHANGED vars
    BY <1>3, <1>8 DEF vars
<1> QED
    BY <1>4, <1>5, <1>6, <1>7, <1>8 DEF Next

(* A running run always has a lease for the dispatcher to see expire, and  *)
(* a queued run an attempt to be dispatched for.                           *)
THEOREM RunsStayRecoverable == Spec => []RunsAreRecoverable
<1>1. Init => RunsAreRecoverable
    BY DEF Init, RunsAreRecoverable, AbsentRun, UntouchedRun
<1> QED
    BY <1>1, RecoverableStep, TypeInvariance, PTL DEF Spec

-----------------------------------------------------------------------------
(* InvoiceRuns implements InvoiceLife: every transaction of the protocol   *)
(* is, in the status that people see, one step of InvoiceLife or none.     *)

(* InvoiceStatus, one implication per case. *)
StatusFacts ==
    \A i \in Invoices :
        /\ ~Uploaded(i) => Status[i] = "ABSENT"
        /\ Uploaded(i) =>
             /\ CurrentState(i) \in Active => Status[i] = "CHECKING"
             /\ CurrentState(i) = "FAILED" => Status[i] = "FAILED"
             /\ CurrentState(i) = "COMPLETED" =>
                  /\ Status[i] = IF invoices[i].workflow # "NONE" THEN invoices[i].workflow
                                 ELSE CurrentOutcome(i)
                  /\ CurrentOutcome(i) \in Outcomes
             /\ CurrentState(i) \in Active \cup {"FAILED", "COMPLETED"}

LEMMA StatusCases == TypeInv /\ BusinessInv => StatusFacts
<1> SUFFICES ASSUME TypeInv, BusinessInv, NEW i \in Invoices
             PROVE  /\ ~Uploaded(i) => Status[i] = "ABSENT"
                    /\ Uploaded(i) =>
                         /\ CurrentState(i) \in Active => Status[i] = "CHECKING"
                         /\ CurrentState(i) = "FAILED" => Status[i] = "FAILED"
                         /\ CurrentState(i) = "COMPLETED" =>
                              /\ Status[i] = IF invoices[i].workflow # "NONE"
                                             THEN invoices[i].workflow ELSE CurrentOutcome(i)
                              /\ CurrentOutcome(i) \in Outcomes
                         /\ CurrentState(i) \in Active \cup {"FAILED", "COMPLETED"}
    BY DEF StatusFacts
<1>1. Status[i] = IF Uploaded(i) THEN InvoiceStatus(i) ELSE "ABSENT"
    BY DEF Status
<1>2. ASSUME Uploaded(i)
      PROVE  /\ invoices[i].currentRun \in Runs
             /\ CurrentState(i) \in Active \cup {"FAILED", "COMPLETED"}
    <2>1. invoices[i].currentRun \in Runs
        BY <1>2 DEF Uploaded, TypeInv, TypeOK, InvoiceRow
    <2>2. runs[invoices[i].currentRun].state # "ABSENT"
        BY <1>2 DEF BusinessInv, CurrentRunIsOwn
    <2> QED
        BY <2>1, <2>2 DEF CurrentState, TypeInv, TypeOK, RunRow, Active, Terminal
<1>3. ASSUME Uploaded(i), CurrentState(i) = "COMPLETED"
      PROVE  /\ Decided(i)
             /\ runs[invoices[i].currentDecision].revision = invoices[i].revision
             /\ CurrentOutcome(i) \in Outcomes
    <2>1. invoices[i].currentDecision = invoices[i].currentRun
        BY <1>3 DEF BusinessInv, CurrentDecisionIsOwn
    <2>2. runs[invoices[i].currentRun].revision = invoices[i].revision
        BY <1>3 DEF BusinessInv, CurrentRunIsOwn
    <2>3. decisions[invoices[i].currentRun] # None
        BY <1>2, <1>3 DEF BusinessInv, DecisionsOfCompletedRuns, CurrentState
    <2> QED
        BY <1>2, <1>3, <2>1, <2>2, <2>3, ConstantsAssumption
           DEF Decided, CurrentOutcome, TypeInv, TypeOK
<1>4. CurrentState(i) \in Active => CurrentState(i) # "FAILED" /\ CurrentState(i) # "COMPLETED"
    BY DEF Active
<1> QED
    BY <1>1, <1>2, <1>3, <1>4 DEF InvoiceStatus

LEMMA StatusCasesAfter == TypeInv' /\ BusinessInv' => StatusFacts'
BY StatusCases, PTL

(* The status depends on nothing but the invoice's row, the state of its   *)
(* current run, and revision and outcome of its current decision.          *)
LEMMA SameStatus ==
    ASSUME NEW i \in Invoices, SameInvoice(i),
           Uploaded(i) => runs'[invoices[i].currentRun].state = runs[invoices[i].currentRun].state,
           Decided(i) => /\ runs'[invoices[i].currentDecision].revision
                              = runs[invoices[i].currentDecision].revision
                         /\ decisions'[invoices[i].currentDecision]
                              = decisions[invoices[i].currentDecision]
    PROVE  Status'[i] = Status[i]
<1>1. (Uploaded(i) <=> Uploaded(i)') /\ (Decided(i) <=> Decided(i)')
    BY DEF Uploaded, Decided, SameInvoice
<1>2. ASSUME Uploaded(i) PROVE InvoiceStatus(i)' = InvoiceStatus(i)
    <2>1. CurrentState(i)' = CurrentState(i)
        BY <1>2 DEF CurrentState, SameInvoice
    <2>2. CASE Decided(i)
        BY <1>1, <2>1, <2>2 DEF InvoiceStatus, CurrentOutcome, SameInvoice
    <2>3. CASE ~Decided(i)
        BY <1>1, <2>1, <2>3 DEF InvoiceStatus, SameInvoice
    <2> QED
        BY <2>2, <2>3
<1> QED
    BY <1>1, <1>2 DEF Status

(* A step that changes the status of one invoice is a step of InvoiceLife  *)
(* if the two statuses follow one another there.                           *)
LEMMA OneStatusChanges ==
    ASSUME NEW i \in Invoices, \A j \in Invoices \ {i} : Status'[j] = Status[j]
    PROVE  Status' = [Status EXCEPT ![i] = Status'[i]]
BY DEF Status

LEMMA LifeInit == Init => Life!Init
<1> SUFFICES ASSUME Init PROVE Life!Init
    OBVIOUS
<1>1. Status = [i \in Invoices |-> "ABSENT"]
    BY DEF Init, Status, Uploaded, NewInvoice
<1>2. commitments = {}
    BY DEF Init
<1> QED
    BY <1>1, <1>2 DEF Life!Init

LEMMA LifeStep ==
    ASSUME TypeInv, TypeInv', BusinessInv, BusinessInv', [Next]_vars
    PROVE  [Life!Next]_Life!vars
<1> USE DEF Life!Next, Life!Become
<1>0. /\ invoices \in [Invoices -> InvoiceRow] /\ invoices' \in [Invoices -> InvoiceRow]
      /\ runs \in [Runs -> RunRow]
      /\ decisions \in [Runs -> Outcomes \cup {None}]
      /\ \A i \in Invoices : /\ Uploaded(i) => invoices[i].currentRun \in Runs
                             /\ Decided(i) => invoices[i].currentDecision \in Runs
    BY DEF TypeInv, TypeOK, InvoiceRow, Uploaded, Decided
<1>a. StatusFacts /\ StatusFacts'
    BY StatusCases, StatusCasesAfter
<1>1. CASE RunsMove
    <2>1. CASE \A r \in Runs : SameRun(r)
        <3>1. \A i \in Invoices : Status'[i] = Status[i]
            BY <1>0, <1>1, <2>1, SameStatus DEF RunsMove, SameRun
        <3>2. Status' = Status
            BY <3>1 DEF Status
        <3> QED
            BY <1>1, <3>2 DEF RunsMove, Life!vars
    <2>2. ASSUME NEW r \in Runs, MovedRun(r), \A q \in Runs \ {r} : SameRun(q)
          PROVE  [Life!Next]_Life!vars
        <3>1. PICK i \in Invoices :
                  i = runs[r].invoice /\ Uploaded(i) /\ invoices[i].currentRun = r
            BY <1>0, <2>2 DEF MovedRun, BusinessInv, ActiveRunIsCurrent, Superseded, Active,
                              TypeInv, RunsOwned, CurrentRunIsOwn
        <3>2. \A j \in Invoices \ {i} : Uploaded(j) => invoices[j].currentRun # r
            BY <2>2, <3>1 DEF BusinessInv, CurrentRunIsOwn
        <3>3. \A q \in Runs : runs'[q].revision = runs[q].revision
            BY <2>2 DEF MovedRun, SameRun
        <3>4. \A j \in Invoices \ {i} : Status'[j] = Status[j]
            BY <1>0, <1>1, <2>2, <3>2, <3>3, SameStatus DEF RunsMove, SameRun
        <3>5. Status[i] = "CHECKING"
            BY <2>2, <3>1, <1>a DEF StatusFacts, MovedRun, CurrentState
        <3>6. Uploaded(i)' /\ CurrentState(i)' \in Active \cup {"FAILED"}
            BY <1>1, <2>2, <3>1 DEF MovedRun, CurrentState, Uploaded, RunsMove, SameInvoice
        <3>7. Status'[i] \in {"CHECKING", "FAILED"}
            BY <3>1, <3>6, <1>a DEF StatusFacts
        <3>8. Status' = [Status EXCEPT ![i] = Status'[i]] /\ commitments' = commitments
            BY <1>1, <3>1, <3>4, OneStatusChanges DEF RunsMove
        <3>9. CASE Status'[i] = "CHECKING"
            <4>1. Status' = Status
                BY <3>5, <3>8, <3>9 DEF Status
            <4> QED
                BY <3>8, <4>1 DEF Life!vars
        <3>10. CASE Status'[i] = "FAILED"
            BY <3>1, <3>5, <3>8, <3>10 DEF Life!GiveUp
        <3> QED
            BY <3>7, <3>9, <3>10
    <2> QED
        BY <1>1, <2>1, <2>2 DEF RunsMove
<1>2. ASSUME NEW r \in Runs, NEW outcome \in Outcomes, RunDecides(r, outcome)
      PROVE  Life!Next
    <2>1. PICK i \in Invoices :
          /\ i = runs[r].invoice /\ runs[r].state = "RUNNING" /\ invoices[i].currentRun = r
          /\ \A j \in Invoices : Decided(j) => invoices[j].currentDecision # r
          /\ \A j \in Invoices \ {i} : Uploaded(j) => invoices[j].currentRun # r
          /\ invoices[i].workflow = "NONE"
        BY <1>2, DecidesOpenInvoice
    <2>2. /\ runs' = [runs EXCEPT ![r] = Completed(@)]
          /\ decisions' = [decisions EXCEPT ![r] = outcome]
          /\ invoices' = [invoices EXCEPT ![i] = DecidedBy(@, r)]
          /\ commitments' = IF outcome = "APPROVED" THEN commitments \cup {i} ELSE commitments
        BY <1>2, <2>1 DEF RunDecides, Decide
    <2>3. /\ \A q \in Runs \ {r} : runs'[q] = runs[q] /\ decisions'[q] = decisions[q]
          /\ \A j \in Invoices \ {i} : invoices'[j] = invoices[j]
        BY <1>0, <2>2
    <2>4. \A j \in Invoices \ {i} : Status'[j] = Status[j]
        <3> SUFFICES ASSUME NEW j \in Invoices \ {i} PROVE Status'[j] = Status[j]
            OBVIOUS
        <3>1. Uploaded(j) => runs'[invoices[j].currentRun] = runs[invoices[j].currentRun]
            BY <1>0, <2>1, <2>3
        <3>2. Decided(j) =>
                 /\ runs'[invoices[j].currentDecision] = runs[invoices[j].currentDecision]
                 /\ decisions'[invoices[j].currentDecision] = decisions[invoices[j].currentDecision]
            BY <1>0, <2>1, <2>3
        <3> QED
            BY <2>3, <3>1, <3>2, SameStatus DEF SameInvoice
    <2>5. Uploaded(i) /\ CurrentState(i) = "RUNNING"
        BY <1>2, <2>1, ConstantsAssumption DEF Uploaded, CurrentState
    <2>6. Status[i] = "CHECKING"
        BY <2>1, <2>5, <1>a DEF StatusFacts, Active
    <2>7. invoices'[i] = DecidedBy(invoices[i], r) /\ invoices[i] \in InvoiceRow
        BY <1>0, <2>1, <2>2
    <2>8. /\ invoices'[i].currentRun = r /\ invoices'[i].currentDecision = r
          /\ invoices'[i].workflow = "NONE"
        BY <2>1, <2>7 DEF DecidedBy, InvoiceRow
    <2>9. runs'[r].state = "COMPLETED" /\ decisions'[r] = outcome
        <3>1. runs'[r] = Completed(runs[r]) /\ runs[r] \in RunRow
            BY <1>0, <1>2, <2>2
        <3> QED
            BY <1>0, <1>2, <2>2, <3>1, RunRowEdits
    <2>10. Uploaded(i)' /\ CurrentState(i)' = "COMPLETED" /\ CurrentOutcome(i)' = outcome
        BY <1>2, <2>8, <2>9, ConstantsAssumption DEF Uploaded, CurrentState, CurrentOutcome
    <2>11. Status'[i] = outcome
        BY <2>1, <2>8, <2>10, <1>a DEF StatusFacts
    <2>12. Status' = [Status EXCEPT ![i] = outcome]
        BY <2>1, <2>4, <2>11, OneStatusChanges
    <2> QED
        BY <2>1, <2>2, <2>6, <2>12 DEF Life!Decide, Life!Outcomes, Outcomes
<1>3. ASSUME NEW i \in Invoices, Hold(i) \/ Reject(i) PROVE Life!Next
    <2>1. /\ LockForAction(i) /\ DecidedForAction(i) /\ invoices[i].workflow # "REJECTED"
          /\ UNCHANGED <<runs, decisions, commitments>>
        BY <1>3 DEF Hold, Reject
    <2>2. \A j \in Invoices \ {i} : Status'[j] = Status[j]
        BY <1>0, <1>3, <2>1, SameStatus DEF Hold, Reject, SameInvoice
    <2>3. Uploaded(i) /\ CurrentState(i) = "COMPLETED"
        BY <2>1 DEF LockForAction, DecidedForAction
    <2>4. /\ invoices'[i].currentRun = invoices[i].currentRun
          /\ invoices'[i].currentDecision = invoices[i].currentDecision
          /\ invoices'[i].workflow = IF Hold(i) THEN "ON_HOLD" ELSE "REJECTED"
        <3>1. invoices[i] \in InvoiceRow
            BY <1>0
        <3>2. CASE Hold(i)
            BY <1>0, <3>1, <3>2 DEF Hold, InvoiceRow
        <3>3. CASE Reject(i) /\ ~Hold(i)
            BY <1>0, <3>1, <3>3 DEF Reject, InvoiceRow
        <3> QED
            BY <1>3, <3>2, <3>3
    <2>5. Uploaded(i)' /\ CurrentState(i)' = "COMPLETED"
        BY <2>1, <2>3, <2>4 DEF Uploaded, CurrentState
    <2>6. Status'[i] = IF Hold(i) THEN "ON_HOLD" ELSE "REJECTED"
        BY <2>4, <2>5, <1>a DEF StatusFacts
    <2>7. Status' = [Status EXCEPT ![i] = IF Hold(i) THEN "ON_HOLD" ELSE "REJECTED"]
        BY <2>2, <2>6, OneStatusChanges
    <2>8. invoices[i].workflow \in {"NONE", "ON_HOLD"}
        BY <1>0, <2>1 DEF InvoiceRow
    <2>9. CASE Hold(i)
        <3>1. Status[i] = "NEEDS_REVIEW"
            BY <2>3, <2>9, <1>a DEF StatusFacts, Hold
        <3> QED
            BY <2>1, <2>7, <2>9, <3>1 DEF Life!Hold
    <2>10. CASE Reject(i) /\ ~Hold(i)
        <3>1. Status[i] \in {"NEEDS_REVIEW", "BLOCKED", "ON_HOLD"}
            BY <2>3, <2>8, <2>10, <1>a DEF StatusFacts, Reject
        <3> QED
            BY <2>1, <2>7, <2>10, <3>1 DEF Life!Reject
    <2> QED
        BY <1>3, <2>9, <2>10
<1>4. ASSUME NEW i \in Invoices, NEW r \in Runs, Submit(i, r) \/ Review(i, r) \/ Retry(i, r)
      PROVE  Life!Next
    <2>1. PICK n \in Revisions : StartRun(i, r, n)
        <3>1. 1 \in Revisions /\ invoices[i].revision \in Revisions
            BY <1>0, ConstantsAssumption DEF InvoiceRow, Revisions
        <3>2. Review(i, r) => invoices[i].revision + 1 \in Revisions
            BY <3>1, ConstantsAssumption DEF Review, Revisions
        <3> QED
            BY <1>4, <3>1, <3>2 DEF Submit, Review, Retry
    <2>2. /\ UnusedRun(r)
          /\ UNCHANGED <<decisions, commitments>>
          /\ \A j \in Invoices \ {i} : invoices'[j] = invoices[j]
        BY <1>0, <1>4 DEF Submit, Review, Retry
    <2>3. invoices'[i].currentRun = r
        <3>1. invoices[i] \in InvoiceRow
            BY <1>0
        <3>2. CASE Submit(i, r)
            BY <1>0, <3>2 DEF Submit, NewInvoice
        <3>3. CASE Review(i, r)
            BY <1>0, <3>1, <3>3 DEF Review, InvoiceRow
        <3>4. CASE Retry(i, r)
            BY <1>0, <3>1, <3>4 DEF Retry, InvoiceRow
        <3> QED
            BY <1>4, <3>2, <3>3, <3>4
    <2>4. runs'[r].state = "QUEUED" /\ \A q \in Runs \ {r} : runs'[q] = runs[q]
        BY <1>0, <2>1, NewRunTyped DEF StartRun
    <2>5. \A j \in Invoices : Uploaded(j) => invoices[j].currentRun # r
        BY <2>2 DEF BusinessInv, CurrentRunIsOwn, UnusedRun
    <2>6. \A j \in Invoices : Decided(j) => invoices[j].currentDecision # r
        BY <2>2 DEF BusinessInv, CurrentDecisionIsOwn, UnusedRun
    <2>7. \A j \in Invoices \ {i} : Status'[j] = Status[j]
        BY <1>0, <2>2, <2>4, <2>5, <2>6, SameStatus DEF SameInvoice
    <2>8. Uploaded(i)' /\ CurrentState(i)' = "QUEUED"
        BY <2>3, <2>4, ConstantsAssumption DEF Uploaded, CurrentState
    <2>9. Status'[i] = "CHECKING"
        BY <2>8, <1>a DEF StatusFacts, Active
    <2>10. Status' = [Status EXCEPT ![i] = "CHECKING"]
        BY <2>7, <2>9, OneStatusChanges
    <2>11. CASE Submit(i, r)
        <3>1. Status[i] = "ABSENT"
            BY <2>11, <1>a DEF StatusFacts, Submit
        <3> QED
            BY <2>2, <2>10, <3>1 DEF Life!Submit
    <2>12. CASE Review(i, r) \/ Retry(i, r)
        <3>1. /\ LockForAction(i)
              /\ \/ CurrentState(i) = "FAILED"
                 \/ CurrentState(i) \notin Active /\ invoices[i].workflow # "REJECTED"
            BY <2>12 DEF Review, Retry, ReviewOpen, RetryOpen
        <3>2. invoices[i].workflow \in {"NONE", "ON_HOLD", "REJECTED"}
            BY <1>0 DEF InvoiceRow
        <3>3. ASSUME CurrentState(i) = "FAILED" PROVE Status[i] = "FAILED"
            BY <3>1, <3>3, <1>a DEF StatusFacts, LockForAction
        <3>4. ASSUME CurrentState(i) = "COMPLETED", CurrentState(i) # "FAILED"
              PROVE  Status[i] \in {"NEEDS_REVIEW", "BLOCKED", "ON_HOLD"}
            <4>1. Uploaded(i) /\ Decided(i) /\ CurrentOutcome(i) # "APPROVED"
                BY <3>1, <3>4, <1>0, ConstantsAssumption
                   DEF LockForAction, BusinessInv, CurrentDecisionIsOwn, Decided, Uploaded
            <4>2. invoices[i].workflow # "REJECTED"
                BY <3>1, <3>4
            <4> QED
                BY <3>2, <3>4, <4>1, <4>2, <1>a DEF StatusFacts, Outcomes
        <3>5. Status[i] \in {"FAILED", "NEEDS_REVIEW", "BLOCKED", "ON_HOLD"}
            BY <3>1, <3>3, <3>4, <1>a DEF StatusFacts, LockForAction
        <3> QED
            BY <2>2, <2>10, <3>5 DEF Life!CheckAgain
    <2> QED
        BY <1>4, <2>11, <2>12
<1> QED
    BY <1>1, <1>2, <1>3, <1>4, Kinds

(* The run protocol implements the life cycle of an invoice: whatever      *)
(* happens to messages and workers, people see only its status changes,    *)
(* and money is reserved in the step that shows APPROVED and in no other.  *)
THEOREM RunsImplementLife == Spec => LifeSafety
<1>1. TypeInv /\ BusinessInv /\ TypeInv' /\ BusinessInv' /\ [Next]_vars => [Life!Next]_Life!vars
    BY LifeStep
<1> QED
    BY <1>1, LifeInit, Invariance, PTL DEF Spec, LifeSafety, Life!Spec

=============================================================================
