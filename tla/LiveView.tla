------------------------------ MODULE LiveView ------------------------------
(***************************************************************************)
(* One invoice watched live: the progress events its runs write            *)
(* (pipeline.py), the stream and the detail the API serves (main.py), and  *)
(* the page that merges both (use-live-run.ts, steps.ts).                  *)
(*                                                                         *)
(* An event takes its id when it is inserted and is seen when its          *)
(* transaction commits, so ids are not seen in order, and the stream's     *)
(* cursor may pass one.  The page polls the detail while the run is        *)
(* active; a poll may overwrite what the stream merged.                    *)
(*                                                                         *)
(* Left out: the reading stages, whose events are like the others; what a  *)
(* message says; a page whose session ended; leases (an attempt may be     *)
(* taken over at any time) and which group a check event is about.         *)
(***************************************************************************)
EXTENDS Naturals, Sequences

CONSTANTS
    MaxRuns,      \* bound: runs of the invoice
    MaxAttempts,  \* attempts of one run: 3
    MaxClaims     \* bound: attempts of all its runs

ASSUME LiveViewAssumption ==
    /\ MaxRuns \in Nat \ {0}
    /\ MaxAttempts \in Nat \ {0}
    /\ MaxClaims \in Nat

VARIABLES
    runs,      \* the run table, by number; "none": not created yet
    current,   \* invoice.current_run
    log,       \* run_event by id, in the order ids were taken
    visible,   \* ids whose transaction committed
    attempts,  \* the attempts, in the order they began
    view,      \* the page's cached detail
    fetch,     \* the detail request in flight
    stream     \* the page's event source

server == <<runs, current, log, visible, attempts>>
client == <<view, fetch, stream>>
vars == <<server, client>>

Runs == 1 .. MaxRuns

Attempts == 1 .. MaxClaims

RunStates == {"none", "QUEUED", "RUNNING", "COMPLETED", "FAILED"}

(* holder: the attempt whose token the run has; 0: none yet. *)
RunRow == [state: RunStates, tries: Nat, holder: Attempts \cup {0}, revision: Nat]

Ended == {"COMPLETED", "FAILED"}

Watched == {"QUEUED", "RUNNING"}

(* started: reviewer changes or a retry, with the new run; assist-*: the AI *)
(* step; group: the check results of finalize; recovery, processing: an     *)
(* attempt failed.                                                          *)
Stages == {"started", "assist-running", "assist-done", "group", "decision",
           "recovery", "processing"}

(* SETTLES: stages after which the page reads the detail again. *)
Settles == {"decision", "processing", "recovery"}

EventRow == [run: Runs, stage: Stages]

(* An attempt that emits looks at the token first (looked), then inserts   *)
(* the event (id).  finalizing: finalize wrote and holds its locks.        *)
Steps == {"unborn", "assisting", "assisted", "ready", "finalizing", "done"}

AttemptRow == [step: Steps, run: Runs, looked: BOOLEAN, id: Nat]

Blank(step) == [step |-> step, run |-> 1, looked |-> FALSE, id |-> 0]


-----------------------------------------------------------------------------
Greatest(ids) == CHOOSE i \in ids \cup {0} : \A j \in ids : j <= i

(* events_payload: what is committed, in the order of ids. *)
Events == [id \in visible |-> id]

(* setQueryData puts an event the page has not got at the end of the list. *)
Merged(events, id) ==
    [i \in DOMAIN events \cup {id} |->
        IF i \in DOMAIN events THEN events[i]
        ELSE Greatest({id} \cup {events[j] + 1 : j \in DOMAIN events})]

(* detail: one snapshot (GET requests read in REPEATABLE READ), of which   *)
(* the page acts on these parts; decided: a decision of the current        *)
(* revision is shown; events: the ids listed, each with its place.         *)
Detail ==
    [run |-> current, state |-> runs[current].state,
     decided |-> \E r \in Runs : runs[r].state = "COMPLETED" /\ runs[r].revision = runs[current].revision,
     events |-> Events]

(* finalize holds the invoice and its run until it commits. *)
Locked == \E a \in Attempts : attempts[a].step = "finalizing"

Event(run, stage) == [run |-> run, stage |-> stage]

(* An event inserted and committed in one transaction that holds the run. *)
WriteAtOnce(run, stage) ==
    /\ log' = Append(log, Event(run, stage))
    /\ visible' = visible \cup {Len(log) + 1}

Holds(a) ==
    /\ runs[attempts[a].run].state = "RUNNING"
    /\ runs[attempts[a].run].holder = a

Emitted(step) == IF step = "assisting" THEN "assist-running" ELSE "assist-done"

After(step) == IF step = "assisting" THEN "assisted" ELSE "ready"

Advance(a, step) ==
    attempts' = [attempts EXCEPT ![a].step = step, ![a].looked = FALSE, ![a].id = 0]

Stop(a) == attempts' = [attempts EXCEPT ![a] = Blank("done")]

-----------------------------------------------------------------------------
Init ==
    /\ runs = [r \in Runs |-> [state |-> IF r = 1 THEN "QUEUED" ELSE "none",
                               tries |-> 0, holder |-> 0, revision |-> 1]]
    /\ current = 1
    /\ log = <<>>
    /\ visible = {}
    /\ attempts = [a \in Attempts |-> Blank("unborn")]
    /\ view = [run |-> 1, state |-> "QUEUED", decided |-> FALSE, events |-> <<>>]
    /\ fetch = [step |-> "none"]
    /\ stream = [open |-> TRUE, cursor |-> 0]

(* process: an attempt begins, of a queued run or of one whose lease ended. *)
Claim(a) ==
    /\ attempts[a].step = "unborn"
    /\ \A b \in Attempts : b < a => attempts[b].step # "unborn"
    /\ ~Locked
    /\ runs[current].state \in Watched
    /\ runs[current].tries < MaxAttempts
    /\ runs' = [runs EXCEPT ![current] =
                   [state |-> "RUNNING", tries |-> runs[current].tries + 1, holder |-> a,
                    revision |-> runs[current].revision]]
    /\ attempts' = [attempts EXCEPT ![a] = [step |-> "assisting", run |-> current, looked |-> FALSE, id |-> 0]]
    /\ UNCHANGED <<current, log, visible, client>>

(* process, at the limit of attempts. *)
GiveUp ==
    /\ ~Locked
    /\ runs[current].state \in Watched
    /\ runs[current].tries >= MaxAttempts
    /\ runs' = [runs EXCEPT ![current].state = "FAILED"]
    /\ WriteAtOnce(current, "recovery")
    /\ UNCHANGED <<current, attempts, client>>

(* prepare_assistance, when the company has the assistance turned off (it  *)
(* may be at any time): nothing is written about it.                       *)
Disabled(a) ==
    /\ attempts[a].step = "assisting"
    /\ ~attempts[a].looked
    /\ Advance(a, "ready")
    /\ UNCHANGED <<runs, current, log, visible, client>>

(* emit_many reads the run without locking it; an attempt that no longer   *)
(* holds the run writes nothing and goes on.                               *)
Look(a) ==
    /\ attempts[a].step \in {"assisting", "assisted"}
    /\ ~attempts[a].looked
    /\ IF Holds(a)
       THEN attempts' = [attempts EXCEPT ![a].looked = TRUE]
       ELSE Advance(a, After(attempts[a].step))
    /\ UNCHANGED <<runs, current, log, visible, client>>

(* The event takes its id; then its foreign key waits for the run's row.   *)
Insert(a) ==
    /\ attempts[a].step \in {"assisting", "assisted"}
    /\ attempts[a].looked
    /\ attempts[a].id = 0
    /\ log' = Append(log, Event(attempts[a].run, Emitted(attempts[a].step)))
    /\ attempts' = [attempts EXCEPT ![a].id = Len(log) + 1]
    /\ UNCHANGED <<runs, current, visible, client>>

CommitEmit(a) ==
    /\ attempts[a].step \in {"assisting", "assisted"}
    /\ attempts[a].id # 0
    /\ ~\E b \in Attempts : attempts[b].step = "finalizing" /\ attempts[b].run = attempts[a].run
    /\ visible' = visible \cup {attempts[a].id}
    /\ Advance(a, After(attempts[a].step))
    /\ UNCHANGED <<runs, current, log, client>>

(* finalize, once the locks are held: the group results and the decision   *)
(* are written; a stale attempt changes nothing.                           *)
Finalize(a) ==
    /\ attempts[a].step = "ready"
    /\ ~Locked
    /\ IF Holds(a) /\ current = attempts[a].run
       THEN /\ log' = Append(Append(log, Event(current, "group")), Event(current, "decision"))
            /\ attempts' = [attempts EXCEPT ![a].step = "finalizing", ![a].id = Len(log) + 1]
       ELSE /\ Stop(a)
            /\ UNCHANGED log
    /\ UNCHANGED <<runs, current, visible, client>>

(* Mutated form of CommitFinalize: the run is completed before its results *)
(* are committed.                                                          *)
CommitFinalizeEarly(a) ==
    /\ attempts[a].step = "finalizing"
    /\ runs' = [runs EXCEPT ![attempts[a].run].state = "COMPLETED"]
    /\ visible' = visible \cup {attempts[a].id}
    /\ Stop(a)
    /\ UNCHANGED <<current, log, client>>

CommitFinalize(a) ==
    /\ attempts[a].step = "finalizing"
    /\ runs' = [runs EXCEPT ![attempts[a].run].state = "COMPLETED"]
    /\ visible' = visible \cup {attempts[a].id, attempts[a].id + 1}
    /\ Stop(a)
    /\ UNCHANGED <<current, log, client>>

(* The handler of process: what was not committed is rolled back; the      *)
(* attempt that still holds the run queues it again (transient failures,   *)
(* within the limit) or fails it.                                          *)
Fail(a) ==
    /\ attempts[a].step \notin {"unborn", "done"}
    /\ \A b \in Attempts \ {a} : attempts[b].step # "finalizing"
    /\ Stop(a)
    /\ IF Holds(a)
       THEN \E stage \in {"recovery", "processing"} :
               /\ stage = "recovery" => runs[attempts[a].run].tries < MaxAttempts
               /\ runs' = [runs EXCEPT ![attempts[a].run].state =
                              IF stage = "recovery" THEN "QUEUED" ELSE "FAILED"]
               /\ WriteAtOnce(attempts[a].run, stage)
       ELSE UNCHANGED <<runs, log, visible>>
    /\ UNCHANGED <<current, client>>

(* The process ends inside finalize: everything is rolled back.  A process *)
(* that ends elsewhere takes no more steps.                                *)
Crash(a) ==
    /\ attempts[a].step = "finalizing"
    /\ Stop(a)
    /\ UNCHANGED <<runs, current, log, visible, client>>

(* review of a completed run makes a new revision; retry of a failed one   *)
(* does not.  Both make a new run.  Done here, the page then reads the     *)
(* detail again; a member elsewhere does it unseen.                        *)
NewRun(here) ==
    /\ current < MaxRuns
    /\ runs[current].state \in Ended
    /\ ~Locked
    /\ here => view.run = current /\ view.state \in Ended
    /\ current' = current + 1
    /\ runs' = [runs EXCEPT ![current + 1] =
                   [state |-> "QUEUED", tries |-> 0, holder |-> 0,
                    revision |-> IF runs[current].state = "COMPLETED"
                                 THEN runs[current].revision + 1 ELSE runs[current].revision]]
    /\ WriteAtOnce(current + 1, "started")
    /\ fetch' = IF here THEN [step |-> "asked"] ELSE fetch
    /\ UNCHANGED <<attempts, view, stream>>

-----------------------------------------------------------------------------
Active(v) == v.state \in Watched

(* The page opens its event source anew when the run it shows becomes      *)
(* active or is another one, from the last event it has.                   *)
Follow(v) ==
    stream' = IF ~Active(v) THEN [open |-> FALSE, cursor |-> 0]
              ELSE IF Active(view) /\ view.run = v.run THEN stream
              ELSE [open |-> TRUE, cursor |-> Greatest(DOMAIN v.events)]

(* Mutated form of Poll: only a queued run is polled. *)
PollQueued ==
    /\ fetch.step = "none"
    /\ view.state = "QUEUED"
    /\ fetch' = [step |-> "asked"]
    /\ UNCHANGED <<server, view, stream>>

(* refetchInterval. *)
Poll ==
    /\ fetch.step = "none"
    /\ Active(view)
    /\ fetch' = [step |-> "asked"]
    /\ UNCHANGED <<server, view, stream>>

(* The page is shown again, or the query is read by another component. *)
Refocus ==
    /\ fetch.step = "none"
    /\ ~Active(view)
    /\ fetch' = [step |-> "asked"]
    /\ UNCHANGED <<server, view, stream>>

Answer ==
    /\ fetch.step = "asked"
    /\ fetch' = [step |-> "answered", detail |-> Detail]
    /\ UNCHANGED <<server, view, stream>>

(* Mutated form of Arrive: of a run it already shows, the page keeps the   *)
(* events it merged.                                                       *)
ArriveKeeping ==
    /\ fetch.step = "answered"
    /\ view' = IF view.run = fetch.detail.run
               THEN [fetch.detail EXCEPT !.events = view.events] ELSE fetch.detail
    /\ Follow(fetch.detail)
    /\ fetch' = [step |-> "none"]
    /\ UNCHANGED server

(* Mutated form of Arrive: the event source is left as it was. *)
ArriveUnfollowed ==
    /\ fetch.step = "answered"
    /\ view' = fetch.detail
    /\ fetch' = [step |-> "none"]
    /\ UNCHANGED <<server, stream>>

(* The answer replaces the cached detail, what was merged meanwhile too. *)
Arrive ==
    /\ fetch.step = "answered"
    /\ view' = fetch.detail
    /\ Follow(fetch.detail)
    /\ fetch' = [step |-> "none"]
    /\ UNCHANGED server

(* The request fails; the next interval asks again. *)
Lose ==
    /\ fetch.step # "none"
    /\ fetch' = [step |-> "none"]
    /\ UNCHANGED <<server, view, stream>>

(* stream: the next committed event after the cursor reaches the page.  An *)
(* event of another run, or one that settles, cancels the request in       *)
(* flight and asks again.  A broken connection resumes from the cursor, so *)
(* it only delays this.                                                    *)
Deliver ==
    /\ stream.open
    /\ \E id \in visible :
          /\ id > stream.cursor
          /\ \A other \in visible : other > stream.cursor => id <= other
          /\ stream' = [stream EXCEPT !.cursor = id]
          /\ view' = IF log[id].run = view.run
                     THEN [view EXCEPT !.events = Merged(view.events, id)] ELSE view
          /\ fetch' = IF log[id].run # view.run \/ log[id].stage \in Settles
                      THEN [step |-> "asked"] ELSE fetch
    /\ UNCHANGED server

Next ==
    \/ \E a \in Attempts :
          \/ Claim(a) \/ Disabled(a) \/ Look(a) \/ Insert(a) \/ CommitEmit(a)
          \/ Finalize(a) \/ CommitFinalize(a) \/ Fail(a) \/ Crash(a)
    \/ GiveUp
    \/ \E here \in BOOLEAN : NewRun(here)
    \/ Poll \/ Refocus \/ Answer \/ Arrive \/ Lose \/ Deliver

(* The page polls; requests may fail, but not for ever. *)
Spec == Init /\ [][Next]_vars /\ WF_vars(Poll) /\ SF_vars(Answer) /\ SF_vars(Arrive)

-----------------------------------------------------------------------------
(* What the page shows of a stage: the last event of its run in the list. *)
Last(stages) ==
    CHOOSE id \in DOMAIN view.events :
        /\ log[id].run = view.run /\ log[id].stage \in stages
        /\ \A other \in DOMAIN view.events :
              log[other].run = view.run /\ log[other].stage \in stages =>
                  view.events[other] <= view.events[id]

(* buildSteps, the explanation: running as long as the last event of the   *)
(* AI step says so, with a decision or without.                            *)
ExplainRunning ==
    /\ \E id \in DOMAIN view.events : log[id] = Event(view.run, "assist-running")
    /\ log[Last({"assist-running", "assist-done"})].stage = "assist-running"

(* Types; the page's event source is open exactly while the run it shows   *)
(* is active.                                                              *)
TypeOK ==
    /\ runs \in [Runs -> RunRow]
    /\ current \in Runs
    /\ log \in Seq(EventRow)
    /\ visible \subseteq DOMAIN log
    /\ attempts \in [Attempts -> AttemptRow]
    /\ view.run \in Runs /\ view.state \in Watched \cup Ended /\ view.decided \in BOOLEAN
    /\ DOMAIN view.events \subseteq visible
    /\ fetch.step \in {"none", "asked", "answered"}
    /\ stream.open <=> Active(view)

(* All that finalize writes is listed. *)
Complete(detail) ==
    /\ detail.decided
    /\ \E group, decision \in DOMAIN detail.events :
          /\ log[group] = Event(detail.run, "group")
          /\ log[decision] = Event(detail.run, "decision")

(* A page that shows a run as completed holds its decision and every       *)
(* result finalize wrote, whatever the stream skipped and whatever an      *)
(* older answer overwrote: finalize commits all of it at once              *)
(* (pipeline.py:297), and the detail is one snapshot (auth.py:21).         *)
EndedViewIsComplete == view.state = "COMPLETED" => Complete(view)

(* The page shows an active run and lacks a committed event of it. *)
Missed(id) ==
    /\ log[id].run = view.run
    /\ runs[view.run].state \in Watched
    /\ id \notin DOMAIN view.events

(* Again and again the page holds every committed event of the active run  *)
(* it shows, though the stream's cursor passed some of them (main.py:800): *)
(* the poll brings those.                                                  *)
EventsArrive == []<>(\A id \in visible : ~Missed(id))

(* A page never goes on showing a run as active after it ended, with the   *)
(* stream up or down (use-live-run.ts:21).                                 *)
ViewsSettle ==
    \A r \in Runs : runs[r].state \in Ended ~> ~(view.run = r /\ Active(view))

(* "the AI explanation is written before the decision lands"               *)
(* (steps.ts:47): a completed invoice shows no explanation in progress.    *)
ExplanationBeforeDecision == view.state = "COMPLETED" => ~ExplainRunning
=============================================================================
