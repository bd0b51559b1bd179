--------------------------- MODULE LiveViewProofs ---------------------------
(***************************************************************************)
(* The types of LiveView and EndedViewIsComplete, for any number of runs   *)
(* and attempts.  The argument follows what finalize wrote: an attempt     *)
(* inside finalize has its two kinds of rows in the log (FinalizersWrote), *)
(* a completed run has them committed (Written), and so has the snapshot   *)
(* that answered a request (AnswerIsComplete).  Nothing already committed  *)
(* changes (LogGrows), so what was complete stays complete.                *)
(***************************************************************************)
EXTENDS LiveView, TLAPS

FinalizersWrote ==
    \A a \in Attempts : attempts[a].step = "finalizing" =>
        /\ attempts[a].id \in DOMAIN log /\ attempts[a].id + 1 \in DOMAIN log
        /\ log[attempts[a].id] = Event(attempts[a].run, "group")
        /\ log[attempts[a].id + 1] = Event(attempts[a].run, "decision")

InsertersWrote ==
    \A a \in Attempts : attempts[a].id # 0 => attempts[a].id \in DOMAIN log

WrittenFor(r) ==
    \E group, decision \in visible :
        log[group] = Event(r, "group") /\ log[decision] = Event(r, "decision")

Written == \A r \in Runs : runs[r].state = "COMPLETED" => WrittenFor(r)

CurrentExists == runs[current].state # "none"

IsDetail(v) ==
    /\ v = [run |-> v.run, state |-> v.state, decided |-> v.decided, events |-> v.events]
    /\ v.run \in Runs /\ v.state \in Watched \cup Ended /\ v.decided \in BOOLEAN
    /\ DOMAIN v.events \subseteq visible

AnswerIsComplete ==
    fetch.step = "answered" =>
        IsDetail(fetch.detail) /\ (fetch.detail.state = "COMPLETED" => Complete(fetch.detail))

PageIsTyped ==
    /\ IsDetail(view)
    /\ stream = [open |-> stream.open, cursor |-> stream.cursor]

LiveInv ==
    /\ TypeOK
    /\ FinalizersWrote
    /\ InsertersWrote
    /\ Written
    /\ CurrentExists
    /\ PageIsTyped
    /\ AnswerIsComplete
    /\ EndedViewIsComplete

-----------------------------------------------------------------------------
(* Rows of the two tables after the updates the actions make. *)
LEMMA StateIsTyped ==
    ASSUME NEW f \in [Runs -> RunRow], NEW r \in Runs, NEW s \in RunStates
    PROVE  /\ [f EXCEPT ![r].state = s] \in [Runs -> RunRow]
           /\ [f EXCEPT ![r].state = s][r].state = s
           /\ \A q \in Runs \ {r} : [f EXCEPT ![r].state = s][q] = f[q]
BY DEF RunRow

LEMMA AdvanceIsTyped ==
    ASSUME attempts \in [Attempts -> AttemptRow], NEW a \in Attempts, NEW s \in Steps, Advance(a, s)
    PROVE  /\ attempts' \in [Attempts -> AttemptRow]
           /\ attempts'[a].step = s /\ attempts'[a].id = 0
           /\ \A b \in Attempts \ {a} : attempts'[b] = attempts[b]
BY DEF Advance, AttemptRow

LEMMA StopIsTyped ==
    ASSUME attempts \in [Attempts -> AttemptRow], NEW a \in Attempts, Stop(a), LiveViewAssumption
    PROVE  /\ attempts' \in [Attempts -> AttemptRow]
           /\ attempts'[a].step = "done" /\ attempts'[a].id = 0
           /\ \A b \in Attempts \ {a} : attempts'[b] = attempts[b]
<1>1. 1 \in Runs
    BY LiveViewAssumption DEF Runs
<1>2. Blank("done") \in AttemptRow /\ Blank("done").step = "done" /\ Blank("done").id = 0
    BY <1>1 DEF Blank, AttemptRow, Steps
<1> QED BY <1>2 DEF Stop

LEMMA LookedIsTyped ==
    ASSUME attempts \in [Attempts -> AttemptRow], NEW a \in Attempts,
           attempts' = [attempts EXCEPT ![a].looked = TRUE]
    PROVE  /\ attempts' \in [Attempts -> AttemptRow]
           /\ attempts'[a].step = attempts[a].step /\ attempts'[a].id = attempts[a].id
           /\ \A b \in Attempts \ {a} : attempts'[b] = attempts[b]
BY DEF AttemptRow

LEMMA InsertedIsTyped ==
    ASSUME attempts \in [Attempts -> AttemptRow], NEW a \in Attempts, NEW i \in Nat,
           attempts' = [attempts EXCEPT ![a].id = i]
    PROVE  /\ attempts' \in [Attempts -> AttemptRow]
           /\ attempts'[a].step = attempts[a].step /\ attempts'[a].id = i
           /\ \A b \in Attempts \ {a} : attempts'[b] = attempts[b]
BY DEF AttemptRow

LEMMA FinalizingIsTyped ==
    ASSUME attempts \in [Attempts -> AttemptRow], NEW a \in Attempts, NEW i \in Nat,
           attempts' = [attempts EXCEPT ![a].step = "finalizing", ![a].id = i]
    PROVE  /\ attempts' \in [Attempts -> AttemptRow]
           /\ attempts'[a].run = attempts[a].run /\ attempts'[a].id = i
           /\ \A b \in Attempts \ {a} : attempts'[b] = attempts[b]
BY DEF AttemptRow, Steps

(* One event appended to the log. *)
LEMMA AppendGrows ==
    ASSUME NEW l \in Seq(EventRow), NEW r \in Runs, NEW stage \in Stages
    PROVE  LET m == Append(l, Event(r, stage))
           IN /\ m \in Seq(EventRow)
              /\ Len(m) = Len(l) + 1
              /\ DOMAIN l \subseteq DOMAIN m
              /\ Len(l) + 1 \in DOMAIN m
              /\ m[Len(l) + 1] = Event(r, stage)
              /\ \A i \in DOMAIN l : m[i] = l[i]
<1>1. Event(r, stage) \in EventRow
    BY DEF Event, EventRow
<1>2. Append(l, Event(r, stage)) \in Seq(EventRow)
    BY <1>1
<1>3. Len(Append(l, Event(r, stage))) = Len(l) + 1 /\ Len(l) \in Nat
    BY <1>1
<1>4. DOMAIN l = 1 .. Len(l) /\ DOMAIN Append(l, Event(r, stage)) = 1 .. Len(l) + 1
    BY <1>2, <1>3
<1> QED BY <1>1, <1>2, <1>3, <1>4

(* What is committed stays as it is. *)
Grows ==
    /\ log' \in Seq(EventRow)
    /\ DOMAIN log \subseteq DOMAIN log'
    /\ \A i \in DOMAIN log : log'[i] = log[i]
    /\ visible \subseteq visible'
    /\ visible' \subseteq DOMAIN log'

LEMMA WriteGrows ==
    ASSUME TypeOK, NEW r \in Runs, NEW stage \in Stages, WriteAtOnce(r, stage)
    PROVE  Grows
<1>1. log \in Seq(EventRow) /\ visible \subseteq DOMAIN log
    BY DEF TypeOK
<1> QED BY <1>1, AppendGrows DEF WriteAtOnce, Grows

(* A list that was complete stays complete. *)
LEMMA CompleteStays ==
    ASSUME Grows, visible \subseteq DOMAIN log, NEW v, DOMAIN v.events \subseteq visible, Complete(v)
    PROVE  Complete(v)'
<1>1. \A i \in DOMAIN v.events : log'[i] = log[i]
    BY DEF Grows
<1> QED BY <1>1 DEF Complete, Event

LEMMA NothingGrows == ASSUME TypeOK, UNCHANGED <<log, visible>> PROVE Grows
BY DEF TypeOK, Grows

-----------------------------------------------------------------------------
(* The page's part of the invariant while the server acts. *)
PageInv ==
    /\ view.run \in Runs /\ view.state \in Watched \cup Ended /\ view.decided \in BOOLEAN
    /\ DOMAIN view.events \subseteq visible
    /\ fetch.step \in {"none", "asked", "answered"}
    /\ stream.open <=> Active(view)
    /\ PageIsTyped
    /\ AnswerIsComplete
    /\ EndedViewIsComplete

(* The server's part. *)
ServerTyped ==
    /\ runs \in [Runs -> RunRow]
    /\ current \in Runs
    /\ log \in Seq(EventRow)
    /\ visible \subseteq DOMAIN log
    /\ attempts \in [Attempts -> AttemptRow]

ServerInv == ServerTyped /\ FinalizersWrote /\ InsertersWrote /\ Written /\ CurrentExists

LEMMA TwoParts == LiveInv <=> ServerInv /\ PageInv
BY DEF LiveInv, ServerInv, ServerTyped, PageInv, TypeOK

LEMMA PageStays ==
    ASSUME ServerInv, PageInv, Grows, view' = view, stream' = stream,
           fetch' = fetch \/ fetch' = [step |-> "asked"]
    PROVE  PageInv'
<1>1. visible \subseteq DOMAIN log /\ visible \subseteq visible'
    BY DEF ServerInv, ServerTyped, Grows
<1>2. PageIsTyped' /\ DOMAIN view'.events \subseteq visible'
    BY <1>1 DEF PageInv, PageIsTyped, IsDetail
<1>3. EndedViewIsComplete'
  <2>1. CASE view.state = "COMPLETED"
    <3>1. Complete(view)'
        BY <1>1, <2>1, CompleteStays DEF PageInv, EndedViewIsComplete
    <3> QED BY <3>1 DEF EndedViewIsComplete
  <2>2. CASE view.state # "COMPLETED"
      BY <2>2 DEF EndedViewIsComplete
  <2> QED BY <2>1, <2>2
<1>4. AnswerIsComplete'
  <2>1. CASE fetch' = [step |-> "asked"]
      BY <2>1 DEF AnswerIsComplete
  <2>2. CASE fetch' = fetch /\ fetch.step = "answered"
    <3>1. IsDetail(fetch.detail)'
        BY <1>1, <2>2 DEF PageInv, AnswerIsComplete, IsDetail
    <3>2. fetch.detail.state = "COMPLETED" => Complete(fetch.detail)'
      <4>1. DOMAIN fetch.detail.events \subseteq visible
          BY <2>2 DEF PageInv, AnswerIsComplete, IsDetail
      <4>2. fetch.detail.state = "COMPLETED" => Complete(fetch.detail)
          BY <2>2 DEF PageInv, AnswerIsComplete
      <4>3. \A i \in DOMAIN fetch.detail.events : log'[i] = log[i]
          BY <1>1, <4>1 DEF Grows
      <4> QED BY <2>2, <4>2, <4>3 DEF Complete, Event
    <3> QED BY <2>2, <3>1, <3>2 DEF AnswerIsComplete
  <2>3. CASE fetch' = fetch /\ fetch.step # "answered"
      BY <2>3 DEF AnswerIsComplete
  <2> QED BY <2>1, <2>2, <2>3
<1>5. fetch'.step \in {"none", "asked", "answered"} /\ (stream'.open <=> Active(view'))
    BY DEF PageInv
<1>6. view'.run \in Runs /\ view'.state \in Watched \cup Ended /\ view'.decided \in BOOLEAN
    BY DEF PageInv
<1> QED BY <1>2, <1>3, <1>4, <1>5, <1>6 DEF PageInv

(* The log's part, when one attempt changes and the log only grows. *)
LEMMA LogPart ==
    ASSUME ServerInv, Grows, NEW a \in Attempts,
           \A b \in Attempts \ {a} : attempts'[b] = attempts[b],
           attempts'[a].step # "finalizing", attempts'[a].id \in DOMAIN log' \cup {0}
    PROVE  FinalizersWrote' /\ InsertersWrote'
<1>1. \A b \in Attempts \ {a} : attempts[b].step = "finalizing" =>
         /\ attempts[b].id \in DOMAIN log /\ attempts[b].id + 1 \in DOMAIN log
         /\ log[attempts[b].id] = Event(attempts[b].run, "group")
         /\ log[attempts[b].id + 1] = Event(attempts[b].run, "decision")
    BY DEF ServerInv, FinalizersWrote
<1>2. \A b \in Attempts \ {a} : attempts'[b].step = "finalizing" =>
         /\ attempts'[b].id \in DOMAIN log' /\ attempts'[b].id + 1 \in DOMAIN log'
         /\ log'[attempts'[b].id] = Event(attempts'[b].run, "group")
         /\ log'[attempts'[b].id + 1] = Event(attempts'[b].run, "decision")
    BY <1>1 DEF Grows
<1>3. FinalizersWrote'
    BY <1>2 DEF FinalizersWrote, Event
<1>4. InsertersWrote'
    BY DEF ServerInv, InsertersWrote, Grows
<1> QED BY <1>3, <1>4

LEMMA LogPartStays ==
    ASSUME ServerInv, Grows, attempts' = attempts
    PROVE  FinalizersWrote' /\ InsertersWrote'
BY DEF ServerInv, FinalizersWrote, InsertersWrote, Grows, Event

(* What was written for a run stays written. *)
LEMMA WrittenForStays ==
    ASSUME ServerInv, Grows, NEW r \in Runs, WrittenFor(r)
    PROVE  WrittenFor(r)'
BY DEF ServerInv, ServerTyped, Grows, WrittenFor, Event

LEMMA WrittenStays ==
    ASSUME ServerInv, Grows,
           \A r \in Runs : runs'[r].state = "COMPLETED" => runs[r].state = "COMPLETED"
    PROVE  Written'
<1>1. \A r \in Runs : runs'[r].state = "COMPLETED" => WrittenFor(r)
    BY DEF ServerInv, Written
<1>2. \A r \in Runs : runs'[r].state = "COMPLETED" => WrittenFor(r)'
    BY <1>1, WrittenForStays
<1> QED BY <1>2 DEF Written

-----------------------------------------------------------------------------
(* One lemma per action of the server. *)
LEMMA ClaimKeeps ==
    ASSUME ServerInv, TypeOK, NEW a \in Attempts, Claim(a) PROVE ServerInv' /\ Grows
<1>1. Grows
    BY NothingGrows DEF Claim
<1>2. /\ runs' \in [Runs -> RunRow] /\ runs'[current].state = "RUNNING"
      /\ \A r \in Runs \ {current} : runs'[r] = runs[r]
  <2>1. runs[current] \in RunRow /\ current \in Runs
      BY DEF ServerInv, ServerTyped
  <2>2. [state |-> "RUNNING", tries |-> runs[current].tries + 1, holder |-> a,
         revision |-> runs[current].revision] \in RunRow
      BY <2>1 DEF RunRow, RunStates
  <2> QED BY <2>1, <2>2 DEF Claim, ServerInv, ServerTyped
<1>3. [step |-> "assisting", run |-> current, looked |-> FALSE, id |-> 0] \in AttemptRow
    BY DEF ServerInv, ServerTyped, AttemptRow, Steps
<1>4. /\ attempts' \in [Attempts -> AttemptRow]
      /\ attempts'[a].step = "assisting" /\ attempts'[a].id = 0
      /\ \A b \in Attempts \ {a} : attempts'[b] = attempts[b]
    BY <1>3 DEF Claim, ServerInv, ServerTyped
<1>5. FinalizersWrote' /\ InsertersWrote'
    BY <1>1, <1>4, LogPart
<1>6. Written'
    BY <1>1, <1>2, WrittenStays DEF ServerInv, ServerTyped
<1>7. CurrentExists' /\ current' = current
    BY <1>2 DEF Claim, CurrentExists
<1> QED BY <1>1, <1>2, <1>4, <1>5, <1>6, <1>7 DEF ServerInv, ServerTyped, Grows

LEMMA GiveUpKeeps ==
    ASSUME ServerInv, TypeOK, GiveUp PROVE ServerInv' /\ Grows
<1>1. Grows
    BY WriteGrows DEF GiveUp, Stages, ServerInv, ServerTyped
<1>2. /\ runs' \in [Runs -> RunRow] /\ runs'[current].state = "FAILED"
      /\ \A r \in Runs \ {current} : runs'[r] = runs[r]
  <2>1. "FAILED" \in RunStates
      BY DEF RunStates
  <2> QED BY <2>1, StateIsTyped DEF GiveUp, ServerInv, ServerTyped
<1>3. FinalizersWrote' /\ InsertersWrote' /\ attempts' = attempts
    BY <1>1, LogPartStays DEF GiveUp
<1>4. Written'
    BY <1>1, <1>2, WrittenStays DEF ServerInv, ServerTyped
<1>5. CurrentExists' /\ current' = current
    BY <1>2 DEF GiveUp, CurrentExists
<1> QED BY <1>1, <1>2, <1>3, <1>4, <1>5 DEF ServerInv, ServerTyped, Grows

(* Steps of an attempt that leave the runs alone. *)
LEMMA QuietStepKeeps ==
    ASSUME ServerInv, Grows, NEW a \in Attempts, runs' = runs, current' = current,
           attempts' \in [Attempts -> AttemptRow],
           \A b \in Attempts \ {a} : attempts'[b] = attempts[b],
           attempts'[a].step # "finalizing", attempts'[a].id \in DOMAIN log' \cup {0}
    PROVE  ServerInv'
<1>1. FinalizersWrote' /\ InsertersWrote'
    BY LogPart
<1>2. Written'
    BY WrittenStays
<1>3. CurrentExists'
    BY DEF ServerInv, CurrentExists
<1> QED BY <1>1, <1>2, <1>3 DEF ServerInv, ServerTyped, Grows

LEMMA EmitKeeps ==
    ASSUME ServerInv, TypeOK, LiveViewAssumption, NEW a \in Attempts,
           Disabled(a) \/ Look(a) \/ Insert(a) \/ CommitEmit(a) \/ Crash(a)
    PROVE  ServerInv' /\ Grows
<1>0. attempts \in [Attempts -> AttemptRow] /\ log \in Seq(EventRow) /\ visible \subseteq DOMAIN log
    BY DEF ServerInv, ServerTyped
<1>a. After(attempts[a].step) \in Steps /\ After(attempts[a].step) # "finalizing" /\ "ready" \in Steps
    BY DEF After, Steps
<1>1. CASE Disabled(a)
  <2>1. Grows
      BY <1>1, NothingGrows DEF Disabled
  <2>2. /\ attempts' \in [Attempts -> AttemptRow]
        /\ attempts'[a].step = "ready" /\ attempts'[a].id = 0
        /\ \A b \in Attempts \ {a} : attempts'[b] = attempts[b]
      BY <1>0, <1>1, <1>a, AdvanceIsTyped DEF Disabled
  <2> QED BY <1>1, <2>1, <2>2, QuietStepKeeps DEF Disabled
<1>2. CASE Look(a)
  <2>1. Grows
      BY <1>2, NothingGrows DEF Look
  <2>2. /\ attempts' \in [Attempts -> AttemptRow]
        /\ attempts'[a].step # "finalizing" /\ attempts'[a].id \in {0, attempts[a].id}
        /\ \A b \in Attempts \ {a} : attempts'[b] = attempts[b]
    <3>1. CASE Holds(a)
      <4>1. attempts' = [attempts EXCEPT ![a].looked = TRUE]
          BY <1>2, <3>1 DEF Look
      <4>2. attempts[a].step # "finalizing"
          BY <1>2 DEF Look
      <4> QED BY <1>0, <4>1, <4>2, LookedIsTyped
    <3>2. CASE ~Holds(a)
        BY <1>0, <1>2, <1>a, <3>2, AdvanceIsTyped DEF Look
    <3> QED BY <3>1, <3>2
  <2>3. attempts'[a].id \in DOMAIN log' \cup {0}
      BY <1>2, <2>2 DEF Look, ServerInv, InsertersWrote
  <2> QED BY <1>2, <2>1, <2>2, <2>3, QuietStepKeeps DEF Look
<1>3. CASE Insert(a)
  <2>1. attempts[a].run \in Runs /\ Emitted(attempts[a].step) \in Stages /\ Len(log) \in Nat
      BY <1>0 DEF Emitted, Stages, AttemptRow
  <2>2. Grows /\ Len(log) + 1 \in DOMAIN log'
      BY <1>0, <1>3, <2>1, AppendGrows DEF Insert, Grows
  <2>3. /\ attempts' \in [Attempts -> AttemptRow]
        /\ attempts'[a].step = attempts[a].step /\ attempts'[a].id = Len(log) + 1
        /\ \A b \in Attempts \ {a} : attempts'[b] = attempts[b]
    <3>1. Len(log) + 1 \in Nat /\ attempts' = [attempts EXCEPT ![a].id = Len(log) + 1]
        BY <1>3, <2>1 DEF Insert
    <3> QED BY <1>0, <3>1, InsertedIsTyped
  <2> QED BY <1>3, <2>2, <2>3, QuietStepKeeps DEF Insert
<1>4. CASE CommitEmit(a)
  <2>1. Grows
      BY <1>0, <1>4 DEF CommitEmit, Grows, ServerInv, InsertersWrote
  <2>2. /\ attempts' \in [Attempts -> AttemptRow]
        /\ attempts'[a].step # "finalizing" /\ attempts'[a].id = 0
        /\ \A b \in Attempts \ {a} : attempts'[b] = attempts[b]
      BY <1>0, <1>4, <1>a, AdvanceIsTyped DEF CommitEmit
  <2> QED BY <1>4, <2>1, <2>2, QuietStepKeeps DEF CommitEmit
<1>5. CASE Crash(a)
  <2>1. Grows
      BY <1>5, NothingGrows DEF Crash
  <2>2. /\ attempts' \in [Attempts -> AttemptRow]
        /\ attempts'[a].step = "done" /\ attempts'[a].id = 0
        /\ \A b \in Attempts \ {a} : attempts'[b] = attempts[b]
      BY <1>0, <1>5, StopIsTyped DEF Crash
  <2> QED BY <1>5, <2>1, <2>2, QuietStepKeeps DEF Crash
<1> QED BY <1>1, <1>2, <1>3, <1>4, <1>5

LEMMA FinalizeKeeps ==
    ASSUME ServerInv, TypeOK, LiveViewAssumption, NEW a \in Attempts, Finalize(a)
    PROVE  ServerInv' /\ Grows
<1>0. attempts \in [Attempts -> AttemptRow] /\ log \in Seq(EventRow) /\ visible \subseteq DOMAIN log
      /\ current \in Runs
    BY DEF ServerInv, ServerTyped
<1>1. CASE ~(Holds(a) /\ current = attempts[a].run)
  <2>1. Grows
      BY <1>1, NothingGrows DEF Finalize
  <2>2. /\ attempts' \in [Attempts -> AttemptRow]
        /\ attempts'[a].step = "done" /\ attempts'[a].id = 0
        /\ \A b \in Attempts \ {a} : attempts'[b] = attempts[b]
      BY <1>0, <1>1, StopIsTyped DEF Finalize
  <2> QED BY <1>1, <2>1, <2>2, QuietStepKeeps DEF Finalize
<1>2. CASE Holds(a) /\ current = attempts[a].run
  <2> DEFINE first == Append(log, Event(current, "group"))
  <2>1. /\ first \in Seq(EventRow) /\ Len(first) = Len(log) + 1 /\ DOMAIN log \subseteq DOMAIN first
        /\ Len(log) + 1 \in DOMAIN first /\ first[Len(log) + 1] = Event(current, "group")
        /\ \A i \in DOMAIN log : first[i] = log[i]
      BY <1>0, AppendGrows DEF Stages
  <2>2. log' = Append(first, Event(current, "decision"))
      BY <1>2 DEF Finalize
  <2> HIDE DEF first
  <2>3. /\ log' \in Seq(EventRow) /\ DOMAIN first \subseteq DOMAIN log'
        /\ Len(first) + 1 \in DOMAIN log' /\ log'[Len(first) + 1] = Event(current, "decision")
        /\ \A i \in DOMAIN first : log'[i] = first[i]
      BY <1>0, <2>1, <2>2, AppendGrows DEF Stages
  <2>4. Grows
      BY <1>0, <1>2, <2>1, <2>3 DEF Finalize, Grows
  <2>5. Len(log) \in Nat
      BY <1>0
  <2>6. /\ attempts' \in [Attempts -> AttemptRow]
        /\ attempts'[a].run = current /\ attempts'[a].id = Len(log) + 1
        /\ \A b \in Attempts \ {a} : attempts'[b] = attempts[b]
    <3>1. Len(log) + 1 \in Nat
          /\ attempts' = [attempts EXCEPT ![a].step = "finalizing", ![a].id = Len(log) + 1]
        BY <1>2, <2>5 DEF Finalize
    <3> QED BY <1>0, <1>2, <3>1, FinalizingIsTyped
  <2>7. FinalizersWrote'
    <3>1. /\ attempts'[a].id \in DOMAIN log' /\ attempts'[a].id + 1 \in DOMAIN log'
          /\ log'[attempts'[a].id] = Event(attempts'[a].run, "group")
          /\ log'[attempts'[a].id + 1] = Event(attempts'[a].run, "decision")
        BY <2>1, <2>3, <2>6
    <3>2. \A b \in Attempts \ {a} : attempts[b].step = "finalizing" =>
             /\ attempts[b].id \in DOMAIN log /\ attempts[b].id + 1 \in DOMAIN log
             /\ log[attempts[b].id] = Event(attempts[b].run, "group")
             /\ log[attempts[b].id + 1] = Event(attempts[b].run, "decision")
        BY DEF ServerInv, FinalizersWrote
    <3>3. \A b \in Attempts \ {a} : attempts'[b].step = "finalizing" =>
             /\ attempts'[b].id \in DOMAIN log' /\ attempts'[b].id + 1 \in DOMAIN log'
             /\ log'[attempts'[b].id] = Event(attempts'[b].run, "group")
             /\ log'[attempts'[b].id + 1] = Event(attempts'[b].run, "decision")
        BY <2>4, <2>6, <3>2 DEF Grows
    <3> QED BY <3>1, <3>3 DEF FinalizersWrote, Event
  <2>8. InsertersWrote'
      BY <2>1, <2>3, <2>4, <2>6 DEF ServerInv, InsertersWrote, Grows
  <2>9. Written' /\ CurrentExists' /\ runs' = runs /\ current' = current
      BY <1>2, <2>4, WrittenStays DEF Finalize, ServerInv, CurrentExists
  <2> QED BY <2>4, <2>6, <2>7, <2>8, <2>9 DEF ServerInv, ServerTyped, Grows
<1> QED BY <1>1, <1>2

LEMMA CommitFinalizeKeeps ==
    ASSUME ServerInv, TypeOK, LiveViewAssumption, NEW a \in Attempts, CommitFinalize(a)
    PROVE  ServerInv' /\ Grows
<1>0. /\ attempts \in [Attempts -> AttemptRow] /\ log \in Seq(EventRow) /\ visible \subseteq DOMAIN log
      /\ current \in Runs /\ runs \in [Runs -> RunRow]
    BY DEF ServerInv, ServerTyped
<1>1. PICK r \in Runs, id \in Nat : attempts[a].run = r /\ attempts[a].id = id
    BY <1>0 DEF AttemptRow
<1>2. /\ id \in DOMAIN log /\ id + 1 \in DOMAIN log
      /\ log[id] = Event(r, "group") /\ log[id + 1] = Event(r, "decision")
    BY <1>1 DEF CommitFinalize, ServerInv, FinalizersWrote
<1>3. visible' = visible \cup {id, id + 1} /\ log' = log /\ current' = current
    BY <1>1 DEF CommitFinalize
<1>4. Grows
    BY <1>0, <1>2, <1>3 DEF Grows
<1>5. /\ attempts' \in [Attempts -> AttemptRow]
      /\ attempts'[a].step = "done" /\ attempts'[a].id = 0
      /\ \A b \in Attempts \ {a} : attempts'[b] = attempts[b]
    BY <1>0, StopIsTyped DEF CommitFinalize
<1>6. /\ runs' \in [Runs -> RunRow] /\ runs'[r].state = "COMPLETED"
      /\ \A q \in Runs \ {r} : runs'[q] = runs[q]
  <2>1. "COMPLETED" \in RunStates
      BY DEF RunStates
  <2> QED BY <1>0, <1>1, <2>1, StateIsTyped DEF CommitFinalize
<1>7. FinalizersWrote' /\ InsertersWrote'
    BY <1>4, <1>5, LogPart
<1>8. Written'
  <2>1. WrittenFor(r)'
      BY <1>2, <1>3 DEF WrittenFor, Event
  <2>2. \A q \in Runs \ {r} : runs'[q].state = "COMPLETED" => WrittenFor(q)
      BY <1>6 DEF ServerInv, Written
  <2>3. \A q \in Runs \ {r} : runs'[q].state = "COMPLETED" => WrittenFor(q)'
      BY <1>4, <2>2, WrittenForStays
  <2> QED BY <2>1, <2>3 DEF Written
<1>9. CurrentExists'
    BY <1>0, <1>3, <1>6 DEF CurrentExists, ServerInv
<1> QED BY <1>3, <1>4, <1>5, <1>6, <1>7, <1>8, <1>9 DEF ServerInv, ServerTyped, Grows

LEMMA FailKeeps ==
    ASSUME ServerInv, TypeOK, LiveViewAssumption, NEW a \in Attempts, Fail(a)
    PROVE  ServerInv' /\ Grows
<1>0. /\ attempts \in [Attempts -> AttemptRow] /\ current \in Runs /\ runs \in [Runs -> RunRow]
    BY DEF ServerInv, ServerTyped
<1>1. /\ attempts' \in [Attempts -> AttemptRow]
      /\ attempts'[a].step = "done" /\ attempts'[a].id = 0
      /\ \A b \in Attempts \ {a} : attempts'[b] = attempts[b]
    BY <1>0, StopIsTyped DEF Fail
<1>2. CASE ~Holds(a)
  <2>1. Grows
      BY <1>2, NothingGrows DEF Fail
  <2> QED BY <1>1, <1>2, <2>1, QuietStepKeeps DEF Fail
<1>3. CASE Holds(a)
  <2>1. PICK r \in Runs : attempts[a].run = r
      BY <1>0 DEF AttemptRow
  <2>2. PICK stage \in {"recovery", "processing"} :
           /\ runs' = [runs EXCEPT ![r].state = IF stage = "recovery" THEN "QUEUED" ELSE "FAILED"]
           /\ WriteAtOnce(r, stage)
      BY <1>3, <2>1 DEF Fail
  <2>3. Grows
      BY <2>2, WriteGrows DEF Stages
  <2>4. PICK s \in {"QUEUED", "FAILED"} : runs' = [runs EXCEPT ![r].state = s]
      BY <2>2
  <2>5. /\ runs' \in [Runs -> RunRow] /\ runs'[r].state = s
        /\ \A q \in Runs \ {r} : runs'[q] = runs[q]
    <3>1. s \in RunStates
        BY DEF RunStates
    <3> QED BY <1>0, <2>4, <3>1, StateIsTyped
  <2>6. FinalizersWrote' /\ InsertersWrote'
      BY <1>1, <2>3, LogPart
  <2>7. Written'
      BY <2>3, <2>5, WrittenStays
  <2>8. CurrentExists' /\ current' = current
      BY <1>0, <2>5 DEF Fail, CurrentExists, ServerInv
  <2> QED BY <1>1, <2>3, <2>5, <2>6, <2>7, <2>8 DEF ServerInv, ServerTyped, Grows
<1> QED BY <1>2, <1>3

LEMMA NewRunKeeps ==
    ASSUME ServerInv, TypeOK, LiveViewAssumption, NEW here \in BOOLEAN, NewRun(here)
    PROVE  ServerInv' /\ Grows
<1>0. current \in Runs /\ current + 1 \in Runs /\ runs \in [Runs -> RunRow]
    BY LiveViewAssumption DEF ServerInv, ServerTyped, NewRun, Runs
<1>1. Grows
    BY <1>0, WriteGrows DEF NewRun, Stages
<1>2. PICK n \in Nat : runs' = [runs EXCEPT ![current + 1] =
                          [state |-> "QUEUED", tries |-> 0, holder |-> 0, revision |-> n]]
  <2>1. runs[current].revision \in Nat
      BY <1>0 DEF RunRow
  <2>2. runs[current].revision + 1 \in Nat
      BY <2>1
  <2>3. CASE runs[current].state = "COMPLETED"
      BY <2>2, <2>3 DEF NewRun
  <2>4. CASE runs[current].state # "COMPLETED"
      BY <2>1, <2>4 DEF NewRun
  <2> QED BY <2>3, <2>4
<1>3. [state |-> "QUEUED", tries |-> 0, holder |-> 0, revision |-> n] \in RunRow
    BY DEF RunRow, RunStates
<1>4. /\ runs' \in [Runs -> RunRow] /\ runs'[current + 1].state = "QUEUED"
      /\ \A q \in Runs \ {current + 1} : runs'[q] = runs[q]
    BY <1>0, <1>2, <1>3
<1>5. FinalizersWrote' /\ InsertersWrote' /\ attempts' = attempts
    BY <1>1, LogPartStays DEF NewRun
<1>6. Written'
    BY <1>1, <1>4, WrittenStays
<1>7. CurrentExists' /\ current' = current + 1
    BY <1>4 DEF NewRun, CurrentExists
<1> QED BY <1>0, <1>1, <1>4, <1>5, <1>6, <1>7 DEF ServerInv, ServerTyped, Grows

-----------------------------------------------------------------------------
(* The page's actions leave the server alone. *)
LEMMA ServerStays == ASSUME ServerInv, UNCHANGED server PROVE ServerInv'
BY DEF ServerInv, ServerTyped, FinalizersWrote, InsertersWrote, Written, WrittenFor, CurrentExists, server, Event

LEMMA SnapshotIsComplete ==
    ASSUME ServerInv
    PROVE  IsDetail(Detail) /\ (Detail.state = "COMPLETED" => Complete(Detail))
<1>1. runs[current].state \in Watched \cup Ended
  <2>1. runs[current].state \in RunStates
      BY DEF ServerInv, ServerTyped, RunRow
  <2> QED BY <2>1 DEF ServerInv, CurrentExists, RunStates, Watched, Ended
<1>2. DOMAIN Events = visible
    BY DEF Events
<1>3. IsDetail(Detail)
    BY <1>1, <1>2 DEF IsDetail, Detail, ServerInv, ServerTyped
<1>4. Detail.state = "COMPLETED" => Complete(Detail)
    BY <1>2 DEF Detail, Complete, ServerInv, ServerTyped, Written, WrittenFor
<1> QED BY <1>3, <1>4

LEMMA CompleteHolds ==
    ASSUME UNCHANGED server, NEW v, Complete(v) PROVE Complete(v)'
BY DEF Complete, Event, server

LEMMA AskKeeps ==
    ASSUME ServerInv, PageInv, TypeOK, Poll \/ Refocus \/ Lose PROVE PageInv'
<1>1. UNCHANGED server /\ view' = view /\ stream' = stream
    BY DEF Poll, Refocus, Lose
<1>2. fetch' \in {[step |-> "asked"], [step |-> "none"]}
    BY DEF Poll, Refocus, Lose
<1>3. PageIsTyped' /\ EndedViewIsComplete'
    BY <1>1, CompleteHolds DEF PageInv, PageIsTyped, IsDetail, EndedViewIsComplete, server
<1>4. AnswerIsComplete' /\ fetch'.step \in {"none", "asked", "answered"}
    BY <1>2 DEF AnswerIsComplete
<1> QED BY <1>1, <1>3, <1>4 DEF PageInv, Active, server

LEMMA AnswerKeeps ==
    ASSUME ServerInv, PageInv, TypeOK, Answer PROVE PageInv'
<1>1. UNCHANGED server /\ view' = view /\ stream' = stream
    BY DEF Answer
<1>2. fetch'.step = "answered" /\ fetch'.detail = Detail
    BY DEF Answer
<1>3. PageIsTyped' /\ EndedViewIsComplete'
    BY <1>1, CompleteHolds DEF PageInv, PageIsTyped, IsDetail, EndedViewIsComplete, server
<1>4. AnswerIsComplete'
  <2>1. IsDetail(Detail) /\ (Detail.state = "COMPLETED" => Complete(Detail))
      BY SnapshotIsComplete
  <2>2. visible' = visible /\ log' = log
      BY <1>1 DEF server
  <2>3. AnswerIsComplete' <=>
           (fetch'.step = "answered" =>
               /\ IsDetail(fetch.detail)'
               /\ fetch'.detail.state = "COMPLETED" => Complete(fetch.detail)')
      BY DEF AnswerIsComplete
  <2>4. IsDetail(fetch.detail)'
      BY <1>2, <2>1, <2>2 DEF IsDetail
  <2>5. fetch'.detail.state = "COMPLETED" => Complete(fetch.detail)'
      BY <1>2, <2>1, <2>2 DEF Complete, Event
  <2> QED BY <2>3, <2>4, <2>5
<1> QED BY <1>1, <1>2, <1>3, <1>4 DEF PageInv, Active, server

LEMMA ArriveKeeps ==
    ASSUME ServerInv, PageInv, TypeOK, Arrive PROVE PageInv'
<1>1. UNCHANGED server /\ visible' = visible /\ log' = log /\ view' = fetch.detail /\ fetch' = [step |-> "none"]
    BY DEF Arrive, server
<1>2. IsDetail(fetch.detail) /\ (fetch.detail.state = "COMPLETED" => Complete(fetch.detail))
    BY DEF Arrive, PageInv, AnswerIsComplete
<1>3. stream'.open <=> Active(view')
    BY <1>1 DEF Arrive, Follow, PageInv, Active
<1>4. stream' = [open |-> stream'.open, cursor |-> stream'.cursor]
    BY <1>1 DEF Arrive, Follow, PageInv, PageIsTyped
<1>5. IsDetail(view)' /\ EndedViewIsComplete'
    BY <1>1, <1>2 DEF IsDetail, EndedViewIsComplete, Complete, Event
<1>6. AnswerIsComplete'
    BY <1>1 DEF AnswerIsComplete
<1> QED BY <1>1, <1>3, <1>4, <1>5, <1>6 DEF PageInv, PageIsTyped, IsDetail

LEMMA DeliverKeeps ==
    ASSUME ServerInv, PageInv, TypeOK, Deliver PROVE PageInv'
<1>1. UNCHANGED server /\ visible' = visible /\ log' = log
    BY DEF Deliver, server
<1>2. PICK id \in visible :
          /\ stream' = [stream EXCEPT !.cursor = id]
          /\ view' = IF log[id].run = view.run
                     THEN [view EXCEPT !.events = Merged(view.events, id)] ELSE view
          /\ fetch' = IF log[id].run # view.run \/ log[id].stage \in Settles
                      THEN [step |-> "asked"] ELSE fetch
    BY DEF Deliver
<1>3. stream'.open = stream.open /\ stream' = [open |-> stream'.open, cursor |-> stream'.cursor]
  <2>1. stream = [open |-> stream.open, cursor |-> stream.cursor]
      BY DEF PageInv, PageIsTyped
  <2> QED BY <1>2, <2>1
<1>4. /\ view' = [run |-> view'.run, state |-> view'.state, decided |-> view'.decided, events |-> view'.events]
      /\ view'.run = view.run /\ view'.state = view.state /\ view'.decided = view.decided
      /\ DOMAIN view.events \subseteq DOMAIN view'.events
      /\ DOMAIN view'.events \subseteq DOMAIN view.events \cup {id}
  <2>1. view = [run |-> view.run, state |-> view.state, decided |-> view.decided, events |-> view.events]
      BY DEF PageInv, PageIsTyped, IsDetail
  <2>2. CASE log[id].run # view.run
      BY <1>2, <2>1, <2>2
  <2>3. CASE log[id].run = view.run
    <3>1. DOMAIN Merged(view.events, id) = DOMAIN view.events \cup {id}
        BY DEF Merged
    <3>2. view' = [view EXCEPT !.events = Merged(view.events, id)]
        BY <1>2, <2>3
    <3> HIDE DEF Merged
    <3>3. view' = [run |-> view.run, state |-> view.state, decided |-> view.decided,
                   events |-> Merged(view.events, id)]
        BY <2>1, <3>2
    <3> QED BY <3>1, <3>3
  <2> QED BY <2>2, <2>3
<1>5. IsDetail(view)'
    BY <1>1, <1>4 DEF IsDetail, PageInv
<1>6. EndedViewIsComplete'
    BY <1>1, <1>4 DEF EndedViewIsComplete, PageInv, Complete, Event
<1>7. AnswerIsComplete' /\ fetch'.step \in {"none", "asked", "answered"}
  <2>1. CASE fetch' = [step |-> "asked"]
      BY <2>1 DEF AnswerIsComplete
  <2>2. CASE fetch' = fetch
      BY <1>1, <2>2 DEF AnswerIsComplete, PageInv, IsDetail, Complete, Event
  <2> QED BY <1>2, <2>1, <2>2
<1>8. stream'.open <=> Active(view')
    BY <1>3, <1>4 DEF PageInv, Active
<1> QED BY <1>3, <1>5, <1>7, <1>6, <1>8 DEF PageInv, PageIsTyped, IsDetail

-----------------------------------------------------------------------------
LEMMA LiveInvInitially == LiveViewAssumption /\ Init => LiveInv
<1> SUFFICES ASSUME LiveViewAssumption, Init PROVE LiveInv
    OBVIOUS
<1>1. 1 \in Runs
    BY DEF LiveViewAssumption, Runs
<1>2. ServerTyped
  <2>1. [r \in Runs |-> [state |-> IF r = 1 THEN "QUEUED" ELSE "none",
                         tries |-> 0, holder |-> 0, revision |-> 1]] \in [Runs -> RunRow]
      BY DEF RunRow, RunStates
  <2>2. Blank("unborn") \in AttemptRow
      BY <1>1 DEF Blank, AttemptRow, Steps
  <2>3. runs \in [Runs -> RunRow] /\ attempts \in [Attempts -> AttemptRow]
      BY <2>1, <2>2 DEF Init
  <2>4. log \in Seq(EventRow) /\ visible \subseteq DOMAIN log
      BY DEF Init
  <2> QED BY <1>1, <2>3, <2>4 DEF Init, ServerTyped
<1>3. FinalizersWrote /\ InsertersWrote
    BY DEF Init, Blank, FinalizersWrote, InsertersWrote
<1>4. Written /\ CurrentExists
    BY <1>1 DEF Init, Written, CurrentExists
<1>5. PageInv
  <2>1. IsDetail(view)
    <3>1. DOMAIN view.events = {}
        BY DEF Init
    <3> QED BY <1>1, <3>1 DEF Init, IsDetail, Watched
  <2> QED BY <2>1 DEF Init, PageInv, PageIsTyped, IsDetail, AnswerIsComplete, EndedViewIsComplete, Active, Watched
<1> QED BY <1>2, <1>3, <1>4, <1>5, TwoParts DEF ServerInv

LEMMA LiveInvPreserved == LiveViewAssumption /\ LiveInv /\ [Next]_vars => LiveInv'
<1> SUFFICES ASSUME LiveViewAssumption, LiveInv, [Next]_vars PROVE LiveInv'
    OBVIOUS
<1>1. ServerInv /\ PageInv /\ TypeOK
    BY TwoParts DEF LiveInv
<1>2. ASSUME NEW a \in Attempts,
             \/ Claim(a) \/ Disabled(a) \/ Look(a) \/ Insert(a) \/ CommitEmit(a)
             \/ Finalize(a) \/ CommitFinalize(a) \/ Fail(a) \/ Crash(a)
      PROVE  ServerInv' /\ PageInv'
  <2>1. ServerInv' /\ Grows
      BY <1>1, <1>2, ClaimKeeps, EmitKeeps, FinalizeKeeps, CommitFinalizeKeeps, FailKeeps
  <2>2. view' = view /\ stream' = stream /\ fetch' = fetch
      BY <1>2 DEF client, Claim, Disabled, Look, Insert, CommitEmit, Finalize, CommitFinalize, Fail, Crash
  <2> QED BY <1>1, <2>1, <2>2, PageStays
<1>3. ASSUME GiveUp PROVE ServerInv' /\ PageInv'
  <2>1. view' = view /\ stream' = stream /\ fetch' = fetch
      BY <1>3 DEF client, GiveUp
  <2> QED BY <1>1, <1>3, <2>1, GiveUpKeeps, PageStays
<1>4. ASSUME NEW here \in BOOLEAN, NewRun(here) PROVE ServerInv' /\ PageInv'
  <2>1. view' = view /\ stream' = stream /\ (fetch' = fetch \/ fetch' = [step |-> "asked"])
      BY <1>4 DEF NewRun
  <2> QED BY <1>1, <1>4, <2>1, NewRunKeeps, PageStays
<1>5. ASSUME Poll \/ Refocus \/ Answer \/ Arrive \/ Lose \/ Deliver PROVE ServerInv' /\ PageInv'
  <2>1. UNCHANGED server
      BY <1>5 DEF Poll, Refocus, Answer, Arrive, Lose, Deliver
  <2> QED BY <1>1, <1>5, <2>1, ServerStays, AskKeeps, AnswerKeeps, ArriveKeeps, DeliverKeeps
<1>6. ASSUME UNCHANGED vars PROVE ServerInv' /\ PageInv'
  <2>1. UNCHANGED server /\ view' = view /\ stream' = stream /\ fetch' = fetch
      BY <1>6 DEF vars, client
  <2>2. Grows
      BY <1>1, <2>1, NothingGrows DEF server
  <2> QED BY <1>1, <2>1, <2>2, ServerStays, PageStays
<1>7. ServerInv' /\ PageInv'
    BY <1>2, <1>3, <1>4, <1>5, <1>6 DEF Next
<1>8. ServerInv' /\ PageInv' => LiveInv'
    BY DEF LiveInv, ServerInv, ServerTyped, PageInv, TypeOK
<1> QED BY <1>7, <1>8

LEMMA LiveInvHolds == Spec => []LiveInv
<1>1. LiveViewAssumption
    BY LiveViewAssumption
<1> QED BY <1>1, LiveInvInitially, LiveInvPreserved, PTL DEF Spec

(* Rows keep their types, and the page listens exactly while the run it    *)
(* shows is active (use-live-run.ts:31).                                   *)
THEOREM LiveViewIsTyped == Spec => []TypeOK
<1>1. LiveInv => TypeOK
    BY DEF LiveInv
<1> QED BY <1>1, LiveInvHolds, PTL

(* A page that shows a run as completed holds its decision and every       *)
(* result finalize wrote (pipeline.py:297, auth.py:21).                    *)
THEOREM EndedViewsAreComplete == Spec => []EndedViewIsComplete
<1>1. LiveInv => EndedViewIsComplete
    BY DEF LiveInv
<1> QED BY <1>1, LiveInvHolds, PTL
=============================================================================
