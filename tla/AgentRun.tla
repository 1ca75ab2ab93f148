------------------------------ MODULE AgentRun ------------------------------
(***************************************************************************)
(* One AgentRun row of the Spotlight agent and everything that acts on it: *)
(* the /ask/ request that created it, the /decide/ requests that resume    *)
(* it, the worker thread and the response stream each of them starts, the  *)
(* reaper cron and the delete of the conversation.                         *)
(*                                                                         *)
(* A leg is one streamed request: the ask, or a decide that won the        *)
(* approval.  Its worker thread (the controller loop) and its stream (the  *)
(* generator Django iterates) meet only in the event queue.  A write tool  *)
(* never runs in the loop: the loop stores a pending AgentStep, emits the  *)
(* approval card and returns, and the stream then parks the run.           *)
(*                                                                         *)
(* The p-th write call proposed in the run is step row p, and p stands for *)
(* the uuid4 approval token of that card too; 0 is NULL.                   *)
(***************************************************************************)
EXTENDS Integers, Sequences, FiniteSets

CONSTANTS
    Ask,            \* the leg of the POST /ask/ that created the run
    Decides,        \* the POST /decide/ requests
    MaxProposals,   \* bound: write calls the model proposes in this run
    MaxTurns,       \* bound: loop steps of one leg (the hard step cap)
    MaxFaults       \* bound: best-effort writes the database loses

ASSUME AskAssumption == Ask \notin Decides
ASSUME BoundsAssumption ==
    /\ MaxProposals \in Nat
    /\ MaxTurns \in Nat
    /\ MaxFaults \in Nat

Legs  == Decides \cup {Ask}
Cards == 1..MaxProposals

VARIABLES
    run,        \* the AgentRun row
    rows,       \* card -> its AgentStep row
    answer,     \* card -> what the winning /decide/ said of it (history)
    ran,        \* card -> how often its tool executed (history)
    proposals,  \* write calls proposed so far
    offered,    \* cards whose token a client holds
    charged,    \* the ask was counted against the quota
    faults,     \* best-effort writes lost so far
    stream,     \* leg -> state of its request / response generator
    worker,     \* leg -> program point of its worker thread
    decision,   \* decide -> "approve" or "reject"
    claim,      \* decide -> the token it presents
    target,     \* decide -> the step row it found pending
    queue,      \* leg -> events put by the worker, not yet yielded
    outcome,    \* leg -> final_status of its stream
    paused,     \* leg -> token of its pause descriptor
    cancelled,  \* leg -> the client disconnected (cancel_event)
    turns       \* leg -> loop steps taken

rowVars    == <<run, rows, answer, ran, proposals, offered, charged, faults>>
streamVars == <<stream, decision, claim, queue, outcome, cancelled>>
workerVars == <<worker, target, paused, turns>>
vars       == <<rowVars, streamVars, workerVars>>

Terminal  == {"done", "error", "step_cap", "cancelled", "rejected"}
Statuses  == Terminal \cup {"running", "awaiting_approval", "deleted"}
RowStates == {"absent", "pending", "failed", "ok"}
Streams   == {"idle", "checked", "open", "closing", "closed", "lost", "dead"}
Workers   == {"idle", "resume", "act", "save", "loop", "calling", "ended"}
Events    ==
    [type : {"work", "done", "error", "step_cap", "end"}, card : {0}]
        \cup [type : {"pending"}, card : Cards]

TypeOK ==
    /\ run \in [status : Statuses, token : 0..MaxProposals,
                finished : BOOLEAN, old : BOOLEAN]
    /\ rows \in [Cards -> RowStates]
    /\ answer \in [Cards -> {"none", "approve", "reject"}]
    /\ ran \in [Cards -> Nat]
    /\ proposals \in 0..MaxProposals
    /\ offered \subseteq Cards
    /\ charged \in BOOLEAN
    /\ faults \in 0..MaxFaults
    /\ stream \in [Legs -> Streams]
    /\ worker \in [Legs -> Workers]
    /\ decision \in [Legs -> {"none", "approve", "reject"}]
    /\ claim \in [Legs -> 0..MaxProposals]
    /\ target \in [Legs -> 0..MaxProposals]
    /\ queue \in [Legs -> Seq(Events)]
    /\ outcome \in [Legs -> {"none", "done", "error", "step_cap"}]
    /\ paused \in [Legs -> 0..MaxProposals]
    /\ cancelled \in [Legs -> BOOLEAN]
    /\ turns \in [Legs -> 0..MaxTurns]

-----------------------------------------------------------------------------
\* The ask created the row `running` and its stream has started the worker.
Init ==
    /\ run = [status |-> "running", token |-> 0,
              finished |-> FALSE, old |-> FALSE]
    /\ rows = [c \in Cards |-> "absent"]
    /\ answer = [c \in Cards |-> "none"]
    /\ ran = [c \in Cards |-> 0]
    /\ proposals = 0
    /\ offered = {}
    /\ charged = FALSE
    /\ faults = 0
    /\ stream = [l \in Legs |-> IF l = Ask THEN "open" ELSE "idle"]
    /\ worker = [l \in Legs |-> IF l = Ask THEN "loop" ELSE "idle"]
    /\ decision = [l \in Legs |-> "none"]
    /\ claim = [l \in Legs |-> 0]
    /\ target = [l \in Legs |-> 0]
    /\ queue = [l \in Legs |-> <<>>]
    /\ outcome = [l \in Legs |-> "none"]
    /\ paused = [l \in Legs |-> 0]
    /\ cancelled = [l \in Legs |-> FALSE]
    /\ turns = [l \in Legs |-> 0]

Exists == run.status # "deleted"

\* Slip: the first row still marked as pending instead of the last.
FirstPendingStep(c) ==
    /\ rows[c] = "pending"
    /\ \A d \in Cards : rows[d] = "pending" => c <= d

\* The step resume_agent picks: the last row still marked as pending.
PendingStep(c) ==
    /\ rows[c] = "pending"
    /\ \A d \in Cards : rows[d] = "pending" => d <= c

Event(type) == [type |-> type, card |-> 0]

\* A put on a queue nobody reads any more is without effect.
Emit(l, events) ==
    queue' = IF stream[l] = "open"
             THEN [queue EXCEPT ![l] = @ \o events] ELSE queue

\* A best-effort write of one step row: it happens, or it is lost and
\* swallowed.  On a run that was deleted the row is gone and the write fails.
WriteRow(c, state) ==
    \/ /\ rows' = IF Exists THEN [rows EXCEPT ![c] = state] ELSE rows
       /\ UNCHANGED faults
    \/ /\ Exists
       /\ faults < MaxFaults
       /\ faults' = faults + 1
       /\ UNCHANGED rows

-----------------------------------------------------------------------------
(* POST /decide/.  A request that is refused changes nothing and is left   *)
(* out; the same client may send it again.                                 *)

\* The run is read, and the gate passes on that snapshot.
DecideRead(d, c, verdict) ==
    /\ stream[d] = "idle"
    /\ c \in offered
    /\ run.status = "awaiting_approval"
    /\ run.token = c
    /\ stream' = [stream EXCEPT ![d] = "checked"]
    /\ claim' = [claim EXCEPT ![d] = c]
    /\ decision' = [decision EXCEPT ![d] = verdict]
    /\ UNCHANGED <<rowVars, queue, outcome, cancelled, workerVars>>

\* Slip: the row is updated by run_id alone, after the check on the snapshot.
DecideConsumeBlind(d) ==
    /\ stream[d] = "checked"
    /\ run' = [run EXCEPT !.status = "running", !.token = 0]
    /\ answer' = [answer EXCEPT ![claim[d]] = decision[d]]
    /\ stream' = [stream EXCEPT ![d] = "open"]
    /\ worker' = [worker EXCEPT ![d] = "resume"]
    /\ UNCHANGED <<rows, ran, proposals, offered, charged, faults, decision,
                   claim, queue, outcome, cancelled, target, paused, turns>>

\* Slip: the status moves on and the token stays.
DecideConsumeKeepsToken(d) ==
    /\ stream[d] = "checked"
    /\ IF run.status = "awaiting_approval" /\ run.token = claim[d]
       THEN /\ run' = [run EXCEPT !.status = "running"]
            /\ answer' = [answer EXCEPT ![claim[d]] = decision[d]]
            /\ stream' = [stream EXCEPT ![d] = "open"]
            /\ worker' = [worker EXCEPT ![d] = "resume"]
       ELSE /\ stream' = [stream EXCEPT ![d] = "lost"]
            /\ UNCHANGED <<run, answer, worker>>
    /\ UNCHANGED <<rows, ran, proposals, offered, charged, faults, decision,
                   claim, queue, outcome, cancelled, target, paused, turns>>

\* The compare-and-swap on (status, token).  The winner becomes a leg; the
\* loser is answered with the row's current state.
DecideConsume(d) ==
    /\ stream[d] = "checked"
    /\ IF run.status = "awaiting_approval" /\ run.token = claim[d]
       THEN /\ run' = [run EXCEPT !.status = "running", !.token = 0]
            /\ answer' = [answer EXCEPT ![claim[d]] = decision[d]]
            /\ stream' = [stream EXCEPT ![d] = "open"]
            /\ worker' = [worker EXCEPT ![d] = "resume"]
       ELSE /\ stream' = [stream EXCEPT ![d] = "lost"]
            /\ UNCHANGED <<run, answer, worker>>
    /\ UNCHANGED <<rows, ran, proposals, offered, charged, faults, decision,
                   claim, queue, outcome, cancelled, target, paused, turns>>

\* The transaction fails and rolls back: nothing was consumed, 503.
DecideFails(d) ==
    /\ stream[d] = "checked"
    /\ stream' = [stream EXCEPT ![d] = "idle"]
    /\ decision' = [decision EXCEPT ![d] = "none"]
    /\ claim' = [claim EXCEPT ![d] = 0]
    /\ UNCHANGED <<rowVars, queue, outcome, cancelled, workerVars>>

-----------------------------------------------------------------------------
(* The worker thread of a resumed leg, up to the continuation of the loop. *)

\* resume_agent rebuilds the transcript and finds the step it resumes on.
Rebuild(l) ==
    /\ worker[l] = "resume"
    /\ \E c \in Cards :
          /\ PendingStep(c)
          /\ target' = [target EXCEPT ![l] = c]
    /\ Emit(l, <<Event("work")>>)
    /\ worker' = [worker EXCEPT ![l] = "act"]
    /\ UNCHANGED <<rowVars, stream, decision, claim, outcome, cancelled,
                   paused, turns>>

\* No row is pending: its insert was lost, or the run was deleted.
NothingToResume(l) ==
    /\ worker[l] = "resume"
    /\ \A c \in Cards : rows[c] # "pending"
    /\ Emit(l, <<Event("error"), Event("end")>>)
    /\ worker' = [worker EXCEPT ![l] = "ended"]
    /\ UNCHANGED <<rowVars, stream, decision, claim, outcome, cancelled,
                   target, paused, turns>>

\* Slip: the step is not saved on these paths.
SettleWithoutSaving(l) ==
    /\ worker[l] = "act"
    /\ worker' = [worker EXCEPT ![l] = "loop"]
    /\ UNCHANGED <<rowVars, streamVars, target, paused, turns>>

\* A rejection, a tool switched off since the ask, or a tool that refuses or
\* crashes: the row is closed with an error and no tool has written.
SettleWithoutRunning(l) ==
    /\ worker[l] = "act"
    /\ WriteRow(target[l], "failed")
    /\ worker' = [worker EXCEPT ![l] = "loop"]
    /\ UNCHANGED <<run, answer, ran, proposals, offered, charged, streamVars,
                   target, paused, turns>>

\* The approved tool executes: its own transaction commits.
RunTool(l) ==
    /\ worker[l] = "act"
    /\ decision[l] = "approve"
    /\ ran' = [ran EXCEPT ![target[l]] = @ + 1]
    /\ worker' = [worker EXCEPT ![l] = "save"]
    /\ UNCHANGED <<run, rows, answer, proposals, offered, charged, faults,
                   streamVars, target, paused, turns>>

\* The result is stored on the row, after the tool has committed.
SaveResult(l) ==
    /\ worker[l] = "save"
    /\ WriteRow(target[l], "ok")
    /\ worker' = [worker EXCEPT ![l] = "loop"]
    /\ UNCHANGED <<run, answer, ran, proposals, offered, charged, streamVars,
                   target, paused, turns>>

-----------------------------------------------------------------------------
(* The controller loop: one model call per turn, cancellation asked for    *)
(* before each.                                                            *)

EndWorker(l, events) ==
    /\ Emit(l, Append(events, Event("end")))
    /\ worker' = [worker EXCEPT ![l] = "ended"]

\* The cancel check at the top of the loop: return without another event.
StopCancelled(l) ==
    /\ worker[l] = "loop"
    /\ cancelled[l]
    /\ EndWorker(l, <<>>)
    /\ UNCHANGED <<rowVars, stream, decision, claim, outcome, cancelled,
                   target, paused, turns>>

CallModel(l) ==
    /\ worker[l] = "loop"
    /\ ~cancelled[l]
    /\ turns[l] < MaxTurns
    /\ turns' = [turns EXCEPT ![l] = @ + 1]
    /\ worker' = [worker EXCEPT ![l] = "calling"]
    /\ UNCHANGED <<rowVars, streamVars, target, paused>>

\* A turn of read tools: their events, and back to the loop.
ReadTurn(l) ==
    /\ worker[l] = "calling"
    /\ Emit(l, <<Event("work")>>)
    /\ worker' = [worker EXCEPT ![l] = "loop"]
    /\ UNCHANGED <<rowVars, stream, decision, claim, outcome, cancelled,
                   target, paused, turns>>

\* A write call: the pending row is stored if the database allows, the card
\* is emitted with a fresh token either way, and the loop returns paused.
Propose(l) ==
    /\ worker[l] = "calling"
    /\ proposals < MaxProposals
    /\ proposals' = proposals + 1
    /\ WriteRow(proposals', "pending")
    /\ paused' = [paused EXCEPT ![l] = proposals']
    /\ EndWorker(l, <<[type |-> "pending", card |-> proposals']>>)
    /\ UNCHANGED <<run, answer, ran, offered, charged, stream, decision, claim,
                   outcome, cancelled, target, turns>>

\* The model answers, or the call fails, is refused or comes back empty.
Answer(l) ==
    /\ worker[l] = "calling"
    /\ \/ EndWorker(l, <<Event("work"), Event("done")>>)
       \/ EndWorker(l, <<Event("error")>>)
    /\ UNCHANGED <<rowVars, stream, decision, claim, outcome, cancelled,
                   target, paused, turns>>

\* Out of steps (or of money, or of new work): one wrap-up answer, or an
\* error.  A client that left gets no wrap-up call.
WrapUp(l) ==
    /\ worker[l] = "loop"
    /\ \/ ~cancelled[l] /\ EndWorker(l, <<Event("work"), Event("done")>>)
       \/ EndWorker(l, <<Event("step_cap")>>)
       \/ ~cancelled[l] /\ EndWorker(l, <<Event("error")>>)
    /\ UNCHANGED <<rowVars, stream, decision, claim, outcome, cancelled,
                   target, paused, turns>>

-----------------------------------------------------------------------------
(* The response stream: yields the events and then closes the run.         *)

\* Slip: only text counts against the quota.
StreamEventChargesText(l, gone) ==
    LET event == Head(queue[l]) IN
    /\ stream[l] = "open"
    /\ queue[l] # <<>>
    /\ event.type # "end"
    /\ charged' = (charged \/ (l = Ask /\ event.type = "work"))
    /\ outcome' = [outcome EXCEPT ![l] =
                     IF event.type \in {"done", "error", "step_cap"}
                     THEN event.type ELSE @]
    /\ offered' = IF event.type = "pending"
                  THEN offered \cup {event.card} ELSE offered
    /\ IF gone
       THEN /\ cancelled' = [cancelled EXCEPT ![l] = TRUE]
            /\ stream' = [stream EXCEPT ![l] = "closing"]
            /\ queue' = [queue EXCEPT ![l] = <<>>]
       ELSE /\ queue' = [queue EXCEPT ![l] = Tail(@)]
            /\ UNCHANGED <<cancelled, stream>>
    /\ UNCHANGED <<run, rows, answer, ran, proposals, faults, decision, claim,
                   workerVars>>

\* One event is taken from the queue, counted and yielded.  A client that
\* has gone is noticed at the yield, and only there.
StreamEvent(l, gone) ==
    LET event == Head(queue[l]) IN
    /\ stream[l] = "open"
    /\ queue[l] # <<>>
    /\ event.type # "end"
    /\ charged' = (charged \/ (l = Ask /\ event.type \in {"work", "pending"}))
    /\ outcome' = [outcome EXCEPT ![l] =
                     IF event.type \in {"done", "error", "step_cap"}
                     THEN event.type ELSE @]
    /\ offered' = IF event.type = "pending"
                  THEN offered \cup {event.card} ELSE offered
    /\ IF gone
       THEN /\ cancelled' = [cancelled EXCEPT ![l] = TRUE]
            /\ stream' = [stream EXCEPT ![l] = "closing"]
            /\ queue' = [queue EXCEPT ![l] = <<>>]
       ELSE /\ queue' = [queue EXCEPT ![l] = Tail(@)]
            /\ UNCHANGED <<cancelled, stream>>
    /\ UNCHANGED <<run, rows, answer, ran, proposals, faults, decision, claim,
                   workerVars>>

\* The worker's sentinel ends the loop of the generator.
StreamEnds(l) ==
    /\ stream[l] = "open"
    /\ queue[l] # <<>>
    /\ Head(queue[l]).type = "end"
    /\ stream' = [stream EXCEPT ![l] = "closing"]
    /\ queue' = [queue EXCEPT ![l] = <<>>]
    /\ UNCHANGED <<rowVars, decision, claim, outcome, cancelled, workerVars>>

\* What _close_run writes: cancelled beats paused beats the final status.
ClosedRow(l) ==
    IF cancelled[l]
    THEN [run EXCEPT !.status = "cancelled", !.finished = TRUE]
    ELSE IF paused[l] # 0
    THEN [run EXCEPT !.status = "awaiting_approval", !.token = paused[l]]
    ELSE [run EXCEPT !.finished = TRUE,
            !.status = IF outcome[l] # "none" THEN outcome[l]
                       ELSE IF decision[l] = "reject" THEN "rejected"
                       ELSE "error"]

\* The close saves over whatever the row says now.  It is best-effort: on a
\* deleted run or a database failure the row stays as it is.
CloseRun(l) ==
    /\ stream[l] = "closing"
    /\ stream' = [stream EXCEPT ![l] = "closed"]
    /\ \/ /\ run' = IF Exists THEN ClosedRow(l) ELSE run
          /\ UNCHANGED faults
       \/ /\ Exists
          /\ faults < MaxFaults
          /\ faults' = faults + 1
          /\ UNCHANGED run
    /\ UNCHANGED <<rows, answer, ran, proposals, offered, charged, decision,
                   claim, queue, outcome, cancelled, workerVars>>

-----------------------------------------------------------------------------
(* Everything that is not a leg.                                           *)

\* The process of a leg dies (recycle, deploy, OOM): the request and its
\* daemon thread are gone, and nothing closes the run.
Crash(l) ==
    /\ \/ stream[l] \in {"checked", "open", "closing"}
       \/ stream[l] = "closed" /\ worker[l] \notin {"idle", "ended"}
    /\ stream' = [stream EXCEPT ![l] = "dead"]
    /\ worker' = [worker EXCEPT ![l] = "ended"]
    /\ queue' = [queue EXCEPT ![l] = <<>>]
    /\ UNCHANGED <<rowVars, decision, claim, outcome, cancelled, target,
                   paused, turns>>

\* started_at falls behind the stale cutoff.  The first leg is assumed to
\* finish well inside two hours; a resumed leg keeps the old started_at.
Age ==
    /\ ~run.old
    /\ Exists
    /\ stream[Ask] \notin {"open", "closing"}
    /\ run' = [run EXCEPT !.old = TRUE]
    /\ UNCHANGED <<rows, answer, ran, proposals, offered, charged, faults,
                   streamVars, workerVars>>

\* Slip: every running row is reaped, whatever its age.
ReapAnyRunning ==
    /\ run.status = "running"
    /\ run' = [run EXCEPT !.status = "error", !.finished = TRUE]
    /\ UNCHANGED <<rows, answer, ran, proposals, offered, charged, faults,
                   streamVars, workerVars>>

\* Slip: the cron asks for a finished_at.
ReapFinished ==
    /\ run.status = "running"
    /\ run.old
    /\ run.finished
    /\ run' = [run EXCEPT !.status = "error"]
    /\ UNCHANGED <<rows, answer, ran, proposals, offered, charged, faults,
                   streamVars, workerVars>>

\* reap_stale_agent_runs: one UPDATE over the stale running rows.
Reap ==
    /\ run.status = "running"
    /\ run.old
    /\ run' = [run EXCEPT !.status = "error", !.finished = TRUE]
    /\ UNCHANGED <<rows, answer, ran, proposals, offered, charged, faults,
                   streamVars, workerVars>>

InFlight == run.status = "running" /\ ~run.old

\* The conversation is erased with its runs, under a lock on the rows and
\* refused while the run is in flight.
Delete ==
    /\ Exists
    /\ ~InFlight
    /\ run' = [status |-> "deleted", token |-> 0,
               finished |-> TRUE, old |-> run.old]
    /\ rows' = [c \in Cards |-> "absent"]
    /\ UNCHANGED <<answer, ran, proposals, offered, charged, faults,
                   streamVars, workerVars>>

-----------------------------------------------------------------------------
Decide(d) ==
    \/ \E c \in Cards, verdict \in {"approve", "reject"} :
          DecideRead(d, c, verdict)
    \/ DecideConsume(d)
    \/ DecideFails(d)

Work(l) ==
    \/ Rebuild(l) \/ NothingToResume(l)
    \/ SettleWithoutRunning(l) \/ RunTool(l) \/ SaveResult(l)
    \/ StopCancelled(l) \/ CallModel(l) \/ ReadTurn(l) \/ Propose(l)
    \/ Answer(l) \/ WrapUp(l)

Stream(l) ==
    \/ \E gone \in BOOLEAN : StreamEvent(l, gone)
    \/ StreamEnds(l)
    \/ CloseRun(l)

\* Everything has come to rest: the only way the model may stop.
Quiet ==
    /\ \A l \in Legs : /\ stream[l] \in {"idle", "closed", "lost", "dead"}
                       /\ worker[l] \in {"idle", "ended"}
    /\ run.status # "running"
    /\ UNCHANGED vars

Next ==
    \/ \E d \in Decides : Decide(d)
    \/ \E l \in Legs : Work(l) \/ Stream(l) \/ Crash(l)
    \/ Age \/ Reap \/ Delete
    \/ Quiet

Spec == Init /\ [][Next]_vars

\* Threads that can run do run, time passes and the cron comes round.  No
\* client has to answer a card, leave, or delete anything, and nothing crashes.
Fairness ==
    /\ \A l \in Legs : WF_vars(Work(l)) /\ WF_vars(Stream(l))
    /\ \A d \in Decides : WF_vars(DecideConsume(d))
    /\ WF_vars(Age)
    /\ WF_vars(Reap)

FairSpec == Spec /\ Fairness

-----------------------------------------------------------------------------
(* Safety.                                                                 *)

\* The run holds an approval token exactly while it is parked on a card: no
\* close, reaping, retry or late stream leaves a token on a run that moved
\* on, or parks a run that nobody can resume ("the server clears it the
\* moment the run leaves awaiting_approval").
TokenIffAwaiting ==
    (run.token # 0) <=> (run.status = "awaiting_approval")

\* While a run is parked no thread of it is left anywhere, in no process:
\* the delete of a conversation relies on that when it erases a parked run
\* without waiting ("paused with no worker alive").
ParkedRunHasNoWorker ==
    run.status = "awaiting_approval" =>
        \A l \in Legs : /\ worker[l] \in {"idle", "ended"}
                        /\ stream[l] \notin {"open", "closing"}

\* At most one leg of a run streams at any time, whatever decides race,
\* legs die, or the reaper closes under a live leg.
OneOpenLeg ==
    \A l, m \in Legs :
        stream[l] \in {"open", "closing"} /\ stream[m] \in {"open", "closing"}
            => l = m

LegOpen(l) == stream[l] \in {"open", "closing"}
LegLive(l) == worker[l] \notin {"idle", "ended"}

\* The inductive form of the three statements above: a leg that streams is
\* alone, threads included; a decide has no thread before it wins; and the
\* worker that returned a pause descriptor has returned.
LegDiscipline ==
    /\ \A l, m \in Legs : LegOpen(l) /\ (LegOpen(m) \/ LegLive(m)) => l = m
    /\ \A l \in Legs :
          /\ stream[l] \in {"idle", "checked"} => worker[l] = "idle"
          /\ paused[l] # 0 => worker[l] = "ended"
          /\ stream[l] = "checked" => claim[l] \in Cards

\* A resumed leg acts on the step whose card the person answered: the row
\* resume_agent finds pending is the one its token stood for.
ActsOnAnsweredStep ==
    \A d \in Decides : worker[d] \in {"act", "save"} => target[d] = claim[d]

\* An ask that got something back counts against the quota, a run that
\* pauses on its first write call included (_charge_once has three triggers
\* for that reason).
ServedRunIsCharged ==
    run.status \in {"done", "awaiting_approval"} => charged

-----------------------------------------------------------------------------
(* Action properties.                                                      *)

\* A closed run stays closed, but for one known edge: the reaper closed a
\* leg that was alive (resumed after the stale threshold), and that leg's own
\* close writes over the reaper's error.  An erased run stays erased, whatever
\* stream still closes and whatever worker still saves its steps.
TerminalIsFinal ==
    [][ /\ run.status \in Terminal =>
              \/ run'.status \in {run.status, "deleted"}
              \/ run.status = "error" /\ run.old
                 /\ \E d \in Decides : stream[d] = "closing"
        /\ run.status = "deleted" =>
              run'.status = "deleted" /\ \A c \in Cards : rows'[c] = "absent" ]_vars

\* The run does what the approval flow promises.
Gate == INSTANCE ApprovalGate WITH
            MaxCards <- MaxProposals, open <- run.token,
            verdicts <- answer, executions <- ran

ImplementsGate == Gate!GateSpec

-----------------------------------------------------------------------------
(* Liveness.                                                               *)

\* No run streams for ever: whatever dies, and whichever close is lost, the
\* run is closed, parked or erased in the end.
RunningEnds == run.status = "running" ~> run.status # "running"

\* An approved or rejected card is settled: its step row says what became of
\* it, unless the process of the leg that took it died or a write was lost.
AnswerSettles ==
    \A c \in Cards :
        (answer[c] # "none" /\ rows[c] = "pending") ~>
            \/ rows[c] # "pending"
            \/ faults > 0
            \/ \E d \in Decides : claim[d] = c /\ stream[d] = "dead"
=============================================================================
