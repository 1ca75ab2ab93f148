--------------------------- MODULE AgentRunProofs ---------------------------
(***************************************************************************)
(* Theorems about AgentRun, for any number of decides, cards, loop steps   *)
(* and lost writes.                                                        *)
(***************************************************************************)
EXTENDS AgentRun, SequenceTheorems, TLAPS

-----------------------------------------------------------------------------
(* The event queues.                                                       *)

\* The event lists the worker puts are sequences of events.
LEMMA EventType ==
    /\ \A t \in {"work", "done", "error", "step_cap", "end"} :
          Event(t) \in Events
    /\ \A c \in Cards : [type |-> "pending", card |-> c] \in Events
BY DEF Event, Events

LEMMA EventSeqs ==
    /\ <<Event("work")>> \in Seq(Events)
    /\ <<Event("error"), Event("end")>> \in Seq(Events)
    /\ Append(<<>>, Event("end")) \in Seq(Events)
    /\ Append(<<Event("error")>>, Event("end")) \in Seq(Events)
    /\ Append(<<Event("step_cap")>>, Event("end")) \in Seq(Events)
    /\ Append(<<Event("work"), Event("done")>>, Event("end")) \in Seq(Events)
    /\ \A c \in Cards :
          Append(<<[type |-> "pending", card |-> c]>>, Event("end"))
              \in Seq(Events)
<1>1. /\ Event("work") \in Events /\ Event("done") \in Events
      /\ Event("error") \in Events /\ Event("end") \in Events
      /\ Event("step_cap") \in Events
  BY EventType
<1>2. \A c \in Cards : [type |-> "pending", card |-> c] \in Events
  BY EventType
<1>. QED  BY <1>1, <1>2, AppendProperties

\* Putting events on a queue, or dropping them when nobody reads it, keeps
\* every queue a sequence of events.
LEMMA EmitType ==
    ASSUME queue \in [Legs -> Seq(Events)],
           NEW l \in Legs, NEW events \in Seq(Events),
           Emit(l, events)
    PROVE  queue' \in [Legs -> Seq(Events)]
<1>1. CASE stream[l] = "open"
  <2>1. queue' = [queue EXCEPT ![l] = @ \o events]
    BY <1>1 DEF Emit
  <2>2. queue[l] \o events \in Seq(Events)
    BY ConcatProperties
  <2>. QED  BY <2>1, <2>2
<1>2. CASE stream[l] # "open"
  BY <1>2 DEF Emit
<1>. QED  BY <1>1, <1>2

\* A lost or effective write of a step row keeps rows and the fault count
\* in their types.
LEMMA WriteRowType ==
    ASSUME rows \in [Cards -> RowStates], faults \in 0..MaxFaults,
           NEW c, NEW s \in RowStates, WriteRow(c, s)
    PROVE  rows' \in [Cards -> RowStates] /\ faults' \in 0..MaxFaults
<1>1. CASE UNCHANGED faults /\ rows' = IF Exists THEN [rows EXCEPT ![c] = s] ELSE rows
  BY <1>1 DEF Exists
<1>2. CASE faults < MaxFaults /\ faults' = faults + 1 /\ UNCHANGED rows
  BY <1>2, BoundsAssumption
<1>. QED  BY <1>1, <1>2 DEF WriteRow

-----------------------------------------------------------------------------
(* Type correctness.                                                       *)

LEMMA TypeInit == Init => TypeOK
<1>. SUFFICES ASSUME Init PROVE TypeOK
  OBVIOUS
<1>1. run \in [status : Statuses, token : 0..MaxProposals,
               finished : BOOLEAN, old : BOOLEAN]
  BY BoundsAssumption DEF Init, Statuses
<1>2. queue \in [Legs -> Seq(Events)]
  BY EmptySeq DEF Init
<1>3. /\ stream \in [Legs -> Streams]
      /\ worker \in [Legs -> Workers]
  BY DEF Init, Streams, Workers
<1>4. /\ rows \in [Cards -> RowStates]
      /\ answer \in [Cards -> {"none", "approve", "reject"}]
      /\ ran \in [Cards -> Nat]
  BY DEF Init, RowStates
<1>5. /\ decision \in [Legs -> {"none", "approve", "reject"}]
      /\ claim \in [Legs -> 0..MaxProposals]
      /\ target \in [Legs -> 0..MaxProposals]
      /\ paused \in [Legs -> 0..MaxProposals]
      /\ turns \in [Legs -> 0..MaxTurns]
  BY BoundsAssumption DEF Init
<1>6. /\ outcome \in [Legs -> {"none", "done", "error", "step_cap"}]
      /\ proposals \in 0..MaxProposals
      /\ faults \in 0..MaxFaults
      /\ offered \subseteq Cards
  BY BoundsAssumption DEF Init
<1>7. /\ cancelled \in [Legs -> BOOLEAN]
      /\ charged \in BOOLEAN
  BY DEF Init
<1>. QED  BY <1>1, <1>2, <1>3, <1>4, <1>5, <1>6, <1>7 DEF TypeOK

\* The handlers of POST /decide/.
LEMMA TypeDecide ==
    ASSUME TypeOK, NEW d \in Decides, Decide(d)
    PROVE  TypeOK'
<1>1. ASSUME NEW c \in Cards, NEW v \in {"approve", "reject"},
             DecideRead(d, c, v)
      PROVE  TypeOK'
  BY <1>1, BoundsAssumption
     DEF TypeOK, DecideRead, Legs, Cards, Streams, rowVars, workerVars
<1>2. CASE DecideConsume(d)
  <2>1. run' \in [status : Statuses, token : 0..MaxProposals,
                  finished : BOOLEAN, old : BOOLEAN]
    <3>1. CASE run' = run
      BY <3>1 DEF TypeOK
    <3>2. CASE run' = [run EXCEPT !.status = "running", !.token = 0]
      <4>1. /\ run \in [status : Statuses, token : 0..MaxProposals,
                         finished : BOOLEAN, old : BOOLEAN]
            /\ "running" \in Statuses
            /\ 0 \in 0..MaxProposals
        BY BoundsAssumption DEF TypeOK, Statuses
      <4>. QED  BY <3>2, <4>1
    <3>. QED  BY <1>2, <3>1, <3>2 DEF DecideConsume
  <2>2. answer' \in [Cards -> {"none", "approve", "reject"}]
    BY <1>2 DEF TypeOK, DecideConsume, Legs
  <2>3. /\ stream' \in [Legs -> Streams]
        /\ worker' \in [Legs -> Workers]
    <3>1. /\ \/ stream' = [stream EXCEPT ![d] = "open"]
             \/ stream' = [stream EXCEPT ![d] = "lost"]
          /\ \/ worker' = [worker EXCEPT ![d] = "resume"]
             \/ worker' = worker
      BY <1>2 DEF DecideConsume
    <3>2. /\ {"open", "lost"} \subseteq Streams
          /\ "resume" \in Workers
      BY DEF Streams, Workers
    <3>3. stream \in [Legs -> Streams] /\ worker \in [Legs -> Workers]
      BY DEF TypeOK
    <3>4. stream' \in [Legs -> Streams]
      BY <3>1, <3>2, <3>3
    <3>5. worker' \in [Legs -> Workers]
      BY <3>1, <3>2, <3>3
    <3>. QED  BY <3>4, <3>5
  <2>. QED  BY <1>2, <2>1, <2>2, <2>3 DEF TypeOK, DecideConsume
<1>3. CASE DecideFails(d)
  BY <1>3, BoundsAssumption
     DEF TypeOK, DecideFails, Legs, Streams, rowVars, workerVars
<1>. QED  BY <1>1, <1>2, <1>3 DEF Decide

\* The worker thread.
LEMMA TypeWork ==
    ASSUME TypeOK, NEW l \in Legs, Work(l)
    PROVE  TypeOK'
<1>. USE DEF TypeOK, rowVars, streamVars, workerVars
<1>1. CASE Rebuild(l)
  <2>1. queue' \in [Legs -> Seq(Events)]
    BY <1>1, EventSeqs, EmitType DEF Rebuild
  <2>2. PICK c \in Cards : target' = [target EXCEPT ![l] = c]
    BY <1>1 DEF Rebuild
  <2>3. target' \in [Legs -> 0..MaxProposals]
    BY <2>2, BoundsAssumption DEF Cards
  <2>. QED  BY <1>1, <2>1, <2>3 DEF Rebuild, Workers
<1>2. CASE NothingToResume(l)
  <2>1. queue' \in [Legs -> Seq(Events)]
    BY <1>2, EventSeqs, EmitType DEF NothingToResume
  <2>. QED  BY <1>2, <2>1 DEF NothingToResume, Workers
<1>3. CASE SettleWithoutRunning(l)
  <2>1. rows' \in [Cards -> RowStates] /\ faults' \in 0..MaxFaults
    BY <1>3, WriteRowType DEF SettleWithoutRunning, RowStates
  <2>. QED  BY <1>3, <2>1 DEF SettleWithoutRunning, Workers
<1>4. CASE RunTool(l)
  <2>1. CASE target[l] \in Cards
    BY <1>4, <2>1 DEF RunTool, Workers
  <2>2. CASE target[l] \notin Cards
    <3>1. ran' = ran
      BY <1>4, <2>2 DEF RunTool
    <3>. QED  BY <1>4, <3>1 DEF RunTool, Workers
  <2>. QED  BY <2>1, <2>2
<1>5. CASE SaveResult(l)
  <2>1. rows' \in [Cards -> RowStates] /\ faults' \in 0..MaxFaults
    BY <1>5, WriteRowType DEF SaveResult, RowStates
  <2>. QED  BY <1>5, <2>1 DEF SaveResult, Workers
<1>6. CASE StopCancelled(l)
  <2>1. queue' \in [Legs -> Seq(Events)]
    BY <1>6, EventSeqs, EmitType DEF StopCancelled, EndWorker
  <2>. QED  BY <1>6, <2>1 DEF StopCancelled, EndWorker, Workers
<1>7. CASE CallModel(l)
  BY <1>7, BoundsAssumption DEF CallModel, Workers
<1>8. CASE ReadTurn(l)
  <2>1. queue' \in [Legs -> Seq(Events)]
    BY <1>8, EventSeqs, EmitType DEF ReadTurn
  <2>. QED  BY <1>8, <2>1 DEF ReadTurn, Workers
<1>9. CASE Propose(l)
  <2>1. proposals' \in 1..MaxProposals
    BY <1>9, BoundsAssumption DEF Propose
  <2>2. rows' \in [Cards -> RowStates] /\ faults' \in 0..MaxFaults
    BY <1>9, WriteRowType DEF Propose, RowStates
  <2>3. proposals' \in Cards
    BY <2>1 DEF Cards
  <2>4. queue' \in [Legs -> Seq(Events)]
    BY <1>9, EventSeqs, <2>3, EmitType DEF Propose, EndWorker
  <2>5. /\ paused' \in [Legs -> 0..MaxProposals]
        /\ worker' \in [Legs -> Workers]
        /\ proposals' \in 0..MaxProposals
    BY <1>9, <2>1 DEF Propose, EndWorker, Workers
  <2>. QED  BY <1>9, <2>2, <2>4, <2>5 DEF Propose
<1>10. CASE Answer(l)
  <2>1. queue' \in [Legs -> Seq(Events)]
    BY <1>10, EventSeqs, EmitType DEF Answer, EndWorker
  <2>. QED  BY <1>10, <2>1 DEF Answer, EndWorker, Workers
<1>11. CASE WrapUp(l)
  <2>1. queue' \in [Legs -> Seq(Events)]
    BY <1>11, EventSeqs, EmitType DEF WrapUp, EndWorker
  <2>. QED  BY <1>11, <2>1 DEF WrapUp, EndWorker, Workers
<1>. QED  BY <1>1, <1>2, <1>3, <1>4, <1>5, <1>6, <1>7, <1>8, <1>9, <1>10,
             <1>11 DEF Work

\* The response stream.
LEMMA TypeStream ==
    ASSUME TypeOK, NEW l \in Legs, Stream(l)
    PROVE  TypeOK'
<1>. USE DEF TypeOK, rowVars, streamVars, workerVars
<1>1. ASSUME NEW gone \in BOOLEAN, StreamEvent(l, gone)
      PROVE  TypeOK'
  <2>1. Head(queue[l]) \in Events /\ Tail(queue[l]) \in Seq(Events)
    BY <1>1, HeadTailProperties DEF StreamEvent
  <2>2. /\ queue' \in [Legs -> Seq(Events)]
        /\ cancelled' \in [Legs -> BOOLEAN]
        /\ stream' \in [Legs -> Streams]
    <3>1. CASE gone
      <4>1. /\ queue' = [queue EXCEPT ![l] = <<>>]
            /\ cancelled' = [cancelled EXCEPT ![l] = TRUE]
            /\ stream' = [stream EXCEPT ![l] = "closing"]
        BY <1>1, <3>1 DEF StreamEvent
      <4>. QED  BY <4>1, EmptySeq DEF Streams
    <3>2. CASE ~gone
      <4>1. /\ queue' = [queue EXCEPT ![l] = Tail(@)]
            /\ UNCHANGED <<cancelled, stream>>
        BY <1>1, <3>2 DEF StreamEvent
      <4>. QED  BY <4>1, <2>1
    <3>. QED  BY <3>1, <3>2
  <2>3. outcome' \in [Legs -> {"none", "done", "error", "step_cap"}]
    BY <1>1, <2>1 DEF StreamEvent, Events
  <2>4. offered' \subseteq Cards
    BY <1>1, <2>1 DEF StreamEvent, Events
  <2>5. charged' \in BOOLEAN
    BY <1>1 DEF StreamEvent
  <2>. QED  BY <1>1, <2>2, <2>3, <2>4, <2>5 DEF StreamEvent
<1>2. CASE StreamEnds(l)
  BY <1>2, EmptySeq DEF StreamEnds, Streams
<1>3. CASE CloseRun(l)
  <2>1. ClosedRow(l) \in [status : Statuses, token : 0..MaxProposals,
                          finished : BOOLEAN, old : BOOLEAN]
    BY DEF ClosedRow, Statuses, Terminal
  <2>2. faults' \in 0..MaxFaults
    BY <1>3, BoundsAssumption DEF CloseRun
  <2>3. run' \in [status : Statuses, token : 0..MaxProposals,
                  finished : BOOLEAN, old : BOOLEAN]
    BY <1>3, <2>1 DEF CloseRun, Exists
  <2>. QED  BY <1>3, <2>2, <2>3 DEF CloseRun, Streams
<1>. QED  BY <1>1, <1>2, <1>3 DEF Stream

\* Crashes, time, the reaper, the delete, and rest.
LEMMA TypeRest ==
    ASSUME TypeOK,
           \/ \E l \in Legs : Crash(l)
           \/ Age \/ Reap \/ Delete \/ Quiet
    PROVE  TypeOK'
<1>. USE DEF TypeOK, rowVars, streamVars, workerVars
<1>1. ASSUME NEW l \in Legs, Crash(l)
      PROVE  TypeOK'
  <2>1. /\ queue' \in [Legs -> Seq(Events)]
        /\ stream' \in [Legs -> Streams]
        /\ worker' \in [Legs -> Workers]
    BY <1>1, EmptySeq DEF Crash, Streams, Workers
  <2>. QED  BY <1>1, <2>1 DEF Crash
<1>2. CASE Age
  BY <1>2 DEF Age
<1>3. CASE Reap
  BY <1>3 DEF Reap, Statuses, Terminal
<1>4. CASE Delete
  <2>1. rows' \in [Cards -> RowStates]
    BY <1>4 DEF Delete, RowStates
  <2>2. run' \in [status : Statuses, token : 0..MaxProposals,
                  finished : BOOLEAN, old : BOOLEAN]
    BY <1>4, BoundsAssumption DEF Delete, Statuses
  <2>. QED  BY <1>4, <2>1, <2>2 DEF Delete
<1>5. CASE Quiet
  BY <1>5 DEF Quiet, vars
<1>. QED  BY <1>1, <1>2, <1>3, <1>4, <1>5

LEMMA TypeStep == TypeOK /\ [Next]_vars => TypeOK'
<1>1. ASSUME TypeOK, Next PROVE TypeOK'
  <2>1. ASSUME NEW d \in Decides, Decide(d) PROVE TypeOK'
    BY <1>1, <2>1, TypeDecide
  <2>2. ASSUME NEW l \in Legs, Work(l) \/ Stream(l) \/ Crash(l)
        PROVE  TypeOK'
    BY <1>1, <2>2, TypeWork, TypeStream, TypeRest
  <2>3. CASE Age \/ Reap \/ Delete \/ Quiet
    BY <1>1, <2>3, TypeRest
  <2>. QED  BY <1>1, <2>1, <2>2, <2>3 DEF Next
<1>2. ASSUME TypeOK, UNCHANGED vars PROVE TypeOK'
  BY <1>2 DEF TypeOK, vars, rowVars, streamVars, workerVars
<1>. QED  BY <1>1, <1>2

\* Every variable of a run, its legs and its cards keeps its type.
THEOREM TypeCorrect == Spec => []TypeOK
BY TypeInit, TypeStep, PTL DEF Spec

-----------------------------------------------------------------------------
(* One leg at a time, and a token exactly while parked.                    *)

\* The invariant that carries both: LegDiscipline gives the close of a leg
\* the right to say what the row's token is, because nobody else is there.
Parking == TypeOK /\ LegDiscipline /\ TokenIffAwaiting /\ ParkedRunHasNoWorker

LEMMA ParkingInit == Init => Parking
<1>. SUFFICES ASSUME Init PROVE Parking
  OBVIOUS
<1>1. TypeOK
  BY TypeInit
<1>2. LegDiscipline
  BY DEF Init, LegDiscipline, LegOpen, LegLive
<1>3. TokenIffAwaiting /\ ParkedRunHasNoWorker
  BY DEF Init, TokenIffAwaiting, ParkedRunHasNoWorker
<1>. QED  BY <1>1, <1>2, <1>3 DEF Parking

\* The part of the types that the argument below needs.
LegTypes ==
    /\ run \in [status : Statuses, token : 0..MaxProposals,
                finished : BOOLEAN, old : BOOLEAN]
    /\ stream \in [Legs -> Streams]
    /\ worker \in [Legs -> Workers]
    /\ paused \in [Legs -> 0..MaxProposals]
    /\ claim \in [Legs -> 0..MaxProposals]

LEMMA LegTypesHold == TypeOK => LegTypes
BY DEF TypeOK, LegTypes

LEMMA ParkingDecide ==
    ASSUME Parking, TypeOK', NEW d \in Decides, Decide(d)
    PROVE  Parking'
<1>t. LegTypes /\ d \in Legs
  BY LegTypesHold DEF Parking, Legs
<1>. USE DEF Parking, LegDiscipline, LegOpen, LegLive, TokenIffAwaiting,
             ParkedRunHasNoWorker
<1>1. ASSUME NEW c \in Cards, NEW v \in {"approve", "reject"},
             DecideRead(d, c, v)
      PROVE  Parking'
  <2>1. /\ stream[d] = "idle"
        /\ stream' = [stream EXCEPT ![d] = "checked"]
        /\ claim' = [claim EXCEPT ![d] = c]
        /\ UNCHANGED <<run, worker, paused>>
    BY <1>1 DEF DecideRead, rowVars, workerVars
  <2>. QED  BY <1>t, <2>1 DEF LegTypes
<1>2. CASE DecideConsume(d)
  <2>1. CASE run.status = "awaiting_approval" /\ run.token = claim[d]
    <3>1. \A l \in Legs : ~LegOpen(l) /\ ~LegLive(l)
      BY <2>1
    <3>2. /\ run' = [run EXCEPT !.status = "running", !.token = 0]
          /\ stream' = [stream EXCEPT ![d] = "open"]
          /\ worker' = [worker EXCEPT ![d] = "resume"]
          /\ UNCHANGED <<claim, paused>>
      BY <1>2, <2>1 DEF DecideConsume
    <3>3. paused[d] = 0
      BY <1>2, <1>t DEF DecideConsume, LegTypes
    <3>4. LegDiscipline'
      BY <1>t, <3>1, <3>2, <3>3 DEF LegTypes
    <3>5. run'.status = "running" /\ run'.token = 0
      BY <1>t, <3>2 DEF LegTypes
    <3>. QED  BY <3>4, <3>5
  <2>2. CASE ~(run.status = "awaiting_approval" /\ run.token = claim[d])
    <3>1. /\ stream[d] = "checked"
          /\ stream' = [stream EXCEPT ![d] = "lost"]
          /\ UNCHANGED <<run, worker, claim, paused>>
      BY <1>2, <2>2 DEF DecideConsume
    <3>. QED  BY <1>t, <3>1 DEF LegTypes
  <2>. QED  BY <2>1, <2>2
<1>3. CASE DecideFails(d)
  <2>1. /\ stream[d] = "checked"
        /\ stream' = [stream EXCEPT ![d] = "idle"]
        /\ claim' = [claim EXCEPT ![d] = 0]
        /\ UNCHANGED <<run, worker, paused>>
    BY <1>3 DEF DecideFails, rowVars, workerVars
  <2>. QED  BY <1>t, <2>1 DEF LegTypes
<1>4. \/ \E c \in Cards, v \in {"approve", "reject"} : DecideRead(d, c, v)
      \/ DecideConsume(d) \/ DecideFails(d)
  BY DEF Decide
<1>. QED  BY <1>1, <1>2, <1>3, <1>4

\* The worker only ever leaves its live states by returning, and only then
\* does it hand over a pause descriptor.
LEMMA ParkingWork ==
    ASSUME Parking, TypeOK', NEW l \in Legs, Work(l)
    PROVE  Parking'
<1>t. LegTypes
  BY LegTypesHold DEF Parking
<1>1. /\ LegLive(l)
      /\ worker[l] # "ended"
  BY DEF Work, Rebuild, NothingToResume, SettleWithoutRunning, RunTool,
         SaveResult, StopCancelled, CallModel, ReadTurn, Propose, Answer,
         WrapUp, LegLive
<1>2. UNCHANGED <<run, stream, claim>>
  BY DEF Work, Rebuild, NothingToResume, SettleWithoutRunning, RunTool,
         SaveResult, StopCancelled, CallModel, ReadTurn, Propose, Answer,
         WrapUp, rowVars, streamVars
<1>3. \E w \in Workers \ {"idle"} : worker' = [worker EXCEPT ![l] = w]
  BY DEF Work, Rebuild, NothingToResume, SettleWithoutRunning, RunTool,
         SaveResult, StopCancelled, CallModel, ReadTurn, Propose, Answer,
         WrapUp, EndWorker, Workers
<1>4. \/ UNCHANGED paused
      \/ /\ \E p \in 0..MaxProposals : paused' = [paused EXCEPT ![l] = p]
         /\ worker' = [worker EXCEPT ![l] = "ended"]
  <2>1. CASE Propose(l)
    BY <2>1 DEF Propose, EndWorker, TypeOK
  <2>2. CASE ~Propose(l)
    BY <2>2 DEF Work, Rebuild, NothingToResume, SettleWithoutRunning, RunTool,
           SaveResult, StopCancelled, CallModel, ReadTurn, Answer,
           WrapUp, workerVars
  <2>. QED  BY <2>1, <2>2
<1>5. run.status # "awaiting_approval"
  BY <1>1 DEF Parking, ParkedRunHasNoWorker, LegLive
<1>6. LegDiscipline'
  BY <1>t, <1>1, <1>2, <1>3, <1>4
     DEF Parking, LegDiscipline, LegOpen, LegLive, LegTypes
<1>. QED  BY <1>2, <1>5, <1>6
          DEF Parking, TokenIffAwaiting, ParkedRunHasNoWorker

\* The close of the one open leg decides the row's token; the other events of
\* a stream touch neither the row nor the threads.
LEMMA ParkingStream ==
    ASSUME Parking, TypeOK', NEW l \in Legs, Stream(l)
    PROVE  Parking'
<1>t. LegTypes
  BY LegTypesHold DEF Parking
<1>1. LegOpen(l)
  BY DEF Stream, StreamEvent, StreamEnds, CloseRun, LegOpen
<1>2. run.status # "awaiting_approval" /\ run.token = 0
  BY <1>1 DEF Parking, ParkedRunHasNoWorker, TokenIffAwaiting, LegOpen
<1>3. ASSUME \/ \E gone \in BOOLEAN : StreamEvent(l, gone)
             \/ StreamEnds(l)
      PROVE  Parking'
  <2>1. /\ UNCHANGED <<run, worker, claim, paused>>
        /\ stream' = stream \/ stream' = [stream EXCEPT ![l] = "closing"]
    BY <1>3 DEF StreamEvent, StreamEnds, rowVars, workerVars
  <2>2. LegDiscipline'
    BY <1>t, <1>1, <2>1 DEF Parking, LegDiscipline, LegOpen, LegLive, LegTypes
  <2>. QED  BY <1>2, <2>1, <2>2
            DEF Parking, TokenIffAwaiting, ParkedRunHasNoWorker
<1>4. CASE CloseRun(l)
  <2>1. /\ UNCHANGED <<worker, claim, paused>>
        /\ stream' = [stream EXCEPT ![l] = "closed"]
        /\ run' = run \/ run' = ClosedRow(l)
    BY <1>4 DEF CloseRun, workerVars
  <2>2. LegDiscipline'
    BY <1>t, <1>1, <2>1 DEF Parking, LegDiscipline, LegOpen, LegLive, LegTypes
  <2>3. CASE run' = run
    BY <1>2, <2>1, <2>2, <2>3
       DEF Parking, TokenIffAwaiting, ParkedRunHasNoWorker
  <2>4. CASE run' = ClosedRow(l) /\ (cancelled[l] \/ paused[l] = 0)
    <3>1. run'.token = 0 /\ run'.status # "awaiting_approval"
      BY <1>t, <1>2, <2>4 DEF ClosedRow, LegTypes, Parking, TypeOK
    <3>. QED  BY <2>2, <3>1 DEF Parking, TokenIffAwaiting, ParkedRunHasNoWorker
  <2>5. CASE run' = ClosedRow(l) /\ ~cancelled[l] /\ paused[l] # 0
    <3>1. run'.token = paused[l] /\ run'.status = "awaiting_approval"
      BY <1>t, <2>5 DEF ClosedRow, LegTypes
    <3>2. \A m \in Legs : ~LegLive(m) /\ (LegOpen(m) => m = l)
      BY <1>1, <2>5 DEF Parking, LegDiscipline, LegOpen, LegLive
    <3>3. ParkedRunHasNoWorker'
      BY <1>t, <2>1, <3>2 DEF ParkedRunHasNoWorker, LegOpen, LegLive, LegTypes
    <3>. QED  BY <2>2, <2>5, <3>1, <3>3 DEF Parking, TokenIffAwaiting
  <2>. QED  BY <2>1, <2>3, <2>4, <2>5
<1>. QED  BY <1>3, <1>4 DEF Stream

LEMMA ParkingRest ==
    ASSUME Parking, TypeOK',
           \/ \E l \in Legs : Crash(l)
           \/ Age \/ Reap \/ Delete \/ Quiet
    PROVE  Parking'
<1>t. LegTypes
  BY LegTypesHold DEF Parking
<1>. USE DEF Parking, LegDiscipline, LegOpen, LegLive, TokenIffAwaiting,
             ParkedRunHasNoWorker
<1>1. ASSUME NEW l \in Legs, Crash(l)
      PROVE  Parking'
  <2>1. /\ UNCHANGED <<run, claim, paused>>
        /\ stream' = [stream EXCEPT ![l] = "dead"]
        /\ worker' = [worker EXCEPT ![l] = "ended"]
    BY <1>1 DEF Crash, rowVars
  <2>. QED  BY <1>t, <2>1 DEF LegTypes
<1>2. CASE Age \/ Reap \/ Delete
  <2>1. /\ UNCHANGED <<stream, worker, claim, paused>>
        /\ \/ run'.status = run.status /\ run'.token = run.token
           \/ run.token = 0 /\ run'.token = 0
              /\ run'.status # "awaiting_approval"
           \/ run'.token = 0 /\ run'.status = "deleted"
    <3>1. CASE Age
      <4>1. run' = [run EXCEPT !.old = TRUE]
        BY <3>1 DEF Age
      <4>2. run'.status = run.status /\ run'.token = run.token
        BY <1>t, <4>1 DEF LegTypes
      <4>. QED  BY <3>1, <4>2 DEF Age, streamVars, workerVars
    <3>2. CASE Reap
      <4>1. /\ run' = [run EXCEPT !.status = "error", !.finished = TRUE]
            /\ run.token = 0
        BY <3>2 DEF Reap
      <4>2. run'.status = "error" /\ run'.token = 0
        BY <1>t, <4>1 DEF LegTypes
      <4>. QED  BY <3>2, <4>1, <4>2 DEF Reap, streamVars, workerVars
    <3>3. CASE Delete
      BY <3>3 DEF Delete, streamVars, workerVars
    <3>. QED  BY <1>2, <3>1, <3>2, <3>3
  <2>. QED  BY <1>t, <2>1 DEF LegTypes
<1>3. CASE Quiet
  BY <1>3 DEF Quiet, vars, rowVars, streamVars, workerVars
<1>. QED  BY <1>1, <1>2, <1>3

LEMMA ParkingStep == Parking /\ [Next]_vars => Parking'
<1>. SUFFICES ASSUME Parking, [Next]_vars PROVE Parking'
  OBVIOUS
<1>1. TypeOK'
  BY TypeStep DEF Parking
<1>2. ASSUME NEW d \in Decides, Decide(d) PROVE Parking'
  BY <1>1, <1>2, ParkingDecide
<1>3. ASSUME NEW l \in Legs, Work(l) \/ Stream(l) \/ Crash(l) PROVE Parking'
  BY <1>1, <1>3, ParkingWork, ParkingStream, ParkingRest
<1>4. CASE Age \/ Reap \/ Delete \/ Quiet
  BY <1>1, <1>4, ParkingRest
<1>5. CASE UNCHANGED vars
  BY <1>1, <1>5
     DEF Parking, LegDiscipline, LegOpen, LegLive, TokenIffAwaiting,
         ParkedRunHasNoWorker, vars, rowVars, streamVars, workerVars
<1>. QED  BY <1>2, <1>3, <1>4, <1>5 DEF Next

LEMMA ParkingAlways == Spec => []Parking
BY ParkingInit, ParkingStep, PTL DEF Spec

\* The run row holds a token exactly while it awaits an approval, however
\* many decides race for it and whoever closes it.
THEOREM TokenSafe == Spec => []TokenIffAwaiting
BY ParkingAlways, PTL DEF Parking

\* At most one leg streams.
THEOREM OneLegAtATime == Spec => []OneOpenLeg
<1>1. Parking => OneOpenLeg
  BY DEF Parking, LegDiscipline, LegOpen, OneOpenLeg
<1>. QED  BY <1>1, ParkingAlways, PTL

\* A parked run has no thread left, so deleting it erases under nobody.
THEOREM ParkedIsAlone == Spec => []ParkedRunHasNoWorker
BY ParkingAlways, PTL DEF Parking

-----------------------------------------------------------------------------
(* The approval gate, while at most one best-effort write is lost.  With    *)
(* two, a leg may resume on an older row that was left pending.             *)

OneLoss == MaxFaults <= 1

\* The newest card is put to the person, or about to be.
Asking ==
    \/ run.token # 0
    \/ \E l \in Legs : LegOpen(l) /\ paused[l] # 0

\* Whatever is asked, resumed or executed is the newest card.
NewestOnly ==
    /\ run.token \in {0, proposals}
    /\ \A l \in Legs :
          /\ LegOpen(l) => paused[l] \in {0, proposals}
          /\ worker[l] \in {"resume", "act", "save"} => claim[l] = proposals /\ claim[l] \in Cards
          /\ worker[l] \in {"act", "save"} => target[l] = claim[l]
    /\ \A c \in Cards : c > proposals =>
          answer[c] = "none" /\ ran[c] = 0 /\ rows[c] = "absent"

\* A card is unanswered while it is asked, and has not run before its leg acts.
Unspent ==
    /\ Asking => proposals \in Cards /\ answer[proposals] = "none" /\ ran[proposals] = 0
    /\ \A l \in Legs :
          /\ worker[l] \in {"resume", "act"} =>
                answer[proposals] = decision[l] /\ ran[proposals] = 0
          /\ stream[l] = "checked" => decision[l] \in {"approve", "reject"}

OneLive == \A l, m \in Legs : LegLive(l) /\ LegLive(m) => l = m

\* Which rows can still be pending: the newest card's, until its leg goes on;
\* an older one only if a write was lost, and then the newest was stored.
PendingRows ==
    /\ run.status = "deleted" => \A c \in Cards : rows[c] = "absent"
    /\ faults = 0 =>
          \A c \in Cards : rows[c] = "pending" =>
              c = proposals /\ \A l \in Legs : worker[l] \notin {"loop", "calling"}
    /\ (Asking \/ \E l \in Legs : worker[l] = "resume") =>
          (\A c \in Cards : rows[c] # "pending") \/ rows[proposals] = "pending"

Gating == Parking /\ NewestOnly /\ Unspent /\ OneLive /\ PendingRows

LEMMA GatingInit == Init => Gating
<1>. SUFFICES ASSUME Init PROVE Gating
  OBVIOUS
<1>1. /\ ~Asking
      /\ \A l \in Legs : worker[l] \notin {"resume", "act", "save"} /\ stream[l] # "checked"
      /\ \A l \in Legs : paused[l] = 0
  BY BoundsAssumption DEF Init, Asking
<1>2. \A c \in Cards : answer[c] = "none" /\ ran[c] = 0 /\ rows[c] = "absent"
  BY DEF Init
<1>3. run.token = 0 /\ run.status = "running"
  BY DEF Init
<1>4. OneLive
  BY DEF Init, OneLive, LegLive
<1>. QED  BY <1>1, <1>2, <1>3, <1>4, ParkingInit
          DEF Gating, NewestOnly, Unspent, PendingRows

\* The part of the types that the argument needs.
GateTypes ==
    /\ LegTypes
    /\ rows \in [Cards -> RowStates]
    /\ answer \in [Cards -> {"none", "approve", "reject"}]
    /\ ran \in [Cards -> Nat]
    /\ proposals \in 0..MaxProposals
    /\ faults \in 0..MaxFaults
    /\ decision \in [Legs -> {"none", "approve", "reject"}]
    /\ target \in [Legs -> 0..MaxProposals]

LEMMA GateTypesHold == Gating => GateTypes
BY LegTypesHold DEF Gating, Parking, TypeOK, GateTypes

LEMMA CardFacts ==
    /\ MaxProposals \in Nat /\ MaxFaults \in Nat
    /\ \A c : c \in Cards <=> c \in 0..MaxProposals /\ c # 0
BY BoundsAssumption DEF Cards

LEMMA GatingDecide ==
    ASSUME Gating, Parking', NEW d \in Decides, Decide(d)
    PROVE  Gating'
<1>t. GateTypes /\ LegTypes /\ d \in Legs
  BY GateTypesHold DEF GateTypes, Legs
<1>1. ASSUME NEW c \in Cards, NEW v \in {"approve", "reject"}, DecideRead(d, c, v)
      PROVE  Gating'
  <2>1. /\ stream[d] = "idle" /\ worker[d] = "idle"
        /\ stream' = [stream EXCEPT ![d] = "checked"]
        /\ claim' = [claim EXCEPT ![d] = c]
        /\ decision' = [decision EXCEPT ![d] = v]
        /\ UNCHANGED <<run, rows, answer, ran, proposals, faults, worker, target, paused>>
    BY <1>1, <1>t DEF DecideRead, rowVars, workerVars, Gating, Parking, LegDiscipline
  <2>2. /\ \A l \in Legs : l # d => claim'[l] = claim[l] /\ decision'[l] = decision[l]
        /\ decision'[d] = v
        /\ \A l \in Legs : LegOpen(l)' <=> LegOpen(l)
    BY <1>t, <2>1 DEF GateTypes, LegTypes, LegOpen
  <2>3. Asking' <=> Asking
    BY <2>1, <2>2 DEF Asking
  <2>4. NewestOnly'
    BY <2>1, <2>2 DEF Gating, NewestOnly
  <2>5. Unspent'
    BY <1>t, <2>1, <2>2, <2>3 DEF Gating, Unspent, LegTypes
  <2>. QED  BY <2>1, <2>3, <2>4, <2>5 DEF Gating, OneLive, LegLive, PendingRows
<1>2. CASE DecideConsume(d)
  <2>1. CASE run.status = "awaiting_approval" /\ run.token = claim[d]
    <3>1. /\ stream[d] = "checked" /\ claim[d] \in Cards
          /\ claim[d] = proposals /\ claim[d] # 0
      BY <1>2, <1>t, <2>1, CardFacts
         DEF DecideConsume, Gating, Parking, LegDiscipline, NewestOnly
    <3>2. \A l \in Legs : ~LegOpen(l) /\ ~LegLive(l)
      BY <2>1 DEF Gating, Parking, ParkedRunHasNoWorker, LegOpen, LegLive
    <3>3. /\ run' = [run EXCEPT !.status = "running", !.token = 0]
          /\ answer' = [answer EXCEPT ![proposals] = decision[d]]
          /\ stream' = [stream EXCEPT ![d] = "open"]
          /\ worker' = [worker EXCEPT ![d] = "resume"]
          /\ UNCHANGED <<rows, ran, proposals, faults, decision, claim, target, paused>>
      BY <1>2, <2>1, <3>1 DEF DecideConsume
    <3>4. run'.status = "running" /\ run'.token = 0
      BY <1>t, <3>3 DEF LegTypes
    <3>5. paused[d] = 0
      BY <1>t, <3>1, CardFacts DEF Gating, Parking, LegDiscipline, LegTypes
    <3>6. Asking /\ ~Asking'
      <4>1. Asking
        BY <2>1, <3>1 DEF Asking
      <4>2. \A l \in Legs : LegOpen(l)' => l = d
        BY <1>t, <3>2, <3>3 DEF LegTypes, LegOpen
      <4>. QED  BY <3>3, <3>4, <3>5, <4>1, <4>2 DEF Asking
    <3>7. /\ worker'[d] = "resume"
          /\ \A l \in Legs : l # d => worker'[l] \in {"idle", "ended"}
          /\ \A l \in Legs : LegOpen(l)' => paused'[l] = 0
      BY <1>t, <3>2, <3>3, <3>5 DEF LegTypes, LegLive, LegOpen
    <3>8. /\ answer'[proposals] = decision[d] /\ ran[proposals] = 0
          /\ \A c \in Cards : c # proposals => answer'[c] = answer[c]
      BY <1>t, <3>1, <3>3, <3>6 DEF GateTypes, Gating, Unspent
    <3>9. NewestOnly'
      BY <1>t, <3>1, <3>3, <3>4, <3>7, <3>8 DEF Gating, NewestOnly, GateTypes
    <3>10. Unspent'
      <4>1. \A l \in Legs : stream'[l] = "checked" => stream[l] = "checked"
        BY <1>t, <3>3 DEF LegTypes
      <4>. QED  BY <3>3, <3>6, <3>7, <3>8, <4>1 DEF Gating, Unspent
    <3>11. OneLive'
      BY <3>7 DEF OneLive, LegLive
    <3>12. PendingRows'
      BY <3>3, <3>4, <3>6, <3>7 DEF Gating, PendingRows
    <3>. QED  BY <3>9, <3>10, <3>11, <3>12 DEF Gating
  <2>2. CASE ~(run.status = "awaiting_approval" /\ run.token = claim[d])
    <3>1. /\ stream[d] = "checked"
          /\ stream' = [stream EXCEPT ![d] = "lost"]
          /\ UNCHANGED <<run, rows, answer, ran, proposals, faults, decision, claim,
                         worker, target, paused>>
      BY <1>2, <2>2 DEF DecideConsume
    <3>2. \A l \in Legs : /\ LegOpen(l)' <=> LegOpen(l)
                          /\ stream'[l] = "checked" => stream[l] = "checked"
      BY <1>t, <3>1 DEF LegTypes, LegOpen
    <3>3. Asking' <=> Asking
      BY <3>1, <3>2 DEF Asking
    <3>. QED  BY <3>1, <3>2, <3>3
              DEF Gating, NewestOnly, Unspent, OneLive, LegLive, PendingRows
  <2>. QED  BY <2>1, <2>2
<1>3. CASE DecideFails(d)
  <2>1. /\ stream[d] = "checked" /\ worker[d] = "idle"
        /\ stream' = [stream EXCEPT ![d] = "idle"]
        /\ claim' = [claim EXCEPT ![d] = 0]
        /\ decision' = [decision EXCEPT ![d] = "none"]
        /\ UNCHANGED <<run, rows, answer, ran, proposals, faults, worker, target, paused>>
    BY <1>3, <1>t DEF DecideFails, rowVars, workerVars, Gating, Parking, LegDiscipline
  <2>2. /\ \A l \in Legs : l # d => claim'[l] = claim[l] /\ decision'[l] = decision[l]
        /\ \A l \in Legs : /\ LegOpen(l)' <=> LegOpen(l)
                           /\ stream'[l] = "checked" => l # d /\ stream[l] = "checked"
    BY <1>t, <2>1 DEF GateTypes, LegTypes, LegOpen
  <2>3. Asking' <=> Asking
    BY <2>1, <2>2 DEF Asking
  <2>4. NewestOnly' /\ Unspent'
    BY <2>1, <2>2, <2>3 DEF Gating, NewestOnly, Unspent
  <2>. QED  BY <2>1, <2>3, <2>4 DEF Gating, OneLive, LegLive, PendingRows
<1>. QED  BY <1>1, <1>2, <1>3 DEF Decide

\* A worker's step that touches no card: back to the loop, or to its end.
LEMMA GatingLoop ==
    ASSUME Gating, Parking', NEW l \in Legs, LegLive(l),
           NEW w \in {"loop", "calling", "ended"},
           w # "ended" => worker[l] \in {"loop", "calling"},
           worker' = [worker EXCEPT ![l] = w],
           UNCHANGED <<run, rows, answer, ran, proposals, faults, stream, decision, claim,
                       target, paused>>
    PROVE  Gating'
<1>t. GateTypes /\ LegTypes
  BY GateTypesHold DEF GateTypes
<1>1. worker'[l] = w /\ \A m \in Legs : m # l => worker'[m] = worker[m]
  BY <1>t DEF LegTypes
<1>2. Asking' <=> Asking
  BY DEF Asking, LegOpen
<1>3. NewestOnly' /\ Unspent'
  BY <1>1, <1>2 DEF Gating, NewestOnly, Unspent, LegOpen
<1>4. OneLive'
  BY <1>1 DEF Gating, OneLive, LegLive
<1>5. PendingRows'
  BY <1>1, <1>2 DEF Gating, PendingRows
<1>. QED  BY <1>3, <1>4, <1>5 DEF Gating

\* The leg resumes on its own card: the newest row is pending, or none is.
LEMMA GatingRebuild ==
    ASSUME Gating, Parking', NEW l \in Legs, Rebuild(l)
    PROVE  Gating'
<1>t. GateTypes /\ LegTypes
  BY GateTypesHold DEF GateTypes
<1>1. PICK c \in Cards : PendingStep(c) /\ target' = [target EXCEPT ![l] = c]
  BY DEF Rebuild
<1>2. /\ worker[l] = "resume" /\ worker' = [worker EXCEPT ![l] = "act"]
      /\ UNCHANGED <<run, rows, answer, ran, proposals, faults, stream, decision, claim,
                     paused>>
  BY DEF Rebuild, rowVars
<1>3. claim[l] = proposals /\ proposals \in Cards /\ rows[proposals] = "pending"
  BY <1>1, <1>2 DEF Gating, NewestOnly, PendingRows, PendingStep
<1>4. c = proposals
  <2>1. proposals <= c
    BY <1>1, <1>3 DEF PendingStep
  <2>2. ~(c > proposals)
    BY <1>1 DEF Gating, NewestOnly, PendingStep
  <2>. QED  BY <1>3, <2>1, <2>2, CardFacts
<1>5. /\ worker'[l] = "act" /\ target'[l] = proposals
      /\ \A m \in Legs : m # l => worker'[m] = worker[m] /\ target'[m] = target[m]
  BY <1>t, <1>1, <1>2, <1>4 DEF GateTypes, LegTypes
<1>6. Asking' <=> Asking
  BY <1>2 DEF Asking, LegOpen
<1>7. NewestOnly'
  BY <1>2, <1>3, <1>5 DEF Gating, NewestOnly, LegOpen
<1>8. Unspent'
  BY <1>2, <1>5, <1>6 DEF Gating, Unspent
<1>9. OneLive' /\ PendingRows'
  BY <1>2, <1>5, <1>6 DEF Gating, OneLive, LegLive, PendingRows
<1>. QED  BY <1>7, <1>8, <1>9 DEF Gating

LEMMA GatingRunTool ==
    ASSUME Gating, Parking', NEW l \in Legs, RunTool(l)
    PROVE  Gating'
<1>t. GateTypes /\ LegTypes
  BY GateTypesHold DEF GateTypes
<1>1. /\ worker[l] = "act" /\ worker' = [worker EXCEPT ![l] = "save"]
      /\ ran' = [ran EXCEPT ![target[l]] = @ + 1]
      /\ UNCHANGED <<run, rows, answer, proposals, faults, stream, decision, claim, target,
                     paused>>
  BY DEF RunTool, streamVars
<1>2. target[l] = proposals /\ claim[l] = proposals /\ proposals \in Cards
  BY <1>1 DEF Gating, NewestOnly
<1>3. \A c \in Cards : c # proposals => ran'[c] = ran[c]
  BY <1>t, <1>1, <1>2 DEF GateTypes
<1>4. worker'[l] = "save" /\ \A m \in Legs : m # l => worker'[m] = worker[m]
  BY <1>t, <1>1 DEF LegTypes
<1>5. LegLive(l) /\ \A m \in Legs : m # l => ~LegLive(m)
  BY <1>1 DEF Gating, OneLive, LegLive
<1>6. ~Asking /\ ~Asking'
  <2>1. run.token = 0
    BY <1>1 DEF Gating, Parking, TokenIffAwaiting, ParkedRunHasNoWorker
  <2>2. \A m \in Legs : LegOpen(m) => paused[m] = 0
    BY <1>1, <1>5 DEF Gating, Parking, LegDiscipline
  <2>. QED  BY <1>1, <2>1, <2>2 DEF Asking, LegOpen
<1>7. NewestOnly'
  BY <1>t, <1>1, <1>2, <1>3, <1>4, CardFacts DEF Gating, NewestOnly, LegOpen
<1>8. Unspent'
  BY <1>1, <1>4, <1>5, <1>6 DEF Gating, Unspent, LegLive
<1>9. OneLive' /\ PendingRows'
  BY <1>1, <1>4, <1>6 DEF Gating, OneLive, LegLive, PendingRows
<1>. QED  BY <1>7, <1>8, <1>9 DEF Gating

\* The row of the card is closed, or that write is the one that is lost.
LEMMA GatingSettle ==
    ASSUME Gating, Parking', NEW l \in Legs, SettleWithoutRunning(l) \/ SaveResult(l)
    PROVE  Gating'
<1>t. GateTypes /\ LegTypes
  BY GateTypesHold DEF GateTypes
<1>1. /\ worker[l] \in {"act", "save"} /\ worker' = [worker EXCEPT ![l] = "loop"]
      /\ \E s \in {"failed", "ok"} : WriteRow(target[l], s)
      /\ UNCHANGED <<run, answer, ran, proposals, stream, decision, claim, target, paused>>
  BY DEF SettleWithoutRunning, SaveResult, streamVars
<1>2. target[l] = proposals /\ proposals \in Cards
  BY <1>1 DEF Gating, NewestOnly
<1>3. \/ /\ \A c \in Cards : c # proposals => rows'[c] = rows[c]
         /\ rows'[proposals] \in {"failed", "ok"}
         /\ run.status # "deleted" /\ faults' = faults
      \/ run.status = "deleted" /\ rows' = rows /\ faults' = faults
      \/ run.status # "deleted" /\ rows' = rows /\ faults' = faults + 1
  BY <1>t, <1>1, <1>2 DEF WriteRow, Exists, GateTypes
<1>4. worker'[l] = "loop" /\ \A m \in Legs : m # l => worker'[m] = worker[m]
  BY <1>t, <1>1 DEF LegTypes
<1>5. LegLive(l) /\ \A m \in Legs : m # l => ~LegLive(m)
  BY <1>1 DEF Gating, OneLive, LegLive
<1>6. ~Asking /\ ~Asking'
  <2>1. run.token = 0
    BY <1>1 DEF Gating, Parking, TokenIffAwaiting, ParkedRunHasNoWorker
  <2>2. \A m \in Legs : LegOpen(m) => paused[m] = 0
    BY <1>1, <1>5 DEF Gating, Parking, LegDiscipline
  <2>. QED  BY <1>1, <2>1, <2>2 DEF Asking, LegOpen
<1>7. NewestOnly'
  BY <1>1, <1>3, <1>4, <1>2, <1>t, CardFacts DEF Gating, NewestOnly, LegOpen, GateTypes
<1>8. Unspent'
  BY <1>1, <1>4, <1>5, <1>6 DEF Gating, Unspent, LegLive
<1>9. OneLive'
  BY <1>4, <1>5 DEF OneLive, LegLive
<1>10. PendingRows'
  <2>1. faults' = 0 => \A c \in Cards : rows'[c] # "pending"
    BY <1>t, <1>2, <1>3 DEF Gating, PendingRows, GateTypes
  <2>2. run'.status = "deleted" => \A c \in Cards : rows'[c] = "absent"
    BY <1>1, <1>3 DEF Gating, PendingRows
  <2>3. \A m \in Legs : worker'[m] # "resume"
    BY <1>4, <1>5 DEF LegLive
  <2>. QED  BY <1>6, <2>1, <2>2, <2>3 DEF PendingRows
<1>. QED  BY <1>7, <1>8, <1>9, <1>10 DEF Gating

\* A new card: if its row is lost, no older one is pending.
LEMMA GatingPropose ==
    ASSUME OneLoss, Gating, Parking', NEW l \in Legs, Propose(l)
    PROVE  Gating'
<1>t. GateTypes /\ LegTypes
  BY GateTypesHold DEF GateTypes
<1>1. /\ worker[l] = "calling" /\ worker' = [worker EXCEPT ![l] = "ended"]
      /\ proposals < MaxProposals /\ proposals' = proposals + 1
      /\ WriteRow(proposals', "pending")
      /\ paused' = [paused EXCEPT ![l] = proposals']
      /\ UNCHANGED <<run, answer, ran, stream, decision, claim, target>>
  BY DEF Propose, EndWorker
<1>2. proposals' \in Cards /\ proposals' > proposals
  BY <1>t, <1>1, CardFacts DEF GateTypes
<1>3. LegLive(l) /\ \A m \in Legs : m # l => ~LegLive(m)
  BY <1>1 DEF Gating, OneLive, LegLive
<1>4. /\ worker'[l] = "ended" /\ paused'[l] = proposals'
      /\ \A m \in Legs : m # l => worker'[m] = worker[m] /\ paused'[m] = paused[m]
  BY <1>t, <1>1 DEF LegTypes
<1>5. \A m \in Legs : worker'[m] \in {"idle", "ended"}
  BY <1>3, <1>4 DEF LegLive
<1>6. run.token = 0
  BY <1>1 DEF Gating, Parking, TokenIffAwaiting, ParkedRunHasNoWorker
<1>7. \A m \in Legs : LegOpen(m) => m = l
  BY <1>3 DEF Gating, Parking, LegDiscipline
<1>8. faults = 0 => \A c \in Cards : rows[c] # "pending"
  BY <1>1 DEF Gating, PendingRows
<1>9. \/ /\ \A c \in Cards : c # proposals' => rows'[c] = rows[c]
         /\ rows'[proposals'] = "pending"
         /\ run.status # "deleted" /\ faults' = faults
      \/ run.status = "deleted" /\ rows' = rows /\ faults' = faults
      \/ /\ run.status # "deleted" /\ rows' = rows
         /\ faults' = faults + 1 /\ faults = 0
  <2>1. faults < MaxFaults => faults = 0
    BY <1>t, CardFacts DEF GateTypes, OneLoss
  <2>. QED  BY <1>t, <1>1, <1>2, <2>1 DEF WriteRow, Exists, GateTypes
<1>10. NewestOnly'
  <2>1. \A m \in Legs : LegOpen(m)' => paused'[m] = proposals'
    BY <1>1, <1>4, <1>7 DEF LegOpen
  <2>2. \A c \in Cards : c > proposals' => c > proposals /\ c # proposals'
    BY <1>t, <1>1, CardFacts DEF GateTypes
  <2>3. \A c \in Cards : c > proposals' =>
            answer'[c] = "none" /\ ran'[c] = 0 /\ rows'[c] = "absent"
    BY <1>1, <1>9, <2>2 DEF Gating, NewestOnly
  <2>. QED  BY <1>1, <1>5, <1>6, <2>1, <2>3 DEF NewestOnly
<1>11. Unspent'
  BY <1>1, <1>2, <1>5 DEF Gating, NewestOnly, Unspent
<1>12. OneLive'
  BY <1>5 DEF OneLive, LegLive
<1>13. PendingRows'
  <2>1. (\A c \in Cards : rows'[c] # "pending") \/ rows'[proposals'] = "pending"
    BY <1>8, <1>9 DEF Gating, PendingRows
  <2>2. run'.status = "deleted" => \A c \in Cards : rows'[c] = "absent"
    BY <1>1, <1>9 DEF Gating, PendingRows
  <2>3. faults' = 0 => \A c \in Cards : rows'[c] = "pending" => c = proposals'
    BY <1>t, <1>8, <1>9 DEF GateTypes
  <2>. QED  BY <1>5, <2>1, <2>2, <2>3 DEF PendingRows
<1>. QED  BY <1>10, <1>11, <1>12, <1>13 DEF Gating

LEMMA GatingWork ==
    ASSUME OneLoss, Gating, Parking', NEW l \in Legs, Work(l)
    PROVE  Gating'
<1>1. CASE \/ NothingToResume(l) \/ StopCancelled(l) \/ CallModel(l) \/ ReadTurn(l)
           \/ Answer(l) \/ WrapUp(l)
  <2>1. LegLive(l)
    BY <1>1 DEF NothingToResume, StopCancelled, CallModel, ReadTurn, Answer, WrapUp, LegLive
  <2>2. \E w \in {"loop", "calling", "ended"} :
            /\ w # "ended" => worker[l] \in {"loop", "calling"}
            /\ worker' = [worker EXCEPT ![l] = w]
    BY <1>1 DEF NothingToResume, StopCancelled, CallModel, ReadTurn, Answer, WrapUp, EndWorker
  <2>3. UNCHANGED <<run, rows, answer, ran, proposals, faults, stream, decision, claim,
                    target, paused>>
    BY <1>1 DEF NothingToResume, StopCancelled, CallModel, ReadTurn, Answer, WrapUp, rowVars,
                streamVars
  <2>. QED  BY <2>1, <2>2, <2>3, GatingLoop
<1>. QED  BY <1>1, GatingRebuild, GatingRunTool, GatingSettle, GatingPropose DEF Work

\* A stream yields, ends and closes: the close puts the newest card up.
LEMMA GatingStream ==
    ASSUME Gating, Parking', NEW l \in Legs, Stream(l)
    PROVE  Gating'
<1>t. GateTypes /\ LegTypes
  BY GateTypesHold DEF GateTypes
<1>1. LegOpen(l)
  BY DEF Stream, StreamEvent, StreamEnds, CloseRun, LegOpen
<1>2. run.status # "awaiting_approval" /\ run.token = 0
  BY <1>1 DEF Gating, Parking, ParkedRunHasNoWorker, TokenIffAwaiting, LegOpen
<1>3. UNCHANGED <<rows, answer, ran, proposals, decision, claim, worker, target, paused>>
  BY DEF Stream, StreamEvent, StreamEnds, CloseRun, rowVars, workerVars
<1>4. \A m \in Legs : /\ LegOpen(m)' => LegOpen(m)
                      /\ stream'[m] = "checked" => stream[m] = "checked"
  BY <1>t, <1>1 DEF Stream, StreamEvent, StreamEnds, CloseRun, LegTypes, LegOpen
<1>5. /\ faults' = 0 => faults = 0
      /\ \/ run' = run
         \/ /\ run.status # "deleted" /\ run'.status # "deleted"
            /\ run'.token \in {0, paused[l]}
  <2>1. CASE CloseRun(l)
    <3>1. faults' = 0 => faults = 0
      BY <1>t, <2>1 DEF CloseRun, GateTypes
    <3>2. run' = run \/ (run.status # "deleted" /\ run' = ClosedRow(l))
      BY <2>1 DEF CloseRun, Exists
    <3>3. ClosedRow(l).status # "deleted" /\ ClosedRow(l).token \in {0, paused[l]}
      <4>1. outcome[l] \in {"none", "done", "error", "step_cap"}
        BY DEF Gating, Parking, TypeOK
      <4>. QED  BY <1>t, <1>2, <4>1 DEF ClosedRow, LegTypes
    <3>. QED  BY <3>1, <3>2, <3>3
  <2>2. CASE ~CloseRun(l)
    BY <2>2 DEF Stream, StreamEvent, StreamEnds, rowVars
  <2>. QED  BY <2>1, <2>2
<1>6. run'.token \in {0, proposals} /\ (Asking' => Asking)
  <2>1. paused[l] \in {0, proposals}
    BY <1>1 DEF Gating, NewestOnly
  <2>2. run'.token \in {0, proposals} /\ (run'.token # 0 => paused[l] # 0)
    BY <1>2, <1>5, <2>1
  <2>3. paused[l] # 0 => Asking
    BY <1>1 DEF Asking
  <2>4. ASSUME NEW m \in Legs, LegOpen(m)', paused'[m] # 0 PROVE Asking
    <3>1. LegOpen(m) /\ paused[m] # 0
      BY <1>3, <1>4, <2>4
    <3>. QED  BY <3>1 DEF Asking
  <2>. QED  BY <2>2, <2>3, <2>4 DEF Asking
<1>7. NewestOnly'
  <2>1. \A m \in Legs : LegOpen(m)' => paused'[m] \in {0, proposals'}
    BY <1>3, <1>4 DEF Gating, NewestOnly
  <2>2. run'.token \in {0, proposals'}
    BY <1>3, <1>6
  <2>. QED  BY <1>3, <2>1, <2>2 DEF Gating, NewestOnly
<1>8. Unspent'
  BY <1>3, <1>4, <1>6 DEF Gating, Unspent
<1>9. OneLive' /\ PendingRows'
  BY <1>3, <1>5, <1>6 DEF Gating, OneLive, LegLive, PendingRows
<1>. QED  BY <1>7, <1>8, <1>9 DEF Gating

LEMMA GatingRest ==
    ASSUME Gating, Parking',
           \/ \E l \in Legs : Crash(l)
           \/ Age \/ Reap \/ Delete \/ Quiet
    PROVE  Gating'
<1>t. GateTypes /\ LegTypes
  BY GateTypesHold DEF GateTypes
<1>1. ASSUME NEW l \in Legs, Crash(l) PROVE Gating'
  <2>1. /\ UNCHANGED <<run, rows, answer, ran, proposals, faults, decision, claim, target,
                       paused>>
        /\ stream' = [stream EXCEPT ![l] = "dead"]
        /\ worker' = [worker EXCEPT ![l] = "ended"]
    BY <1>1 DEF Crash, rowVars
  <2>2. /\ worker'[l] = "ended" /\ stream'[l] = "dead"
        /\ \A m \in Legs : m # l => worker'[m] = worker[m] /\ stream'[m] = stream[m]
    BY <1>t, <2>1 DEF LegTypes
  <2>3. Asking' => Asking
    BY <2>1, <2>2 DEF Asking, LegOpen
  <2>4. NewestOnly' /\ Unspent'
    BY <2>1, <2>2, <2>3 DEF Gating, NewestOnly, Unspent, LegOpen
  <2>. QED  BY <2>1, <2>2, <2>3, <2>4 DEF Gating, OneLive, LegLive, PendingRows
<1>2. CASE Age \/ Reap \/ Delete
  <2>1. /\ UNCHANGED <<answer, ran, proposals, faults, stream, decision, claim, worker,
                       target, paused>>
        /\ rows' = rows \/ rows' = [c \in Cards |-> "absent"]
    BY <1>2 DEF Age, Reap, Delete, streamVars, workerVars
  <2>2. /\ run'.token \in {0, run.token}
        /\ run'.status = "deleted" =>
              (run.status = "deleted" /\ rows' = rows) \/ rows' = [c \in Cards |-> "absent"]
    <3>1. CASE Age
      BY <1>t, <3>1 DEF Age, LegTypes
    <3>2. CASE Reap
      BY <1>t, <3>2 DEF Reap, LegTypes
    <3>3. CASE Delete
      BY <3>3 DEF Delete
    <3>. QED  BY <1>2, <3>1, <3>2, <3>3
  <2>3. Asking' => Asking
    BY <2>1, <2>2 DEF Asking, LegOpen
  <2>4. \A c \in Cards : rows'[c] \in {rows[c], "absent"}
    BY <1>t, <2>1 DEF GateTypes
  <2>5. (\A c \in Cards : rows'[c] # "pending") \/ rows' = rows
    BY <2>1
  <2>6. NewestOnly' /\ Unspent'
    BY <2>1, <2>2, <2>3, <2>4 DEF Gating, NewestOnly, Unspent, LegOpen
  <2>7. PendingRows'
    BY <2>1, <2>2, <2>3, <2>5 DEF Gating, PendingRows
  <2>. QED  BY <2>1, <2>6, <2>7 DEF Gating, OneLive, LegLive
<1>3. CASE Quiet
  BY <1>3 DEF Quiet, vars, rowVars, streamVars, workerVars, Gating, NewestOnly, Unspent,
     OneLive, PendingRows, Asking, LegOpen, LegLive
<1>. QED  BY <1>1, <1>2, <1>3

LEMMA GatingStep == OneLoss /\ Gating /\ [Next]_vars => Gating'
<1>. SUFFICES ASSUME OneLoss, Gating, [Next]_vars PROVE Gating'
  OBVIOUS
<1>1. Parking'
  BY ParkingStep DEF Gating
<1>2. ASSUME NEW d \in Decides, Decide(d) PROVE Gating'
  BY <1>1, <1>2, GatingDecide
<1>3. ASSUME NEW l \in Legs, Work(l) \/ Stream(l) \/ Crash(l) PROVE Gating'
  BY <1>1, <1>3, GatingWork, GatingStream, GatingRest
<1>4. CASE Age \/ Reap \/ Delete \/ Quiet
  BY <1>1, <1>4, GatingRest
<1>5. CASE UNCHANGED vars
  BY <1>1, <1>5 DEF vars, rowVars, streamVars, workerVars, Gating, NewestOnly, Unspent,
     OneLive, PendingRows, Asking, LegOpen, LegLive
<1>. QED  BY <1>2, <1>3, <1>4, <1>5 DEF Next

LEMMA GatingAlways == ASSUME OneLoss PROVE Spec => []Gating
<1>1. Gating /\ [Next]_vars => Gating'
  BY GatingStep
<1>. QED  BY <1>1, GatingInit, PTL DEF Spec

\* A resumed leg acts on the row of the card the person answered, however many
\* cards the run showed and decides raced for, unless two writes were lost.
THEOREM ActsOnAnswered == ASSUME OneLoss PROVE Spec => []ActsOnAnsweredStep
<1>1. Gating => ActsOnAnsweredStep
  BY DEF Gating, NewestOnly, ActsOnAnsweredStep, Legs
<1>. QED  BY <1>1, GatingAlways, PTL

-----------------------------------------------------------------------------
(* Every step of the run is a step of the gate, or none.                    *)

LEMMA GateStep ==
    ASSUME Gating, [Next]_vars
    PROVE  [Gate!GateNext]_(Gate!gateVars)
<1>t. GateTypes /\ LegTypes
  BY GateTypesHold DEF GateTypes
<1>0. ASSUME UNCHANGED <<answer, ran>>, run'.token = run.token
      PROVE  UNCHANGED Gate!gateVars
  BY <1>0 DEF Gate!gateVars
<1>1. ASSUME NEW d \in Decides, Decide(d) PROVE [Gate!GateNext]_(Gate!gateVars)
  <2>1. CASE DecideConsume(d) /\ run.status = "awaiting_approval" /\ run.token = claim[d]
    <3>1. /\ stream[d] = "checked" /\ run.token # 0 /\ run.token = proposals
          /\ answer' = [answer EXCEPT ![run.token] = decision[d]] /\ UNCHANGED ran
          /\ run' = [run EXCEPT !.status = "running", !.token = 0]
      BY <2>1 DEF DecideConsume, Gating, Parking, TokenIffAwaiting, NewestOnly
    <3>2. run'.token = 0
      BY <1>t, <3>1 DEF LegTypes
    <3>3. answer[run.token] = "none"
      BY <3>1 DEF Gating, Unspent, Asking
    <3>4. decision[d] \in {"approve", "reject"}
      BY <3>1 DEF Gating, Unspent, Legs
    <3>. QED  BY <3>1, <3>2, <3>3, <3>4 DEF Gate!Respond, Gate!GateNext
  <2>2. CASE ~(DecideConsume(d) /\ run.status = "awaiting_approval" /\ run.token = claim[d])
    BY <1>0, <1>1, <2>2 DEF Decide, DecideRead, DecideConsume, DecideFails, rowVars
  <2>. QED  BY <2>1, <2>2
<1>2. ASSUME NEW l \in Legs, Work(l) PROVE [Gate!GateNext]_(Gate!gateVars)
  <2>1. CASE RunTool(l)
    <3>1. /\ worker[l] = "act" /\ decision[l] = "approve"
          /\ ran' = [ran EXCEPT ![target[l]] = @ + 1] /\ UNCHANGED <<answer, run>>
      BY <2>1 DEF RunTool
    <3>2. target[l] = proposals /\ proposals \in Cards
      BY <3>1 DEF Gating, NewestOnly
    <3>3. run.token = 0
      BY <3>1 DEF Gating, Parking, TokenIffAwaiting, ParkedRunHasNoWorker
    <3>4. answer[proposals] = "approve" /\ ran[proposals] = 0
      BY <3>1 DEF Gating, Unspent
    <3>5. ran' = [ran EXCEPT ![proposals] = 1]
      BY <1>t, <3>1, <3>2, <3>4 DEF GateTypes
    <3>6. \A c \in (proposals + 1)..MaxProposals : answer[c] = "none"
      BY <1>t, CardFacts DEF Gating, NewestOnly, GateTypes
    <3>7. Gate!Execute(proposals)
      BY <3>1, <3>3, <3>4, <3>5, <3>6 DEF Gate!Execute
    <3>8. proposals \in 1..MaxProposals
      BY <3>2 DEF Cards
    <3>. QED  BY <3>7, <3>8 DEF Gate!GateNext
  <2>2. CASE ~RunTool(l)
    <3>1. UNCHANGED <<answer, ran, run>>
      BY <1>2, <2>2 DEF Work, Rebuild, NothingToResume, SettleWithoutRunning, SaveResult,
         StopCancelled, CallModel, ReadTurn, Propose, Answer, WrapUp, rowVars
    <3>. QED  BY <1>0, <3>1
  <2>. QED  BY <2>1, <2>2
<1>3. ASSUME NEW l \in Legs, Stream(l) PROVE [Gate!GateNext]_(Gate!gateVars)
  <2>1. CASE CloseRun(l)
    <3>1. LegOpen(l) /\ UNCHANGED <<answer, ran>>
      BY <2>1 DEF CloseRun, LegOpen
    <3>2. run.token = 0
      BY <3>1 DEF Gating, Parking, ParkedRunHasNoWorker, TokenIffAwaiting, LegOpen
    <3>3. run'.token \in {0, paused[l]}
      BY <1>t, <2>1, <3>2 DEF CloseRun, ClosedRow, LegTypes
    <3>4. CASE run'.token # 0
      <4>1. run'.token = proposals /\ Asking
        BY <3>1, <3>3, <3>4 DEF Gating, NewestOnly, Asking
      <4>2. proposals \in Cards /\ answer[proposals] = "none"
        BY <4>1 DEF Gating, Unspent
      <4>3. \A c \in proposals..MaxProposals : answer[c] = "none"
        <5>1. \A c \in proposals..MaxProposals : c \in Cards /\ (c = proposals \/ c > proposals)
          BY <4>2, CardFacts
        <5>. QED  BY <4>2, <5>1 DEF Gating, NewestOnly
      <4>4. Gate!Show(proposals)
        BY <3>1, <3>2, <4>1, <4>3 DEF Gate!Show
      <4>5. proposals \in 1..MaxProposals
        BY <4>2 DEF Cards
      <4>. QED  BY <4>4, <4>5 DEF Gate!GateNext
    <3>. QED  BY <1>0, <3>1, <3>2, <3>4
  <2>2. CASE ~CloseRun(l)
    BY <1>0, <1>3, <2>2 DEF Stream, StreamEvent, StreamEnds, rowVars
  <2>. QED  BY <2>1, <2>2
<1>4. CASE Delete
  <2>1. UNCHANGED <<answer, ran>> /\ run'.token = 0
    BY <1>4 DEF Delete
  <2>2. CASE run.token = 0
    BY <1>0, <2>1, <2>2
  <2>3. CASE run.token # 0
    BY <2>1, <2>3 DEF Gate!Withdraw, Gate!GateNext
  <2>. QED  BY <2>2, <2>3
<1>5. CASE Age \/ Reap \/ Quiet \/ UNCHANGED vars \/ \E l \in Legs : Crash(l)
  <2>1. UNCHANGED <<answer, ran>>
    BY <1>5 DEF Age, Reap, Quiet, vars, rowVars, Crash
  <2>2. run'.token = run.token
    BY <1>5, <1>t DEF Age, Reap, Quiet, vars, rowVars, Crash, LegTypes
  <2>. QED  BY <1>0, <2>1, <2>2
<1>. QED  BY <1>1, <1>2, <1>3, <1>4, <1>5 DEF Next

\* The run implements the approval gate: a write executes at most once, only if
\* its own card was approved, and before the next card is shown.
THEOREM GateKept == ASSUME OneLoss PROVE Spec => ImplementsGate
<1>1. Init => Gate!GateInit
  BY DEF Init, Gate!GateInit, Cards
<1>. QED  BY <1>1, GateStep, GatingAlways, PTL
          DEF Spec, ImplementsGate, Gate!GateSpec
-----------------------------------------------------------------------------
(* A closed run stays closed.                                               *)

\* A leg streams while its run is running, or was erased or reaped under it;
\* the first leg closes before its run is old.
Streaming ==
    /\ \A l \in Legs : LegOpen(l) =>
          \/ run.status \in {"running", "deleted"}
          \/ run.status = "error" /\ run.old /\ l # Ask
    /\ LegOpen(Ask) => ~run.old
    /\ run.status = "deleted" => \A c \in Cards : rows[c] = "absent"

LEMMA StreamingStep == Parking /\ Streaming /\ [Next]_vars => Streaming'
<1>. SUFFICES ASSUME Parking, Streaming, [Next]_vars PROVE Streaming'
  OBVIOUS
<1>t. LegTypes
  BY LegTypesHold DEF Parking
<1>a. Ask \in Legs /\ Ask \notin Decides
  BY AskAssumption DEF Legs
<1>1. ASSUME NEW d \in Decides, Decide(d) PROVE Streaming'
  <2>1. /\ UNCHANGED rows /\ d # Ask
        /\ \/ UNCHANGED run
           \/ run' = [run EXCEPT !.status = "running", !.token = 0]
        /\ \A l \in Legs : LegOpen(l)' =>
              LegOpen(l) \/ (l = d /\ run'.status = "running")
    <3>1. CASE DecideConsume(d)
      BY <1>t, <1>a, <3>1 DEF DecideConsume, LegTypes, LegOpen
    <3>2. CASE ~DecideConsume(d)
      BY <1>1, <1>t, <1>a, <3>2 DEF Decide, DecideRead, DecideFails, rowVars, LegTypes, LegOpen
    <3>. QED  BY <3>1, <3>2
  <2>2. run' = run \/ (run'.status = "running" /\ run'.old = run.old)
    BY <1>t, <2>1 DEF LegTypes
  <2>. QED  BY <1>a, <2>1, <2>2 DEF Streaming
<1>2. ASSUME NEW l \in Legs, Work(l) PROVE Streaming'
  <2>1. UNCHANGED <<run, stream>>
    BY <1>2 DEF Work, Rebuild, NothingToResume, SettleWithoutRunning, RunTool,
       SaveResult, StopCancelled, CallModel, ReadTurn, Propose, Answer, WrapUp, rowVars,
       streamVars
  <2>2. run.status = "deleted" => rows' = rows
    BY <1>2 DEF Work, Rebuild, NothingToResume, SettleWithoutRunning, RunTool,
       SaveResult, StopCancelled, CallModel, ReadTurn, Propose, Answer, WrapUp, rowVars,
       WriteRow, Exists
  <2>. QED  BY <2>1, <2>2 DEF Streaming, LegOpen
<1>3. ASSUME NEW l \in Legs, Stream(l) \/ Crash(l) PROVE Streaming'
  <2>1. UNCHANGED rows /\ \A m \in Legs : LegOpen(m)' => LegOpen(m)
    BY <1>3, <1>t DEF Stream, StreamEvent, StreamEnds, CloseRun, Crash, rowVars, LegTypes,
       LegOpen
  <2>2. CASE UNCHANGED run
    BY <1>a, <2>1, <2>2 DEF Streaming
  <2>3. CASE run' # run
    <3>1. /\ CloseRun(l) /\ run' = ClosedRow(l) /\ run.status # "deleted"
      BY <1>3, <2>3 DEF Stream, StreamEvent, StreamEnds, CloseRun, Crash, rowVars, Exists
    <3>2. run'.status # "deleted"
      BY <1>t, <3>1 DEF ClosedRow, LegTypes, TypeOK, Parking
    <3>3. \A m \in Legs : ~LegOpen(m)'
      <4>1. LegOpen(l) /\ ~LegOpen(l)'
        BY <1>t, <3>1 DEF CloseRun, LegTypes, LegOpen
      <4>. QED  BY <2>1, <4>1 DEF Parking, LegDiscipline
    <3>. QED  BY <1>a, <2>1, <3>2, <3>3 DEF Streaming
  <2>. QED  BY <2>2, <2>3
<1>4. CASE Age
  <2>1. /\ UNCHANGED <<stream, rows>> /\ ~LegOpen(Ask)
        /\ run' = [run EXCEPT !.old = TRUE]
    BY <1>4 DEF Age, streamVars, LegOpen
  <2>2. run'.status = run.status /\ run'.old
    BY <1>t, <2>1 DEF LegTypes
  <2>. QED  BY <2>1, <2>2 DEF Streaming, LegOpen
<1>5. CASE Reap
  <2>1. /\ UNCHANGED <<stream, rows>> /\ run.old
        /\ run' = [run EXCEPT !.status = "error", !.finished = TRUE]
    BY <1>5 DEF Reap, streamVars
  <2>2. run'.status = "error" /\ run'.old
    BY <1>t, <2>1 DEF LegTypes
  <2>. QED  BY <1>a, <2>1, <2>2 DEF Streaming, LegOpen
<1>6. CASE Delete
  BY <1>6, <1>a DEF Delete, streamVars, Streaming, LegOpen
<1>7. CASE Quiet \/ UNCHANGED vars
  BY <1>7 DEF Quiet, vars, rowVars, streamVars, Streaming, LegOpen
<1>. QED  BY <1>1, <1>2, <1>3, <1>4, <1>5, <1>6, <1>7 DEF Next

\* No late stream, worker, reaper or decide reopens a closed run, but for the
\* close of a leg that was reaped alive; and nothing comes back after an erase.
THEOREM ClosedStaysClosed == Spec => TerminalIsFinal
<1>1. Init => Streaming
  BY DEF Init, Streaming
<1>2. ASSUME Parking, Streaming, Next
      PROVE  /\ run.status \in Terminal =>
                  \/ run'.status \in {run.status, "deleted"}
                  \/ run.status = "error" /\ run.old
                     /\ \E d \in Decides : stream[d] = "closing"
             /\ run.status = "deleted" =>
                  run'.status = "deleted" /\ \A c \in Cards : rows'[c] = "absent"
  <2>t. LegTypes
    BY <1>2, LegTypesHold DEF Parking
  <2>1. \/ run'.status \in {run.status, "deleted"}
        \/ run.status \in {"awaiting_approval", "running"}
        \/ \E l \in Legs : CloseRun(l) /\ run.status # "deleted"
    <3>1. ASSUME NEW d \in Decides, Decide(d)
          PROVE  run'.status = run.status \/ run.status = "awaiting_approval"
      BY <3>1 DEF Decide, DecideRead, DecideConsume, DecideFails, rowVars
    <3>2. ASSUME NEW l \in Legs, Work(l) \/ Crash(l) PROVE run'.status = run.status
      BY <3>2 DEF Work, Rebuild, NothingToResume, SettleWithoutRunning, RunTool, SaveResult,
         StopCancelled, CallModel, ReadTurn, Propose, Answer, WrapUp, Crash, rowVars
    <3>3. ASSUME NEW l \in Legs, Stream(l)
          PROVE  run'.status = run.status \/ (CloseRun(l) /\ run.status # "deleted")
      BY <3>3 DEF Stream, StreamEvent, StreamEnds, CloseRun, rowVars, Exists
    <3>4. CASE Age \/ Reap \/ Delete \/ Quiet
      BY <2>t, <3>4 DEF Age, Reap, Delete, Quiet, vars, rowVars, LegTypes
    <3>. QED  BY <1>2, <3>1, <3>2, <3>3, <3>4 DEF Next
  <2>2. ASSUME NEW l \in Legs, CloseRun(l), run.status \in Terminal
        PROVE  run.status = "error" /\ run.old /\ \E d \in Decides : stream[d] = "closing"
    <3>1. LegOpen(l) /\ stream[l] = "closing"
      BY <2>2 DEF CloseRun, LegOpen
    <3>2. run.status = "error" /\ run.old /\ l # Ask
      BY <1>2, <2>2, <3>1 DEF Streaming, Terminal
    <3>. QED  BY <3>1, <3>2 DEF Legs
  <2>3. run.status = "deleted" => run'.status = "deleted"
    BY <2>1
  <2>4. Streaming'
    BY <1>2, StreamingStep
  <2>. QED  BY <2>1, <2>2, <2>3, <2>4 DEF Streaming, Terminal
<1>. QED  BY <1>1, <1>2, StreamingStep, ParkingAlways, PTL DEF Spec, TerminalIsFinal

-----------------------------------------------------------------------------
(* An ask that was served is charged.                                       *)

\* An answer comes after the event that charges for it, an end comes last.
InOrder(q) ==
    \A i \in 1..Len(q) :
        /\ q[i].type = "done" => \E j \in 1..(i - 1) : q[j].type = "work"
        /\ q[i].type = "end" => i = Len(q)

NoEnd(q) == \A i \in 1..Len(q) : q[i].type # "end"
HasCard(q) == \E i \in 1..Len(q) : q[i].type = "pending"

\* What the ask's leg may look like while its client has received nothing.
Calm ==
    /\ run.status \notin {"done", "awaiting_approval"}
    /\ \A d \in Decides : ~LegOpen(d)
    /\ stream[Ask] = "open" =>
          /\ outcome[Ask] # "done"
          /\ InOrder(queue[Ask])
          /\ worker[Ask] # "ended" => NoEnd(queue[Ask])
          /\ paused[Ask] # 0 => HasCard(queue[Ask])
    /\ stream[Ask] = "closing" =>
          \/ cancelled[Ask]
          \/ paused[Ask] = 0 /\ outcome[Ask] # "done" /\ worker[Ask] = "ended"

Unserved == ~charged => Calm

\* Events put after others, of which none is the end.
LEMMA PutInOrder ==
    ASSUME NEW q \in Seq(Events), NEW e \in Seq(Events), InOrder(q), InOrder(e), NoEnd(q)
    PROVE  /\ InOrder(q \o e)
           /\ NoEnd(e) => NoEnd(q \o e)
           /\ HasCard(q) \/ HasCard(e) => HasCard(q \o e)
<1>. DEFINE m == Len(q)
            n == Len(e)
            r == q \o e
<1>1. /\ m \in Nat /\ n \in Nat /\ Len(r) = m + n
      /\ \A i \in 1..m : r[i] = q[i]
      /\ \A i \in 1..n : r[m + i] = e[i]
  BY ConcatProperties
<1>2. \A i \in 1..Len(r) : i \in 1..m \/ (i - m \in 1..n /\ r[i] = e[i - m])
  <2>1. ASSUME NEW i \in 1..Len(r), i \notin 1..m PROVE i - m \in 1..n /\ r[i] = e[i - m]
    <3>1. i - m \in 1..n /\ m + (i - m) = i
      BY <1>1, <2>1
    <3>. QED  BY <1>1, <3>1
  <2>. QED  BY <2>1
<1>. HIDE DEF r, m, n
<1>3. ASSUME NEW i \in 1..Len(r)
      PROVE  /\ r[i].type = "done" => \E j \in 1..(i - 1) : r[j].type = "work"
             /\ r[i].type = "end" => i = Len(r)
             /\ NoEnd(e) => r[i].type # "end"
  <2>1. CASE i \in 1..m
    <3>1. r[i] = q[i] /\ r[i].type # "end"
      BY <1>1, <2>1 DEF NoEnd, m
    <3>2. r[i].type = "done" => \E j \in 1..(i - 1) : q[j].type = "work"
      BY <2>1, <3>1 DEF InOrder, m
    <3>3. \A j \in 1..(i - 1) : r[j] = q[j]
      BY <1>1, <2>1
    <3>. QED  BY <3>1, <3>2, <3>3
  <2>2. CASE i - m \in 1..n /\ r[i] = e[i - m]
    <3>1. e[i - m].type = "done" => \E j \in 1..(i - m - 1) : e[j].type = "work"
      BY <2>2 DEF InOrder, n
    <3>2. \A j \in 1..(i - m - 1) : m + j \in 1..(i - 1) /\ r[m + j] = e[j]
      BY <1>1, <2>2
    <3>3. e[i - m].type = "end" => i - m = n
      BY <2>2 DEF InOrder, n
    <3>4. NoEnd(e) => e[i - m].type # "end"
      BY <2>2 DEF NoEnd, n
    <3>. QED  BY <1>1, <2>2, <3>1, <3>2, <3>3, <3>4
  <2>. QED  BY <1>2, <2>1, <2>2
<1>4. InOrder(r) /\ (NoEnd(e) => NoEnd(r))
  BY <1>3 DEF InOrder, NoEnd
<1>5. HasCard(q) \/ HasCard(e) => HasCard(r)
  <2>1. CASE HasCard(q)
    <3>1. PICK i \in 1..m : q[i].type = "pending"
      BY <2>1 DEF HasCard, m
    <3>2. i \in 1..Len(r) /\ r[i].type = "pending"
      BY <1>1, <3>1
    <3>. QED  BY <3>2 DEF HasCard
  <2>2. CASE HasCard(e)
    <3>1. PICK i \in 1..n : e[i].type = "pending"
      BY <2>2 DEF HasCard, n
    <3>2. m + i \in 1..Len(r) /\ r[m + i].type = "pending"
      BY <1>1, <3>1
    <3>. QED  BY <3>2 DEF HasCard
  <2>. QED  BY <2>1, <2>2
<1>. QED  BY <1>4, <1>5 DEF r

\* Taking an event that is neither work nor a card.
LEMMA TakeInOrder ==
    ASSUME NEW q \in Seq(Events), q # <<>>, InOrder(q),
           Head(q).type \notin {"work", "pending", "end"}
    PROVE  /\ Head(q).type # "done"
           /\ InOrder(Tail(q))
           /\ NoEnd(q) => NoEnd(Tail(q))
           /\ HasCard(q) => HasCard(Tail(q))
<1>. DEFINE n == Len(q)
            r == Tail(q)
<1>1. /\ n \in Nat /\ n > 0 /\ Len(r) = n - 1 /\ Head(q) = q[1]
      /\ \A i \in 1..(n - 1) : r[i] = q[i + 1]
  BY HeadTailProperties
<1>. HIDE DEF r, n
<1>2. q[1].type # "done"
  <2>1. 1 \in 1..Len(q) /\ ~\E j \in 1..(1 - 1) : q[j].type = "work"
    BY <1>1 DEF n
  <2>. QED  BY <2>1 DEF InOrder
<1>3. ASSUME NEW i \in 1..Len(r)
      PROVE  /\ r[i].type = "done" => \E j \in 1..(i - 1) : r[j].type = "work"
             /\ r[i].type = "end" => i = Len(r)
             /\ NoEnd(q) => r[i].type # "end"
  <2>1. i + 1 \in 1..n /\ r[i] = q[i + 1]
    BY <1>1
  <2>2. ASSUME r[i].type = "done" PROVE \E j \in 1..(i - 1) : r[j].type = "work"
    <3>1. PICK k \in 1..i : q[k].type = "work"
      BY <2>1, <2>2 DEF InOrder, n
    <3>2. k # 1
      BY <1>1, <3>1
    <3>3. k - 1 \in 1..(i - 1) /\ r[k - 1] = q[k]
      BY <1>1, <3>1, <3>2
    <3>. QED  BY <3>1, <3>3
  <2>3. r[i].type = "end" => i + 1 = n
    BY <2>1 DEF InOrder, n
  <2>4. NoEnd(q) => r[i].type # "end"
    BY <2>1 DEF NoEnd, n
  <2>. QED  BY <1>1, <2>2, <2>3, <2>4
<1>4. ASSUME HasCard(q) PROVE HasCard(r)
  <2>1. PICK k \in 1..n : q[k].type = "pending"
    BY <1>4 DEF HasCard, n
  <2>2. k # 1
    BY <1>1, <2>1
  <2>3. k - 1 \in 1..Len(r) /\ r[k - 1] = q[k]
    BY <1>1, <2>1, <2>2
  <2>. QED  BY <2>1, <2>3 DEF HasCard
<1>. QED  BY <1>1, <1>2, <1>3, <1>4 DEF InOrder, NoEnd, HasCard, r

\* The sentinel put last.
LEMMA EndInOrder ==
    ASSUME NEW q \in Seq(Events), NEW e \in Events, InOrder(q), NoEnd(q), e.type = "end"
    PROVE  /\ InOrder(Append(q, e))
           /\ HasCard(q) => HasCard(Append(q, e))
<1>. DEFINE n == Len(q)
            r == Append(q, e)
<1>1. /\ n \in Nat /\ Len(r) = n + 1 /\ r[n + 1] = e
      /\ \A i \in 1..n : r[i] = q[i]
  BY AppendProperties
<1>. HIDE DEF r, n
<1>2. ASSUME NEW i \in 1..Len(r)
      PROVE  /\ r[i].type = "done" => \E j \in 1..(i - 1) : r[j].type = "work"
             /\ r[i].type = "end" => i = Len(r)
  <2>1. CASE i = n + 1
    BY <1>1, <2>1
  <2>2. CASE i \in 1..n
    <3>1. r[i] = q[i] /\ r[i].type # "end"
      BY <1>1, <2>2 DEF NoEnd, n
    <3>2. r[i].type = "done" => \E j \in 1..(i - 1) : q[j].type = "work"
      BY <2>2, <3>1 DEF InOrder, n
    <3>3. \A j \in 1..(i - 1) : r[j] = q[j]
      BY <1>1, <2>2
    <3>. QED  BY <3>1, <3>2, <3>3
  <2>. QED  BY <1>1, <2>1, <2>2
<1>3. ASSUME HasCard(q) PROVE HasCard(r)
  <2>1. PICK i \in 1..n : q[i].type = "pending"
    BY <1>3 DEF HasCard, n
  <2>2. i \in 1..Len(r) /\ r[i].type = "pending"
    BY <1>1, <2>1
  <2>. QED  BY <2>2 DEF HasCard
<1>. QED  BY <1>2, <1>3 DEF InOrder, r

\* The lists of one or two events a worker puts.
LEMMA ShortInOrder ==
    /\ InOrder(<<>>) /\ NoEnd(<<>>)
    /\ \A e \in Events : e.type \notin {"done", "end"} =>
          InOrder(<<e>>) /\ NoEnd(<<e>>) /\ (e.type = "pending" => HasCard(<<e>>))
    /\ InOrder(<<Event("work"), Event("done")>>) /\ NoEnd(<<Event("work"), Event("done")>>)
    /\ InOrder(<<Event("error"), Event("end")>>)
<1>1. InOrder(<<>>) /\ NoEnd(<<>>)
  BY DEF InOrder, NoEnd
<1>2. ASSUME NEW e \in Events, e.type \notin {"done", "end"}
      PROVE  InOrder(<<e>>) /\ NoEnd(<<e>>) /\ (e.type = "pending" => HasCard(<<e>>))
  <2>1. Len(<<e>>) = 1 /\ <<e>>[1] = e /\ 1..1 = {1}
    OBVIOUS
  <2>. QED  BY <1>2, <2>1 DEF InOrder, NoEnd, HasCard
<1>3. InOrder(<<Event("work"), Event("done")>>) /\ NoEnd(<<Event("work"), Event("done")>>)
  <2>. DEFINE q == <<Event("work"), Event("done")>>
  <2>1. Len(q) = 2 /\ q[1].type = "work" /\ q[2].type = "done"
    BY DEF Event
  <2>. HIDE DEF q
  <2>2. \A i \in 1..Len(q) : q[i].type # "end" /\ (q[i].type = "done" => 1 \in 1..(i - 1))
    BY <2>1
  <2>3. \A i \in 1..Len(q) : q[i].type = "done" => \E j \in 1..(i - 1) : q[j].type = "work"
    BY <2>1, <2>2
  <2>4. InOrder(q) /\ NoEnd(q)
    BY <2>2, <2>3 DEF InOrder, NoEnd
  <2>. QED  BY <2>4 DEF q
<1>4. InOrder(<<Event("error"), Event("end")>>)
  <2>. DEFINE q == <<Event("error"), Event("end")>>
  <2>1. Len(q) = 2 /\ q[1].type = "error" /\ q[2].type = "end"
    BY DEF Event
  <2>. HIDE DEF q
  <2>2. \A i \in 1..Len(q) : q[i].type # "done" /\ (q[i].type = "end" => i = Len(q))
    BY <2>1
  <2>3. InOrder(q)
    BY <2>2 DEF InOrder
  <2>. QED  BY <2>3 DEF q
<1>. QED  BY <1>1, <1>2, <1>3, <1>4

\* What one step of the ask's worker puts on its queue.
LEMMA AskPuts ==
    ASSUME Parking, stream[Ask] = "open", Work(Ask)
    PROVE  \E e \in Seq(Events) :
              /\ InOrder(e)
              /\ queue'[Ask] = queue[Ask] \o e
              /\ worker'[Ask] # "ended" => NoEnd(e)
              /\ paused'[Ask] # 0 => HasCard(e)
<1>. DEFINE Puts(e) == /\ e \in Seq(Events) /\ InOrder(e)
                       /\ queue'[Ask] = queue[Ask] \o e
                       /\ worker'[Ask] # "ended" => NoEnd(e)
                       /\ paused'[Ask] # 0 => HasCard(e)
<1>a. /\ Ask \in Legs /\ queue \in [Legs -> Seq(Events)] /\ queue[Ask] \in Seq(Events)
      /\ worker \in [Legs -> Workers] /\ paused \in [Legs -> 0..MaxProposals]
  BY DEF Legs, Parking, TypeOK
<1>b. worker[Ask] # "ended" /\ paused[Ask] = 0
  <2>1. worker[Ask] # "ended"
    BY DEF Work, Rebuild, NothingToResume, SettleWithoutRunning, RunTool,
       SaveResult, StopCancelled, CallModel, ReadTurn, Propose, Answer, WrapUp
  <2>. QED  BY <1>a, <2>1 DEF Parking, LegDiscipline
<1>c. ASSUME NEW e \in Seq(Events), Emit(Ask, e) PROVE queue'[Ask] = queue[Ask] \o e
  BY <1>a, <1>c DEF Emit
<1>d. ASSUME NEW e \in Seq(Events), InOrder(e), NoEnd(e), EndWorker(Ask, e),
             paused'[Ask] # 0 => HasCard(e)
      PROVE  Puts(Append(e, Event("end")))
  <2>1. Event("end") \in Events /\ Event("end").type = "end"
    BY EventType DEF Event
  <2>2. Append(e, Event("end")) \in Seq(Events)
    BY <2>1, AppendProperties
  <2>3. worker'[Ask] = "ended"
    BY <1>a, <1>d DEF EndWorker
  <2>4. queue'[Ask] = queue[Ask] \o Append(e, Event("end"))
    BY <1>c, <1>d, <2>2 DEF EndWorker
  <2>. QED  BY <1>d, <2>1, <2>2, <2>3, <2>4, EndInOrder
<1>. USE EventType
<1>e. /\ <<>> \in Seq(Events) /\ <<Event("work")>> \in Seq(Events)
      /\ <<Event("work"), Event("done")>> \in Seq(Events)
      /\ <<Event("error")>> \in Seq(Events) /\ <<Event("step_cap")>> \in Seq(Events)
      /\ <<Event("error"), Event("end")>> \in Seq(Events)
  OBVIOUS
<1>f. /\ \A t \in {"work", "error", "step_cap"} : Event(t).type \notin {"done", "end"}
      /\ \A c \in Cards : [type |-> "pending", card |-> c].type = "pending"
  BY DEF Event
<1>1. CASE SettleWithoutRunning(Ask) \/ RunTool(Ask) \/ SaveResult(Ask) \/ CallModel(Ask)
  <2>1. /\ UNCHANGED <<queue, paused>>
    BY <1>1 DEF SettleWithoutRunning, RunTool, SaveResult, CallModel, streamVars
  <2>2. Puts(<<>>)
    BY <1>a, <1>b, <1>e, <2>1, ShortInOrder, ConcatProperties
  <2>. QED  BY <2>2
<1>2. CASE Rebuild(Ask) \/ ReadTurn(Ask)
  <2>1. Emit(Ask, <<Event("work")>>) /\ UNCHANGED paused
    BY <1>2 DEF Rebuild, ReadTurn
  <2>2. Puts(<<Event("work")>>)
    BY <1>b, <1>c, <1>e, <1>f, <2>1, ShortInOrder
  <2>. QED  BY <2>2
<1>3. CASE NothingToResume(Ask)
  <2>1. /\ Emit(Ask, <<Event("error"), Event("end")>>) /\ UNCHANGED paused
        /\ worker'[Ask] = "ended"
    BY <1>a, <1>3 DEF NothingToResume
  <2>2. Puts(<<Event("error"), Event("end")>>)
    BY <1>b, <1>c, <1>e, <2>1, ShortInOrder
  <2>. QED  BY <2>2
<1>4. CASE StopCancelled(Ask) \/ Answer(Ask) \/ WrapUp(Ask)
  <2>1. /\ UNCHANGED paused
        /\ \E e \in {<<>>, <<Event("work"), Event("done")>>, <<Event("error")>>,
                     <<Event("step_cap")>>} : EndWorker(Ask, e)
    BY <1>4 DEF StopCancelled, Answer, WrapUp
  <2>2. PICK e \in {<<>>, <<Event("work"), Event("done")>>, <<Event("error")>>,
                    <<Event("step_cap")>>} : EndWorker(Ask, e)
    BY <2>1
  <2>3. e \in Seq(Events) /\ InOrder(e) /\ NoEnd(e)
    BY <1>e, <1>f, ShortInOrder
  <2>4. Puts(Append(e, Event("end")))
    BY <1>b, <1>d, <2>1, <2>2, <2>3
  <2>. QED  BY <2>4
<1>5. CASE Propose(Ask)
  <2>. DEFINE card == [type |-> "pending", card |-> proposals']
  <2>1. proposals' \in Cards /\ EndWorker(Ask, <<card>>)
    <3>1. proposals \in 0..MaxProposals
      BY DEF Parking, TypeOK
    <3>2. proposals < MaxProposals /\ proposals' = proposals + 1 /\ EndWorker(Ask, <<card>>)
      BY <1>5 DEF Propose
    <3>. QED  BY <3>1, <3>2, BoundsAssumption DEF Cards
  <2>2. card \in Events /\ card.type = "pending"
    BY <1>f, <2>1
  <2>. HIDE DEF card
  <2>3. <<card>> \in Seq(Events) /\ InOrder(<<card>>) /\ NoEnd(<<card>>) /\ HasCard(<<card>>)
    BY <2>2, ShortInOrder
  <2>4. Puts(Append(<<card>>, Event("end")))
    BY <1>d, <2>1, <2>3
  <2>. QED  BY <2>4
<1>. QED  BY <1>1, <1>2, <1>3, <1>4, <1>5 DEF Work

LEMMA CalmStep == Parking /\ Unserved /\ [Next]_vars => Unserved'
<1>. SUFFICES ASSUME Parking, Calm, [Next]_vars, ~charged, ~charged' PROVE Calm'
  <2>1. charged => (charged' \/ ~[Next]_vars)
    BY DEF Next, Decide, DecideRead, DecideConsume, DecideFails, Work, Rebuild,
       NothingToResume, SettleWithoutRunning, RunTool, SaveResult, StopCancelled,
       CallModel, ReadTurn, Propose, Answer, WrapUp, Stream, StreamEvent, StreamEnds,
       CloseRun, Crash, Age, Reap, Delete, Quiet, vars, rowVars
  <2>. QED  BY <2>1 DEF Unserved
<1>t. /\ LegTypes
      /\ queue \in [Legs -> Seq(Events)]
      /\ outcome \in [Legs -> {"none", "done", "error", "step_cap"}]
      /\ cancelled \in [Legs -> BOOLEAN]
  BY LegTypesHold DEF Parking, TypeOK
<1>a. Ask \in Legs /\ Ask \notin Decides /\ Decides \subseteq Legs
  BY AskAssumption DEF Legs
<1>1. ASSUME NEW d \in Decides, Decide(d) PROVE Calm'
  <2>1. /\ UNCHANGED <<run, queue, outcome, paused, cancelled>>
        /\ worker' = worker
        /\ ~LegOpen(d)' /\ \A m \in Legs : m # d => stream'[m] = stream[m]
    BY <1>1, <1>a, <1>t DEF Calm, Decide, DecideRead, DecideConsume, DecideFails, rowVars,
       workerVars, LegTypes, LegOpen
  <2>. QED  BY <1>1, <1>a, <2>1 DEF Calm, LegOpen
<1>2. ASSUME NEW l \in Legs, Work(l) PROVE Calm'
  <2>1. UNCHANGED <<run, stream, outcome, cancelled>>
    BY <1>2 DEF Work, Rebuild, NothingToResume, SettleWithoutRunning, RunTool,
       SaveResult, StopCancelled, CallModel, ReadTurn, Propose, Answer, WrapUp, rowVars,
       streamVars
  <2>2. CASE l # Ask
    <3>1. queue'[Ask] = queue[Ask] /\ worker'[Ask] = worker[Ask] /\ paused'[Ask] = paused[Ask]
      BY <1>2, <1>a, <1>t, <2>2 DEF Work, Rebuild, NothingToResume, SettleWithoutRunning,
         RunTool, SaveResult, StopCancelled, CallModel, ReadTurn, Propose, Answer, WrapUp,
         EndWorker, Emit, streamVars, LegTypes
    <3>. QED  BY <2>1, <3>1 DEF Calm, LegOpen
  <2>3. CASE l = Ask /\ stream[Ask] = "open"
    <3>1. PICK e \in Seq(Events) :
             /\ InOrder(e)
             /\ queue'[Ask] = queue[Ask] \o e
             /\ worker'[Ask] # "ended" => NoEnd(e)
             /\ paused'[Ask] # 0 => HasCard(e)
      BY <1>2, <2>3, AskPuts
    <3>2. worker[Ask] # "ended"
      BY <1>2, <2>3 DEF Work, Rebuild, NothingToResume, SettleWithoutRunning, RunTool,
         SaveResult, StopCancelled, CallModel, ReadTurn, Propose, Answer, WrapUp
    <3>3. queue[Ask] \in Seq(Events) /\ InOrder(queue[Ask]) /\ NoEnd(queue[Ask])
      BY <1>a, <1>t, <2>3, <3>2 DEF Calm
    <3>4. /\ InOrder(queue'[Ask])
          /\ NoEnd(e) => NoEnd(queue'[Ask])
          /\ HasCard(e) => HasCard(queue'[Ask])
      BY <3>1, <3>3, PutInOrder
    <3>. QED  BY <2>1, <2>3, <3>1, <3>4 DEF Calm, LegOpen
  <2>4. CASE l = Ask /\ stream[Ask] # "open"
    <3>1. worker[Ask] # "ended"
      BY <1>2, <2>4 DEF Work, Rebuild, NothingToResume, SettleWithoutRunning, RunTool,
         SaveResult, StopCancelled, CallModel, ReadTurn, Propose, Answer, WrapUp
    <3>. QED  BY <2>1, <2>4, <3>1 DEF Calm, LegOpen
  <2>. QED  BY <2>2, <2>3, <2>4
<1>3. ASSUME NEW l \in Legs, Stream(l) PROVE Calm'
  <2>1. l = Ask
    <3>1. LegOpen(l)
      BY <1>3 DEF Stream, StreamEvent, StreamEnds, CloseRun, LegOpen
    <3>. QED  BY <3>1 DEF Calm, Legs
  <2>2. /\ UNCHANGED <<worker, paused>>
        /\ \A m \in Legs : m # Ask => stream'[m] = stream[m]
    BY <1>3, <1>t, <2>1 DEF Stream, StreamEvent, StreamEnds, CloseRun, workerVars, LegTypes
  <2>3. \A d \in Decides : ~LegOpen(d)'
    BY <1>a, <2>2 DEF Calm, LegOpen
  <2>4. ASSUME NEW gone \in BOOLEAN, StreamEvent(Ask, gone) PROVE Calm'
    <3>1. /\ stream[Ask] = "open" /\ queue[Ask] # <<>> /\ run' = run
          /\ Head(queue[Ask]).type \notin {"work", "pending", "end"}
      BY <2>4 DEF StreamEvent
    <3>2. queue[Ask] \in Seq(Events) /\ InOrder(queue[Ask])
      BY <1>a, <1>t, <3>1 DEF Calm
    <3>3. /\ Head(queue[Ask]).type # "done"
          /\ InOrder(Tail(queue[Ask]))
          /\ NoEnd(queue[Ask]) => NoEnd(Tail(queue[Ask]))
          /\ HasCard(queue[Ask]) => HasCard(Tail(queue[Ask]))
      BY <3>1, <3>2, TakeInOrder
    <3>4. outcome'[Ask] # "done"
      BY <1>a, <1>t, <2>4, <3>1, <3>3 DEF StreamEvent, Calm
    <3>5. CASE gone
      <4>1. cancelled'[Ask] /\ stream'[Ask] = "closing"
        BY <1>a, <1>t, <2>4, <3>5 DEF StreamEvent, LegTypes
      <4>. QED  BY <2>3, <3>1, <4>1 DEF Calm
    <3>6. CASE ~gone
      <4>1. queue'[Ask] = Tail(queue[Ask]) /\ stream' = stream
        BY <1>a, <1>t, <2>4, <3>6 DEF StreamEvent
      <4>. QED  BY <2>2, <2>3, <3>1, <3>3, <3>4, <4>1 DEF Calm
    <3>. QED  BY <3>5, <3>6
  <2>5. CASE StreamEnds(Ask)
    <3>1. /\ stream[Ask] = "open" /\ queue[Ask] # <<>> /\ Head(queue[Ask]).type = "end"
          /\ stream'[Ask] = "closing" /\ UNCHANGED <<run, outcome>>
      BY <1>a, <1>t, <2>5 DEF StreamEnds, rowVars, LegTypes
    <3>2. queue[Ask] \in Seq(Events) /\ InOrder(queue[Ask])
      BY <1>a, <1>t, <3>1 DEF Calm
    <3>3. 1 \in 1..Len(queue[Ask]) /\ queue[Ask][1].type = "end"
      BY <3>1, <3>2, HeadTailProperties
    <3>4. Len(queue[Ask]) = 1
      BY <3>2, <3>3 DEF InOrder
    <3>5. ~NoEnd(queue[Ask]) /\ ~HasCard(queue[Ask])
      BY <3>3, <3>4 DEF NoEnd, HasCard
    <3>. QED  BY <2>2, <2>3, <3>1, <3>5 DEF Calm
  <2>6. CASE CloseRun(Ask)
    <3>1. stream[Ask] = "closing" /\ stream'[Ask] = "closed"
      BY <1>a, <1>t, <2>6 DEF CloseRun, LegTypes
    <3>2. run' = run \/ run' = ClosedRow(Ask)
      BY <2>6 DEF CloseRun
    <3>3. ClosedRow(Ask).status \notin {"done", "awaiting_approval"}
      BY <1>a, <1>t, <3>1 DEF ClosedRow, Calm, LegTypes
    <3>. QED  BY <2>3, <3>1, <3>2, <3>3 DEF Calm
  <2>. QED  BY <1>3, <2>1, <2>4, <2>5, <2>6 DEF Stream
<1>4. ASSUME NEW l \in Legs, Crash(l) PROVE Calm'
  <2>1. /\ UNCHANGED <<run, outcome, cancelled, paused>>
        /\ stream'[l] = "dead"
        /\ \A m \in Legs : m # l => /\ stream'[m] = stream[m] /\ worker'[m] = worker[m]
                                    /\ queue'[m] = queue[m]
    BY <1>4, <1>t DEF Crash, rowVars, LegTypes
  <2>. QED  BY <1>a, <2>1 DEF Calm, LegOpen
<1>5. CASE Age \/ Reap \/ Delete
  <2>1. UNCHANGED <<streamVars, workerVars>>
    BY <1>5 DEF Age, Reap, Delete
  <2>2. run'.status \in {run.status, "error", "deleted"}
    <3>1. CASE Age \/ Reap
      BY <1>t, <3>1 DEF Age, Reap, LegTypes
    <3>2. CASE Delete
      BY <3>2 DEF Delete
    <3>. QED  BY <1>5, <3>1, <3>2
  <2>. QED  BY <2>1, <2>2 DEF Calm, LegOpen, streamVars, workerVars
<1>6. CASE Quiet \/ UNCHANGED vars
  BY <1>6 DEF Quiet, vars, rowVars, streamVars, workerVars, Calm, LegOpen, InOrder, NoEnd,
     HasCard
<1>. QED  BY <1>1, <1>2, <1>3, <1>4, <1>5, <1>6 DEF Next

\* Whoever got an answer or a card was charged for the ask, whichever way the
\* stream ended and whatever leg closed the run.
THEOREM ServedIsCharged == Spec => []ServedRunIsCharged
<1>1. Init => Unserved
  <2>1. ASSUME Init PROVE Calm
    <3>1. /\ run.status = "running" /\ stream[Ask] = "open" /\ outcome[Ask] = "none"
          /\ queue[Ask] = <<>> /\ paused[Ask] = 0
          /\ \A d \in Decides : stream[d] = "idle"
      BY <2>1, AskAssumption DEF Init, Legs
    <3>. QED  BY <3>1, ShortInOrder DEF Calm, LegOpen
  <2>. QED  BY <2>1 DEF Unserved
<1>2. Unserved => ServedRunIsCharged
  BY DEF Unserved, Calm, ServedRunIsCharged
<1>. QED  BY <1>1, <1>2, CalmStep, ParkingAlways, PTL DEF Spec
=============================================================================
