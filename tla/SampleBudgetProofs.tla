------------------------- MODULE SampleBudgetProofs -------------------------
(***************************************************************************)
(* Proofs about SampleBudget, for every set of requests, every budget and  *)
(* any number of calls.                                                    *)
(***************************************************************************)
EXTENDS SampleBudget, TLAPS

-----------------------------------------------------------------------------
(* Types *)

\* What the assumptions say of the requests a caller may make.
LEMMA Constants ==
    /\ Nothing \in Held /\ Requests \subseteq Held
    /\ \A r \in Requests : r.schema \in Schemas /\ r.node \in Nodes /\ r.sample \in Samples
    /\ Unsent \notin Schemas /\ Unsent \notin Nodes /\ Unsent \notin Samples
BY RequestAssumption DEF Nothing, Held, Triple

\* A return from grade() leaves the caller's variables well typed.
LEMMA ReturnType ==
    ASSUME CallType, NEW r \in Held, NEW v \in Outcomes, NEW about \in Held,
           calls < MaxCalls, Return(r, v, about)
    PROVE  CallType' /\ pc' = "idle"
BY BudgetAssumption, Constants DEF CallType, Return, Answers

\* The end of a worker process leaves the workers well typed.
LEMMA EndsType ==
    ASSUME WorkerType, NEW w \in Workers, NEW how \in Gone, Ends(w, how)
    PROVE  WorkerType'
BY Constants DEF WorkerType, Ends

\* _kill leaves the workers well typed and the parent with none.
LEMMA KillType ==
    ASSUME WorkerType, proc \in Workers \cup {NoWorker}, Kill
    PROVE  /\ WorkerType'
           /\ proc' = NoWorker /\ queue' = <<>>
           /\ schemaSent' = Unsent /\ nodeSent' = Unsent
<1>1. "killed" \in Gone
  BY DEF Gone
<1>2. CASE proc # NoWorker /\ life[proc] \in Alive /\ Ends(proc, "killed")
  BY <1>1, <1>2, EndsType DEF Kill, ForgetDelivered
<1>3. CASE UNCHANGED <<life, inbox, holds, jobTime>>
  BY <1>3 DEF Kill, ForgetDelivered, WorkerType
<1> QED
  BY <1>2, <1>3 DEF Kill

\* Entering grade() keeps the types.
LEMMA AskType ==
    ASSUME TypeOK, NEW r \in Requests,
           \/ AskExhausted(r) \/ AskReady(r) \/ AskUnhostable(r)
           \/ AskRefused(r) \/ AskStart(r)
    PROVE  TypeOK'
<1> USE DEF TypeOK, CallType, GraderType, WorkerType, PipeType
<1>0. /\ r \in Held /\ Nothing \in Held /\ NoAnswer \in Answers
      /\ "exhausted" \in Outcomes /\ "unhostable" \in Outcomes
      /\ calls < MaxCalls
  BY Constants DEF NoAnswer, Answers, Outcomes, AskExhausted, AskReady,
                   AskUnhostable, AskRefused, AskStart, Ask
<1>1. CASE AskExhausted(r)
  BY <1>0, <1>1, ReturnType DEF AskExhausted, graderVars, workerVars
<1>2. CASE AskReady(r)
  BY <1>0, <1>2 DEF AskReady, graderVars, workerVars
<1>3. CASE AskUnhostable(r)
  BY <1>0, <1>3, ReturnType DEF AskUnhostable, graderVars, workerVars
<1>4. CASE AskRefused(r)
  BY <1>0, <1>4, ReturnType DEF AskRefused, workerVars
<1>5. CASE AskStart(r)
  <2>1. calls + 1 \in Workers /\ "booting" \in Alive
    BY <1>0, BudgetAssumption DEF Workers, Alive
  <2>2. <<[op |-> "ping", value |-> Unsent]>> \in Seq(Messages)
    BY DEF Messages
  <2>3. WorkerType'
    BY <2>1, <2>2, <1>5 DEF AskStart
  <2> QED
    BY <2>1, <2>3, <1>0, <1>5 DEF AskStart, EmptyStderr, Pipes
<1> QED
  BY <1>1, <1>2, <1>3, <1>4, <1>5

\* The handshake of _start, answered or given up, keeps the types.
LEMMA StartType ==
    ASSUME TypeOK, Bookkeeping, StartSucceeds \/ StartFails \/ StartRaises
    PROVE  TypeOK'
<1> USE DEF TypeOK, GraderType, PipeType
<1>0. /\ calls < MaxCalls /\ req \in Held /\ Nothing \in Held
      /\ "exhausted" \in Outcomes /\ "unhostable" \in Outcomes
      /\ Charged \in Int
  BY Constants DEF Bookkeeping, CallBook, InGrade, Outcomes, StartSucceeds, StartFails,
                   StartRaises, CallType, Charged
<1>1. CASE StartSucceeds
  <2>1. CASE pc' = "schema" /\ held' = nodeSent /\ elapsed' = 0 /\ waited' = 0
             /\ UNCHANGED <<req, calls, answer>>
    BY <1>0, <1>1, <2>1 DEF StartSucceeds, workerVars, CallType, WorkerType
  <2>2. CASE Return(req, "exhausted", Nothing)
    BY <1>0, <1>1, <2>2, ReturnType DEF StartSucceeds, workerVars, WorkerType
  <2> QED
    BY <1>1, <2>1, <2>2 DEF StartSucceeds
<1>2. CASE GiveUp
  <2>1. CallType'
    BY <1>0, <1>2, ReturnType DEF GiveUp
  <2>2. /\ WorkerType' /\ proc' = NoWorker /\ queue' = <<>>
        /\ schemaSent' = Unsent /\ nodeSent' = Unsent
    BY <1>2, KillType DEF GiveUp
  <2> QED
    BY <2>1, <2>2, <1>0, <1>2 DEF GiveUp, Pipes
<1> QED
  BY <1>1, <1>2 DEF StartFails, StartRaises

\* Whatever _graded does ends in one of three ways: it goes on with the worker it
\* has, it returns with that worker, or it returns and kills it.
LEMMA GradedType ==
    ASSUME TypeOK, Bookkeeping,
           \/ SendSchema \/ SendNode \/ SendGrade
           \/ ReceiveVerdict \/ ReceiveLoss \/ TimedOut \/ Raise
    PROVE  TypeOK'
<1> USE DEF TypeOK, GraderType, PipeType
<1>0. /\ calls < MaxCalls /\ req \in Held /\ req \in Requests /\ Nothing \in Held
      /\ {"verdict", "budget", "unserializable", "lost", "raised"} \subseteq Outcomes
      /\ pc \in {"schema", "node", "grade", "await"}
  BY Constants DEF Bookkeeping, CallBook, InGrade, Outcomes, SendSchema, SendNode, SendGrade,
                   ReceiveVerdict, ReceiveLoss, TimedOut, Raise
<1>1. /\ startedOnce' \in BOOLEAN /\ unhostable' \in BOOLEAN
      /\ stderr' \in Workers \cup {NoWorker}
      /\ spent' \in Nat /\ refusals' \in Nat /\ PipeType'
  BY DEF GradedFrame, Pipes, SendSchema, SendNode, SendGrade, ReceiveVerdict,
         ReceiveLoss, TimedOut, Raise
<1>2. ASSUME Charge PROVE remaining' \in Int
  BY <1>2 DEF Charge, CallType
<1>3. ASSUME NEW v \in Outcomes, Return(req, v, Nothing), Charge, Kill
      PROVE  TypeOK'
  <2>1. CallType'
    BY <1>0, <1>3, ReturnType
  <2>2. /\ WorkerType' /\ proc' = NoWorker /\ queue' = <<>>
        /\ schemaSent' = Unsent /\ nodeSent' = Unsent
    BY <1>3, KillType
  <2> QED
    BY <2>1, <2>2, <1>1, <1>2, <1>3
<1>4. ASSUME Unserializable PROVE TypeOK'
  <2>1. CallType'
    BY <1>0, <1>4, ReturnType DEF Unserializable
  <2> QED
    BY <2>1, <1>1, <1>2, <1>4 DEF Unserializable, WorkerType
<1>5. ASSUME NEW next \in {"schema", "node", "grade", "await"}, Advance(next),
             waited' \in Nat
      PROVE  CallType' /\ remaining' \in Int
  BY <1>5 DEF Advance, CallType
<1>6. ASSUME NEW next \in {"schema", "node", "grade", "await"}, Skip(next)
      PROVE  TypeOK'
  <2>1. CallType' /\ remaining' \in Int
    BY <1>5, <1>6 DEF Skip, CallType
  <2> QED
    BY <2>1, <1>1, <1>6 DEF Skip, WorkerType
<1>7. ASSUME NEW op, NEW value, [op |-> op, value |-> value] \in Messages,
             Send(op, value)
      PROVE  WorkerType' /\ proc' \in Workers \cup {NoWorker} /\ queue' \in Seq(Lines)
  <2>1. proc \in Workers
    BY <1>0 DEF Bookkeeping, CallBook, InGrade
  <2>2. Append(inbox[proc], [op |-> op, value |-> value]) \in Seq(Messages)
    BY <2>1, <1>7 DEF WorkerType
  <2> QED
    BY <2>1, <2>2, <1>7 DEF Send, WorkerType
<1>8. ASSUME WriteRefused PROVE TypeOK'
  BY <1>0, <1>3, <1>8 DEF WriteRefused, Lost
<1>9. CASE SendSchema
  <2>1. CASE /\ Send("schema", req.schema)
             /\ schemaSent' = req.schema /\ nodeSent' = Unsent
             /\ Advance("node") /\ UNCHANGED waited
    <3>1. [op |-> "schema", value |-> req.schema] \in Messages
      BY <1>0, Constants DEF Messages
    <3>2. CallType' /\ remaining' \in Int
      BY <1>5, <2>1 DEF CallType
    <3> QED
      BY <3>1, <3>2, <2>1, <1>0, <1>1, <1>7, Constants
  <2> QED
    BY <2>1, <1>4, <1>6, <1>8, <1>9 DEF SendSchema
<1>10. CASE SendNode
  <2>1. CASE /\ Send("node", req.node) /\ nodeSent' = req.node
             /\ Advance("grade") /\ UNCHANGED <<waited, schemaSent>>
    <3>1. [op |-> "node", value |-> req.node] \in Messages
      BY <1>0, Constants DEF Messages
    <3>2. CallType' /\ remaining' \in Int
      BY <1>5, <2>1 DEF CallType
    <3> QED
      BY <3>1, <3>2, <2>1, <1>0, <1>1, <1>7, Constants
  <2> QED
    BY <2>1, <1>4, <1>6, <1>8, <1>10 DEF SendNode
<1>11. CASE SendGrade
  <2>1. CASE /\ Send("grade", req.sample) /\ waited' = 0
             /\ Advance("await") /\ UNCHANGED <<schemaSent, nodeSent>>
    <3>1. [op |-> "grade", value |-> req.sample] \in Messages
      BY <1>0, Constants DEF Messages
    <3>2. CallType' /\ remaining' \in Int
      BY <1>5, <2>1 DEF CallType
    <3> QED
      BY <3>1, <3>2, <2>1, <1>1, <1>7
  <2> QED
    BY <2>1, <1>4, <1>8, <1>11 DEF SendGrade
<1>12. CASE ReceiveVerdict
  <2>1. Head(queue) \in Lines /\ Tail(queue) \in Seq(Lines)
    BY <1>12 DEF ReceiveVerdict
  <2>2. CallType'
    BY <2>1, <1>0, <1>12, ReturnType DEF ReceiveVerdict, Lines
  <2> QED
    BY <2>1, <2>2, <1>1, <1>2, <1>12 DEF ReceiveVerdict, WorkerType
<1>13. CASE ReceiveLoss \/ TimedOut \/ Raise
  BY <1>0, <1>3, <1>13 DEF ReceiveLoss, TimedOut, Raise, Lost
<1> QED
  BY <1>9, <1>10, <1>11, <1>12, <1>13

\* close(), or the death of the parent, keeps the types.
LEMMA EndOfParentType ==
    ASSUME TypeOK, Close \/ ParentKilled
    PROVE  TypeOK'
<1> USE DEF TypeOK, CallType, GraderType, PipeType
<1>0. Nothing \in Held /\ NoAnswer \in Answers
  BY Constants DEF NoAnswer, Answers, Outcomes
<1>1. CASE Close
  <2>1. /\ WorkerType' /\ proc' = NoWorker /\ queue' = <<>>
        /\ schemaSent' = Unsent /\ nodeSent' = Unsent
    BY <1>1, KillType DEF Close
  <2>2. CallType' /\ remaining' \in Int
    BY <1>0, <1>1 DEF Close, LocalsGone, Charge
  <2> QED
    BY <2>1, <2>2, <1>1 DEF Close, Pipes
<1>2. CASE ParentKilled
  <2>1. PipeType'
    BY <1>2 DEF ParentKilled
  <2> QED
    BY <2>1, <1>0, <1>2 DEF ParentKilled, LocalsGone, WorkerType
<1> QED
  BY <1>1, <1>2

\* A step of a worker or of its drain thread keeps the types.
LEMMA WorkerStepType ==
    ASSUME TypeOK, NEW w \in Workers, Worker(w) \/ DrainLine(w) \/ DrainEnd(w)
    PROVE  TypeOK'
<1> USE DEF TypeOK
<1>1. /\ OnlyWorkers
      /\ stderr' \in Workers \cup {NoWorker}
  BY DEF GraderType, Worker, Booted, TakeSchema, TakeNode, TakeGrade, TakePing, Take,
         Answer, BrokenPipe, SelfDestruct, StdinEof, Die, DrainLine, DrainEnd, DrainFrame
<1>2. CallType'
  BY <1>1 DEF OnlyWorkers, localVars, CallType
<1>3. ASSUME queue' \in Seq(Lines) PROVE GraderType'
  BY <1>1, <1>3 DEF OnlyWorkers, GraderType
<1>4. CASE Booted(w)
  BY <1>2, <1>3, <1>4 DEF Booted, Pipes, GraderType, WorkerType, PipeType, Alive
<1>5. CASE TakeSchema(w) \/ TakeNode(w) \/ TakeGrade(w) \/ TakePing(w)
  <2>1. /\ Head(inbox[w]) \in Messages /\ Tail(inbox[w]) \in Seq(Messages)
        /\ inbox' = [inbox EXCEPT ![w] = Tail(inbox[w])]
        /\ queue' = queue /\ drained' = drained
    BY <1>5 DEF TakeSchema, TakeNode, TakeGrade, TakePing, Take, WorkerType
  <2>2. GraderType' /\ drained' \in [Workers -> BOOLEAN]
        /\ inbox' \in [Workers -> Seq(Messages)]
    BY <2>1, <1>3 DEF GraderType, WorkerType, PipeType
  <2>3. CASE TakeSchema(w)
    <3>1. Head(inbox[w]).value \in Schemas
      BY <2>1, <2>3 DEF TakeSchema, Take, Messages
    <3> QED
      BY <3>1, <2>2, <2>3, <1>2 DEF TakeSchema, WorkerType, PipeType, Held
  <2>4. CASE TakeNode(w)
    <3>1. Head(inbox[w]).value \in Nodes
      BY <2>1, <2>4 DEF TakeNode, Take, Messages
    <3> QED
      BY <3>1, <2>2, <2>4, <1>2 DEF TakeNode, WorkerType, PipeType, Held
  <2>5. CASE TakeGrade(w)
    <3>1. Head(inbox[w]).value \in Samples /\ "evaluating" \in Alive
      BY <2>1, <2>5 DEF TakeGrade, Take, Messages, Alive
    <3> QED
      BY <3>1, <2>2, <2>5, <1>2 DEF TakeGrade, WorkerType, PipeType, Held
  <2>6. CASE TakePing(w)
    <3>1. [kind |-> "pong", about |-> Nothing] \in Lines
      BY Constants DEF Lines
    <3> QED
      BY <3>1, <2>2, <2>6, <1>2 DEF TakePing, WorkerType, PipeType
  <2> QED
    BY <1>5, <2>3, <2>4, <2>5, <2>6
<1>6. CASE Answer(w)
  <2>1. [kind |-> "verdict", about |-> holds[w]] \in Lines /\ "reading" \in Alive
    BY DEF WorkerType, Lines, Alive
  <2>2. out' \in [Workers -> Seq(Lines)] /\ drained' \in [Workers -> BOOLEAN]
    BY <2>1, <1>6 DEF Answer, PipeType
  <2>3. WorkerType'
    BY <2>1, <1>6 DEF Answer, WorkerType, Held
  <2> QED
    BY <2>2, <2>3, <1>2, <1>3, <1>6 DEF Answer, GraderType, PipeType
<1>7. ASSUME NEW how \in Gone, Ends(w, how) PROVE WorkerType'
  BY <1>7, EndsType
<1>8. "died" \in Gone /\ "watchdog" \in Gone /\ "stdin-eof" \in Gone
  BY DEF Gone
<1>9. CASE BrokenPipe(w) \/ SelfDestruct(w) \/ StdinEof(w)
  BY <1>2, <1>3, <1>7, <1>8, <1>9 DEF BrokenPipe, SelfDestruct, StdinEof, Pipes,
     GraderType, PipeType
<1>10. CASE Die(w)
  <2>1. [kind |-> "torn", about |-> Nothing] \in Lines
    BY Constants DEF Lines
  <2>2. out' \in [Workers -> Seq(Lines)]
    <3>1. CASE UNCHANGED out
      BY <3>1 DEF PipeType
    <3>2. CASE out' = [out EXCEPT ![w] = Append(@, [kind |-> "torn", about |-> Nothing])]
      BY <2>1, <3>2 DEF PipeType
    <3> QED
      BY <3>1, <3>2, <1>10 DEF Die
  <2>3. WorkerType'
    BY <1>7, <1>8, <1>10 DEF Die
  <2> QED
    BY <2>2, <2>3, <1>2, <1>3, <1>10 DEF Die, GraderType, PipeType
<1>11. CASE DrainLine(w)
  <2>1. Head(out[w]) \in Lines /\ Tail(out[w]) \in Seq(Lines)
    BY <1>11 DEF DrainLine, PipeType
  <2>2. queue' \in Seq(Lines)
    BY <2>1, <1>11 DEF DrainLine, GraderType
  <2>3. PipeType'
    BY <2>1, <1>11 DEF DrainLine, PipeType
  <2>4. WorkerType'
    BY <1>11 DEF DrainLine, DrainFrame, WorkerType
  <2> QED
    BY <2>2, <2>3, <2>4, <1>2, <1>3
<1>12. CASE DrainEnd(w)
  <2>1. [kind |-> "eof", about |-> Nothing] \in Lines
    BY Constants DEF Lines
  <2>2. queue' \in Seq(Lines)
    BY <2>1, <1>12 DEF DrainEnd, GraderType
  <2>3. PipeType'
    BY <1>12 DEF DrainEnd, PipeType
  <2>4. WorkerType'
    BY <1>12 DEF DrainEnd, DrainFrame, WorkerType
  <2> QED
    BY <2>2, <2>3, <2>4, <1>2, <1>3
<1> QED
  BY <1>4, <1>5, <1>6, <1>9, <1>10, <1>11, <1>12 DEF Worker

\* The clock keeps the types.
LEMMA TickType ==
    ASSUME TypeOK, Tick
    PROVE  TypeOK'
BY DEF Tick, TypeOK, CallType, GraderType, WorkerType, PipeType, graderVars, Pipes

\* Every step keeps the types.
LEMMA StepType ==
    ASSUME TypeOK, Bookkeeping, [Next]_vars
    PROVE  TypeOK'
<1>1. CASE UNCHANGED vars
  BY <1>1 DEF vars, localVars, graderVars, workerVars, TypeOK, CallType, GraderType,
              WorkerType, PipeType
<1>2. CASE Grader
  BY <1>2, AskType, StartType, GradedType, EndOfParentType DEF Grader
<1>3. CASE \E w \in Workers : Worker(w) \/ DrainLine(w) \/ DrainEnd(w)
  BY <1>3, WorkerStepType
<1>4. CASE Tick
  BY <1>4, TickType
<1> QED
  BY <1>1, <1>2, <1>3, <1>4 DEF Next

-----------------------------------------------------------------------------
(* What a worker holds once it has read its stdin *)

\* A message of another kind does not change what a worker will hold.
LEMMA AppendOther ==
    ASSUME NEW box \in Seq(Messages), NEW m \in Messages, NEW op, NEW now, NEW value,
           m.op # op, WillHold(box, op, now, value)
    PROVE  WillHold(Append(box, m), op, now, value)
BY DEF WillHold

\* The last message of a kind decides what a worker will hold.
LEMMA AppendSame ==
    ASSUME NEW box \in Seq(Messages), NEW m \in Messages, NEW now
    PROVE  WillHold(Append(box, m), m.op, now, m.value)
<1> DEFINE more == Append(box, m)
<1>1. Len(box) + 1 \in 1..Len(more) /\ Len(more) = Len(box) + 1
  OBVIOUS
<1>2. more[Len(box) + 1] = m
  OBVIOUS
<1>3. \A j \in 1..Len(more) : ~(j > Len(box) + 1)
  BY <1>1
<1> QED
  BY <1>1, <1>2, <1>3 DEF WillHold

\* Reading a message of another kind does not change what a worker will hold.
LEMMA TakeOther ==
    ASSUME NEW box \in Seq(Messages), NEW op, NEW now, NEW value,
           box # <<>>, Head(box).op # op, WillHold(box, op, now, value)
    PROVE  WillHold(Tail(box), op, now, value)
<1>1. /\ Len(Tail(box)) = Len(box) - 1 /\ Len(box) \in Nat /\ Len(box) > 0
      /\ \A j \in 1..Len(Tail(box)) : Tail(box)[j] = box[j + 1]
      /\ Head(box) = box[1]
  OBVIOUS
<1>2. CASE \A j \in 1..Len(box) : box[j].op # op
  BY <1>1, <1>2 DEF WillHold
<1>3. CASE \E i \in 1..Len(box) :
             /\ box[i].op = op /\ box[i].value = value
             /\ \A j \in 1..Len(box) : j > i => box[j].op # op
  <2>1. PICK i \in 1..Len(box) :
             /\ box[i].op = op /\ box[i].value = value
             /\ \A j \in 1..Len(box) : j > i => box[j].op # op
    BY <1>3
  <2>2. i # 1 /\ i - 1 \in 1..Len(Tail(box))
    BY <2>1, <1>1
  <2>3. /\ Tail(box)[i - 1].op = op /\ Tail(box)[i - 1].value = value
        /\ \A j \in 1..Len(Tail(box)) : j > i - 1 => Tail(box)[j].op # op
    BY <2>1, <2>2, <1>1
  <2> QED
    BY <2>2, <2>3 DEF WillHold
<1> QED
  BY <1>2, <1>3 DEF WillHold

\* Reading a message of the kind keeps what a worker will hold in the end.
LEMMA TakeSame ==
    ASSUME NEW box \in Seq(Messages), NEW now, NEW value,
           box # <<>>, WillHold(box, Head(box).op, now, value)
    PROVE  WillHold(Tail(box), Head(box).op, Head(box).value, value)
<1> DEFINE op == Head(box).op
<1>1. /\ Len(Tail(box)) = Len(box) - 1 /\ Len(box) \in Nat /\ Len(box) > 0
      /\ \A j \in 1..Len(Tail(box)) : Tail(box)[j] = box[j + 1]
      /\ Head(box) = box[1]
  OBVIOUS
<1>2. PICK i \in 1..Len(box) :
           /\ box[i].op = op /\ box[i].value = value
           /\ \A j \in 1..Len(box) : j > i => box[j].op # op
  BY <1>1 DEF WillHold
<1>3. CASE i = 1
  <2>1. \A j \in 1..Len(Tail(box)) : Tail(box)[j].op # op
    BY <1>1, <1>2, <1>3
  <2> QED
    BY <2>1, <1>1, <1>2, <1>3 DEF WillHold
<1>4. CASE i # 1
  <2>1. i - 1 \in 1..Len(Tail(box))
    BY <1>1, <1>4
  <2>2. /\ Tail(box)[i - 1].op = op /\ Tail(box)[i - 1].value = value
        /\ \A j \in 1..Len(Tail(box)) : j > i - 1 => Tail(box)[j].op # op
    BY <2>1, <1>1, <1>2, <1>4
  <2> QED
    BY <2>1, <2>2 DEF WillHold
<1> QED
  BY <1>3, <1>4

\* A worker with nothing to read holds what it holds.
LEMMA EmptyBox ==
    ASSUME NEW op, NEW now, NEW value
    PROVE  WillHold(<<>>, op, now, value) <=> now = value
BY DEF WillHold

-----------------------------------------------------------------------------
(* Bookkeeping *)

\* A grade() past its entry has a worker, and arguments a caller may pass.
LEMMA InGradeFacts ==
    ASSUME TypeOK, Bookkeeping, InGrade
    PROVE  /\ proc \in Workers /\ proc # NoWorker /\ calls < MaxCalls /\ calls \in Nat
           /\ req \in Requests /\ req.schema \in Schemas /\ req.node \in Nodes
           /\ req.sample \in Samples /\ proc <= calls + 1
BY Constants, BudgetAssumption
   DEF TypeOK, CallType, GraderType, Bookkeeping, CallBook, WorkerBook, InGrade

\* A call returns with its worker killed.
LEMMA KillBook ==
    ASSUME TypeOK, Bookkeeping, Kill, UNCHANGED out,
           (pc' = "idle" /\ calls' = calls + 1 /\ InGrade) \/ pc' = "closed"
    PROVE  Bookkeeping'
<1> USE DEF TypeOK, CallType, GraderType, WorkerType, NoWorker
<1>1. /\ \A w \in Workers : life'[w] = "absent" => life[w] = "absent" /\ inbox'[w] = inbox[w]
                                                 /\ holds'[w] = holds[w]
      /\ \A w \in Workers : life'[w] # "absent" => life[w] # "absent"
  <2>1. CASE proc # NoWorker /\ life[proc] \in Alive /\ Ends(proc, "killed")
    BY <2>1 DEF Ends, Alive
  <2>2. CASE UNCHANGED <<life, inbox, holds, jobTime>>
    BY <2>2
  <2> QED
    BY <2>1, <2>2 DEF Kill
<1>2. proc' = NoWorker /\ schemaSent' = Unsent /\ nodeSent' = Unsent
  BY DEF Kill, ForgetDelivered
<1>3. CallBook'
  BY <1>2 DEF CallBook, InGrade
<1>4. CASE pc' = "idle" /\ calls' = calls + 1 /\ InGrade
  <2>1. proc <= calls + 1 /\ calls \in Nat
    BY <1>4, InGradeFacts
  <2>2. \A w \in Workers : life[w] # "absent" => w <= calls \/ w = proc
    BY <1>4 DEF Bookkeeping, WorkerBook, InGrade
  <2>3. \A w \in Workers : life'[w] # "absent" => w <= calls'
    BY <1>1, <1>4, <2>1, <2>2 DEF Workers
  <2> QED
    BY <1>1, <1>2, <1>3, <1>4, <2>1, <2>3 DEF Bookkeeping, WorkerBook, InGrade
<1>5. CASE pc' = "closed"
  BY <1>1, <1>3, <1>5 DEF Bookkeeping, WorkerBook
<1> QED
  BY <1>4, <1>5

\* Entering grade() keeps the books.
LEMMA AskBook ==
    ASSUME TypeOK, Bookkeeping, NEW r \in Requests,
           \/ AskExhausted(r) \/ AskReady(r) \/ AskUnhostable(r)
           \/ AskRefused(r) \/ AskStart(r)
    PROVE  Bookkeeping'
<1>0. pc = "idle" /\ calls < MaxCalls /\ calls \in Nat /\ proc <= calls
      /\ \A w \in Workers : life[w] # "absent" => w <= calls \/ w = proc
  BY BudgetAssumption DEF TypeOK, CallType, AskExhausted, AskReady, AskUnhostable,
     AskRefused, AskStart, Ask, Bookkeeping, WorkerBook, InGrade
<1>1. CASE AskExhausted(r) \/ AskUnhostable(r) \/ AskRefused(r)
  <2>1. /\ pc' = "idle" /\ calls' = calls + 1
        /\ UNCHANGED <<proc, schemaSent, nodeSent, life, inbox, holds, out>>
    BY <1>1 DEF AskExhausted, AskUnhostable, AskRefused, Return, graderVars, workerVars
  <2>2. CallBook'
    BY <2>1 DEF Bookkeeping, CallBook, InGrade
  <2> QED
    BY <2>1, <2>2, <1>0 DEF Bookkeeping, WorkerBook, InGrade, TypeOK, GraderType,
                            Workers, NoWorker
<1>2. CASE AskReady(r)
  <2>1. CallBook'
    BY <1>0, <1>2 DEF AskReady, graderVars, Bookkeeping, CallBook, InGrade
  <2> QED
    BY <2>1, <1>0, <1>2 DEF AskReady, graderVars, workerVars, Bookkeeping, WorkerBook,
                            InGrade, TypeOK, GraderType, Workers, NoWorker
<1>3. CASE AskStart(r)
  <2>1. CallBook'
    BY <1>0, <1>3 DEF AskStart, Bookkeeping, CallBook, InGrade, NoWorker
  <2>2. /\ pc' = "handshake" /\ proc' = calls + 1 /\ calls' = calls /\ out' = out
        /\ holds' = holds /\ proc = NoWorker
        /\ \A w \in Workers : w # calls + 1 => life'[w] = life[w] /\ inbox'[w] = inbox[w]
        /\ calls + 1 \in Workers => life'[calls + 1] = "booting"
    BY <1>3 DEF AskStart, Pipes, TypeOK, WorkerType
  <2>3. WorkerBook'
    BY <2>2, <1>0 DEF Bookkeeping, WorkerBook, InGrade, Workers, NoWorker
  <2> QED
    BY <2>1, <2>3 DEF Bookkeeping
<1> QED
  BY <1>1, <1>2, <1>3

\* The handshake keeps the books.
LEMMA StartBook ==
    ASSUME TypeOK, Bookkeeping, StartSucceeds \/ StartFails \/ StartRaises
    PROVE  Bookkeeping'
<1>0. pc = "handshake" /\ InGrade
  BY DEF StartSucceeds, StartFails, StartRaises, InGrade
<1>1. CASE StartSucceeds
  <2>1. CASE pc' = "schema" /\ held' = nodeSent /\ UNCHANGED <<req, calls>>
    BY <1>0, <1>1, <2>1 DEF StartSucceeds, workerVars, Bookkeeping, CallBook, WorkerBook,
                            InGrade
  <2>2. CASE Return(req, "exhausted", Nothing)
    <3>1. CallBook'
      BY <1>0, <1>1, <2>2 DEF StartSucceeds, Return, Bookkeeping, CallBook, InGrade
    <3>2. WorkerBook'
      BY <1>0, <1>1, <2>2, InGradeFacts
         DEF StartSucceeds, Return, workerVars, Bookkeeping, WorkerBook, InGrade,
             Workers, NoWorker
    <3> QED
      BY <3>1, <3>2 DEF Bookkeeping
  <2> QED
    BY <1>1, <2>1, <2>2 DEF StartSucceeds
<1>2. CASE GiveUp
  BY <1>0, <1>2, KillBook DEF GiveUp, Return, Pipes
<1> QED
  BY <1>1, <1>2 DEF StartFails, StartRaises

\* _graded keeps the books.
LEMMA GradedBook ==
    ASSUME TypeOK, Bookkeeping,
           \/ SendSchema \/ SendNode \/ SendGrade
           \/ ReceiveVerdict \/ ReceiveLoss \/ TimedOut \/ Raise
    PROVE  Bookkeeping'
<1>0. /\ InGrade /\ pc # "handshake" /\ out' = out
  BY DEF SendSchema, SendNode, SendGrade, ReceiveVerdict, ReceiveLoss, TimedOut, Raise,
         InGrade, GradedFrame, Pipes
<1>1. ASSUME NEW v, Return(req, v, Nothing), Kill PROVE Bookkeeping'
  BY <1>0, <1>1, KillBook DEF Return
\* The call goes on, or returns, with the worker it has.
<1>2. ASSUME UNCHANGED <<proc, life, holds>>,
             \A w \in Workers : life[w] = "absent" => inbox'[w] = inbox[w],
             \/ pc' = "idle" /\ calls' = calls + 1
             \/ pc' \in {"node", "grade", "await"} /\ UNCHANGED <<calls, req>>
      PROVE  Bookkeeping'
  <2>1. proc # NoWorker
    BY <1>0, InGradeFacts
  <2>2. CallBook'
    BY <2>1, <1>0, <1>2 DEF Bookkeeping, CallBook, InGrade
  <2>3. WorkerBook'
    BY <1>0, <1>2, InGradeFacts DEF Bookkeeping, WorkerBook, InGrade, Workers, NoWorker
  <2> QED
    BY <2>2, <2>3 DEF Bookkeeping
<1>3. ASSUME Unserializable PROVE Bookkeeping'
  BY <1>2, <1>3 DEF Unserializable, Return
<1>4. ASSUME NEW next \in {"node", "grade", "await"}, Skip(next) PROVE Bookkeeping'
  BY <1>2, <1>4 DEF Skip, Advance
<1>5. ASSUME NEW op, NEW value, Send(op, value), NEW next \in {"node", "grade", "await"},
             Advance(next)
      PROVE  Bookkeeping'
  <2>1. \A w \in Workers : life[w] = "absent" => inbox'[w] = inbox[w]
    BY <1>5 DEF Send, Alive, TypeOK, WorkerType
  <2> QED
    BY <2>1, <1>2, <1>5 DEF Send, Advance
<1>6. ASSUME WriteRefused PROVE Bookkeeping'
  BY <1>1, <1>6 DEF WriteRefused, Lost
<1>7. CASE SendSchema
  BY <1>3, <1>4, <1>5, <1>6, <1>7 DEF SendSchema
<1>8. CASE SendNode
  BY <1>3, <1>4, <1>5, <1>6, <1>8 DEF SendNode
<1>9. CASE SendGrade
  BY <1>3, <1>5, <1>6, <1>9 DEF SendGrade
<1>10. CASE ReceiveVerdict
  BY <1>2, <1>10 DEF ReceiveVerdict, Return
<1>11. CASE ReceiveLoss \/ TimedOut \/ Raise
  BY <1>1, <1>11 DEF ReceiveLoss, TimedOut, Raise, Lost
<1> QED
  BY <1>7, <1>8, <1>9, <1>10, <1>11

\* The end of the parent keeps the books.
LEMMA EndBook ==
    ASSUME TypeOK, Bookkeeping, Close \/ ParentKilled
    PROVE  Bookkeeping'
<1>1. CASE Close
  BY <1>1, KillBook DEF Close, Pipes
<1>2. CASE ParentKilled
  BY <1>2 DEF ParentKilled, Bookkeeping, CallBook, WorkerBook, InGrade
<1> QED
  BY <1>1, <1>2

\* A step of a worker or of its drain thread keeps the books.
LEMMA WorkerStepBook ==
    ASSUME TypeOK, Bookkeeping, NEW w \in Workers,
           Worker(w) \/ DrainLine(w) \/ DrainEnd(w)
    PROVE  Bookkeeping'
<1>1. /\ OnlyWorkers
      /\ life[w] # "absent" /\ life'[w] # "absent"
      /\ \A u \in Workers : u # w => /\ life'[u] = life[u] /\ inbox'[u] = inbox[u]
                                    /\ holds'[u] = holds[u] /\ out'[u] = out[u]
  <2> USE DEF TypeOK, WorkerType, PipeType
  <2>1. CASE Booted(w)
    BY <2>1 DEF Booted, Pipes
  <2>2. CASE TakeSchema(w) \/ TakeNode(w) \/ TakeGrade(w) \/ TakePing(w)
    BY <2>2 DEF TakeSchema, TakeNode, TakeGrade, TakePing, Take
  <2>3. CASE Answer(w)
    BY <2>3 DEF Answer
  <2>4. CASE BrokenPipe(w) \/ SelfDestruct(w) \/ StdinEof(w)
    BY <2>4 DEF BrokenPipe, SelfDestruct, StdinEof, Ends, Pipes
  <2>5. CASE Die(w)
    BY <2>5 DEF Die, Ends, Alive
  <2>6. CASE DrainLine(w)
    BY <2>6 DEF DrainLine, DrainFrame, Bookkeeping, WorkerBook
  <2>7. CASE DrainEnd(w)
    BY <2>7 DEF DrainEnd, DrainFrame, Gone
  <2> QED
    BY <2>1, <2>2, <2>3, <2>4, <2>5, <2>6, <2>7 DEF Worker
<1>2. CallBook'
  BY <1>1 DEF OnlyWorkers, localVars, Bookkeeping, CallBook, InGrade
<1>3. WorkerBook'
  BY <1>1 DEF OnlyWorkers, localVars, Bookkeeping, WorkerBook, InGrade
<1> QED
  BY <1>2, <1>3 DEF Bookkeeping

\* Every step keeps the books.
LEMMA StepBook ==
    ASSUME TypeOK, Bookkeeping, [Next]_vars
    PROVE  Bookkeeping'
<1>1. CASE UNCHANGED vars
  BY <1>1 DEF vars, localVars, graderVars, workerVars, Bookkeeping, CallBook, WorkerBook,
              InGrade
<1>2. CASE Grader
  BY <1>2, AskBook, StartBook, GradedBook, EndBook DEF Grader
<1>3. CASE \E w \in Workers : Worker(w) \/ DrainLine(w) \/ DrainEnd(w)
  BY <1>3, WorkerStepBook
<1>4. CASE Tick
  BY <1>4 DEF Tick, graderVars, Pipes, Bookkeeping, CallBook, WorkerBook, InGrade
<1> QED
  BY <1>1, <1>2, <1>3, <1>4 DEF Next

-----------------------------------------------------------------------------
(* What is under way between the parent and its worker *)

Core == RecordIsTrue /\ UpToDate /\ UnderWay /\ NoStaleVerdict

\* A step that changes nothing the parent and its worker share.
LEMMA CoreFrame ==
    ASSUME TypeOK, Bookkeeping, Core,
           UNCHANGED <<pc, req, held, answer, proc, queue, schemaSent, nodeSent>>,
           proc \in Workers => /\ life'[proc] = life[proc] /\ inbox'[proc] = inbox[proc]
                               /\ holds'[proc] = holds[proc] /\ out'[proc] = out[proc]
    PROVE  Core'
<1>1. NoStaleVerdict'
  BY DEF Core, NoStaleVerdict
<1>2. CASE proc = NoWorker
  <2>1. pc \notin {"handshake", "await"}
    BY <1>2, InGradeFacts DEF InGrade
  <2> QED
    BY <1>1, <1>2, <2>1 DEF Core, RecordIsTrue, UpToDate, UnderWay, InUse
<1>3. CASE proc \in Workers
  <2>1. /\ proc' = proc /\ life'[proc'] = life[proc] /\ inbox'[proc'] = inbox[proc]
        /\ holds'[proc'] = holds[proc] /\ out'[proc'] = out[proc]
    BY <1>3
  <2>2. RecordIsTrue'
    BY <2>1 DEF Core, RecordIsTrue, InUse, SchemaArrives, NodeArrives
  <2>3. UpToDate'
    BY <2>1 DEF Core, UpToDate, InUse, SchemaArrives, NodeArrives
  <2>4. Quiet => Quiet'
    BY <2>1 DEF Quiet, OnlyNoise
  <2>5. Pinged => Pinged'
    BY <2>1 DEF Pinged, OnItsWay, AnswerThenNoise, OnlyNoise
  <2>7. OnItsWay("verdict", req) => OnItsWay("verdict", req)'
    BY <2>1 DEF OnItsWay, AnswerThenNoise, OnlyNoise
  <2>8. Asked => Asked'
    BY <2>1, <2>7 DEF Asked, SchemaArrives, NodeArrives
  <2>6. UnderWay'
    BY <2>1, <2>4, <2>5, <2>8 DEF Core, UnderWay, InUse
  <2> QED
    BY <1>1, <2>2, <2>3, <2>6 DEF Core
<1> QED
  BY <1>2, <1>3 DEF TypeOK, GraderType

\* A call that leaves no worker behind leaves nothing under way.
LEMMA CoreOver ==
    ASSUME pc' \in {"idle", "closed"}, proc' = NoWorker, answer'.v # "verdict"
    PROVE  Core'
BY DEF Core, RecordIsTrue, UpToDate, UnderWay, NoStaleVerdict, InUse

\* Entering grade() keeps what is under way and what is recorded as delivered.
LEMMA AskCore ==
    ASSUME TypeOK, Bookkeeping, Core, NEW r \in Requests,
           \/ AskExhausted(r) \/ AskReady(r) \/ AskUnhostable(r)
           \/ AskRefused(r) \/ AskStart(r)
    PROVE  Core'
<1>0. pc = "idle"
  BY DEF AskExhausted, AskReady, AskUnhostable, AskRefused, AskStart, Ask
<1>1. CASE AskUnhostable(r) \/ AskRefused(r)
  <2>1. pc' = "idle" /\ proc' = NoWorker /\ answer'.v = "unhostable"
    BY <1>1 DEF AskUnhostable, AskRefused, Return, graderVars
  <2> QED
    BY <2>1, CoreOver
<1>2. CASE AskExhausted(r) \/ AskReady(r)
  <2>1. /\ pc' \in {"idle", "schema"} /\ answer'.v \in {"exhausted", "none"}
        /\ UNCHANGED <<proc, queue, schemaSent, nodeSent, life, inbox, holds, out>>
    BY <1>2, <1>0 DEF AskExhausted, AskReady, Return, graderVars, workerVars, NoAnswer
  <2>2. RecordIsTrue' /\ NoStaleVerdict'
    BY <2>1, <1>0 DEF Core, RecordIsTrue, NoStaleVerdict, InUse, SchemaArrives,
                      NodeArrives, WillHold
  <2>3. UpToDate'
    BY <2>1 DEF UpToDate
  <2>4. UnderWay'
    BY <2>1, <1>0 DEF Core, UnderWay, InUse, Quiet, OnlyNoise
  <2> QED
    BY <2>2, <2>3, <2>4 DEF Core
<1>3. CASE AskStart(r)
  <2> DEFINE w == calls + 1
  <2>1. /\ w \in Workers /\ proc' = w /\ pc' = "handshake" /\ queue' = <<>>
        /\ out'[w] = out[w] /\ life'[w] = "booting"
        /\ inbox'[w] = <<[op |-> "ping", value |-> Unsent]>>
        /\ answer'.v = "none" /\ proc = NoWorker
        /\ UNCHANGED <<schemaSent, nodeSent>>
    BY <1>3, BudgetAssumption DEF AskStart, Ask, Pipes, Workers, TypeOK, CallType,
       WorkerType, NoAnswer
  <2>2. schemaSent = Unsent /\ nodeSent = Unsent
    BY <2>1 DEF Bookkeeping, CallBook
  <2>3. out[w] = <<>>
    <3>1. ~(w <= calls) /\ w # NoWorker
      BY <2>1, BudgetAssumption DEF TypeOK, CallType, Workers, NoWorker
    <3> QED
      BY <3>1, <2>1, <1>0 DEF Bookkeeping, WorkerBook
  <2>4. Pinged'
    BY <2>1, <2>3 DEF Pinged
  <2> QED
    BY <2>1, <2>2, <2>4 DEF Core, RecordIsTrue, UpToDate, UnderWay, NoStaleVerdict
<1> QED
  BY <1>1, <1>2, <1>3

\* The handshake consumes the one pong and leaves the pipes quiet.
LEMMA StartCore ==
    ASSUME TypeOK, Bookkeeping, Core, StartSucceeds \/ StartFails \/ StartRaises
    PROVE  Core'
<1>0. pc = "handshake" /\ InGrade /\ Pinged /\ proc \in Workers
  BY InGradeFacts DEF StartSucceeds, StartFails, StartRaises, InGrade, Core, UnderWay
<1>1. CASE StartSucceeds
  <2>1. /\ queue \in Seq(Lines) /\ queue # <<>> /\ queue' = Tail(queue)
        /\ pc' \in {"schema", "idle"}
        /\ UNCHANGED <<proc, schemaSent, nodeSent, life, inbox, holds, out>>
        /\ answer' = answer \/ answer'.v = "exhausted"
    BY <1>1 DEF StartSucceeds, Return, workerVars, TypeOK, GraderType
  <2>2. /\ life[proc] # "evaluating" /\ inbox[proc] = <<>> /\ OnlyNoise(out[proc])
        /\ life[proc] \in Alive => out[proc] = <<>> /\ Len(queue) = 1
        /\ \A i \in 1..Len(queue) : i > 1 => queue[i].kind \in Noise
    BY <1>0, <2>1 DEF Pinged, OnItsWay, AnswerThenNoise
  <2>3. /\ OnlyNoise(Tail(queue)) /\ life[proc] \in Alive => Tail(queue) = <<>>
    BY <2>1, <2>2 DEF OnlyNoise
  <2>4. Quiet'
    BY <2>1, <2>2, <2>3 DEF Quiet, OnlyNoise
  <2>5. schemaSent = Unsent /\ nodeSent = Unsent
    BY <1>0 DEF Bookkeeping, CallBook
  <2>6. RecordIsTrue' /\ UpToDate' /\ UnderWay'
    BY <2>1, <2>4, <2>5 DEF RecordIsTrue, UpToDate, UnderWay
  <2> QED
    BY <2>1, <2>6 DEF Core, NoStaleVerdict
<1>2. CASE GiveUp
  <2>1. pc' = "idle" /\ proc' = NoWorker /\ answer'.v = "unhostable"
    BY <1>2 DEF GiveUp, Kill, Return
  <2> QED
    BY <2>1, CoreOver
<1> QED
  BY <1>1, <1>2 DEF StartFails, StartRaises

\* _graded delivers what the worker lacks, asks once and reads the one reply.
LEMMA GradedCore ==
    ASSUME TypeOK, Bookkeeping, Core,
           \/ SendSchema \/ SendNode \/ SendGrade
           \/ ReceiveVerdict \/ ReceiveLoss \/ TimedOut \/ Raise
    PROVE  Core'
<1>0. /\ InGrade /\ pc \in {"schema", "node", "grade", "await"}
      /\ UNCHANGED out /\ (held' = held \/ pc' = "idle")
  BY DEF SendSchema, SendNode, SendGrade, ReceiveVerdict, ReceiveLoss, TimedOut, Raise,
         InGrade, GradedFrame, Pipes, Return, Skip, Advance, Unserializable, WriteRefused,
         Lost
<1>1. /\ proc \in Workers /\ proc # NoWorker /\ InUse
      /\ req.schema \in Schemas /\ req.node \in Nodes /\ req.sample \in Samples
      /\ req.schema # Unsent /\ req.node # Unsent
      /\ inbox[proc] \in Seq(Messages)
  BY <1>0, InGradeFacts, Constants DEF TypeOK, WorkerType, InUse
<1>2. /\ pc \in {"schema", "node", "grade"} => Quiet
      /\ pc = "await" => Asked
  BY <1>1 DEF Core, UnderWay
<1>3. ASSUME NEW v, v # "verdict", Return(req, v, Nothing), Kill PROVE Core'
  BY <1>3, CoreOver DEF Return, Kill
<1>4. ASSUME UNCHANGED <<proc, queue, life, inbox, holds, schemaSent, nodeSent>>,
             out' = out, pc' \in {"idle", "node", "grade"}, Quiet,
             answer' = answer \/ answer'.v # "verdict", UpToDate'
      PROVE  Core'
  <2>1. RecordIsTrue'
    BY <1>1, <1>4 DEF Core, RecordIsTrue, InUse, SchemaArrives, NodeArrives
  <2>2. Quiet'
    BY <1>4 DEF Quiet, OnlyNoise
  <2> QED
    BY <2>1, <2>2, <1>4 DEF Core, UnderWay, NoStaleVerdict
<1>5. ASSUME Unserializable, Quiet PROVE Core'
  <2>1. pc' = "idle" /\ answer'.v = "unserializable"
    BY <1>5 DEF Unserializable, Return
  <2> QED
    BY <2>1, <1>0, <1>4, <1>5 DEF Unserializable, UpToDate
<1>6. ASSUME WriteRefused PROVE Core'
  BY <1>3, <1>6 DEF WriteRefused, Lost
<1>7. ASSUME NEW m \in Messages, Send(m.op, m.value)
      PROVE  /\ life[proc] \in Alive /\ UNCHANGED <<proc, queue, life, holds>>
             /\ inbox'[proc] = Append(inbox[proc], [op |-> m.op, value |-> m.value])
             /\ [op |-> m.op, value |-> m.value] = m
  BY <1>1, <1>7 DEF Send, TypeOK, WorkerType, Messages
<1>8. CASE SendSchema
  <2>0. pc = "schema" /\ Quiet /\ held = nodeSent
    BY <1>2, <1>8 DEF SendSchema, Bookkeeping, CallBook
  <2>1. CASE req.schema = schemaSent /\ Skip("node")
    <3>1. UNCHANGED <<proc, queue, life, inbox, holds, schemaSent, nodeSent, req, held,
                      answer>> /\ out' = out /\ pc' = "node"
      BY <2>1, <1>0 DEF Skip, Advance
    <3>2. UpToDate'
      BY <3>1, <2>0, <2>1, <1>1 DEF Core, RecordIsTrue, UpToDate, InUse, SchemaArrives,
                                   NodeArrives
    <3> QED
      BY <3>1, <3>2, <2>0, <1>4
  <2>2. CASE /\ Send("schema", req.schema)
             /\ schemaSent' = req.schema /\ nodeSent' = Unsent
             /\ Advance("node")
    <3> DEFINE m == [op |-> "schema", value |-> req.schema]
    <3>1. m \in Messages /\ m.op = "schema" /\ m.value = req.schema
      BY <1>1 DEF Messages
    <3>2. /\ life[proc] \in Alive /\ UNCHANGED <<proc, queue, life, holds>>
          /\ inbox'[proc] = Append(inbox[proc], m)
      BY <2>2, <3>1, <1>7
    <3>3. UNCHANGED <<req, held, answer>> /\ pc' = "node" /\ out' = out
      BY <2>2, <1>0 DEF Advance
    <3>4. SchemaArrives(req.schema)'
      BY <3>1, <3>2, <3>3, <1>1, AppendSame DEF SchemaArrives
    <3>5. held # Unsent => NodeArrives(held)'
      <4>1. held # Unsent => WillHold(inbox[proc], "node", holds[proc].node, held)
        BY <2>0, <3>2, <1>1 DEF Core, RecordIsTrue, NodeArrives
      <4>2. held # Unsent => WillHold(Append(inbox[proc], m), "node", holds[proc].node, held)
        BY <4>1, <3>1, <1>1, AppendOther
      <4> QED
        BY <4>2, <3>2, <3>3 DEF NodeArrives
    <3>6. RecordIsTrue' /\ UpToDate'
      BY <3>3, <3>4, <3>5, <2>2 DEF RecordIsTrue, UpToDate
    <3>7. Quiet'
      BY <2>0, <3>1, <3>2, <3>3, <1>1 DEF Quiet, OnlyNoise
    <3> QED
      BY <3>3, <3>6, <3>7 DEF Core, UnderWay, NoStaleVerdict
  <2> QED
    BY <2>0, <2>1, <2>2, <1>5, <1>6, <1>8 DEF SendSchema
<1>9. CASE SendNode
  <2>0. pc = "node" /\ Quiet
    BY <1>2, <1>9 DEF SendNode
  <2>1. CASE req.node = held /\ Skip("grade")
    <3>1. UNCHANGED <<proc, queue, life, inbox, holds, schemaSent, nodeSent, req, held,
                      answer>> /\ out' = out /\ pc' = "grade"
      BY <2>1, <1>0 DEF Skip, Advance
    <3>2. UpToDate'
      BY <3>1, <2>0, <2>1, <1>1 DEF Core, UpToDate, InUse, SchemaArrives, NodeArrives
    <3> QED
      BY <3>1, <3>2, <2>0, <1>4
  <2>2. CASE Send("node", req.node) /\ nodeSent' = req.node /\ Advance("grade")
             /\ schemaSent' = schemaSent
    <3> DEFINE m == [op |-> "node", value |-> req.node]
    <3>1. m \in Messages /\ m.op = "node" /\ m.value = req.node
      BY <1>1 DEF Messages
    <3>2. /\ life[proc] \in Alive /\ UNCHANGED <<proc, queue, life, holds>>
          /\ inbox'[proc] = Append(inbox[proc], m)
      BY <2>2, <3>1, <1>7
    <3>3. UNCHANGED <<req, answer>> /\ pc' = "grade" /\ out' = out
      BY <2>2, <1>0 DEF Advance
    <3>4. NodeArrives(req.node)'
      BY <3>1, <3>2, <3>3, <1>1, AppendSame DEF NodeArrives
    <3>5. ASSUME NEW s, SchemaArrives(s)
          PROVE  WillHold(inbox'[proc], "schema", holds'[proc].schema, s)
      BY <3>1, <3>2, <3>5, <1>1, AppendOther DEF SchemaArrives
    <3>6. /\ SchemaArrives(req.schema)
          /\ schemaSent # Unsent => SchemaArrives(schemaSent)
      BY <2>0, <3>2, <1>1 DEF Core, RecordIsTrue, UpToDate
    <3>7. SchemaArrives(req.schema)' /\ (schemaSent # Unsent => SchemaArrives(schemaSent)')
      BY <2>2, <3>2, <3>3, <3>5, <3>6 DEF SchemaArrives
    <3>8. RecordIsTrue' /\ UpToDate'
      BY <2>2, <3>3, <3>4, <3>7 DEF RecordIsTrue, UpToDate
    <3>9. Quiet'
      BY <2>0, <3>1, <3>2, <3>3, <1>1 DEF Quiet, OnlyNoise
    <3> QED
      BY <3>3, <3>8, <3>9 DEF Core, UnderWay, NoStaleVerdict
  <2> QED
    BY <2>0, <2>1, <2>2, <1>5, <1>6, <1>9 DEF SendNode
<1>10. CASE SendGrade
  <2>0. pc = "grade" /\ Quiet
    BY <1>2, <1>10 DEF SendGrade
  <2>1. CASE Send("grade", req.sample) /\ Advance("await")
             /\ UNCHANGED <<schemaSent, nodeSent>>
    <3> DEFINE m == [op |-> "grade", value |-> req.sample]
    <3>1. m \in Messages /\ m.op = "grade" /\ m.value = req.sample
      BY <1>1 DEF Messages
    <3>2. /\ life[proc] \in Alive /\ UNCHANGED <<proc, queue, life, holds>>
          /\ inbox'[proc] = Append(inbox[proc], m)
      BY <2>1, <3>1, <1>7
    <3>3. UNCHANGED <<req, answer>> /\ pc' = "await" /\ out' = out
      BY <2>1, <1>0 DEF Advance
    <3>4. ASSUME NEW s, SchemaArrives(s)
          PROVE  WillHold(inbox'[proc], "schema", holds'[proc].schema, s)
      BY <3>1, <3>2, <3>4, <1>1, AppendOther DEF SchemaArrives
    <3>5. ASSUME NEW n, NodeArrives(n)
          PROVE  WillHold(inbox'[proc], "node", holds'[proc].node, n)
      BY <3>1, <3>2, <3>5, <1>1, AppendOther DEF NodeArrives
    <3>6. SchemaArrives(req.schema)' /\ NodeArrives(req.node)'
      BY <2>0, <3>2, <3>3, <3>4, <3>5, <1>1 DEF Core, UpToDate, SchemaArrives, NodeArrives
    <3>7. RecordIsTrue' /\ UpToDate'
      BY <2>1, <3>2, <3>3, <3>4, <3>5, <1>1
         DEF Core, RecordIsTrue, UpToDate, SchemaArrives, NodeArrives
    <3>8. Asked'
      <4>1. life[proc] \in {"booting", "reading"} /\ out[proc] = <<>> /\ queue = <<>>
        BY <2>0, <3>2 DEF Quiet, Alive
      <4>2. /\ inbox'[proc] # <<>> /\ inbox'[proc][Len(inbox'[proc])] = m
            /\ \A i \in 1..Len(inbox'[proc]) :
                 i < Len(inbox'[proc]) => inbox'[proc][i].op \in {"schema", "node"}
        BY <2>0, <3>1, <3>2, <1>1 DEF Quiet
      <4> QED
        BY <4>1, <4>2, <3>2, <3>3, <3>6 DEF Asked
    <3> QED
      BY <3>3, <3>7, <3>8 DEF Core, UnderWay, NoStaleVerdict
  <2> QED
    BY <2>0, <2>1, <1>5, <1>6, <1>10 DEF SendGrade
<1>11. CASE ReceiveVerdict
  <2>1. /\ pc = "await" /\ Asked /\ queue # <<>> /\ queue \in Seq(Lines)
        /\ Head(queue).kind \in {"pong", "verdict"} /\ pc' = "idle"
        /\ answer' = [req |-> req, v |-> "verdict", about |-> Head(queue).about]
        /\ queue' = Tail(queue) /\ out' = out
        /\ UNCHANGED <<schemaSent, nodeSent, proc, life, inbox, holds>>
    BY <1>0, <1>2, <1>11 DEF ReceiveVerdict, Return, TypeOK, GraderType
  <2>2. OnItsWay("verdict", req) /\ queue # <<>>
    BY <2>1 DEF Asked
  <2>3. /\ life[proc] # "evaluating" /\ inbox[proc] = <<>> /\ OnlyNoise(out[proc])
        /\ life[proc] \in Alive => out[proc] = <<>> /\ Len(queue) = 1
        /\ \A i \in 1..Len(queue) :
             \/ queue[i].kind \in Noise
             \/ i = 1 /\ queue[i] = [kind |-> "verdict", about |-> req]
    BY <2>2 DEF OnItsWay, AnswerThenNoise
  <2>4. Head(queue).about = req
    BY <2>1, <2>3 DEF Noise
  <2>5. OnlyNoise(Tail(queue)) /\ (life[proc] \in Alive => Tail(queue) = <<>>)
    BY <2>1, <2>3 DEF OnlyNoise
  <2>6. Quiet'
    BY <2>1, <2>3, <2>5 DEF Quiet, OnlyNoise
  <2>7. RecordIsTrue'
    BY <2>1, <1>1 DEF Core, RecordIsTrue, InUse, SchemaArrives, NodeArrives
  <2> QED
    BY <2>1, <2>4, <2>6, <2>7 DEF Core, UpToDate, UnderWay, NoStaleVerdict
<1>12. CASE ReceiveLoss \/ TimedOut \/ Raise
  BY <1>3, <1>12 DEF ReceiveLoss, TimedOut, Raise, Lost
<1> QED
  BY <1>8, <1>9, <1>10, <1>11, <1>12

\* The end of the parent leaves nothing to promise.
LEMMA EndCore ==
    ASSUME TypeOK, Bookkeeping, Core, Close \/ ParentKilled
    PROVE  Core'
<1>1. pc' \in {"closed", "orphaned"} /\ answer'.v = "none"
  BY DEF Close, ParentKilled, LocalsGone, NoAnswer
<1> QED
  BY <1>1 DEF Core, RecordIsTrue, UpToDate, UnderWay, NoStaleVerdict, InUse

\* Reading a schema or a node brings the worker closer to what it is to hold.
LEMMA TakeArrives ==
    ASSUME TypeOK, proc \in Workers, TakeSchema(proc) \/ TakeNode(proc)
    PROVE  /\ inbox'[proc] = Tail(inbox[proc])
           /\ \A s : SchemaArrives(s)
                     => WillHold(inbox'[proc], "schema", holds'[proc].schema, s)
           /\ \A n : NodeArrives(n)
                     => WillHold(inbox'[proc], "node", holds'[proc].node, n)
<1>1. /\ inbox[proc] \in Seq(Messages) /\ inbox[proc] # <<>>
      /\ inbox'[proc] = Tail(inbox[proc])
      /\ inbox \in [Workers -> Seq(Messages)] /\ holds \in [Workers -> Held]
  BY DEF TypeOK, WorkerType, TakeSchema, TakeNode, Take
<1>2. CASE TakeSchema(proc)
  <2>1. /\ Head(inbox[proc]).op = "schema"
        /\ holds'[proc].schema = Head(inbox[proc]).value
        /\ holds'[proc].node = holds[proc].node
    BY <1>1, <1>2 DEF TakeSchema, Take, Held
  <2>2. ASSUME NEW s, SchemaArrives(s)
        PROVE  WillHold(inbox'[proc], "schema", holds'[proc].schema, s)
    BY <1>1, <2>1, <2>2, TakeSame DEF SchemaArrives
  <2>3. ASSUME NEW n, NodeArrives(n)
        PROVE  WillHold(inbox'[proc], "node", holds'[proc].node, n)
    BY <1>1, <2>1, <2>3, TakeOther DEF NodeArrives
  <2> QED
    BY <1>1, <2>2, <2>3
<1>3. CASE TakeNode(proc)
  <2>1. /\ Head(inbox[proc]).op = "node"
        /\ holds'[proc].node = Head(inbox[proc]).value
        /\ holds'[proc].schema = holds[proc].schema
    BY <1>1, <1>3 DEF TakeNode, Take, Held
  <2>2. ASSUME NEW s, SchemaArrives(s)
        PROVE  WillHold(inbox'[proc], "schema", holds'[proc].schema, s)
    BY <1>1, <2>1, <2>2, TakeOther DEF SchemaArrives
  <2>3. ASSUME NEW n, NodeArrives(n)
        PROVE  WillHold(inbox'[proc], "node", holds'[proc].node, n)
    BY <1>1, <2>1, <2>3, TakeSame DEF NodeArrives
  <2> QED
    BY <1>1, <2>2, <2>3
<1> QED
  BY <1>2, <1>3

\* A worker that has gone leaves at most noise behind the answer it had written.
LEMMA GoneCore ==
    ASSUME TypeOK, Core, proc \in Workers, OnlyWorkers, NEW how \in Gone,
           Ends(proc, how), queue' = queue,
           \/ out' = out
           \/ /\ life[proc] = "evaluating"
              /\ out'[proc] = Append(out[proc], [kind |-> "torn", about |-> Nothing])
    PROVE  Core'
<1>1. /\ UNCHANGED <<pc, req, held, answer, proc, queue, schemaSent, nodeSent>>
      /\ life'[proc] = how /\ how \notin Alive /\ inbox'[proc] = <<>>
      /\ "evaluating" \notin Gone
  BY DEF OnlyWorkers, localVars, Ends, Gone, Alive, TypeOK, WorkerType
<1>2. Quiet => Quiet'
  BY <1>1 DEF Quiet, OnlyNoise
<1>3. ASSUME NEW kind, NEW about, OnItsWay(kind, about)
      PROVE  /\ \/ out'[proc] = <<[kind |-> kind, about |-> about]>> /\ queue = <<>>
                \/ /\ \A i \in 1..Len(out'[proc]) : out'[proc][i].kind \in Noise
                   /\ \A i \in 1..Len(queue) :
                        \/ queue[i].kind \in Noise
                        \/ i = 1 /\ queue[i] = [kind |-> kind, about |-> about]
  BY <1>3 DEF OnItsWay, AnswerThenNoise, OnlyNoise
<1>4. Pinged => Pinged'
  <2>1. CASE OnItsWay("pong", Nothing)
    BY <2>1, <1>1, <1>3 DEF Pinged, OnItsWay, AnswerThenNoise, OnlyNoise
  <2>2. CASE life[proc] \in {"booting", "reading"} /\ out[proc] = <<>> /\ queue = <<>>
    BY <2>2, <1>1 DEF Pinged, OnItsWay, AnswerThenNoise, OnlyNoise
  <2> QED
    BY <2>1, <2>2 DEF Pinged
<1>5. Asked => Asked'
  <2>1. CASE OnItsWay("verdict", req)
    BY <2>1, <1>1, <1>3 DEF Asked, OnItsWay, AnswerThenNoise, OnlyNoise
  <2>2. CASE out[proc] = <<>> /\ queue = <<>>
    <3>1. \A i \in 1..Len(out'[proc]) : out'[proc][i].kind \in Noise
      <4>1. out'[proc] = <<>> \/ out'[proc] = <<[kind |-> "torn", about |-> Nothing]>>
        BY <2>2
      <4> QED
        BY <4>1 DEF Noise
    <3> QED
      BY <3>1, <2>2, <1>1 DEF Asked, OnItsWay, AnswerThenNoise, OnlyNoise
  <2> QED
    BY <2>1, <2>2 DEF Asked
<1> QED
  BY <1>1, <1>2, <1>4, <1>5 DEF Core, RecordIsTrue, UpToDate, UnderWay, NoStaleVerdict, InUse

\* The head of a sequence with one element is its last.
LEMMA LastOfOne ==
    ASSUME NEW S, NEW s \in Seq(S), s # <<>>, Len(s) <= 1
    PROVE  Head(s) = s[Len(s)]
<1> DEFINE n == Len(s)
<1>1. n \in Nat /\ n <= 1 /\ n >= 1
  OBVIOUS
<1> HIDE DEF n
<1>2. n = 1
  BY <1>1
<1>3. s[n] = s[1]
  BY <1>2
<1> QED
  BY <1>3 DEF n

\* What its worker does between two calls of the parent.
LEMMA WorkerStepCore ==
    ASSUME TypeOK, Bookkeeping, Core, proc \in Workers, InUse, Worker(proc)
    PROVE  Core'
<1> DEFINE box == inbox[proc]
<1>0. /\ OnlyWorkers /\ queue' = queue /\ drained' = drained
      /\ pc \notin {"closed", "orphaned"}
  BY DEF Worker, Booted, TakeSchema, TakeNode, TakeGrade, TakePing, Take, Answer,
         BrokenPipe, SelfDestruct, StdinEof, Die, Pipes, InUse
<1>1. /\ UNCHANGED <<pc, req, held, answer, proc, queue, schemaSent, nodeSent>>
      /\ NoStaleVerdict'
  BY <1>0 DEF OnlyWorkers, localVars, Core, NoStaleVerdict
<1>2. box \in Seq(Messages) /\ out[proc] \in Seq(Lines) /\ holds[proc] \in Held
  BY DEF TypeOK, WorkerType, PipeType
<1>3. ASSUME UNCHANGED <<inbox, holds>>, life[proc] \in Alive
      PROVE  RecordIsTrue' /\ UpToDate'
  BY <1>1, <1>3 DEF Core, RecordIsTrue, UpToDate, InUse, SchemaArrives, NodeArrives
<1>4. CASE Booted(proc)
  <2>1. /\ life[proc] = "booting" /\ life'[proc] = "reading" /\ out' = out
        /\ UNCHANGED <<inbox, holds>>
    BY <1>4 DEF Booted, Pipes, TypeOK, WorkerType
  <2>2. life[proc] \in Alive /\ life'[proc] \in Alive
    BY <2>1 DEF Alive
  <2>3. Quiet => Quiet'
    BY <1>1, <2>1, <2>2 DEF Quiet, OnlyNoise
  <2>4. ASSUME NEW kind, NEW about
        PROVE  OnItsWay(kind, about) =>
                 /\ \/ out'[proc] = <<[kind |-> kind, about |-> about]>> /\ queue = <<>>
                    \/ /\ out'[proc] = <<>> /\ Len(queue) = 1
                       /\ \A i \in 1..Len(queue) :
                           \/ queue[i].kind \in Noise
                           \/ i = 1 /\ queue[i] = [kind |-> kind, about |-> about]
                 /\ inbox'[proc] = <<>>
    BY <2>1, <2>2 DEF OnItsWay, AnswerThenNoise
  <2>5. Pinged => Pinged'
    BY <1>1, <2>1, <2>4 DEF Pinged, OnItsWay, AnswerThenNoise, OnlyNoise
  <2>6. Asked => Asked'
    <3>1. OnItsWay("verdict", req) => OnItsWay("verdict", req)'
      BY <1>1, <2>1, <2>4 DEF OnItsWay, AnswerThenNoise, OnlyNoise
    <3> QED
      BY <3>1, <1>1, <2>1 DEF Asked, SchemaArrives, NodeArrives
  <2> QED
    BY <1>1, <1>3, <2>1, <2>2, <2>3, <2>5, <2>6 DEF Core, UnderWay, InUse
<1>5. CASE TakeSchema(proc) \/ TakeNode(proc)
  <2>1. /\ life[proc] = "reading" /\ box # <<>> /\ inbox'[proc] = Tail(box)
        /\ Head(box).op \in {"schema", "node"} /\ UNCHANGED <<life, out>>
        /\ box[1] = Head(box) /\ life[proc] \in Alive
    BY <1>2, <1>5, TakeArrives DEF TakeSchema, TakeNode, Take, Alive
  <2>2. /\ \A s : SchemaArrives(s)
                   => WillHold(inbox'[proc], "schema", holds'[proc].schema, s)
        /\ \A n : NodeArrives(n)
                   => WillHold(inbox'[proc], "node", holds'[proc].node, n)
    BY <1>5, TakeArrives
  <2>3. RecordIsTrue' /\ UpToDate'
    BY <1>1, <2>1, <2>2 DEF Core, RecordIsTrue, UpToDate, InUse, SchemaArrives, NodeArrives
  <2>4. /\ Len(Tail(box)) = Len(box) - 1 /\ Len(box) \in Nat
        /\ Len(box) >= 1
        /\ \A i \in 1..Len(Tail(box)) : Tail(box)[i] = box[i + 1]
    BY <1>2, <2>1
  <2>5. Quiet => Quiet'
    BY <1>1, <2>1, <2>4 DEF Quiet, OnlyNoise
  <2>6. ~Pinged
    BY <2>1 DEF Pinged, OnItsWay, AnswerThenNoise
  <2>7. Asked => Asked'
    <3> SUFFICES ASSUME Asked PROVE Asked'
      OBVIOUS
    <3>1. /\ out[proc] = <<>> /\ queue = <<>>
          /\ box[Len(box)] = [op |-> "grade", value |-> req.sample]
          /\ \A i \in 1..Len(box) : i < Len(box) => box[i].op \in {"schema", "node"}
          /\ SchemaArrives(req.schema) /\ NodeArrives(req.node)
      BY <2>1 DEF Asked, OnItsWay, AnswerThenNoise
    <3>2. Len(box) > 1
      BY <2>1, <2>4, <3>1
    <3>3. /\ Tail(box) # <<>>
          /\ Tail(box)[Len(Tail(box))] = [op |-> "grade", value |-> req.sample]
          /\ \A i \in 1..Len(Tail(box)) :
               i < Len(Tail(box)) => Tail(box)[i].op \in {"schema", "node"}
      <4>1. Len(Tail(box)) \in 1..Len(Tail(box)) /\ Len(Tail(box)) + 1 = Len(box)
        BY <2>4, <3>2
      <4>2. \A i \in 1..Len(Tail(box)) : i < Len(Tail(box))
                                         => i + 1 \in 1..Len(box) /\ i + 1 < Len(box)
        BY <2>4
      <4>3. Tail(box)[Len(Tail(box))] = box[Len(box)]
        BY <2>4, <4>1
      <4>4. \A i \in 1..Len(Tail(box)) :
               i < Len(Tail(box)) => Tail(box)[i].op \in {"schema", "node"}
        BY <2>4, <3>1, <4>2
      <4>5. Tail(box) # <<>>
        BY <2>4, <3>2
      <4> QED
        BY <3>1, <4>3, <4>4, <4>5
    <3>4. SchemaArrives(req.schema)' /\ NodeArrives(req.node)'
      BY <1>1, <2>2, <3>1 DEF SchemaArrives, NodeArrives
    <3> QED
      BY <1>1, <2>1, <3>1, <3>3, <3>4 DEF Asked
  <2> QED
    BY <1>1, <2>1, <2>3, <2>5, <2>6, <2>7 DEF Core, UnderWay, InUse
<1>6. CASE TakeGrade(proc)
  <2>1. /\ life[proc] = "reading" /\ box # <<>> /\ inbox'[proc] = Tail(box)
        /\ Head(box).op = "grade" /\ box[1] = Head(box) /\ out' = out
        /\ life'[proc] = "evaluating"
        /\ holds'[proc] = [holds[proc] EXCEPT !.sample = Head(box).value]
    BY <1>2, <1>6 DEF TakeGrade, Take, TypeOK, WorkerType
  <2>0. 1 \in 1..Len(box) /\ Len(box) \in Nat /\ Len(box) >= 1
    BY <1>2, <2>1
  <2>2. ~Quiet /\ ~Pinged
    BY <2>0, <1>2, <2>1 DEF Quiet, Pinged, OnItsWay, AnswerThenNoise
  <2>3. pc = "await" /\ Asked
    BY <1>0, <2>2 DEF Core, UnderWay, InUse, TypeOK, CallType
  <2>4. /\ out[proc] = <<>> /\ queue = <<>>
        /\ box[Len(box)] = [op |-> "grade", value |-> req.sample]
        /\ \A i \in 1..Len(box) : i < Len(box) => box[i].op \in {"schema", "node"}
        /\ SchemaArrives(req.schema) /\ NodeArrives(req.node)
    BY <2>1, <2>3 DEF Asked, OnItsWay, AnswerThenNoise
  <2>5. Len(box) <= 1 /\ Head(box).value = req.sample
    <3>1. Len(box) <= 1
      BY <2>0, <2>1, <2>4
    <3>2. Head(box) = box[Len(box)]
      BY <1>2, <2>1, <3>1, LastOfOne
    <3>3. Head(box) = [op |-> "grade", value |-> req.sample]
      BY <2>4, <3>2
    <3> QED
      BY <3>1, <3>3
  <2>6. inbox'[proc] = <<>>
    BY <1>2, <2>1, <2>5
  <2>7. holds[proc].schema = req.schema /\ holds[proc].node = req.node
    BY <2>1, <2>4, <2>5 DEF SchemaArrives, NodeArrives, WillHold
  <2>8. holds'[proc] = req
    <3>1. req \in Held
      BY DEF TypeOK, CallType
    <3> QED
      BY <3>1, <1>2, <2>1, <2>5, <2>7 DEF Held
  <2>9. Asked'
    BY <1>1, <2>1, <2>4, <2>6, <2>8 DEF Asked
  <2>10. RecordIsTrue'
    <3>1. ASSUME NEW s, SchemaArrives(s)
          PROVE  WillHold(inbox'[proc], "schema", holds'[proc].schema, s)
      BY <3>1, <1>2, <2>1, TakeOther DEF SchemaArrives, Held
    <3>2. ASSUME NEW n, NodeArrives(n)
          PROVE  WillHold(inbox'[proc], "node", holds'[proc].node, n)
      BY <3>2, <1>2, <2>1, TakeOther DEF NodeArrives, Held
    <3> QED
      BY <3>1, <3>2, <1>1, <2>1 DEF Core, RecordIsTrue, InUse, Alive, SchemaArrives, NodeArrives
  <2> QED
    BY <1>1, <2>3, <2>9, <2>10 DEF Core, UnderWay, UpToDate
<1>7. CASE TakePing(proc)
  <2>1. /\ life[proc] = "reading" /\ box # <<>> /\ inbox'[proc] = Tail(box)
        /\ Head(box).op = "ping" /\ box[1] = Head(box)
        /\ out'[proc] = Append(out[proc], [kind |-> "pong", about |-> Nothing])
        /\ life' = life
    BY <1>2, <1>7 DEF TakePing, Take, TypeOK, WorkerType, PipeType
  <2>2. ~Quiet /\ ~Asked
    <3>1. 1 \in 1..Len(box)
      BY <1>2, <2>1
    <3> QED
      BY <3>1, <1>2, <2>1 DEF Quiet, Asked, OnItsWay, AnswerThenNoise
  <2>3. pc = "handshake" /\ Pinged
    BY <1>0, <2>2 DEF Core, UnderWay, InUse, TypeOK, CallType
  <2>4. out[proc] = <<>> /\ queue = <<>> /\ box = <<[op |-> "ping", value |-> Unsent]>>
    BY <2>1, <2>3 DEF Pinged, OnItsWay, AnswerThenNoise
  <2>5. inbox'[proc] = <<>> /\ out'[proc] = <<[kind |-> "pong", about |-> Nothing]>>
    BY <2>1, <2>4
  <2>6. Pinged'
    BY <1>1, <2>1, <2>4, <2>5 DEF Pinged, OnItsWay, AnswerThenNoise
  <2>7. schemaSent = Unsent /\ nodeSent = Unsent
    BY <2>3 DEF Bookkeeping, CallBook
  <2> QED
    BY <1>1, <2>3, <2>6, <2>7 DEF Core, RecordIsTrue, UnderWay, UpToDate
<1>8. CASE Answer(proc)
  <2>1. /\ life[proc] = "evaluating" /\ life'[proc] = "reading" /\ inbox' = inbox
        /\ out'[proc] = Append(out[proc], [kind |-> "verdict", about |-> holds[proc]])
        /\ holds'[proc] = [holds[proc] EXCEPT !.sample = Unsent]
    BY <1>8 DEF Answer, TypeOK, WorkerType, PipeType
  <2>2. pc = "await" /\ Asked
    BY <1>0, <2>1 DEF Core, UnderWay, InUse, Quiet, Pinged, OnItsWay, AnswerThenNoise, TypeOK, CallType
  <2>3. box = <<>> /\ holds[proc] = req /\ out[proc] = <<>> /\ queue = <<>>
    BY <2>1, <2>2 DEF Asked, OnItsWay, AnswerThenNoise
  <2>4. out'[proc] = <<[kind |-> "verdict", about |-> req]>>
    BY <2>1, <2>3
  <2>5. Asked'
    BY <1>1, <2>1, <2>3, <2>4 DEF Asked, OnItsWay, AnswerThenNoise
  <2>6. RecordIsTrue'
    BY <1>1, <1>2, <2>1, <2>3 DEF Core, RecordIsTrue, InUse, Alive, SchemaArrives, NodeArrives,
                                  Held
  <2> QED
    BY <1>1, <2>2, <2>5, <2>6 DEF Core, UnderWay, UpToDate
<1>9. CASE SelfDestruct(proc)
  BY <1>0, <1>9, GoneCore DEF SelfDestruct, Pipes, Gone
<1>10. CASE Die(proc)
  BY <1>0, <1>2, <1>10, GoneCore DEF Die, Gone, TypeOK, PipeType
<1>11. ~BrokenPipe(proc) /\ ~StdinEof(proc)
  BY <1>0 DEF BrokenPipe, StdinEof
<1> QED
  BY <1>4, <1>5, <1>6, <1>7, <1>8, <1>9, <1>10, <1>11 DEF Worker

\* Noise behind noise, or behind the one answer, changes neither.
LEMMA AppendNoise ==
    ASSUME NEW s \in Seq(Lines), NEW line \in Lines, line.kind \in Noise
    PROVE  /\ OnlyNoise(s) => OnlyNoise(Append(s, line))
           /\ \A answered : AnswerThenNoise(s, answered)
                            => AnswerThenNoise(Append(s, line), answered)
<1>1. /\ Append(s, line) \in Seq(Lines) /\ Len(Append(s, line)) = Len(s) + 1
      /\ \A i \in 1..Len(s) : Append(s, line)[i] = s[i]
      /\ Append(s, line)[Len(s) + 1] = line /\ Len(s) \in Nat
  OBVIOUS
<1>2. \A i \in 1..(Len(s) + 1) : i \in 1..Len(s) \/ i = Len(s) + 1
  BY <1>1
<1>3. ASSUME OnlyNoise(s) PROVE OnlyNoise(Append(s, line))
  BY <1>1, <1>2, <1>3 DEF OnlyNoise
<1>4. ASSUME NEW answered, AnswerThenNoise(s, answered)
      PROVE  AnswerThenNoise(Append(s, line), answered)
  BY <1>1, <1>2, <1>4 DEF AnswerThenNoise
<1> QED
  BY <1>3, <1>4

\* The drain thread moves an answer on its way into the queue, and noise after it.
LEMMA DrainCore ==
    ASSUME TypeOK, Bookkeeping, Core, proc \in Workers, InUse,
           DrainLine(proc) \/ DrainEnd(proc)
    PROVE  Core'
<1>0. /\ OnlyWorkers /\ life' = life /\ inbox' = inbox /\ holds' = holds
      /\ queue \in Seq(Lines) /\ out[proc] \in Seq(Lines)
      /\ pc \notin {"closed", "orphaned"}
  BY DEF DrainLine, DrainEnd, DrainFrame, TypeOK, GraderType, PipeType, InUse
<1>1. /\ UNCHANGED <<pc, req, held, answer, proc, schemaSent, nodeSent>>
      /\ NoStaleVerdict'
  BY <1>0 DEF OnlyWorkers, localVars, Core, NoStaleVerdict
<1>2. RecordIsTrue' /\ UpToDate'
  BY <1>0, <1>1 DEF Core, RecordIsTrue, UpToDate, InUse, SchemaArrives, NodeArrives
<1>3. SUFFICES /\ Quiet => Quiet'
               /\ OnItsWay("pong", Nothing) => OnItsWay("pong", Nothing)'
               /\ OnItsWay("verdict", req) => OnItsWay("verdict", req)'
  <2>2. out[proc] # <<>> \/ life[proc] \in Gone
    BY DEF DrainLine, DrainEnd
  <2>3. /\ Pinged => OnItsWay("pong", Nothing)
        /\ Asked => OnItsWay("verdict", req)
    BY <2>2 DEF Pinged, Asked, Gone
  <2>4. /\ OnItsWay("pong", Nothing)' => Pinged'
        /\ OnItsWay("verdict", req)' => Asked'
    BY <1>1 DEF Pinged, Asked
  <2> QED
    BY <1>1, <1>2, <1>3, <2>3, <2>4 DEF Core, UnderWay, InUse
<1>4. CASE DrainLine(proc)
  <2>1. /\ out[proc] # <<>> /\ queue' = Append(queue, Head(out[proc]))
        /\ out'[proc] = Tail(out[proc]) /\ Head(out[proc]) \in Lines
        /\ Head(out[proc]) = out[proc][1] /\ 1 \in 1..Len(out[proc])
    BY <1>0, <1>4 DEF DrainLine, TypeOK, PipeType
  <2>2. OnlyNoise(out[proc]) => Head(out[proc]).kind \in Noise /\ OnlyNoise(Tail(out[proc]))
    BY <1>0, <2>1 DEF OnlyNoise
  <2>3. Quiet => Quiet'
    BY <1>0, <1>1, <2>1, <2>2, AppendNoise DEF Quiet
  <2>4. ASSUME NEW kind, NEW about, OnItsWay(kind, about) PROVE OnItsWay(kind, about)'
    <3> DEFINE answered == [kind |-> kind, about |-> about]
    <3>1. CASE out[proc] = <<answered>> /\ queue = <<>>
      <4>1. queue' = <<answered>> /\ out'[proc] = <<>>
        BY <2>1, <3>1
      <4> QED
        BY <4>1, <2>4, <1>0, <1>1 DEF OnItsWay, AnswerThenNoise, OnlyNoise
    <3>2. CASE life[proc] \notin Alive /\ OnlyNoise(out[proc]) /\ AnswerThenNoise(queue, answered)
      <4>1. AnswerThenNoise(queue', answered)
        BY <1>0, <2>1, <2>2, <3>2, AppendNoise
      <4> QED
        BY <4>1, <1>0, <1>1, <2>1, <2>2, <2>4, <3>2 DEF OnItsWay
    <3> QED
      BY <2>1, <2>4, <3>1, <3>2 DEF OnItsWay, AnswerThenNoise
  <2>6. OnItsWay("verdict", req) => OnItsWay("verdict", req)'
    BY <1>1, <2>4
  <2> QED
    BY <2>3, <2>4, <2>6
<1>5. CASE DrainEnd(proc)
  <2> DEFINE eof == [kind |-> "eof", about |-> Nothing]
  <2>1. /\ out[proc] = <<>> /\ life[proc] \in Gone /\ life[proc] \notin Alive
        /\ queue' = Append(queue, eof) /\ out'[proc] = <<>>
        /\ eof \in Lines /\ eof.kind \in Noise
    BY <1>5, Constants DEF DrainEnd, Gone, Alive, TypeOK, PipeType, Lines, Noise
  <2>2. Quiet => Quiet'
    BY <1>0, <1>1, <2>1, AppendNoise DEF Quiet
  <2>3. ASSUME NEW kind, NEW about, OnItsWay(kind, about) PROVE OnItsWay(kind, about)'
    <3> DEFINE answered == [kind |-> kind, about |-> about]
    <3>1. /\ life[proc] # "evaluating" /\ inbox[proc] = <<>>
          /\ AnswerThenNoise(queue, answered)
      BY <2>1, <2>3 DEF OnItsWay, AnswerThenNoise
    <3>2. AnswerThenNoise(queue', answered)
      BY <1>0, <2>1, <3>1, AppendNoise
    <3> QED
      BY <1>0, <1>1, <2>1, <3>1, <3>2 DEF OnItsWay, OnlyNoise
  <2>5. OnItsWay("verdict", req) => OnItsWay("verdict", req)'
    BY <1>1, <2>3
  <2> QED
    BY <2>2, <2>3, <2>5
<1> QED
  BY <1>4, <1>5

\* Once the grader is closed or its process is gone, nothing is promised any more.
LEMMA EndedCore ==
    ASSUME TypeOK, Core, OnlyWorkers, pc \in {"closed", "orphaned"}
    PROVE  Core'
BY DEF Core, RecordIsTrue, UpToDate, UnderWay, NoStaleVerdict, InUse, OnlyWorkers, localVars

\* Every step keeps the core of the invariant.
LEMMA StepCore ==
    ASSUME TypeOK, Bookkeeping, Core, [Next]_vars
    PROVE  Core'
<1>1. CASE UNCHANGED vars
  BY <1>1, CoreFrame DEF vars, localVars, graderVars, workerVars
<1>2. CASE Grader
  BY <1>2, AskCore, StartCore, GradedCore, EndCore DEF Grader
<1>3. ASSUME NEW w \in Workers, Worker(w) \/ DrainLine(w) \/ DrainEnd(w)
      PROVE  Core'
  <2>1. OnlyWorkers
    BY <1>3 DEF Worker, Booted, TakeSchema, TakeNode, TakeGrade, TakePing, Take, Answer,
       BrokenPipe, SelfDestruct, StdinEof, Die, DrainLine, DrainEnd, DrainFrame
  <2>2. CASE pc \in {"closed", "orphaned"}
    BY <2>1, <2>2, EndedCore
  <2>3. CASE w = proc /\ pc \notin {"closed", "orphaned"}
    <3>1. proc \in Workers /\ InUse
      BY <2>3, <1>3 DEF InUse, Workers, NoWorker
    <3> QED
      BY <3>1, <1>3, <2>3, WorkerStepCore, DrainCore
  <2>4. CASE w # proc
    <3>1. UNCHANGED <<pc, req, held, answer, proc, schemaSent, nodeSent>>
      BY <2>1 DEF OnlyWorkers, localVars
    <3>2. queue' = queue
      BY <1>3, <2>4 DEF Worker, Booted, TakeSchema, TakeNode, TakeGrade, TakePing, Take,
         Answer, BrokenPipe, SelfDestruct, StdinEof, Die, DrainLine, DrainEnd
    <3>3. \A u \in Workers : u # w => /\ life'[u] = life[u] /\ inbox'[u] = inbox[u]
                                     /\ holds'[u] = holds[u] /\ out'[u] = out[u]
      BY <1>3 DEF Worker, Booted, TakeSchema, TakeNode, TakeGrade, TakePing, Take, Answer,
         BrokenPipe, SelfDestruct, StdinEof, Die, DrainLine, DrainEnd, DrainFrame, Ends,
         Pipes, TypeOK, WorkerType, PipeType
    <3> QED
      BY <3>1, <3>2, <3>3, <2>4, CoreFrame
  <2> QED
    BY <2>2, <2>3, <2>4
<1>4. CASE Tick
  BY <1>4, CoreFrame DEF Tick, graderVars, Pipes
<1> QED
  BY <1>1, <1>2, <1>3, <1>4 DEF Next

-----------------------------------------------------------------------------
(* The theorems *)

\* The invariant holds when the grader is made.
LEMMA Begins == Init => IInv
<1> SUFFICES ASSUME Init PROVE IInv
  OBVIOUS
<1>1. NoAnswer \in Answers /\ Nothing \in Held
  BY Constants DEF NoAnswer, Answers, Outcomes
<1>2. TypeOK
  <2>0. 0 \in 0..MaxCalls
    BY BudgetAssumption
  <2>1. CallType
    <3>0. pc \in {"idle", "handshake", "schema", "node", "grade", "await", "closed",
                  "orphaned"}
      BY DEF Init
    <3>1. calls \in 0..MaxCalls /\ elapsed \in Nat /\ waited \in Nat
      BY <2>0 DEF Init
    <3>2. req \in Held /\ answer \in Answers
      BY <1>1 DEF Init
    <3>3. held \in Nodes \cup {Unsent}
      BY DEF Init
    <3> QED
      BY <3>0, <3>1, <3>2, <3>3, Zenon DEF CallType
  <2>2. GraderType
    <3>1. remaining \in Int /\ spent \in Nat /\ refusals \in Nat
      BY BudgetAssumption DEF Init
    <3>2. startedOnce \in BOOLEAN /\ unhostable \in BOOLEAN
      BY DEF Init
    <3>3. /\ schemaSent \in Schemas \cup {Unsent} /\ nodeSent \in Nodes \cup {Unsent}
          /\ proc \in Workers \cup {NoWorker} /\ stderr \in Workers \cup {NoWorker}
      BY DEF Init
    <3>4. queue \in Seq(Lines)
      BY DEF Init
    <3> QED
      BY <3>1, <3>2, <3>3, <3>4, Zenon DEF GraderType
  <2>3. WorkerType
    BY <1>1 DEF Init, WorkerType
  <2>4. PipeType
    BY DEF Init, PipeType
  <2> QED
    BY <2>1, <2>2, <2>3, <2>4 DEF TypeOK
<1>3. Bookkeeping
  BY BudgetAssumption DEF Init, Bookkeeping, CallBook, WorkerBook, InGrade, NoWorker
<1>4. RecordIsTrue /\ UpToDate /\ UnderWay /\ NoStaleVerdict
  BY DEF Init, RecordIsTrue, UpToDate, UnderWay, NoStaleVerdict, InUse, NoAnswer
<1> QED
  BY <1>2, <1>3, <1>4 DEF IInv

\* Every step keeps the invariant.
LEMMA Steps == IInv /\ [Next]_vars => IInv'
BY StepType, StepBook, StepCore DEF IInv, Core

\* The strengthening is an invariant of the grader.
THEOREM Inductive == Spec => []IInv
BY Begins, Steps, PTL DEF Spec

\* Every variable of the grader, its workers and their pipes keeps its type, for any
\* requests, budgets and number of calls.
THEOREM TypeCorrect == Spec => []TypeOK
<1>1. IInv => TypeOK
  BY DEF IInv
<1> QED
  BY <1>1, Inductive, PTL

\* No sample is ever answered with a verdict on another sample, or against a schema or
\* node the worker still held from before, however kills, restarts, failed writes, late
\* replies and drain threads interleave.
THEOREM NothingStale == Spec => []NoStaleVerdict
<1>1. IInv => NoStaleVerdict
  BY DEF IInv
<1> QED
  BY <1>1, Inductive, PTL

\* What the parent believes delivered (self._schema, self._node), the living worker holds
\* once it has read its stdin: skipping a delivery is always safe.
THEOREM RecordHolds == Spec => []RecordIsTrue
<1>1. IInv => RecordIsTrue
  BY DEF IInv
<1> QED
  BY <1>1, Inductive, PTL

-----------------------------------------------------------------------------
(* What several steps do *)

\* A worker evaluates for the sample that is waited for, or for nobody any more.
LEMMA EvaluatesWhenAsked ==
    ASSUME TypeOK, UnderWay, OneWorker, NEW w \in Workers, life[w] = "evaluating"
    PROVE  pc \in {"await", "orphaned"} /\ w = proc
<1>1. w = proc /\ pc # "closed" /\ proc # NoWorker
  BY BudgetAssumption DEF OneWorker, Alive, Workers, NoWorker
<1>2. pc \notin {"idle", "schema", "node", "grade"}
  BY <1>1 DEF UnderWay, InUse, Quiet
<1>3. pc # "handshake"
  BY <1>1 DEF UnderWay, Pinged, OnItsWay
<1> QED
  BY <1>1, <1>2, <1>3 DEF TypeOK, CallType

\* _kill leaves no process running, and no job.
LEMMA KillEndsAll ==
    ASSUME TypeOK, OneWorker, ClockBook, Kill
    PROVE  /\ proc' = NoWorker
           /\ \A w \in Workers : /\ life'[w] \notin Alive /\ jobTime'[w] = 0
                                 /\ life'[w] = "watchdog" => life[w] = "watchdog"
<1>1. CASE proc # NoWorker /\ life[proc] \in Alive /\ Ends(proc, "killed")
  BY <1>1 DEF Kill, Ends, OneWorker, ClockBook, TypeOK, WorkerType, GraderType, Alive
<1>2. CASE /\ ~(proc # NoWorker /\ life[proc] \in Alive)
           /\ UNCHANGED <<life, inbox, holds, jobTime>>
  BY <1>2, BudgetAssumption DEF Kill, OneWorker, ClockBook, Alive, Workers, NoWorker
<1> QED
  BY <1>1, <1>2 DEF Kill
\* A step of grade() that returns or goes on without touching any process.
LEMMA ProcessesUntouched ==
    ASSUME OneWorker, proc \notin Workers \/ pc' # "closed", UNCHANGED <<life, proc>>,
           pc = "orphaned" => pc' = "orphaned"
    PROVE  OneWorker'
BY DEF OneWorker

-----------------------------------------------------------------------------
(* Each group of actions keeps the accounts *)

\* Entering grade() keeps them: nothing has run yet, and nothing is charged.
LEMMA AskAccounts ==
    ASSUME IInv, Accounts, TypeOK', NEW r \in Requests,
           \/ AskExhausted(r) \/ AskReady(r) \/ AskUnhostable(r)
           \/ AskRefused(r) \/ AskStart(r)
    PROVE  Accounts'
<1> USE BudgetAssumption DEF Accounts, Books, IInv
<1>0. /\ pc = "idle" /\ TypeOK /\ calls < MaxCalls /\ r \in Held
      /\ elapsed = 0 /\ waited = 0 /\ ~InGrade
      /\ \A w \in Workers : life[w] # "evaluating"
  <2>1. pc = "idle" /\ calls < MaxCalls /\ TypeOK
    BY DEF AskExhausted, AskReady, AskUnhostable, AskRefused, AskStart, Ask
  <2>2. \A w \in Workers : life[w] # "evaluating"
    BY <2>1, EvaluatesWhenAsked
  <2> QED
    BY <2>1, <2>2, Constants DEF ClockBook, InGrade
<1>1. CASE AskExhausted(r) \/ AskUnhostable(r)
  <2>1. /\ pc' = "idle" /\ req' = Nothing /\ elapsed' = 0 /\ waited' = 0
        /\ UNCHANGED <<remaining, startedOnce, unhostable, proc, stderr, life, jobTime,
                      spent, refusals>>
    BY <1>1 DEF AskExhausted, AskUnhostable, Return, graderVars, workerVars
  <2>2. answer'.v = "unhostable" => unhostable
    BY <1>1 DEF AskExhausted, AskUnhostable, Return, Latched
  <2> QED
    BY <1>0, <2>1, <2>2 DEF OneWorker, DocumentCapped, LossCostsOnlyItsSample, ClockBook,
       BudgetBook, HostBook, Uncharged, InGrade, Served
<1>2. CASE AskReady(r)
  <2>1. /\ pc' = "schema" /\ ~ShortOfASample(remaining) /\ answer'.v = "none"
        /\ UNCHANGED <<elapsed, waited, remaining, startedOnce, unhostable, proc, stderr,
                      life, jobTime, spent, refusals>>
    BY <1>2 DEF AskReady, graderVars, workerVars, NoAnswer
  <2> QED
    BY <1>0, <2>1 DEF OneWorker, DocumentCapped, LossCostsOnlyItsSample, ClockBook,
       BudgetBook, HostBook, Uncharged, InGrade, Served, ShortOfASample
<1>3. CASE AskRefused(r)
  <2>1. /\ pc' = "idle" /\ req' = Nothing /\ elapsed' = 0 /\ waited' = 0
        /\ proc = NoWorker /\ refusals' = refusals + 1
        /\ UNCHANGED <<remaining, proc, stderr, life, jobTime, spent>>
    BY <1>3 DEF AskRefused, Return, workerVars
  <2>2. refusals' > 0
    BY <2>1, <1>0 DEF TypeOK, GraderType
  <2> QED
    BY <1>0, <2>1, <2>2 DEF OneWorker, DocumentCapped, LossCostsOnlyItsSample, ClockBook,
       BudgetBook, HostBook, Uncharged, InGrade, Served
<1>4. CASE AskStart(r)
  <2>1. /\ pc' = "handshake" /\ ~ShortOfASample(remaining) /\ answer'.v = "none"
        /\ ~unhostable /\ proc = NoWorker /\ proc' = calls + 1
        /\ life' = [life EXCEPT ![calls + 1] = "booting"] /\ stderr' = NoWorker
        /\ UNCHANGED <<elapsed, waited, remaining, startedOnce, unhostable, jobTime,
                      spent, refusals>>
    BY <1>4 DEF AskStart, NoAnswer, Latched, EmptyStderr
  <2>2. calls + 1 \in Workers
    BY <1>0 DEF Workers, TypeOK, CallType
  <2>3. OneWorker'
    BY <1>0, <2>1, <2>2 DEF OneWorker, TypeOK, WorkerType, Workers, NoWorker, Alive
  <2>4. ClockBook'
    BY <1>0, <2>1, <2>2 DEF ClockBook, TypeOK, WorkerType, GraderType, StartLimit,
       ShortOfASample
  <2> QED
    BY <1>0, <2>1, <2>3, <2>4 DEF DocumentCapped, LossCostsOnlyItsSample,
       BudgetBook, HostBook, Uncharged, InGrade, Served
<1> QED
  BY <1>1, <1>2, <1>3, <1>4

\* So does the handshake: a restart is charged the time it took.
LEMMA StartAccounts ==
    ASSUME IInv, Accounts, TypeOK', StartSucceeds \/ StartFails \/ StartRaises
    PROVE  Accounts'
<1> USE BudgetAssumption DEF Accounts, Books, IInv
<1>0. /\ pc = "handshake" /\ TypeOK /\ InGrade /\ req \in Requests /\ proc # NoWorker
      /\ spent + Charged = DocumentBudget /\ ~unhostable
      /\ \A w \in Workers : life[w] # "evaluating"
  <2>1. pc = "handshake" /\ TypeOK
    BY DEF StartSucceeds, StartFails, StartRaises
  <2>2. \A w \in Workers : life[w] # "evaluating"
    BY <2>1, EvaluatesWhenAsked
  <2>3. InGrade /\ req \in Requests /\ proc # NoWorker /\ ~unhostable
    BY <2>1 DEF InGrade, Bookkeeping, CallBook, HostBook
  <2>4. spent + Charged = DocumentBudget
    BY <2>1 DEF BudgetBook, Uncharged, Served, Charged, TypeOK, CallType, GraderType
  <2> QED
    BY <2>1, <2>2, <2>3, <2>4
<1>1. CASE StartSucceeds
  <2>1. /\ startedOnce' = TRUE /\ remaining' = Charged /\ elapsed' = 0 /\ waited' = 0
        /\ UNCHANGED <<unhostable, proc, stderr, life, jobTime, spent, refusals>>
    BY <1>1 DEF StartSucceeds, Return, workerVars
  <2>2. \/ /\ pc' = "schema" /\ ~ShortOfASample(Charged)
           /\ UNCHANGED <<req, answer>>
        \/ pc' = "idle" /\ req' = Nothing /\ answer'.v = "exhausted"
    BY <1>1 DEF StartSucceeds, Return
  <2>3. OneWorker'
    BY <2>1, <2>2, <1>0 DEF OneWorker
  <2>4. ClockBook'
    BY <2>1, <2>2, <1>0 DEF ClockBook
  <2>5. BudgetBook'
    BY <2>1, <2>2, <1>0 DEF BudgetBook, Uncharged, Served, InGrade, ShortOfASample,
       Charged, TypeOK, CallType, GraderType
  <2> QED
    BY <2>1, <2>2, <2>3, <2>4, <2>5, <1>0 DEF DocumentCapped, LossCostsOnlyItsSample,
       HostBook, BudgetBook, Uncharged, Served, InGrade
<1>2. CASE GiveUp
  <2>1. /\ pc' = "idle" /\ req' = Nothing /\ elapsed' = 0 /\ waited' = 0
        /\ remaining' = Charged /\ refusals' = refusals + 1 /\ UNCHANGED <<stderr, spent>>
    BY <1>2 DEF GiveUp, Return
  <2>2. /\ proc' = NoWorker
        /\ \A w \in Workers : /\ life'[w] \notin Alive /\ jobTime'[w] = 0
                              /\ life'[w] = "watchdog" => life[w] = "watchdog"
    BY <1>0, <1>2, KillEndsAll DEF GiveUp
  <2>3. refusals' > 0
    BY <2>1, <1>0 DEF TypeOK, GraderType
  <2>4. OneWorker' /\ ClockBook'
    BY <1>0, <2>1, <2>2 DEF OneWorker, ClockBook, Alive
  <2> QED
    BY <1>0, <2>1, <2>2, <2>3, <2>4 DEF DocumentCapped, LossCostsOnlyItsSample,
       HostBook, BudgetBook, Uncharged, Served, InGrade
<1> QED
  BY <1>1, <1>2 DEF StartFails, StartRaises

\* So does every statement of _graded, and whatever ends it.
LEMMA GradedAccounts ==
    ASSUME IInv, Accounts, TypeOK',
           \/ SendSchema \/ SendNode \/ SendGrade
           \/ ReceiveVerdict \/ ReceiveLoss \/ TimedOut \/ Raise
    PROVE  Accounts'
<1> USE BudgetAssumption DEF Accounts, Books, IInv
<1>0. /\ pc \in Served /\ TypeOK /\ InGrade /\ proc # NoWorker /\ ~unhostable
      /\ pc # "await" => \A w \in Workers : life[w] # "evaluating"
      /\ UNCHANGED <<startedOnce, unhostable, stderr, spent, refusals>>
  <2>1. pc \in Served /\ TypeOK
        /\ UNCHANGED <<startedOnce, unhostable, stderr, spent, refusals>>
    BY DEF SendSchema, SendNode, SendGrade, ReceiveVerdict, ReceiveLoss, TimedOut, Raise,
           GradedFrame, Served
  <2>2. pc # "await" => \A w \in Workers : life[w] # "evaluating"
    BY <2>1, EvaluatesWhenAsked DEF Served
  <2>3. InGrade /\ proc # NoWorker /\ ~unhostable
    BY <2>1 DEF InGrade, Served, Bookkeeping, CallBook, HostBook
  <2> QED
    BY <2>1, <2>2, <2>3
<1>1. ASSUME NEW v \in Outcomes \ {"unhostable"}, NEW about, Return(req, v, about), Charge,
             \/ Kill
             \/ UNCHANGED <<proc, life, jobTime>> /\ \A w \in Workers : life[w] # "evaluating"
      PROVE  Accounts'
  <2>1. /\ pc' = "idle" /\ req' = Nothing /\ elapsed' = 0 /\ waited' = 0
        /\ remaining' = remaining - elapsed /\ answer'.v # "unhostable"
    BY <1>1 DEF Return, Charge
  <2>2. OneWorker' /\ ClockBook' /\ (proc # NoWorker => stderr \in {NoWorker, proc})'
    <3>1. CASE Kill
      BY <3>1, <2>1, <1>0, KillEndsAll DEF OneWorker, ClockBook, Alive, Served
    <3>2. CASE /\ UNCHANGED <<proc, life, jobTime>>
               /\ \A w \in Workers : life[w] # "evaluating"
      BY <3>2, <2>1, <1>0 DEF OneWorker, ClockBook, LossCostsOnlyItsSample, Served
    <3> QED
      BY <3>1, <3>2, <1>1
  <2>3. BudgetBook' /\ DocumentCapped'
    BY <2>1, <1>0 DEF BudgetBook, DocumentCapped, Uncharged, Served, InGrade, TypeOK,
       CallType, GraderType
  <2> QED
    BY <2>1, <2>2, <2>3, <1>0 DEF LossCostsOnlyItsSample, HostBook, InGrade
<1>2. ASSUME Unserializable, pc # "await" PROVE Accounts'
  BY <1>0, <1>1, <1>2 DEF Unserializable, Outcomes
<1>3. ASSUME WriteRefused PROVE Accounts'
  BY <1>1, <1>3 DEF WriteRefused, Lost, Outcomes
<1>4. ASSUME NEW next \in Served, Advance(next), pc # "await",
             UNCHANGED <<proc, life, jobTime>>,
             IF next = "await" THEN waited' = 0 ELSE waited' = waited
      PROVE  Accounts'
  <2>1. OneWorker'
    BY <1>0, <1>4 DEF OneWorker, Advance, Served
  <2>2. ClockBook'
    <3>1. /\ elapsed <= Slack /\ \A w \in Workers : jobTime[w] = 0
      BY <1>0, <1>4 DEF ClockBook, Served
    <3>2. /\ pc' = next /\ elapsed' = elapsed /\ elapsed \in Int /\ waited' \in Nat
          /\ waited' = 0 \/ next # "await"
      BY <1>0, <1>4 DEF Advance, TypeOK, CallType
    <3>3. \A w \in Workers : life'[w] # "evaluating" /\ jobTime'[w] = 0
      BY <1>0, <1>4, <3>1
    <3>4. pc' = "await" => elapsed' <= Slack + waited' /\ waited' <= SampleBudget + Slack
      BY <3>1, <3>2
    <3>5. pc' \notin {"idle", "handshake", "orphaned"}
      BY <1>4, <3>2 DEF Served
    <3> QED
      BY <3>1, <3>2, <3>3, <3>4, <3>5 DEF ClockBook
  <2> QED
    BY <1>0, <1>4, <2>1, <2>2 DEF Advance, BudgetBook, DocumentCapped, Uncharged, Served,
       LossCostsOnlyItsSample, HostBook, InGrade, ShortOfASample
<1>5. CASE SendSchema
  <2>1. pc # "await" /\ "node" \in Served
    BY <1>5 DEF SendSchema, Served
  <2>2. CASE Send("schema", req.schema) /\ Advance("node") /\ UNCHANGED waited
    BY <2>1, <2>2, <1>4 DEF Send
  <2> QED
    BY <2>1, <2>2, <1>2, <1>3, <1>4, <1>5 DEF SendSchema, Skip
<1>6. CASE SendNode
  <2>1. pc # "await" /\ "grade" \in Served
    BY <1>6 DEF SendNode, Served
  <2>2. CASE Send("node", req.node) /\ Advance("grade") /\ UNCHANGED waited
    BY <2>1, <2>2, <1>4 DEF Send
  <2> QED
    BY <2>1, <2>2, <1>2, <1>3, <1>4, <1>6 DEF SendNode, Skip
<1>7. CASE SendGrade
  <2>1. pc # "await" /\ "await" \in Served
    BY <1>7 DEF SendGrade, Served
  <2>2. CASE Send("grade", req.sample) /\ Advance("await") /\ waited' = 0
    BY <2>1, <2>2, <1>4 DEF Send
  <2> QED
    BY <2>1, <2>2, <1>2, <1>3, <1>7 DEF SendGrade
<1>8. CASE ReceiveVerdict
  <2>1. \A w \in Workers : life[w] # "evaluating"
    BY <1>0, <1>8, EvaluatesWhenAsked DEF ReceiveVerdict, UnderWay, Asked, OnItsWay
  <2> QED
    BY <2>1, <1>1, <1>8 DEF ReceiveVerdict, Outcomes
<1>9. CASE ReceiveLoss \/ TimedOut \/ Raise
  BY <1>1, <1>9 DEF ReceiveLoss, Lost, TimedOut, Raise, Outcomes
<1> QED
  BY <1>5, <1>6, <1>7, <1>8, <1>9

\* So does the end of the parent, which charges nothing any more.
LEMMA EndAccounts ==
    ASSUME IInv, Accounts, TypeOK', Close \/ ParentKilled
    PROVE  Accounts'
<1> USE BudgetAssumption DEF Accounts, Books, IInv
<1>1. /\ pc \notin {"closed", "orphaned"} /\ req' = Nothing /\ answer'.v = "none"
      /\ UNCHANGED <<unhostable, spent, refusals>>
  BY DEF Close, ParentKilled, LocalsGone, NoAnswer
<1>2. CASE Close
  <2>1. pc' = "closed"
    BY <1>2 DEF Close
  <2>2. /\ proc' = NoWorker
        /\ \A w \in Workers : /\ life'[w] \notin Alive /\ jobTime'[w] = 0
                              /\ life'[w] = "watchdog" => life[w] = "watchdog"
    BY <1>2, KillEndsAll DEF Close
  <2>3. OneWorker' /\ ClockBook'
    BY <1>1, <2>1, <2>2 DEF OneWorker, ClockBook, Alive
  <2> QED
    BY <1>1, <2>1, <2>2, <2>3 DEF DocumentCapped, LossCostsOnlyItsSample, BudgetBook,
       HostBook, InGrade
<1>3. CASE ParentKilled
  <2>1. pc' = "orphaned" /\ UNCHANGED <<proc, stderr, life, jobTime>>
    BY <1>3 DEF ParentKilled
  <2> QED
    BY <1>1, <2>1 DEF OneWorker, ClockBook, DocumentCapped, LossCostsOnlyItsSample,
       BudgetBook, HostBook, InGrade, Alive
<1> QED
  BY <1>2, <1>3

\* A step of a worker or of its drain thread moves no clock and no account: it may
\* start a job, whose time then runs beside the parent's wait, or end one.
LEMMA WorkerAccounts ==
    ASSUME IInv, Accounts, TypeOK', NEW w \in Workers,
           Worker(w) \/ DrainLine(w) \/ DrainEnd(w)
    PROVE  Accounts'
<1> USE BudgetAssumption DEF Accounts, Books, IInv
<1>0. UNCHANGED <<pc, req, answer, elapsed, waited, remaining, startedOnce, unhostable,
                  proc, spent, refusals>>
  BY DEF Worker, Booted, TakeSchema, TakeNode, TakeGrade, TakePing, Take, Answer,
         BrokenPipe, SelfDestruct, StdinEof, Die, DrainLine, DrainEnd, DrainFrame,
         OnlyWorkers, localVars
<1>1. DocumentCapped' /\ BudgetBook' /\ HostBook'
  BY <1>0 DEF DocumentCapped, BudgetBook, HostBook, Uncharged, InGrade, ShortOfASample
<1>2. TypeOK /\ life \in [Workers -> {"absent"} \cup Alive \cup Gone]
      /\ jobTime \in [Workers -> Nat]
  BY DEF TypeOK, WorkerType
<1>3. ASSUME NEW how \in {"died", "watchdog", "stdin-eof"}, Ends(w, how),
             life[w] \in Alive, stderr' \in {stderr, w},
             Slack < Margin /\ how = "watchdog" => pc = "orphaned"
      PROVE  OneWorker' /\ ClockBook' /\ LossCostsOnlyItsSample'
  <2>1. /\ life' = [life EXCEPT ![w] = how] /\ jobTime' = [jobTime EXCEPT ![w] = 0]
        /\ w = proc
    BY <1>3 DEF Ends, OneWorker
  <2>2. OneWorker'
    BY <1>0, <1>2, <1>3, <2>1 DEF OneWorker, Alive
  <2>3. ClockBook'
    BY <1>0, <1>2, <2>1 DEF ClockBook, StartLimit
  <2> QED
    BY <1>0, <1>3, <2>1, <2>2, <2>3 DEF LossCostsOnlyItsSample
<1>4. ASSUME life[w] \in Alive, NEW now \in {"reading", "evaluating"},
             life' = [life EXCEPT ![w] = now], stderr' = stderr,
             \/ jobTime' = [jobTime EXCEPT ![w] = 0]
             \/ jobTime' = jobTime /\ life[w] # "evaluating"
      PROVE  OneWorker' /\ ClockBook' /\ LossCostsOnlyItsSample'
  <2>1. OneWorker'
    BY <1>0, <1>2, <1>4 DEF OneWorker, Alive
  <2>2. \A v \in Workers : jobTime'[v] = (IF v = w THEN 0 ELSE jobTime[v])
    BY <1>2, <1>4 DEF ClockBook
  <2>3. waited \in Nat
    BY DEF TypeOK, CallType
  <2>4. ClockBook'
    BY <1>0, <1>2, <1>4, <2>2, <2>3 DEF ClockBook, StartLimit
  <2> QED
    BY <1>0, <1>4, <2>1, <2>4 DEF LossCostsOnlyItsSample
<1>5. ASSUME UNCHANGED <<life, jobTime, stderr>>
      PROVE  OneWorker' /\ ClockBook' /\ LossCostsOnlyItsSample'
  BY <1>0, <1>5 DEF OneWorker, ClockBook, StartLimit, LossCostsOnlyItsSample
<1>6. CASE Booted(w) \/ TakeGrade(w) \/ Answer(w)
  BY <1>1, <1>4, <1>6 DEF Booted, TakeGrade, Take, Answer, Alive
<1>7. CASE TakeSchema(w) \/ TakeNode(w) \/ TakePing(w) \/ DrainLine(w) \/ DrainEnd(w)
  BY <1>1, <1>5, <1>7 DEF TakeSchema, TakeNode, TakePing, Take, DrainLine, DrainEnd,
     DrainFrame
<1>8. CASE BrokenPipe(w) \/ StdinEof(w) \/ Die(w)
  BY <1>1, <1>3, <1>8 DEF BrokenPipe, StdinEof, Die, Alive
<1>9. CASE SelfDestruct(w)
  <2>1. /\ life[w] = "evaluating" /\ jobTime[w] >= SampleBudget + Margin
        /\ Ends(w, "watchdog") /\ stderr' = w
    BY <1>9 DEF SelfDestruct, Overdue
  <2>2. pc \in {"await", "orphaned"} /\ jobTime[w] \in Nat /\ waited \in Nat
    BY <1>2, <2>1, EvaluatesWhenAsked DEF TypeOK, CallType
  <2>3. Slack < Margin => pc = "orphaned"
    BY <2>1, <2>2 DEF ClockBook
  <2> QED
    BY <1>1, <1>3, <2>1, <2>3 DEF Alive
<1> QED
  BY <1>6, <1>7, <1>8, <1>9 DEF Worker

\* So does the clock: what it measures is owed by the grade in progress, no wait is
\* left more than Slack late, and no job is older than the wait for it.
LEMMA TickAccounts ==
    ASSUME IInv, Accounts, TypeOK', Tick
    PROVE  Accounts'
<1> USE BudgetAssumption DEF Accounts, Books, IInv
<1>0. /\ UNCHANGED <<pc, req, answer, remaining, startedOnce, unhostable, proc, stderr,
                     life, refusals>>
      /\ pc \in {"handshake", "schema", "node", "grade", "await", "orphaned"}
  BY DEF Tick, MayWait, graderVars
<1>1. /\ TypeOK /\ elapsed \in Nat /\ waited \in Nat /\ spent \in Nat /\ remaining \in Int
      /\ jobTime \in [Workers -> Nat]
  BY DEF TypeOK, CallType, GraderType, WorkerType
<1>2. OneWorker' /\ LossCostsOnlyItsSample' /\ HostBook'
  BY <1>0 DEF OneWorker, LossCostsOnlyItsSample, HostBook, InGrade
<1>3. /\ elapsed' = (IF pc = "orphaned" THEN elapsed ELSE elapsed + 1)
      /\ waited' = (IF pc \in {"handshake", "await"} THEN waited + 1 ELSE waited)
      /\ spent' = (IF pc = "orphaned" \/ (pc = "handshake" /\ ~startedOnce)
                    THEN spent ELSE spent + 1)
      /\ \A w \in Workers :
            jobTime'[w] = (IF life[w] = "evaluating" THEN jobTime[w] + 1 ELSE jobTime[w])
  BY <1>1 DEF Tick
<1>4. ClockBook'
  <2>1. /\ pc' = "handshake" => elapsed' = waited' /\ waited' <= StartLimit' + Slack
        /\ pc' \in {"schema", "node", "grade"} => elapsed' <= Slack
        /\ pc' = "await" => elapsed' <= Slack + waited' /\ waited' <= SampleBudget + Slack
    <3>1. StartLimit' = StartLimit /\ StartLimit \in Int
      BY <1>0, <1>1 DEF StartLimit
    <3> QED
      BY <3>1, <1>0, <1>1, <1>3 DEF Tick, MayWait, ClockBook
  <2>2. ASSUME NEW w \in Workers
        PROVE  /\ life'[w] # "evaluating" => jobTime'[w] = 0
               /\ life'[w] = "evaluating" /\ pc' # "orphaned" => jobTime'[w] <= waited'
    <3>1. life[w] = "evaluating" => pc \in {"await", "orphaned"}
      BY <1>1, EvaluatesWhenAsked
    <3> QED
      BY <3>1, <1>0, <1>1, <1>3 DEF ClockBook
  <2> QED
    BY <1>0, <2>1, <2>2 DEF ClockBook
<1>5. BudgetBook'
  BY <1>0, <1>1, <1>3 DEF BudgetBook, Uncharged, Served, InGrade, ShortOfASample
<1>6. DocumentCapped'
  <2>1. CASE pc = "orphaned" \/ (pc = "handshake" /\ ~startedOnce)
    BY <2>1, <1>0, <1>3 DEF DocumentCapped
  <2>2. CASE pc = "handshake" /\ startedOnce
    <3>1. elapsed' = waited' /\ waited' <= remaining + Slack
      BY <2>2, <1>0, <1>1, <1>3, <1>4 DEF ClockBook, StartLimit
    <3>2. spent' + remaining = DocumentBudget + elapsed'
      BY <2>2, <1>0, <1>5 DEF BudgetBook, Uncharged
    <3> QED
      BY <2>2, <3>1, <3>2, <1>0, <1>1, <1>3 DEF DocumentCapped
  <2>3. CASE pc \in {"schema", "node", "grade", "await"}
    <3>1. elapsed' <= SampleBudget + 2 * Slack
      BY <2>3, <1>0, <1>1, <1>3, <1>4 DEF ClockBook
    <3>2. spent' + remaining = DocumentBudget + elapsed'
      BY <2>3, <1>0, <1>5 DEF BudgetBook, Uncharged, Served
    <3>3. remaining >= SampleBudget
      BY <2>3, <1>1 DEF BudgetBook, InGrade, ShortOfASample
    <3> QED
      BY <2>3, <3>1, <3>2, <3>3, <1>0, <1>1, <1>3 DEF DocumentCapped
  <2> QED
    BY <1>0, <2>1, <2>2, <2>3
<1> QED
  BY <1>2, <1>4, <1>5, <1>6

-----------------------------------------------------------------------------
(* The theorems *)

\* The accounts are in order when the grader is built.
LEMMA AccountsBegin == Init => Accounts
<1> SUFFICES ASSUME Init PROVE Accounts
  OBVIOUS
<1>1. OneWorker /\ LossCostsOnlyItsSample
  BY BudgetAssumption DEF Init, OneWorker, LossCostsOnlyItsSample, Alive, NoAnswer, NoWorker
<1>2. DocumentCapped
  BY BudgetAssumption DEF Init, DocumentCapped
<1>3. ClockBook
  BY BudgetAssumption DEF Init, ClockBook
<1>4. BudgetBook /\ HostBook
  BY BudgetAssumption DEF Init, BudgetBook, HostBook, Uncharged, Served, InGrade
<1> QED
  BY <1>1, <1>2, <1>3, <1>4 DEF Accounts, Books

\* Every step keeps them.
LEMMA AccountsStep == BInv /\ [Next]_vars => BInv'
<1> SUFFICES ASSUME IInv, Accounts, [Next]_vars PROVE IInv' /\ Accounts'
  BY DEF BInv
<1>1. IInv' /\ TypeOK'
  BY Steps DEF IInv
<1>2. CASE UNCHANGED vars
  <2>1. UNCHANGED <<pc, req, answer, elapsed, waited, remaining, startedOnce, unhostable,
                    proc, stderr, life, jobTime, spent, refusals>>
    BY <1>2, Zenon DEF vars, localVars, graderVars, workerVars
  <2>2. OneWorker' /\ DocumentCapped' /\ LossCostsOnlyItsSample'
    BY <2>1 DEF Accounts, OneWorker, DocumentCapped, LossCostsOnlyItsSample
  <2>3. ClockBook'
    BY <2>1 DEF Accounts, Books, ClockBook, StartLimit
  <2>4. BudgetBook' /\ HostBook'
    BY <2>1 DEF Accounts, Books, BudgetBook, HostBook, InGrade, Uncharged, ShortOfASample
  <2> QED
    BY <1>1, <2>2, <2>3, <2>4 DEF Accounts, Books
<1>3. CASE Grader
  BY <1>1, <1>3, AskAccounts, StartAccounts, GradedAccounts, EndAccounts DEF Grader
<1>4. CASE \E w \in Workers : Worker(w) \/ DrainLine(w) \/ DrainEnd(w)
  BY <1>1, <1>4, WorkerAccounts
<1>5. CASE Tick
  BY <1>1, <1>5, TickAccounts
<1> QED
  BY <1>1, <1>2, <1>3, <1>4, <1>5 DEF Next

\* The accounts are an invariant of the grader.
THEOREM AccountsHold == Spec => []BInv
<1>1. Init => BInv
  BY Begins, AccountsBegin DEF BInv
<1> QED
  BY <1>1, AccountsStep, PTL DEF Spec

\* At most the worker in use runs, none once the grader is closed, and the watchdog
\* fires for orphans only, whatever the scheduler's lateness below the margin.
THEOREM OneProcess == Spec => []OneWorker
<1>1. BInv => OneWorker
  BY DEF BInv, Accounts
<1> QED
  BY <1>1, AccountsHold, PTL

\* A document costs its budget and the lateness of two waits at most, however many
\* samples, breaches and restarts it has.
THEOREM DocumentCosts == Spec => []DocumentCapped
<1>1. BInv => DocumentCapped
  BY DEF BInv, Accounts
<1> QED
  BY <1>1, AccountsHold, PTL

\* A sample is called unhostable after a refused start only, and a reason never quotes
\* another worker's diagnostics.
THEOREM LossIsLocal == Spec => []LossCostsOnlyItsSample
<1>1. BInv => LossCostsOnlyItsSample
  BY DEF BInv, Accounts
<1> QED
  BY <1>1, AccountsHold, PTL

-----------------------------------------------------------------------------
(* The refinement *)

\* A grade in progress is an open sample of a grader that has not given up.
LEMMA OpenMeansGrading ==
    ASSUME BInv, InGrade
    PROVE  Mode = "grading" /\ req \in Requests /\ req # Nothing
<1>1. req \in Requests /\ proc # NoWorker /\ ~ShortOfASample(remaining)
  BY DEF BInv, IInv, Bookkeeping, CallBook, Accounts, Books, BudgetBook
<1>2. ~unhostable
  BY <1>1 DEF BInv, Accounts, Books, HostBook
<1>3. req # Nothing
  BY <1>1, Constants DEF Nothing
<1> QED
  BY <1>1, <1>2, <1>3 DEF Mode, InGrade

\* What grade() answers before it has a worker at hand is a beginning, or the reason
\* that is final.
LEMMA AskRefines ==
    ASSUME BInv, NEW r \in Requests,
           \/ AskExhausted(r) \/ AskReady(r) \/ AskUnhostable(r)
           \/ AskRefused(r) \/ AskStart(r)
    PROVE  Grading!Next
<1>0. /\ pc = "idle" /\ req = Nothing
      /\ unhostable => proc = NoWorker
  BY DEF AskExhausted, AskReady, AskUnhostable, AskRefused, AskStart, Ask, BInv, Accounts,
         Books, HostBook, InGrade
<1>1. CASE AskExhausted(r)
  <2>1. Mode = "exhausted" /\ Mode' = "exhausted"
    BY <1>0, <1>1 DEF AskExhausted, Return, graderVars, Mode, ShortOfASample
  <2>2. Grading!Refuse(r)
    BY <1>0, <1>1, <2>1 DEF AskExhausted, Return, Grading!Refuse, Grading!Reply
  <2> QED
    BY <2>2 DEF Grading!Next
<1>2. CASE AskUnhostable(r)
  <2>1. Mode = "unhostable" /\ Mode' = "unhostable"
    BY <1>0, <1>2 DEF AskUnhostable, Return, Latched, graderVars, Mode, ShortOfASample
  <2>2. Grading!Refuse(r)
    BY <1>0, <1>2, <2>1 DEF AskUnhostable, Return, Grading!Refuse, Grading!Reply
  <2> QED
    BY <2>2 DEF Grading!Next
<1>3. CASE AskRefused(r)
  <2>1. Mode = "grading" /\ Mode' = "unhostable"
    BY <1>0, <1>3 DEF AskRefused, Return, Latched, Mode, ShortOfASample
  <2>2. Grading!LoseHost(r)
    BY <1>0, <1>3, <2>1 DEF AskRefused, Return, Grading!LoseHost, Grading!Reply
  <2> QED
    BY <2>2 DEF Grading!Next
<1>4. CASE AskReady(r) \/ AskStart(r)
  <2>1. Mode = "grading" /\ Mode' = "grading"
    BY <1>0, <1>4 DEF AskReady, AskStart, Latched, graderVars, Mode, ShortOfASample
  <2>2. Grading!Begin(r)
    BY <1>0, <1>4, <2>1 DEF AskReady, AskStart, NoAnswer, Grading!Begin, Grading!NoAnswer
  <2> QED
    BY <2>2 DEF Grading!Next
<1> QED
  BY <1>1, <1>2, <1>3, <1>4

\* A start is silent, or costs the host, or what the document had left.
LEMMA StartRefines ==
    ASSUME BInv, StartSucceeds \/ StartFails \/ StartRaises
    PROVE  Grading!Next \/ UNCHANGED Grading!gradingVars
<1>0. Mode = "grading" /\ req \in Requests /\ req # Nothing /\ ~unhostable
  <2>1. InGrade
    BY DEF StartSucceeds, StartFails, StartRaises, InGrade
  <2> QED
    BY <2>1, OpenMeansGrading DEF Mode
<1>1. CASE StartSucceeds /\ pc' = "schema"
  <2>1. Mode' = "grading" /\ UNCHANGED <<req, calls, answer>>
    BY <1>0, <1>1 DEF StartSucceeds, Return, Mode, ShortOfASample
  <2> QED
    BY <2>1, <1>0 DEF Grading!gradingVars
<1>2. CASE StartSucceeds /\ ShortOfASample(Charged) /\ Return(req, "exhausted", Nothing)
  <2>1. Mode' = "exhausted"
    BY <1>2 DEF StartSucceeds, Return, Mode, ShortOfASample
  <2> QED
    BY <2>1, <1>0, <1>2 DEF Return, Grading!Next, Grading!RunOut, Grading!Reply
<1>3. CASE GiveUp
  <2>1. Mode' \in {"unhostable", "exhausted"}
    BY <1>3 DEF GiveUp, Return, Mode
  <2>2. Grading!LoseHost(req)
    BY <2>1, <1>0, <1>3 DEF GiveUp, Return, Grading!LoseHost, Grading!Reply
  <2> QED
    BY <2>2, <1>0 DEF Grading!Next
<1> QED
  BY <1>1, <1>2, <1>3 DEF StartSucceeds, StartFails, StartRaises

\* Bringing the worker up to date is silent; what ends a grade is the verdict on the
\* open sample, or a kind that decides nothing.
LEMMA GradedRefines ==
    ASSUME BInv, BInv',
           \/ SendSchema \/ SendNode \/ SendGrade
           \/ ReceiveVerdict \/ ReceiveLoss \/ TimedOut \/ Raise
    PROVE  Grading!Next \/ UNCHANGED Grading!gradingVars
<1>0. /\ pc \in Served /\ Mode = "grading" /\ req # Nothing /\ ~unhostable'
  <2>1. pc \in Served /\ InGrade /\ unhostable' = unhostable
    BY DEF SendSchema, SendNode, SendGrade, ReceiveVerdict, ReceiveLoss, TimedOut, Raise,
           GradedFrame, Served, InGrade
  <2> QED
    BY <2>1, OpenMeansGrading DEF Mode
<1>1. ASSUME NEW next \in Served, Advance(next)
      PROVE  UNCHANGED Grading!gradingVars
  <2>1. Mode' = "grading" /\ UNCHANGED <<req, calls, answer>>
    BY <1>0, <1>1 DEF Advance, Served, Mode, ShortOfASample
  <2> QED
    BY <2>1, <1>0 DEF Grading!gradingVars
<1>2. ASSUME NEW v \in Grading!Undecided, Return(req, v, Nothing)
      PROVE  Grading!Next
  <2>1. Mode' \in {"grading", "exhausted"}
    BY <1>0, <1>2 DEF Return, Mode
  <2> QED
    BY <2>1, <1>0, <1>2 DEF Return, Grading!Next, Grading!Abandon, Grading!Reply
<1>3. CASE ReceiveVerdict
  <2>1. Return(req, "verdict", Head(queue).about)
    BY <1>3 DEF ReceiveVerdict
  <2>2. answer' = [req |-> req, v |-> "verdict", about |-> req]
    BY <2>1 DEF Return, BInv, IInv, NoStaleVerdict
  <2>3. Mode' \in {"grading", "exhausted"}
    BY <1>0, <2>1 DEF Return, Mode
  <2> QED
    BY <2>1, <2>2, <2>3, <1>0 DEF Return, Grading!Next, Grading!Decide, Grading!Reply
<1>4. CASE SendSchema \/ SendNode \/ SendGrade
  BY <1>1, <1>2, <1>4 DEF SendSchema, SendNode, SendGrade, Skip, Unserializable,
     WriteRefused, Lost, Served, Grading!Undecided
<1>5. CASE ReceiveLoss \/ TimedOut \/ Raise
  BY <1>2, <1>5 DEF ReceiveLoss, TimedOut, Raise, Lost, Grading!Undecided
<1> QED
  BY <1>3, <1>4, <1>5

\* Every step of the grader is one the contract allows, or one it does not see.
LEMMA StepRefines ==
    BInv /\ BInv' /\ [Next]_vars => [Grading!Next]_(Grading!gradingVars)
<1> SUFFICES ASSUME BInv, BInv', [Next]_vars
             PROVE  Grading!Next \/ UNCHANGED Grading!gradingVars
  OBVIOUS
<1>1. ASSUME UNCHANGED <<pc, req, answer, calls, remaining, unhostable>>
      PROVE  UNCHANGED Grading!gradingVars
  BY <1>1 DEF Grading!gradingVars, Mode, ShortOfASample
<1>2. CASE UNCHANGED vars
  BY <1>1, <1>2 DEF vars, localVars, graderVars
<1>3. CASE Close \/ ParentKilled
  <2>1. Mode # "ended" /\ Mode' = "ended"
    BY <1>3 DEF Close, ParentKilled, Mode
  <2>2. Grading!End
    BY <1>3, <2>1 DEF Close, ParentKilled, LocalsGone, NoAnswer, Grading!End,
       Grading!NoAnswer
  <2> QED
    BY <2>2 DEF Grading!Next
<1>4. CASE Grader
  BY <1>3, <1>4, AskRefines, StartRefines, GradedRefines DEF Grader
<1>5. CASE \E w \in Workers : Worker(w) \/ DrainLine(w) \/ DrainEnd(w)
  BY <1>1, <1>5 DEF Worker, Booted, TakeSchema, TakeNode, TakeGrade, TakePing, Take, Answer,
     BrokenPipe, SelfDestruct, StdinEof, Die, DrainLine, DrainEnd, DrainFrame, OnlyWorkers,
     localVars
<1>6. CASE Tick
  BY <1>1, <1>6 DEF Tick, graderVars
<1> QED
  BY <1>2, <1>4, <1>5, <1>6 DEF Next

\* The grader, with its process, pipes, kills and clock, does only what SampleGrading
\* promises a caller: one answer to each sample, a verdict on exactly that sample, and
\* no answer but the final one once the budget or the host is gone.
THEOREM KeepsContract == Spec => KeepsItsPromise
<1>1. Init => Grading!Init
  BY DEF Init, NoAnswer, Mode, Grading!Init, Grading!NoAnswer
<1> QED
  BY <1>1, AccountsHold, StepRefines, PTL DEF Spec, KeepsItsPromise, Grading!Spec
=============================================================================
