---------------------------- MODULE SampleBudget ----------------------------
(***************************************************************************)
(* The wall-clock budget over the grading of one document's recorded       *)
(* samples: BudgetedGrader (the parent, _sample_budget.py) and the worker  *)
(* process it starts, asks and kills (_sample_worker.py).                  *)
(*                                                                         *)
(* The parent runs one grade() at a time.  It keeps a record of the schema *)
(* and the node the worker holds, sends only what changed, and waits for   *)
(* a reply on a queue that a drain thread fills from the worker's stdout.  *)
(* A worker is named by the number of the grade() call that started it.    *)
(* Time is discrete; it passes only while a grade() is running or an       *)
(* orphaned worker is evaluating.  What a process that ended had in memory *)
(* (its stdin, what it held) is reset, and so is a local that went out of  *)
(* scope.                                                                  *)
(***************************************************************************)
EXTENDS Integers, Sequences

CONSTANTS
    Requests,        \* the [schema, node, sample] triples the caller may grade
    NotJson,         \* schemas, nodes and samples no JSON document could hold
    Unsent,          \* the _UNSENT sentinel; also "nothing held" in a worker
    MaxCalls,        \* bound: grade() calls made for the document
    SampleBudget,    \* SAMPLE_BUDGET_SECONDS, in ticks
    DocumentBudget,  \* DOCUMENT_BUDGET_SECONDS, in ticks
    StartDeadline,   \* _START_DEADLINE_SECONDS, in ticks
    Margin,          \* _SELF_DESTRUCT_MARGIN, in ticks
    Slack            \* bound: how late the scheduler runs a process that is due

Schemas == {r.schema : r \in Requests}
Nodes   == {r.node : r \in Requests}
Samples == {r.sample : r \in Requests}

Triple == [schema : Schemas, node : Nodes, sample : Samples]

Held == [schema : Schemas \cup {Unsent},
         node   : Nodes \cup {Unsent},
         sample : Samples \cup {Unsent}]

Nothing == [schema |-> Unsent, node |-> Unsent, sample |-> Unsent]

ASSUME BudgetAssumption ==
    /\ MaxCalls \in Nat /\ Slack \in Nat
    /\ SampleBudget \in Nat \ {0} /\ DocumentBudget \in Nat
    /\ StartDeadline \in Nat \ {0} /\ Margin \in Nat \ {0}

ASSUME RequestAssumption ==
    /\ Requests \subseteq Triple
    /\ Unsent \notin Schemas \cup Nodes \cup Samples

Workers  == 1..MaxCalls
NoWorker == 0

Alive == {"booting", "reading", "evaluating"}
Gone  == {"killed", "died", "watchdog", "stdin-eof"}

Messages == [op : {"ping"}, value : {Unsent}] \cup [op : {"schema"}, value : Schemas]
            \cup [op : {"node"}, value : Nodes] \cup [op : {"grade"}, value : Samples]
Lines    == [kind : {"pong", "verdict", "torn", "eof"}, about : Held]

\* "verdict" is a worker's own answer; "unhostable", "lost" and "raised" are the
\* three reasons of the kind `unavailable`.
Outcomes == {"none", "verdict", "budget", "exhausted", "unserializable",
             "unhostable", "lost", "raised"}
Answers  == [req : Held, v : Outcomes, about : Held]

VARIABLES
    \* the parent
    pc,           \* where grade() is
    req,          \* its arguments (schema, node, sample)
    calls,        \* grade() calls that returned
    answer,       \* what the last one returned, until the next begins
    remaining,    \* self._remaining
    elapsed,      \* time since `begin` (or, in a start, since `started`)
    waited,       \* time spent in the current queue.get
    startedOnce,  \* self._started_once
    unhostable,   \* self._unhostable is not None
    schemaSent,   \* self._schema
    nodeSent,     \* self._node
    held,         \* self._node as the tuple in _graded captured it
    proc,         \* self._proc
    queue,        \* self._replies, the queue made for that worker
    stderr,       \* whose diagnostics self._stderr holds
    \* the workers, their pipes and the drain threads
    life,         \* state of each worker process
    inbox,        \* its stdin
    holds,        \* document, node and the sample under evaluation
    jobTime,      \* how long that evaluation has run
    out,          \* its stdout: lines the drain thread has not moved yet
    drained,      \* the drain thread has put its final None
    \* history, read by the properties only
    spent,        \* time charged to the document, measured by the clock
    refusals      \* starts that failed

localVars  == <<req, held, elapsed, waited>>
graderVars == <<remaining, startedOnce, unhostable, schemaSent, nodeSent, proc,
                queue, stderr>>
workerVars == <<life, inbox, holds, jobTime, out, drained>>
vars == <<pc, calls, answer, localVars, graderVars, workerVars, spent, refusals>>

NoAnswer == [req |-> Nothing, v |-> "none", about |-> Nothing]

Init ==
    /\ pc = "idle" /\ calls = 0 /\ answer = NoAnswer
    /\ req = Nothing /\ held = Unsent /\ elapsed = 0 /\ waited = 0
    /\ remaining = DocumentBudget
    /\ startedOnce = FALSE /\ unhostable = FALSE
    /\ schemaSent = Unsent /\ nodeSent = Unsent
    /\ proc = NoWorker /\ queue = <<>> /\ stderr = NoWorker
    /\ life = [w \in Workers |-> "absent"]
    /\ inbox = [w \in Workers |-> <<>>]
    /\ holds = [w \in Workers |-> Nothing]
    /\ jobTime = [w \in Workers |-> 0]
    /\ out = [w \in Workers |-> <<>>]
    /\ drained = [w \in Workers |-> FALSE]
    /\ spent = 0 /\ refusals = 0

-----------------------------------------------------------------------------
(* Pieces of the parent *)

ShortOfASample(budget) == budget < SampleBudget

\* Bug: a restart gets the whole start deadline, whatever is left of the budget.
StartLimit_Unbounded == StartDeadline

\* The first start has its own deadline, a restart what is left of the budget.
StartLimit ==
    IF startedOnce /\ remaining < StartDeadline THEN remaining ELSE StartDeadline

\* grade(r) returns v; its locals go out of scope.
Return(r, v, about) ==
    /\ answer' = [req |-> r, v |-> v, about |-> about]
    /\ calls' = calls + 1
    /\ pc' = "idle" /\ req' = Nothing /\ held' = Unsent
    /\ elapsed' = 0 /\ waited' = 0

\* The process of worker w ends as `how`, and its memory with it.
Ends(w, how) ==
    /\ life' = [life EXCEPT ![w] = how]
    /\ inbox' = [inbox EXCEPT ![w] = <<>>]
    /\ holds' = [holds EXCEPT ![w] = Nothing]
    /\ jobTime' = [jobTime EXCEPT ![w] = 0]

\* Bug: the record of what was sent survives the worker it was sent to.
ForgetDelivered_Kept == UNCHANGED <<schemaSent, nodeSent>>

\* A replacement worker holds nothing, so neither may the record.
ForgetDelivered == schemaSent' = Unsent /\ nodeSent' = Unsent

\* _kill: kill and reap the worker, drop its queue, forget what it was sent.
Kill ==
    /\ \/ proc # NoWorker /\ life[proc] \in Alive /\ Ends(proc, "killed")
       \/ /\ ~(proc # NoWorker /\ life[proc] \in Alive)
          /\ UNCHANGED <<life, inbox, holds, jobTime>>
    /\ proc' = NoWorker /\ queue' = <<>>
    /\ ForgetDelivered

\* _lost: report it against this sample and replace the worker.
Lost == Return(req, "lost", Nothing) /\ Kill

\* _write to stdin: the pipe of a worker that has gone refuses it.
Send(op, value) ==
    /\ life[proc] \in Alive
    /\ inbox' = [inbox EXCEPT ![proc] = Append(@, [op |-> op, value |-> value])]
    /\ UNCHANGED <<life, holds, jobTime, proc, queue>>

Pipes == <<out, drained>>

-----------------------------------------------------------------------------
(* grade(): entry and the start of a worker *)

Ask(r) == pc = "idle" /\ calls < MaxCalls /\ r \in Requests

AskExhausted(r) ==
    /\ Ask(r)
    /\ ShortOfASample(remaining)
    /\ Return(r, "exhausted", Nothing)
    /\ UNCHANGED <<graderVars, workerVars, spent, refusals>>

\* A worker is at hand: on to _graded, whose tuple captures self._node now.
AskReady(r) ==
    /\ Ask(r)
    /\ ~ShortOfASample(remaining) /\ proc # NoWorker
    /\ pc' = "schema" /\ req' = r /\ held' = nodeSent /\ answer' = NoAnswer
    /\ UNCHANGED <<calls, elapsed, waited, graderVars, workerVars, spent, refusals>>

\* Bug: a refusal is forgotten, and the host asked once per sample.
Latched_Never == FALSE

\* Bug: a grader that has lost a worker counts as one that cannot have any.
Latched_OnLoss == startedOnce

\* The latch: an environment that refused once is not asked again.
Latched == unhostable

AskUnhostable(r) ==
    /\ Ask(r)
    /\ ~ShortOfASample(remaining) /\ proc = NoWorker /\ Latched
    /\ Return(r, "unhostable", Nothing)
    /\ UNCHANGED <<graderVars, workerVars, spent, refusals>>

\* The host refuses a temporary file or the process itself: latched at once.
AskRefused(r) ==
    /\ Ask(r)
    /\ ~ShortOfASample(remaining) /\ proc = NoWorker /\ ~Latched
    /\ startedOnce' = TRUE /\ unhostable' = TRUE
    /\ Return(r, "unhostable", Nothing)
    /\ refusals' = refusals + 1
    /\ UNCHANGED <<remaining, schemaSent, nodeSent, proc, queue, stderr, workerVars,
                   spent>>

\* "Emptied per worker, so a reason quotes the worker it is about."
EmptyStderr == stderr' = NoWorker

\* _start up to the handshake: empty the stderr file, spawn, write the ping.
AskStart(r) ==
    /\ Ask(r)
    /\ ~ShortOfASample(remaining) /\ proc = NoWorker /\ ~Latched
    /\ LET w == calls + 1 IN
         /\ proc' = w
         /\ life' = [life EXCEPT ![w] = "booting"]
         /\ inbox' = [inbox EXCEPT ![w] = <<[op |-> "ping", value |-> Unsent]>>]
    /\ queue' = <<>> /\ EmptyStderr
    /\ pc' = "handshake" /\ req' = r /\ answer' = NoAnswer
    /\ UNCHANGED <<calls, held, elapsed, waited, remaining, startedOnce, unhostable,
                   schemaSent, nodeSent, holds, jobTime, Pipes, spent, refusals>>

\* What the budget is once the start is over: only a restart is charged.
Charged == IF startedOnce THEN remaining - elapsed ELSE remaining

StartSucceeds ==
    /\ pc = "handshake" /\ queue # <<>> /\ Head(queue).kind = "pong"
    /\ startedOnce' = TRUE
    /\ remaining' = Charged
    /\ queue' = Tail(queue)
    /\ \/ /\ ~ShortOfASample(Charged)
          /\ pc' = "schema" /\ held' = nodeSent
          /\ elapsed' = 0 /\ waited' = 0
          /\ UNCHANGED <<req, calls, answer>>
       \/ ShortOfASample(Charged) /\ Return(req, "exhausted", Nothing)
    /\ UNCHANGED <<unhostable, schemaSent, nodeSent, proc, stderr, workerVars,
                   spent, refusals>>

\* The start failed after the spawn: kill what was spawned, latch the reason.
GiveUp ==
    /\ Kill
    /\ startedOnce' = TRUE /\ unhostable' = TRUE
    /\ remaining' = Charged
    /\ Return(req, "unhostable", Nothing)
    /\ refusals' = refusals + 1
    /\ UNCHANGED <<stderr, Pipes, spent>>

\* No answer in time, or the worker went, or it answered something else.
StartFails ==
    /\ pc = "handshake"
    /\ \/ waited >= StartLimit /\ queue = <<>>
       \/ queue # <<>> /\ Head(queue).kind # "pong"
    /\ GiveUp

\* The host refuses the thread or the first write, with the process running.
StartRaises == pc = "handshake" /\ waited = 0 /\ GiveUp

-----------------------------------------------------------------------------
(* _graded: bring the worker up to date, then ask it.  Whatever ends it, the
   `finally` of grade() charges the time since `begin`. *)

Charge == remaining' = remaining - elapsed

GradedFrame == UNCHANGED <<startedOnce, unhostable, stderr, Pipes, spent, refusals>>

Advance(next) ==
    pc' = next /\ UNCHANGED <<req, held, calls, answer, elapsed, remaining>>

Skip(next) ==
    /\ Advance(next)
    /\ UNCHANGED <<waited, schemaSent, nodeSent, proc, queue, life, inbox, holds,
                   jobTime>>

\* Bug: a node that does not encode is recorded as delivered all the same.
Unserializable_Recorded ==
    /\ Return(req, "unserializable", Nothing) /\ Charge
    /\ nodeSent' = IF pc = "node" THEN req.node ELSE nodeSent
    /\ UNCHANGED <<schemaSent, proc, queue, life, inbox, holds, jobTime>>

Unserializable ==
    /\ Return(req, "unserializable", Nothing) /\ Charge
    /\ UNCHANGED <<schemaSent, nodeSent, proc, queue, life, inbox, holds, jobTime>>

WriteRefused == life[proc] \notin Alive /\ Lost /\ Charge

SendSchema ==
    /\ pc = "schema"
    /\ \/ req.schema = schemaSent /\ Skip("node")
       \/ req.schema # schemaSent /\ req.schema \in NotJson /\ Unserializable
       \/ req.schema # schemaSent /\ req.schema \notin NotJson /\ WriteRefused
       \/ /\ req.schema # schemaSent /\ req.schema \notin NotJson
          /\ Send("schema", req.schema)
          /\ schemaSent' = req.schema /\ nodeSent' = Unsent
          /\ Advance("node") /\ UNCHANGED waited
    /\ GradedFrame

SendNode ==
    /\ pc = "node"
    /\ \/ req.node = held /\ Skip("grade")
       \/ req.node # held /\ req.node \in NotJson /\ Unserializable
       \/ req.node # held /\ req.node \notin NotJson /\ WriteRefused
       \/ /\ req.node # held /\ req.node \notin NotJson
          /\ Send("node", req.node)
          /\ nodeSent' = req.node
          /\ Advance("grade") /\ UNCHANGED <<waited, schemaSent>>
    /\ GradedFrame

SendGrade ==
    /\ pc = "grade"
    /\ \/ req.sample \in NotJson /\ Unserializable
       \/ req.sample \notin NotJson /\ WriteRefused
       \/ /\ req.sample \notin NotJson
          /\ Send("grade", req.sample)
          /\ waited' = 0
          /\ Advance("await") /\ UNCHANGED <<schemaSent, nodeSent>>
    /\ GradedFrame

\* A reply of a known kind is the verdict.
ReceiveVerdict ==
    /\ pc = "await" /\ queue # <<>> /\ Head(queue).kind \in {"pong", "verdict"}
    /\ Return(req, "verdict", Head(queue).about) /\ Charge
    /\ queue' = Tail(queue)
    /\ UNCHANGED <<schemaSent, nodeSent, proc, life, inbox, holds, jobTime>>
    /\ GradedFrame

\* The None of a worker that went, or a line that is no verdict.
ReceiveLoss ==
    /\ pc = "await" /\ queue # <<>> /\ Head(queue).kind \in {"torn", "eof"}
    /\ Lost /\ Charge
    /\ GradedFrame

\* Bug: the wait for a reply has no deadline.
TimedOut_Never == FALSE /\ UNCHANGED vars

\* queue.get timed out: killing the worker is the interrupt.
TimedOut ==
    /\ pc = "await" /\ waited >= SampleBudget /\ queue = <<>>
    /\ Return(req, "budget", Nothing) /\ Charge
    /\ Kill
    /\ GradedFrame

\* The last-resort guard of grade(): not latched.
Raise ==
    /\ pc \in {"schema", "node", "grade", "await"}
    /\ Return(req, "raised", Nothing) /\ Charge
    /\ Kill
    /\ GradedFrame

-----------------------------------------------------------------------------
(* The end of the parent: close(), or a kill it cannot handle *)

LocalsGone ==
    /\ req' = Nothing /\ held' = Unsent /\ elapsed' = 0 /\ waited' = 0
    /\ answer' = NoAnswer

\* Bug: closing drops the process object and leaves the process.
Close_Leaks ==
    /\ pc \notin {"closed", "orphaned"}
    /\ pc' = "closed"
    /\ LocalsGone /\ Charge
    /\ proc' = NoWorker /\ queue' = <<>> /\ ForgetDelivered
    /\ stderr' = NoWorker
    /\ UNCHANGED <<calls, startedOnce, unhostable, life, inbox, holds, jobTime, Pipes,
                   spent, refusals>>

\* The walk is over, or a BaseException unwinds grade() and the `with`.
Close ==
    /\ pc \notin {"closed", "orphaned"}
    /\ pc' = "closed"
    /\ LocalsGone /\ Charge
    /\ Kill
    /\ stderr' = NoWorker
    /\ UNCHANGED <<calls, startedOnce, unhostable, Pipes, spent, refusals>>

\* Its drain threads go with it, and what they had not moved.
ParentKilled ==
    /\ pc \notin {"closed", "orphaned"}
    /\ pc' = "orphaned"
    /\ LocalsGone
    /\ queue' = <<>> /\ schemaSent' = Unsent /\ nodeSent' = Unsent
    /\ out' = [w \in Workers |-> <<>>]
    /\ drained' = [w \in Workers |-> TRUE]
    /\ UNCHANGED <<calls, remaining, startedOnce, unhostable, proc, stderr, life,
                   inbox, holds, jobTime, spent, refusals>>

-----------------------------------------------------------------------------
(* The worker process and the drain thread *)

OnlyWorkers == UNCHANGED <<pc, calls, answer, localVars, remaining, startedOnce,
                           unhostable, schemaSent, nodeSent, proc, spent, refusals>>

Booted(w) ==
    /\ life[w] = "booting"
    /\ life' = [life EXCEPT ![w] = "reading"]
    /\ UNCHANGED <<queue, stderr, inbox, holds, jobTime, Pipes>>
    /\ OnlyWorkers

Take(w, op) ==
    /\ life[w] = "reading" /\ inbox[w] # <<>> /\ Head(inbox[w]).op = op
    /\ UNCHANGED <<queue, stderr, drained>>
    /\ OnlyWorkers

\* Bug: the worker keeps the message where its value belongs.
TakeSchema_Message(w) ==
    /\ Take(w, "schema")
    /\ inbox' = [inbox EXCEPT ![w] = Tail(@)]
    /\ holds' = [holds EXCEPT ![w].schema = Head(inbox[w]).op]
    /\ UNCHANGED <<life, jobTime, out>>

TakeSchema(w) ==
    /\ Take(w, "schema")
    /\ inbox' = [inbox EXCEPT ![w] = Tail(@)]
    /\ holds' = [holds EXCEPT ![w].schema = Head(inbox[w]).value]
    /\ UNCHANGED <<life, jobTime, out>>

TakeNode(w) ==
    /\ Take(w, "node")
    /\ inbox' = [inbox EXCEPT ![w] = Tail(@)]
    /\ holds' = [holds EXCEPT ![w].node = Head(inbox[w]).value]
    /\ UNCHANGED <<life, jobTime, out>>

TakeGrade(w) ==
    /\ Take(w, "grade")
    /\ inbox' = [inbox EXCEPT ![w] = Tail(@)]
    /\ life' = [life EXCEPT ![w] = "evaluating"]
    /\ holds' = [holds EXCEPT ![w].sample = Head(inbox[w]).value]
    /\ UNCHANGED <<jobTime, out>>

TakePing(w) ==
    /\ Take(w, "ping") /\ pc # "orphaned"
    /\ inbox' = [inbox EXCEPT ![w] = Tail(@)]
    /\ out' = [out EXCEPT ![w] = Append(@, [kind |-> "pong", about |-> Nothing])]
    /\ UNCHANGED <<life, holds, jobTime>>

\* The evaluation comes back.  The answer is about what the worker holds.
Answer(w) ==
    /\ life[w] = "evaluating" /\ pc # "orphaned"
    /\ life' = [life EXCEPT ![w] = "reading"]
    /\ out' = [out EXCEPT ![w] = Append(@, [kind |-> "verdict", about |-> holds[w]])]
    /\ holds' = [holds EXCEPT ![w].sample = Unsent]
    /\ jobTime' = [jobTime EXCEPT ![w] = 0]
    /\ UNCHANGED <<queue, stderr, inbox, drained>>
    /\ OnlyWorkers

\* Writing to the stdout of a dead parent raises, which ends the worker.
BrokenPipe(w) ==
    /\ pc = "orphaned"
    /\ \/ life[w] = "evaluating"
       \/ life[w] = "reading" /\ inbox[w] # <<>> /\ Head(inbox[w]).op = "ping"
    /\ Ends(w, "died")
    /\ UNCHANGED <<queue, stderr, Pipes>>
    /\ OnlyWorkers

\* Bug: the watchdog is a Python thread, which a running match never lets run.
Overdue_NeedsInterpreter(w) == jobTime[w] >= SampleBudget + Margin /\ life[w] = "reading"

Overdue(w) == jobTime[w] >= SampleBudget + Margin

\* faulthandler's native watchdog ends a job that outlived its deadline.
SelfDestruct(w) ==
    /\ life[w] = "evaluating" /\ Overdue(w)
    /\ Ends(w, "watchdog")
    /\ stderr' = w
    /\ UNCHANGED <<queue, Pipes>>
    /\ OnlyWorkers

\* An idle worker whose parent is gone reads end of file and exits.
StdinEof(w) ==
    /\ life[w] = "reading" /\ inbox[w] = <<>> /\ pc = "orphaned"
    /\ Ends(w, "stdin-eof")
    /\ UNCHANGED <<queue, stderr, Pipes>>
    /\ OnlyWorkers

\* The worker ends by itself (refused memory, a failed import, the OS), with a
\* diagnostic on stderr, in the middle of writing its line or not.
Die(w) ==
    /\ life[w] \in Alive
    /\ Ends(w, "died")
    /\ stderr' = w
    /\ \/ UNCHANGED out
       \/ /\ life[w] = "evaluating" /\ pc # "orphaned"
          /\ out' = [out EXCEPT ![w] = Append(@, [kind |-> "torn", about |-> Nothing])]
    /\ UNCHANGED <<queue, drained>>
    /\ OnlyWorkers

DrainFrame ==
    /\ UNCHANGED <<stderr, life, inbox, holds, jobTime>>
    /\ OnlyWorkers

\* The drain thread of w moves a line to the queue it was given; once that worker
\* was killed, nobody holds that queue any more.
DrainLine(w) ==
    /\ ~drained[w] /\ out[w] # <<>>
    /\ queue' = IF w = proc THEN Append(queue, Head(out[w])) ELSE queue
    /\ out' = [out EXCEPT ![w] = Tail(@)]
    /\ UNCHANGED drained
    /\ DrainFrame

\* Its stream ends, or _kill closed the pipe on what was still in it: the `finally`
\* puts None.
DrainEnd(w) ==
    /\ ~drained[w] /\ life[w] \in Gone /\ (out[w] = <<>> \/ w # proc)
    /\ queue' = IF w = proc THEN Append(queue, [kind |-> "eof", about |-> Nothing])
                            ELSE queue
    /\ out' = [out EXCEPT ![w] = <<>>]
    /\ drained' = [drained EXCEPT ![w] = TRUE]
    /\ DrainFrame

-----------------------------------------------------------------------------
(* Time: a wait is left at most Slack after it is due, a write takes at most
   Slack, the watchdog fires at most Slack late. *)

MayWait ==
    \/ pc = "handshake" /\ waited < StartLimit + Slack
    \/ pc = "await" /\ waited < SampleBudget + Slack
    \/ pc \in {"schema", "node", "grade"} /\ elapsed < Slack
    \/ pc = "orphaned" /\ \E w \in Workers : life[w] = "evaluating"

Tick ==
    /\ MayWait
    /\ \A w \in Workers : life[w] = "evaluating"
                            => jobTime[w] < SampleBudget + Margin + Slack
    /\ jobTime' = [w \in Workers |->
                      IF life[w] = "evaluating" THEN jobTime[w] + 1 ELSE jobTime[w]]
    /\ elapsed' = IF pc = "orphaned" THEN elapsed ELSE elapsed + 1
    /\ waited' = IF pc \in {"handshake", "await"} THEN waited + 1 ELSE waited
    /\ spent' = IF pc = "orphaned" \/ (pc = "handshake" /\ ~startedOnce)
                THEN spent ELSE spent + 1
    /\ UNCHANGED <<pc, req, held, calls, answer, graderVars, life, inbox, holds,
                   Pipes, refusals>>

-----------------------------------------------------------------------------
Grader ==
    \/ \E r \in Requests : AskExhausted(r) \/ AskReady(r) \/ AskUnhostable(r)
                             \/ AskRefused(r) \/ AskStart(r)
    \/ StartSucceeds \/ StartFails \/ StartRaises
    \/ SendSchema \/ SendNode \/ SendGrade
    \/ ReceiveVerdict \/ ReceiveLoss \/ TimedOut \/ Raise
    \/ Close \/ ParentKilled

Worker(w) ==
    \/ Booted(w) \/ TakeSchema(w) \/ TakeNode(w) \/ TakeGrade(w) \/ TakePing(w)
    \/ Answer(w) \/ BrokenPipe(w) \/ SelfDestruct(w) \/ StdinEof(w) \/ Die(w)

Next ==
    \/ Grader
    \/ \E w \in Workers : Worker(w) \/ DrainLine(w) \/ DrainEnd(w)
    \/ Tick

Spec == Init /\ [][Next]_vars

(* Fairness.  The parent's own steps and the clock are not in doubt while it
   lives; the OS schedules a worker that has something to read, and the watchdog
   is a native thread.  Nothing makes an evaluation come back, and nothing makes
   the caller ask. *)
ParentFairness ==
    /\ WF_vars(StartSucceeds) /\ WF_vars(StartFails)
    /\ WF_vars(SendSchema) /\ WF_vars(SendNode) /\ WF_vars(SendGrade)
    /\ WF_vars(ReceiveVerdict) /\ WF_vars(ReceiveLoss) /\ WF_vars(TimedOut)
    /\ WF_vars(Tick)

WorkerFairness ==
    \A w \in Workers :
        WF_vars(\/ Booted(w) \/ TakeSchema(w) \/ TakeNode(w) \/ TakeGrade(w)
                \/ TakePing(w) \/ (BrokenPipe(w) /\ life[w] = "reading")
                \/ SelfDestruct(w) \/ StdinEof(w))

FairSpec == Spec /\ ParentFairness /\ WorkerFairness

-----------------------------------------------------------------------------
(* Properties *)

CallType ==
    /\ pc \in {"idle", "handshake", "schema", "node", "grade", "await", "closed", "orphaned"}
    /\ req \in Held /\ held \in Nodes \cup {Unsent}
    /\ calls \in 0..MaxCalls /\ answer \in Answers
    /\ elapsed \in Nat /\ waited \in Nat

GraderType ==
    /\ remaining \in Int /\ spent \in Nat /\ refusals \in Nat
    /\ startedOnce \in BOOLEAN /\ unhostable \in BOOLEAN
    /\ schemaSent \in Schemas \cup {Unsent} /\ nodeSent \in Nodes \cup {Unsent}
    /\ proc \in Workers \cup {NoWorker} /\ stderr \in Workers \cup {NoWorker}
    /\ queue \in Seq(Lines)

WorkerType ==
    /\ life \in [Workers -> {"absent"} \cup Alive \cup Gone]
    /\ inbox \in [Workers -> Seq(Messages)]
    /\ holds \in [Workers -> Held]
    /\ jobTime \in [Workers -> Nat]

PipeType ==
    /\ out \in [Workers -> Seq(Lines)]
    /\ drained \in [Workers -> BOOLEAN]

\* Every variable has its type.
TypeOK == CallType /\ GraderType /\ WorkerType /\ PipeType

(* A verdict is about the schema, the node and the sample that were asked for:
   no sample is answered with what a worker computed for another one, or against
   a schema or node it still held from before. *)
NoStaleVerdict == answer.v = "verdict" => answer.about = answer.req

\* A worker that now holds `now` under `op` holds `value` once it has read `box`.
WillHold(box, op, now, value) ==
    \/ \E i \in 1..Len(box) :
          /\ box[i].op = op /\ box[i].value = value
          /\ \A j \in 1..Len(box) : j > i => box[j].op # op
    \/ (\A j \in 1..Len(box) : box[j].op # op) /\ now = value

SchemaArrives(s) == WillHold(inbox[proc], "schema", holds[proc].schema, s)
NodeArrives(n)   == WillHold(inbox[proc], "node", holds[proc].node, n)

InGrade == pc \in {"handshake", "schema", "node", "grade", "await"}

InUse == pc \notin {"closed", "orphaned"} /\ proc # NoWorker

(* The parent's record of what it delivered is never ahead of the pipe: whatever
   it believes delivered is what a living worker holds once it has caught up. *)
RecordIsTrue ==
    InUse /\ life[proc] \in Alive =>
        /\ schemaSent # Unsent => SchemaArrives(schemaSent)
        /\ nodeSent # Unsent => NodeArrives(nodeSent)

(* At most the current worker runs, and none once the grader is closed; and its
   own watchdog is for orphans: while the parent lives it reports the overrun
   first, as long as it is never later than the margin. *)
OneWorker ==
    \A w \in Workers :
        /\ life[w] \in Alive => w = proc /\ pc # "closed"
        /\ Slack < Margin /\ life[w] = "watchdog" => pc = "orphaned"

(* A document's samples cost its budget and the lateness of two waits at most,
   restarts and breaches included; only the first start is free, and nothing is
   charged twice or forgotten between two grades. *)
DocumentCapped ==
    /\ spent <= DocumentBudget + 2 * Slack
    /\ pc = "idle" => spent + remaining = DocumentBudget

(* A sample is reported unhostable only after a start that failed: a worker lost,
   killed or raised about while grading is never held against a later sample. And
   the stderr file a reason is read from holds nothing but the diagnostics of the
   worker in use. *)
LossCostsOnlyItsSample ==
    /\ answer.v = "unhostable" => refusals > 0
    /\ proc # NoWorker => stderr \in {NoWorker, proc}

(* Every grade returns, whether or not the evaluation ever does. *)
EveryGradeReturns == InGrade ~> ~InGrade

(* No worker outlives its parent for ever. *)
OrphansEnd ==
    pc = "orphaned" ~> \A w \in Workers : life[w] \notin Alive

-----------------------------------------------------------------------------
(* The inductive invariant behind NoStaleVerdict. *)

\* A grade in progress has a worker, and nothing is recorded as sent to none.
CallBook ==
    /\ InGrade => calls < MaxCalls /\ proc # NoWorker /\ req \in Requests
    /\ proc = NoWorker \/ pc = "handshake" => schemaSent = Unsent /\ nodeSent = Unsent
    /\ pc = "schema" => held = nodeSent

\* A worker is one that a call has named; one that was never started holds nothing.
WorkerBook ==
    /\ pc \notin {"closed", "orphaned"} =>
         /\ proc <= (IF InGrade THEN calls + 1 ELSE calls)
         /\ \A w \in Workers : life[w] # "absent" => w <= calls \/ w = proc
    /\ \A w \in Workers : life[w] = "absent" =>
         inbox[w] = <<>> /\ out[w] = <<>> /\ holds[w] = Nothing

Bookkeeping == CallBook /\ WorkerBook

Noise == {"torn", "eof"}
OnlyNoise(lines) == \A i \in 1..Len(lines) : lines[i].kind \in Noise
AnswerThenNoise(lines, line) ==
    \A i \in 1..Len(lines) : lines[i].kind \in Noise \/ (i = 1 /\ lines[i] = line)

\* No answer is under way: the worker has been asked for none.
Quiet ==
    /\ life[proc] # "evaluating"
    /\ \A i \in 1..Len(inbox[proc]) : inbox[proc][i].op \in {"schema", "node"}
    /\ life[proc] \in Alive => out[proc] = <<>> /\ queue = <<>>
    /\ OnlyNoise(out[proc]) /\ OnlyNoise(queue)

\* The one answer under way is on the pipe, or first in the queue.
OnItsWay(kind, about) ==
    /\ life[proc] # "evaluating" /\ inbox[proc] = <<>>
    /\ \/ out[proc] = <<[kind |-> kind, about |-> about]>> /\ queue = <<>>
       \/ /\ life[proc] \in Alive => out[proc] = <<>> /\ Len(queue) = 1
          /\ OnlyNoise(out[proc])
          /\ AnswerThenNoise(queue, [kind |-> kind, about |-> about])

\* The worker has been asked to prove it answers.
Pinged ==
    \/ /\ life[proc] \in {"booting", "reading"} /\ out[proc] = <<>> /\ queue = <<>>
       /\ inbox[proc] = <<[op |-> "ping", value |-> Unsent]>>
    \/ OnItsWay("pong", Nothing)

\* The worker has been asked for this sample's verdict.
Asked ==
    \/ /\ life[proc] \in {"booting", "reading"} /\ out[proc] = <<>> /\ queue = <<>>
       /\ inbox[proc] # <<>>
       /\ inbox[proc][Len(inbox[proc])] = [op |-> "grade", value |-> req.sample]
       /\ \A i \in 1..Len(inbox[proc]) :
             i < Len(inbox[proc]) => inbox[proc][i].op \in {"schema", "node"}
       /\ SchemaArrives(req.schema) /\ NodeArrives(req.node)
    \/ /\ life[proc] = "evaluating" /\ inbox[proc] = <<>> /\ holds[proc] = req
       /\ out[proc] = <<>> /\ queue = <<>>
    \/ OnItsWay("verdict", req)

\* What has been brought up to date when grade() is at pc.
UpToDate ==
    InUse /\ life[proc] \in Alive =>
        /\ pc = "node" => /\ SchemaArrives(req.schema)
                          /\ held # Unsent => NodeArrives(held)
        /\ pc = "grade" => SchemaArrives(req.schema) /\ NodeArrives(req.node)

\* What is between the parent and its worker when grade() is at pc.
UnderWay ==
    /\ InUse /\ pc \in {"idle", "schema", "node", "grade"} => Quiet
    /\ pc = "handshake" => Pinged
    /\ pc = "await" => Asked

IInv ==
    /\ TypeOK /\ Bookkeeping /\ RecordIsTrue /\ UpToDate /\ UnderWay
    /\ NoStaleVerdict

-----------------------------------------------------------------------------
(* The inductive invariant behind OneWorker, DocumentCapped,
   LossCostsOnlyItsSample and the refinement; it stands on IInv. *)

\* grade() has a worker at hand.
Served == {"schema", "node", "grade", "await"}

\* How long the parent has been in each wait, and a worker in its job.
ClockBook ==
    /\ pc = "idle" => elapsed = 0 /\ waited = 0
    /\ pc = "handshake" => elapsed = waited /\ waited <= StartLimit + Slack
    /\ pc \in {"schema", "node", "grade"} => elapsed <= Slack
    /\ pc = "await" => elapsed <= Slack + waited /\ waited <= SampleBudget + Slack
    /\ \A w \in Workers :
         /\ life[w] # "evaluating" => jobTime[w] = 0
         /\ life[w] = "evaluating" /\ pc # "orphaned" => jobTime[w] <= waited

\* What the clock has measured and the budget does not show yet.
Uncharged ==
    IF pc \in Served \/ (pc = "handshake" /\ startedOnce) THEN elapsed ELSE 0

\* Every tick of a document is charged, or about to be, and only while it can pay.
BudgetBook ==
    /\ pc \notin {"closed", "orphaned"} => spent + remaining = DocumentBudget + Uncharged
    /\ InGrade => ~ShortOfASample(remaining)

\* A latch is the work of a refusal, and a host that refused runs no worker.
HostBook ==
    /\ unhostable => refusals > 0 /\ proc = NoWorker
    /\ ~InGrade => req = Nothing

Books == ClockBook /\ BudgetBook /\ HostBook

Accounts == OneWorker /\ DocumentCapped /\ LossCostsOnlyItsSample /\ Books

BInv == IInv /\ Accounts

-----------------------------------------------------------------------------
(* Refinement: the process, the pipes and the clock implement the contract. *)

Mode ==
    IF pc \in {"closed", "orphaned"} THEN "ended"
    ELSE IF ShortOfASample(remaining) THEN "exhausted"
    ELSE IF unhostable THEN "unhostable" ELSE "grading"

Grading == INSTANCE SampleGrading WITH mode <- Mode, open <- req

(* Every behaviour of the grader is one the contract allows. *)
KeepsItsPromise == Grading!Spec
=============================================================================
