------------------------------- MODULE EvalRuns -------------------------------
(***************************************************************************)
(* evals/run_evals.py run: one_run, record and cmd_run, over several       *)
(* invocations that append to one results log.  A run is named             *)
(* <<invocation, place in the queue, attempt>>.                            *)
(*                                                                         *)
(* What the agent does is external: a session ends cleanly or not, and     *)
(* what it leaves satisfies everything the scenario asks for, or not.      *)
(* Anything inside one_run may raise, a directory may refuse to be made or *)
(* removed, the append to the log may fail, and the process may be killed  *)
(* or interrupted at any point.  What a step prints is left out.           *)
(***************************************************************************)
EXTENDS Naturals, Sequences, FiniteSets

CONSTANTS
  Scenarios,       \* the scenarios of evals/scenarios, in file order
  Refusals,        \* those that expect a refusal
  Networked,       \* those that reach the network
  BadPatch,        \* those whose seed patch may name a field its source, edited since, lost
  NoPlugin,        \* those whose plugin's directory may be missing when the session starts
  Runs,            \* the --runs of each invocation
  TornWrites,      \* whether a record that is cut off can leave half a line
  MaxKills, MaxRaises   \* bounds

IsSequence(s) == s \in Seq({s[i] : i \in DOMAIN s})

ASSUME RunsAssumption == Runs \in Seq(Nat \ {0}) /\ IsSequence(Scenarios)

VARIABLES
  invocation,  \* how many there have been
  args,        \* [keep, under] of the invocation; under is the passes --fail-under asks for
  queue,       \* selected
  place,       \* <<scenario, attempt>> being run
  step,        \* where cmd_run is: "idle" between invocations
  leaving,     \* what is on its way out of one_run: an exception no `except` there names
  failures,    \* of the run: what went wrong in it ("run"), a directory it could not remove
  did,         \* what the session did
  passed, worst,
  dirs,        \* the runs whose working directory is on disk
  log,         \* the results log: what each call of record wrote
  ended,       \* how each invocation ended, where, and over which queue
  kills, raises

vars == <<invocation, args, queue, place, step, leaving, failures, did, passed, worst,
          dirs, log, ended, kills, raises>>

run      == <<invocation, place[1], place[2]>>
Scenario == queue[place[1]]
Attempts == Runs[invocation]

Nothing == [clean |-> FALSE, good |-> FALSE]

Init ==
  /\ invocation = 0 /\ args = [keep |-> FALSE, under |-> 0]
  /\ queue = <<>> /\ place = <<1, 1>> /\ step = "idle" /\ leaving = "nothing"
  /\ failures = {} /\ did = Nothing /\ passed = 0 /\ worst = 0
  /\ dirs = {} /\ log = <<>> /\ ended = <<>> /\ kills = 0 /\ raises = 0

(* How an invocation ends. *)
End(how) ==
  /\ ended' = Append(ended, [how |-> how, place |-> place, queue |-> queue,
                             args |-> args, at |-> step])
  /\ step' = "idle"
  /\ leaving' = "nothing"

(* Those that stay, in their order: the j-th has j of them up to its place. *)
Select(network) ==
  LET staying == {i \in DOMAIN Scenarios : network \/ Scenarios[i] \notin Networked}
  IN  [j \in 1..Cardinality(staying) |->
         Scenarios[CHOOSE i \in staying : Cardinality({h \in staying : h <= i}) = j]]

Invoke(network, keep, under) ==
  /\ step = "idle" /\ invocation < Len(Runs)
  /\ Select(network) # <<>>
  /\ invocation' = invocation + 1
  /\ args' = [keep |-> keep, under |-> under]
  /\ queue' = Select(network)
  /\ place' = <<1, 1>>
  /\ passed' = 0 /\ worst' = Runs[invocation']
  /\ step' = "mkdtemp"
  /\ UNCHANGED <<leaving, failures, did, dirs, log, ended, kills, raises>>

---------------------------------------------------------------------------
(* one_run *)

MakeDirectory ==
  /\ step = "mkdtemp"
  /\ dirs' = dirs \cup {run}
  /\ failures' = {} /\ did' = Nothing
  /\ step' = "seed"
  /\ UNCHANGED <<invocation, args, queue, place, leaving, passed, worst, log, ended, kills, raises>>

(* Outside the `try`: an OSError of mkdtemp ends the harness. *)
MakeDirectoryFails ==
  /\ step = "mkdtemp" /\ raises < MaxRaises
  /\ raises' = raises + 1
  /\ End("exception")
  /\ UNCHANGED <<invocation, args, queue, place, failures, did, passed, worst, dirs, log, kills>>

Seed ==
  /\ step = "seed"
  /\ step' = "session"
  /\ UNCHANGED <<invocation, args, queue, place, leaving, failures, did, passed, worst, dirs, log, ended, kills, raises>>

(* `raise SystemExit`, which `except Exception` does not catch. *)
SeedRefuses ==
  /\ step = "seed" /\ Scenario \in BadPatch
  /\ leaving' = "SystemExit"
  /\ step' = "discard"
  /\ UNCHANGED <<invocation, args, queue, place, failures, did, passed, worst, dirs, log, ended, kills, raises>>

(* invoke, the directory of the plugin missing: the other `raise SystemExit` of one_run. *)
PluginMissing ==
  /\ step = "session" /\ Scenario \in NoPlugin
  /\ leaving' = "SystemExit"
  /\ step' = "discard"
  /\ UNCHANGED <<invocation, args, queue, place, failures, did, passed, worst, dirs, log, ended, kills, raises>>

(* A mutant: a session that did not finish is graded all the same. *)
SessionFails_Graded ==
  /\ step = "session"
  /\ \E good \in BOOLEAN : did' = [clean |-> FALSE, good |-> good]
  /\ step' = "grade"
  /\ UNCHANGED <<invocation, args, queue, place, leaving, failures, passed, worst, dirs, log, ended, kills, raises>>

SessionEnds ==
  /\ step = "session"
  /\ \E good \in BOOLEAN : did' = [clean |-> TRUE, good |-> good]
  /\ step' = "grade"
  /\ UNCHANGED <<invocation, args, queue, place, leaving, failures, passed, worst, dirs, log, ended, kills, raises>>

(* A timeout, an exit status other than 0, or a session that could not start; whatever it
   had written by then may be what was asked. *)
SessionFails ==
  /\ step = "session"
  /\ \E good \in BOOLEAN : did' = [clean |-> FALSE, good |-> good]
  /\ failures' = failures \cup {"run"}
  /\ step' = "discard"
  /\ UNCHANGED <<invocation, args, queue, place, leaving, passed, worst, dirs, log, ended, kills, raises>>

GradeRefusal ==
  /\ step = "grade" /\ Scenario \in Refusals
  /\ failures' = IF did.good THEN failures ELSE failures \cup {"run"}
  /\ step' = "discard"
  /\ UNCHANGED <<invocation, args, queue, place, leaving, did, passed, worst, dirs, log, ended, kills, raises>>

(* The validator may also run out of time over documents that are good. *)
GradeBuild ==
  /\ step = "grade" /\ Scenario \notin Refusals
  /\ \E late \in BOOLEAN :
       failures' = IF did.good /\ ~ late THEN failures ELSE failures \cup {"run"}
  /\ step' = "discard"
  /\ UNCHANGED <<invocation, args, queue, place, leaving, did, passed, worst, dirs, log, ended, kills, raises>>

(* A mutant: what seeding or grading raises leaves one_run. *)
Raises_Propagates ==
  /\ step \in {"seed", "session", "grade"} /\ raises < MaxRaises
  /\ raises' = raises + 1
  /\ leaving' = "exception"
  /\ step' = "discard"
  /\ UNCHANGED <<invocation, args, queue, place, failures, did, passed, worst, dirs, log, ended, kills>>

(* `except Exception`: a broken run is a result. *)
Raises ==
  /\ step \in {"seed", "session", "grade"} /\ raises < MaxRaises
  /\ raises' = raises + 1
  /\ failures' = failures \cup {"run"}
  /\ step' = "discard"
  /\ UNCHANGED <<invocation, args, queue, place, leaving, did, passed, worst, dirs, log, ended, kills>>

(* `finally`, with nothing on its way out: one_run returns its failures. *)
AfterDiscard ==
  IF leaving = "nothing"
  THEN step' = "record" /\ UNCHANGED <<leaving, ended>>
  ELSE End(leaving)

Keep ==
  /\ step = "discard" /\ args.keep
  /\ AfterDiscard
  /\ UNCHANGED <<invocation, args, queue, place, failures, did, passed, worst, dirs, log, kills, raises>>

Discard ==
  /\ step = "discard" /\ ~ args.keep
  /\ dirs' = dirs \ {run}
  /\ AfterDiscard
  /\ UNCHANGED <<invocation, args, queue, place, failures, did, passed, worst, log, kills, raises>>

(* A mutant: rmtree with ignore_errors. *)
DiscardFails_Ignored ==
  /\ step = "discard" /\ ~ args.keep /\ raises < MaxRaises
  /\ raises' = raises + 1
  /\ AfterDiscard
  /\ UNCHANGED <<invocation, args, queue, place, failures, did, passed, worst, dirs, log, kills>>

DiscardFails ==
  /\ step = "discard" /\ ~ args.keep /\ raises < MaxRaises
  /\ raises' = raises + 1
  /\ failures' = failures \cup {"directory left"}
  /\ AfterDiscard
  /\ UNCHANGED <<invocation, args, queue, place, did, passed, worst, dirs, log, kills>>

---------------------------------------------------------------------------
(* cmd_run *)

Entry(whole) ==
  [run |-> run, passed |-> failures = {}, failures |-> failures,
   earned |-> did.clean /\ did.good, whole |-> whole]

(* A mutant: the log is opened for writing, not for appending. *)
Record_Truncates ==
  /\ step = "record"
  /\ log' = <<Entry(TRUE)>>
  /\ step' = "count"
  /\ UNCHANGED <<invocation, args, queue, place, leaving, failures, did, passed, worst, dirs, ended, kills, raises>>

Record ==
  /\ step = "record"
  /\ log' = Append(log, Entry(TRUE))
  /\ step' = "count"
  /\ UNCHANGED <<invocation, args, queue, place, leaving, failures, did, passed, worst, dirs, ended, kills, raises>>

(* A record that does not get to its end leaves no line, half of one, or all of it. *)
CutOffRecord ==
  \/ UNCHANGED log
  \/ TornWrites /\ log' = Append(log, Entry(FALSE))
  \/ log' = Append(log, Entry(TRUE))

(* An OSError of open, write, flush or fsync leaves cmd_run and ends the harness. *)
RecordFails ==
  /\ step = "record" /\ raises < MaxRaises
  /\ raises' = raises + 1
  /\ CutOffRecord
  /\ End("exception")
  /\ UNCHANGED <<invocation, args, queue, place, failures, did, passed, worst, dirs, kills>>

Passed == passed + (IF failures = {} THEN 1 ELSE 0)

NextAttempt ==
  /\ step = "count" /\ place[2] < Attempts
  /\ passed' = Passed
  /\ place' = <<place[1], place[2] + 1>>
  /\ step' = "mkdtemp"
  /\ UNCHANGED <<invocation, args, queue, leaving, failures, did, worst, dirs, log, ended, kills, raises>>

Smaller(a, b) == IF a < b THEN a ELSE b

(* A mutant: the count of passes is carried over to the next scenario. *)
NextScenario_KeepsCount ==
  /\ step = "count" /\ place[2] = Attempts /\ place[1] < Len(queue)
  /\ worst' = Smaller(worst, Passed)
  /\ passed' = Passed
  /\ place' = <<place[1] + 1, 1>>
  /\ step' = "mkdtemp"
  /\ UNCHANGED <<invocation, args, queue, leaving, failures, did, dirs, log, ended, kills, raises>>

NextScenario ==
  /\ step = "count" /\ place[2] = Attempts /\ place[1] < Len(queue)
  /\ worst' = Smaller(worst, Passed)
  /\ passed' = 0
  /\ place' = <<place[1] + 1, 1>>
  /\ step' = "mkdtemp"
  /\ UNCHANGED <<invocation, args, queue, leaving, failures, did, dirs, log, ended, kills, raises>>

Finish ==
  /\ step = "count" /\ place = <<Len(queue), Attempts>>
  /\ worst' = Smaller(worst, Passed)
  /\ End(IF worst' < args.under THEN "exit 1" ELSE "exit 0")
  /\ UNCHANGED <<invocation, args, queue, place, failures, did, passed, dirs, log, kills, raises>>

---------------------------------------------------------------------------
(* The process dies where it stands, in record with or without the line. *)
Kill ==
  /\ step # "idle" /\ kills < MaxKills
  /\ kills' = kills + 1
  /\ IF step = "record" THEN CutOffRecord ELSE UNCHANGED log
  /\ End("killed")
  /\ UNCHANGED <<invocation, args, queue, place, failures, did, passed, worst, dirs, raises>>

(* KeyboardInterrupt is no Exception either: `finally` runs and the harness ends. *)
Interrupt ==
  /\ step \in {"seed", "session", "grade"} /\ kills < MaxKills
  /\ kills' = kills + 1
  /\ leaving' = "interrupted"
  /\ step' = "discard"
  /\ UNCHANGED <<invocation, args, queue, place, failures, did, passed, worst, dirs, log, ended, raises>>

(* The rates an invocation can ask for, as passes of its --runs; with no gate it exits 0. *)
Unders == IF invocation = Len(Runs) THEN {} ELSE 1..Runs[invocation + 1]

Next ==
  \/ \E network, keep \in BOOLEAN : \E under \in Unders : Invoke(network, keep, under)
  \/ MakeDirectory \/ MakeDirectoryFails \/ Seed \/ SeedRefuses \/ PluginMissing
  \/ SessionEnds \/ SessionFails \/ GradeRefusal \/ GradeBuild \/ Raises
  \/ Keep \/ Discard \/ DiscardFails
  \/ Record \/ RecordFails \/ NextAttempt \/ NextScenario \/ Finish
  \/ Kill \/ Interrupt

Spec == Init /\ [][Next]_vars

---------------------------------------------------------------------------
Places(k, q) == (1..Len(q)) \X (1..Runs[k])

Before(p, r) == p[1] < r[1] \/ (p[1] = r[1] /\ p[2] < r[2])

Written == {i \in DOMAIN log : log[i].whole}

(* A line half written has no newline: the next one is appended to it, and neither reads. *)
Readable == {i \in Written : i > 1 => i - 1 \in Written}

Recorded == {log[i].run : i \in Written}
OnDisk   == {log[i].run : i \in Readable}

Names == Nat \X Nat \X Nat
Args  == [keep : BOOLEAN, under : Nat]
Lines == [run : Names, passed : BOOLEAN, failures : SUBSET {"run", "directory left"},
          earned : BOOLEAN, whole : BOOLEAN]

(* The shape of the state. *)
TypeOK ==
  /\ invocation \in 0..Len(Runs)
  /\ args \in Args
  /\ IsSequence(queue)
  /\ place \in Nat \X Nat
  /\ step \in {"idle", "mkdtemp", "seed", "session", "grade", "discard", "record", "count"}
  /\ leaving \in {"nothing", "SystemExit", "interrupted"}
  /\ failures \subseteq {"run", "directory left"}
  /\ did \in [clean : BOOLEAN, good : BOOLEAN]
  /\ passed \in Nat /\ worst \in Nat
  /\ dirs \subseteq Names
  /\ log \in Seq(Lines)
  /\ IsSequence(ended)
  /\ kills \in Nat /\ raises \in Nat

(* What an invocation had run when it ended: everything before its place, and the run
   there too if it was recorded. *)
Finished(k) ==
  LET e == ended[k]
  IN  {<<k, p[1], p[2]>> : p \in {p \in Places(k, e.queue) :
        Before(p, e.place) \/ (p = e.place /\ e.at = "count")}}

(* What every invocation had finished is in `kept`, whatever ended it and whatever later
   ones appended, and so is what the current one has finished. *)
FinishedIsKept(kept) ==
  /\ \A k \in DOMAIN ended : Finished(k) \subseteq kept
  /\ step # "idle" =>
       \A p \in Places(invocation, queue) : Before(p, place) => <<invocation, p[1], p[2]>> \in kept

(* What ends an invocation costs the run in flight and, when that is inside record and
   leaves half a line, the run recorded next, whose line it spoils; no other.  A failed
   record costs no more than a kill inside it. *)
Spoiled == {log[i].run : i \in {i \in Written \ {1} : i - 1 \notin Written}}

CutOffInRecord == {k \in DOMAIN ended : ended[k].at = "record"}

KillCostsTheNextAtMost ==
  FinishedIsKept(OnDisk \cup Spoiled) /\ Cardinality(Spoiled) <= Cardinality(CutOffInRecord)

(* The log has one line of it, a whole one. *)
OneLine(r) == \E i \in Written : \A j \in DOMAIN log : log[j].run = r <=> j = i

(* A broken run is a result, not a crash: an exception ends an invocation only where the run
   has no directory yet or is being recorded, never from inside one_run's `try`; and an
   invocation that exits by itself, whatever its runs raised, has exactly one line for every
   attempt of every scenario it selected. *)
BrokenRunsAreRecorded ==
  \A k \in DOMAIN ended :
    /\ ended[k].how = "exception" => ended[k].at \in {"mkdtemp", "record"}
    /\ ended[k].how \in {"exit 0", "exit 1"} =>
         \A p \in Places(k, ended[k].queue) : OneLine(<<k, p[1], p[2]>>)

(* A run recorded as passed ended by itself, left what its scenario asks for, and was
   cleaned up. *)
PassIsEarned ==
  \A i \in DOMAIN log : log[i].passed =>
    /\ log[i].earned
    /\ log[i].run \in dirs => (IF log[i].run[1] = invocation THEN args ELSE ended[log[i].run[1]].args).keep

(* The exit status agrees with what was recorded: it is 0 exactly when every scenario of that
   invocation passed as often as --fail-under asks. *)
PassesOf(k, s) == {i \in Written : log[i].run[1] = k /\ log[i].run[2] = s /\ log[i].passed}

GateAgreesWithLog ==
  \A k \in DOMAIN ended : ended[k].how \in {"exit 0", "exit 1"} =>
    (ended[k].how = "exit 0" <=>
       \A s \in DOMAIN ended[k].queue : Cardinality(PassesOf(k, s)) >= ended[k].args.under)

(* A directory on disk was asked for with --keep, is the one in use, belongs to the run its
   invocation ended in, or is reported in its run's line. *)
NoSilentLitter ==
  \A d \in dirs :
    LET k == d[1]
    IN  \/ d = run /\ step # "idle"
        \/ (IF k \in DOMAIN ended THEN ended[k].args ELSE args).keep
        \/ k \in DOMAIN ended /\ <<d[2], d[3]>> = ended[k].place
        \/ \E i \in DOMAIN log : log[i].run = d /\ "directory left" \in log[i].failures

---------------------------------------------------------------------------
(* The inductive invariant behind them. *)

WhereBook ==
  /\ Len(ended) = (IF step = "idle" THEN invocation ELSE invocation - 1)
  /\ step # "idle" =>
       /\ invocation > 0
       /\ place \in Places(invocation, queue)
       /\ args.under <= Attempts
  /\ step = "idle" /\ invocation > 0 => ended[invocation].args = args

(* A run that has left its place: its invocation ended, or went on, or recorded it. *)
Over(r) ==
  \/ r[1] \in DOMAIN ended
  \/ /\ step # "idle" /\ r[1] = invocation
     /\ \/ Before(<<r[2], r[3]>>, place)
        \/ <<r[2], r[3]>> = place /\ step = "count"

(* Only such runs have a line, and each finished one has a whole one, the run being counted
   the last. *)
LogBook ==
  /\ \A i \in DOMAIN log : Over(log[i].run)
  /\ \A k \in DOMAIN ended : Finished(k) \subseteq Recorded
  /\ step # "idle" => \A p \in Places(invocation, queue) :
       Before(p, place) \/ (p = place /\ step = "count") => <<invocation, p[1], p[2]>> \in Recorded
  /\ step = "count" => \E i \in DOMAIN log : log[i].run = run /\ log[i].failures = failures

(* No run has two lines, and a half line is of the run its invocation ended in recording. *)
LineBook ==
  /\ \A i, j \in DOMAIN log : log[i].run = log[j].run => i = j
  /\ \A i \in DOMAIN log \ Written :
       LET k == log[i].run[1]
       IN  k \in CutOffInRecord /\ log[i].run = <<k, ended[k].place[1], ended[k].place[2]>>

(* What the run in flight may yet be recorded as. *)
FlightBook ==
  /\ step # "discard" => leaving = "nothing"
  /\ step \in {"seed", "session", "grade"} => failures = {}
  /\ step = "grade" => did.clean
  /\ step \in {"discard", "record"} /\ leaving = "nothing" /\ failures = {} => did.clean /\ did.good
  /\ step \in {"record", "count"} /\ run \in dirs => args.keep \/ "directory left" \in failures
  /\ \A d \in dirs : d[1] \in DOMAIN ended \/ (step # "idle" /\ d[1] = invocation)

(* An invocation that exits by itself stands at the end of its queue, with all recorded;
   one that an exception ended was making a directory or recording. *)
EndBook ==
  \A k \in DOMAIN ended :
    /\ IsSequence(ended[k].queue)
    /\ ended[k].how \in {"exit 0", "exit 1"} =>
         ended[k].place = <<Len(ended[k].queue), Runs[k]>> /\ ended[k].at = "count"
    /\ ended[k].how = "exception" => ended[k].at \in {"mkdtemp", "record"}

(* The counters against the lines of the invocation. *)
CountBook ==
  step # "idle" =>
    /\ passed + (IF step = "count" /\ failures = {} THEN 1 ELSE 0)
         = Cardinality(PassesOf(invocation, place[1]))
    /\ worst <= Attempts
    /\ \A s \in 1..(place[1] - 1) : Cardinality(PassesOf(invocation, s)) >= worst
    /\ worst < Attempts =>
         \E s \in 1..(place[1] - 1) : Cardinality(PassesOf(invocation, s)) = worst

RunsInv ==
  /\ TypeOK /\ WhereBook /\ LogBook /\ LineBook /\ FlightBook /\ EndBook /\ CountBook
  /\ PassIsEarned /\ GateAgreesWithLog /\ NoSilentLitter
=============================================================================
