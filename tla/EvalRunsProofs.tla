---------------------------- MODULE EvalRunsProofs ----------------------------
(***************************************************************************)
(* Proofs about EvalRuns, for any scenarios, any --runs of any number of   *)
(* invocations, and any number of kills, interrupts and exceptions.        *)
(***************************************************************************)
EXTENDS EvalRuns, SequenceTheorems, FiniteSetTheorems, TLAPS

---------------------------------------------------------------------------
(* Sequences, and runs in order *)

\* A sequence over any set is one over its own elements.
LEMMA OwnElements ==
  ASSUME NEW S, NEW s \in Seq(S)
  PROVE  IsSequence(s) /\ Len(s) \in Nat /\ DOMAIN s = 1..Len(s)
<1>1. Len(s) \in Nat /\ s \in [1..Len(s) -> S] /\ DOMAIN s = 1..Len(s)
  BY LenProperties
<1>2. s \in [1..Len(s) -> {s[i] : i \in DOMAIN s}]
  BY <1>1
<1> QED
  BY <1>1, <1>2, SeqDef DEF IsSequence

\* What appending does to a sequence.
LEMMA AppendIs ==
  ASSUME NEW s, IsSequence(s), NEW e
  PROVE  /\ IsSequence(Append(s, e))
         /\ Len(s) \in Nat /\ DOMAIN s = 1..Len(s)
         /\ Len(Append(s, e)) = Len(s) + 1 /\ DOMAIN Append(s, e) = 1..(Len(s) + 1)
         /\ \A i \in DOMAIN s : Append(s, e)[i] = s[i]
         /\ Append(s, e)[Len(s) + 1] = e
<1> DEFINE S == {s[i] : i \in DOMAIN s} \cup {e}
<1>1. s \in Seq({s[i] : i \in DOMAIN s})
  BY DEF IsSequence
<1>2. Len(s) \in Nat /\ s \in [1..Len(s) -> {s[i] : i \in DOMAIN s}] /\ DOMAIN s = 1..Len(s)
  BY <1>1, LenProperties
<1>3. s \in [1..Len(s) -> S]
  BY <1>2
<1>4. s \in Seq(S) /\ e \in S
  BY <1>2, <1>3, SeqDef
<1> HIDE DEF S
<1>5. /\ Append(s, e) \in Seq(S) /\ Len(Append(s, e)) = Len(s) + 1
      /\ \A i \in 1..Len(s) : Append(s, e)[i] = s[i]
      /\ Append(s, e)[Len(s) + 1] = e
  BY <1>4, AppendProperties
<1>6. IsSequence(Append(s, e)) /\ DOMAIN Append(s, e) = 1..Len(Append(s, e))
  BY <1>5, OwnElements
<1> QED
  BY <1>2, <1>5, <1>6

\* What invocations select is a sequence.
LEMMA SelectIs ==
  ASSUME NEW network
  PROVE  IsSequence(Select(network))
<1> DEFINE staying == {i \in DOMAIN Scenarios : network \/ Scenarios[i] \notin Networked}
           n == Cardinality(staying)
           pick == [j \in 1..n |-> Scenarios[CHOOSE i \in staying :
                                               Cardinality({h \in staying : h <= i}) = j]]
<1>1. Len(Scenarios) \in Nat /\ DOMAIN Scenarios = 1..Len(Scenarios)
  BY RunsAssumption, LenProperties DEF IsSequence
<1>2. n \in Nat
  <2>1. IsFiniteSet(1..Len(Scenarios)) /\ staying \in SUBSET (1..Len(Scenarios))
    BY <1>1, FS_Interval
  <2> QED
    BY <2>1, FS_Subset, FS_CardinalityType
<1>3. Select(network) = pick
  BY DEF Select
<1> HIDE DEF n
<1>4. pick \in [1..n -> {pick[j] : j \in 1..n}]
  OBVIOUS
<1> HIDE DEF pick
<1>5. pick \in Seq({pick[j] : j \in 1..n})
  BY <1>2, <1>4, SeqDef
<1> QED
  BY <1>3, <1>5, OwnElements

\* The lines of a scenario that passed are finitely many.
LEMMA PassesCount ==
  ASSUME TypeOK, NEW k, NEW s
  PROVE  IsFiniteSet(PassesOf(k, s)) /\ Cardinality(PassesOf(k, s)) \in Nat
<1>1. Len(log) \in Nat /\ DOMAIN log = 1..Len(log)
  BY LenProperties DEF TypeOK
<1>2. IsFiniteSet(1..Len(log)) /\ PassesOf(k, s) \in SUBSET (1..Len(log))
  BY <1>1, FS_Interval DEF PassesOf, Written
<1> QED
  BY <1>2, FS_Subset, FS_CardinalityType

\* So are the half lines.
LEMMA TornCount ==
  ASSUME TypeOK
  PROVE  IsFiniteSet(DOMAIN log \ Written) /\ Cardinality(DOMAIN log \ Written) \in Nat
<1>1. Len(log) \in Nat /\ DOMAIN log = 1..Len(log)
  BY LenProperties DEF TypeOK
<1>2. IsFiniteSet(1..Len(log)) /\ (DOMAIN log \ Written) \in SUBSET (1..Len(log))
  BY <1>1, FS_Interval
<1> QED
  BY <1>2, FS_Subset, FS_CardinalityType

\* Attempts and places are what they are named for.
LEMMA PlaceIs ==
  ASSUME TypeOK, WhereBook, step # "idle"
  PROVE  /\ invocation \in 1..Len(Runs) /\ Len(Runs) \in Nat
         /\ Attempts \in Nat /\ Attempts > 0 /\ Len(queue) \in Nat
         /\ place = <<place[1], place[2]>>
         /\ place[1] \in 1..Len(queue) /\ place[2] \in 1..Attempts
         /\ DOMAIN ended = 1..(invocation - 1) /\ Len(ended) = invocation - 1
<1>1. Len(Runs) \in Nat /\ DOMAIN Runs = 1..Len(Runs) /\ Runs \in [1..Len(Runs) -> Nat \ {0}]
  BY RunsAssumption, LenProperties
<1>2. invocation \in 1..Len(Runs)
  <2>1. invocation \in 0..Len(Runs)
    BY DEF TypeOK
  <2>2. invocation > 0
    BY DEF WhereBook
  <2> QED
    BY <1>1, <2>1, <2>2
<1>3. Attempts \in Nat /\ Attempts > 0
  BY <1>1, <1>2 DEF Attempts
<1>4. Len(queue) \in Nat /\ DOMAIN ended = 1..Len(ended)
  BY OwnElements DEF TypeOK, IsSequence
<1>5. place \in (1..Len(queue)) \X (1..Attempts)
  BY DEF WhereBook, Places, Attempts
<1> QED
  BY <1>1, <1>2, <1>3, <1>4, <1>5 DEF WhereBook

\* A run that is not over is in no line, and the one in flight is over only once it is
\* being counted.
LEMMA NotOver ==
  ASSUME TypeOK, WhereBook, step # "idle", step # "count"
  PROVE  ~ Over(run)
<1>1. DOMAIN ended = 1..(invocation - 1) /\ invocation \in Nat
  BY PlaceIs
<1>2. run[1] = invocation /\ <<run[2], run[3]>> = <<place[1], place[2]>>
  BY DEF run
<1>3. place[1] \in Nat /\ place[2] \in Nat
  BY DEF TypeOK
<1>4. ~ Before(<<run[2], run[3]>>, place)
  BY <1>2, <1>3 DEF Before
<1> QED
  BY <1>1, <1>2, <1>4 DEF Over

---------------------------------------------------------------------------
(* What a line added to the log changes. *)

\* The line record writes, whole or not.
LEMMA EntryIs ==
  ASSUME TypeOK, WhereBook, step # "idle", NEW w \in BOOLEAN
  PROVE  /\ Entry(w) \in Lines
         /\ Entry(w).run = run /\ run[1] = invocation /\ run[2] = place[1] /\ run[3] = place[2]
         /\ Entry(w).whole = w /\ Entry(w).failures = failures
         /\ Entry(w).passed = (failures = {}) /\ Entry(w).earned = (did.clean /\ did.good)
<1>1. run \in Names
  <2>1. invocation \in Nat /\ place \in Nat \X Nat
    <3>1. invocation \in 1..Len(Runs) /\ Len(Runs) \in Nat
      BY PlaceIs
    <3>2. place \in Nat \X Nat
      BY DEF TypeOK
    <3> QED
      BY <3>1, <3>2
  <2> QED
    BY <2>1 DEF run, Names
<1>2. failures \subseteq {"run", "directory left"} /\ did.clean \in BOOLEAN /\ did.good \in BOOLEAN
  BY DEF TypeOK
<1> DEFINE p == (failures = {})
           q == (did.clean /\ did.good)
<1>3. Entry(w) = [run |-> run, passed |-> p, failures |-> failures, earned |-> q, whole |-> w]
  BY DEF Entry
<1>4. p \in BOOLEAN /\ q \in BOOLEAN
  BY <1>2
<1> HIDE DEF p, q
<1>5. Entry(w) \in Lines
  <2> DEFINE F == {"run", "directory left"}
  <2>1. failures \in SUBSET F
    BY <1>2
  <2> HIDE DEF F
  <2>2. [run |-> run, passed |-> p, failures |-> failures, earned |-> q, whole |-> w]
          \in [run : Names, passed : BOOLEAN, failures : SUBSET F, earned : BOOLEAN, whole : BOOLEAN]
    BY <1>1, <1>4, <2>1, Zenon
  <2> QED
    BY <1>3, <2>2 DEF Lines, F
<1>6. /\ Entry(w).run = run /\ Entry(w).whole = w /\ Entry(w).failures = failures
      /\ Entry(w).passed = p /\ Entry(w).earned = q
  BY <1>3
<1> QED
  BY <1>5, <1>6 DEF run, p, q

\* The log with one more line.
LEMMA LogStep ==
  ASSUME TypeOK, NEW e \in Lines, log' = Append(log, e)
  PROVE  LET n == Len(log) + 1
         IN  /\ log' \in Seq(Lines) /\ DOMAIN log' = DOMAIN log \cup {n}
             /\ n \notin DOMAIN log /\ log'[n] = e
             /\ \A i \in DOMAIN log : log'[i] = log[i]
             /\ Written' = Written \cup (IF e.whole THEN {n} ELSE {})
             /\ Recorded \subseteq Recorded'
             /\ e.whole => Recorded' = Recorded \cup {e.run}
             /\ (DOMAIN log \ Written)' = (DOMAIN log \ Written) \cup (IF e.whole THEN {} ELSE {n})
<1> DEFINE n == Len(log) + 1
<1>1. log \in Seq(Lines)
  BY DEF TypeOK
<1>2. Len(log) \in Nat /\ DOMAIN log = 1..Len(log)
  BY <1>1, LenProperties
<1>3. /\ log' \in Seq(Lines) /\ Len(log') = n
      /\ \A i \in 1..Len(log) : log'[i] = log[i]
      /\ log'[n] = e
  BY <1>1, AppendProperties
<1>4. DOMAIN log' = 1..n
  BY <1>3, LenProperties
<1>5. DOMAIN log' = DOMAIN log \cup {n} /\ n \notin DOMAIN log
  BY <1>2, <1>4
<1>6. \A i \in DOMAIN log : log'[i] = log[i]
  BY <1>2, <1>3
<1> HIDE DEF n
<1>7. Written' = Written \cup (IF e.whole THEN {n} ELSE {})
  BY <1>3, <1>5, <1>6 DEF Written
<1>8. \A i \in Written : i \in Written' /\ log'[i].run = log[i].run
  BY <1>6, <1>7 DEF Written
<1>9. Recorded \subseteq Recorded'
  BY <1>8 DEF Recorded
<1>10. ASSUME e.whole PROVE Recorded' = Recorded \cup {e.run}
  <2>1. \A i \in Written' : i \in Written \/ i = n
    BY <1>7
  <2>2. n \in Written'
    BY <1>7, <1>10
  <2>3. e.run \in Recorded'
    BY <2>2, <1>3 DEF Recorded
  <2>4. Recorded' \subseteq Recorded \cup {e.run}
    BY <2>1, <1>3, <1>8 DEF Recorded
  <2> QED
    BY <1>9, <2>3, <2>4
<1>11. (DOMAIN log \ Written)' = (DOMAIN log \ Written) \cup (IF e.whole THEN {} ELSE {n})
  BY <1>5, <1>7 DEF Written
<1> QED
  BY <1>3, <1>5, <1>6, <1>7, <1>9, <1>10, <1>11 DEF n

\* The passes of a scenario with one more line: only the line's own scenario gains.
LEMMA PassStep ==
  ASSUME TypeOK, NEW e \in Lines, log' = Append(log, e), NEW k, NEW s
  PROVE  /\ ~ (e.whole /\ e.passed /\ e.run[1] = k /\ e.run[2] = s)
              => PassesOf(k, s)' = PassesOf(k, s)
         /\ e.whole /\ e.passed /\ e.run[1] = k /\ e.run[2] = s
              => Cardinality(PassesOf(k, s)') = Cardinality(PassesOf(k, s)) + 1
<1> DEFINE n == Len(log) + 1
           P == PassesOf(k, s)
           P2 == {i \in Written' : log'[i].run[1] = k /\ log'[i].run[2] = s /\ log'[i].passed}
<1>1. /\ n \notin DOMAIN log /\ log'[n] = e
      /\ \A i \in DOMAIN log : log'[i] = log[i]
      /\ Written' = Written \cup (IF e.whole THEN {n} ELSE {})
  BY LogStep
<1>2. P2 = PassesOf(k, s)'
  BY DEF PassesOf
<1>3. P = {i \in Written : log[i].run[1] = k /\ log[i].run[2] = s /\ log[i].passed}
  BY DEF PassesOf
<1>4. Written \subseteq DOMAIN log
  BY DEF Written
<1> HIDE DEF n, P
<1>5. ASSUME ~ (e.whole /\ e.passed /\ e.run[1] = k /\ e.run[2] = s) PROVE P2 = P
  <2>1. \A i \in Written' : i \in Written \/ (i = n /\ e.whole)
    BY <1>1
  <2>2. P2 \subseteq P
    BY <1>1, <1>3, <1>4, <1>5, <2>1
  <2>3. P \subseteq P2
    BY <1>1, <1>3, <1>4
  <2> QED
    BY <2>2, <2>3
<1>6. ASSUME e.whole, e.passed, e.run[1] = k, e.run[2] = s
      PROVE  Cardinality(P2) = Cardinality(P) + 1
  <2>1. P2 = P \cup {n} /\ n \notin P
    <3>1. \A i \in Written' : i \in Written \/ i = n
      BY <1>1
    <3>2. P2 \subseteq P \cup {n}
      BY <1>1, <1>3, <1>4, <3>1
    <3>3. P \subseteq P2
      BY <1>1, <1>3, <1>4
    <3>4. n \in P2
      BY <1>1, <1>6
    <3> QED
      BY <1>1, <1>3, <1>4, <3>2, <3>3, <3>4
  <2>2. IsFiniteSet(P)
    BY PassesCount DEF P
  <2> QED
    BY <2>1, <2>2, FS_AddElement
<1> QED
  BY <1>2, <1>5, <1>6 DEF P

\* A step that writes no line leaves what the lines say as it was.
LEMMA SameLog ==
  ASSUME log' = log
  PROVE  /\ Written' = Written /\ Recorded' = Recorded
         /\ \A k, s : PassesOf(k, s)' = PassesOf(k, s)
         /\ (DOMAIN log \ Written)' = DOMAIN log \ Written
<1>1. Written' = Written
  BY DEF Written
<1> QED
  BY <1>1 DEF Recorded, PassesOf

\* A step that ends no invocation leaves what each had finished as it was.
LEMMA SameEnded ==
  ASSUME ended' = ended
  PROVE  \A k : Finished(k)' = Finished(k)
BY DEF Finished, Places

\* A step that writes no line, and ends at most one more invocation, leaves every line in
\* its place.
LEMMA LinesStay ==
  ASSUME LineBook, log' = log, DOMAIN ended \subseteq DOMAIN ended',
         \A k \in DOMAIN ended : ended'[k] = ended[k]
  PROVE  LineBook'
<1>1. Written' = Written
  BY SameLog
<1>2. CutOffInRecord \subseteq CutOffInRecord' /\ CutOffInRecord \subseteq DOMAIN ended
  BY DEF CutOffInRecord
<1>3. ASSUME NEW i \in DOMAIN log' \ Written'
      PROVE  /\ log'[i].run[1] \in CutOffInRecord'
             /\ log'[i].run = <<log'[i].run[1], ended'[log'[i].run[1]].place[1],
                                 ended'[log'[i].run[1]].place[2]>>
  <2>1. i \in DOMAIN log \ Written /\ log'[i] = log[i]
    BY <1>1
  <2>2. log[i].run[1] \in CutOffInRecord
    BY <2>1 DEF LineBook
  <2>3. ended'[log[i].run[1]] = ended[log[i].run[1]]
    BY <1>2, <2>2
  <2> QED
    BY <1>2, <2>1, <2>2, <2>3 DEF LineBook
<1>4. \A i, j \in DOMAIN log' : log'[i].run = log'[j].run => i = j
  BY DEF LineBook
<1> QED
  BY <1>3, <1>4 DEF LineBook

\* The line of a run that is being recorded is its first; half of one ends the invocation.
LEMMA NewLine ==
  ASSUME RunsInv, step = "record", NEW w \in BOOLEAN, log' = Append(log, Entry(w)),
         DOMAIN ended \subseteq DOMAIN ended', \A k \in DOMAIN ended : ended'[k] = ended[k],
         w \/ (invocation \in DOMAIN ended' /\ ended'[invocation].at = "record"
                /\ ended'[invocation].place = place)
  PROVE  LineBook'
<1> DEFINE n == Len(log) + 1
<1>0. TypeOK /\ WhereBook /\ LogBook /\ LineBook
  BY DEF RunsInv
<1>1. /\ Entry(w) \in Lines /\ Entry(w).run = run /\ Entry(w).whole = w /\ run[1] = invocation
      /\ run = <<invocation, place[1], place[2]>>
  BY <1>0, EntryIs DEF run
<1>2. /\ DOMAIN log' = DOMAIN log \cup {n} /\ n \notin DOMAIN log /\ log'[n] = Entry(w)
      /\ \A i \in DOMAIN log : log'[i] = log[i]
      /\ (DOMAIN log \ Written)' = (DOMAIN log \ Written) \cup (IF w THEN {} ELSE {n})
  BY <1>0, <1>1, LogStep
<1> HIDE DEF n
<1>3. \A i \in DOMAIN log : log[i].run # run
  BY <1>0, NotOver DEF LogBook
<1>4. \A i, j \in DOMAIN log' : log'[i].run = log'[j].run => i = j
  BY <1>0, <1>1, <1>2, <1>3 DEF LineBook
<1>5. ASSUME NEW i \in DOMAIN log' \ Written'
      PROVE  /\ log'[i].run[1] \in CutOffInRecord'
             /\ log'[i].run = <<log'[i].run[1], ended'[log'[i].run[1]].place[1],
                                 ended'[log'[i].run[1]].place[2]>>
  <2>1. CASE i \in DOMAIN log \ Written
    <3>1. log'[i] = log[i] /\ log[i].run[1] \in CutOffInRecord
      BY <1>0, <1>2, <2>1 DEF LineBook
    <3>2. log[i].run[1] \in DOMAIN ended /\ ended'[log[i].run[1]] = ended[log[i].run[1]]
      BY <3>1 DEF CutOffInRecord
    <3>3. log[i].run[1] \in CutOffInRecord'
      BY <3>1, <3>2 DEF CutOffInRecord
    <3> QED
      BY <1>0, <2>1, <3>1, <3>2, <3>3 DEF LineBook
  <2>2. CASE i = n /\ ~ w
    <3>1. log'[i].run = <<invocation, place[1], place[2]>> /\ log'[i].run[1] = invocation
      BY <1>1, <1>2, <2>2
    <3>2. invocation \in CutOffInRecord' /\ ended'[invocation].place = place
      BY <2>2 DEF CutOffInRecord
    <3> QED
      BY <3>1, <3>2
  <2> QED
    BY <1>2, <2>1, <2>2
<1> QED
  BY <1>4, <1>5 DEF LineBook

(* A step of one_run that neither records nor ends. *)
QuietStep ==
  /\ UNCHANGED <<invocation, args, queue, place, passed, worst, log, ended>>
  /\ step \notin {"idle", "count"} /\ step' \notin {"idle", "count"}
  /\ dirs' \subseteq dirs \cup {run}

\* Of such a step all there is to show is the shape of its state and what the run in
\* flight may be recorded as.
LEMMA Quiet ==
  ASSUME RunsInv, QuietStep, TypeOK', FlightBook'
  PROVE  RunsInv'
<1> USE DEF QuietStep
<1>0. TypeOK /\ WhereBook /\ LogBook /\ LineBook /\ EndBook /\ CountBook
      /\ PassIsEarned /\ GateAgreesWithLog /\ NoSilentLitter
  BY DEF RunsInv
<1>1. /\ Written' = Written /\ Recorded' = Recorded
      /\ \A k, s : PassesOf(k, s)' = PassesOf(k, s)
      /\ (DOMAIN log \ Written)' = DOMAIN log \ Written
      /\ \A k : Finished(k)' = Finished(k)
  BY SameLog, SameEnded
<1>2. run' = run /\ Attempts' = Attempts /\ \A k : Places(k, queue)' = Places(k, queue)
  BY DEF run, Attempts, Places
<1>3. WhereBook'
  BY <1>0, <1>2 DEF WhereBook
<1>4. LogBook'
  <2>2. (\A i \in DOMAIN log : Over(log[i].run))'
    BY <1>0 DEF LogBook, Over, Before
  <2>3. \A k \in DOMAIN ended' : Finished(k)' \subseteq Recorded'
    BY <1>0, <1>1 DEF LogBook
  <2>4. \A p \in Places(invocation, queue) :
          Before(p, place) => <<invocation, p[1], p[2]>> \in Recorded'
    BY <1>0, <1>1, <1>2 DEF LogBook, Before
  <2> QED
    <3>1. (step # "idle" => \A p \in Places(invocation, queue) :
             Before(p, place) \/ (p = place /\ step = "count") => <<invocation, p[1], p[2]>> \in Recorded)'
      BY <1>1, <1>2, <2>4 DEF Before
    <3> QED
      BY <2>2, <2>3, <3>1 DEF LogBook
<1>5. EndBook'
  BY <1>0 DEF EndBook
<1>6. CountBook'
  BY <1>0, <1>1, <1>2 DEF CountBook
<1>7. PassIsEarned'
  <2>1. \A i \in DOMAIN log : log[i].run # run
    BY <1>0, NotOver DEF LogBook
  <2> QED
    BY <1>0, <2>1 DEF PassIsEarned
<1>8. GateAgreesWithLog'
  BY <1>0, <1>1 DEF GateAgreesWithLog
<1>9. NoSilentLitter'
  BY <1>0, <1>2 DEF NoSilentLitter
<1>10. LineBook'
  BY <1>0, LinesStay
<1> QED
  BY <1>3, <1>4, <1>5, <1>6, <1>7, <1>8, <1>9, <1>10 DEF RunsInv

\* The name of the run in flight.
LEMMA RunName ==
  ASSUME TypeOK, WhereBook, step # "idle"
  PROVE  run \in Names /\ run[1] = invocation /\ run[2] = place[1] /\ run[3] = place[2]
<1>1. invocation \in 1..Len(Runs) /\ Len(Runs) \in Nat
  BY PlaceIs
<1>2. place \in Nat \X Nat
  BY DEF TypeOK
<1> QED
  BY <1>1, <1>2 DEF run, Names

\* mkdtemp puts the run's own directory on disk, and starts it with nothing gone wrong.
LEMMA MakeDirectoryKeeps ==
  ASSUME RunsInv, MakeDirectory
  PROVE  RunsInv'
<1>1. TypeOK /\ WhereBook /\ FlightBook
  BY DEF RunsInv
<1>2. run \in Names /\ run[1] = invocation
  BY <1>1, RunName DEF MakeDirectory
<1>3. TypeOK'
  BY <1>1, <1>2 DEF TypeOK, MakeDirectory, IsSequence, Nothing
<1>4. FlightBook'
  BY <1>1, <1>2 DEF FlightBook, MakeDirectory
<1>5. QuietStep
  BY DEF MakeDirectory, QuietStep
<1> QED
  BY <1>3, <1>4, <1>5, Quiet

\* Seeding, sessions, grading, and what is raised in them: the steps of one_run up to its
\* `finally`.
LEMMA InsideKeeps ==
  ASSUME RunsInv,
         Seed \/ SeedRefuses \/ PluginMissing \/ SessionEnds \/ SessionFails \/ GradeRefusal \/ GradeBuild
           \/ Raises \/ Interrupt
  PROVE  RunsInv'
<1>1. TypeOK /\ WhereBook /\ FlightBook
  BY DEF RunsInv
<1>2. kills \in Nat /\ raises \in Nat
  BY <1>1 DEF TypeOK
<1>3. CASE Seed
  <2>1. TypeOK'
    BY <1>1, <1>3 DEF TypeOK, Seed, IsSequence
  <2>2. FlightBook'
    BY <1>1, <1>3 DEF FlightBook, Seed
  <2>3. QuietStep
    BY <1>3 DEF Seed, QuietStep
  <2> QED
    BY <2>1, <2>2, <2>3, Quiet
<1>4. CASE SeedRefuses
  <2>1. TypeOK'
    BY <1>1, <1>4 DEF TypeOK, SeedRefuses, IsSequence
  <2>2. FlightBook'
    BY <1>1, <1>4 DEF FlightBook, SeedRefuses
  <2>3. QuietStep
    BY <1>4 DEF SeedRefuses, QuietStep
  <2> QED
    BY <2>1, <2>2, <2>3, Quiet
<1>5. CASE SessionEnds
  <2>0. did' \in [clean : BOOLEAN, good : BOOLEAN] /\ did'.clean
    BY <1>5 DEF SessionEnds
  <2>1. TypeOK'
    BY <1>1, <1>5, <2>0 DEF TypeOK, SessionEnds, IsSequence
  <2>2. FlightBook'
    BY <1>1, <1>5, <2>0 DEF FlightBook, SessionEnds
  <2>3. QuietStep
    BY <1>5 DEF SessionEnds, QuietStep
  <2> QED
    BY <2>1, <2>2, <2>3, Quiet
<1>6. CASE SessionFails
  <2>0. did' \in [clean : BOOLEAN, good : BOOLEAN]
    BY <1>6 DEF SessionFails
  <2>1. TypeOK'
    BY <1>1, <1>6, <2>0 DEF TypeOK, SessionFails, IsSequence
  <2>2. FlightBook'
    BY <1>1, <1>6 DEF FlightBook, SessionFails
  <2>3. QuietStep
    BY <1>6 DEF SessionFails, QuietStep
  <2> QED
    BY <2>1, <2>2, <2>3, Quiet
<1>7. CASE GradeRefusal
  <2>1. TypeOK'
    BY <1>1, <1>7 DEF TypeOK, GradeRefusal, IsSequence
  <2>2. FlightBook'
    BY <1>1, <1>7 DEF FlightBook, GradeRefusal
  <2>3. QuietStep
    BY <1>7 DEF GradeRefusal, QuietStep
  <2> QED
    BY <2>1, <2>2, <2>3, Quiet
<1>8. CASE GradeBuild
  <2>1. TypeOK'
    BY <1>1, <1>8 DEF TypeOK, GradeBuild, IsSequence
  <2>2. FlightBook'
    BY <1>1, <1>8 DEF FlightBook, GradeBuild
  <2>3. QuietStep
    BY <1>8 DEF GradeBuild, QuietStep
  <2> QED
    BY <2>1, <2>2, <2>3, Quiet
<1>9. CASE Raises
  <2>5. raises' = raises + 1
    BY <1>9, Zenon DEF Raises
  <2>4. /\ failures' = failures \cup {"run"} /\ step' = "discard"
        /\ UNCHANGED <<invocation, args, queue, place, leaving, did, passed, worst, dirs, log, ended, kills>>
    BY <1>9, Zenon DEF Raises
  <2>0. raises' \in Nat
    BY <1>2, <2>5
  <2>1. TypeOK'
    BY <1>1, <2>0, <2>4 DEF TypeOK, IsSequence
  <2>2. FlightBook'
    BY <1>1, <1>9 DEF FlightBook, Raises
  <2>3. QuietStep
    BY <1>9 DEF Raises, QuietStep
  <2> QED
    BY <2>1, <2>2, <2>3, Quiet
<1>10. CASE Interrupt
  <2>5. kills' = kills + 1
    BY <1>10, Zenon DEF Interrupt
  <2>4. /\ leaving' = "interrupted" /\ step' = "discard"
        /\ UNCHANGED <<invocation, args, queue, place, failures, did, passed, worst, dirs, log, ended, raises>>
    BY <1>10, Zenon DEF Interrupt
  <2>0. kills' \in Nat
    BY <1>2, <2>5
  <2>1. TypeOK'
    BY <1>1, <2>0, <2>4 DEF TypeOK, IsSequence
  <2>2. FlightBook'
    BY <1>1, <1>10 DEF FlightBook, Interrupt
  <2>3. QuietStep
    BY <1>10 DEF Interrupt, QuietStep
  <2> QED
    BY <2>1, <2>2, <2>3, Quiet
<1>11. CASE PluginMissing
  <2>1. TypeOK'
    BY <1>1, <1>11 DEF TypeOK, PluginMissing, IsSequence
  <2>2. FlightBook'
    BY <1>1, <1>11 DEF FlightBook, PluginMissing
  <2>3. QuietStep
    BY <1>11 DEF PluginMissing, QuietStep
  <2> QED
    BY <2>1, <2>2, <2>3, Quiet
<1> QED
  BY <1>3, <1>4, <1>5, <1>6, <1>7, <1>8, <1>9, <1>10, <1>11

\* `finally` on the way to a result: the directory is kept, removed, or reported.
LEMMA CleanUpKeeps ==
  ASSUME RunsInv, Keep \/ Discard \/ DiscardFails, leaving = "nothing"
  PROVE  RunsInv'
<1>1. TypeOK /\ WhereBook /\ FlightBook
  BY DEF RunsInv
<1>2. /\ step = "discard" /\ step' = "record" /\ QuietStep
      /\ UNCHANGED <<invocation, args, queue, place, leaving, did, passed, worst, log, ended, kills>>
      /\ kills \in Nat /\ raises \in Nat
  BY <1>1 DEF Keep, Discard, DiscardFails, AfterDiscard, TypeOK, QuietStep
<1>3. /\ dirs' \subseteq dirs /\ raises' \in Nat
      /\ failures' = failures \/ failures' = failures \cup {"directory left"}
      /\ run \in dirs' => args.keep \/ "directory left" \in failures'
  <2>1. CASE Keep
    BY <1>2, <2>1 DEF Keep
  <2>2. CASE Discard
    BY <1>2, <2>2 DEF Discard
  <2>3. CASE DiscardFails
    <3>1. raises' = raises + 1
      BY <2>3, Zenon DEF DiscardFails
    <3>2. raises \in Nat
      BY <1>2
    <3>3. raises' \in Nat
      BY <3>1, <3>2
    <3>4. dirs' = dirs /\ failures' = failures \cup {"directory left"}
      BY <2>3, Zenon DEF DiscardFails
    <3> QED
      BY <3>3, <3>4
  <2> QED
    BY <2>1, <2>2, <2>3
<1>4. TypeOK'
  BY <1>1, <1>2, <1>3 DEF TypeOK, IsSequence
<1>5. FlightBook'
  <2>1. run' = run
    BY <1>2 DEF run
  <2> QED
    BY <1>1, <1>2, <1>3, <2>1 DEF FlightBook
<1> QED
  BY <1>2, <1>4, <1>5, Quiet

---------------------------------------------------------------------------
(* How an invocation ends. *)

(* A step that writes no line, or the one of the run it is recording. *)
LineStep ==
  \/ log' = log
  \/ step = "record" /\ \E w \in BOOLEAN : log' = Append(log, Entry(w))

\* The log such a step leaves.
LEMMA LogGrows ==
  ASSUME RunsInv, step # "idle", LineStep
  PROVE  /\ log' \in Seq(Lines) /\ DOMAIN log \subseteq DOMAIN log'
         /\ \A i \in DOMAIN log : log'[i] = log[i]
         /\ \A i \in DOMAIN log' \ DOMAIN log : step = "record" /\ \E w \in BOOLEAN : log'[i] = Entry(w)
         /\ Recorded \subseteq Recorded'
         /\ \A k, s : k # invocation => PassesOf(k, s)' = PassesOf(k, s)
<1>0. TypeOK /\ WhereBook /\ log \in Seq(Lines)
  BY DEF RunsInv, TypeOK
<1>2. CASE log' = log
  BY <1>0, <1>2, SameLog
<1>3. ASSUME step = "record", NEW w \in BOOLEAN, log' = Append(log, Entry(w))
      PROVE  /\ log' \in Seq(Lines) /\ DOMAIN log \subseteq DOMAIN log'
             /\ \A i \in DOMAIN log : log'[i] = log[i]
             /\ \A i \in DOMAIN log' \ DOMAIN log : step = "record" /\ \E v \in BOOLEAN : log'[i] = Entry(v)
             /\ Recorded \subseteq Recorded'
             /\ \A k, s : k # invocation => PassesOf(k, s)' = PassesOf(k, s)
  <2> DEFINE n == Len(log) + 1
  <2>1. Entry(w) \in Lines /\ Entry(w).run = run /\ run[1] = invocation
    BY <1>0, EntryIs
  <2>2. /\ log' \in Seq(Lines) /\ DOMAIN log' = DOMAIN log \cup {n}
        /\ n \notin DOMAIN log /\ log'[n] = Entry(w)
        /\ \A i \in DOMAIN log : log'[i] = log[i]
        /\ Recorded \subseteq Recorded'
    BY <1>0, <1>3, <2>1, LogStep
  <2>3. \A k, s : k # invocation => PassesOf(k, s)' = PassesOf(k, s)
    BY <1>0, <1>3, <2>1, PassStep
  <2> HIDE DEF n
  <2> QED
    BY <1>3, <2>2, <2>3
<1> QED
  BY <1>2, <1>3 DEF LineStep

\* One more invocation has ended; those before it ended as they did.
LEMMA EndedStep ==
  ASSUME TypeOK, WhereBook, step # "idle", NEW e, ended' = Append(ended, e)
  PROVE  /\ IsSequence(ended)' /\ invocation \in Nat \ {0}
         /\ DOMAIN ended = 1..(invocation - 1)
         /\ DOMAIN ended' = 1..invocation /\ Len(ended') = invocation
         /\ ended'[invocation] = e
         /\ \A k \in DOMAIN ended : ended'[k] = ended[k] /\ Finished(k)' = Finished(k)
<1>1. invocation \in Nat \ {0} /\ DOMAIN ended = 1..(invocation - 1) /\ Len(ended) = invocation - 1
  BY PlaceIs
<1>2. IsSequence(ended)
  BY DEF TypeOK
<1>3. /\ IsSequence(Append(ended, e)) /\ DOMAIN ended' = 1..(Len(ended) + 1)
      /\ Len(ended') = Len(ended) + 1
      /\ \A i \in DOMAIN ended : ended'[i] = ended[i]
      /\ ended'[Len(ended) + 1] = e
  BY <1>2, AppendIs
<1>4. Len(ended) + 1 = invocation
  BY <1>1
<1>5. \A k \in DOMAIN ended : Finished(k)' = Finished(k)
  BY <1>3 DEF Finished, Places
<1> QED
  BY <1>1, <1>3, <1>4, <1>5 DEF IsSequence

(* A step that ends the invocation. *)
EndStep(how) ==
  /\ step # "idle" /\ End(how)
  /\ UNCHANGED <<invocation, args, queue, place, did, passed>>
  /\ failures' \subseteq {"run", "directory left"}
  /\ kills' \in {kills, kills + 1} /\ dirs' \subseteq dirs
  /\ LineStep

(* An exit status is given only at the end of the queue, and is the one the log asks for; an
   exception ends an invocation only where no run is in its `try`. *)
RightToEnd(how) ==
  /\ how = "exception" => step \in {"mkdtemp", "record"}
  /\ how \in {"exit 0", "exit 1"} =>
       /\ place = <<Len(queue), Attempts>> /\ step = "count"
       /\ log' = log /\ (how = "exit 0" <=> \A s \in DOMAIN queue : Cardinality(PassesOf(invocation, s)) >= args.under)

\* What there is to show of such a step.
LEMMA Ends ==
  ASSUME RunsInv, NEW how, EndStep(how), worst' \in Nat, raises' \in Nat,
         RightToEnd(how)
  PROVE  RunsInv'
<1> DEFINE e == [how |-> how, place |-> place, queue |-> queue,
                 args |-> args, at |-> step]
<1>0. TypeOK /\ WhereBook /\ LogBook /\ LineBook /\ FlightBook /\ EndBook
      /\ PassIsEarned /\ GateAgreesWithLog /\ NoSilentLitter
  BY DEF RunsInv
<1>1. /\ step # "idle" /\ step' = "idle" /\ leaving' = "nothing" /\ ended' = Append(ended, e)
      /\ UNCHANGED <<invocation, args, queue, place, did, passed>>
      /\ kills' \in {kills, kills + 1} /\ dirs' \subseteq dirs
      /\ LineStep
  BY DEF EndStep, End
<1>2. /\ log' \in Seq(Lines) /\ DOMAIN log \subseteq DOMAIN log'
      /\ \A i \in DOMAIN log : log'[i] = log[i]
      /\ \A i \in DOMAIN log' \ DOMAIN log : step = "record" /\ \E w \in BOOLEAN : log'[i] = Entry(w)
      /\ Recorded \subseteq Recorded'
      /\ \A k, s : k # invocation => PassesOf(k, s)' = PassesOf(k, s)
  BY <1>1, LogGrows
<1>3. /\ IsSequence(ended)' /\ invocation \in Nat \ {0}
      /\ DOMAIN ended = 1..(invocation - 1)
      /\ DOMAIN ended' = 1..invocation /\ Len(ended') = invocation
      /\ ended'[invocation] = e
      /\ \A k \in DOMAIN ended : ended'[k] = ended[k] /\ Finished(k)' = Finished(k)
  BY <1>0, <1>1, EndedStep
<1>4. DOMAIN ended' = DOMAIN ended \cup {invocation} /\ invocation \notin DOMAIN ended
  <2>1. invocation \in Nat \ {0}
    BY <1>3
  <2>2. 1..invocation = (1..(invocation - 1)) \cup {invocation} /\ invocation \notin 1..(invocation - 1)
    BY <2>1
  <2> QED
    BY <1>3, <2>2
<1>5. run[1] = invocation /\ \A w \in BOOLEAN : Entry(w).run = run
  BY <1>0, <1>1, EntryIs
<1>16. \A w \in BOOLEAN :
         Entry(w).passed = (failures = {}) /\ Entry(w).earned = (did.clean /\ did.good)
  BY <1>0, <1>1, EntryIs
<1>6. e.how = how /\ e.place = place /\ e.queue = queue /\ e.args = args
      /\ e.at = step
  OBVIOUS
<1> HIDE DEF e
<1>7. TypeOK'
  <2>1. kills \in Nat
    BY <1>0 DEF TypeOK
  <2>2. kills' \in Nat
    <3>1. kills' = kills \/ kills' = kills + 1
      BY <1>1, Zenon
    <3> QED
      BY <2>1, <3>1
  <2>3. IsSequence(queue)'
    BY <1>0, <1>1 DEF TypeOK, IsSequence
  <2>4. failures' \subseteq {"run", "directory left"}
    BY DEF EndStep
  <2> QED
    BY <1>0, <1>1, <1>2, <1>3, <2>2, <2>3, <2>4 DEF TypeOK
<1>8. WhereBook'
  BY <1>1, <1>3, <1>6 DEF WhereBook
<1>9. LogBook'
  <2>1. (\A i \in DOMAIN log : Over(log[i].run))'
    <3>1. \A i \in DOMAIN log : log[i].run[1] \in DOMAIN ended \/ log[i].run[1] = invocation
      BY <1>0 DEF LogBook, Over
    <3>2. ASSUME NEW i \in DOMAIN log' PROVE log'[i].run[1] \in DOMAIN ended'
      <4>1. CASE i \in DOMAIN log
        BY <1>2, <1>4, <3>1, <4>1
      <4>2. CASE i \notin DOMAIN log
        <5>1. PICK w \in BOOLEAN : log'[i] = Entry(w)
          BY <1>2, <4>2
        <5> QED
          BY <1>4, <1>5, <5>1
      <4> QED
        BY <4>1, <4>2
    <3> QED
      BY <3>2 DEF Over
  <2>2. (\A k \in DOMAIN ended : Finished(k) \subseteq Recorded)'
    <3>1. \A k \in DOMAIN ended : Finished(k)' \subseteq Recorded'
      BY <1>0, <1>2, <1>3 DEF LogBook
    <3>2. Finished(invocation)' =
            {<<invocation, p[1], p[2]>> : p \in {p \in Places(invocation, queue) :
               Before(p, place) \/ (p = place /\ step = "count")}}
      <4>1. /\ ended'[invocation].queue = queue /\ ended'[invocation].place = place
            /\ ended'[invocation].at = step /\ invocation' = invocation
        BY <1>1, <1>3, <1>6
      <4>2. Places(invocation, ended[invocation].queue)' = Places(invocation, queue)
        BY <4>1 DEF Places
      <4>3. \A p : Before(p, ended[invocation].place)' <=> Before(p, place)
        BY <4>1 DEF Before
      <4>4. {p \in Places(invocation, ended[invocation].queue) :
               Before(p, ended[invocation].place) \/ (p = ended[invocation].place /\ ended[invocation].at = "count")}'
             = {p \in Places(invocation, queue) : Before(p, place) \/ (p = place /\ step = "count")}
        BY <4>1, <4>2, <4>3
      <4> QED
        BY <4>1, <4>4 DEF Finished
    <3>3. Finished(invocation)' \subseteq Recorded'
      BY <1>0, <1>1, <1>2, <3>2 DEF LogBook
    <3> QED
      BY <1>1, <1>4, <3>1, <3>3
  <2> QED
    BY <1>1, <1>2, <2>1, <2>2 DEF LogBook
<1>10. FlightBook'
  <2>1. \A d \in dirs' : d[1] \in DOMAIN ended'
    BY <1>0, <1>1, <1>4 DEF FlightBook
  <2> QED
    BY <1>1, <2>1 DEF FlightBook
<1>11. EndBook'
  <2>1. Attempts = Runs[invocation]
    BY DEF Attempts
  <2>2. IsSequence(queue)
    BY <1>0 DEF TypeOK
  <2> QED
    BY <1>0, <1>3, <1>4, <1>6, <2>1, <2>2 DEF EndBook, RightToEnd
<1>12. CountBook'
  BY <1>1 DEF CountBook
<1>13. PassIsEarned'
  <2> SUFFICES ASSUME NEW i \in DOMAIN log', log'[i].passed
               PROVE  /\ log'[i].earned
                      /\ log'[i].run \in dirs' =>
                           (IF log'[i].run[1] = invocation THEN args ELSE ended'[log'[i].run[1]].args).keep
    BY <1>1 DEF PassIsEarned
  <2>1. CASE i \in DOMAIN log
    <3>1. log'[i] = log[i] /\ (log[i].run[1] \in DOMAIN ended \/ log[i].run[1] = invocation)
      BY <1>0, <1>2, <2>1 DEF LogBook, Over
    <3> QED
      BY <1>0, <1>1, <1>3, <2>1, <3>1 DEF PassIsEarned
  <2>2. CASE i \notin DOMAIN log
    <3>1. step = "record" /\ failures = {} /\ log'[i].run = run
          /\ log'[i].earned = (did.clean /\ did.good)
      <4>1. PICK w \in BOOLEAN : log'[i] = Entry(w)
        BY <1>2, <2>2
      <4> QED
        BY <1>2, <1>5, <1>16, <2>2, <4>1
    <3>2. did.clean /\ did.good
      BY <1>0, <3>1 DEF FlightBook
    <3>3. run \in dirs => args.keep
      BY <1>0, <3>1 DEF FlightBook
    <3> QED
      BY <1>1, <1>5, <3>1, <3>2, <3>3
  <2> QED
    BY <2>1, <2>2
<1>14. GateAgreesWithLog'
  <2> SUFFICES ASSUME NEW k \in DOMAIN ended', ended'[k].how \in {"exit 0", "exit 1"}
               PROVE  ended'[k].how = "exit 0" <=>
                        \A s \in DOMAIN ended'[k].queue : Cardinality(PassesOf(k, s)') >= ended'[k].args.under
    BY DEF GateAgreesWithLog
  <2>1. CASE k \in DOMAIN ended
    <3>1. ended'[k] = ended[k] /\ \A s : PassesOf(k, s)' = PassesOf(k, s)
      BY <1>2, <1>3, <1>4, <2>1
    <3> QED
      BY <1>0, <2>1, <3>1 DEF GateAgreesWithLog
  <2>2. CASE k = invocation
    <3>1. ended'[k].how = how /\ ended'[k].queue = queue /\ ended'[k].args = args
      BY <1>3, <1>6, <2>2
    <3>2. log' = log
      BY <3>1 DEF RightToEnd
    <3>3. \A s : PassesOf(k, s)' = PassesOf(invocation, s)
      BY <2>2, <3>2, SameLog
    <3> QED
      BY <3>1, <3>3 DEF RightToEnd
  <2> QED
    BY <1>4, <2>1, <2>2
<1>15. NoSilentLitter'
  <2> SUFFICES ASSUME NEW d \in dirs'
               PROVE  \/ (IF d[1] \in DOMAIN ended' THEN ended'[d[1]].args ELSE args).keep
                      \/ d[1] \in DOMAIN ended' /\ <<d[2], d[3]>> = ended'[d[1]].place
                      \/ \E i \in DOMAIN log' : log'[i].run = d /\ "directory left" \in log'[i].failures
    BY <1>1 DEF NoSilentLitter
  <2>1. d \in dirs /\ d[1] \in DOMAIN ended'
    BY <1>0, <1>1, <1>4 DEF FlightBook
  <2>2. CASE d = run
    <3>1. d[1] = invocation /\ <<d[2], d[3]>> = <<place[1], place[2]>> /\ place = <<place[1], place[2]>>
      BY <1>0, <1>1, <2>2, PlaceIs DEF run
    <3> QED
      BY <1>3, <1>6, <2>1, <3>1
  <2>3. CASE \E i \in DOMAIN log : log[i].run = d /\ "directory left" \in log[i].failures
    BY <1>2, <2>3
  <2>4. CASE (IF d[1] \in DOMAIN ended THEN ended[d[1]].args ELSE args).keep
    BY <1>3, <1>4, <1>6, <2>1, <2>4
  <2>5. CASE d[1] \in DOMAIN ended /\ <<d[2], d[3]>> = ended[d[1]].place
    BY <1>3, <1>4, <2>5
  <2> QED
    BY <1>0, <2>1, <2>2, <2>3, <2>4, <2>5 DEF NoSilentLitter
<1>17. LineBook'
  <2>1. DOMAIN ended \subseteq DOMAIN ended' /\ \A k \in DOMAIN ended : ended'[k] = ended[k]
    BY <1>3, <1>4
  <2>2. CASE log' = log
    BY <1>0, <2>1, <2>2, LinesStay
  <2>3. ASSUME step = "record", NEW w \in BOOLEAN, log' = Append(log, Entry(w))
        PROVE  LineBook'
    <3>1. /\ invocation \in DOMAIN ended' /\ ended'[invocation].at = "record"
          /\ ended'[invocation].place = place
      BY <1>3, <1>4, <1>6, <2>3
    <3> QED
      BY <2>1, <2>3, <3>1, NewLine
  <2> QED
    BY <1>1, <2>2, <2>3 DEF LineStep
<1> QED
  BY <1>7, <1>8, <1>9, <1>10, <1>11, <1>12, <1>13, <1>14, <1>15, <1>17 DEF RunsInv

\* A record that is cut off writes a line of its run, half of it, or none.
LEMMA CutOffIs ==
  ASSUME step = "record", CutOffRecord
  PROVE  LineStep
BY DEF CutOffRecord, LineStep

\* A kill, inside record or elsewhere.
LEMMA KillKeeps ==
  ASSUME RunsInv, Kill
  PROVE  RunsInv'
<1>1. /\ step # "idle" /\ End("killed") /\ kills' = kills + 1
      /\ UNCHANGED <<invocation, args, queue, place, failures, did, passed, worst, dirs, raises>>
      /\ IF step = "record" THEN CutOffRecord ELSE log' = log
  BY Zenon DEF Kill
<1>2. LineStep
  BY <1>1, CutOffIs DEF LineStep
<1>3. EndStep("killed")
  <2>1. failures' \subseteq {"run", "directory left"}
    BY <1>1 DEF RunsInv, TypeOK
  <2>2. kills' \in {kills, kills + 1} /\ dirs' \subseteq dirs
    BY <1>1
  <2> QED
    BY <1>1, <1>2, <2>1, <2>2, Zenon DEF EndStep
<1>4. RightToEnd("killed")
  BY DEF RightToEnd
<1>5. worst' \in Nat /\ raises' \in Nat
  BY <1>1 DEF RunsInv, TypeOK
<1> QED
  BY <1>3, <1>4, <1>5, Ends

\* An OSError of mkdtemp or of record, which nothing catches.
LEMMA FailsKeeps ==
  ASSUME RunsInv, MakeDirectoryFails \/ RecordFails
  PROVE  RunsInv'
<1>1. /\ step \in {"mkdtemp", "record"} /\ End("exception") /\ raises' = raises + 1
      /\ UNCHANGED <<invocation, args, queue, place, failures, did, passed, worst, dirs, kills>>
      /\ log' = log \/ (step = "record" /\ CutOffRecord)
  BY Zenon DEF MakeDirectoryFails, RecordFails
<1>2. LineStep
  BY <1>1, CutOffIs DEF LineStep
<1>3. EndStep("exception")
  <2>1. failures' \subseteq {"run", "directory left"}
    BY <1>1 DEF RunsInv, TypeOK
  <2>2. kills' \in {kills, kills + 1} /\ dirs' \subseteq dirs /\ step # "idle"
    BY <1>1
  <2> QED
    BY <1>1, <1>2, <2>1, <2>2, Zenon DEF EndStep
<1>4. RightToEnd("exception")
  BY <1>1 DEF RightToEnd
<1>5. worst' \in Nat /\ raises' \in Nat
  <2>1. worst \in Nat /\ raises \in Nat
    BY DEF RunsInv, TypeOK
  <2>2. raises' = raises + 1 /\ worst' = worst
    BY <1>1
  <2> QED
    BY <2>1, <2>2
<1> QED
  BY <1>3, <1>4, <1>5, Ends

\* `finally` with an exception on its way out, which ends the invocation.
LEMMA LeavingKeeps ==
  ASSUME RunsInv, Keep \/ Discard \/ DiscardFails, leaving # "nothing"
  PROVE  RunsInv'
<1>1. /\ step = "discard" /\ leaving \in {"SystemExit", "interrupted"}
      /\ raises \in Nat /\ worst \in Nat /\ TypeOK
  BY DEF Keep, Discard, DiscardFails, RunsInv, TypeOK
<1>2. /\ End(leaving) /\ dirs' \subseteq dirs /\ kills' = kills /\ log' = log
      /\ UNCHANGED <<invocation, args, queue, place, did, passed, worst>>
  BY Zenon DEF Keep, Discard, DiscardFails, AfterDiscard
<1>3. failures' \subseteq {"run", "directory left"} /\ raises' \in {raises, raises + 1}
  <2>1. failures \subseteq {"run", "directory left"}
    BY <1>1 DEF TypeOK
  <2>2. failures' \in {failures, failures \cup {"directory left"}} /\ raises' \in {raises, raises + 1}
    BY Zenon DEF Keep, Discard, DiscardFails
  <2> QED
    BY <2>1, <2>2
<1>4. raises' \in Nat /\ worst' \in Nat
  <2>1. raises' = raises \/ raises' = raises + 1
    BY <1>3
  <2> QED
    BY <1>1, <1>2, <2>1
<1>5. EndStep(leaving)
  BY <1>1, <1>2, <1>3 DEF EndStep, LineStep
<1>6. RightToEnd(leaving)
  BY <1>1 DEF RightToEnd
<1> QED
  BY <1>4, <1>5, <1>6, Ends

\* The last run counted: the exit status is the gate's.
LEMMA FinishKeeps ==
  ASSUME RunsInv, Finish
  PROVE  RunsInv'
<1> DEFINE how == IF worst' < args.under THEN "exit 1" ELSE "exit 0"
<1>0. TypeOK /\ WhereBook /\ CountBook
  BY DEF RunsInv
<1>1. /\ step = "count" /\ place = <<Len(queue), Attempts>> /\ worst' = Smaller(worst, Passed)
      /\ End(how)
      /\ UNCHANGED <<invocation, args, queue, place, failures, did, passed, dirs, log, kills, raises>>
  BY DEF Finish
<1>2. worst \in Nat /\ passed \in Nat /\ args.under \in Nat
  BY <1>0 DEF TypeOK, Args
<1>3. /\ Attempts \in Nat /\ Len(queue) \in Nat /\ place[1] = Len(queue) /\ Len(queue) >= 1
      /\ args.under \in Nat /\ args.under <= Attempts
  <2>1. /\ Attempts \in Nat /\ Len(queue) \in Nat /\ place[1] \in 1..Len(queue)
    BY <1>0, <1>1, PlaceIs
  <2>2. place[1] = Len(queue)
    BY <1>1
  <2>3. args.under <= Attempts
    BY <1>0, <1>1 DEF WhereBook
  <2> QED
    BY <1>2, <2>1, <2>2, <2>3
<1>4. DOMAIN queue = 1..Len(queue)
  BY <1>0, OwnElements DEF TypeOK, IsSequence
<1> DEFINE C(s) == Cardinality(PassesOf(invocation, s))
<1>5. \A s : C(s) \in Nat
  BY <1>0, PassesCount
<1>6. /\ Passed = C(Len(queue)) /\ Passed \in Nat
      /\ worst <= Attempts
      /\ \A s \in 1..(Len(queue) - 1) : C(s) >= worst
      /\ worst < Attempts => \E s \in 1..(Len(queue) - 1) : C(s) = worst
  <2>1. Passed = passed + (IF step = "count" /\ failures = {} THEN 1 ELSE 0)
    BY <1>1 DEF Passed
  <2>2. Passed = C(Len(queue))
    BY <1>0, <1>1, <1>3, <2>1 DEF CountBook
  <2> QED
    BY <1>0, <1>1, <1>3, <1>5, <2>2 DEF CountBook
<1> HIDE DEF C
<1>7. worst' \in Nat /\ worst' <= worst /\ worst' <= Passed /\ (worst' = worst \/ worst' = Passed)
  <2>1. worst' = Smaller(worst, Passed)
    BY <1>1
  <2>2. Passed \in Nat
    BY <1>6
  <2> QED
    BY <1>2, <2>1, <2>2 DEF Smaller
<1>8. worst' >= args.under <=> \A s \in 1..Len(queue) : C(s) >= args.under
  <2>1. ASSUME worst' >= args.under, NEW s \in 1..Len(queue) PROVE C(s) >= args.under
    <3>1. CASE s = Len(queue)
      BY <1>3, <1>5, <1>6, <1>7, <2>1, <3>1
    <3>2. CASE s # Len(queue)
      <4>1. s \in 1..(Len(queue) - 1)
        BY <1>3, <3>2
      <4>2. C(s) \in Nat /\ C(s) >= worst
        BY <1>5, <1>6, <4>1
      <4> QED
        BY <1>2, <1>7, <2>1, <4>2
    <3> QED
      BY <3>1, <3>2
  <2>2. ASSUME \A s \in 1..Len(queue) : C(s) >= args.under PROVE worst' >= args.under
    <3>1. Len(queue) \in 1..Len(queue)
      BY <1>3
    <3>2. Passed >= args.under
      BY <1>6, <2>2, <3>1
    <3>3. worst >= args.under
      <4>1. CASE worst < Attempts
        <5>1. PICK s \in 1..(Len(queue) - 1) : C(s) = worst
          BY <1>6, <4>1
        <5>2. s \in 1..Len(queue)
          BY <1>3
        <5> QED
          BY <2>2, <5>1, <5>2
      <4>2. CASE ~ (worst < Attempts)
        <5>1. Attempts \in Nat /\ args.under <= Attempts
          BY <1>3
        <5> QED
          BY <1>2, <4>2, <5>1
      <4> QED
        BY <4>1, <4>2
    <3> QED
      BY <1>7, <3>2, <3>3
  <2> QED
    BY <2>1, <2>2
<1>9. how = "exit 0" <=> \A s \in DOMAIN queue : C(s) >= args.under
  BY <1>3, <1>4, <1>7, <1>8
<1>10. how \in {"exit 0", "exit 1"}
  OBVIOUS
<1> HIDE DEF how
<1>11. RightToEnd(how)
  BY <1>1, <1>9, <1>10 DEF RightToEnd, C
<1>12. EndStep(how)
  <2>1. failures' \subseteq {"run", "directory left"}
    BY <1>0, <1>1 DEF TypeOK
  <2> QED
    BY <1>1, <2>1 DEF EndStep, LineStep
<1>13. raises' \in Nat
  BY <1>0, <1>1 DEF TypeOK
<1> QED
  BY <1>7, <1>11, <1>12, <1>13, Ends

---------------------------------------------------------------------------
(* How it goes on. *)

\* record: the run in flight gets its line.
LEMMA RecordKeeps ==
  ASSUME RunsInv, Record
  PROVE  RunsInv'
<1> DEFINE e == Entry(TRUE)
           n == Len(log) + 1
<1>0. TypeOK /\ WhereBook /\ LogBook /\ LineBook /\ FlightBook /\ EndBook /\ CountBook
      /\ PassIsEarned /\ GateAgreesWithLog /\ NoSilentLitter
  BY DEF RunsInv
<1>1. /\ step = "record" /\ step' = "count" /\ log' = Append(log, e)
      /\ UNCHANGED <<invocation, args, queue, place, leaving, failures, did, passed, worst,
                     dirs, ended, kills, raises>>
  BY DEF Record
<1>2. /\ e \in Lines /\ e.run = run /\ run[1] = invocation /\ run[2] = place[1] /\ run[3] = place[2]
      /\ e.whole /\ e.failures = failures
  BY <1>0, <1>1, EntryIs
<1>3. e.passed = (failures = {}) /\ e.earned = (did.clean /\ did.good)
  BY <1>0, <1>1, EntryIs
<1> HIDE DEF e
<1>4. /\ log' \in Seq(Lines) /\ DOMAIN log' = DOMAIN log \cup {n} /\ n \notin DOMAIN log
      /\ log'[n] = e /\ \A i \in DOMAIN log : log'[i] = log[i]
      /\ Recorded' = Recorded \cup {run} /\ (DOMAIN log \ Written)' = DOMAIN log \ Written
  BY <1>0, <1>1, <1>2, LogStep
<1> HIDE DEF n
<1>5. /\ \A k : Finished(k)' = Finished(k)
      /\ run' = run /\ Attempts' = Attempts /\ Places(invocation, queue)' = Places(invocation, queue)
  BY <1>1, SameEnded DEF run, Attempts, Places
<1>6. \A k, s : k # invocation \/ s # place[1] => PassesOf(k, s)' = PassesOf(k, s)
  BY <1>0, <1>1, <1>2, PassStep
<1>7. ASSUME NEW k, NEW s, k = invocation, s = place[1]
      PROVE  Cardinality(PassesOf(k, s)') = Cardinality(PassesOf(k, s)) + (IF failures = {} THEN 1 ELSE 0)
  <2> DEFINE P == PassesOf(k, s)
  <2>1. Cardinality(P) \in Nat
    BY <1>0, PassesCount
  <2>2. CASE failures = {}
    <3>0. e.whole /\ e.passed /\ e.run[1] = k /\ e.run[2] = s
      BY <1>2, <1>3, <1>7, <2>2
    <3>1. Cardinality(P') = Cardinality(P) + 1
      BY <1>0, <1>1, <1>2, <3>0, PassStep
    <3> QED
      BY <2>2, <3>1
  <2>3. CASE failures # {}
    <3>0. ~ e.passed
      BY <1>3, <2>3
    <3>1. P' = P
      BY <1>0, <1>1, <1>2, <3>0, PassStep
    <3> HIDE DEF P
    <3> QED
      BY <2>1, <2>3, <3>1 DEF P
  <2> QED
    BY <2>2, <2>3
<1>8. place = <<place[1], place[2]>> /\ <<run[2], run[3]>> = place
  BY <1>0, <1>1, <1>2, PlaceIs
<1>9. TypeOK'
  <2>1. TypeOK /\ log' \in Seq(Lines)
    BY <1>0, <1>4
  <2>2. IsSequence(queue)' /\ IsSequence(ended)'
    BY <1>1, <2>1 DEF TypeOK, IsSequence
  <2> QED
    BY <1>1, <2>1, <2>2 DEF TypeOK
<1>10. WhereBook'
  BY <1>0, <1>1, <1>5 DEF WhereBook
<1>11. LogBook'
  <2>1. (\A i \in DOMAIN log : Over(log[i].run))'
    <3>1. Over(run)'
      BY <1>1, <1>2, <1>5, <1>8 DEF Over
    <3>2. \A i \in DOMAIN log : Over(log[i].run)'
      BY <1>0, <1>1, <1>4 DEF LogBook, Over, Before
    <3> QED
      BY <1>2, <1>4, <1>5, <3>1, <3>2 DEF Over, Before
  <2>2. (\A k \in DOMAIN ended : Finished(k) \subseteq Recorded)'
    BY <1>0, <1>1, <1>4, <1>5 DEF LogBook
  <2>3. \A p \in Places(invocation, queue) :
          Before(p, place) \/ p = place => <<invocation, p[1], p[2]>> \in Recorded'
    BY <1>0, <1>1, <1>4 DEF LogBook, run
  <2>4. (step # "idle" => \A p \in Places(invocation, queue) :
           Before(p, place) \/ (p = place /\ step = "count") => <<invocation, p[1], p[2]>> \in Recorded)'
    BY <1>1, <1>5, <2>3 DEF Before
  <2>5. (\E i \in DOMAIN log : log[i].run = run /\ log[i].failures = failures)'
    BY <1>1, <1>2, <1>4, <1>5
  <2> QED
    BY <2>1, <2>2, <2>4, <2>5 DEF LogBook
<1>12. FlightBook'
  BY <1>0, <1>1, <1>5 DEF FlightBook
<1>13. EndBook'
  BY <1>0, <1>1 DEF EndBook
<1>14. CountBook'
  <2>1. \A k, s : s \in 1..(place[1] - 1) => PassesOf(k, s)' = PassesOf(k, s)
    <3>1. place[1] \in Nat
      BY <1>0 DEF TypeOK
    <3>2. \A s \in 1..(place[1] - 1) : s # place[1]
      BY <3>1
    <3> QED
      BY <1>6, <3>2
  <2>2. passed + 0 = Cardinality(PassesOf(invocation, place[1]))
    BY <1>0, <1>1 DEF CountBook
  <2>3. passed \in Nat
    BY <1>0 DEF TypeOK
  <2>4. passed = Cardinality(PassesOf(invocation, place[1]))
    BY <2>2, <2>3
  <2>5. (passed + (IF step = "count" /\ failures = {} THEN 1 ELSE 0)
           = Cardinality(PassesOf(invocation, place[1])))'
    BY <1>1, <1>7, <2>4
  <2> QED
    BY <1>0, <1>1, <1>5, <2>1, <2>5 DEF CountBook
<1>15. PassIsEarned'
  <2> SUFFICES ASSUME NEW i \in DOMAIN log', log'[i].passed
               PROVE  /\ log'[i].earned
                      /\ log'[i].run \in dirs =>
                           (IF log'[i].run[1] = invocation THEN args ELSE ended[log'[i].run[1]].args).keep
    BY <1>1 DEF PassIsEarned
  <2>1. CASE i \in DOMAIN log
    BY <1>0, <1>4, <2>1 DEF PassIsEarned
  <2>2. CASE i = n
    <3>1. failures = {} /\ log'[i].run = run /\ log'[i].earned = (did.clean /\ did.good)
      BY <1>2, <1>3, <1>4, <2>2
    <3>2. did.clean /\ did.good
      BY <1>0, <1>1, <3>1 DEF FlightBook
    <3>3. run \in dirs => args.keep
      BY <1>0, <1>1, <3>1 DEF FlightBook
    <3> QED
      BY <1>2, <3>1, <3>2, <3>3
  <2> QED
    BY <1>4, <2>1, <2>2
<1>16. GateAgreesWithLog'
  <2>1. \A k \in DOMAIN ended : k # invocation
    BY <1>0, <1>1, PlaceIs
  <2> QED
    BY <1>0, <1>1, <1>6, <2>1 DEF GateAgreesWithLog
<1>17. NoSilentLitter'
  <2> SUFFICES ASSUME NEW d \in dirs
               PROVE  \/ d = run
                      \/ (IF d[1] \in DOMAIN ended THEN ended[d[1]].args ELSE args).keep
                      \/ d[1] \in DOMAIN ended /\ <<d[2], d[3]>> = ended[d[1]].place
                      \/ \E i \in DOMAIN log' : log'[i].run = d /\ "directory left" \in log'[i].failures
    BY <1>1, <1>5 DEF NoSilentLitter
  <2>1. CASE \E i \in DOMAIN log : log[i].run = d /\ "directory left" \in log[i].failures
    BY <1>4, <2>1
  <2> QED
    BY <1>0, <1>1, <2>1 DEF NoSilentLitter
<1>18. LineBook'
  <2>1. log' = Append(log, Entry(TRUE)) /\ ended' = ended
    BY DEF Record
  <2> QED
    BY <1>1, <2>1, NewLine
<1> QED
  BY <1>9, <1>10, <1>11, <1>12, <1>13, <1>14, <1>15, <1>16, <1>17, <1>18 DEF RunsInv

(* A step from a counted run to the next one of the invocation. *)
MoveStep ==
  /\ step = "count" /\ step' = "mkdtemp"
  /\ UNCHANGED <<invocation, args, queue, leaving, failures, did, dirs, log, ended, kills, raises>>
  /\ place' \in Places(invocation, queue)
  /\ \A p \in Nat \X Nat : Before(p, place) \/ p = place => Before(p, place')
  /\ \A p \in Places(invocation, queue) : Before(p, place') => Before(p, place) \/ p = place

\* Of such a step all there is to show are the counters.
LEMMA Moves ==
  ASSUME RunsInv, MoveStep, passed' \in Nat, worst' \in Nat, CountBook'
  PROVE  RunsInv'
<1> USE DEF MoveStep
<1>0. TypeOK /\ WhereBook /\ LogBook /\ LineBook /\ FlightBook /\ EndBook
      /\ PassIsEarned /\ GateAgreesWithLog /\ NoSilentLitter
  BY DEF RunsInv
<1>1. /\ Written' = Written /\ Recorded' = Recorded
      /\ \A k, s : PassesOf(k, s)' = PassesOf(k, s)
      /\ (DOMAIN log \ Written)' = DOMAIN log \ Written
      /\ \A k : Finished(k)' = Finished(k)
  BY SameLog, SameEnded
<1>2. Attempts' = Attempts /\ Places(invocation, queue)' = Places(invocation, queue)
  BY DEF Attempts, Places
<1>3. /\ Len(queue) \in Nat /\ Attempts \in Nat /\ invocation \in Nat
      /\ DOMAIN ended = 1..(invocation - 1)
      /\ place = <<place[1], place[2]>> /\ place \in Nat \X Nat
  <2>1. place \in Nat \X Nat
    BY <1>0 DEF TypeOK
  <2>2. invocation \in 1..Len(Runs) /\ Len(Runs) \in Nat
    BY <1>0, PlaceIs
  <2>3. invocation \in Nat
    BY <2>2
  <2> QED
    BY <1>0, <2>1, <2>3, PlaceIs
<1>4. place' \in Nat \X Nat
  <2>1. place' \in (1..Len(queue)) \X (1..Attempts)
    BY DEF Places, Attempts
  <2> QED
    BY <1>3, <2>1
<1>5. TypeOK'
  <2>1. IsSequence(queue)' /\ IsSequence(ended)'
    BY <1>0 DEF TypeOK, IsSequence
  <2> QED
    BY <1>0, <1>4, <2>1 DEF TypeOK
<1>6. WhereBook'
  BY <1>0, <1>2 DEF WhereBook
<1>7. LogBook'
  <2>1. (\A i \in DOMAIN log : Over(log[i].run))'
    <3> SUFFICES ASSUME NEW i \in DOMAIN log
                 PROVE  \/ log[i].run[1] \in DOMAIN ended
                        \/ log[i].run[1] = invocation /\ Before(<<log[i].run[2], log[i].run[3]>>, place')
      BY DEF Over, Before
    <3> DEFINE r == log[i].run
    <3>1. r \in Names
      <4>1. log \in Seq(Lines)
        BY <1>0 DEF TypeOK
      <4>2. log[i] \in Lines
        BY <4>1, LenProperties
      <4> QED
        BY <4>2 DEF Lines
    <3>2. <<r[2], r[3]>> \in Nat \X Nat
      BY <3>1 DEF Names
    <3>3. Over(r)
      BY <1>0 DEF LogBook
    <3> QED
      BY <3>2, <3>3 DEF Over
  <2>2. (\A k \in DOMAIN ended : Finished(k) \subseteq Recorded)'
    BY <1>0, <1>1 DEF LogBook
  <2>3. \A p \in Places(invocation, queue) : Before(p, place') => <<invocation, p[1], p[2]>> \in Recorded
    BY <1>0 DEF LogBook
  <2>4. (step # "idle" => \A p \in Places(invocation, queue) :
           Before(p, place) \/ (p = place /\ step = "count") => <<invocation, p[1], p[2]>> \in Recorded)'
    BY <1>1, <1>2, <2>3 DEF Before
  <2> QED
    BY <2>1, <2>2, <2>4 DEF LogBook
<1>8. FlightBook'
  BY <1>0 DEF FlightBook
<1>9. EndBook'
  BY <1>0 DEF EndBook
<1>10. PassIsEarned'
  BY <1>0 DEF PassIsEarned
<1>11. GateAgreesWithLog'
  BY <1>0, <1>1 DEF GateAgreesWithLog
<1>12. NoSilentLitter'
  <2> SUFFICES ASSUME NEW d \in dirs
               PROVE  \/ (IF d[1] \in DOMAIN ended THEN ended[d[1]].args ELSE args).keep
                      \/ d[1] \in DOMAIN ended /\ <<d[2], d[3]>> = ended[d[1]].place
                      \/ \E i \in DOMAIN log : log[i].run = d /\ "directory left" \in log[i].failures
    BY DEF NoSilentLitter
  <2>1. CASE d = run
    <3>1. args.keep \/ "directory left" \in failures
      BY <1>0, <2>1 DEF FlightBook
    <3>2. PICK i \in DOMAIN log : log[i].run = run /\ log[i].failures = failures
      BY <1>0 DEF LogBook
    <3>3. d[1] = invocation /\ invocation \notin DOMAIN ended
      BY <1>3, <2>1 DEF run
    <3> QED
      BY <2>1, <3>1, <3>2, <3>3
  <2>2. CASE d # run
    BY <1>0, <2>2 DEF NoSilentLitter
  <2> QED
    BY <2>1, <2>2
<1>13. LineBook'
  BY <1>0, LinesStay
<1> QED
  BY <1>5, <1>6, <1>7, <1>8, <1>9, <1>10, <1>11, <1>12, <1>13 DEF RunsInv

\* The next attempt of the scenario.
LEMMA NextAttemptKeeps ==
  ASSUME RunsInv, NextAttempt
  PROVE  RunsInv'
<1>0. TypeOK /\ WhereBook /\ CountBook
  BY DEF RunsInv
<1>1. /\ step = "count" /\ place[2] < Attempts /\ passed' = Passed
      /\ place' = <<place[1], place[2] + 1>> /\ step' = "mkdtemp"
      /\ UNCHANGED <<invocation, args, queue, leaving, failures, did, worst, dirs, log, ended, kills, raises>>
  BY DEF NextAttempt
<1>2. /\ Attempts \in Nat /\ place[1] \in 1..Len(queue) /\ place[2] \in 1..Attempts
      /\ place = <<place[1], place[2]>>
  BY <1>0, <1>1, PlaceIs
<1>3. place[1] \in Nat /\ place[2] \in Nat /\ passed \in Nat /\ worst \in Nat
  BY <1>0 DEF TypeOK
<1>4. place[2] + 1 \in 1..Attempts
  <2>1. place[2] < Attempts
    BY <1>1
  <2> QED
    BY <1>2, <1>3, <2>1
<1>5. MoveStep
  <2>1. place' \in Places(invocation, queue)
    BY <1>1, <1>2, <1>4 DEF Places, Attempts
  <2>2. place'[1] = place[1] /\ place'[2] = place[2] + 1
    BY <1>1
  <2>3. ASSUME NEW p \in Nat \X Nat
        PROVE  Before(p, place') <=> Before(p, place) \/ p = place
    <3>1. PICK a \in Nat, b \in Nat : p = <<a, b>>
      OBVIOUS
    <3>2. p = place <=> a = place[1] /\ b = place[2]
      BY <1>2, <3>1
    <3>3. b < place[2] + 1 <=> b < place[2] \/ b = place[2]
      BY <1>3
    <3> QED
      BY <2>2, <3>1, <3>2, <3>3 DEF Before
  <2>4. Places(invocation, queue) \subseteq Nat \X Nat
    <3>1. Len(queue) \in Nat
      BY <1>0, <1>1, PlaceIs
    <3> QED
      BY <1>2, <3>1 DEF Places, Attempts
  <2> QED
    BY <1>1, <2>1, <2>3, <2>4 DEF MoveStep
<1>6. passed' \in Nat /\ worst' \in Nat
  BY <1>1, <1>3 DEF Passed
<1>7. CountBook'
  <2>1. \A k, s : PassesOf(k, s)' = PassesOf(k, s)
    BY <1>1, SameLog
  <2>2. Passed = passed + (IF step = "count" /\ failures = {} THEN 1 ELSE 0)
    BY <1>1 DEF Passed
  <2>3. Passed = Cardinality(PassesOf(invocation, place[1]))
    BY <1>0, <1>1, <2>2 DEF CountBook
  <2>4. passed' + 0 = passed'
    <3>1. \A n \in Nat : n + 0 = n
      OBVIOUS
    <3> QED
      BY <1>6, <3>1, Zenon
  <2>5. (passed + (IF step = "count" /\ failures = {} THEN 1 ELSE 0)
           = Cardinality(PassesOf(invocation, place[1])))'
    BY <1>1, <2>1, <2>3, <2>4
  <2>6. place'[1] = place[1] /\ Attempts' = Attempts
    BY <1>1 DEF Attempts
  <2> QED
    BY <1>0, <1>1, <2>1, <2>5, <2>6 DEF CountBook
<1> QED
  BY <1>5, <1>6, <1>7, Moves

\* The next scenario.
LEMMA NextScenarioKeeps ==
  ASSUME RunsInv, NextScenario
  PROVE  RunsInv'
<1>0. TypeOK /\ WhereBook /\ CountBook /\ LogBook
  BY DEF RunsInv
<1>1. /\ step = "count" /\ place[2] = Attempts /\ place[1] < Len(queue)
      /\ worst' = Smaller(worst, Passed) /\ passed' = 0
      /\ place' = <<place[1] + 1, 1>> /\ step' = "mkdtemp"
      /\ UNCHANGED <<invocation, args, queue, leaving, failures, did, dirs, log, ended, kills, raises>>
  BY DEF NextScenario
<1>2. /\ Attempts \in Nat /\ Attempts > 0 /\ place[1] \in 1..Len(queue) /\ Len(queue) \in Nat
      /\ place = <<place[1], place[2]>> /\ DOMAIN ended = 1..(invocation - 1) /\ invocation \in Nat
  BY <1>0, <1>1, PlaceIs
<1>3. place[1] \in Nat /\ passed \in Nat /\ worst \in Nat
  BY <1>0 DEF TypeOK
<1>4. place[1] + 1 \in 1..Len(queue) /\ 1 \in 1..Attempts
  <2>1. place[1] < Len(queue)
    BY <1>1
  <2> QED
    BY <1>2, <1>3, <2>1
<1>5. place'[1] = place[1] + 1 /\ place'[2] = 1
  BY <1>1
<1>6. MoveStep
  <2>1. place' \in Places(invocation, queue)
    BY <1>1, <1>4 DEF Places, Attempts
  <2>2. \A a \in Nat : a < place[1] + 1 <=> a < place[1] \/ a = place[1]
    <3>1. \A n, a \in Nat : a < n + 1 <=> a < n \/ a = n
      OBVIOUS
    <3> QED
      BY <1>3, <3>1, Zenon
  <2>3. ASSUME NEW p \in Nat \X Nat, Before(p, place) \/ p = place PROVE Before(p, place')
    <3>1. PICK a \in Nat, b \in Nat : p = <<a, b>>
      OBVIOUS
    <3>2. a < place[1] \/ a = place[1]
      BY <1>2, <2>3, <3>1 DEF Before
    <3> QED
      BY <1>5, <2>2, <3>1, <3>2 DEF Before
  <2>4. ASSUME NEW p \in Places(invocation, queue), Before(p, place')
        PROVE  Before(p, place) \/ p = place
    <3>1. PICK a \in 1..Len(queue), b \in 1..Attempts : p = <<a, b>>
      BY DEF Places, Attempts
    <3>2. a \in Nat /\ ~ (b < 1)
      BY <1>2
    <3>3. a < place[1] \/ a = place[1]
      BY <1>5, <2>2, <2>4, <3>1, <3>2 DEF Before
    <3>4. b < Attempts \/ b = Attempts
      BY <1>2
    <3>5. place[2] = Attempts
      BY <1>1
    <3> QED
      BY <1>2, <3>1, <3>3, <3>4, <3>5 DEF Before
  <2> QED
    BY <1>1, <2>1, <2>3, <2>4 DEF MoveStep
<1> DEFINE C(s) == Cardinality(PassesOf(invocation, s))
<1>7. \A k, s : PassesOf(k, s)' = PassesOf(k, s)
  BY <1>1, SameLog
<1>8. \A s : C(s) \in Nat
  BY <1>0, PassesCount
<1>9. PassesOf(invocation, place[1] + 1) = {}
  <2> SUFFICES ASSUME NEW i \in DOMAIN log, log[i].run[1] = invocation, log[i].run[2] = place[1] + 1
               PROVE  FALSE
    BY DEF PassesOf, Written
  <2> DEFINE r == log[i].run
  <2>1. Over(r)
    BY <1>0 DEF LogBook
  <2>2. r[1] \notin DOMAIN ended
    BY <1>2
  <2>3. ~ Before(<<r[2], r[3]>>, place)
    <3>1. ~ (place[1] + 1 < place[1]) /\ place[1] + 1 # place[1]
      BY <1>3
    <3> QED
      BY <3>1 DEF Before
  <2>4. <<r[2], r[3]>> # place
    <3>1. place[1] + 1 # place[1]
      BY <1>3
    <3> QED
      BY <1>2, <3>1
  <2> QED
    BY <2>1, <2>2, <2>3, <2>4 DEF Over
<1>10. C(place[1] + 1) = 0
  BY <1>9, FS_EmptySet
<1>11. /\ Passed = C(place[1]) /\ Passed \in Nat /\ worst <= Attempts
       /\ \A s \in 1..(place[1] - 1) : C(s) >= worst
       /\ worst < Attempts => \E s \in 1..(place[1] - 1) : C(s) = worst
  <2>1. Passed = passed + (IF step = "count" /\ failures = {} THEN 1 ELSE 0)
    BY <1>1 DEF Passed
  <2>2. Passed = C(place[1])
    BY <1>0, <1>1, <2>1 DEF CountBook
  <2> QED
    BY <1>0, <1>1, <1>8, <2>2 DEF CountBook
<1> HIDE DEF C
<1>12. worst' \in Nat /\ worst' <= worst /\ worst' <= Passed /\ (worst' = worst \/ worst' = Passed)
  <2>1. worst' = Smaller(worst, Passed)
    BY <1>1
  <2>2. Passed \in Nat
    BY <1>11
  <2> QED
    BY <1>3, <2>1, <2>2 DEF Smaller
<1>13. /\ worst' <= Attempts
       /\ \A s \in 1..place[1] : C(s) >= worst'
       /\ worst' < Attempts => \E s \in 1..place[1] : C(s) = worst'
  <2>1. worst' <= Attempts
    BY <1>2, <1>3, <1>11, <1>12
  <2>2. ASSUME NEW s \in 1..place[1] PROVE C(s) >= worst'
    <3>1. CASE s = place[1]
      BY <1>8, <1>11, <1>12, <3>1
    <3>2. CASE s # place[1]
      <4>1. s \in 1..(place[1] - 1)
        BY <1>3, <3>2
      <4>2. C(s) \in Nat /\ C(s) >= worst
        BY <1>8, <1>11, <4>1
      <4> QED
        BY <1>3, <1>12, <4>2
    <3> QED
      BY <3>1, <3>2
  <2>3. ASSUME worst' < Attempts PROVE \E s \in 1..place[1] : C(s) = worst'
    <3>1. place[1] \in 1..place[1]
      BY <1>2
    <3>2. CASE worst' = Passed
      BY <1>11, <3>1, <3>2
    <3>3. CASE worst' = worst
      <4>1. PICK s \in 1..(place[1] - 1) : C(s) = worst
        BY <1>11, <2>3, <3>3
      <4>2. s \in 1..place[1]
        BY <1>3
      <4> QED
        BY <3>3, <4>1, <4>2
    <3> QED
      BY <1>12, <3>2, <3>3
  <2> QED
    BY <2>1, <2>2, <2>3
<1>14. CountBook'
  <2>1. place'[1] - 1 = place[1]
    BY <1>3, <1>5
  <2>2. (passed + (IF step = "count" /\ failures = {} THEN 1 ELSE 0)
           = Cardinality(PassesOf(invocation, place[1])))'
    <3>1. Cardinality(PassesOf(invocation, place[1])') = 0
      BY <1>1, <1>5, <1>7, <1>10 DEF C
    <3>2. passed' = 0 /\ step' # "count"
      BY <1>1
    <3> QED
      BY <3>1, <3>2
  <2>3. Attempts' = Attempts
    BY <1>1 DEF Attempts
  <2>4. (\A s \in 1..(place[1] - 1) : Cardinality(PassesOf(invocation, s)) >= worst)'
    BY <1>1, <1>7, <1>13, <2>1 DEF C
  <2>5. (worst < Attempts =>
           \E s \in 1..(place[1] - 1) : Cardinality(PassesOf(invocation, s)) = worst)'
    BY <1>1, <1>7, <1>13, <2>1, <2>3 DEF C
  <2> QED
    BY <1>13, <2>2, <2>3, <2>4, <2>5 DEF CountBook
<1>15. passed' \in Nat
  BY <1>1
<1> QED
  BY <1>6, <1>12, <1>14, <1>15, Moves

\* A new invocation, over the log the earlier ones left.
LEMMA InvokeKeeps ==
  ASSUME RunsInv, NEW network \in BOOLEAN, NEW keep \in BOOLEAN, NEW under \in Unders,
         Invoke(network, keep, under)
  PROVE  RunsInv'
<1>0. TypeOK /\ WhereBook /\ LogBook /\ LineBook /\ FlightBook /\ EndBook
      /\ PassIsEarned /\ GateAgreesWithLog /\ NoSilentLitter
  BY DEF RunsInv
<1> DEFINE q == Select(network)
           k1 == invocation + 1
<1>1. /\ step = "idle" /\ invocation < Len(Runs) /\ q # <<>>
      /\ invocation' = k1 /\ queue' = q /\ place' = <<1, 1>> /\ passed' = 0
      /\ worst' = Runs[k1] /\ step' = "mkdtemp" /\ args' = [keep |-> keep, under |-> under]
      /\ UNCHANGED <<leaving, failures, did, dirs, log, ended, kills, raises>>
  BY DEF Invoke
<1>2. IsSequence(q)
  BY SelectIs
<1> HIDE DEF q
<1>3. invocation \in Nat /\ Len(Runs) \in Nat /\ DOMAIN Runs = 1..Len(Runs)
      /\ Runs \in [1..Len(Runs) -> Nat \ {0}]
  <2>1. invocation \in 0..Len(Runs)
    BY <1>0 DEF TypeOK
  <2>2. /\ Len(Runs) \in Nat /\ DOMAIN Runs = 1..Len(Runs)
        /\ Runs \in [1..Len(Runs) -> Nat \ {0}]
    BY RunsAssumption, LenProperties
  <2> QED
    BY <2>1, <2>2
<1>4. invocation < Len(Runs)
  BY <1>1
<1>5. k1 \in 1..Len(Runs) /\ k1 \in Nat /\ k1 > 0 /\ k1 - 1 = invocation
  BY <1>3, <1>4
<1>6. Runs[k1] \in Nat /\ Runs[k1] >= 1
  BY <1>3, <1>5
<1>7. under \in 1..Runs[k1]
  <2>1. invocation # Len(Runs)
    <3>1. \A n \in Nat : ~ (n < n)
      OBVIOUS
    <3> QED
      BY <1>3, <1>4, <3>1, Zenon
  <2> QED
    BY <2>1 DEF Unders
<1>8. Len(q) \in Nat /\ Len(q) >= 1
  <2>1. q \in Seq({q[i] : i \in DOMAIN q})
    BY <1>2 DEF IsSequence
  <2>2. q # <<>>
    BY <1>1
  <2> QED
    BY <2>1, <2>2, EmptySeq, LenProperties
<1>9. Attempts' = Runs[k1]
  BY <1>1 DEF Attempts
<1>10. /\ Len(ended) = invocation /\ DOMAIN ended = 1..invocation
       /\ invocation > 0 => ended[invocation].args = args
  <2>1. Len(ended) = invocation /\ (invocation > 0 => ended[invocation].args = args)
    BY <1>0, <1>1 DEF WhereBook
  <2>2. DOMAIN ended = 1..Len(ended)
    BY <1>0, OwnElements DEF TypeOK, IsSequence
  <2> QED
    BY <2>1, <2>2
<1>11. k1 \notin DOMAIN ended
  BY <1>3, <1>10
<1>12. /\ Written' = Written /\ Recorded' = Recorded
       /\ \A k, s : PassesOf(k, s)' = PassesOf(k, s)
       /\ (DOMAIN log \ Written)' = DOMAIN log \ Written
       /\ \A k : Finished(k)' = Finished(k)
  BY <1>1, SameLog, SameEnded
<1>13. \A i \in DOMAIN log : log[i].run[1] \in DOMAIN ended
  BY <1>0, <1>1 DEF LogBook, Over
<1>14. \A d \in dirs : d[1] \in DOMAIN ended
  BY <1>0, <1>1 DEF FlightBook
<1> HIDE DEF k1
<1>15. TypeOK'
  <2>1. IsSequence(queue)' /\ IsSequence(ended)'
    BY <1>0, <1>1, <1>2 DEF TypeOK, IsSequence
  <2>2. under \in Nat
    BY <1>6, <1>7
  <2>3. args' \in Args
    BY <1>1, <2>2 DEF Args
  <2>4. invocation' \in 0..Len(Runs) /\ worst' \in Nat /\ passed' \in Nat /\ place' \in Nat \X Nat
    BY <1>1, <1>3, <1>5, <1>6
  <2>5. step' = "mkdtemp"
        /\ UNCHANGED <<leaving, failures, did, dirs, log, ended, kills, raises>>
    BY <1>1
  <2> QED
    BY <1>0, <2>1, <2>3, <2>4, <2>5 DEF TypeOK
<1>16. WhereBook'
  <2>1. (place \in Places(invocation, queue))'
    BY <1>1, <1>6, <1>8 DEF Places
  <2>2. args'.under = under /\ under <= Runs[k1]
    BY <1>1, <1>6, <1>7
  <2>3. Len(ended') = invocation' - 1 /\ invocation' > 0
    BY <1>1, <1>5, <1>10
  <2> QED
    BY <1>1, <1>9, <2>1, <2>2, <2>3 DEF WhereBook
<1>17. LogBook'
  <2>1. (\A i \in DOMAIN log : Over(log[i].run))'
    BY <1>1, <1>13 DEF Over
  <2>2. (\A k \in DOMAIN ended : Finished(k) \subseteq Recorded)'
    BY <1>0, <1>1, <1>12 DEF LogBook
  <2>3. \A p \in Places(k1, q) : ~ Before(p, <<1, 1>>)
    <3> SUFFICES ASSUME NEW a \in 1..Len(q), NEW b \in 1..Runs[k1]
                 PROVE  ~ Before(<<a, b>>, <<1, 1>>)
      BY DEF Places
    <3>1. ~ (a < 1) /\ ~ (b < 1)
      BY <1>6, <1>8
    <3> QED
      BY <3>1 DEF Before
  <2>4. (step # "idle" => \A p \in Places(invocation, queue) :
           Before(p, place) \/ (p = place /\ step = "count") => <<invocation, p[1], p[2]>> \in Recorded)'
    <3>1. Places(invocation, queue)' = Places(k1, q)
      BY <1>1 DEF Places
    <3>2. \A p \in Places(k1, q) : ~ Before(p, place')
      BY <1>1, <2>3
    <3>3. step' # "count"
      BY <1>1
    <3> QED
      BY <3>1, <3>2, <3>3 DEF Before
  <2> QED
    BY <1>1, <2>1, <2>2, <2>4 DEF LogBook
<1>18. FlightBook'
  BY <1>0, <1>1, <1>14 DEF FlightBook
<1>19. EndBook'
  BY <1>0, <1>1 DEF EndBook
<1>20. CountBook'
  <2>1. PassesOf(k1, 1) = {}
    <3>1. \A i \in Written : log[i].run[1] # k1
      BY <1>11, <1>13 DEF Written
    <3> QED
      BY <3>1 DEF PassesOf
  <2>2. Cardinality(PassesOf(invocation, place[1])') = 0
    <3>1. \A k, s : k = k1 /\ s = 1 => PassesOf(k, s)' = {}
      BY <1>12, <2>1
    <3>2. invocation' = k1 /\ place'[1] = 1
      BY <1>1
    <3>3. PassesOf(invocation, place[1])' = {}
      BY <3>1, <3>2
    <3> QED
      BY <3>3, FS_EmptySet
  <2>3. passed' = 0 /\ step' # "count" /\ worst' = Attempts' /\ place'[1] = 1
    BY <1>1, <1>9
  <2>4. (passed + (IF step = "count" /\ failures = {} THEN 1 ELSE 0)
           = Cardinality(PassesOf(invocation, place[1])))'
    BY <2>2, <2>3
  <2>5. worst' <= Attempts' /\ ~ (worst' < Attempts')
    BY <1>6, <1>9, <2>3
  <2>6. (\A s \in 1..(place[1] - 1) : Cardinality(PassesOf(invocation, s)) >= worst)'
    BY <2>3
  <2> QED
    BY <2>4, <2>5, <2>6 DEF CountBook
<1>21. PassIsEarned'
  <2> SUFFICES ASSUME NEW i \in DOMAIN log, log[i].passed
               PROVE  /\ log[i].earned
                      /\ log[i].run \in dirs =>
                           (IF log[i].run[1] = k1 THEN args' ELSE ended[log[i].run[1]].args).keep
    BY <1>1 DEF PassIsEarned
  <2> DEFINE k == log[i].run[1]
  <2>1. k \in DOMAIN ended /\ k # k1
    BY <1>11, <1>13
  <2>2. k = invocation => args = ended[k].args
    <3>1. k = invocation => invocation > 0
      BY <1>3, <1>10, <2>1
    <3> QED
      BY <1>10, <3>1
  <2> QED
    BY <1>0, <2>1, <2>2 DEF PassIsEarned
<1>22. GateAgreesWithLog'
  BY <1>0, <1>1, <1>12 DEF GateAgreesWithLog
<1>23. NoSilentLitter'
  BY <1>0, <1>1, <1>14 DEF NoSilentLitter
<1>24. LineBook'
  BY <1>0, <1>1, LinesStay
<1> QED
  BY <1>15, <1>16, <1>17, <1>18, <1>19, <1>20, <1>21, <1>22, <1>23, <1>24 DEF RunsInv

\* Before the first invocation there is nothing.
LEMMA Starts ==
  ASSUME Init
  PROVE  RunsInv
<1> USE DEF Init
<1>1. IsSequence(<<>>) /\ DOMAIN <<>> = {} /\ Len(<<>>) = 0 /\ <<>> \in Seq(Lines)
  <2>1. \A S : <<>> \in Seq(S)
    BY EmptySeq
  <2>2. Len(<<>>) = 0 /\ DOMAIN <<>> = {}
    BY <2>1, EmptySeq, LenProperties
  <2> QED
    BY <2>1, <2>2 DEF IsSequence
<1>2. TypeOK
  <2>1. Len(Runs) \in Nat
    BY RunsAssumption, LenProperties
  <2>2. 0 \in 0..Len(Runs)
    BY <2>1
  <2> QED
    BY <1>1, <2>2 DEF TypeOK, Args, Nothing, Names
<1>3. WhereBook
  BY <1>1 DEF WhereBook
<1>4. LogBook /\ LineBook
  BY <1>1 DEF LogBook, LineBook
<1>5. FlightBook /\ CountBook /\ NoSilentLitter
  BY DEF FlightBook, CountBook, NoSilentLitter
<1>6. EndBook /\ PassIsEarned /\ GateAgreesWithLog
  BY <1>1 DEF EndBook, PassIsEarned, GateAgreesWithLog
<1> QED
  BY <1>2, <1>3, <1>4, <1>5, <1>6 DEF RunsInv

\* Nothing happens.
LEMMA Idles ==
  ASSUME RunsInv, UNCHANGED vars
  PROVE  RunsInv'
<1> USE DEF vars
<1>0. TypeOK /\ WhereBook /\ LogBook /\ LineBook /\ FlightBook /\ EndBook /\ CountBook
      /\ PassIsEarned /\ GateAgreesWithLog /\ NoSilentLitter
  BY DEF RunsInv
<1>1. /\ Written' = Written /\ Recorded' = Recorded
      /\ \A k, s : PassesOf(k, s)' = PassesOf(k, s)
      /\ (DOMAIN log \ Written)' = DOMAIN log \ Written
      /\ \A k : Finished(k)' = Finished(k)
  BY SameLog, SameEnded
<1>2. run' = run /\ Attempts' = Attempts /\ Places(invocation, queue)' = Places(invocation, queue)
  BY DEF run, Attempts, Places
<1>3. TypeOK'
  BY <1>0 DEF TypeOK, IsSequence
<1>4. WhereBook'
  BY <1>0, <1>2 DEF WhereBook
<1>5. LogBook'
  BY <1>0, <1>1, <1>2 DEF LogBook, Over, Before
<1>6. FlightBook' /\ EndBook'
  BY <1>0, <1>2 DEF FlightBook, EndBook
<1>7. CountBook'
  BY <1>0, <1>1, <1>2 DEF CountBook
<1>8. PassIsEarned' /\ GateAgreesWithLog'
  BY <1>0, <1>1 DEF PassIsEarned, GateAgreesWithLog
<1>9. NoSilentLitter'
  BY <1>0, <1>2 DEF NoSilentLitter
<1>10. LineBook'
  BY <1>0, LinesStay
<1> QED
  BY <1>3, <1>4, <1>5, <1>6, <1>7, <1>8, <1>9, <1>10 DEF RunsInv

---------------------------------------------------------------------------
(* Every spoiled line has its own half line right before it, and every half line its own
   invocation that ended in recording. *)

\* There are no more half lines than such invocations.
LEMMA TornWithin ==
  ASSUME TypeOK, LineBook
  PROVE  /\ IsFiniteSet(CutOffInRecord) /\ Cardinality(CutOffInRecord) \in Nat
         /\ Cardinality(DOMAIN log \ Written) <= Cardinality(CutOffInRecord)
<1> DEFINE T == DOMAIN log \ Written
           f == [i \in T |-> log[i].run[1]]
<1>1. IsFiniteSet(CutOffInRecord) /\ Cardinality(CutOffInRecord) \in Nat
  <2>1. Len(ended) \in Nat /\ DOMAIN ended = 1..Len(ended)
    BY OwnElements DEF TypeOK, IsSequence
  <2>2. IsFiniteSet(1..Len(ended)) /\ CutOffInRecord \in SUBSET (1..Len(ended))
    BY <2>1, FS_Interval DEF CutOffInRecord
  <2> QED
    BY <2>2, FS_Subset, FS_CardinalityType
<1>2. \A i \in T : /\ log[i].run[1] \in CutOffInRecord
                   /\ log[i].run = <<log[i].run[1], ended[log[i].run[1]].place[1],
                                      ended[log[i].run[1]].place[2]>>
  BY DEF LineBook
<1>3. \A i, j \in T : log[i].run[1] = log[j].run[1] => i = j
  <2> SUFFICES ASSUME NEW i \in T, NEW j \in T, log[i].run[1] = log[j].run[1]
               PROVE  log[i].run = log[j].run
    BY DEF LineBook
  <2> QED
    BY <1>2
<1>4. f \in Injection(T, CutOffInRecord)
  BY <1>2, <1>3 DEF Injection, IsInjective
<1> HIDE DEF f, T
<1> QED
  BY <1>1, <1>4, FS_Injection DEF T

\* The lines whose predecessor is half written are no more than the half lines.
LEMMA SpoiledCount ==
  ASSUME TypeOK
  PROVE  Cardinality(Spoiled) \in Nat /\ Cardinality(Spoiled) <= Cardinality(DOMAIN log \ Written)
<1> DEFINE T == DOMAIN log \ Written
           J == {j \in T : j + 1 \in Written}
           f == [j \in J |-> log[j + 1].run]
<1>1. IsFiniteSet(T) /\ Cardinality(T) \in Nat
  BY TornCount
<1>2. IsFiniteSet(J) /\ Cardinality(J) <= Cardinality(T)
  BY <1>1, FS_Subset
<1>3. log \in Seq(Lines)
  BY DEF TypeOK
<1>4. DOMAIN log = 1..Len(log) /\ Len(log) \in Nat
  BY <1>3, LenProperties
<1>5. f \in Surjection(J, Spoiled)
  <2>1. ASSUME NEW j \in J PROVE log[j + 1].run \in Spoiled
    <3>1. j \in Nat /\ j # 0 /\ j \notin Written /\ j + 1 \in Written
      BY <1>4
    <3>2. j + 1 # 1 /\ (j + 1) - 1 = j
      BY <3>1
    <3> QED
      BY <3>1, <3>2 DEF Spoiled
  <2>2. ASSUME NEW r \in Spoiled PROVE \E j \in J : f[j] = r
    <3>1. PICK i \in Written \ {1} : i - 1 \notin Written /\ r = log[i].run
      BY DEF Spoiled
    <3>2. i \in 1..Len(log)
      BY <1>4 DEF Written
    <3>3. i - 1 \in 1..Len(log) /\ (i - 1) + 1 = i
      BY <1>4, <3>1, <3>2
    <3>4. i - 1 \in J
      BY <1>4, <3>1, <3>3
    <3> QED
      BY <3>1, <3>3, <3>4
  <2>3. f \in [J -> Spoiled]
    BY <2>1
  <2> QED
    BY <2>2, <2>3 DEF Surjection
<1> HIDE DEF f, J
<1>6. Cardinality(Spoiled) <= Cardinality(J) /\ IsFiniteSet(Spoiled)
  BY <1>2, <1>5, FS_Surjection
<1>7. Cardinality(Spoiled) \in Nat /\ Cardinality(J) \in Nat
  BY <1>2, <1>6, FS_CardinalityType
<1> HIDE DEF T
<1> QED
  BY <1>1, <1>2, <1>6, <1>7 DEF T

\* No more invocations have ended than there are.
LEMMA EndedWithin ==
  ASSUME TypeOK, WhereBook
  PROVE  DOMAIN ended \subseteq DOMAIN Runs
<1>1. invocation \in 0..Len(Runs) /\ IsSequence(ended)
  BY DEF TypeOK
<1>2. Len(ended) = invocation \/ Len(ended) = invocation - 1
  BY DEF WhereBook
<1>3. Len(Runs) \in Nat /\ DOMAIN Runs = 1..Len(Runs) /\ DOMAIN ended = 1..Len(ended)
  <2>1. Len(Runs) \in Nat /\ DOMAIN Runs = 1..Len(Runs)
    BY RunsAssumption, LenProperties
  <2>2. DOMAIN ended = 1..Len(ended)
    BY <1>1, OwnElements DEF IsSequence
  <2> QED
    BY <2>1, <2>2
<1>4. Len(ended) \in Int /\ Len(ended) <= Len(Runs)
  <2>1. invocation \in Int /\ Len(Runs) \in Nat /\ invocation <= Len(Runs)
    BY <1>1, <1>3
  <2> QED
    BY <1>2, <2>1
<1> QED
  BY <1>3, <1>4

\* An invocation that ended counting the last run of its queue has recorded all of it.
LEMMA RanEverything ==
  ASSUME RunsInv, NEW k \in DOMAIN ended, IsSequence(ended[k].queue),
         ended[k].place = <<Len(ended[k].queue), Runs[k]>>, ended[k].at = "count",
         NEW p \in Places(k, ended[k].queue)
  PROVE  <<k, p[1], p[2]>> \in Recorded
<1> DEFINE q == ended[k].queue
<1>1. ended[k].place = <<Len(q), Runs[k]>> /\ ended[k].at = "count" /\ IsSequence(q)
  OBVIOUS
<1>2. Len(q) \in Nat /\ Runs[k] \in Nat
  <2>1. k \in DOMAIN Runs
    BY EndedWithin DEF RunsInv
  <2> QED
    BY <1>1, <2>1, RunsAssumption, LenProperties DEF IsSequence
<1>3. Before(p, ended[k].place) \/ p = ended[k].place
  <2> HIDE DEF q
  <2>1. PICK a \in 1..Len(q), b \in 1..Runs[k] : p = <<a, b>>
    BY DEF Places, q
  <2>2. (a < Len(q) \/ a = Len(q)) /\ (b < Runs[k] \/ b = Runs[k])
    BY <1>2
  <2> QED
    BY <1>1, <2>1, <2>2 DEF Before
<1>4. <<k, p[1], p[2]>> \in Finished(k)
  BY <1>1, <1>3 DEF Finished
<1> QED
  BY <1>4 DEF RunsInv, LogBook

---------------------------------------------------------------------------
\* The books of run_evals.py are kept: where each invocation stands, which runs have a
\* line, what the run in flight may be recorded as, and the counters behind the exit status.
THEOREM BooksHold == Spec => []RunsInv
<1>1. Init => RunsInv
  BY Starts
<1>2. RunsInv /\ [Next]_vars => RunsInv'
  <2> SUFFICES ASSUME RunsInv, [Next]_vars PROVE RunsInv'
    OBVIOUS
  <2>1. ASSUME NEW network \in BOOLEAN, NEW keep \in BOOLEAN, NEW under \in Unders,
               Invoke(network, keep, under)
        PROVE  RunsInv'
    BY <2>1, InvokeKeeps
  <2>11. CASE MakeDirectoryFails \/ RecordFails
    BY <2>11, FailsKeeps
  <2>2. CASE MakeDirectory
    BY <2>2, MakeDirectoryKeeps
  <2>3. CASE Seed \/ SeedRefuses \/ PluginMissing \/ SessionEnds \/ SessionFails \/ GradeRefusal \/ GradeBuild
               \/ Raises \/ Interrupt
    BY <2>3, InsideKeeps
  <2>4. CASE Keep \/ Discard \/ DiscardFails
    BY <2>4, CleanUpKeeps, LeavingKeeps
  <2>5. CASE Record
    BY <2>5, RecordKeeps
  <2>6. CASE NextAttempt
    BY <2>6, NextAttemptKeeps
  <2>7. CASE NextScenario
    BY <2>7, NextScenarioKeeps
  <2>8. CASE Finish
    BY <2>8, FinishKeeps
  <2>9. CASE Kill
    BY <2>9, KillKeeps
  <2>10. CASE UNCHANGED vars
    BY <2>10, Idles
  <2> QED
    BY <2>1, <2>2, <2>3, <2>4, <2>5, <2>6, <2>7, <2>8, <2>9, <2>10, <2>11 DEF Next
<1> QED
  BY <1>1, <1>2, PTL DEF Spec

\* run_evals.py, one_run: a run recorded as passed ended by itself, left what its scenario
\* asks for, and was cleaned up.
THEOREM PassesAreEarned == Spec => []PassIsEarned
<1>1. RunsInv => PassIsEarned
  BY DEF RunsInv
<1> QED
  BY <1>1, BooksHold, PTL

\* run_evals.py, cmd_run: the exit status of --fail-under is the one the log asks for.
THEOREM GateHolds == Spec => []GateAgreesWithLog
<1>1. RunsInv => GateAgreesWithLog
  BY DEF RunsInv
<1> QED
  BY <1>1, BooksHold, PTL

\* run_evals.py, the `finally` of one_run: no directory stays on disk unreported.
THEOREM LitterIsReported == Spec => []NoSilentLitter
<1>1. RunsInv => NoSilentLitter
  BY DEF RunsInv
<1> QED
  BY <1>1, BooksHold, PTL

\* run_evals.py, one_run and record: no exception leaves a run between its mkdtemp and its
\* record, and an invocation that exits by itself has one line for everything it selected.
THEOREM BrokenRunsAreResults == Spec => []BrokenRunsAreRecorded
<1>1. RunsInv => BrokenRunsAreRecorded
  <2> SUFFICES ASSUME RunsInv, NEW k \in DOMAIN ended
               PROVE  /\ ended[k].how = "exception" => ended[k].at \in {"mkdtemp", "record"}
                      /\ ended[k].how \in {"exit 0", "exit 1"} =>
                           \A p \in Places(k, ended[k].queue) : OneLine(<<k, p[1], p[2]>>)
    BY DEF BrokenRunsAreRecorded
  <2>0. EndBook /\ LogBook /\ LineBook
    BY DEF RunsInv
  <2>1. ended[k].how = "exception" => ended[k].at \in {"mkdtemp", "record"}
    BY <2>0 DEF EndBook
  <2>2. ASSUME ended[k].how \in {"exit 0", "exit 1"}, NEW p \in Places(k, ended[k].queue)
        PROVE  OneLine(<<k, p[1], p[2]>>)
    <3> DEFINE name == <<k, p[1], p[2]>>
    <3>0. /\ IsSequence(ended[k].queue) /\ ended[k].at = "count"
          /\ ended[k].place = <<Len(ended[k].queue), Runs[k]>>
      BY <2>0, <2>2, Zenon DEF EndBook
    <3>1. name \in Recorded
      BY <2>2, <3>0, RanEverything
    <3> HIDE DEF name
    <3>2. PICK i \in Written : log[i].run = name
      BY <3>1 DEF Recorded
    <3>3. i \in DOMAIN log /\ \A j \in DOMAIN log : log[j].run = name => j = i
      BY <2>0, <3>2 DEF LineBook, Written
    <3>4. OneLine(name)
      BY <3>2, <3>3 DEF OneLine
    <3> QED
      BY <3>4 DEF name
  <2> QED
    BY <2>1, <2>2
<1> QED
  BY <1>1, BooksHold, PTL

\* run_evals.py, record: what ends an invocation costs the run in flight and, where it ended
\* inside record, at most the line after a half written one; every other finished run stays
\* in the log, whatever is appended to it.
THEOREM KillsCostLittle == Spec => []KillCostsTheNextAtMost
<1>1. RunsInv => KillCostsTheNextAtMost
  <2> SUFFICES ASSUME RunsInv PROVE KillCostsTheNextAtMost
    OBVIOUS
  <2>0. TypeOK /\ LogBook /\ LineBook
    BY DEF RunsInv
  <2>1. Recorded \subseteq OnDisk \cup Spoiled
    <3> SUFFICES ASSUME NEW i \in Written
                 PROVE  i \in Readable \/ (i # 1 /\ i - 1 \notin Written)
      BY DEF Recorded, OnDisk, Spoiled
    <3>1. CASE i > 1 /\ i - 1 \notin Written
      BY <3>1
    <3>2. CASE ~ (i > 1 /\ i - 1 \notin Written)
      BY <3>2 DEF Readable
    <3> QED
      BY <3>1, <3>2
  <2>2. FinishedIsKept(OnDisk \cup Spoiled)
    BY <2>0, <2>1 DEF FinishedIsKept, LogBook
  <2>3. Cardinality(Spoiled) <= Cardinality(CutOffInRecord)
    <3>1. Cardinality(Spoiled) \in Nat /\ Cardinality(Spoiled) <= Cardinality(DOMAIN log \ Written)
      BY <2>0, SpoiledCount
    <3>2. /\ Cardinality(CutOffInRecord) \in Nat
          /\ Cardinality(DOMAIN log \ Written) <= Cardinality(CutOffInRecord)
      BY <2>0, TornWithin
    <3>3. Cardinality(DOMAIN log \ Written) \in Nat
      BY <2>0, TornCount
    <3> QED
      BY <3>1, <3>2, <3>3
  <2> QED
    BY <2>2, <2>3 DEF KillCostsTheNextAtMost
<1> QED
  BY <1>1, BooksHold, PTL
=============================================================================
