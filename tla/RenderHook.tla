------------------------------ MODULE RenderHook ------------------------------
(***************************************************************************)
(* scripts/render_all.py and the two hooks that run it: .githooks/         *)
(* pre-commit, before a commit, and scripts/render_hook.py, after an edit  *)
(* in a session.  Both write to one working tree, a generator at a time;   *)
(* the pre-commit hook then grades a copy of the index, which the author   *)
(* may still add to: git locks it for no longer than an add takes, and     *)
(* reads it again when the hook has passed.                                *)
(*                                                                         *)
(* A tree gives each part a value.  A source's value is a version; a       *)
(* derived part's value is what it was rendered from, so that it is fresh  *)
(* when that is what its inputs are now.  A part that only a person may    *)
(* restamp (the census) holds the version it was affirmed for.             *)
(***************************************************************************)
EXTENDS Naturals, Sequences, FiniteSets

CONSTANTS
  Versions,             \* of a source; 0 is the one the repository starts with
  MaxEdits, MaxCommits  \* bounds

ASSUME VersionsAssumption == 0 \in Versions /\ Versions \subseteq Nat

VARIABLES
  wt, index, head,   \* the three trees
  writing,           \* who is running `write` -> the generator it is at; 0 for nobody
  disturbed,         \* the writers during whose run a source was edited
  settled,           \* the writers whose last run succeeded, no source edited since it began
  commit,            \* where the pre-commit hook is
  snapshot,          \* the copy of the index it grades
  seen,              \* the index as it last read it
  edits, commits

vars == <<wt, index, head, writing, disturbed, settled, commit, snapshot, seen, edits, commits>>

Writers == {"session", "commit"}

(* Parts by the file that holds them: a document mixes prose and generated blocks. *)
PartsOf(file) == IF file = "document" THEN {"prose", "blocks", "contents"} ELSE {file}

Files == {"records", "models", "registry", "reference", "census", "document", "other"}

Parts == UNION {PartsOf(f) : f \in Files}

Sources == {"records", "models", "prose", "other"}

(* A record is a version and the directory it sits in; only those in rules/ are compiled. *)
Record(version, dir) == [version |-> version, dir |-> dir]

Compiled(tree)   == IF tree["records"].dir = "rules" THEN <<tree["records"].version>> ELSE <<>>
Referenced(tree) == <<tree["registry"], tree["models"]>>
Blocked(tree)    == <<tree["models"]>>
Contents(tree)   == <<tree["prose"], tree["blocks"]>>

(* The validators the records name exist in the models: version n of a record names a
   symbol that version n of the models brings. *)
Resolves(tree) == tree["records"].dir = "rules" => tree["records"].version <= tree["models"]

---------------------------------------------------------------------------
(* render_all.py.  Each generator names what it writes ("" for one that is only ever
   checked), the value it renders, and whether it succeeds. *)

Generator(part, Value(_), Succeeds(_), tree) ==
  [part |-> part, value |-> Value(tree), ok |-> Succeeds(tree)]

Always(tree)   == TRUE
Affirmed(tree) == tree["census"] = tree["models"]
NoValue(tree)  == <<>>

(* A mutant: the Contents sections are rendered before the blocks. *)
Pipeline_ContentsFirst(tree) ==
  << Generator("registry", Compiled, Resolves, tree),
     Generator("reference", Referenced, Always, tree),
     Generator("contents", Contents, Always, tree),
     Generator("blocks", Blocked, Always, tree),
     Generator("", NoValue, Affirmed, tree) >>

Pipeline(tree) ==
  << Generator("registry", Compiled, Resolves, tree),     \* render_rules.py
     Generator("reference", Referenced, Always, tree),    \* render_rule_reference.py
     Generator("blocks", Blocked, Always, tree),          \* gen_pipeline_docs.py, render_validator_claims.py
     Generator("", NoValue, Affirmed, tree),              \* render_prose_census.py check
     Generator("contents", Contents, Always, tree) >>     \* render_reference_toc.py

Length == 5

Passes(g, tree) == g.ok /\ (g.part # "" => tree[g.part] = g.value)

(* `check`: every generator, none stops the others. *)
Fresh(tree) == \A i \in 1..Length : Passes(Pipeline(tree)[i], tree)

Written(tree, g) == IF g.part = "" THEN tree ELSE [tree EXCEPT ![g.part] = g.value]

StartingTree ==
  [p \in Parts |->
     CASE p = "records"   -> Record(0, "rules")
       [] p = "registry"  -> <<0>>
       [] p = "reference" -> <<<<0>>, 0>>
       [] p = "blocks"    -> <<0>>
       [] p = "contents"  -> <<0, <<0>>>>
       [] OTHER           -> 0]

Init ==
  /\ wt = StartingTree /\ index = StartingTree /\ head = StartingTree
  /\ writing = [w \in Writers |-> 0]
  /\ disturbed = {} /\ settled = {}
  /\ commit = "none" /\ snapshot = StartingTree /\ seen = StartingTree
  /\ edits = 0 /\ commits = 0

Write(w) ==
  /\ writing[w] # 0
  /\ LET g == Pipeline(wt)[writing[w]]
     IN  IF g.ok
         THEN /\ wt' = Written(wt, g)
              /\ writing' = [writing EXCEPT ![w] = IF @ = Length THEN 0 ELSE @ + 1]
              /\ settled' = IF writing[w] = Length /\ w \notin disturbed THEN settled \cup {w} ELSE settled
         ELSE /\ writing' = [writing EXCEPT ![w] = 0]
              /\ UNCHANGED <<wt, settled>>
  /\ commit' = IF w # "commit" \/ writing'[w] # 0 THEN commit
               ELSE IF Pipeline(wt)[writing[w]].ok THEN "written" ELSE "none"
  /\ UNCHANGED <<index, head, disturbed, snapshot, seen, edits, commits>>

(* What starting a run of `write` does to the bookkeeping. *)
Starts(w) ==
  /\ writing' = [writing EXCEPT ![w] = 1]
  /\ disturbed' = disturbed \ {w}
  /\ settled' = settled \ {w}

---------------------------------------------------------------------------
(* The author.  An edit made in a session runs the session's hook, unless it is outside
   SOURCE_PREFIXES; the session waits for it.  An edit made elsewhere runs nothing. *)

Feeds(file) == file # "other"

FileOf(part) == CHOOSE f \in Files : part \in PartsOf(f)

Edit(part, value) ==
  /\ edits < MaxEdits
  /\ edits' = edits + 1
  /\ wt' = [wt EXCEPT ![part] = value]

EditInSession(part, value) ==
  /\ writing["session"] = 0
  /\ Edit(part, value)
  /\ writing' = IF Feeds(FileOf(part)) THEN [writing EXCEPT !["session"] = 1] ELSE writing
  /\ disturbed' = (disturbed \ {"session"}) \cup {w \in Writers : writing[w] # 0}
  /\ settled' = {}
  /\ UNCHANGED <<index, head, commit, snapshot, seen, commits>>

EditElsewhere(part, value) ==
  /\ Edit(part, value)
  /\ disturbed' = {w \in Writers : writing[w] # 0}
  /\ settled' = {}
  /\ UNCHANGED <<index, head, writing, commit, snapshot, seen, commits>>

(* What an edit may make of a part. *)
Values(part) ==
  CASE part = "records" -> {Record(v, d) : v \in Versions, d \in {"rules", "elsewhere"}}
    [] part \in {"models", "prose", "other", "census"} -> Versions
    [] OTHER -> {<<>>}   \* a derived part edited by hand

Edits == \E part \in Parts : \E value \in Values(part) \ {wt[part]} :
           EditInSession(part, value) \/ EditElsewhere(part, value)

(* git add, while a commit runs or not. *)
Add(file) ==
  /\ \E p \in PartsOf(file) : index[p] # wt[p]
  /\ index' = [p \in Parts |-> IF p \in PartsOf(file) THEN wt[p] ELSE index[p]]
  /\ UNCHANGED <<wt, head, writing, disturbed, settled, commit, snapshot, seen, edits, commits>>

---------------------------------------------------------------------------
(* The pre-commit hook *)

(* git diff --cached --name-only: a record that moved is named by where it is now. *)
Changed(tree) == {f \in Files : \E p \in PartsOf(f) : tree[p] # head[p]}
Staged(tree)  ==
  {IF f = "records" /\ tree["records"].dir # "rules" THEN "other" ELSE f : f \in Changed(tree)}

StartCommit ==
  /\ commit = "none" /\ commits < MaxCommits
  /\ Staged(index) # {}
  /\ commits' = commits + 1
  /\ seen' = index
  /\ IF \E f \in Staged(index) : Feeds(f)
     THEN commit' = "writing" /\ Starts("commit")
     ELSE commit' = "accepted" /\ UNCHANGED <<writing, disturbed, settled>>
  /\ UNCHANGED <<wt, index, head, snapshot, edits>>

(* A mutant: the working tree is graded, not the index. *)
CheckoutIndex_WorkingTree ==
  /\ commit = "written"
  /\ snapshot' = wt /\ seen' = index
  /\ commit' = "checking"
  /\ UNCHANGED <<wt, index, head, writing, disturbed, settled, edits, commits>>

CheckoutIndex ==
  /\ commit = "written"
  /\ snapshot' = index /\ seen' = index
  /\ commit' = "checking"
  /\ UNCHANGED <<wt, index, head, writing, disturbed, settled, edits, commits>>

Check ==
  /\ commit = "checking"
  /\ commit' = IF Fresh(snapshot) THEN "accepted" ELSE "none"
  /\ UNCHANGED <<wt, index, head, writing, disturbed, settled, snapshot, seen, edits, commits>>

(* git reads the index again and writes the commit from it. *)
Accept ==
  /\ commit = "accepted"
  /\ head' = index
  /\ commit' = "none"
  /\ UNCHANGED <<wt, index, writing, disturbed, settled, snapshot, seen, edits, commits>>

(* git commit --no-verify *)
Bypass ==
  /\ commit = "none" /\ commits < MaxCommits
  /\ Staged(index) # {}
  /\ commits' = commits + 1
  /\ head' = index
  /\ UNCHANGED <<wt, index, writing, disturbed, settled, commit, snapshot, seen, edits>>

Next ==
  \/ Edits
  \/ \E f \in Files : Add(f)
  \/ \E w \in Writers : Write(w)
  \/ StartCommit \/ CheckoutIndex \/ Check \/ Accept \/ Bypass

Spec == Init /\ [][Next]_vars

---------------------------------------------------------------------------
TypeOK ==
  /\ \A t \in {wt, index, head, snapshot, seen} :
       /\ DOMAIN t = Parts
       /\ t["records"].version \in Versions
       /\ \A p \in {"models", "prose", "other", "census"} : t[p] \in Versions
  /\ \A w \in Writers : writing[w] \in 0..Length
  /\ (writing["commit"] # 0) = (commit = "writing")
  /\ commit \in {"none", "writing", "written", "checking", "accepted"}

(* A record moved out of rules/ with nothing staged that the hook takes for a generator's
   input: its old name, which it was compiled under, is not among the staged ones. *)
MovedOutUnseen(tree) ==
  /\ head["records"].dir = "rules" /\ tree["records"].dir # "rules"
  /\ \A f \in Staged(tree) : ~ Feeds(f)

(* "Keep every commit render-consistent": a commit the hook lets through leaves a
   consistent history consistent, whatever was staged of what, and whatever is edited,
   rendered or staged while the hook runs.  Two commits alone escape it: of a record
   moved out unseen, and of what a `git add` staged after the hook's last look at the
   index. *)
HookKeepsFresh ==
  [][Accept /\ Fresh(head) /\ index = seen /\ ~ MovedOutUnseen(index) => Fresh(head')]_vars

(* Every generator runs after those whose output it reads: a run of `write` that
   succeeded, two of them interleaved included, leaves a working tree that `check` passes
   until a source is edited. *)
WriteSettles ==
  (settled # {} /\ \A w \in Writers : writing[w] = 0) => Fresh(wt)

---------------------------------------------------------------------------
(* The inductive invariant behind them. *)

(* A tree an author and the generators can make. *)
IsTree(tree) ==
  /\ tree = [p \in Parts |-> tree[p]]
  /\ tree["records"].version \in Versions
  /\ \A p \in {"models", "prose", "other", "census"} : tree[p] \in Versions

(* What a run of `write` has rendered passes, unless a source was edited under it. *)
RunsBook ==
  /\ \A w \in Writers \ disturbed : \A i \in 1..Length :
       i < writing[w] => Passes(Pipeline(wt)[i], wt)
  /\ settled # {} => Fresh(wt)

(* What a commit is waiting for, and what it accepts of the index it last read. *)
CommitBook ==
  /\ (writing["commit"] # 0) = (commit = "writing")
  /\ commit = "checking" => snapshot = seen
  /\ commit = "accepted" /\ Fresh(head) /\ ~ MovedOutUnseen(seen) => Fresh(seen)

HookInv ==
  /\ \A t \in {wt, index, head, snapshot, seen} : IsTree(t)
  /\ writing \in [Writers -> 0..Length]
  /\ commit \in {"none", "writing", "written", "checking", "accepted"}
  /\ RunsBook
  /\ CommitBook
=============================================================================
