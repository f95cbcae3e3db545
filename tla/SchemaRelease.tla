---------------------------- MODULE SchemaRelease ----------------------------
(***************************************************************************)
(* The repository side of a schema release: scripts/render_schemas.py      *)
(* (release, check, release-guard), the two guards tests.yml runs on a     *)
(* pull request, and schema-release.yml, which keeps one release pull      *)
(* request open with what `release` writes.                                *)
(*                                                                         *)
(* A tree is the committed files, a function of their paths; a pull        *)
(* request is the tree it branched from and its head; merging is git's,    *)
(* file by file.  Nothing makes a pull request be checked again when main  *)
(* moves, so a merge may land on a main its checks never saw.              *)
(***************************************************************************)
EXTENDS Naturals, FiniteSets

CONSTANTS
    Resources,      \* the registry RESOURCES
    Contents,       \* what a resource's models may render
    Packages,       \* versions the contract package may declare
    Versions,       \* a finite set of versions <<major, minor>>
    Prs,            \* slots of ordinary pull requests open at once
    None,           \* no file, no pull request
    MaxOpened,      \* ordinary pull requests opened in a behaviour
    MaxRunning,     \* release runs in progress at once
    MaxFailures     \* release runs whose model call fails

ASSUME BoundsAssumption == {MaxOpened, MaxRunning, MaxFailures} \subseteq Nat
ASSUME PackagesAssumption == Packages # {}

VARIABLES
    main,           \* the tree at the head of main
    prs,            \* the ordinary pull requests
    release,        \* the pull request of the branch schema-release
    running,        \* the trees the release runs in progress checked out
    due,            \* main was pushed, or a run dispatched, and no run started
    newest,         \* the tree the last run to begin checked out (main, before the first)
    overtaken,      \* history: the last run to end had been overtaken by one begun after it
    opened, failures

vars == <<main, prs, release, running, due, newest, overtaken, opened, failures>>

-----------------------------------------------------------------------------
(* Paths and trees *)

First == <<1, 0>>

Bumps == {"minor", "major"}

Bumped(v, bump) == IF bump = "major" THEN <<v[1] + 1, 0>> ELSE <<v[1], v[2] + 1>>

AtMost(v, w) == v[1] < w[1] \/ (v[1] = w[1] /\ v[2] <= w[2])

ASSUME VersionsAssumption == First \in Versions /\ Versions \subseteq Nat \X Nat

\* None is no file
ASSUME NoneAssumption ==
    /\ None \notin Contents \cup Packages \cup Bumps
    /\ \A index \in SUBSET Versions : index # None
    /\ \A latest \in [version : Versions, content : Contents] : latest # None
    /\ \A record \in [from : Versions, bump : Bumps, old : Contents, new : Contents] : record # None

Model(r) == <<"model", r>>
Pinned(r, v) == <<"pinned", r, v>>
Latest(r) == <<"latest", r>>
Index(r) == <<"index", r>>
Record(r, v) == <<"record", r, v>>
Override(r) == <<"override", r>>
Package == <<"package">>
Stamp == <<"stamp">>

\* schemas/<resource>/**
Published ==
    {Pinned(r, v) : r \in Resources, v \in Versions}
        \cup {Latest(r) : r \in Resources} \cup {Index(r) : r \in Resources}

\* release_only_paths: all but the models, the package and the overrides
ReleaseOnly == Published \cup {Record(r, v) : r \in Resources, v \in Versions} \cup {Stamp}

Paths == ReleaseOnly \cup {Model(r) : r \in Resources}
                     \cup {Override(r) : r \in Resources} \cup {Package}

Overlay(t, files) == [p \in Paths |-> IF p \in DOMAIN files THEN files[p] ELSE t[p]]

-----------------------------------------------------------------------------
(* What `check` reads *)

PinnedVersions(t, r) == {v \in Versions : t[Pinned(r, v)] # None}

Highest(vs) == CHOOSE v \in vs : \A w \in vs : AtMost(w, v)

Unreleased(t, r) ==
    /\ t[Latest(r)] = None
    /\ t[Index(r)] = None
    /\ PinnedVersions(t, r) = {}
    /\ \A v \in Versions : t[Record(r, v)] = None

RecordSound(t, r, v) ==
    LET record == t[Record(r, v)]
    IN  record # None =>
            /\ {v, record.from} \subseteq PinnedVersions(t, r)
            /\ v = Bumped(record.from, record.bump)
            /\ record.old = t[Pinned(r, record.from)]
            /\ record.new = t[Pinned(r, v)]

\* _release_problem finds none
OneRelease(t, r) ==
    /\ PinnedVersions(t, r) # {}
    /\ t[Latest(r)] # None
    /\ t[Latest(r)].version = Highest(PinnedVersions(t, r))
    /\ t[Latest(r)].content = t[Pinned(r, t[Latest(r)].version)]
    /\ t[Index(r)] = PinnedVersions(t, r)
    /\ \A v \in Versions : RecordSound(t, r, v)

\* committed_version does not raise
Consistent(t, r) == Unreleased(t, r) \/ OneRelease(t, r)

Changed(t, r) == ~Unreleased(t, r) => t[Latest(r)].content # t[Model(r)]

\* pending_release raises on no override
OverrideApplies(t, r) ==
    t[Override(r)] # None => ~Unreleased(t, r) /\ t[Latest(r)].content # t[Model(r)]

StampOf(t) == [package |-> t[Package], tree |-> [p \in Published |-> t[p]]]

\* cmd_release finds no problem
Plannable(t) == \A r \in Resources : Consistent(t, r) /\ OverrideApplies(t, r)

\* bare `check`
Check(t) == Plannable(t) /\ t[Stamp] # None

\* `check --released`
CheckReleased(t) ==
    /\ Check(t)
    /\ \A r \in Resources : ~Changed(t, r)
    /\ t[Stamp] = StampOf(t)

-----------------------------------------------------------------------------
(* `release` *)

\* asking the models where an override is committed
Decided_ModelsOnly(t, r, said) == said[r]

\* decide_record: an override, else what the models say
Decided(t, r, said) == IF t[Override(r)] # None THEN t[Override(r)] ELSE said[r]

NextVersion(t, r, said) ==
    IF Unreleased(t, r) THEN First
    ELSE Bumped(t[Latest(r)].version, Decided(t, r, said))

\* the bound on versions
InBounds(t, said) ==
    \A r \in Resources : Changed(t, r) => NextVersion(t, r, said) \in Versions

\* the bump record never written
ReleaseFiles_NoRecord(t, r, said) ==
    LET v == NextVersion(t, r, said)
    IN  [p \in {Pinned(r, v), Latest(r), Index(r), Override(r)} |->
            CASE p = Pinned(r, v) -> t[Model(r)]
              [] p = Latest(r) -> [version |-> v, content |-> t[Model(r)]]
              [] p = Index(r) -> PinnedVersions(t, r) \cup {v}
              [] OTHER -> None]

\* _publish
ReleaseFiles(t, r, said) ==
    LET v == NextVersion(t, r, said)
        recorded == IF Unreleased(t, r) THEN {} ELSE {Record(r, v)}
    IN  [p \in {Pinned(r, v), Latest(r), Index(r), Override(r)} \cup recorded |->
            CASE p = Pinned(r, v) -> t[Model(r)]
              [] p = Latest(r) -> [version |-> v, content |-> t[Model(r)]]
              [] p = Index(r) -> PinnedVersions(t, r) \cup {v}
              [] p = Override(r) -> None
              [] OTHER -> [from |-> t[Latest(r)].version, bump |-> Decided(t, r, said),
                           old |-> t[Latest(r)].content, new |-> t[Model(r)]]]

\* cmd_release, where Plannable(t)
ReleaseTree(t, said) ==
    LET changed == {r \in Resources : Changed(t, r)}
        files == [r \in changed |-> ReleaseFiles(t, r, said)]
        written == [p \in Paths |->
            IF \E r \in changed : p \in DOMAIN files[r]
            THEN files[CHOOSE r \in changed : p \in DOMAIN files[r]][p]
            ELSE t[p]]
    IN  [written EXCEPT ![Stamp] = StampOf(written)]

-----------------------------------------------------------------------------
(* Pull requests *)

Branch(base, head) == [base |-> base, head |-> head, checked |-> FALSE]

Conflict(pr) ==
    \E p \in Paths : pr.head[p] # pr.base[p] /\ main[p] \notin {pr.base[p], pr.head[p]}

\* the merge commit, which is what CI checks out
Merged(pr) == [p \in Paths |-> IF pr.head[p] = pr.base[p] THEN main[p] ELSE pr.head[p]]

ChangedPaths(pr) == {p \in Paths : Merged(pr)[p] # main[p]}

\* a guard of the records and the stamp alone
ReleaseGuard_NotSchemas(pr) == ChangedPaths(pr) \cap (ReleaseOnly \ Published) = {}

\* cmd_release_guard on the merge commit
ReleaseGuard(pr) == ChangedPaths(pr) \cap ReleaseOnly = {}

PrPasses(pr) == ReleaseGuard(pr) /\ Check(Merged(pr))

ReleasePasses(pr) == CheckReleased(Merged(pr))

-----------------------------------------------------------------------------
(* A state in which every resource is released at First, or is new *)

Committed(content, new) ==
    LET tree == [p \in Paths |->
            CASE p \in {Model(r) : r \in Resources} -> content
              [] p = Package -> CHOOSE package \in Packages : TRUE
              [] p \in {Pinned(r, First) : r \in Resources \ new} -> content
              [] p \in {Latest(r) : r \in Resources \ new} -> [version |-> First, content |-> content]
              [] p \in {Index(r) : r \in Resources \ new} -> {First}
              [] OTHER -> None]
    IN  [tree EXCEPT ![Stamp] = StampOf(tree)]

ASSUME StampAssumption ==
    \A content \in Contents, new \in SUBSET Resources : Committed(content, new)[Stamp] # None

Init ==
    /\ main \in {Committed(content, new) : content \in Contents, new \in SUBSET Resources}
    /\ prs = [i \in Prs |-> None]
    /\ release = None
    /\ running = {}
    /\ due = TRUE
    /\ newest = main
    /\ overtaken = FALSE
    /\ opened = 0
    /\ failures = 0

-----------------------------------------------------------------------------
(* Authors *)

Open(i, files) ==
    /\ prs[i] = None
    /\ opened < MaxOpened
    /\ opened' = opened + 1
    /\ Overlay(main, files) # main
    /\ prs' = [prs EXCEPT ![i] = Branch(main, Overlay(main, files))]
    /\ UNCHANGED <<main, release, running, due, newest, overtaken, failures>>

\* a change of the models, with or without an override of its bump
OpenModelChange(i) ==
    \E r \in Resources, content \in Contents, override \in Bumps \cup {None} :
        Open(i, [p \in {Model(r), Override(r)} |->
                    IF p = Model(r) THEN content ELSE override])

OpenPackageBump(i) ==
    \E package \in Packages : Open(i, [p \in {Package} |-> package])

\* release files edited by hand, pinned file and mirror together
OpenHandEdit(i) ==
    \E r \in Resources, content \in Contents :
        /\ main[Latest(r)] # None
        /\ LET v == main[Latest(r)].version
           IN  Open(i, [p \in {Pinned(r, v), Latest(r)} |->
                   IF p = Latest(r) THEN [version |-> v, content |-> content] ELSE content])

ClosePr(i) ==
    /\ prs[i] # None
    /\ prs' = [prs EXCEPT ![i] = None]
    /\ UNCHANGED <<main, release, running, due, newest, overtaken, opened, failures>>

-----------------------------------------------------------------------------
(* Checks and merges *)

CheckPr(i) ==
    /\ prs[i] # None
    /\ ~prs[i].checked
    /\ ~Conflict(prs[i])
    /\ PrPasses(prs[i])
    /\ prs' = [prs EXCEPT ![i].checked = TRUE]
    /\ UNCHANGED <<main, release, running, due, newest, overtaken, opened, failures>>

MergePr(i) ==
    /\ prs[i] # None
    /\ prs[i].checked
    /\ ~Conflict(prs[i])
    /\ main' = Merged(prs[i])
    /\ prs' = [prs EXCEPT ![i] = None]
    /\ due' = TRUE
    /\ UNCHANGED <<release, running, newest, overtaken, opened, failures>>

CheckRelease ==
    /\ release # None
    /\ ~release.checked
    /\ ~Conflict(release)
    /\ ReleasePasses(release)
    /\ release' = [release EXCEPT !.checked = TRUE]
    /\ UNCHANGED <<main, prs, running, due, newest, overtaken, opened, failures>>

\* merged by a token whose pushes start no workflow
MergeRelease_NoRun ==
    /\ release # None
    /\ release.checked
    /\ ~Conflict(release)
    /\ main' = Merged(release)
    /\ release' = None
    /\ UNCHANGED <<prs, running, due, newest, overtaken, opened, failures>>

MergeRelease ==
    /\ release # None
    /\ release.checked
    /\ ~Conflict(release)
    /\ main' = Merged(release)
    /\ release' = None
    /\ due' = TRUE
    /\ UNCHANGED <<prs, running, newest, overtaken, opened, failures>>

-----------------------------------------------------------------------------
(* schema-release.yml *)

StartRelease ==
    /\ due
    /\ Cardinality(running) < MaxRunning
    /\ due' = FALSE
    /\ running' = running \cup {main}
    /\ newest' = main
    /\ UNCHANGED <<main, prs, release, overtaken, opened, failures>>

\* nothing serialises the runs: one may end after another that began later
Ends(t) ==
    /\ running' = running \ {t}
    /\ overtaken' = (t # newest)

\* The branch is force-pushed, or, with nothing to release, closed.
FinishRelease(t) ==
    /\ Plannable(t)
    /\ \E released \in {ReleaseTree(t, said) :
                        said \in {bumps \in [Resources -> Bumps] : InBounds(t, bumps)}} :
          release' = IF released = t THEN None ELSE Branch(t, released)
    /\ Ends(t)
    /\ UNCHANGED <<main, prs, due, newest, opened, failures>>

\* problems in the committed tree: exit 2, nothing written
RefuseRelease(t) ==
    /\ ~Plannable(t)
    /\ Ends(t)
    /\ UNCHANGED <<main, prs, release, due, newest, opened, failures>>

\* no key, or a bump the models could not classify: exit 2, and dispatched again
FailRelease(t) ==
    /\ Plannable(t)
    /\ \E r \in Resources : ~Unreleased(t, r) /\ Changed(t, r)
    /\ failures < MaxFailures
    /\ failures' = failures + 1
    /\ Ends(t)
    /\ due' = TRUE
    /\ UNCHANGED <<main, prs, release, newest, opened>>

Author ==
    \E i \in Prs : OpenModelChange(i) \/ OpenPackageBump(i) \/ OpenHandEdit(i) \/ ClosePr(i)

Reviewer == CheckRelease \/ MergeRelease \/ \E i \in Prs : CheckPr(i) \/ MergePr(i)

Workflow ==
    StartRelease \/ \E t \in running : FinishRelease(t) \/ RefuseRelease(t) \/ FailRelease(t)

Next == Author \/ Reviewer \/ Workflow

Spec == Init /\ [][Next]_vars

\* Runs are scheduled and end, and someone reviews the release that is open.
Fairness ==
    /\ WF_vars(StartRelease)
    /\ WF_vars(\E t \in running : FinishRelease(t) \/ RefuseRelease(t))
    /\ WF_vars(CheckRelease)
    /\ WF_vars(MergeRelease)

FairSpec == Spec /\ Fairness

-----------------------------------------------------------------------------
(* Properties *)

(***************************************************************************)
(* The shape of the state: a tree gives every path a value of its kind, a  *)
(* pull request is two trees and whether its checks passed.                *)
(***************************************************************************)
File(p) ==
    CASE p[1] = "model" -> Contents
      [] p[1] = "pinned" -> Contents \cup {None}
      [] p[1] = "latest" -> [version : Versions, content : Contents] \cup {None}
      [] p[1] = "index" -> (SUBSET Versions) \cup {None}
      [] p[1] = "record" ->
            [from : Versions, bump : Bumps, old : Contents, new : Contents] \cup {None}
      [] p[1] = "override" -> Bumps \cup {None}
      [] OTHER -> Packages

Typed(files, ps) == files = [p \in ps |-> files[p]] /\ \A p \in ps : files[p] \in File(p)

IsStamp(s) ==
    /\ s = [package |-> s.package, tree |-> s.tree]
    /\ s.package \in Packages
    /\ Typed(s.tree, Published)

IsTree(t) ==
    /\ t = [p \in Paths |-> t[p]]
    /\ \A p \in Paths \ {Stamp} : t[p] \in File(p)
    /\ IsStamp(t[Stamp])

IsBranch(pr) ==
    /\ pr = [base |-> pr.base, head |-> pr.head, checked |-> pr.checked]
    /\ IsTree(pr.base) /\ IsTree(pr.head)
    /\ pr.checked \in BOOLEAN

TypeOK ==
    /\ IsTree(main)
    /\ prs = [i \in Prs |-> prs[i]]
    /\ \A i \in Prs : prs[i] # None => IsBranch(prs[i])
    /\ release # None => IsBranch(release)
    /\ \A t \in running : IsTree(t)
    /\ IsTree(newest)
    /\ {due, overtaken} \subseteq BOOLEAN
    /\ {opened, failures} \subseteq Nat

(***************************************************************************)
(* schemas-publish.yml never overwrites a pinned version, so main may      *)
(* never change one or take it back, whichever merges race (the bump a     *)
(* late run computed from an older main included).                         *)
(***************************************************************************)
PinnedForever ==
    [][\A r \in Resources, v \in Versions :
            main[Pinned(r, v)] # None => main'[Pinned(r, v)] = main[Pinned(r, v)]]_vars

(***************************************************************************)
(* The comment at _RESTORE_HINT: every inconsistent state of the release   *)
(* files is a partial or a hand-edited release.  Merges that race never    *)
(* make one: on main, the files of every resource are one release, and     *)
(* every version after the first has the record of its bump from the       *)
(* version before it, which `check` does not ask for.                      *)
(***************************************************************************)
EveryReleaseWhole ==
    \A r \in Resources :
        /\ Consistent(main, r)
        /\ \A v \in PinnedVersions(main, r) \ {First} :
              /\ main[Record(r, v)] # None
              /\ main[Record(r, v)].from =
                    Highest({w \in PinnedVersions(main, r) \ {v} : AtMost(w, v)})

(***************************************************************************)
(* The module docstring: "the release records it and deletes the file".    *)
(* An override a release takes from main is the bump that release made.    *)
(***************************************************************************)
OverrideHonoured ==
    [][\A r \in Resources :
            /\ main[Override(r)] # None
            /\ main'[Override(r)] = None
            /\ prs' = prs
            => main'[Record(r, main'[Latest(r)].version)].bump = main[Override(r)]]_vars

(***************************************************************************)
(* schema-release.yml: "Keeps one release PR open publishing every schema  *)
(* the models changed since its last release".  Once main passes the bare  *)
(* check for good, a release brings it to the models: no merge is left     *)
(* unreleased by a stale check, a conflict, a failed run or a run that saw *)
(* an older main.  The one exception: of two runs in progress, the one     *)
(* begun on the older main ends last, and closes or overwrites what the    *)
(* newer one opened; it stays so until main is pushed again.               *)
(***************************************************************************)
ReleasesCatchUp == <>[]Check(main) => <>[](CheckReleased(main) \/ overtaken)

-----------------------------------------------------------------------------
(* The inductive invariant behind them *)

\* the release files of a resource
FilesOf(r) ==
    {Latest(r), Index(r)} \cup {Pinned(r, v) : v \in Versions} \cup {Record(r, v) : v \in Versions}

\* one release, with the record of every version after the first
Whole(t, r) ==
    LET versions == PinnedVersions(t, r)
        last == t[Latest(r)].version
    IN  \/ Unreleased(t, r)
        \/ /\ OneRelease(t, r)
           /\ {First, last} \subseteq versions
           /\ \A v \in versions : AtMost(v, last)
           /\ \A v \in versions \ {First} :
                 /\ t[Record(r, v)] # None
                 /\ t[Record(r, v)].from = Highest({w \in versions \ {v} : AtMost(w, v)})

Sound(t) == IsTree(t) /\ \A r \in Resources : Whole(t, r)

\* What main was: its pinned files are there, and a resource whose pointer has not moved
\* has not been released.
Past(t) ==
    \A r \in Resources :
        /\ \A v \in PinnedVersions(t, r) : main[Pinned(r, v)] = t[Pinned(r, v)]
        /\ main[Latest(r)] = t[Latest(r)] => \A p \in FilesOf(r) : main[p] = t[p]

\* It leaves the release files alone, or it edits a pinned file of main and never passed.
AuthorsPr(pr) ==
    \/ \A p \in ReleaseOnly : pr.head[p] = pr.base[p]
    \/ /\ ~ pr.checked
       /\ \E r \in Resources, v \in Versions :
             /\ main[Pinned(r, v)] # None
             /\ main[Pinned(r, v)] = pr.base[Pinned(r, v)]
             /\ main[Pinned(r, v)] # pr.head[Pinned(r, v)]

ReleasePr(pr) ==
    /\ Sound(pr.base) /\ Past(pr.base) /\ Plannable(pr.base)
    /\ \E said \in [Resources -> Bumps] :
          InBounds(pr.base, said) /\ pr.head = ReleaseTree(pr.base, said)

ReleaseInv ==
    /\ TypeOK
    /\ Sound(main)
    /\ \A pr \in {prs[i] : i \in Prs} \ {None} : AuthorsPr(pr)
    /\ \A pr \in {release} \ {None} : ReleasePr(pr)
    /\ \A t \in running : Sound(t) /\ Past(t)

=============================================================================
