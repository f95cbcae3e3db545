---------------------------- MODULE SchemaPublish ----------------------------
(***************************************************************************)
(* schemas-publish.yml: every push to main that touches schemas/ asks for  *)
(* a run that uploads its tree to the bucket, pinned versions only once,   *)
(* pointers always, the stamp last.  One run at a time holds the           *)
(* concurrency group, waiting for a reviewer included; one more waits, and *)
(* a newer one takes its place.                                            *)
(*                                                                         *)
(* A tree is the version each resource is released at, the content of the  *)
(* hand-authored pinned file, and the stamp, which names its release:      *)
(* SchemaRelease shows that releases only add versions and never change    *)
(* one.  A directory of schemas/ is a number, its place in the C sort.     *)
(***************************************************************************)
EXTENDS Naturals, FiniteSets

CONSTANTS
    Directories,    \* schemas/<name>/, numbered as LC_ALL=C sorts them
    Hand,           \* data-sync-run-response, which no release owns
    MaxVersion,     \* releases of one resource
    MaxPushes,      \* pushes to main that touch schemas/
    MaxFailures,    \* runs that fail or are rejected
    MaxReruns,      \* failed runs started again from the commit they ran at
    None            \* no object, no run

ASSUME PublishBounds ==
    /\ Directories \subseteq Nat /\ Hand \in Directories
    /\ {MaxVersion, MaxPushes, MaxFailures, MaxReruns} \subseteq Nat /\ MaxVersion > 0

VARIABLES
    main,       \* the tree at the head of main
    bucket,     \* the published objects
    run,        \* the run that holds the concurrency group
    pending,    \* the tree of the run that waits for it
    failed,     \* the trees of the runs that ended without their stamp
    lastFailed, \* the last run ended without its stamp
    pushes, failures, reruns

vars == <<main, bucket, run, pending, failed, lastFailed, pushes, failures, reruns>>

Resources == Directories \ {Hand}

-----------------------------------------------------------------------------
(* Objects: <<directory, rank, version>>, ranked as their names sort *)

Pinned(d, v) == <<d, 0, v>>
Index(d) == <<d, 1, 0>>
Latest(d) == <<d, 2, 0>>
Stamp == <<>>

IsPinned(key) == key # Stamp /\ key[2] = 0

Keys ==
    {Pinned(d, v) : d \in Directories, v \in 1 .. MaxVersion}
        \cup {Index(d) : d \in Resources} \cup {Latest(d) : d \in Resources} \cup {Stamp}

\* the files find prints: all of the tree but the stamp
Files(t) ==
    (UNION {{Pinned(d, v) : v \in 1 .. t.version[d]} : d \in Resources})
        \cup {Index(d) : d \in Resources} \cup {Latest(d) : d \in Resources}
        \cup {Pinned(Hand, 1)}

Content(t, key) ==
    IF key = Stamp
    THEN t.stamp
    ELSE CASE key = Pinned(Hand, 1) -> t.hand
           [] key[2] = 1 -> 1 .. t.version[key[1]]
           [] key[2] = 2 -> t.version[key[1]]
           [] OTHER -> key[3]

\* latest.json sorted before the pinned versions it may point at
SortsBefore_PointersFirst(k, l) ==
    \/ k[1] < l[1]
    \/ k[1] = l[1] /\ (k[2] > l[2] \/ (k[2] = l[2] /\ k[3] < l[3]))

SortsBefore(k, l) ==
    \/ k[1] < l[1]
    \/ k[1] = l[1] /\ (k[2] < l[2] \/ (k[2] = l[2] /\ k[3] < l[3]))

First(keys) == CHOOSE k \in keys : \A l \in keys \ {k} : SortsBefore(k, l)

-----------------------------------------------------------------------------

Init ==
    /\ main = [version |-> [d \in Resources |-> 1], hand |-> 1, stamp |-> 1]
    /\ bucket = [key \in Keys |-> None]
    /\ run = None
    /\ pending = main
    /\ failed = {}
    /\ lastFailed = FALSE
    /\ pushes = 0 /\ failures = 0 /\ reruns = 0

-----------------------------------------------------------------------------
(* Pushes *)

\* a concurrency group that keeps the run already waiting
Push_KeepsPending(t) ==
    /\ pushes < MaxPushes
    /\ pushes' = pushes + 1
    /\ main' = t
    /\ pending' = IF pending = None THEN t ELSE pending
    /\ UNCHANGED <<bucket, run, failed, lastFailed, failures, reruns>>

Push(t) ==
    /\ pushes < MaxPushes
    /\ pushes' = pushes + 1
    /\ main' = t
    /\ pending' = t
    /\ UNCHANGED <<bucket, run, failed, lastFailed, failures, reruns>>

\* a release pull request is merged
PushRelease ==
    \E released \in (SUBSET Resources) \ {{}} :
        /\ \A d \in released : main.version[d] < MaxVersion
        /\ Push([main EXCEPT
                    !.version = [d \in Resources |->
                        IF d \in released THEN main.version[d] + 1 ELSE main.version[d]],
                    !.stamp = @ + 1])

\* the hand-authored file edited in place, or put back
PushHandEdit == \E content \in {1, 2} \ {main.hand} : Push([main EXCEPT !.hand = content])

-----------------------------------------------------------------------------
(* Runs *)

Start ==
    /\ run = None
    /\ pending # None
    /\ run' = [tree |-> pending, stage |-> "waiting", todo |-> {}, mirror |-> {}]
    /\ pending' = None
    /\ UNCHANGED <<main, bucket, failed, lastFailed, pushes, failures, reruns>>

Approve ==
    /\ run # None
    /\ run.stage = "waiting"
    /\ run' = [run EXCEPT !.stage = "approved"]
    /\ UNCHANGED <<main, bucket, pending, failed, lastFailed, pushes, failures, reruns>>

\* a failed sync read as an empty bucket
Sync_IgnoresFailure ==
    /\ run # None
    /\ run.stage = "approved"
    /\ \E mirror \in {{}, {key \in Keys : bucket[key] # None}} :
        run' = [run EXCEPT !.stage = "uploading", !.todo = Files(run.tree), !.mirror = mirror]
    /\ UNCHANGED <<main, bucket, pending, failed, lastFailed, pushes, failures, reruns>>

\* the names the sync left in the mirror; their contents are compared below
Sync ==
    /\ run # None
    /\ run.stage = "approved"
    /\ run' = [run EXCEPT !.stage = "uploading", !.todo = Files(run.tree),
                          !.mirror = {key \in Keys : bucket[key] # None}]
    /\ UNCHANGED <<main, bucket, pending, failed, lastFailed, pushes, failures, reruns>>

Uploading == run # None /\ run.stage = "uploading"

Put(key) == bucket' = [bucket EXCEPT ![key] = Content(run.tree, key)]

\* The next file is a pinned one already up, and the same.
Skip ==
    /\ Uploading /\ run.todo # {}
    /\ LET key == First(run.todo)
       IN  /\ IsPinned(key) /\ key \in run.mirror
           /\ bucket[key] = Content(run.tree, key)
           /\ run' = [run EXCEPT !.todo = @ \ {key}]
    /\ UNCHANGED <<main, bucket, pending, failed, lastFailed, pushes, failures, reruns>>

Upload ==
    /\ Uploading /\ run.todo # {}
    /\ LET key == First(run.todo)
       IN  /\ ~(IsPinned(key) /\ key \in run.mirror)
           /\ Put(key)
           /\ run' = [run EXCEPT !.todo = @ \ {key}]
    /\ UNCHANGED <<main, pending, failed, lastFailed, pushes, failures, reruns>>

\* the stamp in its place among the sorted files
UploadStamp_Sorted ==
    /\ Uploading /\ (\A key \in run.todo : key[1] # 1)
    /\ Put(Stamp)
    /\ run' = IF run.todo = {} THEN None ELSE run
    /\ lastFailed' = FALSE
    /\ UNCHANGED <<main, pending, failed, pushes, failures, reruns>>

UploadStamp ==
    /\ Uploading /\ run.todo = {}
    /\ Put(Stamp)
    /\ run' = None
    /\ lastFailed' = FALSE
    /\ UNCHANGED <<main, pending, failed, pushes, failures, reruns>>

Stops ==
    /\ run' = None
    /\ failed' = failed \cup {run.tree}
    /\ lastFailed' = TRUE
    /\ UNCHANGED <<main, bucket, pending, pushes, reruns>>

\* the next file is a pinned one that is up and differs: exit 1
Diverges ==
    /\ Uploading /\ run.todo # {}
    /\ LET key == First(run.todo)
       IN  IsPinned(key) /\ key \in run.mirror /\ bucket[key] # Content(run.tree, key)
    /\ UNCHANGED failures
    /\ Stops

\* rejected, or any step fails: set -e ends the run where it stands
Fail ==
    /\ run # None
    /\ failures < MaxFailures
    /\ failures' = failures + 1
    /\ Stops

\* dispatched on the commit that failed
Dispatch_SameCommit ==
    /\ lastFailed
    /\ run = None /\ pending = None
    /\ \E t \in failed : pending' = t
    /\ UNCHANGED <<main, bucket, run, failed, lastFailed, pushes, failures, reruns>>

\* workflow_dispatch on main
Dispatch ==
    /\ lastFailed
    /\ run = None /\ pending = None
    /\ pending' = main
    /\ UNCHANGED <<main, bucket, run, failed, lastFailed, pushes, failures, reruns>>

\* the failed run itself, which checks out the commit it first ran at
Rerun ==
    /\ reruns < MaxReruns
    /\ reruns' = reruns + 1
    /\ \E t \in failed : pending' = t
    /\ UNCHANGED <<main, bucket, run, failed, lastFailed, pushes, failures>>

Next ==
    \/ PushRelease \/ PushHandEdit
    \/ Start \/ Approve \/ Sync \/ Skip \/ Upload \/ UploadStamp
    \/ Diverges \/ Fail \/ Dispatch \/ Rerun

Spec == Init /\ [][Next]_vars

\* Reviewers answer, runs proceed, and a failed run is dispatched again.
Fairness ==
    /\ WF_vars(Start) /\ WF_vars(Approve) /\ WF_vars(Sync)
    /\ WF_vars(Skip) /\ WF_vars(Upload) /\ WF_vars(UploadStamp)
    /\ WF_vars(Diverges) /\ WF_vars(Dispatch)

FairSpec == Spec /\ Fairness

-----------------------------------------------------------------------------
(* Properties *)

(***************************************************************************)
(* The shape of the state.                                                 *)
(***************************************************************************)
Trees == [version : [Resources -> 1 .. MaxVersion], hand : {1, 2}, stamp : 1 .. MaxPushes + 1]

Runs == [tree : Trees, stage : {"waiting", "approved", "uploading"},
         todo : SUBSET (Keys \ {Stamp}), mirror : SUBSET Keys]

\* None is no tree, no run and nothing an object holds.
ASSUME NoneAssumption ==
    /\ None \notin Nat \cup Trees \cup Runs
    /\ \A n \in 1 .. MaxVersion : None # 1 .. n

TypeOK ==
    /\ main \in Trees /\ main.stamp <= pushes + 1 /\ pushes <= MaxPushes
    /\ bucket = [key \in Keys |-> bucket[key]]
    /\ \A key \in Keys : bucket[key] # None => bucket[key] \in {Content(t, key) : t \in Trees}
    /\ run \in Runs \cup {None}
    /\ pending \in Trees \cup {None}
    /\ failed \subseteq Trees
    /\ lastFailed \in BOOLEAN
    /\ {pushes, failures, reruns} \subseteq Nat

(***************************************************************************)
(* "Pinned versions are immutable: uploaded once, never overwritten",      *)
(* whatever fails, is dispatched again or is edited in place.              *)
(***************************************************************************)
PinnedImmutable ==
    [][\A key \in Keys :
            IsPinned(key) /\ bucket[key] # None => bucket'[key] = bucket[key]]_vars

(***************************************************************************)
(* "A mid-run failure never leaves a pointer at content that isn't up":    *)
(* whatever a published latest.json or index.json names is published.      *)
(***************************************************************************)
NoDanglingPointer ==
    \A d \in Resources :
        /\ bucket[Latest(d)] # None => bucket[Pinned(d, bucket[Latest(d)])] # None
        /\ bucket[Index(d)] # None =>
                \A v \in bucket[Index(d)] : bucket[Pinned(d, v)] # None

(***************************************************************************)
(* check_contracts_version_pin.py: a publish that failed, died mid-tree or *)
(* never ran leaves a stale stamp.  So with the stamp of main published    *)
(* and no upload under way, every resource's pointers are those of main.   *)
(***************************************************************************)
StampMeansCurrent ==
    ~Uploading /\ bucket[Stamp] = main.stamp =>
        \A d \in Resources : \A key \in {Latest(d), Index(d)} :
            bucket[key] = Content(main, key)

(***************************************************************************)
(* That holds as long as recovery is the dispatch on main the workflow's   *)
(* comment prescribes, and no failed run is started again from its own     *)
(* commit.                                                                 *)
(***************************************************************************)
Prescribed == reruns = 0

StampMeansCurrentAsPrescribed == Prescribed => StampMeansCurrent

(***************************************************************************)
(* Then, too, runs that queue, are replaced or fail publish in the order   *)
(* of main: a pointer never goes back to an older version.                 *)
(***************************************************************************)
PointersNeverGoBack ==
    [][Prescribed => \A d \in Resources :
            bucket[Latest(d)] # None => bucket'[Latest(d)] >= bucket[Latest(d)]]_vars

(***************************************************************************)
(* And a replaced or failed run loses nothing: when the hand-authored file *)
(* stays as it was published, all of main is published in the end.         *)
(***************************************************************************)
PublishCatchesUp ==
    []Prescribed /\ <>[](bucket[Pinned(Hand, 1)] \in {None, main.hand}) =>
        <>[](\A key \in Files(main) \cup {Stamp} : bucket[key] = Content(main, key))

-----------------------------------------------------------------------------
(* The inductive invariant behind them. *)

\* What a run has passed is up as its tree has it, and a pinned file it has still to
\* pass that is up was up when it looked.
UploadBook ==
    Uploading =>
        /\ run.todo \subseteq Files(run.tree)
        /\ \A key \in Files(run.tree) \ run.todo : bucket[key] = Content(run.tree, key)
        /\ \A key \in run.todo : IsPinned(key) /\ bucket[key] # None => key \in run.mirror

\* t was main before u was, or is u but for the hand-authored file; only a release
\* moves the stamp.
Older(t, u) ==
    /\ t.stamp <= u.stamp
    /\ \A d \in Resources : t.version[d] <= u.version[d]
    /\ t.stamp = u.stamp => t.version = u.version

\* No pointer and no stamp is newer than t.
NotNewerThan(t) ==
    /\ \A d \in Resources : bucket[Latest(d)] # None => bucket[Latest(d)] <= t.version[d]
    /\ bucket[Stamp] # None => bucket[Stamp] <= t.stamp

\* While nothing is re-run, what waits is main, what runs was main, and what is up is
\* no newer than either.
OrderBook ==
    Prescribed =>
        /\ pending # None => pending = main
        /\ NotNewerThan(main)
        /\ run # None => Older(run.tree, main) /\ NotNewerThan(run.tree)
        /\ bucket[Stamp] = main.stamp =>
              \A d \in Resources : \A key \in {Latest(d), Index(d)} :
                  bucket[key] = Content(main, key)

PublishInv == TypeOK /\ NoDanglingPointer /\ UploadBook /\ OrderBook
=============================================================================
