------------------------ MODULE SchemaPublishProofs ------------------------
(***************************************************************************)
(* Proofs about SchemaPublish, for any directories, versions and numbers   *)
(* of pushes, failures and re-runs.                                        *)
(***************************************************************************)
EXTENDS SchemaPublish, FiniteSetTheorems, TLAPS

-----------------------------------------------------------------------------
(* The order of the uploads *)

\* A nonempty set of naturals has a least element.
LEMMA LeastNat ==
    ASSUME NEW S \in SUBSET Nat, S # {}
    PROVE  \E m \in S : \A k \in S : m <= k
<1> DEFINE below == {1 .. k : k \in S}
<1>1. IsWellFoundedOn(StrictSubsetOrdering(Nat), FiniteSubsetsOf(Nat))
  BY FS_StrictSubsetOrderingWellFounded, Zenon
<1>2. below \subseteq FiniteSubsetsOf(Nat) /\ below # {}
  <2>1. \A k \in S : 1 .. k \in SUBSET Nat /\ IsFiniteSet(1 .. k)
    BY FS_Interval
  <2> QED
    BY <2>1 DEF FiniteSubsetsOf
<1>3. PICK b \in below : \A y \in below : ~(<<y, b>> \in StrictSubsetOrdering(Nat))
  BY <1>1, <1>2, WFMin, Zenon
<1>4. PICK m \in S : b = 1 .. m
  OBVIOUS
<1>5. ASSUME NEW k \in S, k < m PROVE FALSE
  <2>1. 1 .. k \in below /\ 1 .. k \in SUBSET Nat /\ 1 .. m \in SUBSET Nat
    OBVIOUS
  <2>2. 1 .. k \subseteq 1 .. m /\ m \in 1 .. m /\ m \notin 1 .. k
    BY <1>5
  <2>3. <<1 .. k, 1 .. m>> \in StrictSubsetOrdering(Nat)
    BY <2>1, <2>2 DEF StrictSubsetOrdering
  <2> QED
    BY <1>3, <1>4, <2>1, <2>3
<1> QED
  BY <1>5

\* The objects of the bucket, and what tells one from another.
LEMMA KeyShapes ==
    /\ \A d \in Directories, v \in 1 .. MaxVersion :
          Pinned(d, v) \in Keys /\ Pinned(d, v) # Stamp /\ IsPinned(Pinned(d, v))
    /\ \A d \in Resources :
          /\ Index(d) \in Keys /\ Index(d) # Stamp /\ ~IsPinned(Index(d))
          /\ Latest(d) \in Keys /\ Latest(d) # Stamp /\ ~IsPinned(Latest(d))
    /\ Stamp \in Keys /\ ~IsPinned(Stamp)
    /\ \A key \in Keys \ {Stamp} :
          /\ key = <<key[1], key[2], key[3]>>
          /\ key[1] \in Nat /\ key[2] \in Nat /\ key[3] \in Nat
BY PublishBounds DEF Keys, Pinned, Index, Latest, Stamp, IsPinned, Resources

\* First picks an upload that none of the others comes before.
LEMMA FirstIsFirst ==
    ASSUME NEW todo \in SUBSET (Keys \ {Stamp}), todo # {}
    PROVE  First(todo) \in todo /\ \A k \in todo \ {First(todo)} : SortsBefore(First(todo), k)
<1>1. \A k \in todo : /\ k = <<k[1], k[2], k[3]>>
                      /\ k[1] \in Nat /\ k[2] \in Nat /\ k[3] \in Nat
  BY KeyShapes
<1>2. PICK a \in todo : \A k \in todo : a[1] <= k[1]
  <2>1. {k[1] : k \in todo} \in SUBSET Nat /\ {k[1] : k \in todo} # {}
    BY <1>1
  <2>2. PICK m \in {k[1] : k \in todo} : \A n \in {k[1] : k \in todo} : m <= n
    BY <2>1, LeastNat, Zenon
  <2> QED
    BY <2>2
<1> DEFINE As == {k \in todo : k[1] = a[1]}
<1>3. PICK b \in As : \A k \in As : b[2] <= k[2]
  <2>1. {k[2] : k \in As} \in SUBSET Nat /\ {k[2] : k \in As} # {}
    BY <1>1
  <2>2. PICK m \in {k[2] : k \in As} : \A n \in {k[2] : k \in As} : m <= n
    BY <2>1, LeastNat, Zenon
  <2> QED
    BY <2>2
<1> DEFINE Bs == {k \in As : k[2] = b[2]}
<1>4. PICK c \in Bs : \A k \in Bs : c[3] <= k[3]
  <2>1. {k[3] : k \in Bs} \in SUBSET Nat /\ {k[3] : k \in Bs} # {}
    BY <1>1, <1>3
  <2>2. PICK m \in {k[3] : k \in Bs} : \A n \in {k[3] : k \in Bs} : m <= n
    BY <2>1, LeastNat, Zenon
  <2> QED
    BY <2>2
<1>5. ASSUME NEW k \in todo, k # c PROVE SortsBefore(c, k)
  <2>1. c \in todo /\ c[1] = a[1] /\ c[2] = b[2]
    OBVIOUS
  <2>2. a[1] <= k[1] /\ (k[1] = a[1] => b[2] <= k[2])
        /\ (k[1] = a[1] /\ k[2] = b[2] => c[3] <= k[3])
    BY <1>2, <1>3, <1>4
  <2>3. k[1] = c[1] /\ k[2] = c[2] => k[3] # c[3]
    BY <1>1, <1>5, <2>1
  <2> QED
    BY <1>1, <2>1, <2>2, <2>3 DEF SortsBefore
<1> QED
  BY <1>5 DEF First

-----------------------------------------------------------------------------
(* What trees hold *)

\* What a tree has for each object.
LEMMA Contents ==
    ASSUME NEW t \in Trees
    PROVE  /\ Content(t, Stamp) = t.stamp
           /\ \A d \in Resources :
                 /\ t.version[d] \in 1 .. MaxVersion
                 /\ Content(t, Latest(d)) = t.version[d]
                 /\ Content(t, Index(d)) = 1 .. t.version[d]
           /\ \A key \in Keys : Content(t, key) # None
<1>1. t.stamp \in Nat /\ t.hand \in Nat
  BY PublishBounds DEF Trees
<1>2. \A d \in Resources : t.version[d] \in 1 .. MaxVersion
  BY DEF Trees
<1>3. Content(t, Stamp) = t.stamp
  BY DEF Content
<1>4. ASSUME NEW d \in Resources
      PROVE  Content(t, Latest(d)) = t.version[d] /\ Content(t, Index(d)) = 1 .. t.version[d]
  BY <1>4 DEF Content, Latest, Index, Pinned, Stamp
<1>5. ASSUME NEW key \in Keys PROVE Content(t, key) # None
  <2>1. CASE key = Stamp
    BY <2>1, <1>1, <1>3, NoneAssumption
  <2>2. CASE \E d \in Resources : key = Latest(d)
    BY <2>2, <1>2, <1>4, NoneAssumption
  <2>3. CASE \E d \in Resources : key = Index(d)
    BY <2>3, <1>2, <1>4, NoneAssumption
  <2>4. CASE \E d \in Directories, v \in 1 .. MaxVersion : key = Pinned(d, v)
    <3>1. PICK d \in Directories, v \in 1 .. MaxVersion : key = Pinned(d, v)
      BY <2>4
    <3>2. Content(t, key) = t.hand \/ Content(t, key) = v
      BY <3>1 DEF Content, Pinned, Stamp
    <3> QED
      BY <3>2, <1>1, NoneAssumption
  <2> QED
    BY <2>1, <2>2, <2>3, <2>4 DEF Keys
<1> QED
  BY <1>2, <1>3, <1>4, <1>5

\* What a run uploads before the stamp: objects of the bucket, with every version of a
\* resource its tree has.
LEMMA FilesAreKeys ==
    ASSUME NEW t \in Trees
    PROVE  /\ Files(t) \subseteq Keys \ {Stamp}
           /\ \A d \in Resources :
                 /\ Latest(d) \in Files(t) /\ Index(d) \in Files(t)
                 /\ \A v \in 1 .. t.version[d] : Pinned(d, v) \in Files(t)
<1>1. \A d \in Resources : t.version[d] \in 1 .. MaxVersion
  BY DEF Trees
<1>2. \A d \in Resources : \A v \in 1 .. t.version[d] :
         v \in 1 .. MaxVersion /\ d \in Directories
  BY <1>1, PublishBounds DEF Resources
<1>3. Hand \in Directories /\ 1 \in 1 .. MaxVersion
  BY PublishBounds
<1> DEFINE versions == {{Pinned(d, v) : v \in 1 .. t.version[d]} : d \in Resources}
<1>4. \A key : key \in Files(t) <=> \/ key \in UNION versions
                                    \/ \E d \in Resources : key = Index(d) \/ key = Latest(d)
                                    \/ key = Pinned(Hand, 1)
  BY Zenon DEF Files
<1>5. \A key : key \in UNION versions
                  <=> \E d \in Resources : \E v \in 1 .. t.version[d] : key = Pinned(d, v)
  <2>1. ASSUME NEW d \in Resources, NEW v \in 1 .. t.version[d], NEW key, key = Pinned(d, v)
        PROVE  key \in UNION versions
    <3>1. key \in {Pinned(d, w) : w \in 1 .. t.version[d]}
      BY <2>1
    <3>2. {Pinned(d, w) : w \in 1 .. t.version[d]} \in versions
      BY Zenon
    <3> QED
      BY <3>1, <3>2, Zenon
  <2>2. ASSUME NEW key, key \in UNION versions
        PROVE  \E d \in Resources : \E v \in 1 .. t.version[d] : key = Pinned(d, v)
    <3>1. PICK some \in versions : key \in some
      BY <2>2, Zenon
    <3>2. PICK d \in Resources : some = {Pinned(d, v) : v \in 1 .. t.version[d]}
      BY Zenon
    <3> QED
      BY <3>1, <3>2, Zenon
  <2> QED
    BY <2>1, <2>2, Zenon
<1> HIDE DEF versions
<1>6. ASSUME NEW key \in Files(t) PROVE key \in Keys \ {Stamp}
  <2>1. CASE \E d \in Resources : \E v \in 1 .. t.version[d] : key = Pinned(d, v)
    BY <2>1, <1>2, KeyShapes
  <2>2. CASE key = Pinned(Hand, 1) \/ \E d \in Resources : key = Index(d) \/ key = Latest(d)
    BY <2>2, <1>3, KeyShapes
  <2> QED
    BY <2>1, <2>2, <1>4, <1>5
<1>7. ASSUME NEW d \in Resources
      PROVE  /\ Latest(d) \in Files(t) /\ Index(d) \in Files(t)
             /\ \A v \in 1 .. t.version[d] : Pinned(d, v) \in Files(t)
  BY <1>4, <1>5, Zenon
<1> QED
  BY <1>6, <1>7

\* An upload replaces one object and leaves the others.
LEMMA PutStep ==
    ASSUME TypeOK, NEW key \in Keys, run \in Runs, Put(key)
    PROVE  /\ bucket' = [k \in Keys |-> bucket'[k]]
           /\ bucket'[key] = Content(run.tree, key)
           /\ \A k \in Keys \ {key} : bucket'[k] = bucket[k]
           /\ \A k \in Keys : bucket[k] # None => bucket'[k] # None
           /\ \A k \in Keys :
                 bucket'[k] # None => bucket'[k] \in {Content(t, k) : t \in Trees}
<1>1. run.tree \in Trees
  BY DEF Runs
<1>2. bucket' = [bucket EXCEPT ![key] = Content(run.tree, key)]
  BY DEF Put
<1>3. bucket' = [k \in Keys |-> IF k = key THEN Content(run.tree, key) ELSE bucket[k]]
  BY <1>2 DEF TypeOK
<1>4. Content(run.tree, key) # None
  BY <1>1, Contents
<1> QED
  BY <1>1, <1>3, <1>4 DEF TypeOK

\* What the published pointers and the published stamp are.
LEMMA Published ==
    ASSUME TypeOK
    PROVE  /\ \A d \in Resources :
                 /\ bucket[Latest(d)] # None => bucket[Latest(d)] \in 1 .. MaxVersion
                 /\ bucket[Index(d)] # None =>
                       bucket[Index(d)] \in {1 .. n : n \in 1 .. MaxVersion}
           /\ bucket[Stamp] # None => bucket[Stamp] \in Nat
<1>1. \A key \in Keys : bucket[key] # None => \E t \in Trees : bucket[key] = Content(t, key)
  BY DEF TypeOK
<1>2. \A t \in Trees : t.stamp \in Nat
  BY PublishBounds DEF Trees
<1>3. bucket[Stamp] # None => bucket[Stamp] \in Nat
  BY <1>1, <1>2, KeyShapes, Contents
<1>4. ASSUME NEW d \in Resources
      PROVE  /\ bucket[Latest(d)] # None => bucket[Latest(d)] \in 1 .. MaxVersion
             /\ bucket[Index(d)] # None =>
                   bucket[Index(d)] \in {1 .. n : n \in 1 .. MaxVersion}
  BY <1>1, KeyShapes, Contents
<1> QED
  BY <1>3, <1>4

-----------------------------------------------------------------------------
(* The invariant *)

\* An empty bucket, and the release every directory starts at.
LEMMA Starts == Init => PublishInv
<1> SUFFICES ASSUME Init PROVE PublishInv
  OBVIOUS
<1>1. main \in Trees /\ main.stamp = 1
  BY PublishBounds DEF Init, Trees
<1>2. run = None /\ ~Uploading
  BY DEF Init, Uploading
<1>3. \A key \in Keys : bucket[key] = None
  BY DEF Init
<1>4. TypeOK
  <2>1. pushes = 0 /\ failures = 0 /\ reruns = 0 /\ pending = main /\ failed = {}
        /\ lastFailed \in BOOLEAN /\ bucket = [key \in Keys |-> None]
    BY DEF Init
  <2>2. bucket = [key \in Keys |-> bucket[key]]
    BY <2>1
  <2>3. main.stamp <= pushes + 1 /\ pushes <= MaxPushes
    BY <1>1, <2>1, PublishBounds
  <2> QED
    BY <1>1, <1>2, <1>3, <2>1, <2>2, <2>3 DEF TypeOK
<1>5. NoDanglingPointer
  BY <1>3, KeyShapes DEF NoDanglingPointer
<1>6. UploadBook
  BY <1>2 DEF UploadBook
<1>7. OrderBook
  BY <1>1, <1>2, <1>3, KeyShapes, NoneAssumption, PublishBounds DEF Init, OrderBook, NotNewerThan, Trees
<1> QED
  BY <1>4, <1>5, <1>6, <1>7 DEF PublishInv

\* A push that only adds versions, or only edits the hand-authored file.
LEMMA PushKeeps ==
    ASSUME PublishInv, NEW t \in Trees, Push(t),
           \A d \in Resources : main.version[d] <= t.version[d],
           \/ t.stamp = main.stamp + 1
           \/ t.stamp = main.stamp /\ t.version = main.version
    PROVE  PublishInv'
<1> USE DEF Push
<1>1. main \in Trees /\ main.stamp \in Nat /\ t.stamp \in Nat /\ pushes \in Nat
  BY PublishBounds DEF PublishInv, TypeOK, Trees
<1>2. TypeOK'
  BY <1>1, PublishBounds DEF PublishInv, TypeOK
<1>3. NoDanglingPointer'
  BY DEF PublishInv, NoDanglingPointer
<1>4. UploadBook'
  BY DEF PublishInv, UploadBook, Uploading
<1>5. OrderBook'
  <2> SUFFICES ASSUME Prescribed PROVE OrderBook'
    BY DEF OrderBook, Prescribed
  <2>1. NotNewerThan(main) /\ (run # None => Older(run.tree, main) /\ NotNewerThan(run.tree))
    BY DEF PublishInv, OrderBook
  <2>2. \A d \in Resources : main.version[d] \in Nat /\ t.version[d] \in Nat
    BY <1>1, Contents
  <2>3. \A d \in Resources : bucket[Latest(d)] # None => bucket[Latest(d)] \in Nat
    BY Published DEF PublishInv
  <2>4. bucket[Stamp] # None => bucket[Stamp] \in Nat
    BY Published DEF PublishInv
  <2>5. NotNewerThan(t)
    BY <1>1, <2>1, <2>2, <2>3, <2>4 DEF NotNewerThan
  <2>6. run # None => Older(run.tree, t)
    <3> SUFFICES ASSUME run # None PROVE Older(run.tree, t)
      OBVIOUS
    <3>1. run.tree \in Trees /\ run.tree.stamp \in Nat
      BY PublishBounds DEF PublishInv, TypeOK, Runs, Trees
    <3>2. \A d \in Resources : run.tree.version[d] \in Nat
      BY <3>1, Contents
    <3> QED
      BY <1>1, <2>1, <2>2, <3>1, <3>2 DEF Older
  <2>7. bucket[Stamp] = t.stamp =>
           \A d \in Resources : \A key \in {Latest(d), Index(d)} : bucket[key] = Content(t, key)
    <3> SUFFICES ASSUME bucket[Stamp] = t.stamp
                 PROVE  \A d \in Resources :
                           \A key \in {Latest(d), Index(d)} : bucket[key] = Content(t, key)
      OBVIOUS
    <3>1. bucket[Stamp] # None
      BY <1>1, NoneAssumption
    <3>2. t.stamp = main.stamp /\ t.version = main.version
      BY <1>1, <2>1, <3>1 DEF NotNewerThan
    <3> QED
      BY <1>1, <3>2, Contents DEF PublishInv, OrderBook
  <2> QED
    BY <2>1, <2>5, <2>6, <2>7 DEF OrderBook, NotNewerThan
<1> QED
  BY <1>2, <1>3, <1>4, <1>5 DEF PublishInv

\* A release adds versions to what is released, an edit leaves them all.
LEMMA PushesKeep == PublishInv /\ (PushRelease \/ PushHandEdit) => PublishInv'
<1> SUFFICES ASSUME PublishInv, PushRelease \/ PushHandEdit PROVE PublishInv'
  OBVIOUS
<1>1. main \in Trees /\ main.stamp <= pushes + 1 /\ pushes \in Nat /\ MaxPushes \in Nat
  BY PublishBounds DEF PublishInv, TypeOK
<1>2. CASE PushRelease
  <2>1. PICK released \in (SUBSET Resources) \ {{}} :
           /\ \A d \in released : main.version[d] < MaxVersion
           /\ Push([main EXCEPT
                       !.version = [d \in Resources |->
                           IF d \in released THEN main.version[d] + 1 ELSE main.version[d]],
                       !.stamp = @ + 1])
    BY <1>2 DEF PushRelease
  <2> DEFINE next == [d \in Resources |->
                        IF d \in released THEN main.version[d] + 1 ELSE main.version[d]]
             t == [main EXCEPT !.version = next, !.stamp = @ + 1]
  <2>2. \A d \in Resources : main.version[d] \in 1 .. MaxVersion
    BY <1>1 DEF Trees
  <2>3. next \in [Resources -> 1 .. MaxVersion]
    BY <2>1, <2>2, PublishBounds
  <2>4. pushes < MaxPushes
    BY <2>1 DEF Push
  <2>5. main.stamp \in 1 .. MaxPushes + 1 /\ main.stamp + 1 \in 1 .. MaxPushes + 1
    BY <1>1, <2>4 DEF Trees
  <2>6. t \in Trees /\ t.version = next /\ t.stamp = main.stamp + 1
    <3> HIDE DEF next
    <3> QED
      BY <1>1, <2>3, <2>5 DEF Trees
  <2>7. \A d \in Resources : main.version[d] <= t.version[d]
    BY <2>2, <2>6
  <2>8. Push(t)
    BY <2>1
  <2> HIDE DEF t
  <2> QED
    BY <2>6, <2>7, <2>8, PushKeeps
<1>3. CASE PushHandEdit
  <2>1. PICK content \in {1, 2} \ {main.hand} : Push([main EXCEPT !.hand = content])
    BY <1>3 DEF PushHandEdit
  <2> DEFINE t == [main EXCEPT !.hand = content]
  <2>2. t \in Trees /\ t.version = main.version /\ t.stamp = main.stamp
    BY <1>1 DEF Trees
  <2>3. \A d \in Resources : main.version[d] <= t.version[d]
    BY <1>1, <2>2, Contents
  <2>4. Push(t)
    BY <2>1
  <2> HIDE DEF t
  <2> QED
    BY <2>2, <2>3, <2>4, PushKeeps
<1> QED
  BY <1>2, <1>3

\* A step that starts, holds, ends or queues a run and uploads nothing.
LEMMA QuietKeeps ==
    ASSUME PublishInv,
           UNCHANGED <<main, bucket, pushes>>,
           run' \in Runs \cup {None}, UploadBook',
           pending' \in Trees \cup {None}, failed' \subseteq Trees, lastFailed' \in BOOLEAN,
           {failures', reruns'} \subseteq Nat,
           Prescribed' => /\ Prescribed
                          /\ pending' \in {pending, main, None}
                          /\ run' # None => (run'.tree = run.tree /\ run # None) \/ run'.tree = pending
    PROVE  PublishInv'
<1>1. main \in Trees /\ TypeOK
  BY DEF PublishInv, TypeOK
<1>2. TypeOK'
  BY <1>1 DEF TypeOK
<1>3. NoDanglingPointer'
  BY DEF PublishInv, NoDanglingPointer
<1>4. OrderBook'
  <2> SUFFICES ASSUME Prescribed' PROVE OrderBook'
    BY DEF OrderBook, Prescribed
  <2>1. /\ pending # None => pending = main
        /\ NotNewerThan(main)
        /\ run # None => Older(run.tree, main) /\ NotNewerThan(run.tree)
    BY DEF PublishInv, OrderBook
  <2>2. Older(main, main)
    <3>1. main.stamp \in Nat /\ \A d \in Resources : main.version[d] \in Nat
      BY <1>1, Contents, PublishBounds DEF Trees
    <3> QED
      BY <3>1 DEF Older
  <2>3. run' # None => Older(run'.tree, main) /\ NotNewerThan(run'.tree)
    <3> SUFFICES ASSUME run' # None PROVE Older(run'.tree, main) /\ NotNewerThan(run'.tree)
      OBVIOUS
    <3>1. CASE run'.tree = run.tree /\ run # None
      BY <3>1, <2>1
    <3>2. CASE run'.tree = pending
      <4>1. pending # None
        BY <3>2, NoneAssumption DEF Runs
      <4> QED
        BY <3>2, <4>1, <2>1, <2>2
    <3> QED
      BY <3>1, <3>2
  <2>4. pending' # None => pending' = main'
    BY <2>1
  <2>5. bucket[Stamp] = main.stamp =>
           \A d \in Resources : \A key \in {Latest(d), Index(d)} : bucket[key] = Content(main, key)
    BY DEF PublishInv, OrderBook
  <2> QED
    BY <2>1, <2>3, <2>4, <2>5 DEF OrderBook, NotNewerThan
<1> QED
  BY <1>2, <1>3, <1>4 DEF PublishInv

\* Everything a run does short of uploading, and everything done to it.
LEMMA QuietSteps ==
    PublishInv /\ (Start \/ Approve \/ Sync \/ Skip \/ Diverges \/ Fail \/ Dispatch \/ Rerun)
        => PublishInv'
<1> SUFFICES ASSUME PublishInv PROVE (Start \/ Approve \/ Sync \/ Skip \/ Diverges \/ Fail
                                         \/ Dispatch \/ Rerun) => PublishInv'
  OBVIOUS
<1>1. /\ main \in Trees /\ run \in Runs \cup {None} /\ pending \in Trees \cup {None}
      /\ failed \subseteq Trees /\ lastFailed \in BOOLEAN /\ {failures, reruns} \subseteq Nat
  BY DEF PublishInv, TypeOK
<1>2. ASSUME Start PROVE PublishInv'
  <2>1. run' = [tree |-> pending, stage |-> "waiting", todo |-> {}, mirror |-> {}] /\ run' \in Runs
    BY <1>1, <1>2 DEF Start, Runs
  <2>2. UploadBook'
    BY <2>1 DEF UploadBook, Uploading
  <2> QED
    BY <1>1, <1>2, <2>1, <2>2, QuietKeeps DEF Start, Prescribed
<1>3. ASSUME Approve PROVE PublishInv'
  <2>1. run' \in Runs /\ run'.stage = "approved" /\ run'.tree = run.tree /\ run # None
    BY <1>1, <1>3 DEF Approve, Runs
  <2>2. UploadBook'
    BY <2>1 DEF UploadBook, Uploading
  <2> QED
    BY <1>1, <1>3, <2>1, <2>2, QuietKeeps DEF Approve, Prescribed
<1>4. ASSUME Sync PROVE PublishInv'
  <2>1. run # None /\ run \in Runs /\ run.tree \in Trees
    BY <1>1, <1>4 DEF Sync, Runs
  <2>2. Files(run.tree) \subseteq Keys \ {Stamp}
    BY <2>1, FilesAreKeys
  <2>3. /\ run' \in Runs /\ run'.tree = run.tree /\ run'.todo = Files(run.tree)
        /\ run'.mirror = {key \in Keys : bucket[key] # None}
    BY <1>4, <2>1, <2>2 DEF Sync, Runs
  <2>4. UploadBook'
    BY <1>4, <2>2, <2>3 DEF UploadBook, Sync
  <2> QED
    BY <1>1, <1>4, <2>1, <2>3, <2>4, QuietKeeps DEF Sync, Prescribed
<1>5. ASSUME Skip PROVE PublishInv'
  <2>1. run # None /\ run \in Runs /\ run.todo \in SUBSET (Keys \ {Stamp}) /\ run.todo # {}
    BY <1>1, <1>5 DEF Skip, Uploading, Runs
  <2> DEFINE key == First(run.todo)
  <2>2. /\ key \in run.todo /\ bucket[key] = Content(run.tree, key)
        /\ run' = [run EXCEPT !.todo = @ \ {key}]
    BY <1>5, <2>1, FirstIsFirst DEF Skip
  <2> HIDE DEF key
  <2>3. /\ run' \in Runs /\ run'.tree = run.tree /\ run'.todo = run.todo \ {key}
        /\ run'.mirror = run.mirror
    BY <2>1, <2>2 DEF Runs
  <2>4. UploadBook'
    BY <1>5, <2>2, <2>3 DEF UploadBook, PublishInv, Skip
  <2> QED
    BY <1>1, <1>5, <2>1, <2>3, <2>4, QuietKeeps DEF Skip, Prescribed
<1>6. ASSUME Diverges \/ Fail PROVE PublishInv'
  <2>1. run # None /\ run.tree \in Trees /\ run' = None
    BY <1>1, <1>6 DEF Diverges, Fail, Stops, Uploading, Runs
  <2>2. UploadBook'
    BY <2>1 DEF UploadBook, Uploading
  <2>3. failures' \in Nat
    BY <1>1, <1>6 DEF Diverges, Fail
  <2> QED
    BY <1>1, <1>6, <2>1, <2>2, <2>3, QuietKeeps DEF Diverges, Fail, Stops, Prescribed
<1>7. ASSUME Dispatch PROVE PublishInv'
  <2>1. UploadBook'
    BY <1>7 DEF Dispatch, UploadBook, PublishInv, Uploading
  <2> QED
    BY <1>1, <1>7, <2>1, QuietKeeps DEF Dispatch, Prescribed
<1>8. ASSUME Rerun PROVE PublishInv'
  <2>1. UploadBook'
    BY <1>8 DEF Rerun, UploadBook, PublishInv, Uploading
  <2>2. reruns' # 0 /\ reruns' \in Nat
    BY <1>1, <1>8 DEF Rerun
  <2> QED
    BY <1>1, <1>8, <2>1, <2>2, QuietKeeps DEF Rerun, Prescribed
<1> QED
  BY <1>2, <1>3, <1>4, <1>5, <1>6, <1>7, <1>8

\* An upload takes the first file that is left; a pointer comes after every version it
\* names, and a pinned file only when none was up.
LEMMA UploadInOrder ==
    ASSUME PublishInv, Upload
    PROVE  \E key \in run.todo :
             /\ run \in Runs /\ run.tree \in Trees /\ key \in Keys \ {Stamp}
             /\ Put(key)
             /\ run' \in Runs /\ run'.tree = run.tree /\ run'.todo = run.todo \ {key}
             /\ run'.mirror = run.mirror
             /\ IsPinned(key) => bucket[key] = None
             /\ \A d \in Resources : key \in {Latest(d), Index(d)} =>
                   \A v \in 1 .. run.tree.version[d] : bucket[Pinned(d, v)] # None
<1>1. run # None /\ run \in Runs /\ run.todo \in SUBSET (Keys \ {Stamp}) /\ run.todo # {}
      /\ run.tree \in Trees
  BY DEF PublishInv, TypeOK, Upload, Uploading, Runs
<1> DEFINE key == First(run.todo)
<1>2. /\ key \in run.todo /\ \A k \in run.todo \ {key} : SortsBefore(key, k)
      /\ ~(IsPinned(key) /\ key \in run.mirror)
      /\ Put(key) /\ run' = [run EXCEPT !.todo = @ \ {key}]
  BY <1>1, FirstIsFirst DEF Upload
<1> HIDE DEF key
<1>3. /\ run' \in Runs /\ run'.tree = run.tree /\ run'.todo = run.todo \ {key}
      /\ run'.mirror = run.mirror
  BY <1>1, <1>2 DEF Runs
<1>4. IsPinned(key) => bucket[key] = None
  BY <1>2 DEF PublishInv, UploadBook, Upload
<1>5. ASSUME NEW d \in Resources, key \in {Latest(d), Index(d)},
             NEW v \in 1 .. run.tree.version[d]
      PROVE  bucket[Pinned(d, v)] # None
  <2>1. Pinned(d, v) \in Files(run.tree) /\ Pinned(d, v) \in Keys
    BY <1>1, FilesAreKeys
  <2>2. ~SortsBefore(key, Pinned(d, v)) /\ key # Pinned(d, v)
    BY <1>5, PublishBounds DEF SortsBefore, Pinned, Latest, Index, Resources
  <2>3. Pinned(d, v) \notin run.todo
    BY <1>2, <2>2
  <2>4. bucket[Pinned(d, v)] = Content(run.tree, Pinned(d, v))
    BY <2>1, <2>3 DEF PublishInv, UploadBook, Upload
  <2> QED
    BY <1>1, <2>1, <2>4, Contents
<1> QED
  BY <1>1, <1>2, <1>3, <1>4, <1>5

\* The next file goes up: a pinned version, or a pointer whose versions are all up.
LEMMA UploadKeeps == PublishInv /\ Upload => PublishInv'
<1> SUFFICES ASSUME PublishInv, Upload PROVE PublishInv'
  OBVIOUS
<1>1. PICK key \in run.todo :
         /\ run \in Runs /\ run.tree \in Trees /\ key \in Keys \ {Stamp}
         /\ Put(key)
         /\ run' \in Runs /\ run'.tree = run.tree /\ run'.todo = run.todo \ {key}
         /\ run'.mirror = run.mirror
         /\ IsPinned(key) => bucket[key] = None
         /\ \A d \in Resources : key \in {Latest(d), Index(d)} =>
               \A v \in 1 .. run.tree.version[d] : bucket[Pinned(d, v)] # None
  BY UploadInOrder
<1>2. TypeOK /\ run # None /\ UNCHANGED <<main, pending, failed, lastFailed, pushes, failures, reruns>>
  BY DEF PublishInv, Upload, Uploading
<1>3. /\ bucket' = [k \in Keys |-> bucket'[k]]
      /\ bucket'[key] = Content(run.tree, key)
      /\ \A k \in Keys \ {key} : bucket'[k] = bucket[k]
      /\ \A k \in Keys : bucket[k] # None => bucket'[k] # None
      /\ \A k \in Keys : bucket'[k] # None => bucket'[k] \in {Content(t, k) : t \in Trees}
  BY <1>1, <1>2, PutStep
<1>4. TypeOK'
  BY <1>1, <1>2, <1>3 DEF TypeOK
<1>5. NoDanglingPointer'
  <2>1. ASSUME NEW d \in Resources, bucket'[Latest(d)] # None
        PROVE  bucket'[Pinned(d, bucket'[Latest(d)])] # None
    <3>1. bucket'[Latest(d)] \in 1 .. MaxVersion /\ d \in Directories
      <4>1. CASE key = Latest(d)
        BY <1>1, <1>3, <4>1, Contents DEF Resources
      <4>2. CASE key # Latest(d)
        BY <1>2, <1>3, <2>1, <4>2, Published, KeyShapes DEF Resources
      <4> QED
        BY <4>1, <4>2
    <3>2. Pinned(d, bucket'[Latest(d)]) \in Keys
      BY <3>1, KeyShapes
    <3>3. CASE key = Latest(d)
      <4>1. bucket'[Latest(d)] = run.tree.version[d] /\ run.tree.version[d] \in 1 .. MaxVersion
        BY <1>1, <1>3, <3>3, Contents
      <4> QED
        BY <1>1, <1>3, <3>2, <3>3, <4>1
    <3>4. CASE key # Latest(d)
      BY <1>3, <2>1, <3>2, <3>4, KeyShapes DEF PublishInv, NoDanglingPointer
    <3> QED
      BY <3>3, <3>4
  <2>2. ASSUME NEW d \in Resources, bucket'[Index(d)] # None, NEW v \in bucket'[Index(d)]
        PROVE  bucket'[Pinned(d, v)] # None
    <3>1. CASE key = Index(d)
      <4>1. bucket'[Index(d)] = 1 .. run.tree.version[d] /\ run.tree.version[d] \in 1 .. MaxVersion
        BY <1>1, <1>3, <3>1, Contents
      <4>2. v \in 1 .. run.tree.version[d] /\ v \in 1 .. MaxVersion /\ d \in Directories
        BY <2>2, <4>1, PublishBounds DEF Resources
      <4> QED
        BY <1>1, <1>3, <3>1, <4>2, KeyShapes
    <3>2. CASE key # Index(d)
      <4>1. bucket[Index(d)] = bucket'[Index(d)]
        BY <1>3, <3>2, KeyShapes
      <4>2. v \in 1 .. MaxVersion /\ d \in Directories
        BY <1>2, <2>2, <4>1, Published, PublishBounds DEF Resources
      <4> QED
        BY <1>3, <2>2, <4>1, <4>2, KeyShapes DEF PublishInv, NoDanglingPointer
    <3> QED
      BY <3>1, <3>2
  <2> QED
    BY <2>1, <2>2 DEF NoDanglingPointer
<1>6. UploadBook'
  <2>1. Uploading /\ Files(run.tree) \subseteq Keys \ {Stamp}
    BY <1>1, FilesAreKeys DEF Upload
  <2>2. run.todo \subseteq Files(run.tree)
    BY <2>1 DEF PublishInv, UploadBook
  <2>3. \A k \in Files(run.tree) \ run.todo : bucket[k] = Content(run.tree, k)
    BY <2>1 DEF PublishInv, UploadBook
  <2>4. \A k \in run.todo : IsPinned(k) /\ bucket[k] # None => k \in run.mirror
    BY <2>1 DEF PublishInv, UploadBook
  <2>5. \A k \in Files(run'.tree) \ run'.todo : bucket'[k] = Content(run'.tree, k)
    BY <1>1, <1>3, <2>1, <2>3
  <2>6. \A k \in run'.todo : IsPinned(k) /\ bucket'[k] # None => k \in run'.mirror
    BY <1>1, <1>3, <2>1, <2>2, <2>4
  <2> QED
    BY <1>1, <2>2, <2>5, <2>6 DEF UploadBook
<1>7. OrderBook'
  <2> SUFFICES ASSUME Prescribed PROVE OrderBook'
    BY <1>2 DEF OrderBook, Prescribed
  <2>1. /\ pending # None => pending = main
        /\ NotNewerThan(main)
        /\ Older(run.tree, main) /\ NotNewerThan(run.tree)
    BY <1>2 DEF PublishInv, OrderBook
  <2>2. bucket'[Stamp] = bucket[Stamp] /\ main \in Trees /\ main.stamp \in Nat /\ run.tree.stamp \in Nat
    BY <1>1, <1>2, <1>3, KeyShapes, PublishBounds DEF TypeOK, Trees
  <2>3. ASSUME NEW d \in Resources, bucket'[Latest(d)] # None
        PROVE  bucket'[Latest(d)] <= run.tree.version[d] /\ bucket'[Latest(d)] <= main.version[d]
    <3>1. run.tree.version[d] \in Nat /\ run.tree.version[d] <= main.version[d]
      BY <1>1, <2>1, Contents DEF Older
    <3>2. CASE key = Latest(d)
      BY <1>1, <1>3, <3>1, <3>2, Contents
    <3>3. CASE key # Latest(d)
      BY <1>3, <2>1, <2>3, <3>3, KeyShapes DEF NotNewerThan
    <3> QED
      BY <3>2, <3>3
  <2>4. NotNewerThan(main)' /\ NotNewerThan(run.tree)'
    BY <1>1, <1>2, <2>1, <2>2, <2>3 DEF NotNewerThan
  <2>5. ASSUME bucket[Stamp] = main.stamp,
               NEW d \in Resources, NEW k \in {Latest(d), Index(d)}
        PROVE  bucket'[k] = Content(main, k)
    <3>1. bucket[k] = Content(main, k)
      BY <2>1, <2>5 DEF PublishInv, OrderBook
    <3>2. bucket[Stamp] # None
      BY <2>2, <2>5, NoneAssumption
    <3>3. run.tree.stamp = main.stamp
      BY <2>1, <2>2, <2>5, <3>2 DEF NotNewerThan, Older
    <3>4. run.tree.version = main.version
      BY <2>1, <3>3 DEF Older
    <3>5. Content(run.tree, k) = Content(main, k)
      BY <1>1, <2>2, <3>4, Contents
    <3> QED
      <4>1. k \in Keys
        BY KeyShapes
      <4>2. k = key => bucket'[k] = Content(run.tree, k)
        BY <1>3
      <4> QED
        BY <1>3, <3>1, <3>5, <4>1, <4>2
  <2> QED
    BY <1>1, <1>2, <2>1, <2>2, <2>4, <2>5 DEF OrderBook
<1> QED
  BY <1>4, <1>5, <1>6, <1>7 DEF PublishInv

\* The stamp goes up when everything else of its tree is.
LEMMA StampKeeps == PublishInv /\ UploadStamp => PublishInv'
<1> SUFFICES ASSUME PublishInv, UploadStamp PROVE PublishInv'
  OBVIOUS
<1>1. /\ run \in Runs /\ run # None /\ run.tree \in Trees /\ run.todo = {} /\ run' = None
      /\ Uploading /\ Put(Stamp) /\ lastFailed' = FALSE /\ Stamp \in Keys /\ TypeOK
      /\ UNCHANGED <<main, pending, failed, pushes, failures, reruns>>
  BY KeyShapes DEF PublishInv, TypeOK, UploadStamp, Uploading, Runs
<1>2. /\ bucket' = [k \in Keys |-> bucket'[k]]
      /\ bucket'[Stamp] = run.tree.stamp
      /\ \A k \in Keys \ {Stamp} : bucket'[k] = bucket[k]
      /\ \A k \in Keys : bucket'[k] # None => bucket'[k] \in {Content(t, k) : t \in Trees}
  BY <1>1, PutStep, Contents
<1>3. TypeOK'
  BY <1>1, <1>2 DEF TypeOK
<1>4. \A d \in Resources :
         /\ bucket'[Latest(d)] = bucket[Latest(d)] /\ bucket'[Index(d)] = bucket[Index(d)]
         /\ \A v \in 1 .. MaxVersion : bucket'[Pinned(d, v)] = bucket[Pinned(d, v)]
  BY <1>2, KeyShapes DEF Resources
<1>5. NoDanglingPointer'
  <2>1. \A d \in Resources :
           /\ bucket[Latest(d)] # None => bucket[Latest(d)] \in 1 .. MaxVersion
           /\ bucket[Index(d)] # None => \A v \in bucket[Index(d)] : v \in 1 .. MaxVersion
    BY <1>1, Published, PublishBounds
  <2> QED
    BY <1>4, <2>1 DEF PublishInv, NoDanglingPointer
<1>6. UploadBook'
  BY <1>1 DEF UploadBook, Uploading
<1>7. OrderBook'
  <2> SUFFICES ASSUME Prescribed PROVE OrderBook'
    BY <1>1 DEF OrderBook, Prescribed
  <2>1. /\ pending # None => pending = main
        /\ NotNewerThan(main)
        /\ Older(run.tree, main)
    BY <1>1 DEF PublishInv, OrderBook
  <2>2. NotNewerThan(main)'
    BY <1>1, <1>2, <1>4, <2>1 DEF NotNewerThan, Older
  <2>3. ASSUME run.tree.stamp = main.stamp,
               NEW d \in Resources, NEW k \in {Latest(d), Index(d)}
        PROVE  bucket'[k] = Content(main, k)
    <3>1. k \in Files(run.tree)
      BY <1>1, FilesAreKeys
    <3>2. bucket[k] = Content(run.tree, k)
      BY <1>1, <3>1 DEF PublishInv, UploadBook
    <3>3. run.tree.version = main.version /\ main \in Trees
      BY <1>1, <2>1, <2>3 DEF Older, TypeOK
    <3> QED
      BY <1>1, <1>4, <3>2, <3>3, Contents
  <2> QED
    BY <1>1, <1>2, <2>1, <2>2, <2>3 DEF OrderBook
<1> QED
  BY <1>3, <1>5, <1>6, <1>7 DEF PublishInv

\* Nothing happens.
LEMMA IdleKeeps == PublishInv /\ UNCHANGED vars => PublishInv'
<1> SUFFICES ASSUME PublishInv, UNCHANGED vars PROVE PublishInv'
  OBVIOUS
<1>1. UNCHANGED <<main, bucket, run, pending, failed, lastFailed, pushes, failures, reruns>>
  BY Zenon DEF vars
<1>2. TypeOK'
  BY <1>1 DEF PublishInv, TypeOK
<1>3. NoDanglingPointer'
  BY <1>1 DEF PublishInv, NoDanglingPointer
<1>4. UploadBook'
  BY <1>1 DEF PublishInv, UploadBook, Uploading
<1>5. OrderBook'
  BY <1>1 DEF PublishInv, OrderBook, NotNewerThan, Prescribed
<1> QED
  BY <1>2, <1>3, <1>4, <1>5 DEF PublishInv

-----------------------------------------------------------------------------
(* The theorems *)

\* Every reachable state keeps the books behind the properties.
THEOREM BooksHold == Spec => []PublishInv
<1>1. PublishInv /\ [Next]_vars => PublishInv'
  BY PushesKeep, QuietSteps, UploadKeeps, StampKeeps, IdleKeeps DEF Next
<1> QED
  BY Starts, <1>1, PTL DEF Spec

\* "A mid-run failure never leaves a pointer at content that isn't up", for any
\* directories, however many pushes, failures, dispatches and re-runs there are.
THEOREM PointersLand == Spec => []NoDanglingPointer
<1>1. PublishInv => NoDanglingPointer
  BY DEF PublishInv
<1> QED
  BY BooksHold, <1>1, PTL

\* With the stamp of main published and no upload under way, the pointers are those of
\* main, as long as no failed run is started again from its own commit.
THEOREM StampIsCurrent == Spec => []StampMeansCurrentAsPrescribed
<1>1. PublishInv => StampMeansCurrentAsPrescribed
  BY DEF PublishInv, OrderBook, StampMeansCurrentAsPrescribed, StampMeansCurrent
<1> QED
  BY BooksHold, <1>1, PTL

\* A step that uploads nothing, or uploads one object.
LEMMA OneUpload ==
    ASSUME PublishInv, [Next]_vars
    PROVE  UNCHANGED bucket \/ Upload \/ UploadStamp
BY DEF Next, vars, PushRelease, PushHandEdit, Push, Start, Approve, Sync, Skip, Diverges, Fail,
       Stops, Dispatch, Rerun

\* "Pinned versions are immutable: uploaded once, never overwritten", whatever fails, is
\* dispatched again, is re-run or is edited in place.
THEOREM PinnedStays == Spec => PinnedImmutable
<1>1. ASSUME PublishInv, [Next]_vars, NEW key \in Keys, IsPinned(key), bucket[key] # None
      PROVE  bucket'[key] = bucket[key]
  <2>1. CASE UNCHANGED bucket
    BY <2>1
  <2>2. CASE Upload
    <3>1. PICK k \in run.todo : /\ k \in Keys /\ run \in Runs /\ Put(k)
                                /\ IsPinned(k) => bucket[k] = None
      BY <1>1, <2>2, UploadInOrder
    <3>2. \A l \in Keys \ {k} : bucket'[l] = bucket[l]
      BY <1>1, <3>1, PutStep DEF PublishInv
    <3> QED
      BY <1>1, <3>1, <3>2
  <2>3. CASE UploadStamp
    <3>1. Stamp \in Keys /\ run \in Runs /\ Put(Stamp) /\ key # Stamp
      BY <1>1, <2>3, KeyShapes DEF PublishInv, TypeOK, UploadStamp, Uploading
    <3> QED
      BY <1>1, <3>1, PutStep DEF PublishInv
  <2> QED
    BY <1>1, <2>1, <2>2, <2>3, OneUpload
<1>2. PublishInv /\ [Next]_vars =>
         \A key \in Keys : IsPinned(key) /\ bucket[key] # None => bucket'[key] = bucket[key]
  BY <1>1
<1> QED
  BY BooksHold, <1>2, PTL DEF Spec, PinnedImmutable

\* As long as no failed run is started again from its own commit, a published latest.json
\* never goes back to an older version.
THEOREM PointersAdvance == Spec => PointersNeverGoBack
<1>1. ASSUME PublishInv, [Next]_vars, Prescribed, NEW d \in Resources, bucket[Latest(d)] # None
      PROVE  bucket'[Latest(d)] >= bucket[Latest(d)]
  <2>1. bucket[Latest(d)] \in Nat /\ Latest(d) \in Keys /\ Latest(d) # Stamp
    BY <1>1, Published, KeyShapes DEF PublishInv
  <2>2. CASE UNCHANGED bucket
    BY <2>1, <2>2
  <2>3. CASE Upload
    <3>1. PICK k \in run.todo : k \in Keys /\ run \in Runs /\ run.tree \in Trees /\ Put(k)
      BY <1>1, <2>3, UploadInOrder
    <3>2. /\ bucket'[k] = Content(run.tree, k)
          /\ \A l \in Keys \ {k} : bucket'[l] = bucket[l]
      BY <1>1, <3>1, PutStep DEF PublishInv
    <3>3. bucket[Latest(d)] <= run.tree.version[d] /\ run.tree.version[d] \in Nat
      BY <1>1, <2>3, <3>1, Contents DEF PublishInv, OrderBook, NotNewerThan, Upload, Uploading
    <3> QED
      BY <2>1, <3>1, <3>2, <3>3, Contents
  <2>4. CASE UploadStamp
    <3>1. Stamp \in Keys /\ run \in Runs /\ Put(Stamp)
      BY <1>1, <2>4, KeyShapes DEF PublishInv, TypeOK, UploadStamp, Uploading
    <3> QED
      BY <1>1, <2>1, <3>1, PutStep DEF PublishInv
  <2> QED
    BY <1>1, <2>2, <2>3, <2>4, OneUpload
<1>2. PublishInv /\ [Next]_vars =>
         (Prescribed => \A d \in Resources :
            bucket[Latest(d)] # None => bucket'[Latest(d)] >= bucket[Latest(d)])
  BY <1>1
<1> QED
  BY BooksHold, <1>2, PTL DEF Spec, PointersNeverGoBack
=============================================================================
