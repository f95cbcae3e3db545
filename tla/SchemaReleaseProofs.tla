------------------------- MODULE SchemaReleaseProofs -------------------------
(***************************************************************************)
(* Proofs about SchemaRelease, for any resources, models, versions, pull   *)
(* requests, overlapping runs and orders of their checks and merges.       *)
(***************************************************************************)
EXTENDS SchemaRelease, TLAPS

-----------------------------------------------------------------------------
(* Versions *)

\* A bump gives a later version.
LEMMA BumpIsLater ==
  ASSUME NEW v \in Nat \X Nat, NEW bump
  PROVE  /\ Bumped(v, bump) \in Nat \X Nat
         /\ ~ AtMost(Bumped(v, bump), v)
         /\ \A w \in Nat \X Nat : AtMost(w, v) => AtMost(w, Bumped(v, bump))
<1>1. PICK a \in Nat, b \in Nat : v = <<a, b>>
  OBVIOUS
<1>2. Bumped(v, bump) = IF bump = "major" THEN <<a + 1, 0>> ELSE <<a, b + 1>>
  BY <1>1 DEF Bumped
<1>3. CASE bump = "major"
  <2>1. Bumped(v, bump) = <<a + 1, 0>>
    BY <1>2, <1>3
  <2>2. ASSUME NEW w \in Nat \X Nat, AtMost(w, v) PROVE AtMost(w, <<a + 1, 0>>)
    BY <1>1, <2>2 DEF AtMost
  <2> QED
    BY <1>1, <2>1, <2>2 DEF AtMost
<1>4. CASE bump # "major"
  <2>1. Bumped(v, bump) = <<a, b + 1>>
    BY <1>2, <1>4
  <2>2. ASSUME NEW w \in Nat \X Nat, AtMost(w, v) PROVE AtMost(w, <<a, b + 1>>)
    BY <1>1, <2>2 DEF AtMost
  <2> QED
    BY <1>1, <2>1, <2>2 DEF AtMost
<1> QED
  BY <1>3, <1>4

\* The highest of some versions is the one no other exceeds.
LEMMA HighestIs ==
  ASSUME NEW vs, vs \subseteq Nat \X Nat, NEW last \in vs, \A v \in vs : AtMost(v, last)
  PROVE  Highest(vs) = last
<1>1. ASSUME NEW v \in vs, \A w \in vs : AtMost(w, v) PROVE v = last
  <2>1. AtMost(v, last) /\ AtMost(last, v)
    BY <1>1
  <2>2. v \in Nat \X Nat /\ last \in Nat \X Nat
    OBVIOUS
  <2> QED
    BY <2>1, <2>2 DEF AtMost
<1> QED
  BY <1>1 DEF Highest

-----------------------------------------------------------------------------
(* Paths *)

\* Each path of a resource carries its name, whatever kind of file it is.
LEMMA OwnerIs ==
  ASSUME NEW r, NEW p \in FilesOf(r) \cup {Override(r)}
  PROVE  p[2] = r
BY DEF FilesOf, Override, Latest, Index, Pinned, Record

\* The kinds of paths differ, and so do the files of different versions.
LEMMA PathsDiffer ==
  ASSUME NEW r, NEW s
  PROVE  /\ Latest(r) # Index(s) /\ Latest(r) # Override(s) /\ Index(r) # Override(s)
         /\ Model(r) # Latest(s) /\ Model(r) # Index(s) /\ Model(r) # Override(s)
         /\ Stamp # Latest(r) /\ Stamp # Index(r) /\ Stamp # Override(r) /\ Stamp # Model(r)
         /\ Package # Latest(r) /\ Package # Index(r) /\ Package # Override(r) /\ Package # Model(r)
         /\ Stamp # Package
         /\ \A v, w :
              /\ Pinned(r, v) # Latest(s) /\ Pinned(r, v) # Index(s) /\ Pinned(r, v) # Override(s)
              /\ Pinned(r, v) # Record(s, w) /\ Pinned(r, v) # Model(s)
              /\ Record(r, v) # Latest(s) /\ Record(r, v) # Index(s) /\ Record(r, v) # Override(s)
              /\ Record(r, v) # Model(s)
              /\ Stamp # Pinned(r, v) /\ Stamp # Record(r, v)
              /\ Package # Pinned(r, v) /\ Package # Record(r, v)
              /\ Pinned(r, v) = Pinned(s, w) => r = s /\ v = w
              /\ Record(r, v) = Record(s, w) => r = s /\ v = w
<1>1. /\ Latest(r)[1] = "latest" /\ Index(r)[1] = "index" /\ Override(r)[1] = "override"
      /\ Model(r)[1] = "model" /\ Stamp[1] = "stamp" /\ Package[1] = "package"
      /\ \A v : Pinned(r, v)[1] = "pinned" /\ Record(r, v)[1] = "record"
  BY DEF Latest, Index, Override, Model, Stamp, Package, Pinned, Record
<1>2. /\ Latest(s)[1] = "latest" /\ Index(s)[1] = "index" /\ Override(s)[1] = "override"
      /\ Model(s)[1] = "model"
      /\ \A v : Pinned(s, v)[1] = "pinned" /\ Record(s, v)[1] = "record"
  BY DEF Latest, Index, Override, Model, Pinned, Record
<1>3. \A v, w : /\ Pinned(r, v) = Pinned(s, w) => r = s /\ v = w
                /\ Record(r, v) = Record(s, w) => r = s /\ v = w
  BY DEF Pinned, Record
<1> QED
  BY <1>1, <1>2, <1>3

\* Where the paths are.
LEMMA PathsAre ==
  ASSUME NEW r \in Resources
  PROVE  /\ FilesOf(r) \subseteq ReleaseOnly /\ FilesOf(r) \subseteq Paths
         /\ Override(r) \in Paths /\ Model(r) \in Paths /\ Stamp \in Paths /\ Package \in Paths
         /\ Override(r) \notin ReleaseOnly /\ Model(r) \notin ReleaseOnly /\ Package \notin ReleaseOnly
         /\ Stamp \notin FilesOf(r) /\ Override(r) \notin FilesOf(r) /\ Model(r) \notin FilesOf(r)
<1>1. FilesOf(r) \subseteq ReleaseOnly
  <2>1. Latest(r) \in Published /\ Index(r) \in Published
        /\ \A v \in Versions : Pinned(r, v) \in Published
    BY DEF Published
  <2> QED
    BY <2>1 DEF FilesOf, ReleaseOnly
<1>4. ReleaseOnly \subseteq Paths
  BY DEF Paths
<1>5. /\ Override(r) \in Paths /\ Model(r) \in Paths /\ Package \in Paths
      /\ Stamp \in ReleaseOnly
  BY DEF ReleaseOnly, Paths
<1>2. /\ Override(r) \notin ReleaseOnly /\ Model(r) \notin ReleaseOnly /\ Package \notin ReleaseOnly
  <2>1. ASSUME NEW p \in {Override(r), Model(r), Package}
        PROVE  p \notin {Pinned(s, v) : s \in Resources, v \in Versions}
                   \cup {Record(s, v) : s \in Resources, v \in Versions}
    BY PathsDiffer
  <2>2. ASSUME NEW p \in {Override(r), Model(r), Package}
        PROVE  p \notin {Latest(s) : s \in Resources} \cup {Index(s) : s \in Resources} \cup {Stamp}
    BY PathsDiffer
  <2> QED
    BY <2>1, <2>2 DEF ReleaseOnly, Published
<1>3. /\ Stamp \notin FilesOf(r) /\ Override(r) \notin FilesOf(r) /\ Model(r) \notin FilesOf(r)
  BY PathsDiffer DEF FilesOf
<1> QED
  BY <1>1, <1>2, <1>3, <1>4, <1>5

\* The paths of one resource are apart.
LEMMA PathsApart ==
  ASSUME NEW r, NEW v, NEW w
  PROVE  /\ Latest(r) # Index(r) /\ Latest(r) # Override(r) /\ Index(r) # Override(r)
         /\ Pinned(r, v) # Latest(r) /\ Pinned(r, v) # Index(r) /\ Pinned(r, v) # Override(r)
         /\ Pinned(r, v) # Record(r, w)
         /\ Record(r, v) # Latest(r) /\ Record(r, v) # Index(r) /\ Record(r, v) # Override(r)
         /\ Pinned(r, v) = Pinned(r, w) <=> v = w
         /\ Record(r, v) = Record(r, w) <=> v = w
<1>1. Pinned(r, v) = Pinned(r, w) <=> v = w
  BY DEF Pinned
<1>2. Record(r, v) = Record(r, w) <=> v = w
  BY DEF Record
<1>3. Latest(r) # Index(r) /\ Latest(r) # Override(r) /\ Index(r) # Override(r)
  BY PathsDiffer
<1>4. /\ Pinned(r, v) # Latest(r) /\ Pinned(r, v) # Index(r) /\ Pinned(r, v) # Override(r)
      /\ Pinned(r, v) # Record(r, w)
  BY PathsDiffer
<1>5. Record(r, v) # Latest(r) /\ Record(r, v) # Index(r) /\ Record(r, v) # Override(r)
  BY PathsDiffer
<1> QED
  BY <1>1, <1>2, <1>3, <1>4, <1>5

-----------------------------------------------------------------------------
(* What `release` writes *)

\* A release writes only files that carry the name of a resource whose models changed.
LEMMA FilesOwned ==
  ASSUME NEW t, NEW said, NEW s, NEW p \in DOMAIN ReleaseFiles(t, s, said)
  PROVE  /\ p[2] = s
         /\ p[1] \in {"pinned", "latest", "index", "override", "record"}
<1> DEFINE v == NextVersion(t, s, said)
<1> HIDE DEF v
<1>1. p \in {Pinned(s, v), Latest(s), Index(s), Override(s), Record(s, v)}
  BY DEF ReleaseFiles, v
<1>2. \A w : Pinned(s, w)[2] = s /\ Record(s, w)[2] = s
             /\ Pinned(s, w)[1] = "pinned" /\ Record(s, w)[1] = "record"
  BY DEF Pinned, Record
<1>3. /\ Latest(s)[2] = s /\ Index(s)[2] = s /\ Override(s)[2] = s
      /\ Latest(s)[1] = "latest" /\ Index(s)[1] = "index" /\ Override(s)[1] = "override"
  BY DEF Latest, Index, Override
<1> QED
  BY <1>1, <1>2, <1>3

\* A file of the tree a release writes: the one written for its owner, or the one that was there.
LEMMA ReleaseTreeAt ==
  ASSUME NEW t, NEW said, NEW r \in Resources, NEW p \in FilesOf(r) \cup {Override(r)}
  PROVE  ReleaseTree(t, said)[p] =
            IF Changed(t, r) /\ p \in DOMAIN ReleaseFiles(t, r, said)
            THEN ReleaseFiles(t, r, said)[p] ELSE t[p]
<1> DEFINE changed == {s \in Resources : Changed(t, s)}
           files == [s \in changed |-> ReleaseFiles(t, s, said)]
           written == [q \in Paths |->
              IF \E s \in changed : q \in DOMAIN files[s]
              THEN files[CHOOSE s \in changed : q \in DOMAIN files[s]][q]
              ELSE t[q]]
<1>1. ReleaseTree(t, said) = [written EXCEPT ![Stamp] = StampOf(written)]
  BY DEF ReleaseTree
<1>2. p \in Paths /\ p # Stamp
  BY PathsAre, PathsDiffer
<1>3. DOMAIN written = Paths
  OBVIOUS
<1>4. ReleaseTree(t, said)[p] = written[p]
  <2> HIDE DEF written
  <2> QED
    BY <1>1, <1>2, <1>3
<1>5. written[p] = IF \E s \in changed : p \in DOMAIN files[s]
                   THEN files[CHOOSE s \in changed : p \in DOMAIN files[s]][p]
                   ELSE t[p]
  BY <1>2
<1>6. \A s \in changed : files[s] = ReleaseFiles(t, s, said)
  OBVIOUS
<1>7. \A s \in changed : p \in DOMAIN files[s] => s = r
  BY <1>6, FilesOwned, OwnerIs
<1>8. r \in changed <=> Changed(t, r)
  OBVIOUS
<1> HIDE DEF changed, files, written
<1>9. CASE Changed(t, r) /\ p \in DOMAIN ReleaseFiles(t, r, said)
  <2>1. r \in changed /\ p \in DOMAIN files[r] /\ files[r] = ReleaseFiles(t, r, said)
    BY <1>6, <1>8, <1>9
  <2>2. (CHOOSE s \in changed : p \in DOMAIN files[s]) = r
    BY <2>1, <1>7
  <2> QED
    BY <2>1, <2>2, <1>4, <1>5, <1>9
<1>10. CASE ~ (Changed(t, r) /\ p \in DOMAIN ReleaseFiles(t, r, said))
  <2>1. ~ \E s \in changed : p \in DOMAIN files[s]
    BY <1>6, <1>7, <1>8, <1>10
  <2> QED
    BY <2>1, <1>4, <1>5, <1>10
<1> QED
  BY <1>9, <1>10

\* A release leaves the models and the package alone, and its tree is a tree of files.
LEMMA ReleaseTreeKeeps ==
  ASSUME NEW t, NEW said
  PROVE  /\ ReleaseTree(t, said) = [p \in Paths |-> ReleaseTree(t, said)[p]]
         /\ \A r \in Resources : ReleaseTree(t, said)[Model(r)] = t[Model(r)]
         /\ ReleaseTree(t, said)[Package] = t[Package]
         /\ ReleaseTree(t, said)[Stamp] = StampOf(ReleaseTree(t, said))
<1> DEFINE changed == {s \in Resources : Changed(t, s)}
           files == [s \in changed |-> ReleaseFiles(t, s, said)]
           written == [q \in Paths |->
              IF \E s \in changed : q \in DOMAIN files[s]
              THEN files[CHOOSE s \in changed : q \in DOMAIN files[s]][q]
              ELSE t[q]]
<1>1. ReleaseTree(t, said) = [written EXCEPT ![Stamp] = StampOf(written)]
  BY DEF ReleaseTree
<1>2. \A q \in Paths : (\A s \in changed : q \notin DOMAIN files[s]) => written[q] = t[q]
  OBVIOUS
<1>3. \A s \in changed : files[s] = ReleaseFiles(t, s, said)
  OBVIOUS
<1>4. written = [q \in Paths |-> written[q]]
  OBVIOUS
<1> HIDE DEF changed, files, written
<1>5. Stamp \in Paths /\ Package \in Paths /\ Stamp \notin Published /\ Published \subseteq Paths
      /\ Package \notin Published /\ Package # Stamp
  <2>1. Stamp \in Paths /\ Package \in Paths /\ Published \subseteq Paths
    BY DEF Paths, ReleaseOnly
  <2>2. /\ Stamp \notin {Pinned(s, v) : s \in Resources, v \in Versions}
        /\ Package \notin {Pinned(s, v) : s \in Resources, v \in Versions}
    BY PathsDiffer
  <2>3. /\ Stamp \notin {Latest(s) : s \in Resources} \cup {Index(s) : s \in Resources}
        /\ Package \notin {Latest(s) : s \in Resources} \cup {Index(s) : s \in Resources}
    BY PathsDiffer
  <2>4. Package # Stamp
    BY PathsDiffer
  <2> QED
    BY <2>1, <2>2, <2>3, <2>4 DEF Published
<1>6. \A q \in Paths \ {Stamp} : ReleaseTree(t, said)[q] = written[q]
  BY <1>1, <1>4
<1>7. ASSUME NEW r \in Resources
      PROVE  ReleaseTree(t, said)[Model(r)] = t[Model(r)]
  <2>1. Model(r)[1] = "model"
    BY DEF Model
  <2>2. Model(r) \in Paths \ {Stamp}
    BY PathsAre, PathsDiffer
  <2>3. \A s \in changed : Model(r) \notin DOMAIN files[s]
    BY <2>1, <1>3, FilesOwned
  <2> QED
    BY <2>2, <2>3, <1>2, <1>6
<1>8. ReleaseTree(t, said)[Package] = t[Package]
  <2>1. Package[1] = "package"
    BY DEF Package
  <2>2. \A s \in changed : Package \notin DOMAIN files[s]
    BY <2>1, <1>3, FilesOwned
  <2> QED
    BY <2>2, <1>2, <1>5, <1>6
<1>9. ReleaseTree(t, said) = [p \in Paths |-> ReleaseTree(t, said)[p]]
  BY <1>1, <1>4
<1>10. ReleaseTree(t, said)[Stamp] = StampOf(ReleaseTree(t, said))
  <2>1. ReleaseTree(t, said)[Stamp] = StampOf(written)
    BY <1>1, <1>4, <1>5
  <2>2. \A p \in Published \cup {Package} : ReleaseTree(t, said)[p] = written[p]
    BY <1>5, <1>6
  <2>3. [p \in Published |-> written[p]] = [p \in Published |-> ReleaseTree(t, said)[p]]
    BY <2>2
  <2> QED
    BY <2>1, <2>2, <2>3 DEF StampOf
<1> QED
  BY <1>7, <1>8, <1>9, <1>10

\* What a release writes for a resource whose models changed.
LEMMA Released ==
  ASSUME NEW t, NEW said, NEW r \in Resources, Changed(t, r),
         NEW v, v = NextVersion(t, r, said),
         NEW head, head = ReleaseTree(t, said), v \in Versions
  PROVE  /\ \A w \in Versions :
              head[Pinned(r, w)] = IF w = v THEN t[Model(r)] ELSE t[Pinned(r, w)]
         /\ head[Latest(r)] = [version |-> v, content |-> t[Model(r)]]
         /\ head[Index(r)] = PinnedVersions(t, r) \cup {v}
         /\ head[Override(r)] = None
         /\ \A w \in Versions :
              head[Record(r, w)] =
                IF w = v /\ ~ Unreleased(t, r)
                THEN [from |-> t[Latest(r)].version, bump |-> Decided(t, r, said),
                      old |-> t[Latest(r)].content, new |-> t[Model(r)]]
                ELSE t[Record(r, w)]
<1> DEFINE files == ReleaseFiles(t, r, said)
           recorded == IF Unreleased(t, r) THEN {} ELSE {Record(r, v)}
           dom == {Pinned(r, v), Latest(r), Index(r), Override(r)} \cup recorded
           entry == [from |-> t[Latest(r)].version, bump |-> Decided(t, r, said),
                     old |-> t[Latest(r)].content, new |-> t[Model(r)]]
           latest == [version |-> v, content |-> t[Model(r)]]
<1> HIDE DEF entry, latest
<1>1. files = [p \in dom |->
            CASE p = Pinned(r, v) -> t[Model(r)]
              [] p = Latest(r) -> latest
              [] p = Index(r) -> PinnedVersions(t, r) \cup {v}
              [] p = Override(r) -> None
              [] OTHER -> entry]
  BY DEF ReleaseFiles, latest, entry
<1>2. /\ files[Pinned(r, v)] = t[Model(r)]
      /\ files[Latest(r)] = latest
      /\ files[Index(r)] = PinnedVersions(t, r) \cup {v}
      /\ files[Override(r)] = None
      /\ ~ Unreleased(t, r) => files[Record(r, v)] = entry
      /\ DOMAIN files = dom
  <2> HIDE DEF files
  <2>1. /\ Latest(r) # Index(r) /\ Latest(r) # Override(r) /\ Index(r) # Override(r)
        /\ Pinned(r, v) # Latest(r) /\ Pinned(r, v) # Index(r) /\ Pinned(r, v) # Override(r)
        /\ Pinned(r, v) # Record(r, v)
        /\ Record(r, v) # Latest(r) /\ Record(r, v) # Index(r) /\ Record(r, v) # Override(r)
    BY PathsDiffer
  <2> QED
    BY <1>1, <2>1
<1> HIDE DEF files
<1>3. \A p \in FilesOf(r) \cup {Override(r)} :
         head[p] = IF p \in dom THEN files[p] ELSE t[p]
  BY ReleaseTreeAt, <1>2 DEF files
<1>4. /\ Latest(r) \in FilesOf(r) /\ Index(r) \in FilesOf(r)
      /\ \A w \in Versions : Pinned(r, w) \in FilesOf(r) /\ Record(r, w) \in FilesOf(r)
  BY DEF FilesOf
<1>5. ASSUME NEW w \in Versions
      PROVE  head[Pinned(r, w)] = IF w = v THEN t[Model(r)] ELSE t[Pinned(r, w)]
  <2>1. /\ Pinned(r, w) # Latest(r) /\ Pinned(r, w) # Index(r) /\ Pinned(r, w) # Override(r)
        /\ Pinned(r, w) # Record(r, v) /\ (Pinned(r, w) = Pinned(r, v) <=> w = v)
    BY PathsApart
  <2>2. Pinned(r, w) \in dom <=> w = v
    BY <2>1
  <2> HIDE DEF dom
  <2> QED
    BY <2>2, <1>2, <1>3, <1>4
<1>6. ASSUME NEW w \in Versions
      PROVE  head[Record(r, w)] = IF w = v /\ ~ Unreleased(t, r) THEN entry ELSE t[Record(r, w)]
  <2>1. /\ Record(r, w) # Latest(r) /\ Record(r, w) # Index(r) /\ Record(r, w) # Override(r)
        /\ Pinned(r, v) # Record(r, w) /\ (Record(r, w) = Record(r, v) <=> w = v)
    BY PathsApart
  <2>2. Record(r, w) \in dom <=> w = v /\ ~ Unreleased(t, r)
    BY <2>1
  <2>3. w = v /\ ~ Unreleased(t, r) => files[Record(r, w)] = entry
    BY <1>2
  <2> HIDE DEF dom
  <2> QED
    BY <2>2, <2>3, <1>3, <1>4
<1>7. head[Latest(r)] = latest /\ head[Index(r)] = PinnedVersions(t, r) \cup {v}
      /\ head[Override(r)] = None
  BY <1>2, <1>3, <1>4
<1> QED
  BY <1>5, <1>6, <1>7 DEF entry, latest

\* A release leaves a resource whose models did not change alone.
LEMMA NotReleased ==
  ASSUME NEW t, NEW said, NEW r \in Resources, ~ Changed(t, r),
         NEW p \in FilesOf(r) \cup {Override(r)}
  PROVE  ReleaseTree(t, said)[p] = t[p]
BY ReleaseTreeAt

-----------------------------------------------------------------------------
(* The kinds of files *)

\* What a path of each kind may hold.
LEMMA FileKinds ==
  ASSUME NEW r, NEW v
  PROVE  /\ File(Model(r)) = Contents
         /\ File(Pinned(r, v)) = Contents \cup {None}
         /\ File(Latest(r)) = [version : Versions, content : Contents] \cup {None}
         /\ File(Index(r)) = (SUBSET Versions) \cup {None}
         /\ File(Record(r, v)) =
              [from : Versions, bump : Bumps, old : Contents, new : Contents] \cup {None}
         /\ File(Override(r)) = Bumps \cup {None}
         /\ File(Package) = Packages
<1>1. /\ Latest(r)[1] = "latest" /\ Index(r)[1] = "index" /\ Override(r)[1] = "override"
      /\ Model(r)[1] = "model" /\ Package[1] = "package"
      /\ Pinned(r, v)[1] = "pinned" /\ Record(r, v)[1] = "record"
  BY DEF Latest, Index, Override, Model, Package, Pinned, Record
<1>2. File(Model(r)) = Contents
  BY <1>1 DEF File
<1>3. File(Pinned(r, v)) = Contents \cup {None}
  BY <1>1 DEF File
<1>4. File(Latest(r)) = [version : Versions, content : Contents] \cup {None}
  BY <1>1 DEF File
<1>5. File(Index(r)) = (SUBSET Versions) \cup {None}
  BY <1>1 DEF File
<1>6. File(Record(r, v)) = [from : Versions, bump : Bumps, old : Contents, new : Contents] \cup {None}
  BY <1>1 DEF File
<1>7. File(Override(r)) = Bumps \cup {None} /\ File(Package) = Packages
  BY <1>1 DEF File
<1> QED
  BY <1>2, <1>3, <1>4, <1>5, <1>6, <1>7

\* A path is one of these kinds.
LEMMA PathKinds ==
  ASSUME NEW p \in Paths
  PROVE  \/ p = Stamp \/ p = Package
         \/ \E r \in Resources : p \in FilesOf(r) \cup {Override(r), Model(r)}
BY DEF Paths, ReleaseOnly, Published, FilesOf

\* What the files of a tree hold.
LEMMA TreeHolds ==
  ASSUME NEW t, IsTree(t), NEW r \in Resources
  PROVE  /\ t[Model(r)] \in Contents
         /\ \A v \in Versions :
              /\ t[Pinned(r, v)] \in Contents \cup {None}
              /\ t[Record(r, v)] \in
                    [from : Versions, bump : Bumps, old : Contents, new : Contents] \cup {None}
         /\ t[Latest(r)] \in [version : Versions, content : Contents] \cup {None}
         /\ t[Index(r)] \in (SUBSET Versions) \cup {None}
         /\ t[Override(r)] \in Bumps \cup {None}
         /\ t[Package] \in Packages
<1>1. ASSUME NEW p \in FilesOf(r) \cup {Override(r), Model(r), Package}
      PROVE  t[p] \in File(p)
  <2>1. p \in Paths
    BY PathsAre
  <2>2. p # Stamp
    <3>1. Stamp \notin FilesOf(r)
      BY PathsAre
    <3>2. Stamp # Override(r) /\ Stamp # Model(r) /\ Stamp # Package
      BY PathsDiffer
    <3> QED
      BY <3>1, <3>2
  <2> QED
    BY <2>1, <2>2 DEF IsTree
<1>2. /\ Latest(r) \in FilesOf(r) /\ Index(r) \in FilesOf(r)
      /\ \A v \in Versions : Pinned(r, v) \in FilesOf(r) /\ Record(r, v) \in FilesOf(r)
  BY DEF FilesOf
<1>3. \A v \in Versions :
        /\ t[Pinned(r, v)] \in Contents \cup {None}
        /\ t[Record(r, v)] \in
              [from : Versions, bump : Bumps, old : Contents, new : Contents] \cup {None}
  <2> TAKE v \in Versions
  <2>1. t[Pinned(r, v)] \in File(Pinned(r, v)) /\ t[Record(r, v)] \in File(Record(r, v))
    BY <1>1, <1>2
  <2> QED
    BY <2>1, FileKinds
<1>4. /\ t[Model(r)] \in File(Model(r)) /\ t[Latest(r)] \in File(Latest(r))
      /\ t[Index(r)] \in File(Index(r)) /\ t[Override(r)] \in File(Override(r))
      /\ t[Package] \in File(Package)
  BY <1>1, <1>2
<1> QED
  BY <1>3, <1>4, FileKinds

\* A function of the paths whose files hold what their kind may hold is a tree.
LEMMA MakesTree ==
  ASSUME NEW t, t = [p \in Paths |-> t[p]],
         \A p \in Paths \ {Stamp} : t[p] \in File(p),
         t[Stamp] = StampOf(t)
  PROVE  IsTree(t)
<1> DEFINE s == StampOf(t)
<1>1. s = [package |-> t[Package], tree |-> [p \in Published |-> t[p]]]
  BY DEF StampOf
<1>2. Published \subseteq Paths \ {Stamp}
  <2>1. Published \subseteq Paths
    BY DEF Paths, ReleaseOnly
  <2>2. Stamp \notin {Pinned(q, v) : q \in Resources, v \in Versions}
    BY PathsDiffer
  <2>3. Stamp \notin {Latest(q) : q \in Resources} \cup {Index(q) : q \in Resources}
    BY PathsDiffer
  <2> QED
    BY <2>1, <2>2, <2>3 DEF Published
<1>3. Typed([p \in Published |-> t[p]], Published)
  BY <1>2 DEF Typed
<1>4. t[Package] \in Packages
  <2>1. Package \in Paths /\ Package # Stamp
    BY PathsDiffer DEF Paths
  <2> QED
    BY <2>1, FileKinds
<1> HIDE DEF s
<1>5. s.package = t[Package] /\ s.tree = [p \in Published |-> t[p]]
  BY <1>1
<1>6. s = [package |-> s.package, tree |-> s.tree]
  BY <1>1, <1>5
<1>7. IsStamp(s)
  BY <1>3, <1>4, <1>5, <1>6 DEF IsStamp
<1> QED
  BY <1>7 DEF IsTree, s

\* A tree whose files are taken from two trees is a tree.
LEMMA MixesTree ==
  ASSUME NEW t, NEW u, IsTree(t), IsTree(u), NEW ps
  PROVE  IsTree([p \in Paths |-> IF p \in ps THEN t[p] ELSE u[p]])
<1> DEFINE m == [p \in Paths |-> IF p \in ps THEN t[p] ELSE u[p]]
<1>1. m = [p \in Paths |-> m[p]] /\ \A p \in Paths : m[p] \in {t[p], u[p]}
  OBVIOUS
<1>2. Stamp \in Paths
  BY DEF Paths, ReleaseOnly
<1> HIDE DEF m
<1>3. \A p \in Paths \ {Stamp} : m[p] \in File(p)
  BY <1>1 DEF IsTree
<1>4. IsStamp(m[Stamp])
  BY <1>1, <1>2 DEF IsTree
<1>5. IsTree(m)
  BY <1>1, <1>3, <1>4 DEF IsTree
<1> QED
  BY <1>5 DEF m

\* Two trees with the same files are the same tree.
LEMMA SameTree ==
  ASSUME NEW t, NEW u, t = [p \in Paths |-> t[p]], u = [p \in Paths |-> u[p]],
         \A p \in Paths : t[p] = u[p]
  PROVE  t = u
<1>1. [p \in Paths |-> t[p]] = [p \in Paths |-> u[p]]
  OBVIOUS
<1> QED
  BY <1>1

\* The record a release writes is one.
LEMMA EntryIs ==
  ASSUME NEW t, IsTree(t), NEW said \in [Resources -> Bumps], NEW r \in Resources, ~ Unreleased(t, r),
         Whole(t, r)
  PROVE  [from |-> t[Latest(r)].version, bump |-> Decided(t, r, said),
          old |-> t[Latest(r)].content, new |-> t[Model(r)]]
            \in [from : Versions, bump : Bumps, old : Contents, new : Contents]
<1>1. t[Latest(r)] # None
  BY DEF Whole, OneRelease
<1>2. t[Latest(r)].version \in Versions /\ t[Latest(r)].content \in Contents /\ t[Model(r)] \in Contents
  BY <1>1, TreeHolds
<1>3. Decided(t, r, said) \in Bumps
  <2>1. t[Override(r)] \in Bumps \cup {None}
    BY TreeHolds
  <2>2. said[r] \in Bumps
    OBVIOUS
  <2> QED
    BY <2>1, <2>2 DEF Decided
<1> QED
  BY <1>2, <1>3

-----------------------------------------------------------------------------
(* One release *)

\* Whether the files of a resource are one release is read from those files.
LEMMA WholeReads ==
  ASSUME NEW r, NEW t, NEW u, \A p \in FilesOf(r) : t[p] = u[p]
  PROVE  /\ PinnedVersions(t, r) = PinnedVersions(u, r)
         /\ t[Latest(r)] = u[Latest(r)]
         /\ Unreleased(t, r) <=> Unreleased(u, r)
         /\ Whole(t, r) => Whole(u, r)
<1>1. /\ t[Latest(r)] = u[Latest(r)] /\ t[Index(r)] = u[Index(r)]
      /\ \A v \in Versions : t[Pinned(r, v)] = u[Pinned(r, v)] /\ t[Record(r, v)] = u[Record(r, v)]
  BY DEF FilesOf
<1>2. PinnedVersions(t, r) = PinnedVersions(u, r)
  BY <1>1 DEF PinnedVersions
<1>3. Unreleased(t, r) <=> Unreleased(u, r)
  BY <1>1, <1>2 DEF Unreleased
<1>4. PinnedVersions(u, r) \subseteq Versions
  BY DEF PinnedVersions
<1>5. ASSUME OneRelease(t, r), t[Latest(r)].version \in PinnedVersions(t, r) PROVE OneRelease(u, r)
  <2>1. \A v \in Versions : RecordSound(u, r, v)
    <3> TAKE v \in Versions
    <3>1. RecordSound(t, r, v)
      BY <1>5 DEF OneRelease
    <3>2. u[Record(r, v)] = t[Record(r, v)] /\ u[Pinned(r, v)] = t[Pinned(r, v)]
      BY <1>1
    <3>3. u[Record(r, v)] # None => t[Record(r, v)].from \in Versions
      BY <3>1, <3>2, <1>2, <1>4 DEF RecordSound
    <3>4. u[Record(r, v)] # None =>
            u[Pinned(r, t[Record(r, v)].from)] = t[Pinned(r, t[Record(r, v)].from)]
      BY <3>3, <1>1
    <3> QED
      BY <3>1, <3>2, <3>4, <1>2 DEF RecordSound
  <2>2. u[Pinned(r, t[Latest(r)].version)] = t[Pinned(r, t[Latest(r)].version)]
    BY <1>1, <1>2, <1>4, <1>5
  <2> QED
    BY <2>1, <2>2, <1>1, <1>2, <1>5 DEF OneRelease
<1>6. ASSUME Whole(t, r) PROVE Whole(u, r)
  <2>1. CASE Unreleased(t, r)
    BY <2>1, <1>3 DEF Whole
  <2>2. CASE ~ Unreleased(t, r)
    <3> DEFINE versions == PinnedVersions(t, r)
               last == t[Latest(r)].version
    <3>1. /\ OneRelease(t, r)
          /\ {First, last} \subseteq versions
          /\ \A v \in versions : AtMost(v, last)
          /\ \A v \in versions \ {First} :
                /\ t[Record(r, v)] # None
                /\ t[Record(r, v)].from = Highest({w \in versions \ {v} : AtMost(w, v)})
      BY <1>6, <2>2 DEF Whole
    <3>2. OneRelease(u, r)
      BY <3>1, <1>5
    <3>3. \A v \in versions : u[Record(r, v)] = t[Record(r, v)]
      BY <1>1, <1>2, <1>4
    <3>4. /\ {First, last} \subseteq versions
          /\ \A v \in versions : AtMost(v, last)
          /\ \A v \in versions \ {First} :
                /\ u[Record(r, v)] # None
                /\ u[Record(r, v)].from = Highest({w \in versions \ {v} : AtMost(w, v)})
      BY <3>1, <3>3
    <3>5. versions = PinnedVersions(u, r) /\ last = u[Latest(r)].version
      BY <1>1, <1>2
    <3> HIDE DEF versions, last
    <3> QED
      BY <3>2, <3>4, <3>5 DEF Whole
  <2> QED
    BY <2>1, <2>2
<1> QED
  BY <1>1, <1>2, <1>3, <1>6

\* The version a release makes is later than each there is.
LEMMA NextIsNew ==
  ASSUME NEW t, NEW said, NEW r \in Resources, Whole(t, r), NEW v, v = NextVersion(t, r, said)
  PROVE  /\ v \notin PinnedVersions(t, r)
         /\ \A w \in PinnedVersions(t, r) : AtMost(w, v)
         /\ Unreleased(t, r) => v = First
         /\ ~ Unreleased(t, r) => /\ v = Bumped(t[Latest(r)].version, Decided(t, r, said))
                                  /\ v # First
                                  /\ t[Latest(r)].version \in PinnedVersions(t, r)
<1>1. CASE Unreleased(t, r)
  <2>1. v = First
    BY <1>1 DEF NextVersion
  <2>2. PinnedVersions(t, r) = {}
    BY <1>1 DEF Unreleased
  <2> QED
    BY <1>1, <2>1, <2>2
<1>2. CASE ~ Unreleased(t, r)
  <2> DEFINE last == t[Latest(r)].version
  <2>1. v = Bumped(last, Decided(t, r, said))
    BY <1>2 DEF NextVersion
  <2>2. /\ {First, last} \subseteq PinnedVersions(t, r)
        /\ \A w \in PinnedVersions(t, r) : AtMost(w, last)
    BY <1>2 DEF Whole
  <2>3. PinnedVersions(t, r) \subseteq Nat \X Nat
    BY VersionsAssumption DEF PinnedVersions
  <2> HIDE DEF last
  <2>4. /\ ~ AtMost(v, last)
        /\ \A w \in Nat \X Nat : AtMost(w, last) => AtMost(w, v)
    BY <2>1, <2>2, <2>3, BumpIsLater
  <2>5. v \notin PinnedVersions(t, r)
    BY <2>2, <2>4
  <2>6. \A w \in PinnedVersions(t, r) : AtMost(w, v)
    BY <2>2, <2>3, <2>4
  <2>7. v # First
    BY <2>2, <2>5
  <2> QED
    BY <1>2, <2>1, <2>2, <2>5, <2>6, <2>7 DEF last
<1> QED
  BY <1>1, <1>2

\* The pinned versions after a release.
LEMMA PinnedAfter ==
  ASSUME NEW t, IsTree(t), NEW said, NEW r \in Resources, Changed(t, r),
         NEW v \in Versions, v = NextVersion(t, r, said), NEW head, head = ReleaseTree(t, said)
  PROVE  PinnedVersions(head, r) = PinnedVersions(t, r) \cup {v}
<1>1. /\ \A w \in Versions : head[Pinned(r, w)] = IF w = v THEN t[Model(r)] ELSE t[Pinned(r, w)]
      /\ head[Latest(r)] = [version |-> v, content |-> t[Model(r)]]
      /\ head[Index(r)] = PinnedVersions(t, r) \cup {v}
      /\ head[Override(r)] = None
      /\ \A w \in Versions :
              head[Record(r, w)] =
                IF w = v /\ ~ Unreleased(t, r)
                THEN [from |-> t[Latest(r)].version, bump |-> Decided(t, r, said),
                      old |-> t[Latest(r)].content, new |-> t[Model(r)]]
                ELSE t[Record(r, w)]
  BY Released
<1>2. t[Model(r)] # None
  BY TreeHolds, NoneAssumption
<1> QED
  BY <1>1, <1>2 DEF PinnedVersions

\* A release of a whole resource is whole.
LEMMA WholeAfter ==
  ASSUME NEW t, IsTree(t), NEW said \in [Resources -> Bumps], NEW r \in Resources,
         Changed(t, r), Whole(t, r),
         NEW v \in Versions, v = NextVersion(t, r, said), NEW head, head = ReleaseTree(t, said)
  PROVE  Whole(head, r)
<1> DEFINE before == PinnedVersions(t, r)
           after == PinnedVersions(head, r)
           last == t[Latest(r)].version
           entry == [from |-> last, bump |-> Decided(t, r, said),
                     old |-> t[Latest(r)].content, new |-> t[Model(r)]]
<1>1. /\ \A w \in Versions : head[Pinned(r, w)] = IF w = v THEN t[Model(r)] ELSE t[Pinned(r, w)]
      /\ head[Latest(r)] = [version |-> v, content |-> t[Model(r)]]
      /\ head[Index(r)] = before \cup {v}
      /\ \A w \in Versions :
            head[Record(r, w)] = IF w = v /\ ~ Unreleased(t, r) THEN entry ELSE t[Record(r, w)]
  BY Released
<1>2. after = before \cup {v}
  BY PinnedAfter
<1>3. /\ v \notin before
      /\ \A w \in before : AtMost(w, v)
  BY NextIsNew
<1>4. before \subseteq Versions /\ Versions \subseteq Nat \X Nat
  BY VersionsAssumption DEF PinnedVersions
<1>5. t[Model(r)] \in Contents
  BY TreeHolds
<1> HIDE DEF before, after
<1>6. AtMost(v, v)
  BY <1>4 DEF AtMost
<1>7. Highest(after) = v
  BY <1>2, <1>3, <1>4, <1>6, HighestIs
<1>8. head[Latest(r)].version = v /\ head[Latest(r)].content = t[Model(r)]
      /\ head[Latest(r)] # None
  <2>1. [version |-> v, content |-> t[Model(r)]] \in [version : Versions, content : Contents]
    BY <1>5
  <2> QED
    BY <2>1, <1>1, NoneAssumption
<1>9. head[Pinned(r, v)] = t[Model(r)]
  BY <1>1
<1>10. /\ after # {}
       /\ head[Latest(r)] # None
       /\ head[Latest(r)].version = Highest(after)
       /\ head[Latest(r)].content = head[Pinned(r, head[Latest(r)].version)]
       /\ head[Index(r)] = after
       /\ v \in after
       /\ \A w \in after : AtMost(w, v)
  BY <1>1, <1>2, <1>3, <1>6, <1>7, <1>8, <1>9
<1>11. CASE Unreleased(t, r)
  <2>1. before = {} /\ \A w \in Versions : t[Record(r, w)] = None
    BY <1>11 DEF Unreleased, before
  <2>2. v = First
    BY <1>11, NextIsNew
  <2>3. \A w \in Versions : head[Record(r, w)] = None
    BY <1>1, <1>11, <2>1
  <2>4. \A w \in Versions : RecordSound(head, r, w)
    BY <2>3 DEF RecordSound
  <2>5. OneRelease(head, r)
    BY <2>4, <1>10 DEF OneRelease, after
  <2>6. after \ {First} = {} /\ First \in after
    BY <2>1, <2>2, <1>2
  <2> QED
    BY <2>5, <2>6, <1>8, <1>10 DEF Whole, after
<1>12. CASE ~ Unreleased(t, r)
  <2>1. /\ OneRelease(t, r)
        /\ {First, last} \subseteq before
        /\ \A w \in before : AtMost(w, last)
        /\ \A w \in before \ {First} :
              /\ t[Record(r, w)] # None
              /\ t[Record(r, w)].from = Highest({x \in before \ {w} : AtMost(x, w)})
    BY <1>12 DEF Whole, before
  <2>2. v = Bumped(last, Decided(t, r, said)) /\ v # First
    BY <1>12, NextIsNew
  <2>3. last # v /\ last \in Versions
    BY <2>1, <1>3, <1>4
  <2>4. head[Record(r, v)] = entry
    BY <1>1, <1>12
  <2>5. /\ entry.from = last /\ entry.bump = Decided(t, r, said)
        /\ entry.old = t[Latest(r)].content /\ entry.new = t[Model(r)]
    OBVIOUS
  <2>6. t[Latest(r)].content = t[Pinned(r, last)]
    BY <2>1 DEF OneRelease
  <2> HIDE DEF entry
  <2>7. RecordSound(head, r, v)
    <3>1. {v, last} \subseteq after
      BY <2>1, <1>2
    <3>2. head[Pinned(r, last)] = t[Pinned(r, last)]
      BY <1>1, <2>3
    <3> HIDE DEF last
    <3> QED
      BY <3>1, <3>2, <2>2, <2>4, <2>5, <2>6, <1>9 DEF RecordSound, after
  <2>8. ASSUME NEW w \in Versions, w # v PROVE RecordSound(head, r, w)
    <3>1. head[Record(r, w)] = t[Record(r, w)]
      BY <1>1, <2>8
    <3>2. CASE t[Record(r, w)] = None
      BY <3>1, <3>2 DEF RecordSound
    <3>3. CASE t[Record(r, w)] # None
      <4> DEFINE from == t[Record(r, w)].from
      <4>1. /\ {w, from} \subseteq before
            /\ w = Bumped(from, t[Record(r, w)].bump)
            /\ t[Record(r, w)].old = t[Pinned(r, from)]
            /\ t[Record(r, w)].new = t[Pinned(r, w)]
        BY <2>1, <3>3 DEF OneRelease, RecordSound, before
      <4>2. head[Pinned(r, w)] = t[Pinned(r, w)] /\ head[Pinned(r, from)] = t[Pinned(r, from)]
        BY <4>1, <1>1, <1>3, <1>4
      <4>3. {w, from} \subseteq after
        BY <4>1, <1>2
      <4> QED
        BY <3>1, <4>1, <4>2, <4>3 DEF RecordSound, after
    <3> QED
      BY <3>2, <3>3
  <2>9. OneRelease(head, r)
    BY <2>7, <2>8, <1>10 DEF OneRelease, after
  <2>10. head[Record(r, v)] # None
    BY <2>4, <1>12, EntryIs, NoneAssumption DEF entry, last
  <2>11. {x \in after \ {v} : AtMost(x, v)} = before
    BY <1>2, <1>3
  <2>12. Highest(before) = last
    BY <2>1, <1>4, HighestIs
  <2>13. ASSUME NEW w \in before \ {First}
         PROVE  /\ head[Record(r, w)] # None
                /\ head[Record(r, w)].from = Highest({x \in after \ {w} : AtMost(x, w)})
    <3>1. head[Record(r, w)] = t[Record(r, w)]
      BY <1>1, <1>3, <1>4
    <3>2. ~ AtMost(v, w)
      <4>1. w # v /\ AtMost(w, v) /\ w \in Nat \X Nat /\ v \in Nat \X Nat
        BY <1>3, <1>4
      <4> QED
        BY <4>1 DEF AtMost
    <3>3. {x \in after \ {w} : AtMost(x, w)} = {x \in before \ {w} : AtMost(x, w)}
      BY <3>2, <1>2
    <3> QED
      BY <3>1, <3>3, <2>1
  <2>14. ASSUME NEW w \in after \ {First}
         PROVE  /\ head[Record(r, w)] # None
                /\ head[Record(r, w)].from = Highest({x \in after \ {w} : AtMost(x, w)})
    <3>1. CASE w = v
      BY <3>1, <2>4, <2>5, <2>10, <2>11, <2>12
    <3>2. CASE w # v
      BY <3>2, <2>13, <1>2
    <3> QED
      BY <3>1, <3>2
  <2>15. First \in after
    BY <2>1, <1>2
  <2> QED
    BY <2>9, <2>14, <2>15, <1>8, <1>10 DEF Whole, after
<1> QED
  BY <1>11, <1>12

\* The tree a release writes is a tree of whole resources.
LEMMA SoundAfter ==
  ASSUME NEW t, Sound(t), NEW said \in [Resources -> Bumps], InBounds(t, said)
  PROVE  Sound(ReleaseTree(t, said))
<1> DEFINE head == ReleaseTree(t, said)
<1>1. IsTree(t) /\ \A r \in Resources : Whole(t, r)
  BY DEF Sound
<1>2. /\ head = [p \in Paths |-> head[p]]
      /\ \A r \in Resources : head[Model(r)] = t[Model(r)]
      /\ head[Package] = t[Package]
      /\ head[Stamp] = StampOf(head)
  BY ReleaseTreeKeeps
<1>3. \A p \in Paths \ {Stamp} : t[p] \in File(p)
  BY <1>1 DEF IsTree
<1> HIDE DEF head
<1>4. ASSUME NEW r \in Resources, ~ Changed(t, r)
      PROVE  \A p \in FilesOf(r) \cup {Override(r)} : head[p] = t[p]
  BY <1>4, NotReleased DEF head
<1>5. ASSUME NEW r \in Resources, Changed(t, r)
      PROVE  \A p \in FilesOf(r) \cup {Override(r)} : head[p] \in File(p)
  <2> DEFINE v == NextVersion(t, r, said)
             entry == [from |-> t[Latest(r)].version, bump |-> Decided(t, r, said),
                       old |-> t[Latest(r)].content, new |-> t[Model(r)]]
  <2>1. v \in Versions
    BY <1>5 DEF InBounds
  <2> HIDE DEF v
  <2>2. /\ \A w \in Versions :
              head[Pinned(r, w)] = IF w = v THEN t[Model(r)] ELSE t[Pinned(r, w)]
        /\ head[Latest(r)] = [version |-> v, content |-> t[Model(r)]]
        /\ head[Index(r)] = PinnedVersions(t, r) \cup {v}
        /\ head[Override(r)] = None
        /\ \A w \in Versions :
              head[Record(r, w)] = IF w = v /\ ~ Unreleased(t, r) THEN entry ELSE t[Record(r, w)]
    BY <1>5, <2>1, Released DEF head, v
  <2>3. ~ Unreleased(t, r) =>
          entry \in [from : Versions, bump : Bumps, old : Contents, new : Contents]
    BY <1>1, EntryIs
  <2> HIDE DEF entry
  <2>4. t[Model(r)] \in Contents
    BY <1>1, TreeHolds
  <2>5. ASSUME NEW w \in Versions
        PROVE  head[Pinned(r, w)] \in File(Pinned(r, w)) /\ head[Record(r, w)] \in File(Record(r, w))
    <3>1. /\ t[Pinned(r, w)] \in Contents \cup {None}
          /\ t[Record(r, w)] \in
                [from : Versions, bump : Bumps, old : Contents, new : Contents] \cup {None}
      BY <1>1, TreeHolds
    <3>2. head[Pinned(r, w)] \in Contents \cup {None}
      BY <3>1, <2>2, <2>4
    <3>3. head[Record(r, w)] \in
              [from : Versions, bump : Bumps, old : Contents, new : Contents] \cup {None}
      BY <3>1, <2>2, <2>3
    <3> QED
      BY <3>2, <3>3, FileKinds
  <2>6. head[Latest(r)] \in File(Latest(r))
    <3>1. [version |-> v, content |-> t[Model(r)]] \in [version : Versions, content : Contents]
      BY <2>1, <2>4
    <3> QED
      BY <3>1, <2>2, FileKinds
  <2>7. head[Index(r)] \in File(Index(r))
    <3>1. PinnedVersions(t, r) \cup {v} \in SUBSET Versions
      BY <2>1 DEF PinnedVersions
    <3> QED
      BY <3>1, <2>2, FileKinds
  <2>8. head[Override(r)] \in File(Override(r))
    BY <2>2, FileKinds
  <2> QED
    BY <2>5, <2>6, <2>7, <2>8 DEF FilesOf
<1>6. \A p \in Paths \ {Stamp} : head[p] \in File(p)
  <2> TAKE p \in Paths \ {Stamp}
  <2>1. CASE p = Package
    BY <2>1, <1>2, <1>3
  <2>2. ASSUME NEW r \in Resources, p \in FilesOf(r) \cup {Override(r)} PROVE head[p] \in File(p)
    <3>1. CASE Changed(t, r)
      BY <2>2, <3>1, <1>5
    <3>2. CASE ~ Changed(t, r)
      BY <2>2, <3>2, <1>3, <1>4
    <3> QED
      BY <3>1, <3>2
  <2>3. ASSUME NEW r \in Resources, p = Model(r) PROVE head[p] \in File(p)
    BY <2>3, <1>2, <1>3
  <2> QED
    BY <2>1, <2>2, <2>3, PathKinds
<1>7. IsTree(head)
  BY <1>2, <1>6, MakesTree
<1>8. ASSUME NEW r \in Resources PROVE Whole(head, r)
  <2>1. CASE Changed(t, r)
    <3>1. NextVersion(t, r, said) \in Versions
      BY <2>1 DEF InBounds
    <3> QED
      BY <3>1, <2>1, <1>1, WholeAfter DEF head
  <2>2. CASE ~ Changed(t, r)
    <3>1. \A p \in FilesOf(r) : t[p] = head[p]
      BY <2>2, <1>4
    <3> QED
      BY <3>1, <1>1, WholeReads
  <2> QED
    BY <2>1, <2>2
<1> QED
  BY <1>7, <1>8 DEF Sound, head

-----------------------------------------------------------------------------
(* Merges *)

\* Main moves forward: a resource keeps its release files, or keeps its pinned files and
\* points at a version it did not have.
Advances(u, r) ==
    \/ \A p \in FilesOf(r) : u[p] = main[p]
    \/ /\ \A v \in PinnedVersions(main, r) : u[Pinned(r, v)] = main[Pinned(r, v)]
       /\ u[Latest(r)] # None
       /\ u[Latest(r)].version \notin PinnedVersions(main, r)

\* Moving forward keeps the pinned files.
LEMMA AdvancesKeeps ==
  ASSUME NEW u, NEW r \in Resources, Advances(u, r), NEW v \in Versions, main[Pinned(r, v)] # None
  PROVE  u[Pinned(r, v)] = main[Pinned(r, v)]
<1>1. Pinned(r, v) \in FilesOf(r) /\ v \in PinnedVersions(main, r)
  BY DEF FilesOf, PinnedVersions
<1> QED
  BY <1>1 DEF Advances

\* A release pull request without conflict either has nothing for main that main has not,
\* or meets the main it was made from and brings its files.
LEMMA MergeEither ==
  ASSUME NEW pr, NEW said \in [Resources -> Bumps], Sound(pr.base), Past(pr.base),
         InBounds(pr.base, said), pr.head = ReleaseTree(pr.base, said),
         Sound(main), ~ Conflict(pr), NEW r \in Resources
  PROVE  \/ \A p \in FilesOf(r) : Merged(pr)[p] = main[p]
         \/ /\ Changed(pr.base, r)
            /\ \A p \in FilesOf(r) : main[p] = pr.base[p] /\ Merged(pr)[p] = pr.head[p]
<1> DEFINE base == pr.base
           head == pr.head
           m == Merged(pr)
           v == NextVersion(base, r, said)
<1>1. \A p \in FilesOf(r) : m[p] = IF head[p] = base[p] THEN main[p] ELSE head[p]
  BY PathsAre DEF Merged
<1>2. \A p \in FilesOf(r) : head[p] # base[p] => main[p] = base[p] \/ main[p] = head[p]
  BY PathsAre DEF Conflict
<1>3. IsTree(base) /\ Whole(base, r) /\ IsTree(main) /\ Whole(main, r)
  BY DEF Sound
<1>4. main[Latest(r)] = base[Latest(r)] => \A p \in FilesOf(r) : main[p] = base[p]
  BY DEF Past
<1>5. head = ReleaseTree(base, said)
  OBVIOUS
<1>6. Changed(base, r) => v \in Versions
  BY DEF InBounds
<1> HIDE DEF base, head, m, v
<1>7. CASE ~ Changed(base, r)
  <2>1. \A p \in FilesOf(r) : head[p] = base[p]
    BY <1>5, <1>7, NotReleased
  <2> QED
    BY <1>1, <2>1 DEF m
<1>8. CASE Changed(base, r) /\ main[Latest(r)] = base[Latest(r)]
  <2>1. \A p \in FilesOf(r) : main[p] = base[p] /\ m[p] = head[p]
    BY <1>1, <1>4, <1>8
  <2> QED
    BY <2>1, <1>8 DEF m, base, head
<1>9. CASE Changed(base, r) /\ main[Latest(r)] # base[Latest(r)]
  <2>1. v \in Versions
    BY <1>6, <1>9
  <2>2. v = NextVersion(base, r, said)
    BY DEF v
  <2> DEFINE entry == [from |-> base[Latest(r)].version, bump |-> Decided(base, r, said),
                       old |-> base[Latest(r)].content, new |-> base[Model(r)]]
  <2>3. /\ \A w \in Versions :
              head[Pinned(r, w)] = IF w = v THEN base[Model(r)] ELSE base[Pinned(r, w)]
        /\ head[Latest(r)] = [version |-> v, content |-> base[Model(r)]]
        /\ head[Index(r)] = PinnedVersions(base, r) \cup {v}
        /\ head[Override(r)] = None
        /\ \A w \in Versions :
              head[Record(r, w)] =
                IF w = v /\ ~ Unreleased(base, r) THEN entry ELSE base[Record(r, w)]
    BY <1>5, <1>9, <2>1, <2>2, Released
  <2> HIDE DEF entry
  <2>4. /\ v \notin PinnedVersions(base, r)
        /\ ~ Unreleased(base, r) => v # First /\ base[Latest(r)].version \in PinnedVersions(base, r)
        /\ Unreleased(base, r) => v = First
    BY <1>3, <2>2, NextIsNew
  <2>5. /\ Latest(r) \in FilesOf(r) /\ Index(r) \in FilesOf(r)
        /\ \A w \in Versions : Pinned(r, w) \in FilesOf(r) /\ Record(r, w) \in FilesOf(r)
    BY DEF FilesOf
  <2>6. main[Latest(r)] = head[Latest(r)]
    <3>1. head[Latest(r)] # base[Latest(r)]
      <4>1. CASE Unreleased(base, r)
        <5>1. base[Latest(r)] = None
          BY <4>1 DEF Unreleased
        <5>2. [version |-> v, content |-> base[Model(r)]] \in [version : Versions, content : Contents]
          BY <2>1, <1>3, TreeHolds
        <5> QED
          BY <5>1, <5>2, <2>3, NoneAssumption
      <4>2. CASE ~ Unreleased(base, r)
        <5>1. base[Latest(r)].version # v
          BY <4>2, <2>4
        <5>2. head[Latest(r)].version = v
          BY <2>3
        <5> QED
          BY <5>1, <5>2
      <4> QED
        BY <4>1, <4>2
    <3> QED
      BY <3>1, <1>2, <1>9, <2>5
  <2>7. main[Latest(r)].version = v /\ main[Latest(r)].content = base[Model(r)] /\ main[Latest(r)] # None
    <3>1. [version |-> v, content |-> base[Model(r)]] \in [version : Versions, content : Contents]
      BY <2>1, <1>3, TreeHolds
    <3> QED
      BY <3>1, <2>3, <2>6, NoneAssumption
  <2>8. ~ Unreleased(main, r)
    BY <2>7 DEF Unreleased
  <2>9. /\ OneRelease(main, r)
        /\ v \in PinnedVersions(main, r)
        /\ \A w \in PinnedVersions(main, r) \ {First} : main[Record(r, w)] # None
    BY <2>7, <2>8, <1>3 DEF Whole
  <2>10. ASSUME NEW w \in Versions PROVE m[Pinned(r, w)] = main[Pinned(r, w)]
    <3>1. CASE w = v
      <4>1. main[Pinned(r, v)] = base[Model(r)]
        BY <2>7, <2>9 DEF OneRelease
      <4> QED
        BY <3>1, <4>1, <2>3, <2>5, <1>1
    <3>2. CASE w # v
      BY <3>2, <2>3, <2>5, <1>1
    <3> QED
      BY <3>1, <3>2
  <2>11. m[Index(r)] = main[Index(r)]
    <3>1. main[Index(r)] = PinnedVersions(main, r)
      BY <2>9 DEF OneRelease
    <3>2. main[Index(r)] # base[Index(r)]
      <4>1. CASE Unreleased(base, r)
        <5>1. base[Index(r)] = None
          BY <4>1 DEF Unreleased
        <5>2. PinnedVersions(main, r) \in SUBSET Versions
          BY DEF PinnedVersions
        <5> QED
          BY <5>1, <5>2, <3>1, NoneAssumption
      <4>2. CASE ~ Unreleased(base, r)
        <5>1. base[Index(r)] = PinnedVersions(base, r)
          BY <4>2, <1>3 DEF Whole, OneRelease
        <5> QED
          BY <5>1, <3>1, <2>4, <2>9
      <4> QED
        BY <4>1, <4>2
    <3> QED
      BY <3>2, <1>1, <1>2, <2>5
  <2>12. ASSUME NEW w \in Versions PROVE m[Record(r, w)] = main[Record(r, w)]
    <3>1. CASE w = v /\ ~ Unreleased(base, r)
      <4>1. main[Record(r, v)] # None
        BY <3>1, <2>4, <2>9
      <4>2. base[Record(r, v)] = None
        <5>1. RecordSound(base, r, v)
          BY <3>1, <2>1, <1>3 DEF Whole, OneRelease
        <5> QED
          BY <5>1, <2>4 DEF RecordSound
      <4> QED
        BY <3>1, <4>1, <4>2, <1>1, <1>2, <2>5
    <3>2. CASE ~ (w = v /\ ~ Unreleased(base, r))
      BY <3>2, <2>3, <2>5, <1>1
    <3> QED
      BY <3>1, <3>2
  <2>13. m[Latest(r)] = main[Latest(r)]
    BY <2>5, <2>6, <1>1
  <2>14. \A p \in FilesOf(r) : m[p] = main[p]
    BY <2>10, <2>11, <2>12, <2>13 DEF FilesOf
  <2> QED
    BY <2>14 DEF m
<1> QED
  BY <1>7, <1>8, <1>9

\* Merging a release moves main forward, and it stays whole.
LEMMA MergeAdvances ==
  ASSUME NEW pr, ReleasePr(pr), Sound(main), ~ Conflict(pr)
  PROVE  /\ Sound(Merged(pr))
         /\ \A r \in Resources : Advances(Merged(pr), r)
<1> DEFINE m == Merged(pr)
<1>1. PICK said \in [Resources -> Bumps] :
        InBounds(pr.base, said) /\ pr.head = ReleaseTree(pr.base, said)
  BY DEF ReleasePr
<1>2. Sound(pr.base) /\ Past(pr.base)
  BY DEF ReleasePr
<1>3. Sound(pr.head)
  BY <1>1, <1>2, SoundAfter
<1>4. ASSUME NEW r \in Resources
      PROVE  \/ \A p \in FilesOf(r) : m[p] = main[p]
             \/ /\ Changed(pr.base, r)
                /\ \A p \in FilesOf(r) : main[p] = pr.base[p] /\ m[p] = pr.head[p]
  BY <1>1, <1>2, MergeEither
<1>5. IsTree(m)
  <2> DEFINE ps == {p \in Paths : pr.head[p] = pr.base[p]}
             x == [p \in Paths |-> IF p \in ps THEN main[p] ELSE pr.head[p]]
  <2>1. x = m
    BY DEF Merged
  <2>2. IsTree(main) /\ IsTree(pr.head)
    BY <1>3 DEF Sound
  <2> HIDE DEF ps, m
  <2>3. IsTree(x)
    BY <2>2, MixesTree
  <2> QED
    BY <2>1, <2>3
<1> HIDE DEF m
<1>6. ASSUME NEW r \in Resources PROVE Whole(m, r) /\ Advances(m, r)
  <2>1. CASE \A p \in FilesOf(r) : m[p] = main[p]
    <3>1. Whole(m, r)
      BY <2>1, WholeReads DEF Sound
    <3> QED
      BY <3>1, <2>1 DEF Advances
  <2>2. CASE /\ Changed(pr.base, r)
             /\ \A p \in FilesOf(r) : main[p] = pr.base[p] /\ m[p] = pr.head[p]
    <3> DEFINE v == NextVersion(pr.base, r, said)
    <3>1. Whole(m, r)
      BY <2>2, <1>3, WholeReads DEF Sound
    <3>2. v \in Versions
      BY <1>1, <2>2 DEF InBounds
    <3>3. v \notin PinnedVersions(pr.base, r)
      BY <1>2, NextIsNew DEF Sound
    <3>4. PinnedVersions(main, r) = PinnedVersions(pr.base, r)
      BY <2>2, WholeReads
    <3>5. /\ \A w \in Versions :
              pr.head[Pinned(r, w)] = IF w = v THEN pr.base[Model(r)] ELSE pr.base[Pinned(r, w)]
          /\ pr.head[Latest(r)] = [version |-> v, content |-> pr.base[Model(r)]]
          /\ pr.head[Index(r)] = PinnedVersions(pr.base, r) \cup {v}
          /\ pr.head[Override(r)] = None
          /\ \A w \in Versions :
              pr.head[Record(r, w)] =
                IF w = v /\ ~ Unreleased(pr.base, r)
                THEN [from |-> pr.base[Latest(r)].version, bump |-> Decided(pr.base, r, said),
                      old |-> pr.base[Latest(r)].content, new |-> pr.base[Model(r)]]
                ELSE pr.base[Record(r, w)]
      BY <1>1, <2>2, <3>2, Released
    <3>6. /\ Latest(r) \in FilesOf(r)
          /\ \A w \in Versions : Pinned(r, w) \in FilesOf(r)
      BY DEF FilesOf
    <3> HIDE DEF v
    <3>7. m[Latest(r)].version = v /\ m[Latest(r)] # None
      <4>1. [version |-> v, content |-> pr.base[Model(r)]] \in [version : Versions, content : Contents]
        BY <3>2, <1>2, TreeHolds DEF Sound
      <4> QED
        BY <4>1, <2>2, <3>5, <3>6, NoneAssumption
    <3>8. \A w \in PinnedVersions(main, r) : w \in Versions /\ w # v
      BY <3>3, <3>4 DEF PinnedVersions
    <3>9. \A w \in PinnedVersions(main, r) : m[Pinned(r, w)] = main[Pinned(r, w)]
      BY <2>2, <3>5, <3>6, <3>8
    <3>10. v \notin PinnedVersions(main, r)
      BY <3>3, <3>4
    <3> QED
      BY <3>1, <3>7, <3>9, <3>10 DEF Advances
  <2> QED
    BY <1>4, <2>1, <2>2
<1> QED
  BY <1>5, <1>6 DEF Sound, m

\* Merging a pull request that leaves the release files alone moves main forward.
LEMMA AuthorsAdvance ==
  ASSUME NEW pr, IsTree(pr.head), Sound(main), \A p \in ReleaseOnly : pr.head[p] = pr.base[p]
  PROVE  /\ Sound(Merged(pr))
         /\ \A r \in Resources : Advances(Merged(pr), r)
         /\ \A r \in Resources : \A p \in FilesOf(r) : Merged(pr)[p] = main[p]
<1> DEFINE m == Merged(pr)
           ps == {p \in Paths : pr.head[p] = pr.base[p]}
           x == [p \in Paths |-> IF p \in ps THEN main[p] ELSE pr.head[p]]
<1>1. x = m
  BY DEF Merged
<1>2. \A r \in Resources : \A p \in FilesOf(r) : m[p] = main[p]
  BY PathsAre DEF Merged
<1>3. IsTree(main) /\ \A r \in Resources : Whole(main, r)
  BY DEF Sound
<1> HIDE DEF ps, m
<1>4. IsTree(x)
  BY <1>3, MixesTree
<1>5. ASSUME NEW r \in Resources PROVE Whole(m, r) /\ Advances(m, r)
  <2>1. \A p \in FilesOf(r) : main[p] = m[p]
    BY <1>2
  <2>2. Whole(m, r)
    BY <2>1, <1>3, WholeReads
  <2> QED
    BY <2>1, <2>2 DEF Advances
<1> QED
  BY <1>1, <1>2, <1>4, <1>5 DEF Sound, m

\* What main was stays what it was when main moves forward.
LEMMA PastStays ==
  ASSUME NEW t, Sound(t), Past(t), NEW u, \A r \in Resources : Advances(u, r)
  PROVE  \A r \in Resources :
            /\ \A v \in PinnedVersions(t, r) : u[Pinned(r, v)] = t[Pinned(r, v)]
            /\ u[Latest(r)] = t[Latest(r)] => \A p \in FilesOf(r) : u[p] = t[p]
<1> TAKE r \in Resources
<1>1. /\ \A v \in PinnedVersions(t, r) : main[Pinned(r, v)] = t[Pinned(r, v)]
      /\ main[Latest(r)] = t[Latest(r)] => \A p \in FilesOf(r) : main[p] = t[p]
  BY DEF Past
<1>2. \A v \in PinnedVersions(t, r) : v \in Versions /\ t[Pinned(r, v)] # None
  BY DEF PinnedVersions
<1>3. PinnedVersions(t, r) \subseteq PinnedVersions(main, r)
  BY <1>1, <1>2 DEF PinnedVersions
<1>4. \A v \in PinnedVersions(t, r) : u[Pinned(r, v)] = t[Pinned(r, v)]
  BY <1>1, <1>2, AdvancesKeeps
<1>5. ASSUME u[Latest(r)] = t[Latest(r)] PROVE \A p \in FilesOf(r) : u[p] = t[p]
  <2>1. CASE \A p \in FilesOf(r) : u[p] = main[p]
    <3>1. Latest(r) \in FilesOf(r)
      BY DEF FilesOf
    <3> QED
      BY <3>1, <2>1, <1>1, <1>5
  <2>2. CASE /\ u[Latest(r)] # None
             /\ u[Latest(r)].version \notin PinnedVersions(main, r)
    <3>1. t[Latest(r)] # None /\ t[Latest(r)].version \notin PinnedVersions(t, r)
      BY <2>2, <1>3, <1>5
    <3>2. Whole(t, r) /\ ~ Unreleased(t, r)
      BY <3>1 DEF Sound, Unreleased
    <3> QED
      BY <3>1, <3>2 DEF Whole
  <2> QED
    BY <2>1, <2>2 DEF Advances
<1> QED
  BY <1>4, <1>5

\* The pull requests and the runs in progress keep their book when main moves forward.
LEMMA BooksMove ==
  ASSUME NEW u, \A r \in Resources : Advances(u, r), main' = u
  PROVE  /\ \A pr : ReleasePr(pr) => ReleasePr(pr)'
         /\ \A pr : AuthorsPr(pr) => AuthorsPr(pr)'
         /\ \A t : Sound(t) /\ Past(t) => Past(t)'
<1>1. ASSUME NEW t, Sound(t), Past(t) PROVE Past(t)'
  BY <1>1, PastStays DEF Past
<1>2. ASSUME NEW pr, ReleasePr(pr) PROVE ReleasePr(pr)'
  BY <1>1, <1>2 DEF ReleasePr
<1>3. ASSUME NEW pr, AuthorsPr(pr) PROVE AuthorsPr(pr)'
  <2>1. CASE \A p \in ReleaseOnly : pr.head[p] = pr.base[p]
    BY <2>1 DEF AuthorsPr
  <2>2. ASSUME ~ pr.checked, NEW r \in Resources, NEW v \in Versions,
               main[Pinned(r, v)] # None,
               main[Pinned(r, v)] = pr.base[Pinned(r, v)],
               main[Pinned(r, v)] # pr.head[Pinned(r, v)]
        PROVE  AuthorsPr(pr)'
    <3>1. main'[Pinned(r, v)] = main[Pinned(r, v)]
      BY <2>2, AdvancesKeeps
    <3> QED
      BY <2>2, <3>1 DEF AuthorsPr
  <2> QED
    BY <1>3, <2>1, <2>2 DEF AuthorsPr
<1> QED
  BY <1>1, <1>2, <1>3

\* They keep it when main stays.
LEMMA BooksStay ==
  ASSUME UNCHANGED main
  PROVE  /\ \A pr : ReleasePr(pr) => ReleasePr(pr)'
         /\ \A pr : AuthorsPr(pr) => AuthorsPr(pr)'
         /\ \A t : Past(t) => Past(t)'
BY DEF ReleasePr, AuthorsPr, Past

-----------------------------------------------------------------------------
(* The invariant *)

\* The trees main begins with are one release per resource, and pass the check.
LEMMA CommittedIs ==
  ASSUME NEW content \in Contents, NEW new \in SUBSET Resources,
         NEW c, c = Committed(content, new)
  PROVE  Sound(c) /\ Check(c)
<1> DEFINE package == CHOOSE p \in Packages : TRUE
           latest == [version |-> First, content |-> content]
           tree == [p \in Paths |->
            CASE p \in {Model(r) : r \in Resources} -> content
              [] p = Package -> package
              [] p \in {Pinned(r, First) : r \in Resources \ new} -> content
              [] p \in {Latest(r) : r \in Resources \ new} -> latest
              [] p \in {Index(r) : r \in Resources \ new} -> {First}
              [] OTHER -> None]
<1>1. c = [tree EXCEPT ![Stamp] = StampOf(tree)]
  BY DEF Committed
<1> HIDE DEF package, latest
<1>2. /\ Stamp \in Paths /\ Package \in Paths /\ Package # Stamp
      /\ Published \cup {Package} \subseteq Paths \ {Stamp}
  <2>1. Stamp \in Paths /\ Package \in Paths /\ Published \subseteq Paths /\ Package # Stamp
    BY PathsDiffer DEF Paths, ReleaseOnly
  <2>2. Stamp \notin {Pinned(q, v) : q \in Resources, v \in Versions}
    BY PathsDiffer
  <2>3. Stamp \notin {Latest(q) : q \in Resources} \cup {Index(q) : q \in Resources}
    BY PathsDiffer
  <2> QED
    BY <2>1, <2>2, <2>3 DEF Published
<1>3. tree = [p \in Paths |-> tree[p]]
  OBVIOUS
<1>4. tree[Package] = package
  <2>1. \A s : Package # Model(s) /\ Package # Latest(s) /\ Package # Index(s)
               /\ Package # Pinned(s, First)
    BY PathsDiffer
  <2> QED
    BY <2>1, <1>2
<1>5. ASSUME NEW r \in Resources PROVE tree[Model(r)] = content
  <2>1. Model(r) \in Paths
    BY PathsAre
  <2>2. \A s : Model(r) # Latest(s) /\ Model(r) # Index(s)
    BY PathsDiffer
  <2>3. \A s : Model(r) # Pinned(s, First)
    BY PathsDiffer
  <2>4. Model(r) # Package
    BY PathsDiffer
  <2> QED
    BY <2>1, <2>2, <2>3, <2>4
<1>6. ASSUME NEW r \in Resources
      PROVE  /\ tree[Latest(r)] = IF r \in new THEN None ELSE latest
             /\ tree[Index(r)] = IF r \in new THEN None ELSE {First}
             /\ tree[Override(r)] = None
  <2>1. /\ \A s : Latest(r) # Model(s) /\ Latest(r) # Pinned(s, First) /\ Latest(r) # Index(s)
        /\ Latest(r) # Package /\ Index(r) # Package /\ Override(r) # Package
    BY PathsDiffer
  <2>2. \A s : Index(r) # Model(s) /\ Index(r) # Pinned(s, First) /\ Index(r) # Latest(s)
    BY PathsDiffer
  <2>3. \A s : Override(r) # Model(s) /\ Override(r) # Pinned(s, First) /\ Override(r) # Latest(s)
               /\ Override(r) # Index(s)
    BY PathsDiffer
  <2>4. \A s : (Latest(r) = Latest(s) => r = s) /\ (Index(r) = Index(s) => r = s)
    BY DEF Latest, Index
  <2>5. Latest(r) \in Paths /\ Index(r) \in Paths /\ Override(r) \in Paths
    BY PathsAre DEF FilesOf
  <2>6. tree[Latest(r)] = IF r \in new THEN None ELSE latest
    BY <2>1, <2>4, <2>5
  <2>7. tree[Index(r)] = IF r \in new THEN None ELSE {First}
    BY <2>1, <2>2, <2>4, <2>5
  <2>8. tree[Override(r)] = None
    BY <2>1, <2>3, <2>5
  <2> QED
    BY <2>6, <2>7, <2>8
<1>7. ASSUME NEW r \in Resources, NEW v \in Versions
      PROVE  /\ tree[Pinned(r, v)] = IF r \notin new /\ v = First THEN content ELSE None
             /\ tree[Record(r, v)] = None
  <2>1. \A s : Pinned(r, v) # Model(s) /\ Pinned(r, v) # Latest(s) /\ Pinned(r, v) # Index(s)
    BY PathsDiffer
  <2>2. \A s : Record(r, v) # Model(s) /\ Record(r, v) # Latest(s) /\ Record(r, v) # Index(s)
    BY PathsDiffer
  <2>8. \A s : Pinned(s, First) # Record(r, v)
    BY PathsDiffer
  <2>3. Pinned(r, v) # Package /\ Record(r, v) # Package
    BY PathsDiffer
  <2>4. \A s : Pinned(r, v) = Pinned(s, First) <=> r = s /\ v = First
    BY DEF Pinned
  <2>5. Pinned(r, v) \in Paths /\ Record(r, v) \in Paths
    BY PathsAre DEF FilesOf
  <2>6. tree[Pinned(r, v)] = IF r \notin new /\ v = First THEN content ELSE None
    BY <2>1, <2>3, <2>4, <2>5
  <2>7. tree[Record(r, v)] = None
    BY <2>2, <2>3, <2>5, <2>8
  <2> QED
    BY <2>6, <2>7
<1>8. package \in Packages
  BY PackagesAssumption DEF package
<1>9. latest \in [version : Versions, content : Contents] /\ latest.version = First
      /\ latest.content = content /\ First \in Versions
  BY VersionsAssumption DEF latest
<1> HIDE DEF tree
<1>10. /\ c = [p \in Paths |-> c[p]]
       /\ \A p \in Paths \ {Stamp} : c[p] = tree[p]
       /\ c[Stamp] = StampOf(tree)
  BY <1>1, <1>2, <1>3
<1>11. c[Stamp] = StampOf(c)
  <2>1. [p \in Published |-> tree[p]] = [p \in Published |-> c[p]]
    BY <1>2, <1>10
  <2> QED
    BY <2>1, <1>2, <1>10 DEF StampOf
<1>12. ASSUME NEW r \in Resources
       PROVE  /\ c[Model(r)] = content
              /\ c[Latest(r)] = IF r \in new THEN None ELSE latest
              /\ c[Index(r)] = IF r \in new THEN None ELSE {First}
              /\ c[Override(r)] = None
              /\ \A v \in Versions :
                    /\ c[Pinned(r, v)] = IF r \notin new /\ v = First THEN content ELSE None
                    /\ c[Record(r, v)] = None
  <2>1. \A p \in FilesOf(r) \cup {Model(r), Override(r)} : c[p] = tree[p]
    BY <1>10, PathsAre, PathsDiffer
  <2> QED
    BY <2>1, <1>5, <1>6, <1>7 DEF FilesOf
<1>13. \A p \in Paths \ {Stamp} : c[p] \in File(p)
  <2> TAKE p \in Paths \ {Stamp}
  <2>1. CASE p = Package
    BY <2>1, <1>2, <1>4, <1>8, <1>10, FileKinds
  <2>2. ASSUME NEW r \in Resources, p \in FilesOf(r) \cup {Override(r), Model(r)}
        PROVE  c[p] \in File(p)
    <3>1. /\ c[Model(r)] \in Contents
          /\ c[Latest(r)] \in [version : Versions, content : Contents] \cup {None}
          /\ c[Index(r)] \in (SUBSET Versions) \cup {None}
          /\ c[Override(r)] \in Bumps \cup {None}
      BY <1>9, <1>12
    <3>3. /\ c[Model(r)] \in File(Model(r)) /\ c[Latest(r)] \in File(Latest(r))
          /\ c[Index(r)] \in File(Index(r)) /\ c[Override(r)] \in File(Override(r))
      BY <3>1, FileKinds
    <3>2. ASSUME NEW v \in Versions
          PROVE  c[Pinned(r, v)] \in File(Pinned(r, v)) /\ c[Record(r, v)] \in File(Record(r, v))
      <4>1. c[Pinned(r, v)] \in Contents \cup {None} /\ c[Record(r, v)] = None
        BY <1>12
      <4>2. /\ File(Pinned(r, v)) = Contents \cup {None}
            /\ None \in File(Record(r, v))
        BY FileKinds
      <4> QED
        BY <4>1, <4>2
    <3> QED
      BY <2>2, <3>2, <3>3 DEF FilesOf
  <2> QED
    BY <2>1, <2>2, PathKinds
<1>14. IsTree(c)
  BY <1>10, <1>11, <1>13, MakesTree
<1>15. ASSUME NEW r \in Resources PROVE Whole(c, r) /\ Consistent(c, r) /\ OverrideApplies(c, r)
  <2>1. OverrideApplies(c, r)
    BY <1>12 DEF OverrideApplies
  <2>2. CASE r \in new
    <3>1. PinnedVersions(c, r) = {}
      BY <2>2, <1>12 DEF PinnedVersions
    <3>2. Unreleased(c, r)
      BY <2>2, <3>1, <1>12 DEF Unreleased
    <3> QED
      BY <3>2, <2>1 DEF Whole, Consistent
  <2>3. CASE r \notin new
    <3>1. content # None
      BY NoneAssumption
    <3>2. PinnedVersions(c, r) = {First}
      BY <2>3, <3>1, <1>9, <1>12 DEF PinnedVersions
    <3>3. AtMost(First, First) /\ First \in Nat \X Nat
      BY DEF AtMost, First
    <3>4. Highest({First}) = First
      BY <3>3, HighestIs
    <3>5. c[Latest(r)] = latest /\ latest # None
      BY <2>3, <1>9, <1>12, NoneAssumption
    <3>6. \A v \in Versions : RecordSound(c, r, v)
      BY <1>12 DEF RecordSound
    <3>7. c[Index(r)] = {First} /\ c[Pinned(r, First)] = content
      BY <2>3, <1>9, <1>12
    <3>8. OneRelease(c, r)
      BY <3>2, <3>4, <3>5, <3>6, <3>7, <1>9 DEF OneRelease
    <3>9. Whole(c, r)
      BY <3>2, <3>3, <3>5, <3>8, <1>9 DEF Whole
    <3> QED
      BY <3>8, <3>9, <2>1 DEF Consistent
  <2> QED
    BY <2>2, <2>3
<1>16. c[Stamp] # None
  BY StampAssumption
<1> QED
  BY <1>14, <1>15, <1>16 DEF Sound, Check, Plannable

\* A slot of the pull requests takes a new one, or loses the one it held.
LEMMA SlotMoves ==
  ASSUME TypeOK, \A pr \in {prs[i] : i \in Prs} \ {None} : AuthorsPr(pr),
         \A pr : AuthorsPr(pr) => AuthorsPr(pr)',
         NEW i \in Prs, NEW b, prs' = [prs EXCEPT ![i] = b],
         b # None => IsBranch(b) /\ AuthorsPr(b)'
  PROVE  /\ prs' = [j \in Prs |-> prs'[j]]
         /\ \A j \in Prs : prs'[j] # None => IsBranch(prs'[j])
         /\ (\A pr \in {prs[j] : j \in Prs} \ {None} : AuthorsPr(pr))'
<1>1. prs = [j \in Prs |-> prs[j]] /\ \A j \in Prs : prs[j] # None => IsBranch(prs[j])
  BY DEF TypeOK
<1>2. /\ prs' = [j \in Prs |-> prs'[j]]
      /\ \A j \in Prs : prs'[j] = IF j = i THEN b ELSE prs[j]
  BY <1>1
<1>3. \A j \in Prs : prs'[j] # None => IsBranch(prs'[j])
  BY <1>1, <1>2
<1>4. ASSUME NEW pr \in {prs'[j] : j \in Prs} \ {None} PROVE AuthorsPr(pr)'
  BY <1>2
<1> QED
  BY <1>2, <1>3, <1>4

\* A branch of main that changes files that may change is a tree and its change.
LEMMA BranchIs ==
  ASSUME IsTree(main), NEW files, NEW ps, DOMAIN files = ps,
         \A p \in ps : p \in Paths \ {Stamp} /\ files[p] \in File(p)
  PROVE  /\ IsBranch(Branch(main, Overlay(main, files)))
         /\ \A p \in Paths :
              Overlay(main, files)[p] = IF p \in ps THEN files[p] ELSE main[p]
<1> DEFINE h == Overlay(main, files)
           b == Branch(main, h)
<1>1. h = [p \in Paths |-> h[p]] /\ \A p \in Paths : h[p] = IF p \in ps THEN files[p] ELSE main[p]
  BY DEF Overlay
<1>2. Stamp \in Paths /\ Stamp \notin ps
  BY DEF Paths, ReleaseOnly
<1> HIDE DEF h
<1>3. IsTree(h)
  <2>1. \A p \in Paths \ {Stamp} : h[p] \in File(p)
    BY <1>1 DEF IsTree
  <2>2. IsStamp(h[Stamp])
    BY <1>1, <1>2 DEF IsTree
  <2> QED
    BY <1>1, <2>1, <2>2 DEF IsTree
<1>4. /\ b = [base |-> b.base, head |-> b.head, checked |-> b.checked]
      /\ b.base = main /\ b.head = h /\ b.checked = FALSE
  BY DEF Branch
<1>5. IsBranch(b)
  <2> HIDE DEF b
  <2> QED
    BY <1>3, <1>4 DEF IsBranch
<1> QED
  BY <1>1, <1>5 DEF h

\* Opening a pull request whose files may change.
LEMMA OpenKeeps ==
  ASSUME ReleaseInv, NEW i \in Prs, NEW files, Open(i, files),
         \A p \in DOMAIN files : p \in Paths \ {Stamp} /\ files[p] \in File(p),
         AuthorsPr(Branch(main, Overlay(main, files)))
  PROVE  ReleaseInv'
<1> DEFINE b == Branch(main, Overlay(main, files))
<1>1. /\ prs' = [prs EXCEPT ![i] = b] /\ opened' = opened + 1
      /\ UNCHANGED <<main, release, running, due, newest, overtaken, failures>>
  BY DEF Open
<1>2. /\ TypeOK /\ Sound(main)
      /\ \A pr \in {prs[j] : j \in Prs} \ {None} : AuthorsPr(pr)
      /\ \A pr \in {release} \ {None} : ReleasePr(pr)
      /\ \A t \in running : Sound(t) /\ Past(t)
  BY DEF ReleaseInv
<1>3. /\ \A pr : ReleasePr(pr) => ReleasePr(pr)'
      /\ \A pr : AuthorsPr(pr) => AuthorsPr(pr)'
      /\ \A t : Past(t) => Past(t)'
  BY <1>1, BooksStay
<1>4. IsBranch(b) /\ AuthorsPr(b)
  BY <1>2, BranchIs DEF Sound
<1>5. PICK x : x = b
  OBVIOUS
<1>6. prs' = [prs EXCEPT ![i] = x] /\ IsBranch(x) /\ AuthorsPr(x)'
  BY <1>1, <1>3, <1>4, <1>5
<1> HIDE DEF b
<1>7. /\ prs' = [j \in Prs |-> prs'[j]]
      /\ \A j \in Prs : prs'[j] # None => IsBranch(prs'[j])
      /\ (\A pr \in {prs[j] : j \in Prs} \ {None} : AuthorsPr(pr))'
  BY <1>2, <1>3, <1>6, SlotMoves
<1>8. TypeOK'
  BY <1>1, <1>2, <1>7 DEF TypeOK
<1>9. Sound(main)'
  BY <1>1, <1>2
<1>10. (\A pr \in {release} \ {None} : ReleasePr(pr))'
  BY <1>1, <1>2, <1>3
<1>11. (\A t \in running : Sound(t) /\ Past(t))'
  BY <1>1, <1>2, <1>3
<1> QED
  BY <1>7, <1>8, <1>9, <1>10, <1>11 DEF ReleaseInv

\* A change of the models, or of an override, leaves the release files alone.
LEMMA OpenModelChangeKeeps ==
  ASSUME ReleaseInv, NEW i \in Prs, OpenModelChange(i)
  PROVE  ReleaseInv'
<1>1. PICK r \in Resources, content \in Contents, override \in Bumps \cup {None} :
        Open(i, [p \in {Model(r), Override(r)} |-> IF p = Model(r) THEN content ELSE override])
  BY DEF OpenModelChange
<1> DEFINE files == [p \in {Model(r), Override(r)} |-> IF p = Model(r) THEN content ELSE override]
           b == Branch(main, Overlay(main, files))
<1>2. /\ DOMAIN files = {Model(r), Override(r)} /\ files[Model(r)] = content
      /\ files[Override(r)] = override
  BY PathsDiffer
<1>3. Open(i, files)
  BY <1>1
<1> HIDE DEF files
<1>4. \A p \in DOMAIN files : p \in Paths \ {Stamp} /\ files[p] \in File(p) /\ p \notin ReleaseOnly
  <2>1. /\ Model(r) \in Paths \ {Stamp} /\ Override(r) \in Paths \ {Stamp}
        /\ Model(r) \notin ReleaseOnly /\ Override(r) \notin ReleaseOnly
    BY PathsAre, PathsDiffer
  <2>2. content \in File(Model(r)) /\ override \in File(Override(r))
    BY FileKinds
  <2> QED
    BY <1>2, <2>1, <2>2
<1>5. IsTree(main)
  BY DEF ReleaseInv, Sound
<1>6. \A p \in Paths : Overlay(main, files)[p] = IF p \in DOMAIN files THEN files[p] ELSE main[p]
  BY <1>4, <1>5, BranchIs
<1>7. \A p \in ReleaseOnly : b.head[p] = b.base[p]
  <2>1. b.head = Overlay(main, files) /\ b.base = main
    BY DEF Branch
  <2>2. ReleaseOnly \subseteq Paths
    BY DEF Paths
  <2> QED
    BY <1>4, <1>6, <2>1, <2>2
<1>8. AuthorsPr(b)
  BY <1>7 DEF AuthorsPr
<1> QED
  BY <1>3, <1>4, <1>8, OpenKeeps

\* So does a bump of the package.
LEMMA OpenPackageBumpKeeps ==
  ASSUME ReleaseInv, NEW i \in Prs, OpenPackageBump(i)
  PROVE  ReleaseInv'
<1>1. PICK package \in Packages : Open(i, [p \in {Package} |-> package])
  BY DEF OpenPackageBump
<1> DEFINE files == [p \in {Package} |-> package]
           b == Branch(main, Overlay(main, files))
<1>2. DOMAIN files = {Package} /\ files[Package] = package
  OBVIOUS
<1>3. Open(i, files)
  BY <1>1
<1> HIDE DEF files
<1>4. Package \in Paths \ {Stamp} /\ Package \notin ReleaseOnly
  <2>1. Package \in Paths /\ Package # Stamp
    BY PathsDiffer DEF Paths
  <2>2. \A s, v : Package # Pinned(s, v) /\ Package # Record(s, v)
    BY PathsDiffer
  <2>3. \A s : Package # Latest(s) /\ Package # Index(s)
    BY PathsDiffer
  <2> QED
    BY <2>1, <2>2, <2>3 DEF ReleaseOnly, Published
<1>5. \A p \in DOMAIN files : p \in Paths \ {Stamp} /\ files[p] \in File(p) /\ p \notin ReleaseOnly
  BY <1>2, <1>4, FileKinds
<1>6. IsTree(main)
  BY DEF ReleaseInv, Sound
<1>7. \A p \in Paths : Overlay(main, files)[p] = IF p \in DOMAIN files THEN files[p] ELSE main[p]
  BY <1>5, <1>6, BranchIs
<1>8. \A p \in ReleaseOnly : b.head[p] = b.base[p]
  <2>1. b.head = Overlay(main, files) /\ b.base = main
    BY DEF Branch
  <2>2. ReleaseOnly \subseteq Paths
    BY DEF Paths
  <2> QED
    BY <1>5, <1>7, <2>1, <2>2
<1>9. AuthorsPr(b)
  BY <1>8 DEF AuthorsPr
<1> QED
  BY <1>3, <1>5, <1>9, OpenKeeps

\* A hand edit changes a pinned file: a pinned file and its mirror hold the same.
LEMMA OpenHandEditKeeps ==
  ASSUME ReleaseInv, NEW i \in Prs, OpenHandEdit(i)
  PROVE  ReleaseInv'
<1>1. PICK r \in Resources, content \in Contents :
        /\ main[Latest(r)] # None
        /\ LET w == main[Latest(r)].version
           IN  Open(i, [p \in {Pinned(r, w), Latest(r)} |->
                   IF p = Latest(r) THEN [version |-> w, content |-> content] ELSE content])
  BY DEF OpenHandEdit
<1> DEFINE v == main[Latest(r)].version
           latest == [version |-> v, content |-> content]
           files == [p \in {Pinned(r, v), Latest(r)} |-> IF p = Latest(r) THEN latest ELSE content]
           b == Branch(main, Overlay(main, files))
<1>2. Open(i, files)
  BY <1>1
<1>3. IsTree(main) /\ Whole(main, r)
  BY DEF ReleaseInv, Sound
<1>4. ~ Unreleased(main, r)
  BY <1>1 DEF Unreleased
<1>5. /\ v \in PinnedVersions(main, r)
      /\ main[Latest(r)].content = main[Pinned(r, v)]
  BY <1>3, <1>4 DEF Whole, OneRelease
<1>6. v \in Versions /\ main[Pinned(r, v)] # None
  BY <1>5 DEF PinnedVersions
<1>7. main[Latest(r)] \in [version : Versions, content : Contents]
  BY <1>1, <1>3, TreeHolds
<1>8. latest \in [version : Versions, content : Contents] /\ latest.content = content
      /\ latest.version = v
  BY <1>6
<1>9. main[Latest(r)] = [version |-> v, content |-> main[Latest(r)].content]
  BY <1>7
<1>10. main[Pinned(r, v)] = content => latest = main[Latest(r)]
  BY <1>5, <1>9
<1> HIDE DEF latest, v
<1>11. /\ DOMAIN files = {Pinned(r, v), Latest(r)} /\ files[Pinned(r, v)] = content
       /\ files[Latest(r)] = latest
  BY PathsApart
<1> HIDE DEF files
<1>12. \A p \in DOMAIN files : p \in Paths \ {Stamp} /\ files[p] \in File(p)
  <2>1. Pinned(r, v) \in FilesOf(r) /\ Latest(r) \in FilesOf(r)
    BY <1>6 DEF FilesOf
  <2>2. Pinned(r, v) \in Paths \ {Stamp} /\ Latest(r) \in Paths \ {Stamp}
    BY <2>1, PathsAre
  <2>3. content \in File(Pinned(r, v)) /\ latest \in File(Latest(r))
    BY <1>8, FileKinds
  <2> QED
    BY <1>11, <2>2, <2>3
<1>13. \A p \in Paths : Overlay(main, files)[p] = IF p \in DOMAIN files THEN files[p] ELSE main[p]
  BY <1>3, <1>12, BranchIs
<1>14. content # main[Pinned(r, v)]
  <2>1. SUFFICES ASSUME content = main[Pinned(r, v)] PROVE FALSE
    OBVIOUS
  <2>2. \A p \in Paths : Overlay(main, files)[p] = main[p]
    BY <1>10, <1>11, <1>13, <2>1
  <2>3. main = [p \in Paths |-> main[p]]
    BY <1>3 DEF IsTree
  <2>4. Overlay(main, files) = [p \in Paths |-> Overlay(main, files)[p]]
    BY DEF Overlay
  <2>5. Overlay(main, files) = main
    BY <2>2, <2>3, <2>4, SameTree
  <2> QED
    BY <1>2, <2>5 DEF Open
<1>15. AuthorsPr(b)
  <2>1. b.head = Overlay(main, files) /\ b.base = main /\ b.checked = FALSE
    BY DEF Branch
  <2>2. b.head[Pinned(r, v)] = content
    BY <1>11, <1>12, <1>13, <2>1
  <2> HIDE DEF b
  <2> QED
    BY <1>6, <1>14, <2>1, <2>2 DEF AuthorsPr
<1> QED
  BY <1>2, <1>12, <1>15, OpenKeeps

\* A closed pull request leaves the rest as it was.
LEMMA ClosePrKeeps ==
  ASSUME ReleaseInv, NEW i \in Prs, ClosePr(i)
  PROVE  ReleaseInv'
<1>1. /\ prs' = [prs EXCEPT ![i] = None]
      /\ UNCHANGED <<main, release, running, due, newest, overtaken, opened, failures>>
  BY DEF ClosePr
<1>2. /\ TypeOK /\ Sound(main)
      /\ \A pr \in {prs[j] : j \in Prs} \ {None} : AuthorsPr(pr)
      /\ \A pr \in {release} \ {None} : ReleasePr(pr)
      /\ \A t \in running : Sound(t) /\ Past(t)
  BY DEF ReleaseInv
<1>3. /\ \A pr : ReleasePr(pr) => ReleasePr(pr)'
      /\ \A pr : AuthorsPr(pr) => AuthorsPr(pr)'
      /\ \A t : Past(t) => Past(t)'
  BY <1>1, BooksStay
<1>4. /\ prs' = [j \in Prs |-> prs'[j]]
      /\ \A j \in Prs : prs'[j] # None => IsBranch(prs'[j])
      /\ (\A pr \in {prs[j] : j \in Prs} \ {None} : AuthorsPr(pr))'
  <2>1. PICK b : b = None
    OBVIOUS
  <2> QED
    BY <1>1, <1>2, <1>3, <2>1, SlotMoves
<1>5. TypeOK'
  BY <1>1, <1>2, <1>4 DEF TypeOK
<1>6. Sound(main)'
  BY <1>1, <1>2
<1>7. (\A pr \in {release} \ {None} : ReleasePr(pr))'
  BY <1>1, <1>2, <1>3
<1>8. (\A t \in running : Sound(t) /\ Past(t))'
  BY <1>1, <1>2, <1>3
<1> QED
  BY <1>4, <1>5, <1>6, <1>7, <1>8 DEF ReleaseInv

\* The guard refuses the hand edits: what passes leaves the release files alone.
LEMMA GuardRefuses ==
  ASSUME NEW pr, AuthorsPr(pr), PrPasses(pr)
  PROVE  \A p \in ReleaseOnly : pr.head[p] = pr.base[p]
<1>1. SUFFICES ASSUME NEW r \in Resources, NEW v \in Versions,
                      main[Pinned(r, v)] = pr.base[Pinned(r, v)],
                      main[Pinned(r, v)] # pr.head[Pinned(r, v)]
               PROVE  FALSE
  BY DEF AuthorsPr
<1>2. Pinned(r, v) \in ReleaseOnly /\ Pinned(r, v) \in Paths
  BY PathsAre DEF FilesOf
<1>3. Merged(pr)[Pinned(r, v)] = pr.head[Pinned(r, v)]
  BY <1>1, <1>2 DEF Merged
<1>4. Pinned(r, v) \in ChangedPaths(pr)
  BY <1>1, <1>2, <1>3 DEF ChangedPaths
<1> QED
  BY <1>2, <1>4 DEF PrPasses, ReleaseGuard

\* What a passing check changes.
LEMMA CheckedIs ==
  ASSUME NEW pr, IsBranch(pr), NEW b, b = [pr EXCEPT !.checked = TRUE]
  PROVE  /\ b = [base |-> b.base, head |-> b.head, checked |-> b.checked]
         /\ b.base = pr.base /\ b.head = pr.head /\ b.checked = TRUE
<1>1. PICK base, head, checked : pr = [base |-> base, head |-> head, checked |-> checked]
  BY DEF IsBranch
<1>2. b = [base |-> base, head |-> head, checked |-> TRUE]
  BY <1>1
<1> QED
  BY <1>1, <1>2

\* A check that passes leaves no hand edit behind it.
LEMMA CheckPrKeeps ==
  ASSUME ReleaseInv, NEW i \in Prs, CheckPr(i)
  PROVE  ReleaseInv'
<1> DEFINE b == [prs[i] EXCEPT !.checked = TRUE]
<1>1. /\ prs' = [prs EXCEPT ![i] = b]
      /\ prs[i] # None /\ PrPasses(prs[i])
      /\ UNCHANGED <<main, release, running, due, newest, overtaken, opened, failures>>
  BY DEF CheckPr
<1>2. /\ TypeOK /\ Sound(main)
      /\ \A pr \in {prs[j] : j \in Prs} \ {None} : AuthorsPr(pr)
      /\ \A pr \in {release} \ {None} : ReleasePr(pr)
      /\ \A t \in running : Sound(t) /\ Past(t)
  BY DEF ReleaseInv
<1>3. /\ \A pr : ReleasePr(pr) => ReleasePr(pr)'
      /\ \A pr : AuthorsPr(pr) => AuthorsPr(pr)'
      /\ \A t : Past(t) => Past(t)'
  BY <1>1, BooksStay
<1>4. PICK pr : pr = prs[i]
  OBVIOUS
<1>5. IsBranch(pr) /\ AuthorsPr(pr) /\ PrPasses(pr)
  BY <1>1, <1>2, <1>4 DEF TypeOK
<1>6. \A p \in ReleaseOnly : pr.head[p] = pr.base[p]
  BY <1>5, GuardRefuses
<1>7. /\ b = [base |-> b.base, head |-> b.head, checked |-> b.checked]
      /\ b.base = pr.base /\ b.head = pr.head /\ b.checked = TRUE
  BY <1>4, <1>5, CheckedIs
<1>8. PICK x : x = b
  OBVIOUS
<1> HIDE DEF b
<1>9. IsBranch(x) /\ AuthorsPr(x)
  <2>1. \A p \in ReleaseOnly : x.head[p] = x.base[p]
    BY <1>6, <1>7, <1>8
  <2> QED
    BY <1>5, <1>7, <1>8, <2>1 DEF IsBranch, AuthorsPr
<1>10. /\ prs' = [j \in Prs |-> prs'[j]]
       /\ \A j \in Prs : prs'[j] # None => IsBranch(prs'[j])
       /\ (\A q \in {prs[j] : j \in Prs} \ {None} : AuthorsPr(q))'
  BY <1>1, <1>2, <1>3, <1>8, <1>9, SlotMoves
<1>11. TypeOK'
  BY <1>1, <1>2, <1>10 DEF TypeOK
<1>12. Sound(main)'
  BY <1>1, <1>2
<1>13. (\A q \in {release} \ {None} : ReleasePr(q))'
  BY <1>1, <1>2, <1>3
<1>14. (\A t \in running : Sound(t) /\ Past(t))'
  BY <1>1, <1>2, <1>3
<1> QED
  BY <1>10, <1>11, <1>12, <1>13, <1>14 DEF ReleaseInv

\* An author's merge brings no release file.
LEMMA MergePrKeeps ==
  ASSUME ReleaseInv, NEW i \in Prs, MergePr(i)
  PROVE  /\ ReleaseInv'
         /\ \A r \in Resources : Advances(main', r)
<1>1. /\ prs' = [prs EXCEPT ![i] = None]
      /\ prs[i] # None /\ prs[i].checked
      /\ main' = Merged(prs[i])
      /\ due' = TRUE
      /\ UNCHANGED <<release, running, newest, overtaken, opened, failures>>
  BY DEF MergePr
<1>2. /\ TypeOK /\ Sound(main)
      /\ \A pr \in {prs[j] : j \in Prs} \ {None} : AuthorsPr(pr)
      /\ \A pr \in {release} \ {None} : ReleasePr(pr)
      /\ \A t \in running : Sound(t) /\ Past(t)
  BY DEF ReleaseInv
<1>3. PICK pr : pr = prs[i]
  OBVIOUS
<1>4. IsBranch(pr) /\ AuthorsPr(pr) /\ pr.checked
  BY <1>1, <1>2, <1>3 DEF TypeOK
<1>5. \A p \in ReleaseOnly : pr.head[p] = pr.base[p]
  BY <1>4 DEF AuthorsPr
<1>6. Sound(Merged(pr)) /\ \A r \in Resources : Advances(Merged(pr), r)
  BY <1>2, <1>4, <1>5, AuthorsAdvance DEF IsBranch
<1>7. PICK u : u = Merged(pr)
  OBVIOUS
<1>8. main' = u /\ Sound(u) /\ \A r \in Resources : Advances(u, r)
  BY <1>1, <1>3, <1>6, <1>7
<1>9. /\ \A q : ReleasePr(q) => ReleasePr(q)'
      /\ \A q : AuthorsPr(q) => AuthorsPr(q)'
      /\ \A t : Sound(t) /\ Past(t) => Past(t)'
  BY <1>8, BooksMove
<1>10. /\ prs' = [j \in Prs |-> prs'[j]]
       /\ \A j \in Prs : prs'[j] # None => IsBranch(prs'[j])
       /\ (\A q \in {prs[j] : j \in Prs} \ {None} : AuthorsPr(q))'
  <2>1. PICK b : b = None
    OBVIOUS
  <2> QED
    BY <1>1, <1>2, <1>9, <2>1, SlotMoves
<1>11. TypeOK'
  <2>1. IsTree(main')
    BY <1>8 DEF Sound
  <2> QED
    BY <1>1, <1>2, <1>10, <2>1 DEF TypeOK
<1>12. Sound(main)'
  BY <1>8
<1>14. (\A q \in {release} \ {None} : ReleasePr(q))'
  BY <1>1, <1>2, <1>9
<1>15. (\A t \in running : Sound(t) /\ Past(t))'
  BY <1>1, <1>2, <1>9
<1> QED
  BY <1>8, <1>10, <1>11, <1>12, <1>14, <1>15 DEF ReleaseInv

\* A check of the release changes its mark alone.
LEMMA CheckReleaseKeeps ==
  ASSUME ReleaseInv, CheckRelease
  PROVE  ReleaseInv'
<1>1. /\ release # None
      /\ release' = [release EXCEPT !.checked = TRUE]
      /\ UNCHANGED <<main, prs, running, due, newest, overtaken, opened, failures>>
  BY DEF CheckRelease
<1>2. /\ TypeOK /\ Sound(main)
      /\ \A pr \in {prs[j] : j \in Prs} \ {None} : AuthorsPr(pr)
      /\ \A pr \in {release} \ {None} : ReleasePr(pr)
      /\ \A t \in running : Sound(t) /\ Past(t)
  BY DEF ReleaseInv
<1>3. /\ \A pr : ReleasePr(pr) => ReleasePr(pr)'
      /\ \A pr : AuthorsPr(pr) => AuthorsPr(pr)'
      /\ \A t : Past(t) => Past(t)'
  BY <1>1, BooksStay
<1>4. PICK pr : pr = release
  OBVIOUS
<1>5. IsBranch(pr) /\ ReleasePr(pr)
  BY <1>1, <1>2, <1>4 DEF TypeOK
<1>6. PICK b : b = [pr EXCEPT !.checked = TRUE]
  OBVIOUS
<1>7. /\ b = [base |-> b.base, head |-> b.head, checked |-> b.checked]
      /\ b.base = pr.base /\ b.head = pr.head /\ b.checked = TRUE
  BY <1>5, <1>6, CheckedIs
<1>8. release' = b
  BY <1>1, <1>4, <1>6
<1>9. IsBranch(b) /\ ReleasePr(b)
  BY <1>5, <1>7 DEF IsBranch, ReleasePr
<1>10. TypeOK'
  BY <1>1, <1>2, <1>8, <1>9 DEF TypeOK
<1>11. Sound(main)'
  BY <1>1, <1>2
<1>12. (\A q \in {prs[j] : j \in Prs} \ {None} : AuthorsPr(q))'
  BY <1>1, <1>2, <1>3
<1>13. (\A q \in {release} \ {None} : ReleasePr(q))'
  BY <1>3, <1>8, <1>9
<1>14. (\A t \in running : Sound(t) /\ Past(t))'
  BY <1>1, <1>2, <1>3
<1> QED
  BY <1>10, <1>11, <1>12, <1>13, <1>14 DEF ReleaseInv

\* The merge of a release moves main forward.
LEMMA MergeReleaseKeeps ==
  ASSUME ReleaseInv, MergeRelease
  PROVE  /\ ReleaseInv'
         /\ \A r \in Resources : Advances(main', r)
<1>1. /\ release # None /\ ~ Conflict(release)
      /\ main' = Merged(release)
      /\ release' = None
      /\ due' = TRUE
      /\ UNCHANGED <<prs, running, newest, overtaken, opened, failures>>
  BY DEF MergeRelease
<1>2. /\ TypeOK /\ Sound(main)
      /\ \A pr \in {prs[j] : j \in Prs} \ {None} : AuthorsPr(pr)
      /\ \A pr \in {release} \ {None} : ReleasePr(pr)
      /\ \A t \in running : Sound(t) /\ Past(t)
  BY DEF ReleaseInv
<1>3. PICK pr : pr = release
  OBVIOUS
<1>4. ReleasePr(pr) /\ ~ Conflict(pr)
  BY <1>1, <1>2, <1>3
<1>5. Sound(Merged(pr)) /\ \A r \in Resources : Advances(Merged(pr), r)
  BY <1>2, <1>4, MergeAdvances
<1>6. PICK u : u = Merged(pr)
  OBVIOUS
<1>7. main' = u /\ Sound(u) /\ \A r \in Resources : Advances(u, r)
  BY <1>1, <1>3, <1>5, <1>6
<1>8. /\ \A q : ReleasePr(q) => ReleasePr(q)'
      /\ \A q : AuthorsPr(q) => AuthorsPr(q)'
      /\ \A t : Sound(t) /\ Past(t) => Past(t)'
  BY <1>7, BooksMove
<1>9. TypeOK'
  <2>1. IsTree(main')
    BY <1>7 DEF Sound
  <2> QED
    BY <1>1, <1>2, <2>1 DEF TypeOK
<1>10. Sound(main)'
  BY <1>7
<1>12. (\A q \in {prs[j] : j \in Prs} \ {None} : AuthorsPr(q))'
  BY <1>1, <1>2, <1>8
<1>13. (\A q \in {release} \ {None} : ReleasePr(q))'
  BY <1>1
<1>14. (\A t \in running : Sound(t) /\ Past(t))'
  BY <1>1, <1>2, <1>8
<1> QED
  BY <1>7, <1>9, <1>10, <1>12, <1>13, <1>14 DEF ReleaseInv

\* A run starts from main.
LEMMA StartReleaseKeeps ==
  ASSUME ReleaseInv, StartRelease
  PROVE  ReleaseInv'
<1>1. /\ due' = FALSE
      /\ running' = running \cup {main}
      /\ newest' = main
      /\ UNCHANGED <<main, prs, release, overtaken, opened, failures>>
  BY DEF StartRelease
<1>2. /\ TypeOK /\ Sound(main)
      /\ \A pr \in {prs[j] : j \in Prs} \ {None} : AuthorsPr(pr)
      /\ \A pr \in {release} \ {None} : ReleasePr(pr)
      /\ \A t \in running : Sound(t) /\ Past(t)
  BY DEF ReleaseInv
<1>3. /\ \A pr : ReleasePr(pr) => ReleasePr(pr)'
      /\ \A pr : AuthorsPr(pr) => AuthorsPr(pr)'
      /\ \A t : Past(t) => Past(t)'
  BY <1>1, BooksStay
<1>4. Past(main)
  BY DEF Past
<1>5. PICK m : m = main
  OBVIOUS
<1>6. running' = running \cup {m} /\ Sound(m) /\ Past(m)
  BY <1>1, <1>2, <1>4, <1>5
<1>7. TypeOK'
  <2>1. \A t \in running' : IsTree(t)
    BY <1>2, <1>6 DEF Sound
  <2>2. IsTree(newest')
    BY <1>1, <1>2 DEF Sound
  <2> QED
    BY <1>1, <1>2, <2>1, <2>2 DEF TypeOK
<1>8. Sound(main)'
  BY <1>1, <1>2
<1>9. (\A q \in {prs[j] : j \in Prs} \ {None} : AuthorsPr(q))'
  BY <1>1, <1>2, <1>3
<1>10. (\A q \in {release} \ {None} : ReleasePr(q))'
  BY <1>1, <1>2, <1>3
<1>11. (\A t \in running : Sound(t) /\ Past(t))'
  BY <1>2, <1>3, <1>6
<1> QED
  BY <1>7, <1>8, <1>9, <1>10, <1>11 DEF ReleaseInv

\* A run that ends keeps the books of the others, and leaves a pull request of its tree.
LEMMA RunEnds ==
  ASSUME ReleaseInv, NEW t \in running, Ends(t), UNCHANGED <<main, prs, newest>>,
         due' \in BOOLEAN, {opened', failures'} \subseteq Nat,
         NEW b, release' = b, b # None => IsBranch(b) /\ ReleasePr(b)
  PROVE  ReleaseInv'
<1>1. running' = running \ {t} /\ overtaken' \in BOOLEAN
  BY DEF Ends
<1>2. /\ TypeOK /\ Sound(main)
      /\ \A pr \in {prs[j] : j \in Prs} \ {None} : AuthorsPr(pr)
      /\ \A s \in running : Sound(s) /\ Past(s)
  BY DEF ReleaseInv
<1>3. /\ \A pr : ReleasePr(pr) => ReleasePr(pr)'
      /\ \A pr : AuthorsPr(pr) => AuthorsPr(pr)'
      /\ \A s : Past(s) => Past(s)'
  BY BooksStay
<1>4. TypeOK'
  BY <1>1, <1>2 DEF TypeOK
<1>5. Sound(main)'
  BY <1>2
<1>6. (\A q \in {prs[j] : j \in Prs} \ {None} : AuthorsPr(q))'
  BY <1>2, <1>3
<1>7. (\A q \in {release} \ {None} : ReleasePr(q))'
  BY <1>3
<1>8. (\A s \in running : Sound(s) /\ Past(s))'
  BY <1>1, <1>2, <1>3
<1> QED
  BY <1>4, <1>5, <1>6, <1>7, <1>8 DEF ReleaseInv

\* A run leaves a pull request of what it saw.
LEMMA FinishReleaseKeeps ==
  ASSUME ReleaseInv, NEW t \in running, FinishRelease(t)
  PROVE  ReleaseInv'
<1>1. /\ Plannable(t) /\ Ends(t)
      /\ UNCHANGED <<main, prs, due, newest, opened, failures>>
  BY DEF FinishRelease
<1>2. PICK said \in [Resources -> Bumps] :
        /\ InBounds(t, said)
        /\ release' = IF ReleaseTree(t, said) = t THEN None ELSE Branch(t, ReleaseTree(t, said))
  BY DEF FinishRelease
<1>3. Sound(t) /\ Past(t)
  BY DEF ReleaseInv
<1>4. Sound(ReleaseTree(t, said))
  BY <1>2, <1>3, SoundAfter
<1>5. due' \in BOOLEAN /\ {opened', failures'} \subseteq Nat
  BY <1>1 DEF ReleaseInv, TypeOK
<1> DEFINE head == ReleaseTree(t, said)
           b == Branch(t, head)
<1>6. /\ b = [base |-> b.base, head |-> b.head, checked |-> b.checked]
      /\ b.base = t /\ b.head = head /\ b.checked = FALSE
  BY DEF Branch
<1>7. IsBranch(b) /\ ReleasePr(b)
  <2> HIDE DEF b
  <2>1. IsBranch(b)
    BY <1>3, <1>4, <1>6 DEF IsBranch, Sound
  <2>2. InBounds(b.base, said) /\ b.head = ReleaseTree(b.base, said)
    BY <1>2, <1>6
  <2>3. Sound(b.base) /\ Past(b.base) /\ Plannable(b.base)
    BY <1>1, <1>3, <1>6
  <2> QED
    BY <2>1, <2>2, <2>3 DEF ReleasePr
<1>8. PICK x : x = IF head = t THEN None ELSE b
  OBVIOUS
<1> HIDE DEF b
<1>9. x # None => IsBranch(x) /\ ReleasePr(x)
  BY <1>7, <1>8
<1>10. release' = x
  BY <1>2, <1>8 DEF b
<1> QED
  BY <1>1, <1>5, <1>9, <1>10, RunEnds

\* A run that refuses or fails writes nothing.
LEMMA RefuseOrFailKeeps ==
  ASSUME ReleaseInv, NEW t \in running, RefuseRelease(t) \/ FailRelease(t)
  PROVE  ReleaseInv'
<1>1. /\ Ends(t) /\ UNCHANGED <<main, prs, release, newest, opened>>
      /\ (due' = due \/ due' = TRUE)
      /\ (failures' = failures \/ failures' = failures + 1)
  BY DEF RefuseRelease, FailRelease
<1>2. due' \in BOOLEAN /\ {opened', failures'} \subseteq Nat
  <2>1. due \in BOOLEAN /\ {opened, failures} \subseteq Nat
    BY DEF ReleaseInv, TypeOK
  <2>2. due' \in BOOLEAN
    BY <1>1, <2>1
  <2>3. opened' \in Nat /\ failures' \in Nat
    BY <1>1, <2>1
  <2> QED
    BY <2>1, <2>2, <2>3
<1>3. PICK b : b = release
  OBVIOUS
<1>4. b # None => IsBranch(b) /\ ReleasePr(b)
  BY <1>3 DEF ReleaseInv, TypeOK
<1> QED
  BY <1>1, <1>2, <1>3, <1>4, RunEnds

\* Main begins as one release per resource.
LEMMA InitHolds ==
  ASSUME Init
  PROVE  ReleaseInv
<1>1. PICK content \in Contents, new \in SUBSET Resources : main = Committed(content, new)
  BY DEF Init
<1>2. Sound(main)
  BY <1>1, CommittedIs
<1>3. /\ prs = [i \in Prs |-> None] /\ release = None /\ running = {} /\ due = TRUE
      /\ newest = main /\ overtaken = FALSE /\ opened = 0 /\ failures = 0
  BY DEF Init
<1>4. TypeOK
  <2>1. IsTree(main)
    BY <1>2 DEF Sound
  <2>2. prs = [i \in Prs |-> prs[i]] /\ \A i \in Prs : prs[i] = None
    BY <1>3
  <2>3. {due, overtaken} \subseteq BOOLEAN
    BY <1>3
  <2>4. {opened, failures} \subseteq Nat
    BY <1>3
  <2> QED
    BY <1>3, <2>1, <2>2, <2>3, <2>4 DEF TypeOK
<1>5. \A pr \in {prs[i] : i \in Prs} \ {None} : AuthorsPr(pr)
  BY <1>3
<1> QED
  BY <1>2, <1>3, <1>4, <1>5 DEF ReleaseInv

\* Each step keeps the invariant; the merges move main forward, and the rest leave it.
LEMMA StepKeeps ==
  ASSUME ReleaseInv, [Next]_vars
  PROVE  /\ ReleaseInv'
         /\ main' = main \/ \A r \in Resources : Advances(main', r)
<1>1. CASE Author
  <2>1. PICK i \in Prs : OpenModelChange(i) \/ OpenPackageBump(i) \/ OpenHandEdit(i) \/ ClosePr(i)
    BY <1>1 DEF Author
  <2>2. main' = main
    BY <2>1 DEF OpenModelChange, OpenPackageBump, OpenHandEdit, ClosePr, Open
  <2>3. ReleaseInv'
    BY <2>1, OpenModelChangeKeeps, OpenPackageBumpKeeps, OpenHandEditKeeps, ClosePrKeeps
  <2> QED
    BY <2>2, <2>3
<1>2. CASE CheckRelease
  BY <1>2, CheckReleaseKeeps DEF CheckRelease
<1>3. CASE MergeRelease
  BY <1>3, MergeReleaseKeeps
<1>4. ASSUME NEW i \in Prs, CheckPr(i) \/ MergePr(i)
      PROVE  /\ ReleaseInv'
             /\ main' = main \/ \A r \in Resources : Advances(main', r)
  <2>1. CASE CheckPr(i)
    <3>1. main' = main
      BY <2>1 DEF CheckPr
    <3> QED
      BY <3>1, <2>1, CheckPrKeeps
  <2>2. CASE MergePr(i)
    BY <2>2, MergePrKeeps
  <2> QED
    BY <1>4, <2>1, <2>2
<1>5. CASE StartRelease
  BY <1>5, StartReleaseKeeps DEF StartRelease
<1>6. ASSUME NEW t \in running, FinishRelease(t) \/ RefuseRelease(t) \/ FailRelease(t)
      PROVE  ReleaseInv' /\ main' = main
  <2>1. main' = main
    BY <1>6 DEF FinishRelease, RefuseRelease, FailRelease
  <2> QED
    BY <2>1, <1>6, FinishReleaseKeeps, RefuseOrFailKeeps
<1>7. CASE UNCHANGED vars
  <2>1. /\ UNCHANGED <<main, prs, release, running, due, newest, overtaken, opened, failures>>
    BY <1>7 DEF vars
  <2>2. /\ \A pr : ReleasePr(pr) => ReleasePr(pr)'
        /\ \A pr : AuthorsPr(pr) => AuthorsPr(pr)'
        /\ \A t : Past(t) => Past(t)'
    BY <2>1, BooksStay
  <2>3. TypeOK' /\ Sound(main)'
    BY <2>1 DEF ReleaseInv, TypeOK
  <2>4. (\A q \in {prs[j] : j \in Prs} \ {None} : AuthorsPr(q))'
    BY <2>1, <2>2 DEF ReleaseInv
  <2>5. (\A q \in {release} \ {None} : ReleasePr(q))'
    BY <2>1, <2>2 DEF ReleaseInv
  <2>6. (\A t \in running : Sound(t) /\ Past(t))'
    BY <2>1, <2>2 DEF ReleaseInv
  <2> QED
    BY <2>1, <2>3, <2>4, <2>5, <2>6 DEF ReleaseInv
<1> QED
  BY <1>1, <1>2, <1>3, <1>4, <1>5, <1>6, <1>7 DEF Next, Reviewer, Workflow

-----------------------------------------------------------------------------
(* Theorems *)

\* Main is one release per resource; a release pull request is what `release` wrote on a
\* main there was, and so are the trees of the runs in progress.
THEOREM BooksHold == Spec => []ReleaseInv
<1>1. Init => ReleaseInv
  BY InitHolds
<1>2. ReleaseInv /\ [Next]_vars => ReleaseInv'
  BY StepKeeps
<1> QED
  BY <1>1, <1>2, PTL DEF Spec

\* Whichever merges race, the files of every resource on main are one release, and each
\* version after the first has the record of its bump from the version before it.
THEOREM ReleasesAreWhole == Spec => []EveryReleaseWhole
<1>1. ReleaseInv => EveryReleaseWhole
  <2>1. ASSUME ReleaseInv, NEW r \in Resources
        PROVE  /\ Consistent(main, r)
               /\ \A v \in PinnedVersions(main, r) \ {First} :
                     /\ main[Record(r, v)] # None
                     /\ main[Record(r, v)].from =
                           Highest({w \in PinnedVersions(main, r) \ {v} : AtMost(w, v)})
    <3>1. Whole(main, r)
      BY <2>1 DEF ReleaseInv, Sound
    <3>2. CASE Unreleased(main, r)
      BY <3>2 DEF Consistent, Unreleased
    <3>3. CASE ~ Unreleased(main, r)
      BY <3>1, <3>3 DEF Consistent, Whole
    <3> QED
      BY <3>2, <3>3
  <2> QED
    BY <2>1 DEF EveryReleaseWhole
<1> QED
  BY BooksHold, <1>1, PTL

\* No merge changes a pinned version of main or takes it back.
THEOREM PinnedStays == Spec => PinnedForever
<1>1. ReleaseInv /\ [Next]_vars =>
        [\A r \in Resources, v \in Versions :
            main[Pinned(r, v)] # None => main'[Pinned(r, v)] = main[Pinned(r, v)]]_vars
  <2>1. SUFFICES ASSUME ReleaseInv, [Next]_vars, NEW r \in Resources, NEW v \in Versions,
                        main[Pinned(r, v)] # None
                 PROVE  main'[Pinned(r, v)] = main[Pinned(r, v)]
    OBVIOUS
  <2>2. PICK u : u = main'
    OBVIOUS
  <2>3. u = main \/ Advances(u, r)
    BY <2>1, <2>2, StepKeeps
  <2> QED
    BY <2>1, <2>2, <2>3, AdvancesKeeps
<1> QED
  BY BooksHold, <1>1, PTL DEF Spec, PinnedForever

\* A release that takes an override from main records its bump.
LEMMA OverrideTaken ==
  ASSUME ReleaseInv, MergeRelease, NEW r \in Resources,
         main[Override(r)] # None, main'[Override(r)] = None
  PROVE  main'[Record(r, main'[Latest(r)].version)].bump = main[Override(r)]
<1>1. PICK pr : pr = release
  OBVIOUS
<1>2. ReleasePr(pr) /\ ~ Conflict(pr) /\ main' = Merged(pr)
  BY <1>1 DEF MergeRelease, ReleaseInv
<1>3. PICK said \in [Resources -> Bumps] :
        InBounds(pr.base, said) /\ pr.head = ReleaseTree(pr.base, said)
  BY <1>2 DEF ReleasePr
<1> DEFINE v == NextVersion(pr.base, r, said)
           entry == [from |-> pr.base[Latest(r)].version, bump |-> Decided(pr.base, r, said),
                     old |-> pr.base[Latest(r)].content, new |-> pr.base[Model(r)]]
<1>4. IsTree(pr.base) /\ Whole(pr.base, r) /\ OverrideApplies(pr.base, r)
  BY <1>2 DEF ReleasePr, Sound, Plannable
<1>5. \A p \in FilesOf(r) \cup {Override(r)} :
        /\ main'[p] = IF pr.head[p] = pr.base[p] THEN main[p] ELSE pr.head[p]
        /\ pr.head[p] # pr.base[p] => main[p] = pr.base[p] \/ main[p] = pr.head[p]
  BY <1>2, PathsAre DEF Merged, Conflict
<1>6. pr.head[Override(r)] # pr.base[Override(r)] /\ main[Override(r)] = pr.base[Override(r)]
  BY <1>5
<1>7. Changed(pr.base, r)
  BY <1>3, <1>6, NotReleased
<1>8. ~ Unreleased(pr.base, r)
  BY <1>4, <1>6 DEF OverrideApplies
<1>9. v \in Versions
  BY <1>3, <1>7 DEF InBounds
<1>10. /\ \A w \in Versions :
              pr.head[Pinned(r, w)] = IF w = v THEN pr.base[Model(r)] ELSE pr.base[Pinned(r, w)]
       /\ pr.head[Latest(r)] = [version |-> v, content |-> pr.base[Model(r)]]
       /\ pr.head[Index(r)] = PinnedVersions(pr.base, r) \cup {v}
       /\ pr.head[Override(r)] = None
       /\ \A w \in Versions :
              pr.head[Record(r, w)] =
                IF w = v /\ ~ Unreleased(pr.base, r) THEN entry ELSE pr.base[Record(r, w)]
  BY <1>3, <1>7, <1>9, Released
<1>11. entry \in [from : Versions, bump : Bumps, old : Contents, new : Contents]
       /\ entry.bump = Decided(pr.base, r, said)
  BY <1>4, <1>8, EntryIs
<1>12. v \notin PinnedVersions(pr.base, r) /\ pr.base[Latest(r)].version \in PinnedVersions(pr.base, r)
  BY <1>4, <1>8, NextIsNew
<1>13. Latest(r) \in FilesOf(r) /\ Record(r, v) \in FilesOf(r)
  BY <1>9 DEF FilesOf
<1>14. Decided(pr.base, r, said) = main[Override(r)]
  BY <1>6 DEF Decided
<1> HIDE DEF v, entry
<1>15. main'[Latest(r)].version = v
  <2>1. pr.head[Latest(r)].version = v
    BY <1>10
  <2>2. pr.head[Latest(r)] # pr.base[Latest(r)]
    BY <2>1, <1>12
  <2> QED
    BY <2>1, <2>2, <1>5, <1>13
<1>16. main'[Record(r, v)] = entry
  <2>1. pr.base[Record(r, v)] = None
    <3>1. RecordSound(pr.base, r, v)
      BY <1>4, <1>8, <1>9 DEF Whole, OneRelease
    <3> QED
      BY <3>1, <1>12 DEF RecordSound
  <2>2. pr.head[Record(r, v)] = entry
    BY <1>8, <1>9, <1>10
  <2>3. entry # None
    BY <1>11, NoneAssumption
  <2> QED
    BY <2>1, <2>2, <2>3, <1>5, <1>13
<1> QED
  BY <1>11, <1>14, <1>15, <1>16

\* An override a release takes from main is the bump that release made.
THEOREM OverridesAreHonoured == Spec => OverrideHonoured
<1>1. ReleaseInv /\ [Next]_vars =>
        [\A r \in Resources :
            /\ main[Override(r)] # None
            /\ main'[Override(r)] = None
            /\ prs' = prs
            => main'[Record(r, main'[Latest(r)].version)].bump = main[Override(r)]]_vars
  <2>1. SUFFICES ASSUME ReleaseInv, [Next]_vars, NEW r \in Resources,
                        main[Override(r)] # None, main'[Override(r)] = None, prs' = prs
                 PROVE  main'[Record(r, main'[Latest(r)].version)].bump = main[Override(r)]
    OBVIOUS
  <2>2. main' # main
    BY <2>1
  <2>3. ASSUME NEW i \in Prs, MergePr(i) PROVE FALSE
    <3>1. prs' = [prs EXCEPT ![i] = None] /\ prs[i] # None
      BY <2>3 DEF MergePr
    <3>2. prs = [j \in Prs |-> prs[j]]
      BY <2>1 DEF ReleaseInv, TypeOK
    <3> QED
      BY <2>1, <3>1, <3>2
  <2>4. MergeRelease
    <3>1. ~ UNCHANGED vars
      BY <2>2 DEF vars
    <3>2. ~ Author
      BY <2>2 DEF Author, OpenModelChange, OpenPackageBump, OpenHandEdit, ClosePr, Open
    <3>3. ~ Workflow
      BY <2>2 DEF Workflow, StartRelease, FinishRelease, RefuseRelease, FailRelease
    <3>4. ~ CheckRelease /\ \A i \in Prs : ~ CheckPr(i)
      BY <2>2 DEF CheckRelease, CheckPr
    <3> QED
      BY <2>1, <2>3, <3>1, <3>2, <3>3, <3>4 DEF Next, Reviewer
  <2> QED
    BY <2>1, <2>4, OverrideTaken
<1> QED
  BY BooksHold, <1>1, PTL DEF Spec, OverrideHonoured

=============================================================================
