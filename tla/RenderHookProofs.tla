-------------------------- MODULE RenderHookProofs --------------------------
(***************************************************************************)
(* Proofs about RenderHook, for any versions, edits and commits.           *)
(***************************************************************************)
EXTENDS RenderHook, TLAPS

-----------------------------------------------------------------------------
(* Trees and generators *)

\* A tree has these parts.
LEMMA PartsAre ==
  Parts = {"records", "models", "registry", "reference", "census",
           "prose", "blocks", "contents", "other"}
<1>1. PartsOf("document") = {"prose", "blocks", "contents"}
  BY DEF PartsOf
<1>2. \A f \in Files \ {"document"} : PartsOf(f) = {f}
  BY DEF PartsOf
<1>3. \A p : p \in Parts <=> \E f \in Files : p \in PartsOf(f)
  BY DEF Parts
<1>4. Files = {"records", "models", "registry", "reference", "census", "document", "other"}
  BY DEF Files
<1>5. ASSUME NEW p
      PROVE  p \in Parts <=> p \in {"records", "models", "registry", "reference", "census",
                                    "prose", "blocks", "contents", "other"}
  BY <1>1, <1>2, <1>3, <1>4
<1> QED
  BY <1>5

\* What a person edits and no generator writes.
Edited(tree) == <<tree["records"], tree["models"], tree["prose"], tree["other"], tree["census"]>>

\* The five generators.
LEMMA PipelineIs ==
  ASSUME NEW t
  PROVE  /\ Resolves(t) \in BOOLEAN /\ Affirmed(t) \in BOOLEAN
         /\ Pipeline(t)[1].part = "registry" /\ Pipeline(t)[1].value = Compiled(t) /\ Pipeline(t)[1].ok = Resolves(t)
         /\ Pipeline(t)[2].part = "reference" /\ Pipeline(t)[2].value = Referenced(t) /\ Pipeline(t)[2].ok = TRUE
         /\ Pipeline(t)[3].part = "blocks" /\ Pipeline(t)[3].value = Blocked(t) /\ Pipeline(t)[3].ok = TRUE
         /\ Pipeline(t)[4].part = "" /\ Pipeline(t)[4].value = <<>> /\ Pipeline(t)[4].ok = Affirmed(t)
         /\ Pipeline(t)[5].part = "contents" /\ Pipeline(t)[5].value = Contents(t) /\ Pipeline(t)[5].ok = TRUE
BY DEF Pipeline, Generator, Always, NoValue, Resolves, Affirmed

\* Each generator passes where it succeeds and its part is what it renders.
LEMMA PassesAre ==
  ASSUME NEW t
  PROVE  /\ Passes(Pipeline(t)[1], t) <=> Resolves(t) /\ t["registry"] = Compiled(t)
         /\ Passes(Pipeline(t)[2], t) <=> t["reference"] = Referenced(t)
         /\ Passes(Pipeline(t)[3], t) <=> t["blocks"] = Blocked(t)
         /\ Passes(Pipeline(t)[4], t) <=> Affirmed(t)
         /\ Passes(Pipeline(t)[5], t) <=> t["contents"] = Contents(t)
         /\ Fresh(t) <=> /\ Resolves(t) /\ Affirmed(t)
                         /\ t["registry"] = Compiled(t) /\ t["reference"] = Referenced(t)
                         /\ t["blocks"] = Blocked(t) /\ t["contents"] = Contents(t)
<1>1. Passes(Pipeline(t)[1], t) <=> Resolves(t) /\ t["registry"] = Compiled(t)
  BY PipelineIs DEF Passes
<1>2. Passes(Pipeline(t)[2], t) <=> t["reference"] = Referenced(t)
  BY PipelineIs DEF Passes
<1>3. Passes(Pipeline(t)[3], t) <=> t["blocks"] = Blocked(t)
  BY PipelineIs DEF Passes
<1>4. Passes(Pipeline(t)[4], t) <=> Affirmed(t)
  BY PipelineIs DEF Passes
<1>5. Passes(Pipeline(t)[5], t) <=> t["contents"] = Contents(t)
  BY PipelineIs DEF Passes
<1>6. 1..Length = {1, 2, 3, 4, 5}
  BY DEF Length
<1>7. Fresh(t) <=> \A i \in {1, 2, 3, 4, 5} : Passes(Pipeline(t)[i], t)
  BY <1>6 DEF Fresh
<1> QED
  BY <1>1, <1>2, <1>3, <1>4, <1>5, <1>7

\* The generators read and write nothing but the parts above, and of a record outside
\* rules/ nothing at all.
LEMMA FreshReads ==
  ASSUME NEW t, NEW u,
         \A p \in {"models", "registry", "reference", "census",
                   "prose", "blocks", "contents"} : t[p] = u[p],
         \/ t["records"] = u["records"]
         \/ t["records"].dir # "rules" /\ u["records"].dir # "rules"
  PROVE  Fresh(t) <=> Fresh(u)
<1>1. /\ (Resolves(t) <=> Resolves(u)) /\ (Affirmed(t) <=> Affirmed(u))
      /\ Compiled(t) = Compiled(u) /\ Referenced(t) = Referenced(u)
      /\ Blocked(t) = Blocked(u) /\ Contents(t) = Contents(u)
  BY DEF Resolves, Affirmed, Compiled, Referenced, Blocked, Contents
<1> QED
  BY <1>1, PassesAre

\* A generator that succeeds leaves its own part fresh, those before it as they were, and
\* every source alone.  Where its part was fresh it writes nothing new.
LEMMA WriteOne ==
  ASSUME NEW t, IsTree(t), NEW i \in 1..Length, Pipeline(t)[i].ok,
         NEW u, u = Written(t, Pipeline(t)[i])
  PROVE  /\ IsTree(u) /\ Edited(u) = Edited(t)
         /\ Passes(Pipeline(u)[i], u)
         /\ \A j \in 1..Length : j < i /\ Passes(Pipeline(t)[j], t) => Passes(Pipeline(u)[j], u)
         /\ Passes(Pipeline(t)[i], t) => u = t
<1>1. /\ i = 1 => u = [t EXCEPT !["registry"] = Compiled(t)]
      /\ i = 2 => u = [t EXCEPT !["reference"] = Referenced(t)]
      /\ i = 3 => u = [t EXCEPT !["blocks"] = Blocked(t)]
      /\ i = 4 => u = t
      /\ i = 5 => u = [t EXCEPT !["contents"] = Contents(t)]
  <2>1. CASE i = 1
    BY <2>1, PipelineIs DEF Written
  <2>2. CASE i = 2
    BY <2>2, PipelineIs DEF Written
  <2>3. CASE i = 3
    BY <2>3, PipelineIs DEF Written
  <2>4. CASE i = 4
    BY <2>4, PipelineIs DEF Written
  <2>5. CASE i = 5
    BY <2>5, PipelineIs DEF Written
  <2> QED
    BY <2>1, <2>2, <2>3, <2>4, <2>5 DEF Length
<1>2. {"records", "models", "registry", "reference", "census", "prose", "blocks",
       "contents", "other"} = DOMAIN t
  BY PartsAre DEF IsTree
<1>3. i \in {1, 2, 3, 4, 5} /\ \A j \in 1..Length : j \in {1, 2, 3, 4, 5}
  BY DEF Length
<1>4. CASE i = 1
  <2>1. u = [t EXCEPT !["registry"] = Compiled(t)] /\ Resolves(t)
    <3>1. Pipeline(t)[1].ok /\ Pipeline(t)[1].ok = Resolves(t)
      BY <1>4, PipelineIs
    <3> QED
      BY <1>1, <1>4, <3>1
  <2>2. Compiled(u) = Compiled(t) /\ (Resolves(u) <=> Resolves(t)) /\ u["registry"] = Compiled(t)
    BY <1>2, <2>1 DEF Compiled, Resolves
  <2>3. IsTree(u) /\ Edited(u) = Edited(t)
    BY <1>2, <2>1 DEF IsTree, Edited
  <2>4. t["registry"] = Compiled(t) => u = t
    BY <1>2, <2>1 DEF IsTree
  <2>5. \A j \in 1..Length : ~ j < i
    BY <1>4
  <2>6. Passes(Pipeline(u)[1], u)
    BY <2>1, <2>2, PassesAre
  <2>7. Passes(Pipeline(t)[1], t) => u = t
    BY <2>4, PassesAre
  <2> QED
    BY <1>4, <2>3, <2>5, <2>6, <2>7
<1>5. CASE i = 2
  <2>1. u = [t EXCEPT !["reference"] = Referenced(t)]
    BY <1>1, <1>5
  <2>2. /\ Referenced(u) = Referenced(t) /\ u["reference"] = Referenced(t)
        /\ Compiled(u) = Compiled(t) /\ (Resolves(u) <=> Resolves(t)) /\ u["registry"] = t["registry"]
    BY <1>2, <2>1 DEF Compiled, Resolves, Referenced
  <2>3. IsTree(u) /\ Edited(u) = Edited(t)
    BY <1>2, <2>1 DEF IsTree, Edited
  <2>4. t["reference"] = Referenced(t) => u = t
    BY <1>2, <2>1 DEF IsTree
  <2>5. \A j \in 1..Length : j < i => j = 1
    BY <1>3, <1>5
  <2>6. Passes(Pipeline(u)[2], u)
    BY <2>1, <2>2, PassesAre
  <2>7. Passes(Pipeline(t)[1], t) => Passes(Pipeline(u)[1], u)
    BY <2>2, PassesAre
  <2>8. Passes(Pipeline(t)[2], t) => u = t
    BY <2>4, PassesAre
  <2> QED
    BY <1>5, <2>3, <2>5, <2>6, <2>7, <2>8
<1>6. CASE i = 3
  <2>1. u = [t EXCEPT !["blocks"] = Blocked(t)]
    BY <1>1, <1>6
  <2>2. /\ Blocked(u) = Blocked(t) /\ u["blocks"] = Blocked(t)
        /\ Compiled(u) = Compiled(t) /\ (Resolves(u) <=> Resolves(t)) /\ u["registry"] = t["registry"]
        /\ Referenced(u) = Referenced(t) /\ u["reference"] = t["reference"]
    BY <1>2, <2>1 DEF Compiled, Resolves, Referenced, Blocked
  <2>3. IsTree(u) /\ Edited(u) = Edited(t)
    BY <1>2, <2>1 DEF IsTree, Edited
  <2>4. t["blocks"] = Blocked(t) => u = t
    BY <1>2, <2>1 DEF IsTree
  <2>5. \A j \in 1..Length : j < i => j \in {1, 2}
    BY <1>3, <1>6
  <2>6. Passes(Pipeline(u)[3], u)
    BY <2>1, <2>2, PassesAre
  <2>7. Passes(Pipeline(t)[1], t) => Passes(Pipeline(u)[1], u)
    BY <2>2, PassesAre
  <2>8. Passes(Pipeline(t)[2], t) => Passes(Pipeline(u)[2], u)
    BY <2>2, PassesAre
  <2>9. Passes(Pipeline(t)[3], t) => u = t
    BY <2>4, PassesAre
  <2> QED
    BY <1>6, <2>3, <2>5, <2>6, <2>7, <2>8, <2>9
<1>7. CASE i = 4
  <2>1. u = t
    BY <1>1, <1>7
  <2>2. Passes(Pipeline(t)[4], t)
    BY <1>7, PassesAre, PipelineIs
  <2> QED
    BY <1>7, <2>1, <2>2
<1>8. CASE i = 5
  <2>1. u = [t EXCEPT !["contents"] = Contents(t)]
    BY <1>1, <1>8
  <2>2. /\ Contents(u) = Contents(t) /\ u["contents"] = Contents(t)
        /\ Compiled(u) = Compiled(t) /\ (Resolves(u) <=> Resolves(t)) /\ u["registry"] = t["registry"]
        /\ Referenced(u) = Referenced(t) /\ u["reference"] = t["reference"]
        /\ Blocked(u) = Blocked(t) /\ u["blocks"] = t["blocks"]
        /\ (Affirmed(u) <=> Affirmed(t))
    BY <1>2, <2>1 DEF Compiled, Resolves, Referenced, Blocked, Contents, Affirmed
  <2>3. IsTree(u) /\ Edited(u) = Edited(t)
    BY <1>2, <2>1 DEF IsTree, Edited
  <2>4. t["contents"] = Contents(t) => u = t
    BY <1>2, <2>1 DEF IsTree
  <2>5. \A j \in 1..Length : j < i => j \in {1, 2, 3, 4}
    BY <1>3, <1>8
  <2>6. Passes(Pipeline(u)[5], u)
    BY <2>1, <2>2, PassesAre
  <2>7. Passes(Pipeline(t)[1], t) => Passes(Pipeline(u)[1], u)
    BY <2>2, PassesAre
  <2>8. Passes(Pipeline(t)[2], t) => Passes(Pipeline(u)[2], u)
    BY <2>2, PassesAre
  <2>9. Passes(Pipeline(t)[3], t) => Passes(Pipeline(u)[3], u)
    BY <2>2, PassesAre
  <2>10. Passes(Pipeline(t)[4], t) => Passes(Pipeline(u)[4], u)
    BY <2>2, PassesAre
  <2>11. Passes(Pipeline(t)[5], t) => u = t
    BY <2>4, PassesAre
  <2> QED
    BY <1>8, <2>3, <2>5, <2>6, <2>7, <2>8, <2>9, <2>10, <2>11
<1> QED
  BY <1>3, <1>4, <1>5, <1>6, <1>7, <1>8

-----------------------------------------------------------------------------
(* Edits and the index *)

\* What an author may make of a part leaves a tree.
LEMMA EditOne ==
  ASSUME NEW t, IsTree(t), NEW part \in Parts, NEW value \in Values(part)
  PROVE  IsTree([t EXCEPT ![part] = value])
<1> DEFINE u == [t EXCEPT ![part] = value]
<1>1. {"records", "models", "registry", "reference", "census", "prose", "blocks",
       "contents", "other"} = Parts /\ DOMAIN t = Parts
  BY PartsAre DEF IsTree
<1>2. u = [p \in Parts |-> u[p]] /\ u[part] = value /\ \A p \in Parts \ {part} : u[p] = t[p]
  BY <1>1
<1> HIDE DEF u
<1>3. CASE part = "records"
  <2>1. PICK v \in Versions, d \in {"rules", "elsewhere"} : value = Record(v, d)
    BY <1>3 DEF Values
  <2>2. u["records"].version \in Versions
    BY <1>2, <1>3, <2>1 DEF Record
  <2>3. \A p \in {"models", "prose", "other", "census"} : u[p] = t[p]
    BY <1>1, <1>2, <1>3
  <2> QED
    BY <1>2, <2>2, <2>3 DEF IsTree, u
<1>4. CASE part # "records"
  <2>1. u["records"] = t["records"]
    BY <1>1, <1>2, <1>4
  <2>2. part \in {"models", "prose", "other", "census"} => value \in Versions
    BY DEF Values
  <2>3. \A p \in {"models", "prose", "other", "census"} : u[p] \in Versions
    BY <1>1, <1>2, <2>2 DEF IsTree
  <2> QED
    BY <1>2, <2>1, <2>3 DEF IsTree, u
<1> QED
  BY <1>3, <1>4

\* So does staging a file.
LEMMA AddOne ==
  ASSUME NEW t, IsTree(t), NEW s, IsTree(s), NEW S
  PROVE  IsTree([p \in Parts |-> IF p \in S THEN t[p] ELSE s[p]])
<1> DEFINE u == [p \in Parts |-> IF p \in S THEN t[p] ELSE s[p]]
<1>1. \A p \in {"records", "models", "census", "prose", "other"} : u[p] = t[p] \/ u[p] = s[p]
  BY PartsAre
<1>2. u = [p \in Parts |-> u[p]]
  OBVIOUS
<1> HIDE DEF u
<1>3. \A p \in {"models", "prose", "other", "census"} : u[p] \in Versions
  BY <1>1 DEF IsTree
<1>4. u["records"].version \in Versions
  BY <1>1 DEF IsTree
<1>5. IsTree(u)
  BY <1>2, <1>3, <1>4 DEF IsTree
<1> QED
  BY <1>5 DEF u

\* A tree whose staged names feed nothing, and which moves no record out of rules/,
\* changed only what the generators do not read: it is as fresh as what it was staged on.
LEMMA NothingFed ==
  ASSUME NEW tree, ~ MovedOutUnseen(tree), ~ \E f \in Staged(tree) : Feeds(f)
  PROVE  Fresh(head) <=> Fresh(tree)
<1>1. \A f \in Files : f # "other" /\ f \in Changed(tree) =>
        f = "records" /\ tree["records"].dir # "rules"
  BY DEF Staged, Feeds
<1>2. \A f \in Files \ {"other", "records"} : \A p \in PartsOf(f) : tree[p] = head[p]
  BY <1>1 DEF Changed
<1>3. \A f \in Files \ {"document"} : PartsOf(f) = {f}
  BY DEF PartsOf
<1>4. PartsOf("document") = {"prose", "blocks", "contents"}
  BY DEF PartsOf
<1>5. \A p \in {"models", "registry", "reference", "census"} : tree[p] = head[p]
  BY <1>2, <1>3 DEF Files
<1>6. \A p \in {"prose", "blocks", "contents"} : tree[p] = head[p]
  BY <1>2, <1>4 DEF Files
<1>7. CASE tree["records"] = head["records"]
  BY <1>5, <1>6, <1>7, FreshReads
<1>8. CASE tree["records"] # head["records"]
  <2>1. "records" \in Changed(tree)
    BY <1>3, <1>8 DEF Changed, Files
  <2>2. tree["records"].dir # "rules"
    BY <1>1, <2>1 DEF Files
  <2>3. head["records"].dir # "rules"
    BY <2>2 DEF MovedOutUnseen
  <2> QED
    BY <1>5, <1>6, <2>2, <2>3, FreshReads
<1> QED
  BY <1>7, <1>8

-----------------------------------------------------------------------------
(* The books *)

\* An edit, in the session or elsewhere: every run under way is disturbed.
LEMMA EditKeeps ==
  ASSUME HookInv, NEW part \in Parts, NEW value \in Values(part),
         EditInSession(part, value) \/ EditElsewhere(part, value)
  PROVE  HookInv'
<1> USE DEF HookInv
<1>1. IsTree(wt') /\ UNCHANGED <<index, head, snapshot, seen, commit>> /\ settled' = {}
  BY EditOne DEF EditInSession, EditElsewhere, Edit
<1>2. writing' \in [Writers -> 0..Length] /\ writing'["commit"] = writing["commit"]
  BY DEF EditInSession, EditElsewhere, Writers, Length
<1>3. \A w \in Writers \ disturbed' : writing'[w] \in {0, 1}
  BY DEF EditInSession, EditElsewhere, Writers
<1>4. RunsBook'
  <2>1. \A w \in Writers \ disturbed' : \A i \in 1..Length : ~ i < writing'[w]
    BY <1>3
  <2> QED
    BY <1>1, <2>1 DEF RunsBook
<1>5. CommitBook'
  <2>1. /\ Fresh(head)' = Fresh(head) /\ Fresh(seen)' = Fresh(seen)
        /\ MovedOutUnseen(seen)' = MovedOutUnseen(seen)
    BY <1>1 DEF MovedOutUnseen, Staged, Changed
  <2> QED
    BY <1>1, <1>2, <2>1 DEF CommitBook
<1>6. \A t \in {wt', index', head', snapshot', seen'} : IsTree(t)
  BY <1>1
<1> QED
  BY <1>1, <1>2, <1>4, <1>5, <1>6

\* A generator of a run: what it writes anew, no earlier generator reads, and an
\* undisturbed run's own earlier parts are fresh already.
LEMMA WriteKeeps ==
  ASSUME HookInv, NEW w \in Writers, Write(w)
  PROVE  HookInv'
<1> DEFINE i == writing[w]
           g == Pipeline(wt)[i]
<1> USE DEF HookInv
<1>1. i \in 1..Length /\ 1 <= i
  BY DEF Write, Length
<1>2. UNCHANGED <<index, head, disturbed, snapshot, seen>>
  BY DEF Write
<1>3. /\ writing' \in [Writers -> 0..Length]
      /\ \A v \in Writers \ {w} : writing'[v] = writing[v]
      /\ writing'[w] = IF g.ok /\ i # Length THEN i + 1 ELSE 0
  <2>1. CASE g.ok
    BY <1>1, <2>1 DEF Write, Length
  <2>2. CASE ~ g.ok
    BY <1>1, <2>2 DEF Write, Length
  <2> QED
    BY <2>1, <2>2
<1>4. /\ commit' \in {"none", "writing", "written", "checking", "accepted"}
      /\ CommitBook'
  <2>1. commit' = IF w # "commit" \/ writing'[w] # 0 THEN commit
                  ELSE IF g.ok THEN "written" ELSE "none"
    BY DEF Write
  <2>2. w = "commit" => commit = "writing"
    BY <1>1 DEF CommitBook
  <2>3. w = "commit" => (writing'["commit"] # 0 <=> commit' = "writing")
    BY <2>1, <2>2
  <2>4. w # "commit" => writing'["commit"] = writing["commit"] /\ commit' = commit
    BY <1>3, <2>1 DEF Writers
  <2>5. commit' \in {"checking", "accepted"} => commit' = commit
    BY <2>1, <2>2
  <2>6. (writing'["commit"] # 0) = (commit' = "writing")
    BY <2>3, <2>4 DEF CommitBook
  <2>7. /\ Fresh(head)' = Fresh(head) /\ Fresh(seen)' = Fresh(seen)
        /\ MovedOutUnseen(seen)' = MovedOutUnseen(seen)
    BY <1>2 DEF MovedOutUnseen, Staged, Changed
  <2>8. CommitBook'
    BY <1>2, <2>5, <2>6, <2>7 DEF CommitBook
  <2> QED
    BY <2>1, <2>8
<1>5. CASE ~ g.ok
  <2>1. wt' = wt /\ settled' = settled /\ writing'[w] = 0
    BY <1>3, <1>5 DEF Write
  <2>2. \A v \in Writers : \A k \in 1..Length : k < writing'[v] => k < writing[v]
    BY <1>3, <2>1
  <2>3. RunsBook'
    BY <1>2, <2>1, <2>2 DEF RunsBook
  <2> QED
    BY <1>2, <1>3, <1>4, <2>1, <2>3
<1>6. CASE g.ok
  <2>1. /\ wt' = Written(wt, g)
        /\ settled' = IF i = Length /\ w \notin disturbed THEN settled \cup {w} ELSE settled
    BY <1>6 DEF Write
  <2>2. /\ IsTree(wt')
        /\ Passes(Pipeline(wt')[i], wt')
        /\ \A k \in 1..Length : k < i /\ Passes(Pipeline(wt)[k], wt) => Passes(Pipeline(wt')[k], wt')
        /\ Passes(Pipeline(wt)[i], wt) => wt' = wt
    BY <1>1, <1>6, <2>1, WriteOne
  <2>3. ASSUME NEW v \in Writers \ disturbed, NEW k \in 1..Length, k < writing'[v]
        PROVE  Passes(Pipeline(wt')[k], wt')
    <3>1. CASE v = w
      <4>1. k \in Nat /\ k <= i
        BY <1>1, <1>3, <2>3, <3>1 DEF Length
      <4>2. CASE k = i
        BY <2>2, <4>2
      <4>3. CASE k < i
        <5>1. Passes(Pipeline(wt)[k], wt)
          BY <3>1, <4>3 DEF RunsBook
        <5> QED
          BY <2>2, <4>3, <5>1
      <4> QED
        BY <1>1, <4>1, <4>2, <4>3
    <3>2. CASE v # w
      <4>1. k < writing[v]
        BY <1>3, <2>3, <3>2
      <4>2. Passes(Pipeline(wt)[k], wt)
        BY <4>1 DEF RunsBook
      <4>3. CASE k < i
        BY <2>2, <4>2, <4>3
      <4>4. CASE ~ k < i
        <5>1. i < writing[v]
          BY <1>1, <4>1, <4>4 DEF Length
        <5>2. Passes(Pipeline(wt)[i], wt)
          BY <1>1, <5>1 DEF RunsBook
        <5> QED
          BY <2>2, <4>2, <5>2
      <4> QED
        BY <4>3, <4>4
    <3> QED
      BY <3>1, <3>2
  <2>4. ASSUME settled' # {}
        PROVE  Fresh(wt')
    <3>1. CASE settled # {}
      <4>1. Fresh(wt)
        BY <3>1 DEF RunsBook
      <4>2. wt' = wt
        BY <1>1, <2>2, <4>1 DEF Fresh
      <4> QED
        BY <4>1, <4>2
    <3>2. CASE settled = {}
      <4>1. i = Length /\ w \notin disturbed
        BY <2>1, <2>4, <3>2
      <4>2. ASSUME NEW k \in 1..Length
            PROVE  Passes(Pipeline(wt')[k], wt')
        <5>1. CASE k = i
          BY <2>2, <5>1
        <5>2. CASE k # i
          <6>1. k < i
            BY <4>1, <5>2 DEF Length
          <6>2. Passes(Pipeline(wt)[k], wt)
            BY <4>1, <6>1 DEF RunsBook
          <6> QED
            BY <2>2, <6>1, <6>2
        <5> QED
          BY <5>1, <5>2
      <4> QED
        BY <4>2 DEF Fresh
    <3> QED
      BY <3>1, <3>2
  <2>5. RunsBook'
    BY <1>2, <2>3, <2>4 DEF RunsBook
  <2> QED
    BY <1>2, <1>3, <1>4, <2>2, <2>5
<1> QED
  BY <1>5, <1>6

\* A commit begins: its run is at its first generator, or nothing it commits feeds one.
LEMMA StartKeeps ==
  ASSUME HookInv, StartCommit
  PROVE  HookInv'
<1> USE DEF HookInv
<1>1. commit = "none" /\ UNCHANGED <<wt, index, head, snapshot>> /\ seen' = index
  BY DEF StartCommit
<1>2. writing["commit"] = 0
  BY <1>1 DEF CommitBook, Length, Writers
<1>3. CASE \E f \in Staged(index) : Feeds(f)
  <2>1. /\ commit' = "writing" /\ writing' = [writing EXCEPT !["commit"] = 1]
        /\ disturbed' = disturbed \ {"commit"} /\ settled' = settled \ {"commit"}
    BY <1>3 DEF StartCommit, Starts
  <2>2. writing' \in [Writers -> 0..Length] /\ writing'["commit"] = 1
        /\ \A v \in Writers \ {"commit"} : writing'[v] = writing[v]
    BY <2>1 DEF Writers, Length
  <2>3. \A v \in Writers \ disturbed' : \A k \in 1..Length :
          k < writing'[v] => v \notin disturbed /\ k < writing[v]
    BY <2>1, <2>2
  <2>4. RunsBook'
    BY <1>1, <2>1, <2>3 DEF RunsBook
  <2>5. CommitBook'
    BY <2>1, <2>2 DEF CommitBook
  <2> QED
    BY <1>1, <2>1, <2>2, <2>4, <2>5
<1>4. CASE ~ \E f \in Staged(index) : Feeds(f)
  <2>1. commit' = "accepted" /\ UNCHANGED <<writing, disturbed, settled>>
    BY <1>4 DEF StartCommit
  <2>2. RunsBook'
    BY <1>1, <2>1 DEF RunsBook
  <2>3. CommitBook'
    <3>1. Fresh(head) /\ ~ MovedOutUnseen(index) => Fresh(index)
      BY <1>4, NothingFed
    <3>2. Fresh(head') /\ ~ MovedOutUnseen(seen)' => Fresh(seen')
      BY <1>1, <3>1 DEF MovedOutUnseen, Staged, Changed
    <3> QED
      BY <1>1, <1>2, <2>1, <3>2 DEF CommitBook
  <2> QED
    BY <1>1, <2>1, <2>2, <2>3
<1> QED
  BY <1>3, <1>4

\* The steps that run no generator and edit nothing.
LEMMA IndexKeeps ==
  ASSUME HookInv, (\E f \in Files : Add(f)) \/ CheckoutIndex \/ Check \/ Accept \/ Bypass
  PROVE  HookInv'
<1> USE DEF HookInv
<1>1. UNCHANGED <<wt, writing, disturbed, settled>>
  BY DEF Add, CheckoutIndex, Check, Accept, Bypass
<1>2. RunsBook'
  BY <1>1 DEF RunsBook
<1>3. (writing["commit"] # 0) = (commit = "writing")
  BY DEF CommitBook
<1>4. CASE \E f \in Files : Add(f)
  <2>1. PICK f \in Files : Add(f)
    BY <1>4
  <2>2. IsTree(index')
    BY <2>1, AddOne DEF Add
  <2>3. UNCHANGED <<head, commit, snapshot, seen>>
    BY <2>1 DEF Add
  <2>4. MovedOutUnseen(seen)' = MovedOutUnseen(seen)
    BY <2>3 DEF MovedOutUnseen, Staged, Changed
  <2> QED
    BY <1>1, <1>2, <1>3, <2>2, <2>3, <2>4 DEF CommitBook
<1>5. CASE CheckoutIndex
  BY <1>1, <1>2, <1>3, <1>5 DEF CheckoutIndex, CommitBook
<1>6. CASE Check
  <2>1. commit = "checking" /\ UNCHANGED <<index, head, snapshot, seen>> /\ snapshot = seen
        /\ commit' = IF Fresh(snapshot) THEN "accepted" ELSE "none"
    BY <1>6 DEF Check, CommitBook
  <2>2. commit' = "accepted" => Fresh(seen')
    BY <2>1
  <2>3. CommitBook'
    BY <1>1, <1>3, <2>1, <2>2 DEF CommitBook
  <2> QED
    BY <1>1, <1>2, <2>1, <2>3
<1>7. CASE Accept
  BY <1>1, <1>2, <1>3, <1>7 DEF Accept, CommitBook
<1>8. CASE Bypass
  BY <1>1, <1>2, <1>3, <1>8 DEF Bypass, CommitBook
<1> QED
  BY <1>4, <1>5, <1>6, <1>7, <1>8

\* The repository the model starts with is a tree, and fresh.
LEMMA StartIsTree ==
  IsTree(StartingTree)
<1>1. /\ StartingTree["records"] = Record(0, "rules")
      /\ \A p \in {"models", "prose", "other", "census"} : StartingTree[p] = 0
  BY PartsAre DEF StartingTree
<1>2. StartingTree = [p \in Parts |-> StartingTree[p]]
  BY DEF StartingTree
<1> QED
  BY <1>1, <1>2, VersionsAssumption DEF IsTree, Record

\* The books hold in every state: an undisturbed run has rendered what is behind it, a
\* settled tree is fresh, and a commit let through leaves what is as fresh as it found.
THEOREM BooksHold == Spec => []HookInv
<1>1. Init => HookInv
  <2> SUFFICES ASSUME Init PROVE HookInv
    OBVIOUS
  <2>1. /\ \A t \in {wt, index, head, snapshot, seen} : IsTree(t)
        /\ writing \in [Writers -> 0..Length] /\ \A w \in Writers : writing[w] = 0
        /\ commit = "none" /\ settled = {}
    BY StartIsTree DEF Init, Length
  <2>2. RunsBook
    BY <2>1 DEF RunsBook
  <2>3. CommitBook
    BY <2>1 DEF CommitBook, Writers
  <2> QED
    BY <2>1, <2>2, <2>3 DEF HookInv
<1>2. HookInv /\ [Next]_vars => HookInv'
  <2> SUFFICES ASSUME HookInv, [Next]_vars PROVE HookInv'
    OBVIOUS
  <2>1. CASE Edits
    BY <2>1, EditKeeps DEF Edits
  <2>2. CASE \E w \in Writers : Write(w)
    BY <2>2, WriteKeeps
  <2>3. CASE StartCommit
    BY <2>3, StartKeeps
  <2>4. CASE (\E f \in Files : Add(f)) \/ CheckoutIndex \/ Check \/ Accept \/ Bypass
    BY <2>4, IndexKeeps
  <2>5. CASE UNCHANGED vars
    <3>1. UNCHANGED <<wt, index, head, writing, disturbed, settled, commit, snapshot, seen>>
      BY <2>5 DEF vars
    <3>2. MovedOutUnseen(seen)' = MovedOutUnseen(seen)
      BY <3>1 DEF MovedOutUnseen, Staged, Changed
    <3> QED
      BY <3>1, <3>2 DEF HookInv, RunsBook, CommitBook
  <2> QED
    BY <2>1, <2>2, <2>3, <2>4, <2>5 DEF Next
<1> QED
  BY <1>1, <1>2, PTL DEF Spec

\* Every tree, run and commit has its type.
THEOREM TypesHold == Spec => []TypeOK
<1>1. HookInv => TypeOK
  <2> SUFFICES ASSUME HookInv PROVE TypeOK
    OBVIOUS
  <2>1. \A t \in {wt, index, head, snapshot, seen} :
          /\ DOMAIN t = Parts
          /\ t["records"].version \in Versions
          /\ \A p \in {"models", "prose", "other", "census"} : t[p] \in Versions
    BY DEF HookInv, IsTree
  <2> QED
    BY <2>1 DEF HookInv, TypeOK, CommitBook
<1> QED
  BY BooksHold, <1>1, PTL

\* After a run of `write` that succeeded, with other runs interleaved and no source edited
\* since it began, `check` passes.
THEOREM WritesSettle == Spec => []WriteSettles
<1>1. HookInv => WriteSettles
  BY DEF HookInv, RunsBook, WriteSettles
<1> QED
  BY BooksHold, <1>1, PTL

\* A commit the hook lets through leaves a consistent history consistent, for any
\* interleaving of edits, runs, additions to the index and commits, unless it moved a
\* record out unseen or takes what was added after the hook's last look at the index.
THEOREM HookHolds == Spec => HookKeepsFresh
<1>1. HookInv /\ [Next]_vars =>
        [Accept /\ Fresh(head) /\ index = seen /\ ~ MovedOutUnseen(index) => Fresh(head')]_vars
  <2> SUFFICES ASSUME HookInv, Accept, Fresh(head), index = seen, ~ MovedOutUnseen(index)
               PROVE  Fresh(head')
    OBVIOUS
  <2>1. commit = "accepted" /\ head' = index
    BY DEF Accept
  <2> QED
    BY <2>1 DEF HookInv, CommitBook
<1> QED
  BY BooksHold, <1>1, PTL DEF Spec, HookKeepsFresh
=============================================================================
