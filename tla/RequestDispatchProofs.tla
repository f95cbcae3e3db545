----------------------- MODULE RequestDispatchProofs -----------------------
(***************************************************************************)
(* Proofs about RequestDispatch, for any header names and spellings and    *)
(* any number of entries.                                                  *)
(***************************************************************************)
EXTENDS RequestDispatch, FiniteSetTheorems, TLAPS

-----------------------------------------------------------------------------
(* The header map *)

Merging == phase \notin {"body", "sent"}

\* What the wire compares tells one name on the map from another.
LEMMA OnTheMap ==
    ASSUME MergeBook, Merging
    PROVE  /\ \A m \in DOMAIN effective :
                 /\ m \in Name /\ m[1] \in DOMAIN casing /\ casing[m[1]] = m
                 /\ latest[m[1]] # <<>> /\ latest[m[1]][1] = m
                 /\ effective[m] = latest[m[1]][2]
           /\ \A k \in DOMAIN casing :
                 /\ k \in Key /\ latest[k] # <<>> /\ latest[k][1] = casing[k]
                 /\ casing[k] \in DOMAIN effective /\ casing[k][1] = k
<1>1. HeadersLayered
  BY DEF MergeBook, Merging
<1>2. DOMAIN casing = {k \in Key : latest[k] # <<>>}
  BY <1>1 DEF HeadersLayered, Merging
<1>3. \A k \in DOMAIN casing : casing[k] = latest[k][1]
  BY <1>1 DEF HeadersLayered, Merging
<1>4. DOMAIN effective = {casing[k] : k \in DOMAIN casing}
  BY <1>1 DEF HeadersLayered, Merging
<1>5. \A n \in DOMAIN effective : effective[n] = latest[n[1]][2]
  BY <1>1 DEF HeadersLayered, Merging
<1>6. ASSUME NEW k \in DOMAIN casing
      PROVE  /\ k \in Key /\ latest[k] # <<>> /\ latest[k][1] = casing[k]
             /\ casing[k] \in DOMAIN effective /\ casing[k][1] = k /\ casing[k] \in Name
  <2>1. k \in Key /\ latest[k] # <<>> /\ latest[k][1] = casing[k]
    BY <1>2, <1>3
  <2>2. latest[k][1] \in {k} \X Spelling
    BY <2>1 DEF MergeBook, Merging
  <2> QED
    BY <1>4, <2>1, <2>2 DEF Name
<1> QED
  BY <1>4, <1>5, <1>6

\* The map and the history go together again once a step has changed both.
LEMMA LayeredAgain ==
    ASSUME DOMAIN casing' = {k \in Key : latest'[k] # <<>>},
           \A k \in DOMAIN casing' : casing'[k] = latest'[k][1],
           \A k \in Key : latest'[k] # <<>> =>
              /\ latest'[k] = <<latest'[k][1], latest'[k][2]>>
              /\ latest'[k][1] \in {k} \X Spelling
              /\ latest'[k][1] \in DOMAIN effective',
           \A m \in DOMAIN effective' :
              /\ m[1] \in Key /\ latest'[m[1]] # <<>> /\ latest'[m[1]][1] = m
              /\ effective'[m] = latest'[m[1]][2]
    PROVE  MergeBook'
<1>1. \A m \in DOMAIN effective' : m[1] \in DOMAIN casing' /\ m = casing'[m[1]]
  OBVIOUS
<1>2. \A k \in DOMAIN casing' : casing'[k] \in DOMAIN effective'
  OBVIOUS
<1>3. DOMAIN effective' = {casing'[k] : k \in DOMAIN casing'}
  <2>1. ASSUME NEW m \in DOMAIN effective' PROVE m \in {casing'[k] : k \in DOMAIN casing'}
    BY <1>1
  <2>2. ASSUME NEW m \in {casing'[k] : k \in DOMAIN casing'} PROVE m \in DOMAIN effective'
    BY <1>2, Zenon
  <2> QED
    BY <2>1, <2>2, Zenon
<1>4. HeadersLayered'
  BY <1>3 DEF HeadersLayered
<1> QED
  BY <1>4 DEF MergeBook

\* A layer sets a header that resolves.
LEMMA SetMerges ==
    ASSUME Shape, MergeBook, Merging, NEW b, NEW n \in Name, NEW value, NEW prior,
           prior = {casing[k] : k \in (DOMAIN casing) \cap {n[1]}},
           effective' = With(Without(effective, prior), n, <<b, value>>),
           casing' = With(casing, n[1], n),
           latest' = [latest EXCEPT ![n[1]] = <<n, <<b, value>>>>]
    PROVE  /\ MergeBook'
           /\ DOMAIN effective' = {m \in DOMAIN effective : m[1] # n[1]} \cup {n}
           /\ effective'[n] = <<b, value>>
           /\ \A m \in DOMAIN effective : m[1] # n[1] => effective'[m] = effective[m]
           /\ \A l, m \in DOMAIN effective' : l[1] = m[1] => l = m
<1>1. n = <<n[1], n[2]>> /\ n[1] \in Key /\ n[2] \in Spelling
  BY DEF Name
<1> DEFINE rest == Without(effective, prior)
<1>2. /\ DOMAIN rest = {m \in DOMAIN effective : m[1] # n[1]}
      /\ \A m \in DOMAIN rest : rest[m] = effective[m]
  <2>1. \A m \in DOMAIN effective : m \in prior <=> m[1] = n[1]
    BY OnTheMap
  <2> QED
    BY <2>1 DEF Without
<1>3. effective' = With(rest, n, <<b, value>>)
  OBVIOUS
<1> HIDE DEF rest
<1>4. /\ DOMAIN effective' = (DOMAIN rest) \cup {n}
      /\ effective'[n] = <<b, value>>
      /\ \A m \in (DOMAIN rest) \ {n} : effective'[m] = rest[m]
  BY <1>3 DEF With
<1>5. \A m \in DOMAIN effective : m[1] # n[1] => effective'[m] = effective[m]
  BY <1>2, <1>4
<1>6. /\ DOMAIN casing' = (DOMAIN casing) \cup {n[1]}
      /\ casing'[n[1]] = n
      /\ \A k \in (DOMAIN casing) \ {n[1]} : casing'[k] = casing[k]
  BY DEF With
<1>7. latest'[n[1]] = <<n, <<b, value>>>> /\ \A k \in Key \ {n[1]} : latest'[k] = latest[k]
  BY <1>1 DEF Shape
<1>8. DOMAIN casing = {k \in Key : latest[k] # <<>>}
  BY DEF MergeBook, HeadersLayered, Merging
<1>9. DOMAIN casing' = {k \in Key : latest'[k] # <<>>}
  BY <1>1, <1>6, <1>7, <1>8
<1>10. \A k \in DOMAIN casing' : casing'[k] = latest'[k][1]
  BY <1>6, <1>7, OnTheMap
<1>11. ASSUME NEW k \in Key, latest'[k] # <<>>
       PROVE  /\ latest'[k] = <<latest'[k][1], latest'[k][2]>>
              /\ latest'[k][1] \in {k} \X Spelling
              /\ latest'[k][1] \in DOMAIN effective'
  <2>1. CASE k = n[1]
    BY <1>1, <1>4, <1>7, <2>1
  <2>2. CASE k # n[1]
    <3>1. latest'[k] = latest[k] /\ latest[k] # <<>> /\ k \in DOMAIN casing
      BY <1>7, <1>8, <1>11, <2>2
    <3>2. latest[k] = <<latest[k][1], latest[k][2]>> /\ latest[k][1] \in {k} \X Spelling
      BY <3>1 DEF MergeBook, Merging
    <3>3. latest[k][1] \in DOMAIN effective /\ latest[k][1][1] = k
      BY <3>1, OnTheMap
    <3> QED
      BY <1>2, <1>4, <2>2, <3>1, <3>2, <3>3
  <2> QED
    BY <2>1, <2>2
<1>12. ASSUME NEW m \in DOMAIN effective'
       PROVE  /\ m[1] \in Key /\ latest'[m[1]] # <<>> /\ latest'[m[1]][1] = m
              /\ effective'[m] = latest'[m[1]][2]
  <2>1. CASE m = n
    BY <1>1, <1>4, <1>7, <2>1
  <2>2. CASE m # n
    <3>1. m \in DOMAIN effective /\ m[1] # n[1] /\ effective'[m] = effective[m]
      BY <1>2, <1>4, <2>2
    <3>2. /\ m \in Name /\ latest[m[1]] # <<>> /\ latest[m[1]][1] = m
          /\ effective[m] = latest[m[1]][2]
      BY <3>1, OnTheMap
    <3> QED
      BY <1>7, <3>1, <3>2 DEF Name
  <2> QED
    BY <2>1, <2>2
<1>13. MergeBook'
  BY <1>9, <1>10, <1>11, <1>12, LayeredAgain
<1> QED
  BY <1>2, <1>4, <1>5, <1>12, <1>13

\* The operation removes a header.
LEMMA RemovalMerges ==
    ASSUME Shape, MergeBook, Merging, NEW n \in Name, NEW prior,
           prior = {casing[k] : k \in (DOMAIN casing) \cap {n[1]}},
           effective' = Without(effective, prior),
           casing' = Without(casing, {n[1]}),
           latest' = [latest EXCEPT ![n[1]] = <<>>]
    PROVE  /\ MergeBook'
           /\ DOMAIN effective' = {m \in DOMAIN effective : m[1] # n[1]}
           /\ \A m \in DOMAIN effective' : effective'[m] = effective[m]
<1>1. n[1] \in Key
  BY DEF Name
<1>2. /\ DOMAIN effective' = {m \in DOMAIN effective : m[1] # n[1]}
      /\ \A m \in DOMAIN effective' : effective'[m] = effective[m]
  <2>1. \A m \in DOMAIN effective : m \in prior <=> m[1] = n[1]
    BY OnTheMap
  <2> QED
    BY <2>1 DEF Without
<1>3. /\ DOMAIN casing' = (DOMAIN casing) \ {n[1]}
      /\ \A k \in (DOMAIN casing) \ {n[1]} : casing'[k] = casing[k]
  BY DEF Without
<1>4. latest'[n[1]] = <<>> /\ \A k \in Key \ {n[1]} : latest'[k] = latest[k]
  BY <1>1 DEF Shape
<1>5. DOMAIN casing = {k \in Key : latest[k] # <<>>}
  BY DEF MergeBook, HeadersLayered, Merging
<1>6. DOMAIN casing' = {k \in Key : latest'[k] # <<>>}
  BY <1>3, <1>4, <1>5
<1>7. \A k \in DOMAIN casing' : casing'[k] = latest'[k][1]
  BY <1>3, <1>4, OnTheMap
<1>8. ASSUME NEW k \in Key, latest'[k] # <<>>
      PROVE  /\ latest'[k] = <<latest'[k][1], latest'[k][2]>>
             /\ latest'[k][1] \in {k} \X Spelling
             /\ latest'[k][1] \in DOMAIN effective'
  <2>1. k # n[1] /\ latest'[k] = latest[k] /\ latest[k] # <<>> /\ k \in DOMAIN casing
    BY <1>4, <1>5, <1>8
  <2>2. latest[k] = <<latest[k][1], latest[k][2]>> /\ latest[k][1] \in {k} \X Spelling
    BY <2>1 DEF MergeBook, Merging
  <2>3. latest[k][1] \in DOMAIN effective /\ latest[k][1][1] = k
    BY <2>1, OnTheMap
  <2> QED
    BY <1>2, <2>1, <2>2, <2>3
<1>9. ASSUME NEW m \in DOMAIN effective'
      PROVE  /\ m[1] \in Key /\ latest'[m[1]] # <<>> /\ latest'[m[1]][1] = m
             /\ effective'[m] = latest'[m[1]][2]
  <2>1. m \in DOMAIN effective /\ m[1] # n[1] /\ effective'[m] = effective[m]
    BY <1>2
  <2>2. /\ m \in Name /\ latest[m[1]] # <<>> /\ latest[m[1]][1] = m
        /\ effective[m] = latest[m[1]][2]
    BY <2>1, OnTheMap
  <2> QED
    BY <1>4, <2>1, <2>2 DEF Name
<1>10. MergeBook'
  BY <1>6, <1>7, <1>8, <1>9, LayeredAgain
<1> QED
  BY <1>2, <1>10

-----------------------------------------------------------------------------
(* The steps *)

\* No layer is read and nothing is on the map.
LEMMA Starts == Init => DispatchInv
<1> SUFFICES ASSUME Init PROVE DispatchInv
  OBVIOUS
<1>1. DOMAIN effective = {} /\ DOMAIN casing = {} /\ phase = "url"
      /\ latest = [k \in Key |-> <<>>] /\ removes["operation"] = {}
  BY DEF Init, Block
<1>2. Shape
  BY <1>1, FS_EmptySet DEF Init, Shape
<1>3. MergeBook
  BY <1>1 DEF MergeBook, HeadersLayered
<1>4. RuleBook
  BY <1>1 DEF RuleBook
<1>5. SendBook
  BY <1>1 DEF SendBook
<1> QED
  BY <1>2, <1>3, <1>4, <1>5 DEF DispatchInv

\* Steps that leave the blocks and the map alone, and send nothing.
LEMMA QuietKeeps ==
    ASSUME DispatchInv, UNCHANGED <<graded, headers, removes, map>>,
           phase \notin {"body", "sent"},
           phase' \in Layers \cup {"url", "removals", "failed"},
           phase' \in {"url", "defaults", "transport"} => phase \in {"url", "defaults", "transport"},
           phase' \notin {"url", "failed"} => url' = "text"
    PROVE  DispatchInv'
<1>1. UNCHANGED <<graded, headers, removes, effective, casing, latest>>
  BY DEF map
<1>2. Shape'
  BY <1>1 DEF DispatchInv, Shape
<1>3. MergeBook'
  BY <1>1 DEF DispatchInv, MergeBook, HeadersLayered, Layers
<1>4. RuleBook'
  BY <1>1 DEF DispatchInv, RuleBook
<1>5. SendBook'
  BY DEF SendBook, Layers
<1> QED
  BY <1>2, <1>3, <1>4, <1>5 DEF DispatchInv

\* The URL is built, or the request fails.
LEMMA UrlKeeps ==
    ASSUME DispatchInv, NEW own, NEW base, NEW path, ResolveUrl(own, base, path)
    PROVE  DispatchInv'
BY QuietKeeps DEF ResolveUrl, document, Layers

\* The next layer is read.
LEMMA LayerKeeps == DispatchInv /\ NextLayer => DispatchInv'
<1> SUFFICES ASSUME DispatchInv, NextLayer PROVE DispatchInv'
  OBVIOUS
<1>1. phase' \in {"transport", "removals", "operation"}
      /\ (phase' = "transport" => phase = "defaults")
  BY DEF NextLayer
<1>2. url' = "text" /\ UNCHANGED <<graded, headers, removes, map>>
  BY DEF NextLayer, DispatchInv, SendBook, document
<1> QED
  BY <1>1, <1>2, QuietKeeps DEF NextLayer, Layers

\* A value that resolves is not void unless it was authored void.
LEMMA Resolved ==
    ASSUME NEW v \in Authored
    PROVE  ResolveHeaderValue(v) = "blank" => v = "blank"
BY DEF Authored, ResolveHeaderValue, None

\* A header is set, or does not resolve and is dropped.
LEMMA SetKeeps ==
    ASSUME DispatchInv, NEW b \in Block, NEW n \in Name, NEW v \in Authored, SetHeader(b, n, v)
    PROVE  DispatchInv'
<1> DEFINE value == ResolveHeaderValue(v)
           prior == {casing[k] : k \in (DOMAIN casing) \cap {n[1]}}
<1>1. /\ phase = b /\ MaySet(b, n, v)
      /\ headers' = [headers EXCEPT ![b] = @ \cup {n}]
      /\ IF value = None THEN UNCHANGED map
         ELSE /\ effective' = With(Without(effective, prior), n, <<b, value>>)
              /\ casing' = With(casing, n[1], n)
              /\ latest' = [latest EXCEPT ![n[1]] = <<n, <<b, value>>>>]
      /\ UNCHANGED <<document, phase, removes, url, body, mediaType>>
  BY DEF SetHeader
<1>2. UNCHANGED <<graded, phase, removes, url, body, mediaType>> /\ Merging
      /\ phase \in {"defaults", "transport", "operation"}
  BY <1>1 DEF document, Block, Merging
<1>3. headers' \in [Block -> SUBSET Name]
  BY <1>1 DEF DispatchInv, Shape
<1>4. SendBook'
  BY <1>2 DEF SendBook, DispatchInv, Merging
<1>5. CASE value = None
  <2>1. UNCHANGED <<effective, casing, latest>>
    BY <1>1, <1>5 DEF map
  <2>2. Shape'
    BY <1>2, <1>3, <2>1 DEF DispatchInv, Shape
  <2>3. MergeBook'
    BY <1>2, <2>1 DEF DispatchInv, MergeBook, HeadersLayered
  <2>4. RuleBook'
    BY <1>2, <2>1 DEF DispatchInv, RuleBook
  <2> QED
    BY <1>4, <2>2, <2>3, <2>4 DEF DispatchInv
<1>6. CASE value # None
  <2>1. /\ effective' = With(Without(effective, prior), n, <<b, value>>)
        /\ casing' = With(casing, n[1], n)
        /\ latest' = [latest EXCEPT ![n[1]] = <<n, <<b, value>>>>]
    BY <1>1, <1>6
  <2>2. graded => value # "blank"
    BY <1>1, Resolved DEF MaySet
  <2>3. prior = {casing[k] : k \in (DOMAIN casing) \cap {n[1]}} /\ Shape /\ MergeBook
    BY DEF DispatchInv
  <2> HIDE DEF prior, value
  <2>4. /\ MergeBook'
        /\ DOMAIN effective' = {m \in DOMAIN effective : m[1] # n[1]} \cup {n}
        /\ effective'[n] = <<b, value>>
        /\ \A m \in DOMAIN effective : m[1] # n[1] => effective'[m] = effective[m]
        /\ \A l, m \in DOMAIN effective' : l[1] = m[1] => l = m
    BY <1>2, <2>1, <2>3, SetMerges
  <2>5. IsFiniteSet(DOMAIN effective')
    <3>1. {m \in DOMAIN effective : m[1] # n[1]} \in SUBSET DOMAIN effective
      OBVIOUS
    <3>2. IsFiniteSet({m \in DOMAIN effective : m[1] # n[1]})
      BY <2>3, <3>1, FS_Subset DEF Shape
    <3> QED
      BY <2>4, <3>2, FS_AddElement
  <2>6. Shape'
    BY <1>2, <1>3, <2>1, <2>5 DEF DispatchInv, Shape
  <2>7. RuleBook'
    <3> SUFFICES ASSUME graded, NEW m \in DOMAIN effective', m[1] # ContentType
                 PROVE  /\ effective'[m][2] # "blank" /\ m[1] # ContentLength
                        /\ m[1] \notin {r[1] : r \in removes["operation"]}
      BY <1>2, <2>4 DEF RuleBook, DispatchInv
    <3>1. CASE m = n
      <4>1. effective'[m][2] # "blank" /\ m[1] # ContentLength
        BY <1>1, <2>2, <2>4, <3>1 DEF MaySet
      <4>2. m[1] \notin {r[1] : r \in removes["operation"]}
        BY <1>1, <1>2, <3>1 DEF MaySet, DispatchInv, RuleBook
      <4> QED
        BY <4>1, <4>2
    <3>2. CASE m # n
      BY <2>4, <3>2 DEF DispatchInv, RuleBook
    <3> QED
      BY <3>1, <3>2
  <2> QED
    BY <1>4, <2>4, <2>6, <2>7 DEF DispatchInv
<1> QED
  BY <1>5, <1>6

\* A removal a lower layer writes changes nothing but its block.
LEMMA NoteKeeps ==
    ASSUME DispatchInv, NEW b \in Block, NEW n \in Name, NoteRemoval(b, n)
    PROVE  DispatchInv'
<1>1. UNCHANGED <<graded, phase, headers, effective, casing, latest, url, body, mediaType>>
      /\ Merging /\ phase = b /\ removes'["operation"] = removes["operation"]
      /\ removes' \in [Block -> SUBSET Name]
  BY DEF NoteRemoval, document, map, Block, Merging, DispatchInv, Shape
<1>2. Shape'
  BY <1>1 DEF DispatchInv, Shape
<1>3. MergeBook'
  BY <1>1 DEF DispatchInv, MergeBook, HeadersLayered
<1>4. RuleBook'
  BY <1>1 DEF DispatchInv, RuleBook
<1>5. SendBook'
  BY <1>1 DEF DispatchInv, SendBook, Merging
<1> QED
  BY <1>2, <1>3, <1>4, <1>5 DEF DispatchInv

\* The operation's removal takes what the layers below left.
LEMMA RemovalKeeps ==
    ASSUME DispatchInv, NEW n \in Name, RemoveHeader(n)
    PROVE  DispatchInv'
<1> DEFINE prior == {casing[k] : k \in (DOMAIN casing) \cap {n[1]}}
<1>1. /\ phase = "removals"
      /\ removes' = [removes EXCEPT !["operation"] = @ \cup {n}]
      /\ casing' = Without(casing, {n[1]})
      /\ effective' = Without(effective, prior)
      /\ latest' = [latest EXCEPT ![n[1]] = <<>>]
      /\ UNCHANGED <<document, phase, headers, url, body, mediaType>>
  BY DEF RemoveHeader
<1>2. UNCHANGED <<graded, phase, headers, url, body, mediaType>> /\ Merging /\ Shape /\ MergeBook
      /\ prior = {casing[k] : k \in (DOMAIN casing) \cap {n[1]}}
  BY <1>1 DEF document, Merging, DispatchInv
<1> HIDE DEF prior
<1>3. /\ MergeBook'
      /\ DOMAIN effective' = {m \in DOMAIN effective : m[1] # n[1]}
      /\ \A m \in DOMAIN effective' : effective'[m] = effective[m]
  BY <1>1, <1>2, RemovalMerges
<1>4. removes' \in [Block -> SUBSET Name] /\ removes'["operation"] = removes["operation"] \cup {n}
  BY <1>1, <1>2 DEF Shape, Block
<1>5. Shape'
  <2>1. DOMAIN effective' \in SUBSET DOMAIN effective
    BY <1>3
  <2>2. IsFiniteSet(DOMAIN effective')
    BY <1>2, <2>1, FS_Subset DEF Shape
  <2> QED
    BY <1>1, <1>2, <1>4, <2>2 DEF Shape
<1>6. RuleBook'
  <2>1. \A l, m \in DOMAIN effective' : l[1] = m[1] => l = m
    BY <1>3 DEF DispatchInv, RuleBook
  <2>2. ASSUME graded, NEW m \in DOMAIN effective', m[1] # ContentType
        PROVE  /\ effective'[m][2] # "blank" /\ m[1] # ContentLength
               /\ m[1] \notin {r[1] : r \in removes'["operation"]}
    <3>1. m \in DOMAIN effective /\ m[1] # n[1] /\ effective'[m] = effective[m]
      BY <1>3
    <3>2. /\ effective[m][2] # "blank" /\ m[1] # ContentLength
          /\ m[1] \notin {r[1] : r \in removes["operation"]}
      BY <2>2, <3>1 DEF DispatchInv, RuleBook
    <3> QED
      BY <1>4, <3>1, <3>2
  <2> QED
    BY <1>1, <1>2, <2>1, <2>2 DEF RuleBook
<1>7. SendBook'
  BY <1>1, <1>2 DEF DispatchInv, SendBook
<1> QED
  BY <1>3, <1>5, <1>6, <1>7 DEF DispatchInv

\* The one Content-Type of the request is the one its body is encoded by.
LEMMA ContentTypeKeeps ==
    ASSUME DispatchInv, NEW declared, ApplyContentType(declared)
    PROVE  DispatchInv'
<1> DEFINE stamped == IF declared = None THEN "form" ELSE declared
           typed == {n \in DOMAIN effective : n[1] = ContentType}
           plain == CHOOSE s \in Spelling : TRUE
           name == <<ContentType, plain>>
<1>1. /\ phase = "operation" /\ phase' = "body" /\ mediaType' = stamped
      /\ effective' = With(Without(effective, typed), name, <<"operation", stamped>>)
      /\ UNCHANGED <<graded, headers, removes, casing, latest, url, body>>
  BY DEF ApplyContentType, document
<1>2. typed = {n \in DOMAIN effective : n[1] = ContentType} /\ name[1] = ContentType
  OBVIOUS
<1> HIDE DEF stamped, typed, plain, name
<1>3. /\ DOMAIN effective' = {m \in DOMAIN effective : m[1] # ContentType} \cup {name}
      /\ effective'[name] = <<"operation", stamped>>
      /\ \A m \in DOMAIN effective : m[1] # ContentType => effective'[m] = effective[m]
  BY <1>1, <1>2 DEF With, Without
<1>4. Shape'
  <2>1. {m \in DOMAIN effective : m[1] # ContentType} \in SUBSET DOMAIN effective
    OBVIOUS
  <2>2. IsFiniteSet({m \in DOMAIN effective : m[1] # ContentType})
    BY <2>1, FS_Subset DEF DispatchInv, Shape
  <2>3. IsFiniteSet(DOMAIN effective')
    BY <1>3, <2>2, FS_AddElement
  <2> QED
    BY <1>1, <2>3 DEF DispatchInv, Shape
<1>5. MergeBook'
  BY <1>1 DEF MergeBook
<1>6. RuleBook'
  BY <1>1, <1>2, <1>3 DEF DispatchInv, RuleBook
<1>7. SendBook'
  <2>1. {n \in DOMAIN effective' : n[1] = ContentType} = {name}
    BY <1>2, <1>3
  <2>2. {effective'[n][2] : n \in {m \in DOMAIN effective' : m[1] = ContentType}} = {stamped}
    BY <1>3, <2>1
  <2> QED
    BY <1>1, <2>2 DEF DispatchInv, SendBook
<1> QED
  BY <1>4, <1>5, <1>6, <1>7 DEF DispatchInv

\* The body is encoded and the request leaves.
LEMMA BodyKeeps ==
    ASSUME DispatchInv, NEW field, ResolveBody(field)
    PROVE  DispatchInv'
<1>1. /\ phase = "body" /\ phase' = "sent"
      /\ UNCHANGED <<graded, headers, removes, effective, casing, latest, url, mediaType>>
      /\ mediaType = "form" => body' # "half"
  BY DEF ResolveBody, document, map, None
<1>2. Shape'
  BY <1>1 DEF DispatchInv, Shape
<1>3. MergeBook'
  BY <1>1 DEF MergeBook
<1>4. RuleBook'
  BY <1>1 DEF DispatchInv, RuleBook
<1>5. SendBook'
  BY <1>1 DEF DispatchInv, SendBook
<1> QED
  BY <1>2, <1>3, <1>4, <1>5 DEF DispatchInv

\* Nothing happens.
LEMMA IdleKeeps == DispatchInv /\ UNCHANGED vars => DispatchInv'
<1> SUFFICES ASSUME DispatchInv, UNCHANGED vars PROVE DispatchInv'
  OBVIOUS
<1>1. UNCHANGED <<graded, phase, headers, removes, effective, casing, latest, url, body, mediaType>>
  BY DEF vars
<1>2. Shape'
  BY <1>1 DEF DispatchInv, Shape
<1>3. MergeBook'
  BY <1>1 DEF DispatchInv, MergeBook, HeadersLayered
<1>4. RuleBook'
  BY <1>1 DEF DispatchInv, RuleBook
<1>5. SendBook'
  BY <1>1 DEF DispatchInv, SendBook
<1> QED
  BY <1>2, <1>3, <1>4, <1>5 DEF DispatchInv

-----------------------------------------------------------------------------
(* The theorems *)

\* Every reachable state keeps the books behind the properties.
THEOREM BooksHold == Spec => []DispatchInv
<1>1. DispatchInv /\ [Next]_vars => DispatchInv'
  BY UrlKeeps, SetKeeps, NoteKeeps, RemovalKeeps, LayerKeeps, ContentTypeKeeps, BodyKeeps, IdleKeeps
     DEF Next, Dispatch
<1> QED
  BY Starts, <1>1, PTL DEF Spec

\* The two dicts of the merge stay one map by what the wire compares, however the names
\* are spelled, whatever does not resolve and whatever is removed.
THEOREM DictsAgree == Spec => []HeadersLayered
<1>1. DispatchInv => HeadersLayered
  BY DEF DispatchInv, MergeBook, HeadersLayered
<1> QED
  BY BooksHold, <1>1, PTL

\* What leaves has a whole URL, one Content-Type that is its body's, each name once, and,
\* from graded blocks, nothing the rules were there to keep out.
THEOREM SentWhole == Spec => []SentAsAuthored
<1>1. ASSUME DispatchInv, phase = "sent" PROVE SentAsAuthored
  <2> DEFINE keys == {n[1] : n \in DOMAIN effective}
             key == [n \in DOMAIN effective |-> n[1]]
  <2>1. Cardinality(keys) = Cardinality(DOMAIN effective)
    <3>1. key \in Bijection(DOMAIN effective, keys)
      BY <1>1 DEF DispatchInv, RuleBook, Bijection, Injection, Surjection, IsInjective
    <3> HIDE DEF key, keys
    <3>2. ExistsBijection(DOMAIN effective, keys)
      BY <3>1 DEF ExistsBijection
    <3> QED
      BY <1>1, <3>2, FS_Bijection DEF DispatchInv, Shape
  <2> QED
    BY <1>1, <2>1 DEF DispatchInv, SendBook, RuleBook, SentAsAuthored
<1>2. DispatchInv => SentAsAuthored
  BY <1>1 DEF SentAsAuthored
<1> QED
  BY BooksHold, <1>2, PTL
=============================================================================
