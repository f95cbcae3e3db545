-------------------------- MODULE DocumentSetProofs --------------------------
(***************************************************************************)
(* Proofs about DocumentSet, for any requests, documents and crashes.      *)
(***************************************************************************)
EXTENDS DocumentSet, FiniteSetTheorems, TLAPS

-----------------------------------------------------------------------------
(* The request and what is due *)

\* The request stays, and with it all that is read from it alone.
LEMMA RequestStays ==
  ASSUME request' = request
  PROVE  /\ Texts' = Texts /\ Packages' = Packages /\ Rootless' = Rootless
         /\ Located' = Located /\ Due' = Due /\ Parsed' = Parsed
         /\ \A k : Kind(k)' = Kind(k) /\ Document(k)' = Document(k)
         /\ \A kind : Written(kind)' = Written(kind)
         /\ \A c : Says(c)' = Says(c)
<1>1. Texts' = Texts /\ Packages' = Packages /\ \A k : Kind(k)' = Kind(k)
  BY DEF Texts, Packages, Kind
<1>2. Rootless' = Rootless /\ Located' = Located /\ Due' = Due
  BY <1>1 DEF Rootless, Located, Due
<1>3. \A kind : Written(kind)' = Written(kind)
  BY <1>1, <1>2 DEF Written
<1>4. \A k : Document(k)' = Document(k)
  BY <1>1 DEF Document
<1>5. Parsed' = Parsed
  BY <1>1, <1>3 DEF Parsed
<1>6. \A c : Says(c)' = Says(c)
  BY <1>5 DEF Says
<1> QED
  BY <1>1, <1>2, <1>3, <1>4, <1>5, <1>6

\* What is due is a check of the table and a directory.
LEMMA DueIs ==
  ASSUME NEW c \in Due
  PROVE  /\ c = [check |-> c.check, dir |-> c.dir]
         /\ c.check \in Checks
         /\ request.mode # "single"
<1>1. CASE \E d \in Packages : c \in At(PackageChecks(d.unit), d)
  <2>1. request.mode # "single"
    BY <1>1 DEF Packages
  <2> QED
    BY <2>1, <1>1 DEF At, PackageChecks
<1>2. CASE request.mode = "workspace" /\ c \in At(WorkspaceChecks, Outside)
  BY <1>2 DEF At, WorkspaceChecks
<1> QED
  BY <1>1, <1>2 DEF Due

\* No location has the name of a check.
LEMMA LocationsAreNoChecks ==
  ASSUME NEW k, KindAt(k) # NoKind
  PROVE  k.at[1] \notin Checks
<1> DEFINE unit == k.dir.unit
           locations == {"root", "map", "endpoint", "secrets", "stream", "manifest"}
<1>1. k.at[1] \in DOMAIN Locations(unit)
  BY DEF KindAt
<1>2. DOMAIN Locations(unit) \subseteq locations
  <2> HIDE DEF unit
  <2>1. CASE unit = "connector"
    BY <2>1 DEF Locations
  <2>2. CASE unit = "connection"
    BY <2>2 DEF Locations
  <2>3. CASE unit = "pipeline"
    BY <2>3 DEF Locations
  <2>4. CASE unit \notin {"connector", "connection", "pipeline"}
    BY <2>4 DEF Locations
  <2> QED
    BY <2>1, <2>2, <2>3, <2>4
<1>3. locations \cap Checks = {}
  BY DEF Checks, Reads
<1> QED
  BY <1>1, <1>2, <1>3

\* A check that crashed is not mistaken for a document, nor for another check.
LEMMA NamesApart ==
  ASSUME NEW c \in Due
  PROVE  /\ Name(c) \notin Located
         /\ \A d \in Due : Name(d) = Name(c) => d = c
<1>1. Name(c) \notin Located
  <2>1. Name(c).at[1] \in Checks
    BY DueIs DEF Name
  <2>2. Name(c) \in Located => KindAt(Name(c)) # NoKind
    BY DueIs DEF Located, Kind
  <2> QED
    BY <2>1, <2>2, LocationsAreNoChecks
<1>2. ASSUME NEW d \in Due, Name(d) = Name(c) PROVE d = c
  <2>1. c = [check |-> c.check, dir |-> c.dir] /\ d = [check |-> d.check, dir |-> d.dir]
    BY DueIs
  <2>2. Name(d).dir = Name(c).dir /\ Name(d).at[1] = Name(c).at[1]
    BY <1>2
  <2>3. d.dir = c.dir /\ d.check = c.check
    BY <2>2 DEF Name
  <2> QED
    BY <2>1, <2>3
<1> QED
  BY <1>1, <1>2

-----------------------------------------------------------------------------
(* The documents *)

\* What explains a finding goes on explaining it.
LEMMA ExplainedGrows ==
  ASSUME request' = request, Located \ ungraded \subseteq Located \ ungraded',
         crashed \subseteq crashed', ran \subseteq ran', NEW f, Explained(f)
  PROVE  Explained(f)'
<1>1. /\ Texts' = Texts /\ Rootless' = Rootless /\ Located' = Located
      /\ \A k : Kind(k)' = Kind(k)
      /\ \A c : Says(c)' = Says(c)
  BY RequestStays
<1>2. CASE \E d \in Rootless : f = Fail(Root(d), "package-root-missing")
  BY <1>1, <1>2 DEF Explained
<1>3. CASE \E k \in Located \ ungraded :
             IF Unparseable(Texts[k]) THEN f = Fail(k, "unreadable-document")
                                      ELSE f \in Graded(Kind(k), k, Texts[k])
  <2>1. PICK k \in Located \ ungraded' :
             IF Unparseable(Texts[k]) THEN f = Fail(k, "unreadable-document")
                                      ELSE f \in Graded(Kind(k), k, Texts[k])
    BY <1>3
  <2> QED
    BY <1>1, <2>1 DEF Explained
<1>4. CASE \E x \in crashed : f = Crash(x)
  BY <1>4 DEF Explained
<1>5. CASE \E c \in ran : f \in Says(c)
  BY <1>1, <1>5 DEF Explained
<1> QED
  BY <1>2, <1>3, <1>4, <1>5 DEF Explained

\* A key is graded: refused as unreadable, graded in full, or crashed, and kept where it parsed.
LEMMA KeyGraded ==
  ASSUME DocInv, phase = "documents", ungraded # {},
         UNCHANGED <<request, phase, unchecked, ran>>,
         NEW key \in ungraded, ungraded' = ungraded \ {key},
         NEW said, findings' = findings \cup said,
         NEW lost, crashed' = crashed \cup lost,
         complete' = (complete /\ ~ Unparseable(Texts[key])),
         documents' = IF Unparseable(Texts[key]) THEN documents
                      ELSE [documents EXCEPT ![Kind(key)] = @ \cup {Document(key)}],
         \/ Unparseable(Texts[key]) /\ said = {Fail(key, "unreadable-document")} /\ lost = {}
         \/ ~ Unparseable(Texts[key]) /\ said = Graded(Kind(key), key, Texts[key]) /\ lost = {}
         \/ ~ Unparseable(Texts[key]) /\ said = {Crash(key)} /\ lost = {key}
  PROVE  DocInv'
<1>1. /\ request \in Requests /\ complete \in BOOLEAN /\ DocumentsBook
      /\ crashed \subseteq Located \ ungraded /\ unchecked \cup ran = {}
  BY DEF DocInv
<1>2. /\ Texts' = Texts /\ Packages' = Packages /\ Rootless' = Rootless /\ Located' = Located
      /\ \A k : Kind(k)' = Kind(k) /\ Document(k)' = Document(k)
      /\ \A kind : Written(kind)' = Written(kind)
  BY RequestStays
<1>3. key \in Located /\ Located \ ungraded' = (Located \ ungraded) \cup {key}
  BY <1>1 DEF DocumentsBook
<1>4. \A f \in findings : Explained(f)'
  BY <1>1, <1>3, ExplainedGrows DEF DocumentsBook
<1>5. \A f \in said : Explained(f)'
  <2>1. CASE Unparseable(Texts[key])
    BY <2>1, <1>2, <1>3 DEF Explained
  <2>2. CASE ~ Unparseable(Texts[key]) /\ said = Graded(Kind(key), key, Texts[key])
    BY <2>2, <1>2, <1>3 DEF Explained
  <2>3. CASE said = {Crash(key)} /\ lost = {key}
    BY <2>3 DEF Explained
  <2> QED
    BY <2>1, <2>2, <2>3
<1>6. \A k \in Located \ ungraded' :
        IF Unparseable(Texts[k]) THEN Fail(k, "unreadable-document") \in findings'
        ELSE k \in crashed' \/ Graded(Kind(k), k, Texts[k]) \subseteq findings'
  <2> TAKE k \in Located \ ungraded'
  <2>1. CASE k = key
    BY <2>1
  <2>2. CASE k \in Located \ ungraded
    BY <2>2, <1>1 DEF DocumentsBook
  <2> QED
    BY <1>3, <2>1, <2>2
<1>7. documents' = [kind \in Kinds |-> Kept(kind)']
  <2>1. documents = [kind \in Kinds |-> Kept(kind)]
    BY <1>1 DEF DocumentsBook
  <2>2. \A kind : Kept(kind)' =
          {Document(k) : k \in {k \in Written(kind) \ ungraded' : ~ Unparseable(Texts[k])}}
    BY <1>2 DEF Kept
  <2>3. key \in Written(Kind(key)) /\ \A kind : key \in Written(kind) => kind = Kind(key)
    BY <1>3 DEF Written
  <2>4. CASE Unparseable(Texts[key])
    <3>1. \A kind : {k \in Written(kind) \ ungraded' : ~ Unparseable(Texts[k])} =
                   {k \in Written(kind) \ ungraded : ~ Unparseable(Texts[k])}
      BY <2>4
    <3>2. \A kind : Kept(kind)' = Kept(kind)
      BY <2>2, <3>1 DEF Kept
    <3> QED
      BY <2>1, <2>4, <3>2
  <2>5. CASE ~ Unparseable(Texts[key])
    <3>1. \A kind : {k \in Written(kind) \ ungraded' : ~ Unparseable(Texts[k])} =
            {k \in Written(kind) \ ungraded : ~ Unparseable(Texts[k])}
              \cup (IF kind = Kind(key) THEN {key} ELSE {})
      <4> TAKE kind
      <4>1. \A k : k \in Written(kind) \ ungraded' <=>
                   k \in Written(kind) \ ungraded \/ (k = key /\ kind = Kind(key))
        BY <2>3
      <4> QED
        BY <4>1, <2>5
    <3>2. \A kind : Kept(kind)' =
            Kept(kind) \cup (IF kind = Kind(key) THEN {Document(key)} ELSE {})
      <4> TAKE kind
      <4>1. CASE kind = Kind(key)
        <5>1. {k \in Written(kind) \ ungraded' : ~ Unparseable(Texts[k])} =
                {k \in Written(kind) \ ungraded : ~ Unparseable(Texts[k])} \cup {key}
          BY <3>1, <4>1
        <5> QED
          BY <2>2, <4>1, <5>1 DEF Kept
      <4>2. CASE kind # Kind(key)
        <5>1. {k \in Written(kind) \ ungraded' : ~ Unparseable(Texts[k])} =
                {k \in Written(kind) \ ungraded : ~ Unparseable(Texts[k])}
          BY <3>1, <4>2
        <5> QED
          BY <2>2, <4>2, <5>1 DEF Kept
      <4> QED
        BY <4>1, <4>2
    <3>3. documents' = [documents EXCEPT ![Kind(key)] = @ \cup {Document(key)}]
      BY <2>5
    <3> QED
      BY <2>1, <3>2, <3>3
  <2> QED
    BY <2>4, <2>5
<1>8. complete' <=> Rootless = {} /\ \A k \in Located \ ungraded' : ~ Unparseable(Texts[k])
  BY <1>1, <1>3 DEF DocumentsBook
<1>9. /\ request.mode = "workspace" => Packages # {}
      /\ ungraded' \subseteq Located
      /\ \A d \in Rootless : Fail(Root(d), "package-root-missing") \in findings'
      /\ \A x \in crashed' : Crash(x) \in findings'
  BY <1>1 DEF DocumentsBook
<1>10. DocumentsBook'
  <2>1. (\A k \in Located \ ungraded :
          IF Unparseable(Texts[k]) THEN Fail(k, "unreadable-document") \in findings
          ELSE k \in crashed \/ Graded(Kind(k), k, Texts[k]) \subseteq findings)'
    BY <1>2, <1>6
  <2>2. (documents = [kind \in Kinds |-> Kept(kind)])'
    BY <1>7
  <2>3. (complete <=> Rootless = {} /\ \A k \in Located \ ungraded : ~ Unparseable(Texts[k]))'
    BY <1>2, <1>8
  <2>4. (\A f \in findings : Explained(f))'
    BY <1>4, <1>5
  <2>5. /\ (request.mode = "workspace" => Packages # {})'
        /\ (ungraded \subseteq Located)'
        /\ (\A d \in Rootless : Fail(Root(d), "package-root-missing") \in findings)'
        /\ (\A x \in crashed : Crash(x) \in findings)'
    BY <1>2, <1>9
  <2> QED
    BY <2>1, <2>2, <2>3, <2>4, <2>5 DEF DocumentsBook
<1>11. crashed' \subseteq Located \ ungraded'
  BY <1>1, <1>3
<1> QED
  BY <1>1, <1>2, <1>10, <1>11 DEF DocInv

-----------------------------------------------------------------------------
(* The actions *)

\* The workspace that locates no package.
LEMMA EmptyWorkspaceKeeps ==
  ASSUME DocInv, EmptyWorkspace
  PROVE  DocInv'
<1>1. /\ phase = "start" /\ request.mode = "workspace" /\ Packages = {}
      /\ findings' = {Fail(Root(Outside), "workspace-empty")}
      /\ phase' = "done"
      /\ UNCHANGED <<request, ungraded, unchecked, documents, complete, crashed, ran>>
  BY DEF EmptyWorkspace
<1>2. /\ request \in Requests /\ complete \in BOOLEAN
      /\ ungraded \cup unchecked \cup crashed \cup ran = {}
      /\ documents = [kind \in Kinds |-> {}]
  BY <1>1 DEF DocInv
<1>3. Packages' = Packages
  BY <1>1, RequestStays
<1> QED
  BY <1>1, <1>2, <1>3 DEF DocInv

\* The roots are graded first.
LEMMA GradeRootsKeeps ==
  ASSUME DocInv, GradeRoots
  PROVE  DocInv'
<1>1. /\ phase = "start" /\ (request.mode = "workspace" => Packages # {})
      /\ findings' = {Fail(Root(d), "package-root-missing") : d \in Rootless}
      /\ complete' = (Rootless = {})
      /\ ungraded' = Located
      /\ phase' = "documents"
      /\ UNCHANGED <<request, unchecked, documents, crashed, ran>>
  BY DEF GradeRoots
<1>2. /\ request \in Requests /\ complete \in BOOLEAN
      /\ unchecked \cup crashed \cup ran = {}
      /\ documents = [kind \in Kinds |-> {}]
  BY <1>1 DEF DocInv
<1>3. /\ Texts' = Texts /\ Packages' = Packages /\ Rootless' = Rootless /\ Located' = Located
      /\ \A kind : Written(kind)' = Written(kind)
  BY <1>1, RequestStays
<1>4. \A kind : Kept(kind)' = {}
  <2>1. \A kind : Written(kind) \subseteq Located
    BY DEF Written
  <2>2. \A kind : {k \in Written(kind) \ Located : ~ Unparseable(Texts[k])} = {}
    BY <2>1
  <2> QED
    BY <2>2, <1>1, <1>3 DEF Kept
<1>5. (documents = [kind \in Kinds |-> Kept(kind)])'
  BY <1>1, <1>2, <1>4
<1>6. Located' \ ungraded' = {}
  BY <1>1, <1>3
<1>7. (\A f \in findings : Explained(f))'
  BY <1>1, <1>3 DEF Explained
<1>8. (complete <=> Rootless = {} /\ \A k \in Located \ ungraded : ~ Unparseable(Texts[k]))'
  BY <1>1, <1>3, <1>6
<1>9. (\A d \in Rootless : Fail(Root(d), "package-root-missing") \in findings)'
  BY <1>1, <1>3
<1>10. (\A x \in crashed : Crash(x) \in findings)'
  BY <1>1, <1>2
<1>11. (\A k \in Located \ ungraded :
          IF Unparseable(Texts[k]) THEN Fail(k, "unreadable-document") \in findings
          ELSE k \in crashed \/ Graded(Kind(k), k, Texts[k]) \subseteq findings)'
  BY <1>6
<1>12. DocumentsBook'
  BY <1>1, <1>3, <1>5, <1>7, <1>8, <1>9, <1>10, <1>11 DEF DocumentsBook
<1> QED
  BY <1>1, <1>2, <1>12 DEF DocInv

\* A key whose text does not parse.
LEMMA UnreadableKeeps ==
  ASSUME DocInv, Unreadable
  PROVE  DocInv'
<1>1. PICK key : key = NextKey
  OBVIOUS
<1>2. /\ phase = "documents" /\ ungraded # {} /\ Unparseable(Texts[key])
      /\ findings' = findings \cup {Fail(key, "unreadable-document")}
      /\ complete' = FALSE /\ ungraded' = ungraded \ {key}
      /\ UNCHANGED <<request, phase, unchecked, documents, crashed, ran>>
  BY <1>1 DEF Unreadable
<1>3. key \in ungraded
  BY <1>1, <1>2 DEF NextKey
<1>4. PICK said : said = {Fail(key, "unreadable-document")}
  OBVIOUS
<1>5. crashed' = crashed \cup {}
  BY <1>2
<1> QED
  BY <1>2, <1>3, <1>4, <1>5, KeyGraded

\* A key whose document parses.
LEMMA GradeKeeps ==
  ASSUME DocInv, Grade
  PROVE  DocInv'
<1>1. PICK key : key = NextKey
  OBVIOUS
<1>2. /\ phase = "documents" /\ ungraded # {} /\ ~ Unparseable(Texts[key])
      /\ findings' = findings \cup Graded(Kind(key), key, Texts[key])
      /\ documents' = [documents EXCEPT ![Kind(key)] = @ \cup {Document(key)}]
      /\ ungraded' = ungraded \ {key}
      /\ UNCHANGED <<request, phase, unchecked, complete, crashed, ran>>
  BY <1>1 DEF Grade, Keep, Document
<1>3. key \in ungraded
  BY <1>1, <1>2 DEF NextKey
<1>4. PICK said : said = Graded(Kind(key), key, Texts[key])
  OBVIOUS
<1>5. crashed' = crashed \cup {} /\ complete' = (complete /\ ~ Unparseable(Texts[key]))
  BY <1>2 DEF DocInv
<1> QED
  BY <1>2, <1>3, <1>4, <1>5, KeyGraded

\* A key whose validator crashes.
LEMMA GradeCrashesKeeps ==
  ASSUME DocInv, GradeCrashes
  PROVE  DocInv'
<1>1. PICK key : key = NextKey
  OBVIOUS
<1>2. /\ phase = "documents" /\ ungraded # {} /\ ~ Unparseable(Texts[key])
      /\ findings' = findings \cup {Crash(key)}
      /\ crashed' = crashed \cup {key}
      /\ documents' = [documents EXCEPT ![Kind(key)] = @ \cup {Document(key)}]
      /\ ungraded' = ungraded \ {key}
      /\ UNCHANGED <<request, phase, unchecked, complete, ran>>
  BY <1>1 DEF GradeCrashes, Keep, Document
<1>3. key \in ungraded
  BY <1>1, <1>2 DEF NextKey
<1>4. PICK said : said = {Crash(key)}
  OBVIOUS
<1>5. complete' = (complete /\ ~ Unparseable(Texts[key]))
  BY <1>2 DEF DocInv
<1> QED
  BY <1>2, <1>3, <1>4, <1>5, KeyGraded

-----------------------------------------------------------------------------
(* The checks *)

\* Once every key is graded and the set is complete, what is kept is what was written.
LEMMA AllKept ==
  ASSUME DocumentsBook, ungraded = {}, complete
  PROVE  /\ documents = Parsed
         /\ \A c : /\ RunCheck(c.check, DocumentsFor(c)) = Says(c)
                   /\ DocumentsFor(c) = IF c.dir = Outside THEN Parsed ELSE InPackage(Parsed, c.dir)
<1>1. documents = [kind \in Kinds |-> Kept(kind)]
  BY DEF DocumentsBook
<1>2. \A kind : Kept(kind) =
        {[key |-> k, form |-> Texts[k].form, body |-> Texts[k].body] :
           k \in {k \in Written(kind) : ~ Unparseable(Texts[k])}}
  <2> TAKE kind
  <2>1. Written(kind) \ ungraded = Written(kind)
    OBVIOUS
  <2> QED
    BY <2>1 DEF Kept, Document
<1>3. documents = Parsed
  BY <1>1, <1>2 DEF Parsed
<1> QED
  BY <1>3 DEF DocumentsFor, Says

\* The documents' book only gains findings and crashes that are accounted for.
LEMMA BookGrows ==
  ASSUME DocumentsBook, UNCHANGED <<request, ungraded, documents, complete>>,
         NEW said, findings' = findings \cup said,
         crashed \subseteq crashed', ran \subseteq ran',
         \A f \in said : Explained(f)',
         \A x \in crashed' : x \in crashed \/ Crash(x) \in said
  PROVE  DocumentsBook'
<1>1. /\ Texts' = Texts /\ Packages' = Packages /\ Rootless' = Rootless /\ Located' = Located
      /\ \A k : Kind(k)' = Kind(k) /\ Document(k)' = Document(k)
      /\ \A kind : Written(kind)' = Written(kind)
  BY RequestStays
<1>2. /\ request.mode = "workspace" => Packages # {}
      /\ ungraded \subseteq Located
      /\ complete <=> Rootless = {} /\ \A k \in Located \ ungraded : ~ Unparseable(Texts[k])
      /\ documents = [kind \in Kinds |-> Kept(kind)]
      /\ \A d \in Rootless : Fail(Root(d), "package-root-missing") \in findings
      /\ \A k \in Located \ ungraded :
           IF Unparseable(Texts[k]) THEN Fail(k, "unreadable-document") \in findings
           ELSE k \in crashed \/ Graded(Kind(k), k, Texts[k]) \subseteq findings
      /\ \A x \in crashed : Crash(x) \in findings
      /\ \A f \in findings : Explained(f)
  BY DEF DocumentsBook
<1>3. \A kind : Kept(kind)' = Kept(kind)
  BY <1>1 DEF Kept
<1>4. (\A f \in findings : Explained(f))'
  BY <1>2, ExplainedGrows
<1>5. (\A x \in crashed : Crash(x) \in findings)'
  BY <1>2
<1>6. (\A k \in Located \ ungraded :
          IF Unparseable(Texts[k]) THEN Fail(k, "unreadable-document") \in findings
          ELSE k \in crashed \/ Graded(Kind(k), k, Texts[k]) \subseteq findings)'
  BY <1>1, <1>2
<1>7. /\ (request.mode = "workspace" => Packages # {})'
      /\ (ungraded \subseteq Located)'
      /\ (complete <=> Rootless = {} /\ \A k \in Located \ ungraded : ~ Unparseable(Texts[k]))'
      /\ (\A d \in Rootless : Fail(Root(d), "package-root-missing") \in findings)'
  BY <1>1, <1>2
<1>8. (documents = [kind \in Kinds |-> Kept(kind)])'
  BY <1>2, <1>3
<1> QED
  BY <1>4, <1>5, <1>6, <1>7, <1>8 DEF DocumentsBook

\* With every key graded, the checks that are due wait their turn, or none runs.
LEMMA DocumentsGradedKeeps ==
  ASSUME DocInv, DocumentsGraded
  PROVE  DocInv'
<1>1. /\ phase = "documents" /\ ungraded = {} /\ phase' = "checks"
      /\ unchecked' = IF complete THEN Due ELSE {}
      /\ UNCHANGED <<request, ungraded, findings, documents, complete, crashed, ran>>
  BY DEF DocumentsGraded
<1>2. /\ request \in Requests /\ complete \in BOOLEAN /\ DocumentsBook
      /\ crashed \subseteq Located \ ungraded /\ unchecked \cup ran = {}
  BY <1>1 DEF DocInv
<1>3. Located' = Located /\ Due' = Due
  BY <1>1, RequestStays
<1>4. DocumentsBook'
  <2>1. findings' = findings \cup {}
    BY <1>1
  <2> QED
    BY <1>1, <1>2, <2>1, BookGrows
<1>5. \A c \in Due : Name(c) \notin crashed
  BY <1>2, NamesApart
<1>6. (ungraded = {} /\ unchecked \cup ran \subseteq Due /\ unchecked \cap ran = {} /\ ran = {})'
  BY <1>1, <1>2, <1>3
<1>7. (crashed \subseteq Located \cup {Name(c) : c \in Due})'
  BY <1>1, <1>2, <1>3
<1>8. (IF complete THEN \A c \in Due : Name(c) \in crashed <=> c \notin unchecked \cup ran
                   ELSE unchecked \cup ran = {})'
  BY <1>1, <1>2, <1>3, <1>5
<1>9. ChecksBook'
  BY <1>6, <1>7, <1>8 DEF ChecksBook
<1> QED
  BY <1>1, <1>2, <1>4, <1>9 DEF DocInv

\* A check runs to its end, or crashes: nothing else is disturbed.
LEMMA CheckDone ==
  ASSUME DocInv, phase = "checks",
         UNCHANGED <<request, phase, ungraded, documents, complete>>,
         NEW c \in unchecked, unchecked' = unchecked \ {c},
         NEW said, findings' = findings \cup said,
         \/ /\ ran' = ran \cup {c} /\ crashed' = crashed
            /\ ~ Raises(c.check, DocumentsFor(c)) /\ said = RunCheck(c.check, DocumentsFor(c))
         \/ ran' = ran /\ crashed' = crashed \cup {Name(c)} /\ said = {Crash(Name(c))}
  PROVE  DocInv'
<1>1. /\ request \in Requests /\ complete \in BOOLEAN /\ DocumentsBook /\ ChecksBook
  BY DEF DocInv
<1>2. /\ ungraded = {} /\ complete /\ c \in Due /\ c \notin ran
      /\ unchecked \cup ran \subseteq Due /\ unchecked \cap ran = {}
      /\ crashed \subseteq Located \cup {Name(d) : d \in Due}
      /\ \A d \in Due : Name(d) \in crashed <=> d \notin unchecked \cup ran
  BY <1>1 DEF ChecksBook
<1>3. \A d \in ran : /\ Says(d) \subseteq findings
                     /\ ~ Raises(d.check, IF d.dir = Outside THEN Parsed ELSE InPackage(Parsed, d.dir))
  BY <1>1 DEF ChecksBook
<1>4. /\ Located' = Located /\ Due' = Due /\ Parsed' = Parsed
      /\ \A d : Says(d)' = Says(d)
  BY RequestStays
<1>5. /\ RunCheck(c.check, DocumentsFor(c)) = Says(c)
      /\ DocumentsFor(c) = IF c.dir = Outside THEN Parsed ELSE InPackage(Parsed, c.dir)
  BY <1>1, <1>2, AllKept
<1>6. \A d \in Due : Name(d) = Name(c) => d = c
  BY <1>2, NamesApart
<1>7. ran \subseteq ran' /\ crashed \subseteq crashed'
  OBVIOUS
<1>8. \A f \in said : Explained(f)'
  <2>1. CASE c \in ran' /\ said = Says(c)
    BY <2>1, <1>4 DEF Explained
  <2>2. CASE Name(c) \in crashed' /\ said = {Crash(Name(c))}
    BY <2>2 DEF Explained
  <2> QED
    BY <2>1, <2>2, <1>5
<1>9. DocumentsBook'
  <2>1. \A x \in crashed' : x \in crashed \/ Crash(x) \in said
    OBVIOUS
  <2> QED
    BY <1>1, <1>7, <1>8, <2>1, BookGrows
<1>10. (ungraded = {} /\ unchecked \cup ran \subseteq Due /\ unchecked \cap ran = {})'
  BY <1>2, <1>4
<1>11. (crashed \subseteq Located \cup {Name(d) : d \in Due})'
  BY <1>2, <1>4
<1>12. \A d \in Due : Name(d) \in crashed' <=> d \notin unchecked' \cup ran'
  BY <1>2, <1>6
<1>13. \A d \in ran' : /\ Says(d) \subseteq findings'
                       /\ ~ Raises(d.check, IF d.dir = Outside THEN Parsed ELSE InPackage(Parsed, d.dir))
  BY <1>3, <1>5
<1>14. (IF complete THEN \A d \in Due : Name(d) \in crashed <=> d \notin unchecked \cup ran
                    ELSE unchecked \cup ran = {})'
  BY <1>2, <1>4, <1>12
<1>15. (\A d \in ran :
          /\ Says(d) \subseteq findings
          /\ ~ Raises(d.check, IF d.dir = Outside THEN Parsed ELSE InPackage(Parsed, d.dir)))'
  BY <1>4, <1>13
<1>16. ChecksBook'
  BY <1>10, <1>11, <1>14, <1>15 DEF ChecksBook
<1> QED
  BY <1>1, <1>9, <1>16 DEF DocInv

\* A check that runs to its end.
LEMMA CheckKeeps ==
  ASSUME DocInv, Check
  PROVE  DocInv'
<1>1. PICK c : c = NextCheck
  OBVIOUS
<1>2. PICK said : said = RunCheck(c.check, DocumentsFor(c))
  OBVIOUS
<1>3. /\ phase = "checks" /\ unchecked # {}
      /\ ~ Raises(c.check, DocumentsFor(c))
      /\ findings' = findings \cup said
      /\ ran' = ran \cup {c} /\ unchecked' = unchecked \ {c}
      /\ UNCHANGED <<request, phase, ungraded, documents, complete, crashed>>
  BY <1>1, <1>2 DEF Check
<1>4. c \in unchecked
  BY <1>1, <1>3 DEF NextCheck
<1> QED
  BY <1>2, <1>3, <1>4, CheckDone

\* A check that crashes.
LEMMA CheckCrashesKeeps ==
  ASSUME DocInv, CheckCrashes
  PROVE  DocInv'
<1>1. PICK c : c = NextCheck
  OBVIOUS
<1>2. PICK said : said = {Crash(Name(c))}
  OBVIOUS
<1>3. /\ phase = "checks" /\ unchecked # {}
      /\ findings' = findings \cup said
      /\ crashed' = crashed \cup {Name(c)} /\ unchecked' = unchecked \ {c}
      /\ UNCHANGED <<request, phase, ungraded, documents, complete, ran>>
  BY <1>1, <1>2 DEF CheckCrashes
<1>4. c \in unchecked
  BY <1>1, <1>3 DEF NextCheck
<1> QED
  BY <1>2, <1>3, <1>4, CheckDone

\* The invariant reads nothing but the variables, so a step that only moves the phase from
\* the checks to the end, or moves nothing, keeps it.
LEMMA AnswerKeeps ==
  ASSUME DocInv, UNCHANGED <<request, ungraded, unchecked, findings, documents, complete, crashed, ran>>,
         phase' = phase \/ (phase = "checks" /\ unchecked = {} /\ phase' = "done")
  PROVE  DocInv'
<1>1. /\ Texts' = Texts /\ Packages' = Packages /\ Rootless' = Rootless
      /\ Located' = Located /\ Due' = Due /\ Parsed' = Parsed
      /\ \A k : Kind(k)' = Kind(k)
      /\ \A c : Says(c)' = Says(c)
  BY RequestStays
<1>2. DocumentsBook => DocumentsBook'
  <2>1. PICK said : said = {}
    OBVIOUS
  <2>2. findings' = findings \cup said /\ \A f \in said : Explained(f)'
    BY <2>1
  <2> QED
    BY <2>2, BookGrows
<1>3. ChecksBook => ChecksBook'
  BY <1>1 DEF ChecksBook
<1> QED
  BY <1>1, <1>2, <1>3 DEF DocInv

\* Every step keeps the invariant.
LEMMA StepKeeps ==
  ASSUME DocInv, [Next]_vars
  PROVE  DocInv'
<1>1. CASE EmptyWorkspace
  BY <1>1, EmptyWorkspaceKeeps
<1>2. CASE GradeRoots
  BY <1>2, GradeRootsKeeps
<1>3. CASE Unreadable
  BY <1>3, UnreadableKeeps
<1>4. CASE Grade
  BY <1>4, GradeKeeps
<1>5. CASE GradeCrashes
  BY <1>5, GradeCrashesKeeps
<1>6. CASE DocumentsGraded
  BY <1>6, DocumentsGradedKeeps
<1>7. CASE Check
  BY <1>7, CheckKeeps
<1>8. CASE CheckCrashes
  BY <1>8, CheckCrashesKeeps
<1>9. CASE Answer
  BY <1>9, AnswerKeeps DEF Answer
<1>10. CASE UNCHANGED vars
  BY <1>10, AnswerKeeps DEF vars
<1> QED
  BY <1>1, <1>2, <1>3, <1>4, <1>5, <1>6, <1>7, <1>8, <1>9, <1>10 DEF Next, Finished

-----------------------------------------------------------------------------
(* What the invariant says *)

\* The books always agree with the documents of the request: what was graded is kept and
\* reported, what is due waits, ran or crashed, and every finding has its source.
THEOREM BooksHold == Spec => []DocInv
<1>1. Init => DocInv
  BY DEF Init, DocInv
<1>2. DocInv /\ [Next]_vars => DocInv'
  BY StepKeeps
<1> QED
  BY <1>1, <1>2, PTL DEF Spec

\* When a request is done over whole documents, the books of both halves are closed.
LEMMA ClosedBooks ==
  ASSUME DocInv, Done, Whole
  PROVE  /\ DocumentsBook /\ ChecksBook /\ complete
         /\ ungraded = {} /\ unchecked = {}
<1>1. DocumentsBook /\ ChecksBook /\ unchecked = {} /\ ungraded = {}
  BY DEF DocInv, Done, Whole, ChecksBook
<1>2. complete
  BY <1>1 DEF DocumentsBook, Whole
<1> QED
  BY <1>1, <1>2

\* A crash fails the request.
LEMMA CrashFails ==
  ASSUME DocInv, Done, Whole, crashed # {}
  PROVE  ~ Passed(findings)
<1>1. PICK x \in crashed : Crash(x) \in findings
  BY ClosedBooks DEF DocumentsBook
<1>2. CostsAPass(Crash(x))
  BY DEF CostsAPass, Crash, NotApplicable, Finding
<1> QED
  BY <1>1, <1>2 DEF Passed

\* A crash of a validator or of a check costs only what crashed, and fails the request.
THEOREM CrashesAreContained == Spec => []CrashStaysContained
<1>1. DocInv => CrashStaysContained
  <2> SUFFICES ASSUME DocInv, Done, Whole
               PROVE  /\ \A c \in Due : (c \in ran) # (Name(c) \in crashed)
                      /\ \A c \in ran : Says(c) \subseteq findings
                      /\ \A k \in Located \ crashed : Graded(Kind(k), k, Texts[k]) \subseteq findings
                      /\ crashed # {} => ~ Passed(findings)
    BY DEF CrashStaysContained
  <2>1. DocumentsBook /\ ChecksBook /\ complete /\ ungraded = {} /\ unchecked = {}
    BY ClosedBooks
  <2>2. \A c \in Due : Name(c) \in crashed <=> c \notin ran
    BY <2>1 DEF ChecksBook
  <2>3. \A c \in ran : Says(c) \subseteq findings
    BY <2>1 DEF ChecksBook
  <2>4. \A k \in Located \ crashed : Graded(Kind(k), k, Texts[k]) \subseteq findings
    BY <2>1 DEF DocumentsBook, Whole
  <2> QED
    BY <2>2, <2>3, <2>4, CrashFails
<1> QED
  BY <1>1, BooksHold, PTL

\* No check runs, or is even spent, before every root is there and every document parsed.
THEOREM ChecksWait == Spec => ChecksSeeTheWholeSet
<1>1. DocInv /\ [Next]_vars =>
        [ran' # ran \/ unchecked' \ unchecked # {} => Whole /\ ungraded = {}]_vars
  <2> SUFFICES ASSUME DocInv, Next, ran' # ran \/ unchecked' \ unchecked # {}
               PROVE  Whole /\ ungraded = {}
    BY DEF vars
  <2>1. DocumentsBook /\ ungraded = {} /\ complete
    <3>1. CASE DocumentsGraded
      BY <3>1 DEF DocumentsGraded, DocInv
    <3>2. CASE Check
      <4>1. DocumentsBook /\ ChecksBook /\ unchecked # {}
        BY <3>2 DEF Check, DocInv
      <4> QED
        BY <4>1 DEF ChecksBook
    <3>3. ~ DocumentsGraded /\ ~ Check => UNCHANGED ran /\ unchecked' \subseteq unchecked
      BY DEF Next, EmptyWorkspace, GradeRoots, Unreadable, Grade, GradeCrashes,
             CheckCrashes, Answer, Finished, vars
    <3> QED
      BY <3>1, <3>2, <3>3
  <2>2. Whole
    BY <2>1 DEF DocumentsBook, Whole
  <2> QED
    BY <2>1, <2>2
<1> QED
  BY <1>1, BooksHold, PTL DEF Spec, ChecksSeeTheWholeSet

-----------------------------------------------------------------------------
(* The parts of a workspace *)

\* What is written outside every package is the manifest of the pipelines.
LEMMA OutsideIsManifest ==
  ASSUME request.mode = "workspace", NEW k \in Located, k.dir = Outside
  PROVE  Kind(k) = "pipeline-manifest"
<1>1. KindAt(k) # NoKind /\ Kind(k) = KindAt(k)
  BY DEF Located, Kind
<1>2. Locations(k.dir.unit) = [manifest |-> "pipeline-manifest"]
  BY DEF Outside, Locations
<1>3. k.at[1] \in DOMAIN Locations(k.dir.unit) /\ KindAt(k) = Locations(k.dir.unit)[k.at[1]]
  BY <1>1 DEF KindAt
<1> QED
  BY <1>1, <1>2, <1>3

\* Findings that pass stay so in every part of them.
LEMMA PartsPass ==
  ASSUME NEW S, NEW T \in SUBSET S, Passed(S)
  PROVE  Passed(T)
BY DEF Passed

\* What a whole workspace without a crash says is what its parts say.
LEMMA WorkspaceSays ==
  ASSUME DocInv, Done, request.mode = "workspace", Whole, crashed = {}
  PROVE  /\ ran = Due
         /\ \A k \in Located : Graded(Kind(k), k, Texts[k]) \subseteq findings
         /\ \A c \in Due : Says(c) \subseteq findings
         /\ \A f \in findings : \/ \E k \in Located : f \in Graded(Kind(k), k, Texts[k])
                                \/ \E c \in Due : f \in Says(c)
<1>1. DocumentsBook /\ ChecksBook /\ complete /\ ungraded = {} /\ unchecked = {}
  BY ClosedBooks
<1>2. ran = Due
  BY <1>1 DEF ChecksBook
<1>3. \A c \in Due : Says(c) \subseteq findings
  BY <1>1, <1>2 DEF ChecksBook
<1>4. \A k \in Located : Graded(Kind(k), k, Texts[k]) \subseteq findings
  BY <1>1 DEF DocumentsBook, Whole
<1>5. ASSUME NEW f \in findings
      PROVE  \/ \E k \in Located : f \in Graded(Kind(k), k, Texts[k])
             \/ \E c \in Due : f \in Says(c)
  <2>1. Explained(f)
    BY <1>1 DEF DocumentsBook
  <2> QED
    BY <2>1, <1>1, <1>2 DEF Explained, Whole
<1> QED
  BY <1>2, <1>3, <1>4, <1>5

\* A whole workspace passes exactly when each of its packages would pass alone, its own
\* documents pass, and so do the checks across packages.
THEOREM PartsDecide == Spec => []WorkspaceIsItsParts
<1>1. DocInv => WorkspaceIsItsParts
  <2> SUFFICES ASSUME DocInv, Done, request.mode = "workspace", Whole, crashed = {}
               PROVE  Passed(findings) <=>
                        /\ \A d \in Packages : Passed(PackageSays(d))
                        /\ \A k \in Written("pipeline-manifest") : Passed(Graded(Kind(k), k, Texts[k]))
                        /\ \A c \in At(WorkspaceChecks, Outside) : Passed(Says(c))
    BY DEF WorkspaceIsItsParts
  <2>1. /\ \A k \in Located : Graded(Kind(k), k, Texts[k]) \subseteq findings
        /\ \A c \in Due : Says(c) \subseteq findings
        /\ \A f \in findings : \/ \E k \in Located : f \in Graded(Kind(k), k, Texts[k])
                               \/ \E c \in Due : f \in Says(c)
    BY WorkspaceSays
  <2>2. Due = (UNION {At(PackageChecks(d.unit), d) : d \in Packages}) \cup At(WorkspaceChecks, Outside)
    BY DEF Due
  <2>3. Rootless = {}
    BY DEF Whole
  <2>4. ASSUME NEW d \in Packages PROVE PackageSays(d) \subseteq findings
    <3>1. \A c \in At(PackageChecks(d.unit), d) : Says(c) \subseteq findings
      BY <2>1, <2>2
    <3> QED
      BY <3>1, <2>1, <2>3 DEF PackageSays
  <2>5. ASSUME Passed(findings)
        PROVE  /\ \A d \in Packages : Passed(PackageSays(d))
               /\ \A k \in Written("pipeline-manifest") : Passed(Graded(Kind(k), k, Texts[k]))
               /\ \A c \in At(WorkspaceChecks, Outside) : Passed(Says(c))
    <3>1. \A d \in Packages : Passed(PackageSays(d))
      BY <2>4, <2>5, PartsPass
    <3>2. \A k \in Written("pipeline-manifest") : Passed(Graded(Kind(k), k, Texts[k]))
      BY <2>1, <2>5, PartsPass DEF Written
    <3>3. \A c \in At(WorkspaceChecks, Outside) : Passed(Says(c))
      BY <2>1, <2>2, <2>5, PartsPass
    <3> QED
      BY <3>1, <3>2, <3>3
  <2>6. ASSUME \A d \in Packages : Passed(PackageSays(d)),
               \A k \in Written("pipeline-manifest") : Passed(Graded(Kind(k), k, Texts[k])),
               \A c \in At(WorkspaceChecks, Outside) : Passed(Says(c)),
               NEW f \in findings
        PROVE  ~ CostsAPass(f)
    <3>1. CASE \E k \in Located : f \in Graded(Kind(k), k, Texts[k])
      <4>1. PICK k \in Located : f \in Graded(Kind(k), k, Texts[k])
        BY <3>1
      <4>2. CASE k.dir = Outside
        <5>1. k \in Written("pipeline-manifest")
          BY <4>2, OutsideIsManifest DEF Written
        <5> QED
          BY <5>1, <4>1, <2>6 DEF Passed
      <4>3. CASE k.dir # Outside
        <5>1. k.dir \in Packages
          BY <4>3 DEF Packages, Located
        <5>2. f \in PackageSays(k.dir)
          BY <4>1 DEF PackageSays
        <5> QED
          BY <5>1, <5>2, <2>6 DEF Passed
      <4> QED
        BY <4>2, <4>3
    <3>2. CASE \E c \in Due : f \in Says(c)
      <4>1. PICK c \in Due : f \in Says(c)
        BY <3>2
      <4>2. CASE c \in At(WorkspaceChecks, Outside)
        BY <4>1, <4>2, <2>6 DEF Passed
      <4>3. CASE \E d \in Packages : c \in At(PackageChecks(d.unit), d)
        <5>1. PICK d \in Packages : c \in At(PackageChecks(d.unit), d)
          BY <4>3
        <5>2. f \in PackageSays(d)
          BY <4>1, <5>1 DEF PackageSays
        <5> QED
          BY <5>1, <5>2, <2>6 DEF Passed
      <4> QED
        BY <2>2, <4>1, <4>2, <4>3
    <3> QED
      BY <2>1, <2>6, <3>1, <3>2
  <2>7. Passed(findings) <=> \A f \in findings : ~ CostsAPass(f)
    BY DEF Passed
  <2> QED
    BY <2>5, <2>6, <2>7
<1> QED
  BY <1>1, BooksHold, PTL

-----------------------------------------------------------------------------
(* What it takes to pass *)

\* The kinds a package may hold.
LEMMA PackageKindsAre ==
  /\ PackageKinds("connector") = {"connector", "type-map", "api-endpoint"}
  /\ PackageKinds("connection") = {"connection", "type-map", "database-endpoint"}
  /\ PackageKinds("pipeline") = {"pipeline", "stream"}
<1>1. PackageKinds("connector") = {"connector", "type-map", "api-endpoint"}
  <2> DEFINE L == [root |-> "connector", map |-> "type-map", endpoint |-> "api-endpoint"]
  <2>1. Locations("connector") = L
    BY DEF Locations
  <2>2. SecretLocations("connector") = {}
    BY DEF SecretLocations
  <2>3. PackageKinds("connector") = {L[l] : l \in {"root", "map", "endpoint"}}
    BY <2>1, <2>2 DEF PackageKinds
  <2> QED
    BY <2>3
<1>2. PackageKinds("connection") = {"connection", "type-map", "database-endpoint"}
  <2> DEFINE L == [root |-> "connection", map |-> "type-map",
                   endpoint |-> "database-endpoint", secrets |-> "credentials"]
  <2>1. Locations("connection") = L
    BY DEF Locations
  <2>2. SecretLocations("connection") = {"secrets"}
    BY DEF SecretLocations
  <2>3. PackageKinds("connection") = {L[l] : l \in {"root", "map", "endpoint"}}
    BY <2>1, <2>2 DEF PackageKinds
  <2> QED
    BY <2>3
<1>3. PackageKinds("pipeline") = {"pipeline", "stream"}
  <2> DEFINE L == [root |-> "pipeline", stream |-> "stream"]
  <2>1. Locations("pipeline") = L
    BY DEF Locations
  <2>2. SecretLocations("pipeline") = {}
    BY DEF SecretLocations
  <2>3. PackageKinds("pipeline") = {L[l] : l \in {"root", "stream"}}
    BY <2>1, <2>2 DEF PackageKinds
  <2> QED
    BY <2>3
<1> QED
  BY <1>1, <1>2, <1>3

\* Each kind belongs to one unit, and a root's kind is its unit's name.
LEMMA KindsOfUnits ==
  ASSUME NEW k
  PROVE  /\ KindAt(k) \in {"pipeline", "stream"} => k.dir.unit = "pipeline"
         /\ KindAt(k) \in {"connection", "database-endpoint"} => k.dir.unit = "connection"
         /\ KindAt(k) \in {"connector", "api-endpoint"} => k.dir.unit = "connector"
<1> DEFINE unit == k.dir.unit
<1>1. KindAt(k) = "no kind" \/ \E l \in DOMAIN Locations(unit) : KindAt(k) = Locations(unit)[l]
  BY DEF KindAt, NoKind
<1>2. CASE unit = "connector"
  <2>1. \A l \in DOMAIN Locations(unit) :
          Locations(unit)[l] \in {"connector", "type-map", "api-endpoint"}
    BY <1>2 DEF Locations
  <2>2. KindAt(k) \in {"connector", "type-map", "api-endpoint", "no kind"}
    BY <1>1, <2>1
  <2> QED
    BY <1>2, <2>2
<1>3. CASE unit = "connection"
  <2>1. \A l \in DOMAIN Locations(unit) :
          Locations(unit)[l] \in {"connection", "type-map", "database-endpoint", "credentials"}
    BY <1>3 DEF Locations
  <2>2. KindAt(k) \in {"connection", "type-map", "database-endpoint", "credentials", "no kind"}
    BY <1>1, <2>1
  <2> QED
    BY <1>3, <2>2
<1>4. CASE unit = "pipeline"
  <2>1. \A l \in DOMAIN Locations(unit) : Locations(unit)[l] \in {"pipeline", "stream"}
    BY <1>4 DEF Locations
  <2>2. KindAt(k) \in {"pipeline", "stream", "no kind"}
    BY <1>1, <2>1
  <2> QED
    BY <1>4, <2>2
<1>5. CASE unit \notin {"connector", "connection", "pipeline"}
  <2>1. \A l \in DOMAIN Locations(unit) : Locations(unit)[l] = "pipeline-manifest"
    BY <1>5 DEF Locations
  <2>2. KindAt(k) \in {"pipeline-manifest", "no kind"}
    BY <1>1, <2>1
  <2> QED
    BY <2>2
<1> QED
  BY <1>2, <1>3, <1>4, <1>5

\* A root has the kind its unit is named after.
LEMMA RootKind ==
  ASSUME NEW dir, dir.unit \in {"connector", "connection", "pipeline"}
  PROVE  KindAt(Root(dir)) = dir.unit
<1>1. Root(dir).dir = dir /\ Root(dir).at[1] = "root"
  BY DEF Root
<1>2. "root" \in DOMAIN Locations(dir.unit) /\ Locations(dir.unit)["root"] = dir.unit
  <2>1. CASE dir.unit = "connector"
    BY <2>1 DEF Locations
  <2>2. CASE dir.unit = "connection"
    BY <2>2 DEF Locations
  <2>3. CASE dir.unit = "pipeline"
    BY <2>3 DEF Locations
  <2> QED
    BY <2>1, <2>2, <2>3
<1> QED
  BY <1>1, <1>2 DEF KindAt

\* The checks of a package that the proofs below call on.
LEMMA ChecksOfPackages ==
  /\ {"type_map_relation", "connector_endpoints", "api_endpoint_ids_unique"} \subseteq PackageChecks("connector")
  /\ "database_endpoint_ids_unique" \in PackageChecks("connection")
  /\ {"pipeline_id", "connection_version_conflicts", "stream_refs", "stream_parent_pipeline",
      "stream_connection_roles", "pipeline_active_gate"} \subseteq PackageChecks("pipeline")
BY PackageKindsAre DEF PackageChecks, Checks, Reads

\* The checks across packages that the proofs below call on.
LEMMA ChecksOfWorkspaces ==
  {"connections_present", "connection_connector_refs", "connection_scoped_endpoints",
   "connector_scoped_endpoints"} \subseteq WorkspaceChecks
<1>1. /\ Reads["connections_present"] = {"pipeline", "connection"}
      /\ Reads["connection_connector_refs"] = {"connection", "connector"}
      /\ Reads["connection_scoped_endpoints"] = {"stream", "database-endpoint"}
      /\ Reads["connector_scoped_endpoints"] = {"stream", "connection", "api-endpoint"}
      /\ {"connections_present", "connection_connector_refs", "connection_scoped_endpoints",
          "connector_scoped_endpoints"} \subseteq Checks
  BY DEF Reads, Checks
<1>2. \A u \in Units : /\ ~ {"pipeline", "connection"} \subseteq PackageKinds(u)
                       /\ ~ {"connection", "connector"} \subseteq PackageKinds(u)
                       /\ ~ {"stream", "database-endpoint"} \subseteq PackageKinds(u)
                       /\ ~ {"stream", "connection", "api-endpoint"} \subseteq PackageKinds(u)
  BY PackageKindsAre DEF Units
<1> QED
  BY <1>1, <1>2 DEF WorkspaceChecks

\* A workspace that ended without an error.
Passing == DocInv /\ Done /\ request.mode = "workspace" /\ Passed(findings)

\* A workspace passes only when it is whole, nothing crashed and no model refuses a document.
LEMMA PassingIsWhole ==
  ASSUME Passing
  PROVE  /\ Packages # {} /\ Whole /\ crashed = {}
         /\ \A k \in Located : Kind(k) = KindAt(k) /\ ~ Refused(Kind(k), Texts[k])
<1>1. DocInv /\ phase = "done" /\ request.mode = "workspace" /\ \A f \in findings : ~ CostsAPass(f)
  BY DEF Passing, Done, Passed
<1>2. \A about, id : CostsAPass(Fail(about, id))
  BY DEF CostsAPass, Fail, Finding
<1>3. DocumentsBook /\ ChecksBook
  <2>1. findings # {Fail(Root(Outside), "workspace-empty")}
    BY <1>1, <1>2
  <2> QED
    BY <1>1, <2>1 DEF DocInv
<1>4. Packages # {} /\ Rootless = {}
  BY <1>1, <1>2, <1>3 DEF DocumentsBook
<1>5. ungraded = {}
  BY <1>3 DEF ChecksBook
<1>6. \A k \in Located : ~ Unparseable(Texts[k])
  BY <1>1, <1>2, <1>3, <1>5 DEF DocumentsBook
<1>7. Whole
  BY <1>4, <1>6 DEF Whole
<1>8. crashed = {}
  BY <1>7, CrashFails DEF Passing
<1>9. ASSUME NEW k \in Located PROVE Kind(k) = KindAt(k) /\ ~ Refused(Kind(k), Texts[k])
  <2>1. Graded(Kind(k), k, Texts[k]) \subseteq findings
    BY <1>7, <1>8, WorkspaceSays DEF Passing
  <2>2. ~ Refused(Kind(k), Texts[k])
    BY <2>1, <1>1, <1>2 DEF Graded
  <2> QED
    BY <2>2, <1>1 DEF Kind
<1> QED
  BY <1>4, <1>7, <1>8, <1>9

\* Where a workspace passes, no check that is due raises or has a failure to report.
LEMMA PassingIsSilent ==
  ASSUME Passing, NEW c \in Due
  PROVE  /\ \A about, id : Fail(about, id) \notin Says(c)
         /\ ~ Raises(c.check, IF c.dir = Outside THEN Parsed ELSE InPackage(Parsed, c.dir))
<1>1. /\ DocInv /\ Done /\ request.mode = "workspace" /\ Whole /\ crashed = {}
      /\ \A f \in findings : ~ CostsAPass(f)
  BY PassingIsWhole DEF Passing, Passed
<1>2. ran = Due /\ Says(c) \subseteq findings
  BY <1>1, WorkspaceSays
<1>3. ~ Raises(c.check, IF c.dir = Outside THEN Parsed ELSE InPackage(Parsed, c.dir))
  BY <1>1, <1>2, ClosedBooks DEF ChecksBook
<1>4. \A about, id : CostsAPass(Fail(about, id))
  BY DEF CostsAPass, Fail, Finding
<1> QED
  BY <1>1, <1>2, <1>3, <1>4

\* What the package checks of a directory that holds a document say, and what they are run on.
LEMMA PackageSilent ==
  ASSUME Passing, NEW k \in Located, k.dir.unit \in Units, NEW c \in PackageChecks(k.dir.unit)
  PROVE  /\ \A about, id : Fail(about, id) \notin RunCheck(c, InPackage(Parsed, k.dir))
         /\ ~ Raises(c, InPackage(Parsed, k.dir))
<1>1. PICK check : check = [check |-> c, dir |-> k.dir]
  OBVIOUS
<1>2. k.dir # Outside
  BY DEF Outside, Units
<1>3. k.dir \in Packages
  BY <1>2 DEF Packages, Located, Passing
<1>4. check \in Due
  BY <1>1, <1>3 DEF Due, At
<1>5. Says(check) = RunCheck(c, InPackage(Parsed, k.dir))
  BY <1>1, <1>2 DEF Says
<1> QED
  BY <1>1, <1>2, <1>4, <1>5, PassingIsSilent

\* What the checks across packages say.
LEMMA WorkspaceSilent ==
  ASSUME Passing, NEW c \in WorkspaceChecks
  PROVE  \A about, id : Fail(about, id) \notin RunCheck(c, Parsed)
<1>1. PICK check : check = [check |-> c, dir |-> Outside]
  OBVIOUS
<1>2. check \in Due
  BY <1>1 DEF Due, At, Passing
<1>3. Says(check) = RunCheck(c, Parsed)
  BY <1>1 DEF Says
<1> QED
  BY <1>2, <1>3, PassingIsSilent

\* The documents of a kind are what was written under it.
LEMMA ParsedIs ==
  ASSUME Whole, NEW kind \in {"connector", "connection", "pipeline", "stream", "type-map",
                              "api-endpoint", "database-endpoint"}
  PROVE  /\ kind \in Kinds
         /\ Parsed[kind] = {Document(k) : k \in Written(kind)}
         /\ \A dir : InPackage(Parsed, dir)[kind] = {Document(k) : k \in {k \in Written(kind) : k.dir = dir}}
<1>1. kind \in Kinds
  BY PackageKindsAre DEF Kinds, Units
<1>2. Parsed[kind] = {Document(k) : k \in Written(kind)}
  <2>1. {k \in Written(kind) : ~ Unparseable(Texts[k])} = Written(kind)
    BY DEF Whole, Written
  <2> QED
    BY <1>1, <2>1 DEF Parsed, Document
<1>3. \A k : Document(k).key = k
  BY DEF Document
<1>4. ASSUME NEW dir
      PROVE  InPackage(Parsed, dir)[kind] = {Document(k) : k \in {k \in Written(kind) : k.dir = dir}}
  <2>1. InPackage(Parsed, dir)[kind] = {d \in Parsed[kind] : d.key.dir = dir}
    BY <1>1 DEF InPackage
  <2> QED
    BY <1>2, <1>3, <2>1
<1> QED
  BY <1>1, <1>2, <1>4

\* What a check reads of a document is what its text says.
LEMMA DocumentReads ==
  ASSUME NEW k
  PROVE  /\ Document(k).key = k /\ Document(k).body = Texts[k].body
         /\ IsObject(Document(k)) <=> IsObject(Texts[k])
         /\ Content(Document(k)) = BodyOf(k)
         /\ IsObject(Texts[k]) => BodyOf(k) = Texts[k].body
BY DEF Document, IsObject, Content, BodyOf

\* A document of a workspace that passes: an object that its model accepts, and that the
\* checks over the workspace and over its own package read.
LEMMA WellFormed ==
  ASSUME Passing, NEW kind \in {"connector", "connection", "pipeline", "stream", "type-map",
                                "api-endpoint", "database-endpoint"},
         NEW k \in Written(kind)
  PROVE  /\ k \in Located /\ KindAt(k) = kind
         /\ ~ Refused(kind, Texts[k])
         /\ IsObject(Texts[k]) /\ IsObject(Document(k))
         /\ BodyOf(k) = Texts[k].body
         /\ Content(Document(k)) = BodyOf(k) /\ Document(k).body = BodyOf(k)
         /\ Document(k).key = k
         /\ Document(k) \in Parsed[kind]
         /\ Document(k) \in InPackage(Parsed, k.dir)[kind]
<1>1. k \in Located /\ Kind(k) = kind
  BY DEF Written
<1>2. KindAt(k) = kind /\ ~ Refused(kind, Texts[k])
  BY <1>1, PassingIsWhole
<1>3. IsObject(Texts[k])
  BY <1>2 DEF Refused
<1>4. Document(k) \in Parsed[kind] /\ Document(k) \in InPackage(Parsed, k.dir)[kind]
  BY PassingIsWhole, ParsedIs
<1> QED
  BY <1>1, <1>2, <1>3, <1>4, DocumentReads

\* A set with one member, and every other equal to it, has one.
LEMMA OneIs ==
  ASSUME NEW S, NEW x \in S, \A y \in S : y = x
  PROVE  One(S)
<1>1. S = {x}
  OBVIOUS
<1> QED
  BY <1>1, FS_Singleton DEF One

\* Every stream a pipeline lists is one document of its package.
LEMMA StreamsResolve ==
  ASSUME Passing, NEW p \in Written("pipeline")
  PROVE  \A r \in Members(BodyOf(p).streams) :
           One({s \in StreamsOf(p) : Base(BodyOf(s).id) = Base(r)})
<1> DEFINE D == InPackage(Parsed, p.dir)
           named == {d \in D["stream"] : Content(d).id # NoId}
           First(x) == CHOOSE e \in named : Base(e.body.id) = x
           b == BodyOf(p)
<1>1. /\ p \in Located /\ KindAt(p) = "pipeline" /\ ~ Refused("pipeline", Texts[p])
      /\ IsObject(Texts[p]) /\ b = Texts[p].body /\ Content(Document(p)) = b
      /\ Document(p) \in D["pipeline"]
  BY WellFormed
<1>2. b.listed /\ NoId \notin Members(b.streams)
  BY <1>1 DEF Refused, PipelineRefused
<1>3. \A about, id : Fail(about, id) \notin _check_stream_refs(D)
  <2>1. p.dir.unit = "pipeline"
    BY <1>1, KindsOfUnits
  <2>2. "stream_refs" \in PackageChecks(p.dir.unit)
    BY <2>1, ChecksOfPackages
  <2>3. RunCheck("stream_refs", D) = _check_stream_refs(D)
    BY DEF RunCheck
  <2> QED
    BY <1>1, <2>1, <2>2, <2>3, PackageSilent DEF Units
<1>4. \A d \in named : d = First(Base(d.body.id))
  BY <1>3 DEF _check_stream_refs, FailEach, Repeated
<1>5. \A d, e \in named : Base(d.body.id) = Base(e.body.id) => d = e
  <2> HIDE DEF named, First
  <2> QED
    BY <1>4
<1>6. \A r \in Members(b.streams) : \E d \in named : Base(d.body.id) = Base(r)
  <2>1. \A r \in StreamRefs(b) : Base(r) \in {Base(d.body.id) : d \in named}
    BY <1>1, <1>2, <1>3 DEF _check_stream_refs, FailEach
  <2>2. StreamRefs(b) = Members(b.streams)
    BY <1>2 DEF StreamRefs, Named
  <2> QED
    BY <2>1, <2>2
<1>7. \A d \in named : \E s \in StreamsOf(p) : d = Document(s) /\ d.body = BodyOf(s)
  <2> TAKE d \in named
  <2>1. PICK s \in Written("stream") : s.dir = p.dir /\ d = Document(s)
    BY PassingIsWhole, ParsedIs
  <2> QED
    BY <2>1, WellFormed DEF StreamsOf
<1>8. \A s \in StreamsOf(p) : /\ Document(s) \in D["stream"] /\ Document(s).body = BodyOf(s)
                              /\ Content(Document(s)) = BodyOf(s) /\ Document(s).key = s
  BY WellFormed DEF StreamsOf
<1>9. ASSUME NEW r \in Members(b.streams)
      PROVE  One({s \in StreamsOf(p) : Base(BodyOf(s).id) = Base(r)})
  <2>1. PICK d \in named : Base(d.body.id) = Base(r)
    BY <1>6
  <2>2. PICK s \in StreamsOf(p) : d = Document(s) /\ d.body = BodyOf(s)
    BY <1>7
  <2>3. \A x \in D["stream"] : x \in named
    <3>1. FailEach(D["stream"] \ named, "bundled-stream-missing-id") \subseteq _check_stream_refs(D)
      BY DEF _check_stream_refs
    <3> HIDE DEF named, D
    <3> QED
      BY <1>3, <3>1 DEF FailEach
  <2>4. ASSUME NEW y \in StreamsOf(p), Base(BodyOf(y).id) = Base(r) PROVE y = s
    <3>1. Document(y) \in named
      BY <1>8, <2>3
    <3>2. Document(y) = d
      BY <3>1, <1>5, <1>8, <2>1, <2>4
    <3> QED
      BY <3>2, <2>2, <1>8
  <2> QED
    BY <2>1, <2>2, <2>4, OneIs
<1> QED
  BY <1>9

\* A check that has no failure to report finds nothing to report it of.
LEMMA NothingFails ==
  ASSUME NEW says, \A about, id : Fail(about, id) \notin says,
         NEW docs, NEW id, FailEach(docs, id) \subseteq says
  PROVE  docs = {}
BY DEF FailEach

\* What a check across packages reports nothing of.
LEMMA ConnectionsSilent ==
  ASSUME Passing
  PROVE  /\ \A about, id : Fail(about, id) \notin _check_connections_present(Parsed)
         /\ \A about, id : Fail(about, id) \notin _check_connection_connector_refs(Parsed)
         /\ \A about, id : Fail(about, id) \notin _check_connection_scoped_endpoints(Parsed)
         /\ RunCheck("connector_scoped_endpoints", Parsed) = _check_connector_scoped_endpoints(Parsed)
<1>1. /\ RunCheck("connections_present", Parsed) = _check_connections_present(Parsed)
      /\ RunCheck("connection_connector_refs", Parsed) = _check_connection_connector_refs(Parsed)
      /\ RunCheck("connection_scoped_endpoints", Parsed) = _check_connection_scoped_endpoints(Parsed)
      /\ RunCheck("connector_scoped_endpoints", Parsed) = _check_connector_scoped_endpoints(Parsed)
  BY DEF RunCheck
<1> QED
  BY <1>1, ChecksOfWorkspaces, WorkspaceSilent

\* What the checks of a pipeline's package report nothing of.
LEMMA PipelineSilent ==
  ASSUME Passing, NEW p \in Written("pipeline"), NEW D, D = InPackage(Parsed, p.dir)
  PROVE  /\ \A about, id : Fail(about, id) \notin _check_pipeline_id(D)
         /\ \A about, id : Fail(about, id) \notin _check_connection_version_conflicts(D)
         /\ \A about, id : Fail(about, id) \notin _check_stream_parent_pipeline(D)
         /\ \A about, id : Fail(about, id) \notin _check_stream_connection_roles(D)
         /\ \A about, id : Fail(about, id) \notin _check_pipeline_active_gate(D)
<1>1. /\ RunCheck("pipeline_id", D) = _check_pipeline_id(D)
      /\ RunCheck("connection_version_conflicts", D) = _check_connection_version_conflicts(D)
      /\ RunCheck("stream_parent_pipeline", D) = _check_stream_parent_pipeline(D)
      /\ RunCheck("stream_connection_roles", D) = _check_stream_connection_roles(D)
      /\ RunCheck("pipeline_active_gate", D) = _check_pipeline_active_gate(D)
  BY DEF RunCheck
<1>2. p \in Located /\ p.dir.unit = "pipeline"
  BY WellFormed, KindsOfUnits
<1> QED
  BY <1>1, <1>2, ChecksOfPackages, PackageSilent DEF Units

\* The connections of a workspace are told apart by the base of their directory's name.
LEMMA ConnectionsApart ==
  ASSUME Passing, NEW c \in Written("connection"), NEW d \in Written("connection"),
         Base(c.dir.id) = Base(d.dir.id)
  PROVE  c = d
<1> DEFINE docs == Parsed["connection"]
           First(x) == CHOOSE e \in docs : Base(PackageId(e)) = x
<1>1. Repeated(docs, LAMBDA e : Base(PackageId(e))) = {e \in docs : e # First(Base(PackageId(e)))}
  BY DEF Repeated
<1>2. {e \in docs : e # First(Base(PackageId(e)))} = {}
  <2>1. FailEach({e \in docs : e # First(Base(PackageId(e)))}, "duplicate-bundled-connection")
          \subseteq _check_connections_present(Parsed)
    BY <1>1 DEF _check_connections_present
  <2> HIDE DEF docs, First
  <2> QED
    BY <2>1, ConnectionsSilent, NothingFails
<1>3. \A x, y \in docs : Base(PackageId(x)) = Base(PackageId(y)) => x = y
  <2> HIDE DEF docs, First
  <2> QED
    BY <1>2
<1>4. /\ Document(c) \in docs /\ PackageId(Document(c)) = c.dir.id /\ Document(c).key = c
      /\ Document(d) \in docs /\ PackageId(Document(d)) = d.dir.id /\ Document(d).key = d
  BY WellFormed DEF PackageId
<1>5. Document(c) = Document(d)
  BY <1>3, <1>4
<1> QED
  BY <1>4, <1>5

\* The connections a pipeline names, all of them named.
PipelineRefs(p) == {BodyOf(p).source} \cup BodyOf(p).destinations

\* Every connection a pipeline names is one document of the workspace.
LEMMA ConnectionsResolve ==
  ASSUME Passing, NEW p \in Written("pipeline")
  PROVE  /\ PipelineConnections(BodyOf(p)) = PipelineRefs(p)
         /\ NoId \notin PipelineRefs(p)
         /\ \A r \in PipelineRefs(p) : One(ConnectionsNamed(r))
<1>1. /\ ~ Refused("pipeline", Texts[p]) /\ BodyOf(p) = Texts[p].body
      /\ Content(Document(p)) = BodyOf(p) /\ Document(p) \in Parsed["pipeline"]
  BY WellFormed
<1>2. BodyOf(p).source # NoId /\ NoId \notin BodyOf(p).destinations
  BY <1>1 DEF Refused, PipelineRefused
<1>3. PipelineConnections(BodyOf(p)) = PipelineRefs(p) /\ NoId \notin PipelineRefs(p)
  BY <1>2 DEF PipelineConnections, PipelineRefs, Named
<1>4. ASSUME NEW r \in PipelineRefs(p) PROVE One(ConnectionsNamed(r))
  <2> DEFINE present == {Base(PackageId(d)) : d \in Parsed["connection"]}
             bad == {d \in Parsed["pipeline"] : \E q \in PipelineConnections(Content(d)) : Base(q) \notin present}
  <2>1. FailEach(bad, "connection-ref-unresolved") \subseteq _check_connections_present(Parsed)
    BY DEF _check_connections_present
  <2>2. bad = {}
    <3> HIDE DEF bad
    <3> QED
      BY <2>1, ConnectionsSilent, NothingFails
  <2>3. Base(r) \in present
    <3> HIDE DEF present
    <3> QED
      BY <1>1, <1>3, <2>2
  <2>4. PICK c \in Written("connection") : Base(c.dir.id) = Base(r)
    <3>1. PICK d \in Parsed["connection"] : Base(PackageId(d)) = Base(r)
      BY <2>3
    <3>2. PICK c \in Written("connection") : d = Document(c)
      BY PassingIsWhole, ParsedIs
    <3> QED
      BY <3>1, <3>2, WellFormed DEF PackageId
  <2>5. \A y \in ConnectionsNamed(r) : y = c
    BY <2>4, ConnectionsApart DEF ConnectionsNamed
  <2> QED
    BY <2>4, <2>5, OneIs DEF ConnectionsNamed
<1> QED
  BY <1>3, <1>4

\* A pipeline and its streams know one another.
LEMMA PipelineOwns ==
  ASSUME Passing, NEW p \in Written("pipeline")
  PROVE  /\ BodyOf(p).id # NoId
         /\ \A r, q \in PipelineRefs(p) : Base(r) = Base(q) => r = q
         /\ \A s \in StreamsOf(p) : Base(BodyOf(s).parent) = Base(BodyOf(p).id)
<1>1. PICK D : D = InPackage(Parsed, p.dir)
  OBVIOUS
<1>2. Content(Document(p)) = BodyOf(p) /\ Document(p) \in D["pipeline"]
  BY <1>1, WellFormed
<1>3. BodyOf(p).id # NoId
  <2> DEFINE bad == {d \in D["pipeline"] : Content(d).id = NoId}
  <2>1. FailEach(bad, "pipeline-missing-pipeline-id") \subseteq _check_pipeline_id(D)
    BY DEF _check_pipeline_id
  <2>2. bad = {}
    <3> HIDE DEF bad
    <3> QED
      BY <1>1, <2>1, PipelineSilent, NothingFails
  <2> QED
    BY <1>2, <2>2
<1>4. \A r, q \in PipelineRefs(p) : Base(r) = Base(q) => r = q
  <2> DEFINE bad == {d \in D["pipeline"] :
                       \E r, s \in PipelineConnections(Content(d)) : r # s /\ Base(r) = Base(s)}
  <2>1. FailEach(bad, "connection-version-conflict") \subseteq _check_connection_version_conflicts(D)
    BY DEF _check_connection_version_conflicts
  <2>2. bad = {}
    <3> HIDE DEF bad
    <3> QED
      BY <1>1, <2>1, PipelineSilent, NothingFails
  <2> QED
    BY <1>2, <2>2, ConnectionsResolve
<1>5. ASSUME NEW s \in StreamsOf(p) PROVE Base(BodyOf(s).parent) = Base(BodyOf(p).id)
  <2> DEFINE parents == {Base(i) : i \in Named({Content(x).id : x \in D["pipeline"]})}
           bad == {d \in D["stream"] : /\ Content(d).parent # NoId
                                       /\ \E x \in parents : Base(d.body.parent) # x}
  <2>1. FailEach(bad, "stream-wrong-parent-pipeline") \subseteq _check_stream_parent_pipeline(D)
    BY DEF _check_stream_parent_pipeline
  <2>2. bad = {}
    <3> HIDE DEF bad
    <3> QED
      BY <1>1, <2>1, PipelineSilent, NothingFails
  <2>3. Base(BodyOf(p).id) \in parents
    BY <1>2, <1>3 DEF Named
  <2>4. /\ ~ Refused("stream", Texts[s]) /\ BodyOf(s) = Texts[s].body
        /\ Content(Document(s)) = BodyOf(s) /\ Document(s).body = BodyOf(s)
        /\ Document(s) \in D["stream"]
    BY <1>1, WellFormed DEF StreamsOf
  <2>5. BodyOf(s).parent # NoId
    BY <2>4 DEF Refused, StreamRefused
  <2> HIDE DEF parents
  <2> QED
    BY <2>2, <2>3, <2>4, <2>5
<1> QED
  BY <1>3, <1>4, <1>5

\* Connection endpoints: what is below one connection is told apart by its identity.
LEMMA DatabaseEndpointsApart ==
  ASSUME Passing, NEW e \in Written("database-endpoint"), NEW f \in Written("database-endpoint"),
         Base(e.dir.id) = Base(f.dir.id), BodyOf(e).id = BodyOf(f).id
  PROVE  e = f
<1> DEFINE D == InPackage(Parsed, e.dir)
           named == {x \in D["database-endpoint"] : Content(x).id # NoId}
           Identity(x) == <<x.key.dir, x.body.id>>
           First(x) == CHOOSE y \in named : Identity(y) = x
           bad == {x \in named : x # First(Identity(x))}
<1>1. /\ e \in Located /\ f \in Located
      /\ KindAt(e) = "database-endpoint" /\ KindAt(f) = "database-endpoint"
      /\ ~ Refused("database-endpoint", Texts[e]) /\ BodyOf(e) = Texts[e].body
      /\ Content(Document(e)) = BodyOf(e) /\ Document(e).body = BodyOf(e) /\ Document(e).key = e
      /\ Content(Document(f)) = BodyOf(f) /\ Document(f).body = BodyOf(f) /\ Document(f).key = f
      /\ Document(e) \in InPackage(Parsed, e.dir)["database-endpoint"]
      /\ Document(f) \in InPackage(Parsed, f.dir)["database-endpoint"]
  BY WellFormed
<1>2. e.dir.unit = "connection" /\ f.dir.unit = "connection"
  BY <1>1, KindsOfUnits
<1>3. e.dir = f.dir
  <2>1. ASSUME NEW k \in Located, k.dir.unit = "connection"
        PROVE  Root(k.dir) \in Written("connection") /\ Root(k.dir).dir = k.dir
    <3>1. k.dir \in Packages
      BY <2>1 DEF Packages, Located, Outside, Passing
    <3>2. Root(k.dir) \in DOMAIN Texts
      BY <3>1, PassingIsWhole DEF Whole, Rootless
    <3>3. KindAt(Root(k.dir)) = "connection"
      BY <2>1, RootKind
    <3>4. Kind(Root(k.dir)) = "connection"
      BY <3>3 DEF Kind, Passing
    <3> QED
      BY <3>2, <3>4 DEF Written, Located, NoKind, Root
  <2>2. /\ Root(e.dir) \in Written("connection") /\ Root(e.dir).dir = e.dir
        /\ Root(f.dir) \in Written("connection") /\ Root(f.dir).dir = f.dir
    BY <1>1, <1>2, <2>1
  <2>3. Root(e.dir) = Root(f.dir)
    BY <2>2, ConnectionsApart
  <2> QED
    BY <2>2, <2>3
<1>4. BodyOf(e).id # NoId
  BY <1>1 DEF Refused
<1>5. bad = {}
  <2>1. RunCheck("database_endpoint_ids_unique", D) = _check_endpoint_ids_unique(D["database-endpoint"])
    BY DEF RunCheck
  <2>2. \A about, id : Fail(about, id) \notin _check_endpoint_ids_unique(D["database-endpoint"])
    BY <1>1, <1>2, <2>1, ChecksOfPackages, PackageSilent DEF Units
  <2>3. Repeated(named, LAMBDA x : <<x.key.dir, x.body.id>>) = bad
    BY DEF Repeated
  <2>4. FailEach(bad, "duplicate-endpoint-id") \subseteq _check_endpoint_ids_unique(D["database-endpoint"])
    BY <2>3 DEF _check_endpoint_ids_unique
  <2> HIDE DEF bad, D
  <2> QED
    BY <2>2, <2>4, NothingFails
<1>6. \A x, y \in named : Identity(x) = Identity(y) => x = y
  <2> HIDE DEF named, First, Identity
  <2> QED
    BY <1>5
<1>7. Document(e) \in named /\ Document(f) \in named
  BY <1>1, <1>3, <1>4
<1>8. Document(e) = Document(f)
  <2>1. Identity(Document(e)) = Identity(Document(f))
    BY <1>1, <1>3
  <2> HIDE DEF named, Identity
  <2> QED
    BY <1>6, <1>7, <2>1
<1> QED
  BY <1>1, <1>8

\* Every slot of a stream is there and names its connection and its endpoint.
LEMMA SlotsNamed ==
  ASSUME Passing, NEW s \in Written("stream"), NEW slot \in Slots(BodyOf(s))
  PROVE  /\ slot.there /\ ~ RefRefused(slot)
         /\ slot.connection # NoId /\ slot.endpoint # NoId
<1>1. ~ StreamRefused(BodyOf(s))
  BY WellFormed DEF Refused
<1> QED
  BY <1>1 DEF StreamRefused, RefRefused

\* Every slot below a connection finds one endpoint.
LEMMA DatabaseEndpointsResolve ==
  ASSUME Passing, NEW s \in Written("stream"), NEW slot \in Slots(BodyOf(s)),
         slot.scope = "connection"
  PROVE  One(DatabaseEndpoints(slot))
<1> DEFINE present == {<<Base(PackageId(e)), Content(e).id>> : e \in Parsed["database-endpoint"]}
           bad == {d \in Parsed["stream"] : \E x \in Slots(Content(d)) :
                     /\ x.there /\ x.scope = "connection" /\ ~ RefRefused(x)
                     /\ <<Base(x.connection), x.endpoint>> \notin present}
<1>1. bad = {}
  <2>1. FailEach(bad, "endpoint-ref-unresolved") \subseteq _check_connection_scoped_endpoints(Parsed)
    BY DEF _check_connection_scoped_endpoints
  <2> HIDE DEF bad
  <2> QED
    BY <2>1, ConnectionsSilent, NothingFails
<1>2. Document(s) \in Parsed["stream"] /\ Content(Document(s)) = BodyOf(s)
  BY WellFormed
<1>3. <<Base(slot.connection), slot.endpoint>> \in present
  <2> HIDE DEF present
  <2> QED
    BY <1>1, <1>2, SlotsNamed
<1>4. PICK e \in Written("database-endpoint") :
        Base(e.dir.id) = Base(slot.connection) /\ BodyOf(e).id = slot.endpoint
  <2>1. PICK d \in Parsed["database-endpoint"] :
          <<Base(slot.connection), slot.endpoint>> = <<Base(PackageId(d)), Content(d).id>>
    BY <1>3
  <2>2. PICK e \in Written("database-endpoint") : d = Document(e)
    BY PassingIsWhole, ParsedIs
  <2>3. Base(PackageId(d)) = Base(slot.connection) /\ Content(d).id = slot.endpoint
    BY <2>1
  <2> QED
    BY <2>2, <2>3, WellFormed DEF PackageId
<1>5. \A f \in DatabaseEndpoints(slot) : f = e
  BY <1>4, DatabaseEndpointsApart DEF DatabaseEndpoints
<1> QED
  BY <1>4, <1>5, OneIs DEF DatabaseEndpoints

\* The streams of a pipeline read and write through its connections.
LEMMA StreamsWired ==
  ASSUME Passing, NEW p \in Written("pipeline"), NEW s \in StreamsOf(p)
  PROVE  Wired(s, p)
<1> DEFINE D == InPackage(Parsed, p.dir)
           bad == {d \in D["stream"] : \E b \in {Content(x) : x \in D["pipeline"]} :
                     \/ WrongSource(Content(d).reads, b)
                     \/ \E w \in Members(Content(d).writes) : WrongDestination(w, b)}
<1>1. bad = {}
  <2>1. FailEach(bad, "stream-wrong-connection") \subseteq _check_stream_connection_roles(D)
    BY DEF _check_stream_connection_roles
  <2> HIDE DEF bad, D
  <2>2. PICK E : E = InPackage(Parsed, p.dir)
    OBVIOUS
  <2> QED
    BY <2>1, <2>2, PipelineSilent, NothingFails DEF D
<1>2. /\ Content(Document(p)) = BodyOf(p) /\ Document(p) \in D["pipeline"]
      /\ s \in Written("stream") /\ Content(Document(s)) = BodyOf(s) /\ Document(s) \in D["stream"]
  BY WellFormed DEF StreamsOf
<1>3. /\ ~ WrongSource(BodyOf(s).reads, BodyOf(p))
      /\ \A w \in Members(BodyOf(s).writes) : ~ WrongDestination(w, BodyOf(p))
  BY <1>1, <1>2
<1>4. \A slot \in Slots(BodyOf(s)) : slot.there
  BY <1>2, SlotsNamed
<1>5. Base(BodyOf(s).reads.connection) = Base(BodyOf(p).source)
  BY <1>3, <1>4 DEF WrongSource, Slots
<1>6. ASSUME NEW w \in Members(BodyOf(s).writes)
      PROVE  \E r \in BodyOf(p).destinations : Base(w.connection) = Base(r)
  <2>1. Base(w.connection) \in {Base(r) : r \in Named(BodyOf(p).destinations)}
    BY <1>3, <1>4 DEF WrongDestination, Slots
  <2> QED
    BY <2>1 DEF Named
<1>7. \A slot \in Slots(BodyOf(s)) : slot.scope = "connection" => One(DatabaseEndpoints(slot))
  BY <1>2, DatabaseEndpointsResolve
<1> QED
  BY <1>5, <1>6, <1>7 DEF Wired

\* A pipeline that is active has a stream of its list to run.
LEMMA ActiveRuns ==
  ASSUME Passing, NEW p \in Written("pipeline"), BodyOf(p).status = "active"
  PROVE  \E s \in StreamsOf(p) : /\ BodyOf(s).status = "active"
                                 /\ \E r \in Members(BodyOf(p).streams) : Base(BodyOf(s).id) = Base(r)
<1> DEFINE D == InPackage(Parsed, p.dir)
           runs(b) == \E s \in D["stream"] :
                        /\ Content(s).status = "active" /\ Content(s).id # NoId
                        /\ Base(Content(s).id) \in {Base(r) : r \in StreamRefs(b)}
           bad == {d \in D["pipeline"] : Content(d).status = "active" /\ ~ runs(d.body)}
<1>1. bad = {}
  <2>1. FailEach(bad, "active-pipeline-no-runnable-stream") \subseteq _check_pipeline_active_gate(D)
    BY DEF _check_pipeline_active_gate
  <2> HIDE DEF bad, D
  <2> QED
    BY <2>1, PipelineSilent, NothingFails DEF D
<1>2. /\ Content(Document(p)) = BodyOf(p) /\ Document(p).body = BodyOf(p)
      /\ Document(p) \in D["pipeline"]
  BY WellFormed
<1>3. runs(BodyOf(p))
  <2> HIDE DEF runs, D
  <2> QED
    BY <1>1, <1>2
<1>4. PICK d \in D["stream"] : /\ Content(d).status = "active"
                               /\ Base(Content(d).id) \in {Base(r) : r \in StreamRefs(BodyOf(p))}
  BY <1>3
<1>5. PICK s \in Written("stream") : s.dir = p.dir /\ d = Document(s)
  BY PassingIsWhole, ParsedIs
<1>6. StreamRefs(BodyOf(p)) \subseteq Members(BodyOf(p).streams)
  BY DEF StreamRefs, Named
<1> QED
  BY <1>4, <1>5, <1>6, WellFormed DEF StreamsOf

\* Connectors: the package of a connector holds exactly one, so its directory tells it.
LEMMA ConnectorsApart ==
  ASSUME Passing, NEW c \in Written("connector"), NEW d \in Written("connector"), c.dir = d.dir
  PROVE  c = d
<1> DEFINE D == InPackage(Parsed, c.dir)
           keys == {k \in Written("connector") : k.dir = c.dir}
<1>1. /\ c \in Located /\ KindAt(c) = "connector" /\ Document(c).key = c /\ Document(d).key = d
  BY WellFormed
<1>2. OneConnector(D)
  <2>1. c.dir.unit = "connector"
    BY <1>1, KindsOfUnits
  <2>2. ~ Raises("type_map_relation", D)
    BY <1>1, <2>1, ChecksOfPackages, PackageSilent DEF Units
  <2> QED
    BY <2>2 DEF Raises
<1>3. D["connector"] = {Document(k) : k \in keys}
  BY PassingIsWhole, ParsedIs
<1>4. IsFiniteSet(D["connector"])
  <2>1. keys \in SUBSET DOMAIN Texts /\ IsFiniteSet(DOMAIN Texts)
    BY TextsAssumption DEF Passing, DocInv, Texts, Written, Located
  <2>2. IsFiniteSet(keys)
    BY <2>1, FS_Subset
  <2>3. [k \in keys |-> Document(k)] \in Surjection(keys, D["connector"])
    BY <1>3 DEF Surjection
  <2> HIDE DEF keys, D
  <2> QED
    BY <2>2, <2>3, FS_Surjection
<1>5. PICK x : D["connector"] = {x}
  BY <1>2, <1>4, FS_Singleton DEF OneConnector
<1>6. Document(c) = x /\ Document(d) = x
  BY <1>3, <1>5
<1> QED
  BY <1>1, <1>6

\* A directory is its unit and its name.
LEMMA DirectoriesApart ==
  ASSUME Passing, NEW k \in Located, NEW l \in Located,
         k.dir.unit = l.dir.unit, k.dir.id = l.dir.id
  PROVE  k.dir = l.dir
<1>1. /\ k.dir = [unit |-> k.dir.unit, id |-> k.dir.id]
      /\ l.dir = [unit |-> l.dir.unit, id |-> l.dir.id]
  BY TextsAssumption DEF Passing, DocInv, Texts, Located
<1> QED
  BY <1>1

\* Every connection finds its connector, which is one document.
LEMMA ConnectorsResolve ==
  ASSUME Passing, NEW c \in Written("connection")
  PROVE  /\ BodyOf(c).connector # NoId
         /\ One({r \in Written("connector") : r.dir.id = BodyOf(c).connector})
<1> DEFINE present == {PackageId(d) : d \in Parsed["connector"]}
           read    == {d \in Parsed["connection"] : IsObject(d)}
           bad     == {d \in read : d.body.connector # NoId /\ d.body.connector \notin present}
<1>1. /\ ~ Refused("connection", Texts[c]) /\ BodyOf(c) = Texts[c].body
      /\ Document(c) \in read /\ Document(c).body = BodyOf(c)
  BY WellFormed
<1>2. BodyOf(c).connector # NoId
  BY <1>1 DEF Refused
<1>3. bad = {}
  <2>1. FailEach(bad, "connector-ref-unresolved") \subseteq _check_connection_connector_refs(Parsed)
    BY DEF _check_connection_connector_refs
  <2> HIDE DEF bad
  <2> QED
    BY <2>1, ConnectionsSilent, NothingFails
<1>4. BodyOf(c).connector \in present
  <2> HIDE DEF present, read
  <2> QED
    BY <1>1, <1>2, <1>3
<1>5. PICK r \in Written("connector") : r.dir.id = BodyOf(c).connector
  <2>1. PICK d \in Parsed["connector"] : PackageId(d) = BodyOf(c).connector
    BY <1>4
  <2>2. PICK r \in Written("connector") : d = Document(r)
    BY PassingIsWhole, ParsedIs
  <2> QED
    BY <2>1, <2>2, WellFormed DEF PackageId
<1>6. ASSUME NEW q \in Written("connector"), q.dir.id = BodyOf(c).connector
      PROVE  q = r
  <2>1. /\ q \in Located /\ KindAt(q) = "connector"
        /\ r \in Located /\ KindAt(r) = "connector"
    BY WellFormed
  <2>2. q.dir = r.dir
    BY <1>5, <1>6, <2>1, KindsOfUnits, DirectoriesApart
  <2> QED
    BY <2>2, ConnectorsApart
<1>7. One({x \in Written("connector") : x.dir.id = BodyOf(c).connector})
  BY <1>5, <1>6, OneIs
<1> QED
  BY <1>2, <1>7

\* A workspace that passes can be loaded: every package has its root, every connection finds
\* its connector, and every pipeline resolves each stream, connection and database endpoint
\* it reaches to exactly one document, in the right role.
THEOREM PassesRun == Spec => []PassMeansRunnable
<1>1. DocInv => PassMeansRunnable
  <2> SUFFICES ASSUME Passing
               PROVE  /\ Packages # {} /\ Rootless = {}
                      /\ \A c \in Written("connection") :
                           One({r \in Written("connector") : r.dir.id = BodyOf(c).connector})
                      /\ \A p \in Written("pipeline") : Runnable(p)
    BY DEF PassMeansRunnable, Passing
  <2>1. Packages # {} /\ Rootless = {}
    BY PassingIsWhole DEF Whole
  <2>2. \A c \in Written("connection") :
          One({r \in Written("connector") : r.dir.id = BodyOf(c).connector})
    BY ConnectorsResolve
  <2>3. ASSUME NEW p \in Written("pipeline") PROVE Runnable(p)
    <3> DEFINE b == BodyOf(p)
    <3>1. b.id # NoId
      BY PipelineOwns
    <3>2. \A r \in Members(b.streams) : One({s \in StreamsOf(p) : Base(BodyOf(s).id) = Base(r)})
      BY StreamsResolve
    <3>3. \A r \in {b.source} \cup b.destinations : One(ConnectionsNamed(r))
      BY ConnectionsResolve DEF PipelineRefs
    <3>4. \A r, q \in {b.source} \cup b.destinations : Base(r) = Base(q) => r = q
      BY PipelineOwns DEF PipelineRefs
    <3>5. \A s \in StreamsOf(p) : Base(BodyOf(s).parent) = Base(b.id) /\ Wired(s, p)
      BY PipelineOwns, StreamsWired
    <3>6. b.status = "active" =>
            \E s \in StreamsOf(p) : /\ BodyOf(s).status = "active"
                                    /\ \E r \in Members(b.streams) : Base(BodyOf(s).id) = Base(r)
      BY ActiveRuns
    <3> QED
      BY <3>1, <3>2, <3>3, <3>4, <3>5, <3>6 DEF Runnable
  <2> QED
    BY <2>1, <2>2, <2>3
<1> QED
  BY <1>1, BooksHold, PTL

\* Below one connector, endpoints are told apart by their identity.
LEMMA ApiEndpointsApart ==
  ASSUME Passing, NEW e \in Written("api-endpoint"), NEW f \in Written("api-endpoint"),
         e.dir.id = f.dir.id, BodyOf(e).id = BodyOf(f).id
  PROVE  e = f
<1> DEFINE D == InPackage(Parsed, e.dir)
           named == {x \in D["api-endpoint"] : Content(x).id # NoId}
           Identity(x) == <<x.key.dir, x.body.id>>
           First(x) == CHOOSE y \in named : Identity(y) = x
           bad == {x \in named : x # First(Identity(x))}
<1>1. /\ e \in Located /\ f \in Located
      /\ KindAt(e) = "api-endpoint" /\ KindAt(f) = "api-endpoint"
      /\ ~ Refused("api-endpoint", Texts[e]) /\ BodyOf(e) = Texts[e].body
      /\ Content(Document(e)) = BodyOf(e) /\ Document(e).body = BodyOf(e) /\ Document(e).key = e
      /\ Content(Document(f)) = BodyOf(f) /\ Document(f).body = BodyOf(f) /\ Document(f).key = f
      /\ Document(e) \in InPackage(Parsed, e.dir)["api-endpoint"]
      /\ Document(f) \in InPackage(Parsed, f.dir)["api-endpoint"]
  BY WellFormed
<1>2. e.dir.unit = "connector" /\ f.dir.unit = "connector"
  BY <1>1, KindsOfUnits
<1>3. e.dir = f.dir
  BY <1>1, <1>2, DirectoriesApart
<1>4. BodyOf(e).id # NoId
  BY <1>1 DEF Refused
<1>5. bad = {}
  <2>1. RunCheck("api_endpoint_ids_unique", D) = _check_endpoint_ids_unique(D["api-endpoint"])
    BY DEF RunCheck
  <2>2. \A about, id : Fail(about, id) \notin _check_endpoint_ids_unique(D["api-endpoint"])
    BY <1>1, <1>2, <2>1, ChecksOfPackages, PackageSilent DEF Units
  <2>3. Repeated(named, LAMBDA x : <<x.key.dir, x.body.id>>) = bad
    BY DEF Repeated
  <2>4. FailEach(bad, "duplicate-endpoint-id") \subseteq _check_endpoint_ids_unique(D["api-endpoint"])
    BY <2>3 DEF _check_endpoint_ids_unique
  <2> HIDE DEF bad, D
  <2> QED
    BY <2>2, <2>4, NothingFails
<1>6. \A x, y \in named : Identity(x) = Identity(y) => x = y
  <2> HIDE DEF named, First, Identity
  <2> QED
    BY <1>5
<1>7. Document(e) \in named /\ Document(f) \in named
  BY <1>1, <1>3, <1>4
<1>8. Document(e) = Document(f)
  <2>1. Identity(Document(e)) = Identity(Document(f))
    BY <1>1, <1>3
  <2> HIDE DEF named, Identity
  <2> QED
    BY <1>6, <1>7, <2>1
<1> QED
  BY <1>1, <1>8

\* Every slot of a stream names a connection of the workspace: its pipeline's.
LEMMA SlotsConnect ==
  ASSUME Passing, NEW s \in Written("stream"), NEW slot \in Slots(BodyOf(s))
  PROVE  \E c \in Written("connection") : Base(c.dir.id) = Base(slot.connection)
<1>1. s \in Located /\ KindAt(s) = "stream" /\ s.dir.unit = "pipeline"
  BY WellFormed, KindsOfUnits
<1> DEFINE p == Root(s.dir)
<1>2. p \in Written("pipeline") /\ p.dir = s.dir
  <2>1. s.dir \in Packages
    BY <1>1 DEF Packages, Located, Outside, Passing
  <2>2. p \in DOMAIN Texts
    BY <2>1, PassingIsWhole DEF Whole, Rootless
  <2>3. KindAt(p) = "pipeline" /\ Kind(p) = KindAt(p)
    BY <1>1, RootKind DEF Kind, Passing
  <2> QED
    BY <2>2, <2>3 DEF Written, Located, NoKind, Root
<1> HIDE DEF p
<1>3. Wired(s, p)
  BY <1>2, StreamsWired DEF StreamsOf
<1>4. PICK r \in PipelineRefs(p) : Base(slot.connection) = Base(r)
  <2>1. CASE slot = BodyOf(s).reads
    BY <1>3, <2>1 DEF Wired, PipelineRefs
  <2>2. CASE slot \in Members(BodyOf(s).writes)
    BY <1>3, <2>2 DEF Wired, PipelineRefs
  <2> QED
    BY <2>1, <2>2 DEF Slots
<1>5. One(ConnectionsNamed(r))
  BY <1>2, ConnectionsResolve
<1>6. ConnectionsNamed(r) # {}
  BY <1>5, FS_EmptySet DEF One
<1> QED
  BY <1>4, <1>6 DEF ConnectionsNamed

\* With no finding at all, not even a warning, every reference to an endpoint of a connector
\* has exactly one endpoint.
THEOREM CleanResolves == Spec => []CleanMeansResolved
<1>1. DocInv => CleanMeansResolved
  <2> SUFFICES ASSUME DocInv, Done, request.mode = "workspace", findings = {},
                      NEW s \in Written("stream"), NEW slot \in Slots(BodyOf(s)),
                      slot.scope = "connector"
               PROVE  One(ApiEndpoints(slot))
    BY DEF CleanMeansResolved
  <2>1. Passing
    BY DEF Passing, Passed
  <2>2. PICK c \in Written("connection") : Base(c.dir.id) = Base(slot.connection)
    BY <2>1, SlotsConnect
  <2>3. \A d \in ConnectionsNamed(slot.connection) : d = c
    BY <2>1, <2>2, ConnectionsApart DEF ConnectionsNamed
  <2>4. /\ Document(c) \in Parsed["connection"] /\ Content(Document(c)) = BodyOf(c)
        /\ PackageId(Document(c)) = c.dir.id /\ Document(c).key = c
    BY <2>1, WellFormed DEF PackageId
  <2>5. \A d \in Parsed["connection"] : Base(PackageId(d)) = Base(slot.connection) => d = Document(c)
    <3> TAKE d \in Parsed["connection"]
    <3>1. PICK k \in Written("connection") : d = Document(k)
      BY <2>1, PassingIsWhole, ParsedIs
    <3>2. PackageId(d) = k.dir.id
      BY <2>1, <3>1, WellFormed DEF PackageId
    <3> QED
      BY <2>1, <2>2, <3>1, <3>2, ConnectionsApart
  <2>6. BodyOf(c).connector # NoId
    BY <2>1, ConnectorsResolve
  <2> DEFINE present == {<<PackageId(e), Content(e).id>> : e \in Parsed["api-endpoint"]}
             base == Base(slot.connection)
             bases == {Base(PackageId(x)) : x \in Parsed["connection"]}
             connector_of ==
               [b \in bases |-> Content(CHOOSE x \in Parsed["connection"] : Base(PackageId(x)) = b).connector]
  <2>7. base \in bases /\ connector_of[base] = BodyOf(c).connector
    <3>1. base \in bases
      BY <2>2, <2>4
    <3>2. (CHOOSE x \in Parsed["connection"] : Base(PackageId(x)) = base) = Document(c)
      BY <2>2, <2>4, <2>5
    <3> QED
      BY <2>4, <3>1, <3>2
  <2>8. <<BodyOf(c).connector, slot.endpoint>> \in present
    <3>1. _check_connector_scoped_endpoints(Parsed) = {}
      <4>1. "connector_scoped_endpoints" \in WorkspaceChecks
        BY ChecksOfWorkspaces
      <4>2. PICK check : check = [check |-> "connector_scoped_endpoints", dir |-> Outside]
        OBVIOUS
      <4>3. check \in Due
        BY <4>1, <4>2 DEF Due, At
      <4>4. Says(check) = _check_connector_scoped_endpoints(Parsed)
        BY <2>1, <4>2, ConnectionsSilent DEF Says
      <4>5. Whole /\ crashed = {}
        BY <2>1, PassingIsWhole
      <4> QED
        BY <4>3, <4>4, <4>5, WorkspaceSays
    <3>2. Document(s) \in Parsed["stream"] /\ Content(Document(s)) = BodyOf(s)
      BY <2>1, WellFormed
    <3>3. slot.there /\ ~ RefRefused(slot)
      BY <2>1, SlotsNamed
    <3>4. ~ /\ slot.there /\ slot.scope = "connector" /\ ~ RefRefused(slot)
            /\ base \in bases /\ connector_of[base] # NoId
            /\ <<connector_of[base], slot.endpoint>> \notin present
      BY <3>1, <3>2 DEF _check_connector_scoped_endpoints
    <3> HIDE DEF present, bases, connector_of
    <3> QED
      BY <2>6, <2>7, <3>3, <3>4
  <2>9. PICK e \in Written("api-endpoint") :
          e.dir.id = BodyOf(c).connector /\ BodyOf(e).id = slot.endpoint
    <3>1. PICK d \in Parsed["api-endpoint"] :
            <<BodyOf(c).connector, slot.endpoint>> = <<PackageId(d), Content(d).id>>
      BY <2>8
    <3>2. PICK e \in Written("api-endpoint") : d = Document(e)
      BY <2>1, PassingIsWhole, ParsedIs
    <3>3. PackageId(d) = BodyOf(c).connector /\ Content(d).id = slot.endpoint
      BY <3>1
    <3> QED
      BY <2>1, <3>2, <3>3, WellFormed DEF PackageId
  <2>10. e \in ApiEndpoints(slot)
    BY <2>2, <2>9 DEF ApiEndpoints, ConnectionsNamed
  <2>11. \A f \in ApiEndpoints(slot) : f = e
    BY <2>1, <2>3, <2>9, ApiEndpointsApart DEF ApiEndpoints
  <2> QED
    BY <2>10, <2>11, OneIs
<1> QED
  BY <1>1, BooksHold, PTL

-----------------------------------------------------------------------------
(* Types *)

\* What a finding is.
IsFinding(f) == f.kind \in {"fail", "notApplicable"} /\ f.severity \in {"error", "warning"}

\* Failures, warnings and skipped checks are findings.
LEMMA FindingsAre ==
  /\ \A about, id : IsFinding(Fail(about, id)) /\ IsFinding(Warn(about, id))
  /\ \A about, id : IsFinding(NotApplicable(about, id))
  /\ \A docs, id : \A f \in FailEach(docs, id) : IsFinding(f)
BY DEF IsFinding, Fail, Warn, NotApplicable, Finding, FailEach

\* The checks of a connector's package say findings.
LEMMA ConnectorChecksSay ==
  ASSUME NEW D
  PROVE  /\ \A f \in _check_type_map_relation(D) : IsFinding(f)
         /\ \A f \in _check_connector_endpoints(D) : IsFinding(f)
         /\ \A docs : \A f \in _check_endpoint_ids_unique(docs) \cup _check_endpoint_filenames(docs) : IsFinding(f)
<1>1. \A f \in _check_type_map_relation(D) : IsFinding(f)
  BY FindingsAre DEF _check_type_map_relation
<1>2. \A f \in _check_connector_endpoints(D) : IsFinding(f)
  BY FindingsAre DEF _check_connector_endpoints
<1>3. \A docs : \A f \in _check_endpoint_ids_unique(docs) \cup _check_endpoint_filenames(docs) : IsFinding(f)
  <2> TAKE docs
  <2>1. \A f \in _check_endpoint_ids_unique(docs) : IsFinding(f)
    BY FindingsAre DEF _check_endpoint_ids_unique, Repeated
  <2>2. \A f \in _check_endpoint_filenames(docs) : IsFinding(f)
    BY FindingsAre DEF _check_endpoint_filenames
  <2> QED
    BY <2>1, <2>2
<1> QED
  BY <1>1, <1>2, <1>3

\* The checks of a pipeline's package say findings.
LEMMA PipelineChecksSay ==
  ASSUME NEW D
  PROVE  \A f \in _check_pipeline_id(D) \cup _check_connection_version_conflicts(D)
                    \cup _check_stream_endpoint_targets(D) \cup _check_stream_refs(D)
                    \cup _check_stream_parent_pipeline(D) \cup _check_stream_connection_roles(D)
                    \cup _check_pipeline_active_gate(D) : IsFinding(f)
<1>1. \A f \in _check_pipeline_id(D) : IsFinding(f)
  BY FindingsAre DEF _check_pipeline_id
<1>2. \A f \in _check_connection_version_conflicts(D) : IsFinding(f)
  BY FindingsAre DEF _check_connection_version_conflicts
<1>3. \A f \in _check_stream_endpoint_targets(D) : IsFinding(f)
  BY FindingsAre DEF _check_stream_endpoint_targets
<1>4. \A f \in _check_stream_refs(D) : IsFinding(f)
  BY FindingsAre DEF _check_stream_refs, Repeated, Repeats
<1>5. \A f \in _check_stream_parent_pipeline(D) : IsFinding(f)
  BY FindingsAre DEF _check_stream_parent_pipeline
<1>6. \A f \in _check_stream_connection_roles(D) : IsFinding(f)
  BY FindingsAre DEF _check_stream_connection_roles
<1>7. \A f \in _check_pipeline_active_gate(D) : IsFinding(f)
  BY FindingsAre DEF _check_pipeline_active_gate
<1> QED
  BY <1>1, <1>2, <1>3, <1>4, <1>5, <1>6, <1>7

\* The checks across packages say findings.
LEMMA WorkspaceChecksSay ==
  ASSUME NEW D
  PROVE  \A f \in _check_connections_present(D) \cup _check_connection_connector_refs(D)
                    \cup _check_connection_type_map_shadow(D) \cup _check_connection_scoped_endpoints(D)
                    \cup _check_connector_scoped_endpoints(D) : IsFinding(f)
<1>1. \A f \in _check_connections_present(D) : IsFinding(f)
  BY FindingsAre DEF _check_connections_present, Repeated
<1>2. \A f \in _check_connection_connector_refs(D) : IsFinding(f)
  BY FindingsAre DEF _check_connection_connector_refs
<1>3. \A f \in _check_connection_type_map_shadow(D) : IsFinding(f)
  BY FindingsAre DEF _check_connection_type_map_shadow
<1>4. \A f \in _check_connection_scoped_endpoints(D) : IsFinding(f)
  BY FindingsAre DEF _check_connection_scoped_endpoints
<1>5. \A f \in _check_connector_scoped_endpoints(D) : IsFinding(f)
  BY FindingsAre DEF _check_connector_scoped_endpoints
<1> QED
  BY <1>1, <1>2, <1>3, <1>4, <1>5

\* A check that is due says findings.
LEMMA DueSays ==
  ASSUME NEW c \in Due
  PROVE  \A f \in Says(c) : IsFinding(f)
<1>1. c.check \in Checks
  BY DueIs
<1>2. PICK D : Says(c) = RunCheck(c.check, D)
  BY DEF Says
<1>3. c.check \in
        {"type_map_relation", "connector_endpoints", "api_endpoint_ids_unique",
         "database_endpoint_ids_unique", "api_endpoint_filenames", "database_endpoint_filenames",
         "pipeline_id", "connection_version_conflicts", "stream_endpoint_targets", "stream_refs",
         "stream_parent_pipeline", "stream_connection_roles", "pipeline_active_gate",
         "connections_present", "connection_connector_refs", "connection_type_map_shadow",
         "connection_scoped_endpoints", "connector_scoped_endpoints"}
  BY <1>1 DEF Checks, Reads
<1>4. \/ Says(c) \in {_check_type_map_relation(D), _check_connector_endpoints(D)}
      \/ \E docs : Says(c) \in {_check_endpoint_ids_unique(docs), _check_endpoint_filenames(docs)}
      \/ Says(c) \in {_check_pipeline_id(D), _check_connection_version_conflicts(D),
                      _check_stream_endpoint_targets(D), _check_stream_refs(D),
                      _check_stream_parent_pipeline(D), _check_stream_connection_roles(D),
                      _check_pipeline_active_gate(D)}
      \/ Says(c) \in {_check_connections_present(D), _check_connection_connector_refs(D),
                      _check_connection_type_map_shadow(D), _check_connection_scoped_endpoints(D),
                      _check_connector_scoped_endpoints(D)}
  BY <1>2, <1>3 DEF RunCheck
<1> QED
  BY <1>4, ConnectorChecksSay, PipelineChecksSay, WorkspaceChecksSay

\* What is graded is located, what is kept parsed, under the kind of its location, what is
\* due is run, and only findings of the known kinds and severities are reported.
THEOREM TypesHold == Spec => []TypeOK
<1>1. DocInv => TypeOK
  <2> SUFFICES ASSUME DocInv PROVE TypeOK
    OBVIOUS
  <2>1. phase \in {"start", "documents", "checks", "done"} /\ complete \in BOOLEAN
    BY DEF DocInv
  <2>2. ungraded \subseteq Located /\ unchecked \cup ran \subseteq Due
    BY DEF DocInv, DocumentsBook, ChecksBook
  <2>3. ASSUME NEW f \in findings PROVE IsFinding(f)
    <3>1. CASE phase = "start"
      BY <3>1 DEF DocInv
    <3>2. CASE findings = {Fail(Root(Outside), "workspace-empty")}
      BY <3>2, FindingsAre
    <3>3. CASE DocumentsBook
      <4>1. Explained(f)
        BY <3>3 DEF DocumentsBook
      <4>2. ASSUME NEW k, f \in Graded(Kind(k), k, Texts[k]) PROVE IsFinding(f)
        BY <4>2, FindingsAre DEF Graded
      <4>3. \A x : IsFinding(Crash(x))
        BY FindingsAre DEF Crash
      <4> QED
        BY <4>1, <4>2, <4>3, <2>2, FindingsAre, DueSays DEF Explained
    <3> QED
      BY <3>1, <3>2, <3>3 DEF DocInv
  <2>4. /\ DOMAIN documents = Kinds
        /\ \A kind \in Kinds : \A d \in documents[kind] :
             d.key \in Located /\ Kind(d.key) = kind /\ ~ Unparseable(Texts[d.key])
    <3>1. CASE documents = [kind \in Kinds |-> {}]
      BY <3>1
    <3>2. CASE documents = [kind \in Kinds |-> Kept(kind)]
      <4>1. ASSUME NEW kind \in Kinds, NEW d \in documents[kind]
            PROVE  d.key \in Located /\ Kind(d.key) = kind /\ ~ Unparseable(Texts[d.key])
        <5>1. d \in Kept(kind)
          BY <3>2
        <5>2. d.key \in Written(kind) /\ ~ Unparseable(Texts[d.key])
          BY <5>1 DEF Kept, Document
        <5> QED
          BY <5>2 DEF Written
      <4> QED
        BY <3>2, <4>1
    <3> QED
      BY <3>1, <3>2 DEF DocInv, DocumentsBook
  <2> QED
    BY <2>1, <2>2, <2>3, <2>4 DEF TypeOK, IsFinding
<1> QED
  BY <1>1, BooksHold, PTL

=============================================================================
