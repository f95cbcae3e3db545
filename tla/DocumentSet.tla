---------------------------- MODULE DocumentSet ----------------------------
(***************************************************************************)
(* validate_single_document, validate_package and validate_workspace of    *)
(* document_set.py: one request, graded a document and then a check at a   *)
(* time.  Any document validator and any check may crash (a defect of the  *)
(* validator); _run_guarded turns the crash into a finding.                *)
(*                                                                         *)
(* A request is a record [mode, kind, dir, texts, crashes]: the entry      *)
(* point called, for a single document the kind the caller names, for a    *)
(* package its directory, the text of every key, and a bound on how many   *)
(* validators and checks crash over it.                                    *)
(***************************************************************************)
EXTENDS CrossDocuments

CONSTANTS
  Requests    \* the requests that may be made

ASSUME CrashAssumption == \A r \in Requests : r.crashes \in Nat

(* The request models refuse a key at a secret location, and two documents cannot share a key. *)
ASSUME RequestAssumption ==
  \A r \in Requests : \A k \in DOMAIN r.texts : k.at[1] \notin SecretLocations(k.dir.unit)

(* A request carries finitely many documents; a directory is a unit and a name. *)
ASSUME TextsAssumption ==
  \A r \in Requests :
    /\ IsFiniteSet(DOMAIN r.texts)
    /\ \A k \in DOMAIN r.texts : k.dir = [unit |-> k.dir.unit, id |-> k.dir.id]

VARIABLES
  request,
  phase,      \* "start", "documents", "checks" or "done"
  ungraded,   \* the located keys not graded yet
  unchecked,  \* the [check, dir] not run yet; a workspace check has the directory Outside
  findings,
  documents,  \* kind -> documents parsed so far
  complete,   \* every root is there and every document parsed
  crashed,    \* what crashed: the keys of documents and the names of checks
  ran         \* the [check, dir] that ran to the end

vars == <<request, phase, ungraded, unchecked, findings, documents, complete, crashed, ran>>

Kinds == (UNION {PackageKinds(u) : u \in Units}) \cup {"pipeline-manifest"}

Texts == request.texts

(* The packages of the request, by directory: a key inside a package directory names one,
   whether or not a location matches it. *)
Packages ==
  CASE request.mode = "single"  -> {}
    [] request.mode = "package" -> {request.dir}
    [] OTHER                    -> {k.dir : k \in DOMAIN Texts} \ {Outside}

(* located: the kind of each key that is graded. *)
Kind(key) == IF request.mode = "single" THEN request.kind ELSE KindAt(key)
Located   == {k \in DOMAIN Texts : Kind(k) # NoKind}

At(checks, dir) == {[check |-> c, dir |-> dir] : c \in checks}

(* A mutant: a workspace runs only the checks that span packages. *)
Due_SpanningOnly ==
  IF request.mode = "workspace"
  THEN {[check |-> c, dir |-> Outside] : c \in WorkspaceChecks}
  ELSE UNION {At(PackageChecks(d.unit), d) : d \in Packages}

(* The checks of the request: each package's own, and a workspace's. *)
Due ==
  (UNION {At(PackageChecks(d.unit), d) : d \in Packages})
  \cup (IF request.mode = "workspace" THEN At(WorkspaceChecks, Outside) ELSE {})

Init ==
  /\ request \in Requests
  /\ phase = "start"
  /\ ungraded = {}
  /\ unchecked = {}
  /\ findings = {}
  /\ documents = [k \in Kinds |-> {}]
  /\ complete = TRUE
  /\ crashed = {}
  /\ ran = {}

---------------------------------------------------------------------------
(* A workspace locating no package is one finding, and nothing is graded. *)
EmptyWorkspace ==
  /\ phase = "start"
  /\ request.mode = "workspace" /\ Packages = {}
  /\ findings' = {Fail(Root(Outside), "workspace-empty")}
  /\ phase' = "done"
  /\ UNCHANGED <<request, ungraded, unchecked, documents, complete, crashed, ran>>

(* Root presence for every package. *)
Rootless == {d \in Packages : Root(d) \notin DOMAIN Texts}

GradeRoots ==
  /\ phase = "start"
  /\ request.mode = "workspace" => Packages # {}
  /\ findings' = {Fail(Root(d), "package-root-missing") : d \in Rootless}
  /\ complete' = (Rootless = {})
  /\ ungraded' = Located
  /\ phase' = "documents"
  /\ UNCHANGED <<request, unchecked, documents, crashed, ran>>

(* validate_document_as: the model's verdict and, where the kind asks for it, $schema. *)
Graded(kind, key, text) ==
  (IF Refused(kind, text) THEN {Fail(key, "model")} ELSE {})
  \cup (IF kind \in PlacedKinds /\ IsObject(text) /\ ~ text.body.placed
        THEN {Warn(key, "schema-url-missing")} ELSE {})

Crash(about) == NotApplicable(about, "check-crashed")

Keep(key) ==
  documents' = [documents EXCEPT ![Kind(key)] =
                  @ \cup {[key |-> key, form |-> Texts[key].form, body |-> Texts[key].body]}]

MayCrash == Cardinality(crashed) < request.crashes

NextKey == CHOOSE k \in ungraded : TRUE

(* A mutant: a document that does not parse leaves the set complete. *)
Unreadable_StillComplete ==
  /\ phase = "documents" /\ ungraded # {}
  /\ Unparseable(Texts[NextKey])
  /\ findings' = findings \cup {Fail(NextKey, "unreadable-document")}
  /\ ungraded' = ungraded \ {NextKey}
  /\ UNCHANGED <<request, phase, unchecked, documents, complete, crashed, ran>>

(* The text does not parse: a finding, and no check will run. *)
Unreadable ==
  /\ phase = "documents" /\ ungraded # {}
  /\ Unparseable(Texts[NextKey])
  /\ findings' = findings \cup {Fail(NextKey, "unreadable-document")}
  /\ complete' = FALSE
  /\ ungraded' = ungraded \ {NextKey}
  /\ UNCHANGED <<request, phase, unchecked, documents, crashed, ran>>

Grade ==
  /\ phase = "documents" /\ ungraded # {}
  /\ ~ Unparseable(Texts[NextKey])
  /\ findings' = findings \cup Graded(Kind(NextKey), NextKey, Texts[NextKey])
  /\ Keep(NextKey)
  /\ ungraded' = ungraded \ {NextKey}
  /\ UNCHANGED <<request, phase, unchecked, complete, crashed, ran>>

GradeCrashes ==
  /\ phase = "documents" /\ ungraded # {}
  /\ MayCrash
  /\ ~ Unparseable(Texts[NextKey])
  /\ findings' = findings \cup {Crash(NextKey)}
  /\ crashed' = crashed \cup {NextKey}
  /\ Keep(NextKey)
  /\ ungraded' = ungraded \ {NextKey}
  /\ UNCHANGED <<request, phase, unchecked, complete, ran>>

(* The checks run where every root is there and every document parsed. *)
DocumentsGraded ==
  /\ phase = "documents" /\ ungraded = {}
  /\ phase' = "checks"
  /\ unchecked' = IF complete THEN Due ELSE {}
  /\ UNCHANGED <<request, ungraded, findings, documents, complete, crashed, ran>>

---------------------------------------------------------------------------
(* The package checks of one directory see that package's documents alone. *)
InPackage(D, dir) == [k \in Kinds |-> {d \in D[k] : d.key.dir = dir}]

DocumentsFor(check) ==
  IF check.dir = Outside THEN documents ELSE InPackage(documents, check.dir)

Name(check) == [dir |-> check.dir, at |-> <<check.check, "">>]

NextCheck == CHOOSE c \in unchecked : TRUE

Check ==
  /\ phase = "checks" /\ unchecked # {}
  /\ ~ Raises(NextCheck.check, DocumentsFor(NextCheck))
  /\ findings' = findings \cup RunCheck(NextCheck.check, DocumentsFor(NextCheck))
  /\ ran' = ran \cup {NextCheck}
  /\ unchecked' = unchecked \ {NextCheck}
  /\ UNCHANGED <<request, phase, ungraded, documents, complete, crashed>>

(* A mutant: a crash ends the run of checks. *)
CheckCrashes_Stops ==
  /\ phase = "checks" /\ unchecked # {}
  /\ Raises(NextCheck.check, DocumentsFor(NextCheck)) \/ MayCrash
  /\ findings' = findings \cup {Crash(Name(NextCheck))}
  /\ crashed' = crashed \cup {Name(NextCheck)}
  /\ unchecked' = {}
  /\ UNCHANGED <<request, phase, ungraded, documents, complete, ran>>

(* A crash, by a defect or by what the check itself raises, costs only that check. *)
CheckCrashes ==
  /\ phase = "checks" /\ unchecked # {}
  /\ Raises(NextCheck.check, DocumentsFor(NextCheck)) \/ MayCrash
  /\ findings' = findings \cup {Crash(Name(NextCheck))}
  /\ crashed' = crashed \cup {Name(NextCheck)}
  /\ unchecked' = unchecked \ {NextCheck}
  /\ UNCHANGED <<request, phase, ungraded, documents, complete, ran>>

Answer ==
  /\ phase = "checks" /\ unchecked = {}
  /\ phase' = "done"
  /\ UNCHANGED <<request, ungraded, unchecked, findings, documents, complete, crashed, ran>>

Finished == phase = "done" /\ UNCHANGED vars

Next ==
  \/ EmptyWorkspace \/ GradeRoots
  \/ Unreadable \/ Grade \/ GradeCrashes \/ DocumentsGraded
  \/ Check \/ CheckCrashes \/ Answer
  \/ Finished

Spec == Init /\ [][Next]_vars

---------------------------------------------------------------------------
(* Every variable has its type: what is graded is located, what is kept parsed, under the
   kind of its location, and only findings of the three kinds are reported. *)
TypeOK ==
  /\ phase \in {"start", "documents", "checks", "done"}
  /\ ungraded \subseteq Located
  /\ unchecked \cup ran \subseteq Due
  /\ \A f \in findings : f.kind \in {"fail", "notApplicable"} /\ f.severity \in {"error", "warning"}
  /\ DOMAIN documents = Kinds
  /\ \A k \in Kinds : \A d \in documents[k] :
       d.key \in Located /\ Kind(d.key) = k /\ ~ Unparseable(Texts[d.key])
  /\ complete \in BOOLEAN

Done == phase = "done"

(* The documents of the request as a set, whatever the run has kept of them. *)
Written(kind) == {k \in Located : Kind(k) = kind}
Parsed == [kind \in Kinds |->
             {[key |-> k, form |-> Texts[k].form, body |-> Texts[k].body] :
                k \in {k \in Written(kind) : ~ Unparseable(Texts[k])}}]
Whole ==
  /\ request.mode = "workspace" => Packages # {}
  /\ Rootless = {}
  /\ \A k \in Located : ~ Unparseable(Texts[k])

Says(check) == RunCheck(check.check, IF check.dir = Outside THEN Parsed ELSE InPackage(Parsed, check.dir))

(* A crash costs only what crashed: when the documents are whole, every check that is due
   has run or crashed, never both; every check that ran reports all it has to say about
   the documents of the request, and every document that did not crash all its model has
   to say; and a request in which anything crashed does not pass. *)
CrashStaysContained ==
  Done /\ Whole =>
    /\ \A c \in Due : (c \in ran) # (Name(c) \in crashed)
    /\ \A c \in ran : Says(c) \subseteq findings
    /\ \A k \in Located \ crashed : Graded(Kind(k), k, Texts[k]) \subseteq findings
    /\ crashed # {} => ~ Passed(findings)

(* A check cannot tell a missing document from one that could not be read, so none runs
   unless every root is there and every located document parsed. *)
ChecksSeeTheWholeSet == [][ran' # ran \/ unchecked' \ unchecked # {} => Whole /\ ungraded = {}]_vars

---------------------------------------------------------------------------
(* What a workspace that can run is, read off its documents alone. *)

BodyOf(k) == Content(Texts[k])

ConnectionsNamed(id) == {c \in Written("connection") : Base(c.dir.id) = Base(id)}

DatabaseEndpoints(slot) ==
  {e \in Written("database-endpoint") :
     Base(e.dir.id) = Base(slot.connection) /\ BodyOf(e).id = slot.endpoint}

ApiEndpoints(slot) ==
  {e \in Written("api-endpoint") :
     BodyOf(e).id = slot.endpoint /\ \E c \in ConnectionsNamed(slot.connection) : e.dir.id = BodyOf(c).connector}

One(S) == Cardinality(S) = 1

StreamsOf(p) == {s \in Written("stream") : s.dir = p.dir}

(* The stream reads and writes through the connections its pipeline gives those roles. *)
Wired(s, p) ==
  /\ Base(BodyOf(s).reads.connection) = Base(BodyOf(p).source)
  /\ \A w \in Members(BodyOf(s).writes) : \E r \in BodyOf(p).destinations : Base(w.connection) = Base(r)
  /\ \A slot \in Slots(BodyOf(s)) : slot.scope = "connection" => One(DatabaseEndpoints(slot))

Runnable(p) ==
  LET b == BodyOf(p)
      wanted == Members(b.streams)
      connections == {b.source} \cup b.destinations
  IN  /\ b.id # NoId
      /\ \A r \in wanted : One({s \in StreamsOf(p) : Base(BodyOf(s).id) = Base(r)})
      /\ \A r \in connections : One(ConnectionsNamed(r))
      /\ \A r, q \in connections : Base(r) = Base(q) => r = q
      /\ \A s \in StreamsOf(p) : Base(BodyOf(s).parent) = Base(b.id) /\ Wired(s, p)
      /\ b.status = "active" =>
           \E s \in StreamsOf(p) : BodyOf(s).status = "active" /\ \E r \in wanted : Base(BodyOf(s).id) = Base(r)

(* A workspace that passes can be loaded: every package has its root, every connection
   finds its one connector, and every pipeline resolves each stream, connection and
   database endpoint it reaches to exactly one document, in the right role. *)
PassMeansRunnable ==
  Done /\ request.mode = "workspace" /\ Passed(findings) =>
    /\ Packages # {} /\ Rootless = {}
    /\ \A c \in Written("connection") : One({r \in Written("connector") : r.dir.id = BodyOf(c).connector})
    /\ \A p \in Written("pipeline") : Runnable(p)

(* An endpoint of a connector is only asked for by a warning (RULE-STRM-044), but no miss
   is silent: with no finding at all, each such reference has exactly one endpoint. *)
CleanMeansResolved ==
  Done /\ request.mode = "workspace" /\ findings = {} =>
    \A s \in Written("stream") : \A slot \in Slots(BodyOf(s)) :
      slot.scope = "connector" => One(ApiEndpoints(slot))

(* What the package request for one directory would say. *)
PackageSays(d) ==
  {Fail(Root(x), "package-root-missing") : x \in Rootless \cap {d}}
  \cup (UNION {Graded(Kind(k), k, Texts[k]) : k \in {k \in Located : k.dir = d}})
  \cup (UNION {Says(c) : c \in At(PackageChecks(d.unit), d)})

(* A whole workspace passes exactly when each of its packages would pass alone, its own
   documents pass, and the checks across packages have nothing to say against it. *)
WorkspaceIsItsParts ==
  Done /\ request.mode = "workspace" /\ Whole /\ crashed = {} =>
    (Passed(findings) <=>
       /\ \A d \in Packages : Passed(PackageSays(d))
       /\ \A k \in Written("pipeline-manifest") : Passed(Graded(Kind(k), k, Texts[k]))
       /\ \A c \in At(WorkspaceChecks, Outside) : Passed(Says(c)))

---------------------------------------------------------------------------
(* The inductive invariant behind them. *)

Document(k) == [key |-> k, form |-> Texts[k].form, body |-> Texts[k].body]

Kept(kind) == {Document(k) : k \in {k \in Written(kind) \ ungraded : ~ Unparseable(Texts[k])}}

(* What a finding is about: a root, a document, what crashed or a check that ran. *)
Explained(f) ==
  \/ \E d \in Rootless : f = Fail(Root(d), "package-root-missing")
  \/ \E k \in Located \ ungraded :
       IF Unparseable(Texts[k]) THEN f = Fail(k, "unreadable-document")
                                ELSE f \in Graded(Kind(k), k, Texts[k])
  \/ \E x \in crashed : f = Crash(x)
  \/ \E c \in ran : f \in Says(c)

(* What is graded is kept, reported and counted. *)
DocumentsBook ==
  /\ request.mode = "workspace" => Packages # {}
  /\ ungraded \subseteq Located
  /\ complete <=> Rootless = {} /\ \A k \in Located \ ungraded : ~ Unparseable(Texts[k])
  /\ documents = [kind \in Kinds |-> Kept(kind)]
  /\ \A d \in Rootless : Fail(Root(d), "package-root-missing") \in findings
  /\ \A k \in Located \ ungraded :
       IF Unparseable(Texts[k]) THEN Fail(k, "unreadable-document") \in findings
                                ELSE k \in crashed \/ Graded(Kind(k), k, Texts[k]) \subseteq findings
  /\ \A x \in crashed : Crash(x) \in findings
  /\ \A f \in findings : Explained(f)

(* A check that is due waits, ran and was heard, or crashed. *)
ChecksBook ==
  /\ ungraded = {}
  /\ unchecked \cup ran \subseteq Due /\ unchecked \cap ran = {}
  /\ crashed \subseteq Located \cup {Name(c) : c \in Due}
  /\ IF complete THEN \A c \in Due : Name(c) \in crashed <=> c \notin unchecked \cup ran
                 ELSE unchecked \cup ran = {}
  /\ \A c \in ran :
       /\ Says(c) \subseteq findings
       /\ ~ Raises(c.check, IF c.dir = Outside THEN Parsed ELSE InPackage(Parsed, c.dir))

DocInv ==
  /\ request \in Requests
  /\ complete \in BOOLEAN
  /\ \/ /\ phase = "start"
        /\ findings \cup ungraded \cup unchecked \cup crashed \cup ran = {}
        /\ documents = [kind \in Kinds |-> {}]
     \/ /\ phase = "documents" /\ DocumentsBook
        /\ crashed \subseteq Located \ ungraded
        /\ unchecked \cup ran = {}
     \/ phase = "checks" /\ DocumentsBook /\ ChecksBook
     \/ phase = "done" /\ DocumentsBook /\ ChecksBook /\ unchecked = {}
     \/ /\ phase = "done" /\ request.mode = "workspace" /\ Packages = {}
        /\ findings = {Fail(Root(Outside), "workspace-empty")}
        /\ documents = [kind \in Kinds |-> {}]
        /\ ungraded \cup unchecked \cup crashed \cup ran = {}
=============================================================================
