--------------------------- MODULE CrossDocuments ---------------------------
(***************************************************************************)
(* The cross-document checks of pipelines.py and connectors.py.  Each      *)
(* takes the documents it reads, a function from kind to a set of          *)
(* documents, and returns its findings.  A document is a record            *)
(* [key, form, body]; the package holding it is key.dir.                   *)
(*                                                                         *)
(* A finding keeps what decides a verdict: its kind, the severity of the   *)
(* rule it is about, the document it names and its message id.             *)
(***************************************************************************)
EXTENDS WorkspaceDocuments, FiniteSetsExt

Finding(kind, severity, about, id) ==
  [kind |-> kind, severity |-> severity, about |-> about, id |-> id]

Fail(about, id)          == Finding("fail", "error", about, id)
Warn(about, id)          == Finding("fail", "warning", about, id)
NotApplicable(about, id) == Finding("notApplicable", "error", about, id)

(* finding_costs_a_pass *)
CostsAPass(f) == f.kind \in {"fail", "notApplicable"} /\ f.severity = "error"

Passed(findings) == \A f \in findings : ~ CostsAPass(f)

FailEach(docs, id) == {Fail(d.key, id) : d \in docs}

(* Every document of `docs` but the first of those sharing an identity: which is first
   is the order of the keys, which no property tells apart. *)
Repeated(docs, IdOf(_)) ==
  {d \in docs : d # CHOOSE e \in docs : IdOf(e) = IdOf(d)}

PackageId(doc) == doc.key.dir.id

---------------------------------------------------------------------------
(* Connector packages *)

TheOnly(docs) == CHOOSE d \in docs : TRUE

(* `(connector,) = documents["connector"]` raises unless there is exactly one. *)
OneConnector(D) == Cardinality(D["connector"]) = 1

Sections(maps) ==
  IF maps = {} \/ ~ IsObject(TheOnly(maps)) THEN {} ELSE TheOnly(maps).body.sections

_check_type_map_relation(D) ==
  LET connector == TheOnly(D["connector"])
      kind      == connector.body.kind
      maps      == D["type-map"]
      needed    == {"read"} \cup (IF kind \in DatabaseKinds THEN {"write"} ELSE {})
  IN  CASE ~ IsObject(connector)         -> {}
        [] kind \notin ConnectorKinds    -> {NotApplicable(connector.key, "coverage-check-skipped-bad-kind")}
        [] kind \in StorageKinds         -> {}
        [] OTHER ->
             {Fail(connector.key, "map-missing") : s \in needed \ Sections(maps)}
             \cup {Fail(m.key, "write-map-not-allowed") :
                     m \in {m \in maps : kind = "api" /\ "write" \in Sections(maps)}}

ReadRules(maps) ==
  IF maps # {} /\ IsObject(TheOnly(maps)) /\ "read" \in TheOnly(maps).body.lists
  THEN {TheOnly(maps).body.read} ELSE {}

_check_connector_endpoints(D) ==
  LET connector == TheOnly(D["connector"])
      endpoints == {e \in D["api-endpoint"] : IsObject(e)}
      rules     == ReadRules(D["type-map"])
  IN  CASE ~ IsObject(connector) \/ connector.body.kind # "api" -> {}
        [] D["api-endpoint"] = {} -> {Fail(connector.key, "endpoints-missing")}
        [] OTHER ->
             (IF rules = {} THEN {NotApplicable(connector.key, "native-type-coverage-skipped")} ELSE {})
             \cup FailEach({e \in endpoints : ~ e.body.transports \subseteq connector.body.transports},
                           "transport-ref-undeclared")
             \cup FailEach({e \in endpoints : \E r \in rules : ~ e.body.natives \subseteq r},
                           "native-type-unresolved")

_check_endpoint_ids_unique(endpoints) ==
  LET named == {e \in endpoints : Content(e).id # NoId}
  IN  FailEach(Repeated(named, LAMBDA e : <<e.key.dir, e.body.id>>), "duplicate-endpoint-id")

(* endpoint_filename_findings: the file is named after the id. *)
_check_endpoint_filenames(endpoints) ==
  LET read == {e \in endpoints : IsObject(e)}
  IN  {NotApplicable(e.key, "filename-check-skipped-no-id") : e \in {e \in read : e.body.id = NoId}}
      \cup FailEach({e \in read : e.body.id # NoId /\ e.key.at[2] # e.body.id[1]}, "filename-id-mismatch")

---------------------------------------------------------------------------
(* Pipeline packages *)

PipelineConnections(b) == Named({b.source} \cup b.destinations)

_check_pipeline_id(D) ==
  FailEach({d \in D["pipeline"] : Content(d).id = NoId}, "pipeline-missing-pipeline-id")

_check_connection_version_conflicts(D) ==
  FailEach({d \in D["pipeline"] :
              \E r, s \in PipelineConnections(Content(d)) : r # s /\ Base(r) = Base(s)},
           "connection-version-conflict")

_check_stream_endpoint_targets(D) ==
  FailEach({d \in D["stream"] : IsObject(d) /\ \E s \in Slots(d.body) : ~ s.there},
           "stream-no-endpoint-ref")

StreamRefs(b) == IF b.listed THEN Named(Members(b.streams)) ELSE {}

_check_stream_refs(D) ==
  LET named    == {d \in D["stream"] : Content(d).id # NoId}
      declared == {Base(d.body.id) : d \in named}
      lists    == {d \in D["pipeline"] : Content(d).listed \/ ~ IsObject(d)}
  IN  FailEach(D["stream"] \ named, "bundled-stream-missing-id")
      \cup FailEach(Repeated(named, LAMBDA d : Base(d.body.id)), "duplicate-bundled-stream-id")
      \cup FailEach(D["pipeline"] \ lists, "pipeline-streams-not-a-list")
      \cup FailEach({d \in lists : Repeats(SelectSeq(Content(d).streams, LAMBDA r : r # NoId), Base)},
                    "duplicate-stream-ref")
      \cup FailEach({d \in lists : \E r \in StreamRefs(Content(d)) : Base(r) \notin declared},
                    "stream-ref-unresolved")

_check_stream_parent_pipeline(D) ==
  LET parents == {Base(i) : i \in Named({Content(p).id : p \in D["pipeline"]})}
  IN  FailEach({d \in D["stream"] :
                  /\ Content(d).parent # NoId
                  /\ \E p \in parents : Base(d.body.parent) # p},
               "stream-wrong-parent-pipeline")

(* A slot's connection must be the one its role has in the pipeline. *)
WrongSource(slot, p) ==
  slot.there /\ (\/ slot.connection = NoId
                 \/ p.source = NoId
                 \/ Base(slot.connection) # Base(p.source))
WrongDestination(slot, p) ==
  slot.there /\ (\/ slot.connection = NoId
                 \/ Base(slot.connection) \notin {Base(r) : r \in Named(p.destinations)})

_check_stream_connection_roles(D) ==
  FailEach({d \in D["stream"] : \E p \in {Content(x) : x \in D["pipeline"]} :
              \/ WrongSource(Content(d).reads, p)
              \/ \E w \in Members(Content(d).writes) : WrongDestination(w, p)},
           "stream-wrong-connection")

_check_pipeline_active_gate(D) ==
  LET runnable(b) == \E s \in D["stream"] : LET c == Content(s) IN
                        /\ c.status = "active"
                        /\ c.id # NoId
                        /\ Base(c.id) \in {Base(r) : r \in StreamRefs(b)}
  IN  FailEach({d \in D["pipeline"] : Content(d).status = "active" /\ ~ runnable(d.body)},
               "active-pipeline-no-runnable-stream")

---------------------------------------------------------------------------
(* The whole workspace *)

(* A mutant: two connections of one base are not reported. *)
_check_connections_present_Any(D) ==
  LET present == {Base(PackageId(d)) : d \in D["connection"]}
  IN  FailEach({d \in D["pipeline"] :
                  \E r \in PipelineConnections(Content(d)) : Base(r) \notin present},
               "connection-ref-unresolved")

_check_connections_present(D) ==
  LET present == {Base(PackageId(d)) : d \in D["connection"]}
  IN  FailEach(Repeated(D["connection"], LAMBDA d : Base(PackageId(d))), "duplicate-bundled-connection")
      \cup FailEach({d \in D["pipeline"] :
                       \E r \in PipelineConnections(Content(d)) : Base(r) \notin present},
                    "connection-ref-unresolved")

_check_connection_connector_refs(D) ==
  LET present == {PackageId(d) : d \in D["connector"]}
      read    == {d \in D["connection"] : IsObject(d)}
  IN  FailEach({d \in read : d.body.connector = NoId}, "connection-no-connector-id")
      \cup FailEach({d \in read : d.body.connector # NoId /\ d.body.connector \notin present},
                    "connector-ref-unresolved")

(* Rules are the Arrow types they render: probing by family is left out. *)
_check_connection_type_map_shadow(D) ==
  LET maps(owner)  == {m \in D["type-map"] : m.key.dir = owner.key.dir /\ IsObject(m)
                                             /\ "write" \in m.body.lists}
      rendered(id) == UNION {m.body.write : m \in UNION {maps(c) : c \in {c \in D["connector"] : PackageId(c) = id}}}
      read         == {d \in D["connection"] : IsObject(d)}
  IN  FailEach({m \in UNION {maps(d) : d \in read} :
                  \E d \in read : /\ d.key.dir = m.key.dir
                                  /\ m.body.write \cap rendered(d.body.connector) # {}},
               "connection-write-map-shadows-connector")

_check_connection_scoped_endpoints(D) ==
  LET present == {<<Base(PackageId(e)), Content(e).id>> : e \in D["database-endpoint"]}
  IN  FailEach({d \in D["stream"] : \E s \in Slots(Content(d)) :
                  /\ s.there /\ s.scope = "connection" /\ ~ RefRefused(s)
                  /\ <<Base(s.connection), s.endpoint>> \notin present},
               "endpoint-ref-unresolved")

(* A mutant: an endpoint of any connector will do. *)
_check_connector_scoped_endpoints_Any(D) ==
  {Warn(d.key, "connector-endpoint-ref-unresolved") :
     d \in {d \in D["stream"] : \E s \in Slots(Content(d)) :
              /\ s.there /\ s.scope = "connector" /\ ~ RefRefused(s)
              /\ s.endpoint \notin {Content(e).id : e \in D["api-endpoint"]}}}

(* RULE-STRM-044 is a warning. Of two connections with one base the last in key order counts. *)
_check_connector_scoped_endpoints(D) ==
  LET present      == {<<PackageId(e), Content(e).id>> : e \in D["api-endpoint"]}
      bases        == {Base(PackageId(c)) : c \in D["connection"]}
      connector_of == [b \in bases |-> Content(CHOOSE c \in D["connection"] : Base(PackageId(c)) = b).connector]
  IN  {Warn(d.key, "connector-endpoint-ref-unresolved") :
         d \in {d \in D["stream"] : \E s \in Slots(Content(d)) :
                  /\ s.there /\ s.scope = "connector" /\ ~ RefRefused(s)
                  /\ Base(s.connection) \in bases
                  /\ connector_of[Base(s.connection)] # NoId
                  /\ <<connector_of[Base(s.connection)], s.endpoint>> \notin present}}

---------------------------------------------------------------------------
(* _CHECKS: every check and the kinds it reads. *)
Reads ==
  [type_map_relation            |-> {"connector", "type-map"},
   connector_endpoints          |-> {"connector", "type-map", "api-endpoint"},
   api_endpoint_ids_unique      |-> {"api-endpoint"},
   database_endpoint_ids_unique |-> {"database-endpoint"},
   api_endpoint_filenames       |-> {"api-endpoint"},
   database_endpoint_filenames  |-> {"database-endpoint"},
   pipeline_id                  |-> {"pipeline"},
   connection_version_conflicts |-> {"pipeline"},
   stream_endpoint_targets      |-> {"stream"},
   stream_refs                  |-> {"pipeline", "stream"},
   stream_parent_pipeline       |-> {"pipeline", "stream"},
   stream_connection_roles      |-> {"pipeline", "stream"},
   pipeline_active_gate         |-> {"pipeline", "stream"},
   connections_present          |-> {"pipeline", "connection"},
   connection_connector_refs    |-> {"connection", "connector"},
   connection_type_map_shadow   |-> {"connection", "connector", "type-map"},
   connection_scoped_endpoints  |-> {"stream", "database-endpoint"},
   connector_scoped_endpoints   |-> {"stream", "connection", "api-endpoint"}]

Checks == DOMAIN Reads

PackageChecks(unit) == {c \in Checks : Reads[c] \subseteq PackageKinds(unit)}

WorkspaceChecks == {c \in Checks : \A u \in Units : ~ Reads[c] \subseteq PackageKinds(u)}

(* A check raises when a package does not hold exactly one connector. *)
Raises(c, D) == c \in {"type_map_relation", "connector_endpoints"} /\ ~ OneConnector(D)

(* check.run over the documents of the kinds it reads. *)
RunCheck(c, D) ==
  CASE c = "type_map_relation"            -> _check_type_map_relation(D)
    [] c = "connector_endpoints"          -> _check_connector_endpoints(D)
    [] c = "api_endpoint_ids_unique"      -> _check_endpoint_ids_unique(D["api-endpoint"])
    [] c = "database_endpoint_ids_unique" -> _check_endpoint_ids_unique(D["database-endpoint"])
    [] c = "api_endpoint_filenames"       -> _check_endpoint_filenames(D["api-endpoint"])
    [] c = "database_endpoint_filenames"  -> _check_endpoint_filenames(D["database-endpoint"])
    [] c = "pipeline_id"                  -> _check_pipeline_id(D)
    [] c = "connection_version_conflicts" -> _check_connection_version_conflicts(D)
    [] c = "stream_endpoint_targets"      -> _check_stream_endpoint_targets(D)
    [] c = "stream_refs"                  -> _check_stream_refs(D)
    [] c = "stream_parent_pipeline"       -> _check_stream_parent_pipeline(D)
    [] c = "stream_connection_roles"      -> _check_stream_connection_roles(D)
    [] c = "pipeline_active_gate"         -> _check_pipeline_active_gate(D)
    [] c = "connections_present"          -> _check_connections_present(D)
    [] c = "connection_connector_refs"    -> _check_connection_connector_refs(D)
    [] c = "connection_type_map_shadow"   -> _check_connection_type_map_shadow(D)
    [] c = "connection_scoped_endpoints"  -> _check_connection_scoped_endpoints(D)
    [] c = "connector_scoped_endpoints"   -> _check_connector_scoped_endpoints(D)
=============================================================================
