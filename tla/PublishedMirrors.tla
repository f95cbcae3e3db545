-------------------------- MODULE PublishedMirrors --------------------------
(***************************************************************************)
(* Rules between sibling keys, graded twice: by a validator of the model   *)
(* and by the fragment of JSON Schema written beside it, or added by       *)
(* render_schemas.py, for consumers that have the published schema alone.  *)
(* The types of the single keys come of one annotation and are in Typed.   *)
(*                                                                         *)
(* A block is [kind, case, at]: case is what its selecting key says, at    *)
(* gives each other key "absent", "null", "empty" or a value. The model    *)
(* reads an absent key as null; JSON Schema tells the two apart.           *)
(***************************************************************************)
EXTENDS Naturals, Sequences, FiniteSets

Keys == [predicate  |-> {"eq", "in", "not_in", "present", "regex"},
         adbc       |-> {"dsn", "db_kwargs"},
         error_map  |-> {"key_attrs", "codes"},
         stage      |-> {"dedicated_schema"},
         bulk_load  |-> {"sqlalchemy", "adbc"},
         write_unit |-> {"rows", "bytes"},
         file_like  |-> {"post_auth_outputs", "required_for_activation"},
         type_map   |-> {"read", "write"},
         namespace  |-> {"catalog", "schema"},
         param      |-> {"style", "explode"},
         request    |-> {"path_params"},
         operations |-> {"read", "write"},
         write_mode |-> {"conflict_keys"},
         write      |-> {"idempotency", "batching", "body", "content_type"},
         filter     |-> {"value"},
         rule       |-> {"value"},
         constant   |-> {"value"},
         retry      |-> {"retry_delay_seconds"},
         schedule   |-> {"interval_minutes", "cron_expression"},
         pipeline   |-> {"streams"},
         run_status |-> {"error"},
         post_auth  |-> {"options_request", "discovery_request", "options_path", "label_path"},
         discovery  |-> {"entrypoint"},
         input      |-> {"secret"}]

Cases == [stage |-> {"dedicated", "target"}, param |-> {"container", "other"},
          request |-> {"templated", "plain"}, write_mode |-> {"upsert", "insert", "truncate_insert"},
          filter |-> {"is_null", "eq"}, rule |-> {"not_null", "range"},
          constant |-> {"Object", "List", "Json", "Utf8"}, retry |-> {"0", "3"},
          schedule |-> {"manual", "interval", "cron", "absent"},
          pipeline |-> {"active", "draft", "absent"},
          run_status |-> {"failed", "partial", "succeeded"},
          post_auth |-> {"user_selection", "auto_discovery"} \X
                        {"connection.selections", "connection.discovered", "secrets"},
          discovery |-> {"connector_plugin", "builtin"}, input |-> {"secrets", "connection.parameters"}]
CasesOf(kind) == IF kind \in DOMAIN Cases THEN Cases[kind] ELSE {"any"}

ValuesOf(kind, key) ==
    CASE kind = "constant" -> {"absent", "null", "object", "array", "scalar"}
      [] kind = "input" -> {"absent", "null", "true", "false"}
      [] key = "idempotency" -> {"absent", "null", "header", "body"}
      [] key = "body" -> {"absent", "null", "object", "text"}
      [] key = "content_type" -> {"absent", "null", "form", "json"}
      [] OTHER -> {"absent", "null", "empty", "good"}

\* What the annotation of a key alone refuses: an empty value, or a null.
NeverEmpty == [predicate |-> {"in", "not_in", "present", "regex"}, adbc |-> {"dsn"},
               error_map |-> {"key_attrs", "codes"}, stage |-> {"dedicated_schema"},
               bulk_load |-> {"sqlalchemy", "adbc"}, write_unit |-> {"rows", "bytes"},
               type_map |-> {"read", "write"}, namespace |-> {"catalog", "schema"},
               param |-> {"style", "explode"}, write_mode |-> {"conflict_keys"}, operations |-> {"write"}, write |-> {"batching"},
               rule |-> {"value"}, schedule |-> {"interval_minutes", "cron_expression"},
               run_status |-> {"error"}, post_auth |-> Keys.post_auth]
NeverNull == [file_like |-> Keys.file_like, pipeline |-> {"streams"}, run_status |-> {"error"}]
Of(table, kind) == IF kind \in DOMAIN table THEN table[kind] ELSE {}
Typed(b) ==
    /\ \A key \in Of(NeverEmpty, b.kind) : b.at[key] # "empty"
    /\ \A key \in Of(NeverNull, b.kind) : b.at[key] # "null"
    /\ b.kind = "constant" => b.at["value"] # "absent"

-----------------------------------------------------------------------------
(* The models. *)

Given(b, key) == b.at[key] \notin {"absent", "null"}
Truthy(b, key) == Given(b, key) /\ b.at[key] # "empty"
GivenKeys(b) == {key \in Keys[b.kind] : Given(b, key)}

\* connector.py
ExactlyOneOperator(b) == Cardinality(GivenKeys(b)) = 1
RequireDsnOrKwargs(b) == Given(b, "dsn") \/ Truthy(b, "db_kwargs")
KeyAttrsAndCodesTogether(b) == Given(b, "key_attrs") = Given(b, "codes")
DedicatedSchemaMatchesScope(b) == Given(b, "dedicated_schema") = (b.case = "dedicated")
NullIsNotAMechanism(b) == \A family \in Keys.bulk_load : b.at[family] # "null"
AtLeastOneBound(b) == GivenKeys(b) # {}
RejectPostAuthContract(b) == \A key \in Keys.file_like : ~Truthy(b, key)
ModeConsistency(b) ==
    IF b.case[1] = "user_selection"
    THEN Given(b, "options_request") /\ ~Given(b, "discovery_request") /\ b.case[2] = "connection.selections"
    ELSE GivenKeys(b) = {"discovery_request"} /\ b.case[2] # "connection.selections"
EntrypointMatchesType(b) ==
    IF b.case = "builtin" THEN ~Given(b, "entrypoint") ELSE Truthy(b, "entrypoint")
SecretMatchesStorage(b) == (b.at["secret"] = "true") = (b.case = "secrets")

\* type_map.py, endpoints.py
AtLeastOneDirection(b) == GivenKeys(b) # {}
RejectExplicitNullNamespaces(b) == \A key \in Keys.namespace : b.at[key] # "null"
ContainerParam(b) == b.case = "container" => GivenKeys(b) = {"style", "explode"}
PathParamsPresent(b) == IF b.case = "templated" THEN Truthy(b, "path_params")
                                                ELSE ~Given(b, "path_params")
AtLeastOneOperation(b) == Given(b, "read") \/ Truthy(b, "write")
ConflictKeysByMode(b) == Truthy(b, "conflict_keys") = (b.case = "upsert")
OneKeyPerRecord(b) == Given(b, "idempotency") =>
    ~Given(b, "batching") /\ (b.at["idempotency"] = "body" => b.at["body"] = "object")
FormIsOneRecord(b) == ~(Given(b, "batching") /\ b.at["content_type"] = "form")

\* stream.py, shared/common.py, pipelines/config.py, pipelines/data_sync.py
ValuePresence(b) == b.case = "is_null" => ~Given(b, "value")
ValueForRule(b) == Given(b, "value") = (b.case = "range")
ConstantForms == [Object |-> {"object"}, List |-> {"array"}, Json |-> {"object", "array"},
                  Utf8 |-> {"scalar"}]
ConstantKind(b) == Given(b, "value") => b.at["value"] \in ConstantForms[b.case]
RetryFields(b) == b.case = "0" => ~Truthy(b, "retry_delay_seconds")     \* empty is 0
ScheduleFields(b) ==
    GivenKeys(b) = (CASE b.case = "interval" -> {"interval_minutes"}
                      [] b.case = "cron" -> {"cron_expression"}
                      [] OTHER -> {})                                   \* absent is manual
ActiveRequiresStreams(b) == b.case = "active" => Truthy(b, "streams")
ErrorMatchesStatus(b) == /\ Given(b, "error") => b.case \in {"failed", "partial"}
                         /\ b.case = "failed" => Given(b, "error")

-----------------------------------------------------------------------------
(* The published fragments. "required" sees the presence of a key; a clause *)
(* under "properties" holds of a key that is not there.                     *)

Present(b, key) == b.at[key] # "absent"
IsNull(b, key) == b.at[key] \in {"absent", "null"}
Usable(b, key) == Present(b, key) /\ b.at[key] # "null"

\* Beside the models.
PREDICATE_EXACTLY_ONE_OPERATOR(b) == Cardinality({key \in Keys.predicate : Usable(b, key)}) = 1
AdbcSchema(b) == Usable(b, "dsn") \/ (Usable(b, "db_kwargs") /\ b.at["db_kwargs"] # "empty")
ErrorMapSchema(b) == /\ Usable(b, "key_attrs") => Usable(b, "codes")
                     /\ Usable(b, "codes") => Usable(b, "key_attrs")
StageSchema(b) == IF b.case = "dedicated" THEN b.at["dedicated_schema"] = "good"
                                          ELSE IsNull(b, "dedicated_schema")
EnumBranchOnly(b) == \A family \in Keys.bulk_load : b.at[family] # "null"
WriteUnitSchema(b) == \E key \in Keys.write_unit : Usable(b, key)
FileLikeSchema(b) == \A key \in Keys.file_like : b.at[key] # "good"
TypeMapSchema(b) == \E key \in Keys.type_map : Usable(b, key)
PARAM_SCHEMA_RULES(b) == b.case = "container" => Usable(b, "style") /\ Usable(b, "explode")
REQUEST_SCHEMA_RULES(b) == IF b.case = "templated" THEN Usable(b, "path_params")
                                                   ELSE IsNull(b, "path_params")
OperationsSchema(b) == Present(b, "read") \/ Present(b, "write")
WriteSchema(b) ==
    /\ IsNull(b, "idempotency") \/ IsNull(b, "batching")
    /\ b.at["idempotency"] # "body" \/ b.at["body"] = "object"
    /\ IsNull(b, "batching") \/ b.at["content_type"] # "form"
FILTER_CONDITIONAL_RULES(b) == Present(b, "value") = (b.case # "is_null")
CONSTANT_VALUE_SCHEMA_RULES(b) == b.at["value"] \in ConstantForms[b.case] \cup {"null"}
VALIDATION_RULE_CONDITIONAL_RULES(b) == IF b.case = "range" THEN Usable(b, "value") ELSE IsNull(b, "value")
RETRY_CONDITIONAL_RULES(b) == b.case = "0" => b.at["retry_delay_seconds"] # "good"
SCHEDULE_CONDITIONAL_RULES(b) ==
    /\ b.case = "manual" => ~Present(b, "interval_minutes") /\ ~Present(b, "cron_expression")
    /\ b.case = "interval" => Present(b, "interval_minutes") /\ ~Present(b, "cron_expression")
    /\ b.case = "cron" => Present(b, "cron_expression") /\ ~Present(b, "interval_minutes")
ACTIVE_REQUIRES_STREAMS_RULE(b) == b.case = "active" => b.at["streams"] = "good"
RunStatusSchema(b) == /\ b.case = "failed" => Present(b, "error")
                      /\ Present(b, "error") => b.case \in {"failed", "partial"}

\* Added by render_schemas.py.
NormalizeNamespaces(b) == \A key \in Keys.namespace : b.at[key] # "null"
\* A mutant: the modes are listed by hand, and one added since is not among them.
EncodeConflictKeys_ByHand(b) == CASE b.case = "upsert" -> b.at["conflict_keys"] = "good"
                                  [] b.case = "insert" -> IsNull(b, "conflict_keys")
                                  [] OTHER -> TRUE
EncodeConflictKeys(b) == IF b.case = "upsert" THEN b.at["conflict_keys"] = "good"
                                              ELSE IsNull(b, "conflict_keys")
PostAuthRule(b) ==
    IF b.case[1] = "user_selection"
    THEN /\ Present(b, "options_request") /\ ~Present(b, "discovery_request")
         /\ b.case[2] = "connection.selections"
    ELSE /\ Present(b, "discovery_request") /\ b.case[2] # "connection.selections"
         /\ \A key \in Keys.post_auth \ {"discovery_request"} : ~Present(b, key)
DiscoveryRule(b) == Present(b, "entrypoint") = (b.case = "connector_plugin")
InputRule(b) == IF b.case = "secrets" THEN b.at["secret"] = "true"
                                      ELSE b.at["secret"] \in {"absent", "false"}

-----------------------------------------------------------------------------
(* Properties. *)

\* What the model and the published schema make of a block.
Verdicts(b) ==
    LET both(model, published) == [model |-> Typed(b) /\ model, published |-> Typed(b) /\ published]
    IN CASE b.kind = "predicate" -> both(ExactlyOneOperator(b), PREDICATE_EXACTLY_ONE_OPERATOR(b))
         [] b.kind = "adbc" -> both(RequireDsnOrKwargs(b), AdbcSchema(b))
         [] b.kind = "error_map" -> both(KeyAttrsAndCodesTogether(b), ErrorMapSchema(b))
         [] b.kind = "stage" -> both(DedicatedSchemaMatchesScope(b), StageSchema(b))
         [] b.kind = "bulk_load" -> both(NullIsNotAMechanism(b), EnumBranchOnly(b))
         [] b.kind = "write_unit" -> both(AtLeastOneBound(b), WriteUnitSchema(b))
         [] b.kind = "file_like" -> both(RejectPostAuthContract(b), FileLikeSchema(b))
         [] b.kind = "type_map" -> both(AtLeastOneDirection(b), TypeMapSchema(b))
         [] b.kind = "namespace" -> both(RejectExplicitNullNamespaces(b), NormalizeNamespaces(b))
         [] b.kind = "param" -> both(ContainerParam(b), PARAM_SCHEMA_RULES(b))
         [] b.kind = "request" -> both(PathParamsPresent(b), REQUEST_SCHEMA_RULES(b))
         [] b.kind = "operations" -> both(AtLeastOneOperation(b), OperationsSchema(b))
         [] b.kind = "write_mode" -> both(ConflictKeysByMode(b), EncodeConflictKeys(b))
         [] b.kind = "write" -> both(OneKeyPerRecord(b) /\ FormIsOneRecord(b), WriteSchema(b))
         [] b.kind = "filter" -> both(ValuePresence(b), FILTER_CONDITIONAL_RULES(b))
         [] b.kind = "rule" -> both(ValueForRule(b), VALIDATION_RULE_CONDITIONAL_RULES(b))
         [] b.kind = "constant" -> both(ConstantKind(b), CONSTANT_VALUE_SCHEMA_RULES(b))
         [] b.kind = "retry" -> both(RetryFields(b), RETRY_CONDITIONAL_RULES(b))
         [] b.kind = "schedule" -> both(ScheduleFields(b), SCHEDULE_CONDITIONAL_RULES(b))
         [] b.kind = "pipeline" -> both(ActiveRequiresStreams(b), ACTIVE_REQUIRES_STREAMS_RULE(b))
         [] b.kind = "run_status" -> both(ErrorMatchesStatus(b), RunStatusSchema(b))
         [] b.kind = "post_auth" -> both(ModeConsistency(b), PostAuthRule(b))
         [] b.kind = "discovery" -> both(EntrypointMatchesType(b), DiscoveryRule(b))
         [] b.kind = "input" -> both(SecretMatchesStorage(b), InputRule(b))

\* The rules render_schemas.py keeps; these and a few of the models' own look at
\* the presence of a key where the validator looks at its value.
Rendered == {"post_auth", "discovery", "input"}
ByPresence == Rendered \cup {"operations", "filter", "schedule"}
Plain(b) == \A key \in Keys[b.kind] : b.at[key] \notin {"null", "empty"}

\* The schema leaves to the model which params a path has, and what a schedule
\* without a type is; a filter's value it requires though the model does not.
Wider(b) == b.kind = "request" \/ (b.kind = "schedule" /\ b.case = "absent")
Stricter(b) == b.kind = "filter"

\* A validator and its mirror accept the same blocks, a null told from an absent
\* key or not: neither an author with the schema alone nor one with the package
\* alone writes a document the other refuses.
MirrorsAgree(b) ==
    b.kind \notin ByPresence \/ Plain(b) =>
        /\ Verdicts(b).model /\ ~Stricter(b) => Verdicts(b).published
        /\ Verdicts(b).published /\ ~Wider(b) => Verdicts(b).model

\* An external consumer rejects the payloads the validators reject.
RenderedRulesAgree(b) == b.kind \in Rendered /\ Verdicts(b).published => Verdicts(b).model
=============================================================================
