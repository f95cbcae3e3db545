-------------------------- MODULE WriteOperations --------------------------
(***************************************************************************)
(* The wiring of a write mode (contracts/endpoints.py, WriteOperation and  *)
(* Operations): what of the record a request carries, the idempotency key  *)
(* the engine adds, and what tells that a write succeeded.                 *)
(*                                                                         *)
(* A write is [mode, request, params, input, conflict_keys, batching,      *)
(* idempotency, content_type, response, metadata], response being the node *)
(* of what the write response reads. idempotency is [loc, name], loc NoKey *)
(* where there is none. input is the record shape after composition:       *)
(* [types, known, fields], a shape per field, known where it declares a    *)
(* properties map.                                                         *)
(***************************************************************************)
EXTENDS RequestWiring

NoKey == "none"
Known(types, fields) == [types |-> types, known |-> TRUE, fields |-> fields]
Unknown(types) == [types |-> types, known |-> FALSE, fields |-> <<>>]
WriteScopes == {"body", "headers", "status", "metadata"}     \* of a write's response

-----------------------------------------------------------------------------
(* Paths into the record, on its composed shape. *)

TopLevel(shape) == DOMAIN shape.fields

\* The shape each step of a path leads to, Unknown({}) where the document does
\* not say.
ShapesAlong(shape, path) ==
    LET along[k \in 0..Len(path)] ==
            IF k = 0 THEN shape
            ELSE LET parent == along[k - 1]
                 IN IF parent.known /\ path[k] \in TopLevel(parent)
                    THEN parent.fields[path[k]] ELSE Unknown({})
    IN along
ShapeAt(shape, path) == ShapesAlong(shape, path)[Len(path)]

\* Whether the declared shape provably lacks a field: a parent without a
\* properties map may have any.
Undeclared(shape, path) ==
    \E k \in 1..Len(path) :
        LET parent == ShapesAlong(shape, path)[k - 1]
        IN parent.known /\ path[k] \notin TopLevel(parent)

FieldPath(input) == IF RecordField(input) THEN Tail(input) ELSE <<>>

-----------------------------------------------------------------------------
(* The parts and _wiring. *)

\* header_name_key: header names are one under another case.
HeaderKey(name) == IF name = "IDEM" THEN "idem" ELSE name
HeaderKeys(w) == IF w.request.headers.k = "dict"
                 THEN {HeaderKey(name) : name \in DOMAIN w.request.headers.at} ELSE {}

IdempotencyOk(w) ==
    LET body == w.request.body
        key == w.idempotency.name
        shape == IF IsSingleton(body, "from_input") /\ body.at["from_input"].k = "str"
                    /\ Head(body.at["from_input"].path) = "record"
                 THEN ShapeAt(w.input, Tail(body.at["from_input"].path)) ELSE Unknown({})
    IN w.idempotency.loc # NoKey =>
         /\ ~w.batching
         /\ w.idempotency.loc = "header" => HeaderKey(key) \notin HeaderKeys(w)
         /\ w.idempotency.loc = "body" =>
              /\ body.k = "dict"
              /\ IF IsSingleton(body, "from_input")
                 THEN /\ shape.types = {} \/ "object" \in shape.types
                      /\ shape.known => key \notin TopLevel(shape)
                 ELSE key \notin DOMAIN body.at

\* The write sweep: the request, the defaults, and the response block, which
\* reads only what a write's response carries.
WriteSitesOk(w) ==
    /\ RequestSitesOk(w.request, w.params)
    /\ ResponseSiteOk(w.response, w.metadata, [known |-> FALSE, typed |-> {}])
    /\ \A t \in Tokens(w.response) : OfResponse(t) /\ Len(t) > 1 => t[2] \in WriteScopes
    /\ w.metadata \cap ReservedResponseScopes = {}

WriteWiring(w) ==
    LET inBody == BoundInputs(w.request.body)
        inPath == BoundInputs(w.request.path_params)
    IN /\ ParamWiring(w.request, w.params, TRUE)
       /\ BindingUniqueness(w.request, w.params)
       /\ RequiredHaveASource(w.params, TRUE, {}, {})
       /\ WriteSitesOk(w)
       /\ ~(inPath # {} /\ w.batching)
       /\ ~(w.batching /\ w.content_type = "form")
       /\ w.input.known => w.conflict_keys \subseteq TopLevel(w.input)
       /\ IdempotencyOk(w)
       /\ inBody # {}
       /\ \A path \in inBody : IF w.batching THEN Head(path) # "record"
                               ELSE path # <<"records">>
       /\ \A path \in inBody \cup inPath : ~Undeclared(w.input, FieldPath(path))

\* Operations: a conflict target on an upsert and on no other mode.
ModeOk(w) == w.mode = "upsert" <=> w.conflict_keys # {}

WriteAccepted(w) ==
    /\ PathOk(w.request) /\ QueryOk(w.request)
    /\ \A name \in DOMAIN w.params : ParamOk(w.params[name])
    /\ WriteWiring(w) /\ ModeOk(w)

-----------------------------------------------------------------------------
(* Properties: what is sent of a batch. A record of the declared shape has a  *)
(* value at each declared path, and at any path below an undeclared shape.    *)

\* What the engine puts for an input path, reading one record or the batch.
Substituted(w, path) ==
    CASE path = <<"records">> -> "batch"
      [] path = <<"record">> -> "record"
      [] OTHER -> IF Undeclared(w.input, Tail(path)) THEN "nothing" ELSE "field"

SentInputs(w) == {Substituted(w, path) : path \in BoundInputs(w.request.body)}

\* The top-level names of the body the engine adds its key to.
BodyNames(w) ==
    LET body == w.request.body
    IN IF IsSingleton(body, "from_input")
       THEN TopLevel(ShapeAt(w.input, Tail(body.at["from_input"].path)))
       ELSE DOMAIN body.at

\* Every record is sent, as often as the mode says: a batch as a batch, a single
\* record or declared fields of it, each path segment one field of one record, a
\* key the document does not also write, and each param with a value.
EachRecordIsSent(w) ==
    WriteAccepted(w) =>
      /\ IF w.batching THEN SentInputs(w) = {"batch"}
         ELSE SentInputs(w) # {} /\ SentInputs(w) \subseteq {"record", "field"}
      /\ w.request.path_params.k = "dict" =>
           \A hole \in DOMAIN w.request.path_params.at :
             LET n == w.request.path_params.at[hole]
             IN /\ BoundInputs(n) # {} => /\ ~w.batching
                                          /\ \A path \in BoundInputs(n) : Substituted(w, path) = "field"
                /\ \A name \in BoundNames(n) : w.params[name].default # Null
      /\ w.idempotency.loc = "header" => HeaderKey(w.idempotency.name) \notin HeaderKeys(w)
      /\ w.idempotency.loc = "body" => w.idempotency.name \notin BodyNames(w)
      /\ w.idempotency.loc # NoKey => SentInputs(w) \cap {"batch"} = {}
      /\ w.input.known => \A key \in w.conflict_keys : key \in TopLevel(w.input)

\* A path segment whose binding names a param has a value for it, whatever else
\* the param declares: a write has no other source.
HolesCanFill(w) ==
    WriteAccepted(w) /\ w.request.path_params.k = "dict" =>
        \A hole \in DOMAIN w.request.path_params.at :
            \A name \in BoundNames(w.request.path_params.at[hole]) :
                DeclaresAValue(w.params[name].default)

\* No write is told a success by something its response never has, nor builds its
\* request from a response.
SuccessIsReadable(w) ==
    WriteAccepted(w) =>
      /\ \A t \in LookedUp(w.response) : OfResponse(t) =>
            /\ Len(t) > 1 /\ t[2] \in WriteScopes
            /\ t[2] = "metadata" /\ Len(t) > 2 => t[3] \in w.metadata
      /\ \A s \in Slots : \A t \in LookedUp(w.request[s]) : ~OfResponse(t) /\ HasKnownScope(t)
=============================================================================
