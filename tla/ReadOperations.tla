--------------------------- MODULE ReadOperations ---------------------------
(***************************************************************************)
(* The wiring of a read operation (contracts/endpoints.py, ReadOperation): *)
(* what pagination, replication and stream filters put into its params,    *)
(* and what they read of its response.                                     *)
(*                                                                         *)
(* An operation is [request, params, pagination, replication, filters,     *)
(* metadata, response]. pagination is [type, param, initial, limit,        *)
(* limit_default, reads], a name being NoParam where absent and reads the  *)
(* node of everything the block reads a page by; replication is [methods,  *)
(* mappings], a mapping being [starts, ends]: sets of <<param, operator>>; *)
(* filters maps <<field, operator>> to [param, template], template NoText  *)
(* where the value lands as it is. metadata maps its keys to nodes;        *)
(* response is [fields, schema]: the record paths and the body paths that  *)
(* resolve.                                                                *)
(***************************************************************************)
EXTENDS RequestWiring

NoParam == "none"
NoText == [k |-> "null"]
Strategies == {"offset", "page", "cursor", "link", "keyset"}
LowerBounds == {"gt", "gte"}
UpperBounds == {"lt", "lte"}

-----------------------------------------------------------------------------
(* The three blocks. *)

\* Every strategy but link drives a param of its own; any may drive a limit.
PaginationNames(p) ==
    (CASE p.type \in Strategies \ {"link"} -> {p.param} [] OTHER -> {})
    \cup (IF p.type \in Strategies /\ p.limit # NoParam THEN {p.limit} ELSE {})

\* Naming a param gives it nothing: an opaque cursor has no first value.
PaginationFills(p) ==
    {name \in PaginationNames(p) :
        \/ name = p.limit /\ DeclaresAValue(p.limit_default)
        \/ /\ name = p.param /\ p.type \in {"offset", "page", "keyset"}
           /\ DeclaresAValue(p.initial)}

ReplicationNames(r) == {b[1] : b \in UNION {m.starts \cup m.ends : m \in r.mappings}}
ReplicationFills(r) == IF "incremental" \in r.methods THEN ReplicationNames(r) ELSE {}

\* A mapping is one lower bound, or a window of a lower and an upper one.
ReplicationOk(r) ==
    \A m \in r.mappings :
        /\ Cardinality(m.starts) = 1 /\ Cardinality(m.ends) <= 1
        /\ \A b \in m.starts : b[2] \in LowerBounds
        /\ \A b \in m.ends : b[2] \in UpperBounds

\* A mutant: a block may drive any declared param.
Controls_Declared(block, names, params) == names \subseteq DOMAIN params
Controls(block, names, params) ==
    \A name \in names : name \in DOMAIN params /\ params[name].controlled = block

FiltersLand(filters) == {filters[e].param : e \in DOMAIN filters}

OwnValue(entry) == <<"stream", "filters", entry[1], "value">>
FiltersOk(filters, params, fields) ==
    /\ \A e \in DOMAIN filters :
         LET landing == filters[e]
         IN /\ landing.param \in DOMAIN params
            /\ params[landing.param].controlled = NoParam
            /\ e[1] \in fields
            /\ landing.template # NoText =>
                 /\ OwnValue(e) \in landing.template.holes
                 /\ \A t \in landing.template.holes :
                      t # OwnValue(e) => ~(t[1] = "stream" /\ t[2] = "filters")
    /\ \A e, f \in DOMAIN filters : filters[e].param = filters[f].param => e = f

-----------------------------------------------------------------------------
(* The validators of the parts, and _wiring. *)

PartsOk(op) ==
    /\ PathOk(op.request) /\ QueryOk(op.request)
    /\ \A name \in DOMAIN op.params : ParamOk(op.params[name])
    /\ op.request.method = "GET" => op.request.body.k = "null"
    /\ ReplicationOk(op.replication)
    /\ DOMAIN op.metadata \cap ReservedResponseScopes = {}

ResponseSitesOk(op) ==
    LET metadata == DOMAIN op.metadata
    IN /\ ResponseSiteOk(op.pagination.reads, metadata, op.response.schema)
       /\ \A key \in metadata : ResponseSiteOk(op.metadata[key], metadata, op.response.schema)
       /\ RequestSitesOk(op.request, op.params)
       /\ \A e \in DOMAIN op.filters :
            LET t == op.filters[e].template
            IN t # NoText => RequestSiteOk(Dict([template |-> t]))

Wiring(op) ==
    /\ ParamWiring(op.request, op.params, FALSE)
    /\ BindingUniqueness(op.request, op.params)
    /\ op.request.method = "GET" =>
         \A name \in DOMAIN op.params : op.params[name].loc # "body"
    /\ Controls("pagination", PaginationNames(op.pagination), op.params)
    /\ Controls("replication", ReplicationNames(op.replication), op.params)
    /\ RequiredHaveASource(op.params, FALSE,
           PaginationFills(op.pagination) \cup ReplicationFills(op.replication),
           FiltersLand(op.filters))
    /\ FiltersOk(op.filters, op.params, op.response.fields)
    /\ op.pagination.type = "keyset" => op.pagination.order_by \in op.response.fields
    /\ ResponseSitesOk(op)

ReadAccepted(op) == PartsOk(op) /\ Wiring(op)

-----------------------------------------------------------------------------
(* Properties: what a run of an accepted read can rely on. A run filters by   *)
(* some of the entries, and is incremental or not, with a stored cursor or    *)
(* without one.                                                               *)

Runs(op) == [filtered : SUBSET DOMAIN op.filters,
             incremental : {x \in BOOLEAN : x => "incremental" \in op.replication.methods},
             stored : BOOLEAN]

\* Who puts a value into a param on the run's first request.
Drivers(op, run, name) ==
    {<<"filter", e>> : e \in {x \in run.filtered : op.filters[x].param = name}}
    \cup {<<"page", name>> : x \in {n \in PaginationFills(op.pagination) : n = name}}
    \cup {<<"cursor", name>> : x \in {n \in ReplicationNames(op.replication) :
                                        n = name /\ run.incremental /\ run.stored}}

\* In every run each param has at most one driver, and a required one has a
\* value in some run; where no filter or cursor has to come, in every run. It
\* stands in one place of the request, its declared one.
RequiredParamsArrive(op) ==
    ReadAccepted(op) =>
      \A name \in DOMAIN op.params :
        LET param == op.params[name]
            Given(run) == DeclaresAValue(param.default) \/ Drivers(op, run, name) # {}
            bound == {s \in Slots : BindingsOf(op.request[s], name) # {}}
        IN /\ \A run \in Runs(op) : Cardinality(Drivers(op, run, name)) <= 1
           /\ bound = {s \in Slots : LocationOf[s] = param.loc}
           /\ param.required => \E run \in Runs(op) : Given(run)
           /\ /\ param.required
              /\ name \notin FiltersLand(op.filters) \cup ReplicationNames(op.replication)
              => \A run \in Runs(op) : Given(run)

\* What the resolver looks up to build a request exists by then, the filter
\* value a template renders being that of its own entry; and what it reads a
\* page by is something the response has.
ReadsWhatExists(op) ==
    ReadAccepted(op) =>
      /\ \A s \in Slots : \A t \in LookedUp(op.request[s]) : HasKnownScope(t) /\ ~OfResponse(t)
      /\ \A name \in DOMAIN op.params : \A t \in LookedUp(op.params[name].default) : ~OfResponse(t)
      /\ \A e \in DOMAIN op.filters : op.filters[e].template # NoText =>
            /\ OwnValue(e) \in op.filters[e].template.holes
            /\ \A t \in op.filters[e].template.holes : ~OfResponse(t)
      /\ \A n \in {op.pagination.reads} \cup {op.metadata[key] : key \in DOMAIN op.metadata} :
            \A t \in LookedUp(n) : OfResponse(t) =>
                \/ /\ Len(t) > 1 /\ t[2] = "body"
                   /\ SubSeq(t, 3, Len(t)) \in op.response.schema.typed
                \/ /\ Len(t) > 1 /\ t[2] \in ReservedResponseScopes \ {"body"}
                   /\ t[2] = "metadata" /\ Len(t) > 2 => t[3] \in DOMAIN op.metadata
=============================================================================
