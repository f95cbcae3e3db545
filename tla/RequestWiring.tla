--------------------------- MODULE RequestWiring ---------------------------
(***************************************************************************)
(* What every API operation checks of its request and its params           *)
(* (contracts/endpoints.py): the path and its placeholders, the params     *)
(* themselves, the bindings that route a param or a record field to a      *)
(* slot, and the sweep over every slot an expression may stand in.         *)
(*                                                                         *)
(* A request is [method, path, path_params, headers, query, body]; the     *)
(* last four are nodes of ValueExpressions, Null where absent. A path is   *)
(* [sigil, stray, holes]: whether it carries a template or a brace that    *)
(* delimits nothing, and its placeholders in order. params maps a name to  *)
(* [loc, type, style, required, default, controlled, low, high].           *)
(***************************************************************************)
EXTENDS ValueExpressions

NoStyle == "none"
Unbounded == 99
Malformed == "9name"      \* a placeholder the name pattern refuses
Slots == {"path_params", "headers", "query", "body"}
LocationOf == [path_params |-> "path", headers |-> "header", query |-> "query",
               body |-> "body"]

-----------------------------------------------------------------------------
(* The request and the params, each by itself. *)

Repeated(s) == \E i, j \in DOMAIN s : i < j /\ s[i] = s[j]      \* find_duplicates

PathOk(r) ==
    LET holes == ToSet(r.path.holes)
    IN /\ ~r.path.sigil /\ ~r.path.stray
       /\ Malformed \notin holes /\ ~Repeated(r.path.holes)
       /\ r.path_params.k = "null" <=> holes = {}
       /\ r.path_params.k = "dict" => DOMAIN r.path_params.at = holes

QueryOk(r) ==       \* a bare null has no query-string spelling
    r.query.k = "dict" => \A key \in DOMAIN r.query.at : r.query.at[key].k # "null"

\* What each style serializes; spaces and pipes only lists, deepObject objects.
Serializes == [form |-> {"array", "object"}, pipe |-> {"array"}, deep |-> {"object"}]

ParamOk(p) ==
    /\ SingletonPayloads(p.default, "from_input") = {}
    /\ p.loc = "query" /\ p.type # "scalar" =>
         /\ p.style \in DOMAIN Serializes
         /\ p.type \in Serializes[p.style]
    /\ p.loc = "query" => p.style \in DOMAIN Serializes \cup {NoStyle}
    /\ p.low <= p.high /\ p.low # Unbounded

-----------------------------------------------------------------------------
(* The bindings. *)

\* Where a slot binds a param.
BindingsOf(n, name) ==
    {p[1] : p \in {x \in Walked("places", <<<<>>, n>>) : /\ IsSingleton(x[2], "from_param")
                                                        /\ x[2].at["from_param"].k = "str"
                                                        /\ x[2].at["from_param"].path = <<name>>}}
BoundNames(n) == {Head(path) : path \in SingletonValues(n, "from_param")}
BoundInputs(n) == SingletonValues(n, "from_input")

SlotsShaped(r) ==
    \A s \in Slots : /\ EndpointShapeOk(r[s])
                     /\ \A p \in SingletonPayloads(r[s], "from_param") : p.k = "str"

\* A body is read whole, the other slots entry by entry.
Entries(r, s) == IF s = "body" THEN {r[s]} ELSE Children(r[s])

\* A binding names a declared param whose location is the slot it sits in.
NamesLand(r, params) ==
    \A s \in Slots : \A n \in Entries(r, s) : \A name \in BoundNames(n) :
        name \in DOMAIN params /\ params[name].loc = LocationOf[s]

RecordField(path) == Len(path) > 1 /\ path[1] = "record"
PathBinding(n, params, write) ==
    /\ \A e \in ExpressionNodes(n) :      \* no template text
         e[1] = "template" /\ e[2].k = "str" => e[2].holes = {} /\ ~e[2].open
    /\ FunctionNames(n) \cap {"url_encode", "base64_encode"} = {}
    /\ write => \A path \in BoundInputs(n) : RecordField(path)
    /\ BoundNames(n) # {} \/ (write /\ BoundInputs(n) # {})
    /\ write => \A name \in BoundNames(n) \cap DOMAIN params : params[name].default.k # "null"

\* from_input reads the record a write sends, so it stands in a write's body and
\* path_params only.
InputsStand(r, write) ==
    /\ \A s \in {"headers", "query"} \cup (IF write THEN {} ELSE {"path_params", "body"}) :
         SingletonPayloads(r[s], "from_input") = {}
    /\ \A path \in BoundInputs(r.body) : path \in {<<"record">>, <<"records">>} \/ RecordField(path)

ParamWiring(r, params, write) ==
    /\ SlotsShaped(r)
    /\ NamesLand(r, params)
    /\ InputsStand(r, write)
    /\ r.path_params.k = "dict" =>
         \A hole \in DOMAIN r.path_params.at : PathBinding(r.path_params.at[hole], params, write)
    /\ \A s \in Slots \ {"path_params"} : \A n \in Entries(r, s) :
         ~HasDisallowedDynamicRefs(n) /\ UnqualifiedTokens(n) = {}

\* Each declared param is bound once, over all the slots.
BindingUniqueness(r, params) ==
    \A name \in DOMAIN params :
        Cardinality(UNION {{<<s, at>> : at \in BindingsOf(r[s], name)} : s \in Slots}) = 1

-----------------------------------------------------------------------------
(* Sources, and the sweep. *)

\* Whether what the document put in a slot can arrive as a value.
DeclaresAValue(n) ==
    CASE n.k = "null" -> FALSE
      [] n.k = "dict" -> /\ Cardinality(DOMAIN n.at \cap ValueKeys) = 1
                         /\ Has(n, "literal") => n.at["literal"].k # "null"
      [] OTHER -> TRUE

\* A write's only source is the default; a read's blocks and filters are others.
RequiredHaveASource(params, write, controlled, landed) ==
    \A name \in DOMAIN params :
        params[name].required =>
            \/ DeclaresAValue(params[name].default)
            \/ ~write /\ name \in controlled \cup landed

ReservedResponseScopes == {"body", "headers", "status", "record_count", "records", "metadata"}
OfResponse(token) == token[1] = "response"

\* A site built before the response exists reads nothing of it. Another reads a
\* real sub-scope, a declared metadata key, or, where there is a schema, a body
\* path that resolves in it to a typed node: schema is [known, typed].
SiteOk(n) == SlotOk(n) /\ UnqualifiedTokens(n) = {}
RequestSiteOk(n) == SiteOk(n) /\ \A t \in Tokens(n) : ~OfResponse(t)
ResponseSiteOk(n, metadata, schema) ==
    /\ SiteOk(n)
    /\ \A t \in Tokens(n) : OfResponse(t) =>
         /\ Len(t) > 1 /\ t[2] \in ReservedResponseScopes
         /\ Len(t) > 2 /\ t[2] = "metadata" => t[3] \in metadata
         /\ t[2] = "body" /\ schema.known => SubSeq(t, 3, Len(t)) \in schema.typed

RequestSitesOk(r, params) ==
    /\ \A s \in Slots : RequestSiteOk(r[s])
    /\ \A name \in DOMAIN params : RequestSiteOk(params[name].default)
=============================================================================
