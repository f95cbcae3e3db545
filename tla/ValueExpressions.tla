-------------------------- MODULE ValueExpressions --------------------------
(***************************************************************************)
(* The value-expression grammar every document shares                      *)
(* (contracts/value_expression.py): the shape check, the walk the contract *)
(* models read expressions with, and the resolver that runs them; with the *)
(* walkers endpoints.py keeps beside them.                                 *)
(*                                                                         *)
(* A node is JSON: a string, a scalar, null, a list or a dict. A string is *)
(* what its two readers see: the dotted path a ref names, the placeholders *)
(* a template interpolates, and whether it opens one it never closes. A    *)
(* path or placeholder is a sequence of segments.                          *)
(***************************************************************************)
EXTENDS Naturals, Sequences, FiniteSets, SequencesExt

CONSTANT Deepest       \* dicts and lists around the innermost node of a document

ASSUME DeepestAssumption == Deepest \in Nat

Str(path, holes, open) == [k |-> "str", path |-> path, holes |-> holes, open |-> open]
Word(s) == Str(<<s>>, {}, FALSE)          \* text that interpolates nothing
Scalar == [k |-> "scalar"]
Null == [k |-> "null"]
ListOf(items) == [k |-> "list", items |-> items]
Dict(at) == [k |-> "dict", at |-> at]

Has(n, key) == n.k = "dict" /\ key \in DOMAIN n.at
\* Mapping.get: null where the key is absent.
Get(n, key) == IF Has(n, key) THEN n.at[key] ELSE Null
Children(n) == CASE n.k = "dict" -> {n.at[key] : key \in DOMAIN n.at}
                 [] n.k = "list" -> ToSet(n.items)
                 [] OTHER -> {}
Extension(key) == key \in {"x-a"}

ValueKeys == {"template", "function", "literal", "ref"}
BindingKeys == {"from_param", "from_input"}
FunctionFields == {"function", "input", "map", "safe"}
ResolutionScopes == {"connector", "connection", "secrets", "auth", "stream",
                     "state", "runtime", "request", "response"}
HasKnownScope(token) == Head(token) \in ResolutionScopes

IsExpression(n) == \E key \in ValueKeys : Has(n, key)
IsSingleton(n, key) == Has(n, key) /\ \A other \in DOMAIN n.at : other = key \/ Extension(other)
\* What a node is resolved as: the first key the resolver honours, or the kind it has.
Form(n) == IF Has(n, "template") THEN "template"
           ELSE IF Has(n, "function") THEN "function"
           ELSE IF Has(n, "literal") THEN "literal"
           ELSE IF Has(n, "ref") THEN "ref" ELSE n.k

-----------------------------------------------------------------------------
(* The walks: each reads a node and goes on to some of its children.        *)

\* A connector's expressions have four keys, an endpoint's the two bindings too.
KeysOf(walk) == IF walk = "endpoint" THEN ValueKeys \cup BindingKeys ELSE ValueKeys
Present(walk, n) == IF n.k = "dict" THEN DOMAIN n.at \cap KeysOf(walk) ELSE {}

\* basic_auth reads two inputs; the others one.
FunctionInputs(n) ==
    LET input == Get(n, "input")
    IN IF n.at["function"].path[1] = "basic_auth"
       THEN {Get(input, "username"), Get(input, "password")}
       ELSE {input}

\* A place is <<at, n>>: a node and the steps that lead to it from its slot.
PlacesInside(at, n) ==
    CASE n.k = "dict" -> {<<Append(at, <<key, 0>>), n.at[key]>> : key \in DOMAIN n.at}
      [] n.k = "list" -> {<<Append(at, <<"item", i>>), n.items[i]>> : i \in DOMAIN n.items}
      [] OTHER -> {}

\* The shape check grades neither a literal's payload nor a function's map.
Graded(walk, n) ==
    IF "literal" \in Present(walk, n) THEN {}
    ELSE IF "function" \in Present(walk, n) THEN DOMAIN n.at \ {"map"} ELSE DOMAIN n.at

\* The expressions of a node end at its texts; a function's input is one of them.
Inside(walk, n) ==
    CASE walk \in {"endpoint", "connector"} ->
             IF Present(walk, n) = {} THEN Children(n)
             ELSE {n.at[key] : key \in Graded(walk, n)}
      [] walk = "expressions" -> IF Form(n) = "function" THEN {n.at[key] : key \in DOMAIN n.at \cap {"input"}}
                                 ELSE IF IsExpression(n) THEN {} ELSE Children(n)
      [] walk = "functions" -> IF Has(n, "literal") THEN {} ELSE Children(n)
      [] walk \in BindingKeys -> IF IsSingleton(n, walk) \/ Has(n, "literal") THEN {} ELSE Children(n)
      [] walk = "refs" -> IF IsSingleton(n, "ref") /\ n.at["ref"].k = "str" THEN {} ELSE Children(n)
      [] walk = "slot" -> IF IsExpression(n) THEN {} ELSE Children(n)
      [] walk = "places" -> IF IsSingleton(n[2], "from_param") \/ Has(n[2], "literal") THEN {}
                            ELSE PlacesInside(n[1], n[2])
      [] walk = "values" -> IF Form(n) = "function" THEN FunctionInputs(n) \ {Null} ELSE {}

\* Every node a walk of n reads.
Walked(walk, n) ==
    LET level[i \in 0..Deepest] ==
            IF i = 0 THEN [seen |-> {n}, last |-> {n}]
            ELSE LET before == level[i - 1]
                     inside == UNION {Inside(walk, m) : m \in before.last}
                 IN [seen |-> before.seen \cup inside, last |-> inside]
    IN level[Deepest].seen

-----------------------------------------------------------------------------
(* The checks of a slot. *)

\* Every dict with an expression key has exactly one, and beside it only what
\* its form declares, or an endpoint's extensions.
ShapeOk(kind, n) ==
    \A m \in Walked(kind, n) : Present(kind, m) # {} =>
        /\ Cardinality(Present(kind, m)) = 1
        /\ \A key \in DOMAIN m.at :
             \/ key \in Present(kind, m)
             \/ "function" \in Present(kind, m) /\ key \in FunctionFields
             \/ kind = "endpoint" /\ Extension(key)

\* iter_expression_nodes: what the checks read, one <<form, payload>> each.
ExpressionNodes(n) ==
    LET read(form) == {m \in Walked("expressions", n) : Form(m) = form}
    IN {<<"template", m>> : m \in read("str")}
       \cup {<<"template", m.at["template"]>> : m \in read("template")}
       \cup {<<"function", m>> : m \in read("function")}
       \cup {<<"ref", m.at["ref"]>> : m \in read("ref")}

\* Every token those nodes address the scopes with.
Tokens(n) ==
    UNION {IF e[1] = "ref" THEN {e[2].path} ELSE e[2].holes :
             e \in {x \in ExpressionNodes(n) : x[1] # "function" /\ x[2].k = "str"}}
UnqualifiedTokens(n) == {t \in Tokens(n) : ~HasKnownScope(t)}

\* A function node as FunctionExpression grades it, extension siblings dropped.
FunctionOk(n) ==
    /\ Get(n, "function").k = "str"
    /\ Get(n, "map").k \in {"dict", "null"}
    /\ Get(n, "safe").k \in {"str", "null"}
    /\ \A key \in DOMAIN n.at : Extension(key) \/ key \in FunctionFields

PayloadsOk(n) ==
    \A e \in ExpressionNodes(n) :
        CASE e[1] = "ref" -> e[2].k = "str"
          [] e[1] = "template" -> e[2].k = "str" /\ ~e[2].open
          [] OTHER -> FunctionOk(e[2])

EndpointShapeOk(n) == ShapeOk("endpoint", n)
SlotOk(n) == EndpointShapeOk(n) /\ PayloadsOk(n)

\* A function the connector union models is argued as its model declares; another
\* name passes, the engine alone knowing whether it is registered.
ArgumentsOk(n) ==
    LET name == n.at["function"]
        takes(required, optional) == required \subseteq DOMAIN n.at
                                     /\ DOMAIN n.at \subseteq required \cup optional
    IN /\ name.k = "str"
       /\ CASE name.path[1] = "basic_auth" ->
                 /\ takes({"function", "input"}, {}) /\ n.at["input"].k = "dict"
                 /\ DOMAIN n.at["input"].at = {"username", "password"}
            [] name.path[1] = "base64_encode" -> takes({"function", "input"}, {})
            [] name.path[1] = "lookup" -> takes({"function", "input", "map"}, {}) /\ n.at["map"].k = "dict"
            [] name.path[1] = "url_encode" -> /\ takes({"function", "input"}, {"safe"})
                                              /\ Get(n, "safe").k \in {"str", "null"}
            [] OTHER -> TRUE

\* A connector's slot: no extension siblings, and every token qualified.
ConnectorShapeOk(n) == ShapeOk("connector", n)
TemplatesClosed(n) ==
    \A e \in ExpressionNodes(n) : e[1] = "template" => e[2].k = "str" /\ ~e[2].open
Qualified(n) ==
    /\ \A e \in ExpressionNodes(n) : e[1] = "ref" => e[2].k = "str"
    /\ UnqualifiedTokens(n) = {}
ConnectorSlotOk(n) ==
    /\ ConnectorShapeOk(n)
    /\ \A e \in ExpressionNodes(n) : e[1] = "function" => ArgumentsOk(e[2])
    /\ TemplatesClosed(n) /\ Qualified(n)

-----------------------------------------------------------------------------
(* The walkers of endpoints.py. *)

\* A mutant: a function applied to a function hides it.
NamesOf(nodes) ==
    LET named == {m \in nodes : Has(m, "function") /\ ~Has(m, "literal") /\ m.at["function"].k = "str"}
    IN {m.at["function"].path[1] : m \in named}
FunctionNames_OuterOnly(n) == NamesOf(Walked("slot", n))
FunctionNames(n) == NamesOf(Walked("functions", n))

\* The payloads of every {key: ...} binding outside a literal.
SingletonPayloads(n, key) == {m.at[key] : m \in {x \in Walked(key, n) : IsSingleton(x, key)}}
SingletonValues(n, key) == {p.path : p \in {q \in SingletonPayloads(n, key) : q.k = "str"}}

\* Whether some ref reads a per-run scope.
HasDisallowedDynamicRefs(n) ==
    \E m \in Walked("refs", n) : /\ IsSingleton(m, "ref") /\ m.at["ref"].k = "str"
                                 /\ m.at["ref"].path[1] \in {"stream", "state", "runtime"}

-----------------------------------------------------------------------------
(* The resolver, on a context given as the set of tokens it holds a value   *)
(* for. A result is Unresolved (None), Crash, Value (something opaque), Raw(n) (authored *)
(* JSON emitted as it stands) or Built (a list or dict of results).         *)

Unresolved == [k |-> "none"]
Crash == [k |-> "crash"]
Value == [k |-> "value"]
Raw(n) == [k |-> "raw", node |-> n]
Implemented == {"basic_auth", "base64_encode", "url_encode", "lookup"}

\* A function input that is, or is read from, a template with a missing
\* placeholder is unresolved, so nothing is encoded from half a value.
FunctionInput(i, ctx, value) ==
    LET text == IF Has(i, "template") THEN i.at["template"] ELSE i
    IN IF text.k = "str" /\ ~(text.holes \subseteq ctx) THEN Unresolved ELSE value

\* A call, its inputs having come to the results.
ResolveFunction(n, inputs) ==
    LET name == n.at["function"].path[1]
        input == CHOOSE r \in inputs : TRUE
    IN IF n.at["function"].k # "str" \/ name \notin Implemented THEN Unresolved
       ELSE IF name = "basic_auth" /\ Get(n, "input").k \notin {"dict", "null"} THEN Crash
       ELSE IF Crash \in inputs THEN Crash
       ELSE IF Unresolved \in inputs THEN Unresolved
       ELSE IF name = "url_encode" /\ Has(n, "safe") /\ n.at["safe"].k # "str" THEN Crash
       ELSE IF name # "lookup" THEN Value
       ELSE IF Get(n, "map").k # "dict" \/ (input.k = "raw" /\ input.node.k \in {"list", "dict"})
            THEN Unresolved
       ELSE Raw(Get(n, "map"))

\* What any other form comes to.
ResolveForm(n, ctx) ==
    CASE Form(n) = "template" -> IF n.at["template"].k = "str" THEN Value ELSE Crash
      [] Form(n) = "literal" -> IF n.at["literal"].k = "null" THEN Unresolved ELSE Raw(n.at["literal"])
      [] Form(n) = "ref" -> IF n.at["ref"].k = "str" /\ n.at["ref"].path \in ctx THEN Value ELSE Unresolved
      [] Form(n) = "str" -> Value
      [] Form(n) \in {"dict", "null"} -> Unresolved
      [] OTHER -> Raw(n)

\* What each value n is resolved from comes to, an absent input to nothing.
Resolved(n, ctx) ==
    LET value[m \in Walked("values", n) \cup {Null}] ==
            IF Form(m) = "function"
            THEN ResolveFunction(m, {FunctionInput(i, ctx, value[i]) : i \in FunctionInputs(m)})
            ELSE ResolveForm(m, ctx)
    IN value
ResolveValue(n, ctx) == Resolved(n, ctx)[n]

\* resolve_template_deep: the expressions and texts of a slot that are resolved,
\* with the inputs that takes, and what that looks up, calls and ends in.
Resolves(n) == {m \in Walked("slot", n) : IsExpression(m) \/ m.k = "str"}
Values(n) == UNION {Walked("values", m) : m \in Resolves(n)}
ReadBy(m) ==
    CASE Form(m) = "template" -> m.at["template"].holes
      [] Form(m) = "ref" -> {m.at["ref"].path}
      [] Form(m) = "str" -> m.holes
      [] OTHER -> {}
LookedUp(n) == UNION {ReadBy(m) : m \in Values(n)}
Called(n) == {m.at["function"].path[1] : m \in {x \in Values(n) : Form(x) = "function"}}
Results(n, ctx) ==
    {ResolveValue(m, ctx) : m \in Resolves(n)}
    \cup {Raw(m) : m \in {x \in Walked("slot", n) : x.k \notin {"str", "list", "dict"}}}

-----------------------------------------------------------------------------
(* Properties. *)

\* Each function is argued as its resolver reads it: basic_auth by a pair, the
\* others by something other than plain structure.
WellArgued(n) ==
    \A e \in ExpressionNodes(n) : e[1] = "function" =>
        /\ e[2].at["function"].path[1] = "basic_auth" =>
             Get(e[2], "input").k = "dict" /\ DOMAIN e[2].at["input"].at = {"username", "password"}
        /\ \A i \in FunctionInputs(e[2]) : i.k \in {"list", "dict"} => IsExpression(i)

\* A slot the checks accept hides nothing from them: each token the resolver
\* looks up is one they graded, each function it calls is one they saw, and,
\* where each function is argued as its resolver reads it, they graded nothing it
\* would not look up.
SweepCoversResolution(n) ==
    SlotOk(n) => /\ LookedUp(n) \subseteq Tokens(n)
                 /\ Called(n) \subseteq FunctionNames(n)
                 /\ WellArgued(n) => Tokens(n) = LookedUp(n)

\* A connector's accepted slot looks up only what a scope holds, and raises only for
\* a null "safe".
NullSafe(n) == \E e \in ExpressionNodes(n) :
                  e[1] = "function" /\ Has(e[2], "safe") /\ e[2].at["safe"].k = "null"
ConnectorSlotResolves(n) ==
    ConnectorSlotOk(n) =>
        /\ \A t \in LookedUp(n) : HasKnownScope(t)
        /\ NullSafe(n) \/ \A ctx \in SUBSET Tokens(n) : Crash \notin Results(n, ctx)

\* An accepted slot resolves or is dropped, whatever the context holds: the
\* resolver returns None for what it cannot resolve and raises for nothing.
ResolvesOrDrops(n) ==
    SlotOk(n) => \A ctx \in SUBSET Tokens(n) : Crash \notin Results(n, ctx)

\* A path-parameter check that refuses an encoder refuses one that would run.
SeesOnlyWhatResolves(n) == SlotOk(n) => FunctionNames(n) \subseteq Called(n)
=============================================================================
