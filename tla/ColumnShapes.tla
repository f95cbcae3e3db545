---------------------------- MODULE ColumnShapes ----------------------------
(***************************************************************************)
(* One matrix, graded three times: the shape an Arrow type asks of its     *)
(* siblings "properties" and "items", by the models of database columns    *)
(* (contracts/endpoints.py over contracts/shared/arrow_shape.py), by the   *)
(* JSON Schema those models publish, and by the walk over the schemas of   *)
(* API endpoints, which reads raw dicts. With them the choice of the model *)
(* that reads an endpoint.                                                 *)
(*                                                                         *)
(* A tree has three nodes, named so that a node's children come after it.  *)
(* A node is [kind, arrow, native, props, items]; props is a value that is *)
(* no dict or the set of the nodes its map holds; items the like, a set of *)
(* one node being a single schema.                                         *)
(***************************************************************************)
EXTENDS Naturals, FiniteSets

CONSTANTS Absent, NullForm,                   \* a key that is not there, and one that is null
          BadValue, BoolForm, TupleForm   \* values a key may hold that are no dict

Column == 1
Node == 1..3

\* "broken" stands for a Decimal128 whose scale exceeds its precision, "bare" for
\* a family without its parameters.
Scalars == {"Utf8", "broken"}
Spelled == Scalars \cup {"Object", "List", "Json"}
Arrow == Spelled \cup {Absent, NullForm, "bare"}

IsMap(v) == v \notin {Absent, NullForm, BadValue, BoolForm, TupleForm}
None(v) == v \in {Absent, NullForm}
Children(node) == UNION {v \in {node.props, node.items} : IsMap(v)}

\* The nodes of the tree, from the column down.
Within(t) ==
    LET Reached[n \in Node] ==
          n = Column \/ \E m \in 1..(n - 1) : Reached[m] /\ n \in Children(t[m])
    IN {n \in Node : Reached[n]}

-----------------------------------------------------------------------------
(* The models: types are coerced, then the sibling keys are checked. *)

\* enforce_container_shape, on coerced siblings.
ContainerShape(arrow, props, items) ==
    /\ arrow # "broken"
    /\ CASE arrow = "Object" -> ~None(props) /\ props # {} /\ None(items)
         [] arrow = "List" -> ~None(items) /\ None(props)
         [] OTHER -> None(props) /\ None(items)

\* A field spec: its own keys, of the types they are declared as.
FieldSpec(node) ==
    /\ node.kind = "dict" /\ node.arrow \in Spelled
    /\ None(node.props) \/ IsMap(node.props)
    /\ None(node.items) \/ IsMap(node.items)
    /\ ContainerShape(node.arrow, node.props, node.items)

ColumnAccepted(t) == \A n \in Within(t) : FieldSpec(t[n])

-----------------------------------------------------------------------------
(* The published schema: three conditionals on the Arrow type, beside the types *)
(* of the fields. It has no way to compare two parameters of a type.            *)

TypeIs(v, type) == CASE type = "null" -> None(v)
                     [] type = "object" -> IsMap(v)
                     [] OTHER -> FALSE

ContainerRules(node) ==
    /\ node.arrow = "Object" => /\ node.props # Absent
                                /\ TypeIs(node.props, "object") /\ node.props # {}
                                /\ TypeIs(node.items, "null")
    /\ node.arrow = "List" => /\ node.items # Absent /\ ~TypeIs(node.items, "null")
                              /\ TypeIs(node.props, "null")
    /\ node.arrow \notin {Absent, "Object", "List"} =>
          TypeIs(node.props, "null") /\ TypeIs(node.items, "null")

PublishedAccepts(t) ==
    \A n \in Within(t) :
        /\ TypeIs(t[n].props, "null") \/ TypeIs(t[n].props, "object")
        /\ TypeIs(t[n].items, "null") \/ TypeIs(t[n].items, "object")
        /\ t[n].kind = "dict" /\ t[n].arrow \in Spelled
        /\ ContainerRules(t[n])

-----------------------------------------------------------------------------
(* The walk over an API schema. *)

\* What it says of one node, as the set of its complaints.
NodeComplaints(node) ==
    LET hasProps == ~None(node.props)
        hasItems == ~None(node.items)
        hasArrow == ~None(node.arrow)
        Says(complaint, holds) == IF holds THEN {complaint} ELSE {}
    IN CASE node.kind = "bool" -> {}
         [] node.kind = "other" -> {"malformed"}
         [] OTHER ->
              Says("vocabulary", hasArrow /\ node.arrow \notin Spelled)
              \cup Says("crossBound", node.arrow = "broken")
              \cup Says("pairing", hasArrow # node.native)
              \cup CASE ~hasArrow -> {}
                     [] node.arrow = "Object" ->
                          Says("properties", ~IsMap(node.props) \/ node.props = {})
                          \cup Says("hasItems", hasItems)
                     [] node.arrow = "List" -> Says("items", ~IsMap(node.items))
                                               \cup Says("hasProperties", hasProps)
                     [] OTHER -> Says("container", hasProps \/ hasItems)

WalkComplaints(t) == UNION {NodeComplaints(t[n]) : n \in Within(t)}

-----------------------------------------------------------------------------
(* A database endpoint, and the reading of an endpoint. *)

\* The object's namespaces are named or left out; columns are told apart by name,
\* and by their ordinals where they have them; a key is a column.
DatabaseAccepted(p) ==
    /\ p.schema = "database" /\ {"database_object", "columns"} \subseteq p.keys
    /\ "operations" \notin p.keys
    /\ p.catalog # NullForm
    /\ \A i, j \in DOMAIN p.columns :
          i # j => /\ p.columns[i].name # p.columns[j].name
                   /\ p.columns[i].ordinal = p.columns[j].ordinal => p.columns[i].ordinal = 0
    /\ p.primary_keys \subseteq {p.columns[i].name : i \in DOMAIN p.columns}

ApiAccepted(p) == p.schema = "api" /\ p.keys = {"operations"}

\* The $schema decides, or else the keys only a database endpoint has.
ParseEndpoint(p) ==
    CASE p.schema = "database" -> DatabaseAccepted(p)
      [] p.schema = "api" -> ApiAccepted(p)
      [] p.schema = Absent -> IF {"database_object", "columns"} \cap p.keys # {}
                              THEN DatabaseAccepted(p) ELSE ApiAccepted(p)
      [] OTHER -> FALSE

-----------------------------------------------------------------------------
(* Properties. *)

Typed(t) == \A n \in Within(t) : t[n].kind = "dict" /\ ~None(t[n].arrow)

\* The three dialects accept one matrix: on a tree that types every node, the walk
\* objects (to other than a missing native type) exactly where the models refuse,
\* and what is published differs by the one bound it cannot state.
OneMatrix(t) ==
    /\ Typed(t) => (WalkComplaints(t) \ {"pairing"} = {} <=> ColumnAccepted(t))
    /\ ColumnAccepted(t) <=> /\ PublishedAccepts(t)
                             /\ \A n \in Within(t) : t[n].arrow # "broken"

\* An endpoint one of the models accepts is read by that model, and a key an upsert
\* draws from a database endpoint is one column of it.
ReadAsItsKind(p) ==
    /\ ParseEndpoint(p) <=> DatabaseAccepted(p) \/ ApiAccepted(p)
    /\ ParseEndpoint(p) /\ p.schema = "database" =>
         \A key \in p.primary_keys :
             Cardinality({i \in DOMAIN p.columns : p.columns[i].name = key}) = 1
=============================================================================
