----------------------------- MODULE MCColumns -----------------------------
(***************************************************************************)
(* Column trees for TLC: a scalar column, and what edits make of it. A map *)
(* or a single schema only holds nodes after its own.                      *)
(***************************************************************************)
EXTENDS ColumnShapes

ScalarNode == [kind |-> "dict", arrow |-> "Utf8", native |-> TRUE, props |-> Absent, items |-> Absent]
ScalarColumn == [n \in Node |-> ScalarNode]

ColumnEdit(t, e) ==
    \E n \in Node :
       \/ \E v \in {"bool", "other"} : n # Column /\ e = [t EXCEPT ![n].kind = v]
       \/ \E v \in Arrow : e = [t EXCEPT ![n].arrow = v]
       \/ e = [t EXCEPT ![n].native = FALSE]
       \/ \E v \in {NullForm, BadValue} : e = [t EXCEPT ![n].props = v]
       \/ \E v \in SUBSET ((n + 1)..3) : e = [t EXCEPT ![n].props = v]
       \/ \E v \in {NullForm, BadValue, BoolForm, TupleForm} : e = [t EXCEPT ![n].items = v]
       \/ \E c \in (n + 1)..3 : e = [t EXCEPT ![n].items = {c}]
       \/ \E c \in (n + 1)..3 : e = [t EXCEPT ![n].arrow = "Object", ![n].props = {c}]
       \/ \E c \in (n + 1)..3 : e = [t EXCEPT ![n].arrow = "List", ![n].items = {c}]

PlainEndpoint ==
    [schema |-> "database", keys |-> {"database_object", "columns"}, catalog |-> "main",
     columns |-> <<[name |-> "a", ordinal |-> 1], [name |-> "b", ordinal |-> 2]>>,
     primary_keys |-> {"a"}]

EndpointEdit(p, e) ==
    \/ \E v \in {"database", "api", "other", Absent} : e = [p EXCEPT !.schema = v]
    \/ \E v \in SUBSET {"database_object", "columns", "operations"} : e = [p EXCEPT !.keys = v]
    \/ \E v \in {NullForm, Absent} : e = [p EXCEPT !.catalog = v]
    \/ \E i \in DOMAIN p.columns, v \in {"a", "b"}, o \in 0..2 :
          e = [p EXCEPT !.columns[i] = [name |-> v, ordinal |-> o]]
    \/ \E v \in SUBSET {"a", "b", "c"} : e = [p EXCEPT !.primary_keys = v]
=============================================================================
