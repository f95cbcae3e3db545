----------------------------- MODULE MCStreams -----------------------------
(***************************************************************************)
(* Streams for TLC: two fields, two connections, names that hold the       *)
(* characters a dotted string would be cut at, four nodes, small payloads. *)
(***************************************************************************)
EXTENDS StreamBindings, TLC

Fields == {"f", "g"}
Source0 == [scope |-> "connection", filters |-> <<>>, selected |-> Absent, tieBreakers |-> Absent,
            pagination |-> Absent, cursor |-> Absent]
SourceEdit(s, e) ==
    \/ \E scope \in {"connection", "connector"} : e = [s EXCEPT !.scope = scope]
    \/ /\ Len(s.filters) < 2
       /\ \E f \in Fields, op \in {"eq", "like", "contains"} :
            e = [s EXCEPT !.filters = Append(@, [field |-> f, operator |-> op])]
    \/ e = [s EXCEPT !.selected = <<>>]
    \/ e = [s EXCEPT !.tieBreakers = <<"g">>]
    \/ \E f \in Fields \cup {Absent} : e = [s EXCEPT !.pagination = [order_by |-> f]]
    \/ \E f \in Fields : e = [s EXCEPT !.cursor = f]

X == <<"x">>
Objects == [catalog : {Absent, X}, schema : {Absent, X, <<"x", Dot>>},
            name : {X, <<Dot, "x">>, <<"Y">>, <<Dot>>}]
Object0 == [catalog |-> Absent, schema |-> X, name |-> X]
Ref0 == [scope |-> "connection", connection |-> 1, object |-> Object0, id |-> Absent]
Destination0 == [ref |-> Ref0, mode |-> "insert", keys |-> Absent]
Ids == {Absent, DeriveDbEndpointId(Object0), [slugs |-> <<X>>, hash |-> <<"7">>]}
Pairs == {<<Destination0, [Destination0 EXCEPT !.ref.object = o]>> : o \in Objects}
DestinationEdit(ds, e) ==
    \E i \in DOMAIN ds :
        \/ \E o \in Objects : e = [ds EXCEPT ![i].ref.object = o]
        \/ \E id \in Ids : e = [ds EXCEPT ![i].ref.id = id]
        \/ e = [ds EXCEPT ![i].ref.connection = 2]
        \/ \E id \in Ids \ {Absent} : e = [ds EXCEPT ![i].ref.scope = "connector", ![i].ref.id = id]
        \/ \E mode \in {"insert", "truncate_insert", "upsert"}, keys \in {Absent, "empty", "some"} :
              e = [ds EXCEPT ![i].mode = mode, ![i].keys = keys]

Tokens == {"a", "b"}
Leaf == [props |-> <<>>, items |-> 0]
Mapping0 == [targets |-> <<[path |-> "a", node |-> 1]>>, nodes |-> <<Leaf, Leaf, Leaf, Leaf>>,
             field |-> <<"a">>]
MappingEdit(m, e) ==
    \/ \E n \in 1..4, token \in Tokens : \E child \in (n + 1)..4 :
           e = [m EXCEPT !.nodes[n].props = (token :> child) @@ @]
    \/ \E n \in 1..4 : \E child \in (n + 1)..4 : e = [m EXCEPT !.nodes[n].items = child]
    \/ \E token \in Tokens : e = [m EXCEPT !.targets = Append(@, [path |-> token, node |-> 2])]
    \/ \E token \in Tokens : Len(m.field) < 3 /\ e = [m EXCEPT !.field = Append(@, token)]
    \/ \E token \in Tokens : e = [m EXCEPT !.field = <<token>>]

Bounds == {NoBound} \cup ({"int", "text"} \X (0..2))
Values == [form : {"int"}, n : -1..2] \cup [form : {"bool"}]
          \cup [form : {"text"}, text : {"empty", "good", "broken", "aloneOnly", "groupedOnly"}]
          \cup [form : {"list"}, members : SUBSET {0, 1}]
          \cup [form : {"bounds"}, low : Bounds, high : Bounds, unknown : SUBSET {"mid"}]
Payloads == [type : {"min_length", "max_length", "pattern", "range", "in_list"}, value : Values]
=============================================================================
