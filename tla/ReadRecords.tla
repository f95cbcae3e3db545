---------------------------- MODULE ReadRecords ----------------------------
(***************************************************************************)
(* The records of a read, found in its response schema three times over    *)
(* (contracts/endpoints.py): by the gate, which composes the document; by  *)
(* the engine's cursor reader, which follows nothing; and by the           *)
(* enumeration the destination's columns are derived from.                 *)
(*                                                                         *)
(* A read r is [schema, records, cursor, window, format]: the document of  *)
(* EmbeddedSchema, the path of response.records in it, the cursor field's  *)
(* name, and whether the mapping is a window and declares a format.        *)
(***************************************************************************)
EXTENDS EmbeddedSchema

CONSTANT R      \* the root of a response schema

Nullable == "null"
CursorTypes == {"string", "integer"}
EpochFormats == {"epoch_seconds"}
CursorFormats == EpochFormats \cup {"date-time"}

\* The path a dotted name spells.
Dotted(name) == IF name = "x.y" THEN <<"x", "y">> ELSE <<name>>

-----------------------------------------------------------------------------
(* The composed reading. *)

\* Whether a node says what kind of value it holds: a type, the marker pair, or
\* a union whose every branch does; a branch met again says nothing.
RECURSIVE DeclaresAType(_, _, _)
DeclaresAType(D, m, path) ==
    \/ m.type # {} \/ m.arrow # ""
    \/ /\ m.union # <<>>
       /\ \A b \in Range(m.union) :
            /\ ~Boolean(b) /\ b \notin path
            /\ LET branch == MaterializeNode(D, b)
               IN branch.fail = "" /\ DeclaresAType(D, branch.out, path \cup {b})

Typed(answer) ==
    /\ answer.verdict = "ok" /\ ~Boolean(answer.at)
    /\ LET m == MaterializeNode(answer.doc, answer.at)
       IN m.fail = "" /\ DeclaresAType(answer.doc, m.out, {})

\* The array response.records addresses, and the gate's conditions on it: rows of
\* one shape, which says something.
RecordsAt(r) == ResolveDeclaredPath(r.schema, <<R>>, r.records)
RecordsOk(r) ==
    LET at == RecordsAt(r)
        array == MaterializeNode(at.doc, at.at)
        row == MaterializeNode(at.doc, array.out.items)
    IN /\ at.verdict = "ok" /\ ~Boolean(at.at)
       /\ array.fail = "" /\ array.out.type = {"array"}
       /\ array.out.items # Tuple
       /\ array.out.items \notin {<<>>, True, False} => row.fail = "" /\ row.out # Blank

Row(r) == LET at == RecordsAt(r) IN MaterializeNode(at.doc, at.at).out.items
FieldAt(r, segments) == ResolveDeclaredPath(RecordsAt(r).doc, Row(r), segments)

\* A dotted record field path, as keyset ordering and stream filters name one.
RecordFieldOk(r, name) ==
    /\ Row(r) \notin {<<>>, True, False, Tuple}
    /\ Typed(FieldAt(r, Dotted(name)))

\* A cursor field is one name where the record shape declares it whole, a path
\* otherwise.
CursorDeclared(r) ==
    LET whole == PropertyContributors(RecordsAt(r).doc, Row(r), <<>>)
    IN /\ Row(r) \notin {<<>>, True, False, Tuple}
       /\ whole.fail = ""
       /\ Typed(FieldAt(r, IF r.cursor \in DOMAIN whole.out THEN <<r.cursor>>
                           ELSE Dotted(r.cursor)))

-----------------------------------------------------------------------------
(* The engine's reading: each node's own properties, the array's own items. *)

RECURSIVE OwnNode(_, _, _)
OwnNode(D, n, segments) ==
    CASE segments = <<>> -> n
      [] segments # <<>> /\ (n \in {<<>>, True, False, Tuple} \/ Object(D, n).props = NoProps) -> <<>>
      [] OTHER -> LET props == Object(D, n).props
                  IN IF Head(segments) \in DOMAIN props
                     THEN OwnNode(D, props[Head(segments)], Tail(segments)) ELSE <<>>

EngineProperties(r) ==
    LET D == r.schema
        node == OwnNode(D, <<R>>, r.records)
        row == IF node \notin {<<>>, True, False} /\ Object(D, node).type = {"array"}
               THEN Object(D, node).items ELSE node
    IN IF row \in {<<>>, True, False, Tuple} \/ Object(D, row).props = NoProps THEN <<>>
       ELSE Object(D, row).props

\* The cursor's own node states one type a cursor can hold, and, for an integer
\* that is no moment, a mapping that sends an id as itself.
CursorHolds(r) ==
    LET own == EngineProperties(r)
        o == Object(r.schema, own[r.cursor])
        types == o.type \ {Nullable}
    IN /\ r.cursor \in DOMAIN own /\ ~Boolean(own[r.cursor])
       /\ Cardinality(types) = 1 /\ types \subseteq CursorTypes
       /\ types = {"integer"} /\ o.format \notin EpochFormats =>
            o.format \notin CursorFormats /\ ~r.window /\ ~r.format

ReadOk(r) == RecordsOk(r) /\ CursorDeclared(r) /\ CursorHolds(r)

-----------------------------------------------------------------------------
(* The enumeration: the record shape, and down its items to the first map. *)

\* Materialised again, a record shape is what it was; "endless" where the items
\* lead back to one another and no map ends the walk.
RECURSIVE FieldsBelow(_, _, _)
FieldsBelow(D, n, seen) ==
    LET m == MaterializeNode(D, n)
    IN CASE n \in seen -> [fail |-> "endless", props |-> <<>>]
         [] n \notin seen /\ m.fail # "" -> [fail |-> m.fail, props |-> <<>>]
         [] OTHER ->
              CASE m.out.props # NoProps -> [fail |-> "", props |-> m.out.props]
                [] m.out.props = NoProps /\ m.out.items \in {<<>>, True, False, Tuple} ->
                     [fail |-> "unknown", props |-> <<>>]
                [] OTHER -> FieldsBelow(D, m.out.items, seen \cup {n})

\* resolve_read_record_schema, whose None is "unknown" and never the envelope,
\* and find_record_field_properties of it.
Fields(r) ==
    LET at == RecordsAt(r)
        m == MaterializeNode(at.doc, at.at)
        unwraps == m.out.type = {"array"} /\ m.out.items \notin {<<>>, True, False, Tuple}
    IN IF at.verdict # "ok" \/ Boolean(at.at) THEN [fail |-> "unknown", props |-> <<>>]
       ELSE FieldsBelow(at.doc, IF unwraps THEN m.out.items ELSE at.at, {})

-----------------------------------------------------------------------------
(* Properties. *)

\* Where a cursor is accepted the three readings meet in it: it is a column, its
\* own declaration has the one type that every other statement of it allows, and
\* the record shape it is read at is the one the columns are.
CursorIsReadBack(r) ==
    ReadOk(r) =>
      LET own == Object(r.schema, EngineProperties(r)[r.cursor])
          node == FieldAt(r, <<r.cursor>>)
          composed == MaterializeNode(node.doc, node.at)
          fields == Fields(r)
      IN /\ fields.fail = "" /\ r.cursor \in DOMAIN fields.props
         /\ DOMAIN EngineProperties(r) \subseteq DOMAIN fields.props
         /\ node.verdict = "ok" /\ composed.fail = ""
         /\ composed.out.type \subseteq own.type

\* What a field path resolves to and what its column is read off say the same.
ColumnsAgreeWithPaths(r) ==
    RecordsOk(r) =>
      LET fields == Fields(r)
          doc == RecordsAt(r).doc
      IN \A name \in DOMAIN fields.props :
           RecordFieldOk(r, name) =>
             LET column == MaterializeNode(doc, fields.props[name])
             IN column.fail = "" /\ DeclaresAType(doc, column.out, {})

\* The columns of an accepted read can be enumerated.
EnumerationEnds(r) == RecordsOk(r) => Fields(r).fail # "endless"
=============================================================================
