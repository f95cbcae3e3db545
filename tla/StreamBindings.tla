--------------------------- MODULE StreamBindings ---------------------------
(***************************************************************************)
(* What a stream document binds: the read it asks of its source, the       *)
(* endpoints it writes to, and the rules that grade its mapped output      *)
(* (stream.py, endpoint_identity.py).                                      *)
(***************************************************************************)
EXTENDS Integers, Sequences, FiniteSets, SequencesExt

CONSTANTS Absent,      \* a key that is not there, or null
          Dot          \* the character between the names of a dotted string

Distinct(s) == \A i, j \in DOMAIN s : s[i] = s[j] => i = j

-----------------------------------------------------------------------------
(* A source: [scope, filters, selected, tieBreakers, pagination, cursor].   *)
(* pagination is Absent, or holds an order_by that may be Absent.           *)

CommonOperators == {"eq", "neq", "gt", "gte", "lt", "lte", "in", "not_in"}
DbFilterOperators == CommonOperators \cup {"is_null", "is_not_null", "like", "ilike"}
ApiFilterOperators == CommonOperators \cup {"contains", "starts_with", "ends_with"}

FilterOperatorScope(s) ==
    \A i \in DOMAIN s.filters :
        s.filters[i].operator \in (IF s.scope = "connection" THEN DbFilterOperators ELSE ApiFilterOperators)

NoDuplicateApiFilterLandings(s) == s.scope = "connector" => Distinct(s.filters)

\* An empty list is declared too.
DatabaseOnlyReadFeatures(s) ==
    s.scope = "connector" => s.selected = Absent /\ s.tieBreakers = Absent /\ s.pagination = Absent

PagesAreOrderedByTheCursor(s) ==
    \/ s.pagination = Absent \/ s.cursor = Absent
    \/ s.pagination.order_by \in {Absent, s.cursor}

SourceOk(s) == /\ FilterOperatorScope(s) /\ NoDuplicateApiFilterLandings(s)
               /\ DatabaseOnlyReadFeatures(s) /\ PagesAreOrderedByTheCursor(s)

-----------------------------------------------------------------------------
(* Destinations. A name is a sequence of characters, an object a catalog, a *)
(* schema and a name; the hash stands for its payload: two payloads are     *)
(* taken never to share the eight digits kept of them.                      *)

SlugChars == {"x", "y"}
Lower(c) == IF c = "Y" THEN "y" ELSE c

\* Every run of other characters becomes one "_", none at the ends.
Slug(name) ==
    LET runs == FoldLeft(LAMBDA s, c : IF Lower(c) \in SlugChars THEN Append(s, Lower(c))
                                       ELSE IF s = <<>> \/ Last(s) = "_" THEN s ELSE Append(s, "_"),
                         <<>>, name)
    IN IF runs # <<>> /\ Last(runs) = "_" THEN Front(runs) ELSE runs

\* A mutant: the names are joined by a dot.
HashPayload_Dotted(object) ==
    LET text(v) == IF v = Absent THEN <<>> ELSE v
    IN text(object.catalog) \o <<Dot>> \o text(object.schema) \o <<Dot>> \o object.name
HashPayload(object) == <<object.catalog, object.schema, object.name>>

DeriveDbEndpointId(object) ==
    LET given == SelectSeq(<<object.schema, object.name, object.catalog>>, LAMBDA v : v # Absent)
        slugs == [i \in DOMAIN given |-> Slug(given[i])]
    IN [slugs |-> SelectSeq(slugs, LAMBDA s : s # <<>>), hash |-> HashPayload(object)]

\* An id that is omitted is derived, one that is given must be the derived one.
EndpointRefOk(ref) ==
    ref.scope = "connection" => ref.id \in {Absent, DeriveDbEndpointId(ref.object)}
EndpointId(ref) ==
    IF ref.scope = "connection" THEN DeriveDbEndpointId(ref.object) ELSE ref.id

KeylessModes == {"insert", "truncate_insert"}
ConflictKeyedModes == {"upsert"}

\* keys is Absent, "empty" or "some"; an API write has no field for it.
WriteOk(d) == IF d.ref.scope = "connector" THEN d.keys = Absent
              ELSE IF d.mode \in KeylessModes THEN d.keys = Absent
              ELSE d.mode \in ConflictKeyedModes /\ d.keys = "some"

DestinationKey(d) == <<d.ref.scope, d.ref.connection, EndpointId(d.ref)>>
DestinationsOk(ds) ==
    /\ \A i \in DOMAIN ds : EndpointRefOk(ds[i].ref) /\ WriteOk(ds[i])
    /\ Distinct([i \in DOMAIN ds |-> DestinationKey(ds[i])])

-----------------------------------------------------------------------------
(* A mapping: targets, each a path of one token and the number of its node, *)
(* a table of nodes [props, items] whose children have greater numbers (0   *)
(* for no items), and the field a validation rule addresses.                *)

ContainerShapeOk(node) == node.items # 0 => DOMAIN node.props = {}

\* An element of a list is stepped into without a token.
Element(nodes) ==
    LET element[n \in DOMAIN nodes] ==
            IF DOMAIN nodes[n].props = {} /\ nodes[n].items # 0 THEN element[nodes[n].items] ELSE n
    IN element

DeclaredChild(nodes, n, token) ==
    LET node == nodes[Element(nodes)[n]]
    IN IF token \in DOMAIN node.props THEN node.props[token] ELSE 0

\* The node each token of the field leads to from a target, 0 once it leads nowhere.
Walk(m, target) ==
    LET walk[k \in DOMAIN m.field] ==
            IF k = 1 THEN target.node
            ELSE IF walk[k - 1] = 0 THEN 0 ELSE DeclaredChild(m.nodes, walk[k - 1], m.field[k])
    IN walk

RuleFieldResolves(m) ==
    LET head == {i \in DOMAIN m.targets : m.targets[i].path = Head(m.field)}
    IN \E i \in head : Walk(m, m.targets[i])[Len(m.field)] # 0

TargetsUnique(m) == Distinct([i \in DOMAIN m.targets |-> m.targets[i].path])
MappingOk(m) == /\ \A n \in DOMAIN m.nodes : ContainerShapeOk(m.nodes[n])
                /\ TargetsUnique(m) /\ RuleFieldResolves(m)

-----------------------------------------------------------------------------
(* The payload of a rule: [form, ...] with form "int", "bool", "text",      *)
(* "list" or "bounds". A bound is <<kind, number>>; numbers compare only    *)
(* with numbers, text with text.                                            *)

IntegerLength(v) == v.form = "int" /\ v.n >= 0
RegexSource(v) == v.form = "text" /\ v.text # "empty" /\ v.text \notin {"broken", "groupedOnly", "aloneOnly"}
NoBound == <<"none", 0>>
Both(v) == v.low # NoBound /\ v.high # NoBound
Comparable(v) == v.low[1] = v.high[1]
BoundsObject(v) ==
    /\ v.form = "bounds" /\ v.unknown = {}
    /\ v.low # NoBound \/ v.high # NoBound
    /\ Both(v) /\ Comparable(v) => v.low[2] <= v.high[2]
ValueSet(v) == v.form = "list" /\ v.members # {}

PayloadOk(r) ==
    CASE r.type \in {"min_length", "max_length"} -> IntegerLength(r.value)
      [] r.type = "pattern" -> RegexSource(r.value)
      [] r.type = "range" -> BoundsObject(r.value)
      [] r.type = "in_list" -> ValueSet(r.value)

-----------------------------------------------------------------------------
(* Properties. *)

\* The last row of a page read in the declared order holds its highest cursor: a
\* run resumed from it has no row below it left to read.
CheckpointIsHighest(s) ==
    SourceOk(s) /\ s.cursor # Absent /\ s.pagination # Absent /\ s.pagination.order_by # Absent =>
        \A row, last \in [{s.cursor, s.pagination.order_by} -> 0..1] :
            row[s.pagination.order_by] < last[s.pagination.order_by] => row[s.cursor] <= last[s.cursor]

\* A stream writes its records to an object once, however its endpoint is spelled,
\* and two objects are never taken for one.
Bound(ref) == IF ref.scope = "connection" THEN <<ref.scope, ref.connection, ref.object>>
                                          ELSE <<ref.scope, ref.connection, ref.id>>
EndpointsAreWrittenOnce(ds) ==
    (\A i \in DOMAIN ds : EndpointRefOk(ds[i].ref) /\ WriteOk(ds[i])) =>
        (DestinationsOk(ds) <=> Distinct([i \in DOMAIN ds |-> Bound(ds[i].ref)]))

\* A rule is accepted exactly when its tokens name a field of the mapped output.
Below(nodes) ==
    LET below[n \in DOMAIN nodes] ==
            {<<>>}
            \cup (UNION {{<<token>> \o rest : rest \in below[nodes[n].props[token]]} :
                            token \in DOMAIN nodes[n].props})
            \cup (IF nodes[n].items = 0 THEN {} ELSE below[nodes[n].items])
    IN below
Outputs(m) ==
    UNION {{<<m.targets[i].path>> \o rest : rest \in Below(m.nodes)[m.targets[i].node]} : i \in DOMAIN m.targets}
RulesGradeOutputs(m) ==
    (TargetsUnique(m) /\ \A n \in DOMAIN m.nodes : ContainerShapeOk(m.nodes[n])) =>
        (MappingOk(m) <=> m.field \in Outputs(m))

\* A rule that is accepted admits some row, one of the numbers it names or 0; of
\* bounds that do not compare nothing is said.
Passes(r, x) ==
    CASE r.type = "min_length" -> x >= r.value.n
      [] r.type = "max_length" -> x <= r.value.n
      [] r.type = "pattern" -> r.value.text = "good"
      [] r.type = "range" -> /\ r.value.low = NoBound \/ r.value.low[2] <= x
                             /\ r.value.high = NoBound \/ x <= r.value.high[2]
      [] r.type = "in_list" -> x \in r.value.members
Named(v) ==
    {0} \cup (CASE v.form = "int" -> {v.n}
              [] v.form = "list" -> v.members
              [] v.form = "bounds" -> {v.low[2], v.high[2]}
              [] OTHER -> {})
RulesAdmitARow(r) ==
    PayloadOk(r) /\ (r.type = "range" /\ Both(r.value) => Comparable(r.value)) =>
        \E x \in Named(r.value) : Passes(r, x)
=============================================================================
