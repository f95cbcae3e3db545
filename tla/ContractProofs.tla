--------------------------- MODULE ContractProofs ---------------------------
(***************************************************************************)
(* The properties of DocumentContracts, of every document of the shape the *)
(* model gives its kind and not only of those a run reaches: tables of any *)
(* number of nodes, maps, sequences and names of any length, JSON of any   *)
(* breadth, nested Deepest deep for any Deepest.                           *)
(***************************************************************************)
EXTENDS DocumentContracts, Integers, Sequences, FiniteSets,
        TLAPS, FiniteSetTheorems, WellFoundedInduction

\* A nonempty set of naturals has a least element.
LEMMA LeastNat ==
    ASSUME NEW S \in SUBSET Nat, S # {}
    PROVE  \E m \in S : \A k \in S : m <= k
<1> DEFINE below == {1 .. k : k \in S}
<1>1. IsWellFoundedOn(StrictSubsetOrdering(Nat), FiniteSubsetsOf(Nat))
  BY FS_StrictSubsetOrderingWellFounded, Zenon
<1>2. below \subseteq FiniteSubsetsOf(Nat) /\ below # {}
  <2>1. \A k \in S : 1 .. k \in SUBSET Nat /\ IsFiniteSet(1 .. k)
    BY FS_Interval
  <2> QED
    BY <2>1 DEF FiniteSubsetsOf
<1>3. PICK b \in below : \A y \in below : ~(<<y, b>> \in StrictSubsetOrdering(Nat))
  BY <1>1, <1>2, WFMin, Zenon
<1>4. PICK m \in S : b = 1 .. m
  OBVIOUS
<1>5. ASSUME NEW k \in S, k < m PROVE FALSE
  <2>1. 1 .. k \in below /\ 1 .. k \in SUBSET Nat /\ 1 .. m \in SUBSET Nat
    OBVIOUS
  <2>2. 1 .. k \subseteq 1 .. m /\ m \in 1 .. m /\ m \notin 1 .. k
    BY <1>5
  <2>3. <<1 .. k, 1 .. m>> \in StrictSubsetOrdering(Nat)
    BY <2>1, <2>2 DEF StrictSubsetOrdering
  <2> QED
    BY <1>3, <1>4, <2>1, <2>3
<1> QED
  BY <1>5

-----------------------------------------------------------------------------
(* Connectors.                                                               *)

\* Every request an accepted connector dispatches names no transport, or one that
\* is declared.
LEMMA RequestsResolve ==
    ASSUME NEW c, Connector!ConnectorAccepted(c), NEW ref \in Connector!Requests(c)
    PROVE  ref = Omitted \/ ref \in DOMAIN c.own
<1>1. Connector!AuthOk(c) /\ Connector!RefsResolvable(c)
  BY DEF Connector!ConnectorAccepted
<1>2. Connector!AuthOps(c.auth) \subseteq Connector!CheckedOps
  BY DEF Connector!AuthOps, Connector!RequiredOps, Connector!CheckedOps, Connector!OAuth
<1>3. ASSUME NEW op \in DOMAIN c.ops, ref = c.ops[op]
      PROVE  ref = Omitted \/ ref \in DOMAIN c.own
  <2>1. op \in Connector!CheckedOps \cap DOMAIN c.ops
    BY <1>1, <1>2, <1>3 DEF Connector!AuthOk
  <2> QED
    BY <1>1, <1>3, <2>1 DEF Connector!RefsResolvable, Connector!RefOk
<1>4. ASSUME ref \in c.discovery
      PROVE  ref = Omitted \/ ref \in DOMAIN c.own
  BY <1>1, <1>4 DEF Connector!RefsResolvable, Connector!RefOk
<1>5. ASSUME NEW name \in DOMAIN c.outputs, ref \in c.outputs[name].options \cup c.outputs[name].request
      PROVE  ref = Omitted \/ ref \in DOMAIN c.own
  BY <1>1, <1>5 DEF Connector!RefsResolvable, Connector!RefOk
<1> QED
  BY <1>3, <1>4, <1>5 DEF Connector!Requests

\* What a connector's requests name, or its default, is a transport it declares.
LEMMA Dispatch ==
    ASSUME NEW c
    PROVE  Connector!DispatchLands(c)
<1> SUFFICES ASSUME Connector!ConnectorAccepted(c), NEW ref \in Connector!Requests(c)
             PROVE  /\ Connector!SelectTransport(c, ref) \in DOMAIN c.own
                    /\ Connector!TypeOf(c, Connector!SelectTransport(c, ref)) \in Connector!KindFamilies(c.kind)
  BY DEF Connector!DispatchLands
<1>1. ref = Omitted \/ ref \in DOMAIN c.own
  BY RequestsResolve
<1>2. Connector!SelectTransport(c, ref) \in DOMAIN c.own
  BY <1>1 DEF Connector!SelectTransport, Connector!ConnectorAccepted, Connector!DefaultDeclared
<1> QED
  BY <1>2 DEF Connector!ConnectorAccepted, Connector!TransportsOk

\* What an accepted connector waits for is written by an input or an output.
LEMMA Activation ==
    ASSUME NEW c
    PROVE  Connector!ActivationIsReachable(c)
<1> SUFFICES ASSUME Connector!ConnectorAccepted(c), NEW p \in c.activation
             PROVE  LET writes(declared) == p[2] \in DOMAIN declared /\ declared[p[2]].storage = p[1]
                    IN /\ writes(c.inputs) # writes(c.outputs)
                       /\ writes(c.outputs) => c.outputs[p[2]].options \cup c.outputs[p[2]].request # {}
  BY DEF Connector!ActivationIsReachable
<1> DEFINE In == p[2] \in DOMAIN c.inputs /\ c.inputs[p[2]].storage = p[1]
           Out == p[2] \in DOMAIN c.outputs /\ c.outputs[p[2]].storage = p[1]
<1>1. p \in Connector!Paths(c.inputs) <=> p = <<p[1], p[2]>> /\ In
  BY DEF Connector!Paths
<1>2. p \in Connector!Paths(c.outputs) <=> p = <<p[1], p[2]>> /\ Out
  BY DEF Connector!Paths
<1>3. p = <<p[1], p[2]>> /\ (In \/ Out)
  BY <1>1, <1>2 DEF Connector!ConnectorAccepted, Connector!ContractRefs, Connector!DeclaredPaths
<1>4. ~(In /\ Out)
  BY <1>1, <1>2, <1>3 DEF Connector!ConnectorAccepted, Connector!ContractRefs, Connector!SecretsUnique,
     Connector!OutputOk, Connector!InputOk
<1>5. Out => c.outputs[p[2]].options \cup c.outputs[p[2]].request # {}
  BY DEF Connector!ConnectorAccepted, Connector!OutputOk
<1> QED
  BY <1>3, <1>4, <1>5

\* A search for the first index with a property finds it, and none before it has it.
LEMMA FirstOf ==
    ASSUME NEW S \in SUBSET Nat, S # {}
    PROVE  LET m == CHOOSE i \in S : \A j \in S : i <= j IN m \in S /\ \A j \in S : m <= j
BY LeastNat

\* The text ahead of a stop is a prefix without one, and the stop follows it.
LEMMA AheadOfTheStop ==
    ASSUME NEW C, NEW text \in Seq(C), NEW stops
    PROVE  LET n == Len(Connector!UpTo(text, stops))
           IN /\ n \in 0..Len(text)
              /\ \A i \in 1..n : text[i] \notin stops
              /\ n < Len(text) => text[n + 1] \in stops
<1> DEFINE at == {i \in DOMAIN text : text[i] \in stops}
           m == CHOOSE i \in at : \A j \in at : i <= j
<1>1. at \subseteq 1..Len(text) /\ at \in SUBSET Nat
  OBVIOUS
<1>2. CASE at = {}
  BY <1>2 DEF Connector!UpTo
<1>3. CASE at # {}
  <2>1. m \in at /\ \A j \in at : m <= j
    BY <1>1, <1>3, FirstOf
  <2>2. Connector!UpTo(text, stops) = SubSeq(text, 1, m - 1)
    BY <1>3 DEF Connector!UpTo
  <2>3. m \in 1..Len(text)
    BY <2>1
  <2> HIDE DEF m
  <2>4. Len(SubSeq(text, 1, m - 1)) = m - 1
    BY <2>3
  <2> QED
    BY <2>1, <2>2, <2>3, <2>4
<1> QED
  BY <1>2, <1>3

\* The credentials the URL parser finds ahead of a stop are those the check sees.
LEMMA Credentials ==
    ASSUME NEW C, NEW text \in Seq(C)
    PROVE  Connector!CredentialsAreSeen(text)
<1> DEFINE after == Len(Connector!UpTo(text, {":"} \cup Connector!Closing)) + 1
           from == IF after <= Len(text) /\ text[after] = ":" /\ after > 1 THEN after + 1 ELSE 1
           authority == Connector!UpTo(SubSeq(text, from + 2, Len(text)), Connector!Closing)
           opens == {i \in 1..(Len(text) - 1) : text[i] = "/" /\ text[i + 1] = "/"}
           first == CHOOSE i \in opens : \A j \in opens : i <= j
<1> SUFFICES ASSUME from < Len(text), text[from] = "/", text[from + 1] = "/"
             PROVE  Connector!UrlAuthority(text) = authority
  BY Zenon DEF Connector!CredentialsAreSeen
<1>1. /\ after \in 1..(Len(text) + 1)
      /\ \A i \in 1..(after - 1) : text[i] \notin {":"} \cup Connector!Closing
  BY AheadOfTheStop
<1>2. from \in 1..(Len(text) - 1) /\ \A i \in 1..(from - 1) : text[i] \notin Connector!Closing
  <2> HIDE DEF after
  <2>1. from \in 1..(Len(text) - 1)
    BY <1>1
  <2>2. ":" \notin Connector!Closing
    BY DEF Connector!Closing
  <2> QED
    BY <1>1, <2>1, <2>2
<1> HIDE DEF from
<1>3. from \in opens /\ \A j \in opens : from <= j
  BY <1>2 DEF Connector!Closing
<1>4. first = from
  <2>1. first \in opens /\ \A j \in opens : first <= j
    BY <1>3, FirstOf
  <2> QED
    BY <1>3, <2>1
<1>5. Connector!UrlAuthority(text) = Connector!UpTo(SubSeq(text, first + 2, Len(text)), Connector!Closing)
  <2>1. opens # {} /\ ~ \E i \in 1..(first - 1) : text[i] \in Connector!Closing
    BY <1>2, <1>3, <1>4
  <2> QED
    BY <2>1, Zenon DEF Connector!UrlAuthority
<1> QED
  BY <1>4, <1>5

-----------------------------------------------------------------------------
(* Columns, endpoints and the published rules.                               *)

\* What the walk says of one node other than of its native type, the models refuse.
LEMMA OneNode ==
    ASSUME NEW node, node.kind = "dict", ~Columns!None(node.arrow)
    PROVE  Columns!NodeComplaints(node) \ {"pairing"} = {} <=> Columns!FieldSpec(node)
<1> DEFINE hasProps == ~Columns!None(node.props)
           hasItems == ~Columns!None(node.items)
           mapped == Columns!IsMap(node.props) /\ node.props # {}
           well == /\ node.arrow = "Object" => mapped /\ ~hasItems
                   /\ node.arrow = "List" => Columns!IsMap(node.items) /\ ~hasProps
                   /\ node.arrow \notin {"Object", "List"} => ~hasProps /\ ~hasItems
           Says(complaint, holds) == IF holds THEN {complaint} ELSE {}
           unpaired == (~Columns!None(node.arrow)) # node.native
           unknown == ~Columns!None(node.arrow) /\ node.arrow \notin Columns!Spelled
           marks == Says("vocabulary", unknown)
                    \cup Says("crossBound", node.arrow = "broken")
                    \cup Says("pairing", unpaired)
           parts == CASE ~~Columns!None(node.arrow) -> {}
                     [] node.arrow = "Object" ->
                          Says("properties", ~Columns!IsMap(node.props) \/ node.props = {})
                          \cup Says("hasItems", hasItems)
                     [] node.arrow = "List" -> Says("items", ~Columns!IsMap(node.items))
                                               \cup Says("hasProperties", hasProps)
                     [] OTHER -> Says("container", hasProps \/ hasItems)
<1>1. Columns!NodeComplaints(node) = marks \cup parts
  BY DEF Columns!NodeComplaints
<1>2. marks \ {"pairing"} = {} <=> node.arrow \in Columns!Spelled /\ node.arrow # "broken"
  <2>1. unknown <=> node.arrow \notin Columns!Spelled
    OBVIOUS
  <2> HIDE DEF unpaired, unknown
  <2>2. marks \ {"pairing"} = {} <=> ~unknown /\ node.arrow # "broken"
    OBVIOUS
  <2> QED
    BY <2>1, <2>2
<1>3. parts \ {"pairing"} = {} <=> well
  <2>1. CASE node.arrow = "Object"
    <3>1. parts = Says("properties", ~Columns!IsMap(node.props) \/ node.props = {}) \cup Says("hasItems", hasItems)
      BY <2>1
    <3> HIDE DEF parts
    <3> QED
      BY <2>1, <3>1
  <2>2. CASE node.arrow = "List"
    <3>1. parts = Says("items", ~Columns!IsMap(node.items)) \cup Says("hasProperties", hasProps)
      BY <2>2
    <3> HIDE DEF parts
    <3> QED
      BY <2>2, <3>1
  <2>3. CASE node.arrow \notin {"Object", "List"}
    <3>1. parts = Says("container", hasProps \/ hasItems)
      BY <2>3
    <3> HIDE DEF parts
    <3> QED
      BY <2>3, <3>1
  <2> QED
    BY <2>1, <2>2, <2>3
<1>4. Columns!FieldSpec(node) <=> node.arrow \in Columns!Spelled /\ node.arrow # "broken" /\ well
  <2>1. /\ Columns!IsMap(node.props) => hasProps
        /\ Columns!IsMap(node.items) => hasItems
    BY DEF Columns!IsMap, Columns!None
  <2>2. Columns!FieldSpec(node) <=>
          /\ node.arrow \in Columns!Spelled
          /\ Columns!None(node.props) \/ Columns!IsMap(node.props)
          /\ Columns!None(node.items) \/ Columns!IsMap(node.items)
          /\ Columns!ContainerShape(node.arrow, node.props, node.items)
    BY DEF Columns!FieldSpec
  <2>3. CASE node.arrow = "Object"
    BY <2>1, <2>2, <2>3 DEF Columns!ContainerShape
  <2>4. CASE node.arrow = "List"
    BY <2>1, <2>2, <2>4 DEF Columns!ContainerShape
  <2>5. CASE node.arrow \notin {"Object", "List"}
    BY <2>1, <2>2, <2>5 DEF Columns!ContainerShape
  <2> QED
    BY <2>3, <2>4, <2>5
<1> HIDE DEF marks, parts, well
<1> QED
  BY <1>1, <1>2, <1>3, <1>4

\* One node: the models ask of it what the published schema asks, and its native
\* type.
LEMMA PublishedNode ==
    ASSUME NEW node, Absent \notin Columns!Spelled
    PROVE  Columns!FieldSpec(node) <=>
              /\ Columns!TypeIs(node.props, "null") \/ Columns!TypeIs(node.props, "object")
              /\ Columns!TypeIs(node.items, "null") \/ Columns!TypeIs(node.items, "object")
              /\ node.kind = "dict" /\ node.arrow \in Columns!Spelled
              /\ Columns!ContainerRules(node)
              /\ node.arrow # "broken"
BY DEF Columns!FieldSpec, Columns!ContainerShape, Columns!None, Columns!IsMap, Columns!TypeIs,
       Columns!ContainerRules, Columns!Spelled, Columns!Scalars

\* The models, the published schema and the walk agree on a table of nodes.
LEMMA Matrix ==
    ASSUME NEW t, Absent \notin Columns!Spelled
    PROVE  Columns!OneMatrix(t)
<1> DEFINE W == Columns!Within(t)
<1>1. ASSUME Columns!Typed(t)
      PROVE  Columns!WalkComplaints(t) \ {"pairing"} = {} <=> Columns!ColumnAccepted(t)
  <2>1. \A n \in W : Columns!NodeComplaints(t[n]) \ {"pairing"} = {} <=> Columns!FieldSpec(t[n])
    BY <1>1, OneNode DEF Columns!Typed
  <2>2. Columns!WalkComplaints(t) \ {"pairing"} = {}
          <=> \A n \in W : Columns!NodeComplaints(t[n]) \ {"pairing"} = {}
    BY DEF Columns!WalkComplaints
  <2> QED
    BY <2>1, <2>2 DEF Columns!ColumnAccepted
<1>2. Columns!ColumnAccepted(t) <=> /\ Columns!PublishedAccepts(t)
                                    /\ \A n \in W : t[n].arrow # "broken"
  <2>1. \A n \in W : Columns!FieldSpec(t[n]) <=>
              /\ Columns!TypeIs(t[n].props, "null") \/ Columns!TypeIs(t[n].props, "object")
              /\ Columns!TypeIs(t[n].items, "null") \/ Columns!TypeIs(t[n].items, "object")
              /\ t[n].kind = "dict" /\ t[n].arrow \in Columns!Spelled
              /\ Columns!ContainerRules(t[n])
              /\ t[n].arrow # "broken"
    BY PublishedNode
  <2> HIDE DEF W
  <2>2. Columns!ColumnAccepted(t) <=> \A n \in W : Columns!FieldSpec(t[n])
    BY DEF Columns!ColumnAccepted, W
  <2>3. Columns!PublishedAccepts(t) <=> \A n \in W :
              /\ Columns!TypeIs(t[n].props, "null") \/ Columns!TypeIs(t[n].props, "object")
              /\ Columns!TypeIs(t[n].items, "null") \/ Columns!TypeIs(t[n].items, "object")
              /\ t[n].kind = "dict" /\ t[n].arrow \in Columns!Spelled
              /\ Columns!ContainerRules(t[n])
    BY DEF Columns!PublishedAccepts, W
  <2> QED
    BY <2>1, <2>2, <2>3
<1> QED
  BY <1>1, <1>2 DEF Columns!OneMatrix

\* The cardinality of the instance is the one the library's theorems are about.
LEMMA SameCount ==
    ASSUME NEW S
    PROVE  Columns!Cardinality(S) = Cardinality(S)
BY DEF Columns!Cardinality, Cardinality

\* A key of a database endpoint is one column of it.
LEMMA OneColumn ==
    ASSUME NEW p, Columns!DatabaseAccepted(p), NEW key \in p.primary_keys
    PROVE  Columns!Cardinality({i \in DOMAIN p.columns : p.columns[i].name = key}) = 1
<1> DEFINE S == {i \in DOMAIN p.columns : p.columns[i].name = key}
<1>1. PICK i \in DOMAIN p.columns : p.columns[i].name = key
  BY DEF Columns!DatabaseAccepted
<1>2. S = {i}
  BY <1>1 DEF Columns!DatabaseAccepted
<1> QED
  BY <1>2, FS_Singleton, SameCount

\* An endpoint is read by the model its schema names, and by no other.
LEMMA Endpoints ==
    ASSUME NEW p, Absent \notin {"database", "api"}
    PROVE  Columns!ReadAsItsKind(p)
<1>1. /\ Columns!DatabaseAccepted(p) => p.schema = "database"
      /\ Columns!ApiAccepted(p) => p.schema = "api"
  BY DEF Columns!DatabaseAccepted, Columns!ApiAccepted
<1>2. Columns!ParseEndpoint(p) <=> Columns!DatabaseAccepted(p) \/ Columns!ApiAccepted(p)
  <2>1. CASE p.schema = "database"
    BY <1>1, <2>1 DEF Columns!ParseEndpoint
  <2>2. CASE p.schema = "api"
    BY <1>1, <2>2 DEF Columns!ParseEndpoint
  <2>3. CASE p.schema \notin {"database", "api"}
    BY <1>1, <2>3 DEF Columns!ParseEndpoint
  <2> QED
    BY <2>1, <2>2, <2>3
<1>3. ASSUME Columns!ParseEndpoint(p), p.schema = "database"
      PROVE  Columns!DatabaseAccepted(p)
  BY <1>3 DEF Columns!ParseEndpoint
<1> QED
  BY <1>2, <1>3, OneColumn DEF Columns!ReadAsItsKind

\* A block of a published rule: a case of its kind, each key with one of its values.
Block(b) ==
    /\ b.kind \in DOMAIN Mirrors!Keys /\ b.case \in Mirrors!CasesOf(b.kind)
    /\ \A key \in Mirrors!Keys[b.kind] : b.at[key] \in Mirrors!ValuesOf(b.kind, key)

\* What is compared of a block, by its kind.
LEMMA VerdictsOf ==
    ASSUME NEW b
    PROVE  LET Compared(model, published) == /\ Mirrors!Verdicts(b).model <=> Mirrors!Typed(b) /\ model
                                             /\ Mirrors!Verdicts(b).published <=> Mirrors!Typed(b) /\ published
           IN /\ b.kind = "predicate" =>
                     Compared(Mirrors!ExactlyOneOperator(b), Mirrors!PREDICATE_EXACTLY_ONE_OPERATOR(b))
              /\ b.kind = "adbc" =>
                     Compared(Mirrors!RequireDsnOrKwargs(b), Mirrors!AdbcSchema(b))
              /\ b.kind = "error_map" =>
                     Compared(Mirrors!KeyAttrsAndCodesTogether(b), Mirrors!ErrorMapSchema(b))
              /\ b.kind = "stage" =>
                     Compared(Mirrors!DedicatedSchemaMatchesScope(b), Mirrors!StageSchema(b))
              /\ b.kind = "bulk_load" =>
                     Compared(Mirrors!NullIsNotAMechanism(b), Mirrors!EnumBranchOnly(b))
              /\ b.kind = "write_unit" =>
                     Compared(Mirrors!AtLeastOneBound(b), Mirrors!WriteUnitSchema(b))
              /\ b.kind = "file_like" =>
                     Compared(Mirrors!RejectPostAuthContract(b), Mirrors!FileLikeSchema(b))
              /\ b.kind = "type_map" =>
                     Compared(Mirrors!AtLeastOneDirection(b), Mirrors!TypeMapSchema(b))
              /\ b.kind = "namespace" =>
                     Compared(Mirrors!RejectExplicitNullNamespaces(b), Mirrors!NormalizeNamespaces(b))
              /\ b.kind = "param" =>
                     Compared(Mirrors!ContainerParam(b), Mirrors!PARAM_SCHEMA_RULES(b))
              /\ b.kind = "request" =>
                     Compared(Mirrors!PathParamsPresent(b), Mirrors!REQUEST_SCHEMA_RULES(b))
              /\ b.kind = "operations" =>
                     Compared(Mirrors!AtLeastOneOperation(b), Mirrors!OperationsSchema(b))
              /\ b.kind = "write_mode" =>
                     Compared(Mirrors!ConflictKeysByMode(b), Mirrors!EncodeConflictKeys(b))
              /\ b.kind = "write" =>
                     Compared(Mirrors!OneKeyPerRecord(b) /\ Mirrors!FormIsOneRecord(b), Mirrors!WriteSchema(b))
              /\ b.kind = "filter" =>
                     Compared(Mirrors!ValuePresence(b), Mirrors!FILTER_CONDITIONAL_RULES(b))
              /\ b.kind = "rule" =>
                     Compared(Mirrors!ValueForRule(b), Mirrors!VALIDATION_RULE_CONDITIONAL_RULES(b))
              /\ b.kind = "constant" =>
                     Compared(Mirrors!ConstantKind(b), Mirrors!CONSTANT_VALUE_SCHEMA_RULES(b))
              /\ b.kind = "retry" =>
                     Compared(Mirrors!RetryFields(b), Mirrors!RETRY_CONDITIONAL_RULES(b))
              /\ b.kind = "schedule" =>
                     Compared(Mirrors!ScheduleFields(b), Mirrors!SCHEDULE_CONDITIONAL_RULES(b))
              /\ b.kind = "pipeline" =>
                     Compared(Mirrors!ActiveRequiresStreams(b), Mirrors!ACTIVE_REQUIRES_STREAMS_RULE(b))
              /\ b.kind = "run_status" =>
                     Compared(Mirrors!ErrorMatchesStatus(b), Mirrors!RunStatusSchema(b))
              /\ b.kind = "post_auth" =>
                     Compared(Mirrors!ModeConsistency(b), Mirrors!PostAuthRule(b))
              /\ b.kind = "discovery" =>
                     Compared(Mirrors!EntrypointMatchesType(b), Mirrors!DiscoveryRule(b))
              /\ b.kind = "input" =>
                     Compared(Mirrors!SecretMatchesStorage(b), Mirrors!InputRule(b))
BY DEF Mirrors!Verdicts

\* A validator and its mirror accept the same blocks, of every kind.
LEMMA MirrorsHold ==
    ASSUME NEW b, Block(b)
    PROVE  Mirrors!MirrorsAgree(b)
<1> USE VerdictsOf
        DEF Block, Mirrors!MirrorsAgree, Mirrors!ByPresence, Mirrors!Rendered, Mirrors!Plain,
        Mirrors!Wider, Mirrors!Stricter, Mirrors!Typed, Mirrors!Of, Mirrors!NeverEmpty, Mirrors!NeverNull,
        Mirrors!Keys, Mirrors!Cases, Mirrors!CasesOf, Mirrors!ValuesOf, Mirrors!Given, Mirrors!Truthy,
        Mirrors!GivenKeys, Mirrors!Present, Mirrors!IsNull, Mirrors!Usable
<1>1. CASE b.kind = "predicate"
  <2>1. Mirrors!GivenKeys(b) = {key \in Mirrors!Keys.predicate : Mirrors!Usable(b, key)}
    BY <1>1
  <2>2. Mirrors!ExactlyOneOperator(b) <=> Mirrors!PREDICATE_EXACTLY_ONE_OPERATOR(b)
    BY <2>1 DEF Mirrors!ExactlyOneOperator, Mirrors!PREDICATE_EXACTLY_ONE_OPERATOR
  <2> QED
    BY <1>1, <2>2
<1>2. CASE b.kind = "adbc"
  BY <1>2 DEF Mirrors!RequireDsnOrKwargs, Mirrors!AdbcSchema
<1>3. CASE b.kind = "error_map"
  BY <1>3 DEF Mirrors!KeyAttrsAndCodesTogether, Mirrors!ErrorMapSchema
<1>4. CASE b.kind = "stage"
  BY <1>4 DEF Mirrors!DedicatedSchemaMatchesScope, Mirrors!StageSchema
<1>5. CASE b.kind = "bulk_load"
  BY <1>5 DEF Mirrors!NullIsNotAMechanism, Mirrors!EnumBranchOnly
<1>6. CASE b.kind = "write_unit"
  BY <1>6 DEF Mirrors!AtLeastOneBound, Mirrors!WriteUnitSchema
<1>7. CASE b.kind = "file_like"
  BY <1>7 DEF Mirrors!RejectPostAuthContract, Mirrors!FileLikeSchema
<1>8. CASE b.kind = "type_map"
  BY <1>8 DEF Mirrors!AtLeastOneDirection, Mirrors!TypeMapSchema
<1>9. CASE b.kind = "namespace"
  BY <1>9 DEF Mirrors!RejectExplicitNullNamespaces, Mirrors!NormalizeNamespaces
<1>10. CASE b.kind = "param"
  BY <1>10 DEF Mirrors!ContainerParam, Mirrors!PARAM_SCHEMA_RULES
<1>11. CASE b.kind = "request"
  BY <1>11 DEF Mirrors!PathParamsPresent, Mirrors!REQUEST_SCHEMA_RULES
<1>12. CASE b.kind = "operations"
  BY <1>12 DEF Mirrors!AtLeastOneOperation, Mirrors!OperationsSchema
<1>13. CASE b.kind = "write_mode"
  BY <1>13 DEF Mirrors!ConflictKeysByMode, Mirrors!EncodeConflictKeys
<1>14. CASE b.kind = "write"
  BY <1>14 DEF Mirrors!OneKeyPerRecord, Mirrors!FormIsOneRecord, Mirrors!WriteSchema
<1>15. CASE b.kind = "filter"
  BY <1>15 DEF Mirrors!ValuePresence, Mirrors!FILTER_CONDITIONAL_RULES
<1>16. CASE b.kind = "rule"
  BY <1>16 DEF Mirrors!ValueForRule, Mirrors!VALIDATION_RULE_CONDITIONAL_RULES
<1>17. CASE b.kind = "constant"
  BY <1>17 DEF Mirrors!ConstantKind, Mirrors!CONSTANT_VALUE_SCHEMA_RULES
<1>18. CASE b.kind = "retry"
  BY <1>18 DEF Mirrors!RetryFields, Mirrors!RETRY_CONDITIONAL_RULES
<1>19. CASE b.kind = "schedule"
  BY <1>19 DEF Mirrors!ScheduleFields, Mirrors!SCHEDULE_CONDITIONAL_RULES
<1>20. CASE b.kind = "pipeline"
  BY <1>20 DEF Mirrors!ActiveRequiresStreams, Mirrors!ACTIVE_REQUIRES_STREAMS_RULE
<1>21. CASE b.kind = "run_status"
  BY <1>21 DEF Mirrors!ErrorMatchesStatus, Mirrors!RunStatusSchema
<1>22. CASE b.kind = "post_auth"
  BY <1>22 DEF Mirrors!ModeConsistency, Mirrors!PostAuthRule
<1>23. CASE b.kind = "discovery"
  BY <1>23 DEF Mirrors!EntrypointMatchesType, Mirrors!DiscoveryRule
<1>24. CASE b.kind = "input"
  BY <1>24 DEF Mirrors!SecretMatchesStorage, Mirrors!InputRule
<1> QED
  BY <1>1, <1>2, <1>3, <1>4, <1>5, <1>6, <1>7, <1>8, <1>9, <1>10, <1>11, <1>12,
     <1>13, <1>14, <1>15, <1>16, <1>17, <1>18, <1>19, <1>20, <1>21, <1>22, <1>23, <1>24

-----------------------------------------------------------------------------
(* Type maps.                                                                *)

\* A bounded range: the numbers of a part are those of its decade, and each decade
\* of the range has a part of its own.
LEMMA Ranges ==
    ASSUME NEW range, range.lo \in 0..99, range.hi \in 0..99, range.lo <= range.hi
    PROVE  TypeMap!RangeIsSpelled(range)
<1> DEFINE lo == range.lo
           hi == range.hi
           lo2 == IF lo > 10 THEN lo ELSE 10
           parts == TypeMap!IntRangeParts(lo, hi)
           Span(dec) == <<dec, IF dec = lo2 \div 10 THEN lo2 % 10 ELSE 0,
                               IF dec = hi \div 10 THEN hi % 10 ELSE 9>>
           Decades == IF hi >= 10 THEN (lo2 \div 10)..(hi \div 10) ELSE {}
           small == <<0, lo, IF hi < 9 THEN hi ELSE 9>>
<1>1. \A p : p \in parts <=> \/ lo <= 9 /\ p = small
                             \/ \E dec \in Decades : p = Span(dec) /\ p[2] <= p[3]
  BY DEF TypeMap!IntRangeParts
<1>2. lo2 \in 10..99 /\ lo2 \div 10 \in 1..9 /\ hi \div 10 \in 0..9
  OBVIOUS
<1>3. ASSUME lo <= 9, NEW n \in Nat
      PROVE  n \in TypeMap!SpeltBy(small) <=> n \in lo..hi /\ n \div 10 = 0
  BY <1>3 DEF TypeMap!SpeltBy
<1>4. ASSUME NEW dec \in Decades, NEW n \in Nat
      PROVE  n \in TypeMap!SpeltBy(Span(dec)) <=> n \in lo..hi /\ n \div 10 = dec
  <2>1. dec \in 1..9 /\ hi >= 10 /\ dec >= lo2 \div 10 /\ dec <= hi \div 10
    BY <1>2
  <2> DEFINE a == Span(dec)[2]
             b == Span(dec)[3]
  <2>2. a \in 0..9 /\ b \in 0..9
    OBVIOUS
  <2>3. n \in TypeMap!SpeltBy(Span(dec)) <=> \E unit \in a..b : n = 10 * dec + unit
    BY DEF TypeMap!SpeltBy
  <2>4. (\E unit \in a..b : n = 10 * dec + unit) <=> 10 * dec + a <= n /\ n <= 10 * dec + b
    <3> HIDE DEF a, b
    <3> QED
      BY <2>1, <2>2
  <2>5. 10 * dec + a <= n /\ n <= 10 * dec + b => n \in lo..hi /\ n \div 10 = dec
    BY <2>1, <2>2
  <2>6. n \in lo..hi /\ n \div 10 = dec => 10 * dec + a <= n /\ n <= 10 * dec + b
    BY <2>1, <2>2
  <2> QED
    BY <2>3, <2>4, <2>5, <2>6
<1>5. \A dec \in Decades : /\ dec \in 1..9 /\ Span(dec)[1] = dec
                            /\ Span(dec)[2] \in 0..9 /\ Span(dec)[3] \in 0..9
  BY <1>2
<1>6. ASSUME NEW n \in lo..hi, n > 9
      PROVE  n \div 10 \in Decades
  <2>1. n \in Nat /\ lo2 <= n /\ n <= hi /\ hi \in Nat /\ hi >= 10
    BY <1>6
  <2>2. n \div 10 \in (lo2 \div 10)..(hi \div 10)
    <3> HIDE DEF lo2, hi
    <3> QED
      BY <1>2, <2>1
  <2> QED
    BY <2>1, <2>2
<1>7. small = <<0, lo, IF hi < 9 THEN hi ELSE 9>>
  OBVIOUS
<1> HIDE DEF Span, Decades, small
<1>8. ASSUME NEW n \in lo..hi
      PROVE  \E p \in parts : n \in TypeMap!SpeltBy(p)
  <2>1. CASE n <= 9
    BY <1>1, <1>3, <2>1
  <2>2. CASE n > 9
    <3>1. PICK dec \in Decades : dec = n \div 10
      BY <1>6, <2>2
    <3>2. n \in TypeMap!SpeltBy(Span(dec))
      BY <1>4, <3>1
    <3>3. Span(dec)[2] <= Span(dec)[3]
      BY <1>5, <3>2 DEF TypeMap!SpeltBy
    <3> QED
      BY <1>1, <3>1, <3>2, <3>3
  <2> QED
    BY <2>1, <2>2
<1>9. ASSUME NEW p \in parts
      PROVE  /\ TypeMap!SpeltBy(p) \subseteq Nat
             /\ \A n \in TypeMap!SpeltBy(p) : n \in lo..hi /\ n \div 10 = p[1]
  <2>1. CASE lo <= 9 /\ p = small
    <3>1. TypeMap!SpeltBy(p) \subseteq Nat
      BY <1>7, <2>1 DEF TypeMap!SpeltBy
    <3> QED
      BY <1>3, <1>7, <2>1, <3>1
  <2>2. ASSUME NEW dec \in Decades, p = Span(dec)
        PROVE  /\ TypeMap!SpeltBy(p) \subseteq Nat
               /\ \A n \in TypeMap!SpeltBy(p) : n \in lo..hi /\ n \div 10 = p[1]
    <3>1. TypeMap!SpeltBy(p) \subseteq Nat
      BY <1>5, <2>2 DEF TypeMap!SpeltBy
    <3> QED
      BY <1>4, <1>5, <2>2, <3>1
  <2> QED
    BY <1>1, <2>1, <2>2
<1>10. ASSUME NEW p \in parts, NEW q \in parts, p[1] = q[1]
      PROVE  p = q
  <2>1. \A r \in parts : (lo <= 9 /\ r = small) \/ (r[1] \in 1..9 /\ r = Span(r[1]))
    BY <1>1, <1>5
  <2> QED
    BY <1>10, <1>7, <2>1
<1> HIDE DEF parts, lo, hi
<1>11. UNION {TypeMap!SpeltBy(part) : part \in parts} = lo..hi
  BY <1>8, <1>9
<1>12. \A p, q \in parts : p # q => TypeMap!SpeltBy(p) \cap TypeMap!SpeltBy(q) = {}
  BY <1>9, <1>10
<1> QED
  BY <1>11, <1>12 DEF TypeMap!RangeIsSpelled, parts, lo, hi

\* The values of the model, by their kind.
LEMMA ValuesAre ==
    ASSUME NEW v \in TypeMap!Value
    PROVE  /\ v[2] \in Nat
           /\ v[1] = "int" => v[2] \in (0..4) \cup {7, 9} /\ v = TypeMap!Num(v[2])
           /\ v[1] # "int" => v \in TypeMap!AllUnits \cup {TypeMap!Padded, TypeMap!Word}
           /\ v[1] = "int" => v \notin TypeMap!AllUnits
BY DEF TypeMap!Value, TypeMap!Num, TypeMap!AllUnits, TypeMap!Unit, TypeMap!Padded, TypeMap!Word

\* The vocabulary: its positions, and the one that names another.
LEMMA FamiliesAre ==
    ASSUME NEW head \in DOMAIN TypeMap!Families
    PROVE  LET P == TypeMap!Families[head]
           IN /\ \E n \in Nat : DOMAIN P = 1..n /\ Len(P) = n
              /\ \A i \in DOMAIN P :
                    /\ P[i].kind \in {"int", "unit", "timezone"} /\ P[i].min \in Nat
                    /\ P[i].kind = "int" => P[i].max \in {2, TypeMap!NoMax}
                    /\ P[i].kind = "unit" => P[i].allowed \subseteq TypeMap!AllUnits
                    /\ P[i].kind # "int" => P[i].ref \notin {P[j].name : j \in DOMAIN P}
              /\ \A i, j \in DOMAIN P : P[i].name = P[j].name => i = j
              /\ \A i, j \in DOMAIN P : P[i].ref = P[j].name =>
                    P[i].kind = "int" /\ P[j].kind = "int" /\ P[i].max = 2 /\ P[j].max = 2 /\ P[j].ref = "none" /\ P[i].min = 0
              /\ "none" \notin {P[j].name : j \in DOMAIN P}
<1> DEFINE F == TypeMap!Families
<1>1. head \in {"Utf8", "Json", "FixedSizeBinary", "Decimal128", "Time64", "Timestamp"}
  BY DEF TypeMap!Families
<1>2. CASE head = "Utf8"
  <2>1. F[head] = <<>>
    BY <1>2 DEF TypeMap!Families
  <2> QED
    BY <2>1
<1>3. CASE head = "Json"
  <2>1. F[head] = <<>>
    BY <1>3 DEF TypeMap!Families
  <2> QED
    BY <2>1
<1>4. CASE head = "FixedSizeBinary"
  <2>1. F[head] = <<TypeMap!IntParam("byte_width", 1, TypeMap!NoMax, "none")>>
    BY <1>4 DEF TypeMap!Families
  <2>2. DOMAIN F[head] = 1..1 /\ Len(F[head]) = 1
    BY <2>1
  <2> QED
    BY <2>1, <2>2 DEF TypeMap!IntParam, TypeMap!UnitParam, TypeMap!TimezoneParam, TypeMap!NoMax, TypeMap!AllUnits, TypeMap!Unit
<1>5. CASE head = "Decimal128"
  <2>1. F[head] = <<TypeMap!IntParam("precision", 1, 2, "none"), TypeMap!IntParam("scale", 0, 2, "precision")>>
    BY <1>5 DEF TypeMap!Families
  <2>2. DOMAIN F[head] = 1..2 /\ Len(F[head]) = 2
    BY <2>1
  <2> QED
    BY <2>1, <2>2 DEF TypeMap!IntParam, TypeMap!UnitParam, TypeMap!TimezoneParam, TypeMap!NoMax, TypeMap!AllUnits, TypeMap!Unit
<1>6. CASE head = "Time64"
  <2>1. F[head] = <<TypeMap!UnitParam({TypeMap!Unit(2)})>>
    BY <1>6 DEF TypeMap!Families
  <2>2. DOMAIN F[head] = 1..1 /\ Len(F[head]) = 1
    BY <2>1
  <2> QED
    BY <2>1, <2>2 DEF TypeMap!IntParam, TypeMap!UnitParam, TypeMap!TimezoneParam, TypeMap!NoMax, TypeMap!AllUnits, TypeMap!Unit
<1>7. CASE head = "Timestamp"
  <2>1. F[head] = <<TypeMap!UnitParam({TypeMap!Unit(1), TypeMap!Unit(2)}), TypeMap!TimezoneParam>>
    BY <1>7 DEF TypeMap!Families
  <2>2. DOMAIN F[head] = 1..2 /\ Len(F[head]) = 2
    BY <2>1
  <2> QED
    BY <2>1, <2>2 DEF TypeMap!IntParam, TypeMap!UnitParam, TypeMap!TimezoneParam, TypeMap!NoMax, TypeMap!AllUnits, TypeMap!Unit
<1> QED
  BY <1>1, <1>2, <1>3, <1>4, <1>5, <1>6, <1>7

\* A read rule, as its model types it.
ReadRule(rule) ==
    /\ rule.match \in {"exact", "regex"} /\ rule.head \in DOMAIN TypeMap!Families
    /\ rule.args \in Seq([k : {"literal"}, v : TypeMap!Value] \cup [k : {"placeholder", "mixed"}, name : STRING])
    /\ \A n \in DOMAIN rule.captures : /\ rule.captures[n].lang \subseteq TypeMap!Value
                                       /\ rule.captures[n].lang # {}

\* The arguments of a rule whose shape is valid, each on a position of its type.
LEMMA ArgumentsAre ==
    ASSUME NEW rule, ReadRule(rule)
    PROVE  LET P == TypeMap!Families[rule.head]
           IN /\ DOMAIN rule.args = 1..Len(rule.args) /\ Len(rule.args) \in Nat
              /\ \A i \in DOMAIN rule.args :
                    /\ rule.args[i].k \in {"literal", "placeholder", "mixed"}
                    /\ rule.args[i].k = "literal" => rule.args[i].v \in TypeMap!Value
              /\ TypeMap!ShapeValid(rule) =>
                    /\ DOMAIN rule.args \subseteq DOMAIN P /\ Len(rule.args) <= Len(P)
                    /\ \A i \in DOMAIN P : i > Len(rule.args) => P[i].optional
                    /\ \A i \in DOMAIN rule.args :
                          rule.args[i].k = "literal" => TypeMap!Admits(P[i], <<>>, rule.args[i].v)
<1> DEFINE P == TypeMap!Families[rule.head]
<1>1. /\ DOMAIN rule.args = 1..Len(rule.args) /\ Len(rule.args) \in Nat
      /\ \A i \in DOMAIN rule.args :
                    /\ rule.args[i].k \in {"literal", "placeholder", "mixed"}
                    /\ rule.args[i].k = "literal" => rule.args[i].v \in TypeMap!Value
  BY DEF ReadRule
<1>2. ASSUME TypeMap!ShapeValid(rule)
      PROVE  /\ DOMAIN rule.args \subseteq DOMAIN P /\ Len(rule.args) <= Len(P)
             /\ \A i \in DOMAIN P : i > Len(rule.args) => P[i].optional
             /\ \A i \in DOMAIN rule.args :
                    rule.args[i].k = "literal" => TypeMap!Admits(P[i], <<>>, rule.args[i].v)
  <2> DEFINE w(d) == [i \in DOMAIN rule.args |-> IF rule.args[i].k = "literal" THEN rule.args[i].v ELSE d]
  <2>1. PICK d \in TypeMap!Dummies : TypeMap!Spelled(rule.head, w(d))
    BY <1>2 DEF TypeMap!ShapeValid
  <2>2. Len(w(d)) = Len(rule.args) /\ DOMAIN w(d) = DOMAIN rule.args
    BY <1>1
  <2>3. PICK n \in Nat : DOMAIN P = 1..n /\ Len(P) = n
    BY FamiliesAre DEF ReadRule
  <2>4. \A i \in DOMAIN rule.args : rule.args[i].k = "literal" => w(d)[i] = rule.args[i].v
    OBVIOUS
  <2>5. /\ Len(w(d)) <= Len(P)
        /\ \A i \in DOMAIN P : i > Len(w(d)) => P[i].optional
        /\ \A i \in DOMAIN w(d) : TypeMap!Admits(P[i], <<>>, w(d)[i])
    BY <2>1 DEF TypeMap!Spelled
  <2> HIDE DEF w, P
  <2> QED
    BY <1>1, <2>2, <2>3, <2>4, <2>5
<1> QED
  BY <1>1, <1>2

\* What is substituted is a type of the grammar when each position admits its value
\* and no value exceeds the sibling that bounds it.
LEMMA CanonicalWhen ==
    ASSUME NEW rule, ReadRule(rule), TypeMap!ShapeValid(rule), NEW w, DOMAIN w = DOMAIN rule.args, Len(w) = Len(rule.args)
    PROVE  LET P == TypeMap!Families[rule.head]
           IN TypeMap!Canonical(rule.head, w) <=>
                 /\ \A i \in DOMAIN rule.args : TypeMap!Admits(P[i], <<>>, w[i])
                 /\ \A i, j \in DOMAIN rule.args : P[i].ref = P[j].name => w[i][2] <= w[j][2]
<1> DEFINE P == TypeMap!Families[rule.head]
           quoted == [i \in DOMAIN w |-> [k |-> "literal", v |-> w[i]]]
<1>1. TypeMap!Spelled(rule.head, w) <=> \A i \in DOMAIN rule.args : TypeMap!Admits(P[i], <<>>, w[i])
  BY ArgumentsAre DEF TypeMap!Spelled
<1>2. TypeMap!CrossParams(rule.head, quoted) <=> \A i, j \in DOMAIN rule.args : P[i].ref = P[j].name => w[i][2] <= w[j][2]
  BY DEF TypeMap!CrossParams
<1> QED
  BY <1>1, <1>2 DEF TypeMap!Canonical

\* The literals are found by the names of their positions.
LEMMA LiteralsAre ==
    ASSUME NEW rule, ReadRule(rule), TypeMap!ShapeValid(rule)
    PROVE  LET P == TypeMap!Families[rule.head]
               L == TypeMap!LiteralsOf(rule)
               at == {i \in DOMAIN rule.args : rule.args[i].k = "literal"}
           IN /\ DOMAIN L = {P[i].name : i \in at}
              /\ \A i \in at : L[P[i].name] = rule.args[i].v
<1> DEFINE P == TypeMap!Families[rule.head]
           at == {i \in DOMAIN rule.args : rule.args[i].k = "literal"}
<1>1. at \subseteq DOMAIN P
  BY ArgumentsAre
<1>2. \A i, j \in DOMAIN P : P[i].name = P[j].name => i = j
  BY FamiliesAre DEF ReadRule
<1>3. \A i \in at : (CHOOSE j \in at : P[j].name = P[i].name) = i
  BY <1>1, <1>2
<1> DEFINE named == {P[i].name : i \in at}
           value(n) == rule.args[CHOOSE j \in at : P[j].name = n].v
<1>4. TypeMap!LiteralsOf(rule) = [n \in named |-> value(n)]
  BY DEF TypeMap!LiteralsOf
<1>5. \A i \in at : P[i].name \in named /\ value(P[i].name) = rule.args[i].v
  BY <1>3
<1> HIDE DEF named, value
<1>6. /\ DOMAIN TypeMap!LiteralsOf(rule) = named
      /\ \A i \in at : TypeMap!LiteralsOf(rule)[P[i].name] = rule.args[i].v
  BY <1>4, <1>5
<1> QED
  BY <1>6 DEF named

\* A literal bounds the sibling that names it, and tightens that sibling's own bound.
LEMMA BoundedByLiterals ==
    ASSUME NEW rule, ReadRule(rule), TypeMap!ShapeValid(rule), NEW i \in DOMAIN rule.args, NEW v \in TypeMap!Value
    PROVE  LET P == TypeMap!Families[rule.head]
           IN TypeMap!Admits(P[i], TypeMap!LiteralsOf(rule), v) <=>
                 /\ TypeMap!Admits(P[i], <<>>, v)
                 /\ \A j \in DOMAIN rule.args :
                       rule.args[j].k = "literal" /\ P[i].ref = P[j].name => v[2] <= rule.args[j].v[2]
<1> DEFINE P == TypeMap!Families[rule.head]
           L == TypeMap!LiteralsOf(rule)
           at == {j \in DOMAIN rule.args : rule.args[j].k = "literal"}
<1>1. at \subseteq DOMAIN P /\ i \in DOMAIN P
  BY ArgumentsAre
<1>2. DOMAIN L = {P[j].name : j \in at} /\ \A j \in at : L[P[j].name] = rule.args[j].v
  BY LiteralsAre
<1>3. TypeMap!MaxOf(P[i], <<>>) = P[i].max
  BY DEF TypeMap!MaxOf
<1>4. CASE P[i].kind # "int"
  <2>1. P[i].ref \notin {P[j].name : j \in DOMAIN P}
    BY <1>1, <1>4, FamiliesAre DEF ReadRule
  <2> QED
    BY <1>1, <1>4, <2>1 DEF TypeMap!Admits
<1>5. CASE P[i].kind = "int" /\ P[i].ref \notin DOMAIN L
  BY <1>2, <1>3, <1>5 DEF TypeMap!Admits, TypeMap!MaxOf
<1>6. CASE P[i].kind = "int" /\ P[i].ref \in DOMAIN L
  <2>1. PICK j \in at : P[j].name = P[i].ref
    BY <1>2, <1>6
  <2>2. P[j].kind = "int" /\ P[i].max = 2 /\ P[j].max = 2
    BY <1>1, <2>1, FamiliesAre DEF ReadRule
  <2>3. TypeMap!Admits(P[j], <<>>, rule.args[j].v)
    BY <2>1, ArgumentsAre
  <2>4. rule.args[j].v[1] = "int" /\ rule.args[j].v[2] <= 2
    BY <2>2, <2>3 DEF TypeMap!Admits, TypeMap!MaxOf
  <2>5. TypeMap!MaxOf(P[i], L) = rule.args[j].v[2]
    BY <1>2, <2>1, <2>4 DEF TypeMap!MaxOf
  <2>6. \A k \in DOMAIN rule.args : rule.args[k].k = "literal" /\ P[i].ref = P[k].name => k = j
    BY <1>1, <2>1, FamiliesAre DEF ReadRule
  <2>7. v[2] \in Nat /\ rule.args[j].v[2] \in Nat /\ P[i].min \in Nat
    BY <1>1, <2>1, ValuesAre, ArgumentsAre, FamiliesAre DEF ReadRule
  <2> QED
    BY <1>3, <1>6, <2>1, <2>2, <2>4, <2>5, <2>6, <2>7 DEF TypeMap!Admits
<1> QED
  BY <1>4, <1>5, <1>6

\* What the bounds ask of each argument of a rule that is interrogated.
LEMMA TemplateBoundsAre ==
    ASSUME NEW rule, ReadRule(rule), TypeMap!Interrogated(rule)
    PROVE  LET P == TypeMap!Families[rule.head]
               L == TypeMap!LiteralsOf(rule)
           IN TypeMap!TemplateBounds(rule) <=>
                /\ \A i \in DOMAIN rule.args : rule.args[i].k = "placeholder" =>
                      /\ \A v \in TypeMap!Seen(rule, i) : TypeMap!Admits(P[i], L, v)
                      /\ TypeMap!Seen(rule, i) = {} => ~TypeMap!Finite(P[i], L)
                /\ \A i, j \in DOMAIN rule.args :
                      /\ rule.args[i].k = "literal" /\ rule.args[j].k = "placeholder"
                      /\ P[i].ref = P[j].name
                      => \A v \in TypeMap!Seen(rule, j) :
                            TypeMap!Admits(P[j], L, v) => rule.args[i].v[2] <= v[2]
<1> DEFINE P == TypeMap!Families[rule.head]
           L == TypeMap!LiteralsOf(rule)
           Kept(i) == /\ \A v \in TypeMap!Seen(rule, i) : TypeMap!Admits(P[i], L, v)
                      /\ TypeMap!Seen(rule, i) = {} => ~TypeMap!Finite(P[i], L)
           Bounding(i) == \A j \in DOMAIN rule.args :
                             rule.args[j].k = "placeholder" /\ P[i].ref = P[j].name
                             => \A v \in TypeMap!Seen(rule, j) :
                                   TypeMap!Admits(P[j], L, v) => rule.args[i].v[2] <= v[2]
<1>1. TypeMap!TemplateBounds(rule) <=>
        \A i \in DOMAIN rule.args :
           CASE rule.args[i].k = "mixed" -> FALSE
             [] rule.args[i].k = "placeholder" -> TypeMap!ProbesOf(P[i]) # {} => Kept(i)
             [] OTHER -> Bounding(i)
  BY DEF TypeMap!TemplateBounds
<1>2. \A i \in DOMAIN rule.args : /\ rule.args[i].k \in {"literal", "placeholder"}
                                  /\ rule.args[i].k = "placeholder" => TypeMap!ProbesOf(P[i]) # {}
  BY ArgumentsAre DEF TypeMap!Interrogated
<1> HIDE DEF Kept, Bounding
<1>3. TypeMap!TemplateBounds(rule) <=>
        \A i \in DOMAIN rule.args : /\ rule.args[i].k = "placeholder" => Kept(i)
                                    /\ rule.args[i].k = "literal" => Bounding(i)
  BY <1>1, <1>2
<1> QED
  BY <1>3 DEF Kept, Bounding

\* A match whose captures are seen renders a type.
LEMMA SeenRenders ==
    ASSUME NEW rule, ReadRule(rule), TypeMap!Interrogated(rule), TypeMap!Accepted(rule),
           NEW g \in TypeMap!SeenMatches(rule)
    PROVE  TypeMap!Canonical(rule.head, TypeMap!Rendered(rule, g))
<1> DEFINE P == TypeMap!Families[rule.head]
           L == TypeMap!LiteralsOf(rule)
           w == TypeMap!Rendered(rule, g)
<1>1. /\ DOMAIN w = DOMAIN rule.args /\ Len(w) = Len(rule.args)
      /\ \A i \in DOMAIN rule.args : w[i] = IF rule.args[i].k = "literal" THEN rule.args[i].v ELSE g[rule.args[i].name]
  BY ArgumentsAre DEF TypeMap!Rendered
<1> HIDE DEF w
<1>2. CASE rule.match = "exact"
  <2> DEFINE e == [i \in DOMAIN rule.args |-> rule.args[i].v]
             d(x) == [i \in DOMAIN rule.args |-> IF rule.args[i].k = "literal" THEN rule.args[i].v ELSE x]
  <2>1. /\ \A i \in DOMAIN rule.args : rule.args[i].k = "literal"
        /\ TypeMap!Spelled(rule.head, e) /\ TypeMap!CrossParams(rule.head, rule.args)
    BY <1>2 DEF TypeMap!Accepted, TypeMap!ReadExactAccepted, TypeMap!HasPlaceholder
  <2>2. d(TypeMap!Num(1)) = e
    BY <2>1
  <2>3. TypeMap!ShapeValid(rule)
    BY <2>1, <2>2 DEF TypeMap!ShapeValid, TypeMap!Dummies
  <2>4. \A i \in DOMAIN rule.args : TypeMap!Admits(P[i], <<>>, w[i])
    BY <1>1, <2>1, <2>3, ArgumentsAre
  <2>5. \A i, j \in DOMAIN rule.args : P[i].ref = P[j].name => w[i][2] <= w[j][2]
    BY <1>1, <2>1 DEF TypeMap!CrossParams
  <2> QED
    BY <1>1, <2>3, <2>4, <2>5, CanonicalWhen DEF w
<1>3. CASE rule.match # "exact"
  <2>1. TypeMap!ShapeValid(rule) /\ TypeMap!TemplateBounds(rule)
    BY <1>3 DEF TypeMap!Accepted, TypeMap!ReadRegexAccepted
  <2>2. \A i \in DOMAIN rule.args : rule.args[i].k \in {"literal", "placeholder"}
    BY ArgumentsAre DEF TypeMap!Interrogated
  <2>3. ASSUME NEW i \in DOMAIN rule.args, rule.args[i].k = "placeholder"
        PROVE  w[i] \in TypeMap!Seen(rule, i) /\ w[i] \in TypeMap!Value
    BY <1>1, <2>3 DEF TypeMap!SeenMatches, TypeMap!Matches, TypeMap!Seen, TypeMap!Placeholders
  <2>4. ASSUME NEW i \in DOMAIN rule.args, rule.args[i].k = "placeholder"
        PROVE  TypeMap!Admits(P[i], L, w[i])
    BY <2>1, <2>3, <2>4, TemplateBoundsAre
  <2>5. ASSUME NEW i \in DOMAIN rule.args
        PROVE  TypeMap!Admits(P[i], <<>>, w[i])
    <3>1. CASE rule.args[i].k = "literal"
      BY <1>1, <2>1, <3>1, ArgumentsAre
    <3>2. CASE rule.args[i].k = "placeholder"
      BY <2>1, <2>3, <2>4, <3>2, BoundedByLiterals
    <3> QED
      BY <2>2, <3>1, <3>2
  <2>6. ASSUME NEW i \in DOMAIN rule.args, NEW j \in DOMAIN rule.args, P[i].ref = P[j].name
        PROVE  w[i][2] <= w[j][2]
    <3>1. CASE rule.args[i].k = "literal" /\ rule.args[j].k = "literal"
      BY <1>1, <2>1, <2>6, <3>1 DEF TypeMap!ShapeValid, TypeMap!CrossParams
    <3>2. CASE rule.args[i].k = "literal" /\ rule.args[j].k = "placeholder"
      BY <1>1, <2>1, <2>3, <2>4, <2>6, <3>2, TemplateBoundsAre
    <3>3. CASE rule.args[i].k = "placeholder" /\ rule.args[j].k = "literal"
      BY <1>1, <2>1, <2>3, <2>4, <2>6, <3>3, BoundedByLiterals
    <3> QED
      BY <2>2, <2>6, <3>1, <3>2, <3>3 DEF TypeMap!Interrogated
  <2> QED
    BY <1>1, <2>1, <2>5, <2>6, CanonicalWhen DEF w
<1> QED
  BY <1>2, <1>3

\* A value a capture can match that its position does not admit, or that a literal
\* sibling exceeds, leaves the grammar in the match that takes it.
LEMMA MatchLeaves ==
    ASSUME NEW rule, ReadRule(rule), TypeMap!ShapeValid(rule), TypeMap!Interrogated(rule),
           TypeMap!Placeholders(rule) \subseteq DOMAIN rule.captures,
           NEW i \in DOMAIN rule.args, rule.args[i].k = "placeholder",
           NEW v \in rule.captures[rule.args[i].name].lang,
           \/ ~TypeMap!Admits(TypeMap!Families[rule.head][i], TypeMap!LiteralsOf(rule), v)
           \/ \E j \in DOMAIN rule.args :
                 /\ rule.args[j].k = "literal"
                 /\ TypeMap!Families[rule.head][j].ref = TypeMap!Families[rule.head][i].name
                 /\ ~(rule.args[j].v[2] <= v[2])
    PROVE  \E g \in TypeMap!Matches(rule, TypeMap!Value) :
              ~TypeMap!Canonical(rule.head, TypeMap!Rendered(rule, g))
<1> DEFINE P == TypeMap!Families[rule.head]
           L == TypeMap!LiteralsOf(rule)
           all == TypeMap!Placeholders(rule)
           name == rule.args[i].name
           g == [c \in all |-> IF c = name THEN v ELSE CHOOSE x \in rule.captures[c].lang : TRUE]
           w == TypeMap!Rendered(rule, g)
<1>1. name \in all
  BY DEF TypeMap!Placeholders
<1>2. \A c \in all : rule.captures[c].lang \subseteq TypeMap!Value /\ rule.captures[c].lang # {}
  BY DEF ReadRule
<1>3. v \in TypeMap!Value
  BY <1>1, <1>2
<1>4. g \in [all -> TypeMap!Value] /\ \A c \in all : g[c] \in rule.captures[c].lang
  BY <1>1, <1>2
<1>5. g[name] = v
  BY <1>1
<1> HIDE DEF g
<1>6. g \in TypeMap!Matches(rule, TypeMap!Value)
  BY <1>4 DEF TypeMap!Matches
<1>7. /\ DOMAIN w = DOMAIN rule.args /\ Len(w) = Len(rule.args) /\ w[i] = v
      /\ \A j \in DOMAIN rule.args : rule.args[j].k = "literal" => w[j] = rule.args[j].v
  <2>1. DOMAIN rule.args = 1..Len(rule.args) /\ Len(rule.args) \in Nat
    BY ArgumentsAre
  <2>2. w = [j \in DOMAIN rule.args |-> IF rule.args[j].k = "literal" THEN rule.args[j].v ELSE g[rule.args[j].name]]
    BY DEF TypeMap!Rendered
  <2>3. w[i] = v /\ DOMAIN w = DOMAIN rule.args
    BY <1>5, <2>2
  <2>4. Len(w) = Len(rule.args)
    BY <2>1, <2>2
  <2>5. \A j \in DOMAIN rule.args : rule.args[j].k = "literal" => w[j] = rule.args[j].v
    BY <2>2
  <2> HIDE DEF w
  <2> QED
    BY <2>3, <2>4, <2>5
<1> HIDE DEF w
<1>8. ASSUME TypeMap!Canonical(rule.head, w)
      PROVE  FALSE
  <2>1. /\ \A j \in DOMAIN rule.args : TypeMap!Admits(P[j], <<>>, w[j])
        /\ \A j, k \in DOMAIN rule.args : P[j].ref = P[k].name => w[j][2] <= w[k][2]
    BY <1>7, <1>8, CanonicalWhen
  <2>2. TypeMap!Admits(P[i], L, v)
    BY <1>3, <1>7, <2>1, BoundedByLiterals
  <2>3. \A j \in DOMAIN rule.args : rule.args[j].k = "literal" /\ P[j].ref = P[i].name => rule.args[j].v[2] <= v[2]
    BY <1>7, <2>1
  <2> QED
    BY <2>2, <2>3
<1> QED
  BY <1>6, <1>8 DEF w

\* A finite position admits nothing it is not interrogated with.
LEMMA FiniteIsProbed ==
    ASSUME NEW rule, ReadRule(rule), TypeMap!ShapeValid(rule),
           NEW i \in DOMAIN rule.args, NEW v \in TypeMap!Value,
           TypeMap!Finite(TypeMap!Families[rule.head][i], TypeMap!LiteralsOf(rule)),
           v \notin TypeMap!ProbesOf(TypeMap!Families[rule.head][i])
    PROVE  ~TypeMap!Admits(TypeMap!Families[rule.head][i], TypeMap!LiteralsOf(rule), v)
<1> DEFINE P == TypeMap!Families[rule.head]
           L == TypeMap!LiteralsOf(rule)
<1>1. i \in DOMAIN P /\ DOMAIN rule.args \subseteq DOMAIN P
  BY ArgumentsAre
<1>2. P[i].kind \in {"int", "unit", "timezone"} /\ P[i].kind # "timezone"
  BY <1>1, FamiliesAre DEF ReadRule, TypeMap!Finite
<1>3. CASE P[i].kind = "unit"
  <2>1. P[i].allowed \subseteq TypeMap!AllUnits
    BY <1>1, <1>3, FamiliesAre DEF ReadRule
  <2>2. v \notin TypeMap!AllUnits
    BY <1>3 DEF TypeMap!ProbesOf
  <2> QED
    BY <1>3, <2>1, <2>2 DEF TypeMap!Admits
<1>4. CASE P[i].kind = "int"
  <2>1. ASSUME TypeMap!Admits(P[i], L, v)
        PROVE  FALSE
    <3>1. v[1] = "int" /\ v[2] <= TypeMap!MaxOf(P[i], <<>>)
      <4>1. TypeMap!Admits(P[i], <<>>, v)
        BY <2>1, BoundedByLiterals
      <4> QED
        BY <1>4, <4>1 DEF TypeMap!Admits
    <3>2. v[2] = 7
      BY <1>4, <3>1, ValuesAre DEF TypeMap!ProbesOf
    <3>3. TypeMap!MaxOf(P[i], <<>>) = P[i].max
      BY DEF TypeMap!MaxOf
    <3>4. P[i].max = TypeMap!NoMax
      BY <1>1, <1>4, <3>1, <3>2, <3>3, FamiliesAre DEF ReadRule
    <3>5. \A j \in DOMAIN P : P[i].ref # P[j].name
      BY <1>1, <3>4, FamiliesAre DEF ReadRule, TypeMap!NoMax
    <3>6. P[i].ref \notin DOMAIN L
      <4>1. DOMAIN L = {P[j].name : j \in {k \in DOMAIN rule.args : rule.args[k].k = "literal"}}
        BY LiteralsAre
      <4> HIDE DEF L
      <4> QED
        BY <1>1, <3>5, <4>1
    <3>7. TypeMap!MaxOf(P[i], L) = TypeMap!NoMax
      BY <3>4, <3>6 DEF TypeMap!MaxOf
    <3> QED
      BY <1>4, <3>7 DEF TypeMap!Finite
  <2> QED
    BY <2>1
<1> QED
  BY <1>2, <1>3, <1>4

\* A rule refused for its bounds has a match that renders no type.
LEMMA RefusedLeaves ==
    ASSUME NEW rule, ReadRule(rule), TypeMap!ShapeValid(rule), TypeMap!Interrogated(rule),
           TypeMap!Placeholders(rule) \subseteq DOMAIN rule.captures, ~TypeMap!TemplateBounds(rule)
    PROVE  \E g \in TypeMap!Matches(rule, TypeMap!Value) :
              ~TypeMap!Canonical(rule.head, TypeMap!Rendered(rule, g))
<1> DEFINE P == TypeMap!Families[rule.head]
           L == TypeMap!LiteralsOf(rule)
           lang(i) == rule.captures[rule.args[i].name].lang
           held(i) == rule.args[i].k = "placeholder"
           literal(i) == rule.args[i].k = "literal"
<1>1. \A i \in DOMAIN rule.args : held(i) => lang(i) \subseteq TypeMap!Value /\ lang(i) # {}
  BY DEF ReadRule, TypeMap!Placeholders
<1>2. \A i \in DOMAIN rule.args : TypeMap!Seen(rule, i) = lang(i) \cap TypeMap!ProbesOf(P[i])
  BY DEF TypeMap!Seen
<1>3. ~ /\ \A i \in DOMAIN rule.args : held(i) =>
              /\ \A v \in TypeMap!Seen(rule, i) : TypeMap!Admits(P[i], L, v)
              /\ TypeMap!Seen(rule, i) = {} => ~TypeMap!Finite(P[i], L)
        /\ \A i, j \in DOMAIN rule.args :
              /\ literal(i) /\ held(j) /\ P[i].ref = P[j].name
              => \A v \in TypeMap!Seen(rule, j) : TypeMap!Admits(P[j], L, v) => rule.args[i].v[2] <= v[2]
  BY TemplateBoundsAre
<1> DEFINE leaves(i, v) ==
             \/ ~TypeMap!Admits(P[i], L, v)
             \/ \E j \in DOMAIN rule.args : literal(j) /\ P[j].ref = P[i].name /\ ~(rule.args[j].v[2] <= v[2])
<1> HIDE DEF lang, P, L, held, literal
<1>4. \E i \in DOMAIN rule.args : held(i) /\ \E v \in lang(i) : leaves(i, v)
  <2>1. CASE \E i \in DOMAIN rule.args : held(i) /\ \E v \in TypeMap!Seen(rule, i) : ~TypeMap!Admits(P[i], L, v)
    BY <1>2, <2>1
  <2>2. CASE \E i \in DOMAIN rule.args : held(i) /\ TypeMap!Seen(rule, i) = {} /\ TypeMap!Finite(P[i], L)
    <3>1. PICK i \in DOMAIN rule.args : held(i) /\ TypeMap!Seen(rule, i) = {} /\ TypeMap!Finite(P[i], L)
      BY <2>2
    <3>2. PICK v \in lang(i) : v \in TypeMap!Value /\ v \notin TypeMap!ProbesOf(P[i])
      BY <1>1, <1>2, <3>1
    <3>3. ~TypeMap!Admits(P[i], L, v)
      BY <3>1, <3>2, FiniteIsProbed DEF P, L
    <3> QED
      BY <3>1, <3>2, <3>3
  <2>3. CASE \E i, j \in DOMAIN rule.args :
                /\ literal(i) /\ held(j) /\ P[i].ref = P[j].name
                /\ \E v \in TypeMap!Seen(rule, j) : TypeMap!Admits(P[j], L, v) /\ ~(rule.args[i].v[2] <= v[2])
    BY <1>2, <2>3
  <2> QED
    BY <1>3, <2>1, <2>2, <2>3
<1>5. PICK i \in DOMAIN rule.args : held(i) /\ \E v \in lang(i) : leaves(i, v)
  BY <1>4
<1>6. PICK v \in lang(i) : leaves(i, v)
  BY <1>5
<1> QED
  BY <1>5, <1>6, MatchLeaves DEF lang, P, L, held, literal, leaves

\* The bounds of a rule are exact.
LEMMA Bounds ==
    ASSUME NEW rule, ReadRule(rule)
    PROVE  TypeMap!BoundsAreExact(rule)
BY SeenRenders, RefusedLeaves DEF TypeMap!BoundsAreExact

-----------------------------------------------------------------------------
(* Streams.                                                                  *)

\* A source whose pages are ordered by something other than its cursor is refused.
LEMMA Checkpoints ==
    ASSUME NEW s
    PROVE  Streams!CheckpointIsHighest(s)
<1>1. SUFFICES ASSUME Streams!SourceOk(s), s.cursor # Absent, s.pagination # Absent,
                      s.pagination.order_by # Absent
               PROVE  \A row, last \in [{s.cursor, s.pagination.order_by} -> 0..1] :
                         row[s.pagination.order_by] < last[s.pagination.order_by] => row[s.cursor] <= last[s.cursor]
  BY DEF Streams!CheckpointIsHighest
<1>2. s.pagination.order_by = s.cursor
  BY <1>1 DEF Streams!SourceOk, Streams!PagesAreOrderedByTheCursor
<1> QED
  BY <1>2

\* Destinations, their objects as records of a catalog, a schema and a name.
Written(ds) ==
    \A i \in DOMAIN ds : ds[i].ref.scope = "connection" =>
        ds[i].ref.object = [catalog |-> ds[i].ref.object.catalog, schema |-> ds[i].ref.object.schema,
                            name |-> ds[i].ref.object.name]

\* Two destinations have one key exactly when they are bound to one object.
LEMMA EndpointsOnce ==
    ASSUME NEW ds, Written(ds)
    PROVE  Streams!EndpointsAreWrittenOnce(ds)
<1> DEFINE key == [i \in DOMAIN ds |-> Streams!DestinationKey(ds[i])]
           bound == [i \in DOMAIN ds |-> Streams!Bound(ds[i].ref)]
<1>1. ASSUME NEW i \in DOMAIN ds, NEW j \in DOMAIN ds
      PROVE  key[i] = key[j] <=> bound[i] = bound[j]
  <2> DEFINE p == ds[i].ref
             q == ds[j].ref
  <2>1. /\ key[i] = <<p.scope, p.connection, Streams!EndpointId(p)>>
        /\ key[j] = <<q.scope, q.connection, Streams!EndpointId(q)>>
    BY DEF Streams!DestinationKey
  <2>2. bound[i] = Streams!Bound(p) /\ bound[j] = Streams!Bound(q)
    OBVIOUS
  <2>3. CASE p.scope = "connection" /\ q.scope = "connection"
    <3>1. Streams!EndpointId(p) = Streams!EndpointId(q) <=> p.object = q.object
      <4>1. Streams!EndpointId(p) = Streams!EndpointId(q) => Streams!HashPayload(p.object) = Streams!HashPayload(q.object)
        BY <2>3 DEF Streams!EndpointId, Streams!DeriveDbEndpointId
      <4>2. Streams!HashPayload(p.object) = Streams!HashPayload(q.object) => p.object = q.object
        BY <2>3 DEF Streams!HashPayload, Written
      <4>3. p.object = q.object => Streams!EndpointId(p) = Streams!EndpointId(q)
        BY <2>3 DEF Streams!EndpointId
      <4> QED
        BY <4>1, <4>2, <4>3
    <3> QED
      BY <2>1, <2>2, <2>3, <3>1 DEF Streams!Bound
  <2>4. CASE p.scope # "connection" /\ q.scope # "connection"
    BY <2>1, <2>2, <2>4 DEF Streams!Bound, Streams!EndpointId
  <2>5. CASE p.scope # q.scope
    BY <2>1, <2>2, <2>5 DEF Streams!Bound
  <2> QED
    BY <2>3, <2>4, <2>5
<1>2. Streams!Distinct(key) <=> Streams!Distinct(bound)
  <2>1. DOMAIN key = DOMAIN ds /\ DOMAIN bound = DOMAIN ds
    OBVIOUS
  <2> HIDE DEF key, bound
  <2> QED
    BY <1>1, <2>1 DEF Streams!Distinct
<1> QED
  BY <1>2 DEF Streams!EndpointsAreWrittenOnce, Streams!DestinationsOk

\* The payload of a rule: a form and, of that form, its numbers.
Payload(r) ==
    LET v == r.value
    IN /\ r.type \in {"min_length", "max_length", "pattern", "range", "in_list"}
       /\ v.form = "int" => v.n \in Int
       /\ v.form = "text" => v.text \in {"empty", "good", "broken", "aloneOnly", "groupedOnly"}
       /\ v.form = "bounds" => v.low[2] \in Int /\ v.high[2] \in Int

\* The lowest number a rule names, or 0, passes it.
LEMMA RowsPass ==
    ASSUME NEW r, Payload(r)
    PROVE  Streams!RulesAdmitARow(r)
<1> DEFINE v == r.value
<1>1. SUFFICES ASSUME Streams!PayloadOk(r), r.type = "range" /\ Streams!Both(v) => Streams!Comparable(v)
               PROVE  \E x \in Streams!Named(v) : Streams!Passes(r, x)
  BY DEF Streams!RulesAdmitARow
<1>2. CASE r.type = "min_length"
  <2>1. v.form = "int" /\ v.n \in Int
    BY <1>1, <1>2 DEF Streams!PayloadOk, Streams!IntegerLength, Payload
  <2>2. v.n \in Streams!Named(v)
    BY <2>1 DEF Streams!Named
  <2> QED
    BY <1>2, <2>1, <2>2 DEF Streams!Passes
<1>3. CASE r.type = "max_length"
  <2>1. v.form = "int" /\ v.n \in Int /\ v.n >= 0
    BY <1>1, <1>3 DEF Streams!PayloadOk, Streams!IntegerLength, Payload
  <2>2. 0 \in Streams!Named(v)
    BY DEF Streams!Named
  <2> QED
    BY <1>3, <2>1, <2>2 DEF Streams!Passes
<1>4. CASE r.type = "pattern"
  <2>1. v.text = "good"
    BY <1>1, <1>4 DEF Streams!PayloadOk, Streams!RegexSource, Payload
  <2>2. 0 \in Streams!Named(v)
    BY DEF Streams!Named
  <2> QED
    BY <1>4, <2>1, <2>2 DEF Streams!Passes
<1>5. CASE r.type = "range"
  <2>1. v.form = "bounds" /\ v.low[2] \in Int /\ v.high[2] \in Int
    BY <1>1, <1>5 DEF Streams!PayloadOk, Streams!BoundsObject, Payload
  <2>2. v.low[2] \in Streams!Named(v) /\ v.high[2] \in Streams!Named(v)
    BY <2>1 DEF Streams!Named
  <2>3. CASE v.low = Streams!NoBound
    BY <1>5, <2>1, <2>2, <2>3 DEF Streams!Passes
  <2>4. CASE v.low # Streams!NoBound
    <3>1. v.high = Streams!NoBound \/ v.low[2] <= v.high[2]
      BY <1>1, <1>5, <2>4 DEF Streams!PayloadOk, Streams!BoundsObject, Streams!Both
    <3> QED
      BY <1>5, <2>1, <2>2, <3>1 DEF Streams!Passes
  <2> QED
    BY <2>3, <2>4
<1>6. CASE r.type = "in_list"
  <2>1. v.form = "list" /\ v.members # {}
    BY <1>1, <1>6 DEF Streams!PayloadOk, Streams!ValueSet
  <2>2. v.members \subseteq Streams!Named(v)
    BY <2>1 DEF Streams!Named
  <2> QED
    BY <1>6, <2>1, <2>2 DEF Streams!Passes
<1> QED
  BY <1>2, <1>3, <1>4, <1>5, <1>6 DEF Payload

\* A table of nodes, children after their parents.
Table(nodes) ==
    /\ \E N \in Nat : DOMAIN nodes = 1..N
    /\ \A n \in DOMAIN nodes :
          /\ \A token \in DOMAIN nodes[n].props :
                /\ token \in STRING
                /\ nodes[n].props[token] \in DOMAIN nodes /\ nodes[n].props[token] > n
          /\ nodes[n].items # 0 => nodes[n].items \in DOMAIN nodes /\ nodes[n].items > n

\* What holds of a table's last nodes on, and of a node when of the ones after it,
\* holds of them all.
LEMMA FromTheLast ==
    ASSUME NEW N \in Nat, NEW H \in SUBSET (1..(N + 1)), N + 1 \in H,
           \A k \in 1..N : k + 1 \in H => k \in H
    PROVE  1 \in H
<1>1. PICK m \in H : \A k \in H : m <= k
  BY LeastNat
<1>2. CASE m > 1
  <2>1. m - 1 \in 1..N /\ (m - 1) + 1 = m
    BY <1>1, <1>2
  <2>2. m - 1 \in H
    BY <1>1, <2>1
  <2> QED
    BY <1>1, <2>1, <2>2
<1> QED
  BY <1>1, <1>2

\* The element of a node exists, and is the one its definition says.
LEMMA ElementIs ==
    ASSUME NEW nodes, Table(nodes)
    PROVE  \A n \in DOMAIN nodes :
              Streams!Element(nodes)[n] =
                  IF DOMAIN nodes[n].props = {} /\ nodes[n].items # 0
                  THEN Streams!Element(nodes)[nodes[n].items] ELSE n
<1> DEFINE E(f, n) == IF DOMAIN nodes[n].props = {} /\ nodes[n].items # 0 THEN f[nodes[n].items] ELSE n
           from(k) == {n \in DOMAIN nodes : n >= k}
           Exists(k) == \E f : f = [n \in from(k) |-> E(f, n)]
<1>1. PICK N \in Nat : DOMAIN nodes = 1..N
  BY DEF Table
<1>2. Exists(N + 1)
  <2>1. from(N + 1) = {}
    BY <1>1
  <2> DEFINE f == [n \in from(N + 1) |-> n]
  <2>2. f = [n \in from(N + 1) |-> E(f, n)]
    BY <2>1
  <2> QED
    BY <2>2
<1>3. ASSUME NEW k \in 1..N, Exists(k + 1)
      PROVE  Exists(k)
  <2>1. PICK f : f = [n \in from(k + 1) |-> E(f, n)]
    BY <1>3
  <2> DEFINE g == [n \in from(k) |-> IF n = k THEN E(f, k) ELSE f[n]]
  <2>2. from(k) = from(k + 1) \cup {k} /\ k \notin from(k + 1)
    BY <1>1
  <2>3. \A n \in from(k + 1) : g[n] = f[n]
    BY <2>2
  <2>4. \A n \in from(k) : nodes[n].items # 0 => nodes[n].items \in from(k + 1)
    BY <1>1 DEF Table
  <2>5. \A n \in from(k) : E(g, n) = E(f, n)
    BY <2>3, <2>4
  <2>6. \A n \in from(k) : g[n] = E(f, n)
    BY <2>1, <2>2
  <2>7. g = [n \in from(k) |-> E(g, n)]
    BY <2>5, <2>6
  <2> QED
    BY <2>7
<1> HIDE DEF Exists
<1> DEFINE H == {k \in 1..(N + 1) : Exists(k)}
<1>4. 1 \in H
  <2>1. N + 1 \in H
    BY <1>2
  <2>2. \A k \in 1..N : k + 1 \in H => k \in H
    BY <1>3
  <2> HIDE DEF H
  <2>3. H \in SUBSET (1..(N + 1))
    BY DEF H
  <2> QED
    BY <2>1, <2>2, <2>3, FromTheLast
<1>5. from(1) = DOMAIN nodes
  BY <1>1
<1>6. \E f : f = [n \in DOMAIN nodes |-> E(f, n)]
  BY <1>4, <1>5 DEF Exists
<1>7. Streams!Element(nodes) = CHOOSE f : f = [n \in DOMAIN nodes |-> E(f, n)]
  BY DEF Streams!Element
<1>8. Streams!Element(nodes) = [n \in DOMAIN nodes |-> E(Streams!Element(nodes), n)]
  <2> HIDE DEF E
  <2> QED
    BY <1>6, <1>7
<1> QED
  BY <1>8

\* The same of the outputs below a node.
LEMMA BelowIs ==
    ASSUME NEW nodes, Table(nodes)
    PROVE  \A n \in DOMAIN nodes :
              Streams!Below(nodes)[n] =
                  {<<>>}
                  \cup (UNION {{<<token>> \o rest : rest \in Streams!Below(nodes)[nodes[n].props[token]]} :
                                token \in DOMAIN nodes[n].props})
                  \cup (IF nodes[n].items = 0 THEN {} ELSE Streams!Below(nodes)[nodes[n].items])
<1> DEFINE E(f, n) == {<<>>}
                      \cup (UNION {{<<token>> \o rest : rest \in f[nodes[n].props[token]]} :
                                    token \in DOMAIN nodes[n].props})
                      \cup (IF nodes[n].items = 0 THEN {} ELSE f[nodes[n].items])
           from(k) == {n \in DOMAIN nodes : n >= k}
           Exists(k) == \E f : f = [n \in from(k) |-> E(f, n)]
<1>1. PICK N \in Nat : DOMAIN nodes = 1..N
  BY DEF Table
<1>2. Exists(N + 1)
  <2>1. from(N + 1) = {}
    BY <1>1
  <2> DEFINE f == [n \in from(N + 1) |-> n]
  <2> HIDE DEF E
  <2>2. f = [n \in from(N + 1) |-> E(f, n)]
    BY <2>1
  <2> QED
    BY <2>2
<1>3. ASSUME NEW k \in 1..N, Exists(k + 1)
      PROVE  Exists(k)
  <2>1. PICK f : f = [n \in from(k + 1) |-> E(f, n)]
    BY <1>3
  <2> DEFINE g == [n \in from(k) |-> IF n = k THEN E(f, k) ELSE f[n]]
  <2>2. from(k) = from(k + 1) \cup {k} /\ k \notin from(k + 1)
    BY <1>1
  <2> HIDE DEF E
  <2>3. \A n \in from(k + 1) : g[n] = f[n]
    BY <2>2
  <2>4. \A n \in from(k) : /\ nodes[n].items # 0 => nodes[n].items \in from(k + 1)
                           /\ \A token \in DOMAIN nodes[n].props : nodes[n].props[token] \in from(k + 1)
    BY <1>1 DEF Table
  <2>5. ASSUME NEW n \in from(k)
        PROVE  E(g, n) = E(f, n)
    <3> HIDE DEF g, from
    <3>1. nodes[n].items # 0 => g[nodes[n].items] = f[nodes[n].items]
      BY <2>3, <2>4
    <3>2. \A token \in DOMAIN nodes[n].props : g[nodes[n].props[token]] = f[nodes[n].props[token]]
      BY <2>3, <2>4
    <3>3. UNION {{<<token>> \o rest : rest \in g[nodes[n].props[token]]} : token \in DOMAIN nodes[n].props}
          = UNION {{<<token>> \o rest : rest \in f[nodes[n].props[token]]} : token \in DOMAIN nodes[n].props}
      BY <3>2
    <3> QED
      BY <3>1, <3>3 DEF E
  <2>6. \A n \in from(k) : g[n] = E(f, n)
    BY <2>1, <2>2
  <2>7. g = [n \in from(k) |-> E(g, n)]
    BY <2>5, <2>6
  <2> QED
    BY <2>7
<1> HIDE DEF Exists
<1> DEFINE H == {k \in 1..(N + 1) : Exists(k)}
<1>4. 1 \in H
  <2>1. N + 1 \in H
    BY <1>2
  <2>2. \A k \in 1..N : k + 1 \in H => k \in H
    BY <1>3
  <2> HIDE DEF H
  <2>3. H \in SUBSET (1..(N + 1))
    BY DEF H
  <2> QED
    BY <2>1, <2>2, <2>3, FromTheLast
<1>5. from(1) = DOMAIN nodes
  BY <1>1
<1>6. \E f : f = [n \in DOMAIN nodes |-> E(f, n)]
  BY <1>4, <1>5 DEF Exists
<1>7. Streams!Below(nodes) = CHOOSE f : f = [n \in DOMAIN nodes |-> E(f, n)]
  BY DEF Streams!Below
<1>8. Streams!Below(nodes) = [n \in DOMAIN nodes |-> E(Streams!Below(nodes), n)]
  <2> HIDE DEF E
  <2> QED
    BY <1>6, <1>7
<1>9. \A n \in DOMAIN nodes : Streams!Below(nodes)[n] = E(Streams!Below(nodes), n)
  <2> HIDE DEF E
  <2> QED
    BY <1>8
<1> QED
  BY <1>9

\* A mapping, its targets and its rule's field over such a table.
Mapping(m) ==
    /\ Table(m.nodes)
    /\ \A i \in DOMAIN m.targets : m.targets[i].node \in DOMAIN m.nodes /\ m.targets[i].path \in STRING
    /\ m.field \in Seq(STRING) /\ m.field # <<>>

\* The same of the walk of a field.
LEMMA WalkIs ==
    ASSUME NEW m, Mapping(m), NEW target
    PROVE  LET walk == Streams!Walk(m, target)
           IN \A k \in DOMAIN m.field :
                 walk[k] = IF k = 1 THEN target.node
                           ELSE IF walk[k - 1] = 0 THEN 0
                           ELSE Streams!DeclaredChild(m.nodes, walk[k - 1], m.field[k])
<1> DEFINE E(f, k) == IF k = 1 THEN target.node
                      ELSE IF f[k - 1] = 0 THEN 0
                      ELSE Streams!DeclaredChild(m.nodes, f[k - 1], m.field[k])
           Exists(n) == \E f : f = [k \in 1..n |-> E(f, k)]
           N == Len(m.field)
<1>1. N \in Nat /\ DOMAIN m.field = 1..N
  BY DEF Mapping
<1> HIDE DEF N
<1>2. Exists(0)
  <2> DEFINE f == [k \in 1..0 |-> k]
  <2> HIDE DEF E
  <2>1. f = [k \in 1..0 |-> E(f, k)]
    OBVIOUS
  <2> QED
    BY <2>1
<1>3. ASSUME NEW n \in Nat, Exists(n)
      PROVE  Exists(n + 1)
  <2>1. PICK f : f = [k \in 1..n |-> E(f, k)]
    BY <1>3
  <2> DEFINE g == [k \in 1..(n + 1) |-> IF k = n + 1 THEN E(f, k) ELSE f[k]]
  <2>2. \A k \in 1..n : g[k] = f[k]
    OBVIOUS
  <2>3. ASSUME NEW k \in 1..(n + 1)
        PROVE  E(g, k) = E(f, k)
    <3>1. CASE k = 1
      BY <3>1
    <3>2. CASE k # 1
      <4>1. k - 1 \in 1..n
        BY <3>2
      <4>2. g[k - 1] = f[k - 1]
        BY <2>2, <4>1
      <4> QED
        BY <4>2
    <3> QED
      BY <3>1, <3>2
  <2> HIDE DEF E
  <2>4. \A k \in 1..(n + 1) : g[k] = E(f, k)
    BY <2>1
  <2>5. g = [k \in 1..(n + 1) |-> E(g, k)]
    BY <2>3, <2>4
  <2> QED
    BY <2>5
<1> HIDE DEF Exists
<1>4. \A n \in Nat : Exists(n)
  <2> DEFINE S == {n \in Nat : ~Exists(n)}
  <2>1. ASSUME S # {}
        PROVE  FALSE
    <3>1. PICK n \in S : \A k \in S : n <= k
      <4> HIDE DEF S
      <4>1. S \in SUBSET Nat
        BY DEF S
      <4> QED
        BY <2>1, <4>1, LeastNat
    <3>2. n # 0 /\ n - 1 \in Nat /\ (n - 1) + 1 = n
      BY <1>2, <3>1
    <3>3. Exists(n - 1)
      BY <3>1, <3>2
    <3>4. Exists(n)
      BY <1>3, <3>2, <3>3
    <3> QED
      BY <3>1, <3>4
  <2> QED
    BY <2>1
<1>5. \E f : f = [k \in DOMAIN m.field |-> E(f, k)]
  <2>1. Exists(N)
    BY <1>1, <1>4
  <2> HIDE DEF E
  <2> QED
    BY <1>1, <2>1 DEF Exists
<1>6. Streams!Walk(m, target) = CHOOSE f : f = [k \in DOMAIN m.field |-> E(f, k)]
  BY DEF Streams!Walk
<1>7. Streams!Walk(m, target) = [k \in DOMAIN m.field |-> E(Streams!Walk(m, target), k)]
  <2> HIDE DEF E
  <2> QED
    BY <1>5, <1>6
<1> QED
  BY <1>7

\* The element of a node is a node that is no list, and the fields below the two
\* that are not empty are the same.
LEMMA ElementEnds ==
    ASSUME NEW nodes, Table(nodes), \A n \in DOMAIN nodes : Streams!ContainerShapeOk(nodes[n])
    PROVE  \A n \in DOMAIN nodes :
              /\ Streams!Element(nodes)[n] \in DOMAIN nodes
              /\ nodes[Streams!Element(nodes)[n]].items = 0
              /\ \A s : s # <<>> => (s \in Streams!Below(nodes)[n] <=> s \in Streams!Below(nodes)[Streams!Element(nodes)[n]])
<1> DEFINE element == Streams!Element(nodes)
           below == Streams!Below(nodes)
           Good(n) == /\ element[n] \in DOMAIN nodes
                      /\ nodes[element[n]].items = 0
                      /\ \A s : s # <<>> => (s \in below[n] <=> s \in below[element[n]])
<1>1. PICK N \in Nat : DOMAIN nodes = 1..N
  BY DEF Table
<1>2. ASSUME NEW k \in 1..N, \A n \in DOMAIN nodes : n >= k + 1 => Good(n)
      PROVE  Good(k)
  <2>1. k \in DOMAIN nodes
    BY <1>1
  <2>2. element[k] = IF DOMAIN nodes[k].props = {} /\ nodes[k].items # 0 THEN element[nodes[k].items] ELSE k
    BY <2>1, ElementIs
  <2>3. CASE nodes[k].items = 0
    BY <2>1, <2>2, <2>3
  <2>4. CASE nodes[k].items # 0
    <3>1. DOMAIN nodes[k].props = {}
      BY <2>1, <2>4 DEF Streams!ContainerShapeOk
    <3>2. nodes[k].items \in DOMAIN nodes /\ nodes[k].items >= k + 1
      BY <1>1, <2>1, <2>4 DEF Table
    <3>3. Good(nodes[k].items) /\ element[k] = element[nodes[k].items]
      BY <1>2, <2>2, <2>4, <3>1, <3>2
    <3>4. below[k] = {<<>>} \cup below[nodes[k].items]
      <4>1. below[k] = {<<>>}
                       \cup (UNION {{<<token>> \o rest : rest \in below[nodes[k].props[token]]} :
                                     token \in DOMAIN nodes[k].props})
                       \cup (IF nodes[k].items = 0 THEN {} ELSE below[nodes[k].items])
        BY <2>1, BelowIs
      <4> HIDE DEF below
      <4> QED
        BY <2>4, <3>1, <4>1
    <3> HIDE DEF below, element
    <3> QED
      BY <3>3, <3>4
  <2> QED
    BY <2>3, <2>4
<1> DEFINE H == {k \in 1..(N + 1) : \A n \in DOMAIN nodes : n >= k => Good(n)}
<1>3. 1 \in H
  <2> HIDE DEF Good
  <2>1. N + 1 \in H
    BY <1>1
  <2>2. ASSUME NEW k \in 1..N, k + 1 \in H
        PROVE  k \in H
    <3>1. \A n \in DOMAIN nodes : n >= k + 1 => Good(n)
      BY <2>2
    <3>2. Good(k)
      BY <1>2, <3>1
    <3>3. \A n \in DOMAIN nodes : n >= k => n = k \/ n >= k + 1
      BY <1>1
    <3> QED
      BY <3>1, <3>2, <3>3
  <2> HIDE DEF H
  <2>3. H \in SUBSET (1..(N + 1))
    BY DEF H
  <2> QED
    BY <2>1, <2>2, <2>3, FromTheLast
<1>4. \A n \in DOMAIN nodes : Good(n)
  <2> HIDE DEF Good
  <2> QED
    BY <1>1, <1>3
<1> QED
  BY <1>4

\* The fields below a node are sequences of tokens, the empty one among them.
LEMMA BelowAreFields ==
    ASSUME NEW nodes, Table(nodes)
    PROVE  \A n \in DOMAIN nodes : Streams!Below(nodes)[n] \subseteq Seq(STRING) /\ <<>> \in Streams!Below(nodes)[n]
<1> DEFINE below == Streams!Below(nodes)
           Good(n) == below[n] \subseteq Seq(STRING) /\ <<>> \in below[n]
<1>1. PICK N \in Nat : DOMAIN nodes = 1..N
  BY DEF Table
<1>2. ASSUME NEW k \in 1..N, \A n \in DOMAIN nodes : n >= k + 1 => Good(n)
      PROVE  Good(k)
  <2>1. k \in DOMAIN nodes
    BY <1>1
  <2>2. below[k] = {<<>>}
                   \cup (UNION {{<<token>> \o rest : rest \in below[nodes[k].props[token]]} :
                                 token \in DOMAIN nodes[k].props})
                   \cup (IF nodes[k].items = 0 THEN {} ELSE below[nodes[k].items])
    BY <2>1, BelowIs
  <2> HIDE DEF below
  <2>3. ASSUME NEW token \in DOMAIN nodes[k].props, NEW rest \in below[nodes[k].props[token]]
        PROVE  <<token>> \o rest \in Seq(STRING)
    <3>1. token \in STRING /\ nodes[k].props[token] \in DOMAIN nodes /\ nodes[k].props[token] >= k + 1
      BY <1>1, <2>1 DEF Table
    <3>2. rest \in Seq(STRING)
      BY <1>2, <3>1
    <3> QED
      BY <3>1, <3>2
  <2>4. nodes[k].items # 0 => below[nodes[k].items] \subseteq Seq(STRING)
    <3>1. nodes[k].items # 0 => nodes[k].items \in DOMAIN nodes /\ nodes[k].items >= k + 1
      BY <1>1, <2>1 DEF Table
    <3> QED
      BY <1>2, <3>1
  <2>5. <<>> \in Seq(STRING)
    OBVIOUS
  <2> DEFINE under(token) == {<<token>> \o rest : rest \in below[nodes[k].props[token]]}
             stepped == IF nodes[k].items = 0 THEN {} ELSE below[nodes[k].items]
  <2>6. \A token \in DOMAIN nodes[k].props : under(token) \subseteq Seq(STRING)
    BY <2>3
  <2>7. stepped \subseteq Seq(STRING)
    BY <2>4
  <2>8. below[k] = {<<>>} \cup (UNION {under(token) : token \in DOMAIN nodes[k].props}) \cup stepped
    BY <2>2
  <2> HIDE DEF under, stepped
  <2> QED
    BY <2>5, <2>6, <2>7, <2>8
<1> DEFINE H == {k \in 1..(N + 1) : \A n \in DOMAIN nodes : n >= k => Good(n)}
<1>3. 1 \in H
  <2> HIDE DEF Good
  <2>1. N + 1 \in H
    BY <1>1
  <2>2. ASSUME NEW k \in 1..N, k + 1 \in H
        PROVE  k \in H
    <3>1. \A n \in DOMAIN nodes : n >= k + 1 => Good(n)
      BY <2>2
    <3>2. Good(k)
      BY <1>2, <3>1
    <3>3. \A n \in DOMAIN nodes : n >= k => n = k \/ n >= k + 1
      BY <1>1
    <3> QED
      BY <3>1, <3>2, <3>3
  <2> HIDE DEF H
  <2>3. H \in SUBSET (1..(N + 1))
    BY DEF H
  <2> QED
    BY <2>1, <2>2, <2>3, FromTheLast
<1>4. \A n \in DOMAIN nodes : Good(n)
  <2> HIDE DEF Good
  <2> QED
    BY <1>1, <1>3
<1> QED
  BY <1>4

\* A field that starts with a token is below a node when what is left of it is
\* below the child that token leads to.
LEMMA TokenLeadsOn ==
    ASSUME NEW nodes, Table(nodes), \A n \in DOMAIN nodes : Streams!ContainerShapeOk(nodes[n]),
           NEW n \in DOMAIN nodes, NEW token \in STRING, NEW rest \in Seq(STRING)
    PROVE  LET child == Streams!DeclaredChild(nodes, n, token)
           IN /\ child # 0 => child \in DOMAIN nodes
              /\ <<token>> \o rest \in Streams!Below(nodes)[n] <=> child # 0 /\ rest \in Streams!Below(nodes)[child]
<1> DEFINE below == Streams!Below(nodes)
           e == Streams!Element(nodes)[n]
           child == Streams!DeclaredChild(nodes, n, token)
<1>1. e \in DOMAIN nodes /\ nodes[e].items = 0
  BY ElementEnds
<1>2. child = IF token \in DOMAIN nodes[e].props THEN nodes[e].props[token] ELSE 0
  BY DEF Streams!DeclaredChild
<1>3. \A t \in DOMAIN nodes[e].props : nodes[e].props[t] \in DOMAIN nodes /\ nodes[e].props[t] # 0 /\ t \in STRING
  BY <1>1 DEF Table
<1>4. <<token>> \o rest # <<>>
  OBVIOUS
<1>5. <<token>> \o rest \in below[n] <=> <<token>> \o rest \in below[e]
  BY <1>4, ElementEnds
<1>6. below[e] = {<<>>} \cup (UNION {{<<t>> \o r : r \in below[nodes[e].props[t]]} : t \in DOMAIN nodes[e].props})
  <2>1. below[e] = {<<>>}
                   \cup (UNION {{<<t>> \o r : r \in below[nodes[e].props[t]]} : t \in DOMAIN nodes[e].props})
                   \cup (IF nodes[e].items = 0 THEN {} ELSE below[nodes[e].items])
    BY <1>1, BelowIs
  <2> HIDE DEF below, e
  <2> QED
    BY <1>1, <2>1
<1>7. \A t \in STRING, r \in Seq(STRING) : <<token>> \o rest = <<t>> \o r => token = t /\ rest = r
  <2>1. ASSUME NEW t \in STRING, NEW r \in Seq(STRING), <<token>> \o rest = <<t>> \o r
        PROVE  token = t /\ rest = r
    <3>1. (<<token>> \o rest)[1] = token /\ (<<t>> \o r)[1] = t
      OBVIOUS
    <3>2. Len(<<token>> \o rest) = 1 + Len(rest) /\ Len(<<t>> \o r) = 1 + Len(r)
      OBVIOUS
    <3>3. Len(rest) = Len(r)
      BY <2>1, <3>2
    <3>4. ASSUME NEW i \in 1..Len(rest)
          PROVE  rest[i] = r[i]
      <4>1. (<<token>> \o rest)[i + 1] = rest[i] /\ (<<t>> \o r)[i + 1] = r[i]
        BY <3>3
      <4> QED
        BY <2>1, <4>1
    <3>5. rest = r
      BY <3>3, <3>4
    <3> QED
      BY <2>1, <3>1, <3>5
  <2> QED
    BY <2>1
<1>8. \A t \in DOMAIN nodes[e].props : below[nodes[e].props[t]] \subseteq Seq(STRING)
  BY <1>3, BelowAreFields
<1>9. <<token>> \o rest \in below[e] <=> token \in DOMAIN nodes[e].props /\ rest \in below[nodes[e].props[token]]
  <2> DEFINE under(t) == {<<t>> \o r : r \in below[nodes[e].props[t]]}
  <2>3. below[e] = {<<>>} \cup (UNION {under(t) : t \in DOMAIN nodes[e].props})
    BY <1>6
  <2> HIDE DEF below, e, under
  <2>1. ASSUME <<token>> \o rest \in below[e]
        PROVE  token \in DOMAIN nodes[e].props /\ rest \in below[nodes[e].props[token]]
    <3>1. PICK t \in DOMAIN nodes[e].props : <<token>> \o rest \in under(t)
      BY <1>4, <2>1, <2>3
    <3>2. PICK r \in below[nodes[e].props[t]] : <<token>> \o rest = <<t>> \o r
      BY <3>1 DEF under
    <3>3. token = t /\ rest = r
      BY <1>3, <1>7, <1>8, <3>2
    <3> QED
      BY <3>3
  <2>2. ASSUME token \in DOMAIN nodes[e].props, rest \in below[nodes[e].props[token]]
        PROVE  <<token>> \o rest \in below[e]
    <3>1. <<token>> \o rest \in under(token)
      BY <2>2 DEF under
    <3> QED
      BY <2>2, <2>3, <3>1
  <2> QED
    BY <2>1, <2>2
<1> HIDE DEF below, e, child
<1>10. child # 0 => child \in DOMAIN nodes
  BY <1>2, <1>3
<1>11. <<token>> \o rest \in below[n] <=> child # 0 /\ rest \in below[child]
  BY <1>2, <1>3, <1>5, <1>9
<1> QED
  BY <1>10, <1>11 DEF below, child

\* The walk of a field ends at a node when the field is one of the target's.
LEMMA WalkEnds ==
    ASSUME NEW m, Mapping(m), \A n \in DOMAIN m.nodes : Streams!ContainerShapeOk(m.nodes[n]),
           NEW i \in DOMAIN m.targets, m.targets[i].path = Head(m.field)
    PROVE  /\ Streams!Walk(m, m.targets[i])[Len(m.field)] # 0
              <=> Tail(m.field) \in Streams!Below(m.nodes)[m.targets[i].node]
           /\ m.field = <<m.targets[i].path>> \o Tail(m.field) /\ Tail(m.field) \in Seq(STRING)
<1> DEFINE walk == Streams!Walk(m, m.targets[i])
           below == Streams!Below(m.nodes)
           N == Len(m.field)
           left(k) == SubSeq(m.field, k + 1, N)
           C(k) == walk[k] # 0 /\ left(k) \in below[walk[k]]
<1>1. /\ N \in Nat \ {0} /\ DOMAIN m.field = 1..N
      /\ \A k \in 1..N : m.field[k] \in STRING /\ left(k) \in Seq(STRING) /\ Len(left(k)) = N - k
  BY DEF Mapping
<1>3. \A k \in 1..N : walk[k] = IF k = 1 THEN m.targets[i].node
                               ELSE IF walk[k - 1] = 0 THEN 0
                               ELSE Streams!DeclaredChild(m.nodes, walk[k - 1], m.field[k])
  <2>1. \A k \in DOMAIN m.field : walk[k] = IF k = 1 THEN m.targets[i].node
                               ELSE IF walk[k - 1] = 0 THEN 0
                               ELSE Streams!DeclaredChild(m.nodes, walk[k - 1], m.field[k])
    BY WalkIs
  <2> HIDE DEF walk, N
  <2> QED
    BY <1>1, <2>1
<1>2. walk[1] = m.targets[i].node /\ walk[1] \in DOMAIN m.nodes /\ 0 \notin DOMAIN m.nodes
  <2>1. 1 \in 1..N
    BY <1>1
  <2>2. walk[1] = m.targets[i].node
    <3> HIDE DEF walk
    <3> QED
      BY <1>3, <2>1
  <2> QED
    BY <2>2 DEF Mapping, Table
<1>4. \A k \in 1..(N - 1) : left(k) = <<m.field[k + 1]>> \o left(k + 1)
  BY <1>1 DEF Mapping
<1>5. left(N) = <<>> /\ left(1) = Tail(m.field) /\ m.field = <<Head(m.field)>> \o Tail(m.field)
  BY <1>1 DEF Mapping
<1> HIDE DEF walk, left, N, below
<1> DEFINE Good(k) == (walk[k] # 0 => walk[k] \in DOMAIN m.nodes) /\ (C(1) <=> C(k))
<1>6. ASSUME NEW k \in 1..(N - 1), Good(k)
      PROVE  Good(k + 1)
  <2>4. k + 1 \in 1..N /\ k + 1 # 1 /\ (k + 1) - 1 = k
    BY <1>1
  <2>1. walk[k + 1] = IF walk[k] = 0 THEN 0 ELSE Streams!DeclaredChild(m.nodes, walk[k], m.field[k + 1])
    BY <1>3, <2>4
  <2>2. CASE walk[k] = 0
    BY <1>6, <2>1, <2>2
  <2>3. CASE walk[k] # 0
    <3> DEFINE child == Streams!DeclaredChild(m.nodes, walk[k], m.field[k + 1])
    <3>1. m.field[k + 1] \in STRING /\ left(k + 1) \in Seq(STRING)
      BY <1>1, <2>4
    <3>2. walk[k] \in DOMAIN m.nodes
      BY <1>6, <2>3
    <3>3. /\ child # 0 => child \in DOMAIN m.nodes
          /\ <<m.field[k + 1]>> \o left(k + 1) \in below[walk[k]] <=> child # 0 /\ left(k + 1) \in below[child]
      BY <3>1, <3>2, TokenLeadsOn DEF Mapping, below
    <3>4. walk[k + 1] = child
      BY <2>1, <2>3
    <3> HIDE DEF child
    <3>5. left(k) = <<m.field[k + 1]>> \o left(k + 1)
      BY <1>4
    <3> QED
      BY <1>6, <2>3, <3>3, <3>4, <3>5
  <2> QED
    BY <2>2, <2>3
<1>7. Good(N)
  <2> DEFINE S == {k \in 1..N : ~Good(k)}
  <2>1. Good(1)
    BY <1>2
  <2> HIDE DEF Good
  <2>2. ASSUME S # {}
        PROVE  FALSE
    <3>1. PICK k \in S : \A j \in S : k <= j
      <4> HIDE DEF S
      <4>1. S \in SUBSET Nat
        BY DEF S
      <4> QED
        BY <2>2, <4>1, LeastNat
    <3>2. k # 1 /\ k - 1 \in 1..(N - 1) /\ (k - 1) + 1 = k
      <4>1. k # 1 /\ k \in 1..N
        BY <2>1, <3>1
      <4> HIDE DEF S
      <4> QED
        BY <1>1, <4>1
    <3>3. Good(k - 1)
      BY <1>1, <3>1, <3>2
    <3>4. Good(k)
      BY <1>6, <3>2, <3>3
    <3> QED
      BY <3>1, <3>4
  <2>3. N \in 1..N
    BY <1>1
  <2> QED
    BY <2>2, <2>3
<1>8. C(1) <=> walk[N] # 0
  <2>1. walk[N] # 0 => <<>> \in below[walk[N]]
    BY <1>7, BelowAreFields DEF Mapping, below
  <2> QED
    BY <1>5, <1>7, <2>1
<1>9. Tail(m.field) \in Seq(STRING)
  <2>1. 1 \in 1..N
    BY <1>1
  <2>2. left(1) \in Seq(STRING)
    BY <1>1, <2>1
  <2> QED
    BY <1>5, <2>2
<1>10. C(1) <=> Tail(m.field) \in below[m.targets[i].node]
  BY <1>2, <1>5
<1> QED
  BY <1>5, <1>8, <1>9, <1>10 DEF walk, below, N

\* A rule's field resolves exactly when it names a field of the mapped output.
LEMMA RulesGrade ==
    ASSUME NEW m, Mapping(m)
    PROVE  Streams!RulesGradeOutputs(m)
<1> DEFINE below == Streams!Below(m.nodes)
           of(i) == {<<m.targets[i].path>> \o rest : rest \in below[m.targets[i].node]}
<1>1. SUFFICES ASSUME Streams!TargetsUnique(m), \A n \in DOMAIN m.nodes : Streams!ContainerShapeOk(m.nodes[n])
               PROVE  Streams!RuleFieldResolves(m) <=> m.field \in Streams!Outputs(m)
  BY DEF Streams!RulesGradeOutputs, Streams!MappingOk
<1>2. Streams!Outputs(m) = UNION {of(i) : i \in DOMAIN m.targets}
  BY DEF Streams!Outputs
<1>3. ASSUME NEW i \in DOMAIN m.targets
      PROVE  m.field \in of(i) <=> /\ m.targets[i].path = Head(m.field)
                                   /\ Streams!Walk(m, m.targets[i])[Len(m.field)] # 0
  <2>1. CASE m.targets[i].path = Head(m.field)
    <3> DEFINE rest == Tail(m.field)
    <3>1. /\ Streams!Walk(m, m.targets[i])[Len(m.field)] # 0 <=> rest \in below[m.targets[i].node]
          /\ m.field = <<m.targets[i].path>> \o rest /\ rest \in Seq(STRING)
      BY <1>1, <2>1, WalkEnds
    <3>2. below[m.targets[i].node] \subseteq Seq(STRING)
      BY BelowAreFields DEF Mapping
    <3>3. \A r \in Seq(STRING) : m.field = <<m.targets[i].path>> \o r => Tail(m.field) = r
      <4>1. \A r \in Seq(STRING), p \in STRING : Tail(<<p>> \o r) = r
        OBVIOUS
      <4> QED
        BY <4>1 DEF Mapping
    <3> HIDE DEF below
    <3>4. m.field \in of(i) <=> rest \in below[m.targets[i].node]
      BY <3>1, <3>2, <3>3
    <3> QED
      BY <2>1, <3>1, <3>4
  <2>2. CASE m.targets[i].path # Head(m.field)
    <3>1. below[m.targets[i].node] \subseteq Seq(STRING)
      BY BelowAreFields DEF Mapping
    <3>2. \A r \in Seq(STRING), p \in STRING : Head(<<p>> \o r) = p
      OBVIOUS
    <3>3. m.targets[i].path \in STRING
      BY DEF Mapping
    <3> HIDE DEF below
    <3> QED
      BY <2>2, <3>1, <3>2, <3>3
  <2> QED
    BY <2>1, <2>2
<1> HIDE DEF of
<1> QED
  BY <1>2, <1>3 DEF Streams!RuleFieldResolves

-----------------------------------------------------------------------------
(* Walks of a document.                                                      *)

\* What holds of 0, and of the number after each it holds of, holds up to N.
LEMMA UpFromZero ==
    ASSUME NEW N \in Nat, NEW H \in SUBSET (0..N), 0 \in H,
           \A k \in 0..N : k \in H /\ k < N => k + 1 \in H
    PROVE  H = 0..N
<1> DEFINE S == (0..N) \ H
<1>1. ASSUME S # {}
      PROVE  FALSE
  <2>1. S \in SUBSET Nat
    OBVIOUS
  <2> HIDE DEF S
  <2>2. PICK m \in S : \A k \in S : m <= k
    BY <1>1, <2>1, LeastNat
  <2>3. m \in 0..N /\ m \notin H
    BY <2>2 DEF S
  <2>4. m # 0 /\ m - 1 \in 0..N /\ m - 1 < N /\ (m - 1) + 1 = m /\ m - 1 < m
    BY <2>3
  <2>5. m - 1 \in H
    BY <2>2, <2>4 DEF S
  <2> QED
    BY <2>3, <2>4, <2>5
<1> QED
  BY <1>1

\* The levels a walk reads, i steps from n.
Levels(walk, n) ==
    CHOOSE level : level =
        [i \in 0..Deepest |->
            IF i = 0 THEN [seen |-> {n}, last |-> {n}]
            ELSE LET before == level[i - 1]
                     inside == UNION {Inside(walk, m) : m \in before.last}
                 IN [seen |-> before.seen \cup inside, last |-> inside]]

\* The first level is the node itself; each of the others holds what is inside the
\* nodes of the one before.
LEMMA LevelsAre ==
    ASSUME NEW walk, NEW n
    PROVE  LET level == Levels(walk, n)
           IN /\ Walked(walk, n) = level[Deepest].seen
              /\ level[0].seen = {n} /\ level[0].last = {n}
              /\ \A i \in 0..Deepest : i < Deepest =>
                   /\ level[i + 1].last = UNION {Inside(walk, m) : m \in level[i].last}
                   /\ level[i + 1].seen = level[i].seen \cup level[i + 1].last
<1> DEFINE E(f, i) == IF i = 0 THEN [seen |-> {n}, last |-> {n}]
                      ELSE LET before == f[i - 1]
                               inside == UNION {Inside(walk, m) : m \in before.last}
                           IN [seen |-> before.seen \cup inside, last |-> inside]
           Exists(k) == \E f : f = [i \in 0..k |-> E(f, i)]
           H == {k \in 0..Deepest : Exists(k)}
<1>1. Deepest \in Nat
  BY DeepestAssumption
<1>2. Exists(0)
  <2> DEFINE f == [i \in 0..0 |-> [seen |-> {n}, last |-> {n}]]
  <2>1. f = [i \in 0..0 |-> E(f, i)]
    OBVIOUS
  <2> QED
    BY <2>1
<1>3. ASSUME NEW k \in Nat, Exists(k)
      PROVE  Exists(k + 1)
  <2>1. PICK f : f = [i \in 0..k |-> E(f, i)]
    BY <1>3
  <2> DEFINE g == [i \in 0..(k + 1) |-> IF i = k + 1 THEN E(f, i) ELSE f[i]]
  <2>2. \A i \in 0..k : g[i] = f[i]
    OBVIOUS
  <2>3. ASSUME NEW i \in 0..(k + 1)
        PROVE  E(g, i) = E(f, i)
    <3>1. CASE i = 0
      BY <3>1
    <3>2. CASE i # 0
      <4>1. i - 1 \in 0..k
        BY <3>2
      <4>2. g[i - 1] = f[i - 1]
        BY <2>2, <4>1
      <4> QED
        BY <4>2
    <3> QED
      BY <3>1, <3>2
  <2> HIDE DEF E
  <2>4. \A i \in 0..(k + 1) : g[i] = E(f, i)
    BY <2>1
  <2>5. g = [i \in 0..(k + 1) |-> E(g, i)]
    BY <2>3, <2>4
  <2> QED
    BY <2>5
<1> HIDE DEF Exists
<1>4. Exists(Deepest)
  <2>1. 0 \in H
    BY <1>1, <1>2
  <2>2. \A k \in 0..Deepest : k \in H /\ k < Deepest => k + 1 \in H
    BY <1>1, <1>3
  <2>3. H \in SUBSET (0..Deepest)
    OBVIOUS
  <2> HIDE DEF H
  <2>4. H = 0..Deepest
    BY <1>1, <2>1, <2>2, <2>3, UpFromZero
  <2> QED
    BY <1>1, <2>4 DEF H
<1>5. \E f : f = [i \in 0..Deepest |-> E(f, i)]
  BY <1>4 DEF Exists
<1>6. Levels(walk, n) = CHOOSE f : f = [i \in 0..Deepest |-> E(f, i)]
  BY DEF Levels
<1> DEFINE level == Levels(walk, n)
<1>7. level = [i \in 0..Deepest |-> E(level, i)]
  <2> HIDE DEF E
  <2> QED
    BY <1>5, <1>6
<1>8. Walked(walk, n) = level[Deepest].seen
  BY DEF Walked, Levels
<1> HIDE DEF level
<1>9. \A i \in 0..Deepest : level[i] = E(level, i)
  <2> HIDE DEF E
  <2> QED
    BY <1>7
<1>10. level[0].seen = {n} /\ level[0].last = {n}
  <2>1. 0 \in 0..Deepest
    BY <1>1
  <2>2. level[0] = E(level, 0)
    <3> HIDE DEF E
    <3> QED
      BY <1>9, <2>1
  <2>3. level[0] = [seen |-> {n}, last |-> {n}]
    BY <2>2
  <2> QED
    BY <2>3
<1>11. ASSUME NEW i \in 0..Deepest, i < Deepest
       PROVE  /\ level[i + 1].last = UNION {Inside(walk, m) : m \in level[i].last}
              /\ level[i + 1].seen = level[i].seen \cup level[i + 1].last
  <2>1. i + 1 \in 0..Deepest /\ i + 1 # 0 /\ (i + 1) - 1 = i
    BY <1>1, <1>11
  <2>2. level[i + 1] = E(level, i + 1)
    <3> HIDE DEF E
    <3> QED
      BY <1>9, <2>1
  <2> QED
    BY <2>1, <2>2
<1> QED
  BY <1>8, <1>10, <1>11 DEF level

\* What a walk reads, when the nodes S below n have heights: n, what is inside each
\* node it reads, and nothing that no closed set of nodes has.
LEMMA WalkReads ==
    ASSUME NEW walk, NEW n, NEW S, NEW height \in [S -> 0..Deepest], n \in S,
           \A m \in S : \A c \in Inside(walk, m) : c \in S /\ height[c] < height[m]
    PROVE  /\ n \in Walked(walk, n)
           /\ Walked(walk, n) \subseteq S
           /\ \A m \in Walked(walk, n) : Inside(walk, m) \subseteq Walked(walk, n)
           /\ \A T : n \in T /\ (\A m \in T \cap Walked(walk, n) : Inside(walk, m) \subseteq T)
                  => Walked(walk, n) \subseteq T
<1> DEFINE level == Levels(walk, n)
<1>1. Deepest \in Nat
  BY DeepestAssumption
<1>2. /\ Walked(walk, n) = level[Deepest].seen
      /\ level[0].seen = {n} /\ level[0].last = {n}
      /\ \A i \in 0..Deepest : i < Deepest =>
           /\ level[i + 1].last = UNION {Inside(walk, m) : m \in level[i].last}
           /\ level[i + 1].seen = level[i].seen \cup level[i + 1].last
  BY LevelsAre
<1> HIDE DEF level
<1> DEFINE Good(i) == /\ n \in level[i].seen
                      /\ level[i].last \subseteq level[i].seen /\ level[i].seen \subseteq S
                      /\ \A m \in level[i].last : height[m] + i <= Deepest
                      /\ \A m \in level[i].seen \ level[i].last : Inside(walk, m) \subseteq level[i].seen
           H == {i \in 0..Deepest : Good(i)}
<1>3. Good(0)
  <2>1. \A m \in S : height[m] \in 0..Deepest
    OBVIOUS
  <2> QED
    BY <1>1, <1>2, <2>1
<1>4. ASSUME NEW i \in 0..Deepest, i < Deepest, Good(i)
      PROVE  Good(i + 1)
  <2> DEFINE this == level[i]
             next == level[i + 1]
  <2>1. next.last = UNION {Inside(walk, m) : m \in this.last} /\ next.seen = this.seen \cup next.last
    BY <1>2, <1>4
  <2> HIDE DEF this, next
  <2>2. /\ n \in this.seen /\ this.last \subseteq this.seen /\ this.seen \subseteq S
        /\ \A m \in this.last : height[m] + i <= Deepest
        /\ \A m \in this.seen \ this.last : Inside(walk, m) \subseteq this.seen
    BY <1>4 DEF this
  <2>3. next.last \subseteq S
    BY <2>1, <2>2
  <2>4. \A c \in next.last : height[c] + (i + 1) <= Deepest
    <3>1. TAKE c \in next.last
    <3>2. PICK m \in this.last : c \in Inside(walk, m)
      BY <2>1, <3>1
    <3>3. height[c] < height[m] /\ height[m] + i <= Deepest
      BY <2>2, <3>2
    <3>4. height[c] \in 0..Deepest /\ height[m] \in 0..Deepest
      BY <2>2, <2>3, <3>1, <3>2
    <3> QED
      BY <1>1, <3>3, <3>4
  <2>5. \A m \in next.seen \ next.last : Inside(walk, m) \subseteq next.seen
    <3>1. TAKE m \in next.seen \ next.last
    <3>2. m \in this.seen
      BY <2>1, <3>1
    <3>3. CASE m \in this.last
      BY <2>1, <3>3
    <3>4. CASE m \notin this.last
      BY <2>1, <2>2, <3>2, <3>4
    <3> QED
      BY <3>3, <3>4
  <2>6. Good(i + 1) <=> /\ n \in next.seen /\ next.last \subseteq next.seen /\ next.seen \subseteq S
                        /\ \A m \in next.last : height[m] + (i + 1) <= Deepest
                        /\ \A m \in next.seen \ next.last : Inside(walk, m) \subseteq next.seen
    BY DEF next
  <2> HIDE DEF Good
  <2> QED
    BY <2>1, <2>2, <2>3, <2>4, <2>5, <2>6
<1> HIDE DEF Good
<1>5. Good(Deepest)
  <2>1. 0 \in H /\ H \in SUBSET (0..Deepest)
    BY <1>1, <1>3
  <2>2. \A i \in 0..Deepest : i \in H /\ i < Deepest => i + 1 \in H
    BY <1>1, <1>4
  <2> HIDE DEF H
  <2>3. H = 0..Deepest
    BY <1>1, <2>1, <2>2, UpFromZero
  <2> QED
    BY <1>1, <2>3 DEF H
<1>6. \A m \in level[Deepest].seen : Inside(walk, m) \subseteq level[Deepest].seen
  <2>1. TAKE m \in level[Deepest].seen
  <2>2. CASE m \in level[Deepest].last
    <3>1. m \in S /\ height[m] + Deepest <= Deepest
      BY <1>5, <2>2 DEF Good
    <3>2. \A c \in Inside(walk, m) : height[c] \in 0..Deepest /\ height[c] < height[m]
      BY <3>1
    <3>3. height[m] \in 0..Deepest
      BY <3>1
    <3>4. Inside(walk, m) = {}
      BY <1>1, <3>1, <3>2, <3>3
    <3> QED
      BY <3>4
  <2>3. CASE m \notin level[Deepest].last
    BY <1>5, <2>1, <2>3 DEF Good
  <2> QED
    BY <2>2, <2>3
<1>7. ASSUME NEW T, n \in T, \A m \in T \cap Walked(walk, n) : Inside(walk, m) \subseteq T
      PROVE  Walked(walk, n) \subseteq T
  <2> DEFINE Read(i) == level[i].seen \subseteq T /\ level[i].last \subseteq T
                        /\ level[i].last \subseteq level[i].seen
                        /\ level[i].seen \subseteq Walked(walk, n)
             K == {i \in 0..Deepest : level[i].seen \subseteq Walked(walk, n) => Read(i)}
  <2>1. 0 \in K
    BY <1>1, <1>2, <1>7
  <2>2. ASSUME NEW i \in 0..Deepest, i \in K, i < Deepest
        PROVE  i + 1 \in K
    <3> DEFINE this == level[i]
               next == level[i + 1]
    <3>1. next.last = UNION {Inside(walk, m) : m \in this.last} /\ next.seen = this.seen \cup next.last
      BY <1>2, <2>2
    <3>2. i + 1 \in 0..Deepest
      BY <1>1, <2>2
    <3>3. i + 1 \in K <=> (next.seen \subseteq Walked(walk, n) =>
                             /\ next.seen \subseteq T /\ next.last \subseteq T
                             /\ next.last \subseteq next.seen /\ next.seen \subseteq Walked(walk, n))
      BY <3>2
    <3>4. this.seen \subseteq Walked(walk, n) =>
            /\ this.seen \subseteq T /\ this.last \subseteq T
            /\ this.last \subseteq this.seen /\ this.seen \subseteq Walked(walk, n)
      BY <2>2
    <3> HIDE DEF this, next, K
    <3> QED
      BY <1>7, <3>1, <3>3, <3>4
  <2>3. K \in SUBSET (0..Deepest)
    OBVIOUS
  <2> HIDE DEF K
  <2>4. K = 0..Deepest
    BY <1>1, <2>1, <2>2, <2>3, UpFromZero
  <2>5. level[Deepest].seen \subseteq Walked(walk, n)
    BY <1>2
  <2> QED
    BY <1>1, <1>2, <2>4, <2>5 DEF K
<1>8. Walked(walk, n) = level[Deepest].seen
  BY <1>2
<1>9. n \in Walked(walk, n) /\ Walked(walk, n) \subseteq S
  BY <1>5, <1>8 DEF Good
<1>10. \A m \in Walked(walk, n) : Inside(walk, m) \subseteq Walked(walk, n)
  BY <1>6, <1>8
<1>11. \A T : n \in T /\ (\A m \in T \cap Walked(walk, n) : Inside(walk, m) \subseteq T)
                  => Walked(walk, n) \subseteq T
  BY <1>7, Zenon
<1> QED
  BY <1>9, <1>10, <1>11, Zenon

\* A document of JSON in which dicts and lists nest at most Deepest deep: each node
\* is a text, a scalar, or has finitely many others in it; it has a height, and what
\* is in it is lower.
Json(m) ==
    /\ m.k \in {"str", "scalar", "null", "list", "dict"}
    /\ m.k = "str" => m.path \in Seq(STRING)
    /\ m.k = "dict" => IsFiniteSet(DOMAIN m.at)
    /\ m.k = "list" => IsFiniteSet(DOMAIN m.items)
Heights(S, height) ==
    /\ height \in [S -> 0..Deepest]
    /\ \A m \in S : Json(m) /\ \A c \in Children(m) : c \in S /\ height[c] < height[m]
Tree(n) == \E S : \E height : n \in S /\ Heights(S, height)

\* The walks whose places are nodes.
NodeWalks == {"endpoint", "connector", "expressions", "functions", "from_param", "from_input",
              "refs", "slot", "values"}

\* What a dict has under a key is one of its children.
LEMMA KeysAreChildren ==
    ASSUME NEW n, NEW key, Has(n, key)
    PROVE  n.at[key] \in Children(n)
BY DEF Has, Children

\* What each walk goes on to.
LEMMA InsideIs ==
    ASSUME NEW n
    PROVE  /\ \A walk \in {"endpoint", "connector"} : Inside(walk, n) =
                IF Present(walk, n) = {} THEN Children(n)
                ELSE {n.at[key] : key \in Graded(walk, n)}
           /\ Inside("expressions", n) =
                IF Form(n) = "function" THEN {n.at[key] : key \in DOMAIN n.at \cap {"input"}}
                ELSE IF IsExpression(n) THEN {} ELSE Children(n)
           /\ Inside("functions", n) = IF Has(n, "literal") THEN {} ELSE Children(n)
           /\ \A walk \in BindingKeys : Inside(walk, n) =
                IF IsSingleton(n, walk) \/ Has(n, "literal") THEN {} ELSE Children(n)
           /\ Inside("refs", n) =
                IF IsSingleton(n, "ref") /\ n.at["ref"].k = "str" THEN {} ELSE Children(n)
           /\ Inside("slot", n) = IF IsExpression(n) THEN {} ELSE Children(n)
           /\ Inside("values", n) = IF Form(n) = "function" THEN FunctionInputs(n) \ {Null} ELSE {}
<1>1. \A walk \in {"endpoint", "connector"} : Inside(walk, n) =
         IF Present(walk, n) = {} THEN Children(n)
         ELSE {n.at[key] : key \in Graded(walk, n)}
  <2>1. Inside("endpoint", n) = IF Present("endpoint", n) = {} THEN Children(n)
                                ELSE {n.at[key] : key \in Graded("endpoint", n)}
    BY DEF Inside, BindingKeys
  <2>2. Inside("connector", n) = IF Present("connector", n) = {} THEN Children(n)
                                 ELSE {n.at[key] : key \in Graded("connector", n)}
    BY DEF Inside, BindingKeys
  <2> QED
    BY <2>1, <2>2
<1>2. Inside("expressions", n) =
         IF Form(n) = "function" THEN {n.at[key] : key \in DOMAIN n.at \cap {"input"}}
         ELSE IF IsExpression(n) THEN {} ELSE Children(n)
  BY DEF Inside, BindingKeys
<1>3. Inside("functions", n) = IF Has(n, "literal") THEN {} ELSE Children(n)
  BY DEF Inside, BindingKeys
<1>4. \A walk \in BindingKeys : Inside(walk, n) =
         IF IsSingleton(n, walk) \/ Has(n, "literal") THEN {} ELSE Children(n)
  BY DEF Inside, BindingKeys
<1>5. Inside("refs", n) =
         IF IsSingleton(n, "ref") /\ n.at["ref"].k = "str" THEN {} ELSE Children(n)
  BY DEF Inside, BindingKeys
<1>6. Inside("slot", n) = IF IsExpression(n) THEN {} ELSE Children(n)
  BY DEF Inside, BindingKeys
<1>7. Inside("values", n) = IF Form(n) = "function" THEN FunctionInputs(n) \ {Null} ELSE {}
  BY DEF Inside, BindingKeys
<1> QED
  BY <1>1, <1>2, <1>3, <1>4, <1>5, <1>6, <1>7

\* What is inside a node for a walk is lower than it.
LEMMA InsideIsLower ==
    ASSUME NEW S, NEW height, Heights(S, height), NEW m \in S, NEW walk \in NodeWalks
    PROVE  \A c \in Inside(walk, m) : c \in S /\ height[c] < height[m]
<1>1. \A x \in S : \A c \in Children(x) : c \in S /\ height[c] < height[x]
  BY DEF Heights
<1>2. \A x \in S : height[x] \in Nat
  BY DeepestAssumption DEF Heights
<1>3. CASE walk # "values"
  <2>1. Inside(walk, m) \subseteq Children(m)
    <3>1. CASE walk \in {"endpoint", "connector"}
      <4>1. CASE Present(walk, m) # {}
        <5>1. \A key \in DOMAIN m.at : m.at[key] \in Children(m)
          BY <4>1 DEF Present, Children
        <5>2. Graded(walk, m) \subseteq DOMAIN m.at
          BY DEF Graded
        <5> QED
          BY <3>1, <4>1, <5>1, <5>2, InsideIs
      <4>2. CASE Present(walk, m) = {}
        BY <3>1, <4>2, InsideIs
      <4> QED
        BY <4>1, <4>2
    <3>2. CASE walk = "expressions"
      <4>1. Form(m) = "function" => Has(m, "function")
        BY DEF Form, Has, Heights, Json
      <4> HIDE DEF Form
      <4>2. Form(m) = "function" => \A key \in DOMAIN m.at : m.at[key] \in Children(m)
        BY <4>1 DEF Has, Children
      <4> QED
        BY <3>2, <4>2, InsideIs
    <3>3. CASE walk \in {"functions", "from_param", "from_input", "refs", "slot"}
      BY <3>3, InsideIs DEF BindingKeys
    <3> QED
      BY <1>3, <3>1, <3>2, <3>3 DEF NodeWalks
  <2> QED
    BY <1>1, <2>1
<1>4. CASE walk = "values"
  <2>1. SUFFICES ASSUME Form(m) = "function", NEW c \in FunctionInputs(m), c # Null
                 PROVE  c \in S /\ height[c] < height[m]
    BY <1>4, InsideIs
  <2> DEFINE input == Get(m, "input")
  <2>2. input # Null => input \in S /\ height[input] < height[m]
    BY <1>1, KeysAreChildren DEF Get
  <2>3. \A key : Get(input, key) # Null => Get(input, key) \in Children(input) /\ input # Null
    BY KeysAreChildren DEF Get, Has, Null
  <2> HIDE DEF input
  <2>4. c = input \/ c = Get(input, "username") \/ c = Get(input, "password")
    BY DEF FunctionInputs, input
  <2>5. CASE c = input
    BY <2>1, <2>2, <2>5
  <2>6. CASE c # input
    <3>1. c \in Children(input) /\ input # Null
      BY <2>1, <2>3, <2>4, <2>6
    <3>2. c \in S /\ height[c] < height[input] /\ input \in S
      BY <1>1, <2>2, <3>1
    <3> QED
      BY <1>2, <2>1, <2>2, <3>1, <3>2
  <2> QED
    BY <2>5, <2>6
<1> QED
  BY <1>3, <1>4

\* A walk of a document reads its node, what is inside each node it reads, and
\* nothing that no closed set of nodes has.
LEMMA TreeReads ==
    ASSUME NEW n, Tree(n), NEW walk \in NodeWalks
    PROVE  /\ n \in Walked(walk, n)
           /\ \A m \in Walked(walk, n) : Tree(m) /\ Inside(walk, m) \subseteq Walked(walk, n)
           /\ \A T : n \in T /\ (\A m \in T \cap Walked(walk, n) : Inside(walk, m) \subseteq T)
                  => Walked(walk, n) \subseteq T
<1>1. PICK S, height : n \in S /\ Heights(S, height)
  BY DEF Tree
<1>2. height \in [S -> 0..Deepest]
  BY <1>1 DEF Heights
<1>3. \A m \in S : \A c \in Inside(walk, m) : c \in S /\ height[c] < height[m]
  BY <1>1, InsideIsLower
<1>4. \A m \in S : Tree(m)
  BY <1>1 DEF Tree
<1>5. /\ n \in Walked(walk, n)
      /\ Walked(walk, n) \subseteq S
      /\ \A m \in Walked(walk, n) : Inside(walk, m) \subseteq Walked(walk, n)
      /\ \A T : n \in T /\ (\A m \in T \cap Walked(walk, n) : Inside(walk, m) \subseteq T)
             => Walked(walk, n) \subseteq T
  BY <1>1, <1>2, <1>3, WalkReads
<1> QED
  BY <1>4, <1>5

-----------------------------------------------------------------------------
(* The checks of an expression, and its resolution.                          *)

\* The form of a node is one of its keys where it is an expression, and its kind where
\* it is not.
LEMMA FormIs ==
    ASSUME NEW m, Tree(m)
    PROVE  /\ m.k \in {"str", "scalar", "null", "list", "dict"}
           /\ IsExpression(m) <=> Form(m) \in ValueKeys
           /\ IsExpression(m) => m.k = "dict" /\ Has(m, Form(m))
           /\ ~IsExpression(m) => Form(m) = m.k
           /\ Form(m) = "str" <=> m.k = "str"
<1>1. m.k \in {"str", "scalar", "null", "list", "dict"}
  BY DEF Tree, Heights, Json
<1>2. IsExpression(m) <=> \/ Has(m, "template") \/ Has(m, "function")
                          \/ Has(m, "literal") \/ Has(m, "ref")
  BY DEF IsExpression, ValueKeys
<1>3. \A key : Has(m, key) => m.k = "dict"
  BY DEF Has
<1> QED
  BY <1>1, <1>2, <1>3 DEF Form, ValueKeys

\* A node whose shape is checked has one of the keys its walk looks for.
LEMMA OnePresent ==
    ASSUME NEW walk, NEW m, Cardinality(Present(walk, m)) = 1,
           NEW a \in Present(walk, m), NEW b \in Present(walk, m)
    PROVE  a = b
<1>1. Present(walk, m) \subseteq {"template", "function", "literal", "ref", "from_param", "from_input"}
  BY DEF Present, KeysOf, ValueKeys, BindingKeys
<1>2. IsFiniteSet({"template", "function", "literal", "ref", "from_param", "from_input"})
  <2>1. IsFiniteSet({})
    BY FS_EmptySet
  <2>2. IsFiniteSet({} \cup {"template"})
    BY <2>1, FS_AddElement
  <2>3. IsFiniteSet({} \cup {"template"} \cup {"function"})
    BY <2>2, FS_AddElement
  <2>4. IsFiniteSet({} \cup {"template"} \cup {"function"} \cup {"literal"})
    BY <2>3, FS_AddElement
  <2>5. IsFiniteSet({} \cup {"template"} \cup {"function"} \cup {"literal"} \cup {"ref"})
    BY <2>4, FS_AddElement
  <2>6. IsFiniteSet({} \cup {"template"} \cup {"function"} \cup {"literal"} \cup {"ref"} \cup {"from_param"})
    BY <2>5, FS_AddElement
  <2>7. IsFiniteSet({} \cup {"template"} \cup {"function"} \cup {"literal"} \cup {"ref"} \cup {"from_param"}
                       \cup {"from_input"})
    BY <2>6, FS_AddElement
  <2>8. {} \cup {"template"} \cup {"function"} \cup {"literal"} \cup {"ref"} \cup {"from_param"}
           \cup {"from_input"} = {"template", "function", "literal", "ref", "from_param", "from_input"}
    OBVIOUS
  <2> QED
    BY <2>7, <2>8
<1>3. IsFiniteSet(Present(walk, m))
  BY <1>1, <1>2, FS_Subset
<1>4. PICK x : Present(walk, m) = {x}
  BY <1>3, FS_Singleton
<1> QED
  BY <1>4

\* Below a node whose shape is checked: plain structure is gone into, a function's
\* input is graded and no literal hides it, and a pair of inputs is plain.
LEMMA GradedNodes ==
    ASSUME NEW walk \in {"endpoint", "connector"}, NEW n, ShapeOk(walk, n),
           NEW m \in Walked(walk, n), Tree(m)
    PROVE  /\ ~IsExpression(m) => Inside(walk, m) = Children(m)
           /\ Form(m) = "function" =>
                /\ Has(m, "function") /\ ~Has(m, "literal")
                /\ Has(m, "input") => m.at["input"] \in Inside(walk, m)
           /\ \A key \in {"username", "password"} : Has(m, key) => ~IsExpression(m)
<1> DEFINE P == Present(walk, m)
<1>1. P # {} => /\ Cardinality(P) = 1
                /\ \A key \in DOMAIN m.at : key \in P \/ key \in FunctionFields \/ Extension(key)
  BY DEF ShapeOk
<1>2. P = IF m.k = "dict" THEN DOMAIN m.at \cap KeysOf(walk) ELSE {}
  BY DEF Present
<1>3. ValueKeys \subseteq KeysOf(walk) /\ KeysOf(walk) \subseteq ValueKeys \cup BindingKeys
  BY DEF KeysOf
<1>4. \A key \in ValueKeys : key \in P <=> Has(m, key)
  BY <1>2, <1>3 DEF Has
<1>5. Inside(walk, m) = IF P = {} THEN Children(m) ELSE {m.at[key] : key \in Graded(walk, m)}
  BY InsideIs
<1> HIDE DEF P
<1>6. ASSUME ~IsExpression(m)
      PROVE  Inside(walk, m) = Children(m)
  <2>1. CASE P = {}
    BY <1>5, <2>1
  <2>2. CASE P # {}
    <3>1. "literal" \notin P /\ "function" \notin P
      BY <1>4, <1>6 DEF IsExpression, ValueKeys
    <3>2. Graded(walk, m) = DOMAIN m.at
      BY <3>1 DEF Graded, P
    <3>3. Children(m) = {m.at[key] : key \in DOMAIN m.at}
      BY <1>2, <2>2 DEF Children
    <3> QED
      BY <1>5, <2>2, <3>2, <3>3
  <2> QED
    BY <2>1, <2>2
<1>7. ASSUME Form(m) = "function"
      PROVE  /\ Has(m, "function") /\ ~Has(m, "literal")
             /\ Has(m, "input") => m.at["input"] \in Inside(walk, m)
  <2>1. Has(m, "function")
    BY <1>7, FormIs DEF ValueKeys
  <2>2. "function" \in P
    BY <1>4, <2>1 DEF ValueKeys
  <2>3. "literal" \notin P
    BY <1>1, <2>2, OnePresent DEF P
  <2>4. ~Has(m, "literal")
    BY <1>4, <2>3 DEF ValueKeys
  <2>5. Graded(walk, m) = DOMAIN m.at \ {"map"}
    BY <2>2, <2>3 DEF Graded, P
  <2>6. Has(m, "input") => "input" \in Graded(walk, m)
    BY <2>5 DEF Has
  <2> QED
    BY <1>5, <2>1, <2>2, <2>4, <2>6
<1>8. ASSUME NEW key \in {"username", "password"}, Has(m, key)
      PROVE  ~IsExpression(m)
  <2>1. SUFFICES ASSUME P # {}
                 PROVE  FALSE
    BY <1>4 DEF IsExpression
  <2>2. key \in P \/ key \in FunctionFields \/ Extension(key)
    BY <1>1, <1>8, <2>1 DEF Has
  <2> QED
    BY <1>2, <1>3, <2>2 DEF FunctionFields, Extension, ValueKeys, BindingKeys
<1> QED
  BY <1>6, <1>7, <1>8

\* Each node a slot is resolved from is one whose expressions the checks read, whose
\* shape they grade and whose functions they name.
LEMMA ValuesAreGraded ==
    ASSUME NEW walk \in {"endpoint", "connector"}, NEW n, Tree(n), ShapeOk(walk, n)
    PROVE  LET G == Walked("expressions", n) \cap Walked(walk, n) \cap Walked("functions", n)
           IN /\ Walked("slot", n) \subseteq G
              /\ Values(n) \subseteq G
              /\ \A m \in G : Tree(m)
              /\ \A m \in Resolves(n) : Walked("values", m) \subseteq G
              /\ \A m \in G : Form(m) = "function" => FunctionInputs(m) \ {Null} \subseteq G
<1> DEFINE E == Walked("expressions", n)
           P == Walked(walk, n)
           F == Walked("functions", n)
           G == E \cap P \cap F
<1>1. {"expressions", "functions", "slot", "values", walk} \subseteq NodeWalks
  BY DEF NodeWalks
<1>2. n \in G /\ \A m \in G : /\ Tree(m) /\ Inside("expressions", m) \subseteq E
                             /\ Inside(walk, m) \subseteq P /\ Inside("functions", m) \subseteq F
  BY <1>1, TreeReads
<1>3. \A m \in G : ~IsExpression(m) => Children(m) \subseteq G
  <2>1. TAKE m \in G
  <2>2. HAVE ~IsExpression(m)
  <2>3. Form(m) # "function"
    BY <1>2, <2>1, <2>2, FormIs DEF ValueKeys
  <2>4. Inside("expressions", m) = Children(m)
    BY <2>2, <2>3, InsideIs
  <2>5. Inside(walk, m) = Children(m)
    BY <1>2, <2>1, <2>2, GradedNodes
  <2>6. Inside("functions", m) = Children(m)
    BY <2>2, InsideIs DEF IsExpression, ValueKeys
  <2> QED
    BY <1>2, <2>1, <2>4, <2>5, <2>6
<1>4. \A m \in G : Form(m) = "function" => FunctionInputs(m) \ {Null} \subseteq G
  <2>1. TAKE m \in G
  <2>2. HAVE Form(m) = "function"
  <2> DEFINE input == Get(m, "input")
  <2>3. /\ Has(m, "function") /\ ~Has(m, "literal")
        /\ Has(m, "input") => m.at["input"] \in Inside(walk, m)
    BY <1>2, <2>1, <2>2, GradedNodes
  <2>4. Has(m, "input") => m.at["input"] \in Inside("expressions", m)
    BY <2>2, InsideIs DEF Has
  <2>5. Has(m, "input") => m.at["input"] \in Inside("functions", m)
    BY <2>3, InsideIs, KeysAreChildren
  <2>6. input = Null \/ input \in G
    BY <1>2, <2>1, <2>3, <2>4, <2>5 DEF Get
  <2> HIDE DEF input
  <2>7. ASSUME NEW key \in {"username", "password"}, Get(input, key) # Null
        PROVE  Get(input, key) \in G
    <3>1. Has(input, key) /\ Get(input, key) = input.at[key] /\ input # Null
      BY <2>7 DEF Get, Has, Null
    <3>2. input \in G /\ ~IsExpression(input)
      BY <1>2, <2>6, <3>1, GradedNodes
    <3> QED
      BY <1>3, <3>1, <3>2, KeysAreChildren
  <2>8. FunctionInputs(m) \subseteq {input, Get(input, "username"), Get(input, "password")}
    BY DEF FunctionInputs, input
  <2> HIDE DEF G
  <2> QED
    BY <2>6, <2>7, <2>8
<1>5. Walked("slot", n) \subseteq G
  <2>1. \A m \in G : Inside("slot", m) \subseteq G
    BY <1>3, InsideIs
  <2> HIDE DEF G
  <2> QED
    BY <1>1, <1>2, <2>1, TreeReads
<1>6. \A m \in Resolves(n) : Walked("values", m) \subseteq G
  <2>1. TAKE m \in Resolves(n)
  <2>2. m \in G
    BY <1>5 DEF Resolves
  <2>3. \A x \in G : Inside("values", x) \subseteq G
    BY <1>4, InsideIs
  <2>4. Tree(m)
    BY <1>2, <2>2
  <2> HIDE DEF G
  <2> QED
    BY <1>1, <2>2, <2>3, <2>4, TreeReads
<1>7. Values(n) \subseteq G
  BY <1>6 DEF Values
<1> QED
  BY <1>2, <1>4, <1>5, <1>6, <1>7

\* The texts and refs of a slot are what a reader of its expressions takes them for.
Readable(n) == \A e \in ExpressionNodes(n) : e[1] # "function" => e[2].k = "str"

\* What each expression a walk reads adds to the expression nodes.
LEMMA NodesOf ==
    ASSUME NEW n, NEW m \in Walked("expressions", n)
    PROVE  /\ Form(m) = "str" => <<"template", m>> \in ExpressionNodes(n)
           /\ Form(m) = "template" => <<"template", m.at["template"]>> \in ExpressionNodes(n)
           /\ Form(m) = "function" => <<"function", m>> \in ExpressionNodes(n)
           /\ Form(m) = "ref" => <<"ref", m.at["ref"]>> \in ExpressionNodes(n)
BY DEF ExpressionNodes

\* What a value reads is among the tokens of a slot whose expressions have it.
LEMMA ReadsAreTokens ==
    ASSUME NEW n, Readable(n), NEW m \in Walked("expressions", n), Tree(m)
    PROVE  ReadBy(m) \subseteq Tokens(n)
<1> DEFINE Of(e) == IF e[1] = "ref" THEN {e[2].path} ELSE e[2].holes
<1>1. \A e \in ExpressionNodes(n) : e[1] # "function" /\ e[2].k = "str" => Of(e) \subseteq Tokens(n)
  BY DEF Tokens
<1>2. CASE Form(m) = "str"
  <2>1. <<"template", m>> \in ExpressionNodes(n) /\ m.k = "str"
    BY <1>2, NodesOf, FormIs
  <2>2. Of(<<"template", m>>) = m.holes
    OBVIOUS
  <2> QED
    BY <1>1, <1>2, <2>1, <2>2 DEF ReadBy
<1>3. CASE Form(m) = "template"
  <2>1. <<"template", m.at["template"]>> \in ExpressionNodes(n)
    BY <1>3, NodesOf
  <2>2. m.at["template"].k = "str"
    BY <2>1 DEF Readable
  <2>3. Of(<<"template", m.at["template"]>>) = m.at["template"].holes
    OBVIOUS
  <2> QED
    BY <1>1, <1>3, <2>1, <2>2, <2>3 DEF ReadBy
<1>4. CASE Form(m) = "ref"
  <2>1. <<"ref", m.at["ref"]>> \in ExpressionNodes(n)
    BY <1>4, NodesOf
  <2>2. m.at["ref"].k = "str"
    BY <2>1 DEF Readable
  <2>3. Of(<<"ref", m.at["ref"]>>) = {m.at["ref"].path}
    OBVIOUS
  <2> QED
    BY <1>1, <1>4, <2>1, <2>2, <2>3 DEF ReadBy
<1>5. CASE Form(m) \notin {"str", "template", "ref"}
  BY <1>5 DEF ReadBy
<1> QED
  BY <1>2, <1>3, <1>4, <1>5

\* The resolver looks up no token the checks did not grade.
LEMMA LookedUpAreTokens ==
    ASSUME NEW walk \in {"endpoint", "connector"}, NEW n, Tree(n), ShapeOk(walk, n), Readable(n)
    PROVE  LookedUp(n) \subseteq Tokens(n)
<1>1. \A m \in Values(n) : m \in Walked("expressions", n) /\ Tree(m)
  BY ValuesAreGraded
<1>2. \A m \in Values(n) : ReadBy(m) \subseteq Tokens(n)
  BY <1>1, ReadsAreTokens
<1> QED
  BY <1>2 DEF LookedUp

\* A slot the checks accept is readable, and its functions are named by texts.
LEMMA SlotsAreReadable ==
    ASSUME NEW n, SlotOk(n)
    PROVE  /\ ShapeOk("endpoint", n) /\ Readable(n)
           /\ \A m : <<"function", m>> \in ExpressionNodes(n) => Get(m, "function").k = "str"
<1>1. \A e \in ExpressionNodes(n) : e[1] \in {"template", "function", "ref"}
  BY DEF ExpressionNodes
<1>2. ASSUME NEW e \in ExpressionNodes(n), e[1] # "function"
      PROVE  e[2].k = "str"
  BY <1>1, <1>2 DEF SlotOk, PayloadsOk
<1>3. ASSUME NEW m, <<"function", m>> \in ExpressionNodes(n)
      PROVE  Get(m, "function").k = "str"
  <2> DEFINE e == <<"function", m>>
  <2>1. e \in ExpressionNodes(n) /\ e[1] = "function" /\ e[2] = m
    BY <1>3
  <2> HIDE DEF e
  <2>2. FunctionOk(e[2])
    BY <2>1 DEF SlotOk, PayloadsOk
  <2> QED
    BY <2>1, <2>2 DEF FunctionOk
<1> QED
  BY <1>2, <1>3 DEF SlotOk, EndpointShapeOk, Readable

\* The functions it calls are functions they saw.
LEMMA CalledAreNamed ==
    ASSUME NEW n, Tree(n), SlotOk(n)
    PROVE  Called(n) \subseteq FunctionNames(n)
<1>1. ShapeOk("endpoint", n)
  BY SlotsAreReadable
<1>2. ASSUME NEW m \in Values(n), Form(m) = "function"
      PROVE  m.at["function"].path[1] \in FunctionNames(n)
  <2>1. /\ m \in Walked("expressions", n) /\ m \in Walked("endpoint", n)
        /\ m \in Walked("functions", n) /\ Tree(m)
    BY <1>1, ValuesAreGraded
  <2>2. Has(m, "function") /\ ~Has(m, "literal")
    BY <1>1, <1>2, <2>1, GradedNodes
  <2>3. Get(m, "function").k = "str"
    BY <1>2, <2>1, NodesOf, SlotsAreReadable
  <2>4. m.at["function"].k = "str"
    BY <2>2, <2>3 DEF Get
  <2> QED
    BY <2>1, <2>2, <2>4 DEF FunctionNames, NamesOf
<1> QED
  BY <1>2 DEF Called

\* Each token is read by an expression.
LEMMA TokensAreRead ==
    ASSUME NEW n, NEW t \in Tokens(n)
    PROVE  \E m \in Walked("expressions", n) : Form(m) \in {"str", "template", "ref"} /\ t \in ReadBy(m)
<1> DEFINE E == Walked("expressions", n)
           Of(e) == IF e[1] = "ref" THEN {e[2].path} ELSE e[2].holes
<1>1. PICK e \in ExpressionNodes(n) : e[1] # "function" /\ t \in Of(e)
  BY DEF Tokens
<1>2. \/ \E m \in E : Form(m) = "str" /\ e = <<"template", m>>
      \/ \E m \in E : Form(m) = "template" /\ e = <<"template", m.at["template"]>>
      \/ \E m \in E : Form(m) = "function" /\ e = <<"function", m>>
      \/ \E m \in E : Form(m) = "ref" /\ e = <<"ref", m.at["ref"]>>
  BY DEF ExpressionNodes
<1> HIDE DEF E
<1>3. CASE \E m \in E : Form(m) = "str" /\ e = <<"template", m>>
  BY <1>1, <1>3 DEF ReadBy, E
<1>4. CASE \E m \in E : Form(m) = "template" /\ e = <<"template", m.at["template"]>>
  BY <1>1, <1>4 DEF ReadBy, E
<1>5. CASE \E m \in E : Form(m) = "function" /\ e = <<"function", m>>
  BY <1>1, <1>5
<1>6. CASE \E m \in E : Form(m) = "ref" /\ e = <<"ref", m.at["ref"]>>
  BY <1>1, <1>6 DEF ReadBy, E
<1> QED
  BY <1>2, <1>3, <1>4, <1>5, <1>6

\* The values of a slot are closed under the inputs of a function.
LEMMA ValuesAreClosed ==
    ASSUME NEW n, Tree(n), SlotOk(n)
    PROVE  /\ Resolves(n) \subseteq Values(n)
           /\ \A m \in Values(n) : Form(m) = "function" => FunctionInputs(m) \ {Null} \subseteq Values(n)
           /\ WellArgued(n) => \A m \in Values(n) : IsExpression(m) \/ m.k \notin {"list", "dict"}
<1> DEFINE E == Walked("expressions", n)
           G == E \cap Walked("endpoint", n) \cap Walked("functions", n)
           Plain == {m \in G : IsExpression(m) \/ m.k \notin {"list", "dict"}}
<1>1. "values" \in NodeWalks
  BY DEF NodeWalks
<1>2. /\ Walked("slot", n) \subseteq G
      /\ \A m \in G : Tree(m)
      /\ \A m \in G : Form(m) = "function" => FunctionInputs(m) \ {Null} \subseteq G
  BY SlotsAreReadable, ValuesAreGraded
<1>3. Resolves(n) \subseteq G /\ \A m \in Resolves(n) : Tree(m)
  BY <1>2 DEF Resolves
<1>4. \A m \in Resolves(n) : m \in Walked("values", m)
  BY <1>1, <1>3, TreeReads
<1>5. Resolves(n) \subseteq Values(n)
  BY <1>4 DEF Values
<1>6. ASSUME NEW m \in Values(n), Form(m) = "function"
      PROVE  FunctionInputs(m) \ {Null} \subseteq Values(n)
  <2>1. PICK r \in Resolves(n) : m \in Walked("values", r)
    BY DEF Values
  <2>2. Inside("values", m) \subseteq Walked("values", r)
    BY <1>1, <1>3, <2>1, TreeReads
  <2>3. Walked("values", r) \subseteq Values(n)
    BY DEF Values
  <2> QED
    BY <1>6, <2>2, <2>3, InsideIs
<1>7. ASSUME WellArgued(n), NEW m \in Values(n)
      PROVE  IsExpression(m) \/ m.k \notin {"list", "dict"}
  <2>1. PICK r \in Resolves(n) : m \in Walked("values", r)
    BY DEF Values
  <2>2. \A x \in Plain : Inside("values", x) \subseteq Plain
    <3>1. TAKE x \in Plain
    <3>2. CASE Form(x) = "function"
      <4> DEFINE e == <<"function", x>>
      <4>1. e \in ExpressionNodes(n) /\ e[1] = "function" /\ e[2] = x
        BY <3>1, <3>2, NodesOf
      <4> HIDE DEF e
      <4>2. \A i \in FunctionInputs(x) : i.k \in {"list", "dict"} => IsExpression(i)
        BY <1>7, <4>1 DEF WellArgued
      <4>3. FunctionInputs(x) \ {Null} \subseteq G
        BY <1>2, <3>1, <3>2
      <4> HIDE DEF G
      <4> QED
        BY <3>2, <4>2, <4>3, InsideIs
    <3>3. CASE Form(x) # "function"
      BY <3>3, InsideIs
    <3> QED
      BY <3>2, <3>3
  <2>3. r \in Plain
    BY <1>3, <2>1 DEF Resolves
  <2>4. Tree(r)
    BY <1>3, <2>1
  <2>5. Walked("values", r) \subseteq Plain
    <3> HIDE DEF Plain
    <3> QED
      BY <1>1, <2>2, <2>3, <2>4, TreeReads
  <2> QED
    BY <2>1, <2>5
<1> QED
  BY <1>5, <1>6, <1>7

\* Where each function is argued as its resolver reads it, the checks read no
\* expression it does not resolve.
LEMMA TokensAreLookedUp ==
    ASSUME NEW n, Tree(n), SlotOk(n), WellArgued(n)
    PROVE  Tokens(n) \subseteq LookedUp(n)
<1> DEFINE E == Walked("expressions", n)
           W == Walked("slot", n)
           V == Values(n)
           Data == {m \in E : m.k \notin {"list", "dict", "str"}}
           Pairs == {m \in E : m.k = "dict" /\ ~IsExpression(m) /\ Children(m) \subseteq V \cup Data}
           T == W \cup V \cup Data \cup Pairs
<1>1. {"expressions", "slot"} \subseteq NodeWalks
  BY DEF NodeWalks
<1>2. /\ n \in W /\ \A m \in W : Inside("slot", m) \subseteq W
      /\ \A m \in E : Tree(m) /\ Inside("expressions", m) \subseteq E
  BY <1>1, TreeReads
<1>3. /\ Resolves(n) \subseteq V
      /\ \A m \in V : Form(m) = "function" => FunctionInputs(m) \ {Null} \subseteq V
      /\ \A m \in V : IsExpression(m) \/ m.k \notin {"list", "dict"}
  BY ValuesAreClosed
<1>4. \A m \in W : IsExpression(m) \/ m.k = "str" => m \in V
  BY <1>3 DEF Resolves
<1>5. \A m \in E : ~IsExpression(m) => Inside("expressions", m) = Children(m)
  BY <1>2, FormIs, InsideIs DEF ValueKeys
<1>6. ASSUME NEW m \in V \cap E
      PROVE  Inside("expressions", m) \subseteq T
  <2>1. CASE Form(m) = "function"
    <3> DEFINE e == <<"function", m>>
               input == Get(m, "input")
    <3>1. e \in ExpressionNodes(n) /\ e[1] = "function" /\ e[2] = m
      BY <1>6, <2>1, NodesOf
    <3> HIDE DEF e
    <3>2. m.at["function"].path[1] = "basic_auth" =>
            input.k = "dict" /\ DOMAIN input.at = {"username", "password"}
      <4>1. m.at["function"].path[1] = "basic_auth" =>
              input.k = "dict" /\ DOMAIN m.at["input"].at = {"username", "password"}
        BY <3>1 DEF WellArgued
      <4>2. input.k = "dict" => input = m.at["input"]
        BY DEF Get, Null
      <4> QED
        BY <4>1, <4>2
    <3>3. \A c \in Inside("expressions", m) : Has(m, "input") /\ c = input /\ input \in E
      <4>1. Has(m, "function")
        BY <1>2, <1>6, <2>1, FormIs DEF ValueKeys
      <4> QED
        BY <1>2, <1>6, <2>1, <4>1, InsideIs DEF Has, Get
    <3>4. FunctionInputs(m) \subseteq V \cup {Null}
      BY <1>3, <1>6, <2>1
    <3> HIDE DEF input
    <3>5. CASE m.at["function"].path[1] = "basic_auth"
      <4>1. SUFFICES ASSUME input \in E
                     PROVE  input \in Pairs
        BY <3>3
      <4>2. input.k = "dict" /\ DOMAIN input.at = {"username", "password"}
        BY <3>2, <3>5
      <4>3. ~IsExpression(input)
        BY <4>2 DEF IsExpression, Has, ValueKeys
      <4>4. Children(input) = {input.at["username"], input.at["password"]}
        BY <4>2 DEF Children
      <4>5. Children(input) = FunctionInputs(m)
        BY <3>5, <4>2, <4>4 DEF FunctionInputs, Get, Has, input
      <4>6. Children(input) \subseteq E
        BY <1>2, <1>5, <4>1, <4>3
      <4>7. Null.k = "null"
        BY DEF Null
      <4> HIDE DEF E, V
      <4>8. Children(input) \subseteq V \cup Data
        BY <3>4, <4>5, <4>6, <4>7
      <4> QED
        BY <4>1, <4>2, <4>3, <4>8
    <3>6. CASE m.at["function"].path[1] # "basic_auth"
      <4>1. FunctionInputs(m) = {input}
        BY <3>6 DEF FunctionInputs, input
      <4>2. Null.k = "null"
        BY DEF Null
      <4> HIDE DEF E, V
      <4> QED
        BY <3>3, <3>4, <4>1, <4>2
    <3> QED
      BY <3>5, <3>6
  <2>2. CASE Form(m) # "function" /\ IsExpression(m)
    BY <2>2, InsideIs
  <2>3. CASE ~IsExpression(m)
    <3>1. Children(m) = {}
      BY <1>2, <1>3, <1>6, <2>3, FormIs DEF Children
    <3> QED
      BY <1>5, <1>6, <2>3, <3>1
  <2> QED
    BY <2>1, <2>2, <2>3
<1>7. ASSUME NEW m \in T \cap E
      PROVE  Inside("expressions", m) \subseteq T
  <2>1. CASE m \in V
    BY <1>6, <1>7, <2>1
  <2>2. CASE m \in W /\ m \notin V
    <3>1. ~IsExpression(m)
      BY <1>4, <2>2
    <3> QED
      BY <1>2, <1>5, <1>7, <2>2, <3>1, InsideIs
  <2>3. CASE m \in Data
    <3>1. ~IsExpression(m) /\ Children(m) = {}
      BY <1>2, <2>3, FormIs DEF Children
    <3> QED
      BY <1>5, <1>7, <3>1
  <2>4. CASE m \in Pairs
    BY <1>5, <2>4
  <2> QED
    BY <1>7, <2>1, <2>2, <2>3, <2>4
<1>8. E \subseteq T
  <2>1. n \in T
    BY <1>2
  <2> HIDE DEF T
  <2> QED
    BY <1>1, <1>7, <2>1, TreeReads
<1>9. ASSUME NEW t \in Tokens(n)
      PROVE  t \in LookedUp(n)
  <2>1. PICK m \in E : Form(m) \in {"str", "template", "ref"} /\ t \in ReadBy(m)
    BY TokensAreRead
  <2>2. IsExpression(m) \/ m.k = "str"
    BY <1>2, <2>1, FormIs DEF ValueKeys
  <2>3. m \notin Data /\ m \notin Pairs
    BY <1>2, <2>2, FormIs
  <2>4. m \in V
    BY <1>4, <1>8, <2>1, <2>2, <2>3
  <2> QED
    BY <2>1, <2>4 DEF LookedUp
<1> QED
  BY <1>9

\* A slot the checks accept hides nothing from them.
LEMMA Sweeps ==
    ASSUME NEW n, Tree(n)
    PROVE  SweepCoversResolution(n)
<1>1. SlotOk(n) => LookedUp(n) \subseteq Tokens(n)
  BY SlotsAreReadable, LookedUpAreTokens
<1>2. SlotOk(n) => Called(n) \subseteq FunctionNames(n)
  BY CalledAreNamed
<1>3. SlotOk(n) /\ WellArgued(n) => Tokens(n) \subseteq LookedUp(n)
  BY TokensAreLookedUp
<1> QED
  BY <1>1, <1>2, <1>3 DEF SweepCoversResolution

-----------------------------------------------------------------------------
(* What the values of a connector's slot come to.                            *)

\* What a value comes to, its inputs having come to f.
Comes(f, m, ctx) ==
    IF Form(m) = "function"
    THEN ResolveFunction(m, {FunctionInput(i, ctx, f[i]) : i \in FunctionInputs(m)})
    ELSE ResolveForm(m, ctx)

\* The inputs of a function are values before it.
LEMMA InputsAreBefore ==
    ASSUME NEW r, Tree(r)
    PROVE  \E rank \in [Walked("values", r) \cup {Null} -> 0..(Deepest + 1)] :
              \A m \in Walked("values", r) \cup {Null} : Form(m) = "function" =>
                 \A i \in FunctionInputs(m) : /\ i \in Walked("values", r) \cup {Null}
                                              /\ rank[i] < rank[m]
<1> DEFINE V == Walked("values", r)
<1>1. PICK S, height : r \in S /\ Heights(S, height)
  BY DEF Tree
<1> DEFINE rank == [m \in V \cup {Null} |-> IF m = Null THEN 0 ELSE height[m] + 1]
<1>2. height \in [S -> 0..Deepest] /\ Deepest \in Nat
  BY <1>1, DeepestAssumption DEF Heights
<1>3. "values" \in NodeWalks
  BY DEF NodeWalks
<1>4. \A m \in S : \A c \in Inside("values", m) : c \in S /\ height[c] < height[m]
  BY <1>1, <1>3, InsideIsLower
<1>5. V \subseteq S /\ \A m \in V : Inside("values", m) \subseteq V
  BY <1>1, <1>2, <1>4, WalkReads
<1>6. \A m \in V : height[m] \in 0..Deepest
  BY <1>2, <1>5
<1>7. rank \in [V \cup {Null} -> 0..(Deepest + 1)]
  BY <1>2, <1>6
<1>8. ASSUME NEW m \in V \cup {Null}, Form(m) = "function", NEW i \in FunctionInputs(m)
      PROVE  i \in V \cup {Null} /\ rank[i] < rank[m]
  <2>1. m # Null
    BY <1>8 DEF Null, Form, Has
  <2>2. CASE i = Null
    BY <1>6, <1>8, <2>1, <2>2
  <2>3. CASE i # Null
    <3>1. i \in Inside("values", m)
      BY <1>8, <2>3, InsideIs
    <3>2. i \in V /\ height[i] < height[m]
      BY <1>4, <1>5, <1>8, <2>1, <3>1
    <3> QED
      BY <1>6, <1>8, <2>1, <2>3, <3>2
  <2> QED
    BY <2>2, <2>3
<1> HIDE DEF rank
<1> QED
  BY <1>7, <1>8

\* Every value of a slot comes to what its form and its inputs say.
LEMMA ResolvedIs ==
    ASSUME NEW r, Tree(r), NEW ctx
    PROVE  \A m \in Walked("values", r) \cup {Null} :
              Resolved(r, ctx)[m] = Comes(Resolved(r, ctx), m, ctx)
<1> DEFINE D == Walked("values", r) \cup {Null}
<1>1. PICK rank \in [D -> 0..(Deepest + 1)] :
           \A m \in D : Form(m) = "function" =>
              \A i \in FunctionInputs(m) : i \in D /\ rank[i] < rank[m]
  BY InputsAreBefore
<1>2. Deepest \in Nat
  BY DeepestAssumption
<1> HIDE DEF D
<1> DEFINE from(k) == {m \in D : rank[m] < k}
           Exists(k) == \E f : f = [m \in from(k) |-> Comes(f, m, ctx)]
           H == {k \in 0..(Deepest + 2) : Exists(k)}
<1>3. Exists(0)
  <2>1. from(0) = {}
    BY <1>1
  <2> DEFINE f == [m \in from(0) |-> m]
  <2>2. f = [m \in from(0) |-> Comes(f, m, ctx)]
    BY <2>1
  <2> QED
    BY <2>2
<1>4. ASSUME NEW k \in 0..(Deepest + 2), Exists(k)
      PROVE  Exists(k + 1)
  <2>1. PICK f : f = [m \in from(k) |-> Comes(f, m, ctx)]
    BY <1>4
  <2> DEFINE g == [m \in from(k + 1) |-> IF m \in from(k) THEN f[m] ELSE Comes(f, m, ctx)]
  <2>2. from(k) \subseteq from(k + 1)
    BY <1>1
  <2>3. \A m \in from(k) : g[m] = f[m]
    BY <2>2
  <2>4. ASSUME NEW m \in from(k + 1)
        PROVE  Comes(g, m, ctx) = Comes(f, m, ctx)
    <3>1. CASE Form(m) = "function"
      <4>1. \A i \in FunctionInputs(m) : i \in from(k)
        BY <1>1, <1>4, <3>1
      <4>2. \A i \in FunctionInputs(m) : g[i] = f[i]
        BY <2>3, <4>1
      <4> HIDE DEF g
      <4>3. {FunctionInput(i, ctx, g[i]) : i \in FunctionInputs(m)}
              = {FunctionInput(i, ctx, f[i]) : i \in FunctionInputs(m)}
        BY <4>2
      <4> QED
        BY <3>1, <4>3 DEF Comes
    <3>2. CASE Form(m) # "function"
      BY <3>2 DEF Comes
    <3> QED
      BY <3>1, <3>2
  <2>5. \A m \in from(k + 1) : g[m] = Comes(f, m, ctx)
    BY <2>1
  <2>6. g = [m \in from(k + 1) |-> Comes(g, m, ctx)]
    BY <2>4, <2>5
  <2> QED
    BY <2>6
<1> HIDE DEF Exists
<1>5. Exists(Deepest + 2)
  <2>1. 0 \in H /\ H \in SUBSET (0..(Deepest + 2)) /\ Deepest + 2 \in Nat
    BY <1>2, <1>3
  <2>2. \A k \in 0..(Deepest + 2) : k \in H /\ k < Deepest + 2 => k + 1 \in H
    BY <1>2, <1>4
  <2> HIDE DEF H
  <2>3. H = 0..(Deepest + 2)
    BY <2>1, <2>2, UpFromZero
  <2> QED
    BY <1>2, <2>3 DEF H
<1>6. from(Deepest + 2) = D
  BY <1>1, <1>2
<1>7. \E f : f = [m \in D |-> Comes(f, m, ctx)]
  BY <1>5, <1>6 DEF Exists
<1>8. Resolved(r, ctx) = CHOOSE f : f = [m \in D |-> Comes(f, m, ctx)]
  BY DEF Resolved, Comes, D
<1>9. Resolved(r, ctx) = [m \in D |-> Comes(Resolved(r, ctx), m, ctx)]
  BY <1>7, <1>8
<1> QED
  BY <1>9 DEF D

\* A call argued as its model declares raises for none of its arguments, the null
\* "safe" excepted, where no input raises.
LEMMA CallsEnd ==
    ASSUME NEW m, ArgumentsOk(m), Has(m, "function"),
           ~(Has(m, "safe") /\ m.at["safe"].k = "null"),
           NEW inputs, Crash \notin inputs
    PROVE  ResolveFunction(m, inputs) # Crash
<1> DEFINE name == m.at["function"].path[1]
<1>1. Unresolved # Crash /\ Value # Crash /\ \A n : Raw(n) # Crash
  BY DEF Unresolved, Value, Crash, Raw
<1>2. name = "basic_auth" => Get(m, "input").k = "dict"
  <2>1. name = "basic_auth" => m.at["input"].k = "dict" /\ {"function", "input"} \subseteq DOMAIN m.at
    BY DEF ArgumentsOk
  <2> QED
    BY <2>1 DEF Get, Has
<1>3. name = "url_encode" => Get(m, "safe").k \in {"str", "null"}
  BY DEF ArgumentsOk
<1>4. name = "url_encode" /\ Has(m, "safe") => m.at["safe"].k = "str"
  BY <1>3 DEF Get
<1> QED
  BY <1>1, <1>2, <1>4 DEF ResolveFunction

\* Nothing a connector's slot is resolved from raises.
LEMMA NoValueRaises ==
    ASSUME NEW n, Tree(n), ConnectorSlotOk(n), ~NullSafe(n), NEW r \in Resolves(n), NEW ctx
    PROVE  ResolveValue(r, ctx) # Crash
<1> DEFINE D == Walked("values", r) \cup {Null}
           E == Walked("expressions", n)
           f == Resolved(r, ctx)
<1>1. ShapeOk("connector", n)
  BY DEF ConnectorSlotOk, ConnectorShapeOk
<1>2. /\ r \in Walked("expressions", n) /\ Tree(r)
      /\ \A m \in Walked("values", r) : m \in E /\ Tree(m)
  <2>1. r \in Walked("slot", n)
    BY DEF Resolves
  <2> QED
    BY <1>1, <2>1, ValuesAreGraded
<1>3. PICK rank \in [D -> 0..(Deepest + 1)] :
           \A m \in D : Form(m) = "function" =>
              \A i \in FunctionInputs(m) : i \in D /\ rank[i] < rank[m]
  BY <1>2, InputsAreBefore
<1>4. \A m \in D : f[m] = Comes(f, m, ctx)
  BY <1>2, ResolvedIs
<1>5. Unresolved # Crash /\ Value # Crash /\ \A m : Raw(m) # Crash
  BY DEF Unresolved, Value, Crash, Raw
<1>6. r \in D
  BY <1>2, TreeReads DEF NodeWalks
<1>7. Form(Null) = "null"
  BY DEF Null, Form, Has
<1> HIDE DEF D, f
<1>8. ASSUME NEW m \in D, Form(m) # "function"
      PROVE  f[m] # Crash
  <2>1. f[m] = ResolveForm(m, ctx)
    BY <1>4, <1>8 DEF Comes
  <2>2. CASE Form(m) = "template"
    <3> DEFINE e == <<"template", m.at["template"]>>
    <3>1. m \in E
      BY <1>2, <1>7, <2>2 DEF D
    <3>2. e \in ExpressionNodes(n) /\ e[1] = "template" /\ e[2] = m.at["template"]
      BY <2>2, <3>1, NodesOf
    <3> HIDE DEF e
    <3>3. m.at["template"].k = "str"
      BY <3>2 DEF ConnectorSlotOk, TemplatesClosed
    <3> QED
      BY <1>5, <2>1, <2>2, <3>3 DEF ResolveForm
  <2>3. CASE Form(m) # "template"
    BY <1>5, <2>1, <2>3 DEF ResolveForm
  <2> QED
    BY <2>2, <2>3
<1>9. ASSUME NEW m \in D, Form(m) = "function", \A i \in FunctionInputs(m) : f[i] # Crash
      PROVE  f[m] # Crash
  <2> DEFINE e == <<"function", m>>
             inputs == {FunctionInput(i, ctx, f[i]) : i \in FunctionInputs(m)}
  <2>1. m \in E /\ Tree(m)
    BY <1>2, <1>7, <1>9 DEF D
  <2>2. e \in ExpressionNodes(n) /\ e[1] = "function" /\ e[2] = m
    BY <1>9, <2>1, NodesOf
  <2> HIDE DEF e
  <2>3. ArgumentsOk(m) /\ ~(Has(m, "safe") /\ m.at["safe"].k = "null")
    BY <2>2 DEF ConnectorSlotOk, NullSafe
  <2>4. Has(m, "function")
    BY <1>9, <2>1, FormIs DEF ValueKeys
  <2>5. Crash \notin inputs
    BY <1>5, <1>9 DEF FunctionInput
  <2>6. f[m] = ResolveFunction(m, inputs)
    BY <1>4, <1>9 DEF Comes
  <2> HIDE DEF inputs
  <2> QED
    BY <2>3, <2>4, <2>5, <2>6, CallsEnd
<1> DEFINE Raised == {k \in Nat : \E m \in D : rank[m] = k /\ f[m] = Crash}
<1>10. Raised = {}
  <2>1. SUFFICES ASSUME Raised # {}
                 PROVE  FALSE
    OBVIOUS
  <2>2. Raised \in SUBSET Nat
    OBVIOUS
  <2> HIDE DEF Raised
  <2>3. PICK k \in Raised : \A j \in Raised : k <= j
    BY <2>1, <2>2, LeastNat
  <2>4. PICK m \in D : rank[m] = k /\ f[m] = Crash
    BY <2>3 DEF Raised
  <2>5. Form(m) = "function"
    BY <1>8, <2>4
  <2>6. PICK i \in FunctionInputs(m) : f[i] = Crash
    BY <1>9, <2>4, <2>5
  <2>7. i \in D /\ rank[i] < rank[m]
    BY <1>3, <2>5, <2>6
  <2>8. \A x \in D : rank[x] \in Nat
    BY <1>3, DeepestAssumption
  <2>9. rank[i] \in Raised
    BY <2>6, <2>7, <2>8 DEF Raised
  <2> QED
    BY <2>3, <2>4, <2>7, <2>8, <2>9
<1>11. f[r] # Crash
  <2>1. rank[r] \in Nat
    BY <1>3, <1>6, DeepestAssumption
  <2> QED
    BY <1>6, <1>10, <2>1
<1> QED
  BY <1>11 DEF ResolveValue, f

\* A connector's accepted slot looks up what a scope holds and raises for nothing but
\* a null "safe".
LEMMA ConnectorSlots ==
    ASSUME NEW n, Tree(n)
    PROVE  ConnectorSlotResolves(n)
<1> SUFFICES ASSUME ConnectorSlotOk(n)
             PROVE  /\ \A t \in LookedUp(n) : HasKnownScope(t)
                    /\ NullSafe(n) \/ \A ctx \in SUBSET Tokens(n) : Crash \notin Results(n, ctx)
  BY DEF ConnectorSlotResolves
<1>1. ShapeOk("connector", n)
  BY DEF ConnectorSlotOk, ConnectorShapeOk
<1>2. Readable(n)
  <2>1. \A e \in ExpressionNodes(n) : e[1] \in {"template", "function", "ref"}
    BY DEF ExpressionNodes
  <2> QED
    BY <2>1 DEF Readable, ConnectorSlotOk, TemplatesClosed, Qualified
<1>3. LookedUp(n) \subseteq Tokens(n)
  BY <1>1, <1>2, LookedUpAreTokens
<1>4. \A t \in Tokens(n) : HasKnownScope(t)
  BY DEF ConnectorSlotOk, Qualified, UnqualifiedTokens
<1>5. ASSUME ~NullSafe(n), NEW ctx \in SUBSET Tokens(n)
      PROVE  Crash \notin Results(n, ctx)
  <2>1. \A m \in Resolves(n) : ResolveValue(m, ctx) # Crash
    BY <1>5, NoValueRaises
  <2>2. \A m : Raw(m) # Crash
    BY DEF Raw, Crash
  <2> QED
    BY <2>1, <2>2 DEF Results
<1> QED
  BY <1>3, <1>4, <1>5

-----------------------------------------------------------------------------
(* The bindings of a request.                                                *)

\* The image of a finite set is finite.
LEMMA FiniteImage ==
    ASSUME NEW S, IsFiniteSet(S), NEW f, DOMAIN f = S
    PROVE  IsFiniteSet({f[x] : x \in S})
<1> DEFINE T == {f[x] : x \in S}
           g == [x \in S |-> f[x]]
<1>1. g \in Surjection(S, T)
  BY DEF Surjection
<1> HIDE DEF T
<1> QED
  BY <1>1, FS_Surjection DEF T

\* The walk of the places of a slot goes on from each to finitely many, at nodes the
\* walk of its bindings goes on to.
LEMMA InsidePlaces ==
    ASSUME NEW S, NEW height, Heights(S, height), NEW p, p[2] \in S
    PROVE  /\ IsFiniteSet(Inside("places", p))
           /\ \A q \in Inside("places", p) : q[2] \in Inside("from_param", p[2]) /\ q[2] \in S
<1> DEFINE m == p[2]
<1>1. Inside("places", p) = IF IsSingleton(m, "from_param") \/ Has(m, "literal") THEN {}
                            ELSE PlacesInside(p[1], m)
  BY DEF Inside, BindingKeys
<1>2. Inside("from_param", m) = IF IsSingleton(m, "from_param") \/ Has(m, "literal") THEN {}
                                ELSE Children(m)
  BY InsideIs DEF BindingKeys
<1>3. Json(m) /\ Children(m) \subseteq S
  BY DEF Heights
<1> HIDE DEF m
<1>4. IsFiniteSet(PlacesInside(p[1], m))
  <2>1. CASE m.k = "dict"
    <3> DEFINE f == [key \in DOMAIN m.at |-> <<Append(p[1], <<key, 0>>), m.at[key]>>]
    <3>1. IsFiniteSet(DOMAIN m.at) /\ DOMAIN f = DOMAIN m.at
      BY <1>3, <2>1 DEF Json
    <3>2. PlacesInside(p[1], m) = {f[key] : key \in DOMAIN m.at}
      BY <2>1 DEF PlacesInside
    <3> HIDE DEF f
    <3> QED
      BY <3>1, <3>2, FiniteImage
  <2>2. CASE m.k = "list"
    <3> DEFINE f == [i \in DOMAIN m.items |-> <<Append(p[1], <<"item", i>>), m.items[i]>>]
    <3>1. IsFiniteSet(DOMAIN m.items) /\ DOMAIN f = DOMAIN m.items
      BY <1>3, <2>2 DEF Json
    <3>2. PlacesInside(p[1], m) = {f[i] : i \in DOMAIN m.items}
      BY <2>2 DEF PlacesInside
    <3> HIDE DEF f
    <3> QED
      BY <3>1, <3>2, FiniteImage
  <2>3. CASE m.k \notin {"dict", "list"}
    <3>1. PlacesInside(p[1], m) = {}
      BY <2>3 DEF PlacesInside
    <3> QED
      BY <3>1, FS_EmptySet
  <2> QED
    BY <2>1, <2>2, <2>3
<1>5. \A q \in PlacesInside(p[1], m) : q[2] \in Children(m)
  <2>1. CASE m.k = "dict"
    BY <2>1 DEF PlacesInside, Children
  <2>2. CASE m.k = "list"
    BY <2>2 DEF PlacesInside, Children, ToSet
  <2>3. CASE m.k \notin {"dict", "list"}
    BY <2>3 DEF PlacesInside
  <2> QED
    BY <2>1, <2>2, <2>3
<1> QED
  BY <1>1, <1>2, <1>3, <1>4, <1>5, FS_EmptySet DEF m

\* The places where a slot binds its params are finitely many, each at a node the
\* walk of its bindings reads.
LEMMA PlacesRead ==
    ASSUME NEW n, Tree(n)
    PROVE  /\ IsFiniteSet(Walked("places", <<<<>>, n>>))
           /\ \A p \in Walked("places", <<<<>>, n>>) : p[2] \in Walked("from_param", n)
<1> DEFINE start == <<<<>>, n>>
           level == Levels("places", start)
           W == Walked("from_param", n)
<1>1. Deepest \in Nat
  BY DeepestAssumption
<1>2. /\ Walked("places", start) = level[Deepest].seen
      /\ level[0].seen = {start} /\ level[0].last = {start}
      /\ \A i \in 0..Deepest : i < Deepest =>
           /\ level[i + 1].last = UNION {Inside("places", m) : m \in level[i].last}
           /\ level[i + 1].seen = level[i].seen \cup level[i + 1].last
  BY LevelsAre
<1>3. PICK S, height : n \in S /\ Heights(S, height)
  BY DEF Tree
<1>4. n \in W /\ \A m \in W : Inside("from_param", m) \subseteq W
  BY TreeReads DEF NodeWalks
<1>5. start[2] = n
  OBVIOUS
<1> HIDE DEF start, level, W
<1> DEFINE Fine(P) == IsFiniteSet(P) /\ \A p \in P : p[2] \in S /\ p[2] \in W
           Good(i) == Fine(level[i].last) /\ Fine(level[i].seen)
           H == {i \in 0..Deepest : Good(i)}
<1>6. Good(0)
  <2>1. IsFiniteSet({start})
    BY FS_Singleton
  <2>2. \A p \in {start} : p[2] \in S /\ p[2] \in W
    BY <1>3, <1>4, <1>5
  <2>3. Fine({start})
    BY <2>1, <2>2
  <2>4. level[0].last = {start} /\ level[0].seen = {start}
    BY <1>2
  <2> HIDE DEF Fine
  <2> QED
    BY <2>3, <2>4
<1>7. ASSUME NEW i \in 0..Deepest, i < Deepest, Good(i)
      PROVE  Good(i + 1)
  <2> DEFINE last == level[i].last
             inside == [p \in last |-> Inside("places", p)]
             next == level[i + 1].last
  <2>1. next = UNION {inside[p] : p \in last} /\ level[i + 1].seen = level[i].seen \cup next
    <3>1. {inside[p] : p \in last} = {Inside("places", p) : p \in last}
      OBVIOUS
    <3>2. next = UNION {Inside("places", p) : p \in last}
          /\ level[i + 1].seen = level[i].seen \cup next
      BY <1>2, <1>7, Zenon
    <3> HIDE DEF inside, last, next
    <3> QED
      BY <3>1, <3>2
  <2>2. IsFiniteSet({inside[p] : p \in last})
    <3>1. IsFiniteSet(last) /\ DOMAIN inside = last
      BY <1>7
    <3> HIDE DEF inside, last
    <3> QED
      BY <3>1, FiniteImage
  <2>3. \A p \in last : /\ IsFiniteSet(inside[p])
                        /\ \A q \in inside[p] : q[2] \in S /\ q[2] \in W
    <3>1. TAKE p \in last
    <3>2. p[2] \in S /\ p[2] \in W
      BY <1>7, <3>1
    <3>3. /\ IsFiniteSet(Inside("places", p))
          /\ \A q \in Inside("places", p) : q[2] \in Inside("from_param", p[2]) /\ q[2] \in S
      BY <1>3, <3>2, InsidePlaces
    <3>4. Inside("from_param", p[2]) \subseteq W
      BY <1>4, <3>2
    <3> QED
      BY <3>1, <3>3, <3>4
  <2> HIDE DEF inside, last
  <2>4. IsFiniteSet(next)
    <3>1. \A T \in {inside[p] : p \in last} : IsFiniteSet(T)
      BY <2>3
    <3> HIDE DEF next
    <3> QED
      BY <2>1, <2>2, <3>1, FS_UNION
  <2>5. \A q \in next : q[2] \in S /\ q[2] \in W
    BY <2>1, <2>3
  <2> HIDE DEF next
  <2>6. IsFiniteSet(level[i + 1].seen)
    BY <1>7, <2>1, <2>4, FS_Union
  <2>7. \A q \in level[i + 1].seen : q[2] \in S /\ q[2] \in W
    BY <1>7, <2>1, <2>5
  <2> QED
    BY <2>4, <2>5, <2>6, <2>7 DEF next
<1> HIDE DEF Good
<1>8. Good(Deepest)
  <2>1. 0 \in H /\ H \in SUBSET (0..Deepest)
    BY <1>1, <1>6
  <2>2. \A i \in 0..Deepest : i \in H /\ i < Deepest => i + 1 \in H
    BY <1>1, <1>7
  <2> HIDE DEF H
  <2>3. H = 0..Deepest
    BY <1>1, <2>1, <2>2, UpFromZero
  <2> QED
    BY <1>1, <2>3 DEF H
<1> QED
  BY <1>2, <1>8 DEF Good, start, W

\* A request whose slots are JSON, the path params, headers and query objects whose
\* entries are not named as the forms of an expression or a binding are.
Request(r) ==
    /\ \A s \in Slots : Tree(r[s])
    /\ \A s \in Slots \ {"body"} :
         r[s].k = "null" \/ (r[s].k = "dict" /\ DOMAIN r[s].at \cap (ValueKeys \cup BindingKeys) = {})

\* What the resolver looks up at a site is a token the sweep read there.
LEMMA SiteReads ==
    ASSUME NEW n, Tree(n), SiteOk(n)
    PROVE  \A t \in LookedUp(n) : t \in Tokens(n) /\ HasKnownScope(t)
<1>1. SlotOk(n) /\ \A t \in Tokens(n) : HasKnownScope(t)
  BY DEF SiteOk, UnqualifiedTokens
<1>2. LookedUp(n) \subseteq Tokens(n)
  BY <1>1, SlotsAreReadable, LookedUpAreTokens
<1> QED
  BY <1>1, <1>2

\* The bindings of a slot are those of its entries.
LEMMA BoundInEntries ==
    ASSUME NEW r, Request(r), NEW s \in Slots, NEW key \in BindingKeys
    PROVE  /\ \A m \in Walked(key, r[s]) : IsSingleton(m, key) =>
                \E n \in Entries(r, s) : m \in Walked(key, n)
           /\ \A n \in Entries(r, s) : Tree(n) /\ Walked(key, n) \subseteq Walked(key, r[s])
<1>1. key \in NodeWalks
  BY DEF NodeWalks, BindingKeys
<1>2. CASE s = "body"
  BY <1>2 DEF Entries, Request
<1>3. CASE s # "body"
  <2> DEFINE slot == r[s]
             all == {slot} \cup UNION {Walked(key, n) : n \in Children(slot)}
  <2>1. /\ Tree(slot) /\ slot.k \in {"null", "dict"} /\ Entries(r, s) = Children(slot)
        /\ slot.k = "dict" => DOMAIN slot.at \cap (ValueKeys \cup BindingKeys) = {}
    BY <1>3 DEF Request, Entries
  <2> HIDE DEF slot
  <2>2. ~Has(slot, key) /\ ~Has(slot, "literal")
    BY <2>1 DEF Has, ValueKeys
  <2>3. Inside(key, slot) = Children(slot)
    BY <2>2, InsideIs DEF IsSingleton
  <2>4. /\ slot \in Walked(key, slot)
        /\ \A m \in Walked(key, slot) : Tree(m) /\ Inside(key, m) \subseteq Walked(key, slot)
        /\ \A T : slot \in T /\ (\A m \in T \cap Walked(key, slot) : Inside(key, m) \subseteq T)
             => Walked(key, slot) \subseteq T
    BY <1>1, <2>1, TreeReads, Zenon
  <2>5. \A n \in Children(slot) : Tree(n) /\ n \in Walked(key, slot)
    BY <2>3, <2>4
  <2>6. \A n \in Children(slot) :
           /\ n \in Walked(key, n)
           /\ \A m \in Walked(key, n) : Inside(key, m) \subseteq Walked(key, n)
           /\ \A T : n \in T /\ (\A m \in T \cap Walked(key, n) : Inside(key, m) \subseteq T)
                => Walked(key, n) \subseteq T
    BY <1>1, <2>5, TreeReads, Zenon
  <2>7. \A n \in Children(slot) : Walked(key, n) \subseteq Walked(key, slot)
    BY <2>4, <2>5, <2>6
  <2>8. \A m \in all : Inside(key, m) \subseteq all
    <3>1. Inside(key, slot) \subseteq all
      BY <2>3, <2>6
    <3>2. ASSUME NEW n \in Children(slot), NEW m \in Walked(key, n)
          PROVE  Inside(key, m) \subseteq all
      BY <2>6, <3>2
    <3> QED
      BY <3>1, <3>2
  <2>9. Walked(key, slot) \subseteq all
    <3>1. slot \in all
      OBVIOUS
    <3> HIDE DEF all
    <3> QED
      BY <2>4, <2>8, <3>1
  <2> QED
    BY <2>1, <2>2, <2>5, <2>7, <2>9 DEF slot, IsSingleton
<1> QED
  BY <1>2, <1>3

\* A binding of a param in a slot is one the checks read there.
LEMMA BindingsAreRead ==
    ASSUME NEW r, Request(r), NEW s \in Slots, NEW name, BindingsOf(r[s], name) # {}
    PROVE  \E n \in Entries(r, s) : name \in BoundNames(n)
<1> DEFINE slot == r[s]
<1>1. Tree(slot)
  BY DEF Request
<1>2. PICK p \in Walked("places", <<<<>>, slot>>) :
         IsSingleton(p[2], "from_param") /\ p[2].at["from_param"].k = "str"
         /\ p[2].at["from_param"].path = <<name>>
  BY DEF BindingsOf
<1>3. p[2] \in Walked("from_param", slot)
  BY <1>1, <1>2, PlacesRead
<1>4. PICK n \in Entries(r, s) : p[2] \in Walked("from_param", n)
  BY <1>2, <1>3, BoundInEntries DEF BindingKeys
<1>5. p[2].at["from_param"] \in SingletonPayloads(n, "from_param")
  BY <1>2, <1>4 DEF SingletonPayloads
<1>6. <<name>> \in SingletonValues(n, "from_param")
  BY <1>2, <1>5 DEF SingletonValues
<1>7. Head(<<name>>) = name
  OBVIOUS
<1> QED
  BY <1>6, <1>7 DEF BoundNames

\* The bindings of a param in a slot are finitely many.
LEMMA BindingsAreFinite ==
    ASSUME NEW n, Tree(n), NEW name
    PROVE  IsFiniteSet(BindingsOf(n, name))
<1> DEFINE P == Walked("places", <<<<>>, n>>)
           bind == {x \in P : /\ IsSingleton(x[2], "from_param")
                              /\ x[2].at["from_param"].k = "str"
                              /\ x[2].at["from_param"].path = <<name>>}
           f == [p \in bind |-> p[1]]
<1>1. IsFiniteSet(bind)
  BY PlacesRead, FS_Subset
<1>2. BindingsOf(n, name) = {f[p] : p \in bind} /\ DOMAIN f = bind
  BY DEF BindingsOf
<1> HIDE DEF f, bind
<1> QED
  BY <1>1, <1>2, FiniteImage

\* A param bound once is bound in the slot of its location.
LEMMA BoundInItsSlot ==
    ASSUME NEW r, Request(r), NEW params, NamesLand(r, params), BindingUniqueness(r, params),
           NEW name \in DOMAIN params
    PROVE  {s \in Slots : BindingsOf(r[s], name) # {}} = {s \in Slots : LocationOf[s] = params[name].loc}
<1> DEFINE of(s) == {<<s, at>> : at \in BindingsOf(r[s], name)}
           all == UNION {of(s) : s \in Slots}
<1>1. \A s \in Slots : IsFiniteSet(of(s))
  <2>1. TAKE s \in Slots
  <2> DEFINE B == BindingsOf(r[s], name)
             f == [at \in B |-> <<s, at>>]
  <2>2. IsFiniteSet(B)
    BY <2>1, BindingsAreFinite DEF Request
  <2>3. of(s) = {f[at] : at \in B} /\ DOMAIN f = B
    OBVIOUS
  <2> HIDE DEF f, B, of
  <2> QED
    BY <2>2, <2>3, FiniteImage
<1>2. all = of("path_params") \cup of("headers") \cup of("query") \cup of("body")
  BY DEF Slots
<1>3. IsFiniteSet(all)
  <2> HIDE DEF of, all
  <2>1. IsFiniteSet(of("path_params") \cup of("headers"))
    BY <1>1, FS_Union DEF Slots
  <2>2. IsFiniteSet(of("path_params") \cup of("headers") \cup of("query"))
    BY <1>1, <2>1, FS_Union DEF Slots
  <2>3. IsFiniteSet(of("path_params") \cup of("headers") \cup of("query") \cup of("body"))
    BY <1>1, <2>2, FS_Union DEF Slots
  <2> QED
    BY <1>2, <2>3
<1>4. Cardinality(all) = 1
  BY DEF BindingUniqueness
<1>5. PICK b : all = {b}
  BY <1>3, <1>4, FS_Singleton
<1>6. \A s \in Slots : \A at \in BindingsOf(r[s], name) : <<s, at>> = b
  <2>1. \A s \in Slots : \A at \in BindingsOf(r[s], name) : <<s, at>> \in all
    OBVIOUS
  <2> HIDE DEF all
  <2> QED
    BY <1>5, <2>1
<1>7. PICK s \in Slots : BindingsOf(r[s], name) # {}
  <2>1. (\A s \in Slots : BindingsOf(r[s], name) = {}) => all = {}
    OBVIOUS
  <2> HIDE DEF all
  <2> QED
    BY <1>5, <2>1
<1> HIDE DEF all
<1>8. \A z \in Slots : BindingsOf(r[z], name) # {} => z = s
  BY <1>6, <1>7
<1>9. LocationOf[s] = params[name].loc
  BY <1>7, BindingsAreRead DEF NamesLand
<1>10. \A z \in Slots : LocationOf[z] = LocationOf[s] => z = s
  <2>1. /\ LocationOf["path_params"] = "path" /\ LocationOf["headers"] = "header"
        /\ LocationOf["query"] = "query" /\ LocationOf["body"] = "body"
    BY DEF LocationOf
  <2> QED
    BY <2>1 DEF Slots
<1> QED
  BY <1>7, <1>8, <1>9, <1>10

-----------------------------------------------------------------------------
(* Read operations.                                                          *)

\* A read whose nodes are JSON, with the response schema every read declares.
Read(op) ==
    /\ Request(op.request)
    /\ \A name \in DOMAIN op.params : Tree(op.params[name].default)
    /\ \A e \in DOMAIN op.filters :
         op.filters[e].template # NoText => Tree(Dict([template |-> op.filters[e].template]))
    /\ Tree(op.pagination.reads) /\ \A key \in DOMAIN op.metadata : Tree(op.metadata[key])
    /\ op.response.schema.known

\* A param is driven by one filter, by pagination or by replication.
LEMMA OneDriver ==
    ASSUME NEW op, Wiring(op), NEW name \in DOMAIN op.params, NEW run \in Runs(op),
           NEW a \in Drivers(op, run, name), NEW b \in Drivers(op, run, name)
    PROVE  a = b
<1> DEFINE control == op.params[name].controlled
           Driven(d) == \/ \E e \in DOMAIN op.filters :
                             d = <<"filter", e>> /\ op.filters[e].param = name /\ control = NoParam
                        \/ d = <<"page", name>> /\ control = "pagination"
                        \/ d = <<"cursor", name>> /\ control = "replication"
<1>1. ASSUME NEW d \in Drivers(op, run, name)
      PROVE  Driven(d)
  <2>1. \/ \E e \in run.filtered : d = <<"filter", e>> /\ op.filters[e].param = name
        \/ d = <<"page", name>> /\ name \in PaginationFills(op.pagination)
        \/ d = <<"cursor", name>> /\ name \in ReplicationNames(op.replication)
    BY <1>1 DEF Drivers
  <2>2. run.filtered \subseteq DOMAIN op.filters
    BY DEF Runs
  <2>3. \A e \in DOMAIN op.filters : op.params[op.filters[e].param].controlled = NoParam
    BY DEF Wiring, FiltersOk
  <2>4. name \in PaginationFills(op.pagination) => control = "pagination"
    BY DEF Wiring, Controls, PaginationFills
  <2>5. name \in ReplicationNames(op.replication) => control = "replication"
    BY DEF Wiring, Controls
  <2> QED
    BY <2>1, <2>2, <2>3, <2>4, <2>5
<1>2. \A e, f \in DOMAIN op.filters : op.filters[e].param = op.filters[f].param => e = f
  BY DEF Wiring, FiltersOk
<1>3. Driven(a) /\ Driven(b)
  BY <1>1
<1> HIDE DEF control
<1> QED
  BY <1>2, <1>3 DEF NoParam

\* What fills a param drives it.
LEMMA FillsDrive ==
    ASSUME NEW op, NEW name, NEW run
    PROVE  /\ name \in PaginationFills(op.pagination) => Drivers(op, run, name) # {}
           /\ \A e \in run.filtered : op.filters[e].param = name => Drivers(op, run, name) # {}
           /\ name \in ReplicationNames(op.replication) /\ run.incremental /\ run.stored
                => Drivers(op, run, name) # {}
<1>1. ASSUME name \in PaginationFills(op.pagination)
      PROVE  Drivers(op, run, name) # {}
  <2>1. <<"page", name>> \in Drivers(op, run, name)
    BY <1>1 DEF Drivers
  <2> QED
    BY <2>1
<1>2. ASSUME NEW e \in run.filtered, op.filters[e].param = name
      PROVE  Drivers(op, run, name) # {}
  <2>1. <<"filter", e>> \in Drivers(op, run, name)
    BY <1>2 DEF Drivers
  <2> QED
    BY <2>1
<1>3. ASSUME name \in ReplicationNames(op.replication), run.incremental, run.stored
      PROVE  Drivers(op, run, name) # {}
  <2>1. <<"cursor", name>> \in Drivers(op, run, name)
    BY <1>3 DEF Drivers
  <2> QED
    BY <2>1
<1> QED
  BY <1>1, <1>2, <1>3

\* Each param of an accepted read stands in its one place, with one driver at most and
\* a value in some run.
LEMMA ParamsArrive ==
    ASSUME NEW op, Read(op)
    PROVE  RequiredParamsArrive(op)
<1> SUFFICES ASSUME ReadAccepted(op), NEW name \in DOMAIN op.params
             PROVE  LET param == op.params[name]
                        Given(run) == DeclaresAValue(param.default) \/ Drivers(op, run, name) # {}
                        bound == {s \in Slots : BindingsOf(op.request[s], name) # {}}
                    IN /\ \A run \in Runs(op) : Cardinality(Drivers(op, run, name)) <= 1
                       /\ bound = {s \in Slots : LocationOf[s] = param.loc}
                       /\ param.required => \E run \in Runs(op) : Given(run)
                       /\ /\ param.required
                          /\ name \notin FiltersLand(op.filters) \cup ReplicationNames(op.replication)
                          => \A run \in Runs(op) : Given(run)
  BY DEF RequiredParamsArrive
<1> DEFINE param == op.params[name]
           Given(run) == DeclaresAValue(param.default) \/ Drivers(op, run, name) # {}
<1>1. Wiring(op)
  BY DEF ReadAccepted
<1>2. ASSUME NEW run \in Runs(op)
      PROVE  Cardinality(Drivers(op, run, name)) <= 1
  <2> DEFINE D == Drivers(op, run, name)
  <2>1. \A a, b \in D : a = b
    BY <1>1, OneDriver
  <2> HIDE DEF D
  <2>2. D = {} \/ \E a : D = {a}
    BY <2>1
  <2>3. CASE D = {}
    BY <2>3, FS_EmptySet DEF D
  <2>4. CASE \E a : D = {a}
    BY <2>4, FS_Singleton DEF D
  <2> QED
    BY <2>2, <2>3, <2>4
<1>3. {s \in Slots : BindingsOf(op.request[s], name) # {}} = {s \in Slots : LocationOf[s] = param.loc}
  <2>1. /\ Request(op.request) /\ NamesLand(op.request, op.params)
        /\ BindingUniqueness(op.request, op.params)
    BY <1>1 DEF Read, Wiring, ParamWiring
  <2> QED
    BY <2>1, BoundInItsSlot
<1>4. param.required =>
        \/ DeclaresAValue(param.default)
        \/ name \in PaginationFills(op.pagination) \cup ReplicationFills(op.replication)
        \/ name \in FiltersLand(op.filters)
  <2>1. RequiredHaveASource(op.params, FALSE,
            PaginationFills(op.pagination) \cup ReplicationFills(op.replication), FiltersLand(op.filters))
    BY <1>1 DEF Wiring
  <2> QED
    BY <2>1, Zenon DEF RequiredHaveASource
<1>5. param.required => \E run \in Runs(op) : Given(run)
  <2> DEFINE run == [filtered |-> DOMAIN op.filters,
                     incremental |-> IF "incremental" \in op.replication.methods THEN TRUE ELSE FALSE,
                     stored |-> TRUE]
  <2>1. run \in Runs(op)
    <3>1. run.incremental \in {x \in BOOLEAN : x => "incremental" \in op.replication.methods}
      OBVIOUS
    <3> QED
      BY <3>1 DEF Runs
  <2>2. /\ run.filtered = DOMAIN op.filters /\ run.stored
        /\ run.incremental <=> "incremental" \in op.replication.methods
    OBVIOUS
  <2> HIDE DEF run
  <2>3. name \in FiltersLand(op.filters) => Drivers(op, run, name) # {}
    BY <2>2, FillsDrive DEF FiltersLand
  <2>4. name \in ReplicationFills(op.replication) => Drivers(op, run, name) # {}
    BY <2>2, FillsDrive DEF ReplicationFills
  <2>5. name \in PaginationFills(op.pagination) => Drivers(op, run, name) # {}
    BY FillsDrive
  <2> QED
    BY <1>4, <2>1, <2>3, <2>4, <2>5
<1>6. param.required /\ name \notin FiltersLand(op.filters) \cup ReplicationNames(op.replication)
        => \A run \in Runs(op) : Given(run)
  <2>1. ReplicationFills(op.replication) \subseteq ReplicationNames(op.replication)
    BY DEF ReplicationFills
  <2> QED
    BY <1>4, <2>1, FillsDrive
<1> QED
  BY <1>2, <1>3, <1>5, <1>6

\* What an accepted read looks up exists by then.
LEMMA ReadsExist ==
    ASSUME NEW op, Read(op)
    PROVE  ReadsWhatExists(op)
<1> SUFFICES ASSUME ReadAccepted(op)
             PROVE  ReadsWhatExists(op)
  BY DEF ReadsWhatExists
<1>1. /\ ResponseSitesOk(op) /\ RequestSitesOk(op.request, op.params)
      /\ FiltersOk(op.filters, op.params, op.response.fields)
  BY DEF ReadAccepted, Wiring, ResponseSitesOk
<1>2. \A s \in Slots : \A t \in LookedUp(op.request[s]) : HasKnownScope(t) /\ ~OfResponse(t)
  BY <1>1, SiteReads DEF Read, Request, RequestSitesOk, RequestSiteOk
<1>3. \A name \in DOMAIN op.params : \A t \in LookedUp(op.params[name].default) : ~OfResponse(t)
  BY <1>1, SiteReads DEF Read, RequestSitesOk, RequestSiteOk
<1>4. ASSUME NEW e \in DOMAIN op.filters, op.filters[e].template # NoText
      PROVE  /\ OwnValue(e) \in op.filters[e].template.holes
             /\ \A t \in op.filters[e].template.holes : ~OfResponse(t)
  <2> DEFINE text == op.filters[e].template
             n == Dict([template |-> text])
  <2>1. OwnValue(e) \in text.holes
    BY <1>1, <1>4 DEF FiltersOk
  <2>2. Tree(n) /\ RequestSiteOk(n)
    BY <1>1, <1>4 DEF Read, ResponseSitesOk
  <2>3. Form(n) = "template" /\ n.at["template"] = text
    BY DEF Form, Has, Dict
  <2> HIDE DEF n, text
  <2>4. n \in Walked("expressions", n)
    BY <2>2, TreeReads DEF NodeWalks
  <2>5. Readable(n)
    BY <2>2, SlotsAreReadable DEF RequestSiteOk, SiteOk
  <2>6. ReadBy(n) \subseteq Tokens(n)
    BY <2>2, <2>4, <2>5, ReadsAreTokens
  <2>7. ReadBy(n) = text.holes
    BY <2>3 DEF ReadBy
  <2> QED
    BY <2>1, <2>2, <2>6, <2>7 DEF RequestSiteOk, text
<1>5. ASSUME NEW n \in {op.pagination.reads} \cup {op.metadata[key] : key \in DOMAIN op.metadata},
             NEW t \in LookedUp(n), OfResponse(t)
      PROVE  \/ /\ Len(t) > 1 /\ t[2] = "body"
                /\ SubSeq(t, 3, Len(t)) \in op.response.schema.typed
             \/ /\ Len(t) > 1 /\ t[2] \in ReservedResponseScopes \ {"body"}
                /\ t[2] = "metadata" /\ Len(t) > 2 => t[3] \in DOMAIN op.metadata
  <2>1. Tree(n) /\ ResponseSiteOk(n, DOMAIN op.metadata, op.response.schema)
    BY <1>1 DEF Read, ResponseSitesOk
  <2>2. t \in Tokens(n)
    BY <2>1, SiteReads DEF ResponseSiteOk
  <2> QED
    BY <1>5, <2>1, <2>2 DEF ResponseSiteOk, Read
<1> QED
  BY <1>2, <1>3, <1>4, <1>5 DEF ReadsWhatExists

-----------------------------------------------------------------------------
(* Write operations.                                                         *)

\* Record shapes, what no document says among them: fields are shapes, and where there
\* is no properties map there are none.
Shapes(S) ==
    /\ Unknown({}) \in S
    /\ \A s \in S : /\ \A f \in DOMAIN s.fields : s.fields[f] \in S
                    /\ ~s.known => DOMAIN s.fields = {}

\* A write whose nodes are JSON and whose record is a shape.
Write(w) ==
    /\ Request(w.request)
    /\ \A name \in DOMAIN w.params : Tree(w.params[name].default)
    /\ Tree(w.response)
    /\ \E S : w.input \in S /\ Shapes(S)

\* The shapes along a path: each is the field of the one before, or unknown.
LEMMA ShapesAlongIs ==
    ASSUME NEW shape, NEW path, Len(path) \in Nat
    PROVE  LET along == ShapesAlong(shape, path)
           IN /\ along[0] = shape
              /\ \A k \in 0..Len(path) : k < Len(path) =>
                   along[k + 1] = IF along[k].known /\ path[k + 1] \in TopLevel(along[k])
                                  THEN along[k].fields[path[k + 1]] ELSE Unknown({})
<1> DEFINE N == Len(path)
           E(f, i) == IF i = 0 THEN shape
                      ELSE LET parent == f[i - 1]
                           IN IF parent.known /\ path[i] \in TopLevel(parent)
                              THEN parent.fields[path[i]] ELSE Unknown({})
           Exists(k) == \E f : f = [i \in 0..k |-> E(f, i)]
           H == {k \in 0..N : Exists(k)}
<1>1. N \in Nat
  OBVIOUS
<1> HIDE DEF N
<1>2. Exists(0)
  <2> DEFINE f == [i \in 0..0 |-> shape]
  <2>1. f = [i \in 0..0 |-> E(f, i)]
    OBVIOUS
  <2> QED
    BY <2>1
<1>3. ASSUME NEW k \in Nat, Exists(k)
      PROVE  Exists(k + 1)
  <2>1. PICK f : f = [i \in 0..k |-> E(f, i)]
    BY <1>3
  <2> DEFINE g == [i \in 0..(k + 1) |-> IF i = k + 1 THEN E(f, i) ELSE f[i]]
  <2>2. \A i \in 0..k : g[i] = f[i]
    OBVIOUS
  <2>3. ASSUME NEW i \in 0..(k + 1)
        PROVE  E(g, i) = E(f, i)
    <3>1. CASE i = 0
      BY <3>1
    <3>2. CASE i # 0
      <4>1. i - 1 \in 0..k
        BY <3>2
      <4>2. g[i - 1] = f[i - 1]
        BY <2>2, <4>1
      <4> HIDE DEF g
      <4> QED
        BY <4>2
    <3> QED
      BY <3>1, <3>2
  <2> HIDE DEF E
  <2>4. \A i \in 0..(k + 1) : g[i] = E(f, i)
    BY <2>1
  <2>5. g = [i \in 0..(k + 1) |-> E(g, i)]
    BY <2>3, <2>4
  <2> QED
    BY <2>5
<1> HIDE DEF Exists
<1>4. Exists(N)
  <2>1. 0 \in H
    BY <1>1, <1>2
  <2>2. \A k \in 0..N : k \in H /\ k < N => k + 1 \in H
    BY <1>1, <1>3
  <2>3. H \in SUBSET (0..N)
    OBVIOUS
  <2> HIDE DEF H
  <2>4. H = 0..N
    BY <1>1, <2>1, <2>2, <2>3, UpFromZero
  <2> QED
    BY <1>1, <2>4 DEF H
<1>5. \E f : f = [i \in 0..N |-> E(f, i)]
  BY <1>4 DEF Exists
<1> DEFINE along == ShapesAlong(shape, path)
<1>6. along = CHOOSE f : f = [i \in 0..N |-> E(f, i)]
  BY DEF ShapesAlong, N
<1>7. along = [i \in 0..N |-> E(along, i)]
  <2> HIDE DEF E, along
  <2> QED
    BY <1>5, <1>6
<1> HIDE DEF along
<1>8. \A i \in 0..N : along[i] = E(along, i)
  <2> HIDE DEF E
  <2> QED
    BY <1>7
<1>9. along[0] = shape
  <2>1. 0 \in 0..N
    BY <1>1
  <2>2. along[0] = E(along, 0)
    <3> HIDE DEF E
    <3> QED
      BY <1>8, <2>1
  <2> QED
    BY <2>2
<1>10. ASSUME NEW k \in 0..N, k < N
       PROVE  along[k + 1] = IF along[k].known /\ path[k + 1] \in TopLevel(along[k])
                             THEN along[k].fields[path[k + 1]] ELSE Unknown({})
  <2>1. k + 1 \in 0..N /\ k + 1 # 0 /\ (k + 1) - 1 = k
    BY <1>1, <1>10
  <2>2. along[k + 1] = E(along, k + 1)
    <3> HIDE DEF E
    <3> QED
      BY <1>8, <2>1
  <2> QED
    BY <2>1, <2>2
<1> QED
  BY <1>9, <1>10 DEF along, N

\* A path leads to a shape.
LEMMA ShapesStay ==
    ASSUME NEW S, Shapes(S), NEW shape \in S, NEW path, Len(path) \in Nat
    PROVE  ShapeAt(shape, path) \in S
<1> DEFINE along == ShapesAlong(shape, path)
           H == {k \in 0..Len(path) : along[k] \in S}
<1>1. /\ along[0] = shape
      /\ \A k \in 0..Len(path) : k < Len(path) =>
           along[k + 1] = IF along[k].known /\ path[k + 1] \in TopLevel(along[k])
                          THEN along[k].fields[path[k + 1]] ELSE Unknown({})
  BY ShapesAlongIs
<1> HIDE DEF along
<1>2. 0 \in H /\ H \in SUBSET (0..Len(path))
  BY <1>1
<1>3. \A k \in 0..Len(path) : k \in H /\ k < Len(path) => k + 1 \in H
  <2>1. TAKE k \in 0..Len(path)
  <2>2. HAVE k \in H /\ k < Len(path)
  <2>3. along[k + 1] \in S
    BY <1>1, <2>1, <2>2 DEF Shapes, TopLevel
  <2> QED
    BY <2>1, <2>2, <2>3
<1> HIDE DEF H
<1>4. H = 0..Len(path)
  BY <1>2, <1>3, UpFromZero
<1> QED
  BY <1>4 DEF H, ShapeAt, along

\* The paths of the inputs a document binds are texts.
LEMMA InputsAreTexts ==
    ASSUME NEW n, Tree(n)
    PROVE  \A path \in BoundInputs(n) : path \in Seq(STRING)
<1>1. \A m \in Walked("from_input", n) : Tree(m)
  BY TreeReads DEF NodeWalks
<1>2. ASSUME NEW m \in Walked("from_input", n), IsSingleton(m, "from_input"),
             m.at["from_input"].k = "str"
      PROVE  m.at["from_input"].path \in Seq(STRING)
  <2>1. m.at["from_input"] \in Children(m)
    BY <1>2, KeysAreChildren DEF IsSingleton
  <2>2. Json(m.at["from_input"])
    BY <1>1, <1>2, <2>1 DEF Tree, Heights
  <2> QED
    BY <1>2, <2>2 DEF Json
<1> QED
  BY <1>2 DEF BoundInputs, SingletonValues, SingletonPayloads

\* What is put in place of each input of an accepted body: the batch, one record or
\* a field of it.
LEMMA InputsAreSent ==
    ASSUME NEW w, Write(w), WriteAccepted(w), NEW path \in BoundInputs(w.request.body)
    PROVE  /\ w.batching => path = <<"records">>
           /\ ~w.batching => Head(path) = "record" /\ Substituted(w, path) \in {"record", "field"}
<1>1. /\ path \in {<<"record">>, <<"records">>} \/ RecordField(path)
      /\ IF w.batching THEN Head(path) # "record" ELSE path # <<"records">>
      /\ ~Undeclared(w.input, FieldPath(path))
  BY DEF WriteAccepted, WriteWiring, ParamWiring, InputsStand
<1>2. path \in Seq(STRING)
  BY InputsAreTexts DEF Write, Request, Slots
<1>3. RecordField(path) => Head(path) = "record"
  BY <1>2 DEF RecordField
<1>4. Head(<<"record">>) = "record" /\ <<"record">> # <<"records">>
  OBVIOUS
<1>5. CASE path = <<"record">>
  BY <1>1, <1>4, <1>5 DEF Substituted
<1>6. CASE path = <<"records">>
  BY <1>1, <1>6
<1>7. CASE RecordField(path) /\ path \notin {<<"record">>, <<"records">>}
  <2>1. FieldPath(path) = Tail(path)
    BY <1>7 DEF FieldPath
  <2> QED
    BY <1>1, <1>3, <1>7, <2>1 DEF Substituted
<1> QED
  BY <1>1, <1>5, <1>6, <1>7

\* What the holes of an accepted write's path are bound to.
LEMMA HolesAreSent ==
    ASSUME NEW w, Write(w), WriteAccepted(w), w.request.path_params.k = "dict",
           NEW hole \in DOMAIN w.request.path_params.at
    PROVE  LET n == w.request.path_params.at[hole]
           IN /\ BoundInputs(n) # {} => /\ ~w.batching
                                        /\ \A path \in BoundInputs(n) : Substituted(w, path) = "field"
              /\ \A name \in BoundNames(n) : w.params[name].default # Null
<1> DEFINE r == w.request
           n == r.path_params.at[hole]
<1>1. /\ PathBinding(n, w.params, TRUE) /\ NamesLand(r, w.params) /\ Request(r)
      /\ BoundInputs(r.path_params) # {} => ~w.batching
      /\ \A path \in BoundInputs(r.path_params) : ~Undeclared(w.input, FieldPath(path))
  BY DEF WriteAccepted, WriteWiring, ParamWiring, Write
<1>2. n \in Entries(r, "path_params") /\ r["path_params"] = r.path_params
  <2>1. Has(r.path_params, hole)
    BY DEF Has
  <2> QED
    BY <2>1, KeysAreChildren DEF Entries
<1> HIDE DEF n, r
<1>3. BoundInputs(n) \subseteq BoundInputs(r.path_params)
  <2>1. Walked("from_input", n) \subseteq Walked("from_input", r.path_params)
    BY <1>1, <1>2, BoundInEntries DEF BindingKeys, Slots
  <2> QED
    BY <2>1 DEF BoundInputs, SingletonValues, SingletonPayloads
<1>4. ASSUME NEW path \in BoundInputs(n)
      PROVE  Substituted(w, path) = "field"
  <2>1. RecordField(path) /\ ~Undeclared(w.input, FieldPath(path))
    BY <1>1, <1>3, <1>4 DEF PathBinding
  <2>2. FieldPath(path) = Tail(path)
    BY <2>1 DEF FieldPath
  <2>3. path # <<"record">> /\ path # <<"records">>
    <3>1. Len(<<"record">>) = 1 /\ Len(<<"records">>) = 1
      OBVIOUS
    <3>2. path \in {<<"record">>, <<"records">>} => Len(path) = 1
      BY <3>1, Zenon
    <3>3. Len(path) > 1
      BY <2>1 DEF RecordField
    <3>4. ASSUME Len(path) = 1
          PROVE  FALSE
      BY <3>3, <3>4
    <3> QED
      BY <3>2, <3>4, Zenon
  <2> QED
    BY <2>1, <2>2, <2>3 DEF Substituted
<1>5. ASSUME NEW name \in BoundNames(n)
      PROVE  w.params[name].default # Null
  <2>1. name \in DOMAIN w.params
    BY <1>1, <1>2, <1>5 DEF NamesLand, Slots
  <2>2. w.params[name].default.k # "null"
    BY <1>1, <1>5, <2>1 DEF PathBinding
  <2> QED
    BY <2>2 DEF Null
<1> QED
  BY <1>1, <1>3, <1>4, <1>5 DEF n, r

\* The key the engine adds is no name the body already has.
LEMMA KeyIsNew ==
    ASSUME NEW w, Write(w), WriteAccepted(w), w.idempotency.loc = "body"
    PROVE  w.idempotency.name \notin BodyNames(w)
<1> DEFINE body == w.request.body
           payload == body.at["from_input"]
           key == w.idempotency.name
           shape == IF IsSingleton(body, "from_input") /\ body.at["from_input"].k = "str"
                       /\ Head(body.at["from_input"].path) = "record"
                    THEN ShapeAt(w.input, Tail(body.at["from_input"].path)) ELSE Unknown({})
<1>1. IdempotencyOk(w) /\ BoundInputs(body) # {}
  BY DEF WriteAccepted, WriteWiring
<1>2. /\ ~w.batching
      /\ IF IsSingleton(body, "from_input") THEN shape.known => key \notin TopLevel(shape)
         ELSE key \notin DOMAIN body.at
  BY <1>1 DEF IdempotencyOk, NoKey
<1>3. Tree(body)
  BY DEF Write, Request, Slots
<1>4. CASE ~IsSingleton(body, "from_input")
  BY <1>2, <1>4 DEF BodyNames
<1>5. CASE IsSingleton(body, "from_input")
  <2>1. Inside("from_input", body) = {}
    BY <1>5, InsideIs DEF BindingKeys
  <2>2. body \in Walked("from_input", body) /\ Walked("from_input", body) \subseteq {body}
    <3>1. "from_input" \in NodeWalks
      BY DEF NodeWalks
    <3>2. \A m \in {body} : Inside("from_input", m) \subseteq {body}
      BY <2>1
    <3> HIDE DEF body
    <3> QED
      BY <1>3, <3>1, <3>2, TreeReads
  <2>3. payload.k = "str" /\ payload.path \in BoundInputs(body)
    BY <1>1, <1>5, <2>2 DEF BoundInputs, SingletonValues, SingletonPayloads
  <2>4. Head(payload.path) = "record"
    BY <1>2, <2>3, InputsAreSent
  <2>5. Len(Tail(payload.path)) \in Nat
    <3>1. payload.path \in Seq(STRING)
      BY <1>3, <2>3, InputsAreTexts
    <3>2. payload.path \in {<<"record">>, <<"records">>} \/ RecordField(payload.path)
      BY <2>3 DEF WriteAccepted, WriteWiring, ParamWiring, InputsStand
    <3>3. payload.path # <<>>
      <4>1. Len(<<>>) = 0 /\ Len(<<"record">>) = 1 /\ Len(<<"records">>) = 1
        OBVIOUS
      <4> HIDE DEF payload
      <4>2. payload.path \in {<<"record">>, <<"records">>} => Len(payload.path) = 1
        BY <4>1, Zenon
      <4>3. Len(payload.path) = 1 \/ Len(payload.path) > 1
        BY <3>2, <4>2 DEF RecordField
      <4>4. Len(payload.path) # 0
        BY <4>3, SMT
      <4> QED
        BY <4>1, <4>4, Zenon
    <3> QED
      BY <3>1, <3>3
  <2>6. PICK S : w.input \in S /\ Shapes(S)
    BY DEF Write
  <2>7. shape = ShapeAt(w.input, Tail(payload.path))
    BY <1>5, <2>3, <2>4
  <2>8. shape \in S
    BY <2>5, <2>6, <2>7, ShapesStay
  <2> HIDE DEF shape
  <2>9. key \notin TopLevel(shape)
    BY <1>2, <1>5, <2>6, <2>8 DEF Shapes, TopLevel
  <2> QED
    BY <1>5, <2>7, <2>9 DEF BodyNames
<1> QED
  BY <1>4, <1>5

\* An accepted write sends each of its records.
LEMMA RecordsAreSent ==
    ASSUME NEW w, Write(w)
    PROVE  EachRecordIsSent(w)
<1> SUFFICES ASSUME WriteAccepted(w)
             PROVE  EachRecordIsSent(w)
  BY DEF EachRecordIsSent
<1>1. BoundInputs(w.request.body) # {} /\ IdempotencyOk(w)
  BY DEF WriteAccepted, WriteWiring
<1>2. IF w.batching THEN SentInputs(w) = {"batch"}
      ELSE SentInputs(w) # {} /\ SentInputs(w) \subseteq {"record", "field"}
  <2>1. CASE w.batching
    <3>1. \A path \in BoundInputs(w.request.body) : Substituted(w, path) = "batch"
      BY <2>1, InputsAreSent DEF Substituted
    <3> QED
      BY <1>1, <2>1, <3>1 DEF SentInputs
  <2>2. CASE ~w.batching
    <3>1. \A path \in BoundInputs(w.request.body) : Substituted(w, path) \in {"record", "field"}
      BY <2>2, InputsAreSent
    <3> QED
      BY <1>1, <2>2, <3>1 DEF SentInputs
  <2> QED
    BY <2>1, <2>2
<1>3. w.idempotency.loc = "header" => HeaderKey(w.idempotency.name) \notin HeaderKeys(w)
  BY <1>1 DEF IdempotencyOk, NoKey
<1>4. w.idempotency.loc # NoKey => SentInputs(w) \cap {"batch"} = {}
  <2>1. w.idempotency.loc # NoKey => ~w.batching
    BY <1>1 DEF IdempotencyOk
  <2> QED
    BY <1>2, <2>1
<1>5. w.input.known => \A key \in w.conflict_keys : key \in TopLevel(w.input)
  BY DEF WriteAccepted, WriteWiring
<1> QED
  BY <1>2, <1>3, <1>4, <1>5, HolesAreSent, KeyIsNew DEF EachRecordIsSent

\* An accepted write reads its success from what its response has, and its request
\* from no response.
LEMMA SuccessIsRead ==
    ASSUME NEW w, Write(w)
    PROVE  SuccessIsReadable(w)
<1> SUFFICES ASSUME WriteAccepted(w)
             PROVE  SuccessIsReadable(w)
  BY DEF SuccessIsReadable
<1>1. WriteSitesOk(w)
  BY DEF WriteAccepted, WriteWiring
<1>2. \A s \in Slots : \A t \in LookedUp(w.request[s]) : ~OfResponse(t) /\ HasKnownScope(t)
  BY <1>1, SiteReads DEF Write, Request, WriteSitesOk, RequestSitesOk, RequestSiteOk
<1>3. ASSUME NEW t \in LookedUp(w.response), OfResponse(t)
      PROVE  /\ Len(t) > 1 /\ t[2] \in WriteScopes
             /\ t[2] = "metadata" /\ Len(t) > 2 => t[3] \in w.metadata
  <2>1. ResponseSiteOk(w.response, w.metadata, [known |-> FALSE, typed |-> {}])
    BY <1>1 DEF WriteSitesOk
  <2>2. t \in Tokens(w.response)
    BY <1>3, <2>1, SiteReads DEF Write, ResponseSiteOk
  <2> QED
    BY <1>1, <1>3, <2>1, <2>2 DEF ResponseSiteOk, WriteSitesOk
<1> QED
  BY <1>2, <1>3 DEF SuccessIsReadable

-----------------------------------------------------------------------------
(* The properties. *)

\* An accepted connector dispatches to transports it declares and waits for what can
\* be found, and the credentials of a URL of any length are seen.
THEOREM ConnectorsAlwaysLand ==
    ASSUME NEW C, kind = "url" => doc \in Seq(C)
    PROVE  ConnectorsLand
BY Dispatch, Activation, Credentials DEF ConnectorsLand

\* The three dialects of the container matrix accept one column, an endpoint is read
\* by the model that accepts it, and the rules between keys agree with the published
\* ones: the rules of a block are compared on every value of its keys.
THEOREM ColumnsAreAlwaysOneMatrix ==
    ASSUME kind = "mirror" => Block(doc)
    PROVE  ColumnsAreOneMatrix
BY Matrix, Endpoints, MirrorsHold, AbsentIsNoWord DEF ColumnsAreOneMatrix

\* A read rule is refused for its bounds exactly when some match of it leaves the
\* grammar, and a range from 0 to 99, the only ones the code spells, is spelled once.
THEOREM TypeMapsAlwaysStayInGrammar ==
    ASSUME kind = "typemap" => ReadRule(doc),
           kind = "range" => doc.lo \in 0..99 /\ doc.hi \in 0..99 /\ doc.lo <= doc.hi
    PROVE  TypeMapsStayInGrammar
BY Bounds, Ranges DEF TypeMapsStayInGrammar

\* A stream resumes where its pages are ordered, writes to an object once, accepts
\* the rules whose field its mapping outputs and no others, at any depth, and only
\* rules some row passes.
THEOREM StreamsAlwaysBind ==
    ASSUME kind = "bindings" => Written(doc),
           kind = "mapping" => Mapping(doc),
           kind = "payload" => Payload(doc)
    PROVE  StreamsBind
BY Checkpoints, EndpointsOnce, RulesGrade, RowsPass DEF StreamsBind

\* A slot of any depth hides nothing from the checks that accept it: what it looks up
\* they graded, what it calls they saw; and a connector's looks up what a scope holds
\* and raises for nothing but a null "safe".
THEOREM SlotsAreAlwaysSwept ==
    ASSUME kind = "expression" => Tree(doc)
    PROVE  SlotsAreSwept
BY Sweeps, ConnectorSlots DEF SlotsAreSwept

\* An accepted read, whatever its params, blocks, filters and nodes, sends each param
\* from one place with one driver at most and reads what there is; an accepted write
\* sends each record and can tell that it did.
THEOREM OperationsAreAlwaysWired ==
    ASSUME kind = "read" => Read(doc),
           kind = "write" => Write(doc)
    PROVE  OperationsAreWired
BY ParamsArrive, ReadsExist, RecordsAreSent, SuccessIsRead DEF OperationsAreWired
=============================================================================
