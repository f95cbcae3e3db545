---------------------------- MODULE MCContracts ----------------------------
(***************************************************************************)
(* The contracts of one document for TLC. Each kind starts from documents  *)
(* its code accepts and edits them, up to a bound of its own; a request    *)
(* ("dispatch") is built by the steps of RequestDispatch instead.          *)
(***************************************************************************)
EXTENDS RequestDispatch, DocumentContracts, TLC

CONSTANTS Kinds,
          Composed, True, False, Tuple, NoRef, Dangling, NoProps,  \* EmbeddedSchema
          R, A, Rb1, Rb2, Ru, Ab1, Au, LS, LI,                \* MCSchemas
          Arr, Row0, Base, Base2, Rowb, F1, F2, G, H,               \* MCRecords
          Index, AName                                             \* SchemaPointers

Schemas == INSTANCE MCSchemas
Records == INSTANCE MCRecords
Pointers == INSTANCE MCPointers
ColumnDocs == INSTANCE MCColumns
TypeMapDocs == INSTANCE MCTypeMaps
ExpressionDocs == INSTANCE MCExpressions
ReadDocs == INSTANCE MCReads
WriteDocs == INSTANCE MCWrites
ConnectorDocs == INSTANCE MCConnectors
StreamDocs == INSTANCE MCStreams

VARIABLES edits

\* Bounds: how many edits away from an accepted document.
MaxEdits == [schema |-> 3, records |-> 2, pointer |-> 4, column |-> 3, endpoint |-> 3,
             typemap |-> 4, range |-> 0, expression |-> 4, read |-> 2, write |-> 2,
             connector |-> 2, url |-> 6, mirror |-> 4,
             source |-> 4, bindings |-> 2, mapping |-> 5, payload |-> 0]

\* Blocks of a published rule: every kind and case with no key, then keys one by one.
Bare(k, case) == [kind |-> k, case |-> case, at |-> [key \in Mirrors!Keys[k] |-> "absent"]]
Blank(b) == \E k \in DOMAIN Mirrors!Keys : \E case \in Mirrors!CasesOf(k) : b = Bare(k, case)
BlockEdit(b, e) ==
    \E key \in Mirrors!Keys[b.kind] :
        \E v \in Mirrors!ValuesOf(b.kind, key) \ {b.at[key]} : e = [b EXCEPT !.at[key] = v]

Starts(k) ==
    CASE k = "schema" -> {Schemas!EmptySchema}
      [] k = "records" -> {Records!PlainRead}
      [] k = "pointer" -> {Pointers!EmptyPath}
      [] k = "column" -> {ColumnDocs!ScalarColumn}
      [] k = "endpoint" -> {ColumnDocs!PlainEndpoint}
      [] k = "typemap" -> TypeMapDocs!Rules
      [] k = "range" -> TypeMapDocs!Ranges
      [] k = "expression" -> ExpressionDocs!Leaves
      [] k = "read" -> ReadDocs!ReadBases
      [] k = "write" -> WriteDocs!WriteBases
      [] k = "connector" -> ConnectorDocs!Connectors0
      [] k = "url" -> {<<>>}
      [] k = "source" -> {StreamDocs!Source0}
      [] k = "bindings" -> StreamDocs!Pairs
      [] k = "mapping" -> {StreamDocs!Mapping0}
      [] k = "payload" -> StreamDocs!Payloads
      [] OTHER -> {<<>>}

MCInit ==
    /\ kind \in Kinds /\ edits = 0
    /\ IF kind = "mirror" THEN Blank(doc) ELSE doc \in Starts(kind)
    /\ Init
    /\ kind # "dispatch" => ~graded /\ ~holds

Edited(k, e) ==
    /\ kind = k /\ edits < MaxEdits[k] /\ e
    /\ edits' = edits + 1
    /\ UNCHANGED <<kind, vars>>

MCNext ==
    \/ kind = "dispatch" /\ Next /\ UNCHANGED <<kind, doc, edits>>
    \/ Edited("schema", Schemas!SchemaEdit(doc, doc'))
    \/ Edited("records", Records!RecordEdit(doc, doc'))
    \/ Edited("pointer", Pointers!PointerEdit(doc, doc'))
    \/ Edited("column", ColumnDocs!ColumnEdit(doc, doc'))
    \/ Edited("endpoint", ColumnDocs!EndpointEdit(doc, doc'))
    \/ Edited("typemap", TypeMapDocs!RuleEdit(doc, doc'))
    \/ Edited("expression", ExpressionDocs!ExpressionEdit(doc, doc'))
    \/ Edited("read", ReadDocs!ReadEdit(doc, doc'))
    \/ Edited("write", WriteDocs!WriteEdit(doc, doc'))
    \/ Edited("connector", ConnectorDocs!ConnectorEdit(doc, doc'))
    \/ Edited("url", ConnectorDocs!TextEdit(doc, doc'))
    \/ Edited("mirror", BlockEdit(doc, doc'))
    \/ Edited("source", StreamDocs!SourceEdit(doc, doc'))
    \/ Edited("bindings", StreamDocs!DestinationEdit(doc, doc'))
    \/ Edited("mapping", StreamDocs!MappingEdit(doc, doc'))

MCSpec == MCInit /\ [][MCNext]_<<vars, kind, doc, edits>>

-----------------------------------------------------------------------------
(* The properties of each kind, stated in its module. Those of the schemas are  *)
(* stated of the document an edit leads to.                                   *)

\* A schema's properties, its declared paths and the node a reader is handed come
\* of one fold of its keys, a $ref is followed only to what the checks read, and a
\* replication cursor is one column, of one type (EmbeddedSchema, SchemaPointers,
\* ReadRecords).
SchemasReadAlike ==
    [][/\ kind = "schema" => Schemas!ResolvesWhatCanBeCarried(doc') /\ Schemas!FoldsAreOneFold(doc')
       /\ kind = "pointer" => Pointers!PointerStaysOnSchemas(doc') /\ Pointers!FollowsWhatWasRead(doc')
       /\ kind = "records" => Records!CursorIsReadBack(doc')]_<<vars, kind, doc, edits>>

-----------------------------------------------------------------------------
(* What comments say and the code does not do. *)

\* Every query of a schema ends (EmbeddedSchema).
EveryQueryEnds ==
    [][kind = "schema" => Schemas!EveryQueryEnds(doc')]_<<vars, kind, doc, edits>>

\* The two views of a whole node answer alike (EmbeddedSchema).
ViewsAgree ==
    [][kind = "schema" => Schemas!ViewsAgree(doc')]_<<vars, kind, doc, edits>>

\* The columns of an accepted read can be enumerated, and agree with the paths its
\* fields resolve by (ReadRecords).
EnumerationEnds ==
    [][kind = "records" => Records!EnumerationEnds(doc')]_<<vars, kind, doc, edits>>
ColumnsAgreeWithPaths ==
    [][kind = "records" => Records!ColumnsAgreeWithPaths(doc')]_<<vars, kind, doc, edits>>

\* Shape-valid slots resolve or are dropped, and the checks read no function that
\* is never called (ValueExpressions).
SlotsResolveOrDrop == kind = "expression" => ResolvesOrDrops(doc)
ChecksSeeWhatResolves == kind = "expression" => SeesOnlyWhatResolves(doc)

\* An accepted write has a value for each hole of its path (WriteOperations).
PathsCanFill == kind = "write" => HolesCanFill(doc)

\* Whatever text a rule matches, it renders a type (TypeMaps).
RendersWhateverMatches == kind = "typemap" => TypeMap!RendersWhateverMatches(doc)

\* The published rules reject what the validators reject (PublishedMirrors).
RenderedRulesAgree == kind = "mirror" => Mirrors!RenderedRulesAgree(doc)

\* A picker offers what the contract accepts (Connectors).
PickerOffersWhatIsAccepted == kind = "connector" => Connector!PickerOffersWhatIsAccepted(doc)
=============================================================================
