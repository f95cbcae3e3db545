------------------------- MODULE DocumentContracts -------------------------
(***************************************************************************)
(* The contracts of one document that are no machine: doc is a document of *)
(* the kind kind, and a property says what its acceptance means. Each is   *)
(* stated beside the code it is about, in the module named after its kind. *)
(***************************************************************************)
EXTENDS ReadOperations, WriteOperations

CONSTANTS Absent, NullForm, BadValue, BoolForm, TupleForm,             \* ColumnShapes
          Unset, Omitted,                                          \* Connectors
          Dot                                                      \* StreamBindings

VARIABLES kind, doc

Columns == INSTANCE ColumnShapes
TypeMap == INSTANCE TypeMaps
Connector == INSTANCE Connectors
Mirrors == INSTANCE PublishedMirrors
Streams == INSTANCE StreamBindings

\* A key that is not there is none of the words a key can hold.
ASSUME AbsentIsNoWord == Absent \notin Columns!Spelled \cup {"database", "api"}

-----------------------------------------------------------------------------
(* The properties of each kind. *)

\* The container matrix is one in its three dialects, an endpoint is read by the
\* model that accepts it (ColumnShapes), and a rule between keys is the published
\* one (PublishedMirrors).
ColumnsAreOneMatrix ==
    /\ kind = "mirror" => Mirrors!MirrorsAgree(doc)
    /\ kind = "column" => Columns!OneMatrix(doc)
    /\ kind = "endpoint" => Columns!ReadAsItsKind(doc)

\* What a read rule may render is refused exactly where it would leave the grammar,
\* and a bounded range is spelled once (TypeMaps).
TypeMapsStayInGrammar ==
    /\ kind = "typemap" => TypeMap!BoundsAreExact(doc)
    /\ kind = "range" => TypeMap!RangeIsSpelled(doc)

\* What a connector dispatches lands on a transport it declares, what it waits for
\* can be found, and credentials in a URL are seen (Connectors).
ConnectorsLand ==
    /\ kind = "connector" => Connector!DispatchLands(doc) /\ Connector!ActivationIsReachable(doc)
    /\ kind = "url" => Connector!CredentialsAreSeen(doc)

\* A stream resumes where its pages are ordered, writes to an endpoint once however
\* it is spelled, and grades fields it maps by rules a row can pass (StreamBindings).
StreamsBind ==
    /\ kind = "source" => Streams!CheckpointIsHighest(doc)
    /\ kind = "bindings" => Streams!EndpointsAreWrittenOnce(doc)
    /\ kind = "mapping" => Streams!RulesGradeOutputs(doc)
    /\ kind = "payload" => Streams!RulesAdmitARow(doc)

\* The checks of an expression see what its resolver will look up (ValueExpressions).
SlotsAreSwept ==
    kind = "expression" => SweepCoversResolution(doc) /\ ConnectorSlotResolves(doc)

\* An accepted read sends each param from one place and reads what there is; an
\* accepted write sends each record and can tell that it did (ReadOperations,
\* WriteOperations).
OperationsAreWired ==
    /\ kind = "read" => RequiredParamsArrive(doc) /\ ReadsWhatExists(doc)
    /\ kind = "write" => EachRecordIsSent(doc) /\ SuccessIsReadable(doc)
=============================================================================
