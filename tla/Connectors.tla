----------------------------- MODULE Connectors -----------------------------
(***************************************************************************)
(* One connector document as contracts/connector.py grades it: the         *)
(* transports by name, everything dispatched over one of them, and the     *)
(* contract of what a saved connection must contribute.                    *)
(*                                                                         *)
(* A connector is [kind, own, inherited, default, auth, ops, discovery,    *)
(* inputs, outputs, activation, ruled, bulk]. own gives each named         *)
(* transport the type it states itself, or Unset; inherited is the one     *)
(* transport_defaults states. A request is a set: empty where it is not    *)
(* declared, else of its one transport_ref, Omitted where it names none.   *)
(***************************************************************************)
EXTENDS Naturals, Sequences, FiniteSets

CONSTANTS Unset, Omitted

Families == {"http", "sqlalchemy", "adbc", "s3", "file", "stdout"}
StaticKinds == {"file", "s3", "stdout"}        \* one transport, no auth workflow
KindFamilies(kind) == CASE kind = "database" -> {"sqlalchemy", "adbc"}
                        [] kind \in StaticKinds -> {kind}
                        [] OTHER -> Families

-----------------------------------------------------------------------------
(* Auth: which operations each type must and may declare. *)

OAuth == {"oauth2_authorization_code", "oauth2_client_credentials"}
AuthTypes == OAuth \cup {"api_key", "basic_auth", "jwt", "db", "credentials", "aws_iam", "none"}
RequiredOps(type) ==
    CASE type = "oauth2_authorization_code" -> {"authorize", "token_exchange"}
      [] type = "oauth2_client_credentials" -> {"token_exchange"}
      [] OTHER -> {}
AuthOps(type) == RequiredOps(type) \cup (IF type \in OAuth THEN {"refresh", "test"} ELSE {"test"})
KindAuths(kind) == CASE kind \in {"file", "stdout"} -> {"none"}
                     [] kind = "s3" -> {"credentials"}
                     [] OTHER -> AuthTypes
AuthOk(c) ==
    /\ c.auth \in KindAuths(c.kind)
    /\ RequiredOps(c.auth) \subseteq DOMAIN c.ops /\ DOMAIN c.ops \subseteq AuthOps(c.auth)

-----------------------------------------------------------------------------
(* Transports: a type stated once in the defaults fills the entries that state   *)
(* none, before the kind's union reads them.                                     *)

TypeOf(c, name) == IF c.own[name] = Unset THEN c.inherited ELSE c.own[name]
TransportsOk(c) ==
    /\ DOMAIN c.own # {} /\ (c.kind \in StaticKinds => Cardinality(DOMAIN c.own) = 1)
    /\ \A name \in DOMAIN c.own : TypeOf(c, name) \in KindFamilies(c.kind)
    /\ c.inherited \in Families \cup {Unset}
DefaultDeclared(c) == c.default # "" /\ c.default \in DOMAIN c.own

\* What a request is dispatched over: an empty name falls back as an absent one does.
SelectTransport(c, ref) == IF ref \in {Omitted, ""} THEN c.default ELSE ref

CheckedOps == {"authorize", "token_exchange", "refresh", "test"}
RefOk(c, request) == \A ref \in request : ref = Omitted \/ ref \in DOMAIN c.own
\* A mutant: the requests after auth are not swept.
RefsResolvable_AuthOnly(c) ==
    /\ \A op \in CheckedOps \cap DOMAIN c.ops : RefOk(c, {c.ops[op]})
    /\ RefOk(c, c.discovery)
RefsResolvable(c) ==
    /\ \A op \in CheckedOps \cap DOMAIN c.ops : RefOk(c, {c.ops[op]})
    /\ RefOk(c, c.discovery)
    /\ \A name \in DOMAIN c.outputs : RefOk(c, c.outputs[name].options)
                                      /\ RefOk(c, c.outputs[name].request)

-----------------------------------------------------------------------------
(* The connection contract: what a user enters or a post-auth step finds, each    *)
(* stored under the path its storage and name make.                              *)

\* enum, options: [given, values]; default: Unset or a value.
InputOk(i) ==
    /\ i.storage \in {"connection.parameters", "secrets"}
    /\ (i.storage = "secrets") = (i.secret = TRUE)
    /\ i.enum.given => i.enum.values # {}
    /\ i.options.values # {} /\ i.enum.given => i.options.values = i.enum.values
    /\ i.default # Unset /\ i.enum.given => i.default \in i.enum.values

OutputOk(o) ==
    IF o.mode = "user_selection"
    THEN o.options # {} /\ o.request = {} /\ o.storage = "connection.selections"
    ELSE /\ o.request # {} /\ o.options = {} /\ ~o.picks      \* options_path, label_path
         /\ o.storage \in {"connection.discovered", "secrets"}

Paths(declared) == {<<declared[name].storage, name>> : name \in DOMAIN declared}
DeclaredPaths(c) == Paths(c.inputs) \cup Paths(c.outputs)
SecretsUnique(c) == \A p \in Paths(c.inputs) \cap Paths(c.outputs) : p[1] # "secrets"
ContractRefs(c) ==
    /\ SecretsUnique(c)
    /\ c.activation \subseteq DeclaredPaths(c)
    /\ c.ruled \subseteq DOMAIN c.inputs              \* when.field, require, forbid
NoPostAuth(c) == c.kind \in StaticKinds => DOMAIN c.outputs = {} /\ c.activation = {}

\* The families a bulk mechanism is declared for, of sql_capabilities.
BulkFamilies(c) ==
    /\ c.kind # "database" => c.bulk = {}
    /\ c.bulk \subseteq {TypeOf(c, name) : name \in DOMAIN c.own}

ConnectorAccepted(c) ==
    /\ TransportsOk(c) /\ DefaultDeclared(c) /\ AuthOk(c) /\ RefsResolvable(c)
    /\ \A name \in DOMAIN c.inputs : InputOk(c.inputs[name])
    /\ \A name \in DOMAIN c.outputs : OutputOk(c.outputs[name])
    /\ ContractRefs(c) /\ NoPostAuth(c) /\ BulkFamilies(c)

-----------------------------------------------------------------------------
(* The authority a base_url's text declares: text is a sequence of characters.   *)

Closing == {"/", "?", "#"}
UpTo(text, stops) ==                       \* the text ahead of the first stop
    LET at == {i \in DOMAIN text : text[i] \in stops}
    IN IF at = {} THEN text ELSE SubSeq(text, 1, (CHOOSE i \in at : \A j \in at : i <= j) - 1)
UrlAuthority(text) ==
    LET opens == {i \in 1..(Len(text) - 1) : text[i] = "/" /\ text[i + 1] = "/"}
        first == CHOOSE i \in opens : \A j \in opens : i <= j
    IN IF opens = {} \/ \E i \in 1..(first - 1) : text[i] \in Closing THEN <<>>
       ELSE UpTo(SubSeq(text, first + 2, Len(text)), Closing)
BaseUrlOk(text) == ~ \E i \in DOMAIN UrlAuthority(text) : UrlAuthority(text)[i] = "@"

-----------------------------------------------------------------------------
(* Properties. *)

Requests(c) ==
    {c.ops[op] : op \in DOMAIN c.ops} \cup c.discovery
    \cup UNION {c.outputs[name].options \cup c.outputs[name].request : name \in DOMAIN c.outputs}

\* Whatever an accepted connector dispatches, it dispatches over a transport it
\* declares, of a family its kind can open.
DispatchLands(c) ==
    ConnectorAccepted(c) =>
        \A ref \in Requests(c) : /\ SelectTransport(c, ref) \in DOMAIN c.own
                                 /\ TypeOf(c, SelectTransport(c, ref)) \in KindFamilies(c.kind)

\* A connection can be activated: each path it waits for is written by one
\* declaration, an input or an output that has a request to be found by.
ActivationIsReachable(c) ==
    ConnectorAccepted(c) =>
        \A p \in c.activation :
            LET writes(declared) == p[2] \in DOMAIN declared /\ declared[p[2]].storage = p[1]
            IN /\ writes(c.inputs) # writes(c.outputs)
               /\ writes(c.outputs) => c.outputs[p[2]].options \cup c.outputs[p[2]].request # {}

\* Credentials in a URL's authority are seen however the text goes on: an authority
\* as RFC 3986 reads it, at the start or after a scheme and its colon.
CredentialsAreSeen(text) ==
    LET after == Len(UpTo(text, {":"} \cup Closing)) + 1
        from == IF after <= Len(text) /\ text[after] = ":" /\ after > 1 THEN after + 1 ELSE 1
        declares == from < Len(text) /\ text[from] = "/" /\ text[from + 1] = "/"
        authority == UpTo(SubSeq(text, from + 2, Len(text)), Closing)
    IN declares => UrlAuthority(text) = authority

\* A picker offers what the contract accepts.
PickerOffersWhatIsAccepted(c) ==
    ConnectorAccepted(c) =>
        \A name \in DOMAIN c.inputs :
            LET i == c.inputs[name]
            IN i.options.given /\ i.enum.given => i.options.values = i.enum.values
=============================================================================
