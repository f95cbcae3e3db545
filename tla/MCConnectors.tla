---------------------------- MODULE MCConnectors ----------------------------
(***************************************************************************)
(* Connectors for TLC: three that are accepted, and edits of one place;    *)
(* and short texts for a base_url.                                         *)
(***************************************************************************)
EXTENDS Connectors, TLC

None == [given |-> FALSE, values |-> {}]
Some(S) == [given |-> TRUE, values |-> S]
Input(storage, secret) ==
    [storage |-> storage, secret |-> secret, enum |-> None, options |-> None, default |-> Unset]
Output(mode, storage, options, request) ==
    [mode |-> mode, storage |-> storage, options |-> options, request |-> request, picks |-> FALSE]
Empty == [x \in {} |-> {}]

Database == [kind |-> "database", own |-> ("t1" :> "adbc"), inherited |-> Unset, default |-> "t1",
             auth |-> "db", ops |-> Empty, discovery |-> {Omitted}, inputs |-> ("x" :> Input("secrets", TRUE)),
             outputs |-> Empty, activation |-> {<<"secrets", "x">>}, ruled |-> {"x"}, bulk |-> {"adbc"}]
Files == [Database EXCEPT !.kind = "file", !.own = ("t1" :> "file"), !.auth = "none", !.discovery = {},
                          !.activation = {}, !.bulk = {}]
Api == [Database EXCEPT !.kind = "api", !.own = ("t1" :> Unset @@ "t2" :> "http"), !.inherited = "http",
            !.auth = "oauth2_authorization_code", !.ops = ("authorize" :> Omitted @@ "token_exchange" :> "t2"),
            !.outputs = ("y" :> Output("user_selection", "connection.selections", {"t1"}, {})),
            !.activation = {<<"connection.selections", "y">>}, !.bulk = {}]
Connectors0 == {Api, Database, Files}

Drop(f, x) == [y \in DOMAIN f \ {x} |-> f[y]]
Refs == {Omitted, "", "t1", "t3"}
ConnectorEdit(c, e) ==
    \/ \E name \in {"", "t2"}, type \in {Unset, "http", "sqlalchemy"} : e = [c EXCEPT !.own = (name :> type) @@ @]
    \/ \E name \in DOMAIN c.own : e = [c EXCEPT !.own = Drop(@, name)]
    \/ \E type \in {Unset, "adbc"} : e = [c EXCEPT !.inherited = type]
    \/ \E name \in {"", "t3"} : e = [c EXCEPT !.default = name]
    \/ \E type \in {"none", "oauth2_client_credentials"} : e = [c EXCEPT !.auth = type]
    \/ \E op \in AuthOps("oauth2_authorization_code"), ref \in Refs : e = [c EXCEPT !.ops = (op :> ref) @@ @]
    \/ \E op \in DOMAIN c.ops : e = [c EXCEPT !.ops = Drop(@, op)]
    \/ \E ref \in Refs : e = [c EXCEPT !.discovery = {ref}]
    \/ \E storage \in {"secrets", "connection.discovered"}, ref \in Refs :
          \E name \in {"x", "y"} :
             e = [c EXCEPT !.outputs = (name :> Output("auto_discovery", storage, {}, {ref})) @@ @]
    \/ \E name \in DOMAIN c.outputs :
          \/ \E ref \in Refs : e = [c EXCEPT !.outputs[name].options = {ref}]
          \/ \E part \in {"options", "request"} : e = [c EXCEPT !.outputs[name][part] = {}]
          \/ e = [c EXCEPT !.outputs[name].picks = ~@]
    \/ \E storage \in {"secrets", "connection.parameters"}, secret \in BOOLEAN :
          e = [c EXCEPT !.inputs = ("y" :> Input(storage, secret)) @@ @]
    \/ \E name \in DOMAIN c.inputs :
          \/ \E part \in {"enum", "options"} :
                \E S \in {{}, {"v"}, {"v", "w"}} : e = [c EXCEPT !.inputs[name][part] = Some(S)]
          \/ e = [c EXCEPT !.inputs[name].default = "w"]
          \/ e = [c EXCEPT !.inputs = Drop(@, name)]
    \/ \E p \in {<<"secrets", "y">>, <<"connection.discovered", "y">>} : e = [c EXCEPT !.activation = {p}]
    \/ \E family \in {"adbc", "sqlalchemy"} : e = [c EXCEPT !.bulk = {family}]

TextEdit(text, e) == \E ch \in {"h", ":", "/", "?", "@"} : e = Append(text, ch)
=============================================================================
