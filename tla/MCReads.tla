------------------------------ MODULE MCReads ------------------------------
(***************************************************************************)
(* Read operations for TLC: a few operations the code accepts, and every   *)
(* operation within MaxEdits edits of one of them.                         *)
(***************************************************************************)
EXTENDS ReadOperations, TLC

Bind(name) == Dict([from_param |-> Word(name)])
RefTo(token) == Dict([ref |-> Str(token, {}, FALSE)])
Text(holes) == Str(<<"text">>, holes, FALSE)
Connection == <<"connection", "a">>
Page == <<"response", "body", "next">>

\* What an author may put in a slot.
SlotNodes ==
    {Null, Bind("p"), Bind("q"), Bind("undeclared"), Dict([from_param |-> Scalar]),
     RefTo(Connection), RefTo(<<"runtime", "b">>), RefTo(Page), RefTo(<<"conection", "a">>),
     Dict([template |-> Text({Connection})]), Dict([template |-> Text({Page})]),
     Dict([template |-> Str(<<"text">>, {}, TRUE)]),
     Dict([from_input |-> Str(<<"record", "a">>, {}, FALSE)]),
     Dict([function |-> Word("url_encode"), input |-> Bind("p")]),
     Dict([function |-> Word("lookup"), input |-> Text({Page})]),
     Dict([ref |-> Text({}), template |-> Text({})]),
     Dict([literal |-> Bind("p")])}
In(key, node) == IF node = Null THEN Null ELSE Dict([x \in {key} |-> node])
Defaults == {Null, Word("v"), Dict([literal |-> Null]), Bind("p"), RefTo(Connection), RefTo(Page),
             Dict([from_input |-> Str(<<"record", "a">>, {}, FALSE)])}
Reads == {Null, RefTo(Page), RefTo(<<"response", "body", "nope">>), RefTo(<<"response", "bodyy">>),
          RefTo(<<"response", "metadata">>), RefTo(<<"response", "metadata", "m">>),
          RefTo(<<"response", "record_count">>),
          ListOf(<<RefTo(Page), Dict([template |-> Text({<<"response", "metadata", "n">>})])>>)}

AParam(loc) == [loc |-> loc, type |-> "scalar", style |-> NoStyle, required |-> TRUE,
                default |-> Word("v"), controlled |-> NoParam, low |-> 0, high |-> Unbounded]
NoPath == [sigil |-> FALSE, stray |-> FALSE, holes |-> <<>>]
NoPagination == [type |-> "none", param |-> NoParam, initial |-> Null, limit |-> NoParam,
                 limit_default |-> Null, reads |-> Null, order_by |-> "f"]
NoReplication == [methods |-> {}, mappings |-> {}]
Response == [fields |-> {"f"}, schema |-> [known |-> TRUE, typed |-> {<<>>, <<"next">>}]]

Plain == [request |-> [method |-> "GET", path |-> NoPath, path_params |-> Null, headers |-> Null,
                       query |-> Dict([q |-> Bind("p")]), body |-> Null],
          params |-> [p |-> AParam("query")],
          pagination |-> NoPagination, replication |-> NoReplication, filters |-> <<>>,
          metadata |-> <<>>, response |-> Response]

\* Paged, with p its cursor and q landed on by a filter.
Paged == [Plain EXCEPT
    !.request.method = "POST", !.request.body = Bind("q"),
    !.params = [p |-> [AParam("query") EXCEPT !.controlled = "pagination"],
                q |-> [AParam("body") EXCEPT !.default = Null]],
    !.pagination = [NoPagination EXCEPT !.type = "offset", !.param = "p", !.initial = Word("0"),
                                        !.reads = RefTo(Page)],
    !.filters = [e \in {<<"f", "eq">>} |-> [param |-> "q", template |-> NoText]]]

\* Incremental, a window of p and q.
Windowed == [Plain EXCEPT
    !.request.path = [NoPath EXCEPT !.holes = <<"h">>],
    !.request.path_params = Dict([h |-> Bind("q")]),
    !.params = [p |-> [AParam("query") EXCEPT !.controlled = "replication", !.default = Null],
                q |-> [AParam("path") EXCEPT !.controlled = "replication"]],
    !.replication = [methods |-> {"full_refresh", "incremental"},
                     mappings |-> {[starts |-> {<<"p", "gte">>}, ends |-> {<<"q", "lt">>}]}],
    !.metadata = [m |-> RefTo(<<"response", "headers">>)],
    !.pagination = [NoPagination EXCEPT !.type = "link", !.reads = RefTo(<<"response", "metadata", "m">>)]]

ReadBases == {Plain, Paged, Windowed}

EditRequest(d, e) ==
    \/ \E m \in {"GET", "POST"} : e = [d EXCEPT !.request.method = m]
    \/ \E p \in {NoPath, [NoPath EXCEPT !.sigil = TRUE], [NoPath EXCEPT !.stray = TRUE]}
                \cup {[NoPath EXCEPT !.holes = h] : h \in {<<"h">>, <<"h", "h">>, <<"h", "i">>,
                                                          <<Malformed>>}} :
          e = [d EXCEPT !.request.path = p]
    \/ \E n \in SlotNodes, key \in {"h", "i"} : e = [d EXCEPT !.request.path_params = In(key, n)]
    \/ \E n \in SlotNodes : \/ e = [d EXCEPT !.request.headers = In("h", n)]
                            \/ e = [d EXCEPT !.request.query = Dict([q |-> n])]
                            \/ e = [d EXCEPT !.request.body = n]

EditParam(d, e) ==
    \/ e = [d EXCEPT !.params = Plain.params @@ d.params]
    \/ e = [d EXCEPT !.params = Paged.params]
    \/ \E n \in DOMAIN d.params :
          \/ \E v \in {"path", "query", "header", "body"} : e = [d EXCEPT !.params[n].loc = v]
          \/ \E v \in {"scalar", "array", "object"} : e = [d EXCEPT !.params[n].type = v]
          \/ \E v \in {"form", "pipe", "deep", "other"} : e = [d EXCEPT !.params[n].style = v]
          \/ \E v \in BOOLEAN : e = [d EXCEPT !.params[n].required = v]
          \/ \E v \in Defaults : e = [d EXCEPT !.params[n].default = v]
          \/ \E v \in {NoParam, "pagination", "replication"} : e = [d EXCEPT !.params[n].controlled = v]
          \/ \E v \in {1, Unbounded} : e = [d EXCEPT !.params[n].low = v]
          \/ e = [d EXCEPT !.params[n].high = 0]

EditBlocks(d, e) ==
    \/ \E v \in Strategies \cup {"none"} : e = [d EXCEPT !.pagination.type = v]
    \/ \E v \in {"p", "q", "undeclared"} : e = [d EXCEPT !.pagination.param = v]
    \/ \E v \in {Null, Word("0"), Dict([literal |-> Null])} : e = [d EXCEPT !.pagination.initial = v]
    \/ \E v \in {"p", "q"}, w \in {Null, Word("50")} :
          e = [d EXCEPT !.pagination.limit = v, !.pagination.limit_default = w]
    \/ \E v \in Reads : e = [d EXCEPT !.pagination.reads = v]
    \/ e = [d EXCEPT !.pagination.order_by = "g"]
    \/ \E v \in SUBSET {"full_refresh", "incremental"} : e = [d EXCEPT !.replication.methods = v]
    \/ \E v \in {"p", "q"}, op \in {"gte", "lt"} :
          \/ e = [d EXCEPT !.replication.mappings = {[starts |-> {<<v, op>>}, ends |-> {}]}]
          \/ e = [d EXCEPT !.replication.mappings = {[starts |-> {<<v, op>>}, ends |-> {<<"p", "lt">>}]}]
    \/ e = [d EXCEPT !.replication.mappings = {}]
    \/ \E f \in {"f", "g"}, o \in {"eq", "gt"}, v \in {"p", "q"} :
         \E t \in {NoText, Text({OwnValue(<<"f", o>>)}), Text({Connection}),
                   Text({OwnValue(<<f, o>>), OwnValue(<<"other", o>>)}), Text({OwnValue(<<f, o>>), Page})} :
            e = [d EXCEPT !.filters = [x \in {<<f, o>>} |-> [param |-> v, template |-> t]] @@ @]
    \/ \E key \in {"m", "body"}, n \in Reads \ {Null} :
          e = [d EXCEPT !.metadata = [x \in {key} |-> n] @@ @]

ReadEdit(d, e) == EditRequest(d, e) \/ EditParam(d, e) \/ EditBlocks(d, e)
=============================================================================
