------------------------------ MODULE MCWrites ------------------------------
(***************************************************************************)
(* Write modes for TLC: three the code accepts, and every one within a few *)
(* edits of them.                                                          *)
(***************************************************************************)
EXTENDS WriteOperations, TLC

LOCAL M == INSTANCE MCReads

Input(path) == Dict([from_input |-> Str(path, {}, FALSE)])
Record == <<"record">>
Records == <<"records">>
Field(name) == <<"record", name>>

Leaf == Unknown({"string"})
Declared == Known({"object"}, [a |-> Leaf, o |-> Known({"object"}, [b |-> Leaf]), u |-> Unknown({})])
Inputs == {Declared, Unknown({"object"}), Unknown({}), Known({"array"}, <<>>)}

BodyNodes ==
    {Null, Input(Record), Input(Records), Input(Field("a")), Input(Field("o")),
     Input(<<"record", "o", "c">>), Input(<<"record", "u", "c">>), Input(Field("z")),
     Dict([a |-> Input(Field("a")), idem |-> Word("v")]), Dict([rows |-> Input(Records)]),
     Dict([a |-> Input(Field("a")), b |-> Dict([ref |-> Str(<<"response", "body">>, {}, FALSE)])]),
     Dict([literal |-> Input(Record)]), ListOf(<<Input(Record)>>)}
HoleNodes == {M!Bind("p"), Input(Record), Input(Records), Input(Field("a")),
              Input(<<"record", "o", "b">>), Input(Field("z")), Dict([from_input |-> Scalar])}
Responses == {Null} \cup {M!RefTo(t) : t \in {<<"response", "body", "ok">>, <<"response", "record_count">>,
                                              <<"response", "bodyy">>, <<"response", "status">>,
                                              <<"response", "metadata", "m">>,
                                              <<"runtime", "b">>}}

Single == [mode |-> "insert",
           request |-> [method |-> "POST", path |-> M!NoPath, path_params |-> Null, headers |-> Null,
                        query |-> Null, body |-> Input(Record)],
           params |-> <<>>, input |-> Declared, conflict_keys |-> {}, batching |-> FALSE,
           idempotency |-> [loc |-> NoKey, name |-> "idem"], content_type |-> "json",
           response |-> Null, metadata |-> {}]
Batched == [Single EXCEPT !.batching = TRUE, !.request.body = Dict([rows |-> Input(Records)])]
Upserted == [Single EXCEPT !.mode = "upsert", !.conflict_keys = {"a"},
                           !.idempotency = [loc |-> "body", name |-> "idem"],
                           !.request.path = [M!NoPath EXCEPT !.holes = <<"h">>],
                           !.request.path_params = Dict([h |-> M!Bind("p")]),
                           !.params = [p |-> M!AParam("path")]]
WriteBases == {Single, Batched, Upserted}

WriteEdit(d, e) ==
    \/ \E v \in {"insert", "upsert"} : e = [d EXCEPT !.mode = v]
    \/ \E v \in SUBSET {"a", "z"} : e = [d EXCEPT !.conflict_keys = v]
    \/ e = [d EXCEPT !.batching = ~@]
    \/ \E v \in {"header", "body"}, n \in {"idem", "IDEM", "b"} :
          e = [d EXCEPT !.idempotency = [loc |-> v, name |-> n]]
    \/ e = [d EXCEPT !.content_type = "form"]
    \/ \E v \in Inputs : e = [d EXCEPT !.input = v]
    \/ \E n \in BodyNodes : e = [d EXCEPT !.request.body = n]
    \/ \E n \in HoleNodes : e = [d EXCEPT !.request.path = [M!NoPath EXCEPT !.holes = <<"h">>],
                                          !.request.path_params = Dict([h |-> n])]
    \/ \E name \in {"idem", "a"}, n \in {Word("v"), M!Bind("p"), Input(Field("a"))} :
          e = [d EXCEPT !.request.headers = M!In(name, n)]
    \/ \E loc \in {"path", "header", "query"}, v \in M!Defaults, r \in BOOLEAN :
          e = [d EXCEPT !.params = [p |-> [M!AParam(loc) EXCEPT !.default = v, !.required = r]]]
    \/ \E n \in Responses : e = [d EXCEPT !.response = n]
    \/ \E v \in {"m", "body"} : e = [d EXCEPT !.metadata = {v}]
=============================================================================
