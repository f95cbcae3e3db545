--------------------------- MODULE MCExpressions ---------------------------
(***************************************************************************)
(* Expression nodes for TLC: a leaf, wrapped in keys, lists and siblings.  *)
(***************************************************************************)
EXTENDS ValueExpressions, TLC

RefTo(scope) == Dict([ref |-> Str(<<scope, "z">>, {}, FALSE)])
Leaves == {Str(<<"runtime", "x">>, {}, FALSE), Str(<<"text">>, {<<"secrets", "x">>}, FALSE),
           Str(<<"text">>, {}, TRUE), Scalar}
Wraps == {"template", "literal", "ref", "input", "map", "username", "from_param", "x-a", "k"}
Siblings == {<<"function", Word("url_encode")>>, <<"function", Word("basic_auth")>>,
             <<"function", Word("lookup")>>, <<"function", Scalar>>, <<"safe", Null>>,
             <<"safe", Word("/")>>, <<"password", Str(<<"text">>, {<<"secrets", "y">>}, FALSE)>>,
             <<"literal", Scalar>>, <<"ref", Str(<<"secrets", "z">>, {}, FALSE)>>,
             <<"x-a", RefTo("stream")>>}

ExpressionEdit(n, e) ==
    \/ \E key \in Wraps : e = Dict(key :> n)
    \/ e = ListOf(<<n>>)
    \/ \E s \in Siblings : n.k = "dict" /\ s[1] \notin DOMAIN n.at /\ e = Dict(n.at @@ (s[1] :> s[2]))
=============================================================================
