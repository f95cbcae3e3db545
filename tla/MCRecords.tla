----------------------------- MODULE MCRecords -----------------------------
(***************************************************************************)
(* Reads for TLC. The schema's root R holds the array Arr under "data", of *)
(* rows Row; Base and Base2 are $defs an array or a row may build on, Rowb *)
(* a branch of the row, and F1, F2, G leaves a field may be declared as.    *)
(***************************************************************************)
EXTENDS ReadRecords

CONSTANTS Arr, Row0, Base, Base2, Rowb, F1, F2, G, H

Props(names, leaf) == [x \in names |-> <<leaf>>]
PlainRead ==
    [schema |-> [n \in {R, Arr, Row0, Base, Base2, Rowb, F1, F2, G, H, Composed} |->
        CASE n = R -> [Blank EXCEPT !.type = {"object"}, !.props = Props({"data"}, Arr)]
          [] n = Arr -> [Blank EXCEPT !.type = {"array"}, !.items = <<Row0>>]
          [] n = Row0 -> [Blank EXCEPT !.type = {"object"}, !.props = Props({"x"}, F1)]
          [] n = Base -> [Blank EXCEPT !.props = Props({"x"}, F2)]
          [] n = Base2 -> [Blank EXCEPT !.type = {"array"}, !.items = <<Base>>]
          [] n = F1 -> [Blank EXCEPT !.type = {"string"}]
          [] n = G -> [Blank EXCEPT !.type = {"integer"}]
          [] n = H -> [Blank EXCEPT !.format = "date-time"]
          [] OTHER -> Blank],
     records |-> <<"data">>, cursor |-> "x", window |-> FALSE, format |-> FALSE]

RecordEdit(r, e) ==
    \/ \E v \in {<<>>, <<"data">>, <<"nope">>, <<"data", "x">>} : e = [r EXCEPT !.records = v]
    \/ \E v \in {"x", "y", "x.y"} : e = [r EXCEPT !.cursor = v]
    \/ e = [r EXCEPT !.window = TRUE] \/ e = [r EXCEPT !.format = TRUE]
    \/ \E n \in {Arr, Row0}, b \in {Base, Base2} :
          \/ e = [r EXCEPT !.schema[n].ref = <<b>>]
          \/ e = [r EXCEPT !.schema[n].allOf = <<<<b>>>>]
    \/ \E n \in {F1, F2} : e = [r EXCEPT !.schema[n].ref = <<IF n = F1 THEN F2 ELSE G>>]
    \/ e = [r EXCEPT !.schema[F1] = [Blank EXCEPT !.ref = <<H>>]]
    \/ \E n \in {F1, F2}, t \in {{}, {"integer"}, {"integer", "null"}, {"string", "null"},
                                {"string", "integer"}, {"object"}} :
          e = [r EXCEPT !.schema[n].type = t]
    \/ \E n \in {F1, F2, G}, v \in {"epoch_seconds", "date-time", "uuid"} :
          e = [r EXCEPT !.schema[n].format = v]
    \/ \E n \in {F1, F2} : e = [r EXCEPT !.schema[n].union = <<<<F2>>, <<G>>>>]
    \/ \E n \in {Arr, Row0}, t \in {{}, {"array"}, {"array", "null"}, {"object"}} :
          e = [r EXCEPT !.schema[n].type = t]
    \/ \E v \in {<<>>, True, False, Tuple, <<Base>>, <<Arr>>, <<Base2>>} :
          e = [r EXCEPT !.schema[Arr].items = v]
    \/ \E v \in {NoProps, Props({"x.y"}, F1), Props({"y"}, G), [x |-> <<F1>>, y |-> <<G>>]} :
          e = [r EXCEPT !.schema[Row0].props = v]
    \/ e = [r EXCEPT !.schema[Row0].allOf = <<<<Rowb>>>>,
                     !.schema[Rowb].props = Props({"x"}, G)]
    \/ e = [r EXCEPT !.schema[F1].props = Props({"y"}, G)]
    \/ e = [r EXCEPT !.schema[Row0].arrow = "Utf8"]
    \/ e = [r EXCEPT !.schema[Base2].items = <<Base2>>]
    \/ e = [r EXCEPT !.schema[Base].cond = TRUE]
=============================================================================
