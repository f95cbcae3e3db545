----------------------------- MODULE MCSchemas -----------------------------
(***************************************************************************)
(* Embedded schemas for TLC: two objects of $defs that may reference each  *)
(* other, with an allOf list and a union each, and one field that two      *)
(* declarations may state; a key at a time.                                *)
(***************************************************************************)
EXTENDS EmbeddedSchema

CONSTANTS R, A, Rb1, Rb2, Ru, Ab1, Au, LS, LI

Nodes == {R, A, Rb1, Rb2, Ru, Ab1, Au, LS, LI, Composed}
Branches == [n \in {R, A} |-> IF n = R THEN <<Rb1, Rb2>> ELSE <<Ab1>>]
UnionOf == [n \in {R, A} |-> IF n = R THEN Ru ELSE Au]
Other(n) == IF n = R THEN A ELSE R

EmptySchema == [n \in Nodes |-> CASE n = LS -> [Blank EXCEPT !.type = {"string"}]
                                  [] n = LI -> [Blank EXCEPT !.type = {"integer"}]
                                  [] OTHER -> Blank]

Unwritten(o, keys) == \A key \in keys : o[key] = Blank[key]

\* One key of an object, in this order.
WriteKey(d, e, n, target) ==
    \/ Unwritten(d[n], {"ref", "type", "arrow", "props"}) /\ e = [d EXCEPT ![n].ref = <<target>>]
    \/ /\ Unwritten(d[n], {"type", "arrow", "props"})
       /\ \E t \in {{"object"}, {"string"}} \cup (IF n = R THEN {{"object", "string"}} ELSE {}) :
             e = [d EXCEPT ![n].type = t]
    \/ Unwritten(d[n], {"arrow", "props"}) /\ e = [d EXCEPT ![n].arrow = "Utf8"]
    \/ /\ Unwritten(d[n], {"props"})
       /\ \E leaf \in {LS, LI} : e = [d EXCEPT ![n].props = [x \in {Field} |-> <<leaf>>]]

WithBranch(d, n, b) ==
    [d EXCEPT ![n].allOf = IF <<b>> \in Range(@) THEN @ ELSE Append(@, <<b>>)]

\* The objects are written in this order, each with all that is below it.
Order == <<R, Rb1, Rb2, Ru, A, Ab1, Au>>
InOrder(d, n) == \A i, j \in DOMAIN Order : i < j /\ Order[i] = n => d[Order[j]] = Blank

SchemaEdit(d, e) ==
    /\ \E n \in {R, A} :
          \/ InOrder(d, n) /\ WriteKey(d, e, n, Other(n))
          \/ \E i \in DOMAIN Branches[n] :
                /\ InOrder(d, Branches[n][i])
                /\ i = 2 => <<Branches[n][1]>> \in Range(d[n].allOf)
                /\ WriteKey(WithBranch(d, n, Branches[n][i]), e, Branches[n][i], Other(n))
          \/ n = R /\ d[n].allOf = <<>> /\ e = [d EXCEPT ![n].allOf = <<False>>]
          \/ /\ InOrder(d, UnionOf[n])
             /\ WriteKey([d EXCEPT ![n].union = <<<<UnionOf[n]>>>>], e, UnionOf[n], Other(n))
    /\ d[R] # Blank \/ e[R] # Blank       \* R first, the two being alike
=============================================================================
