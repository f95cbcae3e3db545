---------------------------- MODULE MCTypeMaps ----------------------------
(***************************************************************************)
(* Read rules for TLC: each family without arguments, and what arguments   *)
(* and captures make of it; and the ranges of two-digit bounds.            *)
(***************************************************************************)
EXTENDS TypeMaps, TLC

Rules == {r \in [match : {"exact", "regex"}, container : BOOLEAN, head : DOMAIN Families,
                  args : {<<>>}, captures : {<<>>}] : r.match = "regex" => ~r.container}
Ranges == {[lo |-> lo, hi |-> hi] : <<lo, hi>> \in {b \in (0..99) \X (0..99) : b[1] <= b[2]}}

Arguments == {[k |-> "literal", v |-> v] : v \in {Num(0), Num(1), Num(2), Num(4), Unit(1), Unit(2), Padded}}
             \cup {[k |-> "placeholder", name |-> n] : n \in {"a", "b"}}
             \cup {[k |-> "mixed", name |-> "a"]}

\* What a group of digits, of one word or of units can match.
Languages == {{Num(1), Num(2)}, {Num(0), Num(1)}, {Num(n) : n \in 0..4}, {Num(4), Num(7)}, {Num(7)},
              {Padded, Num(1)}, {Unit(1)}, {Unit(2)}, AllUnits, {Unit(2), Word}}

RuleEdit(r, e) ==
    \/ \E a \in Arguments : Len(r.args) < 2 /\ e = [r EXCEPT !.args = Append(@, a)]
    \/ \E n \in {"a", "b"}, l \in Languages, opt \in BOOLEAN :
          /\ r.match = "regex" /\ n \notin DOMAIN r.captures
          /\ e = [r EXCEPT !.captures = (n :> [lang |-> l, optional |-> opt]) @@ @]
=============================================================================
