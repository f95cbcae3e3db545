------------------------------ MODULE TypeMaps ------------------------------
(***************************************************************************)
(* Type-map rules and the Arrow grammar they render (contracts/type_map.py *)
(* and contracts/arrow_grammar.py): a read rule of kind regex matches a    *)
(* native type and renders an Arrow type from its named captures.          *)
(*                                                                         *)
(* A value is <<kind, n>>: a decimal integer, the same with a leading zero,*)
(* a unit, a word, or the empty string. An argument of a rendered type is a*)
(* literal, a placeholder alone, or a placeholder inside other text. A     *)
(* capture is its language: the values it can match.                       *)
(***************************************************************************)
EXTENDS Naturals, Sequences, FiniteSets, SequencesExt, Functions

Num(n) == <<"int", n>>
Unit(n) == <<"unit", n>>
Padded == <<"padded", 1>>      \* 01
Word == <<"word", 0>>          \* a word no family has as a unit
Empty == <<"empty", 0>>        \* what a group that took no part renders

NoMax == 1000

\* A position of a type's parameters; an int's max may name a sibling.
IntParam(name, min, max, ref) ==
    [name |-> name, kind |-> "int", min |-> min, max |-> max, ref |-> ref, allowed |-> {}, optional |-> FALSE]
UnitParam(allowed) ==
    [name |-> "unit", kind |-> "unit", min |-> 0, max |-> 0, ref |-> "none", allowed |-> allowed, optional |-> FALSE]
TimezoneParam ==
    [name |-> "timezone", kind |-> "timezone", min |-> 0, max |-> 0, ref |-> "none", allowed |-> {}, optional |-> TRUE]

\* The vocabulary in small: bounds 38 and 76 are 2, the two-digit alphabet ends
\* at 4, with one longer witness. Time32 and Time64 share no unit.
Families ==
    [Utf8 |-> <<>>,
     Json |-> <<>>,
     FixedSizeBinary |-> <<IntParam("byte_width", 1, NoMax, "none")>>,
     Decimal128 |-> <<IntParam("precision", 1, 2, "none"), IntParam("scale", 0, 2, "precision")>>,
     Time64 |-> <<UnitParam({Unit(2)})>>,
     Timestamp |-> <<UnitParam({Unit(1), Unit(2)}), TimezoneParam>>]
Containers == {"Json"}
AllUnits == {Unit(1), Unit(2)}
Value == {Num(n) : n \in (0..4) \cup {7, 9}} \cup AllUnits \cup {Padded, Word}

\* What an int or a unit position is interrogated with; a timezone position is
\* an open pattern and has no alphabet. 7 is a width past the last witness.
ProbesOf(param) ==
    CASE param.kind = "int" -> {Num(n) : n \in (0..4) \cup {9}} \cup {Padded}
      [] param.kind = "unit" -> AllUnits \cup {Word}
      [] OTHER -> {}

\* The alternatives a bounded range is spelled by: a span of single digits, and a
\* span of units in each decade. A part is <<decade, first, last>>, decade 0 being
\* a number of one digit.
IntRangeParts(lo, hi) ==
    LET lo2 == IF lo > 10 THEN lo ELSE 10
        Span(dec) == <<dec, IF dec = lo2 \div 10 THEN lo2 % 10 ELSE 0,
                       IF dec = hi \div 10 THEN hi % 10 ELSE 9>>
    IN {<<0, lo, IF hi < 9 THEN hi ELSE 9>> : i \in IF lo <= 9 THEN {1} ELSE {}}
       \cup {part \in {Span(dec) : dec \in IF hi >= 10 THEN (lo2 \div 10)..(hi \div 10) ELSE {}} :
               part[2] <= part[3]}

\* The numbers a part spells.
SpeltBy(part) == {10 * part[1] + unit : unit \in part[2]..part[3]}

-----------------------------------------------------------------------------
(* One position. literals maps the names of literal arguments to their value. *)

\* A mutant: a position is bounded by its sibling's range, not by the literal there.
MaxOf_Sibling(param, literals) == param.max

\* A max naming a sibling is the literal there, or else the sibling's own max.
MaxOf(param, literals) ==
    IF param.ref \in DOMAIN literals /\ literals[param.ref][1] = "int"
    THEN literals[param.ref][2] ELSE param.max

Admits(param, literals, v) ==
    CASE param.kind = "int" -> /\ v[1] = "int"
                               /\ param.min <= v[2] /\ v[2] <= MaxOf(param, literals)
      [] param.kind = "unit" -> v \in param.allowed
      [] OTHER -> v[1] \in {"unit", "word"}      \* an IANA name, by its shape

Finite(param, literals) ==
    \/ param.kind = "unit"
    \/ /\ param.kind = "int" /\ MaxOf(param, literals) # NoMax
       /\ param.min <= MaxOf(param, literals)

\* The grammar: every required parameter, each in its position's range.
Spelled(head, values) ==
    LET params == Families[head]
    IN /\ Len(values) <= Len(params)
       /\ \A i \in DOMAIN params : i > Len(values) => params[i].optional
       /\ \A i \in DOMAIN values : Admits(params[i], <<>>, values[i])

\* Two literal positions of which one bounds the other.
CrossParams(head, args) ==
    \A i, j \in DOMAIN args :
        /\ args[i].k = "literal" /\ args[j].k = "literal"
        /\ Families[head][i].ref = Families[head][j].name
        => args[i].v[2] <= args[j].v[2]

Canonical(head, values) ==
    /\ Spelled(head, values)
    /\ CrossParams(head, [i \in DOMAIN values |-> [k |-> "literal", v |-> values[i]]])

-----------------------------------------------------------------------------
(* A read rule: [match, container, head, args, captures], captures giving each *)
(* named group its language and whether it may take no part in a match.        *)

Placeholders(rule) == {rule.args[i].name : i \in {j \in DOMAIN rule.args :
                                                   rule.args[j].k = "placeholder"}}
HasPlaceholder(rule) == \E i \in DOMAIN rule.args : rule.args[i].k # "literal"

Dummies == {Num(1), Unit(1), Unit(2)}

\* The shape: some dummy in every placeholder spells a type, and the literals
\* are within each other's bounds. Text around a digit is more digits.
ShapeValid(rule) ==
    /\ \E d \in Dummies :
         Spelled(rule.head, [i \in DOMAIN rule.args |->
                                IF rule.args[i].k = "literal" THEN rule.args[i].v ELSE d])
    /\ CrossParams(rule.head, rule.args)

LiteralsOf(rule) ==
    LET params == Families[rule.head]
        at == {i \in DOMAIN rule.args : rule.args[i].k = "literal"}
    IN [n \in {params[i].name : i \in at} |->
            rule.args[CHOOSE i \in at : params[i].name = n].v]

\* What the capture feeding position i is seen to render.
Seen(rule, i) ==
    rule.captures[rule.args[i].name].lang \cap ProbesOf(Families[rule.head][i])

\* No capture may render what its position, given the literals, does not admit;
\* no literal may be bounded by a capture that can render less.
TemplateBounds(rule) ==
    LET params == Families[rule.head]
        literals == LiteralsOf(rule)
    IN \A i \in DOMAIN rule.args :
         CASE rule.args[i].k = "mixed" -> FALSE
           [] rule.args[i].k = "placeholder" ->
                ProbesOf(params[i]) # {} =>
                    /\ \A v \in Seen(rule, i) : Admits(params[i], literals, v)
                    /\ Seen(rule, i) = {} => ~Finite(params[i], literals)
           [] OTHER ->
                \A j \in DOMAIN rule.args :
                    /\ rule.args[j].k = "placeholder"
                    /\ params[i].ref = params[j].name
                    => \A v \in Seen(rule, j) :
                           Admits(params[j], literals, v) => rule.args[i].v[2] <= v[2]

\* The model validators of an exact and of a regex read rule, in order.
ReadExactAccepted(rule) ==
    /\ ~HasPlaceholder(rule)
    /\ Spelled(rule.head, [i \in DOMAIN rule.args |-> rule.args[i].v])
    /\ CrossParams(rule.head, rule.args)
    /\ rule.container => rule.head \in Containers

ReadRegexAccepted(rule) ==
    /\ ShapeValid(rule)
    /\ Placeholders(rule) \subseteq DOMAIN rule.captures
    /\ ~(DOMAIN rule.captures # {} /\ ~HasPlaceholder(rule) /\ rule.args # <<>>)
    /\ TemplateBounds(rule)

Accepted(rule) == IF rule.match = "exact" THEN ReadExactAccepted(rule)
                  ELSE ReadRegexAccepted(rule)

\* A match binds each capture to a value, Empty for one that took no part; the
\* resolver substitutes them.
Rendered(rule, groups) ==
    [i \in DOMAIN rule.args |-> IF rule.args[i].k = "literal" THEN rule.args[i].v
                                ELSE groups[rule.args[i].name]]

\* First match wins, over the maps' rules in precedence order. A rule is the
\* natives it matches (normalised) and what it renders, or Unusable.
Resolve(rules, native) ==
    LET matching == {i \in DOMAIN rules : native \in DOMAIN rules[i]}
    IN IF matching = {} THEN "gap"
       ELSE rules[CHOOSE i \in matching : \A j \in matching : i <= j][native]

-----------------------------------------------------------------------------
(* Properties. *)

\* A bounded position admits the numbers of its range, each by one spelling, and
\* nothing else.
RangeIsSpelled(range) ==
    LET parts == IntRangeParts(range.lo, range.hi)
    IN /\ UNION {SpeltBy(part) : part \in parts} = range.lo..range.hi
       /\ \A p, q \in parts : p # q => SpeltBy(p) \cap SpeltBy(q) = {}

Interrogated(rule) ==
    /\ \A i \in DOMAIN rule.args : /\ rule.args[i].k # "mixed"
                                   /\ rule.args[i].k = "placeholder" =>
                                        ProbesOf(Families[rule.head][i]) # {}
    /\ \A i, j \in DOMAIN rule.args : ~ /\ rule.args[i].k = "placeholder"
                                        /\ rule.args[j].k = "placeholder"
                                        /\ Families[rule.head][i].ref = Families[rule.head][j].name

\* Matches in which every capture takes part, with values in a set of its own.
Matches(rule, values) ==
    {g \in [Placeholders(rule) -> values] :
        \A c \in Placeholders(rule) : g[c] \in rule.captures[c].lang}
SeenMatches(rule) ==
    {g \in Matches(rule, Value) : \A i \in DOMAIN rule.args :
        rule.args[i].k = "placeholder" =>
            g[rule.args[i].name] \in ProbesOf(Families[rule.head][i])}

\* Outside the two cases the code leaves open, an accepted rule renders a type of
\* the grammar whatever the alphabet lets its captures match, and a rule is only
\* refused for its bounds if some match of it renders none.
BoundsAreExact(rule) ==
    /\ Accepted(rule) /\ Interrogated(rule) =>
         \A g \in SeenMatches(rule) : Canonical(rule.head, Rendered(rule, g))
    /\ /\ rule.match = "regex" /\ ShapeValid(rule) /\ Interrogated(rule)
       /\ Placeholders(rule) \subseteq DOMAIN rule.captures
       /\ ~TemplateBounds(rule)
       => \E g \in Matches(rule, Value) : ~Canonical(rule.head, Rendered(rule, g))

\* The same of every match, one in which an optional group takes no part included.
RendersWhateverMatches(rule) ==
    Accepted(rule) /\ Interrogated(rule) =>
      \A g \in SeenMatches(rule) : \A absent \in SUBSET Placeholders(rule) :
        (\A c \in absent : rule.captures[c].optional) =>
            Canonical(rule.head, Rendered(rule,
                [c \in DOMAIN g |-> IF c \in absent THEN Empty ELSE g[c]]))
=============================================================================
