--------------------------- MODULE EmbeddedSchema ---------------------------
(***************************************************************************)
(* Reading an embedded JSON Schema (contracts/shared/json_schema.py): the  *)
(* folds of a schema object over its $ref target and its allOf branches,   *)
(* the declared-path query, the object gate, and pointers into a document. *)
(*                                                                         *)
(* A document D maps each written object (a Node) to what is read of it:   *)
(*   ref    the object its $ref resolves to, NoRef, or Dangling            *)
(*   allOf, union   the branches, each an object or a boolean schema       *)
(*   type, arrow    the declared types and the contract's type marker      *)
(*   props, items   the declarations under each, or NoProps and <<>>       *)
(*   cond   whether another keyword may declare names conditionally        *)
(* An object is a sequence of nodes, one for a written object; several are *)
(* one object merged from them key by key, the later ones winning. It is   *)
(* also the identity the folds memoise on.                                 *)
(* TLC only: the folds are RECURSIVE operators.                            *)
(***************************************************************************)
EXTENDS Naturals, Sequences, FiniteSets, SequencesExt, Functions

CONSTANTS Composed,    \* the node the declared-path query writes its own allOf in
          True, False, \* the boolean schemas
          Tuple,       \* a positional items list
          NoRef, Dangling, NoProps

Blank == [ref |-> NoRef, allOf |-> <<>>, union |-> <<>>, type |-> {},
          arrow |-> "", format |-> "", props |-> NoProps, items |-> <<>>, cond |-> FALSE]

Boolean(n) == n \in {True, False}

\* _combine_schema_values on two subschemas: two objects merge key by key, names
\* of their maps too; anything else, a list included, is the later one.
MergeObjects(a, b) ==
    IF a = <<>> \/ {a, b} \cap {True, False, Tuple} # {} THEN b
    ELSE SelectSeq(a, LAMBDA n : n \notin Range(b)) \o b
MergeProps(p, q) ==
    IF p = NoProps THEN q
    ELSE IF q = NoProps THEN p
    ELSE [x \in DOMAIN p \cup DOMAIN q |->
             IF x \notin DOMAIN q THEN p[x]
             ELSE IF x \notin DOMAIN p THEN q[x] ELSE MergeObjects(p[x], q[x])]
Later(key, a, b) == IF b = Blank[key] THEN a ELSE b
MergeWritten(a, b) ==
    [key \in DOMAIN Blank |->
        CASE key = "props" -> MergeProps(a.props, b.props)
          [] key = "items" -> IF b.items = <<>> THEN a.items ELSE MergeObjects(a.items, b.items)
          [] key = "cond" -> a.cond \/ b.cond
          [] OTHER -> Later(key, a[key], b[key])]

\* What an object states.
RECURSIVE Object(_, _)
Object(D, n) ==
    IF Len(n) = 1 THEN D[n[1]]
    ELSE MergeWritten(Object(D, Front(n)), D[Last(n)])

-----------------------------------------------------------------------------
(* The one fold. A result is [memo, fail, out]: fail is "conflict" where the   *)
(* code raises DeclarationConflictError, "endless" where it never returns.    *)

Sources(D, n) ==    \* the $ref target, then the allOf branches as written
    LET o == Object(D, n)
    IN (IF o.ref \in {NoRef, Dangling} THEN <<>> ELSE <<o.ref>>) \o o.allOf

\* Among type sets that are declared, no type is in all of them.
Disjoint(typeSets) ==
    LET declared == typeSets \ {{}}
    IN /\ Cardinality(declared) > 1
       /\ \A t \in UNION declared : \E s \in declared : t \notin s

Types(outs) == {outs[i].type : i \in DOMAIN outs}

\* Lowest precedence first: types intersect, items merge, any other key is the
\* last one's.
Keys == {"type", "arrow", "format", "union", "items"}
NoKeys == [key \in Keys |-> Blank[key]]
MergeKeys(outs) ==
    LET declared == Types(outs) \ {{}}
        Merge(key, a, b) == IF key = "items" /\ b # <<>> THEN MergeObjects(a, b)
                            ELSE Later(key, a, b)
        Plus(key) == FoldLeft(LAMBDA a, b : Merge(key, a, b), Blank[key],
                              [i \in DOMAIN outs |-> outs[i][key]])
    IN [key \in Keys |-> IF key = "type" THEN {t \in UNION declared : \A s \in declared : t \in s}
                         ELSE Plus(key)]

\* Merging objects refuses two that declare disjoint types as it meets them.
Clash(D, objects) ==
    \E i \in 2..Len(objects) :
        /\ \A j \in 1..i : objects[j] \notin {True, False, Tuple}
        /\ Disjoint({Object(D, FlattenSeq(SubSeq(objects, 1, i - 1))).type,
                     Object(D, objects[i]).type})

\* A declaration contributed again, by equality, moves to the end.
MergeContributors(D, outs) ==
    LET Stated(x) == FlattenSeq([i \in DOMAIN outs |->
                         IF x \in DOMAIN outs[i] THEN outs[i][x] ELSE <<>>])
        MoveToEnd(bucket, d) ==
            Append(SelectSeq(bucket, LAMBDA e : Object(D, e) # Object(D, d)), d)
    IN [x \in UNION {DOMAIN outs[i] : i \in DOMAIN outs} |->
            FoldLeft(MoveToEnd, <<>>, Stated(x))]

Nothing(view) == IF view = "keys" THEN NoKeys ELSE <<>>

OwnOf(D, view, n) ==
    LET o == Object(D, n)
    IN CASE view = "keys" -> [key \in Keys |-> o[key]]
         [] OTHER -> IF o.props = NoProps THEN <<>>
                     ELSE [x \in DOMAIN o.props |-> <<o.props[x]>>]

Remember(memo, n, out) ==
    [m \in DOMAIN memo \cup {n} |-> IF m = n THEN out ELSE memo[m]]

\* A visited object answers from the memo; one on the path contributes nothing.
RECURSIVE Fold(_, _, _, _, _)
Fold(D, view, n, memo, path) ==
    LET Step(acc, source) ==
            CASE acc.fail # "" \/ source = True -> acc
              [] acc.fail = "" /\ source = False -> [acc EXCEPT !.fail = "conflict"]
              [] OTHER -> LET r == Fold(D, view, source, acc.memo, path \cup {n})
                          IN [r EXCEPT !.out = Append(acc.out, r.out)]
        below == FoldLeft(Step, [memo |-> memo, fail |-> "", out |-> <<>>], Sources(D, n))
        outs == Append(below.out, OwnOf(D, view, n))
        merged == IF view = "keys" THEN MergeKeys(outs) ELSE MergeContributors(D, outs)
        refused == /\ view = "keys"
                   /\ \/ Disjoint(Types(outs))
                      \/ Clash(D, SelectSeq([i \in DOMAIN outs |-> outs[i].items],
                                            LAMBDA i : i # <<>>))
    IN CASE n \in DOMAIN memo -> [memo |-> memo, fail |-> "", out |-> memo[n]]
         [] n \in path \ DOMAIN memo -> [memo |-> memo, fail |-> "", out |-> Nothing(view)]
         [] OTHER -> IF below.fail # "" \/ refused
                     THEN [memo |-> below.memo, fail |-> "conflict", out |-> Nothing(view)]
                     ELSE [memo |-> Remember(below.memo, n, merged), fail |-> "",
                           out |-> merged]

ComposedKeys(D, n, memo) == Fold(D, "keys", n, memo, {})

-----------------------------------------------------------------------------
(* The object gate: properties describe object instances only. *)

\* The union lists a node's composition carries, each object visited once.
RECURSIVE Unions(_, _, _)
Unions(D, n, seen) ==
    LET Step(acc, source) ==
            IF Boolean(source) THEN acc
            ELSE LET r == Unions(D, source, acc.seen)
                 IN [seen |-> r.seen, lists |-> acc.lists \o r.lists]
        below == FoldLeft(Step, [seen |-> seen \cup {n}, lists |-> <<>>], Sources(D, n))
    IN IF n \in seen THEN [seen |-> seen, lists |-> <<>>]
       ELSE [below EXCEPT !.lists = IF Object(D, n).union = <<>> THEN @
                               ELSE Append(@, Object(D, n).union)]

\* Refused only on proof: the composed type or marker excludes an object, or no
\* branch of some union permits one. A branch that is false or is itself
\* refused is no alternative. The branches are judged with one memo and no
\* guard: one met again while it is being judged never returns.
RECURSIVE PermitsObject(_, _, _, _)
PermitsObject(D, n, memo, asked) ==
    LET keys == ComposedKeys(D, n, memo)
        excluded == \/ keys.out.arrow \notin {"", "Object"}
                    \/ keys.out.type # {} /\ "object" \notin keys.out.type
        Branch(acc, b) ==
            CASE acc.fail # "" \/ b = False -> acc
              [] acc.fail = "" /\ b = True -> [acc EXCEPT !.out = TRUE]
              [] OTHER -> LET r == PermitsObject(D, b, acc.memo, asked \cup {n})
                          IN [memo |-> r.memo,
                              fail |-> IF r.fail = "endless" THEN r.fail ELSE "",
                              out |-> acc.out \/ (r.fail = "" /\ r.out)]
        Union(acc, u) ==
            IF acc.fail # "" \/ ~acc.out THEN acc
            ELSE FoldLeft(Branch, [acc EXCEPT !.out = FALSE], u)
    IN CASE n \in asked -> [memo |-> memo, fail |-> "endless", out |-> FALSE]
         [] n \notin asked /\ (keys.fail # "" \/ excluded) -> [keys EXCEPT !.out = FALSE]
         [] OTHER -> FoldLeft(Union, [keys EXCEPT !.out = TRUE], Unions(D, n, {}).lists)

PropertyContributors(D, n, memo) ==
    LET gate == PermitsObject(D, n, memo, {})
        walk == Fold(D, "contributors", n, <<>>, {})
    IN IF gate.fail # "" \/ ~gate.out THEN [gate EXCEPT !.out = <<>>]
       ELSE [walk EXCEPT !.memo = gate.memo]

-----------------------------------------------------------------------------
(* What a name resolves to, and the whole-node views. *)

\* A mutant: the last declaration is read without being held to the others.
Contradictory_LastIsRead(D, declarations) == FALSE

Contradictory(D, declarations) ==
    /\ Len(declarations) > 1
    /\ Disjoint({IF Boolean(d) THEN {} ELSE Object(D, d).type : d \in Range(declarations)})

\* Several declarations compose as an allOf, which is written in Composed.
ComposeDeclarations(D, declarations) ==
    IF Len(declarations) = 1 THEN [doc |-> D, at |-> declarations[1]]
    ELSE [doc |-> [D EXCEPT ![Composed] = [Blank EXCEPT !.allOf = declarations]],
          at |-> <<Composed>>]

EffectiveProperties(D, n) ==
    LET c == PropertyContributors(D, n, <<>>)
    IN [fail |-> IF \E x \in DOMAIN c.out : Contradictory(D, c.out[x])
                 THEN "conflict" ELSE c.fail,
        names |-> DOMAIN c.out]

MaybeDeclares(D, n) ==
    LET o == Object(D, n) IN o.cond \/ o.union # <<>> \/ o.ref = Dangling

\* "ok" and the object reached, or why a segment does not resolve.
RECURSIVE ResolveDeclaredPath(_, _, _)
ResolveDeclaredPath(D, n, segments) ==
    LET c == PropertyContributors(D, n, <<>>)
        x == Head(segments)
        next == ComposeDeclarations(D, c.out[x])
        Answer(verdict) == [verdict |-> verdict, doc |-> D, at |-> n]
    IN CASE segments = <<>> -> Answer("ok")
         [] segments # <<>> /\ Boolean(n) -> Answer("not an object schema")
         [] OTHER ->
              CASE c.fail # "" -> Answer(c.fail)
                [] c.fail = "" /\ x \notin DOMAIN c.out ->
                      Answer(IF MaybeDeclares(D, n) THEN "conditional" ELSE "undeclared")
                [] OTHER -> IF Contradictory(D, c.out[x]) THEN Answer("conflict")
                            ELSE ResolveDeclaredPath(next.doc, next.at, Tail(segments))

\* The third fold: the keys are the composed ones, a name's declarations merge
\* into one object after they are proved to agree.
RECURSIVE MaterializeFold(_, _, _, _, _)
MaterializeFold(D, n, memo, keysMemo, path) ==
    LET Step(acc, source) ==
            CASE acc.fail # "" \/ source = True -> acc
              [] acc.fail = "" /\ source = False -> [acc EXCEPT !.fail = "conflict"]
              [] OTHER -> LET r == MaterializeFold(D, source, acc.memo, acc.keysMemo,
                                                   path \cup {n})
                          IN [r EXCEPT !.out = Append(acc.out, r.out)]
        below == FoldLeft(Step, [memo |-> memo, keysMemo |-> keysMemo, fail |-> "",
                                 out |-> <<>>], Sources(D, n))
        outs == Append(below.out, [type |-> Object(D, n).type, props |-> Object(D, n).props])
        keys == ComposedKeys(D, n, below.keysMemo)
        maps == SelectSeq(outs, LAMBDA o : o.props # NoProps)
        Stated(x) == LET stating == SelectSeq(maps, LAMBDA o : x \in DOMAIN o.props)
                     IN [i \in DOMAIN stating |-> stating[i].props[x]]
        names == UNION {DOMAIN maps[i].props : i \in DOMAIN maps}
        raw == PropertyContributors(D, n, keys.memo)
        Refused(x) == \/ Contradictory(D, IF x \in DOMAIN raw.out THEN raw.out[x] ELSE Stated(x))
                      \/ Clash(D, Stated(x))
        fail == CASE below.fail # "" -> below.fail
                  [] below.fail = "" /\ (Disjoint(Types(outs)) \/ keys.fail # "") -> "conflict"
                  [] OTHER -> IF maps = <<>> THEN ""
                              ELSE IF raw.fail # "" THEN raw.fail
                              ELSE IF \E x \in names : Refused(x) THEN "conflict" ELSE ""
        props == IF maps = <<>> THEN NoProps
                 ELSE [x \in names |-> FoldLeft(MergeObjects, <<>>, Stated(x))]
        out == [key \in Keys \cup {"props"} |-> IF key = "props" THEN props ELSE keys.out[key]]
        Answer(what) == [memo |-> memo, keysMemo |-> keysMemo, fail |-> "", out |-> what]
    IN CASE n \in DOMAIN memo -> Answer(memo[n])
         [] n \in path \ DOMAIN memo -> Answer(Blank)
         [] OTHER -> IF fail # "" THEN [below EXCEPT !.fail = fail]
                     ELSE [memo |-> Remember(below.memo, n, out), fail |-> "", out |-> out,
                           keysMemo |-> IF maps = <<>> THEN keys.memo ELSE raw.memo]

\* Gated on the node asked about, where an excluded map becomes known-empty.
MaterializeNode(D, n) ==
    LET m == MaterializeFold(D, n, <<>>, <<>>, {})
        gate == PermitsObject(D, n, m.keysMemo, {})
    IN IF m.fail # "" \/ m.out.props = NoProps THEN [fail |-> m.fail, out |-> m.out]
       ELSE [fail |-> gate.fail,
             out |-> IF gate.out THEN m.out ELSE [m.out EXCEPT !.props = <<>>]]
-----------------------------------------------------------------------------
(* What the schema means, for the properties: an instance is a type and, for an *)
(* object, the type of the one field the declarations name.                   *)

Field == "x"
TypeNames == {"object", "string", "integer"}
Instance == [t : TypeNames, x : TypeNames \cup {"absent"}]
\* The objects a document states something of or refers to.
Written(D) ==
    LET stated == {n \in DOMAIN D : D[n] # Blank}
    IN {<<n>> : n \in stated} \cup ({D[n].ref : n \in stated} \ {NoRef, Dangling})

Satisfies(D, n, i, S) ==
    LET o == Object(D, n)
    IN /\ o.type = {} \/ i.t \in o.type
       /\ i.t = "object" => o.arrow \in {"", "Object"}
       /\ \A s \in Range(Sources(D, n)) : s = True \/ <<s, i>> \in S
       /\ o.union = <<>> \/ \E b \in Range(o.union) : b = True \/ <<b, i>> \in S
       /\ i.t = "object" /\ i.x # "absent" /\ o.props # NoProps =>
              <<o.props[Field], [t |-> i.x, x |-> "absent"]>> \in S

\* The greatest set of (object, instance) pairs in which every constraint holds.
RECURSIVE AcceptedFrom(_, _)
AcceptedFrom(D, S) ==
    LET next == {p \in S : Satisfies(D, p[1], p[2], S)}
    IN IF next = S THEN S ELSE AcceptedFrom(D, next)
Accepted(D) == AcceptedFrom(D, Written(D) \X Instance)

RECURSIVE Reached(_, _, _)
Reached(D, frontier, seen) ==
    IF frontier \subseteq seen THEN seen
    ELSE Reached(D, UNION {Range(Sources(D, n)) \ {True, False} : n \in frontier},
                 seen \cup frontier)
Below(D, n) == Reached(D, {n}, {})
Acyclic(D, n) == \A m \in Below(D, n) :
    m \notin UNION {Below(D, s) : s \in Range(Sources(D, m)) \ {True, False}}

\* The fold spelled out, no memo: every statement of the field, in order.
RECURSIVE Expansion(_, _)
Expansion(D, n) ==
    LET Step(acc, s) == IF Boolean(s) THEN acc ELSE acc \o Expansion(D, s)
        own == Object(D, n).props
    IN FoldLeft(Step, <<>>, Sources(D, n)) \o (IF own = NoProps THEN <<>> ELSE <<own[Field]>>)

KeepLast(D, s) ==
    LET kept == {i \in DOMAIN s : \A j \in DOMAIN s :
                    j > i => Object(D, s[j]) # Object(D, s[i])}
    IN [k \in 1..Cardinality(kept) |->
            Object(D, s[CHOOSE i \in kept : Cardinality({j \in kept : j <= i}) = k])]

\* A name is refused only where no instance can carry it, and, where no union or
\* marker leaves it open, it resolves only where some instance can.
ResolvesWhatCanBeCarried(D) ==
    LET accepted == Accepted(D)
        Carried(n) == \E i \in Instance : /\ i.t = "object" /\ i.x # "absent"
                                         /\ <<n, i>> \in accepted
        Plain(n) == \A m \in Below(D, n) : Object(D, m).union = <<>> /\ Object(D, m).arrow = ""
    IN \A n \in Written(D) :
         LET gate == PermitsObject(D, n, <<>>, {})
             answer == ResolveDeclaredPath(D, n, <<Field>>).verdict
         IN /\ gate.fail # "endless" /\ ~gate.out =>
                  ~\E i \in Instance : i.t = "object" /\ <<n, i>> \in accepted
            /\ answer = "conflict" => ~Carried(n)
            /\ answer = "ok" /\ Plain(n) => Carried(n)

\* On an acyclic document the memoised folds are the fold spelled out, a later
\* statement wins, and for an object record both views name the same fields.
FoldsAreOneFold(D) ==
    \A n \in Written(D) : Acyclic(D, n) =>
      LET c == PropertyContributors(D, n, <<>>)
          m == MaterializeNode(D, n)
          e == EffectiveProperties(D, n)
      IN /\ c.fail = "" /\ Field \in DOMAIN c.out =>
               /\ [i \in DOMAIN c.out[Field] |-> Object(D, c.out[Field][i])]
                    = KeepLast(D, Expansion(D, n))
               /\ e.fail = "" => m.fail = "" /\ DOMAIN m.out.props = e.names
               /\ m.fail = "" => Object(D, m.out.props[Field]).type
                                    = Object(D, Last(c.out[Field])).type
         /\ m.fail = "" => m.out.type = ComposedKeys(D, n, <<>>).out.type

\* The two whole-node views of one document answer alike.
ViewsAgree(D) ==
    \A n \in Written(D) :
      LET m == MaterializeNode(D, n)
          e == EffectiveProperties(D, n)
      IN /\ m.fail = e.fail
         /\ m.fail = "" /\ m.out.props # NoProps => DOMAIN m.out.props = e.names

\* A document with a cycle is answered like any other.
EveryQueryEnds(D) == \A n \in Written(D) : PermitsObject(D, n, <<>>, {}).fail # "endless"
=============================================================================
