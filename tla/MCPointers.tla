----------------------------- MODULE MCPointers -----------------------------
(***************************************************************************)
(* Documents of one path and one reference, for TLC: the empty one, which  *)
(* refers to its root, and what tokens and edits make of it.               *)
(***************************************************************************)
EXTENDS SchemaPointers

EmptyPath == [path |-> <<>>, end |-> "dict", at |-> 0, keyword |-> NoKeyword,
              ref |-> [spelling |-> "pointer", tokens |-> <<>>]]

PointerEdit(d, e) ==
    \/ \E t \in Token : e = [d EXCEPT !.path = Append(@, t)]
    \/ \E v \in Kind : e = [d EXCEPT !.end = v]
    \/ \E n \in 0..Len(d.path) :
          \/ e = [d EXCEPT !.ref.tokens = SubSeq(d.path, 1, n)]
          \/ e = [d EXCEPT !.ref.tokens = Append(SubSeq(d.path, 1, n), AName)]
          \/ e = [d EXCEPT !.at = n]
    \/ \E v \in {"not a string", "elsewhere", "anchor"} : e = [d EXCEPT !.ref.spelling = v]
    \/ \E v \in RefusedKeywords \cup {"$schema"} : e = [d EXCEPT !.keyword = v]
=============================================================================
