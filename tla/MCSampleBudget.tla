--------------------------- MODULE MCSampleBudget ---------------------------
(* A small document for SampleBudget: two schemas that both reach one node     *)
(* object, a second node, and one argument of each kind that is not JSON data. *)
EXTENDS SampleBudget

CONSTANTS sA, sB, sC, nA, nB, nC, x, y, z

Ask3(s, n, v) == [schema |-> s, node |-> n, sample |-> v]

\* What a parsed document hands over.
ParsedRequests == {Ask3(sA, nA, x), Ask3(sA, nB, y), Ask3(sB, nA, y)}

\* Arguments grade() accepts although no JSON document could hold them.
MCNotJson == {sC, nC, z}
BuiltRequests == {Ask3(sC, nA, x), Ask3(sA, nC, y), Ask3(sB, nB, z)}

MCRequests == ParsedRequests \cup BuiltRequests
=============================================================================
