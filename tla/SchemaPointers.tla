--------------------------- MODULE SchemaPointers ---------------------------
(***************************************************************************)
(* Where a pointer into an embedded schema may land: the structural walk   *)
(* every check of a schema loops over, and the $ref resolver that follows  *)
(* a pointer by parsing its tokens (contracts/shared/json_schema.py).      *)
(* With them the verdict on a reference and on the keywords that would move *)
(* its base (contracts/endpoints.py, _validate_schema_refs).               *)
(* One path of a document is enough, as both read one path at a time: its  *)
(* tokens, each a keyword, a name or Index, and the kind of value at its   *)
(* end. Index addresses a list, any other token a dict. The node that the  *)
(* first d.at tokens address holds d.keyword, or a $ref spelled d.ref.     *)
(***************************************************************************)
EXTENDS Naturals, Sequences, SequencesExt

CONSTANTS Index, AName

MapKeys == {"$defs", "dependentSchemas"}     \* one unconditional keyword and one
ListKeys == {"allOf", "anyOf"}               \* conditional keyword of each shape
SingleKeys == {"items", "not"}
ConditionalKeys == {"dependentSchemas", "anyOf", "not"}
DataKeys == {"default"}                      \* user data shaped like a schema
Token == MapKeys \cup ListKeys \cup SingleKeys \cup DataKeys \cup {Index, AName}
Kind == {"dict", "list", "bool", "atom"}
NoKeyword == "none"
RefusedKeywords == {"$id", "$anchor", "$dynamicRef"}

\* The kind of the value the first k tokens address.
KindAt(d, k) == CASE k = Len(d.path) -> d.end
                  [] k < Len(d.path) /\ d.path[k + 1] = Index -> "list"
                  [] OTHER -> "dict"

\* The positions walk_structural_positions yields, as lengths of prefixes.
WalkedFrom(d) ==
    LET W[k \in 0..Len(d.path)] ==
          LET key == d.path[k + 1]
              child == KindAt(d, k + 1)
              Below(n) == IF n <= Len(d.path) THEN W[n] ELSE {}
          IN {k} \cup
             CASE k = Len(d.path) \/ KindAt(d, k) # "dict" -> {}
               [] k < Len(d.path) /\ key \in MapKeys ->
                     IF child = "dict" THEN Below(k + 2) ELSE {}
               [] k < Len(d.path) /\ key \in ListKeys ->
                     IF child = "list" THEN Below(k + 2) ELSE {}
               [] k < Len(d.path) /\ key \in SingleKeys ->
                     IF child = "list" THEN Below(k + 2) ELSE Below(k + 1)
               [] OTHER -> {}
    IN W[0]

\* Whether resolve_schema_ref follows the pointer of the first n tokens: its
\* loop over the tokens, at index k on the value they have reached.
FollowsRef(d, n) ==
    LET F[k \in 0..n] ==
          LET key == d.path[k + 1]
              child == KindAt(d, k + 1)
              NextTwo == k + 1 < n /\ F[k + 2]
          IN IF k = n THEN TRUE
             ELSE /\ KindAt(d, k) = "dict"
                  /\ key \notin ConditionalKeys
                  /\ CASE key \in MapKeys -> child = "dict" /\ NextTwo
                       [] key \in ListKeys \cup SingleKeys /\ child = "list" -> NextTwo
                       [] key \in SingleKeys /\ child # "list" -> F[k + 1]
                       [] OTHER -> FALSE
    IN F[0]

\* The keywords a walked prefix was reached through: its tokens that are neither
\* a name under a map nor an index.
CrossesConditional(d, n) ==
    \E k \in WalkedFrom(d) : k < n /\ d.path[k + 1] \in ConditionalKeys

\* resolve_local_pointer: the raw walk finds whatever the tokens address.
FindsPointer(d, ref) == IsPrefix(ref, d.path)

\* What is said of the $ref of a node: the tokens of a pointer, or a spelling that
\* addresses no place in this document.
RefVerdict(d) ==
    LET n == Len(d.ref.tokens)
        found == FindsPointer(d, d.ref.tokens)
        follows == found /\ FollowsRef(d, n)
    IN CASE d.ref.spelling # "pointer" -> d.ref.spelling
         [] follows /\ KindAt(d, n) = "dict" -> "accepted"
         [] follows /\ KindAt(d, n) = "bool" -> "boolean"
         [] found -> "not a schema position"
         [] OTHER -> "dangling"

\* The walk of every reference and of the keywords that may not be there.
RefsAccepted(d) ==
    d.at \in WalkedFrom(d) /\ KindAt(d, d.at) = "dict" =>
        /\ RefVerdict(d) = "accepted"
        /\ d.keyword \notin RefusedKeywords
        /\ d.keyword = "$schema" => d.at = 0

-----------------------------------------------------------------------------
(* Properties. *)

\* A $ref is followed exactly to the positions every check walks, less those
\* that only some instances take.
PointerStaysOnSchemas(d) ==
    \A n \in 0..Len(d.path) :
        FollowsRef(d, n) <=> n \in WalkedFrom(d) /\ ~CrossesConditional(d, n)

\* What is followed from a node the checks have read is a node they have read, in
\* the one dialect and base of the document.
FollowsWhatWasRead(d) ==
    RefsAccepted(d) /\ d.at \in WalkedFrom(d) /\ KindAt(d, d.at) = "dict" =>
        /\ \E n \in WalkedFrom(d) : /\ d.ref.tokens = SubSeq(d.path, 1, n)
                                    /\ KindAt(d, n) = "dict" /\ ~CrossesConditional(d, n)
        /\ d.keyword \in {NoKeyword, "$schema"}
        /\ d.keyword = "$schema" => d.at = 0
=============================================================================
