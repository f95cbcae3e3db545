-------------------------- MODULE RequestDispatch --------------------------
(***************************************************************************)
(* Building one request from a connector and an operation                  *)
(* (contracts/value_expression.py): the URL, the header map of its layers, *)
(* the media type stamped on it and the body it selects; with the rules of *)
(* contracts/shared/rules.py on the blocks the layers are read from.       *)
(*                                                                         *)
(* A header name is <<key, spelling>>: what the wire compares, and how it  *)
(* was written. A block is one layer's headers and headers_remove, in      *)
(* authored order; graded tells whether the contract models have read it.  *)
(***************************************************************************)
EXTENDS Naturals, FiniteSets

CONSTANTS Key, Spelling, ContentType, ContentLength,
          MaxEntries       \* bound: names written in all the blocks together

ASSUME KeysAssumption == /\ {ContentType, ContentLength} \subseteq Key
                         /\ ContentType # ContentLength
                         /\ MaxEntries \in Nat

Name == Key \X Spelling
Block == {"defaults", "transport", "operation"}
None == "none"

\* An authored text, null, blank, a ref, and a template with a placeholder.
Authored == {"text", "null", "blank", "ref", "template"}

VARIABLES graded, holds,   \* whether the context has what expressions ask for
          phase, entries,
          headers, removes,   \* what each block has written: keys set, keys removed
          effective, casing,
          latest,             \* history: the last layer's word on each key, <<>> for none
          url, body, mediaType

document == <<graded, holds>>
map == <<effective, casing, latest>>
vars == <<graded, holds, phase, entries, headers, removes, effective, casing, latest,
          url, body, mediaType>>

-----------------------------------------------------------------------------
(* Resolution of one value. *)

ResolveHeaderValue(v) ==
    CASE v = "null" -> None
      [] v = "ref" -> IF holds THEN "text" ELSE None
      [] v = "template" -> IF holds THEN "text" ELSE "half"
      [] OTHER -> v

HasUnresolvedPlaceholder(v) == v = "template" /\ ~holds

\* A base_url: text an author wrote, with a placeholder or without, is joined as
\* it stands; the forms without text are resolved, and must give some.
BaseUrl(base) ==
    CASE base = "function" -> IF holds THEN "text" ELSE "raise"
      [] base = "ref" -> IF holds THEN "text" ELSE "raise"
      [] base = "malformed" -> "raise"
      [] OTHER -> base

\* The operation's own url, or else the base and the path. Without a path there
\* is no request.
OperationUrl(own, base, path) ==
    LET parts == IF own # None THEN {own} ELSE {BaseUrl(base), path} \ {None}
    IN CASE own = None /\ path = None -> None
         [] "raise" \in parts \/ \E p \in parts : HasUnresolvedPlaceholder(p) -> "raise"
         [] OTHER -> "text"

-----------------------------------------------------------------------------
(* The rules on a block, per entry as it is written: a value is not void, a  *)
(* name is not one the engine writes, and no name is both set and removed.   *)

MaySet(b, n, v) ==
    graded => /\ v \notin {"null", "blank"}
              /\ n[1] \notin {ContentType, ContentLength}
              /\ n[1] \notin {r[1] : r \in removes[b]}
MayRemove(b, n) == graded => n[1] \notin {h[1] : h \in headers[b]}

-----------------------------------------------------------------------------
Init ==
    /\ graded \in BOOLEAN /\ holds \in BOOLEAN
    /\ phase = "url" /\ entries = 0
    /\ headers = [b \in Block |-> {}] /\ removes = [b \in Block |-> {}]
    /\ effective = <<>> /\ casing = <<>> /\ latest = [k \in Key |-> <<>>]
    /\ url = None /\ body = None /\ mediaType = None

ResolveUrl(own, base, path) ==
    /\ phase = "url"
    /\ url' = OperationUrl(own, base, path)
    /\ phase' = IF url' = "text" THEN "defaults" ELSE "failed"
    /\ UNCHANGED <<document, entries, headers, removes, map, body, mediaType>>

Without(f, xs) == [x \in DOMAIN f \ xs |-> f[x]]
With(f, x, v) == [y \in DOMAIN f \cup {x} |-> IF y = x THEN v ELSE f[y]]

\* A mutant: a key spelled another way is a key of its own.
SetHeader_BySpelling(b, n, v) ==
    LET value == ResolveHeaderValue(v)
    IN /\ phase = b
       /\ entries < MaxEntries /\ entries' = entries + 1
       /\ n \notin headers[b] /\ MaySet(b, n, v)
       /\ headers' = [headers EXCEPT ![b] = @ \cup {n}]
       /\ IF value = None THEN UNCHANGED map
          ELSE /\ effective' = With(effective, n, <<b, value>>)
               /\ casing' = With(casing, n[1], n)
               /\ latest' = [latest EXCEPT ![n[1]] = <<n, <<b, value>>>>]
       /\ UNCHANGED <<document, phase, removes, url, body, mediaType>>

\* One header of the layer being merged. One that does not resolve is dropped,
\* and leaves what a lower layer said.
SetHeader(b, n, v) ==
    LET value == ResolveHeaderValue(v)
        prior == {casing[k] : k \in DOMAIN casing \cap {n[1]}}
    IN /\ phase = b
       /\ entries < MaxEntries /\ entries' = entries + 1
       /\ n \notin headers[b] /\ MaySet(b, n, v)
       /\ headers' = [headers EXCEPT ![b] = @ \cup {n}]
       /\ IF value = None THEN UNCHANGED map
          ELSE /\ effective' = With(Without(effective, prior), n, <<b, value>>)
               /\ casing' = With(casing, n[1], n)
               /\ latest' = [latest EXCEPT ![n[1]] = <<n, <<b, value>>>>]
       /\ UNCHANGED <<document, phase, removes, url, body, mediaType>>

\* A removal written by a lower layer: no step of the merge reads it.
NoteRemoval(b, n) ==
    /\ b # "operation" /\ phase = b
    /\ entries < MaxEntries /\ entries' = entries + 1
    /\ n \notin removes[b] /\ MayRemove(b, n)
    /\ removes' = [removes EXCEPT ![b] = @ \cup {n}]
    /\ UNCHANGED <<document, phase, headers, map, url, body, mediaType>>

\* The operation's removals drop what the layers below it left.
RemoveHeader(n) ==
    LET prior == {casing[k] : k \in DOMAIN casing \cap {n[1]}}
    IN /\ phase = "removals"
       /\ entries < MaxEntries /\ entries' = entries + 1
       /\ n \notin removes["operation"]
       /\ removes' = [removes EXCEPT !["operation"] = @ \cup {n}]
       /\ casing' = Without(casing, {n[1]})
       /\ effective' = Without(effective, prior)
       /\ latest' = [latest EXCEPT ![n[1]] = <<>>]
       /\ UNCHANGED <<document, phase, headers, url, body, mediaType>>

NextLayer ==
    /\ phase \in {"defaults", "transport", "removals"}
    /\ phase' = CASE phase = "defaults" -> "transport"
                  [] phase = "transport" -> "removals"
                  [] OTHER -> "operation"
    /\ UNCHANGED <<document, entries, headers, removes, map, url, body, mediaType>>

\* The declared media type, or the form encoding, in place of any the map has.
ApplyContentType(declared) ==
    LET stamped == IF declared = None THEN "form" ELSE declared
        plain == CHOOSE s \in Spelling : TRUE
    IN /\ phase = "operation"
       /\ effective' = With(Without(effective, {n \in DOMAIN effective : n[1] = ContentType}),
                            <<ContentType, plain>>, <<"operation", stamped>>)
       /\ mediaType' = stamped
       /\ phase' = "body"
       /\ UNCHANGED <<document, entries, headers, removes, casing, latest, url, body>>

\* A mutant: a form field is resolved as a JSON one is.
ResolveBody_Alike(field) ==
    /\ phase = "body"
    /\ body' = ResolveHeaderValue(field)
    /\ phase' = "sent"
    /\ UNCHANGED <<document, entries, headers, removes, map, url, mediaType>>

\* A form field with an unresolved placeholder is left out; a JSON one is sent
\* with nothing in its place. body is what became of one authored field.
ResolveBody(field) ==
    /\ phase = "body"
    /\ body' = IF mediaType = "json" THEN ResolveHeaderValue(field)
               ELSE IF HasUnresolvedPlaceholder(field) THEN None ELSE "text"
    /\ phase' = "sent"
    /\ UNCHANGED <<document, entries, headers, removes, map, url, mediaType>>

Dispatch ==
    \/ \E own \in {None, "text", "template"}, path \in {None, "text", "template"} :
         \E base \in {None, "text", "template", "ref", "function", "malformed"} :
            ResolveUrl(own, base, path)
    \/ \E b \in Block, n \in Name, v \in Authored : SetHeader(b, n, v)
    \/ \E b \in Block, n \in Name : NoteRemoval(b, n)
    \/ \E n \in Name : RemoveHeader(n)
    \/ NextLayer
    \/ \E declared \in {None, "form", "json"} : ApplyContentType(declared)
    \/ \E field \in {"text", "template"} : ResolveBody(field)

Next == Dispatch
Spec == Init /\ [][Next]_vars

-----------------------------------------------------------------------------
(* Properties. *)

\* The two dicts of the merge are one map by what the wire compares: the last
\* layer to set a name is the one spelling and value of it on the request, and a
\* header that did not resolve or was removed left nothing behind.
HeadersLayered ==
    phase \notin {"body", "sent"} =>
        /\ DOMAIN casing = {k \in Key : latest[k] # <<>>}
        /\ \A k \in DOMAIN casing : casing[k] = latest[k][1]
        /\ DOMAIN effective = {casing[k] : k \in DOMAIN casing}
        /\ \A n \in DOMAIN effective : effective[n] = latest[n[1]][2]

\* What leaves has a whole URL and one Content-Type, the one its body was encoded
\* by. From graded blocks it has no void header and no Content-Length, and no
\* name the operation removes.
SentAsAuthored ==
    phase = "sent" =>
        /\ url = "text"
        /\ {effective[n][2] : n \in {m \in DOMAIN effective : m[1] = ContentType}} = {mediaType}
        /\ Cardinality({n[1] : n \in DOMAIN effective}) = Cardinality(DOMAIN effective)
        /\ mediaType = "form" => body # "half"
        /\ graded => \A n \in DOMAIN effective :
             n[1] # ContentType =>
                /\ effective[n][2] # "blank" /\ n[1] # ContentLength
                /\ n[1] \notin {r[1] : r \in removes["operation"]}

\* A name the transport removes, and that neither it nor the operation sets, is
\* not inherited from the defaults.
TransportRemovalHonoured ==
    phase = "sent" /\ graded =>
        \A n \in DOMAIN effective :
            effective[n][1] = "defaults" => n[1] \notin {r[1] : r \in removes["transport"]}

-----------------------------------------------------------------------------
(* The inductive invariant behind them. *)

Layers == {"defaults", "transport", "operation"}

Shape ==
    /\ phase \in Layers \cup {"url", "removals", "body", "sent", "failed"}
    /\ headers \in [Block -> SUBSET Name] /\ removes \in [Block -> SUBSET Name]
    /\ latest = [k \in Key |-> latest[k]]
    /\ IsFiniteSet(DOMAIN effective)

\* What the layers read so far have built.
MergeBook ==
    phase \notin {"body", "sent"} =>
        /\ \A k \in Key : latest[k] # <<>> =>
              latest[k] = <<latest[k][1], latest[k][2]>> /\ latest[k][1] \in {k} \X Spelling
        /\ HeadersLayered

\* A name is on the map once; from graded blocks nothing is void, nothing is the
\* engine's, and what the operation removes is gone as soon as it says so.
RuleBook ==
    /\ \A m, n \in DOMAIN effective : m[1] = n[1] => m = n
    /\ phase \in {"url", "defaults", "transport"} => removes["operation"] = {}
    /\ graded => \A n \in DOMAIN effective :
         n[1] # ContentType =>
            /\ effective[n][2] # "blank" /\ n[1] # ContentLength
            /\ n[1] \notin {r[1] : r \in removes["operation"]}

SendBook ==
    /\ phase \notin {"url", "failed"} => url = "text"
    /\ phase \in {"body", "sent"} =>
         {effective[n][2] : n \in {m \in DOMAIN effective : m[1] = ContentType}} = {mediaType}
    /\ phase = "sent" /\ mediaType = "form" => body # "half"

DispatchInv == Shape /\ MergeBook /\ RuleBook /\ SendBook
=============================================================================
