------------------------- MODULE WorkspaceDocuments -------------------------
(***************************************************************************)
(* The documents of a workspace as the validator sees them: where each     *)
(* sits, what kind its location gives it, and what its own contract model  *)
(* refuses.                                                                *)
(*                                                                         *)
(* A key is a record [dir, at]: the package directory holding the document *)
(* (a unit and a name) and the location within it.  The workspace's own    *)
(* documents have the directory Outside.  An identifier is a pair          *)
(* <<base, version>>, version 0 for the bare form; NoId stands for a field *)
(* that is absent, empty or not a string, which the code treats alike.     *)
(***************************************************************************)
EXTENDS Naturals, Sequences, FiniteSets

NoId == <<"", 0>>

Outside == [unit |-> "workspace", id |-> NoId]

Units == {"connector", "connection", "pipeline"}

(* LOCATIONS of each package model: the name of a location, and the kind of document
   written there. "endpoint" and "stream" stand for every file of the directory. *)
Locations(unit) ==
  CASE unit = "connector"  -> [root |-> "connector", map |-> "type-map", endpoint |-> "api-endpoint"]
    [] unit = "connection" -> [root |-> "connection", map |-> "type-map",
                               endpoint |-> "database-endpoint", secrets |-> "credentials"]
    [] unit = "pipeline"   -> [root |-> "pipeline", stream |-> "stream"]
    [] OTHER               -> [manifest |-> "pipeline-manifest"]

SecretLocations(unit) == IF unit = "connection" THEN {"secrets"} ELSE {}

NoKind == "no kind"

(* kind_at: a key no location matches has no kind. `at` is <<location, file name>>. *)
KindAt(key) ==
  LET table == Locations(key.dir.unit)
  IN  IF key.at[1] \in DOMAIN table THEN table[key.at[1]] ELSE NoKind

Root(dir) == [dir |-> dir, at |-> <<"root", "">>]

(* The kinds a request can carry in a package: a secret location's document is never carried. *)
PackageKinds(unit) ==
  {Locations(unit)[l] : l \in DOMAIN Locations(unit) \ SecretLocations(unit)}

Base(id) == <<id[1], 0>>

---------------------------------------------------------------------------
(***************************************************************************)
(* Content.  A document's text is a record: form says whether it parses    *)
(* and whether it parses to an object; body holds the fields the checks    *)
(* read.  A document that is not an object reads as the empty body.        *)
(***************************************************************************)
Unparseable(text) == text.form = "unparseable"
IsObject(doc)     == doc.form = "object"

NoSlot == [there |-> FALSE, scope |-> "", connection |-> NoId, endpoint |-> NoId, refused |-> FALSE]

EmptyBody ==
  [placed |-> TRUE, id |-> NoId, status |-> "draft",
   source |-> NoId, destinations |-> {}, listed |-> FALSE, streams |-> <<>>,
   parent |-> NoId, reads |-> NoSlot, writes |-> <<>>,
   connector |-> NoId, kind |-> "", transports |-> {}, natives |-> {}, derived |-> TRUE,
   sections |-> {}, lists |-> {}, read |-> {}, write |-> {}]

(* _content: the document's content where it is an object, an empty one otherwise. *)
Content(doc) == IF IsObject(doc) THEN doc.body ELSE EmptyBody

(* The members of a sequence that are not None: what the checks call refs. *)
Named(refs) == {r \in refs : r # NoId}
Members(s)  == {s[i] : i \in DOMAIN s}
Slots(b)    == {b.reads} \cup Members(b.writes)

StorageKinds   == {"file", "s3", "stdout"}
DatabaseKinds  == {"database", "nosql", "document"}
ConnectorKinds == {"api"} \cup DatabaseKinds \cup StorageKinds

---------------------------------------------------------------------------
(***************************************************************************)
(* What each document's own contract model refuses, as far as a check      *)
(* leaves it to the model.                                                 *)
(***************************************************************************)
Bare(id) == id = NoId \/ id[2] = 0

Repeats(s, What(_)) == \E i, j \in DOMAIN s : i < j /\ What(s[i]) = What(s[j])

PipelineRefused(b) ==
  \/ ~ Bare(b.id)
  \/ b.source = NoId
  \/ b.destinations = {}
  \/ NoId \in b.destinations
  \/ ~ b.listed
  \/ NoId \in Members(b.streams)
  \/ Repeats(b.streams, Base)
  \/ b.status = "active" /\ b.streams = <<>>

(* A ref one of the two EndpointRef variants refuses. *)
RefRefused(r) ==
  \/ r.refused
  \/ r.scope \notin {"connection", "connector"}
  \/ r.connection = NoId
  \/ r.endpoint = NoId

Target(slot) == <<slot.scope, slot.connection, slot.endpoint>>

StreamRefused(b) ==
  \/ ~ Bare(b.id)
  \/ b.parent = NoId
  \/ b.writes = <<>>
  \/ \E s \in Slots(b) : ~ s.there \/ RefRefused(s)
  \/ Repeats(b.writes, Target)

(* A section that is no rule list, or no section at all. *)
TypeMapRefused(b) == b.sections = {} \/ b.lists # b.sections

Refused(kind, doc) ==
  \/ ~ IsObject(doc)
  \/ LET b == doc.body
     IN  CASE kind = "pipeline"     -> PipelineRefused(b)
           [] kind = "stream"       -> StreamRefused(b)
           [] kind = "connection"   -> b.connector = NoId
           [] kind = "connector"    -> b.kind \notin ConnectorKinds
           [] kind = "type-map"     -> TypeMapRefused(b)
           [] kind = "api-endpoint" -> b.id = NoId
           [] kind = "database-endpoint" -> b.id = NoId \/ ~ b.derived
           [] OTHER                 -> FALSE

(* The kinds whose $schema is optional in the model and asked for by RULE-SHRD-003. *)
PlacedKinds == {"pipeline", "stream", "connection", "connector"}
=============================================================================
