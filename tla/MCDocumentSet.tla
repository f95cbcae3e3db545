---------------------------- MODULE MCDocumentSet ----------------------------
(***************************************************************************)
(* The requests TLC grades: a workspace that runs, and every workspace one *)
(* or two edits away from it.                                              *)
(***************************************************************************)
EXTENDS DocumentSet, TLC

Id(n) == <<n, 0>>
Dir(unit, id) == [unit |-> unit, id |-> id]
Key(dir, loc, file) == [dir |-> dir, at |-> <<loc, file>>]

Text(fields) == [form |-> "object", body |-> fields @@ EmptyBody]
Garbage  == [form |-> "unparseable", body |-> EmptyBody]
NoObject == [form |-> "list", body |-> EmptyBody]

Slot(scope, connection, endpoint) ==
  [there |-> TRUE, scope |-> scope, connection |-> connection, endpoint |-> Id(endpoint), refused |-> FALSE]

PG  == Dir("connector", Id("pg"))
API == Dir("connector", Id("api"))
C1  == Dir("connection", Id("c1"))
C1v == Dir("connection", <<"c1", 2>>)
C2  == Dir("connection", Id("c2"))
P   == Dir("pipeline", Id("p"))

Stream(id) == Text([id |-> Id(id), status |-> "active", parent |-> Id("P"),
                    reads |-> Slot("connection", <<"c1", 1>>, "t"),
                    writes |-> << Slot("connector", Id("c2"), "e") >>])

Pipeline == Text([id |-> Id("P"), status |-> "active", source |-> <<"c1", 1>>,
                  destinations |-> {Id("c2")}, listed |-> TRUE, streams |-> << <<"s", 1>> >>])

Connection(connector) == Text([connector |-> Id(connector)])
Table    == Text([id |-> Id("t")])
Endpoint == Text([id |-> Id("e"), natives |-> {"int"}, transports |-> {"http"}])
TypeMap(sections) == Text([sections |-> sections, lists |-> sections, read |-> {"int"}, write |-> {"Int64"}])

Seed ==
     Root(PG) :> Text([kind |-> "database"])
  @@ Key(PG, "map", "") :> TypeMap({"read", "write"})
  @@ Root(API) :> Text([kind |-> "api", transports |-> {"http"}])
  @@ Key(API, "map", "") :> TypeMap({"read"})
  @@ Key(API, "endpoint", "e") :> Endpoint
  @@ Root(C1) :> Connection("pg")
  @@ Key(C1, "endpoint", "t") :> Table
  @@ Root(C2) :> Connection("api")
  @@ Root(P) :> Pipeline
  @@ Key(P, "stream", "s") :> Stream("s")

(* What one edit may make of a document. *)
Change(text, fields) == [text EXCEPT !.body = fields @@ text.body]

Versions(kind, text) ==
  {Garbage, NoObject} \cup {Change(text, f) : f \in
    CASE kind = "pipeline" ->
           {[id |-> NoId], [status |-> "draft"], [source |-> NoId], [source |-> Id("c2")],
            [source |-> Id("c9")], [destinations |-> {}], [destinations |-> {<<"c1", 2>>}],
            [destinations |-> {Id("c1"), Id("c2")}], [destinations |-> {Id("c9")}],
            [listed |-> FALSE], [streams |-> <<>>], [streams |-> << Id("s"), <<"s", 2>> >>],
            [streams |-> << Id("x") >>], [streams |-> << Id("s"), Id("x") >>], [placed |-> FALSE]}
      [] kind = "stream" ->
           {[id |-> NoId], [id |-> Id("x")], [status |-> "draft"], [parent |-> NoId], [parent |-> Id("Q")],
            [reads |-> NoSlot], [reads |-> Slot("connection", Id("c2"), "t")],
            [reads |-> Slot("connection", Id("c1"), "u")], [reads |-> Slot("connection", NoId, "t")],
            [reads |-> Slot("connector", Id("c1"), "e")],
            [writes |-> <<>>], [writes |-> << NoSlot >>],
            [writes |-> << Slot("connector", Id("c2"), "f") >>],
            [writes |-> << Slot("connector", Id("c2"), "e"), Slot("connection", Id("c1"), "t") >>],
            [writes |-> << [Slot("connector", Id("c2"), "e") EXCEPT !.refused = TRUE] >>]}
      [] kind = "connection" -> {[connector |-> NoId], [connector |-> Id("pg")], [connector |-> Id("api")],
                                 [connector |-> <<"pg", 1>>]}
      [] kind = "connector" -> {[kind |-> "mystery"], [kind |-> "file"], [kind |-> "api"], [transports |-> {}]}
      [] kind = "type-map" -> {[sections |-> {}, lists |-> {}], [lists |-> {}], [read |-> {}],
                               [sections |-> {"read", "write"}, lists |-> {"read", "write"}]}
      [] OTHER -> {[id |-> NoId], [id |-> Id("z")], [derived |-> FALSE], [transports |-> {"ws"}]}}

(* Documents an edit may add. *)
Pool ==
     Key(P, "stream", "s2") :> Stream("s")
  @@ Key(P, "stream", "s3") :> Stream("x")
  @@ Root(C1v) :> Connection("pg")
  @@ Key(C1v, "endpoint", "t") :> Table
  @@ Key(C1, "endpoint", "t2") :> Table
  @@ Key(C1, "map", "") :> TypeMap({"write"})
  @@ Key(PG, "endpoint", "e") :> Endpoint
  @@ Key(PG, "notes", "x") :> Garbage
  @@ Key(Dir("pipeline", Id("q")), "stream", "s") :> Stream("s")
  @@ Key(Outside, "manifest", "") :> Text([id |-> NoId])

(* An edit gives one document another text, removes one, or adds one of the pool. *)
Removed == [form |-> "removed", body |-> EmptyBody]

EditsOf(k) == {[key |-> k, text |-> t] : t \in {Removed} \cup Versions(KindAt(k), Seed[k])}

Edits == UNION {EditsOf(k) : k \in DOMAIN Seed} \cup {[key |-> k, text |-> Pool[k]] : k \in DOMAIN Pool}

Edited(ws, e) ==
  IF e.text = Removed
  THEN [k \in DOMAIN ws \ {e.key} |-> ws[k]]
  ELSE (e.key :> e.text) @@ ws

OneEdit  == {Edited(Seed, e) : e \in Edits}
TwoEdits == {Edited(Edited(Seed, e), f) : e, f \in Edits}

Request(mode, kind, dir, texts, crashes) ==
  [mode |-> mode, kind |-> kind, dir |-> dir, texts |-> texts, crashes |-> crashes]

Workspaces(S, crashes) == {Request("workspace", NoKind, Outside, ws, crashes) : ws \in S}

In(ws, d) == [k \in {k \in DOMAIN ws : k.dir = d} |-> ws[k]]

(* Each package of a workspace as a request of its own, and each document under its kind. *)
Smaller(ws) ==
  {Request("package", NoKind, d, In(ws, d), 1) : d \in {k.dir : k \in DOMAIN ws} \ {Outside}}
  \cup {Request("single", KindAt(k), Outside, k :> ws[k], 1) : k \in {k \in DOMAIN ws : KindAt(k) # NoKind}}

NoPackages == Workspaces({<<>>, Key(Outside, "manifest", "") :> Text([id |-> NoId])}, 1)

(* One edit: a request of every mode, and one crash. Two edits: workspaces, and none. *)
MCRequests ==
  Workspaces({Seed} \cup OneEdit, 1)
  \cup UNION {Smaller(ws) : ws \in {Seed} \cup OneEdit}
  \cup NoPackages
  \cup Workspaces(TwoEdits, 0)
=============================================================================
