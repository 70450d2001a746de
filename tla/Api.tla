-------------------------------- MODULE Api --------------------------------
(***************************************************************************)
(* What a program says about its types and what it reads with them: the    *)
(* OpenAPI document (openapi.go, schema.go) and binding (bind.go).  Both   *)
(* walk Go types by reflection.  A Go type is a member of Types, described *)
(* by Decl: kind, name, bits, element type and fields with their tags.     *)
(*                                                                         *)
(* Building the document does not read what serving writes, nor the other  *)
(* way round, so a behaviour is a program in setup or one that is serving. *)
(* A route's path is a sequence of segments, a text in a request a pair of *)
(* what it looks like and the value.                                       *)
(***************************************************************************)
EXTENDS Integers, Sequences, FiniteSets

CONSTANTS
  Types,        \* Go types of the program
  Decl,         \* [Types -> what reflect tells of them]
  timeType,     \* time.Time
  Paths,        \* patterns of routes
  Methods,
  Documented,   \* types that routes are documented with
  Statuses,     \* status codes that are documented
  BindTargets,  \* types that handlers bind to
  Requests,     \* Content-Type, query and body of requests
  MaxRoutes,    \* bound: routes
  MaxMetadata,  \* bound: calls that document a route
  None

IntKinds == {"int", "uint"}
Kinds == {"string", "bool", "float", "slice", "map", "pointer", "struct", "other"}
         \cup IntKinds

ASSUME ApiAssumption ==
  /\ \A t \in Types :
       /\ Decl[t].kind \in Kinds
       /\ Decl[t].kind \in {"slice", "map", "pointer"} => Decl[t].elem \in Types
       /\ \A i \in DOMAIN Decl[t].fields : Decl[t].fields[i].type \in Types
  /\ \A req \in Requests :
       req.contentType \in {"json", "urlencoded", "multipart", ""}
  /\ timeType \in Types /\ Documented \subseteq Types /\ BindTargets \subseteq Types

VARIABLES
  phase,       \* "setup" or "serving"
  routes,      \* Router.routes
  metadata,    \* calls that documented a route
  doc,         \* the document that is served, None before OpenAPI
  described,   \* history: the routes there were at that time
  request,     \* what the handler has bound, and from what
  target,      \* the fields of the value it bound to
  err          \* what Bind returned

vars == <<phase, routes, metadata, doc, described, request, target, err>>

-----------------------------------------------------------------------------
(* Schemas.  g is schemaGen.components; results are a pair of the new g    *)
(* and a schema.                                                           *)

schema == [type |-> "", ref |-> "", items |-> <<>>, properties |-> <<>>,
           required |-> {}]

Typed(name) == [schema EXCEPT !.type = name]
Ref(name) == [schema EXCEPT !.ref = name]

\* f with f[x] = y.
With(f, x, y) == [z \in DOMAIN f \cup {x} |-> IF z = x THEN y ELSE f[z]]

RECURSIVE deref(_)
deref(t) == IF Decl[t].kind = "pointer" THEN deref(Decl[t].elem) ELSE t

jsonField(f) == IF f.json = "" THEN f.name ELSE f.json

ScalarSchema(kind) ==
  CASE kind = "string" -> Typed("string")
    [] kind = "bool" -> Typed("boolean")
    [] kind \in IntKinds -> Typed("integer")
    [] kind = "float" -> Typed("number")
    [] kind = "other" -> schema

RECURSIVE schemaFor(_, _), structSchema(_, _, _)

\* Mutant of Enter: the reserved entry is not replaced.
EnterReserved(name, body) == With(body.g, name, schema)

\* The schema of a struct replaces its reserved entry.
Enter(name, body) == With(body.g, name, body.s)

\* A struct type enters components under its name, which is reserved first so
\* that recursive types end.
Register(g, t) ==
  IF Decl[t].name \in DOMAIN g THEN g
  ELSE Enter(Decl[t].name, structSchema(With(g, Decl[t].name, schema), t,
                                        Len(Decl[t].fields)))

Container(type, elem) ==
  [g |-> elem.g, s |-> [Typed(type) EXCEPT !.items = <<elem.s>>]]

\* The schema of t, which is not a pointer.
typeSchema(g, t) ==
  LET d == Decl[t]
  IN  CASE d.kind = "slice" -> Container("array", schemaFor(g, d.elem))
        [] d.kind = "map" -> Container("object", schemaFor(g, d.elem))
        [] t = timeType -> [g |-> g, s |-> Typed("date-time")]
        [] d.kind = "struct" /\ t # timeType /\ d.name = "" ->
             structSchema(g, t, Len(d.fields))
        [] d.kind = "struct" /\ t # timeType /\ d.name # "" ->
             [g |-> Register(g, t), s |-> Ref(d.name)]
        [] OTHER -> [g |-> g, s |-> ScalarSchema(d.kind)]

schemaFor(g, t) == typeSchema(g, deref(t))

AddProperty(before, f, field) ==
  [g |-> field.g,
   s |-> [before.s EXCEPT
            !.properties = With(@, jsonField(f), field.s),
            !.required = IF f.omitempty \/ Decl[f.type].kind = "pointer" THEN @
                         ELSE @ \cup {jsonField(f)}]]

AddField(before, f) ==
  IF ~f.exported \/ jsonField(f) = "-" THEN before
  ELSE AddProperty(before, f, schemaFor(before.g, f.type))

\* The object schema of the first n fields of t.
structSchema(g, t, n) ==
  IF n = 0 THEN [g |-> g, s |-> Typed("object")]
  ELSE AddField(structSchema(g, t, n - 1), Decl[t].fields[n])

\* A field's name in a form or query; "-" keeps it out.
FieldName(f, tag) == IF f[tag] = "" THEN f.name ELSE f[tag]
Reads(f, tag) == f.exported /\ FieldName(f, tag) # "-"

\* Mutant of ParamName: the tag of the body is taken.
ParamNameJson(f) == jsonField(f)

ParamName(f) == FieldName(f, "query")

AddParam(before, f, field) ==
  [g |-> field.g,
   params |-> Append(before.params,
                     [name |-> ParamName(f), in |-> "query", s |-> field.s])]

ReadField(before, f) ==
  IF ~Reads(f, "query") THEN before
  ELSE AddParam(before, f, schemaFor(before.g, f.type))

\* The parameters for the first n fields of t, and g.
RECURSIVE fieldParams(_, _, _)
fieldParams(g, t, n) ==
  IF n = 0 THEN [g |-> g, params |-> <<>>]
  ELSE ReadField(fieldParams(g, t, n - 1), Decl[t].fields[n])

queryParams(g, given) ==
  LET t == deref(given)
  IN  fieldParams(g, t, IF Decl[t].kind = "struct" THEN Len(Decl[t].fields) ELSE 0)

-----------------------------------------------------------------------------
(* Routes and the document.                                                *)

Wildcards == {"param", "catch-all"}

\* newRoute
pathParams(path) ==
  LET IsWild(seg) == seg.kind \in Wildcards
      wild == SelectSeq(path, IsWild)
  IN  [i \in DOMAIN wild |-> [name |-> wild[i].name, in |-> "path",
                              s |-> Typed("string")]]

\* Parameters and catch-alls become {name}.
openAPIPath(path) ==
  [i \in DOMAIN path |-> [braces |-> path[i].kind \in Wildcards,
                          name |-> path[i].name]]

AddResponse(before, code, body) ==
  [g |-> body.g, responses |-> With(before.responses, code, body.s)]

ReadResponse(before, responses, code) ==
  IF code \notin DOMAIN responses THEN before
  ELSE AddResponse(before, code,
                   IF responses[code] = None THEN [g |-> before.g, s |-> None]
                   ELSE schemaFor(before.g, responses[code]))

\* The responses with the first n codes of order, the order in which the map of
\* responses is walked.
RECURSIVE responseSchemas(_, _, _, _)
responseSchemas(g, responses, order, n) ==
  IF n = 0 THEN [g |-> g, responses |-> <<>>]
  ELSE ReadResponse(responseSchemas(g, responses, order, n - 1), responses, order[n])

\* The operation of rt, whose schemas are generated one after the other.
operationOf(rt, query, body, res) ==
  [g |-> res.g,
   op |-> [parameters |-> pathParams(rt.path) \o query.params,
           requestBody |-> body.s,
           responses |-> IF res.responses = <<>> THEN With(<<>>, 200, None)
                         ELSE res.responses]]

withResponses(rt, order, query, body) ==
  operationOf(rt, query, body,
              responseSchemas(body.g, rt.responses, order, Len(order)))

withBody(rt, order, query) ==
  withResponses(rt, order, query,
                IF rt.body = None THEN [g |-> query.g, s |-> None]
                ELSE schemaFor(query.g, rt.body))

operation(g, rt, order) ==
  withBody(rt, order, IF rt.query = None THEN [g |-> g, params |-> <<>>]
                      ELSE queryParams(g, rt.query))

Shown(rt) == ~rt.hidden

AddOperation(before, rt, built) ==
  [paths |-> With(before.paths, <<openAPIPath(rt.path), rt.method>>, built.op),
   components |-> built.g]

AddRoute(before, rt, order) ==
  IF ~Shown(rt) THEN before
  ELSE AddOperation(before, rt, operation(before.components, rt, order))

\* The document of the first n routes of rs.
RECURSIVE buildOpenAPI(_, _, _)
buildOpenAPI(rs, orders, n) ==
  IF n = 0 THEN [paths |-> <<>>, components |-> <<>>]
  ELSE AddRoute(buildOpenAPI(rs, orders, n - 1), rs[n], orders[n])

\* The orders in which a map of responses may be walked.
Orders == {o \in [1 .. Cardinality(Statuses) -> Statuses] :
             \A i, j \in DOMAIN o : o[i] = o[j] => i = j}

newRoute(method, path) ==
  [method |-> method, path |-> path, hidden |-> FALSE, body |-> None,
   query |-> None, responses |-> <<>>]

serving == <<request, target, err>>

\* Router.Handle of a route that the tree accepts (RadixTree), which it does
\* not when it has one of the same shape.
Handle(method, path) ==
  /\ phase = "setup" /\ Len(routes) < MaxRoutes
  /\ \A i \in DOMAIN routes :
       routes[i].method # method \/ openAPIPath(routes[i].path) # openAPIPath(path)
  /\ routes' = Append(routes, newRoute(method, path))
  /\ UNCHANGED <<phase, metadata, doc, described, serving>>

Document(i, rt) ==
  /\ phase = "setup" /\ metadata < MaxMetadata
  /\ routes' = [routes EXCEPT ![i] = rt]
  /\ metadata' = metadata + 1
  /\ UNCHANGED <<phase, doc, described, serving>>

Hide(i) == Document(i, [routes[i] EXCEPT !.hidden = TRUE])
Body(i, t) == Document(i, [routes[i] EXCEPT !.body = t])
Query(i, t) == Document(i, [routes[i] EXCEPT !.query = t])

\* There is an entry for the status code.
resp(responses, code) ==
  IF code \in DOMAIN responses THEN responses ELSE With(responses, code, None)

Response(i, code) ==
  Document(i, [routes[i] EXCEPT !.responses = resp(@, code)])
Produces(i, code, t) ==
  Document(i, [routes[i] EXCEPT !.responses = [resp(@, code) EXCEPT ![code] = t]])

openapi == <<[kind |-> "static", name |-> "openapi.json"]>>

\* Router.OpenAPI; a second call would register its route again and panic.
OpenAPI(orders) ==
  /\ phase = "setup" /\ doc = None
  /\ doc' = buildOpenAPI(routes, orders, Len(routes))
  /\ routes' = Append(routes, [newRoute("GET", openapi) EXCEPT !.hidden = TRUE])
  /\ described' = routes
  /\ UNCHANGED <<phase, metadata, serving>>

-----------------------------------------------------------------------------
(* Binding.                                                                *)

Kept == <<"kept">>
Set(v) == <<"set", v>>

\* The value of a text for a field of type t, None if that is an error.
setScalar(t, text) ==
  LET d == Decl[t]
  IN  CASE d.kind = "string" -> Set(text)
        [] d.kind = "bool" /\ text[1] = "bool" -> Set(text[2])
        [] d.kind = "bool" /\ text \in {<<"number", 0>>, <<"number", 1>>} ->
             Set(text[2] = 1)
        [] /\ d.kind = "int" /\ text[1] = "number"
           /\ text[2] \in -(2 ^ (d.bits - 1)) .. 2 ^ (d.bits - 1) - 1 ->
             Set(text[2])
        [] /\ d.kind = "uint" /\ text[1] = "number"
           /\ text[2] \in 0 .. 2 ^ d.bits - 1 ->
             Set(text[2])
        [] d.kind = "float" /\ text[1] = "number" -> Set(text[2])
        [] OTHER -> None

\* Mutant of setField: a slice gets the first value only.
setFieldFirst(t, texts) ==
  LET first == setScalar(Decl[t].elem, texts[1])
  IN  IF Decl[t].kind # "slice" THEN setScalar(t, texts[1])
      ELSE IF first = None THEN None ELSE Set(<<first[2]>>)

setField(t, texts) ==
  LET all == [i \in DOMAIN texts |-> setScalar(Decl[t].elem, texts[i])]
  IN  IF Decl[t].kind # "slice" THEN setScalar(t, texts[1])
      ELSE IF \E i \in DOMAIN all : all[i] = None THEN None
      ELSE Set([i \in DOMAIN all |-> all[i][2]])

\* The first n fields of t, bound from values.
RECURSIVE bindFields(_, _, _, _)
bindFields(t, values, tag, n) ==
  LET before == bindFields(t, values, tag, n - 1)
      f == Decl[t].fields[n]
      name == FieldName(f, tag)
      v == setField(f.type, values[name])
  IN  IF n = 0 THEN [target |-> [i \in DOMAIN Decl[t].fields |-> Kept],
                     err |-> FALSE]
      ELSE IF before.err \/ ~Reads(f, tag) \/ name \notin DOMAIN values
      THEN before
      ELSE IF v = None THEN [before EXCEPT !.err = TRUE]
      ELSE [before EXCEPT !.target[n] = v]

\* bindValues, with a pointer to a t.
bindValues(t, values, tag) ==
  IF Decl[t].kind # "struct" THEN [target |-> <<>>, err |-> TRUE]
  ELSE bindFields(t, values, tag, Len(Decl[t].fields))

\* Request.ParseForm: the fields of an urlencoded body, then those of the query.
ParseForm(req) ==
  LET body == IF req.contentType = "urlencoded" THEN req.body ELSE <<>>
      At(f, x) == IF x \in DOMAIN f THEN f[x] ELSE <<>>
  IN  [x \in DOMAIN body \cup DOMAIN req.query |-> At(body, x) \o At(req.query, x)]

Bound(tag, t, req, parsed, result) ==
  /\ request' = [tag |-> tag, type |-> t, from |-> req, parsed |-> parsed]
  /\ target' = result.target
  /\ err' = result.err
  /\ UNCHANGED <<phase, routes, metadata, doc, described>>

BindQuery(t, req) ==
  Bound("query", t, req, TRUE, bindValues(t, req.query, "query"))

\* parsed: ParseForm finds no error.
BindForm(t, req, parsed) ==
  Bound("form", t, req, parsed,
        IF parsed THEN bindValues(t, ParseForm(req), "form")
        ELSE [target |-> [i \in DOMAIN Decl[t].fields |-> Kept], err |-> TRUE])

\* Decoding is encoding/json's; decoded: there is a body and it fits t.
BindJSON(t, req, decoded) ==
  Bound("json", t, req, decoded,
        [target |-> [i \in DOMAIN Decl[t].fields |-> Kept], err |-> ~decoded])

\* Bind goes by the Content-Type.
Bind(t, req, ok) ==
  CASE req.contentType = "json" -> BindJSON(t, req, ok)
    [] req.contentType \in {"urlencoded", "multipart"} -> BindForm(t, req, ok)
    [] OTHER -> BindQuery(t, req)

-----------------------------------------------------------------------------
Init ==
  /\ phase \in {"setup", "serving"}
  /\ routes = <<>> /\ metadata = 0 /\ doc = None /\ described = <<>>
  /\ request = None /\ target = <<>> /\ err = FALSE

Setup ==
  \/ \E method \in Methods, path \in Paths : Handle(method, path)
  \/ \E i \in DOMAIN routes :
       \/ Hide(i)
       \/ \E t \in Documented : Body(i, t) \/ Query(i, t)
       \/ \E code \in Statuses :
            Response(i, code) \/ \E t \in Documented : Produces(i, code, t)
  \/ \E orders \in [DOMAIN routes -> Orders] : OpenAPI(orders)

Serving ==
  /\ phase = "serving" /\ request = None
  /\ \E t \in BindTargets, req \in Requests, ok \in BOOLEAN :
       Bind(t, req, ok) \/ BindJSON(t, req, ok) \/ BindForm(t, req, ok)
       \/ BindQuery(t, req)

Next == Setup \/ Serving

Spec == Init /\ [][Next]_vars

-----------------------------------------------------------------------------
(* Properties.                                                             *)

\* The values of an integer type.
Range(t) ==
  IF Decl[t].kind = "uint" THEN 0 .. 2 ^ Decl[t].bits - 1
  ELSE -(2 ^ (Decl[t].bits - 1)) .. 2 ^ (Decl[t].bits - 1) - 1

\* t, and the types its values are made of.
Reach(t) ==
  LET Parts(u) == LET d == Decl[u]
                  IN  (IF d.elem = None THEN {} ELSE {d.elem}) \cup
                      {d.fields[i].type : i \in DOMAIN d.fields}
      reach[n \in Nat] ==
        IF n = 0 THEN {t} ELSE UNION {Parts(u) \cup {u} : u \in reach[n - 1]}
  IN  reach[Cardinality(Types)]

\* The types a route is documented with.
DocumentedBy(rt) ==
  ({rt.body, rt.query} \cup {rt.responses[c] : c \in DOMAIN rt.responses}) \ {None}

\* No two struct types of the document have the same name.
UniqueNames ==
  LET all == UNION {Reach(t) : t \in UNION {DocumentedBy(described[i]) :
                                              i \in DOMAIN described}}
  IN  \A t, u \in all : Decl[t].kind = "struct" /\ Decl[t].name # ""
                        /\ Decl[t].name = Decl[u].name => t = u

\* The schema of t down to depth n, without components.
RECURSIVE Shape(_, _)
Shape(given, n) ==
  LET t == deref(given)
      d == Decl[t]
      json == {i \in DOMAIN d.fields :
                 d.fields[i].exported /\ jsonField(d.fields[i]) # "-"}
      Field(x) == CHOOSE i \in json : jsonField(d.fields[i]) = x
  IN  CASE n = 0 -> schema
        [] n > 0 /\ d.kind \in {"slice", "map"} ->
             [Typed(IF d.kind = "slice" THEN "array" ELSE "object")
              EXCEPT !.items = <<Shape(d.elem, n - 1)>>]
        [] n > 0 /\ d.kind = "struct" ->
             IF t = timeType THEN Typed("date-time")
             ELSE [Typed("object") EXCEPT
                     !.properties = [x \in {jsonField(d.fields[i]) : i \in json} |->
                                       Shape(d.fields[Field(x)].type, n - 1)],
                     !.required = {jsonField(d.fields[i]) : i \in
                                     {j \in json : ~d.fields[j].omitempty /\
                                        Decl[d.fields[j].type].kind # "pointer"}}]
        [] OTHER -> ScalarSchema(d.kind)

\* A schema of the document down to depth n, with its references followed.
RECURSIVE Unfold(_, _)
Unfold(s, n) ==
  IF n = 0 THEN schema
  ELSE IF s.ref \in DOMAIN doc.components THEN Unfold(doc.components[s.ref], n)
  ELSE [s EXCEPT !.items = [i \in DOMAIN @ |-> Unfold(@[i], n - 1)],
                 !.properties = [x \in DOMAIN @ |-> Unfold(@[x], n - 1)]]

Depth == 4

\* The routes there were, but for the hidden ones.
Visible == {described[i] : i \in {j \in DOMAIN described : ~described[j].hidden}}

OperationOf(rt) == doc.paths[<<openAPIPath(rt.path), rt.method>>]

\* The document has the routes that were registered and not hidden before
\* OpenAPI was called, no others, each with its own parameters and responses
\* (buildOpenAPI, which enters them by method and path template).
RoutesDescribed ==
  doc # None =>
    /\ DOMAIN doc.paths = {<<openAPIPath(rt.path), rt.method>> : rt \in Visible}
    /\ \A rt \in Visible :
         LET op == OperationOf(rt)
             InPath(p) == p.in = "path"
             names == SelectSeq(op.parameters, InPath)
             IsWild(seg) == seg.kind \in Wildcards
             wild == SelectSeq(rt.path, IsWild)
         IN  /\ [i \in DOMAIN names |-> names[i].name] =
                  [i \in DOMAIN wild |-> wild[i].name]
             /\ DOMAIN op.responses = IF DOMAIN rt.responses = {} THEN {200}
                                      ELSE DOMAIN rt.responses
             /\ op.requestBody = None <=> rt.body = None

\* Following the references of the document one finds the types that routes
\* were documented with, recursive ones included, in whatever order maps are
\* walked, as long as struct types have different names (schemaFor).
SchemasFaithful ==
  doc # None /\ UniqueNames =>
    \A rt \in Visible :
      LET op == OperationOf(rt)
      IN  /\ rt.body # None => Unfold(op.requestBody, Depth) = Shape(rt.body, Depth)
          /\ \A c \in DOMAIN rt.responses :
               IF rt.responses[c] = None THEN op.responses[c] = None
               ELSE Unfold(op.responses[c], Depth) = Shape(rt.responses[c], Depth)

\* The document describes the routes the program has, and the types they take
\* and give (buildOpenAPI, schemaFor).
DocumentFaithful == RoutesDescribed /\ SchemasFaithful

\* What a client may send for a schema.
Example(s) ==
  CASE s.type = "integer" -> <<"number", 1>>
    [] s.type = "number" -> <<"number", 1>>
    [] s.type = "boolean" -> <<"bool", TRUE>>
    [] OTHER -> <<"word", "x">>

Scalars == {"string", "bool", "float"} \cup IntKinds

\* A client that sends the query parameters a route documents has every field
\* of the documented type set by BindQuery, if these are scalars and slices of
\* them (queryParams and bindValues, which read the tags independently).
QueryAgrees ==
  doc # None =>
    \A rt \in {r \in Visible : r.query # None} :
      LET t == deref(rt.query)
          read == {i \in DOMAIN Decl[t].fields : Reads(Decl[t].fields[i], "query")}
          Simple(u) == Decl[u].kind \in Scalars \/
                       (Decl[u].kind = "slice" /\ Decl[Decl[u].elem].kind \in Scalars)
          ps == OperationOf(rt).parameters
          query == {i \in DOMAIN ps : ps[i].in = "query"}
          Texts(s) == IF s.type = "array" THEN <<Example(s.items[1]), Example(s.items[1])>>
                      ELSE <<Example(s)>>
          values == [x \in {ps[i].name : i \in query} |->
                       Texts(ps[CHOOSE i \in query : ps[i].name = x].s)]
          b == bindValues(t, values, "query")
      IN  Decl[t].kind = "struct"
          /\ (\A i \in read : Simple(Decl[t].fields[i].type)) =>
            ~b.err /\ {i \in DOMAIN b.target : b.target[i] # Kept} = read

\* text denotes the value v of type t.
Denotes(t, text, v) ==
  CASE Decl[t].kind \in IntKinds -> text = <<"number", v>> /\ v \in Range(t)
    [] Decl[t].kind = "bool" -> \/ text[1] = "bool" /\ text[2] = v
                                \/ text[1] = "number" /\ text[2] = IF v THEN 1 ELSE 0
    [] Decl[t].kind = "float" -> text = <<"number", v>>
    [] OTHER -> text = v

\* texts cannot be a value of type t.
Refused(t, texts) ==
  LET u == IF Decl[t].kind = "slice" THEN Decl[t].elem ELSE t
      used == IF Decl[t].kind = "slice" THEN DOMAIN texts ELSE {1}
  IN  \/ Decl[u].kind \notin Scalars
      \/ \E i \in used :
           CASE Decl[u].kind = "string" -> FALSE
             [] Decl[u].kind \in IntKinds ->
                  texts[i][1] # "number" \/ texts[i][2] \notin Range(u)
             [] Decl[u].kind = "float" -> texts[i][1] # "number"
             [] Decl[u].kind = "bool" ->
                  texts[i][1] # "bool" /\ texts[i] \notin {<<"number", 0>>, <<"number", 1>>}

\* Binding a query or form fails only if it cannot be parsed or a value that is
\* there does not fit its field; otherwise every field has exactly the values sent under its name and
\* the others are left alone.  A failing bind may have set fields before it
\* failed, but to nothing else than what was sent (bindValues, setField).
BindExact ==
  request # None /\ request.tag \in {"query", "form"}
  /\ Decl[request.type].kind = "struct" =>
    LET tag == request.tag
        values == IF tag = "query" THEN request.from.query ELSE ParseForm(request.from)
        Field(i) == Decl[request.type].fields[i]
        Sent(i) == Reads(Field(i), tag) /\ FieldName(Field(i), tag) \in DOMAIN values
        Texts(i) == values[FieldName(Field(i), tag)]
        Right(i) ==
          IF Decl[Field(i).type].kind = "slice"
          THEN /\ Len(target[i][2]) = Len(Texts(i))
               /\ \A j \in DOMAIN Texts(i) :
                    Denotes(Decl[Field(i).type].elem, Texts(i)[j], target[i][2][j])
          ELSE Denotes(Field(i).type, Texts(i)[1], target[i][2])
    IN  /\ \A i \in DOMAIN target : target[i] # Kept => Sent(i) /\ Right(i)
        /\ ~err => \A i \in DOMAIN target : Sent(i) => target[i] # Kept
        /\ err /\ request.parsed =>
             \E i \in DOMAIN target : Sent(i) /\ Refused(Field(i).type, Texts(i))
=============================================================================
