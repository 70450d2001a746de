------------------------------- MODULE MCApi -------------------------------
(***************************************************************************)
(* An instance of Api for TLC.                                             *)
(***************************************************************************)
EXTENDS Api

Plain(kind, bits) ==
  [kind |-> kind, name |-> "", bits |-> bits, elem |-> None, fields |-> <<>>]
Of(kind, elem) == [Plain(kind, 0) EXCEPT !.elem = elem]
Struct(name, fields) == [Plain("struct", 0) EXCEPT !.name = name, !.fields = fields]

Field(name, type) ==
  [name |-> name, exported |-> TRUE, json |-> "", omitempty |-> FALSE,
   query |-> "", form |-> "", type |-> type]

\* User holds a list of Users; User2 is a User of another package; Filter has
\* fields of every kind that binding knows, tagged and not.
MCDecl ==
  [string |-> Plain("string", 0), bool |-> Plain("bool", 0),
   int8 |-> Plain("int", 8), uint8 |-> Plain("uint", 8),
   int8s |-> Of("slice", "int8"), User |->
     Struct("User", <<[Field("Friends", "users") EXCEPT !.json = "friends"],
                      [Field("Name", "string") EXCEPT !.omitempty = TRUE],
                      [Field("Best", "userp") EXCEPT !.query = "-"],
                      [Field("secret", "string") EXCEPT !.exported = FALSE]>>),
   User2 |-> Struct("User", <<Field("Id", "int8")>>),
   users |-> Of("map", "User"), userp |-> Of("pointer", "User"),
   Team |-> Struct("Team", <<Field("Members", "users"),
                             [Field("Hidden", "bool") EXCEPT !.json = "-"],
                             Field("Lead", "anon"), Field("Since", "Time")>>),
   anon |-> Struct("", <<Field("User", "userp")>>),
   Time |-> Struct("Time", <<>>),
   Filter |-> Struct("Filter", <<[Field("A", "int8") EXCEPT !.query = "b", !.json = "a"],
                                 [Field("B", "int8s") EXCEPT !.query = "a", !.form = "b"],
                                 [Field("c", "string") EXCEPT !.exported = FALSE],
                                 [Field("C", "bool") EXCEPT !.query = "-"],
                                 [Field("D", "uint8") EXCEPT !.form = "a"]>>)]
MCTypes == DOMAIN MCDecl

Static(name) == [kind |-> "static", name |-> name]
Param(name) == [kind |-> "param", name |-> name]

\* A static path, and one with both kinds of wildcard.
MCPaths == {<<Static("a")>>,
            <<Static("a"), Param("id"), [Param("p") EXCEPT !.kind = "catch-all"]>>}

Texts == {<<"number", 1>>, <<"number", -128>>, <<"number", 128>>,
          <<"number", 256>>, <<"bool", TRUE>>, <<"word", "x">>}

\* Up to two names, with one or two values each.
MCForms ==
  {<<>>} \cup
  UNION {[names -> {<<x>> : x \in Texts}] :
           names \in {{"a"}, {"C"}, {"a", "b"}, {"D", "c"}}} \cup
  [{"a"} -> {<<x, y>> : x, y \in Texts}]

Request(type, query, body) ==
  [contentType |-> type, query |-> query, body |-> body]

\* A body counts for something only when it is urlencoded.
MCRequests ==
  {Request(type, query, <<>>) : type \in {"json", "multipart", ""}, query \in MCForms}
  \cup {Request("urlencoded", query, body) :
          query \in [{"a"} -> {<<x>> : x \in Texts}] \cup {<<>>}, body \in MCForms}
=============================================================================
