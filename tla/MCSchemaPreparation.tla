-------------------------- MODULE MCSchemaPreparation --------------------------
(***************************************************************************)
(* Scalars with every combination of keywords, objects that require        *)
(* hidden properties wherever a schema can be, nullable schemas that       *)
(* combine others, and documents that refer to each other in circles.      *)
(***************************************************************************)
EXTENDS SchemaMeaning

Integer(n) == [type |-> "integer", n |-> n]
Text(t) == [type |-> "string", text |-> t]
True == [type |-> "boolean", is |-> TRUE]
Object(members) == [type |-> "object", members |-> members]
Items(items) == [type |-> "array", items |-> items]

MCParses(t, type) == IF type = "boolean" THEN t = "true" ELSE t = "5"
MCDenoted(t, type) == IF type = "boolean" THEN True ELSE Integer(5)

Flat == {Object(<<>>)} \cup
        UNION {{Object("id" :> v), Object("pw" :> v), Object("id" :> v @@ "pw" :> Text("x"))} :
                 v \in {Text("x"), Integer(5), Null}}
MCValues ==
  {Null, True, Text("true"), Text("5"), Text("x")} \cup {Integer(n) : n \in 4 .. 6} \cup Flat
  \cup {Object("kid" :> v) : v \in Flat \cup {Null}}
  \cup {Items(<<v>>) : v \in Flat}
  \cup {Object("type" :> v) : v \in {True, Text("true"), Text("x")}}
  \cup {Object("properties" :> v) : v \in {Text("x"), Integer(5)}}

--------------------------------------------------------------------------------
(* Rules.  Nodes are named by document and pointer.                        *)

R == [NoRule EXCEPT !.doc = "api"]
Of(types) == [R EXCEPT !.types = types]
RefTo(n) == [R EXCEPT !.ref = n]
Struct(props) == [R EXCEPT !.types = {"object"}, !.props = props]
NullableOf(r) == [r EXCEPT !.nullable = "true"]

ScalarRules ==
  {[Of(types) EXCEPT !.nullable = null, !.enum = enum, !.minimum = bound[1], !.exclusive = bound[2]] :
     types \in {{}, {"string"}, {"boolean"}, {"integer"}, {"boolean", "integer"}, {"string", "integer"}},
     null \in {"absent", "true", "false"},
     enum \in {{}, {Integer(5)}},
     bound \in {<<{}, "absent">>, <<{5}, "absent">>, <<{5}, "true">>, <<{5}, "false">>, <<{}, "true">>}}

ScalarTasks ==
  [rules : {"root" :> r : r \in ScalarRules}, root : {"root"}, purpose : {"generic"},
   version : {"3.0", "3.1"}, coerce : BOOLEAN]

--------------------------------------------------------------------------------
ReadOnly == [Of({"string"}) EXCEPT !.readOnly = TRUE]
WriteOnly == [Of({"string"}) EXCEPT !.writeOnly = TRUE]

\* What is said of id, next to a password that is writeOnly.
IdRules ==
  {"id" :> Of({"string"}), "id" :> ReadOnly,
   "id" :> [R EXCEPT !.allOf = <<"id/0">>] @@ "id/0" :> ReadOnly,
   "id" :> [R EXCEPT !.anyOf = <<"id/0", "id/1">>] @@ "id/0" :> Of({"integer"}) @@ "id/1" :> ReadOnly,
   "id" :> RefTo("Id") @@ "Id" :> ReadOnly,
   "id" :> [RefTo("Id") EXCEPT !.readOnly = TRUE] @@ "Id" :> Of({"string"}),
   "id" :> RefTo("Id") @@ "Id" :> [Of({"integer"}) EXCEPT !.doc = "ids"]}

Account(required) ==
  "account" :> [Struct("id" :> "id" @@ "pw" :> "pw") EXCEPT !.required = required] @@ "pw" :> WriteOnly

\* Where the account is.
Places ==
  {"root" :> Struct("kid" :> "account"),
   "root" :> Struct("kid" :> "kid") @@ "kid" :> RefTo("account"),
   "root" :> [Of({"array"}) EXCEPT !.items = "account"],
   "root" :> [R EXCEPT !.allOf = <<"root/0", "account">>] @@ "root/0" :> [R EXCEPT !.required = {"pw"}],
   "root" :> [R EXCEPT !.oneOf = <<"account", "root/1">>] @@ "root/1" :> Of({"integer"}),
   "root" :> [R EXCEPT !.anyOf = <<"root/0", "account">>] @@ "root/0" :> RefTo("text") @@ "text" :> Of({"string"}),
   "root" :> [R EXCEPT !.not = "account"]}

ObjectTasks ==
  [rules : {place @@ id @@ Account(required) :
              place \in Places, id \in IdRules, required \in {{}, {"id"}, {"id", "pw"}}},
   root : {"root"}, purpose : {"generic", "request", "response"}, version : {"3.1"}, coerce : {FALSE}]

--------------------------------------------------------------------------------
\* Nullable schemas that combine others; a choice; a discriminator; a property
\* named type.
Combinations ==
  {"root" :> NullableOf([R EXCEPT !.allOf = <<"a">>, !.types = types]) @@ "a" :> a :
     types \in {{}, {"object"}},
     a \in {Struct("id" :> "s"), NullableOf(Struct("id" :> "s")), [R EXCEPT !.props = "id" :> "s"]}}
  \cup
  {"root" :> NullableOf([R EXCEPT !.oneOf = <<"a", "s">>]) @@ "a" :> Struct("id" :> "s"),
   "root" :> NullableOf([R EXCEPT !.oneOf = <<"a">>, !.allOf = <<"a">>]) @@ "a" :> Struct("id" :> "s"),
   "root" :> NullableOf([Struct("id" :> "s") EXCEPT !.discriminator = "id"]),
   "root" :> [Struct("id" :> "s") EXCEPT !.discriminator = "id"],
   "root" :> Struct("kid" :> "a" @@ "id" :> "s") @@ "a" :> NullableOf([R EXCEPT !.allOf = <<"b">>])
     @@ "b" :> Struct("id" :> "s"),
   "root" :> Struct("type" :> "a") @@ "a" :> Of({"boolean"})}

CombinationTasks ==
  [rules : {c @@ "s" :> NullableOf(Of({"string"})) : c \in Combinations},
   root : {"root"}, purpose : {"generic", "request"}, version : {"3.0"}, coerce : BOOLEAN]

--------------------------------------------------------------------------------
(* Documents.                                                              *)

In(doc, r) == [r EXCEPT !.doc = doc]

Libraries ==
  {"root" :> Struct("kid" :> "k" @@ "id" :> "i") @@ "k" :> RefTo("Pet") @@ "i" :> RefTo("Id")
     @@ "Pet" :> In("pets", Struct("kid" :> "p" @@ "id" :> "q")) @@ "p" :> In("pets", RefTo(back))
     @@ "q" :> In("pets", RefTo("Id"))
     @@ "Id" :> In("ids", [R EXCEPT !.anyOf = <<"t">>]) @@ "t" :> In("ids", RefTo("Text"))
     @@ "Text" :> In("texts", Of({"string"})) : back \in {"root", "Pet"}}
  \cup {"root" :> Struct(name :> "k" @@ "id" :> "i") @@ "k" :> RefTo("Text") @@ "i" :> RefTo("Id")
          @@ "Id" :> Of({"integer"}) @@ "Text" :> In("texts", Of({"string"})) : name \in {"properties", "pw"}}

LibraryTasks ==
  [rules : Libraries, root : {"root"}, purpose : {"generic", "request"}, version : {"3.0", "3.1"},
   coerce : BOOLEAN]

MCTasks == ScalarTasks \cup ObjectTasks \cup CombinationTasks \cup LibraryTasks
================================================================================
