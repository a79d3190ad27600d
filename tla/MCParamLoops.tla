------------------------------ MODULE MCParamLoops ------------------------------
(***************************************************************************)
(* Every style of every place, with texts that fit, that do not fit and    *)
(* that fit another style; two parameters f and g.                         *)
(***************************************************************************)
EXTENDS ParamLoops

Rule == [types |-> <<>>, props |-> <<>>, additional |-> None, items |-> "absent",
         enum |-> None, maxItems |-> 9, minItems |-> 0, uniqueItems |-> FALSE,
         required |-> {}, closed |-> FALSE, refuses |-> {}, tooSmall |-> {}]

MCSchema ==
  [any |-> [Rule EXCEPT !.refuses = {<<"x">>}],
   text |-> [Rule EXCEPT !.types = <<"string">>, !.refuses = {<<"x">>}],
   word |-> [Rule EXCEPT !.types = <<"string">>, !.enum = {<<"a">>}],
   int |-> [Rule EXCEPT !.types = <<"integer">>, !.refuses = {<<"5">>}],
   num |-> [Rule EXCEPT !.types = <<"number">>, !.enum = {<<"1">>, <<"1e3">>}],
   bool |-> [Rule EXCEPT !.types = <<"boolean">>],
   both |-> [Rule EXCEPT !.types = <<"string", "integer">>, !.tooSmall = {<<"1">>}],
   ints |-> [Rule EXCEPT !.types = <<"array">>, !.items = "int", !.maxItems = 2, !.uniqueItems = TRUE],
   words |-> [Rule EXCEPT !.types = <<"array">>, !.items = "word", !.minItems = 2],
   bools |-> [Rule EXCEPT !.types = <<"array">>, !.items = "bool"],
   blobs |-> [Rule EXCEPT !.types = <<"array">>, !.items = "obj"],
   list |-> [Rule EXCEPT !.types = <<"array">>],
   obj |-> [Rule EXCEPT !.types = <<"object">>, !.props = [a |-> "int", b |-> "text", c |-> "both"],
                        !.required = {"a"}],
   deep |-> [Rule EXCEPT !.types = <<"object">>, !.props = [a |-> "inner", c |-> "ints"],
                         !.closed = TRUE],
   inner |-> [Rule EXCEPT !.props = [b |-> "int"]],
   map |-> [Rule EXCEPT !.types = <<"object">>, !.additional = "list"],
   loose |-> [Rule EXCEPT !.types = <<"object">>, !.props = [a |-> "any"], !.additional = "ints"]]

MCSchemas == DOMAIN MCSchema

MCParses(t, type) ==
  t \in CASE type = "integer" -> {<<"0">>, <<"1">>, <<"5">>}
          [] type = "number" -> {<<"0">>, <<"1">>, <<"5">>, <<"1e3">>, <<"1", ".", "5">>}
          [] type = "boolean" -> {<<"0">>, <<"1">>, <<"true">>, <<"false">>}

MCInt64(t) == IF MCParses(t, "integer") THEN t ELSE <<"0">>

MCJson(t) ==
  CASE t = <<"json">> -> Object(<<"a">> :> Scalar("integer", <<"1">>))
    [] t = <<"bad json">> -> Object(<<"a">> :> Scalar("string", <<"x">>))
    [] t = <<"{}">> -> Object(<<>>)
    [] t = <<"nameless json">> -> Object(EmptyKey :> Empty)
    [] t = <<"null">> -> Null
    [] MCParses(t, "number") -> Scalar("integer", t)
    [] OTHER -> None

\* What JSON Schema says.
IsOfType(s, type) ==
  LET types == Types(s)
  IN  types = {} \/ type \in types \/ (type = "integer" /\ "number" \in types)

\* A number is of each kind its text can be parsed as.
KindsOf(v) == IF v.type \in Numeric THEN {k \in Numeric : MCParses(v.text, k)} ELSE {v.type}
ValueOf(v) == IF v.type \in Numeric THEN Scalar("number", v.text) ELSE v

AcceptsScalar(s, v) ==
  /\ \E kind \in KindsOf(v) : IsOfType(s, kind)
  /\ v.type = "boolean" => MCParses(v.text, v.type)
  /\ Schema[s].enum = None \/ v.text \in Schema[s].enum
  /\ v.text \notin Schema[s].refuses
  /\ v.type \in Numeric => v.text \notin Schema[s].tooSmall

AcceptsArray(s, v) ==
  LET rule == Schema[s]
  IN  /\ IsOfType(s, "array")
      /\ Len(v.items) \in rule.minItems .. rule.maxItems
      /\ rule.uniqueItems => IsInjective([n \in DOMAIN v.items |-> ValueOf(v.items[n])])
      /\ rule.items \in Schemas => \A n \in DOMAIN v.items : AcceptsScalar(rule.items, v.items[n])

AcceptsLeaf(s, v) == IF v.type = "array" THEN AcceptsArray(s, v) ELSE AcceptsScalar(s, v)
AcceptsMember(s, v) == s = None \/ AcceptsLeaf(s, v)

AcceptsObject(s, v) ==
  LET given == {path[1] : path \in DOMAIN v.members}
  IN  /\ IsOfType(s, "object")
      /\ Schema[s].required \subseteq given
      /\ Schema[s].closed => given \subseteq DOMAIN Schema[s].props
      /\ \A path \in DOMAIN v.members :
           /\ \A n \in 1 .. Len(path) - 1 : IsOfType(SchemaAt(s, SubSeq(path, 1, n)), "object")
           /\ AcceptsMember(SchemaAt(s, path), v.members[path])

MCConforms(s, v) == IF v.type = "object" THEN AcceptsObject(s, v) ELSE AcceptsLeaf(s, v)

SomeScalars == {Scalar("string", <<"1">>), Scalar("integer", <<"1">>), Scalar("number", <<"1">>),
                Scalar("number", <<"1", ".", "5">>), Scalar("boolean", <<"true">>)}
SomeArrays == {Array(items) : items \in SeqOf({Scalar("integer", <<"1">>), Scalar("number", <<"1">>)}, 2)}

\* These schemas judge objects of up to two members as JSON Schema does.
ASSUME MCConformsAsJson ==
  ConformsAsJson(UNION {[paths -> SomeScalars \cup SomeArrays] :
                          paths \in {{<<"a">>}, {<<"b">>, <<"a">>}, {<<"a", "b">>, <<"c">>}}})

--------------------------------------------------------------------------------
(* Parameters.                                                             *)

F == <<"f">>
G == <<"g">>

P(name, in, schema, style, explode, required) ==
  [name |-> name, in |-> in, schema |-> schema, content |-> None, json |-> FALSE,
   style |-> style, explode |-> explode, required |-> required, reserved |-> FALSE]

Content(name, schema, json, style) ==
  [P(name, "query", None, style, "", TRUE) EXCEPT !.content = schema, !.json = json]

Call(place, params, sent, pieces, strict) ==
  [place |-> place, params |-> params, sent |-> sent, pieces |-> pieces, strict |-> strict,
   ignored |-> {<<"i">>}, security |-> <<{"key", "cert"}>>]

MCHeaderOf == [key |-> <<"k">>, cert |-> None]

MCNames == {F, G, <<"f", "a">>, <<"f", "b">>, <<"f", "c">>, <<"f", "a", "b">>, <<"f", "">>,
            <<"i">>, <<"k">>, <<"a">>, <<"b">>}

QueryScalars ==
  {P(F, "query", s, "", "", TRUE) : s \in {"text", "word", "int", "num", "bool", "both", "any"}}
  \cup {[P(F, "query", "text", "", "yes", FALSE) EXCEPT !.reserved = r] : r \in BOOLEAN}

QueryArrays ==
  {P(F, "query", s, "", "", FALSE) : s \in {"ints", "words", "blobs", "list"}}
  \cup {P(F, "query", "ints", style, explode, FALSE) :
          style \in {"form", "pipeDelimited", "deepObject"}, explode \in {"yes", "no"}}

QueryObjects ==
  {P(F, "query", s, "deepObject", "", s = "obj") : s \in {"obj", "deep", "map", "loose"}}
  \cup {P(<<"f", "a">>, "query", "obj", "deepObject", "", FALSE)}
  \cup {P(F, "query", "obj", style, "no", FALSE) : style \in {"form", "pipeDelimited", "spaceDelimited"}}
  \cup {P(F, "query", "obj", "", "", TRUE)}

QueryContents ==
  {Content(F, s, TRUE, "") : s \in {"obj", "ints", "int"}} \cup {Content(F, "obj", FALSE, ""), Content(F, None, FALSE, "")}

QueryG == P(G, "query", "int", "", "", TRUE)
OptionalG(place) == P(G, place, "num", "", "", FALSE)
HeaderG == P(G, "header", "int", "", "", TRUE)

Texts == {<<>>, <<"1">>, <<"5">>, <<"x">>, <<" ", "a">>, <<"1e3">>, <<"1", ".", "5">>, <<"true">>, <<"1", "/">>}
Lists == {<<"1", ",", "1">>, <<"1", ",", "0">>, <<"a", ",", "a">>, <<"1", ",", "0", ",", "5">>, <<"1", "|", "x">>}
Pairs == {<<"a", ",", "1">>, <<"a", ",", "x">>, <<"a", ",", "1e3", ",", "b", ",", "5">>,
          <<"b", ",", "x", ",", "a", ",", "1">>, <<"a", "|", "1">>, <<"a", " ", "1", " ", "b", " ", "x">>,
          <<"a", "=", "1">>, <<"a", "=", "1", ",", "b", "=", "1">>}
Jsons == {<<"json">>, <<"bad json">>, <<"{}">>, <<"nameless json">>, <<"null">>}

Once(t) == <<t>>
QuerySent ==
  {<<>>, G :> Once(<<"1">>), <<"f", "">> :> Once(<<"1">>), <<"a">> :> Once(<<"x">>)}
  \cup {F :> Once(t) : t \in Texts \cup Lists \cup Pairs \cup Jsons}
  \cup {(F :> <<t, u>>) @@ (G :> Once(<<"x">>)) : t, u \in {<<"1">>, <<"x">>, <<"json">>}}
  \cup {F :> <<<<"a", ",", "1">>, t>> : t \in {<<"a", ",", "1">>, <<"a", ",", "x">>, <<"1", ",", "5">>}}
  \cup {(<<"a">> :> Once(t)) @@ (<<"b">> :> Once(u)) @@ (G :> Once(<<"1">>)) : t, u \in {<<"1">>, <<"x">>}}

DeepKeySets == {{<<"f", "a">>}, {<<"f", "a">>, <<"f", "b">>}, {<<"f", "a">>, <<"f", "c">>}, {<<"f", "a", "b">>, <<"f", "c">>},
                {<<"f", "a">>, <<"f", "a", "b">>}, {F, <<"f", "a">>}}

DeepSent ==
  UNION {[keys -> {Once(<<"1">>), Once(<<"x">>), Once(<<"1e3">>), <<<<"1">>, <<"0">>>>}] : keys \in DeepKeySets}
  \cup [{F, <<"f", "a", "b">>, G} -> {Once(<<"1">>), Once(<<"x">>)}]

QueryCalls ==
  {Call("query", params, sent, <<>>, TRUE) :
     params \in {<<p, QueryG>> : p \in QueryScalars} \cup {<<HeaderG, QueryG>>, <<QueryG, HeaderG>>}
                  \cup {<<p, OptionalG("query")>> : p \in QueryArrays \cup QueryContents},
     sent \in QuerySent}
  \cup
  {Call("query", params, sent, <<>>, FALSE) :
     params \in {<<HeaderG, p, OptionalG("query")>> : p \in QueryObjects}
                  \cup {<<P(<<"f", "a">>, "query", "text", "", "", FALSE), p>> : p \in QueryObjects},
     sent \in QuerySent \cup DeepSent}

--------------------------------------------------------------------------------
TextParams(place) ==
  {P(F, place, s, "", explode, TRUE) : s \in MCSchemas \ {"inner", "map", "deep", "loose"}, explode \in {"", "yes"}}
  \cup {P(F, place, None, "", "", TRUE), P(F, place, "obj", "form", "", FALSE)}

TextSent ==
  {<<>>, G :> Once(<<"1">>), <<"k">> :> Once(<<"1">>), <<"i">> :> Once(<<"1">>)}
  \cup {(F :> Once(t)) @@ (G :> Once(<<"1">>)) : t \in Texts \cup Lists \cup Pairs}
  \cup {F :> <<<<"a">>, <<"x">>>>}

TextCalls ==
  UNION {{Call(place, <<QueryG, p, OptionalG(place)>>, sent, <<>>, TRUE) :
            p \in TextParams(place), sent \in TextSent} : place \in {"header", "cookie"}}

--------------------------------------------------------------------------------
Piece(name, form, text) ==
  [name |-> name, form |-> form, pattern |-> FALSE, matches |-> TRUE, text |-> text]

PathParams ==
  {P(F, "path", s, style, explode, TRUE) :
     s \in MCSchemas \ {"inner", "map", "deep", "loose", "blobs"},
     style \in {"", "label", "matrix", "form"}, explode \in {"", "yes"}}
  \cup {P(F, "path", None, "", "", FALSE)}

Introduced(form, t) ==
  CASE form = "label" -> <<".">> \o t
    [] form = "matrix" -> <<";", "f", "=">> \o t
    [] OTHER -> t

PathTexts ==
  {<<"1">>, <<"5">>, <<"x">>, <<"true">>, <<"1", ",", "0">>, <<"1", ".", "x">>, <<"1", ";", "f", "=", "x">>,
   <<"a", ",", "1">>, <<"a", "=", "1">>, <<"a", "=", "x", ".", "b", "=", "1">>}

PiecesFor(p) ==
  LET form == IF p.style \in {"label", "matrix"} THEN p.style ELSE "simple"
  IN  {Piece(F, form, Introduced(form, t)) : t \in PathTexts}
      \cup {Piece(F, "simple", t) : t \in {<<>>, <<"1">>}}
      \cup {[Piece(F, "simple", <<"x">>) EXCEPT !.pattern = TRUE, !.matches = b] : b \in BOOLEAN}

PathCalls ==
  UNION {{Call("path", <<p, P(G, "path", "int", "", "", TRUE)>>, <<>>, <<piece, Piece(G, "simple", g)>>, FALSE) :
            piece \in PiecesFor(p), g \in {<<"1">>, <<"x">>}} : p \in PathParams}

MCTasks == QueryCalls \cup TextCalls \cup PathCalls
===============================================================================
