------------------------------- MODULE ParamLoops -------------------------------
(***************************************************************************)
(* The four loops over the parameters of an operation:                     *)
(* ValidatePathParams, ValidateQueryParams, ValidateHeaderParams and       *)
(* ValidateCookieParams ...WithPathItem, one parameter at a time.          *)
(*                                                                         *)
(* The name of a parameter, a header, a cookie or a query key is a         *)
(* sequence of words: f[a][b] is <<"f", "a", "b">>.  A behaviour is one    *)
(* call of one of the four validators.                                     *)
(***************************************************************************)
EXTENDS ParamReading

CONSTANTS Tasks,       \* the calls: parameters of the document and a request
          Names,       \* names of parameters, headers, cookies and query keys
          HeaderOf     \* the header each security scheme looks at, or None

Places == {"path", "query", "header", "cookie"}
Kinds == {"missing", "undeclared", "schema", "enum", "integer", "number", "boolean",
          "emptyKey", "undecodable", "json", "reserved", "repeated", "delimiter",
          "pathConflict", "maxItems", "minItems", "uniqueItems"}

\* A name has at least one word, and what was sent under it at least one text.
ASSUME ParamLoopsAssumption ==
  /\ None \notin Schemas
  /\ \A s \in Schemas : Schema[s].types \in Seq(STRING)
  /\ Names \subseteq Seq(STRING) \ {<<>>}
  /\ \A t \in Tasks :
       /\ t.place \in Places
       /\ Len(t.params) \in Nat
       /\ DOMAIN t.params = 1 .. Len(t.params)
       /\ \A p \in Range(t.params) : /\ p.name \in Names /\ p.required \in BOOLEAN
                                      /\ {p.schema, p.content} \subseteq Schemas \cup {None}
       /\ DOMAIN t.sent \subseteq Names /\ IsFiniteSet(DOMAIN t.sent)
       /\ \A name \in DOMAIN t.sent : t.sent[name] \in Seq(Seq(STRING)) /\ t.sent[name] # <<>>
       /\ \A texts \in Range(t.sent) : \A text \in Range(texts) :
            Json(text) # None /\ Json(text).type = "object" => Json(text) = Object(Json(text).members)
       /\ t.strict \in BOOLEAN

VARIABLES task,     \* the call
          order,    \* the keys of the query in the order Go iterates over them
          pc, i,    \* where the loop is
          faults    \* the errors so far: of which name, and of which kind

vars == <<task, order, pc, i, faults>>

Param == task.params[i]

\* IsExploded, IsDefaultFormEncoding, IsDefaultHeaderEncoding, IsDefaultPathEncoding
\* of libopenapi.
IsExploded(p) == p.explode = "yes"
IsDefaultFormEncoding(p) == p.style \in {"", "form"} /\ p.explode # "no"
IsDefaultSimpleEncoding(p) == p.style \in {"", "simple"} /\ p.explode # "yes"

ContentWrapped(p) == p.schema = None
SchemaOf(p) == IF ContentWrapped(p) THEN p.content ELSE p.schema

HasItemsSchema(s) == Schema[s].items \in Schemas

--------------------------------------------------------------------------------
(* The query.                                                              *)

\* ParseDeepObjectKey: a name in brackets is not empty.
IsDeepObjectKey(key) == Len(key) > 1 /\ NoWord \notin Range(Tail(key))

\* Mutant: what is in brackets is not looked at.
EntryOfWholeKey(key) == [name |-> key, path |-> <<>>, values |-> task.sent[key]]

\* The entry of a key: literal if a parameter has that name.
EntryOf(key) ==
  LET literal == \E p \in Range(task.params) : p.in = "query" /\ p.name = key
      deep == ~literal /\ IsDeepObjectKey(key)
  IN  [name |-> IF deep THEN <<key[1]>> ELSE key,
       path |-> IF deep THEN Tail(key) ELSE <<>>,
       values |-> task.sent[key]]

\* queryParams, in the order of the keys; and its entries for one name.
EntriesIn(keys) == [k \in DOMAIN keys |-> EntryOf(keys[k])]
EntriesFor(p, keys) ==
  LET found[n \in 0..Len(keys)] ==
        IF n = 0 THEN <<>>
        ELSE IF EntryOf(keys[n]).name = p.name THEN Append(found[n - 1], EntryOf(keys[n]))
        ELSE found[n - 1]
  IN  found[Len(keys)]

\* ValidateQueryParamStyle
StyleFaults(p, es) ==
  CASE p.style = "deepObject" ->
         IF DeepObjectPathConflict(es) THEN {"pathConflict"}
         ELSE IF \E e \in Range(es) : Len(e.values) > 1 /\ ~DeepObjectAllowsMultipleValues(p.schema, e)
           THEN {"repeated"} ELSE {}
    [] p.style \in {"pipeDelimited", "spaceDelimited"} ->
         IF ~IsExploded(p) /\ \E e \in Range(es) : Len(e.values) > 1 THEN {"repeated"} ELSE {}
    [] p.style \in {"", "form"} ->
         IF p.explode = "yes" /\ \E e \in Range(es) : \E t \in Range(e.values) : "," \in Range(t)
           THEN {"delimiter"} ELSE {}
    [] OTHER -> {}

\* An object of JSON content, by its name, is an object in Go as well; null is a
\* map that is nil, for which nothing is checked.
JsonFaults(s, t) ==
  IF Json(t) = Null THEN {}
  ELSE IF Json(t) = None \/ Json(t).type # "object" THEN {"json"}
  ELSE AgainstObject(s, Json(t).members)

QueryObjectFaults(p, es, t) ==
  LET s == SchemaOf(p)
  IN  CASE p.style = "deepObject" -> AgainstObject(s, DeepObject(es, s))
        [] p.style \notin {"deepObject", "pipeDelimited", "spaceDelimited"} /\ ContentWrapped(p) ->
             JsonFaults(s, t)
        [] OTHER -> AgainstObject(s, OneTextObject(es, p.style, s))

\* ValidateQueryArray: how one text is taken apart.
QueryItems(p, t) ==
  CASE ~IsExploded(p) /\ p.style \in {"", "form"} /\ ContentWrapped(p) -> <<t>>
    [] ~IsExploded(p) /\ p.style \notin {"", "form", "pipeDelimited", "spaceDelimited"} -> <<>>
    [] OTHER -> ExplodeQueryValue(t, p.style)

\* One text of a query parameter, as one of the types of its schema.
QueryFaults(p, es, t, type) ==
  LET s == SchemaOf(p)
  IN  CASE type \in {"string", "integer", "number"} ->
             Then(ParseFaults(t, type), Then(EnumFaults(s, t), AgainstSchema(s, Scalar(type, t))))
        [] type = "boolean" -> ParseFaults(t, type)
        [] type = "object" -> QueryObjectFaults(p, es, t)
        [] type = "array" -> IF HasItemsSchema(s) THEN QueryArrayFaults(s, QueryItems(p, t)) ELSE {}
        [] OTHER -> {}

\* Where the loops over entries, texts and types are; at type 0 the text is
\* checked for reserved characters.
Positions(p, es) ==
  UNION {{<<e, v, y>> : v \in DOMAIN es[e].values, y \in 0 .. Len(Schema[SchemaOf(p)].types)} :
           e \in DOMAIN es}

Before(x, y) == \/ x[1] < y[1]
                \/ x[1] = y[1] /\ x[2] < y[2]
                \/ x[1] = y[1] /\ x[2] = y[2] /\ x[3] < y[3]

FaultsAt(p, es, x) ==
  LET t == es[x[1]].values[x[2]]
  IN  IF x[3] > 0 THEN QueryFaults(p, es, t, Schema[SchemaOf(p)].types[x[3]])
      ELSE IF ~p.reserved /\ IsExploded(p) /\ HasReserved(t) THEN {"reserved"} ELSE {}

\* break skipValues
Stops(p, es, x) ==
  /\ x[3] > 0
  /\ Schema[SchemaOf(p)].types[x[3]] = "object"
  /\ FaultsAt(p, es, x) # {}

SentQueryFaults(p, es) ==
  StyleFaults(p, es) \cup
  UNION {FaultsAt(p, es, x) :
           x \in {y \in Positions(p, es) : \A z \in Positions(p, es) : Before(z, y) => ~Stops(p, es, z)}}

\* A parameter without a schema, or an object whose content is not JSON.
QueryPanics(p) ==
  \/ SchemaOf(p) = None
  \/ /\ ContentWrapped(p) /\ ~p.json
     /\ p.style \notin {"deepObject", "pipeDelimited", "spaceDelimited"}
     /\ "object" \in Types(SchemaOf(p))

\* An absent object whose members may be parameters of their own.
ReadsWholeQuery(p) ==
  /\ p.schema # None
  /\ Schema[p.schema].types # <<>>
  /\ Head(Schema[p.schema].types) = "object"
  /\ IsDefaultFormEncoding(p)

--------------------------------------------------------------------------------
(* Headers and cookies.                                                    *)

\* request.Header.Get: the first of a name, and "" for none.
HeaderText(name) == IF name \in DOMAIN task.sent THEN task.sent[name][1] ELSE <<>>

\* cookieMap: the last of a name.
CookieText(name) == Last(task.sent[name])

\* The types that headers and cookies treat alike.  A number is not held to the
\* schema, only to its enumeration.
TextFaults(p, t, type) ==
  LET s == p.schema
  IN  CASE type \in {"integer", "number"} -> Then(ParseFaults(t, type), EnumFaults(s, t))
        [] type = "boolean" -> ParseFaults(t, type)
        [] type = "string" -> Then(EnumFaults(s, t), AgainstSchema(s, Scalar("string", t)))
        [] type = "array" -> IF IsExploded(p) \/ ~HasItemsSchema(s) THEN {} ELSE CsvArrayFaults(s, t)
        [] OTHER -> {}

HeaderObject(p, t) ==
  CASE IsDefaultSimpleEncoding(p) -> Alternating(t, ",", p.schema)
    [] IsExploded(p) -> KeyValues(t, ",", p.schema)
    [] OTHER -> <<>>

HeaderObjectFaults(p, t) ==
  IF DOMAIN HeaderObject(p, t) = {} THEN {"undecodable"} ELSE AgainstObject(p.schema, HeaderObject(p, t))

HeaderFaults(p, t, type) ==
  IF type = "object" THEN HeaderObjectFaults(p, t) ELSE TextFaults(p, t, type)

\* A header of no type is a string.
SentHeaderFaults(p) ==
  LET t == HeaderText(p.name)
      types == Types(p.schema)
  IN  IF types = {} THEN AgainstSchema(p.schema, Scalar("string", t))
                    ELSE UNION {HeaderFaults(p, t, type) : type \in types}

CookieObjectFaults(p, t) ==
  IF IsExploded(p) THEN {} ELSE AgainstObject(p.schema, Alternating(t, ",", p.schema))

SentCookieFaults(p) ==
  LET t == CookieText(p.name)
  IN  UNION {IF type = "object" THEN CookieObjectFaults(p, t) ELSE TextFaults(p, t, type) :
               type \in Types(p.schema)}

\* No schema, or an array without items.
TextPanics(p) ==
  \/ p.schema = None
  \/ "array" \in Types(p.schema) /\ ~IsExploded(p) /\ Schema[p.schema].items = "absent"

--------------------------------------------------------------------------------
(* The path.                                                               *)

\* The text of a label or a matrix without what introduces it.
Bare(p, form, t) ==
  CASE form = "label" -> Tail(t)
    [] form = "matrix" -> StripName(t, p.name)
    [] OTHER -> t

\* resolveInteger, resolveNumber: bare only if the style says the same.
ScalarText(p, piece) ==
  IF piece.form = p.style THEN Bare(p, piece.form, piece.text) ELSE piece.text

\* An enumeration is all that is checked.
EnumOrSchema(s, t, type) ==
  IF Schema[s].enum # None THEN EnumFaults(s, t) ELSE AgainstSchema(s, Scalar(type, t))

PathObject(p, t) ==
  CASE p.style = "label" -> IF IsExploded(p) THEN KeyValues(t, ".", p.schema)
                                             ELSE Alternating(Tail(t), ",", p.schema)
    [] p.style = "matrix" -> IF IsExploded(p) THEN KeyValues(StripName(t, p.name), ";", p.schema)
                                              ELSE Alternating(StripName(t, p.name), ",", p.schema)
    [] p.style \notin {"label", "matrix"} /\ IsExploded(p) -> KeyValues(t, ",", p.schema)
    [] OTHER -> Alternating(t, ",", p.schema)

\* A style that is no style of a path decodes to nothing, not to an object.
PathObjectFaults(p, t) ==
  IF p.style \in {"", "simple", "label", "matrix"} \/ IsExploded(p)
    THEN AgainstObject(p.schema, PathObject(p, t))
    ELSE AgainstBlob(p.schema, <<>>)

PathItems(p, piece) ==
  LET t == piece.text
  IN  CASE piece.form = "label" -> Split(Tail(t), IF IsExploded(p) THEN "." ELSE ",")
        [] piece.form = "matrix" -> IF IsExploded(p) THEN Split(StripNames(t, p.name), ";")
                                                     ELSE Split(StripName(t, p.name), ",")
        [] OTHER -> Split(t, ",")

PathItemFaults(t, type) ==
  CASE type \in {"integer", "number"} -> ParseFaults(t, type)
    [] type = "boolean" -> BooleanItemFaults(t)
    [] OTHER -> {}

PathFaults(p, piece, type) ==
  LET s == p.schema
      t == piece.text
  IN  CASE type = "string" -> EnumOrSchema(s, t, type)
        [] type \in {"integer", "number"} ->
             Then(ParseFaults(ScalarText(p, piece), type), EnumOrSchema(s, ScalarText(p, piece), type))
        [] type = "boolean" ->
             IF piece.form \in {"simple", p.style} THEN ParseFaults(Bare(p, piece.form, t), type) ELSE {}
        [] type = "object" -> PathObjectFaults(p, t)
        [] type = "array" ->
             IF HasItemsSchema(s)
               THEN UNION {PathItemFaults(PathItems(p, piece)[n], itemType) :
                             n \in DOMAIN PathItems(p, piece), itemType \in Types(Schema[s].items)}
               ELSE {}
        [] OTHER -> {}

\* The pieces of the template in braces that have the name: {name:pattern} has
\* another one.
PiecesOf(p) == {piece \in Range(task.pieces) : piece.name = p.name /\ ~piece.pattern}

\* Mutant: an empty text is always passed over.
EmptyPiecePassedOver(p, piece) ==
  IF piece.text = <<>> THEN {} ELSE UNION {PathFaults(p, piece, type) : type \in Types(p.schema)}

PieceFaults(p, piece) ==
  IF piece.text = <<>> THEN IF p.required THEN {"missing"} ELSE {}
  ELSE UNION {PathFaults(p, piece, type) : type \in Types(p.schema)}

\* A segment the pattern rejects has no matches to take apart.
PathPanics == \E piece \in Range(task.pieces) : ~piece.matches

--------------------------------------------------------------------------------
(* Strict mode: names the operation does not have.                         *)

Declared == {p.name : p \in {q \in Range(task.params) : q.in = task.place}}

\* ExtractSecurityHeaderNames: the schemes of all requirements.
SecurityHeaders == {HeaderOf[scheme] : scheme \in UNION Range(task.security)} \ {None}

Undeclared ==
  CASE task.place = "path" -> {}
    [] task.place = "header" -> DOMAIN task.sent \ (Declared \cup SecurityHeaders \cup task.ignored)
    [] OTHER -> DOMAIN task.sent \ (Declared \cup task.ignored)

--------------------------------------------------------------------------------
(* The loop.                                                               *)

\* What may be there for a parameter; a path parameter is in the path's template.
Present(p) ==
  CASE task.place = "query" -> \E key \in DOMAIN task.sent : EntryOf(key).name = p.name
    [] task.place = "header" -> HeaderText(p.name) # <<>>
    [] task.place = "cookie" -> p.name \in DOMAIN task.sent
    [] OTHER -> TRUE

Panics(p) ==
  CASE task.place = "query" -> QueryPanics(p)
    [] task.place = "path" -> PathPanics
    [] OTHER -> TextPanics(p)

\* The errors of a parameter that is there, for an order of the keys.
FaultsOf(p, keys) ==
  CASE task.place = "query" -> SentQueryFaults(p, EntriesFor(p, keys))
    [] task.place = "header" -> SentHeaderFaults(p)
    [] task.place = "cookie" -> SentCookieFaults(p)
    [] OTHER -> UNION {PieceFaults(p, piece) : piece \in PiecesOf(p)}

WholeQueryFaults(p, keys) ==
  AgainstObject(p.schema, WholeQueryObject(EntriesIn(keys), p.schema))

Fault == [of : Names, kind : Kinds]

Init ==
  /\ task \in Tasks
  /\ order \in IF task.place = "query" THEN SetToSeqs(DOMAIN task.sent) ELSE {<<>>}
  /\ pc = "looking"
  /\ i = 1
  /\ faults = {}

Report(name, kinds) == faults' = faults \cup {[of |-> name, kind |-> k] : k \in kinds}

AtParam == pc = "looking" /\ i <= Len(task.params) /\ Param.in = task.place

\* Mutant: the parameter after one of another place is left out.
PassOverTwo ==
  /\ pc = "looking" /\ i <= Len(task.params) /\ Param.in # task.place
  /\ i' = i + 2
  /\ UNCHANGED <<task, order, pc, faults>>

\* A parameter of another place.
PassOver ==
  /\ pc = "looking" /\ i <= Len(task.params) /\ Param.in # task.place
  /\ i' = i + 1
  /\ UNCHANGED <<task, order, pc, faults>>

Judge ==
  /\ AtParam
  /\ Present(Param) /\ ~Panics(Param)
  /\ Report(Param.name, FaultsOf(Param, order))
  /\ i' = i + 1
  /\ UNCHANGED <<task, order, pc>>

\* Go stops the process: nothing recovers.
Panic ==
  /\ AtParam
  /\ Present(Param) /\ Panics(Param)
  /\ pc' = "panicked"
  /\ UNCHANGED <<task, order, i, faults>>

\* break doneLooking: the rest of the parameters is not looked at.
JudgeWholeQuery ==
  /\ AtParam
  /\ task.place = "query" /\ ~Present(Param) /\ ReadsWholeQuery(Param)
  /\ Report(Param.name, WholeQueryFaults(Param, order))
  /\ i' = Len(task.params) + 1
  /\ UNCHANGED <<task, order, pc>>

Miss ==
  /\ AtParam
  /\ ~Present(Param)
  /\ ~(task.place = "query" /\ ReadsWholeQuery(Param))
  /\ Report(Param.name, IF Param.required THEN {"missing"} ELSE {})
  /\ i' = i + 1
  /\ UNCHANGED <<task, order, pc>>

\* Names are looked for only in a request that has no errors.
Return ==
  /\ pc = "looking" /\ i = Len(task.params) + 1
  /\ pc' = "returned"
  /\ faults' = IF faults = {} /\ task.strict
                 THEN {[of |-> name, kind |-> "undeclared"] : name \in Undeclared} ELSE faults
  /\ UNCHANGED <<task, order, i>>

Next == PassOver \/ Judge \/ Panic \/ JudgeWholeQuery \/ Miss \/ Return

Spec == Init /\ [][Next]_vars

--------------------------------------------------------------------------------
\* The type invariant.
TypeOK ==
  /\ pc \in {"looking", "returned", "panicked"}
  /\ i \in 1 .. Len(task.params) + 1
  /\ faults \subseteq Fault

\* Where an absent object ends the loop over a query.
EndsLoop(n) ==
  LET p == task.params[n]
  IN  task.place = "query" /\ p.in = "query" /\ ~Present(p) /\ ReadsWholeQuery(p)

\* The parameters a call answers for.
LookedAt ==
  {task.params[n] : n \in {m \in DOMAIN task.params :
     task.params[m].in = task.place /\ \A l \in 1 .. m : ~EndsLoop(l)}}

--------------------------------------------------------------------------------
(* What OpenAPI says the request has for a parameter, taken from the       *)
(* request itself.                                                         *)

TypeOf(s) == CHOOSE type \in Types(s) : TRUE
OneType(s) == Cardinality(Types(s)) = 1

\* A text is of the type its schema names.
Typed(s, t) == IF OneType(s) THEN Scalar(TypeOf(s), t) ELSE Cast(t)

TextsOf(p) ==
  CASE p.in = "path" ->
         {ScalarText(p, piece) : piece \in {q \in PiecesOf(p) : q.text # <<>>}} \ {<<>>}
    [] p.in = "header" -> {HeaderText(p.name)} \ {<<>>}
    [] p.in = "cookie" -> IF p.name \in DOMAIN task.sent THEN {CookieText(p.name)} ELSE {}
    [] OTHER -> IF p.name \in DOMAIN task.sent THEN Range(task.sent[p.name]) ELSE {}

\* The keys of an object in several keys, name[key]...
DeepKeys(p) == {key \in DOMAIN task.sent : IsStrictPrefix(p.name, key) /\ IsDeepObjectKey(key)}

IsSent(p) ==
  CASE p.in = "path" -> \A piece \in PiecesOf(p) : piece.text # <<>>
    [] p.in = "query" -> TextsOf(p) # {} \/ DeepKeys(p) # {}
    [] OTHER -> TextsOf(p) # {}

\* Words with commas between them.
IsList(t) == Len(t) % 2 = 1 /\ \A n \in DOMAIN t : (n % 2 = 0 <=> t[n] \in Delimiters)
                                                  /\ (n % 2 = 0 => t[n] = ",")

\* What such a list has, in order.
WordsOf(t) == [n \in 1 .. (Len(t) + 1) \div 2 |-> <<t[2 * n - 1]>>]

\* A text can be read in one way only if there is one type it may be of, or none:
\* 1 is a string as well as an integer.
ReadsOneWay(s) ==
  Types(s) \in {{}, {"string"}, {"integer"}, {"number"}, {"boolean"}}

\* A number in a header or a cookie is only held to its enumeration, an
\* enumerated text of a path to nothing else, a Boolean to nothing but its type;
\* a label or a matrix is taken apart if the style says the same.
HasScalar(p) ==
  /\ p.schema # None
  /\ Types(p.schema) \in {{"string"}, {"integer"}, {"number"}}
  /\ p.in \in {"header", "cookie"} => Types(p.schema) = {"string"}
  /\ p.in = "path" => /\ Schema[p.schema].enum = None
                      /\ \A piece \in PiecesOf(p) : piece.form \in {"simple", p.style}
                      /\ Types(p.schema) = {"string"} => p.style \in {"", "simple"}

\* A member may also be a list.  Where other members may be, what has no type
\* becomes a list as well.
MemberReadsOneWay(s, path) ==
  LET leaf == SchemaAt(s, path)
  IN  \/ ReadsOneWay(leaf) /\ (Types(leaf) = {} => "array" \notin Types(Schema[s].additional))
      \/ Types(leaf) = {"array"} /\ (HasItemsSchema(leaf) => ReadsOneWay(Schema[leaf].items))

\* name[key], for a name without brackets.
HasDeepObject(p) ==
  /\ p.in = "query" /\ p.style = "deepObject" /\ p.schema # None
  /\ Len(p.name) = 1
  /\ Types(p.schema) = {"object"}
  /\ p.name \notin DOMAIN task.sent
  /\ \A q \in Range(task.params) : q.in = "query" => q.name \notin DeepKeys(p)
  /\ \A key \in DeepKeys(p) : MemberReadsOneWay(p.schema, Tail(key))

\* Of several lists in a query only the first is looked at.
HasListObject(p) ==
  /\ p.schema # None /\ Types(p.schema) = {"object"}
  /\ \/ p.in \in {"header", "cookie"} /\ IsDefaultSimpleEncoding(p)
     \/ /\ p.in = "query" /\ p.style = "form" /\ p.explode = "no" /\ DeepKeys(p) = {}
        /\ p.name \in DOMAIN task.sent => Len(task.sent[p.name]) = 1
  /\ \A t \in TextsOf(p) :
       /\ IsList(t) /\ Len(t) % 4 = 3
       /\ \A n \in DOMAIN t : n % 4 = 1 => ReadsOneWay(SchemaAt(p.schema, <<t[n]>>))

\* A property that may be repeated is a list, also of one text.
MemberRead(s, path, texts) ==
  LET leaf == SchemaAt(s, path)
  IN  IF "array" \in Types(leaf)
        THEN Array([n \in DOMAIN texts |->
                      IF HasItemsSchema(leaf) THEN Typed(Schema[leaf].items, texts[n]) ELSE Cast(texts[n])])
        ELSE Typed(leaf, texts[1])

DeepObjectRead(p) ==
  Object([path \in {Tail(key) : key \in DeepKeys(p)} |->
            MemberRead(p.schema, path, task.sent[p.name \o path])])

\* A repeated key has its last value.
ListObjectRead(s, t) ==
  LET first == {n \in DOMAIN t : n % 4 = 1}
  IN  Object([key \in {<<t[n]>> : n \in first} |->
                Typed(SchemaAt(s, key), <<t[Max({n \in first : <<t[n]>> = key}) + 2]>>)])

ArrayRead(s, t) ==
  Array([n \in DOMAIN WordsOf(t) |-> Typed(Schema[s].items, WordsOf(t)[n])])

\* An item is held to a type and an enumeration, an array to its length and to its
\* texts being different: that is all their schemas say of this one.
IsPlainArray(s, t) ==
  LET items == Schema[s].items
      words == WordsOf(t)
      IsFine(word) == Conforms(items, Typed(items, word))
  IN  /\ \A n \in DOMAIN words :
           ParseFaults(words[n], TypeOf(items)) = {} /\ EnumFaults(items, words[n]) = {} => IsFine(words[n])
      /\ (\A n \in DOMAIN words : IsFine(words[n])) /\ LengthFaults(s, words) = {} =>
           Conforms(s, ArrayRead(s, t))

\* One list: repeated lists are counted one by one.
HasArray(p) ==
  /\ p.in = "query" /\ p.schema # None
  /\ Types(p.schema) = {"array"} /\ HasItemsSchema(p.schema)
  /\ Types(Schema[p.schema].items) \in {{"string"}, {"integer"}, {"number"}}
  /\ p.style \in {"", "form"}
  /\ p.name \in DOMAIN task.sent => Len(task.sent[p.name]) = 1
  /\ \A t \in TextsOf(p) : IsList(t) /\ IsPlainArray(p.schema, t)

HasJson(p) ==
  /\ ContentWrapped(p) /\ p.in = "query"
  /\ p.style \in {"", "form"} /\ Types(p.content) = {"object"}

Readings(p) ==
  CASE HasScalar(p) -> {Typed(p.schema, t) : t \in TextsOf(p)}
    [] HasDeepObject(p) /\ DeepKeys(p) # {} -> {DeepObjectRead(p)}
    [] HasListObject(p) -> {ListObjectRead(p.schema, t) : t \in TextsOf(p)}
    [] HasArray(p) -> {ArrayRead(p.schema, t) : t \in TextsOf(p)}
    [] HasJson(p) -> {Json(t) : t \in TextsOf(p)} \ {None}
    [] OTHER -> {}

\* What a schema is asked about: not null, nor an object without members, or with
\* an empty text under the empty key.
IsHeld(v) ==
  /\ v # Null
  /\ v.type = "object" =>
       /\ DOMAIN v.members # {}
       /\ EmptyKey \in DOMAIN v.members => v.members[EmptyKey] # Empty

\* A text that cast reads as it is meant: a number with an exponent and without a
\* period becomes 0.
IsExact(v) == Cast(v.text).type = "integer" => Int64(v.text) = v.text

IsCastExactly(v) ==
  v.type = "object" =>
    \A m \in Range(v.members) :
      IF m.type = "array" THEN \A item \in Range(m.items) : IsExact(item) ELSE IsExact(m)

--------------------------------------------------------------------------------
(* What is asked of JSON Schema.                                           *)

ScalarTypes == {"string", "integer", "number", "boolean"}
ScalarValue == [type : ScalarTypes, text : Seq(STRING)]
MemberValue == ScalarValue \cup [type : {"array"}, items : Seq(ScalarValue)]

\* The members of objects.
Members == UNION {[paths -> MemberValue] : paths \in SUBSET Seq(STRING)}

\* Numbers are of one kind in JSON.
Numeric == {"integer", "number"}

OfType(v, types) ==
  types = {} \/ v.type \in types \/ (v.type \in Numeric /\ types \cap Numeric # {})

SameScalar(v, w) == v = w \/ ({v.type, w.type} \subseteq Numeric /\ v.text = w.text)

SameMember(v, w) ==
  \/ SameScalar(v, w)
  \/ /\ {v.type, w.type} = {"array"} /\ DOMAIN v.items = DOMAIN w.items
     /\ \A n \in DOMAIN v.items : SameScalar(v.items[n], w.items[n])

\* The members of an object that conforms are of their types, and what conforms
\* is a matter of the value, not of the kind a number is of.
ConformsAsJson(objects) ==
  \A s \in Schemas, v \in objects : Conforms(s, Object(v)) =>
    /\ \A path \in DOMAIN v :
         LET leaf == SchemaAt(s, path)
         IN  /\ OfType(v[path], Types(leaf))
             /\ v[path].type = "array" /\ Types(leaf) # {} /\ HasItemsSchema(leaf) =>
                  \A n \in DOMAIN v[path].items : OfType(v[path].items[n], Types(Schema[leaf].items))
    /\ \A w \in objects :
         DOMAIN v = DOMAIN w /\ (\A path \in DOMAIN v : SameMember(v[path], w[path])) =>
           Conforms(s, Object(w))

--------------------------------------------------------------------------------
\* Whatever the loop came to is there if it is required: in a request without
\* errors every required parameter was sent, as OpenAPI says where to look for it.
RequiredSent ==
  pc = "returned" /\ faults = {} => \A p \in LookedAt : p.required => IsSent(p)

\* What is accepted is what the document asks for: whatever was sent for a
\* parameter, read the way OpenAPI says from all keys and texts of the request,
\* conforms to its schema.
AcceptedConforms ==
  pc = "returned" /\ faults = {} =>
    \A p \in LookedAt : \A v \in Readings(p) :
      IsHeld(v) /\ (ContentWrapped(p) \/ IsCastExactly(v)) => Conforms(SchemaOf(p), v)

\* An object that is no deepObject takes one key of several, whichever comes last.
IsAmbiguous(p) ==
  /\ p.in = "query" /\ p.style # "deepObject"
  /\ Cardinality({key \in DOMAIN task.sent : EntryOf(key).name = p.name}) > 1
  /\ "object" \in Types(SchemaOf(p))

\* The members of an absent object are all keys, by their first word.
MembersAmbiguous ==
  \E key, other \in DOMAIN task.sent : key # other /\ EntryOf(key).name = EntryOf(other).name

\* A query is accepted or refused whatever the order in which Go's maps hand out
\* its keys: a parameter that is there is at fault for every order or for none, and
\* so is the absent object that ends the loop.
OrderFree ==
  pc = "returned" /\ task.place = "query" =>
    \A keys \in SetToSeqs(DOMAIN task.sent) :
      /\ \A p \in LookedAt :
           Present(p) /\ ~IsAmbiguous(p) => (FaultsOf(p, keys) = {}) = (FaultsOf(p, order) = {})
      /\ \A n \in DOMAIN task.params :
           EndsLoop(n) /\ ~MembersAmbiguous =>
             (WholeQueryFaults(task.params[n], keys) = {}) = (WholeQueryFaults(task.params[n], order) = {})
===============================================================================
