------------------------------ MODULE ParamReading ------------------------------
(***************************************************************************)
(* How the text of a parameter becomes a value, and what a schema says of  *)
(* it: helpers/parameter_utilities.go, parameters/validate_parameter.go    *)
(* and parameters/validation_functions.go.                                 *)
(*                                                                         *)
(* A text is a sequence of tokens: words, and the characters that separate *)
(* them.  An object is a function from the paths of its leaves.            *)
(***************************************************************************)
EXTENDS Naturals, Sequences, FiniteSets, SequencesExt

CONSTANTS Schemas,
          Schema,            \* what each schema says, a record
          None,              \* no schema, no enum, not JSON
          Conforms(_, _),    \* JSON Schema: a schema accepts a value
          Parses(_, _),      \* strconv.Parse...: a text is of a scalar type
          Int64(_),          \* strconv.ParseInt with its error dropped
          Json(_)            \* json.Unmarshal: the value of a text, or None

Delimiters == {",", ";", "|", " ", "=", "."}
Reserved == {":", "/", "?", "#", "[", "]", "@", "!", "$", "&", "'", "(", ")",
             "*", "+", ",", ";", "="}

Scalar(type, text) == [type |-> type, text |-> text]
Empty == Scalar("string", <<>>)
NoWord == ""
EmptyKey == <<NoWord>>
Object(members) == [type |-> "object", members |-> members]
Array(items) == [type |-> "array", items |-> items]

\* JSON null, which Go decodes to nil: to no map, or to no value at all.
Null == [type |-> "null"]

--------------------------------------------------------------------------------
(* Texts.                                                                  *)

\* The number of a set that n others are below.
Nth(S, n) == CHOOSE i \in S : Cardinality({j \in S : j < i}) = n

\* strings.Split
Split(t, d) ==
  LET cuts == {0, Len(t) + 1} \cup {i \in DOMAIN t : t[i] = d}
  IN  [i \in 1 .. Cardinality(cuts) - 1 |-> SubSeq(t, Nth(cuts, i - 1) + 1, Nth(cuts, i) - 1)]

\* strings.TrimSpace
Trimmed(t) ==
  LET solid == {i \in DOMAIN t : t[i] # " "}
  IN  IF solid = {} THEN <<>> ELSE SubSeq(t, Min(solid), Max(solid))

\* The delimiter of a list in one text.
Delimiter(style) ==
  CASE style = "spaceDelimited" -> " "
    [] style = "pipeDelimited" -> "|"
    [] OTHER -> ","

ExplodeQueryValue(t, style) == Split(t, Delimiter(style))

HasReserved(t) == Range(t) \cap Reserved # {}

\* The first letter is dropped, and name= where it is found first.
StripName(t, name) == ReplaceFirstSubSeq(<<>>, Append(name, "="), Tail(t))

\* The same, but name= goes wherever it is found.
StripNames(t, name) ==
  LET IsName(i) == i < Len(t) /\ <<t[i], t[i + 1]>> = Append(name, "=")
      kept == {i \in 2 .. Len(t) : ~IsName(i) /\ ~IsName(i - 1)}
  IN  [n \in 1 .. Cardinality(kept) |-> t[Nth(kept, n - 1)]]

--------------------------------------------------------------------------------
(* Casting.                                                                *)

Types(s) == IF s = None THEN {} ELSE Range(Schema[s].types)

\* getSchemaForObjectProperty
PropertySchema(s, n) ==
  IF s = None THEN None
  ELSE IF n \in DOMAIN Schema[s].props THEN Schema[s].props[n]
  ELSE Schema[s].additional

\* schemaForPropertyPath
SchemaAt(s, path) ==
  LET at[n \in 0..Len(path)] == IF n = 0 THEN s ELSE PropertySchema(at[n - 1], path[n])
  IN  at[Len(path)]

\* schemaPreservesStringValue
PreservesString(s) ==
  \/ "string" \in Types(s)
  \/ "array" \in Types(s) /\ Schema[s].items \in Schemas /\ "string" \in Types(Schema[s].items)

\* cast: a number is an integer unless it has a period.
Cast(t) ==
  CASE t \in {<<"true">>, <<"false">>} -> Scalar("boolean", t)
    [] t \notin {<<"true">>, <<"false">>} /\ Parses(t, "number") ->
         IF "." \in Range(t) THEN Scalar("number", t) ELSE Scalar("integer", Int64(t))
    [] OTHER -> Scalar("string", t)

\* castWithSchema
CastWithSchema(t, s, n) ==
  LET property == PropertySchema(s, n)
  IN  IF PreservesString(property) \/ (property = None /\ PreservesString(s))
        THEN Scalar("string", t) ELSE Cast(t)

\* schemaForCastingPath, of the schema found at the path.
CastingSchema(s, found) == IF found = None /\ "array" \in Types(s) THEN s ELSE found

\* castWithSchemaPath
CastWithSchemaPath(t, s, path) ==
  IF PreservesString(CastingSchema(s, SchemaAt(s, path))) THEN Scalar("string", t)
  ELSE IF Len(path) = 1 THEN CastWithSchema(t, s, path[1])
  ELSE Cast(t)

--------------------------------------------------------------------------------
(* Objects in one text.  A repeated key has its last value.                *)

KeyOf(t) == IF t = <<>> THEN EmptyKey ELSE t
NameOf(t) == IF Len(t) = 1 THEN t[1] ELSE NoWord

\* From pairs of a key and a text.
MapOf(pairs, s) ==
  [k \in {KeyOf(pairs[i][1]) : i \in DOMAIN pairs} |->
     LET last == Max({i \in DOMAIN pairs : KeyOf(pairs[i][1]) = k})
     IN  CastWithSchema(pairs[last][2], s, NameOf(pairs[last][1]))]

\* key,value,key,value: ConstructMapFromCSVWithSchema and the loops of the form,
\* pipe and space encodings.
Alternating(t, d, s) ==
  LET parts == Split(t, d)
  IN  MapOf([i \in 1 .. (Len(parts) \div 2) |-> <<parts[2 * i - 1], parts[2 * i]>>], s)

\* key=value,key=value: constructKVFromDelimited
KeyValues(t, d, s) ==
  MapOf(SelectSeq([i \in DOMAIN Split(t, d) |-> Split(Split(t, d)[i], "=")],
                  LAMBDA pair : Len(pair) = 2), s)

--------------------------------------------------------------------------------
(* Objects in several query keys.  An entry is a key's path, and its       *)
(* texts; a plain key has no path.                                         *)

\* queryParamPropertyPath
PropertyPath(e) == IF e.path = <<>> THEN EmptyKey ELSE e.path

DeepObjectAllowsMultipleValues(s, e) ==
  /\ s # None
  /\ \/ "array" \in Types(s)
     \/ "array" \in Types(SchemaAt(s, PropertyPath(e)))
     \/ "array" \in Types(Schema[s].additional)

\* Mutant: only a longer path after a shorter one is found.
ConflictInOrder(es) ==
  \E i, j \in DOMAIN es : i < j /\ es[i].path # <<>> /\ IsStrictPrefix(es[i].path, es[j].path)

DeepObjectPathConflict(es) ==
  \E i, j \in DOMAIN es : es[i].path # <<>> /\ IsStrictPrefix(es[i].path, es[j].path)

\* A value and an object in one place.
Mixed == Array(<<>>)

\* setNestedDeepObjectValue: a value where an object is, or an object where a
\* value is, becomes a list of both.
SetNested(tree, path, v) ==
  LET above == {q \in DOMAIN tree : IsStrictPrefix(q, path)}
      below == {q \in DOMAIN tree : IsStrictPrefix(path, q)}
      places == IF above = {} THEN {path} ELSE above
      set == IF above \cup below = {} THEN v ELSE Mixed
  IN  [q \in (DOMAIN tree \ below) \cup places |-> IF q \in places THEN set ELSE tree[q]]

MemberOf(e, s) ==
  LET path == PropertyPath(e)
  IN  IF DeepObjectAllowsMultipleValues(s, e)
        THEN Array([i \in DOMAIN e.values |-> CastWithSchemaPath(e.values[i], s, path)])
        ELSE CastWithSchemaPath(e.values[1], s, path)

\* ConstructParamMapFromDeepObjectEncoding
DeepObject(es, s) ==
  LET tree[n \in 0..Len(es)] ==
        IF n = 0 THEN <<>> ELSE SetNested(tree[n - 1], PropertyPath(es[n]), MemberOf(es[n], s))
  IN  tree[Len(es)]

\* The form, pipe and space encodings: every entry is decoded under the one name
\* of the parameter, so that the last is kept.
OneTextObject(es, style, s) == Alternating(Last(es).values[1], Delimiter(style), s)

\* ConstructParamMapFromQueryParamInputWithSchema: of all entries of the request,
\* in the order given, the first text under its name.
WholeQueryObject(es, s) ==
  MapOf([i \in DOMAIN es |-> <<es[i].name, es[i].values[1]>>], s)

--------------------------------------------------------------------------------
(* What is wrong with a text or a value: a set of kinds of faults.         *)

AgainstSchema(s, v) == IF Conforms(s, v) THEN {} ELSE {"schema"}

\* ValidateParameterSchema for an object: nothing is checked for an object
\* without members, or with an empty text under the empty key.
AgainstObject(s, members) ==
  CASE DOMAIN members = {} -> {}
    [] EmptyKey \in DOMAIN members ->
         IF members[EmptyKey] = Empty THEN {} ELSE {"emptyKey"}
    [] OTHER -> AgainstSchema(s, Object(members))

\* ValidateParameterSchema for a text: JSON, or else a string.  Nothing is checked
\* for null.
AgainstBlob(s, t) ==
  IF Json(t) = Null THEN {}
  ELSE AgainstSchema(s, IF Json(t) = None THEN Scalar("string", t) ELSE Json(t))

\* The loops over enumerated values.
EnumFaults(s, t) ==
  IF Schema[s].enum = None \/ Trimmed(t) \in Schema[s].enum THEN {} ELSE {"enum"}

\* strconv.ParseInt, ParseFloat and ParseBool; what a text says as that type.
ParseFaults(t, type) == IF type = "string" \/ Parses(t, type) THEN {} ELSE {type}

\* The first of two checks that finds a fault.
Then(first, second) == IF first # {} THEN first ELSE second

\* A Boolean item may not be 0 or 1, which strconv.ParseBool takes.
BooleanItemFaults(t) ==
  Then(ParseFaults(t, "boolean"), IF t \in {<<"0">>, <<"1">>} THEN {"boolean"} ELSE {})

\* ValidateHeaderArray, ValidateCookieArray: one item.
ItemFaults(t, type) ==
  CASE type \in {"integer", "number"} -> ParseFaults(t, "number")
    [] type = "boolean" -> BooleanItemFaults(t)
    [] OTHER -> {}

CsvArrayFaults(s, t) ==
  LET items == Split(t, ",")
  IN  UNION {ItemFaults(items[i], type) : i \in DOMAIN items, type \in Types(Schema[s].items)}

\* ValidateQueryArray: one item, and how many there are.
QueryItemFaults(s, t, type) ==
  CASE type \in {"integer", "number", "string"} -> Then(ParseFaults(t, type), EnumFaults(s, t))
    [] type = "boolean" -> ParseFaults(t, "boolean")
    [] type = "object" -> AgainstBlob(s, t)
    [] OTHER -> {}

LengthFaults(s, items) ==
  LET rule == Schema[s]
  IN  (IF Len(items) > rule.maxItems THEN {"maxItems"} ELSE {})
      \cup (IF Len(items) < rule.minItems THEN {"minItems"} ELSE {})
      \cup (IF rule.uniqueItems /\ ~IsInjective(items) THEN {"uniqueItems"} ELSE {})

ItemsFaults(s, items) ==
  UNION {QueryItemFaults(s, items[i], type) : i \in DOMAIN items, type \in Types(s)}

QueryArrayFaults(s, items) == ItemsFaults(Schema[s].items, items) \cup LengthFaults(s, items)
================================================================================
