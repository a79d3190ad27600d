----------------------------- MODULE SchemaMeaning -----------------------------
(***************************************************************************)
(* What the schema compiled by SchemaPreparation says of a body, by JSON   *)
(* Schema and the library's own keywords (openapi_vocabulary), and what    *)
(* OpenAPI says of it, from the document itself.                           *)
(***************************************************************************)
EXTENDS SchemaPreparation

CONSTANTS Values,          \* bodies
          Parses(_, _),    \* a text is a scalar of a type
          Denoted(_, _)    \* the scalar it is a text of

--------------------------------------------------------------------------------
(* Keywords of openapi_vocabulary.                                         *)

Members(v) == IF v.type = "object" THEN v.members ELSE <<>>

\* discriminatorExtension: whatever is no object lacks the property.
HasDiscriminator(r, v) == r.discriminator # None => r.discriminator \in DOMAIN Members(v)

\* coercionExtension: one type is asked for the text, boolean first, then number.
AskedFor(types) ==
  IF "boolean" \in types THEN "boolean" ELSE IF "number" \in types THEN "number" ELSE "integer"

IsCoercible(r, v) ==
  task.coerce /\ v.type = "string" /\ r.types \cap Scalars # {} => Parses(v.text, AskedFor(r.types))

Vocabulary(r, v) == HasDiscriminator(r, v) /\ IsCoercible(r, v)

--------------------------------------------------------------------------------
(* JSON Schema.                                                            *)

\* What a rule says of a value, if Is says what a schema does.
Obeys(r, v, Is(_, _)) ==
  /\ r.types = {} \/ v.type \in r.types \/ (v.type = "integer" /\ "number" \in r.types)
  /\ r.enum = {} \/ v \in r.enum
  /\ v.type = "integer" => /\ \A m \in r.minimum : v.n >= m
                           /\ \A m \in r.above : v.n > m
  /\ v.type = "object" => r.required \subseteq DOMAIN v.members
  /\ \A name \in DOMAIN Members(v) \cap DOMAIN r.props : Is(r.props[name], v.members[name])
  /\ v.type = "array" /\ r.items # None => \A i \in DOMAIN v.items : Is(r.items, v.items[i])
  /\ \A n \in Range(r.allOf) : Is(n, v)
  /\ r.anyOf # <<>> => \E n \in Range(r.anyOf) : Is(n, v)
  /\ r.oneOf # <<>> => Cardinality({i \in DOMAIN r.oneOf : Is(r.oneOf[i], v)}) = 1
  /\ r.not # None => ~Is(r.not, v)
  /\ r.ref # None => Is(r.ref, v)

RECURSIVE Validate(_, _, _)
Validate(rules, n, v) ==
  /\ Obeys(rules[n], v, LAMBDA m, w : Validate(rules, m, w))
  /\ Vocabulary(rules[n], v)

--------------------------------------------------------------------------------
(* What OpenAPI says of a body, from the document itself.                  *)

RECURSIVE IsHidden(_)
IsHidden(n) ==
  \/ Marked(Rules[n], task.purpose)
  \/ Rules[n].ref # None /\ IsHidden(Rules[n].ref)
  \/ \E m \in Combined(Rules[n]) : IsHidden(m)

\* Names that some schema of an object hides.
RECURSIVE HiddenNames(_)
HiddenNames(n) ==
  {name \in DOMAIN Rules[n].props : IsHidden(Rules[n].props[name])}
  \cup UNION {HiddenNames(m) : m \in Range(Rules[n].allOf) \cup ({Rules[n].ref} \ {None})}

\* A body is of a schema: a hidden property is not required; null is of a
\* nullable schema; a bound is exclusive if it says so; a text is of a scalar
\* type if it is a text of a scalar that is.
RECURSIVE IsOf(_, _, _)
IsOf(n, v, around) ==
  LET r == Rules[n]
      hidden == around \cup HiddenNames(n)
      types == r.types \cap Scalars
      rule == [r EXCEPT !.required = @ \ hidden,
                        !.above = IF r.exclusive = "true" THEN r.minimum ELSE @]
  IN  CASE r.nullable = "true" /\ v = Null -> TRUE
        [] task.coerce /\ v.type = "string" /\ types # {} /\ "string" \notin r.types ->
             \E type \in types : Parses(v.text, type) /\ IsOf(n, Denoted(v.text, type), around)
        [] OTHER ->
             /\ Obeys(rule, v, LAMBDA m, w : IsOf(m, w, IF w = v THEN hidden ELSE {}))
             /\ r.discriminator # None /\ v.type = "object" => r.discriminator \in DOMAIN v.members

\* Where a property is required it is also said to be hidden, and not behind a
\* reference.
PlainDirections ==
  \A n \in Parts : \A name \in Rules[n].required :
    (\E m \in Parts : name \in DOMAIN Rules[m].props /\ IsHidden(Rules[m].props[name])) =>
      name \in DOMAIN Rules[n].props /\ IsDirectional(Rules, Rules[n].props[name], task.purpose)

\* A nullable schema is no choice, no object with a discriminator, and no allOf of
\* schemas that take null as well.
PlainNulls ==
  \A n \in Parts : Rules[n].nullable = "true" =>
    LET r == Rules[n]
    IN  /\ r.anyOf \o r.oneOf = <<>>
        /\ {r.not, r.ref, r.discriminator} = {None}
        /\ r.allOf # <<>> => \E m \in Range(r.allOf) : ~IsOf(m, Null, {})

\* A scalar is of one type, which is all that is said of it, and no property is
\* named type.
PlainTexts ==
  task.coerce => \A n \in Parts :
    LET r == Rules[n]
    IN  /\ "type" \notin DOMAIN r.props
        /\ r.types \cap Scalars # {} => /\ Cardinality(r.types \ {"null"}) = 1
                                        /\ r.enum = {} /\ r.minimum = {}

\* The compiled schema accepts what the document's schema accepts, in the
\* direction and the version it was compiled for, rendered inline or with the
\* documents its references lead to; and it compiles, every document found,
\* unless 3.0 keywords are used in 3.1.  Where the preparation is known to change
\* what a schema says, it is left out: the four conditions above.
PreparedExact ==
  phase \in {"compiled", "failed"} /\ PlainDirections /\ PlainNulls /\ PlainTexts /\ PlainNames =>
    IF task.version = "3.1" /\ \E n \in Parts : IsRefused(Rules[n])
      THEN phase = "failed"
      ELSE /\ phase = "compiled"
           /\ \A v \in Values : Validate(compiled, task.root, v) <=> IsOf(task.root, v, {})
================================================================================
