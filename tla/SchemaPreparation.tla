---------------------------- MODULE SchemaPreparation ----------------------------
(***************************************************************************)
(* From a schema of the document to the one that is compiled:              *)
(* CompileSchemaForValidation (schema_validation/schema_resources.go,      *)
(* directional_schema.go) and what helpers/schema_compiler.go rewrites.    *)
(* What a compiled schema says of a body is in SchemaMeaning, what becomes *)
(* of it in SchemaCaching.                                                 *)
(*                                                                         *)
(* Every schema, and every part of one, is a node with a rule.  Types and  *)
(* enumerations that are empty are absent, and so are empty lists.         *)
(***************************************************************************)
EXTENDS Naturals, Sequences, FiniteSets, SequencesExt

CONSTANTS Tasks,   \* rules of all nodes, and what is compiled for what
          None     \* no node, no name

Combined(r) == Range(r.allOf \o r.anyOf \o r.oneOf)
Subschemas(r) == Range(r.props) \cup Combined(r) \cup ({r.items, r.not} \ {None})

ASSUME PreparationAssumption ==
  \A t \in Tasks :
    /\ None \notin DOMAIN t.rules
    /\ t.root \in DOMAIN t.rules
    /\ t.purpose \in {"generic", "request", "response"}
    /\ t.version \in {"3.0", "3.1"}
    /\ IsFiniteSet(DOMAIN t.rules)
    /\ \A n \in DOMAIN t.rules : /\ t.rules[n].ref \in DOMAIN t.rules \cup {None}
                                 /\ Subschemas(t.rules[n]) \subseteq DOMAIN t.rules

VARIABLES task,
          phase,
          loops,       \* references the calls under way still follow, innermost first
          seenNodes, seenRefs,
          resources,   \* documents registered so far
          compiled     \* rules of the compiled schema

preparationVars == <<task, phase, loops, seenNodes, seenRefs, resources, compiled>>

Scalars == {"boolean", "number", "integer"}
Null == [type |-> "null"]
NoRule == [doc |-> None, ref |-> None, types |-> {}, nullable |-> "absent", enum |-> {},
           minimum |-> {}, exclusive |-> "absent", above |-> {}, required |-> {},
           props |-> <<>>, items |-> None, not |-> None,
           allOf |-> <<>>, anyOf |-> <<>>, oneOf |-> <<>>,
           discriminator |-> None, readOnly |-> FALSE, writeOnly |-> FALSE]

--------------------------------------------------------------------------------
(* Parts and references.                                                   *)

\* Where steps from a node to others lead.
Within(nodes, steps) ==
  LET within[k \in 0..Cardinality(DOMAIN steps)] ==
        IF k = 0 THEN nodes
        ELSE LET before == within[k - 1]
             IN  before \cup UNION {steps[n] : n \in before}
  IN  within[Cardinality(DOMAIN steps)]

\* A node and its parts, in its own document.
Tree(rules, n) == Within({n}, [m \in DOMAIN rules |-> Subschemas(rules[m])])

\* isSchemaNameMap: under these names $ref is no keyword, nor is it if a property
\* has one of these names.
NameMaps == {"properties", "patternProperties", "$defs", "definitions", "dependentSchemas"}

Unread(rules, n) ==
  UNION {{rules[m].props[name] : name \in NameMaps \cap DOMAIN rules[m].props} :
           m \in Tree(rules, n)}

\* Mutant: only the references of a schema itself and of its properties.
ShallowRefs(rules, n) == {rules[m].ref : m \in {n} \cup Range(rules[n].props)} \ {None}

\* collectSchemaRefValues, hasSchemaRefValue
SchemaRefs(rules, n) == {rules[m].ref : m \in Tree(rules, n) \ Unread(rules, n)} \ {None}

Resolve(rules, n) ==
  LET resolved[m \in DOMAIN rules] == IF rules[m].ref = None THEN m ELSE resolved[rules[m].ref]
  IN  resolved[n]

\* All that a schema is made of, references followed.
Below(r) == Subschemas(r) \cup ({r.ref} \ {None})
Reached(rules, nodes) == Within(nodes, [m \in DOMAIN rules |-> Below(rules[m])])

IsCircular(rules, n) ==
  \E m \in Reached(rules, {n}) : m \in Reached(rules, Below(rules[m]))

\* MarshalYAMLInlineWithContext of libopenapi: references are replaced by what
\* they stand for.
Inlined(rules) ==
  LET R(n) == IF n = None THEN None ELSE Resolve(rules, n)
      RSeq(ns) == [i \in DOMAIN ns |-> R(ns[i])]
  IN  [n \in DOMAIN rules |->
         [rules[n] EXCEPT !.props = [name \in DOMAIN @ |-> R(@[name])],
                          !.allOf = RSeq(@), !.anyOf = RSeq(@), !.oneOf = RSeq(@),
                          !.items = R(@), !.not = R(@)]]

--------------------------------------------------------------------------------
(* Required properties of the other direction.                             *)

Marked(r, purpose) ==
  \/ purpose = "request" /\ r.readOnly
  \/ purpose = "response" /\ r.writeOnly

\* propertySchemaHasDirectionalAnnotation
IsDirectional(rules, n, purpose) ==
  \E m \in Within({n}, [m \in DOMAIN rules |-> Combined(rules[m])]) : Marked(rules[m], purpose)

\* pruneRequiredAtSchema, for every schema of a tree or a document: the two walks
\* differ in keywords left out here.
Pruned(rules, purpose) ==
  [n \in DOMAIN rules |->
     [rules[n] EXCEPT !.required =
        {name \in @ : name \in DOMAIN rules[n].props =>
                        ~IsDirectional(rules, rules[n].props[name], purpose)}]]

--------------------------------------------------------------------------------
(* OpenAPI 3.0, and texts for scalars.                                     *)

\* The schemas transformNullableSchema adds.
AllOfPart(n) == n \o "/oneOf/0"
NullPart == "null"

\* Mutant: null is a type, but not one of the enumerated values.
NullableTypeOnly(n, r) == [r EXCEPT !.nullable = "absent", !.types = @ \cup {"null"}]

\* transformNullableSchema
Nullable(n, r) ==
  [r EXCEPT !.nullable = "absent",
            !.types = IF @ = {} THEN @ ELSE @ \cup {"null"},
            !.enum = IF @ = {} THEN @ ELSE @ \cup {Null},
            !.allOf = <<>>,
            !.oneOf = IF r.allOf = <<>> THEN @ ELSE @ \o <<AllOfPart(n), NullPart>>]

\* transformExclusiveBound, for minimum; maximum is the same.
NumericBound(r) ==
  CASE r.exclusive = "true" -> [r EXCEPT !.exclusive = "absent", !.above = r.minimum, !.minimum = {}]
    [] r.exclusive = "false" -> [r EXCEPT !.exclusive = "absent"]
    [] r.exclusive = "absent" -> r

\* transformOAS30Keywords
Without30(rules) ==
  LET Changed(n) == NumericBound(IF rules[n].nullable = "true" THEN Nullable(n, rules[n])
                                 ELSE [rules[n] EXCEPT !.nullable = "absent"])
      split == {n \in DOMAIN rules : rules[n].nullable = "true" /\ rules[n].allOf # <<>>}
      PartOf(part) == CHOOSE n \in split : AllOfPart(n) = part
  IN  [n \in DOMAIN rules \cup {AllOfPart(m) : m \in split} \cup {NullPart} |->
         IF n \in DOMAIN rules THEN Changed(n)
         ELSE IF n = NullPart THEN [NoRule EXCEPT !.types = {"null"}]
         ELSE [NoRule EXCEPT !.allOf = rules[PartOf(n)].allOf]]

\* transformTypeForCoercion
WithText(types) == IF types \cap Scalars = {} THEN types ELSE types \cup {"string"}

\* transformCoercionInSchema: the schema of a property named type is put back as
\* it was.
Coerced(rules) ==
  LET kept == UNION {Tree(rules, rules[n].props["type"]) :
                       n \in {m \in DOMAIN rules : "type" \in DOMAIN rules[m].props}}
  IN  [n \in DOMAIN rules |->
         IF n \in kept THEN rules[n] ELSE [rules[n] EXCEPT !.types = WithText(@)]]

\* prepareSchemaForVersion
Prepared(rules) ==
  LET current == IF task.version = "3.0" THEN Without30(rules) ELSE rules
  IN  IF task.coerce THEN Coerced(current) ELSE current

--------------------------------------------------------------------------------
(* CompileSchemaForValidation.                                             *)

\* CompileNullable, and the type of exclusiveMinimum: what fails to compile.
IsRefused(r) == r.nullable # "absent" \/ r.exclusive # "absent"

Rules == task.rules
Document(n) == Rules[n].doc

\* renderRootSchemaForValidation: with its references if it is circular.
Rendered == Pruned(IF IsCircular(Rules, task.root) THEN Rules ELSE Inlined(Rules), task.purpose)

\* singleSchemaCompilePreferred, schemaHasReachableRefs: the rendered schema is
\* enough.
IsSingle ==
  \/ task.purpose = "generic" /\ SchemaRefs(Rendered, task.root) = {}
  \/ SchemaRefs(Rules, task.root) = {}

\* The compiler has the document of every reference it meets (what it would have
\* to load itself is missing), and refuses no keyword.
Compiles(rules, docs) ==
  \A n \in Reached(rules, {task.root}) :
    /\ rules[n].ref # None => rules[rules[n].ref].doc \in docs
    /\ ~IsRefused(rules[n])

PreparationInit ==
  /\ task \in Tasks
  /\ phase = "rendering"
  /\ loops = <<>> /\ seenNodes = {} /\ seenRefs = {} /\ resources = {}
  /\ compiled = <<>>

\* Mutant: what failed to compile is kept.
CompileAnyway(rules, docs) ==
  /\ phase' = IF Compiles(rules, docs) THEN "compiled" ELSE "failed"
  /\ compiled' = rules

CompileRules(rules, docs) ==
  /\ phase' = IF Compiles(rules, docs) THEN "compiled" ELSE "failed"
  /\ compiled' = IF Compiles(rules, docs) THEN rules ELSE <<>>

\* compileSingleValidationSchema: there is no document a reference could name.
CompileSingle ==
  /\ phase = "rendering" /\ IsSingle
  /\ CompileRules(Prepared(Rendered), {})
  /\ UNCHANGED <<task, loops, seenNodes, seenRefs, resources>>

\* buildSchemaDocumentResources
BuildResources ==
  /\ phase = "rendering" /\ ~IsSingle
  /\ phase' = "following"
  /\ resources' = {Document(task.root)}
  /\ seenNodes' = {task.root}
  /\ loops' = <<SchemaRefs(Rules, task.root)>>
  /\ UNCHANGED <<task, seenRefs, compiled>>

Rest(ref) == [loops EXCEPT ![1] = @ \ {ref}]

\* addReachableSchemaResources: a reference that was followed, or one to a schema
\* that was looked through, leads no further.
Follow(ref) ==
  /\ phase = "following" /\ loops # <<>>
  /\ ref \in Head(loops)
  /\ seenRefs' = seenRefs \cup {ref}
  /\ resources' = IF ref \in seenRefs THEN resources ELSE resources \cup {Document(ref)}
  /\ seenNodes' = IF ref \in seenRefs THEN seenNodes ELSE seenNodes \cup {ref}
  /\ loops' = IF ref \in seenRefs \cup seenNodes THEN Rest(ref)
                                                 ELSE <<SchemaRefs(Rules, ref)>> \o Rest(ref)
  /\ UNCHANGED <<task, phase, compiled>>

EndLoop ==
  /\ phase = "following" /\ loops # <<>>
  /\ Head(loops) = {}
  /\ loops' = Tail(loops)
  /\ UNCHANGED <<task, phase, seenNodes, seenRefs, resources, compiled>>

\* NewCompiledSchemaResourcesWithVersion
CompileResources ==
  /\ phase = "following" /\ loops = <<>>
  /\ CompileRules(Prepared(Pruned(Rules, task.purpose)), resources)
  /\ UNCHANGED <<task, loops, seenNodes, seenRefs, resources>>

PreparationNext ==
  \/ CompileSingle \/ BuildResources \/ EndLoop \/ CompileResources
  \/ \E ref \in DOMAIN Rules : Follow(ref)

PreparationSpec == PreparationInit /\ [][PreparationNext]_preparationVars

--------------------------------------------------------------------------------
\* All that the schema is made of.
Parts == Reached(Rules, {task.root})

\* No property has the name of a map of schemas and a reference for a schema.
PlainNames ==
  \A n \in Parts : \A name \in DOMAIN Rules[n].props \cap NameMaps : Rules[Rules[n].props[name]].ref = None

\* The type invariant.
PreparationTypeOK ==
  /\ task \in Tasks
  /\ phase \in {"rendering", "following", "compiled", "failed"}
  /\ loops \in Seq(SUBSET DOMAIN Rules)
  /\ seenNodes \subseteq DOMAIN Rules /\ seenRefs \subseteq DOMAIN Rules
  /\ resources \subseteq {Document(n) : n \in DOMAIN Rules}
  /\ DOMAIN compiled # {} <=> phase = "compiled"
================================================================================
