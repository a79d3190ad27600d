------------------------------- MODULE StrictWalk -------------------------------
(***************************************************************************)
(* strict.Validator: the walk that looks for values a schema does not      *)
(* declare, in a body that was already validated.                          *)
(*                                                                         *)
(* validateValue is called with an instance path and a schema.  The loops  *)
(* that are under way are a stack of sets of calls: the one on top goes on *)
(* with any of its calls, the order of Go's map iteration.                 *)
(* validateObject looks at an object through one or more views: the schema *)
(* itself, allOf merged with its parent, and a variant of oneOf or anyOf   *)
(* merged with its parent.                                                 *)
(*                                                                         *)
(* A document is a function from the paths of its values to "object",      *)
(* "array", "null" or the text of a scalar; an item is a member named by   *)
(* its index.                                                              *)
(***************************************************************************)
EXTENDS Naturals, Sequences, FiniteSets, Bags, Functions, SequencesExt

CONSTANTS Schemas,
          Schema,            \* what each schema says, a record
          Accepted,          \* JSON Schema: for a document, the schemas that accept its
                             \* values, as pairs of a schema and a path
          Names,             \* names of members
          ItemName,          \* the names of the items of an array, in order
          None,              \* no schema, no discriminator
          Tasks,             \* what the validator may be called with
          MaxDepth           \* traversalContext.maxDepth

Direction == {"request", "response"}

\* Schemas are resolved, and refer to schemas.
ASSUME SchemaAssumption ==
  /\ None \notin Schemas
  /\ \A s \in Schemas :
       LET rule == Schema[s]
       IN  /\ \A f \in {rule.props, rule.patterns} : \A n \in DOMAIN f : f[n] \in Schemas
           /\ \A list \in {rule.allOf, rule.oneOf, rule.anyOf, rule.prefixItems} : list \in Seq(Schemas)
           /\ rule.dependent \in Seq([trigger : Names, schema : Schemas])
           /\ {rule.then, rule.else, rule.unevaluatedItems} \subseteq Schemas \cup {None}

MembersIn(doc, path) == {n \in Names : Append(path, n) \in DOMAIN doc}

\* A document is a finite tree, and an array has its items at its first indices.
ASSUME TaskAssumption ==
  /\ MaxDepth \in Nat
  /\ IsInjective(ItemName)
  /\ \A t \in Tasks :
       /\ t.root \in Schemas
       /\ <<>> \in DOMAIN t.doc
       /\ IsFiniteSet(DOMAIN t.doc)
       /\ \A p \in DOMAIN t.doc \ {<<>>} :
            p \in Seq(Names) /\ Front(p) \in DOMAIN t.doc /\ t.doc[Front(p)] \in {"object", "array"}
       /\ \A p \in DOMAIN t.doc : t.doc[p] = "array" =>
            \A i \in 1 .. Cardinality(MembersIn(t.doc, p)) :
              /\ i \in DOMAIN ItemName /\ ItemName[i] \in Names
              /\ Append(p, ItemName[i]) \in DOMAIN t.doc

VARIABLES task,        \* schema, data, direction and options of the call
          loops,       \* the calls each loop under way still makes, innermost first
          visited,     \* traversalContext.visited
          undeclared   \* the values found so far, a bag

vars == <<task, loops, visited, undeclared>>

Call == [path : Seq(Names), schema : Schemas]
Kinds == {"property", "item", "hidden"}

CallOn(path, schema) == [path |-> path, schema |-> schema]

Kind(path) == task.doc[path]
Members(path) == MembersIn(task.doc, path)

\* A schema accepts a document at a path.
Matches(s, doc, path) == <<s, path>> \in Accepted[doc]

\* compileIgnorePaths: the paths that match a pattern.
ShouldIgnore(path) == path \in task.ignore

--------------------------------------------------------------------------------
(* Declared properties.                                                    *)

\* The first function that has a name says what it stands for.
MergeAll(fs) ==
  [n \in UNION {DOMAIN fs[i] : i \in DOMAIN fs} |->
     fs[Min({i \in DOMAIN fs : n \in DOMAIN fs[i]})][n]]

\* The schemas whose properties a schema brings along for the data at a path:
\* its own, those of triggered dependent schemas, those of then or else.
Sources(s, path) ==
  LET rule == Schema[s]
      triggered == [i \in DOMAIN rule.dependent |->
                      IF rule.dependent[i].trigger \in Members(path)
                        THEN rule.dependent[i].schema ELSE None]
      taken == IF Matches(rule.if, task.doc, path) THEN rule.then ELSE rule.else
      branch == IF rule.if = None THEN None ELSE taken
  IN  (<<s>> \o triggered) \o <<branch>>

PropsOf(s) == IF s = None THEN <<>> ELSE Schema[s].props

CollectDeclaredProperties(s, path) ==
  MergeAll([i \in DOMAIN Sources(s, path) |-> PropsOf(Sources(s, path)[i])])

ShouldReportUndeclared(s) == Schema[s].additional # "false"

--------------------------------------------------------------------------------
(* Views: where to go on for a name, which names are declared, whether     *)
(* others are reported, and where to go on for those.                      *)

IsPolymorphic(s) == Len(Schema[s].allOf \o Schema[s].oneOf \o Schema[s].anyOf) > 0

\* validateObject, and recurseIntoDeclaredProperties if extras are forbidden.
PlainView(s, path) ==
  LET rule == Schema[s]
      lookup == MergeAll(<<IF ShouldReportUndeclared(s)
                             THEN CollectDeclaredProperties(s, path) ELSE rule.props,
                           rule.patterns>>)
  IN  [lookup |-> lookup,
       known |-> DOMAIN lookup,
       report |-> ShouldReportUndeclared(s),
       extra |-> IF rule.additional \in Schemas THEN rule.additional ELSE None]

\* Mutant: the properties of the parent are left out.
ViewWithoutParent(s, path) ==
  LET subs == Schema[s].allOf
      lookup == MergeAll([i \in DOMAIN subs |-> CollectDeclaredProperties(subs[i], path)])
  IN  [lookup |-> lookup,
       known |-> DOMAIN lookup \cup UNION {DOMAIN Schema[t].patterns : t \in Range(subs)},
       report |-> \A t \in Range(subs) \cup {s} : ShouldReportUndeclared(t),
       extra |-> None]

\* validateAllOf: all of it and the parent, merged.  A name that only a pattern
\* declares is known, but nothing is called for it.
AllOfView(s, path) ==
  LET subs == Append(Schema[s].allOf, s)
      lookup == MergeAll([i \in DOMAIN subs |-> CollectDeclaredProperties(subs[i], path)])
  IN  [lookup |-> lookup,
       known |-> DOMAIN lookup \cup UNION {DOMAIN Schema[t].patterns : t \in Range(subs)},
       report |-> \A t \in Range(subs) : ShouldReportUndeclared(t),
       extra |-> None]

\* validateVariantWithParent: the variant before the parent.
VariantView(s, variant, path) ==
  LET lookup == MergeAll(<<CollectDeclaredProperties(variant, path),
                           CollectDeclaredProperties(s, path),
                           Schema[variant].patterns, Schema[s].patterns>>)
  IN  [lookup |-> lookup,
       known |-> DOMAIN lookup,
       report |-> ShouldReportUndeclared(variant) \/ ShouldReportUndeclared(s),
       extra |-> None]

\* selectByDiscriminator: by mapping or by the name of the reference.
SelectByDiscriminator(s, variants, path) ==
  LET rule == Schema[s]
      text == Kind(Append(path, rule.discriminator))
  IN  IF /\ rule.discriminator \in Members(path)
         /\ text \in DOMAIN rule.mapping
         /\ rule.mapping[text] \in Range(variants)
        THEN rule.mapping[text]
        ELSE None

\* findMatchingVariant: the first the data validates against.
FindMatchingVariant(variants, path) ==
  LET matching == {i \in DOMAIN variants : Matches(variants[i], task.doc, path)}
  IN  IF matching = {} THEN None ELSE variants[Min(matching)]

\* validateOneOf, validateAnyOf.
VariantViews(s, variants, path) ==
  LET selected == SelectByDiscriminator(s, variants, path)
      variant == IF selected # None THEN selected ELSE FindMatchingVariant(variants, path)
  IN  IF variant = None THEN <<>> ELSE <<VariantView(s, variant, path)>>

\* validateObject, validatePolymorphic: the views in the order they are taken.
Views(call) ==
  LET s == call.schema
      path == call.path
      allOf == IF Schema[s].allOf = <<>> THEN <<>> ELSE <<AllOfView(s, path)>>
  IN  IF IsPolymorphic(s)
        THEN allOf \o VariantViews(s, Schema[s].oneOf, path)
                   \o VariantViews(s, Schema[s].anyOf, path)
        ELSE <<PlainView(s, path)>>

--------------------------------------------------------------------------------
(* One call of validateValue.                                              *)

\* checkReadWriteOnlyViolation, shouldSkipProperty: readOnly in a request,
\* writeOnly in a response.
Hidden(s) == task.direction \in Schema[s].hiddenIn

\* The members a view looks at.
Seen(path) == {n \in Members(path) : ~ShouldIgnore(Append(path, n))}

\* What a view calls for the members of an object.
CallsOf(view, path) ==
  {CallOn(Append(path, n), view.lookup[n]) :
      n \in {m \in Seen(path) \cap DOMAIN view.lookup : ~Hidden(view.lookup[m])}}
  \cup
  (IF view.extra = None THEN {}
     ELSE {CallOn(Append(path, n), view.extra) : n \in Seen(path) \ view.known})

\* What a view reports: names it does not know, and hidden properties if the
\* options ask for them.
FoundBy(view, path) ==
  {[path |-> Append(path, n), kind |-> "property"] :
      n \in {m \in Seen(path) \ view.known : view.report}}
  \cup
  {[path |-> Append(path, n), kind |-> "hidden"] :
      n \in {m \in Seen(path) \cap DOMAIN view.lookup : task.reject /\ Hidden(view.lookup[m])}}

Length(path) == Cardinality(Members(path))

\* validateArray: the schema an item is held to, if there is one.
SchemaOfItem(s, i) ==
  LET rule == Schema[s]
  IN  IF rule.items = "false" THEN None
      ELSE IF i <= Len(rule.prefixItems) THEN rule.prefixItems[i]
      ELSE IF rule.items \in Schemas THEN rule.items
      ELSE IF rule.items = "absent" THEN rule.unevaluatedItems
      ELSE None

\* Mutant: no check for an item without a schema.
CallsForAnyItem(call, i) ==
  {CallOn(Append(call.path, ItemName[i]), SchemaOfItem(call.schema, i))}

CallsForItem(call, i) ==
  LET path == Append(call.path, ItemName[i])
      schema == SchemaOfItem(call.schema, i)
  IN  IF schema = None \/ ShouldIgnore(path) THEN {} ELSE {CallOn(path, schema)}

ItemsForbidden(call) ==
  {[path |-> Append(call.path, n), kind |-> "item"] :
      n \in {m \in Members(call.path) : Schema[call.schema].items = "false"}}

\* The loops a call runs: one for each view, or for each item.
LoopsOf(call) ==
  CASE Kind(call.path) = "object" ->
         [i \in DOMAIN Views(call) |-> CallsOf(Views(call)[i], call.path)]
    [] Kind(call.path) = "array" ->
         [i \in 1 .. Length(call.path) |-> CallsForItem(call, i)]
    [] OTHER -> <<>>

\* What it reports itself, and in which of its loops.
Found(call) ==
  CASE Kind(call.path) = "object" ->
         UNION {{<<i, f>> : f \in FoundBy(Views(call)[i], call.path)} : i \in DOMAIN Views(call)}
    [] Kind(call.path) = "array" -> {<<1, f>> : f \in ItemsForbidden(call)}
    [] OTHER -> {}

\* The early returns of validateValue but the one for a repeated call.
Refused(call) ==
  \/ Kind(call.path) = "null"
  \/ ShouldIgnore(call.path)
  \/ Len(call.path) > MaxDepth

--------------------------------------------------------------------------------
Init ==
  /\ task \in Tasks
  /\ loops = <<{CallOn(<<>>, task.root)}>>
  /\ visited = {}
  /\ undeclared = EmptyBag

\* Mutant: a loop ends with the first call it makes.
RestLost(call) == Tail(loops)

\* What is left of the loop on top once a call was made.
Rest(call) == [loops EXCEPT ![1] = @ \ {call}]

\* validateValue returns at once: also if a call with this path and this schema
\* was made before (checkAndMarkVisited).
Skip(call) ==
  /\ Refused(call) \/ call \in visited
  /\ loops' = Rest(call)
  /\ UNCHANGED <<task, visited, undeclared>>

\* Mutant: what was walked before is walked again.
WalkAgain(call) ==
  /\ ~Refused(call)
  /\ visited' = visited \cup {call}
  /\ undeclared' = undeclared (+) SetToBag(Found(call))
  /\ loops' = LoopsOf(call) \o Rest(call)
  /\ UNCHANGED task

\* validateValue, validateObject, validatePolymorphic, validateArray.
Walk(call) ==
  /\ ~Refused(call)
  /\ call \notin visited
  /\ visited' = visited \cup {call}
  /\ undeclared' = undeclared (+) SetToBag(Found(call))
  /\ loops' = LoopsOf(call) \o Rest(call)
  /\ UNCHANGED task

\* A loop has no calls left.
EndLoop ==
  /\ Head(loops) = {}
  /\ loops' = Tail(loops)
  /\ UNCHANGED <<task, visited, undeclared>>

Done == loops = <<>>

Next ==
  /\ ~Done
  /\ \/ EndLoop
     \/ \E call \in Head(loops) : Skip(call) \/ Walk(call)

Spec == Init /\ [][Next]_vars

--------------------------------------------------------------------------------
Finding == [path : Seq(Names), kind : Kinds]

\* The type invariant.
TypeOK ==
  /\ task \in Tasks
  /\ loops \in Seq(SUBSET Call)
  /\ visited \subseteq Call
  /\ IsABag(undeclared)
  /\ DOMAIN undeclared \subseteq Nat \X Finding

\* The calls a walked call leads to.
CallsFrom(call) == UNION Range(LoopsOf(call))

Settled(call) == call \in visited \/ Refused(call)

\* The walk leaves nothing out: when it ends, the body itself and every value a
\* walked call leads to was walked with the schema that call names, unless it is
\* null, ignored or too deep; in whatever order the maps are iterated, and
\* although a repeated call returns at once (checkAndMarkVisited).
WalkComplete ==
  Done => /\ Settled(CallOn(<<>>, task.root))
          /\ \A call \in visited : \A next \in CallsFrom(call) : Settled(next)

\* The result has what each walked call reports, once for each of these calls:
\* a schema that is met twice for the same value, by allOf and by oneOf, adds
\* what it reports once.
WalkedOnce ==
  /\ BagToSet(undeclared) = UNION {Found(call) : call \in visited}
  /\ \A f \in BagToSet(undeclared) :
       undeclared[f] = Cardinality({call \in visited : f \in Found(call)})

--------------------------------------------------------------------------------
(* What JSON Schema says is declared, without a walk: the schemas that     *)
(* apply to a value, and the names they declare.                           *)

\* The schemas that apply to a value next to s.
AppliedWith(s, path) ==
  (Range(Sources(s, path)) \ {None}) \cup Range(Schema[s].allOf)
    \cup {t \in Range(Schema[s].oneOf \o Schema[s].anyOf) : Matches(t, task.doc, path)}

Declares(s, n) == n \in DOMAIN Schema[s].props \cup DOMAIN Schema[s].patterns

\* The schemas s has for a member, or for an item.
SchemasFor(s, path, n) ==
  LET rule == Schema[s]
      named == {f[n] : f \in {g \in {rule.props, rule.patterns} : n \in DOMAIN g}}
      index == CHOOSE i \in DOMAIN ItemName : ItemName[i] = n
  IN  CASE Kind(path) = "object" /\ named # {} -> named
        [] Kind(path) = "object" /\ named = {} -> {rule.additional} \cap Schemas
        [] Kind(path) = "array" -> {SchemaOfItem(s, index)} \cap Schemas
        [] OTHER -> {}

\* What s leads to for a member: nothing if the property is hidden.
LeadsTo(s, path, n) ==
  {t \in SchemasFor(s, path, n) : Kind(path) = "object" /\ Declares(s, n) => ~Hidden(t)}

\* The schemas a value gets from those of the value it is in.
PassedOn(above, path) ==
  LET around == UNION {AppliedWith(s, Front(path)) : s \in above}
  IN  IF ShouldIgnore(path) \/ ShouldIgnore(Front(path)) THEN {}
      ELSE UNION {LeadsTo(s, Front(path), Last(path)) : s \in around}

\* For each value the schemas its place gives it.
GivenTo ==
  LET given[p \in DOMAIN task.doc] ==
        IF p = <<>> THEN {task.root} ELSE PassedOn(given[Front(p)], p)
  IN  given

AppliedTo(path) == UNION {AppliedWith(s, path) : s \in GivenTo[path]}

\* The members and items of what is looked at.
Inspected ==
  {p \in DOMAIN task.doc : /\ p # <<>>
                           /\ AppliedTo(Front(p)) # {}
                           /\ ~ShouldIgnore(Front(p))
                           /\ ~ShouldIgnore(p)}

\* All schemas there are for a member or an item, hidden or not.
OfferedTo(path) == UNION {SchemasFor(s, Front(path), Last(path)) : s \in AppliedTo(Front(path))}

\* What a strict validation is to report.
Expected ==
  {[path |-> p, kind |-> "property"] :
      p \in {q \in Inspected : /\ Kind(Front(q)) = "object"
                               /\ \A s \in AppliedTo(Front(q)) : ~Declares(s, Last(q))}}
  \cup
  {[path |-> p, kind |-> "hidden"] :
      p \in {q \in Inspected :
               /\ task.reject
               /\ Kind(Front(q)) = "object"
               /\ \E s \in AppliedTo(Front(q)) :
                    \E t \in SchemasFor(s, Front(q), Last(q)) : Declares(s, Last(q)) /\ Hidden(t)}}

--------------------------------------------------------------------------------
(* Where strict mode is exact.                                             *)

\* What JSON Schema asks of a value that s accepts.
IsObeyed(s, doc, path) ==
  LET rule == Schema[s]
      members == MembersIn(doc, path)
      Here(t) == Matches(t, doc, path)
      Under(t, n) == Matches(t, doc, Append(path, n))
      others == {n \in members : ~Declares(s, n)}
  IN  /\ doc[path] = "object" =>
           /\ \A f \in {rule.props, rule.patterns} : \A n \in members \cap DOMAIN f : Under(f[n], n)
           /\ rule.additional = "false" => others = {}
           /\ rule.additional \in Schemas => \A n \in others : Under(rule.additional, n)
           /\ \A i \in DOMAIN rule.dependent :
                rule.dependent[i].trigger \in members => Here(rule.dependent[i].schema)
           /\ rule.if # None =>
                \A t \in {IF Here(rule.if) THEN rule.then ELSE rule.else} \ {None} : Here(t)
      /\ doc[path] = "array" =>
           \A i \in 1 .. Cardinality(members) :
             SchemaOfItem(s, i) # None => Under(SchemaOfItem(s, i), ItemName[i])
      /\ \A t \in Range(rule.allOf) : Here(t)
      /\ rule.oneOf # <<>> => \E t \in Range(rule.oneOf) : Here(t)
      /\ \A t, u \in Range(rule.oneOf) : Here(t) /\ Here(u) => t = u
      /\ rule.anyOf # <<>> => \E t \in Range(rule.anyOf) : Here(t)

\* Strict mode runs on a body its schema accepts.
ASSUME AcceptedAssumption ==
  \A t \in Tasks :
    /\ Matches(t.root, t.doc, <<>>)
    /\ \A s \in Schemas, p \in DOMAIN t.doc : Matches(s, t.doc, p) => IsObeyed(s, t.doc, p)

Combinations == {"allOf", "oneOf", "anyOf"}
Parts(s) == UNION {Range(Schema[s][c]) : c \in Combinations}

\* One of allOf, oneOf and anyOf, its parts without any of these and without
\* conditions on the data, one part of an anyOf that matches, the one the
\* discriminator says.
OneCombination(s, path) ==
  LET rule == Schema[s]
  IN  /\ \A c, d \in Combinations : rule[c] # <<>> /\ rule[d] # <<>> => c = d
      /\ \A t \in (AppliedWith(s, path) \cup Parts(s)) \ {s} :
           ~IsPolymorphic(t) /\ Range(Sources(t, path)) \subseteq {t, None}
      /\ \A t, u \in Range(rule.anyOf) :
           Matches(t, task.doc, path) /\ Matches(u, task.doc, path) => t = u
      /\ \A variants \in {rule.oneOf, rule.anyOf} :
           LET selected == SelectByDiscriminator(s, variants, path)
           IN  selected = None \/ Matches(selected, task.doc, path)

\* A value that gets one schema, and a schema that takes names from one place.
Plain(path) ==
  /\ path # <<>> => \A s, t \in OfferedTo(path) : s = t
  /\ \A s \in GivenTo[path] :
       LET alone == Range(Sources(s, path)) \subseteq {s, None}
       IN  /\ OneCombination(s, path)
           /\ Kind(path) = "array" => alone /\ ~IsPolymorphic(s) /\ Schema[s].items # "false"
           /\ Kind(path) \in {"object", "array"} => Len(path) <= MaxDepth
           /\ Kind(path) = "object" /\ (IsPolymorphic(s) \/ ~alone) =>
                \A t \in AppliedWith(s, path) :
                  /\ Schema[t].additional \notin Schemas
                  /\ Schema[t].patterns = <<>> \/ (t = s /\ Schema[s].allOf = <<>>)

\* A strict validation of a valid body reports exactly the members no schema
\* that applies to them declares, and the hidden ones if asked to, each once:
\* where schemas combine in one way at a time.  (Where they do not, and for an
\* array with items: false and prefixItems, strict mode reports declared values.)
FindingsExact ==
  Done /\ (\A p \in DOMAIN task.doc : Plain(p)) =>
    /\ {f[2] : f \in BagToSet(undeclared)} = Expected
    /\ \A f \in BagToSet(undeclared) :
         undeclared[f] = 1 /\ \A g \in BagToSet(undeclared) : f[2] = g[2] => f = g

================================================================================
