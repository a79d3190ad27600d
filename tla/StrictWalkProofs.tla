---------------------------- MODULE StrictWalkProofs ----------------------------
(***************************************************************************)
(* Proofs about StrictWalk.                                                *)
(*                                                                         *)
(* WalkInv says that a call is pending, was walked, or is refused: for the *)
(* body itself, and for whatever a walked call leads to.  A step moves a   *)
(* call from pending to one of the others, or puts new ones on the stack.  *)
(* When the stack is empty nothing is pending.                             *)
(*                                                                         *)
(* That the findings are exact is shown in four steps.  A document has a   *)
(* path for every value, so what holds of the body and passes from a value *)
(* to what is in it holds of all (PathInduction).  The schemas a place is  *)
(* given accept the value there (GivenAccept).  Then one view is taken of  *)
(* an object, and it shows what these schemas declare (OneView).  So the   *)
(* walk leads where the schemas are given, and nowhere else (Leads, with   *)
(* LedInv), and reports what is expected (CallReports).                    *)
(***************************************************************************)
EXTENDS StrictWalk, SequenceTheorems, FiniteSetTheorems, WellFoundedInduction, TLAPS

--------------------------------------------------------------------------------
(* What does not depend on the progress of the walk.                       *)

\* What reads only the call's task does not change.
LEMMA UndisturbedData ==
  ASSUME UNCHANGED task
  PROVE  /\ \A call : Refused(call)' = Refused(call)
         /\ \A path : Kind(path)' = Kind(path)
         /\ \A path : Members(path)' = Members(path)
         /\ \A path : Seen(path)' = Seen(path)
         /\ \A s : Hidden(s)' = Hidden(s)
         /\ \A path : ShouldIgnore(path)' = ShouldIgnore(path)
BY DEF Refused, Kind, ShouldIgnore, Members, Seen, Hidden

\* The same, for the declared properties.
LEMMA UndisturbedSources ==
  ASSUME UNCHANGED task, NEW s, NEW path
  PROVE  /\ Sources(s, path)' = Sources(s, path)
         /\ CollectDeclaredProperties(s, path)' = CollectDeclaredProperties(s, path)
BY SMT DEF CollectDeclaredProperties, Sources, Members, MergeAll

\* The same, for the views.
LEMMA UndisturbedViews ==
  ASSUME UNCHANGED task, NEW call
  PROVE  Views(call)' = Views(call)
<1>1. \A s, path : CollectDeclaredProperties(s, path)' = CollectDeclaredProperties(s, path)
  BY UndisturbedSources
<1>2. \A s, path : PlainView(s, path)' = PlainView(s, path)
  BY <1>1 DEF PlainView
<1>3. \A s, variant, path : VariantView(s, variant, path)' = VariantView(s, variant, path)
  BY <1>1 DEF VariantView
<1>4. \A s, path : AllOfView(s, path)' = AllOfView(s, path)
  BY <1>1 DEF AllOfView
<1>5. \A s, variants, path : SelectByDiscriminator(s, variants, path)' = SelectByDiscriminator(s, variants, path)
  BY UndisturbedData DEF SelectByDiscriminator
<1>6. \A variants, path : FindMatchingVariant(variants, path)' = FindMatchingVariant(variants, path)
  BY DEF FindMatchingVariant
<1>7. \A s, variants, path : VariantViews(s, variants, path)' = VariantViews(s, variants, path)
  BY <1>3, <1>5, <1>6 DEF VariantViews
<1> QED
  BY <1>2, <1>4, <1>7 DEF Views

\* The same, for what a call leads to and reports.
LEMMA UndisturbedCalls ==
  ASSUME UNCHANGED task, NEW call
  PROVE  /\ LoopsOf(call)' = LoopsOf(call)
         /\ Found(call)' = Found(call)
<1>1. \A view, path : CallsOf(view, path)' = CallsOf(view, path)
  BY UndisturbedData DEF CallsOf
<1>2. \A view, path : FoundBy(view, path)' = FoundBy(view, path)
  BY UndisturbedData DEF FoundBy
<1>3. \A i : CallsForItem(call, i)' = CallsForItem(call, i)
  BY UndisturbedData DEF CallsForItem
<1>4. ItemsForbidden(call)' = ItemsForbidden(call)
  BY UndisturbedData DEF ItemsForbidden
<1>5. Length(call.path)' = Length(call.path)
  BY UndisturbedData DEF Length
<1>6. LoopsOf(call)' = LoopsOf(call)
  <2> DEFINE ofViews == [i \in DOMAIN Views(call) |-> CallsOf(Views(call)[i], call.path)]
             ofItems == [i \in 1 .. Length(call.path) |-> CallsForItem(call, i)]
  <2>1. ofViews' = ofViews
    BY <1>1, UndisturbedViews
  <2>2. ofItems' = ofItems
    BY <1>3, <1>5
  <2>3. Kind(call.path)' = Kind(call.path)
    BY UndisturbedData
  <2>4. LoopsOf(call) = CASE Kind(call.path) = "object" -> ofViews
                          [] Kind(call.path) = "array" -> ofItems
                          [] OTHER -> <<>>
    BY Zenon DEF LoopsOf
  <2>5. LoopsOf(call)' = CASE Kind(call.path)' = "object" -> ofViews'
                           [] Kind(call.path)' = "array" -> ofItems'
                           [] OTHER -> <<>>
    BY Zenon DEF LoopsOf
  <2> HIDE DEF ofViews, ofItems
  <2> QED
    BY <2>1, <2>2, <2>3, <2>4, <2>5
<1>7. Found(call)' = Found(call)
  BY <1>2, <1>4, UndisturbedViews, UndisturbedData DEF Found
<1> QED
  BY <1>6, <1>7

--------------------------------------------------------------------------------
(* Types.                                                                  *)

\* A map of properties.
HasSchemas(f) == \A n \in DOMAIN f : f[n] \in Schemas

\* A set of places in a sequence has a first one.
LEMMA HasLeast ==
  ASSUME NEW S \in SUBSET Nat, S # {}
  PROVE  Min(S) \in S /\ \A i \in S : Min(S) <= i
<1>1. \A i, j \in Nat : i < j => <<i, j>> \in OpToRel(<, Nat)
  BY DEF OpToRel
<1>2. \E i \in S : \A j \in S : <<j, i>> \notin OpToRel(<, Nat)
  BY NatLessThanWellFounded, WFMin
<1>3. \E i \in S : \A j \in S : ~(j < i)
  BY <1>1, <1>2, Zenon
<1>4. \E i \in S : \A j \in S : i <= j
  BY <1>3
<1> QED
  BY <1>4 DEF Min

\* mergePropertiesIntoDeclared: maps of properties merge into one.
LEMMA MergeTyped ==
  ASSUME NEW fs, DOMAIN fs \subseteq Nat, \A i \in DOMAIN fs : HasSchemas(fs[i])
  PROVE  HasSchemas(MergeAll(fs))
<1> SUFFICES ASSUME NEW n \in UNION {DOMAIN fs[i] : i \in DOMAIN fs}
             PROVE  MergeAll(fs)[n] \in Schemas
  BY DEF HasSchemas, MergeAll
<1> DEFINE places == {i \in DOMAIN fs : n \in DOMAIN fs[i]}
<1>1. Min(places) \in places
  BY HasLeast
<1>2. MergeAll(fs)[n] = fs[Min(places)][n]
  BY DEF MergeAll
<1> QED
  BY <1>1, <1>2 DEF HasSchemas

\* What SchemaAssumption says, item by item.
LEMMA RuleTyped ==
  ASSUME NEW s \in Schemas
  PROVE  /\ HasSchemas(Schema[s].props)
         /\ HasSchemas(Schema[s].patterns)
         /\ Schema[s].allOf \in Seq(Schemas)
         /\ Schema[s].oneOf \in Seq(Schemas)
         /\ Schema[s].anyOf \in Seq(Schemas)
         /\ Schema[s].prefixItems \in Seq(Schemas)
         /\ Schema[s].dependent \in Seq([trigger : Names, schema : Schemas])
         /\ Schema[s].then \in Schemas \cup {None}
         /\ Schema[s].else \in Schemas \cup {None}
         /\ Schema[s].unevaluatedItems \in Schemas \cup {None}
BY SchemaAssumption DEF HasSchemas

\* Properties are collected from schemas, or from none.
LEMMA SourcesTyped ==
  ASSUME NEW s \in Schemas, NEW path
  PROVE  Sources(s, path) \in Seq(Schemas \cup {None})
<1> DEFINE rule == Schema[s]
           triggered == [i \in DOMAIN rule.dependent |->
                           IF rule.dependent[i].trigger \in Members(path)
                             THEN rule.dependent[i].schema ELSE None]
           taken == IF Matches(rule.if, task.doc, path) THEN rule.then ELSE rule.else
           branch == IF rule.if = None THEN None ELSE taken
<1>1. triggered \in Seq(Schemas \cup {None})
  <2>1. rule.dependent \in Seq([trigger : Names, schema : Schemas])
    BY RuleTyped
  <2>2. /\ Len(rule.dependent) \in Nat
        /\ DOMAIN rule.dependent = 1 .. Len(rule.dependent)
    BY <2>1, LenProperties
  <2>3. \A i \in 1 .. Len(rule.dependent) :
          rule.dependent[i] \in [trigger : Names, schema : Schemas]
    BY <2>1, ElementOfSeq, Zenon
  <2>4. triggered \in [1 .. Len(rule.dependent) -> Schemas \cup {None}]
    BY <2>2, <2>3
  <2> QED
    BY <2>2, <2>4
<1>2. branch \in Schemas \cup {None}
  BY RuleTyped
<1>3. <<s>> \in Seq(Schemas \cup {None}) /\ <<branch>> \in Seq(Schemas \cup {None})
  BY <1>2
<1> HIDE DEF triggered, branch, taken
<1>4. (<<s>> \o triggered) \o <<branch>> \in Seq(Schemas \cup {None})
  BY <1>1, <1>3
<1> QED
  BY <1>4 DEF Sources, triggered, branch, taken

\* collectDeclaredProperties gives a map of properties.
LEMMA CollectTyped ==
  ASSUME NEW s \in Schemas, NEW path
  PROVE  HasSchemas(CollectDeclaredProperties(s, path))
<1> DEFINE sources == Sources(s, path)
           fs == [i \in DOMAIN sources |-> PropsOf(sources[i])]
<1>1. sources \in Seq(Schemas \cup {None})
  BY SourcesTyped
<1> HIDE DEF sources
<1>2. \A t \in Schemas \cup {None} : HasSchemas(PropsOf(t))
  BY RuleTyped DEF PropsOf, HasSchemas
<1>3. DOMAIN fs \subseteq Nat /\ \A i \in DOMAIN fs : HasSchemas(fs[i])
  BY <1>1, <1>2
<1>4. HasSchemas(MergeAll(fs))
  BY <1>3, MergeTyped
<1> QED
  BY <1>4 DEF CollectDeclaredProperties, sources

\* Where a view leads to is a schema.
LeadsToSchemas(view) == HasSchemas(view.lookup) /\ view.extra \in Schemas \cup {None}

\* The view of validateObject.
LEMMA PlainTyped ==
  ASSUME NEW s \in Schemas, NEW path
  PROVE  LeadsToSchemas(PlainView(s, path))
<1> DEFINE declared == IF ShouldReportUndeclared(s)
                         THEN CollectDeclaredProperties(s, path) ELSE Schema[s].props
           fs == <<declared, Schema[s].patterns>>
<1>1. HasSchemas(declared)
  BY CollectTyped, RuleTyped
<1> HIDE DEF declared
<1>2. DOMAIN fs \subseteq Nat /\ \A i \in DOMAIN fs : HasSchemas(fs[i])
  BY <1>1, RuleTyped
<1>3. HasSchemas(MergeAll(fs))
  BY <1>2, MergeTyped
<1>4. PlainView(s, path).lookup = MergeAll(fs)
  BY DEF PlainView, declared
<1>5. PlainView(s, path).extra \in Schemas \cup {None}
  BY DEF PlainView
<1> QED
  BY <1>3, <1>4, <1>5 DEF LeadsToSchemas

\* The view of validateVariantWithParent.
LEMMA VariantTyped ==
  ASSUME NEW s \in Schemas, NEW variant \in Schemas, NEW path
  PROVE  LeadsToSchemas(VariantView(s, variant, path))
<1> DEFINE fs == <<CollectDeclaredProperties(variant, path),
                   CollectDeclaredProperties(s, path),
                   Schema[variant].patterns, Schema[s].patterns>>
<1>1. DOMAIN fs \subseteq Nat /\ \A i \in DOMAIN fs : HasSchemas(fs[i])
  BY CollectTyped, RuleTyped
<1>2. HasSchemas(MergeAll(fs))
  BY <1>1, MergeTyped
<1>3. /\ VariantView(s, variant, path).lookup = MergeAll(fs)
      /\ VariantView(s, variant, path).extra = None
  BY DEF VariantView
<1> QED
  BY <1>2, <1>3 DEF LeadsToSchemas

\* The view of validateAllOf.
LEMMA AllOfTyped ==
  ASSUME NEW s \in Schemas, NEW path
  PROVE  LeadsToSchemas(AllOfView(s, path))
<1> DEFINE subs == Append(Schema[s].allOf, s)
           fs == [i \in DOMAIN subs |-> CollectDeclaredProperties(subs[i], path)]
<1>1. subs \in Seq(Schemas)
  BY RuleTyped
<1>2. /\ AllOfView(s, path).lookup = MergeAll(fs)
      /\ AllOfView(s, path).extra = None
  BY DEF AllOfView
<1> HIDE DEF subs
<1>3. DOMAIN fs \subseteq Nat /\ \A i \in DOMAIN fs : HasSchemas(fs[i])
  BY <1>1, CollectTyped
<1>4. HasSchemas(MergeAll(fs))
  BY <1>3, MergeTyped
<1> QED
  BY <1>2, <1>4 DEF LeadsToSchemas

\* The views there can be of a value.
ViewsAt(s, path) ==
  {PlainView(s, path), AllOfView(s, path)} \cup {VariantView(s, t, path) : t \in Schemas}

\* The views of validateOneOf and of validateAnyOf: at most one.
LEMMA VariantViewsTyped ==
  ASSUME NEW s \in Schemas, NEW variants \in Seq(Schemas), NEW path
  PROVE  VariantViews(s, variants, path) \in Seq(ViewsAt(s, path))
<1> DEFINE selected == SelectByDiscriminator(s, variants, path)
           matching == {i \in DOMAIN variants : Matches(variants[i], task.doc, path)}
           found == FindMatchingVariant(variants, path)
           variant == IF selected # None THEN selected ELSE found
<1>1. selected \in Schemas \cup {None}
  <2>1. \A t \in Range(variants) : t \in Schemas
    BY RangeOfSeq
  <2> QED
    BY <2>1 DEF SelectByDiscriminator
<1>2. found \in Schemas \cup {None}
  <2>1. CASE matching = {}
    BY <2>1 DEF FindMatchingVariant
  <2>2. CASE matching # {}
    <3>1. matching \subseteq DOMAIN variants /\ DOMAIN variants \subseteq Nat
      OBVIOUS
    <3>2. Min(matching) \in matching
      BY <2>2, <3>1, HasLeast, Zenon
    <3> QED
      BY <2>2, <3>1, <3>2 DEF FindMatchingVariant
  <2> QED
    BY <2>1, <2>2
<1>3. VariantViews(s, variants, path) =
        IF variant = None THEN <<>> ELSE <<VariantView(s, variant, path)>>
  BY DEF VariantViews
<1> HIDE DEF selected, found
<1> QED
  BY <1>1, <1>2, <1>3 DEF ViewsAt

\* The views of a call.
LEMMA ViewsTyped ==
  ASSUME NEW call \in Call
  PROVE  /\ Views(call) \in Seq(ViewsAt(call.schema, call.path))
         /\ \A view \in ViewsAt(call.schema, call.path) : LeadsToSchemas(view)
<1> DEFINE s == call.schema
           path == call.path
           S == ViewsAt(s, path)
<1>1. s \in Schemas
  BY DEF Call
<1>2. \A view \in S : LeadsToSchemas(view)
  BY <1>1, PlainTyped, VariantTyped, AllOfTyped DEF ViewsAt
<1>3. VariantViews(s, Schema[s].oneOf, path) \in Seq(S)
  BY <1>1, RuleTyped, VariantViewsTyped
<1>4. VariantViews(s, Schema[s].anyOf, path) \in Seq(S)
  BY <1>1, RuleTyped, VariantViewsTyped
<1>5. <<PlainView(s, path)>> \in Seq(S) /\ <<AllOfView(s, path)>> \in Seq(S)
  BY DEF ViewsAt
<1> HIDE DEF S
<1>6. Views(call) \in Seq(S)
  BY <1>3, <1>4, <1>5 DEF Views
<1> QED
  BY <1>2, <1>6 DEF S

\* The calls on values of the document.
Within == {call \in Call : call.path \in DOMAIN task.doc}

\* The length of an array is a number.
LEMMA MembersFinite ==
  ASSUME task \in Tasks, NEW path \in Seq(Names)
  PROVE  IsFiniteSet(Members(path)) /\ Length(path) \in Nat
<1> DEFINE f == [n \in Members(path) |-> Append(path, n)]
<1>1. IsFiniteSet(DOMAIN task.doc)
  BY TaskAssumption
<1>2. f \in [Members(path) -> DOMAIN task.doc]
  BY DEF Members, MembersIn
<1>3. \A m, n \in Members(path) : f[m] = f[n] => m = n
  <2>1. SUFFICES ASSUME NEW m \in Members(path), NEW n \in Members(path),
                        Append(path, m) = Append(path, n)
                 PROVE  m = n
    OBVIOUS
  <2>2. m \in Names /\ n \in Names
    BY DEF Members, MembersIn
  <2> QED
    BY <2>1, <2>2, AppendInjective
<1>4. f \in Injection(Members(path), DOMAIN task.doc)
  BY <1>2, <1>3 DEF Injection, IsInjective
<1>5. IsFiniteSet(Members(path))
  BY <1>1, <1>4, FS_Injection
<1> QED
  BY <1>5, FS_CardinalityType DEF Length

\* A view calls for values of the document, with schemas.
LEMMA MemberCalls ==
  ASSUME NEW call \in Within, NEW view, LeadsToSchemas(view)
  PROVE  CallsOf(view, call.path) \subseteq Within
<1>1. \A n \in Members(call.path), s \in Schemas : CallOn(Append(call.path, n), s) \in Within
  BY AppendProperties DEF Within, Call, CallOn, Members, MembersIn
<1>2. Seen(call.path) \subseteq Members(call.path)
  BY DEF Seen
<1>3. \A n \in DOMAIN view.lookup : view.lookup[n] \in Schemas
  BY DEF LeadsToSchemas, HasSchemas
<1>4. view.extra \in Schemas \cup {None}
  BY DEF LeadsToSchemas
<1> QED
  BY <1>1, <1>2, <1>3, <1>4 DEF CallsOf

\* So does validateArray.
LEMMA ItemCalls ==
  ASSUME task \in Tasks, NEW call \in Within, Kind(call.path) = "array",
         NEW i \in 1 .. Length(call.path)
  PROVE  CallsForItem(call, i) \subseteq Within
<1>1. call.path \in Seq(Names) /\ call.schema \in Schemas /\ call.path \in DOMAIN task.doc
  BY DEF Within, Call
<1>2. ItemName[i] \in Names /\ Append(call.path, ItemName[i]) \in DOMAIN task.doc
  BY <1>1, TaskAssumption DEF Kind, Length, Members
<1>3. SchemaOfItem(call.schema, i) \in Schemas \cup {None}
  <2>1. Schema[call.schema].prefixItems \in Seq(Schemas)
    BY <1>1, RuleTyped
  <2>2. Length(call.path) \in Nat
    BY <1>1, MembersFinite
  <2>3. i <= Len(Schema[call.schema].prefixItems) => Schema[call.schema].prefixItems[i] \in Schemas
    BY <2>1, <2>2
  <2> QED
    BY <1>1, <2>3, RuleTyped DEF SchemaOfItem
<1> DEFINE path == Append(call.path, ItemName[i])
           schema == SchemaOfItem(call.schema, i)
<1>4. schema # None => CallOn(path, schema) \in Within
  <2>1. path \in Seq(Names)
    BY <1>1, <1>2, AppendProperties
  <2> QED
    BY <1>2, <1>3, <2>1 DEF CallOn, Within, Call
<1>5. CallsForItem(call, i) = IF schema = None \/ ShouldIgnore(path) THEN {} ELSE {CallOn(path, schema)}
  BY DEF CallsForItem
<1> HIDE DEF path, schema
<1> QED
  BY <1>4, <1>5

\* The loops of a call.
LEMMA LoopsTyped ==
  ASSUME task \in Tasks, NEW call \in Within
  PROVE  LoopsOf(call) \in Seq(SUBSET Within)
<1> DEFINE views == Views(call)
           ofViews == [i \in DOMAIN views |-> CallsOf(views[i], call.path)]
           ofItems == [i \in 1 .. Length(call.path) |-> CallsForItem(call, i)]
<1>1. call \in Call
  BY DEF Within
<1>2. /\ views \in Seq(ViewsAt(call.schema, call.path))
      /\ \A view \in ViewsAt(call.schema, call.path) : LeadsToSchemas(view)
  BY <1>1, ViewsTyped
<1> HIDE DEF views
<1>3. ofViews \in Seq(SUBSET Within)
  <2>1. \A view \in ViewsAt(call.schema, call.path) : CallsOf(view, call.path) \in SUBSET Within
    BY <1>2, MemberCalls
  <2>2. Len(views) \in Nat /\ DOMAIN views = 1 .. Len(views)
    BY <1>2, LenProperties
  <2>3. \A i \in 1 .. Len(views) : views[i] \in ViewsAt(call.schema, call.path)
    BY <1>2, ElementOfSeq, Zenon
  <2>4. ofViews \in [1 .. Len(views) -> SUBSET Within]
    BY <2>1, <2>2, <2>3
  <2> QED
    BY <2>2, <2>4
<1>4. Kind(call.path) = "array" => ofItems \in Seq(SUBSET Within)
  <2>1. Length(call.path) \in Nat
    BY <1>1, MembersFinite DEF Call
  <2>2. Kind(call.path) = "array" => ofItems \in [1 .. Length(call.path) -> SUBSET Within]
    BY ItemCalls
  <2> QED
    BY <2>1, <2>2
<1>5. LoopsOf(call) = CASE Kind(call.path) = "object" -> ofViews
                        [] Kind(call.path) = "array" -> ofItems
                        [] OTHER -> <<>>
  BY Zenon DEF LoopsOf, views
<1> HIDE DEF ofViews, ofItems
<1> QED
  BY <1>3, <1>4, <1>5

\* What a call reports.
LEMMA FoundTyped ==
  ASSUME NEW call \in Within
  PROVE  Found(call) \subseteq Nat \X Finding
<1> DEFINE path == call.path
<1>1. /\ path \in Seq(Names)
      /\ call \in Call
  BY DEF Within, Call
<1>2. \A n \in Members(path) : Append(path, n) \in Seq(Names)
  BY <1>1, AppendProperties DEF Members, MembersIn
<1>3. Seen(path) \subseteq Members(path)
  BY DEF Seen
<1>4. \A view : FoundBy(view, path) \subseteq Finding
  BY <1>2, <1>3 DEF FoundBy, Finding, Kinds
<1>5. ItemsForbidden(call) \subseteq Finding
  BY <1>2 DEF ItemsForbidden, Finding, Kinds
<1>6. DOMAIN Views(call) \subseteq Nat
  BY <1>1, ViewsTyped, LenProperties
<1>7. CASE Kind(path) = "object"
  <2>1. Found(call) = UNION {{<<i, f>> : f \in FoundBy(Views(call)[i], path)} : i \in DOMAIN Views(call)}
    BY <1>7, Zenon DEF Found
  <2> QED
    BY <1>4, <1>6, <2>1
<1>8. CASE Kind(path) = "array"
  <2>1. Found(call) = {<<1, f>> : f \in ItemsForbidden(call)}
    BY <1>8 DEF Found
  <2> QED
    BY <1>5, <2>1
<1>9. CASE Kind(path) \notin {"object", "array"}
  BY <1>9 DEF Found
<1> QED
  BY <1>7, <1>8, <1>9

--------------------------------------------------------------------------------
(* The walk.                                                               *)

\* The calls the loops under way still make.
Pending == UNION Range(loops)
Covered(call) == Settled(call) \/ call \in Pending

\* The inductive invariant.
WalkInv ==
  /\ task \in Tasks
  /\ loops \in Seq(SUBSET Within)
  /\ visited \subseteq Within
  /\ IsFiniteSet(visited)
  /\ IsABag(undeclared)
  /\ DOMAIN undeclared \subseteq Nat \X Finding
  /\ Covered(CallOn(<<>>, task.root))
  /\ \A call \in visited : \A next \in CallsFrom(call) : Covered(next)

\* A loop that ends leaves no call behind.
LEMMA EndKeepsPending ==
  ASSUME NEW S, loops \in Seq(SUBSET S), loops # <<>>, Head(loops) = {}
  PROVE  /\ Tail(loops) \in Seq(SUBSET S)
         /\ Pending \subseteq UNION Range(Tail(loops))
<1>1. /\ Tail(loops) \in Seq(SUBSET S)
      /\ Len(Tail(loops)) = Len(loops) - 1
      /\ \A i \in 1 .. Len(Tail(loops)) : Tail(loops)[i] = loops[i + 1]
  BY HeadTailProperties
<1>2. /\ Range(loops) = {loops[i] : i \in 1 .. Len(loops)}
      /\ Range(Tail(loops)) = {Tail(loops)[i] : i \in 1 .. Len(Tail(loops))}
  BY <1>1, RangeEquality
<1>3. ASSUME NEW call \in Pending
      PROVE  call \in UNION Range(Tail(loops))
  <2>1. PICK i \in 1 .. Len(loops) : call \in loops[i]
    BY <1>2 DEF Pending
  <2>2. i # 1 /\ Len(loops) \in Nat
    BY <2>1
  <2>3. i - 1 \in 1 .. Len(Tail(loops)) /\ Tail(loops)[i - 1] = loops[i]
    BY <1>1, <2>2
  <2> QED
    BY <1>2, <2>1, <2>3
<1> QED
  BY <1>1, <1>3

\* Loops put on top of loops.
LEMMA StackedLoops ==
  ASSUME NEW S, NEW s1 \in Seq(SUBSET S), NEW s2 \in Seq(SUBSET S)
  PROVE  /\ s1 \o s2 \in Seq(SUBSET S)
         /\ UNION Range(s1 \o s2) = (UNION Range(s1)) \cup (UNION Range(s2))
BY ConcatProperties, RangeConcatenation

\* A call that is made is the only one that is no longer pending.
LEMMA RestKeepsPending ==
  ASSUME NEW S, loops \in Seq(SUBSET S), loops # <<>>, NEW call
  PROVE  /\ Rest(call) \in Seq(SUBSET S)
         /\ Pending \subseteq (UNION Range(Rest(call))) \cup {call}
<1>1. /\ Len(loops) \in Nat
      /\ 1 \in 1 .. Len(loops)
      /\ loops[1] \ {call} \in SUBSET S
  OBVIOUS
<1>2. /\ Rest(call) \in Seq(SUBSET S)
      /\ Len(Rest(call)) = Len(loops)
      /\ \A i \in 1 .. Len(loops) : Rest(call)[i] = IF i = 1 THEN loops[1] \ {call} ELSE loops[i]
  BY <1>1, ExceptSeq DEF Rest
<1>3. /\ Range(loops) = {loops[i] : i \in 1 .. Len(loops)}
      /\ Range(Rest(call)) = {Rest(call)[i] : i \in 1 .. Len(loops)}
  BY <1>2, RangeEquality
<1>4. ASSUME NEW other \in Pending, other # call
      PROVE  other \in UNION Range(Rest(call))
  <2>1. PICK i \in 1 .. Len(loops) : other \in loops[i]
    BY <1>3 DEF Pending
  <2>2. other \in Rest(call)[i]
    BY <1>2, <1>4, <2>1
  <2> QED
    BY <1>3, <2>2
<1> QED
  BY <1>2, <1>4

\* What is added to the result.
LEMMA BagGrows ==
  ASSUME NEW B, IsABag(B), NEW T
  PROVE  /\ IsABag(B (+) SetToBag(T))
         /\ DOMAIN (B (+) SetToBag(T)) = DOMAIN B \cup T
         /\ \A f \in DOMAIN B \cup T :
              (B (+) SetToBag(T))[f] = (IF f \in DOMAIN B THEN B[f] ELSE 0) + (IF f \in T THEN 1 ELSE 0)
BY DEF IsABag, SetToBag, (+)

\* WalkInv holds throughout.
LEMMA WalkInvInvariant == Spec => []WalkInv
<1>1. Init => WalkInv
  <2> SUFFICES ASSUME Init
               PROVE  WalkInv
    OBVIOUS
  <2> DEFINE root == CallOn(<<>>, task.root)
  <2>1. task \in Tasks /\ loops = <<{root}>> /\ visited = {} /\ undeclared = EmptyBag
    BY DEF Init
  <2>2. root \in Within
    BY <2>1, TaskAssumption DEF Within, Call, CallOn
  <2> HIDE DEF root
  <2>3. loops \in Seq(SUBSET Within)
    BY <2>1, <2>2
  <2>4. root \in Pending
    BY <2>1 DEF Pending, Range
  <2>5. IsABag(undeclared) /\ DOMAIN undeclared = {}
    BY <2>1 DEF IsABag, EmptyBag, SetToBag
  <2>6. IsFiniteSet(visited)
    BY <2>1, FS_EmptySet
  <2> QED
    BY <2>1, <2>3, <2>4, <2>5, <2>6 DEF WalkInv, Covered, root
<1>2. WalkInv /\ [Next]_vars => WalkInv'
  <2> SUFFICES ASSUME WalkInv, [Next]_vars
               PROVE  WalkInv'
    OBVIOUS
  <2>1. UNCHANGED task
    BY DEF Next, EndLoop, Skip, Walk, vars
  <2>2. Within' = Within /\ (CallOn(<<>>, task.root))' = CallOn(<<>>, task.root)
    BY <2>1 DEF Within, CallOn
  <2>3. \A call : Refused(call)' = Refused(call) /\ CallsFrom(call)' = CallsFrom(call)
    BY <2>1, UndisturbedData, UndisturbedCalls DEF CallsFrom
  <2>4. CASE UNCHANGED vars
    <3>1. UNCHANGED <<loops, visited, undeclared>>
      BY <2>4 DEF vars
    <3> QED
      BY <2>1, <2>2, <2>3, <3>1 DEF WalkInv, Covered, Settled, Pending
  <2>5. ASSUME ~Done, EndLoop
        PROVE  WalkInv'
    <3>1. /\ Tail(loops) \in Seq(SUBSET Within)
          /\ Pending \subseteq Pending'
          /\ loops' = Tail(loops)
          /\ UNCHANGED <<visited, undeclared>>
      BY <2>5, EndKeepsPending DEF WalkInv, EndLoop, Done, Pending
    <3>2. \A call : Covered(call) => Covered(call)'
      BY <2>3, <3>1 DEF Covered, Settled
    <3> QED
      BY <2>1, <2>2, <2>3, <3>1, <3>2 DEF WalkInv
  <2>6. ASSUME ~Done, NEW call \in Head(loops), Skip(call)
        PROVE  WalkInv'
    <3>1. /\ Rest(call) \in Seq(SUBSET Within)
          /\ Pending \subseteq Pending' \cup {call}
          /\ loops' = Rest(call)
          /\ UNCHANGED <<visited, undeclared>>
      BY <2>6, RestKeepsPending DEF WalkInv, Skip, Done, Pending
    <3>2. Settled(call)
      BY <2>6 DEF Skip, Settled
    <3>3. \A other : Covered(other) => Covered(other)'
      BY <2>3, <3>1, <3>2 DEF Covered, Settled
    <3> QED
      BY <2>1, <2>2, <2>3, <3>1, <3>3 DEF WalkInv
  <2>7. ASSUME ~Done, NEW call \in Head(loops), Walk(call)
        PROVE  WalkInv'
    <3>1. call \in Within
      BY <2>7, HeadTailProperties DEF WalkInv, Done
    <3>2. /\ Rest(call) \in Seq(SUBSET Within)
          /\ Pending \subseteq (UNION Range(Rest(call))) \cup {call}
      BY <2>7, RestKeepsPending DEF WalkInv, Done
    <3>3. LoopsOf(call) \in Seq(SUBSET Within)
      BY <3>1, LoopsTyped DEF WalkInv
    <3>4. /\ loops' = LoopsOf(call) \o Rest(call)
          /\ visited' = visited \cup {call}
          /\ undeclared' = undeclared (+) SetToBag(Found(call))
      BY <2>7 DEF Walk
    <3>5. /\ loops' \in Seq(SUBSET Within)
          /\ Pending' = CallsFrom(call) \cup UNION Range(Rest(call))
      BY <3>2, <3>3, <3>4, StackedLoops DEF Pending, CallsFrom
    <3>6. \A other : Covered(other) => Covered(other)'
      BY <2>3, <3>2, <3>4, <3>5 DEF Covered, Settled
    <3>7. \A next \in CallsFrom(call) : Covered(next)'
      BY <3>5 DEF Covered
    <3>8. IsFiniteSet(visited')
      BY <3>4, FS_AddElement DEF WalkInv
    <3>9. IsABag(undeclared)' /\ (DOMAIN undeclared \subseteq Nat \X Finding)'
      <4>1. Found(call) \in SUBSET (Nat \X Finding)
        BY <3>1, FoundTyped
      <4>2. IsABag(undeclared) /\ DOMAIN undeclared \subseteq Nat \X Finding
        BY DEF WalkInv
      <4>3. /\ IsABag(undeclared (+) SetToBag(Found(call)))
            /\ DOMAIN (undeclared (+) SetToBag(Found(call))) = DOMAIN undeclared \cup Found(call)
        BY <4>2, BagGrows
      <4> QED
        BY <3>4, <4>1, <4>2, <4>3
    <3> QED
      BY <2>1, <2>2, <2>3, <3>1, <3>4, <3>5, <3>6, <3>7, <3>8, <3>9 DEF WalkInv
  <2> QED
    BY <2>4, <2>5, <2>6, <2>7 DEF Next
<1> QED
  BY <1>1, <1>2, PTL DEF Spec

\* The walk of strict.Validator stays within the data and the schemas it was
\* given: every call of validateValue names a resolved schema.
THEOREM TypeCorrect == Spec => []TypeOK
<1>1. WalkInv => TypeOK
  <2> SUFFICES ASSUME WalkInv
               PROVE  TypeOK
    OBVIOUS
  <2>1. Within \subseteq Call
    BY DEF Within
  <2>2. loops \in Seq(SUBSET Call)
    BY <2>1, SeqMonotonic DEF WalkInv
  <2> QED
    BY <2>1, <2>2 DEF WalkInv, TypeOK
<1> QED
  BY <1>1, WalkInvInvariant, PTL

\* No value is left out: although a loop follows the order of a Go map and
\* checkAndMarkVisited cuts calls off, a finished walk has settled every call that
\* validateObject, validatePolymorphic and validateArray lead to.
THEOREM WalkIsComplete == Spec => []WalkComplete
<1>1. WalkInv => WalkComplete
  <2> SUFFICES ASSUME WalkInv, Done
               PROVE  \A call : Covered(call) => Settled(call)
    BY DEF WalkComplete, WalkInv
  <2>1. Pending = {}
    BY DEF Done, Pending, Range
  <2> QED
    BY <2>1 DEF Covered
<1> QED
  BY <1>1, WalkInvInvariant, PTL

\* The result has what each walked call of validateValue reports, as often as
\* there are such calls: no call adds its findings twice.
THEOREM FoundOnce == Spec => []WalkedOnce
<1>1. Init => WalkedOnce
  <2> SUFFICES ASSUME Init
               PROVE  WalkedOnce
    OBVIOUS
  <2>1. visited = {} /\ BagToSet(undeclared) = {}
    BY DEF Init, EmptyBag, SetToBag, BagToSet
  <2> QED
    BY <2>1 DEF WalkedOnce
<1>2. WalkInv /\ WalkedOnce /\ [Next]_vars => WalkedOnce'
  <2> SUFFICES ASSUME WalkInv, WalkedOnce, [Next]_vars
               PROVE  WalkedOnce'
    OBVIOUS
  <2>1. UNCHANGED task
    BY DEF Next, EndLoop, Skip, Walk, vars
  <2>2. \A call : Found(call)' = Found(call)
    BY <2>1, UndisturbedCalls
  <2>3. CASE UNCHANGED <<visited, undeclared>>
    BY <2>2, <2>3 DEF WalkedOnce
  <2>4. ASSUME ~Done, NEW call \in Head(loops), Walk(call)
        PROVE  WalkedOnce'
    <3>1. /\ visited' = visited \cup {call}
          /\ undeclared' = undeclared (+) SetToBag(Found(call))
          /\ call \notin visited
      BY <2>4 DEF Walk
    <3>2. call \in Within
      BY <2>4, HeadTailProperties DEF WalkInv, Done
    <3>3. /\ DOMAIN undeclared' = DOMAIN undeclared \cup Found(call)
          /\ \A f \in DOMAIN undeclared \cup Found(call) :
               undeclared'[f] = (IF f \in DOMAIN undeclared THEN undeclared[f] ELSE 0)
                                  + (IF f \in Found(call) THEN 1 ELSE 0)
      BY <3>1, <3>2, FoundTyped, BagGrows DEF WalkInv
    <3>4. BagToSet(undeclared)' = UNION {Found(c) : c \in visited'}
      BY <3>1, <3>3 DEF WalkedOnce, BagToSet
    <3>5. ASSUME NEW f \in DOMAIN undeclared'
          PROVE  undeclared'[f] = Cardinality({c \in visited' : f \in Found(c)})
      <4> DEFINE before == {c \in visited : f \in Found(c)}
                 after == {c \in visited' : f \in Found(c)}
      <4>1. IsFiniteSet(before)
        BY FS_Subset DEF WalkInv
      <4>2. Cardinality(before) = IF f \in DOMAIN undeclared THEN undeclared[f] ELSE 0
        <5>1. CASE f \in DOMAIN undeclared
          BY <5>1 DEF WalkedOnce, BagToSet
        <5>2. CASE f \notin DOMAIN undeclared
          <6>1. before = {}
            BY <5>2 DEF WalkedOnce, BagToSet
          <6> QED
            BY <5>2, <6>1, FS_EmptySet
        <5> QED
          BY <5>1, <5>2
      <4>3. after = IF f \in Found(call) THEN before \cup {call} ELSE before
        BY <3>1
      <4>4. call \notin before
        BY <3>1
      <4> HIDE DEF before, after
      <4>5. Cardinality(after) = Cardinality(before) + (IF f \in Found(call) THEN 1 ELSE 0)
        <5>1. Cardinality(before) \in Nat /\ Cardinality(before \cup {call}) = Cardinality(before) + 1
          BY <4>1, <4>4, FS_AddElement, FS_CardinalityType
        <5> QED
          BY <4>3, <5>1
      <4> QED
        BY <3>3, <3>5, <4>2, <4>5 DEF after
    <3> QED
      BY <2>2, <3>4, <3>5 DEF WalkedOnce, BagToSet
  <2> QED
    BY <2>3, <2>4 DEF Next, EndLoop, Skip, vars
<1> QED
  BY <1>1, <1>2, WalkInvInvariant, PTL DEF Spec

--------------------------------------------------------------------------------
(* Paths.                                                                  *)

\* A path that is not empty is that of a member of what is above it.
LEMMA FrontLast ==
  ASSUME NEW S, NEW p \in Seq(S), p # <<>>
  PROVE  /\ Front(p) \in Seq(S) /\ Last(p) \in S
         /\ p = Append(Front(p), Last(p))
         /\ Len(p) \in Nat /\ Len(Front(p)) = Len(p) - 1
<1>1. Len(p) \in Nat /\ Len(p) >= 1
  OBVIOUS
<1>2. \A k \in 1 .. Len(p) - 1 : p[k] \in S
  BY <1>1
<1>3. /\ Front(p) \in Seq(S)
      /\ Len(Front(p)) = Len(p) - 1
      /\ \A k \in 1 .. Len(p) - 1 : Front(p)[k] = p[k]
  <2> DEFINE m == Len(p) - 1
  <2>1. m \in Int /\ 1 \in Int /\ \A k \in 1 .. m : p[k] \in S
    BY <1>1, <1>2
  <2>2. /\ SubSeq(p, 1, m) \in Seq(S)
        /\ Len(SubSeq(p, 1, m)) = IF 1 <= m THEN m - 1 + 1 ELSE 0
        /\ \A k \in 1 .. m - 1 + 1 : SubSeq(p, 1, m)[k] = p[1 + k - 1]
    BY <2>1, SubSeqProperties
  <2>3. Front(p) = SubSeq(p, 1, m)
    BY DEF Front
  <2>4. Len(SubSeq(p, 1, m)) = m /\ m - 1 + 1 = m
    <3> DEFINE length == Len(SubSeq(p, 1, m))
    <3>1. length = IF 1 <= m THEN m - 1 + 1 ELSE 0
      BY <2>2
    <3>2. m \in Nat
      BY <1>1
    <3> HIDE DEF length, m
    <3>3. length = m /\ m - 1 + 1 = m
      BY <3>1, <3>2
    <3> QED
      BY <3>3 DEF length
  <2>5. \A k \in 1 .. m : SubSeq(p, 1, m)[k] = p[k]
    BY <2>1, <2>2, <2>4
  <2> QED
    BY <2>2, <2>3, <2>4, <2>5
<1>4. Last(p) \in S
  BY <1>1 DEF Last
<1>5. p = Append(Front(p), Last(p))
  <2> DEFINE q == Append(Front(p), Last(p))
  <2>1. q \in Seq(S) /\ Len(q) = Len(p)
    BY <1>1, <1>3, <1>4
  <2>2. \A k \in 1 .. Len(p) : p[k] = q[k]
    BY <1>1, <1>3, <1>4 DEF Last
  <2> HIDE DEF q
  <2>3. p = q
    BY <1>1, <2>1, <2>2, SeqEqual
  <2> QED
    BY <2>3 DEF q
<1> QED
  BY <1>1, <1>3, <1>4, <1>5

\* The other way round.
LEMMA FrontOfAppend ==
  ASSUME NEW S, NEW q \in Seq(S), NEW n \in S
  PROVE  /\ Append(q, n) \in Seq(S) /\ Append(q, n) # <<>>
         /\ Front(Append(q, n)) = q /\ Last(Append(q, n)) = n
<1>1. Append(q, n) \in Seq(S) /\ Append(q, n) # <<>>
  BY AppendProperties
<1>2. /\ Front(Append(q, n)) \in Seq(S) /\ Last(Append(q, n)) \in S
      /\ Append(q, n) = Append(Front(Append(q, n)), Last(Append(q, n)))
  BY <1>1, FrontLast
<1> QED
  BY <1>1, <1>2, AppendInjective

\* What holds of the body, and of a value if it holds of what the value is in,
\* holds of the whole document.
LEMMA PathInduction ==
  ASSUME task \in Tasks, NEW S,
         <<>> \in S,
         \A p \in DOMAIN task.doc \ {<<>>} : Front(p) \in S => p \in S
  PROVE  DOMAIN task.doc \subseteq S
<1> DEFINE D == DOMAIN task.doc
           missing == {k \in Nat : \E p \in D \ S : p # <<>> /\ Len(p) = k}
<1>1. \A p \in D \ {<<>>} : p \in Seq(Names) /\ Front(p) \in D
  BY TaskAssumption
<1>2. missing = {}
  <2> SUFFICES ASSUME missing # {} PROVE FALSE
    OBVIOUS
  <2>1. Min(missing) \in missing
    BY HasLeast
  <2>2. \A k \in missing : Min(missing) <= k
    BY HasLeast
  <2>3. PICK p \in D \ S : p # <<>> /\ Len(p) = Min(missing)
    BY <2>1
  <2>4. Front(p) \in D \ S
    BY <1>1, <2>3
  <2>5. Front(p) # <<>> /\ Len(Front(p)) = Len(p) - 1 /\ Len(p) \in Nat
    BY <1>1, <2>3, <2>4, FrontLast
  <2>6. Len(Front(p)) \in Nat
    BY <1>1, <2>4, <2>5
  <2>7. Len(Front(p)) \in missing
    BY <2>4, <2>5, <2>6
  <2>8. Len(p) <= Len(Front(p))
    BY <2>2, <2>3, <2>7
  <2> HIDE DEF missing
  <2> QED
    BY <2>5, <2>6, <2>8
<1>3. \A p \in D : p = <<>> \/ Len(p) \in Nat
  BY <1>1
<1> QED
  BY <1>2, <1>3

--------------------------------------------------------------------------------
\* The places of a document: what is in what.
LEMMA Places ==
  ASSUME task \in Tasks
  PROVE  /\ <<>> \in DOMAIN task.doc
         /\ \A p \in DOMAIN task.doc : p \in Seq(Names)
         /\ \A p \in DOMAIN task.doc \ {<<>>} :
              /\ Front(p) \in DOMAIN task.doc
              /\ Last(p) \in Members(Front(p))
              /\ p = Append(Front(p), Last(p))
         /\ \A p \in DOMAIN task.doc : \A n \in Members(p) :
              /\ Append(p, n) \in DOMAIN task.doc \ {<<>>}
              /\ Front(Append(p, n)) = p
              /\ Last(Append(p, n)) = n
              /\ Kind(p) \in {"object", "array"}
<1>1. /\ <<>> \in DOMAIN task.doc
      /\ \A p \in DOMAIN task.doc \ {<<>>} :
           p \in Seq(Names) /\ Front(p) \in DOMAIN task.doc /\ Kind(Front(p)) \in {"object", "array"}
  BY TaskAssumption DEF Kind
<1>2. \A p \in DOMAIN task.doc : p \in Seq(Names)
  <2>1. <<>> \in Seq(Names)
    OBVIOUS
  <2> QED
    BY <1>1, <2>1
<1>3. ASSUME NEW p \in DOMAIN task.doc \ {<<>>}
      PROVE  /\ Front(p) \in DOMAIN task.doc
             /\ Last(p) \in Members(Front(p))
             /\ p = Append(Front(p), Last(p))
  <2>1. p \in Seq(Names) /\ p # <<>> /\ Front(p) \in DOMAIN task.doc
    BY <1>1
  <2>2. Last(p) \in Names /\ p = Append(Front(p), Last(p))
    BY <2>1, FrontLast
  <2>3. Append(Front(p), Last(p)) \in DOMAIN task.doc
    BY <2>2
  <2> QED
    BY <2>1, <2>2, <2>3 DEF Members, MembersIn
<1>4. ASSUME NEW p \in DOMAIN task.doc, NEW n \in Members(p)
      PROVE  /\ Append(p, n) \in DOMAIN task.doc \ {<<>>}
             /\ Front(Append(p, n)) = p
             /\ Last(Append(p, n)) = n
             /\ Kind(p) \in {"object", "array"}
  <2>1. p \in Seq(Names) /\ n \in Names /\ Append(p, n) \in DOMAIN task.doc
    BY <1>2 DEF Members, MembersIn
  <2>2. Append(p, n) # <<>> /\ Front(Append(p, n)) = p /\ Last(Append(p, n)) = n
    BY <2>1, FrontOfAppend
  <2> QED
    BY <1>1, <2>1, <2>2
<1> QED
  BY <1>1, <1>2, <1>3, <1>4

\* Where declared properties come from.
LEMMA SourcesAre ==
  ASSUME NEW s \in Schemas, NEW path
  PROVE  /\ s \in Range(Sources(s, path)) \ {None}
         /\ \A t \in Range(Sources(s, path)) \ {None} :
              \/ t = s
              \/ \E i \in DOMAIN Schema[s].dependent :
                   Schema[s].dependent[i].trigger \in Members(path) /\ t = Schema[s].dependent[i].schema
              \/ /\ Schema[s].if # None
                 /\ t = IF Matches(Schema[s].if, task.doc, path) THEN Schema[s].then ELSE Schema[s].else
<1> DEFINE rule == Schema[s]
           triggered == [i \in DOMAIN rule.dependent |->
                           IF rule.dependent[i].trigger \in Members(path)
                             THEN rule.dependent[i].schema ELSE None]
           taken == IF Matches(rule.if, task.doc, path) THEN rule.then ELSE rule.else
           branch == IF rule.if = None THEN None ELSE taken
           S == Range(triggered) \cup {s, branch}
<1>1. DOMAIN rule.dependent = 1 .. Len(rule.dependent) /\ Len(rule.dependent) \in Nat
  BY RuleTyped, LenProperties
<1>2. triggered \in Seq(S)
  <2>1. triggered \in [1 .. Len(rule.dependent) -> S]
    BY <1>1 DEF Range
  <2> HIDE DEF triggered, S
  <2> QED
    BY <1>1, <2>1
<1>3. <<s>> \in Seq(S) /\ <<branch>> \in Seq(S)
  OBVIOUS
<1>4. Range(<<s>>) = {s} /\ Range(<<branch>>) = {branch}
  BY DEF Range
<1>5. Sources(s, path) = (<<s>> \o triggered) \o <<branch>>
  BY DEF Sources
<1>6. Range(Sources(s, path)) = (Range(<<s>>) \cup Range(triggered)) \cup Range(<<branch>>)
  <2> HIDE DEF triggered, branch, S
  <2>1. <<s>> \o triggered \in Seq(S)
    BY <1>2, <1>3, ConcatProperties
  <2>2. Range(<<s>> \o triggered) = Range(<<s>>) \cup Range(triggered)
    BY <1>2, <1>3, RangeConcatenation
  <2>3. Range((<<s>> \o triggered) \o <<branch>>) = Range(<<s>> \o triggered) \cup Range(<<branch>>)
    BY <1>3, <2>1, RangeConcatenation
  <2> QED
    BY <1>5, <2>2, <2>3
<1>7. \A t \in Range(triggered) \ {None} :
        \E i \in DOMAIN rule.dependent :
          rule.dependent[i].trigger \in Members(path) /\ t = rule.dependent[i].schema
  BY DEF Range
<1>8. s # None
  BY SchemaAssumption
<1> QED
  BY <1>4, <1>6, <1>7, <1>8

\* The schemas that apply next to a schema are schemas.
LEMMA AppliedTyped ==
  ASSUME NEW s \in Schemas, NEW path
  PROVE  AppliedWith(s, path) \subseteq Schemas /\ s \in AppliedWith(s, path)
<1>1. Range(Sources(s, path)) \subseteq Schemas \cup {None}
  BY SourcesTyped, RangeOfSeq
<1>2. Range(Schema[s].allOf) \subseteq Schemas
  BY RuleTyped, RangeOfSeq
<1>3. Range(Schema[s].oneOf \o Schema[s].anyOf) \subseteq Schemas
  <2>1. Schema[s].oneOf \o Schema[s].anyOf \in Seq(Schemas)
    BY RuleTyped, ConcatProperties
  <2> QED
    BY <2>1, RangeOfSeq
<1> QED
  BY <1>1, <1>2, <1>3, SourcesAre DEF AppliedWith

\* So are those a schema has for a member.
LEMMA SchemasForTyped ==
  ASSUME NEW s \in Schemas, NEW path, NEW n
  PROVE  SchemasFor(s, path, n) \subseteq Schemas
<1> DEFINE named == {f[n] : f \in {g \in {Schema[s].props, Schema[s].patterns} : n \in DOMAIN g}}
<1>1. named \subseteq Schemas
  BY RuleTyped DEF HasSchemas
<1>2. \/ SchemasFor(s, path, n) = named
      \/ \E x : SchemasFor(s, path, n) = {x} \cap Schemas
      \/ SchemasFor(s, path, n) = {}
  BY Zenon DEF SchemasFor
<1> HIDE DEF named
<1> QED
  BY <1>1, <1>2

\* What a value gets from above is schemas, and some of what it is offered.
LEMMA PassedOnTyped ==
  ASSUME NEW above \in SUBSET Schemas, NEW path
  PROVE  PassedOn(above, path) \subseteq Schemas
<1>1. \A s \in above : AppliedWith(s, Front(path)) \subseteq Schemas
  BY AppliedTyped
<1>2. \A s \in Schemas : LeadsTo(s, Front(path), Last(path)) \subseteq Schemas
  BY SchemasForTyped DEF LeadsTo
<1> QED
  BY <1>1, <1>2 DEF PassedOn

\* Each schema passes on its own.
LEMMA PassedOnBy ==
  ASSUME NEW above, NEW path, NEW t
  PROVE  t \in PassedOn(above, path)
           <=> /\ ~ShouldIgnore(path) /\ ~ShouldIgnore(Front(path))
               /\ \E s \in above : \E a \in AppliedWith(s, Front(path)) :
                    t \in LeadsTo(a, Front(path), Last(path))
BY DEF PassedOn

\* GivenTo as its definition wants it: the schemas of a place are those of the
\* least set of pairs of a place and a schema that has the root's and what its
\* pairs pass on.
LEMMA GivenUnfolds ==
  ASSUME task \in Tasks
  PROVE  /\ GivenTo[<<>>] = {task.root}
         /\ \A p \in DOMAIN task.doc \ {<<>>} : GivenTo[p] = PassedOn(GivenTo[Front(p)], p)
         /\ \A p \in DOMAIN task.doc : GivenTo[p] \subseteq Schemas
<1> DEFINE D == DOMAIN task.doc
           Pairs == D \X Schemas
           root == <<<<>>, task.root>>
           Closed(R) == /\ root \in R
                        /\ \A p \in D \ {<<>>} : \A s, t \in Schemas :
                             <<Front(p), s>> \in R /\ t \in PassedOn({s}, p) => <<p, t>> \in R
           least == {x \in Pairs : \A R \in SUBSET Pairs : Closed(R) => x \in R}
           given == [p \in D |-> {s \in Schemas : <<p, s>> \in least}]
           Def(f) == f = [p \in D |-> IF p = <<>> THEN {task.root} ELSE PassedOn(f[Front(p)], p)]
<1>1. /\ <<>> \in D /\ task.root \in Schemas
      /\ \A p \in D \ {<<>>} : Front(p) \in D
  BY Places, TaskAssumption
<1>2. root \in least
  BY <1>1
<1>3. \A p \in D \ {<<>>} : \A s, t \in Schemas :
        <<Front(p), s>> \in least /\ t \in PassedOn({s}, p) => <<p, t>> \in least
  OBVIOUS
<1>4. ASSUME NEW p \in D, NEW t \in Schemas, <<p, t>> \in least,
             p # <<>> \/ t # task.root
      PROVE  p # <<>> /\ \E s \in Schemas : <<Front(p), s>> \in least /\ t \in PassedOn({s}, p)
  <2> SUFFICES ASSUME ~(p # <<>> /\ \E s \in Schemas : <<Front(p), s>> \in least /\ t \in PassedOn({s}, p))
               PROVE  FALSE
    OBVIOUS
  <2> DEFINE fewer == least \ {<<p, t>>}
  <2>1. fewer \in SUBSET Pairs
    OBVIOUS
  <2>2. root \in fewer
    BY <1>2, <1>4
  <2>3. ASSUME NEW q \in D \ {<<>>}, NEW s \in Schemas, NEW u \in Schemas,
               <<Front(q), s>> \in fewer, u \in PassedOn({s}, q)
        PROVE  <<q, u>> \in fewer
    <3>1. <<q, u>> \in least
      BY <1>3, <2>3
    <3>2. <<q, u>> # <<p, t>>
      BY <2>3
    <3> QED
      BY <3>1, <3>2
  <2>4. Closed(fewer)
    BY <2>2, <2>3
  <2> QED
    BY <1>4, <2>1, <2>4
<1> HIDE DEF least
<1>5. given[<<>>] = {task.root}
  BY <1>1, <1>2, <1>4
<1>6. \A p \in D \ {<<>>} : given[p] = PassedOn(given[Front(p)], p)
  <2> SUFFICES ASSUME NEW p \in D \ {<<>>}
               PROVE  given[p] = PassedOn(given[Front(p)], p)
    OBVIOUS
  <2>1. given[Front(p)] = {s \in Schemas : <<Front(p), s>> \in least}
    BY <1>1
  <2>2. \A s \in given[Front(p)] : PassedOn({s}, p) \subseteq PassedOn(given[Front(p)], p)
    <3> HIDE DEF given
    <3> QED
      BY PassedOnBy
  <2>3. \A t \in PassedOn(given[Front(p)], p) :
          t \in Schemas /\ \E s \in given[Front(p)] : t \in PassedOn({s}, p)
    <3>1. PassedOn(given[Front(p)], p) \subseteq Schemas
      BY <2>1, PassedOnTyped
    <3> HIDE DEF given
    <3> QED
      BY <3>1, PassedOnBy
  <2>4. given[p] = {t \in Schemas : \E s \in Schemas : <<Front(p), s>> \in least /\ t \in PassedOn({s}, p)}
    BY <1>3, <1>4
  <2> HIDE DEF given
  <2> QED
    BY <2>1, <2>2, <2>3, <2>4
<1>7. Def(given)
  <2>1. given = [p \in D |-> given[p]]
    OBVIOUS
  <2> HIDE DEF given
  <2> QED
    BY <1>5, <1>6, <2>1
<1>8. \E f : Def(f)
  BY <1>7
<1>9. GivenTo = CHOOSE f : Def(f)
  BY Zenon DEF GivenTo
<1>10. Def(GivenTo)
  <2> HIDE DEF Def
  <2> QED
    BY <1>8, <1>9
<1>11. /\ GivenTo[<<>>] = {task.root}
       /\ \A p \in D \ {<<>>} : GivenTo[p] = PassedOn(GivenTo[Front(p)], p)
  BY <1>1, <1>10
<1>12. \A p \in D : GivenTo[p] \subseteq Schemas
  <2> DEFINE typed == {p \in D : GivenTo[p] \subseteq Schemas}
  <2>1. <<>> \in typed
    BY <1>1, <1>11
  <2>2. \A p \in D \ {<<>>} : Front(p) \in typed => p \in typed
    BY <1>11, PassedOnTyped
  <2> HIDE DEF typed
  <2>3. D \subseteq typed
    BY <2>1, <2>2, PathInduction
  <2> QED
    BY <2>3 DEF typed
<1> QED
  BY <1>11, <1>12

\* Where FindingsExact speaks.
AllPlain == \A p \in DOMAIN task.doc : Plain(p)

\* The items of an array and its members are the same.
LEMMA ItemsAreMembers ==
  ASSUME task \in Tasks, NEW p \in DOMAIN task.doc, Kind(p) = "array"
  PROVE  /\ \A i \in 1 .. Length(p) :
              /\ ItemName[i] \in Members(p)
              /\ (CHOOSE j \in DOMAIN ItemName : ItemName[j] = ItemName[i]) = i
         /\ \A n \in Members(p) : \E i \in 1 .. Length(p) : ItemName[i] = n
<1>1. \A i \in 1 .. Length(p) : i \in DOMAIN ItemName /\ ItemName[i] \in Members(p)
  BY TaskAssumption DEF Kind, Length, Members, MembersIn
<1>2. \A i, j \in DOMAIN ItemName : ItemName[i] = ItemName[j] => i = j
  BY TaskAssumption DEF IsInjective
<1>3. ASSUME NEW i \in 1 .. Length(p)
      PROVE  (CHOOSE j \in DOMAIN ItemName : ItemName[j] = ItemName[i]) = i
  BY <1>1, <1>2, Zenon
<1>4. \A n \in Members(p) : \E i \in 1 .. Length(p) : ItemName[i] = n
  <2> DEFINE f == [i \in 1 .. Length(p) |-> ItemName[i]]
  <2>1. p \in Seq(Names)
    BY Places
  <2>2. IsFiniteSet(Members(p)) /\ Length(p) \in Nat /\ Cardinality(Members(p)) = Length(p)
    BY <2>1, MembersFinite DEF Length
  <2>3. f \in Injection(1 .. Length(p), Members(p))
    BY <1>1, <1>2 DEF Injection, IsInjective
  <2>4. Cardinality(1 .. Length(p)) = Length(p)
    BY <2>2, FS_Interval
  <2>5. f \in Surjection(1 .. Length(p), Members(p))
    <3> HIDE DEF f
    <3> QED
      BY <2>2, <2>3, <2>4, FS_Injection
  <2> QED
    BY <2>5 DEF Surjection
<1> QED
  BY <1>1, <1>3, <1>4

\* A value gets one schema, one of those it is offered.
LEMMA OneGiven ==
  ASSUME task \in Tasks, AllPlain
  PROVE  /\ \A p \in DOMAIN task.doc \ {<<>>} : GivenTo[p] \subseteq OfferedTo(p)
         /\ \A p \in DOMAIN task.doc : \A s, t \in GivenTo[p] : s = t
         /\ \A p \in DOMAIN task.doc : \A s \in GivenTo[p] :
              s \in Schemas /\ AppliedTo(p) = AppliedWith(s, p)
<1>1. ASSUME NEW p \in DOMAIN task.doc \ {<<>>}
      PROVE  GivenTo[p] \subseteq OfferedTo(p)
  <2>1. GivenTo[p] = PassedOn(GivenTo[Front(p)], p)
    BY GivenUnfolds
  <2>2. \A a : LeadsTo(a, Front(p), Last(p)) \subseteq SchemasFor(a, Front(p), Last(p))
    BY DEF LeadsTo
  <2> QED
    BY <2>1, <2>2, PassedOnBy DEF OfferedTo, AppliedTo
<1>2. \A p \in DOMAIN task.doc \ {<<>>} : \A s, t \in OfferedTo(p) : s = t
  BY DEF AllPlain, Plain
<1>3. \A p \in DOMAIN task.doc : \A s, t \in GivenTo[p] : s = t
  BY <1>1, <1>2, GivenUnfolds
<1>4. \A p \in DOMAIN task.doc : \A s \in GivenTo[p] :
        s \in Schemas /\ AppliedTo(p) = AppliedWith(s, p)
  BY <1>3, GivenUnfolds DEF AppliedTo
<1> QED
  BY <1>1, <1>3, <1>4

\* A schema that accepts a value has the schemas next to it accept it.
LEMMA AppliedAccept ==
  ASSUME task \in Tasks, NEW p \in DOMAIN task.doc, Kind(p) \in {"object", "array"}, Plain(p),
         NEW s \in GivenTo[p], s \in Schemas, Matches(s, task.doc, p),
         NEW a \in AppliedWith(s, p)
  PROVE  a \in Schemas /\ Matches(a, task.doc, p)
<1>1. IsObeyed(s, task.doc, p)
  BY AcceptedAssumption
<1>2. a \in Schemas
  BY AppliedTyped
<1>3. CASE a \in Range(Sources(s, p)) \ {None} /\ Kind(p) = "object"
  <2>1. CASE a = s
    BY <2>1
  <2>2. CASE \E i \in DOMAIN Schema[s].dependent :
               Schema[s].dependent[i].trigger \in Members(p) /\ a = Schema[s].dependent[i].schema
    BY <1>1, <1>2, <1>3, <2>2 DEF IsObeyed, Kind, Members
  <2>3. CASE /\ Schema[s].if # None
             /\ a = IF Matches(Schema[s].if, task.doc, p) THEN Schema[s].then ELSE Schema[s].else
    BY <1>1, <1>2, <1>3, <2>3 DEF IsObeyed, Kind
  <2> QED
    BY <1>3, <2>1, <2>2, <2>3, SourcesAre
<1>4. CASE a \in Range(Sources(s, p)) \ {None} /\ Kind(p) = "array"
  <2>1. Range(Sources(s, p)) \subseteq {s, None}
    BY <1>4 DEF Plain
  <2> QED
    BY <1>2, <1>4, <2>1
<1>5. CASE a \in Range(Schema[s].allOf)
  BY <1>1, <1>2, <1>5 DEF IsObeyed
<1>6. CASE Matches(a, task.doc, p)
  BY <1>2, <1>6
<1> QED
  BY <1>2, <1>3, <1>4, <1>5, <1>6 DEF AppliedWith

\* A schema that accepts a value has the schemas it leads to accept the members.
LEMMA LeadsToAccept ==
  ASSUME task \in Tasks, NEW p \in DOMAIN task.doc, NEW n \in Members(p),
         NEW a \in Schemas, Matches(a, task.doc, p), NEW t \in SchemasFor(a, p, n)
  PROVE  t \in Schemas /\ Matches(t, task.doc, Append(p, n))
<1> DEFINE rule == Schema[a]
           named == {f[n] : f \in {g \in {rule.props, rule.patterns} : n \in DOMAIN g}}
           index == CHOOSE i \in DOMAIN ItemName : ItemName[i] = n
<1>1. IsObeyed(a, task.doc, p)
  BY AcceptedAssumption
<1>2. t \in Schemas
  BY SchemasForTyped
<1>3. n \in MembersIn(task.doc, p)
  BY DEF Members
<1>4. CASE Kind(p) = "object" /\ named # {}
  <2>1. t \in named
    BY <1>4, Zenon DEF SchemasFor
  <2>2. PICK f \in {rule.props, rule.patterns} : n \in DOMAIN f /\ t = f[n]
    BY <2>1
  <2>3. \A m \in MembersIn(task.doc, p) \cap DOMAIN f : Matches(f[m], task.doc, Append(p, m))
    BY <1>1, <1>4 DEF IsObeyed, Kind
  <2> QED
    BY <1>2, <1>3, <2>2, <2>3
<1>5. CASE Kind(p) = "object" /\ named = {}
  <2>1. t \in {rule.additional} \cap Schemas
    BY <1>5, Zenon DEF SchemasFor
  <2>2. ~Declares(a, n)
    BY <1>5 DEF Declares
  <2>3. rule.additional \in Schemas =>
          \A m \in {k \in MembersIn(task.doc, p) : ~Declares(a, k)} :
            Matches(rule.additional, task.doc, Append(p, m))
    BY <1>1, <1>2, <1>5 DEF IsObeyed, Kind
  <2> QED
    BY <1>2, <1>3, <2>1, <2>2, <2>3
<1>6. CASE Kind(p) = "array"
  <2>1. t \in {SchemaOfItem(a, index)} \cap Schemas
    BY <1>6, Zenon DEF SchemasFor
  <2>2. index \in 1 .. Length(p) /\ ItemName[index] = n
    <3>1. PICK i \in 1 .. Length(p) : ItemName[i] = n
      BY <1>6, ItemsAreMembers
    <3>2. index = i
      BY <1>6, <3>1, ItemsAreMembers
    <3> QED
      BY <3>1, <3>2
  <2>3. \A i \in 1 .. Length(p) :
          SchemaOfItem(a, i) # None => Matches(SchemaOfItem(a, i), task.doc, Append(p, ItemName[i]))
    BY <1>1, <1>6 DEF IsObeyed, Kind, Length, Members
  <2>4. t # None
    BY <1>2, SchemaAssumption
  <2> QED
    BY <1>2, <2>1, <2>2, <2>3, <2>4
<1> QED
  BY <1>4, <1>5, <1>6, Places

\* In a valid body, a value is accepted by the schemas its place gives it.
LEMMA GivenAccept ==
  ASSUME task \in Tasks, AllPlain
  PROVE  \A p \in DOMAIN task.doc : \A s \in GivenTo[p] : Matches(s, task.doc, p)
<1> DEFINE good == {p \in DOMAIN task.doc : \A s \in GivenTo[p] : Matches(s, task.doc, p)}
<1>1. <<>> \in good
  BY GivenUnfolds, AcceptedAssumption, Places
<1>2. ASSUME NEW p \in DOMAIN task.doc \ {<<>>}, Front(p) \in good
      PROVE  p \in good
  <2> SUFFICES ASSUME NEW t \in GivenTo[p]
               PROVE  Matches(t, task.doc, p)
    BY <1>2
  <2> DEFINE q == Front(p)
             n == Last(p)
  <2>1. q \in DOMAIN task.doc /\ n \in Members(q) /\ p = Append(q, n) /\ Kind(q) \in {"object", "array"}
    BY Places
  <2>2. GivenTo[p] = PassedOn(GivenTo[q], p)
    BY GivenUnfolds
  <2>3. PICK s \in GivenTo[q] : \E a \in AppliedWith(s, q) : t \in LeadsTo(a, q, n)
    BY <2>2, PassedOnBy
  <2>4. PICK a \in AppliedWith(s, q) : t \in LeadsTo(a, q, n)
    BY <2>3
  <2>5. s \in Schemas /\ Matches(s, task.doc, q) /\ Plain(q)
    BY <1>2, <2>1, <2>3, GivenUnfolds DEF AllPlain
  <2> HIDE DEF good, q, n
  <2>6. a \in Schemas /\ Matches(a, task.doc, q)
    BY <2>1, <2>3, <2>4, <2>5, AppliedAccept
  <2>7. t \in SchemasFor(a, q, n)
    BY <2>4 DEF LeadsTo
  <2> QED
    BY <2>1, <2>6, <2>7, LeadsToAccept
<1> HIDE DEF good
<1>3. DOMAIN task.doc \subseteq good
  BY <1>1, <1>2, PathInduction
<1> QED
  BY <1>3 DEF good

--------------------------------------------------------------------------------
(* What the views show.                                                    *)

\* Merging neither adds nor loses a name, and takes what it has from a part.
LEMMA MergeShows ==
  ASSUME NEW fs, DOMAIN fs \subseteq Nat, NEW n
  PROVE  /\ n \in DOMAIN MergeAll(fs) <=> \E i \in DOMAIN fs : n \in DOMAIN fs[i]
         /\ n \in DOMAIN MergeAll(fs) =>
              \E i \in DOMAIN fs : n \in DOMAIN fs[i] /\ MergeAll(fs)[n] = fs[i][n]
<1>1. n \in DOMAIN MergeAll(fs) <=> \E i \in DOMAIN fs : n \in DOMAIN fs[i]
  BY DEF MergeAll
<1>2. ASSUME n \in DOMAIN MergeAll(fs)
      PROVE  \E i \in DOMAIN fs : n \in DOMAIN fs[i] /\ MergeAll(fs)[n] = fs[i][n]
  <2> DEFINE places == {i \in DOMAIN fs : n \in DOMAIN fs[i]}
  <2>1. places # {} /\ places \in SUBSET Nat
    BY <1>1, <1>2
  <2>2. Min(places) \in places
    BY <2>1, HasLeast
  <2>3. MergeAll(fs)[n] = fs[Min(places)][n]
    BY <1>2 DEF MergeAll
  <2> QED
    BY <2>2, <2>3
<1> QED
  BY <1>1, <1>2

\* The properties of the schemas a schema brings along.
PropertyOf(S, n, t) == \E a \in S : n \in DOMAIN Schema[a].props /\ t = Schema[a].props[n]
NamedIn(S, n) == \E a \in S : n \in DOMAIN Schema[a].props

\* collectDeclaredProperties shows just those.
LEMMA CollectShows ==
  ASSUME NEW s \in Schemas, NEW path, NEW n
  PROVE  LET S == Range(Sources(s, path)) \ {None}
             lookup == CollectDeclaredProperties(s, path)
         IN  /\ n \in DOMAIN lookup <=> NamedIn(S, n)
             /\ n \in DOMAIN lookup => PropertyOf(S, n, lookup[n])
<1> DEFINE sources == Sources(s, path)
           fs == [i \in DOMAIN sources |-> PropsOf(sources[i])]
           S == Range(sources) \ {None}
<1>1. sources \in Seq(Schemas \cup {None})
  BY SourcesTyped
<1> HIDE DEF sources
<1>2. \A i \in DOMAIN fs : n \in DOMAIN fs[i] => sources[i] \in S /\ fs[i] = Schema[sources[i]].props
  BY DEF Range, PropsOf
<1>3. \A a \in S : \E i \in DOMAIN fs : fs[i] = Schema[a].props
  BY DEF Range, PropsOf
<1>4. DOMAIN fs \subseteq Nat
  BY <1>1
<1>5. CollectDeclaredProperties(s, path) = MergeAll(fs)
  BY DEF CollectDeclaredProperties, sources
<1> HIDE DEF fs, S
<1>6. /\ n \in DOMAIN MergeAll(fs) <=> \E i \in DOMAIN fs : n \in DOMAIN fs[i]
      /\ n \in DOMAIN MergeAll(fs) =>
           \E i \in DOMAIN fs : n \in DOMAIN fs[i] /\ MergeAll(fs)[n] = fs[i][n]
  BY <1>4, MergeShows
<1>7. n \in DOMAIN MergeAll(fs) <=> NamedIn(S, n)
  BY <1>2, <1>3, <1>6 DEF NamedIn
<1>8. n \in DOMAIN MergeAll(fs) => PropertyOf(S, n, MergeAll(fs)[n])
  BY <1>2, <1>6 DEF PropertyOf
<1> QED
  BY <1>5, <1>7, <1>8 DEF S, sources

\* What a schema declares itself it has a schema for.
LEMMA NamedSchemas ==
  ASSUME NEW p, Kind(p) = "object", NEW a, NEW n
  PROVE  /\ n \in DOMAIN Schema[a].props => Schema[a].props[n] \in SchemasFor(a, p, n)
         /\ n \in DOMAIN Schema[a].patterns => Schema[a].patterns[n] \in SchemasFor(a, p, n)
         /\ ~Declares(a, n) => SchemasFor(a, p, n) = {Schema[a].additional} \cap Schemas
<1> DEFINE named == {f[n] : f \in {g \in {Schema[a].props, Schema[a].patterns} : n \in DOMAIN g}}
<1>1. named # {} => SchemasFor(a, p, n) = named
  BY Zenon DEF SchemasFor
<1>2. named = {} => SchemasFor(a, p, n) = {Schema[a].additional} \cap Schemas
  BY Zenon DEF SchemasFor
<1>3. n \in DOMAIN Schema[a].props => Schema[a].props[n] \in named
  OBVIOUS
<1>4. n \in DOMAIN Schema[a].patterns => Schema[a].patterns[n] \in named
  OBVIOUS
<1>5. ~Declares(a, n) => named = {}
  BY DEF Declares
<1> HIDE DEF named
<1> QED
  BY <1>1, <1>2, <1>3, <1>4, <1>5

\* A view that shows what the schemas that apply to a value declare.
Shows(view, s, p) ==
  /\ \A n \in Seen(p) : n \in view.known <=> \E a \in AppliedWith(s, p) : Declares(a, n)
  /\ \A n \in Seen(p) : n \in view.known <=> n \in DOMAIN view.lookup
  /\ \A n \in Seen(p) \cap DOMAIN view.lookup :
       \E a \in AppliedWith(s, p) : Declares(a, n) /\ view.lookup[n] \in SchemasFor(a, p, n)
  /\ \A n \in Seen(p) \ view.known :
       /\ view.report
       /\ {view.extra} \ {None} = UNION {SchemasFor(a, p, n) : a \in AppliedWith(s, p)}

\* A schema that forbids extras declares all members of a value it accepts.
LEMMA ForbidsExtras ==
  ASSUME task \in Tasks, NEW p \in DOMAIN task.doc, Kind(p) = "object",
         NEW a \in Schemas, Matches(a, task.doc, p), ~ShouldReportUndeclared(a)
  PROVE  \A n \in Seen(p) : Declares(a, n)
<1>1. IsObeyed(a, task.doc, p)
  BY AcceptedAssumption
<1>2. Schema[a].additional = "false"
  BY DEF ShouldReportUndeclared
<1>3. {n \in MembersIn(task.doc, p) : ~Declares(a, n)} = {}
  BY <1>1, <1>2 DEF IsObeyed, Kind
<1> QED
  BY <1>3 DEF Seen, Members

\* A schema without allOf, oneOf and anyOf.
LEMMA NothingCombined ==
  ASSUME NEW s \in Schemas, ~IsPolymorphic(s)
  PROVE  Schema[s].allOf = <<>> /\ Schema[s].oneOf = <<>> /\ Schema[s].anyOf = <<>>
<1> DEFINE a == Schema[s].allOf
           b == Schema[s].oneOf
           c == Schema[s].anyOf
<1>1. a \in Seq(Schemas) /\ b \in Seq(Schemas) /\ c \in Seq(Schemas)
  BY RuleTyped
<1>2. ~(Len(a \o b \o c) > 0)
  BY DEF IsPolymorphic
<1> HIDE DEF a, b, c
<1>3. a \o b \in Seq(Schemas) /\ Len(a \o b) = Len(a) + Len(b)
  BY <1>1, ConcatProperties
<1>4. Len((a \o b) \o c) = Len(a \o b) + Len(c)
  BY <1>1, <1>3, ConcatProperties
<1>5. Len(a) \in Nat /\ Len(b) \in Nat /\ Len(c) \in Nat
  BY <1>1
<1>6. Len(a) = 0 /\ Len(b) = 0 /\ Len(c) = 0
  BY <1>2, <1>3, <1>4, <1>5
<1>7. a = <<>> /\ b = <<>> /\ c = <<>>
  BY <1>1, <1>6, EmptySeq
<1> QED
  BY <1>7 DEF a, b, c

\* Declared, by the name or by a pattern.
LEMMA DeclaredBy ==
  ASSUME NEW a, NEW n
  PROVE  Declares(a, n) <=> n \in DOMAIN Schema[a].props \/ n \in DOMAIN Schema[a].patterns
BY DEF Declares

\* What is known of a value a view is of.
OfObject(s, p) ==
  /\ task \in Tasks
  /\ p \in DOMAIN task.doc
  /\ Kind(p) = "object"
  /\ Plain(p)
  /\ s \in GivenTo[p]
  /\ s \in Schemas
  /\ AppliedWith(s, p) \subseteq Schemas
  /\ s \in AppliedWith(s, p)
  /\ \A a \in AppliedWith(s, p) : Matches(a, task.doc, p)

\* Where a schema brings others along, only its own patterns count, and no
\* schema says what else there may be.
LEMMA Brought ==
  ASSUME NEW s, NEW p, OfObject(s, p), AppliedWith(s, p) # {s} \/ IsPolymorphic(s),
         NEW a \in AppliedWith(s, p)
  PROVE  /\ Schema[a].additional \notin Schemas
         /\ Schema[a].patterns = <<>> \/ (a = s /\ Schema[s].allOf = <<>>)
<1>1. \/ IsPolymorphic(s)
      \/ AppliedWith(s, p) = Range(Sources(s, p)) \ {None}
  <2> SUFFICES ASSUME ~IsPolymorphic(s)
               PROVE  AppliedWith(s, p) = Range(Sources(s, p)) \ {None}
    OBVIOUS
  <2>1. Schema[s].allOf = <<>> /\ Schema[s].oneOf = <<>> /\ Schema[s].anyOf = <<>>
    BY NothingCombined DEF OfObject
  <2>2. Range(Schema[s].allOf) = {} /\ Range(Schema[s].oneOf \o Schema[s].anyOf) = {}
    BY <2>1 DEF Range
  <2> QED
    BY <2>2 DEF AppliedWith
<1>2. s \in Range(Sources(s, p)) \ {None}
  BY SourcesAre DEF OfObject
<1>3. IsPolymorphic(s) \/ ~(Range(Sources(s, p)) \subseteq {s, None})
  BY <1>1, <1>2
<1> QED
  BY <1>3 DEF OfObject, Plain

\* validateObject's view.
LEMMA PlainShows ==
  ASSUME NEW s, NEW p, OfObject(s, p), ~IsPolymorphic(s)
  PROVE  Shows(PlainView(s, p), s, p)
<1> DEFINE rule == Schema[s]
           S == AppliedWith(s, p)
           declared == IF ShouldReportUndeclared(s) THEN CollectDeclaredProperties(s, p) ELSE rule.props
           lookup == MergeAll(<<declared, rule.patterns>>)
           view == PlainView(s, p)
<1>1. S = Range(Sources(s, p)) \ {None}
  <2>1. Schema[s].allOf = <<>> /\ Schema[s].oneOf = <<>> /\ Schema[s].anyOf = <<>>
    BY NothingCombined DEF OfObject
  <2>2. Range(Schema[s].allOf) = {} /\ Range(Schema[s].oneOf \o Schema[s].anyOf) = {}
    BY <2>1 DEF Range
  <2> QED
    BY <2>2 DEF AppliedWith
<1>2. s \in S /\ s \in Schemas
  BY DEF OfObject
<1>3. /\ view.lookup = lookup
      /\ view.known = DOMAIN lookup
      /\ view.report = ShouldReportUndeclared(s)
      /\ view.extra = IF rule.additional \in Schemas THEN rule.additional ELSE None
  BY DEF PlainView
<1>4. \A a \in S : a = s \/ DOMAIN Schema[a].patterns = {}
  <2> SUFFICES ASSUME NEW a \in S, a # s
               PROVE  Schema[a].patterns = <<>>
    OBVIOUS
  <2> QED
    BY Brought
<1>5. ASSUME NEW n
      PROVE  /\ n \in DOMAIN declared => PropertyOf(S, n, declared[n])
             /\ n \in DOMAIN declared <=> IF ShouldReportUndeclared(s) THEN NamedIn(S, n) ELSE n \in DOMAIN rule.props
  <2>1. /\ n \in DOMAIN CollectDeclaredProperties(s, p) <=> NamedIn(S, n)
        /\ n \in DOMAIN CollectDeclaredProperties(s, p) =>
             PropertyOf(S, n, CollectDeclaredProperties(s, p)[n])
    BY <1>1, <1>2, CollectShows
  <2>2. n \in DOMAIN rule.props => PropertyOf(S, n, rule.props[n])
    BY <1>2 DEF PropertyOf
  <2> QED
    BY <2>1, <2>2
<1> HIDE DEF declared
<1>6. ASSUME NEW n
      PROVE  /\ n \in DOMAIN lookup <=> n \in DOMAIN declared \/ n \in DOMAIN rule.patterns
             /\ n \in DOMAIN lookup =>
                  \/ n \in DOMAIN declared /\ lookup[n] = declared[n]
                  \/ n \in DOMAIN rule.patterns /\ lookup[n] = rule.patterns[n]
  <2> DEFINE fs == <<declared, rule.patterns>>
  <2>1. DOMAIN fs = {1, 2} /\ fs[1] = declared /\ fs[2] = rule.patterns
    OBVIOUS
  <2> HIDE DEF fs
  <2>2. DOMAIN fs \subseteq Nat
    BY <2>1
  <2>3. /\ n \in DOMAIN MergeAll(fs) <=> \E i \in DOMAIN fs : n \in DOMAIN fs[i]
        /\ n \in DOMAIN MergeAll(fs) =>
             \E i \in DOMAIN fs : n \in DOMAIN fs[i] /\ MergeAll(fs)[n] = fs[i][n]
    BY <2>2, MergeShows
  <2>4. lookup = MergeAll(fs)
    BY DEF fs
  <2> HIDE DEF lookup
  <2> QED
    BY <2>1, <2>3, <2>4
<1>7. ~ShouldReportUndeclared(s) => \A n \in Seen(p) : Declares(s, n)
  BY ForbidsExtras DEF OfObject
<1> HIDE DEF lookup
<1>8. ASSUME NEW n \in Seen(p)
      PROVE  n \in DOMAIN lookup <=> \E a \in S : Declares(a, n)
  <2>1. (\E a \in S : Declares(a, n)) <=> NamedIn(S, n) \/ n \in DOMAIN rule.patterns
    BY <1>2, <1>4 DEF Declares, NamedIn
  <2>2. CASE ShouldReportUndeclared(s)
    BY <1>5, <1>6, <2>1, <2>2
  <2>3. CASE ~ShouldReportUndeclared(s)
    BY <1>2, <1>5, <1>6, <1>7, <2>3, DeclaredBy
  <2> QED
    BY <2>2, <2>3
<1>9. ASSUME NEW n \in Seen(p), n \in DOMAIN lookup
      PROVE  \E a \in S : Declares(a, n) /\ lookup[n] \in SchemasFor(a, p, n)
  <2>1. CASE n \in DOMAIN declared /\ lookup[n] = declared[n]
    <3>1. PICK a \in S : n \in DOMAIN Schema[a].props /\ lookup[n] = Schema[a].props[n]
      BY <1>5, <2>1 DEF PropertyOf
    <3> QED
      BY <3>1, NamedSchemas, DeclaredBy DEF OfObject
  <2>2. CASE n \in DOMAIN rule.patterns /\ lookup[n] = rule.patterns[n]
    BY <1>2, <2>2, NamedSchemas, DeclaredBy DEF OfObject
  <2> QED
    BY <1>6, <1>9, <2>1, <2>2
<1>10. ASSUME NEW n \in Seen(p), n \notin DOMAIN lookup
       PROVE  /\ ShouldReportUndeclared(s)
              /\ {view.extra} \ {None} = UNION {SchemasFor(a, p, n) : a \in S}
  <2>1. \A a \in S : ~Declares(a, n)
    BY <1>8, <1>10
  <2>2. \A a \in S : SchemasFor(a, p, n) = {Schema[a].additional} \cap Schemas
    BY <2>1, NamedSchemas DEF OfObject
  <2>3. {view.extra} \ {None} = {rule.additional} \cap Schemas
    BY <1>3, SchemaAssumption
  <2> HIDE DEF view
  <2>4. ShouldReportUndeclared(s)
    BY <1>2, <1>7, <2>1
  <2>5. CASE S = {s}
    <3>1. UNION {SchemasFor(a, p, n) : a \in S} = SchemasFor(s, p, n)
      BY <2>5
    <3> QED
      BY <1>2, <2>2, <2>3, <2>4, <3>1
  <2>6. CASE S # {s}
    <3>1. \A a \in S : {Schema[a].additional} \cap Schemas = {}
      BY <2>6, Brought
    <3>2. UNION {SchemasFor(a, p, n) : a \in S} = {}
      BY <2>2, <3>1
    <3> QED
      BY <1>2, <2>3, <2>4, <3>1, <3>2
  <2> QED
    BY <2>5, <2>6
<1> HIDE DEF view, S
<1> QED
  BY <1>3, <1>8, <1>9, <1>10 DEF Shows, view, S

\* What a schema that applies brings along applies as well.
LEMMA SourcesApply ==
  ASSUME NEW s, NEW p, OfObject(s, p), NEW a \in AppliedWith(s, p)
  PROVE  /\ Range(Sources(a, p)) \ {None} \subseteq AppliedWith(s, p)
         /\ a \in Range(Sources(a, p)) \ {None}
<1>1. a \in Range(Sources(a, p)) \ {None}
  BY SourcesAre DEF OfObject
<1>2. CASE a = s
  BY <1>1, <1>2 DEF AppliedWith
<1>3. CASE a # s
  <2>1. Range(Sources(a, p)) \subseteq {a, None}
    BY <1>3 DEF OfObject, Plain, OneCombination
  <2> QED
    BY <1>1, <2>1
<1> QED
  BY <1>2, <1>3

\* A view whose lookup has the properties of all schemas that apply.
LEMMA MergedShows ==
  ASSUME NEW s, NEW p, OfObject(s, p), IsPolymorphic(s), NEW view,
         view.extra = None,
         (\A a \in AppliedWith(s, p) : ShouldReportUndeclared(a)) => view.report,
         \A n \in Seen(p) : n \in view.known <=> n \in DOMAIN view.lookup,
         \A n \in Seen(p) : n \in DOMAIN view.lookup <=> \E a \in AppliedWith(s, p) : Declares(a, n),
         \A n \in Seen(p) \cap DOMAIN view.lookup :
           \E a \in AppliedWith(s, p) :
             \/ n \in DOMAIN Schema[a].props /\ view.lookup[n] = Schema[a].props[n]
             \/ n \in DOMAIN Schema[a].patterns /\ view.lookup[n] = Schema[a].patterns[n]
  PROVE  Shows(view, s, p)
<1> DEFINE S == AppliedWith(s, p)
<1>1. s \in S
  BY DEF OfObject
<1>2. ASSUME NEW n \in Seen(p) \cap DOMAIN view.lookup
      PROVE  \E a \in S : Declares(a, n) /\ view.lookup[n] \in SchemasFor(a, p, n)
  <2>1. PICK a \in S : \/ n \in DOMAIN Schema[a].props /\ view.lookup[n] = Schema[a].props[n]
                       \/ n \in DOMAIN Schema[a].patterns /\ view.lookup[n] = Schema[a].patterns[n]
    OBVIOUS
  <2> QED
    BY <2>1, NamedSchemas, DeclaredBy DEF OfObject
<1>3. ASSUME NEW n \in Seen(p) \ view.known
      PROVE  view.report /\ {view.extra} \ {None} = UNION {SchemasFor(a, p, n) : a \in S}
  <2>1. \A a \in S : ~Declares(a, n)
    OBVIOUS
  <2>2. \A a \in S : ShouldReportUndeclared(a)
    BY <2>1, ForbidsExtras DEF OfObject
  <2>3. \A a \in S : SchemasFor(a, p, n) = {}
    <3>1. \A a \in S : Schema[a].additional \notin Schemas
      BY Brought
    <3>2. \A a \in S : SchemasFor(a, p, n) = {Schema[a].additional} \cap Schemas
      BY <2>1, NamedSchemas DEF OfObject
    <3> QED
      BY <3>1, <3>2
  <2>4. UNION {SchemasFor(a, p, n) : a \in S} = {}
    BY <2>3
  <2>5. view.report
    BY <1>1, <2>2
  <2> HIDE DEF S
  <2> QED
    BY <2>4, <2>5
<1> QED
  BY <1>2, <1>3 DEF Shows

\* validateAllOf's view.
LEMMA AllOfShows ==
  ASSUME NEW s, NEW p, OfObject(s, p), IsPolymorphic(s), Schema[s].allOf # <<>>,
         Schema[s].oneOf = <<>>, Schema[s].anyOf = <<>>
  PROVE  Shows(AllOfView(s, p), s, p)
<1> DEFINE S == AppliedWith(s, p)
           subs == Append(Schema[s].allOf, s)
           fs == [i \in DOMAIN subs |-> CollectDeclaredProperties(subs[i], p)]
           lookup == MergeAll(fs)
           view == AllOfView(s, p)
<1>1. /\ view.lookup = lookup
      /\ view.known = DOMAIN lookup \cup UNION {DOMAIN Schema[t].patterns : t \in Range(subs)}
      /\ view.report = \A t \in Range(subs) : ShouldReportUndeclared(t)
      /\ view.extra = None
  BY DEF AllOfView
<1>2. s \in S /\ s \in Schemas /\ S \subseteq Schemas
  BY DEF OfObject
<1>3. /\ subs \in Seq(Schemas) /\ Range(subs) = Range(Schema[s].allOf) \cup {s}
      /\ DOMAIN subs \subseteq Nat
  <2>1. Schema[s].allOf \in Seq(Schemas)
    BY <1>2, RuleTyped
  <2>2. subs = Schema[s].allOf \o <<s>> /\ <<s>> \in Seq(Schemas) /\ Range(<<s>>) = {s}
    BY <1>2, <2>1, AppendIsConcat DEF Range
  <2>3. Range(subs) = Range(Schema[s].allOf) \cup Range(<<s>>)
    BY <2>1, <2>2, RangeConcatenation
  <2>4. subs \in Seq(Schemas)
    BY <1>2, <2>1, AppendProperties
  <2> HIDE DEF subs
  <2> QED
    BY <2>2, <2>3, <2>4
<1>4. S = (Range(Sources(s, p)) \ {None}) \cup Range(Schema[s].allOf)
  <2>1. Range(Schema[s].oneOf \o Schema[s].anyOf) = {}
    BY DEF Range
  <2> QED
    BY <2>1 DEF AppliedWith
<1> HIDE DEF subs
<1>5. Range(subs) \subseteq S
  BY <1>2, <1>3, <1>4
<1>6. \A a \in S : \E b \in Range(subs) : a \in Range(Sources(b, p)) \ {None}
  BY <1>3, <1>4, <1>5, SourcesApply
<1>7. \A a \in S : DOMAIN Schema[a].patterns = {}
  <2>1. \A a \in S : Schema[a].patterns = <<>>
    BY Brought
  <2> QED
    BY <2>1
<1>8. DOMAIN fs \subseteq Nat /\ \A i \in DOMAIN fs : subs[i] \in Range(subs) /\ fs[i] = CollectDeclaredProperties(subs[i], p)
  BY <1>3 DEF Range
<1>9. \A b \in Range(subs) : \E i \in DOMAIN fs : fs[i] = CollectDeclaredProperties(b, p)
  BY DEF Range
<1> HIDE DEF fs, S
<1>10. ASSUME NEW n, NEW b \in Range(subs)
       PROVE  LET part == CollectDeclaredProperties(b, p)
              IN  /\ n \in DOMAIN part <=> NamedIn(Range(Sources(b, p)) \ {None}, n)
                  /\ n \in DOMAIN part => PropertyOf(S, n, part[n])
  <2>1. b \in Schemas /\ Range(Sources(b, p)) \ {None} \subseteq S
    BY <1>2, <1>5, SourcesApply DEF S
  <2> QED
    BY <2>1, CollectShows DEF PropertyOf
<1>11. ASSUME NEW n
       PROVE  /\ n \in DOMAIN lookup <=> \E i \in DOMAIN fs : n \in DOMAIN fs[i]
              /\ n \in DOMAIN lookup =>
                   \E i \in DOMAIN fs : n \in DOMAIN fs[i] /\ lookup[n] = fs[i][n]
  BY <1>8, MergeShows
<1> HIDE DEF lookup
<1>12. ASSUME NEW n
       PROVE  n \in DOMAIN lookup <=> \E a \in S : Declares(a, n)
  <2>1. (\E a \in S : Declares(a, n)) <=> NamedIn(S, n)
    BY <1>7, DeclaredBy DEF NamedIn
  <2>2. ASSUME n \in DOMAIN lookup PROVE NamedIn(S, n)
    BY <1>8, <1>10, <1>11, <2>2 DEF PropertyOf, NamedIn
  <2>3. ASSUME NamedIn(S, n) PROVE n \in DOMAIN lookup
    <3>1. PICK a \in S : n \in DOMAIN Schema[a].props
      BY <2>3 DEF NamedIn
    <3>2. PICK b \in Range(subs) : a \in Range(Sources(b, p)) \ {None}
      BY <1>6
    <3>3. n \in DOMAIN CollectDeclaredProperties(b, p)
      BY <1>10, <3>1, <3>2 DEF NamedIn
    <3> QED
      BY <1>9, <1>11, <3>3
  <2> QED
    BY <2>1, <2>2, <2>3
<1>13. \A n \in DOMAIN lookup : PropertyOf(S, n, lookup[n])
  BY <1>8, <1>10, <1>11
<1>14. view.known = DOMAIN lookup
  <2>1. UNION {DOMAIN Schema[t].patterns : t \in Range(subs)} = {}
    BY <1>5, <1>7
  <2> QED
    BY <1>1, <2>1
<1>15. (\A a \in S : ShouldReportUndeclared(a)) => view.report
  BY <1>1, <1>5
<1> HIDE DEF view
<1>16. \A n \in Seen(p) \cap DOMAIN view.lookup :
         \E a \in S : n \in DOMAIN Schema[a].props /\ view.lookup[n] = Schema[a].props[n]
  BY <1>1, <1>13 DEF PropertyOf
<1>17. Shows(view, s, p)
  BY <1>1, <1>12, <1>14, <1>15, <1>16, MergedShows DEF S
<1> QED
  BY <1>17 DEF view

\* validateVariantWithParent's view.
LEMMA VariantShows ==
  ASSUME NEW s, NEW p, OfObject(s, p), IsPolymorphic(s), NEW v \in Schemas,
         Schema[s].allOf = <<>>,
         AppliedWith(s, p) = (Range(Sources(s, p)) \ {None}) \cup {v}
  PROVE  Shows(VariantView(s, v, p), s, p)
<1> DEFINE S == AppliedWith(s, p)
           ofVariant == CollectDeclaredProperties(v, p)
           ofParent == CollectDeclaredProperties(s, p)
           fs == <<ofVariant, ofParent, Schema[v].patterns, Schema[s].patterns>>
           lookup == MergeAll(fs)
           view == VariantView(s, v, p)
<1>1. /\ view.lookup = lookup
      /\ view.known = DOMAIN lookup
      /\ view.report = (ShouldReportUndeclared(v) \/ ShouldReportUndeclared(s))
      /\ view.extra = None
  BY DEF VariantView
<1>2. s \in S /\ v \in S /\ s \in Schemas /\ S \subseteq Schemas
  BY DEF OfObject
<1>3. \A a \in S : a = s \/ DOMAIN Schema[a].patterns = {}
  <2> SUFFICES ASSUME NEW a \in S, a # s
               PROVE  Schema[a].patterns = <<>>
    OBVIOUS
  <2> QED
    BY Brought
<1>4. /\ DOMAIN fs = {1, 2, 3, 4} /\ fs[1] = ofVariant /\ fs[2] = ofParent
      /\ fs[3] = Schema[v].patterns /\ fs[4] = Schema[s].patterns
  OBVIOUS
<1> HIDE DEF fs
<1> HIDE DEF S
<1>5. ASSUME NEW n, NEW b \in {s, v}
      PROVE  LET part == CollectDeclaredProperties(b, p)
             IN  /\ n \in DOMAIN part <=> NamedIn(Range(Sources(b, p)) \ {None}, n)
                 /\ n \in DOMAIN part => PropertyOf(S, n, part[n])
  <2>1. b \in Schemas /\ Range(Sources(b, p)) \ {None} \subseteq S
    BY <1>2, SourcesApply DEF S
  <2>2. /\ n \in DOMAIN CollectDeclaredProperties(b, p) <=> NamedIn(Range(Sources(b, p)) \ {None}, n)
        /\ n \in DOMAIN CollectDeclaredProperties(b, p) =>
             PropertyOf(Range(Sources(b, p)) \ {None}, n, CollectDeclaredProperties(b, p)[n])
    BY <2>1, CollectShows
  <2> QED
    BY <2>1, <2>2 DEF PropertyOf
<1>6. v \in Range(Sources(v, p)) \ {None}
  BY SourcesAre
<1>7. ASSUME NEW n
      PROVE  /\ n \in DOMAIN ofVariant \/ n \in DOMAIN ofParent <=> NamedIn(S, n)
             /\ n \in DOMAIN ofVariant => PropertyOf(S, n, ofVariant[n])
             /\ n \in DOMAIN ofParent => PropertyOf(S, n, ofParent[n])
  <2>1. NamedIn(S, n) => n \in DOMAIN ofVariant \/ n \in DOMAIN ofParent
    BY <1>5, <1>6 DEF S, NamedIn
  <2>2. PropertyOf(S, n, ofVariant[n]) \/ PropertyOf(S, n, ofParent[n]) => NamedIn(S, n)
    BY DEF PropertyOf, NamedIn
  <2> QED
    BY <1>5, <2>1, <2>2
<1> HIDE DEF ofVariant, ofParent
<1>8. ASSUME NEW n
      PROVE  /\ n \in DOMAIN lookup <=> \E i \in DOMAIN fs : n \in DOMAIN fs[i]
             /\ n \in DOMAIN lookup =>
                  \E i \in DOMAIN fs : n \in DOMAIN fs[i] /\ lookup[n] = fs[i][n]
  <2>1. DOMAIN fs \subseteq Nat
    BY <1>4
  <2> QED
    BY <2>1, MergeShows
<1> HIDE DEF lookup
<1>9. ASSUME NEW n
      PROVE  n \in DOMAIN lookup <=>
               NamedIn(S, n) \/ n \in DOMAIN Schema[v].patterns \/ n \in DOMAIN Schema[s].patterns
  BY <1>4, <1>7, <1>8
<1>10. ASSUME NEW n
       PROVE  n \in DOMAIN lookup <=> \E a \in S : Declares(a, n)
  <2>1. (\E a \in S : Declares(a, n)) <=>
          NamedIn(S, n) \/ n \in DOMAIN Schema[v].patterns \/ n \in DOMAIN Schema[s].patterns
    BY <1>2, <1>3, DeclaredBy DEF NamedIn
  <2> QED
    BY <1>9, <2>1
<1>11. ASSUME NEW n, n \in DOMAIN lookup
       PROVE  \E a \in S : \/ n \in DOMAIN Schema[a].props /\ lookup[n] = Schema[a].props[n]
                           \/ n \in DOMAIN Schema[a].patterns /\ lookup[n] = Schema[a].patterns[n]
  <2>1. \/ n \in DOMAIN ofVariant /\ lookup[n] = ofVariant[n]
        \/ n \in DOMAIN ofParent /\ lookup[n] = ofParent[n]
        \/ n \in DOMAIN Schema[v].patterns /\ lookup[n] = Schema[v].patterns[n]
        \/ n \in DOMAIN Schema[s].patterns /\ lookup[n] = Schema[s].patterns[n]
    BY <1>4, <1>8, <1>11
  <2> QED
    BY <1>2, <1>7, <2>1 DEF PropertyOf
<1>12. (\A a \in S : ShouldReportUndeclared(a)) => view.report
  BY <1>1, <1>2
<1> HIDE DEF view
<1>13. Shows(view, s, p)
  BY <1>1, <1>10, <1>11, <1>12, MergedShows DEF S
<1> QED
  BY <1>13 DEF view

\* No variants, no view.
LEMMA NoVariants ==
  ASSUME NEW s, NEW p
  PROVE  VariantViews(s, <<>>, p) = <<>>
<1>1. SelectByDiscriminator(s, <<>>, p) = None
  BY DEF SelectByDiscriminator, Range
<1>2. FindMatchingVariant(<<>>, p) = None
  <2>1. {i \in DOMAIN <<>> : Matches(<<>>[i], task.doc, p)} = {}
    OBVIOUS
  <2> QED
    BY <2>1 DEF FindMatchingVariant
<1> QED
  BY <1>1, <1>2 DEF VariantViews

\* Variants, and the one that matches: its view.
LEMMA OneVariant ==
  ASSUME NEW s, NEW p, NEW variants \in Seq(Schemas),
         \E t \in Range(variants) : Matches(t, task.doc, p),
         \A t, u \in Range(variants) : Matches(t, task.doc, p) /\ Matches(u, task.doc, p) => t = u,
         LET selected == SelectByDiscriminator(s, variants, p)
         IN  selected = None \/ Matches(selected, task.doc, p)
  PROVE  \E v \in Schemas :
           /\ {t \in Range(variants) : Matches(t, task.doc, p)} = {v}
           /\ VariantViews(s, variants, p) = <<VariantView(s, v, p)>>
<1> DEFINE selected == SelectByDiscriminator(s, variants, p)
           matching == {i \in DOMAIN variants : Matches(variants[i], task.doc, p)}
           found == FindMatchingVariant(variants, p)
           v == IF selected # None THEN selected ELSE found
<1>1. selected = None \/ selected \in Range(variants)
  BY DEF SelectByDiscriminator
<1>2. found \in Range(variants) /\ Matches(found, task.doc, p)
  <2>1. matching # {} /\ matching \in SUBSET Nat
    BY DEF Range
  <2>2. Min(matching) \in matching
    BY <2>1, HasLeast
  <2>3. found = variants[Min(matching)]
    BY <2>1 DEF FindMatchingVariant
  <2> QED
    BY <2>2, <2>3 DEF Range
<1>3. v \in Range(variants) /\ Matches(v, task.doc, p)
  BY <1>1, <1>2
<1>4. Range(variants) \subseteq Schemas
  BY RangeOfSeq
<1>5. v # None
  BY <1>3, <1>4, SchemaAssumption
<1>6. VariantViews(s, variants, p) = IF v = None THEN <<>> ELSE <<VariantView(s, v, p)>>
  BY DEF VariantViews
<1> HIDE DEF v
<1>7. {t \in Range(variants) : Matches(t, task.doc, p)} = {v}
  BY <1>3
<1> QED
  BY <1>3, <1>4, <1>5, <1>6, <1>7

\* Under the hypotheses of FindingsExact an object has one view, and it shows
\* what JSON Schema says.
LEMMA OneView ==
  ASSUME NEW s, NEW p, OfObject(s, p)
  PROVE  \E view : Views(CallOn(p, s)) = <<view>> /\ Shows(view, s, p)
<1> DEFINE rule == Schema[s]
           call == CallOn(p, s)
           allOf == IF rule.allOf = <<>> THEN <<>> ELSE <<AllOfView(s, p)>>
<1>1. call.path = p /\ call.schema = s
  BY DEF CallOn
<1>2. Views(call) = IF IsPolymorphic(s)
                      THEN allOf \o VariantViews(s, rule.oneOf, p) \o VariantViews(s, rule.anyOf, p)
                      ELSE <<PlainView(s, p)>>
  BY <1>1 DEF Views
<1>3. CASE ~IsPolymorphic(s)
  BY <1>2, <1>3, PlainShows
<1> HIDE DEF call
<1>4. ASSUME IsPolymorphic(s)
      PROVE  \E view : Views(call) = <<view>> /\ Shows(view, s, p)
  <2>1. s \in Schemas /\ OneCombination(s, p) /\ IsObeyed(s, task.doc, p)
    BY AcceptedAssumption DEF OfObject, Plain
  <2>2. rule.allOf \in Seq(Schemas) /\ rule.oneOf \in Seq(Schemas) /\ rule.anyOf \in Seq(Schemas)
    BY <2>1, RuleTyped
  <2>3. rule.allOf # <<>> \/ rule.oneOf # <<>> \/ rule.anyOf # <<>>
    <3> SUFFICES ASSUME rule.allOf = <<>>, rule.oneOf = <<>>, rule.anyOf = <<>>
                 PROVE  FALSE
      OBVIOUS
    <3>1. <<>> \o <<>> \o <<>> = <<>> /\ Len(<<>>) = 0
      OBVIOUS
    <3> QED
      BY <1>4, <3>1 DEF IsPolymorphic
  <2>4. /\ rule.allOf # <<>> => rule.oneOf = <<>> /\ rule.anyOf = <<>>
        /\ rule.oneOf # <<>> => rule.allOf = <<>> /\ rule.anyOf = <<>>
        /\ rule.anyOf # <<>> => rule.allOf = <<>> /\ rule.oneOf = <<>>
    <3>1. /\ rule["allOf"] = rule.allOf /\ rule["oneOf"] = rule.oneOf /\ rule["anyOf"] = rule.anyOf
      OBVIOUS
    <3>2. \A c, d \in {"allOf", "oneOf", "anyOf"} : rule[c] # <<>> /\ rule[d] # <<>> => c = d
      BY <2>1 DEF OneCombination, Combinations
    <3> HIDE DEF rule
    <3> QED
      BY <3>1, <3>2
  <2>5. /\ rule.oneOf # <<>> => \E t \in Range(rule.oneOf) : Matches(t, task.doc, p)
        /\ rule.anyOf # <<>> => \E t \in Range(rule.anyOf) : Matches(t, task.doc, p)
        /\ \A t, u \in Range(rule.oneOf) : Matches(t, task.doc, p) /\ Matches(u, task.doc, p) => t = u
    BY <2>1 DEF IsObeyed
  <2>6. /\ \A t, u \in Range(rule.anyOf) : Matches(t, task.doc, p) /\ Matches(u, task.doc, p) => t = u
        /\ \A variants \in {rule.oneOf, rule.anyOf} :
             LET selected == SelectByDiscriminator(s, variants, p)
             IN  selected = None \/ Matches(selected, task.doc, p)
    BY <2>1 DEF OneCombination
  <2>7. CASE rule.allOf # <<>>
    <3>1. Views(call) = <<AllOfView(s, p)>> \o <<>> \o <<>>
      BY <1>2, <1>4, <2>4, <2>7, NoVariants
    <3>2. <<AllOfView(s, p)>> \o <<>> \o <<>> = <<AllOfView(s, p)>>
      OBVIOUS
    <3> QED
      BY <1>4, <2>4, <2>7, <3>1, <3>2, AllOfShows
  <2>8. CASE rule.oneOf # <<>>
    <3>1. PICK v \in Schemas :
            /\ {t \in Range(rule.oneOf) : Matches(t, task.doc, p)} = {v}
            /\ VariantViews(s, rule.oneOf, p) = <<VariantView(s, v, p)>>
      BY <2>2, <2>5, <2>6, <2>8, OneVariant
    <3>2. Views(call) = <<>> \o <<VariantView(s, v, p)>> \o <<>>
      BY <1>2, <1>4, <2>4, <2>8, <3>1, NoVariants
    <3>3. <<>> \o <<VariantView(s, v, p)>> \o <<>> = <<VariantView(s, v, p)>>
      OBVIOUS
    <3>4. AppliedWith(s, p) = (Range(Sources(s, p)) \ {None}) \cup {v}
      <4>1. rule.oneOf \o rule.anyOf = rule.oneOf
        BY <2>2, <2>4, <2>8, ConcatEmptySeq
      <4>2. Range(rule.allOf) = {}
        BY <2>4, <2>8 DEF Range
      <4> QED
        BY <3>1, <4>1, <4>2 DEF AppliedWith
    <3> QED
      BY <1>4, <2>4, <2>8, <3>2, <3>3, <3>4, VariantShows
  <2>9. CASE rule.anyOf # <<>>
    <3>1. PICK v \in Schemas :
            /\ {t \in Range(rule.anyOf) : Matches(t, task.doc, p)} = {v}
            /\ VariantViews(s, rule.anyOf, p) = <<VariantView(s, v, p)>>
      BY <2>2, <2>5, <2>6, <2>9, OneVariant
    <3>2. Views(call) = <<>> \o <<>> \o <<VariantView(s, v, p)>>
      BY <1>2, <1>4, <2>4, <2>9, <3>1, NoVariants
    <3>3. <<>> \o <<>> \o <<VariantView(s, v, p)>> = <<VariantView(s, v, p)>>
      OBVIOUS
    <3>4. AppliedWith(s, p) = (Range(Sources(s, p)) \ {None}) \cup {v}
      <4>1. rule.oneOf \o rule.anyOf = rule.anyOf
        BY <2>2, <2>4, <2>9, ConcatEmptySeq
      <4>2. Range(rule.allOf) = {}
        BY <2>4, <2>9 DEF Range
      <4> QED
        BY <3>1, <4>1, <4>2 DEF AppliedWith
    <3> QED
      BY <1>4, <2>4, <2>9, <3>2, <3>3, <3>4, VariantShows
  <2> QED
    BY <2>3, <2>7, <2>8, <2>9
<1> QED
  BY <1>3, <1>4 DEF call

--------------------------------------------------------------------------------
(* The walk follows what JSON Schema gives.                                *)

\* What is known of an object and of the schema its place gives it.
LEMMA GivenObject ==
  ASSUME task \in Tasks, AllPlain, NEW p \in DOMAIN task.doc, Kind(p) = "object",
         NEW s \in GivenTo[p]
  PROVE  OfObject(s, p)
<1>1. s \in Schemas
  BY GivenUnfolds
<1>2. Matches(s, task.doc, p) /\ Plain(p)
  BY GivenAccept DEF AllPlain
<1>3. \A a \in AppliedWith(s, p) : Matches(a, task.doc, p)
  BY <1>1, <1>2, AppliedAccept
<1> QED
  BY <1>1, <1>2, <1>3, AppliedTyped DEF OfObject

\* With one view, a call does what the view does.
LEMMA ViewCalls ==
  ASSUME NEW p, Kind(p) = "object", NEW s, NEW view, Views(CallOn(p, s)) = <<view>>
  PROVE  /\ CallsFrom(CallOn(p, s)) = CallsOf(view, p)
         /\ Found(CallOn(p, s)) = {<<1, f>> : f \in FoundBy(view, p)}
<1> DEFINE call == CallOn(p, s)
<1>1. call.path = p /\ DOMAIN Views(call) = {1} /\ Views(call)[1] = view
  BY DEF CallOn
<1>2. LoopsOf(call) = [i \in DOMAIN Views(call) |-> CallsOf(Views(call)[i], call.path)]
  BY <1>1, Zenon DEF LoopsOf
<1>3. Found(call) = UNION {{<<i, f>> : f \in FoundBy(Views(call)[i], call.path)} : i \in DOMAIN Views(call)}
  BY <1>1, Zenon DEF Found
<1> HIDE DEF call
<1>4. Range(LoopsOf(call)) = {CallsOf(view, p)}
  BY <1>1, <1>2 DEF Range
<1>5. CallsFrom(call) = CallsOf(view, p)
  BY <1>4 DEF CallsFrom
<1>6. Found(call) = {<<1, f>> : f \in FoundBy(view, p)}
  BY <1>1, <1>3
<1> QED
  BY <1>5, <1>6 DEF call

\* The calls of an array.
LEMMA ArrayCalls ==
  ASSUME NEW p, Kind(p) = "array", NEW s
  PROVE  /\ \A c : c \in CallsFrom(CallOn(p, s)) <=>
              \E i \in 1 .. Length(p) :
                /\ SchemaOfItem(s, i) # None
                /\ ~ShouldIgnore(Append(p, ItemName[i]))
                /\ c = CallOn(Append(p, ItemName[i]), SchemaOfItem(s, i))
         /\ Found(CallOn(p, s)) = {<<1, f>> : f \in ItemsForbidden(CallOn(p, s))}
<1> DEFINE call == CallOn(p, s)
<1>1. call.path = p /\ call.schema = s
  BY DEF CallOn
<1>2. LoopsOf(call) = [i \in 1 .. Length(p) |-> CallsForItem(call, i)]
  BY <1>1, Zenon DEF LoopsOf
<1>3. Found(call) = {<<1, f>> : f \in ItemsForbidden(call)}
  BY <1>1, Zenon DEF Found
<1>4. \A c : c \in CallsFrom(call) <=> \E i \in 1 .. Length(p) : c \in CallsForItem(call, i)
  <2> HIDE DEF call
  <2> QED
    BY <1>2 DEF CallsFrom, Range
<1>5. \A c, i : c \in CallsForItem(call, i) <=>
                  /\ SchemaOfItem(s, i) # None
                  /\ ~ShouldIgnore(Append(p, ItemName[i]))
                  /\ c = CallOn(Append(p, ItemName[i]), SchemaOfItem(s, i))
  <2> HIDE DEF call
  <2> QED
    BY <1>1 DEF CallsForItem
<1> HIDE DEF call
<1>6. \A c : c \in CallsFrom(call) <=>
        \E i \in 1 .. Length(p) :
          /\ SchemaOfItem(s, i) # None
          /\ ~ShouldIgnore(Append(p, ItemName[i]))
          /\ c = CallOn(Append(p, ItemName[i]), SchemaOfItem(s, i))
  BY <1>4, <1>5
<1> QED
  BY <1>3, <1>6 DEF call

\* Where a value is in another, what it is given in a valid body.
LEMMA GivenBy ==
  ASSUME task \in Tasks, AllPlain, NEW p \in DOMAIN task.doc, NEW s \in GivenTo[p],
         NEW n \in Members(p), NEW t
  PROVE  t \in GivenTo[Append(p, n)] <=>
           /\ ~ShouldIgnore(Append(p, n)) /\ ~ShouldIgnore(p)
           /\ \E a \in AppliedWith(s, p) : t \in LeadsTo(a, p, n)
<1> DEFINE q == Append(p, n)
<1>1. q \in DOMAIN task.doc \ {<<>>} /\ Front(q) = p /\ Last(q) = n
  BY Places
<1>2. GivenTo[p] = {s}
  BY OneGiven
<1> HIDE DEF q
<1>3. GivenTo[q] = PassedOn(GivenTo[p], q)
  BY <1>1, GivenUnfolds
<1>4. t \in GivenTo[q] <=>
           /\ ~ShouldIgnore(q) /\ ~ShouldIgnore(p)
           /\ \E a \in AppliedWith(s, p) : t \in LeadsTo(a, p, n)
  BY <1>1, <1>2, <1>3, PassedOnBy
<1> QED
  BY <1>4 DEF q

\* All that applies to a value offers its members one schema.
LEMMA OneOffered ==
  ASSUME task \in Tasks, AllPlain, NEW p \in DOMAIN task.doc, NEW s \in GivenTo[p],
         NEW n \in Members(p)
  PROVE  \A a, b \in AppliedWith(s, p) : \A t \in SchemasFor(a, p, n), u \in SchemasFor(b, p, n) : t = u
<1> DEFINE q == Append(p, n)
<1>1. q \in DOMAIN task.doc \ {<<>>} /\ Front(q) = p /\ Last(q) = n
  BY Places
<1>2. AppliedTo(p) = AppliedWith(s, p)
  BY OneGiven
<1> HIDE DEF q
<1>3. \A t, u \in OfferedTo(q) : t = u
  BY <1>1 DEF AllPlain, Plain
<1> QED
  BY <1>1, <1>2, <1>3 DEF OfferedTo

\* The calls for the members of an object.
LEMMA ObjectLeads ==
  ASSUME task \in Tasks, AllPlain, NEW p \in DOMAIN task.doc, Kind(p) = "object",
         ~ShouldIgnore(p), NEW s \in GivenTo[p]
  PROVE  \A c : c \in CallsFrom(CallOn(p, s)) <=>
                  \E n \in Members(p) : \E t \in GivenTo[Append(p, n)] : c = CallOn(Append(p, n), t)
<1>1. OfObject(s, p)
  BY GivenObject
<1>2. PICK view : Views(CallOn(p, s)) = <<view>> /\ Shows(view, s, p)
  BY <1>1, OneView
<1>3. CallsFrom(CallOn(p, s)) = CallsOf(view, p)
  BY <1>2, ViewCalls
<1> DEFINE S == AppliedWith(s, p)
<1>4. s \in S /\ S \subseteq Schemas
  BY <1>1 DEF OfObject
<1>5. ASSUME NEW n \in Seen(p), n \in DOMAIN view.lookup, ~Hidden(view.lookup[n])
      PROVE  n \in Members(p) /\ view.lookup[n] \in GivenTo[Append(p, n)]
  <2>1. n \in Members(p) /\ ~ShouldIgnore(Append(p, n))
    BY DEF Seen
  <2>2. PICK a \in S : Declares(a, n) /\ view.lookup[n] \in SchemasFor(a, p, n)
    BY <1>2, <1>5 DEF Shows
  <2>3. view.lookup[n] \in LeadsTo(a, p, n)
    BY <1>5, <2>2 DEF LeadsTo
  <2> QED
    BY <2>1, <2>2, <2>3, GivenBy
<1>6. ASSUME NEW n \in Seen(p), n \notin view.known, view.extra # None
      PROVE  n \in Members(p) /\ view.extra \in GivenTo[Append(p, n)]
  <2>1. n \in Members(p) /\ ~ShouldIgnore(Append(p, n))
    BY DEF Seen
  <2>2. {view.extra} \ {None} = UNION {SchemasFor(a, p, n) : a \in S}
    BY <1>2, <1>6 DEF Shows
  <2>3. PICK a \in S : view.extra \in SchemasFor(a, p, n)
    BY <1>6, <2>2
  <2>4. ~Declares(a, n)
    BY <1>2, <1>6 DEF Shows
  <2>5. view.extra \in LeadsTo(a, p, n)
    BY <2>3, <2>4 DEF LeadsTo
  <2> QED
    BY <2>1, <2>3, <2>5, GivenBy
<1>7. ASSUME NEW n \in Members(p), NEW t \in GivenTo[Append(p, n)]
      PROVE  CallOn(Append(p, n), t) \in CallsOf(view, p)
  <2>1. ~ShouldIgnore(Append(p, n)) /\ \E a \in S : t \in LeadsTo(a, p, n)
    BY GivenBy
  <2>2. PICK a \in S : t \in LeadsTo(a, p, n)
    BY <2>1
  <2>3. n \in Seen(p)
    BY <2>1 DEF Seen
  <2>4. t \in SchemasFor(a, p, n) /\ (Declares(a, n) => ~Hidden(t))
    BY <2>2 DEF LeadsTo
  <2>5. t \in Schemas /\ t # None
    BY <1>4, <2>4, SchemasForTyped, SchemaAssumption
  <2>6. CASE n \in view.known
    <3>1. n \in DOMAIN view.lookup
      BY <1>2, <2>3, <2>6 DEF Shows
    <3>2. PICK b \in S : Declares(b, n) /\ view.lookup[n] \in SchemasFor(b, p, n)
      BY <1>2, <2>3, <3>1 DEF Shows
    <3>3. view.lookup[n] = t
      BY <2>4, <3>2, OneOffered
    <3>4. Declares(a, n)
      <4> SUFFICES ASSUME ~Declares(a, n) PROVE FALSE
        OBVIOUS
      <4>1. Schema[a].additional \in Schemas
        BY <2>4, NamedSchemas
      <4>2. a # b
        BY <3>2
      <4>3. S # {s}
        BY <4>2
      <4> QED
        BY <1>1, <4>1, <4>3, Brought
    <3> QED
      BY <2>3, <2>4, <3>1, <3>3, <3>4 DEF CallsOf
  <2>7. CASE n \notin view.known
    <3>1. {view.extra} \ {None} = UNION {SchemasFor(b, p, n) : b \in S}
      BY <1>2, <2>3, <2>7 DEF Shows
    <3>2. view.extra = t
      BY <2>4, <2>5, <3>1
    <3> QED
      BY <2>3, <2>5, <2>7, <3>2 DEF CallsOf
  <2> QED
    BY <2>6, <2>7
<1>8. ASSUME NEW c \in CallsOf(view, p)
      PROVE  \E n \in Members(p) : \E t \in GivenTo[Append(p, n)] : c = CallOn(Append(p, n), t)
  <2>1. \/ \E n \in Seen(p) : n \in DOMAIN view.lookup /\ ~Hidden(view.lookup[n])
             /\ c = CallOn(Append(p, n), view.lookup[n])
        \/ \E n \in Seen(p) : n \notin view.known /\ view.extra # None
             /\ c = CallOn(Append(p, n), view.extra)
    BY DEF CallsOf
  <2> QED
    BY <1>5, <1>6, <2>1
<1> QED
  BY <1>3, <1>7, <1>8

\* The calls for the items of an array.
LEMMA ArrayLeads ==
  ASSUME task \in Tasks, AllPlain, NEW p \in DOMAIN task.doc, Kind(p) = "array",
         ~ShouldIgnore(p), NEW s \in GivenTo[p]
  PROVE  \A c : c \in CallsFrom(CallOn(p, s)) <=>
                  \E n \in Members(p) : \E t \in GivenTo[Append(p, n)] : c = CallOn(Append(p, n), t)
<1>1. s \in Schemas
  BY OneGiven
<1>2. AppliedWith(s, p) = {s}
  <2>1. Range(Sources(s, p)) \subseteq {s, None} /\ ~IsPolymorphic(s)
    BY DEF AllPlain, Plain
  <2>2. Schema[s].allOf = <<>> /\ Schema[s].oneOf = <<>> /\ Schema[s].anyOf = <<>>
    BY <1>1, <2>1, NothingCombined
  <2>3. Range(Schema[s].allOf) = {} /\ Range(Schema[s].oneOf \o Schema[s].anyOf) = {}
    BY <2>2 DEF Range
  <2> QED
    BY <1>1, <2>1, <2>3, SourcesAre DEF AppliedWith
<1>3. ASSUME NEW i \in 1 .. Length(p), NEW t
      PROVE  t \in LeadsTo(s, p, ItemName[i]) <=> t = SchemaOfItem(s, i) /\ t \in Schemas
  <2>1. (CHOOSE j \in DOMAIN ItemName : ItemName[j] = ItemName[i]) = i
    BY ItemsAreMembers
  <2>2. SchemasFor(s, p, ItemName[i]) =
          {SchemaOfItem(s, CHOOSE j \in DOMAIN ItemName : ItemName[j] = ItemName[i])} \cap Schemas
    BY Zenon DEF SchemasFor
  <2>3. SchemasFor(s, p, ItemName[i]) = {SchemaOfItem(s, i)} \cap Schemas
    BY <2>1, <2>2
  <2> QED
    BY <2>3 DEF LeadsTo
<1>4. ASSUME NEW i \in 1 .. Length(p), SchemaOfItem(s, i) # None,
             ~ShouldIgnore(Append(p, ItemName[i]))
      PROVE  SchemaOfItem(s, i) \in Schemas
  <2> DEFINE call == CallOn(p, s)
  <2>1. call.path = p /\ call.schema = s
    BY DEF CallOn
  <2>2. call \in Within
    BY <1>1, Places DEF CallOn, Within, Call
  <2>3. CallsForItem(call, i) \subseteq Within
    BY <2>1, <2>2, ItemCalls
  <2>4. CallOn(Append(p, ItemName[i]), SchemaOfItem(s, i)) \in CallsForItem(call, i)
    <3> HIDE DEF call
    <3> QED
      BY <1>4, <2>1 DEF CallsForItem
  <2> QED
    BY <2>3, <2>4 DEF Within, Call, CallOn
<1>5. None \notin Schemas
  BY SchemaAssumption
<1>6. ASSUME NEW c \in CallsFrom(CallOn(p, s))
      PROVE  \E n \in Members(p) : \E t \in GivenTo[Append(p, n)] : c = CallOn(Append(p, n), t)
  <2>1. PICK i \in 1 .. Length(p) :
          /\ SchemaOfItem(s, i) # None
          /\ ~ShouldIgnore(Append(p, ItemName[i]))
          /\ c = CallOn(Append(p, ItemName[i]), SchemaOfItem(s, i))
    BY <1>6, ArrayCalls
  <2>2. ItemName[i] \in Members(p)
    BY ItemsAreMembers
  <2>3. SchemaOfItem(s, i) \in LeadsTo(s, p, ItemName[i])
    BY <1>3, <1>4, <2>1
  <2>4. SchemaOfItem(s, i) \in GivenTo[Append(p, ItemName[i])]
    BY <1>2, <2>1, <2>2, <2>3, GivenBy
  <2> QED
    BY <2>1, <2>2, <2>4
<1>7. ASSUME NEW n \in Members(p), NEW t \in GivenTo[Append(p, n)]
      PROVE  CallOn(Append(p, n), t) \in CallsFrom(CallOn(p, s))
  <2>1. ~ShouldIgnore(Append(p, n)) /\ t \in LeadsTo(s, p, n)
    BY <1>2, GivenBy
  <2>2. PICK i \in 1 .. Length(p) : ItemName[i] = n
    BY ItemsAreMembers
  <2>3. t = SchemaOfItem(s, i) /\ t \in Schemas
    BY <1>3, <2>1, <2>2
  <2> QED
    BY <1>5, <2>1, <2>2, <2>3, ArrayCalls
<1> QED
  BY <1>6, <1>7

\* A call that is not refused leads to what its members are given, and to
\* nothing else.
LEMMA Leads ==
  ASSUME task \in Tasks, AllPlain, NEW p \in DOMAIN task.doc, ~ShouldIgnore(p), NEW s \in GivenTo[p]
  PROVE  \A c : c \in CallsFrom(CallOn(p, s)) <=>
                  \E n \in Members(p) : \E t \in GivenTo[Append(p, n)] : c = CallOn(Append(p, n), t)
<1>1. CASE Kind(p) = "object"
  BY <1>1, ObjectLeads
<1>2. CASE Kind(p) = "array"
  BY <1>2, ArrayLeads
<1>3. CASE Kind(p) \notin {"object", "array"}
  <2>1. Members(p) = {}
    BY <1>3, Places
  <2>2. LoopsOf(CallOn(p, s)) = <<>>
    BY <1>3 DEF LoopsOf, CallOn
  <2>3. CallsFrom(CallOn(p, s)) = {}
    BY <2>2 DEF CallsFrom, Range
  <2> QED
    BY <2>1, <2>3
<1> QED
  BY <1>1, <1>2, <1>3

\* Whatever call of the walk leads to another, it is on a member.
LEMMA CallsOnMembers ==
  ASSUME task \in Tasks, NEW call \in Within, NEW next \in CallsFrom(call)
  PROVE  \E n \in Members(call.path) : next.path = Append(call.path, n)
<1>1. CASE Kind(call.path) = "object"
  <2>1. LoopsOf(call) = [i \in DOMAIN Views(call) |-> CallsOf(Views(call)[i], call.path)]
    BY <1>1, Zenon DEF LoopsOf
  <2>2. PICK i \in DOMAIN Views(call) : next \in CallsOf(Views(call)[i], call.path)
    BY <2>1 DEF CallsFrom, Range
  <2>3. PICK n \in Seen(call.path) : \E t : next = CallOn(Append(call.path, n), t)
    BY <2>2 DEF CallsOf
  <2> QED
    BY <2>3 DEF Seen, CallOn
<1>2. CASE Kind(call.path) = "array"
  <2>1. LoopsOf(call) = [i \in 1 .. Length(call.path) |-> CallsForItem(call, i)]
    BY <1>2, Zenon DEF LoopsOf
  <2>2. PICK i \in 1 .. Length(call.path) : next \in CallsForItem(call, i)
    BY <2>1 DEF CallsFrom, Range
  <2>3. ItemName[i] \in Members(call.path)
    BY <1>2, ItemsAreMembers DEF Within
  <2> QED
    BY <2>2, <2>3 DEF CallsForItem, CallOn
<1>3. CASE Kind(call.path) \notin {"object", "array"}
  <2>1. LoopsOf(call) = <<>>
    BY <1>3 DEF LoopsOf
  <2> QED
    BY <2>1 DEF CallsFrom, Range
<1> QED
  BY <1>1, <1>2, <1>3

--------------------------------------------------------------------------------
(* No call comes from nowhere.                                             *)

\* A call is the first one, or one a walked call leads to; and no refused call
\* was walked.
Led(call) ==
  \/ call = CallOn(<<>>, task.root)
  \/ \E from \in visited : call \in CallsFrom(from)

LedInv ==
  /\ \A call \in Pending \cup visited : Led(call)
  /\ \A call \in visited : ~Refused(call)

\* A loop that ends adds no calls.
LEMMA TailPending ==
  ASSUME NEW S, loops \in Seq(SUBSET S), loops # <<>>
  PROVE  UNION Range(Tail(loops)) \subseteq Pending
<1>1. /\ Tail(loops) \in Seq(SUBSET S)
      /\ Len(Tail(loops)) = Len(loops) - 1
      /\ \A i \in 1 .. Len(Tail(loops)) : Tail(loops)[i] = loops[i + 1]
  BY HeadTailProperties
<1>2. /\ Range(loops) = {loops[i] : i \in 1 .. Len(loops)}
      /\ Range(Tail(loops)) = {Tail(loops)[i] : i \in 1 .. Len(Tail(loops))}
  BY <1>1, RangeEquality
<1>3. ASSUME NEW i \in 1 .. Len(Tail(loops))
      PROVE  Tail(loops)[i] \in Range(loops)
  <2>1. Len(loops) \in Nat /\ i + 1 \in 1 .. Len(loops)
    BY <1>1
  <2> QED
    BY <1>1, <1>2, <2>1
<1> QED
  BY <1>2, <1>3 DEF Pending

\* A call that is made adds none to the loops there are.
LEMMA RestPending ==
  ASSUME NEW S, loops \in Seq(SUBSET S), loops # <<>>, NEW call
  PROVE  UNION Range(Rest(call)) \subseteq Pending
<1>1. /\ DOMAIN Rest(call) = DOMAIN loops
      /\ \A i \in DOMAIN loops : Rest(call)[i] \subseteq loops[i]
  BY DEF Rest
<1> QED
  BY <1>1 DEF Pending, Range

\* LedInv holds throughout.
LEMMA LedInvInvariant == Spec => []LedInv
<1>1. Init => LedInv
  BY DEF Init, LedInv, Led, Pending, Range
<1>2. WalkInv /\ LedInv /\ [Next]_vars => LedInv'
  <2> SUFFICES ASSUME WalkInv, LedInv, [Next]_vars
               PROVE  LedInv'
    OBVIOUS
  <2>1. UNCHANGED task
    BY DEF Next, EndLoop, Skip, Walk, vars
  <2>2. (CallOn(<<>>, task.root))' = CallOn(<<>>, task.root)
    BY <2>1 DEF CallOn
  <2>3. \A call : Refused(call)' = Refused(call) /\ CallsFrom(call)' = CallsFrom(call)
    BY <2>1, UndisturbedData, UndisturbedCalls DEF CallsFrom
  <2>4. visited \subseteq visited' => \A call : Led(call) => Led(call)'
    BY <2>2, <2>3 DEF Led
  <2>5. CASE UNCHANGED vars
    BY <2>3, <2>4, <2>5 DEF LedInv, Pending, vars
  <2>6. ASSUME ~Done, EndLoop
        PROVE  LedInv'
    <3>1. /\ Pending' \subseteq Pending
          /\ UNCHANGED visited
      BY <2>6, TailPending DEF WalkInv, EndLoop, Done, Pending
    <3> QED
      BY <2>3, <2>4, <3>1 DEF LedInv
  <2>7. ASSUME ~Done, NEW call \in Head(loops), Skip(call)
        PROVE  LedInv'
    <3>1. /\ Pending' \subseteq Pending
          /\ UNCHANGED visited
      BY <2>7, RestPending DEF WalkInv, Skip, Done, Pending
    <3> QED
      BY <2>3, <2>4, <3>1 DEF LedInv
  <2>8. ASSUME ~Done, NEW call \in Head(loops), Walk(call)
        PROVE  LedInv'
    <3>1. call \in Within /\ call \in Pending
      BY <2>8, HeadTailProperties DEF WalkInv, Done, Pending, Range
    <3>2. Rest(call) \in Seq(SUBSET Within)
      BY <2>8, RestKeepsPending DEF WalkInv, Done
    <3>3. LoopsOf(call) \in Seq(SUBSET Within)
      BY <3>1, LoopsTyped DEF WalkInv
    <3>4. /\ loops' = LoopsOf(call) \o Rest(call)
          /\ visited' = visited \cup {call}
          /\ ~Refused(call)
      BY <2>8 DEF Walk
    <3>5. Pending' = CallsFrom(call) \cup UNION Range(Rest(call))
      BY <3>2, <3>3, <3>4, StackedLoops DEF Pending, CallsFrom
    <3>6. UNION Range(Rest(call)) \subseteq Pending
      BY <2>8, RestPending DEF WalkInv, Done
    <3>7. \A next \in CallsFrom(call) : Led(next)'
      BY <2>3, <3>4 DEF Led
    <3>8. \A other \in Pending \cup visited : Led(other)'
      BY <2>4, <3>4 DEF LedInv
    <3> QED
      BY <2>3, <3>1, <3>4, <3>5, <3>6, <3>7, <3>8 DEF LedInv
  <2> QED
    BY <2>5, <2>6, <2>7, <2>8 DEF Next
<1> QED
  BY <1>1, <1>2, WalkInvInvariant, PTL DEF Spec

--------------------------------------------------------------------------------
(* What is found.                                                          *)

\* The walk keeps to what JSON Schema gives.
LEMMA WalkedAsGiven ==
  ASSUME WalkInv, LedInv, AllPlain
  PROVE  \A call \in visited :
           /\ call.path \in DOMAIN task.doc
           /\ call.schema \in GivenTo[call.path]
           /\ call = CallOn(call.path, call.schema)
           /\ ~ShouldIgnore(call.path)
<1> DEFINE good == {p \in DOMAIN task.doc : \A call \in visited : call.path = p => call.schema \in GivenTo[p]}
<1>1. task \in Tasks /\ visited \subseteq Within
  BY DEF WalkInv
<1>2. \A call \in visited : /\ call.path \in DOMAIN task.doc
                            /\ call = CallOn(call.path, call.schema)
                            /\ ~ShouldIgnore(call.path)
  BY <1>1 DEF Within, Call, CallOn, LedInv, Refused
<1>3. \A call \in visited :
        \/ call.path = <<>> /\ call.schema = task.root
        \/ \E from \in visited : \E n \in Members(from.path) :
             call \in CallsFrom(from) /\ call.path = Append(from.path, n)
  <2> SUFFICES ASSUME NEW call \in visited, call # CallOn(<<>>, task.root)
               PROVE  \E from \in visited : \E n \in Members(from.path) :
                        call \in CallsFrom(from) /\ call.path = Append(from.path, n)
    <3>1. CallOn(<<>>, task.root).path = <<>> /\ CallOn(<<>>, task.root).schema = task.root
      BY DEF CallOn
    <3> QED
      BY <3>1
  <2>1. PICK from \in visited : call \in CallsFrom(from)
    BY DEF LedInv, Led
  <2> QED
    BY <1>1, <2>1, CallsOnMembers
<1>4. <<>> \in good
  <2>1. \A from \in visited : \A n \in Members(from.path) : Append(from.path, n) # <<>>
    BY <1>1, <1>2, Places
  <2> QED
    BY <1>1, <1>3, <2>1, Places, GivenUnfolds
<1>5. ASSUME NEW p \in DOMAIN task.doc \ {<<>>}, Front(p) \in good
      PROVE  p \in good
  <2> SUFFICES ASSUME NEW call \in visited, call.path = p
               PROVE  call.schema \in GivenTo[p]
    OBVIOUS
  <2>1. PICK from \in visited :
          \E n \in Members(from.path) : call \in CallsFrom(from) /\ call.path = Append(from.path, n)
    BY <1>3
  <2>2. from.path \in DOMAIN task.doc /\ from = CallOn(from.path, from.schema) /\ ~ShouldIgnore(from.path)
    BY <1>2
  <2>3. call \in CallsFrom(from) /\ Front(p) = from.path
    BY <1>1, <2>1, <2>2, Places
  <2>4. from.schema \in GivenTo[from.path]
    BY <1>5, <2>3
  <2>5. \E m \in Members(from.path) : \E t \in GivenTo[Append(from.path, m)] :
          call = CallOn(Append(from.path, m), t)
    BY <1>1, <2>2, <2>3, <2>4, Leads
  <2>6. \A q, t : CallOn(q, t).path = q /\ CallOn(q, t).schema = t
    BY DEF CallOn
  <2> QED
    BY <2>5, <2>6
<1> HIDE DEF good
<1>6. DOMAIN task.doc \subseteq good
  BY <1>1, <1>4, <1>5, PathInduction
<1> QED
  BY <1>2, <1>6 DEF good

\* When the walk ends, it was everywhere JSON Schema gives a schema to look with.
LEMMA GivenIsWalked ==
  ASSUME WalkInv, WalkComplete, Done, AllPlain
  PROVE  \A p \in DOMAIN task.doc : \A s \in GivenTo[p] :
           Kind(p) \in {"object", "array"} /\ ~ShouldIgnore(p) => CallOn(p, s) \in visited
<1> DEFINE good == {p \in DOMAIN task.doc : \A s \in GivenTo[p] : Settled(CallOn(p, s))}
<1>1. task \in Tasks
  BY DEF WalkInv
<1>2. ASSUME NEW p \in DOMAIN task.doc, NEW s \in GivenTo[p], Settled(CallOn(p, s)),
             Kind(p) \in {"object", "array"}, ~ShouldIgnore(p)
      PROVE  CallOn(p, s) \in visited
  <2>1. Len(p) <= MaxDepth /\ Len(p) \in Nat /\ MaxDepth \in Nat
    <3>1. p \in Seq(Names)
      BY <1>1, Places
    <3> QED
      BY <1>2, <3>1, TaskAssumption DEF AllPlain, Plain
  <2>2. ~(Len(p) > MaxDepth)
    BY <2>1
  <2>3. ~Refused(CallOn(p, s))
    BY <1>2, <2>2 DEF Refused, CallOn
  <2> QED
    BY <1>2, <2>3 DEF Settled
<1>3. <<>> \in good
  BY <1>1, Places, GivenUnfolds DEF WalkComplete
<1>4. ASSUME NEW p \in DOMAIN task.doc \ {<<>>}, Front(p) \in good
      PROVE  p \in good
  <2> SUFFICES ASSUME NEW t \in GivenTo[p]
               PROVE  Settled(CallOn(p, t))
    OBVIOUS
  <2> DEFINE q == Front(p)
             n == Last(p)
  <2>1. q \in DOMAIN task.doc /\ n \in Members(q) /\ p = Append(q, n) /\ Kind(q) \in {"object", "array"}
    BY <1>1, Places
  <2>2. GivenTo[p] = PassedOn(GivenTo[q], p)
    BY <1>1, GivenUnfolds
  <2>3. ~ShouldIgnore(q) /\ \E s \in GivenTo[q] : TRUE
    BY <2>2, PassedOnBy
  <2>4. PICK s \in GivenTo[q] : TRUE
    BY <2>3
  <2>5. Settled(CallOn(q, s))
    BY <1>4
  <2> HIDE DEF q, n
  <2>6. CallOn(q, s) \in visited
    BY <1>2, <2>1, <2>3, <2>5
  <2>7. CallOn(p, t) \in CallsFrom(CallOn(q, s))
    BY <1>1, <2>1, <2>3, Leads
  <2> QED
    BY <2>6, <2>7 DEF WalkComplete
<1> HIDE DEF good
<1>5. DOMAIN task.doc \subseteq good
  BY <1>1, <1>3, <1>4, PathInduction
<1> QED
  BY <1>2, <1>5 DEF good

\* The members of an object a finding is about.
Concerns(f, p) == \E n \in Members(p) : f.path = Append(p, n)

\* What the view of an object reports is what is expected of its members.
LEMMA ViewReports ==
  ASSUME task \in Tasks, AllPlain, NEW p \in DOMAIN task.doc, Kind(p) = "object",
         ~ShouldIgnore(p), NEW s \in GivenTo[p], NEW view, Shows(view, s, p), NEW f
  PROVE  f \in FoundBy(view, p) <=> f \in Expected /\ Concerns(f, p)
<1> DEFINE S == AppliedWith(s, p)
<1>1. S = AppliedTo(p) /\ s \in S
  BY OneGiven, AppliedTyped
<1>2. ASSUME NEW n \in Members(p)
      PROVE  /\ Append(p, n) \in DOMAIN task.doc \ {<<>>}
             /\ Front(Append(p, n)) = p /\ Last(Append(p, n)) = n
             /\ Append(p, n) \in Inspected <=> n \in Seen(p)
  <2>1. /\ Append(p, n) \in DOMAIN task.doc \ {<<>>}
        /\ Front(Append(p, n)) = p /\ Last(Append(p, n)) = n
    BY Places
  <2> QED
    BY <1>1, <2>1 DEF Inspected, Seen
<1>3. \A n \in Seen(p) : n \in Members(p)
  BY DEF Seen
<1>4. ASSUME NEW n \in Members(p)
      PROVE  (\E a \in S : \E t \in SchemasFor(a, p, n) : n \in Seen(p) /\ Declares(a, n) /\ Hidden(t))
               <=> n \in Seen(p) /\ n \in DOMAIN view.lookup /\ Hidden(view.lookup[n])
  <2>1. ASSUME n \in Seen(p), NEW a \in S, NEW t \in SchemasFor(a, p, n), Declares(a, n), Hidden(t)
        PROVE  n \in DOMAIN view.lookup /\ Hidden(view.lookup[n])
    <3>1. n \in DOMAIN view.lookup
      BY <2>1 DEF Shows
    <3>2. PICK b \in S : view.lookup[n] \in SchemasFor(b, p, n)
      BY <2>1, <3>1 DEF Shows
    <3>3. view.lookup[n] = t
      BY <3>2, OneOffered
    <3> QED
      BY <2>1, <3>1, <3>3
  <2>2. ASSUME n \in Seen(p), n \in DOMAIN view.lookup, Hidden(view.lookup[n])
        PROVE  \E a \in S : \E t \in SchemasFor(a, p, n) : Declares(a, n) /\ Hidden(t)
    BY <2>2 DEF Shows
  <2> QED
    BY <2>1, <2>2
<1>5. ASSUME NEW n \in Seen(p)
      PROVE  n \notin view.known /\ view.report <=> \A a \in S : ~Declares(a, n)
  BY DEF Shows
<1> HIDE DEF S
<1>6. f \in FoundBy(view, p) <=>
        \/ \E n \in Seen(p) : /\ n \notin view.known /\ view.report
                              /\ f = [path |-> Append(p, n), kind |-> "property"]
        \/ \E n \in Seen(p) : /\ n \in DOMAIN view.lookup /\ task.reject /\ Hidden(view.lookup[n])
                              /\ f = [path |-> Append(p, n), kind |-> "hidden"]
  BY DEF FoundBy
<1>7. ASSUME NEW n \in Members(p), f = [path |-> Append(p, n), kind |-> "property"]
      PROVE  f \in Expected <=> n \in Seen(p) /\ \A a \in S : ~Declares(a, n)
  <2>1. f.path = Append(p, n) /\ f.kind = "property"
    BY <1>7
  <2>2. f \in Expected <=>
          /\ Append(p, n) \in Inspected
          /\ Kind(Front(Append(p, n))) = "object"
          /\ \A a \in AppliedTo(Front(Append(p, n))) : ~Declares(a, Last(Append(p, n)))
    BY <1>7, <2>1 DEF Expected
  <2> QED
    BY <1>1, <1>2, <2>2
<1>8. ASSUME NEW n \in Members(p), f = [path |-> Append(p, n), kind |-> "hidden"]
      PROVE  f \in Expected <=>
               /\ task.reject
               /\ \E a \in S : \E t \in SchemasFor(a, p, n) : n \in Seen(p) /\ Declares(a, n) /\ Hidden(t)
  <2>1. f.path = Append(p, n) /\ f.kind = "hidden"
    BY <1>8
  <2>2. f \in Expected <=>
          /\ Append(p, n) \in Inspected
          /\ task.reject
          /\ Kind(Front(Append(p, n))) = "object"
          /\ \E a \in AppliedTo(Front(Append(p, n))) :
               \E t \in SchemasFor(a, Front(Append(p, n)), Last(Append(p, n))) :
                 Declares(a, Last(Append(p, n))) /\ Hidden(t)
    BY <1>8, <2>1 DEF Expected
  <2> QED
    BY <1>1, <1>2, <2>2
<1>9. f \in Expected => f = [path |-> f.path, kind |-> "property"] \/ f = [path |-> f.path, kind |-> "hidden"]
  BY DEF Expected
<1>10. ASSUME f \in FoundBy(view, p)
       PROVE  f \in Expected /\ Concerns(f, p)
  <2>1. CASE \E n \in Seen(p) : /\ n \notin view.known /\ view.report
                                /\ f = [path |-> Append(p, n), kind |-> "property"]
    BY <1>3, <1>5, <1>7, <2>1 DEF Concerns
  <2>2. CASE \E n \in Seen(p) : /\ n \in DOMAIN view.lookup /\ task.reject /\ Hidden(view.lookup[n])
                                /\ f = [path |-> Append(p, n), kind |-> "hidden"]
    BY <1>3, <1>4, <1>8, <2>2 DEF Concerns
  <2> QED
    BY <1>6, <1>10, <2>1, <2>2
<1>11. ASSUME f \in Expected, Concerns(f, p)
       PROVE  f \in FoundBy(view, p)
  <2>1. PICK n \in Members(p) : f.path = Append(p, n)
    BY <1>11 DEF Concerns
  <2>2. CASE f = [path |-> f.path, kind |-> "property"]
    BY <1>5, <1>6, <1>7, <1>11, <2>1, <2>2
  <2>3. CASE f = [path |-> f.path, kind |-> "hidden"]
    BY <1>4, <1>6, <1>8, <1>11, <2>1, <2>3
  <2> QED
    BY <1>9, <1>11, <2>2, <2>3
<1> QED
  BY <1>10, <1>11

\* A walked call reports what is expected of the members of its value.
LEMMA CallReports ==
  ASSUME task \in Tasks, AllPlain, NEW p \in DOMAIN task.doc, ~ShouldIgnore(p), NEW s \in GivenTo[p]
  PROVE  \A x : x \in Found(CallOn(p, s)) <=>
                  \E f \in Expected : x = <<1, f>> /\ Kind(p) = "object" /\ Concerns(f, p)
<1>1. CASE Kind(p) = "object"
  <2>1. PICK view : Views(CallOn(p, s)) = <<view>> /\ Shows(view, s, p)
    BY <1>1, GivenObject, OneView
  <2>2. Found(CallOn(p, s)) = {<<1, f>> : f \in FoundBy(view, p)}
    BY <1>1, <2>1, ViewCalls
  <2>3. \A f : f \in FoundBy(view, p) <=> f \in Expected /\ Concerns(f, p)
    BY <1>1, <2>1, ViewReports
  <2> QED
    BY <1>1, <2>2, <2>3
<1>2. CASE Kind(p) = "array"
  <2>1. Schema[s].items # "false"
    BY <1>2 DEF AllPlain, Plain
  <2>2. ItemsForbidden(CallOn(p, s)) = {}
    BY <2>1 DEF ItemsForbidden, CallOn
  <2>3. Found(CallOn(p, s)) = {}
    BY <1>2, <2>2, ArrayCalls
  <2> QED
    BY <1>2, <2>3
<1>3. CASE Kind(p) \notin {"object", "array"}
  BY <1>3 DEF Found, CallOn
<1> QED
  BY <1>1, <1>2, <1>3

\* What is expected is about a member of an object a schema is given to.
LEMMA ExpectedWhere ==
  ASSUME task \in Tasks, NEW f \in Expected
  PROVE  LET p == Front(f.path)
         IN  /\ p \in DOMAIN task.doc /\ Kind(p) = "object" /\ ~ShouldIgnore(p)
             /\ Concerns(f, p) /\ GivenTo[p] # {}
<1>1. f.path \in Inspected /\ Kind(Front(f.path)) = "object"
  BY DEF Expected
<1>2. /\ f.path \in DOMAIN task.doc \ {<<>>}
      /\ AppliedTo(Front(f.path)) # {}
      /\ ~ShouldIgnore(Front(f.path))
  BY <1>1 DEF Inspected
<1>3. GivenTo[Front(f.path)] # {}
  BY <1>2 DEF AppliedTo
<1>4. /\ Front(f.path) \in DOMAIN task.doc
      /\ Last(f.path) \in Members(Front(f.path))
      /\ f.path = Append(Front(f.path), Last(f.path))
  BY <1>2, Places
<1> QED
  BY <1>1, <1>2, <1>3, <1>4 DEF Concerns

\* Strict mode is exact: under the hypotheses of FindingsExact, a finished strict
\* validation of a valid body has reported the members that no schema which
\* applies to them declares, and the hidden ones, each of them once.
THEOREM FindingsAreExact == Spec => []FindingsExact
<1>1. WalkInv /\ LedInv /\ WalkComplete /\ WalkedOnce => FindingsExact
  <2> SUFFICES ASSUME WalkInv, LedInv, WalkComplete, WalkedOnce, Done, AllPlain
               PROVE  /\ {f[2] : f \in BagToSet(undeclared)} = Expected
                      /\ \A f \in BagToSet(undeclared) :
                           /\ undeclared[f] = 1
                           /\ \A g \in BagToSet(undeclared) : f[2] = g[2] => f = g
    BY DEF FindingsExact, AllPlain
  <2>1. task \in Tasks
    BY DEF WalkInv
  <2>2. BagToSet(undeclared) = UNION {Found(call) : call \in visited}
    BY DEF WalkedOnce
  <2>3. ASSUME NEW call \in visited
        PROVE  \A x : x \in Found(call) <=>
                        \E f \in Expected : x = <<1, f>> /\ Kind(call.path) = "object" /\ Concerns(f, call.path)
    <3>1. /\ call.path \in DOMAIN task.doc
          /\ call.schema \in GivenTo[call.path]
          /\ call = CallOn(call.path, call.schema)
          /\ ~ShouldIgnore(call.path)
      BY WalkedAsGiven
    <3> QED
      BY <2>1, <3>1, CallReports
  <2>4. ASSUME NEW f \in Expected
        PROVE  <<1, f>> \in BagToSet(undeclared)
    <3> DEFINE p == Front(f.path)
    <3>1. p \in DOMAIN task.doc /\ Kind(p) = "object" /\ ~ShouldIgnore(p) /\ Concerns(f, p) /\ GivenTo[p] # {}
      BY <2>1, ExpectedWhere
    <3> HIDE DEF p
    <3>2. PICK s \in GivenTo[p] : TRUE
      BY <3>1
    <3>3. CallOn(p, s) \in visited
      BY <3>1, GivenIsWalked
    <3>4. <<1, f>> \in Found(CallOn(p, s))
      BY <2>1, <3>1, CallReports
    <3> QED
      BY <2>2, <3>3, <3>4
  <2>5. \A x \in BagToSet(undeclared) : \E f \in Expected : x = <<1, f>>
    BY <2>2, <2>3
  <2>6. {x[2] : x \in BagToSet(undeclared)} = Expected
    <3>1. \A x \in BagToSet(undeclared) : x[2] \in Expected
      BY <2>5
    <3>2. \A f \in Expected : \E x \in BagToSet(undeclared) : x[2] = f
      <4> SUFFICES ASSUME NEW f \in Expected
                   PROVE  \E x \in BagToSet(undeclared) : x[2] = f
        OBVIOUS
      <4>1. <<1, f>>[2] = f
        OBVIOUS
      <4> QED
        BY <2>4, <4>1
    <3> QED
      BY <3>1, <3>2
  <2>7. ASSUME NEW x \in BagToSet(undeclared)
        PROVE  undeclared[x] = 1
    <3>1. PICK f \in Expected : x = <<1, f>>
      BY <2>5
    <3>2. PICK call \in visited : x \in Found(call)
      BY <2>2
    <3>3. ASSUME NEW other \in visited, x \in Found(other)
          PROVE  other = call
      <4>1. Concerns(f, call.path) /\ Concerns(f, other.path)
        BY <2>3, <3>1, <3>2, <3>3
      <4>2. call.path \in DOMAIN task.doc /\ other.path \in DOMAIN task.doc
        BY WalkedAsGiven
      <4>3. \A p \in DOMAIN task.doc : Concerns(f, p) => p = Front(f.path)
        BY <2>1, Places DEF Concerns
      <4>4. call.path = other.path
        BY <4>1, <4>2, <4>3
      <4>5. call.schema = other.schema
        BY <2>1, <4>2, <4>4, WalkedAsGiven, OneGiven
      <4> QED
        BY <4>4, <4>5, WalkedAsGiven
    <3>4. {c \in visited : x \in Found(c)} = {call}
      BY <3>2, <3>3
    <3>5. undeclared[x] = Cardinality({call})
      BY <3>4 DEF WalkedOnce
    <3> QED
      BY <3>5, FS_Singleton
  <2>8. ASSUME NEW x \in BagToSet(undeclared), NEW y \in BagToSet(undeclared), x[2] = y[2]
        PROVE  x = y
    BY <2>5, <2>8
  <2> QED
    BY <2>6, <2>7, <2>8
<1> QED
  BY <1>1, WalkInvInvariant, LedInvInvariant, WalkIsComplete, FoundOnce, PTL
================================================================================
