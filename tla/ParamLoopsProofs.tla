---------------------------- MODULE ParamLoopsProofs ----------------------------
(***************************************************************************)
(* Proofs about ParamLoops.                                                *)
(*                                                                         *)
(* The kinds of faults are followed from the checks of one text up to the  *)
(* errors of one parameter.  The loop's invariant says that, as long as    *)
(* nothing was reported, every required parameter behind it was sent, and  *)
(* that no parameter behind it panics.                                     *)
(*                                                                         *)
(* The order of the query's keys is the order of a parameter's entries,    *)
(* each of them once.  What is found in them is shown to depend on the set *)
(* of the entries alone: a conflict of two of them, the object they make,  *)
(* and, since a text that ends the loops is itself at fault, whether any   *)
(* text is at fault at all.                                                *)
(*                                                                         *)
(* What was read of a request is compared with what the loop made of it    *)
(* for one way of writing a value after the other: the texts of a list are *)
(* those between its commas, the members of an object are those its keys   *)
(* name, and each of them is the same value but for the kind of a number,  *)
(* if it is of the type its schema asks for.                               *)
(***************************************************************************)
EXTENDS ParamLoops, FiniteSetTheorems, SequenceTheorems, WellFoundedInduction, TLAPS

--------------------------------------------------------------------------------
(* Kinds of faults.                                                        *)

\* Enumerations, schemas and strconv.
LEMMA BasicFaults ==
  /\ \A s, v : AgainstSchema(s, v) \subseteq Kinds
  /\ \A s, t : EnumFaults(s, t) \subseteq Kinds
  /\ \A t : \A type \in {"string", "integer", "number", "boolean"} : ParseFaults(t, type) \subseteq Kinds
  /\ \A f, g : f \subseteq Kinds /\ g \subseteq Kinds => Then(f, g) \subseteq Kinds
BY DEF AgainstSchema, EnumFaults, ParseFaults, Then, Kinds

\* ValidateParameterSchema.
LEMMA ObjectFaults ==
  /\ \A s, members : AgainstObject(s, members) \subseteq Kinds
  /\ \A s, t : AgainstBlob(s, t) \subseteq Kinds
  /\ \A s, t : JsonFaults(s, t) \subseteq Kinds
<1>1. \A s, members : AgainstObject(s, members) \subseteq Kinds
  BY BasicFaults DEF AgainstObject, Kinds
<1>2. \A s, t : AgainstBlob(s, t) \subseteq Kinds
  BY BasicFaults DEF AgainstBlob
<1>3. \A s, t : JsonFaults(s, t) \subseteq Kinds
  BY <1>1 DEF JsonFaults, Kinds
<1> QED
  BY <1>1, <1>2, <1>3

\* Boolean items of arrays.
LEMMA BooleanItems ==
  \A t : BooleanItemFaults(t) \subseteq Kinds
BY BasicFaults DEF BooleanItemFaults, Kinds

\* ValidateQueryArray.
LEMMA QueryArrays ==
  ASSUME NEW s, NEW items
  PROVE  QueryArrayFaults(s, items) \subseteq Kinds
<1>1. \A rule, t, type : QueryItemFaults(rule, t, type) \subseteq Kinds
  BY BasicFaults, ObjectFaults DEF QueryItemFaults
<1>2. LengthFaults(s, items) \subseteq Kinds
  BY DEF LengthFaults, Kinds
<1>3. ItemsFaults(Schema[s].items, items) \subseteq Kinds
  BY <1>1 DEF ItemsFaults
<1> QED
  BY <1>2, <1>3 DEF QueryArrayFaults

\* What ValidateQueryParams... reports of a parameter that is there.
LEMMA QueryTexts ==
  ASSUME NEW p, NEW es
  PROVE  SentQueryFaults(p, es) \subseteq Kinds
<1>1. StyleFaults(p, es) \subseteq Kinds
  BY DEF StyleFaults, Kinds
<1>2. \A t : QueryObjectFaults(p, es, t) \subseteq Kinds
  BY ObjectFaults DEF QueryObjectFaults
<1>3. \A t, type : QueryFaults(p, es, t, type) \subseteq Kinds
  BY <1>2, BasicFaults, QueryArrays DEF QueryFaults
<1>4. \A x : FaultsAt(p, es, x) \subseteq Kinds
  BY <1>3 DEF FaultsAt, Kinds
<1> QED
  BY <1>1, <1>4 DEF SentQueryFaults

\* The same, for ValidateHeaderParams... and ValidateCookieParams...
LEMMA HeaderAndCookieTexts ==
  ASSUME NEW p
  PROVE  /\ SentHeaderFaults(p) \subseteq Kinds
         /\ SentCookieFaults(p) \subseteq Kinds
<1>1. \A t, type : ItemFaults(t, type) \subseteq Kinds
  BY BasicFaults, BooleanItems DEF ItemFaults
<1>2. \A s, t : CsvArrayFaults(s, t) \subseteq Kinds
  <2> SUFFICES ASSUME NEW s, NEW t
               PROVE  CsvArrayFaults(s, t) \subseteq Kinds
    OBVIOUS
  <2> DEFINE items == Split(t, ",")
             ofItems == {ItemFaults(items[n], type) :
                           n \in DOMAIN items, type \in Types(Schema[s].items)}
  <2>1. CsvArrayFaults(s, t) = UNION ofItems
    BY DEF CsvArrayFaults
  <2> HIDE DEF items
  <2>2. UNION ofItems \subseteq Kinds
    BY <1>1
  <2> HIDE DEF ofItems
  <2> QED
    BY <2>1, <2>2
<1>3. \A t, type : TextFaults(p, t, type) \subseteq Kinds
  BY <1>2, BasicFaults DEF TextFaults
<1>4. \A t : HeaderObjectFaults(p, t) \subseteq Kinds
  BY ObjectFaults DEF HeaderObjectFaults, Kinds
<1>5. \A t : CookieObjectFaults(p, t) \subseteq Kinds
  BY ObjectFaults DEF CookieObjectFaults
<1>6. SentHeaderFaults(p) \subseteq Kinds
  <2>1. \A t, type : HeaderFaults(p, t, type) \subseteq Kinds
    BY <1>3, <1>4 DEF HeaderFaults
  <2> QED
    BY <2>1, BasicFaults DEF SentHeaderFaults
<1>7. SentCookieFaults(p) \subseteq Kinds
  BY <1>3, <1>5 DEF SentCookieFaults
<1> QED
  BY <1>6, <1>7

\* The same, for ValidatePathParams...
LEMMA PathTexts ==
  ASSUME NEW p, NEW piece
  PROVE  PieceFaults(p, piece) \subseteq Kinds
<1>1. \A s, t, type : EnumOrSchema(s, t, type) \subseteq Kinds
  BY BasicFaults DEF EnumOrSchema
<1>2. \A t : PathObjectFaults(p, t) \subseteq Kinds
  BY ObjectFaults DEF PathObjectFaults
<1>3. \A t, type : PathItemFaults(t, type) \subseteq Kinds
  BY BasicFaults, BooleanItems DEF PathItemFaults
<1>4. \A type : PathFaults(p, piece, type) \subseteq Kinds
  BY <1>1, <1>2, <1>3, BasicFaults DEF PathFaults
<1> QED
  BY <1>4 DEF PieceFaults, Kinds

\* The same, for the four of them.
LEMMA AllFaults ==
  ASSUME NEW p, NEW keys
  PROVE  /\ FaultsOf(p, keys) \subseteq Kinds
         /\ WholeQueryFaults(p, keys) \subseteq Kinds
<1>1. FaultsOf(p, keys) \subseteq Kinds
  BY QueryTexts, HeaderAndCookieTexts, PathTexts DEF FaultsOf
<1>2. WholeQueryFaults(p, keys) \subseteq Kinds
  BY ObjectFaults DEF WholeQueryFaults
<1> QED
  BY <1>1, <1>2

--------------------------------------------------------------------------------
(* What is there was sent.                                                 *)

\* What the loop finds under the name of a parameter is in the request for it: in a
\* query as a key, or as a key of an object of that name.
LEMMA PresentIsSent ==
  ASSUME task \in Tasks, NEW p \in Range(task.params), p.in = task.place, Present(p),
         p.in # "path"
  PROVE  IsSent(p)
<1>1. /\ task.place \in Places
      /\ DOMAIN task.sent \subseteq Names
      /\ Names \subseteq Seq(STRING)
      /\ \A name \in DOMAIN task.sent : 1 \in DOMAIN task.sent[name]
  <2>1. \A name \in DOMAIN task.sent : task.sent[name] \in Seq(Seq(STRING)) /\ task.sent[name] # <<>>
    BY ParamLoopsAssumption
  <2>2. \A texts \in Seq(Seq(STRING)) : texts # <<>> => 1 \in DOMAIN texts
    OBVIOUS
  <2> QED
    BY <2>1, <2>2, ParamLoopsAssumption
<1>2. CASE p.in = "query"
  <2>1. PICK key \in DOMAIN task.sent : EntryOf(key).name = p.name
    BY <1>2 DEF Present
  <2>2. CASE p.name = key
    <3>1. TextsOf(p) = Range(task.sent[key])
      BY <1>2, <2>1, <2>2 DEF TextsOf
    <3>2. task.sent[key][1] \in Range(task.sent[key])
      BY <1>1, <2>1 DEF Range
    <3> QED
      BY <1>2, <3>1, <3>2 DEF IsSent
  <2>3. CASE p.name # key
    <3>1. p.name = <<key[1]>> /\ IsDeepObjectKey(key)
      BY <2>1, <2>3 DEF EntryOf
    <3>2. key \in Seq(STRING) /\ Len(key) > 1
      BY <1>1, <3>1 DEF IsDeepObjectKey
    <3>3. IsStrictPrefix(p.name, key)
      BY <2>3, <3>1, <3>2 DEF IsStrictPrefix, IsPrefix
    <3>4. key \in DeepKeys(p)
      BY <2>1, <3>1, <3>3 DEF DeepKeys
    <3> QED
      BY <1>2, <3>4 DEF IsSent
  <2> QED
    BY <2>2, <2>3
<1>3. CASE p.in = "header"
  BY <1>3 DEF Present, IsSent, TextsOf
<1>4. CASE p.in = "cookie"
  BY <1>4 DEF Present, IsSent, TextsOf
<1> QED
  BY <1>1, <1>2, <1>3, <1>4 DEF Places

\* In a path a parameter is there unless its text is empty, which is reported.
LEMMA JudgedIsSent ==
  ASSUME task \in Tasks, NEW p \in Range(task.params), p.in = task.place, Present(p),
         p.required, NEW keys, FaultsOf(p, keys) = {}
  PROVE  IsSent(p)
<1>1. CASE p.in # "path"
  BY <1>1, PresentIsSent
<1>2. CASE p.in = "path"
  <2>1. \A piece \in PiecesOf(p) : PieceFaults(p, piece) = {}
    BY <1>2 DEF FaultsOf
  <2>2. \A piece \in PiecesOf(p) : piece.text # <<>>
    BY <2>1 DEF PieceFaults
  <2> QED
    BY <1>2, <2>2 DEF IsSent
<1> QED
  BY <1>1, <1>2

--------------------------------------------------------------------------------
(* The loop.                                                               *)

\* A step of the loop leaves the call alone, and what is said of it.
LEMMA CallKept ==
  ASSUME task' = task
  PROVE  /\ \A p : Present(p)' = Present(p) /\ IsSent(p)' = IsSent(p) /\ Panics(p)' = Panics(p)
         /\ \A n : EndsLoop(n)' = EndsLoop(n)
<1>1. \A key : EntryOf(key)' = EntryOf(key)
  BY DEF EntryOf
<1>2. \A name : HeaderText(name)' = HeaderText(name)
  BY DEF HeaderText
<1>3. \A p : Present(p)' = Present(p)
  BY <1>1, <1>2 DEF Present
<1>4. \A p : PiecesOf(p)' = PiecesOf(p) /\ DeepKeys(p)' = DeepKeys(p)
  BY DEF PiecesOf, DeepKeys
<1>5. \A p : TextsOf(p)' = TextsOf(p)
  <2>1. \A p, piece : ScalarText(p, piece)' = ScalarText(p, piece)
    BY DEF ScalarText
  <2>2. \A p : {ScalarText(p, piece) : piece \in {q \in PiecesOf(p) : q.text # <<>>}}'
               = {ScalarText(p, piece) : piece \in {q \in PiecesOf(p) : q.text # <<>>}}
    BY <1>4, <2>1
  <2>3. \A name : CookieText(name)' = CookieText(name)
    BY DEF CookieText
  <2> QED
    BY <1>2, <2>2, <2>3 DEF TextsOf
<1>6. \A p : IsSent(p)' = IsSent(p)
  BY <1>4, <1>5 DEF IsSent
<1>7. \A p : Panics(p)' = Panics(p)
  BY DEF Panics, PathPanics
<1>8. \A n : EndsLoop(n)' = EndsLoop(n)
  BY <1>3 DEF EndsLoop
<1> QED
  BY <1>3, <1>6, <1>7, <1>8

\* The parameters before the loop's, up to where an absent object ended it.
Passed(n) ==
  /\ n \in DOMAIN task.params
  /\ n < i
  /\ task.params[n].in = task.place
  /\ \A l \in 1 .. n : ~EndsLoop(l)

\* The inductive invariant.
LoopInv ==
  /\ task \in Tasks
  /\ TypeOK
  /\ pc = "returned" => i = Len(task.params) + 1
  /\ faults = {} => \A n : Passed(n) /\ task.params[n].required => IsSent(task.params[n])

\* LoopInv holds throughout.
LEMMA LoopInvInvariant == Spec => []LoopInv
<1>1. Init => LoopInv
  <2> SUFFICES ASSUME Init
               PROVE  LoopInv
    OBVIOUS
  <2>1. task \in Tasks /\ pc = "looking" /\ i = 1 /\ faults = {}
    BY DEF Init
  <2>2. Len(task.params) \in Nat /\ DOMAIN task.params = 1 .. Len(task.params)
    BY <2>1, ParamLoopsAssumption
  <2>3. \A n : ~Passed(n)
    BY <2>1, <2>2 DEF Passed
  <2> QED
    BY <2>1, <2>2, <2>3 DEF LoopInv, TypeOK
<1>2. LoopInv /\ [Next]_vars => LoopInv'
  <2> SUFFICES ASSUME LoopInv, [Next]_vars
               PROVE  LoopInv'
    OBVIOUS
  <2>1. UNCHANGED <<task, order>>
    BY DEF Next, vars, PassOver, Judge, Panic, JudgeWholeQuery, Miss, Return
  <2>2. /\ task \in Tasks
        /\ Len(task.params) \in Nat
        /\ DOMAIN task.params = 1 .. Len(task.params)
        /\ i \in 1 .. Len(task.params) + 1
        /\ faults \subseteq Fault
    BY ParamLoopsAssumption DEF LoopInv, TypeOK
  <2>3. \A p : Present(p)' = Present(p) /\ IsSent(p)' = IsSent(p)
    BY <2>1, CallKept
  <2>4. \A n : EndsLoop(n)' = EndsLoop(n)
    BY <2>1, CallKept
  <2>5. ASSUME AtParam, NEW kinds \in SUBSET Kinds, Report(Param.name, kinds)
        PROVE  /\ faults' \subseteq Fault
               /\ faults \subseteq faults'
               /\ kinds # {} => faults' # {}
    <3>1. Param.name \in Names
      <4>1. Param \in Range(task.params)
        BY <2>2, <2>5 DEF AtParam, Param, Range
      <4> QED
        BY <2>2, <4>1, ParamLoopsAssumption
    <3>2. faults' = faults \cup {[of |-> Param.name, kind |-> k] : k \in kinds}
      BY <2>5 DEF Report
    <3>3. \A k \in kinds : [of |-> Param.name, kind |-> k] \in Fault
      BY <2>5, <3>1 DEF Fault
    <3>4. \A f \in faults' : f \in faults \/ \E k \in kinds : f = [of |-> Param.name, kind |-> k]
      BY <3>2
    <3>5. kinds # {} => faults' # {}
      BY <3>2
    <3>6. faults' \subseteq Fault
      BY <2>2, <3>3, <3>4
    <3> QED
      BY <3>2, <3>5, <3>6
  <2>6. ASSUME pc = "looking", pc' = "looking", i <= Len(task.params), i' = i + 1,
               faults' \subseteq Fault, faults \subseteq faults',
               \A n : n = i /\ faults' = {} /\ Passed(n)' /\ task.params[n].required
                      => IsSent(task.params[n])
        PROVE  LoopInv'
    <3>1. \A n : Passed(n)' => Passed(n) \/ n = i
      BY <2>1, <2>2, <2>4, <2>6 DEF Passed
    <3>2. faults' = {} => \A n : Passed(n)' /\ task.params[n].required => IsSent(task.params[n])
      <4> SUFFICES ASSUME faults' = {}, NEW n, Passed(n)', task.params[n].required
                   PROVE  IsSent(task.params[n])
        OBVIOUS
      <4>1. CASE n = i
        BY <2>6, <4>1
      <4>2. CASE n # i
        <5>1. faults = {} /\ Passed(n)
          BY <2>6, <3>1, <4>2
        <5>2. \A m : Passed(m) /\ task.params[m].required => IsSent(task.params[m])
          BY <5>1 DEF LoopInv
        <5> QED
          BY <5>1, <5>2, Zenon
      <4> QED
        BY <4>1, <4>2
    <3>3. (faults = {} => \A n : Passed(n) /\ task.params[n].required => IsSent(task.params[n]))'
      BY <2>1, <2>3, <3>2
    <3> QED
      BY <2>1, <2>2, <2>6, <3>3 DEF LoopInv, TypeOK
  <2>7. CASE UNCHANGED vars
    <3>1. UNCHANGED <<task, order, pc, i, faults>>
      BY <2>7 DEF vars
    <3>2. \A n : Passed(n)' = Passed(n)
      BY <2>4, <3>1 DEF Passed
    <3> QED
      BY <2>3, <3>1, <3>2 DEF LoopInv, TypeOK
  <2>8. CASE PassOver
    <3>1. \A n : n = i => ~Passed(n)'
      BY <2>1, <2>8 DEF Passed, PassOver, Param
    <3> QED
      BY <2>2, <2>6, <2>8, <3>1 DEF PassOver, LoopInv
  <2>9. CASE Judge
    <3>1. FaultsOf(Param, order) \in SUBSET Kinds
      BY AllFaults
    <3>2. /\ faults' \subseteq Fault
          /\ faults \subseteq faults'
          /\ FaultsOf(Param, order) # {} => faults' # {}
      BY <2>5, <2>9, <3>1 DEF Judge
    <3>3. Param \in Range(task.params) /\ Param.in = task.place /\ Present(Param)
      BY <2>2, <2>9 DEF Judge, AtParam, Param, Range
    <3>4. faults' = {} /\ Param.required => IsSent(Param)
      BY <2>2, <3>2, <3>3, JudgedIsSent
    <3> QED
      BY <2>6, <2>9, <3>2, <3>4 DEF Judge, AtParam, Param
  <2>10. CASE Panic
    <3>1. \A n : Passed(n)' = Passed(n)
      BY <2>1, <2>4, <2>10 DEF Passed, Panic
    <3> QED
      BY <2>1, <2>3, <2>10, <3>1 DEF LoopInv, TypeOK, Panic
  <2>11. CASE JudgeWholeQuery
    <3>1. WholeQueryFaults(Param, order) \in SUBSET Kinds
      BY AllFaults
    <3>2. /\ faults' \subseteq Fault
          /\ faults \subseteq faults'
      BY <2>5, <2>11, <3>1 DEF JudgeWholeQuery
    <3>3. EndsLoop(i)
      BY <2>11 DEF JudgeWholeQuery, EndsLoop, AtParam, Param
    <3>4. /\ pc = "looking" /\ pc' = "looking" /\ i' = Len(task.params) + 1
      BY <2>11 DEF JudgeWholeQuery, AtParam
    <3>5. \A n : Passed(n)' => Passed(n)
      BY <2>1, <2>2, <2>4, <3>3, <3>4 DEF Passed
    <3>6. (faults = {} => \A n : Passed(n) /\ task.params[n].required => IsSent(task.params[n]))'
      BY <2>1, <2>3, <3>2, <3>5 DEF LoopInv
    <3> QED
      BY <2>1, <2>2, <3>2, <3>4, <3>6 DEF LoopInv, TypeOK
  <2>12. CASE Miss
    <3> DEFINE kinds == IF Param.required THEN {"missing"} ELSE {}
    <3>1. kinds \in SUBSET Kinds
      BY DEF Kinds
    <3>2. /\ faults' \subseteq Fault
          /\ faults \subseteq faults'
          /\ kinds # {} => faults' # {}
      BY <2>5, <2>12, <3>1 DEF Miss
    <3> QED
      BY <2>6, <2>12, <3>2 DEF Miss, AtParam, Param
  <2>13. CASE Return
    <3>1. Undeclared \subseteq Names
      BY <2>2, ParamLoopsAssumption DEF Undeclared
    <3>2. \A n : Passed(n)' = Passed(n)
      BY <2>1, <2>4, <2>13 DEF Passed, Return
    <3>3. /\ faults' \subseteq Fault
          /\ faults' = {} => faults = {}
      BY <2>2, <2>13, <3>1 DEF Return, Fault, Kinds, LoopInv
    <3>4. (faults = {} => \A n : Passed(n) /\ task.params[n].required => IsSent(task.params[n]))'
      BY <2>1, <2>3, <3>2, <3>3 DEF LoopInv
    <3>5. pc' = "returned" /\ i' = i /\ i = Len(task.params) + 1
      BY <2>13 DEF Return
    <3> QED
      BY <2>1, <2>2, <3>3, <3>4, <3>5 DEF LoopInv, TypeOK
  <2> QED
    BY <2>7, <2>8, <2>9, <2>10, <2>11, <2>12, <2>13 DEF Next
<1> QED
  BY <1>1, <1>2, PTL DEF Spec

\* Each of the four validators reports faults of parameters of the document, or of
\* names in the request, and its loop ends behind the last parameter.
THEOREM TypeCorrect == Spec => []TypeOK
<1>1. LoopInv => TypeOK
  BY DEF LoopInv
<1> QED
  BY <1>1, LoopInvInvariant, PTL

\* A call that returns without errors has found every required parameter of its
\* place in the request, up to where an absent form object ended the loop.
THEOREM RequiredIsSent == Spec => []RequiredSent
<1>1. LoopInv => RequiredSent
  <2> SUFFICES ASSUME LoopInv, pc = "returned", faults = {}, NEW p \in LookedAt, p.required
               PROVE  IsSent(p)
    BY DEF RequiredSent
  <2>1. PICK n \in DOMAIN task.params :
          /\ p = task.params[n]
          /\ task.params[n].in = task.place
          /\ \A l \in 1 .. n : ~EndsLoop(l)
    BY DEF LookedAt
  <2>2. DOMAIN task.params = 1 .. Len(task.params) /\ i = Len(task.params) + 1
    BY ParamLoopsAssumption DEF LoopInv
  <2>3. Passed(n)
    BY <2>1, <2>2, ParamLoopsAssumption DEF Passed, LoopInv
  <2> QED
    BY <2>1, <2>3 DEF LoopInv
<1> QED
  BY <1>1, LoopInvInvariant, PTL

--------------------------------------------------------------------------------
(* The query's entries for a parameter.                                    *)

(* Which calls of the AuthenticationFunc are made.                         *)

\* A set of naturals with 0 and the successor of each of its members is Nat.
LEMMA SetInduction ==
  ASSUME NEW S \in SUBSET Nat, 0 \in S, \A m \in S : m + 1 \in S
  PROVE  S = Nat
<1> SUFFICES ASSUME Nat \ S # {} PROVE FALSE
  OBVIOUS
<1>1. \A n, k \in Nat : n < k => <<n, k>> \in OpToRel(<, Nat)
  BY DEF OpToRel
<1>2. \E n \in Nat \ S : \A k \in Nat \ S : <<k, n>> \notin OpToRel(<, Nat)
  <2>1. Nat \ S \in SUBSET Nat
    OBVIOUS
  <2> QED
    BY <2>1, NatLessThanWellFounded, WFMin
<1>3. PICK n \in Nat \ S : \A k \in Nat \ S : ~(k < n)
  BY <1>1, <1>2, Zenon
<1>4. n # 0 /\ n - 1 \in Nat /\ n - 1 < n
  BY <1>3
<1>5. n - 1 \in S
  BY <1>3, <1>4
<1> QED
  BY <1>3, <1>4, <1>5

\* Whatever the order of the keys.
Entries(p) == {EntryOf(key) : key \in {k \in DOMAIN task.sent : EntryOf(k).name = p.name}}

LEMMA TaskFacts ==
  ASSUME task \in Tasks
  PROVE  /\ DOMAIN task.sent \subseteq Seq(STRING) /\ IsFiniteSet(DOMAIN task.sent)
         /\ \A key \in DOMAIN task.sent : task.sent[key] \in Seq(Seq(STRING)) /\ task.sent[key] # <<>>
         /\ \A p \in Range(task.params) : SchemaOf(p) \in Schemas \cup {None}
         /\ \A s \in Schemas : Schema[s].types \in Seq(STRING)
BY ParamLoopsAssumption, Zenon DEF SchemaOf

\* A key can be told from its entry.
LEMMA EntryFacts ==
  ASSUME task \in Tasks, NEW key \in DOMAIN task.sent
  PROVE  /\ EntryOf(key).values = task.sent[key]
         /\ EntryOf(key).path \in Seq(STRING) /\ NoWord \notin Range(EntryOf(key).path)
         /\ key = EntryOf(key).name \o EntryOf(key).path
<1>1. key \in Seq(STRING)
  BY TaskFacts
<1> DEFINE deep == /\ ~(\E p \in Range(task.params) : p.in = "query" /\ p.name = key)
                   /\ IsDeepObjectKey(key)
<1>2. EntryOf(key) = [name |-> IF deep THEN <<key[1]>> ELSE key,
                      path |-> IF deep THEN Tail(key) ELSE <<>>,
                      values |-> task.sent[key]]
  BY Zenon DEF EntryOf
<1>3. deep => Len(key) > 1 /\ NoWord \notin Range(Tail(key))
  BY Zenon DEF IsDeepObjectKey
<1> HIDE DEF deep
<1>4. EntryOf(key).values = task.sent[key]
  BY <1>2
<1>5. CASE deep
  <2>1. EntryOf(key).name = <<key[1]>> /\ EntryOf(key).path = Tail(key)
    BY <1>2, <1>5
  <2>2. Tail(key) \in Seq(STRING) /\ key = <<key[1]>> \o Tail(key)
    BY <1>1, <1>3, <1>5
  <2> QED
    BY <1>3, <1>4, <1>5, <2>1, <2>2
<1>6. CASE ~deep
  <2>1. EntryOf(key).name = key /\ EntryOf(key).path = <<>>
    BY <1>2, <1>6
  <2>2. key = key \o <<>>
    BY <1>1
  <2>3. NoWord \notin Range(<<>>)
    BY DEF Range
  <2> QED
    BY <1>1, <1>4, <2>1, <2>2, <2>3
<1> QED
  BY <1>5, <1>6

\* EntriesFor's function.
Finding(f, p, keys) ==
  f = [n \in 0..Len(keys) |->
         IF n = 0 THEN <<>>
         ELSE IF EntryOf(keys[n]).name = p.name THEN Append(f[n - 1], EntryOf(keys[n]))
         ELSE f[n - 1]]

LEMMA FindingExists ==
  ASSUME NEW p, NEW keys, Len(keys) \in Nat
  PROVE  \E f : Finding(f, p, keys)
<1> DEFINE N == Len(keys)
           Step(s, n) == IF EntryOf(keys[n]).name = p.name THEN Append(s, EntryOf(keys[n])) ELSE s
           Prefix(f, n) == f = [m \in 0..n |-> IF m = 0 THEN <<>> ELSE Step(f[m - 1], m)]
           Some(n) == \E f : Prefix(f, n)
           S == {n \in Nat : Some(n)}
<1>1. 0 \in S
  <2> HIDE DEF Step
  <2>1. Prefix([m \in 0..0 |-> <<>>], 0)
    OBVIOUS
  <2> QED
    BY <2>1
<1>2. ASSUME NEW n \in S PROVE n + 1 \in S
  <2>0. n \in Nat /\ Some(n)
    <3> HIDE DEF Some
    <3> QED
      OBVIOUS
  <2>1. PICK f : Prefix(f, n)
    BY <2>0, Zenon
  <2> HIDE DEF Step
  <2> DEFINE g == [m \in 0..(n + 1) |-> IF m = n + 1 THEN Step(f[n], n + 1) ELSE f[m]]
  <2>2. \A m \in 0..(n + 1) : g[m] = IF m = 0 THEN <<>> ELSE Step(g[m - 1], m)
    <3> SUFFICES ASSUME NEW m \in 0..(n + 1)
                 PROVE  g[m] = IF m = 0 THEN <<>> ELSE Step(g[m - 1], m)
      OBVIOUS
    <3>1. CASE m = n + 1
      <4>1. m # 0 /\ m - 1 = n /\ n \in 0..(n + 1) /\ n # n + 1
        BY <2>0, <3>1
      <4>2. g[m - 1] = f[n] /\ g[m] = Step(f[n], n + 1)
        BY <3>1, <4>1, Zenon
      <4> QED
        BY <3>1, <4>1, <4>2, Zenon
    <3>2. CASE m # n + 1
      <4>1. m \in 0..n
        BY <2>0, <3>2
      <4>2. f[m] = IF m = 0 THEN <<>> ELSE Step(f[m - 1], m)
        BY <2>1, <4>1
      <4>3. g[m] = f[m]
        BY <3>2
      <4>4. m # 0 => m - 1 \in 0..(n + 1) /\ m - 1 # n + 1
        BY <2>0, <4>1
      <4>5. m # 0 => g[m - 1] = f[m - 1]
        BY <4>4
      <4> QED
        BY <4>2, <4>3, <4>5, Zenon
    <3> QED
      BY <3>1, <3>2
  <2>3. g = [m \in 0..(n + 1) |-> IF m = 0 THEN <<>> ELSE Step(g[m - 1], m)]
    <3>1. g = [m \in 0..(n + 1) |-> g[m]]
      BY Zenon
    <3> HIDE DEF g
    <3> QED
      BY <2>2, <3>1, Zenon
  <2>4. Some(n + 1)
    <3> HIDE DEF g
    <3> QED
      BY <2>3, Zenon
  <2> HIDE DEF Some
  <2> QED
    BY <2>0, <2>4
<1>3. S = Nat
  <2> HIDE DEF S
  <2>1. S \in SUBSET Nat
    BY DEF S
  <2> QED
    BY <1>1, <1>2, <2>1, SetInduction
<1>4. N \in S
  BY <1>3
<1>5. Some(N)
  <2> HIDE DEF Some
  <2> QED
    BY <1>4
<1>6. PICK f : Prefix(f, N)
  BY <1>5, Zenon
<1>7. Finding(f, p, keys)
  BY <1>6, Zenon DEF Finding
<1> QED
  BY <1>7, Zenon

LEMMA EntriesForFacts ==
  ASSUME NEW p, NEW keys, Len(keys) \in Nat
  PROVE  \E f : /\ f[0] = <<>> /\ EntriesFor(p, keys) = f[Len(keys)]
                /\ \A n \in 1..Len(keys) :
                     f[n] = IF EntryOf(keys[n]).name = p.name THEN Append(f[n - 1], EntryOf(keys[n]))
                            ELSE f[n - 1]
<1> DEFINE N == Len(keys)
           f == CHOOSE h : Finding(h, p, keys)
           Step(s, n) == IF EntryOf(keys[n]).name = p.name THEN Append(s, EntryOf(keys[n])) ELSE s
<1>1. Finding(f, p, keys)
  BY FindingExists, Zenon
<1>2. EntriesFor(p, keys) = f[N]
  BY Zenon DEF EntriesFor, Finding
<1> HIDE DEF f
<1>3. f = [n \in 0..N |-> IF n = 0 THEN <<>> ELSE Step(f[n - 1], n)]
  BY <1>1, Zenon DEF Finding
<1> HIDE DEF Step
<1>4. f[0] = <<>>
  BY <1>3
<1>5. \A n \in 1..N : f[n] = Step(f[n - 1], n)
  BY <1>3
<1> QED
  BY <1>2, <1>4, <1>5, Zenon DEF Step

\* A sequence of a parameter's entries, each of them once.
Lists(es, p) ==
  /\ es \in Seq(Entries(p)) /\ Range(es) = Entries(p)
  /\ \A a, b \in DOMAIN es : es[a] = es[b] => a = b


\* An order has each key once.
LEMMA OrderFacts ==
  ASSUME task \in Tasks, NEW keys \in SetToSeqs(DOMAIN task.sent)
  PROVE  /\ Len(keys) \in Nat /\ DOMAIN keys = 1..Len(keys)
         /\ \A n \in 1..Len(keys) : keys[n] \in DOMAIN task.sent
         /\ \A n, m \in 1..Len(keys) : n # m => keys[n] # keys[m]
         /\ \A key \in DOMAIN task.sent : \E n \in 1..Len(keys) : keys[n] = key
<1> DEFINE K == DOMAIN task.sent
           N == Cardinality(K)
<1>1. /\ N \in Nat /\ keys \in [1..N -> K] /\ Len(keys) = N
      /\ \A a, b \in 1..N : a # b => keys[a] # keys[b]
  <2>1. /\ N \in Nat /\ keys \in [1..N -> K]
        /\ \A a, b \in 1..N : a # b => keys[a] # keys[b]
    BY TaskFacts, FS_CardinalityType DEF SetToSeqs
  <2> HIDE DEF K, N
  <2> QED
    BY <2>1
<1>2. \A key \in K : \E n \in 1..N : keys[n] = key
  <2>1. keys \in Injection(1..N, K)
    BY <1>1 DEF Injection, IsInjective
  <2>2. IsFiniteSet(K) /\ Cardinality(1..N) = Cardinality(K)
    BY <1>1, TaskFacts, FS_Interval
  <2>3. keys \in Surjection(1..N, K)
    BY <2>1, <2>2, FS_Injection
  <2> QED
    BY <2>3 DEF Surjection
<1> HIDE DEF N, K
<1> QED
  BY <1>1, <1>2 DEF K

LEMMA EntriesListed ==
  ASSUME task \in Tasks, NEW p, NEW keys \in SetToSeqs(DOMAIN task.sent)
  PROVE  Lists(EntriesFor(p, keys), p)
<1> DEFINE K == DOMAIN task.sent
           N == Len(keys)
           Named(key) == EntryOf(key).name = p.name
<1>1. /\ N \in Nat /\ \A n \in 1..N : keys[n] \in K
      /\ \A a, b \in 1..N : a # b => keys[a] # keys[b]
      /\ \A key \in K : \E n \in 1..N : keys[n] = key
  BY OrderFacts
<1>2. PICK f : /\ f[0] = <<>> /\ EntriesFor(p, keys) = f[N]
               /\ \A n \in 1..N : f[n] = IF Named(keys[n]) THEN Append(f[n - 1], EntryOf(keys[n]))
                                         ELSE f[n - 1]
  BY <1>1, EntriesForFacts
<1> DEFINE E == Entries(p)
           Holds(n) ==
             /\ f[n] \in Seq(E)
             /\ \A m \in 1..n : Named(keys[m]) => EntryOf(keys[m]) \in Range(f[n])
             /\ \A a \in DOMAIN f[n] : \E m \in 1..n : f[n][a] = EntryOf(keys[m])
             /\ \A a, b \in DOMAIN f[n] : f[n][a] = f[n][b] => a = b
           S == {n \in Nat : n <= N => Holds(n)}
<1>3. 0 \in S
  <2>1. f[0] \in Seq(E) /\ DOMAIN f[0] = {}
    BY <1>2
  <2> QED
    BY <2>1
<1>4. ASSUME NEW n \in S PROVE n + 1 \in S
  <2> SUFFICES ASSUME n + 1 <= N PROVE Holds(n + 1)
    <3> HIDE DEF Holds
    <3> QED
      OBVIOUS
  <2>1. n \in Nat /\ n + 1 \in 1..N /\ (n + 1) - 1 = n /\ Holds(n)
    <3> HIDE DEF Holds
    <3> QED
      BY <1>1
  <2> DEFINE k == n + 1
             e == EntryOf(keys[k])
  <2>2. f[k] = IF Named(keys[k]) THEN Append(f[n], e) ELSE f[n]
    <3> HIDE DEF Named, e
    <3> QED
      BY <1>2, <2>1 DEF e
  <2>3. \A m \in 1..k : m \in 1..n \/ m = k
    BY <2>1
  <2>4. CASE ~Named(keys[k])
    <3>1. f[k] = f[n]
      BY <2>2, <2>4, Zenon
    <3>2. \A m \in 1..n : m \in 1..k
      BY <2>1
    <3> HIDE DEF Named
    <3> QED
      BY <2>1, <2>3, <2>4, <3>1, <3>2, Zenon
  <2>5. CASE Named(keys[k])
    <3>1. f[k] = Append(f[n], e)
      BY <2>2, <2>5, Zenon
    <3>2. keys[k] \in K /\ e \in E
      <4>1. keys[k] \in K
        BY <1>1, <2>1
      <4> QED
        BY <2>5, <4>1, Zenon DEF Entries
    <3> DEFINE s == f[n]
               L == Len(s)
    <3>3. s \in Seq(E) /\ L \in Nat /\ DOMAIN s = 1..L
      BY <2>1
    <3> HIDE DEF E, e, Named
    <3>4. /\ f[k] \in Seq(E) /\ DOMAIN f[k] = 1..(L + 1)
          /\ f[k][L + 1] = e /\ \A a \in 1..L : f[k][a] = s[a]
      <4> HIDE DEF s, L, k
      <4>1. Append(s, e) \in Seq(E) /\ DOMAIN Append(s, e) = 1..(L + 1)
        BY <3>2, <3>3 DEF L
      <4>2. Append(s, e)[L + 1] = e /\ \A a \in 1..L : Append(s, e)[a] = s[a]
        BY <3>2, <3>3 DEF L
      <4> QED
        BY <3>1, <4>1, <4>2 DEF s
    <3>5. \A m \in 1..k : Named(keys[m]) => EntryOf(keys[m]) \in Range(f[k])
      <4> SUFFICES ASSUME NEW m \in 1..k, Named(keys[m]) PROVE EntryOf(keys[m]) \in Range(f[k])
        OBVIOUS
      <4>1. CASE m = k
        <5>1. L + 1 \in DOMAIN f[k] /\ f[k][L + 1] = EntryOf(keys[m])
          BY <3>3, <3>4, <4>1 DEF e
        <5> QED
          BY <5>1, Zenon DEF Range
      <4>2. CASE m \in 1..n
        <5>1. PICK a \in DOMAIN s : s[a] = EntryOf(keys[m])
          BY <2>1, <4>2, Zenon DEF Range
        <5>2. a \in DOMAIN f[k] /\ f[k][a] = EntryOf(keys[m])
          BY <3>3, <3>4, <5>1
        <5> QED
          BY <5>2, Zenon DEF Range
      <4> QED
        BY <2>3, <4>1, <4>2
    <3>6. \A a \in DOMAIN f[k] : \E m \in 1..k : f[k][a] = EntryOf(keys[m])
      <4> SUFFICES ASSUME NEW a \in DOMAIN f[k] PROVE \E m \in 1..k : f[k][a] = EntryOf(keys[m])
        OBVIOUS
      <4>1. CASE a = L + 1
        BY <2>1, <3>4, <4>1 DEF e
      <4>2. CASE a # L + 1
        <5>1. a \in DOMAIN s /\ f[k][a] = s[a]
          BY <3>3, <3>4, <4>2
        <5>2. PICK m \in 1..n : s[a] = EntryOf(keys[m])
          BY <2>1, <5>1, Zenon
        <5> QED
          BY <2>1, <5>1, <5>2
      <4> QED
        BY <4>1, <4>2
    <3>7. \A a \in 1..L : s[a] # e
      <4> SUFFICES ASSUME NEW a \in 1..L, s[a] = e PROVE FALSE
        OBVIOUS
      <4>1. PICK m \in 1..n : s[a] = EntryOf(keys[m])
        BY <2>1, <3>3, Zenon
      <4>2. m \in 1..N /\ k \in 1..N /\ m # k
        BY <2>1, <1>1
      <4>3. keys[m] # keys[k] /\ keys[m] \in K /\ keys[k] \in K
        BY <1>1, <4>2
      <4> QED
        <5>1. /\ keys[m] = EntryOf(keys[m]).name \o EntryOf(keys[m]).path
              /\ keys[k] = EntryOf(keys[k]).name \o EntryOf(keys[k]).path
          BY <4>3, EntryFacts, Zenon
        <5>2. EntryOf(keys[m]) = EntryOf(keys[k])
          BY <4>1, Zenon DEF e
        <5> QED
          BY <4>3, <5>1, <5>2, Zenon
    <3>8. \A a, b \in DOMAIN f[k] : f[k][a] = f[k][b] => a = b
      <4> SUFFICES ASSUME NEW a \in 1..(L + 1), NEW b \in 1..(L + 1), f[k][a] = f[k][b] PROVE a = b
        BY <3>4
      <4>1. \A c, d \in 1..L : s[c] = s[d] => c = d
        BY <2>1, <3>3
      <4>2. (a \in 1..L \/ a = L + 1) /\ (b \in 1..L \/ b = L + 1)
        BY <3>3
      <4> HIDE DEF s, L, k
      <4> QED
        BY <3>4, <3>7, <4>1, <4>2
    <3> QED
      BY <3>4, <3>5, <3>6, <3>8, Zenon DEF Named, E
  <2> QED
    BY <2>4, <2>5
<1>5. S = Nat
  <2> HIDE DEF S
  <2>1. S \in SUBSET Nat
    BY DEF S
  <2> QED
    BY <1>3, <1>4, <2>1, SetInduction
<1>6. Holds(N)
  <2>1. N \in S
    BY <1>1, <1>5
  <2> HIDE DEF Holds
  <2> QED
    BY <1>1, <2>1
<1>7. Entries(p) \subseteq Range(f[N])
  <2> SUFFICES ASSUME NEW key \in K, Named(key) PROVE EntryOf(key) \in Range(f[N])
    BY Zenon DEF Entries
  <2>1. PICK n \in 1..N : keys[n] = key
    BY <1>1, Zenon
  <2> HIDE DEF Named, N
  <2> QED
    BY <1>6, <2>1, Zenon
<1>8. Range(f[N]) \subseteq Entries(p)
  <2>1. f[N] \in Seq(E)
    BY <1>6
  <2> HIDE DEF E, N
  <2>2. \A a \in DOMAIN f[N] : f[N][a] \in E
    BY <2>1
  <2> QED
    BY <2>2 DEF Range, E
<1> QED
  <2>1. f[N] \in Seq(Entries(p)) /\ \A a, b \in DOMAIN f[N] : f[N][a] = f[N][b] => a = b
    BY <1>6
  <2>2. Range(f[N]) = Entries(p)
    BY <1>7, <1>8, Zenon
  <2> QED
    BY <1>2, <2>1, <2>2, Zenon DEF Lists


\* Entries for one parameter are told apart by the property they are for, and
\* none of them is for a part of another's unless that is reported.
LEMMA PathFacts ==
  ASSUME task \in Tasks, NEW p, NEW e \in Entries(p), NEW f \in Entries(p)
  PROVE  /\ PropertyPath(e) = PropertyPath(f) => e = f
         /\ IsStrictPrefix(PropertyPath(e), PropertyPath(f)) => e.path # <<>> /\ IsStrictPrefix(e.path, f.path)
         /\ e.values \in Seq(Seq(STRING)) /\ e.values # <<>>
<1>1. PICK key \in DOMAIN task.sent : e = EntryOf(key) /\ EntryOf(key).name = p.name
  BY Zenon DEF Entries
<1>2. PICK other \in DOMAIN task.sent : f = EntryOf(other) /\ EntryOf(other).name = p.name
  BY Zenon DEF Entries
<1>3. /\ e.path \in Seq(STRING) /\ NoWord \notin Range(e.path) /\ key = p.name \o e.path
      /\ f.path \in Seq(STRING) /\ NoWord \notin Range(f.path) /\ other = p.name \o f.path
  BY <1>1, <1>2, EntryFacts, Zenon
<1>4. /\ \A a \in DOMAIN e.path : e.path[a] # NoWord
      /\ \A a \in DOMAIN f.path : f.path[a] # NoWord
  BY <1>3, Zenon DEF Range
<1>5. ASSUME PropertyPath(e) = PropertyPath(f) PROVE e.path = f.path
  <2>1. ASSUME NEW path \in Seq(STRING), \A a \in DOMAIN path : path[a] # NoWord
        PROVE  path # EmptyKey
    BY <2>1 DEF EmptyKey
  <2>2. e.path # EmptyKey /\ f.path # EmptyKey
    BY <1>3, <1>4, <2>1
  <2> QED
    BY <1>5, <2>2, Zenon DEF PropertyPath
<1>6. ASSUME IsStrictPrefix(PropertyPath(e), PropertyPath(f))
      PROVE  e.path # <<>> /\ IsStrictPrefix(e.path, f.path)
  <2>1. Len(PropertyPath(e)) > 0
    BY <1>3 DEF PropertyPath, EmptyKey
  <2>2. Len(PropertyPath(e)) <= Len(PropertyPath(f)) /\ PropertyPath(e) # PropertyPath(f)
    BY <1>6 DEF IsStrictPrefix, IsPrefix
  <2>3. PropertyPath(e)[1] = PropertyPath(f)[1]
    <3>1. PropertyPath(e) \in Seq(STRING \cup {NoWord}) /\ PropertyPath(f) \in Seq(STRING \cup {NoWord})
      <4>1. EmptyKey \in Seq(STRING \cup {NoWord})
        BY DEF EmptyKey
      <4>2. \A path \in Seq(STRING) : path \in Seq(STRING \cup {NoWord})
        OBVIOUS
      <4> QED
        BY <1>3, <4>1, <4>2, Zenon DEF PropertyPath
    <3>2. SubSeq(PropertyPath(e), 1, Len(PropertyPath(e)))[1] = SubSeq(PropertyPath(f), 1, Len(PropertyPath(e)))[1]
      BY <1>6, Zenon DEF IsStrictPrefix, IsPrefix
    <3> QED
      BY <2>1, <2>2, <3>1, <3>2
  <2>4. CASE e.path = <<>>
    <3>1. PropertyPath(e) = EmptyKey /\ PropertyPath(e)[1] = NoWord
      BY <2>4 DEF PropertyPath, EmptyKey
    <3>2. f.path # <<>>
      BY <2>2, <3>1 DEF PropertyPath
    <3>3. f.path[1] # NoWord /\ PropertyPath(f) = f.path
      BY <1>3, <1>4, <3>2 DEF PropertyPath
    <3> QED
      BY <2>3, <3>1, <3>3
  <2>5. CASE e.path # <<>> /\ f.path = <<>>
    <3>1. PropertyPath(f)[1] = NoWord
      BY <2>5 DEF PropertyPath, EmptyKey
    <3>2. e.path[1] # NoWord /\ PropertyPath(e) = e.path
      BY <1>3, <1>4, <2>5 DEF PropertyPath
    <3> QED
      BY <2>3, <3>1, <3>2
  <2>6. CASE e.path # <<>> /\ f.path # <<>>
    BY <1>6, <2>6 DEF PropertyPath
  <2> QED
    BY <2>4, <2>5, <2>6
<1>7. e.path = f.path => e = f
  BY <1>1, <1>2, <1>3, Zenon
<1>8. e.values \in Seq(Seq(STRING)) /\ e.values # <<>>
  BY <1>1, EntryFacts, TaskFacts
<1> QED
  BY <1>5, <1>6, <1>7, <1>8

--------------------------------------------------------------------------------
(* What does not depend on the order of the entries.                       *)

\* DeepObjectPathConflict, ValidateQueryParamStyle.
LEMMA StyleFree ==
  ASSUME NEW p, NEW es, NEW fs, Range(es) = Range(fs)
  PROVE  StyleFaults(p, es) = StyleFaults(p, fs)
<1>1. \A gs : DeepObjectPathConflict(gs) <=>
                \E e, f \in Range(gs) : e.path # <<>> /\ IsStrictPrefix(e.path, f.path)
  <2> SUFFICES ASSUME NEW gs
               PROVE  DeepObjectPathConflict(gs) <=>
                        \E e, f \in Range(gs) : e.path # <<>> /\ IsStrictPrefix(e.path, f.path)
    OBVIOUS
  <2> QED
    BY Zenon DEF DeepObjectPathConflict, Range
<1>2. DeepObjectPathConflict(es) <=> DeepObjectPathConflict(fs)
  BY <1>1
<1> QED
  BY <1>2, Zenon DEF StyleFaults

\* ConstructParamMapFromDeepObjectEncoding's function.
Building(f, es, s) ==
  f = [n \in 0..Len(es) |->
         IF n = 0 THEN <<>> ELSE SetNested(f[n - 1], PropertyPath(es[n]), MemberOf(es[n], s))]

LEMMA BuildingExists ==
  ASSUME NEW es, NEW s, Len(es) \in Nat
  PROVE  \E f : Building(f, es, s)
<1> DEFINE N == Len(es)
           Step(t, n) == SetNested(t, PropertyPath(es[n]), MemberOf(es[n], s))
           Prefix(f, n) == f = [m \in 0..n |-> IF m = 0 THEN <<>> ELSE Step(f[m - 1], m)]
           Some(n) == \E f : Prefix(f, n)
           S == {n \in Nat : Some(n)}
<1>1. 0 \in S
  <2> HIDE DEF Step
  <2>1. Prefix([m \in 0..0 |-> <<>>], 0)
    OBVIOUS
  <2> QED
    BY <2>1
<1>2. ASSUME NEW n \in S PROVE n + 1 \in S
  <2>0. n \in Nat /\ Some(n)
    <3> HIDE DEF Some
    <3> QED
      OBVIOUS
  <2>1. PICK f : Prefix(f, n)
    BY <2>0, Zenon
  <2> HIDE DEF Step
  <2> DEFINE g == [m \in 0..(n + 1) |-> IF m = n + 1 THEN Step(f[n], n + 1) ELSE f[m]]
  <2>2. \A m \in 0..(n + 1) : g[m] = IF m = 0 THEN <<>> ELSE Step(g[m - 1], m)
    <3> SUFFICES ASSUME NEW m \in 0..(n + 1)
                 PROVE  g[m] = IF m = 0 THEN <<>> ELSE Step(g[m - 1], m)
      OBVIOUS
    <3>1. CASE m = n + 1
      <4>1. m # 0 /\ m - 1 = n /\ n \in 0..(n + 1) /\ n # n + 1
        BY <2>0, <3>1
      <4>2. g[m - 1] = f[n] /\ g[m] = Step(f[n], n + 1)
        BY <3>1, <4>1, Zenon
      <4> QED
        BY <3>1, <4>1, <4>2, Zenon
    <3>2. CASE m # n + 1
      <4>1. m \in 0..n
        BY <2>0, <3>2
      <4>2. f[m] = IF m = 0 THEN <<>> ELSE Step(f[m - 1], m)
        BY <2>1, <4>1
      <4>3. g[m] = f[m]
        BY <3>2
      <4>4. m # 0 => m - 1 \in 0..(n + 1) /\ m - 1 # n + 1
        BY <2>0, <4>1
      <4>5. m # 0 => g[m - 1] = f[m - 1]
        BY <4>4
      <4> QED
        BY <4>2, <4>3, <4>5, Zenon
    <3> QED
      BY <3>1, <3>2
  <2>3. g = [m \in 0..(n + 1) |-> IF m = 0 THEN <<>> ELSE Step(g[m - 1], m)]
    <3>1. g = [m \in 0..(n + 1) |-> g[m]]
      BY Zenon
    <3> HIDE DEF g
    <3> QED
      BY <2>2, <3>1, Zenon
  <2>4. Some(n + 1)
    <3> HIDE DEF g
    <3> QED
      BY <2>3, Zenon
  <2> HIDE DEF Some
  <2> QED
    BY <2>0, <2>4
<1>3. S = Nat
  <2> HIDE DEF S
  <2>1. S \in SUBSET Nat
    BY DEF S
  <2> QED
    BY <1>1, <1>2, <2>1, SetInduction
<1>4. N \in S
  BY <1>3
<1>5. Some(N)
  <2> HIDE DEF Some
  <2> QED
    BY <1>4
<1>6. PICK f : Prefix(f, N)
  BY <1>5, Zenon
<1>7. Building(f, es, s)
  BY <1>6, Zenon DEF Building
<1> QED
  BY <1>7, Zenon

LEMMA DeepObjectFacts ==
  ASSUME NEW es, NEW s, Len(es) \in Nat
  PROVE  \E f : /\ f[0] = <<>> /\ DeepObject(es, s) = f[Len(es)]
                /\ \A n \in 1..Len(es) :
                     f[n] = SetNested(f[n - 1], PropertyPath(es[n]), MemberOf(es[n], s))
<1> DEFINE N == Len(es)
           f == CHOOSE h : Building(h, es, s)
           Step(t, n) == SetNested(t, PropertyPath(es[n]), MemberOf(es[n], s))
<1>1. Building(f, es, s)
  BY BuildingExists, Zenon
<1>2. DeepObject(es, s) = f[N]
  BY Zenon DEF DeepObject, Building
<1> HIDE DEF f
<1>3. f = [n \in 0..N |-> IF n = 0 THEN <<>> ELSE Step(f[n - 1], n)]
  BY <1>1, Zenon DEF Building
<1> HIDE DEF Step
<1>4. f[0] = <<>>
  BY <1>3
<1>5. \A n \in 1..N : f[n] = Step(f[n - 1], n)
  BY <1>3
<1> QED
  BY <1>2, <1>4, <1>5, Zenon DEF Step

\* setNestedDeepObjectValue, where nothing is in the way.
Added(tree, path, v) == [q \in DOMAIN tree \cup {path} |-> IF q = path THEN v ELSE tree[q]]

LEMMA SetAside ==
  ASSUME NEW tree, NEW path, NEW v,
         \A q \in DOMAIN tree : ~IsStrictPrefix(q, path) /\ ~IsStrictPrefix(path, q)
  PROVE  SetNested(tree, path, v) = Added(tree, path, v)
<1> DEFINE above == {q \in DOMAIN tree : IsStrictPrefix(q, path)}
           below == {q \in DOMAIN tree : IsStrictPrefix(path, q)}
           places == IF above = {} THEN {path} ELSE above
           set == IF above \cup below = {} THEN v ELSE Mixed
<1>1. above = {} /\ below = {}
  OBVIOUS
<1>2. SetNested(tree, path, v) =
        [q \in (DOMAIN tree \ below) \cup places |-> IF q \in places THEN set ELSE tree[q]]
  BY Zenon DEF SetNested
<1> HIDE DEF above, below
<1>3. places = {path} /\ set = v /\ (DOMAIN tree \ below) \cup places = DOMAIN tree \cup {path}
  BY <1>1
<1> HIDE DEF places, set
<1> QED
  BY <1>2, <1>3 DEF Added


IsMap(f) == f = [q \in DOMAIN f |-> f[q]]

\* An object of several keys has what each of them says, where it says so,
\* unless one is for a part of what another is for.
LEMMA DeepObjectIs ==
  ASSUME task \in Tasks, NEW p, NEW es, Lists(es, p), NEW s, ~DeepObjectPathConflict(es)
  PROVE  /\ DOMAIN DeepObject(es, s) = {PropertyPath(e) : e \in Entries(p)}
         /\ IsMap(DeepObject(es, s))
         /\ \A e \in Entries(p) : DeepObject(es, s)[PropertyPath(e)] = MemberOf(e, s)
<1> DEFINE N == Len(es)
           Path(n) == PropertyPath(es[n])
           Value(n) == MemberOf(es[n], s)
<1>1. /\ N \in Nat /\ DOMAIN es = 1..N /\ \A n \in 1..N : es[n] \in Entries(p)
      /\ \A e \in Entries(p) : \E n \in 1..N : es[n] = e
      /\ \A n, m \in 1..N : es[n] = es[m] => n = m
  <2> DEFINE E == Entries(p)
  <2>1. /\ es \in Seq(E) /\ Range(es) = E
        /\ \A a, b \in DOMAIN es : es[a] = es[b] => a = b
    BY Zenon DEF Lists
  <2> HIDE DEF E
  <2>2. N \in Nat /\ DOMAIN es = 1..N /\ \A n \in 1..N : es[n] \in E
    BY <2>1
  <2>3. \A e \in E : \E n \in 1..N : es[n] = e
    BY <2>1, <2>2, Zenon DEF Range
  <2> QED
    BY <2>1, <2>2, <2>3 DEF E
<1>2. \A n, m \in 1..N : ~IsStrictPrefix(Path(n), Path(m)) /\ (Path(n) = Path(m) => n = m)
  <2> SUFFICES ASSUME NEW n \in 1..N, NEW m \in 1..N
               PROVE  ~IsStrictPrefix(Path(n), Path(m)) /\ (Path(n) = Path(m) => n = m)
    OBVIOUS
  <2>1. /\ PropertyPath(es[n]) = PropertyPath(es[m]) => es[n] = es[m]
        /\ IsStrictPrefix(PropertyPath(es[n]), PropertyPath(es[m])) =>
             es[n].path # <<>> /\ IsStrictPrefix(es[n].path, es[m].path)
    <3>1. es[n] \in Entries(p) /\ es[m] \in Entries(p)
      BY <1>1
    <3> QED
      BY <3>1, PathFacts
  <2>2. ~(es[n].path # <<>> /\ IsStrictPrefix(es[n].path, es[m].path))
    BY <1>1, Zenon DEF DeepObjectPathConflict
  <2> QED
    BY <1>1, <2>1, <2>2, Zenon
<1>3. PICK f : /\ f[0] = <<>> /\ DeepObject(es, s) = f[N]
               /\ \A n \in 1..N : f[n] = SetNested(f[n - 1], Path(n), Value(n))
  BY <1>1, DeepObjectFacts
<1> DEFINE Holds(n) ==
             /\ DOMAIN f[n] = {Path(m) : m \in 1..n}
             /\ f[n] = [q \in DOMAIN f[n] |-> f[n][q]]
             /\ \A m \in 1..n : f[n][Path(m)] = Value(m)
           S == {n \in Nat : n <= N => Holds(n)}
<1> HIDE DEF Path, Value
<1>4. 0 \in S
  <2>1. f[0] = <<>> /\ DOMAIN f[0] = {}
    BY <1>3
  <2>2. {Path(m) : m \in 1..0} = {}
    OBVIOUS
  <2>3. <<>> = [q \in {} |-> <<>>[q]]
    OBVIOUS
  <2>4. f[0] = [q \in DOMAIN f[0] |-> f[0][q]]
    BY <2>1, <2>3
  <2> QED
    BY <2>1, <2>2, <2>4
<1>5. ASSUME NEW n \in S PROVE n + 1 \in S
  <2> SUFFICES ASSUME n + 1 <= N PROVE Holds(n + 1)
    <3> HIDE DEF Holds
    <3> QED
      OBVIOUS
  <2> DEFINE k == n + 1
             tree == f[n]
  <2>1. n \in Nat /\ k \in 1..N /\ k - 1 = n /\ Holds(n) /\ \A m \in 1..n : m \in 1..N /\ m # k
    <3> HIDE DEF Holds
    <3> QED
      BY <1>1
  <2>2. f[k] = SetNested(tree, Path(k), Value(k))
    BY <1>3, <2>1
  <2>3. ASSUME NEW q \in DOMAIN tree
        PROVE  ~IsStrictPrefix(q, Path(k)) /\ ~IsStrictPrefix(Path(k), q) /\ q # Path(k)
    <3>1. PICK m \in 1..n : q = Path(m)
      BY <2>1, <2>3, Zenon
    <3> QED
      BY <1>2, <2>1, <3>1, Zenon
  <2>4. f[k] = [q \in DOMAIN tree \cup {Path(k)} |-> IF q = Path(k) THEN Value(k) ELSE tree[q]]
    <3> HIDE DEF tree, k
    <3>1. \A q \in DOMAIN tree : ~IsStrictPrefix(q, Path(k)) /\ ~IsStrictPrefix(Path(k), q)
      BY <2>3
    <3> QED
      <4>1. SetNested(tree, Path(k), Value(k)) = Added(tree, Path(k), Value(k))
        BY <3>1, SetAside, Zenon
      <4> QED
        BY <2>2, <4>1, Zenon DEF Added
  <2>5. DOMAIN f[k] = DOMAIN tree \cup {Path(k)} /\ f[k] = [q \in DOMAIN f[k] |-> f[k][q]]
    <3> HIDE DEF tree, k
    <3> QED
      BY <2>4, Zenon
  <2>6. f[k][Path(k)] = Value(k) /\ \A q \in DOMAIN tree : f[k][q] = tree[q]
    <3> HIDE DEF tree, k
    <3> QED
      BY <2>3, <2>4
  <2>7. DOMAIN f[k] = {Path(m) : m \in 1..k}
    <3>1. {Path(m) : m \in 1..k} = {Path(m) : m \in 1..n} \cup {Path(k)}
      BY <2>1
    <3> QED
      BY <2>1, <2>5, <3>1
  <2>8. ASSUME NEW m \in 1..k PROVE f[k][Path(m)] = Value(m)
    <3>1. CASE m = k
      BY <2>6, <3>1
    <3>2. CASE m \in 1..n
      <4>1. Path(m) \in DOMAIN tree /\ tree[Path(m)] = Value(m)
        BY <2>1, <3>2
      <4> QED
        BY <2>6, <4>1
    <3> QED
      BY <2>1, <3>1, <3>2
  <2> QED
    BY <2>5, <2>7, <2>8
<1>6. S = Nat
  <2> HIDE DEF S
  <2>1. S \in SUBSET Nat
    BY DEF S
  <2> QED
    BY <1>4, <1>5, <2>1, SetInduction
<1>7. Holds(N)
  <2>1. N \in S
    BY <1>1, <1>6
  <2> HIDE DEF Holds
  <2> QED
    BY <1>1, <2>1
<1>8. DOMAIN DeepObject(es, s) = {PropertyPath(e) : e \in Entries(p)}
  <2>1. DOMAIN DeepObject(es, s) = {Path(m) : m \in 1..N}
    BY <1>3, <1>7
  <2>2. {Path(m) : m \in 1..N} = {PropertyPath(e) : e \in Entries(p)}
    <3> HIDE DEF N
    <3> QED
      BY <1>1 DEF Path
  <2> QED
    BY <2>1, <2>2
<1>9. \A e \in Entries(p) : DeepObject(es, s)[PropertyPath(e)] = MemberOf(e, s)
  <2> SUFFICES ASSUME NEW e \in Entries(p) PROVE DeepObject(es, s)[PropertyPath(e)] = MemberOf(e, s)
    OBVIOUS
  <2>1. PICK n \in 1..N : es[n] = e
    BY <1>1, Zenon
  <2>2. f[N][Path(n)] = Value(n)
    BY <1>7
  <2> QED
    BY <1>3, <2>1, <2>2 DEF Path, Value
<1>10. DeepObject(es, s) = [q \in DOMAIN DeepObject(es, s) |-> DeepObject(es, s)[q]]
  <2>1. f[N] = [q \in DOMAIN f[N] |-> f[N][q]]
    BY <1>7
  <2> QED
    BY <1>3, <2>1, Zenon
<1> QED
  BY <1>8, <1>9, <1>10 DEF IsMap

\* Two functions that agree everywhere are the same.
LEMMA SameMap ==
  ASSUME NEW f, NEW g, IsMap(f), IsMap(g), DOMAIN f = DOMAIN g, \A q \in DOMAIN f : f[q] = g[q]
  PROVE  f = g
BY DEF IsMap

LEMMA DeepObjectFree ==
  ASSUME task \in Tasks, NEW p, NEW es, Lists(es, p), NEW fs, Lists(fs, p), NEW s,
         ~DeepObjectPathConflict(es), ~DeepObjectPathConflict(fs)
  PROVE  DeepObject(es, s) = DeepObject(fs, s)
<1> DEFINE D == DeepObject(es, s)
           F == DeepObject(fs, s)
           Paths == {PropertyPath(e) : e \in Entries(p)}
<1>1. /\ DOMAIN D = Paths /\ IsMap(D)
      /\ \A e \in Entries(p) : D[PropertyPath(e)] = MemberOf(e, s)
  BY DeepObjectIs, Zenon
<1>2. /\ DOMAIN F = Paths /\ IsMap(F)
      /\ \A e \in Entries(p) : F[PropertyPath(e)] = MemberOf(e, s)
  BY DeepObjectIs, Zenon
<1> HIDE DEF D, F
<1>3. \A q \in Paths : D[q] = F[q]
  BY <1>1, <1>2
<1> HIDE DEF Paths
<1>4. D = F
  BY <1>1, <1>2, <1>3, SameMap, Zenon
<1> QED
  BY <1>4 DEF D, F


\* What one text is found to be at fault for.
LEMMA TextFree ==
  ASSUME NEW p, NEW es, NEW fs, NEW t, NEW type,
         type = "object" /\ p.style = "deepObject" =>
           DeepObject(es, SchemaOf(p)) = DeepObject(fs, SchemaOf(p)),
         type = "object" /\ p.style # "deepObject" => es = fs
  PROVE  QueryFaults(p, es, t, type) = QueryFaults(p, fs, t, type)
<1>1. CASE type # "object"
  BY <1>1, Zenon DEF QueryFaults
<1>2. CASE type = "object" /\ p.style = "deepObject"
  <2>1. QueryObjectFaults(p, es, t) = QueryObjectFaults(p, fs, t)
    BY <1>2, Zenon DEF QueryObjectFaults
  <2> QED
    BY <2>1, Zenon DEF QueryFaults
<1>3. CASE type = "object" /\ p.style # "deepObject"
  BY <1>3, Zenon
<1> QED
  BY <1>1, <1>2, <1>3

LEMMA LeastOf ==
  ASSUME NEW T \in SUBSET Nat, T # {}
  PROVE  \E n \in T : \A m \in T : n <= m
<1>1. \A n, m \in Nat : n < m => <<n, m>> \in OpToRel(<, Nat)
  BY DEF OpToRel
<1>2. \E n \in T : \A m \in T : <<m, n>> \notin OpToRel(<, Nat)
  BY NatLessThanWellFounded, WFMin
<1>3. PICK n \in T : \A m \in T : ~(m < n)
  BY <1>1, <1>2, Zenon
<1> QED
  BY <1>3

LEMMA PositionFacts ==
  ASSUME NEW p, NEW es
  PROVE  \A x : x \in Positions(p, es) <=>
                  \E e \in DOMAIN es : \E v \in DOMAIN es[e].values :
                    \E y \in 0 .. Len(Schema[SchemaOf(p)].types) : x = <<e, v, y>>
BY DEF Positions

\* A text that ends the loops is at fault itself, so that they end without
\* faults only if no text is at fault.
LEMMA NothingSkipped ==
  ASSUME NEW p, NEW es, DOMAIN es \subseteq Nat, Len(Schema[SchemaOf(p)].types) \in Nat,
         \A e \in DOMAIN es : DOMAIN es[e].values \subseteq Nat
  PROVE  SentQueryFaults(p, es) = {} <=>
           StyleFaults(p, es) = {} /\ \A x \in Positions(p, es) : FaultsAt(p, es, x) = {}
<1> DEFINE All == Positions(p, es)
           Ends(x) == Stops(p, es, x)
           F(x) == FaultsAt(p, es, x)
           Reached(x) == \A z \in All : Before(z, x) => ~Ends(z)
           Seen == {x \in All : Reached(x)}
<1>1. SentQueryFaults(p, es) = StyleFaults(p, es) \cup UNION {F(x) : x \in Seen}
  BY Zenon DEF SentQueryFaults
<1>2. \A x \in All : x[1] \in Nat /\ x[2] \in Nat /\ x[3] \in Nat /\ x = <<x[1], x[2], x[3]>>
  BY PositionFacts
<1>3. \A x \in All : Ends(x) => F(x) # {}
  BY Zenon DEF Stops
<1> HIDE DEF All, Ends, F
<1>4. ASSUME \A x \in All : F(x) = {} PROVE UNION {F(x) : x \in Seen} = {}
  BY <1>4
<1>5. ASSUME UNION {F(x) : x \in Seen} = {}, NEW x \in All PROVE F(x) = {}
  <2>1. \A z \in Seen : F(z) = {}
    BY <1>5
  <2> DEFINE Bad == {z \in All : Ends(z)}
  <2>2. CASE Bad = {}
    <3>1. x \in Seen
      BY <2>2
    <3> QED
      BY <2>1, <3>1
  <2>3. CASE Bad # {}
    <3>1. PICK a \in {z[1] : z \in Bad} : \A m \in {z[1] : z \in Bad} : a <= m
      <4> DEFINE T == {z[1] : z \in Bad}
      <4>1. T \in SUBSET Nat /\ T # {}
        BY <1>2, <2>3
      <4> HIDE DEF T
      <4>2. \E n \in T : \A m \in T : n <= m
        BY <4>1, LeastOf
      <4> QED
        BY <4>2 DEF T
    <3>2. PICK b \in {z[2] : z \in {w \in Bad : w[1] = a}} :
                 \A m \in {z[2] : z \in {w \in Bad : w[1] = a}} : b <= m
      <4> DEFINE T == {z[2] : z \in {w \in Bad : w[1] = a}}
      <4>1. T \in SUBSET Nat /\ T # {}
        BY <1>2, <3>1
      <4> HIDE DEF T
      <4>2. \E n \in T : \A m \in T : n <= m
        BY <4>1, LeastOf
      <4> QED
        BY <4>2 DEF T
    <3>3. PICK c \in {z[3] : z \in {w \in Bad : w[1] = a /\ w[2] = b}} :
                 \A m \in {z[3] : z \in {w \in Bad : w[1] = a /\ w[2] = b}} : c <= m
      <4> DEFINE T == {z[3] : z \in {w \in Bad : w[1] = a /\ w[2] = b}}
      <4>1. T \in SUBSET Nat /\ T # {}
        BY <1>2, <3>2
      <4> HIDE DEF T
      <4>2. \E n \in T : \A m \in T : n <= m
        BY <4>1, LeastOf
      <4> QED
        BY <4>2 DEF T
    <3>4. PICK first \in Bad : first[1] = a /\ first[2] = b /\ first[3] = c
      BY <3>3
    <3>5. ASSUME NEW z \in Bad, Before(z, first) PROVE FALSE
      <4>1. /\ z[1] \in Nat /\ z[2] \in Nat /\ z[3] \in Nat
            /\ first[1] \in Nat /\ first[2] \in Nat /\ first[3] \in Nat
        BY <1>2
      <4>2. /\ a <= z[1] /\ z[1] = a => b <= z[2]
            /\ z[1] = a /\ z[2] = b => c <= z[3]
        BY <3>1, <3>2, <3>3
      <4> HIDE DEF Bad
      <4>3. a <= z[1]
        BY <3>1 DEF Bad
      <4> QED
        BY <3>4, <3>5, <4>1, <4>2, <4>3 DEF Before
    <3>6. first \in Seen
      BY <3>5
    <3> QED
      BY <1>3, <2>1, <3>6
  <2> QED
    BY <2>2, <2>3
<1> HIDE DEF Seen
<1> QED
  BY <1>1, <1>4, <1>5 DEF All, F

\* A parameter is at fault for every order of its entries, or for none.
LEMMA QueryFree ==
  ASSUME task \in Tasks, NEW p, SchemaOf(p) \in Schemas, NEW es, Lists(es, p), NEW fs, Lists(fs, p),
         "object" \in Types(SchemaOf(p)) /\ p.style # "deepObject" => es = fs,
         SentQueryFaults(p, es) = {}
  PROVE  SentQueryFaults(p, fs) = {}
<1> DEFINE s == SchemaOf(p)
           E == Entries(p)
           L == Len(Schema[s].types)
<1>1. s \in Schemas /\ Schema[s].types \in Seq(STRING) /\ L \in Nat
  <2>1. Schema[s].types \in Seq(STRING)
    BY TaskFacts
  <2> QED
    BY <2>1
<1>2. /\ es \in Seq(E) /\ Range(es) = E
      /\ fs \in Seq(E) /\ Range(fs) = E
  BY Zenon DEF Lists
<1>3. \A e \in E : e.values \in Seq(Seq(STRING))
  BY PathFacts
<1>4. /\ DOMAIN es \subseteq Nat /\ \A e \in DOMAIN es : DOMAIN es[e].values \subseteq Nat
      /\ DOMAIN fs \subseteq Nat /\ \A e \in DOMAIN fs : DOMAIN fs[e].values \subseteq Nat
  <2> HIDE DEF E
  <2>1. \A e \in DOMAIN es : es[e] \in E
    BY <1>2
  <2>2. \A e \in DOMAIN fs : fs[e] \in E
    BY <1>2
  <2>3. \A e \in E : DOMAIN e.values \subseteq Nat
    BY <1>3
  <2> QED
    BY <1>2, <2>1, <2>2, <2>3
<1>5. StyleFaults(p, es) = {} /\ \A x \in Positions(p, es) : FaultsAt(p, es, x) = {}
  BY <1>1, <1>4, NothingSkipped
<1>6. StyleFaults(p, fs) = {}
  BY <1>2, <1>5, StyleFree, Zenon
<1>7. p.style = "deepObject" => DeepObject(es, s) = DeepObject(fs, s)
  <2> SUFFICES ASSUME p.style = "deepObject" PROVE DeepObject(es, s) = DeepObject(fs, s)
    OBVIOUS
  <2>1. ~DeepObjectPathConflict(es) /\ ~DeepObjectPathConflict(fs)
    BY <1>5, <1>6 DEF StyleFaults
  <2> HIDE DEF s
  <2> QED
    BY <2>1, DeepObjectFree
<1>8. \A y \in 1..L : Schema[s].types[y] \in Types(s)
  <2>1. s # None
    BY <1>1, ParamLoopsAssumption
  <2>2. Types(s) = Range(Schema[s].types)
    BY <2>1, Zenon DEF Types
  <2>3. DOMAIN Schema[s].types = 1..L
    BY <1>1
  <2> QED
    BY <2>2, <2>3, Zenon DEF Range
<1>9. ASSUME NEW x \in Positions(p, fs) PROVE FaultsAt(p, fs, x) = {}
  <2>1. PICK e \in DOMAIN fs : \E v \in DOMAIN fs[e].values : \E y \in 0..L : x = <<e, v, y>>
    BY <1>9, PositionFacts
  <2>2. PICK v \in DOMAIN fs[e].values : \E y \in 0..L : x = <<e, v, y>>
    BY <2>1, Zenon
  <2>3. PICK y \in 0..L : x = <<e, v, y>>
    BY <2>2, Zenon
  <2>4. PICK d \in DOMAIN es : es[d] = fs[e]
    <3>1. fs[e] \in Range(es)
      BY <1>2, Zenon DEF Range
    <3> QED
      BY <3>1, Zenon DEF Range
  <2> DEFINE w == <<d, v, y>>
  <2>5. w \in Positions(p, es)
    <3>1. v \in DOMAIN es[d].values
      BY <2>4
    <3> QED
      BY <3>1, <2>3, PositionFacts, Zenon
  <2>6. FaultsAt(p, es, w) = {}
    BY <1>5, <2>5, Zenon
  <2>7. w[1] = d /\ w[2] = v /\ w[3] = y /\ x[1] = e /\ x[2] = v /\ x[3] = y
    BY <2>3
  <2> DEFINE t == fs[e].values[v]
             type == Schema[s].types[y]
  <2>8. FaultsAt(p, fs, x) = IF y > 0 THEN QueryFaults(p, fs, t, type)
                             ELSE IF ~p.reserved /\ IsExploded(p) /\ HasReserved(t) THEN {"reserved"} ELSE {}
    BY <2>7, Zenon DEF FaultsAt
  <2>9. FaultsAt(p, es, w) = IF y > 0 THEN QueryFaults(p, es, t, type)
                             ELSE IF ~p.reserved /\ IsExploded(p) /\ HasReserved(t) THEN {"reserved"} ELSE {}
    BY <2>4, <2>7, Zenon DEF FaultsAt
  <2>10. y > 0 => QueryFaults(p, es, t, type) = QueryFaults(p, fs, t, type)
    <3> SUFFICES ASSUME y > 0 PROVE QueryFaults(p, es, t, type) = QueryFaults(p, fs, t, type)
      OBVIOUS
    <3>1. type \in Types(s)
      BY <1>1, <1>8, <2>3
    <3>2. type = "object" /\ p.style # "deepObject" => es = fs
      BY <3>1, Zenon
    <3> HIDE DEF t, type
    <3> QED
      BY <1>7, <3>2, TextFree
  <2> HIDE DEF t, type, w
  <2> QED
    BY <2>6, <2>8, <2>9, <2>10, Zenon
<1> QED
  BY <1>1, <1>4, <1>6, <1>9, NothingSkipped

\* One key is in one order.
LEMMA OneEntry ==
  ASSUME task \in Tasks, NEW p, NEW es, Lists(es, p), NEW fs, Lists(fs, p),
         ~(Cardinality({key \in DOMAIN task.sent : EntryOf(key).name = p.name}) > 1)
  PROVE  es = fs
<1> DEFINE K == {key \in DOMAIN task.sent : EntryOf(key).name = p.name}
           E == Entries(p)
<1>1. IsFiniteSet(K) /\ Cardinality(K) \in Nat
  <2>1. IsFiniteSet(DOMAIN task.sent) /\ K \subseteq DOMAIN task.sent
    BY TaskFacts
  <2> HIDE DEF K
  <2> QED
    BY <2>1, FS_Subset, FS_CardinalityType
<1>2. \A a, b \in K : a = b
  <2> SUFFICES ASSUME NEW a \in K, NEW b \in K, a # b PROVE FALSE
    OBVIOUS
  <2> HIDE DEF K
  <2>1. {a, b} \subseteq K
    OBVIOUS
  <2>2. Cardinality({a, b}) <= Cardinality(K)
    BY <1>1, <2>1, FS_Subset
  <2>3. Cardinality({a, b}) = 2
    <3>1. Cardinality({a} \cup {b}) = Cardinality({a}) + 1
      BY FS_Singleton, FS_AddElement
    <3>2. {a} \cup {b} = {a, b} /\ Cardinality({a}) = 1
      BY FS_Singleton
    <3> QED
      BY <3>1, <3>2
  <2>4. ~(Cardinality(K) > 1)
    BY DEF K
  <2> QED
    BY <1>1, <2>2, <2>3, <2>4
<1>3. \A e, f \in E : e = f
  BY <1>2, Zenon DEF Entries
<1>4. /\ es \in Seq(E) /\ fs \in Seq(E) /\ Range(es) = E /\ Range(fs) = E
      /\ \A a, b \in DOMAIN es : es[a] = es[b] => a = b
      /\ \A a, b \in DOMAIN fs : fs[a] = fs[b] => a = b
  BY Zenon DEF Lists
<1> HIDE DEF E
<1>5. ASSUME NEW gs \in Seq(E), \A a, b \in DOMAIN gs : gs[a] = gs[b] => a = b
      PROVE  DOMAIN gs = IF Range(gs) = {} THEN {} ELSE {1}
  <2>1. DOMAIN gs = 1..Len(gs) /\ Len(gs) \in Nat /\ \A a \in DOMAIN gs : gs[a] \in E
    OBVIOUS
  <2>2. \A a, b \in DOMAIN gs : a = b
    BY <1>3, <1>5, <2>1
  <2>3. Len(gs) \in {0, 1}
    <3>1. Len(gs) > 1 => 1 \in DOMAIN gs /\ 2 \in DOMAIN gs
      BY <2>1
    <3> QED
      BY <2>1, <2>2, <3>1
  <2>4. CASE Len(gs) = 0
    BY <2>1, <2>4 DEF Range
  <2>5. CASE Len(gs) = 1
    <3>1. DOMAIN gs = {1}
      BY <2>1, <2>5
    <3>2. gs[1] \in Range(gs)
      BY <3>1 DEF Range
    <3> QED
      BY <3>1, <3>2
  <2> QED
    BY <2>3, <2>4, <2>5
<1>6. DOMAIN es = DOMAIN fs
  BY <1>4, <1>5
<1>7. \A a \in DOMAIN es : es[a] = fs[a]
  BY <1>3, <1>4, <1>6
<1> QED
  BY <1>4, <1>6, <1>7

\* A name is not the empty sequence, so that it is its own key.
LEMMA NameFacts ==
  ASSUME task \in Tasks, NEW key \in DOMAIN task.sent
  PROVE  KeyOf(EntryOf(key).name) = EntryOf(key).name
<1>1. key # <<>>
  BY ParamLoopsAssumption
<1>2. <<key[1]>> # <<>>
  OBVIOUS
<1>3. EntryOf(key).name \in {key, <<key[1]>>}
  BY DEF EntryOf
<1> QED
  BY <1>1, <1>2, <1>3 DEF KeyOf

LEMMA MaxOfOne ==
  ASSUME NEW n \in Nat
  PROVE  Max({n}) = n
BY DEF Max

\* The members of an absent object, where no two keys are for one.
LEMMA WholeQueryIs ==
  ASSUME task \in Tasks, NEW s, ~MembersAmbiguous, NEW keys \in SetToSeqs(DOMAIN task.sent)
  PROVE  LET object == WholeQueryObject(EntriesIn(keys), s)
         IN  /\ DOMAIN object = {EntryOf(key).name : key \in DOMAIN task.sent}
             /\ IsMap(object)
             /\ \A key \in DOMAIN task.sent :
                  object[EntryOf(key).name] = CastWithSchema(EntryOf(key).values[1], s, NameOf(EntryOf(key).name))
<1> DEFINE K == DOMAIN task.sent
           N == Len(keys)
           object == WholeQueryObject(EntriesIn(keys), s)
           name(n) == EntryOf(keys[n]).name
           text(n) == EntryOf(keys[n]).values[1]
           pairs == [n \in 1..N |-> <<name(n), text(n)>>]
           at(k) == {n \in DOMAIN pairs : KeyOf(pairs[n][1]) = k}
           value(k) == CastWithSchema(pairs[Max(at(k))][2], s, NameOf(pairs[Max(at(k))][1]))
           names == {KeyOf(pairs[n][1]) : n \in DOMAIN pairs}
<1>1. /\ N \in Nat /\ DOMAIN keys = 1..N /\ \A n \in 1..N : keys[n] \in K
      /\ \A n, m \in 1..N : n # m => keys[n] # keys[m]
      /\ \A key \in K : \E n \in 1..N : keys[n] = key
  BY OrderFacts
<1>2. object = [k \in names |-> value(k)]
  <2>1. EntriesIn(keys) = [n \in 1..N |-> EntryOf(keys[n])]
    BY <1>1, Zenon DEF EntriesIn
  <2>2. [n \in DOMAIN EntriesIn(keys) |-> <<EntriesIn(keys)[n].name, EntriesIn(keys)[n].values[1]>>] = pairs
    BY <2>1
  <2>3. object = MapOf(pairs, s)
    BY <2>2, Zenon DEF WholeQueryObject
  <2> HIDE DEF object, pairs
  <2> QED
    BY <2>3, Zenon DEF MapOf
<1>3. \A n \in 1..N : KeyOf(name(n)) = name(n)
  BY <1>1, NameFacts
<1> HIDE DEF name, text
<1>4. DOMAIN pairs = 1..N /\ \A n \in 1..N : pairs[n][1] = name(n) /\ pairs[n][2] = text(n)
  OBVIOUS
<1> HIDE DEF pairs
<1>5. names = {name(n) : n \in 1..N}
  BY <1>3, <1>4
<1>6. \A n, m \in 1..N : name(n) = name(m) => n = m
  BY <1>1 DEF MembersAmbiguous, name
<1>7. \A n \in 1..N : at(name(n)) = {n}
  BY <1>3, <1>4, <1>6
<1>8. \A n \in 1..N : value(name(n)) = CastWithSchema(text(n), s, NameOf(name(n)))
  <2> SUFFICES ASSUME NEW n \in 1..N PROVE value(name(n)) = CastWithSchema(text(n), s, NameOf(name(n)))
    OBVIOUS
  <2>1. Max(at(name(n))) = n
    <3>1. at(name(n)) = {n} /\ n \in Nat
      BY <1>1, <1>7
    <3> HIDE DEF at
    <3> QED
      BY <3>1, MaxOfOne
  <2> HIDE DEF at
  <2> QED
    BY <1>4, <2>1
<1> HIDE DEF value, names
<1>9. DOMAIN object = {EntryOf(key).name : key \in K}
  <2>1. DOMAIN object = names
    BY <1>2, Zenon
  <2>2. {name(n) : n \in 1..N} = {EntryOf(key).name : key \in K}
    <3> HIDE DEF N, K
    <3> QED
      BY <1>1 DEF name
  <2> QED
    BY <1>5, <2>1, <2>2
<1>10. IsMap(object)
  <2> HIDE DEF object
  <2>1. DOMAIN object = names
    BY <1>2, Zenon
  <2>2. \A k \in names : object[k] = value(k)
    BY <1>2, Zenon
  <2> QED
    BY <1>2, <2>1, <2>2, Zenon DEF IsMap
<1>11. ASSUME NEW key \in K
       PROVE  object[EntryOf(key).name] = CastWithSchema(EntryOf(key).values[1], s, NameOf(EntryOf(key).name))
  <2>1. PICK n \in 1..N : keys[n] = key
    BY <1>1, Zenon
  <2>2. name(n) \in names
    BY <1>5
  <2>3. object[name(n)] = value(name(n))
    <3> HIDE DEF object
    <3> QED
      BY <1>2, <2>2, Zenon
  <2>4. object[name(n)] = CastWithSchema(text(n), s, NameOf(name(n)))
    BY <1>8, <2>3, Zenon
  <2> QED
    BY <2>1, <2>4, Zenon DEF name, text
<1> QED
  BY <1>9, <1>10, <1>11, Zenon

\* So they do not depend on the order.
LEMMA WholeQueryFree ==
  ASSUME task \in Tasks, NEW p, ~MembersAmbiguous,
         NEW keys \in SetToSeqs(DOMAIN task.sent), NEW others \in SetToSeqs(DOMAIN task.sent)
  PROVE  WholeQueryFaults(p, keys) = WholeQueryFaults(p, others)
<1> DEFINE s == p.schema
           D == WholeQueryObject(EntriesIn(keys), s)
           F == WholeQueryObject(EntriesIn(others), s)
           Named == {EntryOf(key).name : key \in DOMAIN task.sent}
           Said(key) == CastWithSchema(EntryOf(key).values[1], s, NameOf(EntryOf(key).name))
<1>1. DOMAIN D = Named /\ IsMap(D) /\ \A key \in DOMAIN task.sent : D[EntryOf(key).name] = Said(key)
  BY WholeQueryIs, Zenon
<1>2. DOMAIN F = Named /\ IsMap(F) /\ \A key \in DOMAIN task.sent : F[EntryOf(key).name] = Said(key)
  BY WholeQueryIs, Zenon
<1> HIDE DEF D, F, Said
<1>3. \A q \in Named : D[q] = F[q]
  BY <1>1, <1>2
<1> HIDE DEF Named
<1>4. D = F
  BY <1>1, <1>2, <1>3, SameMap, Zenon
<1> QED
  BY <1>4, Zenon DEF WholeQueryFaults, D, F

--------------------------------------------------------------------------------
(* The loop over a query.                                                  *)

\* The order is one of the query's keys, and no parameter that was judged panics:
\* each of them has a schema.
JudgedInv ==
  /\ LoopInv
  /\ task.place = "query" => order \in SetToSeqs(DOMAIN task.sent)
  /\ \A n : Passed(n) /\ Present(task.params[n]) => ~Panics(task.params[n])

\* JudgedInv holds throughout.
LEMMA JudgedInvInvariant == Spec => []JudgedInv
<1>1. Init /\ LoopInv => JudgedInv
  <2> SUFFICES ASSUME Init, LoopInv
               PROVE  JudgedInv
    OBVIOUS
  <2>1. i = 1 /\ task.place = "query" => order \in SetToSeqs(DOMAIN task.sent)
    BY DEF Init
  <2>2. \A n : ~Passed(n)
    BY ParamLoopsAssumption DEF Init, Passed
  <2> QED
    BY <2>1, <2>2 DEF JudgedInv, Init
<1>2. JudgedInv /\ LoopInv' /\ [Next]_vars => JudgedInv'
  <2> SUFFICES ASSUME JudgedInv, LoopInv', [Next]_vars
               PROVE  JudgedInv'
    OBVIOUS
  <2>1. UNCHANGED <<task, order>>
    BY DEF Next, vars, PassOver, Judge, Panic, JudgeWholeQuery, Miss, Return
  <2>2. /\ task \in Tasks /\ Len(task.params) \in Nat /\ DOMAIN task.params = 1 .. Len(task.params)
        /\ i \in 1 .. Len(task.params) + 1
        /\ \A n : Passed(n) /\ Present(task.params[n]) => ~Panics(task.params[n])
    BY ParamLoopsAssumption DEF JudgedInv, LoopInv, TypeOK
  <2>3. /\ \A p : Present(p)' = Present(p) /\ Panics(p)' = Panics(p)
        /\ \A n : EndsLoop(n)' = EndsLoop(n)
    BY <2>1, CallKept
  <2>4. ASSUME \A n : Passed(n)' =>
                 Passed(n) \/ (Present(task.params[n]) => ~Panics(task.params[n]))
        PROVE  JudgedInv'
    <3>1. (\A n : Passed(n) /\ Present(task.params[n]) => ~Panics(task.params[n]))'
      BY <2>1, <2>2, <2>3, <2>4
    <3> QED
      BY <2>1, <3>1 DEF JudgedInv
  <2>5. ASSUME i' = i + 1 PROVE \A n : Passed(n)' => Passed(n) \/ n = i
    BY <2>1, <2>2, <2>3, <2>5 DEF Passed
  <2>6. ASSUME i' = i PROVE JudgedInv'
    <3>1. \A n : Passed(n)' = Passed(n)
      BY <2>1, <2>3, <2>6 DEF Passed
    <3> QED
      BY <2>4, <3>1
  <2>7. CASE UNCHANGED vars
    BY <2>6, <2>7 DEF vars
  <2>8. CASE PassOver
    <3>1. i' = i + 1 /\ \A n : n = i => ~Passed(n)'
      BY <2>1, <2>8 DEF PassOver, Passed, Param
    <3> QED
      BY <2>4, <2>5, <3>1
  <2>9. CASE Judge
    <3>1. i' = i + 1 /\ ~Panics(task.params[i])
      BY <2>9 DEF Judge, Param
    <3> QED
      BY <2>4, <2>5, <3>1
  <2>10. CASE Panic
    BY <2>6, <2>10 DEF Panic
  <2>11. CASE JudgeWholeQuery
    <3>1. EndsLoop(i) /\ i' = Len(task.params) + 1
      BY <2>11 DEF JudgeWholeQuery, EndsLoop, AtParam, Param
    <3>2. \A n : Passed(n)' => Passed(n)
      BY <2>1, <2>2, <2>3, <3>1 DEF Passed
    <3> QED
      BY <2>4, <3>2
  <2>12. CASE Miss
    <3>1. i' = i + 1 /\ ~Present(task.params[i])
      BY <2>12 DEF Miss, Param
    <3> QED
      BY <2>4, <2>5, <3>1
  <2>13. CASE Return
    BY <2>6, <2>13 DEF Return
  <2> QED
    BY <2>7, <2>8, <2>9, <2>10, <2>11, <2>12, <2>13 DEF Next
<1> QED
  BY <1>1, <1>2, LoopInvInvariant, PTL DEF Spec

\* A parameter that is there is at fault for every order or for none.
LEMMA FaultsFree ==
  ASSUME task \in Tasks, NEW p \in Range(task.params), p.in = "query", task.place = "query",
         ~Panics(p), ~IsAmbiguous(p),
         NEW keys \in SetToSeqs(DOMAIN task.sent), NEW others \in SetToSeqs(DOMAIN task.sent)
  PROVE  (FaultsOf(p, keys) = {}) = (FaultsOf(p, others) = {})
<1>1. SchemaOf(p) \in Schemas
  <2>1. SchemaOf(p) # None
    BY DEF Panics, QueryPanics
  <2> QED
    BY <2>1, TaskFacts
<1> DEFINE es == EntriesFor(p, keys)
           fs == EntriesFor(p, others)
<1>2. Lists(es, p) /\ Lists(fs, p)
  BY EntriesListed
<1>3. FaultsOf(p, keys) = SentQueryFaults(p, es) /\ FaultsOf(p, others) = SentQueryFaults(p, fs)
  BY Zenon DEF FaultsOf
<1> HIDE DEF es, fs
<1>4. "object" \in Types(SchemaOf(p)) /\ p.style # "deepObject" => es = fs
  <2> SUFFICES ASSUME "object" \in Types(SchemaOf(p)), p.style # "deepObject" PROVE es = fs
    OBVIOUS
  <2>1. ~(Cardinality({key \in DOMAIN task.sent : EntryOf(key).name = p.name}) > 1)
    BY Zenon DEF IsAmbiguous
  <2> QED
    BY <1>2, <2>1, OneEntry, Zenon
<1>5. SentQueryFaults(p, es) = {} => SentQueryFaults(p, fs) = {}
  BY <1>1, <1>2, <1>4, QueryFree
<1>6. SentQueryFaults(p, fs) = {} => SentQueryFaults(p, es) = {}
  BY <1>1, <1>2, <1>4, QueryFree
<1> QED
  BY <1>3, <1>5, <1>6

\* A query that a call accepts or refuses it accepts or refuses for every order of
\* its keys: a parameter that is there is at fault for all of them or for none, unless
\* several keys are for one object of a text, and so is an absent object of the
\* query's own keys, unless two of them are for one member.
THEOREM QueryOrderIsFree == Spec => []OrderFree
<1>1. JudgedInv => OrderFree
  <2> SUFFICES ASSUME JudgedInv, pc = "returned", task.place = "query",
                      NEW keys \in SetToSeqs(DOMAIN task.sent)
               PROVE  /\ \A p \in LookedAt :
                           Present(p) /\ ~IsAmbiguous(p) =>
                             (FaultsOf(p, keys) = {}) = (FaultsOf(p, order) = {})
                      /\ \A n \in DOMAIN task.params :
                           EndsLoop(n) /\ ~MembersAmbiguous =>
                             (WholeQueryFaults(task.params[n], keys) = {})
                               = (WholeQueryFaults(task.params[n], order) = {})
    BY DEF OrderFree
  <2>1. /\ task \in Tasks /\ order \in SetToSeqs(DOMAIN task.sent) /\ i = Len(task.params) + 1
        /\ Len(task.params) \in Nat /\ DOMAIN task.params = 1 .. Len(task.params)
        /\ \A n : Passed(n) /\ Present(task.params[n]) => ~Panics(task.params[n])
    BY ParamLoopsAssumption DEF JudgedInv, LoopInv
  <2>2. ASSUME NEW p \in LookedAt, Present(p), ~IsAmbiguous(p)
        PROVE  (FaultsOf(p, keys) = {}) = (FaultsOf(p, order) = {})
    <3>1. PICK n \in DOMAIN task.params :
            /\ p = task.params[n]
            /\ task.params[n].in = task.place
            /\ \A l \in 1 .. n : ~EndsLoop(l)
      BY DEF LookedAt
    <3>2. Passed(n)
      BY <2>1, <3>1 DEF Passed
    <3>3. ~Panics(p) /\ p.in = "query" /\ p \in Range(task.params)
      BY <2>1, <2>2, <3>1, <3>2 DEF Range
    <3> QED
      BY <2>1, <2>2, <3>3, FaultsFree
  <2>3. ASSUME NEW n \in DOMAIN task.params, ~MembersAmbiguous
        PROVE  WholeQueryFaults(task.params[n], keys) = WholeQueryFaults(task.params[n], order)
    BY <2>1, <2>3, WholeQueryFree
  <2> QED
    BY <2>2, <2>3
<1> QED
  BY <1>1, JudgedInvInvariant, PTL

--------------------------------------------------------------------------------
(* What one text becomes.                                                  *)

\* A text of one type is read as that type.
LEMMA TypedAs ==
  ASSUME NEW s, NEW type, Types(s) = {type}, NEW t
  PROVE  TypeOf(s) = type /\ Typed(s, t) = Scalar(type, t)
<1>1. OneType(s)
  BY FS_Singleton DEF OneType
<1>2. TypeOf(s) = type
  BY DEF TypeOf
<1> QED
  BY <1>1, <1>2 DEF Typed

\* There are k even numbers below 2 k.
LEMMA CountEven ==
  ASSUME NEW k \in Nat
  PROVE  Cardinality({2 * j : j \in 0 .. k - 1}) = k
<1> DEFINE S == {2 * j : j \in 0 .. k - 1}
           f == [n \in 1 .. k |-> 2 * (n - 1)]
<1>1. f \in [1 .. k -> S]
  OBVIOUS
<1>2. \A a, b \in 1 .. k : f[a] = f[b] => a = b
  OBVIOUS
<1>3. \A x \in S : \E n \in 1 .. k : f[n] = x
  <2> SUFFICES ASSUME NEW j \in 0 .. k - 1
               PROVE  \E n \in 1 .. k : f[n] = 2 * j
    OBVIOUS
  <2>1. j + 1 \in 1 .. k /\ f[j + 1] = 2 * j
    OBVIOUS
  <2> QED
    BY <2>1, Zenon
<1>4. f \in Bijection(1 .. k, S)
  BY <1>1, <1>2, <1>3 DEF Bijection, Injection, Surjection, IsInjective
<1> QED
  BY <1>4, FS_CountingElements DEF ExistsBijection

\* The even numbers are in order.
LEMMA NthEven ==
  ASSUME NEW m \in Nat, NEW S, S = {2 * j : j \in 0 .. m}, NEW k \in 0 .. m
  PROVE  Nth(S, k) = 2 * k
<1>1. ASSUME NEW j \in 0 .. m
      PROVE  Cardinality({x \in S : x < 2 * j}) = j
  <2>1. {x \in S : x < 2 * j} = {2 * a : a \in 0 .. j - 1}
    OBVIOUS
  <2> QED
    BY <2>1, CountEven
<1>2. 2 * k \in S /\ Cardinality({x \in S : x < 2 * k}) = k
  BY <1>1
<1>3. ASSUME NEW y \in S, Cardinality({x \in S : x < y}) = k
      PROVE  y = 2 * k
  <2>1. PICK j \in 0 .. m : y = 2 * j
    OBVIOUS
  <2> QED
    BY <1>1, <1>3, <2>1
<1> QED
  BY <1>2, <1>3 DEF Nth

\* A sequence of one item.
LEMMA OneItem ==
  ASSUME NEW S, NEW t \in Seq(S), Len(t) = 1
  PROVE  t = <<t[1]>>
  OBVIOUS

\* A sequence of one item of another.
LEMMA OneOf ==
  ASSUME NEW S, NEW t \in Seq(S), NEW k \in 1 .. Len(t)
  PROVE  SubSeq(t, k, k) = <<t[k]>>
<1>1. /\ SubSeq(t, k, k) \in Seq(S) /\ Len(SubSeq(t, k, k)) = 1
      /\ SubSeq(t, k, k)[1] = t[k]
  BY SubSeqProperties
<1> QED
  BY <1>1, OneItem

\* Every number is even or odd.
LEMMA Halves ==
  ASSUME NEW n \in Nat
  PROVE  /\ n % 2 = 0 => \E k \in Nat : n = 2 * k
         /\ n % 2 = 1 => \E k \in Nat : n = 2 * k - 1
         /\ n % 2 = 0 \/ n % 2 = 1
<1>1. n % 2 = 0 => n \div 2 \in Nat /\ n = 2 * (n \div 2)
  OBVIOUS
<1>2. n % 2 = 1 => (n + 1) \div 2 \in Nat /\ n = 2 * ((n + 1) \div 2) - 1
  OBVIOUS
<1>3. n % 2 = 0 \/ n % 2 = 1
  OBVIOUS
<1> QED
  BY <1>1, <1>2, <1>3

\* Even and odd numbers.
LEMMA Doubled ==
  ASSUME NEW k \in Nat
  PROVE  /\ (2 * k) % 2 = 0
         /\ k # 0 => (2 * k - 1) % 2 = 1 /\ ((2 * k - 1) + 1) \div 2 = k
  OBVIOUS

\* The same, without the remainder.
LEMMA EvenOrOdd ==
  ASSUME NEW n \in Nat
  PROVE  \E k \in Nat : n = 2 * k \/ n = 2 * k - 1
  BY Halves

\* strings.Split, of a text that has the delimiter in every second place.
LEMMA SplitOf ==
  ASSUME NEW t \in Seq(STRING), NEW d, NEW m \in Nat, Len(t) = 2 * m - 1,
         \A k \in 1 .. m - 1 : t[2 * k] = d,
         \A k \in 1 .. m : t[2 * k - 1] # d
  PROVE  Split(t, d) = [n \in 1 .. m |-> <<t[2 * n - 1]>>]
<1> DEFINE cuts == {0, Len(t) + 1} \cup {n \in DOMAIN t : t[n] = d}
<1>1. DOMAIN t = 1 .. Len(t) /\ Len(t) + 1 = 2 * m
  OBVIOUS
<1>3. cuts = {2 * j : j \in 0 .. m}
  <2>1. ASSUME NEW x \in cuts PROVE \E j \in 0 .. m : x = 2 * j
    <3>1. x = 0 \/ x = 2 * m \/ (x \in 1 .. Len(t) /\ t[x] = d)
      BY <1>1
    <3>2. CASE x = 0
      BY <3>2
    <3>3. CASE x = 2 * m
      BY <3>3
    <3>4. CASE x \in 1 .. Len(t) /\ t[x] = d
      <4>1. PICK k \in Nat : x = 2 * k \/ x = 2 * k - 1
        <5>1. x \in Nat
          BY <3>4
        <5> QED
          BY <5>1, EvenOrOdd
      <4>2. x = 2 * k - 1 => k \in 1 .. m
        BY <3>4
      <4>3. x = 2 * k /\ k \in 0 .. m
        BY <3>4, <4>1, <4>2
      <4> QED
        BY <4>3
    <3> QED
      BY <3>1, <3>2, <3>3, <3>4
  <2>2. ASSUME NEW j \in 0 .. m PROVE 2 * j \in cuts
    <3>1. CASE j = 0 \/ j = m
      BY <1>1, <3>1
    <3>2. CASE j # 0 /\ j # m
      <4>1. 2 * j \in 1 .. Len(t) /\ j \in 1 .. m - 1
        BY <3>2
      <4> QED
        BY <1>1, <4>1
    <3> QED
      BY <3>1, <3>2
  <2> HIDE DEF cuts
  <2> QED
    BY <2>1, <2>2
<1> HIDE DEF cuts
<1>4. Cardinality(cuts) = m + 1
  <2>1. m + 1 \in Nat /\ (m + 1) - 1 = m
    OBVIOUS
  <2> QED
    BY <1>3, <2>1, CountEven
<1>5. \A j \in 0 .. m : Nth(cuts, j) = 2 * j
  BY <1>3, NthEven
<1>6. \A n \in 1 .. m : SubSeq(t, Nth(cuts, n - 1) + 1, Nth(cuts, n) - 1) = <<t[2 * n - 1]>>
  <2> SUFFICES ASSUME NEW n \in 1 .. m
               PROVE  SubSeq(t, Nth(cuts, n - 1) + 1, Nth(cuts, n) - 1) = <<t[2 * n - 1]>>
    OBVIOUS
  <2>1. /\ Nth(cuts, n - 1) + 1 = 2 * n - 1 /\ Nth(cuts, n) - 1 = 2 * n - 1
        /\ 2 * n - 1 \in 1 .. Len(t)
    BY <1>5
  <2> QED
    BY <2>1, OneOf
<1>7. Split(t, d) = [n \in 1 .. Cardinality(cuts) - 1 |-> SubSeq(t, Nth(cuts, n - 1) + 1, Nth(cuts, n) - 1)]
  BY Zenon DEF Split, cuts
<1>8. Cardinality(cuts) - 1 = m
  BY <1>4
<1> QED
  BY <1>6, <1>7, <1>8

\* A list is taken apart at its commas into its words.
LEMMA ListFacts ==
  ASSUME NEW t \in Seq(STRING), IsList(t)
  PROVE  \E m \in Nat :
           /\ Len(t) = 2 * m - 1
           /\ Split(t, ",") = [n \in 1 .. m |-> <<t[2 * n - 1]>>]
           /\ WordsOf(t) = [n \in 1 .. m |-> <<t[2 * n - 1]>>]
<1>1. Len(t) % 2 = 1
  BY Zenon DEF IsList
<1>2. Len(t) \in Nat /\ DOMAIN t = 1 .. Len(t)
  OBVIOUS
<1>3. PICK m \in Nat : Len(t) = 2 * m - 1
  BY <1>1, <1>2, Halves
<1>4. m # 0 /\ 1 <= m
  BY <1>2, <1>3
<1>5. (Len(t) + 1) \div 2 = m
  BY <1>3, <1>4, Doubled
<1>6. \A n \in 1 .. Len(t) : /\ n % 2 = 0 => t[n] = ","
                             /\ n % 2 = 1 => t[n] \notin Delimiters
  <2>1. \A n \in DOMAIN t : (n % 2 = 0 <=> t[n] \in Delimiters) /\ (n % 2 = 0 => t[n] = ",")
    BY Zenon DEF IsList
  <2>2. 0 # 1
    OBVIOUS
  <2> QED
    BY <1>2, <2>1, <2>2, Zenon
<1>7. ASSUME NEW k \in 1 .. m - 1 PROVE t[2 * k] = ","
  <2>1. 2 * k \in 1 .. Len(t)
    BY <1>3
  <2>2. (2 * k) % 2 = 0
    BY Doubled
  <2> QED
    BY <1>6, <2>1, <2>2, Zenon
<1>8. ASSUME NEW k \in 1 .. m PROVE t[2 * k - 1] # ","
  <2>1. 2 * k - 1 \in 1 .. Len(t)
    BY <1>3
  <2>2. (2 * k - 1) % 2 = 1
    BY Doubled
  <2>3. "," \in Delimiters
    BY DEF Delimiters
  <2> QED
    BY <1>6, <2>1, <2>2, <2>3, Zenon
<1>9. WordsOf(t) = [n \in 1 .. m |-> <<t[2 * n - 1]>>]
  BY <1>5, Zenon DEF WordsOf
<1>10. Split(t, ",") = [n \in 1 .. m |-> <<t[2 * n - 1]>>]
  <2>1. \A d : (\A k \in 1 .. m - 1 : t[2 * k] = d) /\ (\A k \in 1 .. m : t[2 * k - 1] # d) =>
                Split(t, d) = [n \in 1 .. m |-> <<t[2 * n - 1]>>]
    BY <1>3, SplitOf
  <2> QED
    BY <1>7, <1>8, <2>1, Zenon
<1> QED
  BY <1>3, <1>9, <1>10, Zenon

\* What no other number of a set is above is its greatest.
LEMMA MaxIs ==
  ASSUME NEW A \in SUBSET Nat, NEW x \in A, \A y \in A : y <= x
  PROVE  Max(A) = x
<1>1. x >= x /\ (\A y \in A : x >= y) /\ \A z \in A : (\A y \in A : z >= y) => z = x
  OBVIOUS
<1> QED
  BY <1>1, Zenon DEF Max

\* schemaForPropertyPath, of a path of one name.
LEMMA SchemaOfOne ==
  ASSUME NEW s, NEW n
  PROVE  SchemaAt(s, <<n>>) = PropertySchema(s, n)
<1> DEFINE f == [m \in 0..1 |-> IF m = 0 THEN s ELSE PropertySchema(s, n)]
           Is(h) == h = [m \in 0..Len(<<n>>) |-> IF m = 0 THEN s ELSE PropertySchema(h[m - 1], <<n>>[m])]
<1>1. Len(<<n>>) = 1 /\ <<n>>[1] = n
  OBVIOUS
<1>2. Is(f)
  BY <1>1
<1>3. \A h : Is(h) => h[1] = PropertySchema(s, n)
  <2> SUFFICES ASSUME NEW h, Is(h) PROVE h[1] = PropertySchema(s, n)
    OBVIOUS
  <2> DEFINE body(m) == IF m = 0 THEN s ELSE PropertySchema(h[m - 1], <<n>>[m])
  <2>1. h = [m \in 0..1 |-> body(m)]
    BY <1>1
  <2> HIDE DEF body
  <2>2. h[0] = body(0) /\ h[1] = body(1)
    BY <2>1
  <2> QED
    BY <2>2, <1>1 DEF body
<1> HIDE DEF f
<1>4. SchemaAt(s, <<n>>) = (CHOOSE h : Is(h))[Len(<<n>>)]
  BY Zenon DEF SchemaAt
<1> HIDE DEF Is
<1>5. Is(CHOOSE h : Is(h))
  BY <1>2, Zenon
<1> QED
  BY <1>1, <1>3, <1>4, <1>5

\* What is assumed of JSON Schema, and of strconv.ParseInt.
JsonSchema ==
  /\ ConformsAsJson(Members)
  /\ \A t \in Seq(STRING) : Int64(t) \in Seq(STRING)

\* What a text becomes where a schema says what it is.
CastAs(leaf, t) == IF PreservesString(leaf) THEN Scalar("string", t) ELSE Cast(t)

\* cast: what a text becomes is one of four things.
LEMMA CastFacts ==
  ASSUME NEW t
  PROVE  \/ Cast(t) = Scalar("boolean", t) \/ Cast(t) = Scalar("number", t)
         \/ Cast(t) = Scalar("integer", Int64(t)) \/ Cast(t) = Scalar("string", t)
<1>1. CASE t \in {<<"true">>, <<"false">>}
  BY <1>1, Zenon DEF Cast
<1>2. CASE t \notin {<<"true">>, <<"false">>} /\ Parses(t, "number")
  BY <1>2, Zenon DEF Cast
<1>3. CASE t \notin {<<"true">>, <<"false">>} /\ ~Parses(t, "number")
  BY <1>3, Zenon DEF Cast
<1> QED
  BY <1>1, <1>2, <1>3

\* The type and the text of a scalar.
LEMMA ScalarFacts ==
  ASSUME NEW type, NEW t
  PROVE  Scalar(type, t).type = type /\ Scalar(type, t).text = t
  BY DEF Scalar

\* cast and castWithSchema return scalars.
LEMMA CastIsScalar ==
  ASSUME JsonSchema, NEW leaf, NEW t \in Seq(STRING)
  PROVE  /\ Cast(t) \in ScalarValue /\ CastAs(leaf, t) \in ScalarValue
         /\ \A type \in ScalarTypes : Scalar(type, t) \in ScalarValue
<1>1. \A kind \in ScalarTypes, u \in Seq(STRING) : Scalar(kind, u) \in ScalarValue
  BY DEF Scalar, ScalarValue
<1>2. Int64(t) \in Seq(STRING)
  BY DEF JsonSchema
<1>3. "boolean" \in ScalarTypes /\ "number" \in ScalarTypes /\ "integer" \in ScalarTypes /\ "string" \in ScalarTypes
  BY DEF ScalarTypes
<1>4. /\ Scalar("boolean", t) \in ScalarValue /\ Scalar("number", t) \in ScalarValue
      /\ Scalar("integer", Int64(t)) \in ScalarValue /\ Scalar("string", t) \in ScalarValue
  BY <1>1, <1>2, <1>3
<1>5. Cast(t) \in ScalarValue
  BY <1>4, CastFacts, Zenon
<1> QED
  BY <1>1, <1>4, <1>5, Zenon DEF CastAs

\* A text that is cast to a value of its type is what the document says it is.
LEMMA CastTyped ==
  ASSUME JsonSchema, NEW leaf, ReadsOneWay(leaf), NEW t \in Seq(STRING)
  PROVE  /\ Typed(leaf, t) \in ScalarValue
         /\ OfType(CastAs(leaf, t), Types(leaf)) /\ IsExact(Typed(leaf, t)) =>
              SameScalar(CastAs(leaf, t), Typed(leaf, t))
<1>0. CASE Types(leaf) = {}
  <2>1. Cardinality(Types(leaf)) # 1
    BY <1>0, FS_EmptySet
  <2>2. Typed(leaf, t) = Cast(t)
    BY <2>1 DEF Typed, OneType
  <2>3. CastAs(leaf, t) = Cast(t)
    BY <1>0 DEF CastAs, PreservesString
  <2>4. Cast(t) \in ScalarValue
    BY CastIsScalar, Zenon
  <2> QED
    BY <2>2, <2>3, <2>4, Zenon DEF SameScalar
<1>1. ASSUME NEW type \in {"string", "integer", "number", "boolean"}, Types(leaf) = {type}
      PROVE  /\ Typed(leaf, t) \in ScalarValue
             /\ OfType(CastAs(leaf, t), Types(leaf)) /\ IsExact(Typed(leaf, t)) =>
                  SameScalar(CastAs(leaf, t), Typed(leaf, t))
  <2>1. Typed(leaf, t) = Scalar(type, t)
    BY <1>1, TypedAs
  <2>2. Typed(leaf, t) \in ScalarValue
    <3>1. type \in ScalarTypes
      BY DEF ScalarTypes
    <3> QED
      BY <2>1, <3>1, CastIsScalar, Zenon
  <2>3. CASE type = "string"
    BY <1>1, <2>1, <2>2, <2>3 DEF CastAs, PreservesString, SameScalar
  <2>4. CASE type # "string"
    <3>1. CastAs(leaf, t) = Cast(t)
      BY <1>1, <2>4 DEF CastAs, PreservesString
    <3> SUFFICES ASSUME OfType(Cast(t), {type}), IsExact(Scalar(type, t))
                 PROVE  SameScalar(Cast(t), Scalar(type, t))
      BY <1>1, <2>1, <2>2, <3>1
    <3>2. Cast(t).type = type \/ (Cast(t).type \in Numeric /\ type \in Numeric)
      BY <1>1 DEF OfType
    <3>3. Cast(t).type = "integer" => Int64(t) = t
      BY ScalarFacts, Zenon DEF IsExact
    <3>4. Cast(t).text = t /\ Cast(t) = Scalar(Cast(t).type, t)
      BY <1>1, <2>4, <3>2, <3>3, CastFacts, ScalarFacts
    <3> QED
      BY <3>2, <3>4, ScalarFacts DEF SameScalar
  <2> QED
    BY <2>3, <2>4
<1> QED
  BY <1>0, <1>1 DEF ReadsOneWay

\* What ValidateParameterSchema finds nothing wrong with conforms, if it is held to the
\* schema at all.
LEMMA Held ==
  ASSUME NEW s, NEW v, AgainstObject(s, v) = {}, DOMAIN v # {},
         EmptyKey \in DOMAIN v => v[EmptyKey] # Empty
  PROVE  Conforms(s, Object(v))
<1>1. EmptyKey \notin DOMAIN v
  <2> SUFFICES ASSUME EmptyKey \in DOMAIN v PROVE FALSE
    OBVIOUS
  <2>1. AgainstObject(s, v) = {"emptyKey"}
    BY Zenon DEF AgainstObject
  <2> QED
    BY <2>1
<1>2. AgainstObject(s, v) = AgainstSchema(s, Object(v))
  BY <1>1, Zenon DEF AgainstObject
<1> QED
  BY <1>2 DEF AgainstSchema

\* What ConformsAsJson says of a member of an object that conforms.
FitsAt(s, v, path) ==
  LET leaf == SchemaAt(s, path)
  IN  /\ OfType(v[path], Types(leaf))
      /\ v[path].type = "array" /\ Types(leaf) # {} /\ HasItemsSchema(leaf) =>
           \A n \in DOMAIN v[path].items : OfType(v[path].items[n], Types(Schema[leaf].items))

\* An object conforms with one that does and that is the same but for the kinds of numbers.
LEMMA ReadAlike ==
  ASSUME JsonSchema, NEW s \in Schemas, NEW v \in Members, NEW w \in Members, DOMAIN v = DOMAIN w,
         Conforms(s, Object(v)),
         \A path \in DOMAIN v : FitsAt(s, v, path) => SameMember(v[path], w[path])
  PROVE  Conforms(s, Object(w))
<1>1. /\ \A path \in DOMAIN v : FitsAt(s, v, path)
      /\ \A x \in Members :
           DOMAIN v = DOMAIN x /\ (\A path \in DOMAIN v : SameMember(v[path], x[path])) =>
             Conforms(s, Object(x))
  BY Zenon DEF JsonSchema, ConformsAsJson, FitsAt
<1>2. \A path \in DOMAIN v : SameMember(v[path], w[path])
  BY <1>1, Zenon
<1> QED
  BY <1>1, <1>2, Zenon

--------------------------------------------------------------------------------
(* An object in one text.                                                  *)

\* A set of numbers that has a bound has a greatest.
LEMMA Greatest ==
  ASSUME NEW N \in Nat, NEW T \in SUBSET (0 .. N), T # {}
  PROVE  \E n \in T : \A m \in T : m <= n
<1> DEFINE U == {N - m : m \in T}
<1>1. U \in SUBSET Nat /\ U # {}
  <2>1. \A m \in T : N - m \in Nat
    OBVIOUS
  <2>2. PICK m \in T : TRUE
    OBVIOUS
  <2> QED
    BY <2>1, <2>2
<1> HIDE DEF U
<1>2. PICK u \in U : \A v \in U : u <= v
  BY <1>1, LeastOf
<1> USE DEF U
<1>3. PICK n \in T : u = N - n
  OBVIOUS
<1>4. \A m \in T : N - n <= N - m
  BY <1>2, <1>3
<1> QED
  BY <1>4

\* The remainders by four of the places of keys, and of the length of a list of pairs.
LEMMA Quarters ==
  ASSUME NEW n \in Nat
  PROVE  /\ n % 4 = 1 => \E k \in Nat : k >= 1 /\ n = 4 * k - 3
         /\ n % 4 = 3 => \E h \in Nat : n = 4 * h - 1
<1>1. n % 4 = 1 => (n + 3) \div 4 \in Nat /\ (n + 3) \div 4 >= 1 /\ n = 4 * ((n + 3) \div 4) - 3
  OBVIOUS
<1>2. n % 4 = 3 => (n + 1) \div 4 \in Nat /\ n = 4 * ((n + 1) \div 4) - 1
  OBVIOUS
<1> QED
  BY <1>1, <1>2

\* Every fourth place is that of a key.
LEMMA Quartered ==
  ASSUME NEW k \in Nat
  PROVE  (4 * k + 1) % 4 = 1
  OBVIOUS

\* Where the keys of a list of pairs are.
LEMMA FirstIs ==
  ASSUME NEW t \in Seq(STRING), NEW h \in Nat, Len(t) = 4 * h - 1
  PROVE  {n \in DOMAIN t : n % 4 = 1} = {4 * k - 3 : k \in 1 .. h}
<1> DEFINE IsFirst(n) == n % 4 = 1
           A == {n \in DOMAIN t : IsFirst(n)}
<1>1. \A n \in Nat : IsFirst(n) => \E k \in Nat : k >= 1 /\ n = 4 * k - 3
  BY Quarters
<1>2. \A k \in Nat : IsFirst(4 * k + 1)
  BY Quartered
<1> HIDE DEF IsFirst
<1>3. ASSUME NEW n \in A PROVE n \in {4 * k - 3 : k \in 1 .. h}
  <2>1. PICK k \in Nat : k >= 1 /\ n = 4 * k - 3
    BY <1>1
  <2> QED
    BY <2>1
<1>4. ASSUME NEW k \in 1 .. h PROVE 4 * k - 3 \in A
  <2>1. k - 1 \in Nat /\ 4 * k - 3 = 4 * (k - 1) + 1 /\ 4 * k - 3 \in DOMAIN t
    OBVIOUS
  <2> QED
    BY <1>2, <2>1
<1>5. A = {4 * k - 3 : k \in 1 .. h}
  <2> HIDE DEF A
  <2> QED
    BY <1>3, <1>4
<1> QED
  BY <1>5 DEF IsFirst

\* What a text becomes in an object of a text, where a leaf is at its place.
LEMMA CastInObject ==
  ASSUME NEW s, Types(s) = {"object"}, NEW n, NEW u
  PROVE  CastWithSchema(u, s, n) = CastAs(SchemaAt(s, <<n>>), u)
<1>1. ~PreservesString(s)
  BY DEF PreservesString
<1>2. CastWithSchema(u, s, n) = IF PreservesString(PropertySchema(s, n)) THEN Scalar("string", u) ELSE Cast(u)
  BY <1>1, Zenon DEF CastWithSchema
<1> QED
  BY <1>2, SchemaOfOne DEF CastAs

\* A word is its own key.
LEMMA OneWord ==
  ASSUME NEW x
  PROVE  KeyOf(<<x>>) = <<x>> /\ NameOf(<<x>>) = x
  BY DEF KeyOf, NameOf

\* A list of 2 h words, and where its keys are.
ListOf(t, d, h, first) ==
  /\ t \in Seq(STRING) /\ h \in Nat /\ Len(t) = 4 * h - 1
  /\ Split(t, d) = [n \in 1 .. 2 * h |-> <<t[2 * n - 1]>>]
  /\ first = {4 * k - 3 : k \in 1 .. h}

\* The keys of a list of pairs, and the last text of each.
KeysOf(t, first) == {<<t[n]>> : n \in first}
TextAt(t, first, key) == <<t[Max({n \in first : <<t[n]>> = key}) + 2]>>

\* ConstructMapFromCSVWithSchema, of a list of pairs.
LEMMA AlternatingOf ==
  ASSUME NEW t, NEW d, NEW s, NEW h, NEW first, ListOf(t, d, h, first), Types(s) = {"object"}
  PROVE  Alternating(t, d, s) =
           [key \in KeysOf(t, first) |-> CastAs(SchemaAt(s, key), TextAt(t, first, key))]
<1>a. /\ t \in Seq(STRING) /\ h \in Nat /\ Len(t) = 4 * h - 1
      /\ Split(t, d) = [n \in 1 .. 2 * h |-> <<t[2 * n - 1]>>]
      /\ first = {4 * k - 3 : k \in 1 .. h}
  BY DEF ListOf
<1> USE <1>a
<1>0. \A n, u : CastWithSchema(u, s, n) = CastAs(SchemaAt(s, <<n>>), u)
  BY CastInObject, Zenon
<1> DEFINE parts == Split(t, d)
           pairs == [k \in 1 .. (Len(parts) \div 2) |-> <<parts[2 * k - 1], parts[2 * k]>>]
           v == Alternating(t, d, s)
<1>1. Len(parts) \div 2 = h
  <2>1. Len(parts) = 2 * h
    OBVIOUS
  <2>2. (2 * h) \div 2 = h
    OBVIOUS
  <2> QED
    BY <2>1, <2>2
<1>2. DOMAIN pairs = 1 .. h
  BY <1>1
<1>3. \A k \in 1 .. h : pairs[k] = <<<<t[4 * k - 3]>>, <<t[4 * k - 1]>>>>
  <2> SUFFICES ASSUME NEW k \in 1 .. h PROVE pairs[k] = <<<<t[4 * k - 3]>>, <<t[4 * k - 1]>>>>
    OBVIOUS
  <2>1. pairs[k] = <<parts[2 * k - 1], parts[2 * k]>>
    BY <1>1
  <2>2. parts[2 * k - 1] = <<t[4 * k - 3]>>
    <3>1. 2 * k - 1 \in 1 .. 2 * h /\ 2 * (2 * k - 1) - 1 = 4 * k - 3
      OBVIOUS
    <3> QED
      BY <3>1
  <2>3. parts[2 * k] = <<t[4 * k - 1]>>
    <3>1. 2 * k \in 1 .. 2 * h /\ 2 * (2 * k) - 1 = 4 * k - 1
      OBVIOUS
    <3> QED
      BY <3>1
  <2> QED
    BY <2>1, <2>2, <2>3
<1>4. v = MapOf(pairs, s)
  BY Zenon DEF Alternating
<1> DEFINE Key(k) == <<t[4 * k - 3]>>
           At(key) == {k \in 1 .. h : Key(k) = key}
           Said(key) == CastWithSchema(pairs[Max(At(key))][2], s, NameOf(pairs[Max(At(key))][1]))
<1>5. v = [key \in {Key(k) : k \in 1 .. h} |-> Said(key)]
  <2>1. \A k \in DOMAIN pairs : KeyOf(pairs[k][1]) = Key(k)
    BY <1>2, <1>3, OneWord
  <2>2. {KeyOf(pairs[k][1]) : k \in DOMAIN pairs} = {Key(k) : k \in 1 .. h}
    <3> HIDE DEF pairs, Key
    <3> QED
      BY <1>2, <2>1, Zenon
  <2>3. \A key : {k \in DOMAIN pairs : KeyOf(pairs[k][1]) = key} = At(key)
    BY <1>2, <2>1
  <2>4. MapOf(pairs, s) =
          [key \in {KeyOf(pairs[k][1]) : k \in DOMAIN pairs} |->
             CastWithSchema(pairs[Max({k \in DOMAIN pairs : KeyOf(pairs[k][1]) = key})][2], s,
                            NameOf(pairs[Max({k \in DOMAIN pairs : KeyOf(pairs[k][1]) = key})][1]))]
    BY Zenon DEF MapOf
  <2> HIDE DEF pairs, Key, At
  <2> QED
    BY <1>4, <2>2, <2>3, <2>4
<1>6. {Key(k) : k \in 1 .. h} = {<<t[n]>> : n \in first}
  <2>1. \A k \in 1 .. h : 4 * k - 3 \in first /\ Key(k) = <<t[4 * k - 3]>>
    OBVIOUS
  <2>2. \A n \in first : \E k \in 1 .. h : n = 4 * k - 3
    OBVIOUS
  <2>3. ASSUME NEW k \in 1 .. h PROVE Key(k) \in {<<t[n]>> : n \in first}
    BY <2>1
  <2>4. ASSUME NEW n \in first PROVE <<t[n]>> \in {Key(k) : k \in 1 .. h}
    BY <2>2
  <2> HIDE DEF Key
  <2> QED
    BY <2>3, <2>4
<1>7. ASSUME NEW key \in {Key(k) : k \in 1 .. h}
      PROVE  Said(key) = CastAs(SchemaAt(s, key), <<t[Max({n \in first : <<t[n]>> = key}) + 2]>>)
  <2>1. At(key) \in SUBSET (0 .. h) /\ At(key) # {}
    <3>1. PICK k \in 1 .. h : Key(k) = key
      BY Zenon
    <3>2. k \in At(key)
      BY <3>1
    <3>3. 1 .. h \subseteq 0 .. h
      OBVIOUS
    <3> QED
      BY <3>2, <3>3
  <2>2. PICK k \in At(key) : \A l \in At(key) : l <= k
    <3> HIDE DEF At
    <3> QED
      BY <2>1, Greatest
  <2>3. Max(At(key)) = k
    <3>1. At(key) \in SUBSET Nat
      OBVIOUS
    <3> HIDE DEF At
    <3> QED
      BY <2>2, <3>1, MaxIs
  <2>4. k \in 1 .. h /\ Key(k) = key
    OBVIOUS
  <2> DEFINE B == {n \in first : <<t[n]>> = key}
  <2>5. B \in SUBSET Nat /\ 4 * k - 3 \in B
    <3>1. 4 * k - 3 \in first /\ <<t[4 * k - 3]>> = key
      BY <2>4
    <3>2. \A l \in 1 .. h : 4 * l - 3 \in Nat
      OBVIOUS
    <3>3. first \subseteq Nat
      BY <3>2
    <3> QED
      BY <3>1, <3>3, Zenon
  <2>6. \A n \in B : n <= 4 * k - 3
    <3> SUFFICES ASSUME NEW n \in B PROVE n <= 4 * k - 3
      OBVIOUS
    <3>1. PICK l \in 1 .. h : n = 4 * l - 3
      OBVIOUS
    <3>2. l \in At(key)
      BY <3>1
    <3>3. l <= k
      BY <2>2, <3>2
    <3> QED
      BY <2>4, <3>1, <3>3
  <2>7. Max(B) = 4 * k - 3
    <3> HIDE DEF B
    <3> QED
      BY <2>5, <2>6, MaxIs
  <2>8. pairs[k][1] = key /\ pairs[k][2] = <<t[4 * k - 1]>> /\ NameOf(key) = t[4 * k - 3]
    BY <1>3, <2>4, OneWord
  <2>9. Said(key) = CastWithSchema(<<t[4 * k - 1]>>, s, t[4 * k - 3])
    <3> HIDE DEF At, pairs
    <3> QED
      BY <2>3, <2>8
  <2>10. Said(key) = CastAs(SchemaAt(s, key), <<t[4 * k - 1]>>)
    <3>1. key = <<t[4 * k - 3]>>
      BY <2>4
    <3>2. CastWithSchema(<<t[4 * k - 1]>>, s, t[4 * k - 3]) =
            CastAs(SchemaAt(s, <<t[4 * k - 3]>>), <<t[4 * k - 1]>>)
      BY <1>0, Zenon
    <3> HIDE DEF Said
    <3> QED
      BY <2>9, <3>1, <3>2, Zenon
  <2>11. (4 * k - 3) + 2 = 4 * k - 1
    BY <2>4
  <2> HIDE DEF Said, B
  <2> QED
    BY <2>7, <2>10, <2>11 DEF B
<1> HIDE DEF v, Key, Said
<1>8. v = [key \in KeysOf(t, first) |-> Said(key)]
  BY <1>5, <1>6 DEF KeysOf
<1>9. \A key \in KeysOf(t, first) : Said(key) = CastAs(SchemaAt(s, key), TextAt(t, first, key))
  BY <1>6, <1>7, Zenon DEF KeysOf, TextAt
<1> QED
  BY <1>8, <1>9, Zenon DEF v

\* The greatest of a set is in it.
LEMMA LastOf ==
  ASSUME NEW N \in Nat, NEW B \in SUBSET (0 .. N), B # {}
  PROVE  Max(B) \in B
<1>1. PICK n \in B : \A m \in B : m <= n
  BY Greatest
<1>2. B \in SUBSET Nat
  OBVIOUS
<1> QED
  BY <1>1, <1>2, MaxIs

\* The type and the members of an object.
LEMMA ObjectFacts ==
  ASSUME NEW v
  PROVE  Object(v).type = "object" /\ Object(v).members = v
  BY DEF Object

\* What IsHeld and IsCastExactly say of the members of an object.
LEMMA HeldMembers ==
  ASSUME NEW v, IsHeld(Object(v)), IsCastExactly(Object(v))
  PROVE  /\ DOMAIN v # {}
         /\ \A key \in DOMAIN v :
              /\ v[key] \in ScalarValue => IsExact(v[key])
              /\ v[key].type = "array" => \A n \in DOMAIN v[key].items : IsExact(v[key].items[n])
<1>1. DOMAIN v # {}
  BY ObjectFacts, Zenon DEF IsHeld
<1>2. \A m \in Range(v) :
        IF m.type = "array" THEN \A item \in Range(m.items) : IsExact(item) ELSE IsExact(m)
  BY ObjectFacts, Zenon DEF IsCastExactly
<1>3. \A m \in ScalarValue : m.type # "array"
  BY DEF ScalarValue, ScalarTypes
<1>4. ASSUME NEW key \in DOMAIN v
      PROVE  /\ v[key] \in ScalarValue => IsExact(v[key])
             /\ v[key].type = "array" => \A n \in DOMAIN v[key].items : IsExact(v[key].items[n])
  <2>1. v[key] \in Range(v)
    BY Zenon DEF Range
  <2>2. \A n \in DOMAIN v[key].items : v[key].items[n] \in Range(v[key].items)
    BY Zenon DEF Range
  <2> QED
    BY <1>2, <1>3, <2>1, <2>2, Zenon
<1> QED
  BY <1>1, <1>4

\* No text that has a word is the empty string.
LEMMA NotEmpty ==
  ASSUME NEW leaf, NEW x
  PROVE  CastAs(leaf, <<x>>) # Empty
<1>1. Scalar("string", <<x>>) # Scalar("string", <<>>)
  <2>1. <<x>> # <<>>
    OBVIOUS
  <2> QED
    BY <2>1, ScalarFacts
<1>2. \A kind, u : kind # "string" => Scalar(kind, u) # Scalar("string", <<>>)
  BY ScalarFacts
<1>3. Cast(<<x>>) # Scalar("string", <<>>)
  BY <1>1, <1>2, CastFacts
<1> QED
  BY <1>1, <1>3 DEF CastAs, Empty

\* The object a list of pairs is read as conforms if the one it is cast to does.
LEMMA ListAlike ==
  ASSUME JsonSchema, NEW s \in Schemas, NEW t, NEW d, NEW h, NEW first, ListOf(t, d, h, first),
         \A n \in first : ReadsOneWay(SchemaAt(s, <<t[n]>>)),
         NEW v, v = [key \in KeysOf(t, first) |-> CastAs(SchemaAt(s, key), TextAt(t, first, key))],
         NEW w, w = [key \in KeysOf(t, first) |-> Typed(SchemaAt(s, key), TextAt(t, first, key))],
         AgainstObject(s, v) = {}, IsHeld(Object(w)), IsCastExactly(Object(w))
  PROVE  Conforms(s, Object(w))
<1> DEFINE K == KeysOf(t, first)
           text == [key \in K |-> TextAt(t, first, key)]
<1>1. ASSUME NEW key \in K
      PROVE  /\ key \in Seq(STRING) /\ text[key] \in Seq(STRING)
             /\ \E x : text[key] = <<x>>
             /\ ReadsOneWay(SchemaAt(s, key))
  <2>0. /\ t \in Seq(STRING) /\ h \in Nat /\ Len(t) = 4 * h - 1
        /\ first = {4 * k - 3 : k \in 1 .. h}
    BY DEF ListOf
  <2>1. PICK n \in first : key = <<t[n]>>
    BY DEF KeysOf
  <2>2. \A m \in first : m \in 0 .. Len(t) /\ m \in 1 .. Len(t) /\ m + 2 \in 1 .. Len(t)
    <3> SUFFICES ASSUME NEW k \in 1 .. h
                 PROVE  /\ 4 * k - 3 \in 0 .. Len(t) /\ 4 * k - 3 \in 1 .. Len(t)
                        /\ (4 * k - 3) + 2 \in 1 .. Len(t)
      BY <2>0
    <3> QED
      BY <2>0
  <2> DEFINE B == {m \in first : <<t[m]>> = key}
  <2>3. B \in SUBSET (0 .. Len(t)) /\ B # {} /\ Len(t) \in Nat
    BY <2>0, <2>1, <2>2
  <2>4. Max(B) \in B
    <3> HIDE DEF B
    <3> QED
      BY <2>3, LastOf
  <2>5. Max(B) + 2 \in 1 .. Len(t)
    BY <2>2, <2>4
  <2>6. text[key] = <<t[Max(B) + 2]>>
    BY Zenon DEF TextAt
  <2> HIDE DEF B, text, K
  <2>7. text[key] \in Seq(STRING) /\ \E x : text[key] = <<x>>
    BY <2>0, <2>5, <2>6
  <2>8. t[n] \in STRING
    BY <2>0, <2>2
  <2> QED
    BY <2>1, <2>7, <2>8
<1>2. /\ DOMAIN v = K /\ DOMAIN w = K /\ IsMap(v) /\ IsMap(w)
      /\ \A key \in K : /\ v[key] = CastAs(SchemaAt(s, key), text[key])
                        /\ w[key] = Typed(SchemaAt(s, key), text[key])
  BY DEF IsMap
<1> HIDE DEF K, text
<1>3. \A key \in K : v[key] \in ScalarValue /\ w[key] \in ScalarValue
  <2> SUFFICES ASSUME NEW key \in K PROVE v[key] \in ScalarValue /\ w[key] \in ScalarValue
    OBVIOUS
  <2>1. text[key] \in Seq(STRING) /\ ReadsOneWay(SchemaAt(s, key))
    BY <1>1
  <2>2. v[key] = CastAs(SchemaAt(s, key), text[key]) /\ w[key] = Typed(SchemaAt(s, key), text[key])
    BY <1>2
  <2>3. CastAs(SchemaAt(s, key), text[key]) \in ScalarValue
    BY <2>1, CastIsScalar, Zenon
  <2>4. Typed(SchemaAt(s, key), text[key]) \in ScalarValue
    BY <2>1, CastTyped, Zenon
  <2> QED
    BY <2>2, <2>3, <2>4, Zenon
<1>4. v \in Members /\ w \in Members
  <2>1. K \in SUBSET Seq(STRING)
    BY <1>1
  <2>2. v \in [K -> MemberValue] /\ w \in [K -> MemberValue]
    BY <1>2, <1>3 DEF IsMap, MemberValue
  <2> QED
    BY <2>1, <2>2, Zenon DEF Members
<1>5. /\ DOMAIN w # {}
      /\ \A key \in K : IsExact(w[key])
  BY <1>2, <1>3, HeldMembers, Zenon
<1>6. Conforms(s, Object(v))
  <2>1. \A key \in DOMAIN v : v[key] # Empty
    <3> SUFFICES ASSUME NEW key \in K PROVE v[key] # Empty
      BY <1>2
    <3>1. PICK x : text[key] = <<x>>
      BY <1>1
    <3>2. v[key] = CastAs(SchemaAt(s, key), <<x>>)
      BY <1>2, <3>1
    <3> QED
      BY <3>2, NotEmpty
  <2> QED
    BY <1>2, <1>5, <2>1, Held, Zenon
<1>7. ASSUME NEW key \in K, FitsAt(s, v, key)
      PROVE  SameMember(v[key], w[key])
  <2>1. OfType(v[key], Types(SchemaAt(s, key)))
    BY <1>7, Zenon DEF FitsAt
  <2>2. v[key] = CastAs(SchemaAt(s, key), text[key]) /\ w[key] = Typed(SchemaAt(s, key), text[key])
    BY <1>2
  <2>3. SameScalar(v[key], w[key])
    <3>1. text[key] \in Seq(STRING) /\ ReadsOneWay(SchemaAt(s, key))
      BY <1>1
    <3>2. IsExact(Typed(SchemaAt(s, key), text[key])) /\ OfType(CastAs(SchemaAt(s, key), text[key]), Types(SchemaAt(s, key)))
      BY <1>5, <2>1, <2>2, Zenon
    <3>3. SameScalar(CastAs(SchemaAt(s, key), text[key]), Typed(SchemaAt(s, key), text[key]))
      BY <3>1, <3>2, CastTyped, Zenon
    <3> QED
      BY <2>2, <3>3, Zenon
  <2> QED
    BY <2>3, Zenon DEF SameMember
<1> QED
  BY <1>2, <1>4, <1>6, <1>7, ReadAlike, Zenon

--------------------------------------------------------------------------------
(* The members of an object in several keys.                               *)

\* castWithSchemaPath, in an object.
LEMMA CastAtPath ==
  ASSUME NEW s, Types(s) = {"object"}, NEW path \in Seq(STRING), path # <<>>, NEW u
  PROVE  CastWithSchemaPath(u, s, path) = CastAs(SchemaAt(s, path), u)
<1> DEFINE leaf == SchemaAt(s, path)
<1>1. CastingSchema(s, leaf) = leaf
  BY DEF CastingSchema
<1>2. CastWithSchemaPath(u, s, path) =
        IF PreservesString(CastingSchema(s, leaf)) THEN Scalar("string", u)
        ELSE IF Len(path) = 1 THEN CastWithSchema(u, s, path[1]) ELSE Cast(u)
  BY Zenon DEF CastWithSchemaPath
<1>3. Len(path) = 1 => CastWithSchema(u, s, path[1]) = CastAs(leaf, u)
  <2> SUFFICES ASSUME Len(path) = 1 PROVE CastWithSchema(u, s, path[1]) = CastAs(leaf, u)
    OBVIOUS
  <2>1. path = <<path[1]>>
    BY OneItem
  <2>2. CastWithSchema(u, s, path[1]) = CastAs(SchemaAt(s, <<path[1]>>), u)
    BY CastInObject
  <2> QED
    BY <2>1, <2>2, Zenon
<1> HIDE DEF leaf
<1>4. CastWithSchemaPath(u, s, path) =
        IF PreservesString(leaf) THEN Scalar("string", u)
        ELSE IF Len(path) = 1 THEN CastAs(leaf, u) ELSE Cast(u)
  BY <1>1, <1>2, <1>3
<1> QED
  BY <1>4 DEF CastAs, leaf

\* What the items of a list become.
LEMMA CastItems ==
  ASSUME NEW leaf, Types(leaf) = {"array"}, NEW u
  PROVE  /\ HasItemsSchema(leaf) /\ ReadsOneWay(Schema[leaf].items) =>
              CastAs(leaf, u) = CastAs(Schema[leaf].items, u)
         /\ ~HasItemsSchema(leaf) => CastAs(leaf, u) = Cast(u)
<1>1. PreservesString(leaf) <=> HasItemsSchema(leaf) /\ "string" \in Types(Schema[leaf].items)
  BY DEF PreservesString, HasItemsSchema
<1>2. ReadsOneWay(Schema[leaf].items) =>
        (PreservesString(Schema[leaf].items) <=> "string" \in Types(Schema[leaf].items))
  BY DEF PreservesString, ReadsOneWay
<1> QED
  BY <1>1, <1>2 DEF CastAs

\* The type and the items of an array.
LEMMA ArrayFacts ==
  ASSUME NEW items
  PROVE  Array(items).type = "array" /\ Array(items).items = items
  BY DEF Array

\* Scalars, and lists of them, are members.
LEMMA MemberValues ==
  /\ \A v \in ScalarValue : v \in MemberValue /\ v.type # "array" /\ v.type \in ScalarTypes
  /\ \A items \in Seq(ScalarValue) : Array(items) \in MemberValue
  BY DEF MemberValue, ScalarValue, ScalarTypes, Array

\* A member of an object of several keys is one of its values, and is read as one.
LEMMA MemberTyped ==
  ASSUME JsonSchema, NEW s, Types(s) = {"object"}, NEW path \in Seq(STRING), path # <<>>,
         MemberReadsOneWay(s, path), NEW e, PropertyPath(e) = path,
         e.values \in Seq(Seq(STRING)), e.values # <<>>
  PROVE  /\ MemberOf(e, s) \in MemberValue /\ MemberRead(s, path, e.values) \in MemberValue
         /\ "array" \notin Types(SchemaAt(s, path)) => MemberRead(s, path, e.values) \in ScalarValue
<1> DEFINE leaf == SchemaAt(s, path)
           texts == e.values
<1>1. \A u : CastWithSchemaPath(u, s, path) = CastAs(leaf, u)
  BY CastAtPath, Zenon
<1>2. texts[1] \in Seq(STRING) /\ \A n \in DOMAIN texts : texts[n] \in Seq(STRING)
  OBVIOUS
<1>3. \A u \in Seq(STRING) : Cast(u) \in ScalarValue /\ CastAs(leaf, u) \in ScalarValue
  BY CastIsScalar, Zenon
<1>4. MemberOf(e, s) = IF DeepObjectAllowsMultipleValues(s, e)
                         THEN Array([n \in DOMAIN texts |-> CastWithSchemaPath(texts[n], s, path)])
                         ELSE CastWithSchemaPath(texts[1], s, path)
  BY Zenon DEF MemberOf
<1>5. MemberOf(e, s) \in MemberValue
  <2> DEFINE items == [n \in DOMAIN texts |-> CastWithSchemaPath(texts[n], s, path)]
  <2>1. items \in Seq(ScalarValue)
    <3>1. \A n \in DOMAIN texts : CastWithSchemaPath(texts[n], s, path) \in ScalarValue
      BY <1>1, <1>2, <1>3, Zenon
    <3>2. DOMAIN texts = 1 .. Len(texts) /\ Len(texts) \in Nat
      OBVIOUS
    <3> QED
      BY <3>1, <3>2
  <2>2. CastWithSchemaPath(texts[1], s, path) \in ScalarValue
    BY <1>1, <1>2, <1>3, Zenon
  <2> HIDE DEF items
  <2>3. Array(items) \in MemberValue /\ CastWithSchemaPath(texts[1], s, path) \in MemberValue
    BY <2>1, <2>2, MemberValues, Zenon
  <2> QED
    BY <1>4, <2>3, Zenon DEF items
<1>6. CASE "array" \in Types(leaf)
  <2>1. Types(leaf) = {"array"} /\ (HasItemsSchema(leaf) => ReadsOneWay(Schema[leaf].items))
    BY <1>6 DEF MemberReadsOneWay, ReadsOneWay
  <2> DEFINE items == [n \in DOMAIN texts |->
                         IF HasItemsSchema(leaf) THEN Typed(Schema[leaf].items, texts[n]) ELSE Cast(texts[n])]
  <2>2. items \in Seq(ScalarValue)
    <3>1. \A n \in DOMAIN texts :
            (IF HasItemsSchema(leaf) THEN Typed(Schema[leaf].items, texts[n]) ELSE Cast(texts[n])) \in ScalarValue
      BY <1>2, <1>3, <2>1, CastTyped, Zenon
    <3>2. DOMAIN texts = 1 .. Len(texts) /\ Len(texts) \in Nat
      OBVIOUS
    <3> QED
      BY <3>1, <3>2
  <2>3. MemberRead(s, path, texts) = Array(items)
    BY <1>6, Zenon DEF MemberRead
  <2> HIDE DEF items
  <2> QED
    BY <1>5, <1>6, <2>2, <2>3, MemberValues, Zenon
<1>7. CASE "array" \notin Types(leaf)
  <2>1. ReadsOneWay(leaf)
    BY <1>7, Zenon DEF MemberReadsOneWay
  <2>2. MemberRead(s, path, texts) = Typed(leaf, texts[1])
    BY <1>7, Zenon DEF MemberRead
  <2>3. Typed(leaf, texts[1]) \in ScalarValue
    BY <1>2, <2>1, CastTyped, Zenon
  <2> QED
    BY <1>5, <2>2, <2>3, MemberValues, Zenon
<1> QED
  BY <1>6, <1>7

\* A member of an object of several keys that fits its schema is what it is read as, but
\* for the kinds of numbers.
LEMMA MemberAlike ==
  ASSUME JsonSchema, NEW s \in Schemas, Types(s) = {"object"}, NEW path \in Seq(STRING), path # <<>>,
         MemberReadsOneWay(s, path), NEW e, PropertyPath(e) = path,
         e.values \in Seq(Seq(STRING)), e.values # <<>>,
         NEW v, v[path] = MemberOf(e, s), FitsAt(s, v, path),
         NEW w, w = MemberRead(s, path, e.values),
         w \in ScalarValue => IsExact(w),
         w.type = "array" => \A n \in DOMAIN w.items : IsExact(w.items[n])
  PROVE  SameMember(v[path], w)
<1> DEFINE leaf == SchemaAt(s, path)
           texts == e.values
<1>1. \A u : CastWithSchemaPath(u, s, path) = CastAs(leaf, u)
  BY CastAtPath, Zenon
<1>2. texts[1] \in Seq(STRING) /\ \A n \in DOMAIN texts : texts[n] \in Seq(STRING)
  OBVIOUS
<1>3. /\ DeepObjectAllowsMultipleValues(s, e) =>
           v[path] = Array([n \in DOMAIN texts |-> CastAs(leaf, texts[n])])
      /\ ~DeepObjectAllowsMultipleValues(s, e) => v[path] = CastAs(leaf, texts[1])
  <2>1. MemberOf(e, s) = IF DeepObjectAllowsMultipleValues(s, e)
                           THEN Array([n \in DOMAIN texts |-> CastWithSchemaPath(texts[n], s, path)])
                           ELSE CastWithSchemaPath(texts[1], s, path)
    BY Zenon DEF MemberOf
  <2>2. [n \in DOMAIN texts |-> CastWithSchemaPath(texts[n], s, path)] =
          [n \in DOMAIN texts |-> CastAs(leaf, texts[n])]
    BY <1>1, Zenon
  <2> QED
    BY <1>1, <2>1, <2>2, Zenon
<1>4. DeepObjectAllowsMultipleValues(s, e) <=>
        "array" \in Types(leaf) \/ "array" \in Types(Schema[s].additional)
  <2>1. s # None /\ "array" \notin Types(s)
    BY ParamLoopsAssumption
  <2> QED
    BY <2>1, Zenon DEF DeepObjectAllowsMultipleValues
<1>5. OfType(v[path], Types(leaf))
  BY Zenon DEF FitsAt
<1>6. CASE "array" \in Types(leaf)
  <2>1. Types(leaf) = {"array"} /\ (HasItemsSchema(leaf) => ReadsOneWay(Schema[leaf].items))
    BY <1>6 DEF MemberReadsOneWay, ReadsOneWay
  <2> DEFINE given == [n \in DOMAIN texts |-> CastAs(leaf, texts[n])]
             read == [n \in DOMAIN texts |->
                        IF HasItemsSchema(leaf) THEN Typed(Schema[leaf].items, texts[n]) ELSE Cast(texts[n])]
  <2>2. v[path] = Array(given) /\ w = Array(read)
    BY <1>3, <1>4, <1>6, Zenon DEF MemberRead
  <2>3. \A n \in DOMAIN texts : IsExact(read[n])
    <3>1. w.type = "array" /\ w.items = read /\ DOMAIN read = DOMAIN texts
      BY <2>2, ArrayFacts
    <3> QED
      BY <3>1
  <2>4. ASSUME NEW n \in DOMAIN texts
        PROVE  SameScalar(given[n], read[n])
    <3>1. CASE HasItemsSchema(leaf)
      <4> DEFINE items == Schema[leaf].items
      <4>1. given[n] = CastAs(items, texts[n]) /\ read[n] = Typed(items, texts[n])
        BY <2>1, <3>1, CastItems
      <4>2. OfType(given[n], Types(items))
        <5>1. v[path].type = "array" /\ v[path].items = given /\ Types(leaf) # {} /\ n \in DOMAIN given
          BY <2>1, <2>2, ArrayFacts
        <5> QED
          BY <3>1, <5>1, Zenon DEF FitsAt
      <4>3. ReadsOneWay(items)
        BY <2>1, <3>1
      <4> HIDE DEF given, read, items
      <4> QED
        BY <1>2, <2>3, <4>1, <4>2, <4>3, CastTyped, Zenon
    <3>2. CASE ~HasItemsSchema(leaf)
      <4>1. given[n] = read[n]
        BY <2>1, <3>2, CastItems
      <4> QED
        BY <4>1, Zenon DEF SameScalar
    <3> QED
      BY <3>1, <3>2
  <2>5. DOMAIN given = DOMAIN texts /\ DOMAIN read = DOMAIN texts
    OBVIOUS
  <2> HIDE DEF given, read
  <2> QED
    BY <2>2, <2>4, <2>5, ArrayFacts DEF SameMember
<1>7. CASE "array" \notin Types(leaf)
  <2>1. ReadsOneWay(leaf) /\ (Types(leaf) = {} => "array" \notin Types(Schema[s].additional))
    BY <1>7, Zenon DEF MemberReadsOneWay
  <2>2. ~DeepObjectAllowsMultipleValues(s, e)
    <3> SUFFICES ASSUME DeepObjectAllowsMultipleValues(s, e) PROVE FALSE
      OBVIOUS
    <3>1. v[path].type = "array" /\ Types(leaf) # {}
      BY <1>3, <1>4, <1>7, <2>1, ArrayFacts
    <3>2. "array" \notin Numeric
      BY DEF Numeric
    <3> QED
      BY <1>5, <1>7, <3>1, <3>2 DEF OfType
  <2>3. v[path] = CastAs(leaf, texts[1])
    BY <1>3, <2>2
  <2>4. w = Typed(leaf, texts[1])
    BY <1>7, Zenon DEF MemberRead
  <2>5. w \in ScalarValue
    BY <1>2, <2>1, <2>4, CastTyped, Zenon
  <2>6. SameScalar(v[path], w)
    BY <1>2, <1>5, <2>1, <2>3, <2>4, <2>5, CastTyped, Zenon
  <2> QED
    BY <2>6, Zenon DEF SameMember
<1> QED
  BY <1>6, <1>7

--------------------------------------------------------------------------------
(* What was sent for a parameter that nothing was reported of conforms.    *)

\* A parameter that is there and that nothing was reported of.
Judged(p) ==
  /\ task \in Tasks
  /\ p \in Range(task.params) /\ p.in = task.place
  /\ task.place = "query" => order \in SetToSeqs(DOMAIN task.sent)
  /\ Present(p) /\ FaultsOf(p, order) = {}

\* What the assumption says of a parameter.
LEMMA ParamFacts ==
  ASSUME task \in Tasks, NEW p \in Range(task.params)
  PROVE  /\ p.schema \in Schemas \cup {None} /\ p.content \in Schemas \cup {None}
         /\ p.name \in Seq(STRING) /\ p.name # <<>>
         /\ task.place \in Places /\ None \notin Schemas
BY ParamLoopsAssumption

\* Nothing is wrong if neither check finds anything.
LEMMA NoFaults ==
  /\ \A f, g : Then(f, g) = {} => f = {} /\ g = {}
  /\ \A s, v : AgainstSchema(s, v) = {} => Conforms(s, v)
BY DEF Then, AgainstSchema

\* The name of a parameter is its own key.
LEMMA OwnEntry ==
  ASSUME NEW p \in Range(task.params), p.in = "query"
  PROVE  /\ EntryOf(p.name).name = p.name /\ EntryOf(p.name).path = <<>>
         /\ EntryOf(p.name).values = task.sent[p.name]
<1> DEFINE literal == \E q \in Range(task.params) : q.in = "query" /\ q.name = p.name
           deep == ~literal /\ IsDeepObjectKey(p.name)
<1>1. ~deep
  OBVIOUS
<1> HIDE DEF deep
<1>2. EntryOf(p.name) = [name |-> IF deep THEN <<p.name[1]>> ELSE p.name,
                         path |-> IF deep THEN Tail(p.name) ELSE <<>>,
                         values |-> task.sent[p.name]]
  BY Zenon DEF EntryOf, deep
<1> QED
  BY <1>1, <1>2

\* No text of a parameter of the query was at fault as any of its types.
LEMMA QueryTextFits ==
  ASSUME NEW p, Judged(p), p.in = "query", SchemaOf(p) \in Schemas,
         NEW key \in DOMAIN task.sent, EntryOf(key).name = p.name, NEW t \in Range(task.sent[key]),
         NEW type \in Types(SchemaOf(p))
  PROVE  /\ QueryFaults(p, EntriesFor(p, order), t, type) = {}
         /\ StyleFaults(p, EntriesFor(p, order)) = {}
<1> DEFINE s == SchemaOf(p)
           L == Len(Schema[s].types)
           es == EntriesFor(p, order)
           E == Entries(p)
<1>1. /\ task \in Tasks /\ task.place = "query" /\ order \in SetToSeqs(DOMAIN task.sent)
      /\ FaultsOf(p, order) = {}
  BY DEF Judged
<1>2. Lists(es, p)
  BY <1>1, EntriesListed
<1>3. SentQueryFaults(p, es) = {}
  BY <1>1, Zenon DEF FaultsOf
<1> HIDE DEF es
<1>4. Schema[s].types \in Seq(STRING) /\ L \in Nat /\ DOMAIN Schema[s].types = 1..L
  <2>1. Schema[s].types \in Seq(STRING)
    BY <1>1, TaskFacts
  <2> QED
    BY <2>1
<1>5. es \in Seq(E) /\ Range(es) = E
  BY <1>2, Zenon DEF Lists
<1>6. DOMAIN es \subseteq Nat /\ \A e \in DOMAIN es : DOMAIN es[e].values \subseteq Nat
  <2>1. \A e \in E : e.values \in Seq(Seq(STRING))
    BY <1>1, PathFacts
  <2> HIDE DEF E
  <2>2. \A e \in DOMAIN es : es[e] \in E
    BY <1>5
  <2>3. \A e \in E : DOMAIN e.values \subseteq Nat
    BY <2>1
  <2> QED
    BY <1>5, <2>2, <2>3
<1>7. StyleFaults(p, es) = {} /\ \A x \in Positions(p, es) : FaultsAt(p, es, x) = {}
  BY <1>3, <1>4, <1>6, NothingSkipped
<1>8. PICK e \in DOMAIN es : es[e] = EntryOf(key)
  <2>1. EntryOf(key) \in E
    BY Zenon DEF Entries
  <2>2. EntryOf(key) \in Range(es)
    BY <1>5, <2>1, Zenon
  <2> QED
    BY <2>2, Zenon DEF Range
<1>9. EntryOf(key).values = task.sent[key]
  BY <1>1, EntryFacts
<1>10. PICK v \in DOMAIN es[e].values : es[e].values[v] = t
  BY <1>8, <1>9, Zenon DEF Range
<1>11. PICK y \in 1..L : Schema[s].types[y] = type
  <2>1. s # None
    BY <1>1, ParamLoopsAssumption
  <2>2. Types(s) = Range(Schema[s].types)
    BY <2>1, Zenon DEF Types
  <2> QED
    BY <1>4, <2>2, Zenon DEF Range
<1> DEFINE x == <<e, v, y>>
<1>12. y \in 0..L /\ y > 0
  BY <1>4
<1>13. x \in Positions(p, es)
  BY <1>12, PositionFacts, Zenon
<1>14. x[1] = e /\ x[2] = v /\ x[3] = y
  OBVIOUS
<1>15. FaultsAt(p, es, x) = QueryFaults(p, es, t, type)
  BY <1>10, <1>11, <1>12, <1>14, Zenon DEF FaultsAt
<1> QED
  BY <1>7, <1>13, <1>15, Zenon DEF es

\* A text that is one value conforms as that value.
LEMMA ScalarConforms ==
  ASSUME NEW p, Judged(p), HasScalar(p), NEW t \in TextsOf(p)
  PROVE  Conforms(SchemaOf(p), Typed(p.schema, t))
<1>1. /\ task \in Tasks /\ p \in Range(task.params) /\ p.in = task.place
      /\ Present(p) /\ FaultsOf(p, order) = {}
  BY DEF Judged
<1>2. /\ p.schema # None
      /\ p.in \in {"header", "cookie"} => Types(p.schema) = {"string"}
      /\ p.in = "path" => /\ Schema[p.schema].enum = None
                          /\ \A piece \in PiecesOf(p) : piece.form \in {"simple", p.style}
                          /\ Types(p.schema) = {"string"} => p.style \in {"", "simple"}
  BY DEF HasScalar
<1>3. PICK type \in {"string", "integer", "number"} : Types(p.schema) = {type}
  BY DEF HasScalar
<1>4. SchemaOf(p) = p.schema /\ p.schema \in Schemas
  BY <1>1, <1>2, ParamFacts DEF SchemaOf, ContentWrapped
<1>5. Typed(p.schema, t) = Scalar(type, t)
  BY <1>3, TypedAs
<1> SUFFICES Conforms(p.schema, Scalar(type, t))
  BY <1>4, <1>5
<1>6. CASE p.in = "query"
  <2>1. p.name \in DOMAIN task.sent /\ t \in Range(task.sent[p.name])
    BY <1>6, Zenon DEF TextsOf
  <2>2. QueryFaults(p, EntriesFor(p, order), t, type) = {}
    BY <1>1, <1>3, <1>4, <1>6, <2>1, OwnEntry, QueryTextFits
  <2>3. QueryFaults(p, EntriesFor(p, order), t, type) =
          Then(ParseFaults(t, type), Then(EnumFaults(p.schema, t), AgainstSchema(p.schema, Scalar(type, t))))
    BY <1>4, Zenon DEF QueryFaults
  <2> QED
    BY <2>2, <2>3, NoFaults
<1>7. CASE p.in = "header"
  <2>1. t = HeaderText(p.name)
    BY <1>7, Zenon DEF TextsOf
  <2>2. type = "string"
    BY <1>2, <1>3, <1>7
  <2>3. SentHeaderFaults(p) = {}
    BY <1>1, <1>7, Zenon DEF FaultsOf
  <2>4. SentHeaderFaults(p) = UNION {HeaderFaults(p, t, k) : k \in Types(p.schema)}
    BY <1>3, <2>1 DEF SentHeaderFaults
  <2>5. HeaderFaults(p, t, "string") = {}
    BY <1>3, <2>2, <2>3, <2>4
  <2>6. TextFaults(p, t, "string") = {}
    BY <2>5 DEF HeaderFaults
  <2>7. TextFaults(p, t, "string") = Then(EnumFaults(p.schema, t), AgainstSchema(p.schema, Scalar("string", t)))
    BY Zenon DEF TextFaults
  <2> QED
    BY <2>2, <2>6, <2>7, NoFaults
<1>8. CASE p.in = "cookie"
  <2>1. t = CookieText(p.name)
    BY <1>8, Zenon DEF TextsOf
  <2>2. type = "string"
    BY <1>2, <1>3, <1>8
  <2>3. SentCookieFaults(p) = {}
    BY <1>1, <1>8, Zenon DEF FaultsOf
  <2>4. TextFaults(p, t, "string") = {}
    BY <1>3, <2>1, <2>2, <2>3 DEF SentCookieFaults
  <2>5. TextFaults(p, t, "string") = Then(EnumFaults(p.schema, t), AgainstSchema(p.schema, Scalar("string", t)))
    BY Zenon DEF TextFaults
  <2> QED
    BY <2>2, <2>4, <2>5, NoFaults
<1>9. CASE p.in = "path"
  <2>1. PICK piece \in PiecesOf(p) : piece.text # <<>> /\ t = ScalarText(p, piece)
    BY <1>9, Zenon DEF TextsOf
  <2>2. FaultsOf(p, order) = UNION {PieceFaults(p, q) : q \in PiecesOf(p)}
    BY <1>1, <1>9, Zenon DEF FaultsOf
  <2>3. PieceFaults(p, piece) = {}
    BY <1>1, <2>2, Zenon
  <2>4. PathFaults(p, piece, type) = {}
    BY <1>3, <2>1, <2>3 DEF PieceFaults
  <2>5. \A u : EnumOrSchema(p.schema, u, type) = AgainstSchema(p.schema, Scalar(type, u))
    BY <1>2, <1>9 DEF EnumOrSchema
  <2>6. CASE type = "string"
    <3>1. PathFaults(p, piece, "string") = EnumOrSchema(p.schema, piece.text, "string")
      BY DEF PathFaults
    <3>2. p.style \in {"", "simple"} /\ piece.form \in {"simple", p.style}
      BY <1>2, <1>3, <1>9, <2>6
    <3>3. Bare(p, piece.form, piece.text) = piece.text
      BY <3>2, Zenon DEF Bare
    <3>4. t = piece.text
      BY <2>1, <3>3 DEF ScalarText
    <3> QED
      BY <2>4, <2>5, <2>6, <3>1, <3>4, NoFaults
  <2>7. CASE type # "string"
    <3>1. \A k \in {"integer", "number"} :
            PathFaults(p, piece, k) = Then(ParseFaults(t, k), EnumOrSchema(p.schema, t, k))
      BY <2>1 DEF PathFaults
    <3> QED
      BY <2>4, <2>5, <2>7, <3>1, NoFaults
  <2> QED
    BY <2>6, <2>7
<1> QED
  BY <1>1, <1>6, <1>7, <1>8, <1>9, ParamFacts DEF Places

\* What is sent under the name of a query parameter.
LEMMA QueryText ==
  ASSUME NEW p, Judged(p), p.in = "query", NEW t \in TextsOf(p)
  PROVE  /\ p.name \in DOMAIN task.sent /\ t \in Range(task.sent[p.name])
         /\ EntryOf(p.name).name = p.name
<1>1. p.name \in DOMAIN task.sent /\ t \in Range(task.sent[p.name])
  BY Zenon DEF TextsOf
<1> QED
  BY <1>1, OwnEntry DEF Judged

\* JSON that is an object conforms.
LEMMA JsonConforms ==
  ASSUME NEW p, Judged(p), HasJson(p), NEW t \in TextsOf(p), IsHeld(Json(t))
  PROVE  Conforms(SchemaOf(p), Json(t))
<1>1. /\ task \in Tasks /\ p \in Range(task.params)
  BY DEF Judged
<1>2. /\ ContentWrapped(p) /\ p.in = "query" /\ p.style \in {"", "form"}
      /\ Types(p.content) = {"object"} /\ SchemaOf(p) = p.content
  BY DEF HasJson, SchemaOf
<1>3. p.content \in Schemas
  BY <1>1, <1>2, ParamFacts DEF Types
<1>4. p.name \in DOMAIN task.sent /\ t \in Range(task.sent[p.name]) /\ EntryOf(p.name).name = p.name
  BY <1>2, QueryText
<1>5. QueryFaults(p, EntriesFor(p, order), t, "object") = {}
  BY <1>2, <1>3, <1>4, QueryTextFits
<1>6. QueryFaults(p, EntriesFor(p, order), t, "object") = QueryObjectFaults(p, EntriesFor(p, order), t)
  BY Zenon DEF QueryFaults
<1>7. QueryObjectFaults(p, EntriesFor(p, order), t) = JsonFaults(p.content, t)
  BY <1>2 DEF QueryObjectFaults
<1>8. /\ Json(t) # None /\ Json(t).type = "object"
      /\ AgainstObject(p.content, Json(t).members) = {}
  <2>1. Json(t) # Null
    BY Zenon DEF IsHeld
  <2>2. JsonFaults(p.content, t) = {}
    BY <1>5, <1>6, <1>7
  <2> QED
    BY <2>1, <2>2 DEF JsonFaults
<1>9. Json(t) = Object(Json(t).members)
  <2>1. task.sent[p.name] \in Range(task.sent)
    BY <1>4, Zenon DEF Range
  <2> QED
    BY <1>1, <1>4, <1>8, <2>1, ParamLoopsAssumption
<1>10. /\ DOMAIN Json(t).members # {}
       /\ EmptyKey \in DOMAIN Json(t).members => Json(t).members[EmptyKey] # Empty
  BY <1>8, Zenon DEF IsHeld
<1>11. Conforms(p.content, Object(Json(t).members))
  BY <1>8, <1>10, Held, Zenon
<1> QED
  BY <1>2, <1>9, <1>11, Zenon

\* A list conforms as the array of its words.
LEMMA ArrayConforms ==
  ASSUME NEW p, Judged(p), HasArray(p), NEW t \in TextsOf(p)
  PROVE  Conforms(SchemaOf(p), ArrayRead(p.schema, t))
<1> DEFINE s == p.schema
           items == Schema[s].items
           words == WordsOf(t)
<1>1. task \in Tasks /\ p \in Range(task.params)
  BY DEF Judged
<1>2. /\ p.in = "query" /\ s # None /\ Types(s) = {"array"} /\ HasItemsSchema(s)
      /\ p.style \in {"", "form"} /\ IsList(t) /\ IsPlainArray(s, t)
  BY Zenon DEF HasArray
<1>3. PICK type \in {"string", "integer", "number"} : Types(items) = {type}
  BY DEF HasArray
<1>4. SchemaOf(p) = s /\ s \in Schemas /\ ~ContentWrapped(p)
  BY <1>1, <1>2, ParamFacts DEF SchemaOf, ContentWrapped
<1>5. p.name \in DOMAIN task.sent /\ t \in Range(task.sent[p.name]) /\ EntryOf(p.name).name = p.name
  BY <1>2, QueryText
<1>6. t \in Seq(STRING)
  <2>1. task.sent[p.name] \in Seq(Seq(STRING))
    BY <1>1, <1>5, TaskFacts
  <2> QED
    BY <1>5, <2>1 DEF Range
<1>7. QueryFaults(p, EntriesFor(p, order), t, "array") = {}
  BY <1>2, <1>4, <1>5, QueryTextFits
<1>8. QueryItems(p, t) = words
  <2>1. Split(t, ",") = words
    BY <1>2, <1>6, ListFacts, Zenon
  <2>2. Delimiter(p.style) = ","
    <3>1. p.style # "spaceDelimited" /\ p.style # "pipeDelimited"
      BY <1>2
    <3> QED
      BY <3>1, Zenon DEF Delimiter
  <2>3. ExplodeQueryValue(t, p.style) = words
    BY <2>1, <2>2, Zenon DEF ExplodeQueryValue
  <2> QED
    BY <1>2, <1>4, <2>3 DEF QueryItems
<1>9. QueryArrayFaults(s, words) = {}
  <2>1. QueryFaults(p, EntriesFor(p, order), t, "array") = QueryArrayFaults(s, QueryItems(p, t))
    BY <1>2, <1>4, Zenon DEF QueryFaults
  <2> QED
    BY <1>7, <1>8, <2>1, Zenon
<1> HIDE DEF words, items
<1>10. ItemsFaults(items, words) = {} /\ LengthFaults(s, words) = {}
  BY <1>9 DEF QueryArrayFaults, items
<1>11. TypeOf(items) = type
  BY <1>3, TypedAs
<1>12. ASSUME NEW n \in DOMAIN words
       PROVE  ParseFaults(words[n], TypeOf(items)) = {} /\ EnumFaults(items, words[n]) = {}
  <2>1. QueryItemFaults(items, words[n], type) = {}
    BY <1>3, <1>10 DEF ItemsFaults
  <2>2. QueryItemFaults(items, words[n], type) = Then(ParseFaults(words[n], type), EnumFaults(items, words[n]))
    BY Zenon DEF QueryItemFaults
  <2> QED
    BY <1>11, <2>1, <2>2, NoFaults
<1>13. /\ \A n \in DOMAIN words :
            ParseFaults(words[n], TypeOf(items)) = {} /\ EnumFaults(items, words[n]) = {} =>
              Conforms(items, Typed(items, words[n]))
       /\ (\A n \in DOMAIN words : Conforms(items, Typed(items, words[n]))) /\ LengthFaults(s, words) = {} =>
            Conforms(s, ArrayRead(s, t))
  BY <1>2, Zenon DEF IsPlainArray, words, items
<1> QED
  BY <1>4, <1>10, <1>12, <1>13, Zenon

\* An object that is not exploded has one entry.
LEMMA OneKey ==
  ASSUME NEW p, Judged(p), p.in = "query", DeepKeys(p) = {}, p.name \in DOMAIN task.sent
  PROVE  Last(EntriesFor(p, order)).values = task.sent[p.name]
<1> DEFINE es == EntriesFor(p, order)
<1>1. /\ task \in Tasks /\ p \in Range(task.params) /\ order \in SetToSeqs(DOMAIN task.sent)
  BY DEF Judged
<1>2. Lists(es, p)
  BY <1>1, EntriesListed
<1> HIDE DEF es
<1>3. EntryOf(p.name).name = p.name /\ EntryOf(p.name).values = task.sent[p.name]
  BY <1>1, OwnEntry
<1>4. ASSUME NEW key \in DOMAIN task.sent, EntryOf(key).name = p.name
      PROVE  key = p.name
  <2> DEFINE literal == \E q \in Range(task.params) : q.in = "query" /\ q.name = key
             deep == ~literal /\ IsDeepObjectKey(key)
  <2>1. EntryOf(key) = [name |-> IF deep THEN <<key[1]>> ELSE key,
                        path |-> IF deep THEN Tail(key) ELSE <<>>,
                        values |-> task.sent[key]]
    BY Zenon DEF EntryOf
  <2>2. deep => IsDeepObjectKey(key)
    OBVIOUS
  <2> HIDE DEF deep
  <2>3. CASE ~deep
    BY <1>4, <2>1, <2>3
  <2>4. CASE deep
    <3>1. p.name = <<key[1]>>
      BY <1>4, <2>1, <2>4
    <3>2. key \in Seq(STRING) /\ Len(key) > 1
      BY <1>1, <2>2, <2>4, TaskFacts DEF IsDeepObjectKey
    <3>3. IsStrictPrefix(p.name, key)
      <4>1. Len(p.name) = 1
        BY <3>1
      <4>3. p.name # key
        <5> SUFFICES ASSUME p.name = key PROVE FALSE
          OBVIOUS
        <5>1. Len(key) = 1
          BY <4>1, Zenon
        <5> QED
          BY <3>2, <5>1
      <4>2. SubSeq(p.name, 1, 1) = SubSeq(key, 1, 1)
        BY <3>1, <3>2
      <4> QED
        BY <3>2, <4>1, <4>2, <4>3 DEF IsStrictPrefix, IsPrefix
    <3>4. key \in DeepKeys(p)
      BY <2>2, <2>4, <3>3 DEF DeepKeys
    <3> QED
      BY <3>4
  <2> QED
    BY <2>3, <2>4
<1>5. es \in Seq(Entries(p)) /\ Range(es) = Entries(p)
  BY <1>2, Zenon DEF Lists
<1>6. EntryOf(p.name) \in Entries(p) /\ \A e \in Entries(p) : e = EntryOf(p.name)
  BY <1>3, <1>4, Zenon DEF Entries
<1> HIDE DEF Entries
<1>7. Len(es) >= 1
  <2>1. es # <<>>
    BY <1>5, <1>6 DEF Range
  <2> QED
    BY <1>5, <2>1
<1>8. Last(es) \in Entries(p)
  BY <1>5, <1>7 DEF Last
<1> QED
  BY <1>3, <1>6, <1>8 DEF es

\* The object in one text conforms.
LEMMA ListObjectConforms ==
  ASSUME JsonSchema, NEW p, Judged(p), HasListObject(p), NEW t \in TextsOf(p),
         IsHeld(ListObjectRead(p.schema, t)), IsCastExactly(ListObjectRead(p.schema, t))
  PROVE  Conforms(SchemaOf(p), ListObjectRead(p.schema, t))
<1> DEFINE s == p.schema
<1>1. /\ task \in Tasks /\ p \in Range(task.params) /\ p.in = task.place
      /\ FaultsOf(p, order) = {}
  BY DEF Judged
<1>2. /\ s # None /\ Types(s) = {"object"}
      /\ \/ p.in \in {"header", "cookie"} /\ IsDefaultSimpleEncoding(p)
         \/ /\ p.in = "query" /\ p.style = "form" /\ p.explode = "no" /\ DeepKeys(p) = {}
            /\ p.name \in DOMAIN task.sent => Len(task.sent[p.name]) = 1
      /\ IsList(t) /\ Len(t) % 4 = 3
      /\ \A n \in DOMAIN t : n % 4 = 1 => ReadsOneWay(SchemaAt(s, <<t[n]>>))
  BY Zenon DEF HasListObject
<1>3. SchemaOf(p) = s /\ s \in Schemas /\ ~ContentWrapped(p)
  BY <1>1, <1>2, ParamFacts DEF SchemaOf, ContentWrapped
<1>4. t \in Seq(STRING) /\ (p.in = "query" => t \in Range(task.sent[p.name]) /\ p.name \in DOMAIN task.sent)
  <2>1. p.in = "query" => t \in Range(task.sent[p.name]) /\ p.name \in DOMAIN task.sent
    BY QueryText
  <2>2. \A name \in DOMAIN task.sent :
          /\ task.sent[name] \in Seq(Seq(STRING)) /\ task.sent[name] # <<>>
    BY <1>1, TaskFacts
  <2>3. \A name \in DOMAIN task.sent :
          /\ \A u \in Range(task.sent[name]) : u \in Seq(STRING)
          /\ task.sent[name][1] \in Seq(STRING) /\ Last(task.sent[name]) \in Seq(STRING)
    BY <2>2 DEF Range, Last
  <2>4. CASE p.in = "query"
    BY <2>1, <2>3, <2>4
  <2>5. CASE p.in = "header"
    <3>1. t = HeaderText(p.name) /\ t # <<>>
      BY <2>5, Zenon DEF TextsOf
    <3> QED
      BY <2>3, <2>5, <3>1 DEF HeaderText
  <2>6. CASE p.in = "cookie"
    <3>1. p.name \in DOMAIN task.sent /\ t = CookieText(p.name)
      BY <2>6, Zenon DEF TextsOf
    <3> QED
      BY <2>3, <2>6, <3>1 DEF CookieText
  <2> QED
    BY <1>2, <2>4, <2>5, <2>6
<1>5. AgainstObject(s, Alternating(t, ",", s)) = {}
  <2>1. CASE p.in = "header" /\ IsDefaultSimpleEncoding(p)
    <3>1. t = HeaderText(p.name)
      BY <2>1, Zenon DEF TextsOf
    <3>2. SentHeaderFaults(p) = {}
      BY <1>1, <2>1, Zenon DEF FaultsOf
    <3>3. HeaderFaults(p, t, "object") = {}
      BY <1>2, <3>1, <3>2 DEF SentHeaderFaults
    <3>4. AgainstObject(s, HeaderObject(p, t)) = {}
      BY <3>3 DEF HeaderFaults, HeaderObjectFaults
    <3>5. HeaderObject(p, t) = Alternating(t, ",", s)
      <4>1. ~IsExploded(p)
        BY <2>1 DEF IsDefaultSimpleEncoding, IsExploded
      <4> QED
        BY <2>1, <4>1, Zenon DEF HeaderObject
    <3> QED
      BY <3>4, <3>5, Zenon
  <2>2. CASE p.in = "cookie" /\ IsDefaultSimpleEncoding(p)
    <3>1. t = CookieText(p.name)
      BY <2>2, Zenon DEF TextsOf
    <3>2. SentCookieFaults(p) = {}
      BY <1>1, <2>2, Zenon DEF FaultsOf
    <3>3. CookieObjectFaults(p, t) = {}
      BY <1>2, <3>1, <3>2 DEF SentCookieFaults
    <3>4. ~IsExploded(p)
      BY <2>2 DEF IsDefaultSimpleEncoding, IsExploded
    <3> QED
      BY <3>3, <3>4, Zenon DEF CookieObjectFaults
  <2>3. CASE /\ p.in = "query" /\ p.style = "form" /\ p.explode = "no" /\ DeepKeys(p) = {}
             /\ p.name \in DOMAIN task.sent => Len(task.sent[p.name]) = 1
    <3> DEFINE es == EntriesFor(p, order)
    <3>1. QueryFaults(p, es, t, "object") = {}
      BY <1>2, <1>3, <1>4, <2>3, OwnEntry, QueryText, QueryTextFits
    <3>2. QueryFaults(p, es, t, "object") = QueryObjectFaults(p, es, t)
      BY Zenon DEF QueryFaults
    <3>3. QueryObjectFaults(p, es, t) = AgainstObject(s, OneTextObject(es, "form", s))
      BY <1>3, <2>3 DEF QueryObjectFaults
    <3>4. Last(es).values = task.sent[p.name]
      BY <1>4, <2>3, OneKey
    <3>5. task.sent[p.name][1] = t
      <4>1. task.sent[p.name] \in Seq(Seq(STRING)) /\ Len(task.sent[p.name]) = 1
        BY <1>1, <1>4, <2>3, TaskFacts
      <4> QED
        BY <1>4, <2>3, <4>1 DEF Range
    <3>6. Delimiter("form") = ","
      BY Zenon DEF Delimiter
    <3>7. OneTextObject(es, "form", s) = Alternating(t, ",", s)
      BY <3>4, <3>5, <3>6, Zenon DEF OneTextObject
    <3> QED
      BY <3>1, <3>2, <3>3, <3>7, Zenon
  <2> QED
    BY <1>2, <2>1, <2>2, <2>3, Zenon
<1>6. PICK h \in Nat : Len(t) = 4 * h - 1
  <2>1. Len(t) \in Nat
    BY <1>4
  <2> QED
    BY <1>2, <2>1, Quarters
<1>7. Split(t, ",") = [n \in 1 .. 2 * h |-> <<t[2 * n - 1]>>]
  <2>1. PICK m \in Nat : /\ Len(t) = 2 * m - 1
                         /\ Split(t, ",") = [n \in 1 .. m |-> <<t[2 * n - 1]>>]
    BY <1>2, <1>4, ListFacts, Zenon
  <2>2. \A k \in Nat : Len(t) = 2 * k - 1 => k = 2 * h
    BY <1>6
  <2> QED
    BY <2>1, <2>2, Zenon
<1> DEFINE first == {n \in DOMAIN t : n % 4 = 1}
           w == [key \in KeysOf(t, first) |-> Typed(SchemaAt(s, key), TextAt(t, first, key))]
<1>8. ListObjectRead(s, t) = Object(w)
  BY Zenon DEF ListObjectRead, KeysOf, TextAt
<1>9. first = {4 * k - 3 : k \in 1 .. h}
  BY <1>4, <1>6, FirstIs
<1>10. \A n \in first : ReadsOneWay(SchemaAt(s, <<t[n]>>))
  BY <1>2, Zenon
<1> HIDE DEF first
<1>11. IsHeld(Object(w)) /\ IsCastExactly(Object(w))
  BY <1>8, Zenon
<1>12. ListOf(t, ",", h, first)
  BY <1>4, <1>6, <1>7, <1>9, Zenon DEF ListOf
<1>13. Alternating(t, ",", s) =
         [key \in KeysOf(t, first) |-> CastAs(SchemaAt(s, key), TextAt(t, first, key))]
  <2>1. Types(s) = {"object"}
    BY <1>2
  <2> QED
    <3>1. \A d : ListOf(t, d, h, first) =>
                   Alternating(t, d, s) =
                     [key \in KeysOf(t, first) |-> CastAs(SchemaAt(s, key), TextAt(t, first, key))]
      BY <2>1, AlternatingOf
    <3> QED
      BY <1>12, <3>1, Zenon
<1>14. w = [key \in KeysOf(t, first) |-> Typed(SchemaAt(s, key), TextAt(t, first, key))]
  BY Zenon
<1> HIDE DEF w
<1>15. Conforms(s, Object(w))
  BY <1>3, <1>5, <1>10, <1>11, <1>12, <1>13, <1>14, ListAlike, Zenon
<1> QED
  BY <1>3, <1>8, <1>15, Zenon

\* The keys whose entries have the name of a parameter with one word are those of
\* its members, unless a parameter has one of them as its name.
LEMMA DeepEntries ==
  ASSUME task \in Tasks, NEW p, HasDeepObject(p), p.name \in Seq(STRING), NEW key \in DOMAIN task.sent
  PROVE  /\ EntryOf(key).name = p.name <=> key \in DeepKeys(p)
         /\ key \in DeepKeys(p) =>
              /\ EntryOf(key).path = Tail(key) /\ key = p.name \o Tail(key)
              /\ Tail(key) \in Seq(STRING) /\ Tail(key) # <<>> /\ NoWord \notin Range(Tail(key))
<1> DEFINE literal == \E q \in Range(task.params) : q.in = "query" /\ q.name = key
           deep == ~literal /\ IsDeepObjectKey(key)
<1>1. EntryOf(key) = [name |-> IF deep THEN <<key[1]>> ELSE key,
                      path |-> IF deep THEN Tail(key) ELSE <<>>,
                      values |-> task.sent[key]]
  BY Zenon DEF EntryOf
<1>2. /\ Len(p.name) = 1 /\ p.name \notin DOMAIN task.sent
      /\ \A q \in Range(task.params) : q.in = "query" => q.name \notin DeepKeys(p)
  BY DEF HasDeepObject
<1>3. key \in Seq(STRING) /\ p.name = <<p.name[1]>>
  BY <1>2, TaskFacts, OneItem
<1>4. deep => IsDeepObjectKey(key)
  OBVIOUS
<1>5. key \in DeepKeys(p) => deep
  <2>1. key \in DeepKeys(p) => IsDeepObjectKey(key)
    BY DEF DeepKeys
  <2> QED
    BY <1>2, <2>1, Zenon
<1>6. IsDeepObjectKey(key) => Len(key) > 1 /\ NoWord \notin Range(Tail(key))
  BY DEF IsDeepObjectKey
<1> HIDE DEF deep
<1>7. ASSUME EntryOf(key).name = p.name PROVE key \in DeepKeys(p)
  <2>1. deep
    <3> SUFFICES ASSUME ~deep PROVE FALSE
      OBVIOUS
    <3>1. EntryOf(key).name = key
      BY <1>1
    <3> QED
      BY <1>2, <1>7, <3>1
  <2>2. p.name = <<key[1]>>
    BY <1>1, <1>7, <2>1
  <2>3. Len(key) > 1
    BY <1>4, <1>6, <2>1
  <2>4. IsStrictPrefix(p.name, key)
    <3>1. p.name # key
      BY <1>2
    <3>2. SubSeq(p.name, 1, 1) = SubSeq(key, 1, 1)
      BY <1>3, <2>2, <2>3
    <3> QED
      BY <1>2, <1>3, <2>3, <3>1, <3>2 DEF IsStrictPrefix, IsPrefix
  <2> QED
    BY <1>4, <2>1, <2>4 DEF DeepKeys
<1>8. ASSUME key \in DeepKeys(p)
      PROVE  /\ EntryOf(key).name = p.name /\ EntryOf(key).path = Tail(key) /\ key = p.name \o Tail(key)
             /\ Tail(key) \in Seq(STRING) /\ Tail(key) # <<>> /\ NoWord \notin Range(Tail(key))
  <2>1. deep /\ Len(key) > 1 /\ NoWord \notin Range(Tail(key))
    BY <1>4, <1>5, <1>6, <1>8
  <2>2. IsPrefix(p.name, key)
    BY <1>8 DEF DeepKeys, IsStrictPrefix
  <2>3. SubSeq(p.name, 1, 1) = SubSeq(key, 1, 1)
    BY <1>2, <2>2 DEF IsPrefix
  <2>4. p.name[1] = key[1]
    <3>1. SubSeq(p.name, 1, 1) = <<p.name[1]>> /\ SubSeq(key, 1, 1) = <<key[1]>>
      BY <1>2, <1>3, <2>1, OneOf
    <3> QED
      BY <2>3, <3>1
  <2>5. p.name = <<key[1]>>
    BY <1>3, <2>4
  <2>6. EntryOf(key).name = p.name /\ EntryOf(key).path = Tail(key)
    BY <1>1, <2>1, <2>5
  <2>7. key = <<key[1]>> \o Tail(key) /\ Tail(key) \in Seq(STRING) /\ Tail(key) # <<>>
    BY <1>3, <2>1
  <2> QED
    BY <2>1, <2>5, <2>6, <2>7
<1> QED
  BY <1>7, <1>8

\* The object that the entries of a parameter make.
IsObjectOf(v, p, s) ==
  /\ DOMAIN v = {PropertyPath(e) : e \in Entries(p)} /\ IsMap(v)
  /\ \A e \in Entries(p) : v[PropertyPath(e)] = MemberOf(e, s)

\* It is what ConstructParamMapFromDeepObjectEncoding returns.
LEMMA ObjectOfEntries ==
  ASSUME task \in Tasks, NEW p, NEW es, Lists(es, p), ~DeepObjectPathConflict(es), NEW s
  PROVE  IsObjectOf(DeepObject(es, s), p, s)
BY DeepObjectIs, Zenon DEF IsObjectOf

\* The object of several keys conforms.
LEMMA DeepObjectConforms ==
  ASSUME JsonSchema, NEW p, Judged(p), HasDeepObject(p), DeepKeys(p) # {},
         IsHeld(DeepObjectRead(p)), IsCastExactly(DeepObjectRead(p))
  PROVE  Conforms(SchemaOf(p), DeepObjectRead(p))
<1> DEFINE s == p.schema
           es == EntriesFor(p, order)
           v == DeepObject(es, s)
           K == {Tail(key) : key \in DeepKeys(p)}
           w == [path \in K |-> MemberRead(s, path, task.sent[p.name \o path])]
<1>1. /\ task \in Tasks /\ p \in Range(task.params) /\ p.in = task.place
      /\ p.in = "query" /\ order \in SetToSeqs(DOMAIN task.sent)
  BY DEF Judged, HasDeepObject
<1>2. /\ p.style = "deepObject" /\ s # None /\ Types(s) = {"object"}
      /\ \A key \in DeepKeys(p) : MemberReadsOneWay(s, Tail(key))
  BY Zenon DEF HasDeepObject
<1>3. SchemaOf(p) = s /\ s \in Schemas /\ p.name \in Seq(STRING)
  BY <1>1, <1>2, ParamFacts DEF SchemaOf, ContentWrapped
<1>4. DeepKeys(p) \subseteq DOMAIN task.sent
  BY DEF DeepKeys
<1>5. \A key \in DOMAIN task.sent :
        /\ EntryOf(key).name = p.name <=> key \in DeepKeys(p)
        /\ key \in DeepKeys(p) =>
             /\ EntryOf(key).path = Tail(key) /\ key = p.name \o Tail(key)
             /\ Tail(key) \in Seq(STRING) /\ Tail(key) # <<>> /\ NoWord \notin Range(Tail(key))
  BY <1>1, <1>3, DeepEntries
<1>6. \A key \in DOMAIN task.sent :
        task.sent[key] \in Seq(Seq(STRING)) /\ task.sent[key] # <<>> /\ EntryOf(key).values = task.sent[key]
  BY <1>1, TaskFacts, EntryFacts
<1>7. AgainstObject(s, v) = {} /\ StyleFaults(p, es) = {}
  <2>1. PICK key \in DeepKeys(p) : TRUE
    OBVIOUS
  <2>2. key \in DOMAIN task.sent /\ EntryOf(key).name = p.name
    BY <1>4, <1>5, <2>1
  <2>3. task.sent[key][1] \in Range(task.sent[key])
    <3>1. 1 \in DOMAIN task.sent[key]
      BY <1>6, <2>2
    <3> QED
      BY <3>1, Zenon DEF Range
  <2> DEFINE t == task.sent[key][1]
  <2>4. "object" \in Types(SchemaOf(p))
    BY <1>2, <1>3
  <2>5. QueryFaults(p, es, t, "object") = {} /\ StyleFaults(p, es) = {}
    BY <1>1, <1>3, <2>2, <2>3, <2>4, QueryTextFits
  <2> HIDE DEF t
  <2>6. QueryFaults(p, es, t, "object") = QueryObjectFaults(p, es, t)
    BY Zenon DEF QueryFaults
  <2>7. QueryObjectFaults(p, es, t) = AgainstObject(s, v)
    BY <1>2, <1>3 DEF QueryObjectFaults
  <2> QED
    BY <2>5, <2>6, <2>7, Zenon
<1>8. ~DeepObjectPathConflict(es)
  BY <1>2, <1>7 DEF StyleFaults
<1>9. Lists(es, p)
  BY <1>1, EntriesListed
<1> HIDE DEF es
<1>10. /\ DOMAIN v = {PropertyPath(e) : e \in Entries(p)} /\ IsMap(v)
       /\ \A e \in Entries(p) : v[PropertyPath(e)] = MemberOf(e, s)
  <2>1. IsObjectOf(v, p, s)
    BY <1>1, <1>8, <1>9, ObjectOfEntries
  <2> QED
    BY <2>1, Zenon DEF IsObjectOf
<1> HIDE DEF v
<1>11. \A key \in DeepKeys(p) :
         EntryOf(key) \in Entries(p) /\ PropertyPath(EntryOf(key)) = Tail(key)
  BY <1>4, <1>5 DEF Entries, PropertyPath
<1>12. \A e \in Entries(p) : \E key \in DeepKeys(p) : e = EntryOf(key)
  BY <1>5, Zenon DEF Entries
<1>13. DOMAIN v = K
  <2>1. \A e \in Entries(p) : PropertyPath(e) \in K
    <3>1. \A key \in DeepKeys(p) : PropertyPath(EntryOf(key)) \in K
      BY <1>11
    <3> QED
      BY <1>12, <3>1, Zenon
  <2>2. \A key \in DeepKeys(p) : Tail(key) \in DOMAIN v
    BY <1>10, <1>11, Zenon
  <2>3. \A path \in K : path \in DOMAIN v
    BY <2>2
  <2> HIDE DEF K
  <2>4. \A path \in DOMAIN v : path \in K
    BY <1>10, <2>1, Zenon
  <2> QED
    BY <2>3, <2>4
<1>14. \A key \in DeepKeys(p) :
         /\ v[Tail(key)] = MemberOf(EntryOf(key), s)
         /\ w[Tail(key)] = MemberRead(s, Tail(key), EntryOf(key).values)
  <2> SUFFICES ASSUME NEW key \in DeepKeys(p)
               PROVE  /\ v[Tail(key)] = MemberOf(EntryOf(key), s)
                      /\ w[Tail(key)] = MemberRead(s, Tail(key), EntryOf(key).values)
    OBVIOUS
  <2>1. v[Tail(key)] = MemberOf(EntryOf(key), s)
    BY <1>10, <1>11
  <2>2. task.sent[p.name \o Tail(key)] = EntryOf(key).values
    <3>1. p.name \o Tail(key) = key
      BY <1>4, <1>5
    <3> QED
      BY <1>4, <1>6, <3>1
  <2>3. Tail(key) \in K
    OBVIOUS
  <2>4. w[Tail(key)] = MemberRead(s, Tail(key), task.sent[p.name \o Tail(key)])
    BY <2>3
  <2> QED
    BY <2>1, <2>2, <2>4
<1>15. DeepObjectRead(p) = Object(w)
  BY Zenon DEF DeepObjectRead
<1>16. DOMAIN w = K /\ IsMap(w)
  BY DEF IsMap
<1> HIDE DEF w
<1>17. ASSUME NEW key \in DeepKeys(p)
       PROVE  /\ v[Tail(key)] \in MemberValue /\ w[Tail(key)] \in MemberValue
              /\ Tail(key) \in Seq(STRING) /\ Tail(key) # EmptyKey
              /\ FitsAt(s, v, Tail(key)) => SameMember(v[Tail(key)], w[Tail(key)])
  <2> DEFINE e == EntryOf(key)
             path == Tail(key)
  <2>1. /\ path \in Seq(STRING) /\ path # <<>> /\ NoWord \notin Range(path)
        /\ PropertyPath(e) = path /\ e.values \in Seq(Seq(STRING)) /\ e.values # <<>>
        /\ MemberReadsOneWay(s, path)
    BY <1>2, <1>4, <1>5, <1>6, <1>11
  <2>2. v[path] = MemberOf(e, s) /\ w[path] = MemberRead(s, path, e.values)
    BY <1>14
  <2>3. path # EmptyKey
    <3>1. NoWord \in Range(EmptyKey)
      BY DEF EmptyKey, Range
    <3> QED
      BY <2>1, <3>1
  <2>4. path \in DOMAIN w
    BY <1>16
  <2>5. /\ w[path] \in ScalarValue => IsExact(w[path])
        /\ w[path].type = "array" => \A n \in DOMAIN w[path].items : IsExact(w[path].items[n])
    BY <1>15, <2>4, HeldMembers
  <2> HIDE DEF e, path
  <2>6. v[path] \in MemberValue /\ w[path] \in MemberValue
    BY <1>2, <2>1, <2>2, MemberTyped
  <2>7. FitsAt(s, v, path) => SameMember(v[path], w[path])
    BY <1>2, <1>3, <2>1, <2>2, <2>5, MemberAlike
  <2> QED
    BY <2>1, <2>3, <2>6, <2>7 DEF path
<1> HIDE DEF K
<1>18. \A path \in K : \E key \in DeepKeys(p) : path = Tail(key)
  BY DEF K
<1>19. v \in Members /\ w \in Members
  <2>1. K \in SUBSET Seq(STRING)
    BY <1>17, <1>18
  <2>2. \A path \in K : v[path] \in MemberValue /\ w[path] \in MemberValue
    BY <1>17, <1>18, Zenon
  <2>3. v = [path \in K |-> v[path]] /\ w = [path \in K |-> w[path]]
    BY <1>10, <1>13, <1>16, Zenon DEF IsMap
  <2> DEFINE V == MemberValue
  <2> HIDE DEF V
  <2>4. \A path \in K : v[path] \in V /\ w[path] \in V
    BY <2>2 DEF V
  <2>5. v \in [K -> V] /\ w \in [K -> V]
    BY <2>3, <2>4
  <2> QED
    BY <2>1, <2>5, Zenon DEF Members, V
<1>20. Conforms(s, Object(v))
  <2>1. EmptyKey \notin DOMAIN v
    BY <1>13, <1>17, <1>18
  <2>2. DOMAIN v # {}
    BY <1>13, <1>15, <1>16, HeldMembers
  <2> QED
    BY <1>7, <2>1, <2>2, Held, Zenon DEF v
<1>21. \A path \in DOMAIN v : FitsAt(s, v, path) => SameMember(v[path], w[path])
  BY <1>13, <1>17, <1>18, Zenon
<1>22. Conforms(s, Object(w))
  BY <1>3, <1>13, <1>16, <1>19, <1>20, <1>21, ReadAlike
<1> QED
  BY <1>3, <1>15, <1>22, Zenon

--------------------------------------------------------------------------------
(* What is accepted conforms.                                              *)

\* A parameter is not at fault.
Accepts(n) == FaultsOf(task.params[n], order) = {}

\* As long as nothing was reported, nothing that is there is at fault.
AcceptedInv ==
  /\ JudgedInv
  /\ faults = {} => \A n : Passed(n) /\ Present(task.params[n]) => Accepts(n)

\* A step leaves alone what a parameter is found to be at fault for.
LEMMA FaultsKept ==
  ASSUME task' = task, order' = order
  PROVE  \A p : FaultsOf(p, order)' = FaultsOf(p, order)
<1>1. \A key : EntryOf(key)' = EntryOf(key)
  BY DEF EntryOf
<1>2. \A p, keys : EntriesFor(p, keys)' = EntriesFor(p, keys)
  BY <1>1, Zenon DEF EntriesFor
<1>3. \A p : PiecesOf(p)' = PiecesOf(p)
  BY DEF PiecesOf
<1>4. \A p : SentHeaderFaults(p)' = SentHeaderFaults(p)
  BY DEF SentHeaderFaults, HeaderText
<1>5. \A p : SentCookieFaults(p)' = SentCookieFaults(p)
  BY DEF SentCookieFaults, CookieText
<1> QED
  BY <1>2, <1>3, <1>4, <1>5 DEF FaultsOf

\* AcceptedInv holds throughout.
LEMMA AcceptedInvInvariant == Spec => []AcceptedInv
<1>1. Init /\ JudgedInv => AcceptedInv
  <2> SUFFICES ASSUME Init, JudgedInv
               PROVE  AcceptedInv
    OBVIOUS
  <2>1. \A n : ~Passed(n)
    BY ParamLoopsAssumption DEF Init, Passed
  <2> QED
    BY <2>1 DEF AcceptedInv
<1>2. AcceptedInv /\ JudgedInv' /\ [Next]_vars => AcceptedInv'
  <2> SUFFICES ASSUME AcceptedInv, JudgedInv', [Next]_vars
               PROVE  AcceptedInv'
    OBVIOUS
  <2>1. UNCHANGED <<task, order>>
    BY DEF Next, vars, PassOver, Judge, Panic, JudgeWholeQuery, Miss, Return
  <2>2. /\ task \in Tasks /\ Len(task.params) \in Nat /\ DOMAIN task.params = 1 .. Len(task.params)
        /\ i \in 1 .. Len(task.params) + 1
        /\ faults = {} => \A n : Passed(n) /\ Present(task.params[n]) => Accepts(n)
    BY ParamLoopsAssumption DEF AcceptedInv, JudgedInv, LoopInv, TypeOK
  <2>3. /\ \A p : Present(p)' = Present(p)
        /\ \A n : EndsLoop(n)' = EndsLoop(n)
    BY <2>1, CallKept
  <2>4. \A n : Accepts(n)' = Accepts(n)
    BY <2>1, FaultsKept DEF Accepts
  <2>5. ASSUME faults' = {} => faults = {},
               \A n : Passed(n)' /\ faults' = {} =>
                 Passed(n) \/ (Present(task.params[n]) => Accepts(n))
        PROVE  AcceptedInv'
    <3>1. (faults = {} => \A n : Passed(n) /\ Present(task.params[n]) => Accepts(n))'
      <4> SUFFICES ASSUME faults' = {}, NEW n, Passed(n)', Present(task.params[n])'
                   PROVE  Accepts(n)'
        BY Zenon
      <4>1. Present(task.params[n])
        BY <2>1, <2>3
      <4>2. CASE Passed(n)
        BY <2>2, <2>4, <2>5, <4>1, <4>2
      <4>3. CASE ~Passed(n)
        BY <2>4, <2>5, <4>1, <4>3
      <4> QED
        BY <4>2, <4>3
    <3> QED
      BY <3>1 DEF AcceptedInv
  <2>6. ASSUME i' = i + 1 PROVE \A n : Passed(n)' => Passed(n) \/ n = i
    BY <2>1, <2>2, <2>3, <2>6 DEF Passed
  <2>7. ASSUME i' = i, faults' = {} => faults = {} PROVE AcceptedInv'
    <3>1. \A n : Passed(n)' = Passed(n)
      BY <2>1, <2>3, <2>7 DEF Passed
    <3> QED
      BY <2>5, <2>7, <3>1
  <2>8. ASSUME NEW kinds, Report(Param.name, kinds)
        PROVE  /\ faults' = {} => faults = {}
               /\ faults' = {} => kinds = {}
    <3>1. faults' = faults \cup {[of |-> Param.name, kind |-> k] : k \in kinds}
      BY <2>8 DEF Report
    <3> QED
      BY <3>1
  <2>9. CASE UNCHANGED vars
    BY <2>7, <2>9 DEF vars
  <2>10. CASE PassOver
    <3>1. i' = i + 1 /\ faults' = faults /\ \A n : n = i => ~Passed(n)'
      BY <2>1, <2>10 DEF PassOver, Passed, Param
    <3> QED
      BY <2>5, <2>6, <3>1
  <2>11. CASE Judge
    <3>1. i' = i + 1 /\ Report(Param.name, FaultsOf(Param, order))
      BY <2>11 DEF Judge
    <3>2. faults' = {} => faults = {} /\ Accepts(i)
      BY <2>8, <3>1 DEF Accepts, Param
    <3> QED
      BY <2>5, <2>6, <3>1, <3>2
  <2>12. CASE Panic
    BY <2>7, <2>12 DEF Panic
  <2>13. CASE JudgeWholeQuery
    <3>1. /\ EndsLoop(i) /\ i' = Len(task.params) + 1
          /\ Report(Param.name, WholeQueryFaults(Param, order))
      BY <2>13 DEF JudgeWholeQuery, EndsLoop, AtParam, Param
    <3>2. \A n : Passed(n)' => Passed(n)
      BY <2>1, <2>2, <2>3, <3>1 DEF Passed
    <3> QED
      BY <2>5, <2>8, <3>1, <3>2
  <2>14. CASE Miss
    <3>1. /\ i' = i + 1 /\ ~Present(task.params[i])
          /\ Report(Param.name, IF Param.required THEN {"missing"} ELSE {})
      BY <2>14 DEF Miss, Param
    <3> QED
      BY <2>5, <2>6, <2>8, <3>1
  <2>15. CASE Return
    <3>1. i' = i /\ (faults' = {} => faults = {})
      BY <2>15 DEF Return
    <3> QED
      BY <2>7, <3>1
  <2> QED
    BY <2>9, <2>10, <2>11, <2>12, <2>13, <2>14, <2>15 DEF Next
<1> QED
  BY <1>1, <1>2, JudgedInvInvariant, PTL DEF Spec

\* What was sent for a parameter is there, for the loop as well.
LEMMA SentIsPresent ==
  ASSUME task \in Tasks, NEW p \in Range(task.params), p.in = task.place,
         TextsOf(p) # {} \/ (HasDeepObject(p) /\ DeepKeys(p) # {})
  PROVE  Present(p)
<1>1. CASE p.in = "query"
  <2>1. \E key \in DOMAIN task.sent : EntryOf(key).name = p.name
    <3>1. CASE TextsOf(p) # {}
      <4>1. p.name \in DOMAIN task.sent
        BY <1>1, <3>1, Zenon DEF TextsOf
      <4> QED
        BY <1>1, <4>1, OwnEntry
    <3>2. CASE HasDeepObject(p) /\ DeepKeys(p) # {}
      <4>1. PICK key \in DeepKeys(p) : key \in DOMAIN task.sent
        BY <3>2 DEF DeepKeys
      <4>2. p.name \in Seq(STRING)
        BY ParamFacts
      <4> QED
        BY <3>2, <4>1, <4>2, DeepEntries
    <3> QED
      BY <3>1, <3>2
  <2> QED
    BY <1>1, <2>1, Zenon DEF Present
<1>2. CASE p.in = "header"
  <2>1. HeaderText(p.name) # <<>>
    BY <1>2 DEF TextsOf, HasDeepObject
  <2> QED
    BY <1>2, <2>1, Zenon DEF Present
<1>3. CASE p.in = "cookie"
  <2>1. p.name \in DOMAIN task.sent
    BY <1>3 DEF TextsOf, HasDeepObject
  <2> QED
    BY <1>3, <2>1, Zenon DEF Present
<1>4. CASE p.in = "path"
  BY <1>4, Zenon DEF Present
<1> QED
  BY <1>1, <1>2, <1>3, <1>4, ParamFacts DEF Places

\* A parameter is read in one way at most.
LEMMA OneReading ==
  ASSUME NEW p
  PROVE  /\ HasScalar(p) => ~HasDeepObject(p) /\ ~HasListObject(p) /\ ~HasArray(p) /\ ~HasJson(p)
         /\ HasDeepObject(p) => ~HasListObject(p) /\ ~HasArray(p) /\ ~HasJson(p)
         /\ HasListObject(p) => ~HasArray(p) /\ ~HasJson(p)
         /\ HasArray(p) => ~HasJson(p)
<1>1. HasScalar(p) => /\ p.schema # None
                      /\ Types(p.schema) # {"object"} /\ Types(p.schema) # {"array"}
  BY DEF HasScalar
<1>2. HasDeepObject(p) => /\ p.schema # None /\ Types(p.schema) = {"object"}
                          /\ p.in = "query" /\ p.style = "deepObject"
  BY Zenon DEF HasDeepObject
<1>3. HasListObject(p) => /\ p.schema # None /\ Types(p.schema) = {"object"}
                          /\ p.in \in {"header", "cookie"} \/ p.style = "form"
  BY Zenon DEF HasListObject
<1>4. HasArray(p) => p.schema # None /\ Types(p.schema) = {"array"}
  BY Zenon DEF HasArray
<1>5. HasJson(p) => p.schema = None
  BY Zenon DEF HasJson, ContentWrapped
<1>6. {"array"} # {"object"}
  OBVIOUS
<1> QED
  BY <1>1, <1>2, <1>3, <1>4, <1>5, <1>6

\* What is read of a parameter that nothing was reported of conforms.
LEMMA ReadingConforms ==
  ASSUME JsonSchema, NEW p, Judged(p), NEW v \in Readings(p),
         IsHeld(v), ContentWrapped(p) \/ IsCastExactly(v)
  PROVE  Conforms(SchemaOf(p), v)
<1>1. CASE HasScalar(p)
  <2>1. Readings(p) = {Typed(p.schema, t) : t \in TextsOf(p)}
    BY <1>1, OneReading, Zenon DEF Readings
  <2>2. \A t \in TextsOf(p) : Conforms(SchemaOf(p), Typed(p.schema, t))
    BY <1>1, ScalarConforms
  <2> QED
    BY <2>1, <2>2
<1>2. CASE HasDeepObject(p) /\ DeepKeys(p) # {}
  <2>1. Readings(p) = {DeepObjectRead(p)}
    BY <1>2, OneReading, Zenon DEF Readings
  <2>2. v = DeepObjectRead(p)
    BY <2>1
  <2>3. IsCastExactly(DeepObjectRead(p))
    BY <1>2, <2>2, Zenon DEF ContentWrapped, HasDeepObject
  <2> QED
    BY <1>2, <2>2, <2>3, DeepObjectConforms
<1>3. CASE HasListObject(p)
  <2>1. Readings(p) = {ListObjectRead(p.schema, t) : t \in TextsOf(p)}
    BY <1>3, OneReading, Zenon DEF Readings
  <2>2. PICK t \in TextsOf(p) : v = ListObjectRead(p.schema, t)
    BY <2>1
  <2>3. IsCastExactly(ListObjectRead(p.schema, t))
    BY <1>3, <2>2, Zenon DEF ContentWrapped, HasListObject
  <2> QED
    BY <1>3, <2>2, <2>3, ListObjectConforms
<1>4. CASE HasArray(p)
  <2>1. Readings(p) = {ArrayRead(p.schema, t) : t \in TextsOf(p)}
    BY <1>4, OneReading, Zenon DEF Readings
  <2>2. PICK t \in TextsOf(p) : v = ArrayRead(p.schema, t)
    BY <2>1
  <2> QED
    BY <1>4, <2>2, ArrayConforms
<1>5. CASE HasJson(p)
  <2>1. Readings(p) = {Json(t) : t \in TextsOf(p)} \ {None}
    BY <1>5, OneReading, Zenon DEF Readings
  <2>2. PICK t \in TextsOf(p) : v = Json(t)
    BY <2>1
  <2> QED
    BY <1>5, <2>2, JsonConforms
<1>6. CASE /\ ~HasScalar(p) /\ ~(HasDeepObject(p) /\ DeepKeys(p) # {})
           /\ ~HasListObject(p) /\ ~HasArray(p) /\ ~HasJson(p)
  BY <1>6, Zenon DEF Readings
<1> QED
  BY <1>1, <1>2, <1>3, <1>4, <1>5, <1>6

\* There is something to read only of what was sent.
LEMMA ReadIsSent ==
  ASSUME NEW p, Readings(p) # {}
  PROVE  TextsOf(p) # {} \/ (HasDeepObject(p) /\ DeepKeys(p) # {})
<1> SUFFICES ASSUME TextsOf(p) = {}, ~(HasDeepObject(p) /\ DeepKeys(p) # {})
             PROVE  Readings(p) = {}
  OBVIOUS
<1>1. /\ {Typed(p.schema, t) : t \in TextsOf(p)} = {}
      /\ {ListObjectRead(p.schema, t) : t \in TextsOf(p)} = {}
      /\ {ArrayRead(p.schema, t) : t \in TextsOf(p)} = {}
      /\ {Json(t) : t \in TextsOf(p)} \ {None} = {}
  OBVIOUS
<1> QED
  BY <1>1, Zenon DEF Readings

\* What is accepted is what the document asks for: in a request without errors,
\* whatever was sent for a parameter conforms to its schema, read the way OpenAPI
\* says, if a schema asks of an object what JSON Schema asks of it.
THEOREM AcceptedIsConformance == ASSUME JsonSchema PROVE Spec => []AcceptedConforms
<1>1. AcceptedInv => AcceptedConforms
  <2> SUFFICES ASSUME AcceptedInv, pc = "returned", faults = {},
                      NEW p \in LookedAt, NEW v \in Readings(p),
                      IsHeld(v), ContentWrapped(p) \/ IsCastExactly(v)
               PROVE  Conforms(SchemaOf(p), v)
    BY Zenon DEF AcceptedConforms
  <2>1. /\ task \in Tasks /\ i = Len(task.params) + 1
        /\ task.place = "query" => order \in SetToSeqs(DOMAIN task.sent)
        /\ Len(task.params) \in Nat /\ DOMAIN task.params = 1 .. Len(task.params)
        /\ \A n : Passed(n) /\ Present(task.params[n]) => Accepts(n)
    BY ParamLoopsAssumption DEF AcceptedInv, JudgedInv, LoopInv
  <2>2. PICK n \in DOMAIN task.params :
          /\ p = task.params[n]
          /\ task.params[n].in = task.place
          /\ \A l \in 1 .. n : ~EndsLoop(l)
    BY DEF LookedAt
  <2>3. Passed(n)
    BY <2>1, <2>2 DEF Passed
  <2>4. p \in Range(task.params) /\ p.in = task.place
    BY <2>2, Zenon DEF Range
  <2>5. TextsOf(p) # {} \/ (HasDeepObject(p) /\ DeepKeys(p) # {})
    BY ReadIsSent
  <2>6. Present(p)
    BY <2>1, <2>4, <2>5, SentIsPresent
  <2>7. FaultsOf(p, order) = {}
    BY <2>1, <2>2, <2>3, <2>6 DEF Accepts
  <2>8. Judged(p)
    BY <2>1, <2>4, <2>6, <2>7 DEF Judged
  <2> QED
    BY <2>8, ReadingConforms
<1> QED
  BY <1>1, AcceptedInvInvariant, PTL
================================================================================
