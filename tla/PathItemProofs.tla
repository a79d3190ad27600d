---------------------------- MODULE PathItemProofs -----------------------------
(***************************************************************************)
(* Proofs about the path item of a request: PathLookup finds it, for any   *)
(* document and any request paths, and ParamExtraction lists its           *)
(* parameters, for any number of callers, any path item, any capacity of   *)
(* its slice and any operations.                                           *)
(***************************************************************************)
EXTENDS PathLookup, ParamExtraction, FiniteSetTheorems, SequenceTheorems,
        WellFoundedInduction, TLAPS

\* What a place or a list may hold.
Entries ==
  {Unset} \cup Range(PathParams) \cup UNION {Range(OpParams[m]) : m \in DOMAIN OpParams}

\* The parameters of a request, as its caller should see them.
Wanted(c) == PathParams \o ParamsOf(method[c])

\* An append of method m's parameters stays in the slice of the path item.
FitsInPlace(m) == Len(PathParams) + Len(ParamsOf(m)) <= Capacity

Typed ==
  /\ places \in [1..Capacity -> Entries]
  /\ pc \in [Callers -> {"idle", "appending", "reading"}]
  /\ method \in [Callers -> Methods]
  /\ own \in [Callers -> {Unset} \cup Seq(Entries)]
  /\ index \in [Callers -> Nat]
  /\ seen \in [Callers -> Seq(Entries)]

\* Where a caller is, and which list it reads.
CallerInv(c) ==
  /\ pc[c] = "idle" => index[c] = 0 /\ seen[c] = <<>> /\ InPlace(c)
  /\ pc[c] = "appending" =>
       /\ InPlace(c) /\ FitsInPlace(method[c])
       /\ index[c] <= Len(ParamsOf(method[c]))
       /\ seen[c] = <<>>
  /\ pc[c] = "reading" =>
       /\ index[c] <= Length(c)
       /\ index[c] = Len(seen[c])
       /\ IF InPlace(c) THEN FitsInPlace(method[c]) ELSE own[c] = Wanted(c)

PathInv == \A i \in 1..Len(PathParams) : places[i] = PathParams[i]

ExtractInv == Typed /\ PathInv /\ \A c \in Callers : CallerInv(c)

--------------------------------------------------------------------------------
\* The lists of the document are sequences of entries.
LEMMA ListsTyped ==
  /\ PathParams \in Seq(Entries)
  /\ Len(PathParams) \in Nat
  /\ \A m : ParamsOf(m) \in Seq(Entries) /\ Len(ParamsOf(m)) \in Nat
<1> USE ExtractionAssumption
<1>1. PathParams \in Seq(Entries)
  BY SeqMonotonic DEF Entries
<1>2. ASSUME NEW m PROVE ParamsOf(m) \in Seq(Entries)
  <2>1. CASE m \in DOMAIN OpParams
    <3>1. Range(OpParams[m]) \subseteq Entries
      BY <2>1 DEF Entries
    <3> QED
      BY <2>1, <3>1, SeqMonotonic DEF ParamsOf, HasOperation
  <2>2. CASE m \notin DOMAIN OpParams
    BY <2>2 DEF ParamsOf, HasOperation
  <2> QED
    BY <2>1, <2>2
<1> QED
  BY <1>1, <1>2, LenProperties

\* A caller's own parameters follow those of the path item.
LEMMA WantedLayout ==
  ASSUME NEW c
  PROVE  /\ Wanted(c) \in Seq(Entries)
         /\ Len(Wanted(c)) = Length(c)
         /\ \A i \in 1..Length(c) :
              Wanted(c)[i] = IF i <= Len(PathParams) THEN PathParams[i]
                             ELSE ParamsOf(method[c])[i - Len(PathParams)]
<1>1. PathParams \in Seq(Entries) /\ ParamsOf(method[c]) \in Seq(Entries)
  BY ListsTyped
<1> HIDE DEF Entries, ParamsOf
<1> QED
  BY <1>1, ConcatProperties DEF Wanted, Length

\* A caller whose own variables do not change keeps its books.
LEMMA CallerUndisturbed ==
  ASSUME NEW c, CallerInv(c),
         pc'[c] = pc[c], method'[c] = method[c], own'[c] = own[c],
         index'[c] = index[c], seen'[c] = seen[c]
  PROVE  CallerInv(c)'
BY DEF CallerInv, InPlace, Length, Wanted

\* Extract starts the caller on the shared slice or on a list of its own.
LEMMA ExtractStep ==
  ASSUME ExtractInv, NEW c \in Callers, NEW m \in Methods, Extract(c, m)
  PROVE  ExtractInv'
<1>1. /\ pc[c] = "idle" /\ index[c] = 0 /\ seen[c] = <<>> /\ own[c] = Unset
      /\ method' = [method EXCEPT ![c] = m]
      /\ UNCHANGED <<places, index, seen>>
  BY DEF Extract, ExtractInv, CallerInv, InPlace
<1>2. Typed /\ PathInv /\ \A d \in Callers : CallerInv(d)
  BY DEF ExtractInv
<1>3. SubSeq(places, 1, Len(PathParams)) = PathParams
  <2>1. /\ PathParams \in Seq(Entries) /\ Len(PathParams) \in Nat
        /\ Len(PathParams) <= Capacity /\ Capacity \in Nat
    BY ListsTyped, ExtractionAssumption
  <2>2. SubSeq(places, 1, Len(PathParams)) = [i \in 1..Len(PathParams) |-> places[i]]
    BY <2>1, SMT
  <2>3. PathParams = [i \in 1..Len(PathParams) |-> PathParams[i]]
    BY <2>1
  <2> QED
    BY <1>2, <2>2, <2>3 DEF PathInv
<1>4. CASE FitsInPlace(m)
  <2>1. pc' = [pc EXCEPT ![c] = "appending"] /\ own' = own
    BY <1>4 DEF Extract, FitsInPlace
  <2>2. CallerInv(c)'
    BY <1>1, <1>2, <1>4, <2>1, ListsTyped DEF Typed, CallerInv, InPlace, FitsInPlace
  <2>3. \A d \in Callers \ {c} : CallerInv(d)'
    BY <1>1, <1>2, <2>1, CallerUndisturbed DEF Typed
  <2>4. Typed' /\ PathInv'
    BY <1>1, <1>2, <2>1 DEF Typed, PathInv
  <2> QED
    BY <2>2, <2>3, <2>4 DEF ExtractInv
<1>5. CASE ~FitsInPlace(m)
  <2>1. /\ pc' = [pc EXCEPT ![c] = "reading"]
        /\ own' = [own EXCEPT ![c] = PathParams \o ParamsOf(m)]
    BY <1>3, <1>5 DEF Extract, FitsInPlace
  <2>2. PathParams \o ParamsOf(m) \in Seq(Entries)
    BY ListsTyped, ConcatProperties
  <2>3. CallerInv(c)'
    <3>1. own'[c] = Wanted(c)' /\ method'[c] = m /\ pc'[c] = "reading"
      BY <1>1, <1>2, <2>1 DEF Typed, Wanted
    <3>2. own'[c] # Unset
      <4>1. m \in DOMAIN OpParams
        BY <1>5, ExtractionAssumption, ListsTyped DEF FitsInPlace, ParamsOf, HasOperation
      <4> QED
        BY <1>1, <1>2, <2>1, <4>1, ExtractionAssumption DEF Typed, ParamsOf, HasOperation
    <3> QED
      BY <1>1, <3>1, <3>2, ListsTyped DEF CallerInv, InPlace, Length
  <2>4. \A d \in Callers \ {c} : CallerInv(d)'
    BY <1>1, <1>2, <2>1, CallerUndisturbed DEF Typed
  <2>5. Typed' /\ PathInv'
    BY <1>1, <1>2, <2>1, <2>2 DEF Typed, PathInv
  <2> QED
    BY <2>3, <2>4, <2>5 DEF ExtractInv
<1> QED
  BY <1>4, <1>5

\* An in-place append writes behind the path item's own parameters.
LEMMA AppendStep ==
  ASSUME ExtractInv, NEW c \in Callers, AppendOne(c)
  PROVE  ExtractInv'
<1>1. /\ pc[c] = "appending" /\ InPlace(c) /\ FitsInPlace(method[c]) /\ seen[c] = <<>>
      /\ index[c] \in Nat /\ index[c] <= Len(ParamsOf(method[c]))
      /\ UNCHANGED <<method, own, seen>>
  BY DEF AppendOne, ExtractInv, CallerInv, Typed
<1>2. Typed /\ PathInv /\ \A d \in Callers : CallerInv(d)
  BY DEF ExtractInv
<1>3. CASE index[c] < Len(ParamsOf(method[c]))
  <2> DEFINE place == Len(PathParams) + index[c] + 1
             p == ParamsOf(method[c])[index[c] + 1]
  <2>1. /\ places' = [places EXCEPT ![place] = p]
        /\ index' = [index EXCEPT ![c] = @ + 1]
        /\ pc' = pc
    BY <1>3 DEF AppendOne
  <2>2. place \in 1..Capacity /\ place \notin 1..Len(PathParams) /\ p \in Entries
    BY <1>1, <1>3, ListsTyped, ExtractionAssumption, ElementOfSeq DEF FitsInPlace
  <2>3. CallerInv(c)'
    BY <1>1, <1>2, <1>3, <2>1, ListsTyped DEF Typed, CallerInv, InPlace, FitsInPlace
  <2>4. \A d \in Callers \ {c} : CallerInv(d)'
    BY <1>1, <1>2, <2>1, CallerUndisturbed DEF Typed
  <2>5. Typed' /\ PathInv'
    BY <1>1, <1>2, <2>1, <2>2, ListsTyped, ExtractionAssumption DEF Typed, PathInv
  <2> QED
    BY <2>3, <2>4, <2>5 DEF ExtractInv
<1>4. CASE ~(index[c] < Len(ParamsOf(method[c])))
  <2>1. /\ places' = places
        /\ index' = [index EXCEPT ![c] = 0]
        /\ pc' = [pc EXCEPT ![c] = "reading"]
    BY <1>4 DEF AppendOne
  <2>2. CallerInv(c)'
    BY <1>1, <1>2, <2>1, ListsTyped DEF Typed, CallerInv, InPlace, FitsInPlace, Length
  <2>3. \A d \in Callers \ {c} : CallerInv(d)'
    BY <1>1, <1>2, <2>1, CallerUndisturbed DEF Typed
  <2>4. Typed' /\ PathInv'
    BY <1>1, <1>2, <2>1 DEF Typed, PathInv
  <2> QED
    BY <2>2, <2>3, <2>4 DEF ExtractInv
<1> QED
  BY <1>3, <1>4

\* A read takes the next entry of the caller's list.
LEMMA ReadStep ==
  ASSUME ExtractInv, NEW c \in Callers, ReadOne(c)
  PROVE  ExtractInv'
<1> DEFINE p == IF InPlace(c) THEN places[index[c] + 1] ELSE own[c][index[c] + 1]
<1>1. /\ pc[c] = "reading" /\ index[c] < Length(c) /\ index[c] = Len(seen[c])
      /\ index' = [index EXCEPT ![c] = @ + 1]
      /\ seen' = [seen EXCEPT ![c] = Append(@, p)]
      /\ UNCHANGED <<places, pc, method, own>>
      /\ IF InPlace(c) THEN FitsInPlace(method[c]) ELSE own[c] = Wanted(c)
  BY DEF ReadOne, ExtractInv, CallerInv
<1>2. Typed /\ PathInv /\ \A d \in Callers : CallerInv(d)
  BY DEF ExtractInv
<1>3. index[c] \in Nat /\ seen[c] \in Seq(Entries) /\ Length(c) \in Nat
  BY <1>2, ListsTyped DEF Typed, Length
<1>4. p \in Entries
  <2>1. CASE InPlace(c)
    <3>1. index[c] + 1 \in 1..Capacity
      BY <1>1, <1>3, <2>1, ListsTyped, ExtractionAssumption DEF FitsInPlace, Length
    <3> QED
      BY <1>2, <2>1, <3>1 DEF Typed
  <2>2. CASE ~InPlace(c)
    BY <1>1, <1>3, <2>2, WantedLayout, ElementOfSeq
  <2> QED
    BY <2>1, <2>2
<1> HIDE DEF p
<1>5. Append(seen[c], p) \in Seq(Entries) /\ Len(Append(seen[c], p)) = index[c] + 1
  BY <1>1, <1>3, <1>4, AppendProperties
<1>6. CallerInv(c)'
  BY <1>1, <1>2, <1>3, <1>5 DEF Typed, CallerInv, InPlace, Length, Wanted
<1>7. \A d \in Callers \ {c} : CallerInv(d)'
  BY <1>1, <1>2, CallerUndisturbed DEF Typed
<1>8. Typed' /\ PathInv'
  BY <1>1, <1>2, <1>3, <1>5 DEF Typed, PathInv
<1> QED
  BY <1>6, <1>7, <1>8 DEF ExtractInv

\* The caller is ready for the next request.
LEMMA ReturnStep ==
  ASSUME ExtractInv, NEW c \in Callers, Return(c)
  PROVE  ExtractInv'
<1>1. Typed /\ PathInv /\ \A d \in Callers : CallerInv(d)
  BY DEF ExtractInv
<1>2. /\ pc' = [pc EXCEPT ![c] = "idle"] /\ own' = [own EXCEPT ![c] = Unset]
      /\ index' = [index EXCEPT ![c] = 0] /\ seen' = [seen EXCEPT ![c] = <<>>]
      /\ UNCHANGED <<places, method>>
  BY DEF Return
<1>3. CallerInv(c)'
  BY <1>1, <1>2 DEF Typed, CallerInv, InPlace
<1>4. \A d \in Callers \ {c} : CallerInv(d)'
  BY <1>1, <1>2, CallerUndisturbed DEF Typed
<1>5. Typed' /\ PathInv'
  BY <1>1, <1>2 DEF Typed, PathInv
<1> QED
  BY <1>3, <1>4, <1>5 DEF ExtractInv

\* ExtractInv holds in every reachable state, whatever the operations are.
THEOREM ExtractInvariant == Spec => []ExtractInv
<1>1. Init => ExtractInv
  <2> SUFFICES ASSUME Init PROVE ExtractInv
    OBVIOUS
  <2>1. \A i \in 1..Len(PathParams) : PathParams[i] \in Entries
    BY ListsTyped, ElementOfSeq
  <2>2. Unset \in Entries
    BY DEF Entries
  <2>3. Len(PathParams) <= Capacity /\ Capacity \in Nat /\ Len(PathParams) \in Nat
    BY ExtractionAssumption, ListsTyped
  <2>4. places \in [1..Capacity -> Entries]
    BY <2>1, <2>2, <2>3 DEF Init
  <2>5. Typed
    BY <2>4 DEF Init, Typed
  <2>6. PathInv
    BY <2>3 DEF Init, PathInv
  <2>7. \A c \in Callers : CallerInv(c)
    BY DEF Init, CallerInv, InPlace
  <2> QED
    BY <2>5, <2>6, <2>7 DEF ExtractInv
<1>2. ExtractInv /\ [Next]_vars => ExtractInv'
  <2> SUFFICES ASSUME ExtractInv, [Next]_vars PROVE ExtractInv'
    OBVIOUS
  <2>1. CASE UNCHANGED vars
    BY <2>1 DEF vars, ExtractInv, Typed, PathInv, CallerInv, InPlace, Length, Wanted
  <2>2. CASE Next
    BY <2>2, ExtractStep, AppendStep, ReadStep, ReturnStep DEF Next
  <2> QED
    BY <2>1, <2>2
<1> QED
  BY <1>1, <1>2, PTL DEF Spec

\* Type correctness: a caller's index stays within its list.
THEOREM TypeCorrect == Spec => []TypeOK
<1>1. ExtractInv => TypeOK
  <2> SUFFICES ASSUME ExtractInv PROVE TypeOK
    OBVIOUS
  <2>1. \A c \in Callers : index[c] \in 0..Length(c)
    <3> TAKE c \in Callers
    <3>1. index[c] \in Nat /\ Length(c) \in Nat /\ pc[c] \in {"idle", "appending", "reading"}
      BY ListsTyped DEF ExtractInv, Typed, Length
    <3> QED
      BY <3>1, ListsTyped DEF ExtractInv, CallerInv, Length
  <2> QED
    BY <2>1 DEF ExtractInv, Typed, TypeOK
<1> QED
  BY <1>1, ExtractInvariant, PTL

\* The document is safe from the appends: whatever operations share a path
\* item, no request ever changes the path item's own parameters.
THEOREM PathItemUntouched == Spec => []PathItemIntact
<1>1. ExtractInv => PathItemIntact
  <2> SUFFICES ASSUME ExtractInv PROVE SubSeq(places, 1, Len(PathParams)) = PathParams
    BY DEF PathItemIntact
  <2>1. PathParams \in Seq(Entries) /\ Len(PathParams) \in Nat
    BY ListsTyped
  <2>2. SubSeq(places, 1, Len(PathParams)) = [i \in 1..Len(PathParams) |-> places[i]]
    BY <2>1, SMT
  <2>3. PathParams = [i \in 1..Len(PathParams) |-> PathParams[i]]
    BY <2>1
  <2> QED
    BY <2>2, <2>3 DEF ExtractInv, PathInv
<1> QED
  BY <1>1, ExtractInvariant, PTL

--------------------------------------------------------------------------------
(* What the loops see, when at most one list of operation parameters       *)
(* that is not empty is ever appended in place.                            *)

OneAppendsInPlace ==
  \A m, k \in Methods :
    FitsInPlace(m) /\ FitsInPlace(k)
      => ParamsOf(m) = ParamsOf(k) \/ ParamsOf(m) = <<>> \/ ParamsOf(k) = <<>>

\* How many of its parameters the caller has in the shared slice.
Placed(c) ==
  IF pc[c] = "appending" THEN index[c]
  ELSE IF pc[c] = "reading" /\ InPlace(c) THEN Len(ParamsOf(method[c])) ELSE 0

PlacedInv(c) ==
  \A i \in 1..Placed(c) : places[Len(PathParams) + i] = ParamsOf(method[c])[i]

SeenInv(c) == \A i \in 1..Len(seen[c]) : i <= Length(c) /\ seen[c][i] = Wanted(c)[i]

ListInv == \A c \in Callers : PlacedInv(c) /\ SeenInv(c)

\* A caller's list depends on its own variables and on the shared places.
LEMMA ListUndisturbed ==
  ASSUME NEW c, PlacedInv(c), SeenInv(c),
         pc'[c] = pc[c], method'[c] = method[c], own'[c] = own[c],
         index'[c] = index[c], seen'[c] = seen[c], places' = places
  PROVE  PlacedInv(c)' /\ SeenInv(c)'
BY DEF PlacedInv, SeenInv, Placed, InPlace, Length, Wanted

\* An append writes what any other caller appending in place has there.
LEMMA AppendKeepsLists ==
  ASSUME OneAppendsInPlace, ExtractInv, ListInv, NEW c \in Callers, AppendOne(c)
  PROVE  ListInv'
<1>1. /\ pc[c] = "appending" /\ InPlace(c) /\ FitsInPlace(method[c]) /\ seen[c] = <<>>
      /\ index[c] \in Nat /\ index[c] <= Len(ParamsOf(method[c]))
      /\ UNCHANGED <<method, own, seen>>
  BY DEF AppendOne, ExtractInv, CallerInv, Typed
<1>2. Typed /\ PathInv /\ \A d \in Callers : CallerInv(d) /\ PlacedInv(d) /\ SeenInv(d)
  BY DEF ExtractInv, ListInv
<1>3. \A d \in Callers : SeenInv(d)'
  BY <1>1, <1>2 DEF SeenInv, Length, Wanted
<1>4. CASE index[c] < Len(ParamsOf(method[c]))
  <2> DEFINE place == Len(PathParams) + index[c] + 1
             p == ParamsOf(method[c])[index[c] + 1]
  <2>1. /\ places' = [places EXCEPT ![place] = p]
        /\ index' = [index EXCEPT ![c] = @ + 1]
        /\ pc' = pc
    BY <1>4 DEF AppendOne
  <2>2. place \in 1..Capacity /\ places' \in [1..Capacity -> Entries] /\ places'[place] = p
    <3>1. place \in 1..Capacity /\ p \in Entries
      BY <1>1, <1>4, ListsTyped, ExtractionAssumption, ElementOfSeq DEF FitsInPlace
    <3> QED
      BY <1>2, <2>1, <3>1 DEF Typed
  <2>3. ASSUME NEW d \in Callers, NEW i \in 1..Placed(d)', NEW n \in Nat, n = Len(PathParams)
        PROVE  places'[n + i] = ParamsOf(method[d])[i]
    <3>1. CASE i = index[c] + 1
      <4>1. FitsInPlace(method[d]) /\ Len(ParamsOf(method[d])) >= i
        <5>1. CASE d = c
          BY <1>1, <1>4, <3>1, <5>1
        <5>2. CASE d # c
          <6>1. Placed(d)' = Placed(d)
            BY <1>1, <1>2, <2>1, <5>2 DEF Placed, Typed, InPlace
          <6> QED
            BY <1>2, <2>3, <6>1, ListsTyped DEF Placed, CallerInv, Typed
        <5> QED
          BY <5>1, <5>2
      <4>2. ParamsOf(method[d]) # <<>> /\ ParamsOf(method[c]) # <<>>
        BY <1>1, <1>4, <3>1, <4>1, ListsTyped
      <4>3. ParamsOf(method[d]) = ParamsOf(method[c])
        BY <1>1, <1>2, <4>1, <4>2 DEF OneAppendsInPlace, Typed
      <4>4. n + i = place
        BY <1>1, <2>3, <3>1, ListsTyped
      <4>5. p = ParamsOf(method[d])[i]
        BY <3>1, <4>3
      <4> QED
        BY <2>2, <4>4, <4>5
    <3>2. CASE i # index[c] + 1
      <4>1. i \in 1..Placed(d)
        <5>1. CASE d = c
          BY <1>1, <1>2, <2>1, <2>3, <3>2, <5>1 DEF Placed, Typed
        <5>2. CASE d # c
          BY <1>1, <1>2, <2>1, <2>3, <5>2 DEF Placed, Typed, InPlace
        <5> QED
          BY <5>1, <5>2
      <4>2. places[n + i] = ParamsOf(method[d])[i]
        BY <1>2, <2>3, <4>1 DEF PlacedInv
      <4>3. places'[n + i] = places[n + i]
        <5>1. n + i # place
          BY <1>1, <2>3, <3>2
        <5>2. n + i \in 1..Capacity
          BY <1>2, <2>3, <4>1, ListsTyped, ExtractionAssumption
             DEF Placed, CallerInv, Typed, FitsInPlace
        <5> QED
          BY <1>2, <2>1, <5>1, <5>2 DEF Typed
      <4> QED
        BY <4>2, <4>3
    <3> QED
      BY <3>1, <3>2
  <2>4. \A d \in Callers : PlacedInv(d)'
    BY <1>1, <2>3, ListsTyped DEF PlacedInv
  <2> QED
    BY <1>3, <2>4 DEF ListInv
<1>5. CASE ~(index[c] < Len(ParamsOf(method[c])))
  <2>1. /\ places' = places
        /\ index' = [index EXCEPT ![c] = 0]
        /\ pc' = [pc EXCEPT ![c] = "reading"]
        /\ index[c] = Len(ParamsOf(method[c]))
    BY <1>1, <1>5, ListsTyped DEF AppendOne
  <2>2. PlacedInv(c)'
    BY <1>1, <1>2, <2>1 DEF PlacedInv, Placed, Typed, InPlace
  <2>3. \A d \in Callers \ {c} : PlacedInv(d)'
    BY <1>1, <1>2, <2>1, ListUndisturbed DEF Typed
  <2> QED
    BY <1>3, <2>2, <2>3 DEF ListInv
<1> QED
  BY <1>4, <1>5

\* A read sees the entry that belongs there.
LEMMA ReadKeepsLists ==
  ASSUME ExtractInv, ListInv, NEW c \in Callers, ReadOne(c)
  PROVE  ListInv'
<1> DEFINE p == IF InPlace(c) THEN places[index[c] + 1] ELSE own[c][index[c] + 1]
<1>1. /\ pc[c] = "reading" /\ index[c] < Length(c) /\ index[c] = Len(seen[c])
      /\ index' = [index EXCEPT ![c] = @ + 1]
      /\ seen' = [seen EXCEPT ![c] = Append(@, p)]
      /\ UNCHANGED <<places, pc, method, own>>
      /\ IF InPlace(c) THEN FitsInPlace(method[c]) ELSE own[c] = Wanted(c)
  BY DEF ReadOne, ExtractInv, CallerInv
<1>2. Typed /\ PathInv /\ \A d \in Callers : CallerInv(d) /\ PlacedInv(d) /\ SeenInv(d)
  BY DEF ExtractInv, ListInv
<1>3. index[c] \in Nat /\ seen[c] \in Seq(Entries) /\ Length(c) \in Nat
  BY <1>2, ListsTyped DEF Typed, Length
<1>4. p = Wanted(c)[index[c] + 1]
  <2>1. CASE ~InPlace(c)
    BY <1>1, <2>1
  <2>2. CASE InPlace(c) /\ index[c] + 1 <= Len(PathParams)
    <3>1. p = PathParams[index[c] + 1]
      BY <1>2, <1>3, <2>2, ListsTyped DEF PathInv
    <3> QED
      BY <1>1, <1>3, <2>2, <3>1, WantedLayout
  <2>3. CASE InPlace(c) /\ index[c] + 1 > Len(PathParams)
    <3> DEFINE i == index[c] + 1 - Len(PathParams)
    <3>1. i \in 1..Placed(c) /\ index[c] + 1 = Len(PathParams) + i
      BY <1>1, <1>3, <2>3, ListsTyped DEF Placed, Length
    <3>2. p = ParamsOf(method[c])[i]
      BY <1>2, <2>3, <3>1 DEF PlacedInv
    <3>3. Wanted(c)[index[c] + 1] = ParamsOf(method[c])[i]
      BY <1>1, <1>3, <2>3, WantedLayout, ListsTyped
    <3> QED
      BY <3>2, <3>3
  <2> QED
    BY <1>3, <2>1, <2>2, <2>3, ListsTyped
<1> HIDE DEF p
<1>5. SeenInv(c)'
  <2>1. seen'[c] = Append(seen[c], p)
    BY <1>1, <1>2 DEF Typed
  <2>2. /\ Len(seen'[c]) = index[c] + 1
        /\ \A i \in 1..Len(seen[c]) : seen'[c][i] = seen[c][i]
        /\ seen'[c][index[c] + 1] = p
    BY <1>1, <1>3, <2>1
  <2>3. Length(c)' = Length(c) /\ Wanted(c)' = Wanted(c)
    BY <1>1 DEF Length, Wanted
  <2>4. ASSUME NEW i \in 1..Len(seen'[c]) PROVE i <= Length(c) /\ seen'[c][i] = Wanted(c)[i]
    <3>1. CASE i = index[c] + 1
      BY <1>1, <1>3, <1>4, <2>2, <3>1
    <3>2. CASE i # index[c] + 1
      <4>1. i \in 1..Len(seen[c])
        BY <1>1, <1>3, <2>2, <3>2
      <4> QED
        BY <1>2, <2>2, <4>1 DEF SeenInv
    <3> QED
      BY <3>1, <3>2
  <2> QED
    BY <2>3, <2>4 DEF SeenInv
<1>6. \A d \in Callers : PlacedInv(d)'
  BY <1>1, <1>2 DEF PlacedInv, Placed, InPlace, Typed
<1>7. \A d \in Callers \ {c} : SeenInv(d)'
  BY <1>1, <1>2, ListUndisturbed DEF Typed
<1> QED
  BY <1>5, <1>6, <1>7 DEF ListInv

\* When at most one list of parameters is appended in place, no append changes
\* what another caller has placed.
THEOREM ListInvariant ==
  ASSUME OneAppendsInPlace PROVE Spec => []ListInv
<1>1. Init => ListInv
  BY DEF Init, ListInv, PlacedInv, SeenInv, Placed
<1>2. ExtractInv /\ ListInv /\ [Next]_vars => ListInv'
  <2> SUFFICES ASSUME ExtractInv, ListInv, [Next]_vars PROVE ListInv'
    OBVIOUS
  <2>1. CASE UNCHANGED vars
    BY <2>1, ListUndisturbed DEF vars, ListInv
  <2>2. ASSUME NEW c \in Callers, NEW m \in Methods, Extract(c, m) PROVE ListInv'
    <3>1. /\ pc' = [pc EXCEPT ![c] = IF FitsInPlace(m) THEN "appending" ELSE "reading"]
          /\ method' = [method EXCEPT ![c] = m]
          /\ \A d \in Callers \ {c} : own'[d] = own[d]
          /\ pc[c] = "idle" /\ UNCHANGED <<places, index, seen>>
          /\ ~FitsInPlace(m) => pc'[c] = "reading" /\ own'[c] # Unset
      <4>1. pc[c] = "idle"
        BY <2>2 DEF Extract
      <4>2. CASE FitsInPlace(m)
        BY <2>2, <4>2 DEF Extract, FitsInPlace
      <4>3. CASE ~FitsInPlace(m)
        <5>1. ExtractInv'
          BY <2>2, ExtractStep
        <5>2. pc' = [pc EXCEPT ![c] = "reading"]
          BY <2>2, <4>3 DEF Extract, FitsInPlace
        <5>3. pc'[c] = "reading" /\ method'[c] = m
          BY <2>2, <5>2 DEF Extract, ExtractInv, Typed
        <5>4. own'[c] # Unset
          BY <4>3, <5>1, <5>3 DEF ExtractInv, CallerInv, InPlace, FitsInPlace
        <5>5. \A d \in Callers \ {c} : own'[d] = own[d]
          BY <2>2, <4>3 DEF Extract, FitsInPlace, ExtractInv, Typed
        <5> QED
          BY <2>2, <4>1, <4>3, <5>2, <5>3, <5>4, <5>5 DEF Extract
      <4> QED
        BY <4>2, <4>3
    <3>2. index[c] = 0 /\ seen[c] = <<>> /\ Typed
      BY <3>1 DEF ExtractInv, CallerInv
    <3>3. PlacedInv(c)' /\ SeenInv(c)'
      <4>1. Placed(c)' = 0
        BY <3>1, <3>2 DEF Placed, InPlace, Typed
      <4>2. seen'[c] = <<>>
        BY <3>1, <3>2
      <4> QED
        BY <4>1, <4>2 DEF PlacedInv, SeenInv
    <3>4. \A d \in Callers \ {c} : PlacedInv(d)' /\ SeenInv(d)'
      BY <3>1, <3>2, ListUndisturbed DEF Typed, ListInv
    <3> QED
      BY <3>3, <3>4 DEF ListInv
  <2>3. ASSUME NEW c \in Callers, AppendOne(c) PROVE ListInv'
    BY <2>3, AppendKeepsLists
  <2>4. ASSUME NEW c \in Callers, ReadOne(c) PROVE ListInv'
    BY <2>4, ReadKeepsLists
  <2>5. ASSUME NEW c \in Callers, Return(c) PROVE ListInv'
    <3>1. PlacedInv(c)' /\ SeenInv(c)'
      <4>1. pc'[c] = "idle" /\ seen'[c] = <<>>
        BY <2>5 DEF Return, ExtractInv, Typed
      <4> QED
        BY <4>1 DEF PlacedInv, SeenInv, Placed
    <3>2. \A d \in Callers \ {c} : PlacedInv(d)' /\ SeenInv(d)'
      BY <2>5, ListUndisturbed DEF Return, ExtractInv, Typed, ListInv
    <3> QED
      BY <3>1, <3>2 DEF ListInv
  <2> QED
    BY <2>1, <2>2, <2>3, <2>4, <2>5 DEF Next
<1> QED
  BY <1>1, <1>2, ExtractInvariant, PTL DEF Spec

\* Then every loop sees its own request's parameters in order, however many
\* requests there are.
THEOREM LoopsSeeTheirParams ==
  ASSUME OneAppendsInPlace PROVE Spec => []SeesItsParams
<1>1. ExtractInv /\ ListInv => SeesItsParams
  <2> SUFFICES ASSUME ExtractInv, ListInv, NEW c \in Callers
               PROVE  IsPrefix(seen[c], Wanted(c))
    BY DEF SeesItsParams, Wanted
  <2>1. /\ seen[c] \in Seq(Entries) /\ Wanted(c) \in Seq(Entries)
        /\ Len(Wanted(c)) = Length(c) /\ Length(c) \in Nat
    BY WantedLayout, ListsTyped DEF ExtractInv, Typed, Length
  <2>2. Len(seen[c]) <= Length(c) /\ \A i \in 1..Len(seen[c]) : seen[c][i] = Wanted(c)[i]
    BY <2>1, ListsTyped DEF ListInv, SeenInv, ExtractInv, CallerInv, Typed
  <2>3. SubSeq(seen[c], 1, Len(seen[c])) = SubSeq(Wanted(c), 1, Len(seen[c]))
    <3>1. SubSeq(seen[c], 1, Len(seen[c])) = [i \in 1..Len(seen[c]) |-> seen[c][i]]
      BY <2>1, SMT
    <3>2. SubSeq(Wanted(c), 1, Len(seen[c])) = [i \in 1..Len(seen[c]) |-> Wanted(c)[i]]
      BY <2>1, SMT
    <3> QED
      BY <2>2, <3>1, <3>2
  <2> QED
    BY <2>1, <2>2, <2>3 DEF IsPrefix
<1>2. Spec => []ListInv
  BY ListInvariant
<1> QED
  BY <1>1, <1>2, ExtractInvariant, PTL

\* The list a caller reads stays its own until its call returns, for any number
\* of requests: KeepsItsParams.
THEOREM ListsKept ==
  ASSUME OneAppendsInPlace PROVE Spec => []KeepsItsParams
<1>1. ExtractInv /\ ListInv => KeepsItsParams
  <2> SUFFICES ASSUME ExtractInv, ListInv, NEW c \in Callers, pc[c] = "reading"
               PROVE  ListOf(c) = Wanted(c)
    BY DEF KeepsItsParams, Wanted
  <2>1. CASE ~InPlace(c)
    BY <2>1 DEF ListOf, ExtractInv, CallerInv
  <2>2. CASE InPlace(c)
    <3>1. /\ Length(c) \in Nat /\ Len(PathParams) \in Nat /\ Len(ParamsOf(method[c])) \in Nat
          /\ Length(c) = Len(PathParams) + Len(ParamsOf(method[c]))
          /\ Length(c) <= Capacity /\ Capacity \in Nat
      BY <2>2, ListsTyped, ExtractionAssumption DEF Length, ExtractInv, CallerInv, FitsInPlace
    <3>2. ListOf(c) = [n \in 1..Length(c) |-> places[n]]
      <4>1. places \in Seq(Entries) /\ Len(places) = Capacity
        BY <3>1 DEF ExtractInv, Typed
      <4>2. SubSeq(places, 1, Length(c)) = [n \in 1..Length(c) |-> places[n]]
        BY <3>1, <4>1, SMT
      <4> QED
        BY <2>2, <4>2 DEF ListOf
    <3>3. Wanted(c) = [n \in 1..Length(c) |-> Wanted(c)[n]]
      BY WantedLayout, <3>1
    <3>4. ASSUME NEW n \in 1..Length(c) PROVE places[n] = Wanted(c)[n]
      <4>1. CASE n <= Len(PathParams)
        BY <3>1, <4>1, WantedLayout DEF ExtractInv, PathInv
      <4>2. CASE ~(n <= Len(PathParams))
        <5> DEFINE k == n - Len(PathParams)
        <5>1. k \in 1..Placed(c) /\ Len(PathParams) + k = n
          BY <2>2, <3>1, <4>2 DEF Placed
        <5>2. places[Len(PathParams) + k] = ParamsOf(method[c])[k]
          BY <5>1 DEF ListInv, PlacedInv
        <5>3. Wanted(c)[n] = ParamsOf(method[c])[k]
          BY <4>2, WantedLayout
        <5> QED
          BY <5>1, <5>2, <5>3
      <4> QED
        BY <4>1, <4>2
    <3> QED
      BY <3>2, <3>3, <3>4
  <2> QED
    BY <2>1, <2>2
<1>2. Spec => []ListInv
  BY ListInvariant
<1> QED
  BY <1>1, <1>2, ExtractInvariant, PTL

--------------------------------------------------------------------------------
(* Splitting a path (PathLookup).                                          *)

\* A set of naturals with 0 and the successor of each of its members is Nat.
LEMMA SetInduction ==
  ASSUME NEW S \in SUBSET Nat, 0 \in S, \A n \in S : n + 1 \in S
  PROVE  S = Nat
<1> SUFFICES ASSUME Nat \ S # {} PROVE FALSE
  OBVIOUS
<1>1. \A i, j \in Nat : i < j => <<i, j>> \in OpToRel(<, Nat)
  BY DEF OpToRel
<1>2. \E i \in Nat \ S : \A j \in Nat \ S : <<j, i>> \notin OpToRel(<, Nat)
  <2>1. Nat \ S \in SUBSET Nat
    OBVIOUS
  <2> QED
    BY <2>1, NatLessThanWellFounded, WFMin
<1>3. PICK i \in Nat \ S : \A j \in Nat \ S : ~(j < i)
  BY <1>1, <1>2, Zenon
<1>4. i # 0 /\ i - 1 \in Nat /\ i - 1 < i
  BY <1>3
<1>5. i - 1 \in S
  BY <1>3, <1>4
<1> QED
  BY <1>3, <1>4, <1>5


\* SplitPath's function, as the prefixes it splits.
Splitting(f, path) ==
  f = [n \in 0..Len(path) |->
         IF n = 0 THEN <<>>
         ELSE IF path[n] = Blank THEN f[n - 1] ELSE Append(f[n - 1], path[n])]

LEMMA SplittingExists ==
  ASSUME NEW path \in Seq(STRING)
  PROVE  \E f : Splitting(f, path)
<1> DEFINE Prefix(f, n) ==
      /\ f \in [0..n -> Seq(STRING)]
      /\ \A m \in 0..n : f[m] = IF m = 0 THEN <<>>
                                ELSE IF path[m] = Blank THEN f[m - 1] ELSE Append(f[m - 1], path[m])
           Reached(n) == \E f : Prefix(f, n)
           S == {n \in Nat : n <= Len(path) => Reached(n)}
<1>1. 0 \in S
  <2>1. Prefix([m \in 0..0 |-> <<>>], 0)
    OBVIOUS
  <2> QED
    BY <2>1
<1>2. \A n \in S : n + 1 \in S
  <2> SUFFICES ASSUME NEW n \in S, n + 1 <= Len(path)
               PROVE  Reached(n + 1)
    <3> HIDE DEF Reached
    <3> QED
      OBVIOUS
  <2>1. PICK f : Prefix(f, n)
    <3>1. n <= Len(path) /\ (n <= Len(path) => Reached(n))
      <4> HIDE DEF Reached
      <4> QED
        OBVIOUS
    <3> QED
      BY <3>1, Zenon
  <2> DEFINE next == IF path[n + 1] = Blank THEN f[n] ELSE Append(f[n], path[n + 1])
             g == [m \in 0..(n + 1) |-> IF m = n + 1 THEN next ELSE f[m]]
  <2>2. path[n + 1] \in STRING /\ f[n] \in Seq(STRING)
    BY <2>1
  <2>3. next \in Seq(STRING)
    BY <2>2, AppendProperties
  <2>4. g \in [0..(n + 1) -> Seq(STRING)]
    <3> HIDE DEF next
    <3> QED
      BY <2>1, <2>3
  <2>5. ASSUME NEW m \in 0..(n + 1)
        PROVE  g[m] = IF m = 0 THEN <<>>
                      ELSE IF path[m] = Blank THEN g[m - 1] ELSE Append(g[m - 1], path[m])
    <3>1. CASE m = n + 1
      <4>1. m # 0 /\ m - 1 = n /\ n \in 0..(n + 1) /\ n # n + 1
        BY <3>1
      <4>2. g[m] = next /\ g[n] = f[n]
        BY <3>1, <4>1, Zenon
      <4> HIDE DEF g
      <4> QED
        BY <3>1, <4>1, <4>2, Zenon
    <3>2. CASE m # n + 1
      <4>1. m \in 0..n /\ g[m] = f[m] /\ (m # 0 => g[m - 1] = f[m - 1])
        BY <3>2
      <4> HIDE DEF g
      <4> QED
        BY <2>1, <4>1
    <3> QED
      BY <3>1, <3>2
  <2>6. Prefix(g, n + 1)
    <3> HIDE DEF g
    <3> QED
      BY <2>4, <2>5
  <2> HIDE DEF Prefix, g
  <2> QED
    BY <2>6
<1>3. Len(path) \in S
  <2>1. S \in SUBSET Nat /\ Len(path) \in Nat
    OBVIOUS
  <2> HIDE DEF S
  <2> QED
    BY <1>1, <1>2, <2>1, SetInduction
<1>4. PICK f : Prefix(f, Len(path))
  BY <1>3
<1>5. Splitting(f, path)
  BY <1>4 DEF Splitting
<1> QED
  BY <1>5

\* A path splits into a sequence of words.
LEMMA SplitPathTyped ==
  ASSUME NEW path \in Seq(STRING)
  PROVE  SplitPath(path) \in Seq(STRING)
<1> DEFINE split == CHOOSE f : Splitting(f, path)
<1>1. Splitting(split, path)
  BY SplittingExists, Zenon
<1>2. SplitPath(path) = split[Len(path)]
  BY Zenon DEF SplitPath, Splitting
<1> HIDE DEF split
<1>3. \A n \in 0..Len(path) :
        split[n] = IF n = 0 THEN <<>>
                   ELSE IF path[n] = Blank THEN split[n - 1] ELSE Append(split[n - 1], path[n])
  BY <1>1, Zenon DEF Splitting
<1> DEFINE S == {n \in Nat : n <= Len(path) => split[n] \in Seq(STRING)}
<1>4. 0 \in S
  <2>1. split[0] = <<>>
    BY <1>3
  <2>2. <<>> \in Seq(STRING) /\ 0 \in Nat
    OBVIOUS
  <2> QED
    BY <2>1, <2>2, Zenon
<1>5. ASSUME NEW n \in S PROVE n + 1 \in S
  <2> SUFFICES ASSUME n + 1 <= Len(path) PROVE split[n + 1] \in Seq(STRING)
    OBVIOUS
  <2>1. n + 1 \in 0..Len(path) /\ n + 1 # 0 /\ (n + 1) - 1 = n
    OBVIOUS
  <2>2. split[n] \in Seq(STRING) /\ path[n + 1] \in STRING
    OBVIOUS
  <2>3. split[n + 1] = IF path[n + 1] = Blank THEN split[n] ELSE Append(split[n], path[n + 1])
    BY <1>3, <2>1, Zenon
  <2> QED
    BY <2>2, <2>3, AppendProperties
<1>6. Len(path) \in S
  <2>1. S \in SUBSET Nat /\ Len(path) \in Nat
    OBVIOUS
  <2> HIDE DEF S
  <2> QED
    BY <1>4, <1>5, <2>1, SetInduction
<1> QED
  BY <1>2, <1>6

--------------------------------------------------------------------------------
(* The radix tree.                                                         *)

\* The words nodes are made of.
Words == STRING \cup {AnyParam}

\* The tree made of the first k items of a document: its nodes are closed under
\* prefixes, the leaf of a node is an item that leads there, and every item
\* inserted leads to a leaf.
IsTree(t, doc, k) ==
  /\ DOMAIN t \subseteq Seq(Words) /\ Root \in DOMAIN t
  /\ \A n \in DOMAIN t : \A l \in 0..Len(n) : SubSeq(n, 1, l) \in DOMAIN t
  /\ \A n \in DOMAIN t :
       t[n] # None => \E i \in 1..k : t[n] = doc[i] /\ NodeOf(doc[i].path) = n
  /\ \A i \in 1..k : NodeOf(doc[i].path) \in DOMAIN t /\ t[NodeOf(doc[i].path)] # None

LEMMA NodeOfTyped ==
  ASSUME NEW path \in Seq(STRING)
  PROVE  NodeOf(path) \in Seq(Words)
<1>1. SplitPath(path) \in Seq(STRING)
  BY SplitPathTyped
<1> HIDE DEF AnyParam
<1> QED
  BY <1>1 DEF NodeOf, Words

LEMMA DocumentTyped ==
  ASSUME NEW doc \in Documents
  PROVE  /\ Len(doc) \in Nat /\ DOMAIN doc = 1..Len(doc)
         /\ \A i \in 1..Len(doc) : /\ doc[i].path \in Seq(STRING) /\ doc[i] # None
                                   /\ NodeOf(doc[i].path) \in Seq(Words)
<1>1. doc \in Seq([path : Seq(STRING), methods : SUBSET STRING])
  BY LookupAssumption
<1>2. Len(doc) \in Nat /\ DOMAIN doc = 1..Len(doc)
  BY <1>1
<1>3. ASSUME NEW i \in 1..Len(doc) PROVE doc[i].path \in Seq(STRING) /\ doc[i] # None
  <2>1. doc[i] \in [path : Seq(STRING), methods : SUBSET STRING]
    BY <1>1, <1>2, ElementOfSeq, Zenon
  <2>2. doc[i] # None
    BY <1>2, LookupAssumption
  <2> QED
    BY <2>1, <2>2
<1> QED
  BY <1>2, <1>3, NodeOfTyped

\* The first nodes on the way to a node are on the way to those in between.
LEMMA PrefixesOfPrefixes ==
  ASSUME NEW n \in Seq(Words), NEW k \in 0..Len(n), NEW l \in 0..k
  PROVE  /\ SubSeq(n, 1, k) \in Seq(Words) /\ Len(SubSeq(n, 1, k)) = k
         /\ SubSeq(SubSeq(n, 1, k), 1, l) = SubSeq(n, 1, l)
<1> HIDE DEF Words
<1>1. k \in Nat /\ l \in Nat /\ Len(n) \in Nat /\ k <= Len(n) /\ l <= k
  OBVIOUS
<1>2. /\ SubSeq(n, 1, k) \in Seq(Words) /\ Len(SubSeq(n, 1, k)) = k
      /\ \A i \in 1..k : SubSeq(n, 1, k)[i] = n[i]
  BY <1>1
<1> QED
  BY <1>1, <1>2

LEMMA InsertedIsTree ==
  ASSUME NEW doc \in Documents, NEW k \in Nat, k < Len(doc), NEW t, IsTree(t, doc, k)
  PROVE  IsTree(Inserted(t, doc[k + 1]), doc, k + 1)
<1> DEFINE item == doc[k + 1]
           node == NodeOf(item.path)
           along == {SubSeq(node, 1, n) : n \in 0..Len(node)}
           new == Inserted(t, item)
<1>1. /\ k + 1 \in 1..Len(doc) /\ item # None
      /\ node \in Seq(Words) /\ Len(node) \in Nat
      /\ \A i \in 1..(k + 1) : i \in 1..k \/ i = k + 1
  BY DocumentTyped
<1>2. node \in along
  <2>1. Len(node) \in 0..Len(node) /\ SubSeq(node, 1, Len(node)) = node
    <3> HIDE DEF node, Words
    <3> QED
      BY <1>1
  <2> QED
    BY <2>1, Zenon
<1>3. /\ DOMAIN new = DOMAIN t \cup along
      /\ \A n \in DOMAIN t \cup along :
           new[n] = IF n = node THEN item ELSE IF n \in DOMAIN t THEN t[n] ELSE None
  BY DEF Inserted
<1> HIDE DEF new, item, node
<1>4. along \subseteq Seq(Words) /\ \A n \in along : \A l \in 0..Len(n) : SubSeq(n, 1, l) \in along
  <2> SUFFICES ASSUME NEW m \in 0..Len(node)
               PROVE  /\ SubSeq(node, 1, m) \in Seq(Words)
                      /\ \A l \in 0..Len(SubSeq(node, 1, m)) :
                           SubSeq(SubSeq(node, 1, m), 1, l) \in along
    OBVIOUS
  <2>1. SubSeq(node, 1, m) \in Seq(Words) /\ Len(SubSeq(node, 1, m)) = m
    BY <1>1, PrefixesOfPrefixes
  <2>2. ASSUME NEW l \in 0..m
        PROVE  SubSeq(SubSeq(node, 1, m), 1, l) \in along
    <3>1. SubSeq(SubSeq(node, 1, m), 1, l) = SubSeq(node, 1, l) /\ l \in 0..Len(node)
      BY <1>1, PrefixesOfPrefixes
    <3> QED
      BY <3>1
  <2> QED
    BY <2>1, <2>2
<1>5. DOMAIN new \subseteq Seq(Words) /\ Root \in DOMAIN new
  BY <1>3, <1>4 DEF IsTree
<1>6. ASSUME NEW n \in DOMAIN new, NEW l \in 0..Len(n) PROVE SubSeq(n, 1, l) \in DOMAIN new
  <2> HIDE DEF along
  <2> QED
    BY <1>3, <1>4, <1>6 DEF IsTree
<1>7. ASSUME NEW n \in DOMAIN new, new[n] # None
      PROVE  \E i \in 1..(k + 1) : new[n] = doc[i] /\ NodeOf(doc[i].path) = n
  <2>1. CASE n = node
    BY <1>1, <1>2, <1>3, <2>1 DEF item, node
  <2>2. CASE n # node
    <3>1. n \in DOMAIN t /\ new[n] = t[n]
      BY <1>3, <1>7, <2>2
    <3>2. PICK i \in 1..k : t[n] = doc[i] /\ NodeOf(doc[i].path) = n
      BY <1>7, <3>1 DEF IsTree
    <3> QED
      BY <3>1, <3>2
  <2> QED
    BY <2>1, <2>2
<1>8. ASSUME NEW i \in 1..(k + 1)
      PROVE  NodeOf(doc[i].path) \in DOMAIN new /\ new[NodeOf(doc[i].path)] # None
  <2>1. CASE NodeOf(doc[i].path) = node
    BY <1>1, <1>2, <1>3, <2>1
  <2>2. CASE NodeOf(doc[i].path) # node
    <3>1. i \in 1..k
      BY <1>1, <2>2 DEF item, node
    <3>2. NodeOf(doc[i].path) \in DOMAIN t /\ t[NodeOf(doc[i].path)] # None
      BY <3>1 DEF IsTree
    <3> QED
      BY <1>3, <2>2, <3>2
  <2> QED
    BY <2>1, <2>2
<1> QED
  BY <1>5, <1>6, <1>7, <1>8 DEF IsTree, new, item

\* What a search for segs finds at a node, given what it finds below.
FoundAt(f, t, segs, n) ==
  IF Len(n) = Len(segs) THEN t[n]
  ELSE LET literal == Append(n, segs[Len(n) + 1])
           param == Append(n, AnyParam)
           byLiteral == IF literal \in DOMAIN t THEN f[literal] ELSE None
       IN  IF byLiteral # None THEN byLiteral
           ELSE IF param \in DOMAIN t THEN f[param] ELSE None

\* Lookup's function.
Shallow(t, segs) == {m \in DOMAIN t : Len(m) <= Len(segs)}
Search(f, t, segs) == f = [n \in Shallow(t, segs) |-> FoundAt(f, t, segs, n)]

\* What is found at a node depends on what is found at its children only.
LEMMA FoundAtChildren ==
  ASSUME NEW t, DOMAIN t \subseteq Seq(Words), NEW segs \in Seq(STRING),
         NEW n \in Shallow(t, segs), NEW f, NEW g,
         \A m \in Shallow(t, segs) : Len(m) = Len(n) + 1 => f[m] = g[m]
  PROVE  FoundAt(f, t, segs, n) = FoundAt(g, t, segs, n)
<1>1. n \in Seq(Words) /\ Len(n) \in Nat /\ Len(segs) \in Nat /\ Len(n) <= Len(segs)
  <2> HIDE DEF Words
  <2> QED
    BY DEF Shallow
<1>2. CASE Len(n) = Len(segs)
  BY <1>2 DEF FoundAt
<1>3. CASE Len(n) # Len(segs)
  <2>1. ASSUME NEW w \in Words, Append(n, w) \in DOMAIN t
        PROVE  f[Append(n, w)] = g[Append(n, w)]
    <3>1. Len(Append(n, w)) = Len(n) + 1
      <4> HIDE DEF Words
      <4> QED
        BY <1>1
    <3>2. Append(n, w) \in Shallow(t, segs)
      BY <1>1, <1>3, <2>1, <3>1 DEF Shallow
    <3> QED
      BY <3>1, <3>2
  <2>2. segs[Len(n) + 1] \in Words /\ AnyParam \in Words
    <3>1. Len(n) + 1 \in 1..Len(segs)
      BY <1>1, <1>3
    <3>2. segs[Len(n) + 1] \in STRING
      BY <3>1
    <3> QED
      BY <3>2 DEF Words
  <2> HIDE DEF Words
  <2> QED
    BY <2>1, <2>2, Zenon DEF FoundAt
<1> QED
  BY <1>2, <1>3

LEMMA SearchExists ==
  ASSUME NEW t, DOMAIN t \subseteq Seq(Words), NEW segs \in Seq(STRING)
  PROVE  \E f : Search(f, t, segs)
<1> DEFINE Deep(k) == {n \in Shallow(t, segs) : Len(segs) <= Len(n) + k}
           Searched(f, k) == f = [n \in Deep(k) |-> FoundAt(f, t, segs, n)]
           Reached(k) == \E f : Searched(f, k)
           S == {k \in Nat : Reached(k)}
<1>0. /\ Len(segs) \in Nat
      /\ \A n \in Shallow(t, segs) : Len(n) \in Nat /\ Len(n) <= Len(segs)
  <2> HIDE DEF Words
  <2> QED
    BY DEF Shallow
<1>1. 0 \in S
  <2> DEFINE f == [n \in Deep(0) |-> t[n]]
  <2>1. \A n \in Deep(0) : Len(n) = Len(segs)
    BY <1>0
  <2>2. \A n \in Deep(0) : FoundAt(f, t, segs, n) = t[n]
    BY <2>1 DEF FoundAt
  <2>3. Searched(f, 0)
    <3> HIDE DEF Deep
    <3> QED
      BY <2>2
  <2> HIDE DEF Searched, f
  <2> QED
    BY <2>3
<1>2. ASSUME NEW k \in S PROVE k + 1 \in S
  <2>0. k \in Nat /\ Reached(k)
    <3> HIDE DEF Reached
    <3> QED
      OBVIOUS
  <2>1. PICK f : Searched(f, k)
    BY <2>0, Zenon
  <2> DEFINE g == [n \in Deep(k + 1) |-> IF n \in Deep(k) THEN f[n] ELSE FoundAt(f, t, segs, n)]
  <2>2. ASSUME NEW n \in Deep(k + 1)
        PROVE  g[n] = FoundAt(g, t, segs, n)
    <3>1. ASSUME NEW m \in Shallow(t, segs), Len(m) = Len(n) + 1
          PROVE  f[m] = g[m]
      <4>1. m \in Deep(k) /\ m \in Deep(k + 1)
        BY <1>0, <2>0, <3>1
      <4> HIDE DEF Deep
      <4> QED
        BY <4>1
    <3>2. n \in Shallow(t, segs)
      OBVIOUS
    <3> HIDE DEF g
    <3>3. FoundAt(f, t, segs, n) = FoundAt(g, t, segs, n)
      BY <3>1, <3>2, FoundAtChildren
    <3> HIDE DEF Deep
    <3>4. g[n] = IF n \in Deep(k) THEN f[n] ELSE FoundAt(f, t, segs, n)
      BY Zenon DEF g
    <3>5. n \in Deep(k) => f[n] = FoundAt(f, t, segs, n)
      BY <2>1, Zenon
    <3> QED
      BY <3>3, <3>4, <3>5, Zenon
  <2>3. Searched(g, k + 1)
    <3>1. g = [n \in Deep(k + 1) |-> g[n]]
      <4> HIDE DEF Deep
      <4> QED
        BY Zenon
    <3>2. [n \in Deep(k + 1) |-> g[n]] = [n \in Deep(k + 1) |-> FoundAt(g, t, segs, n)]
      <4> HIDE DEF Deep, g
      <4> QED
        BY <2>2, Zenon
    <3> HIDE DEF Deep, g
    <3> QED
      BY <3>1, <3>2, Zenon
  <2> HIDE DEF Searched, g
  <2> QED
    BY <2>0, <2>3
<1>3. Len(segs) \in S
  <2>1. S \in SUBSET Nat
    OBVIOUS
  <2> HIDE DEF S
  <2> QED
    BY <1>0, <1>1, <1>2, <2>1, SetInduction
<1>4. PICK f : Searched(f, Len(segs))
  <2> HIDE DEF Searched
  <2> QED
    BY <1>3
<1>5. Deep(Len(segs)) = Shallow(t, segs)
  BY <1>0
<1>6. Search(f, t, segs)
  <2> HIDE DEF Deep
  <2> QED
    BY <1>4, <1>5, Zenon DEF Search
<1> QED
  BY <1>6

\* Lookup is what the search finds at the root.
LEMMA LookupIsSearch ==
  ASSUME NEW t, DOMAIN t \subseteq Seq(Words), NEW path \in Seq(STRING)
  PROVE  \E f : /\ Lookup(t, path) = f[Root]
                /\ \A n \in Shallow(t, SplitPath(path)) :
                     f[n] = FoundAt(f, t, SplitPath(path), n)
<1> DEFINE segs == SplitPath(path)
           found == CHOOSE f : Search(f, t, segs)
<1>1. segs \in Seq(STRING)
  BY SplitPathTyped
<1> HIDE DEF segs
<1>2. Search(found, t, segs)
  BY <1>1, SearchExists, Zenon
<1>3. Lookup(t, path) = found[Root]
  BY Zenon DEF Lookup, Search, Shallow, FoundAt, segs
<1> HIDE DEF found
<1>4. \A n \in Shallow(t, segs) : found[n] = FoundAt(found, t, segs, n)
  BY <1>2, Zenon DEF Search
<1> QED
  BY <1>3, <1>4, Zenon DEF segs

\* The leaves below a node that have the shape of segs.
Below(t, segs, n) ==
  {m \in DOMAIN t :
     /\ t[m] # None /\ Len(m) = Len(segs)
     /\ \A i \in 1..Len(n) : m[i] = n[i]
     /\ \A i \in (Len(n) + 1)..Len(segs) : m[i] \in {AnyParam, segs[i]}}

\* A node found is the most literal one of a set.
MostLiteral(m, nodes) == m \in nodes /\ \A o \in nodes : o = m \/ LiteralFirst(m, o)

\* The right answer of a search at a node.
Right(found, t, nodes) ==
  IF nodes = {} THEN found = None
  ELSE \E m \in nodes : found = t[m] /\ MostLiteral(m, nodes)

PrefixClosed(t) ==
  /\ DOMAIN t \subseteq Seq(Words)
  /\ \A n \in DOMAIN t : \A l \in 0..Len(n) : SubSeq(n, 1, l) \in DOMAIN t

\* At the depth of the request the node itself is all there is.
LEMMA BelowLast ==
  ASSUME NEW t, PrefixClosed(t), NEW segs \in Seq(STRING), NEW n \in DOMAIN t,
         Len(n) = Len(segs)
  PROVE  Below(t, segs, n) = IF t[n] = None THEN {} ELSE {n}
<1>1. n \in Seq(Words) /\ Len(segs) \in Nat
  BY DEF PrefixClosed
<1>2. ASSUME NEW m \in Below(t, segs, n) PROVE m = n /\ t[n] # None
  <2>1. m \in Seq(Words) /\ Len(m) = Len(n) /\ (\A i \in 1..Len(n) : m[i] = n[i]) /\ t[m] # None
    BY <1>2 DEF Below, PrefixClosed
  <2>2. m = n
    BY <1>1, <2>1, SeqEqual
  <2> QED
    BY <2>1, <2>2
<1>3. t[n] # None => n \in Below(t, segs, n)
  BY <1>1 DEF Below
<1> QED
  BY <1>2, <1>3

\* Above it a leaf is below the literal or below the parameter child.
LEMMA BelowChildren ==
  ASSUME NEW t, PrefixClosed(t), NEW segs \in Seq(STRING), NEW n \in Shallow(t, segs),
         Len(n) # Len(segs),
         NEW literal, literal = Append(n, segs[Len(n) + 1]),
         NEW param, param = Append(n, AnyParam)
  PROVE  /\ Len(n) + 1 \in 1..Len(segs)
         /\ Below(t, segs, literal) \cup Below(t, segs, param) = Below(t, segs, n)
         /\ literal \notin DOMAIN t => Below(t, segs, literal) = {}
         /\ param \notin DOMAIN t => Below(t, segs, param) = {}
         /\ \A m \in Below(t, segs, literal) : m[Len(n) + 1] = segs[Len(n) + 1]
         /\ \A m \in Below(t, segs, param) : m[Len(n) + 1] = AnyParam
<1> DEFINE k == Len(n) + 1
<1>1. /\ n \in Seq(Words) /\ Len(n) \in Nat /\ Len(segs) \in Nat /\ k \in 1..Len(segs)
      /\ Len(n) <= Len(segs)
  <2> HIDE DEF Words
  <2> QED
    BY DEF Shallow, PrefixClosed
<1>2. segs[k] \in Words /\ AnyParam \in Words
  <2>1. segs[k] \in STRING
    BY <1>1
  <2> QED
    BY <2>1 DEF Words
<1> HIDE DEF Words
<1>3. ASSUME NEW w \in Words
      PROVE  /\ Append(n, w) \in Seq(Words) /\ Len(Append(n, w)) = k
             /\ Append(n, w)[k] = w
             /\ \A i \in 1..Len(n) : Append(n, w)[i] = n[i]
  BY <1>1, <1>3
<1>4. ASSUME NEW w \in Words, w \in {AnyParam, segs[k]}, NEW m
      PROVE  m \in Below(t, segs, Append(n, w)) <=> m \in Below(t, segs, n) /\ m[k] = w
  <2> DEFINE child == Append(n, w)
  <2>1. /\ Len(child) = k /\ child[k] = w /\ \A i \in 1..Len(n) : child[i] = n[i]
    BY <1>3
  <2>2. /\ \A i : i \in 1..k <=> i \in 1..Len(n) \/ i = k
        /\ \A i : i \in k..Len(segs) <=> i \in (k + 1)..Len(segs) \/ i = k
    BY <1>1
  <2>3. (\A i \in 1..Len(child) : m[i] = child[i]) <=> (\A i \in 1..Len(n) : m[i] = n[i]) /\ m[k] = w
    <3> HIDE DEF child
    <3> QED
      BY <2>1, <2>2, Zenon
  <2>4. m[k] = w =>
          ((\A i \in k..Len(segs) : m[i] \in {AnyParam, segs[i]})
             <=> (\A i \in (k + 1)..Len(segs) : m[i] \in {AnyParam, segs[i]}))
    <3> HIDE DEF k
    <3> QED
      BY <1>4, <2>2, Zenon
  <2> HIDE DEF child
  <2> QED
    BY <2>1, <2>3, <2>4, Zenon DEF Below, child
<1>5. ASSUME NEW m \in Below(t, segs, n)
      PROVE  Append(n, m[k]) \in DOMAIN t /\ m[k] \in {AnyParam, segs[k]}
  <2>1. m \in DOMAIN t /\ Len(m) = Len(segs) /\ m \in Seq(Words) /\ \A i \in 1..Len(n) : m[i] = n[i]
    BY <1>5 DEF Below, PrefixClosed
  <2>2. m[k] \in {AnyParam, segs[k]} /\ m[k] \in Words
    BY <1>1, <1>5, <2>1 DEF Below
  <2>3. SubSeq(m, 1, k) \in DOMAIN t
    BY <1>1, <2>1 DEF PrefixClosed
  <2>4. /\ SubSeq(m, 1, k) \in Seq(Words) /\ Len(SubSeq(m, 1, k)) = k
        /\ \A i \in 1..k : SubSeq(m, 1, k)[i] = m[i]
    BY <1>1, <2>1
  <2>5. SubSeq(m, 1, k) = Append(n, m[k])
    <3>1. ASSUME NEW i \in 1..k PROVE SubSeq(m, 1, k)[i] = Append(n, m[k])[i]
      <4>1. CASE i = k
        BY <1>3, <2>2, <2>4, <4>1
      <4>2. CASE i # k
        <5>1. i \in 1..Len(n)
          BY <1>1, <4>2
        <5> QED
          BY <1>3, <2>1, <2>2, <2>4, <5>1
      <4> QED
        BY <4>1, <4>2
    <3> QED
      BY <1>3, <2>2, <2>4, <3>1, SeqEqual
  <2> QED
    BY <2>2, <2>3, <2>5
<1>6. \A m : m \in Below(t, segs, literal) <=> m \in Below(t, segs, n) /\ m[k] = segs[k]
  BY <1>2, <1>4
<1>7. \A m : m \in Below(t, segs, param) <=> m \in Below(t, segs, n) /\ m[k] = AnyParam
  BY <1>2, <1>4
<1>8. Below(t, segs, literal) \cup Below(t, segs, param) = Below(t, segs, n)
  BY <1>5, <1>6, <1>7
<1> QED
  BY <1>1, <1>5, <1>6, <1>7, <1>8

\* A leaf below the literal child is more literal than one that is only below
\* the parameter child.
LEMMA LiteralChildFirst ==
  ASSUME NEW t, PrefixClosed(t), NEW segs \in Seq(STRING), NEW n \in Shallow(t, segs),
         Len(n) # Len(segs),
         NEW m \in Below(t, segs, Append(n, segs[Len(n) + 1])),
         NEW o \in Below(t, segs, Append(n, AnyParam)),
         segs[Len(n) + 1] # AnyParam
  PROVE  LiteralFirst(m, o)
<1> DEFINE k == Len(n) + 1
           literal == Append(n, segs[k])
           param == Append(n, AnyParam)
<1>1. /\ k \in 1..Len(segs) /\ m[k] = segs[k] /\ o[k] = AnyParam
      /\ m \in Below(t, segs, n) /\ o \in Below(t, segs, n)
  <2>1. /\ Len(n) + 1 \in 1..Len(segs)
        /\ Below(t, segs, literal) \cup Below(t, segs, param) = Below(t, segs, n)
        /\ \A b \in Below(t, segs, literal) : b[Len(n) + 1] = segs[Len(n) + 1]
        /\ \A b \in Below(t, segs, param) : b[Len(n) + 1] = AnyParam
    BY BelowChildren, Zenon
  <2> HIDE DEF literal, param
  <2>2. m \in Below(t, segs, literal) /\ o \in Below(t, segs, param)
    BY DEF literal, param
  <2> QED
    BY <2>1, <2>2, Zenon
<1>2. k \in DOMAIN m /\ Len(n) \in Nat
  <2>1. m \in Seq(Words) /\ Len(m) = Len(segs) /\ n \in Seq(Words)
    BY <1>1 DEF Below, PrefixClosed, Shallow
  <2> HIDE DEF Words
  <2> QED
    BY <1>1, <2>1
<1>3. \A j \in 1..(k - 1) : m[j] = o[j]
  <2>1. k - 1 = Len(n)
    BY <1>2
  <2> QED
    BY <1>1, <2>1 DEF Below
<1> QED
  BY <1>1, <1>2, <1>3 DEF LiteralFirst

\* A search below a node finds a leaf that has the shape of the request iff
\* there is one, and the most literal one.
LEMMA SearchFindsMostLiteral ==
  ASSUME NEW t, PrefixClosed(t), NEW segs \in Seq(STRING), NEW f,
         \A n \in Shallow(t, segs) : f[n] = FoundAt(f, t, segs, n)
  PROVE  \A n \in Shallow(t, segs) : Right(f[n], t, Below(t, segs, n))
<1> DEFINE S == {k \in Nat : \A n \in Shallow(t, segs) :
                     Len(n) + k = Len(segs) => Right(f[n], t, Below(t, segs, n))}
<1>0. /\ Len(segs) \in Nat
      /\ \A n \in Shallow(t, segs) : Len(n) \in Nat /\ Len(n) <= Len(segs) /\ n \in DOMAIN t
  <2> HIDE DEF Words
  <2> QED
    BY DEF Shallow, PrefixClosed
<1>1. 0 \in S
  <2> SUFFICES ASSUME NEW n \in Shallow(t, segs), Len(n) = Len(segs)
               PROVE  Right(f[n], t, Below(t, segs, n))
    BY <1>0
  <2>1. f[n] = t[n] /\ n \in DOMAIN t
    BY <1>0 DEF FoundAt
  <2>2. Below(t, segs, n) = IF t[n] = None THEN {} ELSE {n}
    BY <2>1, BelowLast
  <2> QED
    BY <2>1, <2>2 DEF Right, MostLiteral
<1>2. ASSUME NEW k \in S PROVE k + 1 \in S
  <2> SUFFICES ASSUME NEW n \in Shallow(t, segs), Len(n) + (k + 1) = Len(segs)
               PROVE  Right(f[n], t, Below(t, segs, n))
    OBVIOUS
  <2> DEFINE literal == Append(n, segs[Len(n) + 1])
             param == Append(n, AnyParam)
             byLiteral == IF literal \in DOMAIN t THEN f[literal] ELSE None
             byParam == IF param \in DOMAIN t THEN f[param] ELSE None
             L == Below(t, segs, literal)
             P == Below(t, segs, param)
  <2>1. Len(n) # Len(segs) /\ k \in Nat
    BY <1>0
  <2>2. f[n] = IF byLiteral # None THEN byLiteral ELSE byParam
    BY <2>1 DEF FoundAt
  <2>3. /\ Len(n) + 1 \in 1..Len(segs)
        /\ L \cup P = Below(t, segs, n)
        /\ literal \notin DOMAIN t => L = {}
        /\ param \notin DOMAIN t => P = {}
        /\ \A m \in L : m[Len(n) + 1] = segs[Len(n) + 1]
        /\ \A m \in P : m[Len(n) + 1] = AnyParam
    BY <2>1, BelowChildren, Zenon
  <2>4. ASSUME NEW w \in Words, Append(n, w) \in DOMAIN t
        PROVE  Right(f[Append(n, w)], t, Below(t, segs, Append(n, w)))
    <3>1. Len(Append(n, w)) = Len(n) + 1
      <4> HIDE DEF Words
      <4> QED
        BY <1>0, <2>4 DEF PrefixClosed
    <3>2. Append(n, w) \in Shallow(t, segs) /\ Len(Append(n, w)) + k = Len(segs)
      BY <1>0, <2>1, <2>3, <2>4, <3>1 DEF Shallow
    <3> QED
      BY <3>2
  <2>5. segs[Len(n) + 1] \in Words /\ AnyParam \in Words
    <3>1. segs[Len(n) + 1] \in STRING
      BY <2>3
    <3> QED
      BY <3>1 DEF Words
  <2>6. Right(byLiteral, t, L)
    BY <2>3, <2>4, <2>5, Zenon DEF Right
  <2>7. Right(byParam, t, P)
    BY <2>3, <2>4, <2>5, Zenon DEF Right
  <2>8. \A m \in L, o \in P : segs[Len(n) + 1] # AnyParam => LiteralFirst(m, o)
    BY <2>1, LiteralChildFirst
  <2>9. segs[Len(n) + 1] = AnyParam => L = P
    OBVIOUS
  <2>10. \A m \in Below(t, segs, n) : t[m] # None
    BY DEF Below
  <2> HIDE DEF literal, param, byLiteral, byParam, L, P, S, Words
  <2>11. CASE L # {}
    <3>1. PICK m \in L : byLiteral = t[m] /\ MostLiteral(m, L)
      BY <2>6, <2>11 DEF Right
    <3>2. f[n] = t[m]
      BY <2>2, <2>3, <2>10, <3>1
    <3>3. ASSUME NEW o \in L \cup P PROVE o = m \/ LiteralFirst(m, o)
      BY <2>8, <2>9, <3>1 DEF MostLiteral
    <3> QED
      BY <2>3, <3>2, <3>3 DEF Right, MostLiteral
  <2>12. CASE L = {}
    <3>1. byLiteral = None /\ f[n] = byParam /\ P = Below(t, segs, n)
      BY <2>2, <2>3, <2>6, <2>12 DEF Right
    <3> QED
      BY <2>7, <3>1
  <2> QED
    BY <2>11, <2>12
<1>3. S = Nat
  <2>1. S \in SUBSET Nat
    OBVIOUS
  <2> HIDE DEF S
  <2> QED
    BY <1>1, <1>2, <2>1, SetInduction
<1> QED
  <2> SUFFICES ASSUME NEW n \in Shallow(t, segs) PROVE Right(f[n], t, Below(t, segs, n))
    OBVIOUS
  <2>1. Len(segs) - Len(n) \in Nat /\ Len(n) + (Len(segs) - Len(n)) = Len(segs)
    BY <1>0
  <2> QED
    BY <1>3, <2>1

\* What Lookup finds is the item of a template of the request's shape, and the
\* most literal of them.
LEMMA LookupFindsMostLiteral ==
  ASSUME NEW doc \in Documents, NEW t, IsTree(t, doc, Len(doc)), NEW path \in Seq(STRING),
         NEW found, found = Lookup(t, path),
         NEW fitting, fitting = {i \in DOMAIN doc : ShapeMatches(doc[i].path, path)}
  PROVE  /\ found = None => fitting = {}
         /\ found # None =>
              \E i \in fitting :
                /\ found = doc[i]
                /\ \A j \in fitting : \/ NodeOf(doc[j].path) = NodeOf(doc[i].path)
                                      \/ LiteralFirst(NodeOf(doc[i].path), NodeOf(doc[j].path))
<1> DEFINE segs == SplitPath(path)
           nodes == Below(t, segs, Root)
<1>1. segs \in Seq(STRING) /\ Len(segs) \in Nat
  BY SplitPathTyped
<1>2. PrefixClosed(t) /\ Root \in Shallow(t, segs)
  BY <1>1 DEF IsTree, PrefixClosed, Shallow, Root
<1>3. Right(found, t, nodes)
  <2>1. PICK f : found = f[Root] /\ \A n \in Shallow(t, segs) : f[n] = FoundAt(f, t, segs, n)
    BY <1>2, LookupIsSearch, Zenon DEF PrefixClosed
  <2> HIDE DEF segs
  <2> QED
    BY <1>1, <1>2, <2>1, SearchFindsMostLiteral
<1>4. ASSUME NEW i \in DOMAIN doc
      PROVE  i \in fitting <=> NodeOf(doc[i].path) \in nodes
  <2> DEFINE node == NodeOf(doc[i].path)
  <2>1. node \in Seq(Words) /\ i \in 1..Len(doc)
    BY DocumentTyped
  <2>2. node \in DOMAIN t /\ t[node] # None
    BY <2>1 DEF IsTree
  <2>3. ShapeMatches(doc[i].path, path) <=>
          Len(node) = Len(segs) /\ \A k \in 1..Len(segs) : node[k] \in {AnyParam, segs[k]}
    <3>1. DOMAIN node = 1..Len(node)
      <4> HIDE DEF node
      <4> QED
        BY <2>1
    <3> QED
      BY <3>1, Zenon DEF ShapeMatches
  <2>4. 1..Len(<<>>) = {} /\ Len(<<>>) + 1 = 1
    OBVIOUS
  <2> HIDE DEF node, segs
  <2> QED
    BY <2>2, <2>3, <2>4 DEF Below, Root, node
<1>5. ASSUME NEW m \in nodes
      PROVE  \E i \in DOMAIN doc : t[m] = doc[i] /\ NodeOf(doc[i].path) = m
  BY <1>5, DocumentTyped DEF Below, IsTree
<1> HIDE DEF nodes, segs
<1>6. found = None => nodes = {}
  <2>1. \A m \in nodes : t[m] # None
    BY DEF nodes, Below
  <2> QED
    BY <1>3, <2>1 DEF Right, MostLiteral
<1>7. ASSUME found # None
      PROVE  \E i \in fitting :
                /\ found = doc[i]
                /\ \A j \in fitting : \/ NodeOf(doc[j].path) = NodeOf(doc[i].path)
                                      \/ LiteralFirst(NodeOf(doc[i].path), NodeOf(doc[j].path))
  <2>1. PICK m \in nodes : found = t[m] /\ MostLiteral(m, nodes)
    BY <1>3, <1>7, Zenon DEF Right
  <2>2. PICK i \in DOMAIN doc : t[m] = doc[i] /\ NodeOf(doc[i].path) = m
    BY <1>5
  <2>3. i \in fitting
    BY <1>4, <2>2
  <2>4. ASSUME NEW j \in fitting
        PROVE  NodeOf(doc[j].path) = m \/ LiteralFirst(m, NodeOf(doc[j].path))
    BY <1>4, <2>1 DEF MostLiteral
  <2> QED
    BY <2>1, <2>2, <2>3, <2>4
<1> QED
  BY <1>4, <1>6, <1>7

--------------------------------------------------------------------------------
\* Scores are natural numbers.
LEMMA ScoresTyped ==
  ASSUME NEW path \in Seq(STRING)
  PROVE  /\ Cardinality(Literals(path)) \in Nat
         /\ Cardinality({i \in DOMAIN path : path[i] \in Braced}) \in Nat
         /\ ComputeSpecificityScore(path) \in Nat
<1>1. IsFiniteSet(1..Len(path)) /\ DOMAIN path = 1..Len(path)
  BY FS_Interval
<1>2. \A S \in SUBSET (1..Len(path)) : Cardinality(S) \in Nat
  BY <1>1, FS_Subset, FS_CardinalityType
<1>3. /\ Literals(path) \in SUBSET (1..Len(path))
      /\ {i \in DOMAIN path : path[i] \in Braced} \in SUBSET (1..Len(path))
  BY <1>1 DEF Literals
<1>4. /\ Cardinality(Literals(path)) \in Nat
      /\ Cardinality({i \in DOMAIN path : path[i] \in Braced}) \in Nat
  BY <1>2, <1>3
<1> QED
  BY <1>4 DEF ComputeSpecificityScore

Score(doc, i) == ComputeSpecificityScore(doc[i].path)

\* Among some candidates there is a first one of the highest score.
LEMMA BestIsBest ==
  ASSUME NEW doc \in Documents, NEW candidates \in SUBSET DOMAIN doc, candidates # {}
  PROVE  /\ Best(doc, candidates) \in candidates
         /\ \A j \in candidates : Score(doc, j) <= Score(doc, Best(doc, candidates))
<1> DEFINE Leads(i, S) == i \in S /\ \A j \in S : \/ Score(doc, i) > Score(doc, j)
                                                  \/ Score(doc, i) = Score(doc, j) /\ i <= j
           Upto(n) == {i \in candidates : i <= n}
           S == {n \in Nat : Upto(n) # {} => \E i : Leads(i, Upto(n))}
<1>1. /\ Len(doc) \in Nat /\ candidates \subseteq 1..Len(doc)
      /\ \A i \in candidates : i \in Nat /\ i >= 1 /\ i <= Len(doc) /\ Score(doc, i) \in Nat
  <2>1. Len(doc) \in Nat /\ candidates \subseteq 1..Len(doc)
    BY DocumentTyped
  <2>2. \A i \in candidates : doc[i].path \in Seq(STRING)
    BY <2>1, DocumentTyped
  <2>3. \A i \in candidates : Score(doc, i) \in Nat
    BY <2>2, ScoresTyped DEF Score
  <2> QED
    BY <2>1, <2>3
<1>2. 0 \in S
  <2>1. Upto(0) = {}
    BY <1>1
  <2> QED
    BY <2>1
<1>3. ASSUME NEW n \in S PROVE n + 1 \in S
  <2> SUFFICES ASSUME Upto(n + 1) # {} PROVE \E i : Leads(i, Upto(n + 1))
    OBVIOUS
  <2>1. CASE n + 1 \notin candidates
    <3>1. Upto(n + 1) = Upto(n)
      BY <1>1, <2>1
    <3> HIDE DEF Leads
    <3> QED
      BY <3>1
  <2>2. CASE n + 1 \in candidates
    <3>1. Upto(n + 1) = Upto(n) \cup {n + 1} /\ \A i \in Upto(n) : i \in candidates /\ i <= n
      BY <1>1, <2>2
    <3> HIDE DEF Upto
    <3>2. CASE Upto(n) = {}
      BY <1>1, <2>2, <3>1, <3>2
    <3>3. CASE Upto(n) # {}
      <4>1. PICK i : Leads(i, Upto(n))
        BY <3>3
      <4>2. CASE Score(doc, i) >= Score(doc, n + 1)
        <5>1. Leads(i, Upto(n + 1))
          BY <1>1, <2>2, <3>1, <4>1, <4>2
        <5> QED
          BY <5>1
      <4>3. CASE Score(doc, i) < Score(doc, n + 1)
        <5>1. ASSUME NEW j \in Upto(n) PROVE Score(doc, n + 1) > Score(doc, j)
          <6>1. Score(doc, i) >= Score(doc, j) /\ i \in candidates /\ j \in candidates
            BY <1>1, <3>1, <4>1
          <6> QED
            BY <1>1, <2>2, <4>3, <6>1
        <5>2. Leads(n + 1, Upto(n + 1))
          BY <1>1, <2>2, <3>1, <5>1
        <5> QED
          BY <5>2
      <4> QED
        BY <1>1, <2>2, <3>1, <4>1, <4>2, <4>3
    <3> QED
      BY <3>2, <3>3
  <2> QED
    BY <2>1, <2>2
<1>4. Len(doc) \in S
  <2>1. S \in SUBSET Nat
    OBVIOUS
  <2> HIDE DEF S
  <2> QED
    BY <1>1, <1>2, <1>3, <2>1, SetInduction
<1>5. Upto(Len(doc)) = candidates
  BY <1>1
<1>6. \E i : Leads(i, candidates)
  <2> HIDE DEF Leads, Upto
  <2> QED
    BY <1>4, <1>5
<1>7. Leads(Best(doc, candidates), candidates)
  <2>1. Best(doc, candidates) = CHOOSE i \in candidates : Leads(i, candidates)
    BY Zenon DEF Best, Score
  <2> QED
    BY <1>6, <2>1
<1> QED
  BY <1>1, <1>7

\* The fallback answers with the only candidate if there is just one.
LEMMA SlowPathOfOne ==
  ASSUME NEW doc \in Documents, NEW path, NEW verb, NEW i,
         {j \in DOMAIN doc : ComparePaths(doc[j].path, path)} = {i}
  PROVE  SlowPath(doc, path, verb) =
           [path |-> doc[i].path, missing |-> ~PathHasMethod(doc[i], verb)]
<1> DEFINE candidates == {j \in DOMAIN doc : ComparePaths(doc[j].path, path)}
           withMethod == {j \in candidates : PathHasMethod(doc[j], verb)}
<1>1. candidates = {i} /\ i \in DOMAIN doc
  OBVIOUS
<1>2. SlowPath(doc, path, verb) =
        IF candidates = {} THEN None
        ELSE IF withMethod # {} THEN [path |-> doc[Best(doc, withMethod)].path, missing |-> FALSE]
        ELSE [path |-> doc[Best(doc, candidates)].path, missing |-> TRUE]
  BY Zenon DEF SlowPath
<1>3. Best(doc, {i}) = i
  BY <1>1, BestIsBest
<1>4. CASE PathHasMethod(doc[i], verb)
  <2>1. withMethod = {i}
    BY <1>1, <1>4
  <2>2. (~PathHasMethod(doc[i], verb)) = FALSE
    BY <1>4
  <2> HIDE DEF candidates, withMethod
  <2> QED
    BY <1>1, <1>2, <1>3, <2>1, <2>2
<1>5. CASE ~PathHasMethod(doc[i], verb)
  <2>1. withMethod = {}
    BY <1>1, <1>5
  <2>2. (~PathHasMethod(doc[i], verb)) = TRUE
    BY <1>5
  <2> HIDE DEF candidates, withMethod
  <2> QED
    BY <1>1, <1>2, <1>3, <2>1, <2>2
<1> QED
  BY <1>4, <1>5

\* What the fallback chose: a template that accepts the request, with no better
\* one among those that accept it and have its method.
LEMMA SlowPathChoice ==
  ASSUME NEW doc \in Documents, NEW path, NEW verb,
         NEW chosen, chosen = SlowPath(doc, path, verb),
         chosen # None, ~chosen.missing
  PROVE  \E i \in DOMAIN doc :
           /\ chosen.path = doc[i].path
           /\ ComparePaths(doc[i].path, path) /\ PathHasMethod(doc[i], verb)
           /\ \A j \in DOMAIN doc :
                ComparePaths(doc[j].path, path) /\ PathHasMethod(doc[j], verb)
                  => Score(doc, j) <= Score(doc, i)
<1> DEFINE candidates == {j \in DOMAIN doc : ComparePaths(doc[j].path, path)}
           withMethod == {j \in candidates : PathHasMethod(doc[j], verb)}
<1>1. SlowPath(doc, path, verb) =
        IF candidates = {} THEN None
        ELSE IF withMethod # {} THEN [path |-> doc[Best(doc, withMethod)].path, missing |-> FALSE]
        ELSE [path |-> doc[Best(doc, candidates)].path, missing |-> TRUE]
  BY Zenon DEF SlowPath
<1>2. withMethod # {} /\ chosen.path = doc[Best(doc, withMethod)].path
  <2> HIDE DEF candidates, withMethod
  <2>1. candidates # {}
    BY <1>1, Zenon
  <2>2. withMethod # {}
    BY <1>1, <2>1
  <2> QED
    BY <1>1, <2>1, <2>2
<1>3. /\ Best(doc, withMethod) \in withMethod
      /\ \A j \in withMethod : Score(doc, j) <= Score(doc, Best(doc, withMethod))
  <2>1. withMethod \in SUBSET DOMAIN doc
    OBVIOUS
  <2> HIDE DEF withMethod
  <2> QED
    BY <1>2, <2>1, BestIsBest
<1> QED
  BY <1>2, <1>3

--------------------------------------------------------------------------------
\* The tree is that of the items inserted, or there is none; an answer is what
\* FindPath gives for the request and the whole tree.
RoutingInv ==
  /\ document \in Documents
  /\ inserted \in 0..Len(document)
  /\ \/ tree = None /\ inserted = Len(document)
     \/ IsTree(tree, document, inserted)
  /\ request = None => answer = None
  /\ request # None =>
       /\ request.path \in Paths /\ inserted = Len(document)
       /\ answer = Find(tree, document, request.path, request.method)

LEMMA RoutingInvariant == LookupSpec => []RoutingInv
<1>1. LookupInit => RoutingInv
  <2> SUFFICES ASSUME LookupInit PROVE RoutingInv
    OBVIOUS
  <2>1. Len(document) \in Nat
    BY DocumentTyped DEF LookupInit
  <2>2. IsTree(EmptyTree, document, 0)
    <3>1. DOMAIN EmptyTree = {<<>>} /\ EmptyTree[<<>>] = None
      BY DEF EmptyTree, Root
    <3>2. <<>> \in Seq(Words) /\ Len(<<>>) = 0 /\ \A l \in 0..0 : SubSeq(<<>>, 1, l) = <<>>
      <4> HIDE DEF Words
      <4> QED
        OBVIOUS
    <3>3. 1..0 = {}
      OBVIOUS
    <3> HIDE DEF Words
    <3> QED
      BY <3>1, <3>2, <3>3 DEF IsTree, Root
  <2>3. CASE tree = None
    BY <2>1, <2>3 DEF LookupInit, RoutingInv
  <2>4. CASE tree # None
    BY <2>1, <2>2, <2>4 DEF LookupInit, RoutingInv
  <2> QED
    BY <2>3, <2>4
<1>2. RoutingInv /\ [LookupNext]_lookupVars => RoutingInv'
  <2> SUFFICES ASSUME RoutingInv, [LookupNext]_lookupVars PROVE RoutingInv'
    OBVIOUS
  <2>0. Len(document) \in Nat /\ inserted \in Nat /\ inserted <= Len(document)
    BY DocumentTyped DEF RoutingInv
  <2>1. CASE Insert
    <3>1. request = None
      BY <2>0, <2>1 DEF Insert, RoutingInv
    <3>2. IsTree(tree, document, inserted)
      BY <2>0, <2>1 DEF Insert, RoutingInv
    <3>3. IsTree(tree', document, inserted')
      <4>1. IsTree(Inserted(tree, document[inserted + 1]), document, inserted + 1)
        BY <2>0, <2>1, <3>2, InsertedIsTree DEF Insert, RoutingInv
      <4> QED
        BY <2>1, <4>1 DEF Insert
    <3> QED
      BY <2>0, <2>1, <3>1, <3>3 DEF Insert, RoutingInv
  <2>2. ASSUME NEW path \in Paths, NEW verb \in Verbs, FindPath(path, verb)
        PROVE  RoutingInv'
    <3>1. request' # None
      <4>1. request' \in [path : Paths, method : Verbs]
        BY <2>2 DEF FindPath
      <4> QED
        BY <4>1, LookupAssumption
    <3>2. request'.path = path /\ request'.method = verb
      BY <2>2 DEF FindPath
    <3> QED
      BY <2>2, <3>1, <3>2 DEF FindPath, RoutingInv
  <2>3. CASE Answered
    BY <2>3 DEF Answered, RoutingInv
  <2>4. CASE UNCHANGED lookupVars
    BY <2>4 DEF lookupVars, RoutingInv
  <2> QED
    BY <2>1, <2>2, <2>3, <2>4 DEF LookupNext
<1> QED
  BY <1>1, <1>2, PTL DEF LookupSpec

\* Routing keeps its state well formed.
THEOREM RoutingTyped == LookupSpec => []LookupTypeOK
<1>1. RoutingInv => LookupTypeOK
  BY DEF RoutingInv, LookupTypeOK, IsTree
<1> QED
  BY <1>1, RoutingInvariant, PTL

\* The tree finds a template of the request's shape whenever the document has
\* one, and none that is less literal from the left, whatever the order of the
\* document and however the templates share its nodes.
THEOREM TreeIsRight == LookupSpec => []TreeFindsMostLiteral
<1>1. RoutingInv => TreeFindsMostLiteral
  <2> SUFFICES ASSUME RoutingInv, request # None, tree # None,
                      NEW found, found = Lookup(tree, request.path),
                      NEW fitting,
                      fitting = {i \in DOMAIN document : ShapeMatches(document[i].path, request.path)}
               PROVE  /\ found = None <=> fitting = {}
                      /\ found # None => ShapeMatches(found.path, request.path)
                      /\ found # None =>
                           \A i \in fitting :
                             \/ NodeOf(document[i].path) = NodeOf(found.path)
                             \/ LiteralFirst(NodeOf(found.path), NodeOf(document[i].path))
    BY Zenon DEF TreeFindsMostLiteral
  <2>1. /\ document \in Documents /\ IsTree(tree, document, Len(document))
        /\ request.path \in Seq(STRING)
    BY LookupAssumption DEF RoutingInv
  <2>2. /\ found = None => fitting = {}
        /\ found # None =>
             \E i \in fitting :
               /\ found = document[i]
               /\ \A j \in fitting :
                    \/ NodeOf(document[j].path) = NodeOf(document[i].path)
                    \/ LiteralFirst(NodeOf(document[i].path), NodeOf(document[j].path))
    BY <2>1, LookupFindsMostLiteral
  <2>3. CASE found = None
    BY <2>2, <2>3
  <2>4. CASE found # None
    <3>1. PICK i \in fitting :
            /\ found = document[i]
            /\ \A j \in fitting :
                 \/ NodeOf(document[j].path) = NodeOf(document[i].path)
                 \/ LiteralFirst(NodeOf(document[i].path), NodeOf(document[j].path))
      BY <2>2, <2>4, Zenon
    <3> QED
      BY <2>4, <3>1
  <2> QED
    BY <2>3, <2>4
<1> QED
  BY <1>1, RoutingInvariant, PTL

\* With the tree or without it, a request only one template accepts is routed
\* alike, unless a pattern rejects it.
THEOREM TreeAndRegexAgree == LookupSpec => []TreeAgreesWithRegex
<1>1. RoutingInv => TreeAgreesWithRegex
  <2> SUFFICES ASSUME RoutingInv, request # None,
                      NEW accepting,
                      accepting = {i \in DOMAIN document : ComparePaths(document[i].path, request.path)},
                      NEW fitting,
                      fitting = {i \in DOMAIN document : ShapeMatches(document[i].path, request.path)},
                      Cardinality(accepting) = 1, fitting \subseteq accepting
               PROVE  answer = SlowPath(document, request.path, request.method)
    BY Zenon DEF TreeAgreesWithRegex
  <2>1. /\ document \in Documents /\ Len(document) \in Nat /\ request.path \in Seq(STRING)
        /\ tree = None \/ IsTree(tree, document, Len(document))
        /\ answer = Find(tree, document, request.path, request.method)
    BY DocumentTyped, LookupAssumption DEF RoutingInv
  <2> DEFINE found == Lookup(tree, request.path)
  <2>2. CASE tree = None \/ found = None
    BY <2>1, <2>2 DEF Find
  <2>3. CASE tree # None /\ found # None
    <3>1. PICK i \in fitting : found = document[i]
      BY <2>1, <2>3, LookupFindsMostLiteral
    <3>2. accepting = {i}
      <4>1. accepting \subseteq 1..Len(document)
        BY <2>1, DocumentTyped
      <4>2. IsFiniteSet(accepting)
        BY <2>1, <4>1, FS_Interval, FS_Subset
      <4>3. \E x : accepting = {x}
        BY <4>2, FS_Singleton
      <4> QED
        BY <3>1, <4>3
    <3>3. SlowPath(document, request.path, request.method) =
            [path |-> document[i].path, missing |-> ~PathHasMethod(document[i], request.method)]
      BY <2>1, <3>2, SlowPathOfOne
    <3> HIDE DEF found
    <3>4. answer = [path |-> found.path, missing |-> ~PathHasMethod(found, request.method)]
      BY <2>1, <2>3, Zenon DEF Find, found
    <3> QED
      BY <3>1, <3>3, <3>4, Zenon
  <2> QED
    BY <2>2, <2>3
<1> QED
  BY <1>1, RoutingInvariant, PTL

\* The weights of computeSpecificityScore tell literals from parameters in
\* templates with fewer than a thousand parameters.
WeightsSuffice ==
  \A doc \in Documents : \A i \in DOMAIN doc :
    Cardinality({k \in DOMAIN doc[i].path : doc[i].path[k] \in Braced}) < 1000

\* In such documents no template that accepts the request and has its method is
\* more literal than the one the regex fallback answers with.
THEOREM RegexIsMostLiteral ==
  ASSUME WeightsSuffice
  PROVE  LookupSpec => []RegexPrefersLiterals
<1>1. RoutingInv => RegexPrefersLiterals
  <2> SUFFICES ASSUME RoutingInv, tree = None, answer # None, ~answer.missing,
                      NEW j \in DOMAIN document,
                      ComparePaths(document[j].path, request.path),
                      PathHasMethod(document[j], request.method)
               PROVE  Cardinality(Literals(document[j].path)) <= Cardinality(Literals(answer.path))
    BY DEF RegexPrefersLiterals
  <2>1. /\ document \in Documents
        /\ answer = SlowPath(document, request.path, request.method)
    BY DEF RoutingInv, Find
  <2>2. PICK i \in DOMAIN document :
          answer.path = document[i].path /\ Score(document, j) <= Score(document, i)
    BY <2>1, SlowPathChoice
  <2> DEFINE literals(k) == Cardinality(Literals(document[k].path))
             params(k) == Cardinality({l \in DOMAIN document[k].path : document[k].path[l] \in Braced})
  <2>3. ASSUME NEW k \in DOMAIN document
        PROVE  /\ literals(k) \in Nat /\ params(k) \in Nat /\ params(k) < 1000
               /\ Score(document, k) = 1000 * literals(k) + params(k)
    <3>1. document[k].path \in Seq(STRING)
      BY <2>1, DocumentTyped
    <3>2. literals(k) \in Nat /\ params(k) \in Nat
      BY <3>1, ScoresTyped
    <3>3. params(k) < 1000
      BY <2>1 DEF WeightsSuffice
    <3>4. Score(document, k) = 1000 * literals(k) + params(k)
      BY Zenon DEF Score, ComputeSpecificityScore
    <3> QED
      BY <3>2, <3>3, <3>4, Zenon
  <2> HIDE DEF literals, params
  <2>4. literals(j) <= literals(i)
    BY <2>2, <2>3
  <2> QED
    BY <2>2, <2>4 DEF literals
<1> QED
  BY <1>1, RoutingInvariant, PTL
================================================================================
