---------------------- MODULE SecurityRequirementsProofs ----------------------
(***************************************************************************)
(* Proofs about SecurityRequirements, for any schemes, any requirements of *)
(* operations and documents and any credentials.                           *)
(***************************************************************************)
EXTENDS SecurityRequirements, SequenceTheorems, WellFoundedInduction, TLAPS

Fails(n) == n \notin DOMAIN SchemeOf \/ ~Carries(n)

\* The schemes of a requirement that fail, all of them or those before place k.
FailedOf(requirement) ==
  {n \in Names : /\ \E j \in DOMAIN requirement.schemes : requirement.schemes[j] = n
                 /\ Fails(n)}
FailedBefore(requirement, k) ==
  {n \in Names : /\ \E j \in DOMAIN requirement.schemes : j < k /\ requirement.schemes[j] = n
                 /\ Fails(n)}

Typed ==
  /\ security \in [operation : OperationSecurities, document : DocumentSecurities]
  /\ at \in [requirement : Nat \ {0}, scheme : Nat \ {0}]
  /\ failed \subseteq Names
  /\ errors \in Seq(SUBSET Names)
  /\ called \in Seq(DOMAIN SchemeOf)
  /\ verdict \in {"open", "valid", "invalid"}

\* The requirements before the current one were not satisfied, and errors says why.
GivenUpInv ==
  /\ at.requirement <= Len(Effective) + 1
  /\ Len(errors) = at.requirement - 1
  /\ \A i \in 1..(at.requirement - 1) :
       errors[i] = FailedOf(Effective[i]) /\ ~Satisfied(Effective[i])

\* failed is what went wrong with the current requirement so far.
CurrentInv ==
  at.requirement <= Len(Effective) =>
    /\ at.scheme <= Len(Current.schemes) + 1
    /\ failed = FailedBefore(Current, at.scheme)

VerdictInv ==
  /\ verdict = "valid" =>
       \/ ~options.SecurityValidation
       \/ Effective = <<>>
       \/ at.requirement <= Len(Effective) /\ Satisfied(Current)
  /\ verdict = "invalid" =>
       /\ options.SecurityValidation
       /\ Effective # <<>>
       /\ at.requirement > Len(Effective)

LoopInv == Typed /\ GivenUpInv /\ CurrentInv /\ VerdictInv

--------------------------------------------------------------------------------
\* The requirements tried are a sequence of requirements.
LEMMA EffectiveTyped ==
  ASSUME Typed
  PROVE  /\ Effective \in Seq(Requirements)
         /\ Len(Effective) \in Nat
<1>1. CASE security.operation # None
  BY <1>1, SecurityAssumption DEF Typed, Effective
<1>2. CASE security.operation = None /\ security.document # None
  BY <1>2, SecurityAssumption DEF Typed, Effective
<1>3. CASE security.operation = None /\ security.document = None
  BY <1>3 DEF Effective
<1> QED
  BY <1>1, <1>2, <1>3

\* The same, for the requirement that is being tried.
LEMMA CurrentTyped ==
  ASSUME Typed, at.requirement <= Len(Effective)
  PROVE  /\ Current \in Requirements
         /\ Current.schemes \in Seq(Names)
         /\ Len(Current.schemes) \in Nat
<1>1. at.requirement \in 1..Len(Effective)
  BY EffectiveTyped DEF Typed
<1>2. Current \in Requirements
  BY <1>1, EffectiveTyped, ElementOfSeq DEF Current
<1> QED
  BY <1>2 DEF Requirements

\* While the request and the requirements stay, so does what they say.
LEMMA InputsUndisturbed ==
  ASSUME UNCHANGED <<options, security, request>>
  PROVE  /\ Effective' = Effective
         /\ \A n : Fails(n)' <=> Fails(n)
         /\ \A r : Satisfied(r)' <=> Satisfied(r)
         /\ \A r : FailedOf(r)' = FailedOf(r)
         /\ \A r, k : FailedBefore(r, k)' = FailedBefore(r, k)
BY DEF Effective, Fails, Satisfied, FailedOf, FailedBefore, Carries, IsLookedFor

\* A requirement whose schemes were all tried is satisfied if none failed.
LEMMA SatisfiedIffNoneFailed ==
  ASSUME NEW r \in Requirements, ~r.empty
  PROVE  Satisfied(r) <=> FailedOf(r) = {}
<1>1. r.schemes \in Seq(Names)
  BY DEF Requirements
<1>2. \A j \in DOMAIN r.schemes : r.schemes[j] \in Names
  BY <1>1, ElementOfSeq
<1>3. Satisfied(r) <=> \A j \in DOMAIN r.schemes : ~Fails(r.schemes[j])
  BY DEF Satisfied, Fails
<1> QED
  BY <1>2, <1>3 DEF FailedOf

\* A verdict leaves the loop where it is.
LEMMA DecideStep ==
  ASSUME LoopInv, NEW v \in {"valid", "invalid"}, Decide(v),
         v = "valid" =>
           \/ ~options.SecurityValidation
           \/ Effective = <<>>
           \/ at.requirement <= Len(Effective) /\ Satisfied(Current),
         v = "invalid" =>
           /\ options.SecurityValidation
           /\ Effective # <<>>
           /\ at.requirement > Len(Effective)
  PROVE  LoopInv'
<1>1. verdict' = v /\ UNCHANGED <<options, security, request, at, failed, errors, called>>
  BY DEF Decide
<1>2. /\ Effective' = Effective /\ Current' = Current
      /\ Satisfied(Current)' <=> Satisfied(Current)
  BY <1>1, InputsUndisturbed DEF Current
<1>3. Typed'
  BY <1>1 DEF LoopInv, Typed
<1>4. GivenUpInv'
  BY <1>1, <1>2, InputsUndisturbed DEF LoopInv, GivenUpInv
<1>5. CurrentInv'
  BY <1>1, <1>2, InputsUndisturbed DEF LoopInv, CurrentInv
<1>6. VerdictInv'
  BY <1>1, <1>2 DEF VerdictInv
<1> QED
  BY <1>3, <1>4, <1>5, <1>6 DEF LoopInv

\* Trying a scheme records its failure and goes on to the next.
LEMMA TrySchemeStep ==
  ASSUME LoopInv, verdict = "open", TryScheme
  PROVE  LoopInv'
<1> DEFINE name == Current.schemes[at.scheme]
<1>1. /\ at' = [at EXCEPT !.scheme = @ + 1]
      /\ failed' = IF Fails(name) THEN failed \cup {name} ELSE failed
      /\ \/ called' = called
         \/ called' = Append(called, name) /\ name \in DOMAIN SchemeOf
      /\ UNCHANGED <<options, security, request, errors, verdict>>
      /\ at.requirement <= Len(Effective) /\ at.scheme <= Len(Current.schemes)
  BY DEF TryScheme, Trying, Scheme, Fails
<1>2. Typed /\ GivenUpInv /\ CurrentInv
  BY DEF LoopInv
<1>3. /\ Effective' = Effective /\ Current' = Current
      /\ at'.requirement = at.requirement /\ at'.scheme = at.scheme + 1
      /\ at.requirement \in Nat \ {0} /\ at.scheme \in Nat \ {0}
  BY <1>1, <1>2, InputsUndisturbed DEF Current, Typed
<1>4. /\ at.scheme \in DOMAIN Current.schemes /\ name \in Names
      /\ Current.schemes \in Seq(Names) /\ Len(Current.schemes) \in Nat
  BY <1>1, <1>2, <1>3, CurrentTyped, ElementOfSeq
<1>5. Typed'
  <2>1. called' \in Seq(DOMAIN SchemeOf)
    <3>1. called \in Seq(DOMAIN SchemeOf)
      BY <1>2 DEF Typed
    <3>2. CASE called' = called
      BY <3>1, <3>2
    <3>3. CASE called' = Append(called, name) /\ name \in DOMAIN SchemeOf
      <4> DEFINE defined == DOMAIN SchemeOf
      <4>1. called \in Seq(defined) /\ name \in defined
        BY <3>1, <3>3
      <4> HIDE DEF defined, name
      <4>2. Append(called, name) \in Seq(defined)
        BY <4>1, AppendProperties
      <4> QED
        BY <3>3, <4>2 DEF defined
    <3> QED
      BY <1>1, <3>2, <3>3
  <2>2. at' \in [requirement : Nat \ {0}, scheme : Nat \ {0}]
    BY <1>1, <1>2 DEF Typed
  <2> QED
    BY <1>1, <1>2, <1>4, <2>1, <2>2 DEF Typed
<1>6. GivenUpInv'
  BY <1>1, <1>2, <1>3, InputsUndisturbed DEF GivenUpInv
<1>7. CurrentInv'
  <2>1. failed' = FailedBefore(Current, at.scheme + 1)
    <3>1. failed = FailedBefore(Current, at.scheme)
      BY <1>1, <1>2 DEF CurrentInv
    <3>2. \A j \in DOMAIN Current.schemes : j < at.scheme + 1 <=> j < at.scheme \/ j = at.scheme
      BY <1>3, <1>4
    <3> HIDE DEF Current
    <3> QED
      BY <1>1, <1>4, <3>1, <3>2 DEF FailedBefore
  <2>2. at'.scheme <= Len(Current.schemes) + 1
    BY <1>1, <1>3, <1>4
  <2> QED
    BY <1>1, <1>3, <2>1, <2>2, InputsUndisturbed DEF CurrentInv
<1>8. VerdictInv'
  BY <1>1 DEF VerdictInv
<1> QED
  BY <1>5, <1>6, <1>7, <1>8 DEF LoopInv

\* When a requirement was tried to its end, failed holds all that failed in it.
LEMMA TriedToItsEnd ==
  ASSUME LoopInv, RequirementTried
  PROVE  /\ Current \in Requirements /\ ~Current.empty
         /\ at.requirement <= Len(Effective)
         /\ failed = FailedOf(Current)
<1>1. /\ at.requirement <= Len(Effective) /\ ~Current.empty
      /\ at.scheme > Len(Current.schemes) /\ Typed /\ CurrentInv
  BY DEF RequirementTried, Trying, LoopInv
<1>2. Current \in Requirements /\ Current.schemes \in Seq(Names) /\ Len(Current.schemes) \in Nat
  BY <1>1, CurrentTyped
<1>3. \A j \in DOMAIN Current.schemes : j < at.scheme
  BY <1>1, <1>2 DEF Typed
<1> HIDE DEF Current
<1> QED
  BY <1>1, <1>2, <1>3 DEF CurrentInv, FailedBefore, FailedOf

\* The next alternative starts afresh, and the failures of this one are kept.
LEMMA GiveUpStep ==
  ASSUME LoopInv, verdict = "open", GiveUp
  PROVE  LoopInv'
<1>1. /\ errors' = Append(errors, failed)
      /\ failed' = {}
      /\ at' = [requirement |-> at.requirement + 1, scheme |-> 1]
      /\ UNCHANGED <<options, security, request, called, verdict>>
      /\ RequirementTried /\ failed # {}
  BY DEF GiveUp
<1>2. Typed /\ GivenUpInv
  BY DEF LoopInv
<1>3. /\ Effective' = Effective /\ Len(Effective) \in Nat
      /\ at'.requirement = at.requirement + 1 /\ at'.scheme = 1
      /\ at.requirement \in Nat \ {0}
  BY <1>1, <1>2, InputsUndisturbed, EffectiveTyped DEF Typed
<1>4. /\ at.requirement <= Len(Effective) /\ failed = FailedOf(Effective[at.requirement])
      /\ ~Satisfied(Effective[at.requirement])
  BY <1>1, TriedToItsEnd, SatisfiedIffNoneFailed DEF Current
<1>5. Typed'
  <2>1. at' \in [requirement : Nat \ {0}, scheme : Nat \ {0}]
    BY <1>1, <1>3
  <2> QED
    BY <1>1, <1>2, <2>1, AppendProperties DEF Typed
<1>6. GivenUpInv'
  <2>1. /\ Len(errors') = at.requirement
        /\ \A i \in 1..(at.requirement - 1) : errors'[i] = errors[i]
        /\ errors'[at.requirement] = failed
    BY <1>1, <1>2, <1>3 DEF Typed, GivenUpInv
  <2>2. ASSUME NEW i \in 1..at.requirement
        PROVE  errors'[i] = FailedOf(Effective[i]) /\ ~Satisfied(Effective[i])
    <3>1. CASE i = at.requirement
      BY <1>4, <2>1, <3>1
    <3>2. CASE i # at.requirement
      <4>1. i \in 1..(at.requirement - 1)
        BY <1>3, <3>2
      <4> QED
        BY <1>2, <2>1, <4>1 DEF GivenUpInv
    <3> QED
      BY <3>1, <3>2
  <2>3. \A i \in 1..at.requirement :
          errors'[i] = FailedOf(Effective[i])' /\ ~Satisfied(Effective[i])'
    BY <1>1, <1>3, <2>2, InputsUndisturbed
  <2> QED
    BY <1>3, <1>4, <2>1, <2>3 DEF GivenUpInv
<1>7. CurrentInv'
  <2> SUFFICES ASSUME at'.requirement <= Len(Effective')
               PROVE  1 <= Len(Current'.schemes) + 1 /\ {} = FailedBefore(Current, 1)'
    BY <1>1, <1>3 DEF CurrentInv
  <2>1. Current' \in Requirements /\ Len(Current'.schemes) \in Nat /\ Current'.schemes \in Seq(Names)
    <3>1. at'.requirement \in 1..Len(Effective)
      BY <1>3
    <3>2. Current' = Effective[at'.requirement]
      BY <1>3 DEF Current
    <3>3. Effective[at'.requirement] \in Requirements
      BY <1>2, <3>1, EffectiveTyped, ElementOfSeq
    <3>4. \A r \in Requirements : r.schemes \in Seq(Names) /\ Len(r.schemes) \in Nat
      BY DEF Requirements
    <3> QED
      BY <3>2, <3>3, <3>4, Zenon
  <2>2. FailedBefore(Current', 1) = {}
    BY <2>1 DEF FailedBefore
  <2> QED
    BY <1>1, <2>1, <2>2, InputsUndisturbed
<1>8. VerdictInv'
  BY <1>1 DEF VerdictInv
<1> QED
  BY <1>5, <1>6, <1>7, <1>8 DEF LoopInv

\* LoopInv holds throughout the loop.
THEOREM LoopInvariant == Spec => []LoopInv
<1>1. Init => LoopInv
  <2> SUFFICES ASSUME Init PROVE LoopInv
    OBVIOUS
  <2>1. Typed
    BY DEF Init, Typed
  <2>2. at.requirement = 1 /\ at.scheme = 1 /\ failed = {} /\ errors = <<>>
    BY DEF Init
  <2>3. GivenUpInv
    BY <2>1, <2>2, EffectiveTyped DEF GivenUpInv
  <2>4. CurrentInv
    <3> SUFFICES ASSUME at.requirement <= Len(Effective)
                 PROVE  1 <= Len(Current.schemes) + 1 /\ {} = FailedBefore(Current, 1)
      BY <2>2 DEF CurrentInv
    <3>1. Current.schemes \in Seq(Names) /\ Len(Current.schemes) \in Nat
      BY <2>1, CurrentTyped
    <3> HIDE DEF Current
    <3> QED
      BY <3>1 DEF FailedBefore
  <2>5. VerdictInv
    BY DEF Init, VerdictInv
  <2> QED
    BY <2>1, <2>3, <2>4, <2>5 DEF LoopInv
<1>2. LoopInv /\ [Next]_vars => LoopInv'
  <2> SUFFICES ASSUME LoopInv, [Next]_vars PROVE LoopInv'
    OBVIOUS
  <2>1. CASE UNCHANGED vars
    <3>1. UNCHANGED <<options, security, request, at, failed, errors, called, verdict>>
      BY <2>1 DEF vars
    <3>2. /\ Effective' = Effective /\ Current' = Current
          /\ Satisfied(Current)' <=> Satisfied(Current)
      BY <3>1, InputsUndisturbed DEF Current
    <3>3. Typed'
      BY <3>1 DEF LoopInv, Typed
    <3>4. GivenUpInv'
      BY <3>1, <3>2, InputsUndisturbed DEF LoopInv, GivenUpInv
    <3>5. CurrentInv'
      BY <3>1, <3>2, InputsUndisturbed DEF LoopInv, CurrentInv
    <3>6. VerdictInv'
      BY <3>1, <3>2 DEF LoopInv, VerdictInv
    <3> QED
      BY <3>3, <3>4, <3>5, <3>6 DEF LoopInv
  <2>2. CASE Next
    <3>1. CASE Skip
      BY <3>1, DecideStep DEF Skip
    <3>2. CASE NothingRequired
      BY <3>2, DecideStep DEF NothingRequired
    <3>3. CASE Refuse
      BY <3>3, DecideStep DEF Refuse
    <3>4. CASE AcceptEmpty
      BY <3>4, DecideStep DEF AcceptEmpty, Trying, Satisfied
    <3>5. CASE TryScheme
      BY <2>2, <3>5, TrySchemeStep DEF Next
    <3>6. CASE Accept
      <4>1. at.requirement <= Len(Effective) /\ Satisfied(Current)
        BY <3>6, TriedToItsEnd, SatisfiedIffNoneFailed DEF Accept
      <4> QED
        BY <3>6, <4>1, DecideStep DEF Accept
    <3>7. CASE GiveUp
      BY <2>2, <3>7, GiveUpStep DEF Next
    <3> QED
      BY <2>2, <3>1, <3>2, <3>3, <3>4, <3>5, <3>6, <3>7 DEF Next
  <2> QED
    BY <2>1, <2>2
<1> QED
  BY <1>1, <1>2, PTL DEF Spec

\* The loop stays within the requirements and calls the user's function for
\* defined schemes only.
THEOREM TypeCorrect == Spec => []TypeOK
<1>1. LoopInv => TypeOK
  <2> SUFFICES ASSUME LoopInv PROVE TypeOK
    OBVIOUS
  <2>1. at.requirement \in 1..(Len(Effective) + 1)
    BY EffectiveTyped DEF LoopInv, Typed, GivenUpInv
  <2> QED
    BY <2>1, ElementOfSeq DEF LoopInv, Typed, TypeOK
<1> QED
  BY <1>1, LoopInvariant, PTL

\* The verdict is the OR over the requirements in effect of the AND over their
\* schemes, for all documents, operations and requests.
THEOREM VerdictIsExact == Spec => []VerdictExact
<1>1. LoopInv => VerdictExact
  <2> SUFFICES ASSUME LoopInv, verdict # "open"
               PROVE  verdict = "valid" <=>
                        \/ ~options.SecurityValidation
                        \/ InEffect \in {None, <<>>}
                        \/ \E i \in DOMAIN InEffect : Satisfied(InEffect[i])
    BY DEF VerdictExact
  <2>1. /\ InEffect = None \/ InEffect = Effective
        /\ InEffect = None => Effective = <<>>
    BY DEF InEffect, Effective
  <2>2. /\ Effective \in Seq(Requirements) /\ Len(Effective) \in Nat
        /\ at.requirement \in Nat \ {0}
    BY EffectiveTyped DEF LoopInv, Typed
  <2>3. CASE verdict = "valid"
    <3>1. CASE at.requirement <= Len(Effective) /\ Satisfied(Current)
      <4>1. at.requirement \in DOMAIN Effective /\ Effective # <<>>
        BY <2>2, <3>1
      <4> QED
        BY <2>1, <2>3, <3>1, <4>1 DEF Current
    <3>2. CASE ~options.SecurityValidation \/ Effective = <<>>
      BY <2>1, <2>3, <3>2
    <3> QED
      BY <2>3, <3>1, <3>2 DEF LoopInv, VerdictInv
  <2>4. CASE verdict = "invalid"
    <3>1. /\ options.SecurityValidation /\ Effective # <<>>
          /\ at.requirement > Len(Effective)
      BY <2>4 DEF LoopInv, VerdictInv
    <3>2. \A i \in 1..Len(Effective) : ~Satisfied(Effective[i])
      BY <2>2, <3>1 DEF LoopInv, GivenUpInv
    <3>3. InEffect = Effective /\ DOMAIN Effective = 1..Len(Effective)
      BY <2>1, <2>2, <3>1
    <3>4. Effective # None
      BY <2>1, <3>1, <3>3
    <3> QED
      BY <2>4, <3>1, <3>2, <3>3, <3>4
  <2> QED
    BY <2>3, <2>4 DEF LoopInv, Typed
<1> QED
  BY <1>1, LoopInvariant, PTL

\* A refusal names, for each alternative, exactly what failed in it.
THEOREM RefusalIsExplained == Spec => []RefusalExplained
<1>1. LoopInv => RefusalExplained
  <2> SUFFICES ASSUME LoopInv, verdict = "invalid"
               PROVE  /\ Len(errors) = Len(InEffect)
                      /\ \A i \in DOMAIN errors : errors[i] = FailedOf(InEffect[i])
    BY DEF RefusalExplained, FailedOf, Fails
  <2>1. /\ Effective # <<>> /\ at.requirement > Len(Effective)
        /\ at.requirement <= Len(Effective) + 1 /\ Len(errors) = at.requirement - 1
        /\ \A i \in 1..(at.requirement - 1) : errors[i] = FailedOf(Effective[i])
    BY DEF LoopInv, VerdictInv, GivenUpInv
  <2>2. InEffect = Effective
    BY <2>1 DEF InEffect, Effective
  <2>3. DOMAIN errors = 1..(at.requirement - 1) /\ Len(errors) = Len(Effective)
    BY <2>1, EffectiveTyped DEF LoopInv, Typed
  <2> QED
    BY <2>1, <2>2, <2>3
<1> QED
  BY <1>1, LoopInvariant, PTL

--------------------------------------------------------------------------------
(* Which calls of the AuthenticationFunc are made.                         *)

\* A set of naturals with 0 and the successor of each of its members is Nat.
LEMMA SetInduction ==
  ASSUME NEW S \in SUBSET Nat, 0 \in S, \A n \in S : n + 1 \in S
  PROVE  S = Nat
<1> SUFFICES ASSUME Nat \ S # {} PROVE FALSE
  OBVIOUS
<1>1. \A i, j \in Nat : i < j => <<i, j>> \in OpToRel(<, Nat)
  BY DEF OpToRel
<1>2. \E i \in Nat \ S : \A j \in Nat \ S : <<j, i>> \notin OpToRel(<, Nat)
  <2>1. Nat \ S \in SUBSET Nat
    OBVIOUS
  <2> QED
    BY <2>1, NatLessThanWellFounded, WFMin
<1>3. PICK i \in Nat \ S : \A j \in Nat \ S : ~(j < i)
  BY <1>1, <1>2, Zenon
<1>4. i # 0 /\ i - 1 \in Nat /\ i - 1 < i
  BY <1>3
<1>5. i - 1 \in S
  BY <1>3, <1>4
<1> QED
  BY <1>3, <1>4, <1>5

\* ConcatUpTo's function, as the prefixes it concatenates.
Concatenation(f, lists) ==
  f = [m \in 0..Len(lists) |-> IF m = 0 THEN <<>> ELSE f[m - 1] \o lists[m]]

LEMMA ConcatenationExists ==
  ASSUME NEW E, NEW lists \in Seq(Seq(E))
  PROVE  \E f : Concatenation(f, lists)
<1> DEFINE Prefix(f, n) ==
      /\ f \in [0..n -> Seq(E)]
      /\ \A m \in 0..n : f[m] = IF m = 0 THEN <<>> ELSE f[m - 1] \o lists[m]
           Reached(n) == \E f : Prefix(f, n)
           S == {n \in Nat : n <= Len(lists) => Reached(n)}
<1>1. 0 \in S
  <2>1. Prefix([m \in 0..0 |-> <<>>], 0)
    OBVIOUS
  <2> QED
    BY <2>1
<1>2. \A n \in S : n + 1 \in S
  <2> SUFFICES ASSUME NEW n \in S, n + 1 <= Len(lists)
               PROVE  Reached(n + 1)
    <3> HIDE DEF Reached
    <3> QED
      OBVIOUS
  <2>1. PICK f : Prefix(f, n)
    <3>1. n <= Len(lists) /\ (n <= Len(lists) => Reached(n))
      <4> HIDE DEF Reached
      <4> QED
        OBVIOUS
    <3> QED
      BY <3>1, Zenon
  <2> DEFINE g == [m \in 0..(n + 1) |-> IF m = n + 1 THEN f[n] \o lists[n + 1] ELSE f[m]]
  <2>2. lists[n + 1] \in Seq(E) /\ f[n] \in Seq(E)
    BY <2>1
  <2>3. f[n] \o lists[n + 1] \in Seq(E)
    BY <2>2, ConcatProperties
  <2>4. g \in [0..(n + 1) -> Seq(E)]
    BY <2>1, <2>3
  <2>5. ASSUME NEW m \in 0..(n + 1)
        PROVE  g[m] = IF m = 0 THEN <<>> ELSE g[m - 1] \o lists[m]
    <3>1. CASE m = n + 1
      <4>1. m # 0 /\ m - 1 = n /\ n \in 0..(n + 1) /\ n # n + 1
        BY <3>1
      <4>2. g[m] = f[n] \o lists[n + 1] /\ g[n] = f[n]
        BY <3>1, <4>1, Zenon
      <4> HIDE DEF g
      <4> QED
        BY <3>1, <4>1, <4>2
    <3>2. CASE m # n + 1
      <4>1. m \in 0..n /\ g[m] = f[m] /\ (m # 0 => g[m - 1] = f[m - 1])
        BY <3>2
      <4> HIDE DEF g
      <4> QED
        BY <2>1, <4>1
    <3> QED
      BY <3>1, <3>2
  <2>6. Prefix(g, n + 1)
    BY <2>4, <2>5
  <2> HIDE DEF Prefix, g
  <2> QED
    BY <2>6
<1>3. Len(lists) \in S
  <2>1. S \in SUBSET Nat /\ Len(lists) \in Nat
    OBVIOUS
  <2> HIDE DEF S
  <2> QED
    BY <1>1, <1>2, <2>1, SetInduction
<1>4. PICK f : Prefix(f, Len(lists))
  BY <1>3
<1>5. Concatenation(f, lists)
  BY <1>4 DEF Concatenation
<1> QED
  BY <1>5

\* ConcatUpTo adds one list at a time.
LEMMA ConcatSteps ==
  ASSUME NEW E, NEW lists \in Seq(Seq(E))
  PROVE  /\ ConcatUpTo(lists, 0) = <<>>
         /\ \A n \in 1..Len(lists) :
              ConcatUpTo(lists, n) = ConcatUpTo(lists, n - 1) \o lists[n]
<1> DEFINE concat == CHOOSE f : Concatenation(f, lists)
<1>1. Concatenation(concat, lists)
  BY ConcatenationExists, Zenon
<1>2. \A n : ConcatUpTo(lists, n) = concat[n]
  BY Zenon DEF ConcatUpTo, Concatenation
<1> HIDE DEF concat
<1>3. \A m \in 0..Len(lists) : concat[m] = IF m = 0 THEN <<>> ELSE concat[m - 1] \o lists[m]
  BY <1>1, Zenon DEF Concatenation
<1>4. 0 \in 0..Len(lists)
  OBVIOUS
<1>5. \A n \in 1..Len(lists) : n \in 0..Len(lists) /\ n # 0
  OBVIOUS
<1> QED
  BY <1>2, <1>3, <1>4, <1>5, Zenon

\* What it concatenates stays a sequence of the same elements.
LEMMA ConcatTyped ==
  ASSUME NEW E, NEW lists \in Seq(Seq(E)), NEW n \in 0..Len(lists)
  PROVE  ConcatUpTo(lists, n) \in Seq(E)
<1> DEFINE S == {k \in Nat : k <= Len(lists) => ConcatUpTo(lists, k) \in Seq(E)}
<1>1. 0 \in S
  <2>1. ConcatUpTo(lists, 0) \in Seq(E)
    <3>1. ConcatUpTo(lists, 0) = <<>>
      BY ConcatSteps
    <3>2. <<>> \in Seq(E)
      OBVIOUS
    <3> QED
      BY <3>1, <3>2, Zenon
  <2>2. 0 \in Nat
    OBVIOUS
  <2> QED
    BY <2>1, <2>2, Zenon
<1>2. ASSUME NEW k \in S PROVE k + 1 \in S
  <2> SUFFICES ASSUME k + 1 <= Len(lists) PROVE ConcatUpTo(lists, k + 1) \in Seq(E)
    OBVIOUS
  <2>1. k + 1 \in 1..Len(lists) /\ (k + 1) - 1 = k
    OBVIOUS
  <2>2. ConcatUpTo(lists, k) \in Seq(E) /\ lists[k + 1] \in Seq(E)
    BY <2>1
  <2>3. ConcatUpTo(lists, k + 1) = ConcatUpTo(lists, k) \o lists[k + 1]
    BY <2>1, ConcatSteps
  <2> QED
    BY <2>2, <2>3, ConcatProperties
<1>3. n \in S
  <2>1. S \in SUBSET Nat /\ n \in Nat
    OBVIOUS
  <2> HIDE DEF S
  <2> QED
    BY <1>1, <1>2, <2>1, SetInduction
<1> QED
  BY <1>3

\* The call each scheme of a requirement accounts for, and the calls each
\* requirement of a list does.
SchemeCalls(r) ==
  [i \in DOMAIN r.schemes |->
     IF r.schemes[i] \in DOMAIN SchemeOf THEN <<r.schemes[i]>> ELSE <<>>]
RequirementCalls(list) == [i \in DOMAIN list |-> CallsOf(list[i])]

\* The calls made when the loop over a list is at scheme k of requirement r.
CallsAt(list, r, k) ==
  ConcatUpTo(RequirementCalls(list), r - 1)
    \o (IF r > Len(list) \/ list[r].empty THEN <<>> ELSE CallsUpTo(list[r], k - 1))

\* So far the function was called as the requirements behind demand, and then
\* for the schemes of the current one that were tried, all of them when the
\* request is accepted.
CallsInv ==
  options.AuthenticationFunc /\ options.SecurityValidation =>
    /\ called = CallsAt(Effective, at.requirement, at.scheme)
    /\ verdict = "valid" /\ Effective # <<>>
         => called = ConcatUpTo(RequirementCalls(Effective), at.requirement)

\* The calls of a requirement add up scheme by scheme.
LEMMA SchemeCallsAddUp ==
  ASSUME NEW r \in Requirements
  PROVE  /\ CallsUpTo(r, 0) = <<>>
         /\ \A n \in 1..Len(r.schemes) :
              CallsUpTo(r, n) = CallsUpTo(r, n - 1) \o SchemeCalls(r)[n]
         /\ \A n \in 0..Len(r.schemes) : CallsUpTo(r, n) \in Seq(Names)
         /\ CallsOf(r) \in Seq(Names)
<1>1. r.schemes \in Seq(Names) /\ Len(r.schemes) \in Nat
  BY DEF Requirements
<1>2. \A i \in 1..Len(r.schemes) : SchemeCalls(r)[i] \in Seq(Names)
  BY <1>1 DEF SchemeCalls
<1>3. SchemeCalls(r) \in Seq(Seq(Names)) /\ Len(SchemeCalls(r)) = Len(r.schemes)
  <2>1. SchemeCalls(r) = [i \in 1..Len(r.schemes) |-> SchemeCalls(r)[i]]
    BY <1>1 DEF SchemeCalls
  <2>2. SchemeCalls(r) \in [1..Len(r.schemes) -> Seq(Names)]
    BY <1>2, <2>1, Zenon
  <2> QED
    BY <1>1, <2>2
<1>4. \A n : CallsUpTo(r, n) = ConcatUpTo(SchemeCalls(r), n)
  BY DEF CallsUpTo, SchemeCalls
<1>5. \A n \in 0..Len(r.schemes) : CallsUpTo(r, n) \in Seq(Names)
  BY <1>3, <1>4, ConcatTyped
<1>6. /\ CallsUpTo(r, 0) = <<>>
      /\ \A n \in 1..Len(r.schemes) :
           CallsUpTo(r, n) = CallsUpTo(r, n - 1) \o SchemeCalls(r)[n]
  BY <1>3, <1>4, ConcatSteps
<1>7. Len(r.schemes) \in 0..Len(r.schemes)
  BY <1>1
<1>8. CallsOf(r) \in Seq(Names)
  BY <1>5, <1>7 DEF CallsOf
<1> QED
  BY <1>5, <1>6, <1>8

\* The calls of a list add up requirement by requirement.
LEMMA RequirementCallsAddUp ==
  ASSUME NEW list \in Seq(Requirements)
  PROVE  /\ ConcatUpTo(RequirementCalls(list), 0) = <<>>
         /\ \A n \in 1..Len(list) :
              ConcatUpTo(RequirementCalls(list), n)
                = ConcatUpTo(RequirementCalls(list), n - 1) \o CallsOf(list[n])
         /\ \A n \in 0..Len(list) : ConcatUpTo(RequirementCalls(list), n) \in Seq(Names)
<1>1. \A i \in 1..Len(list) : CallsOf(list[i]) \in Seq(Names)
  BY SchemeCallsAddUp, ElementOfSeq
<1>2. /\ RequirementCalls(list) \in Seq(Seq(Names))
      /\ Len(RequirementCalls(list)) = Len(list)
      /\ \A n \in 1..Len(list) : RequirementCalls(list)[n] = CallsOf(list[n])
  BY <1>1 DEF RequirementCalls
<1>3. \A n \in 0..Len(list) : ConcatUpTo(RequirementCalls(list), n) \in Seq(Names)
  BY <1>2, ConcatTyped
<1>4. /\ ConcatUpTo(RequirementCalls(list), 0) = <<>>
      /\ \A n \in 1..Len(list) :
           ConcatUpTo(RequirementCalls(list), n)
             = ConcatUpTo(RequirementCalls(list), n - 1) \o RequirementCalls(list)[n]
  BY <1>2, ConcatSteps
<1> QED
  BY <1>2, <1>3, <1>4

\* A member of a list of requirements is one.
LEMMA RequirementTyped ==
  ASSUME NEW list \in Seq(Requirements), NEW r \in 1..Len(list)
  PROVE  /\ list[r] \in Requirements
         /\ list[r].schemes \in Seq(Names)
         /\ Len(list[r].schemes) \in Nat
<1>1. list[r] \in Requirements
  BY ElementOfSeq
<1>2. \A q \in Requirements : q.schemes \in Seq(Names) /\ Len(q.schemes) \in Nat
  BY DEF Requirements
<1> QED
  BY <1>1, <1>2

\* As long as the place in the loop and the calls stay, so does CallsInv.
LEMMA CallsUndisturbed ==
  ASSUME CallsInv, UNCHANGED <<options, security, request, at, called>>,
         verdict' # "valid" \/ verdict' = verdict
  PROVE  CallsInv'
<1>1. Effective' = Effective
  BY InputsUndisturbed
<1> QED
  BY <1>1 DEF CallsInv

\* One more scheme of a requirement.
LEMMA CallsAtNextScheme ==
  ASSUME NEW list \in Seq(Requirements), NEW r \in 1..Len(list), ~list[r].empty,
         NEW k \in 1..Len(list[r].schemes)
  PROVE  /\ CallsAt(list, r, k + 1) = IF list[r].schemes[k] \in DOMAIN SchemeOf
                                       THEN Append(CallsAt(list, r, k), list[r].schemes[k])
                                       ELSE CallsAt(list, r, k)
<1> DEFINE q == list[r]
           name == q.schemes[k]
           behind == ConcatUpTo(RequirementCalls(list), r - 1)
           tried == CallsUpTo(q, k - 1)
<1>1. q \in Requirements /\ q.schemes \in Seq(Names) /\ Len(q.schemes) \in Nat
  BY RequirementTyped
<1>2. /\ k - 1 \in 0..Len(q.schemes) /\ (k + 1) - 1 = k /\ r - 1 \in 0..Len(list)
      /\ ~(r > Len(list))
  BY <1>1
<1>3. behind \in Seq(Names) /\ tried \in Seq(Names) /\ name \in Names
  <2>1. behind \in Seq(Names)
    BY <1>2, RequirementCallsAddUp
  <2>2. tried \in Seq(Names)
    BY <1>1, <1>2, SchemeCallsAddUp
  <2>3. name \in Names
    BY <1>1, ElementOfSeq
  <2> QED
    BY <2>1, <2>2, <2>3
<1>4. CallsAt(list, r, k) = behind \o tried
  BY <1>2, Zenon DEF CallsAt
<1>5. CallsAt(list, r, k + 1) = behind \o CallsUpTo(q, k)
  BY <1>2, Zenon DEF CallsAt
<1>6. CallsUpTo(q, k) = tried \o SchemeCalls(q)[k]
  BY <1>1, SchemeCallsAddUp
<1>7. SchemeCalls(q)[k] = IF name \in DOMAIN SchemeOf THEN <<name>> ELSE <<>>
  BY <1>1 DEF SchemeCalls
<1> HIDE DEF q, name, behind, tried
<1>8. behind \o (tried \o <<name>>) = Append(behind \o tried, name)
  BY <1>3
<1>9. behind \o (tried \o <<>>) = behind \o tried
  BY <1>3
<1> QED
  BY <1>4, <1>5, <1>6, <1>7, <1>8, <1>9, Zenon DEF q, name

\* The end of a requirement is the beginning of the next.
LEMMA CallsAtNextRequirement ==
  ASSUME NEW list \in Seq(Requirements), NEW r \in 1..Len(list)
  PROVE  /\ CallsAt(list, r + 1, 1) = ConcatUpTo(RequirementCalls(list), r)
         /\ list[r].empty
              => \A k : CallsAt(list, r, k) = ConcatUpTo(RequirementCalls(list), r)
         /\ ~list[r].empty => CallsAt(list, r, Len(list[r].schemes) + 1)
                                = ConcatUpTo(RequirementCalls(list), r)
<1> DEFINE behind == ConcatUpTo(RequirementCalls(list), r - 1)
           through == ConcatUpTo(RequirementCalls(list), r)
           n == Len(list[r].schemes)
<1>1. list[r] \in Requirements /\ n \in Nat
  BY RequirementTyped
<1>2. /\ Len(list) \in Nat /\ r \in 0..Len(list) /\ r - 1 \in 0..Len(list)
      /\ (r + 1) - 1 = r /\ (n + 1) - 1 = n /\ 1 - 1 = 0 /\ ~(r > Len(list))
  BY <1>1
<1>3. /\ through = behind \o CallsOf(list[r]) /\ behind \in Seq(Names)
      /\ through \in Seq(Names)
  BY <1>2, RequirementCallsAddUp
<1>4. behind \o <<>> = behind /\ through \o <<>> = through
  BY <1>3
<1>5. CallsAt(list, r + 1, 1) = through
  <2>1. r + 1 > Len(list) \/ r + 1 \in 1..Len(list)
    BY <1>2
  <2>2. r + 1 \in 1..Len(list) => CallsUpTo(list[r + 1], 0) = <<>>
    BY SchemeCallsAddUp, ElementOfSeq
  <2> QED
    BY <1>2, <1>4, <2>1, <2>2, Zenon DEF CallsAt
<1>6. list[r].empty => \A k : CallsAt(list, r, k) = through
  BY <1>2, <1>3, <1>4, Zenon DEF CallsAt, CallsOf
<1>7. ~list[r].empty => CallsAt(list, r, n + 1) = through
  BY <1>2, <1>3, Zenon DEF CallsAt, CallsOf
<1> QED
  BY <1>5, <1>6, <1>7

\* Where the loop is.
LEMMA LoopPlace ==
  ASSUME LoopInv
  PROVE  /\ Effective \in Seq(Requirements) /\ Len(Effective) \in Nat
         /\ at \in [requirement : Nat \ {0}, scheme : Nat \ {0}]
         /\ Trying => at.requirement \in 1..Len(Effective)
BY EffectiveTyped DEF LoopInv, Typed, Trying

\* A scheme is called for if it is defined.
LEMMA TrySchemeCalls ==
  ASSUME LoopInv, CallsInv, TryScheme, verdict = "open"
  PROVE  CallsInv'
<1>1. /\ UNCHANGED <<options, security, request, verdict>>
      /\ at' = [at EXCEPT !.scheme = @ + 1] /\ Trying /\ ~Current.empty
      /\ at.scheme <= Len(Current.schemes)
      /\ called' = IF options.AuthenticationFunc /\ Scheme \in DOMAIN SchemeOf
                     THEN Append(called, Scheme) ELSE called
  BY DEF TryScheme
<1>2. Effective' = Effective
  BY <1>1, InputsUndisturbed
<1>3. at'.requirement = at.requirement /\ at'.scheme = at.scheme + 1
  BY <1>1, LoopPlace
<1>4. at.scheme \in 1..Len(Current.schemes)
  BY <1>1, LoopPlace, CurrentTyped DEF LoopInv
<1>5. options.AuthenticationFunc /\ options.SecurityValidation
        => called' = CallsAt(Effective, at.requirement, at.scheme + 1)
  BY <1>1, <1>4, LoopPlace, CallsAtNextScheme DEF CallsInv, Current, Scheme
<1> QED
  BY <1>1, <1>2, <1>3, <1>5 DEF CallsInv

\* A requirement tried to its end was called for in full.
LEMMA RequirementCalled ==
  ASSUME LoopInv, CallsInv, RequirementTried,
         options.AuthenticationFunc, options.SecurityValidation
  PROVE  called = ConcatUpTo(RequirementCalls(Effective), at.requirement)
<1>1. Trying /\ ~Current.empty /\ at.scheme > Len(Current.schemes)
  BY DEF RequirementTried
<1>2. at.scheme = Len(Current.schemes) + 1
  BY <1>1, LoopPlace, CurrentTyped DEF LoopInv, CurrentInv
<1> QED
  BY <1>1, <1>2, LoopPlace, CallsAtNextRequirement DEF CallsInv, Current

\* The next alternative's calls come after those.
LEMMA GiveUpCalls ==
  ASSUME LoopInv, CallsInv, GiveUp, verdict = "open"
  PROVE  CallsInv'
<1>1. /\ UNCHANGED <<options, security, request, called, verdict>> /\ RequirementTried
      /\ at' = [requirement |-> at.requirement + 1, scheme |-> 1]
  BY DEF GiveUp
<1>2. Effective' = Effective /\ at'.requirement = at.requirement + 1 /\ at'.scheme = 1
  BY <1>1, InputsUndisturbed
<1>3. CallsAt(Effective, at.requirement + 1, 1)
        = ConcatUpTo(RequirementCalls(Effective), at.requirement)
  BY <1>1, LoopPlace, CallsAtNextRequirement DEF RequirementTried
<1> QED
  BY <1>1, <1>2, <1>3, RequirementCalled DEF CallsInv

\* A request is accepted at the end of a requirement, or at an empty one.
LEMMA AcceptCalls ==
  ASSUME LoopInv, CallsInv, Accept \/ AcceptEmpty
  PROVE  CallsInv'
<1>1. /\ UNCHANGED <<options, security, request, at, called>>
      /\ RequirementTried \/ (Trying /\ Current.empty)
  BY DEF Accept, AcceptEmpty, Decide
<1>2. Effective' = Effective
  BY <1>1, InputsUndisturbed
<1>3. options.AuthenticationFunc /\ options.SecurityValidation
        => called = ConcatUpTo(RequirementCalls(Effective), at.requirement)
  BY <1>1, RequirementCalled, LoopPlace, CallsAtNextRequirement DEF CallsInv, Current
<1> QED
  BY <1>1, <1>2, <1>3 DEF CallsInv

LEMMA CallsInvariant == Spec => []CallsInv
<1>1. Init => CallsInv
  <2> SUFFICES ASSUME Init PROVE called = CallsAt(Effective, at.requirement, at.scheme)
    BY DEF CallsInv, Init
  <2>1. Typed /\ called = <<>> /\ at.requirement = 1 /\ at.scheme = 1
    BY DEF Init, Typed
  <2>2. Effective \in Seq(Requirements) /\ Len(Effective) \in Nat
    BY <2>1, EffectiveTyped
  <2>3. ConcatUpTo(RequirementCalls(Effective), 1 - 1) = <<>>
    BY <2>2, RequirementCallsAddUp
  <2>4. ~(1 > Len(Effective)) => CallsUpTo(Effective[1], 1 - 1) = <<>>
    <3>1. 1 - 1 = 0 /\ (~(1 > Len(Effective)) => 1 \in 1..Len(Effective))
      BY <2>2
    <3> QED
      BY <2>2, <3>1, RequirementTyped, SchemeCallsAddUp, Zenon
  <2>5. <<>> \o <<>> = <<>>
    OBVIOUS
  <2> QED
    BY <2>1, <2>3, <2>4, <2>5, Zenon DEF CallsAt
<1>2. LoopInv /\ CallsInv /\ [Next]_vars => CallsInv'
  <2> SUFFICES ASSUME LoopInv, CallsInv, [Next]_vars PROVE CallsInv'
    OBVIOUS
  <2>1. CASE UNCHANGED vars
    BY <2>1, CallsUndisturbed DEF vars
  <2>2. CASE Skip \/ NothingRequired
    <3>1. /\ UNCHANGED <<options, security, request, at, called>>
          /\ ~options.SecurityValidation \/ Effective = <<>>
      BY <2>2 DEF Skip, NothingRequired, Decide
    <3> QED
      BY <3>1, InputsUndisturbed DEF CallsInv
  <2>3. CASE Refuse
    BY <2>3, CallsUndisturbed DEF Refuse, Decide
  <2> QED
    BY <2>1, <2>2, <2>3, AcceptCalls, TrySchemeCalls, GiveUpCalls DEF Next
<1> QED
  BY <1>1, <1>2, LoopInvariant, PTL DEF Spec

\* The user's function was called for the defined schemes of the alternatives up
\* to the one that decided, in order and once each, and for no other.
THEOREM CallsAreExact == Spec => []CallsExact
<1>1. LoopInv /\ CallsInv => CallsExact
  <2> SUFFICES ASSUME LoopInv, CallsInv, verdict # "open", options.AuthenticationFunc,
                      options.SecurityValidation, InEffect # None
               PROVE  CallsExact
    BY DEF CallsExact
  <2> DEFINE deciding == {i \in DOMAIN Effective : Satisfied(Effective[i])}
             last == IF deciding = {} THEN Len(Effective)
                     ELSE CHOOSE i \in deciding : \A j \in deciding : i <= j
             r == at.requirement
  <2>1. InEffect = Effective
    BY DEF InEffect, Effective
  <2>2. /\ Effective \in Seq(Requirements) /\ Len(Effective) \in Nat
        /\ DOMAIN Effective = 1..Len(Effective) /\ r \in Nat \ {0}
        /\ r <= Len(Effective) + 1
        /\ \A i \in 1..(r - 1) : ~Satisfied(Effective[i])
    BY LoopPlace DEF LoopInv, GivenUpInv
  <2>3. CASE r <= Len(Effective) /\ Satisfied(Effective[r])
    <3>1. r \in deciding /\ \A j \in deciding : r <= j
      BY <2>2, <2>3
    <3>2. deciding \subseteq Nat
      BY <2>2
    <3>3. last = r
      <4>1. \A i \in deciding : (\A j \in deciding : i <= j) => i = r
        <5> SUFFICES ASSUME NEW i \in deciding, \A j \in deciding : i <= j
                     PROVE  i = r
          OBVIOUS
        <5>1. i <= r /\ r <= i /\ i \in Nat /\ r \in Nat
          <6> HIDE DEF deciding
          <6> QED
            BY <2>2, <3>1, <3>2
        <5> HIDE DEF deciding, r
        <5> QED
          BY <5>1
      <4> HIDE DEF deciding
      <4> QED
        BY <3>1, <4>1, Zenon
    <3>4. verdict = "valid" /\ Effective # <<>>
      BY <2>2, <2>3 DEF LoopInv, Typed, VerdictInv
    <3>5. called = ConcatUpTo(RequirementCalls(Effective), r)
      BY <3>4 DEF CallsInv
    <3> QED
      BY <2>1, <3>3, <3>5 DEF CallsExact, RequirementCalls
  <2>4. CASE ~(r <= Len(Effective) /\ Satisfied(Effective[r]))
    <3>1. r > Len(Effective)
      <4>1. verdict = "invalid" => r > Len(Effective)
        BY DEF LoopInv, VerdictInv
      <4>2. verdict = "valid" => Effective = <<>>
        BY <2>2, <2>4 DEF LoopInv, VerdictInv, Current
      <4> QED
        BY <2>2, <4>1, <4>2 DEF LoopInv, Typed
    <3>2. r - 1 = Len(Effective) /\ deciding = {}
      BY <2>2, <3>1
    <3>3. last = r - 1
      BY <3>2
    <3>4. called = ConcatUpTo(RequirementCalls(Effective), r - 1) \o <<>>
      BY <3>1, Zenon DEF CallsInv, CallsAt
    <3>5. ConcatUpTo(RequirementCalls(Effective), r - 1) \in Seq(Names)
      BY <2>2, <3>2, RequirementCallsAddUp
    <3>6. called = ConcatUpTo(RequirementCalls(Effective), last)
      BY <3>3, <3>4, <3>5
    <3> QED
      BY <2>1, <3>6 DEF CallsExact, RequirementCalls
  <2> QED
    BY <2>3, <2>4
<1> QED
  BY <1>1, LoopInvariant, CallsInvariant, PTL
================================================================================
