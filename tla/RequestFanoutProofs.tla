-------------------------- MODULE RequestFanoutProofs --------------------------
(***************************************************************************)
(* Proofs about RequestFanout, and about the two calls of EntryPoints, for *)
(* any finite set of parameter validators and any errors they report.      *)
(***************************************************************************)
EXTENDS EntryPoints, FiniteSetTheorems, SequenceTheorems, WellFoundedInduction, TLAPS

(***************************************************************************)
(* Type correctness.                                                       *)
(***************************************************************************)

\* A call, whatever the scheduler does: Spec without its fairness.
Call == Init /\ [][Next]_vars

\* A call keeps to the types.
LEMMA CallTyped == Call => []TypeOK
<1> USE FanoutAssumption DEF TypeOK, Goroutine, Validator, Label, Entry, Outcome,
                             Async, Joined
<1>1. Init => TypeOK
  BY DEF Init, NoResult
<1>2. TypeOK /\ [Next]_vars => TypeOK'
  <2> SUFFICES ASSUME TypeOK, [Next]_vars PROVE TypeOK'
    OBVIOUS
  <2> USE DEF Goto, Meet, errorLists, counters
  <2>1. CASE FindPath
    BY <2>1 DEF FindPath
  <2>2. CASE Reject
    BY <2>2 DEF Reject
  <2>3. CASE SpawnCollector
    BY <2>3 DEF SpawnCollector
  <2>4. CASE SpawnParams
    BY <2>4 DEF SpawnParams
  <2>5. CASE SpawnBody
    BY <2>5 DEF SpawnBody
  <2>6. CASE ValidateResponse
    BY <2>6 DEF ValidateResponse
  <2>7. CASE Combine
    BY <2>7 DEF Combine
  <2>8. CASE SpawnParamValidators
    BY <2>8 DEF SpawnParamValidators
  <2>9. ASSUME NEW v \in Goroutine, Validate(v) PROVE TypeOK'
    BY <2>9 DEF Validate
  <2>10. ASSUME NEW w \in ParamValidators, ListenerTakesErrors(w) PROVE TypeOK'
    BY <2>10 DEF ListenerTakesErrors
  <2>11. ASSUME NEW w \in ParamValidators, ListenerTakesControl(w) PROVE TypeOK'
    BY <2>11 DEF ListenerTakesControl
  <2>12. CASE ListenerJoinsParams
    BY <2>12 DEF ListenerJoinsParams
  <2>13. ASSUME NEW a \in Async, CollectorTakesErrors(a) PROVE TypeOK'
    <3> DEFINE Batch == ParamValidators \cup {Body}
    <3>1. CASE a = Params
      <4>1. paramErrors \in Seq(Batch)
        BY SeqMonotonic
      <4>2. validationErrors' \in Seq(Batch)
        BY <3>1, <4>1, <2>13, ConcatProperties DEF CollectorTakesErrors, BatchesOf
      <4> QED
        BY <4>2, <2>13 DEF CollectorTakesErrors
    <3>2. CASE a = Body
      <4>1. validationErrors' = validationErrors \o <<Body>>
        BY <3>2, <2>13 DEF CollectorTakesErrors, BatchesOf
      <4>2. validationErrors' \in Seq(Batch)
        BY <4>1
      <4> QED
        BY <4>2, <2>13 DEF CollectorTakesErrors
    <3> QED
      BY <3>1, <3>2
  <2>14. ASSUME NEW a \in Async, CollectorTakesControl(a) PROVE TypeOK'
    BY <2>14 DEF CollectorTakesControl
  <2>15. CASE CollectorJoinsMain
    <3> PICK sorted \in Sortings(Errors(validationErrors)) : CollectorJoinsMain!3!(sorted)
      BY <2>15 DEF CollectorJoinsMain
    <3>1. CASE entry = "request"
      <4>1. pc' = [pc EXCEPT ![Collector] = "exited", ![Main] = "returned"]
        BY <3>1, <2>15 DEF CollectorJoinsMain
      <4>2. UNCHANGED <<entry, outcome, paramErrors, validationErrors, counters>>
        BY <3>1, <2>15 DEF CollectorJoinsMain
      <4>3. (Len(sorted) = 0) \in BOOLEAN
        OBVIOUS
      <4>4. result' = [returned |-> TRUE, valid |-> Len(sorted) = 0, errors |-> sorted]
        BY <3>1, Zenon
      <4>5. result'.returned \in BOOLEAN /\ result'.valid \in BOOLEAN
        BY <4>3, <4>4, Zenon
      <4> QED
        BY <4>1, <4>2, <4>5
    <3>2. CASE entry # "request"
      <4>1. pc' = [pc EXCEPT ![Collector] = "exited", ![Main] = "validateResponse"]
        BY <3>2, <2>15 DEF CollectorJoinsMain
      <4>2. UNCHANGED <<entry, outcome, paramErrors, validationErrors, counters, result>>
        BY <3>2, <2>15 DEF CollectorJoinsMain
      <4> QED
        BY <4>1, <4>2
    <3> QED
      BY <3>1, <3>2
  <2>16. CASE UNCHANGED vars
    BY <2>16 DEF vars
  <2> QED
    BY <2>1, <2>2, <2>3, <2>4, <2>5, <2>6, <2>7, <2>8, <2>9, <2>10, <2>11,
       <2>12, <2>13, <2>14, <2>15, <2>16 DEF Next, Step, Finished
<1> QED
  BY <1>1, <1>2, PTL DEF Call

\* Every goroutine is at one of its labels, and the lists hold validators.
THEOREM TypeCorrect == Spec => []TypeOK
BY CallTyped, PTL DEF Spec, Call

(***************************************************************************)
(* The joins are exact.                                                    *)
(***************************************************************************)

\* A validator's contribution to a list of batches.
Contributes(v) == outcome[v] = "invalid" /\ Delivered(v)

\* A step that neither delivers nor ends a parameter validator, and leaves the
\* listener's data alone, preserves the listener's part of the invariant.
LEMMA ListenerUndisturbed ==
  ASSUME ListenerInv,
         UNCHANGED <<paramErrors, completedParams>>,
         pc'[Listener] = pc[Listener],
         \A w \in ParamValidators :
           /\ Contributes(w)' <=> Contributes(w)
           /\ pc'[w] = "exited" <=> pc[w] = "exited"
           /\ pc'[w] = "unborn" <=> pc[w] = "unborn",
         pc'[Params] \in {"unborn", "spawning"} <=> pc[Params] \in {"unborn", "spawning"},
         pc'[Params] \in {"sendErrors", "sendControl", "exited"}
           <=> pc[Params] \in {"sendErrors", "sendControl", "exited"}
  PROVE  ListenerInv'
<1>1. Exited(ParamValidators)' = Exited(ParamValidators)
  BY DEF Exited
<1>2. {w \in Failed(ParamValidators) : Delivered(w)}'
        = {w \in Failed(ParamValidators) : Delivered(w)}
  BY DEF Failed, Contributes
<1> QED
  BY <1>1, <1>2 DEF ListenerInv, IsInjective, Range

\* A step that neither delivers nor ends Params or Body preserves the
\* collector's part, unless the collector is told to stop.
LEMMA CollectorUndisturbed ==
  ASSUME CollectorInv,
         UNCHANGED <<paramErrors, validationErrors, completedAsync>>,
         pc'[Collector] \in {"unborn", "selecting", "sendDone", "exited"},
         pc'[Collector] \in {"sendDone", "exited"} => pc[Collector] \in {"sendDone", "exited"},
         pc'[Params] \in {"unborn", "spawning", "waiting", "sendErrors", "sendControl", "exited"},
         Range(paramErrors) # {} => (Delivered(Params)' <=> Delivered(Params)),
         Contributes(Body)' <=> Contributes(Body),
         \A a \in Async : pc'[a] = "exited" <=> pc[a] = "exited"
  PROVE  CollectorInv'
<1>1. Exited(Async)' = Exited(Async)
  BY DEF Exited
<1>2. {v \in Failed({Body}) : Delivered(v)}' = {v \in Failed({Body}) : Delivered(v)}
  BY DEF Failed, Contributes
<1>3. (IF Delivered(Params) THEN Range(paramErrors) ELSE {})'
        = IF Delivered(Params) THEN Range(paramErrors) ELSE {}
  BY DEF Range
<1>4. IsInjective(validationErrors)' /\ Range(validationErrors)' = Range(validationErrors)
  BY DEF CollectorInv, IsInjective, Range
<1>5. Exited(Async)' = Async \/ pc'[Collector] \notin {"sendDone", "exited"}
  BY <1>1 DEF CollectorInv
<1> QED
  BY <1>1, <1>2, <1>3, <1>4, <1>5 DEF CollectorInv, Async

\* A step of the caller that does not touch the validators preserves theirs.
LEMMA ValidatorsUndisturbed ==
  ASSUME ValidatorInv,
         \A v \in ParamValidators \cup {Body} : pc'[v] = pc[v] /\ outcome'[v] = outcome[v]
  PROVE  ValidatorInv'
BY DEF ValidatorInv, Decided

LEMMA InitIInv == Init => IInv
<1> SUFFICES ASSUME Init PROVE IInv
  OBVIOUS
<1> USE FanoutAssumption
<1>1. \A g \in Goroutine \ {Main} : pc[g] = "unborn"
  BY DEF Init
<1>2. Exited(ParamValidators) = {} /\ Exited(Async) = {}
  BY <1>1 DEF Exited, Goroutine, Async
<1>3. ValidatorInv
  BY <1>1 DEF ValidatorInv, Decided, Init, Goroutine, Validator
<1>4. ListenerInv
  <2>1. Failed(ParamValidators) = {}
    BY DEF Failed, Init, Validator
  <2>2. Range(paramErrors) = {} /\ IsInjective(paramErrors)
    BY DEF Init, Range, IsInjective
  <2> QED
    BY <1>1, <1>2, <2>1, <2>2, FS_EmptySet DEF ListenerInv, Init, Goroutine
<1>5. CollectorInv
  <2>1. Failed({Body}) = {}
    BY DEF Failed, Init, Validator
  <2>2. Range(validationErrors) = {} /\ IsInjective(validationErrors)
    BY DEF Init, Range, IsInjective
  <2> QED
    BY <1>1, <1>2, <2>1, <2>2, FS_EmptySet DEF CollectorInv, Init, Goroutine, Delivered
<1>6. CallerInv
  BY <1>1 DEF CallerInv, Init, Goroutine, Validator, Joined
<1> QED
  BY <1>3, <1>4, <1>5, <1>6 DEF IInv

\* A sequence without repetitions gains one element it did not have.
LEMMA AppendNewBatch ==
  ASSUME NEW S, NEW s \in Seq(S), NEW x \in S, NEW t, t = Append(s, x),
         IsInjective(s), x \notin Range(s)
  PROVE  IsInjective(t) /\ Range(t) = Range(s) \cup {x}
<1>1. /\ DOMAIN s = 1 .. Len(s) /\ Len(s) \in Nat
      /\ t \in Seq(S) /\ Len(t) = Len(s) + 1
      /\ \A i \in 1 .. Len(s) : t[i] = s[i]
      /\ t[Len(s) + 1] = x
  BY LenProperties
<1>2. DOMAIN t = 1 .. (Len(s) + 1)
  BY <1>1, LenProperties
<1>3. IsInjective(t)
  BY <1>1, <1>2 DEF IsInjective, Range
<1>4. Range(t) \subseteq Range(s) \cup {x}
  BY <1>1, <1>2 DEF Range
<1>5. Range(s) \subseteq Range(t)
  BY <1>1, <1>2 DEF Range
<1>6. Len(s) + 1 \in DOMAIN t
  BY <1>1, <1>2
<1>7. x \in Range(t)
  BY <1>1, <1>6 DEF Range
<1> QED
  BY <1>3, <1>4, <1>5, <1>7

\* Joining two sequences without common elements.
LEMMA ConcatNewBatches ==
  ASSUME NEW S, NEW s \in Seq(S), NEW t \in Seq(S),
         IsInjective(s), IsInjective(t), Range(s) \cap Range(t) = {}
  PROVE  IsInjective(s \o t) /\ Range(s \o t) = Range(s) \cup Range(t)
<1>1. /\ s \o t \in Seq(S)
      /\ Len(s \o t) = Len(s) + Len(t)
      /\ \A i \in 1 .. Len(s) + Len(t) :
           (s \o t)[i] = IF i <= Len(s) THEN s[i] ELSE t[i - Len(s)]
  BY ConcatProperties
<1>2. /\ DOMAIN s = 1 .. Len(s) /\ DOMAIN t = 1 .. Len(t)
      /\ DOMAIN (s \o t) = 1 .. (Len(s) + Len(t))
      /\ Len(s) \in Nat /\ Len(t) \in Nat
  BY <1>1, LenProperties
<1>3. IsInjective(s \o t)
  <2> SUFFICES ASSUME NEW i \in DOMAIN (s \o t), NEW j \in DOMAIN (s \o t),
                      (s \o t)[i] = (s \o t)[j]
               PROVE  i = j
    BY DEF IsInjective
  <2>1. CASE i <= Len(s) /\ j <= Len(s)
    BY <1>1, <1>2, <2>1 DEF IsInjective
  <2>2. CASE i > Len(s) /\ j > Len(s)
    BY <1>1, <1>2, <2>2 DEF IsInjective
  <2>3. CASE i <= Len(s) /\ j > Len(s)
    <3>1. s[i] = t[j - Len(s)] /\ i \in DOMAIN s /\ j - Len(s) \in DOMAIN t
      BY <1>1, <1>2, <2>3
    <3> QED
      BY <3>1 DEF Range
  <2>4. CASE i > Len(s) /\ j <= Len(s)
    <3>1. s[j] = t[i - Len(s)] /\ j \in DOMAIN s /\ i - Len(s) \in DOMAIN t
      BY <1>1, <1>2, <2>4
    <3> QED
      BY <3>1 DEF Range
  <2> QED
    BY <1>2, <2>1, <2>2, <2>3, <2>4
<1>4. Range(s \o t) \subseteq Range(s) \cup Range(t)
  <2> SUFFICES ASSUME NEW i \in 1 .. (Len(s) + Len(t))
               PROVE  (s \o t)[i] \in Range(s) \cup Range(t)
    BY <1>2 DEF Range
  <2>1. CASE i <= Len(s)
    BY <1>1, <1>2, <2>1 DEF Range
  <2>2. CASE i > Len(s)
    <3>1. (s \o t)[i] = t[i - Len(s)] /\ i - Len(s) \in DOMAIN t
      BY <1>1, <1>2, <2>2
    <3> QED
      BY <3>1 DEF Range
  <2> QED
    BY <1>2, <2>1, <2>2
<1>5. Range(s) \subseteq Range(s \o t)
  BY <1>1, <1>2 DEF Range
<1>6. Range(t) \subseteq Range(s \o t)
  <2> SUFFICES ASSUME NEW j \in 1 .. Len(t) PROVE t[j] \in Range(s \o t)
    BY <1>2 DEF Range
  <2>1. (s \o t)[j + Len(s)] = t[j] /\ j + Len(s) \in DOMAIN (s \o t)
    BY <1>1, <1>2
  <2> QED
    BY <2>1 DEF Range
<1> QED
  BY <1>3, <1>4, <1>5, <1>6

\* The steps of the caller before it waits, and after it is released.
LEMMA CallerStep ==
  ASSUME TypeOK, IInv,
         \/ FindPath \/ Reject \/ SpawnCollector \/ SpawnParams
         \/ SpawnBody \/ ValidateResponse \/ Combine
  PROVE  IInv'
<1> USE FanoutAssumption DEF TypeOK, Goroutine, Validator, Goto, Meet,
                             errorLists, counters
<1>1. CASE FindPath \/ Reject \/ ValidateResponse \/ Combine
  <2>1. /\ \A g \in Goroutine \ {Main} : pc'[g] = pc[g]
        /\ \A v \in ParamValidators \cup {Body} : outcome'[v] = outcome[v]
        /\ UNCHANGED <<paramErrors, validationErrors, counters>>
    BY <1>1 DEF FindPath, Reject, ValidateResponse, Combine
  <2>2. ValidatorInv'
    BY <2>1, ValidatorsUndisturbed DEF IInv
  <2>3. ListenerInv'
    BY <2>1, ListenerUndisturbed DEF IInv, Contributes, Delivered
  <2>4. CollectorInv'
    BY <2>1, CollectorUndisturbed DEF IInv, Async, CollectorInv, Contributes, Delivered
  <2>5. CallerInv'
    BY <1>1, <2>1 DEF IInv, CallerInv, Joined, Async,
                      FindPath, Reject, ValidateResponse, Combine
  <2> QED
    BY <2>2, <2>3, <2>4, <2>5 DEF IInv
<1>2. CASE SpawnCollector
  <2>1. /\ \A g \in Goroutine \ {Main, Collector} : pc'[g] = pc[g]
        /\ pc'[Main] = "spawnParams" /\ pc'[Collector] = "selecting"
        /\ UNCHANGED <<outcome, paramErrors, validationErrors, counters>>
    BY <1>2 DEF SpawnCollector
  <2>2. ValidatorInv'
    BY <2>1, ValidatorsUndisturbed DEF IInv
  <2>3. ListenerInv'
    BY <2>1, ListenerUndisturbed DEF IInv, Contributes, Delivered
  <2>4. CollectorInv'
    BY <2>1, CollectorUndisturbed DEF IInv, Async, CollectorInv, Contributes, Delivered
  <2>5. CallerInv'
    BY <1>2, <2>1 DEF IInv, CallerInv, Joined, Async, SpawnCollector
  <2> QED
    BY <2>2, <2>3, <2>4, <2>5 DEF IInv
<1>3. CASE SpawnParams
  <2>1. /\ \A g \in Goroutine \ {Main, Params} : pc'[g] = pc[g]
        /\ pc[Main] = "spawnParams" /\ pc[Params] = "unborn"
        /\ pc'[Main] = "spawnBody" /\ pc'[Params] = "spawning"
        /\ UNCHANGED <<outcome, paramErrors, validationErrors, counters>>
    BY <1>3 DEF SpawnParams, IInv, CallerInv, Async
  <2>2. ValidatorInv'
    BY <2>1, ValidatorsUndisturbed DEF IInv
  <2>3. ListenerInv'
    BY <2>1, ListenerUndisturbed DEF IInv, Contributes, Delivered
  <2>4. CollectorInv'
    BY <2>1, CollectorUndisturbed DEF IInv, Async, CollectorInv, Contributes, Delivered
  <2>5. CallerInv'
    BY <1>3, <2>1 DEF IInv, CallerInv, Joined, Async
  <2> QED
    BY <2>2, <2>3, <2>4, <2>5 DEF IInv
<1>4. CASE SpawnBody
  <2>1. /\ \A g \in Goroutine \ {Main, Body} : pc'[g] = pc[g]
        /\ pc[Main] = "spawnBody" /\ pc[Body] = "unborn"
        /\ pc'[Main] = "waiting" /\ pc'[Body] = "validating"
        /\ UNCHANGED <<outcome, paramErrors, validationErrors, counters>>
    BY <1>4 DEF SpawnBody, IInv, CallerInv
  <2>2. ValidatorInv'
    BY <2>1 DEF IInv, ValidatorInv, Decided
  <2>3. ListenerInv'
    BY <2>1, ListenerUndisturbed DEF IInv, Contributes, Delivered
  <2>4. CollectorInv'
    BY <2>1, CollectorUndisturbed DEF IInv, Async, CollectorInv, Contributes, Delivered
  <2>5. CallerInv'
    BY <1>4, <2>1 DEF IInv, CallerInv, Joined, Async
  <2> QED
    BY <2>2, <2>3, <2>4, <2>5 DEF IInv
<1> QED
  BY <1>1, <1>2, <1>3, <1>4

\* parameterValidationFunc starting its goroutines, and a validator deciding.
LEMMA ValidationStep ==
  ASSUME TypeOK, IInv,
         SpawnParamValidators \/ \E v \in Goroutine : Validate(v)
  PROVE  IInv'
<1> USE FanoutAssumption DEF TypeOK, Goroutine, Validator, Goto, Meet,
                             errorLists, counters
<1>1. CASE SpawnParamValidators
  <2>1. /\ \A g \in {Main, Collector, Body} : pc'[g] = pc[g]
        /\ pc[Params] = "spawning" /\ pc'[Params] = "waiting"
        /\ pc[Listener] = "unborn" /\ pc'[Listener] = "selecting"
        /\ \A w \in ParamValidators : pc[w] = "unborn" /\ pc'[w] = "validating"
        /\ UNCHANGED <<outcome, paramErrors, validationErrors, counters>>
    BY <1>1 DEF SpawnParamValidators, IInv, ListenerInv
  <2>2. ValidatorInv'
    BY <2>1 DEF IInv, ValidatorInv, Decided
  <2>3. ListenerInv'
    <3>1. Exited(ParamValidators)' = Exited(ParamValidators)
      BY <2>1 DEF Exited
    <3>2. {w \in Failed(ParamValidators) : Delivered(w)}'
            = {w \in Failed(ParamValidators) : Delivered(w)}
      BY <2>1 DEF Failed, Delivered
    <3>3. IsInjective(paramErrors)' /\ Range(paramErrors)' = Range(paramErrors)
      BY <2>1 DEF IInv, ListenerInv, IsInjective, Range
    <3> QED
      BY <2>1, <3>1, <3>2, <3>3 DEF IInv, ListenerInv
  <2>4. CollectorInv'
    BY <2>1, CollectorUndisturbed DEF IInv, Async, CollectorInv, Contributes, Delivered
  <2>5. CallerInv'
    BY <2>1 DEF IInv, CallerInv, Joined, Async
  <2> QED
    BY <2>2, <2>3, <2>4, <2>5 DEF IInv
<1>2. ASSUME NEW v \in Goroutine, Validate(v) PROVE IInv'
  <2>1. /\ v \in ParamValidators \cup {Body} /\ pc[v] = "validating"
        /\ \A g \in Goroutine \ {v} : pc'[g] = pc[g]
        /\ \A u \in Validator \ {v} : outcome'[u] = outcome[u]
        /\ \/ outcome'[v] = "invalid" /\ pc'[v] = "sendErrors"
           \/ outcome'[v] = "valid" /\ pc'[v] = "sendControl"
        /\ UNCHANGED <<paramErrors, validationErrors, counters>>
    BY <1>2 DEF Validate
  <2>2. ValidatorInv'
    BY <2>1 DEF IInv, ValidatorInv, Decided
  <2>3. ListenerInv'
    BY <2>1, ListenerUndisturbed DEF IInv, Contributes, Delivered
  <2>4. CollectorInv'
    BY <2>1, CollectorUndisturbed DEF IInv, Async, CollectorInv, Contributes, Delivered
  <2>5. CallerInv'
    BY <2>1 DEF IInv, CallerInv, Joined, Async
  <2> QED
    BY <2>2, <2>3, <2>4, <2>5 DEF IInv
<1> QED
  BY <1>1, <1>2

\* The listener's receive of a batch, of a control message, and its handover.
LEMMA ListenerStep ==
  ASSUME TypeOK, IInv,
         \/ \E w \in ParamValidators : ListenerTakesErrors(w) \/ ListenerTakesControl(w)
         \/ ListenerJoinsParams
  PROVE  IInv'
<1> USE FanoutAssumption DEF TypeOK, Goroutine, Validator, Goto, Meet,
                             errorLists, counters
<1>1. ASSUME NEW w \in ParamValidators, ListenerTakesErrors(w) PROVE IInv'
  <2>1. /\ pc[w] = "sendErrors" /\ pc'[w] = "sendControl" /\ pc[Listener] = "selecting"
        /\ \A g \in Goroutine \ {w} : pc'[g] = pc[g]
        /\ paramErrors' = Append(paramErrors, w)
        /\ UNCHANGED <<outcome, validationErrors, counters>>
    BY <1>1 DEF ListenerTakesErrors
  <2>2. ValidatorInv'
    BY <2>1 DEF IInv, ValidatorInv, Decided
  <2>3. ListenerInv'
    <3>1. Exited(ParamValidators)' = Exited(ParamValidators)
      BY <2>1 DEF Exited
    <3>2. outcome[w] = "invalid" /\ w \notin Range(paramErrors)
      BY <2>1 DEF IInv, ValidatorInv, ListenerInv, Delivered
    <3>3. IsInjective(paramErrors') /\ Range(paramErrors') = Range(paramErrors) \cup {w}
      BY <2>1, <3>2, AppendNewBatch DEF IInv, ListenerInv
    <3>4. {u \in Failed(ParamValidators) : Delivered(u)}'
            = {u \in Failed(ParamValidators) : Delivered(u)} \cup {w}
      BY <2>1, <3>2 DEF Failed, Delivered
    <3> QED
      BY <2>1, <3>1, <3>3, <3>4 DEF IInv, ListenerInv, IsInjective, Range
  <2>4. CollectorInv'
    <3>1. Exited(Async)' = Exited(Async)
      BY <2>1 DEF Exited, Async
    <3>2. {v \in Failed({Body}) : Delivered(v)}' = {v \in Failed({Body}) : Delivered(v)}
      BY <2>1 DEF Failed, Delivered
    <3>3. ~Delivered(Params) /\ ~Delivered(Params)'
      BY <2>1 DEF IInv, ListenerInv, Delivered
    <3>4. IsInjective(validationErrors)' /\ Range(validationErrors)' = Range(validationErrors)
      BY <2>1 DEF IInv, CollectorInv, IsInjective, Range
    <3> QED
      BY <2>1, <3>1, <3>2, <3>3, <3>4 DEF IInv, CollectorInv
  <2>5. CallerInv'
    BY <2>1 DEF IInv, CallerInv, Joined, Async
  <2> QED
    BY <2>2, <2>3, <2>4, <2>5 DEF IInv
<1>2. ASSUME NEW w \in ParamValidators, ListenerTakesControl(w) PROVE IInv'
  <2>1. /\ pc[w] = "sendControl" /\ pc'[w] = "exited" /\ pc[Listener] = "selecting"
        /\ \A g \in Goroutine \ {w, Listener} : pc'[g] = pc[g]
        /\ completedParams' = completedParams + 1
        /\ IF completedParams' = Cardinality(ParamValidators)
             THEN pc'[Listener] = "sendControl" ELSE pc'[Listener] = "selecting"
        /\ UNCHANGED <<outcome, paramErrors, validationErrors, completedAsync>>
    BY <1>2 DEF ListenerTakesControl
  <2>2. ValidatorInv'
    BY <2>1 DEF IInv, ValidatorInv, Decided
  <2>3. ListenerInv'
    <3>1. Exited(ParamValidators)' = Exited(ParamValidators) \cup {w}
      BY <2>1 DEF Exited
    <3>2. w \notin Exited(ParamValidators)
      BY <2>1 DEF Exited
    <3>3. IsFiniteSet(Exited(ParamValidators)) /\ IsFiniteSet(Exited(ParamValidators)')
      BY FS_Subset DEF Exited
    <3>4. completedParams' = Cardinality(Exited(ParamValidators)')
      BY <2>1, <3>1, <3>2, <3>3, FS_AddElement DEF IInv, ListenerInv
    <3>5. pc'[Listener] = "sendControl" => Exited(ParamValidators)' = ParamValidators
      <4> HAVE pc'[Listener] = "sendControl"
      <4>1. Cardinality(Exited(ParamValidators)') = Cardinality(ParamValidators)
        BY <2>1, <3>4
      <4>2. Exited(ParamValidators)' \in SUBSET ParamValidators
        BY DEF Exited
      <4> QED
        BY <4>1, <4>2, FS_Subset
    <3>6. {u \in Failed(ParamValidators) : Delivered(u)}'
            = {u \in Failed(ParamValidators) : Delivered(u)}
      BY <2>1 DEF Failed, Delivered
    <3>7. IsInjective(paramErrors)' /\ Range(paramErrors)' = Range(paramErrors)
      BY <2>1 DEF IInv, ListenerInv, IsInjective, Range
    <3> QED
      BY <2>1, <3>4, <3>5, <3>6, <3>7 DEF IInv, ListenerInv
  <2>4. CollectorInv'
    BY <2>1, CollectorUndisturbed DEF IInv, Async, CollectorInv, Contributes, Delivered
  <2>5. CallerInv'
    BY <2>1 DEF IInv, CallerInv, Joined, Async
  <2> QED
    BY <2>2, <2>3, <2>4, <2>5 DEF IInv
<1>3. CASE ListenerJoinsParams
  <2>1. /\ pc[Listener] = "sendControl" /\ pc'[Listener] = "exited"
        /\ pc[Params] = "waiting"
        /\ \/ pc'[Params] = "sendErrors"
           \/ pc'[Params] = "sendControl" /\ Len(paramErrors) = 0
        /\ \A g \in Goroutine \ {Params, Listener} : pc'[g] = pc[g]
        /\ UNCHANGED <<outcome, paramErrors, validationErrors, counters>>
    BY <1>3 DEF ListenerJoinsParams
  <2>2. ValidatorInv'
    BY <2>1, ValidatorsUndisturbed DEF IInv
  <2>3. ListenerInv'
    <3>1. Exited(ParamValidators)' = Exited(ParamValidators)
      BY <2>1 DEF Exited
    <3>2. {u \in Failed(ParamValidators) : Delivered(u)}'
            = {u \in Failed(ParamValidators) : Delivered(u)}
      BY <2>1 DEF Failed, Delivered
    <3>3. IsInjective(paramErrors)' /\ Range(paramErrors)' = Range(paramErrors)
      BY <2>1 DEF IInv, ListenerInv, IsInjective, Range
    <3> QED
      BY <2>1, <3>1, <3>2, <3>3 DEF IInv, ListenerInv
  <2>4. CollectorInv'
    <3>1. Len(paramErrors) = 0 => Range(paramErrors) = {}
      BY DEF Range
    <3> QED
      BY <2>1, <3>1, CollectorUndisturbed
         DEF IInv, Async, CollectorInv, Contributes, Delivered
  <2>5. CallerInv'
    BY <2>1 DEF IInv, CallerInv, Joined, Async
  <2> QED
    BY <2>2, <2>3, <2>4, <2>5 DEF IInv
<1> QED
  BY <1>1, <1>2, <1>3

\* The collector's receive of errors, of a control message, and its handover.
LEMMA CollectorStep ==
  ASSUME TypeOK, IInv,
         \/ \E a \in Async : CollectorTakesErrors(a) \/ CollectorTakesControl(a)
         \/ CollectorJoinsMain
  PROVE  IInv'
<1> USE FanoutAssumption DEF TypeOK, Goroutine, Validator, Goto, Meet,
                             errorLists, counters
<1>1. ASSUME NEW a \in Async, CollectorTakesErrors(a) PROVE IInv'
  <2> DEFINE Batch == ParamValidators \cup {Body}
  <2>1. /\ pc[a] = "sendErrors" /\ pc'[a] = "sendControl" /\ pc[Collector] = "selecting"
        /\ \A g \in Goroutine \ {a} : pc'[g] = pc[g]
        /\ validationErrors' = validationErrors \o BatchesOf(a)
        /\ UNCHANGED <<outcome, paramErrors, counters>>
    BY <1>1 DEF CollectorTakesErrors, Async
  <2>2. ValidatorInv'
    BY <2>1 DEF IInv, ValidatorInv, Decided, Async
  <2>3. ListenerInv'
    BY <2>1, ListenerUndisturbed DEF IInv, Contributes, Delivered, Async
  <2>4. CollectorInv'
    <3>1. Exited(Async)' = Exited(Async)
      BY <2>1 DEF Exited, Async
    <3>2. paramErrors \in Seq(Batch) /\ <<Body>> \in Seq(Batch)
      BY SeqMonotonic
    <3>3. validationErrors \in Seq(Batch)
      OBVIOUS
    <3>4. Body \notin Range(paramErrors)
      BY LenProperties DEF Range
    <3>5. CASE a = Params
      <4>1. /\ validationErrors' = validationErrors \o paramErrors
            /\ Range(validationErrors) = {v \in Failed({Body}) : Delivered(v)}
        BY <2>1, <3>5 DEF BatchesOf, IInv, CollectorInv, Delivered
      <4>2. Range(validationErrors) \cap Range(paramErrors) = {}
        BY <4>1, <3>4 DEF Failed
      <4>3. /\ IsInjective(validationErrors')
            /\ Range(validationErrors') = Range(validationErrors) \cup Range(paramErrors)
        <5>1. IsInjective(paramErrors) /\ IsInjective(validationErrors)
          BY DEF IInv, ListenerInv, CollectorInv
        <5>2. /\ IsInjective(validationErrors \o paramErrors)
              /\ Range(validationErrors \o paramErrors)
                   = Range(validationErrors) \cup Range(paramErrors)
          <6> HIDE DEF Batch, TypeOK
          <6> QED
            BY <3>2, <3>3, <4>2, <5>1, ConcatNewBatches
        <5> QED
          BY <4>1, <5>2
      <4>4. {v \in Failed({Body}) : Delivered(v)}' = {v \in Failed({Body}) : Delivered(v)}
        BY <2>1, <3>5 DEF Failed, Delivered
      <4>5. Delivered(Params)' /\ Range(paramErrors)' = Range(paramErrors)
        BY <2>1, <3>5 DEF Delivered, Range
      <4> QED
        BY <2>1, <3>1, <3>5, <4>1, <4>3, <4>4, <4>5
           DEF IInv, CollectorInv, IsInjective, Range
    <3>6. CASE a = Body
      <4>1. /\ validationErrors' = validationErrors \o <<Body>>
            /\ outcome[Body] = "invalid" /\ ~Delivered(Body)
        BY <2>1, <3>6 DEF BatchesOf, IInv, ValidatorInv, Delivered
      <4>2. Body \notin Range(validationErrors)
        BY <3>4, <4>1 DEF IInv, CollectorInv
      <4>3. validationErrors' = Append(validationErrors, Body)
        BY <4>1, AppendIsConcat
      <4>4. /\ IsInjective(validationErrors')
            /\ Range(validationErrors') = Range(validationErrors) \cup {Body}
        <5>1. IsInjective(validationErrors) /\ Body \in Batch
          BY DEF IInv, CollectorInv
        <5> QED
          BY <3>3, <4>2, <4>3, <5>1, AppendNewBatch, Zenon
      <4>5. {v \in Failed({Body}) : Delivered(v)}'
              = {v \in Failed({Body}) : Delivered(v)} \cup {Body}
        BY <2>1, <3>6, <4>1 DEF Failed, Delivered
      <4>6. Delivered(Params)' <=> Delivered(Params)
        BY <2>1, <3>6 DEF Delivered, Async
      <4>7. Range(paramErrors)' = Range(paramErrors)
        BY <2>1 DEF Range
      <4> QED
        BY <2>1, <3>1, <3>6, <4>4, <4>5, <4>6, <4>7
           DEF IInv, CollectorInv, IsInjective, Range
    <3> QED
      BY <3>5, <3>6 DEF Async
  <2>5. CallerInv'
    BY <2>1 DEF IInv, CallerInv, Joined, Async
  <2> QED
    BY <2>2, <2>3, <2>4, <2>5 DEF IInv
<1>2. ASSUME NEW a \in Async, CollectorTakesControl(a) PROVE IInv'
  <2>1. /\ pc[a] = "sendControl" /\ pc'[a] = "exited" /\ pc[Collector] = "selecting"
        /\ \A g \in Goroutine \ {a, Collector} : pc'[g] = pc[g]
        /\ completedAsync' = completedAsync + 1
        /\ IF completedAsync' = Cardinality(Async)
             THEN pc'[Collector] = "sendDone" ELSE pc'[Collector] = "selecting"
        /\ UNCHANGED <<outcome, paramErrors, validationErrors, completedParams>>
    BY <1>2 DEF CollectorTakesControl, Async
  <2>2. ValidatorInv'
    BY <2>1 DEF IInv, ValidatorInv, Decided, Async
  <2>3. ListenerInv'
    BY <2>1, ListenerUndisturbed DEF IInv, Contributes, Delivered, Async
  <2>4. CollectorInv'
    <3>1. Exited(Async)' = Exited(Async) \cup {a} /\ a \notin Exited(Async)
      BY <2>1 DEF Exited, Async
    <3>2. IsFiniteSet(Async)
      <4>1. Async = {Params} \cup {Body}
        BY DEF Async
      <4> QED
        BY <4>1, FS_Singleton, FS_AddElement, Zenon
    <3>3. IsFiniteSet(Exited(Async)) /\ IsFiniteSet(Exited(Async)')
      BY <3>2, FS_Subset DEF Exited
    <3>4. completedAsync' = Cardinality(Exited(Async)')
      BY <2>1, <3>1, <3>3, FS_AddElement DEF IInv, CollectorInv
    <3>5. pc'[Collector] = "sendDone" => Exited(Async)' = Async
      <4> HAVE pc'[Collector] = "sendDone"
      <4>1. Cardinality(Exited(Async)') = Cardinality(Async)
        BY <2>1, <3>4
      <4>2. Exited(Async)' \in SUBSET Async
        BY DEF Exited
      <4> QED
        BY <3>2, <4>1, <4>2, FS_Subset
    <3>6. {v \in Failed({Body}) : Delivered(v)}' = {v \in Failed({Body}) : Delivered(v)}
      BY <2>1 DEF Failed, Delivered, Async
    <3>7. /\ IsInjective(validationErrors)' /\ Range(validationErrors)' = Range(validationErrors)
          /\ Range(paramErrors)' = Range(paramErrors)
          /\ Delivered(Params)' <=> Delivered(Params)
      BY <2>1 DEF IInv, CollectorInv, IsInjective, Range, Delivered, Async
    <3>8. pc'[Params] \in {"unborn", "spawning", "waiting", "sendErrors", "sendControl", "exited"}
      BY <2>1 DEF IInv, CollectorInv, Async
    <3> QED
      BY <2>1, <3>4, <3>5, <3>6, <3>7, <3>8 DEF IInv, CollectorInv
  <2>5. CallerInv'
    BY <2>1 DEF IInv, CallerInv, Joined, Async
  <2> QED
    BY <2>2, <2>3, <2>4, <2>5 DEF IInv
<1>3. CASE CollectorJoinsMain
  <2>1. /\ pc[Collector] = "sendDone" /\ pc'[Collector] = "exited"
        /\ pc[Main] = "waiting" /\ pc'[Main] \in {"returned", "validateResponse"}
        /\ \A g \in Goroutine \ {Main, Collector} : pc'[g] = pc[g]
        /\ UNCHANGED <<outcome, paramErrors, validationErrors, counters>>
    <3> PICK sorted \in Sortings(Errors(validationErrors)) : CollectorJoinsMain!3!(sorted)
      BY <1>3 DEF CollectorJoinsMain
    <3>1. CASE entry = "request"
      BY <1>3, <3>1 DEF CollectorJoinsMain
    <3>2. CASE entry # "request"
      BY <1>3, <3>2 DEF CollectorJoinsMain
    <3> QED
      BY <3>1, <3>2
  <2>2. ValidatorInv'
    BY <2>1, ValidatorsUndisturbed DEF IInv
  <2>3. ListenerInv'
    BY <2>1, ListenerUndisturbed DEF IInv, Contributes, Delivered
  <2>4. CollectorInv'
    BY <2>1, CollectorUndisturbed DEF IInv, Async, CollectorInv, Contributes, Delivered
  <2>5. CallerInv'
    BY <2>1 DEF IInv, CallerInv, Joined, Async
  <2> QED
    BY <2>2, <2>3, <2>4, <2>5 DEF IInv
<1> QED
  BY <1>1, <1>2, <1>3

\* IInv is inductive.
LEMMA CallJoins == Call => []IInv
<1>1. TypeOK /\ IInv /\ [Next]_vars => IInv'
  <2> SUFFICES ASSUME TypeOK, IInv, [Next]_vars PROVE IInv'
    OBVIOUS
  <2>1. CASE UNCHANGED vars
    BY <2>1 DEF vars, IInv, ValidatorInv, ListenerInv, CollectorInv, CallerInv,
                Decided, Delivered, Exited, Failed, IsInjective, Range
  <2>2. CASE Next
    BY <2>1, <2>2, CallerStep, ValidationStep, ListenerStep, CollectorStep
       DEF Next, Step, Finished
  <2> QED
    BY <2>1, <2>2
<1> QED
  BY <1>1, InitIInv, CallTyped, PTL DEF Call

\* The joins keep their books in every reachable state.
THEOREM JoinInvariant == Spec => []IInv
BY CallJoins, PTL DEF Spec, Call

\* Whatever the schedule and however many parameter validators there are, the
\* caller finds the batch of every failed validator exactly once.
THEOREM JoinIsExact == Spec => []JoinExact
<1>1. TypeOK /\ IInv => JoinExact
  <2> SUFFICES ASSUME TypeOK, IInv, pc[Main] \in Joined, outcome[Router] = "valid"
               PROVE  /\ IsInjective(validationErrors)
                      /\ Range(validationErrors) = Failed(ParamValidators \cup {Body})
    BY DEF JoinExact
  <2>1. pc[Collector] = "exited"
    BY DEF IInv, CallerInv, Joined
  <2>2. pc[Params] = "exited" /\ pc[Body] = "exited"
    BY <2>1 DEF IInv, CollectorInv, Exited, Async
  <2>3. \A w \in ParamValidators : pc[w] = "exited"
    BY <2>2 DEF IInv, ListenerInv, Exited
  <2>4. Range(paramErrors) = Failed(ParamValidators)
    BY <2>3 DEF IInv, ListenerInv, Delivered, Failed
  <2>5. {v \in Failed({Body}) : Delivered(v)} = Failed({Body})
    BY <2>2 DEF Failed, Delivered
  <2>6. Failed(ParamValidators \cup {Body}) = Failed(ParamValidators) \cup Failed({Body})
    BY DEF Failed
  <2> QED
    BY <2>2, <2>4, <2>5, <2>6 DEF IInv, CollectorInv, Delivered
<1> QED
  BY <1>1, JoinInvariant, TypeCorrect, PTL

\* No goroutine outlives the call that started it.
THEOREM NoLeak == Spec => []NoGoroutineLeft
<1>1. TypeOK /\ IInv => NoGoroutineLeft
  <2> SUFFICES ASSUME TypeOK, IInv, pc[Main] \in Joined, NEW g \in Goroutine \ {Main}
               PROVE  pc[g] \in {"unborn", "exited"}
    BY DEF NoGoroutineLeft
  <2>1. CASE pc[Collector] = "exited"
    <3>1. pc[Params] = "exited" /\ pc[Body] = "exited"
      BY <2>1 DEF IInv, CollectorInv, Exited, Async
    <3>2. pc[Listener] = "exited" /\ \A w \in ParamValidators : pc[w] = "exited"
      BY <3>1 DEF IInv, ListenerInv, Exited
    <3> QED
      BY <2>1, <3>1, <3>2 DEF Goroutine
  <2>2. CASE pc[Collector] # "exited"
    <3>1. \A h \in {Collector, Params, Body} : pc[h] = "unborn"
      BY <2>2 DEF IInv, CallerInv, Joined
    <3>2. pc[Listener] = "unborn" /\ \A w \in ParamValidators : pc[w] = "unborn"
      BY <3>1 DEF IInv, ListenerInv
    <3> QED
      BY <3>1, <3>2 DEF Goroutine
  <2> QED
    BY <2>1, <2>2
<1> QED
  BY <1>1, JoinInvariant, TypeCorrect, PTL

\* Both slices are written only before they are handed over, so the reads
\* without a lock in validator.go see the final value.
THEOREM HandoverIsFinal == Spec => NoWriteAfterHandover
<1> DEFINE Handover ==
      /\ pc[Params] \in {"sendErrors", "sendControl", "exited"} => UNCHANGED paramErrors
      /\ pc[Main] \in Joined => UNCHANGED validationErrors
<1>1. TypeOK /\ IInv /\ [Next]_vars => [Handover]_vars
  <2> SUFFICES ASSUME TypeOK, IInv, Next PROVE Handover
    BY DEF vars
  <2> USE FanoutAssumption DEF errorLists, counters, Goto, Meet
  <2>1. ASSUME NEW w \in ParamValidators, ListenerTakesErrors(w) PROVE Handover
    BY <2>1 DEF ListenerTakesErrors, IInv, ListenerInv
  <2>2. ASSUME NEW a \in Async, CollectorTakesErrors(a) PROVE Handover
    BY <2>2 DEF CollectorTakesErrors, IInv, CallerInv, CollectorInv, Async, Exited, Joined
  <2> QED
    BY <2>1, <2>2
       DEF Next, Step, Finished, vars, FindPath, Reject, SpawnCollector, SpawnParams,
           SpawnBody, ValidateResponse, Combine, SpawnParamValidators, Validate,
           ListenerTakesControl, ListenerJoinsParams, CollectorTakesControl,
           CollectorJoinsMain
<1> QED
  BY <1>1, JoinInvariant, TypeCorrect, PTL DEF Spec, NoWriteAfterHandover

(***************************************************************************)
(* The errors of a list of batches, and their sortings.                    *)
(***************************************************************************)

\* A set of naturals with 0 and the successor of each of its members is Nat.
LEMMA SetInduction ==
  ASSUME NEW S \in SUBSET Nat, 0 \in S, \A n \in S : n + 1 \in S
  PROVE  S = Nat
<1> SUFFICES ASSUME Nat \ S # {} PROVE FALSE
  OBVIOUS
<1>1. \A i, j \in Nat : i < j => <<i, j>> \in OpToRel(<, Nat)
  BY DEF OpToRel
<1>2. \E i \in Nat \ S : \A j \in Nat \ S : <<j, i>> \notin OpToRel(<, Nat)
  <2>1. Nat \ S \in SUBSET Nat
    OBVIOUS
  <2> QED
    BY <2>1, NatLessThanWellFounded, WFMin
<1>3. PICK i \in Nat \ S : \A j \in Nat \ S : ~(j < i)
  BY <1>1, <1>2, Zenon
<1>4. i # 0 /\ i - 1 \in Nat /\ i - 1 < i
  BY <1>3
<1>5. i - 1 \in S
  BY <1>3, <1>4
<1> QED
  BY <1>3, <1>4, <1>5

\* FlattenSeq as the prefixes it concatenates.
Flattening(f, ss) ==
  f = [i \in 1..Len(ss) |-> IF i = 1 THEN ss[i] ELSE f[i - 1] \o ss[i]]

LEMMA FlatteningExists ==
  ASSUME NEW E, NEW ss \in Seq(Seq(E))
  PROVE  \E f : Flattening(f, ss)
<1> DEFINE Prefix(f, n) ==
      /\ f \in [1..n -> Seq(E)]
      /\ \A i \in 1..n : f[i] = IF i = 1 THEN ss[i] ELSE f[i - 1] \o ss[i]
           Reached(n) == \E f : Prefix(f, n)
           S == {n \in Nat : n <= Len(ss) => Reached(n)}
<1>1. 0 \in S
  <2>1. Prefix([i \in 1..0 |-> <<>>], 0)
    OBVIOUS
  <2> QED
    BY <2>1
<1>2. \A n \in S : n + 1 \in S
  <2> SUFFICES ASSUME NEW n \in S, n + 1 <= Len(ss)
               PROVE  Reached(n + 1)
    <3> HIDE DEF Reached
    <3> QED
      OBVIOUS
  <2>1. PICK f : Prefix(f, n)
    OBVIOUS
  <2> DEFINE last == IF n = 0 THEN ss[1] ELSE f[n] \o ss[n + 1]
             g == [i \in 1..(n + 1) |-> IF i = n + 1 THEN last ELSE f[i]]
  <2>2. ss[n + 1] \in Seq(E) /\ (n # 0 => f[n] \in Seq(E))
    BY <2>1
  <2>3. last \in Seq(E)
    BY <2>2, ConcatProperties
  <2>4. g \in [1..(n + 1) -> Seq(E)]
    BY <2>1, <2>3
  <2>5. ASSUME NEW i \in 1..(n + 1)
        PROVE  g[i] = IF i = 1 THEN ss[i] ELSE g[i - 1] \o ss[i]
    <3>1. CASE i = n + 1
      BY <3>1
    <3>2. CASE i # n + 1
      <4>1. i \in 1..n /\ g[i] = f[i] /\ (i # 1 => g[i - 1] = f[i - 1])
        BY <3>2
      <4> HIDE DEF g
      <4> QED
        BY <2>1, <4>1
    <3> QED
      BY <3>1, <3>2
  <2>6. Prefix(g, n + 1)
    BY <2>4, <2>5
  <2> HIDE DEF Prefix, g
  <2> QED
    BY <2>6
<1>3. Len(ss) \in S
  <2>1. S \in SUBSET Nat /\ Len(ss) \in Nat
    OBVIOUS
  <2> HIDE DEF S
  <2> QED
    BY <1>1, <1>2, <2>1, SetInduction
<1>4. PICK f : Prefix(f, Len(ss))
  BY <1>3
<1>5. Flattening(f, ss)
  BY <1>4 DEF Flattening
<1> QED
  BY <1>5

\* FlattenSeq is the last of these prefixes.
LEMMA FlattenIsFlattening ==
  ASSUME NEW E, NEW ss \in Seq(Seq(E)), ss # <<>>
  PROVE  \E f : Flattening(f, ss) /\ FlattenSeq(ss) = f[Len(ss)]
<1> DEFINE flatten == CHOOSE f : Flattening(f, ss)
<1>1. Flattening(flatten, ss)
  BY FlatteningExists, Zenon
<1>2. FlattenSeq(ss) = flatten[Len(ss)]
  <2>1. Len(ss) # 0
    OBVIOUS
  <2> QED
    BY <2>1, Zenon DEF FlattenSeq, Flattening
<1> QED
  BY <1>1, <1>2, Zenon

\* The errors of distinct validators' batches are distinct and are those of the
\* validators, no more and no fewer.
LEMMA ErrorsOfBatches ==
  ASSUME NEW batches \in Seq(Validator), IsInjective(batches)
  PROVE  /\ Errors(batches) \in Seq(DOMAIN Key)
         /\ IsInjective(Errors(batches))
         /\ Range(Errors(batches)) = UNION {Range(ErrorsOf[v]) : v \in Range(batches)}
<1> DEFINE E == DOMAIN Key
           ss == [i \in DOMAIN batches |-> ErrorsOf[batches[i]]]
           N == Len(batches)
           Union(n) == UNION {Range(ss[i]) : i \in 1..n}
           Exact(s, n) == s \in Seq(E) /\ IsInjective(s) /\ Range(s) = Union(n)
<1>1. /\ N \in Nat /\ DOMAIN batches = 1..N
      /\ \A i \in 1..N : batches[i] \in Validator
  OBVIOUS
<1>2. ss \in Seq(Seq(E)) /\ Len(ss) = N /\ DOMAIN ss = 1..N
  BY <1>1, ErrorsAssumption
<1>3. \A i \in 1..N : ss[i] \in Seq(E) /\ IsInjective(ss[i])
  BY <1>1, ErrorsAssumption
<1>4. \A i, j \in 1..N : i # j => Range(ss[i]) \cap Range(ss[j]) = {}
  <2> SUFFICES ASSUME NEW i \in 1..N, NEW j \in 1..N, i # j
               PROVE  Range(ss[i]) \cap Range(ss[j]) = {}
    OBVIOUS
  <2>1. batches[i] # batches[j]
    BY <1>1 DEF IsInjective
  <2>2. ss[i] = ErrorsOf[batches[i]] /\ ss[j] = ErrorsOf[batches[j]]
    BY <1>1
  <2> QED
    BY <1>1, <2>1, <2>2, ErrorsAssumption
<1>5. UNION {Range(ErrorsOf[v]) : v \in Range(batches)} = Union(N)
  <2>1. Range(batches) = {batches[i] : i \in 1..N}
    BY <1>1 DEF Range
  <2>2. \A i \in 1..N : ss[i] = ErrorsOf[batches[i]]
    BY <1>1
  <2> HIDE DEF ss, N
  <2> QED
    BY <2>1, <2>2
<1>6. Errors(batches) = FlattenSeq(ss)
  BY DEF Errors
<1> HIDE DEF ss, E, N
<1>7. CASE N = 0
  <2>1. ss = <<>>
    BY <1>2, <1>7
  <2>2. FlattenSeq(ss) = <<>>
    BY <2>1 DEF FlattenSeq
  <2>3. Exact(<<>>, 0)
    BY DEF IsInjective, Range
  <2> QED
    BY <1>5, <1>6, <1>7, <2>2, <2>3 DEF E
<1>8. CASE N # 0
  <2>1. ss # <<>>
    BY <1>1, <1>2, <1>8
  <2>2. PICK f : Flattening(f, ss) /\ FlattenSeq(ss) = f[Len(ss)]
    BY <1>2, <2>1, FlattenIsFlattening, Zenon
  <2>3. \A i \in 1..N : f[i] = IF i = 1 THEN ss[i] ELSE f[i - 1] \o ss[i]
    BY <1>2, <2>2 DEF Flattening
  <2> DEFINE S == {n \in Nat : n + 1 <= N => Exact(f[n + 1], n + 1)}
  <2>4. 0 \in S
    <3>1. f[1] = ss[1]
      BY <1>1, <1>8, <2>3
    <3>2. Union(1) = Range(ss[1])
      OBVIOUS
    <3> QED
      BY <1>1, <1>3, <1>8, <3>1, <3>2
  <2>5. \A n \in S : n + 1 \in S
    <3> SUFFICES ASSUME NEW n \in Nat, n + 1 <= N => Exact(f[n + 1], n + 1), n + 2 <= N
                 PROVE  Exact(f[n + 2], n + 2)
      <4> HIDE DEF Exact
      <4> QED
        OBVIOUS
    <3>1. n + 1 \in 1..N /\ n + 2 \in 1..N /\ Exact(f[n + 1], n + 1)
      BY <1>1
    <3>2. f[n + 2] = f[n + 1] \o ss[n + 2]
      <4>1. n + 2 # 1 /\ (n + 2) - 1 = n + 1
        OBVIOUS
      <4> QED
        BY <2>3, <3>1, <4>1, Zenon
    <3>3. \A i \in 1..(n + 1) : Range(ss[i]) \cap Range(ss[n + 2]) = {}
      <4>1. \A i \in 1..(n + 1) : i \in 1..N /\ i # n + 2
        BY <1>1, <3>1
      <4> QED
        BY <1>4, <3>1, <4>1, Zenon
    <3>4. Range(f[n + 1]) \cap Range(ss[n + 2]) = {}
      BY <3>1, <3>3
    <3>5. /\ IsInjective(f[n + 1] \o ss[n + 2])
          /\ Range(f[n + 1] \o ss[n + 2]) = Range(f[n + 1]) \cup Range(ss[n + 2])
      <4>1. /\ f[n + 1] \in Seq(E) /\ IsInjective(f[n + 1])
            /\ ss[n + 2] \in Seq(E) /\ IsInjective(ss[n + 2])
        BY <1>3, <3>1
      <4> HIDE DEF Exact
      <4> QED
        BY <3>4, <4>1, ConcatNewBatches
    <3>6. f[n + 1] \o ss[n + 2] \in Seq(E)
      BY <1>3, <3>1, ConcatProperties
    <3>7. Union(n + 2) = Union(n + 1) \cup Range(ss[n + 2])
      <4>1. 1..(n + 2) = 1..(n + 1) \cup {n + 2}
        OBVIOUS
      <4> QED
        BY <4>1, Zenon
    <3> QED
      BY <3>1, <3>2, <3>5, <3>6, <3>7
  <2>6. S = Nat
    <3>1. S \in SUBSET Nat
      OBVIOUS
    <3> HIDE DEF S
    <3> QED
      BY <2>4, <2>5, <3>1, SetInduction
  <2>7. N - 1 \in S /\ N - 1 \in Nat
    <3>1. N - 1 \in Nat
      BY <1>1, <1>8
    <3> HIDE DEF S
    <3> QED
      BY <2>6, <3>1
  <2>8. Exact(f[N], N)
    <3>1. (N - 1) + 1 = N /\ N <= N
      BY <1>1
    <3> HIDE DEF Exact
    <3> QED
      BY <2>7, <3>1
  <2> QED
    BY <1>2, <1>5, <1>6, <2>2, <2>8 DEF E
<1> QED
  BY <1>7, <1>8

\* The places of a sequence are as many as it is long.
LEMMA PlacesCounted ==
  ASSUME NEW n \in Nat
  PROVE  IsFiniteSet(1..n) /\ Cardinality(1..n) = n
BY FS_Interval

\* A sorting of distinct errors is any sequence of the same distinct errors in
\* the order of their keys.
LEMMA SortingsOfDistinct ==
  ASSUME NEW E, NEW s \in Seq(E), IsInjective(s), NEW t
  PROVE  t \in Sortings(s) <=>
           /\ t \in Seq(E) /\ IsInjective(t) /\ Range(t) = Range(s)
           /\ SortedByKey(t)
<1> DEFINE D == DOMAIN s
<1>1. D = 1..Len(s) /\ Len(s) \in Nat
  OBVIOUS
<1>2. IsFiniteSet(D) /\ Cardinality(D) = Len(s)
  BY <1>1, PlacesCounted, Zenon
<1>3. SetToSeqs(D) = {f \in [D -> D] : \A i, j \in D : i # j => f[i] # f[j]}
  BY <1>1, <1>2 DEF SetToSeqs
<1>4. ASSUME NEW p \in SetToSeqs(D), t = [i \in D |-> s[p[i]]]
      PROVE  t \in Seq(E) /\ IsInjective(t) /\ Range(t) = Range(s)
  <2>1. p \in [D -> D] /\ \A i, j \in D : p[i] = p[j] => i = j
    BY <1>3
  <2>2. t \in Seq(E) /\ DOMAIN t = D
    BY <1>1, <1>4, <2>1
  <2>3. IsInjective(t)
    BY <1>4, <2>1 DEF IsInjective
  <2>4. \A k \in D : \E i \in D : p[i] = k
    <3>1. p \in Injection(D, D)
      BY <2>1 DEF Injection, IsInjective
    <3>2. p \in Surjection(D, D)
      BY <1>2, <3>1, FS_Injection
    <3> QED
      BY <3>2 DEF Surjection
  <2>5. Range(t) = Range(s)
    BY <1>4, <2>1, <2>4 DEF Range
  <2> QED
    BY <2>2, <2>3, <2>5
<1>5. ASSUME t \in Seq(E), IsInjective(t), Range(t) = Range(s)
      PROVE  \E p \in SetToSeqs(D) : t = [i \in D |-> s[p[i]]]
  <2> DEFINE p == [i \in DOMAIN t |-> CHOOSE k \in D : s[k] = t[i]]
  <2>1. \A i \in DOMAIN t : \E k \in D : s[k] = t[i]
    BY <1>5 DEF Range
  <2>2. \A i \in DOMAIN t : p[i] \in D /\ s[p[i]] = t[i]
    BY <2>1
  <2>3. DOMAIN t = D
    <3>1. DOMAIN t = 1..Len(t) /\ Len(t) \in Nat
      BY <1>5
    <3>2. IsFiniteSet(DOMAIN t) /\ Cardinality(DOMAIN t) = Len(t)
      BY <3>1, PlacesCounted, Zenon
    <3>3. p \in Bijection(DOMAIN t, D)
      <4>1. p \in [DOMAIN t -> D]
        BY <2>2
      <4>2. \A i, j \in DOMAIN t : p[i] = p[j] => i = j
        BY <1>5, <2>2 DEF IsInjective
      <4>3. ASSUME NEW k \in D PROVE \E i \in DOMAIN t : p[i] = k
        <5>1. PICK i \in DOMAIN t : t[i] = s[k]
          BY <1>5 DEF Range
        <5> HIDE DEF p
        <5> QED
          BY <2>2, <5>1 DEF IsInjective
      <4> HIDE DEF p
      <4> QED
        BY <4>1, <4>2, <4>3 DEF Bijection, Injection, Surjection, IsInjective
    <3>4. Cardinality(DOMAIN t) = Cardinality(D)
      <4> HIDE DEF p, D
      <4> QED
        BY <3>2, <3>3, FS_Bijection DEF ExistsBijection
    <3> QED
      BY <1>1, <1>2, <3>1, <3>2, <3>4
  <2>4. p \in SetToSeqs(D)
    BY <1>3, <1>5, <2>2, <2>3 DEF IsInjective
  <2>5. t = [i \in D |-> s[p[i]]]
    BY <1>5, <2>2, <2>3
  <2> QED
    BY <2>4, <2>5
<1> QED
  BY <1>4, <1>5 DEF Sortings

(***************************************************************************)
(* The call implements RequestValidation.                                  *)
(***************************************************************************)

\* Where the join ends, everything the collector counts is over and decided.
LEMMA AllDecided ==
  ASSUME TypeOK, IInv, pc[Collector] = "exited"
  PROVE  \A v \in ParamValidators \cup {Body} :
           pc[v] = "exited" /\ outcome[v] \in {"valid", "invalid"}
<1> USE FanoutAssumption DEF TypeOK, Goroutine, Validator, Outcome
<1>1. pc[Params] = "exited" /\ pc[Body] = "exited"
  BY DEF IInv, CollectorInv, Exited, Async
<1>2. \A w \in ParamValidators : pc[w] = "exited"
  BY <1>1 DEF IInv, ListenerInv, Exited
<1> QED
  BY <1>1, <1>2 DEF IInv, ValidatorInv, Decided

\* Before the caller starts the functions, nobody but the router has decided.
LEMMA NobodyDecided ==
  ASSUME TypeOK, IInv, pc[Collector] = "unborn" /\ pc[Params] = "unborn" /\ pc[Body] = "unborn"
  PROVE  \A v \in ParamValidators \cup {Body} : pc[v] = "unborn" /\ outcome[v] = "undecided"
<1> USE FanoutAssumption DEF TypeOK, Goroutine, Validator
<1>1. \A w \in ParamValidators : pc[w] = "unborn"
  BY DEF IInv, ListenerInv
<1> QED
  BY <1>1 DEF IInv, ValidatorInv, Decided

\* A validator runs only while the caller waits, or starts the rest.
LEMMA ValidatingUnderWay ==
  ASSUME TypeOK, IInv, NEW v \in ParamValidators \cup {Body}, pc[v] = "validating"
  PROVE  pc[Main] \in {"spawnBody", "waiting"} /\ outcome[Router] = "valid"
<1> USE FanoutAssumption DEF TypeOK, Goroutine, Validator
<1>1. pc[Collector] # "exited"
  BY AllDecided
<1>2. ~(pc[Collector] = "unborn" /\ pc[Params] = "unborn" /\ pc[Body] = "unborn")
  BY NobodyDecided
<1>3. v \in ParamValidators => pc[Params] # "unborn"
  BY DEF IInv, ListenerInv
<1> QED
  BY <1>1, <1>2, <1>3 DEF IInv, CallerInv, Joined, Async

LEMMA InitAnswerInv == Init => AnswerInv
BY FanoutAssumption DEF Init, AnswerInv, Goroutine, Validator, Joined, NoResult

\* The batches of the request, and any sorting of their errors.
LEMMA RequestSorted ==
  ASSUME TypeOK, IInv, NEW sorted \in Sortings(Errors(validationErrors))
  PROVE  /\ sorted \in Seq(DOMAIN Key)
         /\ Range(sorted) = UNION {Range(ErrorsOf[v]) : v \in Range(validationErrors)}
<1>1. validationErrors \in Seq(Validator) /\ IsInjective(validationErrors)
  <2>1. validationErrors \in Seq(ParamValidators \cup {Body})
    BY DEF TypeOK
  <2>2. ParamValidators \cup {Body} \subseteq Validator
    BY DEF Validator
  <2> QED
    BY <2>1, <2>2, SeqMonotonic DEF IInv, CollectorInv
<1> QED
  BY <1>1, ErrorsOfBatches, SortingsOfDistinct, Zenon

\* The caller's own steps keep the books of the answer.
LEMMA AnswerStep ==
  ASSUME TypeOK, IInv, AnswerInv, [Next]_vars
  PROVE  AnswerInv'
<1> USE FanoutAssumption DEF TypeOK, Goroutine, Validator, Entry, Outcome, Goto, Meet,
                             errorLists, counters, Joined
<1> DEFINE RequestAnswered ==
      pc[Main] \in Joined /\ outcome[Router] = "valid"
        => requestErrors \in Sortings(Errors(validationErrors))
<1>1. CASE FindPath
  BY <1>1 DEF FindPath, AnswerInv
<1>2. CASE Reject
  BY <1>2 DEF Reject, AnswerInv, IInv, CallerInv
<1>3. CASE SpawnCollector \/ SpawnParams \/ SpawnBody \/ SpawnParamValidators \/ ListenerJoinsParams
  BY <1>3 DEF SpawnCollector, SpawnParams, SpawnBody, SpawnParamValidators,
              ListenerJoinsParams, AnswerInv, ResponseErrors
<1>4. CASE ValidateResponse
  BY <1>4 DEF ValidateResponse, AnswerInv, ResponseErrors, IInv, CallerInv
<1>5. CASE Combine
  BY <1>5 DEF Combine, AnswerInv, ResponseErrors, IInv, CallerInv
<1>6. ASSUME NEW v \in ParamValidators \cup {Body}, Validate(v) PROVE AnswerInv'
  BY <1>6 DEF Validate, AnswerInv, ResponseErrors
<1>7. ASSUME NEW w \in ParamValidators, ListenerTakesErrors(w) \/ ListenerTakesControl(w)
      PROVE  AnswerInv'
  BY <1>7 DEF ListenerTakesErrors, ListenerTakesControl, AnswerInv, ResponseErrors
<1>8. ASSUME NEW a \in Async, CollectorTakesErrors(a) PROVE AnswerInv'
  <2>1. ~(pc[Main] \in Joined /\ outcome[Router] = "valid")
    BY <1>8 DEF CollectorTakesErrors, IInv, CallerInv
  <2> QED
    BY <1>8, <2>1 DEF CollectorTakesErrors, AnswerInv, ResponseErrors, Async
<1>9. ASSUME NEW a \in Async, CollectorTakesControl(a) PROVE AnswerInv'
  BY <1>9 DEF CollectorTakesControl, AnswerInv, ResponseErrors, Async
<1>10. CASE CollectorJoinsMain
  <2> PICK sorted \in Sortings(Errors(validationErrors)) : CollectorJoinsMain!3!(sorted)
    BY <1>10 DEF CollectorJoinsMain
  <2>1. CASE entry = "request"
    <3>1. sorted \in Seq(DOMAIN Key) /\ sorted \o <<>> = sorted
      BY RequestSorted
    <3>2. outcome[Response] = "undecided" /\ outcome[Router] = "valid"
      BY <1>10 DEF CollectorJoinsMain, AnswerInv, IInv, CallerInv
    <3>3. /\ pc' = [pc EXCEPT ![Collector] = "exited", ![Main] = "returned"]
          /\ requestErrors' = sorted
          /\ result' = [returned |-> TRUE, valid |-> Len(sorted) = 0, errors |-> sorted]
          /\ UNCHANGED <<entry, outcome, paramErrors, validationErrors, counters>>
      BY <1>10, <2>1 DEF CollectorJoinsMain
    <3>4. ResponseErrors' = <<>>
      BY <3>2, <3>3 DEF ResponseErrors
    <3>5. result'.returned /\ result'.errors = sorted
      BY <3>3, Zenon
    <3>6. UNCHANGED Errors(validationErrors)
      BY <3>3 DEF Errors
    <3>7. pc'[Main] = "returned"
      BY <3>3
    <3>8. requestErrors' \in Sortings(Errors(validationErrors))'
      BY <3>3, <3>6 DEF Sortings, SortedByKey
    <3>9. result'.errors = requestErrors' \o ResponseErrors'
      BY <3>1, <3>3, <3>4, <3>5, Zenon
    <3>10. outcome' = outcome /\ entry' = entry
      BY <3>3
    <3> QED
      BY <2>1, <3>2, <3>5, <3>7, <3>8, <3>9, <3>10 DEF AnswerInv
  <2>2. CASE entry # "request"
    BY <1>10, <2>2 DEF CollectorJoinsMain, AnswerInv, ResponseErrors
  <2> QED
    BY <2>1, <2>2
<1>11. CASE UNCHANGED vars
  BY <1>11 DEF vars, AnswerInv, ResponseErrors
<1> QED
  BY <1>1, <1>2, <1>3, <1>4, <1>5, <1>6, <1>7, <1>8, <1>9, <1>10, <1>11
     DEF Next, Step, Finished

\* The mapped answer names the validators whose errors make up the list, since
\* every error belongs to one validator and a failed one has some.
LEMMA ReportsExactly ==
  ASSUME NEW errors, NEW F \in SUBSET Validator,
         Range(errors) = UNION {Range(ErrorsOf[v]) : v \in F}
  PROVE  {v \in Validator : Range(ErrorsOf[v]) \subseteq Range(errors)} = F
<1>1. ASSUME NEW v \in Validator, Range(ErrorsOf[v]) \subseteq Range(errors) PROVE v \in F
  <2>1. ErrorsOf[v] \in Seq(DOMAIN Key) /\ ErrorsOf[v] # <<>>
    BY ErrorsAssumption
  <2>2. ErrorsOf[v][1] \in Range(ErrorsOf[v])
    BY <2>1 DEF Range
  <2>3. PICK w \in F : ErrorsOf[v][1] \in Range(ErrorsOf[w])
    BY <1>1, <2>2
  <2> QED
    BY <2>2, <2>3, ErrorsAssumption
<1> QED
  BY <1>1

\* The abstract state of a call that has not returned, and of one that has.
LEMMA MappedAnswer ==
  /\ ~result.returned => {v \in Validator : result.returned /\ Reports(v)} = {}
  /\ result.returned => {v \in Validator : result.returned /\ Reports(v)}
                          = {v \in Validator : Range(ErrorsOf[v]) \subseteq Range(result.errors)}
BY DEF Reports

\* Abstract!Validator is Validator.
LEMMA SameValidators == Abstract!Validator = Validator
BY DEF Abstract!Validator, Validator

LEMMA InitRefines == Init => Abstract!Init
BY MappedAnswer, SameValidators DEF Init, Abstract!Init, NoResult, Entry, Abstract!Entry

\* A step that leaves the verdicts and the answer alone is a stutter.
LEMMA Stutters ==
  ASSUME UNCHANGED <<entry, outcome, result>>
  PROVE  UNCHANGED Abstract!vars
BY DEF Abstract!vars, Reports

\* A verdict given while the call is under way is an abstract decision.
LEMMA Decides ==
  ASSUME TypeOK, NEW v \in Validator, ~result.returned, UNCHANGED <<entry, result>>,
         NEW o \in {"valid", "invalid"}, outcome' = [outcome EXCEPT ![v] = o],
         outcome[v] = "undecided",
         v # Router => outcome[Router] = "valid",
         v = Response => /\ entry = "requestResponse"
                         /\ \A w \in ParamValidators \cup {Body} : outcome[w] # "undecided"
  PROVE  Abstract!Next
<1>1. Abstract!MayDecide(v)
  BY FanoutAssumption DEF Validator, Abstract!MayDecide, Abstract!Consulted
<1>2. UNCHANGED {w \in Validator : result.returned /\ Reports(w)}
  BY DEF Reports
<1> QED
  BY <1>1, <1>2, SameValidators DEF Abstract!Next, Abstract!Decide

\* An answer that names the failed validators, given when all have decided.
LEMMA Replies ==
  ASSUME TypeOK, ~result.returned, result'.returned, UNCHANGED <<entry, outcome>>,
         \A v \in Abstract!Consulted : outcome[v] # "undecided",
         Range(result'.errors) = UNION {Range(ErrorsOf[v]) : v \in Failed(Validator)}
  PROVE  Abstract!Next
<1>1. Failed(Validator) = Abstract!Failing
  BY SameValidators DEF Failed, Abstract!Failing
<1>2. Failed(Validator) \in SUBSET Validator
  BY DEF Failed
<1>3. {v \in Validator : Range(ErrorsOf[v]) \subseteq Range(result'.errors)} = Failed(Validator)
  BY <1>2, ReportsExactly
<1>4. {v \in Validator : result'.returned /\ Range(ErrorsOf[v]) \subseteq Range(result'.errors)}
        = Abstract!Failing
  BY <1>1, <1>3
<1> QED
  BY <1>4 DEF Abstract!Next, Abstract!Reply, Reports

\* The errors returned for a request that was routed are those of its failed
\* validators.
LEMMA RequestErrorsExact ==
  ASSUME TypeOK, IInv, pc[Collector] \in {"sendDone", "exited"},
         NEW sorted \in Sortings(Errors(validationErrors))
  PROVE  /\ sorted \in Seq(DOMAIN Key)
         /\ Range(sorted)
              = UNION {Range(ErrorsOf[v]) : v \in Failed(ParamValidators \cup {Body})}
         /\ \A v \in ParamValidators \cup {Body} : outcome[v] # "undecided"
<1> USE FanoutAssumption DEF TypeOK, Goroutine, Validator, Outcome
<1>1. pc[Params] = "exited" /\ pc[Body] = "exited"
  BY DEF IInv, CollectorInv, Exited, Async
<1>2. \A w \in ParamValidators : pc[w] = "exited"
  BY <1>1 DEF IInv, ListenerInv, Exited
<1>3. \A v \in ParamValidators \cup {Body} : outcome[v] # "undecided"
  BY <1>1, <1>2 DEF IInv, ValidatorInv, Decided
<1>4. Range(paramErrors) = Failed(ParamValidators)
  BY <1>2 DEF IInv, ListenerInv, Delivered, Failed
<1>5. Range(validationErrors) = Failed(ParamValidators) \cup Failed({Body})
  BY <1>1, <1>4 DEF IInv, CollectorInv, Delivered, Failed
<1>6. Range(validationErrors) = Failed(ParamValidators \cup {Body})
  BY <1>5 DEF Failed
<1> QED
  BY <1>3, <1>6, RequestSorted

\* Every step of the call is a step of the promise or a stutter.
LEMMA StepRefines ==
  ASSUME TypeOK, IInv, AnswerInv, [Next]_vars
  PROVE  [Abstract!Next]_(Abstract!vars)
<1> USE FanoutAssumption DEF Goroutine, Validator, Goto, Meet, errorLists, counters
<1>1. CASE FindPath
  <2>1. /\ outcome[Router] = "undecided" /\ ~result.returned /\ UNCHANGED <<entry, result>>
        /\ \E o \in {"valid", "invalid"} : outcome' = [outcome EXCEPT ![Router] = o]
    BY <1>1 DEF FindPath, AnswerInv
  <2> QED
    BY <2>1, Decides
<1>2. CASE Reject
  <2>1. /\ ~result.returned /\ result'.returned /\ UNCHANGED <<entry, outcome>>
        /\ result'.errors = ErrorsOf[Router]
    BY <1>2 DEF Reject, AnswerInv
  <2>2. outcome[Router] = "invalid" /\ outcome[Response] = "undecided"
    BY <1>2 DEF Reject, AnswerInv, IInv, CallerInv, TypeOK, Outcome
  <2>3. \A v \in ParamValidators \cup {Body} : outcome[v] = "undecided"
    BY <1>2, NobodyDecided DEF Reject, IInv, CallerInv
  <2>4. Failed(Validator) = {Router}
    BY <2>2, <2>3 DEF Failed
  <2>5. \A v \in Abstract!Consulted : outcome[v] # "undecided"
    BY <2>2 DEF Abstract!Consulted
  <2> QED
    BY <2>1, <2>4, <2>5, Replies
<1>3. CASE SpawnCollector \/ SpawnParams \/ SpawnBody \/ SpawnParamValidators \/ ListenerJoinsParams
  BY <1>3, Stutters DEF SpawnCollector, SpawnParams, SpawnBody, SpawnParamValidators,
                        ListenerJoinsParams
<1>4. ASSUME NEW v \in ParamValidators \cup {Body}, Validate(v)
      PROVE  [Abstract!Next]_(Abstract!vars)
  <2>1. /\ UNCHANGED <<entry, result>> /\ pc[v] = "validating"
        /\ \E o \in {"valid", "invalid"} : outcome' = [outcome EXCEPT ![v] = o]
    BY <1>4 DEF Validate
  <2>2. outcome[v] = "undecided"
    BY <2>1 DEF IInv, ValidatorInv, Decided
  <2>3. ~result.returned /\ outcome[Router] = "valid"
    BY <2>1, ValidatingUnderWay DEF AnswerInv
  <2> QED
    BY <2>1, <2>2, <2>3, Decides
<1>5. ASSUME NEW w \in ParamValidators, ListenerTakesErrors(w) \/ ListenerTakesControl(w)
      PROVE  [Abstract!Next]_(Abstract!vars)
  BY <1>5, Stutters DEF ListenerTakesErrors, ListenerTakesControl
<1>6. ASSUME NEW a \in Async, CollectorTakesErrors(a) \/ CollectorTakesControl(a)
      PROVE  [Abstract!Next]_(Abstract!vars)
  BY <1>6, Stutters DEF CollectorTakesErrors, CollectorTakesControl
<1>7. CASE CollectorJoinsMain
  <2> PICK sorted \in Sortings(Errors(validationErrors)) : CollectorJoinsMain!3!(sorted)
    BY <1>7 DEF CollectorJoinsMain
  <2>1. CASE entry # "request"
    BY <1>7, <2>1, Stutters DEF CollectorJoinsMain
  <2>2. CASE entry = "request"
    <3>1. /\ ~result.returned /\ UNCHANGED <<entry, outcome>>
          /\ result' = [returned |-> TRUE, valid |-> Len(sorted) = 0, errors |-> sorted]
      BY <1>7, <2>2 DEF CollectorJoinsMain, AnswerInv
    <3>2. result'.returned /\ result'.errors = sorted
      BY <3>1, Zenon
    <3>3. outcome[Router] = "valid" /\ outcome[Response] = "undecided"
      BY <1>7 DEF CollectorJoinsMain, AnswerInv, IInv, CallerInv
    <3>4. /\ Range(sorted) = UNION {Range(ErrorsOf[v]) : v \in Failed(ParamValidators \cup {Body})}
          /\ \A v \in ParamValidators \cup {Body} : outcome[v] # "undecided"
      BY <1>7, RequestErrorsExact DEF CollectorJoinsMain
    <3>5. Failed(Validator) = Failed(ParamValidators \cup {Body})
      BY <3>3 DEF Failed
    <3>6. \A v \in Abstract!Consulted : outcome[v] # "undecided"
      BY <2>2, <3>3, <3>4 DEF Abstract!Consulted
    <3> QED
      BY <3>1, <3>2, <3>4, <3>5, <3>6, Replies
  <2> QED
    BY <2>1, <2>2
<1>8. CASE ValidateResponse
  <2>1. /\ UNCHANGED <<entry, result>> /\ ~result.returned
        /\ \E o \in {"valid", "invalid"} : outcome' = [outcome EXCEPT ![Response] = o]
    BY <1>8 DEF ValidateResponse, AnswerInv
  <2>2. /\ outcome[Response] = "undecided" /\ outcome[Router] = "valid"
        /\ entry = "requestResponse" /\ pc[Collector] = "exited"
    BY <1>8 DEF ValidateResponse, AnswerInv, IInv, CallerInv
  <2> QED
    BY <2>1, <2>2, AllDecided, Decides
<1>9. CASE Combine
  <2>1. /\ ~result.returned /\ UNCHANGED <<entry, outcome>>
        /\ result'.returned /\ result'.errors = requestErrors \o ResponseErrors
    BY <1>9 DEF Combine, AnswerInv, ResponseErrors
  <2>2. /\ outcome[Response] # "undecided" /\ outcome[Router] = "valid"
        /\ entry = "requestResponse" /\ pc[Collector] = "exited"
        /\ requestErrors \in Sortings(Errors(validationErrors))
    BY <1>9 DEF Combine, AnswerInv, IInv, CallerInv, Joined
  <2>3. /\ requestErrors \in Seq(DOMAIN Key)
        /\ Range(requestErrors)
             = UNION {Range(ErrorsOf[v]) : v \in Failed(ParamValidators \cup {Body})}
        /\ \A v \in ParamValidators \cup {Body} : outcome[v] # "undecided"
    BY <2>2, RequestErrorsExact
  <2>4. /\ ResponseErrors \in Seq(DOMAIN Key)
        /\ Range(ResponseErrors) = UNION {Range(ErrorsOf[v]) : v \in Failed({Response})}
    <3>1. CASE outcome[Response] = "invalid"
      <4>1. ResponseErrors = ErrorsOf[Response] /\ Failed({Response}) = {Response}
        BY <3>1 DEF ResponseErrors, Failed
      <4>2. ErrorsOf[Response] \in Seq(DOMAIN Key)
        BY ErrorsAssumption
      <4> QED
        BY <4>1, <4>2
    <3>2. CASE outcome[Response] # "invalid"
      <4>1. ResponseErrors = <<>> /\ Failed({Response}) = {}
        BY <3>2 DEF ResponseErrors, Failed
      <4>2. Range(<<>>) = {}
        BY DEF Range
      <4> QED
        BY <4>1, <4>2
    <3> QED
      BY <3>1, <3>2
  <2>5. Range(requestErrors \o ResponseErrors) = Range(requestErrors) \cup Range(ResponseErrors)
    BY <2>3, <2>4, RangeConcatenation
  <2>6. Failed(Validator) = Failed(ParamValidators \cup {Body}) \cup Failed({Response})
    BY <2>2 DEF Failed
  <2>7. \A v \in Abstract!Consulted : outcome[v] # "undecided"
    BY <2>2, <2>3 DEF Abstract!Consulted
  <2>8. Range(result'.errors) = UNION {Range(ErrorsOf[v]) : v \in Failed(Validator)}
    BY <2>1, <2>3, <2>4, <2>5, <2>6
  <2> QED
    BY <2>1, <2>7, <2>8, Replies
<1>10. CASE UNCHANGED vars
  BY <1>10, Stutters DEF vars
<1> QED
  BY <1>1, <1>2, <1>3, <1>4, <1>5, <1>6, <1>7, <1>8, <1>9, <1>10
     DEF Next, Step, Finished

\* AnswerInv holds in every reachable state.
LEMMA CallAnswers == Call => []AnswerInv
BY InitAnswerInv, AnswerStep, CallTyped, CallJoins, PTL DEF Call

\* Without its fairness a call already does what is promised.
LEMMA CallRefines == Call => RefinesRequestValidation
BY InitRefines, StepRefines, CallAnswers, CallTyped, CallJoins, PTL
   DEF Call, RefinesRequestValidation, Abstract!Spec

\* Whatever the schedule, the call does what RequestValidation promises: it
\* consults the validators in an admissible order, each once, and its answer
\* reports exactly those that failed.
THEOREM FanoutRefines == Spec => RefinesRequestValidation
BY CallRefines, PTL DEF Spec, Call

(***************************************************************************)
(* The two entry points.                                                   *)
(***************************************************************************)

\* The synchronous call reaches every validator of the request, each once.
LEMMA CalledOnce ==
  /\ Sync!Called \in Seq(ParamValidators \cup {Body})
  /\ Len(Sync!Called) \in Nat
  /\ IsInjective(Sync!Called)
  /\ Range(Sync!Called) = ParamValidators \cup {Body}
  /\ Sync!Validator = Validator
<1> DEFINE B == ParamValidators \cup {Body}
<1>1. Order \in Seq(B) /\ Body \in B
  BY EntryPointsAssumption, SeqMonotonic
<1>2. Body \notin Range(Order)
  BY FanoutAssumption, EntryPointsAssumption
<1>3. IsInjective(Sync!Called) /\ Range(Sync!Called) = Range(Order) \cup {Body}
  BY <1>1, <1>2, EntryPointsAssumption, AppendNewBatch DEF Sync!Called
<1>4. Sync!Called \in Seq(B) /\ Len(Sync!Called) \in Nat
  BY <1>1 DEF Sync!Called
<1>5. Range(Sync!Called) = B
  BY <1>3, EntryPointsAssumption
<1>6. Sync!Validator = Validator
  <2>1. Sync!Validator = Range(Sync!Called) \cup {Router, Response}
    BY DEF Sync!Validator, Sync!Range, Range
  <2>2. Validator = B \cup {Router, Response}
    BY DEF Validator
  <2> QED
    BY <1>5, <2>1, <2>2
<1> QED
  BY <1>3, <1>4, <1>5, <1>6

\* Both calls start with nothing decided.
LEMMA BothInitSync == BothInit => SyncInv /\ SameVerdicts
<1> SUFFICES ASSUME Init, Sync!Init PROVE SyncInv /\ SameVerdicts
  BY DEF BothInit
<1>1. /\ syncPc = "findPath" /\ syncNext = 1 /\ syncErrors = <<>>
      /\ syncOutcome = [v \in Validator |-> "undecided"]
      /\ pc[Main] = "findPath" /\ outcome = [v \in Validator |-> "undecided"]
  BY CalledOnce, FanoutAssumption DEF Init, Sync!Init, Goroutine
<1>2. \A i \in 1..Len(Sync!Called) : Sync!Called[i] \in Validator
  BY CalledOnce DEF Validator
<1>3. Range(syncErrors) = {} /\ SyncFailed = {} /\ IsInjective(syncErrors)
  BY <1>1 DEF Range, SyncFailed, Validator, IsInjective
<1> QED
  BY <1>1, <1>2, <1>3, CalledOnce DEF SyncInv, SameVerdicts, Outcome, Validator

\* Routing decides first, for the synchronous call.
LEMMA SyncRoutes ==
  ASSUME SyncInv, Sync!FindPath, UNCHANGED vars
  PROVE  SyncInv'
<1> USE FanoutAssumption DEF Outcome
<1> PICK o \in {"valid", "invalid"} :
           /\ syncOutcome' = [syncOutcome EXCEPT ![Router] = o]
           /\ syncErrors' = IF o = "invalid" THEN <<Router>> ELSE <<>>
           /\ syncPc' = IF o = "invalid" THEN "rejecting" ELSE "validating"
  BY DEF Sync!FindPath
<1>1. syncPc = "findPath" /\ syncNext' = syncNext /\ Router \in Validator
  BY DEF Sync!FindPath, Validator
<1>2. syncOutcome'[Router] = o /\ \A v \in Validator \ {Router} : syncOutcome'[v] = syncOutcome[v]
  BY <1>1 DEF SyncInv
<1>3. \A i \in 1..Len(Sync!Called) : Sync!Called[i] \in Validator \ {Router}
  BY CalledOnce DEF Validator
<1>4. \A v \in ParamValidators \cup {Body} : syncOutcome'[v] = syncOutcome[v]
  BY <1>2 DEF Validator
<1>5. Range(syncErrors) = SyncFailed /\ SyncFailed' = SyncFailed
  BY <1>1, <1>4 DEF SyncInv, SyncFailed
<1>6. SyncFailed = {}
  <2> SUFFICES ASSUME NEW v \in ParamValidators \cup {Body} PROVE syncOutcome[v] # "invalid"
    BY DEF SyncFailed
  <2>1. PICK i \in 1..Len(Sync!Called) : Sync!Called[i] = v
    BY CalledOnce DEF Range
  <2> QED
    BY <1>1, <2>1 DEF SyncInv
<1>7. o = "valid" => Range(syncErrors') = {}
  BY DEF Range
<1>8. syncErrors' \in Seq(Validator) /\ IsInjective(syncErrors)'
  BY <1>1 DEF IsInjective
<1> QED
  BY <1>1, <1>2, <1>3, <1>5, <1>6, <1>7, <1>8 DEF SyncInv, vars

\* The next validator is called, whatever the earlier ones said.
LEMMA SyncCalls ==
  ASSUME SyncInv, Sync!CallNext, UNCHANGED vars
  PROVE  SyncInv'
<1> USE FanoutAssumption DEF Outcome
<1> DEFINE v == Sync!Called[syncNext]
           B == ParamValidators \cup {Body}
<1> PICK o \in {"valid", "invalid"} :
           /\ syncOutcome' = [syncOutcome EXCEPT ![v] = o]
           /\ syncErrors' = IF o = "invalid" THEN Append(syncErrors, v) ELSE syncErrors
  BY DEF Sync!CallNext
<1>1. /\ syncPc = "validating" /\ syncPc' = syncPc
      /\ syncNext \in 1..Len(Sync!Called) /\ syncNext' = syncNext + 1
  BY CalledOnce DEF Sync!CallNext, SyncInv
<1>2. v \in B /\ v \in Validator /\ v # Router /\ syncOutcome[v] = "undecided"
  BY <1>1, CalledOnce DEF SyncInv, Validator
<1>3. /\ syncOutcome' \in [Validator -> Outcome]
      /\ syncOutcome'[v] = o
      /\ \A w \in Validator \ {v} : syncOutcome'[w] = syncOutcome[w]
  BY <1>2 DEF SyncInv
<1>4. /\ syncOutcome[Router] = "valid" /\ syncOutcome'[Router] = "valid"
      /\ syncOutcome'[Response] = "undecided"
  BY <1>1, <1>2, <1>3 DEF SyncInv, Validator
<1>5. Range(syncErrors) = SyncFailed /\ v \notin SyncFailed
  BY <1>2, <1>4 DEF SyncInv, SyncFailed
<1>6. SyncFailed' = IF o = "invalid" THEN SyncFailed \cup {v} ELSE SyncFailed
  BY <1>2, <1>3 DEF SyncFailed, Validator
<1>7. /\ syncErrors' \in Seq(Validator)
      /\ IsInjective(syncErrors')
      /\ Range(syncErrors') = SyncFailed'
  <2>1. syncErrors \in Seq(Validator) /\ IsInjective(syncErrors)
    BY DEF SyncInv
  <2>2. CASE o = "invalid"
    <3>1. syncErrors' = Append(syncErrors, v)
      BY <2>2
    <3>2. syncErrors' \in Seq(Validator)
      BY <1>2, <2>1, <3>1
    <3> HIDE DEF v
    <3>3. IsInjective(syncErrors') /\ Range(syncErrors') = Range(syncErrors) \cup {v}
      BY <1>2, <1>5, <2>1, <3>1, AppendNewBatch
    <3> QED
      BY <1>5, <1>6, <2>2, <3>2, <3>3
  <2>3. CASE o # "invalid"
    BY <1>5, <1>6, <2>1, <2>3
  <2> QED
    BY <2>2, <2>3
<1>8. ASSUME NEW i \in 1..Len(Sync!Called)
      PROVE  i >= syncNext' <=> syncOutcome'[Sync!Called[i]] = "undecided"
  <2>1. CASE i = syncNext
    BY <1>1, <1>3, <2>1
  <2>2. CASE i # syncNext
    <3>1. Sync!Called[i] # v /\ Sync!Called[i] \in Validator
      BY <1>1, <2>2, CalledOnce DEF IsInjective, Validator
    <3>2. syncOutcome'[Sync!Called[i]] = syncOutcome[Sync!Called[i]]
      BY <1>3, <3>1
    <3>3. i >= syncNext <=> syncOutcome[Sync!Called[i]] = "undecided"
      BY DEF SyncInv
    <3>4. i >= syncNext' <=> i >= syncNext
      BY <1>1, <2>2, CalledOnce
    <3> QED
      BY <3>2, <3>3, <3>4
  <2> QED
    BY <2>1, <2>2
<1>9. syncNext' \in 1..(Len(Sync!Called) + 1)
  BY <1>1, CalledOnce
<1>10. UNCHANGED <<pc, outcome, Sync!Called>>
  BY DEF vars, Sync!Called
<1> HIDE DEF v
<1> QED
  BY <1>1, <1>3, <1>4, <1>7, <1>8, <1>9, <1>10 DEF SyncInv

\* The synchronous call returns.
LEMMA SyncReturns ==
  ASSUME SyncInv, Sync!Return, UNCHANGED vars
  PROVE  SyncInv'
<1>1. /\ syncPc = "rejecting" \/ (syncPc = "validating" /\ syncNext > Len(Sync!Called))
      /\ syncPc' = "returned"
      /\ UNCHANGED <<syncNext, syncOutcome, syncErrors, Sync!Called, pc, outcome>>
  BY DEF Sync!Return, Sync!Called, vars
<1>2. SyncFailed' = SyncFailed /\ Range(syncErrors)' = Range(syncErrors)
      /\ IsInjective(syncErrors)' = IsInjective(syncErrors)
  BY <1>1 DEF SyncFailed, Range, IsInjective
<1>3. syncPc' = "returned" /\ syncOutcome'[Router] = "valid" => syncNext' = Len(Sync!Called) + 1
  BY <1>1, CalledOnce DEF SyncInv
<1> QED
  BY <1>1, <1>2, <1>3, CalledOnce DEF SyncInv

\* The second call leaves the first one's results alone.
LEMMA SyncUndisturbed ==
  ASSUME SyncInv, syncPc = "returned" \/ UNCHANGED vars, UNCHANGED syncVars
  PROVE  SyncInv'
<1>1. UNCHANGED <<syncPc, syncNext, syncOutcome, syncErrors, Sync!Called>>
  BY DEF syncVars, Sync!Called
<1>2. syncPc # "returned" => UNCHANGED <<pc, outcome>>
  BY DEF vars
<1> QED
  BY <1>1, <1>2 DEF SyncInv, SyncFailed, Range, IsInjective

LEMMA SyncStep ==
  ASSUME SyncInv, SameVerdicts, [BothNext]_<<vars, syncVars>>
  PROVE  SyncInv' /\ SameVerdicts'
<1>1. CASE SyncCall
  <2>1. SyncInv'
    BY <1>1, SyncRoutes, SyncCalls, SyncReturns DEF SyncCall, Sync!Next
  <2>2. syncPc # "returned"
    BY <1>1 DEF SyncCall, Sync!Next, Sync!FindPath, Sync!CallNext, Sync!Return
  <2>3. \A v \in Validator : outcome'[v] = "undecided"
    BY <1>1, <2>2 DEF SyncCall, vars, SyncInv
  <2> QED
    BY <2>1, <2>3 DEF SameVerdicts
<1>2. ASSUME NEW g \in Goroutine, AsyncStep(g) PROVE SyncInv' /\ SameVerdicts'
  BY <1>2, SyncUndisturbed DEF AsyncStep
<1>3. CASE syncPc = "returned" /\ Finished /\ UNCHANGED syncVars
  BY <1>3, SyncUndisturbed DEF Finished, SameVerdicts, vars, syncVars
<1>4. CASE UNCHANGED <<vars, syncVars>>
  BY <1>4, SyncUndisturbed DEF SameVerdicts, vars, syncVars
<1> QED
  BY <1>1, <1>2, <1>3, <1>4 DEF BothNext

\* The second call is a call of RequestFanout.
LEMMA SecondIsCall == BothSpec => Call
<1>1. BothInit => Init
  BY DEF BothInit
<1>2. [BothNext]_<<vars, syncVars>> => [Next]_vars
  BY DEF BothNext, SyncCall, AsyncStep, Next
<1> QED
  BY <1>1, <1>2, PTL DEF BothSpec, Call

\* Whatever the first call did, the second does what RequestValidation promises.
THEOREM SecondCallRefines == BothSpec => RefinesRequestValidation
BY SecondIsCall, CallRefines, PTL

\* The entry points agree, whatever the schedule of the second call, the errors
\* and their keys, and the number and the order of the parameter validators.
THEOREM EntryPointsAgree == BothSpec => []EntriesAgree
<1>1. TypeOK /\ IInv /\ AnswerInv /\ SyncInv /\ SameVerdicts => EntriesAgree
  <2> SUFFICES ASSUME TypeOK, IInv, AnswerInv, SyncInv, SameVerdicts, result.returned
               PROVE  (IF outcome[Router] = "invalid" THEN result.errors ELSE requestErrors)
                        \in Sortings(Errors(syncErrors))
    BY DEF EntriesAgree
  <2>1. /\ pc[Main] = "returned" /\ outcome[Router] # "undecided" /\ syncPc = "returned"
        /\ Router \in Validator
    BY DEF AnswerInv, SyncInv, Validator
  <2>2. outcome[Router] = syncOutcome[Router]
    BY <2>1 DEF SameVerdicts, SyncInv
  <2>3. Errors(syncErrors) \in Seq(DOMAIN Key) /\ IsInjective(Errors(syncErrors))
        /\ Range(Errors(syncErrors)) = UNION {Range(ErrorsOf[v]) : v \in Range(syncErrors)}
    BY ErrorsOfBatches DEF SyncInv
  <2>4. CASE outcome[Router] = "invalid"
    <3>1. result.errors = ErrorsOf[Router] /\ syncErrors = <<Router>>
      BY <2>1, <2>2, <2>4 DEF AnswerInv, SyncInv
    <3>2. ErrorsOf[Router] \in Seq(DOMAIN Key) /\ IsInjective(ErrorsOf[Router])
          /\ Len(ErrorsOf[Router]) = 1
      BY <2>1, ErrorsAssumption
    <3>3. SortedByKey(ErrorsOf[Router])
      BY <3>2 DEF SortedByKey
    <3>4. Range(<<Router>>) = {Router}
      BY DEF Range
    <3>5. Range(ErrorsOf[Router]) = Range(Errors(syncErrors))
      BY <2>3, <3>1, <3>4
    <3>6. ErrorsOf[Router] \in Sortings(Errors(syncErrors))
      BY <2>3, <3>2, <3>3, <3>5, SortingsOfDistinct
    <3> QED
      BY <2>4, <3>1, <3>6
  <2>5. CASE outcome[Router] # "invalid"
    <3>1. outcome[Router] = "valid"
      BY <2>1, <2>5 DEF TypeOK, Outcome
    <3>2. requestErrors \in Sortings(Errors(validationErrors)) /\ pc[Collector] = "exited"
      BY <2>1, <3>1 DEF AnswerInv, Joined, IInv, CallerInv
    <3>3. validationErrors \in Seq(Validator) /\ IsInjective(validationErrors)
      <4>1. ParamValidators \cup {Body} \subseteq Validator
        BY DEF Validator
      <4> QED
        BY <4>1, SeqMonotonic DEF TypeOK, IInv, CollectorInv
    <3>4. Errors(validationErrors) \in Seq(DOMAIN Key) /\ IsInjective(Errors(validationErrors))
      BY <3>3, ErrorsOfBatches
    <3>5. /\ requestErrors \in Seq(DOMAIN Key) /\ IsInjective(requestErrors)
          /\ SortedByKey(requestErrors)
      BY <3>2, <3>4, SortingsOfDistinct
    <3>6. Range(requestErrors)
            = UNION {Range(ErrorsOf[v]) : v \in Failed(ParamValidators \cup {Body})}
      BY <3>2, RequestErrorsExact
    <3>7. Failed(ParamValidators \cup {Body}) = SyncFailed
      <4> SUFFICES ASSUME NEW v \in ParamValidators \cup {Body}
                   PROVE  outcome[v] = syncOutcome[v]
        BY DEF Failed, SyncFailed
      <4>1. outcome[v] # "undecided" /\ v \in Validator
        BY <3>2, RequestErrorsExact DEF Validator
      <4>2. PICK i \in 1..Len(Sync!Called) : Sync!Called[i] = v
        BY CalledOnce DEF Range
      <4>3. syncOutcome[v] # "undecided"
        BY <2>1, <2>2, <3>1, <4>2, CalledOnce DEF SyncInv
      <4> QED
        BY <4>1, <4>3 DEF SameVerdicts
    <3>8. Range(requestErrors) = Range(Errors(syncErrors))
      <4>1. Range(syncErrors) = SyncFailed
        BY <2>2, <3>1 DEF SyncInv
      <4> QED
        BY <2>3, <3>6, <3>7, <4>1
    <3>9. requestErrors \in Sortings(Errors(syncErrors))
      BY <2>3, <3>5, <3>8, SortingsOfDistinct
    <3> QED
      BY <2>5, <3>9
  <2> QED
    BY <2>4, <2>5
<1>2. BothSpec => [](SyncInv /\ SameVerdicts)
  BY BothInitSync, SyncStep, PTL DEF BothSpec
<1> QED
  BY <1>1, <1>2, SecondIsCall, CallTyped, CallJoins, CallAnswers, PTL

(***************************************************************************)
(* The promise of the synchronous call.                                    *)
(***************************************************************************)

LEMMA SyncValidators == SyncAbstract!Validator = Validator
BY DEF SyncAbstract!Validator, Validator

\* A verdict of the synchronous call is an abstract decision.
LEMMA SyncDecides ==
  ASSUME SyncInv, NEW v \in Validator \ {Response},
         syncPc # "returned", syncPc' # "returned",
         NEW o \in {"valid", "invalid"}, syncOutcome' = [syncOutcome EXCEPT ![v] = o],
         syncOutcome[v] = "undecided",
         v # Router => syncOutcome[Router] = "valid"
  PROVE  SyncAbstract!Next
<1>1. SyncAbstract!MayDecide(v)
  BY FanoutAssumption DEF Validator, SyncAbstract!MayDecide, SyncAbstract!Consulted
<1>2. UNCHANGED {w \in Validator : syncPc = "returned" /\ SyncReports(w)}
  OBVIOUS
<1> QED
  BY <1>1, <1>2, SyncValidators DEF SyncAbstract!Next, SyncAbstract!Decide

\* When the synchronous call has called every validator it must, its errors
\* are those of the validators that failed.
LEMMA SyncReplies ==
  ASSUME SyncInv, Sync!Return
  PROVE  SyncAbstract!Next
<1> USE FanoutAssumption
<1> DEFINE B == ParamValidators \cup {Body}
<1>1. /\ syncPc = "rejecting" \/ (syncPc = "validating" /\ syncNext > Len(Sync!Called))
      /\ syncPc' = "returned"
      /\ UNCHANGED <<syncOutcome, syncErrors>>
  BY DEF Sync!Return
<1>2. \A v \in B : \E i \in 1..Len(Sync!Called) : Sync!Called[i] = v
  BY CalledOnce DEF Range
<1>3. /\ Range(syncErrors) = {v \in Validator : syncOutcome[v] = "invalid"}
      /\ \A v \in SyncAbstract!Consulted : syncOutcome[v] # "undecided"
  <2>1. CASE syncPc = "rejecting"
    <3>1. syncOutcome[Router] = "invalid" /\ syncNext = 1 /\ syncErrors = <<Router>>
      BY <2>1 DEF SyncInv
    <3>2. \A v \in B : syncOutcome[v] = "undecided"
      <4>1. \A i \in 1..Len(Sync!Called) : syncOutcome[Sync!Called[i]] = "undecided"
        BY <3>1, CalledOnce DEF SyncInv
      <4> QED
        BY <1>2, <4>1
    <3>3. {v \in Validator : syncOutcome[v] = "invalid"} = {Router}
      BY <3>1, <3>2 DEF Validator, SyncInv
    <3>4. Range(syncErrors) = {Router}
      BY <3>1 DEF Range
    <3> QED
      BY <3>1, <3>3, <3>4 DEF SyncAbstract!Consulted
  <2>2. CASE syncPc = "validating" /\ syncNext > Len(Sync!Called)
    <3>1. syncOutcome[Router] = "valid" /\ Range(syncErrors) = SyncFailed
      BY <2>2 DEF SyncInv
    <3>2. \A v \in B : syncOutcome[v] # "undecided"
      <4>1. \A i \in 1..Len(Sync!Called) : syncOutcome[Sync!Called[i]] # "undecided"
        BY <2>2, CalledOnce DEF SyncInv
      <4> QED
        BY <1>2, <4>1
    <3>3. {v \in Validator : syncOutcome[v] = "invalid"} = SyncFailed
      BY <3>1 DEF SyncFailed, Validator, SyncInv
    <3> QED
      BY <3>1, <3>2, <3>3 DEF SyncAbstract!Consulted
  <2> QED
    BY <1>1, <2>1, <2>2
<1>4. Range(Errors(syncErrors)) = UNION {Range(ErrorsOf[v]) : v \in Range(syncErrors)}
  BY ErrorsOfBatches DEF SyncInv
<1>5. {v \in Validator : SyncReports(v)} = {v \in Validator : syncOutcome[v] = "invalid"}
  <2> DEFINE F == {v \in Validator : syncOutcome[v] = "invalid"}
  <2>1. F \in SUBSET Validator
    OBVIOUS
  <2>2. Range(Errors(syncErrors)) = UNION {Range(ErrorsOf[v]) : v \in F}
    BY <1>3, <1>4
  <2> HIDE DEF F
  <2>3. {v \in Validator : Range(ErrorsOf[v]) \subseteq Range(Errors(syncErrors))} = F
    BY <2>1, <2>2, ReportsExactly
  <2> QED
    BY <2>3 DEF F, SyncReports
<1>6. {v \in Validator : SyncReports(v)'} = SyncAbstract!Failing
  BY <1>1, <1>5, SyncValidators DEF SyncReports, SyncAbstract!Failing
<1> QED
  BY <1>1, <1>3, <1>6 DEF SyncAbstract!Next, SyncAbstract!Reply

\* Every step of the two calls is a step of the first one's promise or a stutter.
LEMMA SyncStepRefines ==
  ASSUME SyncInv, [BothNext]_<<vars, syncVars>>
  PROVE  [SyncAbstract!Next]_SyncAbstract!vars
<1> USE FanoutAssumption
<1>1. CASE SyncCall
  <2>1. CASE Sync!FindPath
    <3>1. syncPc = "findPath" /\ syncOutcome[Router] = "undecided" /\ syncPc' # "returned"
          /\ Router \in Validator \ {Response}
      BY <2>1 DEF Sync!FindPath, SyncInv, Validator
    <3> QED
      BY <2>1, <3>1, SyncDecides DEF Sync!FindPath
  <2>2. CASE Sync!CallNext
    <3>1. /\ syncPc = "validating" /\ syncPc' = syncPc /\ syncOutcome[Router] = "valid"
          /\ syncNext \in 1..Len(Sync!Called)
      BY <2>2, CalledOnce DEF Sync!CallNext, SyncInv
    <3>2. /\ Sync!Called[syncNext] \in Validator \ {Response}
          /\ syncOutcome[Sync!Called[syncNext]] = "undecided"
      BY <3>1, CalledOnce DEF SyncInv, Validator
    <3> QED
      BY <2>2, <3>1, <3>2, SyncDecides DEF Sync!CallNext
  <2>3. CASE Sync!Return
    BY <2>3, SyncReplies
  <2> QED
    BY <1>1, <2>1, <2>2, <2>3 DEF SyncCall, Sync!Next
<1>2. CASE UNCHANGED syncVars
  <2>1. UNCHANGED <<syncOutcome, syncPc, syncErrors>>
    BY <1>2 DEF syncVars
  <2> QED
    BY <2>1 DEF SyncAbstract!vars, SyncReports, Errors
<1> QED
  BY <1>1, <1>2 DEF BothNext, AsyncStep

LEMMA SyncInitRefines == BothInit => SyncAbstract!Init
BY CalledOnce, SyncValidators DEF BothInit, Sync!Init, SyncAbstract!Init, SyncAbstract!Entry

\* The synchronous call keeps the same promise, for any number and any order of
\* the parameter validators.
THEOREM SyncRefines == BothSpec => SyncRefinesRequestValidation
<1>1. BothSpec => []SyncInv
  BY BothInitSync, SyncStep, PTL DEF BothSpec
<1> QED
  BY <1>1, SyncInitRefines, SyncStepRefines, PTL
     DEF BothSpec, SyncRefinesRequestValidation, SyncAbstract!Spec
================================================================================
