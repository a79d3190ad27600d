----------------------------- MODULE RequestFanout -----------------------------
(***************************************************************************)
(* ValidateHttpRequest and ValidateHttpRequestResponse (validator.go): one *)
(* call of the asynchronous entry points as the goroutines it starts and   *)
(* the unbuffered channels between them.                                   *)
(*                                                                         *)
(*   Main       the caller's goroutine                                     *)
(*   Collector  runValidation: joins Params and Body                       *)
(*   Params     parameterValidationFunc: joins the parameter validators    *)
(*   Listener   paramListener: collects for Params                         *)
(*   Body       requestBodyValidationFunc                                  *)
(*   w \in ParamValidators   one validateParamFunction each                *)
(*                                                                         *)
(* A channel is unbuffered, so a send and its receive are one step of two  *)
(* goroutines.  A batch of errors is named by the validator that found it; *)
(* ErrorsOf gives the errors of the batch and Key their sort key.          *)
(***************************************************************************)
EXTENDS Naturals, SequencesExt

CONSTANTS ParamValidators,   \* path, cookie, header, query and security
          Main, Collector, Params, Listener, Body, Router, Response,
          ErrorsOf,          \* the errors a validator reports when it fails
          Key                \* (ValidationType, Message), as a number

Async == {Params, Body}
Goroutine == {Main, Collector, Params, Listener, Body} \cup ParamValidators
Validator == ParamValidators \cup {Body, Router, Response}

ASSUME FanoutAssumption ==
  /\ IsFiniteSet(ParamValidators)
  /\ ParamValidators # {}
  /\ {Main, Collector, Params, Listener, Body, Router, Response}
       \cap ParamValidators = {}
  /\ Main \notin {Collector, Params, Listener, Body}
  /\ Collector \notin {Params, Listener, Body}
  /\ Params \notin {Listener, Body}
  /\ Listener # Body
  /\ Body \notin {Router, Response}
  /\ Router # Response

\* A validator that fails says why, and every error it reports is an object of
\* its own; an unmatched request has one error.
ASSUME ErrorsAssumption ==
  /\ ErrorsOf \in [Validator -> Seq(DOMAIN Key)]
  /\ \A v \in Validator : ErrorsOf[v] # <<>> /\ IsInjective(ErrorsOf[v])
  /\ \A v, w \in Validator : v # w => Range(ErrorsOf[v]) \cap Range(ErrorsOf[w]) = {}
  /\ Len(ErrorsOf[Router]) = 1

VARIABLES pc,                \* where each goroutine is
          entry,             \* ValidateHttpRequest or ValidateHttpRequestResponse
          outcome,           \* verdict of each validator function
          paramErrors,       \* paramValidationErrors: batches, in arrival order
          completedParams,   \* completedValidations of the listener
          validationErrors,  \* validationErrors: batches, in arrival order
          completedAsync,    \* completedValidations of the collector
          requestErrors,     \* validationErrors after sortValidationErrors
          result             \* what the caller gets

vars == <<pc, entry, outcome, paramErrors, completedParams, validationErrors,
          completedAsync, requestErrors, result>>

counters == <<completedParams, completedAsync>>
errorLists == <<paramErrors, validationErrors, requestErrors>>

Label == {"unborn", "validating", "sendErrors", "sendControl", "exited",
          "spawning", "waiting", "selecting", "sendDone", "findPath",
          "reject", "spawnCollector", "spawnParams", "spawnBody",
          "validateResponse", "combine", "returned"}

\* The caller is past <-doneChan.
Joined == {"validateResponse", "combine", "returned"}
Entry == {"request", "requestResponse"}
Outcome == {"undecided", "valid", "invalid"}
NoResult == [returned |-> FALSE, valid |-> FALSE, errors |-> <<>>]

Failed(vs) == {v \in vs : outcome[v] = "invalid"}

Goto(g, label) == pc' = [pc EXCEPT ![g] = label]
Meet(g, gLabel, h, hLabel) == pc' = [pc EXCEPT ![g] = gLabel, ![h] = hLabel]

Init ==
  /\ pc = [g \in Goroutine |-> IF g = Main THEN "findPath" ELSE "unborn"]
  /\ entry \in Entry
  /\ outcome = [v \in Validator |-> "undecided"]
  /\ paramErrors = <<>>
  /\ completedParams = 0
  /\ validationErrors = <<>>
  /\ completedAsync = 0
  /\ requestErrors = <<>>
  /\ result = NoResult

--------------------------------------------------------------------------------
(* The caller.                                                             *)

\* paths.FindPath; an unmatched request is answered without a goroutine.
FindPath ==
  /\ pc[Main] = "findPath"
  /\ \/ /\ outcome' = [outcome EXCEPT ![Router] = "valid"]
        /\ Goto(Main, "spawnCollector")
     \/ /\ outcome' = [outcome EXCEPT ![Router] = "invalid"]
        /\ Goto(Main, "reject")
  /\ UNCHANGED <<entry, errorLists, counters, result>>

Reject ==
  /\ pc[Main] = "reject"
  /\ Goto(Main, "returned")
  /\ result' = [returned |-> TRUE, valid |-> FALSE, errors |-> ErrorsOf[Router]]
  /\ UNCHANGED <<entry, outcome, errorLists, counters>>

\* go runValidation(...)
SpawnCollector ==
  /\ pc[Main] = "spawnCollector"
  /\ Meet(Main, "spawnParams", Collector, "selecting")
  /\ UNCHANGED <<entry, outcome, errorLists, counters, result>>

\* go asyncFunctions[i](...), first the parameters, then the body
SpawnParams ==
  /\ pc[Main] = "spawnParams"
  /\ Meet(Main, "spawnBody", Params, "spawning")
  /\ UNCHANGED <<entry, outcome, errorLists, counters, result>>

SpawnBody ==
  /\ pc[Main] = "spawnBody"
  /\ Meet(Main, "waiting", Body, "validating")
  /\ UNCHANGED <<entry, outcome, errorLists, counters, result>>

--------------------------------------------------------------------------------
(* The validators and the two joins.                                       *)

\* parameterValidationFunc starts the listener and one goroutine per validator.
SpawnParamValidators ==
  /\ pc[Params] = "spawning"
  /\ pc' = [g \in Goroutine |->
              CASE g = Params -> "waiting"
                [] g = Listener -> "selecting"
                [] g \in ParamValidators -> "validating"
                [] OTHER -> pc[g]]
  /\ UNCHANGED <<entry, outcome, errorLists, counters, result>>

\* Mutant: a validator that failed sends no errors.
ValidateKeepsErrors(v) ==
  /\ v \in ParamValidators \cup {Body}
  /\ pc[v] = "validating"
  /\ \E o \in {"valid", "invalid"} : outcome' = [outcome EXCEPT ![v] = o]
  /\ Goto(v, "sendControl")
  /\ UNCHANGED <<entry, errorLists, counters, result>>

\* Mutant: a validator that succeeded returns without its control message.
ValidateSkipsControl(v) ==
  /\ v \in ParamValidators \cup {Body}
  /\ pc[v] = "validating"
  /\ \/ /\ outcome' = [outcome EXCEPT ![v] = "invalid"]
        /\ Goto(v, "sendErrors")
     \/ /\ outcome' = [outcome EXCEPT ![v] = "valid"]
        /\ Goto(v, "exited")
  /\ UNCHANGED <<entry, errorLists, counters, result>>

\* A validator function returns; it has errors to send only if it failed.
Validate(v) ==
  /\ v \in ParamValidators \cup {Body}
  /\ pc[v] = "validating"
  /\ \/ /\ outcome' = [outcome EXCEPT ![v] = "invalid"]
        /\ Goto(v, "sendErrors")
     \/ /\ outcome' = [outcome EXCEPT ![v] = "valid"]
        /\ Goto(v, "sendControl")
  /\ UNCHANGED <<entry, errorLists, counters, result>>

\* paramListener: case vErrs := <-errorChan
ListenerTakesErrors(w) ==
  /\ pc[w] = "sendErrors"
  /\ pc[Listener] = "selecting"
  /\ paramErrors' = Append(paramErrors, w)
  /\ Goto(w, "sendControl")
  /\ UNCHANGED <<entry, outcome, validationErrors, requestErrors, counters, result>>

\* Mutant: the listener stops one validator early.
ListenerCountsShort(w) ==
  /\ pc[w] = "sendControl"
  /\ pc[Listener] = "selecting"
  /\ completedParams' = completedParams + 1
  /\ IF completedParams' = Cardinality(ParamValidators) - 1
       THEN Meet(w, "exited", Listener, "sendControl")
       ELSE Goto(w, "exited")
  /\ UNCHANGED <<entry, outcome, errorLists, completedAsync, result>>

\* paramListener: case <-control
ListenerTakesControl(w) ==
  /\ pc[w] = "sendControl"
  /\ pc[Listener] = "selecting"
  /\ completedParams' = completedParams + 1
  /\ IF completedParams' = Cardinality(ParamValidators)
       THEN Meet(w, "exited", Listener, "sendControl")
       ELSE Goto(w, "exited")
  /\ UNCHANGED <<entry, outcome, errorLists, completedAsync, result>>

\* Mutant: Params reads the errors without waiting for the listener.
ParamsReadsAtOnce ==
  /\ pc[Params] = "waiting"
  /\ Goto(Params, IF Len(paramErrors) > 0 THEN "sendErrors" ELSE "sendControl")
  /\ UNCHANGED <<entry, outcome, errorLists, counters, result>>

\* <-paramFunctionControlChan: the listener returns, Params reads what it left.
ListenerJoinsParams ==
  /\ pc[Listener] = "sendControl"
  /\ pc[Params] = "waiting"
  /\ Meet(Listener, "exited",
          Params, IF Len(paramErrors) > 0 THEN "sendErrors" ELSE "sendControl")
  /\ UNCHANGED <<entry, outcome, errorLists, counters, result>>

\* Mutant: the parameter errors are replaced by one error of Params itself.
BatchesOfCaller(a) == <<a>>

\* What an asynchronous function puts on the error channel.
BatchesOf(a) == IF a = Params THEN paramErrors ELSE <<a>>

\* runValidation: case vErrs := <-errorChan
CollectorTakesErrors(a) ==
  /\ pc[a] = "sendErrors"
  /\ pc[Collector] = "selecting"
  /\ validationErrors' = validationErrors \o BatchesOf(a)
  /\ Goto(a, "sendControl")
  /\ UNCHANGED <<entry, outcome, paramErrors, requestErrors, counters, result>>

\* Mutant: the collector is done when the first function is.
CollectorCountsShort(a) ==
  /\ pc[a] = "sendControl"
  /\ pc[Collector] = "selecting"
  /\ completedAsync' = completedAsync + 1
  /\ IF completedAsync' = Cardinality(Async) - 1
       THEN Meet(a, "exited", Collector, "sendDone")
       ELSE Goto(a, "exited")
  /\ UNCHANGED <<entry, outcome, errorLists, completedParams, result>>

\* runValidation: case <-control
CollectorTakesControl(a) ==
  /\ pc[a] = "sendControl"
  /\ pc[Collector] = "selecting"
  /\ completedAsync' = completedAsync + 1
  /\ IF completedAsync' = Cardinality(Async)
       THEN Meet(a, "exited", Collector, "sendDone")
       ELSE Goto(a, "exited")
  /\ UNCHANGED <<entry, outcome, errorLists, completedParams, result>>

--------------------------------------------------------------------------------
(* The answer.                                                             *)

Errors(batches) == FlattenSeq([i \in DOMAIN batches |-> ErrorsOf[batches[i]]])

SortedByKey(s) == \A i, j \in DOMAIN s : i < j => Key[s[i]] <= Key[s[j]]

\* sort.Slice is not stable: any arrangement ordered by key.
Sortings(s) ==
  {t \in {[i \in DOMAIN s |-> s[p[i]]] : p \in SetToSeqs(DOMAIN s)} : SortedByKey(t)}

\* Mutant: the errors are returned in arrival order.
JoinsUnsorted ==
  /\ pc[Collector] = "sendDone"
  /\ pc[Main] = "waiting"
  /\ requestErrors' = Errors(validationErrors)
  /\ IF entry = "request"
       THEN /\ Meet(Collector, "exited", Main, "returned")
            /\ result' = [returned |-> TRUE,
                          valid |-> Len(requestErrors') = 0,
                          errors |-> requestErrors']
       ELSE /\ Meet(Collector, "exited", Main, "validateResponse")
            /\ UNCHANGED result
  /\ UNCHANGED <<entry, outcome, paramErrors, validationErrors, counters>>

\* <-doneChan, sortValidationErrors, and the return of the request's errors.
CollectorJoinsMain ==
  /\ pc[Collector] = "sendDone"
  /\ pc[Main] = "waiting"
  /\ \E sorted \in Sortings(Errors(validationErrors)) :
       /\ requestErrors' = sorted
       /\ IF entry = "request"
            THEN /\ Meet(Collector, "exited", Main, "returned")
                 /\ result' = [returned |-> TRUE,
                               valid |-> Len(sorted) = 0,
                               errors |-> sorted]
            ELSE /\ Meet(Collector, "exited", Main, "validateResponse")
                 /\ UNCHANGED result
  /\ UNCHANGED <<entry, outcome, paramErrors, validationErrors, counters>>

\* ValidateHttpRequestResponse validates the response after the request and
\* appends its errors to the sorted ones.
ValidateResponse ==
  /\ pc[Main] = "validateResponse"
  /\ \E o \in {"valid", "invalid"} : outcome' = [outcome EXCEPT ![Response] = o]
  /\ Goto(Main, "combine")
  /\ UNCHANGED <<entry, errorLists, counters, result>>

\* Mutant: the response's errors replace the request's.
CombineOverwrites ==
  /\ pc[Main] = "combine"
  /\ LET responseErrors == IF outcome[Response] = "invalid" THEN ErrorsOf[Response] ELSE <<>>
     IN  result' = [returned |-> TRUE,
                    valid |-> Len(requestErrors) = 0 /\ Len(responseErrors) = 0,
                    errors |-> responseErrors]
  /\ Goto(Main, "returned")
  /\ UNCHANGED <<entry, outcome, errorLists, counters>>

Combine ==
  /\ pc[Main] = "combine"
  /\ LET responseErrors == IF outcome[Response] = "invalid" THEN ErrorsOf[Response] ELSE <<>>
     IN  result' = [returned |-> TRUE,
                    valid |-> Len(requestErrors) = 0 /\ Len(responseErrors) = 0,
                    errors |-> requestErrors \o responseErrors]
  /\ Goto(Main, "returned")
  /\ UNCHANGED <<entry, outcome, errorLists, counters>>

\* The call is over once nothing it started is left.
Finished ==
  /\ pc[Main] = "returned"
  /\ \A g \in Goroutine \ {Main} : pc[g] \in {"unborn", "exited"}
  /\ UNCHANGED vars

Step(g) ==
  \/ g = Main /\ (\/ FindPath \/ Reject \/ SpawnCollector \/ SpawnParams
                  \/ SpawnBody \/ ValidateResponse \/ Combine)
  \/ g = Params /\ SpawnParamValidators
  \/ g \in ParamValidators \cup {Body} /\ Validate(g)
  \/ g \in ParamValidators /\ (ListenerTakesErrors(g) \/ ListenerTakesControl(g))
  \/ g = Listener /\ ListenerJoinsParams
  \/ g \in Async /\ (CollectorTakesErrors(g) \/ CollectorTakesControl(g))
  \/ g = Collector /\ CollectorJoinsMain

Next == (\E g \in Goroutine : Step(g)) \/ Finished

\* The Go scheduler runs every runnable goroutine, and a validator returns.
Fairness == \A g \in Goroutine : WF_vars(Step(g))

Spec == Init /\ [][Next]_vars /\ Fairness

--------------------------------------------------------------------------------
(* Properties.                                                             *)

TypeOK ==
  /\ pc \in [Goroutine -> Label]
  /\ entry \in Entry
  /\ outcome \in [Validator -> Outcome]
  /\ paramErrors \in Seq(ParamValidators)
  /\ completedParams \in Nat
  /\ validationErrors \in Seq(ParamValidators \cup {Body})
  /\ completedAsync \in Nat
  /\ result.returned \in BOOLEAN
  /\ result.valid \in BOOLEAN

\* No error lost, none reported twice: whatever the schedule, the join of the
\* request holds every failed validator's batch exactly once when the caller
\* proceeds past <-doneChan.
JoinExact ==
  pc[Main] \in Joined /\ outcome[Router] = "valid"
    => /\ IsInjective(validationErrors)
       /\ Range(validationErrors) = Failed(ParamValidators \cup {Body})

\* No goroutine outlives the call: when the caller has its answer, every
\* goroutine has performed its last channel operation.
NoGoroutineLeft ==
  pc[Main] \in Joined
    => \A g \in Goroutine \ {Main} : pc[g] \in {"unborn", "exited"}

\* The slices are handed over, not shared: once Params was released the
\* listener writes nothing any more, and once the caller was released the
\* collector writes nothing any more (both are read without a lock).
NoWriteAfterHandover ==
  [][/\ pc[Params] \in {"sendErrors", "sendControl", "exited"}
          => UNCHANGED paramErrors
     /\ pc[Main] \in Joined
          => UNCHANGED validationErrors]_vars

\* The inductive invariant behind JoinExact, one part per join.
Decided(v) == pc[v] \notin {"unborn", "validating"}
Delivered(v) == pc[v] \in {"sendControl", "exited"}
Exited(S) == {g \in S : pc[g] = "exited"}

\* A validator's place follows from its verdict.
ValidatorInv ==
  \A v \in ParamValidators \cup {Body} :
    /\ pc[v] \in {"unborn", "validating", "sendErrors", "sendControl", "exited"}
    /\ ~Decided(v) <=> outcome[v] = "undecided"
    /\ pc[v] = "sendErrors" => outcome[v] = "invalid"

\* The listener counts the validators that sent their control message, holds
\* the batches of those that delivered, and hands over when all have exited.
ListenerInv ==
  /\ pc[Listener] \in {"unborn", "selecting", "sendControl", "exited"}
  /\ completedParams = Cardinality(Exited(ParamValidators))
  /\ IsInjective(paramErrors)
  /\ Range(paramErrors) = {w \in Failed(ParamValidators) : Delivered(w)}
  /\ pc[Listener] = "unborn" <=> pc[Params] \in {"unborn", "spawning"}
  /\ pc[Listener] = "exited" <=> pc[Params] \in {"sendErrors", "sendControl", "exited"}
  /\ pc[Listener] = "unborn" => \A w \in ParamValidators : pc[w] = "unborn"
  /\ pc[Listener] # "unborn" => \A w \in ParamValidators : pc[w] # "unborn"
  /\ pc[Listener] \in {"sendControl", "exited"}
       => Exited(ParamValidators) = ParamValidators

\* The collector likewise, for the two asynchronous functions.
CollectorInv ==
  /\ pc[Params] \in {"unborn", "spawning", "waiting", "sendErrors", "sendControl", "exited"}
  /\ pc[Collector] \in {"unborn", "selecting", "sendDone", "exited"}
  /\ completedAsync = Cardinality(Exited(Async))
  /\ IsInjective(validationErrors)
  /\ Range(validationErrors)
       = (IF Delivered(Params) THEN Range(paramErrors) ELSE {})
           \cup {v \in Failed({Body}) : Delivered(v)}
  /\ pc[Collector] \in {"sendDone", "exited"} => Exited(Async) = Async

\* What the caller has started, and what is over when it proceeds.
CallerInv ==
  /\ pc[Main] \in {"findPath", "reject", "spawnCollector", "spawnParams",
                   "spawnBody", "waiting"} \cup Joined
  /\ outcome[Router] = "valid" <=>
       pc[Main] \in {"spawnCollector", "spawnParams", "spawnBody", "waiting",
                    "validateResponse", "combine"}
         \/ (pc[Main] = "returned" /\ pc[Collector] = "exited")
  /\ pc[Main] \in {"findPath", "reject", "spawnCollector"}
       => \A g \in {Collector, Params, Body} : pc[g] = "unborn"
  /\ pc[Main] = "spawnParams" => \A g \in Async : pc[g] = "unborn"
  /\ pc[Main] = "spawnBody" => pc[Body] = "unborn"
  /\ pc[Main] \in {"validateResponse", "combine"} => pc[Collector] = "exited"
  /\ pc[Main] = "returned" =>
       \/ pc[Collector] = "exited"
       \/ \A g \in {Collector, Params, Body} : pc[g] = "unborn"
  /\ pc[Collector] = "exited" => pc[Main] \in Joined

IInv == ValidatorInv /\ ListenerInv /\ CollectorInv /\ CallerInv

\* What the caller knows while it makes up its answer, and what the answer is.
ResponseErrors == IF outcome[Response] = "invalid" THEN ErrorsOf[Response] ELSE <<>>

AnswerInv ==
  /\ result.returned <=> pc[Main] = "returned"
  /\ outcome[Router] = "undecided" <=> pc[Main] = "findPath"
  /\ outcome[Response] # "undecided" <=>
       \/ pc[Main] = "combine"
       \/ pc[Main] = "returned" /\ entry = "requestResponse" /\ outcome[Router] = "valid"
  /\ pc[Main] \in {"validateResponse", "combine"} => entry = "requestResponse"
  /\ pc[Main] \in Joined /\ outcome[Router] = "valid"
       => requestErrors \in Sortings(Errors(validationErrors))
  /\ pc[Main] = "returned" =>
       result.errors = IF outcome[Router] = "invalid" THEN ErrorsOf[Router]
                       ELSE requestErrors \o ResponseErrors

\* Every call returns: no schedule of the goroutines blocks forever.
Terminates == <>(pc[Main] = "returned")

--------------------------------------------------------------------------------
(* The promise the call implements.                                        *)

\* The answer carries the errors of v.
Reports(v) == Range(ErrorsOf[v]) \subseteq Range(result.errors)

Abstract ==
  INSTANCE RequestValidation
    WITH RequestValidators <- ParamValidators \cup {Body},
         replied <- result.returned,
         answer <- {v \in Validator : result.returned /\ Reports(v)}

RefinesRequestValidation == Abstract!Spec
================================================================================
