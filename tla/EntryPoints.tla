------------------------------- MODULE EntryPoints ------------------------------
(***************************************************************************)
(* One request validated by ValidateHttpRequestSync and then by            *)
(* ValidateHttpRequest or ValidateHttpRequestResponse (validator.go): the  *)
(* calls of RequestSequential and RequestFanout by the same validators.    *)
(* The validators and the router give the same request the same verdict;   *)
(* what the two calls share is that verdict and nothing else.              *)
(***************************************************************************)
EXTENDS RequestFanout

CONSTANT Order   \* the parameter validators, in calling order

VARIABLES syncPc, syncNext, syncOutcome, syncErrors

Sync ==
  INSTANCE RequestSequential
    WITH pc <- syncPc, next <- syncNext, outcome <- syncOutcome, errors <- syncErrors

syncVars == <<syncPc, syncNext, syncOutcome, syncErrors>>

ASSUME EntryPointsAssumption ==
  /\ Order \in Seq(ParamValidators)
  /\ IsInjective(Order)
  /\ Range(Order) = ParamValidators

BothInit == Init /\ Sync!Init

SyncCall == Sync!Next /\ UNCHANGED vars

SameVerdicts ==
  \A v \in Validator :
    outcome[v] = "undecided" \/ syncOutcome[v] = "undecided" \/ outcome[v] = syncOutcome[v]

\* A step of the second call, once the first has returned.
AsyncStep(g) ==
  /\ syncPc = "returned"
  /\ Step(g)
  /\ UNCHANGED syncVars
  /\ SameVerdicts'

BothNext ==
  \/ SyncCall
  \/ \E g \in Goroutine : AsyncStep(g)
  \/ syncPc = "returned" /\ Finished /\ UNCHANGED syncVars

\* The caller goes on, and the scheduler runs every runnable goroutine.
BothSpec ==
  /\ BothInit /\ [][BothNext]_<<vars, syncVars>>
  /\ WF_<<vars, syncVars>>(SyncCall)
  /\ \A g \in Goroutine : WF_<<vars, syncVars>>(AsyncStep(g))

\* The two entry points agree: for one request they return the same errors,
\* the synchronous one in the order of its calls, the asynchronous one sorted,
\* although one validator's failure stops neither (validator.go runs the others
\* in both), and whatever the goroutines do.
EntriesAgree ==
  result.returned =>
    LET ofRequest == IF outcome[Router] = "invalid" THEN result.errors ELSE requestErrors
    IN  ofRequest \in Sortings(Errors(syncErrors))

\* The inductive invariant behind it: the synchronous call's place follows from
\* the verdicts it has, its errors are those of the validators that failed, and
\* the second call has not begun before the first returned.
SyncFailed == {v \in ParamValidators \cup {Body} : syncOutcome[v] = "invalid"}

SyncInv ==
  /\ syncPc \in {"findPath", "rejecting", "validating", "returned"}
  /\ syncNext \in 1..(Len(Sync!Called) + 1)
  /\ syncOutcome \in [Validator -> Outcome]
  /\ syncErrors \in Seq(Validator) /\ IsInjective(syncErrors)
  /\ syncOutcome[Router] = "undecided" <=> syncPc = "findPath"
  /\ syncOutcome[Router] = "invalid" => syncNext = 1
  /\ syncOutcome[Response] = "undecided"
  /\ syncPc = "findPath" => syncNext = 1
  /\ syncPc = "rejecting" => syncOutcome[Router] = "invalid"
  /\ syncPc = "validating" => syncOutcome[Router] = "valid"
  /\ IF syncOutcome[Router] = "invalid" THEN syncErrors = <<Router>>
                                        ELSE Range(syncErrors) = SyncFailed
  /\ \A i \in 1..Len(Sync!Called) : i >= syncNext <=> syncOutcome[Sync!Called[i]] = "undecided"
  /\ syncPc = "returned" /\ syncOutcome[Router] = "valid" => syncNext = Len(Sync!Called) + 1
  /\ syncPc # "returned" =>
       pc[Main] = "findPath" /\ \A v \in Validator : outcome[v] = "undecided"

--------------------------------------------------------------------------------
(* The promise of the synchronous call: that of a call without a response.  *)

SyncReports(v) == Range(ErrorsOf[v]) \subseteq Range(Errors(syncErrors))

SyncAbstract ==
  INSTANCE RequestValidation
    WITH RequestValidators <- ParamValidators \cup {Body},
         entry <- "request",
         outcome <- syncOutcome,
         replied <- syncPc = "returned",
         answer <- {v \in Validator : syncPc = "returned" /\ SyncReports(v)}

\* The synchronous call keeps the promise the asynchronous one keeps: no
\* validator runs on a request that was not routed, each runs once whatever the
\* others said, and the answer reports exactly those that failed.
SyncRefinesRequestValidation == SyncAbstract!Spec
================================================================================
