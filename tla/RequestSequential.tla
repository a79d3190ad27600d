--------------------------- MODULE RequestSequential ---------------------------
(***************************************************************************)
(* ValidateHttpRequestSync (validator.go): the same validators called one  *)
(* after the other by the caller itself.  EntryPoints sets it beside the   *)
(* goroutines of RequestFanout.                                            *)
(***************************************************************************)
EXTENDS Naturals, SequencesExt

CONSTANTS Order,             \* the parameter validators, in calling order
          Body, Router, Response

Called == Append(Order, Body)
Validator == Range(Called) \cup {Router, Response}

VARIABLES pc,       \* "findPath", "validating", "returned"
          next,     \* index of the validator to call next
          outcome,  \* verdict of each validator called so far
          errors    \* paramValidationErrors: batches, in calling order

vars == <<pc, next, outcome, errors>>

Init == /\ pc = "findPath"
        /\ next = 1
        /\ outcome = [v \in Validator |-> "undecided"]
        /\ errors = <<>>

\* paths.FindPath; its errors are returned at once.
FindPath ==
  /\ pc = "findPath"
  /\ \E o \in {"valid", "invalid"} :
       /\ outcome' = [outcome EXCEPT ![Router] = o]
       /\ errors' = IF o = "invalid" THEN <<Router>> ELSE <<>>
       /\ pc' = IF o = "invalid" THEN "rejecting" ELSE "validating"
  /\ UNCHANGED next

\* Mutant: the loop stops at the first validator that fails.
CallUntilFailure ==
  /\ pc = "validating"
  /\ next <= Len(Called)
  /\ \E o \in {"valid", "invalid"} :
       /\ outcome' = [outcome EXCEPT ![Called[next]] = o]
       /\ errors' = IF o = "invalid" THEN Append(errors, Called[next]) ELSE errors
       /\ next' = IF o = "invalid" THEN Len(Called) + 1 ELSE next + 1
  /\ UNCHANGED pc

\* One iteration of the loop, and after it the body validator: a failed
\* validator's errors are appended, and the next one is called regardless.
CallNext ==
  /\ pc = "validating"
  /\ next <= Len(Called)
  /\ \E o \in {"valid", "invalid"} :
       /\ outcome' = [outcome EXCEPT ![Called[next]] = o]
       /\ errors' = IF o = "invalid" THEN Append(errors, Called[next]) ELSE errors
  /\ next' = next + 1
  /\ UNCHANGED pc

Return ==
  /\ \/ pc = "rejecting"
     \/ pc = "validating" /\ next > Len(Called)
  /\ pc' = "returned"
  /\ UNCHANGED <<next, outcome, errors>>

Next == FindPath \/ CallNext \/ Return

Spec == Init /\ [][Next]_vars

================================================================================
