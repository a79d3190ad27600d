--------------------------- MODULE RequestValidation ---------------------------
(***************************************************************************)
(* What a call of the high-level validator promises, whichever way it is   *)
(* scheduled: the request is routed, every request validator then gives    *)
(* its verdict once, the response validator gives its own when the call    *)
(* asks for it, and the answer names exactly the validators that failed.   *)
(* RequestFanout implements this specification, and so does the            *)
(* synchronous call of RequestSequential where EntryPoints makes it.       *)
(***************************************************************************)
CONSTANTS RequestValidators,  \* parameter, security and body validators
          Router,             \* paths.FindPath
          Response            \* the response body validator, none of the others

VARIABLES entry,    \* which entry point was called
          outcome,  \* verdict of every validator, once it has one
          replied,  \* whether the call has returned
          answer    \* the set of validators whose errors were returned

vars == <<entry, outcome, replied, answer>>

Entry == {"request", "requestResponse"}
Outcome == {"undecided", "valid", "invalid"}
Validator == RequestValidators \cup {Router, Response}

\* The validators a call consults: nothing past a failed routing, and the
\* response validator only when a response was passed in.
Consulted ==
  IF outcome[Router] = "invalid"
    THEN {Router}
    ELSE {Router} \cup RequestValidators
                  \cup (IF entry = "requestResponse" THEN {Response} ELSE {})

Failing == {v \in Validator : outcome[v] = "invalid"}

Init == /\ entry \in Entry
        /\ outcome = [v \in Validator |-> "undecided"]
        /\ replied = FALSE
        /\ answer = {}

\* A validator decides only after routing succeeded, the response validator
\* only after all of the request has been validated.
MayDecide(v) ==
  /\ v \in Consulted
  /\ outcome[v] = "undecided"
  /\ v # Router => outcome[Router] = "valid"
  /\ v = Response => \A w \in RequestValidators : outcome[w] # "undecided"

Decide(v) ==
  /\ ~replied
  /\ MayDecide(v)
  /\ \E o \in {"valid", "invalid"} : outcome' = [outcome EXCEPT ![v] = o]
  /\ UNCHANGED <<entry, replied, answer>>

Reply ==
  /\ ~replied
  /\ \A v \in Consulted : outcome[v] # "undecided"
  /\ replied' = TRUE
  /\ answer' = Failing
  /\ UNCHANGED <<entry, outcome>>

Next == (\E v \in Validator : Decide(v)) \/ Reply

Spec == Init /\ [][Next]_vars
================================================================================
