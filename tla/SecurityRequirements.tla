-------------------------- MODULE SecurityRequirements --------------------------
(***************************************************************************)
(* ValidateSecurityWithPathItem (parameters/validate_security.go): the     *)
(* requirements in effect are alternatives, the schemes of one requirement *)
(* are needed together.  They are tried in order, one scheme per step;     *)
(* an AuthenticationFunc, when set, is called for each of them and may     *)
(* have effects of its own.                                                *)
(***************************************************************************)
EXTENDS Naturals, Sequences

CONSTANTS Names,                \* names of security schemes
          SchemeOf,             \* those the components define -> [type, in, arg]
          OperationSecurities,  \* what operations and documents declare:
          DocumentSecurities,   \*   sequences of [schemes, empty], or None
          Credentials,          \* what a request may carry
          None

Requirements == [schemes : Seq(Names), empty : BOOLEAN]

ASSUME SecurityAssumption ==
  /\ DOMAIN SchemeOf \subseteq Names
  /\ \A list \in OperationSecurities \cup DocumentSecurities :
       list # None => list \in Seq(Requirements)

VARIABLES options,    \* [SecurityValidation, AuthenticationFunc]
          security,   \* [operation, document]
          request,    \* the credentials it carries
          at,         \* [requirement, scheme] about to be tried
          failed,     \* schemes of the current requirement that failed
          errors,     \* per requirement given up, the schemes that failed
          called,     \* schemes AuthenticationFunc was called for, in order
          verdict     \* "open", "valid", "invalid"

vars == <<options, security, request, at, failed, errors, called, verdict>>

\* Mutant: an empty list of the operation's does not override the document's.
EffectiveIfAny ==
  IF security.operation # None /\ security.operation # <<>>
    THEN security.operation
    ELSE IF security.document = None THEN <<>> ELSE security.document

\* EffectiveSecurityForOperation: the operation's own list, even an empty one.
Effective ==
  IF security.operation # None THEN security.operation
  ELSE IF security.document = None THEN <<>> ELSE security.document

Current == Effective[at.requirement]
Scheme == Current.schemes[at.scheme]

\* What validateHTTPSecurityScheme and validateAPIKeySecurityScheme look for.  Any
\* other type, and a key in any other place, is taken to be satisfied.
IsLookedFor(scheme) ==
  \/ scheme.type = "http"
  \/ scheme.type = "apiKey" /\ scheme.in \in {"header", "query", "cookie"}

\* The credentials a function of the user's accepts are named after the scheme.
Carries(name) ==
  IF options.AuthenticationFunc THEN name \in request
  ELSE IsLookedFor(SchemeOf[name]) => SchemeOf[name].arg \in request

Decide(v) ==
  /\ verdict' = v
  /\ UNCHANGED <<options, security, request, at, failed, errors, called>>

\* The option is off, nothing is required, or no requirement is left.
Skip == at.requirement = 1 /\ ~options.SecurityValidation /\ Decide("valid")
NothingRequired == options.SecurityValidation /\ Effective = <<>> /\ Decide("valid")
Refuse == options.SecurityValidation /\ Effective # <<>> /\ at.requirement > Len(Effective) /\ Decide("invalid")

Trying == options.SecurityValidation /\ at.requirement <= Len(Effective)

\* {} is satisfied by every request.
AcceptEmpty == Trying /\ Current.empty /\ Decide("valid")

\* Mutant: a scheme the components lack is skipped.
SkipUndefined ==
  /\ Trying /\ ~Current.empty
  /\ at.scheme <= Len(Current.schemes)
  /\ LET satisfied == Scheme \notin DOMAIN SchemeOf \/ Carries(Scheme)
     IN  failed' = IF satisfied THEN failed ELSE failed \cup {Scheme}
  /\ called' = IF options.AuthenticationFunc /\ Scheme \in DOMAIN SchemeOf
                 THEN Append(called, Scheme) ELSE called
  /\ at' = [at EXCEPT !.scheme = @ + 1]
  /\ UNCHANGED <<options, security, request, errors, verdict>>

\* Mutant: the function is called for undefined schemes too.
TryUndefined ==
  /\ Trying /\ ~Current.empty
  /\ at.scheme <= Len(Current.schemes)
  /\ LET satisfied == Scheme \in DOMAIN SchemeOf /\ Carries(Scheme)
     IN  failed' = IF satisfied THEN failed ELSE failed \cup {Scheme}
  /\ called' = IF options.AuthenticationFunc THEN Append(called, Scheme) ELSE called
  /\ at' = [at EXCEPT !.scheme = @ + 1]
  /\ UNCHANGED <<options, security, request, errors, verdict>>

\* Mutant: a requirement is given up at its first failure.
TryUntilFailure ==
  /\ Trying /\ ~Current.empty
  /\ at.scheme <= Len(Current.schemes)
  /\ LET satisfied == Scheme \in DOMAIN SchemeOf /\ Carries(Scheme)
     IN  /\ failed' = IF satisfied THEN failed ELSE failed \cup {Scheme}
         /\ at' = [at EXCEPT !.scheme = IF satisfied THEN @ + 1 ELSE Len(Current.schemes) + 1]
  /\ called' = IF options.AuthenticationFunc /\ Scheme \in DOMAIN SchemeOf
                 THEN Append(called, Scheme) ELSE called
  /\ UNCHANGED <<options, security, request, errors, verdict>>

\* Every scheme of a requirement is tried, after a failure too; a scheme the
\* components do not define fails without being tried.
TryScheme ==
  /\ Trying /\ ~Current.empty
  /\ at.scheme <= Len(Current.schemes)
  /\ LET satisfied == Scheme \in DOMAIN SchemeOf /\ Carries(Scheme)
     IN  failed' = IF satisfied THEN failed ELSE failed \cup {Scheme}
  /\ called' = IF options.AuthenticationFunc /\ Scheme \in DOMAIN SchemeOf
                 THEN Append(called, Scheme) ELSE called
  /\ at' = [at EXCEPT !.scheme = @ + 1]
  /\ UNCHANGED <<options, security, request, errors, verdict>>

RequirementTried == Trying /\ ~Current.empty /\ at.scheme > Len(Current.schemes)

Accept == RequirementTried /\ failed = {} /\ Decide("valid")

\* Mutant: the failures of a requirement stay with the next one.
GiveUpKeepingFailures ==
  /\ RequirementTried /\ failed # {}
  /\ errors' = Append(errors, failed)
  /\ at' = [requirement |-> at.requirement + 1, scheme |-> 1]
  /\ UNCHANGED <<options, security, request, failed, called, verdict>>

\* The next alternative starts afresh; the errors add up.
GiveUp ==
  /\ RequirementTried /\ failed # {}
  /\ errors' = Append(errors, failed)
  /\ failed' = {}
  /\ at' = [requirement |-> at.requirement + 1, scheme |-> 1]
  /\ UNCHANGED <<options, security, request, called, verdict>>

Init ==
  /\ options \in [SecurityValidation : BOOLEAN, AuthenticationFunc : BOOLEAN]
  /\ security \in [operation : OperationSecurities, document : DocumentSecurities]
  /\ request \in SUBSET Credentials
  /\ at = [requirement |-> 1, scheme |-> 1]
  /\ failed = {}
  /\ errors = <<>>
  /\ called = <<>>
  /\ verdict = "open"

Next ==
  /\ verdict = "open"
  /\ \/ Skip \/ NothingRequired \/ Refuse \/ AcceptEmpty
     \/ TryScheme \/ Accept \/ GiveUp

Spec == Init /\ [][Next]_vars

--------------------------------------------------------------------------------
(* Properties.                                                             *)

TypeOK ==
  /\ at.requirement \in 1..(Len(Effective) + 1)
  /\ failed \subseteq Names
  /\ \A i \in DOMAIN errors : errors[i] \in SUBSET Names
  /\ \A i \in DOMAIN called : called[i] \in DOMAIN SchemeOf
  /\ verdict \in {"open", "valid", "invalid"}

\* A requirement is satisfied by a request that carries all it names.
Satisfied(requirement) ==
  \/ requirement.empty
  \/ \A i \in DOMAIN requirement.schemes :
       requirement.schemes[i] \in DOMAIN SchemeOf /\ Carries(requirement.schemes[i])

\* "each security requirement in the array is OR'd", "within a requirement, all
\* schemes are AND'd": the requirements that hold are those of the operation,
\* also when it declares none, else those of the document.
InEffect ==
  IF security.operation = None THEN security.document ELSE security.operation

VerdictExact ==
  verdict # "open" =>
    (verdict = "valid" <=>
       \/ ~options.SecurityValidation
       \/ InEffect \in {None, <<>>}
       \/ \E i \in DOMAIN InEffect : Satisfied(InEffect[i]))

\* A refused request is told, for each alternative, all that failed in it.
RefusalExplained ==
  verdict = "invalid" =>
    /\ Len(errors) = Len(InEffect)
    /\ \A i \in DOMAIN errors :
         errors[i] = {n \in Names :
                        /\ \E j \in DOMAIN InEffect[i].schemes : InEffect[i].schemes[j] = n
                        /\ n \notin DOMAIN SchemeOf \/ ~Carries(n)}

\* The first n of a list of sequences, one after the other.
ConcatUpTo(lists, n) ==
  LET concat[m \in 0..Len(lists)] == IF m = 0 THEN <<>> ELSE concat[m - 1] \o lists[m]
  IN  concat[n]

\* The calls for the first n schemes of a requirement, and for all of them.
CallsUpTo(requirement, n) ==
  ConcatUpTo([i \in DOMAIN requirement.schemes |->
                IF requirement.schemes[i] \in DOMAIN SchemeOf
                  THEN <<requirement.schemes[i]>> ELSE <<>>], n)

CallsOf(requirement) ==
  IF requirement.empty THEN <<>> ELSE CallsUpTo(requirement, Len(requirement.schemes))

\* The user's function runs for no alternative behind the one that decided,
\* and for each defined scheme of those before it exactly once, in order:
\* its effects (a token consumed, an attempt counted) are those.
CallsExact ==
  verdict # "open" /\ options.AuthenticationFunc /\ options.SecurityValidation
     /\ InEffect # None =>
    LET deciding == {i \in DOMAIN InEffect : Satisfied(InEffect[i])}
        last == IF deciding = {} THEN Len(InEffect)
                ELSE CHOOSE i \in deciding : \A j \in deciding : i <= j
    IN  called = ConcatUpTo([i \in DOMAIN InEffect |-> CallsOf(InEffect[i])], last)
================================================================================
