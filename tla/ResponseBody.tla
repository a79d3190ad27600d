------------------------------ MODULE ResponseBody ------------------------------
(***************************************************************************)
(* ValidateResponseBodyWithPathItem, ValidateResponseSchema and            *)
(* ValidateResponseHeaders (responses/): which response of the contract a  *)
(* response is held to, and what happens to its body, a stream other       *)
(* players of the chain read as well.                                      *)
(*                                                                         *)
(* A body is [kind, content, at]: "none" (http.NoBody), "transport" (fails *)
(* once it was closed), "failing" (cannot be read) or "buffer" (an         *)
(* io.NopCloser, empty once it was read).  The verdict of a schema on a    *)
(* decoded content, strict mode included, is given by Accepted.            *)
(***************************************************************************)
EXTENDS FiniteSets

CONSTANTS Contents,      \* what a body may consist of
          Empty, Null,   \* no bytes, JSON null
          Json,          \* the contents that decode
          Accepted,      \* those the schema accepts
          ToJson,        \* per convertible type: content -> JSON; None with errors
          Contracts,     \* responses of the operations
          Codes,         \* status codes of the responses
          RangeOf,       \* code -> its range, such as 2XX
          Types,         \* Content-Type headers
          Stripped,      \* header -> media type without parameters
          JsonTypes,     \* headers and media types with "json" in them
          Convertible,   \* XML and form types whose option is on
          Headers,       \* names of response headers
          StrictMode,
          None

\* An entry of a contract: the schemas of its media types, and of its headers, by
\* name, whether they are required or optional; None for no such map.
IsEntry(e) ==
  /\ e # None
  /\ e.content # None => \A m \in DOMAIN e.content : e.content[m] \in {"none", "broken", "good"}

ASSUME ResponseAssumption ==
  /\ {Empty, Null} \subseteq Contents
  /\ Accepted \subseteq Json
  /\ Json \subseteq Contents \ {Empty}
  /\ DOMAIN Stripped = Types
  /\ JsonTypes \cap Convertible = {}
  /\ \A t \in Types : Stripped[t] \in JsonTypes => t \in JsonTypes
  /\ \A t \in Convertible : ToJson[t] \in [Contents -> Json \cup {None}]
  /\ StrictMode \in BOOLEAN
  /\ None \notin Contents /\ None \notin Contracts
  /\ \A c \in Contracts :
       /\ \A k \in DOMAIN c.codes : k # None /\ IsEntry(c.codes[k])
       /\ c.default # None => IsEntry(c.default)

VARIABLES contract,   \* [codes, default] of the operation, or None
          response,   \* [method, code, type, headers, body]
          report,     \* the last validation's errors, and the content judged
          validated   \* nobody has read the body since it was validated

vars == <<contract, response, report, validated>>

Errors == {"code", "type", "conversion", "compile", "missing", "unreadable", "schema", "headers"}
Bodies == [kind : {"none", "transport", "failing", "buffer"}, content : Contents, at : {"start", "end"}]

NewBuffer(content) == [kind |-> "buffer", content |-> content, at |-> "start"]
Drained(body) == [body EXCEPT !.at = "end"]

Readable(body) == body.kind = "buffer" \/ (body.kind = "transport" /\ body.at = "start")

\* What a reader of the body gets, errors ignored.
Remaining(body) ==
  IF body.kind \in {"buffer", "transport"} /\ body.at = "start" THEN body.content ELSE Empty

--------------------------------------------------------------------------------
(* The body.  An outcome is [errors, judged, body].                        *)

Outcome(errors, judged, body) == [errors |-> errors, judged |-> judged, body |-> body]

\* An empty body and JSON null are accepted whatever the schema says.
Judge(method, content) ==
  IF content = Empty THEN {}
  ELSE IF method = "HEAD" \/ content \notin Json THEN {"schema"}
  ELSE IF content = Null \/ content \in Accepted THEN {} ELSE {"schema"}

\* Mutant: the body that was read is not put back.
ValidateDraining(method, body, schema) ==
  CASE schema = "broken" -> Outcome({"compile"}, None, body)
    [] schema # "broken" /\ body.kind = "none" ->
         Outcome(IF method = "HEAD" THEN {} ELSE {"missing"}, None, body)
    [] schema # "broken" /\ body.kind # "none" /\ ~Readable(body) ->
         Outcome({"unreadable"}, None, Drained(body))
    [] OTHER ->
         Outcome(Judge(method, Remaining(body)), Remaining(body), Drained(body))

\* ValidateResponseSchema
ValidateResponseSchema(method, body, schema) ==
  CASE schema = "broken" -> Outcome({"compile"}, None, body)
    [] schema # "broken" /\ body.kind = "none" ->
         Outcome(IF method = "HEAD" THEN {} ELSE {"missing"}, None, body)
    [] schema # "broken" /\ body.kind # "none" /\ ~Readable(body) ->
         Outcome({"unreadable"}, None, Drained(body))
    [] OTHER ->
         Outcome(Judge(method, Remaining(body)), Remaining(body), NewBuffer(Remaining(body)))

\* checkResponseSchema: XML and forms are read, closed and, once converted,
\* replaced by their conversion, which is then validated.
CheckResponseSchema(type, schema) ==
  LET body == response.body
      converted == ToJson[type][Remaining(body)]
  IN  IF schema = "none" \/ type \notin JsonTypes \cup Convertible
        THEN Outcome({}, None, body)
      ELSE IF type \in JsonTypes \/ body.kind = "none"
        THEN ValidateResponseSchema(response.method, body, schema)
      ELSE IF converted = None
        THEN Outcome({"conversion"}, None, Drained(body))
      ELSE ValidateResponseSchema(response.method, NewBuffer(converted), schema)

\* Mutant: the body goes with a media type the response lacks.
CheckContentDropping(content, type) ==
  LET media == Stripped[response.type]
  IN  IF media \in DOMAIN content THEN CheckResponseSchema(type, content[media])
      ELSE Outcome(IF DOMAIN content = {} THEN {} ELSE {"type"}, None, None)

\* The content map of a response: the media type, else an error unless empty.
CheckContent(content, type) ==
  LET media == Stripped[response.type]
  IN  IF media \in DOMAIN content THEN CheckResponseSchema(type, content[media])
      ELSE Outcome(IF DOMAIN content = {} THEN {} ELSE {"type"}, None, response.body)

--------------------------------------------------------------------------------
(* The headers.  response.headers: name -> whether its schema accepts it,  *)
(* which is not asked about JSON null.                                     *)

Missing(found) ==
  {h \in DOMAIN found.headers : found.headers[h] = "required"} \ DOMAIN response.headers

\* Of the headers that are there only the required are held to their schemas.
Refused(found) ==
  {h \in DOMAIN found.headers \cap DOMAIN response.headers :
     found.headers[h] = "required" /\ response.headers[h] = "bad"}

\* ValidateResponseHeaders: strict mode reports undeclared headers when nothing
\* else is wrong, also for a map without headers.
CheckHeaders(found) ==
  IF found.headers = None THEN {}
  ELSE IF Missing(found) \cup Refused(found) # {} THEN {"headers"}
  ELSE IF StrictMode /\ DOMAIN response.headers \ DOMAIN found.headers # {} THEN {"headers"}
  ELSE {}

--------------------------------------------------------------------------------
(* The response.                                                           *)

\* Mutant: the range is looked up first.
RangeBeforeCode(code) ==
  IF RangeOf[code] \in DOMAIN contract.codes THEN RangeOf[code]
  ELSE IF code \in DOMAIN contract.codes THEN code
  ELSE None

\* The entry for the code, else the one for its range.
CodeKey(code) ==
  IF code \in DOMAIN contract.codes THEN code
  ELSE IF RangeOf[code] \in DOMAIN contract.codes THEN RangeOf[code]
  ELSE None

Finish(outcome, found, by) ==
  /\ response' = [response EXCEPT !.body = outcome.body]
  /\ report' = [errors |-> outcome.errors \cup (IF found = None THEN {} ELSE CheckHeaders(found)),
                judged |-> outcome.judged, by |-> by]

\* No responses in the contract: nothing to validate.
AcceptAll ==
  /\ contract = None
  /\ Finish(Outcome({}, None, response.body), None, "nothing")

ByCode ==
  /\ contract # None
  /\ LET key == CodeKey(response.code)
     IN  /\ key # None
         /\ LET found == contract.codes[key]
            IN  Finish(IF found.content = None
                         THEN Outcome({}, None, response.body)
                         ELSE CheckContent(found.content, Stripped[response.type]),
                       found, key)

DefaultContent == IF contract.default = None THEN None ELSE contract.default.content

\* The default response is found, and its headers are checked, only if it has
\* the media type.
ByDefault ==
  /\ contract # None
  /\ CodeKey(response.code) = None
  /\ DefaultContent # None
  /\ Finish(CheckContent(contract.default.content, response.type),
            IF Stripped[response.type] \in DOMAIN contract.default.content
              THEN contract.default ELSE None,
            "default")

\* ResponseCodeNotFound
RejectCode ==
  /\ contract # None
  /\ CodeKey(response.code) = None
  /\ DefaultContent = None
  /\ Finish(Outcome({"code"}, None, response.body), None, "nothing")

Validate ==
  /\ AcceptAll \/ ByCode \/ ByDefault \/ RejectCode
  /\ validated' = TRUE
  /\ UNCHANGED contract

--------------------------------------------------------------------------------
(* The chain around the validator, outside this module.                    *)

ResponseHeaders == UNION {[names -> {"good", "bad"}] : names \in SUBSET Headers}

Init ==
  /\ contract \in Contracts \cup {None}
  /\ response \in [method : {"GET", "HEAD"}, code : Codes, type : Types,
                   headers : ResponseHeaders,
                   body : {b \in Bodies : b.at = "start" /\ (b.kind \in {"none", "failing"} => b.content = Empty)}]
  /\ report = [errors |-> {}, judged |-> None, by |-> "nothing"]
  /\ validated = FALSE

\* Another player reads the body to its end.
Consume ==
  /\ response.body.kind # "none" /\ response.body.at = "start"
  /\ response' = [response EXCEPT !.body = Drained(@)]
  /\ validated' = FALSE
  /\ UNCHANGED <<contract, report>>

Next == Validate \/ Consume

Spec == Init /\ [][Next]_vars

--------------------------------------------------------------------------------
(* Properties.                                                             *)

TypeOK ==
  /\ contract \in Contracts \cup {None}
  /\ response.body \in Bodies
  /\ report.errors \subseteq Errors
  /\ report.judged \in Contents \cup {None}
  /\ report.by \in Codes \cup {RangeOf[c] : c \in Codes} \cup {"default", "nothing"}

\* Once a body was judged, the next player reads exactly what was judged.
ValidatedIsForwarded ==
  validated /\ report.judged # None
    => Readable(response.body) /\ Remaining(response.body) = report.judged

\* A JSON response can be validated again, by a second validator in the chain,
\* with the same report.
VerdictStable ==
  [][validated /\ validated' /\ {response.type, Stripped[response.type]} \subseteq JsonTypes
       => UNCHANGED report]_vars

\* The response of the contract that governs a code: its own entry, the one of
\* its range, the default.
Governing(code) ==
  LET entries == contract.codes
      keys == {k \in {code, RangeOf[code]} : k \in DOMAIN entries}
  IN  IF keys = {} THEN contract.default
      ELSE IF code \in keys THEN entries[code] ELSE entries[RangeOf[code]]

\* What a governing response asks for: its required headers come with values its
\* schemas accept, in strict mode no others come, its media types allow the type,
\* its schema accepts what a JSON body holds.  Excepted: nothing and null, which are
\* never held to a schema, and the headers of a response that has no map of them
\* and of a default whose content map is empty.
Meets(found) ==
  LET media == Stripped[response.type]
      acceptable == {h \in DOMAIN response.headers : response.headers[h] = "good"}
  IN  /\ found # None
      /\ \/ found.headers = None
         \/ report.by = "default" /\ DOMAIN found.content = {}
         \/ /\ \A h \in DOMAIN found.headers : found.headers[h] = "required" => h \in acceptable
            /\ StrictMode => DOMAIN response.headers \subseteq DOMAIN found.headers
      /\ found.content # None /\ DOMAIN found.content # {} => media \in DOMAIN found.content
      /\ found.content # None /\ media \in DOMAIN found.content /\ media \in JsonTypes =>
           \/ found.content[media] = "none"
           \/ found.content[media] = "good" /\ report.judged \in Accepted \cup {Empty, Null}
           \/ found.content[media] = "good" /\ response.method = "HEAD" /\ response.body.kind = "none"

\* What is accepted conforms to the governing response.
AcceptedConforms ==
  validated /\ contract # None /\ report.errors = {} => Meets(Governing(response.code))
================================================================================
