------------------------------ MODULE RequestBody ------------------------------
(***************************************************************************)
(* ValidateRequestBodyWithPathItem and ValidateRequestSchema (requests/):  *)
(* which media type of the operation a request is held to, and what        *)
(* happens to the request's body, a stream that can be read once, while it *)
(* travels through a chain of middleware, validations and a handler.       *)
(*                                                                         *)
(* A body is [kind, content, at]: "nil", "stream" (can only be read) or    *)
(* "reader" (io.NopCloser around a bytes.Reader, whose whole content can   *)
(* still be seen after it was read), and how far it was read.  http.NoBody *)
(* is an empty stream.  The verdict of a schema on a decoded content,      *)
(* strict mode included, is given by Accepted.                             *)
(***************************************************************************)
EXTENDS Naturals

CONSTANTS Contents,     \* what a body may consist of
          Empty,        \* no bytes
          Rest,         \* what is left of a content that was read in part
          Json,         \* the contents that decode
          Accepted,     \* those the schema accepts
          ToJson,       \* XML or form, by its type, converted to JSON; None with errors
          Operations,   \* the operations requests are validated against
          MediaTypes,   \* <<type, subtype>> of the requests
          JsonTypes,    \* those with "json" in them
          Convertible,  \* XML and form types whose option is on
          None

ASSUME BodyAssumption ==
  /\ Empty \in Contents
  /\ Rest \in [Contents -> Contents]
  /\ Json \subseteq Contents \ {Empty}
  /\ Accepted \subseteq Json
  /\ JsonTypes \subseteq MediaTypes
  /\ Convertible \subseteq MediaTypes \ JsonTypes
  /\ \A t \in Convertible : ToJson[t] \in [Contents -> Json \cup {None}]
  /\ \A op \in Operations :
       DOMAIN op.content \subseteq Nat /\ \A i \in DOMAIN op.content : op.content[i] # None
  /\ None \notin Contents
  /\ None \notin MediaTypes

VARIABLES operation,   \* the request body the operation declares, or None
          request,     \* [type, body, getBody, length]
          report,      \* the last validation's [verdict, of, media]
          sent,        \* the content the chain last put into the request
          touched      \* what was done to the body since the last validation

vars == <<operation, request, report, sent, touched>>

\* Nothing, read to its end, or replaced or read halfway.
Touched == {"no", "read", "changed"}

Kinds == {"nil", "stream", "reader"}
Bodies == [kind : Kinds, content : Contents, at : {"start", "middle", "end"}]

--------------------------------------------------------------------------------
(* The body of a request.                                                  *)

NewBody(kind, content) == [kind |-> kind, content |-> content, at |-> "start"]

\* What a reader of the body still gets.
Remaining(body) ==
  IF body.kind = "nil" \/ body.at = "end" THEN Empty
  ELSE IF body.at = "start" THEN body.content ELSE Rest[body.content]

\* Mutant: GetBody and ContentLength keep their old content.
SetBodyOnly(r, content) == [r EXCEPT !.body = NewBody("reader", content)]

\* setRequestBody
SetRequestBody(r, content) ==
  [r EXCEPT !.body = NewBody("reader", content), !.getBody = content, !.length = content]

\* requestBodySnapshot: the whole of a non-empty reader, read or not.
Snapshot(r) ==
  IF r.body.kind = "reader" /\ r.body.content # Empty THEN r.body.content ELSE None

\* Mutant: whatever GetBody gives stands in for a body that was read.
StaleReadBody(r) ==
  LET rest == Remaining(r.body)
  IN  IF rest = Empty /\ r.getBody # None THEN r.getBody ELSE rest

\* Mutant: a body that was read is not replayed.
ReadBodyOnce(r) == Remaining(r.body)

\* Mutant: the snapshot is what was read.
ReadSnapshot(r) == Snapshot(r)

\* readAndResetRequestBody, its result: what is left of the body; a body read
\* to its end is replayed by GetBody if that gives the body's own content.
ReadBody(r) ==
  LET rest == Remaining(r.body)
  IN  IF rest = Empty /\ Snapshot(r) # None /\ r.getBody = Snapshot(r)
        THEN r.getBody
        ELSE rest

\* readAndResetRequestBody, its effect.
AfterRead(r) == IF r.body.kind = "nil" THEN r ELSE SetRequestBody(r, ReadBody(r))

--------------------------------------------------------------------------------
(* The media type: extractContentType.                                     *)

Fits(range, type) ==
  /\ range[1] \in {"*", type[1]}
  /\ range[2] \in {"*", type[2]}

\* Mutant: the first range that fits, exact or not.
FirstFitting(op, type) ==
  LET fitting == {i \in DOMAIN op.content : Fits(op.content[i].range, type)}
  IN  IF fitting = {} THEN None
      ELSE op.content[CHOOSE i \in fitting : \A j \in fitting : i <= j]

\* The media type itself, else the first range that contains it.
ExtractContentType(op, type) ==
  LET exact == {i \in DOMAIN op.content : op.content[i].range = type}
      fitting == {i \in DOMAIN op.content : Fits(op.content[i].range, type)}
      candidates == IF exact # {} THEN exact ELSE fitting
  IN  IF candidates = {} THEN None
      ELSE op.content[CHOOSE i \in candidates : \A j \in candidates : i <= j]

--------------------------------------------------------------------------------
(* One validation.                                                         *)

Judge(content, required) ==
  IF content = Empty THEN (IF required THEN "invalid" ELSE "valid")
  ELSE IF content \in Accepted THEN "valid" ELSE "invalid"

Report(verdict, content, media) == [verdict |-> verdict, of |-> content, media |-> media]

\* A validation that ends without having read the body.
Unread(verdict, media) ==
  /\ report' = Report(verdict, None, media)
  /\ UNCHANGED request

\* ValidateRequestSchema of request r: a schema that does not compile is
\* reported before the body is read.
ValidateRequestSchema(r, media) ==
  IF media.schema = "broken"
    THEN /\ report' = Report("invalid", None, media.range)
         /\ request' = r
    ELSE /\ report' = Report(Judge(ReadBody(r), operation.required), ReadBody(r), media.range)
         /\ request' = AfterRead(r)

\* No request body declared, none needed, or nothing to hold it to.
Accept ==
  \/ operation = None /\ Unread("valid", None)
  \/ /\ operation # None /\ request.type = None /\ ~operation.required
     /\ Unread("valid", None)
  \/ /\ operation # None /\ request.type # None
     /\ LET media == ExtractContentType(operation, request.type)
        IN  /\ media # None
            /\ media.schema = "none" \/ request.type \notin JsonTypes \cup Convertible
            /\ Unread("valid", media.range)

\* RequestContentTypeNotFound
RejectType ==
  /\ operation # None
  /\ IF request.type = None
       THEN operation.required
       ELSE ExtractContentType(operation, request.type) = None
  /\ Unread("invalid", None)

CheckJson ==
  /\ operation # None /\ request.type \in JsonTypes
  /\ LET media == ExtractContentType(operation, request.type)
     IN  /\ media # None /\ media.schema # "none"
         /\ ValidateRequestSchema(request, media)

\* XML and forms: the body is replaced by its conversion to JSON, and that is
\* validated; a body that does not convert is put back as it was read.  No text is
\* not XML, but a form without fields.
CheckConverted ==
  /\ operation # None /\ request.type \in Convertible
  /\ LET media == ExtractContentType(operation, request.type)
         converted == ToJson[request.type][ReadBody(request)]
     IN  /\ media # None /\ media.schema # "none"
         /\ IF request.body.kind = "nil" /\ request.getBody = None
              THEN ValidateRequestSchema(request, media)
            ELSE IF converted = None
              THEN /\ report' = Report("invalid", ReadBody(request), media.range)
                   /\ request' = AfterRead(request)
              ELSE ValidateRequestSchema(SetRequestBody(AfterRead(request), converted), media)

Validate ==
  /\ Accept \/ RejectType \/ CheckJson \/ CheckConverted
  /\ touched' = "no"
  /\ UNCHANGED <<operation, sent>>

--------------------------------------------------------------------------------
(* The rest of the chain, outside this module: whoever makes, reads or     *)
(* replaces the body.                                                      *)

\* http.NewRequest from a bytes.Reader (GetBody replays it), from a bytes.Buffer
\* (GetBody, but a stream) and from anything else; a request without a body.
NewRequest(type, kind, content, getBody) ==
  [type |-> type, body |-> NewBody(kind, content), getBody |-> getBody, length |-> getBody]

NewRequests ==
  {NewRequest(t, k, c, g) : t \in MediaTypes \cup {None}, k \in Kinds,
                            c \in Contents, g \in Contents \cup {None}}

Init ==
  /\ operation \in Operations \cup {None}
  /\ sent \in Contents
  /\ request \in {r \in NewRequests :
        /\ r.body.content = sent
        /\ r.getBody \in {sent, None}
        /\ r.body.kind = "reader" => r.getBody = sent
        /\ r.body.kind = "nil" => r.getBody = None /\ sent = Empty}
  /\ report = Report("none", None, None)
  /\ touched = "changed"

\* Someone reads the body to its end.
Consume ==
  /\ request.body.kind # "nil" /\ request.body.at # "end"
  /\ request' = [request EXCEPT !.body.at = "end"]
  /\ touched' = IF touched = "no" THEN "read" ELSE touched
  /\ UNCHANGED <<operation, report, sent>>

\* Someone reads some of it, and leaves the rest.
ConsumePart ==
  /\ request.body.kind # "nil" /\ request.body.at = "start"
  /\ Rest[request.body.content] # request.body.content
  /\ request' = [request EXCEPT !.body.at = "middle"]
  /\ touched' = "changed"
  /\ UNCHANGED <<operation, report, sent>>

\* Someone assigns another body, not caring for GetBody.
Assign(kind, content) ==
  /\ request' = [request EXCEPT !.body = NewBody(kind, content)]
  /\ sent' = content
  /\ touched' = "changed"
  /\ UNCHANGED <<operation, report>>

Next ==
  \/ Validate \/ Consume \/ ConsumePart
  \/ \E kind \in {"stream", "reader"}, content \in Contents : Assign(kind, content)

Spec == Init /\ [][Next]_vars

--------------------------------------------------------------------------------
(* Properties.                                                             *)

TypeOK ==
  /\ operation \in Operations \cup {None}
  /\ request.type \in MediaTypes \cup {None}
  /\ request.body \in Bodies
  /\ {request.getBody, request.length} \subseteq Contents \cup {None}
  /\ report.verdict \in {"none", "valid", "invalid"}
  /\ report.of \in Contents \cup {None}
  /\ sent \in Contents
  /\ touched \in Touched

\* What was validated is what the rest of the chain gets, by reading the body,
\* by GetBody (a redirect, a retry) and by ContentLength, whatever path the
\* validation took through reads, replays and conversions.
ValidatedIsForwarded ==
  touched = "no" /\ report.of # None /\ request.body.kind # "nil"
    => {Remaining(request.body), request.getBody, request.length} = {report.of}

\* The contents that reading in part or to the end, and converting what a request
\* of a type has, lead to.
Conversions(type, c) == IF type \in Convertible THEN {ToJson[type][c]} \ {None} ELSE {}
Closed(S, type) == Empty \in S /\ \A c \in S : Rest[c] \in S /\ Conversions(type, c) \subseteq S
Derived(content, type) ==
  {c \in Contents : \A S \in SUBSET Contents : content \in S /\ Closed(S, type) => c \in S}

\* A stale GetBody is never taken for the body: what was validated stems from
\* the content the chain last put into the request ("PrefersAssignedBodyOver-
\* StaleGetBody", "DoesNotUseStaleGetBodyForConsumedDifferentBodySameLength").
NeverStale ==
  touched = "no" /\ report.of # None => report.of \in Derived(sent, request.type)

\* A JSON request that was validated can be read to its end and validated
\* again, any number of times, with the same verdict on the same content.
VerdictStable ==
  [][request.type \in JsonTypes /\ report.of # None
       /\ touched \in {"no", "read"} /\ touched' = "no"
       => UNCHANGED report]_vars

\* The media types that may govern a request: its own, else the ranges it fits.
Governing ==
  LET own == {i \in DOMAIN operation.content : operation.content[i].range = request.type}
  IN  IF own # {} THEN own
      ELSE {i \in DOMAIN operation.content : Fits(operation.content[i].range, request.type)}

\* What the next reader gets conforms to the schema of media type i.
Conforms(i) ==
  LET received == Remaining(request.body)
      schema == operation.content[i].schema
  IN  \/ schema = "none"
      \/ /\ schema # "broken"
         /\ IF received = Empty THEN ~operation.required ELSE received \in Accepted

\* A request is accepted only if what its handler will read, converted or as it
\* was sent, conforms to a media type that governs it; and a JSON request is
\* accepted if it conforms to all of them: a type the operation lists is not
\* overruled by a range it lists first.
VerdictConforms ==
  touched = "no" /\ operation # None =>
    /\ request.type \in JsonTypes \cup Convertible /\ report.verdict = "valid" =>
         \E i \in Governing : Conforms(i)
    /\ request.type \in JsonTypes /\ Governing # {} /\ (\A i \in Governing : Conforms(i)) =>
         report.verdict = "valid"
================================================================================
