--------------------------- MODULE ResponseBodyProofs ---------------------------
(***************************************************************************)
(* Proofs about ResponseBody, for any contents, any conversion and any     *)
(* contracts.                                                              *)
(***************************************************************************)
EXTENDS ResponseBody, TLAPS

Responses ==
  [method : {"GET", "HEAD"}, code : Codes, type : Types,
   headers : ResponseHeaders, body : Bodies]

Typed ==
  /\ contract \in Contracts \cup {None}
  /\ response \in Responses
  /\ report.errors \subseteq Errors
  /\ report.judged \in Contents \cup {None}
  /\ report.by \in Codes \cup {RangeOf[c] : c \in Codes} \cup {"default", "nothing"}

--------------------------------------------------------------------------------
(* The body.                                                               *)

\* What is left of a body is a content.
LEMMA RemainingTyped ==
  ASSUME NEW body \in Bodies
  PROVE  Remaining(body) \in Contents
BY ResponseAssumption DEF Bodies, Remaining

\* A new buffer gives what was put into it.
LEMMA BufferReadsBack ==
  ASSUME NEW c \in Contents
  PROVE  /\ NewBuffer(c) \in Bodies /\ NewBuffer(c).kind = "buffer"
         /\ Readable(NewBuffer(c)) /\ Remaining(NewBuffer(c)) = c
BY DEF NewBuffer, Bodies, Readable, Remaining

\* Reading a body does not change its kind.
LEMMA DrainedTyped ==
  ASSUME NEW body \in Bodies
  PROVE  Drained(body) \in Bodies /\ Drained(body).kind = body.kind /\ Drained(body).at = "end"
BY DEF Drained, Bodies

\* An outcome is sound if what it judged is what the next reader gets.
Sound(o) ==
  /\ o.errors \subseteq Errors
  /\ o.judged \in Contents \cup {None}
  /\ o.body \in Bodies
  /\ o.judged # None => Readable(o.body) /\ Remaining(o.body) = o.judged

\* The fields of an outcome.
LEMMA OutcomeFields ==
  ASSUME NEW errors, NEW judged, NEW body
  PROVE  /\ Outcome(errors, judged, body).errors = errors
         /\ Outcome(errors, judged, body).judged = judged
         /\ Outcome(errors, judged, body).body = body
BY DEF Outcome

\* An outcome that judged nothing is sound.
LEMMA UnjudgedSound ==
  ASSUME NEW errors \in SUBSET Errors, NEW body \in Bodies
  PROVE  Sound(Outcome(errors, None, body))
BY OutcomeFields DEF Sound

\* A schema is compiled, and the body read, judged and put back.
LEMMA SchemaSound ==
  ASSUME NEW method, NEW body \in Bodies, NEW schema
  PROVE  Sound(ValidateResponseSchema(method, body, schema))
<1> DEFINE o == ValidateResponseSchema(method, body, schema)
<1>1. CASE schema = "broken"
  <2>1. o = Outcome({"compile"}, None, body)
    BY <1>1 DEF ValidateResponseSchema
  <2> QED
    BY <2>1, UnjudgedSound DEF Errors
<1>2. CASE schema # "broken" /\ body.kind = "none"
  <2>1. o = Outcome(IF method = "HEAD" THEN {} ELSE {"missing"}, None, body)
    BY <1>2 DEF ValidateResponseSchema
  <2> QED
    BY <2>1, UnjudgedSound DEF Errors
<1>3. CASE schema # "broken" /\ body.kind # "none" /\ ~Readable(body)
  <2>1. o = Outcome({"unreadable"}, None, Drained(body))
    BY <1>3 DEF ValidateResponseSchema
  <2> QED
    BY <2>1, UnjudgedSound, DrainedTyped DEF Errors
<1>4. CASE schema # "broken" /\ body.kind # "none" /\ Readable(body)
  <2>1. o = Outcome(Judge(method, Remaining(body)), Remaining(body), NewBuffer(Remaining(body)))
    BY <1>4 DEF ValidateResponseSchema
  <2>2. Judge(method, Remaining(body)) \subseteq Errors
    BY DEF Judge, Errors
  <2> QED
    BY <2>1, <2>2, RemainingTyped, BufferReadsBack, OutcomeFields DEF Sound
<1> QED
  BY <1>1, <1>2, <1>3, <1>4

\* Judging the body that was put back gives the same verdict.
LEMMA SchemaRepeats ==
  ASSUME NEW method, NEW body \in Bodies, NEW schema
  PROVE  LET first == ValidateResponseSchema(method, body, schema)
             second == ValidateResponseSchema(method, first.body, schema)
         IN  second.errors = first.errors /\ second.judged = first.judged
<1> DEFINE first == ValidateResponseSchema(method, body, schema)
           second == ValidateResponseSchema(method, first.body, schema)
<1>1. CASE schema = "broken"
  BY <1>1, OutcomeFields DEF ValidateResponseSchema
<1>2. CASE schema # "broken" /\ body.kind = "none"
  <2>1. first = Outcome(IF method = "HEAD" THEN {} ELSE {"missing"}, None, body)
    BY <1>2 DEF ValidateResponseSchema
  <2>2. first.body = body
    BY <2>1, OutcomeFields
  <2> QED
    BY <2>2
<1>3. CASE schema # "broken" /\ body.kind # "none" /\ ~Readable(body)
  <2>1. first = Outcome({"unreadable"}, None, Drained(body))
    BY <1>3 DEF ValidateResponseSchema
  <2>2. first.body = Drained(body)
    BY <2>1, OutcomeFields
  <2>3. Drained(body).kind # "none" /\ ~Readable(Drained(body))
    BY <1>3, DrainedTyped DEF Readable
  <2>4. second = Outcome({"unreadable"}, None, Drained(Drained(body)))
    BY <1>3, <2>2, <2>3 DEF ValidateResponseSchema
  <2> QED
    BY <2>1, <2>4, OutcomeFields
<1>4. CASE schema # "broken" /\ body.kind # "none" /\ Readable(body)
  <2> DEFINE c == Remaining(body)
  <2>1. first = Outcome(Judge(method, c), c, NewBuffer(c))
    BY <1>4 DEF ValidateResponseSchema
  <2>2. first.body = NewBuffer(c)
    BY <2>1, OutcomeFields
  <2>3. NewBuffer(c).kind # "none" /\ Readable(NewBuffer(c)) /\ Remaining(NewBuffer(c)) = c
    BY RemainingTyped, BufferReadsBack
  <2> HIDE DEF c
  <2>4. second = Outcome(Judge(method, c), c, NewBuffer(c))
    BY <1>4, <2>2, <2>3 DEF ValidateResponseSchema
  <2> QED
    BY <2>1, <2>4
<1> QED
  BY <1>1, <1>2, <1>3, <1>4

\* A conversion, which may replace the body first, is sound too.
LEMMA CheckSound ==
  ASSUME Typed, NEW type, NEW schema
  PROVE  Sound(CheckResponseSchema(type, schema))
<1> DEFINE body == response.body
           converted == ToJson[type][Remaining(body)]
           o == CheckResponseSchema(type, schema)
<1>0. body \in Bodies /\ Remaining(body) \in Contents
  BY RemainingTyped DEF Typed, Responses
<1>1. CASE schema = "none" \/ type \notin JsonTypes \cup Convertible
  BY <1>0, <1>1, UnjudgedSound DEF CheckResponseSchema
<1>2. CASE ~(schema = "none" \/ type \notin JsonTypes \cup Convertible)
           /\ (type \in JsonTypes \/ body.kind = "none")
  BY <1>0, <1>2, SchemaSound DEF CheckResponseSchema
<1>3. CASE ~(schema = "none" \/ type \notin JsonTypes \cup Convertible)
           /\ ~(type \in JsonTypes \/ body.kind = "none")
  <2>1. CASE converted = None
    <3>1. o = Outcome({"conversion"}, None, Drained(body))
      BY <1>3, <2>1 DEF CheckResponseSchema
    <3> QED
      BY <1>0, <3>1, UnjudgedSound, DrainedTyped DEF Errors
  <2>2. CASE converted # None
    <3>1. o = ValidateResponseSchema(response.method, NewBuffer(converted), schema)
      BY <1>3, <2>2 DEF CheckResponseSchema
    <3>2. converted \in Contents
      BY <1>0, <1>3, <2>2, ResponseAssumption
    <3>3. NewBuffer(converted) \in Bodies
      BY <3>2, BufferReadsBack
    <3> HIDE DEF converted
    <3> QED
      BY <3>1, <3>3, SchemaSound
  <2> QED
    BY <2>1, <2>2
<1> QED
  BY <1>1, <1>2, <1>3

\* Whether or not the contract has the media type.
LEMMA ContentSound ==
  ASSUME Typed, NEW content, NEW type
  PROVE  Sound(CheckContent(content, type))
<1>1. response.body \in Bodies
  BY DEF Typed, Responses
<1>2. CASE Stripped[response.type] \in DOMAIN content
  BY <1>2, CheckSound DEF CheckContent
<1>3. CASE Stripped[response.type] \notin DOMAIN content
  <2>1. CheckContent(content, type) =
          Outcome(IF DOMAIN content = {} THEN {} ELSE {"type"}, None, response.body)
    BY <1>3 DEF CheckContent
  <2> QED
    BY <1>1, <2>1, UnjudgedSound DEF Errors
<1> QED
  BY <1>2, <1>3

--------------------------------------------------------------------------------
(* The validation as a function of the state.                              *)

\* The outcome for the body, the response the headers are held to, and the entry
\* of the contract that a validation of the present response ends with.
BodyOutcome ==
  LET key == CodeKey(response.code)
  IN  IF contract = None THEN Outcome({}, None, response.body)
      ELSE IF key # None
        THEN IF contract.codes[key].content = None
               THEN Outcome({}, None, response.body)
               ELSE CheckContent(contract.codes[key].content, Stripped[response.type])
      ELSE IF DefaultContent # None
        THEN CheckContent(contract.default.content, response.type)
      ELSE Outcome({"code"}, None, response.body)

HeadersOf ==
  LET key == CodeKey(response.code)
  IN  IF contract = None THEN None
      ELSE IF key # None THEN contract.codes[key]
      ELSE IF DefaultContent # None /\ Stripped[response.type] \in DOMAIN contract.default.content
        THEN contract.default
      ELSE None

EntryOf ==
  LET key == CodeKey(response.code)
  IN  IF contract = None THEN "nothing"
      ELSE IF key # None THEN key
      ELSE IF DefaultContent # None THEN "default" ELSE "nothing"

HeaderErrors == IF HeadersOf = None THEN {} ELSE CheckHeaders(HeadersOf)

\* Its report and the response it leaves.
ReportOf ==
  [errors |-> BodyOutcome.errors \cup HeaderErrors, judged |-> BodyOutcome.judged, by |-> EntryOf]

\* The entry of a code is one of the contract.
LEMMA CodeKeyFound ==
  ASSUME Typed, contract # None, CodeKey(response.code) # None
  PROVE  /\ CodeKey(response.code) \in DOMAIN contract.codes
         /\ CodeKey(response.code) \in Codes \cup {RangeOf[c] : c \in Codes}
         /\ contract.codes[CodeKey(response.code)] # None
<1>1. response.code \in Codes /\ contract \in Contracts
  BY DEF Typed, Responses
<1> QED
  BY <1>1, ResponseAssumption DEF CodeKey, IsEntry

\* Every way through the validation is a case of the functions above.
LEMMA ValidateIsFunction ==
  ASSUME Typed, Validate
  PROVE  /\ response' = [response EXCEPT !.body = BodyOutcome.body]
         /\ report' = ReportOf
         /\ validated' = TRUE /\ UNCHANGED contract
<1>0. validated' = TRUE /\ UNCHANGED contract
  BY DEF Validate
<1>1. CASE AcceptAll
  BY <1>0, <1>1, OutcomeFields DEF AcceptAll, Finish, BodyOutcome, HeadersOf, HeaderErrors, EntryOf, ReportOf
<1>2. CASE ByCode
  <2>1. contract # None /\ CodeKey(response.code) # None
    BY <1>2 DEF ByCode
  <2>2. HeadersOf = contract.codes[CodeKey(response.code)] /\ EntryOf = CodeKey(response.code)
    BY <2>1 DEF HeadersOf, EntryOf
  <2>3. Finish(BodyOutcome, HeadersOf, EntryOf)
    BY <1>2, <2>1, <2>2 DEF ByCode, BodyOutcome
  <2> QED
    BY <1>0, <2>3 DEF Finish, HeaderErrors, ReportOf
<1>3. CASE ByDefault
  <2>1. contract # None /\ CodeKey(response.code) = None /\ DefaultContent # None
    BY <1>3 DEF ByDefault
  <2>2. Finish(BodyOutcome, HeadersOf, EntryOf)
    BY <1>3, <2>1 DEF ByDefault, BodyOutcome, HeadersOf, EntryOf
  <2> QED
    BY <1>0, <2>2 DEF Finish, HeaderErrors, ReportOf
<1>4. CASE RejectCode
  <2>1. contract # None /\ CodeKey(response.code) = None /\ DefaultContent = None
    BY <1>4 DEF RejectCode
  <2>2. /\ BodyOutcome = Outcome({"code"}, None, response.body)
        /\ HeadersOf = None /\ EntryOf = "nothing"
    BY <2>1 DEF BodyOutcome, HeadersOf, EntryOf
  <2>3. Finish(BodyOutcome, None, "nothing")
    BY <1>4, <2>2 DEF RejectCode
  <2> QED
    BY <1>0, <2>2, <2>3 DEF Finish, HeaderErrors, ReportOf
<1> QED
  BY <1>1, <1>2, <1>3, <1>4 DEF Validate

\* The outcome for the body is sound.
LEMMA BodyOutcomeSound ==
  ASSUME Typed
  PROVE  Sound(BodyOutcome)
<1>1. response.body \in Bodies
  BY DEF Typed, Responses
<1>2. Sound(Outcome({}, None, response.body)) /\ Sound(Outcome({"code"}, None, response.body))
  BY <1>1, UnjudgedSound DEF Errors
<1> QED
  BY <1>2, ContentSound DEF BodyOutcome

--------------------------------------------------------------------------------
(* Types, and what is forwarded.                                           *)

\* A new body keeps the rest of a response.
LEMMA NewBodyKeeps ==
  ASSUME NEW r \in Responses, NEW body \in Bodies
  PROVE  LET s == [r EXCEPT !.body = body]
         IN  /\ s \in Responses /\ s.body = body
             /\ s.method = r.method /\ s.code = r.code
             /\ s.type = r.type /\ s.headers = r.headers
BY DEF Responses

LEMMA TypedInit == Init => Typed
BY DEF Init, Typed, Responses

LEMMA TypedStep == Typed /\ [Next]_vars => Typed'
<1> SUFFICES ASSUME Typed, [Next]_vars PROVE Typed'
  OBVIOUS
<1>1. CASE Validate
  <2>1. /\ response' = [response EXCEPT !.body = BodyOutcome.body]
        /\ report' = ReportOf /\ UNCHANGED contract
    BY <1>1, ValidateIsFunction
  <2>2. Sound(BodyOutcome)
    BY BodyOutcomeSound
  <2>3. response' \in Responses
    BY <2>1, <2>2, NewBodyKeeps DEF Typed, Sound
  <2>4. HeaderErrors \subseteq Errors
    BY DEF HeaderErrors, CheckHeaders, Errors
  <2>5. EntryOf \in Codes \cup {RangeOf[c] : c \in Codes} \cup {"default", "nothing"}
    BY CodeKeyFound DEF EntryOf
  <2> QED
    BY <2>1, <2>2, <2>3, <2>4, <2>5 DEF Typed, ReportOf, Sound
<1>2. CASE Consume
  <2>1. response' \in Responses
    BY <1>2, DrainedTyped DEF Consume, Typed, Responses
  <2> QED
    BY <1>2, <2>1 DEF Consume, Typed
<1>3. CASE UNCHANGED vars
  BY <1>3 DEF vars, Typed
<1> QED
  BY <1>1, <1>2, <1>3 DEF Next

\* The state of a response validation stays type-correct, whatever the validator
\* and the rest of the chain do.
THEOREM TypeCorrect == Spec => []TypeOK
<1>1. Typed => TypeOK
  BY DEF Typed, TypeOK, Responses
<1> QED
  BY <1>1, TypedInit, TypedStep, PTL DEF Spec

\* The next player of the chain reads exactly the body that was judged, whichever
\* way the validation took.
THEOREM ForwardsWhatItJudged == Spec => []ValidatedIsForwarded
<1> DEFINE Inv == Typed /\ ValidatedIsForwarded
<1>1. Init => Inv
  BY TypedInit DEF Init, ValidatedIsForwarded
<1>2. Inv /\ [Next]_vars => Inv'
  <2> SUFFICES ASSUME Inv, [Next]_vars PROVE ValidatedIsForwarded'
    BY TypedStep
  <2>1. CASE Validate
    <3>1. /\ response' = [response EXCEPT !.body = BodyOutcome.body]
          /\ report'.judged = BodyOutcome.judged
      BY <2>1, ValidateIsFunction DEF ReportOf
    <3>2. Sound(BodyOutcome)
      BY BodyOutcomeSound
    <3>3. response'.body = BodyOutcome.body
      BY <3>1, <3>2, NewBodyKeeps DEF Typed, Sound
    <3> QED
      BY <3>1, <3>2, <3>3 DEF ValidatedIsForwarded, Sound
  <2>2. CASE Consume
    BY <2>2 DEF Consume, ValidatedIsForwarded
  <2>3. CASE UNCHANGED vars
    BY <2>3 DEF vars, ValidatedIsForwarded
  <2> QED
    BY <2>1, <2>2, <2>3 DEF Next
<1> QED
  BY <1>1, <1>2, PTL DEF Spec

--------------------------------------------------------------------------------
(* Validating again.                                                       *)

IsJson == {response.type, Stripped[response.type]} \subseteq JsonTypes

\* Checking the body a check left gives the same errors and judges the same.
LEMMA ContentRepeats ==
  ASSUME Typed, NEW content, NEW type \in JsonTypes,
         response' = [response EXCEPT !.body = CheckContent(content, type).body]
  PROVE  LET first == CheckContent(content, type)
         IN  first'.errors = first.errors /\ first'.judged = first.judged
<1> DEFINE first == CheckContent(content, type)
           media == Stripped[response.type]
<1>1. response \in Responses /\ response.body \in Bodies /\ first.body \in Bodies
  BY ContentSound DEF Typed, Responses, Sound
<1>2. response'.type = response.type /\ response'.method = response.method
      /\ response'.body = first.body
  BY <1>1, NewBodyKeeps
<1>3. CASE media \notin DOMAIN content \/ content[media] = "none"
  BY <1>2, <1>3, OutcomeFields DEF CheckContent, CheckResponseSchema
<1>4. CASE media \in DOMAIN content /\ content[media] # "none"
  <2> DEFINE schema == content[media]
  <2>1. first = ValidateResponseSchema(response.method, response.body, schema)
    BY <1>4 DEF CheckContent, CheckResponseSchema
  <2>2. first' = ValidateResponseSchema(response'.method, response'.body, schema)
    BY <1>2, <1>4 DEF CheckContent, CheckResponseSchema
  <2> HIDE DEF schema, first
  <2>3. first' = ValidateResponseSchema(response.method, first.body, schema)
    BY <1>2, <2>2
  <2> QED
    BY <1>1, <2>1, <2>3, SchemaRepeats DEF first
<1> QED
  BY <1>3, <1>4

\* A second validation of a JSON response gives the report of the first.
LEMMA ReportRepeats ==
  ASSUME Typed, IsJson, Validate
  PROVE  ReportOf' = ReportOf
<1>1. /\ response' = [response EXCEPT !.body = BodyOutcome.body] /\ UNCHANGED contract
  BY ValidateIsFunction
<1>2. /\ response'.type = response.type /\ response'.code = response.code
      /\ response'.headers = response.headers /\ response'.body = BodyOutcome.body
  BY <1>1, BodyOutcomeSound, NewBodyKeeps DEF Typed, Sound
<1>3. CodeKey(response.code)' = CodeKey(response.code) /\ DefaultContent' = DefaultContent
  BY <1>1, <1>2 DEF CodeKey, DefaultContent
<1>4. EntryOf' = EntryOf /\ HeadersOf' = HeadersOf
  BY <1>1, <1>2, <1>3 DEF EntryOf, HeadersOf
<1>5. HeaderErrors' = HeaderErrors
  BY <1>2, <1>4 DEF HeaderErrors, CheckHeaders, Missing, Refused
<1>6. BodyOutcome'.errors = BodyOutcome.errors /\ BodyOutcome'.judged = BodyOutcome.judged
  <2> DEFINE key == CodeKey(response.code)
  <2>1. CASE contract # None /\ key # None /\ contract.codes[key].content # None
    <3> DEFINE content == contract.codes[key].content
    <3>1. BodyOutcome = CheckContent(content, Stripped[response.type])
      BY <2>1 DEF BodyOutcome
    <3>2. PICK c, t : c = content /\ t = Stripped[response.type]
      OBVIOUS
    <3>3. /\ contract' # None /\ key' # None
          /\ contract'.codes[key'].content = c /\ c # None /\ Stripped[response'.type] = t
      BY <1>1, <1>2, <1>3, <2>1, <3>2
    <3>4. BodyOutcome' = CheckContent(c, t)'
      <4>1. BodyOutcome' = CheckContent(contract.codes[key].content, Stripped[response.type])'
        BY <3>3 DEF BodyOutcome
      <4> HIDE DEF key
      <4> QED
        BY <3>3, <4>1 DEF CheckContent, CheckResponseSchema
    <3>5. BodyOutcome = CheckContent(c, t)
      BY <3>1, <3>2
    <3>6. t \in JsonTypes /\ response' = [response EXCEPT !.body = CheckContent(c, t).body]
      BY <1>1, <3>2, <3>5 DEF IsJson
    <3> QED
      BY <3>4, <3>5, <3>6, ContentRepeats
  <2>2. CASE contract # None /\ key = None /\ DefaultContent # None
    <3>1. PICK c, t : c = contract.default.content /\ t = response.type
      OBVIOUS
    <3>2. BodyOutcome = CheckContent(c, t) /\ BodyOutcome' = CheckContent(c, t)'
      BY <1>1, <1>2, <1>3, <2>2, <3>1 DEF BodyOutcome, CheckContent, CheckResponseSchema
    <3> QED
      BY <1>1, <3>1, <3>2, ContentRepeats DEF IsJson
  <2>3. CASE contract = None \/ (key # None /\ contract.codes[key].content = None)
             \/ (key = None /\ DefaultContent = None)
    BY <1>1, <1>2, <1>3, <2>3, OutcomeFields DEF BodyOutcome
  <2> QED
    BY <2>1, <2>2, <2>3
<1> QED
  BY <1>4, <1>5, <1>6 DEF ReportOf

\* A JSON response can be validated by any number of players, as long as none of
\* them reads the body in between, with the same report.
THEOREM VerdictIsStable == Spec => VerdictStable
<1> DEFINE Repeats == validated /\ IsJson => report = ReportOf
           Inv == Typed /\ Repeats
<1>1. Init => Inv
  BY TypedInit DEF Init
<1>2. Inv /\ [Next]_vars => Inv'
  <2> SUFFICES ASSUME Inv, [Next]_vars PROVE Repeats'
    BY TypedStep
  <2>1. CASE Validate
    <3>1. report' = ReportOf /\ response' = [response EXCEPT !.body = BodyOutcome.body]
      BY <2>1, ValidateIsFunction
    <3>2. response'.type = response.type
      BY <3>1, BodyOutcomeSound, NewBodyKeeps DEF Typed, Sound
    <3>3. IsJson' = IsJson
      BY <3>2 DEF IsJson
    <3>4. CASE IsJson
      <4>1. ReportOf' = ReportOf
        BY <2>1, <3>4, ReportRepeats
      <4> QED
        BY <3>1, <4>1
    <3> QED
      BY <3>3, <3>4
  <2>2. CASE Consume
    BY <2>2 DEF Consume
  <2>3. CASE UNCHANGED vars
    <3>1. ReportOf' = ReportOf /\ IsJson' = IsJson
      <4>1. BodyOutcome' = BodyOutcome /\ EntryOf' = EntryOf /\ HeadersOf' = HeadersOf /\ IsJson' = IsJson
        BY <2>3 DEF vars, IsJson, BodyOutcome, HeadersOf, EntryOf, CodeKey, DefaultContent,
                    CheckContent, CheckResponseSchema
      <4>2. HeaderErrors' = HeaderErrors
        BY <2>3, <4>1 DEF vars, HeaderErrors, CheckHeaders, Missing, Refused
      <4> QED
        BY <4>1, <4>2 DEF ReportOf
    <3> QED
      BY <2>3, <3>1 DEF vars
  <2> QED
    BY <2>1, <2>2, <2>3 DEF Next
<1>3. Inv /\ [Next]_vars => [validated /\ validated' /\ IsJson => UNCHANGED report]_vars
  <2> SUFFICES ASSUME Inv, Next, validated, validated', IsJson PROVE UNCHANGED report
    BY DEF vars
  <2>1. Validate
    BY DEF Next, Consume
  <2> QED
    BY <2>1, ValidateIsFunction
<1> QED
  BY <1>1, <1>2, <1>3, PTL DEF Spec, VerdictStable, IsJson

--------------------------------------------------------------------------------
(* Conforming to the contract.                                             *)

\* A schema that was checked without an error accepts what was judged.
LEMMA AcceptedSchema ==
  ASSUME NEW method, NEW body \in Bodies, NEW schema,
         ValidateResponseSchema(method, body, schema).errors = {}
  PROVE  /\ schema # "broken"
         /\ \/ ValidateResponseSchema(method, body, schema).judged \in Accepted \cup {Empty, Null}
            \/ method = "HEAD" /\ body.kind = "none"
<1> DEFINE o == ValidateResponseSchema(method, body, schema)
<1>1. schema # "broken"
  BY OutcomeFields DEF ValidateResponseSchema
<1>2. ASSUME body.kind = "none" PROVE method = "HEAD"
  <2>1. o = Outcome(IF method = "HEAD" THEN {} ELSE {"missing"}, None, body)
    BY <1>1, <1>2 DEF ValidateResponseSchema
  <2> QED
    BY <2>1, OutcomeFields
<1>3. ASSUME body.kind # "none" PROVE o.judged \in Accepted \cup {Empty, Null}
  <2>1. Readable(body)
    <3>1. SUFFICES ASSUME ~Readable(body) PROVE FALSE
      OBVIOUS
    <3>2. o = Outcome({"unreadable"}, None, Drained(body))
      BY <1>1, <1>3, <3>1 DEF ValidateResponseSchema
    <3> QED
      BY <3>2, OutcomeFields
  <2>2. o = Outcome(Judge(method, Remaining(body)), Remaining(body), NewBuffer(Remaining(body)))
    BY <1>1, <1>3, <2>1 DEF ValidateResponseSchema
  <2>3. Judge(method, Remaining(body)) = {} /\ o.judged = Remaining(body)
    BY <2>2, OutcomeFields
  <2> QED
    BY <2>3 DEF Judge
<1> QED
  BY <1>1, <1>2, <1>3

\* The same for a content map: the media type is one of it, unless it is empty,
\* and a JSON body conforms to its schema.
LEMMA AcceptedContent ==
  ASSUME Typed, NEW content, NEW type, CheckContent(content, type).errors = {},
         \A m \in DOMAIN content : content[m] \in {"none", "broken", "good"},
         type \in {response.type, Stripped[response.type]}
  PROVE  LET media == Stripped[response.type]
             judged == CheckContent(content, type).judged
         IN  /\ DOMAIN content # {} => media \in DOMAIN content
             /\ media \in DOMAIN content /\ media \in JsonTypes =>
                  \/ content[media] = "none"
                  \/ content[media] = "good" /\ judged \in Accepted \cup {Empty, Null}
                  \/ content[media] = "good" /\ response.method = "HEAD" /\ response.body.kind = "none"
<1> DEFINE media == Stripped[response.type]
           o == CheckContent(content, type)
<1>1. ASSUME media \notin DOMAIN content PROVE DOMAIN content = {}
  <2>1. o = Outcome(IF DOMAIN content = {} THEN {} ELSE {"type"}, None, response.body)
    BY <1>1 DEF CheckContent
  <2> QED
    BY <2>1, OutcomeFields
<1>2. ASSUME media \in DOMAIN content, media \in JsonTypes, content[media] # "none"
      PROVE  /\ content[media] = "good"
             /\ o.judged \in Accepted \cup {Empty, Null} \/ (response.method = "HEAD" /\ response.body.kind = "none")
  <2>1. response.type \in Types /\ response.body \in Bodies
    BY DEF Typed, Responses
  <2>2. type \in JsonTypes
    BY <1>2, <2>1, ResponseAssumption
  <2>3. o = ValidateResponseSchema(response.method, response.body, content[media])
    BY <1>2, <2>2 DEF CheckContent, CheckResponseSchema
  <2>4. /\ content[media] # "broken"
        /\ o.judged \in Accepted \cup {Empty, Null} \/ (response.method = "HEAD" /\ response.body.kind = "none")
    BY <2>1, <2>3, AcceptedSchema
  <2> QED
    BY <1>2, <2>4
<1> QED
  BY <1>1, <1>2

\* The governing response is the one whose entry the validation used.
LEMMA GoverningIsUsed ==
  ASSUME Typed, contract # None
  PROVE  Governing(response.code) =
           IF CodeKey(response.code) = None THEN contract.default
           ELSE contract.codes[CodeKey(response.code)]
<1>1. contract \in Contracts
  BY DEF Typed
<1>2. \A k \in DOMAIN contract.codes : k # None
  BY <1>1, ResponseAssumption
<1> QED
  BY <1>2 DEF Governing, CodeKey

\* Response, code and headers: a method without a body keeps it.
LEMMA NoBodyStays ==
  ASSUME Typed, NEW content, NEW type, response.body.kind = "none",
         CheckContent(content, type).errors = {}, type \in JsonTypes
  PROVE  CheckContent(content, type).body.kind = "none"
<1> DEFINE media == Stripped[response.type]
<1>1. CASE media \notin DOMAIN content \/ content[media] = "none"
  BY <1>1, OutcomeFields DEF CheckContent, CheckResponseSchema
<1>2. CASE media \in DOMAIN content /\ content[media] # "none"
  <2>1. CheckContent(content, type) = ValidateResponseSchema(response.method, response.body, content[media])
    BY <1>2 DEF CheckContent, CheckResponseSchema
  <2>2. content[media] # "broken"
    BY <2>1, OutcomeFields DEF ValidateResponseSchema
  <2>3. CheckContent(content, type)
          = Outcome(IF response.method = "HEAD" THEN {} ELSE {"missing"}, None, response.body)
    BY <2>1, <2>2 DEF ValidateResponseSchema
  <2> QED
    BY <2>3, OutcomeFields
<1> QED
  BY <1>1, <1>2

\* Headers that Meets accepts.
HeadersFit(found) ==
  \/ found.headers = None
  \/ /\ \A h \in DOMAIN found.headers : found.headers[h] = "required" =>
          h \in {n \in DOMAIN response.headers : response.headers[n] = "good"}
     /\ StrictMode => DOMAIN response.headers \subseteq DOMAIN found.headers

\* Headers that were checked without an error.
LEMMA AcceptedHeaders ==
  ASSUME Typed, NEW found, CheckHeaders(found) = {}
  PROVE  HeadersFit(found)
<1> SUFFICES ASSUME found.headers # None
             PROVE  /\ \A h \in DOMAIN found.headers : found.headers[h] = "required" =>
                         h \in DOMAIN response.headers /\ response.headers[h] = "good"
                    /\ StrictMode => DOMAIN response.headers \subseteq DOMAIN found.headers
  BY DEF HeadersFit
<1>1. /\ Missing(found) = {} /\ Refused(found) = {}
      /\ StrictMode => DOMAIN response.headers \ DOMAIN found.headers = {}
  BY DEF CheckHeaders
<1>2. \A h \in DOMAIN response.headers : response.headers[h] \in {"good", "bad"}
  BY DEF Typed, Responses, ResponseHeaders
<1> QED
  BY <1>1, <1>2 DEF Missing, Refused

\* A validation that reports nothing found what the contract asks for.
LEMMA ValidateConforms ==
  ASSUME Typed, Validate
  PROVE  AcceptedConforms'
<1> DEFINE key == CodeKey(response.code)
           media == Stripped[response.type]
           found == Governing(response.code)
<1> SUFFICES ASSUME contract' # None, report'.errors = {}
             PROVE  Meets(Governing(response.code))'
  BY DEF AcceptedConforms
<1>1. /\ response' = [response EXCEPT !.body = BodyOutcome.body]
      /\ report' = ReportOf /\ UNCHANGED contract
  BY ValidateIsFunction
<1>2. /\ response'.type = response.type /\ response'.code = response.code
      /\ response'.headers = response.headers /\ response'.method = response.method
      /\ response'.body = BodyOutcome.body
  BY <1>1, BodyOutcomeSound, NewBodyKeeps DEF Typed, Sound
<1>3. Governing(response.code)' = found /\ \A f : HeadersFit(f)' = HeadersFit(f)
  BY <1>1, <1>2 DEF Governing, HeadersFit
<1>4. /\ BodyOutcome.errors = {} /\ HeaderErrors = {}
      /\ report'.judged = BodyOutcome.judged /\ report'.by = EntryOf
  BY <1>1 DEF ReportOf
<1>5. ASSUME HeadersOf # None PROVE HeadersFit(HeadersOf)
  BY <1>4, <1>5, AcceptedHeaders DEF HeaderErrors
<1>6. contract \in Contracts /\ contract # None
  BY <1>1 DEF Typed
<1> SUFFICES ASSUME NEW f, f = found PROVE Meets(f)'
  BY <1>3 DEF Meets
<1>7. CASE key # None
  <2>1. found = contract.codes[key] /\ key \in DOMAIN contract.codes
    BY <1>6, <1>7, GoverningIsUsed, CodeKeyFound
  <2>2. IsEntry(found)
    BY <1>6, <2>1, ResponseAssumption
  <2>3. HeadersOf = found
    BY <1>6, <1>7, <2>1 DEF HeadersOf
  <2>4. HeadersFit(found)
    BY <1>5, <2>2, <2>3 DEF IsEntry
  <2>5. CASE found.content = None
    BY <1>2, <1>3, <2>2, <2>4, <2>5 DEF IsEntry, Meets, HeadersFit
  <2>6. CASE found.content # None
    <3>1. PICK content, type : content = found.content /\ type = media
      OBVIOUS
    <3>2. BodyOutcome = CheckContent(content, type)
      BY <1>6, <1>7, <2>1, <2>6, <3>1 DEF BodyOutcome
    <3>3. \A m \in DOMAIN content : content[m] \in {"none", "broken", "good"}
      BY <2>2, <2>6, <3>1 DEF IsEntry
    <3>4. type \in {response.type, Stripped[response.type]}
      BY <3>1
    <3>5. /\ DOMAIN content # {} => media \in DOMAIN content
          /\ media \in DOMAIN content /\ media \in JsonTypes =>
               \/ content[media] = "none"
               \/ content[media] = "good" /\ BodyOutcome.judged \in Accepted \cup {Empty, Null}
               \/ content[media] = "good" /\ response.method = "HEAD" /\ response.body.kind = "none"
      BY <1>4, <3>2, <3>3, <3>4, AcceptedContent
    <3>6. media \in JsonTypes /\ response.body.kind = "none" => BodyOutcome.body.kind = "none"
      BY <1>4, <3>1, <3>2, NoBodyStays
    <3> HIDE DEF media, found
    <3> QED
      BY <1>2, <1>3, <1>4, <2>2, <2>4, <3>1, <3>5, <3>6 DEF IsEntry, media, Meets, HeadersFit
  <2> QED
    BY <2>5, <2>6
<1>8. CASE key = None
  <2>1. found = contract.default
    BY <1>6, <1>8, GoverningIsUsed
  <2>2. DefaultContent # None
    BY <1>4, <1>6, <1>8, OutcomeFields DEF BodyOutcome
  <2>3. found # None /\ found.content # None /\ EntryOf = "default"
    BY <1>6, <1>8, <2>1, <2>2 DEF DefaultContent, EntryOf
  <2>4. PICK content, type : content = found.content /\ type = response.type
    OBVIOUS
  <2>5. BodyOutcome = CheckContent(content, type)
    BY <1>6, <1>8, <2>1, <2>2, <2>4 DEF BodyOutcome
  <2>6. \A m \in DOMAIN content : content[m] \in {"none", "broken", "good"}
    BY <1>6, <2>1, <2>3, <2>4, ResponseAssumption DEF IsEntry
  <2>7. /\ DOMAIN content # {} => media \in DOMAIN content
        /\ media \in DOMAIN content /\ media \in JsonTypes =>
             \/ content[media] = "none"
             \/ content[media] = "good" /\ BodyOutcome.judged \in Accepted \cup {Empty, Null}
             \/ content[media] = "good" /\ response.method = "HEAD" /\ response.body.kind = "none"
    BY <1>4, <2>4, <2>5, <2>6, AcceptedContent
  <2>8. media \in JsonTypes /\ response.body.kind = "none" => BodyOutcome.body.kind = "none"
    <3>1. media \in JsonTypes => type \in JsonTypes
      BY <2>4, ResponseAssumption DEF Typed, Responses
    <3> QED
      BY <1>4, <2>5, <3>1, NoBodyStays
  <2>9. media \in DOMAIN content => HeadersFit(found)
    <3>1. SUFFICES ASSUME media \in DOMAIN content
                   PROVE  HeadersFit(found)
      OBVIOUS
    <3>2. HeadersOf = found
      BY <1>6, <1>8, <2>1, <2>2, <2>4, <3>1 DEF HeadersOf
    <3> QED
      BY <1>5, <2>3, <3>2
  <2> HIDE DEF media, found
  <2> QED
    BY <1>2, <1>3, <1>4, <2>3, <2>4, <2>7, <2>8, <2>9 DEF media, Meets, HeadersFit
<1> QED
  BY <1>7, <1>8

\* A response that is accepted conforms to the response of the contract that
\* governs its code: its own entry, the one of its range, or the default.
THEOREM AcceptedIsConformance == Spec => []AcceptedConforms
<1> DEFINE Inv == Typed /\ AcceptedConforms
<1>1. Init => Inv
  BY TypedInit DEF Init, AcceptedConforms
<1>2. Inv /\ [Next]_vars => Inv'
  <2> SUFFICES ASSUME Inv, [Next]_vars PROVE AcceptedConforms'
    BY TypedStep
  <2>1. CASE Validate
    BY <2>1, ValidateConforms
  <2>2. CASE Consume
    BY <2>2 DEF Consume, AcceptedConforms
  <2>3. CASE UNCHANGED vars
    BY <2>3 DEF vars, AcceptedConforms, Meets, Governing
  <2> QED
    BY <2>1, <2>2, <2>3 DEF Next
<1> QED
  BY <1>1, <1>2, PTL DEF Spec
================================================================================
