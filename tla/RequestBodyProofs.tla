--------------------------- MODULE RequestBodyProofs ---------------------------
(***************************************************************************)
(* Proofs about RequestBody, for any contents, any conversion, any media   *)
(* types and any operations.                                               *)
(***************************************************************************)
EXTENDS RequestBody, WellFoundedInduction, TLAPS

Requests ==
  [type : MediaTypes \cup {None}, body : Bodies,
   getBody : Contents \cup {None}, length : Contents \cup {None}]

Typed ==
  /\ operation \in Operations \cup {None}
  /\ request \in Requests
  /\ report.verdict \in {"none", "valid", "invalid"}
  /\ report.of \in Contents \cup {None}
  /\ sent \in Contents
  /\ touched \in Touched

--------------------------------------------------------------------------------
(* The body.                                                               *)

\* What is left of a body is a content.
LEMMA RemainingTyped ==
  ASSUME NEW body \in Bodies
  PROVE  Remaining(body) \in Contents
BY BodyAssumption DEF Bodies, Remaining, Kinds

\* A new body is read from its start.
LEMMA NewBodyReadsBack ==
  ASSUME NEW kind \in Kinds, NEW c \in Contents
  PROVE  /\ NewBody(kind, c) \in Bodies
         /\ kind # "nil" => Remaining(NewBody(kind, c)) = c
BY DEF NewBody, Bodies, Kinds, Remaining

\* A content put into a request is what all three ways to get it give.
LEMMA SetBodyReadsBack ==
  ASSUME NEW r \in Requests, NEW c \in Contents
  PROVE  /\ SetRequestBody(r, c) \in Requests
         /\ SetRequestBody(r, c).type = r.type
         /\ SetRequestBody(r, c).body = NewBody("reader", c)
         /\ SetRequestBody(r, c).getBody = c
         /\ SetRequestBody(r, c).length = c
<1>1. NewBody("reader", c) \in Bodies
  BY NewBodyReadsBack DEF Kinds
<1> QED
  BY <1>1 DEF SetRequestBody, Requests

\* What a validation reads is what was left, or the content of the body itself.
LEMMA ReadBodyCases ==
  ASSUME NEW r \in Requests
  PROVE  /\ ReadBody(r) \in Contents
         /\ ReadBody(r) \in {Remaining(r.body), r.body.content}
<1>1. r.body \in Bodies /\ Remaining(r.body) \in Contents
  BY RemainingTyped DEF Requests
<1>2. r.body.content \in Contents
  BY <1>1 DEF Bodies
<1> QED
  BY <1>1, <1>2, BodyAssumption DEF ReadBody, Snapshot

\* Reading leaves what was read, unless there is no body at all.
LEMMA AfterReadForwards ==
  ASSUME NEW r \in Requests
  PROVE  /\ AfterRead(r) \in Requests /\ AfterRead(r).type = r.type
         /\ r.body.kind = "nil" => AfterRead(r) = r /\ ReadBody(r) = Empty
         /\ r.body.kind # "nil" => AfterRead(r) = SetRequestBody(r, ReadBody(r))
<1>1. ReadBody(r) \in Contents
  BY ReadBodyCases
<1>2. r.body.kind = "nil" => ReadBody(r) = Empty
  BY DEF ReadBody, Snapshot, Remaining
<1> QED
  BY <1>1, <1>2, SetBodyReadsBack DEF AfterRead

\* Whoever reads the request next gets content c, in every way.
Forwards(r, c) ==
  r.body.kind # "nil" => Remaining(r.body) = c /\ r.getBody = c /\ r.length = c

\* After a content was set or read, it is what is forwarded.
LEMMA SetForwards ==
  ASSUME NEW r \in Requests, NEW c \in Contents
  PROVE  Forwards(SetRequestBody(r, c), c)
BY SetBodyReadsBack, NewBodyReadsBack DEF Forwards, Kinds

\* So is what a validation read.
LEMMA ReadForwards ==
  ASSUME NEW r \in Requests
  PROVE  Forwards(AfterRead(r), ReadBody(r))
BY AfterReadForwards, SetForwards, ReadBodyCases DEF Forwards

--------------------------------------------------------------------------------
(* One validation, and the rest of the chain.                              *)

\* What a validation holds to the schema: the request as it came, or with its
\* body replaced by the conversion.
Prepared ==
  {request} \cup
  {r \in Requests :
     \E c \in Conversions(request.type, ReadBody(request)) :
       r = SetRequestBody(AfterRead(request), c)}

\* It ends without reading that, or leaves what it read and reports on it.
EndsOrReads ==
  \E r \in Prepared :
    \/ request' = r /\ report'.of = None
    \/ request' = AfterRead(r) /\ report'.of = ReadBody(r)

\* What is converted is a content.
LEMMA ConversionsTyped ==
  ASSUME NEW type, NEW c \in Contents
  PROVE  Conversions(type, c) \subseteq Contents
BY BodyAssumption DEF Conversions

\* The verdict on a content is one of two.
LEMMA JudgeTyped == \A c, required : Judge(c, required) \in {"valid", "invalid"}
BY DEF Judge

\* ValidateRequestSchema reads, unless the schema is broken.
LEMMA SchemaStep ==
  ASSUME NEW r, NEW media, ValidateRequestSchema(r, media)
  PROVE  /\ report'.verdict \in {"valid", "invalid"}
         /\ \/ request' = r /\ report'.of = None
            \/ request' = AfterRead(r) /\ report'.of = ReadBody(r)
BY JudgeTyped DEF ValidateRequestSchema, Report

\* All paths through a validation are of this form.
LEMMA ValidateStep ==
  ASSUME Typed, Validate
  PROVE  /\ report'.verdict \in {"valid", "invalid"}
         /\ EndsOrReads
         /\ UNCHANGED <<operation, sent>> /\ touched' = "no"
<1>1. request \in Prepared /\ UNCHANGED <<operation, sent>> /\ touched' = "no"
  BY DEF Prepared, Validate
<1>2. CASE Accept
  BY <1>1, <1>2 DEF Accept, Unread, Report, EndsOrReads
<1>3. CASE RejectType
  BY <1>1, <1>3 DEF RejectType, Unread, Report, EndsOrReads
<1>4. CASE CheckJson
  BY <1>1, <1>4, SchemaStep DEF CheckJson, EndsOrReads
<1>5. CASE CheckConverted
  <2> DEFINE media == ExtractContentType(operation, request.type)
             converted == ToJson[request.type][ReadBody(request)]
             r == SetRequestBody(AfterRead(request), converted)
  <2>1. CASE ValidateRequestSchema(request, media)
    BY <1>1, <2>1, SchemaStep DEF EndsOrReads
  <2>2. CASE /\ converted = None
             /\ report' = Report("invalid", ReadBody(request), media.range)
             /\ request' = AfterRead(request)
    BY <1>1, <2>2 DEF EndsOrReads, Report
  <2>3. CASE converted # None /\ ValidateRequestSchema(r, media)
    <3>1. converted \in Conversions(request.type, ReadBody(request))
      BY <1>5, <2>3 DEF CheckConverted, Conversions
    <3>2. r \in Requests
      BY <3>1, ConversionsTyped, ReadBodyCases, AfterReadForwards, SetBodyReadsBack DEF Typed
    <3> QED
      BY <1>1, <2>3, <3>1, <3>2, SchemaStep DEF EndsOrReads, Prepared
  <2> QED
    BY <1>5, <2>1, <2>2, <2>3 DEF CheckConverted
<1> QED
  BY <1>2, <1>3, <1>4, <1>5, <1>1 DEF Validate

\* What is prepared is a request that can be read.
LEMMA PreparedTyped ==
  ASSUME Typed, NEW r \in Prepared
  PROVE  /\ r \in Requests /\ AfterRead(r) \in Requests
         /\ ReadBody(r) \in Contents
         /\ Forwards(AfterRead(r), ReadBody(r))
<1>1. r \in Requests
  BY DEF Prepared, Typed
<1> QED
  BY <1>1, AfterReadForwards, ReadBodyCases, ReadForwards

\* A validation leaves Content-Type alone, also when it converts the body.
LEMMA ValidateTypes ==
  ASSUME Typed, Validate
  PROVE  request'.type = request.type
<1>1. PICK r \in Prepared : \/ request' = r /\ report'.of = None
                            \/ request' = AfterRead(r) /\ report'.of = ReadBody(r)
  BY ValidateStep DEF EndsOrReads
<1>2. r.type = request.type
  <2>1. /\ request \in Requests /\ AfterRead(request).type = request.type
        /\ AfterRead(request) \in Requests
    BY AfterReadForwards DEF Typed
  <2>2. Conversions(request.type, ReadBody(request)) \subseteq Contents
    BY <2>1, ReadBodyCases, ConversionsTyped
  <2> QED
    BY <2>1, <2>2, SetBodyReadsBack DEF Prepared
<1> QED
  BY <1>1, <1>2, PreparedTyped, AfterReadForwards

\* The type of the state, as it is needed for the body's operations.
LEMMA TypedInit == Init => Typed
<1> SUFFICES ASSUME Init PROVE Typed
  OBVIOUS
<1>1. request \in NewRequests /\ sent \in Contents
  BY DEF Init
<1>2. PICK t \in MediaTypes \cup {None}, k \in Kinds, c \in Contents,
           g \in Contents \cup {None} : request = NewRequest(t, k, c, g)
  BY <1>1 DEF NewRequests
<1>3. NewBody(k, c) \in Bodies
  BY NewBodyReadsBack
<1>4. request \in Requests
  BY <1>2, <1>3 DEF NewRequest, Requests
<1> QED
  BY <1>1, <1>4 DEF Init, Typed, Report, Touched

\* Reading to the end or in part, and assigning, change the body only.
LEMMA ChainStep ==
  ASSUME Typed, Consume \/ ConsumePart \/ (\E k \in {"stream", "reader"}, c \in Contents : Assign(k, c))
  PROVE  /\ Typed'
         /\ UNCHANGED <<operation, report>>
         /\ request'.type = request.type /\ request'.getBody = request.getBody
         /\ touched' # "no"
         /\ touched' = "read" => Consume
<1> USE DEF Typed
<1>1. CASE Consume
  <2>1. [request.body EXCEPT !.at = "end"] \in Bodies
    BY DEF Requests, Bodies
  <2>2. request' = [request EXCEPT !.body = [request.body EXCEPT !.at = "end"]]
    BY <1>1 DEF Consume, Requests
  <2>3. touched' \in Touched \ {"no"}
    BY <1>1 DEF Consume, Touched
  <2> QED
    BY <1>1, <2>1, <2>2, <2>3 DEF Consume, Requests
<1>2. CASE ConsumePart
  <2>1. [request.body EXCEPT !.at = "middle"] \in Bodies
    BY DEF Requests, Bodies
  <2>2. request' = [request EXCEPT !.body = [request.body EXCEPT !.at = "middle"]]
    BY <1>2 DEF ConsumePart, Requests
  <2> QED
    BY <1>2, <2>1, <2>2 DEF ConsumePart, Requests, Touched
<1>3. ASSUME NEW k \in {"stream", "reader"}, NEW c \in Contents, Assign(k, c)
      PROVE  /\ Typed' /\ UNCHANGED <<operation, report>>
             /\ request'.type = request.type /\ request'.getBody = request.getBody
             /\ touched' # "no" /\ touched' # "read"
  <2>1. NewBody(k, c) \in Bodies
    BY NewBodyReadsBack DEF Kinds
  <2> QED
    BY <1>3, <2>1 DEF Assign, Requests, Touched
<1> QED
  BY <1>1, <1>2, <1>3

--------------------------------------------------------------------------------
(* The theorems.                                                           *)

\* Every step of the validator and of the chain keeps the types.
LEMMA TypedStep == Typed /\ [Next]_vars => Typed'
<1> SUFFICES ASSUME Typed, [Next]_vars PROVE Typed'
  OBVIOUS
<1>1. CASE Validate
  <2>1. PICK r \in Prepared : \/ request' = r /\ report'.of = None
                              \/ request' = AfterRead(r) /\ report'.of = ReadBody(r)
    BY <1>1, ValidateStep DEF EndsOrReads
  <2>2. r \in Requests /\ AfterRead(r) \in Requests /\ ReadBody(r) \in Contents
    BY PreparedTyped
  <2> QED
    BY <1>1, <2>1, <2>2, ValidateStep DEF Typed, Touched
<1>2. CASE UNCHANGED vars
  BY <1>2 DEF vars, Typed
<1> QED
  BY <1>1, <1>2, ChainStep DEF Next

\* Type correctness, whatever the chain around the validator does.
THEOREM TypeCorrect == Spec => []TypeOK
<1>1. Typed => TypeOK
  BY DEF Typed, TypeOK, Requests
<1> QED
  BY <1>1, TypedInit, TypedStep, PTL DEF Spec

\* What was validated is what the next reader, GetBody and ContentLength give,
\* after any sequence of reads, assignments, validations and conversions.
THEOREM ForwardsWhatItValidated == Spec => []ValidatedIsForwarded
<1> DEFINE Inv == Typed /\ (touched = "no" /\ report.of # None => Forwards(request, report.of))
<1>1. Init => Inv
  BY TypedInit DEF Init
<1>2. Inv /\ [Next]_vars => Inv'
  <2> SUFFICES ASSUME Inv, [Next]_vars, touched' = "no", report'.of # None
               PROVE  Forwards(request, report.of)'
    BY TypedStep
  <2>1. CASE Validate
    <3>1. PICK r \in Prepared : \/ request' = r /\ report'.of = None
                                \/ request' = AfterRead(r) /\ report'.of = ReadBody(r)
      BY <2>1, ValidateStep DEF EndsOrReads
    <3>2. Forwards(AfterRead(r), ReadBody(r))
      BY PreparedTyped
    <3> QED
      BY <3>1, <3>2 DEF Forwards
  <2>2. CASE UNCHANGED vars
    BY <2>2 DEF vars, Forwards
  <2> QED
    BY <2>1, <2>2, ChainStep DEF Next
<1>3. Inv => ValidatedIsForwarded
  BY DEF Forwards, ValidatedIsForwarded
<1> QED
  BY <1>1, <1>2, <1>3, PTL DEF Spec

\* Reading on and converting stay within what a content leads to.
LEMMA DerivedClosed ==
  ASSUME NEW content \in Contents, NEW type, NEW c \in Derived(content, type)
  PROVE  /\ c \in Contents
         /\ Rest[c] \in Derived(content, type)
         /\ Conversions(type, c) \subseteq Derived(content, type)
<1>1. c \in Contents /\ Rest[c] \in Contents /\ Conversions(type, c) \subseteq Contents
  BY BodyAssumption, ConversionsTyped DEF Derived
<1> QED
  BY <1>1 DEF Derived, Closed

\* Nothing and the content itself are among it.
LEMMA DerivedFrom ==
  ASSUME NEW content \in Contents, NEW type
  PROVE  Empty \in Derived(content, type) /\ content \in Derived(content, type)
BY BodyAssumption DEF Derived, Closed

\* What a body derived from sent gives is derived from sent.
LEMMA ReadDerived ==
  ASSUME NEW content \in Contents, NEW type, NEW r \in Requests,
         r.body.content \in Derived(content, type)
  PROVE  /\ ReadBody(r) \in Derived(content, type)
         /\ AfterRead(r).body.content \in Derived(content, type)
<1>1. Remaining(r.body) \in Derived(content, type)
  BY DerivedClosed, DerivedFrom DEF Remaining
<1>2. ReadBody(r) \in Derived(content, type)
  BY <1>1, ReadBodyCases
<1>3. CASE r.body.kind = "nil"
  BY <1>2, <1>3, AfterReadForwards
<1>4. CASE r.body.kind # "nil"
  <2>1. AfterRead(r).body = NewBody("reader", ReadBody(r))
    <3>1. ReadBody(r) \in Contents /\ AfterRead(r) = SetRequestBody(r, ReadBody(r))
      BY <1>4, AfterReadForwards, ReadBodyCases
    <3> QED
      BY <3>1, SetBodyReadsBack
  <2> QED
    BY <1>2, <2>1 DEF NewBody
<1> QED
  BY <1>2, <1>3, <1>4

\* A stale GetBody is never validated, wherever the request's body came from.
THEOREM NeverValidatesStale == Spec => []NeverStale
<1> DEFINE Inv == /\ Typed
                  /\ request.body.content \in Derived(sent, request.type)
                  /\ touched = "no" /\ report.of # None => report.of \in Derived(sent, request.type)
<1>1. Init => Inv
  <2> SUFFICES ASSUME Init PROVE Inv
    OBVIOUS
  <2>1. request.body.content = sent /\ touched = "changed" /\ Typed
    BY TypedInit DEF Init
  <2> QED
    BY <2>1, DerivedFrom DEF Typed
<1>2. Inv /\ [Next]_vars => Inv'
  <2> SUFFICES ASSUME Inv, [Next]_vars
               PROVE  /\ request'.body.content \in Derived(sent', request'.type)
                      /\ touched' = "no" /\ report'.of # None =>
                           report'.of \in Derived(sent', request'.type)
    BY TypedStep DEF Derived, Closed, Conversions
  <2> DEFINE D == Derived(sent, request.type)
  <2>1. sent \in Contents /\ request \in Requests /\ request.body.content \in D
    BY DEF Typed
  <2>2. CASE Validate
    <3>1. PICK r \in Prepared : \/ request' = r /\ report'.of = None
                                \/ request' = AfterRead(r) /\ report'.of = ReadBody(r)
      BY <2>2, ValidateStep DEF EndsOrReads
    <3>2. r \in Requests /\ sent' = sent /\ request'.type = request.type
      BY <2>2, <3>1, PreparedTyped, ValidateStep, ValidateTypes
    <3>3. r.body.content \in D
      <4>1. CASE r = request
        BY <2>1, <4>1
      <4>2. ASSUME NEW c \in Conversions(request.type, ReadBody(request)),
                   r = SetRequestBody(AfterRead(request), c)
            PROVE  r.body.content \in D
        <5>1. ReadBody(request) \in D
          BY <2>1, ReadDerived
        <5>2. c \in D /\ c \in Contents
          BY <2>1, <5>1, DerivedClosed
        <5>3. r.body = NewBody("reader", c)
          BY <2>1, <4>2, <5>2, AfterReadForwards, SetBodyReadsBack
        <5> QED
          BY <5>2, <5>3 DEF NewBody
      <4> QED
        BY <4>1, <4>2 DEF Prepared
    <3>4. ReadBody(r) \in D /\ AfterRead(r).body.content \in D
      BY <2>1, <3>2, <3>3, ReadDerived
    <3> QED
      BY <3>1, <3>2, <3>3, <3>4
  <2>3. CASE Consume \/ ConsumePart
    <3>1. touched' # "no" /\ sent' = sent /\ request'.type = request.type
      BY <2>3, ChainStep DEF Consume, ConsumePart
    <3>2. request'.body.content = request.body.content
      BY <2>1, <2>3 DEF Consume, ConsumePart, Requests, Bodies
    <3> QED
      BY <2>1, <3>1, <3>2
  <2>4. ASSUME NEW k \in {"stream", "reader"}, NEW c \in Contents, Assign(k, c)
        PROVE  touched' # "no" /\ request'.body.content \in Derived(sent', request'.type)
    <3>1. sent' = c /\ request'.body.content = c /\ touched' = "changed"
      BY <2>1, <2>4 DEF Assign, NewBody, Requests
    <3> QED
      BY <3>1, DerivedFrom
  <2>5. CASE UNCHANGED vars
    BY <2>1, <2>5 DEF vars
  <2> QED
    BY <2>2, <2>3, <2>4, <2>5 DEF Next
<1>3. Inv => NeverStale
  BY DEF NeverStale
<1> QED
  BY <1>1, <1>2, <1>3, PTL DEF Spec

\* A JSON request that was validated, and perhaps read since, still has what was
\* validated, and the media type and the verdict follow from that.
JsonInv ==
  request.type \in JsonTypes /\ touched \in {"no", "read"} /\ report.of # None =>
    LET media == ExtractContentType(operation, request.type)
    IN  /\ operation # None /\ media # None /\ media.schema \notin {"none", "broken"}
        /\ report = Report(Judge(report.of, operation.required), report.of, media.range)
        /\ ReadBody(request) = report.of
        /\ request.body.kind # "nil" =>
             /\ request.body.kind = "reader"
             /\ request.body.content = report.of
             /\ request.getBody = report.of

\* A reader that GetBody replays reads the same from its start and at its end.
LEMMA Replays ==
  ASSUME NEW r \in Requests, r.body.kind = "reader", r.getBody = r.body.content,
         r.body.at \in {"start", "end"}
  PROVE  ReadBody(r) = r.body.content
<1>1. r.body.content \in Contents
  BY DEF Requests, Bodies
<1> QED
  BY <1>1, BodyAssumption DEF ReadBody, Remaining, Snapshot

\* A validation of a JSON request establishes JsonInv.
LEMMA JsonEstablished ==
  ASSUME Typed, request.type \in JsonTypes, Validate, report'.of # None
  PROVE  JsonInv'
<1> DEFINE media == ExtractContentType(operation, request.type)
<1>1. request \in Requests /\ request.type # None /\ request.type \notin Convertible
  BY BodyAssumption DEF Typed
<1>2. CheckJson
  BY <1>1 DEF Validate, Accept, RejectType, CheckConverted, Unread, Report
<1>3. /\ operation # None /\ media # None /\ media.schema \notin {"none", "broken"}
      /\ report' = Report(Judge(ReadBody(request), operation.required), ReadBody(request), media.range)
      /\ request' = AfterRead(request)
      /\ UNCHANGED operation
  BY <1>2 DEF CheckJson, ValidateRequestSchema, Report, Validate
<1>4. request'.type = request.type /\ report'.of = ReadBody(request)
  BY <1>1, <1>3, AfterReadForwards DEF Report
<1>5. /\ ReadBody(request') = ReadBody(request)
      /\ request'.body.kind # "nil" =>
           /\ request'.body.kind = "reader"
           /\ request'.body.content = ReadBody(request)
           /\ request'.getBody = ReadBody(request)
  <2>1. CASE request.body.kind = "nil"
    BY <1>1, <1>3, <2>1, AfterReadForwards
  <2>2. CASE request.body.kind # "nil"
    <3>1. ReadBody(request) \in Contents
      BY <1>1, ReadBodyCases
    <3>2. /\ request' \in Requests
          /\ request'.body = NewBody("reader", ReadBody(request))
          /\ request'.getBody = ReadBody(request)
      BY <1>1, <1>3, <2>2, <3>1, AfterReadForwards, SetBodyReadsBack
    <3> QED
      BY <3>2, Replays DEF NewBody
  <2> QED
    BY <2>1, <2>2
<1> QED
  BY <1>3, <1>4, <1>5 DEF JsonInv

\* A JSON request can be validated again and again, read or not in between, with
\* the same verdict on the same content.
THEOREM VerdictIsStable == Spec => VerdictStable
<1> DEFINE Inv == Typed /\ JsonInv
<1>1. Init => Inv
  BY TypedInit DEF Init, JsonInv
<1>2. Inv /\ [Next]_vars => Inv'
  <2> SUFFICES ASSUME Inv, [Next]_vars PROVE JsonInv'
    BY TypedStep
  <2>1. CASE Validate
    BY <2>1, ValidateTypes, JsonEstablished DEF JsonInv
  <2>2. CASE Consume
    <3> SUFFICES ASSUME request'.type \in JsonTypes, touched' \in {"no", "read"},
                        report'.of # None
                 PROVE  JsonInv'
      BY DEF JsonInv
    <3>1. /\ request \in Requests /\ request' \in Requests /\ request.body.kind # "nil"
          /\ UNCHANGED <<operation, report>> /\ touched \in {"no", "read"}
          /\ request'.type = request.type /\ request'.getBody = request.getBody
      BY <2>2, ChainStep DEF Consume, Typed, Touched
    <3>2. /\ request'.body.kind = request.body.kind /\ request'.body.at = "end"
          /\ request'.body.content = request.body.content
      BY <2>2, <3>1 DEF Consume, Requests, Bodies
    <3>3. ReadBody(request') = report.of
      BY <3>1, <3>2, Replays DEF JsonInv
    <3> QED
      BY <3>1, <3>2, <3>3 DEF JsonInv
  <2>3. CASE ConsumePart \/ \E k \in {"stream", "reader"}, c \in Contents : Assign(k, c)
    BY <2>3 DEF ConsumePart, Assign, JsonInv
  <2>4. CASE UNCHANGED vars
    BY <2>4 DEF vars, JsonInv
  <2> QED
    BY <2>1, <2>2, <2>3, <2>4 DEF Next
<1>3. Inv /\ [Next]_vars =>
        [request.type \in JsonTypes /\ report.of # None
           /\ touched \in {"no", "read"} /\ touched' = "no"
         => UNCHANGED report]_vars
  <2> SUFFICES ASSUME Inv, Next, request.type \in JsonTypes, report.of # None,
                      touched \in {"no", "read"}, touched' = "no"
               PROVE  UNCHANGED report
    BY DEF vars
  <2>1. Validate
    BY ChainStep DEF Next
  <2>2. request.type # None /\ request.type \notin Convertible
    BY BodyAssumption DEF Typed
  <2>3. CheckJson
    BY <2>1, <2>2 DEF Validate, Accept, RejectType, CheckConverted, JsonInv
  <2> QED
    BY <2>3 DEF CheckJson, ValidateRequestSchema, JsonInv
<1> QED
  BY <1>1, <1>2, <1>3, PTL DEF Spec, VerdictStable

--------------------------------------------------------------------------------
(* The media type and the verdict.                                         *)

\* A set of places in a sequence has a first one.
LEMMA HasLeast ==
  ASSUME NEW S \in SUBSET Nat, S # {}
  PROVE  \E i \in S : \A j \in S : i <= j
<1>1. \A i, j \in Nat : i < j => <<i, j>> \in OpToRel(<, Nat)
  BY DEF OpToRel
<1>2. \E i \in S : \A j \in S : <<j, i>> \notin OpToRel(<, Nat)
  BY NatLessThanWellFounded, WFMin
<1>3. \E i \in S : \A j \in S : ~(j < i)
  BY <1>1, <1>2, Zenon
<1> QED
  BY <1>3

\* extractContentType gives a media type that governs the request, if any does.
LEMMA ExtractGoverning ==
  ASSUME Typed, operation # None
  PROVE  LET media == ExtractContentType(operation, request.type)
         IN  /\ Governing = {} => media = None
             /\ Governing # {} => media # None /\ \E k \in Governing : media = operation.content[k]
<1>1. /\ Governing \subseteq DOMAIN operation.content
      /\ DOMAIN operation.content \subseteq Nat
      /\ \A i \in DOMAIN operation.content : operation.content[i] # None
  BY BodyAssumption DEF Typed, Governing
<1>2. ExtractContentType(operation, request.type) =
        IF Governing = {} THEN None
        ELSE operation.content[CHOOSE i \in Governing : \A j \in Governing : i <= j]
  BY DEF ExtractContentType, Governing
<1>3. Governing # {} => \E i \in Governing : \A j \in Governing : i <= j
  BY <1>1, HasLeast
<1> QED
  BY <1>1, <1>2, <1>3

\* Judge is what conforming to a schema means.
LEMMA JudgeConforms ==
  ASSUME NEW c, NEW required
  PROVE  Judge(c, required) = "valid"
           <=> IF c = Empty THEN ~required ELSE c \in Accepted
BY DEF Judge

\* After a validation that read a JSON request the next reader gets what it read.
LEMMA AfterReadRemains ==
  ASSUME NEW r \in Requests
  PROVE  Remaining(AfterRead(r).body) = ReadBody(r)
<1>1. CASE r.body.kind = "nil"
  BY <1>1, AfterReadForwards DEF Remaining
<1>2. CASE r.body.kind # "nil"
  <2>1. ReadBody(r) \in Contents /\ AfterRead(r) = SetRequestBody(r, ReadBody(r))
    BY <1>2, AfterReadForwards, ReadBodyCases
  <2>2. AfterRead(r).body = NewBody("reader", ReadBody(r))
    BY <2>1, SetBodyReadsBack
  <2> QED
    BY <2>1, <2>2, NewBodyReadsBack DEF Kinds
<1> QED
  BY <1>1, <1>2

\* ValidateRequestSchema accepts what its reader will get if and only if that
\* conforms to the schema.
LEMMA SchemaVerdict ==
  ASSUME NEW r \in Requests, NEW k \in Governing, operation.content[k].schema # "none",
         ValidateRequestSchema(r, operation.content[k]), UNCHANGED operation
  PROVE  report'.verdict = "valid" <=> Conforms(k)'
<1> DEFINE media == operation.content[k]
<1>1. CASE media.schema = "broken"
  BY <1>1 DEF ValidateRequestSchema, Report, Conforms
<1>2. CASE media.schema # "broken"
  <2>1. /\ report'.verdict = Judge(ReadBody(r), operation.required)
        /\ request' = AfterRead(r)
    BY <1>2 DEF ValidateRequestSchema, Report
  <2>2. Remaining(request'.body) = ReadBody(r)
    BY <2>1, AfterReadRemains
  <2>3. Conforms(k)' <=>
          IF ReadBody(r) = Empty THEN ~operation.required ELSE ReadBody(r) \in Accepted
    BY <1>2, <2>2 DEF Conforms
  <2> QED
    BY <2>1, <2>3, JudgeConforms
<1> QED
  BY <1>1, <1>2

\* A request is accepted only if what is handled conforms to a media type that
\* governs it, and a JSON request is accepted if it conforms to all of those.
THEOREM VerdictIsConformance == Spec => []VerdictConforms
<1> DEFINE Inv == Typed /\ VerdictConforms
<1>1. Init => Inv
  BY TypedInit DEF Init, VerdictConforms
<1>2. Inv /\ [Next]_vars => Inv'
  <2> SUFFICES ASSUME Inv, [Next]_vars PROVE VerdictConforms'
    BY TypedStep
  <2> DEFINE Sound == report'.verdict = "valid" => \E i \in Governing' : Conforms(i)'
             Complete == Governing' # {} /\ (\A i \in Governing' : Conforms(i)') =>
                           report'.verdict = "valid"
  <2>1. ASSUME Validate, operation # None, request'.type \in JsonTypes \cup Convertible
        PROVE  Sound /\ (request'.type \in JsonTypes => Complete)
    <3> DEFINE media == ExtractContentType(operation, request.type)
    <3>1. /\ request \in Requests /\ request'.type = request.type /\ UNCHANGED operation
          /\ request.type # None
      BY <2>1, ValidateTypes, BodyAssumption DEF Typed, Validate
    <3>2. Governing' = Governing
      BY <3>1 DEF Governing
    <3>3. CASE Accept
      <4>1. media # None /\ media.schema = "none"
        BY <2>1, <3>1, <3>3 DEF Accept
      <4>2. PICK k \in Governing : media = operation.content[k]
        BY <2>1, <4>1, ExtractGoverning
      <4>3. Conforms(k)'
        BY <3>1, <4>1, <4>2 DEF Conforms
      <4>4. report'.verdict = "valid"
        BY <3>3 DEF Accept, Unread, Report
      <4> QED
        BY <3>2, <4>2, <4>3, <4>4
    <3>4. CASE RejectType
      <4>1. media = None /\ report'.verdict = "invalid"
        BY <3>1, <3>4 DEF RejectType, Unread, Report
      <4> QED
        BY <2>1, <3>2, <4>1, ExtractGoverning
    <3>5. ASSUME NEW r \in Requests, media # None, media.schema # "none",
                 ValidateRequestSchema(r, media)
          PROVE  Sound /\ Complete
      <4>1. PICK k \in Governing : media = operation.content[k]
        BY <2>1, <3>5, ExtractGoverning
      <4>2. report'.verdict = "valid" <=> Conforms(k)'
        BY <3>1, <3>5, <4>1, SchemaVerdict
      <4> QED
        BY <3>2, <4>1, <4>2
    <3>6. CASE CheckJson
      BY <3>1, <3>5, <3>6 DEF CheckJson
    <3>7. CASE CheckConverted
      <4> DEFINE converted == ToJson[request.type][ReadBody(request)]
                 r == SetRequestBody(AfterRead(request), converted)
      <4>1. request'.type \notin JsonTypes
        BY <3>1, <3>7, BodyAssumption DEF CheckConverted
      <4>2. media # None /\ media.schema # "none"
        BY <3>7 DEF CheckConverted
      <4>3. CASE ValidateRequestSchema(request, media)
        BY <3>1, <3>5, <4>1, <4>2, <4>3
      <4>4. CASE report' = Report("invalid", ReadBody(request), media.range)
        <5>1. report'.verdict = "invalid"
          BY <4>4 DEF Report
        <5> QED
          BY <4>1, <5>1
      <4>5. CASE converted # None /\ ValidateRequestSchema(r, media)
        <5>1. converted \in Conversions(request.type, ReadBody(request))
          BY <3>7, <4>5 DEF CheckConverted, Conversions
        <5>2. r \in Requests
          BY <3>1, <5>1, ConversionsTyped, ReadBodyCases, AfterReadForwards, SetBodyReadsBack
        <5> QED
          BY <3>5, <4>1, <4>2, <4>5, <5>2
      <4> QED
        BY <3>7, <4>3, <4>4, <4>5 DEF CheckConverted
    <3> QED
      BY <2>1, <3>3, <3>4, <3>6, <3>7 DEF Validate
  <2>2. CASE Validate
    BY <2>1, <2>2 DEF VerdictConforms, Validate
  <2>3. CASE UNCHANGED vars
    BY <2>3 DEF vars, VerdictConforms, Governing, Conforms
  <2> QED
    BY <2>2, <2>3, ChainStep DEF Next, VerdictConforms
<1> QED
  BY <1>1, <1>2, PTL DEF Spec
================================================================================
