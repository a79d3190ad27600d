----------------------------- MODULE MCResponseBody -----------------------------
(* Contents, types and contracts for the instances of ResponseBody. *)
EXTENDS ResponseBody, TLC

\* good and bad decode, the schema accepts good; encoded is XML or a form that
\* converts to good.  Anything is a form, no text one without fields.
MCContents == {"", "null", "good", "bad", "encoded"}
MCToJson ==
  ("xml" :> [c \in MCContents |-> IF c = "encoded" THEN "good" ELSE None])
  @@ ("form" :> [c \in MCContents |-> IF c = "encoded" THEN "good" ELSE "bad"])

MCTypes == {"json", "json;v=1", "xml", "form", "text"}
MCStripped == [t \in MCTypes |-> IF t = "json;v=1" THEN "json" ELSE t]
MCRangeOf == ("200" :> "2XX") @@ ("204" :> "2XX") @@ ("500" :> "5XX")

Entry(content, headers) == [content |-> content, headers |-> headers]
Ok == Entry(("json" :> "good") @@ ("xml" :> "good") @@ ("form" :> "good"), "H" :> "required")
Loose == Entry(("json" :> "none") @@ ("text" :> "good"), "H" :> "optional")
Bare == Entry(None, None)
Headless == Entry("json" :> "good", <<>>)
Unusable == Entry("json" :> "broken", ("H" :> "required") @@ ("I" :> "optional"))

Contract(codes, default) == [codes |-> codes, default |-> default]
MCContracts ==
  {Contract(("200" :> Ok), None),
   Contract(("200" :> Loose), Entry(<<>>, "H" :> "required")),
   Contract(("200" :> Unusable) @@ ("2XX" :> Loose), Ok),
   Contract(("2XX" :> Ok), Loose),
   Contract(("204" :> Bare) @@ ("5XX" :> Ok), Unusable),
   Contract(("2XX" :> Unusable) @@ ("500" :> Headless), Bare)}
================================================================================
