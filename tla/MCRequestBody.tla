----------------------------- MODULE MCRequestBody -----------------------------
(* Contents, media types and operations for the instances of RequestBody. *)
EXTENDS RequestBody, TLC

\* good and bad decode, the schema accepts good; half is what is left of either
\* and does not decode; encoded is XML or a form that converts to good.
MCContents == {"", "good", "bad", "half", "encoded"}
MCRest ==
  [c \in MCContents |-> IF c \in {"good", "bad"} THEN "half" ELSE ""]

json == <<"application", "json">>
xml == <<"application", "xml">>
form == <<"application", "x-www-form-urlencoded">>
text == <<"text", "plain">>
MCMediaTypes == {json, xml, form, text}
MCJsonTypes == {json}
MCConvertible == {xml, form}

\* Nothing but encoded is XML.  As a form, no text has no fields, JSON text has one
\* of an odd name, neither of which the schema accepts, and half does not parse.
FormToJson == ("encoded" :> "good") @@ ("half" :> None) @@ [c \in MCContents |-> "bad"]
XmlToJson == ("encoded" :> "good") @@ [c \in MCContents |-> None]
MCToJson == (form :> FormToJson) @@ (xml :> XmlToJson)

Media(range, schema) == [range |-> range, schema |-> schema]
MCContentMaps ==
  {<<Media(json, "good")>>,
   <<Media(<<"application", "*">>, "good"), Media(json, "none")>>,
   <<Media(<<"*", "*">>, "good"), Media(xml, "broken"), Media(text, "good")>>,
   <<Media(xml, "good"), Media(<<"*", "json">>, "good"), Media(form, "good")>>}
MCOperations == [content : MCContentMaps, required : BOOLEAN]
================================================================================
