------------------------------ MODULE MCEntryPoints -----------------------------
(***************************************************************************)
(* Errors, sort keys and a calling order for the instance of EntryPoints.  *)
(***************************************************************************)
EXTENDS EntryPoints

CONSTANTS e1, e2, e3, e4, e5, e6, e7, e8, e9

MCOrder == <<"cookie", "header", "query">>

\* The query validator reports two errors, the others one; the cookie and the
\* header error share a sort key.
MCErrorsOf ==
  [v \in Validator |->
     CASE v = "path" -> <<e1>>
       [] v = "cookie" -> <<e2>>
       [] v = "header" -> <<e3>>
       [] v = "query" -> <<e4, e5>>
       [] v = "security" -> <<e6>>
       [] v = "body" -> <<e7>>
       [] v = "router" -> <<e8>>
       [] v = "response" -> <<e9>>]


MCKey ==
  [e \in {e1, e2, e3, e4, e5, e6, e7, e8, e9} |->
     CASE e = e1 -> 5 [] e = e2 -> 3 [] e = e3 -> 3 [] e = e4 -> 6 [] e = e5 -> 2
       [] e = e6 -> 7 [] e = e7 -> 1 [] e = e8 -> 0 [] e = e9 -> 0]
================================================================================
