--------------------------- MODULE MCParamExtraction ---------------------------
(* A path item with three parameters, whose slice grew to four places. *)
EXTENDS ParamExtraction, TLC

MCPathParams == <<"p1", "p2", "p3">>
MCOpParams == ("GET" :> <<"g">>) @@ ("POST" :> <<"b">>) @@ ("PUT" :> <<"u", "v">>)
================================================================================
