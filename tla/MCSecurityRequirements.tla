------------------------- MODULE MCSecurityRequirements -------------------------
(* Schemes and requirements for the instances of SecurityRequirements. *)
EXTENDS SecurityRequirements, TLC

\* token is sent in a header of its own, bearer in Authorization; openid is of a
\* type the validator does not know, form is a key in a place it does not know,
\* ghost is not in the components.
MCNames == {"token", "bearer", "openid", "form", "ghost"}
MCSchemeOf ==
  ("token" :> [type |-> "apiKey", in |-> "header", arg |-> "x-token"])
    @@ ("bearer" :> [type |-> "http", in |-> "", arg |-> "authorization"])
    @@ ("openid" :> [type |-> "openIdConnect", in |-> "", arg |-> ""])
    @@ ("form" :> [type |-> "apiKey", in |-> "body", arg |-> "x-form"])

Requirement(schemes) == [schemes |-> schemes, empty |-> FALSE]
MCRequirements ==
  {Requirement(<<"token">>), Requirement(<<"bearer", "token">>), Requirement(<<"openid">>),
   Requirement(<<"form", "token">>), Requirement(<<"ghost", "bearer">>), [schemes |-> <<>>, empty |-> TRUE]}
MCOperationSecurities == UNION {[1..n -> MCRequirements] : n \in 0..2} \cup {None}
MCDocumentSecurities == {None, <<>>, <<Requirement(<<"token">>)>>}

\* Header credentials, and the schemes a function of the user's accepts.
MCCredentials == {"x-token", "authorization", "token", "bearer", "openid", "form"}
================================================================================
