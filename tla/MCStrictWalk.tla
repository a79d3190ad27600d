------------------------------ MODULE MCStrictWalk ------------------------------
(***************************************************************************)
(* Bodies of up to three levels, and two dozen schemas: cyclic, closed,    *)
(* with patterns, with conditions, tuples, and each combination of schemas *)
(* alone and with another.                                                 *)
(***************************************************************************)
EXTENDS StrictWalk, TLC

MCItemName == <<"0", "1">>
MCNames == {"id", "tag", "kids"} \cup Range(MCItemName)

--------------------------------------------------------------------------------
(* Schemas.  type, required and text are of JSON Schema only.              *)

Anything == [type |-> "any", required |-> {}, text |-> {"x", "y", "z"},
             props |-> <<>>, patterns |-> <<>>, additional |-> "absent",
             dependent |-> <<>>, if |-> "none", then |-> "none", else |-> "none",
             allOf |-> <<>>, oneOf |-> <<>>, anyOf |-> <<>>,
             discriminator |-> "none", mapping |-> <<>>, hiddenIn |-> {},
             prefixItems |-> <<>>, items |-> "absent", unevaluatedItems |-> "none"]

MCSchemas == {"any", "text", "stamp", "pin", "node", "nodes", "pair", "tuple", "leaf", "shut",
              "map", "tagged", "named", "cond", "listed", "all", "label", "cat", "dog",
              "kitten", "puppy", "one", "some", "both", "pack"}

Object(props) == [type |-> "object", props |-> props]
Array(items) == [type |-> "array", items |-> items]

\* What a schema says; for the rest it is Anything.
Written ==
  "any"   :> <<>> @@
  "text"  :> [type |-> "text"] @@
  "stamp" :> [type |-> "text", hiddenIn |-> {"request"}] @@
  "pin"   :> [hiddenIn |-> {"response"}] @@
  "node"  :> Object("id" :> "text" @@ "kids" :> "nodes") @@
  "nodes" :> Array("node") @@
  "pair"  :> [type |-> "array", prefixItems |-> <<"node">>, unevaluatedItems |-> "leaf"] @@
  "tuple" :> (Array("false") @@ [prefixItems |-> <<"leaf">>]) @@
  "leaf"  :> Object("id" :> "text") @@
  "shut"  :> (Object("id" :> "text" @@ "kids" :> "pair") @@
                [patterns |-> "tag" :> "leaf", additional |-> "false"]) @@
  "map"   :> (Object("id" :> "stamp") @@ [additional |-> "leaf"]) @@
  "tagged" :> (Object("tag" :> "pin" @@ "kids" :> "nodes") @@ [required |-> {"tag"}]) @@
  "named" :> (Object("id" :> "text") @@ [required |-> {"id"}]) @@
  "cond"  :> (Object("id" :> "stamp") @@
                [dependent |-> <<[trigger |-> "tag", schema |-> "tagged"]>>,
                 if |-> "named", then |-> "listed", else |-> "any"]) @@
  "listed" :> Object("kids" :> "nodes") @@
  "all"   :> (Object("kids" :> "nodes") @@ [allOf |-> <<"named", "label">>]) @@
  "label" :> Object("tag" :> "leaf") @@
  "cat"   :> (Object("id" :> "kitten" @@ "tag" :> "leaf") @@ [required |-> {"id"}]) @@
  "dog"   :> (Object("id" :> "puppy" @@ "tag" :> "any") @@ [required |-> {"id"}]) @@
  "kitten" :> [text |-> {"x"}] @@
  "puppy" :> [text |-> {"y"}] @@
  "one"   :> (Object("kids" :> "pair") @@
                [oneOf |-> <<"cat", "dog">>, discriminator |-> "id",
                 mapping |-> "x" :> "cat" @@ "y" :> "dog"]) @@
  "some"  :> (Object("kids" :> "nodes") @@ [anyOf |-> <<"cat", "tagged">>]) @@
  "both"  :> [allOf |-> <<"named", "label">>, oneOf |-> <<"cat", "dog">>] @@
  "pack"  :> Object("kids" :> "tuple")

MCSchema ==
  LET Completed(rule) == rule @@ Anything
  IN  [s \in MCSchemas |-> Completed(Written[s])]

--------------------------------------------------------------------------------
(* JSON Schema: whether a schema accepts the value at a path.              *)

RECURSIVE Accepts(_, _, _), Obeys(_, _, _)
Accepts(s, doc, p) == Obeys(doc, p, Schema[s])

Obeys(doc, p, rule) ==
  LET kind == IF doc[p] \in {"object", "array"} THEN doc[p] ELSE "text"
      members == {n \in MCNames : Append(p, n) \in DOMAIN doc}
      length == Cardinality(members)
      Under(n, t) == Accepts(t, doc, Append(p, n))
      Here(t) == Accepts(t, doc, p)
      extra == members \ (DOMAIN rule.props \cup DOMAIN rule.patterns)
  IN  /\ rule.type \in {"any", kind}
      /\ kind = "text" => doc[p] \in rule.text \cup {"null"}
      /\ doc[p] = "null" => rule.type = "any"
      /\ kind = "object" =>
           /\ rule.required \subseteq members
           /\ \A n \in members \cap DOMAIN rule.props : Under(n, rule.props[n])
           /\ \A n \in members \cap DOMAIN rule.patterns : Under(n, rule.patterns[n])
           /\ rule.additional = "false" => extra = {}
           /\ rule.additional \in Schemas => \A n \in extra : Under(n, rule.additional)
           /\ \A i \in DOMAIN rule.dependent :
                rule.dependent[i].trigger \in members => Here(rule.dependent[i].schema)
           /\ rule.if # "none" => Here(IF Here(rule.if) THEN rule.then ELSE rule.else)
      /\ kind = "array" =>
           \A i \in 1 .. length :
             LET n == MCItemName[i]
             IN  IF i <= Len(rule.prefixItems) THEN Under(n, rule.prefixItems[i])
                 ELSE /\ rule.items # "false"
                      /\ rule.items \in Schemas => Under(n, rule.items)
                      /\ rule.items = "absent" /\ rule.unevaluatedItems # "none" =>
                           Under(n, rule.unevaluatedItems)
      /\ \A t \in Range(rule.allOf) : Here(t)
      /\ rule.oneOf # <<>> => Cardinality({t \in Range(rule.oneOf) : Here(t)}) = 1
      /\ rule.anyOf # <<>> => \E t \in Range(rule.anyOf) : Here(t)

--------------------------------------------------------------------------------
(* Bodies.                                                                 *)

Value(v) == <<>> :> v
Under(n, doc) == [p \in {<<n>> \o q : q \in DOMAIN doc} |-> doc[Tail(p)]]
Joined(docs) == FoldFunction(LAMBDA f, g : f @@ g, <<>>, docs)

\* An object with some of these members, an array of these items.
Objects(members, Options(_)) ==
  UNION {{Value("object") @@ Joined([n \in ns |-> Under(n, f[n])]) :
            f \in {g \in [ns -> UNION {Options(n) : n \in ns}] : \A n \in ns : g[n] \in Options(n)}} :
         ns \in SUBSET members}
Arrays(items) ==
  {Value("array")} \cup {Value("array") @@ Under("0", d) : d \in items}
    \cup {Value("array") @@ Under("0", d) @@ Under("1", Value("object")) : d \in items}

Bare == Value("object")
Known == Value("object") @@ Under("id", Value("x"))
Extra == Value("object") @@ Under("id", Value("y")) @@ Under("tag", Value("null"))
Deep == Value("object") @@ Under("kids", Value("array") @@ Under("0", Extra))

Member(n) == CASE n = "id" -> {Value("x"), Value("y")}
               [] n = "tag" -> {Value("x"), Value("null"), Known, Extra}
               [] n = "kids" -> Arrays({Known, Extra}) \cup {Value("array") @@ Under("0", Deep)}
Bodies == Objects({"id", "tag", "kids"}, Member) \cup {Value("null")}

Roots == {"node", "shut", "map", "cond", "all", "one", "some", "both", "pack"}

MCAccepted == [doc \in Bodies |-> {<<s, p>> \in MCSchemas \X DOMAIN doc : Accepts(s, doc, p)}]

MCTasks ==
  {t \in [root : Roots, doc : Bodies, direction : Direction, reject : BOOLEAN,
          ignore : {{}, {<<"kids", "0">>}, {<<"tag">>}}] :
     /\ Matches(t.root, t.doc, <<>>)
     /\ t.ignore \subseteq DOMAIN t.doc
     /\ t.ignore # {} => t.direction = "request" /\ ~t.reject}
================================================================================
