------------------------------ MODULE MCPathLookup ------------------------------
(* Documents of up to three templates and the requests made to them. *)
EXTENDS PathLookup

Get == {"GET"}
Post == {"POST"}
Item(path, methods) == [path |-> path, methods |-> methods]

MCWords == {"", "a", "b", "7"}
MCAccepts ==
  ("{x}" :> MCWords) @@ ("{y}" :> MCWords) @@ ("{n}" :> {"7"}) @@ ("k{x}" :> {"a"})

DocumentsOver(items) ==
  {d \in UNION {[1..n -> items] : n \in 1..3} : IsInjective([i \in DOMAIN d |-> d[i].path])}

\* Plain templates: literals and unconstrained parameters, up to three deep.
PlainItems ==
  {Item(<<"a">>, Get), Item(<<"{x}">>, Post), Item(<<"a", "{x}">>, Get),
   Item(<<"{x}", "b">>, Get \cup Post), Item(<<"a", "b">>, Post),
   Item(<<"{x}", "{y}">>, Get), Item(<<"a", "{x}", "{y}">>, Get),
   Item(<<"{x}", "b", "a">>, Get), Item(<<"{y}", "b", "{x}">>, Post)}

\* A pattern and composite segments, which only the regex understands.
PatternItems ==
  {Item(<<"a", "{n}">>, Get), Item(<<"k{x}", "b">>, Get), Item(<<"k{x}", "{n}">>, Post),
   Item(<<"a", "b">>, Post), Item(<<"{x}", "{y}">>, Post)}

MCDocuments == DocumentsOver(PlainItems) \cup DocumentsOver(PatternItems)

PathsOver(words, n) == UNION {[1..k -> words] : k \in 1..n}
MCDensePaths == PathsOver({"a", "b", "7"}, 3)
================================================================================
