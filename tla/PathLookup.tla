------------------------------- MODULE PathLookup -------------------------------
(***************************************************************************)
(* Routing: the radix tree the constructor fills (radix/tree.go), FindPath *)
(* with its regex fallback (paths/paths.go, paths/specificity.go).         *)
(*                                                                         *)
(* A path is the sequence of its segments after the leading slash, empty   *)
(* ones included: /a//b/ is <<"a", "", "b", "">>.  A template segment is a *)
(* literal word or has braces; what its regular expression accepts is      *)
(* given by Accepts.  Servers and fragments are left out.                  *)
(*                                                                         *)
(* A path item is found here and its parameters are read as in             *)
(* ParamExtraction: the names differ so that both can be extended.         *)
(***************************************************************************)
EXTENDS Naturals, SequencesExt

CONSTANTS Params,      \* segments of the form {...}: the tree's parameters
          Composite,   \* other segments with braces, such as k({x})
          Accepts,     \* words accepted by the regex of each of these
          Documents,   \* sequences of [path, methods], in document order
          Paths,       \* request paths
          Verbs,       \* request methods
          None

Braced == Params \cup Composite

ASSUME LookupAssumption ==
  /\ Params \cap Composite = {}
  /\ DOMAIN Accepts = Braced
  /\ Documents \subseteq Seq([path : Seq(STRING), methods : SUBSET STRING])
  /\ \A doc \in Documents : \A i \in DOMAIN doc : doc[i] # None
  /\ Paths \subseteq Seq(STRING)
  /\ None \notin [path : Paths, method : Verbs]

VARIABLES document,   \* the path items
          inserted,   \* how many of them BuildPathTree has inserted
          tree,       \* nodes of the radix tree -> leaf; None without PathTree
          request,    \* [path, method], or None
          answer      \* [path, missing] of FindPath, or None

lookupVars == <<document, inserted, tree, request, answer>>

--------------------------------------------------------------------------------
(* radix/tree.go                                                           *)

Root == <<>>
Blank == ""        \* the segment between two slashes
AnyParam == "{}"   \* leads to the parameter child of a node
EmptyTree == [n \in {Root} |-> None]

\* splitPath: empty segments are dropped.
SplitPath(path) ==
  LET split[n \in 0..Len(path)] ==
        IF n = 0 THEN <<>>
        ELSE IF path[n] = Blank THEN split[n - 1] ELSE Append(split[n - 1], path[n])
  IN  split[Len(path)]

\* The node a template leads to; all parameters of a node share one child.
NodeOf(path) ==
  LET segs == SplitPath(path)
  IN  [i \in DOMAIN segs |-> IF segs[i] \in Params THEN AnyParam ELSE segs[i]]

\* Insert: nodes are created along the way, the leaf is set or replaced.
Inserted(t, item) ==
  LET node == NodeOf(item.path)
      along == {SubSeq(node, 1, n) : n \in 0..Len(node)}
  IN  [n \in DOMAIN t \cup along |->
         IF n = node THEN item ELSE IF n \in DOMAIN t THEN t[n] ELSE None]

\* Mutant: no backtracking out of a literal child.
WithoutBacktracking(t, path) ==
  LET segs == SplitPath(path)
      found[n \in DOMAIN t] ==
        IF Len(n) = Len(segs) THEN t[n]
        ELSE LET literal == Append(n, segs[Len(n) + 1])
                 param == Append(n, AnyParam)
             IN  IF literal \in DOMAIN t THEN found[literal]
                 ELSE IF param \in DOMAIN t THEN found[param] ELSE None
  IN  found[Root]

\* Mutant: the leaf of a node serves what is below it as well.
PrefixLookup(t, path) ==
  LET segs == SplitPath(path)
      found[n \in DOMAIN t] ==
        IF Len(n) = Len(segs) THEN t[n]
        ELSE LET literal == Append(n, segs[Len(n) + 1])
                 param == Append(n, AnyParam)
                 byLiteral == IF literal \in DOMAIN t THEN found[literal] ELSE None
                 byParam == IF param \in DOMAIN t THEN found[param] ELSE None
             IN  IF byLiteral # None THEN byLiteral
                 ELSE IF byParam # None THEN byParam ELSE t[n]
  IN  found[Root]

\* lookupRecursive: literal child first, parameter child if that finds nothing.
Lookup(t, path) ==
  LET segs == SplitPath(path)
      found[n \in {m \in DOMAIN t : Len(m) <= Len(segs)}] ==
        IF Len(n) = Len(segs) THEN t[n]
        ELSE LET literal == Append(n, segs[Len(n) + 1])
                 param == Append(n, AnyParam)
                 byLiteral == IF literal \in DOMAIN t THEN found[literal] ELSE None
             IN  IF byLiteral # None THEN byLiteral
                 ELSE IF param \in DOMAIN t THEN found[param] ELSE None
  IN  found[Root]

--------------------------------------------------------------------------------
(* paths/specificity.go, paths/paths.go                                    *)

\* A HEAD request may be answered by the GET operation.
PathHasMethod(item, method) ==
  method \in item.methods \/ (method = "HEAD" /\ "GET" \in item.methods)

Literals(path) == {i \in DOMAIN path : path[i] # Blank /\ path[i] \notin Braced}

\* Mutant: literals count as little as parameters.
FlatScore(path) == Cardinality({i \in DOMAIN path : path[i] # Blank})

\* A literal outweighs any number of parameters.
ComputeSpecificityScore(path) ==
  1000 * Cardinality(Literals(path)) + Cardinality({i \in DOMAIN path : path[i] \in Braced})

SegmentMatches(seg, word) == IF seg \in Braced THEN word \in Accepts[seg] ELSE word = seg

\* comparePaths: as many segments, and the same path once the matching ones
\* are filled in; filepath.Join drops the empty ones from both.
ComparePaths(mapped, requested) ==
  /\ Len(mapped) = Len(requested)
  /\ LET imploded == [i \in DOMAIN mapped |->
                        IF SegmentMatches(mapped[i], requested[i]) THEN requested[i] ELSE mapped[i]]
     IN  SplitPath(imploded) = SplitPath(requested)

\* selectMatches: the first of the candidates with the highest score.
Best(doc, candidates) ==
  CHOOSE i \in candidates :
    \A j \in candidates :
      LET si == ComputeSpecificityScore(doc[i].path)
          sj == ComputeSpecificityScore(doc[j].path)
      IN  si > sj \/ (si = sj /\ i <= j)

\* The regex fallback.
SlowPath(doc, path, method) ==
  LET candidates == {i \in DOMAIN doc : ComparePaths(doc[i].path, path)}
      withMethod == {i \in candidates : PathHasMethod(doc[i], method)}
  IN  IF candidates = {} THEN None
      ELSE IF withMethod # {} THEN [path |-> doc[Best(doc, withMethod)].path, missing |-> FALSE]
      ELSE [path |-> doc[Best(doc, candidates)].path, missing |-> TRUE]

\* What the tree finds is final, even without the method.
Find(t, doc, path, method) ==
  LET item == IF t = None THEN None ELSE Lookup(t, path)
  IN  IF item = None
        THEN SlowPath(doc, path, method)
        ELSE [path |-> item.path, missing |-> ~PathHasMethod(item, method)]

--------------------------------------------------------------------------------
LookupInit ==
  /\ document \in Documents
  /\ tree \in {EmptyTree, None}
  /\ inserted = IF tree = None THEN Len(document) ELSE 0
  /\ request = None
  /\ answer = None

\* BuildPathTree, in document order.
Insert ==
  /\ inserted < Len(document)
  /\ tree' = Inserted(tree, document[inserted + 1])
  /\ inserted' = inserted + 1
  /\ UNCHANGED <<document, request, answer>>

FindPath(path, method) ==
  /\ inserted = Len(document)
  /\ request = None
  /\ request' = [path |-> path, method |-> method]
  /\ answer' = Find(tree, document, path, method)
  /\ UNCHANGED <<document, inserted, tree>>

\* Mutant: the answer of one request is still there for the next.
AnswerStays ==
  /\ request # None
  /\ request' = None
  /\ UNCHANGED <<document, inserted, tree, answer>>

\* The next request finds the same tree and document.
Answered ==
  /\ request # None
  /\ request' = None
  /\ answer' = None
  /\ UNCHANGED <<document, inserted, tree>>

LookupNext ==
  \/ Insert
  \/ \E path \in Paths, method \in Verbs : FindPath(path, method)
  \/ Answered

LookupSpec == LookupInit /\ [][LookupNext]_lookupVars

--------------------------------------------------------------------------------
(* Properties.                                                             *)

LookupTypeOK ==
  /\ document \in Documents
  /\ inserted \in 0..Len(document)
  /\ tree = None \/ Root \in DOMAIN tree
  /\ request = None => answer = None

\* A template has the shape of a request: same number of non-empty segments,
\* literals equal.
ShapeMatches(path, requested) ==
  LET node == NodeOf(path)
      segs == SplitPath(requested)
  IN  /\ Len(node) = Len(segs)
      /\ \A i \in DOMAIN node : node[i] \in {AnyParam, segs[i]}

\* u is more literal than w at the first place where they differ.
LiteralFirst(u, w) ==
  \E i \in DOMAIN u :
    /\ u[i] # AnyParam /\ w[i] = AnyParam
    /\ \A j \in 1..(i - 1) : u[j] = w[j]

\* "literal (concrete) paths take precedence over parameterized paths,
\* regardless of definition order": the tree finds a template whenever one has
\* the shape of the request, what it finds has it, and none that has it is more
\* literal from the left.  Neither the insertion order nor a dead end in the
\* tree matters.
TreeFindsMostLiteral ==
  request # None /\ tree # None =>
    LET found == Lookup(tree, request.path)
        fitting == {i \in DOMAIN document : ShapeMatches(document[i].path, request.path)}
    IN  /\ found = None <=> fitting = {}
        /\ found # None => ShapeMatches(found.path, request.path)
        /\ found # None =>
             \A i \in fitting :
               \/ NodeOf(document[i].path) = NodeOf(found.path)
               \/ LiteralFirst(NodeOf(found.path), NodeOf(document[i].path))

\* With and without the tree a request is routed alike when only one template
\* of the document accepts it, and no template has its shape but a pattern that
\* rejects it: the tree knows no patterns, and its answer is final.
TreeAgreesWithRegex ==
  request # None =>
    LET accepting == {i \in DOMAIN document : ComparePaths(document[i].path, request.path)}
        fitting == {i \in DOMAIN document : ShapeMatches(document[i].path, request.path)}
    IN  Cardinality(accepting) = 1 /\ fitting \subseteq accepting =>
          answer = SlowPath(document, request.path, request.method)

\* "this weighting ensures any path with more literal segments always wins"
\* (paths/specificity.go): no template that accepts the request and has its
\* method is more literal than the one the regex fallback chose.  (The tree
\* looks for literals from the left instead.)
RegexPrefersLiterals ==
  tree = None /\ answer # None /\ ~answer.missing =>
    \A i \in DOMAIN document :
      ComparePaths(document[i].path, request.path) /\ PathHasMethod(document[i], request.method)
        => Cardinality(Literals(document[i].path)) <= Cardinality(Literals(answer.path))
================================================================================
