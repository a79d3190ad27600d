# libopenapi-validator in TLA+

TLA+ modules, TLC configurations and TLAPS proofs for
`github.com/pb33f/libopenapi-validator`, a Go library that validates HTTP
requests and responses against an OpenAPI 3.0/3.1/3.2 document. Paths such as
`validator.go` are relative to the root of the repository.

1. [The system](#1-the-system)
2. [What is hard about it](#2-what-is-hard-about-it)
3. [The modules](#3-the-modules)
4. [The runs](#4-the-runs)
5. [Fairness](#5-fairness)
6. [The proofs](#6-the-proofs)
7. [Where the code and its documentation disagree](#7-where-the-code-and-its-documentation-disagree)
8. [What is not modelled](#8-what-is-not-modelled)
9. [Plan](#9-plan)
10. [Running it](#10-running-it)

## 1. The system

A program builds one `Validator` from a parsed document, then calls it from as
many goroutines as it likes, once per request or response.

```
 NewValidator ── builds ──► radix path tree      caches (schemas, regexes, resources)
      │                          │                          ▲   ▲
      ▼                          ▼                          │   │
 ValidateHttpRequest ──► FindPath ──► path  cookie  header  query  security   body
 (goroutines, channels)               └── parameter validators ──┘            │
      ▼                                                             media type, conversion,
 ValidateHttpResponse ──► FindPath ──► code, media type, headers, body   body replay
```

| Component | State | Operations | Interacts with | Correct when |
|---|---|---|---|---|
| High-level validator (`validator.go`) | the document, the sub-validators; per call two slices of errors, two counters and five channels | `ValidateHttpRequest`, `…Sync`, `…Response`, `…RequestResponse`, `Release` | starts one goroutine per validator and two listeners, joins them over unbuffered channels | every failed validator's errors are in the answer once, every call returns, nothing is left running |
| Schema caching and warming (`validator.go`, `cache/`, `config/`) | a map from hash to compiled schema, possibly shared by several validators | warm, load, compile and store, range, `Release` | all validators read and write it concurrently | a cached schema gives the verdict a fresh one would |
| Routing (`radix/`, `paths/`) | the radix tree, built once | `BuildPathTree`, `Lookup`, `FindPath`, `comparePaths`, `selectMatches` | the answer picks the path item of every other validator | the most literal matching template wins, in whatever order the document lists them, and it does match |
| Parameter extraction (`helpers/parameter_utilities.go`) | none of its own; it appends to the path item's slice | `ExtractParamsForOperation` | called by four validators of every request, concurrently | a request is validated against all of its parameters and no other's |
| Parameter values (`parameters/`) | none | four loops over the parameters, with decoding by style, explosion, type and encoding | the schema cache | what is accepted conforms to its schema as OpenAPI reads it, required parameters are there, and the order of a map does not matter |
| Security (`parameters/validate_security.go`) | none of its own; the user's `AuthenticationFunc` may have effects | the requirement loop | the user's function | OR of ANDs of the effective requirements |
| Request body (`requests/`) | the request's `Body`, `GetBody`, `ContentLength` | `ValidateRequestBody`, `ValidateRequestSchema`, `readAndResetRequestBody`, `setRequestBody` | middleware before, handlers and retries after it | what was validated is what is handled |
| Response (`responses/`) | the response's `Body` | `ValidateResponseBody`, `ValidateResponseSchema`, `ValidateResponseHeaders` | other players in the response chain | the governing response of the contract is chosen, what was validated is forwarded |
| Schema preparation (`schema_validation/directional_schema.go`, `schema_resources.go`, `helpers/schema_compiler.go`) | the resource cache | pruning of `required` by direction, rewriting of 3.0 keywords, closure of references | the JSON Schema library | only `required` entries of the other direction are dropped; the closure has every reachable reference; a rewritten schema says what the document said |
| Strict mode (`strict/`) | per call: visited set, local cache, undeclared values found | `Validate`, the walk over data and schema | the shared schema cache | every undeclared property is reported once, recursion ends |
| Standalone schema validation (`schema_validation/validate_schema.go`) | none | `ValidateSchema…WithVersion` | the schema cache under a version-salted key | as for the cache |
| XML and form conversion (`schema_validation/validate_xml.go`, `validate_urlencoded.go`) | none | data to JSON by schema | request and response bodies | pure functions |
| Document validation (`schema_validation/validate_document.go`) | none | `ValidateOpenAPIDocument` | the embedded OpenAPI schemas | pure function |
| Configuration (`config/`) | the options, copied or shared between validators | option functions, `Release` | all components | sharing shares what it says |
| Vocabulary (`openapi_vocabulary/`) | none | compiles and checks `nullable`, `discriminator` and coercion | called by the JSON Schema library | keywords are refused in the versions that lack them, texts are taken for the scalars they denote |
| Schema location, errors, command line, URL loader | none | | | |

## 2. What is hard about it

* **One request is eight goroutines.** Errors and control messages of the same
  validator go over two channels of the same listener, two joins are nested,
  and two slices are read without a lock by a goroutine that did not write them.
* **The cache is shared without transactions.** Load, compile and store are
  separate; the key is computed in one place and the schema compiled in
  another, with a purpose, a version and options each may know differently;
  constructors, calls, releases and evictions overlap.
* **The document is shared by everything.** Appending to a slice of it is a
  write to memory other requests read.
* **A body is a stream.** Whether it was read, half-read, replaced, replayed from
  `GetBody` or converted before depends on code outside the library.
* **Precedence.** Literal before parameter, code before range before default,
  media type before media range, operation's before document's security, each
  with exceptions when the preferred choice lacks something.

* **A map has no order.** Query keys, the members of a body and the properties
  of a schema are iterated over in another order every time, by loops with
  early ends and a visited set.
* **A schema is rewritten before it is compiled**, in two renderings, three
  directions and two dialects, and must still say the same.

`PROJECT.json` lists each of these as a hazard at its line, with the properties
that would catch it going wrong, or a note why none does.

## 3. The modules

| Module | Models | Composed with |
|---|---|---|
| `RequestValidation` | what any entry point promises | abstract specification of the next two |
| `RequestFanout` | `ValidateHttpRequest`, `ValidateHttpRequestResponse` | implements `RequestValidation` |
| `RequestSequential` | `ValidateHttpRequestSync` | implements `RequestValidation` |
| `EntryPoints` | one request through both entry points | extends `RequestFanout`, instantiates `RequestSequential` |
| `SchemaCaching` | the compiled-schema cache and all its users | |
| `PathLookup` | `BuildPathTree`, `Lookup`, `FindPath` | |
| `ParamExtraction` | `ExtractParamsForOperation` | |
| `RequestBody` | `ValidateRequestBodyWithPathItem`, `ValidateRequestSchema` | |
| `ResponseBody` | `ValidateResponseBodyWithPathItem`, `ValidateResponseSchema`, `ValidateResponseHeaders` | |
| `SecurityRequirements` | `ValidateSecurityWithPathItem` | |
| `ParamReading` | the decoding of texts and what a schema says of them | |
| `ParamLoops` | `ValidatePath…`, `ValidateQuery…`, `ValidateHeader…`, `ValidateCookieParamsWithPathItem` | extends `ParamReading` |
| `StrictWalk` | `validateValue` and what it calls in `strict/` | |
| `SchemaPreparation` | `CompileSchemaForValidation`, `helpers/schema_compiler.go` | |
| `SchemaMeaning` | what the document's schemas say, and `openapi_vocabulary/` | extends `SchemaPreparation` |
| `RequestFanoutProofs` | | theorems about `RequestFanout` and `EntryPoints` |
| `SchemaProofs` | | theorems about `SchemaCaching` and `SchemaPreparation` |
| `PathItemProofs` | | theorems about `PathLookup` and `ParamExtraction` |
| `<Module>Proofs` | | theorems about `RequestBody`, `ResponseBody`, `SecurityRequirements`, `ParamLoops`, `StrictWalk` |

`MC<Module>` gives the constants of each their values; the `.cfg` files name
them. Definitions whose comment starts with *Mutant* are plausible bugs: each
property is known to be violated when the definition after it is replaced by
it. `PROJECT.json` ("map") gives the lines of every other definition.

**RequestValidation.** Four variables: the entry point, the verdict of each
validator, whether the call has returned, and which validators its answer
names. Routing decides first; then the request's validators in any order; the
response validator after all of them, if the call wants one; the reply names
exactly those that failed.

**RequestFanout.** `pc` has one label per goroutine: the caller (`Main`), the
collector (`runValidation`), the two asynchronous functions (`Params`, which is
`parameterValidationFunc`, and `Body`), the `Listener` and one goroutine per
parameter validator. The channels are unbuffered, so a send and its receive are
one action that moves two goroutines (`ListenerTakesErrors`,
`ListenerTakesControl`, `ListenerJoinsParams`, `CollectorTakesErrors`,
`CollectorTakesControl`, `CollectorJoinsMain`). A batch of errors in flight is
named by its validator; `ErrorsOf` unfolds it when the caller sorts.
`sort.Slice` is unstable: `CollectorJoinsMain` chooses any arrangement that is
ordered by key. The refinement mapping takes the caller's result for the reply:
a validator is named by the answer when all its errors are in it.

**RequestSequential.** One action per iteration of the loop, in the calling
order of the source, and the same abstract specification: `EntryPoints` maps
its state to that of a call without a response.

**EntryPoints.** The same request through `ValidateHttpRequestSync` and then
through an asynchronous entry point. The two calls share nothing but the
verdict of each validator (`SameVerdicts`), so whatever they report differently
comes from how they run the validators and join their errors.

**SchemaCaching.** A schema stands for its hash. A compiled schema is the triple
of schema, purpose and options: the three things that change a verdict, apart
from the version, which only decides whether a schema with 3.0 keywords
compiles. Six sites use the cache: request bodies, response bodies, parameters,
standalone schemas for 3.0 and for 3.1, and the strict matcher. Each lookup is
one step, each compile-and-store another; a constructor is the goroutine that
warms; `Release` empties the cache; `Evict` is a user's bounded cache.

**PathLookup.** The tree is a function from nodes (sequences of literals and
`{}`) to leaves. `Lookup` is a recursive function on it, not a `RECURSIVE`
operator. A braced segment is given by the words its regular expression accepts.
`Insert` follows document order; `Find` is `FindPath` with and without tree.

**ParamExtraction.** The backing array of `item.Parameters` is `places`, with
the spare capacity explicit. An append that fits writes one place per step,
one that does not copies; the loop then reads place by place.

**RequestBody.** A body is its kind, its content and how far it was read.
`Validate` is a whole validation: choice of the media type, conversion, read,
replay, verdict. `Consume`, `ConsumePart` and `Assign` are the chain around it.

**ResponseBody.** The same for responses, with four kinds of bodies that behave
differently after they were read or closed, and the contract's choice of the
response entry and headers.

**SecurityRequirements.** One action per scheme of a requirement, so that the
calls of the user's function are observed in order.

**ParamReading, ParamLoops.** A behaviour is one call of one of the four
validators; a step is one parameter of the list that `ParamExtraction` gives.
Texts are sequences of words and delimiters, names sequences of words
(`f[a][b]`), decoded objects functions from the paths of their leaves. What a
step reports is a set of kinds of faults, computed by the same switch over
place, style, explosion and type as in the code. Query keys have an `order`,
chosen by `Init`: Go's map iteration. A nil dereference and `matches[1:]` of nil
are the action `Panic`; `break doneLooking` is `JudgeWholeQuery`; names that the
operation does not have are looked for in `Return`. The second half of the
module reads the request again, the way OpenAPI describes it and without the
decoders (`Readings`); `AcceptedConforms` compares the two.

**StrictWalk.** The recursion of `validateValue` is a stack of loops, each a set
of calls that are still to be made, in any order. An object is seen through one
or more views: the schema itself, the parts of `allOf` merged, the chosen variant
of `oneOf` or `anyOf` with its parent. `visited` is the pair of path and schema
of `checkAndMarkVisited`; what is found is a bag, so that a value reported twice
shows. `Expected` says what is undeclared without a walk.

**SchemaPreparation, SchemaMeaning.** A schema is a graph of nodes with a rule
each. The actions are those of `CompileSchemaForValidation`: compile what was
rendered, or register documents as references are followed (`Follow`,
`EndLoop`) and compile them together. `Pruned`, `Without30` and `Coerced` are the
rewritings. `SchemaMeaning` adds JSON Schema itself (`Obeys`), used twice: for
the compiled rules with the library's vocabulary (`Validate`), and for what the
document says in OpenAPI's terms (`IsOf`), where hidden properties are not
required, null is of a nullable schema and a text is of the scalar it denotes.
Its operators are `RECURSIVE`, which the prover does not take; the state machine
is a module of its own so that it can be proved about.

## 4. The runs

| Run | Configuration | Shows | Distinct states |
|---|---|---|---|
| `entry_points` | `MCEntryPoints.cfg` | no schedule of the goroutines loses, repeats, leaks or blocks; the asynchronous call implements `RequestValidation` and returns the errors of the synchronous one, sorted | 9,678 |
| `caching_shared` | `MCSchemaCachingShared.cfg` | bodies and standalone schemas get the schema they would have compiled, whoever shares, releases or evicts | 1,165,658 |
| `caching_parameters` | `MCSchemaCachingParameters.cfg` | violation, section 7 | |
| `path_lookup` | `MCPathLookup.cfg` | the tree finds a template whenever one fits, the most literal from the left; it agrees with the fallback | 159,773 |
| `param_extraction` | `MCParamExtraction.cfg` | every loop sees its parameters, and every list stays complete and its request's own, as long as at most one operation appends in place | 666 |
| `extraction_shared` | `MCParamExtractionShared.cfg` | violation, section 7 | |
| `request_body` | `MCRequestBody.cfg` | what was validated is what is handled, redirected and validated again, and conforms | 21,642 |
| `response_body` | `MCResponseBody.cfg` | the same for responses; what is accepted conforms to the governing response | 96,678 |
| `security` | `MCSecurityRequirements.cfg` | the verdict is the OR of ANDs; refusals and calls of the user's function are exact | 111,696 |
| `param_loops` | `MCParamLoops.cfg` | what the parameter validators accept conforms to the document, required parameters were sent, and the order of query keys changes no verdict | 48,476 |
| `strict_walk` | `MCStrictWalk.cfg` | the strict walk reaches everything in every order, reports once, and reports exactly what is undeclared | 45,137 |
| `schema_preparation` | `MCSchemaPreparation.cfg` | the compiled schema accepts what the document's schema accepts | 3,686 |

Bounds, and why they are enough:

* *entry_points*: three parameter validators instead of five. The joins count
  and do not tell validators apart, three leave two in flight while one is
  done, and the theorems of section 6 hold for any number. One validator
  reports two errors and two errors share a key, so that sorting matters.
* *caching_shared*: two validators, two callers, one schema that compiles for
  3.0 only. A race needs two goroutines on one key; keys of different schemas
  are disjoint and a caller holds one job. Callers are interchangeable (no
  formula names one), hence the symmetry set. The versions of both documents
  are chosen by `Init` among all combinations, and so is whether the schema can
  be rendered inline (`circular`).
* *path_lookup*: all documents of one to three of nine plain templates, and of
  one to three of five with patterns, in every order; all requests of up to
  three segments over two literals and a word that is neither. Three segments
  give a literal child that leads nowhere two levels down. The words of a
  request are never empty (section 7).
* *param_extraction*: three parameters of the path item in a slice that grew to
  four places; `GET` appends in place, `PUT` has to reallocate, `HEAD` has no
  operation of its own and appends nothing.
  `extraction_shared` differs in one operation only: both fit.
* *request_body*, *response_body*: per content one representative of each way
  it can go (empty, accepted, refused, not decodable, converted; null for
  responses), and one type that converts everything (a form: no text is an object
  without fields) next to one that does not (XML). Contracts have response entries
  with required, optional, no and an empty map of headers. Validations
  and reads repeat without bound; the state space is finite because a body is.
* *security*: every list of up to two of five requirements, including `{}`, an
  undefined scheme, an unknown type, an API key in an unknown place and two schemes
  at once, against every set of credentials.
* *param_loops*: for each place every style and explosion with each of seventeen
  schemas, and for each combination the texts that tell decoders apart: what
  fits, what does not, what fits another style, empty texts, JSON `null`, repeated
  keys, and
  a second parameter before or after. A loop carries only its faults from one
  parameter to the next, so two parameters show every way one affects another.
* *strict_walk*: nine root schemas over two dozen (cyclic, closed, with patterns,
  conditions and tuples, each combination alone and with another), all valid
  bodies of up to three levels over three names, both directions. `MaxDepth` is
  2 instead of 100: both sides of it happen.
* *schema_preparation*: scalar schemas with every combination of type, nullable,
  enumeration and bound in both versions; an object that requires hidden
  properties in every place a schema can be, for each purpose; nullable
  combinations; four documents that refer to each other, in circles or not. The
  values include one on each side of every keyword.

`CHECK_DEADLOCK FALSE` is set where the system ends: a single call
(`security`, `param_loops`, `strict_walk`, `schema_preparation`), and validators
that are all released (`caching_*`). `entry_points` has an explicit `Finished`
step instead, so that TLC reports any goroutine blocked on a channel as a
deadlock.

Where a property has a precondition, it is part of what is shown:

* `BodiesTransparent` and `EntriesFaithful` assume equal compile options of the
  validators that share a cache (`SameOptions`): options are not in the key.
  For the strict matcher, which shares the bare hash with parameters, the
  documents must also be of one version and the schema not be circular (section 7).
* `VerdictStable` is about JSON: an XML or form request is JSON after its
  validation while its `Content-Type` is not.
* `VerdictConforms` holds accepted XML and form requests to what they were
  converted to; that a conforming request is accepted is said of JSON only.
* `AcceptedConforms` of `ResponseBody` exempts an empty body and a JSON `null`,
  which the code never holds to a schema, the headers of an entry without a map of
  them, and those of a `default` whose content map is empty (section 7). Optional
  headers may have any value.
* `KeepsItsParams` and `SeesItsParams` are about the list extraction makes for the
  request's method. For `HEAD` without an operation of its own that list is the
  path item's, whatever routing falls back to (section 7).
* `RegexPrefersLiterals` is about the fallback. The tree decides segment by
  segment from the left instead, and prefers `/a/{x}/{y}` to `/{x}/b/c` for
  `/a/b/c`.
* `TreeAgreesWithRegex` exempts a request some pattern rejects although it has
  the template's shape (section 7).
* `RequiredSent` and `AcceptedConforms` are about the parameters the loop comes
  to (`LookedAt`). `OrderFree` exempts a parameter whose object
  several keys compete for (`IsAmbiguous`), and an absent object if two keys are
  for one member of it (`MembersAmbiguous`).
* `AcceptedConforms` of `ParamLoops` is about what OpenAPI lets one read in one
  way (`HasScalar`, `HasDeepObject`, `HasListObject`, `HasArray`, `HasJson`): a
  value, an item or a member of at most one type (`ReadsOneWay`,
  `MemberReadsOneWay`); a list of words between commas, sent once; `name[key]`
  for a `name` without brackets that no other parameter or key competes for. An
  object must be held to its schema at all (`IsHeld`: JSON `null` and objects without
  members are not), and its numbers not be
  ones that become 0 (`IsCastExactly`). An array's schema may ask for no more than
  the code checks of one (`IsPlainArray`): a type and an enumeration of the
  items, their number and their being different. Each of these is a divergence
  of section 7 where it fails. Nothing is exempted among the texts: they may be
  of any kind, fit or not, and be sent under any names.
* `FindingsExact` is about documents all of whose places are `Plain`; the others
  still have `WalkComplete` and `WalkedOnce`. Plain means that a name is offered
  one schema; that of `allOf`, `oneOf` and `anyOf` a schema has one, with parts
  that do not combine again, one part that matches and the discriminator saying
  the same one; that an array's schema takes items from one place; that no object
  or array is deeper than `MaxDepth`; and that schemas that combine have neither
  schemas for extra members nor, but for the schema itself, patterns. Of the 3,215
  calls of the run 2,274 are plain, 1,485 of them with something to report.
* `PreparedExact` exempts four kinds of schemas that are known to change what
  they say (`PlainDirections`, `PlainNulls`, `PlainTexts`, `PlainNames`): 734
  of the schemas the run compiles are not exempted. Without any one of
  the four the run fails.

## 5. Fairness

Only the entry points have a liveness property (`Terminates`). `EntryPoints`
assumes weak fairness of the synchronous caller (`SyncCall`) and of
`AsyncStep(g)` for every goroutine `g`: the Go scheduler runs every goroutine
that stays runnable, and a validator function returns (none loops on anything
but its input). A rendezvous belongs to the sender's step; weak fairness is
enough since an enabled sender stays enabled: each listener accepts in every
order and returns to its `select`.

The safety-only modules state no fairness: nothing in them waits.

## 6. The proofs

Eight modules of theorems, for every value of the constants that meets the
module's `ASSUME`. Of the forty properties of the passing runs all but two are
theorems; the end of this section lists the two and why.

The prover takes no operator as a parameter of a theorem and so no induction
over a formula. Where a proof needs induction it goes through a set:
`SetInduction` says that a set of naturals that has 0 and the successor of each
of its members is `Nat`, which follows from the well-foundedness of `<`
(`WFMin`, `NatLessThanWellFounded`). A recursive function of the model is a
`CHOOSE`; the lemmas named `…Exists` build its prefixes one by one, after which
its equation can be used.

**RequestFanoutProofs.** For every finite non-empty set of parameter validators
and every choice of errors and keys; `FanoutAssumption` says that the names of
goroutines and validators are distinct, where the code has distinct functions,
and `ErrorsAssumption` that a validator that fails reports something, no error
twice and none of another validator's: each `*ValidationError` is allocated
where it is reported. `EntryPointsAssumption`: the synchronous call has each
parameter validator once, in some order.

| Theorem | Statement |
|---|---|
| `TypeCorrect` | `Spec => []TypeOK` |
| `JoinInvariant` | `Spec => []IInv` |
| `JoinIsExact` | `Spec => []JoinExact`: past `<-doneChan` the caller has the batch of every failed validator exactly once |
| `NoLeak` | `Spec => []NoGoroutineLeft` |
| `HandoverIsFinal` | `Spec => NoWriteAfterHandover`: the unlocked reads see final values |
| `FanoutRefines` | `Spec => RefinesRequestValidation` |
| `SecondCallRefines` | `BothSpec => RefinesRequestValidation`: the asynchronous call, whatever call came before |
| `SyncRefines` | `BothSpec => SyncRefinesRequestValidation`: the synchronous call keeps the same promise |
| `EntryPointsAgree` | `BothSpec => []EntriesAgree`: the same errors, those of the asynchronous call sorted |

`JoinExact` speaks of the moment the caller proceeds and is not inductive: why
the collector may stop after two control messages depends on what the listener
did before. `IInv` adds one part per party:

* `ValidatorInv`: a validator that is past its function has a verdict, and only
  one that failed is about to send errors;
* `ListenerInv`: the listener's counter is the number of validators that have
  exited, its slice holds each failed validator that has delivered once, and it
  hands over only when all have exited;
* `CollectorInv`: the same one level up; the batch of `Params` is the whole
  slice of the listener, which by `ListenerInv` no longer changes;
* `CallerInv`: who has been started at which point of the caller, and that the
  collector has exited once the caller is past the join.

The counters are tied to sets of goroutines by `Cardinality`, which is where
"stops one early" would break: equality of cardinalities of a finite set and
its subset makes them equal (`FS_Subset`). One lemma per group of actions
(`CallerStep`, `ValidationStep`, `ListenerStep`, `CollectorStep`) has one step
per action and, under it, one per part of `IInv`; the lemmas named
`…Undisturbed` say what each part depends on, and two lemmas on sequences say
how appending affects injectivity and range.

The refinement goes step by step: a goroutine that gets its verdict is a
`Decide` of the abstract specification, the return is its `Reply`, everything
else stutters. What the reply needs is `AnswerInv`: after the join the errors
are a sorting of those of the failed validators, and the response validator has
a verdict exactly when the entry point has called it. The unstable
`sort.Slice` is any rearrangement that is in order, so that the set of errors,
and with it the set of validators they name, is that of the batches
(`SortingsOfDistinct`). `EntriesAgree` compares two calls and needs the books of the
synchronous one: `SyncInv` says which validators it has called, that its errors
are those of the failed ones, and `SameVerdicts` carries each verdict over; the
run `entry_points` checks the outcome, `EntriesAgree`. `SyncRefines` rests on
`SyncInv` too: before the return each validator that must be called has been,
none of them if routing failed, and the response validator never.

**SchemaProofs.** `SchemaCaching`: for any validators, callers, schemas and sites
in use, with or without eviction; `CachingAssumption` adds to the distinctness of
the marks that a constructor and a caller are different goroutines.
`SchemaPreparation`: for any finite graph of schemas (`PreparationAssumption`:
references and parts of schemas are schemas), however they refer to each other.

| Theorem | Statement |
|---|---|
| `TypeCorrect` | `Spec => []TypeOK`: among others, no failure is ever stored |
| `EntriesStayFaithful` | `Spec => []EntriesFaithful` |
| `CachingIsTransparent` | `Spec => []BodiesTransparent` |
| `PreparationTyped` | `PreparationSpec => []PreparationTypeOK` |
| `AllDocumentsFound` | `PreparationSpec => []DocumentsFound`: when everything was followed, the document of every reference that a part of the schema can make is registered |

`EntriesFaithful` says nothing of the keys without a version, which the strict
matcher uses. `BareFaithful` is the missing part: with documents of one version,
an entry under a bare hash is what compiling for that version gives, although
parameters compile for 3.1, since what compiles for 3.1 compiles to the same
schema for every version (`CompilesForAll`) and what does not is not stored.
`StoreFaithful` and `LossFaithful` then cover all that happens to the cache, and
`EntryIsFresh` is what a lookup relies on. Nothing is assumed of the time
between lookup, compilation and store.

`DocumentsFound` is about `collectSchemaResources`: a walk with two visited sets
and a stack of loops in which a reference that was seen is passed over.
`ClosureInv` is that of a worklist: what was looked through leads only to what
was followed or is on the stack. At the end the nodes looked through are closed,
and the parts of the schema, the least closed set, are among them (`PartsSeen`).
The model computes the parts by as many rounds as there are nodes;
that this is enough is a counting argument (`WithinClosed`: rounds that each add
a node would give more nodes than there are). `PlainNames` excludes what the
code itself misses (section 7).

**PathItemProofs.** `PathLookup`: for any documents, requests and patterns.
`LookupAssumption` types them and says that a braced segment is no literal.

| Theorem | Assumes | Statement |
|---|---|---|
| `RoutingTyped` | | `LookupSpec => []LookupTypeOK` |
| `TreeIsRight` | | `LookupSpec => []TreeFindsMostLiteral`: `Lookup` finds a template of the request's shape if there is one, and none that is less literal from the left |
| `TreeAndRegexAgree` | | `LookupSpec => []TreeAgreesWithRegex` |
| `RegexIsMostLiteral` | `WeightsSuffice` | `LookupSpec => []RegexPrefersLiterals` |

`RoutingInv` says that the tree is one of the items inserted so far (`IsTree`:
closed under prefixes, each leaf an item whose segments lead there, each item
inserted with a leaf), whatever the order and however templates share nodes; the
answer is then a function of tree and request. That `Lookup` with its
backtracking finds the first node in the order of literals is an induction over
the segments that are left. `computeSpecificityScore` gives a literal 1000 points
and a parameter one: the literals decide only in templates with fewer than a
thousand parameters (`WeightsSuffice`).

`ParamExtraction`: for any operations, parameters, capacity and callers.

| Theorem | Assumes | Statement |
|---|---|---|
| `TypeCorrect` | | `Spec => []TypeOK` |
| `PathItemUntouched` | | `Spec => []PathItemIntact` |
| `LoopsSeeTheirParams` | `OneAppendsInPlace` | `Spec => []SeesItsParams` |
| `ListsKept` | `OneAppendsInPlace` | `Spec => []KeepsItsParams`: from the append to the return the list has the path item's parameters and the operation's |

`OneAppendsInPlace` (operations that fit the spare capacity declare the same
parameters, or none) is what the violation of section 7 lacks: the theorems say
that this is the only way in which a list goes wrong once it was made.
`KeepsItsParams` is more than `SeesItsParams`: it holds behind the place the loop
has come to, where strict mode, which reads the list again for the names it
declares (`parameters/header_parameters.go:232`), still has to find it.
`ExtractInv` needs no assumption: an append writes behind the path item's own
parameters. `ListInv` adds what each caller has placed and seen; under
`OneAppendsInPlace` an append of another caller writes what is there.

**RequestBodyProofs**, **ResponseBodyProofs.** For any contents, conversions,
media types, operations and contracts.

| Theorem | Statement |
|---|---|
| `TypeCorrect` (both) | `Spec => []TypeOK` |
| `ForwardsWhatItValidated`, `ForwardsWhatItJudged` | `Spec => []ValidatedIsForwarded` |
| `NeverValidatesStale` | `Spec => []NeverStale` |
| `VerdictIsStable` (both) | `Spec => VerdictStable` |
| `VerdictIsConformance` | `Spec => []VerdictConforms` |
| `AcceptedIsConformance` | `Spec => []AcceptedConforms` |

For requests the argument is what a request is after it was read or converted:
its three ways to a body (`Body`, `GetBody`, `ContentLength`) agree on what was
validated (`AfterReadForwards`, `SetForwards`), and a body that the chain put in
stems from `sent`. `VerdictStable` needs `JsonInv`: reading again, from the
start or from the snapshot, gives what the last report is about. The media type
is the first that matches; that a set of places has a first one is `HasLeast`.
For responses, `ValidateIsFunction` states the report as a function of the
state; a check is idempotent on the body it leaves (`SchemaRepeats`), hence
reports repeat. `ResponseAssumption` has what conformance rests on: a header
names JSON if its media type does, and entries of a contract exist.

**SecurityRequirementsProofs.** For any requirements, schemes and credentials.

| Theorem | Statement |
|---|---|
| `TypeCorrect` | `Spec => []TypeOK` |
| `LoopInvariant` | `Spec => []LoopInv` |
| `VerdictIsExact` | `Spec => []VerdictExact` |
| `RefusalIsExplained` | `Spec => []RefusalExplained` |
| `CallsAreExact` | `Spec => []CallsExact`: the user's function is called for the schemes of the alternatives up to the one that decides, in order, and for no other |

`VerdictExact` speaks of the end of the loop. `LoopInv` says for its middle that
all earlier requirements failed and `errors` has why (`GivenUpInv`), and that
`failed` has what is wrong with the schemes of the current one so far
(`CurrentInv`). `CallsInv` does the same for the calls: those of the requirements
behind, and of the schemes of the current one that were tried. The lists of
calls add up scheme by scheme and requirement by requirement
(`SchemeCallsAddUp`, `RequirementCallsAddUp`).

**StrictWalkProofs.** For any schemas whose parts are schemas
(`SchemaAssumption`), any finite documents (`TaskAssumption`) and any `Accepted`.

| Theorem | Statement |
|---|---|
| `TypeCorrect` | `Spec => []TypeOK` |
| `WalkIsComplete` | `Spec => []WalkComplete`: when the walk ends, every call a walked call leads to was walked or refused |
| `FoundOnce` | `Spec => []WalkedOnce` |
| `FindingsAreExact` | `Spec => []FindingsExact`: in a `Plain` document the walk reports `Expected`, each finding once |

`WalkComplete` speaks of the end. `WalkInv` says of every moment that each call
a visited call leads to is `Covered`: settled, or still in one of the loops of
the stack. A loop that ends must then have been empty (`EndKeepsPending`), and a
call leaves its loop only by being settled (`RestKeepsPending`); that a call is
marked before its own loops are pushed is what makes `Walk` preserve it. The
lemmas named `…Typed` show that every view leads to schemas and members of the
document, `Undisturbed…` that what a call leads to depends on the task alone.

`FindingsExact` compares what a walk gathers with what JSON Schema says of the
document without one. It rests on two assumptions: a document is a finite tree
whose arrays have their items at their first indices (`TaskAssumption`), and the
walk is given a body its schema accepts, where acceptance has the consequences
JSON Schema gives it (`AcceptedAssumption`, `IsObeyed`): the code walks only
after validation, and the matcher asks the same validator. The argument:

1. `GivenTo`, the schemas the places of a document give to its values, exists as
   a function (`GivenUnfolds`): it is read off the least set of pairs of a path and
   a set of schemas that is closed under one step, by induction over paths
   (`PathInduction`).
2. In a plain document a value is given one schema at most (`OneGiven`), which
   accepts it (`GivenAccept`).
3. Then an object has one view that reports (`OneView`), and this view knows the
   names the applied schemas declare, no more and no fewer, and leads where they
   lead (`PlainShows`, `AllOfShows`, `VariantShows`; `Leads` for items as well).
4. No call comes from nowhere (`LedInv`: each is the first or one a walked call
   leads to), hence what was walked is what is given (`WalkedAsGiven`); and by
   `WalkComplete` what is given and not refused was walked (`GivenIsWalked`).
5. The union of what those calls report is then `Expected`, and `WalkedOnce` with
   step 2 makes it once.

Steps 2 and 3 failed at first for good reasons, each a place where `Plain` or
`GivenTo` said too little: a name with a hidden and a visible schema; a hidden
schema for extra members, which the walk follows although it skips hidden
properties; patterns next to `allOf`; items of an array with conditions on it; and a
discriminator that names a variant the value does not match.

**ParamLoopsProofs.** For any parameters, requests, schemas, `Conforms`, `Parses`
and `Json`. `ParamLoopsAssumption` types the task; a request has finitely many
names, each of at least one word, and what was sent under one has a text:
`url.Values`, `http.Header` and the parsed cookies hold no name without one.

| Theorem | Statement |
|---|---|
| `TypeCorrect` | `Spec => []TypeOK` |
| `RequiredIsSent` | `Spec => []RequiredSent` |
| `QueryOrderIsFree` | `Spec => []OrderFree`: no order of Go's map of query keys changes whether a parameter is at fault |
| `AcceptedIsConformance` | `JsonSchema` implies `Spec => []AcceptedConforms`: what a call accepts conforms to the document |

`LoopInv` adds to the types that as long as there are no faults, every required
parameter the loop has passed, and answers for, was sent. The work is in the
four places: what `Present` sees in the code's decoding is what `IsSent` says of
the request, and a required path parameter without a text is a fault for every
style.

`OrderFree` compares the order of the run with every other. `JudgedInv` adds that
no parameter that was judged panics, so that it has a schema. An order lists
each key once, and hence the entries of a parameter each once (`EntriesListed`:
a key can be told from its entry). What is computed from them depends on their
set: a conflict of paths is a pair of entries (`StyleFree`); without one, no
entry of a `deepObject` is set where another is, and the object is the map from
each path to what its entry says (`DeepObjectIs`); an absent object is the
map from each name to its text (`WholeQueryIs`). The loops over entries, texts
and types end early at an object with a fault, which depends on the order; but
that fault is then reported, so that the loops report nothing only if no text
has a fault at all (`NothingSkipped`).

`AcceptedConforms` compares what the decoders make of a text with what OpenAPI
says of it. It rests on what `JsonSchema` asks of the given `Conforms`
(`ConformsAsJson`): the members of an object a schema accepts are of the types
the schema names for them, and a schema that accepts an object accepts the same
object with a number written as another kind of number; and of `Int64`, that it
returns a text. It leaves out `patternProperties`, which give a member a
schema the code does not look for. TLC checks `ConformsAsJson` for the run's own
`Conforms`, over objects of up to two members (`MCConformsAsJson`). The argument:

1. `AcceptedInv` adds to `JudgedInv` that as long as there are no faults, no
   parameter that was passed and is there is at fault; what is read of a request
   is there (`SentIsPresent`), so that when the call returns, each parameter that
   something is read of is `Judged`.
2. A parameter is read in one way at most (`OneReading`); for each way there is a
   lemma. For one value (`ScalarConforms`) the code asks the schema itself; for JSON
   (`JsonConforms`) as well. A list is taken apart at its commas
   into its words (`ListFacts`, from `SplitOf`: the cuts are the even numbers),
   which are checked one by one (`ArrayConforms`).
3. An object in one text is cast member by member (`AlternatingOf`: a repeated
   key has its last value), and one in several keys is the map of what its entries
   say (`DeepObjectIs`, `DeepEntries`: the keys found by their first word are those
   that extend the parameter's name). The code casts a text without a type in
   mind and OpenAPI reads it with one: `CastTyped` and `MemberAlike` say that the
   two agree but for the kind of a number where the cast value is of the type asked
   for, which `JsonSchema` says of an object that was accepted. So what OpenAPI reads
   is accepted too (`ReadAlike`).

Step 3 failed at first where the code reads a member differently: a property without
a type becomes a list when other members may be lists, a text of a union
with `string` stays a text, and only the first of several lists is looked at. Each
became a part of `MemberReadsOneWay` or `HasListObject`, and an entry of section 7.

Only model-checked:

* `Terminates`: liveness under fairness is out of the prover's reach.
* `PreparedExact`: induction over schemas and values; its operators are
  `RECURSIVE`.

## 7. Where the code and its documentation disagree

Two runs end in a violation by what the code does:

* `caching_parameters`: warming compiles a parameter schema for the document's
  version (`validator.go:560`) and caches it under a key that calls take to mean
  3.1. For a 3.0 document, whether `nullable` compiles in a parameter schema
  depends on whether the entry is still there.
* `extraction_shared`: `append(params, op.Parameters...)` with `params :=
  item.Parameters` (`helpers/parameter_utilities.go:34`) writes behind the end
  of a slice shared by all requests. With spare capacity, concurrent requests
  for two operations of one path item overwrite each other's parameters.

Others, met while modelling and visible in the modules, without a run:

*Routing and extraction*

* `HEAD` falls back to `GET` in routing, body and security validation, but not in
  parameter extraction (`helpers/parameter_utilities.go:53`): of `GET`'s parameters
  only those of the path item are enforced. `ParamExtraction` extracts as the code
  does, and its properties do not ask for the fallback.
* The radix tree treats `{name:pattern}` as `{name}`, and its answer is final: a
  request may be routed to a template whose pattern rejects it, past one that
  accepts it. The path parameter validator then panics
  (`parameters/path_parameters.go:86`).
* `paths/specificity.go` promises that more literal segments always win; the
  tree prefers literals from the left.
* The tree drops empty segments (`//`, a trailing `/`), the fallback and the
  path parameter validator count them.

*Bodies and the cache*

* A response body that fails XML or form conversion is left read and closed
  (`responses/validate_body.go:180`), where `responses/validate_response.go:168`
  wants it re-readable by other players in the chain.
* A `default` response without content is taken for no default
  (`responses/validate_body.go:112`, "no default, no code match, nothing!").
* The headers of a `default` response are checked only if it has the media type
  (`responses/validate_body.go:99`), those of any other response always.
* A second validation of an XML or form request converts JSON as XML or a form.
* A JSON `null` response body is never held to its schema.
* The text of an optional response header is never held to its schema
  (`responses/validate_headers.go:98`), and in strict mode a response whose entry
  has no map of headers may have any (`responses/validate_body.go:120`).
* An empty XML body is a conversion error, required or not; an empty form is an
  object without fields that is held to the schema, whether a body is required or
  not. Only JSON bodies have the empty case of `requests/validate_request.go:249`.
* The strict matcher renders a schema inline or gives up (`strict/matcher.go:91`),
  where the other sites fall back to rendering it with its references: a circular
  schema matches or not by whether a parameter has put it into the cache.
* Options that change how schemas compile are not part of the cache key.

*Parameter values*

* An absent object in the default form encoding is read from the whole query and
  ends the loop: later parameters are not looked at
  (`parameters/query_parameters.go:245`). It may also be required and absent: an
  object without members is never held to its schema.
* The value of a piece `{name:pattern}` is never validated: the piece is looked up
  under its pattern as well as its name (`parameters/path_parameters.go:102`).
* A union of types is checked type by type, all of which must accept.
* An enumeration of a path parameter replaces its schema; numbers of headers and
  cookies are held to their enumeration only; items to their type and
  enumeration.
* Inside decoded objects a number without a period is parsed as an integer and
  the error dropped: `1e3` is 0 (`helpers/parameter_utilities.go:183`).
* Inside decoded objects a member that may be a string or something else is a
  string: `1` is refused where an integer has a bound it meets and a string has
  none (`helpers/parameter_utilities.go:297`). A `deepObject` property without
  a type becomes a list if `additionalProperties` are arrays
  (`helpers/parameter_utilities.go:311`).
* Of an object whose list is sent several times only the first text is held to the
  schema; the others are neither read nor refused. A JSON object with an empty
  text under an empty name, and one without members, is not held to it at all
  (`parameters/validate_parameter.go:143`).
* A `deepObject` parameter whose name has brackets is never found: its keys are
  entries of its first word.
* A query parameter that several keys compete for takes the one Go's map hands
  out last.
* A parameter of the path item that an operation declares again is validated
  against both declarations.
* Strict mode reports the keys of a declared `deepObject` parameter
  (`strict/validator.go:80`).
* A header or cookie parameter with `content` dereferences a nil schema.
* JSON `null` is accepted whatever the schema says: as the content of a query
  parameter it is a nil map (`parameters/query_parameters.go:189`), as the text of
  an object in a query array or of a response header a nil value, and neither
  is held to the schema (`parameters/validate_parameter.go:143`).
* An API key in a place other than header, query and cookie is taken for present
  (`parameters/validate_security.go:274`).

*Strict mode*

* Where `allOf` meets `oneOf` or `anyOf`, each is checked without the other, and
  declared members are reported; combinations inside the parts of a combination
  are not collected.
* Only the first part of an `anyOf` that matches declares members.
* The declared items of a tuple with `items: false` are reported
  (`strict/array_validator.go:27`).
* Below depth 100 nothing is looked at.

*Schema preparation*

* A property that is `readOnly` or `writeOnly` behind a reference stays required
  in bodies, unless no references are left after rendering; so does one that is
  required by one part of an `allOf` and declared by another
  (`schema_validation/directional_schema.go:142`).
* `nullable` with `anyOf`, `oneOf`, `not` or `discriminator` still refuses null;
  with an `allOf` whose parts take null as well, null matches both parts of the
  added `oneOf` and is refused; with `allOf` next to `oneOf`, the two merge into
  one choice (`helpers/schema_compiler.go:244`).
* With coercion, a text is asked for the first scalar type of several only and
  not held to bounds or enumerations of the scalar; a text of a union that has
  `string` must still be a scalar; a property named `type` is not coerced.
* A property named `properties` (or like another map of schemas) whose schema is
  a reference is not seen as one, and its document is not registered
  (`schema_validation/schema_resources.go:632`).

## 8. What is not modelled

* **Document validation**: a sequence of checks on a parsed document without
  state, most of it the extraction of texts and lines of errors; a model would
  repeat it line by line.
* **Formats, and JSON Schema keywords** that the code does not treat specially,
  beyond those `SchemaPreparation` and `StrictWalk` need to tell schemas apart.
* **XML and form conversion** as algorithms: functions between contents.
* **The resource and regex caches**: their entries are functions of their keys,
  so that a lost or repeated store changes nothing but time.
* **Server base paths and fragments** in routing; a segment's regular expression.
* **`ValidateHttpResponse`** and `ValidateDocument` of the high-level validator:
  sequential delegations.
* **The verdict of a JSON Schema**, an external library: a parameter
  (`Accepted`, `Conforms`) everywhere but in
  `SchemaPreparation`.
* **Panics**, except in `ParamLoops`: elsewhere a validator returns. Nothing in
  the code recovers a panic of a validator's goroutine.
* **`Release` during a call** of the same validator, which sets fields to nil
  without a lock; the model releases a validator between its calls.
* **Errors' wording, source locations, the command line, the URL loader**: no
  verdict depends on them.

## 9. Plan

Done, in the order of what matters most: the fan-out with its abstract
specification; the cache; routing; parameter extraction; request and response
bodies; security; then parameter values, the strict walk, the composition of the
entry points and schema preparation; and the proofs of section 6: the invariants
of each component, then the refinement, the agreement of the entry points,
routing, the calls of the user's function, the closure of resources, the order
of query keys, the findings of the strict walk and the conformance of parameter
values.

Left:

* `SchemaPreparation`: a compilation fails only if the compiler refuses a part
  of the schema (`AllDocumentsFound` shows that it never fails for a missing
  document).
* `ValidateHttpResponse` as a third entry point of `EntryPoints`.

## 10. Running it

```
tlc -workers 2 -config MCEntryPoints.cfg MCEntryPoints
tlapm RequestFanoutProofs.tla
```

TLC needs the community modules on its path, `tlapm` is version 1.4.5. The
module and configuration of each run are in `PROJECT.json`.
