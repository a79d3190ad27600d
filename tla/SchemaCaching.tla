----------------------------- MODULE SchemaCaching -----------------------------
(***************************************************************************)
(* The compiled-schema cache: NewValidatorFromV3Model fills it, concurrent *)
(* validation calls look schemas up and store what they had to compile,    *)
(* several validators may share one cache (WithSchemaCache), Release       *)
(* clears it, and a bounded cache may drop entries.  Every user loads,     *)
(* compiles and stores in separate steps, without a lock.                  *)
(*                                                                         *)
(* A schema stands for its hash, hashes being taken as collision-free.  A  *)
(* compiled schema is what distinguishes two of them: the schema, the      *)
(* purpose its required lists were pruned for, and the options and version *)
(* it was compiled under.                                                  *)
(***************************************************************************)
EXTENDS FiniteSets

CONSTANTS Validators,   \* high-level validators sharing the cache
          Callers,      \* goroutines calling them
          Schemas,      \* schemas by hash
          Legacy,       \* those using OpenAPI 3.0 keywords (nullable)
          Broken,       \* those that never compile
          OptionsOf,    \* format, coercion and vocabulary options of each
          UsedSites,    \* where the calls look schemas up
          Evicting,     \* whether the cache drops entries on its own
          Absent,       \* no entry, no result
          Failed,       \* a schema that does not compile
          NoJob         \* a goroutine that looks nothing up

Versions == {"3.0", "3.1"}
Sites == {"request", "response", "parameter", "document30", "document31", "strict"}
DocumentSites == {"document30", "document31"}

Purposes == {"generic", "request", "response"}

\* What a schema is wanted for, and by which validator.
Jobs == [validator : Validators, site : UsedSites, schema : Schemas]

Compiled ==
  [schema : Schemas, purpose : Purposes, options : {OptionsOf[v] : v \in Validators}]

ASSUME CachingAssumption ==
  /\ Legacy \subseteq Schemas
  /\ Broken \subseteq Schemas
  /\ UsedSites \subseteq Sites
  /\ Evicting \in BOOLEAN
  /\ Validators \cap Callers = {}
  /\ Absent # Failed
  /\ Absent \notin Compiled
  /\ Failed \notin Compiled
  /\ NoJob \notin [validator : Validators, site : Sites, schema : Schemas]

VARIABLES docVersion, \* VersionToFloat of each validator's document
          circular, \* the schemas that cannot be rendered inline
          cache,    \* Key -> entry, or Absent
          toWarm,   \* per validator, the uses its constructor has still to warm
          life,     \* per validator: "warming", "serving", "released"
          pc,       \* per goroutine; a constructor is the goroutine of its validator
          job,      \* what the goroutine is compiling for
          local,    \* the strict validator's localCache of each caller
          result    \* what each caller's last lookup gave

vars == <<docVersion, circular, cache, toWarm, life, pc, job, local, result>>

PurposeAt(site) == IF site \in {"request", "response"} THEN site ELSE "generic"

\* Parameters are compiled for 3.1 whatever the document says
\* (parameterSchemaVersion), ValidateSchema...WithVersion for the version its
\* caller names, the other sites for the document's.
VersionAt(j) ==
  CASE j.site \in {"parameter", "document31"} -> "3.1"
    [] j.site = "document30" -> "3.0"
    [] OTHER -> docVersion[j.validator]

\* CompileSchemaForValidation and NewCompiledSchemaWithVersion: 3.0 keywords
\* are rewritten for 3.0 documents and rejected for later ones.  A schema that
\* cannot be rendered inline is rendered with its references.
Compile(schema, purpose, version, options) ==
  IF schema \in Broken \/ (schema \in Legacy /\ version # "3.0")
    THEN Failed
    ELSE [schema |-> schema, purpose |-> purpose, options |-> options]

\* strict.compileSchema renders inline or gives up.
StrictCompile(schema, version, options) ==
  IF schema \in circular THEN Failed ELSE Compile(schema, "generic", version, options)

\* Mutant: the key ignores the purpose.
BareCacheKey(schema, version, purpose) ==
  [schema |-> schema, version |-> "any", purpose |-> "generic"]

\* SchemaCacheKey: the bare hash for generic use.
SchemaCacheKey(schema, version, purpose) ==
  IF purpose = "generic"
    THEN [schema |-> schema, version |-> "any", purpose |-> "generic"]
    ELSE [schema |-> schema, version |-> version, purpose |-> purpose]

\* Mutant: the key names the default version, whichever was asked for.
DocumentFixedKey(schema, version) ==
  [schema |-> schema, version |-> "3.1", purpose |-> "generic"]

\* validateSchemaWithVersion mixes the version into the hash itself.
DocumentCacheKey(schema, version) ==
  [schema |-> schema, version |-> version, purpose |-> "generic"]

KeyOf(j) ==
  IF j.site \in DocumentSites
    THEN DocumentCacheKey(j.schema, VersionAt(j))
    ELSE SchemaCacheKey(j.schema, VersionAt(j), PurposeAt(j.site))

Keys == [schema : Schemas, version : Versions \cup {"any"}, purpose : Purposes]

\* What the job gets when nothing is cached.
Fresh(j) ==
  IF j.site = "strict"
    THEN StrictCompile(j.schema, VersionAt(j), OptionsOf[j.validator])
    ELSE Compile(j.schema, PurposeAt(j.site), VersionAt(j), OptionsOf[j.validator])

Goroutines == Validators \cup Callers

Init ==
  /\ docVersion \in [Validators -> Versions]
  /\ circular \in SUBSET Schemas
  /\ cache = [k \in Keys |-> Absent]
  /\ toWarm \in [Validators -> SUBSET [site : {"request", "response", "parameter"}, schema : Schemas]]
  /\ life = [v \in Validators |-> "warming"]
  /\ pc = [g \in Goroutines |-> "idle"]
  /\ job = [g \in Goroutines |-> NoJob]
  /\ local = [c \in Callers |-> {}]
  /\ result = [c \in Callers |-> Absent]

--------------------------------------------------------------------------------
(* Warming, by the constructor: warmMediaTypeSchema, warmParameterSchema.  *)

\* Loads; a schema already cached is skipped.  The walk's order does not
\* matter to the cache.
WarmLookup(v, use) ==
  /\ life[v] = "warming"
  /\ pc[v] = "idle"
  /\ use \in toWarm[v]
  /\ toWarm' = [toWarm EXCEPT ![v] = @ \ {use}]
  /\ IF cache[SchemaCacheKey(use.schema, docVersion[v], PurposeAt(use.site))] = Absent
       THEN /\ pc' = [pc EXCEPT ![v] = "compiling"]
            /\ job' = [job EXCEPT ![v] = [validator |-> v, site |-> use.site, schema |-> use.schema]]
       ELSE UNCHANGED <<pc, job>>
  /\ UNCHANGED <<docVersion, circular, cache, life, local, result>>

\* Compiles for the document's version and stores; a schema that does not
\* compile is left to the calls.
WarmStore(v) ==
  /\ pc[v] = "compiling"
  /\ LET purpose == PurposeAt(job[v].site)
         compiled == Compile(job[v].schema, purpose, docVersion[v], OptionsOf[v])
     IN  cache' = IF compiled = Failed
                    THEN cache
                    ELSE [cache EXCEPT ![SchemaCacheKey(job[v].schema, docVersion[v], purpose)] = compiled]
  /\ pc' = [pc EXCEPT ![v] = "idle"]
  /\ job' = [job EXCEPT ![v] = NoJob]
  /\ UNCHANGED <<docVersion, circular, toWarm, life, local, result>>

WarmDone(v) ==
  /\ life[v] = "warming"
  /\ pc[v] = "idle"
  /\ toWarm[v] = {}
  /\ life' = [life EXCEPT ![v] = "serving"]
  /\ UNCHANGED <<docVersion, circular, cache, toWarm, pc, job, local, result>>

--------------------------------------------------------------------------------
(* Validation calls.                                                       *)

\* A call belongs to one validator and may look several schemas up.
MayAsk(c, j) ==
  /\ life[j.validator] = "serving"
  /\ pc[c] = "idle" \/ (pc[c] = "asking" /\ job[c].validator = j.validator)

\* ValidateRequestSchema, ValidateResponseSchema, validateSchemaWithVersion,
\* compileParameterValidationSchema: an entry is used as it is found.
Lookup(c, j) ==
  /\ MayAsk(c, j)
  /\ j.site # "strict"
  /\ job' = [job EXCEPT ![c] = j]
  /\ IF cache[KeyOf(j)] = Absent
       THEN /\ pc' = [pc EXCEPT ![c] = "compiling"]
            /\ UNCHANGED result
       ELSE /\ pc' = [pc EXCEPT ![c] = "done"]
            /\ result' = [result EXCEPT ![c] = cache[KeyOf(j)]]
  /\ UNCHANGED <<docVersion, circular, cache, toWarm, life, local>>

\* strict.getCompiledSchema: the shared cache, under the bare hash, before the
\* caller's own.
StrictLookup(c, j) ==
  /\ MayAsk(c, j)
  /\ j.site = "strict"
  /\ job' = [job EXCEPT ![c] = j]
  /\ IF cache[KeyOf(j)] # Absent
       THEN /\ pc' = [pc EXCEPT ![c] = "done"]
            /\ result' = [result EXCEPT ![c] = cache[KeyOf(j)]]
       ELSE IF j.schema \in local[c]
       THEN /\ pc' = [pc EXCEPT ![c] = "done"]
            /\ result' = [result EXCEPT ![c] = Fresh(j)]
       ELSE /\ pc' = [pc EXCEPT ![c] = "compiling"]
            /\ UNCHANGED result
  /\ UNCHANGED <<docVersion, circular, cache, toWarm, life, local>>

\* Mutant: a schema that failed to compile is cached as well.
StoreFailures(c) ==
  /\ pc[c] = "compiling"
  /\ result' = [result EXCEPT ![c] = Fresh(job[c])]
  /\ pc' = [pc EXCEPT ![c] = "done"]
  /\ cache' = [cache EXCEPT ![KeyOf(job[c])] = Fresh(job[c])]
  /\ UNCHANGED <<docVersion, circular, toWarm, life, job, local>>

\* The miss path: compile, use, and store what compiled, whoever stored in the
\* meantime; the strict validator stores in its local cache only.
CompileAndStore(c) ==
  /\ pc[c] = "compiling"
  /\ result' = [result EXCEPT ![c] = Fresh(job[c])]
  /\ pc' = [pc EXCEPT ![c] = "done"]
  /\ IF Fresh(job[c]) = Failed
       THEN UNCHANGED <<cache, local>>
       ELSE IF job[c].site = "strict"
       THEN /\ local' = [local EXCEPT ![c] = @ \cup {job[c].schema}]
            /\ UNCHANGED cache
       ELSE /\ cache' = [cache EXCEPT ![KeyOf(job[c])] = Fresh(job[c])]
            /\ UNCHANGED local
  /\ UNCHANGED <<docVersion, circular, toWarm, life, job>>

\* The same call goes on (a strict walk matches several variants), or ends and
\* with it the strict validator's local cache.
Continue(c) ==
  /\ pc[c] = "done"
  /\ pc' = [pc EXCEPT ![c] = "asking"]
  /\ result' = [result EXCEPT ![c] = Absent]
  /\ UNCHANGED <<docVersion, circular, cache, toWarm, life, job, local>>

Return(c) ==
  /\ pc[c] = "done"
  /\ pc' = [pc EXCEPT ![c] = "idle"]
  /\ job' = [job EXCEPT ![c] = NoJob]
  /\ result' = [result EXCEPT ![c] = Absent]
  /\ local' = [local EXCEPT ![c] = {}]
  /\ UNCHANGED <<docVersion, circular, cache, toWarm, life>>

--------------------------------------------------------------------------------
(* The end of entries and validators.                                      *)

InUse(v) == \E c \in Callers : job[c] # NoJob /\ job[c].validator = v

\* validator.Release empties the cache, shared or not.  Callers of other
\* validators may be between their lookup and their store.
Release(v) ==
  /\ life[v] = "serving"
  /\ ~InUse(v)
  /\ life' = [life EXCEPT ![v] = "released"]
  /\ cache' = [k \in Keys |-> Absent]
  /\ UNCHANGED <<docVersion, circular, toWarm, pc, job, local, result>>

\* A SchemaCache of the user's may be bounded.
Evict(k) ==
  /\ Evicting
  /\ cache[k] # Absent
  /\ cache' = [cache EXCEPT ![k] = Absent]
  /\ UNCHANGED <<docVersion, circular, toWarm, life, pc, job, local, result>>

Next ==
  \/ \E v \in Validators :
       \/ \E use \in toWarm[v] : WarmLookup(v, use)
       \/ WarmStore(v) \/ WarmDone(v) \/ Release(v)
  \/ \E c \in Callers :
       \/ \E j \in Jobs : Lookup(c, j) \/ StrictLookup(c, j)
       \/ CompileAndStore(c) \/ Continue(c) \/ Return(c)
  \/ \E k \in Keys : Evict(k)

Spec == Init /\ [][Next]_vars

--------------------------------------------------------------------------------
(* Properties.                                                             *)

TypeOK ==
  /\ docVersion \in [Validators -> Versions]
  /\ circular \in SUBSET Schemas
  /\ cache \in [Keys -> {Absent} \cup Compiled]
  /\ toWarm \in [Validators -> SUBSET [site : {"request", "response", "parameter"}, schema : Schemas]]
  /\ life \in [Validators -> {"warming", "serving", "released"}]
  /\ pc \in [Goroutines -> {"idle", "asking", "compiling", "done"}]
  /\ job \in [Goroutines -> {NoJob} \cup [validator : Validators, site : Sites, schema : Schemas]]
  /\ local \in [Callers -> SUBSET Schemas]
  /\ result \in [Callers -> {Absent, Failed} \cup Compiled]

\* The validators sharing the cache were given the same compile options.
SameOptions == \A v, w \in Validators : OptionsOf[v] = OptionsOf[w]

\* The answer a caller works with is the one it would have compiled itself.
Transparent(c) == result[c] # Absent => result[c] = Fresh(job[c])

\* The documents are of one version.
SameVersions == \A v, w \in Validators : docVersion[v] = docVersion[w]

\* Body and document schemas: caching never changes a verdict, whatever other
\* calls, constructors, releases and evictions do in between, even between
\* validators of documents of different versions; the strict validator shares
\* the bare hash with parameters, needs documents of one version, and finds
\* there a circular schema it could not have compiled itself.
BodiesTransparent ==
  SameOptions =>
    \A c \in Callers :
      job[c] # NoJob
        /\ (\/ job[c].site \in {"request", "response"} \cup DocumentSites
            \/ job[c].site = "strict" /\ SameVersions /\ job[c].schema \notin circular)
        => Transparent(c)

\* "cached schemas produce the same validation results as freshly compiled
\* schemas" (parameters/validate_parameter_test.go).
ParametersTransparent ==
  \A c \in Callers : job[c] # NoJob /\ job[c].site = "parameter" => Transparent(c)

\* Every entry under a key that names a version is what compiling for that
\* version and purpose gives, so it does not matter who stored it.
EntriesFaithful ==
  SameOptions =>
    \A k \in Keys : \A v \in Validators :
      k.version # "any" /\ cache[k] # Absent
        => cache[k] = Compile(k.schema, k.purpose, k.version, OptionsOf[v])
================================================================================
