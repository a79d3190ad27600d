------------------------------ MODULE SchemaProofs ------------------------------
(***************************************************************************)
(* Proofs about the schemas requests are validated with.                   *)
(*                                                                         *)
(* SchemaCaching, for any validators, callers and schemas, any sites in    *)
(* use, and with or without eviction; SchemaPreparation, for any schemas,  *)
(* however they refer to each other.                                       *)
(***************************************************************************)
EXTENDS SchemaCaching, SchemaPreparation, FiniteSetTheorems, WellFoundedInduction, TLAPS

--------------------------------------------------------------------------------
(* SchemaCaching.                                                          *)

WarmSites == {"request", "response", "parameter"}

\* A goroutine that compiles, or has an answer, has a job; a constructor's is its
\* own, for one of the sites it warms.
JobInv ==
  /\ \A g \in Goroutines : pc[g] # "idle" => job[g] # NoJob
  /\ \A v \in Validators :
       pc[v] = "compiling" => job[v].validator = v /\ job[v].site \in WarmSites

\* An answer is there exactly when a lookup is over.
ResultInv == \A c \in Callers : pc[c] # "done" => result[c] = Absent

Typed == TypeOK /\ JobInv /\ ResultInv

JobRecords == [validator : Validators, site : Sites, schema : Schemas]

--------------------------------------------------------------------------------
(* Compiling and keys.                                                     *)

\* A version, a purpose and a key for every job.
LEMMA JobFacts ==
  ASSUME docVersion \in [Validators -> Versions], NEW j \in JobRecords
  PROVE  /\ VersionAt(j) \in Versions /\ PurposeAt(j.site) \in Purposes
         /\ Fresh(j) \in {Failed} \cup Compiled
         /\ KeyOf(j) \in Keys
<1>1. VersionAt(j) \in Versions
  <2>1. CASE j.site \in {"parameter", "document31"}
    BY <2>1 DEF VersionAt, Versions
  <2>2. CASE j.site = "document30"
    BY <2>2 DEF VersionAt, Versions
  <2>3. CASE j.site \notin {"parameter", "document31", "document30"}
    BY <2>3 DEF VersionAt, JobRecords
  <2> QED
    BY <2>1, <2>2, <2>3
<1>2. PurposeAt(j.site) \in Purposes
  BY DEF PurposeAt, Purposes
<1>3. Fresh(j) \in {Failed} \cup Compiled
  BY <1>2 DEF Fresh, StrictCompile, Compile, Compiled, JobRecords, Purposes
<1>4. KeyOf(j) \in Keys
  BY <1>1, <1>2 DEF KeyOf, DocumentCacheKey, SchemaCacheKey, Keys, JobRecords, Purposes
<1> QED
  BY <1>1, <1>2, <1>3, <1>4

\* What an entry that was stored under the key of a job holds: it was compiled
\* for the purpose of the key and, unless it is a bare hash, for its version.
LEMMA KeyFields ==
  ASSUME docVersion \in [Validators -> Versions], NEW j \in JobRecords
  PROVE  /\ KeyOf(j).schema = j.schema /\ KeyOf(j).purpose = PurposeAt(j.site)
         /\ KeyOf(j).version # "any" => KeyOf(j).version = VersionAt(j)
         /\ j.site \in {"request", "response"} \cup DocumentSites => KeyOf(j).version # "any"
         /\ j.site \in {"parameter", "strict"} =>
              KeyOf(j) = [schema |-> j.schema, version |-> "any", purpose |-> "generic"]
<1>1. VersionAt(j) # "any"
  BY JobFacts DEF Versions
<1>2. CASE j.site \in DocumentSites
  BY <1>1, <1>2 DEF KeyOf, DocumentCacheKey, DocumentSites, PurposeAt
<1>3. CASE j.site \in {"request", "response"}
  BY <1>1, <1>3 DEF KeyOf, SchemaCacheKey, DocumentSites, PurposeAt
<1>4. CASE j.site \in {"parameter", "strict"}
  BY <1>1, <1>4 DEF KeyOf, SchemaCacheKey, DocumentSites, PurposeAt
<1> QED
  BY <1>2, <1>3, <1>4 DEF JobRecords, Sites, DocumentSites

\* The key a constructor stores under, and what it stores.
LEMMA WarmFacts ==
  ASSUME docVersion \in [Validators -> Versions], NEW v \in Validators,
         NEW schema \in Schemas, NEW site \in WarmSites
  PROVE  LET key == SchemaCacheKey(schema, docVersion[v], PurposeAt(site))
         IN  /\ key \in Keys /\ key.schema = schema /\ key.purpose = PurposeAt(site)
             /\ key.version # "any" => key.version = docVersion[v]
             /\ Compile(schema, PurposeAt(site), docVersion[v], OptionsOf[v]) \in {Failed} \cup Compiled
<1>1. PurposeAt(site) \in Purposes /\ docVersion[v] \in Versions
  BY DEF PurposeAt, Purposes
<1> QED
  BY <1>1 DEF SchemaCacheKey, Keys, Purposes, Compile, Compiled

--------------------------------------------------------------------------------
(* Types.                                                                  *)

LEMMA TypedInit == Init => Typed
<1> SUFFICES ASSUME Init PROVE Typed
  OBVIOUS
<1>1. TypeOK
  BY DEF Init, TypeOK, Goroutines
<1> QED
  BY <1>1, CachingAssumption DEF Init, Typed, JobInv, ResultInv, Goroutines

\* A step that moves one goroutine keeps JobInv and ResultInv if that one does.
LEMMA OneMoves ==
  ASSUME JobInv, ResultInv, NEW g \in Goroutines,
         \A h \in Goroutines \ {g} : pc'[h] = pc[h] /\ job'[h] = job[h],
         \A c \in Callers \ {g} : result'[c] = result[c],
         pc'[g] # "idle" => job'[g] # NoJob,
         g \in Validators /\ pc'[g] = "compiling" => job'[g].validator = g /\ job'[g].site \in WarmSites,
         g \in Callers /\ pc'[g] # "done" => result'[g] = Absent
  PROVE  JobInv' /\ ResultInv'
<1>1. \A h \in Goroutines : pc'[h] # "idle" => job'[h] # NoJob
  BY DEF JobInv
<1>2. ASSUME NEW v \in Validators, pc'[v] = "compiling"
      PROVE  job'[v].validator = v /\ job'[v].site \in WarmSites
  <2>1. CASE v = g
    BY <1>2, <2>1
  <2>2. CASE v # g
    BY <1>2, <2>2 DEF JobInv, Goroutines
  <2> QED
    BY <2>1, <2>2
<1>3. ASSUME NEW c \in Callers, pc'[c] # "done" PROVE result'[c] = Absent
  BY <1>3 DEF ResultInv, Goroutines
<1> QED
  BY <1>1, <1>2, <1>3 DEF JobInv, ResultInv

\* A warming step.
LEMMA TypedWarming ==
  ASSUME Typed, NEW v \in Validators,
         \/ \E use \in toWarm[v] : WarmLookup(v, use)
         \/ WarmStore(v) \/ WarmDone(v) \/ Release(v)
  PROVE  Typed'
<1>0. v \in Goroutines /\ v \notin Callers
  BY CachingAssumption DEF Goroutines
<1>1. ASSUME NEW use \in toWarm[v], WarmLookup(v, use)
      PROVE  Typed'
  <2>1. use \in [site : WarmSites, schema : Schemas]
    BY DEF Typed, TypeOK, WarmSites
  <2> DEFINE warm == [validator |-> v, site |-> use.site, schema |-> use.schema]
  <2>2. warm \in JobRecords /\ warm # NoJob /\ warm.validator = v /\ warm.site \in WarmSites
    BY <2>1, CachingAssumption DEF JobRecords, WarmSites, Sites
  <2> HIDE DEF warm
  <2>3. \/ pc' = [pc EXCEPT ![v] = "compiling"] /\ job' = [job EXCEPT ![v] = warm]
        \/ UNCHANGED <<pc, job>>
    BY <1>1 DEF WarmLookup, warm
  <2>4. TypeOK'
    BY <1>0, <1>1, <2>2, <2>3 DEF WarmLookup, Typed, TypeOK, JobRecords
  <2>5. \A h \in Goroutines \ {v} : pc'[h] = pc[h] /\ job'[h] = job[h]
    BY <2>3 DEF Typed, TypeOK
  <2>6. \/ pc'[v] = "compiling" /\ job'[v] = warm
        \/ pc'[v] = pc[v] /\ job'[v] = job[v]
    BY <1>0, <2>3 DEF Typed, TypeOK
  <2>7. UNCHANGED result /\ pc[v] = "idle"
    BY <1>1 DEF WarmLookup
  <2>8. JobInv' /\ ResultInv'
    BY <1>0, <2>2, <2>5, <2>6, <2>7, OneMoves DEF Typed
  <2> QED
    BY <2>4, <2>8 DEF Typed
<1>2. CASE WarmStore(v)
  <2>1. job[v] \in JobRecords /\ job[v].validator = v /\ job[v].site \in WarmSites
    BY <1>0, <1>2 DEF WarmStore, Typed, TypeOK, JobInv, JobRecords
  <2>2. job[v].schema \in Schemas
    BY <2>1 DEF JobRecords
  <2> DEFINE purpose == PurposeAt(job[v].site)
             made == Compile(job[v].schema, purpose, docVersion[v], OptionsOf[v])
             key == SchemaCacheKey(job[v].schema, docVersion[v], purpose)
  <2>3. key \in Keys /\ made \in {Failed} \cup Compiled
    BY <2>1, <2>2, WarmFacts DEF Typed, TypeOK
  <2>4. cache' = IF made = Failed THEN cache ELSE [cache EXCEPT ![key] = made]
    BY <1>2 DEF WarmStore
  <2> HIDE DEF key, made
  <2>5. cache' \in [Keys -> {Absent} \cup Compiled]
    BY <2>3, <2>4 DEF Typed, TypeOK
  <2>6. TypeOK'
    BY <1>0, <1>2, <2>5 DEF WarmStore, Typed, TypeOK
  <2>7. JobInv' /\ ResultInv'
    BY <1>0, <1>2 DEF WarmStore, Typed, TypeOK, JobInv, ResultInv
  <2> QED
    BY <2>6, <2>7 DEF Typed
<1>3. CASE WarmDone(v)
  BY <1>3 DEF WarmDone, Typed, TypeOK, JobInv, ResultInv
<1>4. CASE Release(v)
  BY <1>4 DEF Release, Typed, TypeOK, JobInv, ResultInv
<1> QED
  BY <1>1, <1>2, <1>3, <1>4

\* The two lookups find an entry, or go on to compile; a strict one may find its
\* own copy instead.
LEMMA LookupCases ==
  ASSUME NEW c \in Callers, NEW j \in Jobs, Lookup(c, j) \/ StrictLookup(c, j)
  PROVE  /\ MayAsk(c, j) /\ job' = [job EXCEPT ![c] = j]
         /\ UNCHANGED <<docVersion, circular, cache, toWarm, life, local>>
         /\ \/ pc' = [pc EXCEPT ![c] = "compiling"] /\ UNCHANGED result
            \/ /\ pc' = [pc EXCEPT ![c] = "done"]
               /\ \/ cache[KeyOf(j)] # Absent /\ result' = [result EXCEPT ![c] = cache[KeyOf(j)]]
                  \/ result' = [result EXCEPT ![c] = Fresh(j)]
BY DEF Lookup, StrictLookup

\* A step of a caller.
LEMMA TypedCall ==
  ASSUME Typed, NEW c \in Callers,
         \/ \E j \in Jobs : Lookup(c, j) \/ StrictLookup(c, j)
         \/ CompileAndStore(c) \/ Continue(c) \/ Return(c)
  PROVE  Typed'
<1>0. c \in Goroutines /\ c \notin Validators
  BY CachingAssumption DEF Goroutines
<1>1. ASSUME NEW j \in Jobs, Lookup(c, j) \/ StrictLookup(c, j)
      PROVE  Typed'
  <2>1. j \in JobRecords /\ j # NoJob
    BY CachingAssumption DEF Jobs, JobRecords
  <2>2. KeyOf(j) \in Keys /\ Fresh(j) \in {Failed} \cup Compiled
    BY <2>1, JobFacts DEF Typed, TypeOK
  <2>3. result' \in [Callers -> {Absent, Failed} \cup Compiled]
    BY <1>1, <2>2, LookupCases DEF Typed, TypeOK
  <2>4. pc' \in [Goroutines -> {"idle", "asking", "compiling", "done"}]
    BY <1>1, LookupCases DEF Typed, TypeOK
  <2>5. job' \in [Goroutines -> {NoJob} \cup JobRecords]
    BY <1>1, <2>1, LookupCases DEF Typed, TypeOK, JobRecords
  <2>6. TypeOK'
    BY <1>1, <2>3, <2>4, <2>5, LookupCases DEF Typed, TypeOK, JobRecords
  <2>7. pc[c] # "done" /\ result[c] = Absent
    BY <1>1, LookupCases DEF MayAsk, Typed, ResultInv
  <2>8. /\ \A h \in Goroutines \ {c} : pc'[h] = pc[h] /\ job'[h] = job[h]
        /\ \A d \in Callers \ {c} : result'[d] = result[d]
    BY <1>1, LookupCases DEF Typed, TypeOK
  <2>9. job'[c] = j
    BY <1>0, <1>1, LookupCases DEF Typed, TypeOK
  <2>10. pc'[c] # "done" => result'[c] = Absent
    <3>1. \/ UNCHANGED result
          \/ pc' = [pc EXCEPT ![c] = "done"]
      BY <1>1, LookupCases
    <3> QED
      BY <1>0, <2>7, <3>1 DEF Typed, TypeOK
  <2>11. JobInv' /\ ResultInv'
    BY <1>0, <2>1, <2>8, <2>9, <2>10, OneMoves DEF Typed
  <2> QED
    BY <2>6, <2>11 DEF Typed
<1>2. CASE CompileAndStore(c)
  <2>1. job[c] \in JobRecords
    BY <1>0, <1>2 DEF CompileAndStore, Typed, TypeOK, JobInv, JobRecords
  <2>2. KeyOf(job[c]) \in Keys /\ Fresh(job[c]) \in {Failed} \cup Compiled /\ job[c].schema \in Schemas
    BY <2>1, JobFacts DEF Typed, TypeOK, JobRecords
  <2>3. cache' \in [Keys -> {Absent} \cup Compiled]
    BY <1>2, <2>2 DEF CompileAndStore, Typed, TypeOK
  <2>4. local' \in [Callers -> SUBSET Schemas] /\ result' \in [Callers -> {Absent, Failed} \cup Compiled]
    BY <1>2, <2>2 DEF CompileAndStore, Typed, TypeOK
  <2>5. TypeOK'
    BY <1>2, <2>3, <2>4 DEF CompileAndStore, Typed, TypeOK
  <2>6. JobInv' /\ ResultInv'
    BY <1>0, <1>2 DEF CompileAndStore, Typed, TypeOK, JobInv, ResultInv
  <2> QED
    BY <2>5, <2>6 DEF Typed
<1>3. CASE Continue(c)
  BY <1>0, <1>3 DEF Continue, Typed, TypeOK, JobInv, ResultInv
<1>4. CASE Return(c)
  BY <1>0, <1>4 DEF Return, Typed, TypeOK, JobInv, ResultInv
<1> QED
  BY <1>1, <1>2, <1>3, <1>4

LEMMA TypedStep == Typed /\ [Next]_vars => Typed'
<1> SUFFICES ASSUME Typed, [Next]_vars PROVE Typed'
  OBVIOUS
<1>1. CASE \E k \in Keys : Evict(k)
  BY <1>1 DEF Evict, Typed, TypeOK, JobInv, ResultInv
<1>2. CASE UNCHANGED vars
  BY <1>2 DEF vars, Typed, TypeOK, JobInv, ResultInv
<1> QED
  BY <1>1, <1>2, TypedWarming, TypedCall DEF Next

\* The cache holds compiled schemas only, never a failure, and every goroutine's
\* bookkeeping keeps its type, for any number of validators and callers.
THEOREM TypeCorrect == Spec => []TypeOK
<1>1. Typed => TypeOK
  BY DEF Typed
<1> QED
  BY <1>1, TypedInit, TypedStep, PTL DEF Spec

--------------------------------------------------------------------------------
(* Entries.                                                                *)

\* Documents of one version: an entry under a bare hash is what compiling for
\* that version gives.  A parameter schema is compiled for 3.1 instead, but is
\* not stored if that makes a difference: it does not compile then.
BareFaithful ==
  SameOptions /\ SameVersions =>
    \A k \in Keys : \A v \in Validators :
      k.version = "any" /\ cache[k] # Absent
        => cache[k] = Compile(k.schema, k.purpose, docVersion[v], OptionsOf[v])

Entries == EntriesFaithful /\ BareFaithful

\* A store of what its key stands for keeps all entries faithful.
LEMMA StoreFaithful ==
  ASSUME TypeOK, Entries, NEW key \in Keys, NEW x,
         cache' = [cache EXCEPT ![key] = x], UNCHANGED docVersion,
         SameOptions /\ key.version # "any" =>
           \A v \in Validators : x = Compile(key.schema, key.purpose, key.version, OptionsOf[v]),
         SameOptions /\ SameVersions /\ key.version = "any" =>
           \A v \in Validators : x = Compile(key.schema, key.purpose, docVersion[v], OptionsOf[v])
  PROVE  Entries'
<1>1. cache'[key] = x /\ \A k \in Keys \ {key} : cache'[k] = cache[k]
  BY DEF TypeOK
<1>2. EntriesFaithful'
  <2> SUFFICES ASSUME SameOptions, NEW k \in Keys, NEW v \in Validators,
                      k.version # "any", cache'[k] # Absent
               PROVE  cache'[k] = Compile(k.schema, k.purpose, k.version, OptionsOf[v])
    BY DEF EntriesFaithful
  <2> QED
    BY <1>1 DEF Entries, EntriesFaithful
<1>3. BareFaithful'
  <2> SUFFICES ASSUME SameOptions, SameVersions, NEW k \in Keys, NEW v \in Validators,
                      k.version = "any", cache'[k] # Absent
               PROVE  cache'[k] = Compile(k.schema, k.purpose, docVersion[v], OptionsOf[v])
    BY DEF BareFaithful, SameVersions
  <2> QED
    BY <1>1 DEF Entries, BareFaithful
<1> QED
  BY <1>2, <1>3 DEF Entries

\* Losing entries, all of them or one, is no harm.
LEMMA LossFaithful ==
  ASSUME Entries, UNCHANGED docVersion,
         \A k \in Keys : cache'[k] \in {Absent, cache[k]}
  PROVE  Entries'
<1>1. EntriesFaithful'
  <2> SUFFICES ASSUME SameOptions, NEW k \in Keys, NEW v \in Validators,
                      k.version # "any", cache'[k] # Absent
               PROVE  cache'[k] = Compile(k.schema, k.purpose, k.version, OptionsOf[v])
    BY DEF EntriesFaithful
  <2>1. cache'[k] = cache[k]
    OBVIOUS
  <2> QED
    BY <2>1 DEF Entries, EntriesFaithful
<1>2. BareFaithful'
  <2> SUFFICES ASSUME SameOptions, SameVersions, NEW k \in Keys, NEW v \in Validators,
                      k.version = "any", cache'[k] # Absent
               PROVE  cache'[k] = Compile(k.schema, k.purpose, docVersion[v], OptionsOf[v])
    BY DEF BareFaithful, SameVersions
  <2>1. cache'[k] = cache[k]
    OBVIOUS
  <2> QED
    BY <2>1 DEF Entries, BareFaithful
<1> QED
  BY <1>1, <1>2 DEF Entries

\* A constructor stores what the key stands for.
LEMMA WarmStoreFaithful ==
  ASSUME Typed, Entries, NEW v \in Validators, WarmStore(v)
  PROVE  Entries'
<1>1. /\ job[v].site \in WarmSites /\ job[v].schema \in Schemas
      /\ docVersion \in [Validators -> Versions]
  BY CachingAssumption DEF WarmStore, Typed, TypeOK, JobInv, Goroutines
<1> DEFINE purpose == PurposeAt(job[v].site)
           made == Compile(job[v].schema, purpose, docVersion[v], OptionsOf[v])
           key == SchemaCacheKey(job[v].schema, docVersion[v], purpose)
<1>2. /\ key \in Keys /\ key.schema = job[v].schema /\ key.purpose = purpose
      /\ key.version # "any" => key.version = docVersion[v]
  BY <1>1, WarmFacts
<1>3. /\ cache' = IF made = Failed THEN cache ELSE [cache EXCEPT ![key] = made]
      /\ UNCHANGED docVersion
  BY DEF WarmStore
<1>4. SameOptions /\ key.version # "any" =>
        \A w \in Validators : made = Compile(key.schema, key.purpose, key.version, OptionsOf[w])
  BY <1>2 DEF SameOptions
<1>5. SameOptions /\ SameVersions =>
        \A w \in Validators : made = Compile(key.schema, key.purpose, docVersion[w], OptionsOf[w])
  <2> SUFFICES ASSUME SameOptions, SameVersions, NEW w \in Validators
               PROVE  made = Compile(key.schema, key.purpose, docVersion[w], OptionsOf[w])
    OBVIOUS
  <2>1. OptionsOf[v] = OptionsOf[w] /\ docVersion[v] = docVersion[w]
    BY DEF SameOptions, SameVersions
  <2> QED
    BY <1>2, <2>1
<1> HIDE DEF key, made
<1>6. CASE made = Failed
  BY <1>3, <1>6, LossFaithful
<1>7. CASE made # Failed
  BY <1>2, <1>3, <1>4, <1>5, <1>7, StoreFaithful DEF Typed
<1> QED
  BY <1>6, <1>7

\* What compiles for 3.1 compiles for every version, to the same schema.
LEMMA CompilesForAll ==
  ASSUME NEW s, NEW purpose, NEW version, NEW options,
         Compile(s, purpose, "3.1", options) # Failed
  PROVE  Compile(s, purpose, "3.1", options) = Compile(s, purpose, version, options)
BY DEF Compile

\* So does a call.
LEMMA CallStoreFaithful ==
  ASSUME Typed, Entries, NEW c \in Callers, CompileAndStore(c)
  PROVE  Entries'
<1> DEFINE j == job[c]
<1>1. j \in JobRecords /\ docVersion \in [Validators -> Versions]
  BY DEF CompileAndStore, Typed, TypeOK, JobInv, Goroutines, JobRecords
<1>2. /\ KeyOf(j) \in Keys /\ KeyOf(j).schema = j.schema /\ KeyOf(j).purpose = PurposeAt(j.site)
      /\ KeyOf(j).version # "any" => KeyOf(j).version = VersionAt(j)
      /\ KeyOf(j).version = "any" => j.site \in {"parameter", "strict"}
      /\ j.validator \in Validators
  BY <1>1, JobFacts, KeyFields DEF JobRecords, Sites, DocumentSites
<1>3. CASE Fresh(j) = Failed \/ j.site = "strict"
  <2>1. UNCHANGED <<cache, docVersion>>
    BY <1>3 DEF CompileAndStore
  <2> QED
    BY <2>1, LossFaithful
<1>4. CASE Fresh(j) # Failed /\ j.site # "strict"
  <2>1. cache' = [cache EXCEPT ![KeyOf(j)] = Fresh(j)] /\ UNCHANGED docVersion
    BY <1>4 DEF CompileAndStore
  <2>2. ASSUME SameOptions, KeyOf(j).version # "any", NEW v \in Validators
        PROVE  Fresh(j) = Compile(KeyOf(j).schema, KeyOf(j).purpose, KeyOf(j).version, OptionsOf[v])
    BY <1>2, <1>4, <2>2 DEF Fresh, SameOptions
  <2>3. ASSUME SameOptions, KeyOf(j).version = "any", NEW v \in Validators
        PROVE  Fresh(j) = Compile(KeyOf(j).schema, KeyOf(j).purpose, docVersion[v], OptionsOf[v])
    <3>1. j.site = "parameter"
      BY <1>2, <1>4, <2>3
    <3>2. Fresh(j) = Compile(j.schema, PurposeAt(j.site), "3.1", OptionsOf[v])
      BY <1>2, <2>3, <3>1 DEF Fresh, VersionAt, SameOptions
    <3> QED
      BY <1>2, <1>4, <3>2, CompilesForAll
  <2> QED
    BY <1>2, <2>1, <2>2, <2>3, StoreFaithful DEF Typed
<1> QED
  BY <1>3, <1>4

LEMMA EntriesStep == Typed /\ Entries /\ [Next]_vars => Entries'
<1> SUFFICES ASSUME Typed, Entries, [Next]_vars PROVE Entries'
  OBVIOUS
<1>1. ASSUME UNCHANGED <<cache, docVersion>> PROVE Entries'
  BY <1>1, LossFaithful
<1>2. ASSUME NEW v \in Validators,
             \/ \E use \in toWarm[v] : WarmLookup(v, use)
             \/ WarmStore(v) \/ WarmDone(v) \/ Release(v)
      PROVE  Entries'
  <2>1. CASE \E use \in toWarm[v] : WarmLookup(v, use)
    BY <1>1, <2>1 DEF WarmLookup
  <2>2. CASE WarmStore(v)
    BY <2>2, WarmStoreFaithful
  <2>3. CASE WarmDone(v)
    BY <1>1, <2>3 DEF WarmDone
  <2>4. CASE Release(v)
    BY <2>4, LossFaithful DEF Release
  <2> QED
    BY <1>2, <2>1, <2>2, <2>3, <2>4
<1>3. ASSUME NEW c \in Callers,
             \/ \E j \in Jobs : Lookup(c, j) \/ StrictLookup(c, j)
             \/ CompileAndStore(c) \/ Continue(c) \/ Return(c)
      PROVE  Entries'
  <2>1. CASE \E j \in Jobs : Lookup(c, j) \/ StrictLookup(c, j)
    BY <1>1, <2>1, LookupCases
  <2>2. CASE CompileAndStore(c)
    BY <2>2, CallStoreFaithful
  <2>3. CASE Continue(c) \/ Return(c)
    BY <1>1, <2>3 DEF Continue, Return
  <2> QED
    BY <1>3, <2>1, <2>2, <2>3
<1>4. ASSUME NEW k \in Keys, Evict(k) PROVE Entries'
  <2>1. \A m \in Keys : cache'[m] \in {Absent, cache[m]}
    BY <1>4 DEF Evict, Typed, TypeOK
  <2> QED
    BY <1>4, <2>1, LossFaithful DEF Evict
<1>5. CASE UNCHANGED vars
  BY <1>1, <1>5 DEF vars
<1> QED
  BY <1>2, <1>3, <1>4, <1>5 DEF Next

LEMMA EntriesInit == Init => Entries
BY DEF Init, Entries, EntriesFaithful, BareFaithful

\* Whoever stored an entry under a key that names a version, and whoever removed
\* or replaced it since: it is what compiling for that version and purpose gives.
THEOREM EntriesStayFaithful == Spec => []EntriesFaithful
<1> DEFINE Inv == Typed /\ Entries
<1>1. Init => Inv
  BY TypedInit, EntriesInit
<1>2. Inv /\ [Next]_vars => Inv'
  BY TypedStep, EntriesStep
<1>3. Inv => EntriesFaithful
  BY DEF Entries
<1> QED
  BY <1>1, <1>2, <1>3, PTL DEF Spec

--------------------------------------------------------------------------------
(* Lookups.                                                                *)

\* The jobs whose lookups the cache must not change.
Covered(j) ==
  \/ j.site \in {"request", "response"} \cup DocumentSites
  \/ j.site = "strict" /\ SameVersions /\ j.schema \notin circular

\* An entry found for such a job is what the job would have compiled.
LEMMA EntryIsFresh ==
  ASSUME Typed, Entries, SameOptions, NEW j \in JobRecords, Covered(j),
         cache[KeyOf(j)] # Absent
  PROVE  cache[KeyOf(j)] = Fresh(j)
<1>1. docVersion \in [Validators -> Versions] /\ KeyOf(j) \in Keys /\ j.validator \in Validators
  BY JobFacts DEF Typed, TypeOK, JobRecords
<1>2. KeyOf(j).schema = j.schema /\ KeyOf(j).purpose = PurposeAt(j.site)
  BY <1>1, KeyFields
<1>3. CASE j.site \in {"request", "response"} \cup DocumentSites
  <2>1. KeyOf(j).version # "any" /\ KeyOf(j).version = VersionAt(j)
    BY <1>1, <1>3, KeyFields
  <2>2. j.site # "strict"
    BY <1>3 DEF DocumentSites
  <2> QED
    BY <1>1, <1>2, <2>1, <2>2 DEF Entries, EntriesFaithful, Fresh
<1>4. CASE j.site = "strict" /\ SameVersions /\ j.schema \notin circular
  <2>1. KeyOf(j).version = "any" /\ VersionAt(j) = docVersion[j.validator]
    BY <1>1, <1>4, KeyFields DEF VersionAt
  <2>2. KeyOf(j).purpose = "generic"
    BY <1>2, <1>4 DEF PurposeAt
  <2> QED
    BY <1>1, <1>2, <1>4, <2>1, <2>2 DEF Entries, BareFaithful, Fresh, StrictCompile
<1> QED
  BY <1>3, <1>4 DEF Covered

\* BodiesTransparent, for one caller.
Answered(c) ==
  SameOptions /\ job[c] # NoJob /\ Covered(job[c]) => Transparent(c)

LEMMA AnsweredAll == BodiesTransparent <=> \A c \in Callers : Answered(c)
BY DEF BodiesTransparent, Answered, Covered

\* An answer stays right as long as its goroutine does not move; no answer is
\* none; an answer that was found or compiled for the job is right.
LEMMA AnswerKept ==
  ASSUME NEW c \in Callers, Answered(c), UNCHANGED <<docVersion, circular>>,
         result'[c] = result[c], job'[c] = job[c]
  PROVE  Answered(c)'
BY DEF Answered, Covered, SameVersions, Transparent, Fresh, StrictCompile, VersionAt

LEMMA AnswerAbsent ==
  ASSUME NEW c \in Callers, result'[c] = Absent
  PROVE  Answered(c)'
BY DEF Answered, Transparent

LEMMA AnswerFresh ==
  ASSUME NEW c \in Callers, NEW j, job'[c] = j, UNCHANGED <<docVersion, circular>>,
         SameOptions /\ Covered(j) => result'[c] = Fresh(j)
  PROVE  Answered(c)'
BY DEF Answered, Covered, SameVersions, Transparent, Fresh, StrictCompile, VersionAt

LEMMA AnsweredStep ==
  ASSUME Typed, Entries, [Next]_vars, NEW c \in Callers, Answered(c)
  PROVE  Answered(c)'
<1>0. c \in Goroutines /\ c \notin Validators /\ UNCHANGED <<docVersion, circular>>
  <2>1. UNCHANGED <<docVersion, circular>>
    BY LookupCases DEF Next, vars, WarmLookup, WarmStore, WarmDone, Release, Evict,
                       CompileAndStore, Continue, Return
  <2> QED
    BY <2>1, CachingAssumption DEF Goroutines
<1>1. ASSUME NEW v \in Validators,
             \/ \E use \in toWarm[v] : WarmLookup(v, use)
             \/ WarmStore(v) \/ WarmDone(v) \/ Release(v)
      PROVE  Answered(c)'
  <2>1. result' = result
    BY <1>1 DEF WarmLookup, WarmStore, WarmDone, Release
  <2>2. job'[c] = job[c]
    BY <1>0, <1>1 DEF WarmLookup, WarmStore, WarmDone, Release, Typed, TypeOK
  <2> QED
    BY <1>0, <2>1, <2>2, AnswerKept
<1>2. ASSUME NEW d \in Callers \ {c},
             \/ \E j \in Jobs : Lookup(d, j) \/ StrictLookup(d, j)
             \/ CompileAndStore(d) \/ Continue(d) \/ Return(d)
      PROVE  Answered(c)'
  <2>1. job'[c] = job[c]
    BY <1>0, <1>2, LookupCases DEF CompileAndStore, Continue, Return, Typed, TypeOK
  <2>2. result'[c] = result[c]
    <3>1. CASE \E j \in Jobs : Lookup(d, j) \/ StrictLookup(d, j)
      <4>1. PICK x : result' = result \/ result' = [result EXCEPT ![d] = x]
        BY <3>1, LookupCases
      <4> QED
        BY <4>1 DEF Typed, TypeOK
    <3>2. CASE CompileAndStore(d)
      BY <3>2 DEF CompileAndStore, Typed, TypeOK
    <3>3. CASE Continue(d) \/ Return(d)
      BY <3>3 DEF Continue, Return, Typed, TypeOK
    <3> QED
      BY <1>2, <3>1, <3>2, <3>3
  <2> QED
    BY <1>0, <2>1, <2>2, AnswerKept
<1>3. ASSUME NEW j \in Jobs, Lookup(c, j) \/ StrictLookup(c, j)
      PROVE  Answered(c)'
  <2>1. j \in JobRecords /\ job'[c] = j
    BY <1>0, <1>3, LookupCases, CachingAssumption DEF Jobs, JobRecords, Typed, TypeOK
  <2>2. CASE UNCHANGED result
    <3>1. result[c] = Absent
      BY <1>3, LookupCases DEF MayAsk, Typed, ResultInv
    <3> QED
      BY <2>2, <3>1, AnswerAbsent
  <2>3. CASE cache[KeyOf(j)] # Absent /\ result' = [result EXCEPT ![c] = cache[KeyOf(j)]]
    <3>1. result'[c] = cache[KeyOf(j)]
      BY <2>3 DEF Typed, TypeOK
    <3>2. SameOptions /\ Covered(j) => result'[c] = Fresh(j)
      BY <2>1, <2>3, <3>1, EntryIsFresh
    <3> QED
      BY <1>0, <2>1, <3>2, AnswerFresh
  <2>4. CASE result' = [result EXCEPT ![c] = Fresh(j)]
    <3>1. result'[c] = Fresh(j)
      BY <2>4 DEF Typed, TypeOK
    <3> QED
      BY <1>0, <2>1, <3>1, AnswerFresh
  <2> QED
    BY <1>3, <2>2, <2>3, <2>4, LookupCases
<1>4. CASE CompileAndStore(c)
  <2>1. result'[c] = Fresh(job[c]) /\ job'[c] = job[c]
    BY <1>4 DEF CompileAndStore, Typed, TypeOK
  <2>2. PICK j : j = job[c]
    OBVIOUS
  <2> QED
    BY <1>0, <2>1, <2>2, AnswerFresh
<1>5. CASE Continue(c) \/ Return(c)
  <2>1. result'[c] = Absent
    BY <1>5 DEF Continue, Return, Typed, TypeOK
  <2> QED
    BY <2>1, AnswerAbsent
<1>6. CASE (\E k \in Keys : Evict(k)) \/ UNCHANGED vars
  BY <1>0, <1>6, AnswerKept DEF Evict, vars
<1> QED
  BY <1>1, <1>2, <1>3, <1>4, <1>5, <1>6 DEF Next

\* Caching never changes what a body or a standalone schema is validated with,
\* whatever is stored, evicted or released between a caller's steps; nor what
\* the strict matcher uses, if the documents are of one version.
THEOREM CachingIsTransparent == Spec => []BodiesTransparent
<1> DEFINE Inv == Typed /\ Entries /\ BodiesTransparent
<1>1. Init => Inv
  <2>1. Init => BodiesTransparent
    BY DEF Init, BodiesTransparent, Transparent
  <2> QED
    BY <2>1, TypedInit, EntriesInit
<1>2. Inv /\ [Next]_vars => Inv'
  <2> SUFFICES ASSUME Inv, [Next]_vars PROVE BodiesTransparent'
    BY TypedStep, EntriesStep
  <2>1. \A c \in Callers : Answered(c)'
    BY AnsweredAll, AnsweredStep
  <2>2. BodiesTransparent' <=> \A c \in Callers : Answered(c)'
    BY DEF BodiesTransparent, Answered, Covered
  <2> QED
    BY <2>1, <2>2
<1> QED
  BY <1>1, <1>2, PTL DEF Spec

--------------------------------------------------------------------------------
(* SchemaPreparation: where steps lead.                                    *)

\* A set of naturals with 0 and the successor of each of its members is Nat.
LEMMA SetInduction ==
  ASSUME NEW S \in SUBSET Nat, 0 \in S, \A n \in S : n + 1 \in S
  PROVE  S = Nat
<1> SUFFICES ASSUME Nat \ S # {} PROVE FALSE
  OBVIOUS
<1>1. \A i, j \in Nat : i < j => <<i, j>> \in OpToRel(<, Nat)
  BY DEF OpToRel
<1>2. \E i \in Nat \ S : \A j \in Nat \ S : <<j, i>> \notin OpToRel(<, Nat)
  <2>1. Nat \ S \in SUBSET Nat
    OBVIOUS
  <2> QED
    BY <2>1, NatLessThanWellFounded, WFMin
<1>3. PICK i \in Nat \ S : \A j \in Nat \ S : ~(j < i)
  BY <1>1, <1>2, Zenon
<1>4. i # 0 /\ i - 1 \in Nat /\ i - 1 < i
  BY <1>3
<1>5. i - 1 \in S
  BY <1>3, <1>4
<1> QED
  BY <1>3, <1>4, <1>5

\* Within's function.
Iteration(f, nodes, steps) ==
  f = [k \in 0..Cardinality(DOMAIN steps) |->
         IF k = 0 THEN nodes ELSE f[k - 1] \cup UNION {steps[n] : n \in f[k - 1]}]

LEMMA IterationExists ==
  ASSUME NEW nodes, NEW steps, Cardinality(DOMAIN steps) \in Nat
  PROVE  \E f : Iteration(f, nodes, steps)
<1> DEFINE N == Cardinality(DOMAIN steps)
           Next2(s) == s \cup UNION {steps[n] : n \in s}
           Prefix(f, n) == f = [m \in 0..n |-> IF m = 0 THEN nodes ELSE Next2(f[m - 1])]
           Some(n) == \E f : Prefix(f, n)
           S == {n \in Nat : Some(n)}
<1>1. 0 \in S
  <2> HIDE DEF Next2
  <2>1. Prefix([m \in 0..0 |-> nodes], 0)
    OBVIOUS
  <2> QED
    BY <2>1
<1>2. ASSUME NEW n \in S PROVE n + 1 \in S
  <2>0. n \in Nat /\ Some(n)
    <3> HIDE DEF Some
    <3> QED
      OBVIOUS
  <2>1. PICK f : Prefix(f, n)
    BY <2>0, Zenon
  <2> HIDE DEF Next2
  <2> DEFINE g == [m \in 0..(n + 1) |-> IF m = n + 1 THEN Next2(f[n]) ELSE f[m]]
  <2>2. \A m \in 0..(n + 1) : g[m] = IF m = 0 THEN nodes ELSE Next2(g[m - 1])
    <3> SUFFICES ASSUME NEW m \in 0..(n + 1)
                 PROVE  g[m] = IF m = 0 THEN nodes ELSE Next2(g[m - 1])
      OBVIOUS
    <3>1. CASE m = n + 1
      <4>1. m # 0 /\ m - 1 = n /\ n \in 0..(n + 1) /\ n # n + 1
        BY <2>0, <3>1
      <4>2. g[m - 1] = f[n] /\ g[m] = Next2(f[n])
        BY <3>1, <4>1, Zenon
      <4> QED
        BY <4>1, <4>2, Zenon
    <3>2. CASE m # n + 1
      <4>1. m \in 0..n
        BY <2>0, <3>2
      <4>2. f[m] = IF m = 0 THEN nodes ELSE Next2(f[m - 1])
        BY <2>1, <4>1
      <4>3. g[m] = f[m]
        BY <3>2
      <4>4. m # 0 => m - 1 \in 0..(n + 1) /\ m - 1 # n + 1
        BY <2>0, <4>1
      <4>5. m # 0 => g[m - 1] = f[m - 1]
        BY <4>4
      <4> QED
        BY <4>2, <4>3, <4>5, Zenon
    <3> QED
      BY <3>1, <3>2
  <2>3. g = [m \in 0..(n + 1) |-> IF m = 0 THEN nodes ELSE Next2(g[m - 1])]
    <3>1. g = [m \in 0..(n + 1) |-> g[m]]
      BY Zenon
    <3> HIDE DEF g
    <3> QED
      BY <2>2, <3>1, Zenon
  <2>4. Some(n + 1)
    <3> HIDE DEF g
    <3> QED
      BY <2>3, Zenon
  <2> HIDE DEF Some
  <2> QED
    BY <2>0, <2>4
<1>3. S = Nat
  <2> HIDE DEF S
  <2>1. S \in SUBSET Nat
    BY DEF S
  <2> QED
    BY <1>1, <1>2, <2>1, SetInduction
<1>4. N \in S
  BY <1>3
<1>5. Some(N)
  <2> HIDE DEF Some
  <2> QED
    BY <1>4
<1>6. PICK f : Prefix(f, N)
  BY <1>5, Zenon
<1>7. Iteration(f, nodes, steps)
  BY <1>6, Zenon DEF Iteration
<1> QED
  BY <1>7, Zenon

\* It starts at the nodes, and each of its sets has one step more than the last.
LEMMA WithinFacts ==
  ASSUME NEW nodes, NEW steps, Cardinality(DOMAIN steps) \in Nat
  PROVE  \E f : /\ f[0] = nodes
                /\ Within(nodes, steps) = f[Cardinality(DOMAIN steps)]
                /\ \A k \in 0..(Cardinality(DOMAIN steps) - 1) :
                     f[k + 1] = f[k] \cup UNION {steps[n] : n \in f[k]}
<1> DEFINE N == Cardinality(DOMAIN steps)
           f == CHOOSE h : Iteration(h, nodes, steps)
           Next2(s) == s \cup UNION {steps[n] : n \in s}
<1>1. Iteration(f, nodes, steps)
  BY IterationExists, Zenon
<1>2. Within(nodes, steps) = f[N]
  BY Zenon DEF Within, Iteration
<1> HIDE DEF f
<1>3. f = [k \in 0..N |-> IF k = 0 THEN nodes ELSE Next2(f[k - 1])]
  BY <1>1, Zenon DEF Iteration
<1> HIDE DEF Next2
<1>4. f[0] = nodes
  BY <1>3
<1>5. ASSUME NEW k \in 0..(N - 1)
      PROVE  f[k + 1] = Next2(f[k])
  <2>1. k + 1 \in 0..N /\ k + 1 # 0 /\ (k + 1) - 1 = k
    OBVIOUS
  <2> QED
    BY <1>3, <2>1
<1> QED
  BY <1>2, <1>4, <1>5, Zenon DEF Next2

\* It stays in any set that steps do not leave.
LEMMA WithinStays ==
  ASSUME NEW D, NEW nodes \in SUBSET D, NEW steps, Cardinality(DOMAIN steps) \in Nat,
         \A n \in D : steps[n] \subseteq D
  PROVE  Within(nodes, steps) \subseteq D /\ nodes \subseteq Within(nodes, steps)
<1> DEFINE N == Cardinality(DOMAIN steps)
           Next2(s) == s \cup UNION {steps[n] : n \in s}
<1>1. PICK f : /\ f[0] = nodes
               /\ Within(nodes, steps) = f[N]
               /\ \A k \in 0..(N - 1) : f[k + 1] = Next2(f[k])
  BY WithinFacts
<1> DEFINE S == {k \in Nat : k <= N => f[k] \subseteq D /\ nodes \subseteq f[k]}
<1>2. 0 \in S
  BY <1>1
<1>3. ASSUME NEW k \in S PROVE k + 1 \in S
  <2> SUFFICES ASSUME k + 1 <= N PROVE f[k + 1] \subseteq D /\ nodes \subseteq f[k + 1]
    OBVIOUS
  <2>1. k \in 0..(N - 1) /\ f[k] \subseteq D /\ nodes \subseteq f[k]
    OBVIOUS
  <2>2. f[k + 1] = Next2(f[k])
    <3> HIDE DEF Next2
    <3> QED
      BY <1>1, <2>1
  <2> QED
    BY <2>1, <2>2
<1>4. S = Nat
  <2> HIDE DEF S
  <2>1. S \in SUBSET Nat
    BY DEF S
  <2> QED
    BY <1>2, <1>3, <2>1, SetInduction
<1>5. N \in S
  BY <1>4
<1> QED
  BY <1>1, <1>5

\* No step leaves it: as long as one does it gains a node, and there are no more
\* nodes than iterations.
LEMMA WithinClosed ==
  ASSUME NEW steps, IsFiniteSet(DOMAIN steps), NEW nodes \in SUBSET DOMAIN steps,
         \A n \in DOMAIN steps : steps[n] \subseteq DOMAIN steps
  PROVE  \A n \in Within(nodes, steps) : steps[n] \subseteq Within(nodes, steps)
<1> DEFINE D == DOMAIN steps
           N == Cardinality(DOMAIN steps)
           Next2(s) == s \cup UNION {steps[n] : n \in s}
           Closed(s) == \A n \in s : steps[n] \subseteq s
<1>0. N \in Nat
  BY FS_CardinalityType
<1>1. PICK f : /\ f[0] = nodes
               /\ Within(nodes, steps) = f[N]
               /\ \A k \in 0..(N - 1) : f[k + 1] = Next2(f[k])
  BY <1>0, WithinFacts
<1> DEFINE Grown(k) == /\ f[k] \in SUBSET D
                       /\ Closed(f[k]) \/ Cardinality(f[k]) >= k
           S == {k \in Nat : k <= N => Grown(k)}
<1>2. 0 \in S
  <2>1. f[0] \in SUBSET D
    BY <1>1
  <2>2. Cardinality(f[0]) >= 0
    <3>1. IsFiniteSet(f[0])
      BY <2>1, FS_Subset
    <3> QED
      BY <3>1, FS_CardinalityType
  <2> HIDE DEF Closed, N, D
  <2> QED
    BY <2>1, <2>2
<1>3. ASSUME NEW k \in S PROVE k + 1 \in S
  <2> SUFFICES ASSUME k + 1 <= N PROVE Grown(k + 1)
    <3> HIDE DEF Grown
    <3> QED
      OBVIOUS
  <2>1. k \in 0..(N - 1) /\ k \in Nat /\ Grown(k)
    <3> HIDE DEF Grown
    <3> QED
      BY <1>0
  <2>2. f[k + 1] = Next2(f[k])
    <3> HIDE DEF Next2
    <3> QED
      BY <1>1, <2>1
  <2>3. f[k + 1] \in SUBSET D /\ f[k] \in SUBSET f[k + 1]
    BY <2>1, <2>2
  <2>4. CASE Closed(f[k])
    <3>1. f[k + 1] = f[k]
      BY <2>2, <2>4
    <3> HIDE DEF Closed
    <3> QED
      BY <2>3, <2>4, <3>1
  <2>5. CASE ~Closed(f[k])
    <3>1. f[k + 1] # f[k]
      BY <2>2, <2>5
    <3>2. IsFiniteSet(f[k + 1])
      BY <2>3, FS_Subset
    <3>3. /\ Cardinality(f[k]) <= Cardinality(f[k + 1])
          /\ Cardinality(f[k + 1]) # Cardinality(f[k])
      BY <2>3, <3>1, <3>2, FS_Subset
    <3>4. Cardinality(f[k + 1]) \in Nat /\ Cardinality(f[k]) \in Nat
      BY <2>3, <3>2, FS_Subset, FS_CardinalityType
    <3>5. Cardinality(f[k]) >= k
      <4> HIDE DEF Closed
      <4> QED
        BY <2>1, <2>5
    <3>6. Cardinality(f[k + 1]) >= k + 1
      BY <2>1, <3>3, <3>4, <3>5
    <3> HIDE DEF Closed, D
    <3> QED
      BY <2>3, <3>6
  <2> QED
    BY <2>4, <2>5
<1>4. S = Nat
  <2> HIDE DEF S
  <2>1. S \in SUBSET Nat
    BY DEF S
  <2> QED
    BY <1>2, <1>3, <2>1, SetInduction
<1>5. Grown(N)
  <2>1. N \in S
    BY <1>0, <1>4
  <2> HIDE DEF Grown
  <2> QED
    BY <1>0, <2>1
<1>6. Closed(f[N])
  <2>1. CASE Cardinality(f[N]) >= N
    <3>1. /\ Cardinality(f[N]) <= N
          /\ N = Cardinality(f[N]) => D = f[N]
      BY <1>5, FS_Subset
    <3>2. Cardinality(f[N]) \in Nat
      BY <1>5, FS_Subset, FS_CardinalityType
    <3>3. D = f[N]
      BY <1>0, <2>1, <3>1, <3>2
    <3> QED
      BY <3>3
  <2> QED
    BY <1>5, <2>1
<1> QED
  BY <1>1, <1>6

--------------------------------------------------------------------------------
(* Schemas and their parts.                                                *)

LEMMA RulesFacts ==
  ASSUME task \in Tasks
  PROVE  /\ IsFiniteSet(DOMAIN Rules) /\ Cardinality(DOMAIN Rules) \in Nat
         /\ None \notin DOMAIN Rules /\ task.root \in DOMAIN Rules
         /\ \A n \in DOMAIN Rules : /\ Rules[n].ref \in DOMAIN Rules \cup {None}
                                    /\ Subschemas(Rules[n]) \subseteq DOMAIN Rules
<1>1. IsFiniteSet(DOMAIN Rules)
  BY PreparationAssumption DEF Rules
<1>2. Cardinality(DOMAIN Rules) \in Nat
  BY <1>1, FS_CardinalityType
<1>3. /\ None \notin DOMAIN Rules /\ task.root \in DOMAIN Rules
      /\ \A n \in DOMAIN Rules : /\ Rules[n].ref \in DOMAIN Rules \cup {None}
                                 /\ Subschemas(Rules[n]) \subseteq DOMAIN Rules
  BY PreparationAssumption, Zenon DEF Rules
<1> QED
  BY <1>1, <1>2, <1>3

\* A tree holds its root and the parts of all it holds, and no step leads from
\* its nodes out of a set that has their parts.
LEMMA TreeFacts ==
  ASSUME task \in Tasks, NEW n \in DOMAIN Rules
  PROVE  /\ n \in Tree(Rules, n) /\ Tree(Rules, n) \subseteq DOMAIN Rules
         /\ \A m \in Tree(Rules, n) : Subschemas(Rules[m]) \subseteq Tree(Rules, n)
         /\ \A D \in SUBSET DOMAIN Rules :
              n \in D /\ (\A m \in D : Subschemas(Rules[m]) \subseteq D) => Tree(Rules, n) \subseteq D
<1> DEFINE steps == [m \in DOMAIN Rules |-> Subschemas(Rules[m])]
<1>1. Tree(Rules, n) = Within({n}, steps)
  BY Zenon DEF Tree
<1>2. /\ DOMAIN steps = DOMAIN Rules
      /\ \A m \in DOMAIN Rules : steps[m] = Subschemas(Rules[m])
  OBVIOUS
<1> HIDE DEF steps
<1>3. /\ IsFiniteSet(DOMAIN steps) /\ Cardinality(DOMAIN steps) \in Nat
      /\ \A m \in DOMAIN Rules : steps[m] \subseteq DOMAIN Rules
  BY <1>2, RulesFacts
<1>4. ASSUME NEW D \in SUBSET DOMAIN Rules, n \in D, \A m \in D : Subschemas(Rules[m]) \subseteq D
      PROVE  Tree(Rules, n) \subseteq D /\ n \in Tree(Rules, n)
  <2>1. {n} \in SUBSET D /\ \A m \in D : steps[m] \subseteq D
    BY <1>2, <1>4
  <2>2. Within({n}, steps) \subseteq D /\ {n} \subseteq Within({n}, steps)
    BY <1>3, <2>1, WithinStays
  <2> QED
    BY <1>1, <2>2
<1>5. n \in Tree(Rules, n) /\ Tree(Rules, n) \subseteq DOMAIN Rules
  BY <1>4, RulesFacts
<1>6. \A m \in Within({n}, steps) : steps[m] \subseteq Within({n}, steps)
  <2>1. {n} \in SUBSET DOMAIN steps /\ \A m \in DOMAIN steps : steps[m] \subseteq DOMAIN steps
    BY <1>2, <1>3
  <2> QED
    BY <1>3, <2>1, WithinClosed
<1>7. \A m \in Tree(Rules, n) : Subschemas(Rules[m]) \subseteq Tree(Rules, n)
  BY <1>1, <1>2, <1>5, <1>6
<1> QED
  BY <1>4, <1>5, <1>7

\* The same of all that the compiled schema is made of, where references count
\* as steps.
LEMMA PartsFacts ==
  ASSUME task \in Tasks
  PROVE  /\ task.root \in Parts /\ Parts \subseteq DOMAIN Rules
         /\ \A m \in Parts : Below(Rules[m]) \subseteq Parts
         /\ \A D \in SUBSET DOMAIN Rules :
              task.root \in D /\ (\A m \in D : Below(Rules[m]) \subseteq D) => Parts \subseteq D
<1> DEFINE steps == [m \in DOMAIN Rules |-> Below(Rules[m])]
           root == task.root
<1>1. Parts = Within({root}, steps)
  BY Zenon DEF Parts, Reached
<1>2. /\ DOMAIN steps = DOMAIN Rules
      /\ \A m \in DOMAIN Rules : steps[m] = Below(Rules[m])
  OBVIOUS
<1> HIDE DEF steps
<1>3. /\ IsFiniteSet(DOMAIN steps) /\ Cardinality(DOMAIN steps) \in Nat
      /\ \A m \in DOMAIN Rules : Below(Rules[m]) \subseteq DOMAIN Rules
      /\ root \in DOMAIN Rules
  <2>1. \A m \in DOMAIN Rules : Below(Rules[m]) \subseteq DOMAIN Rules
    BY RulesFacts DEF Below
  <2> QED
    BY <1>2, <2>1, RulesFacts
<1>4. ASSUME NEW D \in SUBSET DOMAIN Rules, root \in D, \A m \in D : Below(Rules[m]) \subseteq D
      PROVE  Parts \subseteq D /\ root \in Parts
  <2>1. {root} \in SUBSET D /\ \A m \in D : steps[m] \subseteq D
    BY <1>2, <1>4
  <2>2. Within({root}, steps) \subseteq D /\ {root} \subseteq Within({root}, steps)
    BY <1>3, <2>1, WithinStays
  <2> QED
    BY <1>1, <2>2
<1>5. root \in Parts /\ Parts \subseteq DOMAIN Rules
  BY <1>3, <1>4
<1>6. \A m \in Within({root}, steps) : steps[m] \subseteq Within({root}, steps)
  <2>1. {root} \in SUBSET DOMAIN steps /\ \A m \in DOMAIN steps : steps[m] \subseteq DOMAIN steps
    BY <1>2, <1>3
  <2> QED
    BY <1>3, <2>1, WithinClosed
<1>7. \A m \in Parts : Below(Rules[m]) \subseteq Parts
  BY <1>1, <1>2, <1>5, <1>6
<1> QED
  BY <1>4, <1>5, <1>7

\* The references of a part are parts.
LEMMA RefsFacts ==
  ASSUME task \in Tasks
  PROVE  /\ \A n \in DOMAIN Rules : SchemaRefs(Rules, n) \subseteq DOMAIN Rules
         /\ \A n \in Parts : SchemaRefs(Rules, n) \subseteq Parts
<1>1. \A n \in DOMAIN Rules : SchemaRefs(Rules, n) \subseteq DOMAIN Rules
  <2> SUFFICES ASSUME NEW n \in DOMAIN Rules PROVE SchemaRefs(Rules, n) \subseteq DOMAIN Rules
    OBVIOUS
  <2>1. \A m \in Tree(Rules, n) : Rules[m].ref \in DOMAIN Rules \cup {None}
    BY TreeFacts, RulesFacts
  <2> QED
    BY <2>1, Zenon DEF SchemaRefs
<1>2. \A n \in Parts : SchemaRefs(Rules, n) \subseteq Parts
  <2> SUFFICES ASSUME NEW n \in Parts PROVE SchemaRefs(Rules, n) \subseteq Parts
    OBVIOUS
  <2>1. \A m \in Parts : Subschemas(Rules[m]) \subseteq Parts /\ Rules[m].ref \in Parts \cup {None}
    BY PartsFacts DEF Below
  <2>2. Tree(Rules, n) \subseteq Parts
    BY <2>1, TreeFacts, PartsFacts
  <2>3. \A m \in Tree(Rules, n) : Rules[m].ref \in Parts \cup {None}
    BY <2>1, <2>2
  <2> QED
    BY <2>3, Zenon DEF SchemaRefs
<1> QED
  BY <1>1, <1>2

\* No schema gets lost on the way to the compiler.
LEMMA DomainsKept ==
  ASSUME NEW rules
  PROVE  /\ \A purpose : DOMAIN Pruned(rules, purpose) = DOMAIN rules
         /\ DOMAIN Inlined(rules) = DOMAIN rules
         /\ DOMAIN rules \subseteq DOMAIN Prepared(rules)
<1>1. ASSUME NEW purpose PROVE DOMAIN Pruned(rules, purpose) = DOMAIN rules
  BY Zenon DEF Pruned
<1>2. DOMAIN Inlined(rules) = DOMAIN rules
  BY Zenon DEF Inlined
<1>3. DOMAIN rules \subseteq DOMAIN Without30(rules)
  BY Zenon DEF Without30
<1>4. \A some : DOMAIN Coerced(some) = DOMAIN some
  BY Zenon DEF Coerced
<1>5. DOMAIN rules \subseteq DOMAIN Prepared(rules)
  BY <1>3, <1>4 DEF Prepared
<1> QED
  BY <1>1, <1>2, <1>5

--------------------------------------------------------------------------------
(* Types.                                                                  *)

LEMMA RendersRoot ==
  ASSUME task \in Tasks
  PROVE  /\ task.root \in DOMAIN Prepared(Rendered)
         /\ task.root \in DOMAIN Prepared(Pruned(Rules, task.purpose))
<1>1. DOMAIN Rendered = DOMAIN Rules
  BY DomainsKept, Zenon DEF Rendered
<1>2. DOMAIN Rendered \subseteq DOMAIN Prepared(Rendered)
  BY DomainsKept, Zenon
<1>3. DOMAIN Rules \subseteq DOMAIN Prepared(Pruned(Rules, task.purpose))
  BY DomainsKept, Zenon
<1> QED
  BY <1>1, <1>2, <1>3, RulesFacts

LEMMA CompileTyped ==
  ASSUME NEW rules, NEW docs, DOMAIN rules # {}, CompileRules(rules, docs)
  PROVE  /\ phase' \in {"compiled", "failed"}
         /\ DOMAIN compiled' # {} <=> phase' = "compiled"
<1>1. DOMAIN <<>> = {}
  OBVIOUS
<1>2. CASE Compiles(rules, docs)
  BY <1>2, Zenon DEF CompileRules
<1>3. CASE ~Compiles(rules, docs)
  <2>1. phase' = "failed" /\ compiled' = <<>>
    BY <1>3, Zenon DEF CompileRules
  <2> QED
    BY <1>1, <2>1
<1> QED
  BY <1>2, <1>3

LEMMA PreparationTypedInit == PreparationInit => PreparationTypeOK
<1> SUFFICES ASSUME PreparationInit PROVE PreparationTypeOK
  OBVIOUS
<1>1. DOMAIN <<>> = {}
  OBVIOUS
<1>2. loops \in Seq(SUBSET DOMAIN Rules)
  BY DEF PreparationInit
<1> QED
  BY <1>1, <1>2 DEF PreparationInit, PreparationTypeOK

\* What following a reference does to the loops: it is taken from the innermost
\* one, and a loop over the references of what it leads to may begin.
LEMMA RestFacts ==
  ASSUME NEW D, loops \in Seq(SUBSET D), loops # <<>>, NEW ref, NEW refs \in SUBSET D
  PROVE  /\ Rest(ref) \in Seq(SUBSET D) /\ <<refs>> \o Rest(ref) \in Seq(SUBSET D)
         /\ UNION Range(loops) \subseteq (UNION Range(Rest(ref))) \cup {ref}
         /\ UNION Range(Rest(ref)) \subseteq UNION Range(loops)
         /\ UNION Range(<<refs>> \o Rest(ref)) = refs \cup UNION Range(Rest(ref))
         /\ Tail(loops) \in Seq(SUBSET D)
         /\ UNION Range(loops) = Head(loops) \cup UNION Range(Tail(loops))
<1>1. /\ Rest(ref) \in Seq(SUBSET D) /\ Len(Rest(ref)) = Len(loops)
      /\ Rest(ref)[1] = loops[1] \ {ref}
      /\ \A i \in 2..Len(loops) : Rest(ref)[i] = loops[i]
  BY DEF Rest
<1>2. /\ UNION Range(loops) \subseteq (UNION Range(Rest(ref))) \cup {ref}
      /\ UNION Range(Rest(ref)) \subseteq UNION Range(loops)
  <2> HIDE DEF Rest
  <2>1. ASSUME NEW i \in 1..Len(loops)
        PROVE  /\ loops[i] \subseteq Rest(ref)[i] \cup {ref}
               /\ Rest(ref)[i] \subseteq loops[i]
    BY <1>1
  <2>2. DOMAIN loops = 1..Len(loops) /\ DOMAIN Rest(ref) = 1..Len(loops)
    BY <1>1
  <2> DEFINE less == Rest(ref)
  <2>3. ASSUME NEW x \in UNION Range(loops), x # ref PROVE x \in UNION Range(less)
    <3>1. PICK i \in DOMAIN loops : x \in loops[i]
      BY DEF Range
    <3>2. i \in DOMAIN less /\ x \in less[i]
      BY <2>1, <2>2, <2>3, <3>1
    <3> HIDE DEF less
    <3> QED
      BY <3>2 DEF Range
  <2>4. ASSUME NEW x \in UNION Range(less) PROVE x \in UNION Range(loops)
    <3>1. PICK i \in DOMAIN less : x \in less[i]
      <4> HIDE DEF less
      <4> QED
        BY DEF Range
    <3>2. i \in DOMAIN loops /\ x \in loops[i]
      BY <2>1, <2>2, <3>1
    <3> HIDE DEF less
    <3> QED
      BY <3>2 DEF Range
  <2> HIDE DEF less
  <2>5. UNION Range(loops) \subseteq (UNION Range(less)) \cup {ref}
    <3> DEFINE before == UNION Range(loops)
               after == UNION Range(less)
    <3>1. \A x \in before : x # ref => x \in after
      BY <2>3
    <3> HIDE DEF before, after
    <3>2. before \subseteq after \cup {ref}
      BY <3>1
    <3> QED
      BY <3>2, Zenon DEF before, after
  <2>6. UNION Range(less) \subseteq UNION Range(loops)
    BY <2>4
  <2> QED
    BY <2>5, <2>6 DEF less
<1>3. <<refs>> \o Rest(ref) \in Seq(SUBSET D)
  BY <1>1
<1>4. UNION Range(<<refs>> \o Rest(ref)) = refs \cup UNION Range(Rest(ref))
  <2> DEFINE more == <<refs>> \o Rest(ref)
  <2>1. /\ DOMAIN Rest(ref) = 1..Len(Rest(ref)) /\ Len(Rest(ref)) \in Nat
        /\ DOMAIN more = 1..(Len(Rest(ref)) + 1)
        /\ more[1] = refs /\ \A i \in 1..Len(Rest(ref)) : more[i + 1] = Rest(ref)[i]
    BY <1>1
  <2> HIDE DEF more
  <2>2. \A i \in DOMAIN more : i = 1 \/ (i - 1 \in DOMAIN Rest(ref) /\ more[i] = Rest(ref)[i - 1])
    BY <2>1
  <2>3. Range(more) = {refs} \cup Range(Rest(ref))
    <3>1. 1 \in DOMAIN more /\ \A i \in DOMAIN Rest(ref) : i + 1 \in DOMAIN more
      BY <2>1
    <3> QED
      BY <2>1, <2>2, <3>1 DEF Range
  <2> QED
    BY <2>3 DEF more
<1>5. Tail(loops) \in Seq(SUBSET D)
  OBVIOUS
<1>6. UNION Range(loops) = Head(loops) \cup UNION Range(Tail(loops))
  <2>1. /\ DOMAIN loops = 1..Len(loops) /\ Len(loops) \in Nat \ {0}
        /\ DOMAIN Tail(loops) = 1..(Len(loops) - 1)
        /\ Head(loops) = loops[1] /\ \A i \in DOMAIN Tail(loops) : Tail(loops)[i] = loops[i + 1]
    OBVIOUS
  <2> DEFINE rest == Tail(loops)
  <2> HIDE DEF rest
  <2>2. \A i \in DOMAIN loops : i = 1 \/ (i - 1 \in DOMAIN rest /\ loops[i] = rest[i - 1])
    BY <2>1 DEF rest
  <2>3. Range(loops) = {loops[1]} \cup Range(rest)
    <3>1. 1 \in DOMAIN loops /\ \A i \in DOMAIN rest : i + 1 \in DOMAIN loops /\ rest[i] = loops[i + 1]
      BY <2>1 DEF rest
    <3> QED
      BY <2>2, <3>1 DEF Range
  <2> QED
    BY <2>1, <2>3 DEF rest
<1> QED
  BY <1>1, <1>2, <1>3, <1>4, <1>5, <1>6

LEMMA PreparationTypedStep ==
  PreparationTypeOK /\ [PreparationNext]_preparationVars => PreparationTypeOK'
<1> SUFFICES ASSUME PreparationTypeOK, [PreparationNext]_preparationVars PROVE PreparationTypeOK'
  OBVIOUS
<1> USE DEF PreparationTypeOK
<1>1. CASE CompileSingle
  <2>1. task' = task /\ UNCHANGED <<loops, seenNodes, seenRefs, resources>>
    BY <1>1 DEF CompileSingle
  <2>2. /\ phase' \in {"compiled", "failed"}
        /\ DOMAIN compiled' # {} <=> phase' = "compiled"
    <3>1. DOMAIN Prepared(Rendered) # {}
      BY RendersRoot
    <3> QED
      BY <1>1, <3>1, CompileTyped DEF CompileSingle
  <2> QED
    BY <2>1, <2>2 DEF Rules, Document
<1>2. CASE BuildResources
  <2>1. /\ task' = task /\ phase' = "following" /\ phase = "rendering"
        /\ resources' = {Document(task.root)} /\ seenNodes' = {task.root}
        /\ loops' = <<SchemaRefs(Rules, task.root)>> /\ UNCHANGED <<seenRefs, compiled>>
    BY <1>2 DEF BuildResources
  <2>2. task.root \in DOMAIN Rules /\ SchemaRefs(Rules, task.root) \subseteq DOMAIN Rules
    BY RulesFacts, RefsFacts
  <2>3. loops' \in Seq(SUBSET DOMAIN Rules)
    BY <2>1, <2>2
  <2> QED
    BY <2>1, <2>2, <2>3 DEF Rules, Document
<1>3. CASE EndLoop
  <2>1. loops' \in Seq(SUBSET DOMAIN Rules)
    BY <1>3 DEF EndLoop
  <2> QED
    BY <1>3, <2>1 DEF EndLoop, Rules, Document
<1>4. CASE CompileResources
  <2>1. task' = task /\ UNCHANGED <<loops, seenNodes, seenRefs, resources>>
    BY <1>4 DEF CompileResources
  <2>2. /\ phase' \in {"compiled", "failed"}
        /\ DOMAIN compiled' # {} <=> phase' = "compiled"
    <3>1. DOMAIN Prepared(Pruned(Rules, task.purpose)) # {}
      BY RendersRoot
    <3> QED
      BY <1>4, <3>1, CompileTyped DEF CompileResources
  <2> QED
    BY <2>1, <2>2 DEF Rules, Document
<1>5. ASSUME NEW ref \in DOMAIN Rules, Follow(ref) PROVE PreparationTypeOK'
  <2>1. /\ loops # <<>> /\ UNCHANGED <<task, phase, compiled>>
        /\ seenRefs' = seenRefs \cup {ref}
        /\ resources' \in {resources, resources \cup {Document(ref)}}
        /\ seenNodes' \in {seenNodes, seenNodes \cup {ref}}
        /\ loops' \in {Rest(ref), <<SchemaRefs(Rules, ref)>> \o Rest(ref)}
    BY <1>5 DEF Follow
  <2>2. SchemaRefs(Rules, ref) \subseteq DOMAIN Rules
    BY RefsFacts
  <2>3. loops' \in Seq(SUBSET DOMAIN Rules)
    <3> DEFINE D == DOMAIN Rules
               refs == SchemaRefs(Rules, ref)
    <3>1. loops \in Seq(SUBSET D) /\ refs \in SUBSET D
      BY <2>2
    <3> HIDE DEF D, refs
    <3>2. Rest(ref) \in Seq(SUBSET D) /\ <<refs>> \o Rest(ref) \in Seq(SUBSET D)
      BY <2>1, <3>1, RestFacts
    <3> QED
      BY <2>1, <3>2, Zenon DEF D, refs
  <2> QED
    BY <2>1, <2>3 DEF Rules, Document
<1>6. CASE UNCHANGED preparationVars
  BY <1>6 DEF preparationVars, Rules, Document
<1> QED
  BY <1>1, <1>2, <1>3, <1>4, <1>5, <1>6 DEF PreparationNext

\* Whatever the schemas refer to, what is looked through and registered is part
\* of the description's documents, and there is a compiled schema exactly when the
\* compiler succeeded.
THEOREM PreparationTyped == PreparationSpec => []PreparationTypeOK
  BY PreparationTypedInit, PreparationTypedStep, PTL DEF PreparationSpec

--------------------------------------------------------------------------------
(* The closure of documents.                                               *)

\* References still to be followed.
Pending == UNION Range(loops)

\* Whatever was looked through is made of what was looked through before, was
\* followed or is still to be followed; only what belongs to the schema is
\* looked through, and its document is there.
ClosureInv ==
  /\ phase = "rendering" => seenNodes = {} /\ loops = <<>>
  /\ phase = "following" => seenNodes # {}
  /\ seenNodes # {} => task.root \in seenNodes
  /\ seenRefs \subseteq seenNodes
  /\ seenNodes \subseteq Parts /\ Pending \subseteq Parts
  /\ \A n \in seenNodes : Document(n) \in resources
  /\ \A n \in seenNodes : SchemaRefs(Rules, n) \subseteq seenRefs \cup Pending

LEMMA ClosureInit == PreparationInit => ClosureInv
<1>1. Range(<<>>) = {}
  BY DEF Range
<1> QED
  BY <1>1, Zenon DEF PreparationInit, ClosureInv, Pending

LEMMA ClosureStep ==
  PreparationTypeOK /\ ClosureInv /\ [PreparationNext]_preparationVars => ClosureInv'
<1> SUFFICES ASSUME PreparationTypeOK, ClosureInv, [PreparationNext]_preparationVars
             PROVE  ClosureInv'
  OBVIOUS
<1>0. task \in Tasks
  BY DEF PreparationTypeOK
<1>a. task' = task => /\ Parts' = Parts
                      /\ \A n : SchemaRefs(Rules, n)' = SchemaRefs(Rules, n)
                      /\ \A n : Document(n)' = Document(n)
  BY Zenon DEF Parts, Rules, Document
<1>b. loops' = loops => Pending' = Pending
  BY Zenon DEF Pending
<1>1. CASE CompileSingle
  <2>1. /\ task' = task /\ UNCHANGED <<loops, seenNodes, seenRefs, resources>>
        /\ phase = "rendering" /\ phase' \in {"compiled", "failed"}
    BY <1>1 DEF CompileSingle, CompileRules
  <2> QED
    BY <1>a, <1>b, <2>1 DEF ClosureInv
<1>2. CASE BuildResources
  <2>1. /\ task' = task /\ phase' = "following" /\ phase = "rendering"
        /\ resources' = {Document(task.root)} /\ seenNodes' = {task.root}
        /\ loops' = <<SchemaRefs(Rules, task.root)>> /\ seenRefs' = seenRefs
    BY <1>2 DEF BuildResources
  <2>2. Pending' = SchemaRefs(Rules, task.root)
    <3>1. UNION Range(<<SchemaRefs(Rules, task.root)>>) = SchemaRefs(Rules, task.root)
      BY DEF Range
    <3> QED
      BY <2>1, <3>1, Zenon DEF Pending
  <2>3. task.root \in Parts /\ SchemaRefs(Rules, task.root) \subseteq Parts
    BY <1>0, PartsFacts, RefsFacts
  <2> QED
    BY <1>a, <2>1, <2>2, <2>3 DEF ClosureInv
<1>3. CASE EndLoop
  <2>1. /\ loops # <<>> /\ Head(loops) = {} /\ loops' = Tail(loops) /\ phase = "following"
        /\ UNCHANGED <<task, phase, seenNodes, seenRefs, resources>>
    BY <1>3 DEF EndLoop
  <2>2. Pending' = Pending
    <3> DEFINE D == DOMAIN Rules
    <3>1. loops \in Seq(SUBSET D)
      BY DEF PreparationTypeOK
    <3> HIDE DEF D
    <3>2. UNION Range(loops) = Head(loops) \cup UNION Range(Tail(loops))
      BY <2>1, <3>1, RestFacts, ZenonT(30)
    <3> QED
      BY <2>1, <3>2, Zenon DEF Pending
  <2> QED
    BY <1>a, <2>1, <2>2 DEF ClosureInv
<1>4. CASE CompileResources
  <2>1. /\ task' = task /\ UNCHANGED <<loops, seenNodes, seenRefs, resources>>
        /\ phase = "following" /\ phase' \in {"compiled", "failed"}
    BY <1>4 DEF CompileResources, CompileRules
  <2> QED
    BY <1>a, <1>b, <2>1 DEF ClosureInv
<1>5. ASSUME NEW ref \in DOMAIN Rules, Follow(ref) PROVE ClosureInv'
  <2> DEFINE refs == SchemaRefs(Rules, ref)
  <2>1. /\ phase = "following" /\ loops # <<>> /\ ref \in Head(loops)
        /\ UNCHANGED <<task, phase>> /\ seenRefs' = seenRefs \cup {ref}
        /\ resources' = IF ref \in seenRefs THEN resources ELSE resources \cup {Document(ref)}
        /\ seenNodes' = IF ref \in seenRefs THEN seenNodes ELSE seenNodes \cup {ref}
        /\ loops' = IF ref \in seenRefs \cup seenNodes THEN Rest(ref) ELSE <<refs>> \o Rest(ref)
    BY <1>5 DEF Follow
  <2> HIDE DEF refs
  <2>2. /\ Pending \subseteq (UNION Range(Rest(ref))) \cup {ref}
        /\ UNION Range(Rest(ref)) \subseteq Pending
        /\ UNION Range(<<refs>> \o Rest(ref)) = refs \cup UNION Range(Rest(ref))
        /\ ref \in Pending
    <3> DEFINE D == DOMAIN Rules
    <3>1. loops \in Seq(SUBSET D) /\ refs \in SUBSET D
      BY <1>0, RefsFacts DEF PreparationTypeOK, refs
    <3> HIDE DEF D
    <3>2. /\ UNION Range(loops) \subseteq (UNION Range(Rest(ref))) \cup {ref}
          /\ UNION Range(Rest(ref)) \subseteq UNION Range(loops)
          /\ UNION Range(<<refs>> \o Rest(ref)) = refs \cup UNION Range(Rest(ref))
          /\ UNION Range(loops) = Head(loops) \cup UNION Range(Tail(loops))
      BY <2>1, <3>1, RestFacts, ZenonT(30)
    <3> QED
      BY <2>1, <3>2 DEF Pending
  <2>3. ref \in Parts /\ refs \subseteq Parts
    BY <1>0, <2>2, RefsFacts DEF ClosureInv, refs
  <2>4. /\ Pending' \subseteq Parts
        /\ Pending \subseteq Pending' \cup {ref}
        /\ ref \notin seenRefs \cup seenNodes => refs \subseteq Pending'
    <3> DEFINE rest == UNION Range(Rest(ref))
    <3>0. /\ Pending \subseteq rest \cup {ref} /\ rest \subseteq Parts
      <4>1. Pending \subseteq rest \cup {ref} /\ rest \subseteq Pending
        BY <2>2, Zenon
      <4> HIDE DEF rest
      <4> QED
        BY <4>1 DEF ClosureInv
    <3>1. CASE ref \in seenRefs \cup seenNodes
      <4>1. Pending' = rest
        BY <2>1, <3>1, Zenon DEF Pending
      <4> HIDE DEF rest
      <4> QED
        BY <3>0, <3>1, <4>1
    <3>2. CASE ref \notin seenRefs \cup seenNodes
      <4>1. Pending' = refs \cup rest
        BY <2>1, <2>2, <3>2, Zenon DEF Pending
      <4> HIDE DEF rest
      <4> QED
        BY <2>3, <3>0, <4>1
    <3> QED
      BY <3>1, <3>2
  <2>5. /\ seenNodes' = seenNodes \cup {ref} /\ seenRefs' = seenRefs \cup {ref}
        /\ resources' = resources \cup {Document(ref)}
    BY <2>1 DEF ClosureInv
  <2>6. ASSUME NEW n \in seenNodes' PROVE SchemaRefs(Rules, n) \subseteq seenRefs' \cup Pending'
    <3>1. CASE n \in seenNodes
      BY <2>4, <2>5, <3>1 DEF ClosureInv
    <3>2. CASE n \notin seenNodes
      <4>1. n = ref /\ ref \notin seenRefs \cup seenNodes
        BY <2>5, <3>2 DEF ClosureInv
      <4> QED
        BY <2>4, <4>1 DEF refs
    <3> QED
      BY <3>1, <3>2
  <2> QED
    BY <1>a, <2>1, <2>3, <2>4, <2>5, <2>6 DEF ClosureInv
<1>6. CASE UNCHANGED preparationVars
  BY <1>a, <1>b, <1>6 DEF preparationVars, ClosureInv
<1> QED
  BY <1>1, <1>2, <1>3, <1>4, <1>5, <1>6 DEF PreparationNext

\* Once no reference is left, everything the schema is made of is in the tree of
\* something that was looked through.
LEMMA PartsSeen ==
  ASSUME task \in Tasks, ClosureInv, loops = <<>>, seenNodes # {}, PlainNames
  PROVE  \A n \in Parts : Rules[n].ref # None => Rules[n].ref \in seenNodes
<1> DEFINE Seen == UNION {Tree(Rules, s) : s \in seenNodes}
<1>1. Pending = {}
  BY DEF Pending, Range
<1>2. seenNodes \subseteq Parts /\ Parts \subseteq DOMAIN Rules
  BY PartsFacts DEF ClosureInv
<1>3. ASSUME NEW s \in seenNodes
      PROVE  /\ s \in Tree(Rules, s) /\ Tree(Rules, s) \subseteq Parts
             /\ \A m \in Tree(Rules, s) : Subschemas(Rules[m]) \subseteq Tree(Rules, s)
  <2>1. \A m \in Parts : Subschemas(Rules[m]) \subseteq Parts
    BY PartsFacts DEF Below
  <2> QED
    BY <1>2, <2>1, TreeFacts, PartsFacts
<1>4. ASSUME NEW s \in seenNodes, NEW m \in Tree(Rules, s), Rules[m].ref # None
      PROVE  Rules[m].ref \in seenNodes
  <2>1. m \notin Unread(Rules, s)
    <3> SUFFICES ASSUME m \in Unread(Rules, s) PROVE FALSE
      OBVIOUS
    <3>1. PICK x \in Tree(Rules, s) : \E name \in NameMaps \cap DOMAIN Rules[x].props :
                                        m = Rules[x].props[name]
      BY Zenon DEF Unread
    <3>2. x \in Parts
      BY <1>3
    <3> QED
      BY <1>4, <3>1, <3>2, Zenon DEF PlainNames
  <2>2. Rules[m].ref \in SchemaRefs(Rules, s)
    BY <1>4, <2>1, Zenon DEF SchemaRefs
  <2> QED
    BY <1>1, <2>2 DEF ClosureInv
<1>5. Parts \subseteq Seen
  <2>1. task.root \in Seen /\ Seen \subseteq DOMAIN Rules
    BY <1>2, <1>3 DEF ClosureInv
  <2>2. ASSUME NEW m \in Seen PROVE Below(Rules[m]) \subseteq Seen
    <3>1. PICK s \in seenNodes : m \in Tree(Rules, s)
      OBVIOUS
    <3>2. Subschemas(Rules[m]) \subseteq Seen
      BY <1>3, <3>1
    <3>3. Rules[m].ref # None => Rules[m].ref \in Seen
      BY <1>3, <1>4, <3>1
    <3> QED
      BY <3>2, <3>3 DEF Below
  <2> HIDE DEF Seen
  <2> QED
    BY <2>1, <2>2, PartsFacts
<1> QED
  BY <1>4, <1>5

\* When the schemas are handed to the compiler, the document of every reference
\* it can meet is among the resources, however the documents refer to each other.
DocumentsFound ==
  loops = <<>> /\ seenNodes # {} /\ PlainNames =>
    \A n \in Parts : Rules[n].ref # None => Document(Rules[n].ref) \in resources

THEOREM AllDocumentsFound == PreparationSpec => []DocumentsFound
<1> DEFINE Inv == PreparationTypeOK /\ ClosureInv
<1>1. PreparationInit => Inv
  BY PreparationTypedInit, ClosureInit
<1>2. Inv /\ [PreparationNext]_preparationVars => Inv'
  BY PreparationTypedStep, ClosureStep
<1>3. Inv => DocumentsFound
  BY PartsSeen DEF PreparationTypeOK, ClosureInv, DocumentsFound
<1> QED
  BY <1>1, <1>2, <1>3, PTL DEF PreparationSpec
================================================================================
