---------------------------- MODULE ParamExtraction ----------------------------
(***************************************************************************)
(* ExtractParamsForOperation (helpers/parameter_utilities.go): the list of *)
(* parameters a request is validated against is made by appending the      *)
(* operation's parameters to the slice of the path item, which the         *)
(* document shares between all requests.  The path, query, header and      *)
(* cookie validators of every request call it, concurrently.               *)
(*                                                                         *)
(* The shared slice has Len(PathParams) elements and Capacity places; an   *)
(* append that fits writes into the places behind the elements.            *)
(***************************************************************************)
EXTENDS Naturals, SequencesExt

CONSTANTS Callers,      \* goroutines running a parameter validator
          PathParams,   \* item.Parameters
          Capacity,     \* capacity of that slice
          OpParams,     \* operations of the path item -> their parameters
          Methods,      \* the methods requests use
          Unset         \* contents of a place never written

ASSUME ExtractionAssumption ==
  /\ PathParams \in Seq(Range(PathParams))
  /\ \A m \in DOMAIN OpParams : OpParams[m] \in Seq(Range(OpParams[m]))
  /\ Capacity \in Nat
  /\ Len(PathParams) <= Capacity
  /\ \A m \in DOMAIN OpParams : PathParams \o OpParams[m] # Unset

VARIABLES places,   \* the backing array of item.Parameters
          pc,       \* per caller: "idle", "appending", "reading"
          method,   \* the method of the caller's request
          own,      \* the caller's list, when the append had to reallocate
          index,    \* elements appended, then elements read
          seen      \* the parameters the caller's loop has seen

vars == <<places, pc, method, own, index, seen>>

HasOperation(m) == m \in DOMAIN OpParams
ParamsOf(m) == IF HasOperation(m) THEN OpParams[m] ELSE <<>>

InPlace(c) == own[c] = Unset
Length(c) == Len(PathParams) + Len(ParamsOf(method[c]))

Init ==
  /\ places = [i \in 1..Capacity |-> IF i <= Len(PathParams) THEN PathParams[i] ELSE Unset]
  /\ pc = [c \in Callers |-> "idle"]
  /\ method \in [Callers -> Methods]
  /\ own = [c \in Callers |-> Unset]
  /\ index = [c \in Callers |-> 0]
  /\ seen = [c \in Callers |-> <<>>]

\* append(params, op.Parameters...): in place if it fits, else into a new array.
Extract(c, m) ==
  /\ pc[c] = "idle"
  /\ method' = [method EXCEPT ![c] = m]
  /\ IF Len(PathParams) + Len(ParamsOf(m)) <= Capacity
       THEN /\ pc' = [pc EXCEPT ![c] = "appending"]
            /\ UNCHANGED own
       ELSE /\ pc' = [pc EXCEPT ![c] = "reading"]
            /\ own' = [own EXCEPT ![c] = SubSeq(places, 1, Len(PathParams)) \o ParamsOf(m)]
  /\ UNCHANGED <<places, index, seen>>

\* Mutant: the operation's parameters are written from the front.
AppendAtFront(c) ==
  /\ pc[c] = "appending"
  /\ IF index[c] < Len(ParamsOf(method[c]))
       THEN /\ places' = [places EXCEPT ![index[c] + 1] = ParamsOf(method[c])[index[c] + 1]]
            /\ index' = [index EXCEPT ![c] = @ + 1]
            /\ UNCHANGED pc
       ELSE /\ pc' = [pc EXCEPT ![c] = "reading"]
            /\ index' = [index EXCEPT ![c] = 0]
            /\ UNCHANGED places
  /\ UNCHANGED <<method, own, seen>>

\* Mutant: the last of the operation's parameters is not copied.
AppendShort(c) ==
  /\ pc[c] = "appending"
  /\ IF index[c] < Len(ParamsOf(method[c])) - 1
       THEN /\ places' = [places EXCEPT ![Len(PathParams) + index[c] + 1] =
                            ParamsOf(method[c])[index[c] + 1]]
            /\ index' = [index EXCEPT ![c] = @ + 1]
            /\ UNCHANGED pc
       ELSE /\ pc' = [pc EXCEPT ![c] = "reading"]
            /\ index' = [index EXCEPT ![c] = 0]
            /\ UNCHANGED places
  /\ UNCHANGED <<method, own, seen>>

\* The in-place append copies one element after the other.
AppendOne(c) ==
  /\ pc[c] = "appending"
  /\ IF index[c] < Len(ParamsOf(method[c]))
       THEN /\ places' = [places EXCEPT ![Len(PathParams) + index[c] + 1] =
                            ParamsOf(method[c])[index[c] + 1]]
            /\ index' = [index EXCEPT ![c] = @ + 1]
            /\ UNCHANGED pc
       ELSE /\ pc' = [pc EXCEPT ![c] = "reading"]
            /\ index' = [index EXCEPT ![c] = 0]
            /\ UNCHANGED places
  /\ UNCHANGED <<method, own, seen>>

\* for _, p := range params
ReadOne(c) ==
  /\ pc[c] = "reading"
  /\ index[c] < Length(c)
  /\ index' = [index EXCEPT ![c] = @ + 1]
  /\ seen' = [seen EXCEPT ![c] =
                Append(@, IF InPlace(c) THEN places[index[c] + 1] ELSE own[c][index[c] + 1])]
  /\ UNCHANGED <<places, pc, method, own>>

\* Mutant: the next call goes on counting.
ReturnCounting(c) ==
  /\ pc[c] = "reading"
  /\ index[c] = Length(c)
  /\ pc' = [pc EXCEPT ![c] = "idle"]
  /\ own' = [own EXCEPT ![c] = Unset]
  /\ seen' = [seen EXCEPT ![c] = <<>>]
  /\ UNCHANGED <<places, method, index>>

Return(c) ==
  /\ pc[c] = "reading"
  /\ index[c] = Length(c)
  /\ pc' = [pc EXCEPT ![c] = "idle"]
  /\ own' = [own EXCEPT ![c] = Unset]
  /\ index' = [index EXCEPT ![c] = 0]
  /\ seen' = [seen EXCEPT ![c] = <<>>]
  /\ UNCHANGED <<places, method>>

Next ==
  \E c \in Callers :
    \/ \E m \in Methods : Extract(c, m)
    \/ AppendOne(c) \/ ReadOne(c) \/ Return(c)

Spec == Init /\ [][Next]_vars

--------------------------------------------------------------------------------
(* Properties.                                                             *)

TypeOK ==
  /\ \A c \in Callers : pc[c] \in {"idle", "appending", "reading"} /\ method[c] \in Methods
  /\ \A c \in Callers : index[c] \in 0..Length(c)
  /\ DOMAIN places = 1..Capacity

\* "Both the path level params and the method level params will be returned":
\* what a caller's loop has seen is a prefix of its own parameters.
SeesItsParams ==
  \A c \in Callers : IsPrefix(seen[c], PathParams \o ParamsOf(method[c]))

\* No append of any request disturbs the path item itself: its own parameters
\* are read-only for all callers.
PathItemIntact == SubSeq(places, 1, Len(PathParams)) = PathParams

\* The list a caller reads, in the shared slice or in one of its own.
ListOf(c) == IF InPlace(c) THEN SubSeq(places, 1, Length(c)) ELSE own[c]

\* The list a caller was given stays complete and its own until the call returns,
\* whatever other requests append meanwhile, also behind what its loop has read:
\* strict mode reads the list again after the loop, for the declared names
\* (parameters/header_parameters.go:232).
KeepsItsParams ==
  \A c \in Callers : pc[c] = "reading" => ListOf(c) = PathParams \o ParamsOf(method[c])
================================================================================
