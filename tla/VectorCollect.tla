--------------------------- MODULE VectorCollect ----------------------------
(***************************************************************************)
(* k4c_vector_collect and k4c_vector_collect_map of datastruct/vector.c:   *)
(* a vector is created, room for the source's hint is reserved, and what   *)
(* the source gives is pushed one by one, through a scratch element when   *)
(* it is mapped.  The vector is that of module Vector, each of whose       *)
(* operations may fail.  The source is any finite iterator; its hint is    *)
(* whatever its maker set it to, right or wrong.                           *)
(***************************************************************************)
EXTENDS Vector

CONSTANTS DefaultCapacity,   \* K4C_VECTOR_DEFAULT_CAPACITY
          Sources,           \* what the iterators give
          Hints,             \* and what they claim to give
          Mapping            \* the map callback

DefaultCapacityAssumption == DefaultCapacity \in 1 .. SizeMax
SourcesAssumption == Sources \subseteq Seq(Value)
HintsAssumption == Hints \subseteq SizeT
MappingAssumption == Mapping \in [Value -> Value]
Assumptions ==
  /\ DefaultCapacityAssumption /\ SourcesAssumption
  /\ HintsAssumption /\ MappingAssumption

VARIABLES source,    \* the items the iterator was made over
          taken,     \* how many it has given
          hint,      \* source->size_hint when the function is called
          mapped,    \* collect_map, not collect
          pc,        \* where the function is
          out        \* what *out points to

collectVars == <<vec, held, ref, iter, source, taken, hint, mapped, pc, out>>
call == <<source, taken, hint, mapped>>
caller == <<ref, iter>>          \* what nobody has while the vector is built

CollectInit ==
  /\ Init
  /\ source \in Sources /\ hint \in Hints /\ mapped \in BOOLEAN
  /\ taken = 0 /\ pc = "create" /\ out = "NULL"

Goto(label) == pc' = label /\ UNCHANGED out

CollectCreate ==
  /\ pc = "create"
  /\ IF MulOverflows(ElemSize, DefaultCapacity) THEN UNCHANGED vars /\ Goto("failed")
     ELSE \/ Create(DefaultCapacity) /\ Goto("reserve")
          \/ CreateFails /\ Goto("failed")
  /\ UNCHANGED call

\* A slip: the scratch element is forgotten.
CleanupKeepsScratch ==
  held' = held \ {"vector", vec.buffer} /\ vec' = NewVector(1)

\* k4c_vector_destroy, and the scratch element, if any, is given back.
Cleanup == held' = held \ {"vector", vec.buffer, "dst"} /\ vec' = NewVector(1)

GiveUp == Cleanup /\ Goto("failed")

\* A slip: the hint is taken for a count of bytes.
CollectReserveBytes ==
  /\ pc = "reserve"
  /\ \/ hint = 0 /\ UNCHANGED vars /\ Goto("scratch")
     \/ hint > 0 /\ Reserve(hint \div ElemSize) /\ Goto("scratch")
     \/ hint > 0 /\ NeedsResize(hint \div ElemSize) /\ GiveUp /\ UNCHANGED caller
  /\ UNCHANGED call

CollectReserve ==
  /\ pc = "reserve"
  /\ \/ hint = 0 /\ UNCHANGED vars /\ Goto("scratch")
     \/ hint > 0 /\ Reserve(hint) /\ Goto("scratch")
     \/ hint > 0 /\ NeedsResize(hint) /\ GiveUp /\ UNCHANGED caller
  /\ UNCHANGED call

CollectScratch ==
  /\ pc = "scratch"
  /\ \/ ~ mapped /\ UNCHANGED held /\ UNCHANGED vec /\ Goto("loop")
     \/ mapped /\ held' = held \cup {"dst"} /\ UNCHANGED vec /\ Goto("loop")
     \/ mapped /\ GiveUp
  /\ UNCHANGED <<caller, call>>

Element(item) == IF mapped THEN Mapping[item] ELSE item

HasMore == taken < Len(source)

\* A slip: a push that fails is tried again.
CollectItemRetries ==
  /\ pc = "loop" /\ HasMore
  /\ \/ Push(Element(source[taken + 1])) /\ taken' = taken + 1
     \/ vec.size = vec.capacity /\ UNCHANGED vars /\ UNCHANGED taken
  /\ Goto("loop")
  /\ UNCHANGED <<source, hint, mapped>>

CollectItem ==
  /\ pc = "loop" /\ HasMore
  /\ taken' = taken + 1
  /\ \/ Push(Element(source[taken'])) /\ Goto("loop")
     \/ vec.size = vec.capacity /\ GiveUp /\ UNCHANGED caller
  /\ UNCHANGED <<source, hint, mapped>>

CollectDone ==
  /\ pc = "loop" /\ ~ HasMore
  /\ held' = held \ {"dst"}
  /\ pc' = "done" /\ out' = "vector"
  /\ UNCHANGED <<vec, caller, call>>

CollectNext ==
  CollectCreate \/ CollectReserve \/ CollectScratch \/ CollectItem \/ CollectDone

\* The function runs to its end: its caller waits for it.
CollectSpec == CollectInit /\ [][CollectNext]_collectVars /\ WF_collectVars(CollectNext)

-----------------------------------------------------------------------------
\* All or nothing: a collect that succeeds hands out a vector of everything
\* the source gave, in order and mapped, however wrong the hint was; one that
\* fails hands out NULL and leaves nothing allocated.
AllOrNothing ==
  /\ pc = "done" => /\ out = "vector" /\ held = {"vector", vec.buffer}
                    /\ Items(vec) = [i \in 1 .. Len(source) |-> Element(source[i])]
  /\ pc = "failed" => out = "NULL" /\ held = {}

\* A hint that is right, or too large, leaves the pushes nothing to allocate:
\* only the reservation resizes.
HintSparesGrowth ==
  [][ pc = "loop" /\ pc' = "loop" /\ hint >= Len(source) => vec'.capacity = vec.capacity
    ]_collectVars

\* Over a finite source the function returns.
Returns == <>(pc \in {"done", "failed"})

=============================================================================
