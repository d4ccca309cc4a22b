--------------------------- MODULE TestAllocator ----------------------------
(***************************************************************************)
(* mem/allocator.c with mem/test_allocator.c behind it: owners reach malloc *)
(* through k4c_alloc, k4c_resize and k4c_dealloc, either with no allocator *)
(* or with the tracking one, which counts what passes and makes attempts   *)
(* fail on demand.  malloc and realloc themselves may fail too.            *)
(***************************************************************************)
EXTENDS Integers, FiniteSets

CONSTANTS Handle,        \* the owners, each of at most one block
          Block,         \* what malloc can return
          NULL,
          NoFailure,     \* K4C_TEST_ALLOCATOR_NO_FAILURE
          Countdowns,    \* what a test sets fail_after to
          MaxEvents      \* bound on the events between two resets of the counts

HandleAssumption == IsFiniteSet(Handle)
BlockAssumption == NULL \notin Block
CountdownsAssumption == Countdowns \subseteq Nat \cup {NoFailure}
MaxEventsAssumption == MaxEvents \in Nat
Assumptions ==
  HandleAssumption /\ BlockAssumption /\ CountdownsAssumption /\ MaxEventsAssumption

VARIABLES tracker,   \* struct k4c_test_allocator
          heap,      \* the blocks malloc gave and free has not seen
          owned,     \* the block of each owner, and the allocator it passes
          kept,      \* outstanding allocations when the counts were last reset
          allowed    \* attempts let through since fail_after was last set,
                     \* and what it was set to

vars == <<tracker, heap, owned, kept, allowed>>

Cleared == [alloc |-> 0, realloc |-> 0, dealloc |-> 0, outstanding |-> 0, failed |-> 0,
            fail_after |-> NoFailure]

\* Whether there is room for another event under the bound.
Room == tracker.alloc + tracker.realloc + tracker.dealloc + tracker.failed < MaxEvents

Tracked == {h \in Handle : owned[h].ptr # NULL /\ owned[h].via = "test"}

-----------------------------------------------------------------------------
Init ==
  /\ tracker = Cleared /\ heap = {} /\ kept = 0
  /\ owned \in [Handle -> [ptr : {NULL}, via : {"test", "libc"}]]
  /\ allowed = [attempts |-> 0, of |-> NoFailure]

\* k4c_test_allocator_init, once more when nothing it tracks is live.
Initialize ==
  /\ Tracked = {}
  /\ tracker' = Cleared /\ kept' = 0
  /\ allowed' = [attempts |-> 0, of |-> NoFailure]
  /\ UNCHANGED <<heap, owned>>

\* The test that owns the struct assigns its fail_after.
SetFailAfter(n) ==
  /\ tracker' = [tracker EXCEPT !.fail_after = n]
  /\ allowed' = [attempts |-> 0, of |-> n]
  /\ UNCHANGED <<heap, owned, kept>>

\* k4c_test_allocator_reset_counts.
ResetCounts ==
  /\ tracker' = [tracker EXCEPT !.alloc = 0, !.realloc = 0, !.dealloc = 0, !.failed = 0]
  /\ kept' = tracker.outstanding
  /\ UNCHANGED <<heap, owned, allowed>>

\* k4c_test_allocator_should_fail says TRUE, and has counted the failure.
ShouldFail == tracker.fail_after = 0

\* A slip: it never reaches the failure that is due.
PassedToOne(t) ==
  [t EXCEPT !.fail_after = IF @ \in {NoFailure, 0, 1} THEN @ ELSE @ - 1]

\* It says FALSE, and has counted down unless there is nothing to count.
Passed(t) == [t EXCEPT !.fail_after = IF @ \in {NoFailure, 0} THEN @ ELSE @ - 1]

Allows ==
  allowed' = IF allowed.of = NoFailure THEN allowed
             ELSE [allowed EXCEPT !.attempts = @ + 1]

\* An attempt that is refused on demand, for an allocation or a resize.
FailsOnDemand(h) ==
  /\ owned[h].via = "test" /\ Room /\ ShouldFail
  /\ tracker' = [tracker EXCEPT !.failed = @ + 1]
  /\ UNCHANGED <<heap, owned, kept, allowed>>

\* An attempt let through for which malloc or realloc returns NULL: what the
\* owner has stays.
FailsInLibc(h) ==
  /\ Room
  /\ IF owned[h].via = "test"
     THEN /\ ~ ShouldFail /\ Allows
          /\ tracker' = [Passed(tracker) EXCEPT !.failed = @ + 1]
     ELSE UNCHANGED <<tracker, allowed>>
  /\ UNCHANGED <<heap, owned, kept>>

\* k4c_alloc, or k4c_resize of NULL.
Alloc(h) ==
  /\ owned[h].ptr = NULL /\ Room
  /\ IF owned[h].via = "test"
     THEN /\ ~ ShouldFail /\ Allows
          /\ tracker' = [Passed(tracker) EXCEPT !.alloc = @ + 1, !.outstanding = @ + 1]
     ELSE UNCHANGED <<tracker, allowed>>
  /\ \E p \in Block \ heap :
       heap' = heap \cup {p} /\ owned' = [owned EXCEPT ![h].ptr = p]
  /\ UNCHANGED kept

\* A slip: a resize does not ask whether it should fail.
ResizeUnasked(h) ==
  /\ owned[h].ptr # NULL /\ Room
  /\ IF owned[h].via = "test"
     THEN tracker' = [tracker EXCEPT !.realloc = @ + 1] /\ Allows
     ELSE UNCHANGED <<tracker, allowed>>
  /\ \E p \in {owned[h].ptr} \cup (Block \ heap) :
       /\ heap' = (heap \ {owned[h].ptr}) \cup {p}
       /\ owned' = [owned EXCEPT ![h].ptr = p]
  /\ UNCHANGED kept

\* k4c_resize of a block to a size above 0, which may move it.
Resize(h) ==
  /\ owned[h].ptr # NULL /\ Room
  /\ IF owned[h].via = "test"
     THEN /\ ~ ShouldFail /\ Allows
          /\ tracker' = [Passed(tracker) EXCEPT !.realloc = @ + 1]
     ELSE UNCHANGED <<tracker, allowed>>
  /\ \E p \in {owned[h].ptr} \cup (Block \ heap) :
       /\ heap' = (heap \ {owned[h].ptr}) \cup {p}
       /\ owned' = [owned EXCEPT ![h].ptr = p]
  /\ UNCHANGED kept

\* k4c_dealloc, also of NULL, and k4c_resize to 0, which is the same.
Dealloc(h) ==
  /\ Room
  /\ tracker' = IF owned[h].via = "test" /\ owned[h].ptr # NULL
                THEN [tracker EXCEPT !.dealloc = @ + 1,
                                     !.outstanding = IF @ > 0 THEN @ - 1 ELSE 0]
                ELSE tracker
  /\ heap' = heap \ {owned[h].ptr} /\ owned' = [owned EXCEPT ![h].ptr = NULL]
  /\ UNCHANGED <<kept, allowed>>

Next ==
  \/ Initialize \/ ResetCounts
  \/ \E n \in Countdowns : SetFailAfter(n)
  \/ \E h \in Handle :
       FailsOnDemand(h) \/ FailsInLibc(h) \/ Alloc(h) \/ Resize(h) \/ Dealloc(h)

Spec == Init /\ [][Next]_vars

-----------------------------------------------------------------------------
\* Every block malloc gave is some owner's, and no two owners': no path, also
\* of a failing resize, loses a block or frees one twice.
HeapIsOwned ==
  /\ heap = {owned[h].ptr : h \in Handle} \ {NULL}
  /\ Cardinality(heap) = Cardinality({h \in Handle : owned[h].ptr # NULL})

\* k4c_test_allocator_is_clean is right: outstanding counts the live blocks
\* that passed the tracker, across resets, failures, moves and NULLs.
OutstandingIsExact == tracker.outstanding = Cardinality(Tracked)

\* test-allocator.md, reset_counts "preserving outstanding allocation state":
\* the event counts explain how outstanding has moved since the reset.
CountsBalance == tracker.alloc - tracker.dealloc = tracker.outstanding - kept

\* test-allocator.md: "Setting it to N allows N allocation or reallocation
\* attempts before failures begin", and once they have begun they
\* go on until the test says otherwise.
AllowsExactly ==
  tracker.fail_after # NoFailure => tracker.fail_after = allowed.of - allowed.attempts

\* What a test concludes from the tracker is true: outstanding and the event
\* counts agree with the live blocks, and failures begin after exactly the
\* attempts asked for.
CountsAreTrue == HeapIsOwned /\ OutstandingIsExact /\ CountsBalance /\ AllowsExactly

=============================================================================
