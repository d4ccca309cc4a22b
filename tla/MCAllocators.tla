---------------------------- MODULE MCAllocators ----------------------------
(***************************************************************************)
(* Small instances of the arena and of the test allocator; a behaviour     *)
(* uses one of them and leaves the other as it was.  The arena has a few   *)
(* words, on a size_t small enough for every rounding and bound to meet    *)
(* its edge.  The owners of the test allocator's blocks may each pass the  *)
(* tracker or not.                                                         *)
(***************************************************************************)
EXTENDS Arena, TLC

CONSTANTS Block, NoBlock, NoFailure, Countdowns, MaxEvents

VARIABLES used,       \* the allocator in use
          tracker, heap, owned, kept, allowed

tVars == <<tracker, heap, owned, kept, allowed>>

Test == INSTANCE TestAllocator WITH NULL <- NoBlock

ASSUME TestAssumption == Test!Assumptions

BlockSymmetry == Permutations(Block)

AllocatorsInit ==
  /\ Init /\ Test!Init
  /\ \/ used = "arena" /\ \A h \in Handle : owned[h].via = "test"
     \/ used = "test"

UseArena == used = "arena" /\ Next /\ UNCHANGED <<used, tVars>>
UseTest == used = "test" /\ Test!Next /\ UNCHANGED <<used, vars>>

AllocatorsSpec == AllocatorsInit /\ [][UseArena \/ UseTest]_<<used, vars, tVars>>

\* What a test concludes from the test allocator is true after any mix of
\* blocks of its own and of libc, moves, refusals and resets: the counts agree
\* with the live blocks, and failures begin when asked and go on.
TrackerIsTrue == Test!CountsAreTrue

=============================================================================
