------------------------------ MODULE Dictionaries ------------------------------
(***************************************************************************)
(* What the dictionary hints must keep true of the programs that use them: *)
(* the dictionaries of the machine agree with the accesses in memory and   *)
(* with the arena, and a squash is an ordered visit of the accesses.       *)
(***************************************************************************)
EXTENDS DictPrograms

KeyOf(d, i) == CellOf(d, DICT_ACCESS_SIZE * i)
PrevOf(d, i) == CellOf(d, DICT_ACCESS_SIZE * i + PREV_VALUE_OFFSET)
NewOf(d, i) == CellOf(d, DICT_ACCESS_SIZE * i + 2)

\* The accesses of a dictionary that are complete in memory
Accesses(d) ==
    {i \in 0..(limits.accesses - 1) : undefined \notin {KeyOf(d, i), PrevOf(d, i), NewOf(d, i)}}

\* Those to a key before access n, and the last of some accesses
Earlier(d, key, n) == {i \in Accesses(d) : i < n /\ KeyOf(d, i) = Felt(key)}
LastOf(accesses) == CHOOSE i \in accesses : \A j \in accesses : j <= i

\* The value of a key before access n, going by memory alone: the new value of the
\* last access to the key, zero without one
Replayed(d, key, n) ==
    LET earlier == Earlier(d, key, n)
    IN IF earlier = {} THEN Zero ELSE NewOf(d, LastOf(earlier))

-----------------------------------------------------------------------------

\* The type of the state: every dictionary is that of a segment, keys and indices
\* are integers, and what ended the run is an error.
TypeOK ==
    /\ \A i \in DOMAIN segments : \A o \in DOMAIN segments[i].cells :
          segments[i].cells[o] \in SegmentValue
    /\ DOMAIN dictManager \subseteq RangeCheck + 1..Len(segments) - 1
    /\ \A d \in DOMAIN dictManager :
          /\ dictManager[d].id \in Felts
          /\ \A k \in DOMAIN dictManager[d].entries :
                k \in Keys /\ dictManager[d].entries[k] \in SegmentValue
    /\ keys \in Seq(Keys)
    /\ DOMAIN keyToIndices \subseteq Keys
    /\ \A k \in DOMAIN keyToIndices : keyToIndices[k] \in Seq(0..limits.accesses)
    /\ Running \/ thrown \in Errors

\* The two stores of a dictionary agree: between two hints, the Map behind it holds
\* what replaying its accesses in memory gives, and the previous value of every access
\* is the new value of the access to the same key before it, in whatever order the
\* accesses to several dictionaries and keys interleave (felt252DictEntryInit.ts:46-57,
\* felt252DictEntryUpdate.ts:42-55).
DictionariesReplayAccesses ==
    \A d \in DOMAIN dictManager :
        /\ \A i \in Accesses(d) : PrevOf(d, i) = Replayed(d, KeyOf(d, i).inner, i)
        /\ pending = <<>> =>
              \A key \in Keys : Entry(dictManager[d], key) = Replayed(d, key, limits.accesses)

\* The number of a dictionary leads to its info in the arena: unless an allocation has
\* thrown, the dictionaries are numbered without a gap, and the info at three times the
\* number of each holds its base (allocFelt252Dict.ts:47-55, virtualMachine.ts:666-673,
\* getSegmentArenaIndex.ts:47-48).
ArenaNumbersDictionaries ==
    Running =>
        /\ {dictManager[d].id : d \in DOMAIN dictManager}
               = {Felt(n) : n \in 0..(Cardinality(DOMAIN dictManager) - 1)}
        /\ \A d \in DOMAIN dictManager :
              CellOf(Info, 3 * dictManager[d].id.inner) = Relocatable(d, 0)

\* A hint that throws, because the cell it fills already holds something else, leaves
\* the contents of every dictionary as they were, though it has set the entry
\* (felt252DictEntryInit.ts:54-56, allocFelt252Dict.ts:54-55).
FailedHintsKeepContents ==
    [][thrown' # undefined =>
          \A d \in DOMAIN dictManager, key \in Keys :
              Entry(dictManager'[d], key) = Entry(dictManager[d], key)]_vars

-----------------------------------------------------------------------------
(* Squashing *)

\* The keys of the dictionary being squashed, as memory has them
SquashLog ==
    IF squash.at = "none" THEN <<>>
    ELSE [i \in 1..AccessCount(squash.dict) |-> KeyOf(squash.dict, i - 1).inner]

Ordered == INSTANCE OrderedVisit WITH log <- SquashLog, visited <- visited

\* A squash goes through every access of the dictionary once, by ascending key and, for
\* one key, in the order of the accesses, and it goes on to its end: what the hints of
\* initSquashData.ts to getNextDictKey.ts hand out, for a first squash.
ImplementsOrderedVisit == Ordered!Spec

\* A squash that has begun comes to its end, and no hint of it throws: the loop flags
\* (shouldSkipSquashLoop.ts:36-39, shouldContinueSquashLoop.ts:38-41) stop the program
\* before an index or a key is missing.
EverySquashEnds == squash.at # "none" ~> squash.at = "none"

\* "An array containing the keys that still need to be squashed"
\* (squashedDictManager.ts:15): inside a squash, keys holds keys of the dictionary
\* being squashed.
KeysAreStillToSquash ==
    squash.at \notin {"none", "init"} =>
        \A k \in DOMAIN keys : \E i \in DOMAIN SquashLog : SquashLog[i] = keys[k]
=============================================================================
