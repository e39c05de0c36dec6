------------------------------ MODULE SquashHints ------------------------------
(***************************************************************************)
(* The hints that squash a dictionary (hints/dict/*.ts) and the class      *)
(* SquashedDictManager (hints/squashedDictManager.ts), whose methods       *)
(* return what they read or the error they throw.                          *)
(***************************************************************************)
EXTENDS DictHints

Lists == INSTANCE SequencesExt

-----------------------------------------------------------------------------
(* SquashedDictManager *)

Last(list) == list[Len(list)]

lastKey(list) == IF list = <<>> THEN Error("EmptyKeys") ELSE Felt(Last(list))

\* lastIndices(): the indices of the last key, as a value with a tag
lastIndices ==
    IF keys = <<>> THEN Error("EmptyKeys")
    ELSE IF Last(keys) \notin DOMAIN keyToIndices THEN Error("EmptyIndices")
    ELSE [tag |-> "indices", list |-> keyToIndices[Last(keys)]]

lastIndex(indices) ==
    IF isError(indices) THEN indices
    ELSE IF indices.list = <<>> THEN Error("EmptyIndex")
    ELSE Felt(Last(indices.list))

\* popIndex(), once it is known not to throw
popIndex == keyToIndices' = [keyToIndices EXCEPT ![Last(keys)] = Lists!Front(@)]

\* The indices of a key, none when the key is new
IndicesOf(key) == IF key \in DOMAIN keyToIndices THEN keyToIndices[key] ELSE <<>>

\* The numbers of a finite set, the least first
Ascending(S) ==
    CHOOSE list \in [1..Cardinality(S) -> S] :
        \A i, j \in DOMAIN list : i < j => list[i] < list[j]

\* The numbers of a list, the greatest first
Descending(list) ==
    LET order == CHOOSE p \in Lists!Bijection(DOMAIN list, DOMAIN list) :
                     \A i, j \in DOMAIN list : i < j => list[p[i]] >= list[p[j]]
    IN [i \in DOMAIN list |-> list[order[i]]]

\* keyToIndices after insert(read[i], i) for each i below n
Inserted(read, n) ==
    [key \in DOMAIN keyToIndices \cup {read[i].inner : i \in 0..(n - 1)} |->
        IndicesOf(key) \o Ascending({i \in 0..(n - 1) : read[i].inner = key})]

-----------------------------------------------------------------------------
(* InitSquashData *)

InvalidSize(ptrDiff) ==
    IF isFelt(ptrDiff) /\ ToNumber[ptrDiff.inner] % DICT_ACCESS_SIZE # 0
      THEN Error("InvalidDictAccessesNumber")
      ELSE undefined

\* How many of the n keys are inserted before one is not a felt
InsertedCount(read, n) ==
    LET bad == {i \in 0..(n - 1) : isError(read[i])}
    IN IF bad = {} THEN n ELSE CHOOSE i \in bad : \A j \in bad : i <= j

\* The greatest key is compared with the first integer a range check refuses,
\* strictly; then the smallest is asserted.
AssertKeys(segs, list, bigKeys, firstKey) ==
    \E first \in {assertEq(segs, bigKeys, Felt(IF list[1] > RangeBound THEN 1 ELSE 0))} :
    \E second \in {ThenStore(first, firstKey, Felt(Last(list)))} :
        Written(second)

\* (mutant: the indices stay in the order they were inserted)
StartSquashUnreversed(segs, inserted, bigKeys, firstKey) ==
    /\ keyToIndices' = inserted
    /\ \E list \in {Descending(keys \o Lists!SetToSeq(DOMAIN inserted))} :
          keys' = list /\ AssertKeys(segs, list, bigKeys, firstKey)

\* Every list of indices is reversed and every key pushed, those an earlier squash
\* has left included; the keys are sorted, the greatest first.
StartSquash(segs, inserted, bigKeys, firstKey) ==
    /\ keyToIndices' = [key \in DOMAIN inserted |-> Lists!Reverse(inserted[key])]
    /\ \E list \in {Descending(keys \o Lists!SetToSeq(DOMAIN inserted))} :
          keys' = list /\ AssertKeys(segs, list, bigKeys, firstKey)

\* A key that is no felt stops the loop with the keys before it inserted.  Programs
\* squash at least one access: they jump over an empty dictionary.
initSquashData(segs, regs, dictAccesses, ptrDiff, nAccesses, bigKeys, firstKey) ==
    \E address \in {PointerOf(segs, regs, dictAccesses)} :
    \E diff \in {ValueOf(segs, regs, ptrDiff)}, count \in {ValueOf(segs, regs, nAccesses)} :
    \E error \in {FirstError(<<address, diff, InvalidSize(diff), count>>)} :
        /\ IF isError(error)
             THEN Throw(segs, error) /\ UNCHANGED squashedDictManager
             ELSE \E n \in {ToNumber[count.inner]} :
                  \E read \in {[i \in 0..(n - 1) |->
                                   LoadFelt(segs, AddOffset(address, i * DICT_ACCESS_SIZE))]} :
                  \E done \in {InsertedCount(read, n)} :
                     IF done < n
                       THEN /\ Throw(segs, read[done])
                            /\ keyToIndices' = Inserted(read, done)
                            /\ UNCHANGED keys
                       ELSE \E inserted \in {Inserted(read, n)} :
                               StartSquash(segs, inserted,
                                           cellRefToRelocatable(regs, bigKeys),
                                           cellRefToRelocatable(regs, firstKey))
        /\ UNCHANGED dictManager

-----------------------------------------------------------------------------
(* The loop over the keys and, for each key, over its indices *)

getCurrentAccessIndex(segs, regs, rangeCheckPtr) ==
    \E address \in {PointerOf(segs, regs, rangeCheckPtr)} :
    \E index \in {lastIndex(lastIndices)} :
    \E error \in {FirstError(<<address, index>>)} :
        /\ IF isError(error) THEN Throw(segs, error) ELSE AssertEq(segs, address, index)
        /\ UNCHANGED <<dictManager, squashedDictManager>>

\* The previous index is gone when there is no current one.
getCurrentAccessDelta(segs, regs, indexDeltaMinusOne) ==
    \E prevIndex \in {lastIndex(lastIndices)} :
        /\ IF isError(prevIndex)
             THEN Throw(segs, prevIndex) /\ UNCHANGED keyToIndices
             ELSE /\ popIndex
                  /\ \E currIndex \in
                        {lastIndex([lastIndices EXCEPT !.list = Lists!Front(@)])} :
                        IF isError(currIndex)
                          THEN Throw(segs, currIndex)
                          ELSE AssertEq(segs, cellRefToRelocatable(regs, indexDeltaMinusOne),
                                        Felt(currIndex.inner - prevIndex.inner - 1))
        /\ UNCHANGED <<dictManager, keys>>

\* (mutant: the current index counts as one to come)
AssertMoreIndicesOffByOne(segs, regs, dst, more, noMore) ==
    /\ AssertEq(segs, cellRefToRelocatable(regs, dst),
                IF Len(lastIndices.list) >= 1 THEN more ELSE noMore)
    /\ UNCHANGED <<dictManager, squashedDictManager>>

\* The flag asserted by both hints of the loop over indices
AssertMoreIndices(segs, regs, dst, more, noMore) ==
    /\ IF isError(lastIndices)
         THEN Throw(segs, lastIndices)
         ELSE AssertEq(segs, cellRefToRelocatable(regs, dst),
                       IF Len(lastIndices.list) > 1 THEN more ELSE noMore)
    /\ UNCHANGED <<dictManager, squashedDictManager>>

shouldSkipSquashLoop(segs, regs, shouldSkipLoop) ==
    AssertMoreIndices(segs, regs, shouldSkipLoop, Felt(0), Felt(1))

shouldContinueSquashLoop(segs, regs, shouldContinue) ==
    AssertMoreIndices(segs, regs, shouldContinue, Felt(1), Felt(0))

\* The key is gone when there is no next one.
getNextDictKey(segs, regs, nextKey) ==
    /\ IF keys = <<>>
         THEN Throw(segs, Error("EmptyKeys")) /\ UNCHANGED keys
         ELSE /\ keys' = Lists!Front(keys)
              /\ IF keys' = <<>>
                   THEN Throw(segs, Error("EmptyKeys"))
                   ELSE AssertEq(segs, cellRefToRelocatable(regs, nextKey), lastKey(keys'))
    /\ UNCHANGED <<dictManager, keyToIndices>>
=============================================================================
