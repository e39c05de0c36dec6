----------------------------- MODULE EcdsaProofs -----------------------------
(***************************************************************************)
(* The segment of the signature builtin, for every curve, every library    *)
(* that verifies, and whatever is asserted and offered: what its cells     *)
(* hold, that the complete pairs nothing was thrown for are signed, that   *)
(* nothing is refused without a reason, and that it is a write-once store. *)
(***************************************************************************)
EXTENDS Ecdsa, HintsProofs

\* What the dictionary holds now was offered for the same key.
SignaturesWereOffered ==
    signatures # undefined =>
        \A key \in DOMAIN signatures.at :
            [key |-> key, sig |-> signatures.at[key]] \in offered

\* The inductive invariant: a pair is verified against the dictionary and not
\* against what was offered, so the two have to be related.
IInv == TypeOK /\ SignaturesWereOffered /\ PairsAreSigned

-----------------------------------------------------------------------------
(* Pairs, and the verification of one *)

\* A cell is one of the two of its pair, the only pair it belongs to.
LEMMA PairOfCell ==
    ASSUME NEW o \in Int
    PROVE /\ PubKeyXOffset(o) \in Int
          /\ PubKeyXOffset(PubKeyXOffset(o)) = PubKeyXOffset(o)
          /\ MsgOffset(PubKeyXOffset(o)) = MsgOffset(o)
          /\ o \in {PubKeyXOffset(o), MsgOffset(o)}
          /\ \A p \in Int : p = PubKeyXOffset(p) /\ o \in {p, MsgOffset(p)}
                                => p = PubKeyXOffset(o)
BY DEF PubKeyXOffset, MsgOffset

LEMMA ErrorIsError == ~isError(undefined) /\ \A name : isError(Error(name))
BY DEF isError, Error, undefined

LEMMA DictIsDict ==
    ASSUME NEW at
    PROVE Dict(at).at = at /\ Dict(at) # undefined
BY DEF Dict, undefined

\* The verification of a pair returns when a key of the pair and the signature
\* in the dictionary satisfy the library, and only then.
LEMMA VerifyPairReturns ==
    ASSUME NEW written, NEW o \in Int, ~isError(VerifyPair(written, o))
    PROVE /\ PubKeyXOffset(o) \in DOMAIN signatures.at
          /\ SomeKey(signatures.at[PubKeyXOffset(o)], written, PubKeyXOffset(o), "valid")
<1> DEFINE p == PubKeyXOffset(o)
           y == recoverY(written[p])
           sig == signatures.at[p]
           msg == written[MsgOffset(o)]
<1>1. MsgOffset(p) = MsgOffset(o)
    BY PairOfCell
<1>2. ~isError(y) /\ p \in DOMAIN signatures.at
    BY ErrorIsError DEF VerifyPair
<1>3. VerifyPair(written, o) = VerifyKeys(sig, msg, written[p], y)
    BY <1>2 DEF VerifyPair
<1>4. \E root \in {y, Neg(y)} : verify(sig, msg, written[p], root) = "valid"
    BY <1>3, ErrorIsError DEF VerifyKeys
<1> QED
    BY <1>1, <1>2, <1>4 DEF SomeKey

\* When it throws although one of the keys is right, the library threw.
LEMMA VerifyPairThrows ==
    ASSUME NEW written, NEW o \in Int, isError(VerifyPair(written, o)),
           PubKeyXOffset(o) \in DOMAIN signatures.at,
           SomeKey(signatures.at[PubKeyXOffset(o)], written, PubKeyXOffset(o), "valid")
    PROVE SomeKey(signatures.at[PubKeyXOffset(o)], written, PubKeyXOffset(o), "throws")
<1> DEFINE p == PubKeyXOffset(o)
           y == recoverY(written[p])
           sig == signatures.at[p]
           msg == written[MsgOffset(o)]
<1>1. MsgOffset(p) = MsgOffset(o)
    BY PairOfCell
<1>2. /\ ~isError(y)
      /\ \E root \in {y, Neg(y)} : verify(sig, msg, written[p], root) = "valid"
    BY <1>1 DEF SomeKey
<1>3. VerifyPair(written, o) = VerifyKeys(sig, msg, written[p], y)
    BY <1>2 DEF VerifyPair
<1>4. \E root \in {y, Neg(y)} : verify(sig, msg, written[p], root) = "throws"
    BY <1>2, <1>3, ErrorIsError DEF VerifyKeys
<1> QED
    BY <1>1, <1>2, <1>4 DEF SomeKey
-----------------------------------------------------------------------------
(* What an assertion does *)

\* The cells are left alone, and the call throws unless the cell holds the value.
LeavesCells(t, o, v) ==
    /\ t.cells = cells
    /\ \/ isError(t.value)
       \/ o \in DOMAIN cells /\ cells[o] = v

\* A felt is written to the cell, which was empty, and the pair that this
\* completes, if it does, is verified.
WritesCell(t, o, v) ==
    /\ o \notin DOMAIN cells
    /\ v \in Felts
    /\ signatures # undefined
    /\ t.cells = Put(cells, o, v)
    /\ \/ /\ {PubKeyXOffset(o), MsgOffset(o)} \cap DOMAIN cells = {}
          /\ ~isError(t.value)
       \/ t.value = VerifyPair(Put(cells, o, v), o)

LEMMA AssertedAtCases ==
    ASSUME TypeOK, NEW o \in Offsets, NEW v \in Asserted
    PROVE \/ LeavesCells(AssertedAt(o, v), o, v)
          \/ WritesCell(AssertedAt(o, v), o, v)
<1> USE DEF LeavesCells, WritesCell
<1> DEFINE t == AssertedAt(o, v)
           pair == {PubKeyXOffset(o), MsgOffset(o)}
<1>0. v \in SegmentValue /\ o \in Int
    BY AssertedAssumption
<1>1. o \in DOMAIN cells => cells[o] \in Felts /\ cells[o] # undefined
    BY Tags DEF TypeOK
<1>2. CASE At(cells, o) \notin {undefined, v}
    <2>1. t = Trap(cells, Error("InconsistentMemory"))
        BY <1>2 DEF AssertedAt
    <2> QED
        BY <2>1, ErrorIsError DEF Trap
<1>3. CASE At(cells, o) \in {undefined, v}
    <2>1. t = SetCell(o, v)
        BY <1>3 DEF AssertedAt
    <2>2. CASE signatures = undefined \/ ~isFelt(v)
        BY <2>1, <2>2, ErrorIsError DEF SetCell, Trap
    <2>3. CASE signatures # undefined /\ isFelt(v) /\ pair \cap DOMAIN cells = {}
        <3>1. t = Trap(Put(cells, o, v), undefined)
            BY <2>1, <2>3 DEF SetCell
        <3>2. o \notin DOMAIN cells /\ v \in Felts
            BY <1>0, <2>3, PairOfCell, Tags DEF SegmentValue
        <3> QED
            BY <2>3, <3>1, <3>2, ErrorIsError DEF Trap
    <2>4. CASE /\ signatures # undefined /\ isFelt(v) /\ pair \cap DOMAIN cells # {}
               /\ o \in DOMAIN cells
        <3>1. t = Trap(cells, undefined)
            BY <2>1, <2>4 DEF SetCell
        <3> QED
            BY <1>1, <1>3, <2>4, <3>1 DEF Trap, At
    <2>5. CASE /\ signatures # undefined /\ isFelt(v) /\ pair \cap DOMAIN cells # {}
               /\ o \notin DOMAIN cells
        <3>1. t = Trap(Put(cells, o, v), VerifyPair(Put(cells, o, v), o))
            BY <2>1, <2>5 DEF SetCell
        <3>2. v \in Felts
            BY <1>0, <2>5, Tags DEF SegmentValue
        <3> QED
            BY <2>5, <3>1, <3>2 DEF Trap
    <2> QED
        BY <2>2, <2>3, <2>4, <2>5
<1> QED
    BY <1>2, <1>3

\* Putting a signature in the dictionary changes no other.
LEMMA PutSignature ==
    ASSUME TypeOK, NEW key, NEW sig \in Signatures
    PROVE LET at == Put(Created.at, key, sig)
          IN /\ at \in [DOMAIN at -> Signatures]
             /\ at[key] = sig
             /\ \A k \in DOMAIN at : k # key =>
                   signatures # undefined /\ k \in DOMAIN signatures.at /\ at[k] = signatures.at[k]
<1>1. /\ Created.at \in [DOMAIN Created.at -> Signatures]
      /\ \A k \in DOMAIN Created.at : signatures # undefined /\ Created.at = signatures.at
    BY DictIsDict DEF Created, TypeOK, NoCells
<1> QED
    BY <1>1 DEF Put
-----------------------------------------------------------------------------
(* Types *)

LEMMA InitTypeOK == Init => TypeOK
BY DEF Init, TypeOK, NoCells

LEMMA StepTypeOK == TypeOK /\ [Next]_vars => TypeOK'
<1> SUFFICES ASSUME TypeOK, [Next]_vars
             PROVE TypeOK'
    OBVIOUS
<1>1. ASSUME \/ UseSignatures
             \/ \E given \in Given : RefuseSignature(given.key, given.sig)
      PROVE TypeOK'
    <2>1. signatures' = Created /\ cells' = cells
        BY <1>1 DEF UseSignatures, RefuseSignature
    <2> QED
        BY <2>1, DictIsDict DEF TypeOK, Created, NoCells
<1>2. ASSUME NEW given \in Given, AddSignature(given.key, given.sig)
      PROVE TypeOK'
    BY <1>2, PutSignature, DictIsDict DEF TypeOK, AddSignature
<1>3. ASSUME NEW o \in Offsets, NEW v \in Asserted, AssertEq(o, v)
      PROVE TypeOK'
    <2>1. signatures' = signatures /\ cells' = AssertedAt(o, v).cells
        BY <1>3 DEF AssertEq
    <2>2. \/ cells' = cells
          \/ v \in Felts /\ cells' = Put(cells, o, v)
        BY <2>1, AssertedAtCases DEF LeavesCells, WritesCell
    <2> QED
        BY <2>1, <2>2 DEF TypeOK, Put
<1>4. CASE UNCHANGED vars
    BY <1>4 DEF vars, TypeOK
<1> QED
    BY <1>1, <1>2, <1>3, <1>4 DEF Next

\* Whatever is asserted and assigned, the cells hold felts and the dictionary
\* signatures of felts.  ecdsa.ts:22-23 and 51.
THEOREM EcdsaTypes == Spec => []TypeOK
BY InitTypeOK, StepTypeOK, PTL DEF Spec
-----------------------------------------------------------------------------
(* Complete pairs are signed *)

LEMMA InitIInv == Init => IInv
<1>1. Init => PairsAreSigned
    BY DEF Init, PairsAreSigned, CompletePairs, NoCells
<1> QED
    BY <1>1, InitTypeOK DEF Init, IInv, SignaturesWereOffered

\* Whatever is put in the dictionary is offered, and what is offered stays so.
LEMMA StepOffered ==
    ASSUME TypeOK, SignaturesWereOffered, [Next]_vars
    PROVE SignaturesWereOffered' /\ offered \subseteq offered'
<1>1. ASSUME \/ UseSignatures
             \/ \E given \in Given : RefuseSignature(given.key, given.sig)
      PROVE SignaturesWereOffered' /\ offered \subseteq offered'
    <2>1. signatures' = Created /\ offered' = offered
        BY <1>1 DEF UseSignatures, RefuseSignature
    <2> QED
        BY <2>1, DictIsDict DEF SignaturesWereOffered, Created, NoCells
<1>2. ASSUME NEW given \in Given, AddSignature(given.key, given.sig)
      PROVE SignaturesWereOffered' /\ offered \subseteq offered'
    <2> DEFINE at == Put(Created.at, given.key, given.sig)
    <2>1. /\ given.sig \in Signatures
          /\ signatures' = Dict(at)
          /\ offered' = offered \cup {[key |-> given.key, sig |-> given.sig]}
        BY <1>2 DEF AddSignature
    <2>2. /\ at[given.key] = given.sig
          /\ \A k \in DOMAIN at : k # given.key =>
                signatures # undefined /\ k \in DOMAIN signatures.at /\ at[k] = signatures.at[k]
        BY <2>1, PutSignature
    <2>3. signatures'.at = at
        BY <2>1, DictIsDict
    <2> HIDE DEF at
    <2>4. ASSUME NEW key \in DOMAIN at
          PROVE [key |-> key, sig |-> at[key]] \in offered'
        BY <2>1, <2>2 DEF SignaturesWereOffered
    <2> QED
        BY <2>1, <2>3, <2>4 DEF SignaturesWereOffered
<1>3. ASSUME NEW o \in Offsets, NEW v \in Asserted, AssertEq(o, v)
      PROVE SignaturesWereOffered' /\ offered \subseteq offered'
    BY <1>3 DEF AssertEq, SignaturesWereOffered
<1>4. CASE UNCHANGED vars
    BY <1>4 DEF vars, SignaturesWereOffered
<1> QED
    BY <1>1, <1>2, <1>3, <1>4 DEF Next

\* A pair that was complete keeps what its verification was about.
LEMMA SignedStaysSigned ==
    ASSUME NEW p \in CompletePairs, NEW sig, NEW verdict, SomeKey(sig, cells, p, verdict),
           NEW c, c[p] = cells[p], c[MsgOffset(p)] = cells[MsgOffset(p)]
    PROVE SomeKey(sig, c, p, verdict)
BY DEF SomeKey

\* The assertion that completes a pair is the one that has it verified.
LEMMA AssertionSigns ==
    ASSUME IInv, NEW o \in Offsets, NEW v \in Asserted, AssertEq(o, v),
           NEW p \in CompletePairs' \ refused'
    PROVE \E offer \in offered : offer.key = p /\ SomeKey(offer.sig, cells', p, "valid")
<1> DEFINE t == AssertedAt(o, v)
<1>0. /\ TypeOK /\ SignaturesWereOffered /\ PairsAreSigned /\ o \in Int
      /\ \A x \in DOMAIN cells : x \in Int
    BY AssertedAssumption DEF IInv, TypeOK
<1>1. cells' = t.cells /\ refused \subseteq refused'
    BY DEF AssertEq
<1>2. CASE LeavesCells(t, o, v)
    <2>1. cells' = cells
        BY <1>1, <1>2 DEF LeavesCells
    <2>2. p \in CompletePairs \ refused
        BY <1>1, <2>1 DEF CompletePairs
    <2> QED
        BY <1>0, <2>1, <2>2 DEF PairsAreSigned
<1>3. CASE WritesCell(t, o, v)
    <2>1. cells' = Put(cells, o, v) /\ o \notin DOMAIN cells
        BY <1>1, <1>3 DEF WritesCell
    <2>2. /\ DOMAIN cells' = DOMAIN cells \cup {o}
          /\ \A x \in DOMAIN cells : cells'[x] = cells[x]
        BY <2>1 DEF Put
    <2>3. /\ p = PubKeyXOffset(p) /\ p \in DOMAIN cells \cup {o}
          /\ MsgOffset(p) \in DOMAIN cells \cup {o}
        BY <2>2 DEF CompletePairs
    <2>4. CASE p \in DOMAIN cells /\ MsgOffset(p) \in DOMAIN cells
        <3>1. p \in CompletePairs \ refused
            BY <1>1, <2>3, <2>4 DEF CompletePairs
        <3>2. PICK offer \in offered : offer.key = p /\ SomeKey(offer.sig, cells, p, "valid")
            BY <1>0, <3>1 DEF PairsAreSigned
        <3> QED
            BY <2>2, <2>4, <3>1, <3>2, SignedStaysSigned
    <2>5. CASE ~(p \in DOMAIN cells /\ MsgOffset(p) \in DOMAIN cells)
        <3>1. p = PubKeyXOffset(o) /\ MsgOffset(p) = MsgOffset(o)
            BY <1>0, <2>3, <2>5, PairOfCell DEF MsgOffset
        <3>2. p # MsgOffset(p)
            BY <1>0, <2>3 DEF MsgOffset
        <3>3. {p, MsgOffset(p)} \cap DOMAIN cells # {}
            BY <2>3, <3>2
        <3>4. cells' # cells
            BY <2>1, <2>2
        <3>5. ~isError(t.value)
            BY <1>1, <3>1, <3>4 DEF AssertEq
        <3>6. ~isError(VerifyPair(cells', o)) /\ signatures # undefined
            BY <1>3, <2>1, <3>1, <3>3, <3>5 DEF WritesCell
        <3>7. /\ p \in DOMAIN signatures.at
              /\ SomeKey(signatures.at[p], cells', p, "valid")
            BY <1>0, <3>1, <3>6, VerifyPairReturns
        <3>8. [key |-> p, sig |-> signatures.at[p]] \in offered
            BY <1>0, <3>6, <3>7 DEF SignaturesWereOffered
        <3> QED
            BY <3>7, <3>8
    <2> QED
        BY <2>4, <2>5
<1> QED
    BY <1>0, <1>2, <1>3, AssertedAtCases

LEMMA StepIInv == IInv /\ [Next]_vars => IInv'
<1> SUFFICES ASSUME IInv, [Next]_vars
             PROVE IInv'
    OBVIOUS
<1>1. TypeOK' /\ SignaturesWereOffered' /\ offered \subseteq offered'
    BY StepTypeOK, StepOffered DEF IInv
<1>2. CASE UNCHANGED <<cells, refused>>
    <2>1. CompletePairs' = CompletePairs
        BY <1>2 DEF CompletePairs
    <2>2. PairsAreSigned'
        BY <1>1, <1>2, <2>1 DEF IInv, PairsAreSigned, SomeKey
    <2> QED
        BY <1>1, <2>2 DEF IInv
<1>3. ASSUME NEW o \in Offsets, NEW v \in Asserted, AssertEq(o, v)
      PROVE IInv'
    BY <1>1, <1>3, AssertionSigns DEF IInv, PairsAreSigned
<1> QED
    BY <1>2, <1>3 DEF Next, UseSignatures, AddSignature, RefuseSignature, vars

\* For every curve and every library that verifies: once a pair is complete and
\* none of its assertions has thrown, a signature offered for it is valid for
\* one of its keys, in whichever order its cells were written.  ecdsa.ts:41-106.
THEOREM CompletePairsAreSigned == Spec => []PairsAreSigned
<1>1. IInv => PairsAreSigned
    BY DEF IInv
<1> QED
    BY <1>1, InitIInv, StepIInv, PTL DEF Spec
-----------------------------------------------------------------------------
(* Refusals *)

\* Only the completion of a pair refuses it, and only when its verification throws.
LEMMA AssertionRefuses ==
    ASSUME TypeOK, NEW o \in Offsets, NEW v \in Asserted, AssertEq(o, v),
           NEW p \in refused' \ refused
    PROVE p = PubKeyXOffset(o) /\ isError(VerifyPair(cells', o))
<1> DEFINE t == AssertedAt(o, v)
<1>1. cells' = t.cells
    BY DEF AssertEq
<1>2. isError(t.value) /\ t.cells # cells /\ p = PubKeyXOffset(o)
    BY DEF AssertEq
<1> HIDE DEF t
<1>3. WritesCell(t, o, v)
    BY <1>2, AssertedAtCases DEF LeavesCells, t
<1> QED
    BY <1>1, <1>2, <1>3 DEF WritesCell

\* A step refuses no pair that the dictionary signs, unless the library throws.
LEMMA StepRefusals ==
    ASSUME TypeOK, [Next]_vars, NEW p \in refused' \ refused,
           p \in DOMAIN signatures'.at, SomeKey(signatures'.at[p], cells', p, "valid")
    PROVE SomeKey(signatures'.at[p], cells', p, "throws")
<1>1. PICK o \in Offsets, v \in Asserted : AssertEq(o, v)
    BY DEF Next, UseSignatures, AddSignature, RefuseSignature, vars
<1>2. p = PubKeyXOffset(o) /\ isError(VerifyPair(cells', o))
    BY <1>1, AssertionRefuses
<1>3. signatures' = signatures /\ o \in Int
    BY <1>1, AssertedAssumption DEF AssertEq
<1> QED
    BY <1>2, <1>3, VerifyPairThrows

\* A valid pair is never refused because of which of its two keys, or which of
\* its two cells, came last: only an exception of the library does that.
\* ecdsa.ts:78-104.
THEOREM NoPairIsRefusedUnjustly == Spec => RefusalsAreJustified
<1>1. TypeOK /\ [Next]_vars =>
        [\A o \in refused' \ refused :
            (o \in DOMAIN signatures'.at /\ SomeKey(signatures'.at[o], cells', o, "valid"))
                => SomeKey(signatures'.at[o], cells', o, "throws")]_vars
    BY StepRefusals
<1> QED
    BY <1>1, EcdsaTypes, PTL DEF Spec, RefusalsAreJustified
-----------------------------------------------------------------------------
(* The segment is a write-once store *)

LEMMA InitRefines == Init => WriteOnce!Init
BY DEF Init, WriteOnce!Init, NoCells, Done, WriteOnce!Nothing

LEMMA StepRefines == TypeOK /\ [Next]_vars => [WriteOnce!Next]_WriteOnce!vars
<1> SUFFICES ASSUME TypeOK, [Next]_vars
             PROVE WriteOnce!Next \/ UNCHANGED WriteOnce!vars
    OBVIOUS
<1>1. ASSUME \/ UseSignatures
             \/ \E given \in Given : AddSignature(given.key, given.sig)
      PROVE WriteOnce!Begin
    BY <1>1 DEF UseSignatures, AddSignature, Done, WriteOnce!Begin, WriteOnce!Nothing
<1>2. ASSUME NEW given \in Given, RefuseSignature(given.key, given.sig)
      PROVE WriteOnce!Fail
    BY <1>2 DEF RefuseSignature, Throw, WriteOnce!Fail, WriteOnce!Grow
<1>3. ASSUME NEW o \in Offsets, NEW v \in Asserted, AssertEq(o, v)
      PROVE WriteOnce!Assert \/ WriteOnce!Fail
    <2> DEFINE t == AssertedAt(o, v)
    <2>1. /\ cells' = t.cells
          /\ outcome' = IF isError(t.value)
                          THEN Throw
                          ELSE [op |-> "assert", address |-> o, value |-> v]
        BY <1>3 DEF AssertEq
    <2> HIDE DEF t
    <2>2. LeavesCells(t, o, v) \/ WritesCell(t, o, v)
        BY AssertedAtCases DEF t
    <2>3. /\ WriteOnce!Grow
          /\ isError(t.value) \/ (o \in DOMAIN cells' /\ cells'[o] = v)
        BY <2>1, <2>2 DEF LeavesCells, WritesCell, Put, WriteOnce!Grow
    <2> QED
        BY <2>1, <2>3 DEF Throw, WriteOnce!Assert, WriteOnce!Fail
<1>4. CASE UNCHANGED vars
    BY <1>4 DEF vars, WriteOnce!vars
<1> QED
    BY <1>1, <1>2, <1>3, <1>4 DEF Next, WriteOnce!Next

\* Every behaviour of the segment is one of the write-once store that the rest
\* of the memory implements.  memory.ts:44-56, ecdsa.ts:60-71.
THEOREM EcdsaIsWriteOnce == Spec => ImplementsWriteOnce
<1>1. Spec => WriteOnce!Spec
    BY InitRefines, StepRefines, EcdsaTypes, PTL DEF Spec, WriteOnce!Spec
<1> QED
    BY <1>1 DEF ImplementsWriteOnce
=============================================================================
