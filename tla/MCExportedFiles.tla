--------------------------- MODULE MCExportedFiles ---------------------------
(* Memories that differ in one of the words of a value, in an address, in    *)
(* their length, or only in the order of their cells; traces that differ in  *)
(* the low byte of a register, in its high byte or in their length.  The      *)
(* memory a machine has relocated is never empty: its stack is in it.  Files  *)
(* are only told apart by their names, which may be exchanged.                *)
EXTENDS ExportedFiles, TLC

MCToNumber == [n \in 0..(P - 1) |-> n]

Cell(a, n) == [address |-> a, value |-> Felt(n)]

MCMemories ==
    {<<Cell(0, 4)>>, <<Cell(0, 64)>>, <<Cell(1, 4)>>, <<Cell(1, 4), Cell(2, 1)>>}
MCForeign == {<<Cell(0, 16)>>, <<Cell(2, 1), Cell(1, 4)>>, <<Cell(2, 4), Cell(1, 1)>>}

At(pc, ap, fp) == [pc |-> Felt(pc), ap |-> Felt(ap), fp |-> Felt(fp)]

MCTraces ==
    {<<At(0, 1, 1)>>, <<At(1, 1, 1)>>, <<At(0, 3, 1)>>, <<At(0, 1, 1), At(1, 1, 1)>>}

MCSymmetry == Permutations(MemoryNames) \cup Permutations(TraceNames)
=============================================================================
