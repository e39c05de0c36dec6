---------------------------- MODULE ExportedFiles ----------------------------
(***************************************************************************)
(* The files of the relocated memory and trace: written by exportMemory    *)
(* and exportTrace (runners/cairoRunner.ts) at the end of the run script   *)
(* (scripts/run.ts), and compared with each other, and with those of other *)
(* implementations of the machine, by scripts/compare.ts.                  *)
(*                                                                         *)
(* A file is the sequence of its 64-bit words.  The comparisons change     *)
(* nothing: they are operators, of the names they are given.               *)
(***************************************************************************)
EXTENDS SegmentValues, Sequences

CONSTANTS
    WordSize, ByteSize, \* 2^64 and 2^8 in the code
    Memories,           \* relocated memories: sequences of entries
    Foreign,            \* the memories other implementations export, in their order
    Traces,             \* relocated traces: sequences of entries
    MemoryNames,        \* names of files, ending in .memory
    TraceNames          \* names of files, ending in .trace

Word == 0..(WordSize - 1)
MemoryEntry == [address : Word, value : Felts]
TraceEntry == [pc : Felts, ap : Felts, fp : Felts]

\* The felts fit in the four words kept for them.  A machine relocates every cell
\* to an address of its own.
ASSUME FileAssumption ==
    /\ WordSize \in Nat /\ ByteSize \in 1..WordSize
    /\ P <= WordSize * WordSize * WordSize * WordSize
    /\ \A m \in Memories \cup Foreign :
          /\ m \in Seq(MemoryEntry)
          /\ \A i, j \in DOMAIN m : i # j => m[i].address # m[j].address
    /\ Traces \subseteq Seq(TraceEntry)
    /\ MemoryNames \cap TraceNames = {}

VARIABLES
    disk,       \* a function from the names of the files there are to their words
    origin,     \* from the same names to what they were exported from
    reported    \* from names to what a machine had relocated, and was last reported
                \* to have exported to that name

vars == <<disk, origin, reported>>

NoFiles == [name \in {} |-> <<>>]

Init == disk = NoFiles /\ origin = NoFiles /\ reported = NoFiles

-----------------------------------------------------------------------------
(* Encoding *)

\* value.to64BitsWords()
to64BitsWords(v) ==
    LET shifted(n) == v.inner \div n
    IN <<shifted(1) % WordSize,
         shifted(WordSize) % WordSize,
         shifted(WordSize * WordSize) % WordSize,
         shifted(WordSize * WordSize * WordSize) % WordSize>>

\* Felt.from64BitsWords(words)
from64BitsWords(words) ==
    Felt(words[1] + WordSize * (words[2] + WordSize * (words[3] + WordSize * words[4])))

\* How many words an entry takes
MEMORY_ENTRY == 5
TRACE_ENTRY == 3

\* The buffer a view has written the words of each entry to, after those of the
\* entries before
Buffer(entries, size) ==
    [w \in 1..(size * Len(entries)) |->
        entries[((w - 1) \div size) + 1][((w - 1) % size) + 1]]

encodedMemory(memory) ==
    Buffer([k \in DOMAIN memory |-> <<memory[k].address>> \o to64BitsWords(memory[k].value)],
           MEMORY_ENTRY)

\* setBigUint64 keeps the low 64 bits of a register.
encodedTrace(trace) ==
    Buffer([k \in DOMAIN trace |->
               <<trace[k].ap.inner % WordSize, trace[k].fp.inner % WordSize,
                 trace[k].pc.inner % WordSize>>],
           TRACE_ENTRY)

-----------------------------------------------------------------------------
(* The run script: with the option --no-relocate the machine relocates     *)
(* nothing, and an option that needs the relocated memory is refused       *)

Files(old, name, v) == [x \in DOMAIN old \cup {name} |-> IF x = name THEN v ELSE old[x]]

\* No file is asked for.
Unnamed == "none"

\* What a run starts from, and each of its exports goes on from
Untouched == [disk |-> disk, origin |-> origin, reported |-> reported, thrown |-> FALSE]

\* The file that cannot be opened, if there is one, is left as it was.
writeFileSync(files, name, words, source, unopened) ==
    IF name = unopened
      THEN [files EXCEPT !.thrown = TRUE]
      ELSE [files EXCEPT !.disk = Files(files.disk, name, words),
                         !.origin = Files(files.origin, name, source)]

\* (mutant: that the file cannot be opened goes unnoticed)
exportMemoryUnnoticed(files, name, memory, unopened) ==
    IF memory = <<>>
      THEN [files EXCEPT !.thrown = TRUE]
      ELSE [writeFileSync(files, name, encodedMemory(memory), memory, unopened)
                EXCEPT !.thrown = FALSE]

exportMemory(files, name, memory, unopened) ==
    IF memory = <<>>
      THEN [files EXCEPT !.thrown = TRUE]
      ELSE writeFileSync(files, name, encodedMemory(memory), memory, unopened)

exportTrace(files, name, trace, unopened) ==
    writeFileSync(files, name, encodedTrace(trace), trace, unopened)

\* An export that did not throw is reported.
Success(files, name, relocated) ==
    IF files.thrown THEN files
                    ELSE [files EXCEPT !.reported = Files(files.reported, name, relocated)]

\* vm.relocatedMemory, vm.relocatedTrace
Relocated(relocate, computed) == IF relocate THEN computed ELSE <<>>

\* The files after the export of the memory, and after that of the trace, which is
\* not reached when the first throws: its file is then the one of an earlier run.
AfterMemory(name, memory, unopened) ==
    IF name = Unnamed
      THEN Untouched
      ELSE Success(exportMemory(Untouched, name, memory, unopened), name, memory)

AfterTrace(files, name, trace, unopened) ==
    IF name = Unnamed \/ files.thrown
      THEN files
      ELSE Success(exportTrace(files, name, trace, unopened), name, trace)

\* A run that ends, of a machine that has computed this memory and this trace
Run(relocate, memoryName, traceName, memory, trace) ==
    /\ relocate \/ memoryName = Unnamed
    /\ \E unopened \in {Unnamed, memoryName, traceName} :
       \E between \in {AfterMemory(memoryName, Relocated(relocate, memory), unopened)} :
       \E after \in {AfterTrace(between, traceName, Relocated(relocate, trace), unopened)} :
            disk' = after.disk /\ origin' = after.origin /\ reported' = after.reported

\* Another implementation of the machine exports its memory, or its trace.
OtherExport ==
    \/ \E name \in MemoryNames, memory \in Foreign :
          /\ disk' = Files(disk, name, encodedMemory(memory))
          /\ origin' = Files(origin, name, memory)
          /\ reported' = Files(reported, name, memory)
    \/ \E name \in TraceNames, trace \in Traces :
          /\ disk' = Files(disk, name, encodedTrace(trace))
          /\ origin' = Files(origin, name, trace)
          /\ reported' = Files(reported, name, trace)

Next ==
    \/ \E relocate \in BOOLEAN :
       \E memoryName \in MemoryNames \cup {Unnamed}, traceName \in TraceNames \cup {Unnamed} :
       \E memory \in Memories, trace \in Traces :
          Run(relocate, memoryName, traceName, memory, trace)
    \/ OtherExport

Spec == Init /\ [][Next]_vars

-----------------------------------------------------------------------------
(* The comparison of files, given by their paths *)

Entries(file, size) == 1..(Len(file) \div size)

\* The k-th entry of a file
EntryAt(file, size, k) == SubSeq(file, size * (k - 1) + 1, size * k)

readMemoryBuffer(file) ==
    LET entry(k) == EntryAt(file, MEMORY_ENTRY, k)
    IN [address \in {entry(k)[1] : k \in Entries(file, MEMORY_ENTRY)} |->
           LET last == CHOOSE k \in Entries(file, MEMORY_ENTRY) :
                          /\ entry(k)[1] = address
                          /\ \A j \in Entries(file, MEMORY_ENTRY) :
                                entry(j)[1] = address => j <= k
           IN from64BitsWords(Tail(entry(last)))]

\* Of each register one byte is read, the first of its word.
readTraceBuffer(file) ==
    [k \in Entries(file, TRACE_ENTRY) |->
        [n \in 1..3 |-> Felt(EntryAt(file, TRACE_ENTRY, k)[n] % ByteSize)]]

\* What is compared with which: each file with the one before
Neighbours(paths) == {<<disk[paths[k - 1]], disk[paths[k]]>> : k \in 2..Len(paths)}

\* Can all the files be read and do they have the same length, that of entries?
Comparable(paths, size) ==
    /\ \A k \in DOMAIN paths : paths[k] \in DOMAIN disk
    /\ \A pair \in Neighbours(paths) : Len(pair[1]) = Len(pair[2])
    /\ \A k \in DOMAIN paths : Len(disk[paths[k]]) % size = 0

\* (mutant: the addresses are not looked at)
compareMemoryValues(paths) ==
    IF ~Comparable(paths, MEMORY_ENTRY) THEN "throws"
    ELSE IF \A pair \in Neighbours(paths) :
               LET m == readMemoryBuffer(pair[1])
                   n == readMemoryBuffer(pair[2])
               IN {m[a] : a \in DOMAIN m} = {n[a] : a \in DOMAIN n}
      THEN "similar"
    ELSE "different"

\* An address that is not in the next file: the undefined value is used as a felt.
compareMemory(paths) ==
    LET read == {<<readMemoryBuffer(p[1]), readMemoryBuffer(p[2])>> : p \in Neighbours(paths)}
    IN IF ~Comparable(paths, MEMORY_ENTRY) THEN "throws"
       ELSE IF \E p \in read : ~(DOMAIN p[1] \subseteq DOMAIN p[2]) THEN "throws"
       ELSE IF \A p \in read, a \in Word : a \in DOMAIN p[1] => p[1][a] = p[2][a]
         THEN "similar"
       ELSE "different"

\* (mutant: pc is not compared)
compareTraceFrames(paths) ==
    IF ~Comparable(paths, TRACE_ENTRY) THEN "throws"
    ELSE IF \A p \in Neighbours(paths) : \A k \in Entries(p[1], TRACE_ENTRY), n \in 1..2 :
               readTraceBuffer(p[1])[k][n] = readTraceBuffer(p[2])[k][n]
      THEN "similar"
    ELSE "different"

compareTrace(paths) ==
    IF ~Comparable(paths, TRACE_ENTRY) THEN "throws"
    ELSE IF \A p \in Neighbours(paths) : readTraceBuffer(p[1]) = readTraceBuffer(p[2])
      THEN "similar"
    ELSE "different"

-----------------------------------------------------------------------------
(* Properties *)

\* The paths of up to three files that are there
Paths(names) == UNION {[1..n -> names \cap DOMAIN disk] : n \in 1..3}

\* The memory a file was exported from, whatever the order of its entries
MemoryOf(path) == {origin[path][k] : k \in DOMAIN origin[path]}

AllSame(paths, of(_)) == \A k \in DOMAIN paths : of(paths[k]) = of(paths[1])

\* Memory files are said to be similar exactly when they were exported from one
\* and the same memory, by whichever implementations, in whichever order of the
\* cells, and whatever else was exported to these names before.
\* compare.ts:75-139, felt.ts:14-24 and 131-139, cairoRunner.ts:190-207.
MemoryVerdictsAreTrue ==
    \A paths \in Paths(MemoryNames) :
        compareMemory(paths) = "similar" <=> AllSame(paths, MemoryOf)

\* The trace a file was exported from
TraceOf(path) == origin[path]

Small(path) ==
    \A k \in DOMAIN origin[path] : \A n \in DOMAIN origin[path][k] :
        origin[path][k][n].inner < ByteSize

\* Trace files are said to be similar when they were exported from the same
\* trace; and only then, as long as their registers stay below 256.
\* compare.ts:8-73, cairoRunner.ts:167-179.
SmallTraceVerdictsAreTrue ==
    \A paths \in Paths(TraceNames) :
        /\ AllSame(paths, TraceOf) => compareTrace(paths) = "similar"
        /\ (\A k \in DOMAIN paths : Small(paths[k]))
              => (compareTrace(paths) = "similar" => AllSame(paths, TraceOf))

\* Stated by compareCli.ts:34 ("Compare the encoded trace files") and reported by
\* compare.ts:54 ("Encoded traces are similar"): similar traces are the same.
SimilarTracesAreTheSame ==
    \A paths \in Paths(TraceNames) :
        compareTrace(paths) = "similar" => AllSame(paths, TraceOf)

\* What the last export to a name that is reported was of is in the file of that
\* name, whatever runs failed since, at either export: a file of an earlier run never
\* passes for one of a later run.  The trace of a machine that relocated nothing is
\* empty.
\* run.ts:63-72, cairoRunner.ts:167-207.
ReportedFilesAreThere ==
    \A name \in DOMAIN reported :
        /\ name \in DOMAIN disk
        /\ name \in MemoryNames => disk[name] = encodedMemory(reported[name])
        /\ name \in TraceNames => disk[name] = encodedTrace(reported[name])
=============================================================================
