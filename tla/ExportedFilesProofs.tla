------------------------- MODULE ExportedFilesProofs -------------------------
(***************************************************************************)
(* What is read from a file is what was exported to it, and the verdicts   *)
(* of the comparisons are those about the memories and traces the files    *)
(* were exported from; what an export is reported of is in its file.       *)
(***************************************************************************)
EXTENDS ExportedFiles, SequenceTheorems, FiniteSetTheorems, TLAPS

-----------------------------------------------------------------------------
(* Quotients *)

LEMMA DivisionFacts ==
    ASSUME NEW a \in Nat, NEW d \in Nat, d > 0
    PROVE /\ a \div d \in Nat /\ a % d \in Nat /\ a % d < d
          /\ a = d * (a \div d) + (a % d)
OBVIOUS

\* There is one quotient, and one remainder.
LEMMA DivisionIsUnique ==
    ASSUME NEW d \in Nat, d > 0, NEW q \in Nat, NEW r \in Nat, r < d,
           NEW a \in Nat, a = d * q + r
    PROVE a \div d = q /\ a % d = r
<1>1. PICK x \in Nat : x = a \div d
    BY DivisionFacts
<1>2. PICK s \in Nat : s = a % d /\ s < d
    BY DivisionFacts
<1>3. a = d * x + s
    BY <1>1, <1>2, DivisionFacts
<1>4. CASE x > q
    <2>1. d * x >= d * (q + 1)
        BY <1>4
    <2>2. d * (q + 1) = d * q + d
        OBVIOUS
    <2>3. d * x \in Nat /\ d * q \in Nat
        OBVIOUS
    <2> QED
        BY <1>2, <1>3, <2>1, <2>2, <2>3
<1>5. CASE x < q
    <2>1. d * q >= d * (x + 1)
        BY <1>5
    <2>2. d * (x + 1) = d * x + d
        OBVIOUS
    <2>3. d * x \in Nat /\ d * q \in Nat
        OBVIOUS
    <2> QED
        BY <1>2, <1>3, <2>1, <2>2, <2>3
<1>6. CASE x = q
    <2>1. d * q \in Nat
        OBVIOUS
    <2> QED
        BY <1>1, <1>2, <1>3, <1>6, <2>1
<1> QED
    BY <1>4, <1>5, <1>6

LEMMA QuotientOfQuotient ==
    ASSUME NEW a \in Nat, NEW m \in Nat, m > 0, NEW n \in Nat, n > 0
    PROVE (a \div m) \div n = a \div (m * n)
<1>1. PICK q \in Nat, r \in Nat : q = a \div m /\ r < m /\ a = m * q + r
    BY DivisionFacts
<1>2. PICK x \in Nat, s \in Nat : x = q \div n /\ s < n /\ q = n * x + s
    BY DivisionFacts
<1>3. PICK d \in Nat : d = m * n /\ d > 0
    <2>1. m * n \in Nat /\ m * n >= m
        OBVIOUS
    <2> QED
        BY <2>1
<1>4. PICK e \in Nat : e = m * s + r /\ e < d
    <2>1. m * s \in Nat /\ m * s + m <= m * n
        <3>1. s + 1 <= n
            BY <1>2
        <3>2. m * (s + 1) <= m * n
            BY <3>1
        <3> QED
            BY <3>2
    <2> QED
        BY <1>1, <1>3, <2>1
<1>5. a = d * x + e
    <2>1. m * (n * x + s) = m * (n * x) + m * s
        OBVIOUS
    <2>2. m * (n * x) = (m * n) * x
        OBVIOUS
    <2> QED
        BY <1>1, <1>2, <1>3, <1>4, <2>1, <2>2
<1>6. a \div d = x
    BY <1>3, <1>4, <1>5, DivisionIsUnique
<1> QED
    BY <1>1, <1>2, <1>3, <1>6

\* A felt is made up of its words.
LEMMA WordsOfFelt ==
    ASSUME NEW v \in Felts
    PROVE /\ to64BitsWords(v) \in Seq(Word) /\ Len(to64BitsWords(v)) = 4
          /\ \A words : (\A i \in 1..4 : words[i] = to64BitsWords(v)[i])
                            => from64BitsWords(words) = v
<1>1. PICK w \in Nat : w = WordSize /\ w > 0
    BY FileAssumption
<1>2. PICK p \in Nat : p = P /\ p <= w * w * w * w
    BY <1>1, FieldAssumption, FileAssumption
<1>3. PICK a \in Nat : a = v.inner /\ a < p
    BY <1>2 DEF Felts
<1>4. PICK q1 \in Nat, r1 \in 0..(w - 1) : q1 = a \div w /\ r1 = a % w /\ a = w * q1 + r1
    BY <1>1, DivisionFacts
<1>5. PICK q2 \in Nat, r2 \in 0..(w - 1) : q2 = q1 \div w /\ r2 = q1 % w /\ q1 = w * q2 + r2
    BY <1>1, DivisionFacts
<1>6. PICK q3 \in Nat, r3 \in 0..(w - 1) : q3 = q2 \div w /\ r3 = q2 % w /\ q2 = w * q3 + r3
    BY <1>1, DivisionFacts
<1>7. PICK w2 \in Nat : w2 = w * w /\ w2 > 0
    <2>1. w * w \in Nat /\ w * w >= w
        BY <1>1
    <2> QED
        BY <1>1, <2>1
<1>8. PICK w3 \in Nat : w3 = w * w * w /\ w3 = w2 * w /\ w3 > 0
    <2>1. w2 * w \in Nat /\ w2 * w >= w
        BY <1>1, <1>7
    <2> QED
        BY <1>1, <1>7, <2>1
<1>9. q2 = a \div w2 /\ q3 = a \div w3
    <2>1. q2 = a \div (w * w)
        BY <1>1, <1>4, <1>5, QuotientOfQuotient
    <2>2. q3 = a \div (w2 * w)
        BY <1>1, <1>6, <1>7, <2>1, QuotientOfQuotient
    <2> QED
        BY <1>7, <1>8, <2>1, <2>2
<1>10. q3 < w
    <2>1. PICK r \in Nat : a = w3 * q3 + r
        <3>1. w3 > 0
            BY <1>8
        <3>2. a % w3 \in Nat /\ a = w3 * (a \div w3) + (a % w3)
            BY <3>1, DivisionFacts
        <3> QED
            BY <1>9, <3>2
    <2>2. a < w3 * w
        <3>1. w * w * w * w = w3 * w
            BY <1>8
        <3> QED
            BY <1>2, <1>3, <3>1
    <2>3. CASE q3 >= w
        <3>1. w3 * q3 >= w3 * w
            BY <1>8, <2>3
        <3>2. w3 * q3 \in Nat /\ w3 * w \in Nat
            OBVIOUS
        <3> QED
            BY <2>1, <2>2, <3>1, <3>2
    <2> QED
        BY <1>1, <2>3
<1>11. q3 % w = q3 /\ a \div 1 = a
    <2>1. q3 = w * 0 + q3
        BY <1>1
    <2> QED
        BY <1>1, <1>10, <2>1, DivisionIsUnique
<1>12. /\ to64BitsWords(v) = <<a % w, q1 % w, q2 % w, q3 % w>>
       /\ to64BitsWords(v) = <<r1, r2, r3, q3>>
    <2>1. to64BitsWords(v) = <<(a \div 1) % w, (a \div w) % w, (a \div (w * w)) % w,
                               (a \div (w * w * w)) % w>>
        BY <1>1, <1>3 DEF to64BitsWords
    <2> QED
        BY <1>4, <1>5, <1>6, <1>7, <1>8, <1>9, <1>11, <2>1
<1>13. to64BitsWords(v) \in Seq(Word) /\ Len(to64BitsWords(v)) = 4
    <2>1. r1 \in Word /\ r2 \in Word /\ r3 \in Word /\ q3 \in Word
        BY <1>1, <1>10 DEF Word
    <2> QED
        BY <1>12, <2>1
<1>14. ASSUME NEW words, \A i \in 1..4 : words[i] = to64BitsWords(v)[i]
       PROVE from64BitsWords(words) = v
    <2>1. words[1] = r1 /\ words[2] = r2 /\ words[3] = r3 /\ words[4] = q3
        BY <1>12, <1>14
    <2>2. from64BitsWords(words) = Felt(r1 + w * (r2 + w * (r3 + w * q3)))
        BY <1>1, <2>1 DEF from64BitsWords
    <2>3. r3 + w * q3 = q2
        BY <1>6
    <2>4. r2 + w * q2 = q1
        BY <1>5
    <2>5. r1 + w * q1 = a
        BY <1>4
    <2>6. from64BitsWords(words) = Felt(a)
        BY <2>2, <2>3, <2>4, <2>5
    <2>7. Felt(a) = [tag |-> "felt", inner |-> a]
        <3>1. a % p = a
            BY <1>2, <1>3
        <3> QED
            BY <1>2, <3>1 DEF Felt
    <2> QED
        BY <1>3, <2>6, <2>7 DEF Felts
<1> QED
    BY <1>13, <1>14

-----------------------------------------------------------------------------
(* Buffers *)

LEMMA LenOfFunction ==
    ASSUME NEW n \in Nat, NEW S, NEW f \in [1..n -> S]
    PROVE Len(f) = n
<1>1. f \in Seq(S)
    OBVIOUS
<1>2. DOMAIN f = 1..Len(f) /\ Len(f) \in Nat
    BY <1>1, LenProperties
<1> QED
    BY <1>2

\* What the readers find in a buffer
LEMMA BufferRead ==
    ASSUME NEW size \in {MEMORY_ENTRY, TRACE_ENTRY}, NEW n \in Nat,
           NEW entries \in [1..n -> [1..size -> Word]]
    PROVE LET file == Buffer(entries, size)
          IN /\ Len(file) = size * n /\ Len(file) \div size = n /\ Len(file) % size = 0
             /\ \A k \in 1..n :
                   /\ EntryAt(file, size, k) \in Seq(Word)
                   /\ Len(EntryAt(file, size, k)) = size
                   /\ \A j \in 1..size : EntryAt(file, size, k)[j] = entries[k][j]
<1> DEFINE file == Buffer(entries, size)
<1>0. size \in {3, 5}
    BY DEF MEMORY_ENTRY, TRACE_ENTRY
<1>1. Len(entries) = n
    BY LenOfFunction
<1>2. PICK length \in Nat : length = size * n
    BY <1>0
<1>3. /\ file = [w \in 1..length |-> entries[((w - 1) \div size) + 1][((w - 1) % size) + 1]]
      /\ DOMAIN file = 1..length
    BY <1>1, <1>2 DEF Buffer
<1>4. Len(file) = length
    <2> DEFINE V == {file[w] : w \in 1..length}
    <2>1. file \in [1..length -> V]
        BY <1>3
    <2> HIDE DEF file, V
    <2> QED
        BY <2>1, LenOfFunction
<1> HIDE DEF file
<1>5. length \div size = n /\ length % size = 0
    BY <1>0, <1>2
<1>6. ASSUME NEW k \in 1..n
      PROVE /\ EntryAt(file, size, k) \in Seq(Word)
            /\ Len(EntryAt(file, size, k)) = size
            /\ \A j \in 1..size : EntryAt(file, size, k)[j] = entries[k][j]
    <2>1. PICK first \in Nat : first = size * (k - 1) + 1
        BY <1>0
    <2>2. PICK last \in Nat : last = size * k /\ last = first + size - 1
        BY <1>0, <2>1
    <2>3. ASSUME NEW j \in 1..size
          PROVE file[first + j - 1] = entries[k][j] /\ file[first + j - 1] \in Word
        <3>1. PICK w \in 1..length : w = first + j - 1
                                     /\ ((w - 1) \div size) + 1 = k /\ ((w - 1) % size) + 1 = j
            <4>1. PICK w \in Nat : w = first + j - 1
                BY <1>0, <2>1
            <4>2. w \in 1..length /\ ((w - 1) \div size) + 1 = k /\ ((w - 1) % size) + 1 = j
                <5>1. CASE size = 5
                    BY <1>2, <2>1, <4>1, <5>1
                <5>2. CASE size = 3
                    BY <1>2, <2>1, <4>1, <5>2
                <5> QED
                    BY <1>0, <5>1, <5>2
            <4> QED
                BY <4>1, <4>2
        <3>2. file[w] = entries[((w - 1) \div size) + 1][((w - 1) % size) + 1]
            BY <1>3
        <3>3. file[w] = entries[k][j]
            BY <3>1, <3>2
        <3> QED
            BY <3>1, <3>3
    <2>4. \A i \in first..last : file[i] \in Word
        <3> TAKE i \in first..last
        <3>1. i - first + 1 \in 1..size /\ i = first + (i - first + 1) - 1
            BY <1>0, <2>2
        <3>2. PICK j \in 1..size : i = first + j - 1
            BY <3>1
        <3> QED
            BY <2>3, <3>2
    <2>5. EntryAt(file, size, k) = SubSeq(file, first, last)
        BY <2>1, <2>2 DEF EntryAt
    <2>6. /\ SubSeq(file, first, last) \in Seq(Word)
          /\ Len(SubSeq(file, first, last)) = IF first <= last THEN last - first + 1 ELSE 0
          /\ \A i \in 1..(last - first + 1) : SubSeq(file, first, last)[i] = file[first + i - 1]
        BY <2>4, SubSeqProperties
    <2>7. first <= last /\ last - first + 1 = size
        BY <1>0, <2>2
    <2> QED
        BY <2>3, <2>5, <2>6, <2>7
<1> QED
    BY <1>2, <1>4, <1>5, <1>6 DEF file

-----------------------------------------------------------------------------
(* Memories *)

\* The memory of a program, of any length, with every cell at an address of its own
Memory(m) ==
    /\ m \in Seq(MemoryEntry)
    /\ \A i, j \in DOMAIN m : i # j => m[i].address # m[j].address

\* The entries of a memory, whatever their order
Cells(m) == {m[k] : k \in DOMAIN m}

LEMMA MemoryTypes ==
    ASSUME NEW m, Memory(m)
    PROVE /\ Len(m) \in Nat /\ DOMAIN m = 1..Len(m)
          /\ \A k \in 1..Len(m) : /\ m[k] \in MemoryEntry /\ m[k].address \in Word
                                  /\ m[k].value \in Felts
          /\ \A i, j \in 1..Len(m) : m[i].address = m[j].address => i = j
<1>1. m \in Seq(MemoryEntry)
    BY DEF Memory
<1>2. Len(m) \in Nat /\ DOMAIN m = 1..Len(m) /\ \A k \in 1..Len(m) : m[k] \in MemoryEntry
    BY <1>1, LenProperties, ElementOfSeq
<1>3. \A k \in 1..Len(m) : m[k].address \in Word /\ m[k].value \in Felts
    BY <1>2 DEF MemoryEntry
<1> QED
    BY <1>2, <1>3 DEF Memory

\* The words of an entry
MemoryWords(entry) == <<entry.address>> \o to64BitsWords(entry.value)

LEMMA MemoryWordsTyped ==
    ASSUME NEW entry \in MemoryEntry
    PROVE /\ MemoryWords(entry) \in [1..5 -> Word]
          /\ MemoryWords(entry)[1] = entry.address
          /\ \A j \in 1..4 : MemoryWords(entry)[j + 1] = to64BitsWords(entry.value)[j]
<1>1. entry.address \in Word /\ entry.value \in Felts
    BY DEF MemoryEntry
<1>2. PICK words \in Seq(Word) : words = to64BitsWords(entry.value) /\ Len(words) = 4
    BY <1>1, WordsOfFelt
<1>3. PICK first \in Seq(Word) : first = <<entry.address>>
    <2>1. PICK address \in Word : address = entry.address
        BY <1>1
    <2>2. <<address>> \in Seq(Word)
        OBVIOUS
    <2> QED
        BY <2>1, <2>2
<1>4. Len(first) = 1 /\ first[1] = entry.address
    BY <1>3
<1>5. PICK all \in Seq(Word) :
        /\ all = first \o words
        /\ Len(all) = Len(first) + Len(words)
        /\ \A i \in 1..(Len(first) + Len(words)) :
              all[i] = IF i <= Len(first) THEN first[i] ELSE words[i - Len(first)]
    <2>1. PICK all : all = first \o words
        OBVIOUS
    <2>2. /\ all \in Seq(Word)
          /\ Len(all) = Len(first) + Len(words)
          /\ \A i \in 1..(Len(first) + Len(words)) :
                all[i] = IF i <= Len(first) THEN first[i] ELSE words[i - Len(first)]
        BY <2>1, ConcatProperties
    <2> QED
        BY <2>1, <2>2
<1>6. Len(all) = 5 /\ all[1] = entry.address /\ \A j \in 1..4 : all[j + 1] = words[j]
    BY <1>2, <1>4, <1>5
<1>7. all \in [1..5 -> Word]
    BY <1>6, LenProperties
<1> QED
    BY <1>2, <1>3, <1>5, <1>6, <1>7 DEF MemoryWords

\* The memory read from a file is the one encoded in it.
LEMMA MemoryReadBack ==
    ASSUME NEW m, Memory(m)
    PROVE LET file == encodedMemory(m)
          IN /\ Len(file) = 5 * Len(m) /\ Len(file) % MEMORY_ENTRY = 0
             /\ DOMAIN readMemoryBuffer(file) = {m[k].address : k \in 1..Len(m)}
             /\ \A k \in 1..Len(m) : readMemoryBuffer(file)[m[k].address] = m[k].value
<1> DEFINE file == encodedMemory(m)
<1>1. PICK n \in Nat : n = Len(m) /\ DOMAIN m = 1..n
    BY MemoryTypes
<1>2. /\ \A k \in 1..n : m[k] \in MemoryEntry /\ m[k].value \in Felts
      /\ \A i, j \in 1..n : m[i].address = m[j].address => i = j
    BY <1>1, MemoryTypes
<1>3. PICK entries : entries = [k \in 1..n |-> MemoryWords(m[k])]
    OBVIOUS
<1>4. \A k \in 1..n : entries[k] = MemoryWords(m[k])
    BY <1>3
<1>5. file = Buffer(entries, MEMORY_ENTRY)
    BY <1>1, <1>3 DEF encodedMemory, MemoryWords
<1>6. entries \in [1..n -> [1..5 -> Word]]
    <2>1. \A k \in 1..n : MemoryWords(m[k]) \in [1..5 -> Word]
        BY <1>2, MemoryWordsTyped
    <2> QED
        BY <1>3, <2>1
<1> HIDE DEF file
<1>7. /\ Len(file) = 5 * n /\ Len(file) \div 5 = n /\ Len(file) % 5 = 0
      /\ \A k \in 1..n :
            /\ EntryAt(file, 5, k) \in Seq(Word)
            /\ Len(EntryAt(file, 5, k)) = 5
            /\ \A j \in 1..5 : EntryAt(file, 5, k)[j] = entries[k][j]
    <2>1. PICK size \in {MEMORY_ENTRY, TRACE_ENTRY} : size = MEMORY_ENTRY
        OBVIOUS
    <2>2. size = 5
        BY <2>1 DEF MEMORY_ENTRY
    <2>3. entries \in [1..n -> [1..size -> Word]]
        BY <1>6, <2>2
    <2>4. file = Buffer(entries, size)
        BY <1>5, <2>1
    <2>5. /\ Len(file) = size * n /\ Len(file) \div size = n /\ Len(file) % size = 0
          /\ \A k \in 1..n :
                /\ EntryAt(file, size, k) \in Seq(Word)
                /\ Len(EntryAt(file, size, k)) = size
                /\ \A j \in 1..size : EntryAt(file, size, k)[j] = entries[k][j]
        BY <2>3, <2>4, BufferRead
    <2> QED
        BY <2>2, <2>5
<1>8. Entries(file, MEMORY_ENTRY) = 1..n
    BY <1>7 DEF Entries, MEMORY_ENTRY
<1> DEFINE entry(k) == EntryAt(file, MEMORY_ENTRY, k)
<1>9. ASSUME NEW k \in 1..n
      PROVE entry(k)[1] = m[k].address /\ from64BitsWords(Tail(entry(k))) = m[k].value
    <2>1. PICK e \in Seq(Word) : e = entry(k) /\ Len(e) = 5 /\ \A j \in 1..5 : e[j] = entries[k][j]
        BY <1>7 DEF MEMORY_ENTRY
    <2>2. /\ e[1] = m[k].address
          /\ \A j \in 1..4 : e[j + 1] = to64BitsWords(m[k].value)[j]
        BY <1>2, <1>4, <2>1, MemoryWordsTyped
    <2>3. e # <<>>
        <3>1. Len(<<>>) = 0
            OBVIOUS
        <3>2. Len(e) # 0
            BY <2>1
        <3> QED
            BY <3>1, <3>2
    <2>4. PICK t : t = Tail(e)
        OBVIOUS
    <2>5. /\ t \in Seq(Word) /\ Len(t) = Len(e) - 1
          /\ \A j \in 1..Len(t) : t[j] = e[j + 1]
        BY <2>3, <2>4, HeadTailProperties
    <2>6. \A j \in 1..4 : t[j] = to64BitsWords(m[k].value)[j]
        BY <2>1, <2>2, <2>5
    <2>7. PICK v \in Felts : v = m[k].value
        BY <1>2
    <2>8. from64BitsWords(t) = v
        BY <2>6, <2>7, WordsOfFelt
    <2> QED
        BY <2>1, <2>2, <2>4, <2>7, <2>8
<1> HIDE DEF entry
<1> DEFINE last(a) == CHOOSE k \in 1..n :
                          /\ entry(k)[1] = a
                          /\ \A j \in 1..n : entry(j)[1] = a => j <= k
<1>10. readMemoryBuffer(file) =
           [a \in {entry(k)[1] : k \in 1..n} |-> from64BitsWords(Tail(entry(last(a))))]
    BY <1>8 DEF readMemoryBuffer, entry
<1>11. ASSUME NEW k \in 1..n
       PROVE last(m[k].address) = k
    <2>1. \A j \in 1..n : entry(j)[1] = m[k].address => j = k
        BY <1>2, <1>9
    <2>2. entry(k)[1] = m[k].address
        BY <1>9
    <2> QED
        BY <2>1, <2>2
<1> HIDE DEF last
<1>12. {entry(k)[1] : k \in 1..n} = {m[k].address : k \in 1..n}
    BY <1>9
<1>13. DOMAIN readMemoryBuffer(file) = {m[k].address : k \in 1..n}
    BY <1>10, <1>12
<1>14. ASSUME NEW k \in 1..n
       PROVE readMemoryBuffer(file)[m[k].address] = m[k].value
    <2>1. m[k].address \in {entry(i)[1] : i \in 1..n}
        BY <1>12
    <2>2. readMemoryBuffer(file)[m[k].address] = from64BitsWords(Tail(entry(last(m[k].address))))
        BY <1>10, <2>1
    <2> QED
        BY <1>9, <1>11, <2>2
<1>15. Len(file) % MEMORY_ENTRY = 0
    BY <1>7 DEF MEMORY_ENTRY
<1> QED
    BY <1>1, <1>7, <1>13, <1>14, <1>15 DEF file

\* A memory has as many cells as it is long.
LEMMA CellsOfMemory ==
    ASSUME NEW m, Memory(m)
    PROVE IsFiniteSet(Cells(m)) /\ Cardinality(Cells(m)) = Len(m)
<1>1. PICK n \in Nat : n = Len(m) /\ DOMAIN m = 1..n
    BY MemoryTypes
<1>2. \A i, j \in 1..n : m[i] = m[j] => i = j
    BY <1>1, MemoryTypes
<1> DEFINE S == 1..n
           T == Cells(m)
           f == [k \in S |-> m[k]]
<1>3. f \in [S -> T] /\ \A k \in S : f[k] = m[k]
    BY <1>1 DEF Cells
<1>4. \A t \in T : \E k \in S : f[k] = t
    BY <1>1 DEF Cells
<1>5. \A a, b \in S : f[a] = f[b] => a = b
    BY <1>2, <1>3
<1>6. IsFiniteSet(S)
    BY FS_Interval
<1>7. Cardinality(S) = n
    <2>1. Cardinality(1..n) = IF 1 > n THEN 0 ELSE n - 1 + 1
        BY FS_Interval
    <2> QED
        BY <2>1
<1> HIDE DEF f, S, T
<1>8. ExistsBijection(S, T)
    BY <1>3, <1>4, <1>5 DEF ExistsBijection, Bijection, Injection, Surjection, IsInjective
<1>9. IsFiniteSet(T) /\ Cardinality(T) = Cardinality(S)
    BY <1>6, <1>8, FS_Bijection
<1> QED
    BY <1>1, <1>7, <1>9 DEF T

\* What a comparison of two files finds: all the cells of the one are in the other.
Included(r, s) ==
    /\ DOMAIN r \subseteq DOMAIN s
    /\ \A a \in Word : a \in DOMAIN r => r[a] = s[a]

\* Of two files of the same length, it finds so when they are of the same memory.
LEMMA MemoriesCompared ==
    ASSUME NEW m, Memory(m), NEW n, Memory(n)
    PROVE /\ Cells(m) = Cells(n) => Len(m) = Len(n)
          /\ Len(m) = Len(n) =>
                (Included(readMemoryBuffer(encodedMemory(m)), readMemoryBuffer(encodedMemory(n)))
                    <=> Cells(m) = Cells(n))
<1>1. Cells(m) = Cells(n) => Len(m) = Len(n)
    BY CellsOfMemory
<1>2. PICK r : r = readMemoryBuffer(encodedMemory(m))
    OBVIOUS
<1>3. PICK s : s = readMemoryBuffer(encodedMemory(n))
    OBVIOUS
<1>4. PICK k \in Nat : k = Len(m)
    BY MemoryTypes
<1>5. PICK l \in Nat : l = Len(n)
    BY MemoryTypes
<1>6. /\ DOMAIN r = {m[i].address : i \in 1..k} /\ \A i \in 1..k : r[m[i].address] = m[i].value
      /\ DOMAIN s = {n[i].address : i \in 1..l} /\ \A i \in 1..l : s[n[i].address] = n[i].value
    BY <1>2, <1>3, <1>4, <1>5, MemoryReadBack
<1>7. /\ Cells(m) = {m[i] : i \in 1..k} /\ Cells(n) = {n[i] : i \in 1..l}
      /\ \A i \in 1..k : m[i] \in MemoryEntry /\ m[i].address \in Word
      /\ \A i \in 1..l : n[i] \in MemoryEntry
    BY <1>4, <1>5, MemoryTypes DEF Cells
<1>8. ASSUME Included(r, s), k = l
      PROVE Cells(m) = Cells(n)
    <2>1. ASSUME NEW i \in 1..k
          PROVE m[i] \in Cells(n)
        <3>1. m[i].address \in DOMAIN r
            BY <1>6
        <3>2. m[i].address \in DOMAIN s /\ r[m[i].address] = s[m[i].address]
            BY <1>7, <1>8, <3>1 DEF Included
        <3>3. PICK j \in 1..l : n[j].address = m[i].address
            BY <1>6, <3>2
        <3>4. n[j].value = m[i].value
            BY <1>6, <3>2, <3>3
        <3>5. n[j] = m[i]
            <4>1. n[j] \in MemoryEntry /\ m[i] \in MemoryEntry
                BY <1>7
            <4> QED
                BY <3>3, <3>4, <4>1 DEF MemoryEntry
        <3> QED
            BY <1>7, <3>5
    <2>2. Cells(m) \subseteq Cells(n)
        BY <1>7, <2>1
    <2>3. IsFiniteSet(Cells(n)) /\ Cardinality(Cells(m)) = Cardinality(Cells(n))
        BY <1>4, <1>5, <1>8, CellsOfMemory
    <2> QED
        BY <2>2, <2>3, FS_Subset
<1>9. ASSUME Cells(m) = Cells(n)
      PROVE Included(r, s)
    <2>1. ASSUME NEW a \in DOMAIN r
          PROVE a \in DOMAIN s /\ r[a] = s[a]
        <3>1. PICK i \in 1..k : a = m[i].address
            BY <1>6
        <3>2. PICK j \in 1..l : n[j] = m[i]
            BY <1>7, <1>9
        <3> QED
            BY <1>6, <3>1, <3>2
    <2> QED
        BY <2>1 DEF Included
<1> QED
    BY <1>1, <1>2, <1>3, <1>4, <1>5, <1>8, <1>9

-----------------------------------------------------------------------------
(* Traces *)

Trace(t) == t \in Seq(TraceEntry)

\* The registers of an entry, in the order they are written
Registers(entry) == <<entry.ap.inner, entry.fp.inner, entry.pc.inner>>

LEMMA TraceTypes ==
    ASSUME NEW t, Trace(t)
    PROVE /\ Len(t) \in Nat /\ DOMAIN t = 1..Len(t)
          /\ \A k \in 1..Len(t) : t[k] \in TraceEntry
BY LenProperties, ElementOfSeq DEF Trace

\* What is read from the file of a trace: of each register its low byte.
LEMMA TraceReadBack ==
    ASSUME NEW t, Trace(t)
    PROVE LET file == encodedTrace(t)
          IN /\ Len(file) = 3 * Len(t) /\ Len(file) % TRACE_ENTRY = 0
             /\ readTraceBuffer(file) =
                    [k \in 1..Len(t) |->
                        [i \in 1..3 |-> Felt((Registers(t[k])[i] % WordSize) % ByteSize)]]
<1> DEFINE file == encodedTrace(t)
           words(k) == [i \in 1..3 |-> Registers(t[k])[i] % WordSize]
<1>1. PICK n \in Nat : n = Len(t) /\ DOMAIN t = 1..n
    BY TraceTypes
<1>2. ASSUME NEW k \in 1..n
      PROVE /\ <<t[k].ap.inner % WordSize, t[k].fp.inner % WordSize, t[k].pc.inner % WordSize>>
                  = words(k)
            /\ words(k) \in [1..3 -> Word]
    <2>1. PICK w \in Nat : w = WordSize /\ w > 0
        BY FileAssumption
    <2>2. t[k] \in TraceEntry
        BY <1>1, TraceTypes
    <2>3. PICK x \in Nat, y \in Nat, z \in Nat :
              x = t[k].ap.inner /\ y = t[k].fp.inner /\ z = t[k].pc.inner
        BY <2>2 DEF TraceEntry, Felts
    <2>4. x % w \in 0..(w - 1) /\ y % w \in 0..(w - 1) /\ z % w \in 0..(w - 1)
        BY <2>1
    <2>5. words(k) = [i \in 1..3 |-> <<x, y, z>>[i] % w]
        BY <2>1, <2>3 DEF Registers
    <2>6. words(k) = <<x % w, y % w, z % w>>
        BY <2>5
    <2> HIDE DEF words
    <2>7. words(k) \in [1..3 -> Word]
        BY <2>1, <2>4, <2>6 DEF Word
    <2> QED
        BY <2>1, <2>3, <2>6, <2>7
<1>3. PICK entries : entries = [k \in 1..n |-> words(k)]
    OBVIOUS
<1>4. file = Buffer(entries, TRACE_ENTRY)
    <2>1. entries = [k \in DOMAIN t |->
                        <<t[k].ap.inner % WordSize, t[k].fp.inner % WordSize,
                          t[k].pc.inner % WordSize>>]
        <3> HIDE DEF words
        <3> QED
            BY <1>1, <1>2, <1>3
    <2> QED
        BY <2>1 DEF encodedTrace
<1> HIDE DEF file
<1>5. entries \in [1..n -> [1..3 -> Word]]
    <2> HIDE DEF words
    <2> QED
        BY <1>2, <1>3
<1>6. /\ Len(file) = 3 * n /\ Len(file) \div 3 = n /\ Len(file) % 3 = 0
      /\ \A k \in 1..n : \A j \in 1..3 : EntryAt(file, 3, k)[j] = entries[k][j]
    <2>1. PICK size \in {MEMORY_ENTRY, TRACE_ENTRY} : size = TRACE_ENTRY
        OBVIOUS
    <2>2. size = 3
        BY <2>1 DEF TRACE_ENTRY
    <2>3. entries \in [1..n -> [1..size -> Word]] /\ file = Buffer(entries, size)
        BY <1>4, <1>5, <2>1, <2>2
    <2>4. /\ Len(file) = size * n /\ Len(file) \div size = n /\ Len(file) % size = 0
          /\ \A k \in 1..n : \A j \in 1..size : EntryAt(file, size, k)[j] = entries[k][j]
        BY <2>3, BufferRead
    <2> QED
        BY <2>2, <2>4
<1>7. Entries(file, TRACE_ENTRY) = 1..n
    BY <1>6 DEF Entries, TRACE_ENTRY
<1>8. readTraceBuffer(file) =
          [k \in 1..n |-> [i \in 1..3 |-> Felt(EntryAt(file, 3, k)[i] % ByteSize)]]
    BY <1>7 DEF readTraceBuffer, TRACE_ENTRY
<1>9. \A k \in 1..n : \A i \in 1..3 :
          EntryAt(file, 3, k)[i] = Registers(t[k])[i] % WordSize
    BY <1>3, <1>6
<1>10. readTraceBuffer(file) =
          [k \in 1..n |-> [i \in 1..3 |-> Felt((Registers(t[k])[i] % WordSize) % ByteSize)]]
    BY <1>8, <1>9, Zenon
<1>11. Len(file) % TRACE_ENTRY = 0
    BY <1>6 DEF TRACE_ENTRY
<1> QED
    BY <1>1, <1>6, <1>10, <1>11 DEF file

\* The registers of a trace are less than a byte holds.
Bytes(t) == \A k \in DOMAIN t : \A n \in DOMAIN t[k] : t[k][n].inner < ByteSize

LEMMA SmallRegister ==
    ASSUME NEW r \in Felts, r.inner < ByteSize
    PROVE Felt((r.inner % WordSize) % ByteSize) = r
<1>1. PICK w \in Nat, b \in Nat : w = WordSize /\ b = ByteSize /\ b > 0 /\ b <= w
    BY FileAssumption
<1>2. PICK p \in Nat : p = P /\ p > 1
    BY FieldAssumption
<1>3. PICK x \in Nat : x = r.inner /\ x < p /\ x < b /\ x < w
    BY <1>1, <1>2 DEF Felts
<1>4. x % w = x /\ x % b = x /\ x % p = x
    BY <1>1, <1>2, <1>3
<1>5. Felt((x % w) % b) = [tag |-> "felt", inner |-> x]
    BY <1>2, <1>4 DEF Felt
<1> QED
    BY <1>1, <1>3, <1>5 DEF Felts

\* As long as they are, traces that read the same are the same.
LEMMA TracesCompared ==
    ASSUME NEW s, Trace(s), Bytes(s), NEW t, Trace(t), Bytes(t), Len(s) = Len(t),
           readTraceBuffer(encodedTrace(s)) = readTraceBuffer(encodedTrace(t))
    PROVE s = t
<1>1. PICK n \in Nat : n = Len(s) /\ n = Len(t) /\ DOMAIN s = 1..n /\ DOMAIN t = 1..n
    BY TraceTypes
<1>2. PICK r : r = readTraceBuffer(encodedTrace(s)) /\ r = readTraceBuffer(encodedTrace(t))
    OBVIOUS
<1>3. /\ r = [k \in 1..n |-> [i \in 1..3 |-> Felt((Registers(s[k])[i] % WordSize) % ByteSize)]]
      /\ r = [k \in 1..n |-> [i \in 1..3 |-> Felt((Registers(t[k])[i] % WordSize) % ByteSize)]]
    BY <1>1, <1>2, TraceReadBack
<1>4. ASSUME NEW k \in 1..n
      PROVE s[k] = t[k]
    <2>1. PICK e \in TraceEntry : e = s[k]
        BY <1>1, TraceTypes
    <2>2. PICK f \in TraceEntry : f = t[k]
        BY <1>1, TraceTypes
    <2>3. /\ e.pc \in Felts /\ e.ap \in Felts /\ e.fp \in Felts
          /\ f.pc \in Felts /\ f.ap \in Felts /\ f.fp \in Felts
          /\ DOMAIN e = {"pc", "ap", "fp"} /\ DOMAIN f = {"pc", "ap", "fp"}
        BY DEF TraceEntry
    <2>4. /\ e.pc.inner < ByteSize /\ e.ap.inner < ByteSize /\ e.fp.inner < ByteSize
          /\ f.pc.inner < ByteSize /\ f.ap.inner < ByteSize /\ f.fp.inner < ByteSize
        BY <1>1, <2>1, <2>2, <2>3 DEF Bytes
    <2>5. \A i \in 1..3 : Felt((Registers(e)[i] % WordSize) % ByteSize)
                            = Felt((Registers(f)[i] % WordSize) % ByteSize)
        <3> TAKE i \in 1..3
        <3>1. r[k][i] = Felt((Registers(e)[i] % WordSize) % ByteSize)
            BY <1>3, <2>1
        <3>2. r[k][i] = Felt((Registers(f)[i] % WordSize) % ByteSize)
            BY <1>3, <2>2
        <3> QED
            BY <3>1, <3>2
    <2>6. /\ Registers(e)[1] = e.ap.inner /\ Registers(e)[2] = e.fp.inner
          /\ Registers(e)[3] = e.pc.inner
          /\ Registers(f)[1] = f.ap.inner /\ Registers(f)[2] = f.fp.inner
          /\ Registers(f)[3] = f.pc.inner
        BY DEF Registers
    <2>7. e.ap = f.ap
        <3>1. Felt((e.ap.inner % WordSize) % ByteSize) = Felt((f.ap.inner % WordSize) % ByteSize)
            BY <2>5, <2>6
        <3> QED
            BY <2>3, <2>4, <3>1, SmallRegister
    <2>8. e.fp = f.fp
        <3>1. Felt((e.fp.inner % WordSize) % ByteSize) = Felt((f.fp.inner % WordSize) % ByteSize)
            BY <2>5, <2>6
        <3> QED
            BY <2>3, <2>4, <3>1, SmallRegister
    <2>9. e.pc = f.pc
        <3>1. Felt((e.pc.inner % WordSize) % ByteSize) = Felt((f.pc.inner % WordSize) % ByteSize)
            BY <2>5, <2>6
        <3> QED
            BY <2>3, <2>4, <3>1, SmallRegister
    <2>10. e = f
        BY <2>7, <2>8, <2>9 DEF TraceEntry
    <2> QED
        BY <2>1, <2>2, <2>10
<1> QED
    BY <1>1, <1>4, SeqEqual DEF Trace

-----------------------------------------------------------------------------
(* The files *)

\* What a file of the name n was exported from
Source(name, v) ==
    /\ name \in MemoryNames => v \in Memories \cup Foreign
    /\ name \in TraceNames => v \in Traces \cup {<<>>}

\* The files of the disk are those exported last to their names.
Exported(files, sources) ==
    /\ DOMAIN files = DOMAIN sources
    /\ \A name \in DOMAIN files :
          /\ Source(name, sources[name])
          /\ name \in MemoryNames => files[name] = encodedMemory(sources[name])
          /\ name \in TraceNames => files[name] = encodedTrace(sources[name])

\* What is reported of a name is what its file was exported from.
Told(reports, sources) ==
    \A name \in DOMAIN reports : name \in DOMAIN sources /\ reports[name] = sources[name]

IInv == Exported(disk, origin) /\ Told(reported, origin)

\* The same of what a run has made of the files so far
Sound(files) ==
    \E d, o, r : \E thrown \in BOOLEAN :
        /\ files = [disk |-> d, origin |-> o, reported |-> r, thrown |-> thrown]
        /\ Exported(d, o) /\ Told(r, o)

LEMMA FilesExported ==
    ASSUME NEW files, NEW sources, Exported(files, sources), NEW name, NEW file, NEW v,
           Source(name, v),
           name \in MemoryNames => file = encodedMemory(v),
           name \in TraceNames => file = encodedTrace(v)
    PROVE Exported(Files(files, name, file), Files(sources, name, v))
<1>1. PICK f : f = Files(files, name, file)
    OBVIOUS
<1>2. PICK s : s = Files(sources, name, v)
    OBVIOUS
<1>3. /\ DOMAIN f = DOMAIN files \cup {name} /\ DOMAIN s = DOMAIN f
      /\ f[name] = file /\ s[name] = v
      /\ \A x \in DOMAIN files : x # name => f[x] = files[x] /\ s[x] = sources[x]
    BY <1>1, <1>2 DEF Files, Exported
<1>4. ASSUME NEW x \in DOMAIN f
      PROVE /\ Source(x, s[x])
            /\ x \in MemoryNames => f[x] = encodedMemory(s[x])
            /\ x \in TraceNames => f[x] = encodedTrace(s[x])
    <2>1. CASE x = name
        BY <1>3, <2>1
    <2>2. CASE x # name
        <3>1. x \in DOMAIN files /\ f[x] = files[x] /\ s[x] = sources[x]
            BY <1>3, <2>2
        <3> QED
            BY <3>1 DEF Exported
    <2> QED
        BY <2>1, <2>2
<1> QED
    BY <1>1, <1>2, <1>3, <1>4 DEF Exported

LEMMA ReportsTold ==
    ASSUME NEW sources, NEW reports, Told(reports, sources), NEW name, NEW v
    PROVE Told(Files(reports, name, v), Files(sources, name, v))
<1>1. PICK r : r = Files(reports, name, v)
    OBVIOUS
<1>2. PICK s : s = Files(sources, name, v)
    OBVIOUS
<1>3. /\ DOMAIN r = DOMAIN reports \cup {name} /\ DOMAIN s = DOMAIN sources \cup {name}
      /\ r[name] = v /\ s[name] = v
      /\ \A x \in DOMAIN reports : x # name => r[x] = reports[x]
      /\ \A x \in DOMAIN sources : x # name => s[x] = sources[x]
    BY <1>1, <1>2 DEF Files
<1>4. ASSUME NEW x \in DOMAIN r
      PROVE x \in DOMAIN s /\ r[x] = s[x]
    <2>1. CASE x = name
        BY <1>3, <2>1
    <2>2. CASE x # name
        <3>1. x \in DOMAIN reports /\ r[x] = reports[x]
            BY <1>3, <2>2
        <3>2. x \in DOMAIN sources /\ s[x] = sources[x]
            BY <1>3, <2>2, <3>1 DEF Told
        <3> QED
            BY <1>3, <3>1, <3>2 DEF Told
    <2> QED
        BY <2>1, <2>2
<1> QED
    BY <1>1, <1>2, <1>4 DEF Told

\* A file that was written and reported
LEMMA WrittenSound ==
    ASSUME NEW files, Sound(files), ~files.thrown, NEW name, NEW words, NEW v, NEW unopened,
           Source(name, v),
           name \in MemoryNames => words = encodedMemory(v),
           name \in TraceNames => words = encodedTrace(v)
    PROVE Sound(Success(writeFileSync(files, name, words, v, unopened), name, v))
<1>1. PICK d, o, r : \E t \in BOOLEAN :
          /\ files = [disk |-> d, origin |-> o, reported |-> r, thrown |-> t]
          /\ Exported(d, o) /\ Told(r, o)
    BY DEF Sound
<1>2. files = [disk |-> d, origin |-> o, reported |-> r, thrown |-> FALSE]
    <2>1. PICK t \in BOOLEAN : files = [disk |-> d, origin |-> o, reported |-> r, thrown |-> t]
        BY <1>1
    <2>2. files.thrown = t
        BY <2>1
    <2>3. t = FALSE
        BY <2>2, Zenon
    <2> QED
        BY <2>1, <2>3
<1>3. Exported(d, o) /\ Told(r, o)
    BY <1>1
<1>4. PICK new : new = writeFileSync(files, name, words, v, unopened)
    OBVIOUS
<1>5. CASE name = unopened
    <2>1. new = [disk |-> d, origin |-> o, reported |-> r, thrown |-> TRUE]
        BY <1>2, <1>4, <1>5 DEF writeFileSync
    <2>2. Sound(new)
        BY <1>3, <2>1 DEF Sound
    <2>3. Success(new, name, v) = new
        BY <2>1 DEF Success
    <2> QED
        BY <1>4, <2>2, <2>3
<1>6. CASE name # unopened
    <2>1. PICK e : e = Files(d, name, words)
        OBVIOUS
    <2>2. PICK s : s = Files(o, name, v)
        OBVIOUS
    <2>3. PICK q : q = Files(r, name, v)
        OBVIOUS
    <2>4. new = [disk |-> e, origin |-> s, reported |-> r, thrown |-> FALSE]
        BY <1>2, <1>4, <1>6, <2>1, <2>2 DEF writeFileSync
    <2>5. Exported(e, s) /\ Told(q, s)
        BY <1>3, <2>1, <2>2, <2>3, FilesExported, ReportsTold
    <2>6. Success(new, name, v) = [disk |-> e, origin |-> s, reported |-> q, thrown |-> FALSE]
        BY <2>3, <2>4 DEF Success
    <2> QED
        BY <1>4, <2>5, <2>6 DEF Sound
<1> QED
    BY <1>5, <1>6

LEMMA AfterMemorySound ==
    ASSUME IInv, NEW name \in MemoryNames \cup {Unnamed}, NEW memory,
           name = Unnamed \/ memory \in Memories, NEW unopened
    PROVE Sound(AfterMemory(name, memory, unopened))
<1>1. Sound(Untouched) /\ ~Untouched.thrown
    BY DEF Untouched, Sound, IInv
<1>2. CASE name = Unnamed
    BY <1>1, <1>2 DEF AfterMemory
<1>3. CASE name # Unnamed
    <2>1. name \in MemoryNames /\ name \notin TraceNames /\ memory \in Memories
        BY <1>3, FileAssumption
    <2>2. AfterMemory(name, memory, unopened)
              = Success(exportMemory(Untouched, name, memory, unopened), name, memory)
        BY <1>3 DEF AfterMemory
    <2>3. CASE memory = <<>>
        <3>1. PICK new : new = exportMemory(Untouched, name, memory, unopened)
            OBVIOUS
        <3>2. new = [disk |-> disk, origin |-> origin, reported |-> reported, thrown |-> TRUE]
            BY <2>3, <3>1 DEF exportMemory, Untouched
        <3>3. Sound(new)
            BY <3>2 DEF Sound, IInv
        <3>4. Success(new, name, memory) = new
            BY <3>2 DEF Success
        <3> QED
            BY <2>2, <3>1, <3>3, <3>4
    <2>4. CASE memory # <<>>
        <3>1. exportMemory(Untouched, name, memory, unopened)
                  = writeFileSync(Untouched, name, encodedMemory(memory), memory, unopened)
            BY <2>4 DEF exportMemory
        <3>2. Source(name, memory)
            BY <2>1 DEF Source
        <3>3. Sound(Success(writeFileSync(Untouched, name, encodedMemory(memory), memory,
                                          unopened),
                            name, memory))
            BY <1>1, <2>1, <3>2, WrittenSound
        <3> QED
            BY <2>2, <3>1, <3>3
    <2> QED
        BY <2>3, <2>4
<1> QED
    BY <1>2, <1>3

LEMMA AfterTraceSound ==
    ASSUME NEW files, Sound(files), NEW name \in TraceNames \cup {Unnamed},
           NEW trace \in Traces \cup {<<>>}, NEW unopened
    PROVE Sound(AfterTrace(files, name, trace, unopened))
<1>1. CASE name = Unnamed \/ files.thrown
    BY <1>1 DEF AfterTrace
<1>2. CASE ~(name = Unnamed \/ files.thrown)
    <2>1. name \in TraceNames /\ name \notin MemoryNames /\ ~files.thrown
        BY <1>2, FileAssumption
    <2>2. Source(name, trace)
        BY <2>1 DEF Source
    <2>3. AfterTrace(files, name, trace, unopened)
              = Success(writeFileSync(files, name, encodedTrace(trace), trace, unopened),
                        name, trace)
        BY <1>2 DEF AfterTrace, exportTrace
    <2>4. Sound(Success(writeFileSync(files, name, encodedTrace(trace), trace, unopened),
                        name, trace))
        BY <2>1, <2>2, WrittenSound
    <2> QED
        BY <2>3, <2>4
<1> QED
    BY <1>1, <1>2

LEMMA InitIInv == Init => IInv
BY DEF Init, IInv, Exported, Told, NoFiles

LEMMA RunSound ==
    ASSUME IInv, NEW relocate \in BOOLEAN,
           NEW memoryName \in MemoryNames \cup {Unnamed},
           NEW traceName \in TraceNames \cup {Unnamed},
           NEW memory \in Memories, NEW trace \in Traces,
           Run(relocate, memoryName, traceName, memory, trace)
    PROVE IInv'
<1>1. PICK unopened, between, after :
          /\ between = AfterMemory(memoryName, Relocated(relocate, memory), unopened)
          /\ after = AfterTrace(between, traceName, Relocated(relocate, trace), unopened)
          /\ disk' = after.disk /\ origin' = after.origin /\ reported' = after.reported
    BY DEF Run
<1>2. /\ memoryName = Unnamed \/ Relocated(relocate, memory) \in Memories
      /\ Relocated(relocate, trace) \in Traces \cup {<<>>}
    BY DEF Run, Relocated
<1>3. Sound(between)
    BY <1>1, <1>2, AfterMemorySound
<1>4. Sound(after)
    BY <1>1, <1>2, <1>3, AfterTraceSound
<1>5. Exported(after.disk, after.origin) /\ Told(after.reported, after.origin)
    BY <1>4 DEF Sound
<1> QED
    BY <1>1, <1>5 DEF IInv

LEMMA StepIInv == IInv /\ [Next]_vars => IInv'
<1> SUFFICES ASSUME IInv, [Next]_vars
             PROVE IInv'
    OBVIOUS
<1>1. ASSUME NEW relocate \in BOOLEAN,
             NEW memoryName \in MemoryNames \cup {Unnamed},
             NEW traceName \in TraceNames \cup {Unnamed},
             NEW memory \in Memories, NEW trace \in Traces,
             Run(relocate, memoryName, traceName, memory, trace)
      PROVE IInv'
    BY <1>1, RunSound
<1>2. ASSUME NEW name \in MemoryNames, NEW memory \in Foreign,
             disk' = Files(disk, name, encodedMemory(memory)),
             origin' = Files(origin, name, memory),
             reported' = Files(reported, name, memory)
      PROVE IInv'
    <2>1. name \notin TraceNames /\ Source(name, memory)
        BY FileAssumption DEF Source
    <2>2. Exported(Files(disk, name, encodedMemory(memory)), Files(origin, name, memory))
        BY <2>1, FilesExported DEF IInv
    <2>3. Told(Files(reported, name, memory), Files(origin, name, memory))
        BY <2>1, ReportsTold DEF IInv
    <2> QED
        BY <1>2, <2>2, <2>3 DEF IInv
<1>3. ASSUME NEW name \in TraceNames, NEW trace \in Traces,
             disk' = Files(disk, name, encodedTrace(trace)),
             origin' = Files(origin, name, trace),
             reported' = Files(reported, name, trace)
      PROVE IInv'
    <2>1. name \notin MemoryNames /\ Source(name, trace)
        BY FileAssumption DEF Source
    <2>2. Exported(Files(disk, name, encodedTrace(trace)), Files(origin, name, trace))
        BY <2>1, FilesExported DEF IInv
    <2>3. Told(Files(reported, name, trace), Files(origin, name, trace))
        BY <2>1, ReportsTold DEF IInv
    <2> QED
        BY <1>3, <2>2, <2>3 DEF IInv
<1>4. CASE UNCHANGED vars
    BY <1>4 DEF vars, IInv
<1> QED
    BY <1>1, <1>2, <1>3, <1>4 DEF Next, OtherExport

LEMMA ReportsInFiles == IInv => ReportedFilesAreThere
<1> SUFFICES ASSUME IInv, NEW name \in DOMAIN reported
             PROVE /\ name \in DOMAIN disk
                   /\ name \in MemoryNames => disk[name] = encodedMemory(reported[name])
                   /\ name \in TraceNames => disk[name] = encodedTrace(reported[name])
    BY DEF ReportedFilesAreThere
<1>1. name \in DOMAIN origin /\ reported[name] = origin[name]
    BY DEF IInv, Told
<1>2. name \in DOMAIN disk
    BY <1>1 DEF IInv, Exported
<1> QED
    BY <1>1, <1>2 DEF IInv, Exported

-----------------------------------------------------------------------------
(* The verdicts *)

\* Up to three files are alike when each is like the one before.
LEMMA ChainOfThree ==
    ASSUME NEW names, NEW paths \in Paths(names)
    PROVE \E n \in 1..3 :
              /\ Len(paths) = n /\ DOMAIN paths = 1..n
              /\ \A k \in 1..n : paths[k] \in names /\ paths[k] \in DOMAIN disk
              /\ \A p \in Neighbours(paths) : \E k \in 2..n :
                    p[1] = disk[paths[k - 1]] /\ p[2] = disk[paths[k]]
              /\ \A k \in 2..n : \E p \in Neighbours(paths) :
                    p[1] = disk[paths[k - 1]] /\ p[2] = disk[paths[k]]
<1>1. PICK n \in 1..3 : paths \in [1..n -> names \cap DOMAIN disk]
    BY DEF Paths
<1>2. Len(paths) = n
    BY <1>1, LenOfFunction
<1>3. ASSUME NEW p \in Neighbours(paths)
      PROVE \E k \in 2..n : p[1] = disk[paths[k - 1]] /\ p[2] = disk[paths[k]]
    <2>1. PICK k \in 2..n : p = <<disk[paths[k - 1]], disk[paths[k]]>>
        BY <1>2 DEF Neighbours
    <2> QED
        BY <2>1
<1>4. ASSUME NEW k \in 2..n
      PROVE \E p \in Neighbours(paths) : p[1] = disk[paths[k - 1]] /\ p[2] = disk[paths[k]]
    <2>1. <<disk[paths[k - 1]], disk[paths[k]]>> \in Neighbours(paths)
        BY <1>2 DEF Neighbours
    <2> QED
        BY <2>1
<1> QED
    BY <1>1, <1>2, <1>3, <1>4

\* Files of up to three, each like the one before, are all like the first.
LEMMA AllLikeTheFirst ==
    ASSUME NEW n \in 1..3, NEW c
    PROVE (\A k \in 2..n : c[k - 1] = c[k]) <=> \A k \in 1..n : c[k] = c[1]
<1>1. ASSUME \A k \in 2..n : c[k - 1] = c[k], NEW k \in 1..n
      PROVE c[k] = c[1]
    <2>1. CASE k = 1
        BY <2>1
    <2>2. CASE k = 2
        BY <1>1, <2>2
    <2>3. CASE k = 3
        <3>1. 2 \in 2..n /\ 3 \in 2..n
            BY <2>3
        <3>2. c[2 - 1] = c[2] /\ c[3 - 1] = c[3]
            BY <1>1, <3>1
        <3> QED
            BY <2>3, <3>2
    <2> QED
        BY <2>1, <2>2, <2>3
<1>2. ASSUME \A k \in 1..n : c[k] = c[1], NEW k \in 2..n
      PROVE c[k - 1] = c[k]
    <2>1. k - 1 \in 1..n /\ k \in 1..n
        OBVIOUS
    <2> QED
        BY <1>2, <2>1
<1> QED
    BY <1>1, <1>2

LEMMA MemorySources ==
    ASSUME IInv, NEW name \in MemoryNames, name \in DOMAIN disk
    PROVE /\ Memory(origin[name]) /\ disk[name] = encodedMemory(origin[name])
          /\ Cells(origin[name]) = MemoryOf(name)
<1>1. origin[name] \in Memories \cup Foreign /\ disk[name] = encodedMemory(origin[name])
    BY DEF IInv, Exported, Source
<1>2. Memory(origin[name])
    BY <1>1, FileAssumption DEF Memory
<1> QED
    BY <1>1, <1>2 DEF Cells, MemoryOf

LEMMA MemoryVerdicts == IInv => MemoryVerdictsAreTrue
<1> SUFFICES ASSUME IInv, NEW paths \in Paths(MemoryNames)
             PROVE compareMemory(paths) = "similar" <=> AllSame(paths, MemoryOf)
    BY DEF MemoryVerdictsAreTrue
<1>1. PICK n \in 1..3 :
          /\ Len(paths) = n /\ DOMAIN paths = 1..n
          /\ \A k \in 1..n : paths[k] \in MemoryNames /\ paths[k] \in DOMAIN disk
          /\ \A p \in Neighbours(paths) : \E k \in 2..n :
                p[1] = disk[paths[k - 1]] /\ p[2] = disk[paths[k]]
          /\ \A k \in 2..n : \E p \in Neighbours(paths) :
                p[1] = disk[paths[k - 1]] /\ p[2] = disk[paths[k]]
    BY ChainOfThree
<1>a. DOMAIN paths = 1..n
    BY <1>1
<1>b. \A k \in 1..n : paths[k] \in MemoryNames /\ paths[k] \in DOMAIN disk
    BY <1>1
<1>2. PICK m : m = [k \in 1..n |-> origin[paths[k]]]
    OBVIOUS
<1>3. PICK file : file = [k \in 1..n |-> disk[paths[k]]]
    OBVIOUS
<1>4. PICK c : c = [k \in 1..n |-> MemoryOf(paths[k])]
    OBVIOUS
<1>5. \A k \in 2..n : k - 1 \in 1..n /\ k \in 1..n
    OBVIOUS
<1>6. ASSUME NEW k \in 1..n
      PROVE /\ paths[k] \in DOMAIN disk /\ file[k] = disk[paths[k]]
            /\ Memory(m[k]) /\ file[k] = encodedMemory(m[k]) /\ c[k] = Cells(m[k])
            /\ Len(file[k]) = 5 * Len(m[k]) /\ Len(file[k]) % MEMORY_ENTRY = 0
    <2>1. paths[k] \in MemoryNames /\ paths[k] \in DOMAIN disk
        BY <1>b
    <2>2. m[k] = origin[paths[k]] /\ file[k] = disk[paths[k]] /\ c[k] = MemoryOf(paths[k])
        BY <1>2, <1>3, <1>4
    <2>3. PICK v : v = m[k] /\ Memory(v) /\ file[k] = encodedMemory(v) /\ c[k] = Cells(v)
        BY <2>1, <2>2, MemorySources
    <2>4. Len(encodedMemory(v)) = 5 * Len(v) /\ Len(encodedMemory(v)) % MEMORY_ENTRY = 0
        BY <2>3, MemoryReadBack
    <2> QED
        BY <2>1, <2>2, <2>3, <2>4
<1>7. \A k \in 2..n : disk[paths[k - 1]] = file[k - 1] /\ disk[paths[k]] = file[k]
    BY <1>5, <1>6
<1>8. /\ \A p \in Neighbours(paths) : \E k \in 2..n : p[1] = file[k - 1] /\ p[2] = file[k]
      /\ \A k \in 2..n : \E p \in Neighbours(paths) : p[1] = file[k - 1] /\ p[2] = file[k]
    <2>1. ASSUME NEW p \in Neighbours(paths)
          PROVE \E k \in 2..n : p[1] = file[k - 1] /\ p[2] = file[k]
        <3>1. PICK k \in 2..n : p[1] = disk[paths[k - 1]] /\ p[2] = disk[paths[k]]
            BY <1>1
        <3> QED
            BY <1>7, <3>1
    <2>2. ASSUME NEW k \in 2..n
          PROVE \E p \in Neighbours(paths) : p[1] = file[k - 1] /\ p[2] = file[k]
        <3>1. PICK p \in Neighbours(paths) : p[1] = disk[paths[k - 1]] /\ p[2] = disk[paths[k]]
            BY <1>1
        <3> QED
            BY <1>7, <3>1
    <2> QED
        BY <2>1, <2>2
<1> DEFINE Alike(a, b) == Len(a) = Len(b) /\ Included(readMemoryBuffer(a), readMemoryBuffer(b))
<1>9. ASSUME NEW k \in 2..n
      PROVE Alike(file[k - 1], file[k]) <=> c[k - 1] = c[k]
    <2>1. PICK a : a = m[k - 1] /\ Memory(a) /\ file[k - 1] = encodedMemory(a)
                   /\ c[k - 1] = Cells(a) /\ Len(file[k - 1]) = 5 * Len(a)
        BY <1>5, <1>6
    <2>2. PICK b : b = m[k] /\ Memory(b) /\ file[k] = encodedMemory(b)
                   /\ c[k] = Cells(b) /\ Len(file[k]) = 5 * Len(b)
        BY <1>5, <1>6
    <2>3. Len(a) \in Nat /\ Len(b) \in Nat
        BY <2>1, <2>2, MemoryTypes
    <2>4. Len(file[k - 1]) = Len(file[k]) <=> Len(a) = Len(b)
        <3>1. PICK x \in Nat : x = Len(a)
            BY <2>3
        <3>2. PICK y \in Nat : y = Len(b)
            BY <2>3
        <3>3. Len(file[k - 1]) = 5 * x /\ Len(file[k]) = 5 * y
            BY <2>1, <2>2, <3>1, <3>2
        <3>4. 5 * x = 5 * y <=> x = y
            BY <3>1, <3>2
        <3> QED
            BY <3>1, <3>2, <3>3, <3>4
    <2>5. /\ Cells(a) = Cells(b) => Len(a) = Len(b)
          /\ Len(a) = Len(b) =>
                (Included(readMemoryBuffer(encodedMemory(a)), readMemoryBuffer(encodedMemory(b)))
                    <=> Cells(a) = Cells(b))
        BY <2>1, <2>2, MemoriesCompared
    <2> QED
        BY <2>1, <2>2, <2>4, <2>5
<1>10. Comparable(paths, MEMORY_ENTRY)
        <=> \A p \in Neighbours(paths) : Len(p[1]) = Len(p[2])
    <2>1. \A k \in DOMAIN paths : /\ paths[k] \in DOMAIN disk
                                  /\ Len(disk[paths[k]]) % MEMORY_ENTRY = 0
        BY <1>a, <1>6
    <2> QED
        BY <2>1, Zenon DEF Comparable
<1>11. compareMemory(paths) = "similar"
        <=> \A p \in Neighbours(paths) : Alike(p[1], p[2])
    <2> DEFINE read == {<<readMemoryBuffer(p[1]), readMemoryBuffer(p[2])>> :
                            p \in Neighbours(paths)}
    <2>1. compareMemory(paths) = "similar"
            <=> /\ Comparable(paths, MEMORY_ENTRY)
                /\ ~\E p \in read : ~(DOMAIN p[1] \subseteq DOMAIN p[2])
                /\ \A p \in read, a \in Word : a \in DOMAIN p[1] => p[1][a] = p[2][a]
        <3> HIDE DEF read
        <3> HIDE DEF Comparable
        <3>1. compareMemory(paths) =
                  IF ~Comparable(paths, MEMORY_ENTRY) THEN "throws"
                  ELSE IF \E p \in read : ~(DOMAIN p[1] \subseteq DOMAIN p[2]) THEN "throws"
                  ELSE IF \A p \in read, a \in Word : a \in DOMAIN p[1] => p[1][a] = p[2][a]
                    THEN "similar"
                  ELSE "different"
            BY DEF compareMemory, read
        <3> QED
            BY <3>1
    <2>2. ASSUME NEW p \in Neighbours(paths)
          PROVE \E q \in read : q[1] = readMemoryBuffer(p[1]) /\ q[2] = readMemoryBuffer(p[2])
        <3>1. <<readMemoryBuffer(p[1]), readMemoryBuffer(p[2])>> \in read
            OBVIOUS
        <3> HIDE DEF read
        <3> QED
            BY <3>1
    <2>3. ASSUME NEW q \in read
          PROVE \E p \in Neighbours(paths) :
                    q[1] = readMemoryBuffer(p[1]) /\ q[2] = readMemoryBuffer(p[2])
        <3>1. PICK p \in Neighbours(paths) :
                    q = <<readMemoryBuffer(p[1]), readMemoryBuffer(p[2])>>
            OBVIOUS
        <3> HIDE DEF read
        <3> QED
            BY <3>1
    <2> HIDE DEF read
    <2>4. (/\ ~\E q \in read : ~(DOMAIN q[1] \subseteq DOMAIN q[2])
           /\ \A q \in read, a \in Word : a \in DOMAIN q[1] => q[1][a] = q[2][a])
            <=> \A q \in read : Included(q[1], q[2])
        BY DEF Included
    <2>5. (\A q \in read : Included(q[1], q[2]))
            <=> \A p \in Neighbours(paths) :
                    Included(readMemoryBuffer(p[1]), readMemoryBuffer(p[2]))
        <3>1. ASSUME \A q \in read : Included(q[1], q[2]), NEW p \in Neighbours(paths)
              PROVE Included(readMemoryBuffer(p[1]), readMemoryBuffer(p[2]))
            <4>1. PICK q \in read : q[1] = readMemoryBuffer(p[1]) /\ q[2] = readMemoryBuffer(p[2])
                BY <2>2
            <4>2. Included(q[1], q[2])
                BY <3>1
            <4> QED
                BY <4>1, <4>2
        <3>2. ASSUME \A p \in Neighbours(paths) :
                        Included(readMemoryBuffer(p[1]), readMemoryBuffer(p[2])),
                     NEW q \in read
              PROVE Included(q[1], q[2])
            <4>1. PICK p \in Neighbours(paths) :
                    q[1] = readMemoryBuffer(p[1]) /\ q[2] = readMemoryBuffer(p[2])
                BY <2>3
            <4>2. Included(readMemoryBuffer(p[1]), readMemoryBuffer(p[2]))
                BY <3>2
            <4> QED
                BY <4>1, <4>2
        <3> QED
            BY <3>1, <3>2, Zenon
    <2> QED
        BY <1>10, <2>1, <2>4, <2>5
<1> HIDE DEF Alike
<1>12. (\A p \in Neighbours(paths) : Alike(p[1], p[2]))
        <=> \A k \in 2..n : Alike(file[k - 1], file[k])
    <2>1. ASSUME \A p \in Neighbours(paths) : Alike(p[1], p[2]), NEW k \in 2..n
          PROVE Alike(file[k - 1], file[k])
        <3>1. PICK p \in Neighbours(paths) : p[1] = file[k - 1] /\ p[2] = file[k]
            BY <1>8
        <3>2. Alike(p[1], p[2])
            BY <2>1
        <3> QED
            BY <3>1, <3>2
    <2>2. ASSUME \A k \in 2..n : Alike(file[k - 1], file[k]), NEW p \in Neighbours(paths)
          PROVE Alike(p[1], p[2])
        <3>1. PICK k \in 2..n : p[1] = file[k - 1] /\ p[2] = file[k]
            BY <1>8
        <3>2. Alike(file[k - 1], file[k])
            BY <2>2
        <3> QED
            BY <3>1, <3>2
    <2> QED
        BY <2>1, <2>2, Zenon
<1>13. (\A k \in 2..n : Alike(file[k - 1], file[k])) <=> \A k \in 2..n : c[k - 1] = c[k]
    BY <1>9
<1>14. AllSame(paths, MemoryOf) <=> \A k \in 1..n : c[k] = c[1]
    <2>1. \A k \in 1..n : c[k] = MemoryOf(paths[k])
        BY <1>4
    <2>2. 1 \in 1..n
        OBVIOUS
    <2> QED
        BY <1>a, <2>1, <2>2 DEF AllSame
<1> QED
    BY <1>11, <1>12, <1>13, <1>14, AllLikeTheFirst

LEMMA TraceSources ==
    ASSUME IInv, NEW name \in TraceNames, name \in DOMAIN disk
    PROVE Trace(origin[name]) /\ disk[name] = encodedTrace(origin[name])
<1>1. origin[name] \in Traces \cup {<<>>} /\ disk[name] = encodedTrace(origin[name])
    BY DEF IInv, Exported, Source
<1>2. <<>> \in Seq(TraceEntry)
    OBVIOUS
<1> QED
    BY <1>1, <1>2, FileAssumption DEF Trace

LEMMA TraceVerdicts == IInv => SmallTraceVerdictsAreTrue
<1> SUFFICES ASSUME IInv, NEW paths \in Paths(TraceNames)
             PROVE /\ AllSame(paths, TraceOf) => compareTrace(paths) = "similar"
                   /\ (\A k \in DOMAIN paths : Small(paths[k]))
                         => (compareTrace(paths) = "similar" => AllSame(paths, TraceOf))
    BY DEF SmallTraceVerdictsAreTrue
<1>1. PICK n \in 1..3 :
          /\ Len(paths) = n /\ DOMAIN paths = 1..n
          /\ \A k \in 1..n : paths[k] \in TraceNames /\ paths[k] \in DOMAIN disk
          /\ \A p \in Neighbours(paths) : \E k \in 2..n :
                p[1] = disk[paths[k - 1]] /\ p[2] = disk[paths[k]]
          /\ \A k \in 2..n : \E p \in Neighbours(paths) :
                p[1] = disk[paths[k - 1]] /\ p[2] = disk[paths[k]]
    BY ChainOfThree
<1>a. DOMAIN paths = 1..n
    BY <1>1
<1>b. \A k \in 1..n : paths[k] \in TraceNames /\ paths[k] \in DOMAIN disk
    BY <1>1
<1>2. PICK t : t = [k \in 1..n |-> origin[paths[k]]]
    OBVIOUS
<1>3. PICK file : file = [k \in 1..n |-> disk[paths[k]]]
    OBVIOUS
<1>4. \A k \in 2..n : k - 1 \in 1..n /\ k \in 1..n
    OBVIOUS
<1>5. ASSUME NEW k \in 1..n
      PROVE /\ paths[k] \in DOMAIN disk /\ file[k] = disk[paths[k]]
            /\ Trace(t[k]) /\ file[k] = encodedTrace(t[k]) /\ t[k] = TraceOf(paths[k])
            /\ Small(paths[k]) <=> Bytes(t[k])
            /\ Len(file[k]) = 3 * Len(t[k]) /\ Len(file[k]) % TRACE_ENTRY = 0
    <2>1. paths[k] \in TraceNames /\ paths[k] \in DOMAIN disk
        BY <1>b
    <2>2. t[k] = origin[paths[k]] /\ file[k] = disk[paths[k]]
        BY <1>2, <1>3
    <2>3. Trace(origin[paths[k]]) /\ disk[paths[k]] = encodedTrace(origin[paths[k]])
        BY <2>1, TraceSources
    <2>4. PICK v : v = t[k] /\ Trace(v) /\ file[k] = encodedTrace(v)
        BY <2>2, <2>3
    <2>5. Len(encodedTrace(v)) = 3 * Len(v) /\ Len(encodedTrace(v)) % TRACE_ENTRY = 0
        BY <2>4, TraceReadBack
    <2>6. t[k] = TraceOf(paths[k])
        BY <2>2 DEF TraceOf
    <2>7. Small(paths[k]) <=> Bytes(t[k])
        BY <2>2 DEF Small, Bytes
    <2> QED
        BY <2>1, <2>2, <2>4, <2>5, <2>6, <2>7
<1>6. \A k \in 2..n : disk[paths[k - 1]] = file[k - 1] /\ disk[paths[k]] = file[k]
    BY <1>4, <1>5
<1>7. /\ \A p \in Neighbours(paths) : \E k \in 2..n : p[1] = file[k - 1] /\ p[2] = file[k]
      /\ \A k \in 2..n : \E p \in Neighbours(paths) : p[1] = file[k - 1] /\ p[2] = file[k]
    <2>1. ASSUME NEW p \in Neighbours(paths)
          PROVE \E k \in 2..n : p[1] = file[k - 1] /\ p[2] = file[k]
        <3>1. PICK k \in 2..n : p[1] = disk[paths[k - 1]] /\ p[2] = disk[paths[k]]
            BY <1>1
        <3> QED
            BY <1>6, <3>1
    <2>2. ASSUME NEW k \in 2..n
          PROVE \E p \in Neighbours(paths) : p[1] = file[k - 1] /\ p[2] = file[k]
        <3>1. PICK p \in Neighbours(paths) : p[1] = disk[paths[k - 1]] /\ p[2] = disk[paths[k]]
            BY <1>1
        <3> QED
            BY <1>6, <3>1
    <2> QED
        BY <2>1, <2>2
<1>8. compareTrace(paths) = "similar"
        <=> \A p \in Neighbours(paths) :
                Len(p[1]) = Len(p[2]) /\ readTraceBuffer(p[1]) = readTraceBuffer(p[2])
    <2>1. \A k \in DOMAIN paths : /\ paths[k] \in DOMAIN disk
                                  /\ Len(disk[paths[k]]) % TRACE_ENTRY = 0
        BY <1>a, <1>5
    <2>2. Comparable(paths, TRACE_ENTRY)
            <=> \A p \in Neighbours(paths) : Len(p[1]) = Len(p[2])
        BY <2>1, Zenon DEF Comparable
    <2>3. compareTrace(paths) = "similar"
            <=> /\ Comparable(paths, TRACE_ENTRY)
                /\ \A p \in Neighbours(paths) : readTraceBuffer(p[1]) = readTraceBuffer(p[2])
        BY DEF compareTrace
    <2> QED
        BY <2>2, <2>3, Zenon
<1>9. AllSame(paths, TraceOf) <=> \A k \in 2..n : t[k - 1] = t[k]
    <2>1. \A k \in 1..n : t[k] = TraceOf(paths[k])
        BY <1>5
    <2>2. 1 \in 1..n
        OBVIOUS
    <2>3. AllSame(paths, TraceOf) <=> \A k \in 1..n : t[k] = t[1]
        BY <1>a, <2>1, <2>2 DEF AllSame
    <2> QED
        BY <2>3, AllLikeTheFirst
<1>10. ASSUME AllSame(paths, TraceOf)
       PROVE compareTrace(paths) = "similar"
    <2>1. ASSUME NEW p \in Neighbours(paths)
          PROVE p[1] = p[2]
        <3>1. PICK k \in 2..n : p[1] = file[k - 1] /\ p[2] = file[k]
            BY <1>7
        <3>2. file[k - 1] = encodedTrace(t[k - 1]) /\ file[k] = encodedTrace(t[k])
            BY <1>4, <1>5
        <3>3. t[k - 1] = t[k]
            BY <1>9, <1>10
        <3> QED
            BY <3>1, <3>2, <3>3
    <2> QED
        BY <1>8, <2>1
<1>11. ASSUME \A k \in DOMAIN paths : Small(paths[k]), compareTrace(paths) = "similar",
              NEW k \in 2..n
       PROVE t[k - 1] = t[k]
    <2>1. k - 1 \in DOMAIN paths /\ k \in DOMAIN paths
        BY <1>a, <1>4
    <2>2. PICK a : a = t[k - 1] /\ Trace(a) /\ Bytes(a) /\ file[k - 1] = encodedTrace(a)
                   /\ Len(file[k - 1]) = 3 * Len(a)
        BY <1>4, <1>5, <1>11, <2>1
    <2>3. PICK b : b = t[k] /\ Trace(b) /\ Bytes(b) /\ file[k] = encodedTrace(b)
                   /\ Len(file[k]) = 3 * Len(b)
        BY <1>4, <1>5, <1>11, <2>1
    <2>4. PICK p \in Neighbours(paths) : p[1] = file[k - 1] /\ p[2] = file[k]
        BY <1>7
    <2>5. /\ Len(file[k - 1]) = Len(file[k])
          /\ readTraceBuffer(encodedTrace(a)) = readTraceBuffer(encodedTrace(b))
        <3>1. Len(p[1]) = Len(p[2]) /\ readTraceBuffer(p[1]) = readTraceBuffer(p[2])
            BY <1>8, <1>11
        <3> QED
            BY <2>2, <2>3, <2>4, <3>1
    <2>6. Len(a) = Len(b)
        <3>1. PICK x \in Nat : x = Len(a)
            BY <2>2, TraceTypes
        <3>2. PICK y \in Nat : y = Len(b)
            BY <2>3, TraceTypes
        <3> QED
            BY <2>2, <2>3, <2>5, <3>1, <3>2
    <2>7. a = b
        BY <2>2, <2>3, <2>5, <2>6, TracesCompared
    <2> QED
        BY <2>2, <2>3, <2>7
<1> QED
    BY <1>9, <1>10, <1>11

-----------------------------------------------------------------------------
(* The theorems *)

\* Whatever memories are exported, by whichever implementation, however often and
\* to whichever names, and however wide words and felts are: the verdict on memory
\* files is that about the memories.
THEOREM MemoryVerdictsHold == Spec => []MemoryVerdictsAreTrue
BY InitIInv, StepIInv, MemoryVerdicts, PTL DEF Spec

\* So is that on trace files, as far as a reader of one byte per register can tell.
THEOREM TraceVerdictsHold == Spec => []SmallTraceVerdictsAreTrue
BY InitIInv, StepIInv, TraceVerdicts, PTL DEF Spec

\* However many runs fail between, and whichever of their exports throws: what the
\* last reported export to a name was of is in the file of that name.
THEOREM ReportsHold == Spec => []ReportedFilesAreThere
BY InitIInv, StepIInv, ReportsInFiles, PTL DEF Spec
=============================================================================
