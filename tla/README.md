# A TLA+ verification of the Cairo VM in TypeScript

The repository implements the Cairo virtual machine: it loads a compiled
program, executes it instruction by instruction on a write-once memory, and
relocates memory and trace for a prover. The machine is one sequential thread.
What makes it hard is not concurrency but the *interplay through the memory*:
reads that write (builtins deduce and cache cells), assertions that deduce
operands in either direction, hints that write ahead of the program and keep a
second store beside it, calls that throw half way, and a stack that is nothing
but cells every instruction may write. Paths below are relative to `src/src/`.

## Inventory

| Component | State | Operations | Interacts with |
|---|---|---|---|
| **Primitives** (`primitives/`) | none (values) | felt arithmetic, pointer arithmetic, division in the field | everything |
| **Memory** (`memory/memory.ts`) | the array of segments | `addSegment`, `get`, `assertEq`, `setValues` | every read or write of a cell goes through the proxy handler of its segment |
| **Builtin handlers** (`builtins/`) | the cells of their segment | get trap: deduce and cache an output; set trap: validate | called back by the memory |
| **Signature builtin** (`builtins/ecdsa.ts`) | cells and a dictionary of signatures | set trap: store, verify a pair | called back by the memory; signatures are added from outside |
| **Instruction decoding** (`vm/instruction.ts`) | none | `decodeInstruction` | virtual machine |
| **Virtual machine** (`vm/virtualMachine.ts`) | memory, pc, ap, fp, trace, currentStep, dictManager, squashedDictManager, scopeManager | `step` (hints, fetch, decode, compute, assert, update), `relocate` | memory; the hints read and write all of its state |
| **Hints** (`hints/`) | the managers of the virtual machine | one handler per hint | operands read the memory, results are asserted in it |
| **Dictionaries** (`hints/dict/`, `hints/dictionary.ts`) | `dictManager`: a map per dictionary segment | alloc, entry init, entry update, arena index | segment arena, memory |
| **Squashing** (`hints/squashedDictManager.ts`, `hints/dict/`) | keys and indices still to squash | init, current index, delta, loop flags, next key | memory |
| **AssertLe and address hints** (`hints/assertLe*.ts`, `hints/math/`) | scope variable `excluded_arc` | find arcs, is first or second excluded | range check segment, scope manager |
| **Runner** (`runners/`) | program, hints, final pc | lay out the memory, `run`, export, find a builtin | steps the machine until the final pc |
| **Exported files** (`scripts/run.ts`, `scripts/compare.ts`) | files on disk | export memory and trace, compare them | the Makefile compares the files of four implementations |
| **Parsing, command line** (`vm/program.ts`, `hints/hintSchema.ts`, `cli.ts`) | none | parse, print | input and output |

What makes each correct, and what is hard about it:

- *Memory.* A cell never changes its value; an `assertEq` that returns holds; a
  call that throws undoes and overwrites nothing, although `setValues` may have
  written a part and any read may have cached a cell.
- *Builtins.* A cached output agrees with its inputs whatever is written or
  asserted, in whatever order; nothing out of range gets into a validated
  segment by any way of writing.
- *Decoding.* An accepted word is the encoding of the instruction it decodes to
  and every legal encoding is accepted: overlapping bit fields, illegal patterns.
- *Virtual machine.* What an instruction asserted stays true of the memory
  whichever operand was deduced; pointers stay inside allocated segments; an
  exception between two updates leaves a well formed state; calls nest although
  their frames are ordinary cells.
- *Relocation.* Distinct cells get distinct addresses, with empty segments,
  holes and cells that do not count in a length.
- *Dictionaries.* The second store of a dictionary agrees with the accesses in
  memory, whose halves two hints write; its number leads to its info in the
  arena, which the program fills.
- *Squashing.* A squash hands out every access once, in order, and ends; the
  manager it works on is shared by all the squashes of a program.
- *AssertLe and addresses.* What is range-checked is two of the three arcs; the
  third is known to the hints that follow, through one variable that every comparison
  overwrites; addresses are ordered.
- *Signatures.* A complete pair has been verified, whatever the order in which
  its cells and its signature came.
- *Exported files.* Equal files mean equal memories and traces; a file holds what
  its last reported export was of, and not what an earlier run left under its name.

There are no threads, callbacks that interleave, timeouts, messages or
persistent state, so hazards of those kinds do not exist here.

## Modules

| Module | Models | How |
|---|---|---|
| `SegmentValues` | `primitives/` | values are records with a tag, a method that throws returns an error value |
| `BuiltinHandlers` | `builtins/` without ecdsa | `GetTrap`, `SetTrap` on a function from offsets to values |
| `SegmentMemory` | the methods of class `Memory` | each returns the segments after the call and its value or error |
| `Memory` | class `Memory` under every caller | one action per call; the loop of `setValues` one value at a time |
| `WriteOnceStore` | what the memory promises | abstract specification, implemented by `Memory` |
| `Instructions` | fields of an instruction; the rules of `computeStepValues`, `updatePc`, `updateAp`, `updateFp` | pure operators |
| `InstructionDecoding` | `decodeInstruction` | all words as states; against `Encode`, the layout of a word |
| `Hints` | operands, AllocSegment, TestLessThan, DivMod | pure operators on the segments |
| `VirtualMachine` | `step`, `executeHint`, `runInstruction` | `ExecuteHint`, `ExecuteInstruction` with its three outcomes |
| `CairoRunner` | constructor, `run`, `relocate` | composes the above: `Init` is the constructor, `Next` the loop |
| `DictHints` | `hints/dictionary.ts`, `newDict`, `getDict` and the four hints of dictionaries | one action per handler, with the memory, the registers and the operands as parameters |
| `SquashHints` | class `SquashedDictManager` and the six hints of a squash | the same |
| `DictPrograms` | the programs the Cairo compiler emits around these hints (external) | a hint and the instructions up to the next one are a step; what the program asserts then is a list of assertions, one action each |
| `OrderedVisit` | what a squash promises | abstract specification with fairness |
| `Dictionaries` | | the properties of the three above and the refinement of `OrderedVisit` |
| `Ecdsa` | `builtins/ecdsa.ts` | one action per trap, the two outcomes of the set trap of the signatures apart |
| `Comparisons` | the AssertLe hints, the scope variable, TestLessThanOrEqualAddress | one action per handler, called in any order |
| `ExportedFiles` | exports, run script, `scripts/compare.ts`, the 64-bit words of a felt | exports are actions on the disk; the comparisons, which change nothing, are operators |
| `CallStack` | what call and ret promise | abstract specification |
| `CallFrames` | the stack in the cells below fp | refinement mapping from the trace; `CairoRunner` implements `CallStack` |
| `MC*` | instances for TLC | |
| `*Proofs` | theorems | |

State and actions follow the code. `segments` is `vm.memory.segments` (segment i
of the code is element i + 1), `pc`, `ap`, `fp`, `trace`, `currentStep` are the
fields of the machine, `thrown` is the exception that ended the run. The hints of
a step are executed one action each (`nextHint`), then the instruction is one
action: fetch, decode, read op0, op1, dst in that order, compute, assert the
three, push the trace, update pc, fp, ap in that order, each stopping at the
first throw with what was done so far left in place. Nothing can observe the
machine inside a step, except through what a throw leaves behind.

The dictionary hints run in programs (`DictPrograms`) that do what the library
functions `felt252_dict_new`, `_entry_get`, `_entry_finalize` and `_squash` of
Cairo compile to: without the instructions between the hints nothing would fill
the key of an access or the count in the arena, and the hints would only throw.
These programs are not part of the repository and are marked external. They may
also write a cell ahead of the hint that is to fill it, which is how a hint of a
legal program comes to throw after it has changed something. The other hint and
builtin modules take every sequence of calls.

An exception ends a run (`thrown`); in `Memory` and `Ecdsa`, whose callers are
not all in the repository, the caller may go on after one.

Abstractions, all in the data:

- The prime, the bounds of the range checks and of keccak, the largest array
  index are constants; hashes and curve operations are a constant operator
  `Compute` that returns a felt or an error.
- Offsets are integers. In the code they are doubles, exact below 2^53;
  `ToNumber` is the conversion of a felt to a double, exact or not, which is
  where larger offsets come from. Sums of doubles beyond 2^53 are taken exact.
- `decodeInstruction` is a constant of `VirtualMachine`, assumed to return an
  instruction or an error; `InstructionDecoding` models the real one, and
  `DecoderMeetsAssumption` proves that it satisfies the assumption.
- The square root and the verification of the curve library are the constants
  `recoverY` and `verify` of `Ecdsa`: the second may also throw, as the library
  does for messages that are too long and points that are not on the curve.
- The two numerals of assertLeFindSmallArc.ts are `(P / 3) / 2^128 + 1` and
  `(P / 2) / 2^128 + 1`, rounded down, of the prime of the code, and so are
  defined from `P` and `RangeBound`. `HighAssumption`, that either times
  `RangeBound` is at most `P`, holds of the code's prime; without it a quotient
  that passes the range check could stand for two arcs.
- A file is a sequence of 64-bit words, of which `ByteSize` tells the low byte. A
  file that cannot be opened is left as it was; a write that fails after it has begun,
  on a full disk say, is not modelled.
- JavaScript writes a number from 10^21 on with an exponent. That bound is
  `DecimalBound`, and the text of such a number the constant `ExponentText`, of which
  nothing is assumed.
- Errors keep their class, not their message. Relocated addresses are exact.

## Runs

| Run | Question | Bounds and why they are enough |
|---|---|---|
| `memory` | Is class `Memory` a write-once store whose deductions and validations stay right, under any sequence of calls? | Two segments out of hash and range check, offsets 0 to 2 (one hash instance: two inputs, one output; offset 2 lies beyond `ArrayLimit` and is a property that is no index), two felts and a pointer, batches of two. The handlers of range_check96 and output are not in this run: the first differs from range_check in its bound, the second validates the type alone. A deduction, its three cells, a competing write of each and a failing batch all happen. The relation between two instances is none: a handler only looks at one. |
| `runs_of_programs` | Does the machine keep its state well formed, do its assertions stay true, do calls nest, does relocation keep the program, is each builtin found in its segment? | All programs of up to three statements out of 18 (13 instructions, among them calls, returns, jumps, both deductions, dereferences through a builtin pointer), four hint lists, without builtins and with a hash; up to two statements with a segment arena after the hash, and one with a builtin after the arena too. Seven steps suffice for nested calls and returns, and prime 31 for offsets that wrap and, from 24 on, round. |
| `decoding` | Is the decoder the inverse of the layout, and does it accept all of it? | All 2^15 flag patterns and the bit above them, offsets of one bit (`OffsetRange` 2 for 2^16): the code treats the three offsets alike and independently of the flags. |
| `dictionaries` | Does the second store of a dictionary agree with memory and with the arena, also when hints throw? Does a squash visit every access once, in order, and end? | Programs of three sizes: two dictionaries with three interleaved accesses and a cell written ahead; two dictionaries of which one is squashed; one dictionary of four accesses and three keys, squashed. Every pattern of up to four accesses to a key occurs, the keys lie on both sides of the bound of a range check, and the values are a felt and a pointer. |
| `ecdsa` | Is a complete pair signed, under any sequence of calls? Are refusals justified? Is the segment a write-once store? | Two pairs, one at negative offsets; three felts and a pointer; signatures valid for either key, of another pair, with a component that is no felt, and replaced; an x coordinate of no key, a message the library throws on. Nothing else bounds the run. |
| `comparisons` | Are the arcs rebuilt? Does the scope tell the flags which arc is the greatest of their comparison? Are addresses ordered as far as their text allows? | Prime 29, all pairs of felts, bound 4, so that most quotients of the field are refused; pointers at fresh and at used cells; offsets of one and of two digits, and one from `DecimalBound` (20) on. Two hints, the second of which meets the scope and the cells of the first; the property also speaks of what a third would read. |
| `exported_files` | Are the verdicts of the comparison true? Is what a run reports as exported in the file of that name? | Values of up to four words (words of 4, bytes of 2, prime 101), memories and traces that differ in one word, one address, their order or length; three and two names, exported to over and over, with and without relocation, each export opening its file or failing to; all lists of up to three paths. The names are interchangeable and symmetric. |
| `assert_equal_of_unknowns` (violation) | Does an executed `assert_eq` make its cells equal? | Four statements: assert two unknown cells equal, then write them differently. |
| `keccak_of_partial_state` (violation) | Is a keccak output the permutation of its inputs? | One segment, the first input and the first output. |
| `second_squash` (violation) | Does `keys` hold the keys still to be squashed? | Two dictionaries, three accesses, both squashed. |
| `arc_flags` (violation) | Does the flag tell whether the first arc is excluded? | As `comparisons`. |
| `compare_trace` (violation) | Are similar traces the same? | As `exported_files`. |

The bounds are: `MaxSteps` for a run; `MaxSegments`, `MaxBatch`, `Offsets` and
`CallerValues` for the memory; `Limits` (dictionaries, accesses, cells written
ahead, squashes, keys) for programs with dictionaries; `CallLimit` for the
comparisons; for the rest only the sets of values. Deadlock is checked for the
memory, the signature segment and the files, which can always be called; a
program ends or throws, and a word is decoded once, so the other runs may stop.

What the properties of the dictionaries, comparisons and files leave out, and why:

- `ImplementsOrderedVisit` and `EverySquashEnds` are about programs that squash
  one dictionary: a second squash starts from what the first left, which
  `second_squash` shows; with it the visit is not ordered.
- `PairsAreSigned` leaves out the pairs one of whose assertions threw: the cell
  that completed the pair stays, and when its caller asserts it again, the trap
  returns at ecdsa.ts:67 without a verification.
- `AlikeAddressesAreOrdered` leaves out offsets of different widths, segments of two
  digits, and offsets written with an exponent: the text of an address puts `0:10`
  below `0:9`.
- `SmallArcsAreRebuilt` is about the calls that return. The quotient is one of
  the field (assertLeFindSmallArc.ts:67): unless an arc is a multiple of the
  numeral, it is a number the range check refuses, and the hint throws.
- `ScopeTellsGreatestArc` is about what the flags read, not about what they answer,
  which is wrong (`arc_flags`).
- `SmallTraceVerdictsAreTrue` is about registers below 256. Both verdicts compare what
  was in fact written; that it is what a run reports is `ReportedFilesAreThere`.
- `ReportedFilesAreThere` says of the trace of a machine that relocated nothing that
  its file is empty.
- `ArenaNumbersDictionaries` is about the runs in which no hint has thrown: an alloc
  that throws leaves a dictionary without a number, and the run ends.

Five runs show a disagreement between the code and its documentation:

1. `AssertedCellsAreEqual`: "Assert equal instruction" (`vm/instruction.ts:139`)
   of two cells without a value asserts nothing (`vm/virtualMachine.ts:232-236`
   and the guards at 297-299). The sum and the product throw in this case.
2. `KeccakOutputsAgree`: the documentation of the handler
   (`builtins/keccak.ts:17-19`) defines the outputs from a state of eight cells;
   an output read earlier is computed from those present and cached.
3. `KeysAreStillToSquash`: `keys` is documented as "An array containing the keys
   that still need to be squashed" (`hints/squashedDictManager.ts:15`); in a
   second squash it also holds keys of the first (`hints/dict/initSquashData.ts:87`).
4. `FirstArcFlagTells`: "Assert if the arc (0, a) from `AssertLeFindSmallArcs` was
   excluded" (`hints/assertLeIsFirstArcExcluded.ts:30`); the reader takes the
   position in the scope for an arc, so that the flag is always 1 (line 41).
5. `SimilarTracesAreTheSame`: "Compare the encoded trace files"
   (`scripts/compareCli.ts:34`); one byte of each register is compared
   (`scripts/compare.ts:67`).

Two more disagreements are behaviour of the modules, outside of every property:

- "export the trace, little-endian encoded" (`cli.ts:52`): without relocation
  `relocatedTrace` is empty (`runners/cairoRunner.ts:168`), and so is the file, which
  is reported all the same (`scripts/run.ts:71`); the export of the memory is refused
  (42-51). `Relocated` and `exportTrace` of `ExportedFiles` do this.
- "Check whether the Relocatable value at `lhs` is inferior or equal to the value at
  `rhs`" (`hints/math/testLessThanOrEqualAddress.ts:42`): the texts of the two are
  compared (line 58), so that 1:10 comes before 1:9. `TextLeq` of `Comparisons` does.

Every property has a mutant: an operator next to the one it mutates (marked
`(mutant: ...)`) under which the run finds the property violated.

## Proofs

All for every prime, set of builtins, bound, hash function, curve and program
that satisfy the named assumptions of the modules: the prime has inverses, the
bounds are naturals, the libraries return felts or throw, the decoder returns
instructions or throws, the programs are programs. Those that are more than
types are explained where they are used below.

- `HintsProofs`: lemmas about the operators, which every other proof module
  cites. Arithmetic is closed and keeps the segment number; a trap keeps the
  cells that have a value, returns what the cell then holds, caches only what it
  deduced; `get` and `assertEq` change one segment and only add (`Kept`); a
  pointer that is read or computed stays in an allocated segment, at an offset
  that is not negative (`Within`); the operands of a hint have the type their
  reader returns.
- `MemoryProofs`: `TypeCorrect` is inductive with those lemmas.
  `CellsAreValidated` is inductive beside it. `DeductionsStayTrue` is inductive
  because an `assertEq` on an output reads it first, so that a value can only
  enter an output cell after the deduction agreed with it, and because the
  inputs of a deduced output have values, which never change.
  `MemoryIsWriteOnce` maps each action to one of `WriteOnceStore`.
- `CairoRunnerProofs`:
  - `MachineTypeCorrect` and `PointersAreAllocated`. Neither invariant is
    inductive alone: a read needs the type of the pointer and that its segment
    exists. The invariant is their conjunction with the well-typedness of the
    program; one lemma per stage of the step (operands, values, assertions,
    registers) and per hint preserves it.
  - `AssertedResultsStay`. What a step adds to the trace is true when it is added
    (`res` was asserted in the cell of `dst`, and the operands are those of the
    cells read), whichever operand was deduced; what was true stays so because a
    step only adds cells. The invariant says that the cells of every entry hold
    the values the entry was computed from.
  - `BuiltinsAreFound`. Segments are added at the end and keep their handler, so
    that the handlers the constructor laid out stay where they are.
  - `RelocationIsFaithful`. The addresses of two cells differ because each entry
    of the relocation table is at least the one before it plus the length of its
    segment. That is an induction over the segments, here by the least entry at
    which it fails. The part about the program needs a hypothesis,
    `TraceIsAddressable`: every pc of the trace lies below `ArrayLimit`, the
    offsets that are array indices, and its relocated address below the prime. A
    cell beyond `ArrayLimit` is a property of the array that relocation does not
    visit, and an address beyond the prime would wrap when the trace is
    relocated. Programs of fewer than 2^32 - 1 words satisfy it; that no pc is
    negative is not assumed but follows from `PointersAreAllocated`.
  - `CallsNest`: the runner implements `CallStack`, for runs of any length. The
    invariant relates the frames, which are computed from the trace, to memory: the
    two cells below fp hold the top frame, the two below the caller's fp the next,
    down to the frame of the entry point, whose return address is the final pc. A
    call pushes the frame it has just asserted in these two cells, a `ret` reads them,
    and nothing else that a program, a hint or a deduction writes can disturb them,
    because memory only grows. That a step appends its effect to the frames needs no
    induction over the trace: two histories that agree up to k have the same frames
    at k, by the least k at which they differ. This theorem alone rests on
    `StandardFrames`, that calls and returns are those of the compilers: one whose
    return address or caller is saved elsewhere would not nest.
- `InstructionDecodingProofs`: `DecoderMeetsAssumption`, and for offsets of any
  width `DecodingIsFaithful` and `InstructionsAreReachable`: a word is taken
  apart and put together by the same divisions, and each legal combination of
  fields is a case the decoder accepts.
- `EcdsaProofs`: `EcdsaTypes`, `EcdsaIsWriteOnce` and `NoPairIsRefusedUnjustly`
  (an action property) follow one call at a time. `CompletePairsAreSigned` needs
  to know that the dictionary only holds signatures that were offered: then the
  call that completes a pair either verified one of those or refused the pair,
  and no later call changes the two cells.
- `ComparisonsProofs`: `ComparisonsAreTyped`, `ArcsAreRebuilt`, `ScopeTells`,
  `AddressesAreOrdered`. The invariant says that the cells of each call still hold
  what the call computed, and that the segment of the range check holds no felt of `RangeBound` or more. A
  quotient q of the field with q * high = arc - remainder (mod P) and q below
  `RangeBound` is the integer quotient, because high * `RangeBound` is at most P
  (`HighAssumption`); so each pair of cells rebuilds its arc. It rests on
  `PointerAssumption`, that the operand given to the hint points into the
  segment of the range check, as it does in every program the compiler emits:
  a quotient in another segment is not validated. That the sort has a result at
  all is `SortedOrder`. That the texts of two addresses alike compare as their
  offsets do needs the digits of every number below `DecimalBound`: two numbers of as
  many digits differ first at the digit where their quotients by the powers of ten
  first differ, and the greater digit there belongs to the greater number.
  `ScopeTells` has an invariant of its own, `ScopeInv`: while nothing has thrown, the scope holds the position that
  the comparison begun last has found, and no position before the first; that this is
  a greatest arc comes from the other invariant.
- `ExportedFilesProofs`: `MemoryVerdictsHold`, `TraceVerdictsHold` and `ReportsHold`,
  for words and felts of any width. The invariant says that each file on the disk is the
  encoding of what was last exported to its name; for `ReportsHold` it also says that
  each report is of what the file of its name holds, which an export that throws
  leaves, and one that does not renews together with the file. The buffer of an export is read
  back entry by entry; a felt is made of its words, because each is the remainder of
  a quotient by a power of the size of a word; and since the addresses of a memory
  are distinct, the map that is built of a file is that memory, whatever the order
  of the entries. For traces the low byte is the register, as the hypothesis of the
  property says.
- `DictionariesProofs`: `DictionariesAreTyped`, `AccessesAreReplayed`,
  `ArenaIsNumbered` and the action property `FailedHintsAreHarmless`, for programs
  of any size, with any number of squashes, the second one of `second_squash`
  included. One inductive invariant serves all four, since each hint relies on what
  the others left:
  - An access is complete only after its third cell, and the steps between are
    those of other dictionaries too. The invariant therefore follows each access
    through its stages: open (the key is in its cell or about to be asserted, the
    previous value is the entry, there is no new value), with its new value pending
    (the entry is ahead of memory by this one access), complete. The hint that
    closes an access looks for the key three cells before a pointer; that this is
    the key of the open access is what makes it never throw.
  - The number of a new dictionary is read from a cell of the arena the program has
    filled: the last block of the arena holds the count of dictionaries, or the
    program is about to assert that it does, and so the hint puts the base of a new
    dictionary in the info of its own number. A squash, whose hint hands the program
    the number of its dictionary, then writes in the info of that dictionary and
    leaves the bases of the others.
  - What replaying gives depends on the last access to a key, so one lemma compares
    the replay before and after an access is completed (`ReplayCompleted`), another
    says that what happens elsewhere does not change it (`DictFrame`).
  - The typing part holds after an exception too. That a hint which throws has
    changed no dictionary is then a fact about single steps.

  `FirstSquashIsOrdered` is the safety part of `ImplementsOrderedVisit`, for programs
  that squash one dictionary at most: each step is one of `OrderedVisit` or leaves the
  log and the visited accesses alone. A second invariant, `OrderInv`, goes on from the
  first: the key of every access is in memory or about to be asserted (`KeysThere`),
  so that the log is there when a squash begins and stays; and inside the loops the
  lists hold the accesses that were not visited and the one the loop is at, no other,
  by descending key and for each key last access first (`InOrder`). That the lists
  are so at the start is what insertion, reversal and sorting do
  (`StartOrder`); that the last index of the last key is then the least access in the
  order, and the next one after it is removed, is about lists only (`Popped`,
  `NextKeyOrder`, `PopOrder`). The first index goes by a cell of the range check
  segment, which is empty there, because no more keys than cells were visited
  (`RangeChecksCounted`). The hypothesis `limits.squashes <= 1` is used where a squash
  begins, with no lists of another one (`NothingListed`).

  Two assumptions bound what a program is: `SegmentAssumption`, that the three
  builtins of its segments have handlers, and `ExactAssumption`, that a program
  stays below 2^53 cells in a segment and far below the prime, so that the numbers
  of dictionaries and of accesses survive their conversions. That the lists of a
  squash are sorted at all, however long, is `SortingExists`.

Only model-checked:

- Liveness (`EverySquashEnds`, the fairness of `ImplementsOrderedVisit`), and
  `ENABLED`. That the whole of `ImplementsOrderedVisit` holds is therefore what the
  run `dictionaries` checks, its safety part what is proved.

## Fairness

One assumption, in `DictPrograms`: weak fairness of
`AssertInstruction \/ SquashStep`. The loop of `CairoRunner.run`
(`runners/cairoRunner.ts:155-157`) steps the machine as long as pc is not the
final pc, and a program inside a squash has no choice to make: the next hint and
the assertions before it are what its bytecode says. Nothing is assumed about
when a program allocates, accesses or begins to squash. `EverySquashEnds` and
the refinement of `OrderedVisit`, which has weak fairness of its own, hold under
it. No other specification states fairness: whether `run` ends depends on the
program, the code has no bound on the steps, and memory, signature segment and
files are called by others.

## Not modelled

- Parsing of programs and hints (`vm/program.ts`, `hints/hintSchema.ts`,
  `hints/hintName.ts`, the schemas of `hints/hintParamsSchema.ts`): declarations
  of a parsing library, without state or control flow of the project.
- The lookup of an entry point (`fromProgram` and the two functions it calls):
  reads fields of the parsed program and hands them to the constructor.
- The command line and everything that prints. The verdict of a comparison is
  dropped there (`scripts/compareCli.ts:29`), although the Makefile (116-120)
  reads the exit code; the model has the verdict, not the process.
- `enterScope`, `exitScope` and `delete` of the scope manager: nothing calls them.
- The table of layouts is data (`Allowed`), the messages of errors are wording.

## Plan

Ordered by importance; all of it is done.

1. Core: `SegmentValues`, `BuiltinHandlers`, `SegmentMemory`, `Memory` with
   `WriteOnceStore`; `Instructions`, `Hints`, `VirtualMachine`, `CairoRunner`;
   `CallFrames` with `CallStack`; `InstructionDecoding`. Runs and theorems above.
2. Dictionaries: `DictHints`, `DictPrograms`, `Dictionaries`.
3. Squashing: `SquashHints`, `OrderedVisit`, liveness, the run of a second squash.
4. `Ecdsa`.
5. `Comparisons`, `ExportedFiles`, and the segment of a builtin.
6. Proofs: memory, machine, relocation, calls, decoding, signatures, comparisons,
   exported files, dictionaries, the safety of a first squash.
