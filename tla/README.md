# Kvasir SDK in TLA+

Kvasir is a header-only C++ SDK for Cortex-M microcontrollers: a register access
library that plans its loads and stores at compile time, a start-up sequence, blocking
atomics, a lock-free queue between main and interrupt handlers, drivers' base classes
for shared buses, containers and value types, and the lists of types all this is computed
with. These modules model the parts of it that have run-time state, and the algorithms
that run in the compiler, check them with TLC on small instances and prove the most
important facts with TLAPS for every value of the constants.

All sources are below `src/src/kvasir/`; the paths in this file are relative to it.

## 1. Inventory

The program is one core: `main` runs an endless loop that calls `handler()` of every
component, and interrupt handlers preempt it, and each other by priority, between any two
instructions. Hardware changes registers, and pulls interrupts, on its own. There is
no operating system, no heap and no persistence; a reset starts everything anew.

| component | state | operations | interacts with | hard about it | correct when |
|---|---|---|---|---|---|
| `Register::apply` (`Register/Apply.hpp`, `Exec.hpp`, `Types.hpp`, `Factories.hpp`) | the registers; while it runs, the loaded value and the result | `apply` of write, set, clear, toggle, read, separated by sequence points | hardware and handlers change flags between load and store | merging and sorting; skipping the load; write-one-to-clear, write-zero-to-clear and toggle bits | every field gets its value in the order of the sequence points; nothing else changes; no flag is swallowed |
| `Atomic::Queue` (`Atomic/Queue.hpp`) | `head_`, `tail_`, `data_` | `push`, `push(range)`, `pop`, `pop_into`, `pop_into(range)`, `front`, `clear` | one producer, one consumer, in different contexts | interleaving of loads and stores; full and empty | it is an atomic bounded FIFO; no slot is used by both sides at a time |
| atomics (`Atomic/detail/*`) | the object, PRIMASK, `oldState` of each guard | load, store, exchange, compare_exchange, fetch_*, `InterruptGuard` | everything that shares an object | objects wider than a word; nesting; an interrupt between reading PRIMASK and setting it | operations are atomic; PRIMASK ends as it was |
| `I2CDeviceBase` (`Devices/I2CDeviceBase.hpp`) | `inFlight_`, `inFlightSince_`, `error_count_` | `handler`, `submitQueued_`, its callback, `incrementErrorCount`, `resetErrorCount` | the I2C driver's queue, which calls back from its interrupt | answers that are early, late or lost; callbacks that submit; the watchdog | one request outstanding; the device always gets back to its logic |
| `SharedBusDevice`, `BusPowerManager` (`Devices/`) | owner, error and reset counts; state and deadline of the power | `acquire`, `release`, `reset`, `resetHandler`; `handler` | the devices share one bus and one supply | devices that die with the bus; deadlines reused; eight-bit counters | exclusive bus; power cycled long enough; devices start afresh after it |
| `IsrProfiler` (`StartUp/IsrProfiler.hpp`) | statistics of each profiled handler | `record`, `snapshot` | record runs in the handler, snapshot anywhere | the cycle counter wraps; handlers between two loads | statistics are those of the runs |
| `StartUp` (`StartUp/StartUp.hpp`, `Common/`) | the vector table; memory, interrupt enables, the step | `ResetISR` | calls the init steps of every module | interrupts come on half way, raised before; faults and resets at any time, RAM survives | no handler runs before what it needs is set up; each interrupt reaches its handler; counts start over |
| containers (`Util/StaticVector.hpp`, `StaticMap.hpp`, `StaticSet.hpp`, `StaticString.hpp`) | array and size | insert, erase, assign, resize, find, compare | map, set and string keep a vector | rotation by hand, empty ranges, a vector's own elements as arguments, lifetimes of elements, duplicate keys | they are sequences, dictionaries and sets; no destroyed object is an element |
| value types (`Util/BitField.hpp`, `SaturatingValue.hpp`, `StaticFunction.hpp`) | a value; a buffer and a pointer | extract, combine; add, subtract; store, wrap, call | none | shifts per byte, sums that overflow, functions inside functions | a field is its bits; exact sums, clamped; a call runs what was stored last |
| list algorithms (`Mpl/brigand.hpp`, `Algorithm.hpp`) | none: types | sort, split, find, remove ... | `apply`, start-up and results of reads are built from them | unrolled by eight, ties, ends of lists | what their names say |
| literals (`Util/literals.hpp`, `detail/constant_parser.hpp`) | none: characters | parse | none | bases, separators, wrap | the number that is written, or an error |
| `Io`, tags, fault handler, stack guard | none, or trivial | | | | |

`PROJECT.json` lists every component with its status, and under `hazards` every line
where something can go wrong that a test would hardly reach.

## 2. Modules and how they correspond to the code

    Fifo      <- Queue        <- MCQueue        QueueProofs
    Registers <- Exec <- Apply <- MCApply       ApplyProofs
    AtomicOps <- AtomicCell, AtomicBlocks <- MCAtomicBlocks   AtomicBlocksProofs
    I2CDevice                 <- MCI2CDevice    DeviceProofs
    BusPower                  <- MCBusPower     DeviceProofs
    StartUp, IsrProfiler      <- MCStartUp      StartUpProofs, UtilityProofs
    StaticVector <- StaticMap, StaticSet, StaticString <- Containers <- MCContainers   StaticVectorProofs
    Dictionary   <- Containers
    BitField, SaturatingValue, StaticFunction, Lists <- Metaprogram, Literals,
      Containers <- Utilities <- MCUtilities    UtilityProofs
    Literals                  <- MCLiterals
    Lists                                       ListProofs: lemmas of ApplyProofs, StartUpProofs and UtilityProofs

Definitions keep the names of the code where they can. Definitions with the comment
"Mutant" are faulty variants of the definition below them (a guard dropped, an index not
wrapped); they are not used by the specification. Each property is known to fail
when the definition is replaced by its mutant, so each depends on the code it is about.

**Queue, Fifo.** Every load and store of `head_`, `tail_` and a slot is an action. `ppc` and
`cpc` say where the producer and the consumer are, `ptail`, `chead`, `ctail` are their
locals. `push(T)` and `push(range)` share their actions and differ in `HasRoom`; the pops
differ in `TooFew`. `pop_into` loads `tail_` before `head_`, as the code does. Either side may
preempt the other anywhere, so the model covers a producer in main and a consumer in a
handler and the reverse. `Fifo` is what users rely on: a sequence whose operations are
atomic. A push takes effect at its store of `tail_`, a pop at its store of `head_`, a refused
call at the load that settled it. The refinement mapping is at the end of `Queue`.
Loads and stores keep program order: the signal fences are taken to do what they are for.

**Registers, Exec, Apply.** A value or mask is the set of its bits. `Registers` has
the kinds of bits and the two formulas of `Exec.hpp` (`OrWritten`, `XorWritten`), and what the
peripheral does with a bit that is written. `Exec` runs a list of merged actions: a load
and a store are two steps, and `Hardware` may raise or reset a flag between them. `Apply` is
the compile-time half as operators: `Steps` splits at sequence points, `MergeRegisterActions`
sorts and merges, and the list `Compile` gives is what the run-time half executes.
What a call should mean is stated separately, argument by argument (`Meant`,
`AfterGroup`), and `AppliedCorrectly` compares the two when the call returns. Registers
hold any contents before a call. Handlers change flags only: `apply` is a plain
read-modify-write and promises nothing about a plain bit that a handler writes meanwhile.

**AtomicBlocks, AtomicCell, AtomicOps.** Contexts are interrupt levels, 0 is main; a
context runs only when no higher one is active. The constructor of a guard is two steps,
`Save` (reads PRIMASK) and `Disable` (cpsid), so an interrupt may come between them and take guards
of its own. The operations read and write a low and a high word in separate steps;
a compare_exchange that fails reads the object again, as the code does. `Lock` and `Unlock` are
guards of the calling code, nested to any depth up to `MaxDepth`. `AtomicCell` has the same
operations as one step on the whole object.

**I2CDevice.** `mpc` is the position of main in `handler()`, one step per load or store of the
flag, the time and the error count; `ipc` that of the callback. The callback runs to its end
before main goes on. The driver holds requests and may refuse one, answer any it holds at
any time, or never; a callback may submit again, and nothing bounds how often. `resetLogic` may or may not
take requests back: it belongs to the derived class. `late` is no variable of the code: the watchdog gave up on a request the driver still
holds, or held when `handler()` last looked at the flag. Once the driver holds none it falls, and the properties hold again.

**BusPower.** One step per `case` of the manager's `handler()`, and one per device's handler in an idle
pass. What a device does with the bus is free within what `SharedBusDevice` lets it do: rest,
work and succeed, or count errors; keep the bus or release it. A device may die at any
time: it then fails until its power is cycled. `soft` remembers whether a device's software is older than the last power
cycle, which no variable of the code does. Time is in ticks: 500 ms and 100 ms are 5 and 1.

**IsrProfiler.** `record()` is one step per access to the statistics. `snapshot()` runs below the
handler (in main, when `below`) or above it; then it may fall between two steps of `record()`, but
the handler does not run on before it is through. `gaps` and `took` are the history the statistics are compared with.
The compare_exchange loops end at once: `record()` does not compete with itself.

**StaticVector.** Calls without a loop are one step; `Insert` (every `insert`,
`move_insert` and `emplace`), `Assign` and `Erase` enter a loop of which each round is a step: `AppendNext`, `BeginRotate` and `Rotate`
(`slow_rotate`), `MoveDown` and `EndMove`. Asserted preconditions are guards. What is inserted comes from the caller (`Given`) or stands in a slot
of the vector itself (`Own`), which is read when its turn comes. `Destroyed` is what destructors leave; with `Trivial` they do nothing.
`expected` is what a sequence would be after the call. Copies, moves and `swap` are `Copy`: `SV_REQUIRES` makes templates of the operators
written for them, which are therefore no copy or move operators, and the compiler's own are used. So `v = v` changes nothing, although the
`operator=` in the source clears first.

**StaticMap, StaticSet, StaticString, Dictionary, Containers.** Each keeps a `StaticVector` (`V`) and is written as the code is, on top
of the vector's actions; a call of map or set leaves its answer in `asked` and `answer`. `Containers` puts them side by side over one vector, whose
`owner` says what it belongs to: a plain vector, one of objects with destructors, a string, a set or a map. `Dictionary` is a function
with the same calls in one step; map and set implement it, by the function their pairs stand for (`DictOf`). Comparisons are operators.

**Lists, Metaprogram.** The algorithms on lists of types, as operators on sequences; `Unroll` is how many elements the unrolled
specialisations take at once (8 in the code). `Apply` uses `sort`, `split`, `flatten` and `remove_if`; the rest is used by start-up,
pins and read results. `Metaprogram` enumerates lists and states what the algorithms should give.

**BitField, SaturatingValue, StaticFunction, Literals, Utilities.** A byte or value of a bit field is the set of its bits, with the masks, shifts and
offsets of the code; `flat` is the message as one row of bits. A saturating value is a number that overflows its type; `sum` is what it should
be. `StaticFunction` has a small and a large function; the small one moved into the large one is stored as a callable, also when it is empty; `given`
remembers what the program gave a function since it was last empty. `Literals` parses sequences of characters in a type of `Wide` values: unsigned it
wraps, signed an overflow is no constant and does not compile. What C++ takes for a literal (`IsLiteral`) is stated beside what the parser takes (`Parses`).
`Utilities` puts all of these, `Metaprogram` and `Containers` side by side: `use` says which one a behaviour is about.

**StartUp.** `Table` is what `CompileIsrPointerList` makes of the modules' handlers, profiled ones in wrappers; `Vector` is the word the core
fetches. `pc` is the step of `ResetISR()`. A step that applies register lists takes the modules in any order, since `apply` sorts;
one that calls the modules takes them in theirs (`todo`: the rest). Of what a register list writes, only the interrupts it enables are kept
(`Config`). Handlers do not nest here, and fault handlers never return. A reset may come at any time; `recorded`, the call counts,
survives it as RAM does, and holds anything at power-up. That the chip's `FirstInitStep` sets PRIMASK is an assumption: the
matching `enable_all` is in `ResetISR()`.

## 3. Runs

| run | question | instance | liveness |
|---|---|---|---|
| `queue` | do the two sides of the ring ever disturb each other | ring of 3, two values, ranges up to 2, ignoring policy | polled pops drain it |
| `apply` | does a call do what its arguments say | two registers of 4 bits, 14 arguments, calls of up to 3 of them, of a list of two and of sequence points | - |
| `apply_reads` | does a read see the value from before the writes of its group | same, up to 2 arguments | - |
| `apply_toggle` | does clearing a toggle bit beside a runtime write clear it | same | - |
| `atomic` | are the blocks atomic and PRIMASK restored | main and one handler, one-bit words, 3 nested guards, 7 operations | interrupts come back |
| `i2c` | does the flag tell the truth, does the device recover | 3 requests, timeout 2, threshold 2 | flag falls; logic runs and errors reset unless callbacks submit for ever |
| `i2c_assert` | can the assertion in `submitQueued_` fail | 2 requests | - |
| `power` | exclusive bus, complete power cycles | 2 devices, the thresholds and times of the code | power and bus come back |
| `containers_empty` | may the inserted range be empty | 3 slots | - |
| `utilities` | does each value type and list algorithm do what it is for; are the containers' loops by hand what a sequence does, and map and set dictionaries | messages of 3 bytes and 4 fields; a type of 8 numbers; 2 callables; lists of up to 8; literals of up to 5 characters; vector of 5 slots, the other containers of 3; 2 values, 3 keys | - |
| `literal_overflow` | is every literal too large for its type refused | literals of up to 5 characters, a type of 16 values, 64 in the widest | - |
| `startup` | does a handler ever run on a system not set up, do interrupts reach their handlers; are the profiler's statistics exact, of what moments is a snapshot | 2 modules, 2 interrupts, 1 fault, 2 runs of each handler; counter of 8, 3 runs of the profiled handler | - |

Runs `utilities` and `startup` hold several components each, which share nothing: a behaviour is about one of them, and the others stay as they began.

Why these bounds are enough to meet the interesting cases:

- A ring of 3 slots holds two elements: it is full, empty, wrapped, and a range of two is all of it;
  the proofs cover every size.
- Register 1 has plain, write-one-to-clear and write-zero-to-clear bits, register 2 toggle
  and plain bits. With three arguments a write, a read and a write of one register meet, with and without
  sequence points; every pair of kinds that `MergeRegisterActions` distinguishes occurs, two runtime writes of different fields of register 1
  among them, whose values `Finder` must pick out of those of the call. Fields are chosen so that
  all other bits of a register are fixed in some calls (the load is skipped) and not in others. Calls of five arguments
  (`LongCalls`) have three groups: a register written in two of them and read in the third;
  others write a register in two stores and read it.
- One handler above main suffices for an interrupt at each instruction of an operation and of a guard;
  the proofs cover any number of levels. The seven operations include a compare_exchange that
  fails in one word only, and a carry from word to word.
- Three requests let a late answer, its successor and a request of main be
  outstanding together; callbacks submit without bound. Counters of time and errors stop one beyond their threshold: the code only asks whether it is passed.
- Two devices contend for a bus; the thresholds are those of the code, so no counter is scaled down.
- With a counter of 8 and gaps of 4 and 7 every second or third entry is past a wrap, and one is
  exactly at 0. A gap of a whole wrap or more is excluded: the code cannot see it.
- Five slots hold every rotation of up to five elements, also those that start over three times. The code does not look at the
  elements, so contents of two values, in every combination, tell any two arrangements apart.
  `RotatesInside` also bounds the loop, as `first` rises with each round, and deadlock is checked: every call returns. Three keys
  and three slots make a map that is full, one that has room, duplicates in a list and an erasure with something behind it.
- Fields lie in one byte and across two, with offsets at either end, ranges that clamp and neighbours on both sides. Operands reach beyond
  the type on both sides. With `Unroll` 2, lists of eight are skipped over several times, end within a skip, and are sorted in two runs and a rest.
  Literals of five characters have every prefix, a separator in each place, and values beyond the type and beyond the widest, signed and unsigned.
- Two modules are enough for one to be done with a step and the other not; a fault and two interrupts give the table
  an index below 0, and handlers in any order. Every set of interrupts the modules may enable in either step occurs, and every kind of profiling policy.

`CHECK_DEADLOCK FALSE` is set where the system may stop: `apply` is one call, lists and literals have a greatest length, the profiler's
handler runs a bounded number of times, and `assert` in the I2C device ends the program.

Types are not checked in runs of their own: where a component has proofs its `TypeOK` is a theorem, and the properties of the others fail
when a type does.

### Fairness

- `queue`: weak fairness of the steps of a call that began - the processor comes back to both
  contexts - and strong fairness of a polled `pop_into(T&)`: between its other calls the consumer polls again.
- `atomic`: weak fairness of the steps of each context, and strong fairness of leaving a guard: a
  critical section ends. The guard's owner cannot be preempted, but it may be busy with further operations, which is why weak fairness is not enough.
- `i2c`: weak fairness of main's loop, of a callback that began, and of time. Answers are not fair: the driver
  may never answer. Nothing keeps callbacks from submitting for ever; each time they renew the flag and its time, and `handler()` returns before the device's
  logic and before its look at the error count. `IdleAgain` and `ErrorsReset` therefore except behaviours in which they do (`CallbacksForEver`).
- `power`: weak fairness of `handler()` and of time. Devices are not fair: they may keep the bus as long as they live.

### Where the code and its comments part

Five runs end in a violation that TLC exhibits; each is an entry of `findings`.

1. `apply_reads`: a comment says that reads always observe the value from before the writes of their group. The code
   or-s the written value into the slot of the result: `apply(read(f), write(f, v))` returns old | v.
   Two reads of one register in different groups return the or of both, for the same reason, and a read returns the or
   of what several stores before it wrote: `ReadsSeeEarlierGroups` allows for one.
2. `apply_toggle`: clearing a one-to-toggle bit beside a runtime write of the same register merges the xor away and
   leaves the bit set; the factory's comment and a test say it is cleared.
3. `i2c_assert`: after the watchdog gave up on a request, its late answer may arrive inside
   `handler()`, its callback submits, and main's own submit fails `assert(!inFlight_)`.
   `AssertNeedsLateAnswer`, checked and proved, says that it fails only while such an answer is still to come, or was when `handler()` last looked.
4. `containers_empty`: an insertion of nothing (an empty range, or `n` = 0) before the end starts `slow_rotate` with `n_first == last`. `std::rotate`,
   whose place it takes, does nothing then; this loop swaps elements with what is behind the last one and runs on past the array.
5. `literal_overflow`: a literal is compared with the range of its type after it was parsed, and an unsigned one wraps while it is: `0x10000000000000005_u8`
   is 5, although an assertion says that what overflows is refused. `LiteralValue` says that nothing else goes wrong: signed literals do not
   compile, and what fits the widest type is right. The other exception it names, a separator behind the 0 of an octal literal (`0'7`), is C++
   that the parser refuses; no doc or comment of the repository speaks of it.

Run `apply` excludes the calls of `apply_toggle`, and its properties about reads are
restricted to registers not written in the same or a later group, nor by several earlier stores; otherwise it checks every call.
Run `utilities` excludes the insertions of `containers_empty` (`EmptyInside`). Two more places are as the code has them, though one may wish otherwise:
bit fields of three bytes and more are left out (`BitFieldAssumption`: `combineInto` shifts nothing in the bytes between), and an empty
`StaticFunction` wrapped in a larger one makes a function that says it is set and fails when it is called, which `CallsWhatIsMeant` says in so many words.

## 4. Proofs

TLAPS proves these for every value of the constants that satisfies the modules' `ASSUME`s.

| theorem | of | says |
|---|---|---|
| `QueueIsFifo` | Queue | the ring implements the FIFO: `Spec => IsFifo` |
| `RaceFreedom`, `FrontReference`, `TypeCorrect` | Queue | no slot is shared; `front()` stays good; indices stay in the array |
| `TypeCorrect` | Apply | whatever a call is passed, what it compiles to has its values, runtime ones included, in its masks |
| `FramePreserved`, `ExecFrame` | Apply, Exec | a store changes no bit outside its mask, whatever the flags do since the load |
| `MergedToOne`, `OnPurpose` | Apply | what a call compiles to has no two actions left that could be one; flags and toggles change only if an argument asks for it |
| `Applied`, `ReadsSee` | Apply | a call leaves in the registers what its arguments mean one by one, and returns what they held after the groups before the read |
| `SortSorts` | Lists | the sort in runs, which skips elements, sorts every list |
| `AlwaysSorts` | Metaprogram | both sorts give every list's elements in the one order with later ones before equal earlier ones; `Unique` leaves one of each key |
| `AlwaysFinds` | Metaprogram | every way to look for an element finds the first, however many are skipped at once; `split`, `remove_if`, `RemoveRange` and `RepeatC` keep the rest in order |
| `AlwaysLiteralValue` | Literals | a literal that compiles has the value that is written, unless it is unsigned and too large for the widest type, and every number in the range of its type compiles, unless written `0'7` |
| `BlocksAreAtomic` | AtomicBlocks | word-by-word blocks implement atomic operations: `Spec => Atomic` |
| `GuardExcludes`, `GuardRestores`, `TypeCorrect` | AtomicBlocks | a guard keeps interrupts out; PRIMASK is restored |
| `SingleRequest`, `FlagTracks`, `AssertSafe`, `TypeCorrect` | I2CDevice | unless the answer of a request given up may still come, the flag covers what is outstanding, which is one request, and the assertion holds; callbacks may submit without bound |
| `StartUpSafe`, `TypeCorrect` | StartUp | no handler runs before memory, lists and `preEnableRuntimeInit()` are done, for any modules |
| `AlwaysOwnHandler`, `AlwaysCounted` | StartUp | each interrupt a module enables reaches that module's handler; the statistics count the runs since the reset |
| `SaturatesAlways`, `AlwaysAsLaidOut` | SaturatingValue, BitField | exact clamped sums; a field is the bits its numbers name, and no other bit changes |
| `HoldsASequence`, `RotationStaysInside`, `ElementsStayAlive`, `TypeCorrect` | StaticVector | every insertion and erasure is that of a sequence, for any capacity; `slow_rotate` stays between first and last |
| `BusExclusive`, `PowerCycleResets`, `PowerSettled`, `PowerTypeCorrect` | BusPower | one owner; power cycles are complete; counters do not wrap |
| `AlwaysCallsWhatIsMeant` | StaticFunction | a function is set exactly when something was given to it; a call runs what was given last, through a function in a function too, an empty one included |
| `AlwaysExact`, `AlwaysCovers` | IsrProfiler | the figures are those of the intervals that ended; a snapshot covers all that had ended when it began, its total is that of some moment of the copy, and its count at most two ahead of it |
| `AlwaysLikeSequence`, `AlwaysRotatesInside`, `AlwaysAlive` | Containers | the same for all five containers, each on a vector of its own |
| `AlwaysIsDictionary` | Containers | map and set implement the dictionary: `Spec => IsDictionary` |
| `AlwaysComparisons` | Containers | equality of maps and sets is that of functions and sets; the vector's operators compare place by place, so that `<=` both ways is `==`, and `<` both ways holds of empty vectors only; `starts_with` finds the prefixes |

Assumptions. *Queue*: a ring of at least one slot. *Apply*: the masks of an `Address` say what its bits do
(`RegistersAssumption`), and the arguments come from the factories, whose values lie in their masks (`Actions`): that this is so of what they are merged
to is `TypeCorrect`. For `ExecFrame`, about the run-time half alone, it is a hypothesis (`WellFormed`).
For `Applied` and `ReadsSee` that no two writes of a group address the same bit (`Sensible`; the code leaves their order open) and that no toggle stands beside
a runtime write (`~MixesToggle`): the calls of run `apply`, while `apply_toggle` shows that the property fails for the others. *AtomicBlocks*:
the sum of two objects is an object. *BusPower*: the limits plus what one handler may count stay below 256; the code's limits
are 5. *I2CDevice*: naturals. *StartUp*: at least one module; interrupts that modules enable are not faults; for `AlwaysOwnHandler` also that
each configuration is one that compiles (`Handled`: the handlers' indices are different, and each interrupt enabled has one). *SaturatingValue*: `min` and
`max` inside the type. *BitField*: fields inside the message and within two bytes. *StaticFunction*: none. *IsrProfiler*: gaps and durations below a whole turn of the counter.
*Metaprogram*: keys are integers, and a search looks at two elements at once or more. *Literals*: the widest type has an even number of values, 32 or more, so
that every digit is one of them, signed too, and the range of a literal's type lies in it; the base, the characters and their number are arbitrary.
*StaticVector* (`StaticVectorAssumption`, a hypothesis of each of its
theorems): a capacity of at least one, `T{}` an element, and no empty range inserted before the end (the finding of section 3 shows why).
*Containers*: capacities of at least one, `Gone` no element; no empty range before the end (`~EmptyInside`) for all but `AlwaysIsDictionary`, since map and
set never insert one; for `AlwaysComparisons` that the vector's elements are integers, which `<` compares.

Arguments.

- **Queue.** The invariant relates each side's locals to the ring. The producer's: once it found
  room, `distance(head, tail) + Len(in) < Size` stays true, since the consumer only makes room; its `ptail` is the slot
  `pk` behind `tail`, and the slots it wrote hold its argument. The consumer's: once it found `cn` elements, they
  stay, since the producer only adds; what it copied is what the ring holds. Both parts are needed: neither
  `NoDataRace` nor `IsFifo` is inductive, since each depends on a load made steps before. `IsFifo` follows
  step by step under the mapping: most steps stutter.
- **Apply.** Between load and store the plain bits of the register stay as they were loaded (`LoadedFresh`), as only flags
  change on their own. A bit outside the mask is then either plain and written back, or written with the value its register ignores.
  That an action has its values in its mask, however it was merged, is read off the actions of the group it is made of (`CompiledInMask`).
  That an argument reaches the registers as it should is a chain of lemmas along `apply`: `split` cuts the arguments at the sequence points and nowhere else
  (`GroupInduction` goes along its groups); `sort` puts a group in the order of registers and kinds (`SortSorts`, by a merge that never skips past an element
  it should stop at); the merge takes each action of a group into exactly one merged action, and what that writes is what they write
  (`GroupMerges`); the finder gives each its own runtime values (`FinderFinds`). The inductive invariant is `Called`: what is still to be executed is the end of
  `Compile(call)` (`Underway`), the registers are what the actions so far make of their values at the call, but for the flags (`Reached`), and what is returned
  is what the accesses so far left (`Returned`). For `ReadsSee` also that the accesses come group by group (`Ordered`), so that no write of a later group is before a read.
- **AtomicBlocks.** The first guard of a context found PRIMASK as it was at the start, each inner one found it set
  (`OldStates`); hence the interrupts come on with the last destructor and with no other, so a context
  with a guard is the running one (`Guarded`). What it read is then still in the object when it writes
  (`Reads`), and an operation takes effect with its first write, or with its last read.
- **I2CDevice.** While no late answer can come, main is between its look at the flag and its submit only while nothing is outstanding
  (`Unoccupied`): no callback can then run. This is what makes `OneOutstanding` inductive, and with it the flag is right at each of these steps (`UnlessLate`).
- **BusPower.** `Clocks` ties the deadline to how long the pin has been off or on, `Passes` bounds `reset_count` by where
  the pass is, and `Marked` carries "to be reset" from `call_reset` to the moment the power goes off.
- **BitField.** Each bit of a field is in one byte, and the shifts of `extract` and `combineInto` undo one another (`Extracted`, `Combined`), by the
  arithmetic of the two offsets for a field in one byte and in two.
- **SaturatingValue.** An operand that overflows carries the exact sum past the same end, whatever its size.
- **StaticVector.** Each loop has a formula that tells the element at every place of the result from the slots and iterators as they are now:
  `Appending` (the old ones, the new ones behind them, those still to be read), `Rotating` (what is in place, the run from `next`,
  the run from `n_first`, the rest), `Moving` (what is in place and what stands from `from`). `RotateOne` shows that a swap keeps `Rotating` in all four cases: `next` or
  `first` at the end of its run, both, or neither. `ReadInTime` says that no slot still to be read gets another element, which
  makes `v.insert(v.begin(), v[i])` and an assignment of an own range right.
- **StartUp.** `Rank` numbers the steps. Until `enableAll` the interrupts are off or none is enabled (`Masked`), so a handler that runs is behind
  it (`RunsBehind`), and what is behind `ResetISR()` is behind every module (`DoneBehind`). What the table holds is not needed for this. `OwnHandler`
  looks into it: the list that is put together from the modules' handlers has each of them once (`FlattenedElements`), so the entry for an
  index is its only one. `Counted` counts from the point where `InitMemory` clears what a reset left.
- **StaticFunction.** What a pointer says of the buffer: nothing, the callable meant, or a small function with the callable meant.
- **IsrProfiler.** At each step of `record()` a figure is that of the runs whose step for it is past (`Figures`: each its own number of runs), and the figures
  `snapshot()` has read are those of one moment each between its begin and now (`ReadSoFar`). Sums are a recursion along the list of gaps (`TotalStep`).
- **Containers.** Each container is an instance of `StaticVector`, so the theorem about the vector's invariant is an instance too (`PV`, `PO`, `PT`, `PS`, `PM`), once its
  steps are shown to be the vector's. Two conjuncts more are needed for the dictionary: no key twice in the sequence that a set or map stands for (`Distinct`, `DistinctKeys`).
  The refinement is per call: the call begins, `expected` is what the sequence will be, and the function it stands for changes as the abstract call says;
  the rounds of the loops stutter. An insertion appends a new key at the end; an erasure removes one position, whose key occurs nowhere else; a list is taken
  element by element (`InductionTo`), with what is a duplicate of an earlier one left out.
- **Comparisons.** `Equal` of maps looks up each pair of one in the other; that this is equality takes a count of the distinct keys: as many
  in one as in the other, all of the one in the other, so all of the other in the one.
- **Lists.** `sort` (`SortSorts`) and `Sort` (`MplSortSorts`, an insertion before the first element that is not less) both give the elements
  of the list in order, and a list of different elements has only one order (`SortedOnce`); the elements are marked with their places, so that they are
  different, and what is asked of equal keys is part of the order. `Unique` on such a list leaves of each run of equal keys one (`OneOfEach`, `UniqueLeavesOne`).
  Every search is the function from a place to the first place with the element at or behind it (`FirstPlaces`): `find` goes there in steps of one and of `Unroll` elements
  (`FindsRest`), `Find` counts the same steps (`FindsPlace`), both by induction from the end of the list (`InductionDown`). A state of `split`
  has its groups, put together with the open one, equal to what the list has up to there without the delimiter, no group empty, and as many groups as begin up to there
  (`Grouped`); later states begin with the groups of the earlier ones (`GroupsBegin`).
- **Literals.** `parse` goes by Horner's rule and wraps at every digit; `ExactValue` adds up digits times powers. The number by Horner's rule that does not wrap is in between:
  times the power for the digits still to come it is the sum so far (`PlaceValues`), and what wraps is at every digit what is left of it in
  the widest type (`WrappedDigits`), since what is left of `x * b + d` depends only on what is left of `x` (`DigitMore`). A signed one is that number
  up to the digit at which it overflows, and no constant from there on (`StoppedDigits`).
- **Induction.** The provers have no induction of their own, and the library's takes an operator. `ListProofs` derives it for sets from the well-foundedness of the
  naturals, and from it the existence of recursive functions (`Induction`, `Recursion`, `RecursionTo`): a definition `f[i \in S] == ...` says nothing until
  a function that satisfies it is known to exist. A fold is such a function on sets of places (`FoldingUp`).

Only model-checked: everything about liveness (`DrainProgress`, `InterruptsComeBack`, `InFlightEnds`, `IdleAgain`, `ErrorsReset`,
`PowerComesBack`, `BusComesBack`), since fairness and `ENABLED` are beyond the prover.
Every invariant and every action property of the passing runs is stated by a theorem.

## 5. Plan

Done, in this order: queue, register access, I2C device, bus power, blocking atomics, profiler, start-up, containers, value types, literals and
list algorithms. What could come next:

1. **Composition**: I2C devices that own a shared bus, under the power manager: a power cycle while a request is in flight.
   Handlers that nest and preempt `ResetISR()` between register writes; guards of one interrupt instead of all, and guards that are moved.
   An abstract start-up (each init once, in order, interrupts from one point on) that `StartUp` refines.
2. **Proofs** of what a composition adds: that a device's request ends with the power cycle that interrupts it.

## 6. Not modelled

- Orders of memory accesses the compiler may choose where the code has no fence for it (`pop_into` between `tail_` and
  the slot): it would need a model of the language's memory model.
- `clear()` of the queue beside a running call, a third context that calls `size()`: the class is for two contexts and does not say.
- Plausibility checks, error messages and the parts of `Mpl` that wrap types and constants; `overrideDefaults`, `Io` without a chip's pins. brigand
  is a vendored library: only what the SDK builds on is modelled.
- An assignment of a vector's own elements of a non-trivial type (it reads objects `clear()` destroyed), and the end of non-trivial storage, whose
  destructor destroys the elements and whose array member destroys all slots again: nothing is left to state a property of.
- A handler that writes a plain bit of a register which main is in the middle of a read-modify-write of: `AtomicFactories.hpp`, meant for it, is empty.
- `XorAction` of a runtime value: no factory makes one.
- A snapshot of the profiler is not of one moment, though its comment says so: the handler may run between two loads, and the
  average then divides the total of more intervals. `Covers` says what holds in spite of that.
- Two modules with a handler for one index: the table takes the first.
- Chip packages (`FirstInitStep`, `Core::Fault`, clock settings, I2C drivers): not in this repository; what the code expects of them
  is modelled where it uses them.
- Build files, linker scripts, container images, logging and formatting.
- 2^32 calls of a profiled handler, and 2^32 cycles between two of them.
