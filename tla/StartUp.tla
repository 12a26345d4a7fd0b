------------------------------ MODULE StartUp -------------------------------
(***************************************************************************)
(* The start of the program (StartUp/StartUp.hpp): the vector table that   *)
(* is compiled from the handlers of the modules, with wrappers around the  *)
(* profiled ones (StartUp/IsrProfiler.hpp), and ResetISR(), which sets up  *)
(* memory and modules and lets in the interrupts half way.  Interrupts may *)
(* be raised at any time, faults come and resets happen at any time; RAM   *)
(* survives a reset.                                                       *)
(***************************************************************************)
EXTENDS Integers, Sequences, SequencesExt

CONSTANTS
  Modules,     \* how many modules Startup<ClockSettings, Peripherals...> lists
  Begin, End,  \* InterruptOffsetTraits: the indices from Begin up to End - 1
  Faults,      \* the indices that neither PRIMASK nor the NVIC holds back
  Configs,     \* what the modules may bring, see Config
  MaxRuns,     \* bound on the runs of a handler after a reset
  None         \* no handler runs

Module == 1 .. Modules
Irqs   == Begin .. End - 1

\* isrs: the list of the indices a module has handlers for, for each module.
\* enables: those a register list of a module enables in the NVIC; the lists of the
\* step "interrupt" and of the step "peripheryEnable" do such a thing.
\* profiled: the indices whose handlers the policy profiles, none in a plain Startup.
Config ==
  [isrs     : [Module -> Seq(Irqs)],
   enables  : [{"interrupt", "peripheryEnable"} -> [Module -> SUBSET (Irqs \ Faults)]],
   profiled : SUBSET Irqs]

ASSUME StartUpAssumption ==
  /\ Modules \in Nat \ {0} /\ MaxRuns \in Nat
  /\ Begin \in Int /\ End \in Int /\ Begin <= End
  /\ Faults \subseteq Irqs /\ None \notin Irqs
  /\ Configs \subseteq Config

VARIABLES
  config,     \* what the modules bring
  vectors,    \* nvicIsrVectors
  pc,         \* the step ResetISR() is at
  todo,       \* the modules that step has still to do
  primask,    \* whether the interrupts are off
  enabled, pending,   \* the NVIC
  running,    \* the index whose handler runs, or None
  memory,     \* static memory: "stale", the "image" of the program, or "constructed"
  counting,   \* whether the cycle counter is on
  recorded,   \* callCount of the statistics of each index
  done,       \* the steps each module has behind it since the reset
  ran         \* how often each handler returned since the reset

nvic    == <<pending, running>>
history == <<done, ran>>
rom     == <<config, vectors>>
vars    == <<rom, pc, todo, primask, enabled, nvic, memory, counting, recorded, history>>
-----------------------------------------------------------------------------
(* The vector table.                                                        *)

\* The flattened list of the modules' handlers, those of profiled indices wrapped.
IsrList(c) ==
  FlattenSeq([m \in Module |->
    [k \in DOMAIN c.isrs[m] |->
      [handler |-> m, index |-> c.isrs[m][k], wrapped |-> c.isrs[m][k] \in c.profiled]]])

UnusedIsr == [handler |-> 0, index |-> 0, wrapped |-> FALSE]

\* Mutant: the search starts one index late.
EntryShifted(list, i) ==
  LET found == {k \in DOMAIN list : list[k].index = i + 1}
  IN  IF found = {} THEN UnusedIsr ELSE list[CHOOSE k \in found : \A l \in found : k <= l]

\* The first of the list with index i.
Entry(list, i) ==
  LET found == {k \in DOMAIN list : list[k].index = i}
  IN  IF found = {} THEN UnusedIsr ELSE list[CHOOSE k \in found : \A l \in found : k <= l]

\* The words of the table; words 0 and 1 are the end of the stack and ResetISR.
Table(c) == [w \in 2 .. 1 + End - Begin |-> Entry(IsrList(c), w - 2 + Begin)]

\* What the core fetches for i: it numbers the words from the index behind reset.
Vector(i) == vectors[2 + i - Begin]
-----------------------------------------------------------------------------
(* ResetISR()                                                               *)

\* Mutant: interrupts are let in before the modules prepared for them.
AfterEnablesEarly ==
  [firstInit |-> "hook", hook |-> "earlyInit", earlyInit |-> "coreClock",
   coreClock |-> "initMemory", initMemory |-> "constructors",
   constructors |-> "peripheryClock", peripheryClock |-> "powerClock",
   powerClock |-> "pin", pin |-> "periphery", periphery |-> "interrupt",
   interrupt |-> "enableAll", enableAll |-> "preEnable",
   preEnable |-> "peripheryEnable", peripheryEnable |-> "runtime", runtime |-> "main"]

\* The step after each one.
After ==
  [firstInit |-> "hook", hook |-> "earlyInit", earlyInit |-> "coreClock",
   coreClock |-> "initMemory", initMemory |-> "constructors",
   constructors |-> "peripheryClock", peripheryClock |-> "powerClock",
   powerClock |-> "pin", pin |-> "periphery", periphery |-> "interrupt",
   interrupt |-> "preEnable", preEnable |-> "enableAll",
   enableAll |-> "peripheryEnable", peripheryEnable |-> "runtime", runtime |-> "main"]

\* The steps that apply the register lists of the modules, and those that call each.
ApplySteps == {"earlyInit", "powerClock", "pin", "periphery", "interrupt", "peripheryEnable"}
CallSteps  == {"preEnable", "runtime"}
Steps      == DOMAIN After \cup {"main"}

\* What a handler may rely on.
BeforeInterrupts ==
  {"earlyInit", "powerClock", "pin", "periphery", "interrupt", "preEnable"}

Init ==
  /\ config \in Configs /\ vectors = Table(config)
  /\ pc = "firstInit" /\ todo = Module
  /\ primask = FALSE /\ enabled = {} /\ pending = {} /\ running = None
  /\ memory = "stale" /\ counting = FALSE
  /\ recorded \in [Irqs -> 0 .. MaxRuns]
  /\ done = [m \in Module |-> {}] /\ ran = [i \in Irqs |-> 0]

\* ResetISR() runs when no handler does.
AtStep(s) == pc = s /\ running = None

Continue ==
  /\ pc' = After[pc] /\ todo' = Module
  /\ UNCHANGED <<rom, nvic, ran>>

\* The core's first step switches the interrupts off.
FirstInitStep ==
  /\ AtStep("firstInit")
  /\ primask' = TRUE
  /\ Continue
  /\ UNCHANGED <<enabled, memory, counting, recorded, done>>

\* EnableTimeSourceHook, or NoOpStartupHook where nothing is profiled.
Hook ==
  /\ AtStep("hook")
  /\ counting' = (config.profiled # {})
  /\ Continue
  /\ UNCHANGED <<primask, enabled, memory, recorded, done>>

\* coreClockInit() and peripheryClockInit()
Clocks ==
  /\ AtStep("coreClock") \/ AtStep("peripheryClock")
  /\ Continue
  /\ UNCHANGED <<primask, enabled, memory, counting, recorded, done>>

\* Mutant: zeroed memory is forgotten.
InitMemoryDataOnly ==
  /\ AtStep("initMemory")
  /\ memory' = "image"
  /\ Continue
  /\ UNCHANGED <<primask, enabled, counting, recorded, done>>

InitMemory ==
  /\ AtStep("initMemory")
  /\ memory' = "image" /\ recorded' = [i \in Irqs |-> 0]
  /\ Continue
  /\ UNCHANGED <<primask, enabled, counting, done>>

CallGlobalConstructors ==
  /\ AtStep("constructors")
  /\ memory' = "constructed"
  /\ Continue
  /\ UNCHANGED <<primask, enabled, counting, recorded, done>>

\* Module m is done with the present step, which ends with the last.
Finished(m) ==
  /\ done' = [done EXCEPT ![m] = @ \cup {pc}]
  /\ IF todo = {m} THEN pc' = After[pc] /\ todo' = Module
                   ELSE pc' = pc /\ todo' = todo \ {m}

\* apply() of the modules' lists: it sorts them, so the modules come in any order.
ApplyInit(m) ==
  /\ pc \in ApplySteps /\ AtStep(pc) /\ m \in todo
  /\ enabled' = enabled \cup
       (IF pc \in DOMAIN config.enables THEN config.enables[pc][m] ELSE {})
  /\ Finished(m)
  /\ UNCHANGED <<rom, primask, nvic, memory, counting, recorded, ran>>

\* callPreEnableRuntimeInits() and callRuntimeInits(), in the order of the modules.
CallInit(m) ==
  /\ pc \in CallSteps /\ AtStep(pc) /\ m \in todo /\ \A n \in todo : m <= n
  /\ Finished(m)
  /\ UNCHANGED <<rom, primask, enabled, nvic, memory, counting, recorded, ran>>

EnableAll ==
  /\ AtStep("enableAll")
  /\ primask' = FALSE
  /\ Continue
  /\ UNCHANGED <<enabled, memory, counting, recorded, done>>
-----------------------------------------------------------------------------
(* Interrupts, faults and resets.                                           *)

reset == <<rom, pc, todo, primask, enabled, memory, counting, done>>

Raise(i) ==
  /\ i \notin Faults /\ pending' = pending \cup {i}
  /\ UNCHANGED <<reset, running, recorded, ran>>

Take(i) ==
  /\ ~primask /\ i \in pending \cap enabled /\ running = None
  /\ ran[i] < MaxRuns
  /\ running' = i /\ pending' = pending \ {i}
  /\ UNCHANGED <<reset, recorded, ran>>

\* A fault interrupts everything but another one.
Fault(i) ==
  /\ i \in Faults /\ running \notin Faults
  /\ running' = i
  /\ UNCHANGED <<reset, pending, recorded, ran>>

\* A handler returns, the wrapper of a profiled one records it; neither the handler of
\* a fault nor onIsr of an unused index ever does.
Return ==
  /\ running \in Irqs \ Faults /\ Vector(running) # UnusedIsr
  /\ running' = None
  /\ ran' = [ran EXCEPT ![running] = @ + 1]
  /\ recorded' = IF Vector(running).wrapped
                   THEN [recorded EXCEPT ![Vector(running).index] = @ + 1]
                   ELSE recorded
  /\ UNCHANGED <<reset, pending>>

\* A reset takes the core to the first step, with the reset values of its registers.
Reset ==
  /\ pc' = "firstInit" /\ todo' = Module
  /\ primask' = FALSE /\ enabled' = {} /\ pending' = {} /\ running' = None
  /\ memory' = "stale" /\ counting' = FALSE
  /\ done' = [m \in Module |-> {}] /\ ran' = [i \in Irqs |-> 0]
  /\ UNCHANGED <<rom, recorded>>

Boot ==
  \/ FirstInitStep \/ Hook \/ Clocks \/ InitMemory \/ CallGlobalConstructors \/ EnableAll
  \/ \E m \in Module : ApplyInit(m) \/ CallInit(m)

Next ==
  \/ Boot
  \/ \E i \in Irqs : Raise(i) \/ Take(i) \/ Fault(i)
  \/ Return
  \/ Reset

Spec == Init /\ [][Next]_vars
-----------------------------------------------------------------------------
\* Types of the state; ResetISR() always has a module to go on with.
TypeOK ==
  /\ config \in Config
  /\ pc \in Steps /\ todo \in (SUBSET Module) \ {{}}
  /\ primask \in BOOLEAN
  /\ enabled \subseteq Irqs \ Faults /\ pending \subseteq Irqs \ Faults
  /\ running \in Irqs \cup {None}
  /\ memory \in {"stale", "image", "constructed"} /\ counting \in BOOLEAN
  /\ recorded \in [Irqs -> Nat]
  /\ done \in [Module -> SUBSET Steps]
  /\ ran \in [Irqs -> Nat]

\* A handler that runs finds memory set up and every module configured and prepared,
\* however early its interrupt was raised and enabled.
HandlersFindAllSet ==
  running \in Irqs \ Faults =>
    /\ memory = "constructed"
    /\ \A m \in Module : BeforeInterrupts \subseteq done[m]

\* Every index a module enables has a handler of that module, and of no other.
Handled(c) ==
  /\ \A m \in Module : \A s \in DOMAIN c.enables : \A i \in c.enables[s][m] :
       \E k \in DOMAIN c.isrs[m] : c.isrs[m][k] = i
  /\ \A m, n \in Module : \A k \in DOMAIN c.isrs[m] : \A l \in DOMAIN c.isrs[n] :
       c.isrs[m][k] = c.isrs[n][l] => m = n

\* An interrupt a module enabled reaches the handler of that module.
OwnHandler ==
  \A m \in Module : \A s \in DOMAIN config.enables :
    running \in config.enables[s][m] => Vector(running).handler = m

\* From the first constructor on, the statistics count the runs since the last reset,
\* whatever memory held before, and the cycle counter is on when a profiled handler
\* runs: "Must be called once before any ISR fires" (StartUp/IsrProfiler.hpp:106).
Counted ==
  memory = "constructed" =>
    /\ \A i \in Irqs : recorded[i] = IF Vector(i).wrapped THEN ran[i] ELSE 0
    /\ running # None /\ Vector(running).wrapped => counting
=============================================================================
