--------------------------- MODULE StartUpProofs ----------------------------
(***************************************************************************)
(* Proofs about StartUp, for any modules and handlers: its types, that     *)
(* handlers run only on a system that is set up, that each enabled         *)
(* interrupt reaches its own handler, and that the profile counts.         *)
(***************************************************************************)
EXTENDS StartUp, ListProofs

\* How many steps ResetISR() made before each one.
Rank ==
  [firstInit |-> 0, hook |-> 1, earlyInit |-> 2, coreClock |-> 3, initMemory |-> 4,
   constructors |-> 5, peripheryClock |-> 6, powerClock |-> 7, pin |-> 8,
   periphery |-> 9, interrupt |-> 10, preEnable |-> 11, enableAll |-> 12,
   peripheryEnable |-> 13, runtime |-> 14, main |-> 15]

\* Until enableAll the interrupts are off, or none is enabled yet.
Masked ==
  /\ Rank[pc] = 0 => enabled = {}
  /\ Rank[pc] \in 1 .. 12 => primask

\* Memory is set up behind the step that does it.
MemorySet == Rank[pc] > 5 => memory = "constructed"

\* What is behind ResetISR() is behind each module.
DoneBehind ==
  \A s \in ApplySteps \cup CallSteps : \A m \in Module :
    Rank[s] < Rank[pc] \/ (s = pc /\ m \notin todo) => s \in done[m]

\* A handler runs only behind enableAll.
RunsBehind == running \in Irqs \ Faults => Rank[pc] > 12

IInv == TypeOK /\ Masked /\ MemorySet /\ DoneBehind /\ RunsBehind

\* The steps come in the order of their ranks.
LEMMA AfterRank ==
  ASSUME NEW s \in DOMAIN After
  PROVE  After[s] \in Steps /\ Rank[After[s]] = Rank[s] + 1
BY DEF After, Steps, Rank

LEMMA RankType ==
  ASSUME NEW s \in Steps
  PROVE  Rank[s] \in 0 .. 15
BY DEF After, Steps, Rank

LEMMA RankDistinct ==
  ASSUME NEW s \in Steps, NEW t \in Steps, Rank[s] = Rank[t]
  PROVE  s = t
BY DEF After, Steps, Rank

\* The ranks that the steps of ResetISR() name.
LEMMA NamedRanks ==
  /\ Rank["firstInit"] = 0 /\ Rank["hook"] = 1 /\ Rank["coreClock"] = 3
  /\ Rank["initMemory"] = 4 /\ Rank["constructors"] = 5 /\ Rank["peripheryClock"] = 6
  /\ Rank["enableAll"] = 12
  /\ \A s \in ApplySteps \cup CallSteps : s \in DOMAIN After /\ Rank[s] > 0 /\ Rank[s] # 5
  /\ \A s \in ApplySteps \cup CallSteps : Rank[s] # 12
  /\ \A s \in {"firstInit", "hook", "coreClock", "initMemory", "constructors",
              "peripheryClock", "enableAll"} :
       s \in DOMAIN After /\ s \notin ApplySteps \cup CallSteps
  /\ \A s \in BeforeInterrupts : s \in ApplySteps \cup CallSteps /\ Rank[s] < 12
BY DEF Rank, After, ApplySteps, CallSteps, BeforeInterrupts

LEMMA InitIInv == Init => IInv
<1> SUFFICES ASSUME Init PROVE IInv
  OBVIOUS
<1>1. Rank[pc] = 0 /\ pc \in Steps
  BY NamedRanks DEF Init, Steps, After
<1>2. TypeOK
  <2>1. config \in Config
    BY StartUpAssumption DEF Init
  <2>2. todo \in (SUBSET Module) \ {{}}
    BY StartUpAssumption DEF Init, Module
  <2>3. recorded \in [Irqs -> Nat]
    BY StartUpAssumption DEF Init
  <2>4. done \in [Module -> SUBSET Steps] /\ ran \in [Irqs -> Nat]
    BY StartUpAssumption DEF Init
  <2>5. enabled = {} /\ pending = {} /\ running = None /\ primask = FALSE
        /\ memory = "stale" /\ counting = FALSE
    BY DEF Init
  <2> QED BY <1>1, <2>1, <2>2, <2>3, <2>4, <2>5 DEF TypeOK
<1>3. Masked /\ MemorySet
  BY <1>1 DEF Init, Masked, MemorySet
<1>4. DoneBehind
  <2> SUFFICES ASSUME NEW s \in ApplySteps \cup CallSteps, NEW m \in Module,
                      Rank[s] < Rank[pc] \/ (s = pc /\ m \notin todo)
               PROVE  FALSE
    BY DEF DoneBehind
  <2>1. Rank[s] \in Nat /\ s # "firstInit"
    BY NamedRanks, RankType DEF Steps
  <2> QED BY <1>1, <2>1 DEF Init
<1>5. RunsBehind
  BY StartUpAssumption DEF Init, RunsBehind
<1> QED BY <1>2, <1>3, <1>4, <1>5 DEF IInv

\* A step of ResetISR() that is not about the modules, and what it leaves to prove.
LEMMA ContinueKeeps ==
  ASSUME IInv, Continue, running = None, UNCHANGED done,
         pc \in {"firstInit", "hook", "coreClock", "initMemory", "constructors",
                "peripheryClock", "enableAll"}
  PROVE  /\ pc' \in Steps /\ todo' \in (SUBSET Module) \ {{}}
         /\ Rank[pc'] = Rank[pc] + 1 /\ DoneBehind' /\ RunsBehind'
<1>1. pc \in DOMAIN After /\ pc \notin ApplySteps \cup CallSteps
  BY NamedRanks
<1>2. pc' \in Steps /\ Rank[pc'] = Rank[pc] + 1
  BY <1>1, AfterRank DEF Continue
<1>3. todo' \in (SUBSET Module) \ {{}}
  BY StartUpAssumption DEF Continue, Module
<1>4. DoneBehind'
  <2> SUFFICES ASSUME NEW s \in ApplySteps \cup CallSteps, NEW m \in Module,
                      Rank[s] < Rank[pc'] \/ (s = pc' /\ m \notin todo')
               PROVE  s \in done[m]
    BY DEF DoneBehind
  <2>1. s \in Steps /\ pc \in Steps /\ s # pc
    BY <1>1, NamedRanks DEF Steps
  <2>2. Rank[s] < Rank[pc] + 1
    BY <1>2 DEF Continue
  <2>3. Rank[s] \in Nat /\ Rank[pc] \in Nat /\ Rank[s] # Rank[pc]
    BY <2>1, RankType, RankDistinct
  <2>4. Rank[s] < Rank[pc]
    BY <2>2, <2>3
  <2> QED BY <2>4 DEF IInv, DoneBehind
<1>5. RunsBehind'
  BY StartUpAssumption DEF Continue, nvic, RunsBehind
<1> QED BY <1>2, <1>3, <1>4, <1>5

\* A module that finishes a step of its own.
LEMMA FinishedKeeps ==
  ASSUME IInv, NEW m \in Module, m \in todo, Finished(m), running = None, UNCHANGED nvic,
         pc \in ApplySteps \cup CallSteps
  PROVE  /\ pc' \in Steps /\ todo' \in (SUBSET Module) \ {{}}
         /\ Rank[pc'] \in {Rank[pc], Rank[pc] + 1}
         /\ done' \in [Module -> SUBSET Steps] /\ DoneBehind' /\ RunsBehind'
<1>1. pc \in DOMAIN After /\ pc \in Steps /\ todo \in SUBSET Module
  BY NamedRanks DEF Steps, IInv, TypeOK
<1>2. pc' \in Steps /\ Rank[pc'] \in {Rank[pc], Rank[pc] + 1}
  BY <1>1, AfterRank DEF Finished
<1>3. todo' \in (SUBSET Module) \ {{}}
  BY <1>1 DEF Finished
<1>4. /\ done' \in [Module -> SUBSET Steps]
      /\ \A n \in Module : done[n] \subseteq done'[n]
      /\ pc \in done'[m]
  BY <1>1 DEF Finished, IInv, TypeOK
<1>5. DoneBehind'
  <2> SUFFICES ASSUME NEW s \in ApplySteps \cup CallSteps, NEW n \in Module,
                      Rank[s] < Rank[pc'] \/ (s = pc' /\ n \notin todo')
               PROVE  s \in done'[n]
    BY DEF DoneBehind
  <2>1. s \in Steps /\ Rank[s] \in Nat /\ Rank[pc] \in Nat
    BY <1>1, NamedRanks, RankType DEF Steps
  <2>2. CASE Rank[s] < Rank[pc]
    BY <2>2, <1>4 DEF IInv, DoneBehind
  <2>3. CASE s = pc /\ n \notin todo
    BY <2>3, <1>4 DEF IInv, DoneBehind
  <2>4. CASE s = pc /\ n = m
    BY <2>4, <1>4
  <2>5. Rank[s] < Rank[pc] \/ (s = pc /\ (n \notin todo \/ n = m))
    <3>1. CASE todo = {m}
      <4>1. Rank[pc'] = Rank[pc] + 1 /\ todo' = Module
        BY <3>1, <1>1, AfterRank DEF Finished
      <4>2. Rank[s] <= Rank[pc]
        BY <4>1, <2>1
      <4> QED BY <4>2, <3>1, <2>1, <1>1, RankDistinct
    <3>2. CASE todo # {m}
      BY <3>2, <2>1 DEF Finished
    <3> QED BY <3>1, <3>2
  <2> QED BY <2>2, <2>3, <2>4, <2>5
<1>6. RunsBehind'
  BY StartUpAssumption DEF nvic, RunsBehind
<1> QED BY <1>2, <1>3, <1>4, <1>5, <1>6

LEMMA NextIInv == IInv /\ [Next]_vars => IInv'
<1> SUFFICES ASSUME IInv, [Next]_vars PROVE IInv'
  OBVIOUS
<1> USE DEF AtStep
<1>0. TypeOK /\ pc \in Steps /\ Rank[pc] \in Nat
  BY RankType DEF IInv, TypeOK
<1>1. CASE FirstInitStep
  <2>1. Rank[pc] = 0 /\ Rank[pc'] = 1
    BY <1>1, ContinueKeeps, NamedRanks DEF FirstInitStep
  <2>2. TypeOK'
    BY <1>0, <1>1, ContinueKeeps DEF FirstInitStep, Continue, TypeOK, rom, nvic
  <2>3. Masked' /\ MemorySet' /\ DoneBehind' /\ RunsBehind'
    BY <1>1, <2>1, ContinueKeeps DEF FirstInitStep, Masked, MemorySet
  <2> QED BY <2>2, <2>3 DEF IInv
<1>2. CASE Hook
  <2>1. Rank[pc] = 1 /\ Rank[pc'] = 2
    BY <1>2, ContinueKeeps, NamedRanks DEF Hook
  <2>2. TypeOK'
    BY <1>0, <1>2, ContinueKeeps DEF Hook, Continue, TypeOK, rom, nvic
  <2>3. Masked' /\ MemorySet' /\ DoneBehind' /\ RunsBehind'
    BY <1>2, <2>1, ContinueKeeps DEF Hook, IInv, Masked, MemorySet
  <2> QED BY <2>2, <2>3 DEF IInv
<1>3. CASE Clocks
  <2>1. \/ Rank[pc] = 3 /\ Rank[pc'] = 4
        \/ Rank[pc] = 6 /\ Rank[pc'] = 7
    BY <1>3, ContinueKeeps, NamedRanks DEF Clocks
  <2>2. TypeOK'
    BY <1>0, <1>3, ContinueKeeps DEF Clocks, Continue, TypeOK, rom, nvic
  <2>3. Masked' /\ MemorySet' /\ DoneBehind' /\ RunsBehind'
    BY <1>3, <2>1, ContinueKeeps DEF Clocks, IInv, Masked, MemorySet
  <2> QED BY <2>2, <2>3 DEF IInv
<1>4. CASE InitMemory
  <2>1. Rank[pc] = 4 /\ Rank[pc'] = 5
    BY <1>4, ContinueKeeps, NamedRanks DEF InitMemory
  <2>2. TypeOK'
    BY <1>0, <1>4, ContinueKeeps DEF InitMemory, Continue, TypeOK, rom, nvic
  <2>3. Masked' /\ MemorySet' /\ DoneBehind' /\ RunsBehind'
    BY <1>4, <2>1, ContinueKeeps DEF InitMemory, IInv, Masked, MemorySet
  <2> QED BY <2>2, <2>3 DEF IInv
<1>5. CASE CallGlobalConstructors
  <2>1. Rank[pc] = 5 /\ Rank[pc'] = 6
    BY <1>5, ContinueKeeps, NamedRanks DEF CallGlobalConstructors
  <2>2. TypeOK'
    BY <1>0, <1>5, ContinueKeeps DEF CallGlobalConstructors, Continue, TypeOK, rom, nvic
  <2>3. Masked' /\ MemorySet' /\ DoneBehind' /\ RunsBehind'
    BY <1>5, <2>1, ContinueKeeps DEF CallGlobalConstructors, IInv, Masked, MemorySet
  <2> QED BY <2>2, <2>3 DEF IInv
<1>6. CASE EnableAll
  <2>1. Rank[pc] = 12 /\ Rank[pc'] = 13
    BY <1>6, ContinueKeeps, NamedRanks DEF EnableAll
  <2>2. TypeOK'
    BY <1>0, <1>6, ContinueKeeps DEF EnableAll, Continue, TypeOK, rom, nvic
  <2>3. Masked' /\ MemorySet' /\ DoneBehind' /\ RunsBehind'
    BY <1>6, <2>1, ContinueKeeps DEF EnableAll, IInv, Masked, MemorySet
  <2> QED BY <2>2, <2>3 DEF IInv
<1>7. ASSUME NEW m \in Module, ApplyInit(m)
      PROVE  IInv'
  <2>1. /\ pc' \in Steps /\ todo' \in (SUBSET Module) \ {{}}
        /\ Rank[pc'] \in {Rank[pc], Rank[pc] + 1}
        /\ done' \in [Module -> SUBSET Steps] /\ DoneBehind' /\ RunsBehind'
    BY <1>7, FinishedKeeps DEF ApplyInit
  <2>2. Rank[pc] > 0 /\ Rank[pc] # 5 /\ Rank[pc] # 12
    BY <1>7, NamedRanks DEF ApplyInit
  <2>3. enabled' \subseteq Irqs \ Faults
    <3>1. config.enables \in
            [{"interrupt", "peripheryEnable"} -> [Module -> SUBSET (Irqs \ Faults)]]
      BY <1>0 DEF TypeOK, Config
    <3> QED BY <1>0, <1>7, <3>1 DEF ApplyInit, TypeOK
  <2>4. TypeOK'
    BY <1>0, <1>7, <2>1, <2>3 DEF ApplyInit, TypeOK, rom, nvic
  <2>5. Masked' /\ MemorySet'
    BY <1>0, <1>7, <2>1, <2>2 DEF ApplyInit, IInv, Masked, MemorySet
  <2> QED BY <2>1, <2>4, <2>5 DEF IInv
<1>8. ASSUME NEW m \in Module, CallInit(m)
      PROVE  IInv'
  <2>1. /\ pc' \in Steps /\ todo' \in (SUBSET Module) \ {{}}
        /\ Rank[pc'] \in {Rank[pc], Rank[pc] + 1}
        /\ done' \in [Module -> SUBSET Steps] /\ DoneBehind' /\ RunsBehind'
    BY <1>8, FinishedKeeps DEF CallInit
  <2>2. Rank[pc] > 0 /\ Rank[pc] # 5 /\ Rank[pc] # 12
    BY <1>8, NamedRanks DEF CallInit
  <2>3. TypeOK'
    BY <1>0, <1>8, <2>1 DEF CallInit, TypeOK, rom, nvic
  <2>4. Masked' /\ MemorySet'
    BY <1>0, <1>8, <2>1, <2>2 DEF CallInit, IInv, Masked, MemorySet
  <2> QED BY <2>1, <2>3, <2>4 DEF IInv
<1>9. ASSUME NEW i \in Irqs, Raise(i) \/ Take(i) \/ Fault(i)
      PROVE  IInv'
  <2>1. UNCHANGED <<reset, recorded, ran>>
    BY <1>9 DEF Raise, Take, Fault
  <2>2. TypeOK'
    <3>1. pending' \subseteq Irqs \ Faults /\ running' \in Irqs \cup {None}
      BY <1>0, <1>9 DEF Raise, Take, Fault, TypeOK
    <3> QED BY <1>0, <2>1, <3>1 DEF TypeOK, reset, rom
  <2>3. Masked' /\ MemorySet' /\ DoneBehind'
    BY <2>1 DEF reset, IInv, Masked, MemorySet, DoneBehind
  <2>4. RunsBehind'
    <3>1. CASE Raise(i) \/ Fault(i)
      BY <2>1, <3>1 DEF Raise, Fault, reset, IInv, RunsBehind
    <3>2. CASE Take(i)
      <4>1. Rank[pc] \notin 0 .. 12
        BY <1>0, <3>2 DEF Take, IInv, Masked
      <4> QED BY <1>0, <2>1, <4>1 DEF reset, RunsBehind
    <3> QED BY <1>9, <3>1, <3>2
  <2> QED BY <2>2, <2>3, <2>4 DEF IInv
<1>10. CASE Return
  <2>1. TypeOK'
    <3>1. ran' \in [Irqs -> Nat]
      BY <1>0, <1>10 DEF Return, TypeOK
    <3>2. recorded' \in [Irqs -> Nat]
      <4> DEFINE index == Vector(running).index
      <4>1. recorded' = recorded \/ recorded' = [recorded EXCEPT ![index] = @ + 1]
        BY <1>10 DEF Return
      <4> HIDE DEF index
      <4> QED BY <1>0, <4>1 DEF TypeOK
    <3> QED BY <1>0, <1>10, <3>1, <3>2 DEF Return, TypeOK, reset, rom
  <2>2. Masked' /\ MemorySet' /\ DoneBehind' /\ RunsBehind'
    BY <1>10, StartUpAssumption
    DEF Return, reset, IInv, Masked, MemorySet, DoneBehind, RunsBehind
  <2> QED BY <2>1, <2>2 DEF IInv
<1>11. CASE Reset
  <2>1. pc' \in Steps /\ Rank[pc'] = 0
    BY <1>11, NamedRanks DEF Reset, Steps
  <2>2. TypeOK'
    <3>1. todo' \in (SUBSET Module) \ {{}}
      BY <1>11, StartUpAssumption DEF Reset, Module
    <3>2. done' \in [Module -> SUBSET Steps] /\ ran' \in [Irqs -> Nat]
      BY <1>11, StartUpAssumption DEF Reset
    <3>3. /\ enabled' = {} /\ pending' = {} /\ running' = None /\ primask' = FALSE
          /\ memory' = "stale" /\ counting' = FALSE
          /\ config' = config /\ recorded' = recorded
      BY <1>11 DEF Reset, rom
    <3> QED BY <1>0, <2>1, <3>1, <3>2, <3>3 DEF TypeOK
  <2>3. Masked' /\ MemorySet'
    BY <1>11, <2>1 DEF Reset, Masked, MemorySet
  <2>4. DoneBehind'
    <3> SUFFICES ASSUME NEW s \in ApplySteps \cup CallSteps, NEW m \in Module,
                        Rank[s] < Rank[pc'] \/ (s = pc' /\ m \notin todo')
                 PROVE  FALSE
      BY DEF DoneBehind
    <3>1. Rank[s] \in Nat /\ s # "firstInit"
      BY NamedRanks, RankType DEF Steps
    <3> QED BY <1>11, <2>1, <3>1 DEF Reset
  <2>5. RunsBehind'
    BY <1>11, StartUpAssumption DEF Reset, RunsBehind
  <2> QED BY <2>2, <2>3, <2>4, <2>5 DEF IInv
<1>12. CASE UNCHANGED vars
  BY <1>12 DEF vars, rom, nvic, history, IInv, TypeOK, Masked, MemorySet, DoneBehind, RunsBehind
<1> QED
  BY <1>1, <1>2, <1>3, <1>4, <1>5, <1>6, <1>7, <1>8, <1>9, <1>10, <1>11, <1>12
  DEF Next, Boot

\* Behind enableAll every step before it is done by every module.
LEMMA IInvFindAllSet == IInv => HandlersFindAllSet
<1> SUFFICES ASSUME IInv, running \in Irqs \ Faults
             PROVE  /\ memory = "constructed"
                    /\ \A m \in Module : BeforeInterrupts \subseteq done[m]
  BY DEF HandlersFindAllSet
<1>1. Rank[pc] > 12 /\ Rank[pc] \in Nat
  BY RankType DEF IInv, RunsBehind, TypeOK
<1>2. memory = "constructed"
  BY <1>1 DEF IInv, MemorySet
<1>3. ASSUME NEW m \in Module, NEW s \in BeforeInterrupts
      PROVE  s \in done[m]
  <2>1. s \in ApplySteps \cup CallSteps /\ Rank[s] < 12
    BY NamedRanks
  <2>2. Rank[s] \in Nat
    BY <2>1, NamedRanks, RankType DEF Steps
  <2>3. Rank[s] < Rank[pc]
    BY <1>1, <2>1, <2>2
  <2> QED BY <2>1, <2>3 DEF IInv, DoneBehind
<1> QED BY <1>2, <1>3

LEMMA Invariance == Spec => []IInv
BY InitIInv, NextIInv, PTL DEF Spec

\* Types, for any modules, handlers and faults.
THEOREM TypeCorrect == Spec => []TypeOK
<1>1. IInv => TypeOK
  BY DEF IInv
<1> QED BY <1>1, Invariance, PTL

\* ResetISR() lets no handler run before memory, every register list and every
\* preEnableRuntimeInit() are done, whatever is raised, fails or resets when.
THEOREM StartUpSafe == Spec => []HandlersFindAllSet
BY IInvFindAllSet, Invariance, PTL
-----------------------------------------------------------------------------
\* What a list of handlers says of its wrappers.
HandlerEntry(c, e) ==
  \E m \in Module : \E k \in DOMAIN c.isrs[m] :
    e = [handler |-> m, index |-> c.isrs[m][k], wrapped |-> c.isrs[m][k] \in c.profiled]

LEMMA IsrListIs ==
  ASSUME NEW c \in Config
  PROVE  /\ DOMAIN IsrList(c) = 1 .. Len(IsrList(c)) /\ Len(IsrList(c)) \in Nat
         /\ \A j \in DOMAIN IsrList(c) : HandlerEntry(c, IsrList(c)[j])
         /\ \A m \in Module : \A k \in DOMAIN c.isrs[m] : \E j \in DOMAIN IsrList(c) :
              IsrList(c)[j].handler = m /\ IsrList(c)[j].index = c.isrs[m][k]
<1> DEFINE X == [handler : Module, index : Irqs, wrapped : BOOLEAN]
           ss == [m \in Module |-> [k \in DOMAIN c.isrs[m] |->
                   [handler |-> m, index |-> c.isrs[m][k], wrapped |-> c.isrs[m][k] \in c.profiled]]]
<1>1. \A m \in Module : c.isrs[m] \in Seq(Irqs)
  BY DEF Config
<1>2. ASSUME NEW m \in Module
      PROVE  ss[m] \in Seq(X) /\ Len(ss[m]) = Len(c.isrs[m]) /\ DOMAIN c.isrs[m] = 1 .. Len(ss[m])
  <2>1. DOMAIN c.isrs[m] = 1 .. Len(c.isrs[m]) /\ Len(c.isrs[m]) \in Nat
        /\ \A k \in 1 .. Len(c.isrs[m]) : c.isrs[m][k] \in Irqs
    BY <1>1
  <2>2. ss[m] = [k \in 1 .. Len(c.isrs[m]) |->
                   [handler |-> m, index |-> c.isrs[m][k], wrapped |-> c.isrs[m][k] \in c.profiled]]
    BY <2>1
  <2> HIDE DEF ss
  <2>3. \A k \in 1 .. Len(c.isrs[m]) :
          [handler |-> m, index |-> c.isrs[m][k], wrapped |-> c.isrs[m][k] \in c.profiled] \in X
    BY <2>1
  <2> HIDE DEF X
  <2> QED BY <2>1, <2>2, <2>3
<1>3. ss \in Seq(Seq(X)) /\ Len(ss) = Modules /\ FlattenSeq(ss) = IsrList(c)
  <2>1. ss = [m \in 1 .. Modules |-> ss[m]] /\ Modules \in Nat
    BY StartUpAssumption DEF Module
  <2>2. \A m \in 1 .. Modules : ss[m] \in Seq(X)
    BY <1>2 DEF Module
  <2>3. FlattenSeq(ss) = IsrList(c)
    BY DEF IsrList
  <2> HIDE DEF ss, X
  <2> QED BY <2>1, <2>2, <2>3
<1>4. \A m \in Module : \A k \in DOMAIN c.isrs[m] :
        k \in 1 .. Len(ss[m]) /\
        ss[m][k] = [handler |-> m, index |-> c.isrs[m][k], wrapped |-> c.isrs[m][k] \in c.profiled]
  BY <1>2
<1>6. \A m \in Module : \A k \in 1 .. Len(ss[m]) : k \in DOMAIN c.isrs[m]
  BY <1>2
<1>10. /\ IsrList(c) \in Seq(X)
       /\ \A j \in 1 .. Len(IsrList(c)) :
            \E i \in Module : \E k \in 1 .. Len(ss[i]) : IsrList(c)[j] = ss[i][k]
       /\ \A i \in Module : \A k \in 1 .. Len(ss[i]) :
            \E j \in 1 .. Len(IsrList(c)) : IsrList(c)[j] = ss[i][k]
  <2> HIDE DEF ss, X
  <2>1. 1 .. Len(ss) = Module
    BY <1>3 DEF Module
  <2>2. IsrList(c) \in Seq(X) /\ Gathers(IsrList(c), ss)
    BY <1>3, FlattenedElements
  <2> QED BY <2>1, <2>2 DEF Gathers
<1> HIDE DEF ss, X
<1>7. DOMAIN IsrList(c) = 1 .. Len(IsrList(c)) /\ Len(IsrList(c)) \in Nat
  BY <1>10
<1>8. ASSUME NEW j \in DOMAIN IsrList(c) PROVE HandlerEntry(c, IsrList(c)[j])
  <2>1. PICK i \in Module : \E k \in 1 .. Len(ss[i]) : IsrList(c)[j] = ss[i][k]
    BY <1>7, <1>10, Zenon
  <2>2. PICK k \in 1 .. Len(ss[i]) : IsrList(c)[j] = ss[i][k]
    BY <2>1
  <2> QED BY <1>4, <1>6, <2>2 DEF HandlerEntry
<1>9. ASSUME NEW m \in Module, NEW k \in DOMAIN c.isrs[m]
      PROVE  \E j \in DOMAIN IsrList(c) :
               IsrList(c)[j].handler = m /\ IsrList(c)[j].index = c.isrs[m][k]
  <2>1. PICK j \in DOMAIN IsrList(c) : IsrList(c)[j] = ss[m][k]
    <3>1. k \in 1 .. Len(ss[m])
      BY <1>4, Zenon
    <3> QED BY <1>7, <1>10, <3>1, Zenon
  <2>2. ss[m][k].handler = m /\ ss[m][k].index = c.isrs[m][k]
    <3>1. ss[m][k] = [handler |-> m, index |-> c.isrs[m][k], wrapped |-> c.isrs[m][k] \in c.profiled]
      BY <1>4, Zenon
    <3> QED BY <3>1
  <2> QED BY <2>1, <2>2
<1> QED BY <1>7, <1>8, <1>9

\* The table's word for an index is the first handler for it, or onIsr of none.
LEMMA EntryIs ==
  ASSUME NEW c \in Config, NEW i \in Irqs
  PROVE  \/ /\ Entry(IsrList(c), i) = UnusedIsr
            /\ \A m \in Module : \A k \in DOMAIN c.isrs[m] : c.isrs[m][k] # i
         \/ /\ HandlerEntry(c, Entry(IsrList(c), i))
            /\ Entry(IsrList(c), i).index = i
<1> DEFINE list  == IsrList(c)
           found == {k \in DOMAIN list : list[k].index = i}
<1>1. CASE found = {}
  <2>1. Entry(list, i) = UnusedIsr
    BY <1>1 DEF Entry
  <2>2. \A m \in Module : \A k \in DOMAIN c.isrs[m] : c.isrs[m][k] # i
    BY <1>1, IsrListIs
  <2> QED BY <2>1, <2>2
<1>2. CASE found # {}
  <2>1. \E k \in found : \A l \in found : k <= l
    <3>1. found \in SUBSET Nat
      BY IsrListIs
    <3> HIDE DEF found
    <3> QED BY <1>2, <3>1, LeastElement
  <2> DEFINE k == CHOOSE k \in found : \A l \in found : k <= l
  <2>2. k \in found
    <3> HIDE DEF found
    <3> QED BY <2>1, Zenon
  <2>3. Entry(list, i) = list[k]
    BY <1>2 DEF Entry
  <2> HIDE DEF k
  <2>4. k \in DOMAIN list /\ list[k].index = i
    BY <2>2
  <2> HIDE DEF found
  <2> QED BY <2>3, <2>4, IsrListIs
<1> QED BY <1>1, <1>2

\* What the core fetches.
VectorsSet == vectors = Table(config) /\ config \in Configs

LEMMA VectorIs ==
  ASSUME VectorsSet, NEW i \in Irqs
  PROVE  Vector(i) = Entry(IsrList(config), i) /\ config \in Config
<1>1. 2 + i - Begin \in 2 .. 1 + End - Begin /\ (2 + i - Begin) - 2 + Begin = i
  BY StartUpAssumption DEF Irqs
<1>2. Vector(i) = Table(config)[2 + i - Begin]
  BY DEF Vector, VectorsSet
<1>3. Table(config)[2 + i - Begin] = Entry(IsrList(config), (2 + i - Begin) - 2 + Begin)
  BY <1>1 DEF Table
<1>4. config \in Config
  BY StartUpAssumption DEF VectorsSet
<1> QED BY <1>1, <1>2, <1>3, <1>4

LEMMA VectorsStay == Spec => []VectorsSet
<1>1. Init => VectorsSet
  BY DEF Init, VectorsSet
<1>2. VectorsSet /\ [Next]_vars => VectorsSet'
  <2> SUFFICES ASSUME VectorsSet, [Next]_vars PROVE VectorsSet'
    OBVIOUS
  <2>1. UNCHANGED rom
    BY DEF Next, Boot, FirstInitStep, Hook, Clocks, InitMemory, CallGlobalConstructors, EnableAll,
           ApplyInit, CallInit, Raise, Take, Fault, Return, Reset, Continue, reset, vars
  <2> QED BY <2>1 DEF rom, VectorsSet
<1> QED BY <1>1, <1>2, PTL DEF Spec

\* The table leads every interrupt a module enables to that module's handler, for any
\* modules, each of which has a handler for what it enables and no other has it too.
THEOREM AlwaysOwnHandler ==
  ASSUME \A c \in Configs : Handled(c) PROVE Spec => []OwnHandler
<1>1. VectorsSet => OwnHandler
  <2> SUFFICES ASSUME VectorsSet, NEW m \in Module, NEW s \in DOMAIN config.enables,
                      running \in config.enables[s][m]
               PROVE  Vector(running).handler = m
    BY DEF OwnHandler
  <2>1. Handled(config) /\ config \in Config
    BY StartUpAssumption DEF VectorsSet
  <2>2. running \in Irqs
    <3>1. config.enables \in
            [{"interrupt", "peripheryEnable"} -> [Module -> SUBSET (Irqs \ Faults)]]
      BY <2>1 DEF Config
    <3> QED BY <3>1
  <2>3. PICK k \in DOMAIN config.isrs[m] : config.isrs[m][k] = running
    BY <2>1 DEF Handled
  <2> DEFINE e == Entry(IsrList(config), running)
  <2>4. HandlerEntry(config, e) /\ e.index = running
    BY <2>1, <2>2, <2>3, EntryIs
  <2> HIDE DEF e
  <2>9. PICK n \in Module : \E l \in DOMAIN config.isrs[n] :
          e = [handler |-> n, index |-> config.isrs[n][l],
               wrapped |-> config.isrs[n][l] \in config.profiled]
    BY <2>4 DEF HandlerEntry
  <2>5. PICK l \in DOMAIN config.isrs[n] :
          e = [handler |-> n, index |-> config.isrs[n][l],
               wrapped |-> config.isrs[n][l] \in config.profiled]
    BY <2>9
  <2>6. e.handler = n /\ config.isrs[n][l] = running
    BY <2>4, <2>5
  <2>7. n = m
    BY <2>1, <2>3, <2>6 DEF Handled
  <2>8. Vector(running) = e
    BY <2>2, VectorIs DEF e
  <2> QED BY <2>6, <2>7, <2>8
<1> QED BY <1>1, VectorsStay, PTL
-----------------------------------------------------------------------------
\* No handler returned before enableAll; from initMemory on recorded has the returns of
\* the profiled ones; the counter is on behind the hook if there are any.
CountInv ==
  /\ memory = "constructed" => Rank[pc] >= 5
  /\ Rank[pc] \in 0 .. 12 => \A i \in Irqs : ran[i] = 0
  /\ Rank[pc] >= 5 => \A i \in Irqs : recorded[i] = IF Vector(i).wrapped THEN ran[i] ELSE 0
  /\ Rank[pc] > 1 => (counting <=> config.profiled # {})

\* A wrapper counts for the index whose handler it wraps.
LEMMA WrappedIs ==
  ASSUME VectorsSet, NEW i \in Irqs, Vector(i).wrapped
  PROVE  Vector(i).index = i /\ config.profiled # {}
<1>1. Vector(i) = Entry(IsrList(config), i) /\ config \in Config
  BY VectorIs
<1>2. Vector(i) # UnusedIsr
  BY DEF UnusedIsr
<1>3. HandlerEntry(config, Vector(i)) /\ Vector(i).index = i
  BY <1>1, <1>2, EntryIs
<1>4. PICK m \in Module : \E k \in DOMAIN config.isrs[m] :
        Vector(i) = [handler |-> m, index |-> config.isrs[m][k],
                     wrapped |-> config.isrs[m][k] \in config.profiled]
  BY <1>3 DEF HandlerEntry
<1>5. PICK k \in DOMAIN config.isrs[m] :
        Vector(i) = [handler |-> m, index |-> config.isrs[m][k],
                     wrapped |-> config.isrs[m][k] \in config.profiled]
  BY <1>4
<1>6. config.isrs[m][k] \in config.profiled
  <2> SUFFICES ASSUME config.isrs[m][k] \notin config.profiled PROVE FALSE
    OBVIOUS
  <2>1. (config.isrs[m][k] \in config.profiled) = FALSE
    OBVIOUS
  <2>2. Vector(i) = [handler |-> m, index |-> config.isrs[m][k], wrapped |-> FALSE]
    BY <1>5, <2>1
  <2>3. Vector(i).wrapped = FALSE
    BY <2>2
  <2> QED BY <2>3
<1> QED BY <1>3, <1>6

LEMMA CountStep == IInv /\ VectorsSet /\ CountInv /\ [Next]_vars => CountInv'
<1> SUFFICES ASSUME IInv, VectorsSet, CountInv, [Next]_vars PROVE CountInv'
  OBVIOUS
<1> USE DEF AtStep
<1>0. TypeOK /\ pc \in Steps /\ Rank[pc] \in Nat /\ recorded \in [Irqs -> Nat] /\ ran \in [Irqs -> Nat]
  BY RankType DEF IInv, TypeOK
<1>1. \A i \in Irqs : Vector(i)' = Vector(i)
  <2>1. UNCHANGED rom
    BY DEF Next, Boot, FirstInitStep, Hook, Clocks, InitMemory, CallGlobalConstructors, EnableAll,
           ApplyInit, CallInit, Raise, Take, Fault, Return, Reset, Continue, reset, vars
  <2> QED BY <2>1 DEF rom, Vector
<1>2. CASE FirstInitStep
  <2>1. Rank[pc] = 0 /\ Rank[pc'] = 1
    BY <1>2, ContinueKeeps, NamedRanks DEF FirstInitStep
  <2> QED BY <1>0, <1>2, <2>1 DEF FirstInitStep, Continue, CountInv
<1>3. CASE Hook
  <2>1. Rank[pc] = 1 /\ Rank[pc'] = 2
    BY <1>3, ContinueKeeps, NamedRanks DEF Hook
  <2>2. UNCHANGED <<rom, memory, recorded, ran>>
    BY <1>3 DEF Hook, Continue
  <2>3. counting' <=> config'.profiled # {}
    <3>1. counting' = (config.profiled # {}) /\ config' = config
      BY <1>3, <2>2 DEF Hook, rom
    <3> QED BY <3>1
  <2>4. memory' # "constructed"
    BY <2>1, <2>2 DEF CountInv
  <2> QED BY <2>1, <2>2, <2>3, <2>4 DEF CountInv
<1>4. CASE Clocks
  <2>1. \/ Rank[pc] = 3 /\ Rank[pc'] = 4
        \/ Rank[pc] = 6 /\ Rank[pc'] = 7
    BY <1>4, ContinueKeeps, NamedRanks DEF Clocks
  <2>2. UNCHANGED <<rom, memory, counting, recorded, ran>>
    BY <1>4 DEF Clocks, Continue
  <2>3. memory' = "constructed" => Rank[pc'] >= 5
    BY <2>1, <2>2 DEF CountInv
  <2>4. \A i \in Irqs : ran'[i] = 0
    BY <2>1, <2>2 DEF CountInv
  <2>5. Rank[pc'] >= 5 => \A i \in Irqs : recorded'[i] = IF Vector(i)'.wrapped THEN ran'[i] ELSE 0
    BY <1>1, <2>1, <2>2 DEF CountInv
  <2>6. counting' <=> config'.profiled # {}
    BY <2>1, <2>2 DEF rom, CountInv
  <2>7. Rank[pc'] \in 0 .. 12 => \A i \in Irqs : ran'[i] = 0
    BY <2>4
  <2> QED BY <2>3, <2>5, <2>6, <2>7 DEF CountInv
<1>5. CASE InitMemory
  <2>1. Rank[pc] = 4 /\ Rank[pc'] = 5
    BY <1>5, ContinueKeeps, NamedRanks DEF InitMemory
  <2> QED BY <1>0, <1>1, <1>5, <2>1 DEF InitMemory, Continue, rom, CountInv
<1>6. CASE CallGlobalConstructors
  <2>1. Rank[pc] = 5 /\ Rank[pc'] = 6
    BY <1>6, ContinueKeeps, NamedRanks DEF CallGlobalConstructors
  <2> QED BY <1>0, <1>1, <1>6, <2>1 DEF CallGlobalConstructors, Continue, rom, CountInv
<1>7. CASE EnableAll
  <2>1. Rank[pc] = 12 /\ Rank[pc'] = 13
    BY <1>7, ContinueKeeps, NamedRanks DEF EnableAll
  <2> QED BY <1>0, <1>1, <1>7, <2>1 DEF EnableAll, Continue, rom, CountInv
<1>8. ASSUME NEW m \in Module, ApplyInit(m) \/ CallInit(m)
      PROVE  CountInv'
  <2>1. Rank[pc'] \in {Rank[pc], Rank[pc] + 1}
    BY <1>8, FinishedKeeps DEF ApplyInit, CallInit
  <2>2. Rank[pc] > 0 /\ Rank[pc] # 5 /\ Rank[pc] # 12
    BY <1>8, NamedRanks DEF ApplyInit, CallInit
  <2>3. Rank[pc] # 1 /\ Rank[pc] # 4
    <3>1. pc \in ApplySteps \cup CallSteps
      BY <1>8 DEF ApplyInit, CallInit
    <3> QED BY <3>1 DEF ApplySteps, CallSteps, Rank
  <2>4. UNCHANGED <<rom, memory, counting, recorded, ran>>
    BY <1>8 DEF ApplyInit, CallInit
  <2> QED BY <1>0, <1>1, <2>1, <2>2, <2>3, <2>4 DEF rom, CountInv
<1>9. ASSUME NEW i \in Irqs, Raise(i) \/ Take(i) \/ Fault(i)
      PROVE  CountInv'
  <2>1. UNCHANGED <<reset, recorded, ran>>
    BY <1>9 DEF Raise, Take, Fault
  <2> QED BY <1>1, <2>1 DEF reset, rom, CountInv
<1>10. CASE Return
  <2>1. UNCHANGED reset /\ running \in Irqs \ Faults /\ ran' = [ran EXCEPT ![running] = @ + 1]
        /\ recorded' = IF Vector(running).wrapped
                         THEN [recorded EXCEPT ![Vector(running).index] = @ + 1] ELSE recorded
    BY <1>10 DEF Return
  <2>2. Rank[pc] > 12
    BY <2>1 DEF IInv, RunsBehind
  <2>3. ASSUME NEW i \in Irqs PROVE recorded'[i] = IF Vector(i).wrapped THEN ran'[i] ELSE 0
    <3>1. recorded[i] = IF Vector(i).wrapped THEN ran[i] ELSE 0
      BY <1>0, <2>2 DEF CountInv
    <3>2. CASE Vector(running).wrapped
      <4>1. Vector(running).index = running
        BY <2>1, <3>2, WrappedIs
      <4> QED BY <1>0, <2>1, <3>1, <3>2, <4>1
    <3>3. CASE ~Vector(running).wrapped
      BY <1>0, <2>1, <3>1, <3>3
    <3> QED BY <3>2, <3>3
  <2> QED BY <1>0, <1>1, <2>1, <2>2, <2>3 DEF reset, rom, CountInv
<1>11. CASE Reset
  <2>1. pc' \in Steps /\ Rank[pc'] = 0
    BY <1>11, NamedRanks DEF Reset, Steps
  <2> QED BY <1>11, <2>1 DEF Reset, CountInv
<1>12. CASE UNCHANGED vars
  BY <1>1, <1>12 DEF vars, rom, nvic, history, CountInv
<1> QED
  BY <1>2, <1>3, <1>4, <1>5, <1>6, <1>7, <1>8, <1>9, <1>10, <1>11, <1>12 DEF Next, Boot

\* The statistics count the runs of every profiled handler since the last reset, and
\* the cycle counter is on when one runs, whatever memory held and whatever resets come.
THEOREM AlwaysCounted == Spec => []Counted
<1>1. Init => CountInv
  <2> SUFFICES ASSUME Init PROVE CountInv
    OBVIOUS
  <2>1. Rank[pc] = 0
    BY NamedRanks DEF Init
  <2> QED BY <2>1 DEF Init, CountInv
<1>2. IInv /\ VectorsSet /\ CountInv => Counted
  <2> SUFFICES ASSUME IInv, VectorsSet, CountInv, memory = "constructed" PROVE Counted
    BY DEF Counted
  <2>1. Rank[pc] >= 5 /\ Rank[pc] \in Nat
    BY RankType DEF CountInv, IInv, TypeOK
  <2>2. running # None /\ Vector(running).wrapped => counting
    <3> SUFFICES ASSUME running # None, Vector(running).wrapped PROVE counting
      OBVIOUS
    <3>1. running \in Irqs
      BY DEF IInv, TypeOK
    <3> QED BY <2>1, <3>1, WrappedIs DEF CountInv
  <2> QED BY <2>1, <2>2 DEF CountInv, Counted
<1>3. IInv /\ VectorsSet /\ CountInv /\ [Next]_vars => CountInv'
  BY CountStep
<1> QED BY <1>1, <1>2, <1>3, Invariance, VectorsStay, PTL DEF Spec
=============================================================================
