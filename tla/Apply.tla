------------------------------- MODULE Apply --------------------------------
(***************************************************************************)
(* Kvasir::Register::apply (Register/Apply.hpp): the compile-time half,    *)
(* which groups, sorts and merges the arguments of a call, composed with   *)
(* the run-time half of module Exec.                                       *)
(***************************************************************************)
EXTENDS Exec, Lists, TLC

CONSTANTS
  SequencePoint,   \* the tag between arguments that must not be merged
  Calls            \* the argument lists apply is called with

VARIABLES
  args,     \* the arguments of the call, lists opened
  before    \* the registers when it was made

vars == <<execVars, args, before>>
-----------------------------------------------------------------------------
(* The arguments and their runtime values.                                 *)

\* An action of a list, or an argument whose value is known: no input.
Indexed(a, inputs) ==
  [kind |-> a.kind, addr |-> a.addr, mask |-> a.mask, lit |-> a.lit, inputs |-> inputs]

\* An argument is an action, a list of actions without runtime values or a sequence
\* point.  index counts the arguments from 0.
MakeIndexedAction(a, index) ==
  IF a = SequencePoint THEN <<a>>
  ELSE IF a.kind = "list" THEN [i \in DOMAIN a.of |-> Indexed(a.of[i], <<>>)]
  ELSE <<Indexed(a, IF a.kind = "runtime" THEN <<index>> ELSE <<>>)>>

FlattenedActions(as) == flatten([i \in DOMAIN as |-> MakeIndexedAction(as[i], i - 1)])

\* Zero for an argument without a value.
argToUnsigned(a) == IF a # SequencePoint /\ a.kind = "runtime" THEN a.in ELSE {}

\* How many arguments to pass over before each input, in the order of the indexes.
MakeSeperators(inputs) ==
  LET s == sort({p \in Nat \X Nat : p[1] < p[2]}, inputs)
  IN  [i \in DOMAIN s |-> IF i = 1 THEN s[1] ELSE s[i] - (s[i - 1] + 1)]

\* The values of the inputs or-ed together: each follows so many others.
Finder(seperators, values) ==
  LET at[i \in 0 .. Len(seperators)] == IF i = 0 THEN 0 ELSE at[i - 1] + seperators[i] + 1
  IN  UNION {values[at[i]] : i \in DOMAIN seperators}
-----------------------------------------------------------------------------
\* Mutant: sequence points do not separate anything.
StepsIgnoringPoints(as) == << remove_if({SequencePoint}, FlattenedActions(as)) >>

Steps(as) == split(FlattenedActions(as), SequencePoint)

\* Mutant: the register alone orders the actions.
ActionExecRankNone(a) == 1

ActionExecRank(a) == CASE a.kind = "read" -> 3 [] a.kind = "xor" -> 2 [] OTHER -> 1

IndexedActionLess(a, b) ==
  \/ a.addr < b.addr
  \/ a.addr = b.addr /\ ActionExecRank(a) < ActionExecRank(b)

\* A specialisation of MergeRegisterActions joins next with the last merged.
\* XorLiteralAction is a template<unsigned> like WriteLiteralAction, so both
\* join a runtime write.
Mergeable(next, last) ==
  /\ next.addr = last.addr
  /\ \/ next.kind = last.kind
     \/ next.kind \in {"literal", "xor"} /\ last.kind \in {"runtime", "both"}
     \/ next.kind = "runtime" /\ last.kind \in {"literal", "xor", "both"}

Merged(next, last) ==
  [kind |-> IF next.kind = last.kind THEN next.kind ELSE "both",
   addr |-> next.addr,
   mask |-> next.mask \cup last.mask,
   lit  |-> next.lit \cup last.lit,
   inputs |-> next.inputs \o last.inputs]

\* next is merged with the last one or put before it.
MergeStep(done, next) ==
  IF done # <<>> /\ Mergeable(next, Head(done))
  THEN <<Merged(next, Head(done))>> \o Tail(done)
  ELSE <<next>> \o done

SortedActions(g) ==
  sort({p \in ToSet(g) \X ToSet(g) : IndexedActionLess(p[1], p[2])}, g)

\* Sorted, merged with their neighbour, in reverse order.
MergeRegisterActions(g) ==
  LET s == SortedActions(g)
      done[i \in 0 .. Len(s)] == IF i = 0 THEN <<>> ELSE MergeStep(done[i - 1], s[i])
  IN  done[Len(s)]

\* The action with what Detail::Apply's operator() hands it.
WithInput(x, values) ==
  [kind |-> x.kind, addr |-> x.addr, mask |-> x.mask, lit |-> x.lit,
   in |-> Finder(MakeSeperators(x.inputs), values)]

\* The list of actions a call executes.
Compile(as) ==
  LET values == [i \in DOMAIN as |-> argToUnsigned(as[i])]
      steps  == Steps(as)
      merged == flatten([i \in DOMAIN steps |-> MergeRegisterActions(steps[i])])
  IN  [i \in DOMAIN merged |-> WithInput(merged[i], values)]

\* Actions as the factories make them: a value lies in its mask, write() alone has one
\* at run time, clear() makes a xor of one-to-toggle bits.
Actions ==
  {a \in [kind : {"literal", "runtime", "xor", "read"}, addr : Regs,
          mask : SUBSET Bits, lit : SUBSET Bits, in : SUBSET Bits] :
     /\ a.lit \cup a.in \subseteq a.mask
     /\ IF a.kind = "runtime" THEN a.lit = {} ELSE a.in = {}
     /\ a.kind = "xor" => \A b \in a.mask : Kind[a.addr][b] = "oneToToggle"}

CompileTimeActions == {a \in Actions : a.kind # "runtime"}

IndexedActions ==
  [kind : {"literal", "runtime", "xor", "read"}, addr : Regs,
   mask : SUBSET Bits, lit : SUBSET Bits, inputs : Seq(Nat)]

Arguments == {SequencePoint} \cup Actions \cup [kind : {"list"}, of : Seq(CompileTimeActions)]

\* Addresses are numbers, a sequence point is no action, and what the run-time half
\* executes comes from the calls.
ASSUME ApplyAssumption ==
  /\ Regs \subseteq Nat
  /\ SequencePoint \notin Actions \cup IndexedActions
  /\ Calls \subseteq Seq(Arguments)
  /\ Programs = {Compile(as) : as \in Calls}
-----------------------------------------------------------------------------
Init == ExecInit /\ args = <<>> /\ before = regs

\* The actions and sequence points in the order in which they are written.
Opened(as) ==
  FlattenSeq([i \in DOMAIN as |->
    IF as[i] # SequencePoint /\ as[i].kind = "list" THEN as[i].of ELSE <<as[i]>>])

apply(as) ==
  /\ Start(Compile(as))
  /\ args' = Opened(as)
  /\ before' = regs

Execute == Step /\ UNCHANGED <<args, before>>

Interfere == Hardware /\ UNCHANGED <<args, before>>

Next == (\E as \in Calls : apply(as)) \/ Execute \/ Interfere

Spec == Init /\ [][Next]_vars
-----------------------------------------------------------------------------
(* What a call means, argument by argument.                                 *)

\* No two writes of one group address the same bit.
Sensible(as) ==
  \A g \in ToSet(Steps(as)) : \A i, j \in DOMAIN g :
    i # j /\ g[i].addr = g[j].addr /\ g[i].kind # "read" /\ g[j].kind # "read"
      => g[i].mask \cap g[j].mask = {}

\* A toggle bit is cleared beside a runtime write of its register.
MixesToggle(as) ==
  \E g \in ToSet(Steps(as)) : \E a, c \in ToSet(g) :
    a.kind = "xor" /\ c.kind = "runtime" /\ a.addr = c.addr

PointsBefore(i) == Cardinality({k \in 1 .. i - 1 : args[k] = SequencePoint})

\* The arguments between the sequence points, and their number.
NGroups  == PointsBefore(Len(args) + 1) + 1
Group(n) == {args[i] : i \in {k \in DOMAIN args :
               args[k] # SequencePoint /\ PointsBefore(k) = n - 1}}

Writers(n, r, b) == {a \in Group(n) : a.kind # "read" /\ a.addr = r /\ b \in a.mask}
Readers(n, r)    == {a \in Group(n) : a.kind = "read" /\ a.addr = r}

\* What argument a does to its bit b: a xor forces a toggle bit to its value.
Meant(a, b, old) ==
  LET v == b \in a.lit \cup a.in
  IN  IF a.kind = "xor" THEN v ELSE BitAfter(Kind[a.addr][b], old, v)

\* The registers after the arguments of a group took effect together.
AfterGroup(v, n) ==
  [r \in Regs |-> {b \in Bits :
     IF Writers(n, r, b) = {} THEN b \in v[r]
     ELSE \E a \in Writers(n, r, b) : Meant(a, b, b \in v[r])}]

AfterGroups(n) ==
  LET v[k \in 0 .. n] == IF k = 0 THEN before ELSE AfterGroup(v[k - 1], k)
  IN  v[n]

\* Once apply returns, every bit that only it writes has the value the
\* arguments ask for, group by group, and all others the value they had:
\* whatever was merged, sorted and skipped on the way.
AppliedCorrectly ==
  pc = "done" =>
    LET want == AfterGroups(NGroups)
    IN  \A r \in Regs : regs[r] \ Events(r) = want[r] \ Events(r)

\* A status flag or a toggle bit changes in a store only if an argument of the
\* call addresses the bit itself.
FlagsOnlyOnPurpose ==
  [][Execute => \A r \in Regs : \A b \in Bits \ Plain(r) :
       (b \in regs'[r]) # (b \in regs[r])
         => \E n \in 1 .. NGroups : Writers(n, r, b) # {}]_vars

\* Within a group a register is loaded by at most one read and stored by at
\* most one write, unless a toggle bit is cleared beside compile-time writes:
\* write(a), read(a), write(a) merge in whatever order they are passed.
MergedOnce ==
  pc # "idle" => \A p \in {MergeRegisterActions(g) : g \in ToSet(Steps(args))} :
    LET kinds(i, j) == {p[i].kind, p[j].kind}
    IN  \A i, j \in DOMAIN p :
          i # j /\ p[i].addr = p[j].addr
            => kinds(i, j) \in
                 {{"read", k} : k \in {"literal", "runtime", "both", "xor"}}
                   \cup {{"literal", "xor"}}

\* The fields of r the n-th group reads are returned with the value they had
\* after the groups before it.
ReadsAsOf(n, r) ==
  \A a \in Readers(n, r) :
    ret[r] \cap a.mask \cap Plain(r) = AfterGroups(n - 1)[r] \cap a.mask \cap Plain(r)

ReadOnlyIn(n, r) == \A k \in 1 .. NGroups : Readers(k, r) # {} => k = n

WritesTo(n, r) == {a \in Group(n) : a.kind # "read" /\ a.addr = r}

\* A field of a register that one store at most wrote before is returned with its
\* value after it: the store is that of a group, which has two if a toggle bit is cleared
\* beside other writes.  What further stores wrote is or-ed to the value.
ReadsSeeEarlierGroups ==
  pc = "done" =>
    \A n \in 1 .. NGroups, r \in Regs :
      /\ Readers(n, r) # {} /\ ReadOnlyIn(n, r)
      /\ \A k \in n .. NGroups : WritesTo(k, r) = {}
      /\ \A j, k \in 1 .. n - 1 : \A a \in WritesTo(j, r), c \in WritesTo(k, r) :
           j = k /\ (a.kind = "xor" <=> c.kind = "xor")
      => ReadsAsOf(n, r)

\* "within one step the per-register order is reads, then xors, then writes -
\* reads always observe the pre-write value" (Register/Apply.hpp:75-76).
ReadsObservePreWrite ==
  pc = "done" =>
    \A n \in 1 .. NGroups, r \in Regs : ReadOnlyIn(n, r) => ReadsAsOf(n, r)

\* "either way the bit ends up cleared" (tests/special_access_tests.cpp:159):
\* a toggle bit the last group clears is clear when apply returns.
ToggleEndsCleared ==
  pc = "done" =>
    \A a \in Group(NGroups) :
      a.kind = "xor" => regs[a.addr] \cap (a.mask \ a.lit) = {}
=============================================================================
