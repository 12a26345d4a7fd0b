-------------------------------- MODULE Exec --------------------------------
(***************************************************************************)
(* The run-time half of Kvasir::Register::apply (Register/Exec.hpp and     *)
(* Detail::Apply of Register/Apply.hpp): the merged actions of one call    *)
(* run one after the other, each a load, a store or a load and a store of  *)
(* its register.  Between any two accesses a peripheral raises flags and   *)
(* interrupt handlers reset them.                                          *)
(***************************************************************************)
EXTENDS Registers, Sequences

CONSTANTS
  Programs,   \* the lists of merged actions that calls of apply amount to
  Powerup     \* the contents the registers may have before the call

\* One action, merged or not: its bits in mask get lit, known at compile time,
\* or in, known at run time.
ActionType ==
  [kind : {"literal", "runtime", "both", "xor", "read"},
   addr : Regs, mask : SUBSET Bits, lit : SUBSET Bits, in : SUBSET Bits]

\* static_assert((Data & (~Mask)) == 0); write() masks its argument.
ValueInMask(a) == a.lit \cup a.in \subseteq a.mask

ASSUME ExecAssumption == Powerup \subseteq [Regs -> SUBSET Bits]

VARIABLES
  regs,     \* the contents of the registers
  pc,       \* "idle" before the call, "next" or "store" in it, "done" after it
  todo,     \* the actions not yet executed
  loaded,   \* the local i, from its load to the store
  reads,    \* the addresses apply returns
  ret       \* FieldTuple::value_ by address

execVars == <<regs, pc, todo, loaded, reads, ret>>

ExecInit ==
  /\ regs \in Powerup
  /\ pc = "idle" /\ todo = <<>> /\ loaded = {} /\ reads = {}
  /\ ret = [r \in Regs |-> {}]

After(rest) == IF rest = <<>> THEN "done" ELSE "next"

\* apply is called; ret{{}} is zero.
Start(p) ==
  /\ pc = "idle"
  /\ todo' = p
  /\ pc' = After(p)
  /\ reads' = {p[i].addr : i \in {j \in DOMAIN p : p[j].kind = "read"}}
  /\ UNCHANGED <<regs, loaded, ret>>

Loads(a) == a.kind \in {"read", "xor"} \/ NeedsRead(a.addr, a.mask)

\* filterReturns: or-ed into the slot of the address, if apply returns it.
filterReturns(r, in) ==
  ret' = IF r \in reads THEN [ret EXCEPT ![r] = @ \cup in] ELSE ret

Read(a) ==
  /\ pc = "next" /\ a.kind = "read"
  /\ filterReturns(a.addr, regs[a.addr])
  /\ todo' = Tail(todo) /\ pc' = After(todo')
  /\ UNCHANGED <<regs, loaded, reads>>

\* The load of a read-modify-write.
Load(a) ==
  /\ pc = "next" /\ a.kind # "read" /\ Loads(a)
  /\ loaded' = regs[a.addr]
  /\ pc' = "store"
  /\ UNCHANGED <<regs, todo, reads, ret>>

Written(a, i) ==
  IF a.kind = "xor" THEN XorWritten(a.addr, a.mask, a.lit \cup a.in, i)
                    ELSE OrWritten(a.addr, a.mask, a.lit \cup a.in, i)

\* Its store, or the store of a write that needs no load.
Store(a) ==
  /\ pc = "store" \/ (pc = "next" /\ ~Loads(a))
  /\ LET w == Written(a, loaded)
     IN  /\ regs' = [regs EXCEPT ![a.addr] = HwStore(a.addr, @, w)]
         /\ filterReturns(a.addr, w)
  /\ todo' = Tail(todo) /\ pc' = After(todo')
  /\ loaded' = {}
  /\ UNCHANGED reads

Step == todo # <<>> /\ (Read(Head(todo)) \/ Load(Head(todo)) \/ Store(Head(todo)))

\* A flag rises, or a handler that preempts the call resets it.  What happens
\* before the call is in Powerup.
Hardware ==
  /\ pc \in {"next", "store"}
  /\ \E r \in Regs : \E b \in Events(r) :
       regs' = [regs EXCEPT ![r] = (@ \ {b}) \cup ({b} \ @)]
  /\ UNCHANGED <<pc, todo, loaded, reads, ret>>

ExecNext == (\E p \in Programs : Start(p)) \/ Step \/ Hardware

ExecSpec == ExecInit /\ [][ExecNext]_execVars
-----------------------------------------------------------------------------
\* Types; no action carries a value outside its mask, however it was merged.
TypeOK ==
  /\ regs \in [Regs -> SUBSET Bits]
  /\ pc \in {"idle", "next", "store", "done"}
  /\ todo \in Seq(ActionType)
  /\ \A i \in DOMAIN todo : ValueInMask(todo[i])
  /\ pc \in {"next", "store"} <=> todo # <<>>
  /\ pc = "store" => Head(todo).kind # "read"
  /\ loaded \in SUBSET Bits
  /\ reads \in SUBSET Regs
  /\ ret \in [Regs -> SUBSET Bits]

\* A store leaves every bit outside its action's mask as it is at that very
\* moment: plain bits are written back, and a flag that came up or was reset
\* since the load is neither lost nor reset again.
Frame ==
  [][Step => \A r \in Regs, b \in Bits :
       (r = Head(todo).addr => b \notin Head(todo).mask)
         => (b \in regs'[r] <=> b \in regs[r])]_execVars
=============================================================================
