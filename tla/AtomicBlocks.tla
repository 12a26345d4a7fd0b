---------------------------- MODULE AtomicBlocks ----------------------------
(***************************************************************************)
(* The blocking atomics of Atomic/detail/arm_Common_atomic.hpp on a single *)
(* core with prioritised interrupts.  An operation reads and writes its    *)
(* object word by word; an InterruptGuard<Global> keeps the interrupts off *)
(* meanwhile.  The code that calls them may take guards of its own and     *)
(* call them inside.                                                       *)
(***************************************************************************)
EXTENDS Naturals, AtomicOps

CONSTANTS
  Levels,     \* the highest interrupt priority; 0 is main
  MaxDepth    \* bound on how many guards of one context nest

ASSUME AtomicBlocksAssumption == Levels \in Nat /\ MaxDepth \in Nat

Contexts == 0 .. Levels

VARIABLES
  primask,   \* PRIMASK: no interrupt is taken
  boot,      \* PRIMASK as the program found it
  active,    \* the contexts that began and have not returned
  running,   \* the one of them that runs
  pc,        \* where a context is in its operation or its guard
  call,      \* the operation it is in
  old,       \* what a constructor found: whether interrupts were on
  depth,     \* how many guards a context has
  saved,     \* their oldState, by context and depth
  lo, hi,    \* the words of the object
  glo, ghi   \* what a context read of them

guards == <<primask, old, depth, saved>>
cores  == <<boot, active, running>>
object == <<lo, hi>>
got    == <<glo, ghi>>
vars   == <<guards, cores, pc, call, object, got>>

Init ==
  /\ boot \in BOOLEAN /\ primask = boot
  /\ active = {0} /\ running = 0
  /\ pc = [c \in Contexts |-> "idle"] /\ call = [c \in Contexts |-> None]
  /\ old = [c \in Contexts |-> FALSE] /\ depth = [c \in Contexts |-> 0]
  /\ saved = [g \in Contexts \X (1 .. MaxDepth) |-> FALSE]
  /\ lo = Zero /\ hi = Zero
  /\ glo = [c \in Contexts |-> Zero] /\ ghi = [c \in Contexts |-> Zero]

At(c, place) == running = c /\ pc[c] = place

Goto(c, place) == pc' = [pc EXCEPT ![c] = place]
-----------------------------------------------------------------------------
(* The core.                                                                *)

Preempt(c) ==
  /\ ~primask /\ c > running
  /\ active' = active \cup {c} /\ running' = c
  /\ UNCHANGED <<guards, boot, pc, call, object, got>>

\* An interrupt handler returns to the context it interrupted.
Return(c) ==
  /\ At(c, "idle") /\ c # 0 /\ depth[c] = 0
  /\ active' = active \ {c}
  /\ running' \in active' /\ \A d \in active' : d <= running'
  /\ UNCHANGED <<guards, boot, pc, call, object, got>>
-----------------------------------------------------------------------------
(* InterruptGuard<Global>, of an operation or of the code that calls it.    *)

\* Mutant: interrupts are disabled before PRIMASK is read.
SaveDisabled(c) ==
  /\ At(c, "save")
  /\ old' = [old EXCEPT ![c] = FALSE]
  /\ Goto(c, "disable")
  /\ UNCHANGED <<primask, depth, saved, cores, call, object, got>>

\* The constructor reads PRIMASK
Save(c) ==
  /\ At(c, "save")
  /\ old' = [old EXCEPT ![c] = ~primask]
  /\ Goto(c, "disable")
  /\ UNCHANGED <<primask, depth, saved, cores, call, object, got>>

\* Where the operation of c begins; a guard of its own ends there.
Body(c) ==
  CASE call[c] = None -> "idle"
    [] call[c].op = "store" -> "write_low"
    [] OTHER -> "read_low"

\* Mutant: the interrupts stay on.
DisableNot(c) ==
  /\ At(c, "disable")
  /\ depth' = [depth EXCEPT ![c] = @ + 1]
  /\ saved' = [saved EXCEPT ![<<c, depth[c] + 1>>] = old[c]]
  /\ Goto(c, Body(c))
  /\ UNCHANGED <<primask, old, cores, call, object, got>>

\* and disables the interrupts.
Disable(c) ==
  /\ At(c, "disable")
  /\ primask' = TRUE
  /\ depth' = [depth EXCEPT ![c] = @ + 1]
  /\ saved' = [saved EXCEPT ![<<c, depth[c] + 1>>] = old[c]]
  /\ Goto(c, Body(c))
  /\ UNCHANGED <<old, cores, call, object, got>>

\* Mutant: the destructor of InterruptGuardAlwaysUnlock.
DestroyAlways(c) ==
  /\ primask' = FALSE
  /\ depth' = [depth EXCEPT ![c] = @ - 1]
  /\ UNCHANGED <<old, saved>>

\* The destructor
Destroy(c) ==
  /\ primask' = (primask /\ ~saved[<<c, depth[c]>>])
  /\ depth' = [depth EXCEPT ![c] = @ - 1]
  /\ UNCHANGED <<old, saved>>

\* The code that calls the operations takes a guard and lets it go.
Lock(c) ==
  /\ At(c, "idle") /\ depth[c] < MaxDepth
  /\ Goto(c, "save")
  /\ UNCHANGED <<guards, cores, call, object, got>>

Unlock(c) ==
  /\ At(c, "idle") /\ depth[c] > 0
  /\ Destroy(c)
  /\ UNCHANGED <<cores, pc, call, object, got>>
-----------------------------------------------------------------------------
(* An operation.                                                            *)

Begin(c, r) ==
  /\ At(c, "idle") /\ depth[c] < MaxDepth
  /\ call' = [call EXCEPT ![c] = r]
  /\ Goto(c, "save")
  /\ UNCHANGED <<guards, cores, object, got>>

ReadLow(c) ==
  /\ \/ At(c, "read_low") /\ Goto(c, "read_high")
     \/ At(c, "again_low") /\ Goto(c, "again_high")
  /\ glo' = [glo EXCEPT ![c] = lo]
  /\ UNCHANGED <<guards, cores, call, object, ghi>>

\* Mutant: a compare_exchange that failed writes nonetheless.
AfterReadWrites(c) == IF call[c].op = "load" THEN "restore" ELSE "write_low"

\* What follows when c has read <<glo[c], hi>>: a compare_exchange that fails
\* reads once more, into expected.
AfterRead(c) ==
  CASE Writes(call[c], <<glo[c], hi>>) -> "write_low"
    [] call[c].op = "load"             -> "restore"
    [] OTHER                           -> "again_low"

ReadHigh(c) ==
  /\ \/ At(c, "read_high") /\ Goto(c, AfterRead(c))
     \/ At(c, "again_high") /\ Goto(c, "restore")
  /\ ghi' = [ghi EXCEPT ![c] = hi]
  /\ UNCHANGED <<guards, cores, call, object, glo>>

WriteLow(c) ==
  /\ At(c, "write_low")
  /\ lo' = New(call[c], <<glo[c], ghi[c]>>)[1]
  /\ Goto(c, "write_high")
  /\ UNCHANGED <<guards, cores, call, hi, got>>

WriteHigh(c) ==
  /\ At(c, "write_high")
  /\ hi' = New(call[c], <<glo[c], ghi[c]>>)[2]
  /\ Goto(c, "restore")
  /\ UNCHANGED <<guards, cores, call, lo, got>>

\* The guard is destroyed and the operation returns.
End(c) ==
  /\ At(c, "restore")
  /\ Destroy(c)
  /\ Goto(c, "idle")
  /\ call' = [call EXCEPT ![c] = None]
  /\ glo' = [glo EXCEPT ![c] = Zero] /\ ghi' = [ghi EXCEPT ![c] = Zero]
  /\ UNCHANGED <<cores, object>>

\* A context that is in an operation or a guard goes on.
Step(c) ==
  \/ Save(c) \/ Disable(c)
  \/ ReadLow(c) \/ ReadHigh(c) \/ WriteLow(c) \/ WriteHigh(c) \/ End(c)

Next ==
  \E c \in Contexts :
    \/ Preempt(c) \/ Return(c) \/ Lock(c) \/ Unlock(c)
    \/ \E r \in Requests : Begin(c, r)
    \/ Step(c)

Spec == Init /\ [][Next]_vars

\* The core runs, and the code that calls the operations lets its guards go,
\* at every depth.
Fairness ==
  \A c \in Contexts :
    /\ WF_vars(Step(c))
    /\ \A k \in 1 .. MaxDepth : SF_vars(depth[c] = k /\ Unlock(c))

FairSpec == Spec /\ Fairness
-----------------------------------------------------------------------------
\* Types of the state; the context that runs is the one with the highest
\* priority of those that began, and an operation has a guard while it reads and
\* writes.
TypeOK ==
  /\ primask \in BOOLEAN /\ boot \in BOOLEAN
  /\ active \subseteq Contexts /\ 0 \in active
  /\ running \in active /\ \A c \in active : c <= running
  /\ pc \in [Contexts -> {"idle", "save", "disable", "read_low", "read_high",
                          "again_low", "again_high", "write_low", "write_high",
                          "restore"}]
  /\ call \in [Contexts -> Requests \cup {None}]
  /\ \A c \in Contexts :
       pc[c] \notin {"idle", "save", "disable"} => call[c] # None /\ depth[c] > 0
  /\ old \in [Contexts -> BOOLEAN]
  /\ depth \in [Contexts -> 0 .. MaxDepth]
  /\ saved \in [Contexts \X (1 .. MaxDepth) -> BOOLEAN]
  /\ lo \in Words /\ hi \in Words
  /\ glo \in [Contexts -> Words] /\ ghi \in [Contexts -> Words]

\* A context with a guard, its own or an operation's, is not interrupted until
\* the last of its guards is gone, however they nest.
Guarded == \A c \in Contexts : depth[c] > 0 => primask /\ c = running

\* Guards leave PRIMASK as they found it: when none is left, interrupts are on
\* again, and a program that had them off still does.
MaskKept == (\A c \in Contexts : depth[c] = 0) => primask = boot

\* An operation that took effect: when its first word is written, or with the
\* last word it reads.
Done(c) == call[c] # None /\ pc[c] \in {"write_high", "restore"}

\* The object as the operations leave it, what took effect, and the answers.
Whole ==
  IF pc[running] = "write_high"
    THEN New(call[running], <<glo[running], ghi[running]>>)
    ELSE <<lo, hi>>

Dones == [c \in Contexts |-> Done(c)]

Answers == [c \in Contexts |-> IF Done(c) THEN <<glo[c], ghi[c]>> ELSE <<Zero, Zero>>]

Cell == INSTANCE AtomicCell WITH cell <- Whole, done <- Dones, answer <- Answers

\* The operations are atomic: each takes effect on all words of its object at
\* one moment, and answers what the object held then.
Atomic == Cell!Spec

\* Interrupts do not stay off.
InterruptsComeBack == ~boot => (primask ~> ~primask)
=============================================================================
