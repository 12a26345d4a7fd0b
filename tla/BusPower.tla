------------------------------ MODULE BusPower ------------------------------
(***************************************************************************)
(* Devices that share one bus (Devices/SharedBusDevice.hpp) under the      *)
(* manager that switches their power (Devices/BusPowerManager.hpp).  All   *)
(* of it runs in main's loop: one call of the manager's handler() after    *)
(* another, in an idle one the handlers of the devices in their order.     *)
(***************************************************************************)
EXTENDS Integers

CONSTANTS
  N,          \* the number of devices
  PowerOff,   \* the 500 ms of State::reset, in ticks
  PowerOn,    \* the 100 ms of State::poweron, in ticks
  MaxErrors,  \* the 5 of error_count > 5
  MaxResets,  \* the 5 of reset_count > 5
  MaxFails    \* bound on the errors one call of a device's handler counts

\* The last conjunct keeps the eight bits of the counters from wrapping.
ASSUME BusPowerAssumption ==
  /\ N \in Nat /\ PowerOff \in Nat /\ PowerOn \in Nat
  /\ MaxErrors \in Nat /\ MaxResets \in Nat \ {0} /\ MaxFails \in Nat \ {0}
  /\ MaxErrors + MaxFails < 256 /\ MaxResets + 1 < 256

Devices == 1 .. N

VARIABLES
  st,      \* st_
  left,    \* waitTime_ - now(), in ticks; -1 when it is past
  turn,    \* 0 outside of an idle pass, else the device whose handler is next
  pin,     \* the power pin; "unset" until it is made an output
  offFor,  \* how long the pin was off, up to PowerOff + 1
  onFor,   \* how long it has been on since, up to PowerOn + 1
  held,    \* whether the bus is taken
  owner,   \* owner_ of each device
  errorCount,  \* error_count of each device
  resets,  \* reset_count of each device
  soft,    \* what a device's software knows: "initial", "running", or, when
           \* the power went off since, "stale"
  dead     \* the devices that fail until their power is cycled

power  == <<pin, offFor, onFor>>
bus    == <<held, owner>>
counts == <<errorCount, resets>>
powerVars   == <<st, left, turn, power, bus, counts, soft, dead>>

PowerInit ==
  /\ st = "reset" /\ left = -1 /\ turn = 0
  /\ pin = "unset" /\ offFor = 0 /\ onFor = 0
  /\ held = FALSE /\ owner = [d \in Devices |-> FALSE]
  /\ errorCount = [d \in Devices |-> 0] /\ resets = [d \in Devices |-> 1]
  /\ soft = [d \in Devices |-> "initial"]
  /\ dead = {}
-----------------------------------------------------------------------------
(* The operations of a device.                                              *)

Acquire(d) ==
  /\ owner[d] \/ ~held
  /\ owner' = [owner EXCEPT ![d] = TRUE]
  /\ held' = TRUE

\* Mutant: the bus is released whoever owns it.
ReleaseUnowned(d) ==
  /\ owner' = [owner EXCEPT ![d] = FALSE]
  /\ held' = FALSE

Release(d) ==
  /\ owner' = [owner EXCEPT ![d] = FALSE]
  /\ held' = (held /\ ~owner[d])

\* ++error_count, n times
IncrementErrorCount(d, n) ==
  /\ errorCount' = [errorCount EXCEPT ![d] = (@ + n) % 256]
  /\ UNCHANGED resets

ResetErrors(d) ==
  /\ errorCount' = [errorCount EXCEPT ![d] = 0]
  /\ resets' = [resets EXCEPT ![d] = 1]

NeedsPowerReset(d) == resets[d] > MaxResets

\* resetHandler returns true.
Resets(d) == errorCount[d] > MaxErrors \/ resets[d] = 0

\* What resetHandler does to the counts.
ResetCounts(d) ==
  /\ errorCount' = [errorCount EXCEPT ![d] = IF @ > MaxErrors THEN 0 ELSE @]
  /\ resets' = [resets EXCEPT ![d] = (@ + 1) % 256]

\* The resetters put the device's software back to its start; they may let
\* the bus go.
ResetHandler(d) ==
  /\ Resets(d)
  /\ ResetCounts(d)
  /\ soft' = [soft EXCEPT ![d] = "initial"]
  /\ Release(d) \/ UNCHANGED bus

\* A device without the bus does not get it, or has nothing to do.
Rest(d) ==
  /\ ~Resets(d) /\ ~owner[d]
  /\ UNCHANGED <<bus, counts, soft>>

\* A device with the bus works, and succeeds or fails; it keeps the bus or
\* lets it go.
Work(d) ==
  /\ ~Resets(d)
  /\ owner[d] \/ ~held
  /\ Acquire(d) \/ Release(d)
  /\ \/ d \notin dead /\ ResetErrors(d)
     \/ \E n \in 1 .. MaxFails : IncrementErrorCount(d, n)
  /\ soft' = [soft EXCEPT ![d] = IF @ = "stale" THEN @ ELSE "running"]
-----------------------------------------------------------------------------
(* handler() of the manager.                                                *)

\* case State::reset
Reset ==
  /\ st = "reset"
  /\ st' = "poweron"
  /\ left' = PowerOff
  /\ pin' = "off" /\ offFor' = 0
  /\ soft' = [d \in Devices |-> IF soft[d] = "initial" THEN "initial" ELSE "stale"]
  /\ UNCHANGED <<turn, onFor, bus, counts, dead>>

\* Mutant: the deadline is left as it is.
PoweronNoWait ==
  /\ st = "poweron" /\ left < 0
  /\ st' = "poweron_wait"
  /\ pin' = "on" /\ onFor' = 0
  /\ dead' \in SUBSET dead
  /\ UNCHANGED <<left, turn, offFor, bus, counts, soft>>

\* case State::poweron; a power cycle may bring a dead device back.
Poweron ==
  /\ st = "poweron" /\ left < 0
  /\ st' = "poweron_wait"
  /\ left' = PowerOn
  /\ pin' = "on" /\ onFor' = 0
  /\ dead' \in SUBSET dead
  /\ UNCHANGED <<turn, offFor, bus, counts, soft>>

\* Mutant: the state is never left.
PoweronWaitStays ==
  /\ st = "poweron_wait" /\ left < 0
  /\ st' = "poweron_wait"
  /\ UNCHANGED <<left, turn, power, bus, counts, soft, dead>>

\* case State::poweron_wait
PoweronWait ==
  /\ st = "poweron_wait" /\ left < 0
  /\ st' = "idle"
  /\ UNCHANGED <<left, turn, power, bus, counts, soft, dead>>

\* case State::idle: call_handler() begins,
Idle ==
  /\ st = "idle" /\ turn = 0
  /\ turn' = 1
  /\ UNCHANGED <<st, left, power, bus, counts, soft, dead>>

\* calls the handlers of the devices
CallHandler ==
  /\ turn \in Devices
  /\ ResetHandler(turn) \/ Rest(turn) \/ Work(turn)
  /\ turn' = turn + 1
  /\ UNCHANGED <<st, left, power, dead>>

\* Mutant: reset() does not mark the device as one to be reset.
CallResetKeepsCount ==
  /\ owner' = [d \in Devices |-> FALSE]
  /\ held' = (held /\ \A d \in Devices : ~owner[d])
  /\ UNCHANGED counts

\* Mutant: reset() leaves the bus to its owner.
CallResetKeepsBus ==
  /\ resets' = [d \in Devices |-> 0]
  /\ UNCHANGED <<bus, errorCount>>

\* reset() of every device
CallReset ==
  /\ owner' = [d \in Devices |-> FALSE]
  /\ held' = (held /\ \A d \in Devices : ~owner[d])
  /\ resets' = [d \in Devices |-> 0]
  /\ UNCHANGED errorCount

\* and ends with if(needsPowerReset()).
EndPass ==
  /\ turn = N + 1
  /\ turn' = 0
  /\ IF \E d \in Devices : NeedsPowerReset(d)
       THEN CallReset /\ st' = "reset"
       ELSE UNCHANGED <<bus, counts, st>>
  /\ UNCHANGED <<left, power, soft, dead>>

ManagerHandler == Reset \/ Poweron \/ PoweronWait \/ Idle \/ CallHandler \/ EndPass
-----------------------------------------------------------------------------
Die ==
  /\ \E d \in Devices \ dead : dead' = dead \cup {d}
  /\ UNCHANGED <<st, left, turn, power, bus, counts, soft>>

Least(a, b) == IF a < b THEN a ELSE b

\* Time passes between two calls of handler().
PowerTick ==
  /\ turn = 0
  /\ left' = IF left < 0 THEN left ELSE left - 1
  /\ offFor' = IF pin = "off" THEN Least(offFor + 1, PowerOff + 1) ELSE offFor
  /\ onFor' = IF pin = "on" THEN Least(onFor + 1, PowerOn + 1) ELSE onFor
  /\ UNCHANGED <<st, turn, pin, bus, counts, soft, dead>>

PowerNext == ManagerHandler \/ Die \/ PowerTick

PowerSpec == PowerInit /\ [][PowerNext]_powerVars

\* The main loop calls handler() for ever, and time passes.
PowerFairness == WF_powerVars(ManagerHandler) /\ WF_powerVars(PowerTick)

PowerFairSpec == PowerSpec /\ PowerFairness
-----------------------------------------------------------------------------
\* Types of the state; the counters stay far from the end of their eight bits.
PowerTypeOK ==
  /\ st \in {"reset", "poweron", "poweron_wait", "idle"}
  /\ left \in Int /\ left >= -1
  /\ turn \in 0 .. N + 1
  /\ pin \in {"unset", "off", "on"}
  /\ offFor \in 0 .. PowerOff + 1 /\ onFor \in 0 .. PowerOn + 1
  /\ held \in BOOLEAN /\ owner \in [Devices -> BOOLEAN]
  /\ errorCount \in [Devices -> 0 .. MaxErrors + MaxFails]
  /\ resets \in [Devices -> 0 .. MaxResets + 1]
  /\ soft \in [Devices -> {"initial", "running", "stale"}]
  /\ dead \subseteq Devices

\* The bus is taken exactly when one device owns it, and by one device only;
\* when the power is to go off, by none.
Exclusive ==
  /\ \A d, e \in Devices : owner[d] /\ owner[e] => d = e
  /\ held <=> \E d \in Devices : owner[d]
  /\ st # "idle" => ~held

\* A device whose power was cycled is put back to its start before it works
\* on the bus again: no owner's software is from before the power went off.
OwnerReset ==
  \A d \in Devices : soft[d] = "stale" => resets[d] = 0 /\ ~owner[d]

\* No device's handler runs unless its power was off for more than PowerOff
\* and has been on for more than PowerOn.
Settled ==
  st = "idle" => pin = "on" /\ offFor > PowerOff /\ onFor > PowerOn

\* A power cycle comes to its end.
PowerComesBack == st = "reset" ~> st = "idle"

\* A device that dies while it owns the bus does not keep it for ever: its
\* errors lead to resets, its resets to a power cycle.
BusComesBack ==
  \A d \in Devices : d \in dead /\ owner[d] ~> ~owner[d]
=============================================================================
