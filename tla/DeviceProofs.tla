---------------------------- MODULE DeviceProofs ----------------------------
(***************************************************************************)
(* Proofs about the devices of Devices/: an I2CDeviceBase for every        *)
(* driver, timeout and error threshold, and the devices under a            *)
(* BusPowerManager for every number of them, every threshold and every     *)
(* waiting time.                                                           *)
(***************************************************************************)
EXTENDS I2CDevice, BusPower, TLAPS

\* Where handler() is once it found or made the flag low and has submitted
\* nothing.
Unoccupied == {"errors", "error_reset", "error_errors", "idle", "submit",
               "expire_reset", "expire_errors"}

\* What holds unless the answer of a request given up may still come: nothing
\* is outstanding while main is between its look at the flag, or the watchdog's
\* lowering it, and its submit, nor while a callback runs before it submits;
\* otherwise the flag is up or about to be set.
UnlessLate ==
  ~late =>
    /\ mpc # "assert"
    /\ mpc \in Unoccupied => out = {} /\ ~inFlight /\ ipc = "none"
    /\ ipc \in {"clear", "func"} => out = {}
    /\ ipc = "none" /\ out # {} => inFlight \/ mpc = "mark"

Inv == TypeOK /\ OneOutstanding /\ UnlessLate

\* A request is one the driver did not hold.
LEMMA Accepted ==
  ASSUME TypeOK, Accept
  PROVE  /\ out' \subseteq Requests
         /\ out = {} => \A o, p \in out' : o = p
BY DEF TypeOK, Accept

\* Every step of main keeps Inv.
LEMMA MainInv == Inv /\ Main => Inv'
<1> SUFFICES ASSUME Inv, Main PROVE Inv'
  OBVIOUS
<1> USE I2CDeviceAssumption DEF Inv, UnlessLate, OneOutstanding, Unoccupied, At, flags, driver
<1>1. CASE Handler
  BY <1>1 DEF TypeOK, Handler
<1>2. CASE Watchdog
  BY <1>2 DEF TypeOK, Watchdog
<1>3. CASE Expire
  BY <1>3 DEF TypeOK, Expire
<1>4. CASE ResetLogic
  BY <1>4 DEF TypeOK, ResetLogic
<1>5. CASE ResetErrorCount
  BY <1>5 DEF TypeOK, ResetErrorCount
<1>6. CASE CheckErrors
  BY <1>6 DEF TypeOK, CheckErrors
<1>7. CASE IdleLogic
  BY <1>7 DEF TypeOK, IdleLogic
<1>8. CASE Submit
  <2>1. CASE out' = out /\ mpc' = "loop"
    BY <1>8, <2>1 DEF TypeOK, Submit
  <2>2. CASE Accept /\ mpc' = "mark"
    <3>1. /\ out' \subseteq Requests
          /\ out = {} => \A o, p \in out' : o = p
      BY <2>2, Accepted
    <3> QED
      BY <1>8, <2>2, <3>1 DEF TypeOK, Submit
  <2> QED
    BY <1>8, <2>1, <2>2 DEF Submit
<1>9. CASE Mark
  BY <1>9 DEF TypeOK, Mark
<1>10. CASE Stamp
  BY <1>10 DEF TypeOK, Stamp
<1> QED
  BY <1>1, <1>2, <1>3, <1>4, <1>5, <1>6, <1>7, <1>8, <1>9, <1>10 DEF Main

\* So does every step of the driver's interrupt, wherever main is.
LEMMA InterruptInv == Inv /\ (Answer \/ Interrupt) => Inv'
<1> SUFFICES ASSUME Inv, Answer \/ Interrupt PROVE Inv'
  OBVIOUS
<1> USE I2CDeviceAssumption DEF Inv, UnlessLate, OneOutstanding, Unoccupied, flags
<1>1. CASE Answer
  <2>1. PICK r \in out : out' = out \ {r}
    BY <1>1 DEF Answer
  <2>2. errors' \in 0 .. ErrorThreshold + 1
    BY <1>1 DEF Answer, TypeOK, Min
  <2>3. ~late => out' = {}
    BY <2>1
  <2>4. /\ ipc = "none" /\ ipc' = "clear" /\ mpc # "assert"
        /\ UNCHANGED <<inFlight, age, mpc, late>>
    BY <1>1 DEF Answer
  <2>5. TypeOK'
    BY <2>1, <2>2, <2>4 DEF TypeOK
  <2> QED
    BY <2>1, <2>3, <2>4, <2>5
<1>2. CASE ClearFlag
  BY <1>2 DEF TypeOK, ClearFlag
<1>3. CASE Callback
  <2>1. CASE out' = out /\ ipc' = "none"
    BY <1>3, <2>1 DEF TypeOK, Callback
  <2>2. CASE Accept /\ ipc' = "mark"
    <3>1. /\ out' \subseteq Requests
          /\ out = {} => \A o, p \in out' : o = p
      BY <2>2, Accepted
    <3> QED
      BY <1>3, <2>2, <3>1 DEF TypeOK, Callback
  <2> QED
    BY <1>3, <2>1, <2>2 DEF Callback
<1>4. CASE CallbackMark
  BY <1>4 DEF TypeOK, CallbackMark
<1> QED
  BY <1>1, <1>2, <1>3, <1>4 DEF Interrupt

\* Inv is inductive.
LEMMA Invariance == Spec => []Inv
<1>1. Init => Inv
  <2>1. Init => TypeOK
    <3>1. 0 \in 0 .. Timeout + 1 /\ 0 \in 0 .. ErrorThreshold + 1
      BY I2CDeviceAssumption
    <3> QED
      BY <3>1 DEF Init, TypeOK
  <2>2. Init => OneOutstanding /\ UnlessLate
    BY DEF Init, OneOutstanding, UnlessLate, Unoccupied
  <2> QED
    BY <2>1, <2>2 DEF Inv
<1>2. Inv /\ [Next]_vars => Inv'
  <2>1. Inv /\ Tick => Inv'
    BY I2CDeviceAssumption DEF Tick, Inv, TypeOK, OneOutstanding, UnlessLate, Unoccupied, driver
  <2>2. Inv /\ UNCHANGED vars => Inv'
    BY DEF Inv, TypeOK, OneOutstanding, UnlessLate, vars, flags, driver
  <2> QED
    BY <2>1, <2>2, MainInv, InterruptInv DEF Next
<1> QED
  BY <1>1, <1>2, PTL DEF Spec

\* The flags, the positions and the driver's requests keep their types.
THEOREM TypeCorrect == Spec => []TypeOK
BY Invariance, PTL DEF Inv

\* Unless the answer of a request given up may still come, inFlight_ covers
\* what the driver holds: the answer may overtake the setting of the flag, never the other way round.
THEOREM FlagTracks == Spec => []Tracked
<1>1. Inv => Tracked
  BY DEF Inv, UnlessLate, Tracked
<1> QED
  BY <1>1, Invariance, PTL

\* Unless the answer of a request given up may still come, main and the
\* callbacks together have one request outstanding at most.
THEOREM SingleRequest == Spec => []OneOutstanding
BY Invariance, PTL DEF Inv

\* No submit runs into its assertion unless the answer of a request given up
\* was still to come when handler() last looked at the flag.
THEOREM AssertSafe == Spec => []AssertNeedsLateAnswer
<1>1. Inv => AssertNeedsLateAnswer
  BY DEF Inv, UnlessLate, AssertNeedsLateAnswer
<1> QED
  BY <1>1, Invariance, PTL
-----------------------------------------------------------------------------
(* BusPower. *)

\* Where the manager is: devices run in an idle pass only, and the ones whose
\* turn is still to come have not passed the limit that ends the pass.
Passes ==
  /\ turn # 0 => st = "idle"
  /\ \A d \in Devices : turn = 0 \/ turn <= d => resets[d] <= MaxResets

\* What is left of a deadline and what has passed make up the waiting time.
Clocks ==
  /\ st = "poweron" => pin = "off" /\ offFor + left = PowerOff
  /\ st = "poweron_wait" => pin = "on" /\ offFor > PowerOff /\ onFor + left = PowerOn

\* A device that ran before the power is to go off is one to be reset.
Marked ==
  \A d \in Devices : st = "reset" /\ soft[d] # "initial" => resets[d] = 0

IInv == PowerTypeOK /\ Exclusive /\ OwnerReset /\ Settled /\ Passes /\ Clocks /\ Marked

\* Eight bits do not wrap below 256.
LEMMA NoWrap ==
  ASSUME NEW x \in Nat, x < 256
  PROVE  x % 256 = x
OBVIOUS

\* The manager starts in IInv.
LEMMA PowerInitIInv == PowerInit => IInv
<1> SUFFICES ASSUME PowerInit PROVE IInv
  OBVIOUS
<1>1. /\ 0 \in 0 .. N + 1 /\ 0 \in 0 .. PowerOff + 1 /\ 0 \in 0 .. PowerOn + 1
      /\ -1 \in Int /\ -1 >= -1
  BY BusPowerAssumption
<1>2. 0 \in 0 .. MaxErrors + MaxFails /\ 1 \in 0 .. MaxResets + 1
  BY BusPowerAssumption
<1>3. PowerTypeOK
  <2>1. /\ left \in Int /\ left >= -1 /\ turn \in 0 .. N + 1
        /\ offFor \in 0 .. PowerOff + 1 /\ onFor \in 0 .. PowerOn + 1
    BY <1>1 DEF PowerInit
  <2>2. /\ owner \in [Devices -> BOOLEAN]
        /\ errorCount \in [Devices -> 0 .. MaxErrors + MaxFails]
        /\ resets \in [Devices -> 0 .. MaxResets + 1]
        /\ soft \in [Devices -> {"initial", "running", "stale"}]
    BY <1>2 DEF PowerInit
  <2> QED
    BY <2>1, <2>2 DEF PowerInit, PowerTypeOK
<1>4. Exclusive /\ OwnerReset /\ Settled
  BY DEF PowerInit, Exclusive, OwnerReset, Settled
<1>5. Passes /\ Clocks /\ Marked
  BY BusPowerAssumption DEF PowerInit, Passes, Clocks, Marked
<1> QED
  BY <1>3, <1>4, <1>5 DEF IInv

\* What the handler of device d does to the bus: others keep their ownership,
\* and the bus is taken exactly when someone owns it.
LEMMA HandlerBus ==
  ASSUME NEW d \in Devices, PowerTypeOK, Exclusive,
         \/ Release(d)
         \/ UNCHANGED bus
         \/ (owner[d] \/ ~held) /\ Acquire(d)
  PROVE  /\ held' \in BOOLEAN /\ owner' \in [Devices -> BOOLEAN]
         /\ \A e \in Devices \ {d} : owner'[e] = owner[e]
         /\ \A e, f \in Devices : owner'[e] /\ owner'[f] => e = f
         /\ held' <=> \E e \in Devices : owner'[e]
<1>1. CASE Release(d)
  BY <1>1 DEF PowerTypeOK, Exclusive, Release
<1>2. CASE UNCHANGED bus
  BY <1>2 DEF PowerTypeOK, Exclusive, bus
<1>3. CASE (owner[d] \/ ~held) /\ Acquire(d)
  BY <1>3 DEF PowerTypeOK, Exclusive, Acquire
<1> QED
  BY <1>1, <1>2, <1>3

\* What it does to the counters: they stay within their limits, and an owner's
\* software was put back to its start first.
LEMMA HandlerCounts ==
  ASSUME NEW d \in Devices, PowerTypeOK, resets[d] <= MaxResets,
         \/ Resets(d) /\ ResetCounts(d)
         \/ UNCHANGED counts
         \/ ~Resets(d) /\ ResetErrors(d)
         \/ ~Resets(d) /\ \E n \in 1 .. MaxFails : IncrementErrorCount(d, n)
  PROVE  /\ errorCount' \in [Devices -> 0 .. MaxErrors + MaxFails]
         /\ resets' \in [Devices -> 0 .. MaxResets + 1]
         /\ \A e \in Devices \ {d} : resets'[e] = resets[e]
<1> USE BusPowerAssumption DEF PowerTypeOK
<1>1. CASE Resets(d) /\ ResetCounts(d)
  <2>1. (resets[d] + 1) % 256 = resets[d] + 1
    BY NoWrap
  <2>2. resets[d] + 1 \in 0 .. MaxResets + 1 /\ 0 \in 0 .. MaxErrors + MaxFails
    OBVIOUS
  <2> QED
    BY <1>1, <2>1, <2>2 DEF ResetCounts
<1>2. CASE UNCHANGED counts
  BY <1>2 DEF counts
<1>3. CASE ~Resets(d) /\ ResetErrors(d)
  <2>1. 1 \in 0 .. MaxResets + 1 /\ 0 \in 0 .. MaxErrors + MaxFails
    OBVIOUS
  <2> QED
    BY <1>3, <2>1 DEF ResetErrors
<1>4. ASSUME ~Resets(d), NEW n \in 1 .. MaxFails, IncrementErrorCount(d, n)
      PROVE  /\ errorCount' \in [Devices -> 0 .. MaxErrors + MaxFails]
             /\ resets' = resets
  <2>1. errorCount[d] + n \in 0 .. MaxErrors + MaxFails
    BY <1>4 DEF Resets
  <2>2. (errorCount[d] + n) % 256 = errorCount[d] + n
    BY <2>1, NoWrap
  <2> QED
    BY <1>4, <2>1, <2>2 DEF IncrementErrorCount
<1> QED
  BY <1>1, <1>2, <1>3, <1>4

\* The handler of the device whose turn it is keeps the invariant.
LEMMA CallHandlerIInv == IInv /\ CallHandler => IInv'
<1> SUFFICES ASSUME IInv, CallHandler PROVE IInv'
  OBVIOUS
<1> DEFINE d == turn
<1>1. /\ d \in Devices /\ d # 0 /\ st = "idle" /\ resets[d] <= MaxResets
      /\ turn' = d + 1 /\ UNCHANGED <<st, left, power, dead>>
  BY BusPowerAssumption DEF IInv, PowerTypeOK, Passes, CallHandler, Devices
<1>2. PowerTypeOK /\ Exclusive /\ OwnerReset /\ Settled /\ Passes
  BY DEF IInv
<1>3. /\ held' \in BOOLEAN /\ owner' \in [Devices -> BOOLEAN]
      /\ \A e \in Devices \ {d} : owner'[e] = owner[e]
      /\ \A e, f \in Devices : owner'[e] /\ owner'[f] => e = f
      /\ held' <=> \E e \in Devices : owner'[e]
  <2>1. \/ Release(d)
        \/ UNCHANGED bus
        \/ (owner[d] \/ ~held) /\ Acquire(d)
    BY DEF CallHandler, ResetHandler, Rest, Work
  <2> HIDE DEF d
  <2> QED
    BY <1>1, <1>2, <2>1, HandlerBus
<1>4. /\ errorCount' \in [Devices -> 0 .. MaxErrors + MaxFails]
      /\ resets' \in [Devices -> 0 .. MaxResets + 1]
      /\ \A e \in Devices \ {d} : resets'[e] = resets[e]
  <2>1. \/ Resets(d) /\ ResetCounts(d)
        \/ UNCHANGED counts
        \/ ~Resets(d) /\ ResetErrors(d)
        \/ ~Resets(d) /\ \E n \in 1 .. MaxFails : IncrementErrorCount(d, n)
    BY DEF CallHandler, ResetHandler, Rest, Work, counts
  <2> HIDE DEF d
  <2> QED
    BY <1>1, <1>2, <2>1, HandlerCounts
<1>5. /\ soft' \in [Devices -> {"initial", "running", "stale"}]
      /\ \A e \in Devices \ {d} : soft'[e] = soft[e]
      /\ soft'[d] = "stale" => soft[d] = "stale" /\ ~Resets(d)
  <2>1. CASE ResetHandler(d)
    BY <1>1, <1>2, <2>1 DEF PowerTypeOK, ResetHandler
  <2>2. CASE Rest(d)
    BY <1>1, <1>2, <2>2 DEF PowerTypeOK, Rest
  <2>3. CASE Work(d)
    BY <1>1, <1>2, <2>3 DEF PowerTypeOK, Work
  <2> QED
    BY <2>1, <2>2, <2>3 DEF CallHandler
<1>6. soft'[d] # "stale"
  BY <1>1, <1>2, <1>5 DEF OwnerReset, Resets
<1>7. PowerTypeOK'
  <2>1. turn' \in 0 .. N + 1
    BY <1>1, BusPowerAssumption DEF Devices
  <2> HIDE DEF d
  <2> QED
    BY <1>1, <1>2, <1>3, <1>4, <1>5, <2>1 DEF PowerTypeOK, power
<1> HIDE DEF d
<1>8. Exclusive'
  BY <1>1, <1>3 DEF Exclusive
<1>9. OwnerReset'
  BY <1>2, <1>3, <1>4, <1>5, <1>6 DEF OwnerReset
<1>10. Settled' /\ Clocks' /\ Marked'
  BY <1>1, <1>2 DEF Settled, Clocks, Marked, power
<1>11. Passes'
  <2> SUFFICES ASSUME NEW e \in Devices, turn' = 0 \/ turn' <= e
               PROVE  resets'[e] <= MaxResets
    BY <1>1 DEF Passes
  <2>1. e # d /\ d <= e
    BY <1>1, BusPowerAssumption DEF Devices
  <2> QED
    BY <1>1, <1>2, <1>4, <2>1 DEF Passes, d
<1> QED
  BY <1>7, <1>8, <1>9, <1>10, <1>11 DEF IInv

\* The pass ends; the devices are reset, and nobody owns the bus, or no device
\* has passed the limit.
LEMMA EndPassIInv == IInv /\ EndPass => IInv'
<1> SUFFICES ASSUME IInv, EndPass PROVE IInv'
  OBVIOUS
<1>1. /\ turn = N + 1 /\ turn' = 0 /\ st = "idle"
      /\ UNCHANGED <<left, power, soft, dead>>
  BY BusPowerAssumption DEF IInv, Passes, EndPass
<1>2. PowerTypeOK /\ Exclusive /\ OwnerReset /\ Settled
  BY DEF IInv
<1>3. 0 \in 0 .. MaxResets + 1 /\ 0 \in 0 .. N + 1 /\ 0 <= MaxResets
  BY BusPowerAssumption
<1>4. CASE (\E d \in Devices : NeedsPowerReset(d)) /\ CallReset /\ st' = "reset"
  <2>1. /\ owner' = [d \in Devices |-> FALSE] /\ held' = FALSE
        /\ resets' = [d \in Devices |-> 0] /\ errorCount' = errorCount
    BY <1>2, <1>4 DEF CallReset, Exclusive
  <2>2. PowerTypeOK'
    <3>1. /\ owner' \in [Devices -> BOOLEAN] /\ held' \in BOOLEAN
          /\ resets' \in [Devices -> 0 .. MaxResets + 1]
      BY <1>3, <2>1
    <3> QED
      BY <1>1, <1>2, <1>3, <1>4, <2>1, <3>1 DEF PowerTypeOK, power
  <2>3. Exclusive' /\ OwnerReset' /\ Settled'
    BY <1>1, <1>4, <2>1 DEF Exclusive, OwnerReset, Settled
  <2>4. Passes' /\ Clocks' /\ Marked'
    BY <1>1, <1>3, <1>4, <2>1 DEF Passes, Clocks, Marked
  <2> QED
    BY <2>2, <2>3, <2>4 DEF IInv
<1>5. CASE (\A d \in Devices : ~NeedsPowerReset(d)) /\ UNCHANGED <<bus, counts, st>>
  <2>1. PowerTypeOK'
    BY <1>1, <1>2, <1>3, <1>5 DEF PowerTypeOK, power, bus, counts
  <2>2. Exclusive' /\ OwnerReset' /\ Settled'
    BY <1>1, <1>2, <1>5 DEF Exclusive, OwnerReset, Settled, power, bus, counts
  <2>3. \A d \in Devices : resets'[d] <= MaxResets
    BY <1>2, <1>5, BusPowerAssumption DEF NeedsPowerReset, PowerTypeOK, counts
  <2>4. Passes' /\ Clocks' /\ Marked'
    BY <1>1, <1>5, <2>3 DEF Passes, Clocks, Marked
  <2> QED
    BY <2>1, <2>2, <2>4 DEF IInv
<1> QED
  BY <1>4, <1>5 DEF EndPass

\* The power goes off: every device that ran is one to be reset already.
LEMMA ResetIInv == IInv /\ Reset => IInv'
<1> SUFFICES ASSUME IInv, Reset PROVE IInv'
  OBVIOUS
<1>1. /\ st = "reset" /\ st' = "poweron" /\ left' = PowerOff
      /\ pin' = "off" /\ offFor' = 0
      /\ soft' = [d \in Devices |-> IF soft[d] = "initial" THEN "initial" ELSE "stale"]
      /\ UNCHANGED <<turn, onFor, bus, counts, dead>>
  BY DEF Reset
<1>2. PowerTypeOK /\ Exclusive /\ OwnerReset /\ Passes /\ Marked
  BY DEF IInv
<1>3. PowerTypeOK'
  <2>1. left' \in Int /\ left' >= -1 /\ offFor' \in 0 .. PowerOff + 1
    BY <1>1, BusPowerAssumption
  <2>2. soft' \in [Devices -> {"initial", "running", "stale"}]
    BY <1>1
  <2> QED
    BY <1>1, <1>2, <2>1, <2>2 DEF PowerTypeOK, bus, counts
<1>4. Exclusive' /\ Settled' /\ Marked'
  BY <1>1, <1>2 DEF Exclusive, Settled, Marked, bus
<1>5. OwnerReset'
  BY <1>1, <1>2 DEF OwnerReset, Marked, Exclusive, bus, counts
<1>6. Passes' /\ Clocks'
  BY <1>1, <1>2, BusPowerAssumption DEF Passes, Clocks, counts
<1> QED
  BY <1>3, <1>4, <1>5, <1>6 DEF IInv

\* The power comes on after its time off, and an idle pass after its time on.
LEMMA PoweronIInv == IInv /\ (Poweron \/ PoweronWait \/ Idle) => IInv'
<1> SUFFICES ASSUME IInv, Poweron \/ PoweronWait \/ Idle PROVE IInv'
  OBVIOUS
<1>1. PowerTypeOK /\ Exclusive /\ OwnerReset /\ Settled /\ Passes /\ Clocks
  BY DEF IInv
<1>2. /\ st \in {"poweron", "poweron_wait", "idle"}
      /\ st' \in {"poweron_wait", "idle"}
      /\ UNCHANGED <<offFor, bus, counts, soft>>
  BY DEF Poweron, PoweronWait, Idle, power
<1>3. Exclusive' /\ OwnerReset' /\ Marked'
  <2>1. st' # "idle" => st # "idle"
    BY DEF Poweron, PoweronWait, Idle
  <2> QED
    BY <1>1, <1>2, <2>1 DEF Exclusive, OwnerReset, Marked, bus, counts
<1>4. CASE Poweron
  <2>1. left < 0 /\ left \in Int /\ left >= -1 /\ offFor \in Int /\ offFor + left = PowerOff
    BY <1>1, <1>4 DEF PowerTypeOK, Clocks, Poweron
  <2>2. PowerTypeOK'
    <3>1. left' \in Int /\ left' >= -1 /\ onFor' \in 0 .. PowerOn + 1
      BY <1>4, BusPowerAssumption DEF Poweron
    <3> QED
      BY <1>1, <1>2, <1>4, <3>1 DEF PowerTypeOK, Poweron, bus, counts
  <2>3. Settled' /\ Clocks'
    BY <1>4, <2>1, BusPowerAssumption DEF Settled, Clocks, Poweron
  <2>4. Passes'
    BY <1>1, <1>4 DEF Passes, Poweron, counts
  <2> QED
    BY <1>3, <2>2, <2>3, <2>4 DEF IInv
<1>5. CASE PoweronWait
  <2>1. PowerTypeOK' /\ Passes' /\ Clocks'
    BY <1>1, <1>5 DEF PowerTypeOK, Passes, Clocks, PoweronWait, power, bus, counts
  <2>2. Settled'
    BY <1>1, <1>5, BusPowerAssumption DEF PowerTypeOK, Settled, Clocks, PoweronWait, power
  <2> QED
    BY <1>3, <2>1, <2>2 DEF IInv
<1>6. CASE Idle
  <2>1. 1 \in 0 .. N + 1 /\ \A d \in Devices : resets[d] <= MaxResets
    BY <1>1, <1>6, BusPowerAssumption DEF Passes, Idle
  <2>2. PowerTypeOK' /\ Passes' /\ Clocks' /\ Settled'
    BY <1>1, <1>6, <2>1 DEF PowerTypeOK, Passes, Clocks, Settled, Idle, power, bus, counts
  <2> QED
    BY <1>3, <2>2 DEF IInv
<1> QED
  BY <1>4, <1>5, <1>6

\* Time passes, and what was left of a deadline with it.
LEMMA PowerTickIInv == IInv /\ PowerTick => IInv'
<1> SUFFICES ASSUME IInv, PowerTick PROVE IInv'
  OBVIOUS
<1>1. PowerTypeOK /\ Exclusive /\ OwnerReset /\ Settled /\ Passes /\ Clocks /\ Marked
  BY DEF IInv
<1>2. UNCHANGED <<st, turn, pin, bus, counts, soft, dead>>
  BY DEF PowerTick
<1>3. /\ left' = IF left < 0 THEN left ELSE left - 1
      /\ offFor' = IF pin = "off" THEN Least(offFor + 1, PowerOff + 1) ELSE offFor
      /\ onFor' = IF pin = "on" THEN Least(onFor + 1, PowerOn + 1) ELSE onFor
  BY DEF PowerTick
<1>4. /\ left \in Int /\ left >= -1
      /\ offFor \in 0 .. PowerOff + 1 /\ onFor \in 0 .. PowerOn + 1
  BY <1>1 DEF PowerTypeOK
<1>5. /\ left' \in Int /\ left' >= -1
      /\ offFor' \in 0 .. PowerOff + 1 /\ onFor' \in 0 .. PowerOn + 1
  BY <1>3, <1>4, BusPowerAssumption DEF Least
<1>6. PowerTypeOK' /\ Exclusive' /\ OwnerReset' /\ Passes' /\ Marked'
  BY <1>1, <1>2, <1>5 DEF PowerTypeOK, Exclusive, OwnerReset, Passes, Marked, bus, counts
<1>7. Settled'
  BY <1>1, <1>2, <1>3, <1>4, BusPowerAssumption DEF Settled, Least
<1>8. Clocks'
  BY <1>1, <1>2, <1>3, <1>4, BusPowerAssumption DEF Clocks, Least
<1> QED
  BY <1>6, <1>7, <1>8 DEF IInv

\* Every step keeps IInv.
LEMMA PowerNextIInv == IInv /\ [PowerNext]_powerVars => IInv'
<1> SUFFICES ASSUME IInv, [PowerNext]_powerVars PROVE IInv'
  OBVIOUS
<1>1. CASE Die
  <2>1. dead' \subseteq Devices
    BY <1>1 DEF Die, IInv, PowerTypeOK
  <2> QED
    BY <1>1, <2>1 DEF Die, IInv, PowerTypeOK, Exclusive, OwnerReset, Settled, Passes, Clocks,
                      Marked, power, bus, counts
<1>2. CASE UNCHANGED powerVars
  BY <1>2 DEF powerVars, IInv, PowerTypeOK, Exclusive, OwnerReset, Settled, Passes, Clocks,
              Marked, power, bus, counts
<1> QED
  BY <1>1, <1>2, CallHandlerIInv, EndPassIInv, ResetIInv, PoweronIInv, PowerTickIInv
  DEF PowerNext, ManagerHandler

\* IInv is an inductive invariant of the specification.
LEMMA PowerInvariance == PowerSpec => []IInv
BY PowerInitIInv, PowerNextIInv, PTL DEF PowerSpec

\* The state has its types, and the eight-bit counters of the devices never
\* wrap, as long as one call of a device's handler counts few enough errors
\* (SharedBusDevice::incrementErrorCount, resetHandler).
THEOREM PowerTypeCorrect == PowerSpec => []PowerTypeOK
BY PowerInvariance, PTL DEF IInv

\* One device at most owns the bus, it is taken exactly when one does, and
\* nobody owns it while the power is off (acquire, release, reset).
THEOREM BusExclusive == PowerSpec => []Exclusive
BY PowerInvariance, PTL DEF IInv

\* After a power cycle every device is put back to its start before it works
\* (reset, resetHandler, BusPowerManager::handler).
THEOREM PowerCycleResets == PowerSpec => []OwnerReset
BY PowerInvariance, PTL DEF IInv

\* Devices run only after the power was off and then on for longer than the
\* times of State::reset and State::poweron (BusPowerManager::handler).
THEOREM PowerSettled == PowerSpec => []Settled
BY PowerInvariance, PTL DEF IInv
=============================================================================
