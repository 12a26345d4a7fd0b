----------------------------- MODULE I2CDevice ------------------------------
(***************************************************************************)
(* Kvasir::I2CDeviceBase (Devices/I2CDeviceBase.hpp): main calls handler() *)
(* for ever; the I2C driver answers requests from its interrupt, between   *)
(* any two steps of main, late or never.  A callback may submit the next   *)
(* request itself.                                                         *)
(***************************************************************************)
EXTENDS Naturals

CONSTANTS
  Requests,         \* the requests the driver can hold; bounds its queue
  Timeout,          \* kInFlightTimeout, in ticks
  ErrorThreshold    \* the template argument

ASSUME I2CDeviceAssumption == Timeout \in Nat /\ ErrorThreshold \in Nat

VARIABLES
  inFlight,   \* inFlight_
  age,        \* now() - inFlightSince_, counted up to Timeout + 1
  errors,     \* error_count_, counted up to ErrorThreshold + 1
  mpc,        \* where main is
  ipc,        \* where the interrupt handler is; "none" when it is not running
  out,        \* the requests the driver holds
  late        \* the watchdog gave up on a request, and handler() has not looked
              \* since with nothing left to answer

flags  == <<inFlight, age, errors>>
driver == <<out, ipc>>
vars   == <<flags, mpc, driver, late>>

Min(a, b) == IF a < b THEN a ELSE b

Init ==
  /\ inFlight = FALSE /\ age = 0 /\ errors = 0
  /\ mpc = "loop" /\ ipc = "none"
  /\ out = {} /\ late = FALSE

\* Main runs while the interrupt handler does not.
At(pc) == mpc = pc /\ ipc = "none"

\* I2C::submit takes the request, or refuses it.
Accept == \E r \in Requests \ out : out' = out \cup {r}
-----------------------------------------------------------------------------
(* handler(), in main.                                                      *)

\* Mutant: a request in flight does not end the handler.
HandlerNoReturn ==
  /\ At("loop")
  /\ mpc' = "errors"
  /\ late' = (late /\ out # {})
  /\ UNCHANGED <<flags, driver>>

\* if(inFlight_)
Handler ==
  /\ At("loop")
  /\ mpc' = IF inFlight THEN "watchdog" ELSE "errors"
  /\ late' = (late /\ out # {})
  /\ UNCHANGED <<flags, driver>>

\* Mutant: there is no watchdog.
WatchdogNever ==
  /\ At("watchdog")
  /\ mpc' = "loop"
  /\ UNCHANGED <<flags, driver, late>>

\* if(Clock::now() - inFlightSince_ > kInFlightTimeout)
Watchdog ==
  /\ At("watchdog")
  /\ mpc' = IF age > Timeout THEN "expire" ELSE "loop"
  /\ UNCHANGED <<flags, driver, late>>

\* inFlight_ = false
Expire ==
  /\ At("expire")
  /\ inFlight' = FALSE
  /\ late' = (out # {})
  /\ mpc' = "expire_reset"
  /\ UNCHANGED <<age, errors, driver>>

\* The device's resetLogic(); it may take its requests back from the driver.
ResetLogic ==
  /\ \/ At("expire_reset") /\ mpc' = "expire_errors"
     \/ At("error_reset") /\ mpc' = "error_errors"
  /\ out' \in {out, {}}
  /\ UNCHANGED <<flags, ipc, late>>

\* resetErrorCount()
ResetErrorCount ==
  /\ \/ At("expire_errors") /\ mpc' = "loop"
     \/ At("error_errors") /\ mpc' = "idle"
  /\ errors' = 0
  /\ UNCHANGED <<inFlight, age, driver, late>>

\* Mutant: errors are counted, and nothing is done about them.
CheckErrorsNever ==
  /\ At("errors")
  /\ mpc' = "idle"
  /\ UNCHANGED <<flags, driver, late>>

\* if(error_count_ > ErrorTreshold)
CheckErrors ==
  /\ At("errors")
  /\ mpc' = IF errors > ErrorThreshold THEN "error_reset" ELSE "idle"
  /\ UNCHANGED <<flags, driver, late>>

\* The device's idleLogic() has nothing to send, or calls submitQueued_ with
\* its assert(!inFlight_).
IdleLogic ==
  /\ At("idle")
  /\ mpc' \in {"loop", IF inFlight THEN "assert" ELSE "submit"}
  /\ UNCHANGED <<flags, driver, late>>

Submit ==
  /\ At("submit")
  /\ \/ Accept /\ mpc' = "mark"
     \/ out' = out /\ mpc' = "loop"
  /\ UNCHANGED <<flags, ipc, late>>

\* Mutant: the flag is not set after the driver took the request.
MarkNot ==
  /\ At("mark")
  /\ mpc' = "stamp"
  /\ UNCHANGED <<flags, driver, late>>

\* inFlight_ = true
Mark ==
  /\ At("mark")
  /\ inFlight' = TRUE
  /\ mpc' = "stamp"
  /\ UNCHANGED <<age, errors, driver, late>>

\* inFlightSince_ = Clock::now()
Stamp ==
  /\ At("stamp")
  /\ age' = 0
  /\ mpc' = "loop"
  /\ UNCHANGED <<inFlight, errors, driver, late>>

Main ==
  \/ Handler \/ Watchdog \/ Expire \/ ResetLogic \/ ResetErrorCount \/ CheckErrors
  \/ IdleLogic \/ Submit \/ Mark \/ Stamp
-----------------------------------------------------------------------------
(* The callback, in the driver's interrupt.                                 *)

\* The driver is done with a request; failed and notAcknowledged are errors.
Answer ==
  /\ ipc = "none" /\ mpc # "assert"
  /\ \E r \in out : out' = out \ {r}
  /\ errors' \in {errors, Min(errors + 1, ErrorThreshold + 1)}
  /\ ipc' = "clear"
  /\ UNCHANGED <<inFlight, age, mpc, late>>

\* inFlight_ = false
ClearFlag ==
  /\ ipc = "clear"
  /\ inFlight' = FALSE
  /\ ipc' = "func"
  /\ UNCHANGED <<age, errors, mpc, out, late>>

\* func(r) returns, or submits once more.
Callback ==
  /\ ipc = "func"
  /\ \/ out' = out /\ ipc' = "none"
     \/ Accept /\ ipc' = "mark"
  /\ UNCHANGED <<flags, mpc, late>>

\* inFlight_ = true; inFlightSince_ = Clock::now()
CallbackMark ==
  /\ ipc = "mark"
  /\ inFlight' = TRUE /\ age' = 0
  /\ ipc' = "none"
  /\ UNCHANGED <<errors, mpc, out, late>>

Interrupt == ClearFlag \/ Callback \/ CallbackMark

Tick ==
  /\ mpc # "assert" /\ age <= Timeout
  /\ age' = age + 1
  /\ UNCHANGED <<inFlight, errors, mpc, driver, late>>

Next == Main \/ Answer \/ Interrupt \/ Tick

Spec == Init /\ [][Next]_vars

\* The main loop calls handler() for ever, an interrupt handler that began
\* comes to its end, and time passes.  No answer need ever come.
Fairness == WF_vars(Main) /\ WF_vars(Interrupt) /\ WF_vars(Tick)

FairSpec == Spec /\ Fairness
-----------------------------------------------------------------------------
\* Types of the flags, the two positions and the driver's requests; a callback
\* that submits finds the flag down.
TypeOK ==
  /\ inFlight \in BOOLEAN /\ late \in BOOLEAN
  /\ age \in 0 .. Timeout + 1
  /\ errors \in 0 .. ErrorThreshold + 1
  /\ mpc \in {"loop", "watchdog", "expire", "expire_reset", "expire_errors", "errors",
              "error_reset", "error_errors", "idle", "submit", "mark", "stamp", "assert"}
  /\ ipc \in {"none", "clear", "func", "mark"}
  /\ ipc \in {"func", "mark"} => ~inFlight
  /\ out \subseteq Requests

\* Unless the answer of a request given up may still come, the flag covers
\* every request the driver holds, from the moment submitQueued_ or the
\* callback is through with it; once the driver has answered what was given up,
\* handler() works with a flag that is right again.
Tracked ==
  ~late /\ ipc = "none" /\ mpc # "mark" /\ out # {} => inFlight

\* Unless the answer of a request given up may still come, the device has one
\* request outstanding at most, though main and the callback both submit.
OneOutstanding ==
  ~late => \A o, p \in out : o = p

\* The assert(!inFlight_) of submitQueued_ can only fail while the answer of a
\* request the watchdog gave up on is still to come, or was when handler() last
\* looked at the flag.
AssertNeedsLateAnswer == mpc = "assert" => late

\* A device is never left in flight: the flag falls whether answers come or
\* not, the answer that overtakes the setting of the flag included.
InFlightEnds == inFlight ~> (~inFlight \/ mpc = "assert")

\* Callbacks submit the next request again and again, for ever.  Nothing bounds
\* that in the code: each one renews the flag and its time, and handler() then
\* returns before the device's logic and before the count of errors.
CallbacksForEver == []<>(ipc = "mark")

\* The device's own logic runs again and again, whatever gets lost, unless
\* callbacks submit for ever.
IdleAgain == []<>(mpc \in {"idle", "assert"}) \/ CallbacksForEver

\* The device is being reset, by handler() itself or by its watchdog.
Resetting == mpc \in {"expire_reset", "expire_errors", "error_reset", "error_errors"}

\* A count of errors past the threshold is followed by a reset of the device, or
\* is reached during one, unless callbacks submit for ever: they keep handler()
\* from looking at the count, however high it is.  What is counted between
\* resetLogic() and resetErrorCount() is lost; the code does not say whether it
\* should be.
ErrorsReset ==
  \/ errors > ErrorThreshold ~> (Resetting \/ mpc = "assert")
  \/ CallbacksForEver

\* assert(!inFlight_) (Devices/I2CDeviceBase.hpp:77)
NeverInFlightOnSubmit == mpc # "assert"
=============================================================================
