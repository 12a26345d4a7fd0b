---------------------------- MODULE IsrProfiler -----------------------------
(***************************************************************************)
(* The statistics of one profiled interrupt handler                        *)
(* (StartUp/IsrProfiler.hpp): IsrProfileWrapper calls record() after each  *)
(* run of the handler, and snapshot() reads the statistics load by load,   *)
(* from main, where the handler may run between two loads, or from another *)
(* handler, which may come between two steps of record().                  *)
(***************************************************************************)
EXTENDS Integers, Sequences, FiniteSetsExt, SequencesExt

CONSTANTS
  CounterWrap,  \* the 2^32 at which the cycle counter wraps
  Gaps,       \* the cycles that may pass between two entries of the handler
  Durations,  \* the cycles it may take
  MaxCalls    \* bound on the runs of the handler

ASSUME IsrProfilerAssumption ==
  /\ CounterWrap \in Nat \ {0} /\ MaxCalls \in Nat
  /\ Gaps \subseteq 0 .. CounterWrap - 1 /\ Durations \subseteq 0 .. CounterWrap - 1
  /\ \A g \in Gaps, d \in Durations : d < g

VARIABLES
  stats,         \* the statistics
  hasFirst,
  rpc,           \* where record() is, 0 when the handler does not run
  enter, exit,   \* its arguments
  last,          \* what it found in lastCallTime
  below,         \* whether snapshot() runs below the handler
  spc,           \* the loads snapshot() did; Idle when it does not run
  snap,          \* what it read
  gaps, took,    \* what the runs so far were like: the cycles between them and
                 \* of each
  before         \* how many gaps were recorded when snapshot() was called

handler == <<stats, hasFirst, rpc, enter, exit, last, gaps, took>>
reader  == <<spc, snap, before>>
profileVars == <<handler, below, reader>>

\* Mutant: the total is loaded before the count.
LoadsTotalFirst == <<"totalInterval", "callCount", "totalDuration", "minInterval",
                     "maxInterval", "lastCallTime", "minDuration", "maxDuration">>

\* The loads of snapshot() in their order.
Loads == <<"callCount", "totalInterval", "totalDuration", "minInterval", "maxInterval",
           "lastCallTime", "minDuration", "maxDuration">>

Idle == -1

ProfileInit ==
  /\ stats = [f \in ToSet(Loads) |->
                IF f \in {"minInterval", "minDuration"} THEN CounterWrap - 1 ELSE 0]
  /\ hasFirst = FALSE
  /\ rpc = 0 /\ enter = 0 /\ exit = 0 /\ last = 0
  /\ below \in BOOLEAN
  /\ spc = Idle /\ snap = stats /\ before = 0
  /\ gaps = <<>> /\ took = <<>>
-----------------------------------------------------------------------------
(* The handler, under its wrapper.                                          *)

\* Below the handler, snapshot() may be anywhere; above it, it is done before
\* the handler goes on.
HandlerRuns == below \/ spc = Idle

\* The handler runs, gap cycles after its last run began, for d cycles.
OnIsr ==
  /\ rpc = 0 /\ HandlerRuns /\ Len(took) < MaxCalls
  /\ \E gap \in Gaps, d \in Durations :
       /\ enter' = (enter + gap) % CounterWrap
       /\ exit' = (enter + gap + d) % CounterWrap
       /\ gaps' = IF took = <<>> THEN <<>> ELSE Append(gaps, gap)
       /\ took' = Append(took, d)
  /\ rpc' = 1
  /\ UNCHANGED <<stats, hasFirst, last, below, reader>>

\* The cycles from one reading of the counter to the next.
Cycles(from, to) == (to - from) % CounterWrap

Put(f, value) == stats' = [stats EXCEPT ![f] = value]

\* Mutant: the test that hasFirst stands for.
HasFirstByTime == last # 0

HasFirst == hasFirst

Greatest(f, value) == IF value > stats[f] THEN value ELSE stats[f]

Least(f, value) == IF value < stats[f] THEN value ELSE stats[f]

\* record(), one access to the statistics at a time; no access competes with
\* another record() of the same handler, so its loops end at once.
Record ==
  /\ rpc > 0 /\ HandlerRuns
  /\ LET interval == Cycles(last, enter)
         duration == Cycles(enter, exit)
     IN  \/ rpc = 1 /\ Put("lastCallTime", enter)
         \/ rpc = 2 /\ Put("callCount", stats["callCount"] + 1)
         \/ rpc = 3 /\ HasFirst /\ Put("minInterval", Least("minInterval", interval))
         \/ rpc = 3 /\ ~HasFirst /\ UNCHANGED stats
         \/ rpc = 4 /\ Put("maxInterval", Greatest("maxInterval", interval))
         \/ rpc = 5 /\ Put("totalInterval", stats["totalInterval"] + interval)
         \/ rpc = 6 /\ Put("minDuration", Least("minDuration", duration))
         \/ rpc = 7 /\ Put("maxDuration", Greatest("maxDuration", duration))
         \/ rpc = 8 /\ Put("totalDuration", stats["totalDuration"] + duration)
  /\ last' = IF rpc = 1 THEN stats["lastCallTime"] ELSE last
  /\ hasFirst' = (hasFirst \/ rpc = 3)
  /\ rpc' = CASE rpc = 3 /\ ~HasFirst -> 6
              [] rpc = 8              -> 0
              [] OTHER                -> rpc + 1
  /\ UNCHANGED <<enter, exit, gaps, took, below, reader>>
-----------------------------------------------------------------------------
(* snapshot()                                                               *)

\* Below the handler, main runs when the handler does not.
ReaderRuns == below => rpc = 0

\* The intervals record() is done with.
Recorded == IF rpc \in 1 .. 5 /\ hasFirst THEN Len(gaps) - 1 ELSE Len(gaps)

Snapshot ==
  /\ spc = Idle /\ ReaderRuns
  /\ spc' = 0
  /\ before' = Recorded
  /\ UNCHANGED <<handler, below, snap>>

Load ==
  /\ spc \in 0 .. Len(Loads) - 1 /\ ReaderRuns
  /\ snap' = [snap EXCEPT ![Loads[spc + 1]] = stats[Loads[spc + 1]]]
  /\ spc' = spc + 1
  /\ UNCHANGED <<handler, below, before>>

Finish ==
  /\ spc = Len(Loads)
  /\ spc' = Idle
  /\ UNCHANGED <<handler, below, snap, before>>

ProfileNext == OnIsr \/ Record \/ Snapshot \/ Load \/ Finish

ProfileSpec == ProfileInit /\ [][ProfileNext]_profileVars
-----------------------------------------------------------------------------
Total(s) ==
  LET first[n \in 0 .. Len(s)] == IF n = 0 THEN 0 ELSE first[n - 1] + s[n]
  IN  first[Len(s)]

\* Between two runs of the handler its statistics are those of the runs so far,
\* wherever the counter wrapped and whether or not it was 0 at an entry.
Exact ==
  rpc = 0 =>
    /\ stats["callCount"] = Len(took)
    /\ stats["totalInterval"] = Total(gaps) /\ stats["totalDuration"] = Total(took)
    /\ gaps # <<>> => stats["minInterval"] = Min(ToSet(gaps))
                   /\ stats["maxInterval"] = Max(ToSet(gaps))
    /\ took # <<>> => stats["minDuration"] = Min(ToSet(took))
                   /\ stats["maxDuration"] = Max(ToSet(took))

\* However the handler runs between its loads, snapshot() answers with the total of some
\* first n intervals, among them all that were recorded before it was called; of these the
\* minimum and the maximum are bounds, so that the mean lies between them; and the count
\* is not ahead of the total by more than the run with no interval and the one under way.
Covers ==
  spc = Len(Loads) => \E n \in before .. Len(gaps) :
    /\ snap["totalInterval"] = Total(SubSeq(gaps, 1, n))
    /\ snap["callCount"] \in before .. n + 2
    /\ \A i \in 1 .. n : snap["minInterval"] <= gaps[i] /\ gaps[i] <= snap["maxInterval"]
=============================================================================
