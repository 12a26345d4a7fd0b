----------------------------- MODULE MCStartUp ------------------------------
(***************************************************************************)
(* The start of the program and the profile of one handler, small enough   *)
(* for TLC: a behaviour is one of the two.                                 *)
(***************************************************************************)
EXTENDS StartUp, IsrProfiler

MCBegin  == -1
MCFaults == {-1}

\* Two modules have handlers for at most one index each, or the first one for two in
\* any order; they enable them in either step or not at all.  No index has two handlers.
MCConfigs ==
  {[isrs     |-> <<own, other>>,
    enables  |-> [interrupt |-> <<now \ {0}, now \cap {0}>>,
                  peripheryEnable |-> <<late \ {0}, late \cap {0}>>],
    profiled |-> p] :
     own \in {<<>>, <<1>>, <<1, -1>>, <<-1, 1>>}, other \in {<<>>, <<0>>},
     now \in SUBSET {0, 1}, late \in SUBSET {0, 1},
     p \in {{}, {1}, {-1, 0}, {-1, 0, 1}}}

\* A module has a handler for what it enables.
HandledConfigs ==
  {c \in MCConfigs : Handled(c)
                     /\ c.enables["interrupt"] # c.enables["peripheryEnable"]}

VARIABLE profiling   \* which

bothVars == <<profiling, vars, profileVars>>

BothInit ==
  /\ profiling \in BOOLEAN
  /\ Init /\ (profiling => config = CHOOSE c \in Configs : TRUE)
          /\ (profiling => recorded = [i \in Irqs |-> 0])
  /\ ProfileInit /\ (~profiling => below)

StartUpRuns == ~profiling /\ Next /\ UNCHANGED <<profiling, profileVars>>
HandlerRecords == profiling /\ ProfileNext /\ UNCHANGED <<profiling, vars>>

BothNext == StartUpRuns \/ HandlerRecords

BothSpec == BothInit /\ [][BothNext]_bothVars
=============================================================================
