------------------------------ MODULE MCApply -------------------------------
(***************************************************************************)
(* Two registers of four bits for TLC.  Register 1 has two plain bits, a   *)
(* write-one-to-clear flag and a write-zero-to-clear flag; register 2 has  *)
(* two toggle bits and two plain bits.                                     *)
(***************************************************************************)
EXTENDS Apply

CONSTANT MaxArgs   \* bound on the number of arguments of a call

MCBits == 0 .. 3
MCRegs == {1, 2}
MCWIIZ == <<{2}, {0, 1}>>
MCWIIO == <<{3}, {}>>
MCKind ==
  << [b \in MCBits |-> CASE b = 2 -> "oneToClear" [] b = 3 -> "zeroToClear" [] OTHER -> "normal"],
     [b \in MCBits |-> IF b < 2 THEN "oneToToggle" ELSE "normal"] >>

Arg(kind, addr, mask, lit, in) ==
  [kind |-> kind, addr |-> addr, mask |-> mask, lit |-> lit, in |-> in]

\* Fields written with a literal, with a runtime value, cleared by xor, read.
MCArguments ==
  { Arg("literal", 1, {0}, {0}, {}),    Arg("literal", 1, {1}, {}, {}),
    Arg("literal", 1, {2}, {2}, {}),    Arg("literal", 1, {3}, {}, {}),
    Arg("runtime", 1, {0, 1}, {}, {1}), Arg("runtime", 1, {1}, {}, {1}),
    Arg("runtime", 1, {0}, {}, {0}),
    Arg("read", 1, {0}, {}, {}),        Arg("read", 1, {1, 2}, {}, {}),
    Arg("xor", 2, {0}, {}, {}),         Arg("literal", 2, {1}, {1}, {}),
    Arg("literal", 2, {2}, {}, {}),     Arg("runtime", 2, {3}, {}, {3}),
    Arg("read", 2, {2, 3}, {}, {}) }

\* The lists of actions an initialisation passes.
Inits ==
  { [kind |-> "list", of |-> <<Arg("literal", 2, {2}, {2}, {}), Arg("literal", 1, {0}, {0}, {})>>] }

ArgLists == UNION {[1 .. n -> MCArguments \cup Inits \cup {SequencePoint}] : n \in 1 .. MaxArgs}

\* Two registers or one, written in groups of their own and then read; register 2
\* written in one group, by one store or two, and then read.
LongCalls ==
  { <<a, SequencePoint, c, SequencePoint, Arg("read", 1, {0}, {}, {})>> :
      a, c \in {Arg("literal", 1, {0}, {0}, {}), Arg("runtime", 1, {0, 1}, {}, {1}),
               Arg("xor", 2, {0}, {}, {})} }
  \cup
  { <<a, c, SequencePoint, Arg("read", 2, {2, 3}, {}, {})>> :
      a \in {Arg("xor", 2, {0}, {}, {}), Arg("runtime", 2, {3}, {}, {3})},
      c \in {Arg("literal", 2, {2}, {}, {}), Arg("literal", 2, {1}, {1}, {})} }

MCCalls       == LongCalls \cup {as \in ArgLists : Sensible(as) /\ ~MixesToggle(as)}
MCToggleCalls == {as \in ArgLists : Sensible(as) /\ MixesToggle(as)}

MCPrograms       == {Compile(as) : as \in MCCalls}
MCTogglePrograms == {Compile(as) : as \in MCToggleCalls}

\* Each bit once clear and once set.
MCPowerup == {<<{0, 2}, {0, 2}>>, <<{1, 3}, {1, 3}>>}
=============================================================================
