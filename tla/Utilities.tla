----------------------------- MODULE Utilities ------------------------------
(***************************************************************************)
(* The value types and containers of Util/ and the algorithms of Mpl/ side *)
(* by side: a behaviour uses one of them.                                  *)
(***************************************************************************)
EXTENDS BitField, SaturatingValue, StaticFunction, Metaprogram, Literals, Containers

VARIABLE use   \* which

utilityVars == <<use, fieldVars, valueVars, functionVars, list, literal, vars>>

UtilitiesInit ==
  /\ use \in {"bits", "value", "function", "list", "literal", "container"}
  /\ FieldInit /\ (use # "bits" => bytes = CHOOSE m \in Messages : TRUE)
  /\ ValueInit /\ (use # "value" => value = min)
  /\ FunctionInit /\ ListsInit /\ LiteralInit
  /\ Init /\ (use # "container" => owner = "objects" /\ pc = "idle" /\ expected = <<>>)

UseBits ==
  /\ use = "bits" /\ FieldNext
  /\ UNCHANGED <<use, valueVars, functionVars, list, literal, vars>>
UseValue ==
  /\ use = "value" /\ ValueNext
  /\ UNCHANGED <<use, fieldVars, functionVars, list, literal, vars>>
UseFunction ==
  /\ use = "function" /\ FunctionNext
  /\ UNCHANGED <<use, fieldVars, valueVars, list, literal, vars>>
UseList ==
  /\ use = "list" /\ ListsNext
  /\ UNCHANGED <<use, fieldVars, valueVars, functionVars, literal, vars>>
UseLiteral ==
  /\ use = "literal" /\ LiteralNext
  /\ UNCHANGED <<use, fieldVars, valueVars, functionVars, list, vars>>
UseContainer ==
  /\ use = "container" /\ Next
  /\ UNCHANGED <<use, fieldVars, valueVars, functionVars, list, literal>>

UtilitiesNext ==
  \/ UseBits \/ UseValue \/ UseFunction \/ UseList \/ UseLiteral \/ UseContainer

UtilitiesSpec == UtilitiesInit /\ [][UtilitiesNext]_utilityVars
=============================================================================
