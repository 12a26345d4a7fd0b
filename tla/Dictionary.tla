----------------------------- MODULE Dictionary -----------------------------
(***************************************************************************)
(* What Kvasir::StaticMap and, with keys for values, Kvasir::StaticSet     *)
(* promise: a function from the keys that are present, and an answer to    *)
(* each call.                                                              *)
(***************************************************************************)
EXTENDS Integers, FiniteSets

CONSTANTS Keys, Mapped,
  Default,        \* what operator[] puts behind a new key
  Bound           \* how many keys there is room for

VARIABLES dict,
  asked, answer   \* the last call with its arguments, and what it returned

Present == DOMAIN dict
Room    == Cardinality(Present) < Bound

With(k, v)   == [x \in Present \union {k} |-> IF x = k THEN v ELSE dict[x]]
Without(k)   == [x \in Present \ {k} |-> dict[x]]

IsDictionary(d) == DOMAIN d \subseteq Keys /\ \A k \in DOMAIN d : d[k] \in Mapped

Init == IsDictionary(dict) /\ asked = <<"none">> /\ answer = "none"

\* A key that is present keeps its value.
Insert(k, v) ==
  /\ asked' = <<"insert", k, v>>
  /\ answer' = (k \notin Present)
  /\ \/ k \in Present /\ dict' = dict
     \/ k \notin Present /\ Room /\ dict' = With(k, v)

InsertOrAssign(k, v) ==
  /\ asked' = <<"insert_or_assign", k, v>>
  /\ answer' = (k \notin Present)
  /\ k \in Present \/ Room
  /\ dict' = With(k, v)

\* operator[]
Subscript(k) ==
  /\ asked' = <<"[]", k>>
  /\ k \in Present \/ Room
  /\ dict' = IF k \in Present THEN dict ELSE With(k, Default)
  /\ answer' = dict'[k]

\* A write through what at or find returned.
Write(k, v) ==
  /\ asked' = <<"at", k, v>>
  /\ k \in Present
  /\ dict' = With(k, v)
  /\ answer' = v

Find(k) ==
  /\ asked' = <<"find", k>>
  /\ dict' = dict
  /\ answer' = IF k \in Present THEN dict[k] ELSE "end"

\* erase returns how many went.
Erase(k) ==
  /\ asked' = <<"erase", k>>
  /\ answer' = IF k \in Present THEN 1 ELSE 0
  /\ dict' = Without(k)

Clear == asked' = <<"clear">> /\ answer' = "none" /\ DOMAIN dict' = {}

Assign == asked' = <<"=">> /\ answer' = "none" /\ IsDictionary(dict)'

Next ==
  \/ \E k \in Keys : Find(k) \/ Subscript(k) \/ Erase(k)
  \/ \E k \in Keys, v \in Mapped : Insert(k, v) \/ InsertOrAssign(k, v) \/ Write(k, v)
  \/ Clear
  \/ Assign

Spec == Init /\ [][Next]_<<dict, asked, answer>>
=============================================================================
