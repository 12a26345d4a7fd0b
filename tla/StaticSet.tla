----------------------------- MODULE StaticSet ------------------------------
(***************************************************************************)
(* Kvasir::StaticSet (Util/StaticSet.hpp): keys in a StaticVector, in the  *)
(* order of their insertion, found by a linear search.                     *)
(***************************************************************************)
EXTENDS Integers, Sequences

CONSTANTS Capacity, Keys,
  DefaultKey,            \* key_type{}
  Gone

VARIABLES data, size, pc, at, todo, first, next, middle, from, to, was, expected,
  asked, answer          \* the last call, and what it returned

V == INSTANCE StaticVector WITH
       Values <- Keys, Zero <- DefaultKey, Trivial <- TRUE, EmptyInside <- FALSE

End == size

find(k) ==
  CHOOSE i \in 0 .. size :
    /\ i = End \/ data[i] = k
    /\ \A j \in 0 .. i - 1 : data[j] # k

contains(k) == find(k) # End

Unchanged == V!Simple(V!Elements) /\ UNCHANGED <<data, size>>

\* A call returns r, which the caller learns.
Answer(call, r) == asked' = call /\ answer' = r

Lookup(k) ==
  /\ Unchanged
  /\ Answer(<<"find", k>>, IF contains(k) THEN data[find(k)] ELSE "end")

insert(k) ==
  /\ \/ contains(k) /\ Unchanged
     \/ ~contains(k) /\ V!PushBack(k)
  /\ Answer(<<"insert", k, k>>, ~contains(k))

\* "Caller is responsible for ensuring" that the key is absent.
insert_unchecked(k) ==
  /\ ~contains(k)
  /\ V!PushBack(k)
  /\ Answer(<<"insert", k, k>>, TRUE)

eraseAt(i) ==
  /\ i # End
  /\ V!Erase(i, i + 1)
  /\ Answer(<<"erase", data[i]>>, 1)

erase(k) ==
  \/ contains(k) /\ V!Erase(find(k), find(k) + 1) /\ Answer(<<"erase", k>>, 1)
  \/ ~contains(k) /\ Unchanged /\ Answer(<<"erase", k>>, 0)

clear == V!Clear /\ Answer(<<"clear">>, "none")

\* The constructor inserts one key after the other.
FromList(il) ==
  LET inserted(s, k) == IF \E i \in 1 .. Len(s) : s[i] = k THEN s ELSE Append(s, k)
      after[i \in 0 .. Len(il)] == IF i = 0 THEN <<>> ELSE inserted(after[i - 1], il[i])
  IN after[Len(il)]

\* operator==
Equal(a, b) ==
  /\ Len(a) = Len(b)
  /\ \A i \in 1 .. Len(a) : \E j \in 1 .. Len(b) : b[j] = a[i]

\* What sets there are.
Sets == {FromList(il) : il \in UNION {[1 .. n -> Keys] : n \in 0 .. Capacity}}

\* The defaulted copies, moves and assignments are those of the vector.
Assign(s) ==
  /\ V!Copy([i \in V!Slots |-> IF i < Len(s) THEN s[i + 1] ELSE DefaultKey], Len(s))
  /\ Answer(<<"=">>, "none")

Init ==
  /\ V!Init
  /\ pc = "idle" /\ V!Elements \in Sets
  /\ asked = <<"none">> /\ answer = "none"

Next ==
  \/ \E k \in Keys : Lookup(k) \/ insert(k) \/ insert_unchecked(k) \/ erase(k)
  \/ \E i \in 0 .. size : eraseAt(i)
  \/ clear
  \/ \E s \in Sets : Assign(s)
  \/ V!Loop /\ UNCHANGED <<asked, answer>>
-----------------------------------------------------------------------------
KeysOf(s) == {s[i] : i \in 1 .. Len(s)}
=============================================================================
