----------------------------- MODULE StaticMap ------------------------------
(***************************************************************************)
(* Kvasir::StaticMap (Util/StaticMap.hpp): pairs of a key and a value in a *)
(* StaticVector, in the order of their insertion, found by a linear search.*)
(* A std::pair has storage::non_trivial, but one of numbers or enumerators *)
(* has a destructor that does nothing.                                     *)
(***************************************************************************)
EXTENDS Integers, Sequences

CONSTANTS Capacity, Keys, Mapped,
  DefaultKey, Default,   \* key_type{} and mapped_type{}
  Gone

VARIABLES data, size, pc, at, todo, first, next, middle, from, to, was, expected,
  asked, answer          \* the last call, and what it returned

Pairs == Keys \X Mapped

V == INSTANCE StaticVector WITH
       Values <- Pairs, Zero <- <<DefaultKey, Default>>, Trivial <- TRUE, EmptyInside <- FALSE

End == size

\* Mutant: the last pair is not compared.
findNotLast(k) ==
  CHOOSE i \in 0 .. size :
    /\ i = End \/ (i < size - 1 /\ data[i][1] = k)
    /\ \A j \in 0 .. i - 1 : j < size - 1 => data[j][1] # k

\* The place of the first pair with the key k, or end().
find(k) ==
  CHOOSE i \in 0 .. size :
    /\ i = End \/ data[i][1] = k
    /\ \A j \in 0 .. i - 1 : data[j][1] # k

contains(k) == find(k) # End

SetSecond(i, v) ==
  /\ V!Simple([V!Elements EXCEPT ![i + 1][2] = v])
  /\ data' = [data EXCEPT ![i][2] = v]
  /\ UNCHANGED size

Unchanged == V!Simple(V!Elements) /\ UNCHANGED <<data, size>>

\* A call returns r, which the caller learns.
Answer(call, r) == asked' = call /\ answer' = r

Lookup(k) ==
  /\ Unchanged
  /\ Answer(<<"find", k>>, IF contains(k) THEN data[find(k)][2] ELSE "end")

\* at(k) asserts that k is there; the caller writes through the reference.
WriteAt(k, v) ==
  /\ contains(k)
  /\ SetSecond(find(k), v)
  /\ Answer(<<"at", k, v>>, v)

InsertNew(k, v) == V!PushBack(<<k, v>>)

insert(k, v) ==
  /\ \/ contains(k) /\ Unchanged
     \/ ~contains(k) /\ InsertNew(k, v)
  /\ Answer(<<"insert", k, v>>, ~contains(k))

insert_or_assign(k, v) ==
  /\ \/ contains(k) /\ SetSecond(find(k), v)
     \/ ~contains(k) /\ InsertNew(k, v)
  /\ Answer(<<"insert_or_assign", k, v>>, ~contains(k))

\* operator[]
Subscript(k) ==
  \/ contains(k) /\ Unchanged /\ Answer(<<"[]", k>>, data[find(k)][2])
  \/ ~contains(k) /\ InsertNew(k, Default) /\ Answer(<<"[]", k>>, Default)

\* "Caller is responsible for ensuring" that the key is absent.
insert_unchecked(k, v) ==
  /\ ~contains(k)
  /\ V!PushBack(<<k, v>>)
  /\ Answer(<<"insert", k, v>>, TRUE)

eraseAt(i) ==
  /\ i # End
  /\ V!Erase(i, i + 1)
  /\ Answer(<<"erase", data[i][1]>>, 1)

erase(k) ==
  \/ contains(k) /\ V!Erase(find(k), find(k) + 1) /\ Answer(<<"erase", k>>, 1)
  \/ ~contains(k) /\ Unchanged /\ Answer(<<"erase", k>>, 0)

clear == V!Clear /\ Answer(<<"clear">>, "none")

\* The constructor inserts one pair after the other.
Inserted(s, kv) == IF \E i \in 1 .. Len(s) : s[i][1] = kv[1] THEN s ELSE Append(s, kv)

FromList(il) ==
  LET after[i \in 0 .. Len(il)] == IF i = 0 THEN <<>> ELSE Inserted(after[i - 1], il[i])
  IN after[Len(il)]

\* Mutant: pairs are compared place by place.
EqualInOrder(a, b) == Len(a) = Len(b) /\ \A i \in 1 .. Len(a) : a[i] = b[i]

\* operator==: every pair of a is looked up in b.
Equal(a, b) ==
  /\ Len(a) = Len(b)
  /\ \A i \in 1 .. Len(a) : \E j \in 1 .. Len(b) :
       /\ b[j] = a[i]
       /\ \A l \in 1 .. j - 1 : b[l][1] # a[i][1]

Lists == UNION {[1 .. n -> Pairs] : n \in 0 .. Capacity}

\* What maps there are.
Maps == {FromList(il) : il \in Lists}

\* The defaulted copies, moves and assignments are those of the vector.
Assign(m) ==
  /\ V!Copy([i \in V!Slots |-> IF i < Len(m) THEN m[i + 1] ELSE <<DefaultKey, Default>>],
            Len(m))
  /\ Answer(<<"=">>, "none")

Init ==
  /\ V!Init
  /\ pc = "idle" /\ V!Elements \in Maps
  /\ asked = <<"none">> /\ answer = "none"

Next ==
  \/ \E k \in Keys : Lookup(k) \/ Subscript(k) \/ erase(k)
  \/ \E k \in Keys, v \in Mapped :
       WriteAt(k, v) \/ insert(k, v) \/ insert_or_assign(k, v) \/ insert_unchecked(k, v)
  \/ \E i \in 0 .. size : eraseAt(i)
  \/ clear
  \/ \E m \in Maps : Assign(m)
  \/ V!Loop /\ UNCHANGED <<asked, answer>>
-----------------------------------------------------------------------------
\* The function the pairs s stand for: a search finds the first.
AsFunction(s) ==
  [k \in {s[i][1] : i \in 1 .. Len(s)} |->
     s[CHOOSE i \in 1 .. Len(s) : s[i][1] = k /\ \A j \in 1 .. i - 1 : s[j][1] # k][2]]
=============================================================================
