----------------------------- MODULE Containers -----------------------------
(***************************************************************************)
(* The containers that are a StaticVector or keep one: owner says which of *)
(* them the one vector of the model belongs to.  Map and set implement     *)
(* Dictionary.                                                             *)
(***************************************************************************)
EXTENDS Integers, Sequences

CONSTANTS
  Capacity,        \* of the plain vector
  OtherCapacity,   \* of the other containers
  Values, Zero, Gone, EmptyInside,
  Keys, Mapped, DefaultKey, Default

ASSUME ContainersAssumption ==
  /\ {Capacity, OtherCapacity} \subseteq Nat \ {0} /\ EmptyInside \in BOOLEAN
  /\ Zero \in Values /\ DefaultKey \in Keys /\ Default \in Mapped
  /\ Gone \notin Values \union Keys \union (Keys \X Mapped)

VARIABLES
  owner, data, size, pc, at, todo, first, next, middle, from, to, was, expected,
  asked, answer

vars == <<owner, data, size, pc, at, todo, first, next, middle, from, to, was, expected,
          asked, answer>>

Owners == {"vector", "objects", "string", "set", "map"}

Vector  == INSTANCE StaticVector WITH Trivial <- TRUE
Objects == INSTANCE StaticVector WITH Capacity <- OtherCapacity, Trivial <- FALSE
String  == INSTANCE StaticString WITH Capacity <- OtherCapacity, Chars <- Values, Null <- Zero
Set     == INSTANCE StaticSet WITH Capacity <- OtherCapacity
Map     == INSTANCE StaticMap WITH Capacity <- OtherCapacity

NothingAsked == asked = <<"none">> /\ answer = "none"

Init ==
  \/ owner = "vector" /\ Vector!Init /\ NothingAsked
  \/ owner = "objects" /\ Objects!Init /\ NothingAsked
  \/ owner = "string" /\ String!V!Init /\ NothingAsked
  \/ owner = "set" /\ Set!Init
  \/ owner = "map" /\ Map!Init

Next ==
  /\ UNCHANGED owner
  /\ \/ owner = "vector" /\ Vector!Next /\ UNCHANGED <<asked, answer>>
     \/ owner = "objects" /\ Objects!Next /\ UNCHANGED <<asked, answer>>
     \/ owner = "string" /\ String!Next /\ UNCHANGED <<asked, answer>>
     \/ owner = "set" /\ Set!Next
     \/ owner = "map" /\ Map!Next

Spec == Init /\ [][Next]_vars
-----------------------------------------------------------------------------
\* When a call returns, the vector holds what a sequence would: the rotation by
\* hand is std::rotate, nothing is lost in an erasure, and elements inserted or
\* assigned from the vector itself are read before they are overwritten.
LikeSequence == Vector!LikeSequence

\* "std::rotate is not constexpr" (Util/StaticVector.hpp:138): slow_rotate, in its
\* place, swaps elements between first and last only.  It also ends, since first rises.
RotatesInside == Vector!RotatesInside

\* Storage of types with destructors: no element is an object that was destroyed,
\* in the middle of an erasure neither.
Alive == Vector!Alive

\* The function map or set stand for; a call has its effect when it begins.
DictOf(s) ==
  CASE owner = "map" -> Map!AsFunction(s)
    [] owner = "set" -> [k \in Set!KeysOf(s) |-> k]
    [] OTHER -> [k \in {} |-> Default]

Abstract == INSTANCE Dictionary WITH
              dict <- DictOf(IF pc = "idle" THEN Vector!Elements ELSE expected),
              Mapped <- Mapped \union Keys, Bound <- OtherCapacity

\* "duplicate keys are not allowed" (Util/StaticMap.hpp:13): whatever the order of the
\* calls, map and set answer like a dictionary; an entry goes when its key is erased,
\* and a second insertion changes nothing.
IsDictionary == Abstract!Spec

\* The comparisons: two maps or sets are equal when they hold the same, in any order;
\* the operators of the vector compare place by place, and <= both ways is ==; a
\* string starts with what it continues.
Comparisons ==
  pc = "idle" =>
    CASE owner = "map" -> LET f == Map!AsFunction(Vector!Elements)
                          IN \A m \in Map!Maps :
                               Map!Equal(Vector!Elements, m) <=> f = Map!AsFunction(m)
      [] owner = "set" -> \A m \in Set!Sets :
                            Set!Equal(Vector!Elements, m) <=>
                              Set!KeysOf(Vector!Elements) = Set!KeysOf(m)
      [] owner = "vector" -> \A s \in Vector!Ranges :
                               /\ Vector!Equal(Vector!Elements, s) <=> Vector!Elements = s
                               /\ Vector!LessEqual(Vector!Elements, s)
                                    /\ Vector!LessEqual(s, Vector!Elements)
                                  <=> Vector!Elements = s
                               /\ Vector!Less(Vector!Elements, s) /\ Vector!Less(s, Vector!Elements)
                                  => s = <<>>
      [] owner = "string" -> \A s \in Vector!Ranges :
                               String!starts_with(Vector!Elements, s) <=>
                                 \E n \in 0 .. size : s = SubSeq(Vector!Elements, 1, n)
      [] OTHER -> TRUE
=============================================================================
