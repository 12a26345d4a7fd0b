---------------------------- MODULE StaticString ----------------------------
(***************************************************************************)
(* Kvasir::StaticString (Util/StaticString.hpp): characters in a           *)
(* StaticVector.  A string_view may show characters of the string itself.  *)
(***************************************************************************)
EXTENDS Integers, Sequences

CONSTANTS Capacity, Chars,
  Null,                  \* '\0'
  Gone

VARIABLES data, size, pc, at, todo, first, next, middle, from, to, was, expected

V == INSTANCE StaticVector WITH
       Values <- Chars, Zero <- Null, Trivial <- TRUE, EmptyInside <- FALSE

\* The views there are: of other texts and of this one.
Views == {V!GivenAll(s) : s \in V!Ranges} \union {V!OwnRange(i, j) : i, j \in 0 .. size}

\* assign clears, then appends what the view shows: operator= and the constructors.
assign(view) == V!Assign(view)

resize(n) ==
  \/ n > size /\ n <= Capacity /\ V!Insert(size, V!Copies(n - size, V!Given(Null)))
  \/ n < size /\ V!Erase(n, size)

\* s = s + view: the sum is a string of its own, which is assigned.
Plus(view) ==
  /\ size + Len(view) <= Capacity
  /\ assign(V!GivenAll(V!Elements \o V!Fetched(view)))

starts_with(s, sv) == Len(sv) <= Len(s) /\ \A i \in 1 .. Len(sv) : s[i] = sv[i]

Next ==
  \/ \E c \in Chars : V!PushBack(c)
  \/ V!Clear
  \/ \E view \in Views : assign(view) \/ Plus(view)
  \/ \E i, j \in 0 .. size : V!Erase(i, j)
  \/ \E n \in 0 .. Capacity : resize(n)
  \/ V!Loop
=============================================================================
