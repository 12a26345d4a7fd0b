---------------------------- MODULE StaticVector ----------------------------
(***************************************************************************)
(* Kvasir::StaticVector (Util/StaticVector.hpp): an array of Capacity      *)
(* slots and a size.  Insertions append and rotate, erasures move the rest *)
(* down; each round of a loop is a step.                                   *)
(***************************************************************************)
EXTENDS Integers, Sequences

CONSTANTS
  Capacity,     \* the template argument
  Values,       \* the elements
  Zero,         \* T{}
  Gone,         \* what is left in a slot whose object was destroyed
  Trivial,      \* whether the destructor of an element does nothing
  EmptyInside   \* whether an empty range is ever inserted before the end

VARIABLES
  data, size,            \* data_ and size_
  pc,                    \* the loop a call is in, "idle" outside of a call
  at,                    \* the position of the call, which insert and erase return
  todo,                  \* where the elements still to be appended come from
  first, next, middle,   \* the iterators of slow_rotate; middle is n_first
  from, to,              \* those of sv_detail::move
  was, expected          \* the elements when the call in progress began, and those
                         \* a sequence would have after the last call

rotation == <<first, next, middle>>
moving   == <<from, to>>
call     == <<pc, at, todo, rotation, moving, was>>
vars     == <<data, size, call, expected>>

Slots   == 0 .. Capacity - 1
Places  == 0 .. Capacity
Storage == [Slots -> Values]
Ranges  == UNION {[1 .. n -> Values] : n \in Places}

Elements == [i \in 1 .. size |-> data[i - 1]]

Before(s, p) == SubSeq(s, 1, p)
Behind(s, p) == SubSeq(s, p + 1, Len(s))

\* What the code asserts of iterators.
InRange(p)        == p \in 0 .. size
PairInRange(i, j) == InRange(i) /\ InRange(j) /\ i <= j

\* An element that is inserted is the caller's or stands in a slot of the vector
\* itself, which is read when its turn comes.
Given(v) == <<"given", v>>
Own(i)   == <<"own", i>>
Source   == ({"given"} \X Values) \union ({"own"} \X Slots)

Fetch(x) == IF x[1] = "own" THEN data[x[2]] ELSE x[2]

Fetched(src) == [i \in 1 .. Len(src) |-> Fetch(src[i])]

GivenAll(s)     == [i \in 1 .. Len(s) |-> Given(s[i])]
OwnRange(i, j)  == [k \in 1 .. j - i |-> Own(i + k - 1)]
Copies(n, x)    == [k \in 1 .. n |-> x]

\* The destructors of the objects in the slots S run, if they do anything.
Destroyed(S) == IF Trivial THEN data ELSE [i \in Slots |-> IF i \in S THEN Gone ELSE data[i]]

Fresh == [i \in Slots |-> Zero]

\* The constructor from an initializer_list fills the storage itself.
ConstructList(s) ==
  /\ Len(s) <= Capacity
  /\ data = [i \in Slots |-> IF i < Len(s) THEN s[i + 1] ELSE Zero] /\ size = Len(s)
  /\ expected = s
  /\ pc = "idle" /\ todo = <<>>

\* The one from copies of an element or from a range inserts into an empty storage.
Construct(s) ==
  /\ Len(s) <= Capacity
  /\ data = Fresh /\ size = 0
  /\ expected = s
  /\ pc = "append" /\ todo = GivenAll(s)

\* The vector is made: empty, from an initializer_list, or by n copies or a range s
\* that emplace_n or insert append.
Init ==
  /\ \/ data = Fresh /\ size = 0 /\ expected = <<>> /\ pc = "idle" /\ todo = <<>>
     \/ \E s \in Ranges : ConstructList(s)
     \/ \E s \in Ranges : Construct(s)
  /\ at = 0
  /\ first = 0 /\ next = 0 /\ middle = 0 /\ from = 0 /\ to = 0
  /\ was = <<>>

\* A call without a loop, and one that enters the loop at l; s is what a sequence
\* would have after it.
Simple(s) ==
  /\ pc = "idle"
  /\ expected' = s
  /\ UNCHANGED call

Enter(l, s) ==
  /\ pc = "idle"
  /\ pc' = l
  /\ was' = Elements /\ expected' = s

\* A call returns, its local variables go.
Return ==
  /\ pc' = "idle" /\ was' = <<>>
  /\ at' = 0 /\ todo' = <<>>
  /\ first' = 0 /\ next' = 0 /\ middle' = 0 /\ from' = 0 /\ to' = 0
-----------------------------------------------------------------------------
(* The calls.  What the code asserts of the arguments is a conjunct.        *)

\* emplace_back and push_back
PushBack(v) ==
  /\ size < Capacity
  /\ Simple(Append(Elements, v))
  /\ data' = [data EXCEPT ![size] = v] /\ size' = size + 1

PopBack ==
  /\ size > 0
  /\ Simple(Before(Elements, size - 1))
  /\ size' = size - 1 /\ data' = Destroyed({size - 1})

Clear ==
  /\ Simple(<<>>)
  /\ size' = 0 /\ data' = Destroyed(0 .. size - 1)

\* What src stands for goes in at p: all of insert, move_insert and emplace.
Insert(p, src) ==
  /\ InRange(p) /\ size + Len(src) <= Capacity
  /\ src = <<>> => p = size \/ EmptyInside
  /\ Enter("append", Before(Elements, p) \o Fetched(src) \o Behind(Elements, p))
  /\ at' = p /\ todo' = src /\ middle' = size
  /\ UNCHANGED <<data, size, first, next, moving>>

\* assign: clear, then insert at begin().  The objects clear destroys are not read
\* again: an own range is for trivial elements.
Assign(src) ==
  /\ Len(src) <= Capacity
  /\ ~Trivial => \A i \in 1 .. Len(src) : src[i][1] = "given"
  /\ Enter("append", Fetched(src))
  /\ data' = Destroyed(0 .. size - 1) /\ size' = 0
  /\ at' = 0 /\ todo' = src /\ middle' = 0
  /\ UNCHANGED <<first, next, moving>>

\* A copy, a move and swap: SV_REQUIRES makes templates of the operators written for
\* them, so the implicit ones are chosen, which copy the storage d and the size n.
\* With objects they would also assign to and from slots whose object is destroyed.
Copy(d, n) ==
  /\ Trivial
  /\ Simple([i \in 1 .. n |-> d[i - 1]])
  /\ data' = d /\ size' = n

\* The elements from i up to, not including, j go; an empty range changes nothing.
Erase(i, j) ==
  /\ PairInRange(i, j) /\ i # j
  /\ Enter("move", Before(Elements, i) \o Behind(Elements, j))
  /\ at' = i
  /\ from' = j /\ to' = i
  /\ UNCHANGED <<data, size, todo, rotation>>

\* resize(n, v) inserts at the end or erases there; resize(n) is emplace_n, which
\* does the same with T{}.
Resize(n, v) ==
  \/ n > size /\ Insert(size, Copies(n - size, Given(v)))
  \/ n < size /\ Erase(n, size)
-----------------------------------------------------------------------------
(* The loops.                                                               *)

\* One emplace_back of an insertion; slow_rotate follows the last.
AppendNext ==
  /\ pc = "append" /\ todo # <<>>
  /\ data' = [data EXCEPT ![size] = Fetch(Head(todo))] /\ size' = size + 1
  /\ todo' = Tail(todo)
  /\ UNCHANGED <<pc, at, rotation, moving, was, expected>>

\* slow_rotate(begin() + position, b, end()) begins: next = n_first.
BeginRotate ==
  /\ pc = "append" /\ todo = <<>>
  /\ \/ at = middle /\ Return
     \/ /\ at # middle
        /\ first' = at /\ next' = middle
        /\ pc' = "rotate"
        /\ UNCHANGED <<at, todo, middle, moving, was>>
  /\ UNCHANGED <<data, size, expected>>

Swapped(i, j) == [data EXCEPT ![i] = data[j], ![j] = data[i]]

\* Mutant: at the end next starts over at first.
NextAfterAtFirst(f, n) == IF n = size THEN f ELSE n

\* next and n_first after the round that took first to f and next to n.
NextAfter(f, n) == IF n = size THEN middle ELSE n

\* Mutant: n_first stays where it is.
MiddleAfterStays(f, n) == middle

MiddleAfter(f, n) == IF n # size /\ f = middle THEN n ELSE middle

\* One round of slow_rotate; behind the array nothing is known.
Rotate ==
  /\ pc = "rotate" /\ first \in Slots /\ next \in Slots
  /\ data' = Swapped(first, next)
  /\ \/ first + 1 = NextAfter(first + 1, next + 1) /\ Return
     \/ /\ first + 1 # NextAfter(first + 1, next + 1)
        /\ first'  = first + 1
        /\ next'   = NextAfter(first + 1, next + 1)
        /\ middle' = MiddleAfter(first + 1, next + 1)
        /\ UNCHANGED <<pc, at, todo, moving, was>>
  /\ UNCHANGED <<size, expected>>

\* One round of sv_detail::move.
MoveDown ==
  /\ pc = "move" /\ from # size
  /\ data' = [data EXCEPT ![to] = data[from]]
  /\ from' = from + 1 /\ to' = to + 1
  /\ UNCHANGED <<size, pc, at, todo, rotation, was, expected>>

\* The size erase leaves: to is as far below from as i was below j.
NewSize(i, j) == size - (j - i)

\* Mutant: what is destroyed starts where the erased elements did.
VacatedFromFirst(i, j) == at .. j - 1

\* The slots behind what erase moved.
Vacated(i, j) == i .. j - 1

EndMove ==
  /\ pc = "move" /\ from = size
  /\ data' = Destroyed(Vacated(to, from)) /\ size' = NewSize(to, from)
  /\ Return
  /\ UNCHANGED expected
-----------------------------------------------------------------------------
(* Comparisons of the elements a and b of two vectors.                      *)

\* sv_detail::cmp: the elements are pair by pair in P, and both end together.
Cmp(a, b, P) == Len(a) = Len(b) /\ \A i \in DOMAIN a : <<a[i], b[i]>> \in P

\* Each operator is cmp with its own predicate; so < is no order of sequences, but
\* "less in every place".
Equal(a, b)     == Len(a) = Len(b) /\ Cmp(a, b, {p \in Values \X Values : p[1] = p[2]})
Less(a, b)      == Cmp(a, b, {p \in Values \X Values : p[1] < p[2]})
LessEqual(a, b) == Cmp(a, b, {p \in Values \X Values : p[1] <= p[2]})
-----------------------------------------------------------------------------
Loop == AppendNext \/ BeginRotate \/ Rotate \/ MoveDown \/ EndMove

\* The ranges a caller may name: other elements, and those of the vector itself.
OwnOnes == {OwnRange(i, j) : i, j \in 0 .. size}
             \union {Copies(n, Own(i)) : n \in Places, i \in 0 .. size - 1}
Sources == {GivenAll(s) : s \in Ranges} \union OwnOnes

Next ==
  \/ \E v \in Values : PushBack(v)
  \/ PopBack
  \/ Clear
  \/ \E p \in Places, src \in Sources : Insert(p, src)
  \/ \E src \in Sources : Assign(src)
  \/ \E d \in Storage, n \in Places : Copy(d, n)
  \/ \E i, j \in Places : Erase(i, j)
  \/ \E n \in Places, v \in Values : Resize(n, v)
  \/ Loop

Spec == Init /\ [][Next]_vars
-----------------------------------------------------------------------------
\* Types of the storage and of the iterators.
TypeOK ==
  /\ data \in [Slots -> Values \union {Gone}] /\ size \in Places
  /\ pc \in {"idle", "append", "rotate", "move"}
  /\ at \in Places /\ todo \in Seq(Source)
  /\ first \in Places /\ next \in Places /\ middle \in Places
  /\ from \in Places /\ to \in Places

\* When a call returns, the vector holds what a sequence would: the rotation by
\* hand is std::rotate, and nothing is lost in an erasure.
LikeSequence == pc = "idle" => Elements = expected

\* No element is an object that was destroyed, in the middle of a call neither.
Alive == \A i \in 0 .. size - 1 : data[i] # Gone

\* "std::rotate is not constexpr" (Util/StaticVector.hpp:138): slow_rotate, in its
\* place, swaps elements between first and last only.  It also ends, since first rises.
RotatesInside == pc = "rotate" => first < size /\ next < size
=============================================================================
