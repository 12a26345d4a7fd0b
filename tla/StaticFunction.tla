--------------------------- MODULE StaticFunction ---------------------------
(***************************************************************************)
(* Kvasir::StaticFunction (Util/StaticFunction.hpp) in two sizes: a        *)
(* callable in a buffer and a pointer to the code that calls it.  The      *)
(* large one can hold a small one as its callable.                         *)
(***************************************************************************)
EXTENDS Integers

CONSTANTS
  Callables,   \* what fits into both
  Nothing      \* no callable: what a call of an empty function runs

VARIABLES
  storage,     \* what was put into the buffer
  invoke_ptr,  \* "null", "callable" or "function": what the buffer is taken for
  given        \* what the program gave the function since it was last empty:
               \* {} or, in a set, a callable or the Nothing of an empty function

functionVars == <<storage, invoke_ptr, given>>

Functions == {"small", "large"}

\* What a call runs; the assertion fails for a null pointer.
Runs(f) ==
  CASE invoke_ptr[f] = "null"     -> Nothing
    [] invoke_ptr[f] = "callable" -> storage[f]
    [] invoke_ptr[f] = "function" ->
         IF storage[f].invoke_ptr = "null" THEN Nothing ELSE storage[f].storage

\* operator bool
IsSet(f) == invoke_ptr[f] # "null"

Holds(f, s, p, g) ==
  /\ storage' = [storage EXCEPT ![f] = s]
  /\ invoke_ptr' = [invoke_ptr EXCEPT ![f] = p]
  /\ given' = [given EXCEPT ![f] = g]

FunctionInit ==
  /\ storage = [f \in Functions |-> Nothing]
  /\ invoke_ptr = [f \in Functions |-> "null"]
  /\ given = [f \in Functions |-> {}]

\* The constructor and the assignment from a callable.
Store(f, c) == Holds(f, c, "callable", {c})

\* Mutant: only the buffer is cleared.
resetBuffer(f) == Holds(f, Nothing, invoke_ptr[f], {})

\* Only the pointer is cleared.
reset(f) == Holds(f, storage[f], "null", {})

\* A copy from a const, or a move from another of the same size.
Copy(f, s, p) == Holds(f, s, p, IF p = "null" THEN {} ELSE {s})

\* A small one that is moved into a large one is stored as its callable, also when
\* it is empty.  The constructor for other sizes does not compile: it reads
\* private members.
WrapCallable ==
  Holds("large", [storage |-> storage["small"], invoke_ptr |-> invoke_ptr["small"]],
        "function", {Runs("small")})

FunctionNext ==
  \/ \E f \in Functions : reset(f) \/ \E c \in Callables : Store(f, c)
  \/ \E f \in Functions, s \in Callables, p \in {"null", "callable"} : Copy(f, s, p)
  \/ WrapCallable

FunctionSpec == FunctionInit /\ [][FunctionNext]_functionVars
-----------------------------------------------------------------------------
\* A function says it is set exactly when something was given to it since it was
\* last empty, and a call runs what was given last, through the function it was
\* wrapped in too.  An empty function of another size is something: the large
\* one that got it says it is set, and a call fails in the empty one.
CallsWhatIsMeant ==
  \A f \in Functions :
    /\ IsSet(f) <=> given[f] # {}
    /\ IsSet(f) => Runs(f) \in given[f]
=============================================================================
