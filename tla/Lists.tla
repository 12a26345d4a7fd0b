------------------------------- MODULE Lists --------------------------------
(***************************************************************************)
(* The list algorithms of Mpl/brigand.hpp and Mpl/Algorithm.hpp that       *)
(* Register::apply, StartUp and the pins are built from.  They run in the  *)
(* compiler: a list of types is a sequence, a predicate P the set of the   *)
(* elements it holds of and a relation lt the set of the pairs.            *)
(***************************************************************************)
EXTENDS Integers, SequencesExt

CONSTANT Unroll   \* elements an unrolled recursion takes at once: 8

ASSUME ListsAssumption == Unroll \in Nat \ {0, 1}

From(s, i) == SubSeq(s, i, Len(s))

append(ls) == FlattenSeq(ls)

\* A list of lists; elements that are no lists are put into one of their own first.
flatten(ls) == append(ls)

remove_if(P, s) == append([i \in DOMAIN s |-> IF s[i] \in P THEN <<>> ELSE <<s[i]>>])
-----------------------------------------------------------------------------
(* brigand::split and MPL::Detail::Split.                                  *)

\* Groups with nothing in them disappear.
EndGroup(out, cur) == IF cur = <<>> THEN out ELSE Append(out, cur)

SplitStep(r, t, delim) ==
  IF t = delim THEN [out |-> EndGroup(r.out, r.cur), cur |-> <<>>]
  ELSE [r EXCEPT !.cur = Append(@, t)]

split(s, delim) ==
  LET r[i \in 0 .. Len(s)] ==
        IF i = 0 THEN [out |-> <<>>, cur |-> <<>>] ELSE SplitStep(r[i - 1], s[i], delim)
  IN  EndGroup(r[Len(s)].out, r[Len(s)].cur)
-----------------------------------------------------------------------------
(* brigand::find and what builds on it.                                    *)

\* The list from the first element with P on; Unroll elements without are skipped at once.
find(P, s) ==
  LET one[i \in 1 .. Len(s) + 1] ==
        IF i > Len(s) THEN <<>> ELSE IF s[i] \in P THEN From(s, i) ELSE one[i + 1]
      many[i \in 1 .. Len(s) + 1] ==
        IF i + Unroll - 1 > Len(s) \/ \E k \in i .. i + Unroll - 1 : s[k] \in P
        THEN one[i] ELSE many[i + Unroll]
  IN  many[1]

\* Mutant: counted from one.
PositionFromOne(s, rest) == Len(s) - Len(rest) + 1

\* FieldTuple's index of what find found: sizeof...(Is) - size<find<...>>.
Position(s, rest) == Len(s) - Len(rest)

\* MPL::Find: the index of the first element with P, or -1.
Find(P, s) ==
  LET next[i \in 0 .. Len(s)] ==
        IF i = Len(s) THEN -1 ELSE IF s[i + 1] \in P THEN i ELSE next[i + 1]
  IN  next[0]

\* The same element several times, by halving.
filled_list(t, times) ==
  LET l[n \in 0 .. times] ==
        CASE n = 0 -> <<>> [] n = 1 -> <<t>> [] OTHER -> l[n \div 2] \o l[n \div 2] \o l[n - (n \div 2) * 2]
  IN  l[times]

RepeatC(times, t) == filled_list(t, times)

\* at(void const*..., T*, ...): the element behind as many others.
at_c(s, index) == s[Len(filled_list("void", index)) + 1]

\* MPL::At drops an element and counts down.
At(s, index) ==
  LET rest[n \in 0 .. index] == IF n = 0 THEN s ELSE Tail(rest[n - 1]) IN Head(rest[index])

Get(P, s, default) == IF Find(P, s) = -1 THEN default ELSE At(s, Find(P, s))

Has(s, t) == Find({t}, s) # -1

\* MPL::Remove: the elements from .. to - 1, counted from 0, go.
RemoveRange(s, from, to) ==
  LET rest[n \in 0 .. to] == IF n = 0 THEN s ELSE Tail(rest[n - 1])
  IN  SubSeq(s, 1, from) \o rest[to]

CountIf(P, s) ==
  LET n[i \in 0 .. Len(s)] == IF i = 0 THEN 0 ELSE n[i - 1] + (IF s[i] \in P THEN 1 ELSE 0)
  IN  n[Len(s)]
-----------------------------------------------------------------------------
(* brigand::sort: an insertion sort that sorts runs of 2 * Unroll first and *)
(* merges each into what it has.                                           *)

\* FTag: the first Unroll elements of ts are all less than x.
Skips(lt, ts, x) == Unroll <= Len(ts) /\ <<ts[Unroll], x>> \in lt

\* Mutant: the last of them is taken again.
BehindSkippedShort == Unroll

BehindSkipped == Unroll + 1

\* One instantiation of insert: both lists are sorted; of equal elements those of in
\* come first.
InsertStep(lt, r) ==
  IF r.ts = <<>> \/ r.ins = <<>> THEN r
  ELSE IF <<Head(r.ts), Head(r.ins)>> \notin lt
  THEN [os |-> Append(r.os, Head(r.ins)), ins |-> Tail(r.ins), ts |-> r.ts,
        ftag |-> Len(r.ins) > 1 /\ Skips(lt, r.ts, r.ins[2])]
  ELSE IF r.ftag
  THEN LET rest == From(r.ts, BehindSkipped)
       IN  [os |-> r.os \o SubSeq(r.ts, 1, Unroll), ins |-> r.ins, ts |-> rest,
            ftag |-> Skips(lt, rest, Head(r.ins))]
  ELSE [os |-> Append(r.os, Head(r.ts)), ins |-> r.ins, ts |-> Tail(r.ts), ftag |-> FALSE]

\* insert_helper: the instantiations, of which there are at most as many as elements.
insert(lt, out, ins) ==
  LET n == Len(out) + Len(ins)
      r[i \in 0 .. n] ==
        IF i = 0 THEN [os |-> <<>>, ins |-> ins, ts |-> out, ftag |-> Skips(lt, out, Head(ins))]
        ELSE InsertStep(lt, r[i - 1])
  IN  r[n].os \o r[n].ins \o r[n].ts

\* sort_loop, one element after the other.
sort_loop(lt, out, s) ==
  LET o[i \in 0 .. Len(s)] == IF i = 0 THEN out ELSE insert(lt, o[i - 1], <<s[i]>>)
  IN  o[Len(s)]

\* The j-th 2 * Unroll elements of s, sorted by themselves.
SortedRun(lt, s, j) ==
  LET run == SubSeq(s, 2 * Unroll * (j - 1) + 1, 2 * Unroll * j)
  IN  sort_loop(lt, <<Head(run)>>, Tail(run))

\* sort_impl; sort_loop takes the first 2 * Unroll as long as there are so many.
sort(lt, s) ==
  IF Len(s) < 2 THEN s ELSE
    LET rest == Tail(s)
        runs == Len(rest) \div (2 * Unroll)
        o[j \in 0 .. runs] ==
          IF j = 0 THEN <<Head(s)>> ELSE insert(lt, o[j - 1], SortedRun(lt, rest, j))
    IN  sort_loop(lt, o[runs], From(rest, 2 * Unroll * runs + 1))

\* MPL::Sort: before the first element that is not less.
SortInsert(lt, out, t) ==
  LET i == SelectInSeq(out, LAMBDA o : <<o, t>> \notin lt)
  IN  IF i = 0 THEN Append(out, t) ELSE InsertAt(out, i, t)

Sort(lt, s) ==
  LET o[i \in 0 .. Len(s)] == IF i = 0 THEN <<>> ELSE SortInsert(lt, o[i - 1], s[i])
  IN  o[Len(s)]

\* MPL::Unique: an element goes when the next is the same, but of the last two the second.
Unique(same, s) ==
  IF Len(s) < 2 THEN s ELSE
    LET n       == Len(s)
        kept(i) == IF <<s[i], s[i + 1]>> \in same THEN <<>> ELSE <<s[i]>>
    IN  FlattenSeq([i \in 1 .. n - 2 |-> kept(i)])
           \o (IF <<s[n - 1], s[n]>> \in same THEN <<s[n - 1]>> ELSE <<s[n - 1], s[n]>>)
=============================================================================
