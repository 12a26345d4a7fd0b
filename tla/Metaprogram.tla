---------------------------- MODULE Metaprogram -----------------------------
(***************************************************************************)
(* The algorithms of module Lists on every list of a few keys, against     *)
(* what they are meant to compute.                                         *)
(***************************************************************************)
EXTENDS Lists, FiniteSets

CONSTANTS
  ListKeys,      \* numbers; elements with the same key are neither less than the other
  MaxLen     \* bound on the length of a list

ASSUME MetaprogramAssumption == ListKeys \subseteq Int /\ MaxLen \in Nat

VARIABLE list

ListsInit == list = <<>>

ListsNext == \E k \in ListKeys : Len(list) < MaxLen /\ list' = Append(list, k)

ListsSpec == ListsInit /\ [][ListsNext]_list
-----------------------------------------------------------------------------
\* The elements with their places, which the predicates do not look at.
Marked == [i \in DOMAIN list |-> <<list[i], i>>]

KeyLess == {p \in ToSet(Marked) \X ToSet(Marked) : p[1][1] < p[2][1]}
SameKey == {p \in ToSet(Marked) \X ToSet(Marked) : p[1][1] = p[2][1]}

\* Both sorts give the elements in order, a later one before an equal earlier one,
\* however many they take at once; Unique then leaves one of each key.
Sorts ==
  LET s == sort(KeyLess, Marked)
      u == Unique(SameKey, s)
  IN  /\ ToSet(s) = ToSet(Marked) /\ Len(s) = Len(list)
      /\ \A i, j \in DOMAIN s :
           i < j => s[i][1] < s[j][1] \/ (s[i][1] = s[j][1] /\ s[i][2] > s[j][2])
      /\ Sort(KeyLess, Marked) = s
      /\ \A i, j \in DOMAIN u : i < j => u[i][1] < u[j][1]
      /\ {u[i][1] : i \in DOMAIN u} = ToSet(list) /\ ToSet(u) \subseteq ToSet(s)

\* What s has before and at its place i, without the d.
Others(s, d) ==
  LET others[i \in 0 .. Len(s)] ==
        IF i = 0 THEN <<>>
        ELSE IF s[i] = d THEN others[i - 1] ELSE Append(others[i - 1], s[i])
  IN  others

\* The groups are what lies between the delimiters, in order, and none is empty.
SplitsAt(d) ==
  LET gs == split(list, d)
  IN  /\ flatten(gs) = Others(list, d)[Len(list)]
      /\ \A i \in DOMAIN gs : gs[i] # <<>>
      /\ Len(gs) = Cardinality({i \in DOMAIN list : list[i] # d /\ (i = 1 \/ list[i - 1] = d)})
      /\ \A i \in DOMAIN list : list[i] = d =>
           \E n \in 0 .. Len(gs) :
             flatten(SubSeq(gs, 1, n)) = Others(list, d)[i]

\* What is found is the first, at the place its index says, by every way to find it;
\* split, remove and repeat keep every other element in its order.
Finds ==
  \A k \in ListKeys :
    LET found  == find({k}, list)
        places == {i \in DOMAIN list : list[i] = k}
    IN  /\ SplitsAt(k)
        /\ found = <<>> <=> places = {}
        /\ Has(list, k) <=> places # {}
        /\ CountIf({k}, list) = Cardinality(places)
        /\ remove_if({k}, list) = Others(list, k)[Len(list)]
        /\ places = {} => Find({k}, list) = -1 /\ Get({k}, list, "none") = "none"
        /\ places # {} =>
             LET n == Position(list, found)
             IN  /\ n + 1 \in places /\ \A i \in places : n + 1 <= i
                 /\ Find({k}, list) = n
                 /\ at_c(list, n) = k /\ Get({k}, list, "none") = k
                 /\ RemoveRange(list, n, n + 1) = RemoveAt(list, n + 1)
        /\ RepeatC(Len(list), k) = [i \in DOMAIN list |-> k]
=============================================================================
