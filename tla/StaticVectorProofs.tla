------------------------- MODULE StaticVectorProofs -------------------------
(***************************************************************************)
(* A StaticVector holds what a sequence would, for every capacity and all  *)
(* elements: slow_rotate is a rotation, sv_detail::move an erasure, and    *)
(* elements inserted from the vector itself are read in time.              *)
(***************************************************************************)
EXTENDS StaticVector, SequenceTheorems, TLAPS

\* What a vector is made with; empty ranges go in at the end only (RotatesInside is
\* violated otherwise).
StaticVectorAssumption ==
  /\ Capacity \in Nat \ {0}
  /\ Zero \in Values /\ Gone \notin Values
  /\ Trivial \in BOOLEAN /\ EmptyInside = FALSE
-----------------------------------------------------------------------------
(* The invariant.  What a sequence e would hold at place k, from 0, is told *)
(* in each loop by what the n slots d and the iterators hold now.           *)

FetchIn(d, x) == IF x[1] = "own" THEN d[x[2]] ELSE x[2]

\* No slot an element is still to be read from is overwritten with another before.
ReadInTime(n, src) ==
  \A k, l \in 1 .. Len(src) : k < l /\ src[l] = Own(n + k - 1) => src[k] = src[l]

\* The new elements stand behind the old, from m on; they belong to position p.
Appending(e, d, n, p, m, src) ==
  /\ p <= m /\ m <= n
  /\ n + Len(src) = Len(e)
  /\ p # m => n - m + Len(src) > 0
  /\ \A k \in 0 .. Len(e) - 1 :
       /\ k < p => e[k + 1] = d[k]
       /\ p <= k /\ k < p + (n - m) => e[k + 1] = d[m + (k - p)]
       /\ p + (n - m) <= k /\ k < p + (n - m) + Len(src)
            => e[k + 1] = FetchIn(d, src[k - (p + (n - m)) + 1])
       /\ p + (n - m) + Len(src) <= k => e[k + 1] = d[k - (n - m + Len(src))]

\* What is before f is in place; the rest of the new elements stands from x on, the
\* old ones that gave way from m to x, and the others from f on.
Rotating(e, d, n, f, x, m) ==
  /\ f < m /\ m <= x /\ x < n
  /\ n = Len(e)
  /\ \A k \in 0 .. n - 1 :
       /\ k < f => e[k + 1] = d[k]
       /\ f <= k /\ k < f + (n - x) => e[k + 1] = d[x + (k - f)]
       /\ f + (n - x) <= k /\ k < f + (n - m) => e[k + 1] = d[m + (k - f - (n - x))]
       /\ f + (n - m) <= k => e[k + 1] = d[k - (n - m)]

\* What is before i is in place, the rest stands from j on.
Moving(e, d, n, j, i) ==
  /\ i < j /\ j <= n
  /\ n - (j - i) = Len(e)
  /\ \A k \in 0 .. Len(e) - 1 :
       /\ k < i => e[k + 1] = d[k]
       /\ i <= k => e[k + 1] = d[j + (k - i)]

\* A vector that is at rest.
Resting(e, d, n) == n = Len(e) /\ \A k \in 0 .. n - 1 : e[k + 1] = d[k]

Sound ==
  /\ TypeOK
  /\ expected \in Seq(Values) /\ Len(expected) <= Capacity
  /\ \A i \in 0 .. size - 1 : data[i] \in Values
  /\ pc = "append" => ReadInTime(size, todo)
  /\ pc = "append" => Appending(expected, data, size, at, middle, todo)
  /\ pc = "rotate" => Rotating(expected, data, size, first, next, middle)
  /\ pc = "move" => Moving(expected, data, size, from, to)
  /\ pc = "idle" => Resting(expected, data, size)
-----------------------------------------------------------------------------
LEMMA ElementsAre ==
  ASSUME StaticVectorAssumption, Sound
  PROVE  /\ Elements \in Seq(Values) /\ Len(Elements) = size
         /\ \A k \in 0 .. size - 1 : Elements[k + 1] = data[k]
<1>1. size \in Nat
  BY DEF StaticVectorAssumption, Sound, TypeOK, Places
<1>2. \A i \in 1 .. size : i - 1 \in 0 .. size - 1
  BY <1>1
<1>3. \A i \in 1 .. size : data[i - 1] \in Values
  BY <1>2 DEF Sound
<1>4. Elements \in Seq(Values) /\ Len(Elements) = size
  BY <1>1, <1>3 DEF Elements
<1>5. ASSUME NEW k \in 0 .. size - 1 PROVE Elements[k + 1] = data[k]
  BY <1>1 DEF Elements
<1> QED BY <1>4, <1>5

LEMMA BeforeIs ==
  ASSUME NEW s \in Seq(Values), NEW p \in 0 .. Len(s)
  PROVE  /\ Before(s, p) \in Seq(Values) /\ Len(Before(s, p)) = p
         /\ \A i \in 1 .. p : Before(s, p)[i] = s[i]
<1>1. \A i \in 1 .. p : s[i] \in Values
  OBVIOUS
<1> QED BY <1>1, SubSeqProperties DEF Before

LEMMA BehindIs ==
  ASSUME NEW s \in Seq(Values), NEW p \in 0 .. Len(s)
  PROVE  /\ Behind(s, p) \in Seq(Values) /\ Len(Behind(s, p)) = Len(s) - p
         /\ \A i \in 1 .. Len(s) - p : Behind(s, p)[i] = s[p + i]
<1>1. \A i \in p + 1 .. Len(s) : s[i] \in Values
  OBVIOUS
<1>2. /\ SubSeq(s, p + 1, Len(s)) \in Seq(Values)
      /\ Len(SubSeq(s, p + 1, Len(s))) = IF p + 1 <= Len(s) THEN Len(s) - (p + 1) + 1 ELSE 0
      /\ \A i \in 1 .. Len(s) - (p + 1) + 1 : SubSeq(s, p + 1, Len(s))[i] = s[(p + 1) + i - 1]
  BY <1>1, SubSeqProperties
<1> QED BY <1>2 DEF Behind

\* A source an insertion takes: its elements exist, and none is overwritten early.
GoodSource(src) ==
  /\ src \in Seq(Source)
  /\ \A k \in 1 .. Len(src) : \A i \in Slots : src[k] = Own(i) => i < size
  /\ \A k, l \in 1 .. Len(src) : k < l /\ src[l] = Own(k - 1) => src[k] = src[l]

LEMMA GivenAreGood ==
  ASSUME StaticVectorAssumption, NEW s \in Seq(Values)
  PROVE  GoodSource(GivenAll(s)) /\ Len(GivenAll(s)) = Len(s)
         /\ \A k \in 1 .. Len(s) : Fetch(GivenAll(s)[k]) = s[k] /\ GivenAll(s)[k][1] = "given"
  BY DEF GivenAll, Given, Own, Source, GoodSource, Fetch

LEMMA RangesAreGood ==
  ASSUME StaticVectorAssumption, Sound, NEW i \in 0 .. size, NEW j \in 0 .. size
  PROVE  GoodSource(OwnRange(i, j))
<1> DEFINE r == OwnRange(i, j)
<1>1. CASE j < i
  <2>1. 1 .. j - i = {}
    BY <1>1 DEF StaticVectorAssumption, Sound, TypeOK, Places
  <2>2. r = <<>>
    BY <2>1 DEF OwnRange
  <2> QED BY <2>2 DEF GoodSource
<1>2. CASE i <= j
  <2>1. j - i \in Nat /\ i \in Nat /\ j <= size /\ size <= Capacity /\ size \in Nat /\ Capacity \in Nat
    BY <1>2 DEF StaticVectorAssumption, Sound, TypeOK, Places
  <2>2. \A k \in 1 .. j - i : i + k - 1 \in Slots /\ i + k - 1 < size
    BY <2>1 DEF Slots
  <2>3. r \in Seq(Source) /\ Len(r) = j - i /\ \A k \in 1 .. j - i : r[k] = Own(i + k - 1)
    BY <2>1, <2>2 DEF OwnRange, Own, Source
  <2>4. ASSUME NEW k \in 1 .. Len(r), NEW n \in Slots, r[k] = Own(n) PROVE n < size
    <3>1. n = i + k - 1
      BY <2>3, <2>4 DEF Own
    <3> QED BY <3>1, <2>2, <2>3
  <2>5. \A k, l \in 1 .. Len(r) : k < l => r[l] # Own(k - 1)
    BY <2>1, <2>3 DEF Own
  <2> QED BY <2>3, <2>4, <2>5 DEF GoodSource
<1> QED BY <1>1, <1>2 DEF StaticVectorAssumption, Sound, TypeOK, Places

LEMMA CopiesAreGood ==
  ASSUME StaticVectorAssumption, Sound, NEW n \in Nat,
         NEW x \in Source, \A i \in Slots : x = Own(i) => i < size
  PROVE  GoodSource(Copies(n, x)) /\ Len(Copies(n, x)) = n
         /\ \A k \in 1 .. n : Copies(n, x)[k] = x
  BY DEF Copies, GoodSource

LEMMA SourcesAreGood ==
  ASSUME StaticVectorAssumption, Sound, NEW src \in Sources
  PROVE  GoodSource(src)
<1>1. CASE src \in {GivenAll(s) : s \in Ranges}
  <2>1. PICK s \in Ranges : src = GivenAll(s)
    BY <1>1
  <2>2. s \in Seq(Values)
    BY <2>1 DEF Ranges, Places, StaticVectorAssumption
  <2> QED BY <2>1, <2>2, GivenAreGood
<1>2. CASE src \in {OwnRange(i, j) : i, j \in 0 .. size}
  BY <1>2, RangesAreGood
<1>3. CASE src \in {Copies(n, Own(i)) : n \in Places, i \in 0 .. size - 1}
  <2>1. PICK n \in Places, i \in 0 .. size - 1 : src = Copies(n, Own(i))
    BY <1>3
  <2>2. i \in Slots /\ Own(i) \in Source /\ n \in Nat
    BY DEF Slots, Own, Source, Places, StaticVectorAssumption, Sound, TypeOK
  <2>3. \A k \in Slots : Own(i) = Own(k) => k < size
    BY DEF Own, Slots, StaticVectorAssumption, Sound, TypeOK, Places
  <2> QED BY <2>1, <2>2, <2>3, CopiesAreGood
<1> QED BY <1>1, <1>2, <1>3 DEF Sources, OwnOnes

LEMMA FetchedAre ==
  ASSUME StaticVectorAssumption, Sound, NEW src, GoodSource(src)
  PROVE  /\ Fetched(src) \in Seq(Values) /\ Len(Fetched(src)) = Len(src)
         /\ \A k \in 1 .. Len(src) : Fetched(src)[k] = Fetch(src[k])
<1>1. ASSUME NEW k \in 1 .. Len(src) PROVE Fetch(src[k]) \in Values
  <2>1. src[k] \in Source
    BY DEF GoodSource
  <2>2. CASE \E v \in Values : src[k] = <<"given", v>>
    BY <2>2 DEF Fetch
  <2>3. CASE \E i \in Slots : src[k] = <<"own", i>>
    <3>1. PICK i \in Slots : src[k] = Own(i)
      BY <2>3 DEF Own
    <3>2. i < size /\ i \in 0 .. size - 1
      BY <3>1 DEF GoodSource, Slots, Sound, TypeOK, Places, StaticVectorAssumption
    <3> QED BY <3>1, <3>2 DEF Fetch, Own, Sound
  <2> QED BY <2>1, <2>2, <2>3 DEF Source
<1>2. Len(src) \in Nat
  BY DEF GoodSource
<1> QED BY <1>1, <1>2 DEF Fetched
-----------------------------------------------------------------------------
(* The calls that enter a loop.                                             *)

\* What an insertion leaves, place by place.
LEMMA InsertedAre ==
  ASSUME NEW s \in Seq(Values), NEW p \in 0 .. Len(s), NEW f \in Seq(Values)
  PROVE  LET e == Before(s, p) \o f \o Behind(s, p)
         IN  /\ e \in Seq(Values) /\ Len(e) = Len(s) + Len(f)
             /\ \A k \in 0 .. Len(s) + Len(f) - 1 :
                  /\ k < p => e[k + 1] = s[k + 1]
                  /\ p <= k /\ k < p + Len(f) => e[k + 1] = f[k - p + 1]
                  /\ p + Len(f) <= k => e[k + 1] = s[k - Len(f) + 1]
<1> DEFINE b == Before(s, p)  d == Behind(s, p)  c == b \o f  e == c \o d
<1>1. b \in Seq(Values) /\ Len(b) = p /\ \A i \in 1 .. p : b[i] = s[i]
  BY BeforeIs
<1>2. d \in Seq(Values) /\ Len(d) = Len(s) - p /\ \A i \in 1 .. Len(s) - p : d[i] = s[p + i]
  BY BehindIs
<1> HIDE DEF b, d
<1>3. /\ c \in Seq(Values) /\ Len(c) = p + Len(f)
      /\ \A i \in 1 .. p + Len(f) : c[i] = IF i <= p THEN b[i] ELSE f[i - p]
  BY <1>1, ConcatProperties
<1> HIDE DEF c
<1>4. /\ e \in Seq(Values) /\ Len(e) = Len(s) + Len(f)
      /\ \A i \in 1 .. Len(s) + Len(f) : e[i] = IF i <= p + Len(f) THEN c[i] ELSE d[i - (p + Len(f))]
  <2>1. /\ e \in Seq(Values) /\ Len(e) = Len(c) + Len(d)
        /\ \A i \in 1 .. Len(c) + Len(d) : e[i] = IF i <= Len(c) THEN c[i] ELSE d[i - Len(c)]
    BY <1>2, <1>3, ConcatProperties
  <2>2. Len(c) + Len(d) = Len(s) + Len(f)
    BY <1>2, <1>3
  <2> HIDE DEF e
  <2> QED BY <1>3, <2>1, <2>2
<1> HIDE DEF e
<1>5. ASSUME NEW k \in 0 .. Len(s) + Len(f) - 1
      PROVE  /\ k < p => e[k + 1] = s[k + 1]
             /\ p <= k /\ k < p + Len(f) => e[k + 1] = f[k - p + 1]
             /\ p + Len(f) <= k => e[k + 1] = s[k - Len(f) + 1]
  <2>0. k + 1 \in 1 .. Len(s) + Len(f) /\ p \in Nat /\ Len(f) \in Nat /\ Len(s) \in Nat
    OBVIOUS
  <2>1. ASSUME k < p PROVE e[k + 1] = s[k + 1]
    <3>1. e[k + 1] = c[k + 1]
      BY <1>4, <2>0, <2>1
    <3>2. k + 1 \in 1 .. p + Len(f) /\ k + 1 <= p
      BY <2>0, <2>1
    <3> QED BY <1>1, <1>3, <3>1, <3>2
  <2>2. ASSUME p <= k, k < p + Len(f) PROVE e[k + 1] = f[k - p + 1]
    <3>1. e[k + 1] = c[k + 1]
      BY <1>4, <2>0, <2>2
    <3>2. k + 1 \in 1 .. p + Len(f) /\ ~(k + 1 <= p) /\ (k + 1) - p = k - p + 1
      BY <2>0, <2>2
    <3> QED BY <1>3, <3>1, <3>2
  <2>3. ASSUME p + Len(f) <= k PROVE e[k + 1] = s[k - Len(f) + 1]
    <3>1. e[k + 1] = d[(k + 1) - (p + Len(f))]
      BY <1>4, <2>0, <2>3
    <3>2. /\ (k + 1) - (p + Len(f)) \in 1 .. Len(s) - p
          /\ p + ((k + 1) - (p + Len(f))) = k - Len(f) + 1
      BY <2>0, <2>3
    <3> QED BY <1>2, <3>1, <3>2
  <2> QED BY <2>1, <2>2, <2>3
<1> QED BY <1>4, <1>5 DEF e, c, b, d

\* What Appending says before anything is appended.
LEMMA AppendingBegins ==
  ASSUME NEW e, NEW d, NEW n \in Nat, NEW p \in 0 .. n, NEW src, Len(src) \in Nat,
         Len(src) = 0 => p = n, n + Len(src) = Len(e),
         \A k \in 0 .. Len(e) - 1 :
           /\ k < p => e[k + 1] = d[k]
           /\ p <= k /\ k < p + Len(src) => e[k + 1] = FetchIn(d, src[k - p + 1])
           /\ p + Len(src) <= k => e[k + 1] = d[k - Len(src)]
  PROVE  Appending(e, d, n, p, n, src)
<1>1. n - n = 0 /\ p + 0 = p /\ 0 + Len(src) = Len(src)
  OBVIOUS
<1>2. p # n => 0 + Len(src) > 0
  OBVIOUS
<1>3. p <= n /\ n <= n
  OBVIOUS
<1>4. \A k \in 0 .. Len(e) - 1 : ~(p <= k /\ k < p + 0)
  OBVIOUS
<1> QED BY <1>1, <1>2, <1>3, <1>4, Zenon DEF Appending

LEMMA InsertStep ==
  ASSUME StaticVectorAssumption, Sound, NEW p, NEW src, GoodSource(src), Insert(p, src)
  PROVE  Sound'
<1>1. /\ pc = "idle" /\ p \in 0 .. size /\ size + Len(src) <= Capacity
      /\ src = <<>> => p = size
      /\ pc' = "append" /\ at' = p /\ todo' = src /\ middle' = size
      /\ UNCHANGED <<data, size, first, next, from, to>>
      /\ expected' = Before(Elements, p) \o Fetched(src) \o Behind(Elements, p)
  BY DEF Insert, InRange, Enter, moving, StaticVectorAssumption
<1>2. size \in Nat /\ Capacity \in Nat /\ size <= Capacity /\ Len(src) \in Nat
  BY DEF GoodSource, Sound, TypeOK, Places, StaticVectorAssumption
<1>3. /\ Elements \in Seq(Values) /\ Len(Elements) = size
      /\ \A k \in 0 .. size - 1 : Elements[k + 1] = data[k]
  BY ElementsAre
<1>4. /\ Fetched(src) \in Seq(Values) /\ Len(Fetched(src)) = Len(src)
      /\ \A k \in 1 .. Len(src) : Fetched(src)[k] = Fetch(src[k])
  BY FetchedAre
<1>5. /\ expected' \in Seq(Values) /\ Len(expected') = size + Len(src)
      /\ \A k \in 0 .. size + Len(src) - 1 :
           /\ k < p => expected'[k + 1] = Elements[k + 1]
           /\ p <= k /\ k < p + Len(src) => expected'[k + 1] = Fetched(src)[k - p + 1]
           /\ p + Len(src) <= k => expected'[k + 1] = Elements[k - Len(src) + 1]
  <2> DEFINE f == Fetched(src)
  <2>1. f \in Seq(Values) /\ p \in 0 .. Len(Elements)
    BY <1>1, <1>3, <1>4
  <2> HIDE DEF f
  <2>2. LET e == Before(Elements, p) \o f \o Behind(Elements, p)
        IN  /\ e \in Seq(Values) /\ Len(e) = Len(Elements) + Len(f)
            /\ \A k \in 0 .. Len(Elements) + Len(f) - 1 :
                 /\ k < p => e[k + 1] = Elements[k + 1]
                 /\ p <= k /\ k < p + Len(f) => e[k + 1] = f[k - p + 1]
                 /\ p + Len(f) <= k => e[k + 1] = Elements[k - Len(f) + 1]
    BY <1>3, <2>1, InsertedAre
  <2>3. expected' = Before(Elements, p) \o f \o Behind(Elements, p)
    BY <1>1 DEF f
  <2>4. Len(f) = Len(src) /\ Len(Elements) = size
    BY <1>3, <1>4 DEF f
  <2> QED BY <2>2, <2>3, <2>4 DEF f
<1>6. ASSUME NEW k \in 0 .. size + Len(src) - 1
      PROVE  /\ k < p => expected'[k + 1] = data[k]
             /\ p <= k /\ k < p + Len(src) => expected'[k + 1] = FetchIn(data, src[k - p + 1])
             /\ p + Len(src) <= k => expected'[k + 1] = data[k - Len(src)]
  <2>1. ASSUME k < p PROVE expected'[k + 1] = data[k]
    <3>1. k \in 0 .. size - 1
      BY <1>1, <1>2, <2>1
    <3> QED BY <1>3, <1>5, <2>1, <3>1
  <2>2. ASSUME p <= k, k < p + Len(src) PROVE expected'[k + 1] = FetchIn(data, src[k - p + 1])
    <3>1. k - p + 1 \in 1 .. Len(src)
      BY <1>1, <1>2, <2>2
    <3> QED BY <1>4, <1>5, <2>2, <3>1 DEF Fetch, FetchIn
  <2>3. ASSUME p + Len(src) <= k PROVE expected'[k + 1] = data[k - Len(src)]
    <3>1. k - Len(src) \in 0 .. size - 1
      BY <1>1, <1>2, <2>3
    <3> QED BY <1>3, <1>5, <2>3, <3>1
  <2> QED BY <2>1, <2>2, <2>3
<1>7. Appending(expected', data, size, p, size, src)
  <2>1. Len(src) = 0 => p = size
    BY <1>1 DEF GoodSource
  <2>2. p \in 0 .. size
    BY <1>1
  <2>3. size + Len(src) = Len(expected')
    BY <1>5
  <2>4. ASSUME NEW k \in 0 .. Len(expected') - 1
        PROVE  /\ k < p => expected'[k + 1] = data[k]
               /\ p <= k /\ k < p + Len(src) => expected'[k + 1] = FetchIn(data, src[k - p + 1])
               /\ p + Len(src) <= k => expected'[k + 1] = data[k - Len(src)]
    <3>1. k \in 0 .. size + Len(src) - 1
      BY <1>2, <2>3
    <3> QED BY <1>6, <3>1
  <2> QED BY <1>2, <2>1, <2>2, <2>3, <2>4, AppendingBegins, Zenon
<1>8. ReadInTime(size, src)
  <2>1. \A k, l \in 1 .. Len(src) : k < l => src[l] # Own(size + k - 1)
    <3>1. SUFFICES ASSUME NEW k \in 1 .. Len(src), NEW l \in 1 .. Len(src), k < l,
                          src[l] = Own(size + k - 1)
                   PROVE  FALSE
      OBVIOUS
    <3>2. size + k - 1 \in Slots
      BY <1>1, <1>2, <3>1 DEF Slots
    <3> QED BY <1>2, <3>1, <3>2 DEF GoodSource
  <2> QED BY <2>1 DEF ReadInTime
<1>9. TypeOK'
  BY <1>1, <1>2 DEF Sound, TypeOK, GoodSource, Places
<1> QED BY <1>1, <1>2, <1>5, <1>7, <1>8, <1>9 DEF Sound

LEMMA AssignStep ==
  ASSUME StaticVectorAssumption, Sound, NEW src, GoodSource(src), Assign(src)
  PROVE  Sound'
<1>1. /\ pc = "idle" /\ Len(src) <= Capacity
      /\ pc' = "append" /\ at' = 0 /\ todo' = src /\ middle' = 0 /\ size' = 0
      /\ data' = Destroyed(0 .. size - 1) /\ expected' = Fetched(src)
      /\ UNCHANGED <<first, next, from, to>>
  BY DEF Assign, Enter, moving
<1>2. Capacity \in Nat /\ Len(src) \in Nat
  BY DEF GoodSource, StaticVectorAssumption
<1>3. /\ Fetched(src) \in Seq(Values) /\ Len(Fetched(src)) = Len(src)
      /\ \A k \in 1 .. Len(src) : Fetched(src)[k] = Fetch(src[k])
  BY FetchedAre
<1>4. data' \in [Slots -> Values \union {Gone}] /\ (Trivial => data' = data)
  BY <1>1 DEF Destroyed, Sound, TypeOK
<1>5. \A k \in 1 .. Len(src) : FetchIn(data', src[k]) = Fetch(src[k])
  BY <1>4 DEF Assign, Fetch, FetchIn
<1>6. Appending(expected', data', 0, 0, 0, src)
  BY <1>1, <1>2, <1>3, <1>5 DEF Appending
<1>7. ReadInTime(0, src)
  BY DEF ReadInTime, GoodSource
<1>8. TypeOK'
  BY <1>1, <1>2, <1>4 DEF Sound, TypeOK, GoodSource, Places
<1> QED BY <1>1, <1>2, <1>3, <1>6, <1>7, <1>8 DEF Sound

LEMMA EraseStep ==
  ASSUME StaticVectorAssumption, Sound, NEW i, NEW j, Erase(i, j)
  PROVE  Sound'
<1>1. /\ pc = "idle" /\ pc' = "move" /\ at' = i /\ from' = j /\ to' = i
      /\ UNCHANGED <<data, size, todo, first, next, middle>>
      /\ expected' = Before(Elements, i) \o Behind(Elements, j)
      /\ i \in 0 .. size /\ j \in 0 .. size /\ i < j
  BY DEF Erase, PairInRange, InRange, Enter, rotation, Sound, TypeOK, Places, StaticVectorAssumption
<1>2. size \in Nat /\ Capacity \in Nat /\ size <= Capacity /\ i \in Nat /\ j \in Nat /\ j <= size
  BY <1>1 DEF Sound, TypeOK, Places, StaticVectorAssumption
<1>3. /\ Elements \in Seq(Values) /\ Len(Elements) = size
      /\ \A k \in 0 .. size - 1 : Elements[k + 1] = data[k]
  BY ElementsAre
<1> DEFINE b == Before(Elements, i)  d == Behind(Elements, j)  e == b \o d
<1>4. b \in Seq(Values) /\ Len(b) = i /\ \A n \in 1 .. i : b[n] = Elements[n]
  BY <1>1, <1>3, BeforeIs
<1>5. d \in Seq(Values) /\ Len(d) = size - j /\ \A n \in 1 .. size - j : d[n] = Elements[j + n]
  BY <1>1, <1>3, BehindIs
<1> HIDE DEF b, d
<1>6. /\ e \in Seq(Values) /\ Len(e) = i + (size - j)
      /\ \A n \in 1 .. i + (size - j) : e[n] = IF n <= i THEN b[n] ELSE d[n - i]
  <2>1. /\ e \in Seq(Values) /\ Len(e) = Len(b) + Len(d)
        /\ \A n \in 1 .. Len(b) + Len(d) : e[n] = IF n <= Len(b) THEN b[n] ELSE d[n - Len(b)]
    BY <1>4, <1>5, ConcatProperties
  <2> HIDE DEF e
  <2> QED BY <1>4, <1>5, <2>1
<1>7. expected' = e
  BY <1>1 DEF b, d
<1> HIDE DEF e
<1>a. Len(e) = i + (size - j)
  BY <1>6
<1>8. ASSUME NEW k \in 0 .. Len(e) - 1
      PROVE  (k < i => e[k + 1] = data[k]) /\ (i <= k => e[k + 1] = data[j + (k - i)])
  <2>0. k \in Nat /\ k + 1 \in 1 .. i + (size - j)
    BY <1>2, <1>a
  <2>1. ASSUME k < i PROVE e[k + 1] = data[k]
    <3>1. k + 1 <= i /\ k + 1 \in 1 .. i /\ k \in 0 .. size - 1
      BY <1>1, <1>2, <2>0, <2>1
    <3> QED BY <1>3, <1>4, <1>6, <2>0, <3>1
  <2>2. ASSUME i <= k PROVE e[k + 1] = data[j + (k - i)]
    <3>1. /\ ~(k + 1 <= i) /\ (k + 1) - i \in 1 .. size - j
          /\ j + ((k + 1) - i) = (j + (k - i)) + 1 /\ j + (k - i) \in 0 .. size - 1
      BY <1>2, <2>0, <2>2
    <3> QED BY <1>3, <1>5, <1>6, <2>0, <3>1
  <2> QED BY <2>1, <2>2
<1>9. Len(e) = size - (j - i) /\ Len(e) <= Capacity
  BY <1>1, <1>2, <1>a
<1>10. Moving(expected', data, size, j, i)
  BY <1>1, <1>2, <1>7, <1>8, <1>9 DEF Moving
<1>11. TypeOK'
  BY <1>1, <1>2 DEF Sound, TypeOK, Places
<1> QED BY <1>1, <1>6, <1>7, <1>9, <1>10, <1>11 DEF Sound

\* The calls without a loop.
LEMMA SimpleStep ==
  ASSUME StaticVectorAssumption, Sound, UNCHANGED call, pc = "idle", size' \in Places,
         data' \in [Slots -> Values \union {Gone}], expected' \in Seq(Values),
         Len(expected') = size',
         \A k \in 0 .. size' - 1 : data'[k] \in Values /\ expected'[k + 1] = data'[k]
  PROVE  Sound'
<1>1. TypeOK'
  BY DEF Sound, TypeOK, call, rotation, moving
<1>2. Resting(expected', data', size')
  BY DEF Resting
<1>3. size' <= Capacity
  BY DEF Places, StaticVectorAssumption
<1> QED BY <1>1, <1>2, <1>3 DEF Sound, call

LEMMA DestroyedAre ==
  ASSUME StaticVectorAssumption, Sound, NEW S
  PROVE  /\ Destroyed(S) \in [Slots -> Values \union {Gone}]
         /\ \A i \in Slots \ S : Destroyed(S)[i] = data[i]
  BY DEF Destroyed, Sound, TypeOK

LEMMA PushBackStep ==
  ASSUME StaticVectorAssumption, Sound, NEW v \in Values, PushBack(v)
  PROVE  Sound'
<1>1. /\ pc = "idle" /\ UNCHANGED call /\ size < Capacity
      /\ data' = [data EXCEPT ![size] = v] /\ size' = size + 1 /\ expected' = Append(Elements, v)
  BY DEF PushBack, Simple
<1>2. size \in Slots /\ size \in Nat /\ Capacity \in Nat
  BY <1>1 DEF Sound, TypeOK, Places, Slots, StaticVectorAssumption
<1>3. /\ Elements \in Seq(Values) /\ Len(Elements) = size
      /\ \A k \in 0 .. size - 1 : Elements[k + 1] = data[k]
  BY ElementsAre
<1> HIDE DEF Elements
<1>4. /\ expected' \in Seq(Values) /\ Len(expected') = size + 1 /\ expected'[size + 1] = v
      /\ \A k \in 1 .. size : expected'[k] = Elements[k]
  BY <1>1, <1>3, <1>2
<1>5. data \in [Slots -> Values \union {Gone}]
  BY DEF Sound, TypeOK
<1>6. ASSUME NEW k \in 0 .. size PROVE data'[k] \in Values /\ expected'[k + 1] = data'[k]
  <2>1. CASE k = size
    BY <1>1, <1>2, <1>4, <1>5, <2>1
  <2>2. CASE k # size
    <3>1. k \in 0 .. size - 1 /\ k + 1 \in 1 .. size /\ k \in Slots
      BY <1>1, <1>2, <2>2 DEF Slots
    <3>2. data'[k] = data[k] /\ data[k] \in Values
      BY <1>1, <1>5, <2>2, <3>1 DEF Sound
    <3> QED BY <1>3, <1>4, <3>1, <3>2
  <2> QED BY <2>1, <2>2
<1>7. size' - 1 = size /\ size' \in Places
  BY <1>1, <1>2 DEF Places
<1>8. data' \in [Slots -> Values \union {Gone}]
  BY <1>1, <1>5
<1> QED BY <1>1, <1>4, <1>6, <1>7, <1>8, SimpleStep

LEMMA PopBackStep ==
  ASSUME StaticVectorAssumption, Sound, PopBack
  PROVE  Sound'
<1>1. /\ pc = "idle" /\ UNCHANGED call /\ size > 0
      /\ data' = Destroyed({size - 1}) /\ size' = size - 1
      /\ expected' = Before(Elements, size - 1)
  BY DEF PopBack, Simple
<1>2. size \in Nat /\ Capacity \in Nat /\ size <= Capacity
  BY DEF Sound, TypeOK, Places, StaticVectorAssumption
<1>3. /\ Elements \in Seq(Values) /\ Len(Elements) = size
      /\ \A k \in 0 .. size - 1 : Elements[k + 1] = data[k]
  BY ElementsAre
<1>4. /\ expected' \in Seq(Values) /\ Len(expected') = size - 1
      /\ \A k \in 1 .. size - 1 : expected'[k] = Elements[k]
  <2>1. size - 1 \in 0 .. Len(Elements)
    BY <1>1, <1>2, <1>3
  <2> QED BY <1>1, <1>3, <2>1, BeforeIs
<1>5. ASSUME NEW k \in 0 .. size - 2 PROVE data'[k] \in Values /\ expected'[k + 1] = data'[k]
  <2>1. k \in 0 .. size - 1 /\ k + 1 \in 1 .. size - 1 /\ k \in Slots /\ k # size - 1
    BY <1>2 DEF Slots
  <2>2. data'[k] = data[k]
    BY <1>1, <2>1, DestroyedAre
  <2> QED BY <1>3, <1>4, <2>1, <2>2 DEF Sound
<1>6. size' - 1 = size - 2 /\ size' \in Places
  BY <1>1, <1>2 DEF Places
<1>7. data' \in [Slots -> Values \union {Gone}]
  BY <1>1, DestroyedAre
<1> QED BY <1>1, <1>4, <1>5, <1>6, <1>7, SimpleStep

LEMMA ClearStep ==
  ASSUME StaticVectorAssumption, Sound, Clear
  PROVE  Sound'
<1>1. /\ pc = "idle" /\ UNCHANGED call /\ size' = 0 /\ expected' = <<>>
      /\ data' = Destroyed(0 .. size - 1)
  BY DEF Clear, Simple
<1>2. data' \in [Slots -> Values \union {Gone}]
  BY <1>1, DestroyedAre
<1>3. size' \in Places /\ 0 .. size' - 1 = {} /\ expected' \in Seq(Values) /\ Len(expected') = size'
  BY <1>1 DEF Places, StaticVectorAssumption
<1> QED BY <1>1, <1>2, <1>3, SimpleStep

LEMMA CopyStep ==
  ASSUME StaticVectorAssumption, Sound, NEW d \in Storage, NEW n \in Places, Copy(d, n)
  PROVE  Sound'
<1>1. /\ pc = "idle" /\ UNCHANGED call /\ data' = d /\ size' = n
      /\ expected' = [i \in 1 .. n |-> d[i - 1]]
  BY DEF Copy, Simple
<1>2. n \in Nat /\ Capacity \in Nat /\ n <= Capacity
  BY DEF Places, StaticVectorAssumption
<1>3. \A k \in 0 .. n - 1 : k \in Slots /\ d[k] \in Values
  BY <1>2 DEF Slots, Storage
<1>4. \A i \in 1 .. n : i - 1 \in 0 .. n - 1
  BY <1>2
<1>5. expected' \in Seq(Values) /\ Len(expected') = n
  BY <1>1, <1>2, <1>3, <1>4
<1>6. \A k \in 0 .. n - 1 : expected'[k + 1] = d[k]
  BY <1>1, <1>2
<1>7. data' \in [Slots -> Values \union {Gone}]
  BY <1>1 DEF Storage
<1> QED BY <1>1, <1>3, <1>5, <1>6, <1>7, SimpleStep

LEMMA ResizeStep ==
  ASSUME StaticVectorAssumption, Sound, NEW n \in Places, NEW v \in Values, Resize(n, v)
  PROVE  Sound'
<1>1. CASE n > size /\ Insert(size, Copies(n - size, Given(v)))
  <2>1. n - size \in Nat /\ Given(v) \in Source /\ \A i \in Slots : Given(v) # Own(i)
    BY <1>1 DEF Given, Own, Source, Sound, TypeOK, Places, StaticVectorAssumption
  <2>2. GoodSource(Copies(n - size, Given(v)))
    BY <2>1, CopiesAreGood
  <2> QED BY <1>1, <2>2, InsertStep
<1>2. CASE n < size /\ Erase(n, size)
  BY <1>2, EraseStep
<1> QED BY <1>1, <1>2 DEF Resize
-----------------------------------------------------------------------------
(* The rounds of the loops, on the slots alone.                             *)

\* What is still to be read is read as before the append.
LEMMA StillRead ==
  ASSUME NEW V, NEW d \in [Slots -> V], NEW n \in Slots, NEW src \in Seq(Source),
         ReadInTime(n, src), NEW l \in 2 .. Len(src)
  PROVE  FetchIn([d EXCEPT ![n] = FetchIn(d, src[1])], src[l]) = FetchIn(d, src[l])
<1>1. 1 \in 1 .. Len(src) /\ l \in 1 .. Len(src) /\ 1 < l /\ src[l] \in Source
  OBVIOUS
<1>2. CASE src[l] = Own(n)
  <2>1. n + 1 - 1 = n
    BY DEF Slots
  <2>2. src[1] = src[l]
    BY <1>1, <1>2, <2>1 DEF ReadInTime
  <2> QED BY <1>2, <2>2 DEF Own, FetchIn
<1>3. CASE \E i \in Slots : src[l] = Own(i) /\ i # n
  BY <1>3 DEF Own, FetchIn
<1>4. CASE \E v \in Values : src[l] = Given(v)
  BY <1>4 DEF Given, FetchIn
<1> QED BY <1>1, <1>2, <1>3, <1>4 DEF Source, Own, Given

LEMMA AppendOne ==
  ASSUME StaticVectorAssumption,
         NEW V, NEW d \in [Slots -> V], NEW n \in Slots, NEW p \in Nat, NEW m \in Nat, NEW e,
         NEW src \in Seq(Source), src # <<>>,
         Appending(e, d, n, p, m, src), ReadInTime(n, src),
         NEW d2, d2 = [d EXCEPT ![n] = FetchIn(d, src[1])],
         NEW q, q = n + 1, NEW ts, ts = Tail(src)
  PROVE  Appending(e, d2, q, p, m, ts) /\ ReadInTime(q, ts)
<1> DEFINE L == Len(src)  M == Len(ts)
<1>1. /\ L \in Nat /\ L >= 1 /\ M = L - 1
      /\ \A i \in 1 .. L - 1 : ts[i] = src[i + 1]
  BY HeadTailProperties
<1>2. q = n + 1 /\ n \in Nat /\ Capacity \in Nat /\ n < Capacity
  BY DEF Slots, StaticVectorAssumption
<1>3. p <= m /\ m <= n /\ n + L = Len(e)
  BY DEF Appending
<1>4. d2[n] = FetchIn(d, src[1]) /\ \A i \in 0 .. n - 1 : d2[i] = d[i]
  BY <1>2 DEF Slots
<1>5. \A l \in 2 .. L : FetchIn(d2, src[l]) = FetchIn(d, src[l])
  BY StillRead
<1> HIDE DEF L, M
<1>6. ASSUME NEW k \in 0 .. Len(e) - 1
      PROVE  /\ k < p => e[k + 1] = d2[k]
             /\ p <= k /\ k < p + (q - m) => e[k + 1] = d2[m + (k - p)]
             /\ p + (q - m) <= k /\ k < p + (q - m) + M
                  => e[k + 1] = FetchIn(d2, ts[k - (p + (q - m)) + 1])
             /\ p + (q - m) + M <= k => e[k + 1] = d2[k - (q - m + M)]
  <2>1. /\ k < p => e[k + 1] = d[k]
        /\ p <= k /\ k < p + (n - m) => e[k + 1] = d[m + (k - p)]
        /\ p + (n - m) <= k /\ k < p + (n - m) + L
             => e[k + 1] = FetchIn(d, src[k - (p + (n - m)) + 1])
        /\ p + (n - m) + L <= k => e[k + 1] = d[k - (n - m + L)]
    BY DEF Appending, L
  <2>2. k \in Nat /\ k < n + L
    BY <1>1, <1>2, <1>3
  <2>3. ASSUME k < p PROVE e[k + 1] = d2[k]
    <3>1. k \in 0 .. n - 1
      BY <1>2, <1>3, <2>2, <2>3
    <3> QED BY <1>4, <2>1, <2>3, <3>1
  <2>4. ASSUME p <= k, k < p + (n - m) PROVE e[k + 1] = d2[m + (k - p)]
    <3>1. m + (k - p) \in 0 .. n - 1
      BY <1>2, <1>3, <2>2, <2>4
    <3> QED BY <1>4, <2>1, <2>4, <3>1
  <2>5. ASSUME k = p + (n - m) PROVE e[k + 1] = d2[m + (k - p)]
    <3>1. m + (k - p) = n /\ k - (p + (n - m)) + 1 = 1 /\ p + (n - m) <= k /\ k < p + (n - m) + L
      BY <1>1, <1>2, <1>3, <2>5
    <3> QED BY <1>4, <2>1, <3>1
  <2>6. ASSUME p + (q - m) <= k, k < p + (q - m) + M
        PROVE  e[k + 1] = FetchIn(d2, ts[k - (p + (q - m)) + 1])
    <3> DEFINE i == k - (p + (q - m)) + 1
    <3>1. /\ i \in 1 .. L - 1 /\ i + 1 \in 2 .. L /\ i + 1 = k - (p + (n - m)) + 1
          /\ p + (n - m) <= k /\ k < p + (n - m) + L
      BY <1>1, <1>2, <1>3, <2>2, <2>6
    <3> HIDE DEF i
    <3>2. ts[i] = src[i + 1] /\ FetchIn(d2, src[i + 1]) = FetchIn(d, src[i + 1])
      BY <1>1, <1>5, <3>1
    <3>3. e[k + 1] = FetchIn(d, src[i + 1])
      BY <2>1, <3>1
    <3>4. e[k + 1] = FetchIn(d2, ts[i])
      BY <3>2, <3>3
    <3> QED BY <3>4 DEF i
  <2>7. ASSUME p + (q - m) + M <= k PROVE e[k + 1] = d2[k - (q - m + M)]
    <3>1. /\ k - (q - m + M) = k - (n - m + L) /\ p + (n - m) + L <= k
          /\ k - (n - m + L) \in 0 .. n - 1
      BY <1>1, <1>2, <1>3, <2>2, <2>7
    <3> QED BY <1>4, <2>1, <3>1
  <2>8. p <= k /\ k < p + (q - m) => k < p + (n - m) \/ k = p + (n - m)
    BY <1>2, <1>3, <2>2
  <2> QED BY <2>3, <2>4, <2>5, <2>6, <2>7, <2>8
<1>7. Appending(e, d2, q, p, m, ts)
  <2>1. m <= q /\ q + M = Len(e)
    BY <1>1, <1>2, <1>3
  <2>2. p # m => q - m + M > 0
    BY <1>1, <1>2, <1>3
  <2>3. \A k \in 0 .. Len(e) - 1 :
          /\ k < p => e[k + 1] = d2[k]
          /\ p <= k /\ k < p + (q - m) => e[k + 1] = d2[m + (k - p)]
          /\ p + (q - m) <= k /\ k < p + (q - m) + M
               => e[k + 1] = FetchIn(d2, ts[k - (p + (q - m)) + 1])
          /\ p + (q - m) + M <= k => e[k + 1] = d2[k - (q - m + M)]
    BY <1>6, Zenon
  <2> QED BY <1>3, <2>1, <2>2, <2>3, Zenon DEF Appending, M
<1>8. ReadInTime(q, ts)
  <2> SUFFICES ASSUME NEW k \in 1 .. L - 1, NEW l \in 1 .. L - 1, k < l,
                      ts[l] = Own(q + k - 1)
               PROVE  ts[k] = ts[l]
    BY <1>1 DEF ReadInTime, M
  <2>1. k + 1 \in 1 .. L /\ l + 1 \in 1 .. L /\ k + 1 < l + 1 /\ q + k - 1 = n + (k + 1) - 1
    BY <1>1, <1>2
  <2>2. src[l + 1] = Own(n + (k + 1) - 1)
    BY <1>1, <2>1
  <2>3. src[k + 1] = src[l + 1]
    BY <2>1, <2>2 DEF ReadInTime, L
  <2> QED BY <1>1, <2>3
<1> QED BY <1>7, <1>8

\* d2 is d with slots f and x swapped, as far as the vector goes.
SwappedIn(d, d2, n, f, x) ==
  /\ d2[f] = d[x] /\ d2[x] = d[f]
  /\ \A k \in 0 .. n - 1 : k # f /\ k # x => d2[k] = d[k]

\* Where a place is when first goes from f to g and next from x to y.
LEMMA RoundPlaces ==
  ASSUME NEW n \in Nat, NEW f \in Nat, NEW x \in Nat, NEW m \in Nat,
         NEW g, g = f + 1, NEW y, y = x + 1, f < m, m <= x, x < n
  PROVE  \A k \in 0 .. n - 1 :
           /\ k < g + (n - m) => k < f + (n - m) \/ k = f + (n - m)
           /\ g = m => k < f + (n - m) \/ k = f + (n - m)
           /\ y = n /\ g <= k => f + (n - x) <= k /\ m + (k - g) = m + (k - f - (n - x))
           /\ y = n /\ g = m /\ g <= k => f + (n - x) <= k /\ m + (k - f - (n - x)) = k
           /\ y = n /\ g = m /\ k = f + (n - m) => k = x
           /\ k < g \/ g <= k
  OBVIOUS

\* What is so when first has come to g and next to y.
RoundDone(e, d, n, g, y, m) ==
  /\ y # n /\ g # m => Rotating(e, d, n, g, y, m)
  /\ y # n /\ g = m => Rotating(e, d, n, g, y, y)
  /\ y = n /\ g # m => Rotating(e, d, n, g, m, m)
  /\ y = n /\ g = m => Resting(e, d, n)
  /\ y # n => g # y

\* One round: first goes to g and next to y, and on, where a run of elements ends.
LEMMA RotateOne ==
  ASSUME NEW n \in Nat, NEW f \in Nat, NEW x \in Nat, NEW m \in Nat, NEW e, NEW d, NEW d2,
         Rotating(e, d, n, f, x, m),
         SwappedIn(d, d2, n, f, x), NEW g, g = f + 1, NEW y, y = x + 1
  PROVE  RoundDone(e, d2, n, g, y, m)
<1>1. /\ f < m /\ m <= x /\ x < n /\ n = Len(e)
      /\ \A k \in 0 .. n - 1 :
           /\ k < f => e[k + 1] = d[k]
           /\ f <= k /\ k < f + (n - x) => e[k + 1] = d[x + (k - f)]
           /\ f + (n - x) <= k /\ k < f + (n - m) => e[k + 1] = d[m + (k - f - (n - x))]
           /\ f + (n - m) <= k => e[k + 1] = d[k - (n - m)]
  BY DEF Rotating
<1>2. /\ x \in 0 .. n - 1 /\ f \in 0 .. n - 1 /\ f < m /\ m <= x /\ x < n /\ f # x
      /\ n = Len(e) /\ g \in Nat /\ y \in Nat /\ g = f + 1 /\ y = x + 1
  BY <1>1
<1>a. \A k \in 0 .. n - 1 :
        /\ k < g + (n - m) => k < f + (n - m) \/ k = f + (n - m)
        /\ g = m => k < f + (n - m) \/ k = f + (n - m)
        /\ y = n /\ g <= k => f + (n - x) <= k /\ m + (k - g) = m + (k - f - (n - x))
        /\ y = n /\ g = m /\ g <= k => f + (n - x) <= k /\ m + (k - f - (n - x)) = k
        /\ y = n /\ g = m /\ k = f + (n - m) => k = x
        /\ k < g \/ g <= k
  BY <1>2, RoundPlaces
\* The five kinds of places.
<1>3. ASSUME NEW k \in 0 .. n - 1
      PROVE  /\ k < g => e[k + 1] = d2[k]
             /\ g <= k /\ k < g + (n - y) => e[k + 1] = d2[y + (k - g)]
             /\ f + (n - x) <= k /\ k < f + (n - m) => e[k + 1] = d2[m + (k - f - (n - x))]
             /\ k = f + (n - m) => e[k + 1] = d2[x]
             /\ f + (n - m) < k => e[k + 1] = d2[k - (n - m)]
  <2>0. k \in Nat /\ k < n
    OBVIOUS
  <2>1. ASSUME k < g PROVE e[k + 1] = d2[k]
    <3>1. CASE k < f
      <4>1. k # f /\ k # x
        BY <1>2, <3>1
      <4> QED BY <1>1, <3>1, <4>1 DEF SwappedIn
    <3>2. CASE k = f
      <4>1. f <= k /\ k < f + (n - x) /\ x + (k - f) = x
        BY <1>2, <3>2
      <4> QED BY <1>1, <3>2, <4>1 DEF SwappedIn
    <3> QED BY <2>0, <2>1, <3>1, <3>2
  <2>2. ASSUME g <= k, k < g + (n - y) PROVE e[k + 1] = d2[y + (k - g)]
    <3>1. /\ f <= k /\ k < f + (n - x) /\ y + (k - g) = x + (k - f)
          /\ x + (k - f) \in 0 .. n - 1 /\ x + (k - f) # f /\ x + (k - f) # x
      BY <1>2, <2>0, <2>2
    <3> QED BY <1>1, <3>1 DEF SwappedIn
  <2>3. ASSUME f + (n - x) <= k, k < f + (n - m) PROVE e[k + 1] = d2[m + (k - f - (n - x))]
    <3>1. /\ m + (k - f - (n - x)) \in 0 .. n - 1 /\ m + (k - f - (n - x)) # f
          /\ m + (k - f - (n - x)) # x
      BY <1>2, <2>0, <2>3
    <3> QED BY <1>1, <2>3, <3>1 DEF SwappedIn
  <2>4. ASSUME k = f + (n - m) PROVE e[k + 1] = d2[x]
    <3>1. f + (n - m) <= k /\ k - (n - m) = f
      BY <1>2, <2>4
    <3> QED BY <1>1, <3>1 DEF SwappedIn
  <2>5. ASSUME f + (n - m) < k PROVE e[k + 1] = d2[k - (n - m)]
    <3>1. /\ f + (n - m) <= k /\ k - (n - m) \in 0 .. n - 1 /\ k - (n - m) # f
          /\ k - (n - m) # x
      BY <1>2, <2>0, <2>5
    <3> QED BY <1>1, <3>1 DEF SwappedIn
  <2> QED BY <2>1, <2>2, <2>3, <2>4, <2>5
<1>4. ASSUME y # n, g # m PROVE Rotating(e, d2, n, g, y, m)
  <2>1. ASSUME NEW k \in 0 .. n - 1
        PROVE  /\ k < g => e[k + 1] = d2[k]
               /\ g <= k /\ k < g + (n - y) => e[k + 1] = d2[y + (k - g)]
               /\ g + (n - y) <= k /\ k < g + (n - m) => e[k + 1] = d2[m + (k - g - (n - y))]
               /\ g + (n - m) <= k => e[k + 1] = d2[k - (n - m)]
    <3>0. k \in Nat /\ k < n
      OBVIOUS
    <3>1. ASSUME g + (n - y) <= k, k < g + (n - m) PROVE e[k + 1] = d2[m + (k - g - (n - y))]
      <4>1. m + (k - g - (n - y)) = m + (k - f - (n - x)) /\ f + (n - x) <= k
        BY <1>2, <3>0, <3>1
      <4>2. CASE k < f + (n - m)
        BY <1>3, <4>1, <4>2
      <4>3. CASE k = f + (n - m)
        <5>1. m + (k - f - (n - x)) = x
          BY <1>2, <3>0, <4>3
        <5> QED BY <1>3, <4>1, <4>3, <5>1
      <4> QED BY <1>a, <3>1, <4>2, <4>3
    <3>2. ASSUME g + (n - m) <= k PROVE e[k + 1] = d2[k - (n - m)]
      <4>1. f + (n - m) < k
        BY <1>2, <3>0, <3>2
      <4> QED BY <1>3, <4>1
    <3> QED BY <1>3, <3>1, <3>2
  <2>2. g < m /\ m <= y /\ y < n
    BY <1>2, <1>4
  <2> QED BY <1>2, <2>1, <2>2 DEF Rotating
<1>5. ASSUME y # n, g = m PROVE Rotating(e, d2, n, g, y, y)
  <2>1. ASSUME NEW k \in 0 .. n - 1
        PROVE  /\ k < g => e[k + 1] = d2[k]
               /\ g <= k /\ k < g + (n - y) => e[k + 1] = d2[y + (k - g)]
               /\ ~(g + (n - y) <= k /\ k < g + (n - y))
               /\ g + (n - y) <= k => e[k + 1] = d2[k - (n - y)]
    <3>0. k \in Nat /\ k < n
      OBVIOUS
    <3>1. ASSUME g + (n - y) <= k PROVE e[k + 1] = d2[k - (n - y)]
      <4>1. f + (n - x) <= k /\ k - (n - y) = m + (k - f - (n - x))
        BY <1>2, <1>5, <3>0, <3>1
      <4>2. CASE k < f + (n - m)
        BY <1>3, <4>1, <4>2
      <4>3. CASE k = f + (n - m)
        <5>1. m + (k - f - (n - x)) = x
          BY <1>2, <3>0, <4>3
        <5> QED BY <1>3, <4>1, <4>3, <5>1
      <4>4. k < f + (n - m) \/ k = f + (n - m)
        BY <1>5, <1>a
      <4> QED BY <4>2, <4>3, <4>4
    <3>2. ~(g + (n - y) <= k /\ k < g + (n - y))
      BY <1>2, <3>0
    <3> QED BY <1>3, <3>1, <3>2
  <2>2. g < y /\ y <= y /\ y < n
    BY <1>2, <1>5
  <2> QED BY <1>2, <2>1, <2>2 DEF Rotating
<1>6. ASSUME y = n, g # m PROVE Rotating(e, d2, n, g, m, m)
  <2>1. ASSUME NEW k \in 0 .. n - 1
        PROVE  /\ k < g => e[k + 1] = d2[k]
               /\ g <= k /\ k < g + (n - m) => e[k + 1] = d2[m + (k - g)]
               /\ ~(g + (n - m) <= k /\ k < g + (n - m))
               /\ g + (n - m) <= k => e[k + 1] = d2[k - (n - m)]
    <3>0. k \in Nat /\ k < n
      OBVIOUS
    <3>1. ASSUME g <= k, k < g + (n - m) PROVE e[k + 1] = d2[m + (k - g)]
      <4>1. f + (n - x) <= k /\ m + (k - g) = m + (k - f - (n - x))
        BY <1>6, <3>1, <1>a
      <4>2. CASE k < f + (n - m)
        BY <1>3, <4>1, <4>2
      <4>3. CASE k = f + (n - m)
        <5>1. m + (k - f - (n - x)) = x
          BY <1>2, <3>0, <4>3
        <5> QED BY <1>3, <4>1, <4>3, <5>1
      <4>4. k < f + (n - m) \/ k = f + (n - m)
        BY <3>1, <1>a
      <4> QED BY <4>2, <4>3, <4>4
    <3>2. ASSUME g + (n - m) <= k PROVE e[k + 1] = d2[k - (n - m)]
      <4>1. f + (n - m) < k
        BY <1>2, <3>0, <3>2
      <4> QED BY <1>3, <4>1
    <3>3. ~(g + (n - m) <= k /\ k < g + (n - m))
      BY <1>2, <3>0
    <3> QED BY <1>3, <3>1, <3>2, <3>3
  <2>2. g < m /\ m <= m /\ m < n
    BY <1>2, <1>6
  <2> QED BY <1>2, <2>1, <2>2 DEF Rotating
<1>7. ASSUME y = n, g = m PROVE Resting(e, d2, n)
  <2>1. ASSUME NEW k \in 0 .. n - 1 PROVE e[k + 1] = d2[k]
    <3>0. k \in Nat /\ k < n
      OBVIOUS
    <3>1. CASE k < g
      BY <1>3, <3>1
    <3>2. CASE g <= k /\ k < f + (n - m)
      <4>1. f + (n - x) <= k /\ m + (k - f - (n - x)) = k
        BY <1>7, <3>2, <1>a
      <4> QED BY <1>3, <3>2, <4>1
    <3>3. CASE k = f + (n - m)
      <4>1. k = x
        BY <1>7, <3>3, <1>a
      <4> QED BY <1>3, <3>3, <4>1
    <3>4. k < g \/ (g <= k /\ k < f + (n - m)) \/ k = f + (n - m)
      BY <1>7, <1>a
    <3> QED BY <3>1, <3>2, <3>3, <3>4
  <2> QED BY <1>2, <2>1 DEF Resting
<1>8. y # n => g # y
  BY <1>2
<1> QED BY <1>4, <1>5, <1>6, <1>7, <1>8 DEF RoundDone

LEMMA MoveOne ==
  ASSUME NEW n \in Nat, NEW i \in Nat, NEW j \in Nat, NEW e, NEW d, NEW d2,
         Moving(e, d, n, j, i), j # n,
         d2[i] = d[j], \A k \in 0 .. n - 1 : k # i => d2[k] = d[k],
         NEW a, a = i + 1, NEW b, b = j + 1
  PROVE  Moving(e, d2, n, b, a)
<1>1. /\ i < j /\ j < n /\ n - (j - i) = Len(e)
      /\ \A k \in 0 .. Len(e) - 1 :
           /\ k < i => e[k + 1] = d[k]
           /\ i <= k => e[k + 1] = d[j + (k - i)]
  BY DEF Moving
<1>2. ASSUME NEW k \in 0 .. Len(e) - 1
      PROVE  (k < a => e[k + 1] = d2[k]) /\ (a <= k => e[k + 1] = d2[b + (k - a)])
  <2>0. k \in Nat /\ k < n - (j - i)
    BY <1>1
  <2>1. CASE k < i
    <3>1. k \in 0 .. n - 1 /\ k # i /\ ~(a <= k)
      BY <1>1, <2>0, <2>1
    <3> QED BY <1>1, <2>1, <3>1
  <2>2. CASE k = i
    <3>1. i <= k /\ j + (k - i) = j /\ ~(a <= k)
      BY <2>2
    <3> QED BY <1>1, <2>2, <3>1
  <2>3. CASE a <= k
    <3>1. /\ i <= k /\ b + (k - a) = j + (k - i) /\ ~(k < a)
          /\ j + (k - i) \in 0 .. n - 1 /\ j + (k - i) # i
      BY <1>1, <2>0, <2>3
    <3> QED BY <1>1, <3>1
  <2> QED BY <2>0, <2>1, <2>2, <2>3
<1>3. a < b /\ b <= n /\ n - (b - a) = Len(e)
  <2>1. b - a = j - i /\ a < b /\ b <= n
    BY <1>1
  <2> QED BY <1>1, <2>1
<1> QED BY <1>2, <1>3 DEF Moving
-----------------------------------------------------------------------------
(* The steps of the loops.                                                  *)

\* The elements of a vector of which each place is told are elements.
LEMMA RestingIsSound ==
  ASSUME StaticVectorAssumption, pc' = "idle", Return,
         size' \in Places, data' \in [Slots -> Values \union {Gone}],
         expected' \in Seq(Values), Resting(expected', data', size')
  PROVE  Sound'
<1>1. TypeOK'
  BY DEF Return, TypeOK, Places, StaticVectorAssumption
<1>2. Len(expected') <= Capacity
  BY DEF Resting, Places
<1>3. \A i \in 0 .. size' - 1 : data'[i] \in Values
  <2>1. ASSUME NEW i \in 0 .. size' - 1 PROVE data'[i] \in Values
    <3>1. i + 1 \in 1 .. Len(expected') /\ expected'[i + 1] = data'[i]
      BY DEF Resting, Places, StaticVectorAssumption
    <3> QED BY <3>1
  <2> QED BY <2>1
<1> QED BY <1>1, <1>2, <1>3 DEF Sound

LEMMA AppendNextStep ==
  ASSUME StaticVectorAssumption, Sound, AppendNext
  PROVE  Sound'
<1>1. /\ pc = "append" /\ pc' = "append" /\ todo # <<>>
      /\ data' = [data EXCEPT ![size] = Fetch(Head(todo))] /\ size' = size + 1
      /\ todo' = Tail(todo)
      /\ UNCHANGED <<at, first, next, middle, from, to, expected>>
  BY DEF AppendNext, rotation, moving
<1>2. /\ todo \in Seq(Source) /\ data \in [Slots -> Values \union {Gone}]
      /\ size \in Nat /\ Capacity \in Nat /\ at \in Nat /\ middle \in Nat
      /\ expected \in Seq(Values) /\ Len(expected) <= Capacity
  BY DEF Sound, TypeOK, Places, StaticVectorAssumption
<1>3. Appending(expected, data, size, at, middle, todo) /\ ReadInTime(size, todo)
  BY <1>1 DEF Sound
<1>4. Len(todo) \in Nat /\ Len(todo) >= 1 /\ Head(todo) = todo[1]
  BY <1>1, <1>2
<1>5. at <= middle /\ middle <= size /\ size + Len(todo) = Len(expected)
  BY <1>3 DEF Appending
<1>6. size \in Slots /\ size + 1 \in Places
  BY <1>2, <1>4, <1>5 DEF Slots, Places
<1>7. Fetch(Head(todo)) = FetchIn(data, todo[1])
  BY <1>4 DEF Fetch, FetchIn
<1>8. Appending(expected', data', size', at', middle', todo') /\ ReadInTime(size', todo')
  <2>1. data' = [data EXCEPT ![size] = FetchIn(data, todo[1])]
    BY <1>1, <1>7
  <2>2. Appending(expected, data', size', at, middle, todo') /\ ReadInTime(size', todo')
    BY <1>1, <1>2, <1>3, <1>6, <2>1, AppendOne
  <2> QED BY <1>1, <2>2
<1>9. FetchIn(data, todo[1]) \in Values
  <2> DEFINE k == at + (size - middle)
  <2>1. /\ k \in 0 .. Len(expected) - 1 /\ k + 1 \in 1 .. Len(expected)
        /\ at + (size - middle) <= k /\ k < at + (size - middle) + Len(todo)
        /\ k - (at + (size - middle)) + 1 = 1
    BY <1>2, <1>4, <1>5
  <2> HIDE DEF k
  <2>2. expected[k + 1] = FetchIn(data, todo[k - (at + (size - middle)) + 1])
    BY <1>3, <2>1 DEF Appending
  <2> QED BY <1>2, <2>1, <2>2
<1>10. ASSUME NEW i \in 0 .. size' - 1 PROVE data'[i] \in Values
  <2>1. i \in 0 .. size - 1 \/ i = size
    BY <1>1, <1>2
  <2>2. CASE i = size
    BY <1>1, <1>2, <1>6, <1>7, <1>9, <2>2
  <2>3. CASE i \in 0 .. size - 1
    <3>1. i \in Slots /\ i # size /\ data[i] \in Values
      BY <1>2, <1>6, <2>3 DEF Slots, Sound
    <3> QED BY <1>1, <1>2, <3>1
  <2> QED BY <2>1, <2>2, <2>3
<1>11. TypeOK'
  <2>1. data' \in [Slots -> Values \union {Gone}]
    BY <1>1, <1>2, <1>7, <1>9
  <2>2. todo' \in Seq(Source)
    BY <1>1, <1>2
  <2> QED BY <1>1, <1>6, <2>1, <2>2 DEF Sound, TypeOK
<1> QED BY <1>1, <1>2, <1>8, <1>10, <1>11 DEF Sound

LEMMA BeginRotateStep ==
  ASSUME StaticVectorAssumption, Sound, BeginRotate
  PROVE  Sound'
<1>1. pc = "append" /\ todo = <<>> /\ UNCHANGED <<data, size, expected>>
  BY DEF BeginRotate
<1>2. Appending(expected, data, size, at, middle, todo) /\ Len(todo) = 0
  BY <1>1 DEF Sound
<1>3. /\ size \in Nat /\ at \in Nat /\ middle \in Nat /\ size \in Places
      /\ data \in [Slots -> Values \union {Gone}] /\ expected \in Seq(Values)
  BY DEF Sound, TypeOK, Places, StaticVectorAssumption
<1>4. /\ at <= middle /\ middle <= size /\ size = Len(expected) /\ (at # middle => middle < size)
      /\ \A k \in 0 .. size - 1 :
           /\ k < at => expected[k + 1] = data[k]
           /\ at <= k /\ k < at + (size - middle) => expected[k + 1] = data[middle + (k - at)]
           /\ at + (size - middle) <= k => expected[k + 1] = data[k - (size - middle)]
  <2>1. /\ at <= middle /\ middle <= size /\ size + Len(todo) = Len(expected)
        /\ at # middle => size - middle + Len(todo) > 0
        /\ \A k \in 0 .. Len(expected) - 1 :
             /\ k < at => expected[k + 1] = data[k]
             /\ at <= k /\ k < at + (size - middle) => expected[k + 1] = data[middle + (k - at)]
             /\ at + (size - middle) + Len(todo) <= k
                  => expected[k + 1] = data[k - (size - middle + Len(todo))]
    BY <1>2 DEF Appending
  <2>2. /\ size + Len(todo) = size /\ size - middle + Len(todo) = size - middle
        /\ at + (size - middle) + Len(todo) = at + (size - middle)
    BY <1>2, <1>3
  <2>3. at <= middle /\ middle <= size /\ size = Len(expected)
    BY <2>1, <2>2
  <2>4. at # middle => middle < size
    BY <1>3, <2>1, <2>2
  <2>5. ASSUME NEW k \in 0 .. size - 1
        PROVE  /\ k < at => expected[k + 1] = data[k]
               /\ at <= k /\ k < at + (size - middle) => expected[k + 1] = data[middle + (k - at)]
               /\ at + (size - middle) <= k => expected[k + 1] = data[k - (size - middle)]
    BY <2>1, <2>2, <2>3
  <2> QED BY <2>3, <2>4, <2>5
<1>5. CASE at = middle /\ Return
  <2>1. ASSUME NEW k \in 0 .. size - 1 PROVE expected[k + 1] = data[k]
    <3>1. CASE k < at
      BY <1>4, <3>1
    <3>2. CASE at <= k
      <4>1. k < at + (size - middle) /\ middle + (k - at) = k
        BY <1>3, <1>4, <1>5
      <4> QED BY <1>4, <3>2, <4>1
    <3> QED BY <1>3, <3>1, <3>2
  <2>2. Resting(expected', data', size')
    BY <1>1, <1>4, <2>1 DEF Resting
  <2>3. pc' = "idle"
    BY <1>5 DEF Return
  <2> QED BY <1>1, <1>3, <1>5, <2>2, <2>3, RestingIsSound
<1>6. CASE at # middle /\ first' = at /\ next' = middle /\ pc' = "rotate"
             /\ UNCHANGED <<at, todo, middle, moving, was>>
  <2>1. ASSUME NEW k \in 0 .. size - 1
        PROVE ~(at + (size - middle) <= k /\ k < at + (size - middle))
    BY <1>3
  <2>2. Rotating(expected, data, size, at, middle, middle)
    BY <1>3, <1>4, <1>6, <2>1 DEF Rotating
  <2>3. Rotating(expected', data', size', first', next', middle')
    BY <1>1, <1>6, <2>2
  <2>4. TypeOK'
    BY <1>1, <1>6 DEF Sound, TypeOK, moving
  <2> QED BY <1>1, <1>6, <2>3, <2>4 DEF Sound
<1> QED BY <1>5, <1>6 DEF BeginRotate

LEMMA RotateStep ==
  ASSUME StaticVectorAssumption, Sound, Rotate
  PROVE  Sound'
<1>1. /\ pc = "rotate" /\ first \in Slots /\ next \in Slots
      /\ data' = [data EXCEPT ![first] = data[next], ![next] = data[first]]
      /\ UNCHANGED <<size, expected>>
  BY DEF Rotate, Swapped
<1>2. /\ size \in Nat /\ middle \in Nat /\ first \in Nat /\ next \in Nat /\ size \in Places
      /\ Capacity \in Nat /\ size <= Capacity
      /\ data \in [Slots -> Values \union {Gone}] /\ expected \in Seq(Values)
  BY <1>1 DEF Sound, TypeOK, Places, Slots, StaticVectorAssumption
<1>3. /\ Rotating(expected, data, size, first, next, middle)
      /\ first < middle /\ middle <= next /\ next < size /\ size = Len(expected)
  BY <1>1 DEF Sound, Rotating
<1>4. data' \in [Slots -> Values \union {Gone}]
  BY <1>1, <1>2
<1>5. SwappedIn(data, data', size, first, next)
  <2>1. first # next
    BY <1>2, <1>3
  <2>2. data'[first] = data[next] /\ data'[next] = data[first]
    BY <1>1, <1>2, <2>1
  <2>3. \A k \in 0 .. size - 1 : k \in Slots
    BY <1>2 DEF Slots
  <2>4. \A k \in 0 .. size - 1 : k # first /\ k # next => data'[k] = data[k]
    BY <1>1, <1>2, <2>3
  <2> QED BY <2>2, <2>4 DEF SwappedIn
<1>6. ASSUME NEW i \in 0 .. size - 1 PROVE data'[i] \in Values
  <2>1. first \in 0 .. size - 1 /\ next \in 0 .. size - 1
    BY <1>2, <1>3
  <2>2. data[i] \in Values /\ data[first] \in Values /\ data[next] \in Values
    BY <2>1 DEF Sound
  <2> QED BY <1>5, <2>2 DEF SwappedIn
<1> DEFINE g == first + 1  y == next + 1
<1>a. g = first + 1 /\ y = next + 1
  OBVIOUS
<1>7. RoundDone(expected, data', size, g, y, middle)
  <2> HIDE DEF g, y
  <2> QED BY <1>a, <1>2, <1>3, <1>5, RotateOne
<1>8. g \in Places /\ y \in Places
  BY <1>2, <1>3 DEF Places
<1>9. CASE g = NextAfter(g, y) /\ Return
  <2>1. y = size /\ g = middle
    BY <1>7, <1>9 DEF NextAfter, RoundDone
  <2>2. Resting(expected', data', size') /\ pc' = "idle"
    BY <1>1, <1>7, <1>9, <2>1 DEF Return, RoundDone
  <2> QED BY <1>1, <1>2, <1>4, <1>9, <2>2, RestingIsSound
<1>10. CASE /\ g # NextAfter(g, y) /\ first' = g /\ next' = NextAfter(g, y)
            /\ middle' = MiddleAfter(g, y) /\ UNCHANGED <<pc, at, todo, moving, was>>
  <2> HIDE DEF g, y
  <2>1. Rotating(expected, data', size, first', next', middle')
    <3>1. CASE y = size
      <4>1. g # middle /\ next' = middle /\ middle' = middle
        BY <1>10, <3>1 DEF NextAfter, MiddleAfter
      <4> QED BY <1>7, <1>10, <3>1, <4>1 DEF RoundDone
    <3>2. CASE y # size
      <4>1. next' = y /\ middle' = IF g = middle THEN y ELSE middle
        BY <1>10, <3>2 DEF NextAfter, MiddleAfter
      <4> QED BY <1>7, <1>10, <3>2, <4>1 DEF RoundDone
    <3> QED BY <3>1, <3>2
  <2>2. TypeOK'
    <3>1. next' \in Places /\ middle' \in Places
      BY <1>8, <1>10 DEF NextAfter, MiddleAfter, Sound, TypeOK
    <3> QED BY <1>1, <1>4, <1>8, <1>10, <3>1 DEF Sound, TypeOK, moving
  <2> QED BY <1>1, <1>6, <1>10, <2>1, <2>2 DEF Sound
<1> QED BY <1>9, <1>10 DEF Rotate

LEMMA MoveDownStep ==
  ASSUME StaticVectorAssumption, Sound, MoveDown
  PROVE  Sound'
<1>1. /\ pc = "move" /\ pc' = "move" /\ from # size /\ data' = [data EXCEPT ![to] = data[from]]
      /\ from' = from + 1 /\ to' = to + 1
      /\ UNCHANGED <<size, at, todo, first, next, middle, expected>>
  BY DEF MoveDown, rotation
<1>2. /\ size \in Nat /\ from \in Nat /\ to \in Nat /\ Capacity \in Nat /\ size <= Capacity
      /\ data \in [Slots -> Values \union {Gone}] /\ expected \in Seq(Values)
  BY DEF Sound, TypeOK, Places, StaticVectorAssumption
<1>3. Moving(expected, data, size, from, to) /\ to < from /\ from <= size
  BY <1>1 DEF Sound, Moving
<1>4. to \in Slots /\ to \in 0 .. size - 1 /\ from \in 0 .. size - 1
  BY <1>1, <1>2, <1>3 DEF Slots
<1>5. data[from] \in Values
  BY <1>4 DEF Sound
<1>6. data'[to] = data[from] /\ \A k \in 0 .. size - 1 : k # to => data'[k] = data[k]
  <2>1. \A k \in 0 .. size - 1 : k \in Slots
    BY <1>2 DEF Slots
  <2> QED BY <1>1, <1>2, <1>4, <2>1
<1>7. Moving(expected, data', size, from', to')
  BY <1>1, <1>2, <1>3, <1>6, MoveOne
<1>8. \A i \in 0 .. size - 1 : data'[i] \in Values
  BY <1>5, <1>6 DEF Sound
<1>9. TypeOK'
  <2>1. from + 1 \in Places /\ to + 1 \in Places
    BY <1>1, <1>2, <1>3 DEF Places
  <2>2. data' \in [Slots -> Values \union {Gone}]
    BY <1>1, <1>2, <1>5
  <2> QED BY <1>1, <2>1, <2>2 DEF Sound, TypeOK
<1> QED BY <1>1, <1>7, <1>8, <1>9 DEF Sound

LEMMA EndMoveStep ==
  ASSUME StaticVectorAssumption, Sound, EndMove
  PROVE  Sound'
<1>1. /\ pc = "move" /\ from = size /\ Return /\ pc' = "idle" /\ expected' = expected
      /\ data' = Destroyed(Vacated(to, from)) /\ size' = size - (from - to)
  BY DEF EndMove, Return, NewSize
<1>2. /\ size \in Nat /\ to \in Nat /\ Capacity \in Nat /\ size <= Capacity
      /\ expected \in Seq(Values)
  BY DEF Sound, TypeOK, Places, StaticVectorAssumption
<1>3. /\ to < size /\ size - (from - to) = Len(expected)
      /\ \A k \in 0 .. Len(expected) - 1 : k < to => expected[k + 1] = data[k]
  BY <1>1 DEF Sound, Moving
<1>4. size' = to /\ Len(expected) = to /\ to \in Places
  BY <1>1, <1>2, <1>3 DEF Places
<1>5. ASSUME NEW k \in 0 .. to - 1 PROVE expected[k + 1] = data'[k]
  <2>1. k \in Slots \ Vacated(to, from) /\ k < to
    BY <1>1, <1>2, <1>3 DEF Slots, Vacated
  <2>2. data'[k] = data[k]
    BY <1>1, <2>1, DestroyedAre
  <2> QED BY <1>3, <1>4, <2>1, <2>2
<1>6. Resting(expected', data', size')
  BY <1>1, <1>4, <1>5 DEF Resting
<1>7. data' \in [Slots -> Values \union {Gone}]
  BY <1>1, DestroyedAre
<1> QED BY <1>1, <1>2, <1>4, <1>6, <1>7, RestingIsSound
-----------------------------------------------------------------------------
LEMMA InitIsSound ==
  ASSUME StaticVectorAssumption, Init
  PROVE  Sound
<1>1. Capacity \in Nat /\ at = 0 /\ middle = 0 /\ at \in Places
      /\ first \in Places /\ next \in Places /\ middle \in Places
      /\ from \in Places /\ to \in Places
  BY DEF Init, Places, StaticVectorAssumption
<1>2. Zero \in Values
  BY DEF StaticVectorAssumption
<1>3. ASSUME NEW s \in Ranges PROVE s \in Seq(Values) /\ Len(s) \in Nat
  BY DEF Ranges, Places, StaticVectorAssumption
<1>4. CASE data = Fresh /\ size = 0 /\ expected = <<>> /\ pc = "idle" /\ todo = <<>>
  <2>1. data \in [Slots -> Values \union {Gone}] /\ size \in Places /\ todo \in Seq(Source)
    BY <1>1, <1>2, <1>4 DEF Fresh, Places
  <2>2. expected \in Seq(Values) /\ Len(expected) = 0 /\ 0 .. size - 1 = {}
    BY <1>4
  <2>3. Resting(expected, data, size)
    BY <1>4, <2>2 DEF Resting
  <2> QED BY <1>1, <1>4, <2>1, <2>2, <2>3 DEF Sound, TypeOK
<1>5. ASSUME NEW s \in Ranges, ConstructList(s) PROVE Sound
  <2>1. /\ Len(s) <= Capacity /\ size = Len(s) /\ expected = s /\ pc = "idle" /\ todo = <<>>
        /\ data = [i \in Slots |-> IF i < Len(s) THEN s[i + 1] ELSE Zero]
    BY <1>5 DEF ConstructList
  <2>2. s \in Seq(Values) /\ Len(s) \in Nat
    BY <1>3
  <2>3. \A i \in Slots : i < Len(s) => s[i + 1] \in Values
    BY <1>1, <2>2 DEF Slots
  <2>4. data \in [Slots -> Values \union {Gone}]
    BY <1>2, <2>1, <2>3
  <2>5. ASSUME NEW i \in 0 .. size - 1 PROVE data[i] \in Values /\ expected[i + 1] = data[i]
    <3>1. i \in Slots /\ i < Len(s)
      BY <1>1, <2>1, <2>2 DEF Slots
    <3> QED BY <2>1, <2>3, <3>1
  <2>6. Resting(expected, data, size)
    BY <2>1, <2>5 DEF Resting
  <2>7. size \in Places /\ todo \in Seq(Source)
    BY <1>1, <2>1, <2>2 DEF Places
  <2> QED BY <1>1, <2>1, <2>2, <2>4, <2>5, <2>6, <2>7 DEF Sound, TypeOK
<1>6. ASSUME NEW s \in Ranges, Construct(s) PROVE Sound
  <2>1. /\ Len(s) <= Capacity /\ data = Fresh /\ size = 0 /\ expected = s
        /\ pc = "append" /\ todo = GivenAll(s)
    BY <1>6 DEF Construct
  <2>2. s \in Seq(Values) /\ Len(s) \in Nat
    BY <1>3
  <2>3. /\ todo \in Seq(Source) /\ Len(todo) = Len(s)
        /\ \A k \in 1 .. Len(s) : FetchIn(data, todo[k]) = s[k] /\ todo[k][1] = "given"
    BY <2>1, <2>2, GivenAreGood DEF GoodSource, Fetch, FetchIn
  <2>4. ReadInTime(size, todo)
    <3>1. \A k, l \in 1 .. Len(todo) : todo[l] # Own(size + k - 1)
      BY <2>3 DEF Own
    <3> QED BY <3>1 DEF ReadInTime
  <2>5. Appending(expected, data, size, at, middle, todo)
    <3>1. at = 0 /\ size = 0 /\ middle = 0
      BY <1>1, <2>1
    <3>2. \A k \in 0 .. Len(s) - 1 : k + 1 \in 1 .. Len(s) /\ k - (0 + (0 - 0)) + 1 = k + 1
      BY <2>2
    <3> QED BY <2>1, <2>2, <2>3, <3>1, <3>2 DEF Appending
  <2>6. data \in [Slots -> Values \union {Gone}] /\ size \in Places /\ 0 .. size - 1 = {}
    BY <1>1, <1>2, <2>1 DEF Fresh, Places
  <2> QED BY <1>1, <2>1, <2>2, <2>3, <2>4, <2>5, <2>6 DEF Sound, TypeOK
<1> QED BY <1>4, <1>5, <1>6 DEF Init

LEMMA NextIsSound ==
  ASSUME StaticVectorAssumption, Sound, [Next]_vars
  PROVE  Sound'
<1>1. CASE UNCHANGED vars
  BY <1>1 DEF vars, call, rotation, moving, Sound, TypeOK
<1>2. ASSUME NEW p \in Places, NEW src \in Sources, Insert(p, src) PROVE Sound'
  BY <1>2, SourcesAreGood, InsertStep
<1>3. ASSUME NEW src \in Sources, Assign(src) PROVE Sound'
  BY <1>3, SourcesAreGood, AssignStep
<1>4. CASE Loop
  BY <1>4, AppendNextStep, BeginRotateStep, RotateStep, MoveDownStep, EndMoveStep DEF Loop
<1>5. CASE PopBack \/ Clear
  BY <1>5, PopBackStep, ClearStep
<1>6. ASSUME NEW v \in Values, PushBack(v) PROVE Sound'
  BY <1>6, PushBackStep
<1>7. ASSUME NEW d \in Storage, NEW n \in Places, Copy(d, n) PROVE Sound'
  BY <1>7, CopyStep
<1>8. ASSUME NEW i \in Places, NEW j \in Places, Erase(i, j) PROVE Sound'
  BY <1>8, EraseStep
<1>9. ASSUME NEW n \in Places, NEW v \in Values, Resize(n, v) PROVE Sound'
  BY <1>9, ResizeStep
<1> QED BY <1>1, <1>2, <1>3, <1>4, <1>5, <1>6, <1>7, <1>8, <1>9 DEF Next

\* The invariant in every state of every vector.
LEMMA AlwaysSound == ASSUME StaticVectorAssumption PROVE Spec => []Sound
<1>1. Init => Sound
  BY InitIsSound
<1>2. Sound /\ [Next]_vars => Sound'
  BY NextIsSound
<1> QED BY <1>1, <1>2, PTL DEF Spec

LEMMA SoundVector ==
  ASSUME StaticVectorAssumption, Sound
  PROVE  TypeOK /\ LikeSequence /\ RotatesInside /\ Alive
<1>1. LikeSequence
  <2> SUFFICES ASSUME pc = "idle" PROVE Elements = expected
    BY DEF LikeSequence
  <2>1. Resting(expected, data, size) /\ expected \in Seq(Values)
    BY DEF Sound
  <2>2. /\ Elements \in Seq(Values) /\ Len(Elements) = size
        /\ \A k \in 0 .. size - 1 : Elements[k + 1] = data[k]
    BY ElementsAre
  <2>3. size \in Nat
    BY DEF Sound, TypeOK, Places, StaticVectorAssumption
  <2> HIDE DEF Elements
  <2>4. ASSUME NEW i \in 1 .. Len(Elements) PROVE Elements[i] = expected[i]
    <3>1. i - 1 \in 0 .. size - 1 /\ (i - 1) + 1 = i
      BY <2>2, <2>3
    <3>2. Elements[(i - 1) + 1] = data[i - 1] /\ expected[(i - 1) + 1] = data[i - 1]
      BY <2>1, <2>2, <3>1 DEF Resting
    <3> QED BY <3>1, <3>2
  <2> QED BY <2>1, <2>2, <2>4, SeqEqual DEF Resting
<1>2. RotatesInside
  <2> SUFFICES ASSUME pc = "rotate" PROVE first < size /\ next < size
    BY DEF RotatesInside
  <2> QED BY DEF Sound, TypeOK, Places, Rotating, StaticVectorAssumption
<1>3. Alive
  BY DEF Alive, Sound, StaticVectorAssumption
<1> QED BY <1>1, <1>2, <1>3 DEF Sound

\* The iterators stay in the array or at its end, whatever is inserted or erased.
THEOREM TypeCorrect == ASSUME StaticVectorAssumption PROVE Spec => []TypeOK
  BY AlwaysSound, SoundVector, PTL

\* For every capacity: after each insertion, wherever it is and whether what goes in
\* is the caller's or the vector's own, and after each erasure, assignment, resize and
\* copy, the vector holds what a sequence would.
THEOREM HoldsASequence == ASSUME StaticVectorAssumption PROVE Spec => []LikeSequence
  BY AlwaysSound, SoundVector, PTL

\* slow_rotate touches no element outside of [first, last), if no empty range is
\* inserted before the end.
THEOREM RotationStaysInside == ASSUME StaticVectorAssumption PROVE Spec => []RotatesInside
  BY AlwaysSound, SoundVector, PTL

\* No element of a vector is an object whose destructor ran, in an erasure neither.
THEOREM ElementsStayAlive == ASSUME StaticVectorAssumption PROVE Spec => []Alive
  BY AlwaysSound, SoundVector, PTL
=============================================================================
