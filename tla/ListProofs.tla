----------------------------- MODULE ListProofs ------------------------------
(***************************************************************************)
(* Lemmas the other proofs rest on: induction and recursion over the       *)
(* naturals, what is in a list of lists that are put together, what both   *)
(* sorts make of a list, how often they keep an element, and what find     *)
(* and split return.  The library's theorems of induction take an          *)
(* operator; these take a set or a function, which every prover can be     *)
(* given.                                                                  *)
(***************************************************************************)
EXTENDS Lists, WellFoundedInduction, SequenceTheorems, TLAPS

\* A set of naturals that is not empty has a least element.
LEMMA LeastElement ==
  ASSUME NEW T \in SUBSET Nat, T # {}
  PROVE  \E m \in T : \A k \in T : m <= k
<1>1. PICK m \in T : \A k \in T : ~ (<<k, m>> \in OpToRel(<, Nat))
  BY NatLessThanWellFounded, WFMin
<1>2. \A k \in T : m <= k
  <2>1. \A k \in Nat : k < m => <<k, m>> \in OpToRel(<, Nat)
    BY DEF OpToRel
  <2> HIDE DEF OpToRel
  <2>2. \A k \in T : k \in Nat /\ m \in Nat /\ ~(k < m)
    BY <1>1, <2>1
  <2> QED BY <2>2
<1> QED BY <1>2

\* Induction, for a set.
LEMMA Induction ==
  ASSUME NEW S, 0 \in S, \A n \in Nat : n \in S => n + 1 \in S
  PROVE  Nat \subseteq S
<1> DEFINE T == Nat \ S
<1>1. SUFFICES ASSUME T # {} PROVE FALSE
  OBVIOUS
<1>2. PICK m \in T : \A k \in T : m <= k
  BY <1>1, LeastElement
<1>3. m # 0 /\ m - 1 \in Nat
  BY <1>2
<1>4. m - 1 \in S
  BY <1>2, <1>3
<1>5. (m - 1) + 1 \in S
  BY <1>3, <1>4
<1> QED BY <1>2, <1>5

\* Length, domain and elements of a list.
LEMMA ListFacts ==
  ASSUME NEW X, NEW s \in Seq(X)
  PROVE  Len(s) \in Nat /\ DOMAIN s = 1 .. Len(s) /\ \A i \in 1 .. Len(s) : s[i] \in X
OBVIOUS

\* The elements of two lists put together.
LEMMA BothLists ==
  ASSUME NEW X, NEW a \in Seq(X), NEW b \in Seq(X)
  PROVE  /\ a \o b \in Seq(X) /\ Len(a \o b) = Len(a) + Len(b)
         /\ \A i \in 1 .. Len(a) : (a \o b)[i] = a[i]
         /\ \A i \in 1 .. Len(a) + Len(b) : i > Len(a) => i - Len(a) \in 1 .. Len(b) /\ (a \o b)[i] = b[i - Len(a)]
OBVIOUS

\* f begins with base and goes on by step, for ever and up to n.
Recurs(f, base, step)      == f[0] = base /\ \A i \in Nat : f[i + 1] = step[<<f[i], i>>]
RecursTo(n, f, base, step) == f[0] = base /\ \A i \in 1 .. n : f[i] = step[<<f[i - 1], i>>]

\* A function by recursion: base, and step from each value and its place.
LEMMA Recursion ==
  ASSUME NEW X, NEW base \in X, NEW step \in [X \X Nat -> X]
  PROVE  \E f \in [Nat -> X] : Recurs(f, base, step)
<1> DEFINE Ok(g, n) == /\ g \in [0 .. n -> X] /\ g[0] = base
                       /\ \A i \in 0 .. n - 1 : g[i + 1] = step[<<g[i], i>>]
<1>1. ASSUME NEW n \in Nat, NEW m \in Nat, NEW g, NEW h, Ok(g, n), Ok(h, m)
      PROVE  \A i \in Nat : i <= n /\ i <= m => g[i] = h[i]
  <2> DEFINE S == {i \in Nat : i <= n /\ i <= m => g[i] = h[i]}
  <2>1. 0 \in S
    BY <1>1
  <2>2. ASSUME NEW i \in Nat, i \in S PROVE i + 1 \in S
    <3> SUFFICES ASSUME i + 1 <= n, i + 1 <= m PROVE g[i + 1] = h[i + 1]
      OBVIOUS
    <3>1. g[i] = h[i] /\ i \in 0 .. n - 1 /\ i \in 0 .. m - 1
      BY <2>2
    <3> QED BY <1>1, <3>1
  <2>3. Nat \subseteq S
    <3> HIDE DEF S
    <3> QED BY <2>1, <2>2, Induction
  <2> QED BY <2>3
<1>2. \A n \in Nat : \E g : Ok(g, n)
  <2> DEFINE S == {n \in Nat : \E g : Ok(g, n)}
  <2>1. 0 \in S
    <3>1. Ok([i \in 0 .. 0 |-> base], 0)
      OBVIOUS
    <3> QED BY <3>1
  <2>2. ASSUME NEW n \in Nat, n \in S PROVE n + 1 \in S
    <3>1. PICK g : Ok(g, n)
      BY <2>2
    <3> DEFINE h == [i \in 0 .. n + 1 |-> IF i = n + 1 THEN step[<<g[n], n>>] ELSE g[i]]
    <3>2. h \in [0 .. n + 1 -> X] /\ h[0] = base
      BY <3>1
    <3>3. ASSUME NEW i \in 0 .. (n + 1) - 1 PROVE h[i + 1] = step[<<h[i], i>>]
      <4>0. n + 1 \in 0 .. n + 1 /\ n \in 0 .. n + 1 /\ n # n + 1
        OBVIOUS
      <4>1. CASE i = n
        <5>1. h[n + 1] = step[<<g[n], n>>] /\ h[n] = g[n]
          BY <4>0
        <5> HIDE DEF h
        <5> QED BY <4>1, <5>1
      <4>2. CASE i # n
        <5>1. i \in 0 .. n - 1 /\ i + 1 \in 0 .. n + 1 /\ i \in 0 .. n + 1 /\ i + 1 # n + 1 /\ i # n + 1
          BY <4>2
        <5> QED BY <3>1, <5>1
      <4> QED BY <4>1, <4>2
    <3>4. Ok(h, n + 1)
      <4> HIDE DEF h
      <4> QED BY <3>2, <3>3
    <3> HIDE DEF Ok, h
    <3> QED BY <3>4
  <2>3. Nat \subseteq S
    <3> HIDE DEF S
    <3> QED BY <2>1, <2>2, Induction
  <2> QED BY <2>3
<1> DEFINE G(n) == CHOOSE g : Ok(g, n)
<1>3. \A n \in Nat : Ok(G(n), n)
  <2> HIDE DEF Ok
  <2> QED BY <1>2, Zenon
<1> DEFINE f == [n \in Nat |-> G(n)[n]]
<1> HIDE DEF G
<1>4. f \in [Nat -> X] /\ f[0] = base
  BY <1>3
<1>5. ASSUME NEW n \in Nat PROVE f[n + 1] = step[<<f[n], n>>]
  <2>1. G(n + 1)[n] = G(n)[n]
    <3>1. Ok(G(n + 1), n + 1) /\ Ok(G(n), n)
      BY <1>3
    <3> HIDE DEF Ok
    <3> QED BY <3>1, <1>1
  <2>2. n \in 0 .. (n + 1) - 1 /\ Ok(G(n + 1), n + 1)
    BY <1>3
  <2>3. G(n + 1)[n + 1] = step[<<G(n + 1)[n], n>>]
    BY <2>2
  <2> QED BY <2>1, <2>3
<1> QED
  <2> HIDE DEF f
  <2> QED BY <1>4, <1>5 DEF Recurs

\* Induction up to n.
LEMMA InductionTo ==
  ASSUME NEW n \in Nat, NEW S, 0 \in S, \A i \in 1 .. n : i - 1 \in S => i \in S
  PROVE  \A i \in 0 .. n : i \in S
<1> DEFINE T == {i \in Nat : i <= n => i \in S}
<1>1. 0 \in T
  OBVIOUS
<1>2. ASSUME NEW i \in Nat, i \in T PROVE i + 1 \in T
  <2> SUFFICES ASSUME i + 1 <= n PROVE i + 1 \in S
    OBVIOUS
  <2>1. i + 1 \in 1 .. n /\ (i + 1) - 1 = i /\ i <= n
    OBVIOUS
  <2>2. i \in S
    BY <1>2, <2>1
  <2> QED BY <2>1, <2>2
<1>3. Nat \subseteq T
  <2> HIDE DEF T
  <2> QED BY <1>1, <1>2, Induction
<1> QED BY <1>3

\* Recursion up to n.
LEMMA RecursionTo ==
  ASSUME NEW n \in Nat, NEW X, NEW base \in X, NEW step \in [X \X (1 .. n) -> X]
  PROVE  \E f \in [0 .. n -> X] : RecursTo(n, f, base, step)
<1> DEFINE more == [p \in X \X Nat |-> IF p[2] + 1 \in 1 .. n THEN step[<<p[1], p[2] + 1>>] ELSE p[1]]
<1>1. more \in [X \X Nat -> X]
  OBVIOUS
<1>2. PICK g \in [Nat -> X] : Recurs(g, base, more)
  <2> HIDE DEF more
  <2> QED BY <1>1, Recursion
<1> DEFINE f == [i \in 0 .. n |-> g[i]]
<1>3. f \in [0 .. n -> X] /\ f[0] = base
  BY <1>2 DEF Recurs
<1>4. ASSUME NEW i \in 1 .. n PROVE f[i] = step[<<f[i - 1], i>>]
  <2>1. i - 1 \in Nat /\ (i - 1) + 1 = i /\ i - 1 \in 0 .. n /\ i \in 0 .. n
    OBVIOUS
  <2>2. g[i] = more[<<g[i - 1], i - 1>>]
    <3> HIDE DEF more
    <3>1. g[(i - 1) + 1] = more[<<g[i - 1], i - 1>>]
      BY <1>2, <2>1, Zenon DEF Recurs
    <3> QED BY <2>1, <3>1
  <2>3. more[<<g[i - 1], i - 1>>] = step[<<g[i - 1], i>>]
    BY <2>1
  <2> HIDE DEF more
  <2> QED BY <2>1, <2>2, <2>3
<1> QED
  <2> HIDE DEF f
  <2> QED BY <1>3, <1>4 DEF RecursTo
-----------------------------------------------------------------------------
\* f has the first lists of ss put together.
Flattens(ss, f) ==
  /\ f[0] = <<>>
  /\ \A i \in 1 .. Len(ss) : f[i] = f[i - 1] \o ss[i]

\* Putting lists together is a recursion of that kind.
LEMMA FlattensTo ==
  ASSUME NEW X, NEW ss \in Seq(Seq(X))
  PROVE  \E f \in [0 .. Len(ss) -> Seq(X)] : Flattens(ss, f) /\ FlattenSeq(ss) = f[Len(ss)]
<1> DEFINE Fcn(g) == g = [i \in 1 .. Len(ss) |-> IF i = 1 THEN ss[i] ELSE g[i - 1] \o ss[i]]
           g0 == CHOOSE g : Fcn(g)
           step == [p \in Seq(X) \X (1 .. Len(ss)) |-> p[1] \o ss[p[2]]]
<1>0. Len(ss) \in Nat /\ (\A i \in 1 .. Len(ss) : ss[i] \in Seq(X)) /\ <<>> \in Seq(X)
  OBVIOUS
<1>1. step \in [Seq(X) \X (1 .. Len(ss)) -> Seq(X)]
  BY <1>0
<1>2. PICK f \in [0 .. Len(ss) -> Seq(X)] : RecursTo(Len(ss), f, <<>>, step)
  <2> HIDE DEF step
  <2> QED BY <1>0, <1>1, RecursionTo
<1>3. f[0] = <<>> /\ \A i \in 1 .. Len(ss) : f[i] = f[i - 1] \o ss[i]
  <2>1. ASSUME NEW i \in 1 .. Len(ss) PROVE f[i] = f[i - 1] \o ss[i]
    <3>1. i - 1 \in 0 .. Len(ss)
      BY <1>0
    <3>2. f[i] = step[<<f[i - 1], i>>] /\ f[i - 1] \in Seq(X)
      <4> HIDE DEF step
      <4> QED BY <1>2, <3>1 DEF RecursTo
    <3>3. step[<<f[i - 1], i>>] = f[i - 1] \o ss[i]
      BY <3>2
    <3> HIDE DEF step
    <3> QED BY <3>2, <3>3
  <2> HIDE DEF step
  <2> QED BY <1>2, <2>1 DEF RecursTo
<1> HIDE DEF step
<1>4. CASE Len(ss) = 0
  <2>1. ss = <<>> /\ FlattenSeq(ss) = ss
    BY <1>4 DEF FlattenSeq
  <2> QED BY <1>3, <1>4, <2>1 DEF Flattens
<1>5. CASE Len(ss) # 0
  <2>1. Fcn([i \in 1 .. Len(ss) |-> f[i]])
    <3> DEFINE h == [i \in 1 .. Len(ss) |-> f[i]]
    <3>1. ASSUME NEW i \in 1 .. Len(ss)
          PROVE  f[i] = IF i = 1 THEN ss[i] ELSE h[i - 1] \o ss[i]
      <4>1. CASE i = 1
        <5>1. f[1] = f[1 - 1] \o ss[1] /\ ss[1] \in Seq(X) /\ 1 - 1 = 0
          <6>1. 1 \in 1 .. Len(ss)
            BY <4>1
          <6>2. f[1] = f[1 - 1] \o ss[1]
            BY <1>3, <6>1, Zenon
          <6>3. 1 - 1 = 0
            OBVIOUS
          <6> QED BY <1>0, <6>1, <6>2, <6>3
        <5>2. f[1] = <<>> \o ss[1]
          BY <1>3, <5>1
        <5>3. \A s \in Seq(X) : <<>> \o s = s
          OBVIOUS
        <5> QED BY <4>1, <5>1, <5>2, <5>3
      <4>2. CASE i # 1
        <5>1. i - 1 \in 1 .. Len(ss)
          BY <1>0, <4>2
        <5>2. h[i - 1] = f[i - 1]
          BY <5>1
        <5> HIDE DEF h
        <5> QED BY <1>3, <4>2, <5>2
      <4> QED BY <4>1, <4>2
    <3>2. h = [i \in 1 .. Len(ss) |-> IF i = 1 THEN ss[i] ELSE h[i - 1] \o ss[i]]
      <4>1. \A i \in 1 .. Len(ss) : f[i] = IF i = 1 THEN ss[i] ELSE h[i - 1] \o ss[i]
        BY <3>1
      <4> QED BY <4>1
    <3> QED BY <3>2, Zenon
  <2>2. Fcn(g0)
    <3> HIDE DEF Fcn
    <3> QED BY <2>1, Zenon
  <2>3. FlattenSeq(ss) = g0[Len(ss)]
    BY <1>5 DEF FlattenSeq
  <2> HIDE DEF g0
  <2>4. \A i \in 1 .. Len(ss) : g0[i] = IF i = 1 THEN ss[i] ELSE g0[i - 1] \o ss[i]
    BY <2>2
  <2>5. g0[1] = f[1] /\ 1 \in 1 .. Len(ss)
    <3>1. 1 \in 1 .. Len(ss) /\ ss[1] \in Seq(X)
      BY <1>0, <1>5
    <3>2. f[1] = f[1 - 1] \o ss[1] /\ g0[1] = ss[1] /\ 1 - 1 = 0
      <4>1. f[1] = f[1 - 1] \o ss[1]
        BY <1>3, <3>1, Zenon
      <4>2. 1 - 1 = 0
        OBVIOUS
      <4>3. g0[1] = ss[1]
        BY <2>4, <3>1, Zenon
      <4> QED BY <4>1, <4>2, <4>3
    <3>3. \A s \in Seq(X) : <<>> \o s = s
      OBVIOUS
    <3> QED BY <1>3, <3>1, <3>2, <3>3
  <2>6. \A i \in 0 .. Len(ss) - 1 : i \in {j \in Nat : g0[j + 1] = f[j + 1]}
    <3> DEFINE S == {j \in Nat : g0[j + 1] = f[j + 1]}
    <3>1. 0 \in S
      BY <2>5
    <3>2. ASSUME NEW i \in 1 .. Len(ss) - 1, i - 1 \in S PROVE i \in S
      <4>1. i + 1 \in 1 .. Len(ss) /\ i + 1 # 1 /\ (i + 1) - 1 = i /\ (i - 1) + 1 = i /\ i \in Nat
        BY <1>0
      <4>2. g0[i + 1] = g0[i] \o ss[i + 1] /\ f[i + 1] = f[i] \o ss[i + 1]
        BY <1>3, <2>4, <4>1
      <4> QED BY <3>2, <4>1, <4>2
    <3>3. Len(ss) - 1 \in Nat
      BY <1>0, <1>5
    <3> HIDE DEF S
    <3>4. \A i \in 0 .. Len(ss) - 1 : i \in S
      BY <3>1, <3>2, <3>3, InductionTo
    <3> QED BY <3>4 DEF S
  <2>7. g0[Len(ss)] = f[Len(ss)]
    <3>1. Len(ss) - 1 \in 0 .. Len(ss) - 1 /\ (Len(ss) - 1) + 1 = Len(ss)
      BY <1>0, <1>5
    <3> QED BY <2>6, <3>1
  <2> QED BY <1>3, <2>3, <2>7 DEF Flattens
<1> QED BY <1>4, <1>5

\* The elements of the list q are those of the lists ss.
Gathers(q, ss) ==
  /\ \A j \in 1 .. Len(q) : \E i \in 1 .. Len(ss) : \E k \in 1 .. Len(ss[i]) : q[j] = ss[i][k]
  /\ \A i \in 1 .. Len(ss) : \A k \in 1 .. Len(ss[i]) : \E j \in 1 .. Len(q) : q[j] = ss[i][k]

\* What is in a list put together from others, and where it comes from.
LEMMA FlattenedElements ==
  ASSUME NEW X, NEW ss \in Seq(Seq(X)), NEW q, q = FlattenSeq(ss)
  PROVE  q \in Seq(X) /\ Gathers(q, ss)
<1>1. PICK f \in [0 .. Len(ss) -> Seq(X)] : Flattens(ss, f) /\ q = f[Len(ss)]
  BY FlattensTo
<1>0. Len(ss) \in Nat /\ \A i \in 1 .. Len(ss) : ss[i] \in Seq(X)
  OBVIOUS
<1> DEFINE From1(n) == \A j \in 1 .. Len(f[n]) : \E i \in 1 .. n : \E k \in 1 .. Len(ss[i]) : f[n][j] = ss[i][k]
           Into(n)  == \A i \in 1 .. n : \A k \in 1 .. Len(ss[i]) : \E j \in 1 .. Len(f[n]) : f[n][j] = ss[i][k]
           S == {n \in Nat : From1(n) /\ Into(n)}
<1>2. 0 \in S
  <2>1. f[0] = <<>> /\ Len(f[0]) = 0
    BY <1>1 DEF Flattens
  <2> QED BY <2>1
<1>3. ASSUME NEW n \in 1 .. Len(ss), n - 1 \in S PROVE n \in S
  <2> DEFINE a == f[n - 1]
             b == ss[n]
             c == f[n]
  <2>1. n - 1 \in 0 .. Len(ss) /\ n \in 0 .. Len(ss) /\ n \in Nat
    BY <1>0
  <2>2. a \in Seq(X) /\ b \in Seq(X) /\ c = a \o b
    BY <1>0, <1>1, <2>1 DEF Flattens
  <2>3. \A j \in 1 .. Len(c) : (j \in 1 .. Len(a) /\ c[j] = a[j])
                               \/ \E k \in 1 .. Len(b) : c[j] = b[k]
    <3> HIDE DEF a, b, c
    <3> SUFFICES ASSUME NEW j \in 1 .. Len(c), ~(j \in 1 .. Len(a) /\ c[j] = a[j])
                 PROVE  \E k \in 1 .. Len(b) : c[j] = b[k]
      OBVIOUS
    <3>1. j - Len(a) \in 1 .. Len(b) /\ c[j] = b[j - Len(a)]
      BY <2>2
    <3> QED BY <3>1
  <2>4. /\ \A j \in 1 .. Len(a) : j \in 1 .. Len(c) /\ c[j] = a[j]
        /\ \A k \in 1 .. Len(b) : Len(a) + k \in 1 .. Len(c) /\ c[Len(a) + k] = b[k]
    <3> HIDE DEF a, b, c
    <3> QED BY <2>2
  <2>5. From1(n - 1) /\ Into(n - 1)
    BY <1>3
  <2>6. From1(n)
    <3> SUFFICES ASSUME NEW j \in 1 .. Len(c)
                 PROVE  \E i \in 1 .. n : \E k \in 1 .. Len(ss[i]) : c[j] = ss[i][k]
      OBVIOUS
    <3>1. CASE j \in 1 .. Len(a) /\ c[j] = a[j]
      <4>1. PICK i \in 1 .. n - 1 : \E k \in 1 .. Len(ss[i]) : a[j] = ss[i][k]
        BY <2>5, <3>1
      <4>2. i \in 1 .. n
        BY <2>1
      <4> HIDE DEF a, c
      <4> QED BY <3>1, <4>1, <4>2
    <3>2. CASE \E k \in 1 .. Len(b) : c[j] = b[k]
      <4>1. n \in 1 .. n
        BY <2>1
      <4> HIDE DEF c
      <4> QED BY <3>2, <4>1
    <3> QED BY <2>3, <3>1, <3>2
  <2>7. Into(n)
    <3> SUFFICES ASSUME NEW i \in 1 .. n, NEW k \in 1 .. Len(ss[i])
                 PROVE  \E j \in 1 .. Len(c) : c[j] = ss[i][k]
      OBVIOUS
    <3>1. CASE i = n
      <4>1. Len(a) + k \in 1 .. Len(c) /\ c[Len(a) + k] = ss[i][k]
        <5>1. k \in 1 .. Len(b) /\ b[k] = ss[i][k]
          BY <3>1
        <5> HIDE DEF a, b, c
        <5> QED BY <2>4, <5>1
      <4> HIDE DEF a, b, c
      <4> QED BY <4>1
    <3>2. CASE i # n
      <4>1. i \in 1 .. n - 1
        BY <2>1, <3>2
      <4>2. PICK j \in 1 .. Len(a) : a[j] = ss[i][k]
        BY <2>5, <4>1
      <4> HIDE DEF a, b, c
      <4> QED BY <2>4, <4>2
    <3> QED BY <3>1, <3>2
  <2> HIDE DEF From1, Into
  <2> QED BY <2>1, <2>6, <2>7
<1>4. Len(ss) \in S
  <2>1. \A n \in 0 .. Len(ss) : n \in S
    <3> HIDE DEF S
    <3> QED BY <1>0, <1>2, <1>3, InductionTo
  <2>2. Len(ss) \in 0 .. Len(ss)
    BY <1>0
  <2> HIDE DEF S
  <2> QED BY <2>1, <2>2
<1>5. q \in Seq(X)
  BY <1>0, <1>1
<1> QED BY <1>1, <1>4, <1>5 DEF Gathers
-----------------------------------------------------------------------------
(* brigand::sort.                                                          *)

\* f has the states of insert: each is a step from the one before.
InsertStart(lt, out, ins) ==
  [os |-> <<>>, ins |-> ins, ts |-> out, ftag |-> Skips(lt, out, Head(ins))]

Inserts(lt, out, ins, f) ==
  /\ f[0] = InsertStart(lt, out, ins)
  /\ \A i \in 1 .. Len(out) + Len(ins) : f[i] = InsertStep(lt, f[i - 1])

\* insert is what its last instantiation leaves, each one step behind the one before.
LEMMA InsertRuns ==
  ASSUME NEW lt, NEW out, NEW ins, Len(out) + Len(ins) \in Nat
  PROVE  \E f : /\ Inserts(lt, out, ins, f)
                /\ LET l == f[Len(out) + Len(ins)] IN insert(lt, out, ins) = l.os \o l.ins \o l.ts
<1> DEFINE n == Len(out) + Len(ins)
           base == InsertStart(lt, out, ins)
           Next(x, i) == InsertStep(lt, x)
           Run(g, k) == /\ g = [i \in 0 .. k |-> g[i]] /\ g[0] = base
                        /\ \A i \in 1 .. k : g[i] = Next(g[i - 1], i)
           S == {k \in Nat : \E g : Run(g, k)}
           Fcn(g) == g = [i \in 0 .. n |-> IF i = 0 THEN base ELSE InsertStep(lt, g[i - 1])]
           f == CHOOSE g : Fcn(g)
<1>0. n \in Nat
  OBVIOUS
<1>1. \E g : Run(g, n)
  <2> HIDE DEF n, base, Next
  <2>1. Run([i \in 0 .. 0 |-> base], 0)
    OBVIOUS
  <2>2. ASSUME NEW k \in Nat, NEW g, Run(g, k)
        PROVE  Run([i \in 0 .. k + 1 |-> IF i <= k THEN g[i] ELSE Next(g[k], k + 1)], k + 1)
    <3> DEFINE h == [i \in 0 .. k + 1 |-> IF i <= k THEN g[i] ELSE Next(g[k], k + 1)]
    <3>1. h = [i \in 0 .. k + 1 |-> h[i]] /\ h[0] = base
      BY <2>2
    <3>2. ASSUME NEW i \in 1 .. k + 1 PROVE h[i] = Next(h[i - 1], i)
      <4>1. CASE i <= k
        <5>1. h[i] = g[i] /\ h[i - 1] = g[i - 1] /\ i \in 1 .. k
          BY <4>1
        <5> QED BY <2>2, <5>1
      <4>2. CASE i = k + 1
        <5>1. h[i] = Next(g[k], k + 1) /\ h[i - 1] = g[k] /\ i = k + 1
          BY <4>2
        <5> QED BY <5>1
      <4> QED BY <4>1, <4>2
    <3> QED BY <3>1, <3>2
  <2> HIDE DEF Run
  <2>3. 0 \in S
    BY <2>1
  <2>4. \A k \in Nat : k \in S => k + 1 \in S
    <3> SUFFICES ASSUME NEW k \in Nat, NEW g, Run(g, k) PROVE \E h : Run(h, k + 1)
      OBVIOUS
    <3> QED BY <2>2, Zenon
  <2>5. n \in S
    <3> HIDE DEF S
    <3> QED BY <1>0, <2>3, <2>4, Induction
  <2> QED BY <2>5
<1>2. PICK g : Run(g, n)
  <2> HIDE DEF Run
  <2> QED BY <1>1
<1>3. Fcn(g)
  <2>1. \A i \in 0 .. n : g[i] = IF i = 0 THEN base ELSE Next(g[i - 1], i)
    <3> HIDE DEF n, base, Next
    <3> SUFFICES ASSUME NEW i \in 0 .. n PROVE g[i] = IF i = 0 THEN base ELSE Next(g[i - 1], i)
      OBVIOUS
    <3>1. g[0] = base /\ \A j \in 1 .. n : g[j] = Next(g[j - 1], j)
      BY <1>2
    <3>2. i = 0 \/ i \in 1 .. n
      BY <1>0
    <3> QED BY <3>1, <3>2
  <2>2. g = [i \in 0 .. n |-> g[i]]
    BY <1>2
  <2> QED BY <2>1, <2>2, Zenon
<1>4. Fcn(f)
  <2> HIDE DEF Fcn
  <2> QED BY <1>3, Zenon
<1>5. insert(lt, out, ins) = f[n].os \o f[n].ins \o f[n].ts
  BY DEF insert, InsertStart
<1>6. f[0] = base /\ \A i \in 1 .. n : f[i] = Next(f[i - 1], i)
  <2>1. \A i \in 0 .. n : f[i] = IF i = 0 THEN base ELSE Next(f[i - 1], i)
    BY <1>4
  <2> HIDE DEF f, base, Next, n
  <2> QED BY <1>0, <2>1
<1> HIDE DEF f
<1> QED BY <1>5, <1>6 DEF Inserts

\* The same for sort_loop.
Loops(lt, out, s, f) ==
  f[0] = out /\ \A i \in 1 .. Len(s) : f[i] = insert(lt, f[i - 1], <<s[i]>>)

\* sort_loop inserts one element after the other.
LEMMA LoopRuns ==
  ASSUME NEW lt, NEW out, NEW s, Len(s) \in Nat
  PROVE  \E f : Loops(lt, out, s, f) /\ sort_loop(lt, out, s) = f[Len(s)]
<1> DEFINE n == Len(s)
           base == out
           Next(x, i) == insert(lt, x, <<s[i]>>)
           Run(g, k) == /\ g = [i \in 0 .. k |-> g[i]] /\ g[0] = base
                        /\ \A i \in 1 .. k : g[i] = Next(g[i - 1], i)
           S == {k \in Nat : \E g : Run(g, k)}
           Fcn(g) == g = [i \in 0 .. n |-> IF i = 0 THEN base ELSE insert(lt, g[i - 1], <<s[i]>>)]
           f == CHOOSE g : Fcn(g)
<1>0. n \in Nat
  OBVIOUS
<1>1. \E g : Run(g, n)
  <2> HIDE DEF n, base, Next
  <2>1. Run([i \in 0 .. 0 |-> base], 0)
    OBVIOUS
  <2>2. ASSUME NEW k \in Nat, NEW g, Run(g, k)
        PROVE  Run([i \in 0 .. k + 1 |-> IF i <= k THEN g[i] ELSE Next(g[k], k + 1)], k + 1)
    <3> DEFINE h == [i \in 0 .. k + 1 |-> IF i <= k THEN g[i] ELSE Next(g[k], k + 1)]
    <3>1. h = [i \in 0 .. k + 1 |-> h[i]] /\ h[0] = base
      BY <2>2
    <3>2. ASSUME NEW i \in 1 .. k + 1 PROVE h[i] = Next(h[i - 1], i)
      <4>1. CASE i <= k
        <5>1. h[i] = g[i] /\ h[i - 1] = g[i - 1] /\ i \in 1 .. k
          BY <4>1
        <5> QED BY <2>2, <5>1
      <4>2. CASE i = k + 1
        <5>1. h[i] = Next(g[k], k + 1) /\ h[i - 1] = g[k] /\ i = k + 1
          BY <4>2
        <5> QED BY <5>1
      <4> QED BY <4>1, <4>2
    <3> QED BY <3>1, <3>2
  <2> HIDE DEF Run
  <2>3. 0 \in S
    BY <2>1
  <2>4. \A k \in Nat : k \in S => k + 1 \in S
    <3> SUFFICES ASSUME NEW k \in Nat, NEW g, Run(g, k) PROVE \E h : Run(h, k + 1)
      OBVIOUS
    <3> QED BY <2>2, Zenon
  <2>5. n \in S
    <3> HIDE DEF S
    <3> QED BY <1>0, <2>3, <2>4, Induction
  <2> QED BY <2>5
<1>2. PICK g : Run(g, n)
  <2> HIDE DEF Run
  <2> QED BY <1>1
<1>3. Fcn(g)
  <2>1. \A i \in 0 .. n : g[i] = IF i = 0 THEN base ELSE Next(g[i - 1], i)
    <3> HIDE DEF n, base, Next
    <3> SUFFICES ASSUME NEW i \in 0 .. n PROVE g[i] = IF i = 0 THEN base ELSE Next(g[i - 1], i)
      OBVIOUS
    <3>1. g[0] = base /\ \A j \in 1 .. n : g[j] = Next(g[j - 1], j)
      BY <1>2
    <3>2. i = 0 \/ i \in 1 .. n
      BY <1>0
    <3> QED BY <3>1, <3>2
  <2>2. g = [i \in 0 .. n |-> g[i]]
    BY <1>2
  <2> QED BY <2>1, <2>2, Zenon
<1>4. Fcn(f)
  <2> HIDE DEF Fcn
  <2> QED BY <1>3, Zenon
<1>5. sort_loop(lt, out, s) = f[n]
  BY DEF sort_loop
<1>6. f[0] = base /\ \A i \in 1 .. n : f[i] = Next(f[i - 1], i)
  <2>1. \A i \in 0 .. n : f[i] = IF i = 0 THEN base ELSE Next(f[i - 1], i)
    BY <1>4
  <2> HIDE DEF f, base, Next, n
  <2> QED BY <1>0, <2>1
<1> HIDE DEF f
<1> QED BY <1>5, <1>6 DEF Loops

\* And for the runs of sort.
RunsOf(s) == Len(Tail(s)) \div (2 * Unroll)

SortsRuns(lt, s, f) ==
  /\ f[0] = <<Head(s)>>
  /\ \A j \in 1 .. RunsOf(s) : f[j] = insert(lt, f[j - 1], SortedRun(lt, Tail(s), j))

\* sort inserts one sorted run after the other, and the rest by sort_loop.
LEMMA SortRuns ==
  ASSUME NEW lt, NEW s, Len(s) >= 2, RunsOf(s) \in Nat
  PROVE  \E f : /\ SortsRuns(lt, s, f)
                /\ sort(lt, s) = sort_loop(lt, f[RunsOf(s)],
                                       From(Tail(s), 2 * Unroll * RunsOf(s) + 1))
<1> DEFINE n == RunsOf(s)
           base == <<Head(s)>>
           Next(x, i) == insert(lt, x, SortedRun(lt, Tail(s), i))
           Run(g, k) == /\ g = [i \in 0 .. k |-> g[i]] /\ g[0] = base
                        /\ \A i \in 1 .. k : g[i] = Next(g[i - 1], i)
           S == {k \in Nat : \E g : Run(g, k)}
           Fcn(g) == g = [i \in 0 .. n |-> IF i = 0 THEN base ELSE insert(lt, g[i - 1], SortedRun(lt, Tail(s), i))]
           f == CHOOSE g : Fcn(g)
<1>0. n \in Nat
  OBVIOUS
<1>1. \E g : Run(g, n)
  <2> HIDE DEF n, base, Next
  <2>1. Run([i \in 0 .. 0 |-> base], 0)
    OBVIOUS
  <2>2. ASSUME NEW k \in Nat, NEW g, Run(g, k)
        PROVE  Run([i \in 0 .. k + 1 |-> IF i <= k THEN g[i] ELSE Next(g[k], k + 1)], k + 1)
    <3> DEFINE h == [i \in 0 .. k + 1 |-> IF i <= k THEN g[i] ELSE Next(g[k], k + 1)]
    <3>1. h = [i \in 0 .. k + 1 |-> h[i]] /\ h[0] = base
      BY <2>2
    <3>2. ASSUME NEW i \in 1 .. k + 1 PROVE h[i] = Next(h[i - 1], i)
      <4>1. CASE i <= k
        <5>1. h[i] = g[i] /\ h[i - 1] = g[i - 1] /\ i \in 1 .. k
          BY <4>1
        <5> QED BY <2>2, <5>1
      <4>2. CASE i = k + 1
        <5>1. h[i] = Next(g[k], k + 1) /\ h[i - 1] = g[k] /\ i = k + 1
          BY <4>2
        <5> QED BY <5>1
      <4> QED BY <4>1, <4>2
    <3> QED BY <3>1, <3>2
  <2> HIDE DEF Run
  <2>3. 0 \in S
    BY <2>1
  <2>4. \A k \in Nat : k \in S => k + 1 \in S
    <3> SUFFICES ASSUME NEW k \in Nat, NEW g, Run(g, k) PROVE \E h : Run(h, k + 1)
      OBVIOUS
    <3> QED BY <2>2, Zenon
  <2>5. n \in S
    <3> HIDE DEF S
    <3> QED BY <1>0, <2>3, <2>4, Induction
  <2> QED BY <2>5
<1>2. PICK g : Run(g, n)
  <2> HIDE DEF Run
  <2> QED BY <1>1
<1>3. Fcn(g)
  <2>1. \A i \in 0 .. n : g[i] = IF i = 0 THEN base ELSE Next(g[i - 1], i)
    <3> HIDE DEF n, base, Next
    <3> SUFFICES ASSUME NEW i \in 0 .. n PROVE g[i] = IF i = 0 THEN base ELSE Next(g[i - 1], i)
      OBVIOUS
    <3>1. g[0] = base /\ \A j \in 1 .. n : g[j] = Next(g[j - 1], j)
      BY <1>2
    <3>2. i = 0 \/ i \in 1 .. n
      BY <1>0
    <3> QED BY <3>1, <3>2
  <2>2. g = [i \in 0 .. n |-> g[i]]
    BY <1>2
  <2> QED BY <2>1, <2>2, Zenon
<1>4. Fcn(f)
  <2> HIDE DEF Fcn
  <2> QED BY <1>3, Zenon
<1>5. sort(lt, s) = sort_loop(lt, f[n], From(Tail(s), 2 * Unroll * n + 1))
  BY DEF sort, RunsOf
<1>6. f[0] = base /\ \A i \in 1 .. n : f[i] = Next(f[i - 1], i)
  <2>1. \A i \in 0 .. n : f[i] = IF i = 0 THEN base ELSE Next(f[i - 1], i)
    BY <1>4
  <2> HIDE DEF f, base, Next, n
  <2> QED BY <1>0, <2>1
<1> HIDE DEF f
<1> QED BY <1>5, <1>6 DEF SortsRuns
-----------------------------------------------------------------------------
\* bf says which element may stand before which.
InOrder(bf, s)   == \A i, j \in 1 .. Len(s) : i < j => <<s[i], s[j]>> \in bf
Ahead(bf, a, b)  == \A x \in ToSet(a), y \in ToSet(b) : <<x, y>> \in bf

\* Two lists put together.
LEMMA Joined ==
  ASSUME NEW E, NEW bf, NEW a \in Seq(E), NEW b \in Seq(E)
  PROVE  /\ a \o b \in Seq(E) /\ Len(a \o b) = Len(a) + Len(b)
         /\ ToSet(a \o b) = ToSet(a) \union ToSet(b)
         /\ InOrder(bf, a \o b) <=> InOrder(bf, a) /\ InOrder(bf, b) /\ Ahead(bf, a, b)
<1> DEFINE c == a \o b
<1>1. /\ c \in Seq(E) /\ Len(c) = Len(a) + Len(b) /\ Len(a) \in Nat /\ Len(b) \in Nat
      /\ \A i \in 1 .. Len(a) : c[i] = a[i]
      /\ \A i \in 1 .. Len(b) : c[i + Len(a)] = b[i]
  OBVIOUS
<1> HIDE DEF c
<1>2. DOMAIN a = 1 .. Len(a) /\ DOMAIN b = 1 .. Len(b) /\ DOMAIN c = 1 .. Len(c)
  BY <1>1
<1>3. \A i \in 1 .. Len(c) : (i \in 1 .. Len(a) /\ c[i] = a[i])
                             \/ (i - Len(a) \in 1 .. Len(b) /\ c[i] = b[i - Len(a)])
  <2> SUFFICES ASSUME NEW i \in 1 .. Len(c), i \notin 1 .. Len(a)
               PROVE  i - Len(a) \in 1 .. Len(b) /\ c[i] = b[i - Len(a)]
    BY <1>1
  <2>1. i - Len(a) \in 1 .. Len(b) /\ (i - Len(a)) + Len(a) = i
    BY <1>1
  <2> QED BY <1>1, <2>1
<1>4. \A i \in 1 .. Len(a) : i \in 1 .. Len(c) /\ c[i] = a[i]
  BY <1>1
<1>5. \A i \in 1 .. Len(b) : i + Len(a) \in 1 .. Len(c) /\ c[i + Len(a)] = b[i]
  BY <1>1
<1>6. ToSet(c) = ToSet(a) \union ToSet(b)
  <2>1. ToSet(c) \subseteq ToSet(a) \union ToSet(b)
    BY <1>2, <1>3 DEF ToSet
  <2>2. ToSet(a) \subseteq ToSet(c)
    BY <1>2, <1>4 DEF ToSet
  <2>3. ToSet(b) \subseteq ToSet(c)
    BY <1>2, <1>5 DEF ToSet
  <2> QED BY <2>1, <2>2, <2>3
<1>7. InOrder(bf, c) => InOrder(bf, a) /\ InOrder(bf, b) /\ Ahead(bf, a, b)
  <2> SUFFICES ASSUME InOrder(bf, c) PROVE InOrder(bf, a) /\ InOrder(bf, b) /\ Ahead(bf, a, b)
    OBVIOUS
  <2>1. InOrder(bf, a)
    BY <1>4 DEF InOrder
  <2>2. InOrder(bf, b)
    <3> SUFFICES ASSUME NEW i \in 1 .. Len(b), NEW j \in 1 .. Len(b), i < j PROVE <<b[i], b[j]>> \in bf
      BY DEF InOrder
    <3>1. i + Len(a) < j + Len(a)
      BY <1>1
    <3> QED BY <1>5, <3>1 DEF InOrder
  <2>3. Ahead(bf, a, b)
    <3> SUFFICES ASSUME NEW i \in 1 .. Len(a), NEW j \in 1 .. Len(b) PROVE <<a[i], b[j]>> \in bf
      BY <1>2 DEF Ahead, ToSet
    <3>1. i < j + Len(a)
      BY <1>1
    <3> QED BY <1>4, <1>5, <3>1 DEF InOrder
  <2> QED BY <2>1, <2>2, <2>3
<1>8. InOrder(bf, a) /\ InOrder(bf, b) /\ Ahead(bf, a, b) => InOrder(bf, c)
  <2> SUFFICES ASSUME InOrder(bf, a), InOrder(bf, b), Ahead(bf, a, b),
                      NEW i \in 1 .. Len(c), NEW j \in 1 .. Len(c), i < j
               PROVE  <<c[i], c[j]>> \in bf
    BY DEF InOrder
  <2>1. CASE i \in 1 .. Len(a) /\ j \in 1 .. Len(a)
    BY <1>4, <2>1 DEF InOrder
  <2>2. CASE i \in 1 .. Len(a) /\ j \notin 1 .. Len(a)
    <3>1. c[i] \in ToSet(a) /\ c[j] \in ToSet(b)
      BY <1>2, <1>3, <1>4, <2>2 DEF ToSet
    <3> QED BY <3>1 DEF Ahead
  <2>3. CASE i \notin 1 .. Len(a)
    <3>1. j \notin 1 .. Len(a)
      BY <1>1, <2>3
    <3>2. /\ i - Len(a) \in 1 .. Len(b) /\ c[i] = b[i - Len(a)]
          /\ j - Len(a) \in 1 .. Len(b) /\ c[j] = b[j - Len(a)]
      BY <1>3, <2>3, <3>1
    <3>3. i - Len(a) < j - Len(a)
      BY <1>1
    <3> QED BY <3>2, <3>3 DEF InOrder
  <2> QED BY <2>1, <2>2, <2>3
<1> QED BY <1>1, <1>6, <1>7, <1>8 DEF c

\* A list of one, and the parts of a list.
LEMMA OneElement ==
  ASSUME NEW E, NEW bf, NEW x \in E
  PROVE  <<x>> \in Seq(E) /\ Len(<<x>>) = 1 /\ ToSet(<<x>>) = {x} /\ InOrder(bf, <<x>>)
  BY DEF ToSet, InOrder

\* A list is its first n elements and those behind them.
LEMMA Parts ==
  ASSUME NEW E, NEW s \in Seq(E), NEW n \in 0 .. Len(s)
  PROVE  /\ SubSeq(s, 1, n) \in Seq(E) /\ Len(SubSeq(s, 1, n)) = n
         /\ From(s, n + 1) \in Seq(E) /\ Len(From(s, n + 1)) = Len(s) - n
         /\ s = SubSeq(s, 1, n) \o From(s, n + 1)
         /\ \A i \in 1 .. n : SubSeq(s, 1, n)[i] = s[i]
         /\ \A i \in 1 .. Len(s) - n : From(s, n + 1)[i] = s[n + i]
<1>0. Len(s) \in Nat /\ \A i \in 1 .. Len(s) : s[i] \in E
  OBVIOUS
<1>1. /\ SubSeq(s, 1, n) \in Seq(E) /\ Len(SubSeq(s, 1, n)) = n
      /\ \A i \in 1 .. n : SubSeq(s, 1, n)[i] = s[i]
  <2>1. \A i \in 1 .. n : s[i] \in E
    BY <1>0
  <2> QED BY <1>0, <2>1
<1>2. /\ From(s, n + 1) \in Seq(E) /\ Len(From(s, n + 1)) = Len(s) - n
      /\ \A i \in 1 .. Len(s) - n : From(s, n + 1)[i] = s[n + i]
  <2>1. \A i \in n + 1 .. Len(s) : s[i] \in E
    BY <1>0
  <2>2. From(s, n + 1) \in Seq(E) /\ Len(From(s, n + 1)) = Len(s) - n
    BY <1>0, <2>1 DEF From
  <2>3. \A i \in 1 .. Len(s) - n : From(s, n + 1)[i] = s[n + i]
    BY <1>0 DEF From
  <2> QED BY <2>2, <2>3
<1> DEFINE a == SubSeq(s, 1, n)
           b == From(s, n + 1)
<1>3. s = a \o b
  <2>0. a \in Seq(E) /\ b \in Seq(E) /\ Len(a) = n /\ Len(b) = Len(s) - n
        /\ (\A i \in 1 .. n : a[i] = s[i]) /\ \A i \in 1 .. Len(s) - n : b[i] = s[n + i]
    BY <1>1, <1>2
  <2> HIDE DEF a, b
  <2>1. a \o b \in Seq(E)
    BY <2>0
  <2>2. Len(a \o b) = Len(s)
    <3>1. Len(a \o b) = Len(a) + Len(b)
      BY <2>0, BothLists
    <3> QED BY <1>0, <2>0, <3>1
  <2>3. \A i \in 1 .. Len(s) : s[i] = (a \o b)[i]
    <3> SUFFICES ASSUME NEW i \in 1 .. Len(s) PROVE s[i] = (a \o b)[i]
      OBVIOUS
    <3>1. CASE i <= n
      <4>1. (a \o b)[i] = a[i] /\ i \in 1 .. n
        BY <1>0, <2>0, <3>1
      <4> QED BY <2>0, <4>1
    <3>2. CASE i > n
      <4>1. (a \o b)[i] = b[i - n] /\ i - n \in 1 .. Len(s) - n /\ n + (i - n) = i
        BY <1>0, <2>0, <3>2
      <4> QED BY <2>0, <4>1
    <3>3. i <= n \/ i > n
      BY <1>0
    <3> QED BY <3>1, <3>2, <3>3, Zenon
  <2> QED BY <2>1, <2>2, <2>3, SeqEqual
<1> QED BY <1>1, <1>2, <1>3

\* A list that is not empty is its head and its tail.
LEMMA HeadAndTail ==
  ASSUME NEW E, NEW s \in Seq(E), s # <<>>
  PROVE  /\ Head(s) \in E /\ Tail(s) \in Seq(E) /\ Len(s) >= 1 /\ Len(Tail(s)) = Len(s) - 1
         /\ s = <<Head(s)>> \o Tail(s) /\ Head(s) = s[1]
<1>1. Head(s) \in E /\ Tail(s) \in Seq(E) /\ Len(s) >= 1 /\ Len(Tail(s)) = Len(s) - 1 /\ Head(s) = s[1]
      /\ Len(s) \in Nat /\ \A i \in 1 .. Len(s) - 1 : Tail(s)[i] = s[i + 1]
  OBVIOUS
<1> DEFINE t == <<Head(s)>> \o Tail(s)
<1>2. t \in Seq(E) /\ Len(t) = Len(s) /\ t[1] = s[1] /\ \A i \in 2 .. Len(s) : t[i] = Tail(s)[i - 1]
  BY <1>1
<1>3. \A i \in 1 .. Len(s) : t[i] = s[i]
  <2> SUFFICES ASSUME NEW i \in 2 .. Len(s) PROVE t[i] = s[i]
    BY <1>1, <1>2
  <2>1. i - 1 \in 1 .. Len(s) - 1 /\ (i - 1) + 1 = i
    BY <1>1
  <2> HIDE DEF t
  <2> QED BY <1>1, <1>2, <2>1
<1> HIDE DEF t
<1>4. s = t
  BY <1>1, <1>2, <1>3
<1> QED BY <1>1, <1>4 DEF t
-----------------------------------------------------------------------------
\* bf is an order that agrees with lt, of which not being less is transitive too.
Orders(lt, bf, E) ==
  /\ \A x, y, z \in E : <<x, y>> \in bf /\ <<y, z>> \in bf => <<x, z>> \in bf
  /\ \A x, y \in E : <<x, y>> \in bf => <<y, x>> \notin lt
  /\ \A x, y, z \in E : <<x, z>> \in lt => <<x, y>> \in lt \/ <<y, z>> \in lt

\* Of an earlier y and a later x, x goes first unless y is less.
Fits(lt, bf, y, x) == IF <<y, x>> \in lt THEN <<y, x>> \in bf ELSE <<x, y>> \in bf

Suits(lt, bf, b, a) == \A y \in ToSet(b), x \in ToSet(a) : Fits(lt, bf, y, x)

\* Of the n elements all, os is in its place; ins and ts are in order.
Merges(lt, bf, E, all, n, os, ins, ts) ==
  /\ os \in Seq(E) /\ ins \in Seq(E) /\ ts \in Seq(E)
  /\ InOrder(bf, os) /\ InOrder(bf, ins) /\ InOrder(bf, ts)
  /\ Ahead(bf, os, ins) /\ Ahead(bf, os, ts) /\ Suits(lt, bf, ts, ins)
  /\ ToSet(os) \union ToSet(ins) \union ToSet(ts) = all
  /\ Len(os) + Len(ins) + Len(ts) = n

\* The merge goes on when the first elements of the inserted list are taken.
LEMMA MovesInsert ==
  ASSUME NEW lt, NEW bf, NEW E, NEW all, NEW n, NEW os, NEW ins, NEW ts,
         Merges(lt, bf, E, all, n, os, ins, ts),
         NEW m \in Seq(E), NEW rest \in Seq(E), ins = m \o rest, Ahead(bf, m, ts)
  PROVE  Merges(lt, bf, E, all, n, os \o m, rest, ts)
<1>1. /\ InOrder(bf, m) /\ InOrder(bf, rest) /\ Ahead(bf, m, rest)
      /\ ToSet(ins) = ToSet(m) \union ToSet(rest) /\ Len(ins) = Len(m) + Len(rest)
  <2>1. InOrder(bf, m \o rest)
    BY DEF Merges
  <2> QED BY <2>1, Joined
<1>2. os \in Seq(E) /\ InOrder(bf, os) /\ Ahead(bf, os, m)
  BY <1>1 DEF Merges, Ahead
<1>3. /\ os \o m \in Seq(E) /\ InOrder(bf, os \o m) /\ ToSet(os \o m) = ToSet(os) \union ToSet(m)
      /\ Len(os \o m) = Len(os) + Len(m)
  BY <1>1, <1>2, Joined
<1>4. Ahead(bf, os \o m, rest) /\ Ahead(bf, os \o m, ts) /\ Suits(lt, bf, ts, rest)
  BY <1>1, <1>3 DEF Merges, Ahead, Suits
<1>5. ToSet(os \o m) \union ToSet(rest) \union ToSet(ts) = all
  BY <1>1, <1>3 DEF Merges
<1>6. Len(os \o m) + Len(rest) + Len(ts) = n
  <2>1. Len(os) \in Nat /\ Len(m) \in Nat /\ Len(rest) \in Nat /\ Len(ts) \in Nat
    BY DEF Merges
  <2>2. Len(os) + Len(ins) + Len(ts) = n
    BY DEF Merges
  <2> QED BY <1>1, <1>3, <2>1, <2>2
<1> QED BY <1>1, <1>3, <1>4, <1>5, <1>6, Zenon DEF Merges

\* And when the first of the sorted list are.
LEMMA MovesSorted ==
  ASSUME NEW lt, NEW bf, NEW E, NEW all, NEW n, NEW os, NEW ins, NEW ts,
         Merges(lt, bf, E, all, n, os, ins, ts),
         NEW m \in Seq(E), NEW rest \in Seq(E), ts = m \o rest, Ahead(bf, m, ins)
  PROVE  Merges(lt, bf, E, all, n, os \o m, ins, rest)
<1>1. /\ InOrder(bf, m) /\ InOrder(bf, rest) /\ Ahead(bf, m, rest)
      /\ ToSet(ts) = ToSet(m) \union ToSet(rest) /\ Len(ts) = Len(m) + Len(rest)
  <2>1. InOrder(bf, m \o rest)
    BY DEF Merges
  <2> QED BY <2>1, Joined
<1>2. os \in Seq(E) /\ InOrder(bf, os) /\ Ahead(bf, os, m)
  BY <1>1 DEF Merges, Ahead
<1>3. /\ os \o m \in Seq(E) /\ InOrder(bf, os \o m) /\ ToSet(os \o m) = ToSet(os) \union ToSet(m)
      /\ Len(os \o m) = Len(os) + Len(m)
  BY <1>1, <1>2, Joined
<1>4. Ahead(bf, os \o m, rest) /\ Ahead(bf, os \o m, ins) /\ Suits(lt, bf, rest, ins)
  BY <1>1, <1>3 DEF Merges, Ahead, Suits
<1>5. ToSet(os \o m) \union ToSet(ins) \union ToSet(rest) = all
  BY <1>1, <1>3 DEF Merges
<1>6. Len(os \o m) + Len(ins) + Len(rest) = n
  <2>1. Len(os) \in Nat /\ Len(m) \in Nat /\ Len(rest) \in Nat /\ Len(ins) \in Nat
    BY DEF Merges
  <2>2. Len(os) + Len(ins) + Len(ts) = n
    BY DEF Merges
  <2> QED BY <1>1, <1>3, <2>1, <2>2
<1> QED BY <1>1, <1>3, <1>4, <1>5, <1>6, Zenon DEF Merges

\* The head of an ordered list is ahead of the rest.
LEMMA HeadAhead ==
  ASSUME NEW E, NEW bf, NEW s \in Seq(E), s # <<>>, InOrder(bf, s)
  PROVE  /\ Head(s) \in E /\ Head(s) \in ToSet(s) /\ ToSet(s) \subseteq E
         /\ \A y \in ToSet(s) : y = Head(s) \/ <<Head(s), y>> \in bf
<1>1. Head(s) \in E /\ Len(s) >= 1 /\ Head(s) = s[1] /\ Len(s) \in Nat /\ DOMAIN s = 1 .. Len(s)
  BY HeadAndTail
<1>2. \A i \in 1 .. Len(s) : s[i] \in E /\ (i = 1 \/ <<s[1], s[i]>> \in bf)
  BY <1>1 DEF InOrder
<1>3. 1 \in DOMAIN s
  BY <1>1
<1> QED BY <1>1, <1>2, <1>3 DEF ToSet

\* To append one element is to put a list of one behind.
LEMMA Appended ==
  ASSUME NEW E, NEW s \in Seq(E), NEW x \in E
  PROVE  Append(s, x) = s \o <<x>>
  OBVIOUS

MergeRecord(lt, bf, E, all, n, r) ==
  /\ Merges(lt, bf, E, all, n, r.os, r.ins, r.ts)
  /\ r.ins # <<>> /\ r.ftag => Skips(lt, r.ts, Head(r.ins))

\* One instantiation of insert keeps the merge and takes at least one element.
LEMMA MergesOn ==
  ASSUME NEW lt, NEW bf, NEW E, Orders(lt, bf, E), NEW all, NEW n, NEW r,
         MergeRecord(lt, bf, E, all, n, r), r.ts # <<>>, r.ins # <<>>,
         NEW q, q = InsertStep(lt, r)
  PROVE  /\ MergeRecord(lt, bf, E, all, n, q)
         /\ Len(q.ins) + Len(q.ts) < Len(r.ins) + Len(r.ts)
<1> DEFINE x == Head(r.ins)
           h == Head(r.ts)
<1>0. /\ Merges(lt, bf, E, all, n, r.os, r.ins, r.ts)
      /\ r.os \in Seq(E) /\ r.ins \in Seq(E) /\ r.ts \in Seq(E)
      /\ InOrder(bf, r.ins) /\ InOrder(bf, r.ts) /\ Suits(lt, bf, r.ts, r.ins)
  BY DEF MergeRecord, Merges
<1>1. /\ x \in E /\ x \in ToSet(r.ins) /\ ToSet(r.ins) \subseteq E
      /\ \A y \in ToSet(r.ins) : y = x \/ <<x, y>> \in bf
  BY <1>0, HeadAhead
<1>2. /\ h \in E /\ h \in ToSet(r.ts) /\ ToSet(r.ts) \subseteq E
      /\ \A y \in ToSet(r.ts) : y = h \/ <<h, y>> \in bf
  BY <1>0, HeadAhead
<1>3. /\ Tail(r.ins) \in Seq(E) /\ Len(Tail(r.ins)) = Len(r.ins) - 1 /\ Len(r.ins) \in Nat
      /\ r.ins = <<x>> \o Tail(r.ins) /\ <<x>> \in Seq(E) /\ ToSet(<<x>>) = {x}
  <2>1. Len(r.ins) \in Nat /\ Tail(r.ins) \in Seq(E) /\ Len(Tail(r.ins)) = Len(r.ins) - 1
        /\ r.ins = <<x>> \o Tail(r.ins)
    BY <1>0, HeadAndTail
  <2> HIDE DEF x
  <2>2. <<x>> \in Seq(E) /\ ToSet(<<x>>) = {x}
    BY <1>1, OneElement
  <2> QED BY <2>1, <2>2
<1>4. /\ Tail(r.ts) \in Seq(E) /\ Len(Tail(r.ts)) = Len(r.ts) - 1 /\ Len(r.ts) \in Nat
      /\ r.ts = <<h>> \o Tail(r.ts) /\ <<h>> \in Seq(E) /\ ToSet(<<h>>) = {h}
  <2>1. Len(r.ts) \in Nat /\ Tail(r.ts) \in Seq(E) /\ Len(Tail(r.ts)) = Len(r.ts) - 1
        /\ r.ts = <<h>> \o Tail(r.ts)
    BY <1>0, HeadAndTail
  <2> HIDE DEF h
  <2>2. <<h>> \in Seq(E) /\ ToSet(<<h>>) = {h}
    BY <1>2, OneElement
  <2> QED BY <2>1, <2>2
<1>5. Fits(lt, bf, h, x)
  BY <1>0, <1>1, <1>2 DEF Suits
<1>6. CASE <<h, x>> \notin lt
  <2>1. Ahead(bf, <<x>>, r.ts)
    <3>1. <<x, h>> \in bf
      BY <1>5, <1>6 DEF Fits
    <3> SUFFICES ASSUME NEW y \in ToSet(r.ts) PROVE <<x, y>> \in bf
      BY <1>3 DEF Ahead
    <3> QED BY <1>1, <1>2, <3>1 DEF Orders
  <2>2. Merges(lt, bf, E, all, n, r.os \o <<x>>, Tail(r.ins), r.ts)
    <3> HIDE DEF x, h
    <3> QED BY <1>0, <1>3, <2>1, MovesInsert
  <2>3. /\ q.os = Append(r.os, x) /\ q.ins = Tail(r.ins) /\ q.ts = r.ts
        /\ q.ftag => Skips(lt, r.ts, r.ins[2])
    BY <1>6 DEF InsertStep
  <2> HIDE DEF x, h
  <2>4. q.os = r.os \o <<x>>
    BY <1>0, <1>1, <2>3, Appended
  <2>5. Tail(r.ins) # <<>> => r.ins[2] = Head(Tail(r.ins))
    BY <1>0
  <2>6. MergeRecord(lt, bf, E, all, n, q)
    BY <2>2, <2>3, <2>4, <2>5, Zenon DEF MergeRecord
  <2>7. Len(q.ins) = Len(r.ins) - 1 /\ Len(q.ts) = Len(r.ts)
    BY <1>3, <2>3
  <2>9. Len(q.ins) + Len(q.ts) < Len(r.ins) + Len(r.ts)
    <3>1. Len(r.ins) \in Nat /\ Len(r.ts) \in Nat
      BY <1>3, <1>4
    <3>2. ASSUME NEW a \in Nat, NEW b \in Nat, NEW c, NEW d, c = a - 1, d = b PROVE c + d < a + b
      BY <3>2
    <3> QED BY <3>1, <3>2, <2>7, Zenon
  <2> QED BY <2>6, <2>9, Zenon
<1>7. CASE <<h, x>> \in lt /\ r.ftag
  <2> DEFINE m    == SubSeq(r.ts, 1, Unroll)
             rest == From(r.ts, Unroll + 1)
             l    == r.ts[Unroll]
  <2>0. Unroll \in Nat /\ Unroll >= 2
    BY ListsAssumption
  <2>1. Unroll \in 1 .. Len(r.ts) /\ <<l, x>> \in lt
    BY <1>4, <1>7, <2>0 DEF MergeRecord, Skips
  <2>2. /\ m \in Seq(E) /\ Len(m) = Unroll /\ rest \in Seq(E) /\ Len(rest) = Len(r.ts) - Unroll
        /\ r.ts = m \o rest /\ \A i \in 1 .. Unroll : m[i] = r.ts[i]
    <3>1. r.ts \in Seq(E) /\ Unroll \in 0 .. Len(r.ts)
      BY <1>0, <1>4, <2>0, <2>1
    <3> QED BY <3>1, Parts
  <2> HIDE DEF m, rest
  <2>3. ASSUME NEW i \in 1 .. Unroll PROVE <<r.ts[i], x>> \in bf
    <3>1. i \in 1 .. Len(r.ts)
      BY <1>4, <2>1
    <3>2. r.ts[i] \in ToSet(r.ts) /\ l \in ToSet(r.ts) /\ r.ts[i] \in E /\ l \in E
      BY <1>0, <1>2, <2>1, <3>1 DEF ToSet
    <3>3. <<r.ts[i], x>> \in lt
      <4>1. CASE i = Unroll
        BY <2>1, <4>1
      <4>2. CASE i # Unroll
        <5>1. <<r.ts[i], l>> \in bf
          BY <1>0, <2>0, <2>1, <3>1, <4>2 DEF InOrder
        <5> HIDE DEF l, x
        <5> QED BY <1>1, <2>1, <3>2, <5>1 DEF Orders
      <4> QED BY <4>1, <4>2
    <3>4. Fits(lt, bf, r.ts[i], x)
      BY <1>0, <1>1, <3>2 DEF Suits
    <3> QED BY <3>3, <3>4 DEF Fits
  <2>4. Ahead(bf, m, r.ins)
    <3> SUFFICES ASSUME NEW y \in ToSet(m), NEW z \in ToSet(r.ins) PROVE <<y, z>> \in bf
      BY DEF Ahead
    <3>1. PICK i \in 1 .. Unroll : y = m[i]
      BY <2>2 DEF ToSet
    <3>2. <<y, x>> \in bf /\ y \in E
      BY <2>2, <2>3, <3>1
    <3> HIDE DEF x
    <3> QED BY <1>1, <3>2 DEF Orders
  <2>5. Merges(lt, bf, E, all, n, r.os \o m, r.ins, rest)
    BY <1>0, <2>2, <2>4, MovesSorted
  <2>6. /\ q.os = r.os \o m /\ q.ins = r.ins /\ q.ts = rest /\ q.ftag = Skips(lt, rest, Head(r.ins))
    BY <1>7 DEF InsertStep, BehindSkipped, m, rest
  <2> HIDE DEF x, h
  <2>7. MergeRecord(lt, bf, E, all, n, q)
    BY <2>5, <2>6, Zenon DEF MergeRecord
  <2>8. Len(q.ins) = Len(r.ins) /\ Len(q.ts) = Len(r.ts) - Unroll
    BY <2>2, <2>6
  <2>9. Len(q.ins) + Len(q.ts) < Len(r.ins) + Len(r.ts)
    <3>1. Len(r.ins) \in Nat /\ Len(r.ts) \in Nat /\ Unroll \in Nat /\ Unroll >= 2
      BY <1>3, <1>4, <2>0
    <3>2. ASSUME NEW a \in Nat, NEW b \in Nat, NEW c, NEW d, NEW u \in Nat, u >= 2, c = a, d = b - u PROVE c + d < a + b
      BY <3>2
    <3> QED BY <3>1, <3>2, <2>8, Zenon
  <2> QED BY <2>7, <2>9, Zenon
<1>8. CASE <<h, x>> \in lt /\ ~r.ftag
  <2>1. Ahead(bf, <<h>>, r.ins)
    <3>1. <<h, x>> \in bf
      BY <1>5, <1>8 DEF Fits
    <3> SUFFICES ASSUME NEW y \in ToSet(r.ins) PROVE <<h, y>> \in bf
      BY <1>4 DEF Ahead
    <3> QED BY <1>1, <1>2, <3>1 DEF Orders
  <2>2. Merges(lt, bf, E, all, n, r.os \o <<h>>, r.ins, Tail(r.ts))
    <3> HIDE DEF x, h
    <3> QED BY <1>0, <1>4, <2>1, MovesSorted
  <2>3. q.os = Append(r.os, h) /\ q.ins = r.ins /\ q.ts = Tail(r.ts) /\ q.ftag = FALSE
    BY <1>8 DEF InsertStep
  <2> HIDE DEF x, h
  <2>4. q.os = r.os \o <<h>>
    BY <1>0, <1>2, <2>3, Appended
  <2>5. MergeRecord(lt, bf, E, all, n, q)
    BY <2>2, <2>3, <2>4, Zenon DEF MergeRecord
  <2>6. Len(q.ins) = Len(r.ins) /\ Len(q.ts) = Len(r.ts) - 1
    BY <1>4, <2>3
  <2>9. Len(q.ins) + Len(q.ts) < Len(r.ins) + Len(r.ts)
    <3>1. Len(r.ins) \in Nat /\ Len(r.ts) \in Nat
      BY <1>3, <1>4
    <3>2. ASSUME NEW a \in Nat, NEW b \in Nat, NEW c, NEW d, c = a, d = b - 1 PROVE c + d < a + b
      BY <3>2
    <3> QED BY <3>1, <3>2, <2>6, Zenon
  <2> QED BY <2>5, <2>9, Zenon
<1> QED BY <1>6, <1>7, <1>8

\* The empty list.
LEMMA NothingIn ==
  ASSUME NEW E, NEW bf
  PROVE  <<>> \in Seq(E) /\ Len(<<>>) = 0 /\ ToSet(<<>>) = {} /\ InOrder(bf, <<>>)
<1>1. <<>> \in Seq(E) /\ Len(<<>>) = 0 /\ DOMAIN <<>> = {}
  OBVIOUS
<1>2. ToSet(<<>>) = {}
  BY <1>1, Zenon DEF ToSet
<1>3. InOrder(bf, <<>>)
  BY <1>1 DEF InOrder
<1> QED BY <1>1, <1>2, <1>3

\* insert makes one list of two that are in order.
LEMMA InsertSorts ==
  ASSUME NEW lt, NEW bf, NEW E, Orders(lt, bf, E), NEW out \in Seq(E), NEW ins \in Seq(E),
         InOrder(bf, out), InOrder(bf, ins), Suits(lt, bf, out, ins),
         NEW q, q = insert(lt, out, ins)
  PROVE  /\ q \in Seq(E) /\ Len(q) = Len(out) + Len(ins)
         /\ ToSet(q) = ToSet(out) \union ToSet(ins) /\ InOrder(bf, q)
<1> DEFINE n   == Len(out) + Len(ins)
           all == ToSet(out) \union ToSet(ins)
<1>0. Len(out) \in Nat /\ Len(ins) \in Nat /\ n \in Nat
  OBVIOUS
<1>1. PICK f : /\ Inserts(lt, out, ins, f)
               /\ LET l == f[n] IN insert(lt, out, ins) = l.os \o l.ins \o l.ts
  BY <1>0, InsertRuns
<1> DEFINE Left(r) == Len(r.ins) + Len(r.ts)
           Good(i) == /\ MergeRecord(lt, bf, E, all, n, f[i])
                      /\ f[i].ins = <<>> \/ f[i].ts = <<>> \/ Left(f[i]) + i <= n
           S == {i \in 0 .. n : Good(i)}
<1>2. 0 \in S
  <2>1. f[0] = InsertStart(lt, out, ins)
    BY <1>1 DEF Inserts
  <2>2. /\ f[0].os = <<>> /\ f[0].ins = ins /\ f[0].ts = out
        /\ f[0].ftag => Skips(lt, out, Head(ins))
    BY <2>1 DEF InsertStart
  <2>3. Merges(lt, bf, E, all, n, <<>>, ins, out)
    <3>1. <<>> \in Seq(E) /\ Len(<<>>) = 0 /\ ToSet(<<>>) = {} /\ InOrder(bf, <<>>)
      BY NothingIn
    <3>2. Ahead(bf, <<>>, ins) /\ Ahead(bf, <<>>, out)
      BY <3>1 DEF Ahead
    <3>3. ToSet(<<>>) \union ToSet(ins) \union ToSet(out) = all
      BY <3>1
    <3>4. Len(<<>>) + Len(ins) + Len(out) = n
      BY <1>0, <3>1
    <3> HIDE DEF all, n
    <3> QED BY <3>1, <3>2, <3>3, <3>4, Zenon DEF Merges
  <2>4. MergeRecord(lt, bf, E, all, n, f[0])
    <3> HIDE DEF all, n
    <3> QED BY <2>2, <2>3, Zenon DEF MergeRecord
  <2>5. Left(f[0]) + 0 <= n
    BY <1>0, <2>2
  <2> HIDE DEF Left, n, all
  <2> QED BY <1>0, <2>4, <2>5
<1>3. ASSUME NEW i \in 1 .. n, i - 1 \in S PROVE i \in S
  <2>0. Good(i - 1) /\ i - 1 \in 0 .. n
    BY <1>3
  <2>1. /\ Good(i - 1) /\ f[i] = InsertStep(lt, f[i - 1]) /\ i \in 0 .. n /\ i \in Nat /\ n \in Nat
    <3>1. f[i] = InsertStep(lt, f[i - 1])
      BY <1>1 DEF Inserts
    <3>2. i \in 0 .. n /\ i \in Nat
      BY <1>0
    <3> QED BY <1>0, <2>0, <3>1, <3>2, Zenon
  <2>2. CASE f[i - 1].ins = <<>> \/ f[i - 1].ts = <<>>
    <3>1. f[i] = f[i - 1]
      BY <2>1, <2>2 DEF InsertStep
    <3>2. Good(i)
      <4> HIDE DEF all, n, Left
      <4> QED BY <2>1, <2>2, <3>1
    <3> HIDE DEF Good
    <3> QED BY <2>1, <3>2
  <2>3. CASE f[i - 1].ins # <<>> /\ f[i - 1].ts # <<>>
    <3>1. MergeRecord(lt, bf, E, all, n, f[i]) /\ Left(f[i]) < Left(f[i - 1])
      <4> HIDE DEF all, n
      <4> QED BY <2>1, <2>3, MergesOn
    <3>2. Left(f[i]) \in Nat /\ Left(f[i - 1]) \in Nat
      <4>1. /\ f[i].ins \in Seq(E) /\ f[i].ts \in Seq(E)
            /\ f[i - 1].ins \in Seq(E) /\ f[i - 1].ts \in Seq(E)
        BY <2>1, <3>1 DEF MergeRecord, Merges
      <4>2. ASSUME NEW u \in Seq(E), NEW v \in Seq(E) PROVE Len(u) + Len(v) \in Nat
        OBVIOUS
      <4> QED BY <4>1, <4>2, Zenon
    <3>3. Left(f[i - 1]) + (i - 1) <= n
      BY <2>1, <2>3
    <3>4. Left(f[i]) + i <= n
      <4> HIDE DEF Left, n, Good
      <4> QED BY <2>1, <3>1, <3>2, <3>3
    <3>5. Good(i)
      <4> HIDE DEF Left, n, all
      <4> QED BY <3>1, <3>4
    <3> HIDE DEF Good
    <3> QED BY <2>1, <3>5
  <2> QED BY <2>2, <2>3
<1>4. Good(n)
  <2>1. \A i \in 1 .. n : i - 1 \in S => i \in S
    BY <1>3
  <2>2. \A i \in 0 .. n : i \in S
    <3> HIDE DEF S, n
    <3> QED BY <1>0, <1>2, <2>1, InductionTo
  <2>3. n \in 0 .. n
    BY <1>0
  <2> QED BY <2>2, <2>3
<1> DEFINE os == f[n].os
           is == f[n].ins
           ts == f[n].ts
<1>5. /\ Merges(lt, bf, E, all, n, os, is, ts) /\ q = os \o is \o ts
  <2> HIDE DEF n, all
  <2> QED BY <1>1, <1>4 DEF MergeRecord
<1>6. is = <<>> \/ ts = <<>>
  <2>1. os \in Seq(E) /\ is \in Seq(E) /\ ts \in Seq(E) /\ (is = <<>> \/ ts = <<>> \/ Len(is) + Len(ts) + n <= n)
    BY <1>4, <1>5 DEF Merges
  <2>2. Len(is) \in Nat /\ Len(ts) \in Nat /\ (is # <<>> => Len(is) > 0)
    BY <2>1
  <2> HIDE DEF os, is, ts, n
  <2> QED BY <1>0, <2>1, <2>2
<1> HIDE DEF os, is, ts, n, all
<1>7. /\ os \in Seq(E) /\ is \in Seq(E) /\ ts \in Seq(E)
      /\ InOrder(bf, os) /\ InOrder(bf, is) /\ InOrder(bf, ts)
      /\ Ahead(bf, os, is) /\ Ahead(bf, os, ts)
      /\ ToSet(os) \union ToSet(is) \union ToSet(ts) = all /\ Len(os) + Len(is) + Len(ts) = n
  BY <1>5 DEF Merges
<1>8. /\ os \o is \in Seq(E) /\ Len(os \o is) = Len(os) + Len(is)
      /\ ToSet(os \o is) = ToSet(os) \union ToSet(is) /\ InOrder(bf, os \o is)
  BY <1>7, Joined
<1>9. Ahead(bf, os \o is, ts)
  <2>1. ToSet(<<>>) = {}
    BY NothingIn
  <2> QED BY <1>6, <1>7, <1>8, <2>1 DEF Ahead
<1> DEFINE v == os \o is
<1>10. v \in Seq(E) /\ InOrder(bf, v) /\ Ahead(bf, v, ts) /\ q = v \o ts
  BY <1>5, <1>8, <1>9
<1>11. /\ q \in Seq(E) /\ Len(q) = Len(v) + Len(ts)
       /\ ToSet(q) = ToSet(v) \union ToSet(ts) /\ InOrder(bf, q)
  <2> HIDE DEF v
  <2> QED BY <1>7, <1>10, Joined
<1>12. Len(q) = Len(out) + Len(ins)
  <2>1. Len(v) = Len(os) + Len(is) /\ Len(os) \in Nat /\ Len(is) \in Nat /\ Len(ts) \in Nat
    BY <1>7, <1>8
  <2> QED BY <1>7, <1>11, <2>1 DEF n
<1>13. ToSet(q) = ToSet(out) \union ToSet(ins)
  BY <1>7, <1>8, <1>11 DEF all
<1> QED BY <1>11, <1>12, <1>13

\* s can be sorted, and o has its first n elements in order.
Sortable(lt, bf, E, s) ==
  /\ s \in Seq(E)
  /\ \A i, j \in 1 .. Len(s) : i < j => Fits(lt, bf, s[i], s[j])

Firsts(s, n) == {s[k] : k \in 1 .. n}

SortedFirst(bf, E, s, n, o) ==
  o \in Seq(E) /\ Len(o) = n /\ ToSet(o) = Firsts(s, n) /\ InOrder(bf, o)

\* t is what s has behind the first m elements.
Behind(s, m, t) == \A i \in 1 .. Len(t) : t[i] = s[m + i]

\* Elements behind the first m are inserted.
LEMMA InsertBehind ==
  ASSUME NEW lt, NEW bf, NEW E, Orders(lt, bf, E), NEW s, Sortable(lt, bf, E, s),
         NEW m \in Nat, NEW o, SortedFirst(bf, E, s, m, o),
         NEW t, Behind(s, m, t), m + Len(t) <= Len(s),
         NEW u, SortedFirst(bf, E, t, Len(t), u), Len(t) \in Nat,
         NEW q, q = insert(lt, o, u)
  PROVE  SortedFirst(bf, E, s, m + Len(t), q)
<1>0. Len(s) \in Nat /\ s \in Seq(E)
  BY DEF Sortable
<1>1. ASSUME NEW i \in 1 .. Len(t) PROVE t[i] = s[m + i] /\ m + i \in m + 1 .. m + Len(t)
  BY DEF Behind
<1>2. Suits(lt, bf, o, u)
  <2> SUFFICES ASSUME NEW y \in ToSet(o), NEW x \in ToSet(u) PROVE Fits(lt, bf, y, x)
    BY DEF Suits
  <2>1. y \in Firsts(s, m) /\ x \in Firsts(t, Len(t))
    BY DEF SortedFirst
  <2>2. PICK i \in 1 .. m : y = s[i]
    BY <2>1 DEF Firsts
  <2>3. PICK j \in 1 .. Len(t) : x = t[j]
    BY <2>1 DEF Firsts
  <2>4. x = s[m + j] /\ m + j \in 1 .. Len(s) /\ i \in 1 .. Len(s) /\ i < m + j
    BY <1>0, <1>1, <2>3
  <2> QED BY <2>2, <2>4 DEF Sortable
<1>3. /\ o \in Seq(E) /\ u \in Seq(E) /\ InOrder(bf, o) /\ InOrder(bf, u)
      /\ Len(o) = m /\ Len(u) = Len(t) /\ ToSet(o) = Firsts(s, m) /\ ToSet(u) = Firsts(t, Len(t))
  BY DEF SortedFirst
<1>4. /\ q \in Seq(E) /\ Len(q) = m + Len(t) /\ ToSet(q) = Firsts(s, m) \union Firsts(t, Len(t))
      /\ InOrder(bf, q)
  BY <1>2, <1>3, InsertSorts
<1>5. Firsts(s, m) \union Firsts(t, Len(t)) = Firsts(s, m + Len(t))
  <2>1. ASSUME NEW k \in 1 .. m + Len(t) PROVE s[k] \in Firsts(s, m) \union Firsts(t, Len(t))
    <3>1. CASE k <= m
      BY <3>1 DEF Firsts
    <3>2. CASE k > m
      <4>1. k - m \in 1 .. Len(t) /\ m + (k - m) = k
        BY <3>2
      <4>2. t[k - m] = s[k]
        BY <1>1, <4>1
      <4> QED BY <4>1, <4>2 DEF Firsts
    <3>3. k <= m \/ k > m
      OBVIOUS
    <3> QED BY <3>1, <3>2, <3>3, Zenon
  <2>2. Firsts(s, m) \subseteq Firsts(s, m + Len(t))
    <3>1. \A k \in 1 .. m : k \in 1 .. m + Len(t)
      OBVIOUS
    <3> QED BY <3>1, Zenon DEF Firsts
  <2>3. Firsts(t, Len(t)) \subseteq Firsts(s, m + Len(t))
    <3>1. \A k \in 1 .. Len(t) : m + k \in 1 .. m + Len(t) /\ t[k] = s[m + k]
      BY <1>1
    <3> QED BY <3>1, Zenon DEF Firsts
  <2>4. Firsts(s, m + Len(t)) \subseteq Firsts(s, m) \union Firsts(t, Len(t))
    BY <2>1, Zenon DEF Firsts
  <2> QED BY <2>2, <2>3, <2>4, Zenon
<1> QED BY <1>4, <1>5, Zenon DEF SortedFirst

\* sort_loop takes what is behind the first m.
LEMMA LoopSorts ==
  ASSUME NEW lt, NEW bf, NEW E, Orders(lt, bf, E), NEW s, Sortable(lt, bf, E, s),
         NEW m \in Nat, NEW o, SortedFirst(bf, E, s, m, o),
         NEW t, Behind(s, m, t), Len(t) \in Nat, m + Len(t) = Len(s)
  PROVE  SortedFirst(bf, E, s, Len(s), sort_loop(lt, o, t))
<1>1. PICK f : Loops(lt, o, t, f) /\ sort_loop(lt, o, t) = f[Len(t)]
  BY LoopRuns
<1> DEFINE n == Len(t)
           S == {i \in 0 .. n : SortedFirst(bf, E, s, m + i, f[i])}
<1>2. 0 \in S
  <2>1. f[0] = o /\ m + 0 = m /\ 0 \in 0 .. n
    BY <1>1 DEF Loops
  <2> QED BY <2>1
<1>3. ASSUME NEW i \in 1 .. n, i - 1 \in S PROVE i \in S
  <2>1. /\ i \in 0 .. n /\ m + (i - 1) \in Nat /\ (m + (i - 1)) + 1 = m + i
        /\ f[i] = insert(lt, f[i - 1], <<t[i]>>)
        /\ SortedFirst(bf, E, s, m + (i - 1), f[i - 1])
    BY <1>1, <1>3 DEF Loops
  <2>2. t[i] = s[m + i] /\ t[i] \in E /\ m + i <= Len(s)
    <3>1. t[i] = s[m + i] /\ m + i \in 1 .. Len(s) /\ s \in Seq(E)
      BY DEF Behind, Sortable
    <3> QED BY <3>1
  <2> DEFINE v == <<t[i]>>
  <2>3. v \in Seq(E) /\ Len(v) = 1 /\ ToSet(v) = {t[i]} /\ InOrder(bf, v) /\ v[1] = t[i]
    BY <2>2, OneElement
  <2> HIDE DEF v
  <2>4. Behind(s, m + (i - 1), v)
    <3>1. \A k \in 1 .. Len(v) : k = 1
      BY <2>3
    <3> QED BY <2>1, <2>2, <2>3, <3>1 DEF Behind
  <2>5. SortedFirst(bf, E, v, Len(v), v)
    <3>1. Firsts(v, Len(v)) = {t[i]}
      BY <2>3 DEF Firsts
    <3> QED BY <2>3, <3>1, Zenon DEF SortedFirst
  <2>6. SortedFirst(bf, E, s, m + (i - 1) + Len(v), f[i])
    <3>1. m + (i - 1) + Len(v) <= Len(s) /\ Len(v) \in Nat
      BY <2>1, <2>2, <2>3
    <3>2. f[i] = insert(lt, f[i - 1], v)
      BY <2>1 DEF v
    <3> QED BY <2>1, <2>4, <2>5, <3>1, <3>2, InsertBehind
  <2>7. SortedFirst(bf, E, s, m + i, f[i])
    BY <2>1, <2>3, <2>6
  <2> QED BY <2>1, <2>7
<1>4. n \in S
  <2>1. \A i \in 1 .. n : i - 1 \in S => i \in S
    BY <1>3
  <2>2. \A i \in 0 .. n : i \in S
    <3> HIDE DEF S
    <3> QED BY <1>2, <2>1, InductionTo
  <2> QED BY <2>2
<1> QED BY <1>1, <1>4

\* A run that is sorted by itself is merged with the first m.
LEMMA RunSorts ==
  ASSUME NEW lt, NEW bf, NEW E, Orders(lt, bf, E), NEW s, Sortable(lt, bf, E, s),
         NEW m \in Nat, NEW o, SortedFirst(bf, E, s, m, o),
         NEW t \in Seq(E), Behind(s, m, t), t # <<>>, m + Len(t) <= Len(s)
  PROVE  SortedFirst(bf, E, s, m + Len(t), insert(lt, o, sort_loop(lt, <<Head(t)>>, Tail(t))))
<1>0. /\ Len(t) \in Nat /\ Len(Tail(t)) = Len(t) - 1 /\ Len(t) >= 1 /\ Head(t) = t[1] /\ Head(t) \in E
      /\ \A i \in 1 .. Len(t) - 1 : Tail(t)[i] = t[i + 1]
  OBVIOUS
<1>1. Sortable(lt, bf, E, t)
  <2> SUFFICES ASSUME NEW i \in 1 .. Len(t), NEW j \in 1 .. Len(t), i < j
               PROVE  Fits(lt, bf, t[i], t[j])
    BY DEF Sortable
  <2>1. /\ t[i] = s[m + i] /\ t[j] = s[m + j] /\ m + i < m + j
        /\ m + i \in 1 .. Len(s) /\ m + j \in 1 .. Len(s)
    <3>1. Len(s) \in Nat
      BY DEF Sortable
    <3> QED BY <1>0, <3>1 DEF Behind
  <2> QED BY <2>1 DEF Sortable
<1>2. SortedFirst(bf, E, t, 1, <<Head(t)>>)
  <2> DEFINE v == <<Head(t)>>
  <2>1. v \in Seq(E) /\ Len(v) = 1 /\ ToSet(v) = {Head(t)} /\ InOrder(bf, v)
    BY <1>0, OneElement
  <2>2. Firsts(t, 1) = {Head(t)}
    BY <1>0 DEF Firsts
  <2> QED BY <2>1, <2>2, Zenon DEF SortedFirst
<1>3. Behind(t, 1, Tail(t)) /\ Len(Tail(t)) \in Nat /\ 1 + Len(Tail(t)) = Len(t)
  BY <1>0 DEF Behind
<1>4. SortedFirst(bf, E, t, Len(t), sort_loop(lt, <<Head(t)>>, Tail(t)))
  BY <1>1, <1>2, <1>3, LoopSorts
<1> QED BY <1>0, <1>4, InsertBehind

\* sort gives the elements in order.
LEMMA SortSorts ==
  ASSUME NEW lt, NEW bf, NEW E, Orders(lt, bf, E), NEW s, Sortable(lt, bf, E, s)
  PROVE  SortedFirst(bf, E, s, Len(s), sort(lt, s))
<1>0. s \in Seq(E) /\ Len(s) \in Nat /\ DOMAIN s = 1 .. Len(s)
  BY DEF Sortable
<1>1. CASE Len(s) < 2
  <2>1. sort(lt, s) = s
    BY <1>1 DEF sort
  <2>2. Firsts(s, Len(s)) = ToSet(s)
    BY <1>0, Zenon DEF Firsts, ToSet
  <2>3. InOrder(bf, s)
    BY <1>0, <1>1 DEF InOrder
  <2> QED BY <1>0, <2>1, <2>2, <2>3, Zenon DEF SortedFirst
<1>2. CASE Len(s) >= 2
  <2> DEFINE d    == 2 * Unroll
             rest == Tail(s)
             k    == RunsOf(s)
  <2>0. d \in Nat /\ d >= 4 /\ Unroll \in Nat
    BY ListsAssumption
  <2>1. /\ rest \in Seq(E) /\ Len(rest) = Len(s) - 1 /\ Head(s) = s[1] /\ s[1] \in E
        /\ \A i \in 1 .. Len(s) - 1 : rest[i] = s[i + 1]
    BY <1>0, <1>2
  <2>2. k \in Nat /\ d * k <= Len(rest)
    <3>1. ASSUME NEW a \in Nat, NEW b \in Nat, b > 0 PROVE a \div b \in Nat /\ b * (a \div b) <= a
      BY <3>1
    <3>2. k = Len(rest) \div d
      BY DEF RunsOf
    <3>3. Len(rest) \in Nat
      BY <1>0, <1>2, <2>1
    <3> HIDE DEF k, d, rest
    <3> QED BY <2>0, <3>1, <3>2, <3>3
  <2>3. PICK f : /\ SortsRuns(lt, s, f)
                 /\ sort(lt, s) = sort_loop(lt, f[k], From(rest, 2 * Unroll * k + 1))
    BY <1>2, <2>2, SortRuns
  <2> HIDE DEF rest, k
  <2> DEFINE S == {j \in 0 .. k : SortedFirst(bf, E, s, 1 + d * j, f[j])}
  <2>4. 0 \in S
    <3>1. f[0] = <<s[1]>> /\ 1 + d * 0 = 1 /\ 0 \in 0 .. k
      BY <2>0, <2>1, <2>2, <2>3 DEF SortsRuns
    <3>2. <<s[1]>> \in Seq(E) /\ Len(<<s[1]>>) = 1 /\ ToSet(<<s[1]>>) = {s[1]} /\ InOrder(bf, <<s[1]>>)
      BY <2>1, OneElement
    <3>3. Firsts(s, 1) = {s[1]}
      BY DEF Firsts
    <3>4. SortedFirst(bf, E, s, 1, <<s[1]>>)
      BY <3>2, <3>3, Zenon DEF SortedFirst
    <3> QED BY <3>1, <3>4
  <2>5. ASSUME NEW j \in 1 .. k, j - 1 \in S PROVE j \in S
    <3> DEFINE m == d * (j - 1)
               t == SubSeq(rest, m + 1, m + d)
    <3>1. /\ m \in Nat /\ d * j = m + d /\ m + d <= Len(rest) /\ j \in 0 .. k
          /\ SortedFirst(bf, E, s, 1 + m, f[j - 1])
      <4>1. j - 1 \in Nat /\ j <= k /\ j \in Nat /\ j \in 0 .. k
        BY <2>2
      <4>2. ASSUME NEW a \in Nat, NEW b \in Nat, b >= 1
            PROVE  a * (b - 1) \in Nat /\ a * b = a * (b - 1) + a
        BY <4>2
      <4>3. ASSUME NEW a \in Nat, NEW b \in Nat, NEW c \in Nat, b <= c PROVE a * b <= a * c
        BY <4>3
      <4>4. SortedFirst(bf, E, s, 1 + m, f[j - 1])
        BY <2>5
      <4> HIDE DEF d
      <4>5. m \in Nat /\ d * j = m + d
        BY <2>0, <4>1, <4>2
      <4>6. d * j <= d * k
        BY <2>0, <2>2, <4>1, <4>3
      <4>7. Len(rest) \in Nat /\ d * k \in Nat /\ d * j \in Nat
        BY <1>0, <1>2, <2>0, <2>1, <2>2, <4>1
      <4> HIDE DEF m
      <4>8. m + d <= Len(rest)
        BY <2>0, <2>2, <4>5, <4>6, <4>7
      <4> QED BY <4>1, <4>4, <4>5, <4>8 DEF m
    <3>2. SortedRun(lt, rest, j) = sort_loop(lt, <<Head(t)>>, Tail(t))
      <4>1. t = SubSeq(rest, 2 * Unroll * (j - 1) + 1, 2 * Unroll * j)
        BY <3>1
      <4> QED BY <4>1, Zenon DEF SortedRun
    <3> HIDE DEF d, m
    <3>3. t \in Seq(E) /\ Len(t) = d /\ \A i \in 1 .. d : t[i] = rest[m + i]
      <4>1. \A i \in m + 1 .. m + d : rest[i] \in E
        BY <2>0, <2>1, <3>1
      <4>2. t \in Seq(E) /\ Len(t) = d
        BY <2>0, <2>1, <3>1, <4>1
      <4>3. \A i \in 1 .. d : t[i] = rest[m + i]
        BY <2>0, <2>1, <3>1
      <4> QED BY <4>2, <4>3
    <3> HIDE DEF t
    <3>4. Behind(s, 1 + m, t)
      <4> SUFFICES ASSUME NEW i \in 1 .. d PROVE t[i] = s[(1 + m) + i]
        BY <3>3 DEF Behind
      <4>1. m + i \in 1 .. Len(s) - 1 /\ (m + i) + 1 = (1 + m) + i
        BY <1>0, <2>0, <2>1, <3>1
      <4> QED BY <2>1, <3>3, <4>1
    <3>5. t # <<>> /\ (1 + m) + Len(t) <= Len(s) /\ 1 + m \in Nat
      <4>1. (1 + m) + Len(t) <= Len(s) /\ 1 + m \in Nat
        BY <1>0, <2>0, <2>1, <3>1, <3>3
      <4>2. t # <<>>
        BY <2>0, <3>3
      <4> QED BY <4>1, <4>2
    <3>6. SortedFirst(bf, E, s, (1 + m) + Len(t), insert(lt, f[j - 1], SortedRun(lt, rest, j)))
      BY <3>1, <3>2, <3>3, <3>4, <3>5, RunSorts
    <3>7. f[j] = insert(lt, f[j - 1], SortedRun(lt, rest, j))
      BY <2>3 DEF SortsRuns, rest, k
    <3>8. (1 + m) + Len(t) = 1 + d * j
      BY <2>0, <3>1, <3>3
    <3> QED BY <3>1, <3>6, <3>7, <3>8
  <2>6. SortedFirst(bf, E, s, 1 + d * k, f[k])
    <3>1. \A j \in 1 .. k : j - 1 \in S => j \in S
      BY <2>5
    <3>2. \A j \in 0 .. k : j \in S
      <4> HIDE DEF S
      <4> QED BY <2>2, <2>4, <3>1, InductionTo
    <3>3. k \in 0 .. k
      BY <2>2
    <3> QED BY <3>2, <3>3
  <2> DEFINE m == d * k
             t == From(rest, m + 1)
  <2>7. m \in Nat /\ m \in 0 .. Len(rest)
    <3>1. ASSUME NEW a \in Nat, NEW b \in Nat PROVE a * b \in Nat
      BY <3>1
    <3>2. m \in Nat
      <4> HIDE DEF d
      <4> QED BY <2>0, <2>2, <3>1
    <3> HIDE DEF m
    <3> QED BY <1>0, <1>2, <2>1, <2>2, <3>2 DEF m
  <2> HIDE DEF m, d
  <2>8. t \in Seq(E) /\ Len(t) = Len(rest) - m /\ \A i \in 1 .. Len(rest) - m : t[i] = rest[m + i]
    BY <2>1, <2>7, Parts
  <2> HIDE DEF t
  <2>9. Behind(s, 1 + m, t)
    <3> SUFFICES ASSUME NEW i \in 1 .. Len(t) PROVE t[i] = s[(1 + m) + i]
      BY DEF Behind
    <3>1. m + i \in 1 .. Len(s) - 1 /\ (m + i) + 1 = (1 + m) + i /\ i \in 1 .. Len(rest) - m
      BY <1>0, <1>2, <2>1, <2>7, <2>8
    <3> QED BY <2>1, <2>8, <3>1
  <2>10. Len(t) \in Nat /\ (1 + m) + Len(t) = Len(s) /\ 1 + m \in Nat
    BY <1>0, <1>2, <2>1, <2>7, <2>8
  <2>11. SortedFirst(bf, E, s, Len(s), sort_loop(lt, f[k], t))
    BY <2>6, <2>9, <2>10, LoopSorts DEF m
  <2> QED BY <2>3, <2>11 DEF t, m, d
<1>3. Len(s) < 2 \/ Len(s) >= 2
  BY <1>0
<1> QED BY <1>1, <1>2, <1>3, Zenon
-----------------------------------------------------------------------------
\* What is in a list is what is in its two parts.
LEMMA JoinedSet ==
  ASSUME NEW X, NEW a \in Seq(X), NEW b \in Seq(X)
  PROVE  ToSet(a \o b) = ToSet(a) \cup ToSet(b)
<1>1. \A bf : ToSet(a \o b) = ToSet(a) \cup ToSet(b) /\ (InOrder(bf, a) <=> InOrder(bf, a))
  <2> TAKE bf
  <2>1. ToSet(a \o b) = ToSet(a) \cup ToSet(b) /\ (InOrder(bf, a \o b) <=> InOrder(bf, a) /\ InOrder(bf, b) /\ Ahead(bf, a, b))
    BY Joined
  <2> QED BY <2>1
<1> QED BY <1>1, Zenon

\* The list with another head, and with one more.
LEMMA NewHead ==
  ASSUME NEW X, NEW d \in Seq(X), NEW x \in X, NEW e, e = <<x>> \o d
  PROVE  /\ e \in Seq(X) /\ e # <<>> /\ Len(e) = Len(d) + 1 /\ e[1] = x /\ Len(d) \in Nat
         /\ \A k \in 2 .. Len(e) : k - 1 \in 1 .. Len(d) /\ e[k] = d[k - 1]
         /\ ToSet(e) = {x} \cup ToSet(d)
<1>1. /\ e \in Seq(X) /\ e # <<>> /\ Len(e) = Len(d) + 1 /\ e[1] = x /\ Len(d) \in Nat
      /\ \A k \in 2 .. Len(e) : k - 1 \in 1 .. Len(d) /\ e[k] = d[k - 1]
  OBVIOUS
<1>2. DOMAIN e = 1 .. Len(e) /\ DOMAIN d = 1 .. Len(d)
  BY <1>1
<1>3. \A k \in 1 .. Len(e) : k = 1 \/ k \in 2 .. Len(e)
  BY <1>1
<1>4. \A k \in 1 .. Len(d) : k + 1 \in 1 .. Len(e) /\ e[k + 1] = d[k]
  <2> SUFFICES ASSUME NEW k \in 1 .. Len(d) PROVE k + 1 \in 1 .. Len(e) /\ e[k + 1] = d[k]
    OBVIOUS
  <2>1. k + 1 \in 2 .. Len(e) /\ (k + 1) - 1 = k /\ k + 1 \in 1 .. Len(e)
    BY <1>1
  <2> QED BY <1>1, <2>1
<1>5. 1 \in 1 .. Len(e)
  BY <1>1
<1>6. ToSet(e) \subseteq {x} \cup ToSet(d)
  BY <1>1, <1>2, <1>3 DEF ToSet
<1>7. {x} \cup ToSet(d) \subseteq ToSet(e)
  <2>1. ToSet(d) \subseteq ToSet(e)
    BY <1>2, <1>4, Zenon DEF ToSet
  <2>2. x \in ToSet(e)
    BY <1>1, <1>2, <1>5, Zenon DEF ToSet
  <2> QED BY <2>1, <2>2
<1> QED BY <1>1, <1>6, <1>7

\* One list more to put together.
LEMMA FlattenedAppend ==
  ASSUME NEW X, NEW ss \in Seq(Seq(X)), NEW x \in Seq(X)
  PROVE  FlattenSeq(Append(ss, x)) = FlattenSeq(ss) \o x
<1> DEFINE tt == Append(ss, x)
           n  == Len(ss)
<1>1. /\ n \in Nat /\ tt \in Seq(Seq(X)) /\ Len(tt) = n + 1 /\ tt[n + 1] = x
      /\ \A i \in 1 .. n : tt[i] = ss[i]
  OBVIOUS
<1>2. PICK f \in [0 .. n -> Seq(X)] : Flattens(ss, f) /\ FlattenSeq(ss) = f[n]
  BY FlattensTo
<1> HIDE DEF tt
<1>3. PICK h \in [0 .. Len(tt) -> Seq(X)] : Flattens(tt, h) /\ FlattenSeq(tt) = h[Len(tt)]
  BY <1>1, FlattensTo
<1>4. h[0] = f[0]
  BY <1>2, <1>3 DEF Flattens
<1> DEFINE S == {i \in 0 .. n : h[i] = f[i]}
<1>5. ASSUME NEW i \in 1 .. n, i - 1 \in S PROVE i \in S
  <2>1. h[i - 1] = f[i - 1] /\ i \in 0 .. n /\ i \in 1 .. Len(tt)
    BY <1>1, <1>5
  <2>2. h[i] = h[i - 1] \o tt[i] /\ f[i] = f[i - 1] \o ss[i] /\ tt[i] = ss[i]
    BY <1>1, <1>2, <1>3, <2>1 DEF Flattens
  <2> QED BY <2>1, <2>2
<1>6. \A i \in 0 .. n : i \in S
  <2>1. 0 \in S /\ n \in Nat /\ \A i \in 1 .. n : i - 1 \in S => i \in S
    BY <1>1, <1>4, <1>5
  <2> HIDE DEF S, n
  <2> QED BY <2>1, InductionTo
<1>7. h[n] = f[n] /\ h[n + 1] = h[n] \o tt[n + 1]
  <2>1. n \in 0 .. n /\ n + 1 \in 1 .. Len(tt) /\ (n + 1) - 1 = n
    BY <1>1
  <2>2. h[n + 1] = h[(n + 1) - 1] \o tt[n + 1]
    BY <1>3, <2>1, Zenon DEF Flattens
  <2> QED BY <1>6, <2>1, <2>2
<1> QED BY <1>1, <1>2, <1>3, <1>7 DEF tt

\* f has the states of split.
Splits(s, delim, f) ==
  /\ f[0] = [out |-> <<>>, cur |-> <<>>]
  /\ \A i \in 1 .. Len(s) : f[i] = SplitStep(f[i - 1], s[i], delim)

\* split is where they end.
LEMMA SplitRuns ==
  ASSUME NEW s, NEW delim, Len(s) \in Nat
  PROVE  \E f : /\ Splits(s, delim, f)
                /\ split(s, delim) = EndGroup(f[Len(s)].out, f[Len(s)].cur)
<1> DEFINE n == Len(s)
           base == [out |-> <<>>, cur |-> <<>>]
           Succ(x, i) == SplitStep(x, s[i], delim)
           Run(g, k) == /\ g = [i \in 0 .. k |-> g[i]] /\ g[0] = base
                        /\ \A i \in 1 .. k : g[i] = Succ(g[i - 1], i)
           S == {k \in Nat : \E g : Run(g, k)}
           Fcn(g) == g = [i \in 0 .. n |-> IF i = 0 THEN base ELSE SplitStep(g[i - 1], s[i], delim)]
           f == CHOOSE g : Fcn(g)
<1>0. n \in Nat
  OBVIOUS
<1>1. \E g : Run(g, n)
  <2> HIDE DEF n, base, Succ
  <2>1. Run([i \in 0 .. 0 |-> base], 0)
    OBVIOUS
  <2>2. ASSUME NEW k \in Nat, NEW g, Run(g, k)
        PROVE  Run([i \in 0 .. k + 1 |-> IF i <= k THEN g[i] ELSE Succ(g[k], k + 1)], k + 1)
    <3> DEFINE h == [i \in 0 .. k + 1 |-> IF i <= k THEN g[i] ELSE Succ(g[k], k + 1)]
    <3>1. h = [i \in 0 .. k + 1 |-> h[i]] /\ h[0] = base
      BY <2>2
    <3>2. ASSUME NEW i \in 1 .. k + 1 PROVE h[i] = Succ(h[i - 1], i)
      <4>1. CASE i <= k
        <5>1. h[i] = g[i] /\ h[i - 1] = g[i - 1] /\ i \in 1 .. k
          BY <4>1
        <5> QED BY <2>2, <5>1
      <4>2. CASE i = k + 1
        <5>1. h[i] = Succ(g[k], k + 1) /\ h[i - 1] = g[k] /\ i = k + 1
          BY <4>2
        <5> QED BY <5>1
      <4> QED BY <4>1, <4>2
    <3> QED BY <3>1, <3>2
  <2> HIDE DEF Run
  <2>3. 0 \in S
    BY <2>1
  <2>4. \A k \in Nat : k \in S => k + 1 \in S
    <3> SUFFICES ASSUME NEW k \in Nat, NEW g, Run(g, k) PROVE \E h : Run(h, k + 1)
      OBVIOUS
    <3> QED BY <2>2, Zenon
  <2>5. n \in S
    <3> HIDE DEF S
    <3> QED BY <1>0, <2>3, <2>4, Induction
  <2> QED BY <2>5
<1>2. PICK g : Run(g, n)
  <2> HIDE DEF Run
  <2> QED BY <1>1
<1>3. Fcn(g)
  <2>1. \A i \in 0 .. n : g[i] = IF i = 0 THEN base ELSE Succ(g[i - 1], i)
    <3> HIDE DEF n, base, Succ
    <3> SUFFICES ASSUME NEW i \in 0 .. n PROVE g[i] = IF i = 0 THEN base ELSE Succ(g[i - 1], i)
      OBVIOUS
    <3>1. g[0] = base /\ \A j \in 1 .. n : g[j] = Succ(g[j - 1], j)
      BY <1>2
    <3>2. i = 0 \/ i \in 1 .. n
      BY <1>0
    <3> QED BY <3>1, <3>2
  <2>2. g = [i \in 0 .. n |-> g[i]]
    BY <1>2
  <2> QED BY <2>1, <2>2, Zenon
<1>4. Fcn(f)
  <2> HIDE DEF Fcn
  <2> QED BY <1>3, Zenon
<1>5. split(s, delim) = EndGroup(f[n].out, f[n].cur)
  BY DEF split
<1>6. f[0] = base /\ \A i \in 1 .. n : f[i] = Succ(f[i - 1], i)
  <2>1. \A i \in 0 .. n : f[i] = IF i = 0 THEN base ELSE Succ(f[i - 1], i)
    BY <1>4
  <2> HIDE DEF f, base, Succ, n
  <2> QED BY <1>0, <2>1
<1> HIDE DEF f
<1> QED BY <1>5, <1>6 DEF Splits

\* The groups and what is in them.
SplitState(X) == [out : Seq(Seq(X)), cur : Seq(X)]

\* A step keeps the delimiter out of the groups.
LEMMA SplitStepType ==
  ASSUME NEW X, NEW delim, NEW t \in X, NEW r \in SplitState(X \ {delim}),
         NEW q, q = SplitStep(r, t, delim)
  PROVE  /\ q \in SplitState(X \ {delim})
         /\ t = delim => q.out = EndGroup(r.out, r.cur) /\ q.cur = <<>>
         /\ t # delim => q.out = r.out /\ q.cur = Append(r.cur, t)
<1> DEFINE Y == X \ {delim}
<1>1. r.out \in Seq(Seq(Y)) /\ r.cur \in Seq(Y)
  BY DEF SplitState
<1>2. CASE t = delim
  <2>1. q = [out |-> EndGroup(r.out, r.cur), cur |-> <<>>]
    BY <1>2 DEF SplitStep
  <2>2. EndGroup(r.out, r.cur) \in Seq(Seq(Y))
    <3>1. CASE r.cur = <<>>
      BY <1>1, <3>1 DEF EndGroup
    <3>2. CASE r.cur # <<>>
      <4>1. EndGroup(r.out, r.cur) = Append(r.out, r.cur)
        BY <3>2 DEF EndGroup
      <4> QED BY <1>1, <4>1, AppendProperties
    <3> QED BY <3>1, <3>2
  <2>3. <<>> \in Seq(Y)
    BY EmptySeq
  <2>4. q \in SplitState(Y)
    <3> DEFINE o == EndGroup(r.out, r.cur)
    <3>1. q = [out |-> o, cur |-> <<>>] /\ o \in Seq(Seq(Y))
      BY <2>1, <2>2
    <3> HIDE DEF o, Y
    <3> QED BY <2>3, <3>1 DEF SplitState
  <2>5. q.out = EndGroup(r.out, r.cur) /\ q.cur = <<>>
    BY <2>1
  <2> QED BY <1>2, <2>4, <2>5, Zenon
<1>3. CASE t # delim
  <2>1. q = [r EXCEPT !.cur = Append(r.cur, t)] /\ t \in Y
    BY <1>3 DEF SplitStep
  <2>2. Append(r.cur, t) \in Seq(Y)
    BY <1>1, <2>1, AppendProperties
  <2> QED BY <1>3, <2>1, <2>2 DEF SplitState
<1> QED BY <1>2, <1>3

\* So do all of them.
LEMMA SplitType ==
  ASSUME NEW X, NEW delim, NEW s \in Seq(X), NEW f, Splits(s, delim, f)
  PROVE  \A i \in 0 .. Len(s) : f[i] \in SplitState(X \ {delim})
<1> DEFINE n == Len(s)
           S == {i \in 0 .. n : f[i] \in SplitState(X \ {delim})}
<1>0. n \in Nat /\ \A i \in 1 .. n : s[i] \in X
  OBVIOUS
<1>1. 0 \in S
  <2> DEFINE r == [out |-> <<>>, cur |-> <<>>]
  <2>1. f[0] = r
    BY DEF Splits
  <2>2. <<>> \in Seq(X \ {delim}) /\ <<>> \in Seq(Seq(X \ {delim}))
    BY EmptySeq
  <2>3. r \in SplitState(X \ {delim})
    BY <2>2, Zenon DEF SplitState
  <2> QED BY <1>0, <2>1, <2>3
<1>2. ASSUME NEW i \in 1 .. n, i - 1 \in S PROVE i \in S
  <2>1. /\ f[i - 1] \in SplitState(X \ {delim}) /\ i \in 0 .. n
        /\ f[i] = SplitStep(f[i - 1], s[i], delim) /\ s[i] \in X
    BY <1>0, <1>2 DEF Splits
  <2>2. f[i] \in SplitState(X \ {delim})
    BY <2>1, SplitStepType
  <2> QED BY <2>1, <2>2
<1>3. \A i \in 1 .. n : i - 1 \in S => i \in S
  BY <1>2
<1>4. \A i \in 0 .. n : i \in S
  <2> HIDE DEF S
  <2> QED BY <1>0, <1>1, <1>3, InductionTo
<1> QED BY <1>4

\* The groups have what the list has, but for the delimiter.
LEMMA GroupsType ==
  ASSUME NEW X, NEW delim, NEW s \in Seq(X)
  PROVE  split(s, delim) \in Seq(Seq(X \ {delim}))
<1>0. Len(s) \in Nat
  OBVIOUS
<1>1. PICK f : Splits(s, delim, f) /\ split(s, delim) = EndGroup(f[Len(s)].out, f[Len(s)].cur)
  BY <1>0, SplitRuns
<1>2. f[Len(s)] \in SplitState(X \ {delim})
  <2>1. \A i \in 0 .. Len(s) : f[i] \in SplitState(X \ {delim})
    BY <1>1, SplitType
  <2>2. Len(s) \in 0 .. Len(s)
    BY <1>0
  <2> QED BY <2>1, <2>2
<1>3. f[Len(s)].out \in Seq(Seq(X \ {delim})) /\ f[Len(s)].cur \in Seq(X \ {delim})
  BY <1>2 DEF SplitState
<1> QED BY <1>1, <1>3, AppendProperties DEF EndGroup

\* Two lists of lists of the same shape, and related element by element.
Alike(a, b, R) == Len(a) = Len(b) /\ \A i \in 1 .. Len(a) : <<a[i], b[i]>> \in R

\* Put together, related lists stay related.
LEMMA AlikeJoined ==
  ASSUME NEW X, NEW Y, NEW R, NEW a \in Seq(X), NEW b \in Seq(Y), NEW c \in Seq(X), NEW d \in Seq(Y),
         Alike(a, b, R), Alike(c, d, R)
  PROVE  Alike(a \o c, b \o d, R)
<1> DEFINE u == a \o c
           v == b \o d
<1>1. /\ Len(u) = Len(a) + Len(c) /\ Len(v) = Len(b) + Len(d)
      /\ Len(a) \in Nat /\ Len(c) \in Nat /\ Len(a) = Len(b) /\ Len(c) = Len(d)
  <2>1. Len(a) = Len(b) /\ Len(c) = Len(d)
    BY DEF Alike
  <2>2. Len(u) = Len(a) + Len(c) /\ Len(v) = Len(b) + Len(d) /\ Len(a) \in Nat /\ Len(c) \in Nat
    OBVIOUS
  <2> QED BY <2>1, <2>2
<1>2. /\ \A i \in 1 .. Len(a) : u[i] = a[i]
      /\ \A i \in 1 .. Len(u) : i \notin 1 .. Len(a) => i - Len(a) \in 1 .. Len(c) /\ u[i] = c[i - Len(a)]
  BY <1>1
<1>3. /\ \A i \in 1 .. Len(b) : v[i] = b[i]
      /\ \A i \in 1 .. Len(v) : i \notin 1 .. Len(b) => i - Len(b) \in 1 .. Len(d) /\ v[i] = d[i - Len(b)]
  BY <1>1
<1> HIDE DEF u, v
<1>4. ASSUME NEW i \in 1 .. Len(u) PROVE <<u[i], v[i]>> \in R
  <2>1. CASE i \in 1 .. Len(a)
    BY <1>1, <1>2, <1>3, <2>1 DEF Alike
  <2>2. CASE i \notin 1 .. Len(a)
    <3>1. i - Len(a) \in 1 .. Len(c) /\ u[i] = c[i - Len(a)] /\ v[i] = d[i - Len(a)]
      BY <1>1, <1>2, <1>3, <2>2
    <3> QED BY <3>1 DEF Alike
  <2> QED BY <2>1, <2>2
<1> QED BY <1>1, <1>4 DEF Alike, u, v

\* However many there are.
LEMMA AlikeFlattened ==
  ASSUME NEW X, NEW Y, NEW R, NEW ss \in Seq(Seq(X)), NEW tt \in Seq(Seq(Y)), Len(ss) = Len(tt),
         \A i \in 1 .. Len(ss) : Alike(ss[i], tt[i], R)
  PROVE  Alike(FlattenSeq(ss), FlattenSeq(tt), R)
<1> DEFINE n == Len(ss)
<1>0. n \in Nat /\ \A i \in 1 .. n : ss[i] \in Seq(X) /\ tt[i] \in Seq(Y)
  OBVIOUS
<1>1. PICK f \in [0 .. n -> Seq(X)] : Flattens(ss, f) /\ FlattenSeq(ss) = f[n]
  BY FlattensTo
<1>2. PICK h \in [0 .. n -> Seq(Y)] : Flattens(tt, h) /\ FlattenSeq(tt) = h[n]
  BY FlattensTo
<1> DEFINE S == {i \in 0 .. n : Alike(f[i], h[i], R)}
<1>3. 0 \in S
  BY <1>0, <1>1, <1>2 DEF Flattens, Alike
<1>4. ASSUME NEW i \in 1 .. n, i - 1 \in S PROVE i \in S
  <2>0. Alike(f[i - 1], h[i - 1], R) /\ i - 1 \in 0 .. n
    BY <1>4
  <2>1. /\ f[i] = f[i - 1] \o ss[i] /\ h[i] = h[i - 1] \o tt[i] /\ i \in 0 .. n /\ i - 1 \in 0 .. n
        /\ Alike(f[i - 1], h[i - 1], R) /\ Alike(ss[i], tt[i], R)
        /\ ss[i] \in Seq(X) /\ tt[i] \in Seq(Y)
    <3>1. f[i] = f[i - 1] \o ss[i] /\ h[i] = h[i - 1] \o tt[i]
      BY <1>1, <1>2 DEF Flattens
    <3>2. Alike(ss[i], tt[i], R) /\ ss[i] \in Seq(X) /\ tt[i] \in Seq(Y)
      BY <1>0
    <3> QED BY <2>0, <3>1, <3>2
  <2>2. f[i - 1] \in Seq(X) /\ h[i - 1] \in Seq(Y)
    BY <2>1
  <2>3. Alike(f[i], h[i], R)
    BY <2>1, <2>2, AlikeJoined
  <2> QED BY <2>1, <2>3
<1>5. n \in S
  <2>1. \A i \in 1 .. n : i - 1 \in S => i \in S
    BY <1>4
  <2>2. \A i \in 0 .. n : i \in S
    <3> HIDE DEF S
    <3> QED BY <1>0, <1>3, <2>1, InductionTo
  <2> QED BY <1>0, <2>2
<1> QED BY <1>1, <1>2, <1>5
-----------------------------------------------------------------------------
\* SortInsert puts the element behind those that are less, up to the first that is not.
LEMMA SortInsertIs ==
  ASSUME NEW lt, NEW E, NEW out \in Seq(E), NEW t \in E
  PROVE  \E k \in 0 .. Len(out) :
           /\ SortInsert(lt, out, t) = (SubSeq(out, 1, k) \o <<t>>) \o From(out, k + 1)
           /\ \A j \in 1 .. k : <<out[j], t>> \in lt
           /\ k < Len(out) => <<out[k + 1], t>> \notin lt
<1> DEFINE I == {i \in 1 .. Len(out) : <<out[i], t>> \notin lt}
<1>0. Len(out) \in Nat
  OBVIOUS
<1>1. CASE I = {}
  <2>1. SortInsert(lt, out, t) = Append(out, t)
    BY <1>1 DEF SortInsert, SelectInSeq
  <2>2. From(out, Len(out) + 1) = <<>> /\ SubSeq(out, 1, Len(out)) = out
    <3>1. Len(out) \in 0 .. Len(out) /\ Len(out) - Len(out) = 0
      BY <1>0
    <3>2. From(out, Len(out) + 1) \in Seq(E) /\ Len(From(out, Len(out) + 1)) = 0
      BY <3>1, Parts
    <3>3. \A s \in Seq(E) : Len(s) = 0 => s = <<>>
      OBVIOUS
    <3>4. SubSeq(out, 1, Len(out)) = out
      OBVIOUS
    <3> QED BY <3>2, <3>3, <3>4
  <2>3. Append(out, t) = (out \o <<t>>) \o <<>>
    <3>1. Append(out, t) = out \o <<t>> /\ out \o <<t>> \in Seq(E)
      OBVIOUS
    <3>2. \A s \in Seq(E) : s \o <<>> = s
      OBVIOUS
    <3> QED BY <3>1, <3>2
  <2>4. \A j \in 1 .. Len(out) : <<out[j], t>> \in lt
    BY <1>1
  <2>5. Len(out) \in 0 .. Len(out) /\ ~(Len(out) < Len(out))
    BY <1>0
  <2> QED BY <2>1, <2>2, <2>3, <2>4, <2>5
<1>2. CASE I # {}
  <2>1. \E m \in I : \A i \in I : m <= i
    <3>1. I \in SUBSET Nat
      OBVIOUS
    <3> HIDE DEF I
    <3> QED BY <1>2, <3>1, LeastElement
  <2> DEFINE m == Min(I)
  <2>2. m \in I /\ \A i \in I : m <= i
    <3> HIDE DEF I
    <3> QED BY <2>1 DEF Min
  <2>3. SortInsert(lt, out, t) = InsertAt(out, m, t)
    <3>1. m # 0
      BY <2>2
    <3>2. SelectInSeq(out, LAMBDA o : <<o, t>> \notin lt) = m
      BY <1>2 DEF SelectInSeq
    <3> HIDE DEF m
    <3> QED BY <3>1, <3>2 DEF SortInsert
  <2>4. m \in 1 .. Len(out) /\ <<out[m], t>> \notin lt
    BY <2>2
  <2>5. \A j \in 1 .. m - 1 : <<out[j], t>> \in lt
    <3> SUFFICES ASSUME NEW j \in 1 .. m - 1, j \in I PROVE FALSE
      <4>1. m \in 1 .. Len(out)
        BY <2>4
      <4> HIDE DEF m
      <4> QED BY <4>1
    <3>1. m <= j
      BY <2>2
    <3> HIDE DEF m
    <3> QED BY <2>4, <3>1
  <2> HIDE DEF m, I
  <2>6. m - 1 \in 0 .. Len(out) /\ (m - 1) + 1 = m
    BY <1>0, <2>4
  <2>7. InsertAt(out, m, t) = (SubSeq(out, 1, m - 1) \o <<t>>) \o From(out, m)
    BY DEF InsertAt, From
  <2> QED BY <2>3, <2>4, <2>5, <2>6, <2>7
<1> QED BY <1>1, <1>2

\* An element behind the first n is put in its place.
LEMMA SortInsertSorts ==
  ASSUME NEW lt, NEW bf, NEW E, Orders(lt, bf, E), NEW s, Sortable(lt, bf, E, s),
         NEW n \in 1 .. Len(s), NEW o, SortedFirst(bf, E, s, n - 1, o),
         NEW q, q = SortInsert(lt, o, s[n])
  PROVE  SortedFirst(bf, E, s, n, q)
<1> DEFINE t == s[n]
<1>0. s \in Seq(E) /\ Len(s) \in Nat /\ t \in E /\ n \in Nat /\ n - 1 \in Nat
  BY DEF Sortable
<1>1. o \in Seq(E) /\ Len(o) = n - 1 /\ ToSet(o) = Firsts(s, n - 1) /\ InOrder(bf, o)
  BY DEF SortedFirst
<1>2. \A y \in ToSet(o) : Fits(lt, bf, y, t)
  <2> SUFFICES ASSUME NEW y \in ToSet(o) PROVE Fits(lt, bf, y, t)
    OBVIOUS
  <2>1. PICK k \in 1 .. n - 1 : y = s[k]
    BY <1>1 DEF Firsts
  <2>2. k \in 1 .. Len(s) /\ k < n
    BY <1>0
  <2> QED BY <2>1, <2>2 DEF Sortable
<1> HIDE DEF t
<1>3. PICK k \in 0 .. Len(o) :
        /\ q = (SubSeq(o, 1, k) \o <<t>>) \o From(o, k + 1)
        /\ \A j \in 1 .. k : <<o[j], t>> \in lt
        /\ k < Len(o) => <<o[k + 1], t>> \notin lt
  <2>1. q = SortInsert(lt, o, t)
    BY DEF t
  <2> QED BY <1>0, <1>1, <2>1, SortInsertIs
<1> DEFINE a == SubSeq(o, 1, k)
           b == From(o, k + 1)
           v == <<t>>
<1>4. /\ a \in Seq(E) /\ Len(a) = k /\ b \in Seq(E) /\ Len(b) = Len(o) - k /\ o = a \o b
      /\ \A i \in 1 .. k : a[i] = o[i]
      /\ \A i \in 1 .. Len(o) - k : b[i] = o[k + i]
  <2>1. o \in Seq(E) /\ k \in 0 .. Len(o)
    BY <1>1
  <2>2. /\ SubSeq(o, 1, k) \in Seq(E) /\ Len(SubSeq(o, 1, k)) = k
        /\ From(o, k + 1) \in Seq(E) /\ Len(From(o, k + 1)) = Len(o) - k
        /\ o = SubSeq(o, 1, k) \o From(o, k + 1)
        /\ \A i \in 1 .. k : SubSeq(o, 1, k)[i] = o[i]
        /\ \A i \in 1 .. Len(o) - k : From(o, k + 1)[i] = o[k + i]
    BY <2>1, Parts
  <2> QED BY <2>2, Zenon
<1>5. v \in Seq(E) /\ Len(v) = 1 /\ ToSet(v) = {t} /\ InOrder(bf, v)
  BY <1>0, OneElement
<1> HIDE DEF a, b, v
<1>6. /\ ToSet(o) = ToSet(a) \cup ToSet(b) /\ InOrder(bf, a) /\ InOrder(bf, b) /\ Ahead(bf, a, b)
  BY <1>1, <1>4, Joined
<1>7. \A x \in ToSet(a) : <<x, t>> \in bf
  <2> SUFFICES ASSUME NEW x \in ToSet(a) PROVE <<x, t>> \in bf
    OBVIOUS
  <2>1. PICK i \in 1 .. Len(a) : x = a[i]
    BY <1>4 DEF ToSet
  <2>2. <<x, t>> \in lt
    BY <1>3, <1>4, <2>1
  <2> QED BY <1>2, <1>6, <2>2 DEF Fits
<1>8. \A x \in ToSet(b) : <<t, x>> \in bf
  <2> SUFFICES ASSUME NEW x \in ToSet(b) PROVE <<t, x>> \in bf
    OBVIOUS
  <2>1. PICK i \in 1 .. Len(b) : x = b[i]
    BY <1>4 DEF ToSet
  <2>2. Len(b) \in Nat /\ 1 \in 1 .. Len(b) /\ 1 \in DOMAIN b
    BY <1>4, <2>1
  <2>3. b[1] = o[k + 1] /\ k < Len(o)
    <3>1. Len(o) \in Nat
      BY <1>1
    <3> QED BY <1>4, <2>2, <3>1
  <2>4. <<b[1], t>> \notin lt /\ b[1] \in ToSet(b)
    BY <1>3, <2>2, <2>3 DEF ToSet
  <2>5. <<t, b[1]>> \in bf
    BY <1>2, <1>6, <2>4 DEF Fits
  <2>6. x = b[1] \/ <<b[1], x>> \in bf
    <3>1. i = 1 \/ 1 < i
      BY <2>2
    <3> QED BY <1>6, <2>1, <2>2, <3>1 DEF InOrder
  <2>7. x \in E /\ b[1] \in E
    BY <1>4, <2>1, <2>2
  <2> QED BY <1>0, <2>5, <2>6, <2>7 DEF Orders
<1> DEFINE c == a \o v
<1>9. c \in Seq(E) /\ Len(c) = k + 1 /\ ToSet(c) = ToSet(a) \cup {t} /\ InOrder(bf, c)
  <2>1. Ahead(bf, a, v)
    BY <1>5, <1>7 DEF Ahead
  <2>2. a \in Seq(E) /\ v \in Seq(E)
    BY <1>4, <1>5
  <2>3. /\ a \o v \in Seq(E) /\ Len(a \o v) = Len(a) + Len(v)
        /\ ToSet(a \o v) = ToSet(a) \union ToSet(v)
        /\ InOrder(bf, a \o v) <=> InOrder(bf, a) /\ InOrder(bf, v) /\ Ahead(bf, a, v)
    BY <2>2, Joined
  <2>4. c \in Seq(E) /\ Len(c) = Len(a) + Len(v) /\ ToSet(c) = ToSet(a) \union ToSet(v) /\ InOrder(bf, c)
    BY <1>5, <1>6, <2>1, <2>3
  <2> HIDE DEF c
  <2> QED BY <1>4, <1>5, <2>4
<1> HIDE DEF c
<1>10. /\ q \in Seq(E) /\ Len(q) = Len(c) + Len(b) /\ ToSet(q) = ToSet(c) \cup ToSet(b)
       /\ InOrder(bf, q)
  <2>1. Ahead(bf, c, b)
    BY <1>6, <1>8, <1>9 DEF Ahead
  <2>2. q = c \o b
    BY <1>3 DEF a, b, c, v
  <2>3. c \in Seq(E) /\ b \in Seq(E)
    BY <1>4, <1>9
  <2>4. /\ c \o b \in Seq(E) /\ Len(c \o b) = Len(c) + Len(b)
        /\ ToSet(c \o b) = ToSet(c) \union ToSet(b)
        /\ InOrder(bf, c \o b) <=> InOrder(bf, c) /\ InOrder(bf, b) /\ Ahead(bf, c, b)
    BY <2>3, Joined
  <2> QED BY <1>6, <1>9, <2>1, <2>2, <2>4
<1>11. Len(q) = n
  <2>1. Len(o) \in Nat /\ k \in Nat
    BY <1>1
  <2> QED BY <1>0, <1>1, <1>4, <1>9, <1>10, <2>1
<1>12. ToSet(q) = Firsts(s, n)
  <2>1. Firsts(s, n) = Firsts(s, n - 1) \cup {t}
    <3>1. \A j \in 1 .. n : j \in 1 .. n - 1 \/ j = n
      BY <1>0
    <3>2. \A j \in 1 .. n - 1 : j \in 1 .. n
      BY <1>0
    <3>3. n \in 1 .. n
      BY <1>0
    <3> QED BY <3>1, <3>2, <3>3 DEF Firsts, t
  <2>2. ToSet(q) = ToSet(o) \cup {t}
    BY <1>6, <1>9, <1>10
  <2> QED BY <1>1, <2>1, <2>2
<1> QED BY <1>10, <1>11, <1>12, Zenon DEF SortedFirst

\* MPL::Sort gives the elements in order.
LEMMA MplSortSorts ==
  ASSUME NEW lt, NEW bf, NEW E, Orders(lt, bf, E), NEW s, Sortable(lt, bf, E, s)
  PROVE  SortedFirst(bf, E, s, Len(s), Sort(lt, s))
<1> DEFINE n == Len(s)
           Fcn(g) == g = [i \in 0 .. Len(s) |-> IF i = 0 THEN <<>> ELSE SortInsert(lt, g[i - 1], s[i])]
           step == [p \in Seq(E) \X (1 .. n) |-> SortInsert(lt, p[1], s[p[2]])]
           f == CHOOSE g : Fcn(g)
<1>0. s \in Seq(E) /\ n \in Nat /\ <<>> \in Seq(E) /\ \A i \in 1 .. n : s[i] \in E
  BY DEF Sortable
<1>1. step \in [Seq(E) \X (1 .. n) -> Seq(E)]
  <2> SUFFICES ASSUME NEW out \in Seq(E), NEW i \in 1 .. n PROVE SortInsert(lt, out, s[i]) \in Seq(E)
    OBVIOUS
  <2>1. PICK k \in 0 .. Len(out) :
          /\ SortInsert(lt, out, s[i]) = (SubSeq(out, 1, k) \o <<s[i]>>) \o From(out, k + 1)
          /\ \A j \in 1 .. k : <<out[j], s[i]>> \in lt
          /\ k < Len(out) => <<out[k + 1], s[i]>> \notin lt
    <3>1. s[i] \in E
      BY <1>0
    <3> HIDE DEF n
    <3> QED BY <3>1, SortInsertIs
  <2>2. SubSeq(out, 1, k) \in Seq(E) /\ From(out, k + 1) \in Seq(E)
    BY Parts
  <2>3. <<s[i]>> \in Seq(E)
    BY <1>0
  <2> QED BY <2>1, <2>2, <2>3
<1>2. PICK h \in [0 .. n -> Seq(E)] : RecursTo(n, h, <<>>, step)
  <2> HIDE DEF step
  <2> QED BY <1>0, <1>1, RecursionTo
<1>3. Fcn(h)
  <2>1. ASSUME NEW i \in 0 .. n PROVE h[i] = IF i = 0 THEN <<>> ELSE SortInsert(lt, h[i - 1], s[i])
    <3>1. CASE i = 0
      <4> HIDE DEF step
      <4> QED BY <1>2, <3>1 DEF RecursTo
    <3>2. CASE i # 0
      <4>1. i \in 1 .. n /\ i - 1 \in 0 .. n
        BY <1>0, <3>2
      <4>2. h[i] = step[<<h[i - 1], i>>] /\ h[i - 1] \in Seq(E)
        <5> HIDE DEF step
        <5> QED BY <1>2, <4>1 DEF RecursTo
      <4>3. step[<<h[i - 1], i>>] = SortInsert(lt, h[i - 1], s[i])
        BY <4>1, <4>2
      <4> HIDE DEF step
      <4> QED BY <3>2, <4>2, <4>3
    <3> QED BY <3>1, <3>2
  <2> HIDE DEF step
  <2> QED BY <1>2, <2>1
<1>4. Fcn(f)
  <2> HIDE DEF Fcn
  <2> QED BY <1>3, Zenon
<1>5. Sort(lt, s) = f[n]
  BY DEF Sort
<1> HIDE DEF f, step
<1>6. f[0] = <<>> /\ \A i \in 1 .. n : f[i] = SortInsert(lt, f[i - 1], s[i])
  <2>1. \A i \in 0 .. n : f[i] = IF i = 0 THEN <<>> ELSE SortInsert(lt, f[i - 1], s[i])
    BY <1>4
  <2>2. 0 \in 0 .. n /\ \A i \in 1 .. n : i \in 0 .. n /\ i # 0
    BY <1>0
  <2> QED BY <2>1, <2>2
<1> DEFINE S == {i \in 0 .. n : SortedFirst(bf, E, s, i, f[i])}
<1>7. 0 \in S
  <2>1. <<>> \in Seq(E) /\ Len(<<>>) = 0 /\ ToSet(<<>>) = {} /\ InOrder(bf, <<>>)
    BY NothingIn
  <2>2. Firsts(s, 0) = {}
    BY DEF Firsts
  <2>3. SortedFirst(bf, E, s, 0, <<>>)
    BY <2>1, <2>2, Zenon DEF SortedFirst
  <2> QED BY <1>0, <1>6, <2>3
<1>8. \A i \in 1 .. n : i - 1 \in S => i \in S
  <2> SUFFICES ASSUME NEW i \in 1 .. n, i - 1 \in S PROVE i \in S
    OBVIOUS
  <2>1. SortedFirst(bf, E, s, i, f[i])
    BY <1>6, SortInsertSorts
  <2>2. i \in 0 .. n
    BY <1>0
  <2> QED BY <2>1, <2>2
<1>9. n \in S
  <2> HIDE DEF S
  <2>1. n \in 0 .. n
    BY <1>0
  <2> QED BY <1>0, <1>7, <1>8, <2>1, InductionTo
<1> QED BY <1>5, <1>9

\* There is one list of the elements in an order in which none is before itself.
LEMMA SortedOnce ==
  ASSUME NEW bf, NEW E, NEW a \in Seq(E), NEW b \in Seq(E), Len(a) = Len(b), ToSet(a) = ToSet(b),
         InOrder(bf, a), InOrder(bf, b), \A x, y \in E : <<x, y>> \in bf => <<y, x>> \notin bf
  PROVE  a = b
<1> DEFINE n == Len(a)
           S == {i \in 0 .. n : \A j \in 1 .. i : a[j] = b[j]}
<1>0. n \in Nat /\ \A i \in 1 .. n : a[i] \in E /\ b[i] \in E
  BY ListFacts
<1>1. 0 \in S
  BY <1>0
<1>2. \A i \in 1 .. n : i - 1 \in S => i \in S
  <2> SUFFICES ASSUME NEW i \in 1 .. n, \A j \in 1 .. i - 1 : a[j] = b[j] PROVE a[i] = b[i]
    <3>1. ASSUME NEW i \in 1 .. n, NEW j \in 1 .. i PROVE j = i \/ j \in 1 .. i - 1
      OBVIOUS
    <3>2. \A i \in 1 .. n : i \in 0 .. n
      BY <1>0
    <3> QED BY <3>1, <3>2
  <2>1. a[i] \in ToSet(b) /\ b[i] \in ToSet(a)
    <3>1. a[i] \in ToSet(a) /\ b[i] \in ToSet(b)
      BY ListFacts, Zenon DEF ToSet
    <3> QED BY <3>1
  <2>2. PICK k \in 1 .. n : a[i] = b[k]
    BY <2>1, ListFacts DEF ToSet
  <2>3. PICK l \in 1 .. n : b[i] = a[l]
    BY <2>1, ListFacts DEF ToSet
  <2>4. ~(k < i)
    <3> SUFFICES ASSUME k < i PROVE FALSE
      OBVIOUS
    <3>1. a[k] = a[i]
      BY <2>2
    <3>2. <<a[k], a[i]>> \in bf
      BY DEF InOrder
    <3> QED BY <1>0, <3>1, <3>2
  <2>5. ~(l < i)
    <3> SUFFICES ASSUME l < i PROVE FALSE
      OBVIOUS
    <3>1. b[l] = b[i]
      BY <2>3
    <3>2. <<b[l], b[i]>> \in bf
      BY DEF InOrder
    <3> QED BY <1>0, <3>1, <3>2
  <2>6. CASE k = i \/ l = i
    BY <2>2, <2>3, <2>6
  <2>7. CASE k # i /\ l # i
    <3>1. i < k /\ i < l
      BY <1>0, <2>4, <2>5, <2>7
    <3>2. <<b[i], b[k]>> \in bf /\ <<a[i], a[l]>> \in bf
      BY <3>1 DEF InOrder
    <3> QED BY <1>0, <2>2, <2>3, <3>2
  <2> QED BY <2>6, <2>7
<1>3. n \in S
  <2>1. n \in 0 .. n
    BY <1>0
  <2> HIDE DEF S
  <2> QED BY <1>0, <1>1, <1>2, <2>1, InductionTo
<1>4. \A j \in 1 .. n : a[j] = b[j]
  BY <1>3
<1> HIDE DEF n, S
<1> QED BY <1>4, SeqEqual DEF n
-----------------------------------------------------------------------------
\* same is an equivalence and lt an order between its classes.
Classes(same, lt, E) ==
  /\ \A x \in E : <<x, x>> \in same
  /\ \A x, y \in E : <<x, y>> \in same => <<y, x>> \in same
  /\ \A x, y, z \in E : <<x, y>> \in same /\ <<y, z>> \in same => <<x, z>> \in same
  /\ \A x, y, z \in E : <<x, y>> \in lt /\ <<y, z>> \in lt => <<x, z>> \in lt
  /\ \A x, y, z \in E : <<x, y>> \in lt /\ <<y, z>> \in same => <<x, z>> \in lt

\* u has one element of each class of the first m of s, but for that of x, all less than x.
OneOfEach(same, lt, E, s, m, x, u) ==
  /\ u \in Seq(E) /\ InOrder(lt, u) /\ ToSet(u) \subseteq ToSet(s)
  /\ \A y \in ToSet(u) : <<y, x>> \in lt
  /\ \A j \in 1 .. m : <<s[j], x>> \in same \/ \E y \in ToSet(u) : <<s[j], y>> \in same

\* The next element goes when the one behind it is the same.
LEMMA OneMoreOfEach ==
  ASSUME NEW same, NEW lt, NEW E, Classes(same, lt, E), NEW s \in Seq(E),
         NEW m \in 1 .. Len(s) - 1, NEW u, OneOfEach(same, lt, E, s, m - 1, s[m], u),
         NEW d, d = IF <<s[m], s[m + 1]>> \in same THEN <<>> ELSE <<s[m]>>,
         <<s[m], s[m + 1]>> \in same \/ <<s[m], s[m + 1]>> \in lt
  PROVE  OneOfEach(same, lt, E, s, m, s[m + 1], u \o d)
<1> DEFINE x == s[m]
           z == s[m + 1]
<1>0. x \in E /\ z \in E /\ x \in ToSet(s) /\ m \in Nat
  <2>1. m \in 1 .. Len(s) /\ m + 1 \in 1 .. Len(s) /\ Len(s) \in Nat
    BY ListFacts
  <2>2. x \in E /\ z \in E /\ DOMAIN s = 1 .. Len(s)
    BY <2>1, ListFacts
  <2> QED BY <2>1, <2>2 DEF ToSet
<1>1. /\ u \in Seq(E) /\ InOrder(lt, u) /\ ToSet(u) \subseteq ToSet(s)
      /\ \A y \in ToSet(u) : <<y, x>> \in lt
      /\ \A j \in 1 .. m - 1 : <<s[j], x>> \in same \/ \E y \in ToSet(u) : <<s[j], y>> \in same
  BY DEF OneOfEach
<1>2. ToSet(u) \subseteq E
  <2>1. DOMAIN u = 1 .. Len(u) /\ \A i \in 1 .. Len(u) : u[i] \in E
    BY <1>1, ListFacts
  <2> QED BY <2>1 DEF ToSet
<1>3. ASSUME NEW j \in 1 .. m PROVE s[j] \in E /\ (j = m \/ j \in 1 .. m - 1)
  <2>1. Len(s) \in Nat /\ j \in 1 .. Len(s) /\ (j = m \/ j \in 1 .. m - 1)
    BY ListFacts
  <2> QED BY <2>1, ListFacts
<1> HIDE DEF x, z
<1>4. CASE <<x, z>> \in same
  <2>1. u \o d = u
    <3>1. d = <<>>
      BY <1>4 DEF x, z
    <3>2. \A a \in Seq(E) : a \o <<>> = a
      OBVIOUS
    <3> QED BY <1>1, <3>1, <3>2
  <2>2. \A y \in ToSet(u) : <<y, z>> \in lt
    BY <1>0, <1>1, <1>2, <1>4 DEF Classes
  <2>3. ASSUME NEW j \in 1 .. m PROVE <<s[j], z>> \in same \/ \E y \in ToSet(u) : <<s[j], y>> \in same
    <3>1. CASE j = m
      BY <1>4, <3>1 DEF x
    <3>2. CASE j \in 1 .. m - 1
      <4>1. CASE <<s[j], x>> \in same
        BY <1>0, <1>3, <1>4, <4>1 DEF Classes
      <4> QED BY <1>1, <3>2, <4>1
    <3> QED BY <1>3, <3>1, <3>2
  <2> QED BY <1>1, <2>1, <2>2, <2>3, Zenon DEF OneOfEach, z
<1>5. CASE <<x, z>> \notin same
  <2> DEFINE v == <<x>>
             q == u \o v
  <2>1. d = v /\ <<x, z>> \in lt
    BY <1>5 DEF x, z
  <2>2. v \in Seq(E) /\ Len(v) = 1 /\ ToSet(v) = {x} /\ InOrder(lt, v)
    BY <1>0, OneElement
  <2> HIDE DEF v
  <2>3. Ahead(lt, u, v)
    BY <1>1, <2>2 DEF Ahead
  <2>4. /\ u \o v \in Seq(E) /\ ToSet(u \o v) = ToSet(u) \union ToSet(v)
        /\ InOrder(lt, u \o v) <=> InOrder(lt, u) /\ InOrder(lt, v) /\ Ahead(lt, u, v)
    <3>1. u \in Seq(E) /\ v \in Seq(E)
      BY <1>1, <2>2
    <3> QED BY <3>1, Joined
  <2>5. q \in Seq(E) /\ InOrder(lt, q) /\ ToSet(q) = ToSet(u) \cup {x}
    BY <1>1, <2>2, <2>3, <2>4
  <2> HIDE DEF q
  <2>6. ToSet(q) \subseteq ToSet(s)
    BY <1>0, <1>1, <2>5
  <2>7. \A y \in ToSet(q) : <<y, z>> \in lt
    <3>1. ASSUME NEW y \in ToSet(u) PROVE <<y, z>> \in lt
      BY <1>0, <1>1, <1>2, <2>1 DEF Classes
    <3> QED BY <2>1, <2>5, <3>1
  <2>8. ASSUME NEW j \in 1 .. m PROVE <<s[j], z>> \in same \/ \E y \in ToSet(q) : <<s[j], y>> \in same
    <3>1. x \in ToSet(q) /\ <<x, x>> \in same
      BY <1>0, <2>5 DEF Classes
    <3>2. CASE j = m
      BY <3>1, <3>2 DEF x
    <3>3. CASE j \in 1 .. m - 1
      BY <1>1, <2>5, <3>1, <3>3
    <3> QED BY <1>3, <3>2, <3>3
  <2> QED BY <2>1, <2>5, <2>6, <2>7, <2>8, Zenon DEF OneOfEach, q, z
<1> QED BY <1>4, <1>5

\* In s the elements of a class are together, and the classes in order.
InClasses(same, lt, s) ==
  \A i \in 1 .. Len(s) - 1 : <<s[i], s[i + 1]>> \in same \/ <<s[i], s[i + 1]>> \in lt

\* MPL::Unique leaves one element of each class of a list in which the classes are in order.
LEMMA UniqueLeavesOne ==
  ASSUME NEW same, NEW lt, NEW E, Classes(same, lt, E), NEW s \in Seq(E),
         InClasses(same, lt, s), NEW u, u = Unique(same, s)
  PROVE  /\ u \in Seq(E) /\ InOrder(lt, u) /\ ToSet(u) \subseteq ToSet(s)
         /\ \A x \in ToSet(s) : \E y \in ToSet(u) : <<x, y>> \in same
<1> DEFINE n == Len(s)
<1>0. n \in Nat /\ DOMAIN s = 1 .. n /\ \A i \in 1 .. n : s[i] \in E
  BY ListFacts
<1>1. CASE n < 2
  <2>1. u = s
    BY <1>1 DEF Unique
  <2>2. InOrder(lt, s)
    BY <1>0, <1>1 DEF InOrder
  <2>3. \A x \in ToSet(s) : <<x, x>> \in same
    BY <1>0 DEF ToSet, Classes
  <2> QED BY <2>1, <2>2, <2>3
<1>2. CASE n >= 2
  <2> DEFINE kept(i) == IF <<s[i], s[i + 1]>> \in same THEN <<>> ELSE <<s[i]>>
             ss   == [i \in 1 .. n - 2 |-> kept(i)]
             last == IF <<s[n - 1], s[n]>> \in same THEN <<s[n - 1]>> ELSE <<s[n - 1], s[n]>>
  <2>1. u = FlattenSeq(ss) \o last
    BY <1>2 DEF Unique
  <2>2. ss \in Seq(Seq(E)) /\ Len(ss) = n - 2 /\ \A i \in 1 .. n - 2 : ss[i] = kept(i)
    <3>1. \A i \in 1 .. n - 2 : kept(i) \in Seq(E)
      BY <1>0, <1>2
    <3>2. n - 2 \in Nat
      BY <1>0, <1>2
    <3> HIDE DEF kept, n
    <3> QED BY <3>1, <3>2
  <2>3. PICK f \in [0 .. Len(ss) -> Seq(E)] : Flattens(ss, f) /\ FlattenSeq(ss) = f[Len(ss)]
    <3> HIDE DEF ss
    <3> QED BY <2>2, FlattensTo
  <2>4. f[0] = <<>> /\ \A i \in 1 .. n - 2 : f[i] = f[i - 1] \o kept(i)
    BY <2>2, <2>3 DEF Flattens
  <2>5. FlattenSeq(ss) = f[n - 2]
    BY <2>2, <2>3
  <2> HIDE DEF ss
  <2> DEFINE S == {m \in 0 .. n - 2 : OneOfEach(same, lt, E, s, m, s[m + 1], f[m])}
  <2>6. 0 \in S
    <3>1. <<>> \in Seq(E) /\ ToSet(<<>>) = {} /\ InOrder(lt, <<>>)
      BY NothingIn
    <3>2. OneOfEach(same, lt, E, s, 0, s[1], <<>>)
      BY <3>1 DEF OneOfEach
    <3> QED BY <1>0, <1>2, <2>4, <3>2
  <2>7. \A m \in 1 .. n - 2 : m - 1 \in S => m \in S
    <3> SUFFICES ASSUME NEW m \in 1 .. n - 2, m - 1 \in S PROVE m \in S
      OBVIOUS
    <3>1. m \in 1 .. n - 1 /\ (m - 1) + 1 = m /\ m \in 0 .. n - 2
      BY <1>0
    <3>2. OneOfEach(same, lt, E, s, m - 1, s[m], f[m - 1])
      BY <3>1
    <3>3. <<s[m], s[m + 1]>> \in same \/ <<s[m], s[m + 1]>> \in lt
      BY <3>1 DEF InClasses
    <3> DEFINE d == kept(m)
    <3>4. OneOfEach(same, lt, E, s, m, s[m + 1], f[m - 1] \o d)
      <4>1. d = IF <<s[m], s[m + 1]>> \in same THEN <<>> ELSE <<s[m]>>
        OBVIOUS
      <4> HIDE DEF d
      <4> QED BY <3>1, <3>2, <3>3, <4>1, OneMoreOfEach
    <3>5. f[m] = f[m - 1] \o d
      BY <2>4
    <3> HIDE DEF d
    <3> QED BY <3>1, <3>4, <3>5
  <2>8. n - 2 \in S
    <3>1. n - 2 \in Nat /\ n - 2 \in 0 .. n - 2
      BY <1>0, <1>2
    <3> HIDE DEF S, n
    <3> QED BY <2>6, <2>7, <3>1, InductionTo
  <2> DEFINE w == f[n - 2]
             x == s[n - 1]
             y == s[n]
  <2>9. /\ w \in Seq(E) /\ InOrder(lt, w) /\ ToSet(w) \subseteq ToSet(s)
        /\ \A e \in ToSet(w) : <<e, x>> \in lt
        /\ \A j \in 1 .. n - 2 : <<s[j], x>> \in same \/ \E e \in ToSet(w) : <<s[j], e>> \in same
    <3>1. OneOfEach(same, lt, E, s, n - 2, s[(n - 2) + 1], w)
      BY <2>8
    <3>2. (n - 2) + 1 = n - 1
      BY <1>0
    <3> QED BY <3>1, <3>2 DEF OneOfEach
  <2>10. /\ x \in E /\ y \in E /\ x \in ToSet(s) /\ y \in ToSet(s)
         /\ (<<x, y>> \in same \/ <<x, y>> \in lt)
         /\ \A j \in 1 .. n : j \in 1 .. n - 2 \/ j = n - 1 \/ j = n
    <3>1. n - 1 \in 1 .. n /\ n \in 1 .. n /\ n - 1 \in 1 .. n - 1 /\ (n - 1) + 1 = n
      BY <1>0, <1>2
    <3>2. \A j \in 1 .. n : j \in 1 .. n - 2 \/ j = n - 1 \/ j = n
      <4>1. n \in Int
        BY <1>0
      <4> HIDE DEF n
      <4> QED BY <4>1
    <3> QED BY <1>0, <3>1, <3>2 DEF ToSet, InClasses
  <2>11. ToSet(w) \subseteq E
    <3>1. DOMAIN w = 1 .. Len(w) /\ \A i \in 1 .. Len(w) : w[i] \in E
      BY <2>9, ListFacts
    <3> QED BY <3>1 DEF ToSet
  <2>12. u = w \o last
    BY <2>1, <2>5
  <2>13. <<x, x>> \in same /\ <<y, y>> \in same /\ (<<x, y>> \in same => <<y, x>> \in same)
    BY <2>10 DEF Classes
  <2>14. last = IF <<x, y>> \in same THEN <<x>> ELSE <<x, y>>
    OBVIOUS
  <2> HIDE DEF w, x, y, last, S, kept
  <2>15. /\ last \in Seq(E) /\ InOrder(lt, last) /\ ToSet(last) \subseteq {x, y} /\ x \in ToSet(last)
         /\ (\E e \in ToSet(last) : <<y, e>> \in same) /\ Ahead(lt, w, last)
    <3>1. CASE <<x, y>> \in same
      <4>1. last = <<x>>
        BY <2>14, <3>1
      <4>2. last \in Seq(E) /\ ToSet(last) = {x} /\ InOrder(lt, last)
        BY <2>10, <4>1, OneElement
      <4>3. Ahead(lt, w, last)
        BY <2>9, <4>2 DEF Ahead
      <4> QED BY <2>13, <3>1, <4>2, <4>3
    <3>2. CASE <<x, y>> \notin same
      <4>1. last = <<x, y>> /\ <<x, y>> \in lt
        BY <2>10, <2>14, <3>2
      <4>2. last \in Seq(E) /\ Len(last) = 2 /\ last[1] = x /\ last[2] = y /\ DOMAIN last = 1 .. 2
        BY <2>10, <4>1
      <4>3. ToSet(last) = {x, y}
        BY <4>2 DEF ToSet
      <4>4. InOrder(lt, last)
        <5> SUFFICES ASSUME NEW i \in 1 .. 2, NEW j \in 1 .. 2, i < j PROVE <<last[i], last[j]>> \in lt
          BY <4>2 DEF InOrder
        <5>1. i = 1 /\ j = 2
          OBVIOUS
        <5> QED BY <4>1, <4>2, <5>1
      <4>5. \A e \in ToSet(w) : <<e, y>> \in lt
        BY <2>9, <2>10, <2>11, <4>1 DEF Classes
      <4>6. Ahead(lt, w, last)
        BY <2>9, <4>3, <4>5 DEF Ahead
      <4> QED BY <2>13, <4>2, <4>3, <4>4, <4>6
    <3> QED BY <3>1, <3>2
  <2>16. /\ w \o last \in Seq(E) /\ ToSet(w \o last) = ToSet(w) \union ToSet(last)
         /\ InOrder(lt, w \o last) <=> InOrder(lt, w) /\ InOrder(lt, last) /\ Ahead(lt, w, last)
    <3>1. w \in Seq(E) /\ last \in Seq(E)
      BY <2>9, <2>15
    <3> QED BY <3>1, Joined
  <2>17. u \in Seq(E) /\ InOrder(lt, u) /\ ToSet(u) = ToSet(w) \cup ToSet(last)
    BY <2>9, <2>12, <2>15, <2>16
  <2>18. ToSet(u) \subseteq ToSet(s)
    BY <2>9, <2>10, <2>15, <2>17
  <2>19. \A e \in ToSet(s) : \E o \in ToSet(u) : <<e, o>> \in same
    <3> SUFFICES ASSUME NEW j \in 1 .. n PROVE \E o \in ToSet(u) : <<s[j], o>> \in same
      BY <1>0 DEF ToSet
    <3>1. CASE j \in 1 .. n - 2
      <4>1. <<s[j], x>> \in same \/ \E e \in ToSet(w) : <<s[j], e>> \in same
        BY <2>9, <3>1
      <4> QED BY <2>15, <2>17, <4>1
    <3>2. CASE j = n - 1
      <4>1. s[j] = x
        BY <3>2 DEF x
      <4> QED BY <2>13, <2>15, <2>17, <4>1
    <3>3. CASE j = n
      <4>1. s[j] = y
        BY <3>3 DEF y
      <4> QED BY <2>15, <2>17, <4>1
    <3> QED BY <2>10, <3>1, <3>2, <3>3
  <2> QED BY <2>17, <2>18, <2>19
<1>3. n < 2 \/ n >= 2
  BY <1>0
<1> QED BY <1>1, <1>2, <1>3
-----------------------------------------------------------------------------
\* What a number leaves when it is divided.
LEMMA Leaves ==
  ASSUME NEW w \in Nat, w > 0, NEW x \in Nat
  PROVE  \E q \in Nat : x = w * q + (x % w) /\ x % w \in 0 .. w - 1
<1>1. x % w \in 0 .. w - 1 /\ x = w * (x \div w) + (x % w) /\ x \div w \in Int
  OBVIOUS
<1>2. x \div w \in Nat
  <2> SUFFICES ASSUME x \div w < 0 PROVE FALSE
    BY <1>1
  <2> DEFINE q == x \div w
  <2>1. q <= -1 /\ q \in Int
    BY <1>1
  <2> HIDE DEF q
  <2>2. w * q <= w * (-1)
    <3>1. \A a \in Nat, b, c \in Int : b <= c => a * b <= a * c
      OBVIOUS
    <3> QED BY <2>1, <3>1
  <2>3. x = w * q + (x % w) /\ w * q \in Int
    BY <1>1, <2>1 DEF q
  <2> QED BY <1>1, <2>2, <2>3
<1> QED BY <1>1, <1>2

\* It leaves one number less than the divisor.
LEMMA LeavesOne ==
  ASSUME NEW w \in Nat, w > 0, NEW q \in Nat, NEW r \in 0 .. w - 1, NEW x, x = w * q + r
  PROVE  x % w = r
<1>0. x \in Nat
  <2>1. w * q \in Nat
    OBVIOUS
  <2> QED BY <2>1
<1>1. PICK p \in Nat : x = w * p + (x % w) /\ x % w \in 0 .. w - 1
  BY <1>0, Leaves
<1> DEFINE y == x % w
<1>2. w * p + y = w * q + r /\ y \in 0 .. w - 1
  BY <1>1
<1> HIDE DEF y
<1>3. ASSUME NEW a \in Nat, NEW b \in Nat, NEW c \in 0 .. w - 1, NEW d \in 0 .. w - 1,
             w * a + c = w * b + d, a < b
      PROVE  FALSE
  <2>1. PICK e \in Nat : b = a + 1 + e
    <3>1. b - a - 1 \in Nat /\ b = a + 1 + (b - a - 1)
      BY <1>3
    <3> QED BY <3>1
  <2>2. w * b = w * a + w + w * e /\ w * e \in Nat /\ w * a \in Nat
    BY <2>1
  <2> HIDE DEF y
  <2> DEFINE k == w * e
             m == w * a
             l == w * b
  <2>3. l = m + w + k /\ k \in Nat /\ m \in Nat /\ m + c = l + d
    BY <1>3, <2>2
  <2> HIDE DEF k, l, m
  <2> QED BY <2>3
<1>4. ~(p < q) /\ ~(q < p)
  BY <1>2, <1>3
<1>5. p = q
  BY <1>4
<1>6. w * p = w * q /\ w * p \in Nat
  BY <1>5
<1>7. y = r
  BY <1>2, <1>6
<1> QED BY <1>7 DEF y

\* A digit more, of the number and of what is left of it.
LEMMA DigitMore ==
  ASSUME NEW w \in Nat, w > 0, NEW b \in Nat, NEW x \in Nat, NEW d \in Nat
  PROVE  ((x % w) * b + d) % w = (x * b + d) % w
<1>1. PICK q \in Nat : x = w * q + (x % w) /\ x % w \in 0 .. w - 1
  BY Leaves
<1> DEFINE r == x % w
<1>2. r \in Nat /\ r * b \in Nat /\ q * b \in Nat /\ x = w * q + r
  BY <1>1
<1> HIDE DEF r
<1> DEFINE y == r * b + d
<1>3. y \in Nat
  BY <1>2
<1>4. x * b + d = w * (q * b) + y
  <2>1. \A i, j, k, l \in Nat : (i * j + k) * l = i * (j * l) + k * l
    OBVIOUS
  <2>2. x * b = w * (q * b) + r * b
    BY <1>2, <2>1
  <2>3. w * (q * b) \in Nat /\ x * b \in Nat
    BY <1>2
  <2> QED BY <1>2, <2>2, <2>3
<1> HIDE DEF y
<1>5. PICK p \in Nat : y = w * p + (y % w) /\ y % w \in 0 .. w - 1
  BY <1>3, Leaves
<1> DEFINE z == y % w
<1>6. z \in 0 .. w - 1 /\ z \in Nat /\ y = w * p + z
  BY <1>5
<1> HIDE DEF z
<1>7. x * b + d = w * (q * b + p) + z /\ q * b + p \in Nat
  <2>1. \A i, j, k \in Nat : i * (j + k) = i * j + i * k
    OBVIOUS
  <2>2. w * (q * b + p) = w * (q * b) + w * p
    BY <1>2, <2>1
  <2>3. w * (q * b) \in Nat /\ w * p \in Nat /\ q * b + p \in Nat
    BY <1>2
  <2> QED BY <1>2, <1>4, <1>6, <2>2, <2>3
<1>8. (x * b + d) % w = z
  <2> DEFINE u == x * b + d
             k == q * b + p
  <2>1. u = w * k + z /\ k \in Nat
    BY <1>7
  <2> HIDE DEF u, k
  <2>2. u % w = z
    BY <1>6, <2>1, LeavesOne
  <2> QED BY <2>2 DEF u
<1> QED BY <1>8 DEF z, y, r

\* The last of some numbers from one on.
LEMMA LastIsMax ==
  ASSUME NEW m \in Nat, NEW x \in SUBSET (1 .. m), m \in x
  PROVE  Max(x) = m
<1>1. \A y \in x : m >= y
  OBVIOUS
<1>2. \A k \in x : (\A y \in x : k >= y) => k = m
  OBVIOUS
<1> QED BY <1>1, <1>2 DEF Max

\* A function along the sets of the numbers up to n: what a fold from left to right is.
FoldsUp(n, g, base, step) ==
  \A x \in SUBSET (1 .. n) :
    g[x] = IF x = {} THEN base ELSE step[<<g[x \ {Max(x)}], Max(x)>>]

\* Some numbers that are not none have their last.
LEMMA MaxIn ==
  ASSUME NEW n \in Nat, NEW x \in SUBSET (1 .. n), x # {}
  PROVE  Max(x) \in x
<1> DEFINE S == {m \in 0 .. n : \A y \in SUBSET (1 .. m) : y # {} => Max(y) \in y}
<1>1. 0 \in S
  <2>1. 1 .. 0 = {} /\ 0 \in 0 .. n
    OBVIOUS
  <2> QED BY <2>1
<1>2. \A m \in 1 .. n : m - 1 \in S => m \in S
  <2> SUFFICES ASSUME NEW m \in 1 .. n, m - 1 \in S, NEW y \in SUBSET (1 .. m), y # {}
               PROVE  Max(y) \in y
    <3>1. \A m \in 1 .. n : m \in 0 .. n
      OBVIOUS
    <3> QED BY <3>1
  <2>1. CASE m \in y
    BY <2>1, LastIsMax
  <2>2. CASE m \notin y
    <3>1. \A k \in 1 .. m : k = m \/ k \in 1 .. m - 1
      OBVIOUS
    <3>2. y \in SUBSET (1 .. m - 1)
      BY <2>2, <3>1
    <3> QED BY <3>2
  <2> QED BY <2>1, <2>2
<1>3. n \in S
  <2>1. n \in 0 .. n
    OBVIOUS
  <2> HIDE DEF S
  <2> QED BY <1>1, <1>2, <2>1, InductionTo
<1> QED BY <1>3

\* There is one.
LEMMA FoldingUp ==
  ASSUME NEW n \in Nat, NEW X, NEW base \in X, NEW step \in [X \X (1 .. n) -> X]
  PROVE  \E g \in [SUBSET (1 .. n) -> X] : FoldsUp(n, g, base, step)
<1> DEFINE Up(g, m) == g \in [SUBSET (1 .. m) -> X] /\ FoldsUp(m, g, base, step)
           S == {m \in 0 .. n : \E g : Up(g, m)}
<1>1. 0 \in S
  <2> DEFINE g == [x \in SUBSET (1 .. 0) |-> base]
  <2>1. 1 .. 0 = {}
    OBVIOUS
  <2>2. \A x \in SUBSET (1 .. 0) : x = {} /\ g[x] = base
    BY <2>1
  <2>3. g \in [SUBSET (1 .. 0) -> X]
    OBVIOUS
  <2> HIDE DEF g
  <2>4. Up(g, 0)
    BY <2>2, <2>3 DEF FoldsUp
  <2>5. 0 \in 0 .. n
    OBVIOUS
  <2> HIDE DEF Up
  <2> QED BY <2>4, <2>5
<1>2. \A m \in 1 .. n : m - 1 \in S => m \in S
  <2> SUFFICES ASSUME NEW m \in 1 .. n, NEW g, Up(g, m - 1) PROVE \E h : Up(h, m)
    <3>1. \A m \in 1 .. n : m \in 0 .. n
      OBVIOUS
    <3> HIDE DEF Up
    <3> QED BY <3>1
  <2> DEFINE h == [x \in SUBSET (1 .. m) |-> IF m \in x THEN step[<<g[x \ {m}], m>>] ELSE g[x]]
  <2>1. \A x \in SUBSET (1 .. m) : h[x] = IF m \in x THEN step[<<g[x \ {m}], m>>] ELSE g[x]
    OBVIOUS
  <2>0. \A x \in SUBSET (1 .. m) : m \notin x => x \in SUBSET (1 .. m - 1)
    <3>1. \A k \in 1 .. m : k = m \/ k \in 1 .. m - 1
      OBVIOUS
    <3> QED BY <3>1
  <2>2. h \in [SUBSET (1 .. m) -> X]
    <3>1. \A x \in SUBSET (1 .. m) : m \in x => x \ {m} \in SUBSET (1 .. m - 1)
      BY <2>0
    <3>2. m \in 1 .. n
      OBVIOUS
    <3>3. \A y \in X : step[<<y, m>>] \in X
      BY <3>2
    <3>4. \A x \in SUBSET (1 .. m - 1) : g[x] \in X
      OBVIOUS
    <3>5. ASSUME NEW x \in SUBSET (1 .. m)
          PROVE  (IF m \in x THEN step[<<g[x \ {m}], m>>] ELSE g[x]) \in X
      BY <2>0, <3>1, <3>3, <3>4
    <3> QED BY <3>5
  <2> HIDE DEF h
  <2>4. ASSUME NEW x \in SUBSET (1 .. m)
        PROVE  h[x] = IF x = {} THEN base ELSE step[<<h[x \ {Max(x)}], Max(x)>>]
    <3>1. CASE m \in x
      <4>1. Max(x) = m
        BY <3>1, LastIsMax
      <4>2. h[x \ {m}] = g[x \ {m}]
        BY <2>1
      <4>3. h[x] = step[<<g[x \ {m}], m>>]
        BY <2>1, <3>1
      <4> QED BY <3>1, <4>1, <4>2, <4>3
    <3>2. CASE m \notin x
      <4> DEFINE y == x \ {Max(x)}
      <4>1. h[x] = g[x] /\ h[y] = g[y]
        BY <2>1, <3>2
      <4>2. x \in SUBSET (1 .. m - 1)
        BY <2>0, <3>2
      <4>3. g[x] = IF x = {} THEN base ELSE step[<<g[y], Max(x)>>]
        BY <4>2 DEF FoldsUp
      <4> HIDE DEF y
      <4>4. h[x] = IF x = {} THEN base ELSE step[<<h[y], Max(x)>>]
        BY <4>1, <4>3
      <4> QED BY <4>4 DEF y
    <3> QED BY <3>1, <3>2
  <2>5. FoldsUp(m, h, base, step)
    BY <2>4 DEF FoldsUp
  <2> QED BY <2>2, <2>5
<1>3. n \in S
  <2>1. n \in 0 .. n
    OBVIOUS
  <2> HIDE DEF S
  <2> QED BY <1>1, <1>2, <2>1, InductionTo
<1> QED BY <1>3
-----------------------------------------------------------------------------
\* Induction from b down to a.
LEMMA InductionDown ==
  ASSUME NEW a \in Int, NEW b \in Int, NEW S,
         \A i \in a .. b : (\A j \in i + 1 .. b : j \in S) => i \in S
  PROVE  \A i \in a .. b : i \in S
<1> DEFINE T == {m \in Nat : \A i \in a .. b : b - i <= m => i \in S}
<1>1. 0 \in T
  <2> SUFFICES ASSUME NEW i \in a .. b, b - i <= 0 PROVE i \in S
    OBVIOUS
  <2>1. \A j \in i + 1 .. b : j \in S
    OBVIOUS
  <2> QED BY <2>1
<1>2. \A m \in Nat : m \in T => m + 1 \in T
  <2> SUFFICES ASSUME NEW m \in Nat, m \in T, NEW i \in a .. b, b - i <= m + 1 PROVE i \in S
    OBVIOUS
  <2>1. \A j \in i + 1 .. b : j \in a .. b /\ b - j <= m
    OBVIOUS
  <2>2. \A j \in i + 1 .. b : j \in S
    BY <2>1
  <2> QED BY <2>2
<1>3. Nat \subseteq T
  <2> HIDE DEF T
  <2> QED BY <1>1, <1>2, Induction
<1>4. \A i \in a .. b : b - i \in Nat
  OBVIOUS
<1> QED BY <1>3, <1>4

\* From i on, j is the first place of an element with P, or the one behind the list.
First(P, s, i, j) ==
  /\ j \in i .. Len(s) + 1
  /\ \A l \in i .. j - 1 : s[l] \notin P
  /\ j <= Len(s) => s[j] \in P

\* r has them for every i.
FirstPlaces(P, s, r) ==
  /\ r \in [1 .. Len(s) + 1 -> 1 .. Len(s) + 1]
  /\ \A i \in 1 .. Len(s) + 1 : First(P, s, i, r[i])

\* There is one, and only one.
LEMMA FirstIs ==
  ASSUME NEW s, Len(s) \in Nat, NEW P, NEW i \in 1 .. Len(s) + 1
  PROVE  \E j \in 1 .. Len(s) + 1 : First(P, s, i, j)
<1> DEFINE n == Len(s)
           T == {j \in i .. n + 1 : j = n + 1 \/ s[j] \in P}
<1>1. T \in SUBSET Nat /\ n + 1 \in T
  OBVIOUS
<1>2. PICK j \in T : \A l \in T : j <= l
  <2> HIDE DEF T
  <2> QED BY <1>1, LeastElement
<1>3. \A l \in i .. j - 1 : s[l] \notin P
  <2> SUFFICES ASSUME NEW l \in i .. j - 1, s[l] \in P PROVE FALSE
    OBVIOUS
  <2>1. l \in T /\ ~(j <= l)
    OBVIOUS
  <2> QED BY <1>2, <2>1
<1>4. j \in i .. n + 1 /\ j \in 1 .. n + 1 /\ (j <= n => s[j] \in P)
  OBVIOUS
<1> QED BY <1>3, <1>4 DEF First

\* There is but one.
LEMMA OneFirst ==
  ASSUME NEW s, Len(s) \in Nat, NEW P, NEW i \in Nat, NEW j, NEW k,
         First(P, s, i, j), First(P, s, i, k)
  PROVE  j = k
<1>1. j \in i .. Len(s) + 1 /\ k \in i .. Len(s) + 1
  BY DEF First
<1>2. ~(j < k)
  <2> SUFFICES ASSUME j < k PROVE FALSE
    OBVIOUS
  <2>1. j \in i .. k - 1 /\ j <= Len(s)
    BY <1>1
  <2> QED BY <2>1 DEF First
<1>3. ~(k < j)
  <2> SUFFICES ASSUME k < j PROVE FALSE
    OBVIOUS
  <2>1. k \in i .. j - 1 /\ k <= Len(s)
    BY <1>1
  <2> QED BY <2>1 DEF First
<1> QED BY <1>1, <1>2, <1>3

\* There are such places.
LEMMA FirstsAre ==
  ASSUME NEW s, Len(s) \in Nat, NEW P
  PROVE  \E r : FirstPlaces(P, s, r)
<1> DEFINE n == Len(s)
           r == [i \in 1 .. n + 1 |-> CHOOSE j \in 1 .. n + 1 : First(P, s, i, j)]
<1>1. \A i \in 1 .. n + 1 : r[i] \in 1 .. n + 1 /\ First(P, s, i, r[i])
  <2> SUFFICES ASSUME NEW i \in 1 .. n + 1
               PROVE  r[i] \in 1 .. n + 1 /\ First(P, s, i, r[i])
    OBVIOUS
  <2>1. r[i] = CHOOSE j \in 1 .. n + 1 : First(P, s, i, j)
    OBVIOUS
  <2>2. \E j \in 1 .. n + 1 : First(P, s, i, j)
    BY FirstIs
  <2> HIDE DEF r
  <2> QED BY <2>1, <2>2
<1>2. r \in [1 .. n + 1 -> 1 .. n + 1]
  BY <1>1
<1> HIDE DEF r
<1> QED BY <1>1, <1>2 DEF FirstPlaces

\* The first place from i on is i or the first from the next on; places without P can be
\* skipped.
Follows(P, s, r) ==
  /\ r[Len(s) + 1] = Len(s) + 1
  /\ \A i \in 1 .. Len(s) : s[i] \in P => r[i] = i
  /\ \A i \in 1 .. Len(s), u \in Nat :
       i + u <= Len(s) + 1 /\ (\A l \in i .. i + u - 1 : s[l] \notin P) => r[i] = r[i + u]

\* They do.
LEMMA FirstsStep ==
  ASSUME NEW s, Len(s) \in Nat, NEW P, NEW r, FirstPlaces(P, s, r)
  PROVE  Follows(P, s, r)
<1> DEFINE n == Len(s)
<1>0. n \in Nat /\ \A i \in 1 .. n + 1 : First(P, s, i, r[i])
  BY DEF FirstPlaces
<1>1. r[n + 1] = n + 1
  <2>1. n + 1 \in 1 .. n + 1
    OBVIOUS
  <2>2. r[n + 1] \in n + 1 .. n + 1
    BY <1>0, <2>1 DEF First
  <2> QED BY <2>2
<1>2. ASSUME NEW i \in 1 .. n, s[i] \in P PROVE r[i] = i
  <2>1. First(P, s, i, i)
    BY <1>2 DEF First
  <2>2. First(P, s, i, r[i]) /\ i \in Nat
    BY <1>0
  <2> QED BY <2>1, <2>2, OneFirst
<1>3. ASSUME NEW i \in 1 .. n, NEW u \in Nat, i + u <= n + 1,
             \A l \in i .. i + u - 1 : s[l] \notin P
      PROVE  r[i] = r[i + u]
  <2> DEFINE m == i + u
  <2>1. m \in 1 .. n + 1 /\ m \in Nat /\ i \in Nat /\ i <= m
    BY <1>3
  <2>2. First(P, s, m, r[m])
    BY <1>0, <2>1
  <2>3. First(P, s, i, r[m])
    <3>1. r[m] \in m .. n + 1 /\ (\A l \in m .. r[m] - 1 : s[l] \notin P) /\ (r[m] <= n => s[r[m]] \in P)
      BY <2>2 DEF First
    <3>2. \A l \in i .. m - 1 : s[l] \notin P
      BY <1>3
    <3> HIDE DEF m
    <3>3. r[m] \in i .. n + 1 /\ \A l \in i .. r[m] - 1 : l \in i .. m - 1 \/ l \in m .. r[m] - 1
      BY <2>1, <3>1
    <3> QED BY <3>1, <3>2, <3>3 DEF First
  <2>4. First(P, s, i, r[i])
    BY <1>0
  <2> HIDE DEF m
  <2>5. r[i] = r[m]
    BY <2>1, <2>3, <2>4, OneFirst
  <2> QED BY <2>5 DEF m
<1> QED BY <1>1, <1>2, <1>3 DEF Follows

\* find gives the list from the first element with P on.
LEMMA FindsRest ==
  ASSUME NEW X, NEW s \in Seq(X), NEW P, Unroll \in Nat \ {0}, NEW r, FirstPlaces(P, s, r)
  PROVE  find(P, s) = From(s, r[1])
<1> DEFINE n == Len(s)
           One(g) == g = [i \in 1 .. n + 1 |->
                            IF i > n THEN <<>> ELSE IF s[i] \in P THEN From(s, i) ELSE g[i + 1]]
           one == CHOOSE g : One(g)
           Many(g) == g = [i \in 1 .. n + 1 |->
                             IF i + Unroll - 1 > n \/ \E k \in i .. i + Unroll - 1 : s[k] \in P
                             THEN one[i] ELSE g[i + Unroll]]
           many == CHOOSE g : Many(g)
           rest == [i \in 1 .. n + 1 |-> From(s, r[i])]
<1>0. n \in Nat
  OBVIOUS
<1>1. /\ r[n + 1] = n + 1
      /\ \A i \in 1 .. n : s[i] \in P => r[i] = i
      /\ \A i \in 1 .. n, u \in Nat :
           i + u <= n + 1 /\ (\A l \in i .. i + u - 1 : s[l] \notin P) => r[i] = r[i + u]
  <2>1. Follows(P, s, r)
    BY <1>0, FirstsStep
  <2> QED BY <2>1 DEF Follows
<1>2. \A i \in 1 .. n : s[i] \notin P => r[i] = r[i + 1]
  <2> SUFFICES ASSUME NEW i \in 1 .. n, s[i] \notin P PROVE r[i] = r[i + 1]
    OBVIOUS
  <2>1. i + 1 <= n + 1 /\ \A l \in i .. i + 1 - 1 : l = i
    OBVIOUS
  <2> QED BY <1>1, <2>1
<1>3. From(s, n + 1) = <<>>
  BY DEF From
<1>4. find(P, s) = many[1]
  BY DEF find
<1> HIDE DEF many
<1>5. ASSUME NEW i \in 1 .. n + 1
      PROVE  rest[i] = IF i > n THEN <<>> ELSE IF s[i] \in P THEN From(s, i) ELSE rest[i + 1]
  <2>0. rest[i] = From(s, r[i])
    OBVIOUS
  <2>1. CASE i > n
    <3>1. i = n + 1
      BY <1>0, <2>1
    <3> QED BY <1>1, <1>3, <2>0, <2>1, <3>1
  <2>2. CASE i <= n
    <3>1. i \in 1 .. n /\ i + 1 \in 1 .. n + 1 /\ ~(i > n)
      BY <2>2
    <3>2. rest[i + 1] = From(s, r[i + 1])
      BY <3>1
    <3> HIDE DEF rest
    <3> QED BY <1>1, <1>2, <2>0, <3>1, <3>2
  <2> QED BY <1>0, <2>1, <2>2
<1>6. One(one)
  <2>1. One(rest)
    <3>1. rest = [i \in 1 .. n + 1 |-> rest[i]]
      OBVIOUS
    <3> HIDE DEF rest
    <3> QED BY <1>5, <3>1
  <2> HIDE DEF One, rest
  <2> QED BY <2>1, Zenon
<1> HIDE DEF one
<1>7. \A i \in 1 .. n + 1 : one[i] = rest[i]
  <2> DEFINE S == {i \in 1 .. n + 1 : one[i] = rest[i]}
  <2>1. ASSUME NEW i \in 1 .. n + 1, \A j \in i + 1 .. n + 1 : j \in S PROVE i \in S
    <3>1. one[i] = IF i > n THEN <<>> ELSE IF s[i] \in P THEN From(s, i) ELSE one[i + 1]
      BY <1>6
    <3>2. ~(i > n) => i + 1 \in i + 1 .. n + 1
      BY <1>0
    <3> HIDE DEF One, rest
    <3> QED BY <1>5, <2>1, <3>1, <3>2
  <2>2. \A i \in 1 .. n + 1 : i \in S
    <3>1. n + 1 \in Int /\ 1 \in Int
      BY <1>0
    <3> HIDE DEF S
    <3> QED BY <2>1, <3>1, InductionDown
  <2> QED BY <2>2
<1>8. ASSUME NEW i \in 1 .. n + 1
      PROVE  rest[i] = IF i + Unroll - 1 > n \/ \E k \in i .. i + Unroll - 1 : s[k] \in P
                       THEN one[i] ELSE rest[i + Unroll]
  <2>1. CASE i + Unroll - 1 > n \/ \E k \in i .. i + Unroll - 1 : s[k] \in P
    BY <1>7, <2>1
  <2>2. CASE ~(i + Unroll - 1 > n) /\ \A k \in i .. i + Unroll - 1 : s[k] \notin P
    <3>1. i \in 1 .. n /\ i + Unroll \in 1 .. n + 1 /\ i + Unroll <= n + 1
      BY <1>0, <2>2
    <3>2. r[i] = r[i + Unroll]
      BY <1>1, <2>2, <3>1
    <3> QED BY <2>2, <3>1, <3>2
  <2> QED BY <2>1, <2>2
<1>9. Many(many)
  <2>1. Many(rest)
    <3>1. rest = [i \in 1 .. n + 1 |-> rest[i]]
      OBVIOUS
    <3> HIDE DEF rest
    <3> QED BY <1>8, <3>1
  <2> HIDE DEF Many, rest
  <2> QED BY <2>1, Zenon DEF many
<1>10. \A i \in 1 .. n + 1 : many[i] = rest[i]
  <2> DEFINE S == {i \in 1 .. n + 1 : many[i] = rest[i]}
  <2>1. ASSUME NEW i \in 1 .. n + 1, \A j \in i + 1 .. n + 1 : j \in S PROVE i \in S
    <3>1. many[i] = IF i + Unroll - 1 > n \/ \E k \in i .. i + Unroll - 1 : s[k] \in P
                    THEN one[i] ELSE many[i + Unroll]
      BY <1>9
    <3>2. ~(i + Unroll - 1 > n) => i + Unroll \in i + 1 .. n + 1
      BY <1>0
    <3> HIDE DEF Many, rest
    <3> QED BY <1>7, <1>8, <2>1, <3>1, <3>2
  <2>2. \A i \in 1 .. n + 1 : i \in S
    <3>1. n + 1 \in Int /\ 1 \in Int
      BY <1>0
    <3> HIDE DEF S
    <3> QED BY <2>1, <3>1, InductionDown
  <2> QED BY <2>2
<1>11. many[1] = From(s, r[1])
  <2>1. 1 \in 1 .. n + 1
    BY <1>0
  <2> QED BY <1>10, <2>1
<1> QED BY <1>4, <1>11

\* Find gives its place, counted from 0, or -1.
LEMMA FindsPlace ==
  ASSUME NEW X, NEW s \in Seq(X), NEW P, NEW r, FirstPlaces(P, s, r)
  PROVE  Find(P, s) = IF r[1] = Len(s) + 1 THEN -1 ELSE r[1] - 1
<1> DEFINE n == Len(s)
           at(i) == IF r[i + 1] = n + 1 THEN -1 ELSE r[i + 1] - 1
           Next(g) == g = [i \in 0 .. n |-> IF i = n THEN -1 ELSE IF s[i + 1] \in P THEN i ELSE g[i + 1]]
           next == CHOOSE g : Next(g)
           all == [i \in 0 .. n |-> at(i)]
<1>0. n \in Nat
  OBVIOUS
<1>1. /\ r[n + 1] = n + 1
      /\ \A i \in 1 .. n : s[i] \in P => r[i] = i
      /\ \A i \in 1 .. n, u \in Nat :
           i + u <= n + 1 /\ (\A l \in i .. i + u - 1 : s[l] \notin P) => r[i] = r[i + u]
  <2>1. Follows(P, s, r)
    BY <1>0, FirstsStep
  <2> QED BY <2>1 DEF Follows
<1>2. \A i \in 1 .. n : s[i] \notin P => r[i] = r[i + 1]
  <2> SUFFICES ASSUME NEW i \in 1 .. n, s[i] \notin P PROVE r[i] = r[i + 1]
    OBVIOUS
  <2>1. i + 1 <= n + 1 /\ \A l \in i .. i + 1 - 1 : l = i
    OBVIOUS
  <2> QED BY <1>1, <2>1
<1>3. Find(P, s) = next[0]
  BY DEF Find
<1>4. ASSUME NEW i \in 0 .. n
      PROVE  at(i) = IF i = n THEN -1 ELSE IF s[i + 1] \in P THEN i ELSE at(i + 1)
  <2>1. CASE i = n
    BY <1>1, <2>1
  <2>2. CASE i # n
    <3>1. i + 1 \in 1 .. n /\ (i + 1) - 1 = i /\ i + 1 # n + 1
      BY <1>0, <2>2
    <3>2. CASE s[i + 1] \in P
      <4>1. r[i + 1] = i + 1
        BY <1>1, <3>1, <3>2
      <4> QED BY <2>2, <3>1, <3>2, <4>1
    <3>3. CASE s[i + 1] \notin P
      <4>1. r[i + 1] = r[(i + 1) + 1]
        BY <1>2, <3>1, <3>3
      <4> QED BY <2>2, <3>3, <4>1
    <3> QED BY <3>2, <3>3
  <2> QED BY <2>1, <2>2
<1> HIDE DEF at
<1>5. ASSUME NEW i \in 0 .. n
      PROVE  all[i] = IF i = n THEN -1 ELSE IF s[i + 1] \in P THEN i ELSE all[i + 1]
  <2>1. i # n => i + 1 \in 0 .. n
    BY <1>0
  <2> QED BY <1>4, <2>1
<1>6. Next(next)
  <2>1. Next(all)
    <3>1. all = [i \in 0 .. n |-> all[i]]
      OBVIOUS
    <3> HIDE DEF all
    <3> QED BY <1>5, <3>1
  <2> HIDE DEF Next, all
  <2> QED BY <2>1, Zenon
<1> HIDE DEF next
<1>7. \A i \in 0 .. n : next[i] = all[i]
  <2> DEFINE S == {i \in 0 .. n : next[i] = all[i]}
  <2>1. ASSUME NEW i \in 0 .. n, \A j \in i + 1 .. n : j \in S PROVE i \in S
    <3>1. next[i] = IF i = n THEN -1 ELSE IF s[i + 1] \in P THEN i ELSE next[i + 1]
      BY <1>6
    <3>2. i # n => i + 1 \in i + 1 .. n
      BY <1>0
    <3> HIDE DEF Next, all
    <3> QED BY <1>5, <2>1, <3>1, <3>2
  <2>2. \A i \in 0 .. n : i \in S
    <3>1. n \in Int /\ 0 \in Int
      BY <1>0
    <3> HIDE DEF S
    <3> QED BY <2>1, <3>1, InductionDown
  <2> QED BY <2>2
<1>8. next[0] = at(0)
  <2>1. 0 \in 0 .. n
    BY <1>0
  <2> QED BY <1>7, <2>1
<1> QED BY <1>3, <1>8 DEF at
-----------------------------------------------------------------------------
\* Induction up to n from all that is before.
LEMMA InductionUp ==
  ASSUME NEW n \in Nat, NEW S, \A i \in 0 .. n : (\A j \in 0 .. i - 1 : j \in S) => i \in S
  PROVE  \A i \in 0 .. n : i \in S
<1> DEFINE T == {i \in 0 .. n : \A j \in 0 .. i : j \in S}
<1>1. 0 \in T
  <2>1. 0 \in 0 .. n /\ 0 .. 0 - 1 = {} /\ \A j \in 0 .. 0 : j = 0
    OBVIOUS
  <2> QED BY <2>1
<1>2. \A i \in 1 .. n : i - 1 \in T => i \in T
  <2> SUFFICES ASSUME NEW i \in 1 .. n, i - 1 \in T PROVE i \in T
    OBVIOUS
  <2>1. i \in 0 .. n /\ \A j \in 0 .. i : j = i \/ j \in 0 .. i - 1
    OBVIOUS
  <2>2. i \in S
    BY <2>1
  <2> QED BY <2>1, <2>2
<1>3. \A i \in 0 .. n : i \in T
  <2> HIDE DEF T
  <2> QED BY <1>1, <1>2, InductionTo
<1>4. \A i \in 0 .. n : i \in 0 .. i
  OBVIOUS
<1> QED BY <1>3, <1>4

\* Lists of the same length with the same elements are the same.
LEMMA SameList ==
  ASSUME NEW X, NEW a \in Seq(X), NEW b \in Seq(X), Len(a) = Len(b),
         \A i \in 1 .. Len(a) : a[i] = b[i]
  PROVE  a = b
OBVIOUS

\* A list of n times t.
Repeated(n, t) == [i \in 1 .. n |-> t]

LEMMA TimesAre ==
  ASSUME NEW t
  PROVE  /\ \A n \in Nat : Repeated(n, t) \in Seq({t}) /\ Len(Repeated(n, t)) = n
         /\ Repeated(0, t) = <<>> /\ Repeated(1, t) = <<t>>
         /\ \A n, m \in Nat : Repeated(n, t) \o Repeated(m, t) = Repeated(n + m, t)
<1>1. \A n \in Nat : /\ Repeated(n, t) \in Seq({t}) /\ Len(Repeated(n, t)) = n
                     /\ \A i \in 1 .. n : Repeated(n, t)[i] = t
  BY DEF Repeated
<1>2. Repeated(0, t) = <<>>
  <2>1. <<>> \in Seq({t}) /\ Len(<<>>) = 0
    OBVIOUS
  <2>2. Repeated(0, t) \in Seq({t}) /\ Len(Repeated(0, t)) = 0
    BY <1>1
  <2> QED BY <2>1, <2>2
<1>3. Repeated(1, t) = <<t>>
  <2>1. <<t>> \in Seq({t}) /\ Len(<<t>>) = 1 /\ <<t>>[1] = t
    OBVIOUS
  <2>2. Repeated(1, t) \in Seq({t}) /\ Len(Repeated(1, t)) = 1 /\ Repeated(1, t)[1] = t
    <3>1. 1 \in Nat /\ 1 \in 1 .. 1
      OBVIOUS
    <3> QED BY <1>1, <3>1, Zenon
  <2>3. \A i \in 1 .. 1 : i = 1
    OBVIOUS
  <2> DEFINE a == Repeated(1, t)
             b == <<t>>
  <2> HIDE DEF a, b
  <2>4. a \in Seq({t}) /\ b \in Seq({t}) /\ Len(a) = 1 /\ Len(b) = 1 /\ a[1] = t /\ b[1] = t
    BY <2>1, <2>2 DEF a, b
  <2>5. a = b
    BY <2>3, <2>4, SameList
  <2> QED BY <2>5 DEF a, b
<1>4. ASSUME NEW n \in Nat, NEW m \in Nat
      PROVE  Repeated(n, t) \o Repeated(m, t) = Repeated(n + m, t)
  <2> DEFINE a == Repeated(n, t)
             b == Repeated(m, t)
             c == Repeated(n + m, t)
             d == a \o b
  <2>1. /\ a \in Seq({t}) /\ Len(a) = n /\ b \in Seq({t}) /\ Len(b) = m
        /\ c \in Seq({t}) /\ Len(c) = n + m
    BY <1>1
  <2> HIDE DEF a, b, c
  <2>2. d \in Seq({t}) /\ Len(d) = n + m
    BY <2>1
  <2> HIDE DEF d
  <2>3. \A i \in 1 .. n + m : c[i] = t /\ d[i] = t
    BY <2>1, <2>2
  <2>4. c = d
    BY <2>1, <2>2, <2>3, SameList
  <2> QED BY <2>4 DEF a, b, c, d
<1> QED BY <1>1, <1>2, <1>3, <1>4

\* Halving gives them.
LEMMA Filled ==
  ASSUME NEW t, NEW n \in Nat
  PROVE  filled_list(t, n) = Repeated(n, t)
<1> DEFINE Next(g, m) == CASE m = 0 -> <<>> [] m = 1 -> <<t>>
                           [] OTHER -> g[m \div 2] \o g[m \div 2] \o g[m - (m \div 2) * 2]
           Fcn(g) == g = [m \in 0 .. n |->
                            CASE m = 0 -> <<>> [] m = 1 -> <<t>>
                              [] OTHER -> g[m \div 2] \o g[m \div 2] \o g[m - (m \div 2) * 2]]
           l == CHOOSE g : Fcn(g)
           all == [m \in 0 .. n |-> Repeated(m, t)]
<1>1. \A m \in 0 .. n : m # 0 /\ m # 1 =>
        /\ m \div 2 \in 0 .. m - 1 /\ m \div 2 \in 0 .. n
        /\ m - (m \div 2) * 2 \in 0 .. m - 1 /\ m - (m \div 2) * 2 \in 0 .. n
        /\ ((m \div 2) + (m \div 2)) + (m - (m \div 2) * 2) = m
  OBVIOUS
<1>2. filled_list(t, n) = l[n]
  BY DEF filled_list
<1>3. ASSUME NEW m \in 0 .. n, m # 0, m # 1
      PROVE  Repeated(m, t) = Repeated(m \div 2, t) \o Repeated(m \div 2, t) \o Repeated(m - (m \div 2) * 2, t)
  <2> DEFINE a == m \div 2
             b == m - a * 2
  <2>1. a \in Nat /\ b \in Nat /\ (a + a) + b = m
    BY <1>1, <1>3
  <2> HIDE DEF a, b
  <2>2. Repeated(a, t) \o Repeated(a, t) = Repeated(a + a, t)
    BY <2>1, TimesAre
  <2>3. Repeated(a + a, t) \o Repeated(b, t) = Repeated((a + a) + b, t)
    <3> DEFINE c == a + a
    <3>1. c \in Nat
      BY <2>1
    <3> HIDE DEF c
    <3>2. Repeated(c, t) \o Repeated(b, t) = Repeated(c + b, t)
      BY <2>1, <3>1, TimesAre
    <3> QED BY <3>2 DEF c
  <2>4. Repeated(m, t) = Repeated(a, t) \o Repeated(a, t) \o Repeated(b, t)
    BY <2>1, <2>2, <2>3
  <2> QED BY <2>4 DEF a, b
<1>4. ASSUME NEW m \in 0 .. n PROVE all[m] = Next(all, m)
  <2>1. CASE m = 0
    BY <2>1, TimesAre
  <2>2. CASE m = 1
    BY <2>2, TimesAre
  <2>3. CASE m # 0 /\ m # 1
    <3> DEFINE a == m \div 2
               b == m - a * 2
    <3>1. a \in 0 .. n /\ b \in 0 .. n
      BY <1>1, <2>3
    <3>2. Repeated(m, t) = Repeated(a, t) \o Repeated(a, t) \o Repeated(b, t)
      BY <1>3, <2>3
    <3>3. Next(all, m) = all[a] \o all[a] \o all[b]
      <4> HIDE DEF all
      <4> QED BY <2>3
    <3> HIDE DEF a, b, Next
    <3> QED BY <3>1, <3>2, <3>3
  <2> QED BY <2>1, <2>2, <2>3
<1>5. Fcn(l)
  <2>1. Fcn(all)
    <3>1. all = [m \in 0 .. n |-> all[m]]
      OBVIOUS
    <3> HIDE DEF all
    <3>2. all = [m \in 0 .. n |-> Next(all, m)]
      <4> HIDE DEF Next
      <4> QED BY <1>4, <3>1
    <3> QED BY <3>2, Zenon
  <2> HIDE DEF Fcn, all
  <2> QED BY <2>1, Zenon
<1> HIDE DEF l
<1>6. \A m \in 0 .. n : l[m] = all[m]
  <2> DEFINE S == {m \in 0 .. n : l[m] = all[m]}
  <2>1. ASSUME NEW m \in 0 .. n, \A j \in 0 .. m - 1 : j \in S PROVE m \in S
    <3>1. l[m] = Next(l, m)
      BY <1>5
    <3>2. all[m] = Next(all, m)
      BY <1>4
    <3> HIDE DEF all
    <3>3. CASE m = 0 \/ m = 1
      BY <3>1, <3>2, <3>3
    <3>4. CASE m # 0 /\ m # 1
      <4> DEFINE a == m \div 2
                 b == m - a * 2
      <4>1. l[a] = all[a] /\ l[b] = all[b]
        BY <1>1, <2>1, <3>4
      <4>2. Next(l, m) = l[a] \o l[a] \o l[b] /\ Next(all, m) = all[a] \o all[a] \o all[b]
        BY <3>4
      <4> HIDE DEF a, b, Next
      <4> QED BY <3>1, <3>2, <4>1, <4>2
    <3> QED BY <3>3, <3>4
  <2>2. \A m \in 0 .. n : m \in S
    <3> HIDE DEF S
    <3> QED BY <2>1, InductionUp
  <2> QED BY <2>2
<1>7. l[n] = Repeated(n, t)
  <2>1. n \in 0 .. n
    OBVIOUS
  <2> QED BY <1>6, <2>1
<1> QED BY <1>2, <1>7

\* What dropping the first m elements one after the other goes through.
TailsOf(s, m) == CHOOSE g : g = [n \in 0 .. m |-> IF n = 0 THEN s ELSE Tail(g[n - 1])]

\* It leaves the list behind them.
LEMMA Tails ==
  ASSUME NEW X, NEW s \in Seq(X), NEW m \in 0 .. Len(s)
  PROVE  TailsOf(s, m)[m] = From(s, m + 1)
<1> DEFINE Fcn(g) == g = [n \in 0 .. m |-> IF n = 0 THEN s ELSE Tail(g[n - 1])]
           rest == CHOOSE g : Fcn(g)
           all == [n \in 0 .. m |-> From(s, n + 1)]
<1>0. m \in Nat /\ Len(s) \in Nat
  OBVIOUS
<1>1. ASSUME NEW n \in 0 .. m PROVE all[n] = IF n = 0 THEN s ELSE Tail(all[n - 1])
  <2>1. all[n] = From(s, n + 1)
    OBVIOUS
  <2>2. CASE n = 0
    <3>1. From(s, 1) = s
      BY DEF From
    <3> QED BY <2>1, <2>2, <3>1
  <2>3. CASE n # 0
    <3>1. n - 1 \in 0 .. m /\ (n - 1) + 1 = n /\ n \in 1 .. Len(s)
      BY <2>3
    <3>2. all[n - 1] = From(s, n)
      BY <3>1
    <3>3. Tail(From(s, n)) = From(s, n + 1)
      <4> DEFINE a == From(s, n)
                 b == From(s, n + 1)
      <4>1. /\ a \in Seq(X) /\ Len(a) = Len(s) - n + 1
            /\ \A i \in 1 .. Len(s) - n + 1 : a[i] = s[(n + i) - 1]
        BY <3>1 DEF From
      <4>2. /\ b \in Seq(X) /\ Len(b) = Len(s) - n
            /\ \A i \in 1 .. Len(s) - n : b[i] = s[n + i]
        BY <3>1 DEF From
      <4> HIDE DEF a, b
      <4>3. /\ Tail(a) \in Seq(X) /\ Len(Tail(a)) = Len(s) - n
            /\ \A i \in 1 .. Len(s) - n : Tail(a)[i] = a[i + 1]
        BY <1>0, <3>1, <4>1
      <4>4. \A i \in 1 .. Len(s) - n : Tail(a)[i] = b[i]
        <5>1. \A i \in 1 .. Len(s) - n : i + 1 \in 1 .. Len(s) - n + 1 /\ (n + (i + 1)) - 1 = n + i
          BY <1>0, <3>1
        <5> QED BY <4>1, <4>2, <4>3, <5>1
      <4> DEFINE c == Tail(a)
      <4>5. c \in Seq(X) /\ Len(c) = Len(b) /\ \A i \in 1 .. Len(c) : c[i] = b[i]
        BY <4>2, <4>3, <4>4
      <4> HIDE DEF c
      <4>6. c = b
        BY <4>2, <4>5, SameList
      <4> QED BY <4>6 DEF a, b, c
    <3> HIDE DEF all
    <3> QED BY <2>1, <2>3, <3>2, <3>3
  <2> QED BY <2>2, <2>3
<1>2. Fcn(rest)
  <2>1. Fcn(all)
    <3>1. all = [n \in 0 .. m |-> all[n]]
      OBVIOUS
    <3> HIDE DEF all
    <3> QED BY <1>1, <3>1
  <2> HIDE DEF Fcn, all
  <2> QED BY <2>1, Zenon
<1>3. TailsOf(s, m) = rest
  BY DEF TailsOf
<1> HIDE DEF rest
<1>4. \A n \in 0 .. m : rest[n] = all[n]
  <2> DEFINE S == {n \in 0 .. m : rest[n] = all[n]}
  <2>1. ASSUME NEW n \in 0 .. m, \A j \in 0 .. n - 1 : j \in S PROVE n \in S
    <3>1. rest[n] = IF n = 0 THEN s ELSE Tail(rest[n - 1])
      BY <1>2
    <3>2. n # 0 => n - 1 \in 0 .. n - 1
      OBVIOUS
    <3> HIDE DEF Fcn, all
    <3> QED BY <1>1, <2>1, <3>1, <3>2
  <2>2. \A n \in 0 .. m : n \in S
    <3> HIDE DEF S
    <3> QED BY <1>0, <2>1, InductionUp
  <2> QED BY <2>2
<1>5. rest[m] = From(s, m + 1)
  <2>1. m \in 0 .. m
    OBVIOUS
  <2> QED BY <1>4, <2>1
<1> QED BY <1>3, <1>5

\* What is at a place, by either way, and a list without it.
LEMMA AtPlace ==
  ASSUME NEW X, NEW s \in Seq(X), NEW i \in 1 .. Len(s)
  PROVE  /\ At(s, i - 1) = s[i] /\ at_c(s, i - 1) = s[i]
         /\ RemoveRange(s, i - 1, i) = RemoveAt(s, i)
<1> DEFINE m == i - 1
<1>1. m \in Nat /\ m \in 0 .. Len(s) /\ i \in 0 .. Len(s) /\ m + 1 = i
  OBVIOUS
<1> HIDE DEF m
<1>2. at_c(s, m) = s[i]
  <2>1. filled_list("void", m) = Repeated(m, "void")
    BY <1>1, Filled
  <2>2. Len(Repeated(m, "void")) = m
    BY <1>1, TimesAre
  <2> QED BY <1>1, <2>1, <2>2 DEF at_c
<1>3. At(s, m) = s[i]
  <2>1. At(s, m) = Head(TailsOf(s, m)[m])
    BY DEF At, TailsOf
  <2>2. TailsOf(s, m)[m] = From(s, i)
    BY <1>1, Tails
  <2>3. Head(From(s, i)) = s[i]
    BY DEF From
  <2> QED BY <2>1, <2>2, <2>3
<1>4. RemoveRange(s, m, i) = RemoveAt(s, i)
  <2>1. RemoveRange(s, m, i) = SubSeq(s, 1, m) \o TailsOf(s, i)[i]
    BY DEF RemoveRange, TailsOf
  <2>2. TailsOf(s, i)[i] = From(s, i + 1)
    BY <1>1, Tails
  <2>3. RemoveAt(s, i) = SubSeq(s, 1, i - 1) \o From(s, i + 1)
    BY DEF RemoveAt, From
  <2> QED BY <2>1, <2>2, <2>3 DEF m
<1> QED BY <1>2, <1>3, <1>4 DEF m
=============================================================================
