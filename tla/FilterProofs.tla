---------------------------- MODULE FilterProofs ----------------------------
(***************************************************************************)
(* What the proofs about sequences and files share: least numbers, recursion*)
(* over an interval of numbers, and what filter() gives.                    *)
(***************************************************************************)
EXTENDS Filter, TLAPS, SequenceTheorems, FiniteSetTheorems, NaturalsInduction,
        WellFoundedInduction

-----------------------------------------------------------------------------
(* Recursion over 0..N: the induction is by the least counterexample.        *)

LEMMA NatOrder == IsWellFoundedOn({p \in Nat \X Nat : p[1] < p[2]}, Nat)
BY NatLessThanWellFounded DEF OpToRel

LEMMA HasMinimum ==
  ASSUME NEW T \in SUBSET Nat, T # {}
  PROVE  \E x \in T : \A y \in T : x <= y
<1> DEFINE R == {p \in Nat \X Nat : p[1] < p[2]}
<1>1. IsWellFoundedOn(R, Nat)
  BY NatOrder
<1> HIDE DEF R
<1>2. T \subseteq Nat /\ T # {}
  OBVIOUS
<1>3. PICK x \in T : \A y \in T : ~(<<y, x>> \in R)
  BY ONLY <1>1, <1>2, WFMin
<1>4. \A y \in T : ~(y < x)
  BY <1>2, <1>3 DEF R
<1> QED BY <1>4

LEMMA HasMaximum ==
  ASSUME NEW N \in Nat, NEW T \in SUBSET (0..N), T # {}
  PROVE  \E x \in T : \A y \in T : y <= x
<1> DEFINE Mirrored == {N - x : x \in T}
<1>0. T \subseteq 0..N /\ \A x \in 0..N : N - x \in Nat
  OBVIOUS
<1>1. Mirrored \in SUBSET Nat /\ Mirrored # {}
  BY <1>0
<1>2. PICK m \in Mirrored : \A y \in Mirrored : m <= y
  BY <1>1, HasMinimum
<1>3. PICK x \in T : m = N - x
  BY <1>2
<1>4. ASSUME NEW y \in T PROVE y <= x
  <2>1. N - y \in Mirrored /\ y \in 0..N /\ x \in 0..N
    OBVIOUS
  <2>2. N - x <= N - y
    BY <2>1, <1>2, <1>3
  <2> QED BY <2>1, <2>2
<1> QED BY <1>4

(* What steps from each number to the next into the next set stays in them.  *)
LEMMA StaysIn ==
  ASSUME NEW N \in Nat, NEW F, NEW f, f[0] \in F[0],
         \A n \in 1..N : f[n-1] \in F[n-1] => f[n] \in F[n]
  PROVE  \A n \in 0..N : f[n] \in F[n]
<1> DEFINE T == {n \in 0..N : f[n] \notin F[n]}
<1>1. ASSUME T # {} PROVE FALSE
  <2>1. PICK m \in T : \A k \in T : m <= k
    <3>1. T \in SUBSET Nat
      OBVIOUS
    <3> HIDE DEF T
    <3> QED BY <1>1, <3>1, HasMinimum
  <2>2. m \in 1..N /\ f[m] \notin F[m]
    BY <2>1
  <2>3. f[m-1] \in F[m-1]
    BY <2>1, <2>2
  <2> QED BY <2>2, <2>3
<1> QED BY <1>1

Unfolds(f, b, g, N) == f[0] = b /\ \A n \in 1..N : f[n] = g[n][f[n-1]]

(* A function that is defined by a step from each number to the next exists. *)
LEMMA Recursion ==
  ASSUME NEW N \in Nat, NEW F, NEW b \in F[0], NEW g,
         \A n \in 1..N : \A x \in F[n-1] : g[n][x] \in F[n]
  PROVE  \E f : /\ f = [n \in 0..N |-> f[n]]
                /\ \A n \in 0..N : f[n] \in F[n]
                /\ Unfolds(f, b, g, N)
<1> DEFINE P(m) == \E f : /\ f = [n \in 0..m |-> f[n]]
                         /\ \A n \in 0..m : f[n] \in F[n]
                         /\ Unfolds(f, b, g, m)
           T == {m \in 0..N : ~P(m)}
<1>1. ASSUME T # {} PROVE FALSE
  <2>1. PICK m \in T : \A k \in T : m <= k
    <3>1. T \in SUBSET Nat
      OBVIOUS
    <3> HIDE DEF T
    <3> QED BY <1>1, <3>1, HasMinimum
  <2>2. m \in 0..N /\ ~P(m)
    BY <2>1
  <2>3. m # 0
    <3>1. ASSUME m = 0 PROVE FALSE
      <4> DEFINE f == [n \in 0..0 |-> b]
      <4>1. /\ f = [n \in 0..0 |-> f[n]]
            /\ \A n \in 0..0 : f[n] \in F[n]
            /\ Unfolds(f, b, g, 0)
        BY DEF Unfolds
      <4> QED BY <2>2, <3>1, <4>1
    <3> QED BY <3>1
  <2>4. P(m-1)
    BY <2>1, <2>2, <2>3
  <2>5. PICK f : \A n \in 0..(m-1) : f[n] \in F[n] /\ Unfolds(f, b, g, m-1)
    BY <2>4
  <2> DEFINE h == [n \in 0..m |-> IF n = m THEN g[m][f[m-1]] ELSE f[n]]
  <2>6. m \in 1..N /\ m-1 \in 0..(m-1) /\ Unfolds(f, b, g, m-1)
    BY <2>2, <2>3, <2>5
  <2>7. g[m][f[m-1]] \in F[m]
    BY <2>5, <2>6
  <2>8. h = [n \in 0..m |-> h[n]] /\ \A n \in 0..m : h[n] \in F[n]
    BY <2>5, <2>6, <2>7
  <2>9. h[0] = b
    BY <2>6 DEF Unfolds
  <2>10. \A n \in 1..m : h[n] = g[n][h[n-1]]
    <3>1. TAKE n \in 1..m
    <3>2. h[n-1] = f[n-1]
      BY <2>6
    <3>3. CASE n = m
      BY <2>6, <3>2, <3>3
    <3>4. CASE n # m
      <4>1. n \in 1..(m-1) /\ h[n] = f[n]
        BY <2>6, <3>4
      <4> QED BY <2>6, <3>2, <4>1 DEF Unfolds
    <3> QED BY <3>3, <3>4
  <2>11. Unfolds(h, b, g, m)
    BY <2>9, <2>10 DEF Unfolds
  <2> HIDE DEF h
  <2> QED BY <2>2, <2>8, <2>11
<1>2. P(N)
  BY <1>1
<1> QED BY <1>2

-----------------------------------------------------------------------------
(* filter().                                                                 *)

IsFilter(f, s, kept) ==
  f = [n \in 0..Len(s) |->
         IF n = 0 THEN <<>>
         ELSE IF s[n] \in kept THEN Append(f[n-1], s[n]) ELSE f[n-1]]
Filter(s, kept) == CHOOSE f : IsFilter(f, s, kept)

LEMMA OnlyIsFilter ==
  ASSUME NEW s, NEW kept
  PROVE  Only(s, kept) = Filter(s, kept)[Len(s)]
BY DEF Only, Filter, IsFilter

LEMMA FilterExists ==
  ASSUME NEW S, NEW s \in Seq(S), NEW kept
  PROVE  IsFilter(Filter(s, kept), s, kept)
<1> DEFINE N == Len(s)
           F == [n \in 0..N |-> Seq(S)]
           g == [n \in 1..N |-> [t \in Seq(S) |-> IF s[n] \in kept THEN Append(t, s[n]) ELSE t]]
<1>1. N \in Nat /\ \A n \in 1..N : s[n] \in S
  BY LenProperties, ElementOfSeq
<1>2. \A n \in 0..N : F[n] = Seq(S)
  OBVIOUS
<1>3. \A n \in 1..N, t \in Seq(S) : g[n][t] = (IF s[n] \in kept THEN Append(t, s[n]) ELSE t)
  OBVIOUS
<1>4. \A n \in 1..N : \A t \in F[n-1] : g[n][t] \in F[n]
  <2>1. TAKE n \in 1..N
  <2>2. F[n-1] = Seq(S) /\ F[n] = Seq(S)
    BY <1>1
  <2> HIDE DEF F, g
  <2>3. ASSUME NEW t \in Seq(S) PROVE g[n][t] \in Seq(S)
    <3>1. s[n] \in S /\ Append(t, s[n]) \in Seq(S)
      BY <1>1, AppendProperties
    <3> QED BY <1>3, <3>1
  <2> QED BY <2>2, <2>3
<1>5. <<>> \in F[0]
  BY <1>1
<1> HIDE DEF F, g
<1>6. PICK f : /\ f = [n \in 0..N |-> f[n]]
               /\ \A n \in 0..N : f[n] \in F[n]
               /\ Unfolds(f, <<>>, g, N)
  BY <1>1, <1>4, <1>5, Recursion
<1>7. \A n \in 0..N : f[n] = IF n = 0 THEN <<>>
                             ELSE IF s[n] \in kept THEN Append(f[n-1], s[n]) ELSE f[n-1]
  <2>1. TAKE n \in 0..N
  <2>2. CASE n = 0
    BY <1>6, <2>2 DEF Unfolds
  <2>3. CASE n # 0
    <3>1. n \in 1..N /\ n-1 \in 0..N
      BY <1>1, <2>3
    <3>2. f[n-1] \in Seq(S)
      BY <1>2, <1>6, <3>1
    <3>3. f[n] = g[n][f[n-1]]
      BY <1>6, <3>1 DEF Unfolds
    <3> QED BY <1>3, <2>3, <3>1, <3>2, <3>3
  <2> QED BY <2>2, <2>3
<1>8. IsFilter(f, s, kept)
  <2>1. f = [n \in 0..N |-> IF n = 0 THEN <<>>
                             ELSE IF s[n] \in kept THEN Append(f[n-1], s[n]) ELSE f[n-1]]
    BY <1>6, <1>7
  <2> QED BY <2>1 DEF IsFilter
<1> QED BY <1>8 DEF Filter

(* Only(s, kept) is reached in steps, one for each element of s.             *)
LEMMA OnlySteps ==
  ASSUME NEW S, NEW s \in Seq(S), NEW kept
  PROVE  \E f : /\ f[0] = <<>> /\ f[Len(s)] = Only(s, kept)
                /\ \A n \in 1..Len(s) : n-1 \in 0..Len(s) /\ s[n] \in S
                /\ \A n \in 1..Len(s) :
                     f[n] = IF s[n] \in kept THEN Append(f[n-1], s[n]) ELSE f[n-1]
<1> DEFINE N == Len(s)
           f == Filter(s, kept)
<1>1. N \in Nat /\ \A n \in 1..N : n-1 \in 0..N /\ s[n] \in S
  BY LenProperties, ElementOfSeq
<1>2. IsFilter(f, s, kept)
  BY FilterExists
<1> HIDE DEF f
<1>3. f = [n \in 0..N |-> IF n = 0 THEN <<>>
             ELSE IF s[n] \in kept THEN Append(f[n-1], s[n]) ELSE f[n-1]]
  BY <1>2 DEF IsFilter
<1>4. f[0] = <<>>
  BY <1>1, <1>3
<1>5. \A n \in 0..N : f[n] = IF n = 0 THEN <<>>
             ELSE IF s[n] \in kept THEN Append(f[n-1], s[n]) ELSE f[n-1]
  BY <1>3
<1>6. \A n \in 1..N : n \in 0..N /\ n # 0
  BY <1>1
<1>7. f[N] = Only(s, kept)
  BY OnlyIsFilter DEF f
<1> QED BY <1>1, <1>4, <1>5, <1>6, <1>7

(* It gives elements of s that are kept.                                     *)
LEMMA OnlyKept ==
  ASSUME NEW S, NEW s \in Seq(S), NEW kept
  PROVE  Only(s, kept) \in Seq(S \cap kept)
<1> DEFINE N == Len(s)
           F == [n \in 0..N |-> Seq(S \cap kept)]
<1>1. PICK f : /\ f[0] = <<>> /\ f[N] = Only(s, kept)
               /\ \A n \in 1..N : n-1 \in 0..N /\ s[n] \in S
               /\ \A n \in 1..N : f[n] = IF s[n] \in kept THEN Append(f[n-1], s[n]) ELSE f[n-1]
  BY OnlySteps
<1>2. N \in Nat
  BY LenProperties
<1>3. \A n \in 0..N : F[n] = Seq(S \cap kept)
  OBVIOUS
<1>4. f[0] \in F[0]
  BY <1>1, <1>2
<1> HIDE DEF F
<1>5. ASSUME NEW n \in 1..N, f[n-1] \in F[n-1] PROVE f[n] \in F[n]
  <2>1. f[n-1] \in Seq(S \cap kept) /\ n \in 0..N
    BY <1>1, <1>2, <1>3, <1>5
  <2>2. s[n] \in kept => Append(f[n-1], s[n]) \in Seq(S \cap kept)
    BY <1>1, <2>1, AppendProperties
  <2> QED BY <1>1, <1>3, <2>1, <2>2
<1>6. \A n \in 0..N : f[n] \in F[n]
  BY <1>2, <1>4, <1>5, StaysIn
<1> QED BY <1>1, <1>2, <1>3, <1>6

LEMMA OnlyEmpty == ASSUME NEW kept PROVE Only(<<>>, kept) = <<>>
<1> DEFINE s == <<>>
<1>1. s \in Seq({})
  OBVIOUS
<1>2. Len(s) = 0
  OBVIOUS
<1> HIDE DEF s
<1>3. \E f : /\ f[0] = <<>> /\ f[Len(s)] = Only(s, kept)
             /\ \A n \in 1..Len(s) : n-1 \in 0..Len(s) /\ s[n] \in {}
             /\ \A n \in 1..Len(s) :
                  f[n] = IF s[n] \in kept THEN Append(f[n-1], s[n]) ELSE f[n-1]
  BY <1>1, OnlySteps
<1> QED BY <1>2, <1>3 DEF s

(* Its first n elements, as long as all of them are kept.                    *)
Copied(S, s, n) == {t \in Seq(S) : Len(t) = n /\ \A i \in 1..n : t[i] = s[i]}

LEMMA CopyGrows ==
  ASSUME NEW S, NEW s, NEW n \in Nat, NEW t \in Copied(S, s, n), s[n+1] \in S
  PROVE  Append(t, s[n+1]) \in Copied(S, s, n+1)
<1>1. t \in Seq(S) /\ Len(t) = n /\ \A i \in 1..n : t[i] = s[i]
  BY DEF Copied
<1>2. /\ Append(t, s[n+1]) \in Seq(S)
      /\ Len(Append(t, s[n+1])) = n+1
      /\ \A i \in 1..n : Append(t, s[n+1])[i] = s[i]
      /\ Append(t, s[n+1])[n+1] = s[n+1]
  BY <1>1, AppendProperties
<1>3. \A i \in 1..(n+1) : i \in 1..n \/ i = n+1
  OBVIOUS
<1> QED BY <1>2, <1>3 DEF Copied

LEMMA CopyIsAll ==
  ASSUME NEW S, NEW s \in Seq(S), NEW t \in Copied(S, s, Len(s))
  PROVE  t = s
BY SeqEqual DEF Copied

(* It leaves out a first element that is not kept, when the others are.      *)
LEMMA OnlyTail ==
  ASSUME NEW S, NEW h \in S, NEW t \in Seq(S), NEW kept, h \notin kept,
         \A i \in 1..Len(t) : t[i] \in kept
  PROVE  Only(<<h>> \o t, kept) = t
<1> DEFINE N == Len(t)
           s == <<h>> \o t
           F == [n \in 0..(N+1) |-> Copied(S, t, IF n = 0 THEN 0 ELSE n-1)]
<1>1. N \in Nat /\ \A i \in 1..N : t[i] \in S
  BY LenProperties, ElementOfSeq
<1>2. s \in Seq(S) /\ Len(s) = N + 1 /\ s[1] = h /\ \A i \in 1..N : s[i+1] = t[i]
  <2>1. <<h>> \in Seq(S) /\ Len(<<h>>) = 1 /\ <<h>>[1] = h
    OBVIOUS
  <2>2. /\ s \in Seq(S) /\ Len(s) = N + 1
        /\ \A i \in 1..(1 + N) : s[i] = IF i <= 1 THEN <<h>>[i] ELSE t[i - 1]
    BY <1>1, <2>1, ConcatProperties
  <2> HIDE DEF s
  <2>3. s[1] = h
    BY <1>1, <2>1, <2>2
  <2>4. \A i \in 1..N : s[i+1] = t[i]
    BY <1>1, <2>2
  <2> QED BY <2>2, <2>3, <2>4
<1> HIDE DEF s
<1>3. s \in Seq(S)
  BY <1>2
<1>4. PICK f : /\ f[0] = <<>> /\ f[Len(s)] = Only(s, kept)
               /\ \A n \in 1..Len(s) :
                    f[n] = IF s[n] \in kept THEN Append(f[n-1], s[n]) ELSE f[n-1]
  BY <1>3, OnlySteps
<1>5. F[0] = Copied(S, t, 0) /\ \A n \in 1..(N+1) : F[n] = Copied(S, t, n-1)
  BY <1>1
<1>6. <<>> \in Copied(S, t, 0)
  BY DEF Copied
<1> HIDE DEF F
<1>7. ASSUME NEW n \in 1..(N+1), f[n-1] \in F[n-1] PROVE f[n] \in F[n]
  <2>1. CASE n = 1
    <3>1. f[1] = <<>>
      BY <1>1, <1>2, <1>4
    <3> QED BY <1>1, <1>5, <1>6, <2>1, <3>1
  <2>2. CASE n # 1
    <3>1. n-1 \in 1..(N+1) /\ n-1 \in 1..N /\ (n-1)-1 \in Nat /\ ((n-1)-1)+1 = n-1
          /\ (n-1)+1 = n /\ n \in 1..Len(s)
      BY <1>1, <1>2, <2>2
    <3>2. f[n-1] \in Copied(S, t, (n-1)-1)
      BY <1>5, <1>7, <3>1
    <3>3. s[n] = t[n-1] /\ t[n-1] \in kept /\ t[n-1] \in S
      BY <1>1, <1>2, <3>1
    <3>4. f[n] = Append(f[n-1], t[n-1])
      BY <1>4, <3>1, <3>3
    <3> HIDE DEF N
    <3>5. Append(f[n-1], t[n-1]) \in Copied(S, t, n-1)
      BY <3>1, <3>2, <3>3, CopyGrows
    <3> QED BY <1>5, <3>4, <3>5
  <2> QED BY <2>1, <2>2
<1>8. f[N+1] \in F[N+1]
  <2>1. f[0] \in F[0] /\ N+1 \in Nat /\ N+1 \in 0..(N+1)
    BY <1>1, <1>4, <1>5, <1>6
  <2>2. \A n \in 0..(N+1) : f[n] \in F[n]
    BY <1>7, <2>1, StaysIn
  <2> QED BY <2>1, <2>2
<1>9. Only(s, kept) \in Copied(S, t, Len(t))
  BY <1>1, <1>2, <1>4, <1>5, <1>8
<1> QED BY <1>9, CopyIsAll DEF s

(* It changes nothing when everything is kept.                               *)
LEMMA OnlyAll ==
  ASSUME NEW S, NEW s \in Seq(S), NEW kept, \A i \in 1..Len(s) : s[i] \in kept
  PROVE  Only(s, kept) = s
<1> DEFINE N == Len(s)
           F == [n \in 0..N |-> Copied(S, s, n)]
<1>1. N \in Nat /\ \A i \in 1..N : s[i] \in S
  BY LenProperties, ElementOfSeq
<1>2. PICK f : /\ f[0] = <<>> /\ f[Len(s)] = Only(s, kept)
               /\ \A n \in 1..Len(s) :
                    f[n] = IF s[n] \in kept THEN Append(f[n-1], s[n]) ELSE f[n-1]
  BY OnlySteps
<1>3. \A n \in 0..N : F[n] = Copied(S, s, n)
  OBVIOUS
<1>4. <<>> \in Copied(S, s, 0)
  BY DEF Copied
<1> HIDE DEF F
<1>5. ASSUME NEW n \in 1..N, f[n-1] \in F[n-1] PROVE f[n] \in F[n]
  <2>1. n-1 \in Nat /\ n-1 \in 0..N /\ n \in 0..N /\ (n-1)+1 = n
    BY <1>1
  <2>2. f[n-1] \in Copied(S, s, n-1)
    BY <1>3, <1>5, <2>1
  <2>3. Append(f[n-1], s[n]) \in Copied(S, s, n)
    BY <1>1, <2>1, <2>2, CopyGrows
  <2> QED BY <1>2, <1>3, <2>1, <2>3
<1>6. f[0] \in F[0]
  BY <1>1, <1>2, <1>3, <1>4
<1>7. \A n \in 0..N : f[n] \in F[n]
  BY <1>1, <1>5, <1>6, StaysIn
<1>8. f[N] \in Copied(S, s, N)
  BY <1>1, <1>3, <1>7
<1> QED BY <1>2, <1>8, CopyIsAll

(* Where the elements that are kept come from: g gives their positions in s, *)
(* up to n, one after the other and without leaving one out.                 *)
Picks(g, t, s, kept, n) ==
  /\ g \in [1..Len(t) -> 1..n]
  /\ \A i \in 1..Len(t) : t[i] = s[g[i]] /\ s[g[i]] \in kept
  /\ \A i, j \in 1..Len(t) : i < j => g[i] < g[j]
  /\ \A k \in 1..n : s[k] \in kept => \E i \in 1..Len(t) : g[i] = k
Picked(S, s, kept, n) == {t \in Seq(S) : \E g : Picks(g, t, s, kept, n)}

LEMMA PickOn ==
  ASSUME NEW S, NEW s, NEW kept, NEW n \in Nat, NEW t \in Picked(S, s, kept, n), s[n+1] \in S
  PROVE  (IF s[n+1] \in kept THEN Append(t, s[n+1]) ELSE t) \in Picked(S, s, kept, n+1)
<1>1. t \in Seq(S) /\ Len(t) \in Nat
  BY LenProperties DEF Picked
<1>2. PICK g : Picks(g, t, s, kept, n)
  BY DEF Picked
<1> DEFINE N == Len(t)
<1>3. /\ g \in [1..N -> 1..n]
      /\ \A i \in 1..N : t[i] = s[g[i]] /\ s[g[i]] \in kept /\ g[i] \in 1..n
      /\ \A i, j \in 1..N : i < j => g[i] < g[j]
      /\ \A k \in 1..n : s[k] \in kept => \E i \in 1..N : g[i] = k
  BY <1>2 DEF Picks
<1>4. \A k \in 1..(n+1) : k \in 1..n \/ k = n+1
  OBVIOUS
<1>5. \A k \in 1..n : k \in 1..(n+1) /\ k < n+1
  OBVIOUS
<1>6. CASE s[n+1] \notin kept
  <2>1. g \in [1..N -> 1..(n+1)]
    BY <1>3, <1>5
  <2>2. \A k \in 1..(n+1) : s[k] \in kept => \E i \in 1..N : g[i] = k
    BY <1>3, <1>4, <1>6
  <2>3. Picks(g, t, s, kept, n+1)
    BY <1>3, <2>1, <2>2 DEF Picks
  <2> QED BY <1>1, <1>6, <2>3 DEF Picked
<1>7. CASE s[n+1] \in kept
  <2> DEFINE u == Append(t, s[n+1])
             h == [i \in 1..(N+1) |-> IF i = N+1 THEN n+1 ELSE g[i]]
  <2>1. /\ u \in Seq(S) /\ Len(u) = N+1 /\ (\A i \in 1..N : u[i] = t[i]) /\ u[N+1] = s[n+1]
    BY <1>1, AppendProperties
  <2> HIDE DEF u
  <2>2. \A i \in 1..(N+1) : (i \in 1..N /\ i # N+1) \/ i = N+1
    BY <1>1
  <2>3. \A i \in 1..N : i \in 1..(N+1) /\ i # N+1 /\ h[i] = g[i]
    BY <1>1
  <2>4. N+1 \in 1..(N+1) /\ h[N+1] = n+1
    BY <1>1
  <2>5. h \in [1..(N+1) -> 1..(n+1)]
    <3>1. \A i \in 1..(N+1) : (IF i = N+1 THEN n+1 ELSE g[i]) \in 1..(n+1)
      BY <1>3, <1>5, <2>2
    <3> QED BY <3>1
  <2> HIDE DEF h
  <2>6. \A i \in 1..(N+1) : u[i] = s[h[i]] /\ s[h[i]] \in kept
    <3> TAKE i \in 1..(N+1)
    <3>1. CASE i \in 1..N
      BY <1>3, <2>1, <2>3, <3>1
    <3>2. CASE i = N+1
      BY <1>7, <2>1, <2>4, <3>2
    <3> QED BY <2>2, <3>1, <3>2
  <2>7. \A i, j \in 1..(N+1) : i < j => h[i] < h[j]
    <3> TAKE i, j \in 1..(N+1)
    <3> HAVE i < j
    <3>1. i \in 1..N
      BY <1>1
    <3>2. CASE j \in 1..N
      BY <1>3, <2>3, <3>1, <3>2
    <3>3. CASE j = N+1
      BY <1>3, <1>5, <2>3, <2>4, <3>1, <3>3
    <3> QED BY <2>2, <3>2, <3>3
  <2>8. \A k \in 1..(n+1) : s[k] \in kept => \E i \in 1..(N+1) : h[i] = k
    BY <1>3, <1>4, <2>3, <2>4
  <2>9. Picks(h, u, s, kept, n+1)
    BY <2>1, <2>5, <2>6, <2>7, <2>8 DEF Picks
  <2> QED BY <1>7, <2>1, <2>9 DEF Picked, u
<1> QED BY <1>6, <1>7

(* It gives the elements of s that are kept, and all of them, in order.      *)
LEMMA OnlyPicks ==
  ASSUME NEW S, NEW s \in Seq(S), NEW kept
  PROVE  /\ Only(s, kept) \in Seq(S)
         /\ \E g : Picks(g, Only(s, kept), s, kept, Len(s))
<1> DEFINE N == Len(s)
           F == [n \in 0..N |-> Picked(S, s, kept, n)]
<1>1. N \in Nat /\ \A i \in 1..N : s[i] \in S
  BY LenProperties, ElementOfSeq
<1>2. PICK f : /\ f[0] = <<>> /\ f[Len(s)] = Only(s, kept)
               /\ \A n \in 1..Len(s) :
                    f[n] = IF s[n] \in kept THEN Append(f[n-1], s[n]) ELSE f[n-1]
  BY OnlySteps
<1>3. \A n \in 0..N : F[n] = Picked(S, s, kept, n)
  OBVIOUS
<1>4. <<>> \in Picked(S, s, kept, 0)
  <2> DEFINE t == <<>>
             g == [i \in 1..0 |-> 0]
  <2>1. t \in Seq(S) /\ Len(t) = 0
    OBVIOUS
  <2> HIDE DEF t
  <2>2. Picks(g, t, s, kept, 0)
    BY <2>1 DEF Picks
  <2>3. t \in Picked(S, s, kept, 0)
    BY <2>1, <2>2 DEF Picked
  <2> QED BY <2>3 DEF t
<1> HIDE DEF F
<1>5. ASSUME NEW n \in 1..N, f[n-1] \in F[n-1] PROVE f[n] \in F[n]
  <2>1. n-1 \in Nat /\ n-1 \in 0..N /\ n \in 0..N /\ (n-1)+1 = n
    BY <1>1
  <2>2. f[n-1] \in Picked(S, s, kept, n-1)
    BY <1>3, <1>5, <2>1
  <2>3. (IF s[n] \in kept THEN Append(f[n-1], s[n]) ELSE f[n-1]) \in Picked(S, s, kept, n)
    BY <1>1, <2>1, <2>2, PickOn
  <2> QED BY <1>2, <1>3, <2>1, <2>3
<1>6. f[0] \in F[0]
  BY <1>1, <1>2, <1>3, <1>4
<1>7. \A n \in 0..N : f[n] \in F[n]
  BY <1>1, <1>5, <1>6, StaysIn
<1>8. f[N] \in Picked(S, s, kept, N)
  BY <1>1, <1>3, <1>7
<1> QED BY <1>2, <1>8 DEF Picked

(* It takes two sequences one after the other.                               *)
LEMMA OnlyConcat ==
  ASSUME NEW S, NEW s \in Seq(S), NEW t \in Seq(S), NEW kept
  PROVE  Only(s \o t, kept) = Only(s, kept) \o Only(t, kept)
<1> DEFINE u == s \o t
           n == Len(s)
           k == Len(t)
           a == Only(s, kept)
<1>1. /\ u \in Seq(S) /\ Len(u) = n + k /\ n \in Nat /\ k \in Nat
      /\ \A i \in 1..n : u[i] = s[i]
      /\ \A i \in 1..k : u[n + i] = t[i]
  OBVIOUS
<1>2. a \in Seq(S)
  BY OnlyPicks
<1>0. u \in Seq(S)
  OBVIOUS
<1> HIDE DEF u, a
<1>3. PICK f : /\ f[0] = <<>> /\ f[n] = a
               /\ \A i \in 1..n : i-1 \in 0..n /\ s[i] \in S
               /\ \A i \in 1..n : f[i] = IF s[i] \in kept THEN Append(f[i-1], s[i]) ELSE f[i-1]
  BY OnlySteps DEF a
<1>4. PICK h : /\ h[0] = <<>> /\ h[k] = Only(t, kept)
               /\ \A i \in 1..k : i-1 \in 0..k /\ t[i] \in S
               /\ \A i \in 1..k : h[i] = IF t[i] \in kept THEN Append(h[i-1], t[i]) ELSE h[i-1]
  BY OnlySteps
<1>5. PICK e : /\ e[0] = <<>> /\ e[Len(u)] = Only(u, kept)
               /\ \A i \in 1..Len(u) : i-1 \in 0..Len(u) /\ u[i] \in S
               /\ \A i \in 1..Len(u) :
                    e[i] = IF u[i] \in kept THEN Append(e[i-1], u[i]) ELSE e[i-1]
  BY <1>0, OnlySteps
<1>6. e[n] = a
  <2> DEFINE F == [i \in 0..n |-> {f[i]}]
  <2>1. \A i \in 0..n : F[i] = {f[i]}
    OBVIOUS
  <2> HIDE DEF F
  <2>2. e[0] \in F[0]
    BY <1>1, <1>3, <1>5, <2>1
  <2>3. ASSUME NEW i \in 1..n, e[i-1] \in F[i-1] PROVE e[i] \in F[i]
    <3>1. i-1 \in 0..n /\ i \in 0..n
      OBVIOUS
    <3>2. i \in 1..Len(u) /\ u[i] = s[i]
      BY <1>1
    <3>3. e[i-1] = f[i-1]
      BY <2>1, <2>3, <3>1
    <3>4. e[i] = f[i]
      BY <1>3, <1>5, <3>2, <3>3
    <3> QED BY <2>1, <3>1, <3>4
  <2>4. \A i \in 0..n : e[i] \in F[i]
    BY <1>1, <2>2, <2>3, StaysIn
  <2> QED BY <1>1, <1>3, <2>1, <2>4
<1>7. e[n + k] = a \o h[k]
  <2> DEFINE F == [i \in 0..k |-> {<<a \o x, x>> : x \in Seq(S) \cap {h[i]}}]
             d == [i \in 0..k |-> <<e[n + i], h[i]>>]
  <2>1. \A i \in 0..k : \A x : x \in F[i] <=> (x = <<a \o h[i], h[i]>> /\ h[i] \in Seq(S))
    OBVIOUS
  <2>2. \A i \in 0..k : d[i] = <<e[n + i], h[i]>>
    OBVIOUS
  <2> HIDE DEF F, d
  <2>3. d[0] \in F[0]
    <3>1. 0 \in 0..k /\ n + 0 = n /\ h[0] = <<>> /\ <<>> \in Seq(S)
      BY <1>1, <1>4
    <3>2. a \o <<>> = a
      BY <1>2
    <3> QED BY <1>6, <2>1, <2>2, <3>1, <3>2
  <2>4. ASSUME NEW i \in 1..k, d[i-1] \in F[i-1] PROVE d[i] \in F[i]
    <3>1. /\ n + i \in 1..Len(u) /\ i-1 \in 0..k /\ i \in 0..k /\ u[n + i] = t[i]
          /\ (n + i) - 1 = n + (i - 1) /\ t[i] \in S
      BY <1>1, <1>4
    <3>2. <<e[n + (i-1)], h[i-1]>> = <<a \o h[i-1], h[i-1]>> /\ h[i-1] \in Seq(S)
      BY <2>1, <2>2, <2>4, <3>1
    <3>3. e[n + (i-1)] = a \o h[i-1] /\ h[i-1] \in Seq(S)
      BY <3>2
    <3>4. CASE t[i] \in kept
      <4>1. e[n + i] = Append(a \o h[i-1], t[i])
        BY <1>5, <3>1, <3>3, <3>4
      <4>2. h[i] = Append(h[i-1], t[i])
        BY <1>4, <3>4
      <4>3. Append(a \o h[i-1], t[i]) = a \o Append(h[i-1], t[i]) /\ h[i] \in Seq(S)
        <5>1. t[i] \in S /\ <<t[i]>> \in Seq(S) /\ a \o h[i-1] \in Seq(S)
          BY <1>2, <3>1, <3>3
        <5>2. /\ Append(h[i-1], t[i]) = h[i-1] \o <<t[i]>>
              /\ Append(a \o h[i-1], t[i]) = (a \o h[i-1]) \o <<t[i]>>
          BY <3>3, <5>1, AppendIsConcat
        <5>3. (a \o h[i-1]) \o <<t[i]>> = a \o (h[i-1] \o <<t[i]>>)
          <6> DEFINE y == h[i-1]
                     z == <<t[i]>>
          <6>1. a \in Seq(S) /\ y \in Seq(S) /\ z \in Seq(S)
            BY <1>2, <3>3, <5>1
          <6> HIDE DEF y, z
          <6>2. (a \o y) \o z = a \o (y \o z)
            BY <6>1
          <6> QED BY <6>2 DEF y, z
        <5>4. h[i] \in Seq(S)
          BY <3>3, <4>2, <5>1, AppendProperties
        <5> QED BY <5>2, <5>3, <5>4
      <4> QED BY <2>1, <2>2, <3>1, <4>1, <4>2, <4>3
    <3>5. CASE t[i] \notin kept
      <4>1. e[n + i] = a \o h[i-1]
        BY <1>5, <3>1, <3>3, <3>5
      <4>2. h[i] = h[i-1]
        BY <1>4, <3>5
      <4> QED BY <2>1, <2>2, <3>1, <3>3, <4>1, <4>2
    <3> QED BY <3>4, <3>5
  <2>5. \A i \in 0..k : d[i] \in F[i]
    BY <1>1, <2>3, <2>4, StaysIn
  <2>6. <<e[n + k], h[k]>> = <<a \o h[k], h[k]>>
    <3>1. k \in 0..k
      BY <1>1
    <3>2. d[k] \in F[k] /\ d[k] = <<e[n + k], h[k]>>
      BY <2>2, <2>5, <3>1
    <3> QED BY <2>1, <3>1, <3>2
  <2> QED BY <2>6
<1> QED BY <1>1, <1>4, <1>5, <1>7 DEF u, a

(* What it keeps depends on the elements of s only.                          *)
LEMMA OnlyAgrees ==
  ASSUME NEW S, NEW s \in Seq(S), NEW kept, NEW keeps,
         \A i \in 1..Len(s) : s[i] \in kept <=> s[i] \in keeps
  PROVE  Only(s, kept) = Only(s, keeps)
<1> DEFINE N == Len(s)
<1>1. N \in Nat
  BY LenProperties
<1>2. PICK f : /\ f[0] = <<>> /\ f[Len(s)] = Only(s, kept)
               /\ \A n \in 1..Len(s) :
                    f[n] = IF s[n] \in kept THEN Append(f[n-1], s[n]) ELSE f[n-1]
  BY OnlySteps
<1>3. PICK h : /\ h[0] = <<>> /\ h[Len(s)] = Only(s, keeps)
               /\ \A n \in 1..Len(s) :
                    h[n] = IF s[n] \in keeps THEN Append(h[n-1], s[n]) ELSE h[n-1]
  BY OnlySteps
<1> DEFINE F == [n \in 0..N |-> {h[n]}]
<1>4. \A n \in 0..N : F[n] = {h[n]}
  OBVIOUS
<1> HIDE DEF F
<1>5. f[0] \in F[0]
  BY <1>1, <1>2, <1>3, <1>4
<1>6. ASSUME NEW n \in 1..N, f[n-1] \in F[n-1] PROVE f[n] \in F[n]
  <2>1. n-1 \in 0..N /\ n \in 0..N
    BY <1>1
  <2> QED BY <1>2, <1>3, <1>4, <1>6, <2>1
<1>7. \A n \in 0..N : f[n] \in F[n]
  BY <1>1, <1>5, <1>6, StaysIn
<1> QED BY <1>1, <1>2, <1>3, <1>4, <1>7

LEMMA OnlyNone ==
  ASSUME NEW S, NEW s \in Seq(S), NEW kept, \A i \in 1..Len(s) : s[i] \notin kept
  PROVE  Only(s, kept) = <<>>
<1> DEFINE t == Only(s, kept)
<1>1. t \in Seq(S) /\ Len(t) \in Nat
  BY OnlyPicks, LenProperties
<1>2. PICK g : Picks(g, t, s, kept, Len(s))
  BY OnlyPicks
<1> HIDE DEF t
<1>3. \A i \in 1..Len(t) : FALSE
  BY <1>2 DEF Picks
<1>4. Len(t) = 0
  BY <1>1, <1>3
<1> QED BY <1>1, <1>4, EmptySeq DEF t

=============================================================================
