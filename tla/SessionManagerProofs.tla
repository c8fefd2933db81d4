------------------------ MODULE SessionManagerProofs -------------------------
(***************************************************************************)
(* Proofs about the session files of the coding agent.                      *)
(***************************************************************************)
EXTENDS SessionManager, FilterProofs, FunctionTheorems

-----------------------------------------------------------------------------
(* The labels of a sequence of entries.                                      *)

Kinds   == {"user", "assistant", "label", "other"}
Entries == [id : Nat \ {Root}, parent : Nat, kind : Kinds, target : Nat,
            text : LabelTexts \cup {Unlabelled}]

Sets(s, t, k) == s[k].kind = "label" /\ s[k].target = t
LastSets(s, t, k) ==
  k \in 1..Len(s) /\ Sets(s, t, k) /\ \A m \in (k+1)..Len(s) : ~Sets(s, t, m)
Setter(s, t) ==
  CHOOSE k \in 1..Len(s) : Sets(s, t, k) /\ \A m \in (k+1)..Len(s) : ~Sets(s, t, m)
Targets(s) == {e.target : e \in {x \in Elements(s) : x.kind = "label"}}

LEMMA LabelsUnfold ==
  ASSUME NEW s
  PROVE  LabelsOf(s) = [t \in {u \in Targets(s) : s[Setter(s, u)].text # Unlabelled} |->
                          s[Setter(s, t)].text]
BY DEF LabelsOf, Setter, Sets, Targets

LEMMA EntryFields ==
  ASSUME NEW s \in Seq(Entries), NEW k \in 1..Len(s)
  PROVE  /\ s[k] \in Entries /\ s[k].id \in Nat \ {Root} /\ s[k].parent \in Nat
         /\ s[k].kind \in Kinds /\ s[k].target \in Nat /\ s[k].text \in LabelTexts \cup {Unlabelled}
<1>1. s[k] \in Entries
  BY ElementOfSeq
<1> QED BY <1>1 DEF Entries

LEMMA LastSetter ==
  ASSUME NEW s \in Seq(Entries), NEW t, NEW j \in 1..Len(s), Sets(s, t, j)
  PROVE  \E k : LastSets(s, t, k)
<1> DEFINE N == Len(s)
           T == {d \in Nat : d < N /\ Sets(s, t, N - d)}
<1>1. N \in Nat
  BY LenProperties
<1>2. T # {}
  <2>1. N - j \in Nat /\ N - j < N /\ N - (N - j) = j
    BY <1>1
  <2>2. Sets(s, t, N - (N - j))
    BY <2>1
  <2> QED BY <2>1, <2>2
<1>3. PICK d \in T : \A c \in T : d <= c
  <2>1. T \in SUBSET Nat
    OBVIOUS
  <2> HIDE DEF T
  <2> QED BY <1>2, <2>1, HasMinimum
<1>4. N - d \in 1..N /\ Sets(s, t, N - d)
  BY <1>1, <1>3
<1>5. ASSUME NEW m \in ((N-d)+1)..N, Sets(s, t, m) PROVE FALSE
  <2>1. N - m \in Nat /\ N - m < N /\ N - (N - m) = m /\ N - m < d
    BY <1>1, <1>3
  <2>2. N - m \in T
    BY <1>5, <2>1
  <2> QED BY <1>3, <2>1, <2>2
<1> QED BY <1>4, <1>5 DEF LastSets

LEMMA SetterIsLast ==
  ASSUME NEW s \in Seq(Entries), NEW t, NEW k, LastSets(s, t, k)
  PROVE  Setter(s, t) = k /\ t \in Targets(s)
<1>1. k \in 1..Len(s) /\ Sets(s, t, k) /\ \A m \in (k+1)..Len(s) : ~Sets(s, t, m)
  BY DEF LastSets
<1>2. LastSets(s, t, Setter(s, t))
  BY <1>1 DEF Setter, LastSets
<1>3. Len(s) \in Nat
  BY LenProperties
<1>4. Setter(s, t) \in 1..Len(s)
  BY <1>2 DEF LastSets
<1>5. ~(Setter(s, t) < k) /\ ~(k < Setter(s, t))
  <2>1. Setter(s, t) < k => k \in (Setter(s, t)+1)..Len(s)
    BY <1>1, <1>3, <1>4
  <2>2. k < Setter(s, t) => Setter(s, t) \in (k+1)..Len(s)
    BY <1>1, <1>3, <1>4
  <2> QED BY <1>1, <1>2, <2>1, <2>2 DEF LastSets
<1>6. t \in Targets(s)
  BY <1>1 DEF Targets, Elements, Sets
<1> QED BY <1>1, <1>4, <1>5, <1>6

(* The label of t is the text of the last entry that sets it.                *)
LEMMA LabelsAre ==
  ASSUME NEW s \in Seq(Entries)
  PROVE  /\ \A t \in DOMAIN LabelsOf(s) : \E k : LastSets(s, t, k)
         /\ \A t, k : LastSets(s, t, k) =>
              /\ t \in DOMAIN LabelsOf(s) <=> s[k].text # Unlabelled
              /\ s[k].text # Unlabelled => LabelsOf(s)[t] = s[k].text
<1>1. DOMAIN LabelsOf(s) = {u \in Targets(s) : s[Setter(s, u)].text # Unlabelled}
  BY LabelsUnfold
<1>2. \A t \in DOMAIN LabelsOf(s) : LabelsOf(s)[t] = s[Setter(s, t)].text
  BY LabelsUnfold
<1>3. ASSUME NEW t \in DOMAIN LabelsOf(s) PROVE \E k : LastSets(s, t, k)
  <2>1. t \in Targets(s)
    BY <1>1
  <2>2. PICK j \in 1..Len(s) : Sets(s, t, j)
    BY <2>1 DEF Targets, Elements, Sets
  <2> QED BY <2>2, LastSetter
<1>4. ASSUME NEW t, NEW k, LastSets(s, t, k)
      PROVE  /\ t \in DOMAIN LabelsOf(s) <=> s[k].text # Unlabelled
             /\ s[k].text # Unlabelled => LabelsOf(s)[t] = s[k].text
  <2>1. Setter(s, t) = k /\ t \in Targets(s)
    BY <1>4, SetterIsLast
  <2> QED BY <1>1, <1>2, <2>1
<1> QED BY <1>3, <1>4

LEMMA LabelsType ==
  ASSUME NEW s \in Seq(Entries)
  PROVE  /\ DOMAIN LabelsOf(s) \subseteq Nat
         /\ \A t \in DOMAIN LabelsOf(s) : LabelsOf(s)[t] \in LabelTexts \ {Unlabelled}
<1>1. SUFFICES ASSUME NEW t \in DOMAIN LabelsOf(s)
               PROVE  t \in Nat /\ LabelsOf(s)[t] \in LabelTexts \ {Unlabelled}
  OBVIOUS
<1>2. PICK k : LastSets(s, t, k)
  BY LabelsAre
<1>3. k \in 1..Len(s) /\ s[k].target = t
  BY <1>2 DEF LastSets, Sets
<1>4. t \in Nat /\ s[k].text \in LabelTexts \cup {Unlabelled}
  BY <1>3, EntryFields
<1> QED BY <1>2, <1>4, LabelsAre

LEMMA NoLabels == LabelsOf(<<>>) = [t \in {} |-> Unlabelled]
<1>1. Elements(<<>>) = {}
  BY DEF Elements
<1>2. Targets(<<>>) = {}
  BY <1>1 DEF Targets
<1> QED BY <1>2, LabelsUnfold

(* What an entry that is appended does to the labels.                        *)
LEMMA LastSetsGrow ==
  ASSUME NEW s \in Seq(Entries), NEW e \in Entries, NEW t
  PROVE  /\ e.kind = "label" /\ e.target = t => LastSets(Append(s, e), t, Len(s) + 1)
         /\ ~(e.kind = "label" /\ e.target = t) =>
              \A k : LastSets(Append(s, e), t, k) <=> LastSets(s, t, k)
<1> DEFINE N == Len(s)
           a == Append(s, e)
<1>1. N \in Nat /\ Len(a) = N + 1 /\ a[N+1] = e /\ \A i \in 1..N : a[i] = s[i]
  BY LenProperties, AppendProperties
<1> HIDE DEF a
<1>2. ASSUME e.kind = "label", e.target = t PROVE LastSets(a, t, N + 1)
  BY <1>1, <1>2 DEF LastSets, Sets
<1>3. ASSUME ~(e.kind = "label" /\ e.target = t), NEW k
      PROVE  LastSets(a, t, k) <=> LastSets(s, t, k)
  <2>1. ~Sets(a, t, N + 1) /\ \A i \in 1..N : Sets(a, t, i) <=> Sets(s, t, i)
    BY <1>1, <1>3 DEF Sets
  <2>2. ASSUME LastSets(a, t, k) PROVE LastSets(s, t, k)
    <3>1. k \in 1..(N+1) /\ Sets(a, t, k) /\ \A m \in (k+1)..(N+1) : ~Sets(a, t, m)
      BY <1>1, <2>2 DEF LastSets
    <3>2. k \in 1..N
      BY <1>1, <2>1, <3>1
    <3>3. \A m \in (k+1)..N : ~Sets(s, t, m)
      BY <1>1, <2>1, <3>1, <3>2
    <3> QED BY <2>1, <3>1, <3>2, <3>3 DEF LastSets
  <2>3. ASSUME LastSets(s, t, k) PROVE LastSets(a, t, k)
    <3>1. k \in 1..N /\ Sets(s, t, k) /\ \A m \in (k+1)..N : ~Sets(s, t, m)
      BY <2>3 DEF LastSets
    <3>2. k \in 1..(N+1) /\ Sets(a, t, k)
      BY <1>1, <2>1, <3>1
    <3>3. \A m \in (k+1)..(N+1) : ~Sets(a, t, m)
      <4>1. TAKE m \in (k+1)..(N+1)
      <4>2. CASE m = N + 1
        BY <2>1, <4>2
      <4>3. CASE m # N + 1
        <5>1. m \in 1..N /\ m \in (k+1)..N
          BY <1>1, <3>1, <4>3
        <5> QED BY <2>1, <3>1, <5>1
      <4> QED BY <4>2, <4>3
    <3> QED BY <1>1, <3>2, <3>3 DEF LastSets
  <2> QED BY <2>2, <2>3
<1> QED BY <1>2, <1>3 DEF a

LEMMA LabelAppended ==
  ASSUME NEW s \in Seq(Entries), NEW e \in Entries, NEW t
  PROVE  IF e.kind = "label" /\ e.target = t
         THEN /\ t \in DOMAIN LabelsOf(Append(s, e)) <=> e.text # Unlabelled
              /\ e.text # Unlabelled => LabelsOf(Append(s, e))[t] = e.text
         ELSE /\ t \in DOMAIN LabelsOf(Append(s, e)) <=> t \in DOMAIN LabelsOf(s)
              /\ t \in DOMAIN LabelsOf(s) => LabelsOf(Append(s, e))[t] = LabelsOf(s)[t]
<1> DEFINE N == Len(s)
           a == Append(s, e)
<1>1. a \in Seq(Entries) /\ N \in Nat /\ a[N+1] = e /\ \A i \in 1..N : a[i] = s[i]
  BY LenProperties, AppendProperties
<1>2. CASE e.kind = "label" /\ e.target = t
  <2>1. LastSets(a, t, N + 1)
    BY <1>2, LastSetsGrow
  <2> HIDE DEF a
  <2>2. /\ t \in DOMAIN LabelsOf(a) <=> a[N+1].text # Unlabelled
        /\ a[N+1].text # Unlabelled => LabelsOf(a)[t] = a[N+1].text
    BY <1>1, <2>1, LabelsAre
  <2> QED BY <1>1, <1>2, <2>2 DEF a
<1>3. CASE ~(e.kind = "label" /\ e.target = t)
  <2>1. \A k : LastSets(a, t, k) <=> LastSets(s, t, k)
    BY <1>3, LastSetsGrow
  <2> HIDE DEF a
  <2>2. ASSUME NEW k, LastSets(s, t, k)
        PROVE  /\ t \in DOMAIN LabelsOf(a) <=> t \in DOMAIN LabelsOf(s)
               /\ t \in DOMAIN LabelsOf(s) => LabelsOf(a)[t] = LabelsOf(s)[t]
    <3>1. a[k] = s[k]
      BY <1>1, <2>2 DEF LastSets
    <3>2. LastSets(a, t, k)
      BY <2>1, <2>2
    <3>3. /\ t \in DOMAIN LabelsOf(a) <=> a[k].text # Unlabelled
          /\ a[k].text # Unlabelled => LabelsOf(a)[t] = a[k].text
      BY <1>1, <3>2, LabelsAre
    <3>4. /\ t \in DOMAIN LabelsOf(s) <=> s[k].text # Unlabelled
          /\ s[k].text # Unlabelled => LabelsOf(s)[t] = s[k].text
      BY <2>2, LabelsAre
    <3> QED BY <3>1, <3>3, <3>4
  <2>3. ASSUME \A k : ~LastSets(s, t, k)
        PROVE  t \notin DOMAIN LabelsOf(a) /\ t \notin DOMAIN LabelsOf(s)
    <3>1. \A k : ~LastSets(a, t, k)
      BY <2>1, <2>3
    <3> QED BY <1>1, <2>3, <3>1, LabelsAre
  <2> QED BY <1>3, <2>2, <2>3 DEF a
<1> QED BY <1>2, <1>3

LEMMA LabelsForm ==
  ASSUME NEW s
  PROVE  LabelsOf(s) = [t \in DOMAIN LabelsOf(s) |-> LabelsOf(s)[t]]
BY LabelsUnfold

LEMMA LabelsUntouched ==
  ASSUME NEW s \in Seq(Entries), NEW e \in Entries, e.kind # "label"
  PROVE  LabelsOf(Append(s, e)) = LabelsOf(s)
<1>1. \A t : /\ t \in DOMAIN LabelsOf(Append(s, e)) <=> t \in DOMAIN LabelsOf(s)
             /\ t \in DOMAIN LabelsOf(s) => LabelsOf(Append(s, e))[t] = LabelsOf(s)[t]
  BY LabelAppended
<1>2. DOMAIN LabelsOf(Append(s, e)) = DOMAIN LabelsOf(s)
  BY <1>1
<1>3. LabelsOf(Append(s, e)) =
        [t \in DOMAIN LabelsOf(Append(s, e)) |-> LabelsOf(Append(s, e))[t]]
  BY LabelsForm
<1>4. LabelsOf(s) = [t \in DOMAIN LabelsOf(s) |-> LabelsOf(s)[t]]
  BY LabelsForm
<1> QED BY <1>1, <1>2, <1>3, <1>4

(* The cache of appendLabelChange is what _buildIndex would build.           *)
LEMMA LabelsChange ==
  ASSUME NEW s \in Seq(Entries), NEW e \in Entries, e.kind = "label",
         labelsById = LabelsOf(s)
  PROVE  LabelsOf(Append(s, e)) = LabelsAfter(e.target, e.text)
<1> DEFINE after == LabelsAfter(e.target, e.text)
           built == LabelsOf(Append(s, e))
<1>1. \A t : t # e.target =>
         /\ t \in DOMAIN built <=> t \in DOMAIN LabelsOf(s)
         /\ t \in DOMAIN LabelsOf(s) => built[t] = LabelsOf(s)[t]
  BY LabelAppended
<1>2. /\ e.target \in DOMAIN built <=> e.text # Unlabelled
      /\ e.text # Unlabelled => built[e.target] = e.text
  BY LabelAppended
<1>3. built = [t \in DOMAIN built |-> built[t]]
  BY LabelsForm
<1> HIDE DEF built
<1>4. DOMAIN built =
        (DOMAIN labelsById \cup {e.target}) \ (IF e.text = Unlabelled THEN {e.target} ELSE {})
  BY <1>1, <1>2
<1>5. \A t \in DOMAIN built : built[t] = IF t = e.target THEN e.text ELSE labelsById[t]
  BY <1>1, <1>2
<1>6. built = after
  BY <1>3, <1>4, <1>5 DEF LabelsAfter
<1> QED BY <1>6 DEF built

-----------------------------------------------------------------------------
(* The branch of a fork.                                                     *)

IdsOf(s) == {e.id : e \in Elements(s)}
WalkStart(s, from) == IF from \in IdsOf(s) THEN <<EntryOf(s, from)>> ELSE <<>>
WalkStep(s, rest) ==
  IF rest # <<>> /\ rest[1].parent \in IdsOf(s)
  THEN <<EntryOf(s, rest[1].parent)>> \o rest ELSE rest
IsWalk(f, s, from) ==
  f = [n \in 0..Len(s) |-> IF n = 0 THEN WalkStart(s, from) ELSE WalkStep(s, f[n-1])]
Walk(s, from) == CHOOSE f : IsWalk(f, s, from)

LEMMA BranchIsWalk ==
  ASSUME NEW s, NEW from
  PROVE  GetBranch(s, from) = Walk(s, from)[Len(s)]
BY DEF GetBranch, Walk, IsWalk, WalkStart, WalkStep, IdsOf

LEMMA WalkTypes ==
  ASSUME NEW s \in Seq(Entries), NEW from
  PROVE  /\ WalkStart(s, from) \in Seq(Entries)
         /\ \A rest \in Seq(Entries) : WalkStep(s, rest) \in Seq(Entries)
<1>1. ASSUME NEW i \in IdsOf(s) PROVE <<EntryOf(s, i)>> \in Seq(Entries)
  <2>1. \E k \in 1..Len(s) : s[k].id = i
    BY <1>1 DEF IdsOf, Elements
  <2>2. \E k \in 1..Len(s) : EntryOf(s, i) = s[k]
    BY <2>1 DEF EntryOf
  <2>3. EntryOf(s, i) \in Entries
    BY <2>2, ElementOfSeq
  <2> QED BY <2>3
<1>2. WalkStart(s, from) \in Seq(Entries)
  BY <1>1 DEF WalkStart
<1>3. ASSUME NEW rest \in Seq(Entries) PROVE WalkStep(s, rest) \in Seq(Entries)
  <2>1. CASE rest # <<>> /\ rest[1].parent \in IdsOf(s)
    <3>1. <<EntryOf(s, rest[1].parent)>> \in Seq(Entries)
      BY <1>1, <2>1
    <3>2. <<EntryOf(s, rest[1].parent)>> \o rest \in Seq(Entries)
      BY <3>1, ConcatProperties
    <3> QED BY <2>1, <3>2 DEF WalkStep
  <2>2. CASE ~(rest # <<>> /\ rest[1].parent \in IdsOf(s))
    BY <2>2 DEF WalkStep
  <2> QED BY <2>1, <2>2
<1> QED BY <1>2, <1>3

LEMMA WalkExists ==
  ASSUME NEW s \in Seq(Entries), NEW from
  PROVE  IsWalk(Walk(s, from), s, from)
<1> DEFINE N == Len(s)
           F == [n \in 0..N |-> Seq(Entries)]
           g == [n \in 1..N |-> [t \in Seq(Entries) |-> WalkStep(s, t)]]
           b == WalkStart(s, from)
<1>1. N \in Nat
  BY LenProperties
<1>2. \A n \in 0..N : F[n] = Seq(Entries)
  OBVIOUS
<1>3. \A n \in 1..N, t \in Seq(Entries) : g[n][t] = WalkStep(s, t)
  OBVIOUS
<1>4. b \in F[0]
  BY <1>1, WalkTypes
<1> HIDE DEF F, g, b
<1>5. \A n \in 1..N : \A t \in F[n-1] : g[n][t] \in F[n]
  <2>1. TAKE n \in 1..N
  <2>2. F[n-1] = Seq(Entries) /\ F[n] = Seq(Entries)
    BY <1>1, <1>2
  <2> QED BY <1>3, <2>2, WalkTypes
<1>6. PICK f : /\ f = [n \in 0..N |-> f[n]]
               /\ \A n \in 0..N : f[n] \in F[n]
               /\ Unfolds(f, b, g, N)
  BY <1>1, <1>4, <1>5, Recursion
<1>7. \A n \in 0..N : f[n] = IF n = 0 THEN b ELSE WalkStep(s, f[n-1])
  <2>1. TAKE n \in 0..N
  <2>2. CASE n = 0
    BY <1>6, <2>2 DEF Unfolds
  <2>3. CASE n # 0
    <3>1. n \in 1..N /\ n-1 \in 0..N
      BY <1>1, <2>3
    <3>2. f[n-1] \in Seq(Entries)
      BY <1>2, <1>6, <3>1
    <3>3. f[n] = g[n][f[n-1]]
      BY <1>6, <3>1 DEF Unfolds
    <3> QED BY <1>3, <2>3, <3>1, <3>2, <3>3
  <2> QED BY <2>2, <2>3
<1>8. IsWalk(f, s, from)
  <2>1. f = [n \in 0..N |-> IF n = 0 THEN b ELSE WalkStep(s, f[n-1])]
    BY <1>6, <1>7
  <2> QED BY <2>1 DEF IsWalk, b
<1> QED BY <1>8 DEF Walk

LEMMA BranchType ==
  ASSUME NEW s \in Seq(Entries), NEW from
  PROVE  GetBranch(s, from) \in Seq(Entries)
<1> DEFINE N == Len(s)
           F == [n \in 0..N |-> Seq(Entries)]
           f == Walk(s, from)
<1>1. N \in Nat
  BY LenProperties
<1>2. \A n \in 0..N : F[n] = Seq(Entries)
  OBVIOUS
<1>3. IsWalk(f, s, from)
  BY WalkExists
<1> HIDE DEF f, F
<1>4. \A n \in 0..N : f[n] = IF n = 0 THEN WalkStart(s, from) ELSE WalkStep(s, f[n-1])
  BY <1>3 DEF IsWalk
<1>5. f[0] \in F[0]
  BY <1>1, <1>2, <1>4, WalkTypes
<1>6. ASSUME NEW n \in 1..N, f[n-1] \in F[n-1] PROVE f[n] \in F[n]
  <2>1. n \in 0..N /\ n-1 \in 0..N /\ n # 0
    BY <1>1
  <2>2. f[n-1] \in Seq(Entries) /\ f[n] = WalkStep(s, f[n-1])
    BY <1>2, <1>4, <1>6, <2>1
  <2> QED BY <1>2, <2>1, <2>2, WalkTypes
<1>7. \A n \in 0..N : f[n] \in F[n]
  BY <1>1, <1>5, <1>6, StaysIn
<1>8. f[N] \in Seq(Entries)
  BY <1>1, <1>2, <1>7
<1> QED BY <1>8, BranchIsWalk DEF f

(* The entries of a fork before its new labels: none is a label.             *)
LEMMA PathType ==
  ASSUME NEW s \in Seq(Entries), NEW from
  PROVE  /\ WithoutLabels(GetBranch(s, from)) \in Seq(Entries)
         /\ \A i \in 1..Len(WithoutLabels(GetBranch(s, from))) :
              WithoutLabels(GetBranch(s, from))[i].kind # "label"
<1> DEFINE b == GetBranch(s, from)
           kept == {e \in Elements(b) : e.kind # "label"}
<1>1. b \in Seq(Entries)
  BY BranchType
<1>2. Only(b, kept) \in Seq(Entries \cap kept)
  BY <1>1, OnlyKept
<1>3. Only(b, kept) = WithoutLabels(b)
  BY DEF WithoutLabels
<1> HIDE DEF b
<1>4. \A e \in Entries \cap kept : e \in Entries /\ e.kind # "label"
  OBVIOUS
<1> HIDE DEF kept
<1>5. Only(b, kept) \in Seq(Entries)
  BY <1>2, <1>4
<1>6. \A i \in 1..Len(Only(b, kept)) : Only(b, kept)[i] \in Entries \cap kept
  BY <1>2, ElementOfSeq
<1> QED BY <1>3, <1>4, <1>5, <1>6 DEF b

-----------------------------------------------------------------------------
(* The new label entries of a fork.                                          *)

LabelTypes ==
  /\ made \in Nat
  /\ DOMAIN labelsById \subseteq Nat
  /\ \A t \in DOMAIN labelsById : labelsById[t] \in LabelTexts \ {Unlabelled}

Labelled(path) == {i \in DOMAIN labelsById : \E e \in Elements(path) : e.id = i}
Done(d) == {e.target : e \in Elements(d)}
Least(path, d) ==
  CHOOSE t \in Labelled(path) \ Done(d) : \A u \in Labelled(path) \ Done(d) : t <= u
LabelStep(path, d, n) ==
  Append(d, [id |-> made + n, parent |-> LeafOf(path \o d), kind |-> "label",
             target |-> Least(path, d), text |-> labelsById[Least(path, d)]])
IsNth(f, path) ==
  f = [n \in 0..Cardinality(Labelled(path)) |->
         IF n = 0 THEN <<>> ELSE LabelStep(path, f[n-1], n)]
Nth(path) == CHOOSE f : IsNth(f, path)

LEMMA LabelEntriesAreNth ==
  ASSUME NEW path
  PROVE  LabelEntries(path) = Nth(path)[Cardinality(Labelled(path))]
BY DEF LabelEntries, Nth, IsNth, LabelStep, Least, Done, Labelled

LEMMA LabelledFinite ==
  ASSUME NEW path \in Seq(Entries)
  PROVE  IsFiniteSet(Labelled(path)) /\ Cardinality(Labelled(path)) \in Nat
<1> DEFINE N == Len(path)
           I == {path[i].id : i \in 1..N}
           f == [i \in 1..N |-> path[i].id]
<1>1. N \in Nat
  BY LenProperties
<1>2. IsFiniteSet(1..N)
  BY <1>1, FS_Interval
<1>3. f \in Surjection(1..N, I)
  BY DEF Surjection
<1>4. IsFiniteSet(I)
  BY <1>2, <1>3, FS_Surjection
<1>5. Labelled(path) \subseteq I
  BY DEF Labelled, Elements
<1>6. IsFiniteSet(Labelled(path))
  BY <1>4, <1>5, FS_Subset
<1> QED BY <1>6, FS_CardinalityType

LEMMA ElementsAppended ==
  ASSUME NEW S, NEW s \in Seq(S), NEW e \in S
  PROVE  Elements(Append(s, e)) = Elements(s) \cup {e}
<1>1. /\ Len(s) \in Nat /\ Len(Append(s, e)) = Len(s) + 1
      /\ Append(s, e)[Len(s) + 1] = e
      /\ \A i \in 1..Len(s) : Append(s, e)[i] = s[i]
  BY LenProperties, AppendProperties
<1>2. 1..(Len(s) + 1) = 1..Len(s) \cup {Len(s) + 1}
  BY <1>1
<1> QED BY <1>1, <1>2 DEF Elements

LEMMA LeafType == ASSUME NEW s \in Seq(Entries) PROVE LeafOf(s) \in Nat
<1>1. s = <<>> => LeafOf(s) = 0
  BY DEF LeafOf, Root
<1>2. ASSUME s # <<>> PROVE LeafOf(s) \in Nat
  <2>1. Len(s) \in 1..Len(s)
    BY <1>2, LenProperties, EmptySeq
  <2>2. s[Len(s)].id \in Nat
    BY <2>1, EntryFields
  <2> QED BY <1>2, <2>2 DEF LeafOf
<1> QED BY <1>1, <1>2

(* n label entries for n labelled entries of the path.                       *)
Partial(path, n) ==
  {d \in Seq(Entries) :
     /\ Len(d) = n
     /\ \A e \in Elements(d) : /\ e.kind = "label" /\ e.target \in Labelled(path)
                               /\ e.text = labelsById[e.target]
     /\ IsFiniteSet(Done(d)) /\ Cardinality(Done(d)) = n}

LEMMA NoneYet == ASSUME NEW path PROVE <<>> \in Partial(path, 0)
<1>1. <<>> \in Seq(Entries) /\ Len(<<>>) = 0
  OBVIOUS
<1>2. Elements(<<>>) = {}
  BY DEF Elements
<1>3. Done(<<>>) = {}
  BY <1>2 DEF Done
<1> QED BY <1>1, <1>2, <1>3, FS_EmptySet DEF Partial

LEMMA OneMore ==
  ASSUME LabelTypes, NEW path \in Seq(Entries),
         NEW n \in 1..Cardinality(Labelled(path)), NEW d \in Partial(path, n-1)
  PROVE  LabelStep(path, d, n) \in Partial(path, n)
<1> DEFINE K == Cardinality(Labelled(path))
           t == Least(path, d)
           e == [id |-> made + n, parent |-> LeafOf(path \o d), kind |-> "label",
                 target |-> t, text |-> labelsById[t]]
<1>1. IsFiniteSet(Labelled(path)) /\ K \in Nat /\ n \in Nat \ {0} /\ n - 1 < K
  BY LabelledFinite
<1>2. /\ d \in Seq(Entries) /\ Len(d) = n - 1
      /\ \A x \in Elements(d) : /\ x.kind = "label" /\ x.target \in Labelled(path)
                                /\ x.text = labelsById[x.target]
      /\ IsFiniteSet(Done(d)) /\ Cardinality(Done(d)) = n - 1
  BY DEF Partial
<1>3. Done(d) \subseteq Labelled(path)
  BY <1>2 DEF Done
<1>4. Labelled(path) \ Done(d) # {}
  <2>1. ASSUME Labelled(path) = Done(d) PROVE FALSE
    BY <1>1, <1>2, <2>1
  <2> QED BY <1>3, <2>1
<1>5. Labelled(path) \subseteq Nat
  BY DEF Labelled, LabelTypes
<1>6. \E u \in Labelled(path) \ Done(d) : \A v \in Labelled(path) \ Done(d) : u <= v
  <2>1. Labelled(path) \ Done(d) \in SUBSET Nat
    BY <1>5
  <2> QED BY <1>4, <2>1, HasMinimum
<1>7. t \in Labelled(path) \ Done(d)
  BY <1>6 DEF Least
<1> HIDE DEF t
<1>8. t \in Nat /\ labelsById[t] \in LabelTexts
  BY <1>5, <1>7 DEF Labelled, LabelTypes
<1>9. e \in Entries
  <2>1. made + n \in Nat \ {0}
    BY <1>1 DEF LabelTypes
  <2>2. LeafOf(path \o d) \in Nat
    BY <1>2, ConcatProperties, LeafType
  <2> QED BY <1>8, <2>1, <2>2 DEF Entries, Kinds, Root
<1>10. e.kind = "label" /\ e.target = t /\ e.text = labelsById[t]
  OBVIOUS
<1> HIDE DEF e
<1>11. /\ Append(d, e) \in Seq(Entries) /\ Len(Append(d, e)) = n
       /\ Elements(Append(d, e)) = Elements(d) \cup {e}
  BY <1>1, <1>2, <1>9, AppendProperties, ElementsAppended
<1>12. Done(Append(d, e)) = Done(d) \cup {t}
  BY <1>10, <1>11 DEF Done
<1>13. IsFiniteSet(Done(d) \cup {t}) /\ Cardinality(Done(d) \cup {t}) = n
  <2>1. IsFiniteSet(Done(d)) /\ t \notin Done(d)
    BY <1>2, <1>7
  <2>2. /\ IsFiniteSet(Done(d) \cup {t})
        /\ Cardinality(Done(d) \cup {t}) = Cardinality(Done(d)) + 1
    BY <2>1, FS_AddElement
  <2> QED BY <1>1, <1>2, <2>2
<1>14. \A x \in Elements(Append(d, e)) : /\ x.kind = "label" /\ x.target \in Labelled(path)
                                        /\ x.text = labelsById[x.target]
  BY <1>2, <1>7, <1>10, <1>11
<1>15. Append(d, e) \in Partial(path, n)
  BY <1>11, <1>12, <1>13, <1>14 DEF Partial
<1> QED BY <1>15 DEF LabelStep, e, t

LEMMA NthExists ==
  ASSUME LabelTypes, NEW path \in Seq(Entries)
  PROVE  IsNth(Nth(path), path)
<1> DEFINE K == Cardinality(Labelled(path))
           F == [n \in 0..K |-> Partial(path, n)]
           g == [n \in 1..K |-> [d \in Partial(path, n-1) |-> LabelStep(path, d, n)]]
<1>1. K \in Nat
  BY LabelledFinite
<1>2. \A n \in 0..K : F[n] = Partial(path, n)
  OBVIOUS
<1>3. \A n \in 1..K : \A d \in Partial(path, n-1) : g[n][d] = LabelStep(path, d, n)
  OBVIOUS
<1>4. <<>> \in F[0]
  BY <1>1, NoneYet
<1> HIDE DEF F, g
<1>5. \A n \in 1..K : \A d \in F[n-1] : g[n][d] \in F[n]
  <2>1. TAKE n \in 1..K
  <2>2. F[n-1] = Partial(path, n-1) /\ F[n] = Partial(path, n)
    BY <1>1, <1>2
  <2> QED BY <1>3, <2>2, OneMore
<1>6. PICK f : /\ f = [n \in 0..K |-> f[n]]
               /\ \A n \in 0..K : f[n] \in F[n]
               /\ Unfolds(f, <<>>, g, K)
  BY <1>1, <1>4, <1>5, Recursion
<1>7. \A n \in 0..K : f[n] = IF n = 0 THEN <<>> ELSE LabelStep(path, f[n-1], n)
  <2>1. TAKE n \in 0..K
  <2>2. CASE n = 0
    BY <1>6, <2>2 DEF Unfolds
  <2>3. CASE n # 0
    <3>1. n \in 1..K /\ n-1 \in 0..K
      BY <1>1, <2>3
    <3>2. f[n-1] \in Partial(path, n-1)
      BY <1>2, <1>6, <3>1
    <3>3. f[n] = g[n][f[n-1]]
      BY <1>6, <3>1 DEF Unfolds
    <3> QED BY <1>3, <2>3, <3>1, <3>2, <3>3
  <2> QED BY <2>2, <2>3
<1>8. IsNth(f, path)
  <2>1. f = [n \in 0..K |-> IF n = 0 THEN <<>> ELSE LabelStep(path, f[n-1], n)]
    BY <1>6, <1>7
  <2> QED BY <2>1 DEF IsNth
<1> QED BY <1>8 DEF Nth

(* LabelEntries(path) has one entry for each labelled entry of the path.     *)
LEMMA LabelEntriesType ==
  ASSUME LabelTypes, NEW path \in Seq(Entries)
  PROVE  /\ LabelEntries(path) \in Partial(path, Cardinality(Labelled(path)))
         /\ Done(LabelEntries(path)) = Labelled(path)
<1> DEFINE K == Cardinality(Labelled(path))
           F == [n \in 0..K |-> Partial(path, n)]
           f == Nth(path)
           d == LabelEntries(path)
<1>1. K \in Nat
  BY LabelledFinite
<1>2. \A n \in 0..K : F[n] = Partial(path, n)
  OBVIOUS
<1>3. IsNth(f, path)
  BY NthExists
<1>4. d = f[K]
  BY LabelEntriesAreNth
<1> HIDE DEF f, F, d
<1>5. \A n \in 0..K : f[n] = IF n = 0 THEN <<>> ELSE LabelStep(path, f[n-1], n)
  BY <1>3 DEF IsNth
<1>6. f[0] \in F[0]
  BY <1>1, <1>2, <1>5, NoneYet
<1>7. ASSUME NEW n \in 1..K, f[n-1] \in F[n-1] PROVE f[n] \in F[n]
  <2>1. n \in 0..K /\ n-1 \in 0..K /\ n # 0
    BY <1>1
  <2>2. f[n-1] \in Partial(path, n-1) /\ f[n] = LabelStep(path, f[n-1], n)
    BY <1>2, <1>5, <1>7, <2>1
  <2>3. f[n] \in Partial(path, n)
    BY <2>2, OneMore
  <2> QED BY <1>2, <2>1, <2>3
<1>8. \A n \in 0..K : f[n] \in F[n]
  BY <1>1, <1>6, <1>7, StaysIn
<1>9. d \in Partial(path, K)
  BY <1>1, <1>2, <1>4, <1>8
<1>10. Done(d) \subseteq Labelled(path) /\ Cardinality(Done(d)) = K
  BY <1>9 DEF Partial, Done
<1>11. Done(d) = Labelled(path)
  BY <1>10, LabelledFinite, FS_Subset
<1> QED BY <1>9, <1>11 DEF d

(* The labels of a fork are those of the entries it took along.              *)
LEMMA ForkedLabels ==
  ASSUME LabelTypes, fileEntries \in Seq(Entries), NEW target
  PROVE  /\ Forked(target) \in Seq(Entries)
         /\ Len(Forked(target)) - Len(WithoutLabels(GetBranch(fileEntries, target))) \in Nat
         /\ LabelsOf(Forked(target)) =
              [t \in Labelled(WithoutLabels(GetBranch(fileEntries, target))) |-> labelsById[t]]
<1> DEFINE path == WithoutLabels(GetBranch(fileEntries, target))
           new == LabelEntries(path)
           s == path \o new
           N == Len(path)
<1>1. path \in Seq(Entries) /\ N \in Nat /\ \A i \in 1..N : path[i].kind # "label"
  BY PathType, LenProperties
<1>2. s = Forked(target)
  BY DEF Forked
<1> HIDE DEF path
<1>3. new \in Partial(path, Cardinality(Labelled(path))) /\ Done(new) = Labelled(path)
  BY <1>1, LabelEntriesType
<1> HIDE DEF new
<1>4. /\ new \in Seq(Entries) /\ Len(new) \in Nat
      /\ \A e \in Elements(new) : /\ e.kind = "label" /\ e.target \in Labelled(path)
                                  /\ e.text = labelsById[e.target]
  BY <1>3, LenProperties DEF Partial
<1>5. /\ s \in Seq(Entries) /\ Len(s) = N + Len(new)
      /\ \A i \in 1..(N + Len(new)) : s[i] = IF i <= N THEN path[i] ELSE new[i - N]
  BY <1>1, <1>4, ConcatProperties
<1> HIDE DEF s, N
<1>6. ASSUME NEW t, NEW k, LastSets(s, t, k)
      PROVE  t \in Labelled(path) /\ s[k].text = labelsById[t] /\ labelsById[t] # Unlabelled
  <2>1. k \in 1..(N + Len(new)) /\ s[k].kind = "label" /\ s[k].target = t
    BY <1>5, <1>6 DEF LastSets, Sets
  <2>2. ~(k <= N)
    BY <1>1, <1>5, <2>1 DEF N
  <2>3. k - N \in 1..Len(new) /\ s[k] = new[k - N]
    BY <1>1, <1>4, <1>5, <2>1, <2>2
  <2>4. new[k - N] \in Elements(new)
    BY <2>3 DEF Elements
  <2>5. t \in Labelled(path) /\ s[k].text = labelsById[t]
    BY <1>4, <2>1, <2>3, <2>4
  <2> QED BY <2>5 DEF LabelTypes, Labelled
<1>7. ASSUME NEW t \in Labelled(path) PROVE \E k : LastSets(s, t, k)
  <2>1. PICK i \in 1..Len(new) : new[i].target = t
    BY <1>3 DEF Done, Elements
  <2>2. new[i].kind = "label"
    BY <1>4 DEF Elements
  <2>3. N + i \in 1..Len(s) /\ s[N + i] = new[i]
    <3>1. N + i \in 1..(N + Len(new)) /\ ~(N + i <= N) /\ (N + i) - N = i
      BY <1>1, <1>4
    <3> QED BY <1>5, <3>1
  <2>4. Sets(s, t, N + i)
    BY <2>1, <2>2, <2>3 DEF Sets
  <2> QED BY <1>5, <2>3, <2>4, LastSetter
<1>8. \A t : t \in DOMAIN LabelsOf(s) <=> t \in Labelled(path)
  BY <1>5, <1>6, <1>7, LabelsAre
<1>9. DOMAIN LabelsOf(s) = Labelled(path)
  <2>1. DOMAIN LabelsOf(s) \subseteq Labelled(path)
    BY <1>8
  <2>2. Labelled(path) \subseteq DOMAIN LabelsOf(s)
    BY <1>8
  <2> QED BY <2>1, <2>2
<1>10. ASSUME NEW t \in Labelled(path) PROVE LabelsOf(s)[t] = labelsById[t]
  <2>1. PICK k : LastSets(s, t, k)
    BY <1>7
  <2>2. s[k].text = labelsById[t] /\ labelsById[t] # Unlabelled
    BY <1>6, <2>1
  <2> QED BY <1>5, <2>1, <2>2, LabelsAre
<1>11. LabelsOf(s) = [t \in DOMAIN LabelsOf(s) |-> LabelsOf(s)[t]]
  BY LabelsForm
<1>12. LabelsOf(s) = [t \in Labelled(path) |-> labelsById[t]]
  BY <1>9, <1>10, <1>11
<1>13. Len(s) - N \in Nat
  BY <1>1, <1>4, <1>5
<1> QED BY <1>2, <1>5, <1>12, <1>13 DEF path, N

-----------------------------------------------------------------------------
(* Files.                                                                    *)

Line       == Entries \cup {Header, Junk}
FileStates == [exists : BOOLEAN, lines : Seq(Line), piece : BOOLEAN]

(* What holds of every session file: one that was never opened is empty, and *)
(* a header is in front.                                                     *)
FileSound(f) ==
  /\ f \in FileStates
  /\ ~f.exists => f = NoFile
  /\ \A i \in 1..Len(f.lines) : f.lines[i] = Header => i = 1

(* What holds of it as long as no fork has failed.                           *)
Headed(f) == f.lines # <<>> => f.lines[1] = Header

LEMMA LineKinds ==
  /\ Header # Junk /\ Header \notin Entries /\ Junk \notin Entries
  /\ Header \in Line /\ Junk \in Line /\ Entries \subseteq Line
<1>1. Header.kind = "header" /\ Junk.kind = "junk" /\ Header.id = 0 /\ Junk.id = 0
  BY DEF Header, Junk, Mark, Root
<1>2. \A e \in Entries : e.id # 0
  BY DEF Entries, Root
<1> QED BY <1>1, <1>2 DEF Line

LEMMA NoFileSound == FileSound(NoFile) /\ Headed(NoFile)
<1>1. NoFile.lines = <<>> /\ NoFile.exists = FALSE /\ NoFile.piece = FALSE
  BY DEF NoFile
<1>2. NoFile \in FileStates
  BY DEF NoFile, FileStates
<1> QED BY <1>1, <1>2 DEF FileSound, Headed

LEMMA ContentsAre ==
  ASSUME NEW s \in Seq(Entries)
  PROVE  /\ Contents(s) \in Seq(Line) /\ Len(s) \in Nat /\ Len(Contents(s)) = Len(s) + 1
         /\ Contents(s)[1] = Header
         /\ \A i \in 1..Len(s) : Contents(s)[i+1] = s[i] /\ s[i] \in Entries
<1>1. s \in Seq(Line) /\ Len(s) \in Nat
  BY LineKinds, SeqMonotonic, LenProperties
<1>2. <<Header>> \in Seq(Line) /\ Len(<<Header>>) = 1 /\ <<Header>>[1] = Header
  BY LineKinds
<1>3. /\ Contents(s) \in Seq(Line) /\ Len(Contents(s)) = 1 + Len(s)
      /\ \A i \in 1..(1 + Len(s)) : Contents(s)[i] = IF i <= 1 THEN <<Header>>[i] ELSE s[i - 1]
  BY <1>1, <1>2, ConcatProperties DEF Contents
<1>4. Contents(s)[1] = Header
  BY <1>1, <1>2, <1>3
<1>5. \A i \in 1..Len(s) : Contents(s)[i+1] = s[i]
  BY <1>1, <1>3
<1> QED BY <1>1, <1>3, <1>4, <1>5, ElementOfSeq

LEMMA WholeFields ==
  ASSUME NEW s, NEW n
  PROVE  /\ TornFile(s, n) = [exists |-> TRUE, lines |-> SubSeq(Contents(s), 1, n), piece |-> TRUE]
         /\ WholeFile(s, n) = [exists |-> TRUE, lines |-> SubSeq(Contents(s), 1, n), piece |-> FALSE]
<1> DEFINE c == SubSeq(Contents(s), 1, n)
           w == [exists |-> TRUE, lines |-> c, piece |-> FALSE]
           r == [w EXCEPT !.piece = TRUE]
<1>1. WholeFile(s, n) = w
  BY DEF WholeFile
<1>2. TornFile(s, n) = r
  BY <1>1 DEF TornFile
<1> HIDE DEF c
<1>3. /\ r \in [exists : BOOLEAN, lines : {c}, piece : BOOLEAN]
      /\ r.exists = TRUE /\ r.lines = c /\ r.piece = TRUE
  OBVIOUS
<1> HIDE DEF r
<1>4. r = [exists |-> r.exists, lines |-> r.lines, piece |-> r.piece]
  BY <1>3
<1> QED BY <1>1, <1>2, <1>3, <1>4 DEF c

LEMMA WrittenLines ==
  ASSUME NEW s \in Seq(Entries), NEW n \in 0..(Len(s) + 1), NEW f,
         NEW p \in BOOLEAN,
         f = [exists |-> TRUE, lines |-> SubSeq(Contents(s), 1, n), piece |-> p]
  PROVE  FileSound(f) /\ Headed(f)
<1> DEFINE c == SubSeq(Contents(s), 1, n)
<1>1. /\ Contents(s) \in Seq(Line) /\ Len(s) \in Nat /\ Len(Contents(s)) = Len(s) + 1
      /\ Contents(s)[1] = Header
      /\ \A i \in 1..Len(s) : Contents(s)[i+1] = s[i] /\ s[i] \in Entries
  BY ContentsAre
<1>2. n \in Int /\ 1 \in Int /\ \A i \in 1..n : Contents(s)[i] \in Line
  BY <1>1, ElementOfSeq
<1>3. /\ c \in Seq(Line) /\ Len(c) = (IF 1 <= n THEN n - 1 + 1 ELSE 0)
      /\ \A i \in 1..(n - 1 + 1) : c[i] = Contents(s)[1 + i - 1]
  BY <1>2, SubSeqProperties
<1>4. Len(c) = n /\ \A i \in 1..n : c[i] = Contents(s)[i]
  BY <1>2, <1>3
<1> HIDE DEF c
<1>5. \A i \in 1..n : c[i] = Header => i = 1
  <2>1. TAKE i \in 1..n
  <2>2. ASSUME i # 1 PROVE c[i] # Header
    <3>1. i - 1 \in 1..Len(s) /\ (i - 1) + 1 = i
      BY <1>1, <2>2
    <3>2. c[i] \in Entries
      BY <1>1, <1>4, <3>1
    <3> QED BY <3>2, LineKinds
  <2> QED BY <2>2
<1>6. c # <<>> => c[1] = Header
  BY <1>1, <1>3, <1>4, EmptySeq
<1>7. f.exists = TRUE /\ f.lines = c /\ f \in FileStates
  BY <1>3 DEF c, FileStates
<1> QED BY <1>4, <1>5, <1>6, <1>7 DEF FileSound, Headed

(* What writing a whole file leaves.                                         *)
LEMMA RewritesAre ==
  ASSUME NEW s \in Seq(Entries), NEW f \in Rewrites(s)
  PROVE  /\ FileSound(f) /\ Headed(f) /\ f.exists /\ f.piece \in BOOLEAN
         /\ ~f.piece => f = WholeFile(s, Len(s) + 1) /\ f.lines = Contents(s) /\ f.lines # <<>>
<1>1. Len(s) \in Nat /\ Contents(s) \in Seq(Line) /\ Len(Contents(s)) = Len(s) + 1
  BY ContentsAre
<1>2. CASE f = WholeFile(s, Len(s) + 1)
  <2>1. f = [exists |-> TRUE, lines |-> SubSeq(Contents(s), 1, Len(s) + 1), piece |-> FALSE]
    BY <1>2, WholeFields
  <2>2. FileSound(f) /\ Headed(f)
    <3>1. Len(s) + 1 \in 0..(Len(s) + 1) /\ FALSE \in BOOLEAN
      BY <1>1
    <3> QED BY <2>1, <3>1, WrittenLines
  <2>3. SubSeq(Contents(s), 1, Len(s) + 1) = Contents(s)
    BY <1>1, SubSeqFull
  <2>4. f.exists = TRUE /\ f.piece = FALSE /\ f.lines = Contents(s)
    BY <2>1, <2>3
  <2>5. Contents(s) # <<>>
    BY <1>1
  <2> QED BY <1>2, <2>2, <2>4, <2>5
<1>3. ASSUME NEW n \in 0..Len(s), f = TornFile(s, n)
      PROVE  FileSound(f) /\ Headed(f) /\ f.exists /\ f.piece = TRUE
  <2>1. n \in 0..(Len(s) + 1)
    BY <1>1
  <2>2. f = [exists |-> TRUE, lines |-> SubSeq(Contents(s), 1, n), piece |-> TRUE]
    BY <1>3, WholeFields
  <2>3. FileSound(f) /\ Headed(f)
    BY <2>1, <2>2, WrittenLines
  <2> QED BY <2>2, <2>3
<1>4. f = WholeFile(s, Len(s) + 1) \/ \E n \in 0..Len(s) : f = TornFile(s, n)
  BY DEF Rewrites
<1> QED BY <1>2, <1>3, <1>4

(* What appending a line does to a file.                                     *)
LEMMA AppendsAre ==
  ASSUME NEW f, FileSound(f), NEW e \in Entries, NEW o \in Outcomes
  PROVE  LET g == AppendLine(f, e, o) IN
         /\ FileSound(g) /\ g.lines \in Seq(Line)
         /\ Len(g.lines) >= Len(f.lines)
         /\ SubSeq(g.lines, 1, Len(f.lines)) = f.lines
         /\ f.lines # <<>> => g.lines # <<>> /\ g.lines[1] = f.lines[1]
         /\ o = "done" /\ ~f.piece =>
              g = [exists |-> TRUE, lines |-> Append(f.lines, e), piece |-> FALSE]
<1> DEFINE N == Len(f.lines)
           g == AppendLine(f, e, o)
<1>1. /\ f \in [exists : BOOLEAN, lines : Seq(Line), piece : BOOLEAN]
      /\ f.exists \in BOOLEAN /\ f.piece \in BOOLEAN
      /\ f.lines \in Seq(Line) /\ N \in Nat /\ f.piece => f.exists
      /\ \A i \in 1..N : f.lines[i] = Header => i = 1
  <2>1. NoFile.piece = FALSE
    BY DEF NoFile
  <2> QED BY <2>1, LenProperties DEF FileSound, FileStates
<1>2. N # 0 \/ f.lines = <<>>
  BY <1>1, EmptySeq
<1>3. SubSeq(f.lines, 1, N) = f.lines
  BY <1>1, SubSeqFull
<1>4. ASSUME NEW l \in Line, l # Header \/ N = 0
      PROVE  /\ Append(f.lines, l) \in Seq(Line) /\ Len(Append(f.lines, l)) = N + 1
             /\ \A i \in 1..N : Append(f.lines, l)[i] = f.lines[i]
             /\ \A i \in 1..(N+1) : Append(f.lines, l)[i] = Header => i = 1
             /\ SubSeq(Append(f.lines, l), 1, N) = f.lines
  <2>1. /\ Append(f.lines, l) \in Seq(Line) /\ Len(Append(f.lines, l)) = N + 1
        /\ \A i \in 1..N : Append(f.lines, l)[i] = f.lines[i]
        /\ Append(f.lines, l)[N+1] = l
    BY <1>1, AppendProperties
  <2>2. \A i \in 1..(N+1) : Append(f.lines, l)[i] = Header => i = 1
    <3>1. \A i \in 1..(N+1) : i \in 1..N \/ i = N+1
      BY <1>1
    <3> QED BY <1>1, <1>4, <2>1, <3>1
  <2>3. SubSeq(Append(f.lines, l), 1, N) = f.lines
    <3> DEFINE a == Append(f.lines, l)
               c == SubSeq(a, 1, N)
    <3>1. \A i \in 1..N : a[i] \in Line
      BY <1>1, <2>1, ElementOfSeq
    <3> HIDE DEF a
    <3>2. /\ c \in Seq(Line) /\ Len(c) = (IF 1 <= N THEN N - 1 + 1 ELSE 0)
          /\ \A i \in 1..(N - 1 + 1) : c[i] = a[1 + i - 1]
      BY <1>1, <3>1, SubSeqProperties
    <3>3. Len(c) = N /\ \A i \in 1..N : c[i] = a[i]
      BY <1>1, <3>2
    <3> HIDE DEF c, N
    <3>4. \A i \in 1..Len(c) : c[i] = f.lines[i]
      BY <2>1, <3>3 DEF a, N
    <3>5. c = f.lines
      BY <1>1, <3>2, <3>3, <3>4, SeqEqual DEF N
    <3> QED BY <3>5 DEF c, a
  <2> QED BY <2>1, <2>2, <2>3
<1>5. o \in {"done", "failed", "torn"}
  BY DEF Outcomes
<1>6. CASE o = "done" /\ f.piece
  <2>1. g = [[f EXCEPT !.lines = Append(f.lines, Junk)] EXCEPT !.piece = FALSE]
    BY <1>6 DEF AppendLine
  <2>2. Append(f.lines, Junk) \in Seq(Line)
    BY <1>4, LineKinds
  <2>3. g \in FileStates /\ g.lines = Append(f.lines, Junk) /\ g.exists = TRUE
    <3>1. f.exists = TRUE
      BY <1>1, <1>6
    <3>2. g \in FileStates
      BY <1>1, <2>1, <2>2 DEF FileStates
    <3>3. g.lines = Append(f.lines, Junk) /\ g.exists = f.exists
      BY <1>1, <2>1
    <3> QED BY <3>1, <3>2, <3>3
  <2> HIDE DEF g
  <2>4. FileSound(g)
    BY <1>4, <2>3, LineKinds DEF FileSound
  <2>5. Len(g.lines) >= N /\ SubSeq(g.lines, 1, N) = f.lines
    BY <1>1, <1>4, <2>3, LineKinds
  <2>6. f.lines # <<>> => g.lines # <<>> /\ g.lines[1] = f.lines[1]
    BY <1>1, <1>2, <1>4, <2>3, LineKinds
  <2> QED BY <1>6, <2>2, <2>3, <2>4, <2>5, <2>6 DEF g
<1>7. CASE o = "done" /\ ~f.piece
  <2>1. g = [[f EXCEPT !.lines = Append(f.lines, e)] EXCEPT !.exists = TRUE]
    BY <1>7 DEF AppendLine
  <2>2. e \in Line /\ e # Header
    BY LineKinds
  <2>3. Append(f.lines, e) \in Seq(Line)
    BY <1>4, <2>2
  <2>4. g \in FileStates /\ g.lines = Append(f.lines, e) /\ g.exists = TRUE /\ g.piece = FALSE
    BY <1>1, <1>7, <2>1, <2>3 DEF FileStates
  <2> HIDE DEF g
  <2>5. FileSound(g)
    BY <1>4, <2>2, <2>4 DEF FileSound
  <2>6. Len(g.lines) >= N /\ SubSeq(g.lines, 1, N) = f.lines
    BY <1>1, <1>4, <2>2, <2>4
  <2>7. f.lines # <<>> => g.lines # <<>> /\ g.lines[1] = f.lines[1]
    BY <1>1, <1>2, <1>4, <2>2, <2>4
  <2>8. g = [exists |-> TRUE, lines |-> Append(f.lines, e), piece |-> FALSE]
    BY <2>4 DEF FileStates
  <2> QED BY <2>3, <2>4, <2>5, <2>6, <2>7, <2>8 DEF g
<1>8. CASE o = "torn"
  <2>1. g = [[f EXCEPT !.piece = TRUE] EXCEPT !.exists = TRUE]
    BY <1>8 DEF AppendLine
  <2>2. g \in FileStates /\ g.lines = f.lines /\ g.exists = TRUE
    BY <1>1, <2>1 DEF FileStates
  <2> HIDE DEF g
  <2>3. FileSound(g)
    BY <1>1, <2>2 DEF FileSound
  <2> QED BY <1>1, <1>3, <1>8, <2>2, <2>3 DEF g
<1>9. CASE o = "failed"
  <2>1. g = f
    BY <1>9 DEF AppendLine
  <2> HIDE DEF g
  <2> QED BY <1>1, <1>3, <1>9, <2>1 DEF g
<1> HIDE DEF g
<1>10. /\ FileSound(g) /\ g.lines \in Seq(Line)
       /\ Len(g.lines) >= N
       /\ SubSeq(g.lines, 1, N) = f.lines
       /\ f.lines # <<>> => g.lines # <<>> /\ g.lines[1] = f.lines[1]
       /\ o = "done" /\ ~f.piece =>
            g = [exists |-> TRUE, lines |-> Append(f.lines, e), piece |-> FALSE]
  BY <1>5, <1>6, <1>7, <1>8, <1>9 DEF g
<1> QED BY <1>10 DEF g

-----------------------------------------------------------------------------
(* Loading.                                                                  *)

LEMMA LoadedType ==
  ASSUME NEW f, f.lines \in Seq(Line)
  PROVE  LoadedFrom(f) \in Seq(Entries)
<1> DEFINE kept == Elements(f.lines) \ {Header, Junk}
<1>1. Only(f.lines, kept) \in Seq(Line \cap kept)
  BY OnlyKept
<1>2. Line \cap kept \subseteq Entries
  BY DEF Line
<1> HIDE DEF kept
<1>3. Only(f.lines, kept) \in Seq(Entries)
  BY <1>1, <1>2, SeqMonotonic
<1> QED BY <1>3 DEF LoadedFrom, kept

LEMMA LoadedOf ==
  ASSUME NEW f, NEW s \in Seq(Entries), f.lines = Contents(s)
  PROVE  LoadedFrom(f) = s
<1> DEFINE kept == Elements(f.lines) \ {Header, Junk}
<1>1. s \in Seq(Line) /\ Header \in Line /\ Header \notin kept
  BY LineKinds, SeqMonotonic
<1>2. \A i \in 1..Len(s) : s[i] \in kept
  <2>1. TAKE i \in 1..Len(s)
  <2>2. s[i] \in Entries /\ Contents(s)[i+1] = s[i] /\ i+1 \in 1..Len(Contents(s))
    BY ContentsAre
  <2>3. s[i] \in Elements(f.lines)
    BY <2>2 DEF Elements
  <2> QED BY <2>2, <2>3, LineKinds
<1> HIDE DEF kept
<1>3. Only(<<Header>> \o s, kept) = s
  BY <1>1, <1>2, OnlyTail
<1> QED BY <1>3 DEF LoadedFrom, kept, Contents

LEMMA HeaderSeen ==
  ASSUME NEW f, HasHeader(f)
  PROVE  f.lines # <<>>
<1>1. ASSUME f.lines = <<>> PROVE FALSE
  <2>1. Parsed(f) = <<>>
    BY <1>1, OnlyEmpty DEF Parsed
  <2> QED BY <2>1 DEF HasHeader
<1> QED BY <1>1

(* A file without junk is what its entries would be written as.              *)
LEMMA CleanFile ==
  ASSUME NEW f, FileSound(f), f.exists, HasHeader(f), ~f.piece, Junk \notin Elements(f.lines)
  PROVE  f = WholeFile(LoadedFrom(f), Len(LoadedFrom(f)) + 1)
<1> DEFINE l == f.lines
           t == Tail(l)
<1>1. /\ f \in [exists : BOOLEAN, lines : Seq(Line), piece : BOOLEAN]
      /\ l \in Seq(Line) /\ l # <<>> /\ \A i \in 1..Len(l) : l[i] = Header => i = 1
  BY HeaderSeen DEF FileSound, FileStates
<1>2. Len(l) \in Nat \ {0} /\ \A i \in 1..Len(l) : l[i] \in Line /\ l[i] \in Elements(l)
  BY <1>1, EmptySeq, ElementOfSeq DEF Elements
<1>3. l[1] = Header
  <2>1. \A i \in 1..Len(l) : l[i] \in Elements(l) \ {Junk}
    BY <1>2
  <2>2. Only(l, Elements(l) \ {Junk}) = l
    BY <1>1, <2>1, OnlyAll
  <2> QED BY <2>2 DEF HasHeader, Parsed
<1>4. t \in Seq(Line) /\ Len(t) = Len(l) - 1 /\ \A i \in 1..Len(t) : t[i] = l[i+1]
  BY <1>1, HeadTailProperties
<1> HIDE DEF t
<1>5. \A i \in 1..Len(t) : t[i] \in Entries
  <2>1. TAKE i \in 1..Len(t)
  <2>2. i+1 \in 1..Len(l) /\ i+1 # 1
    BY <1>2, <1>4
  <2>3. l[i+1] \in Line /\ l[i+1] # Header /\ l[i+1] # Junk
    BY <1>1, <1>2, <2>2
  <2> QED BY <1>4, <2>3 DEF Line
<1>6. t \in Seq(Entries)
  <2>1. Len(t) \in Nat /\ t \in [1..Len(t) -> Line]
    BY <1>4, LenProperties
  <2>2. t \in [1..Len(t) -> Entries]
    BY <1>5, <2>1
  <2> QED BY <2>1, <2>2, SeqDef
<1>7. l = Contents(t)
  <2>1. /\ Contents(t) \in Seq(Line) /\ Len(Contents(t)) = Len(t) + 1
        /\ Contents(t)[1] = Header /\ \A i \in 1..Len(t) : Contents(t)[i+1] = t[i]
    BY <1>6, ContentsAre
  <2>2. Len(Contents(t)) = Len(l)
    BY <1>2, <1>4, <2>1
  <2>3. \A i \in 1..Len(l) : l[i] = Contents(t)[i]
    <3>1. TAKE i \in 1..Len(l)
    <3>2. CASE i = 1
      BY <1>3, <2>1, <3>2
    <3>3. CASE i # 1
      <4>1. i-1 \in 1..Len(t) /\ (i-1)+1 = i
        BY <1>2, <1>4, <3>3
      <4> QED BY <1>4, <2>1, <4>1
    <3> QED BY <3>2, <3>3
  <2> HIDE DEF l
  <2> QED BY <1>1, <2>1, <2>2, <2>3, SeqEqual
<1>8. LoadedFrom(f) = t
  BY <1>6, <1>7, LoadedOf
<1>9. SubSeq(Contents(t), 1, Len(t) + 1) = Contents(t)
  BY <1>6, ContentsAre, SubSeqFull
<1>10. WholeFile(t, Len(t) + 1) = [exists |-> TRUE, lines |-> l, piece |-> FALSE]
  BY <1>7, <1>9, WholeFields
<1>11. f = [exists |-> f.exists, lines |-> f.lines, piece |-> f.piece]
  BY <1>1
<1>12. f.exists = TRUE /\ f.piece = FALSE
  BY <1>1
<1> QED BY <1>8, <1>10, <1>11, <1>12

-----------------------------------------------------------------------------
(* The inductive invariant.                                                  *)

MemoryTypes ==
  /\ opened \in BOOLEAN /\ flushed \in BOOLEAN /\ damaged \in BOOLEAN /\ headless \in BOOLEAN
  /\ named \in Sessions /\ session \in 1..named
  /\ fileEntries \in Seq(Entries) /\ leafId \in Nat

FilesSound ==
  /\ files = [s \in Sessions |-> files[s]]
  /\ \A s \in Sessions : FileSound(files[s])
  /\ \A s \in Sessions : s > named => files[s] = NoFile
  /\ ~headless => \A s \in Sessions : Headed(files[s])

(* What was flushed is in a file that has begun, and nothing is flushed      *)
(* while no session is open.                                                 *)
FlushedBegan ==
  /\ flushed /\ ~headless => files[session].lines # <<>>
  /\ ~opened => ~flushed

Mirrors(f, done, s) ==
  IF done THEN f = WholeFile(s, Len(s) + 1) ELSE ~f.exists /\ ~Assistant(s)

IndInv == MemoryTypes /\ LabelTypes /\ FilesSound /\ FlushedBegan /\ FileMirrorsMemory

LEMMA SessionIsOne == ASSUME MemoryTypes, MaxSessions \in Nat PROVE session \in Sessions /\ named \in Nat
BY DEF MemoryTypes, Sessions

(* What a step may make of a file that can be read.                          *)
Survives(f, g) ==
  (g # f /\ HasHeader(f)) =>
     /\ Len(g.lines) >= Len(f.lines)
     /\ SubSeq(g.lines, 1, Len(f.lines)) = f.lines

(* One file changes.                                                         *)
LEMMA OneFile ==
  ASSUME MaxSessions \in Nat, FilesSound, named \in Sessions,
         NEW t \in Sessions, NEW g, FileSound(g), files' = [files EXCEPT ![t] = g],
         named' \in Sessions, t <= named', named <= named',
         ~headless' => ~headless /\ Headed(g)
  PROVE  /\ FilesSound'
         /\ files'[t] = g
         /\ Survives(files[t], g) => \A s \in Sessions : Survives(files[s], files'[s])
<1>1. files' = [s \in Sessions |-> IF s = t THEN g ELSE files[s]]
  BY DEF FilesSound
<1>2. \A s \in Sessions : files'[s] = IF s = t THEN g ELSE files[s]
  BY <1>1
<1>3. files' = [s \in Sessions |-> files'[s]]
  BY <1>1
<1>4. \A s \in Sessions : FileSound(files'[s])
  BY <1>2 DEF FilesSound
<1>5. \A s \in Sessions : s > named' => files'[s] = NoFile
  <2>1. TAKE s \in Sessions
  <2>2. ASSUME s > named' PROVE s # t /\ s > named
    BY <2>2 DEF Sessions
  <2> QED BY <1>2, <2>2 DEF FilesSound
<1>6. ~headless' => \A s \in Sessions : Headed(files'[s])
  BY <1>2 DEF FilesSound
<1>7. FilesSound'
  BY <1>3, <1>4, <1>5, <1>6 DEF FilesSound, FileSound, Headed
<1>8. Survives(files[t], g) => \A s \in Sessions : Survives(files[s], files'[s])
  BY <1>2 DEF Survives
<1> QED BY <1>2, <1>7, <1>8

LEMMA NoFileChanged ==
  ASSUME UNCHANGED files
  PROVE  \A s : Survives(files[s], files'[s])
BY DEF Survives

(* _persist: what becomes of the file of the session.                        *)
LEMMA PersistFile ==
  ASSUME MaxSessions \in Nat, IndInv, opened, NEW e \in Entries,
         Persist(Append(fileEntries, e), e)
  PROVE  \E g : /\ files' = [files EXCEPT ![session] = g]
                /\ FileSound(g)
                /\ ~headless => Headed(g)
                /\ flushed' \in BOOLEAN /\ damaged' \in BOOLEAN
                /\ flushed' /\ ~headless => g.lines # <<>>
                /\ Survives(files[session], g)
                /\ ~damaged' => ~damaged /\ Mirrors(g, flushed', Append(fileEntries, e))
<1> DEFINE s == Append(fileEntries, e)
           f == files[session]
<1>1. /\ session \in Sessions /\ FileSound(f) /\ (~headless => Headed(f))
      /\ flushed \in BOOLEAN /\ damaged \in BOOLEAN
      /\ (flushed /\ ~headless => f.lines # <<>>)
      /\ (~damaged => Mirrors(f, flushed, fileEntries))
      /\ files = [files EXCEPT ![session] = f]
  <2>1. session \in Sessions
    BY SessionIsOne DEF IndInv
  <2>2. files = [files EXCEPT ![session] = f]
    BY <2>1 DEF IndInv, FilesSound
  <2>3. ~damaged => Mirrors(f, flushed, fileEntries)
    BY DEF IndInv, FileMirrorsMemory, Mirrors
  <2> QED BY <2>1, <2>2, <2>3 DEF IndInv, MemoryTypes, FilesSound, FlushedBegan
<1>2. /\ s \in Seq(Entries) /\ fileEntries \in Seq(Entries) /\ Len(fileEntries) \in Nat
      /\ Len(s) = Len(fileEntries) + 1
  BY AppendProperties, LenProperties DEF IndInv, MemoryTypes
<1>3. CASE flushed
  <2>1. PICK o \in Outcomes : /\ files' = [files EXCEPT ![session] = AppendLine(f, e, o)]
                             /\ damaged' = (damaged \/ o # "done")
                             /\ flushed' = flushed
    BY <1>3 DEF Persist
  <2> DEFINE g == AppendLine(f, e, o)
  <2>2. /\ FileSound(g) /\ Len(g.lines) >= Len(f.lines)
        /\ SubSeq(g.lines, 1, Len(f.lines)) = f.lines
        /\ (f.lines # <<>> => g.lines # <<>> /\ g.lines[1] = f.lines[1])
        /\ (o = "done" /\ ~f.piece =>
              g = [exists |-> TRUE, lines |-> Append(f.lines, e), piece |-> FALSE])
    BY <1>1, AppendsAre
  <2>3. files' = [files EXCEPT ![session] = g]
    BY <2>1
  <2> HIDE DEF g
  <2>4. ~headless => g.lines # <<>> /\ Headed(g)
    BY <1>1, <1>3, <2>2 DEF Headed
  <2>5. ASSUME ~damaged' PROVE ~damaged /\ Mirrors(g, flushed', s)
    <3>1. ~damaged /\ o = "done" /\ f = WholeFile(fileEntries, Len(fileEntries) + 1)
      BY <1>1, <1>3, <2>1, <2>5 DEF Mirrors
    <3>2. SubSeq(Contents(fileEntries), 1, Len(fileEntries) + 1) = Contents(fileEntries)
      BY <1>2, ContentsAre, SubSeqFull
    <3>3. f = [exists |-> TRUE, lines |-> Contents(fileEntries), piece |-> FALSE]
      BY <3>1, <3>2, WholeFields
    <3>4. f.piece = FALSE /\ f.lines = Contents(fileEntries)
      BY <3>3
    <3>5. g = [exists |-> TRUE, lines |-> Append(Contents(fileEntries), e), piece |-> FALSE]
      BY <2>2, <3>1, <3>4
    <3>6. Append(Contents(fileEntries), e) = Contents(s)
      <4> DEFINE c == Contents(fileEntries)
                 d == Contents(s)
                 N == Len(fileEntries)
      <4>1. /\ c \in Seq(Line) /\ N \in Nat /\ Len(c) = N + 1 /\ c[1] = Header
            /\ \A i \in 1..N : c[i+1] = fileEntries[i]
        BY <1>2, ContentsAre
      <4>2. /\ d \in Seq(Line) /\ Len(d) = N + 2 /\ d[1] = Header
            /\ \A i \in 1..(N+1) : d[i+1] = s[i]
        <5> HIDE DEF s
        <5>1. /\ Contents(s) \in Seq(Line) /\ Len(Contents(s)) = Len(s) + 1
              /\ Contents(s)[1] = Header
              /\ \A i \in 1..Len(s) : Contents(s)[i+1] = s[i]
          BY <1>2, ContentsAre
        <5> QED BY <1>2, <5>1
      <4>3. s[N+1] = e /\ \A i \in 1..N : s[i] = fileEntries[i]
        BY <1>2, AppendProperties
      <4>4. e \in Line
        BY LineKinds
      <4> HIDE DEF c, d, s
      <4>5. /\ Append(c, e) \in Seq(Line) /\ Len(Append(c, e)) = N + 2
            /\ Append(c, e)[N+2] = e /\ \A i \in 1..(N+1) : Append(c, e)[i] = c[i]
        BY <4>1, <4>4, AppendProperties
      <4>6. \A i \in 1..(N+2) : Append(c, e)[i] = d[i]
        <5>1. TAKE i \in 1..(N+2)
        <5>2. CASE i = 1
          BY <4>1, <4>2, <4>5, <5>2
        <5>3. CASE i = N+2
          BY <4>1, <4>2, <4>3, <4>5, <5>3
        <5>4. CASE i # 1 /\ i # N+2
          <6>1. i-1 \in 1..N /\ i-1 \in 1..(N+1) /\ (i-1)+1 = i /\ i \in 1..(N+1)
            BY <4>1, <5>4
          <6>2. c[i] = fileEntries[i-1] /\ d[i] = s[i-1]
            BY <4>1, <4>2, <6>1
          <6> QED BY <4>3, <4>5, <6>1, <6>2
        <5> QED BY <5>2, <5>3, <5>4
      <4>7. Append(c, e) = d
        BY <4>2, <4>5, <4>6, SeqEqual
      <4> QED BY <4>7 DEF c, d
    <3>7. SubSeq(Contents(s), 1, Len(s) + 1) = Contents(s)
      BY <1>2, ContentsAre, SubSeqFull
    <3>8. g = WholeFile(s, Len(s) + 1)
      BY <3>5, <3>6, <3>7, WholeFields, ZenonT(40)
    <3> QED BY <1>3, <2>1, <3>1, <3>8 DEF Mirrors
  <2>6. Survives(f, g)
    BY <2>2 DEF Survives
  <2>7. flushed' \in BOOLEAN /\ damaged' \in BOOLEAN
    BY <1>1, <2>1
  <2> HIDE DEF s, f
  <2> QED BY <2>2, <2>3, <2>4, <2>5, <2>6, <2>7 DEF s, f
<1>4. CASE ~flushed /\ ~Assistant(s)
  <2>1. UNCHANGED <<files, flushed, damaged>>
    BY <1>4 DEF Persist
  <2>2. Survives(f, f)
    BY DEF Survives
  <2>3. ~damaged' => ~damaged /\ Mirrors(f, flushed', s)
    BY <1>1, <1>4, <2>1 DEF Mirrors
  <2> HIDE DEF s, f
  <2>4. /\ files' = [files EXCEPT ![session] = f] /\ FileSound(f) /\ (~headless => Headed(f))
        /\ flushed' \in BOOLEAN /\ damaged' \in BOOLEAN
        /\ (flushed' /\ ~headless => f.lines # <<>>)
    BY <1>1, <1>4, <2>1
  <2> QED BY <2>2, <2>3, <2>4 DEF s, f
<1>5. CASE ~flushed /\ Assistant(s)
  <2>1. PICK g \in FirstWrite(f, s) : /\ files' = [files EXCEPT ![session] = g]
                                     /\ flushed' = (g # f /\ ~g.piece)
                                     /\ damaged' = (damaged \/ g = f \/ g.piece)
    BY <1>5 DEF Persist
  <2>2. CASE g = f
    <3>1. Survives(f, g)
      BY <2>2 DEF Survives
    <3>2. flushed' = FALSE /\ damaged' = TRUE
      BY <2>1, <2>2
    <3> HIDE DEF s, f
    <3> QED BY <1>1, <2>1, <2>2, <3>1, <3>2 DEF s, f
  <2>3. CASE g # f
    <3>1. ~f.exists /\ g \in Rewrites(s)
      BY <2>1, <2>3 DEF FirstWrite
    <3>2. /\ FileSound(g) /\ Headed(g) /\ g.piece \in BOOLEAN
          /\ (~g.piece => g = WholeFile(s, Len(s) + 1) /\ g.lines # <<>>)
      BY <1>2, <3>1, RewritesAre
    <3>3. Survives(f, g)
      <4>1. f.lines = <<>>
        BY <1>1, <3>1 DEF FileSound, NoFile
      <4> QED BY <4>1, HeaderSeen DEF Survives
    <3>4. flushed' = (~g.piece) /\ damaged' = (damaged \/ g.piece)
      BY <2>1, <2>3
    <3>5. ~damaged' => ~damaged /\ Mirrors(g, flushed', s)
      BY <3>2, <3>4 DEF Mirrors
    <3> HIDE DEF s, f
    <3>6. flushed' \in BOOLEAN /\ damaged' \in BOOLEAN /\ (flushed' => g.lines # <<>>)
      BY <1>1, <3>2, <3>4
    <3> QED BY <2>1, <3>2, <3>3, <3>5, <3>6 DEF s, f
  <2> QED BY <2>2, <2>3
<1> QED BY <1>1, <1>3, <1>4, <1>5

-----------------------------------------------------------------------------
(* The steps.                                                                *)

FilesSurvive == \A s \in Sessions : Survives(files[s], files'[s])

LEMMA InitInd == ASSUME MaxSessions \in Nat \ {0}, ManagerInit PROVE IndInv
<1>1. \A s \in Sessions : files[s] = NoFile
  BY DEF ManagerInit
<1>2. FilesSound
  BY <1>1, NoFileSound DEF FilesSound, ManagerInit
<1>3. /\ MemoryTypes /\ <<>> \in Seq(Entries)
  <2>1. 1 \in Sessions /\ 1 \in 1..1 /\ Root \in Nat /\ <<>> \in Seq(Entries)
    BY DEF Sessions, Root
  <2> QED BY <2>1 DEF MemoryTypes, ManagerInit
<1>4. LabelTypes
  BY <1>3, LabelsType DEF LabelTypes, ManagerInit
<1>5. FileMirrorsMemory
  <2>1. session \in Sessions /\ fileEntries = <<>> /\ labelsById = LabelsOf(fileEntries) /\ ~flushed
    BY DEF ManagerInit, Sessions
  <2>2. ~files[session].exists
    BY <1>1, <2>1 DEF NoFile
  <2>3. ~Assistant(fileEntries)
    BY <2>1 DEF Assistant, Elements
  <2> QED BY <2>1, <2>2, <2>3 DEF FileMirrorsMemory
<1>6. FlushedBegan
  BY DEF FlushedBegan, ManagerInit
<1> QED BY <1>2, <1>3, <1>4, <1>5, <1>6 DEF IndInv

(* What a session is opened with.                                            *)
LEMMA Indexed ==
  ASSUME NEW s \in Seq(Entries), Index(s)
  PROVE  /\ fileEntries' = s /\ fileEntries' \in Seq(Entries) /\ leafId' \in Nat
         /\ labelsById' = LabelsOf(s) /\ DOMAIN labelsById' \subseteq Nat
         /\ \A t \in DOMAIN labelsById' : labelsById'[t] \in LabelTexts \ {Unlabelled}
BY LabelsType, LeafType DEF Index

LEMMA AppendStep ==
  ASSUME MaxSessions \in Nat, IndInv, NEW parent \in Nat, NEW kind \in Kinds,
         NEW target \in Nat, NEW text \in LabelTexts \cup {Unlabelled},
         AppendEntry(parent, kind, target, text),
         \/ kind # "label" /\ UNCHANGED labelsById
         \/ /\ kind = "label"
            /\ labelsById' = IF ~damaged /\ damaged' THEN labelsById ELSE LabelsAfter(target, text)
  PROVE  IndInv' /\ FilesSurvive
<1> DEFINE e == [id |-> made + 1, parent |-> parent, kind |-> kind,
                 target |-> target, text |-> text]
           s == Append(fileEntries, e)
<1>1. /\ opened /\ made' = made + 1 /\ fileEntries' = s /\ leafId' = e.id
      /\ Persist(s, e) /\ UNCHANGED <<opened, session, named, headless>>
  BY DEF AppendEntry, GenerateIds
<1>2. /\ e \in Entries /\ e.id = made + 1 /\ e.kind = kind /\ e.target = target
      /\ e.text = text /\ made' \in Nat
  BY <1>1 DEF IndInv, LabelTypes, Entries, Root
<1> HIDE DEF e
<1>3. /\ s \in Seq(Entries) /\ fileEntries \in Seq(Entries)
      /\ session \in Sessions /\ named \in Sessions /\ named \in Nat /\ session <= named
  BY <1>2, AppendProperties, SessionIsOne DEF IndInv, MemoryTypes
<1>4. PICK g : /\ files' = [files EXCEPT ![session] = g]
               /\ FileSound(g)
               /\ ~headless => Headed(g)
               /\ flushed' \in BOOLEAN /\ damaged' \in BOOLEAN
               /\ flushed' /\ ~headless => g.lines # <<>>
               /\ Survives(files[session], g)
               /\ ~damaged' => ~damaged /\ Mirrors(g, flushed', s)
  BY <1>1, <1>2, PersistFile
<1> HIDE DEF s
<1>5. FilesSound' /\ files'[session] = g /\ FilesSurvive
  <2>1. FilesSound /\ named' \in Sessions /\ session <= named' /\ named <= named'
    BY <1>1, <1>3 DEF IndInv
  <2>2. ~headless' => ~headless /\ Headed(g)
    BY <1>1, <1>4
  <2> QED BY <1>3, <1>4, <2>1, <2>2, OneFile DEF FilesSurvive
<1>6. MemoryTypes'
  BY <1>1, <1>2, <1>3, <1>4 DEF IndInv, MemoryTypes
<1>7. LabelTypes'
  <2>1. CASE UNCHANGED labelsById
    BY <1>2, <2>1 DEF IndInv, LabelTypes
  <2>2. CASE labelsById' = LabelsAfter(target, text)
    <3>1. DOMAIN labelsById' = (DOMAIN labelsById \cup {target}) \
                             (IF text = Unlabelled THEN {target} ELSE {})
      BY <2>2 DEF LabelsAfter
    <3>2. \A t \in DOMAIN labelsById' : labelsById'[t] = IF t = target THEN text ELSE labelsById[t]
      BY <2>2 DEF LabelsAfter
    <3>3. DOMAIN labelsById' \subseteq Nat
      BY <3>1 DEF IndInv, LabelTypes
    <3>4. \A t \in DOMAIN labelsById' : labelsById'[t] \in LabelTexts \ {Unlabelled}
      BY <3>1, <3>2 DEF IndInv, LabelTypes
    <3> QED BY <1>2, <3>3, <3>4 DEF LabelTypes
  <2> QED BY <2>1, <2>2
<1>8. FlushedBegan'
  BY <1>1, <1>4, <1>5 DEF FlushedBegan
<1>9. FileMirrorsMemory'
  <2> SUFFICES ASSUME opened', ~damaged'
               PROVE  Mirrors(g, flushed', s) /\ labelsById' = LabelsOf(s)
    BY <1>1, <1>5 DEF FileMirrorsMemory, Mirrors, WholeFile, Contents, Assistant, Elements
  <2>1. ~damaged /\ Mirrors(g, flushed', s)
    BY <1>4
  <2>2. labelsById = LabelsOf(fileEntries)
    BY <1>1, <2>1 DEF IndInv, FileMirrorsMemory
  <2>3. CASE kind # "label" /\ UNCHANGED labelsById
    <3>1. e.kind # "label" /\ e \in Entries /\ fileEntries \in Seq(Entries)
      BY <1>2, <1>3, <2>3
    <3>2. LabelsOf(Append(fileEntries, e)) = LabelsOf(fileEntries)
      BY <3>1, LabelsUntouched
    <3> QED BY <2>1, <2>2, <2>3, <3>2 DEF s
  <2>4. CASE kind = "label" /\ labelsById' = LabelsAfter(target, text)
    <3>1. e.kind = "label" /\ e \in Entries /\ fileEntries \in Seq(Entries)
      BY <1>2, <1>3, <2>4
    <3>2. LabelsOf(Append(fileEntries, e)) = LabelsAfter(e.target, e.text)
      BY <2>2, <3>1, LabelsChange
    <3> QED BY <1>2, <2>1, <2>4, <3>2 DEF s
  <2> QED BY <2>1, <2>3, <2>4
<1> QED BY <1>5, <1>6, <1>7, <1>8, <1>9 DEF IndInv

LEMMA FilesKept ==
  ASSUME MaxSessions \in Nat, FilesSound, UNCHANGED <<files, headless>>,
         named \in Sessions, named' \in Sessions, named <= named'
  PROVE  FilesSound' /\ FilesSurvive
<1>1. \A s \in Sessions : s > named' => s > named
  BY DEF Sessions
<1>2. FilesSound'
  BY <1>1 DEF FilesSound, FileSound, Headed
<1> QED BY <1>2 DEF FilesSurvive, Survives

(* A step that leaves files and session alone, and opens or closes nothing.  *)
LEMMA BranchStep ==
  ASSUME MaxSessions \in Nat, IndInv,
         UNCHANGED <<files, opened, session, named, made, fileEntries, labelsById, flushed, damaged, headless>>,
         leafId' \in Nat
  PROVE  IndInv' /\ FilesSurvive
<1>1. FilesSound' /\ FilesSurvive
  BY FilesKept, SessionIsOne DEF IndInv, MemoryTypes
<1>2. MemoryTypes' /\ LabelTypes' /\ FlushedBegan'
  BY DEF IndInv, MemoryTypes, LabelTypes, FlushedBegan
<1>3. FileMirrorsMemory'
  <2>1. /\ files' = files /\ opened' = opened /\ session' = session /\ fileEntries' = fileEntries
        /\ labelsById' = labelsById /\ flushed' = flushed /\ damaged' = damaged
    OBVIOUS
  <2>2. /\ (opened /\ ~damaged) <=> (opened' /\ ~damaged')
        /\ flushed <=> flushed'
    BY <2>1
  <2>3. /\ files[session] = files'[session']
        /\ WholeFile(fileEntries, Len(fileEntries) + 1) = WholeFile(fileEntries', Len(fileEntries') + 1)
        /\ Assistant(fileEntries) <=> Assistant(fileEntries')
        /\ labelsById = LabelsOf(fileEntries) <=> labelsById' = LabelsOf(fileEntries')
    BY <2>1
  <2>4. FileMirrorsMemory
    BY DEF IndInv
  <2> QED BY <2>2, <2>3, <2>4, Zenon DEF FileMirrorsMemory
<1> QED BY <1>1, <1>2, <1>3 DEF IndInv

LEMMA ExitStep ==
  ASSUME MaxSessions \in Nat, IndInv, Exit
  PROVE  IndInv' /\ FilesSurvive
<1>1. FilesSound' /\ FilesSurvive
  BY FilesKept, SessionIsOne DEF IndInv, MemoryTypes, Exit
<1>2. /\ fileEntries' \in Seq(Entries) /\ leafId' \in Nat /\ DOMAIN labelsById' \subseteq Nat
      /\ \A t \in DOMAIN labelsById' : labelsById'[t] \in LabelTexts \ {Unlabelled}
  <2>1. <<>> \in Seq(Entries)
    OBVIOUS
  <2> QED BY <2>1, Indexed DEF Exit
<1>3. MemoryTypes' /\ LabelTypes' /\ FlushedBegan'
  BY <1>2 DEF IndInv, MemoryTypes, LabelTypes, FlushedBegan, Exit
<1>4. FileMirrorsMemory'
  BY DEF FileMirrorsMemory, Exit
<1> QED BY <1>1, <1>3, <1>4 DEF IndInv

(* A session that is opened: its file is sound, and memory has what it says. *)
LEMMA Opened ==
  ASSUME MaxSessions \in Nat, IndInv, NEW s \in Seq(Entries), Index(s), FilesSound',
         session' \in 1..named', named' \in Sessions, made' \in Nat,
         opened' \in BOOLEAN, flushed' \in BOOLEAN, damaged' \in BOOLEAN, headless' \in BOOLEAN,
         ~opened' => ~flushed',
         flushed' /\ ~headless' => files'[session'].lines # <<>>,
         opened' /\ ~damaged' => Mirrors(files'[session'], flushed', s)
  PROVE  IndInv'
<1>1. /\ fileEntries' = s /\ fileEntries' \in Seq(Entries) /\ leafId' \in Nat
      /\ labelsById' = LabelsOf(s) /\ DOMAIN labelsById' \subseteq Nat
      /\ \A t \in DOMAIN labelsById' : labelsById'[t] \in LabelTexts \ {Unlabelled}
  BY Indexed
<1>2. MemoryTypes'
  BY <1>1 DEF MemoryTypes
<1>3. LabelTypes'
  BY <1>1 DEF LabelTypes
<1>4. FlushedBegan'
  BY DEF FlushedBegan
<1>5. FileMirrorsMemory'
  <2>1. Assistant(fileEntries)' <=> Assistant(s)
    BY <1>1 DEF Assistant, Elements
  <2>2. WholeFile(fileEntries, Len(fileEntries) + 1)' = WholeFile(s, Len(s) + 1)
    BY <1>1 DEF WholeFile, Contents
  <2>3. labelsById' = LabelsOf(fileEntries)'
    BY <1>1
  <2> QED BY <2>1, <2>2, <2>3 DEF FileMirrorsMemory, Mirrors
<1> QED BY <1>2, <1>3, <1>4, <1>5 DEF IndInv

LEMMA NewSessionStep ==
  ASSUME MaxSessions \in Nat, IndInv, NewSession
  PROVE  IndInv' /\ FilesSurvive
<1>1. /\ named \in Sessions /\ named \in Nat /\ named + 1 \in Sessions /\ named <= named'
      /\ named' \in Sessions /\ session' \in 1..named' /\ session' = named + 1
      /\ session' \in Sessions /\ session' > named
  BY SessionIsOne DEF IndInv, MemoryTypes, NewSession, Sessions
<1>2. FilesSound' /\ FilesSurvive
  BY <1>1, FilesKept DEF IndInv, NewSession
<1>3. files'[session'] = NoFile
  BY <1>1 DEF IndInv, FilesSound, NewSession
<1>4. Mirrors(files'[session'], FALSE, <<>>)
  BY <1>3 DEF Mirrors, NoFile, Assistant, Elements
<1>5. /\ <<>> \in Seq(Entries) /\ Index(<<>>) /\ made' \in Nat /\ headless' \in BOOLEAN
      /\ opened' = TRUE /\ flushed' = FALSE /\ damaged' = FALSE
  BY DEF NewSession, IndInv, LabelTypes, MemoryTypes
<1>6. IndInv'
  BY <1>1, <1>2, <1>4, <1>5, Opened
<1> QED BY <1>2, <1>6

LEMMA SetSessionFileStep ==
  ASSUME MaxSessions \in Nat, IndInv, NEW s \in Sessions, SetSessionFile(s)
  PROVE  IndInv' /\ FilesSurvive
<1> DEFINE f == files[s]
<1>1. /\ FileSound(f) /\ f.exists /\ f.lines \in Seq(Line) /\ f.piece \in BOOLEAN
      /\ session' = s /\ UNCHANGED <<named, made, headless>>
  BY DEF SetSessionFile, IndInv, FilesSound, FileSound, FileStates
<1>2. s \in 1..named
  <2>1. ~(s > named)
    BY <1>1 DEF IndInv, FilesSound, NoFile
  <2> QED BY <2>1, SessionIsOne DEF Sessions, IndInv
<1>3. /\ named \in Sessions /\ named' \in Sessions /\ named \in Nat /\ named <= named'
      /\ session' \in 1..named' /\ made' \in Nat /\ headless' \in BOOLEAN
  BY <1>1, <1>2, SessionIsOne DEF IndInv, MemoryTypes, LabelTypes
<1>4. CASE HasHeader(f)
  <2>1. /\ opened' = TRUE /\ Index(LoadedFrom(f)) /\ flushed' = TRUE /\ UNCHANGED files
        /\ damaged' = (f.piece \/ Junk \in Elements(f.lines))
    BY <1>4 DEF SetSessionFile
  <2>2. FilesSound' /\ FilesSurvive
    BY <1>1, <1>3, <2>1, FilesKept DEF IndInv
  <2>3. LoadedFrom(f) \in Seq(Entries)
    BY <1>1, LoadedType
  <2>4. f.lines # <<>>
    BY <1>4, HeaderSeen
  <2>5. ~damaged' => Mirrors(f, TRUE, LoadedFrom(f))
    BY <1>1, <1>4, <2>1, CleanFile DEF Mirrors
  <2>6. files'[session'] = f /\ damaged' \in BOOLEAN
    BY <1>1, <2>1
  <2> HIDE DEF f
  <2>7. IndInv'
    BY <1>3, <2>1, <2>2, <2>3, <2>4, <2>5, <2>6, Opened
  <2> QED BY <2>2, <2>7
<1>5. CASE ~HasHeader(f)
  <2>1. PICK g \in Rewrites(<<>>) \cup {f} :
          /\ files' = [files EXCEPT ![s] = g]
          /\ opened' = (opened \/ g = WholeFile(<<>>, 1)) /\ Index(<<>>)
          /\ flushed' = (g = WholeFile(<<>>, 1)) /\ damaged' = ~(g = WholeFile(<<>>, 1))
    BY <1>5 DEF SetSessionFile
  <2>0. /\ flushed' \in BOOLEAN /\ damaged' \in BOOLEAN /\ opened' \in BOOLEAN
        /\ (flushed' => g = WholeFile(<<>>, 1)) /\ (~opened' => ~flushed')
        /\ (~damaged' => flushed')
    <3>1. opened \in BOOLEAN
      BY DEF IndInv, MemoryTypes
    <3> QED BY <2>1, <3>1
  <2>2. <<>> \in Seq(Entries) /\ Len(<<>>) = 0
    OBVIOUS
  <2>3. /\ FileSound(g) /\ g.piece \in BOOLEAN /\ (~headless => Headed(g))
        /\ (g = WholeFile(<<>>, 1) => g.lines # <<>>)
    <3>1. ASSUME g \in Rewrites(<<>>) PROVE FileSound(g) /\ g.piece \in BOOLEAN /\ Headed(g)
      BY <2>2, <3>1, RewritesAre
    <3>2. ASSUME g = f PROVE FileSound(g) /\ g.piece \in BOOLEAN /\ (~headless => Headed(g))
      BY <1>1, <3>2 DEF IndInv, FilesSound
    <3>3. WholeFile(<<>>, 1).lines # <<>>
      <4>1. WholeFile(<<>>, 1) \in Rewrites(<<>>) /\ ~WholeFile(<<>>, 1).piece
        BY <2>2, WholeFields DEF Rewrites
      <4> QED BY <2>2, <4>1, RewritesAre
    <3> QED BY <2>1, <3>1, <3>2, <3>3
  <2>4. Survives(f, g)
    BY <1>5 DEF Survives
  <2>5. FilesSound' /\ FilesSurvive /\ files'[s] = g
    <3>1. FilesSound /\ s <= named' /\ (~headless' => ~headless /\ Headed(g))
      BY <1>1, <1>2, <1>3, <2>3 DEF IndInv
    <3> QED BY <1>3, <2>1, <2>3, <2>4, <3>1, OneFile DEF FilesSurvive
  <2>6. ~damaged' => Mirrors(g, flushed', <<>>)
    <3>1. ~damaged' => g = WholeFile(<<>>, Len(<<>>) + 1) /\ flushed'
      BY <2>0, <2>2
    <3> QED BY <3>1 DEF Mirrors
  <2>7. IndInv'
    BY <1>1, <1>3, <2>0, <2>1, <2>2, <2>3, <2>5, <2>6, Opened
  <2> QED BY <2>5, <2>7
<1> QED BY <1>4, <1>5

LEMMA CreateBranchedSessionStep ==
  ASSUME MaxSessions \in Nat, IndInv, NEW target, CreateBranchedSession(target)
  PROVE  IndInv' /\ FilesSurvive
<1> DEFINE s == Forked(target)
           t == named + 1
<1>1. /\ opened /\ opened' = opened /\ session' = t /\ named' = t /\ Index(s) /\ WriteFork(s)
      /\ named < MaxSessions
      /\ made' = made + (Len(s) - Len(WithoutLabels(GetBranch(fileEntries, target))))
  BY DEF CreateBranchedSession, GenerateIds
<1>2. /\ s \in Seq(Entries)
      /\ Len(s) - Len(WithoutLabels(GetBranch(fileEntries, target))) \in Nat
  BY ForkedLabels DEF IndInv, MemoryTypes
<1> HIDE DEF s
<1>3. /\ named \in Sessions /\ named \in Nat /\ t \in Sessions /\ named <= named' /\ t <= named'
      /\ named' \in Sessions /\ session' \in 1..named' /\ t > named /\ made' \in Nat
  BY <1>1, <1>2, SessionIsOne DEF IndInv, MemoryTypes, LabelTypes, Sessions
<1>4. files[t] = NoFile /\ NoFile.exists = FALSE /\ NoFile.piece = FALSE /\ NoFile.lines = <<>>
  BY <1>3 DEF IndInv, FilesSound, NoFile
<1>5. flushed \in BOOLEAN /\ headless \in BOOLEAN /\ opened' = TRUE
  BY <1>1 DEF IndInv, MemoryTypes
<1> HIDE DEF t
<1>6. CASE Assistant(s)
  <2>1. PICK g \in Rewrites(s) \cup {NoFile} :
          /\ files' = [files EXCEPT ![t] = g]
          /\ flushed' = (flushed \/ (g.exists /\ ~g.piece))
          /\ damaged' = (g.piece \/ ~g.exists)
          /\ headless' = (headless \/ g.piece \/ ~g.exists)
    BY <1>1, <1>4, <1>6 DEF WriteFork, t
  <2>2. /\ FileSound(g) /\ Headed(g) /\ g.exists \in BOOLEAN /\ g.piece \in BOOLEAN
        /\ (g.exists /\ ~g.piece => g = WholeFile(s, Len(s) + 1) /\ g.lines # <<>>)
    <3>1. CASE g \in Rewrites(s)
      BY <1>2, <3>1, RewritesAre DEF FileSound, FileStates
    <3>2. CASE g = NoFile
      BY <1>4, <3>2, NoFileSound
    <3> QED BY <2>1, <3>1, <3>2
  <2>3. Survives(files[t], g)
    BY <1>4, HeaderSeen DEF Survives
  <2>4. ~headless' => ~headless /\ Headed(g) /\ g.exists /\ ~g.piece
    BY <1>5, <2>1, <2>2
  <2>5. FilesSound' /\ FilesSurvive /\ files'[t] = g
    <3>1. FilesSound
      BY DEF IndInv
    <3> QED BY <1>3, <2>1, <2>2, <2>3, <2>4, <3>1, OneFile DEF FilesSurvive
  <2>6. flushed' \in BOOLEAN /\ damaged' \in BOOLEAN /\ headless' \in BOOLEAN
    BY <1>5, <2>1, <2>2
  <2>7. ~damaged' => Mirrors(g, flushed', s)
    BY <1>5, <2>1, <2>2 DEF Mirrors
  <2>8. IndInv'
    BY <1>1, <1>2, <1>3, <1>5, <2>2, <2>4, <2>5, <2>6, <2>7, Opened
  <2> QED BY <2>5, <2>8
<1>7. CASE ~Assistant(s)
  <2>1. flushed' = FALSE /\ damaged' = FALSE /\ UNCHANGED <<files, headless>>
    BY <1>1, <1>7 DEF WriteFork
  <2>2. FilesSound' /\ FilesSurvive
    BY <1>3, <2>1, FilesKept DEF IndInv
  <2>3. Mirrors(files'[session'], FALSE, s)
    BY <1>1, <1>4, <1>7, <2>1 DEF Mirrors
  <2>4. IndInv'
    BY <1>1, <1>2, <1>3, <1>5, <2>1, <2>2, <2>3, Opened
  <2> QED BY <2>2, <2>4
<1> QED BY <1>6, <1>7

LEMMA ForkFromStep ==
  ASSUME MaxSessions \in Nat, IndInv, NEW s \in Sessions, ForkFrom(s)
  PROVE  IndInv' /\ FilesSurvive
<1> DEFINE l == LoadedFrom(files[s])
           t == named + 1
<1>1. PICK g \in Rewrites(l) :
        /\ files' = [files EXCEPT ![t] = g]
        /\ IF g.piece THEN UNCHANGED <<opened, fileEntries, leafId, labelsById, flushed, damaged>>
           ELSE opened' = TRUE /\ Index(LoadedFrom(g)) /\ flushed' = TRUE /\ damaged' = FALSE
  BY DEF ForkFrom
<1>2. /\ ~opened /\ session' = t /\ named' = t /\ named < MaxSessions
      /\ UNCHANGED <<made, headless>>
  BY DEF ForkFrom
<1>3. l \in Seq(Entries)
  <2>1. files[s].lines \in Seq(Line)
    BY DEF IndInv, FilesSound, FileSound, FileStates
  <2> QED BY <2>1, LoadedType
<1> HIDE DEF l
<1>4. /\ named \in Sessions /\ named \in Nat /\ t \in Sessions /\ named <= named' /\ t <= named'
      /\ named' \in Sessions /\ session' \in 1..named' /\ t > named /\ made' \in Nat
      /\ headless' \in BOOLEAN
  BY <1>2, SessionIsOne DEF IndInv, MemoryTypes, LabelTypes, Sessions
<1>5. files[t] = NoFile /\ NoFile.lines = <<>>
  BY <1>4 DEF IndInv, FilesSound, NoFile
<1> HIDE DEF t
<1>6. /\ FileSound(g) /\ Headed(g) /\ g.piece \in BOOLEAN
      /\ ~g.piece => g = WholeFile(l, Len(l) + 1) /\ g.lines = Contents(l) /\ g.lines # <<>>
  BY <1>1, <1>3, RewritesAre
<1>7. FilesSound' /\ FilesSurvive /\ files'[t] = g
  <2>1. Survives(files[t], g)
    BY <1>5, HeaderSeen DEF Survives
  <2>2. FilesSound /\ (~headless' => ~headless /\ Headed(g))
    BY <1>2, <1>6 DEF IndInv
  <2> QED BY <1>1, <1>4, <1>6, <2>1, <2>2, OneFile DEF FilesSurvive
<1>8. CASE g.piece
  <2>1. UNCHANGED <<opened, fileEntries, leafId, labelsById, flushed, damaged, made, headless>>
    BY <1>1, <1>2, <1>8
  <2>2. ~opened' /\ ~flushed'
    BY <1>2, <2>1 DEF IndInv, FlushedBegan
  <2>3. MemoryTypes'
    BY <1>4, <2>1 DEF IndInv, MemoryTypes
  <2>4. LabelTypes'
    BY <2>1 DEF IndInv, LabelTypes
  <2>5. FlushedBegan' /\ FileMirrorsMemory'
    BY <2>2 DEF FlushedBegan, FileMirrorsMemory
  <2> QED BY <1>7, <2>3, <2>4, <2>5 DEF IndInv
<1>9. CASE ~g.piece
  <2>1. /\ opened' = TRUE /\ Index(LoadedFrom(g)) /\ flushed' = TRUE /\ damaged' = FALSE
    BY <1>1, <1>9
  <2>2. LoadedFrom(g) = l
    BY <1>3, <1>6, <1>9, LoadedOf
  <2>3. Mirrors(g, TRUE, l)
    BY <1>6, <1>9 DEF Mirrors
  <2>4. IndInv'
    BY <1>2, <1>3, <1>4, <1>6, <1>7, <1>9, <2>1, <2>2, <2>3, Opened
  <2> QED BY <1>7, <2>4
<1> QED BY <1>8, <1>9

LEMMA NextStep ==
  ASSUME MaxSessions \in Nat, IndInv, [ManagerNext]_managerVars
  PROVE  IndInv' /\ FilesSurvive
<1>1. leafId \in Nat /\ Root \in Nat /\ KnownIds \cup {Root} \subseteq Nat
  <2>1. \A i \in 1..Len(fileEntries) : fileEntries[i].id \in Nat
    BY EntryFields DEF IndInv, MemoryTypes
  <2> QED BY <2>1 DEF IndInv, MemoryTypes, KnownIds, Elements, Root
<1>2. ASSUME NEW kind \in {"user", "assistant"}, AppendEntryOf(kind)
      PROVE  IndInv' /\ FilesSurvive
  <2>1. kind \in Kinds /\ kind # "label" /\ Unlabelled \in LabelTexts \cup {Unlabelled}
    BY DEF Kinds
  <2>2. AppendEntry(leafId, kind, Root, Unlabelled) /\ UNCHANGED labelsById
    BY <1>2 DEF AppendEntryOf
  <2> QED BY <1>1, <2>1, <2>2, AppendStep
<1>3. ASSUME NEW target \in KnownIds, NEW text \in LabelTexts \cup {Unlabelled},
             AppendLabelChange(target, text)
      PROVE  IndInv' /\ FilesSurvive
  <2>1. "label" \in Kinds /\ target \in Nat
    BY <1>1 DEF Kinds
  <2>2. /\ AppendEntry(leafId, "label", target, text)
        /\ labelsById' = IF ~damaged /\ damaged' THEN labelsById ELSE LabelsAfter(target, text)
    BY <1>3 DEF AppendLabelChange
  <2> QED BY <1>1, <2>1, <2>2, AppendStep
<1>4. ASSUME NEW target \in KnownIds \cup {Root}, Branch(target)
      PROVE  IndInv' /\ FilesSurvive
  BY <1>1, <1>4, BranchStep DEF Branch
<1>5. ASSUME NEW target \in KnownIds \cup {Root}, BranchWithSummary(target)
      PROVE  IndInv' /\ FilesSurvive
  <2>1. "other" \in Kinds /\ "other" # "label" /\ Unlabelled \in LabelTexts \cup {Unlabelled} /\ target \in Nat
    BY <1>1 DEF Kinds
  <2>2. AppendEntry(target, "other", Root, Unlabelled) /\ UNCHANGED labelsById
    BY <1>5 DEF BranchWithSummary
  <2> QED BY <1>1, <2>1, <2>2, AppendStep
<1>6. CASE NewSession
  BY <1>6, NewSessionStep
<1>7. ASSUME NEW s \in Sessions, SetSessionFile(s) \/ ForkFrom(s)
      PROVE  IndInv' /\ FilesSurvive
  BY <1>7, SetSessionFileStep, ForkFromStep
<1>8. ASSUME NEW target \in KnownIds, CreateBranchedSession(target)
      PROVE  IndInv' /\ FilesSurvive
  BY <1>8, CreateBranchedSessionStep
<1>9. CASE Exit
  BY <1>9, ExitStep
<1>10. CASE UNCHANGED managerVars
  <2>1. UNCHANGED <<files, opened, session, named, made, fileEntries, labelsById, flushed, damaged, headless>>
        /\ leafId' \in Nat
    BY <1>1, <1>10 DEF managerVars
  <2> QED BY <2>1, BranchStep
<1> QED BY <1>2, <1>3, <1>4, <1>5, <1>6, <1>7, <1>8, <1>9, <1>10 DEF ManagerNext

-----------------------------------------------------------------------------
(* The theorems, for at least one session file and any labels, entries and   *)
(* failures of writes.                                                       *)

(* IndInv is an invariant.                                                   *)
THEOREM ManagerInvariant == ManagerSpec => []IndInv
<1>1. ManagerInit => IndInv
  BY InitInd, ManagerAssumption
<1>2. IndInv /\ [ManagerNext]_managerVars => IndInv'
  BY NextStep, ManagerAssumption
<1> QED BY <1>1, <1>2, PTL DEF ManagerSpec

(* As long as its writes succeed, a session is wholly in its file or not at  *)
(* all (_persist), and the label cache is what _buildIndex would build.  The *)
(* leaf is not part of it: branch() moves it in memory and nowhere else.     *)
THEOREM FilesMirrorMemory == ManagerSpec => []FileMirrorsMemory
<1>1. IndInv => FileMirrorsMemory
  BY DEF IndInv
<1> QED BY <1>1, ManagerInvariant, PTL

(* A file has one header, in front of its entries, unless                    *)
(* createBranchedSession failed while it wrote it.                           *)
THEOREM FilesHaveOneHeader == ManagerSpec => []OneHeader
<1>1. IndInv => OneHeader
  <2> SUFFICES ASSUME IndInv, ~headless, NEW s \in Sessions, NEW i \in 1..Len(files[s].lines)
               PROVE  (files[s].lines[i] = Header) <=> (i = 1)
    BY DEF OneHeader
  <2>1. FileSound(files[s]) /\ Headed(files[s])
    BY DEF IndInv, FilesSound
  <2>2. files[s].lines # <<>>
    <3>1. files[s].lines = <<>> => Len(files[s].lines) = 0
      OBVIOUS
    <3> QED BY <3>1
  <2> QED BY <2>1, <2>2 DEF FileSound, Headed
<1> QED BY <1>1, ManagerInvariant, PTL

(* No step takes a line from a file that can be read, whatever write fails.  *)
THEOREM FilesKeepTheirLines == ManagerSpec => LinesSurvive
<1> DEFINE Step == \A s \in Sessions :
                     (files'[s] # files[s] /\ HasHeader(files[s])) =>
                       /\ Len(files'[s].lines) >= Len(files[s].lines)
                       /\ SubSeq(files'[s].lines, 1, Len(files[s].lines)) = files[s].lines
<1>1. IndInv /\ [ManagerNext]_managerVars => Step
  BY NextStep, ManagerAssumption DEF FilesSurvive, Survives
<1>2. LinesSurvive <=> [][Step]_managerVars
  BY DEF LinesSurvive
<1> HIDE DEF Step
<1> QED BY <1>1, <1>2, ManagerInvariant, PTL DEF ManagerSpec

(* createBranchedSession takes along the labels of the entries of the path   *)
(* and no others.                                                            *)
THEOREM ForksKeepLabels == ManagerSpec => ForkKeepsLabels
<1> DEFINE Step == \A target \in KnownIds :
             CreateBranchedSession(target) =>
               labelsById' = [t \in {i \in DOMAIN labelsById :
                             \E e \in Elements(WithoutLabels(GetBranch(fileEntries, target))) : e.id = i}
                            |-> labelsById[t]]
<1>1. IndInv => Step
  <2> SUFFICES ASSUME IndInv, NEW target \in KnownIds, CreateBranchedSession(target)
               PROVE  labelsById' = [t \in {i \in DOMAIN labelsById :
                             \E e \in Elements(WithoutLabels(GetBranch(fileEntries, target))) : e.id = i}
                            |-> labelsById[t]]
    OBVIOUS
  <2>1. labelsById' = LabelsOf(Forked(target))
    BY DEF CreateBranchedSession, Index
  <2>2. LabelsOf(Forked(target)) =
          [t \in Labelled(WithoutLabels(GetBranch(fileEntries, target))) |-> labelsById[t]]
    BY ForkedLabels DEF IndInv, MemoryTypes
  <2> QED BY <2>1, <2>2 DEF Labelled
<1>2. ForkKeepsLabels <=> [][Step]_managerVars
  BY DEF ForkKeepsLabels
<1> HIDE DEF Step
<1> QED BY <1>1, <1>2, ManagerInvariant, PTL
===============================================================================
