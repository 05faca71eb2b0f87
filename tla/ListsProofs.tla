----------------------------- MODULE ListsProofs -----------------------------
(***************************************************************************)
(* What SubseqAt of module Lists returns.  Its value is defined by         *)
(* recursion over the positions of the list, so the proof is by induction. *)
(***************************************************************************)
EXTENDS Lists, FiniteSetTheorems, SequenceTheorems, TLAPS

\* Induction over the naturals, stated of a set rather than of a predicate.
LEMMA NatSetInduction ==
  ASSUME NEW T, 0 \in T, \A n \in Nat : n \in T => n + 1 \in T
  PROVE  Nat \subseteq T
<1> SUFFICES ASSUME NEW m \in Nat, m \notin T PROVE FALSE
  OBVIOUS
<1> DEFINE U == {k \in Nat : k \notin T}
           R == StrictSubsetOrdering(Nat)
           F == FiniteSubsetsOf(Nat)
           V == {A \in F : \E k \in U : A = 1..k}
<1>1. IsWellFoundedOn(R, F)
  BY FS_StrictSubsetOrderingWellFounded
<1>2. 1..m \in V
  BY FS_Interval DEF FiniteSubsetsOf
<1>3. PICK A \in V : \A B \in V : <<B, A>> \notin R
  <2> HIDE DEF R, F
  <2> QED BY <1>1, <1>2, WFMin
<1>4. PICK k \in U : A = 1..k
  OBVIOUS
<1>5. k # 0 /\ k - 1 \in Nat /\ k - 1 \in U
  OBVIOUS
<1>6. 1..(k-1) \in V
  <2>1. IsFiniteSet(1..(k-1)) /\ 1..(k-1) \in SUBSET Nat
    BY <1>5, FS_Interval
  <2> QED BY <2>1, <1>5 DEF FiniteSubsetsOf
<1>7. <<1..(k-1), A>> \in R
  <2>1. 1..(k-1) \subseteq A /\ 1..(k-1) # A
    <3>1. k \in 1..k /\ k \notin 1..(k-1)
      OBVIOUS
    <3> QED BY <3>1, <1>4, <1>5
  <2>2. 1..(k-1) \in SUBSET Nat /\ A \in SUBSET Nat
    BY <1>4, <1>5
  <2> QED BY <2>1, <2>2 DEF StrictSubsetOrdering
<1> QED BY <1>3, <1>6, <1>7

\* One step of the recursion in SubseqAt.
SubseqStep(list, S, g, n) ==
  IF n = 0 THEN << >>
  ELSE IF n \in S THEN Append(g[n - 1], list[n]) ELSE g[n - 1]

\* The recursive function inside SubseqAt exists.
LEMMA SubseqFunction ==
  ASSUME NEW list, NEW S, NEW m \in Nat
  PROVE  \E g : g = [n \in 0..m |-> SubseqStep(list, S, g, n)]
<1> DEFINE P(k) == \E g : g = [n \in 0..k |-> SubseqStep(list, S, g, n)]
           T == {k \in Nat : P(k)}
<1>1. 0 \in T
  <2> DEFINE g == [n \in 0..0 |-> << >>]
  <2>1. g = [n \in 0..0 |-> SubseqStep(list, S, g, n)]
    BY DEF SubseqStep
  <2> QED BY <2>1
<1>2. ASSUME NEW k \in Nat, k \in T PROVE k + 1 \in T
  <2>1. PICK g : g = [n \in 0..k |-> SubseqStep(list, S, g, n)]
    BY <1>2
  <2> DEFINE h == [n \in 0..(k + 1) |-> IF n = k + 1 THEN SubseqStep(list, S, g, n) ELSE g[n]]
  <2>2. ASSUME NEW n \in 0..(k + 1) PROVE h[n] = SubseqStep(list, S, h, n)
    <3>1. SubseqStep(list, S, h, n) = SubseqStep(list, S, g, n)
      <4>1. CASE n = 0
        BY <4>1 DEF SubseqStep
      <4>2. CASE n # 0
        <5>1. n - 1 \in 0..(k + 1) /\ n - 1 # k + 1
          BY <4>2
        <5>2. h[n - 1] = g[n - 1]
          BY <5>1
        <5> QED BY <5>2, <4>2 DEF SubseqStep
      <4> QED BY <4>1, <4>2
    <3>2. CASE n = k + 1
      BY <3>1, <3>2
    <3>3. CASE n # k + 1
      <4>1. n \in 0..k
        BY <3>3
      <4>2. g[n] = SubseqStep(list, S, g, n)
        BY <4>1, <2>1
      <4> QED BY <3>1, <3>3, <4>2
    <3> QED BY <3>2, <3>3
  <2>3. h = [n \in 0..(k + 1) |-> SubseqStep(list, S, h, n)]
    BY <2>2
  <2>4. \E f : f = [n \in 0..(k + 1) |-> SubseqStep(list, S, f, n)]
    <3> HIDE DEF h
    <3> QED BY <2>3
  <2> QED BY <2>4
<1>3. Nat \subseteq T
  <2> HIDE DEF T
  <2> QED BY <1>1, <1>2, NatSetInduction
<1> QED BY <1>3

\* r takes the positions in S of list, each once.
Takes(r, list, S) ==
  \E h \in [DOMAIN r -> S] :
    /\ \A k, l \in DOMAIN r : h[k] = h[l] => k = l
    /\ \A i \in S : \E k \in DOMAIN r : h[k] = i
    /\ \A k \in DOMAIN r : r[k] = list[h[k]]

\* One more position.
LEMMA TakesNext ==
  ASSUME NEW X, NEW list \in Seq(X), NEW S, NEW n \in 1..Len(list),
         NEW r \in Seq(X), Takes(r, list, S \cap 1..(n - 1)), n \in S
  PROVE  Takes(Append(r, list[n]), list, S \cap 1..n)
<1>1. PICK h \in [DOMAIN r -> S \cap 1..(n - 1)] :
        /\ \A k, l \in DOMAIN r : h[k] = h[l] => k = l
        /\ \A i \in S \cap 1..(n - 1) : \E k \in DOMAIN r : h[k] = i
        /\ \A k \in DOMAIN r : r[k] = list[h[k]]
  BY DEF Takes
<1> DEFINE q == Append(r, list[n])
           m == Len(r) + 1
           g == [k \in 1..m |-> IF k = m THEN n ELSE h[k]]
<1>2. Len(r) \in Nat /\ DOMAIN r = 1..Len(r) /\ DOMAIN q = 1..m
  OBVIOUS
<1>3. /\ \A k \in DOMAIN r : k \in DOMAIN q /\ k # m /\ q[k] = r[k] /\ g[k] = h[k]
      /\ m \in DOMAIN q /\ q[m] = list[n] /\ g[m] = n
  BY <1>2
<1>4. \A k \in DOMAIN q : k = m \/ k \in DOMAIN r
  BY <1>2
<1>5. \A k \in DOMAIN r : h[k] \in S /\ h[k] \in 1..(n - 1)
  OBVIOUS
<1>6. \A i \in 1..n : i = n \/ i \in 1..(n - 1)
  OBVIOUS
<1>7. 1..(n - 1) \subseteq 1..n /\ n \in 1..n /\ n \notin 1..(n - 1)
  OBVIOUS
<1> HIDE DEF q, m
<1>8. g \in [DOMAIN q -> S \cap 1..n]
  <2>1. ASSUME NEW k \in DOMAIN q PROVE g[k] \in S \cap 1..n
    BY <1>3, <1>4, <1>5, <1>7
  <2> QED BY <2>1, <1>2
<1> HIDE DEF g
<1>9. \A k, l \in DOMAIN q : g[k] = g[l] => k = l
  BY <1>1, <1>3, <1>4, <1>5, <1>7
<1>10. \A i \in S \cap 1..n : \E k \in DOMAIN q : g[k] = i
  <2> SUFFICES ASSUME NEW i \in S \cap 1..n PROVE \E k \in DOMAIN q : g[k] = i
    OBVIOUS
  <2>1. CASE i = n
    BY <2>1, <1>3
  <2>2. CASE i # n
    <3>1. i \in S \cap 1..(n - 1)
      BY <2>2, <1>6
    <3>2. PICK k \in DOMAIN r : h[k] = i
      BY <3>1, <1>1
    <3> QED BY <3>2, <1>3
  <2> QED BY <2>1, <2>2
<1>11. \A k \in DOMAIN q : q[k] = list[g[k]]
  BY <1>1, <1>3, <1>4
<1>12. Takes(q, list, S \cap 1..n)
  BY <1>8, <1>9, <1>10, <1>11 DEF Takes
<1> QED BY <1>12 DEF q

\* SubseqAt(list, S) takes the positions in S, and its elements are of the list.
LEMMA SubseqTakes ==
  ASSUME NEW X, NEW list \in Seq(X), NEW S
  PROVE  /\ SubseqAt(list, S) \in Seq(X)
         /\ Takes(SubseqAt(list, S), list, S \cap DOMAIN list)
<1> DEFINE IsAt(f) == f = [n \in 0..Len(list) |->
             IF n = 0 THEN << >>
             ELSE IF n \in S THEN Append(f[n - 1], list[n]) ELSE f[n - 1]]
           at == CHOOSE f : IsAt(f)
           Q(n) == at[n] \in Seq(X) /\ Takes(at[n], list, S \cap 1..n)
           T == {n \in Nat : n <= Len(list) => Q(n)}
<1>1. Len(list) \in Nat /\ DOMAIN list = 1..Len(list)
  OBVIOUS
<1>2. IsAt(at)
  <2>1. \E f : IsAt(f)
    <3>1. PICK f : f = [n \in 0..Len(list) |-> SubseqStep(list, S, f, n)]
      BY <1>1, SubseqFunction
    <3>2. IsAt(f)
      BY <3>1 DEF SubseqStep
    <3> HIDE DEF IsAt
    <3> QED BY <3>2
  <2> HIDE DEF IsAt
  <2> QED BY <2>1
<1>3. SubseqAt(list, S) = at[Len(list)]
  BY DEF SubseqAt
<1> HIDE DEF at
<1>4. 0 \in T
  <2>1. at[0] = << >>
    BY <1>1, <1>2
  <2>2. Takes(<< >>, list, S \cap 1..0)
    <3> DEFINE h == [k \in DOMAIN << >> |-> 0]
    <3>1. DOMAIN << >> = {} /\ 1..0 = {}
      OBVIOUS
    <3>2. h \in [DOMAIN << >> -> S \cap 1..0]
      BY <3>1
    <3> HIDE DEF h
    <3> QED BY <3>1, <3>2 DEF Takes
  <2>3. << >> \in Seq(X) /\ 0 \in Nat
    OBVIOUS
  <2>4. Q(0)
    BY <2>1, <2>2, <2>3
  <2> HIDE DEF Q
  <2> QED BY <2>3, <2>4
<1>5. ASSUME NEW n \in Nat, n \in T PROVE n + 1 \in T
  <2> SUFFICES ASSUME n + 1 <= Len(list) PROVE Q(n + 1)
    OBVIOUS
  <2>1. at[n] \in Seq(X) /\ Takes(at[n], list, S \cap 1..n)
    BY <1>5, <1>1
  <2>2. n + 1 \in 1..Len(list) /\ (n + 1) - 1 = n /\ n + 1 # 0 /\ n + 1 \in 0..Len(list)
    BY <1>1
  <2>3. CASE n + 1 \in S
    <3>1. at[n + 1] = Append(at[n], list[n + 1])
      BY <1>2, <2>2, <2>3
    <3>2. list[n + 1] \in X
      BY <2>2
    <3>3. Takes(Append(at[n], list[n + 1]), list, S \cap 1..(n + 1))
      BY <2>1, <2>2, <2>3, TakesNext
    <3> QED BY <2>1, <3>1, <3>2, <3>3
  <2>4. CASE n + 1 \notin S
    <3>1. at[n + 1] = at[n]
      BY <1>2, <2>2, <2>4
    <3>2. S \cap 1..(n + 1) = S \cap 1..n
      BY <2>4
    <3> QED BY <2>1, <3>1, <3>2
  <2> QED BY <2>3, <2>4
<1>6. Nat \subseteq T
  <2> HIDE DEF T
  <2> QED BY <1>4, <1>5, NatSetInduction
<1>7. Q(Len(list))
  <2>1. Len(list) \in T
    BY <1>1, <1>6
  <2> HIDE DEF Q
  <2> QED BY <2>1, <1>1
<1> HIDE DEF Q
<1>8. Q(Len(list)) => /\ at[Len(list)] \in Seq(X)
                      /\ Takes(at[Len(list)], list, S \cap DOMAIN list)
  BY <1>1 DEF Q
<1> QED BY <1>3, <1>7, <1>8
===============================================================================
