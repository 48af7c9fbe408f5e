--------------------------- MODULE Judging_proofs ---------------------------
(***************************************************************************)
(* What the program judges by trying it: proofs about Survey (what an      *)
(* agent finds out of its machine) and Pipeline (what becomes of a file    *)
(* under a policy), and the lemmas on filtered sequences both rest on.     *)
(***************************************************************************)
EXTENDS Survey, Pipeline, SequenceTheorems, WellFoundedInduction, TLAPS

-----------------------------------------------------------------------------
(* Sequences: the part a filter keeps.                                      *)

(* A set of numbers with 0 that is closed under successor has them all.     *)
LEMMA EveryNumber ==
  ASSUME NEW T, 0 \in T, \A n \in Nat : n \in T => n + 1 \in T
  PROVE  Nat \subseteq T
  <1> DEFINE U == Nat \ T
             R == OpToRel(<, Nat)
  <1> SUFFICES ASSUME U # {} PROVE FALSE
    OBVIOUS
  <1>1. U \subseteq Nat
    OBVIOUS
  <1>2. IsWellFoundedOn(R, Nat)
    BY NatLessThanWellFounded, Zenon
  <1>3. PICK u \in U : \A v \in U : ~(<<v, u>> \in R)
    <2> HIDE DEF R, U
    <2> QED
      BY <1>1, <1>2, WFMin
  <1>4. \A v \in U : ~(v < u)
    BY <1>1, <1>3 DEF OpToRel
  <1> HIDE DEF R
  <1>5. u # 0 /\ u \in Nat
    OBVIOUS
  <1>6. u - 1 \in Nat /\ u - 1 < u /\ (u - 1) + 1 = u
    BY <1>5
  <1>7. u - 1 \in T
    BY <1>4, <1>6
  <1> QED
    BY <1>6, <1>7

(* The search of First finds a position, and none before it.                *)
LEMMA FirstIsLeast ==
  ASSUME NEW I, I \subseteq Nat, I # {}
  PROVE  First(I) \in I /\ \A j \in I : First(I) <= j
  <1> DEFINE R == OpToRel(<, Nat)
  <1>2. IsWellFoundedOn(R, Nat)
    BY NatLessThanWellFounded, Zenon
  <1>3. PICK u \in I : \A v \in I : ~(<<v, u>> \in R)
    <2> HIDE DEF R
    <2> QED
      BY <1>2, WFMin
  <1>4. \A v \in I : ~(v < u)
    BY <1>3 DEF OpToRel
  <1> HIDE DEF R
  <1>5. \A j \in I : u <= j
    BY <1>4
  <1> QED
    BY <1>5 DEF First

(* The recursion that Selected unfolds to.                                  *)
Unfolds(f, s, I) ==
  f = [n \in 0 .. Len(s) |->
         IF n = 0 THEN <<>> ELSE IF n \in I THEN Append(f[n - 1], s[n]) ELSE f[n - 1]]

LEMMA SelectedUnfolds ==
  ASSUME NEW s, NEW I, Len(s) \in Nat
  PROVE  \E f : Unfolds(f, s, I) /\ Selected(s, I) = f[Len(s)]
  <1> DEFINE Body(f, n) == IF n = 0 THEN <<>>
                           ELSE IF n \in I THEN Append(f[n - 1], s[n]) ELSE f[n - 1]
             P(m) == \E f : f = [n \in 0 .. m |-> Body(f, n)]
             T == {m \in Nat : P(m)}
  <1>1. 0 \in T
    <2> DEFINE g == [n \in 0 .. 0 |-> <<>>]
    <2>1. g = [n \in 0 .. 0 |-> Body(g, n)]
      OBVIOUS
    <2> QED
      BY <2>1
  <1>2. ASSUME NEW m \in Nat, m \in T PROVE m + 1 \in T
    <2>1. PICK f : f = [n \in 0 .. m |-> Body(f, n)]
      BY <1>2
    <2> DEFINE g == [n \in 0 .. m + 1 |-> IF n = m + 1 THEN Body(f, n) ELSE f[n]]
    <2>2. ASSUME NEW n \in 0 .. m + 1 PROVE Body(f, n) = Body(g, n)
      <3>1. CASE n = 0
        BY <3>1
      <3>2. CASE n # 0
        <4>1. n - 1 \in 0 .. m /\ n - 1 # m + 1 /\ n - 1 \in 0 .. m + 1
          BY <3>2
        <4>2. g[n - 1] = f[n - 1]
          BY <4>1
        <4> HIDE DEF g
        <4> QED
          BY <4>2
      <3> QED
        BY <3>1, <3>2
    <2>3. ASSUME NEW n \in 0 .. m + 1 PROVE g[n] = Body(f, n)
      <3>1. CASE n = m + 1
        BY <3>1
      <3>2. CASE n # m + 1
        <4>1. n \in 0 .. m
          BY <3>2
        <4> HIDE DEF Body
        <4>2. f[n] = Body(f, n)
          BY <2>1, <4>1
        <4> QED
          BY <3>2, <4>2
      <3> QED
        BY <3>1, <3>2
    <2>4. g = [n \in 0 .. m + 1 |-> Body(g, n)]
      <3>1. \A n \in 0 .. m + 1 : g[n] = Body(g, n)
        BY <2>2, <2>3
      <3>2. g = [n \in 0 .. m + 1 |-> g[n]]
        OBVIOUS
      <3> HIDE DEF g, Body
      <3> QED
        BY <3>1, <3>2
    <2> HIDE DEF g, Body
    <2> QED
      BY <2>4
  <1>3. Len(s) \in T
    <2> HIDE DEF T
    <2> QED
      BY <1>1, <1>2, EveryNumber
  <1>4. \E f : f = [n \in 0 .. Len(s) |-> Body(f, n)]
    BY <1>3
  <1> DEFINE h == CHOOSE f : f = [n \in 0 .. Len(s) |-> Body(f, n)]
  <1>5. h = [n \in 0 .. Len(s) |-> Body(h, n)]
    BY <1>4
  <1>6. Selected(s, I) = h[Len(s)]
    BY DEF Selected
  <1> HIDE DEF h
  <1> QED
    BY <1>5, <1>6 DEF Unfolds

(* The unfolding, step by step.                                             *)
Steps(f, s, I) ==
  /\ f[0] = <<>> /\ Selected(s, I) = f[Len(s)]
  /\ \A n \in Nat : n < Len(s) =>
         f[n + 1] = IF n + 1 \in I THEN Append(f[n], s[n + 1]) ELSE f[n]

LEMMA SelectedSteps ==
  ASSUME NEW S, NEW s \in Seq(S), NEW I
  PROVE  \E f : Steps(f, s, I) /\ \A n \in 0 .. Len(s) : f[n] \in Seq(S)
  <1>0. Len(s) \in Nat
    BY LenProperties
  <1>1. PICK f : Unfolds(f, s, I) /\ Selected(s, I) = f[Len(s)]
    BY <1>0, SelectedUnfolds
  <1>2. f[0] = <<>>
    BY <1>0, <1>1 DEF Unfolds
  <1>3. ASSUME NEW n \in Nat, n < Len(s)
        PROVE  f[n + 1] = IF n + 1 \in I THEN Append(f[n], s[n + 1]) ELSE f[n]
    <2>1. n + 1 \in 0 .. Len(s) /\ n + 1 # 0 /\ (n + 1) - 1 = n
      BY <1>0, <1>3
    <2>2. f[n + 1] = IF n + 1 \in I THEN Append(f[(n + 1) - 1], s[n + 1]) ELSE f[(n + 1) - 1]
      BY <1>1, <2>1 DEF Unfolds
    <2> QED
      BY <2>1, <2>2
  <1> DEFINE T == {n \in Nat : n <= Len(s) => f[n] \in Seq(S)}
  <1>4. 0 \in T
    BY <1>2, EmptySeq
  <1>5. ASSUME NEW n \in Nat, n \in T PROVE n + 1 \in T
    <2>1. CASE n + 1 > Len(s)
      BY <1>0, <2>1
    <2>2. CASE n + 1 <= Len(s)
      <3>1. f[n] \in Seq(S) /\ n < Len(s) /\ n + 1 \in 1 .. Len(s)
        BY <1>0, <1>5, <2>2
      <3>2. s[n + 1] \in S
        BY <3>1, ElementOfSeq
      <3>3. Append(f[n], s[n + 1]) \in Seq(S)
        BY <3>1, <3>2, AppendProperties
      <3>4. f[n + 1] \in Seq(S)
        BY <1>3, <3>1, <3>3
      <3> QED
        BY <3>4
    <2> QED
      BY <1>0, <2>1, <2>2
  <1>6. \A n \in 0 .. Len(s) : f[n] \in Seq(S)
    <2>1. Nat \subseteq T
      <3> HIDE DEF T
      <3> QED
        BY <1>4, <1>5, EveryNumber
    <2> QED
      BY <1>0, <2>1
  <1>7. Steps(f, s, I)
    BY <1>1, <1>2, <1>3 DEF Steps
  <1> QED
    BY <1>6, <1>7

(* Selected has the entries at the positions in I, and no others.           *)
LEMMA SelectedEntries ==
  ASSUME NEW S, NEW s \in Seq(S), NEW I
  PROVE  /\ Selected(s, I) \in Seq(S)
         /\ \A k \in DOMAIN Selected(s, I) :
                \E i \in DOMAIN s : i \in I /\ Selected(s, I)[k] = s[i]
         /\ \A i \in DOMAIN s :
                i \in I => \E k \in DOMAIN Selected(s, I) : Selected(s, I)[k] = s[i]
  <1>0. Len(s) \in Nat
    BY LenProperties
  <1>1. PICK f : Steps(f, s, I) /\ \A n \in 0 .. Len(s) : f[n] \in Seq(S)
    BY SelectedSteps
  <1> DEFINE From(n) == \A k \in 1 .. Len(f[n]) : \E i \in 1 .. n : i \in I /\ f[n][k] = s[i]
             All(n) == \A i \in 1 .. n : i \in I => \E k \in 1 .. Len(f[n]) : f[n][k] = s[i]
             T == {n \in Nat : n <= Len(s) => From(n) /\ All(n)}
  <1>2. 0 \in T
    <2>1. f[0] = <<>>
      BY <1>1 DEF Steps
    <2> QED
      BY <2>1
  <1>3. ASSUME NEW n \in Nat, n \in T PROVE n + 1 \in T
    <2>1. CASE n + 1 > Len(s)
      BY <1>0, <2>1
    <2>2. CASE n + 1 <= Len(s)
      <3>1. n < Len(s) /\ n \in 0 .. Len(s) /\ n + 1 \in 1 .. Len(s) /\ From(n) /\ All(n)
        <4>1. n < Len(s) /\ n <= Len(s) /\ n \in 0 .. Len(s) /\ n + 1 \in 1 .. Len(s)
          BY <1>0, <2>2
        <4>2. From(n) /\ All(n)
          <5> HIDE DEF From, All
          <5> QED
            BY <1>3, <4>1
        <4> QED
          BY <4>1, <4>2, Zenon
      <3>2. f[n] \in Seq(S) /\ s[n + 1] \in S
        BY <1>1, <3>1, ElementOfSeq
      <3>3. Len(f[n]) \in Nat
        BY <3>2, LenProperties
      <3>4. CASE n + 1 \in I
        <4>1. f[n + 1] = Append(f[n], s[n + 1])
          BY <1>1, <3>1, <3>4 DEF Steps
        <4>2. /\ Len(f[n + 1]) = Len(f[n]) + 1 /\ f[n + 1][Len(f[n]) + 1] = s[n + 1]
              /\ \A k \in 1 .. Len(f[n]) : f[n + 1][k] = f[n][k]
          BY <3>2, <4>1, AppendProperties
        <4>3. From(n + 1)
          <5> SUFFICES ASSUME NEW k \in 1 .. Len(f[n + 1])
                       PROVE  \E i \in 1 .. n + 1 : i \in I /\ f[n + 1][k] = s[i]
            OBVIOUS
          <5>1. CASE k = Len(f[n]) + 1
            BY <3>4, <4>2, <5>1
          <5>2. CASE k \in 1 .. Len(f[n])
            <6>1. PICK i \in 1 .. n : i \in I /\ f[n][k] = s[i]
              BY <3>1, <5>2
            <6> QED
              BY <4>2, <5>2, <6>1
          <5> QED
            BY <3>3, <4>2, <5>1, <5>2
        <4>4. All(n + 1)
          <5> SUFFICES ASSUME NEW i \in 1 .. n + 1, i \in I
                       PROVE  \E k \in 1 .. Len(f[n + 1]) : f[n + 1][k] = s[i]
            OBVIOUS
          <5>1. CASE i = n + 1
            <6>1. Len(f[n]) + 1 \in 1 .. Len(f[n + 1])
              BY <3>3, <4>2
            <6> QED
              BY <4>2, <5>1, <6>1
          <5>2. CASE i \in 1 .. n
            <6>1. PICK k \in 1 .. Len(f[n]) : f[n][k] = s[i]
              BY <3>1, <5>2
            <6>2. k \in 1 .. Len(f[n + 1])
              BY <3>3, <4>2
            <6> QED
              BY <4>2, <6>1, <6>2
          <5> QED
            BY <5>1, <5>2
        <4> HIDE DEF From, All
        <4> QED
          BY <4>3, <4>4
      <3>5. CASE n + 1 \notin I
        <4>1. f[n + 1] = f[n]
          BY <1>1, <3>1, <3>5 DEF Steps
        <4>2. From(n + 1)
          <5> SUFFICES ASSUME NEW k \in 1 .. Len(f[n + 1])
                       PROVE  \E i \in 1 .. n + 1 : i \in I /\ f[n + 1][k] = s[i]
            OBVIOUS
          <5>0. k \in 1 .. Len(f[n])
            BY <4>1, Zenon
          <5>1. PICK i \in 1 .. n : i \in I /\ f[n][k] = s[i]
            BY <3>1, <5>0, Zenon
          <5>2. i \in 1 .. n + 1
            OBVIOUS
          <5> QED
            BY <4>1, <5>1, <5>2, Zenon
        <4>3. All(n + 1)
          <5> SUFFICES ASSUME NEW i \in 1 .. n + 1, i \in I
                       PROVE  \E k \in 1 .. Len(f[n + 1]) : f[n + 1][k] = s[i]
            OBVIOUS
          <5>1. i \in 1 .. n
            BY <3>5
          <5> QED
            BY <3>1, <4>1, <5>1, Zenon
        <4> HIDE DEF From, All
        <4> QED
          BY <4>2, <4>3
      <3> QED
        BY <3>4, <3>5
    <2> QED
      BY <1>0, <2>1, <2>2
  <1>4. From(Len(s)) /\ All(Len(s))
    <2>1. Nat \subseteq T
      <3> HIDE DEF T
      <3> QED
        BY <1>2, <1>3, EveryNumber
    <2>2. Len(s) \in T
      BY <1>0, <2>1
    <2> HIDE DEF From, All
    <2> QED
      BY <1>0, <2>2
  <1>5. Selected(s, I) = f[Len(s)]
    BY <1>1 DEF Steps
  <1>6. Selected(s, I) \in Seq(S)
    BY <1>0, <1>1, <1>5
  <1>7. DOMAIN Selected(s, I) = 1 .. Len(f[Len(s)]) /\ DOMAIN s = 1 .. Len(s)
    BY <1>5, <1>6, LenProperties
  <1> QED
    BY <1>4, <1>5, <1>6, <1>7

(* What has been selected so far stays in front of what comes.              *)
LEMMA StepsKeep ==
  ASSUME NEW S, NEW s \in Seq(S), NEW I, NEW f, Steps(f, s, I),
         \A n \in 0 .. Len(s) : f[n] \in Seq(S), NEW n \in 0 .. Len(s)
  PROVE  /\ Len(f[n]) <= Len(f[Len(s)])
         /\ \A k \in 1 .. Len(f[n]) : f[Len(s)][k] = f[n][k]
  <1>0. Len(s) \in Nat /\ Len(f[n]) \in Nat
    BY LenProperties
  <1> DEFINE Kept(m) == /\ Len(f[n]) <= Len(f[m])
                        /\ \A k \in 1 .. Len(f[n]) : f[m][k] = f[n][k]
             T == {d \in Nat : n + d <= Len(s) => Kept(n + d)}
  <1>1. 0 \in T
    <2>1. n + 0 = n
      BY <1>0
    <2> QED
      BY <1>0, <2>1
  <1>2. ASSUME NEW d \in Nat, d \in T PROVE d + 1 \in T
    <2>1. CASE n + (d + 1) > Len(s)
      BY <1>0, <2>1
    <2>2. CASE n + (d + 1) <= Len(s)
      <3>1. PICK m \in Nat : m = n + d
        BY <1>0
      <3>2. /\ m < Len(s) /\ m \in 0 .. Len(s) /\ m + 1 \in 1 .. Len(s) /\ Kept(m)
            /\ n + (d + 1) = m + 1
        BY <1>0, <1>2, <2>2, <3>1
      <3>3. f[m] \in Seq(S) /\ s[m + 1] \in S
        BY <3>2, ElementOfSeq
      <3>4. f[m + 1] = f[m] \/ f[m + 1] = Append(f[m], s[m + 1])
        BY <3>2 DEF Steps
      <3>5. Len(f[m]) \in Nat
        BY <3>3, LenProperties
      <3>6. /\ Len(f[m]) <= Len(f[m + 1]) /\ Len(f[m + 1]) \in Nat
            /\ \A k \in 1 .. Len(f[m]) : f[m + 1][k] = f[m][k]
        <4>1. CASE f[m + 1] = f[m]
          BY <3>5, <4>1
        <4>2. CASE f[m + 1] = Append(f[m], s[m + 1])
          <5>1. /\ Len(f[m + 1]) = Len(f[m]) + 1
                /\ \A k \in 1 .. Len(f[m]) : f[m + 1][k] = f[m][k]
            BY <3>3, <4>2, AppendProperties
          <5> QED
            BY <3>5, <5>1
        <4> QED
          BY <3>4, <4>1, <4>2
      <3>7. Kept(m + 1)
        BY <1>0, <3>2, <3>5, <3>6
      <3>8. Kept(n + (d + 1))
        BY <3>2, <3>7
      <3> HIDE DEF Kept
      <3> QED
        BY <3>8
    <2> QED
      BY <1>0, <2>1, <2>2
  <1>3. PICK d \in Nat : n + d = Len(s)
    <2>1. Len(s) - n \in Nat /\ n + (Len(s) - n) = Len(s)
      BY <1>0
    <2> QED
      BY <2>1
  <1>4. d \in T
    <2> HIDE DEF T
    <2> QED
      BY <1>1, <1>2, EveryNumber
  <1>5. Kept(n + d)
    BY <1>0, <1>3, <1>4
  <1> QED
    BY <1>3, <1>5

(* A selection of what was selected and rewritten is the selection of the   *)
(* whole: J picks from the rewritten p what K picks from q.                 *)
LEMMA SelectedTwice ==
  ASSUME NEW S, NEW s \in Seq(S), NEW I, NEW J, NEW K,
         NEW Q, NEW p \in Seq(Q), NEW q \in Seq(Q),
         Len(q) = Len(s), Len(p) = Len(Selected(s, I)),
         \A n \in 1 .. Len(s) : n \in K => n \in I,
         \A n \in 1 .. Len(s) : \A k \in 1 .. Len(p) :
             n \in I /\ Selected(s, I)[k] = s[n]
             => (k \in J <=> n \in K) /\ (k \in J => p[k] = q[n])
  PROVE  Selected(p, J) = Selected(q, K)
  <1>0. Len(s) \in Nat /\ Len(p) \in Nat
    BY LenProperties
  <1>1. PICK f : Steps(f, s, I) /\ \A n \in 0 .. Len(s) : f[n] \in Seq(S)
    BY SelectedSteps
  <1>2. PICK g : Steps(g, p, J) /\ \A n \in 0 .. Len(p) : g[n] \in Seq(Q)
    BY SelectedSteps
  <1>3. PICK h : Steps(h, q, K) /\ \A n \in 0 .. Len(q) : h[n] \in Seq(Q)
    BY SelectedSteps
  <1>4. Len(p) = Len(f[Len(s)]) /\ Selected(s, I) = f[Len(s)]
    BY <1>1 DEF Steps
  <1> DEFINE Agree(n) == g[Len(f[n])] = h[n]
             T == {n \in Nat : n <= Len(s) => Agree(n)}
  <1>5. 0 \in T
    <2>1. f[0] = <<>> /\ g[0] = <<>> /\ h[0] = <<>>
      BY <1>1, <1>2, <1>3 DEF Steps
    <2> QED
      BY <2>1
  <1>6. ASSUME NEW n \in Nat, n \in T PROVE n + 1 \in T
    <2>1. CASE n + 1 > Len(s)
      BY <1>0, <2>1
    <2>2. CASE n + 1 <= Len(s)
      <3>1. /\ n < Len(s) /\ n + 1 \in 1 .. Len(s) /\ n \in 0 .. Len(s)
            /\ n + 1 \in 0 .. Len(s) /\ Agree(n)
        BY <1>0, <1>6, <2>2
      <3>2. f[n] \in Seq(S) /\ s[n + 1] \in S
        BY <1>1, <3>1, ElementOfSeq
      <3>3. f[n + 1] = IF n + 1 \in I THEN Append(f[n], s[n + 1]) ELSE f[n]
        BY <1>1, <3>1 DEF Steps
      <3>4. h[n + 1] = IF n + 1 \in K THEN Append(h[n], q[n + 1]) ELSE h[n]
        BY <1>3, <3>1 DEF Steps
      <3>5. CASE n + 1 \notin I
        BY <3>1, <3>3, <3>4, <3>5
      <3>6. CASE n + 1 \in I
        <4>1. PICK k \in Nat : k = Len(f[n])
          BY <3>2, LenProperties
        <4>2. Len(f[n + 1]) = k + 1 /\ f[n + 1][k + 1] = s[n + 1]
          BY <3>2, <3>3, <3>6, <4>1, AppendProperties
        <4>3. /\ Len(f[n + 1]) <= Len(f[Len(s)])
              /\ \A i \in 1 .. Len(f[n + 1]) : f[Len(s)][i] = f[n + 1][i]
          BY <1>1, <3>1, StepsKeep
        <4>4. k + 1 \in 1 .. Len(p) /\ k < Len(p)
          BY <1>0, <1>4, <4>1, <4>2, <4>3
        <4>5. f[Len(s)][k + 1] = s[n + 1]
          <5>1. k + 1 \in 1 .. Len(f[n + 1])
            BY <4>2
          <5> QED
            BY <4>2, <4>3, <5>1
        <4>6. (k + 1 \in J <=> n + 1 \in K) /\ (k + 1 \in J => p[k + 1] = q[n + 1])
          BY <1>4, <3>1, <3>6, <4>4, <4>5
        <4>7. g[k + 1] = IF k + 1 \in J THEN Append(g[k], p[k + 1]) ELSE g[k]
          BY <1>2, <4>1, <4>4 DEF Steps
        <4>8. g[k] = h[n]
          BY <3>1, <4>1
        <4>9. g[k + 1] = h[n + 1]
          <5>1. CASE n + 1 \in K
            BY <3>4, <4>6, <4>7, <4>8, <5>1
          <5>2. CASE n + 1 \notin K
            BY <3>4, <4>6, <4>7, <4>8, <5>2
          <5> QED
            BY <5>1, <5>2
        <4> QED
          BY <4>2, <4>9
      <3> QED
        BY <3>5, <3>6
    <2> QED
      BY <1>0, <2>1, <2>2
  <1>7. Agree(Len(s))
    <2>1. Nat \subseteq T
      <3> HIDE DEF T
      <3> QED
        BY <1>5, <1>6, EveryNumber
    <2>2. Len(s) \in T
      BY <1>0, <2>1
    <2> QED
      BY <1>0, <2>2
  <1> QED
    BY <1>2, <1>3, <1>4, <1>7 DEF Steps

-----------------------------------------------------------------------------
(* Survey: the inductive invariant.                                         *)

SoftTriple(s) == Triple(s.codec, "", s.depth, "software")
SoftTrial(s) == [triple |-> SoftTriple(s), on |-> s]
NvdecTrial(s) == [triple |-> Triple(s.codec, s.profile, s.depth, "nvdec"), on |-> s]
TrialSet == {SoftTrial(s) : s \in Streams} \cup {NvdecTrial(s) : s \in Streams}
Told == [triple : {t.triple : t \in TrialSet}, status : {"ok", "soft", "fail"}]

Probing == {"dest", "src", "open", "rename", "read", "undest", "unsrc"}
Surveying == {"trials", "hung", "register"} \cup Probing
Seen == {<<>>, <<"atomic">>, <<"not">>, <<"untested">>}

Processes == [pc : {"off", "samples", "registered"} \cup Surveying,
              left : Seq(Streams) \cup Seq(TrialSet), decoders : Seq(Told),
              moved : BOOLEAN, verdicts : Seen, upset : BOOLEAN]

Documents == [transport : {"mount", "stream"}, classes : (SUBSET Classes) \ {{}},
              encoders : SUBSET Encoders, muxers : SUBSET Muxers, decoders : Seq(Told),
              mounts : {<<>>, <<"library">>}]
Rows == [cap : Documents, eligible : BOOLEAN, verdicts : Seen, machine : Machines, upset : BOOLEAN]

SurveyTypes ==
  /\ machine \in [Agents -> Machines] /\ transport \in [Agents -> {"mount", "stream"}]
  /\ clips \in [Agents -> [Streams -> Streams \cup {NoClip}]]
  /\ proc \in [Agents -> Processes]
  /\ mount \in [rename : {"atomic", "refuses", "keeps"}, dest : {"none", "OLD", "NEW"},
                src : {"none", "NEW"}, held : SUBSET Agents]
  /\ registry \in [Agents -> Rows \cup {Unknown}]
  /\ upgrades \in 0 .. MaxUpgrades /\ trouble \in 0 .. MaxTrouble

Names(q, s) == \E i \in DOMAIN q : q[i].triple = SoftTriple(s)
ClipsMade(m, c) == \A s \in Streams : Made(m, s) # NoClip => c[s] = s
TrueRows(d, m) == \A i \in DOMAIN d : d[i].status = "ok" => Truly(m, d[i])
InPeace(d, m) == \A i \in DOMAIN d :
    /\ d[i].triple.kind = "software"
    /\ <<d[i].triple.codec, d[i].triple.depth>> \in m.decodes
    => d[i].status = "ok"

Queue(p, c) ==
  /\ p.pc \in {"off", "registered"} => p = [Idle EXCEPT !.pc = p.pc]
  /\ p.pc = "samples" => p.left \in Seq(Streams) /\ p.decoders = <<>>
  /\ p.pc \in {"trials", "hung"} =>
         /\ p.left \in Seq(TrialSet)
         /\ \A i \in DOMAIN p.left : c[p.left[i].on] = p.left[i].on
  /\ p.pc = "hung" => p.left # <<>>
  /\ p.pc \in Probing \cup {"register"} => p.left = <<>>

Thorough(p, m, c) ==
  /\ p.pc = "samples" /\ ~p.upset =>
         \A s \in Streams : Made(m, s) # NoClip =>
             c[s] = s \/ \E i \in DOMAIN p.left : p.left[i] = s
  /\ p.pc \in Surveying =>
         /\ \A s \in Streams : c[s] = s => Names(p.left, s) \/ Names(p.decoders, s)
         /\ ~p.upset => ClipsMade(m, c) /\ InPeace(p.decoders, m)

Own(p, m, c) ==
  /\ \A s \in Streams : c[s] \in {NoClip, s}
  /\ Queue(p, c) /\ TrueRows(p.decoders, m) /\ Thorough(p, m, c)

Kept(r) ==
  LET m == r.machine IN
  /\ r.cap.encoders = {e \in Encoders : e \in m.lists}
  /\ r.cap.muxers = m.muxers \cap Muxers
  /\ r.cap.classes = ClassesFor(r.cap.encoders)
  /\ TrueRows(r.cap.decoders, m)
  /\ ~r.upset => /\ InPeace(r.cap.decoders, m)
                 /\ \A s \in Streams : Made(m, s) # NoClip => Names(r.cap.decoders, s)

Mounted ==
  /\ mount.held \subseteq {a \in Agents : proc[a].pc \in {"rename", "read"}}
  /\ \A a \in Agents : proc[a].pc \in Probing \/ proc[a].verdicts # <<>> => transport[a] = "mount"

SurveyInv ==
  /\ SurveyTypes /\ Mounted
  /\ \A a \in Agents : Own(proc[a], machine[a], clips[a])
  /\ \A a \in Agents : Known(a) => Kept(registry[a])

SoleProber ==
  \A a, b \in Agents : transport[a] = "mount" /\ transport[b] = "mount" => a = b

ProbeTells(a) ==
  LET p == proc[a] IN
  /\ p.pc = "src" => mount.dest = "OLD"
  /\ p.pc \in {"open", "rename"} => mount.dest = "OLD" /\ mount.src = "NEW"
  /\ p.pc = "rename" => a \in mount.held
  /\ p.pc = "read" => ((p.moved /\ mount.dest = "NEW") <=> mount.rename = "atomic")
  /\ p.verdicts = <<"atomic">> => mount.rename = "atomic"
  /\ p.verdicts = <<"not">> => mount.rename # "atomic"

LEMMA Clips ==
  /\ Samples \in Seq(Streams)
  /\ \A s \in Streams : s # NoClip /\ IsUsable(s, s) /\ ~IsUsable(NoClip, s)
  /\ \A s \in Streams : \A c \in {NoClip, s} : IsUsable(c, s) <=> c = s
  <1>1. Samples \in Seq(Streams) /\ \A s \in Streams : ~IsUsable(NoClip, s)
    BY SurveyAssumption
  <1>2. \A s \in Streams : IsUsable(s, s)
    BY DEF IsUsable
  <1> QED
    BY <1>1, <1>2

(* What is made for a stream is its clip or nothing.                        *)
LEMMA MadeIsTheClip ==
  ASSUME NEW m \in Machines, NEW s \in Streams
  PROVE  Made(m, s) \in {NoClip, s}
  <1> DEFINE E == EncodersFor[s.codec]
             able == {i \in DOMAIN E : E[i] \in m.lists /\ IsUsable(m.emits[E[i]][s], s)}
  <1>1. MachineOK(m) /\ DOMAIN E \subseteq Nat
    BY SurveyAssumption
  <1>2. Made(m, s) = IF able = {} THEN NoClip ELSE m.emits[E[First(able)]][s]
    BY DEF Made
  <1>3. CASE able # {}
    <2>1. able \subseteq Nat
      BY <1>1
    <2>2. First(able) \in able
      <3> HIDE DEF able
      <3> QED
        BY <1>3, <2>1, FirstIsLeast
    <2>3. PICK i \in DOMAIN E : i = First(able) /\ IsUsable(m.emits[E[i]][s], s)
      BY <2>2
    <2>4. E[i] \in DOMAIN m.emits
      BY <1>1 DEF MachineOK
    <2>5. m.emits[E[i]][s] = s
      <3>1. \A e \in DOMAIN m.emits, t \in Streams :
               IsUsable(m.emits[e][t], t) => m.emits[e][t] = t
        BY <1>1 DEF MachineOK
      <3> QED
        BY <2>3, <2>4, <3>1
    <2> HIDE DEF able, E
    <2> QED
      BY <1>2, <1>3, <2>3, <2>5
  <1> QED
    BY <1>2, <1>3

(* The trials that are planned: each is on a clip that is there, and every  *)
(* clip that is there has a software trial of its codec and depth.          *)
LEMMA SoftwareTrialsCover ==
  ASSUME NEW have \in Seq(Streams)
  PROVE  /\ SoftwareTrials(have) \in Seq(TrialSet)
         /\ \A i \in DOMAIN SoftwareTrials(have) :
                \E j \in DOMAIN have : SoftwareTrials(have)[i].on = have[j]
         /\ \A j \in DOMAIN have : Names(SoftwareTrials(have), have[j])
  <1> DEFINE K == {i \in DOMAIN have : \A j \in 1 .. i - 1 : \/ have[j].codec # have[i].codec
                                                            \/ have[j].depth # have[i].depth}
             firsts == Selected(have, K)
             trials == SoftwareTrials(have)
  <1>0. Len(have) \in Nat /\ DOMAIN have = 1 .. Len(have)
    BY LenProperties
  <1>1. /\ firsts \in Seq(Streams)
        /\ \A k \in DOMAIN firsts : \E i \in DOMAIN have : i \in K /\ firsts[k] = have[i]
        /\ \A i \in DOMAIN have : i \in K => \E k \in DOMAIN firsts : firsts[k] = have[i]
    <2> HIDE DEF K
    <2> QED
      BY SelectedEntries
  <1>2. trials = [i \in DOMAIN firsts |-> SoftTrial(firsts[i])]
    BY DEF SoftwareTrials, SoftTrial, SoftTriple
  <1>3. ASSUME NEW j \in DOMAIN have
        PROVE  \E i \in K : have[i].codec = have[j].codec /\ have[i].depth = have[j].depth
    <2> DEFINE same == {i \in DOMAIN have : have[i].codec = have[j].codec /\ have[i].depth = have[j].depth}
    <2>1. same \subseteq Nat /\ same # {}
      BY <1>0
    <2>2. First(same) \in same /\ \A i \in same : First(same) <= i
      <3> HIDE DEF same
      <3> QED
        BY <2>1, FirstIsLeast
    <2>3. PICK n \in same : n = First(same)
      BY <2>2
    <2>4. ASSUME NEW i \in 1 .. n - 1
          PROVE  have[i].codec # have[n].codec \/ have[i].depth # have[n].depth
      <3>0. n \in DOMAIN have
        OBVIOUS
      <3>1. i \in DOMAIN have /\ i < n
        <4> HIDE DEF same, K
        <4> QED
          BY <1>0, <3>0
      <3>2. i \notin same
        <4>1. n \in Nat /\ i \in Nat /\ ~(n <= i)
          <5> HIDE DEF same, K
          <5> QED
            BY <1>0, <3>0, <3>1
        <4> HIDE DEF same, K
        <4> QED
          BY <2>2, <2>3, <4>1
      <3>3. ~(have[i].codec = have[j].codec /\ have[i].depth = have[j].depth)
        <4> HIDE DEF K
        <4> QED
          BY <3>1, <3>2
      <3>4. have[n].codec = have[j].codec /\ have[n].depth = have[j].depth
        BY <2>3
      <3> QED
        BY <3>3, <3>4
    <2>5. n \in K
      BY <2>4
    <2> QED
      BY <2>3, <2>5
  <1> HIDE DEF K, firsts, trials
  <1>4. Len(firsts) \in Nat /\ DOMAIN firsts = 1 .. Len(firsts)
    BY <1>1, LenProperties
  <1>5. \A i \in DOMAIN firsts : firsts[i] \in Streams
    BY <1>1, <1>4, ElementOfSeq
  <1>6. trials \in Seq(TrialSet)
    <2>1. \A i \in 1 .. Len(firsts) : SoftTrial(firsts[i]) \in TrialSet
      BY <1>4, <1>5 DEF TrialSet
    <2>2. trials \in [1 .. Len(firsts) -> TrialSet]
      BY <1>2, <1>4, <2>1
    <2> QED
      BY <1>4, <2>2, SeqDef
  <1>7. \A i \in DOMAIN trials : \E j \in DOMAIN have : trials[i].on = have[j]
    BY <1>1, <1>2 DEF SoftTrial
  <1>8. ASSUME NEW j \in DOMAIN have PROVE Names(trials, have[j])
    <2>1. PICK i \in K : have[i].codec = have[j].codec /\ have[i].depth = have[j].depth
      BY <1>3
    <2>2. i \in DOMAIN have
      BY DEF K
    <2>3. PICK k \in DOMAIN firsts : firsts[k] = have[i]
      BY <1>1, <2>2
    <2>4. k \in DOMAIN trials /\ trials[k].triple = SoftTriple(have[i])
      BY <1>2, <2>3 DEF SoftTrial
    <2>5. SoftTriple(have[i]) = SoftTriple(have[j])
      BY <2>1 DEF SoftTriple
    <2> QED
      BY <2>4, <2>5 DEF Names
  <1> QED
    BY <1>6, <1>7, <1>8 DEF trials

LEMMA NvdecTrialsTypes ==
  ASSUME NEW have \in Seq(Streams), NEW cuda
  PROVE  /\ NvdecTrials(have, cuda) \in Seq(TrialSet)
         /\ \A i \in DOMAIN NvdecTrials(have, cuda) :
                \E j \in DOMAIN have : NvdecTrials(have, cuda)[i].on = have[j]
  <1> DEFINE all == [i \in DOMAIN have |-> NvdecTrial(have[i])]
  <1>1. NvdecTrials(have, cuda) = IF cuda THEN all ELSE <<>>
    BY DEF NvdecTrials, NvdecTrial
  <1>2. Len(have) \in Nat /\ DOMAIN have = 1 .. Len(have)
    BY LenProperties
  <1>3. \A i \in 1 .. Len(have) : NvdecTrial(have[i]) \in TrialSet
    BY <1>2, ElementOfSeq DEF TrialSet
  <1>4. all \in [1 .. Len(have) -> TrialSet]
    BY <1>2, <1>3
  <1>5. all \in Seq(TrialSet)
    BY <1>2, <1>4, SeqDef
  <1>6. \A i \in DOMAIN all : all[i].on = have[i]
    BY DEF NvdecTrial
  <1>7. \A i \in DOMAIN all : \E j \in DOMAIN have : all[i].on = have[j]
    BY <1>6
  <1> HIDE DEF all
  <1>8. CASE cuda
    BY <1>1, <1>5, <1>7, <1>8
  <1>9. CASE ~cuda
    BY <1>1, <1>9, EmptySeq
  <1> QED
    BY <1>8, <1>9

(* All of them, for an agent with these clips.                              *)
LEMMA TrialsCover ==
  ASSUME NEW have \in Seq(Streams), NEW cuda, NEW c, \A j \in DOMAIN have : c[have[j]] = have[j]
  PROVE  LET q == SoftwareTrials(have) \o NvdecTrials(have, cuda) IN
         /\ q \in Seq(TrialSet)
         /\ \A i \in DOMAIN q : c[q[i].on] = q[i].on
         /\ \A j \in DOMAIN have : Names(q, have[j])
  <1>1. PICK u : u = SoftwareTrials(have)
    OBVIOUS
  <1>2. PICK v : v = NvdecTrials(have, cuda)
    OBVIOUS
  <1>3. PICK q : q = u \o v
    OBVIOUS
  <1>4. /\ u \in Seq(TrialSet) /\ \A i \in DOMAIN u : \E j \in DOMAIN have : u[i].on = have[j]
        /\ \A j \in DOMAIN have : Names(u, have[j])
    BY <1>1, SoftwareTrialsCover
  <1>5. v \in Seq(TrialSet) /\ \A i \in DOMAIN v : \E j \in DOMAIN have : v[i].on = have[j]
    BY <1>2, NvdecTrialsTypes
  <1>6. Len(u) \in Nat /\ Len(v) \in Nat /\ DOMAIN u = 1 .. Len(u) /\ DOMAIN v = 1 .. Len(v)
    BY <1>4, <1>5, LenProperties
  <1>7. /\ q \in Seq(TrialSet) /\ Len(q) = Len(u) + Len(v)
        /\ \A i \in 1 .. Len(u) + Len(v) : q[i] = IF i <= Len(u) THEN u[i] ELSE v[i - Len(u)]
    BY <1>3, <1>4, <1>5, ConcatProperties
  <1>8. DOMAIN q = 1 .. Len(u) + Len(v)
    BY <1>7, LenProperties
  <1>9. ASSUME NEW i \in DOMAIN q PROVE c[q[i].on] = q[i].on
    <2>1. \E j \in DOMAIN have : q[i].on = have[j]
      <3>1. CASE i <= Len(u)
        BY <1>4, <1>6, <1>7, <1>8, <3>1
      <3>2. CASE i > Len(u)
        <4>1. i - Len(u) \in DOMAIN v /\ q[i] = v[i - Len(u)]
          BY <1>6, <1>7, <1>8, <3>2
        <4> QED
          BY <1>5, <4>1
      <3> QED
        BY <1>6, <1>8, <3>1, <3>2
    <2> QED
      BY <2>1
  <1>10. ASSUME NEW j \in DOMAIN have PROVE Names(q, have[j])
    <2>1. PICK i \in DOMAIN u : u[i].triple = SoftTriple(have[j])
      BY <1>4 DEF Names
    <2>2. i \in DOMAIN q /\ q[i] = u[i]
      BY <1>6, <1>7, <1>8
    <2> QED
      BY <2>1, <2>2 DEF Names
  <1> QED
    BY <1>1, <1>2, <1>3, <1>7, <1>9, <1>10

(* A trial on a clip that is there tells what the machine does.             *)
LEMMA TrialsTell ==
  ASSUME NEW m \in Machines, NEW t \in TrialSet, NEW st,
         st = Classify(Decode(m, t.triple.kind, t.on))
  PROVE  /\ st \in {"ok", "soft", "fail"}
         /\ st = "ok" => Truly(m, t)
         /\ /\ t.triple.kind = "software"
            /\ <<t.triple.codec, t.triple.depth>> \in m.decodes
            => st = "ok"
  <1>0. Frames \in Nat \ {0}
    BY SurveyAssumption
  <1>1. PICK s \in Streams : t = SoftTrial(s) \/ t = NvdecTrial(s)
    BY DEF TrialSet
  <1>2. CASE t = SoftTrial(s)
    <2>1. /\ t.on = s /\ t.triple.kind = "software" /\ t.triple.codec = s.codec
          /\ t.triple.depth = s.depth
      BY <1>2 DEF SoftTrial, SoftTriple, Triple
    <2>2. CASE <<s.codec, s.depth>> \in m.decodes
      BY <1>0, <2>1, <2>2, SMTT(30) DEF Decode, Classify, Ending, Truly
    <2>3. CASE <<s.codec, s.depth>> \notin m.decodes
      BY <1>0, <2>1, <2>3 DEF Decode, Classify, Ending, Truly
    <2> QED
      BY <2>2, <2>3
  <1>3. CASE t = NvdecTrial(s)
    <2>1. /\ t.on = s /\ t.triple.kind = "nvdec" /\ t.triple.codec = s.codec
          /\ t.triple.depth = s.depth /\ t.triple.profile = s.profile
      BY <1>3 DEF NvdecTrial, Triple
    <2>2. CASE s \in m.hard
      BY <1>0, <2>1, <2>2 DEF Decode, Classify, Ending, Truly
    <2>3. CASE s \notin m.hard
      BY <1>0, <2>1, <2>3 DEF Decode, Classify, Ending, Truly
    <2> QED
      BY <2>2, <2>3
  <1> QED
    BY <1>1, <1>2, <1>3

(* One more verdict, of the trial at the head.                              *)
WithVerdict(p, st, u) ==
  [p EXCEPT !.pc = "trials", !.left = Tail(@), !.upset = @ \/ u,
            !.decoders = Append(@, [triple |-> Head(p.left).triple, status |-> st])]

LEMMA TriedKeeps ==
  ASSUME NEW p \in Processes, NEW m \in Machines, NEW c, Own(p, m, c),
         p.pc \in {"trials", "hung"}, p.left # <<>>,
         NEW st \in {"ok", "soft", "fail"}, NEW u \in BOOLEAN,
         st = "ok" => Truly(m, Head(p.left)),
         ~u => (/\ Head(p.left).triple.kind = "software"
                /\ <<Head(p.left).triple.codec, Head(p.left).triple.depth>> \in m.decodes
                => st = "ok"),
         NEW q, q = WithVerdict(p, st, u)
  PROVE  q \in Processes /\ Own(q, m, c) /\ q.verdicts = p.verdicts /\ q.pc = "trials"
  <1>1. PICK l \in Seq(TrialSet) : l = p.left
    BY DEF Own, Queue
  <1>2. PICK d \in Seq(Told) : d = p.decoders
    BY DEF Processes
  <1>3. /\ Len(l) \in Nat \ {0} /\ Head(l) = l[1] /\ Tail(l) \in Seq(TrialSet)
        /\ Len(Tail(l)) = Len(l) - 1 /\ \A i \in 1 .. Len(l) - 1 : Tail(l)[i] = l[i + 1]
        /\ DOMAIN l = 1 .. Len(l) /\ DOMAIN Tail(l) = 1 .. Len(l) - 1
    BY <1>1, HeadTailProperties, LenProperties, EmptySeq
  <1>4. PICK t \in TrialSet : t = Head(l)
    BY <1>3, ElementOfSeq
  <1>5. PICK entry \in Told : entry = [triple |-> t.triple, status |-> st]
    BY DEF Told
  <1>6. entry.triple = t.triple /\ entry.status = st
    BY <1>5
  <1>7. PICK e : e = Append(d, entry)
    OBVIOUS
  <1>8. /\ e \in Seq(Told) /\ Len(e) = Len(d) + 1 /\ Len(d) \in Nat /\ e[Len(d) + 1] = entry
        /\ \A i \in 1 .. Len(d) : e[i] = d[i]
        /\ DOMAIN e = 1 .. Len(d) + 1 /\ DOMAIN d = 1 .. Len(d)
    BY <1>7, AppendProperties, LenProperties
  <1>9. /\ q = [p EXCEPT !.pc = "trials", !.left = Tail(l), !.upset = @ \/ u, !.decoders = e]
        /\ p.upset \in BOOLEAN
    BY <1>1, <1>2, <1>4, <1>5, <1>7 DEF Processes, WithVerdict
  <1>10. q \in Processes
    BY <1>3, <1>8, <1>9 DEF Processes, Surveying
  <1>11. /\ q.pc = "trials" /\ q.left = Tail(l) /\ q.decoders = e /\ q.verdicts = p.verdicts
         /\ ~q.upset => ~p.upset /\ ~u
    BY <1>9 DEF Processes
  <1>12. Queue(q, c)
    <2>1. \A i \in DOMAIN l : c[l[i].on] = l[i].on
      BY <1>1 DEF Own, Queue
    <2>2. \A i \in DOMAIN Tail(l) : c[Tail(l)[i].on] = Tail(l)[i].on
      BY <1>3, <2>1
    <2> QED
      BY <1>3, <1>11, <2>2 DEF Queue, Probing
  <1>13. ASSUME NEW i \in DOMAIN e PROVE (i \in DOMAIN d /\ e[i] = d[i]) \/ e[i] = entry
    BY <1>8
  <1>14. TrueRows(e, m)
    <2>1. TrueRows(d, m)
      BY <1>2 DEF Own
    <2>2. ASSUME st = "ok" PROVE Truly(m, entry)
      <3>1. Truly(m, t)
        BY <1>1, <1>4, <2>2
      <3> QED
        BY <1>6, <3>1 DEF Truly
    <2>3. ASSUME NEW i \in DOMAIN e, e[i].status = "ok" PROVE Truly(m, e[i])
      <3>1. CASE i \in DOMAIN d /\ e[i] = d[i]
        BY <2>1, <2>3, <3>1 DEF TrueRows
      <3>2. CASE e[i] = entry
        BY <1>6, <2>2, <2>3, <3>2
      <3> QED
        BY <1>13, <3>1, <3>2
    <2> QED
      BY <2>3 DEF TrueRows
  <1>15. ASSUME ~q.upset PROVE ClipsMade(m, c) /\ InPeace(e, m)
    <2>1. ClipsMade(m, c) /\ InPeace(d, m) /\ ~u
      BY <1>2, <1>11, <1>15 DEF Own, Thorough, Surveying
    <2>2. ASSUME NEW i \in DOMAIN e, e[i].triple.kind = "software",
                 <<e[i].triple.codec, e[i].triple.depth>> \in m.decodes
          PROVE  e[i].status = "ok"
      <3>1. CASE i \in DOMAIN d /\ e[i] = d[i]
        BY <2>1, <2>2, <3>1 DEF InPeace
      <3>2. CASE e[i] = entry
        BY <1>1, <1>4, <1>6, <2>1, <2>2, <3>2
      <3> QED
        BY <1>13, <3>1, <3>2
    <2> QED
      BY <2>1, <2>2 DEF InPeace
  <1>16. ASSUME NEW s \in Streams, c[s] = s PROVE Names(Tail(l), s) \/ Names(e, s)
    <2>1. Names(l, s) \/ Names(d, s)
      BY <1>1, <1>2, <1>16 DEF Own, Thorough, Surveying
    <2>2. CASE Names(d, s)
      <3>1. PICK i \in DOMAIN d : d[i].triple = SoftTriple(s)
        BY <2>2 DEF Names
      <3>2. i \in DOMAIN e /\ e[i].triple = SoftTriple(s)
        BY <1>8, <3>1
      <3> QED
        BY <3>2 DEF Names
    <2>3. CASE Names(l, s)
      <3>1. PICK i \in DOMAIN l : l[i].triple = SoftTriple(s)
        BY <2>3 DEF Names
      <3>2. CASE i = 1
        <4>1. e[Len(d) + 1].triple = SoftTriple(s) /\ Len(d) + 1 \in DOMAIN e
          BY <1>3, <1>4, <1>6, <1>8, <3>1, <3>2
        <4> QED
          BY <4>1 DEF Names
      <3>3. CASE i # 1
        <4>1. i - 1 \in DOMAIN Tail(l) /\ Tail(l)[i - 1] = l[i]
          BY <1>3, <3>3
        <4> QED
          BY <3>1, <4>1 DEF Names
      <3> QED
        BY <3>2, <3>3
    <2> QED
      BY <2>1, <2>2, <2>3
  <1>17. Thorough(q, m, c)
    BY <1>11, <1>15, <1>16 DEF Thorough
  <1>18. \A s \in Streams : c[s] \in {NoClip, s}
    BY DEF Own
  <1> QED
    BY <1>10, <1>11, <1>12, <1>14, <1>17, <1>18 DEF Own

Mountings == [rename : {"atomic", "refuses", "keeps"}, dest : {"none", "OLD", "NEW"},
              src : {"none", "NEW"}, held : SUBSET Agents]

(* A step of one process, with what it leaves of the others.                *)
LEMMA RowStep ==
  ASSUME SurveyInv, NEW a \in Agents, NEW q \in Processes,
         proc' = [proc EXCEPT ![a] = q],
         NEW c \in [Streams -> Streams \cup {NoClip}], clips' = [clips EXCEPT ![a] = c],
         Own(q, machine[a], c),
         q.pc \in Probing \/ q.verdicts # <<>> => transport[a] = "mount",
         mount' \in Mountings,
         mount'.held \ {a} \subseteq mount.held,
         a \in mount'.held => q.pc \in {"rename", "read"},
         trouble' \in 0 .. MaxTrouble,
         registry' \in [Agents -> Rows \cup {Unknown}],
         \A b \in Agents : registry'[b] # Unknown => Kept(registry'[b]),
         UNCHANGED <<machine, transport, upgrades>>
  PROVE  SurveyInv'
  <1>1. /\ proc \in [Agents -> Processes]
        /\ clips \in [Agents -> [Streams -> Streams \cup {NoClip}]]
    BY DEF SurveyInv, SurveyTypes
  <1>2. /\ proc' \in [Agents -> Processes]
        /\ clips' \in [Agents -> [Streams -> Streams \cup {NoClip}]]
        /\ proc'[a] = q /\ clips'[a] = c
        /\ \A b \in Agents \ {a} : proc'[b] = proc[b] /\ clips'[b] = clips[b]
    BY <1>1
  <1>3. SurveyTypes'
    BY <1>2 DEF SurveyInv, SurveyTypes, Mountings
  <1>4. Mounted'
    <2>1. ASSUME NEW b \in mount'.held PROVE b \in Agents /\ proc'[b].pc \in {"rename", "read"}
      <3>1. CASE b = a
        BY <1>2, <3>1
      <3>2. CASE b # a
        <4>1. b \in mount.held
          BY <3>2
        <4> QED
          BY <1>2, <3>2, <4>1 DEF SurveyInv, Mounted
      <3> QED
        BY <3>1, <3>2
    <2>2. ASSUME NEW b \in Agents, proc'[b].pc \in Probing \/ proc'[b].verdicts # <<>>
          PROVE  transport'[b] = "mount"
      <3>1. CASE b = a
        BY <1>2, <2>2, <3>1
      <3>2. CASE b # a
        BY <1>2, <2>2, <3>2 DEF SurveyInv, Mounted
      <3> QED
        BY <3>1, <3>2
    <2> QED
      BY <2>1, <2>2 DEF Mounted
  <1>5. \A b \in Agents : Own(proc'[b], machine'[b], clips'[b])
    <2> SUFFICES ASSUME NEW b \in Agents PROVE Own(proc'[b], machine'[b], clips'[b])
      OBVIOUS
    <2>1. CASE b = a
      BY <1>2, <2>1
    <2>2. CASE b # a
      BY <1>2, <2>2 DEF SurveyInv
    <2> QED
      BY <2>1, <2>2
  <1>6. (\A b \in Agents : Known(b) => Kept(registry[b]))'
    BY DEF Known
  <1> QED
    BY <1>3, <1>4, <1>5, <1>6 DEF SurveyInv

LEMMA ProcessStep ==
  ASSUME SurveyInv, NEW a \in Agents, NEW q \in Processes,
         proc' = [proc EXCEPT ![a] = q],
         NEW c \in [Streams -> Streams \cup {NoClip}], clips' = [clips EXCEPT ![a] = c],
         Own(q, machine[a], c),
         q.pc \in Probing \/ q.verdicts # <<>> => transport[a] = "mount",
         mount' \in Mountings,
         mount'.held \ {a} \subseteq mount.held,
         a \in mount'.held => q.pc \in {"rename", "read"},
         trouble' \in 0 .. MaxTrouble,
         UNCHANGED <<machine, transport, registry, upgrades>>
  PROVE  SurveyInv'
  <1>1. /\ registry' \in [Agents -> Rows \cup {Unknown}]
        /\ \A b \in Agents : registry'[b] # Unknown => Kept(registry'[b])
    BY DEF SurveyInv, SurveyTypes, Known
  <1> QED
    BY <1>1, RowStep

LEMMA TroubleRises ==
  ASSUME SurveyInv, NEW kind, Happens(kind)
  PROVE  trouble' \in 0 .. MaxTrouble
  BY SurveyAssumption DEF SurveyInv, SurveyTypes, Happens

LEMMA SurveyInvInit == Init => SurveyInv
  <1> SUFFICES ASSUME Init PROVE SurveyInv
    OBVIOUS
  <1>1. SurveyTypes
    <2>1. Idle \in Processes
      BY EmptySeq DEF Idle, Processes, Seen
    <2> QED
      BY <2>1, SurveyAssumption DEF Init, SurveyTypes
  <1>2. Mounted
    BY DEF Init, Mounted, Idle, Probing
  <1>3. ASSUME NEW a \in Agents PROVE Own(proc[a], machine[a], clips[a])
    <2>1. proc[a] = Idle /\ \A s \in Streams : clips[a][s] = NoClip
      BY DEF Init
    <2> QED
      BY <2>1 DEF Own, Queue, TrueRows, Thorough, Idle, Probing, Surveying
  <1>4. \A a \in Agents : ~Known(a)
    BY DEF Init, Known
  <1> QED
    BY <1>1, <1>2, <1>3, <1>4 DEF SurveyInv

LEMMA StartKeeps ==
  ASSUME SurveyInv, NEW a \in Agents, Start(a)
  PROVE  SurveyInv'
  <1> DEFINE q == [Idle EXCEPT !.pc = "samples", !.left = Samples]
  <1>1. q \in Processes /\ q.pc = "samples" /\ q.left = Samples /\ q.decoders = <<>>
                        /\ q.verdicts = <<>>
    BY Clips, EmptySeq DEF Idle, Processes, Seen
  <1>2. proc' = [proc EXCEPT ![a] = q]
    BY DEF Start
  <1> HIDE DEF q
  <1>3. /\ clips[a] \in [Streams -> Streams \cup {NoClip}] /\ clips' = [clips EXCEPT ![a] = clips[a]]
        /\ mount' \in Mountings /\ mount' = mount /\ trouble' \in 0 .. MaxTrouble
    BY DEF Start, SurveyInv, SurveyTypes, Mountings
  <1>4. a \notin mount.held
    BY DEF Start, At, SurveyInv, Mounted
  <1>5. Own(q, machine[a], clips[a])
    <2>1. \A s \in Streams : \E i \in DOMAIN Samples : Samples[i] = s
      BY DEF Streams
    <2>2. Thorough(q, machine[a], clips[a])
      BY <1>1, <2>1 DEF Thorough, Surveying, Probing
    <2>3. Queue(q, clips[a]) /\ TrueRows(q.decoders, machine[a])
      BY <1>1, Clips DEF Queue, Probing, TrueRows
    <2> QED
      BY <2>2, <2>3 DEF Own, SurveyInv
  <1>6. q.pc \notin Probing
    BY <1>1 DEF Probing
  <1>7. UNCHANGED <<machine, transport, registry, upgrades>>
    BY DEF Start
  <1> QED
    BY <1>1, <1>2, <1>3, <1>4, <1>5, <1>6, <1>7, ProcessStep

LEMMA EnsureKeeps ==
  ASSUME SurveyInv, NEW a \in Agents, Ensure(a)
  PROVE  SurveyInv'
  <1>1. PICK p \in Processes : p = proc[a]
    BY DEF SurveyInv, SurveyTypes
  <1>2. PICK m \in Machines : m = machine[a]
    BY DEF SurveyInv, SurveyTypes
  <1>3. PICK c \in [Streams -> Streams \cup {NoClip}] : c = clips[a]
    BY DEF SurveyInv, SurveyTypes
  <1>4. p.pc = "samples" /\ p.left # <<>> /\ Own(p, m, c) /\ p.left \in Seq(Streams)
    BY <1>1, <1>2, <1>3 DEF SurveyInv, Ensure, At, Own, Queue
  <1>5. /\ Len(p.left) \in Nat \ {0} /\ Head(p.left) = p.left[1] /\ Tail(p.left) \in Seq(Streams)
        /\ Len(Tail(p.left)) = Len(p.left) - 1
        /\ \A i \in 1 .. Len(p.left) - 1 : Tail(p.left)[i] = p.left[i + 1]
        /\ DOMAIN p.left = 1 .. Len(p.left) /\ DOMAIN Tail(p.left) = 1 .. Len(p.left) - 1
    BY <1>4, HeadTailProperties, LenProperties, EmptySeq
  <1>6. PICK s \in Streams : s = Head(p.left)
    BY <1>5, <1>4, ElementOfSeq
  <1>7. c[s] \in {NoClip, s} /\ Made(m, s) \in {NoClip, s} /\ s # NoClip
    BY <1>4, MadeIsTheClip, Clips DEF Own
  <1>8. /\ trouble' \in 0 .. MaxTrouble
        /\ \E new \in {NoClip, s}, u \in BOOLEAN :
               /\ Past(a, new, u)
               /\ c[s] = s => new = s
               /\ ~u /\ Made(m, s) # NoClip => new = s
    <2>1. IsUsable(c[s], s) <=> c[s] = s
      BY <1>7, Clips
    <2>2. CASE IsUsable(c[s], s) /\ Past(a, c[s], FALSE) /\ UNCHANGED trouble
      BY <1>7, <2>1, <2>2 DEF SurveyInv, SurveyTypes
    <2>3. CASE /\ ~IsUsable(c[s], s) /\ UNCHANGED trouble
               /\ Past(a, IF Made(m, s) = NoClip THEN c[s] ELSE Made(m, s), FALSE)
      <3>1. PICK new \in {NoClip, s} : new = IF Made(m, s) = NoClip THEN c[s] ELSE Made(m, s)
        BY <1>7
      <3>2. Past(a, new, FALSE) /\ (c[s] = s => new = s) /\ (Made(m, s) # NoClip => new = s)
        BY <1>7, <2>1, <2>3, <3>1
      <3> QED
        BY <2>3, <3>2 DEF SurveyInv, SurveyTypes
    <2>4. CASE ~IsUsable(c[s], s) /\ Happens("encode") /\ Past(a, c[s], TRUE)
      BY <1>7, <2>1, <2>4, TroubleRises
    <2> QED
      BY <1>1, <1>2, <1>3, <1>6, <2>2, <2>3, <2>4 DEF Ensure
  <1>9. PICK new \in {NoClip, s}, u \in BOOLEAN :
               /\ Past(a, new, u)
               /\ c[s] = s => new = s
               /\ ~u /\ Made(m, s) # NoClip => new = s
    BY <1>8
  <1> DEFINE q == [p EXCEPT !.left = Tail(@), !.upset = @ \/ u]
             d == [c EXCEPT ![s] = new]
  <1>10. /\ q \in Processes /\ q.pc = "samples" /\ q.left = Tail(p.left)
         /\ q.decoders = p.decoders /\ q.verdicts = p.verdicts
         /\ ~q.upset => ~p.upset /\ ~u
    BY <1>4, <1>5 DEF Processes
  <1>11. /\ d \in [Streams -> Streams \cup {NoClip}] /\ d[s] = new
         /\ \A r \in Streams \ {s} : d[r] = c[r]
    OBVIOUS
  <1>12. /\ proc' = [proc EXCEPT ![a] = q] /\ clips' = [clips EXCEPT ![a] = d]
    BY <1>1, <1>3, <1>6, <1>9 DEF Past, SurveyInv, SurveyTypes
  <1> HIDE DEF q, d
  <1>13. Own(q, m, d)
    <2>1. \A r \in Streams : d[r] \in {NoClip, r}
      BY <1>4, <1>11 DEF Own
    <2>2. Queue(q, d) /\ TrueRows(q.decoders, m)
      BY <1>4, <1>5, <1>10 DEF Own, Queue, Probing
    <2>3. ASSUME NEW r \in Streams, ~q.upset, Made(m, r) # NoClip
          PROVE  d[r] = r \/ \E i \in DOMAIN q.left : q.left[i] = r
      <3>1. CASE r = s
        BY <1>9, <1>10, <1>11, <2>3, <3>1
      <3>2. CASE r # s
        <4>1. c[r] = r \/ \E i \in DOMAIN p.left : p.left[i] = r
          BY <1>4, <1>10, <2>3 DEF Own, Thorough
        <4>2. ASSUME NEW i \in DOMAIN p.left, p.left[i] = r
              PROVE  \E j \in DOMAIN q.left : q.left[j] = r
          <5>1. i # 1
            BY <1>5, <1>6, <3>2, <4>2
          <5>2. i - 1 \in DOMAIN Tail(p.left) /\ Tail(p.left)[i - 1] = p.left[i]
            BY <1>5, <5>1
          <5> QED
            BY <1>10, <4>2, <5>2
        <4> QED
          BY <1>11, <3>2, <4>1, <4>2
      <3> QED
        BY <3>1, <3>2
    <2>4. Thorough(q, m, d)
      BY <1>10, <2>3 DEF Thorough, Surveying, Probing
    <2> QED
      BY <2>1, <2>2, <2>4 DEF Own
  <1>14. q.pc \in Probing \/ q.verdicts # <<>> => transport[a] = "mount"
    BY <1>1, <1>10 DEF SurveyInv, Mounted, Probing
  <1>15. mount' = mount /\ mount' \in Mountings /\ a \notin mount.held
    BY <1>1, <1>4 DEF Ensure, SurveyInv, SurveyTypes, Mounted, Mountings
  <1>16. UNCHANGED <<machine, transport, registry, upgrades>>
    BY DEF Ensure
  <1> QED
    BY <1>2, <1>8, <1>10, <1>11, <1>12, <1>13, <1>14, <1>15, <1>16, ProcessStep

(* What every step of a process has at hand.                                *)
LEMMA ProcessFacts ==
  ASSUME SurveyInv, NEW a \in Agents
  PROVE  /\ proc[a] \in Processes /\ machine[a] \in Machines
         /\ clips[a] \in [Streams -> Streams \cup {NoClip}]
         /\ clips = [clips EXCEPT ![a] = clips[a]]
         /\ Own(proc[a], machine[a], clips[a])
         /\ mount \in Mountings /\ trouble \in 0 .. MaxTrouble
         /\ a \in mount.held => proc[a].pc \in {"rename", "read"}
         /\ proc[a].pc \in Probing \/ proc[a].verdicts # <<>> => transport[a] = "mount"
  BY DEF SurveyInv, SurveyTypes, Mounted, Mountings

LEMMA TrialsKeeps ==
  ASSUME SurveyInv, NEW a \in Agents, Trials(a)
  PROVE  SurveyInv'
  <1>1. PICK p \in Processes : p = proc[a]
    BY ProcessFacts
  <1>2. PICK m \in Machines : m = machine[a]
    BY ProcessFacts
  <1>3. PICK c \in [Streams -> Streams \cup {NoClip}] : c = clips[a]
    BY ProcessFacts
  <1>4. p.pc = "samples" /\ p.left = <<>> /\ Own(p, m, c) /\ p.decoders = <<>>
    BY <1>1, <1>2, <1>3, ProcessFacts DEF Trials, At, Own, Queue
  <1>5. PICK have : have = Have(a)
    OBVIOUS
  <1>6. /\ have \in Seq(Streams)
        /\ \A j \in DOMAIN have : c[have[j]] = have[j]
        /\ \A s \in Streams : c[s] = s => \E j \in DOMAIN have : have[j] = s
    <2> DEFINE I == {i \in DOMAIN Samples : IsUsable(clips[a][Samples[i]], Samples[i])}
    <2>1. have = Selected(Samples, I)
      BY <1>5 DEF Have
    <2>2. \A i \in DOMAIN Samples : Samples[i] \in Streams
      BY DEF Streams
    <2>3. \A i \in DOMAIN Samples : i \in I <=> c[Samples[i]] = Samples[i]
      BY <1>3, <1>4, <2>2, Clips DEF Own
    <2> HIDE DEF I
    <2>4. /\ have \in Seq(Streams)
          /\ \A k \in DOMAIN have : \E i \in DOMAIN Samples : i \in I /\ have[k] = Samples[i]
          /\ \A i \in DOMAIN Samples : i \in I => \E k \in DOMAIN have : have[k] = Samples[i]
      BY <2>1, Clips, SelectedEntries
    <2>5. \A j \in DOMAIN have : c[have[j]] = have[j]
      BY <2>3, <2>4
    <2>6. ASSUME NEW s \in Streams, c[s] = s PROVE \E j \in DOMAIN have : have[j] = s
      <3>1. PICK i \in DOMAIN Samples : Samples[i] = s
        BY DEF Streams
      <3> QED
        BY <2>3, <2>4, <2>6, <3>1
    <2> QED
      BY <2>4, <2>5, <2>6
  <1>7. PICK l : l = SoftwareTrials(have) \o NvdecTrials(have, m.cuda)
    OBVIOUS
  <1>8. /\ l \in Seq(TrialSet) /\ \A i \in DOMAIN l : c[l[i].on] = l[i].on
        /\ \A j \in DOMAIN have : Names(l, have[j])
    BY <1>6, <1>7, TrialsCover
  <1> DEFINE q == [p EXCEPT !.pc = "trials", !.left = l]
  <1>9. /\ q \in Processes /\ q.pc = "trials" /\ q.left = l /\ q.decoders = <<>>
        /\ q.verdicts = p.verdicts /\ q.upset = p.upset
    BY <1>4, <1>8 DEF Processes, Surveying
  <1>10. proc' = [proc EXCEPT ![a] = q]
    BY <1>1, <1>2, <1>5, <1>7 DEF Trials, SurveyInv, SurveyTypes
  <1> HIDE DEF q
  <1>11. Own(q, m, c)
    <2>1. Queue(q, c) /\ TrueRows(q.decoders, m)
      BY <1>8, <1>9 DEF Queue, TrueRows, Probing
    <2>2. InPeace(q.decoders, m)
      BY <1>9 DEF InPeace
    <2>3. ~q.upset => ClipsMade(m, c)
      BY <1>4, <1>9 DEF Own, Thorough, ClipsMade
    <2>4. \A s \in Streams : c[s] = s => Names(q.left, s)
      BY <1>6, <1>8, <1>9
    <2>5. Thorough(q, m, c)
      BY <1>9, <2>2, <2>3, <2>4 DEF Thorough
    <2> QED
      BY <1>4, <2>1, <2>5 DEF Own
  <1>12. UNCHANGED <<machine, transport, registry, upgrades, mount, trouble, clips>>
    BY DEF Trials
  <1>13. q.pc \in Probing \/ q.verdicts # <<>> => transport[a] = "mount"
    BY <1>1, <1>9, ProcessFacts DEF Probing
  <1>14. a \notin mount.held
    BY <1>1, <1>4, ProcessFacts
  <1> QED
    BY <1>2, <1>3, <1>9, <1>10, <1>11, <1>12, <1>13, <1>14, ProcessFacts, ProcessStep

(* A verdict, as Try, TryDisturbed and TimeOut come to it.                  *)
LEMMA VerdictKeeps ==
  ASSUME SurveyInv, NEW a \in Agents, proc[a].pc \in {"trials", "hung"}, proc[a].left # <<>>,
         NEW st \in {"ok", "soft", "fail"}, NEW u \in BOOLEAN, Tried(a, st, u),
         st = "ok" => Truly(machine[a], Head(proc[a].left)),
         ~u => (/\ Head(proc[a].left).triple.kind = "software"
                /\ <<Head(proc[a].left).triple.codec, Head(proc[a].left).triple.depth>>
                       \in machine[a].decodes
                => st = "ok"),
         trouble' \in 0 .. MaxTrouble,
         UNCHANGED <<machine, transport, clips, mount, registry, upgrades>>
  PROVE  SurveyInv'
  <1>1. PICK p \in Processes : p = proc[a]
    BY ProcessFacts
  <1>2. PICK m \in Machines : m = machine[a]
    BY ProcessFacts
  <1>3. PICK c \in [Streams -> Streams \cup {NoClip}] : c = clips[a]
    BY ProcessFacts
  <1>4. Own(p, m, c)
    BY <1>1, <1>2, <1>3, ProcessFacts
  <1>5. PICK q : q = WithVerdict(p, st, u)
    OBVIOUS
  <1>6. q \in Processes /\ Own(q, m, c) /\ q.verdicts = p.verdicts /\ q.pc = "trials"
    <2>1. /\ p.pc \in {"trials", "hung"} /\ p.left # <<>>
          /\ st = "ok" => Truly(m, Head(p.left))
      BY <1>1, <1>2
    <2>2. ~u => (/\ Head(p.left).triple.kind = "software"
                 /\ <<Head(p.left).triple.codec, Head(p.left).triple.depth>> \in m.decodes
                 => st = "ok")
      BY <1>1, <1>2
    <2> QED
      BY <1>4, <1>5, <2>1, <2>2, TriedKeeps
  <1>8. proc' = [proc EXCEPT ![a] = q]
    <2>1. PICK r : r = [triple |-> Head(p.left).triple, status |-> st]
      OBVIOUS
    <2>2. q = [p EXCEPT !.pc = "trials", !.left = Tail(@), !.upset = @ \/ u,
                        !.decoders = Append(@, r)]
      BY <1>5, <2>1 DEF WithVerdict
    <2>3. proc' = [proc EXCEPT ![a].pc = "trials", ![a].left = Tail(@), ![a].upset = @ \/ u,
                               ![a].decoders = Append(@, r)]
      BY <1>1, <2>1 DEF Tried
    <2>4. proc \in [Agents -> Processes]
      BY DEF SurveyInv, SurveyTypes
    <2> QED
      BY <1>1, <2>2, <2>3, <2>4, Zenon
  <1>9. q.pc \in Probing \/ q.verdicts # <<>> => transport[a] = "mount"
    BY <1>1, <1>6, ProcessFacts DEF Probing
  <1>10. a \notin mount.held
    BY ProcessFacts
  <1> QED
    BY <1>2, <1>3, <1>6, <1>8, <1>9, <1>10, ProcessFacts, ProcessStep

LEMMA TryKeeps ==
  ASSUME SurveyInv, NEW a \in Agents, Try(a)
  PROVE  SurveyInv'
  <1>1. /\ proc[a].pc = "trials" /\ proc[a].left # <<>> /\ proc[a].left \in Seq(TrialSet)
        /\ \A i \in DOMAIN proc[a].left : clips[a][proc[a].left[i].on] = proc[a].left[i].on
    BY ProcessFacts DEF Try, At, Own, Queue
  <1>2. PICK t \in TrialSet : t = Head(proc[a].left) /\ clips[a][t.on] = t.on
    <2>1. /\ Len(proc[a].left) \in Nat \ {0} /\ Head(proc[a].left) = proc[a].left[1]
          /\ DOMAIN proc[a].left = 1 .. Len(proc[a].left)
      BY <1>1, HeadTailProperties, LenProperties, EmptySeq
    <2> QED
      BY <1>1, <2>1, ElementOfSeq
  <1>3. PICK st : st = Classify(Decode(machine[a], t.triple.kind, t.on))
    OBVIOUS
  <1>4. Tried(a, st, FALSE)
    BY <1>2, <1>3 DEF Try
  <1>5. /\ st \in {"ok", "soft", "fail"}
        /\ st = "ok" => Truly(machine[a], t)
        /\ (/\ t.triple.kind = "software"
            /\ <<t.triple.codec, t.triple.depth>> \in machine[a].decodes) => st = "ok"
    BY <1>3, ProcessFacts, TrialsTell
  <1>6. UNCHANGED <<machine, transport, clips, mount, registry, upgrades, trouble>>
    BY DEF Try
  <1> QED
    BY <1>1, <1>2, <1>4, <1>5, <1>6, ProcessFacts, VerdictKeeps

LEMMA DisturbedKeeps ==
  ASSUME SurveyInv, NEW a \in Agents, TryDisturbed(a) \/ TimeOut(a)
  PROVE  SurveyInv'
  <1>1. CASE TryDisturbed(a)
    <2>1. PICK o \in {Ending("signal", FALSE, 0), Ending("zero", FALSE, Frames - 1)} :
             Tried(a, Classify(o), TRUE)
      BY <1>1 DEF TryDisturbed
    <2>2. Classify(o) = "fail"
      BY SurveyAssumption DEF Classify, Ending
    <2>3. trouble' \in 0 .. MaxTrouble
      BY <1>1, TroubleRises DEF TryDisturbed
    <2> QED
      BY <1>1, <2>1, <2>2, <2>3, VerdictKeeps DEF TryDisturbed, At
  <1>2. CASE TimeOut(a)
    <2>1. proc[a].pc = "hung" /\ proc[a].left # <<>>
      BY <1>2, ProcessFacts DEF TimeOut, At, Own, Queue
    <2>2. trouble' \in 0 .. MaxTrouble
      BY <1>2, ProcessFacts DEF TimeOut
    <2> QED
      BY <1>2, <2>1, <2>2, VerdictKeeps DEF TimeOut
  <1> QED
    BY <1>1, <1>2

LEMMA HangKeeps ==
  ASSUME SurveyInv, NEW a \in Agents, Hang(a)
  PROVE  SurveyInv'
  <1>1. PICK p \in Processes : p = proc[a]
    BY ProcessFacts
  <1> DEFINE q == [p EXCEPT !.pc = "hung", !.upset = TRUE]
  <1>2. p.pc = "trials" /\ p.left # <<>> /\ Own(p, machine[a], clips[a])
    BY <1>1, ProcessFacts DEF Hang, At
  <1>3. /\ q \in Processes /\ q.pc = "hung" /\ q.left = p.left /\ q.decoders = p.decoders
        /\ q.verdicts = p.verdicts /\ q.upset
    BY DEF Processes, Surveying
  <1>4. proc' = [proc EXCEPT ![a] = q]
    BY <1>1 DEF Hang, SurveyInv, SurveyTypes
  <1> HIDE DEF q
  <1>5. Own(q, machine[a], clips[a])
    BY <1>2, <1>3 DEF Own, Queue, Thorough, Probing, Surveying
  <1>6. trouble' \in 0 .. MaxTrouble
    BY TroubleRises DEF Hang
  <1>7. q.pc \in Probing \/ q.verdicts # <<>> => transport[a] = "mount"
    BY <1>1, <1>3, ProcessFacts DEF Probing
  <1>8. a \notin mount.held
    BY <1>1, <1>2, ProcessFacts
  <1>9. UNCHANGED <<machine, transport, clips, mount, registry, upgrades>>
    BY DEF Hang
  <1> QED
    BY <1>3, <1>4, <1>5, <1>6, <1>7, <1>8, <1>9, ProcessFacts, ProcessStep

(* The document is built once the trials are done, and only the mount is    *)
(* looked at from there to the registration.                                *)
LEMMA ProbeMoves ==
  ASSUME SurveyInv, NEW a \in Agents,
         proc[a].pc \in Probing \cup {"trials"}, proc[a].left = <<>>,
         NEW q \in Processes, proc' = [proc EXCEPT ![a] = q],
         q.pc \in Probing \cup {"register"}, q.left = proc[a].left,
         q.decoders = proc[a].decoders, ~q.upset => ~proc[a].upset,
         q.pc \in Probing \/ q.verdicts # <<>> => transport[a] = "mount",
         mount' \in Mountings, mount'.held \ {a} \subseteq mount.held,
         a \in mount'.held => q.pc \in {"rename", "read"},
         trouble' \in 0 .. MaxTrouble,
         UNCHANGED <<machine, transport, clips, registry, upgrades>>
  PROVE  SurveyInv'
  <1>1. Own(proc[a], machine[a], clips[a])
    BY ProcessFacts
  <1>2. Own(q, machine[a], clips[a])
    <2>1. Queue(q, clips[a])
      BY DEF Queue, Probing
    <2>2. q.pc # "samples" /\ proc[a].pc \in Surveying
      BY DEF Probing, Surveying
    <2>3. Thorough(q, machine[a], clips[a])
      BY <1>1, <2>2 DEF Thorough, Own
    <2> QED
      BY <1>1, <2>1, <2>3 DEF Own
  <1> QED
    BY <1>2, ProcessFacts, ProcessStep

(* A step of the probe as Step makes it.                                    *)
LEMMA StepKeeps ==
  ASSUME SurveyInv, NEW a \in Agents,
         NEW from \in Probing, NEW to \in Probing \cup {"register"}, NEW after,
         Step(a, from, to, after),
         after \in Mountings, after.held \ {a} \subseteq mount.held,
         a \in after.held => to \in {"rename", "read"}
  PROVE  SurveyInv'
  <1>1. PICK p \in Processes : p = proc[a]
    BY ProcessFacts
  <1> DEFINE q == [p EXCEPT !.pc = to]
  <1>2. p.pc = from /\ p.left = <<>> /\ mount' = after
    BY <1>1, ProcessFacts DEF Step, At, Own, Queue
  <1>3. /\ q \in Processes /\ q.pc = to /\ q.left = p.left /\ q.decoders = p.decoders
        /\ q.verdicts = p.verdicts /\ q.upset = p.upset
    BY DEF Processes, Surveying
  <1>4. proc' = [proc EXCEPT ![a] = q]
    BY <1>1 DEF Step, SurveyInv, SurveyTypes
  <1> HIDE DEF q
  <1>5. transport[a] = "mount"
    BY <1>1, <1>2, ProcessFacts
  <1>6. trouble' \in 0 .. MaxTrouble /\ UNCHANGED <<machine, transport, clips, registry, upgrades>>
    BY ProcessFacts DEF Step
  <1> QED
    BY <1>1, <1>2, <1>3, <1>4, <1>5, <1>6, ProbeMoves

LEMMA ProbeKeeps ==
  ASSUME SurveyInv, NEW a \in Agents,
         WriteDest(a) \/ WriteSrc(a) \/ Hold(a) \/ RemoveDest(a) \/ RemoveSrc(a)
  PROVE  SurveyInv'
  <1>1. mount \in Mountings /\ (a \in mount.held => proc[a].pc \in {"rename", "read"})
    BY ProcessFacts
  <1>2. CASE WriteDest(a)
    <2> DEFINE after == [mount EXCEPT !.dest = "OLD"]
    <2>1. after \in Mountings /\ after.held = mount.held
      BY <1>1 DEF Mountings
    <2>2. Step(a, "dest", "src", after)
      BY <1>2 DEF WriteDest
    <2>3. a \notin mount.held
      BY <1>1, <2>2 DEF Step, At
    <2> HIDE DEF after
    <2> QED
      BY <2>1, <2>2, <2>3, StepKeeps DEF Probing
  <1>3. CASE WriteSrc(a)
    <2> DEFINE after == [mount EXCEPT !.src = "NEW"]
    <2>1. after \in Mountings /\ after.held = mount.held
      BY <1>1 DEF Mountings
    <2>2. Step(a, "src", "open", after)
      BY <1>3 DEF WriteSrc
    <2>3. a \notin mount.held
      BY <1>1, <2>2 DEF Step, At
    <2> HIDE DEF after
    <2> QED
      BY <2>1, <2>2, <2>3, StepKeeps DEF Probing
  <1>4. CASE Hold(a)
    <2> DEFINE after == [mount EXCEPT !.held = @ \cup {a}]
    <2>1. after \in Mountings /\ after.held = mount.held \cup {a}
      BY <1>1 DEF Mountings
    <2>2. Step(a, "open", "rename", after)
      BY <1>4 DEF Hold
    <2> HIDE DEF after
    <2> QED
      BY <2>1, <2>2, StepKeeps DEF Probing
  <1>5. CASE RemoveDest(a)
    <2> DEFINE after == IF mount.rename = "refuses" /\ mount.held # {} THEN mount
                        ELSE [mount EXCEPT !.dest = "none", !.held = {}]
    <2>1. after \in Mountings /\ after.held \subseteq mount.held
      BY <1>1 DEF Mountings
    <2>2. Step(a, "undest", "unsrc", after)
      BY <1>5 DEF RemoveDest
    <2>3. a \notin mount.held
      BY <1>1, <2>2 DEF Step, At
    <2> HIDE DEF after
    <2>4. after.held \ {a} \subseteq mount.held /\ a \notin after.held
      BY <2>1, <2>3
    <2> QED
      BY <2>1, <2>2, <2>4, StepKeeps DEF Probing
  <1>6. CASE RemoveSrc(a)
    <2> DEFINE after == [mount EXCEPT !.src = "none"]
    <2>1. after \in Mountings /\ after.held = mount.held
      BY <1>1 DEF Mountings
    <2>2. Step(a, "unsrc", "register", after)
      BY <1>6 DEF RemoveSrc
    <2>3. a \notin mount.held
      BY <1>1, <2>2 DEF Step, At
    <2> HIDE DEF after
    <2> QED
      BY <2>1, <2>2, <2>3, StepKeeps DEF Probing
  <1> QED
    BY <1>2, <1>3, <1>4, <1>5, <1>6

LEMMA RenameKeeps ==
  ASSUME SurveyInv, NEW a \in Agents, Rename(a)
  PROVE  SurveyInv'
  <1>1. PICK p \in Processes : p = proc[a]
    BY ProcessFacts
  <1>2. p.pc = "rename" /\ p.left = <<>> /\ mount \in Mountings /\ transport[a] = "mount"
    BY <1>1, ProcessFacts DEF Rename, At, Own, Queue, Probing
  <1>3. PICK ok \in BOOLEAN : proc' = [proc EXCEPT ![a].pc = "read", ![a].moved = ok]
    <2>1. (mount.src # "none" /\ ~(mount.held # {} /\ mount.rename # "atomic"
                                    /\ mount.rename = "refuses")) \in BOOLEAN
      OBVIOUS
    <2> QED
      BY <2>1 DEF Rename
  <1> DEFINE q == [p EXCEPT !.pc = "read", !.moved = ok]
  <1>4. /\ q \in Processes /\ q.pc = "read" /\ q.left = p.left /\ q.decoders = p.decoders
        /\ q.verdicts = p.verdicts /\ q.upset = p.upset
    BY DEF Processes, Surveying, Probing
  <1>5. proc' = [proc EXCEPT ![a] = q]
    BY <1>1, <1>3 DEF SurveyInv, SurveyTypes
  <1> HIDE DEF q
  <1>6. mount' \in Mountings /\ mount'.held \subseteq mount.held
    BY <1>2 DEF Rename, Mountings
  <1>7. trouble' \in 0 .. MaxTrouble /\ UNCHANGED <<machine, transport, clips, registry, upgrades>>
    BY ProcessFacts DEF Rename
  <1>8. mount'.held \ {a} \subseteq mount.held /\ p.pc \in Probing /\ q.pc \in Probing
    BY <1>2, <1>4, <1>6 DEF Probing
  <1> QED
    BY <1>1, <1>2, <1>4, <1>5, <1>6, <1>7, <1>8, ProbeMoves

(* A verdict on the mount, by ReadBack or by SetupFails.                    *)
LEMMA JudgeKeeps ==
  ASSUME SurveyInv, NEW a \in Agents, NEW seen \in {"atomic", "not", "untested"},
         NEW u \in BOOLEAN,
         proc[a].pc \in Probing,
         proc' = [proc EXCEPT ![a].pc = "undest", ![a].verdicts = <<seen>>,
                              ![a].upset = u],
         ~u => ~proc[a].upset,
         mount' \in Mountings, mount'.held \subseteq mount.held \ {a},
         trouble' \in 0 .. MaxTrouble,
         UNCHANGED <<machine, transport, clips, registry, upgrades>>
  PROVE  SurveyInv'
  <1>1. PICK p \in Processes : p = proc[a]
    BY ProcessFacts
  <1> DEFINE q == [p EXCEPT !.pc = "undest", !.verdicts = <<seen>>, !.upset = u]
  <1>2. p.left = <<>> /\ transport[a] = "mount"
    BY <1>1, ProcessFacts DEF Own, Queue
  <1>3. /\ q \in Processes /\ q.pc = "undest" /\ q.left = p.left /\ q.decoders = p.decoders
        /\ q.upset = u
    BY DEF Processes, Surveying, Probing, Seen
  <1>4. proc' = [proc EXCEPT ![a] = q]
    BY <1>1 DEF SurveyInv, SurveyTypes
  <1> HIDE DEF q
  <1>5. q.pc \in Probing /\ mount'.held \ {a} \subseteq mount.held /\ a \notin mount'.held
    BY <1>3 DEF Probing
  <1> QED
    BY <1>1, <1>2, <1>3, <1>4, <1>5, ProbeMoves

LEMMA ReadBackKeeps ==
  ASSUME SurveyInv, NEW a \in Agents, ReadBack(a)
  PROVE  SurveyInv'
  <1>1. PICK p \in Processes : p = proc[a]
    BY ProcessFacts
  <1>2. mount \in Mountings /\ trouble \in 0 .. MaxTrouble /\ proc \in [Agents -> Processes]
    BY ProcessFacts DEF SurveyInv, SurveyTypes
  <1>3. mount' \in Mountings /\ mount'.held = mount.held \ {a}
    BY <1>2 DEF ReadBack, Mountings
  <1>4. PICK seen \in {"atomic", "not"} :
           proc' = [proc EXCEPT ![a].pc = "undest", ![a].verdicts = <<seen>>]
    BY DEF ReadBack, Judge
  <1>5. p.upset \in BOOLEAN
    BY DEF Processes
  <1>6. proc' = [proc EXCEPT ![a].pc = "undest", ![a].verdicts = <<seen>>, ![a].upset = p.upset]
    <2>1. [p EXCEPT !.pc = "undest", !.verdicts = <<seen>>]
            = [p EXCEPT !.pc = "undest", !.verdicts = <<seen>>, !.upset = p.upset]
      BY DEF Processes
    <2> QED
      BY <1>1, <1>2, <1>4, <2>1
  <1>7. p.pc \in Probing /\ UNCHANGED <<machine, transport, clips, registry, upgrades, trouble>>
    BY <1>1 DEF ReadBack, At, Probing
  <1> QED
    BY <1>1, <1>2, <1>3, <1>5, <1>6, <1>7, JudgeKeeps

LEMMA SetupFailsKeeps ==
  ASSUME SurveyInv, NEW a \in Agents, SetupFails(a)
  PROVE  SurveyInv'
  <1>1. mount \in Mountings /\ trouble \in 0 .. MaxTrouble /\ proc \in [Agents -> Processes]
    BY ProcessFacts DEF SurveyInv, SurveyTypes
  <1>2. trouble' \in 0 .. MaxTrouble
    BY <1>1, TroubleRises DEF SetupFails
  <1>3. proc[a].pc \in {"dest", "src", "open"} /\ a \notin mount.held
    BY ProcessFacts DEF SetupFails
  <1>4. proc' = [proc EXCEPT ![a].pc = "undest", ![a].verdicts = <<"untested">>, ![a].upset = TRUE]
    BY Zenon DEF SetupFails, Judge
  <1>5. UNCHANGED <<machine, transport, clips, mount, registry, upgrades>>
    BY DEF SetupFails
  <1>6. proc[a].pc \in Probing
    BY <1>3 DEF Probing
  <1>7. mount' \in Mountings /\ mount'.held \subseteq mount.held \ {a}
    BY <1>1, <1>3, <1>5
  <1>8. PICK u \in BOOLEAN : u = TRUE
    OBVIOUS
  <1>9. /\ proc' = [proc EXCEPT ![a].pc = "undest", ![a].verdicts = <<"untested">>, ![a].upset = u]
        /\ ~u => ~proc[a].upset
    BY <1>4, <1>8
  <1>10. PICK seen \in {"atomic", "not", "untested"} : seen = "untested"
    OBVIOUS
  <1> QED
    BY <1>2, <1>5, <1>6, <1>7, <1>9, <1>10, JudgeKeeps

LEMMA DocumentKeeps ==
  ASSUME SurveyInv, NEW a \in Agents, Document(a)
  PROVE  SurveyInv'
  <1>1. PICK p \in Processes : p = proc[a]
    BY ProcessFacts
  <1>2. PICK to \in {"register", "dest"} :
           /\ proc' = [proc EXCEPT ![a].pc = to]
           /\ to = "dest" => transport[a] = "mount"
    BY DEF Document, Mounts
  <1> DEFINE q == [p EXCEPT !.pc = to]
  <1>3. /\ q \in Processes /\ q.pc = to /\ q.left = p.left /\ q.decoders = p.decoders
        /\ q.verdicts = p.verdicts /\ q.upset = p.upset
    BY DEF Processes, Surveying, Probing
  <1>4. proc' = [proc EXCEPT ![a] = q]
    BY <1>1, <1>2 DEF SurveyInv, SurveyTypes
  <1> HIDE DEF q
  <1>5. p.pc = "trials" /\ p.left = <<>> /\ a \notin mount.held /\ mount \in Mountings
    BY <1>1, ProcessFacts DEF Document, At
  <1>6. q.pc \in Probing \cup {"register"} /\ (q.pc \in Probing => transport[a] = "mount")
    BY <1>2, <1>3 DEF Probing
  <1>7. q.verdicts # <<>> => transport[a] = "mount"
    BY <1>1, <1>3, ProcessFacts
  <1>8. /\ UNCHANGED <<machine, transport, clips, mount, registry, upgrades>>
        /\ trouble' \in 0 .. MaxTrouble
    BY ProcessFacts DEF Document
  <1> QED
    BY <1>1, <1>3, <1>4, <1>5, <1>6, <1>7, <1>8, ProbeMoves

(* A process that is not surveying any more, or not running.                *)
LEMMA AtRest ==
  ASSUME NEW p \in Processes, NEW m, NEW c, \A s \in Streams : c[s] \in {NoClip, s},
         p.pc \in {"off", "registered"}, p.left = <<>>, p.decoders = <<>>, p.verdicts = <<>>,
         p = [Idle EXCEPT !.pc = p.pc]
  PROVE  Own(p, m, c)
  BY DEF Own, Queue, TrueRows, Thorough, Probing, Surveying

LEMMA DieKeeps ==
  ASSUME SurveyInv, NEW a \in Agents, Die(a)
  PROVE  SurveyInv'
  <1>1. Idle \in Processes /\ Idle.pc = "off" /\ Idle.left = <<>> /\ Idle.decoders = <<>>
                           /\ Idle.verdicts = <<>> /\ Idle = [Idle EXCEPT !.pc = "off"]
    BY EmptySeq DEF Idle, Processes, Seen
  <1>2. Own(Idle, machine[a], clips[a])
    BY <1>1, AtRest, ProcessFacts DEF Own
  <1>3. mount' \in Mountings /\ mount'.held = mount.held \ {a}
    BY ProcessFacts DEF Die, Mountings
  <1>4. trouble' \in 0 .. MaxTrouble
    BY TroubleRises DEF Die
  <1>5. proc' = [proc EXCEPT ![a] = Idle] /\ UNCHANGED <<machine, transport, clips, registry, upgrades>>
    BY DEF Die
  <1>6. Idle.pc \notin Probing
    BY <1>1 DEF Probing
  <1> QED
    BY <1>1, <1>2, <1>3, <1>4, <1>5, <1>6, ProcessFacts, ProcessStep

LEMMA UpgradeKeeps ==
  ASSUME SurveyInv, NEW a \in Agents, Upgrade(a)
  PROVE  SurveyInv'
  <1>1. PICK m \in Machines : machine' = [machine EXCEPT ![a] = m]
    BY DEF Upgrade
  <1>2. upgrades' \in 0 .. MaxUpgrades
    BY SurveyAssumption DEF Upgrade, SurveyInv, SurveyTypes
  <1>3. SurveyTypes'
    BY <1>1, <1>2 DEF Upgrade, SurveyInv, SurveyTypes
  <1>4. Mounted'
    BY DEF Upgrade, SurveyInv, Mounted
  <1>5. ASSUME NEW b \in Agents PROVE Own(proc'[b], machine'[b], clips'[b])
    <2>1. Own(proc[b], machine[b], clips[b])
      BY DEF SurveyInv
    <2>2. CASE b = a
      <3>1. PICK p \in Processes : p = proc[a] /\ p.pc = "off"
        BY ProcessFacts DEF Upgrade, At
      <3>2. p = [Idle EXCEPT !.pc = "off"]
        BY <2>1, <2>2, <3>1 DEF Own, Queue
      <3>3. p.left = <<>> /\ p.decoders = <<>> /\ p.verdicts = <<>>
        BY <3>2 DEF Idle
      <3>4. Own(p, m, clips[a])
        BY <2>1, <2>2, <3>1, <3>2, <3>3, AtRest DEF Own
      <3> QED
        BY <1>1, <2>2, <3>1, <3>4 DEF Upgrade, SurveyInv, SurveyTypes
    <2>3. CASE b # a
      BY <1>1, <2>1, <2>3 DEF Upgrade, SurveyInv, SurveyTypes
    <2> QED
      BY <2>2, <2>3
  <1>6. (\A b \in Agents : Known(b) => Kept(registry[b]))'
    BY DEF Upgrade, SurveyInv, Known
  <1> QED
    BY <1>3, <1>4, <1>5, <1>6 DEF SurveyInv

(* What the server makes of the document is what was surveyed.              *)
LEMMA RegisterKeeps ==
  ASSUME SurveyInv, NEW a \in Agents, Register(a)
  PROVE  SurveyInv'
  <1>1. PICK p \in Processes : p = proc[a]
    BY ProcessFacts
  <1>2. PICK m \in Machines : m = machine[a]
    BY ProcessFacts
  <1>3. p.pc = "register" /\ p.left = <<>> /\ Own(p, m, clips[a])
    BY <1>1, <1>2, ProcessFacts DEF Register, At, Own, Queue
  <1>4. PICK d \in Seq(Told) : d = p.decoders
    BY DEF Processes
  <1>5. \A i \in DOMAIN d : d[i].status \in Verdicts /\ d[i].triple.kind \in Kinds
    <2>1. \A i \in DOMAIN d : d[i] \in Told
      BY ElementOfSeq, LenProperties
    <2>2. ASSUME NEW t \in TrialSet PROVE t.triple.kind \in Kinds
      <3>1. PICK s \in Streams : t = SoftTrial(s) \/ t = NvdecTrial(s)
        BY DEF TrialSet
      <3>2. CASE t = SoftTrial(s)
        BY <3>2 DEF SoftTrial, SoftTriple, Triple, Kinds
      <3>3. CASE t = NvdecTrial(s)
        BY <3>3 DEF NvdecTrial, Triple, Kinds
      <3> QED
        BY <3>1, <3>2, <3>3
    <2>3. \A r \in Told : r.status \in Verdicts /\ r.triple.kind \in Kinds
      BY <2>2 DEF Told, Verdicts
    <2> QED
      BY <2>1, <2>3
  <1>6. PICK encoders \in SUBSET Encoders : encoders = {e \in Encoders : Listed(m, e)}
    OBVIOUS
  <1>7. PICK classes \in (SUBSET Classes) \ {{}} : classes = ClassesFor(encoders)
    BY DEF ClassesFor, Classes
  <1>8. PICK muxers \in SUBSET Muxers : muxers = m.muxers \cap Muxers
    OBVIOUS
  <1>9. PICK doc : doc = [transport |-> transport[a], classes |-> classes, encoders |-> encoders,
                          muxers |-> muxers, decoders |-> d, mounts |-> Mounts(a)]
    OBVIOUS
  <1>10. Surveyed(a) = doc
    BY <1>1, <1>2, <1>4, <1>6, <1>7, <1>8, <1>9 DEF Surveyed
  <1>11. /\ doc.transport = transport[a] /\ doc.classes = classes /\ doc.encoders = encoders
         /\ doc.muxers = muxers /\ doc.decoders = d /\ doc.mounts = Mounts(a)
    BY <1>9
  <1>12. ToWire(doc) = doc
    BY <1>9, <1>11 DEF ToWire
  <1>13. FromWire(doc) = doc
    <2>1. Understood(doc)
      BY <1>5, <1>11 DEF Understood
    <2>2. encoders \cap (Encoders \cup {"copy"}) = encoders /\ muxers \cap Muxers = muxers
      OBVIOUS
    <2> QED
      BY <1>9, <1>11, <2>1, <2>2 DEF FromWire
  <1>14. doc # Refused
    <2>1. doc.classes # {} /\ Refused.classes = {}
      BY <1>11 DEF Refused
    <2> QED
      BY <2>1
  <1>15. doc \in Documents
    <2>1. transport[a] \in {"mount", "stream"} /\ Mounts(a) \in {<<>>, <<"library">>}
      BY DEF SurveyInv, SurveyTypes, Mounts
    <2> QED
      BY <1>9, <2>1 DEF Documents
  <1>16. PICK eligible \in BOOLEAN : eligible = CommitEligible(transport[a], p.verdicts)
    BY DEF CommitEligible
  <1>17. PICK r : r = [cap |-> doc, eligible |-> eligible, verdicts |-> p.verdicts,
                       machine |-> m, upset |-> p.upset]
    OBVIOUS
  <1>18. r \in Rows
    BY <1>15, <1>17 DEF Rows, Processes
  <1>19. registry' = [registry EXCEPT ![a] = r]
    BY <1>1, <1>2, <1>10, <1>12, <1>13, <1>14, <1>16, <1>17 DEF Register
  <1>20. Kept(r)
    <2>1. r.machine = m /\ r.cap = doc /\ r.upset = p.upset
      BY <1>17
    <2>2. TrueRows(d, m)
      BY <1>3, <1>4 DEF Own
    <2>3. ASSUME ~r.upset
          PROVE  /\ InPeace(d, m)
                 /\ \A s \in Streams : Made(m, s) # NoClip => Names(d, s)
      <3>1. /\ ClipsMade(m, clips[a]) /\ InPeace(d, m)
            /\ \A s \in Streams : clips[a][s] = s => Names(<<>>, s) \/ Names(d, s)
        BY <1>3, <1>4, <2>1, <2>3 DEF Own, Thorough, Surveying
      <3>2. \A s \in Streams : ~Names(<<>>, s)
        BY DEF Names
      <3> QED
        BY <3>1, <3>2 DEF ClipsMade
    <2> QED
      BY <1>6, <1>7, <1>8, <1>11, <2>1, <2>2, <2>3 DEF Kept, Listed
  <1>21. /\ registry' \in [Agents -> Rows \cup {Unknown}]
         /\ \A b \in Agents : registry'[b] # Unknown => Kept(registry'[b])
    <2>1. /\ registry \in [Agents -> Rows \cup {Unknown}]
          /\ \A b \in Agents : registry[b] # Unknown => Kept(registry[b])
      BY DEF SurveyInv, SurveyTypes, Known
    <2> QED
      BY <1>18, <1>19, <1>20, <2>1
  <1> DEFINE q == [Idle EXCEPT !.pc = "registered"]
  <1>22. /\ q \in Processes /\ q.pc = "registered" /\ q.left = <<>> /\ q.decoders = <<>>
         /\ q.verdicts = <<>> /\ q = [Idle EXCEPT !.pc = q.pc]
    BY EmptySeq DEF Idle, Processes, Seen
  <1>23. proc' = [proc EXCEPT ![a] = q]
    BY DEF Register
  <1> HIDE DEF q
  <1>24. Own(q, m, clips[a])
    BY <1>3, <1>22, AtRest DEF Own
  <1>25. q.pc \notin Probing /\ a \notin mount.held
    BY <1>1, <1>3, <1>22, ProcessFacts DEF Probing
  <1>26. UNCHANGED <<machine, transport, clips, mount, upgrades, trouble>>
    BY DEF Register
  <1> QED
    BY <1>2, <1>21, <1>22, <1>23, <1>24, <1>25, <1>26, ProcessFacts, RowStep

LEMMA SurveyInvStep == SurveyInv /\ [Next]_vars => SurveyInv'
  <1> SUFFICES ASSUME SurveyInv, [Next]_vars PROVE SurveyInv'
    OBVIOUS
  <1>1. CASE UNCHANGED vars
    BY <1>1 DEF vars, SurveyInv, SurveyTypes, Mounted, Known
  <1>2. ASSUME NEW a \in Agents,
               \/ Start(a) \/ Process(a) \/ TryDisturbed(a) \/ Hang(a) \/ Die(a) \/ Upgrade(a)
        PROVE  SurveyInv'
    BY <1>2, StartKeeps, EnsureKeeps, TrialsKeeps, TryKeeps, DisturbedKeeps, HangKeeps,
       DocumentKeeps, ProbeKeeps, RenameKeeps, ReadBackKeeps, SetupFailsKeeps, RegisterKeeps,
       DieKeeps, UpgradeKeeps DEF Process, Probe
  <1> QED
    BY <1>1, <1>2 DEF Next

LEMMA SurveyInvariance == Spec => []SurveyInv
  BY SurveyInvInit, SurveyInvStep, PTL DEF Spec

(* Every variable of the survey has its type.                               *)
THEOREM SurveyTypeCorrect == Spec => []TypeOK
  <1>1. SurveyInv => TypeOK
    <2> SUFFICES ASSUME SurveyInv PROVE TypeOK
      OBVIOUS
    <2>1. ASSUME NEW a \in Agents PROVE Len(proc[a].verdicts) <= Len(Mounts(a))
      <3>1. proc[a].verdicts \in Seen /\ (proc[a].verdicts # <<>> => transport[a] = "mount")
        BY ProcessFacts DEF Processes
      <3>2. CASE proc[a].verdicts = <<>>
        BY <3>2 DEF Mounts
      <3>3. CASE proc[a].verdicts # <<>>
        <4>1. PICK v : proc[a].verdicts = <<v>>
          BY <3>1, <3>3 DEF Seen
        <4>2. Mounts(a) = <<"library">>
          BY <3>1, <3>3 DEF Mounts
        <4> QED
          BY <4>1, <4>2
      <3> QED
        BY <3>2, <3>3
    <2>2. ASSUME NEW a \in Agents, Known(a)
          PROVE  /\ registry[a].cap # Refused
                 /\ \A i \in DOMAIN registry[a].cap.decoders :
                        registry[a].cap.decoders[i].status \in {"ok", "soft", "fail"}
      <3>1. PICK cap \in Documents : cap = registry[a].cap
        BY <2>2 DEF SurveyInv, SurveyTypes, Known, Rows
      <3>2. cap.classes # {} /\ Refused.classes = {}
        BY DEF Documents, Refused
      <3>3. \A i \in DOMAIN cap.decoders : cap.decoders[i] \in Told
        BY ElementOfSeq, LenProperties DEF Documents
      <3> QED
        BY <3>1, <3>2, <3>3 DEF Told
    <2> QED
      BY <2>1, <2>2 DEF TypeOK, SurveyInv, SurveyTypes, Mounted
  <1> QED
    BY <1>1, SurveyInvariance, PTL

(* Whatever a registered document says of its agent's machine, that machine *)
(* can do.                                                                  *)
THEOREM VerdictsAreTrueHolds == Spec => []VerdictsAreTrue
  <1>1. SurveyInv => VerdictsAreTrue
    BY DEF SurveyInv, VerdictsAreTrue, Kept, TrueRows
  <1> QED
    BY <1>1, SurveyInvariance, PTL

(* The first verdict on a software triple, of a document that was kept.     *)
LEMMA FirstTold ==
  ASSUME NEW r \in Rows, Kept(r), NEW s
  PROVE  LET st == DecoderStatus(r.cap, SoftTriple(s)) IN
         /\ st = "ok" => <<s.codec, s.depth>> \in r.machine.decodes
         /\ /\ ~r.upset /\ <<s.codec, s.depth>> \in r.machine.decodes
            /\ Names(r.cap.decoders, s)
            => st = "ok"
  <1>1. PICK d \in Seq(Told) : d = r.cap.decoders
    BY DEF Rows, Documents
  <1>2. PICK told : told = {i \in DOMAIN d : d[i].triple = SoftTriple(s)}
    OBVIOUS
  <1>3. DecoderStatus(r.cap, SoftTriple(s)) = IF told = {} THEN "untested" ELSE d[First(told)].status
    BY <1>1, <1>2 DEF DecoderStatus
  <1>4. Names(r.cap.decoders, s) => told # {}
    BY <1>1, <1>2 DEF Names
  <1>5. CASE told # {}
    <2>1. told \subseteq Nat
      BY <1>2, LenProperties
    <2>2. PICK i \in DOMAIN d : i = First(told) /\ d[i].triple = SoftTriple(s)
      <3>1. First(told) \in told
        BY <1>5, <2>1, FirstIsLeast
      <3> QED
        BY <1>2, <3>1
    <2>3. /\ d[i].triple.kind = "software" /\ d[i].triple.codec = s.codec
          /\ d[i].triple.depth = s.depth
      <3>1. PICK t : t = SoftTriple(s)
        OBVIOUS
      <3>2. t.kind = "software" /\ t.codec = s.codec /\ t.depth = s.depth
        BY <3>1 DEF SoftTriple, Triple
      <3> QED
        BY <2>2, <3>1, <3>2
    <2>4. d[i].status = "ok" => <<s.codec, s.depth>> \in r.machine.decodes
      <3>1. d[i].status = "ok" => Truly(r.machine, d[i])
        BY <1>1 DEF Kept, TrueRows
      <3>2. Truly(r.machine, d[i]) => <<s.codec, s.depth>> \in r.machine.decodes
        BY <2>3 DEF Truly
      <3> QED
        BY <3>1, <3>2
    <2>5. ~r.upset /\ <<s.codec, s.depth>> \in r.machine.decodes => d[i].status = "ok"
      BY <1>1, <2>3 DEF Kept, InPeace
    <2> QED
      BY <1>3, <1>5, <2>2, <2>4, <2>5
  <1>6. CASE told = {}
    BY <1>3, <1>4, <1>6
  <1> QED
    BY <1>5, <1>6

LEMMA AudioOffers ==
  ASSUME NEW r \in Rows, Kept(r), NEW task, task.kind = "audio", task.encoder \in Encoders
  PROVE  Satisfies(r.cap, Requirements(task)) <=> RunsOn(r.machine, task)
  <1>1. PICK reqs : reqs = << [needs |-> "class", of |-> "audio"],
                              [needs |-> "encoder", of |-> task.encoder],
                              [needs |-> "muxer", of |-> "matroska"] >>
    OBVIOUS
  <1>2. Requirements(task) = reqs
    BY <1>1 DEF Requirements
  <1>3. Satisfies(r.cap, reqs) <=> Meets(r.cap, reqs[1]) /\ Meets(r.cap, reqs[2]) /\ Meets(r.cap, reqs[3])
    BY <1>1 DEF Satisfies
  <1>4. Meets(r.cap, reqs[1])
    BY <1>1 DEF Meets, Kept, ClassesFor
  <1>5. Meets(r.cap, reqs[2]) <=> task.encoder \in r.machine.lists
    BY <1>1 DEF Meets, Kept
  <1>6. Meets(r.cap, reqs[3]) <=> "matroska" \in r.machine.muxers
    BY <1>1 DEF Meets, Kept, Muxers
  <1> QED
    BY <1>2, <1>3, <1>4, <1>5, <1>6 DEF RunsOn

LEMMA VideoOffers ==
  ASSUME NEW r \in Rows, Kept(r), NEW task, task.kind = "video",
         task.encoder \in {"hevc_nvenc", "libx265", "libx264"}
  PROVE  /\ Satisfies(r.cap, Requirements(task)) => RunsOn(r.machine, task)
         /\ ~r.upset /\ RunsOn(r.machine, task) /\ ClipCanBeMade(r.machine, task)
            => Satisfies(r.cap, Requirements(task))
  <1>1. PICK reqs : reqs = << [needs |-> "class", of |-> ClassOf(task.encoder)],
                              [needs |-> "encoder", of |-> task.encoder],
                              [needs |-> "muxer", of |-> "matroska"],
                              [needs |-> "decoder", of |-> SoftTriple(task)] >>
    OBVIOUS
  <1>2. Requirements(task) = reqs
    BY <1>1 DEF Requirements, SoftTriple
  <1>3. Satisfies(r.cap, reqs) <=> /\ Meets(r.cap, reqs[1]) /\ Meets(r.cap, reqs[2])
                                   /\ Meets(r.cap, reqs[3]) /\ Meets(r.cap, reqs[4])
    BY <1>1 DEF Satisfies
  <1>4. task.encoder \in Encoders
    BY DEF Encoders
  <1>5. task.encoder \in r.machine.lists => Meets(r.cap, reqs[1])
    <2>1. Meets(r.cap, reqs[1]) <=> ClassOf(task.encoder) \in r.cap.classes
      BY <1>1 DEF Meets
    <2> QED
      BY <1>4, <2>1 DEF ClassOf, Kept, ClassesFor
  <1>6. Meets(r.cap, reqs[2]) <=> task.encoder \in r.machine.lists
    BY <1>1, <1>4 DEF Meets, Kept
  <1>7. Meets(r.cap, reqs[3]) <=> "matroska" \in r.machine.muxers
    BY <1>1 DEF Meets, Kept, Muxers
  <1>8. Meets(r.cap, reqs[4]) <=> DecoderStatus(r.cap, SoftTriple(task)) = "ok"
    BY <1>1 DEF Meets, Decodes
  <1>9. ASSUME ~r.upset, ClipCanBeMade(r.machine, task) PROVE Names(r.cap.decoders, task)
    <2>1. PICK s \in Streams : /\ s.codec = task.codec /\ s.depth = task.depth
                               /\ Made(r.machine, s) # NoClip
      BY <1>9 DEF ClipCanBeMade
    <2>2. SoftTriple(s) = SoftTriple(task)
      BY <2>1 DEF SoftTriple
    <2>3. Names(r.cap.decoders, s)
      BY <1>9, <2>1 DEF Kept
    <2> QED
      BY <2>2, <2>3 DEF Names
  <1>10. /\ DecoderStatus(r.cap, SoftTriple(task)) = "ok" => <<task.codec, task.depth>> \in r.machine.decodes
         /\ /\ ~r.upset /\ <<task.codec, task.depth>> \in r.machine.decodes
            /\ Names(r.cap.decoders, task)
            => DecoderStatus(r.cap, SoftTriple(task)) = "ok"
    BY FirstTold
  <1> QED
    BY <1>2, <1>3, <1>5, <1>6, <1>7, <1>8, <1>9, <1>10 DEF RunsOn

(* An agent is offered only jobs its machine can run, and, when its survey  *)
(* was not upset, every job that it can run and whose clip can be made.     *)
THEOREM OffersMatchHolds == Spec => []OffersMatch
  <1>1. SurveyInv => OffersMatch
    <2> SUFFICES ASSUME SurveyInv, NEW a \in Agents, NEW task \in Jobs, Known(a)
                 PROVE  LET m == registry[a].machine
                            offered == Satisfies(registry[a].cap, Requirements(task))
                        IN  /\ offered => RunsOn(m, task)
                            /\ (/\ ~registry[a].upset /\ RunsOn(m, task)
                                /\ task.kind = "video" => ClipCanBeMade(m, task))
                               => offered
      BY DEF OffersMatch
    <2>1. PICK r \in Rows : r = registry[a] /\ Kept(r)
      BY DEF SurveyInv, SurveyTypes, Known
    <2>2. JobOK(task)
      BY SurveyAssumption
    <2>3. CASE task.kind = "audio" /\ task.encoder \in Encoders
      BY <2>1, <2>3, AudioOffers
    <2>4. CASE task.kind = "video" /\ task.encoder \in {"hevc_nvenc", "libx265", "libx264"}
      BY <2>1, <2>4, VideoOffers
    <2> QED
      BY <2>2, <2>3, <2>4 DEF JobOK
  <1> QED
    BY <1>1, SurveyInvariance, PTL

-----------------------------------------------------------------------------
(* The rename probe of a mount that one agent probes.                       *)

(* A step that leaves the mount alone.                                      *)
LEMMA QuietStep ==
  ASSUME SurveyInv, \A b \in Agents : ProbeTells(b), NEW a \in Agents,
         \/ Start(a) \/ Ensure(a) \/ Trials(a) \/ Try(a) \/ TimeOut(a) \/ Document(a)
         \/ TryDisturbed(a) \/ Hang(a) \/ Register(a) \/ Upgrade(a)
  PROVE  \A b \in Agents : ProbeTells(b)'
  <1> DEFINE Away(p, q) == /\ q.pc \notin {"src", "open", "rename", "read"}
                           /\ q.verdicts \in {<<>>, p.verdicts}
  <1>1. PICK p \in Processes : p = proc[a]
    BY ProcessFacts
  <1>2. proc \in [Agents -> Processes]
    BY DEF SurveyInv, SurveyTypes
  <1>3. UNCHANGED mount
    BY DEF Start, Ensure, Trials, Try, TimeOut, Document, TryDisturbed, Hang, Register, Upgrade
  <1>4. \A b \in Agents \ {a} : proc'[b] = proc[b]
    BY <1>2 DEF Start, Ensure, Trials, Try, TimeOut, Document, TryDisturbed, Hang, Register,
       Upgrade, Past, Tried
  <1>5. proc'[a] = proc[a] \/ Away(p, proc'[a])
    <2>1. CASE Start(a)
      BY <1>2, <2>1 DEF Start, Idle
    <2>2. CASE Ensure(a)
      <3>1. p.pc = "samples" /\ \E u : proc' = [proc EXCEPT ![a].left = Tail(@), ![a].upset = u]
        <4>1. \A clip, u : Past(a, clip, u) =>
                 \E v : proc' = [proc EXCEPT ![a].left = Tail(@), ![a].upset = v]
          BY Zenon DEF Past
        <4> QED
          BY <1>1, <2>2, <4>1 DEF Ensure, At
      <3> QED
        BY <1>1, <1>2, <3>1 DEF Processes
    <2>3. CASE Trials(a)
      BY <1>1, <1>2, <2>3 DEF Trials, Processes
    <2>4. CASE Try(a) \/ TryDisturbed(a) \/ TimeOut(a)
      <3>1. \E l, u, d : proc' = [proc EXCEPT ![a].pc = "trials", ![a].left = l, ![a].upset = u,
                                              ![a].decoders = d]
        <4>1. \A st, v : Tried(a, st, v) =>
                 \E l, u, d : proc' = [proc EXCEPT ![a].pc = "trials", ![a].left = l,
                                                   ![a].upset = u, ![a].decoders = d]
          BY Zenon DEF Tried
        <4> QED
          BY <2>4, <4>1 DEF Try, TryDisturbed, TimeOut
      <3> QED
        BY <1>1, <1>2, <3>1 DEF Processes
    <2>5. CASE Document(a)
      BY <1>1, <1>2, <2>5 DEF Document, Processes
    <2>6. CASE Hang(a)
      BY <1>1, <1>2, <2>6 DEF Hang, Processes
    <2>7. CASE Register(a)
      BY <1>2, <2>7 DEF Register, Idle
    <2>8. CASE Upgrade(a)
      BY <2>8 DEF Upgrade
    <2> QED
      BY <2>1, <2>2, <2>3, <2>4, <2>5, <2>6, <2>7, <2>8
  <1> SUFFICES ASSUME NEW b \in Agents PROVE ProbeTells(b)'
    OBVIOUS
  <1>6. ProbeTells(b) /\ (proc'[b] = proc[b] \/ Away(proc[b], proc'[b]))
    BY <1>1, <1>4, <1>5
  <1>7. CASE proc'[b] = proc[b]
    BY <1>3, <1>6, <1>7 DEF ProbeTells
  <1>8. CASE Away(proc[b], proc'[b])
    BY <1>3, <1>6, <1>8 DEF ProbeTells
  <1> QED
    BY <1>6, <1>7, <1>8

(* A step of the probe itself, where nobody else is probing.                *)
LEMMA ProbingStep ==
  ASSUME SurveyInv, SoleProber, \A b \in Agents : ProbeTells(b), NEW a \in Agents,
         Probe(a) \/ SetupFails(a)
  PROVE  \A b \in Agents : ProbeTells(b)'
  <1>1. PICK p \in Processes : p = proc[a] /\ ProbeTells(a)
    BY ProcessFacts
  <1>2. proc \in [Agents -> Processes] /\ mount \in Mountings
    BY ProcessFacts DEF SurveyInv, SurveyTypes
  <1>3. p.pc \in Probing
    BY <1>1 DEF Probe, WriteDest, WriteSrc, Hold, Rename, ReadBack, RemoveDest, RemoveSrc,
       SetupFails, Step, At, Probing
  <1>4. ASSUME NEW b \in Agents, b # a PROVE ProbeTells(b)'
    <2>1. transport[b] # "mount"
      BY <1>1, <1>3, <1>4, ProcessFacts DEF SoleProber
    <2>2. proc[b].pc \notin Probing /\ proc[b].verdicts = <<>>
      BY <2>1, ProcessFacts
    <2>3. proc'[b] = proc[b]
      BY <1>2, <1>4 DEF Probe, WriteDest, WriteSrc, Hold, Rename, ReadBack, RemoveDest, RemoveSrc,
         SetupFails, Step, Judge
    <2> QED
      BY <2>2, <2>3 DEF ProbeTells, Probing
  <1>5. ProbeTells(a)'
    <2>1. CASE WriteDest(a)
      BY <1>1, <1>2, <2>1 DEF WriteDest, Step, Processes, Mountings, ProbeTells
    <2>2. CASE WriteSrc(a)
      BY <1>1, <1>2, <2>2 DEF WriteSrc, Step, At, Processes, Mountings, ProbeTells
    <2>3. CASE Hold(a)
      BY <1>1, <1>2, <2>3 DEF Hold, Step, At, Processes, Mountings, ProbeTells
    <2>4. CASE RemoveDest(a) \/ RemoveSrc(a)
      <3>1. proc'[a].pc \in {"unsrc", "register"} /\ proc'[a].verdicts = p.verdicts
        BY <1>1, <1>2, <2>4 DEF RemoveDest, RemoveSrc, Step, Processes
      <3>2. mount'.rename = mount.rename
        BY <1>2, <2>4 DEF RemoveDest, RemoveSrc, Step, Mountings
      <3> QED
        BY <1>1, <3>1, <3>2 DEF ProbeTells
    <2>5. CASE Rename(a)
      <3>1. mount.src = "NEW" /\ mount.dest = "OLD" /\ mount.held # {} /\ p.pc = "rename"
        BY <1>1, <2>5 DEF Rename, At, ProbeTells
      <3> DEFINE ok == mount.src # "none" /\ ~(mount.held # {} /\ mount.rename # "atomic"
                                                /\ mount.rename = "refuses")
      <3>2. proc'[a].pc = "read" /\ proc'[a].verdicts = p.verdicts /\ (proc'[a].moved <=> ok)
        BY <1>1, <1>2, <2>5 DEF Rename, Processes
      <3>3. mount'.rename = mount.rename /\ (mount'.dest = "NEW" <=> mount.rename = "atomic")
        BY <1>2, <2>5, <3>1 DEF Rename, Mountings
      <3>4. mount.rename = "atomic" => ok
        BY <3>1
      <3> QED
        BY <1>1, <3>2, <3>3, <3>4 DEF ProbeTells
    <2>6. CASE ReadBack(a)
      <3>1. mount'.rename = mount.rename
        BY <1>2, <2>6 DEF ReadBack, Mountings
      <3>2. /\ proc'[a].pc = "undest"
            /\ proc'[a].verdicts = <<IF p.moved /\ mount.dest = "NEW" THEN "atomic" ELSE "not">>
        BY <1>1, <1>2, <2>6 DEF ReadBack, Judge, Processes
      <3>3. (p.moved /\ mount.dest = "NEW") <=> mount.rename = "atomic"
        BY <1>1, <2>6 DEF ReadBack, At, ProbeTells
      <3> QED
        BY <3>1, <3>2, <3>3 DEF ProbeTells
    <2>7. CASE SetupFails(a)
      BY <1>1, <1>2, <2>7 DEF SetupFails, Judge, Processes, ProbeTells
    <2> QED
      BY <2>1, <2>2, <2>3, <2>4, <2>5, <2>6, <2>7 DEF Probe
  <1> QED
    BY <1>4, <1>5

LEMMA DieTells ==
  ASSUME SurveyInv, \A b \in Agents : ProbeTells(b), NEW a \in Agents, Die(a)
  PROVE  \A b \in Agents : ProbeTells(b)'
  <1>1. proc \in [Agents -> Processes] /\ mount \in Mountings
    BY ProcessFacts DEF SurveyInv, SurveyTypes
  <1>2. /\ mount'.rename = mount.rename /\ mount'.dest = mount.dest /\ mount'.src = mount.src
        /\ mount'.held = mount.held \ {a}
    BY <1>1 DEF Die, Mountings
  <1> SUFFICES ASSUME NEW b \in Agents PROVE ProbeTells(b)'
    OBVIOUS
  <1>3. CASE b = a
    BY <1>1, <1>3 DEF Die, Idle, ProbeTells
  <1>4. CASE b # a
    <2>1. proc'[b] = proc[b] /\ ProbeTells(b)
      BY <1>1, <1>4 DEF Die
    <2> QED
      BY <1>2, <1>4, <2>1 DEF ProbeTells
  <1> QED
    BY <1>3, <1>4

LEMMA ProbeInvStep ==
  SurveyInv /\ SoleProber /\ (\A b \in Agents : ProbeTells(b)) /\ [Next]_vars
  => SoleProber' /\ (\A b \in Agents : ProbeTells(b))'
  <1> SUFFICES ASSUME SurveyInv, SoleProber, \A b \in Agents : ProbeTells(b), [Next]_vars
               PROVE  SoleProber' /\ \A b \in Agents : ProbeTells(b)'
    OBVIOUS
  <1>1. UNCHANGED transport
    BY DEF Next, vars, Start, Process, Ensure, Trials, Try, TimeOut, Document, Probe, WriteDest,
       WriteSrc, Hold, Rename, ReadBack, RemoveDest, RemoveSrc, SetupFails, Step, Register,
       TryDisturbed, Hang, Die, Upgrade
  <1>2. SoleProber'
    BY <1>1 DEF SoleProber
  <1>3. ASSUME UNCHANGED vars, NEW b \in Agents PROVE ProbeTells(b)'
    BY <1>3 DEF vars, ProbeTells
  <1>4. ASSUME NEW a \in Agents,
               \/ Start(a) \/ Process(a) \/ TryDisturbed(a) \/ Hang(a) \/ Die(a) \/ Upgrade(a)
        PROVE  \A b \in Agents : ProbeTells(b)'
    BY <1>4, QuietStep, ProbingStep, DieTells DEF Process
  <1>5. \A b \in Agents : ProbeTells(b)'
    BY <1>3, <1>4 DEF Next
  <1> QED
    BY <1>2, <1>5

(* What a probe says of the mount is what renaming there does, whatever an  *)
(* earlier probe left and wherever processes die - if one agent probes it.  *)
(* (Two probes of one mount use the same two names: see the README.)        *)
THEOREM JudgedByRenameHolds == Spec /\ SoleProber => []JudgedByRename
  <1> DEFINE I == SoleProber /\ \A b \in Agents : ProbeTells(b)
  <1>1. Init /\ SoleProber => I
    <2> SUFFICES ASSUME Init, NEW b \in Agents PROVE ProbeTells(b)
      OBVIOUS
    <2>1. proc[b].pc = "off" /\ proc[b].verdicts = <<>>
      BY DEF Init, Idle
    <2> QED
      BY <2>1 DEF ProbeTells
  <1>2. SurveyInv /\ I /\ [Next]_vars => I'
    BY ProbeInvStep
  <1>3. SurveyInv /\ I => JudgedByRename
    <2> SUFFICES ASSUME SurveyInv, I, NEW a \in Agents, NEW i \in 1 .. 1, i \in DOMAIN proc[a].verdicts
                 PROVE  /\ proc[a].verdicts[i] = "atomic" => mount.rename = "atomic"
                        /\ proc[a].verdicts[i] = "not" => mount.rename # "atomic"
      BY DEF JudgedByRename
    <2>1. PICK v \in Seen : v = proc[a].verdicts
      BY ProcessFacts DEF Processes
    <2>2. v[1] = "atomic" => v = <<"atomic">>
      BY <2>1 DEF Seen
    <2>3. v[1] = "not" => v = <<"not">>
      BY <2>1 DEF Seen
    <2> QED
      BY <2>1, <2>2, <2>3 DEF ProbeTells
  <1> QED
    BY <1>1, <1>2, <1>3, SurveyInvariance, PTL DEF Spec

-----------------------------------------------------------------------------
(* Pipeline: what an encode makes of a file.                                *)

(* What ParsedStream makes of a reported stream.                            *)
ParsedStreams == [kind : {"video", "audio", "subtitle", "other"}, codec : Codecs,
                  profile : {"plain", "hdr", "dv7", "dv5", "dvhe.07"},
                  pix : {"8", "10le", "12le", "hdr"}, bits : Int, title : {"plain", "atmos"}]

LEMMA ParsedStreamType ==
  ASSUME NEW s \in StreamReports
  PROVE  /\ ParsedStream(s) \in ParsedStreams
         /\ ParsedStream(s).codec = s.codec
         /\ \A k \in {"video", "audio", "subtitle"} : ParsedStream(s).kind = k <=> s.type = k
  <1>1. s.bits \in Int
    BY DEF StreamReports
  <1>2. PICK b : b = IF s.bits \in Nat THEN s.bits ELSE Missing
    OBVIOUS
  <1>3. b \in Int
    BY <1>1, <1>2 DEF Missing
  <1>4. PICK kind : kind = KindOf(s.type)
    OBVIOUS
  <1>5. ParsedStream(s) = [kind |-> kind, codec |-> s.codec, profile |-> s.profile, pix |-> s.pix,
                           bits |-> b, title |-> s.title]
    BY <1>2, <1>4 DEF ParsedStream
  <1>6. /\ kind \in {"video", "audio", "subtitle", "other"}
        /\ \A k \in {"video", "audio", "subtitle"} : kind = k <=> s.type = k
    BY <1>4 DEF KindOf
  <1>7. /\ s.codec \in Codecs /\ s.profile \in {"plain", "hdr", "dv7", "dv5", "dvhe.07"}
        /\ s.pix \in {"8", "10le", "12le", "hdr"} /\ s.title \in {"plain", "atmos"}
    BY DEF StreamReports
  <1> QED
    BY <1>3, <1>5, <1>6, <1>7 DEF ParsedStreams

(* The parsed streams of a content, one for each reported one.              *)
LEMMA ParsedStreamsMatch ==
  ASSUME NEW c \in ContentTypes
  PROVE  LET s == c.report.streams
             q == ParsedProbe(c.report).streams
         IN /\ s \in Seq(StreamReports) /\ q \in Seq(ParsedStreams)
            /\ Len(q) = Len(s) /\ Len(s) \in Nat
            /\ DOMAIN s = 1 .. Len(s) /\ DOMAIN q = 1 .. Len(s)
            /\ \A i \in 1 .. Len(s) : s[i] \in StreamReports /\ q[i] = ParsedStream(s[i])
  <1>1. PICK s : s = c.report.streams
    OBVIOUS
  <1>2. s \in Seq(StreamReports)
    <2>1. c.report \in Reports
      BY DEF ContentTypes
    <2> QED
      BY <1>1, <2>1 DEF Reports
  <1>3. Len(s) \in Nat /\ DOMAIN s = 1 .. Len(s) /\ \A i \in 1 .. Len(s) : s[i] \in StreamReports
    BY <1>2, LenProperties, ElementOfSeq
  <1>4. PICK q : q = [i \in 1 .. Len(s) |-> ParsedStream(s[i])]
    OBVIOUS
  <1>5. ParsedProbe(c.report).streams = q
    BY <1>1, <1>3, <1>4 DEF ParsedProbe
  <1>6. q \in [1 .. Len(s) -> ParsedStreams]
    BY <1>3, <1>4, ParsedStreamType
  <1>7. q \in Seq(ParsedStreams)
    BY <1>3, <1>6, SeqDef
  <1>8. Len(q) = Len(s) /\ DOMAIN q = 1 .. Len(s)
    BY <1>3, <1>6, <1>7, LenProperties
  <1> QED
    BY <1>1, <1>2, <1>3, <1>4, <1>5, <1>7, <1>8

(* The streams of one kind, and the reported ones they come from.           *)
CodecsFrom(q, s, kind) ==
  \A k \in DOMAIN q : \E i \in 1 .. Len(s) : s[i].type = kind /\ q[k].codec = s[i].codec

LEMMA StreamsOfAre ==
  ASSUME NEW c \in ContentTypes, NEW kind \in {"video", "audio", "subtitle"}
  PROVE  LET s == c.report.streams
             q == StreamsOf(ParsedProbe(c.report), kind)
         IN q \in Seq(ParsedStreams) /\ CodecsFrom(q, s, kind)
  <1>1. PICK s : s = c.report.streams
    OBVIOUS
  <1>2. PICK p : p = ParsedProbe(c.report).streams
    OBVIOUS
  <1>3. /\ p \in Seq(ParsedStreams) /\ Len(s) \in Nat /\ DOMAIN p = 1 .. Len(s)
        /\ \A i \in 1 .. Len(s) : s[i] \in StreamReports /\ p[i] = ParsedStream(s[i])
    BY <1>1, <1>2, ParsedStreamsMatch
  <1>4. PICK I : I = {i \in 1 .. Len(s) : p[i].kind = kind}
    OBVIOUS
  <1>5. PICK q : q = Selected(p, I)
    OBVIOUS
  <1>6. StreamsOf(ParsedProbe(c.report), kind) = q
    BY <1>2, <1>3, <1>4, <1>5 DEF StreamsOf
  <1>7. /\ q \in Seq(ParsedStreams)
        /\ \A k \in DOMAIN q : \E i \in 1 .. Len(s) : i \in I /\ q[k] = p[i]
    BY <1>3, <1>5, SelectedEntries
  <1>8. \A i \in 1 .. Len(s) : (i \in I <=> s[i].type = kind) /\ p[i].codec = s[i].codec
    BY <1>3, <1>4, ParsedStreamType
  <1>9. \A k \in DOMAIN q : \E i \in 1 .. Len(s) : s[i].type = kind /\ q[k].codec = s[i].codec
    <2>1. ASSUME NEW k \in DOMAIN q
          PROVE  \E i \in 1 .. Len(s) : s[i].type = kind /\ q[k].codec = s[i].codec
      <3>1. PICK i \in 1 .. Len(s) : i \in I /\ q[k] = p[i]
        BY <1>7, <2>1
      <3> QED
        BY <1>8, <3>1
    <2> QED
      BY <2>1
  <1> QED
    BY <1>1, <1>6, <1>7, <1>9 DEF CodecsFrom

(* The plans run_one may carry: one stage, the other stage's streams copied. *)
Plans == [video : VideoEncoders \cup {"copy"}, audio : AudioEncoders \cup {"copy"},
          pix : {"none", "yuv420p", "p010le", "yuv420p10le"}]

LEMMA ArgvOf ==
  ASSUME NEW plan \in Plans
  PROVE  /\ Argv(plan).video = plan.video /\ Argv(plan).audio = plan.audio
         /\ Argv(plan).mapped = {"video", "audio", "subtitle", "data"}
  BY DEF Argv, Plans

(* What an encode makes of one stream: its kind stays, a copied kind is not *)
(* touched, and an encoded one has the codec of its encoder.                *)
LEMMA EncodedStreamIs ==
  ASSUME NEW plan \in Plans, NEW s \in StreamReports
  PROVE  LET e == EncodedStream(Argv(plan), s) IN
         /\ e \in StreamReports /\ e.type = s.type
         /\ s.type \notin {"video", "audio"} => e = s
         /\ s.type = "video" => IF plan.video = "copy" THEN e = s
                                ELSE e.codec = CodecWrittenBy[plan.video]
         /\ s.type = "audio" => IF plan.audio = "copy" THEN e = s
                                ELSE e.codec = CodecWrittenBy[plan.audio]
  <1>1. PICK e : e = EncodedStream(Argv(plan), s)
    OBVIOUS
  <1>2. Argv(plan).video = plan.video /\ Argv(plan).audio = plan.audio
    BY ArgvOf
  <1>3. plan.video \in VideoEncoders \cup {"copy"} /\ plan.audio \in AudioEncoders \cup {"copy"}
    BY DEF Plans
  <1>4. CASE s.type = "video" /\ plan.video # "copy"
    <2>1. PICK pix : pix = CASE Argv(plan).pix = "yuv420p" -> "8"
                             [] Argv(plan).pix \in {"yuv420p10le", "p010le"} -> "10le"
                             [] OTHER -> IF plan.video = "libx265" THEN s.pix ELSE "10le"
      OBVIOUS
    <2>2. s.pix \in {"8", "10le", "12le", "hdr"}
      BY DEF StreamReports
    <2>3. pix \in {"8", "10le", "12le", "hdr"}
      BY <2>1, <2>2
    <2>4. PICK w : w = CodecWrittenBy[plan.video]
      OBVIOUS
    <2>5. w \in Codecs
      BY <1>3, <1>4, <2>4 DEF Codecs
    <2>6. e = [s EXCEPT !.codec = w, !.profile = "plain", !.bits = Missing, !.pix = pix]
      BY <1>1, <1>2, <1>4, <2>1, <2>4 DEF EncodedStream
    <2>7. Missing \in Int
      BY DEF Missing
    <2>8. e \in StreamReports /\ e.type = s.type /\ e.codec = w
      <3> HIDE DEF Codecs, Missing
      <3> QED
        BY <2>3, <2>5, <2>6, <2>7 DEF StreamReports
    <2> QED
      BY <1>1, <1>4, <2>4, <2>8
  <1>5. CASE s.type = "audio" /\ plan.audio # "copy"
    <2>1. PICK w : w = CodecWrittenBy[plan.audio]
      OBVIOUS
    <2>2. w \in Codecs
      BY <1>3, <1>5, <2>1 DEF Codecs
    <2>3. e = [s EXCEPT !.codec = w]
      BY <1>1, <1>2, <1>5, <2>1 DEF EncodedStream
    <2>4. e \in StreamReports /\ e.type = s.type /\ e.codec = w
      BY <2>2, <2>3 DEF StreamReports
    <2> QED
      BY <1>1, <1>5, <2>1, <2>4
  <1>6. CASE ~(s.type = "video" /\ plan.video # "copy") /\ ~(s.type = "audio" /\ plan.audio # "copy")
    <2>1. e = s
      BY <1>1, <1>2, <1>6 DEF EncodedStream
    <2> QED
      BY <1>1, <1>6, <2>1
  <1> QED
    BY <1>4, <1>5, <1>6

(* What an encode makes of a report: some of its streams, each of them      *)
(* encoded, and all the video streams.                                      *)
Mapped == {"video", "audio", "subtitle", "data"}
MappedStreams(s) == Selected(s, {i \in DOMAIN s : s[i].type \in Mapped})
EncodedStreams(plan, s) ==
  [i \in DOMAIN MappedStreams(s) |-> EncodedStream(Argv(plan), MappedStreams(s)[i])]

LEMMA EncodedReportIs ==
  ASSUME NEW plan \in Plans, NEW report \in Reports
  PROVE  LET e == EncodedReport(Argv(plan), report) IN
         /\ e \in Reports /\ e.wellFormed = report.wellFormed
         /\ e.streams = EncodedStreams(plan, report.streams)
         /\ e.streams \in Seq(StreamReports)
         /\ Len(e.streams) = Len(MappedStreams(report.streams))
         /\ \A i \in 1 .. Len(e.streams) :
              /\ MappedStreams(report.streams)[i] \in StreamReports
              /\ e.streams[i] = EncodedStream(Argv(plan), MappedStreams(report.streams)[i])
              /\ \E j \in 1 .. Len(report.streams) :
                   MappedStreams(report.streams)[i] = report.streams[j]
  <1>1. PICK s : s = report.streams
    OBVIOUS
  <1>2. s \in Seq(StreamReports)
    BY <1>1 DEF Reports
  <1>3. PICK mapped : mapped = MappedStreams(s)
    OBVIOUS
  <1>4. /\ mapped \in Seq(StreamReports)
        /\ \A k \in DOMAIN mapped : \E i \in DOMAIN s : mapped[k] = s[i]
    <2>1. PICK I : I = {i \in DOMAIN s : s[i].type \in Mapped}
      OBVIOUS
    <2>2. mapped = Selected(s, I)
      BY <1>3, <2>1 DEF MappedStreams
    <2> QED
      BY <1>2, <2>2, SelectedEntries
  <1>5. /\ Len(mapped) \in Nat /\ DOMAIN mapped = 1 .. Len(mapped)
        /\ \A i \in 1 .. Len(mapped) : mapped[i] \in StreamReports
        /\ DOMAIN s = 1 .. Len(s)
    BY <1>2, <1>4, LenProperties, ElementOfSeq
  <1>6. PICK t : t = EncodedStreams(plan, s)
    OBVIOUS
  <1>7. t = [i \in 1 .. Len(mapped) |-> EncodedStream(Argv(plan), mapped[i])]
    BY <1>3, <1>5, <1>6 DEF EncodedStreams
  <1>8. t \in [1 .. Len(mapped) -> StreamReports]
    BY <1>5, <1>7, EncodedStreamIs
  <1>9. t \in Seq(StreamReports)
    BY <1>5, <1>8, SeqDef
  <1>10. Len(t) = Len(mapped)
    BY <1>5, <1>8, <1>9, LenProperties
  <1>11. PICK argv : argv = Argv(plan)
    OBVIOUS
  <1>12. PICK rate \in Int : rate = IF argv.video = "copy" THEN report.rate ELSE 1
    BY DEF Reports
  <1>13. PICK e : e = EncodedReport(argv, report)
    OBVIOUS
  <1>14. e = [report EXCEPT !.container = "matroska", !.rate = rate, !.streams = t]
    <2>1. {i \in DOMAIN s : s[i].type \in argv.mapped} = {i \in DOMAIN s : s[i].type \in Mapped}
      BY <1>11, ArgvOf DEF Mapped
    <2>2. Selected(s, {i \in DOMAIN s : s[i].type \in argv.mapped}) = mapped
      BY <1>3, <2>1 DEF MappedStreams
    <2>3. t = [i \in DOMAIN mapped |-> EncodedStream(argv, mapped[i])]
      BY <1>5, <1>7, <1>11
    <2> QED
      BY <1>1, <1>12, <1>13, <2>2, <2>3 DEF EncodedReport
  <1>15. e \in Reports /\ e.wellFormed = report.wellFormed /\ e.streams = t
    <2>1. PICK Tracks : Tracks = Seq(StreamReports)
      OBVIOUS
    <2>2. report \in [wellFormed : BOOLEAN, container : STRING \cup {"matroska"}, duration : Int,
                      rate : Int, streams : Tracks]
      BY <2>1 DEF Reports
    <2>3. e \in [wellFormed : BOOLEAN, container : STRING \cup {"matroska"}, duration : Int,
                 rate : Int, streams : Tracks]
      BY <1>9, <1>12, <1>14, <2>1, <2>2
    <2>4. e.wellFormed = report.wellFormed /\ e.streams = t
      BY <1>14, <2>2
    <2> QED
      BY <2>1, <2>3, <2>4 DEF Reports
  <1>16. ASSUME NEW i \in 1 .. Len(t)
         PROVE  /\ mapped[i] \in StreamReports /\ t[i] = EncodedStream(Argv(plan), mapped[i])
                /\ \E j \in 1 .. Len(s) : mapped[i] = s[j]
    <2>1. i \in 1 .. Len(mapped)
      BY <1>10
    <2> QED
      BY <1>4, <1>5, <1>7, <2>1
  <1> QED
    BY <1>1, <1>3, <1>6, <1>9, <1>10, <1>11, <1>13, <1>15, <1>16

NotSubtitles(s) == {i \in DOMAIN s : s[i].type # "subtitle"}
WithoutSubtitles(s) == Selected(s, NotSubtitles(s))

(* An output is a content; it can be probed only if its source can; and its *)
(* streams are those of the encode, or those but the subtitles.             *)
LEMMA OutputIs ==
  ASSUME NEW plan \in Plans, NEW c \in ContentTypes,
         NEW o \in Outputs(Argv(plan), c) \cup BadOutputs(Argv(plan), c)
  PROVE  /\ o.made \in ContentTypes /\ o.exit \in {0, 69}
         /\ Parses(o.made.report) => Parses(c.report)
         /\ \/ o.made.report.streams = EncodedStreams(plan, c.report.streams)
            \/ o.made.report.streams = WithoutSubtitles(EncodedStreams(plan, c.report.streams))
  <1>1. PICK argv : argv = Argv(plan)
    OBVIOUS
  <1>2. c.report \in Reports /\ c.length \in Nat /\ c.size \in Nat
    BY DEF ContentTypes
  <1>3. PICK e : e = EncodedReport(argv, c.report)
    OBVIOUS
  <1>4. PICK t \in Seq(StreamReports) : t = EncodedStreams(plan, c.report.streams)
    BY <1>2, EncodedReportIs
  <1>5. e \in Reports /\ e.wellFormed = c.report.wellFormed /\ e.streams = t
    BY <1>1, <1>2, <1>3, <1>4, EncodedReportIs
  <1>6. c.size \div 2 \in Nat /\ c.length \div 2 \in Nat
    <2>1. \A n \in Nat : n \div 2 \in Nat
      OBVIOUS
    <2> QED
      BY <1>2, <2>1
  <1>7. PICK whole : whole = [c EXCEPT !.report = e]
    OBVIOUS
  <1>9. whole \in ContentTypes /\ whole.report = e
    BY <1>5, <1>7 DEF ContentTypes
  <1>11. PICK u : u = WithoutSubtitles(t)
    OBVIOUS
  <1>12. u \in Seq(StreamReports)
    <2>1. PICK I : I = NotSubtitles(t)
      OBVIOUS
    <2>2. u = Selected(t, I)
      BY <1>11, <2>1 DEF WithoutSubtitles
    <2> QED
      BY <2>2, SelectedEntries
  <1>13. PICK fewer : fewer = [e EXCEPT !.streams = u]
    OBVIOUS
  <1>14. fewer \in Reports /\ fewer.wellFormed = c.report.wellFormed /\ fewer.streams = u
    <2>1. PICK Tracks : Tracks = Seq(StreamReports)
      OBVIOUS
    <2>2. e \in [wellFormed : BOOLEAN, container : STRING \cup {"matroska"}, duration : Int,
                 rate : Int, streams : Tracks]
      BY <1>5, <2>1 DEF Reports
    <2>3. fewer \in [wellFormed : BOOLEAN, container : STRING \cup {"matroska"}, duration : Int,
                     rate : Int, streams : Tracks]
      BY <1>12, <1>13, <2>1, <2>2
    <2>4. fewer.wellFormed = e.wellFormed /\ fewer.streams = u
      BY <1>13, <2>2
    <2> QED
      BY <1>5, <2>1, <2>3, <2>4 DEF Reports
  <1>15. PICK no \in BOOLEAN : no = FALSE
    OBVIOUS
  <1>16. PICK broken : broken = [e EXCEPT !.wellFormed = no]
    OBVIOUS
  <1>17. broken \in Reports /\ broken.wellFormed = no /\ broken.streams = t
    <2>1. PICK Tracks : Tracks = Seq(StreamReports)
      OBVIOUS
    <2>2. e \in [wellFormed : BOOLEAN, container : STRING \cup {"matroska"}, duration : Int,
                 rate : Int, streams : Tracks]
      BY <1>5, <2>1 DEF Reports
    <2>3. broken \in [wellFormed : BOOLEAN, container : STRING \cup {"matroska"}, duration : Int,
                     rate : Int, streams : Tracks]
      BY <1>15, <1>16, <2>1, <2>2
    <2>4. broken.wellFormed = no /\ broken.streams = e.streams
      BY <1>16, <2>2
    <2> QED
      BY <1>5, <2>1, <2>3, <2>4 DEF Reports
  <1>18. CASE o \in Outputs(argv, c)
    <2>1. PICK n \in Nat : o.made = [whole EXCEPT !.size = n] /\ o.exit = 0
      <3>1. PICK sizes \in SUBSET Nat : sizes = {c.size, c.size \div 2}
        BY <1>2, <1>6
      <3>2. Outputs(argv, c) = {[exit |-> 0, made |-> [whole EXCEPT !.size = n]] : n \in sizes}
        BY <1>3, <1>7, <3>1 DEF Outputs
      <3>3. PICK n \in sizes : o = [exit |-> 0, made |-> [whole EXCEPT !.size = n]]
        BY <1>18, <3>2, Zenon
      <3>4. o.exit = 0 /\ o.made = [whole EXCEPT !.size = n]
        BY <3>3
      <3> QED
        BY <3>1, <3>4
    <2>2. o.made \in ContentTypes /\ o.made.report = e
      BY <1>9, <2>1 DEF ContentTypes
    <2> QED
      BY <1>4, <1>5, <2>1, <2>2 DEF Parses
  <1>19. CASE o \in BadOutputs(argv, c)
    <2>1. PICK bad : bad = [c EXCEPT !.report = e, !.size = 1]
      OBVIOUS
    <2>2. bad \in ContentTypes /\ bad.report = e
      BY <1>5, <2>1 DEF ContentTypes
    <2>3. PICK short : short = [bad EXCEPT !.length = c.length \div 2]
      OBVIOUS
    <2>4. short \in ContentTypes /\ short.report = e
      <3>1. PICK half \in Nat : half = c.length \div 2
        BY <1>6
      <3> QED
        BY <2>2, <2>3, <3>1 DEF ContentTypes
    <2>5. PICK bare : bare = [bad EXCEPT !.report = fewer]
      OBVIOUS
    <2>6. PICK junk : junk = [bad EXCEPT !.report = broken]
      OBVIOUS
    <2>7. /\ bare \in ContentTypes /\ bare.report = fewer
          /\ junk \in ContentTypes /\ junk.report = broken
      BY <1>14, <1>17, <2>2, <2>5, <2>6 DEF ContentTypes
    <2>8. bare = [bad EXCEPT !.report.streams =
                    Selected(@, {i \in DOMAIN @ : @[i].type # "subtitle"})]
      BY <1>5, <1>11, <1>13, <2>2, <2>5 DEF WithoutSubtitles, NotSubtitles
    <2>9. junk = [bad EXCEPT !.report.wellFormed = FALSE]
      BY <1>15, <1>16, <2>2, <2>6
    <2>10. BadOutputs(argv, c) = { [exit |-> 0, made |-> short], [exit |-> 69, made |-> short],
                                   [exit |-> 0, made |-> bare], [exit |-> 0, made |-> junk] }
      BY <1>3, <2>1, <2>3, <2>8, <2>9 DEF BadOutputs
    <2>11. o.exit \in {0, 69} /\ (o.made = short \/ o.made = bare \/ o.made = junk)
      BY <1>19, <2>10
    <2> QED
      BY <1>4, <1>5, <1>11, <1>14, <1>15, <1>17, <2>4, <2>7, <2>11 DEF Parses
  <1> QED
    BY <1>1, <1>18, <1>19

Parsed(s) == [i \in DOMAIN s |-> ParsedStream(s[i])]
Videos(s) == Selected(Parsed(s), {i \in DOMAIN Parsed(s) : Parsed(s)[i].kind = "video"})

LEMMA VideosOf ==
  ASSUME NEW c
  PROVE  StreamsOf(ParsedProbe(c.report), "video") = Videos(c.report.streams)
  <1>1. ParsedProbe(c.report).streams = Parsed(c.report.streams)
    BY DEF ParsedProbe, Parsed
  <1> QED
    BY <1>1 DEF StreamsOf, Videos

LEMMA ParsedIs ==
  ASSUME NEW s \in Seq(StreamReports)
  PROVE  /\ Parsed(s) \in Seq(ParsedStreams) /\ Len(Parsed(s)) = Len(s)
         /\ DOMAIN Parsed(s) = 1 .. Len(s) /\ Len(s) \in Nat
         /\ \A i \in 1 .. Len(s) : /\ s[i] \in StreamReports
                                   /\ Parsed(s)[i] = ParsedStream(s[i])
                                   /\ Parsed(s)[i].kind = "video" <=> s[i].type = "video"
  <1>1. Len(s) \in Nat /\ DOMAIN s = 1 .. Len(s) /\ \A i \in 1 .. Len(s) : s[i] \in StreamReports
    BY LenProperties, ElementOfSeq
  <1>2. PICK q : q = Parsed(s)
    OBVIOUS
  <1>3. q = [i \in 1 .. Len(s) |-> ParsedStream(s[i])]
    BY <1>1, <1>2 DEF Parsed
  <1>4. q \in [1 .. Len(s) -> ParsedStreams]
    BY <1>1, <1>3, ParsedStreamType
  <1>5. q \in Seq(ParsedStreams)
    BY <1>1, <1>4, SeqDef
  <1>6. Len(q) = Len(s) /\ DOMAIN q = 1 .. Len(s)
    BY <1>1, <1>4, <1>5, LenProperties
  <1>7. ASSUME NEW i \in 1 .. Len(s)
        PROVE  /\ s[i] \in StreamReports /\ q[i] = ParsedStream(s[i])
               /\ q[i].kind = "video" <=> s[i].type = "video"
    BY <1>1, <1>3, ParsedStreamType
  <1> QED
    BY <1>1, <1>2, <1>5, <1>6, <1>7

(* A selection with every video stream, none of them touched, has the same  *)
(* video streams.                                                           *)
LEMMA VideoSurvives ==
  ASSUME NEW s \in Seq(StreamReports), NEW I, NEW t \in Seq(StreamReports),
         Len(t) = Len(Selected(s, I)),
         \A n \in 1 .. Len(s) : s[n].type = "video" => n \in I,
         \A k \in 1 .. Len(t) :
            /\ t[k].type = Selected(s, I)[k].type
            /\ t[k].type = "video" => t[k] = Selected(s, I)[k]
  PROVE  Videos(t) = Videos(s)
  <1>1. PICK p : p = Parsed(t)
    OBVIOUS
  <1>2. PICK q : q = Parsed(s)
    OBVIOUS
  <1>3. /\ p \in Seq(ParsedStreams) /\ Len(p) = Len(t) /\ DOMAIN p = 1 .. Len(t)
        /\ \A k \in 1 .. Len(t) : /\ p[k] = ParsedStream(t[k])
                                  /\ p[k].kind = "video" <=> t[k].type = "video"
    BY <1>1, ParsedIs
  <1>4. /\ q \in Seq(ParsedStreams) /\ Len(q) = Len(s) /\ DOMAIN q = 1 .. Len(s)
        /\ \A n \in 1 .. Len(s) : /\ q[n] = ParsedStream(s[n])
                                  /\ q[n].kind = "video" <=> s[n].type = "video"
    BY <1>2, ParsedIs
  <1>5. PICK J : J = {k \in DOMAIN p : p[k].kind = "video"}
    OBVIOUS
  <1>6. PICK K : K = {n \in DOMAIN q : q[n].kind = "video"}
    OBVIOUS
  <1>7. \A k \in 1 .. Len(t) : k \in J <=> t[k].type = "video"
    BY <1>3, <1>5
  <1>8. \A n \in 1 .. Len(s) : n \in K <=> s[n].type = "video"
    BY <1>4, <1>6
  <1>9. \A n \in 1 .. Len(s) : n \in K => n \in I
    BY <1>8
  <1>10. ASSUME NEW n \in 1 .. Len(s), NEW k \in 1 .. Len(p), n \in I, Selected(s, I)[k] = s[n]
         PROVE  (k \in J <=> n \in K) /\ (k \in J => p[k] = q[n])
    <2>1. k \in 1 .. Len(t)
      BY <1>3
    <2>2. t[k].type = s[n].type /\ (t[k].type = "video" => t[k] = s[n])
      BY <1>10, <2>1
    <2> QED
      BY <1>3, <1>4, <1>7, <1>8, <2>1, <2>2
  <1>11. Selected(p, J) = Selected(q, K)
    <2>1. Len(q) = Len(s) /\ Len(p) = Len(Selected(s, I))
      BY <1>3, <1>4
    <2> QED
      BY <1>3, <1>4, <1>9, <1>10, <2>1, SelectedTwice
  <1>12. Videos(t) = Selected(p, J) /\ Videos(s) = Selected(q, K)
    BY <1>1, <1>2, <1>5, <1>6 DEF Videos
  <1> QED
    BY <1>11, <1>12

(* Every stream of an output is the encode of one of the source's, and a    *)
(* copied video is copied whole.                                            *)
LEMMA OutputStreams ==
  ASSUME NEW plan \in Plans, NEW c \in ContentTypes,
         NEW o \in Outputs(Argv(plan), c) \cup BadOutputs(Argv(plan), c)
  PROVE  LET was == c.report.streams
             is  == o.made.report.streams
         IN /\ \A i \in 1 .. Len(is) : \E j \in 1 .. Len(was) :
                  was[j] \in StreamReports /\ is[i] = EncodedStream(Argv(plan), was[j])
            /\ plan.video = "copy" =>
                 StreamsOf(ParsedProbe(o.made.report), "video")
                   = StreamsOf(ParsedProbe(c.report), "video")
  <1>1. PICK was \in Seq(StreamReports) : was = c.report.streams
    BY ParsedStreamsMatch
  <1>2. PICK mapped : mapped = MappedStreams(was)
    OBVIOUS
  <1>3. PICK e : e = EncodedStreams(plan, was)
    OBVIOUS
  <1>4. /\ e \in Seq(StreamReports) /\ Len(e) = Len(mapped)
        /\ \A i \in 1 .. Len(e) :
             /\ mapped[i] \in StreamReports /\ e[i] = EncodedStream(Argv(plan), mapped[i])
             /\ \E j \in 1 .. Len(was) : mapped[i] = was[j]
    <2>1. PICK rep \in Reports : rep = c.report
      BY DEF ContentTypes
    <2>2. PICK g : g = EncodedReport(Argv(plan), rep).streams
      OBVIOUS
    <2>3. g = EncodedStreams(plan, rep.streams)
      BY <2>2, EncodedReportIs
    <2>4. g = e /\ rep.streams = was
      BY <1>1, <1>3, <2>1, <2>3
    <2>5. g \in Seq(StreamReports) /\ Len(g) = Len(mapped)
      BY <1>2, <2>2, <2>4, EncodedReportIs
    <2>6. \A i \in 1 .. Len(g) :
             /\ mapped[i] \in StreamReports /\ g[i] = EncodedStream(Argv(plan), mapped[i])
             /\ \E j \in 1 .. Len(was) : mapped[i] = was[j]
      <3> SUFFICES ASSUME NEW i \in 1 .. Len(g)
                   PROVE  /\ mapped[i] \in StreamReports
                          /\ g[i] = EncodedStream(Argv(plan), mapped[i])
                          /\ \E j \in 1 .. Len(was) : mapped[i] = was[j]
        OBVIOUS
      <3>1. MappedStreams(rep.streams) = mapped
        BY <1>2, <2>4
      <3>2. mapped[i] \in StreamReports /\ g[i] = EncodedStream(Argv(plan), mapped[i])
        BY <2>2, <3>1, EncodedReportIs
      <3>3. PICK j \in 1 .. Len(rep.streams) : MappedStreams(rep.streams)[i] = rep.streams[j]
        BY <2>2, EncodedReportIs
      <3>4. mapped[i] = was[j] /\ j \in 1 .. Len(was)
        BY <2>4, <3>1, <3>3
      <3> QED
        BY <3>2, <3>4
    <2> QED
      BY <2>4, <2>5, <2>6
  <1>5. PICK u : u = WithoutSubtitles(e)
    OBVIOUS
  <1>6. PICK I : I = NotSubtitles(e)
    OBVIOUS
  <1>7. u = Selected(e, I)
    BY <1>5, <1>6 DEF WithoutSubtitles
  <1>8. /\ u \in Seq(StreamReports) /\ Len(u) \in Nat /\ DOMAIN u = 1 .. Len(u)
        /\ Len(e) \in Nat /\ DOMAIN e = 1 .. Len(e)
        /\ \A k \in DOMAIN u : \E i \in DOMAIN e : u[k] = e[i]
    BY <1>4, <1>7, SelectedEntries, LenProperties
  <1>9. PICK is : is = o.made.report.streams
    OBVIOUS
  <1>10. is = e \/ is = u
    BY <1>1, <1>3, <1>5, <1>9, OutputIs
  <1>11. ASSUME NEW i \in 1 .. Len(e)
         PROVE  \E j \in 1 .. Len(was) :
                  was[j] \in StreamReports /\ e[i] = EncodedStream(Argv(plan), was[j])
    <2>1. PICK j \in 1 .. Len(was) : mapped[i] = was[j]
      BY <1>4
    <2> QED
      BY <1>4, <2>1
  <1>12. ASSUME NEW i \in 1 .. Len(is)
         PROVE  \E j \in 1 .. Len(was) :
                  was[j] \in StreamReports /\ is[i] = EncodedStream(Argv(plan), was[j])
    <2>1. PICK n \in 1 .. Len(e) : is[i] = e[n]
      <3>1. CASE is = e
        BY <3>1
      <3>2. CASE is = u
        <4>1. i \in DOMAIN u
          BY <1>8, <3>2
        <4> QED
          BY <1>8, <3>2, <4>1
      <3> QED
        BY <1>10, <3>1, <3>2
    <2> QED
      BY <1>11, <2>1
  <1>13. ASSUME plan.video = "copy" PROVE Videos(is) = Videos(was)
    <2>1. Videos(e) = Videos(was)
      <3>1. PICK M : M = {i \in DOMAIN was : was[i].type \in Mapped}
        OBVIOUS
      <3>2. mapped = Selected(was, M)
        BY <1>2, <3>1 DEF MappedStreams
      <3>3. \A n \in 1 .. Len(was) : was[n].type = "video" => n \in M
        <4>1. DOMAIN was = 1 .. Len(was)
          BY LenProperties
        <4> QED
          BY <3>1, <4>1 DEF Mapped
      <3>4. ASSUME NEW k \in 1 .. Len(e)
            PROVE  /\ e[k].type = mapped[k].type
                   /\ e[k].type = "video" => e[k] = mapped[k]
        BY <1>4, <1>13, EncodedStreamIs
      <3> QED
        BY <1>4, <3>2, <3>3, <3>4, VideoSurvives
    <2>2. Videos(u) = Videos(e)
      <3>1. \A n \in 1 .. Len(e) : e[n].type = "video" => n \in I
        BY <1>6, <1>8 DEF NotSubtitles
      <3> QED
        BY <1>4, <1>7, <1>8, <3>1, VideoSurvives
    <2> QED
      BY <1>10, <2>1, <2>2
  <1>14. plan.video = "copy" => StreamsOf(ParsedProbe(o.made.report), "video")
                                  = StreamsOf(ParsedProbe(c.report), "video")
    BY <1>1, <1>9, <1>13, VideosOf
  <1> QED
    BY <1>1, <1>9, <1>12, <1>14

AudioRules(rules) == {j \in DOMAIN rules : rules[j].then.kind = "EncodeAudio"}
VideoRules(rules) == {j \in DOMAIN rules : rules[j].then.kind = "EncodeVideo"}
RulesOK(rules) == DOMAIN rules \subseteq Nat /\ \A i \in DOMAIN rules : RuleOK(rules[i])

(* The plans the rules make: one stage, the other stage's streams copied.   *)
AudioPass(plan, rules) ==
  /\ plan.video = "copy"
  /\ \E j \in AudioRules(rules) : plan.audio = rules[j].then.codec
VideoPass(plan, rules) ==
  /\ plan.audio = "copy"
  /\ \E j \in VideoRules(rules) : plan.video = rules[j].then.preference[1]

LEMMA PoliciesOK == \A p \in DOMAIN Policies : RulesOK(Policies[p])
  BY PipelineAssumption DEF RulesOK

(* A file that is owed work is not excluded, and its stage was planned by a *)
(* rule that matches; the video stage only of video that may be encoded.    *)
LEMMA EvaluateOwes ==
  ASSUME NEW f, NEW rules, RulesOK(rules), NEW d, d = Evaluate(f, rules), OwesWork(d)
  PROVE  /\ ~IsExcluded(f)
         /\ d.class = "Video" =>
              /\ VideoIsEncodable(f)
              /\ \E j \in VideoRules(rules) : /\ Matches(rules[j].when, f)
                                              /\ d.video.preference = rules[j].then.preference
         /\ d.class # "Video" =>
              \E j \in AudioRules(rules) : /\ Matches(rules[j].when, f)
                                           /\ d.audio.codec = rules[j].then.codec
  <1>1. PICK stops : stops = Matched(f, rules, {"Skip", "Quarantine"})
    OBVIOUS
  <1>2. PICK audio : audio = AudioPlan(f, rules)
    OBVIOUS
  <1>3. PICK video : video = VideoPlan(f, rules)
    OBVIOUS
  <1>4. ~IsExcluded(f) /\ stops = {}
    <2>1. CASE IsExcluded(f)
      <3>1. d.class = "Quarantined"
        BY <2>1 DEF Evaluate, Decided, Decision
      <3> QED
        BY <3>1 DEF OwesWork
    <2>2. CASE ~IsExcluded(f) /\ stops # {}
      <3>1. d = Decided(IF rules[First(stops)].then.kind = "Skip" THEN "None" ELSE "Quarantined")
        BY <1>1, <2>2 DEF Evaluate
      <3>2. d.class \in {"None", "Quarantined"}
        BY <3>1 DEF Decided, Decision
      <3> QED
        BY <3>2 DEF OwesWork
    <2> QED
      BY <2>1, <2>2
  <1>5. d = Decision(StageClass(audio, video), audio, video)
    BY <1>1, <1>2, <1>3, <1>4 DEF Evaluate
  <1>6. d.class = StageClass(audio, video) /\ d.audio = audio /\ d.video = video
    BY <1>5 DEF Decision
  <1>7. DOMAIN rules \subseteq Nat
    BY DEF RulesOK
  <1>8. ASSUME d.class = "Video"
        PROVE  /\ VideoIsEncodable(f)
               /\ \E j \in VideoRules(rules) : /\ Matches(rules[j].when, f)
                                               /\ d.video.preference = rules[j].then.preference
    <2>1. video # NoPlan
      BY <1>6, <1>8 DEF StageClass
    <2>2. PICK I : I = Matched(f, rules, {"EncodeVideo"})
      OBVIOUS
    <2>3. I # {} /\ VideoIsEncodable(f) /\ video.preference = rules[First(I)].then.preference
      BY <1>3, <2>1, <2>2 DEF VideoPlan
    <2>4. I \subseteq Nat
      BY <1>7, <2>2 DEF Matched
    <2>5. First(I) \in I
      BY <2>3, <2>4, FirstIsLeast
    <2>6. First(I) \in VideoRules(rules) /\ Matches(rules[First(I)].when, f)
      BY <2>2, <2>5 DEF Matched, VideoRules
    <2> QED
      BY <1>6, <2>3, <2>6
  <1>9. ASSUME d.class # "Video"
        PROVE  \E j \in AudioRules(rules) : /\ Matches(rules[j].when, f)
                                            /\ d.audio.codec = rules[j].then.codec
    <2>1. audio # NoPlan
      <3>1. d.class # "None"
        BY DEF OwesWork
      <3> QED
        BY <1>6, <1>9, <3>1 DEF StageClass
    <2>2. PICK I : I = Matched(f, rules, {"EncodeAudio"})
      OBVIOUS
    <2>3. I # {} /\ audio = rules[First(I)].then
      BY <1>2, <2>1, <2>2 DEF AudioPlan
    <2>4. I \subseteq Nat
      BY <1>7, <2>2 DEF Matched
    <2>5. First(I) \in I
      BY <2>3, <2>4, FirstIsLeast
    <2>6. First(I) \in AudioRules(rules) /\ Matches(rules[First(I)].when, f)
      BY <2>2, <2>5 DEF Matched, AudioRules
    <2> QED
      BY <1>6, <2>3, <2>6
  <1> QED
    BY <1>4, <1>8, <1>9

LEMMA PreferenceIs ==
  ASSUME NEW rules, RulesOK(rules), NEW j \in VideoRules(rules)
  PROVE  rules[j].then.preference[1] \in VideoEncoders
  <1>1. PICK pref : pref = rules[j].then.preference
    OBVIOUS
  <1>2. pref \in Seq(VideoEncoders) \ {<<>>}
    BY <1>1 DEF RulesOK, RuleOK, VideoRules
  <1>3. Len(pref) \in Nat /\ Len(pref) # 0
    BY <1>2, LenProperties, EmptySeq
  <1>4. 1 \in 1 .. Len(pref)
    BY <1>3
  <1> QED
    BY <1>1, <1>2, <1>4, ElementOfSeq

(* Its encode is of that stage.                                             *)
LEMMA PlanOf ==
  ASSUME NEW f, NEW rules, RulesOK(rules), NEW d, d = Evaluate(f, rules), OwesWork(d),
         NEW plan, plan = EncodePlanFor(d)
  PROVE  /\ plan \in Plans
         /\ d.class = "Video" => VideoPass(plan, rules)
         /\ d.class # "Video" => AudioPass(plan, rules)
  <1>1. CASE d.class = "Video"
    <2>1. PICK j \in VideoRules(rules) : d.video.preference = rules[j].then.preference
      BY <1>1, EvaluateOwes
    <2>2. PICK pref : pref = rules[j].then.preference
      OBVIOUS
    <2>4. pref[1] \in VideoEncoders
      BY <2>1, <2>2, PreferenceIs
    <2>5. PICK pix : pix = PixFmtFor(pref[1], d.video.depth)
      OBVIOUS
    <2>6. pix \in {"none", "yuv420p", "p010le", "yuv420p10le"}
      BY <2>5 DEF PixFmtFor
    <2>7. plan = [video |-> pref[1], audio |-> "copy", pix |-> pix]
      BY <1>1, <2>1, <2>2, <2>5 DEF EncodePlanFor
    <2>8. plan \in Plans
      BY <2>4, <2>6, <2>7 DEF Plans
    <2>9. plan.audio = "copy" /\ plan.video = rules[j].then.preference[1]
      BY <2>2, <2>7
    <2> QED
      BY <1>1, <2>8, <2>9 DEF VideoPass
  <1>2. CASE d.class # "Video"
    <2>1. PICK j \in AudioRules(rules) : d.audio.codec = rules[j].then.codec
      BY <1>2, EvaluateOwes
    <2>2. PICK codec : codec = rules[j].then.codec
      OBVIOUS
    <2>3. codec \in AudioEncoders
      BY <2>1, <2>2 DEF RulesOK, RuleOK, AudioRules
    <2>4. plan = [video |-> "copy", audio |-> codec, pix |-> "none"]
      BY <1>2, <2>1, <2>2 DEF EncodePlanFor
    <2>5. plan \in Plans
      BY <2>3, <2>4 DEF Plans
    <2> QED
      BY <1>2, <2>2, <2>4, <2>5 DEF AudioPass
  <1> QED
    BY <1>1, <1>2

Facts(c, n) == DeriveFacts(ParsedProbe(c.report), n)

Resized(f, m) == [f EXCEPT !.size = m]
SizeIsFree(P, n) == \A m : Resized(DeriveFacts(P, n), m) = DeriveFacts(P, m)
NamesDovi(probe) == DoviProfile(probe) # Missing
CodecOf(probe) == IF HasVideo(probe) THEN PrimaryVideo(probe).codec ELSE "none"

(* The facts of a probe; only the size depends on the size.                 *)
LEMMA FactsAre ==
  ASSUME NEW P, NEW n
  PROVE  LET f == DeriveFacts(P, n) IN
         /\ SizeIsFree(P, n)
         /\ f.size = n /\ f.duration = P.duration
         /\ f.audioCount = CountOf(P, "audio") /\ f.subtitles = CountOf(P, "subtitle")
         /\ f.hdr = IsHdr(P) /\ f.dovi = NamesDovi(P)
         /\ f.doviProfile = DoviProfile(P) /\ f.objectAudio = HasObjectAudio(P)
         /\ f.codec = CodecOf(P)
         /\ f.audio = [i \in DOMAIN StreamsOf(P, "audio") |-> StreamsOf(P, "audio")[i].codec]
         /\ f # NoContent
  <1>1. PICK x1, x2, x3 : x1 = P.container /\ x2 = P.duration /\ x3 = P.rate
    OBVIOUS
  <1>2. PICK x4 : x4 = CodecOf(P)
    OBVIOUS
  <1>3. PICK x5 : x5 = IF HasVideo(P) THEN PrimaryVideo(P).profile ELSE "none"
    OBVIOUS
  <1>4. PICK x6 : x6 = IF HasVideo(P) THEN BitDepthOf(PrimaryVideo(P).pix, PrimaryVideo(P).bits)
                                      ELSE Missing
    OBVIOUS
  <1>5. PICK x7 : x7 = IsHdr(P)
    OBVIOUS
  <1>6. PICK x8 : x8 = NamesDovi(P)
    OBVIOUS
  <1>7. PICK x9 : x9 = DoviProfile(P)
    OBVIOUS
  <1>8. PICK x10 : x10 = HasObjectAudio(P)
    OBVIOUS
  <1>9. PICK x11 : x11 = [i \in DOMAIN StreamsOf(P, "audio") |-> StreamsOf(P, "audio")[i].codec]
    OBVIOUS
  <1>10. PICK x12, x13 : x12 = CountOf(P, "audio") /\ x13 = CountOf(P, "subtitle")
    OBVIOUS
  <1> DEFINE R(m) == [container |-> x1, duration |-> x2, size |-> m, rate |-> x3, codec |-> x4,
                      profile |-> x5, depth |-> x6, hdr |-> x7, dovi |-> x8, doviProfile |-> x9,
                      objectAudio |-> x10, audio |-> x11, audioCount |-> x12, subtitles |-> x13]
  <1>11. \A m : DeriveFacts(P, m) = R(m)
    BY <1>1, <1>2, <1>3, <1>4, <1>5, <1>6, <1>7, <1>8, <1>9, <1>10, Zenon
       DEF DeriveFacts, CodecOf, CountOf, NamesDovi
  <1>12. \A m : [R(n) EXCEPT !.size = m] = R(m)
    OBVIOUS
  <1>13. /\ R(n).size = n /\ R(n).duration = x2 /\ R(n).audioCount = x12 /\ R(n).subtitles = x13
         /\ R(n).hdr = x7 /\ R(n).dovi = x8 /\ R(n).doviProfile = x9 /\ R(n).objectAudio = x10
         /\ R(n).codec = x4 /\ R(n).audio = x11
    OBVIOUS
  <1>14. R(n) # NoContent
    <2>1. "codec" \in DOMAIN R(n)
      OBVIOUS
    <2>2. "codec" \notin DOMAIN NoContent
      BY DEF NoContent
    <2> QED
      BY <2>1, <2>2
  <1> HIDE DEF R
  <1>15. PICK f : f = DeriveFacts(P, n)
    OBVIOUS
  <1>16. f = R(n)
    BY <1>11, <1>15
  <1>17. ASSUME NEW m PROVE Resized(f, m) = DeriveFacts(P, m)
    BY <1>11, <1>12, <1>16 DEF Resized
  <1>18. f.size = n /\ f.duration = P.duration /\ f.audioCount = CountOf(P, "audio")
         /\ f.subtitles = CountOf(P, "subtitle") /\ f.doviProfile = DoviProfile(P)
         /\ f.codec = CodecOf(P) /\ f # NoContent
    BY <1>1, <1>2, <1>7, <1>10, <1>13, <1>14, <1>16
  <1>19. f.audio = [i \in DOMAIN StreamsOf(P, "audio") |-> StreamsOf(P, "audio")[i].codec]
    BY <1>9, <1>13, <1>16
  <1>20. f.hdr = IsHdr(P)
    BY <1>5, <1>13, <1>16, Zenon
  <1>21. f.dovi = NamesDovi(P)
    BY <1>6, <1>13, <1>16, Zenon
  <1>22. f.objectAudio = HasObjectAudio(P)
    BY <1>8, <1>13, <1>16, Zenon
  <1>23. SizeIsFree(P, n)
    BY <1>15, <1>17 DEF SizeIsFree
  <1> QED
    BY <1>15, <1>23, <1>18, <1>19, <1>20, <1>21, <1>22, Zenon

LEMMA FactsResize ==
  ASSUME NEW c, NEW n, NEW m
  PROVE  Resized(Facts(c, n), m) = Facts(c, m)
  <1>1. SizeIsFree(ParsedProbe(c.report), n)
    BY FactsAre, Zenon
  <1> QED
    BY <1>1 DEF Facts, SizeIsFree

(* What the facts say of exclusion and protection is not about the size.    *)
LEMMA FactsSayAlike ==
  ASSUME NEW P, NEW n, NEW m
  PROVE  LET f == DeriveFacts(P, n)
             g == DeriveFacts(P, m)
         IN /\ IsExcluded(f) <=> IsExcluded(g)
            /\ VideoIsEncodable(f) <=> ~(g.hdr \/ g.dovi)
  <1>1. PICK f : f = DeriveFacts(P, n)
    OBVIOUS
  <1>2. PICK g : g = DeriveFacts(P, m)
    OBVIOUS
  <1>3. f.hdr = g.hdr /\ f.dovi = g.dovi
    <2>1. f.hdr = IsHdr(P) /\ g.hdr = IsHdr(P)
      BY <1>1, <1>2, FactsAre, Zenon
    <2>2. f.dovi = NamesDovi(P) /\ g.dovi = NamesDovi(P)
      BY <1>1, <1>2, FactsAre, Zenon
    <2> QED
      BY <2>1, <2>2, Zenon
  <1>4. f.doviProfile = g.doviProfile /\ f.objectAudio = g.objectAudio
    <2>1. f.doviProfile = DoviProfile(P) /\ g.doviProfile = DoviProfile(P)
      BY <1>1, <1>2, FactsAre, Zenon
    <2>2. f.objectAudio = HasObjectAudio(P) /\ g.objectAudio = HasObjectAudio(P)
      BY <1>1, <1>2, FactsAre, Zenon
    <2> QED
      BY <2>1, <2>2, Zenon
  <1>5. IsExcluded(f) <=> IsExcluded(g)
    BY <1>4 DEF IsExcluded
  <1>6. VideoIsEncodable(f) <=> ~(g.hdr \/ g.dovi)
    BY <1>3 DEF VideoIsEncodable
  <1> QED
    BY <1>1, <1>2, <1>5, <1>6, Zenon

LEMMA CountsAreNumbers ==
  ASSUME NEW c \in ContentTypes, NEW kind \in {"video", "audio", "subtitle"}
  PROVE  CountOf(ParsedProbe(c.report), kind) \in Nat
  <1>1. PICK q : q = StreamsOf(ParsedProbe(c.report), kind)
    OBVIOUS
  <1>2. q \in Seq(ParsedStreams)
    BY <1>1, StreamsOfAre
  <1> QED
    BY <1>1, <1>2, LenProperties DEF CountOf

(* An output that passes has passed every gate.                             *)
LEMMA PassedEveryGate ==
  ASSUME NEW spec, NEW probe, NEW exit, NEW bytes,
         ValidateOutput(spec, probe, exit, bytes) = "Passed"
  PROVE  \A gate \in {"ExitCode", "Probe", "Duration", "Streams", "Size"} :
            ~GateFails(gate, spec, probe, exit, bytes)
  <1>1. PICK failing : failing =
            {i \in DOMAIN GateOrder : GateFails(GateOrder[i], spec, probe, exit, bytes)}
    OBVIOUS
  <1>2. DOMAIN GateOrder = 1 .. 5
    BY DEF GateOrder
  <1>3. failing = {}
    <2> SUFFICES ASSUME failing # {} PROVE FALSE
      OBVIOUS
    <2>1. failing \subseteq Nat /\ failing \subseteq 1 .. 5
      BY <1>1, <1>2
    <2>2. First(failing) \in 1 .. 5
      BY <2>1, FirstIsLeast
    <2>3. GateOrder[First(failing)] # "Passed"
      BY <2>2 DEF GateOrder
    <2>4. ValidateOutput(spec, probe, exit, bytes) = GateOrder[First(failing)]
      BY <1>1 DEF ValidateOutput
    <2> QED
      BY <2>3, <2>4
  <1>4. \A i \in 1 .. 5 : ~GateFails(GateOrder[i], spec, probe, exit, bytes)
    BY <1>1, <1>2, <1>3
  <1>5. /\ GateOrder[1] = "ExitCode" /\ GateOrder[2] = "Probe" /\ GateOrder[3] = "Duration"
        /\ GateOrder[4] = "Streams" /\ GateOrder[5] = "Size"
    BY DEF GateOrder
  <1>6. 1 \in 1 .. 5 /\ 2 \in 1 .. 5 /\ 3 \in 1 .. 5 /\ 4 \in 1 .. 5 /\ 5 \in 1 .. 5
    OBVIOUS
  <1> QED
    BY <1>4, <1>5, <1>6

(* What an output that passes is.                                           *)
LEMMA PassedOutput ==
  ASSUME NEW c \in ContentTypes, NEW out \in Measured(c), NEW spec, NEW exit,
         Validate(spec, c, out, exit) = "Passed",
         spec.audioStreams \in Nat, spec.subtitleStreams \in Nat, spec.duration \in Int,
         spec.maxShorter \in Int, spec.maxLonger \in Int
  PROVE  /\ Parses(c.report)
         /\ CountOf(ParsedProbe(c.report), "audio") >= spec.audioStreams
         /\ CountOf(ParsedProbe(c.report), "subtitle") >= spec.subtitleStreams
         /\ TailReadable => /\ spec.duration - c.length <= spec.maxShorter
                            /\ c.length - spec.duration <= spec.maxLonger
  <1>1. PICK probe : probe = Probed(c, out)
    OBVIOUS
  <1>2. \A gate \in {"ExitCode", "Probe", "Duration", "Streams", "Size"} :
            ~GateFails(gate, spec, probe, exit, c.size)
    BY <1>1, PassedEveryGate DEF Validate
  <1>3. ~GateFails("Probe", spec, probe, exit, c.size) /\ ~GateFails("Streams", spec, probe, exit, c.size)
        /\ ~GateFails("Duration", spec, probe, exit, c.size)
    BY <1>2
  <1>4. Parses(c.report)
    <2> SUFFICES ASSUME ~Parses(c.report) PROVE FALSE
      OBVIOUS
    <2>1. probe.streams = <<>>
      BY <1>1 DEF Probed, EmptyProbe
    <2> QED
      BY <1>3, <2>1 DEF GateFails
  <1>5. PICK q : q = ParsedProbe(c.report)
    OBVIOUS
  <1>6. PICK d : d = IF out = Missing THEN c.report.duration ELSE out
    OBVIOUS
  <1>7. probe = [q EXCEPT !.duration = d]
    BY <1>1, <1>4, <1>5, <1>6 DEF Probed
  <1>8. probe.streams = q.streams /\ probe.duration = d
    <2>1. q = [container |-> q.container, duration |-> q.duration, rate |-> q.rate,
               streams |-> q.streams]
      BY <1>5 DEF ParsedProbe
    <2> QED
      BY <1>7, <2>1
  <1>9. /\ CountOf(probe, "audio") = CountOf(q, "audio")
        /\ CountOf(probe, "subtitle") = CountOf(q, "subtitle")
    BY <1>8 DEF CountOf, StreamsOf
  <1>10. CountOf(q, "audio") \in Nat /\ CountOf(q, "subtitle") \in Nat
    BY <1>5, CountsAreNumbers
  <1>11. ~(CountOf(q, "audio") < spec.audioStreams) /\ ~(CountOf(q, "subtitle") < spec.subtitleStreams)
    BY <1>3, <1>9 DEF GateFails
  <1>12. ~(spec.duration - d > spec.maxShorter) /\ ~(d - spec.duration > spec.maxLonger)
    BY <1>3, <1>8 DEF GateFails
  <1>13. TailReadable => d = c.length /\ d \in Nat
    <2> SUFFICES ASSUME TailReadable PROVE d = c.length /\ d \in Nat
      OBVIOUS
    <2>1. out = c.length
      BY DEF Measured
    <2>2. c.length \in Nat
      BY DEF ContentTypes
    <2>3. out # Missing
      BY <2>1, <2>2 DEF Missing
    <2> QED
      BY <1>6, <2>1, <2>2, <2>3
  <1>14. /\ CountOf(q, "audio") >= spec.audioStreams /\ CountOf(q, "subtitle") >= spec.subtitleStreams
    BY <1>10, <1>11
  <1>15. TailReadable => /\ spec.duration - c.length <= spec.maxShorter
                         /\ c.length - spec.duration <= spec.maxLonger
    BY <1>12, <1>13
  <1> QED
    BY <1>4, <1>5, <1>14, <1>15

(* What a run carries was planned from the facts of some content under the  *)
(* policy p.                                                                *)
PlannedFrom(r, f, p) ==
  LET d == Evaluate(f, Policies[p]) IN
  /\ OwesWork(d)
  /\ r.plan = EncodePlanFor(d) /\ r.spec = ValidationSpecFor(f, d)

(* The gates' part of a plan.                                               *)
LEMMA SpecIs ==
  ASSUME NEW c \in ContentTypes, NEW n \in Nat, NEW d, NEW spec,
         spec = ValidationSpecFor(Facts(c, n), d)
  PROVE  /\ spec.audioStreams = CountOf(ParsedProbe(c.report), "audio")
         /\ spec.subtitleStreams = CountOf(ParsedProbe(c.report), "subtitle")
         /\ spec.duration \in Int /\ spec.maxShorter \in Int /\ spec.maxShorter <= MaxShorterCap
         /\ spec.maxLonger = MaxLonger
         /\ \A m : LET new == [spec EXCEPT !.duration = m] IN
              /\ new.audioStreams = spec.audioStreams /\ new.subtitleStreams = spec.subtitleStreams
              /\ new.duration = m /\ new.maxShorter = spec.maxShorter
              /\ new.maxLonger = spec.maxLonger
  <1>1. PICK f : f = Facts(c, n)
    OBVIOUS
  <1>2. f.duration = ParsedProbe(c.report).duration
    BY <1>1, FactsAre DEF Facts
  <1>3. f.audioCount = CountOf(ParsedProbe(c.report), "audio")
    BY <1>1, FactsAre DEF Facts
  <1>4. f.subtitles = CountOf(ParsedProbe(c.report), "subtitle")
    BY <1>1, FactsAre DEF Facts
  <1>5. f.duration \in Int
    <2>1. c.report.duration \in Int
      BY DEF ContentTypes, Reports
    <2> QED
      BY <1>2, <2>1 DEF ParsedProbe
  <1>6. PICK duration \in Int : duration = IF f.duration = Missing THEN 0 ELSE f.duration
    BY <1>5
  <1>7. PICK share \in Int : share = duration \div 200
    <2>1. \A x \in Int : x \div 200 \in Int
      OBVIOUS
    <2> QED
      BY <2>1
  <1>8. PICK shorter : shorter = IF share < MaxShorterCap THEN share ELSE MaxShorterCap
    OBVIOUS
  <1>9. shorter \in Int /\ shorter <= MaxShorterCap
    BY <1>8, ToleranceAssumption
  <1>10. PICK smaller : smaller = (d.class \notin {"Audio", "AudioThenVideo"})
    OBVIOUS
  <1>11. spec = [duration |-> duration, maxShorter |-> shorter, maxLonger |-> MaxLonger,
                 audioStreams |-> f.audioCount, subtitleStreams |-> f.subtitles,
                 sourceBytes |-> f.size, requireSmaller |-> smaller]
    BY <1>1, <1>6, <1>7, <1>8, <1>10, Zenon DEF ValidationSpecFor
  <1>12. /\ spec.duration = duration /\ spec.maxShorter = shorter /\ spec.maxLonger = MaxLonger
         /\ spec.audioStreams = f.audioCount /\ spec.subtitleStreams = f.subtitles
    BY <1>11
  <1>13. ASSUME NEW m
         PROVE  LET new == [spec EXCEPT !.duration = m] IN
                /\ new.audioStreams = spec.audioStreams
                /\ new.subtitleStreams = spec.subtitleStreams
                /\ new.duration = m /\ new.maxShorter = spec.maxShorter
                /\ new.maxLonger = spec.maxLonger
    BY <1>11
  <1> QED
    BY <1>3, <1>4, <1>9, <1>12, <1>13

(* A plan made of a content's facts: the file is not excluded, protected    *)
(* video is copied, and the stage was owed by a rule that matches.          *)
LEMMA PlannedGives ==
  ASSUME NEW p \in DOMAIN Policies, NEW c \in ContentTypes, NEW n \in Nat, NEW m,
         NEW r, PlannedFrom(r, Facts(c, n), p)
  PROVE  /\ r.plan \in Plans
         /\ ~IsExcluded(Facts(c, m))
         /\ Facts(c, m).hdr \/ Facts(c, m).dovi => r.plan.video = "copy"
         /\ \/ /\ VideoPass(r.plan, Policies[p])
               /\ \E j \in VideoRules(Policies[p]) : Matches(Policies[p][j].when, Facts(c, n))
            \/ /\ AudioPass(r.plan, Policies[p])
               /\ \E j \in AudioRules(Policies[p]) : Matches(Policies[p][j].when, Facts(c, n))
  <1>1. PICK f : f = Facts(c, n)
    OBVIOUS
  <1>2. PICK rules : rules = Policies[p]
    OBVIOUS
  <1>3. RulesOK(rules)
    BY <1>2, PoliciesOK
  <1>4. PICK d : d = Evaluate(f, rules)
    OBVIOUS
  <1>5. OwesWork(d) /\ r.plan = EncodePlanFor(d)
    BY <1>1, <1>2, <1>4 DEF PlannedFrom
  <1>6. r.plan \in Plans
    BY <1>3, <1>4, <1>5, PlanOf
  <1>7. ~IsExcluded(f)
    BY <1>3, <1>4, <1>5, EvaluateOwes
  <1>8. ~IsExcluded(Facts(c, m))
    BY <1>1, <1>7, FactsSayAlike, Zenon DEF Facts
  <1>9. CASE d.class = "Video"
    <2>1. VideoIsEncodable(f) /\ \E j \in VideoRules(rules) : Matches(rules[j].when, f)
      BY <1>3, <1>4, <1>5, <1>9, EvaluateOwes
    <2>2. ~(Facts(c, m).hdr \/ Facts(c, m).dovi)
      BY <1>1, <2>1, FactsSayAlike, Zenon DEF Facts
    <2>3. VideoPass(r.plan, rules)
      BY <1>3, <1>4, <1>5, <1>9, PlanOf
    <2> QED
      BY <1>1, <1>2, <1>6, <1>8, <2>1, <2>2, <2>3, Zenon
  <1>10. CASE d.class # "Video"
    <2>1. \E j \in AudioRules(rules) : Matches(rules[j].when, f)
      BY <1>3, <1>4, <1>5, <1>10, EvaluateOwes
    <2>2. AudioPass(r.plan, rules)
      BY <1>3, <1>4, <1>5, <1>10, PlanOf
    <2>3. r.plan.video = "copy"
      BY <2>2 DEF AudioPass
    <2> QED
      BY <1>1, <1>2, <1>6, <1>8, <2>1, <2>2, <2>3, Zenon
  <1> QED
    BY <1>9, <1>10, Zenon

(* Nothing is left for the rules of one stage to do.                        *)
AudioDone(c, rules) ==
  \A k \in 1 .. Len(c.report.streams) :
     c.report.streams[k].type = "audio" =>
       \A i \in AudioRules(rules) : \A w \in rules[i].when.audioAny :
          ~Contains(c.report.streams[k].codec, w)
VideoDone(c, rules) ==
  HasVideo(ParsedProbe(c.report)) =>
     \A i \in VideoRules(rules) : PrimaryVideo(ParsedProbe(c.report)).codec \notin rules[i].when.videoIn

(* What the rules write is not among what they read.                        *)
Converges(rules) ==
  /\ \A i \in AudioRules(rules) : rules[i].when.audioAny # {}
  /\ \A i \in VideoRules(rules) : rules[i].when.videoIn # {}
  /\ \A i, j \in AudioRules(rules) : \A w \in rules[i].when.audioAny :
        ~Contains(CodecWrittenBy[rules[j].then.codec], w)
  /\ \A i, j \in VideoRules(rules) :
        CodecWrittenBy[rules[j].then.preference[1]] \notin rules[i].when.videoIn

LEMMA AudioDoneOwesNothing ==
  ASSUME NEW c \in ContentTypes, NEW n, NEW rules, Converges(rules), AudioDone(c, rules),
         NEW j \in AudioRules(rules), Matches(rules[j].when, Facts(c, n))
  PROVE  FALSE
  <1>1. PICK f : f = Facts(c, n)
    OBVIOUS
  <1>2. PICK q : q = StreamsOf(ParsedProbe(c.report), "audio")
    OBVIOUS
  <1>3. f.audio = [i \in DOMAIN q |-> q[i].codec]
    BY <1>1, <1>2, FactsAre DEF Facts
  <1>4. rules[j].when.audioAny # {}
    BY DEF Converges
  <1>5. PICK i \in DOMAIN f.audio : \E w \in rules[j].when.audioAny : Contains(f.audio[i], w)
    BY <1>1, <1>4 DEF Matches
  <1>6. PICK w \in rules[j].when.audioAny : Contains(f.audio[i], w)
    BY <1>5
  <1>7. i \in DOMAIN q /\ f.audio[i] = q[i].codec
    BY <1>3, <1>5
  <1>8. PICK k \in 1 .. Len(c.report.streams) :
          c.report.streams[k].type = "audio" /\ q[i].codec = c.report.streams[k].codec
    <2>1. CodecsFrom(q, c.report.streams, "audio")
      BY <1>2, StreamsOfAre
    <2> QED
      BY <1>7, <2>1 DEF CodecsFrom
  <1> QED
    BY <1>6, <1>7, <1>8 DEF AudioDone

LEMMA VideoDoneOwesNothing ==
  ASSUME NEW c \in ContentTypes, NEW n, NEW rules, RulesOK(rules), Converges(rules),
         VideoDone(c, rules),
         NEW j \in VideoRules(rules), Matches(rules[j].when, Facts(c, n))
  PROVE  FALSE
  <1>1. PICK f : f = Facts(c, n)
    OBVIOUS
  <1>2. f.codec = CodecOf(ParsedProbe(c.report))
    BY <1>1, FactsAre DEF Facts
  <1>3. f.codec \in rules[j].when.videoIn
    BY <1>1 DEF Matches, Converges
  <1>4. "none" \notin rules[j].when.videoIn
    BY DEF RulesOK, RuleOK, VideoRules
  <1>5. HasVideo(ParsedProbe(c.report))
    BY <1>2, <1>3, <1>4 DEF CodecOf
  <1> QED
    BY <1>2, <1>3, <1>5 DEF CodecOf, VideoDone

(* An audio pass leaves no audio to do, and the video as it was.            *)
LEMMA AudioPassDone ==
  ASSUME NEW plan \in Plans, NEW c \in ContentTypes,
         NEW o \in Outputs(Argv(plan), c) \cup BadOutputs(Argv(plan), c),
         NEW rules, RulesOK(rules), Converges(rules), AudioPass(plan, rules)
  PROVE  AudioDone(o.made, rules) /\ (VideoDone(c, rules) => VideoDone(o.made, rules))
  <1>1. PICK was : was = c.report.streams
    OBVIOUS
  <1>2. PICK is : is = o.made.report.streams
    OBVIOUS
  <1>3. PICK j \in AudioRules(rules) : plan.audio = rules[j].then.codec
    BY DEF AudioPass
  <1>4. plan.video = "copy"
    BY DEF AudioPass
  <1>5. plan.audio # "copy"
    <2>1. rules[j].then.codec \in AudioEncoders
      BY DEF RulesOK, RuleOK, AudioRules
    <2> QED
      BY <1>3, <2>1 DEF AudioEncoders
  <1>6. ASSUME NEW k \in 1 .. Len(is), is[k].type = "audio", NEW i \in AudioRules(rules),
               NEW w \in rules[i].when.audioAny
        PROVE  ~Contains(is[k].codec, w)
    <2>1. PICK n \in 1 .. Len(was) :
            was[n] \in StreamReports /\ is[k] = EncodedStream(Argv(plan), was[n])
      BY <1>1, <1>2, OutputStreams
    <2>2. was[n].type = "audio"
      BY <1>6, <2>1, EncodedStreamIs
    <2>3. is[k].codec = CodecWrittenBy[plan.audio]
      BY <1>5, <2>1, <2>2, EncodedStreamIs
    <2> QED
      BY <1>3, <2>3 DEF Converges
  <1>7. AudioDone(o.made, rules)
    BY <1>2, <1>6 DEF AudioDone
  <1>8. StreamsOf(ParsedProbe(o.made.report), "video") = StreamsOf(ParsedProbe(c.report), "video")
    BY <1>4, OutputStreams
  <1>9. VideoDone(c, rules) => VideoDone(o.made, rules)
    BY <1>8 DEF VideoDone, HasVideo, PrimaryVideo
  <1> QED
    BY <1>7, <1>9

(* A video pass leaves no video to do, and the audio as it was.             *)
LEMMA VideoPassDone ==
  ASSUME NEW plan \in Plans, NEW c \in ContentTypes,
         NEW o \in Outputs(Argv(plan), c) \cup BadOutputs(Argv(plan), c),
         NEW rules, RulesOK(rules), Converges(rules), VideoPass(plan, rules)
  PROVE  VideoDone(o.made, rules) /\ (AudioDone(c, rules) => AudioDone(o.made, rules))
  <1>1. PICK was : was = c.report.streams
    OBVIOUS
  <1>2. PICK is : is = o.made.report.streams
    OBVIOUS
  <1>3. PICK j \in VideoRules(rules) : plan.video = rules[j].then.preference[1]
    BY DEF VideoPass
  <1>4. plan.audio = "copy"
    BY DEF VideoPass
  <1>5. plan.video # "copy"
    BY <1>3, PreferenceIs DEF VideoEncoders
  <1>6. ASSUME NEW k \in 1 .. Len(is)
        PROVE  \E n \in 1 .. Len(was) :
                 /\ is[k].type = was[n].type
                 /\ was[n].type = "audio" => is[k].codec = was[n].codec
                 /\ was[n].type = "video" => is[k].codec = CodecWrittenBy[plan.video]
    <2>1. PICK n \in 1 .. Len(was) :
            was[n] \in StreamReports /\ is[k] = EncodedStream(Argv(plan), was[n])
      BY <1>1, <1>2, OutputStreams
    <2>2. is[k].type = was[n].type
      BY <2>1, EncodedStreamIs
    <2>3. was[n].type = "audio" => is[k].codec = was[n].codec
      BY <1>4, <2>1, EncodedStreamIs
    <2>4. was[n].type = "video" => is[k].codec = CodecWrittenBy[plan.video]
      BY <1>5, <2>1, EncodedStreamIs
    <2> QED
      BY <2>2, <2>3, <2>4
  <1>7. ASSUME AudioDone(c, rules), NEW k \in 1 .. Len(is), is[k].type = "audio",
               NEW i \in AudioRules(rules), NEW w \in rules[i].when.audioAny
        PROVE  ~Contains(is[k].codec, w)
    <2>1. PICK n \in 1 .. Len(was) : was[n].type = "audio" /\ is[k].codec = was[n].codec
      BY <1>6, <1>7
    <2> QED
      BY <1>1, <1>7, <2>1 DEF AudioDone
  <1>8. AudioDone(c, rules) => AudioDone(o.made, rules)
    BY <1>2, <1>7 DEF AudioDone
  <1>9. ASSUME HasVideo(ParsedProbe(o.made.report)), NEW i \in VideoRules(rules)
        PROVE  PrimaryVideo(ParsedProbe(o.made.report)).codec \notin rules[i].when.videoIn
    <2>1. PICK q : q = StreamsOf(ParsedProbe(o.made.report), "video")
      OBVIOUS
    <2>2. o.made \in ContentTypes
      BY OutputIs
    <2>3. q \in Seq(ParsedStreams) /\ q # <<>>
      BY <1>9, <2>1, <2>2, StreamsOfAre DEF HasVideo
    <2>4. 1 \in DOMAIN q
      <3>1. Len(q) \in Nat /\ Len(q) # 0 /\ DOMAIN q = 1 .. Len(q)
        BY <2>3, LenProperties, EmptySeq
      <3> QED
        BY <3>1
    <2>5. PICK k \in 1 .. Len(is) : is[k].type = "video" /\ q[1].codec = is[k].codec
      <3>1. CodecsFrom(q, is, "video")
        BY <1>2, <2>1, <2>2, StreamsOfAre
      <3> QED
        BY <2>4, <3>1 DEF CodecsFrom
    <2>6. is[k].codec = CodecWrittenBy[plan.video]
      BY <1>6, <2>5
    <2>7. PrimaryVideo(ParsedProbe(o.made.report)).codec = CodecWrittenBy[rules[j].then.preference[1]]
      BY <1>3, <2>1, <2>5, <2>6 DEF PrimaryVideo
    <2> QED
      BY <2>7 DEF Converges
  <1> QED
    BY <1>8, <1>9 DEF VideoDone

(* A run in hand.  Its guard is no newer than the file, what it encoded no  *)
(* older than its guard, and its plan no newer than its guard; whatever is  *)
(* as new as the file is about the very content the file has.  A run whose  *)
(* ritual has looked encoded the very file its guard was taken of.          *)
RunFields == {"at", "guard", "plan", "spec", "factsOf", "temp", "of", "exit"}
Stages == {"observed", "started", "encoded", "verifying", "verified", "granted", "checked",
           "resolved", "closing"}
Written == {"encoded", "verifying", "verified", "granted", "checked"}
Judged == {"verified", "granted", "checked"}

PlanOrigin(r, d, v, p) ==
  \E c \in ContentTypes : /\ r.factsOf = v => c = d
                          /\ \E n \in Nat : PlannedFrom(r, Facts(c, n), p)

MadeFrom(r, c) ==
  \E o \in Outputs(Argv(r.plan), c) \cup BadOutputs(Argv(r.plan), c) : r.temp = o.made

ThroughTheGates(r, d) ==
  /\ CountOf(ParsedProbe(r.temp.report), "audio") >= r.spec.audioStreams
  /\ CountOf(ParsedProbe(r.temp.report), "subtitle") >= r.spec.subtitleStreams
  /\ TailReadable => AsLong(d, r.temp)

RunInv(r, d, v, p) ==
  /\ DOMAIN r = RunFields /\ r.at \in Stages
  /\ r.factsOf \in Nat /\ r.guard \in Nat /\ r.factsOf <= r.guard /\ r.guard <= v
  /\ PlanOrigin(r, d, v, p)
  /\ r.at \in Written => /\ r.of \in Nat /\ r.guard <= r.of /\ r.of <= v
                         /\ r.of = v => MadeFrom(r, d)
                         /\ r.temp \in ContentTypes
  /\ r.at = "checked" => r.of = r.guard
  /\ r.at \in Judged /\ r.guard = v => ThroughTheGates(r, d)

LEMMA RunPlan ==
  ASSUME NEW p \in DOMAIN Policies, NEW d, NEW v, NEW r, PlanOrigin(r, d, v, p)
  PROVE  /\ r.plan \in Plans
         /\ AudioPass(r.plan, Policies[p]) \/ VideoPass(r.plan, Policies[p])
         /\ r.spec.audioStreams \in Nat /\ r.spec.subtitleStreams \in Nat
         /\ r.spec.duration \in Int /\ r.spec.maxShorter \in Int
         /\ r.spec.maxShorter <= MaxShorterCap /\ r.spec.maxLonger = MaxLonger
         /\ \A m : LET new == [r.spec EXCEPT !.duration = m] IN
              /\ new.audioStreams = r.spec.audioStreams
              /\ new.subtitleStreams = r.spec.subtitleStreams
              /\ new.duration = m /\ new.maxShorter = r.spec.maxShorter
              /\ new.maxLonger = r.spec.maxLonger
  <1>1. PICK c \in ContentTypes : \E n \in Nat : PlannedFrom(r, Facts(c, n), p)
    BY DEF PlanOrigin
  <1>2. PICK n \in Nat : PlannedFrom(r, Facts(c, n), p)
    BY <1>1
  <1>3. r.plan \in Plans /\ (AudioPass(r.plan, Policies[p]) \/ VideoPass(r.plan, Policies[p]))
    BY <1>2, PlannedGives
  <1>4. PICK dd : r.spec = ValidationSpecFor(Facts(c, n), dd)
    BY <1>2 DEF PlannedFrom
  <1>5. PICK spec : spec = r.spec
    OBVIOUS
  <1>6. /\ spec.audioStreams = CountOf(ParsedProbe(c.report), "audio")
        /\ spec.subtitleStreams = CountOf(ParsedProbe(c.report), "subtitle")
        /\ spec.duration \in Int /\ spec.maxShorter \in Int /\ spec.maxShorter <= MaxShorterCap
        /\ spec.maxLonger = MaxLonger
    BY <1>4, <1>5, SpecIs
  <1>7. ASSUME NEW m
        PROVE  LET new == [spec EXCEPT !.duration = m] IN
              /\ new.audioStreams = spec.audioStreams
              /\ new.subtitleStreams = spec.subtitleStreams
              /\ new.duration = m /\ new.maxShorter = spec.maxShorter
              /\ new.maxLonger = spec.maxLonger
    BY <1>4, <1>5, SpecIs
  <1>8. spec.audioStreams \in Nat /\ spec.subtitleStreams \in Nat
    BY <1>6, CountsAreNumbers
  <1> QED
    BY <1>3, <1>5, <1>6, <1>7, <1>8

(* The record of a run, changed in its stage.                               *)
LEMMA StageMoves ==
  ASSUME NEW r, DOMAIN r = RunFields, NEW a
  PROVE  LET s == [r EXCEPT !.at = a] IN
         /\ DOMAIN s = RunFields /\ s.at = a /\ s.guard = r.guard /\ s.plan = r.plan
         /\ s.spec = r.spec /\ s.factsOf = r.factsOf /\ s.temp = r.temp /\ s.of = r.of
         /\ s.exit = r.exit
  BY DEF RunFields

LEMMA RunKept ==
  ASSUME NEW d, NEW v, NEW p, NEW r, NEW s, RunInv(r, d, v, p),
         DOMAIN s = RunFields, s.at \in Stages, s.guard = r.guard, s.plan = r.plan,
         s.spec = r.spec, s.factsOf = r.factsOf, s.temp = r.temp, s.of = r.of,
         s.at \in Written => r.at \in Written,
         s.at \in Judged => r.at \in Judged,
         s.at = "checked" => r.of = r.guard
  PROVE  RunInv(s, d, v, p)
  <1>1. PlanOrigin(s, d, v, p)
    <2>1. PICK c \in ContentTypes : /\ r.factsOf = v => c = d
                                    /\ \E n \in Nat : PlannedFrom(r, Facts(c, n), p)
      BY DEF RunInv, PlanOrigin
    <2>2. PICK n \in Nat : PlannedFrom(r, Facts(c, n), p)
      BY <2>1
    <2>3. PlannedFrom(s, Facts(c, n), p)
      BY <2>2 DEF PlannedFrom
    <2> QED
      BY <2>1, <2>3 DEF PlanOrigin
  <1>2. MadeFrom(r, d) => MadeFrom(s, d)
    BY DEF MadeFrom
  <1>3. ThroughTheGates(r, d) => ThroughTheGates(s, d)
    BY DEF ThroughTheGates
  <1> QED
    BY <1>1, <1>2, <1>3 DEF RunInv

LEMMA RunMoves ==
  ASSUME NEW d, NEW v, NEW p, NEW r, RunInv(r, d, v, p), NEW a \in Stages,
         a \in Written => r.at \in Written, a \in Judged => r.at \in Judged,
         a = "checked" => r.of = r.guard
  PROVE  RunInv([r EXCEPT !.at = a], d, v, p)
  <1>1. PICK s : s = [r EXCEPT !.at = a]
    OBVIOUS
  <1>2. DOMAIN r = RunFields
    BY DEF RunInv
  <1>3. /\ DOMAIN s = RunFields /\ s.at = a /\ s.guard = r.guard /\ s.plan = r.plan
        /\ s.spec = r.spec /\ s.factsOf = r.factsOf /\ s.temp = r.temp /\ s.of = r.of
    BY <1>1, <1>2, StageMoves
  <1> QED
    BY <1>1, <1>3, RunKept

(* A replacement of the file leaves nothing of a run up to date.            *)
LEMMA RunOutdated ==
  ASSUME NEW d, NEW v \in Nat, NEW p, NEW r, RunInv(r, d, v, p), NEW e
  PROVE  RunInv(r, e, v + 1, p)
  <1>1. r.factsOf # v + 1 /\ r.guard # v + 1 /\ r.guard <= v + 1
    BY DEF RunInv
  <1>2. PlanOrigin(r, e, v + 1, p)
    BY <1>1 DEF RunInv, PlanOrigin
  <1>3. r.at \in Written => r.of # v + 1 /\ r.of <= v + 1 /\ r.temp \in ContentTypes
    BY DEF RunInv
  <1> QED
    BY <1>1, <1>2, <1>3 DEF RunInv

(* ffmpeg's step.                                                           *)
LEMMA RunEncodes ==
  ASSUME NEW d \in ContentTypes, NEW v \in Nat, NEW p \in DOMAIN Policies, NEW r,
         RunInv(r, d, v, p),
         NEW o \in Outputs(Argv(r.plan), d) \cup BadOutputs(Argv(r.plan), d)
  PROVE  RunInv([r EXCEPT !.at = "encoded", !.temp = o.made, !.of = v, !.exit = o.exit], d, v, p)
  <1>1. PICK s : s = [r EXCEPT !.at = "encoded", !.temp = o.made, !.of = v, !.exit = o.exit]
    OBVIOUS
  <1>2. DOMAIN r = RunFields
    BY DEF RunInv
  <1>3. /\ DOMAIN s = RunFields /\ s.at = "encoded" /\ s.guard = r.guard /\ s.plan = r.plan
        /\ s.spec = r.spec /\ s.factsOf = r.factsOf /\ s.temp = o.made /\ s.of = v
    BY <1>1, <1>2 DEF RunFields
  <1>4. PlanOrigin(s, d, v, p)
    <2>1. PICK c \in ContentTypes : /\ r.factsOf = v => c = d
                                    /\ \E n \in Nat : PlannedFrom(r, Facts(c, n), p)
      BY DEF RunInv, PlanOrigin
    <2>2. PICK n \in Nat : PlannedFrom(r, Facts(c, n), p)
      BY <2>1
    <2>3. PlannedFrom(s, Facts(c, n), p)
      BY <1>3, <2>2 DEF PlannedFrom
    <2> QED
      BY <1>3, <2>1, <2>3 DEF PlanOrigin
  <1>5. MadeFrom(s, d)
    BY <1>3 DEF MadeFrom
  <1>6. s.at \in Stages /\ s.at \notin Judged
    BY <1>3 DEF Stages, Judged
  <1>7. o.made \in ContentTypes
    <2>1. r.plan \in Plans
      BY RunPlan DEF RunInv
    <2> QED
      BY <2>1, OutputIs
  <1> QED
    BY <1>1, <1>3, <1>4, <1>5, <1>6, <1>7 DEF RunInv

(* What was written while the file stood was made from it.                  *)
LEMMA WrittenIsFresh ==
  ASSUME NEW d, NEW v \in Nat, NEW p, NEW r, RunInv(r, d, v, p), r.at \in Written, r.guard = v
  PROVE  r.of = v /\ MadeFrom(r, d)
  <1>1. r.of \in Nat /\ r.guard <= r.of /\ r.of <= v /\ (r.of = v => MadeFrom(r, d))
    BY DEF RunInv
  <1> QED
    BY <1>1

(* The judge's step.                                                        *)
LEMMA RunPasses ==
  ASSUME NEW d \in ContentTypes, NEW v \in Nat, NEW p \in DOMAIN Policies, NEW r,
         RunInv(r, d, v, p), r.at = "verifying",
         NEW source \in Measured(d), NEW out \in Measured(r.temp), NEW spec,
         spec = IF source = Missing \/ ~Parses(d.report) THEN r.spec
                ELSE [r.spec EXCEPT !.duration = source],
         Validate(spec, r.temp, out, r.exit) = "Passed"
  PROVE  RunInv([r EXCEPT !.at = "verified"], d, v, p)
  <1>1. PICK s : s = [r EXCEPT !.at = "verified"]
    OBVIOUS
  <1>2. DOMAIN r = RunFields /\ PlanOrigin(r, d, v, p)
    BY DEF RunInv
  <1>3. /\ DOMAIN s = RunFields /\ s.at = "verified" /\ s.guard = r.guard /\ s.plan = r.plan
        /\ s.spec = r.spec /\ s.factsOf = r.factsOf /\ s.temp = r.temp /\ s.of = r.of
    BY <1>1, <1>2, StageMoves
  <1>6. ASSUME r.guard = v PROVE ThroughTheGates(s, d)
    <2>1. MadeFrom(r, d)
      BY <1>6, WrittenIsFresh DEF Written
    <2>2. PICK o \in Outputs(Argv(r.plan), d) \cup BadOutputs(Argv(r.plan), d) : r.temp = o.made
      BY <2>1 DEF MadeFrom
    <2>3. r.plan \in Plans
      BY <1>2, RunPlan
    <2>4. r.temp \in ContentTypes /\ (Parses(r.temp.report) => Parses(d.report))
      BY <2>2, <2>3, OutputIs
    <2>5. /\ r.spec.audioStreams \in Nat /\ r.spec.subtitleStreams \in Nat
          /\ r.spec.duration \in Int /\ r.spec.maxShorter \in Int
          /\ r.spec.maxShorter <= MaxShorterCap /\ r.spec.maxLonger = MaxLonger
      BY <1>2, RunPlan
    <2>6. source \in Int
      BY DEF Measured, Missing, ContentTypes
    <2>7. /\ spec.audioStreams = r.spec.audioStreams /\ spec.subtitleStreams = r.spec.subtitleStreams
          /\ spec.maxShorter = r.spec.maxShorter /\ spec.maxLonger = r.spec.maxLonger
          /\ spec.duration = IF source = Missing \/ ~Parses(d.report) THEN r.spec.duration ELSE source
      <3>1. CASE source = Missing \/ ~Parses(d.report)
        BY <3>1
      <3>2. CASE ~(source = Missing \/ ~Parses(d.report))
        <4>1. spec = [r.spec EXCEPT !.duration = source]
          BY <3>2
        <4> QED
          BY <1>2, <3>2, <4>1, RunPlan
      <3> QED
        BY <3>1, <3>2
    <2>8. spec.duration \in Int
      BY <2>5, <2>6, <2>7
    <2>9. MaxLonger \in Int
      BY ToleranceAssumption
    <2>10. /\ Parses(r.temp.report)
           /\ CountOf(ParsedProbe(r.temp.report), "audio") >= spec.audioStreams
           /\ CountOf(ParsedProbe(r.temp.report), "subtitle") >= spec.subtitleStreams
           /\ TailReadable => /\ spec.duration - r.temp.length <= spec.maxShorter
                              /\ r.temp.length - spec.duration <= spec.maxLonger
      BY <2>4, <2>5, <2>7, <2>8, <2>9, PassedOutput
    <2>11. TailReadable => AsLong(d, r.temp)
      <3> SUFFICES ASSUME TailReadable PROVE AsLong(d, r.temp)
        OBVIOUS
      <3>1. source = d.length /\ d.length \in Nat
        BY DEF Measured, ContentTypes
      <3>2. spec.duration = d.length
        BY <2>4, <2>7, <2>10, <3>1 DEF Missing
      <3>3. r.temp.length \in Nat
        BY <2>4 DEF ContentTypes
      <3>4. d.length - r.temp.length <= MaxShorterCap
        <4>1. d.length - r.temp.length <= r.spec.maxShorter
          BY <2>7, <2>10, <3>2
        <4> QED
          BY <2>5, <3>1, <3>3, <4>1, ToleranceAssumption
      <3>5. r.temp.length - d.length <= MaxLonger
        BY <2>5, <2>7, <2>10, <3>2
      <3> QED
        BY <3>4, <3>5 DEF AsLong
    <2> QED
      BY <1>3, <2>7, <2>10, <2>11 DEF ThroughTheGates
  <1>7. s.at \in Stages
    BY <1>3 DEF Stages
  <1>8. PlanOrigin(s, d, v, p)
    <2>1. PICK c \in ContentTypes : /\ r.factsOf = v => c = d
                                    /\ \E n \in Nat : PlannedFrom(r, Facts(c, n), p)
      BY <1>2 DEF PlanOrigin
    <2>2. PICK n \in Nat : PlannedFrom(r, Facts(c, n), p)
      BY <2>1
    <2>3. PlannedFrom(s, Facts(c, n), p)
      BY <1>3, <2>2 DEF PlannedFrom
    <2> QED
      BY <1>3, <2>1, <2>3 DEF PlanOrigin
  <1>9. /\ s.of \in Nat /\ s.guard <= s.of /\ s.of <= v /\ (s.of = v => MadeFrom(s, d))
        /\ s.temp \in ContentTypes
    BY <1>3 DEF RunInv, Written, MadeFrom
  <1> QED
    BY <1>1, <1>3, <1>6, <1>7, <1>8, <1>9 DEF RunInv

(* A run that begins.                                                       *)
LEMMA RunBegins ==
  ASSUME NEW d \in ContentTypes, NEW v \in Nat, NEW p \in DOMAIN Policies, NEW r,
         DOMAIN r = RunFields, r.at = "observed", r.guard = v, r.factsOf \in 0 .. v,
         NEW c \in ContentTypes, r.factsOf = v => c = d, NEW n \in Nat,
         PlannedFrom(r, Facts(c, n), p)
  PROVE  RunInv(r, d, v, p)
  <1>1. PlanOrigin(r, d, v, p)
    BY DEF PlanOrigin
  <1>2. r.at \in Stages /\ r.at \notin Written /\ r.at \notin Judged
    BY DEF Stages, Written, Judged
  <1> QED
    BY <1>1, <1>2 DEF RunInv

(* The file's row, of a file that holds d and was replaced v times.         *)
RowFields == {"state", "of", "size", "rules", "facts", "factsOf"}
RowInv(r, d, v) ==
  /\ DOMAIN r = RowFields
  /\ r.state \in {"Discovered", "Probed", "ProbeFailed", "Evaluated"}
  /\ r.of \in Nat /\ r.of <= v /\ r.factsOf \in Nat /\ r.factsOf <= v /\ r.size \in Nat
  /\ r.rules \in {0} \cup DOMAIN Policies
  /\ r.facts # NoContent =>
       \E c \in ContentTypes : (r.factsOf = v => c = d) /\ \E n \in Nat : r.facts = Facts(c, n)
  /\ r.state \in {"Probed", "Evaluated"} => r.facts # NoContent

Histories == [edits : 0 .. MaxEdits, upgrades : 0 .. MaxPolicies, forced : 0 .. MaxForced,
              abandoned : 0 .. MaxAbandoned, faults : 0 .. MaxFaults, installs : Nat,
              late : Nat]

PipelineInv ==
  /\ disk \in ContentTypes /\ version \in Nat /\ policy \in DOMAIN Policies
  /\ RowInv(row, disk, version)
  /\ "state" \in DOMAIN job /\ (job = NoJob \/ job.state \in JS!States)
  /\ job # NoJob \/ run # NoRun => row.facts # NoContent
  /\ run = NoRun \/ RunInv(run, disk, version, policy)
  /\ ledger \in BOOLEAN /\ history \in Histories

(* What the row's facts are.                                                *)
LEMMA StoredFactsAre ==
  ASSUME PipelineInv, row.facts # NoContent
  PROVE  \E c \in ContentTypes : /\ row.factsOf = version => c = disk
                                 /\ StoredFacts = Facts(c, row.size)
  <1>1. PICK c \in ContentTypes : /\ row.factsOf = version => c = disk
                                  /\ \E n \in Nat : row.facts = Facts(c, n)
    BY DEF PipelineInv, RowInv
  <1>2. PICK n \in Nat : row.facts = Facts(c, n)
    BY <1>1
  <1>3. StoredFacts = Facts(c, row.size)
    <2>1. PICK m : m = row.size
      OBVIOUS
    <2>2. Resized(Facts(c, n), m) = Facts(c, m)
      BY FactsResize
    <2> QED
      BY <1>2, <2>1, <2>2 DEF StoredFacts, Resized
  <1> QED
    BY <1>1, <1>3

LEMMA RowOutdated ==
  ASSUME NEW d, NEW v \in Nat, NEW r, RowInv(r, d, v), NEW e
  PROVE  RowInv(r, e, v + 1)
  <1>1. r.factsOf # v + 1 /\ r.factsOf <= v + 1 /\ r.of <= v + 1
    BY DEF RowInv
  <1> QED
    BY <1>1 DEF RowInv

LEMMA PipelineInvInit == PipelineInit => PipelineInv
  <1> SUFFICES ASSUME PipelineInit PROVE PipelineInv
    OBVIOUS
  <1>1. disk \in ContentTypes /\ version \in Nat /\ policy \in DOMAIN Policies
    BY PipelineAssumption DEF PipelineInit
  <1>2. RowInv(row, disk, version)
    <2>1. disk.size \in Nat
      BY <1>1 DEF ContentTypes
    <2>2. DOMAIN row = RowFields
      BY DEF PipelineInit, RowFields
    <2>3. row.state = "Discovered" /\ row.of = 0 /\ row.size = disk.size /\ row.rules = 0
          /\ row.facts = NoContent /\ row.factsOf = 0
      BY DEF PipelineInit
    <2> QED
      BY <1>1, <2>1, <2>2, <2>3 DEF RowInv
  <1>3. history \in Histories
    BY PipelineAssumption DEF PipelineInit, Histories
  <1>4. row.facts = NoContent /\ job = NoJob /\ run = NoRun /\ ledger = FALSE
    BY DEF PipelineInit
  <1>5. "state" \in DOMAIN job
    BY <1>4 DEF NoJob
  <1> QED
    BY <1>1, <1>2, <1>3, <1>4, <1>5 DEF PipelineInv

(* What Advance leaves of a job.                                            *)
LEMMA Advances ==
  ASSUME NEW to \in JS!States, "state" \in DOMAIN job, Advance(to)
  PROVE  "state" \in DOMAIN job' /\ job'.state = to
  BY DEF Advance

(* The environment and discovery.                                           *)
LEMMA EditKeepsFile ==
  ASSUME PipelineInv, NEW c \in Replacements, Edit(c) PROVE PipelineInv'
  <1>1. disk' \in ContentTypes /\ version' = version + 1 /\ version' \in Nat
    BY PipelineAssumption DEF PipelineInv, Edit
  <1>2. RowInv(row', disk', version')
    BY <1>1, RowOutdated DEF PipelineInv, Edit
  <1>3. run' = NoRun \/ RunInv(run', disk', version', policy')
    BY <1>1, RunOutdated DEF PipelineInv, Edit
  <1>4. history' \in Histories
    <2>1. history.edits + 1 \in 0 .. MaxEdits
      BY PipelineAssumption DEF PipelineInv, Edit, Histories
    <2>2. PICK h \in Histories : h = history
      BY DEF PipelineInv
    <2>3. PICK e \in 0 .. MaxEdits, l \in Nat : e = h.edits + 1 /\ l = h.late + 1
      BY <2>1, <2>2 DEF Histories
    <2>4. history' = [h EXCEPT !.edits = e, !.installs = 0, !.late = l]
      BY <2>2, <2>3 DEF Edit
    <2> QED
      BY <2>4 DEF Histories
  <1> QED
    BY <1>1, <1>2, <1>3, <1>4 DEF PipelineInv, Edit

LEMMA NewPolicyKeeps ==
  ASSUME PipelineInv, NEW p \in DOMAIN Policies, NewPolicy(p) PROVE PipelineInv'
  <1>1. history' \in Histories
    <2>1. history.upgrades + 1 \in 0 .. MaxPolicies
      BY PipelineAssumption DEF PipelineInv, NewPolicy, Histories
    <2> QED
      BY <2>1 DEF PipelineInv, NewPolicy, Histories
  <1> QED
    BY <1>1 DEF PipelineInv, NewPolicy

LEMMA ScanKeeps ==
  ASSUME PipelineInv, Scan PROVE PipelineInv'
  <1>1. PICK r : r = row
    OBVIOUS
  <1>2. PICK s : s = row'
    OBVIOUS
  <1>3. PICK m \in Nat : m = disk.size
    BY DEF PipelineInv, ContentTypes
  <1>4. PICK v \in Nat : v = version
    BY DEF PipelineInv
  <1>5. RowInv(r, disk, v)
    BY <1>1, <1>4 DEF PipelineInv
  <1>6. s = [r EXCEPT !.state = "Discovered", !.of = v, !.size = m, !.rules = 0]
    BY <1>1, <1>2, <1>3, <1>4 DEF Scan
  <1>7. /\ DOMAIN s = RowFields /\ s.state = "Discovered" /\ s.of = v /\ s.size = m
        /\ s.rules = 0 /\ s.facts = r.facts /\ s.factsOf = r.factsOf
    BY <1>5, <1>6 DEF RowInv, RowFields
  <1>8. RowInv(s, disk, v)
    BY <1>5, <1>7 DEF RowInv
  <1> QED
    BY <1>1, <1>2, <1>4, <1>7, <1>8 DEF PipelineInv, Scan

LEMMA ProbeFileKeeps ==
  ASSUME PipelineInv, ProbeFile PROVE PipelineInv'
  <1>1. PICK r : r = row
    OBVIOUS
  <1>2. PICK s : s = row'
    OBVIOUS
  <1>3. PICK d \in ContentTypes : d = disk
    BY DEF PipelineInv
  <1>4. PICK v \in Nat : v = version
    BY DEF PipelineInv
  <1>5. RowInv(r, d, v)
    BY <1>1, <1>3, <1>4 DEF PipelineInv
  <1>6. r.size \in Nat /\ DOMAIN r = RowFields
    BY <1>5 DEF RowInv
  <1>7. CASE Parses(disk.report)
    <2>1. PICK f : f = Facts(d, r.size)
      OBVIOUS
    <2>2. f # NoContent
      BY <2>1, FactsAre DEF Facts
    <2>3. s = [r EXCEPT !.state = "Probed", !.factsOf = v, !.facts = f]
      BY <1>1, <1>2, <1>3, <1>4, <1>7, <2>1 DEF ProbeFile, Facts
    <2>4. /\ DOMAIN s = RowFields /\ s.state = "Probed" /\ s.of = r.of /\ s.size = r.size
          /\ s.rules = r.rules /\ s.facts = f /\ s.factsOf = v
      BY <1>6, <2>3 DEF RowFields
    <2>5. \E c \in ContentTypes : (s.factsOf = v => c = d) /\ \E n \in Nat : s.facts = Facts(c, n)
      BY <1>6, <2>1, <2>4
    <2>6. RowInv(s, d, v)
      BY <1>5, <2>2, <2>4, <2>5 DEF RowInv
    <2> QED
      BY <1>2, <1>3, <1>4, <2>2, <2>4, <2>6 DEF PipelineInv, ProbeFile
  <1>8. CASE ~Parses(disk.report)
    <2>1. s = [r EXCEPT !.state = "ProbeFailed"]
      BY <1>1, <1>2, <1>8 DEF ProbeFile
    <2>2. /\ DOMAIN s = RowFields /\ s.state = "ProbeFailed" /\ s.of = r.of /\ s.size = r.size
          /\ s.rules = r.rules /\ s.facts = r.facts /\ s.factsOf = r.factsOf
      BY <1>6, <2>1 DEF RowFields
    <2>3. RowInv(s, d, v)
      BY <1>5, <2>2 DEF RowInv
    <2> QED
      BY <1>1, <1>2, <1>3, <1>4, <2>2, <2>3 DEF PipelineInv, ProbeFile
  <1> QED
    BY <1>7, <1>8

LEMMA EvaluateFileKeeps ==
  ASSUME PipelineInv, EvaluateFile PROVE PipelineInv'
  <1>1. PICK r : r = row
    OBVIOUS
  <1>2. PICK s : s = row'
    OBVIOUS
  <1>3. PICK p \in DOMAIN Policies : p = policy
    BY DEF PipelineInv
  <1>4. RowInv(r, disk, version)
    BY <1>1 DEF PipelineInv
  <1>5. s = [r EXCEPT !.state = "Evaluated", !.rules = p]
    BY <1>1, <1>2, <1>3 DEF EvaluateFile
  <1>6. /\ DOMAIN s = RowFields /\ s.state = "Evaluated" /\ s.of = r.of /\ s.size = r.size
        /\ s.rules = p /\ s.facts = r.facts /\ s.factsOf = r.factsOf
    BY <1>4, <1>5 DEF RowInv, RowFields
  <1>7. r.facts # NoContent
    BY <1>1, <1>4 DEF RowInv, EvaluateFile
  <1>8. RowInv(s, disk, version)
    BY <1>4, <1>6, <1>7 DEF RowInv
  <1>9. "state" \in DOMAIN job' /\ (job' = NoJob \/ job'.state \in JS!States)
    <2>1. CASE job' = job
      BY <2>1 DEF PipelineInv
    <2>2. CASE job' # job
      <3>1. PICK needs : job' = [state |-> "Pending", needs |-> needs]
        BY <2>2 DEF EvaluateFile
      <3> QED
        BY <3>1 DEF JS!States
    <2> QED
      BY <2>1, <2>2
  <1> QED
    BY <1>2, <1>6, <1>7, <1>8, <1>9 DEF PipelineInv, EvaluateFile

LEMMA ResetEvaluationsKeeps ==
  ASSUME PipelineInv, ResetEvaluations PROVE PipelineInv'
  <1>1. PICK r : r = row
    OBVIOUS
  <1>2. PICK s : s = row'
    OBVIOUS
  <1>3. RowInv(r, disk, version)
    BY <1>1 DEF PipelineInv
  <1>4. s = [r EXCEPT !.rules = 0]
    BY <1>1, <1>2 DEF ResetEvaluations
  <1>5. /\ DOMAIN s = RowFields /\ s.state = r.state /\ s.of = r.of /\ s.size = r.size
        /\ s.rules = 0 /\ s.facts = r.facts /\ s.factsOf = r.factsOf
    BY <1>3, <1>4 DEF RowInv, RowFields
  <1>6. RowInv(s, disk, version)
    BY <1>3, <1>5 DEF RowInv
  <1>7. history' \in Histories
    BY PipelineAssumption DEF PipelineInv, ResetEvaluations, Spend, Histories
  <1> QED
    BY <1>1, <1>2, <1>5, <1>6, <1>7 DEF PipelineInv, ResetEvaluations

(* The runner.                                                              *)
LEMMA Running ==
  ASSUME PipelineInv, run.at # "idle"
  PROVE  RunInv(run, disk, version, policy) /\ row.facts # NoContent
  BY DEF PipelineInv, NoRun

(* A step that only moves the run to another stage, and perhaps the job.    *)
LEMMA RunAtKeeps ==
  ASSUME PipelineInv, NEW a \in Stages, RunAt(a), run.at # "idle",
         a \in Written => run.at \in Written, a \in Judged => run.at \in Judged, a # "checked",
         "state" \in DOMAIN job', job' = NoJob \/ job'.state \in JS!States,
         ledger' \in BOOLEAN, UNCHANGED <<disk, version, row, policy, history>>
  PROVE  PipelineInv'
  <1>1. RunInv(run', disk, version, policy)
    <2>1. PICK r : r = run
      OBVIOUS
    <2>2. PICK d : d = disk
      OBVIOUS
    <2>3. PICK v : v = version
      OBVIOUS
    <2>4. PICK p : p = policy
      OBVIOUS
    <2>5. RunInv(r, d, v, p)
      BY <2>1, <2>2, <2>3, <2>4, Running
    <2>6. RunInv([r EXCEPT !.at = a], d, v, p)
      BY <2>1, <2>5, RunMoves
    <2> QED
      BY <2>1, <2>2, <2>3, <2>4, <2>6 DEF RunAt
  <1>2. row.facts # NoContent
    BY Running
  <1> QED
    BY <1>1, <1>2 DEF PipelineInv

LEMMA PickBegins ==
  ASSUME PipelineInv, Pick PROVE PipelineInv'
  <1>1. PICK d \in ContentTypes : d = disk
    BY DEF PipelineInv
  <1>2. PICK v \in Nat : v = version
    BY DEF PipelineInv
  <1>3. PICK p \in DOMAIN Policies : p = policy
    BY DEF PipelineInv
  <1>4. row.facts # NoContent
    <2>1. job # NoJob
      BY DEF Pick, NoJob
    <2> QED
      BY <2>1 DEF PipelineInv
  <1>5. PICK f : f = StoredFacts
    OBVIOUS
  <1>6. PICK n \in Nat : n = row.size
    BY DEF PipelineInv, RowInv
  <1>7. PICK c \in ContentTypes : (row.factsOf = v => c = d) /\ f = Facts(c, n)
    BY <1>1, <1>2, <1>4, <1>5, <1>6, StoredFactsAre
  <1>8. PICK x \in 0 .. v : x = row.factsOf
    BY <1>2 DEF PipelineInv, RowInv
  <1>9. PICK e : e = Evaluate(f, Policies[p])
    OBVIOUS
  <1>10. PICK r : r = run'
    OBVIOUS
  <1>11. PICK plan : plan = EncodePlanFor(e)
    OBVIOUS
  <1>12. PICK spec : spec = ValidationSpecFor(f, e)
    OBVIOUS
  <1>13. /\ OwesWork(e)
         /\ r = [at |-> "observed", guard |-> v, plan |-> plan, spec |-> spec, factsOf |-> x,
                 temp |-> NoContent, of |-> 0, exit |-> 0]
    BY <1>2, <1>3, <1>5, <1>8, <1>9, <1>10, <1>11, <1>12 DEF Pick
  <1>14. /\ DOMAIN r = RunFields /\ r.at = "observed" /\ r.guard = v /\ r.plan = plan
         /\ r.spec = spec /\ r.factsOf = x
    BY <1>13 DEF RunFields
  <1>15. PlannedFrom(r, Facts(c, n), p)
    BY <1>7, <1>9, <1>11, <1>12, <1>13, <1>14 DEF PlannedFrom
  <1>16. RunInv(r, d, v, p)
    BY <1>7, <1>8, <1>14, <1>15, RunBegins
  <1> QED
    BY <1>1, <1>2, <1>3, <1>4, <1>10, <1>16 DEF PipelineInv, Pick

LEMMA BeginMoves ==
  ASSUME PipelineInv, Begin PROVE PipelineInv'
  <1>1. PICK a \in {"observed", "started"} : RunAt(a)
    BY DEF Begin
  <1>2. run.at # "idle"
    BY DEF Begin
  <1>3. "state" \in DOMAIN job' /\ job'.state \in JS!States
    <2>1. PICK to \in {"Eligible", "Assigned", "Running"} : Advance(to)
      BY DEF Begin
    <2>2. to \in JS!States
      BY <2>1 DEF JS!States
    <2> QED
      BY <2>1, <2>2, Advances DEF PipelineInv
  <1>4. UNCHANGED <<disk, version, row, policy, history, ledger>>
    BY DEF Begin
  <1>5. a \in Stages /\ a \notin Written /\ a \notin Judged
    BY DEF Stages, Written, Judged
  <1>6. ledger' \in BOOLEAN
    BY <1>4 DEF PipelineInv
  <1> QED
    BY <1>1, <1>2, <1>3, <1>4, <1>5, <1>6, RunAtKeeps

(* How Encode and the ritual leave the run.                                 *)
WithOutput(r, o, v) == [r EXCEPT !.at = "encoded", !.temp = o.made, !.of = v, !.exit = o.exit]
WithOutcome(r, x) == [r EXCEPT !.at = "resolved", !.exit = x]

LEMMA EncodeGives ==
  ASSUME Encode
  PROVE  /\ run.at = "started" /\ UNCHANGED <<disk, version, policy>>
         /\ UNCHANGED history \/ (history.faults < MaxFaults /\ Spend("faults"))
         /\ \E o, v : run' = WithOutput(run, o, v)
  <1>1. run.at = "started" /\ UNCHANGED <<disk, version, policy>>
    BY Zenon DEF Encode
  <1>2. UNCHANGED history \/ (history.faults < MaxFaults /\ Spend("faults"))
    BY Zenon DEF Encode
  <1>3. \E o, v : run' = WithOutput(run, o, v)
    BY Zenon DEF Encode, WithOutput
  <1> QED
    BY <1>1, <1>2, <1>3, Zenon

LEMMA CommitGives ==
  ASSUME Commit
  PROVE  \E x : run' = WithOutcome(run, x)
  BY Zenon DEF Commit, WithOutcome

LEMMA WithOutputAt ==
  ASSUME NEW r, DOMAIN r = RunFields, NEW o, NEW v, NEW x
  PROVE  WithOutput(r, o, v).at = "encoded" /\ WithOutcome(r, x).at = "resolved"
  <1>1. WithOutcome(r, x).at = "resolved"
    BY DEF WithOutcome, RunFields
  <1>2. PICK m, e : m = o.made /\ e = o.exit
    OBVIOUS
  <1>3. [r EXCEPT !.at = "encoded", !.temp = m, !.of = v, !.exit = e].at = "encoded"
    BY DEF RunFields
  <1>4. WithOutput(r, o, v) = [r EXCEPT !.at = "encoded", !.temp = m, !.of = v, !.exit = e]
    BY <1>2, Zenon DEF WithOutput
  <1> QED
    BY <1>1, <1>3, <1>4, Zenon

LEMMA FaultsSpent ==
  ASSUME PipelineInv, history.faults < MaxFaults, Spend("faults")
  PROVE  history' \in Histories
  <1>1. history.faults + 1 \in 0 .. MaxFaults
    BY PipelineAssumption DEF PipelineInv, Histories
  <1> QED
    BY <1>1 DEF PipelineInv, Histories, Spend

LEMMA EncodeWrites ==
  ASSUME PipelineInv, Encode PROVE PipelineInv'
  <1>1. PICK r : r = run
    OBVIOUS
  <1>2. PICK d \in ContentTypes : d = disk
    BY DEF PipelineInv
  <1>3. PICK v \in Nat : v = version
    BY DEF PipelineInv
  <1>4. PICK p \in DOMAIN Policies : p = policy
    BY DEF PipelineInv
  <1>5. RunInv(r, d, v, p) /\ row.facts # NoContent
    BY <1>1, <1>2, <1>3, <1>4, Running DEF Encode
  <1>6. PICK o \in Outputs(Argv(r.plan), d) \cup BadOutputs(Argv(r.plan), d) :
           run' = [r EXCEPT !.at = "encoded", !.temp = o.made, !.of = v, !.exit = o.exit]
    BY <1>1, <1>2, <1>3 DEF Encode
  <1>7. RunInv(run', d, v, p)
    <2>1. RunInv([r EXCEPT !.at = "encoded", !.temp = o.made, !.of = v, !.exit = o.exit], d, v, p)
      BY <1>5, RunEncodes
    <2> QED
      BY <1>6, <2>1
  <1>8. history' \in Histories
    <2>1. CASE UNCHANGED history
      BY <2>1 DEF PipelineInv
    <2>2. CASE history.faults < MaxFaults /\ Spend("faults")
      BY <2>2, FaultsSpent
    <2> QED
      BY <2>1, <2>2, EncodeGives, Zenon
  <1> QED
    BY <1>2, <1>3, <1>4, <1>5, <1>7, <1>8 DEF PipelineInv, Encode

LEMMA FinishMoves ==
  ASSUME PipelineInv, Finish PROVE PipelineInv'
  <1>1. RunAt("verifying") /\ run.at = "encoded" /\ Advance("Verifying")
        /\ UNCHANGED <<disk, version, row, policy, history, ledger>>
    BY DEF Finish
  <1>2. "state" \in DOMAIN job' /\ job'.state \in JS!States
    <2>1. "Verifying" \in JS!States
      BY DEF JS!States
    <2> QED
      BY <1>1, <2>1, Advances DEF PipelineInv
  <1>3. ledger' \in BOOLEAN
    BY <1>1 DEF PipelineInv
  <1>4. "verifying" \in Stages /\ "encoded" \in Written /\ "verifying" \notin Judged
    BY DEF Stages, Written, Judged
  <1> QED
    BY <1>1, <1>2, <1>3, <1>4, RunAtKeeps

LEMMA JudgeOutputKeeps ==
  ASSUME PipelineInv, JudgeOutput PROVE PipelineInv'
  <1>1. PICK r : r = run
    OBVIOUS
  <1>2. PICK d \in ContentTypes : d = disk
    BY DEF PipelineInv
  <1>3. PICK v \in Nat : v = version
    BY DEF PipelineInv
  <1>4. PICK p \in DOMAIN Policies : p = policy
    BY DEF PipelineInv
  <1>5. RunInv(r, d, v, p) /\ row.facts # NoContent /\ r.at = "verifying"
    BY <1>1, <1>2, <1>3, <1>4, Running DEF JudgeOutput
  <1>6. PICK source \in Measured(d) : \E out \in Measured(r.temp) :
           LET spec    == IF source = Missing \/ ~Parses(d.report) THEN r.spec
                          ELSE [r.spec EXCEPT !.duration = source]
               verdict == Validate(spec, r.temp, out, r.exit)
           IN IF verdict = "Passed"
              THEN Advance("Committing") /\ run' = [r EXCEPT !.at = "verified"]
              ELSE Advance("Failed") /\ run' = NoRun
    BY <1>1, <1>2 DEF JudgeOutput, RunAt
  <1>7. PICK spec : spec = IF source = Missing \/ ~Parses(d.report) THEN r.spec
                           ELSE [r.spec EXCEPT !.duration = source]
    OBVIOUS
  <1>8. PICK out \in Measured(r.temp) :
           IF Validate(spec, r.temp, out, r.exit) = "Passed"
           THEN Advance("Committing") /\ run' = [r EXCEPT !.at = "verified"]
           ELSE Advance("Failed") /\ run' = NoRun
    BY <1>6, <1>7
  <1>9. run' = NoRun \/ RunInv(run', d, v, p)
    <2>1. CASE Validate(spec, r.temp, out, r.exit) = "Passed"
      <3>1. RunInv([r EXCEPT !.at = "verified"], d, v, p)
        BY <1>5, <1>7, <2>1, RunPasses
      <3> QED
        BY <1>8, <2>1, <3>1
    <2> QED
      BY <1>8, <2>1
  <1>10. "state" \in DOMAIN job' /\ job'.state \in JS!States
    <2>1. PICK to \in {"Committing", "Failed"} : Advance(to)
      BY <1>8
    <2>2. to \in JS!States
      BY <2>1 DEF JS!States, JS!Terminal
    <2> QED
      BY <2>1, <2>2, Advances DEF PipelineInv
  <1> QED
    BY <1>2, <1>3, <1>4, <1>5, <1>9, <1>10 DEF PipelineInv, JudgeOutput

LEMMA GrantMoves ==
  ASSUME PipelineInv, Grant PROVE PipelineInv'
  <1>1. RunAt("granted") /\ run.at = "verified" /\ ledger' = TRUE
        /\ UNCHANGED <<disk, version, row, policy, job, history>>
    BY DEF Grant
  <1>2. "state" \in DOMAIN job' /\ (job' = NoJob \/ job'.state \in JS!States)
    BY <1>1 DEF PipelineInv
  <1>3. "granted" \in Stages /\ "verified" \in Written /\ "verified" \in Judged
    BY DEF Stages, Written, Judged
  <1> QED
    BY <1>1, <1>2, <1>3, RunAtKeeps

(* What the ritual installs, while nobody has replaced the file it found.   *)
LEMMA Installed ==
  ASSUME PipelineInv, run.at = "checked", run.guard = version
  PROVE  /\ run.plan \in Plans
         /\ AudioPass(run.plan, Policies[policy]) \/ VideoPass(run.plan, Policies[policy])
         /\ MadeFrom(run, disk) /\ ThroughTheGates(run, disk)
  <1>1. PICK r : r = run
    OBVIOUS
  <1>2. PICK d \in ContentTypes : d = disk
    BY DEF PipelineInv
  <1>3. PICK v \in Nat : v = version
    BY DEF PipelineInv
  <1>4. PICK p \in DOMAIN Policies : p = policy
    BY DEF PipelineInv
  <1>5. RunInv(r, d, v, p) /\ r.at = "checked" /\ r.guard = v
    BY <1>1, <1>2, <1>3, <1>4, Running
  <1>6. MadeFrom(r, d)
    BY <1>5, WrittenIsFresh DEF Written
  <1>7. ThroughTheGates(r, d)
    BY <1>5 DEF RunInv, Judged
  <1>8. r.plan \in Plans /\ (AudioPass(r.plan, Policies[p]) \/ VideoPass(r.plan, Policies[p]))
    BY <1>5, RunPlan DEF RunInv
  <1> QED
    BY <1>1, <1>2, <1>3, <1>4, <1>6, <1>7, <1>8

LEMMA CheckKeeps ==
  ASSUME PipelineInv, Check PROVE PipelineInv'
  <1>1. PICK r : r = run
    OBVIOUS
  <1>2. PICK d \in ContentTypes : d = disk
    BY DEF PipelineInv
  <1>3. PICK v \in Nat : v = version
    BY DEF PipelineInv
  <1>4. PICK p \in DOMAIN Policies : p = policy
    BY DEF PipelineInv
  <1>5. RunInv(r, d, v, p) /\ row.facts # NoContent /\ r.at = "granted"
    BY <1>1, <1>2, <1>3, <1>4, Running DEF Check
  <1>6. DOMAIN r = RunFields
    BY <1>5 DEF RunInv
  <1>7. history' \in Histories
    <2>1. CASE UNCHANGED history
      BY <2>1 DEF PipelineInv
    <2>2. CASE history' = [history EXCEPT !.late = 0]
      BY <2>2 DEF PipelineInv, Histories
    <2> QED
      BY <2>1, <2>2 DEF Check
  <1>8. RunInv(run', d, v, p)
    <2>1. CASE r.guard = v
      <3>1. r.of = r.guard
        BY <1>5, <2>1, WrittenIsFresh DEF Written
      <3>2. "checked" \in Stages /\ r.at \in Written /\ r.at \in Judged
        BY <1>5 DEF Stages, Written, Judged
      <3>3. RunInv([r EXCEPT !.at = "checked"], d, v, p)
        BY <1>5, <3>1, <3>2, RunMoves
      <3> QED
        BY <1>1, <1>3, <2>1, <3>3 DEF Check, RunAt
    <2>2. CASE r.guard # v
      <3>1. PICK s : s = run'
        OBVIOUS
      <3>2. s = [r EXCEPT !.at = "resolved", !.exit = 1]
        BY <1>1, <1>3, <2>2, <3>1 DEF Check
      <3>3. /\ DOMAIN s = RunFields /\ s.at = "resolved" /\ s.guard = r.guard /\ s.plan = r.plan
            /\ s.spec = r.spec /\ s.factsOf = r.factsOf /\ s.temp = r.temp /\ s.of = r.of
        BY <1>6, <3>2 DEF RunFields
      <3>4. s.at \in Stages /\ s.at \notin Written /\ s.at \notin Judged
        BY <3>3 DEF Stages, Written, Judged
      <3> QED
        BY <1>5, <3>1, <3>3, <3>4, RunKept
    <2> QED
      BY <2>1, <2>2
  <1> QED
    BY <1>2, <1>3, <1>4, <1>5, <1>7, <1>8 DEF PipelineInv, Check

LEMMA CommitKeeps ==
  ASSUME PipelineInv, Commit PROVE PipelineInv'
  <1>1. PICK r : r = run
    OBVIOUS
  <1>2. PICK d \in ContentTypes : d = disk
    BY DEF PipelineInv
  <1>3. PICK v \in Nat : v = version
    BY DEF PipelineInv
  <1>4. PICK p \in DOMAIN Policies : p = policy
    BY DEF PipelineInv
  <1>5. RunInv(r, d, v, p) /\ row.facts # NoContent /\ r.at = "checked"
    BY <1>1, <1>2, <1>3, <1>4, Running DEF Commit
  <1>6. DOMAIN r = RunFields /\ r.temp \in ContentTypes
    BY <1>5 DEF RunInv, Written
  <1>7. PICK x : run' = WithOutcome(r, x)
    BY <1>1, CommitGives, Zenon
  <1>8. PICK s : s = run'
    OBVIOUS
  <1>9. RunInv(s, d, v, p)
    <2>1. /\ DOMAIN s = RunFields /\ s.at = "resolved" /\ s.guard = r.guard /\ s.plan = r.plan
          /\ s.spec = r.spec /\ s.factsOf = r.factsOf /\ s.temp = r.temp /\ s.of = r.of
      BY <1>6, <1>7, <1>8 DEF RunFields, WithOutcome
    <2>2. s.at \in Stages /\ s.at \notin Written /\ s.at \notin Judged
      BY <2>1 DEF Stages, Written, Judged
    <2> QED
      BY <1>5, <2>1, <2>2, RunKept
  <1>10. history' \in Histories
    <2>1. CASE history' = history
      BY <2>1 DEF PipelineInv
    <2>2. CASE Spend("installs")
      BY <2>2 DEF PipelineInv, Histories, Spend
    <2>3. CASE history.faults < MaxFaults /\ Spend("faults")
      BY <2>3, FaultsSpent
    <2> QED
      BY <2>1, <2>2, <2>3 DEF Commit
  <1>11. UNCHANGED <<row, policy, job, ledger>>
    BY DEF Commit
  <1>12. CASE disk' = r.temp /\ version' = v + 1
    <2>1. RunInv(s, r.temp, v + 1, p)
      BY <1>9, RunOutdated
    <2>2. PICK w : w = row
      OBVIOUS
    <2>3. RowInv(w, d, v)
      BY <1>2, <1>3, <2>2 DEF PipelineInv
    <2>4. RowInv(w, r.temp, v + 1)
      BY <2>3, RowOutdated
    <2>5. v + 1 \in Nat
      OBVIOUS
    <2> QED
      BY <1>4, <1>5, <1>6, <1>8, <1>10, <1>11, <1>12, <2>1, <2>2, <2>4, <2>5 DEF PipelineInv
  <1>13. CASE UNCHANGED <<disk, version>>
    BY <1>2, <1>3, <1>4, <1>5, <1>8, <1>9, <1>10, <1>11, <1>13 DEF PipelineInv
  <1> QED
    BY <1>1, <1>3, <1>12, <1>13 DEF Commit

LEMMA SettleMoves ==
  ASSUME PipelineInv, Settle PROVE PipelineInv'
  <1>1. RunAt("closing") /\ run.at = "resolved" /\ ledger' = FALSE
        /\ UNCHANGED <<disk, version, row, policy, job, history>>
    BY DEF Settle
  <1>2. "state" \in DOMAIN job' /\ (job' = NoJob \/ job'.state \in JS!States)
    BY <1>1 DEF PipelineInv
  <1>3. "closing" \in Stages /\ "closing" \notin Written /\ "closing" \notin Judged
    BY DEF Stages, Written, Judged
  <1> QED
    BY <1>1, <1>2, <1>3, RunAtKeeps

LEMMA ConcludeKeeps ==
  ASSUME PipelineInv, Conclude PROVE PipelineInv'
  <1>1. "state" \in DOMAIN job' /\ job'.state \in JS!States
    <2>1. PICK to \in {"Succeeded", "NeedsOperator", "Failed"} : Advance(to)
      BY DEF Conclude
    <2>2. to \in JS!States
      BY <2>1 DEF JS!States, JS!Terminal
    <2> QED
      BY <2>1, <2>2, Advances DEF PipelineInv
  <1>2. row.facts # NoContent
    BY Running DEF Conclude
  <1> QED
    BY <1>1, <1>2 DEF PipelineInv, Conclude

LEMMA AbandonKeeps ==
  ASSUME PipelineInv, Abandon PROVE PipelineInv'
  <1>1. history' \in Histories
    <2>1. history.abandoned + 1 \in 0 .. MaxAbandoned
      BY PipelineAssumption DEF PipelineInv, Abandon, Histories
    <2> QED
      BY <2>1 DEF PipelineInv, Abandon, Histories, Spend
  <1> QED
    BY <1>1 DEF PipelineInv, Abandon

(* Every step of the pipeline keeps the invariant.                          *)
LEMMA PipelineInvStep == PipelineInv /\ [PipelineNext]_pipelineVars => PipelineInv'
  <1> SUFFICES ASSUME PipelineInv, [PipelineNext]_pipelineVars PROVE PipelineInv'
    OBVIOUS
  <1>1. CASE \E c \in Replacements : Edit(c)
    BY <1>1, EditKeepsFile
  <1>2. CASE \E p \in DOMAIN Policies : NewPolicy(p)
    BY <1>2, NewPolicyKeeps
  <1>3. CASE Scan \/ ProbeFile \/ EvaluateFile \/ ResetEvaluations
    BY <1>3, ScanKeeps, ProbeFileKeeps, EvaluateFileKeeps, ResetEvaluationsKeeps
  <1>4. CASE RunOne
    BY <1>4, PickBegins, BeginMoves, EncodeWrites, FinishMoves, JudgeOutputKeeps, GrantMoves,
       CheckKeeps, CommitKeeps, SettleMoves, ConcludeKeeps DEF RunOne
  <1>5. CASE Abandon
    BY <1>5, AbandonKeeps
  <1>6. CASE UNCHANGED pipelineVars
    BY <1>6 DEF pipelineVars, PipelineInv
  <1> QED
    BY <1>1, <1>2, <1>3, <1>4, <1>5, <1>6 DEF PipelineNext

(* The inductive invariant of the pipeline holds throughout.                *)
THEOREM PipelineInvariance == PipelineSpec => []PipelineInv
  <1>1. PipelineInit => PipelineInv
    BY PipelineInvInit
  <1>2. PipelineInv /\ [PipelineNext]_pipelineVars => PipelineInv'
    BY PipelineInvStep
  <1> QED
    BY <1>1, <1>2, PTL DEF PipelineSpec

(* Every variable of the pipeline has its type.                             *)
THEOREM PipelineTypeCorrect == PipelineSpec => []PipelineTypeOK
  <1>1. PipelineInv => PipelineTypeOK
    <2> SUFFICES ASSUME PipelineInv PROVE PipelineTypeOK
      OBVIOUS
    <2>1. run.at \in {"idle", "observed", "started", "encoded", "verifying", "verified",
                      "granted", "checked", "resolved", "closing"}
      <3>1. CASE run = NoRun
        BY <3>1 DEF NoRun
      <3>2. CASE run # NoRun
        BY <3>2 DEF PipelineInv, RunInv, Stages
      <3> QED
        BY <3>1, <3>2
    <2> QED
      BY <2>1 DEF PipelineInv, PipelineTypeOK, RowInv, Histories
  <1> QED
    BY <1>1, PipelineInvariance, PTL

(* Between the ritual's look and its renames the file moves away from the   *)
(* guard by the edits made meanwhile, and every edit ends the account of    *)
(* the installs.                                                            *)
LateInv ==
  /\ run.at = "checked" => version = run.guard + history.late
  /\ history.late # 0 => history.installs = 0

LEMMA LateInvStep ==
  ASSUME PipelineInv, LateInv, [PipelineNext]_pipelineVars PROVE LateInv'
  <1>1. ASSUME UNCHANGED version, history'.late = history.late,
               history'.installs = history.installs,
               run' = run \/ run'.at # "checked"
        PROVE  LateInv'
    BY <1>1 DEF LateInv
  <1>2. ASSUME NEW what \in {"forced", "abandoned", "faults"}, Spend(what)
        PROVE  history'.late = history.late /\ history'.installs = history.installs
    BY <1>2 DEF Spend, PipelineInv, Histories
  <1>3. NoRun.at # "checked"
    BY DEF NoRun
  <1>4. ASSUME run # NoRun
        PROVE  DOMAIN run = RunFields
    BY <1>4 DEF PipelineInv, RunInv
  <1>5. ASSUME NEW a, RunAt(a), run.at # "idle" PROVE run'.at = a
    <2>1. DOMAIN run = RunFields
      BY <1>4, <1>5 DEF NoRun
    <2> QED
      BY <1>5, <2>1 DEF RunAt, RunFields
  <1>6. CASE \E c \in Replacements : Edit(c)
    <2>1. /\ version' = version + 1 /\ run' = run
          /\ history'.late = history.late + 1 /\ history'.installs = 0
      BY <1>6 DEF Edit, PipelineInv, Histories
    <2>2. run.at = "checked" => run.guard \in Nat
      BY Running DEF RunInv
    <2> QED
      BY <2>1, <2>2 DEF LateInv, PipelineInv, Histories
  <1>7. CASE \E p \in DOMAIN Policies : NewPolicy(p)
    <2>1. history'.late = history.late /\ history'.installs = 0
      BY <1>7 DEF NewPolicy, PipelineInv, Histories
    <2>2. UNCHANGED <<version, run>>
      BY <1>7 DEF NewPolicy
    <2> QED
      BY <2>1, <2>2 DEF LateInv
  <1>8. CASE Scan \/ ProbeFile \/ EvaluateFile \/ ResetEvaluations
    <2>1. UNCHANGED <<version, run>> /\ (UNCHANGED history \/ Spend("forced"))
      BY <1>8 DEF Scan, ProbeFile, EvaluateFile, ResetEvaluations
    <2> QED
      BY <1>1, <1>2, <2>1
  <1>9. CASE Pick
    <2>1. UNCHANGED <<version, history>> /\ run'.at = "observed"
      BY <1>9 DEF Pick
    <2> QED
      BY <1>1, <2>1
  <1>10. CASE Begin \/ Finish \/ Grant \/ Settle
    <2>1. PICK a \in {"observed", "started", "verifying", "granted", "closing"} :
             RunAt(a) /\ run.at # "idle"
      BY <1>10 DEF Begin, Finish, Grant, Settle
    <2>2. run'.at # "checked"
      BY <1>5, <2>1
    <2>3. UNCHANGED <<version, history>>
      BY <1>10 DEF Begin, Finish, Grant, Settle
    <2> QED
      BY <1>1, <2>2, <2>3
  <1>11. CASE Encode
    <2>1. run.at = "started"
      BY <1>11, EncodeGives, Zenon
    <2>5. run # NoRun
      BY <2>1 DEF NoRun
    <2>2. PICK o, v : run' = WithOutput(run, o, v)
      BY <1>11, EncodeGives, Zenon
    <2>3. run'.at = "encoded"
      BY <1>4, <2>2, <2>5, WithOutputAt
    <2>4. UNCHANGED version /\ (UNCHANGED history \/ Spend("faults"))
      BY <1>11, EncodeGives, Zenon
    <2> QED
      BY <1>1, <1>2, <2>3, <2>4
  <1>12. CASE JudgeOutput
    <2>1. run.at # "idle" /\ UNCHANGED <<version, history>>
      BY <1>12 DEF JudgeOutput
    <2>2. RunAt("verified") \/ run' = NoRun
      BY <1>12 DEF JudgeOutput
    <2> QED
      BY <1>1, <1>3, <1>5, <2>1, <2>2
  <1>13. CASE Check
    <2>1. run.at = "granted" /\ run # NoRun /\ UNCHANGED version
      BY <1>13 DEF Check, NoRun
    <2>2. CASE run.guard = version
      <3>1. RunAt("checked") /\ history' = [history EXCEPT !.late = 0]
        BY <1>13, <2>2 DEF Check
      <3>2. run'.guard = run.guard
        BY <1>4, <2>1, <3>1 DEF RunAt, RunFields
      <3>3. history'.late = 0
        BY <3>1 DEF PipelineInv, Histories
      <3> QED
        BY <2>1, <2>2, <3>2, <3>3 DEF LateInv, PipelineInv
    <2>3. CASE run.guard # version
      <3>1. run' = [run EXCEPT !.at = "resolved", !.exit = 1] /\ UNCHANGED history
        BY <1>13, <2>3 DEF Check
      <3>2. run'.at = "resolved"
        BY <1>4, <2>1, <3>1 DEF RunFields
      <3> QED
        BY <1>1, <2>1, <3>1, <3>2
    <2> QED
      BY <2>2, <2>3
  <1>14. CASE Commit
    <2>1. run.at = "checked" /\ run # NoRun
      BY <1>14 DEF Commit, NoRun
    <2>2. PICK x : run' = WithOutcome(run, x)
      BY <1>14, CommitGives, Zenon
    <2>3. run'.at = "resolved"
      BY <1>4, <2>1, <2>2, WithOutputAt
    <2>4. CASE UNCHANGED history \/ Spend("faults")
      BY <1>2, <2>3, <2>4 DEF LateInv
    <2>5. CASE Spend("installs") /\ run.factsOf = version
      <3>1. history'.late = history.late
        BY <2>5 DEF Spend, PipelineInv, Histories
      <3>2. run.factsOf <= run.guard /\ run.factsOf \in Nat /\ run.guard \in Nat
        BY <2>1, Running DEF RunInv
      <3>3. history.late = 0
        BY <2>1, <2>5, <3>2 DEF LateInv, PipelineInv, Histories
      <3> QED
        BY <2>3, <3>1, <3>3 DEF LateInv
    <2> QED
      BY <1>14, <2>4, <2>5 DEF Commit
  <1>15. CASE Conclude \/ Abandon
    <2>1. run' = NoRun /\ UNCHANGED version /\ (UNCHANGED history \/ Spend("abandoned"))
      BY <1>15 DEF Conclude, Abandon
    <2> QED
      BY <1>1, <1>2, <1>3, <2>1
  <1>16. CASE UNCHANGED pipelineVars
    BY <1>1, <1>16 DEF pipelineVars
  <1> QED
    BY <1>6, <1>7, <1>8, <1>9, <1>10, <1>11, <1>12, <1>13, <1>14, <1>15, <1>16
       DEF PipelineNext, RunOne

THEOREM LateInvariance == PipelineSpec => []LateInv
  <1>1. PipelineInit => LateInv
    BY DEF PipelineInit, LateInv, NoRun
  <1>2. PipelineInv /\ LateInv /\ [PipelineNext]_pipelineVars => LateInv'
    BY LateInvStep
  <1> QED
    BY <1>1, <1>2, PipelineInvariance, PTL DEF PipelineSpec

(* Only the ritual replaces the file for the runner, and the file is newer  *)
(* than the ritual's guard by what was put there since it looked.           *)
LEMMA InstallIsCommit ==
  ASSUME PipelineInv, LateInv, PipelineNext, Installs
  PROVE  /\ Commit /\ disk' = run.temp /\ run.at = "checked"
         /\ run.of = run.guard /\ run.guard \in Nat /\ run.factsOf <= run.guard
         /\ run.factsOf \in Nat
         /\ version = run.guard + history.late /\ history.late \in Nat
  <1>1. run' # run /\ version' # version /\ version' = version + 1 /\ run.at = "checked"
    BY DEF PipelineInv, Installs
  <1>2. Commit
    <2>1. ~(\E c \in Replacements : Edit(c))
      BY <1>1 DEF Edit
    <2>2. ~(\E p \in DOMAIN Policies : NewPolicy(p))
      BY <1>1 DEF NewPolicy
    <2>3. ~Scan /\ ~ProbeFile /\ ~EvaluateFile /\ ~ResetEvaluations /\ ~Abandon
      BY <1>1 DEF Scan, ProbeFile, EvaluateFile, ResetEvaluations, Abandon
    <2>4. ~Pick /\ ~Begin /\ ~Encode /\ ~Finish /\ ~JudgeOutput
      BY <1>1 DEF Pick, Begin, Encode, Finish, JudgeOutput
    <2>5. ~Grant /\ ~Check /\ ~Settle /\ ~Conclude
      BY <1>1 DEF Grant, Check, Settle, Conclude
    <2> QED
      BY <2>1, <2>2, <2>3, <2>4, <2>5 DEF PipelineNext, RunOne
  <1>3. disk' = run.temp
    BY <1>1, <1>2 DEF Commit
  <1>4. /\ run.of = run.guard /\ run.guard \in Nat
        /\ run.factsOf <= run.guard /\ run.factsOf \in Nat
    BY <1>1, Running DEF RunInv
  <1>5. version = run.guard + history.late /\ history.late \in Nat
    BY <1>1 DEF LateInv, PipelineInv, Histories
  <1> QED
    BY <1>1, <1>2, <1>3, <1>4, <1>5

(* The file the ritual finds unchanged is the very one the output was made  *)
(* of: run_one observes the source before the encode, and the ritual        *)
(* refuses a source that is not the observed one when it looks.  What comes *)
(* after the look is replaced, and is all that stands between the two.      *)
THEOREM ReplacesItsSourceHolds == PipelineSpec => ReplacesItsSource
  <1>1. PipelineInv /\ LateInv /\ [PipelineNext]_pipelineVars
          => [Installs => version = run.of + history.late]_pipelineVars
    <2> SUFFICES ASSUME PipelineInv, LateInv, PipelineNext, Installs
                 PROVE  version = run.of + history.late
      OBVIOUS
    <2> QED
      BY InstallIsCommit
  <1> QED
    BY <1>1, PipelineInvariance, LateInvariance, PTL DEF PipelineSpec, ReplacesItsSource

(* What the facts the plan was made of say of the file replaced.            *)
LEMMA RespectsByPlan ==
  ASSUME PipelineInv, run.at = "checked", run.guard = version, run.factsOf = version
  PROVE  LET was == ParsedProbe(disk.report)
             is  == ParsedProbe(run.temp.report)
             f   == DeriveFacts(was, disk.size)
         IN /\ \A kind \in {"audio", "subtitle"} : CountOf(is, kind) >= CountOf(was, kind)
            /\ (f.hdr \/ f.dovi) => StreamsOf(is, "video") = StreamsOf(was, "video")
            /\ ~IsExcluded(f)
  <1>1. PICK r : r = run
    OBVIOUS
  <1>2. PICK d \in ContentTypes : d = disk
    BY DEF PipelineInv
  <1>3. PICK v \in Nat : v = version
    BY DEF PipelineInv
  <1>4. PICK p \in DOMAIN Policies : p = policy
    BY DEF PipelineInv
  <1>5. RunInv(r, d, v, p) /\ MadeFrom(r, d) /\ ThroughTheGates(r, d) /\ r.plan \in Plans
    BY <1>1, <1>2, <1>3, <1>4, Running, Installed
  <1>6. PICK n \in Nat : PlannedFrom(r, Facts(d, n), p)
    <2>1. PICK c \in ContentTypes : /\ r.factsOf = v => c = d
                                    /\ \E n \in Nat : PlannedFrom(r, Facts(c, n), p)
      BY <1>5 DEF RunInv, PlanOrigin
    <2> QED
      BY <1>1, <1>3, <2>1
  <1>7. PICK f : f = Facts(d, d.size)
    OBVIOUS
  <1>8. ~IsExcluded(f) /\ (f.hdr \/ f.dovi => r.plan.video = "copy")
    <2>1. PICK m : m = d.size
      OBVIOUS
    <2>2. ~IsExcluded(Facts(d, m)) /\ (Facts(d, m).hdr \/ Facts(d, m).dovi => r.plan.video = "copy")
      BY <1>6, PlannedGives, Zenon
    <2> QED
      BY <1>7, <2>1, <2>2, Zenon
  <1>9. PICK o \in Outputs(Argv(r.plan), d) \cup BadOutputs(Argv(r.plan), d) : r.temp = o.made
    BY <1>5 DEF MadeFrom
  <1>10. r.plan.video = "copy" =>
           StreamsOf(ParsedProbe(r.temp.report), "video") = StreamsOf(ParsedProbe(d.report), "video")
    BY <1>5, <1>9, OutputStreams
  <1>11. /\ r.spec.audioStreams = CountOf(ParsedProbe(d.report), "audio")
         /\ r.spec.subtitleStreams = CountOf(ParsedProbe(d.report), "subtitle")
    <2>1. PICK e : r.spec = ValidationSpecFor(Facts(d, n), e)
      BY <1>6 DEF PlannedFrom
    <2> QED
      BY <2>1, SpecIs
  <1>12. \A kind \in {"audio", "subtitle"} :
           CountOf(ParsedProbe(r.temp.report), kind) >= CountOf(ParsedProbe(d.report), kind)
    BY <1>5, <1>11 DEF ThroughTheGates
  <1>13. f = DeriveFacts(ParsedProbe(d.report), d.size)
    BY <1>7 DEF Facts
  <1>14. f.hdr \/ f.dovi =>
           StreamsOf(ParsedProbe(r.temp.report), "video") = StreamsOf(ParsedProbe(d.report), "video")
    BY <1>8, <1>10
  <1> QED
    BY <1>1, <1>2, <1>8, <1>12, <1>13, <1>14, Zenon

(* No install loses a part of the file, when the last packet of a file can  *)
(* be found: the length by the gates alone, of the file the ritual found    *)
(* unchanged; and the streams, the protected video and the exclusions when  *)
(* the plan was made of the replaced file's own facts.                      *)
THEOREM RespectsTheFileHolds ==
  ASSUME TailReadable PROVE PipelineSpec => RespectsTheFile
  <1>1. PipelineInv /\ LateInv /\ [PipelineNext]_pipelineVars =>
        [Installs =>
         (history.late = 0 => AsLong(disk, disk')) /\ (run.factsOf = version =>
         LET was == ParsedProbe(disk.report)
             is  == ParsedProbe(disk'.report)
             f   == DeriveFacts(was, disk.size)
         IN /\ \A kind \in {"audio", "subtitle"} : CountOf(is, kind) >= CountOf(was, kind)
            /\ (f.hdr \/ f.dovi) => StreamsOf(is, "video") = StreamsOf(was, "video")
            /\ ~IsExcluded(f))]_pipelineVars
    <2> SUFFICES ASSUME PipelineInv, LateInv, PipelineNext, Installs
                 PROVE  (history.late = 0 => AsLong(disk, disk')) /\ (run.factsOf = version =>
         LET was == ParsedProbe(disk.report)
             is  == ParsedProbe(disk'.report)
             f   == DeriveFacts(was, disk.size)
         IN /\ \A kind \in {"audio", "subtitle"} : CountOf(is, kind) >= CountOf(was, kind)
            /\ (f.hdr \/ f.dovi) => StreamsOf(is, "video") = StreamsOf(was, "video")
            /\ ~IsExcluded(f))
      OBVIOUS
    <2>1. /\ disk' = run.temp /\ run.at = "checked" /\ run.guard \in Nat
          /\ run.factsOf \in Nat /\ run.factsOf <= run.guard
          /\ version = run.guard + history.late /\ history.late \in Nat
      BY InstallIsCommit
    <2>2. history.late = 0 => AsLong(disk, disk')
      <3> SUFFICES ASSUME history.late = 0 PROVE AsLong(disk, disk')
        OBVIOUS
      <3>1. run.guard = version
        BY <2>1
      <3> QED
        BY <2>1, <3>1, Installed DEF ThroughTheGates
    <2>3. run.factsOf = version => run.guard = version
      BY <2>1
    <2> QED
      BY <2>1, <2>2, <2>3, RespectsByPlan, Zenon
  <1> QED
    BY <1>1, PipelineInvariance, LateInvariance, PTL DEF PipelineSpec, RespectsTheFile

(* What the installs since the last change of the file or the policy have   *)
(* done: one leaves one stage nothing to do, two leave neither anything.    *)
AllConverge == \A p \in DOMAIN Policies : Converges(Policies[p])

SettledBy(n, d, rules) ==
  /\ n \in 0 .. 2
  /\ n = 1 => AudioDone(d, rules) \/ VideoDone(d, rules)
  /\ n = 2 => AudioDone(d, rules) /\ VideoDone(d, rules)

Settling == SettledBy(history.installs, disk, Policies[policy])

(* The install of an output, planned from the facts of the file itself or   *)
(* of an earlier one.                                                       *)
LEMMA InstallSettles ==
  ASSUME AllConverge, NEW p \in DOMAIN Policies, NEW d \in ContentTypes, NEW v \in Nat,
         NEW r, RunInv(r, d, v, p), r.plan \in Plans, MadeFrom(r, d),
         AudioPass(r.plan, Policies[p]) \/ VideoPass(r.plan, Policies[p]),
         NEW n, SettledBy(n, d, Policies[p])
  PROVE  /\ SettledBy(n, r.temp, Policies[p])
         /\ r.factsOf = v => SettledBy(n + 1, r.temp, Policies[p])
  <1>1. PICK rules : rules = Policies[p]
    OBVIOUS
  <1>2. RulesOK(rules) /\ Converges(rules)
    BY <1>1, PoliciesOK DEF AllConverge
  <1>3. PICK o \in Outputs(Argv(r.plan), d) \cup BadOutputs(Argv(r.plan), d) : r.temp = o.made
    BY DEF MadeFrom
  <1>4. AudioPass(r.plan, rules) =>
          AudioDone(r.temp, rules) /\ (VideoDone(d, rules) => VideoDone(r.temp, rules))
    BY <1>2, <1>3, AudioPassDone
  <1>5. VideoPass(r.plan, rules) =>
          VideoDone(r.temp, rules) /\ (AudioDone(d, rules) => AudioDone(r.temp, rules))
    BY <1>2, <1>3, VideoPassDone
  <1>6. SettledBy(n, r.temp, rules)
    BY <1>1, <1>4, <1>5 DEF SettledBy
  <1>7. ASSUME r.factsOf = v PROVE SettledBy(n + 1, r.temp, rules)
    <2>1. PICK m \in Nat : PlannedFrom(r, Facts(d, m), p)
      <3>1. PICK c \in ContentTypes : /\ r.factsOf = v => c = d
                                      /\ \E m \in Nat : PlannedFrom(r, Facts(c, m), p)
        BY DEF RunInv, PlanOrigin
      <3> QED
        BY <1>7, <3>1
    <2>2. \/ VideoPass(r.plan, rules) /\ ~VideoDone(d, rules)
          \/ AudioPass(r.plan, rules) /\ ~AudioDone(d, rules)
      <3>1. \/ /\ VideoPass(r.plan, rules)
               /\ \E j \in VideoRules(rules) : Matches(rules[j].when, Facts(d, m))
            \/ /\ AudioPass(r.plan, rules)
               /\ \E j \in AudioRules(rules) : Matches(rules[j].when, Facts(d, m))
        BY <1>1, <2>1, PlannedGives
      <3>2. ASSUME NEW j \in VideoRules(rules), Matches(rules[j].when, Facts(d, m))
            PROVE  ~VideoDone(d, rules)
        BY <1>2, <3>2, VideoDoneOwesNothing
      <3>3. ASSUME NEW j \in AudioRules(rules), Matches(rules[j].when, Facts(d, m))
            PROVE  ~AudioDone(d, rules)
        BY <1>2, <3>3, AudioDoneOwesNothing
      <3> QED
        BY <3>1, <3>2, <3>3
    <2>3. n \in 0 .. 2 /\ n # 2
      BY <1>1, <2>2 DEF SettledBy
    <2>4. CASE n = 0
      BY <1>4, <1>5, <2>2, <2>4 DEF SettledBy
    <2>5. CASE n = 1
      <3>1. AudioDone(d, rules) \/ VideoDone(d, rules)
        BY <1>1, <2>5 DEF SettledBy
      <3>2. AudioDone(r.temp, rules) /\ VideoDone(r.temp, rules)
        BY <1>4, <1>5, <2>2, <3>1
      <3> QED
        BY <2>5, <3>2 DEF SettledBy
    <2> QED
      BY <2>3, <2>4, <2>5
  <1> QED
    BY <1>1, <1>6, <1>7

(* Every step keeps the account of the installs.  An output that replaces   *)
(* another file than its own starts the account again.                      *)
LEMMA SettlingStep ==
  ASSUME AllConverge
  PROVE  PipelineInv /\ LateInv /\ Settling /\ [PipelineNext]_pipelineVars => Settling'
  <1> SUFFICES ASSUME PipelineInv, LateInv, Settling, [PipelineNext]_pipelineVars
               PROVE  Settling'
    OBVIOUS
  <1>1. CASE Commit /\ version' = version + 1
    <2>1. PICK r : r = run
      OBVIOUS
    <2>2. PICK d \in ContentTypes : d = disk
      BY DEF PipelineInv
    <2>3. PICK v \in Nat : v = version
      BY DEF PipelineInv
    <2>4. PICK p \in DOMAIN Policies : p = policy
      BY DEF PipelineInv
    <2>5. PICK n \in Nat : n = history.installs
      BY DEF PipelineInv, Histories
    <2>6. policy' = p /\ run.at = "checked"
      BY <1>1, <2>4 DEF Commit
    <2>7. SettledBy(n, d, Policies[p])
      BY <2>2, <2>4, <2>5 DEF Settling
    <2>8. RunInv(r, d, v, p)
      BY <2>1, <2>2, <2>3, <2>4, <2>6, Running
    <2>9. disk' = r.temp /\ (IF r.factsOf = v THEN Spend("installs") ELSE UNCHANGED history)
      BY <1>1, <2>1, <2>3 DEF Commit
    <2>10. \/ history'.installs = n /\ r.factsOf # v
           \/ history'.installs = n + 1 /\ r.factsOf = v
      <3>1. CASE r.factsOf = v
        <4>1. history' = [history EXCEPT !.installs = n + 1]
          BY <2>5, <2>9, <3>1 DEF Spend
        <4>2. history'.installs = n + 1
          BY <4>1 DEF PipelineInv, Histories
        <4> QED
          BY <3>1, <4>2
      <3>2. CASE r.factsOf # v
        BY <2>5, <2>9, <3>2
      <3> QED
        BY <3>1, <3>2
    <2>11. CASE r.guard = v
      <3>1. r.plan \in Plans /\ MadeFrom(r, d)
            /\ (AudioPass(r.plan, Policies[p]) \/ VideoPass(r.plan, Policies[p]))
        BY <2>1, <2>2, <2>3, <2>4, <2>6, <2>11, Installed
      <3>2. /\ SettledBy(n, r.temp, Policies[p])
            /\ r.factsOf = v => SettledBy(n + 1, r.temp, Policies[p])
        BY <2>7, <2>8, <3>1, InstallSettles
      <3> QED
        BY <2>6, <2>9, <2>10, <3>2 DEF Settling
    <2>12. CASE r.guard # v
      <3>1. r.factsOf # v
        BY <2>8, <2>12 DEF RunInv
      <3>2. history.late # 0
        BY <2>1, <2>3, <2>6, <2>8, <2>12 DEF LateInv, RunInv
      <3>3. history'.installs = 0
        BY <2>5, <2>10, <3>1, <3>2 DEF LateInv
      <3> QED
        BY <3>3 DEF Settling, SettledBy
    <2> QED
      BY <2>11, <2>12
  <1>2. ASSUME UNCHANGED <<disk, policy>>, history'.installs = history.installs PROVE Settling'
    BY <1>2 DEF Settling
  <1>3. ASSUME history'.installs = 0 PROVE Settling'
    BY <1>3 DEF Settling, SettledBy
  <1>4. ASSUME NEW what \in {"forced", "abandoned", "faults"}, Spend(what)
        PROVE  history'.installs = history.installs
    BY <1>4 DEF Spend, PipelineInv, Histories
  <1>5. CASE \E c \in Replacements : Edit(c)
    <2>1. history'.installs = 0
      BY <1>5 DEF Edit, PipelineInv, Histories
    <2> QED
      BY <1>3, <2>1
  <1>6. CASE \E p \in DOMAIN Policies : NewPolicy(p)
    <2>1. history'.installs = 0
      BY <1>6 DEF NewPolicy, PipelineInv, Histories
    <2> QED
      BY <1>3, <2>1
  <1>7. CASE Scan \/ ProbeFile \/ EvaluateFile
    BY <1>2, <1>7 DEF Scan, ProbeFile, EvaluateFile
  <1>8. CASE ResetEvaluations \/ Abandon
    <2>1. UNCHANGED <<disk, policy>> /\ (Spend("forced") \/ Spend("abandoned"))
      BY <1>8 DEF ResetEvaluations, Abandon
    <2> QED
      BY <1>2, <1>4, <2>1
  <1>9. CASE Encode
    <2>1. UNCHANGED <<disk, policy>> /\ (UNCHANGED history \/ Spend("faults"))
      BY <1>9, EncodeGives, Zenon
    <2> QED
      BY <1>2, <1>4, <2>1
  <1>10. CASE Pick \/ Begin \/ Finish \/ JudgeOutput \/ Grant \/ Settle \/ Conclude
    BY <1>2, <1>10 DEF Pick, Begin, Finish, JudgeOutput, Grant, Settle, Conclude
  <1>12. CASE Commit /\ Spend("faults") /\ UNCHANGED disk
    <2>1. UNCHANGED policy
      BY <1>12 DEF Commit
    <2> QED
      BY <1>2, <1>4, <1>12, <2>1
  <1>13. CASE Check
    <2>1. UNCHANGED <<disk, policy>>
      BY <1>13 DEF Check
    <2>2. UNCHANGED history \/ history' = [history EXCEPT !.late = 0]
      BY <1>13 DEF Check
    <2>3. history'.installs = history.installs
      BY <2>2 DEF PipelineInv, Histories
    <2> QED
      BY <1>2, <2>1, <2>3
  <1>11. CASE UNCHANGED pipelineVars
    BY <1>2, <1>11 DEF pipelineVars
  <1> QED
    <2>1. Commit => version' = version + 1 \/ (Spend("faults") /\ UNCHANGED disk)
      BY DEF Commit
    <2> QED
      BY <1>1, <1>5, <1>6, <1>7, <1>8, <1>9, <1>10, <1>11, <1>12, <1>13, <2>1
         DEF PipelineNext, RunOne

(* Under policies whose rules never read what they write, at most two       *)
(* installs planned from a file's own facts follow one another.             *)
THEOREM NoEncodeLoopHolds ==
  ASSUME AllConverge PROVE PipelineSpec => []NoEncodeLoop
  <1>1. PipelineInit => Settling
    BY DEF PipelineInit, Settling, SettledBy
  <1>2. PipelineInv /\ LateInv /\ Settling /\ [PipelineNext]_pipelineVars => Settling'
    BY SettlingStep
  <1>3. Settling => NoEncodeLoop
    BY DEF Settling, SettledBy, NoEncodeLoop
  <1> QED
    BY <1>1, <1>2, <1>3, PipelineInvariance, LateInvariance, PTL DEF PipelineSpec

(* The default policy is such a policy.                                     *)
THEOREM DefaultSpaceSaverConverges == Converges(DefaultSpaceSaver)
  <1>1. PICK D : D = DefaultSpaceSaver
    OBVIOUS
  <1>2. /\ DOMAIN D = 1 .. 3
        /\ D[1].then = EncodeAudio("eac3")
        /\ D[2].then = EncodeVideo(<<"hevc_nvenc", "libx265">>)
        /\ D[3].then = EncodeVideo(<<"libx265">>)
        /\ D[1].when.audioAny = {"truehd", "dts", "flac", "pcm", "mlp", "opus"}
        /\ D[2].when.videoIn = {"h264", "mpeg2video", "vc1"}
        /\ D[3].when.videoIn = {"av1"}
    <2>1. PICK w1 : w1 = [AnyFile EXCEPT !.audioAny = {"truehd", "dts", "flac", "pcm", "mlp", "opus"}]
      OBVIOUS
    <2>2. PICK w2 : w2 = [AnyFile EXCEPT !.videoIn = {"h264", "mpeg2video", "vc1"}, !.minRate = 2]
      OBVIOUS
    <2>3. PICK w3 : w3 = [AnyFile EXCEPT !.videoIn = {"av1"}]
      OBVIOUS
    <2>4. PICK t1, t2, t3 : /\ t1 = EncodeAudio("eac3")
                            /\ t2 = EncodeVideo(<<"hevc_nvenc", "libx265">>)
                            /\ t3 = EncodeVideo(<<"libx265">>)
      OBVIOUS
    <2>5. D = <<[when |-> w1, then |-> t1], [when |-> w2, then |-> t2], [when |-> w3, then |-> t3]>>
      BY <1>1, <2>1, <2>2, <2>3, <2>4 DEF DefaultSpaceSaver, Rule
    <2>6. w1.audioAny = {"truehd", "dts", "flac", "pcm", "mlp", "opus"}
      BY <2>1 DEF AnyFile
    <2>7. w2.videoIn = {"h264", "mpeg2video", "vc1"} /\ w3.videoIn = {"av1"}
      BY <2>2, <2>3 DEF AnyFile
    <2>8. /\ DOMAIN D = 1 .. 3 /\ D[1].then = t1 /\ D[2].then = t2 /\ D[3].then = t3
          /\ D[1].when = w1 /\ D[2].when = w2 /\ D[3].when = w3
      BY <2>5
    <2> QED
      BY <2>4, <2>6, <2>7, <2>8
  <1>3. AudioRules(D) = {1}
    BY <1>2 DEF AudioRules, EncodeAudio, EncodeVideo
  <1>4. VideoRules(D) = {2, 3}
    BY <1>2 DEF VideoRules, EncodeAudio, EncodeVideo
  <1>5. CodecWrittenBy[D[1].then.codec] = "eac3"
    BY <1>2 DEF EncodeAudio, CodecWrittenBy
  <1>6. \A j \in {2, 3} : CodecWrittenBy[D[j].then.preference[1]] = "hevc"
    BY <1>2 DEF EncodeVideo, CodecWrittenBy
  <1>7. \A w \in D[1].when.audioAny : ~Contains("eac3", w)
    BY <1>2 DEF Contains
  <1>8. \A j \in {2, 3} : "hevc" \notin D[j].when.videoIn /\ D[j].when.videoIn # {}
    BY <1>2
  <1>9. D[1].when.audioAny # {}
    BY <1>2
  <1> QED
    BY <1>1, <1>3, <1>4, <1>5, <1>6, <1>7, <1>8, <1>9 DEF Converges
=============================================================================
