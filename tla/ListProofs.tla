----------------------------- MODULE ListProofs -----------------------------
(***************************************************************************)
(* What the proofs about lists share: induction, what a fold and a         *)
(* concatenation compute, and why the stable sort of Sorting is well       *)
(* defined.                                                                *)
(***************************************************************************)
EXTENDS Sorting, Integers, SequencesExt, FiniteSetsExt, TLAPS,
        FiniteSetTheorems, SequenceTheorems

(* Induction over the natural numbers, for a property given as a set. *)
LEMMA NatSetInduction ==
  ASSUME NEW S \in SUBSET Nat, 0 \in S, \A n \in S : n + 1 \in S
  PROVE  S = Nat
<1>. SUFFICES ASSUME Nat \ S # {}
              PROVE  FALSE
  OBVIOUS
<1>1. PICK x \in Nat \ S : \A y \in Nat \ S : ~(<<y, x>> \in OpToRel(<, Nat))
  BY WFMin, NatLessThanWellFounded, Zenon
<1>2. \A y \in Nat \ S : ~(y < x)
  BY <1>1, Zenon DEF OpToRel
<1>3. x # 0 /\ x - 1 \in Nat
  OBVIOUS
<1>4. x - 1 \in S
  BY <1>2, <1>3
<1>. QED
  BY <1>3, <1>4

(* The greatest index of a part of 1..m that has m is m. *)
LEMMA MaxIsTop ==
  ASSUME NEW m \in Nat, NEW s \in SUBSET (1..m), m \in s
  PROVE  Max(s) = m
<1>1. m \in s /\ \A y \in s : m >= y
  OBVIOUS
<1>2. Max(s) \in s /\ \A y \in s : Max(s) >= y
  BY <1>1, Zenon DEF Max
<1>3. ASSUME NEW x \in s, \A y \in s : x >= y
      PROVE  x = m
  <2>1. x \in Int /\ x <= m /\ x >= m
    BY <1>1, <1>3
  <2>. QED
    BY <2>1
<1>. QED
  BY <1>2, <1>3

(* What is left of a part of 1..m+1 without its top. *)
LEMMA BelowTop ==
  ASSUME NEW m \in Nat, NEW s \in SUBSET (1..(m + 1))
  PROVE  /\ m + 1 \notin s => s \in SUBSET (1..m)
         /\ s \ {m + 1} \in SUBSET (1..m)
OBVIOUS

(* The first k positions of a list, and those before the last of them. *)
LEMMA FirstPositions ==
  ASSUME NEW n \in Nat, NEW k \in 1..n
  PROVE  /\ 1..k \in SUBSET (1..n) /\ 1..k # {}
         /\ k \in 0..n /\ k - 1 \in 0..n
         /\ (1..k) \ {k} = 1..(k - 1)
<1>1. k \in Nat /\ 1 <= k /\ k <= n
  OBVIOUS
<1>2. k \in 0..n /\ k - 1 \in 0..n
  BY <1>1
<1>3. 1..k \in SUBSET (1..n)
  BY <1>1
<1>4. k \in 1..k
  BY <1>1
<1>5. (1..k) \ {k} = 1..(k - 1)
  BY <1>1
<1>. QED
  BY <1>2, <1>3, <1>4, <1>5

-----------------------------------------------------------------------------
(* Induction over the sequences of a set, for a property given as a set. *)
LEMMA SeqSetInduction ==
  ASSUME NEW X, NEW S \in SUBSET Seq(X), <<>> \in S,
         \A s \in S : \A x \in X : Append(s, x) \in S
  PROVE  S = Seq(X)
<1>. DEFINE T == {n \in Nat : \A s \in Seq(X) : Len(s) = n => s \in S}
<1>1. 0 \in T
  <2>1. \A s \in Seq(X) : Len(s) = 0 => s = <<>>
    OBVIOUS
  <2>. QED
    BY <2>1
<1>2. ASSUME NEW n \in T
      PROVE  n + 1 \in T
  <2>. SUFFICES ASSUME NEW s \in Seq(X), Len(s) = n + 1
                PROVE  s \in S
    OBVIOUS
  <2>1. PICK r \in Seq(X), x \in X : s = Append(r, x)
    <3>1. s # <<>>
      OBVIOUS
    <3>. QED
      BY <3>1, SequenceEmptyOrAppend
  <2>2. Len(r) = n
    BY <2>1
  <2>. QED
    BY <2>1, <2>2
<1>3. T = Nat
  BY <1>1, <1>2, NatSetInduction
<1>4. ASSUME NEW s \in Seq(X)
      PROVE  s \in S
  <2>1. Len(s) \in T
    BY <1>3
  <2>. QED
    BY <2>1
<1>. QED
  BY <1>4

(* h is what FoldLeft tabulates for the sequence s: the result for each    *)
(* set of positions, for the step f given as a function on pairs.          *)
IsFold(h, f, base, s) ==
    h = [t \in SUBSET (DOMAIN s) |->
           IF t = {} THEN base ELSE f[<<h[t \ {Max(t)}], s[Max(t)]>>]]

(* The tables of a sequence of length m and of one that goes on after it. *)
FoldsOn(h, s, m, g, u, n, f, base) ==
    /\ m \in Nat /\ n \in Nat /\ m <= n
    /\ DOMAIN s = 1..m /\ DOMAIN u = 1..n /\ \A i \in 1..m : s[i] = u[i]
    /\ IsFold(h, f, base, s) /\ IsFold(g, f, base, u)

(* The result for the positions of the former is the same. *)
LEMMA FoldAgrees ==
  ASSUME NEW h, NEW s, NEW m, NEW g, NEW u, NEW n, NEW f, NEW base,
         FoldsOn(h, s, m, g, u, n, f, base)
  PROVE  h[1..m] = g[1..m]
<1>. DEFINE Same(k) == k <= m => \A t \in SUBSET (1..k) : h[t] = g[t]
            S == {k \in Nat : Same(k)}
<1>0. /\ \A t \in SUBSET (1..m) :
           h[t] = IF t = {} THEN base ELSE f[<<h[t \ {Max(t)}], s[Max(t)]>>]
      /\ \A t \in SUBSET (1..n) :
           g[t] = IF t = {} THEN base ELSE f[<<g[t \ {Max(t)}], u[Max(t)]>>]
      /\ m \in Nat /\ n \in Nat /\ m <= n /\ \A i \in 1..m : s[i] = u[i]
  BY DEF IsFold, FoldsOn
<1>1. 0 \in S
  <2>1. \A t \in SUBSET (1..0) : t = {} /\ t \in SUBSET (1..m) /\ t \in SUBSET (1..n)
    BY <1>0
  <2>. QED
    BY <1>0, <2>1
<1>2. ASSUME NEW k \in S
      PROVE  k + 1 \in S
  <2>0. k \in Nat /\ k + 1 \in Nat /\ Same(k)
    OBVIOUS
  <2>. SUFFICES ASSUME k + 1 <= m, NEW t \in SUBSET (1..(k + 1))
                PROVE  h[t] = g[t]
    BY <2>0
  <2>1. /\ k \in Nat /\ k + 1 \in Nat /\ k + 1 \in 1..m
        /\ \A v \in SUBSET (1..k) : h[v] = g[v]
    BY <1>0, <2>0
  <2>2. t \in SUBSET (1..m) /\ t \in SUBSET (1..n)
    BY <1>0, <2>1
  <2>3. CASE k + 1 \in t
    <3>1. Max(t) = k + 1
      BY <2>1, <2>3, MaxIsTop
    <3>2. t \ {k + 1} \in SUBSET (1..k)
      BY <2>1, BelowTop
    <3>3. h[t] = f[<<h[t \ {k + 1}], s[k + 1]>>]
      BY <1>0, <2>2, <2>3, <3>1
    <3>4. g[t] = f[<<g[t \ {k + 1}], u[k + 1]>>]
      BY <1>0, <2>2, <2>3, <3>1
    <3>. QED
      BY <1>0, <2>1, <3>2, <3>3, <3>4
  <2>4. CASE k + 1 \notin t
    <3>1. t \in SUBSET (1..k)
      BY <2>1, <2>4, BelowTop
    <3>. QED
      BY <2>1, <3>1
  <2>. QED
    BY <2>3, <2>4
<1>3. S = Nat
  BY <1>1, <1>2, NatSetInduction
<1>4. Same(m)
  BY <1>0, <1>3
<1>. QED
  BY <1>0, <1>4

(* If the step stays in a set then there is a table, with values in it. *)
LEMMA FoldExists ==
  ASSUME NEW D, NEW X, NEW f, \A a \in D, x \in X : f[<<a, x>>] \in D,
         NEW base \in D, NEW s \in Seq(X)
  PROVE  \E h : /\ IsFold(h, f, base, s)
                /\ \A t \in SUBSET (DOMAIN s) : h[t] \in D
<1>. DEFINE n == Len(s)
            Is(h, k) ==
              /\ h = [t \in SUBSET (1..k) |->
                        IF t = {} THEN base ELSE f[<<h[t \ {Max(t)}], s[Max(t)]>>]]
              /\ \A t \in SUBSET (1..k) : h[t] \in D
            Has(k) == k <= n => \E h : Is(h, k)
            S == {k \in Nat : Has(k)}
<1>0. n \in Nat /\ DOMAIN s = 1..n /\ \A i \in 1..n : s[i] \in X
  OBVIOUS
<1>1. 0 \in S
  <2>1. Is([t \in SUBSET (1..0) |-> base], 0)
    OBVIOUS
  <2>. QED
    BY <2>1
<1>2. ASSUME NEW k \in S
      PROVE  k + 1 \in S
  <2>. HIDE DEF Is, n
  <2>a. k \in Nat /\ k + 1 \in Nat /\ Has(k)
    OBVIOUS
  <2>. SUFFICES ASSUME k + 1 <= n
                PROVE  \E h : Is(h, k + 1)
    BY <2>a
  <2>0. k \in Nat /\ k + 1 \in Nat /\ k + 1 \in 1..n /\ k <= n
    BY <1>0, <2>a
  <2>1. PICK h : Is(h, k)
    BY <2>0, <2>a
  <2>. USE DEF Is
  <2>. DEFINE g == [t \in SUBSET (1..(k + 1)) |->
                      IF k + 1 \in t
                        THEN f[<<h[t \ {k + 1}], s[k + 1]>>]
                        ELSE h[t]]
  <2>2. ASSUME NEW t \in SUBSET (1..(k + 1))
        PROVE  /\ g[t] = IF t = {} THEN base
                         ELSE f[<<g[t \ {Max(t)}], s[Max(t)]>>]
               /\ g[t] \in D
    <3>1. CASE k + 1 \in t
      <4>1. Max(t) = k + 1
        BY <2>0, <3>1, MaxIsTop
      <4>2. t \ {k + 1} \in SUBSET (1..k) /\ t \ {k + 1} \in SUBSET (1..(k + 1))
        BY <2>0, BelowTop
      <4>3. g[t] = f[<<h[t \ {k + 1}], s[k + 1]>>]
        BY <3>1
      <4>4. g[t \ {k + 1}] = h[t \ {k + 1}]
        BY <4>2
      <4>5. h[t \ {k + 1}] \in D /\ s[k + 1] \in X
        BY <1>0, <2>0, <2>1, <4>2
      <4>. HIDE DEF g
      <4>. QED
        BY <3>1, <4>1, <4>3, <4>4, <4>5
    <3>2. CASE k + 1 \notin t
      <4>1. t \in SUBSET (1..k)
        BY <2>0, <3>2, BelowTop
      <4>2. g[t] = h[t] /\ \A i : g[t \ {i}] = h[t \ {i}]
        BY <3>2
      <4>3. h[t] \in D /\ h[t] = IF t = {} THEN base
                                 ELSE f[<<h[t \ {Max(t)}], s[Max(t)]>>]
        BY <2>1, <4>1
      <4>. HIDE DEF g
      <4>. QED
        BY <4>2, <4>3
    <3>. QED
      BY <3>1, <3>2
  <2>3. Is(g, k + 1)
    BY <2>2
  <2>. QED
    BY <2>3
<1>. HIDE DEF Is
<1>3. S = Nat
  BY <1>1, <1>2, NatSetInduction
<1>4. PICK h : Is(h, n)
  BY <1>0, <1>3
<1>5. IsFold(h, f, base, s) /\ \A t \in SUBSET (DOMAIN s) : h[t] \in D
  BY <1>0, <1>4 DEF Is, IsFold
<1>. QED
  BY <1>5

(* F has the results of the fold for all sequences: one step for each      *)
(* element that is appended.                                               *)
FoldsAll(F, D, X, f, base) ==
    /\ F \in [Seq(X) -> D]
    /\ F[<<>>] = base
    /\ \A s \in Seq(X) : \A x \in X : F[Append(s, x)] = f[<<F[s], x>>]
    /\ \A s \in Seq(X) :
         \E h : /\ IsFold(h, f, base, s)
                /\ \A t \in SUBSET (DOMAIN s) : h[t] \in D
                /\ F[s] = h[DOMAIN s]

(* If the step stays in a set then there is such a function. *)
LEMMA FoldSteps ==
  ASSUME NEW D, NEW X, NEW f, \A a \in D, x \in X : f[<<a, x>>] \in D,
         NEW base \in D
  PROVE  \E F : FoldsAll(F, D, X, f, base)
<1>. DEFINE T(s) == CHOOSE h : /\ IsFold(h, f, base, s)
                               /\ \A t \in SUBSET (DOMAIN s) : h[t] \in D
            F == [s \in Seq(X) |-> T(s)[DOMAIN s]]
<1>1. ASSUME NEW s \in Seq(X)
      PROVE  /\ IsFold(T(s), f, base, s)
             /\ \A t \in SUBSET (DOMAIN s) : T(s)[t] \in D
  <2>1. \E h : /\ IsFold(h, f, base, s)
               /\ \A t \in SUBSET (DOMAIN s) : h[t] \in D
    BY FoldExists
  <2>. QED
    BY <2>1, Zenon
<1>. HIDE DEF T
<1>2. F \in [Seq(X) -> D]
  BY <1>1
<1>3. F[<<>>] = base
  <2>1. <<>> \in Seq(X) /\ DOMAIN <<>> = {}
    OBVIOUS
  <2>2. T(<<>>)[{}] = base
    BY <1>1, <2>1 DEF IsFold
  <2>. QED
    BY <2>1, <2>2
<1>4. ASSUME NEW s \in Seq(X), NEW x \in X
      PROVE  F[Append(s, x)] = f[<<F[s], x>>]
  <2>. DEFINE n == Len(s)
              u == Append(s, x)
  <2>1. /\ n \in Nat /\ n + 1 \in Nat /\ u \in Seq(X) /\ u[n + 1] = x
        /\ DOMAIN s = 1..n /\ DOMAIN u = 1..(n + 1)
        /\ \A i \in 1..n : s[i] = u[i]
        /\ n <= n + 1 /\ n + 1 \in 1..(n + 1)
    OBVIOUS
  <2>. HIDE DEF n, u
  <2>2. T(s)[1..n] = T(u)[1..n]
    <3>1. IsFold(T(s), f, base, s) /\ IsFold(T(u), f, base, u)
      BY <1>1, <2>1
    <3>2. FoldsOn(T(s), s, n, T(u), u, n + 1, f, base)
      BY <2>1, <3>1 DEF FoldsOn
    <3>. QED
      BY <3>2, FoldAgrees
  <2>3. Max(1..(n + 1)) = n + 1
    BY <2>1, MaxIsTop
  <2>4. (1..(n + 1)) \ {n + 1} = 1..n
    BY <2>1
  <2>5. T(u)[1..(n + 1)] = f[<<T(u)[1..n], x>>]
    <3>1. IsFold(T(u), f, base, u)
      BY <1>1, <2>1
    <3>2. \A t \in SUBSET (1..(n + 1)) :
            T(u)[t] = IF t = {} THEN base
                      ELSE f[<<T(u)[t \ {Max(t)}], u[Max(t)]>>]
      BY <2>1, <3>1 DEF IsFold
    <3>3. 1..(n + 1) \in SUBSET (1..(n + 1)) /\ 1..(n + 1) # {}
      BY <2>1
    <3>. QED
      BY <2>1, <2>3, <2>4, <3>2, <3>3
  <2>6. F[s] = T(s)[1..n] /\ F[u] = T(u)[1..(n + 1)]
    BY <2>1
  <2>. QED
    BY <2>2, <2>5, <2>6 DEF u
<1>5. ASSUME NEW s \in Seq(X)
      PROVE  /\ IsFold(T(s), f, base, s)
             /\ \A t \in SUBSET (DOMAIN s) : T(s)[t] \in D
             /\ F[s] = T(s)[DOMAIN s]
  BY <1>1
<1>. HIDE DEF F
<1>6. FoldsAll(F, D, X, f, base)
  BY <1>2, <1>3, <1>4, <1>5 DEF FoldsAll
<1>. QED
  BY <1>6

-----------------------------------------------------------------------------
(* The partial results of a concatenation. *)
LEMMA FlattenSteps ==
  ASSUME NEW A, NEW ss \in Seq(Seq(A))
  PROVE  \E pre \in [0..Len(ss) -> Seq(A)] :
           /\ pre[0] = <<>>
           /\ \A k \in 1..Len(ss) : pre[k] = pre[k - 1] \o ss[k]
           /\ FlattenSeq(ss) = pre[Len(ss)]
<1>. DEFINE n == Len(ss)
<1>1. n \in Nat /\ \A i \in 1..n : ss[i] \in Seq(A)
  OBVIOUS
<1>2. CASE ss = <<>>
  <2>1. n = 0
    BY <1>2
  <2>2. FlattenSeq(ss) = <<>>
    BY <1>2, <2>1 DEF FlattenSeq
  <2>. DEFINE pre == [k \in 0..0 |-> <<>>]
  <2>3. pre \in [0..n -> Seq(A)] /\ pre[0] = <<>> /\ pre[n] = <<>>
    BY <2>1
  <2>4. \A k \in 1..n : FALSE
    BY <2>1
  <2>. HIDE DEF pre
  <2>. QED
    BY <2>2, <2>3, <2>4
<1>3. CASE ss # <<>>
  <2>. DEFINE Is(h, k) == h = [i \in 1..k |-> IF i = 1 THEN ss[i]
                                              ELSE h[i - 1] \o ss[i]]
              S == {k \in Nat : \E h : Is(h, k)}
              flatten[i \in 1..Len(ss)] ==
                IF i = 1 THEN ss[i] ELSE flatten[i - 1] \o ss[i]
  <2>1. 0 \in S
    <3>1. Is([i \in 1..0 |-> <<>>], 0)
      OBVIOUS
    <3>. QED
      BY <3>1
  <2>2. ASSUME NEW k \in S
        PROVE  k + 1 \in S
    <3>1. k \in Nat /\ k + 1 \in Nat
      OBVIOUS
    <3>2. PICK h : Is(h, k)
      OBVIOUS
    <3>. DEFINE g == [i \in 1..(k + 1) |->
                        IF i = k + 1
                          THEN IF i = 1 THEN ss[i] ELSE h[i - 1] \o ss[i]
                          ELSE h[i]]
    <3>3. Is(g, k + 1)
      <4>. SUFFICES ASSUME NEW i \in 1..(k + 1)
                    PROVE  g[i] = IF i = 1 THEN ss[i] ELSE g[i - 1] \o ss[i]
        OBVIOUS
      <4>1. i # 1 => i - 1 \in 1..k /\ i - 1 # k + 1 /\ i - 1 \in 1..(k + 1)
        BY <3>1
      <4>2. CASE i = k + 1
        BY <4>1, <4>2
      <4>3. CASE i # k + 1
        <5>1. i \in 1..k
          BY <3>1, <4>3
        <5>. QED
          BY <3>2, <4>1, <4>3, <5>1
      <4>. QED
        BY <4>2, <4>3
    <3>. QED
      BY <3>1, <3>3
  <2>. HIDE DEF Is
  <2>3. S = Nat
    BY <2>1, <2>2, NatSetInduction
  <2>4. PICK h : Is(h, n)
    BY <1>1, <2>3
  <2>5. flatten = [i \in 1..n |->
                     IF i = 1 THEN ss[i] ELSE flatten[i - 1] \o ss[i]]
    BY <2>4 DEF Is
  <2>6. n # 0 /\ FlattenSeq(ss) = flatten[n]
    BY <1>1, <1>3 DEF FlattenSeq
  <2>. HIDE DEF flatten
  <2>. DEFINE pre == [k \in 0..n |-> IF k = 0 THEN <<>> ELSE flatten[k]]
              Good(k) == /\ pre[k] \in Seq(A)
                         /\ k # 0 => pre[k] = pre[k - 1] \o ss[k]
              T == {k \in Nat : k <= n => Good(k)}
  <2>7. pre[0] = <<>> /\ Good(0)
    BY <1>1
  <2>8. ASSUME NEW k \in T
        PROVE  k + 1 \in T
    <3>. HIDE DEF Good, n
    <3>1. k \in Nat /\ (k <= n => Good(k))
      OBVIOUS
    <3>. SUFFICES ASSUME k + 1 <= n
                  PROVE  Good(k + 1)
      BY <3>1
    <3>a. /\ k + 1 \in 1..n /\ k + 1 # 0 /\ (k + 1) - 1 = k
          /\ k \in 0..n /\ k + 1 \in 0..n /\ k <= n
      BY <1>1, <3>1
    <3>2. /\ k + 1 \in 1..n /\ k + 1 # 0 /\ (k + 1) - 1 = k
          /\ k \in 0..n /\ k + 1 \in 0..n /\ pre[k] \in Seq(A)
      BY <3>1, <3>a DEF Good
    <3>. USE DEF Good
    <3>3. pre[k + 1] = flatten[k + 1] /\ ss[k + 1] \in Seq(A)
      BY <1>1, <3>2
    <3>4. CASE k = 0
      <4>1. pre[k + 1] = ss[k + 1]
        BY <2>5, <3>2, <3>3, <3>4
      <4>2. pre[k] = <<>>
        BY <2>7, <3>4
      <4>3. <<>> \o ss[k + 1] = ss[k + 1]
        BY <3>3
      <4>. HIDE DEF pre
      <4>. QED
        BY <3>2, <3>3, <4>1, <4>2, <4>3
    <3>5. CASE k # 0
      <4>1. k + 1 # 1 /\ pre[k] = flatten[k]
        BY <3>2, <3>5
      <4>2. flatten[k + 1] = flatten[k] \o ss[k + 1]
        BY <2>5, <3>2, <4>1
      <4>. HIDE DEF pre
      <4>3. pre[k + 1] = pre[k] \o ss[k + 1]
        BY <3>3, <4>1, <4>2
      <4>. QED
        BY <3>2, <3>3, <4>3
    <3>. QED
      BY <3>4, <3>5
  <2>. HIDE DEF Good
  <2>9. T = Nat
    BY <2>7, <2>8, NatSetInduction
  <2>10. \A k \in 0..n : Good(k)
    BY <1>1, <2>9
  <2>11. pre \in [0..n -> Seq(A)]
    BY <2>10 DEF Good
  <2>12. \A k \in 1..n : pre[k] = pre[k - 1] \o ss[k]
    <3>1. \A k \in 1..n : k \in 0..n /\ k # 0
      BY <1>1
    <3>. HIDE DEF pre, n
    <3>. QED
      BY <2>10, <3>1 DEF Good
  <2>13. FlattenSeq(ss) = pre[n]
    BY <1>1, <2>6
  <2>. HIDE DEF pre
  <2>. QED
    BY <2>7, <2>11, <2>12, <2>13
<1>. QED
  BY <1>2, <1>3

(* The concatenation of sequences is a sequence, and at least as long as   *)
(* their number if none of them is empty.                                  *)
LEMMA FlattenRight ==
  ASSUME NEW A, NEW ss \in Seq(Seq(A))
  PROVE  /\ FlattenSeq(ss) \in Seq(A)
         /\ ss = <<>> => FlattenSeq(ss) = <<>>
         /\ (\A i \in 1..Len(ss) : ss[i] # <<>>)
              => Len(FlattenSeq(ss)) >= Len(ss)
<1>. DEFINE n == Len(ss)
<1>1. PICK pre \in [0..n -> Seq(A)] :
        /\ pre[0] = <<>>
        /\ \A k \in 1..n : pre[k] = pre[k - 1] \o ss[k]
        /\ FlattenSeq(ss) = pre[n]
  BY FlattenSteps
<1>2. n \in Nat /\ n \in 0..n /\ (ss = <<>> <=> n = 0)
  OBVIOUS
<1>a. \A i \in 1..n : ss[i] \in Seq(A)
  OBVIOUS
<1>. HIDE DEF n
<1>3. FlattenSeq(ss) \in Seq(A) /\ (ss = <<>> => FlattenSeq(ss) = <<>>)
  BY <1>1, <1>2
<1>4. ASSUME \A i \in 1..n : ss[i] # <<>>
      PROVE  Len(pre[n]) >= n
  <2>. DEFINE S == {k \in Nat : k <= n => Len(pre[k]) >= k}
  <2>1. 0 \in S
    BY <1>1
  <2>2. ASSUME NEW k \in S
        PROVE  k + 1 \in S
    <3>1. k \in Nat /\ (k <= n => Len(pre[k]) >= k)
      OBVIOUS
    <3>. SUFFICES ASSUME k + 1 <= n
                  PROVE  Len(pre[k + 1]) >= k + 1
      BY <3>1
    <3>2. k \in 0..n /\ k + 1 \in 1..n /\ (k + 1) - 1 = k /\ Len(pre[k]) >= k
      BY <1>2, <3>1
    <3>3. pre[k] \in Seq(A) /\ pre[k + 1] = pre[k] \o ss[k + 1]
      BY <1>1, <3>2
    <3>4. ss[k + 1] \in Seq(A) /\ ss[k + 1] # <<>>
      BY <1>a, <1>4, <3>2
    <3>5. Len(ss[k + 1]) >= 1
      BY <3>4
    <3>6. Len(pre[k] \o ss[k + 1]) = Len(pre[k]) + Len(ss[k + 1])
      BY <3>3, <3>4
    <3>. QED
      BY <3>1, <3>2, <3>3, <3>4, <3>5, <3>6
  <2>3. S = Nat
    BY <2>1, <2>2, NatSetInduction
  <2>4. n \in S
    BY <1>2, <2>3
  <2>. QED
    BY <1>2, <2>4
<1>. QED
  BY <1>1, <1>3, <1>4 DEF n

(* One more sequence is added at the end. *)
LEMMA FlattenAppend ==
  ASSUME NEW A, NEW ss \in Seq(Seq(A)), NEW s \in Seq(A)
  PROVE  FlattenSeq(Append(ss, s)) = FlattenSeq(ss) \o s
<1>. DEFINE n == Len(ss)
            tt == Append(ss, s)
<1>1. PICK pre \in [0..n -> Seq(A)] :
        /\ pre[0] = <<>>
        /\ \A k \in 1..n : pre[k] = pre[k - 1] \o ss[k]
        /\ FlattenSeq(ss) = pre[n]
  BY FlattenSteps
<1>2. /\ n \in Nat /\ Len(tt) = n + 1 /\ tt \in Seq(Seq(A)) /\ tt[n + 1] = s
      /\ \A k \in 1..n : tt[k] = ss[k]
  OBVIOUS
<1>. HIDE DEF tt
<1>3. PICK on \in [0..(n + 1) -> Seq(A)] :
        /\ on[0] = <<>>
        /\ \A k \in 1..(n + 1) : on[k] = on[k - 1] \o tt[k]
        /\ FlattenSeq(tt) = on[n + 1]
  <2>1. \E on \in [0..Len(tt) -> Seq(A)] :
          /\ on[0] = <<>>
          /\ \A k \in 1..Len(tt) : on[k] = on[k - 1] \o tt[k]
          /\ FlattenSeq(tt) = on[Len(tt)]
    BY <1>2, FlattenSteps
  <2>. QED
    BY <1>2, <2>1
<1>. HIDE DEF n
<1>. DEFINE S == {k \in Nat : k <= n => pre[k] = on[k]}
<1>4. 0 \in S
  BY <1>1, <1>3
<1>5. ASSUME NEW k \in S
      PROVE  k + 1 \in S
  <2>1. k \in Nat /\ (k <= n => pre[k] = on[k])
    OBVIOUS
  <2>. SUFFICES ASSUME k + 1 <= n
                PROVE  pre[k + 1] = on[k + 1]
    BY <2>1
  <2>2. /\ k + 1 \in 1..n /\ k + 1 \in 1..(n + 1) /\ (k + 1) - 1 = k
        /\ pre[k] = on[k]
    BY <1>2, <2>1
  <2>. QED
    BY <1>1, <1>2, <1>3, <2>2
<1>6. S = Nat
  BY <1>4, <1>5, NatSetInduction
<1>7. pre[n] = on[n]
  BY <1>2, <1>6
<1>8. on[n + 1] = on[n] \o s
  <2>1. n + 1 \in 1..(n + 1) /\ (n + 1) - 1 = n
    BY <1>2
  <2>. QED
    BY <1>2, <1>3, <2>1
<1>. QED
  BY <1>1, <1>3, <1>7, <1>8 DEF tt, n

(* The order in which lists are put in a row does not matter. *)
LEMMA RowAssociative ==
  ASSUME NEW A
  PROVE  \A r, s, t \in Seq(A) : (r \o s) \o t = r \o (s \o t)
<1>. TAKE r, s, t \in Seq(A)
<1>. QED
  BY ConcatAssociative

(* A longer list starts like the shorter one. *)
LEMMA AppendStart ==
  ASSUME NEW A, NEW s \in Seq(A), NEW x \in A
  PROVE  /\ Append(s, x) # <<>>
         /\ s # <<>> => Append(s, x)[1] = s[1]
<1>1. Len(Append(s, x)) = Len(s) + 1 /\ Len(s) \in Nat
  OBVIOUS
<1>2. Append(s, x) # <<>>
  BY <1>1
<1>3. ASSUME s # <<>>
      PROVE  Append(s, x)[1] = s[1]
  <2>1. 1 \in 1..Len(s)
    BY <1>3
  <2>. QED
    BY <2>1
<1>. QED
  BY <1>2, <1>3

-----------------------------------------------------------------------------
Distinct(s) == \A i, j \in DOMAIN s : s[i] = s[j] => i = j

(* The length of a list without repeats is the number of its elements. *)
LEMMA DistinctCounts ==
  ASSUME NEW A, NEW s \in Seq(A), Distinct(s)
  PROVE  Cardinality(ToSet(s)) = Len(s)
<1>1. Len(s) \in Nat /\ DOMAIN s = 1..Len(s)
  OBVIOUS
<1>2. s \in Bijection(1..Len(s), ToSet(s))
  BY <1>1 DEF Bijection, Injection, Surjection, IsInjective, Distinct, ToSet
<1>. QED
  BY <1>1, <1>2, FS_CountingElements DEF ExistsBijection

(* The elements of two lists in a row; without repeats, if neither has one *)
(* and they have nothing in common.                                        *)
LEMMA ConcatElements ==
  ASSUME NEW A, NEW s \in Seq(A), NEW t \in Seq(A)
  PROVE  /\ ToSet(s \o t) = ToSet(s) \cup ToSet(t)
         /\ Distinct(s) /\ Distinct(t) /\ ToSet(s) \cap ToSet(t) = {}
              => Distinct(s \o t)
<1>. DEFINE m == Len(s)
            n == Len(t)
            c == s \o t
<1>1. /\ m \in Nat /\ n \in Nat
      /\ DOMAIN s = 1..m /\ DOMAIN t = 1..n /\ DOMAIN c = 1..(m + n)
      /\ \A k \in 1..m : c[k] = s[k]
      /\ \A k \in (m + 1)..(m + n) : c[k] = t[k - m]
  OBVIOUS
<1>. HIDE DEF m, n, c
<1>2. /\ \A k \in 1..(m + n) : k \in 1..m \/ (k \in (m + 1)..(m + n) /\ k - m \in 1..n)
      /\ \A k \in 1..m : k \in 1..(m + n)
      /\ \A k \in 1..n : m + k \in (m + 1)..(m + n) /\ m + k \in 1..(m + n)
                           /\ (m + k) - m = k
      /\ \A j, k \in 1..(m + n) : j - m = k - m => j = k
  BY <1>1
<1>3. \A k \in 1..(m + n) : c[k] \in ToSet(s) \cup ToSet(t)
  <2>. TAKE k \in 1..(m + n)
  <2>1. CASE k \in 1..m
    BY <1>1, <2>1 DEF ToSet
  <2>2. CASE k \in (m + 1)..(m + n) /\ k - m \in 1..n
    BY <1>1, <2>2 DEF ToSet
  <2>. QED
    BY <1>2, <2>1, <2>2
<1>4. \A k \in 1..m : s[k] \in ToSet(c)
  BY <1>1, <1>2 DEF ToSet
<1>5. \A k \in 1..n : t[k] \in ToSet(c)
  <2>. TAKE k \in 1..n
  <2>1. m + k \in 1..(m + n) /\ c[m + k] = t[k]
    BY <1>1, <1>2
  <2>. QED
    BY <1>1, <2>1 DEF ToSet
<1>6. ToSet(c) = ToSet(s) \cup ToSet(t)
  <2>1. \A y \in ToSet(c) : y \in ToSet(s) \cup ToSet(t)
    BY <1>1, <1>3, Zenon DEF ToSet
  <2>2. \A y \in ToSet(s) : y \in ToSet(c)
    BY <1>1, <1>4, Zenon DEF ToSet
  <2>3. \A y \in ToSet(t) : y \in ToSet(c)
    BY <1>1, <1>5, Zenon DEF ToSet
  <2>. QED
    BY <2>1, <2>2, <2>3, Zenon
<1>7. ASSUME Distinct(s), Distinct(t), ToSet(s) \cap ToSet(t) = {}
      PROVE  Distinct(c)
  <2>1. ASSUME NEW j \in 1..m, NEW k \in 1..n
        PROVE  s[j] # t[k]
    <3>1. s[j] \in ToSet(s) /\ t[k] \in ToSet(t)
      BY <1>1 DEF ToSet
    <3>. QED
      BY <1>7, <3>1
  <2>2. /\ \A j, k \in 1..m : s[j] = s[k] => j = k
        /\ \A j, k \in 1..n : t[j] = t[k] => j = k
    BY <1>1, <1>7 DEF Distinct
  <2>. SUFFICES ASSUME NEW j \in 1..(m + n), NEW k \in 1..(m + n), c[j] = c[k]
                PROVE  j = k
    BY <1>1 DEF Distinct
  <2>3. CASE j \in 1..m /\ k \in 1..m
    BY <1>1, <2>2, <2>3
  <2>4. CASE j \in 1..m /\ k \in (m + 1)..(m + n) /\ k - m \in 1..n
    BY <1>1, <2>1, <2>4
  <2>5. CASE k \in 1..m /\ j \in (m + 1)..(m + n) /\ j - m \in 1..n
    BY <1>1, <2>1, <2>5
  <2>6. CASE /\ j \in (m + 1)..(m + n) /\ j - m \in 1..n
             /\ k \in (m + 1)..(m + n) /\ k - m \in 1..n
    <3>1. j - m = k - m
      BY <1>1, <2>2, <2>6
    <3>. QED
      BY <1>2, <3>1
  <2>. QED
    BY <1>2, <2>3, <2>4, <2>5, <2>6
<1>. QED
  BY <1>6, <1>7 DEF c

(* Putting lists in a row keeps their elements. *)
LEMMA FlattenElements ==
  ASSUME NEW A, NEW ss \in Seq(Seq(A))
  PROVE  \A y : y \in ToSet(FlattenSeq(ss))
                  <=> \E k \in DOMAIN ss : y \in ToSet(ss[k])
<1>. DEFINE Keeps(r) == \A y : y \in ToSet(FlattenSeq(r))
                                <=> \E k \in DOMAIN r : y \in ToSet(r[k])
            S == {r \in Seq(Seq(A)) : Keeps(r)}
<1>1. <<>> \in S
  <2>1. <<>> \in Seq(Seq(A))
    OBVIOUS
  <2>2. FlattenSeq(<<>>) = <<>>
    BY <2>1, FlattenRight
  <2>3. ToSet(<<>>) = {} /\ DOMAIN <<>> = {}
    BY DEF ToSet
  <2>4. Keeps(<<>>)
    BY <2>2, <2>3
  <2>. HIDE DEF Keeps
  <2>. QED
    BY <2>1, <2>4
<1>2. ASSUME NEW r \in S, NEW x \in Seq(A)
      PROVE  Append(r, x) \in S
  <2>. DEFINE n == Len(r)
              next == Append(r, x)
  <2>1. r \in Seq(Seq(A)) /\ Keeps(r)
    OBVIOUS
  <2>2. /\ next \in Seq(Seq(A)) /\ n \in Nat
        /\ DOMAIN r = 1..n /\ DOMAIN next = 1..(n + 1)
        /\ \A k \in 1..n : next[k] = r[k]
        /\ next[n + 1] = x
    BY <2>1
  <2>3. FlattenSeq(r) \in Seq(A) /\ FlattenSeq(next) = FlattenSeq(r) \o x
    BY <2>1, FlattenRight, FlattenAppend
  <2>4. ToSet(FlattenSeq(next)) = ToSet(FlattenSeq(r)) \cup ToSet(x)
    BY <2>3, ConcatElements
  <2>. HIDE DEF n, next
  <2>5. \A k \in 1..(n + 1) : k \in 1..n \/ k = n + 1
    BY <2>2
  <2>6. n + 1 \in 1..(n + 1) /\ \A k \in 1..n : k \in 1..(n + 1)
    BY <2>2
  <2>7. \A y : (\E k \in 1..(n + 1) : y \in ToSet(next[k]))
                <=> (\E k \in 1..n : y \in ToSet(r[k])) \/ y \in ToSet(x)
    BY <2>2, <2>5, <2>6
  <2>8. Keeps(next)
    <3>1. \A y : y \in ToSet(FlattenSeq(r)) <=> \E k \in 1..n : y \in ToSet(r[k])
      BY <2>1, <2>2
    <3>. QED
      BY <2>2, <2>4, <2>7, <3>1, Zenon
  <2>. HIDE DEF Keeps
  <2>. QED
    BY <2>2, <2>8 DEF next
<1>3. S = Seq(Seq(A))
  BY <1>1, <1>2, SeqSetInduction
<1>. QED
  BY <1>3

-----------------------------------------------------------------------------
(* The positions of a sequence in a strict total order have the ranks 0 to *)
(* n - 1, each once.  The order is given as a set of pairs; a use of       *)
(* StableSort takes for it the pairs of positions that it counts.          *)

StrictTotalOrder(R, S) ==
    /\ \A i \in S : <<i, i>> \notin R
    /\ \A i, j, k \in S : <<i, j>> \in R /\ <<j, k>> \in R => <<i, k>> \in R
    /\ \A i, j \in S : i = j \/ <<i, j>> \in R \/ <<j, i>> \in R

Below(R, S, j) == {k \in S : <<k, j>> \in R}

(* Smaller means a smaller rank. *)
LEMMA RankOrders ==
  ASSUME NEW n \in Nat, NEW R, StrictTotalOrder(R, 1..n),
         NEW i \in 1..n, NEW j \in 1..n
  PROVE  /\ Cardinality(Below(R, 1..n, i)) \in 0..(n - 1)
         /\ Cardinality(Below(R, 1..n, i)) < Cardinality(Below(R, 1..n, j))
              <=> <<i, j>> \in R
<1>. DEFINE B(k) == Below(R, 1..n, k)
<1>1. IsFiniteSet(1..n) /\ Cardinality(1..n) = n
  BY FS_Interval
<1>2. ASSUME NEW k \in 1..n
      PROVE  IsFiniteSet(B(k)) /\ Cardinality(B(k)) \in 0..(n - 1)
  <2>1. /\ IsFiniteSet((1..n) \ {k})
        /\ Cardinality((1..n) \ {k}) = n - 1
    BY <1>1, FS_RemoveElement
  <2>2. B(k) \in SUBSET ((1..n) \ {k})
    BY DEF Below, StrictTotalOrder
  <2>3. IsFiniteSet(B(k)) /\ Cardinality(B(k)) <= n - 1
    BY <2>1, <2>2, FS_Subset
  <2>. QED
    BY <2>3, FS_CardinalityType
<1>3. ASSUME NEW k \in 1..n, NEW l \in 1..n, <<k, l>> \in R
      PROVE  Cardinality(B(k)) < Cardinality(B(l))
  <2>1. B(k) \in SUBSET B(l)
    BY <1>3 DEF Below, StrictTotalOrder
  <2>2. k \in B(l) /\ k \notin B(k)
    BY <1>3 DEF Below, StrictTotalOrder
  <2>3. /\ Cardinality(B(k)) <= Cardinality(B(l))
        /\ Cardinality(B(l)) = Cardinality(B(k)) => B(l) = B(k)
    BY <1>2, <2>1, FS_Subset
  <2>. QED
    BY <1>2, <2>2, <2>3
<1>4. Cardinality(B(i)) \in 0..(n - 1) /\ Cardinality(B(j)) \in 0..(n - 1)
  BY <1>2
<1>5. <<i, j>> \in R => Cardinality(B(i)) < Cardinality(B(j))
  BY <1>3
<1>6. <<j, i>> \in R => Cardinality(B(j)) < Cardinality(B(i))
  BY <1>3
<1>7. i = j \/ <<i, j>> \in R \/ <<j, i>> \in R
  BY DEF StrictTotalOrder
<1>8. i = j => <<i, j>> \notin R
  BY DEF StrictTotalOrder
<1>. HIDE DEF B
<1>9. /\ Cardinality(B(i)) \in 0..(n - 1)
      /\ Cardinality(B(i)) < Cardinality(B(j)) <=> <<i, j>> \in R
  BY <1>4, <1>5, <1>6, <1>7, <1>8
<1>. QED
  BY <1>9 DEF B

(* Every rank is somebody's. *)
LEMMA RankExists ==
  ASSUME NEW n \in Nat, NEW R, StrictTotalOrder(R, 1..n), NEW i \in 1..n
  PROVE  \E j \in 1..n : Cardinality(Below(R, 1..n, j)) = i - 1
<1>. DEFINE f == [j \in 1..n |-> Cardinality(Below(R, 1..n, j))]
<1>1. f \in [1..n -> 0..(n - 1)]
  BY RankOrders
<1>2. ASSUME NEW j \in 1..n, NEW k \in 1..n, f[j] = f[k]
      PROVE  j = k
  <2>1. /\ f[j] < f[k] <=> <<j, k>> \in R
        /\ f[k] < f[j] <=> <<k, j>> \in R
    BY RankOrders
  <2>2. f[j] \in Int
    BY <1>1
  <2>3. <<j, k>> \notin R /\ <<k, j>> \notin R
    BY <1>2, <2>1, <2>2
  <2>. QED
    BY <2>3 DEF StrictTotalOrder
<1>3. f \in Injection(1..n, 0..(n - 1))
  BY <1>1, <1>2 DEF Injection, IsInjective
<1>4. /\ IsFiniteSet(0..(n - 1)) /\ Cardinality(0..(n - 1)) = n
      /\ Cardinality(1..n) = n
  BY FS_Interval
<1>5. f \in Surjection(1..n, 0..(n - 1))
  BY <1>3, <1>4, FS_Injection
<1>6. i - 1 \in 0..(n - 1)
  OBVIOUS
<1>7. PICK j \in 1..n : f[j] = i - 1
  BY <1>5, <1>6 DEF Surjection
<1>. QED
  BY <1>7

(* A strict order in which being of the same key is transitive too. *)
StrictWeakOrder(R, S) ==
    /\ \A i \in S : <<i, i>> \notin R
    /\ \A i, j, k \in S : <<i, j>> \in R /\ <<j, k>> \in R => <<i, k>> \in R
    /\ \A i, j, k \in S :
         <<i, j>> \notin R /\ <<j, k>> \notin R => <<i, k>> \notin R

(* The order of an integer key is one. *)
LEMMA KeyOrder ==
  ASSUME NEW S, NEW key, \A i \in S : key[i] \in Int,
         NEW R, \A i, j \in S : <<i, j>> \in R <=> key[i] < key[j]
  PROVE  StrictWeakOrder(R, S)
<1>1. \A i \in S : <<i, i>> \notin R
  OBVIOUS
<1>2. ASSUME NEW i \in S, NEW j \in S, NEW k \in S
      PROVE  /\ <<i, j>> \in R /\ <<j, k>> \in R => <<i, k>> \in R
             /\ <<i, j>> \notin R /\ <<j, k>> \notin R => <<i, k>> \notin R
  OBVIOUS
<1>. QED
  BY <1>1, <1>2 DEF StrictWeakOrder

(* StableSort rearranges a sequence so that nothing comes after something  *)
(* of a larger key.                                                        *)
LEMMA StableSortSorts ==
  ASSUME NEW s, NEW n \in Nat, DOMAIN s = 1..n,
         NEW smaller, StrictWeakOrder(smaller, 1..n)
  PROVE  \E pos \in [1..n -> 1..n] :
           /\ StableSort(s, smaller) = [i \in 1..n |-> s[pos[i]]]
           /\ \A i, j \in 1..n : pos[i] = pos[j] => i = j
           /\ \A j \in 1..n : \E i \in 1..n : pos[i] = j
           /\ \A i, j \in 1..n : i < j => <<pos[j], pos[i]>> \notin smaller
<1>. DEFINE R == {p \in (1..n) \X (1..n) : Precedes(smaller, p[1], p[2])}
            B(j) == {k \in DOMAIN s : Precedes(smaller, k, j)}
            at(i) == CHOOSE j \in DOMAIN s : Cardinality(B(j)) = i - 1
            pos == [i \in 1..n |-> at(i)]
<1>1. \A i, j \in 1..n : <<i, j>> \in R <=> Precedes(smaller, i, j)
  OBVIOUS
<1>2. StrictTotalOrder(R, 1..n)
  <2>. HIDE DEF R
  <2>1. \A i \in 1..n : ~Precedes(smaller, i, i)
    <3>1. \A i \in 1..n : <<i, i>> \notin smaller
      BY Zenon DEF StrictWeakOrder
    <3>2. \A i \in 1..n : ~(i < i)
      OBVIOUS
    <3>. QED
      BY <3>1, <3>2, Zenon DEF Precedes
  <2>2. \A i, j, k \in 1..n : Precedes(smaller, i, j) /\ Precedes(smaller, j, k)
                                => Precedes(smaller, i, k)
    BY DEF Precedes, StrictWeakOrder
  <2>3. \A i, j \in 1..n :
          i = j \/ Precedes(smaller, i, j) \/ Precedes(smaller, j, i)
    BY DEF Precedes
  <2>. QED
    BY <1>1, <2>1, <2>2, <2>3 DEF StrictTotalOrder
<1>3. \A j \in 1..n : B(j) = Below(R, 1..n, j)
  BY DEF Below
<1>. HIDE DEF R
<1>4. StableSort(s, smaller) = [i \in 1..n |-> s[pos[i]]]
  BY DEF StableSort
<1>5. ASSUME NEW i \in 1..n
      PROVE  at(i) \in 1..n /\ Cardinality(Below(R, 1..n, at(i))) = i - 1
  <2>1. \E j \in 1..n : Cardinality(Below(R, 1..n, j)) = i - 1
    BY <1>2, RankExists
  <2>2. \E j \in DOMAIN s : Cardinality(B(j)) = i - 1
    BY <1>3, <2>1
  <2>. HIDE DEF B
  <2>3. at(i) \in DOMAIN s /\ Cardinality(B(at(i))) = i - 1
    BY <2>2, Zenon
  <2>. QED
    BY <1>3, <2>3
<1>. HIDE DEF at
<1>6. /\ pos \in [1..n -> 1..n]
      /\ \A i \in 1..n : Cardinality(Below(R, 1..n, pos[i])) = i - 1
  BY <1>5
<1>. HIDE DEF pos
<1>. DEFINE r(j) == Cardinality(Below(R, 1..n, j))
<1>7. ASSUME NEW i \in 1..n, NEW j \in 1..n
      PROVE  r(i) \in 0..(n - 1) /\ (r(i) < r(j) <=> <<i, j>> \in R)
  BY <1>2, RankOrders
<1>8. \A i \in 1..n : pos[i] \in 1..n /\ r(pos[i]) = i - 1
  BY <1>6
<1>. HIDE DEF r
<1>9. ASSUME NEW i \in 1..n, NEW j \in 1..n, i < j
      PROVE  <<pos[j], pos[i]>> \notin smaller
  <2>1. /\ pos[i] \in 1..n /\ pos[j] \in 1..n
        /\ r(pos[i]) = i - 1 /\ r(pos[j]) = j - 1
    BY <1>8
  <2>2. ~(r(pos[j]) < r(pos[i]))
    BY <1>9, <2>1
  <2>3. <<pos[j], pos[i]>> \notin R
    BY <1>7, <2>1, <2>2
  <2>. QED
    BY <1>1, <2>1, <2>3 DEF Precedes
<1>10. ASSUME NEW i \in 1..n, NEW j \in 1..n, pos[i] = pos[j]
       PROVE  i = j
  <2>1. i - 1 = j - 1
    BY <1>8, <1>10, Zenon
  <2>. QED
    BY <2>1
<1>11. ASSUME NEW j \in 1..n
       PROVE  \E i \in 1..n : pos[i] = j
  <2>1. r(j) \in 0..(n - 1)
    BY <1>7
  <2>2. PICK i \in 1..n : i - 1 = r(j)
    <3>1. \A m \in 0..(n - 1) : m + 1 \in 1..n /\ (m + 1) - 1 = m
      OBVIOUS
    <3>. QED
      BY <2>1, <3>1
  <2>3. pos[i] \in 1..n /\ r(pos[i]) = r(j)
    BY <1>8, <2>2
  <2>4. r(pos[i]) \in Int /\ r(j) \in Int
    BY <2>1, <2>3
  <2>5. <<pos[i], j>> \notin R /\ <<j, pos[i]>> \notin R
    BY <1>7, <2>3, <2>4
  <2>. QED
    BY <1>2, <2>3, <2>5 DEF StrictTotalOrder
<1>. QED
  BY <1>4, <1>6, <1>9, <1>10, <1>11
=============================================================================
