------------------------------ MODULE Induction ------------------------------
(***************************************************************************)
(* Induction over data, with sets in the place of predicates, so that its  *)
(* theorems can be instantiated by first-order provers: what holds of a    *)
(* set's members up to a number holds of all, and recursive functions      *)
(* exist.                                                                  *)
(***************************************************************************)
EXTENDS Selection, SequencesExt, SequenceTheorems, FiniteSetTheorems,
        WellFoundedInduction, TLAPS

\* A non-empty set of natural numbers has a least element, which is Min.
LEMMA MinIsLeast ==
    ASSUME NEW S \in SUBSET Nat, S # {}
    PROVE  Min(S) \in S /\ \A y \in S : Min(S) <= y
  <1>1. PICK x \in S : \A y \in S : ~(<<y, x>> \in OpToRel(<, Nat))
    BY NatLessThanWellFounded, WFMin, Zenon
  <1>2. ASSUME NEW y \in S PROVE x <= y
    <2>1. x \in Nat /\ y \in Nat
      OBVIOUS
    <2>2. y < x => <<y, x>> \in OpToRel(<, Nat)
      BY <2>1 DEF OpToRel
    <2>3. ~(y < x)
      BY <1>1, <2>2, Zenon
    <2>4. QED  BY <2>1, <2>3
  <1>3. QED
    BY <1>2 DEF Min

\* The smaller of two numbers.
LEMMA MinOfTwo ==
    ASSUME NEW a \in Nat, NEW b \in Nat
    PROVE  Min({a, b}) = IF a <= b THEN a ELSE b
  <1>1. {a, b} \in SUBSET Nat /\ {a, b} # {}
    OBVIOUS
  <1>2. Min({a, b}) \in {a, b} /\ \A y \in {a, b} : Min({a, b}) <= y
    BY <1>1, MinIsLeast
  <1> DEFINE m == Min({a, b})
  <1>3. (m = a \/ m = b) /\ m <= a /\ m <= b
    BY <1>2
  <1> HIDE DEF m
  <1>4. m = IF a <= b THEN a ELSE b
    BY <1>3
  <1>5. QED  BY <1>4 DEF m

\* Ordinary induction: a set with 0 and the successors of its members.
LEMMA NaturalsAreIn ==
    ASSUME NEW S, 0 \in S, \A n \in Nat : n \in S => n + 1 \in S
    PROVE  Nat \subseteq S
  <1> DEFINE T == Nat \ S
  <1> SUFFICES ASSUME T # {} PROVE FALSE
    OBVIOUS
  <1>1. Min(T) \in T /\ \A y \in T : Min(T) <= y
    BY MinIsLeast
  <1> DEFINE m == Min(T)
  <1>2. m \in Nat /\ m # 0 /\ m \notin S /\ \A y \in T : m <= y
    BY <1>1
  <1> HIDE DEF m
  <1>3. m - 1 \in Nat /\ m - 1 \notin T
    BY <1>2
  <1>4. m - 1 \in S /\ (m - 1) + 1 = m
    BY <1>2, <1>3
  <1>5. QED
    BY <1>2, <1>3, <1>4

\* A largest element, of a set with an upper bound.
LEMMA MaxIsGreatest ==
    ASSUME NEW S \in SUBSET Nat, S # {}, NEW n \in Nat, \A y \in S : y <= n
    PROVE  Max(S) \in S /\ \A y \in S : y <= Max(S)
  <1> DEFINE T == {n - y : y \in S}
  <1>1. T \in SUBSET Nat /\ T # {}
    <2>1. \A y \in S : n - y \in Nat
      OBVIOUS
    <2>2. QED  BY <2>1
  <1>2. Min(T) \in T /\ \A d \in T : Min(T) <= d
    BY <1>1, MinIsLeast
  <1>3. PICK x \in S : Min(T) = n - x
    BY <1>2
  <1>4. \A y \in S : y <= x
    BY <1>2, <1>3
  <1>5. QED
    BY <1>4 DEF Max

\* step gives the value at a point from the values at the others: in V for
\* values in V, and the same whenever the values at the points of a smaller
\* rank are the same.
StepsDown(D, V, rank, step) ==
    /\ V # {}
    /\ step \in [D -> [[D -> V] -> V]]
    /\ \E N \in Nat : rank \in [D -> 0..N]
    /\ \A q \in D : \A f, g \in [D -> V] :
          (\A r \in D : rank[r] < rank[q] => f[r] = g[r])
              => step[q][f] = step[q][g]

\* Then there is a function with these values: a recursive definition over a
\* bounded rank has a solution.
LEMMA Recursion ==
    ASSUME NEW D, NEW V, NEW rank, NEW step, StepsDown(D, V, rank, step)
    PROVE  \E f \in [D -> V] : f = [q \in D |-> step[q][f]]
  <1> DEFINE Upto(f, n) == \A q \in D : rank[q] < n => f[q] = step[q][f]
             S == {n \in Nat : \E f \in [D -> V] : Upto(f, n)}
  <1> USE DEF StepsDown
  <1> PICK N \in Nat : rank \in [D -> 0..N]
    OBVIOUS
  <1>1. 0 \in S
    <2>1. PICK v \in V : TRUE
      OBVIOUS
    <2>2. [q \in D |-> v] \in [D -> V] /\ Upto([q \in D |-> v], 0)
      BY <2>1
    <2>3. QED  BY <2>2
  <1>2. ASSUME NEW n \in Nat, n \in S
        PROVE  n + 1 \in S
    <2>1. PICK f \in [D -> V] : Upto(f, n)
      BY <1>2
    <2> DEFINE g == [q \in D |-> IF rank[q] < n THEN f[q] ELSE step[q][f]]
    <2>2. g \in [D -> V]
      OBVIOUS
    <2>3. ASSUME NEW q \in D, rank[q] < n + 1
          PROVE  g[q] = step[q][g]
      <3>1. g[q] = step[q][f]
        BY <2>1
      <3>2. \A r \in D : rank[r] < rank[q] => f[r] = g[r]
        BY <2>3
      <3>3. step[q][f] = step[q][g]
        BY <2>2, <3>2
      <3>4. QED  BY <3>1, <3>3
    <2>4. Upto(g, n + 1)
      BY <2>3
    <2> HIDE DEF g
    <2>5. QED  BY <2>2, <2>4
  <1> HIDE DEF S
  <1>3. Nat \subseteq S
    BY <1>1, <1>2, NaturalsAreIn
  <1>4. N + 1 \in S
    BY <1>3
  <1> USE DEF S
  <1>5. PICK f \in [D -> V] : Upto(f, N + 1)
    BY <1>4
  <1>6. \A q \in D : f[q] = step[q][f]
    BY <1>5
  <1>7. QED
    BY <1>6

\* Induction over sequences that grow at their end.
LEMMA SequencesAreIn ==
    ASSUME NEW X, NEW Q, <<>> \in Q,
           \A s \in Seq(X), x \in X : s \in Q => Append(s, x) \in Q
    PROVE  Seq(X) \subseteq Q
  <1> DEFINE S == {n \in Nat : \A s \in Seq(X) : Len(s) = n => s \in Q}
  <1>1. 0 \in S
    BY EmptySeq
  <1>2. ASSUME NEW n \in Nat, n \in S
        PROVE  n + 1 \in S
    <2> SUFFICES ASSUME NEW s \in Seq(X), Len(s) = n + 1
                 PROVE  s \in Q
      OBVIOUS
    <2> DEFINE t == SubSeq(s, 1, n)
    <2>1. s # <<>>
      BY EmptySeq
    <2>2. PICK t0 \in Seq(X), x \in X : s = Append(t0, x)
      <3>1. /\ SubSeq(s, 1, Len(s) - 1) \in Seq(X)
            /\ s = Append(SubSeq(s, 1, Len(s) - 1), s[Len(s)])
        BY <2>1, AppendProperties, SubSeqProperties, ElementOfSeq
      <3>2. s[Len(s)] \in X
        BY ElementOfSeq
      <3>3. QED  BY <3>1, <3>2
    <2>3. Len(t0) = n
      BY <2>2, AppendProperties
    <2>4. QED  BY <1>2, <2>2, <2>3
  <1> HIDE DEF S
  <1>3. Nat \subseteq S
    BY <1>1, <1>2, NaturalsAreIn
  <1> USE DEF S
  <1>4. QED
    BY <1>3, LenProperties

-----------------------------------------------------------------------------
\* Keep, element after element.

\* What the recursive function in Keep satisfies.
IsKept(s, S, kept) ==
    kept = [n \in 0..Len(s) |->
              IF n = 0 THEN <<>>
              ELSE IF s[n] \in S THEN Append(kept[n - 1], s[n])
              ELSE kept[n - 1]]

\* Keep chooses one that does.
LEMMA KeepIs ==
    ASSUME NEW s, NEW S
    PROVE  Keep(s, S) = (CHOOSE kept : IsKept(s, S, kept))[Len(s)]
  BY DEF Keep, IsKept

\* There is one.
LEMMA KeptExists ==
    ASSUME NEW X, NEW s \in Seq(X), NEW S
    PROVE  \E kept \in [0..Len(s) -> Seq(X)] : IsKept(s, S, kept)
  <1> DEFINE N == Len(s)
             D == 0..N
             V == Seq(X)
             rank == [n \in D |-> n]
             body(n, f) == IF n = 0 THEN <<>>
                           ELSE IF s[n] \in S THEN Append(f[n - 1], s[n])
                           ELSE f[n - 1]
             step == [n \in D |-> [f \in [D -> V] |-> body(n, f)]]
  <1>1. N \in Nat
    OBVIOUS
  <1>2. \A n \in D : n # 0 => n - 1 \in D /\ n \in 1..N /\ n - 1 < n
    BY <1>1
  <1>3. rank \in [D -> 0..N]
    OBVIOUS
  <1>4. ASSUME NEW n \in D, NEW f \in [D -> V]
        PROVE  body(n, f) \in V
    <2>1. CASE n = 0
      BY <2>1, EmptySeq
    <2>2. CASE n # 0
      <3>1. s[n] \in X /\ f[n - 1] \in V
        BY <1>2, <2>2, ElementOfSeq
      <3>2. Append(f[n - 1], s[n]) \in V
        BY <3>1, AppendProperties
      <3>3. QED  BY <2>2, <3>1, <3>2
    <2>3. QED  BY <2>1, <2>2
  <1>5. step \in [D -> [[D -> V] -> V]]
    BY <1>4
  <1>6. ASSUME NEW q \in D, NEW f \in [D -> V], NEW g \in [D -> V],
               \A r \in D : rank[r] < rank[q] => f[r] = g[r]
        PROVE  step[q][f] = step[q][g]
    <2>1. q # 0 => f[q - 1] = g[q - 1]
      BY <1>2, <1>6
    <2>2. body(q, f) = body(q, g)
      BY <2>1
    <2>3. QED  BY <2>2
  <1>7. StepsDown(D, V, rank, step)
    <2>1. V # {}
      BY EmptySeq
    <2>2. QED  BY <1>1, <1>3, <1>5, <1>6, <2>1 DEF StepsDown
  <1>8. \E f \in [D -> V] : f = [q \in D |-> step[q][f]]
    <2> HIDE DEF D, V, N, rank, step
    <2>1. QED  BY <1>7, Recursion
  <1>9. PICK f \in [D -> V] : f = [q \in D |-> step[q][f]]
    BY <1>8
  <1>10. f = [q \in D |-> body(q, f)]
    BY <1>9
  <1>11. QED  BY <1>10 DEF IsKept

\* The value of Keep is the last value of such a function.
LEMMA KeepSteps ==
    ASSUME NEW X, NEW s \in Seq(X), NEW S
    PROVE  \E kept \in [0..Len(s) -> Seq(X)] :
              IsKept(s, S, kept) /\ Keep(s, S) = kept[Len(s)]
  <1> DEFINE k == CHOOSE kept : IsKept(s, S, kept)
  <1>1. PICK a \in [0..Len(s) -> Seq(X)] : IsKept(s, S, a)
    BY KeptExists
  <1>2. IsKept(s, S, k) /\ Keep(s, S) = k[Len(s)]
    BY <1>1, KeepIs
  <1> HIDE DEF k
  <1> DEFINE Q == {n \in Nat : n <= Len(s) => k[n] = a[n]}
  <1>3. Len(s) \in Nat
    OBVIOUS
  <1>4. 0 \in Q
    BY <1>1, <1>2, <1>3 DEF IsKept
  <1>5. ASSUME NEW n \in Nat, n \in Q PROVE n + 1 \in Q
    <2> SUFFICES ASSUME n + 1 <= Len(s) PROVE k[n + 1] = a[n + 1]
      OBVIOUS
    <2>1. n + 1 \in 0..Len(s) /\ n + 1 # 0 /\ (n + 1) - 1 = n /\ n <= Len(s)
      BY <1>3
    <2>2. k[n] = a[n]
      BY <1>5, <2>1
    <2>3. k[n + 1] = IF s[n + 1] \in S THEN Append(k[n], s[n + 1]) ELSE k[n]
      BY <1>2, <2>1 DEF IsKept
    <2>4. a[n + 1] = IF s[n + 1] \in S THEN Append(a[n], s[n + 1]) ELSE a[n]
      BY <1>1, <2>1 DEF IsKept
    <2>5. QED  BY <2>2, <2>3, <2>4
  <1> HIDE DEF Q
  <1>6. Nat \subseteq Q
    BY <1>4, <1>5, NaturalsAreIn
  <1>7. \A n \in 0..Len(s) : k[n] = a[n]
    BY <1>3, <1>6 DEF Q
  <1>8. k = [n \in 0..Len(s) |-> k[n]]
    BY <1>2 DEF IsKept
  <1>9. k = a
    BY <1>7, <1>8
  <1>10. QED  BY <1>1, <1>2, <1>9

\* What is kept is a sequence of the same kind.
LEMMA KeepIsSeq ==
    ASSUME NEW X, NEW s \in Seq(X), NEW S
    PROVE  Keep(s, S) \in Seq(X)
  <1>1. PICK kept \in [0..Len(s) -> Seq(X)] : Keep(s, S) = kept[Len(s)]
    BY KeepSteps
  <1>2. Len(s) \in 0..Len(s)
    BY LenProperties
  <1>3. QED  BY <1>1, <1>2

\* Keep of the empty sequence, and of a sequence with one more element.
LEMMA KeepAppend ==
    ASSUME NEW X, NEW s \in Seq(X), NEW x \in X, NEW S
    PROVE  /\ Keep(<<>>, S) = <<>>
           /\ Keep(s, S) \in Seq(X)
           /\ Keep(Append(s, x), S) = IF x \in S THEN Append(Keep(s, S), x)
                                                 ELSE Keep(s, S)
  <1> DEFINE t == Append(s, x)
             l == Len(s)
  <1>1. Keep(<<>>, S) = <<>>
    <2>1. <<>> \in Seq(X) /\ Len(<<>>) = 0
      BY EmptySeq
    <2>2. PICK k \in [0..Len(<<>>) -> Seq(X)] :
                IsKept(<<>>, S, k) /\ Keep(<<>>, S) = k[Len(<<>>)]
      BY <2>1, KeepSteps
    <2>3. QED  BY <2>1, <2>2 DEF IsKept
  <1>2. /\ l \in Nat /\ t \in Seq(X) /\ Len(t) = l + 1
        /\ \A i \in 1..l : t[i] = s[i]
        /\ t[l + 1] = x
    BY LenProperties, AppendProperties
  <1>3. PICK k \in [0..Len(s) -> Seq(X)] :
                IsKept(s, S, k) /\ Keep(s, S) = k[Len(s)]
    BY KeepSteps
  <1> HIDE DEF t
  <1>4. PICK j \in [0..Len(t) -> Seq(X)] :
                IsKept(t, S, j) /\ Keep(t, S) = j[Len(t)]
    BY <1>2, KeepSteps
  <1> DEFINE Q == {n \in Nat : n <= l => j[n] = k[n]}
  <1>5. 0 \in Q
    BY <1>2, <1>3, <1>4 DEF IsKept
  <1>6. ASSUME NEW n \in Nat, n \in Q PROVE n + 1 \in Q
    <2> SUFFICES ASSUME n + 1 <= l PROVE j[n + 1] = k[n + 1]
      OBVIOUS
    <2>1. /\ n + 1 \in 0..Len(s) /\ n + 1 \in 0..Len(t) /\ n + 1 \in 1..l
          /\ n + 1 # 0 /\ (n + 1) - 1 = n /\ n <= l
      BY <1>2
    <2>2. j[n] = k[n] /\ t[n + 1] = s[n + 1]
      BY <1>2, <1>6, <2>1
    <2>3. j[n + 1] = IF t[n + 1] \in S THEN Append(j[n], t[n + 1]) ELSE j[n]
      BY <1>4, <2>1 DEF IsKept
    <2>4. k[n + 1] = IF s[n + 1] \in S THEN Append(k[n], s[n + 1]) ELSE k[n]
      BY <1>3, <2>1 DEF IsKept
    <2>5. QED  BY <2>2, <2>3, <2>4
  <1> HIDE DEF Q
  <1>7. Nat \subseteq Q
    BY <1>5, <1>6, NaturalsAreIn
  <1>8. j[l] = k[l]
    BY <1>2, <1>7 DEF Q
  <1>9. l + 1 \in 0..Len(t) /\ l + 1 # 0 /\ (l + 1) - 1 = l /\ l \in 0..Len(s)
    BY <1>2
  <1>10. j[l + 1] = IF t[l + 1] \in S THEN Append(j[l], t[l + 1]) ELSE j[l]
    BY <1>4, <1>9 DEF IsKept
  <1>11. Keep(t, S) = IF x \in S THEN Append(Keep(s, S), x) ELSE Keep(s, S)
    BY <1>2, <1>3, <1>4, <1>8, <1>10
  <1>12. Keep(s, S) \in Seq(X)
    BY <1>3, <1>9
  <1>13. QED  BY <1>1, <1>11, <1>12 DEF t

\* The elements of a sequence with one more.
LEMMA ToSetAppend ==
    ASSUME NEW X, NEW s \in Seq(X), NEW x \in X
    PROVE  ToSet(<<>>) = {} /\ ToSet(Append(s, x)) = ToSet(s) \cup {x}
  <1> DEFINE t == Append(s, x)
             l == Len(s)
  <1>1. /\ l \in Nat /\ DOMAIN s = 1..l /\ DOMAIN t = 1..(l + 1)
        /\ \A i \in 1..l : t[i] = s[i]
        /\ t[l + 1] = x
    BY AppendProperties, LenProperties
  <1> HIDE DEF t, l
  <1>2. ToSet(t) = {t[i] : i \in 1..(l + 1)} /\ ToSet(s) = {s[i] : i \in 1..l}
    BY <1>1 DEF ToSet
  <1>3. 1..(l + 1) = (1..l) \cup {l + 1}
    BY <1>1
  <1>4. ToSet(t) = ToSet(s) \cup {x}
    BY <1>1, <1>2, <1>3
  <1>5. ToSet(<<>>) = {}
    BY DEF ToSet
  <1>6. QED  BY <1>4, <1>5 DEF t

\* The elements of two sequences one behind the other.
LEMMA ToSetConcat ==
    ASSUME NEW X, NEW s \in Seq(X), NEW t \in Seq(X)
    PROVE  ToSet(s \o t) = ToSet(s) \cup ToSet(t)
  <1> DEFINE u == s \o t
             l == Len(s)
             m == Len(t)
  <1>1. /\ l \in Nat /\ m \in Nat /\ DOMAIN s = 1..l /\ DOMAIN t = 1..m
        /\ DOMAIN u = 1..(l + m)
        /\ \A i \in 1..(l + m) : u[i] = IF i <= l THEN s[i] ELSE t[i - l]
    BY ConcatProperties, LenProperties
  <1> HIDE DEF u, l, m
  <1>2. /\ ToSet(u) = {u[i] : i \in 1..(l + m)}
        /\ ToSet(s) = {s[i] : i \in 1..l} /\ ToSet(t) = {t[i] : i \in 1..m}
    BY <1>1 DEF ToSet
  <1>3. ASSUME NEW x \in ToSet(u) PROVE x \in ToSet(s) \cup ToSet(t)
    <2>1. PICK i \in 1..(l + m) : x = u[i]
      BY <1>2, <1>3
    <2>2. i > l => i - l \in 1..m
      BY <1>1
    <2>3. QED  BY <1>1, <1>2, <2>1, <2>2
  <1>4. ASSUME NEW i \in 1..l PROVE s[i] \in ToSet(u)
    <2>1. i \in 1..(l + m) /\ u[i] = s[i]
      BY <1>1
    <2>2. QED  BY <1>2, <2>1
  <1>5. ASSUME NEW i \in 1..m PROVE t[i] \in ToSet(u)
    <2>1. l + i \in 1..(l + m) /\ ~(l + i <= l) /\ (l + i) - l = i
      BY <1>1
    <2>2. u[l + i] = t[i]
      BY <1>1, <2>1
    <2>3. QED  BY <1>2, <2>1, <2>2
  <1>6. ToSet(u) = ToSet(s) \cup ToSet(t)
    BY <1>2, <1>3, <1>4, <1>5
  <1>7. QED  BY <1>6 DEF u

\* Nothing of nothing.
LEMMA KeepNothing ==
    ASSUME NEW S
    PROVE  Keep(<<>>, S) = <<>>
  <1>1. <<>> \in Seq({0}) /\ 0 \in {0}
    BY EmptySeq
  <1>2. QED  BY <1>1, KeepAppend

\* An element behind the second of two sequences.
LEMMA AppendBehind ==
    ASSUME NEW X, NEW s \in Seq(X), NEW t \in Seq(X), NEW x \in X
    PROVE  s \o Append(t, x) = Append(s \o t, x)
  <1>1. <<x>> \in Seq(X) /\ s \o t \in Seq(X)
    BY ConcatProperties
  <1>2. Append(t, x) = t \o <<x>> /\ Append(s \o t, x) = (s \o t) \o <<x>>
    BY <1>1, AppendIsConcat
  <1>3. (s \o t) \o <<x>> = s \o (t \o <<x>>)
    BY <1>1, ConcatAssociative
  <1>4. QED  BY <1>2, <1>3, Zenon

\* What is kept are the elements in the set.
LEMMA KeepElements ==
    ASSUME NEW X, NEW s \in Seq(X), NEW S
    PROVE  ToSet(Keep(s, S)) = ToSet(s) \cap S
  <1> DEFINE Q == {r \in Seq(X) : ToSet(Keep(r, S)) = ToSet(r) \cap S}
  <1>1. <<>> \in Q
    <2>1. <<>> \in Seq(X) /\ ToSet(<<>>) = {}
      BY EmptySeq DEF ToSet
    <2>2. Keep(<<>>, S) = <<>>
      BY KeepNothing
    <2>3. QED  BY <2>1, <2>2
  <1>2. ASSUME NEW r \in Seq(X), NEW x \in X, r \in Q
        PROVE  Append(r, x) \in Q
    <2> DEFINE k == Keep(r, S)
    <2>1. /\ k \in Seq(X) /\ Append(r, x) \in Seq(X)
          /\ Keep(Append(r, x), S) = IF x \in S THEN Append(k, x) ELSE k
          /\ ToSet(k) = ToSet(r) \cap S
      BY <1>2, KeepAppend, AppendProperties
    <2> HIDE DEF k
    <2>2. /\ ToSet(Append(r, x)) = ToSet(r) \cup {x}
          /\ ToSet(Append(k, x)) = ToSet(k) \cup {x}
      BY <2>1, ToSetAppend
    <2>3. QED  BY <2>1, <2>2
  <1> HIDE DEF Q
  <1>3. Seq(X) \subseteq Q
    BY <1>1, <1>2, SequencesAreIn
  <1>4. QED  BY <1>3 DEF Q

\* Only the elements of the sequence count in the set.
LEMMA KeepAgree ==
    ASSUME NEW X, NEW s \in Seq(X), NEW S, NEW T,
           ToSet(s) \cap S = ToSet(s) \cap T
    PROVE  Keep(s, S) = Keep(s, T)
  <1> DEFINE Q == {r \in Seq(X) : ToSet(r) \cap S = ToSet(r) \cap T
                                      => Keep(r, S) = Keep(r, T)}
  <1>1. <<>> \in Q
    BY EmptySeq, KeepNothing
  <1>2. ASSUME NEW r \in Seq(X), NEW x \in X, r \in Q
        PROVE  Append(r, x) \in Q
    <2>1. Append(r, x) \in Seq(X) /\ ToSet(Append(r, x)) = ToSet(r) \cup {x}
      BY ToSetAppend, AppendProperties
    <2>2. Keep(Append(r, x), S) = IF x \in S THEN Append(Keep(r, S), x) ELSE Keep(r, S)
      BY KeepAppend
    <2>3. Keep(Append(r, x), T) = IF x \in T THEN Append(Keep(r, T), x) ELSE Keep(r, T)
      BY KeepAppend
    <2>4. ASSUME ToSet(Append(r, x)) \cap S = ToSet(Append(r, x)) \cap T
          PROVE  Keep(Append(r, x), S) = Keep(Append(r, x), T)
      <3>1. ToSet(r) \cap S = ToSet(r) \cap T /\ (x \in S <=> x \in T)
        BY <2>1, <2>4
      <3>2. Keep(r, S) = Keep(r, T)
        BY <1>2, <3>1
      <3>3. QED  BY <2>2, <2>3, <3>1, <3>2
    <2>5. QED  BY <2>1, <2>4
  <1> HIDE DEF Q
  <1>3. Seq(X) \subseteq Q
    BY <1>1, <1>2, SequencesAreIn
  <1>4. QED  BY <1>3 DEF Q

\* Nothing is kept of a sequence that has nothing in the set.
LEMMA KeepNone ==
    ASSUME NEW X, NEW s \in Seq(X), NEW S, ToSet(s) \cap S = {}
    PROVE  Keep(s, S) = <<>>
  <1> DEFINE Q == {r \in Seq(X) : Keep(r, {}) = <<>>}
  <1>1. <<>> \in Q
    BY EmptySeq, KeepNothing
  <1>2. ASSUME NEW r \in Seq(X), NEW x \in X, r \in Q
        PROVE  Append(r, x) \in Q
    BY <1>2, KeepAppend, AppendProperties
  <1> HIDE DEF Q
  <1>3. Seq(X) \subseteq Q
    BY <1>1, <1>2, SequencesAreIn
  <1>4. Keep(s, {}) = <<>>
    BY <1>3 DEF Q
  <1>5. ToSet(s) \cap S = ToSet(s) \cap {}
    OBVIOUS
  <1>6. QED  BY <1>4, <1>5, KeepAgree

\* Keeping part after part.
LEMMA KeepConcat ==
    ASSUME NEW X, NEW s \in Seq(X), NEW t \in Seq(X), NEW S
    PROVE  Keep(s \o t, S) = Keep(s, S) \o Keep(t, S)
  <1>0. \A q \in Seq(X), x \in X :
            Keep(Append(q, x), S) = IF x \in S THEN Append(Keep(q, S), x) ELSE Keep(q, S)
    <2> TAKE q \in Seq(X), x \in X
    <2> QED  BY KeepAppend
  <1> DEFINE Q == {r \in Seq(X) : Keep(s \o r, S) = Keep(s, S) \o Keep(r, S)}
             a == Keep(s, S)
  <1>1. a \in Seq(X)
    BY KeepAppend
  <1>2. <<>> \in Q
    <2>1. s \o <<>> = s /\ a \o <<>> = a /\ <<>> \in Seq(X)
      BY <1>1, ConcatEmptySeq, EmptySeq
    <2>2. QED  BY <2>1, KeepNothing
  <1> HIDE DEF a
  <1>3. ASSUME NEW r \in Seq(X), NEW x \in X, r \in Q
        PROVE  Append(r, x) \in Q
    <2> DEFINE b == Keep(r, S)
    <2>1. b \in Seq(X) /\ Append(r, x) \in Seq(X)
      BY KeepAppend, AppendProperties
    <2> DEFINE k == Keep(Append(r, x), S)
    <2>8. k = IF x \in S THEN Append(b, x) ELSE b
      BY <1>0
    <2>2. s \o r \in Seq(X) /\ Keep(s \o r, S) = a \o b
      BY <1>3, ConcatProperties DEF a
    <2>3. s \o Append(r, x) = Append(s \o r, x)
      BY AppendBehind
    <2> HIDE DEF b
    <2>4. a \o Append(b, x) = Append(a \o b, x)
      BY <1>1, <2>1, AppendBehind
    <2> DEFINE u == s \o r
    <2>5. Keep(Append(u, x), S) = IF x \in S THEN Append(Keep(u, S), x) ELSE Keep(u, S)
      <3>1. u \in Seq(X)
        BY <2>2
      <3> HIDE DEF u
      <3>2. QED  BY <1>0, <3>1
    <2> HIDE DEF k
    <2>6. Keep(s \o Append(r, x), S) = a \o k
      BY <2>2, <2>3, <2>4, <2>5, <2>8
    <2>7. QED  BY <2>1, <2>6 DEF a, k
  <1> HIDE DEF Q
  <1>4. Seq(X) \subseteq Q
    BY <1>2, <1>3, SequencesAreIn
  <1>5. QED  BY <1>4 DEF Q, a

\* Keeping twice.
LEMMA KeepTwice ==
    ASSUME NEW X, NEW s \in Seq(X), NEW S, NEW T
    PROVE  Keep(Keep(s, S), T) = Keep(s, S \cap T)
  <1> DEFINE Q == {r \in Seq(X) : Keep(Keep(r, S), T) = Keep(r, S \cap T)}
  <1>1. <<>> \in Q
    BY EmptySeq, KeepNothing
  <1>2. ASSUME NEW r \in Seq(X), NEW x \in X, r \in Q
        PROVE  Append(r, x) \in Q
    <2> DEFINE k == Keep(r, S)
    <2>1. k \in Seq(X) /\ Append(r, x) \in Seq(X)
      BY KeepAppend, AppendProperties
    <2>2. Keep(Append(r, x), S) = IF x \in S THEN Append(k, x) ELSE k
      BY KeepAppend
    <2> DEFINE V == S \cap T
    <2>3. Keep(k, T) = Keep(r, V)
      BY <1>2
    <2>4. x \in V <=> x \in S /\ x \in T
      OBVIOUS
    <2> HIDE DEF k, V
    <2>5. Keep(Append(r, x), V) = IF x \in V THEN Append(Keep(r, V), x) ELSE Keep(r, V)
      BY KeepAppend
    <2>6. Keep(Append(k, x), T) = IF x \in T THEN Append(Keep(k, T), x) ELSE Keep(k, T)
      BY <2>1, KeepAppend
    <2>7. Keep(Keep(Append(r, x), S), T) = Keep(Append(r, x), V)
      BY <2>2, <2>3, <2>4, <2>5, <2>6
    <2>8. QED  BY <2>1, <2>7 DEF V
  <1> HIDE DEF Q
  <1>3. Seq(X) \subseteq Q
    BY <1>1, <1>2, SequencesAreIn
  <1>4. QED  BY <1>3 DEF Q

-----------------------------------------------------------------------------
\* The elements of a finite set, one after the other.
LEMMA SetToSeqLists ==
    ASSUME NEW S, IsFiniteSet(S)
    PROVE  /\ SetToSeq(S) \in Seq(S)
           /\ Len(SetToSeq(S)) = Cardinality(S)
           /\ DOMAIN SetToSeq(S) = 1..Cardinality(S)
           /\ \A x \in S : \E i \in 1..Cardinality(S) : SetToSeq(S)[i] = x
  <1> DEFINE n == Cardinality(S)
             F == [1..n -> S]
             f == SetToSeq(S)
  <1>1. n \in Nat /\ ExistsBijection(1..n, S)
    BY FS_CardinalityType
  <1>2. \E g \in F : IsInjective(g)
    <2>1. PICK g \in Bijection(1..n, S) : TRUE
      BY <1>1 DEF ExistsBijection
    <2>2. g \in F /\ \A a, b \in 1..n : g[a] = g[b] => a = b
      BY <2>1 DEF Bijection, Injection, IsInjective
    <2>3. QED  BY <2>2 DEF IsInjective
  <1>3. f \in F /\ IsInjective(f)
    BY <1>2 DEF SetToSeq
  <1> HIDE DEF f
  <1>4. f \in Injection(1..n, S)
    BY <1>3 DEF IsInjective, Injection
  <1>5. f \in Surjection(1..n, S)
    <2>1. IsFiniteSet(1..n) /\ Cardinality(1..n) = n
      BY <1>1, FS_Interval
    <2>2. QED  BY <1>1, <1>4, <2>1, FS_Injection
  <1>6. f \in Seq(S) /\ DOMAIN f = 1..n /\ Len(f) = n
    BY <1>1, <1>3
  <1>7. \A x \in S : \E i \in 1..n : f[i] = x
    BY <1>5 DEF Surjection
  <1>8. QED
    BY <1>6, <1>7 DEF f

\* What FirstIn finds.
LEMMA FirstInIs ==
    ASSUME NEW X, NEW s \in Seq(X), NEW S
    PROVE  /\ FirstIn(s, S) \in 0..Len(s)
           /\ FirstIn(s, S) # 0 => s[FirstIn(s, S)] \in S
           /\ \A i \in 1..Len(s) :
                 s[i] \in S => FirstIn(s, S) # 0 /\ FirstIn(s, S) <= i
  <1> DEFINE I == {i \in 1..Len(s) : s[i] \in S}
  <1>1. Len(s) \in Nat /\ I \in SUBSET Nat
    BY LenProperties
  <1>2. FirstIn(s, S) = IF I # {} THEN Min(I) ELSE 0
    BY DEF FirstIn, SelectInSeq
  <1>3. I # {} => Min(I) \in I /\ \A i \in I : Min(I) <= i
    BY <1>1, MinIsLeast
  <1>4. CASE I = {}
    BY <1>1, <1>2, <1>4
  <1>5. CASE I # {}
    <2> DEFINE m == Min(I)
    <2>1. m \in I /\ FirstIn(s, S) = m /\ \A i \in I : m <= i
      BY <1>2, <1>3, <1>5
    <2> HIDE DEF m
    <2>2. QED  BY <1>1, <2>1
  <1>6. QED  BY <1>4, <1>5

\* A sequence of one element, by a name: the provers do not instantiate facts
\* about sequences with tuples.
One(x) == <<x>>

LEMMA OneIs ==
    ASSUME NEW X, NEW x \in X
    PROVE  One(x) \in Seq(X) /\ ToSet(One(x)) = {x}
  BY DEF One, ToSet

\* Its selection.
LEMMA KeepOne ==
    ASSUME NEW X, NEW x \in X, NEW S, x \in S
    PROVE  Keep(One(x), S) = One(x)
  <1>1. <<>> \in Seq(X) /\ Append(<<>>, x) = One(x)
    BY EmptySeq DEF One
  <1>2. /\ Keep(<<>>, S) = <<>>
        /\ Keep(Append(<<>>, x), S) = Append(Keep(<<>>, S), x)
    BY <1>1, KeepAppend
  <1>3. QED  BY <1>1, <1>2

\* The first element of s that is in S is x, between a and b.
Cut(X, s, S, a, x, b) ==
    /\ a \in Seq(X) /\ x \in X /\ b \in Seq(X) /\ s = (a \o One(x)) \o b
    /\ x \in S /\ ToSet(a) \cap S = {}

\* Then it is found there.
LEMMA FirstInParts ==
    ASSUME NEW X, NEW s, NEW S, NEW a, NEW x, NEW b, Cut(X, s, S, a, x, b)
    PROVE  /\ FirstIn(s, S) = Len(a) + 1
           /\ SubSeq(s, 1, Len(a)) = a
           /\ SubSeq(s, Len(a) + 2, Len(s)) = b
           /\ SubSeq(s, Len(a) + 1, Len(s)) = One(x) \o b
  <1> USE DEF Cut, One
  <1> DEFINE l == Len(a)
             m == Len(b)
             c == <<x>> \o b
  <1>1. /\ l \in Nat /\ m \in Nat /\ <<x>> \in Seq(X) /\ a \o <<x>> \in Seq(X)
        /\ Len(a \o <<x>>) = l + 1 /\ (a \o <<x>>)[l + 1] = x
        /\ \A i \in 1..l : (a \o <<x>>)[i] = a[i]
    BY LenProperties, ConcatProperties
  <1>2. /\ s \in Seq(X) /\ Len(s) = l + 1 + m /\ s[l + 1] = x
        /\ \A i \in 1..l : s[i] = a[i]
        /\ \A i \in 1..m : s[l + 1 + i] = b[i]
    BY <1>1, ConcatProperties
  <1>3. FirstIn(s, S) = l + 1
    <2>1. /\ FirstIn(s, S) \in 0..Len(s)
          /\ FirstIn(s, S) # 0 => s[FirstIn(s, S)] \in S
          /\ \A i \in 1..Len(s) :
                s[i] \in S => FirstIn(s, S) # 0 /\ FirstIn(s, S) <= i
      BY <1>2, FirstInIs
    <2>2. \A i \in 1..l : s[i] \notin S
      <3>1. DOMAIN a = 1..l
        BY LenProperties
      <3>2. QED  BY <1>2, <3>1 DEF ToSet
    <2>3. QED  BY <1>1, <1>2, <2>1, <2>2
  <1>4. SubSeq(s, 1, l) = a
    <2>1. \A i \in 1..l : s[i] \in X
      BY <1>2, ElementOfSeq
    <2>2. /\ SubSeq(s, 1, l) \in Seq(X) /\ Len(SubSeq(s, 1, l)) = l
          /\ \A i \in 1..l : SubSeq(s, 1, l)[i] = s[i]
      BY <1>1, <2>1, SubSeqProperties
    <2>3. QED  BY <1>2, <2>2, SeqEqual
  <1>5. SubSeq(s, l + 2, Len(s)) = b
    <2>1. \A i \in (l + 2)..Len(s) : s[i] \in X
      BY <1>1, <1>2, ElementOfSeq
    <2> DEFINE t == SubSeq(s, l + 2, Len(s))
    <2>2. /\ t \in Seq(X) /\ Len(t) = m
          /\ \A i \in 1..m : t[i] = s[l + 1 + i]
      BY <1>1, <1>2, <2>1, SubSeqProperties
    <2>3. QED  BY <1>2, <2>2, SeqEqual
  <1>6. SubSeq(s, l + 1, Len(s)) = c
    <2>1. l + 1 \in 1..Len(s) /\ Len(s) \in (l + 1)..Len(s)
      BY <1>1, <1>2
    <2>2. SubSeq(s, l + 1, Len(s)) = <<s[l + 1]>> \o SubSeq(s, l + 1 + 1, Len(s))
      BY <1>2, <2>1, SubSeqRecursiveFirst
    <2>3. l + 1 + 1 = l + 2
      BY <1>1
    <2>4. QED  BY <1>2, <1>5, <2>2, <2>3
  <1>7. QED  BY <1>3, <1>4, <1>5, <1>6

\* A sequence with an element of S has a first one.
LEMMA SplitFirst ==
    ASSUME NEW X, NEW s \in Seq(X), NEW S, ToSet(s) \cap S # {}
    PROVE  \E a, x, b : Cut(X, s, S, a, x, b)
  <1> DEFINE n == FirstIn(s, S)
             l == Len(s)
             a == SubSeq(s, 1, n - 1)
             b == SubSeq(s, n + 1, l)
  <1>1. l \in Nat /\ DOMAIN s = 1..l /\ \A i \in 1..l : s[i] \in X
    BY LenProperties, ElementOfSeq
  <1>2. PICK i \in 1..l : s[i] \in S
    BY <1>1 DEF ToSet
  <1>3. /\ n \in 1..l /\ s[n] \in S
        /\ \A j \in 1..l : s[j] \in S => n <= j
    BY <1>1, <1>2, FirstInIs
  <1> HIDE DEF n
  <1>4. /\ a \in Seq(X) /\ Len(a) = n - 1
        /\ \A j \in 1..(n - 1) : a[j] = s[j]
    <2>1. \A j \in 1..(n - 1) : s[j] \in X
      BY <1>1, <1>3
    <2>2. QED  BY <1>3, <2>1, SubSeqProperties
  <1>5. b \in Seq(X)
    <2>1. \A j \in (n + 1)..l : s[j] \in X
      BY <1>1, <1>3
    <2>2. QED  BY <1>1, <1>3, <2>1, SubSeqProperties
  <1>6. ToSet(a) \cap S = {}
    <2>1. DOMAIN a = 1..(n - 1)
      BY <1>4, LenProperties
    <2>2. \A j \in 1..(n - 1) : a[j] \notin S
      BY <1>1, <1>3, <1>4
    <2>3. QED  BY <2>1, <2>2 DEF ToSet
  <1>7. s = (a \o <<s[n]>>) \o b
    <2>1. SubSeq(s, 1, n) = a \o <<s[n]>>
      <3>1. 1 \in 1..l /\ n \in 1..l
        BY <1>1, <1>3
      <3>2. QED  BY <1>3, <3>1, SubSeqRecursiveSecond
    <2>2. SubSeq(s, 1, n) \o SubSeq(s, n + 1, l) = SubSeq(s, 1, l)
      <3>1. /\ 1 \in 1..(Len(s) + 1) /\ n \in (1 - 1)..Len(s)
            /\ Len(s) \in n..Len(s)
        BY <1>1, <1>3
      <3>2. QED  BY <3>1, ConcatAdjacentSubSeq
    <2>3. SubSeq(s, 1, l) = s
      BY SubSeqFull
    <2>4. /\ SubSeq(s, 1, n) = a \o <<s[n]>>
          /\ SubSeq(s, 1, n) \o b = s
      BY <2>1, <2>2, <2>3
    <2> HIDE DEF a, b
    <2>5. QED  BY <2>4
  <1> HIDE DEF a, b
  <1>8. Cut(X, s, S, a, s[n], b)
    BY <1>1, <1>3, <1>4, <1>5, <1>6, <1>7 DEF Cut, One
  <1>9. QED  BY <1>8
=============================================================================
