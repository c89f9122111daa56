--------------------------- MODULE HostRouterProofs ---------------------------
(***************************************************************************)
(* Proofs about the host matcher, for all hosts, patterns and bounds.      *)
(*                                                                         *)
(* The reference definition Covers is restated with cuts of the host; the  *)
(* recursive functions TrieLookup, DpMatches and StarCount are unfolded    *)
(* with lemma Recursion of Induction; for every class, the test of its     *)
(* structure is shown to be Covers on the patterns of the class; and an    *)
(* inductive invariant says that the structures hold the configured        *)
(* patterns.                                                               *)
(***************************************************************************)
EXTENDS HostRouter, Induction, FiniteSetTheorems, TLAPS

-----------------------------------------------------------------------------
\* What it is to cover a host: a cut of the host into one piece per label.

\* Hosts and patterns have at least one label.
Labels == Seq(STRING) \ {<<>>}

\* c cuts the host into the pieces of the first labels of the pattern.
Cuts(p, h, n, c) ==
    /\ c \in [0..n -> 0..Len(h)]
    /\ c[0] = 0
    /\ \A i \in 1..n : IF p[i] = "**" THEN c[i - 1] <= c[i]
                       ELSE c[i] = c[i - 1] + 1 /\ p[i] \in {"*", h[c[i]]}

\* A cut of the whole host covers it.
LEMMA CoversByCuts ==
    ASSUME NEW p \in Labels, NEW h \in Labels, NEW c, Cuts(p, h, Len(p), c),
           c[Len(p)] = Len(h)
    PROVE  Covers(p, h)
  <1> DEFINE inner == [i \in 1..(Len(p) - 1) |-> c[i]]
             cut(i) == IF i = 0 THEN 0
                       ELSE IF i = Len(p) THEN Len(h) ELSE inner[i]
  <1>1. Len(p) \in Nat /\ Len(h) \in Nat /\ Len(p) # 0 /\ DOMAIN p = 1..Len(p)
    BY EmptySeq, LenProperties DEF Labels
  <1>2. inner \in [1..(Len(p) - 1) -> 0..Len(h)]
    BY <1>1 DEF Cuts
  <1>3. ASSUME NEW i \in 0..Len(p)
        PROVE  cut(i) = c[i]
    <2>1. i = 0 \/ i = Len(p) \/ i \in 1..(Len(p) - 1)
      <3>1. \A n \in Nat : \A j \in 0..n : j = 0 \/ j = n \/ j \in 1..(n - 1)
        OBVIOUS
      <3>2. QED  BY <1>1, <3>1
    <2>2. CASE i = 0
      BY <2>2 DEF Cuts
    <2>3. CASE i # 0 /\ i = Len(p)
      BY <2>3 DEF Cuts
    <2>4. CASE i # 0 /\ i # Len(p)
      <3>1. inner[i] = c[i]
        BY <2>1, <2>4
      <3>2. QED  BY <2>4, <3>1
    <2>5. QED  BY <2>2, <2>3, <2>4
  <1> HIDE DEF cut
  <1>4. ASSUME NEW i \in DOMAIN p
        PROVE  IF p[i] = "**" THEN cut(i - 1) <= cut(i)
               ELSE /\ cut(i) = cut(i - 1) + 1
                    /\ p[i] \in {"*", h[cut(i)]}
    <2>1. i \in 1..Len(p) /\ i \in 0..Len(p) /\ i - 1 \in 0..Len(p)
      BY <1>1
    <2>2. cut(i) = c[i] /\ cut(i - 1) = c[i - 1]
      BY <1>3, <2>1
    <2>3. QED  BY <2>1, <2>2 DEF Cuts
  <1> HIDE DEF inner
  <1>5. QED
    BY <1>2, <1>4, SMTT(30) DEF Covers, cut

\* A pattern that is not a catch-all covers a host by a cut of it.
LEMMA CoversHasCuts ==
    ASSUME NEW p \in Labels, NEW h \in Labels, Covers(p, h), ~IsCatchAll(p)
    PROVE  \E c : Cuts(p, h, Len(p), c) /\ c[Len(p)] = Len(h)
  <1>1. PICK inner \in [1..(Len(p) - 1) -> 0..Len(h)] :
          LET cut(i) == IF i = 0 THEN 0
                        ELSE IF i = Len(p) THEN Len(h) ELSE inner[i]
          IN  \A i \in DOMAIN p :
                 IF p[i] = "**" THEN cut(i - 1) <= cut(i)
                 ELSE /\ cut(i) = cut(i - 1) + 1
                      /\ p[i] \in {"*", h[cut(i)]}
    BY DEF Covers
  <1> DEFINE cut(i) == IF i = 0 THEN 0
                       ELSE IF i = Len(p) THEN Len(h) ELSE inner[i]
             c == [i \in 0..Len(p) |-> cut(i)]
  <1>2. Len(p) \in Nat /\ Len(h) \in Nat /\ Len(p) # 0 /\ DOMAIN p = 1..Len(p)
    BY EmptySeq, LenProperties DEF Labels
  <1>3. c \in [0..Len(p) -> 0..Len(h)] /\ c[0] = 0 /\ c[Len(p)] = Len(h)
    BY <1>2
  <1>4. \A i \in DOMAIN p :
                 IF p[i] = "**" THEN cut(i - 1) <= cut(i)
                 ELSE /\ cut(i) = cut(i - 1) + 1
                      /\ p[i] \in {"*", h[cut(i)]}
    BY <1>1
  <1> HIDE DEF cut
  <1>5. ASSUME NEW i \in 1..Len(p)
        PROVE  IF p[i] = "**" THEN c[i - 1] <= c[i]
               ELSE c[i] = c[i - 1] + 1 /\ p[i] \in {"*", h[c[i]]}
    <2>1. i \in DOMAIN p /\ i \in 0..Len(p) /\ i - 1 \in 0..Len(p)
      BY <1>2
    <2>2. QED  BY <1>4, <2>1
  <1>6. Cuts(p, h, Len(p), c)
    BY <1>3, <1>5 DEF Cuts
  <1>7. QED  BY <1>3, <1>6

\* A host with one label for every label of the pattern.
LEMMA CoversLabelwise ==
    ASSUME NEW p \in Labels, NEW h \in Labels, Len(p) = Len(h),
           \A i \in 1..Len(p) : p[i] \in {"*", "**", h[i]}
    PROVE  Covers(p, h)
  <1> DEFINE c == [i \in 0..Len(p) |-> i]
  <1>1. Len(p) \in Nat
    BY LenProperties DEF Labels
  <1>2. Cuts(p, h, Len(p), c) /\ c[Len(p)] = Len(h)
    BY <1>1 DEF Cuts
  <1>3. QED  BY <1>2, CoversByCuts

\* A pattern that is literal but for the "**" at position k.
LEMMA CoversAround ==
    ASSUME NEW p \in Labels, NEW h \in Labels, NEW k \in 1..Len(p),
           p[k] = "**", Len(p) - 1 <= Len(h),
           \A i \in 1..(k - 1) : p[i] = h[i],
           \A i \in (k + 1)..Len(p) : p[i] = h[i + Len(h) - Len(p)]
    PROVE  Covers(p, h)
  <1> DEFINE c == [i \in 0..Len(p) |-> IF i < k THEN i
                                       ELSE i + Len(h) - Len(p)]
  <1>1. Len(p) \in Nat /\ Len(h) \in Nat
    BY LenProperties DEF Labels
  <1>2. c \in [0..Len(p) -> 0..Len(h)] /\ c[0] = 0 /\ c[Len(p)] = Len(h)
    BY <1>1
  <1>3. ASSUME NEW i \in 1..Len(p)
        PROVE  IF p[i] = "**" THEN c[i - 1] <= c[i]
               ELSE c[i] = c[i - 1] + 1 /\ p[i] \in {"*", h[c[i]]}
    <2>1. CASE i < k
      BY <1>1, <2>1
    <2>2. CASE i = k
      BY <1>1, <2>2
    <2>3. CASE i > k
      BY <1>1, <2>3
    <2>4. QED  BY <1>1, <2>1, <2>2, <2>3
  <1>4. Cuts(p, h, Len(p), c)
    BY <1>2, <1>3 DEF Cuts
  <1>5. QED  BY <1>2, <1>4, CoversByCuts

-----------------------------------------------------------------------------
\* The helpers on sequences and maps.

\* A part of a sequence, position by position.
LEMMA PartOf ==
    ASSUME NEW X, NEW s \in Seq(X), NEW m \in Nat \ {0}, NEW n \in Nat,
           n <= Len(s), m <= n + 1
    PROVE  /\ SubSeq(s, m, n) \in Seq(X)
           /\ Len(SubSeq(s, m, n)) = n + 1 - m
           /\ \A i \in 1..(n + 1 - m) : SubSeq(s, m, n)[i] = s[m + i - 1]
  <1>1. \A i \in m..n : s[i] \in X
    <2> TAKE i \in m..n
    <2>1. i \in 1..Len(s)
      OBVIOUS
    <2>2. QED  BY <2>1, ElementOfSeq
  <1>2. m \in Int /\ n \in Int /\ n - m + 1 = n + 1 - m
    OBVIOUS
  <1>3. /\ SubSeq(s, m, n) \in Seq(X)
        /\ Len(SubSeq(s, m, n)) = IF m <= n THEN n - m + 1 ELSE 0
        /\ \A i \in 1..(n - m + 1) : SubSeq(s, m, n)[i] = s[m + i - 1]
    BY <1>1, <1>2, SubSeqProperties
  <1>4. (IF m <= n THEN n - m + 1 ELSE 0) = n + 1 - m
    OBVIOUS
  <1>5. QED  BY <1>2, <1>3, <1>4

\* A prefix, label by label.
LEMMA PrefixIs ==
    ASSUME NEW X, NEW s \in Seq(X), NEW t \in Seq(X)
    PROVE  IsPrefix(s, t) <=>
              /\ Len(s) <= Len(t)
              /\ \A i \in 1..Len(s) : s[i] = t[i]
  <1> DEFINE l == Len(s)
             a == SubSeq(s, 1, l)
             b == SubSeq(t, 1, l)
  <1> SUFFICES ASSUME l <= Len(t)
               PROVE  a = b <=> \A i \in 1..l : s[i] = t[i]
    BY DEF IsPrefix
  <1>1. l \in Nat /\ Len(t) \in Nat
    BY LenProperties
  <1>2. /\ a \in Seq(X) /\ Len(a) = l
        /\ \A i \in 1..l : a[i] = s[i]
    <2>1. /\ a \in Seq(X) /\ Len(a) = l + 1 - 1
          /\ \A i \in 1..(l + 1 - 1) : a[i] = s[1 + i - 1]
      BY <1>1, PartOf
    <2>2. l + 1 - 1 = l /\ \A i \in 1..l : 1 + i - 1 = i
      BY <1>1
    <2>3. QED  BY <2>1, <2>2
  <1>3. /\ b \in Seq(X) /\ Len(b) = l
        /\ \A i \in 1..l : b[i] = t[i]
    <2>1. /\ b \in Seq(X) /\ Len(b) = l + 1 - 1
          /\ \A i \in 1..(l + 1 - 1) : b[i] = t[1 + i - 1]
      BY <1>1, PartOf
    <2>2. l + 1 - 1 = l /\ \A i \in 1..l : 1 + i - 1 = i
      BY <1>1
    <2>3. QED  BY <2>1, <2>2
  <1> HIDE DEF a, b
  <1>4. ASSUME \A i \in 1..l : s[i] = t[i] PROVE a = b
    BY <1>2, <1>3, <1>4, SeqEqual
  <1>5. QED  BY <1>2, <1>3, <1>4

\* A reversed sequence, element by element.
LEMMA ReverseIs ==
    ASSUME NEW X, NEW s \in Seq(X)
    PROVE  /\ Reverse(s) \in Seq(X) /\ Len(Reverse(s)) = Len(s)
           /\ \A i \in 1..Len(s) : Reverse(s)[i] = s[(Len(s) - i) + 1]
  <1>1. Len(s) \in Nat
    BY LenProperties
  <1>2. ASSUME NEW i \in 1..Len(s) PROVE s[(Len(s) - i) + 1] \in X
    <2>1. (Len(s) - i) + 1 \in 1..Len(s)
      BY <1>1
    <2>2. QED  BY <2>1, ElementOfSeq
  <1>3. Reverse(s) \in [1..Len(s) -> X]
    BY <1>2 DEF Reverse
  <1>4. Reverse(s) \in Seq(X)
    BY <1>1, <1>3, SeqDef
  <1>5. Len(Reverse(s)) = Len(s)
    BY <1>1, <1>3, <1>4, LenProperties
  <1>6. QED  BY <1>4, <1>5 DEF Reverse

\* A suffix, label by label.
LEMMA SuffixIs ==
    ASSUME NEW X, NEW s \in Seq(X), NEW t \in Seq(X)
    PROVE  IsSuffix(s, t) <=>
              /\ Len(s) <= Len(t)
              /\ \A i \in 1..Len(s) : s[i] = t[i + Len(t) - Len(s)]
  <1> DEFINE l == Len(s)
             n == Len(t)
             a == Reverse(s)
             b == Reverse(t)
  <1>1. l \in Nat /\ n \in Nat
    BY LenProperties
  <1>2. /\ a \in Seq(X) /\ Len(a) = l
        /\ \A i \in 1..l : a[i] = s[(l - i) + 1]
    BY ReverseIs
  <1>3. /\ b \in Seq(X) /\ Len(b) = n
        /\ \A i \in 1..n : b[i] = t[(n - i) + 1]
    BY ReverseIs
  <1>4. IsSuffix(s, t) <=> IsPrefix(a, b)
    BY DEF IsSuffix
  <1> HIDE DEF l, n, a, b
  <1>5. IsPrefix(a, b) <=> l <= n /\ \A i \in 1..l : a[i] = b[i]
    <2>1. IsPrefix(a, b) <=>
             Len(a) <= Len(b) /\ \A i \in 1..Len(a) : a[i] = b[i]
      <3>1. a \in Seq(X) /\ b \in Seq(X)
        BY <1>2, <1>3
      <3>2. \A u, v \in Seq(X) : IsPrefix(u, v) <=>
             Len(u) <= Len(v) /\ \A i \in 1..Len(u) : u[i] = v[i]
        BY PrefixIs
      <3>3. QED  BY <3>1, <3>2
    <2>2. QED  BY <1>2, <1>3, <2>1
  <1>6. ASSUME l <= n
        PROVE  (\A i \in 1..l : a[i] = b[i])
                <=> (\A i \in 1..l : s[i] = t[i + n - l])
    <2>1. ASSUME NEW i \in 1..l
          PROVE  /\ (l - i) + 1 \in 1..l /\ i \in 1..n /\ (l - i) + 1 \in 1..n
                 /\ ((l - i) + 1) + n - l = (n - i) + 1
                 /\ (l - ((l - i) + 1)) + 1 = i
                 /\ (n - ((l - i) + 1)) + 1 = i + n - l
      BY <1>1, <1>6
    <2>2. ASSUME \A i \in 1..l : a[i] = b[i], NEW i \in 1..l
          PROVE  s[i] = t[i + n - l]
      <3> DEFINE k == (l - i) + 1
      <3>1. k \in 1..l /\ k \in 1..n /\ (l - k) + 1 = i /\ (n - k) + 1 = i + n - l
        BY <2>1
      <3> HIDE DEF k
      <3>2. a[k] = s[(l - k) + 1] /\ b[k] = t[(n - k) + 1]
        BY <1>2, <1>3, <3>1
      <3>3. QED  BY <2>2, <3>1, <3>2
    <2>3. ASSUME \A i \in 1..l : s[i] = t[i + n - l], NEW i \in 1..l
          PROVE  a[i] = b[i]
      <3> DEFINE k == (l - i) + 1
      <3>1. k \in 1..l /\ k + n - l = (n - i) + 1 /\ i \in 1..n
        BY <2>1
      <3>2. a[i] = s[k] /\ b[i] = t[(n - i) + 1]
        BY <1>2, <1>3, <3>1
      <3> HIDE DEF k
      <3>3. s[k] = t[k + n - l]
        BY <2>3, <3>1
      <3>4. QED  BY <3>1, <3>2, <3>3
    <2>4. QED  BY <2>2, <2>3
  <1>7. QED  BY <1>4, <1>5, <1>6 DEF l, n

\* The position of a label.
LEMMA FirstPosIs ==
    ASSUME NEW p \in Labels, NEW label
    PROVE  /\ FirstPos(p, label) # 0 =>
                /\ FirstPos(p, label) \in 1..Len(p)
                /\ p[FirstPos(p, label)] = label
           /\ (\E i \in 1..Len(p) : p[i] = label) => FirstPos(p, label) # 0
  <1> DEFINE I == {i \in 1..Len(p) : p[i] = label}
  <1>1. FirstPos(p, label) = IF I # {} THEN Min(I) ELSE 0
    BY DEF FirstPos, SelectInSeq
  <1>2. I \in SUBSET Nat /\ 0 \notin I
    BY LenProperties DEF Labels
  <1>3. I # {} => Min(I) \in I
    BY <1>2, MinIsLeast
  <1> HIDE DEF I
  <1>4. FirstPos(p, label) # 0 => FirstPos(p, label) \in I
    BY <1>1, <1>3
  <1>5. I # {} => FirstPos(p, label) # 0
    BY <1>1, <1>2, <1>3
  <1>6. QED  BY <1>4, <1>5 DEF I

\* The first attempt with an answer.
LEMMA FirstFoundIs ==
    ASSUME NEW X, NEW attempts \in Seq(X)
    PROVE  /\ FirstFound(attempts) # None =>
                \E i \in 1..Len(attempts) :
                   /\ FirstFound(attempts) = attempts[i]
                   /\ \A j \in 1..Len(attempts) : j < i => attempts[j] = None
           /\ (\E i \in 1..Len(attempts) : attempts[i] # None)
                => FirstFound(attempts) # None
  <1> DEFINE I == {i \in 1..Len(attempts) : attempts[i] # None}
  <1>1. FirstFound(attempts) = IF I # {} THEN attempts[Min(I)] ELSE None
    <2>1. SelectInSeq(attempts, LAMBDA a : a # None)
            = IF I # {} THEN Min(I) ELSE 0
      BY DEF SelectInSeq
    <2>2. I # {} => Min(I) # 0
      <3>1. I \in SUBSET Nat /\ 0 \notin I
        BY LenProperties
      <3> HIDE DEF I
      <3>2. QED  BY <3>1, MinIsLeast
    <2>3. QED  BY <2>1, <2>2 DEF FirstFound
  <1>2. I \in SUBSET Nat
    BY LenProperties
  <1>3. I # {} => Min(I) \in I /\ \A j \in I : Min(I) <= j
    BY <1>2, MinIsLeast
  <1>0. \A j \in I : j \in 1..Len(attempts) /\ attempts[j] # None
    OBVIOUS
  <1> HIDE DEF I
  <1>4. ASSUME I # {}, NEW j \in 1..Len(attempts), j < Min(I)
        PROVE  attempts[j] = None
    <2>1. j \in Nat /\ Min(I) \in Nat
      <3>1. Len(attempts) \in Nat
        BY LenProperties
      <3>2. \A m \in Nat : \A k \in 1..m : k \in Nat
        OBVIOUS
      <3>3. Min(I) \in I
        BY <1>3, <1>4
      <3>4. QED  BY <1>2, <3>1, <3>2, <3>3, Zenon
    <2>2. j \notin I
      BY <1>3, <1>4, <2>1
    <2>3. QED  BY <2>2 DEF I
  <1>5. ASSUME FirstFound(attempts) # None
        PROVE  \E i \in 1..Len(attempts) :
                   /\ FirstFound(attempts) = attempts[i]
                   /\ \A j \in 1..Len(attempts) : j < i => attempts[j] = None
    <2>1. I # {} /\ FirstFound(attempts) = attempts[Min(I)]
      BY <1>1, <1>5
    <2>2. Min(I) \in 1..Len(attempts)
      BY <1>0, <1>3, <2>1
    <2>3. QED  BY <1>4, <2>1, <2>2
  <1>6. ASSUME NEW i \in 1..Len(attempts), attempts[i] # None
        PROVE  FirstFound(attempts) # None
    <2>1. I # {}
      BY <1>6 DEF I
    <2>2. attempts[Min(I)] # None
      BY <1>0, <1>3, <2>1
    <2>3. QED  BY <1>1, <2>1, <2>2
  <1>7. QED  BY <1>5, <1>6

\* x is what a map says of the longest part of a host that it knows.
IsLongestKnown(map, n, parts, x) ==
    /\ x # None =>
         \E k \in 1..n :
            /\ parts[k] \in DOMAIN map
            /\ x = map[parts[k]]
            /\ \A j \in 1..n : parts[j] \in DOMAIN map => j <= k
    /\ (\E k \in 1..n : parts[k] \in DOMAIN map) =>
         \E k \in 1..n : parts[k] \in DOMAIN map /\ x = map[parts[k]]

\* A map answers with the entry of the longest part of the host that it knows.
LEMMA LongestKnownIs ==
    ASSUME NEW map, NEW n \in Nat, NEW parts, DOMAIN parts = 1..n
    PROVE  IsLongestKnown(map, n, parts, LongestKnown(map, parts))
  <1> DEFINE I == {k \in DOMAIN parts : parts[k] \in DOMAIN map}
  <1>1. LongestKnown(map, parts) = IF I = {} THEN None ELSE map[parts[Max(I)]]
    BY DEF LongestKnown
  <1>2. I # {} => Max(I) \in I /\ \A j \in I : j <= Max(I)
    <2>1. I \in SUBSET Nat /\ \A y \in I : y <= n
      OBVIOUS
    <2> HIDE DEF I
    <2>2. QED  BY <2>1, MaxIsGreatest
  <1>3. \A k \in 1..n : parts[k] \in DOMAIN map <=> k \in I
    OBVIOUS
  <1>4. I \subseteq 1..n
    OBVIOUS
  <1> HIDE DEF I
  <1>5. CASE I = {}
    BY <1>1, <1>3, <1>5 DEF IsLongestKnown
  <1>6. CASE I # {}
    <2> DEFINE m == Max(I)
    <2>1. m \in I /\ \A j \in I : j <= m
      BY <1>2, <1>6
    <2>2. LongestKnown(map, parts) = map[parts[m]]
      BY <1>1, <1>6
    <2> HIDE DEF m
    <2>3. QED  BY <1>3, <1>4, <2>1, <2>2 DEF IsLongestKnown
  <1>7. QED  BY <1>5, <1>6

-----------------------------------------------------------------------------
\* The trie: its lookup unfolds, and finds the best of the patterns that fit.

\* The value of a node in the recursive definition of TrieLookup.
TrieBody(trie, h, node, f) ==
    LET Child(label) == LET child == Append(node, label) IN
            IF child \in Nodes(trie) THEN f[child] ELSE None
        literal  == Child(h[Len(node) + 1])
    IN  IF Len(node) >= Len(h) THEN Lookup(trie, node)
        ELSE IF literal # None THEN literal ELSE Child("*")

\* A solution of that definition.
IsTrieFrom(trie, h, from) ==
    from = [node \in Nodes(trie) |-> TrieBody(trie, h, node, from)]

\* TrieLookup is the value of the root in some solution, if there is one.
LEMMA TrieLookupIs ==
    ASSUME NEW trie, NEW h
    PROVE  TrieLookup(trie, h) = (CHOOSE from : IsTrieFrom(trie, h, from))[<<>>]
  BY DEF TrieLookup, IsTrieFrom, TrieBody

\* The nodes of a trie are label sequences, the root and the prefixes of the
\* patterns among them.
LEMMA NodesAre ==
    ASSUME NEW trie, DOMAIN trie \subseteq Labels
    PROVE  /\ Nodes(trie) \subseteq Seq(STRING)
           /\ <<>> \in Nodes(trie)
           /\ \A p \in DOMAIN trie : \A l \in 0..Len(p) :
                 SubSeq(p, 1, l) \in Nodes(trie)
  <1>1. ASSUME NEW p \in DOMAIN trie, NEW l \in 0..Len(p)
        PROVE  SubSeq(p, 1, l) \in Seq(STRING)
    <2>1. p \in Seq(STRING)
      BY DEF Labels
    <2>2. l \in Nat /\ l <= Len(p) /\ 1 <= l + 1
      BY <2>1, LenProperties
    <2>3. QED  BY <2>1, <2>2, PartOf
  <1>2. \A p \in DOMAIN trie : Prefixes(p) \subseteq Seq(STRING)
    BY <1>1 DEF Prefixes
  <1>3. <<>> \in Seq(STRING)
    BY EmptySeq
  <1>4. ASSUME NEW p \in DOMAIN trie, NEW l \in 0..Len(p)
        PROVE  SubSeq(p, 1, l) \in Nodes(trie)
    <2>1. SubSeq(p, 1, l) \in Prefixes(p)
      BY DEF Prefixes
    <2>2. QED  BY <2>1 DEF Nodes
  <1>5. Nodes(trie) \subseteq Seq(STRING) /\ <<>> \in Nodes(trie)
    BY <1>2, <1>3 DEF Nodes
  <1>6. QED  BY <1>4, <1>5

\* There is a solution: a child is deeper than its parent, and nothing is
\* looked up below the depth of the host.
LEMMA TrieFromExists ==
    ASSUME NEW trie, DOMAIN trie \subseteq Labels, NEW h \in Labels
    PROVE  \E from : IsTrieFrom(trie, h, from)
  <1> DEFINE D == Nodes(trie)
             V == {None} \cup {trie[p] : p \in DOMAIN trie}
             l == Len(h)
             rank == [node \in D |-> IF Len(node) >= l THEN 0
                                     ELSE l - Len(node)]
             step == [node \in D |-> [f \in [D -> V] |->
                                        TrieBody(trie, h, node, f)]]
  <1>1. l \in Nat
    BY LenProperties DEF Labels
  <1>2. \A node \in D : node \in Seq(STRING) /\ Len(node) \in Nat
    BY NodesAre, LenProperties
  <1>3. rank \in [D -> 0..l]
    BY <1>1, <1>2
  <1>4. ASSUME NEW node \in D, NEW label, Append(node, label) \in D, Len(node) < l
        PROVE  rank[Append(node, label)] < rank[node]
    <2>1. Len(Append(node, label)) = Len(node) + 1
      BY <1>2
    <2>2. QED  BY <1>1, <1>2, <1>4, <2>1
  <1>5. V # {} /\ None \in V
    OBVIOUS
  <1>6. ASSUME NEW node \in D, NEW f \in [D -> V]
        PROVE  TrieBody(trie, h, node, f) \in V
    <2>1. Lookup(trie, node) \in V
      BY DEF Lookup
    <2> HIDE DEF V
    <2>2. QED  BY <1>5, <2>1 DEF TrieBody
  <1>7. step \in [D -> [[D -> V] -> V]]
    <2> HIDE DEF D, V
    <2>1. QED  BY <1>6
  <1>8. ASSUME NEW node \in D, NEW f \in [D -> V], NEW g \in [D -> V],
               \A r \in D : rank[r] < rank[node] => f[r] = g[r]
        PROVE  step[node][f] = step[node][g]
    <2>1. CASE Len(node) >= l
      BY <2>1 DEF TrieBody
    <2>2. CASE ~(Len(node) >= l)
      <3>1. ASSUME NEW label, Append(node, label) \in D
            PROVE  f[Append(node, label)] = g[Append(node, label)]
        <4>1. Len(node) < l
          BY <1>1, <1>2, <2>2
        <4>2. rank[Append(node, label)] < rank[node]
          BY <1>4, <3>1, <4>1
        <4> HIDE DEF rank
        <4>3. QED  BY <1>8, <3>1, <4>2
      <3>2. TrieBody(trie, h, node, f) = TrieBody(trie, h, node, g)
        BY <3>1 DEF TrieBody
      <3>3. QED  BY <3>2
    <2>3. QED  BY <2>1, <2>2
  <1>9. StepsDown(D, V, rank, step)
    BY <1>1, <1>3, <1>5, <1>7, <1>8 DEF StepsDown
  <1>10. \E f \in [D -> V] : f = [q \in D |-> step[q][f]]
    <2> HIDE DEF D, V, rank, step
    <2>1. QED  BY <1>9, Recursion
  <1>11. PICK f \in [D -> V] : f = [q \in D |-> step[q][f]]
    BY <1>10
  <1>12. IsTrieFrom(trie, h, f)
    BY <1>11 DEF IsTrieFrom
  <1>13. QED  BY <1>12

\* TrieLookup, unfolded node by node.
LEMMA TrieSteps ==
    ASSUME NEW trie, DOMAIN trie \subseteq Labels, NEW h \in Labels
    PROVE  \E from :
              /\ TrieLookup(trie, h) = from[<<>>]
              /\ \A node \in Nodes(trie) :
                    from[node] = TrieBody(trie, h, node, from)
  <1> DEFINE f == CHOOSE from : IsTrieFrom(trie, h, from)
  <1>1. IsTrieFrom(trie, h, f)
    BY TrieFromExists
  <1>2. TrieLookup(trie, h) = f[<<>>]
    BY TrieLookupIs
  <1> HIDE DEF f
  <1>3. \A node \in Nodes(trie) : f[node] = TrieBody(trie, h, node, f)
    BY <1>1 DEF IsTrieFrom
  <1>4. QED  BY <1>2, <1>3

\* A pattern that matches a host label by label.
Fits(p, h) ==
    Len(p) = Len(h) /\ \A i \in 1..Len(h) : p[i] \in {"*", h[i]}

\* A pattern below a node that matches the rest of the host.
Reaches(p, node, h) ==
    /\ Len(p) = Len(h)
    /\ \A i \in 1..Len(node) : p[i] = node[i]
    /\ \A i \in (Len(node) + 1)..Len(h) : p[i] \in {"*", h[i]}

\* The other patterns below the node that match the rest of the host are looser.
IsBest(trie, q, node, h) ==
    /\ q \in DOMAIN trie /\ Reaches(q, node, h)
    /\ \A p \in DOMAIN trie : Reaches(p, node, h) => p = q \/ Looser(p, q)

\* An answer at a node is that of the best pattern below it.
IsFound(trie, answer, node, h) ==
    IF \E p \in DOMAIN trie : Reaches(p, node, h)
    THEN \E q : IsBest(trie, q, node, h) /\ answer = trie[q]
    ELSE answer = None

\* At the last label of the host there is nothing left to choose.
LEMMA FoundAtTheEnd ==
    ASSUME NEW trie, DOMAIN trie \subseteq Labels, NEW h \in Labels,
           NEW node \in Nodes(trie), Len(node) = Len(h)
    PROVE  IsFound(trie, Lookup(trie, node), node, h)
  <1>1. node \in Seq(STRING) /\ Len(node) \in Nat
    BY NodesAre, LenProperties
  <1>2. ASSUME NEW p \in DOMAIN trie, Reaches(p, node, h)
        PROVE  p = node
    <2>1. p \in Seq(STRING)
      BY DEF Labels
    <2>2. Len(p) = Len(node) /\ \A i \in 1..Len(node) : p[i] = node[i]
      BY <1>2 DEF Reaches
    <2>3. QED  BY <1>1, <2>1, <2>2, SeqEqual
  <1>3. Reaches(node, node, h)
    BY <1>1 DEF Reaches
  <1>4. CASE node \in DOMAIN trie
    <2>1. Lookup(trie, node) = trie[node]
      BY <1>4 DEF Lookup
    <2>2. IsBest(trie, node, node, h)
      BY <1>2, <1>3, <1>4 DEF IsBest
    <2>3. QED  BY <1>3, <1>4, <2>1, <2>2 DEF IsFound
  <1>5. CASE node \notin DOMAIN trie
    BY <1>2, <1>5 DEF IsFound, Lookup
  <1>6. QED  BY <1>4, <1>5

\* The patterns below a child are those below its parent that have its label.
LEMMA ReachesChild ==
    ASSUME NEW trie, DOMAIN trie \subseteq Labels, NEW h \in Labels,
           NEW node \in Nodes(trie), NEW m, m = Len(node) + 1, m <= Len(h),
           NEW label \in {"*", h[m]}, NEW p \in DOMAIN trie
    PROVE  /\ Reaches(p, Append(node, label), h)
                <=> Reaches(p, node, h) /\ p[m] = label
           /\ Reaches(p, Append(node, label), h)
                => Append(node, label) \in Nodes(trie)
           /\ Len(Append(node, label)) = m
  <1> DEFINE child == Append(node, label)
             l == Len(h)
             X == STRING \cup {label}
  <1>1. /\ node \in Seq(STRING) /\ Len(node) \in Nat /\ l \in Nat
        /\ p \in Seq(STRING) /\ Len(p) \in Nat
    BY NodesAre, LenProperties DEF Labels
  <1>2. /\ Len(child) = m /\ child[m] = label
        /\ \A i \in 1..Len(node) : child[i] = node[i]
        /\ child \in Seq(X)
    <2>1. node \in Seq(X) /\ label \in X
      BY <1>1, SeqMonotonic
    <2> HIDE DEF X
    <2>2. QED  BY <2>1, AppendProperties
  <1> HIDE DEF child
  <1>3. m \in Nat /\ m \in 1..l /\ m - 1 = Len(node) /\ m <= l
    BY <1>1
  <1>4. \A i \in 1..m : i \in 1..Len(node) \/ i = m
    BY <1>1, <1>3
  <1>5. \A i \in m..l : i \in (m + 1)..l \/ i = m
    BY <1>1, <1>3
  <1>6. \A i \in 1..Len(node) : i \in 1..m
    BY <1>1, <1>3
  <1>7. \A i \in (m + 1)..l : i \in m..l
    BY <1>1, <1>3
  <1>8. m \in m..l /\ m \in 1..m
    BY <1>1, <1>3
  <1>9. ASSUME Reaches(p, child, h)
        PROVE  Reaches(p, node, h) /\ p[m] = label
    <2>1. /\ Len(p) = l /\ \A i \in 1..m : p[i] = child[i]
          /\ \A i \in (m + 1)..l : p[i] \in {"*", h[i]}
      BY <1>2, <1>9 DEF Reaches
    <2>2. p[m] = label
      BY <1>2, <1>8, <2>1
    <2>3. \A i \in 1..Len(node) : p[i] = node[i]
      BY <1>2, <1>6, <2>1
    <2>4. \A i \in m..l : p[i] \in {"*", h[i]}
      BY <1>5, <2>1, <2>2
    <2>5. QED  BY <2>1, <2>2, <2>3, <2>4 DEF Reaches
  <1>10. ASSUME Reaches(p, node, h), p[m] = label
         PROVE  Reaches(p, child, h)
    <2>1. /\ Len(p) = l /\ \A i \in 1..Len(node) : p[i] = node[i]
          /\ \A i \in m..l : p[i] \in {"*", h[i]}
      BY <1>10 DEF Reaches
    <2>2. \A i \in 1..m : p[i] = child[i]
      BY <1>2, <1>4, <1>10, <2>1
    <2>3. \A i \in (m + 1)..l : p[i] \in {"*", h[i]}
      BY <1>7, <2>1
    <2>4. QED  BY <1>2, <2>1, <2>2, <2>3 DEF Reaches
  <1>11. ASSUME Reaches(p, child, h)
         PROVE  child \in Nodes(trie)
    <2> DEFINE s == SubSeq(p, 1, m)
    <2>1. Len(p) = l /\ \A i \in 1..m : p[i] = child[i]
      BY <1>2, <1>11 DEF Reaches
    <2>2. m <= Len(p) /\ 1 <= m + 1 /\ m + 1 - 1 = m /\ m \in 0..Len(p)
          /\ \A i \in 1..m : 1 + i - 1 = i
      BY <1>1, <1>3, <2>1
    <2>3. /\ s \in Seq(STRING) /\ Len(s) = m + 1 - 1
          /\ \A i \in 1..(m + 1 - 1) : s[i] = p[1 + i - 1]
      BY <1>1, <1>3, <2>2, PartOf
    <2>4. s \in Nodes(trie)
      BY <2>2, NodesAre
    <2> HIDE DEF s
    <2>5. Len(s) = Len(child) /\ \A i \in 1..Len(s) : s[i] = child[i]
      BY <1>2, <2>1, <2>2, <2>3
    <2>6. s \in Seq(X)
      BY <2>3, SeqMonotonic
    <2> HIDE DEF X
    <2>7. s = child
      BY <1>2, <2>5, <2>6, SeqEqual
    <2>8. QED  BY <2>4, <2>7
  <1>12. QED  BY <1>2, <1>9, <1>10, <1>11 DEF child

\* At a node the best pattern is the best below the literal child, or, when
\* there is none below that one, the best below the wildcard child.
LEMMA FoundAtANode ==
    ASSUME NEW trie, DOMAIN trie \subseteq Labels, NEW h \in Labels,
           \A p \in DOMAIN trie : trie[p] # None,
           NEW node \in Nodes(trie), Len(node) + 1 <= Len(h),
           NEW literal, IsFound(trie, literal, Append(node, h[Len(node) + 1]), h),
           NEW star, IsFound(trie, star, Append(node, "*"), h),
           NEW answer, answer = IF literal # None THEN literal ELSE star
    PROVE  IsFound(trie, answer, node, h)
  <1> DEFINE m == Len(node) + 1
             P(label) == Append(node, label)
  <1>1. ASSUME NEW label \in {"*", h[m]}, NEW p \in DOMAIN trie
        PROVE  Reaches(p, P(label), h) <=> Reaches(p, node, h) /\ p[m] = label
    BY ReachesChild
  <1>2. /\ m \in 1..Len(h) /\ m \in (Len(node) + 1)..Len(h)
    <2>1. Len(node) \in Nat /\ Len(h) \in Nat
      BY NodesAre, LenProperties DEF Labels
    <2>2. QED  BY <2>1
  <1>3. ASSUME NEW p \in DOMAIN trie, Reaches(p, node, h)
        PROVE  p[m] \in {"*", h[m]} /\ Len(p) = Len(h)
    BY <1>2, <1>3 DEF Reaches
  <1>4. /\ IsFound(trie, literal, P(h[m]), h) /\ IsFound(trie, star, P("*"), h)
    OBVIOUS
  <1> HIDE DEF m, P
  <1>5. CASE \E p \in DOMAIN trie : Reaches(p, P(h[m]), h)
    <2>1. PICK q : IsBest(trie, q, P(h[m]), h) /\ literal = trie[q]
      BY <1>4, <1>5 DEF IsFound
    <2>2. q \in DOMAIN trie /\ Reaches(q, node, h) /\ q[m] = h[m]
      BY <1>1, <2>1 DEF IsBest
    <2>3. literal # None
      BY <2>1, <2>2
    <2>4. ASSUME NEW p \in DOMAIN trie, Reaches(p, node, h)
          PROVE  p = q \/ Looser(p, q)
      <3>1. CASE p[m] = h[m]
        <4>1. Reaches(p, P(h[m]), h)
          BY <1>1, <2>4, <3>1
        <4>2. QED  BY <2>1, <4>1 DEF IsBest
      <3>2. CASE p[m] # h[m]
        <4>1. p[m] = "*" /\ q[m] # "*" /\ m \in DOMAIN p
          <5>1. p \in Seq(STRING)
            BY DEF Labels
          <5>2. QED  BY <1>2, <1>3, <2>2, <2>4, <3>2, <5>1, LenProperties
        <4>2. \A j \in 1..(m - 1) : p[j] = q[j]
          <5>1. m - 1 = Len(node)
            BY NodesAre, LenProperties DEF m
          <5>2. QED  BY <2>2, <2>4, <5>1 DEF Reaches
        <4>3. QED  BY <4>1, <4>2 DEF Looser
      <3>3. QED  BY <3>1, <3>2
    <2>5. IsBest(trie, q, node, h)
      BY <2>2, <2>4 DEF IsBest
    <2>6. QED  BY <2>1, <2>2, <2>3, <2>5 DEF IsFound
  <1>6. CASE ~\E p \in DOMAIN trie : Reaches(p, P(h[m]), h)
    <2>1. literal = None
      BY <1>4, <1>6 DEF IsFound
    <2>2. \A p \in DOMAIN trie : Reaches(p, node, h) <=> Reaches(p, P("*"), h)
      BY <1>1, <1>3, <1>6
    <2>3. \A q : IsBest(trie, q, P("*"), h) => IsBest(trie, q, node, h)
      BY <2>2 DEF IsBest
    <2>4. IsFound(trie, star, node, h)
      BY <1>4, <2>2, <2>3 DEF IsFound
    <2>5. QED  BY <2>1, <2>4
  <1>7. QED  BY <1>5, <1>6

\* A lookup finds the pattern of the trie that fits the host and has a label
\* wherever another one that fits has, before it, a wildcard; it finds none
\* only if none fits.
LEMMA TrieFindsBest ==
    ASSUME NEW trie, DOMAIN trie \subseteq Labels, NEW h \in Labels,
           \A p \in DOMAIN trie : trie[p] # None
    PROVE  IF \E p \in DOMAIN trie : Fits(p, h)
           THEN \E q \in DOMAIN trie :
                   /\ TrieLookup(trie, h) = trie[q] /\ Fits(q, h)
                   /\ \A p \in DOMAIN trie : Fits(p, h) => p = q \/ Looser(p, q)
           ELSE TrieLookup(trie, h) = None
  <1> DEFINE l == Len(h)
  <1>1. PICK from :
              /\ TrieLookup(trie, h) = from[<<>>]
              /\ \A node \in Nodes(trie) :
                    from[node] = TrieBody(trie, h, node, from)
    BY TrieSteps
  <1> DEFINE Q == {n \in Nat : \A node \in Nodes(trie) :
                      Len(node) + n = l => IsFound(trie, from[node], node, h)}
  <1>2. l \in Nat
    BY LenProperties DEF Labels
  <1>3. \A node \in Nodes(trie) : node \in Seq(STRING) /\ Len(node) \in Nat
    BY NodesAre, LenProperties
  <1>4. 0 \in Q
    <2> SUFFICES ASSUME NEW node \in Nodes(trie), Len(node) + 0 = l
                 PROVE  IsFound(trie, from[node], node, h)
      OBVIOUS
    <2>1. Len(node) = l
      BY <1>3
    <2>2. from[node] = Lookup(trie, node)
      BY <1>1, <1>2, <2>1 DEF TrieBody
    <2>3. QED  BY <2>1, <2>2, FoundAtTheEnd
  <1>5. ASSUME NEW n \in Nat, n \in Q
        PROVE  n + 1 \in Q
    <2> SUFFICES ASSUME NEW node \in Nodes(trie), Len(node) + (n + 1) = l
                 PROVE  IsFound(trie, from[node], node, h)
      OBVIOUS
    <2> DEFINE m == Len(node) + 1
               Child(label) == Append(node, label)
               New(label) == IF Child(label) \in Nodes(trie)
                             THEN from[Child(label)] ELSE None
    <2>1. m <= l /\ m + n = l /\ ~(Len(node) >= l)
      BY <1>2, <1>3
    <2>2. from[node] = IF New(h[m]) # None THEN New(h[m]) ELSE New("*")
      BY <1>1, <2>1 DEF TrieBody
    <2>3. ASSUME NEW label \in {"*", h[m]}
          PROVE  IsFound(trie, New(label), Child(label), h)
      <3>1. /\ \A p \in DOMAIN trie : Reaches(p, Child(label), h)
                                         => Child(label) \in Nodes(trie)
            /\ \A p \in DOMAIN trie : Len(Child(label)) = m
        BY <2>1, ReachesChild
      <3> HIDE DEF m, Child
      <3>2. CASE Child(label) \in Nodes(trie) /\ DOMAIN trie # {}
        <4>1. Len(Child(label)) + n = l
          BY <2>1, <3>1, <3>2
        <4>2. IsFound(trie, from[Child(label)], Child(label), h)
          BY <1>5, <3>2, <4>1
        <4>3. QED  BY <3>2, <4>2
      <3>3. CASE Child(label) \notin Nodes(trie)
        BY <3>1, <3>3 DEF IsFound
      <3>4. CASE DOMAIN trie = {}
        <4>1. Nodes(trie) = {<<>>}
          BY <3>4 DEF Nodes
        <4>2. Child(label) # <<>>
          BY <1>3 DEF Child
        <4>3. QED  BY <3>4, <4>1, <4>2 DEF IsFound
      <3>5. QED  BY <3>2, <3>3, <3>4
    <2>4. IsFound(trie, New(h[m]), Child(h[m]), h)
          /\ IsFound(trie, New("*"), Child("*"), h)
      BY <2>3
    <2> DEFINE literal == New(h[m])
               star == New("*")
               answer == from[node]
    <2>5. /\ IsFound(trie, literal, Append(node, h[Len(node) + 1]), h)
          /\ IsFound(trie, star, Append(node, "*"), h)
          /\ answer = IF literal # None THEN literal ELSE star
          /\ Len(node) + 1 <= Len(h)
      BY <2>1, <2>2, <2>4
    <2> HIDE DEF literal, star, answer
    <2>6. IsFound(trie, answer, node, h)
      BY <2>5, FoundAtANode, SMTT(30)
    <2>7. QED  BY <2>6 DEF answer
  <1> HIDE DEF Q
  <1>6. Nat \subseteq Q
    BY <1>4, <1>5, NaturalsAreIn
  <1> USE DEF Q
  <1>7. IsFound(trie, from[<<>>], <<>>, h)
    <2>1. <<>> \in Nodes(trie) /\ Len(<<>>) = 0 /\ 0 + l = l
      BY <1>2, NodesAre, EmptySeq
    <2>2. l \in Q
      BY <1>2, <1>6
    <2>3. QED  BY <2>1, <2>2
  <1>8. \A p : Reaches(p, <<>>, h) <=> Fits(p, h)
    <2>1. Len(<<>>) = 0
      BY EmptySeq
    <2>2. QED  BY <1>2, <2>1 DEF Reaches, Fits
  <1>9. QED  BY <1>1, <1>7, <1>8 DEF IsFound, IsBest

-----------------------------------------------------------------------------
\* dp_host_matches: its table unfolds, and says whether there is a cut.

\* The cells of the table of dp_host_matches.
Cells(p, h) == (0..Len(p)) \X (0..Len(h))

\* The value of a cell in the recursive definition of DpMatches.
DpBody(p, h, cell, f) ==
    LET i == cell[1]
        j == cell[2]
    IN  IF i = 0 THEN j = 0
        ELSE IF p[i] = "**"
        THEN f[<<i - 1, j>>] \/ (j > 0 /\ f[<<i, j - 1>>])
        ELSE /\ j > 0 /\ p[i] \in {"*", h[j]}
             /\ f[<<i - 1, j - 1>>]

\* A solution of that definition.
IsDpTable(p, h, f) == f = [cell \in Cells(p, h) |-> DpBody(p, h, cell, f)]

\* DpMatches is the last cell of some table, if there is one.
LEMMA DpMatchesIs ==
    ASSUME NEW p, NEW h
    PROVE  DpMatches(p, h)
             = (CHOOSE f : IsDpTable(p, h, f))[<<Len(p), Len(h)>>]
  BY DEF DpMatches, IsDpTable, DpBody, Cells

\* There is a table: a cell only depends on cells nearer to the first one.
LEMMA DpTableExists ==
    ASSUME NEW p \in Labels, NEW h \in Labels
    PROVE  \E f \in [Cells(p, h) -> BOOLEAN] : IsDpTable(p, h, f)
  <1> DEFINE D == Cells(p, h)
             m == Len(p)
             n == Len(h)
             rank == [cell \in D |-> cell[1] + cell[2]]
             step == [cell \in D |-> [f \in [D -> BOOLEAN] |->
                                        DpBody(p, h, cell, f)]]
  <1>1. m \in Nat /\ n \in Nat
    BY LenProperties DEF Labels
  <1>2. \A cell \in D : /\ cell[1] \in 0..m /\ cell[2] \in 0..n
                        /\ cell = <<cell[1], cell[2]>>
    BY DEF Cells
  <1>3. \A i \in 0..m, j \in 0..n :
           <<i, j>> \in D /\ rank[<<i, j>>] = i + j
    BY DEF Cells
  <1>4. rank \in [D -> 0..(m + n)]
    BY <1>1, <1>2
  <1>5. ASSUME NEW cell \in D, NEW f \in [D -> BOOLEAN]
        PROVE  DpBody(p, h, cell, f) \in BOOLEAN
    BY DEF DpBody
  <1>6. step \in [D -> [[D -> BOOLEAN] -> BOOLEAN]]
    <2> HIDE DEF D
    <2>1. QED  BY <1>5
  <1>7. ASSUME NEW cell \in D, NEW f \in [D -> BOOLEAN], NEW g \in [D -> BOOLEAN],
               \A r \in D : rank[r] < rank[cell] => f[r] = g[r]
        PROVE  step[cell][f] = step[cell][g]
    <2> DEFINE i == cell[1]
               j == cell[2]
    <2>1. i \in 0..m /\ j \in 0..n /\ rank[cell] = i + j
      BY <1>2
    <2> HIDE DEF D, rank
    <2>2. CASE i = 0
      BY <2>2 DEF DpBody
    <2>3. CASE i # 0
      <3>1. f[<<i - 1, j>>] = g[<<i - 1, j>>]
        <4>1. i - 1 \in 0..m /\ (i - 1) + j < i + j
          BY <1>1, <2>1, <2>3
        <4>2. QED  BY <1>3, <1>7, <2>1, <4>1
      <3>2. j > 0 => /\ f[<<i, j - 1>>] = g[<<i, j - 1>>]
                     /\ f[<<i - 1, j - 1>>] = g[<<i - 1, j - 1>>]
        <4> SUFFICES ASSUME j > 0
                     PROVE  /\ f[<<i, j - 1>>] = g[<<i, j - 1>>]
                            /\ f[<<i - 1, j - 1>>] = g[<<i - 1, j - 1>>]
          OBVIOUS
        <4>1. /\ i - 1 \in 0..m /\ j - 1 \in 0..n
              /\ i + (j - 1) < i + j /\ (i - 1) + (j - 1) < i + j
          BY <1>1, <2>1, <2>3
        <4>2. QED  BY <1>3, <1>7, <2>1, <4>1
      <3>3. DpBody(p, h, cell, f) = DpBody(p, h, cell, g)
        BY <3>1, <3>2 DEF DpBody
      <3>4. QED  BY <3>3
    <2>4. QED  BY <2>2, <2>3
  <1>8. StepsDown(D, BOOLEAN, rank, step)
    <2>1. m + n \in Nat
      BY <1>1
    <2>2. \E N \in Nat : rank \in [D -> 0..N]
      BY <1>4, <2>1
    <2> HIDE DEF D, rank, step
    <2>3. QED  BY <1>6, <1>7, <2>2 DEF StepsDown
  <1>9. \E f \in [D -> BOOLEAN] : f = [q \in D |-> step[q][f]]
    <2> HIDE DEF D, rank, step
    <2>1. QED  BY <1>8, Recursion
  <1>10. PICK f \in [D -> BOOLEAN] : f = [q \in D |-> step[q][f]]
    BY <1>9
  <1>11. IsDpTable(p, h, f)
    BY <1>10 DEF IsDpTable
  <1>12. QED  BY <1>11

\* DpMatches, unfolded cell by cell.
LEMMA DpSteps ==
    ASSUME NEW p \in Labels, NEW h \in Labels
    PROVE  \E f :
              /\ DpMatches(p, h) = f[<<Len(p), Len(h)>>]
              /\ \A i \in 0..Len(p), j \in 0..Len(h) :
                    /\ f[<<i, j>>] \in BOOLEAN
                    /\ f[<<i, j>>] = DpBody(p, h, <<i, j>>, f)
  <1> DEFINE f == CHOOSE f : IsDpTable(p, h, f)
  <1>1. IsDpTable(p, h, f)
    BY DpTableExists
  <1>2. DpMatches(p, h) = f[<<Len(p), Len(h)>>]
    BY DpMatchesIs
  <1> HIDE DEF f
  <1>3. ASSUME NEW i \in 0..Len(p), NEW j \in 0..Len(h)
        PROVE  f[<<i, j>>] = DpBody(p, h, <<i, j>>, f)
    BY <1>1 DEF IsDpTable, Cells
  <1>4. \A i \in 0..Len(p), j \in 0..Len(h) : f[<<i, j>>] \in BOOLEAN
    BY <1>3 DEF DpBody
  <1>5. QED  BY <1>2, <1>3, <1>4

\* What a table cell says: the first labels of the pattern can be cut so.
CutsTo(p, h, i, j) == \E c : Cuts(p, h, i, c) /\ c[i] = j

\* A cut for the first labels of a pattern, with one more piece.
LEMMA CutsExtend ==
    ASSUME NEW p \in Labels, NEW h \in Labels,
           NEW i \in 1..Len(p), NEW k \in 0..Len(h), NEW j \in 0..Len(h),
           CutsTo(p, h, i - 1, k),
           IF p[i] = "**" THEN k <= j ELSE j = k + 1 /\ p[i] \in {"*", h[j]}
    PROVE  CutsTo(p, h, i, j)
  <1>1. Len(p) \in Nat /\ Len(h) \in Nat
    BY LenProperties DEF Labels
  <1>2. PICK c : Cuts(p, h, i - 1, c) /\ c[i - 1] = k
    BY DEF CutsTo
  <1> DEFINE d == [n \in 0..i |-> IF n = i THEN j ELSE c[n]]
  <1>3. c \in [0..(i - 1) -> 0..Len(h)] /\ c[0] = 0
    BY <1>2 DEF Cuts
  <1>4. d \in [0..i -> 0..Len(h)] /\ d[0] = 0 /\ d[i] = j
    BY <1>1, <1>3
  <1>5. ASSUME NEW n \in 1..i
        PROVE  IF p[n] = "**" THEN d[n - 1] <= d[n]
               ELSE d[n] = d[n - 1] + 1 /\ p[n] \in {"*", h[d[n]]}
    <2>1. n \in 0..i /\ n - 1 \in 0..i /\ n - 1 # i
      BY <1>1
    <2>2. CASE n = i
      <3>1. d[n] = j /\ d[n - 1] = k
        BY <1>2, <2>1, <2>2
      <3>2. QED  BY <2>2, <3>1
    <2>3. CASE n # i
      <3>1. n \in 1..(i - 1)
        BY <1>1, <2>3
      <3>2. d[n] = c[n] /\ d[n - 1] = c[n - 1]
        BY <2>1, <2>3
      <3>3. IF p[n] = "**" THEN c[n - 1] <= c[n]
            ELSE c[n] = c[n - 1] + 1 /\ p[n] \in {"*", h[c[n]]}
        BY <1>2, <3>1 DEF Cuts
      <3>4. QED  BY <3>2, <3>3
    <2>4. QED  BY <2>2, <2>3
  <1> HIDE DEF d
  <1>6. Cuts(p, h, i, d)
    BY <1>4, <1>5 DEF Cuts
  <1>7. QED  BY <1>4, <1>6 DEF CutsTo

\* A cut for the first labels of a pattern, without its last piece.
LEMMA CutsShorten ==
    ASSUME NEW p \in Labels, NEW h \in Labels,
           NEW i \in 1..Len(p), NEW j \in 0..Len(h), CutsTo(p, h, i, j)
    PROVE  \E k \in 0..Len(h) :
              /\ CutsTo(p, h, i - 1, k)
              /\ IF p[i] = "**" THEN k <= j
                 ELSE j = k + 1 /\ p[i] \in {"*", h[j]}
  <1>1. Len(p) \in Nat /\ Len(h) \in Nat
    BY LenProperties DEF Labels
  <1>2. PICK c : Cuts(p, h, i, c) /\ c[i] = j
    BY DEF CutsTo
  <1> DEFINE d == [n \in 0..(i - 1) |-> c[n]]
  <1>3. c \in [0..i -> 0..Len(h)] /\ c[0] = 0
    BY <1>2 DEF Cuts
  <1>4. d \in [0..(i - 1) -> 0..Len(h)] /\ d[0] = 0 /\ d[i - 1] = c[i - 1]
    BY <1>1, <1>3
  <1>5. ASSUME NEW n \in 1..(i - 1)
        PROVE  IF p[n] = "**" THEN d[n - 1] <= d[n]
               ELSE d[n] = d[n - 1] + 1 /\ p[n] \in {"*", h[d[n]]}
    <2>1. n \in 0..(i - 1) /\ n - 1 \in 0..(i - 1) /\ n \in 1..i
      BY <1>1
    <2>2. d[n] = c[n] /\ d[n - 1] = c[n - 1]
      BY <2>1
    <2>3. IF p[n] = "**" THEN c[n - 1] <= c[n]
          ELSE c[n] = c[n - 1] + 1 /\ p[n] \in {"*", h[c[n]]}
      BY <1>2, <2>1 DEF Cuts
    <2>4. QED  BY <2>2, <2>3
  <1> HIDE DEF d
  <1>6. Cuts(p, h, i - 1, d)
    BY <1>4, <1>5 DEF Cuts
  <1>7. CutsTo(p, h, i - 1, c[i - 1])
    BY <1>4, <1>6 DEF CutsTo
  <1>8. c[i - 1] \in 0..Len(h)
    BY <1>1, <1>3
  <1>9. i \in 1..i
    BY <1>1
  <1>10. IF p[i] = "**" THEN c[i - 1] <= c[i]
         ELSE c[i] = c[i - 1] + 1 /\ p[i] \in {"*", h[c[i]]}
    BY <1>2, <1>9 DEF Cuts
  <1>11. QED  BY <1>2, <1>7, <1>8, <1>10

\* Pieces of a pattern without labels.
LEMMA CutsNone ==
    ASSUME NEW p \in Labels, NEW h \in Labels, NEW j \in 0..Len(h)
    PROVE  CutsTo(p, h, 0, j) <=> j = 0
  <1>1. Len(h) \in Nat
    BY LenProperties DEF Labels
  <1>2. ASSUME j = 0 PROVE CutsTo(p, h, 0, j)
    <2> DEFINE c == [n \in 0..0 |-> 0]
    <2>1. c \in [0..0 -> 0..Len(h)] /\ c[0] = 0 /\ \A i \in 1..0 : FALSE
      BY <1>1
    <2> HIDE DEF c
    <2>2. Cuts(p, h, 0, c) /\ c[0] = j
      BY <1>2, <2>1 DEF Cuts
    <2>3. QED  BY <2>2 DEF CutsTo
  <1>3. QED  BY <1>2 DEF CutsTo, Cuts

\* Every cell of the table says whether there is a cut; by induction on the
\* distance from the first cell.
LEMMA DpCutsTo ==
    ASSUME NEW p \in Labels, NEW h \in Labels
    PROVE  DpMatches(p, h) <=> CutsTo(p, h, Len(p), Len(h))
  <1> DEFINE m == Len(p)
             n == Len(h)
             Says(f, i, j) == f[<<i, j>>] <=> CutsTo(p, h, i, j)
  <1>1. m \in Nat /\ n \in Nat
    BY LenProperties DEF Labels
  <1>2. PICK f :
              /\ DpMatches(p, h) = f[<<m, n>>]
              /\ \A i \in 0..m, j \in 0..n :
                    /\ f[<<i, j>>] \in BOOLEAN
                    /\ f[<<i, j>>] = DpBody(p, h, <<i, j>>, f)
    BY DpSteps
  <1> DEFINE Q == {r \in Nat : \A i \in 0..m, j \in 0..n :
                                  i + j <= r => Says(f, i, j)}
  <1>3. ASSUME NEW j \in 0..n PROVE Says(f, 0, j)
    <2>1. 0 \in 0..m
      BY <1>1
    <2>2. f[<<0, j>>] = DpBody(p, h, <<0, j>>, f) /\ f[<<0, j>>] \in BOOLEAN
      BY <1>2, <2>1
    <2>3. DpBody(p, h, <<0, j>>, f) <=> j = 0
      BY DEF DpBody
    <2>4. f[<<0, j>>] <=> j = 0
      BY <2>2, <2>3
    <2>5. QED  BY <2>4, CutsNone
  <1>4. 0 \in Q
    <2>1. ASSUME NEW i \in 0..m, NEW j \in 0..n, i + j <= 0 PROVE Says(f, i, j)
      <3>1. i = 0
        BY <1>1, <2>1
      <3> HIDE DEF Says
      <3>2. QED  BY <1>3, <3>1
    <2>2. QED  BY <2>1
  <1>5. ASSUME NEW r \in Nat, r \in Q PROVE r + 1 \in Q
    <2> SUFFICES ASSUME NEW i \in 0..m, NEW j \in 0..n, i + j <= r + 1
                 PROVE  Says(f, i, j)
      OBVIOUS
    <2>1. \A a \in 0..m, b \in 0..n : a + b <= r => Says(f, a, b)
      BY <1>5
    <2> HIDE DEF Q, Says
    <2>2. CASE i = 0
      BY <1>3, <2>2
    <2>3. CASE i # 0 /\ p[i] = "**"
      <3>1. i \in 1..m /\ i - 1 \in 0..m
        BY <1>1, <2>3
      <3>2. f[<<i, j>>] = (f[<<i - 1, j>>] \/ (j > 0 /\ f[<<i, j - 1>>]))
        BY <1>2, <2>3 DEF DpBody
      <3>3. Says(f, i - 1, j)
        <4>1. (i - 1) + j <= r
          BY <1>1, <3>1
        <4>2. QED  BY <2>1, <3>1, <4>1
      <3>4. j > 0 => j - 1 \in 0..n /\ Says(f, i, j - 1)
        <4>1. j > 0 => j - 1 \in 0..n /\ i + (j - 1) <= r
          BY <1>1, <3>1
        <4>2. QED  BY <2>1, <4>1
      <3>5. ASSUME f[<<i, j>>] PROVE CutsTo(p, h, i, j)
        <4>1. CASE f[<<i - 1, j>>]
          <5>1. CutsTo(p, h, i - 1, j) /\ j <= j
            BY <1>1, <3>3, <4>1 DEF Says
          <5>2. QED  BY <2>3, <3>1, <5>1, CutsExtend
        <4>2. CASE j > 0 /\ f[<<i, j - 1>>]
          <5>1. CutsTo(p, h, i, j - 1) /\ j - 1 \in 0..n
            BY <3>4, <4>2 DEF Says
          <5>2. PICK k \in 0..n : CutsTo(p, h, i - 1, k) /\ k <= j - 1
            BY <2>3, <3>1, <5>1, CutsShorten
          <5>3. k <= j
            BY <1>1, <5>2
          <5>4. QED  BY <2>3, <3>1, <5>2, <5>3, CutsExtend
        <4>3. QED  BY <3>2, <3>5, <4>1, <4>2
      <3>6. ASSUME CutsTo(p, h, i, j) PROVE f[<<i, j>>]
        <4>1. PICK k \in 0..n : CutsTo(p, h, i - 1, k) /\ k <= j
          BY <2>3, <3>1, <3>6, CutsShorten
        <4>2. CASE k = j
          BY <3>2, <3>3, <4>1, <4>2 DEF Says
        <4>3. CASE k # j
          <5>1. j > 0 /\ j - 1 \in 0..n /\ k <= j - 1
            BY <1>1, <4>1, <4>3
          <5>2. CutsTo(p, h, i, j - 1)
            BY <2>3, <3>1, <4>1, <5>1, CutsExtend
          <5>3. QED  BY <3>2, <3>4, <5>1, <5>2 DEF Says
        <4>4. QED  BY <4>2, <4>3
      <3>7. QED  BY <3>5, <3>6 DEF Says
    <2>4. CASE i # 0 /\ p[i] # "**"
      <3>1. i \in 1..m /\ i - 1 \in 0..m
        BY <1>1, <2>4
      <3>2. f[<<i, j>>] = (j > 0 /\ p[i] \in {"*", h[j]} /\ f[<<i - 1, j - 1>>])
        BY <1>2, <2>4 DEF DpBody
      <3>3. j > 0 => j - 1 \in 0..n /\ j = (j - 1) + 1 /\ Says(f, i - 1, j - 1)
        <4>1. j > 0 => /\ j - 1 \in 0..n /\ j = (j - 1) + 1
                       /\ (i - 1) + (j - 1) <= r
          BY <1>1, <3>1
        <4>2. QED  BY <2>1, <3>1, <4>1
      <3>4. ASSUME f[<<i, j>>] PROVE CutsTo(p, h, i, j)
        <4>1. /\ j - 1 \in 0..n /\ j = (j - 1) + 1 /\ CutsTo(p, h, i - 1, j - 1)
              /\ p[i] \in {"*", h[j]}
          BY <3>2, <3>3, <3>4 DEF Says
        <4>2. QED  BY <2>4, <3>1, <4>1, CutsExtend
      <3>5. ASSUME CutsTo(p, h, i, j) PROVE f[<<i, j>>]
        <4>1. PICK k \in 0..n : /\ CutsTo(p, h, i - 1, k) /\ j = k + 1
                                /\ p[i] \in {"*", h[j]}
          BY <2>4, <3>1, <3>5, CutsShorten
        <4>2. j > 0 /\ k = j - 1
          BY <1>1, <4>1
        <4>3. QED  BY <3>2, <3>3, <4>1, <4>2 DEF Says
      <3>6. QED  BY <3>4, <3>5 DEF Says
    <2>5. QED  BY <2>2, <2>3, <2>4
  <1> HIDE DEF Q, Says
  <1>6. Nat \subseteq Q
    BY <1>4, <1>5, NaturalsAreIn
  <1>7. Says(f, m, n)
    <2>1. m + n \in Nat /\ m \in 0..m /\ n \in 0..n /\ m + n <= m + n
      BY <1>1
    <2>2. m + n \in Q
      BY <1>6, <2>1
    <2>3. QED  BY <2>1, <2>2 DEF Q
  <1>8. QED  BY <1>2, <1>7 DEF Says

\* The table decides the meaning of a pattern.
THEOREM DpMatchesCovers ==
    ASSUME NEW p \in Labels, NEW h \in Labels, ~IsCatchAll(p)
    PROVE  DpMatches(p, h) <=> Covers(p, h)
  BY DpCutsTo, CoversByCuts, CoversHasCuts DEF CutsTo

-----------------------------------------------------------------------------
\* Stars: a pattern with few of them covers hosts label by label.

\* A label without stars is no wildcard.
LEMMA StarsInIs ==
    ASSUME NEW label
    PROVE  /\ StarsIn(label) \in Nat
           /\ StarsIn("*") = 1 /\ StarsIn("**") = 2
           /\ StarsIn(label) = 0 => label # "*" /\ label # "**"
  BY DEF StarsIn

\* StarCount, unfolded label by label.
LEMMA StarCountSteps ==
    ASSUME NEW p \in Labels
    PROVE  \E count \in [0..Len(p) -> Nat] :
              /\ count[0] = 0
              /\ \A n \in 1..Len(p) : count[n] = count[n - 1] + StarsIn(p[n])
              /\ StarCount(p) = count[Len(p)]
  <1> DEFINE D == 0..Len(p)
             rank == [n \in D |-> n]
             body(n, f) == IF n = 0 THEN 0 ELSE f[n - 1] + StarsIn(p[n])
             step == [n \in D |-> [f \in [D -> Nat] |-> body(n, f)]]
             Is(f) == f = [n \in D |-> body(n, f)]
             chosen == CHOOSE f : Is(f)
  <1>1. Len(p) \in Nat
    BY LenProperties DEF Labels
  <1>2. \A n \in D : n # 0 => n - 1 \in D /\ n - 1 < n
    BY <1>1
  <1>3. ASSUME NEW n \in D, NEW f \in [D -> Nat]
        PROVE  body(n, f) \in Nat
    BY <1>2, StarsInIs
  <1>4. step \in [D -> [[D -> Nat] -> Nat]]
    BY <1>3
  <1>5. ASSUME NEW q \in D, NEW f \in [D -> Nat], NEW g \in [D -> Nat],
               \A r \in D : rank[r] < rank[q] => f[r] = g[r]
        PROVE  step[q][f] = step[q][g]
    <2>1. q # 0 => f[q - 1] = g[q - 1]
      BY <1>2, <1>5
    <2>2. body(q, f) = body(q, g)
      BY <2>1
    <2>3. QED  BY <2>2
  <1>6. StepsDown(D, Nat, rank, step)
    <2>1. rank \in [D -> 0..Len(p)]
      OBVIOUS
    <2>2. QED  BY <1>1, <1>4, <1>5, <2>1 DEF StepsDown
  <1>7. \E f \in [D -> Nat] : f = [q \in D |-> step[q][f]]
    <2> HIDE DEF D, rank, step
    <2>1. QED  BY <1>6, Recursion
  <1>8. \E f : Is(f)
    <2>1. PICK f \in [D -> Nat] : f = [q \in D |-> step[q][f]]
      BY <1>7
    <2>2. Is(f)
      BY <2>1
    <2>3. QED  BY <2>2
  <1>9. Is(chosen)
    BY <1>8
  <1>10. StarCount(p) = chosen[Len(p)]
    BY DEF StarCount
  <1> HIDE DEF chosen
  <1>11. chosen[0] = 0
    BY <1>1, <1>9
  <1>12. ASSUME NEW n \in 1..Len(p)
         PROVE  chosen[n] = chosen[n - 1] + StarsIn(p[n])
    BY <1>1, <1>9
  <1>13. chosen \in [D -> Nat]
    <2> DEFINE Q == {n \in Nat : n <= Len(p) => chosen[n] \in Nat}
    <2>1. 0 \in Q
      BY <1>11
    <2>2. ASSUME NEW n \in Nat, n \in Q PROVE n + 1 \in Q
      <3> SUFFICES ASSUME n + 1 <= Len(p) PROVE chosen[n + 1] \in Nat
        OBVIOUS
      <3>1. n + 1 \in 1..Len(p) /\ (n + 1) - 1 = n /\ n <= Len(p)
        BY <1>1
      <3>2. chosen[n + 1] = chosen[n] + StarsIn(p[n + 1])
        BY <1>12, <3>1
      <3>3. QED  BY <2>2, <3>1, <3>2, StarsInIs
    <2> HIDE DEF Q
    <2>3. Nat \subseteq Q
      BY <2>1, <2>2, NaturalsAreIn
    <2>4. \A n \in D : chosen[n] \in Nat
      BY <1>1, <2>3 DEF Q
    <2>5. QED  BY <1>9, <2>4
  <1>14. QED  BY <1>10, <1>11, <1>12, <1>13

\* The stars of a pattern are at least those of any two of its labels.
LEMMA StarCountIs ==
    ASSUME NEW p \in Labels
    PROVE  /\ StarCount(p) \in Nat
           /\ \A i \in 1..Len(p) : StarsIn(p[i]) <= StarCount(p)
           /\ \A i, j \in 1..Len(p) :
                 i < j => StarsIn(p[i]) + StarsIn(p[j]) <= StarCount(p)
           /\ IsPlain(p) => StarCount(p) = 0
  <1>1. PICK count \in [0..Len(p) -> Nat] :
              /\ count[0] = 0
              /\ \A n \in 1..Len(p) : count[n] = count[n - 1] + StarsIn(p[n])
              /\ StarCount(p) = count[Len(p)]
    BY StarCountSteps
  <1> DEFINE l == Len(p)
             s(i) == StarsIn(p[i])
             Says(n) == /\ \A i \in 1..n : s(i) <= count[n]
                        /\ \A i, j \in 1..n : i < j => s(i) + s(j) <= count[n]
                        /\ (\A i \in 1..l : s(i) = 0) => count[n] = 0
             Q == {n \in Nat : n <= l => Says(n)}
  <1>2. l \in Nat /\ DOMAIN p = 1..l
    BY LenProperties DEF Labels
  <1>3. \A i : s(i) \in Nat
    BY StarsInIs
  <1> HIDE DEF l, s
  <1>4. 0 \in Q
    <2>1. \A i \in 1..0 : FALSE
      OBVIOUS
    <2>2. QED  BY <1>1, <2>1
  <1>5. ASSUME NEW n \in Nat, n \in Q PROVE n + 1 \in Q
    <2> SUFFICES ASSUME n + 1 <= l PROVE Says(n + 1)
      OBVIOUS
    <2>1. /\ n + 1 \in 1..l /\ (n + 1) - 1 = n /\ n <= l /\ n \in 0..l
          /\ n + 1 \in 0..l
      BY <1>2
    <2>2. count[n + 1] = count[n] + s(n + 1)
      BY <1>1, <2>1 DEF l, s
    <2>3. count[n] \in Nat
      BY <1>1, <2>1 DEF l
    <2>4. Says(n)
      BY <1>5, <2>1
    <2>5. \A i \in 1..(n + 1) : i \in 1..n \/ i = n + 1
      OBVIOUS
    <2>6. ASSUME NEW i \in 1..(n + 1) PROVE s(i) <= count[n + 1]
      <3>1. i \in 1..n => s(i) <= count[n]
        BY <2>4
      <3>2. s(i) \in Nat /\ s(n + 1) \in Nat
        BY <1>3
      <3>3. QED  BY <2>2, <2>3, <2>5, <3>1, <3>2
    <2>7. ASSUME NEW i \in 1..(n + 1), NEW j \in 1..(n + 1), i < j
          PROVE  s(i) + s(j) <= count[n + 1]
      <3>1. i \in 1..n
        BY <2>7
      <3>2. s(i) \in Nat /\ s(j) \in Nat /\ s(n + 1) \in Nat
        BY <1>3
      <3>3. s(i) <= count[n]
        BY <2>4, <3>1
      <3>4. j \in 1..n => s(i) + s(j) <= count[n]
        BY <2>4, <2>7, <3>1
      <3>5. CASE j = n + 1
        BY <2>2, <2>3, <3>2, <3>3, <3>5
      <3>6. CASE j \in 1..n
        BY <2>2, <2>3, <3>2, <3>4, <3>6
      <3>7. QED  BY <2>5, <3>5, <3>6
    <2>8. (\A i \in 1..l : s(i) = 0) => count[n + 1] = 0
      BY <2>1, <2>2, <2>4
    <2>9. QED  BY <2>6, <2>7, <2>8
  <1> HIDE DEF Q
  <1>6. Nat \subseteq Q
    BY <1>4, <1>5, NaturalsAreIn
  <1>7. Says(l)
    BY <1>2, <1>6 DEF Q
  <1>8. count[l] = StarCount(p) /\ count[l] \in Nat
    BY <1>1, <1>2 DEF l
  <1>9. IsPlain(p) <=> \A i \in 1..l : s(i) = 0
    BY <1>2 DEF IsPlain, s
  <1>10. QED  BY <1>7, <1>8, <1>9 DEF l, s

\* Without "**", the labels before a position are cut one by one.
LEMMA CutsOneByOne ==
    ASSUME NEW p \in Labels, NEW h \in Labels, NEW c, Cuts(p, h, Len(p), c),
           NEW a \in 0..Len(p), NEW b \in a..Len(p),
           \A i \in (a + 1)..b : p[i] # "**"
    PROVE  \A i \in a..b : c[i] = c[a] + (i - a)
  <1> DEFINE m == Len(p)
             Q == {n \in Nat : a + n <= b => c[a + n] = c[a] + n}
  <1>1. m \in Nat /\ a \in 0..m /\ b \in a..m
    BY LenProperties DEF Labels
  <1>2. \A i \in 0..m : c[i] \in Nat
    <2>1. Len(h) \in Nat
      BY LenProperties DEF Labels
    <2>2. QED  BY <2>1 DEF Cuts
  <1>3. \A i \in 1..m : p[i] # "**" => c[i] = c[i - 1] + 1
    BY DEF Cuts
  <1> HIDE DEF m
  <1>4. 0 \in Q
    <2>1. a + 0 = a /\ a \in 0..m
      BY <1>1
    <2>2. c[a] \in Nat
      BY <1>2, <2>1
    <2>3. QED  BY <2>1, <2>2
  <1>5. ASSUME NEW n \in Nat, n \in Q PROVE n + 1 \in Q
    <2> SUFFICES ASSUME a + (n + 1) <= b PROVE c[a + (n + 1)] = c[a] + (n + 1)
      OBVIOUS
    <2>1. /\ a + (n + 1) \in (a + 1)..b /\ a + (n + 1) \in 1..m
          /\ (a + (n + 1)) - 1 = a + n /\ a + n <= b /\ a \in 0..m
      BY <1>1
    <2>2. c[a + (n + 1)] = c[a + n] + 1
      BY <1>3, <2>1
    <2>3. c[a + n] = c[a] + n /\ c[a] \in Nat
      BY <1>2, <1>5, <2>1
    <2>4. \A x \in Nat : (x + n) + 1 = x + (n + 1)
      OBVIOUS
    <2>5. (c[a] + n) + 1 = c[a] + (n + 1)
      BY <2>3, <2>4
    <2>6. QED  BY <2>2, <2>3, <2>5
  <1> HIDE DEF Q
  <1>6. Nat \subseteq Q
    BY <1>4, <1>5, NaturalsAreIn
  <1>7. ASSUME NEW i \in a..b PROVE c[i] = c[a] + (i - a)
    <2>1. i - a \in Nat /\ a + (i - a) = i /\ i <= b
      BY <1>1
    <2>2. i - a \in Q
      BY <1>6, <2>1
    <2>3. QED  BY <2>1, <2>2 DEF Q
  <1>8. QED  BY <1>7

\* Without `**` a pattern covers the hosts it fits label by label.
LEMMA CoversFits ==
    ASSUME NEW p \in Labels, NEW h \in Labels, Covers(p, h), ~IsCatchAll(p),
           \A i \in 1..Len(p) : p[i] # "**"
    PROVE  Fits(p, h)
  <1>1. PICK c : Cuts(p, h, Len(p), c) /\ c[Len(p)] = Len(h)
    BY CoversHasCuts
  <1>2. Len(p) \in Nat /\ Len(h) \in Nat
    BY LenProperties DEF Labels
  <1>3. \A i \in 0..Len(p) : c[i] = i
    <2>1. /\ 0 \in 0..Len(p) /\ Len(p) \in 0..Len(p)
          /\ \A i \in (0 + 1)..Len(p) : p[i] # "**"
      BY <1>2
    <2>2. \A i \in 0..Len(p) : c[i] = c[0] + (i - 0)
      BY <1>1, <2>1, CutsOneByOne
    <2>3. c[0] = 0
      BY <1>1 DEF Cuts
    <2>4. QED  BY <1>2, <2>2, <2>3
  <1>4. Len(p) = Len(h)
    BY <1>1, <1>2, <1>3
  <1>5. \A i \in 1..Len(p) : i \in 0..Len(p) /\ p[i] \in {"*", h[c[i]]}
    BY <1>1, <1>2 DEF Cuts
  <1>6. QED  BY <1>3, <1>4, <1>5 DEF Fits

\* With one `**` it covers the hosts that it fits before and after it.
LEMMA CoversSplits ==
    ASSUME NEW p \in Labels, NEW h \in Labels, Covers(p, h), ~IsCatchAll(p),
           NEW k \in 1..Len(p), p[k] = "**",
           \A i \in 1..Len(p) : i # k => p[i] # "**"
    PROVE  /\ Len(p) - 1 <= Len(h)
           /\ \A i \in 1..(k - 1) : p[i] \in {"*", h[i]}
           /\ \A i \in (k + 1)..Len(p) : p[i] \in {"*", h[i + Len(h) - Len(p)]}
  <1> DEFINE m == Len(p)
             n == Len(h)
  <1>1. PICK c : Cuts(p, h, Len(p), c) /\ c[Len(p)] = Len(h)
    BY CoversHasCuts
  <1>2. m \in Nat /\ n \in Nat /\ k \in 1..m
    BY LenProperties DEF Labels
  <1>3. /\ c \in [0..m -> 0..n] /\ c[0] = 0 /\ c[m] = n
        /\ \A i \in 1..m : IF p[i] = "**" THEN c[i - 1] <= c[i]
                           ELSE p[i] \in {"*", h[c[i]]}
    BY <1>1 DEF Cuts
  <1>4. \A i \in 0..(k - 1) : c[i] = i
    <2>1. /\ 0 \in 0..m /\ k - 1 \in 0..m
          /\ \A i \in (0 + 1)..(k - 1) : i \in 1..m /\ i # k
      BY <1>2
    <2>2. \A i \in (0 + 1)..(k - 1) : p[i] # "**"
      BY <2>1
    <2>3. \A i \in 0..(k - 1) : c[i] = c[0] + (i - 0)
      BY <1>1, <2>1, <2>2, CutsOneByOne
    <2>4. QED  BY <1>2, <1>3, <2>3
  <1>5. \A i \in k..m : c[i] = c[k] + (i - k)
    <2>1. /\ k \in 0..m /\ m \in k..m
          /\ \A i \in (k + 1)..m : i \in 1..m /\ i # k
      BY <1>2
    <2>2. \A i \in (k + 1)..m : p[i] # "**"
      BY <2>1
    <2>3. QED  BY <1>1, <2>1, <2>2, CutsOneByOne
  <1> HIDE DEF m, n
  <1>6. c[k] = n - (m - k) /\ c[k] \in Nat
    <2>1. c[m] = c[k] + (m - k)
      BY <1>2, <1>5
    <2>2. c[k] \in 0..n
      BY <1>2, <1>3
    <2>3. QED  BY <1>2, <1>3, <2>1, <2>2
  <1>7. m - 1 <= n
    <2>1. c[k - 1] = k - 1 /\ c[k - 1] <= c[k]
      BY <1>2, <1>3, <1>4
    <2>2. QED  BY <1>2, <1>6, <2>1
  <1>8. ASSUME NEW i \in 1..(k - 1) PROVE p[i] \in {"*", h[i]}
    <2>1. i \in 1..m /\ i \in 0..(k - 1) /\ i # k
      BY <1>2
    <2>2. p[i] \in {"*", h[c[i]]}
      BY <1>3, <2>1 DEF m
    <2>3. QED  BY <1>4, <2>1, <2>2
  <1>9. ASSUME NEW i \in (k + 1)..m PROVE p[i] \in {"*", h[i + n - m]}
    <2>1. i \in 1..m /\ i \in k..m /\ i # k
      BY <1>2
    <2>2. p[i] \in {"*", h[c[i]]}
      BY <1>3, <2>1 DEF m
    <2>3. c[i] = i + n - m
      BY <1>2, <1>5, <1>6, <2>1
    <2>4. QED  BY <2>2, <2>3
  <1>10. QED  BY <1>7, <1>8, <1>9 DEF m, n

-----------------------------------------------------------------------------
\* Each class serves the hosts that its patterns cover, and no other.

\* The entry of a pattern in the structure of its class.
KeyOf(class, p) ==
    IF class \in {"leading_wildcards", "double_star_leading"} THEN Tail(p)
    ELSE IF class \in {"trailing_wildcards", "double_star_trailing"}
    THEN Front(p) ELSE p

\* The entry of the pattern of index i in the Vec of its class.
EntryOf(class, p, i) ==
    IF class = "simple_internal_wildcards" THEN CutAt(p, FirstPos(p, "*"), i)
    ELSE IF class = "internal_double_star_wildcards"
    THEN CutAt(p, FirstPos(p, "**"), i)
    ELSE [labels |-> p, index |-> i]

\* The test by which the structure of a class finds the entry of p for h.
Serves(class, p, h) ==
    CASE class = "catch_all" -> TRUE
      [] class = "exact_matches" -> p = h
      [] class = "leading_wildcards" -> Len(h) > 1 /\ Tail(p) = Tail(h)
      [] class = "trailing_wildcards" -> Len(h) > 1 /\ Front(p) = Front(h)
      [] class = "double_star_leading" ->
            \E k \in 1..Len(h) : Endings(h)[k] = Tail(p)
      [] class = "double_star_trailing" ->
            \E k \in 1..Len(h) : Beginnings(h)[k] = Front(p)
      [] class = "simple_internal_wildcards" ->
            MatchesSingleInternal(CutAt(p, FirstPos(p, "*"), 0), h)
      [] class = "multi_star_trie" -> Fits(p, h)
      [] class = "internal_double_star_wildcards" ->
            MatchesInternalDoubleStar(CutAt(p, FirstPos(p, "**"), 0), h)
      [] OTHER -> DpMatches(p, h)

\* A pattern of one wildcard label is a catch-all.
LEMMA OneLabel ==
    ASSUME NEW p \in Labels, Len(p) = 1, p[1] \in {"*", "**"}
    PROVE  IsCatchAll(p)
  <1> DEFINE q == <<p[1]>>
  <1>1. p \in Seq(STRING)
    BY DEF Labels
  <1>2. 1 \in 1..Len(p)
    OBVIOUS
  <1>3. p[1] \in STRING
    BY <1>1, <1>2, ElementOfSeq
  <1>4. q \in Seq(STRING) /\ Len(q) = 1 /\ q[1] = p[1]
    BY <1>3
  <1> HIDE DEF q
  <1>5. p = q
    BY <1>1, <1>4, SeqEqual
  <1>6. QED  BY <1>5 DEF IsCatchAll, q

\* The parts of a label sequence.
LEMMA PartsOfLabels ==
    ASSUME NEW p \in Labels
    PROVE  /\ Len(p) \in Nat /\ Len(p) >= 1 /\ DOMAIN p = 1..Len(p)
           /\ p \in Seq(STRING)
           /\ Head(p) = p[1] /\ Last(p) = p[Len(p)]
           /\ Tail(p) \in Seq(STRING) /\ Len(Tail(p)) = Len(p) - 1
           /\ \A i \in 1..(Len(p) - 1) : Tail(p)[i] = p[i + 1]
           /\ Front(p) \in Seq(STRING) /\ Len(Front(p)) = Len(p) - 1
           /\ \A i \in 1..(Len(p) - 1) : Front(p)[i] = p[i]
  <1>1. p \in Seq(STRING) /\ p # <<>>
    BY DEF Labels
  <1>2. Len(p) \in Nat /\ Len(p) >= 1 /\ DOMAIN p = 1..Len(p)
    BY <1>1, EmptySeq, LenProperties
  <1>3. Head(p) = p[1] /\ Last(p) = p[Len(p)]
    BY <1>1 DEF Last
  <1>4. /\ Tail(p) \in Seq(STRING) /\ Len(Tail(p)) = Len(p) - 1
        /\ \A i \in 1..(Len(p) - 1) : Tail(p)[i] = p[i + 1]
    BY <1>1, HeadTailProperties
  <1>5. /\ Front(p) \in Seq(STRING) /\ Len(Front(p)) = Len(p) - 1
        /\ \A i \in 1..(Len(p) - 1) : Front(p)[i] = p[i]
    <2> DEFINE n == Len(p) - 1
    <2>1. n \in Nat /\ n <= Len(p) /\ 1 <= n + 1 /\ n + 1 - 1 = n
          /\ \A i \in 1..n : 1 + i - 1 = i
      BY <1>2
    <2> HIDE DEF n
    <2>2. /\ SubSeq(p, 1, n) \in Seq(STRING)
          /\ Len(SubSeq(p, 1, n)) = n + 1 - 1
          /\ \A i \in 1..(n + 1 - 1) : SubSeq(p, 1, n)[i] = p[1 + i - 1]
      BY <1>1, <2>1, PartOf
    <2>3. Front(p) = SubSeq(p, 1, n)
      BY DEF Front, n
    <2>4. /\ Front(p) \in Seq(STRING) /\ Len(Front(p)) = n
          /\ \A i \in 1..n : Front(p)[i] = p[i]
      BY <2>1, <2>2, <2>3
    <2>5. QED  BY <2>4 DEF n
  <1>6. QED  BY <1>1, <1>2, <1>3, <1>4, <1>5

\* The endings and beginnings of a host, label by label.
LEMMA PartsOfHost ==
    ASSUME NEW h \in Labels, NEW k \in 1..Len(h)
    PROVE  /\ Endings(h)[k] \in Seq(STRING) /\ Len(Endings(h)[k]) = k
           /\ \A i \in 1..k : Endings(h)[k][i] = h[i + Len(h) - k]
           /\ Beginnings(h)[k] \in Seq(STRING) /\ Len(Beginnings(h)[k]) = k
           /\ \A i \in 1..k : Beginnings(h)[k][i] = h[i]
  <1> DEFINE l == Len(h)
             m == l - k + 1
  <1>1. l \in Nat /\ h \in Seq(STRING) /\ k \in Nat /\ k <= l /\ k >= 1
    BY LenProperties DEF Labels
  <1>2. /\ SubSeq(h, 1, k) \in Seq(STRING)
        /\ Len(SubSeq(h, 1, k)) = k
        /\ \A i \in 1..k : SubSeq(h, 1, k)[i] = h[i]
    <2>1. 1 <= k + 1 /\ k + 1 - 1 = k /\ \A i \in 1..k : 1 + i - 1 = i
      BY <1>1
    <2>2. /\ SubSeq(h, 1, k) \in Seq(STRING)
          /\ Len(SubSeq(h, 1, k)) = k + 1 - 1
          /\ \A i \in 1..(k + 1 - 1) : SubSeq(h, 1, k)[i] = h[1 + i - 1]
      BY <1>1, <2>1, PartOf
    <2>3. QED  BY <2>1, <2>2
  <1>3. /\ SubSeq(h, m, l) \in Seq(STRING)
        /\ Len(SubSeq(h, m, l)) = k
        /\ \A i \in 1..k : SubSeq(h, m, l)[i] = h[i + l - k]
    <2>1. /\ m \in Nat \ {0} /\ m <= l + 1 /\ l + 1 - m = k /\ l <= l
          /\ \A i \in 1..k : m + i - 1 = i + l - k
      BY <1>1
    <2> HIDE DEF m
    <2>2. /\ SubSeq(h, m, l) \in Seq(STRING)
          /\ Len(SubSeq(h, m, l)) = l + 1 - m
          /\ \A i \in 1..(l + 1 - m) : SubSeq(h, m, l)[i] = h[m + i - 1]
      BY <1>1, <2>1, PartOf
    <2>3. QED  BY <2>1, <2>2
  <1>4. Endings(h)[k] = SubSeq(h, m, l) /\ Beginnings(h)[k] = SubSeq(h, 1, k)
    BY DEF Endings, Beginnings
  <1>5. QED  BY <1>2, <1>3, <1>4

\* The two parts of a pattern that is cut.
LEMMA PartsOfCut ==
    ASSUME NEW p \in Labels, NEW k \in 1..Len(p), NEW x
    PROVE  /\ CutAt(p, k, x).prefix \in Seq(STRING)
           /\ Len(CutAt(p, k, x).prefix) = k - 1
           /\ \A i \in 1..(k - 1) : CutAt(p, k, x).prefix[i] = p[i]
           /\ CutAt(p, k, x).suffix \in Seq(STRING)
           /\ Len(CutAt(p, k, x).suffix) = Len(p) - k
           /\ \A i \in 1..(Len(p) - k) : CutAt(p, k, x).suffix[i] = p[k + i]
  <1> DEFINE l == Len(p)
             a == k - 1
             b == k + 1
  <1>1. l \in Nat /\ p \in Seq(STRING) /\ k \in Nat /\ k <= l /\ k >= 1
    BY LenProperties DEF Labels
  <1>2. /\ SubSeq(p, 1, a) \in Seq(STRING)
        /\ Len(SubSeq(p, 1, a)) = a
        /\ \A i \in 1..a : SubSeq(p, 1, a)[i] = p[i]
    <2>1. /\ a \in Nat /\ a <= l /\ 1 <= a + 1 /\ a + 1 - 1 = a
          /\ \A i \in 1..a : 1 + i - 1 = i
      BY <1>1
    <2> HIDE DEF a
    <2>2. /\ SubSeq(p, 1, a) \in Seq(STRING)
          /\ Len(SubSeq(p, 1, a)) = a + 1 - 1
          /\ \A i \in 1..(a + 1 - 1) : SubSeq(p, 1, a)[i] = p[1 + i - 1]
      BY <1>1, <2>1, PartOf
    <2>3. QED  BY <2>1, <2>2
  <1>3. /\ SubSeq(p, b, l) \in Seq(STRING)
        /\ Len(SubSeq(p, b, l)) = l - k
        /\ \A i \in 1..(l - k) : SubSeq(p, b, l)[i] = p[k + i]
    <2>1. /\ b \in Nat \ {0} /\ b <= l + 1 /\ l + 1 - b = l - k /\ l <= l
          /\ \A i \in 1..(l - k) : b + i - 1 = k + i
      BY <1>1
    <2> HIDE DEF b
    <2>2. /\ SubSeq(p, b, l) \in Seq(STRING)
          /\ Len(SubSeq(p, b, l)) = l + 1 - b
          /\ \A i \in 1..(l + 1 - b) : SubSeq(p, b, l)[i] = p[b + i - 1]
      BY <1>1, <2>1, PartOf
    <2>3. QED  BY <2>1, <2>2
  <1>4. /\ CutAt(p, k, x).prefix = SubSeq(p, 1, a)
        /\ CutAt(p, k, x).suffix = SubSeq(p, b, l)
    BY DEF CutAt
  <1>5. QED  BY <1>2, <1>3, <1>4

\* p agrees with h on both sides of position k.
Around(p, k, h) ==
    /\ \A i \in 1..(k - 1) : p[i] = h[i]
    /\ \A i \in (k + 1)..Len(p) : p[i] = h[i + Len(h) - Len(p)]

\* The test of a pattern that is cut, label by label.
LEMMA CutMatches ==
    ASSUME NEW p \in Labels, NEW h \in Labels, NEW k \in 1..Len(p), NEW x
    PROVE  /\ MatchesSingleInternal(CutAt(p, k, x), h)
                <=> Len(p) = Len(h) /\ Around(p, k, h)
           /\ MatchesInternalDoubleStar(CutAt(p, k, x), h)
                <=> Len(p) - 1 <= Len(h) /\ Around(p, k, h)
  <1> DEFINE a == CutAt(p, k, x).prefix
             b == CutAt(p, k, x).suffix
             m == Len(p)
             n == Len(h)
  <1>1. m \in Nat /\ n \in Nat /\ h \in Seq(STRING) /\ k \in 1..m
    BY PartsOfLabels
  <1>2. /\ a \in Seq(STRING) /\ Len(a) = k - 1
        /\ \A i \in 1..(k - 1) : a[i] = p[i]
        /\ b \in Seq(STRING) /\ Len(b) = m - k
        /\ \A i \in 1..(m - k) : b[i] = p[k + i]
    BY PartsOfCut
  <1>3. /\ MatchesSingleInternal(CutAt(p, k, x), h) <=>
             Len(a) + 1 + Len(b) = n /\ IsPrefix(a, h) /\ IsSuffix(b, h)
        /\ MatchesInternalDoubleStar(CutAt(p, k, x), h) <=>
             Len(a) + Len(b) <= n /\ IsPrefix(a, h) /\ IsSuffix(b, h)
    BY DEF MatchesSingleInternal, MatchesInternalDoubleStar
  <1> HIDE DEF a, b
  <1>4. IsPrefix(a, h) <=> /\ Len(a) <= Len(h)
                           /\ \A i \in 1..Len(a) : a[i] = h[i]
    <2>1. \A u, v \in Seq(STRING) : IsPrefix(u, v) <=>
             Len(u) <= Len(v) /\ \A i \in 1..Len(u) : u[i] = v[i]
      BY PrefixIs
    <2>2. QED  BY <1>1, <1>2, <2>1
  <1>5. IsSuffix(b, h) <=>
           /\ Len(b) <= Len(h)
           /\ \A i \in 1..Len(b) : b[i] = h[i + Len(h) - Len(b)]
    <2>1. \A u, v \in Seq(STRING) : IsSuffix(u, v) <=>
             /\ Len(u) <= Len(v)
             /\ \A i \in 1..Len(u) : u[i] = v[i + Len(v) - Len(u)]
      BY SuffixIs
    <2>2. QED  BY <1>1, <1>2, <2>1
  <1>6. (\A i \in 1..Len(a) : a[i] = h[i]) <=> \A i \in 1..(k - 1) : p[i] = h[i]
    BY <1>2
  <1>7. (\A i \in 1..Len(b) : b[i] = h[i + Len(h) - Len(b)])
          <=> \A i \in (k + 1)..m : p[i] = h[i + n - m]
    <2>1. ASSUME NEW i \in 1..(m - k)
          PROVE  k + i \in (k + 1)..m /\ i + n - (m - k) = (k + i) + n - m
      BY <1>1
    <2>2. ASSUME NEW i \in (k + 1)..m
          PROVE  i - k \in 1..(m - k) /\ k + (i - k) = i
                 /\ (i - k) + n - (m - k) = i + n - m
      BY <1>1
    <2>3. ASSUME \A i \in 1..Len(b) : b[i] = h[i + Len(h) - Len(b)],
                 NEW i \in (k + 1)..m
          PROVE  p[i] = h[i + n - m]
      <3> DEFINE r == i - k
      <3>1. r \in 1..(m - k) /\ k + r = i /\ r + n - (m - k) = i + n - m
        BY <2>2
      <3> HIDE DEF r
      <3>2. b[r] = h[r + n - (m - k)] /\ b[r] = p[k + r]
        BY <1>2, <2>3, <3>1
      <3>3. QED  BY <3>1, <3>2
    <2>4. ASSUME \A i \in (k + 1)..m : p[i] = h[i + n - m],
                 NEW i \in 1..(m - k)
          PROVE  b[i] = h[i + n - (m - k)]
      <3> DEFINE r == k + i
      <3>1. r \in (k + 1)..m /\ i + n - (m - k) = r + n - m
        BY <2>1
      <3>2. b[i] = p[r]
        BY <1>2
      <3> HIDE DEF r
      <3>3. p[r] = h[r + n - m]
        BY <2>4, <3>1
      <3>4. QED  BY <3>1, <3>2, <3>3
    <2>5. QED  BY <1>2, <2>3, <2>4
  <1>8. Around(p, k, h) <=> /\ \A i \in 1..(k - 1) : p[i] = h[i]
                            /\ \A i \in (k + 1)..m : p[i] = h[i + n - m]
    BY DEF Around
  <1> HIDE DEF m, n
  <1>9. /\ Len(a) + 1 + Len(b) = n <=> m = n
        /\ Len(a) + Len(b) <= n <=> m - 1 <= n
    BY <1>1, <1>2
  <1>10. m - 1 <= n => Len(a) <= n /\ Len(b) <= n
    BY <1>1, <1>2
  <1>11. m = n => m - 1 <= n
    BY <1>1
  <1>12. QED
    BY <1>3, <1>4, <1>5, <1>6, <1>7, <1>8, <1>9, <1>10, <1>11 DEF m, n

\* What the class of a pattern says of its labels.
LEMMA ClassFacts ==
    ASSUME NEW p
    PROVE  /\ ClassOf(p) = "catch_all" <=> IsCatchAll(p)
           /\ ClassOf(p) = "exact_matches" => StarCount(p) = 0
           /\ ClassOf(p) = "leading_wildcards" => IsLeading(p)
           /\ ClassOf(p) = "trailing_wildcards" => IsTrailing(p)
           /\ ClassOf(p) = "double_star_leading" => IsDoubleLeading(p)
           /\ ClassOf(p) = "double_star_trailing" => IsDoubleTrailing(p)
           /\ ClassOf(p) = "simple_internal_wildcards" => IsSimpleInternal(p)
           /\ ClassOf(p) = "multi_star_trie" => IsMultiStar(p)
           /\ ClassOf(p) = "internal_double_star_wildcards" => IsDoubleInternal(p)
           /\ ClassOf(p) \in {"catch_all", "exact_matches",
                "leading_wildcards", "trailing_wildcards",
                "double_star_leading", "double_star_trailing",
                "simple_internal_wildcards", "multi_star_trie",
                "internal_double_star_wildcards", "complex_patterns"}
  BY DEF ClassOf

\* A class serves only the hosts that the pattern covers.
LEMMA ServesCovers ==
    ASSUME NEW p \in Labels, NEW h \in Labels, Serves(ClassOf(p), p, h)
    PROVE  Covers(p, h)
  <1> DEFINE m == Len(p)
             n == Len(h)
  <1>1. m \in Nat /\ n \in Nat /\ m >= 1 /\ n >= 1 /\ DOMAIN p = 1..m
    BY PartsOfLabels
  <1>2. CASE ClassOf(p) = "catch_all"
    BY <1>2, ClassFacts DEF Covers
  <1>3. CASE ClassOf(p) = "exact_matches"
    <2>1. p = h
      BY <1>3 DEF Serves
    <2>2. QED  BY <2>1, CoversLabelwise
  <1>4. CASE ClassOf(p) = "leading_wildcards"
    <2>1. IsLeading(p) /\ Tail(p) = Tail(h)
      BY <1>4, ClassFacts DEF Serves
    <2>2. p[1] = "*" /\ m = n
      BY <1>1, <2>1, PartsOfLabels DEF IsLeading
    <2>3. ASSUME NEW i \in 1..m, i # 1 PROVE p[i] = h[i]
      <3>1. i - 1 \in 1..(m - 1) /\ (i - 1) + 1 = i
        BY <1>1, <2>3
      <3>2. Tail(p)[i - 1] = p[i] /\ Tail(h)[i - 1] = h[i]
        BY <2>2, <3>1, PartsOfLabels
      <3>3. QED  BY <2>1, <3>2
    <2>4. QED  BY <2>2, <2>3, CoversLabelwise
  <1>5. CASE ClassOf(p) = "trailing_wildcards"
    <2>1. IsTrailing(p) /\ Front(p) = Front(h)
      BY <1>5, ClassFacts DEF Serves
    <2>2. p[m] = "*" /\ m = n
      BY <1>1, <2>1, PartsOfLabels DEF IsTrailing
    <2>3. ASSUME NEW i \in 1..m, i # m PROVE p[i] = h[i]
      <3>1. i \in 1..(m - 1)
        <4> HIDE DEF m
        <4>1. QED  BY <1>1, <2>3
      <3>2. Front(p)[i] = p[i] /\ Front(h)[i] = h[i]
        BY <2>2, <3>1, PartsOfLabels
      <3>3. QED  BY <2>1, <3>2
    <2>4. QED  BY <2>2, <2>3, CoversLabelwise
  <1>6. CASE ClassOf(p) = "double_star_leading"
    <2>1. IsDoubleLeading(p)
      BY <1>6, ClassFacts
    <2>2. PICK k \in 1..n : Endings(h)[k] = Tail(p)
      BY <1>6 DEF Serves
    <2>3. p[1] = "**" /\ k = m - 1
      BY <2>1, <2>2, PartsOfLabels, PartsOfHost, SMTT(30) DEF IsDoubleLeading
    <2>4. ASSUME NEW i \in 2..m PROVE p[i] = h[i + n - m]
      <3>1. i - 1 \in 1..k /\ (i - 1) + 1 = i /\ (i - 1) + n - k = i + n - m
        BY <1>1, <2>3
      <3>2. Tail(p)[i - 1] = p[i]
        BY <2>3, <3>1, PartsOfLabels
      <3>3. Endings(h)[k][i - 1] = h[(i - 1) + n - k]
        BY <3>1, PartsOfHost
      <3>4. QED  BY <2>2, <3>1, <3>2, <3>3
    <2>5. m - 1 <= n /\ 1 \in 1..m /\ 1 + 1 = 2 /\ \A i \in 1..(1 - 1) : FALSE
      BY <1>1, <2>3
    <2>6. QED  BY <2>3, <2>4, <2>5, CoversAround
  <1>7. CASE ClassOf(p) = "double_star_trailing"
    <2>1. IsDoubleTrailing(p)
      BY <1>7, ClassFacts
    <2>2. PICK k \in 1..n : Beginnings(h)[k] = Front(p)
      BY <1>7 DEF Serves
    <2>3. p[m] = "**" /\ k = m - 1
      <3>1. p[m] = "**"
        BY <2>1, PartsOfLabels DEF IsDoubleTrailing
      <3>2. Len(Front(p)) = m - 1
        BY PartsOfLabels
      <3>3. Len(Beginnings(h)[k]) = k
        BY PartsOfHost
      <3>4. QED  BY <2>2, <3>1, <3>2, <3>3
    <2>4. ASSUME NEW i \in 1..(m - 1) PROVE p[i] = h[i]
      <3>1. Front(p)[i] = p[i]
        BY PartsOfLabels
      <3>2. Beginnings(h)[k][i] = h[i]
        BY <2>3, PartsOfHost
      <3>3. QED  BY <2>2, <3>1, <3>2
    <2>5. m - 1 <= n /\ m \in 1..m /\ \A i \in (m + 1)..m : FALSE
      BY <1>1, <2>3
    <2>6. QED  BY <2>3, <2>4, <2>5, CoversAround
  <1>8. CASE ClassOf(p) = "simple_internal_wildcards"
    <2> DEFINE k == FirstPos(p, "*")
    <2>1. IsSimpleInternal(p) /\ MatchesSingleInternal(CutAt(p, k, 0), h)
      BY <1>8, ClassFacts DEF Serves
    <2>2. k \in 1..m /\ p[k] = "*"
      <3>1. k # 0
        BY <2>1 DEF IsSimpleInternal, Interior
      <3>2. QED  BY <3>1, FirstPosIs
    <2> HIDE DEF k
    <2>3. m = n /\ Around(p, k, h)
      BY <2>1, <2>2, CutMatches
    <2>4. ASSUME NEW i \in 1..m, i # k PROVE p[i] = h[i]
      <3>1. i \in 1..(k - 1) \/ i \in (k + 1)..m
        BY <1>1, <2>2, <2>4
      <3>2. i + n - m = i
        BY <1>1, <2>3
      <3>3. QED  BY <2>3, <3>1, <3>2 DEF Around
    <2>5. QED  BY <2>2, <2>3, <2>4, CoversLabelwise
  <1>9. CASE ClassOf(p) = "multi_star_trie"
    <2>1. Fits(p, h)
      BY <1>9 DEF Serves
    <2>2. QED  BY <2>1, CoversLabelwise DEF Fits
  <1>10. CASE ClassOf(p) = "internal_double_star_wildcards"
    <2> DEFINE k == FirstPos(p, "**")
    <2>1. IsDoubleInternal(p) /\ MatchesInternalDoubleStar(CutAt(p, k, 0), h)
      BY <1>10, ClassFacts DEF Serves
    <2>2. k \in 1..m /\ p[k] = "**"
      <3>1. k # 0
        BY <2>1 DEF IsDoubleInternal, Interior
      <3>2. QED  BY <3>1, FirstPosIs
    <2> HIDE DEF k
    <2>3. m - 1 <= n /\ Around(p, k, h)
      BY <2>1, <2>2, CutMatches
    <2>4. QED  BY <2>2, <2>3, CoversAround DEF Around
  <1>11. CASE ClassOf(p) = "complex_patterns"
    <2>1. DpMatches(p, h) /\ ~IsCatchAll(p)
      BY <1>11, ClassFacts DEF Serves
    <2>2. QED  BY <2>1, DpMatchesCovers
  <1>12. QED
    BY <1>2, <1>3, <1>4, <1>5, <1>6, <1>7, <1>8, <1>9, <1>10, <1>11, ClassFacts

\* A pattern has one `**` at most.
OneDoubleStar(p) ==
    \A i, j \in DOMAIN p : p[i] = "**" /\ p[j] = "**" => i = j

\* A label that a pattern does not have is none of its labels.
LEMMA HasIs ==
    ASSUME NEW p, NEW label, ~Has(p, label)
    PROVE  \A i \in 1..Len(p) : p[i] # label
  BY DEF Has, Contains

\* A class serves every host that the pattern covers, but the class of interior
\* `**` only if the pattern has no second one.
LEMMA CoversServes ==
    ASSUME NEW p \in Labels, NEW h \in Labels, Covers(p, h),
           IsDoubleInternal(p) => OneDoubleStar(p)
    PROVE  Serves(ClassOf(p), p, h)
  <1> DEFINE m == Len(p)
             n == Len(h)
  <1>1. /\ m \in Nat /\ n \in Nat /\ m >= 1 /\ n >= 1 /\ DOMAIN p = 1..m
        /\ p \in Seq(STRING) /\ h \in Seq(STRING)
    BY PartsOfLabels
  <1>2. CASE ClassOf(p) = "catch_all"
    BY <1>2 DEF Serves
  <1> SUFFICES ASSUME ~IsCatchAll(p) PROVE Serves(ClassOf(p), p, h)
    BY <1>2, ClassFacts
  <1>3. CASE ClassOf(p) = "exact_matches"
    <2>1. \A i \in 1..m : p[i] # "*" /\ p[i] # "**"
      <3>1. StarCount(p) = 0
        BY <1>3, ClassFacts
      <3>2. ASSUME NEW i \in 1..m PROVE StarsIn(p[i]) = 0
        <4>1. StarsIn(p[i]) <= 0 /\ StarsIn(p[i]) \in Nat
          BY <3>1, StarCountIs, StarsInIs
        <4>2. QED  BY <4>1
      <3>3. QED  BY <3>2, StarsInIs
    <2>2. Fits(p, h)
      BY <2>1, CoversFits
    <2>3. m = n /\ \A i \in 1..m : p[i] = h[i]
      BY <2>1, <2>2 DEF Fits
    <2>4. p = h
      BY <1>1, <2>3, SeqEqual
    <2>5. QED  BY <1>3, <2>4 DEF Serves
  <1>4. CASE ClassOf(p) = "leading_wildcards"
    <2>1. StarCount(p) = 1 /\ m > 1 /\ p[1] = "*"
      BY <1>4, ClassFacts, PartsOfLabels DEF IsLeading
    <2>2. ASSUME NEW i \in 2..m PROVE p[i] # "*" /\ p[i] # "**"
      <3>1. 1 \in 1..m /\ i \in 1..m /\ 1 < i
        BY <1>1
      <3>2. StarsIn(p[1]) + StarsIn(p[i]) <= 1
        BY <2>1, <3>1, StarCountIs
      <3>3. StarsIn(p[1]) = 1 /\ StarsIn(p[i]) \in Nat
        BY <2>1, StarsInIs
      <3>4. StarsIn(p[i]) = 0
        BY <3>2, <3>3
      <3>5. QED  BY <3>4, StarsInIs
    <2>3. \A i \in 1..m : i = 1 \/ i \in 2..m
      BY <1>1
    <2>4. Fits(p, h)
      BY <2>1, <2>2, <2>3, CoversFits
    <2>5. m = n /\ \A i \in 2..m : i \in 1..n /\ p[i] = h[i]
      <3>1. m = n /\ \A i \in 2..m : i \in 1..n
        BY <1>1, <2>4 DEF Fits
      <3>2. QED  BY <2>2, <2>4, <3>1 DEF Fits
    <2>6. ASSUME NEW i \in 1..(m - 1) PROVE Tail(p)[i] = Tail(h)[i]
      <3>1. i + 1 \in 2..m
        BY <1>1
      <3>2. Tail(p)[i] = p[i + 1]
        BY PartsOfLabels
      <3>3. i \in 1..(Len(h) - 1)
        BY <2>5
      <3>4. Tail(h)[i] = h[i + 1]
        BY <3>3, PartsOfLabels
      <3>5. QED  BY <2>5, <3>1, <3>2, <3>4
    <2>7. /\ Tail(p) \in Seq(STRING) /\ Tail(h) \in Seq(STRING)
          /\ Len(Tail(p)) = m - 1 /\ Len(Tail(h)) = m - 1
      BY <2>5, PartsOfLabels
    <2>8. Tail(p) = Tail(h)
      BY <2>6, <2>7, SeqEqual
    <2>9. QED  BY <1>4, <2>1, <2>5, <2>8 DEF Serves
  <1>5. CASE ClassOf(p) = "trailing_wildcards"
    <2>1. StarCount(p) = 1 /\ m > 1 /\ p[m] = "*"
      BY <1>5, ClassFacts, PartsOfLabels DEF IsTrailing
    <2>2. ASSUME NEW i \in 1..(m - 1) PROVE p[i] # "*" /\ p[i] # "**"
      <3>1. m \in 1..m /\ i \in 1..m /\ i < m
        BY <1>1
      <3>2. StarsIn(p[i]) + StarsIn(p[m]) <= 1
        BY <2>1, <3>1, StarCountIs
      <3>3. StarsIn(p[m]) = 1 /\ StarsIn(p[i]) \in Nat
        BY <2>1, StarsInIs
      <3>4. StarsIn(p[i]) = 0
        BY <3>2, <3>3
      <3>5. QED  BY <3>4, StarsInIs
    <2>3. \A i \in 1..m : i = m \/ i \in 1..(m - 1)
      <3> HIDE DEF m
      <3>1. QED  BY <1>1
    <2>4. Fits(p, h)
      BY <2>1, <2>2, <2>3, CoversFits
    <2>5. m = n /\ \A i \in 1..(m - 1) : i \in 1..n /\ p[i] = h[i]
      <3>1. m = n
        BY <2>4 DEF Fits
      <3>2. \A i \in 1..(m - 1) : i \in 1..n
        <4> HIDE DEF m, n
        <4>1. QED  BY <1>1, <3>1
      <3>3. QED  BY <2>2, <2>4, <3>1, <3>2 DEF Fits
    <2>6. ASSUME NEW i \in 1..(m - 1) PROVE Front(p)[i] = Front(h)[i]
      <3>1. Front(p)[i] = p[i]
        BY PartsOfLabels
      <3>2. i \in 1..(Len(h) - 1)
        BY <2>5
      <3>3. Front(h)[i] = h[i]
        BY <3>2, PartsOfLabels
      <3>4. QED  BY <2>5, <3>1, <3>3
    <2>7. /\ Front(p) \in Seq(STRING) /\ Front(h) \in Seq(STRING)
          /\ Len(Front(p)) = m - 1 /\ Len(Front(h)) = m - 1
      BY <2>5, PartsOfLabels
    <2>8. Front(p) = Front(h)
      BY <2>6, <2>7, SeqEqual
    <2>9. QED  BY <1>5, <2>1, <2>5, <2>8 DEF Serves
  <1>6. CASE ClassOf(p) = "double_star_leading"
    <2>1. p[1] = "**" /\ IsPlain(Tail(p))
      BY <1>6, ClassFacts, PartsOfLabels DEF IsDoubleLeading
    <2>2. m > 1
      <3>1. m # 1
        BY <2>1, OneLabel
      <3>2. QED  BY <1>1, <3>1
    <2>3. /\ Tail(p) \in Seq(STRING) /\ Len(Tail(p)) = m - 1
          /\ \A i \in 1..(m - 1) : Tail(p)[i] = p[i + 1]
      BY PartsOfLabels
    <2>4. ASSUME NEW i \in 1..(m - 1)
          PROVE  Tail(p)[i] # "*" /\ Tail(p)[i] # "**"
      <3>1. i \in DOMAIN Tail(p)
        BY <2>3, LenProperties
      <3>2. StarsIn(Tail(p)[i]) = 0
        BY <2>1, <3>1 DEF IsPlain
      <3>3. QED  BY <3>2, StarsInIs
    <2>5. ASSUME NEW i \in 1..m, i # 1
          PROVE  /\ i - 1 \in 1..(m - 1) /\ (i - 1) + 1 = i
                 /\ p[i] # "*" /\ p[i] # "**"
      <3>1. i - 1 \in 1..(m - 1) /\ (i - 1) + 1 = i
        BY <1>1, <2>5
      <3>2. QED  BY <2>3, <2>4, <3>1
    <2>6. /\ m - 1 <= n
          /\ \A i \in (1 + 1)..m : p[i] \in {"*", h[i + n - m]}
      <3>1. 1 \in 1..m
        BY <1>1
      <3>2. \A i \in 1..m : i # 1 => p[i] # "**"
        BY <2>5
      <3>3. QED  BY <2>1, <3>1, <3>2, CoversSplits
    <2> DEFINE k == m - 1
    <2>7. k \in 1..n
      BY <1>1, <2>2, <2>6
    <2>8. /\ Endings(h)[k] \in Seq(STRING) /\ Len(Endings(h)[k]) = k
          /\ \A i \in 1..k : Endings(h)[k][i] = h[i + n - k]
      BY <2>7, PartsOfHost
    <2>9. ASSUME NEW i \in 1..k PROVE Tail(p)[i] = Endings(h)[k][i]
      <3>1. i + 1 \in (1 + 1)..m /\ (i + 1) + n - m = i + n - k
        BY <1>1
      <3>2. p[i + 1] \in {"*", h[i + n - k]}
        BY <2>6, <3>1
      <3>3. Tail(p)[i] = p[i + 1]
        BY <2>3
      <3>4. Tail(p)[i] = h[i + n - k]
        BY <2>4, <3>2, <3>3
      <3>5. QED  BY <2>8, <3>4
    <2>10. Tail(p) = Endings(h)[k]
      <3> DEFINE s == Tail(p)
                 t == Endings(h)[k]
      <3>1. /\ s \in Seq(STRING) /\ t \in Seq(STRING) /\ Len(s) = k /\ Len(t) = k
            /\ \A i \in 1..k : s[i] = t[i]
        <4>1. s \in Seq(STRING) /\ Len(s) = k
          BY <2>3
        <4>2. t \in Seq(STRING) /\ Len(t) = k
          BY <2>8
        <4>3. \A i \in 1..k : s[i] = t[i]
          BY <2>9
        <4>4. QED  BY <4>1, <4>2, <4>3
      <3> HIDE DEF s, t, k
      <3>2. s = t
        BY <3>1, SeqEqual
      <3>3. QED  BY <3>2 DEF s, t
    <2>11. QED  BY <1>6, <2>7, <2>10, SMTT(30) DEF Serves
  <1>7. CASE ClassOf(p) = "double_star_trailing"
    <2>1. p[m] = "**" /\ IsPlain(Front(p))
      BY <1>7, ClassFacts, PartsOfLabels DEF IsDoubleTrailing
    <2>2. m > 1
      <3>1. m # 1
        BY <2>1, OneLabel
      <3>2. QED  BY <1>1, <3>1
    <2>3. /\ Front(p) \in Seq(STRING) /\ Len(Front(p)) = m - 1
          /\ \A i \in 1..(m - 1) : Front(p)[i] = p[i]
      BY PartsOfLabels
    <2>4. ASSUME NEW i \in 1..(m - 1) PROVE p[i] # "*" /\ p[i] # "**"
      <3>1. i \in DOMAIN Front(p)
        BY <2>3, LenProperties
      <3>2. StarsIn(p[i]) = 0
        BY <2>1, <2>3, <3>1 DEF IsPlain
      <3>3. QED  BY <3>2, StarsInIs
    <2>5. m \in 1..m /\ \A i \in 1..m : i # m => i \in 1..(m - 1)
      <3> HIDE DEF m
      <3>1. QED  BY <1>1
    <2>6. /\ m - 1 <= n
          /\ \A i \in 1..(m - 1) : p[i] \in {"*", h[i]}
      <3>1. \A i \in 1..m : i # m => p[i] # "**"
        BY <2>4, <2>5
      <3>2. QED  BY <2>1, <2>5, <3>1, CoversSplits
    <2> DEFINE k == m - 1
    <2>7. k \in 1..n
      BY <1>1, <2>2, <2>6
    <2>8. /\ Beginnings(h)[k] \in Seq(STRING) /\ Len(Beginnings(h)[k]) = k
          /\ \A i \in 1..k : Beginnings(h)[k][i] = h[i]
      BY <2>7, PartsOfHost
    <2>9. \A i \in 1..k : Front(p)[i] = Beginnings(h)[k][i]
      BY <2>3, <2>4, <2>6, <2>8
    <2>10. Front(p) = Beginnings(h)[k]
      <3> DEFINE s == Front(p)
                 t == Beginnings(h)[k]
      <3>1. /\ s \in Seq(STRING) /\ t \in Seq(STRING) /\ Len(s) = k /\ Len(t) = k
            /\ \A i \in 1..k : s[i] = t[i]
        BY <2>3, <2>8, <2>9
      <3> HIDE DEF s, t, k
      <3>2. s = t
        BY <3>1, SeqEqual
      <3>3. QED  BY <3>2 DEF s, t
    <2>11. QED  BY <1>7, <2>7, <2>10 DEF Serves
  <1>8. CASE ClassOf(p) = "simple_internal_wildcards"
    <2> DEFINE k == FirstPos(p, "*")
               I == {i \in DOMAIN p : p[i] = "*"}
    <2>1. IsSimpleInternal(p)
      BY <1>8, ClassFacts
    <2>2. k \in 1..m /\ p[k] = "*"
      <3>1. k # 0
        BY <2>1 DEF IsSimpleInternal, Interior
      <3>2. QED  BY <3>1, FirstPosIs
    <2>3. \A i \in I : i = k
      <3>1. IsFiniteSet(I)
        <4>1. IsFiniteSet(1..m)
          BY <1>1, FS_Interval
        <4>2. I \in SUBSET (1..m)
          BY <1>1
        <4>3. QED  BY <4>1, <4>2, FS_Subset
      <3>2. Cardinality(I) = 1
        BY <2>1 DEF IsSimpleInternal, Wildcards
      <3>3. PICK x : I = {x}
        BY <3>1, <3>2, FS_Singleton
      <3>4. k \in I
        BY <1>1, <2>2
      <3>5. QED  BY <3>3, <3>4
    <2>4. \A i \in 1..m : p[i] # "**"
      BY <2>1, HasIs DEF IsSimpleInternal
    <2>5. Fits(p, h)
      BY <2>4, CoversFits
    <2>6. m = n /\ \A i \in 1..m : i # k => p[i] = h[i]
      BY <1>1, <2>3, <2>5 DEF Fits
    <2> HIDE DEF k
    <2>7. Around(p, k, h)
      <3>1. \A i \in 1..(k - 1) : i \in 1..m /\ i # k
        BY <1>1, <2>2
      <3>2. \A i \in (k + 1)..m : i \in 1..m /\ i # k /\ i + n - m = i
        BY <1>1, <2>2, <2>6
      <3>3. QED  BY <2>6, <3>1, <3>2 DEF Around
    <2>8. MatchesSingleInternal(CutAt(p, k, 0), h)
      BY <2>2, <2>6, <2>7, CutMatches
    <2>9. QED  BY <1>8, <2>8 DEF Serves, k
  <1>9. CASE ClassOf(p) = "multi_star_trie"
    <2>1. \A i \in 1..m : p[i] # "**"
      BY <1>9, ClassFacts, HasIs DEF IsMultiStar
    <2>2. QED  BY <1>9, <2>1, CoversFits DEF Serves
  <1>10. CASE ClassOf(p) = "internal_double_star_wildcards"
    <2> DEFINE k == FirstPos(p, "**")
    <2>1. IsDoubleInternal(p)
      BY <1>10, ClassFacts
    <2>2. k \in 1..m /\ p[k] = "**"
      <3>1. k # 0
        BY <2>1 DEF IsDoubleInternal, Interior
      <3>2. QED  BY <3>1, FirstPosIs
    <2>3. \A i \in 1..m : i # k => p[i] # "**"
      BY <1>1, <2>1, <2>2 DEF OneDoubleStar
    <2>4. \A i \in 1..m : p[i] # "*"
      BY <2>1, HasIs DEF IsDoubleInternal
    <2> HIDE DEF k
    <2>5. /\ m - 1 <= n
          /\ \A i \in 1..(k - 1) : p[i] \in {"*", h[i]}
          /\ \A i \in (k + 1)..m : p[i] \in {"*", h[i + n - m]}
      BY <2>2, <2>3, CoversSplits
    <2>6. Around(p, k, h)
      <3>1. \A i \in 1..(k - 1) : i \in 1..m
        BY <1>1, <2>2
      <3>2. \A i \in (k + 1)..m : i \in 1..m
        BY <1>1, <2>2
      <3>3. QED  BY <2>4, <2>5, <3>1, <3>2 DEF Around
    <2>7. MatchesInternalDoubleStar(CutAt(p, k, 0), h)
      BY <2>2, <2>5, <2>6, CutMatches
    <2>8. QED  BY <1>10, <2>7 DEF Serves, k
  <1>11. CASE ClassOf(p) = "complex_patterns"
    BY <1>11, DpMatchesCovers DEF Serves
  <1>12. QED
    BY <1>2, <1>3, <1>4, <1>5, <1>6, <1>7, <1>8, <1>9, <1>10, <1>11, ClassFacts

-----------------------------------------------------------------------------
\* The structures: the route is the first answer, and each class answers for
\* the hosts it serves.

\* The classes stored in maps and in the trie.
MapClasses == {"exact_matches", "leading_wildcards", "trailing_wildcards",
               "double_star_leading", "double_star_trailing", "multi_star_trie"}
\* The classes stored in Vecs.
VecClasses == {"simple_internal_wildcards", "internal_double_star_wildcards",
               "complex_patterns"}

\* The test of an entry of a Vec.
Test(class, e, h) ==
    IF class = "simple_internal_wildcards" THEN MatchesSingleInternal(e, h)
    ELSE IF class = "internal_double_star_wildcards"
    THEN MatchesInternalDoubleStar(e, h)
    ELSE DpMatches(e.labels, h)

\* What the structure of a class answers for a host.
Answer(class, r, h) ==
    IF class = "exact_matches" THEN Lookup(r[class], h)
    ELSE IF class = "double_star_leading" THEN LongestKnown(r[class], Endings(h))
    ELSE IF class = "double_star_trailing"
    THEN LongestKnown(r[class], Beginnings(h))
    ELSE IF class \in VecClasses
    THEN LET I == {i \in 1..Len(r[class]) : Test(class, r[class][i], h)}
         IN  IF I = {} THEN None ELSE r[class][Min(I)].index
    ELSE IF class = "multi_star_trie" THEN TrieLookup(r[class], h)
    ELSE IF class = "leading_wildcards"
    THEN IF Len(h) > 1 THEN Lookup(r[class], Tail(h)) ELSE None
    ELSE IF class = "trailing_wildcards"
    THEN IF Len(h) > 1 THEN Lookup(r[class], Front(h)) ELSE None
    ELSE r[class]

\* FirstFound of ten attempts.
LEMMA FirstOfTen ==
    ASSUME NEW a1, NEW a2, NEW a3, NEW a4, NEW a5,
           NEW a6, NEW a7, NEW a8, NEW a9, NEW a10
    PROVE  LET t == <<a1, a2, a3, a4, a5, a6, a7, a8, a9, a10>> IN
           /\ FirstFound(t) # None =>
                \E i \in 1..10 :
                   /\ FirstFound(t) = t[i]
                   /\ \A j \in 1..10 : j < i => t[j] = None
           /\ (\E i \in 1..10 : t[i] # None) => FirstFound(t) # None
  <1> DEFINE t == <<a1, a2, a3, a4, a5, a6, a7, a8, a9, a10>>
             X == {a1, a2, a3, a4, a5, a6, a7, a8, a9, a10}
  <1>1. t \in Seq(X) /\ Len(t) = 10
    OBVIOUS
  <1> HIDE DEF t, X
  <1>2. /\ FirstFound(t) # None =>
                \E i \in 1..Len(t) :
                   /\ FirstFound(t) = t[i]
                   /\ \A j \in 1..Len(t) : j < i => t[j] = None
        /\ (\E i \in 1..Len(t) : t[i] # None) => FirstFound(t) # None
    BY <1>1, FirstFoundIs
  <1>3. QED  BY <1>1, <1>2 DEF t

\* FirstEntry of the three Vecs is what their classes answer.
LEMMA FirstEntries ==
    ASSUME NEW r, NEW h
    PROVE  /\ FirstEntry(r.simple_internal_wildcards,
                         LAMBDA e : MatchesSingleInternal(e, h))
                = Answer("simple_internal_wildcards", r, h)
           /\ FirstEntry(r.internal_double_star_wildcards,
                         LAMBDA e : MatchesInternalDoubleStar(e, h))
                = Answer("internal_double_star_wildcards", r, h)
           /\ FirstEntry(r.complex_patterns, LAMBDA e : DpMatches(e.labels, h))
                = Answer("complex_patterns", r, h)
  <1> DEFINE I(class) == {i \in 1..Len(r[class]) : Test(class, r[class][i], h)}
  <1>1. \A class \in VecClasses : I(class) # {} => Min(I(class)) # 0
    <2> TAKE class \in VecClasses
    <2>1. I(class) \in SUBSET Nat /\ 0 \notin I(class)
      OBVIOUS
    <2> HIDE DEF I
    <2>2. QED  BY <2>1, MinIsLeast
  <1>2. FirstEntry(r.simple_internal_wildcards,
                   LAMBDA e : MatchesSingleInternal(e, h))
          = Answer("simple_internal_wildcards", r, h)
    <2>1. I("simple_internal_wildcards") =
            {i \in 1..Len(r.simple_internal_wildcards) :
               MatchesSingleInternal(r.simple_internal_wildcards[i], h)}
      BY DEF Test
    <2>2. QED  BY <1>1, <2>1 DEF FirstEntry, SelectInSeq, Answer, VecClasses
  <1>3. FirstEntry(r.internal_double_star_wildcards,
                   LAMBDA e : MatchesInternalDoubleStar(e, h))
          = Answer("internal_double_star_wildcards", r, h)
    <2>1. I("internal_double_star_wildcards") =
            {i \in 1..Len(r.internal_double_star_wildcards) :
               MatchesInternalDoubleStar(r.internal_double_star_wildcards[i], h)}
      BY DEF Test
    <2>2. QED  BY <1>1, <2>1 DEF FirstEntry, SelectInSeq, Answer, VecClasses
  <1>4. FirstEntry(r.complex_patterns, LAMBDA e : DpMatches(e.labels, h))
          = Answer("complex_patterns", r, h)
    <2>1. I("complex_patterns") =
            {i \in 1..Len(r.complex_patterns) :
               DpMatches(r.complex_patterns[i].labels, h)}
      BY DEF Test
    <2>2. QED  BY <1>1, <2>1 DEF FirstEntry, SelectInSeq, Answer, VecClasses
  <1>5. QED  BY <1>2, <1>3, <1>4

\* The route of a host is the first answer.
LEMMA MatchesIs ==
    ASSUME NEW r, NEW h
    PROVE  /\ Matches(r, h) # None =>
                \E i \in 1..10 :
                   /\ Matches(r, h) = Answer(Order[i], r, h)
                   /\ \A j \in 1..10 : j < i => Answer(Order[j], r, h) = None
           /\ (\E i \in 1..10 : Answer(Order[i], r, h) # None)
                => Matches(r, h) # None
  <1> DEFINE a(i) == Answer(Order[i], r, h)
             t == <<a(1), a(2), a(3), a(4), a(5), a(6), a(7), a(8), a(9), a(10)>>
  <1>1. /\ Answer("exact_matches", r, h) = Lookup(r.exact_matches, h)
        /\ Answer("double_star_leading", r, h)
             = LongestKnown(r.double_star_leading, Endings(h))
        /\ Answer("double_star_trailing", r, h)
             = LongestKnown(r.double_star_trailing, Beginnings(h))
        /\ Answer("multi_star_trie", r, h) = TrieLookup(r.multi_star_trie, h)
        /\ Answer("leading_wildcards", r, h)
             = IF Len(h) > 1 THEN Lookup(r.leading_wildcards, Tail(h)) ELSE None
        /\ Answer("trailing_wildcards", r, h)
             = IF Len(h) > 1 THEN Lookup(r.trailing_wildcards, Front(h)) ELSE None
        /\ Answer("catch_all", r, h) = r.catch_all
    BY DEF Answer, VecClasses
  <1>2. Matches(r, h) = FirstFound(t)
    BY <1>1, FirstEntries DEF Matches, Order
  <1>3. \A i \in 1..10 : t[i] = a(i)
    OBVIOUS
  <1>4. /\ FirstFound(t) # None =>
                \E i \in 1..10 :
                   /\ FirstFound(t) = t[i]
                   /\ \A j \in 1..10 : j < i => t[j] = None
        /\ (\E i \in 1..10 : t[i] # None) => FirstFound(t) # None
    BY FirstOfTen
  <1> HIDE DEF t
  <1>5. QED  BY <1>2, <1>3, <1>4

\* The indexes of the patterns of a class.
Members(ps, class) == {i \in DOMAIN ps : ClassOf(ps[i]) = class}

\* A map holds the keys of the patterns of its class, each with the index of a
\* pattern that has the key.
IsMapOf(map, ps, class) ==
    /\ map \in [{KeyOf(class, ps[i]) : i \in Members(ps, class)}
                 -> Members(ps, class)]
    /\ \A key \in DOMAIN map : key = KeyOf(class, ps[map[key]])

\* A Vec holds the entries of the patterns of its class.
IsVecOf(vec, ps, class) ==
    /\ vec \in Seq({EntryOf(class, ps[i], i) : i \in Members(ps, class)})
    /\ \A i \in Members(ps, class) :
          \E n \in 1..Len(vec) : vec[n] = EntryOf(class, ps[i], i)

\* The structures hold the patterns ps, each in the structure of its class.
IsRouterOf(r, ps) ==
    /\ ps \in Seq(Labels)
    /\ DOMAIN r = DOMAIN EmptyRouter
    /\ \A class \in MapClasses : IsMapOf(r[class], ps, class)
    /\ \A class \in VecClasses : IsVecOf(r[class], ps, class)
    /\ IF Members(ps, "catch_all") = {} THEN r["catch_all"] = None
       ELSE r["catch_all"] \in Members(ps, "catch_all")

\* The test of an entry is whether the class serves the host with its pattern.
LEMMA TestIs ==
    ASSUME NEW class \in VecClasses, NEW p \in Labels, ClassOf(p) = class,
           NEW i, NEW h
    PROVE  Test(class, EntryOf(class, p, i), h) <=> Serves(class, p, h)
  <1>1. ASSUME NEW k
        PROVE  /\ MatchesSingleInternal(CutAt(p, k, i), h)
                    <=> MatchesSingleInternal(CutAt(p, k, 0), h)
               /\ MatchesInternalDoubleStar(CutAt(p, k, i), h)
                    <=> MatchesInternalDoubleStar(CutAt(p, k, 0), h)
    BY DEF CutAt, MatchesSingleInternal, MatchesInternalDoubleStar
  <1>2. CASE class = "simple_internal_wildcards"
    BY <1>1, <1>2 DEF Test, EntryOf, Serves
  <1>3. CASE class = "internal_double_star_wildcards"
    BY <1>1, <1>3 DEF Test, EntryOf, Serves
  <1>4. CASE class = "complex_patterns"
    BY <1>4 DEF Test, EntryOf, Serves
  <1>5. QED  BY <1>2, <1>3, <1>4 DEF VecClasses

\* An entry has the index of its pattern.
LEMMA IndexOfEntry ==
    ASSUME NEW class, NEW p, NEW i
    PROVE  EntryOf(class, p, i).index = i
  BY DEF EntryOf, CutAt

\* The structure of a class answers with a pattern of the class that serves
\* the host.
LEMMA AnswerServes ==
    ASSUME NEW r, NEW ps, IsRouterOf(r, ps), NEW h \in Labels,
           NEW n \in 1..10, Answer(Order[n], r, h) # None
    PROVE  /\ Answer(Order[n], r, h) \in Members(ps, Order[n])
           /\ Serves(Order[n], ps[Answer(Order[n], r, h)], h)
  <1> DEFINE c == Order[n]
             a == Answer(c, r, h)
  <1>1. c \in MapClasses \cup VecClasses \cup {"catch_all"}
    BY DEF Order, MapClasses, VecClasses
  <1>2. ps \in Seq(Labels) /\ DOMAIN ps = 1..Len(ps)
    BY LenProperties DEF IsRouterOf
  <1>3. \A i \in Members(ps, c) : ps[i] \in Labels /\ ClassOf(ps[i]) = c
    <2> TAKE i \in Members(ps, c)
    <2>1. i \in 1..Len(ps) /\ ClassOf(ps[i]) = c
      BY <1>2 DEF Members
    <2>2. QED  BY <1>2, <2>1, ElementOfSeq
  <1>4. a # None
    OBVIOUS
  <1> HIDE DEF c
  <1>5. ASSUME c \in MapClasses
        PROVE  /\ IsMapOf(r[c], ps, c)
               /\ \A key \in DOMAIN r[c] :
                    /\ r[c][key] \in Members(ps, c)
                    /\ key = KeyOf(c, ps[r[c][key]])
    BY <1>5 DEF IsRouterOf, IsMapOf
  <1>6. CASE c = "exact_matches"
    <2>1. h \in DOMAIN r[c] /\ a = r[c][h]
      BY <1>4, <1>6 DEF Answer, Lookup
    <2>2. a \in Members(ps, c) /\ h = ps[a]
      BY <1>5, <1>6, <2>1 DEF KeyOf, MapClasses
    <2>3. QED  BY <1>6, <2>2 DEF Serves, c
  <1>7. CASE c = "double_star_leading"
    <2>1. DOMAIN Endings(h) = 1..Len(h) /\ Len(h) \in Nat
      BY PartsOfLabels DEF Endings
    <2>2. a = LongestKnown(r[c], Endings(h))
      BY <1>7 DEF Answer
    <2>3. PICK k \in 1..Len(h) : Endings(h)[k] \in DOMAIN r[c]
                                 /\ a = r[c][Endings(h)[k]]
      <3> DEFINE l == Len(h)
                 parts == Endings(h)
                 map == r[c]
      <3>1. l \in Nat /\ DOMAIN parts = 1..l
        BY <2>1
      <3>2. LongestKnown(map, parts) # None /\ a = LongestKnown(map, parts)
        BY <1>4, <2>2
      <3> HIDE DEF a, l, parts, map
      <3>3. \E k \in 1..l : /\ parts[k] \in DOMAIN map
                            /\ LongestKnown(map, parts) = map[parts[k]]
        <4>1. IsLongestKnown(map, l, parts, LongestKnown(map, parts))
          BY <3>1, LongestKnownIs
        <4>2. QED  BY <3>2, <4>1 DEF IsLongestKnown
      <3>4. QED  BY <3>2, <3>3 DEF l, parts, map
    <2>4. a \in Members(ps, c) /\ Endings(h)[k] = Tail(ps[a])
      BY <1>5, <1>7, <2>3 DEF KeyOf, MapClasses
    <2>5. QED  BY <1>7, <2>4 DEF Serves, c
  <1>8. CASE c = "double_star_trailing"
    <2>1. DOMAIN Beginnings(h) = 1..Len(h) /\ Len(h) \in Nat
      BY PartsOfLabels DEF Beginnings
    <2>2. a = LongestKnown(r[c], Beginnings(h))
      BY <1>8 DEF Answer
    <2>3. PICK k \in 1..Len(h) : Beginnings(h)[k] \in DOMAIN r[c]
                                 /\ a = r[c][Beginnings(h)[k]]
      <3> DEFINE l == Len(h)
                 parts == Beginnings(h)
                 map == r[c]
      <3>1. l \in Nat /\ DOMAIN parts = 1..l
        BY <2>1
      <3>2. LongestKnown(map, parts) # None /\ a = LongestKnown(map, parts)
        BY <1>4, <2>2
      <3> HIDE DEF a, l, parts, map
      <3>3. \E k \in 1..l : /\ parts[k] \in DOMAIN map
                            /\ LongestKnown(map, parts) = map[parts[k]]
        <4>1. IsLongestKnown(map, l, parts, LongestKnown(map, parts))
          BY <3>1, LongestKnownIs
        <4>2. QED  BY <3>2, <4>1 DEF IsLongestKnown
      <3>4. QED  BY <3>2, <3>3 DEF l, parts, map
    <2>4. a \in Members(ps, c) /\ Beginnings(h)[k] = Front(ps[a])
      BY <1>5, <1>8, <2>3 DEF KeyOf, MapClasses
    <2>5. QED  BY <1>8, <2>4 DEF Serves, c
  <1>9. CASE c \in VecClasses
    <2> DEFINE I == {i \in 1..Len(r[c]) : Test(c, r[c][i], h)}
    <2>1. a = IF I = {} THEN None ELSE r[c][Min(I)].index
      BY <1>9 DEF Answer, VecClasses
    <2>2. Min(I) \in I
      <3>1. I # {}
        BY <1>4, <2>1
      <3>2. I \in SUBSET Nat
        OBVIOUS
      <3> HIDE DEF I
      <3>3. QED  BY <3>1, <3>2, MinIsLeast
    <2> DEFINE m == Min(I)
    <2>3. m \in 1..Len(r[c]) /\ Test(c, r[c][m], h) /\ a = r[c][m].index
      <3>1. \A i \in I : i \in 1..Len(r[c]) /\ Test(c, r[c][i], h)
        OBVIOUS
      <3>2. a = r[c][Min(I)].index
        BY <1>4, <2>1
      <3> HIDE DEF I, a
      <3>3. QED  BY <2>2, <3>1, <3>2
    <2> HIDE DEF m
    <2>4. r[c][m] \in {EntryOf(c, ps[i], i) : i \in Members(ps, c)}
      <3>1. r[c] \in Seq({EntryOf(c, ps[i], i) : i \in Members(ps, c)})
        BY <1>9 DEF IsRouterOf, IsVecOf
      <3>2. QED  BY <2>3, <3>1, ElementOfSeq
    <2>5. PICK i \in Members(ps, c) : r[c][m] = EntryOf(c, ps[i], i)
      BY <2>4
    <2>6. a = i
      BY <2>3, <2>5, IndexOfEntry
    <2>7. Serves(c, ps[i], h)
      BY <1>3, <1>9, <2>3, <2>5, TestIs
    <2>8. QED  BY <2>6, <2>7 DEF c
  <1>10. CASE c = "multi_star_trie"
    <2>1. a = TrieLookup(r[c], h)
      BY <1>10 DEF Answer, VecClasses
    <2>2. DOMAIN r[c] \subseteq Labels
      BY <1>3, <1>5, <1>10 DEF IsMapOf, KeyOf, MapClasses
    <2>3. PICK p \in DOMAIN r[c] : a = r[c][p] /\ Fits(p, h)
      <3>1. \A p \in DOMAIN r[c] : r[c][p] # None
        <4>1. \A p \in DOMAIN r[c] : r[c][p] \in Members(ps, c)
          BY <1>5, <1>10 DEF MapClasses
        <4>2. \A i \in Members(ps, c) : i # None
          BY <1>2 DEF Members, None
        <4>3. QED  BY <4>1, <4>2
      <3>2. QED  BY <1>4, <2>1, <2>2, <3>1, TrieFindsBest
    <2>4. a \in Members(ps, c) /\ p = ps[a]
      BY <1>5, <1>10, <2>3 DEF KeyOf, MapClasses
    <2>5. QED  BY <1>10, <2>3, <2>4 DEF Serves, c
  <1>11. CASE c = "leading_wildcards"
    <2>1. Len(h) > 1 /\ Tail(h) \in DOMAIN r[c] /\ a = r[c][Tail(h)]
      BY <1>4, <1>11 DEF Answer, Lookup, VecClasses
    <2>2. a \in Members(ps, c) /\ Tail(h) = Tail(ps[a])
      BY <1>5, <1>11, <2>1 DEF KeyOf, MapClasses
    <2>3. QED  BY <1>11, <2>1, <2>2 DEF Serves, c
  <1>12. CASE c = "trailing_wildcards"
    <2>1. Len(h) > 1 /\ Front(h) \in DOMAIN r[c] /\ a = r[c][Front(h)]
      BY <1>4, <1>12 DEF Answer, Lookup, VecClasses
    <2>2. a \in Members(ps, c) /\ Front(h) = Front(ps[a])
      BY <1>5, <1>12, <2>1 DEF KeyOf, MapClasses
    <2>3. QED  BY <1>12, <2>1, <2>2 DEF Serves, c
  <1>13. CASE c = "catch_all"
    <2>1. a = r["catch_all"]
      BY <1>13 DEF Answer, VecClasses
    <2>2. a \in Members(ps, c)
      BY <1>4, <1>13, <2>1 DEF IsRouterOf
    <2>3. QED  BY <1>13, <2>2 DEF Serves, c
  <1>14. QED
    BY <1>1, <1>6, <1>7, <1>8, <1>9, <1>10, <1>11, <1>12, <1>13 DEF MapClasses

\* The structure of a class answers for every host that one of its patterns
\* serves.
LEMMA AnswerExists ==
    ASSUME NEW r, NEW ps, IsRouterOf(r, ps), NEW h \in Labels, NEW n \in 1..10,
           NEW i \in Members(ps, Order[n]), Serves(Order[n], ps[i], h)
    PROVE  Answer(Order[n], r, h) # None
  <1> DEFINE c == Order[n]
  <1>1. c \in MapClasses \cup VecClasses \cup {"catch_all"}
    BY DEF Order, MapClasses, VecClasses
  <1>2. ps \in Seq(Labels) /\ DOMAIN ps = 1..Len(ps)
    BY LenProperties DEF IsRouterOf
  <1>3. \A j \in Members(ps, c) : j # None /\ ps[j] \in Labels
                                  /\ ClassOf(ps[j]) = c
    <2> TAKE j \in Members(ps, c)
    <2>1. j \in 1..Len(ps) /\ ClassOf(ps[j]) = c
      BY <1>2 DEF Members
    <2>2. j # None
      BY <2>1 DEF None
    <2>3. QED  BY <1>2, <2>1, <2>2, ElementOfSeq
  <1> HIDE DEF c
  <1>4. i \in Members(ps, c) /\ Serves(c, ps[i], h)
    BY DEF c
  <1>5. ASSUME c \in MapClasses
        PROVE  /\ KeyOf(c, ps[i]) \in DOMAIN r[c]
               /\ \A key \in DOMAIN r[c] : r[c][key] # None
    <2>1. IsMapOf(r[c], ps, c)
      BY <1>5 DEF IsRouterOf
    <2>2. QED  BY <1>3, <1>4, <2>1 DEF IsMapOf
  <1>6. CASE c = "exact_matches"
    <2>1. h \in DOMAIN r[c] /\ r[c][h] # None
      BY <1>4, <1>5, <1>6 DEF KeyOf, MapClasses, Serves
    <2>2. Answer(c, r, h) # None
      BY <1>6, <2>1 DEF Answer, Lookup
    <2>3. QED  BY <2>2 DEF c
  <1>7. CASE c = "double_star_leading"
    <2>1. DOMAIN Endings(h) = 1..Len(h) /\ Len(h) \in Nat
      BY PartsOfLabels DEF Endings
    <2>2. \E k \in 1..Len(h) : Endings(h)[k] \in DOMAIN r[c]
      BY <1>4, <1>5, <1>7 DEF KeyOf, MapClasses, Serves
    <2>3. LongestKnown(r[c], Endings(h)) # None
      <3> DEFINE l == Len(h)
                 parts == Endings(h)
                 map == r[c]
      <3>1. l \in Nat /\ DOMAIN parts = 1..l
        BY <2>1
      <3>2. \E k \in 1..l : parts[k] \in DOMAIN map
        BY <2>2
      <3>3. \A key \in DOMAIN map : map[key] # None
        BY <1>5, <1>7 DEF MapClasses
      <3> HIDE DEF l, parts, map
      <3>4. \E k \in 1..l : /\ parts[k] \in DOMAIN map
                            /\ LongestKnown(map, parts) = map[parts[k]]
        <4>1. IsLongestKnown(map, l, parts, LongestKnown(map, parts))
          BY <3>1, LongestKnownIs
        <4>2. QED  BY <3>2, <4>1 DEF IsLongestKnown
      <3>5. LongestKnown(map, parts) # None
        BY <3>3, <3>4
      <3>6. QED  BY <3>5 DEF parts, map
    <2>4. Answer(c, r, h) # None
      BY <1>7, <2>3 DEF Answer
    <2>5. QED  BY <2>4 DEF c
  <1>8. CASE c = "double_star_trailing"
    <2>1. DOMAIN Beginnings(h) = 1..Len(h) /\ Len(h) \in Nat
      BY PartsOfLabels DEF Beginnings
    <2>2. \E k \in 1..Len(h) : Beginnings(h)[k] \in DOMAIN r[c]
      BY <1>4, <1>5, <1>8 DEF KeyOf, MapClasses, Serves
    <2>3. LongestKnown(r[c], Beginnings(h)) # None
      <3> DEFINE l == Len(h)
                 parts == Beginnings(h)
                 map == r[c]
      <3>1. l \in Nat /\ DOMAIN parts = 1..l
        BY <2>1
      <3>2. \E k \in 1..l : parts[k] \in DOMAIN map
        BY <2>2
      <3>3. \A key \in DOMAIN map : map[key] # None
        BY <1>5, <1>8 DEF MapClasses
      <3> HIDE DEF l, parts, map
      <3>4. \E k \in 1..l : /\ parts[k] \in DOMAIN map
                            /\ LongestKnown(map, parts) = map[parts[k]]
        <4>1. IsLongestKnown(map, l, parts, LongestKnown(map, parts))
          BY <3>1, LongestKnownIs
        <4>2. QED  BY <3>2, <4>1 DEF IsLongestKnown
      <3>5. LongestKnown(map, parts) # None
        BY <3>3, <3>4
      <3>6. QED  BY <3>5 DEF parts, map
    <2>4. Answer(c, r, h) # None
      BY <1>8, <2>3 DEF Answer
    <2>5. QED  BY <2>4 DEF c
  <1>9. CASE c \in VecClasses
    <2> DEFINE I == {j \in 1..Len(r[c]) : Test(c, r[c][j], h)}
    <2>1. /\ r[c] \in Seq({EntryOf(c, ps[j], j) : j \in Members(ps, c)})
          /\ \E m \in 1..Len(r[c]) : r[c][m] = EntryOf(c, ps[i], i)
      BY <1>4, <1>9 DEF IsRouterOf, IsVecOf
    <2>2. I # {}
      <3>1. PICK m \in 1..Len(r[c]) : r[c][m] = EntryOf(c, ps[i], i)
        BY <2>1
      <3>2. Test(c, r[c][m], h)
        BY <1>3, <1>4, <1>9, <3>1, TestIs
      <3>3. QED  BY <3>2
    <2> DEFINE m == Min(I)
    <2>3. m \in 1..Len(r[c])
      <3>1. I \in SUBSET Nat /\ I \subseteq 1..Len(r[c])
        OBVIOUS
      <3> HIDE DEF I
      <3>2. QED  BY <2>2, <3>1, MinIsLeast
    <2>4. Answer(c, r, h) = r[c][m].index
      BY <1>9, <2>2 DEF Answer, VecClasses
    <2> HIDE DEF m
    <2>5. r[c][m] \in {EntryOf(c, ps[j], j) : j \in Members(ps, c)}
      BY <2>1, <2>3, ElementOfSeq
    <2>6. PICK j \in Members(ps, c) : r[c][m] = EntryOf(c, ps[j], j)
      BY <2>5
    <2>7. Answer(c, r, h) # None
      BY <1>3, <2>4, <2>6, IndexOfEntry
    <2>8. QED  BY <2>7 DEF c
  <1>10. CASE c = "multi_star_trie"
    <2>1. Answer(c, r, h) = TrieLookup(r[c], h)
      BY <1>10 DEF Answer, VecClasses
    <2>2. DOMAIN r[c] \subseteq Labels
      <3>1. IsMapOf(r[c], ps, c)
        BY <1>10 DEF IsRouterOf, MapClasses
      <3>2. QED  BY <1>3, <1>10, <3>1 DEF IsMapOf, KeyOf
    <2>3. ps[i] \in DOMAIN r[c] /\ r[c][ps[i]] # None
      BY <1>5, <1>10 DEF KeyOf, MapClasses
    <2>4. Fits(ps[i], h)
      BY <1>4, <1>10 DEF Serves
    <2>5. TrieLookup(r[c], h) # None
      <3>1. \A p \in DOMAIN r[c] : r[c][p] # None
        BY <1>5, <1>10 DEF MapClasses
      <3>2. QED  BY <2>2, <2>3, <2>4, <3>1, TrieFindsBest
    <2>6. QED  BY <2>1, <2>5 DEF c
  <1>11. CASE c = "leading_wildcards"
    <2>1. Len(h) > 1 /\ Tail(h) \in DOMAIN r[c] /\ r[c][Tail(h)] # None
      BY <1>4, <1>5, <1>11 DEF KeyOf, MapClasses, Serves
    <2>2. Answer(c, r, h) # None
      BY <1>11, <2>1 DEF Answer, Lookup, VecClasses
    <2>3. QED  BY <2>2 DEF c
  <1>12. CASE c = "trailing_wildcards"
    <2>1. Len(h) > 1 /\ Front(h) \in DOMAIN r[c] /\ r[c][Front(h)] # None
      BY <1>4, <1>5, <1>12 DEF KeyOf, MapClasses, Serves
    <2>2. Answer(c, r, h) # None
      BY <1>12, <2>1 DEF Answer, Lookup, VecClasses
    <2>3. QED  BY <2>2 DEF c
  <1>13. CASE c = "catch_all"
    <2>1. Answer(c, r, h) = r["catch_all"]
      BY <1>13 DEF Answer, VecClasses
    <2>2. r["catch_all"] \in Members(ps, c)
      BY <1>4, <1>13 DEF IsRouterOf
    <2>3. QED  BY <1>3, <2>1, <2>2 DEF c
  <1>14. QED
    BY <1>1, <1>6, <1>7, <1>8, <1>9, <1>10, <1>11, <1>12, <1>13 DEF MapClasses

-----------------------------------------------------------------------------
\* add_pattern keeps the structures, and so does every step.

\* What add_pattern makes of the structure of the pattern's class.
Added(class, old, p, i) ==
    IF class = "multi_star_trie" THEN TrieInsert(old, p, i)
    ELSE IF class \in MapClasses THEN Insert(old, KeyOf(class, p), i)
    ELSE IF class \in VecClasses THEN Append(old, EntryOf(class, p, i))
    ELSE IF old = None THEN i ELSE old

\* The fields of a router are the classes, each asked in its turn.
LEMMA ClassesAre ==
    /\ DOMAIN EmptyRouter = MapClasses \cup VecClasses \cup {"catch_all"}
    /\ \A p : ClassOf(p) \in DOMAIN EmptyRouter
    /\ \A class \in DOMAIN EmptyRouter : \E n \in 1..10 : Order[n] = class
  <1>1. DOMAIN EmptyRouter = MapClasses \cup VecClasses \cup {"catch_all"}
    BY DEF EmptyRouter, MapClasses, VecClasses
  <1>2. \A p : ClassOf(p) \in DOMAIN EmptyRouter
    BY <1>1 DEF ClassOf, MapClasses, VecClasses
  <1>3. ASSUME NEW class \in DOMAIN EmptyRouter
        PROVE  \E n \in 1..10 : Order[n] = class
    <2>1. /\ Order[1] = "exact_matches" /\ Order[2] = "double_star_leading"
          /\ Order[3] = "double_star_trailing"
          /\ Order[4] = "simple_internal_wildcards"
          /\ Order[5] = "internal_double_star_wildcards"
          /\ Order[6] = "multi_star_trie" /\ Order[7] = "complex_patterns"
          /\ Order[8] = "leading_wildcards" /\ Order[9] = "trailing_wildcards"
          /\ Order[10] = "catch_all"
      BY DEF Order
    <2>2. /\ 1 \in 1..10 /\ 2 \in 1..10 /\ 3 \in 1..10 /\ 4 \in 1..10
          /\ 5 \in 1..10 /\ 6 \in 1..10 /\ 7 \in 1..10 /\ 8 \in 1..10
          /\ 9 \in 1..10 /\ 10 \in 1..10
      OBVIOUS
    <2>3. QED  BY <1>1, <2>1, <2>2, Zenon DEF MapClasses, VecClasses
  <1>4. QED  BY <1>1, <1>2, <1>3

\* add_pattern changes the structure of the pattern's class only.
LEMMA AddPatternIs ==
    ASSUME NEW r, DOMAIN r = DOMAIN EmptyRouter, NEW p, NEW i
    PROVE  /\ DOMAIN AddPattern(r, p, i) = DOMAIN r
           /\ \A class \in DOMAIN r : AddPattern(r, p, i)[class] =
                 IF class = ClassOf(p) THEN Added(class, r[class], p, i)
                 ELSE r[class]
  <1> DEFINE c == ClassOf(p)
             x == CASE c = "catch_all" -> IF r[c] = None THEN i ELSE r[c]
                    [] c = "exact_matches" -> Insert(r[c], p, i)
                    [] c \in {"leading_wildcards", "double_star_leading"} ->
                          Insert(r[c], Tail(p), i)
                    [] c \in {"trailing_wildcards", "double_star_trailing"} ->
                          Insert(r[c], Front(p), i)
                    [] c = "simple_internal_wildcards" ->
                          Append(r[c], CutAt(p, FirstPos(p, "*"), i))
                    [] c = "multi_star_trie" -> TrieInsert(r[c], p, i)
                    [] c = "internal_double_star_wildcards" ->
                          Append(r[c], CutAt(p, FirstPos(p, "**"), i))
                    [] c = "complex_patterns" ->
                          Append(r[c], [labels |-> p, index |-> i])
  <1>1. AddPattern(r, p, i) = [r EXCEPT ![c] = x]
    BY DEF AddPattern
  <1>2. c \in MapClasses \cup VecClasses \cup {"catch_all"}
    BY ClassesAre
  <1>3. x = Added(c, r[c], p, i)
    <2> HIDE DEF c
    <2>1. CASE c = "catch_all"
      BY <2>1 DEF Added, MapClasses, VecClasses
    <2>2. CASE c = "exact_matches"
      BY <2>2 DEF Added, KeyOf, MapClasses
    <2>3. CASE c \in {"leading_wildcards", "double_star_leading"}
      BY <2>3 DEF Added, KeyOf, MapClasses
    <2>4. CASE c \in {"trailing_wildcards", "double_star_trailing"}
      BY <2>4 DEF Added, KeyOf, MapClasses
    <2>5. CASE c = "multi_star_trie"
      BY <2>5 DEF Added
    <2>6. CASE c \in VecClasses
      BY <2>6 DEF Added, EntryOf, MapClasses, VecClasses
    <2>7. QED
      BY <1>2, <2>1, <2>2, <2>3, <2>4, <2>5, <2>6 DEF MapClasses
  <1> HIDE DEF x
  <1>4. QED  BY <1>1, <1>3, ClassesAre

\* A new router holds no pattern.
LEMMA EmptyIsRouter == IsRouterOf(EmptyRouter, <<>>)
  <1>1. <<>> \in Seq(Labels) /\ DOMAIN <<>> = {}
    BY EmptySeq, LenProperties
  <1>2. \A class : Members(<<>>, class) = {}
    BY <1>1 DEF Members
  <1>3. ASSUME NEW class \in MapClasses
        PROVE  IsMapOf(EmptyRouter[class], <<>>, class)
    <2>1. EmptyRouter[class] = NoEntry
      BY DEF EmptyRouter, MapClasses
    <2>2. QED  BY <1>2, <2>1 DEF IsMapOf, NoEntry
  <1>4. ASSUME NEW class \in VecClasses
        PROVE  IsVecOf(EmptyRouter[class], <<>>, class)
    <2>1. EmptyRouter[class] = <<>>
      BY DEF EmptyRouter, VecClasses
    <2>2. QED  BY <1>2, <2>1, EmptySeq DEF IsVecOf
  <1>5. EmptyRouter["catch_all"] = None
    BY DEF EmptyRouter
  <1>6. QED  BY <1>1, <1>2, <1>3, <1>4, <1>5 DEF IsRouterOf

\* The members of the classes with one more pattern.
LEMMA MembersAre ==
    ASSUME NEW ps \in Seq(Labels), NEW p \in Labels
    PROVE  /\ Append(ps, p) \in Seq(Labels)
           /\ \A class : Members(Append(ps, p), class) =
                 Members(ps, class) \cup
                    (IF class = ClassOf(p) THEN {Len(ps) + 1} ELSE {})
           /\ \A class : \A i \in Members(ps, class) :
                 i # Len(ps) + 1 /\ Append(ps, p)[i] = ps[i]
           /\ Append(ps, p)[Len(ps) + 1] = p
  <1> DEFINE qs == Append(ps, p)
             l == Len(ps)
  <1>1. /\ qs \in Seq(Labels) /\ Len(qs) = l + 1 /\ l \in Nat
        /\ \A i \in 1..l : qs[i] = ps[i]
        /\ qs[l + 1] = p
    BY AppendProperties, LenProperties
  <1>2. DOMAIN ps = 1..l /\ DOMAIN qs = 1..(l + 1)
    BY <1>1, LenProperties
  <1>3. DOMAIN qs = DOMAIN ps \cup {l + 1} /\ l + 1 \notin DOMAIN ps
    BY <1>1, <1>2
  <1> HIDE DEF qs, l
  <1>4. ASSUME NEW class
        PROVE  Members(qs, class) = Members(ps, class) \cup
                    (IF class = ClassOf(p) THEN {l + 1} ELSE {})
    BY <1>1, <1>2, <1>3 DEF Members
  <1>5. \A class : \A i \in Members(ps, class) : i # l + 1 /\ qs[i] = ps[i]
    BY <1>1, <1>2, <1>3 DEF Members
  <1>6. QED  BY <1>1, <1>4, <1>5 DEF qs, l

\* With one more pattern the structures hold it too.
LEMMA AddPatternKeeps ==
    ASSUME NEW r, NEW ps, IsRouterOf(r, ps), NEW p \in Labels
    PROVE  IsRouterOf(AddPattern(r, p, Len(ps) + 1), Append(ps, p))
  <1> DEFINE new == Len(ps) + 1
             qs == Append(ps, p)
             q == AddPattern(r, p, new)
             c == ClassOf(p)
  <1>1. ps \in Seq(Labels) /\ DOMAIN r = DOMAIN EmptyRouter
    BY DEF IsRouterOf
  <1>2. /\ qs \in Seq(Labels)
        /\ \A d : Members(qs, d) = Members(ps, d) \cup
                                     (IF d = c THEN {new} ELSE {})
        /\ \A d : \A i \in Members(ps, d) : i # new /\ qs[i] = ps[i]
        /\ qs[new] = p
    BY <1>1, MembersAre
  <1>3. /\ DOMAIN q = DOMAIN EmptyRouter
        /\ \A d \in DOMAIN EmptyRouter :
              q[d] = IF d = c THEN Added(d, r[d], p, new) ELSE r[d]
    BY <1>1, AddPatternIs
  <1>4. /\ MapClasses \subseteq DOMAIN EmptyRouter
        /\ VecClasses \subseteq DOMAIN EmptyRouter
        /\ "catch_all" \in DOMAIN EmptyRouter
    BY ClassesAre
  <1> HIDE DEF new, qs, q, c
  <1>5. ASSUME NEW d \in MapClasses
        PROVE  IsMapOf(q[d], qs, d)
    <2> DEFINE S == {KeyOf(d, ps[i]) : i \in Members(ps, d)}
               T == {KeyOf(d, qs[i]) : i \in Members(qs, d)}
    <2>1. /\ r[d] \in [S -> Members(ps, d)]
          /\ \A key \in S : key = KeyOf(d, ps[r[d][key]])
      BY DEF IsRouterOf, IsMapOf
    <2>2. CASE d # c
      <3>1. q[d] = r[d] /\ Members(qs, d) = Members(ps, d)
        BY <1>2, <1>3, <1>4, <2>2
      <3>2. S = T
        BY <1>2, <3>1
      <3>3. QED  BY <1>2, <2>1, <3>1, <3>2 DEF IsMapOf
    <2>3. CASE d = c
      <3> DEFINE key == KeyOf(d, p)
      <3>1. Members(qs, d) = Members(ps, d) \cup {new}
        BY <1>2, <2>3
      <3>2. T = S \cup {key}
        BY <1>2, <3>1
      <3>3. r[d] \in [S -> Members(qs, d)] /\ new \in Members(qs, d)
        BY <2>1, <3>1
      <3>4. \A k \in S : k = KeyOf(d, qs[r[d][k]])
        BY <1>2, <2>1
      <3>5. key = KeyOf(d, qs[new])
        BY <1>2
      <3>6. q[d] = Insert(r[d], key, new) \/ q[d] = TrieInsert(r[d], key, new)
        <4>1. q[d] = Added(d, r[d], p, new)
          BY <1>3, <1>4, <2>3
        <4>2. QED  BY <4>1 DEF Added, KeyOf
      <3> HIDE DEF S, T, key
      <3>7. /\ q[d] \in [T -> Members(qs, d)]
            /\ \A k \in T : \/ k = key /\ q[d][k] = new
                            \/ k \in S /\ q[d][k] = r[d][k]
        <4> DEFINE M == Members(qs, d)
                   m == r[d]
        <4>1. m \in [S -> M] /\ new \in M
          BY <3>3
        <4> HIDE DEF M, m
        <4>2. /\ Insert(m, key, new) \in [S \cup {key} -> M]
              /\ \A k \in S \cup {key} :
                    Insert(m, key, new)[k] = IF k = key THEN new ELSE m[k]
              /\ TrieInsert(m, key, new) \in [S \cup {key} -> M]
              /\ \A k \in S \cup {key} :
                    TrieInsert(m, key, new)[k] = IF k \in S THEN m[k] ELSE new
          <5>1. DOMAIN m = S
            BY <4>1
          <5>2. /\ Insert(m, key, new) \in [S \cup {key} -> M]
                /\ \A k \in S \cup {key} :
                      Insert(m, key, new)[k] = IF k = key THEN new ELSE m[k]
            BY <4>1, <5>1 DEF Insert
          <5>3. CASE key \in S
            <6>1. S \cup {key} = S /\ TrieInsert(m, key, new) = m
              BY <5>1, <5>3 DEF TrieInsert
            <6>2. QED  BY <4>1, <5>2, <6>1
          <5>4. CASE key \notin S
            <6>1. TrieInsert(m, key, new) = Insert(m, key, new)
              BY <5>1, <5>4 DEF TrieInsert
            <6>2. QED  BY <5>2, <5>4, <6>1
          <5>5. QED  BY <5>3, <5>4
        <4>3. q[d] = Insert(m, key, new) \/ q[d] = TrieInsert(m, key, new)
          BY <3>6 DEF m
        <4> DEFINE f == q[d]
        <4>4. f \in [T -> M]
          BY <3>2, <4>2, <4>3
        <4>5. \A k \in T : \/ k = key /\ f[k] = new
                           \/ k \in S /\ f[k] = m[k]
          BY <3>2, <4>2, <4>3
        <4>6. QED  BY <4>4, <4>5 DEF M, m
      <3>8. \A k \in T : k = KeyOf(d, qs[q[d][k]])
        BY <3>4, <3>5, <3>7
      <3>9. QED  BY <3>7, <3>8 DEF IsMapOf, T
    <2>4. QED  BY <2>2, <2>3
  <1>6. ASSUME NEW d \in VecClasses
        PROVE  IsVecOf(q[d], qs, d)
    <2> DEFINE S == {EntryOf(d, ps[i], i) : i \in Members(ps, d)}
               T == {EntryOf(d, qs[i], i) : i \in Members(qs, d)}
    <2>1. /\ r[d] \in Seq(S)
          /\ \A i \in Members(ps, d) :
                \E n \in 1..Len(r[d]) : r[d][n] = EntryOf(d, ps[i], i)
      BY DEF IsRouterOf, IsVecOf
    <2>2. CASE d # c
      <3>1. q[d] = r[d] /\ Members(qs, d) = Members(ps, d)
        BY <1>2, <1>3, <1>4, <2>2
      <3>2. S = T
        BY <1>2, <3>1
      <3>3. QED  BY <1>2, <2>1, <3>1, <3>2 DEF IsVecOf
    <2>3. CASE d = c
      <3> DEFINE e == EntryOf(d, p, new)
      <3>1. Members(qs, d) = Members(ps, d) \cup {new}
        BY <1>2, <2>3
      <3>2. S \subseteq T /\ e \in T
        BY <1>2, <3>1
      <3>3. q[d] = Append(r[d], e)
        <4>1. q[d] = Added(d, r[d], p, new)
          BY <1>3, <1>4, <2>3
        <4>2. QED  BY <4>1 DEF Added, MapClasses, VecClasses
      <3>4. \A i \in Members(ps, d) : EntryOf(d, qs[i], i) = EntryOf(d, ps[i], i)
        BY <1>2
      <3>5. e = EntryOf(d, qs[new], new)
        BY <1>2
      <3> HIDE DEF S, T, e
      <3>6. r[d] \in Seq(T)
        BY <2>1, <3>2, SeqMonotonic
      <3>7. /\ q[d] \in Seq(T) /\ Len(q[d]) = Len(r[d]) + 1
            /\ \A n \in 1..Len(r[d]) : q[d][n] = r[d][n]
            /\ q[d][Len(r[d]) + 1] = e
        BY <3>2, <3>3, <3>6, AppendProperties
      <3>8. Len(r[d]) \in Nat
        BY <3>6, LenProperties
      <3>9. /\ Len(r[d]) + 1 \in 1..Len(q[d])
            /\ \A n \in 1..Len(r[d]) : n \in 1..Len(q[d])
        BY <3>7, <3>8
      <3>10. ASSUME NEW i \in Members(qs, d)
             PROVE  \E n \in 1..Len(q[d]) : q[d][n] = EntryOf(d, qs[i], i)
        <4>1. CASE i = new
          BY <3>5, <3>7, <3>9, <4>1
        <4>2. CASE i \in Members(ps, d)
          <5>1. PICK n \in 1..Len(r[d]) : r[d][n] = EntryOf(d, ps[i], i)
            BY <2>1, <4>2
          <5>2. n \in 1..Len(q[d]) /\ q[d][n] = EntryOf(d, qs[i], i)
            BY <3>4, <3>7, <3>9, <4>2, <5>1
          <5>3. QED  BY <5>2
        <4>3. QED  BY <3>1, <4>1, <4>2
      <3>11. QED  BY <3>7, <3>10 DEF IsVecOf, T
    <2>4. QED  BY <2>2, <2>3
  <1>7. IF Members(qs, "catch_all") = {} THEN q["catch_all"] = None
        ELSE q["catch_all"] \in Members(qs, "catch_all")
    <2> DEFINE M == Members(ps, "catch_all")
    <2>1. IF M = {} THEN r["catch_all"] = None ELSE r["catch_all"] \in M
      BY DEF IsRouterOf
    <2>2. CASE c # "catch_all"
      <3>1. q["catch_all"] = r["catch_all"] /\ Members(qs, "catch_all") = M
        BY <1>2, <1>3, <1>4, <2>2
      <3>2. QED  BY <2>1, <3>1
    <2>3. CASE c = "catch_all"
      <3>1. Members(qs, "catch_all") = M \cup {new}
        BY <1>2, <2>3
      <3>2. q["catch_all"] = IF r["catch_all"] = None THEN new ELSE r["catch_all"]
        <4>1. q["catch_all"] = Added("catch_all", r["catch_all"], p, new)
          BY <1>3, <1>4, <2>3
        <4>2. QED  BY <4>1 DEF Added, MapClasses, VecClasses
      <3>3. QED  BY <2>1, <3>1, <3>2
    <2>4. QED  BY <2>2, <2>3
  <1>8. IsRouterOf(q, qs)
    BY <1>2, <1>3, <1>5, <1>6, <1>7 DEF IsRouterOf
  <1>9. QED  BY <1>8 DEF q, qs, new

\* The inductive invariant: the structures hold the configured patterns, each
\* under the key of its class, and nothing else.
RouterInv ==
    /\ configured \in Seq(Patterns) /\ Len(configured) <= MaxPatterns
    /\ IsRouterOf(router, configured)

\* Hosts and patterns have labels.
LEMMA HostsAreLabels == Hosts \subseteq Labels /\ Patterns \subseteq Labels
  BY LabelsAssumption DEF Labels

\* A router holds what was added to it.
THEOREM RouterInvariant == Spec => []RouterInv
  <1>1. Init => RouterInv
    <2> SUFFICES ASSUME Init PROVE RouterInv
      OBVIOUS
    <2>1. configured = <<>> /\ router = EmptyRouter
      BY DEF Init
    <2>2. configured \in Seq(Patterns) /\ Len(configured) = 0
      BY <2>1, EmptySeq
    <2>3. QED
      BY <2>1, <2>2, EmptyIsRouter, MaxPatternsAssumption DEF RouterInv
  <1>2. RouterInv /\ [Next]_vars => RouterInv'
    <2> SUFFICES ASSUME RouterInv, [Next]_vars PROVE RouterInv'
      OBVIOUS
    <2>1. ASSUME NEW p \in Patterns, Configure(p) PROVE RouterInv'
      <3>1. /\ configured' = Append(configured, p)
            /\ router' = AddPattern(router, p, Len(configured) + 1)
            /\ Len(configured) < MaxPatterns
            /\ configured \in Seq(Patterns)
        BY <2>1 DEF Configure, RouterInv
      <3>2. /\ configured' \in Seq(Patterns)
            /\ Len(configured') = Len(configured) + 1
        BY <3>1, AppendProperties
      <3>3. Len(configured') <= MaxPatterns
        <4>1. Len(configured) \in Nat
          BY <3>1, LenProperties
        <4>2. QED  BY <3>1, <3>2, <4>1, MaxPatternsAssumption
      <3>4. IsRouterOf(router', configured')
        <4>1. IsRouterOf(router, configured) /\ p \in Labels
          BY HostsAreLabels DEF RouterInv
        <4>2. QED  BY <3>1, <4>1, AddPatternKeeps
      <3>5. QED  BY <3>2, <3>3, <3>4 DEF RouterInv
    <2>2. ASSUME UNCHANGED vars PROVE RouterInv'
      BY <2>2 DEF vars, RouterInv
    <2>3. QED  BY <2>1, <2>2 DEF Next
  <1>3. QED  BY <1>1, <1>2, PTL DEF Spec

\* A route is the index of a pattern whose class serves the host.
LEMMA RouteServes ==
    ASSUME NEW r, NEW ps, IsRouterOf(r, ps), NEW h \in Labels,
           Matches(r, h) # None
    PROVE  /\ Matches(r, h) \in DOMAIN ps
           /\ ps[Matches(r, h)] \in Labels
           /\ Covers(ps[Matches(r, h)], h)
  <1>1. PICK n \in 1..10 : Matches(r, h) = Answer(Order[n], r, h)
    BY MatchesIs
  <1> DEFINE a == Answer(Order[n], r, h)
  <1>2. a # None
    BY <1>1
  <1>3. a \in Members(ps, Order[n]) /\ Serves(Order[n], ps[a], h)
    BY <1>2, AnswerServes
  <1> HIDE DEF a
  <1>4. a \in DOMAIN ps /\ ClassOf(ps[a]) = Order[n]
    BY <1>3 DEF Members
  <1>5. ps[a] \in Labels
    <2>1. ps \in Seq(Labels)
      BY DEF IsRouterOf
    <2>2. QED  BY <1>4, <2>1, LenProperties, ElementOfSeq
  <1>6. Covers(ps[a], h)
    BY <1>3, <1>4, <1>5, ServesCovers
  <1>7. QED  BY <1>1, <1>4, <1>5, <1>6 DEF a

\* A host that a class serves has a route.
LEMMA ServedIsRouted ==
    ASSUME NEW r, NEW ps, IsRouterOf(r, ps), NEW h \in Labels,
           NEW i \in DOMAIN ps, Serves(ClassOf(ps[i]), ps[i], h)
    PROVE  Matches(r, h) # None
  <1>1. PICK n \in 1..10 : Order[n] = ClassOf(ps[i])
    BY ClassesAre
  <1>2. i \in Members(ps, Order[n]) /\ Serves(Order[n], ps[i], h)
    BY <1>1 DEF Members
  <1>3. Answer(Order[n], r, h) # None
    BY <1>2, AnswerExists
  <1>4. QED  BY <1>3, MatchesIs

\* Every structure holds indexes of configured patterns, so that a route is
\* one.
THEOREM TypeCorrect == Spec => []TypeOK
  <1>1. RouterInv => TypeOK
    <2> SUFFICES ASSUME RouterInv PROVE TypeOK
      OBVIOUS
    <2>1. IsRouterOf(router, configured)
      BY DEF RouterInv
    <2>2. ASSUME NEW h \in Hosts, Route(h) # None PROVE Route(h) \in Indexes
      BY <2>1, <2>2, HostsAreLabels, RouteServes DEF Route, Indexes
    <2>3. QED  BY <2>1, <2>2 DEF RouterInv, IsRouterOf, TypeOK
  <1>2. QED  BY <1>1, RouterInvariant, PTL

\* No host is ever routed to a pattern that does not cover it.
THEOREM RoutesAreSoundHolds == Spec => []RoutesAreSound
  <1>1. RouterInv => RoutesAreSound
    <2> SUFFICES ASSUME RouterInv, NEW h \in Hosts, Route(h) # None
                 PROVE  h \in Covered[configured[Route(h)]]
      BY DEF RoutesAreSound
    <2>1. IsRouterOf(router, configured) /\ configured \in Seq(Patterns)
      BY DEF RouterInv
    <2>2. Route(h) \in DOMAIN configured /\ Covers(configured[Route(h)], h)
      BY <2>1, HostsAreLabels, RouteServes DEF Route
    <2>3. configured[Route(h)] \in Patterns
      BY <2>1, <2>2, LenProperties, ElementOfSeq
    <2>4. QED  BY <2>2, <2>3 DEF Covered
  <1>2. QED  BY <1>1, RouterInvariant, PTL

\* Every covered host has a route, as long as no pattern has a second `**`
\* beside an interior one: the structure of that class cuts a pattern at its
\* first `**` and takes another for a label.
THEOREM RoutesAreCompleteHolds ==
    ASSUME \A p \in Patterns : IsDoubleInternal(p) => OneDoubleStar(p)
    PROVE  Spec => []RoutesAreComplete
  <1>1. RouterInv => RoutesAreComplete
    <2> SUFFICES ASSUME RouterInv, NEW h \in Hosts, NEW i \in Indexes,
                        h \in Covered[configured[i]]
                 PROVE  Route(h) # None
      BY DEF RoutesAreComplete
    <2>1. IsRouterOf(router, configured) /\ configured \in Seq(Patterns)
      BY DEF RouterInv
    <2>2. i \in DOMAIN configured /\ configured[i] \in Patterns
      BY <2>1, LenProperties, ElementOfSeq DEF Indexes
    <2>3. Covers(configured[i], h)
      BY <2>2 DEF Covered
    <2>4. /\ configured[i] \in Labels /\ h \in Labels
          /\ IsDoubleInternal(configured[i]) => OneDoubleStar(configured[i])
      BY <2>2, HostsAreLabels
    <2>5. Serves(ClassOf(configured[i]), configured[i], h)
      BY <2>3, <2>4, CoversServes
    <2>6. QED  BY <2>1, <2>2, <2>4, <2>5, ServedIsRouted DEF Route
  <1>2. QED  BY <1>1, RouterInvariant, PTL

-----------------------------------------------------------------------------
\* One more pattern changes an answer to itself only.

\* The value that a map has, or gets, for a key.
LEMMA LookupAfterInsert ==
    ASSUME NEW map, NEW key, NEW i, NEW k
    PROVE  Lookup(Insert(map, key, i), k) \in {Lookup(map, k), i}
  BY DEF Lookup, Insert

\* With one more key, the longest known part of a host is the old one or the
\* new key.
LEMMA LongestAfterInsert ==
    ASSUME NEW map, NEW key, NEW i, NEW n \in Nat, NEW parts,
           DOMAIN parts = 1..n,
           i # None, \A k \in DOMAIN map : map[k] # None
    PROVE  LongestKnown(Insert(map, key, i), parts)
             \in {LongestKnown(map, parts), i}
  <1> DEFINE m == Insert(map, key, i)
             a == LongestKnown(m, parts)
             b == LongestKnown(map, parts)
  <1>1. /\ DOMAIN m = DOMAIN map \cup {key}
        /\ \A k \in DOMAIN m : m[k] = IF k = key THEN i ELSE map[k]
    BY DEF Insert
  <1> HIDE DEF m
  <1>2. IsLongestKnown(m, n, parts, a)
    BY LongestKnownIs
  <1>3. IsLongestKnown(map, n, parts, b)
    BY LongestKnownIs
  <1> HIDE DEF a, b
  <1>4. \A k \in DOMAIN m : m[k] # None
    BY <1>1
  <1>5. CASE a = None
    <2>1. \A k \in 1..n : parts[k] \notin DOMAIN m
      BY <1>2, <1>4, <1>5 DEF IsLongestKnown
    <2>2. \A k \in 1..n : parts[k] \notin DOMAIN map
      BY <1>1, <2>1
    <2>3. b = None
      BY <1>3, <2>2 DEF IsLongestKnown
    <2>4. QED  BY <1>5, <2>3 DEF a, b, m
  <1>6. CASE a # None
    <2>1. PICK k \in 1..n :
                   /\ parts[k] \in DOMAIN m /\ a = m[parts[k]]
                   /\ \A j \in 1..n : parts[j] \in DOMAIN m => j <= k
      BY <1>2, <1>6 DEF IsLongestKnown
    <2>2. CASE parts[k] = key
      BY <1>1, <2>1, <2>2 DEF a, b, m
    <2>3. CASE parts[k] # key
      <3>1. parts[k] \in DOMAIN map /\ a = map[parts[k]]
        BY <1>1, <2>1, <2>3
      <3>2. b # None
        BY <1>3, <3>1 DEF IsLongestKnown
      <3>3. PICK l \in 1..n :
                   /\ parts[l] \in DOMAIN map /\ b = map[parts[l]]
                   /\ \A j \in 1..n : parts[j] \in DOMAIN map => j <= l
        BY <1>3, <3>2 DEF IsLongestKnown
      <3>4. k <= l /\ l <= k
        BY <1>1, <2>1, <3>1, <3>3
      <3>5. k = l
        BY <3>4
      <3>6. QED  BY <3>1, <3>3, <3>5 DEF a, b, m
    <2>4. QED  BY <2>2, <2>3
  <1>7. QED  BY <1>5, <1>6

\* t is s with e pushed; I and J are the entries of s and t that pass a test.
IsPush(X, s, e, P, t, I, J) ==
    /\ s \in Seq(X) /\ e \in X /\ t = Append(s, e)
    /\ \A k : k \in I <=> k \in 1..Len(s) /\ s[k] \in P
    /\ \A k : k \in J <=> k \in 1..Len(t) /\ t[k] \in P

\* The first entry of a Vec that passes the test, when one more entry is
\* pushed, is the old one or the new one.
LEMMA FirstAfterAppend ==
    ASSUME NEW X, NEW s, NEW e, NEW P, NEW t, NEW I, NEW J,
           IsPush(X, s, e, P, t, I, J)
    PROVE  /\ J = {} => I = {}
           /\ J # {} => \/ t[Min(J)] = e
                        \/ I # {} /\ t[Min(J)] = s[Min(I)]
  <1> USE DEF IsPush
  <1> DEFINE l == Len(s)
  <1>1. /\ Len(t) = l + 1 /\ l \in Nat /\ t[l + 1] = e
        /\ \A k \in 1..l : t[k] = s[k]
    BY AppendProperties, LenProperties
  <1> HIDE DEF l
  <1>2. I \subseteq J
    BY <1>1 DEF l
  <1>3. I \in SUBSET Nat /\ J \in SUBSET Nat
    BY <1>1 DEF l
  <1>4. J \subseteq I \cup {l + 1} /\ \A k \in I : k < l + 1
    BY <1>1 DEF l
  <1>5. I # {} => Min(I) \in I /\ \A k \in I : Min(I) <= k
    BY <1>3, MinIsLeast
  <1>6. J # {} => Min(J) \in J /\ \A k \in J : Min(J) <= k
    BY <1>3, MinIsLeast
  <1>7. ASSUME J # {} PROVE \/ t[Min(J)] = e
                            \/ I # {} /\ t[Min(J)] = s[Min(I)]
    <2> DEFINE a == Min(I)
               b == Min(J)
    <2>1. b \in J /\ \A k \in J : b <= k
      BY <1>6, <1>7
    <2>2. I # {} => a \in I /\ \A k \in I : a <= k
      BY <1>5
    <2> HIDE DEF a, b
    <2>3. CASE b = l + 1
      BY <1>1, <2>3 DEF b
    <2>4. CASE b # l + 1
      <3>1. b \in I
        BY <1>4, <2>1, <2>4
      <3>2. a \in I /\ a <= b /\ b <= a
        BY <1>2, <2>1, <2>2, <3>1
      <3>3. a = b
        BY <1>3, <3>1, <3>2
      <3>4. t[b] = s[b]
        BY <1>1, <3>1 DEF l
      <3>5. QED  BY <3>1, <3>3, <3>4 DEF a, b
    <2>5. QED  BY <2>3, <2>4
  <1>8. QED  BY <1>2, <1>7

\* A node lies on the way to a pattern, and so does its parent.
LEMMA ParentIsNode ==
    ASSUME NEW trie, DOMAIN trie \subseteq Labels, NEW node \in Seq(STRING),
           NEW label, Append(node, label) \in Nodes(trie)
    PROVE  node \in Nodes(trie)
  <1> DEFINE child == Append(node, label)
             n == Len(node)
             X == STRING \cup {label}
  <1>1. /\ n \in Nat /\ Len(child) = n + 1 /\ node \in Seq(X)
        /\ \A i \in 1..n : child[i] = node[i]
    <2>1. node \in Seq(X) /\ label \in X /\ n \in Nat
      BY LenProperties, SeqMonotonic
    <2> HIDE DEF X
    <2>2. QED  BY <2>1, AppendProperties
  <1> HIDE DEF child, n, X
  <1>2. child # <<>>
    BY <1>1, EmptySeq
  <1>3. PICK p \in DOMAIN trie : child \in Prefixes(p)
    BY <1>2 DEF Nodes, child
  <1>4. PICK l \in 0..Len(p) : child = SubSeq(p, 1, l)
    BY <1>3 DEF Prefixes
  <1>5. p \in Seq(STRING) /\ Len(p) \in Nat
    BY LenProperties DEF Labels
  <1>6. Len(child) = l /\ \A i \in 1..l : child[i] = p[i]
    <2>1. l \in Nat /\ l <= Len(p) /\ 1 <= l + 1 /\ l + 1 - 1 = l
          /\ \A i \in 1..l : 1 + i - 1 = i
      BY <1>5
    <2>2. /\ SubSeq(p, 1, l) \in Seq(STRING)
          /\ Len(SubSeq(p, 1, l)) = l + 1 - 1
          /\ \A i \in 1..(l + 1 - 1) : SubSeq(p, 1, l)[i] = p[1 + i - 1]
      BY <1>5, <2>1, PartOf
    <2>3. QED  BY <1>4, <2>1, <2>2
  <1>7. n \in 0..Len(p) /\ \A i \in 1..n : p[i] = node[i]
    BY <1>1, <1>5, <1>6
  <1>8. SubSeq(p, 1, n) \in Seq(STRING) /\ Len(SubSeq(p, 1, n)) = n
        /\ \A i \in 1..n : SubSeq(p, 1, n)[i] = p[i]
    <2>1. n \in Nat /\ n <= Len(p) /\ 1 <= n + 1 /\ n + 1 - 1 = n
          /\ \A i \in 1..n : 1 + i - 1 = i
      BY <1>1, <1>5, <1>7
    <2>2. /\ SubSeq(p, 1, n) \in Seq(STRING)
          /\ Len(SubSeq(p, 1, n)) = n + 1 - 1
          /\ \A i \in 1..(n + 1 - 1) : SubSeq(p, 1, n)[i] = p[1 + i - 1]
      BY <1>5, <2>1, PartOf
    <2>3. QED  BY <2>1, <2>2
  <1>9. node = SubSeq(p, 1, n)
    <2>1. Len(node) = n /\ \A i \in 1..n : node[i] = SubSeq(p, 1, n)[i]
      BY <1>7, <1>8 DEF n
    <2> DEFINE s == SubSeq(p, 1, n)
    <2>2. s \in Seq(STRING) /\ Len(s) = n /\ \A i \in 1..n : node[i] = s[i]
      BY <1>8, <2>1
    <2> HIDE DEF s
    <2>3. node = s
      BY <2>1, <2>2, SeqEqual
    <2>4. QED  BY <2>3 DEF s
  <1>10. QED  BY <1>7, <1>9, NodesAre

\* One more pattern in the trie: a lookup finds what it found before, or the
\* new value.
LEMMA TrieAfterInsert ==
    ASSUME NEW trie, DOMAIN trie \subseteq Labels, NEW p \in Labels,
           NEW i, i # None, NEW h \in Labels
    PROVE  TrieLookup(TrieInsert(trie, p, i), h) \in {TrieLookup(trie, h), i}
  <1>1. CASE p \in DOMAIN trie
    BY <1>1 DEF TrieInsert
  <1>2. CASE p \notin DOMAIN trie
    <2> DEFINE t == TrieInsert(trie, p, i)
               N == Nodes(trie)
               M == Nodes(t)
               l == Len(h)
    <2>1. /\ DOMAIN t = DOMAIN trie \cup {p}
          /\ \A k \in DOMAIN t : t[k] = IF k = p THEN i ELSE trie[k]
      BY <1>2 DEF TrieInsert, Insert
    <2> HIDE DEF t
    <2>2. DOMAIN t \subseteq Labels /\ DOMAIN trie \subseteq DOMAIN t
      BY <2>1
    <2>3. N \subseteq M
      BY <2>1 DEF Nodes
    <2>4. DOMAIN trie \subseteq N
      <3> SUFFICES ASSUME NEW k \in DOMAIN trie PROVE k \in N
        OBVIOUS
      <3>1. k \in Seq(STRING) /\ Len(k) \in 0..Len(k)
        BY LenProperties DEF Labels
      <3>2. SubSeq(k, 1, Len(k)) = k
        BY <3>1
      <3>3. SubSeq(k, 1, Len(k)) \in N
        BY <3>1, NodesAre
      <3>4. QED  BY <3>2, <3>3
    <2>5. \A node \in M : node \in Seq(STRING) /\ Len(node) \in Nat
      BY <2>2, NodesAre, LenProperties
    <2>6. ASSUME NEW node \in M, NEW label, Append(node, label) \in N
          PROVE  node \in N
      BY <2>5, <2>6, ParentIsNode
    <2>7. PICK old :
              /\ TrieLookup(trie, h) = old[<<>>]
              /\ \A node \in N : old[node] = TrieBody(trie, h, node, old)
      BY TrieSteps
    <2>8. PICK from :
              /\ TrieLookup(t, h) = from[<<>>]
              /\ \A node \in M : from[node] = TrieBody(t, h, node, from)
      BY <2>2, TrieSteps
    <2>9. l \in Nat
      BY LenProperties DEF Labels
    <2> DEFINE before(node) == IF node \in N THEN old[node] ELSE None
               Q == {n \in Nat : \A node \in M :
                        Len(node) + n = l => from[node] \in {before(node), i}}
    <2>10. 0 \in Q
      <3> SUFFICES ASSUME NEW node \in M, Len(node) + 0 = l
                   PROVE  from[node] \in {before(node), i}
        OBVIOUS
      <3>1. Len(node) >= l
        BY <2>5, <2>9
      <3>2. from[node] = Lookup(t, node)
        BY <2>8, <3>1 DEF TrieBody
      <3>3. before(node) = Lookup(trie, node)
        <4>1. CASE node \in N
          BY <2>7, <3>1, <4>1 DEF TrieBody
        <4>2. CASE node \notin N
          BY <2>4, <4>2 DEF Lookup
        <4>3. QED  BY <4>1, <4>2
      <3>4. Lookup(t, node) \in {Lookup(trie, node), i}
        BY <2>1 DEF Lookup
      <3> HIDE DEF before
      <3>5. QED  BY <3>2, <3>3, <3>4
    <2>11. ASSUME NEW n \in Nat, n \in Q
           PROVE  n + 1 \in Q
      <3> SUFFICES ASSUME NEW node \in M, Len(node) + (n + 1) = l
                   PROVE  from[node] \in {before(node), i}
        OBVIOUS
      <3> DEFINE literal == h[Len(node) + 1]
                 New(label) == LET child == Append(node, label) IN
                                  IF child \in M THEN from[child] ELSE None
                 Old(label) == LET child == Append(node, label) IN
                                  IF child \in N THEN old[child] ELSE None
      <3>1. ~(Len(node) >= l)
        BY <2>5, <2>9
      <3>2. from[node] = IF New(literal) # None THEN New(literal) ELSE New("*")
        BY <2>8, <3>1 DEF TrieBody
      <3>3. before(node) = IF Old(literal) # None THEN Old(literal) ELSE Old("*")
        <4>1. CASE node \in N
          <5>1. old[node] = TrieBody(trie, h, node, old)
            BY <2>7, <4>1
          <5>2. QED  BY <3>1, <4>1, <5>1 DEF TrieBody
        <4>2. CASE node \notin N
          <5>1. \A label : Append(node, label) \notin N
            BY <2>6, <4>2
          <5>2. QED  BY <4>2, <5>1
        <4>3. QED  BY <4>1, <4>2
      <3>4. ASSUME NEW label PROVE New(label) \in {Old(label), i}
        <4> DEFINE child == Append(node, label)
        <4>1. CASE child \in M
          <5>1. Len(child) = Len(node) + 1
            <6> DEFINE X == STRING \cup {label}
            <6>1. node \in Seq(X) /\ label \in X
              BY <2>5, SeqMonotonic
            <6> HIDE DEF X
            <6>2. QED  BY <6>1, AppendProperties
          <5>2. Len(child) + n = l
            BY <2>5, <5>1
          <5> HIDE DEF child, before
          <5>3. from[child] \in {before(child), i}
            BY <2>11, <4>1, <5>2
          <5>4. QED  BY <4>1, <5>3 DEF child, before
        <4>2. CASE child \notin M
          BY <2>3, <4>2
        <4>3. QED  BY <4>1, <4>2
      <3>5. /\ New(literal) \in {Old(literal), i}
            /\ New("*") \in {Old("*"), i}
        BY <3>4
      <3> HIDE DEF New, Old, before
      <3>6. QED  BY <3>2, <3>3, <3>5
    <2> HIDE DEF Q
    <2>12. Nat \subseteq Q
      BY <2>10, <2>11, NaturalsAreIn, SMTT(30)
    <2> USE DEF Q
    <2>13. from[<<>>] \in {before(<<>>), i}
      <3>1. <<>> \in M /\ Len(<<>>) = 0 /\ 0 + l = l
        BY <2>2, <2>9, NodesAre, EmptySeq
      <3>2. l \in Q
        BY <2>9, <2>12
      <3>3. QED  BY <3>1, <3>2, Zenon
    <2>14. before(<<>>) = old[<<>>]
      BY NodesAre
    <2>15. TrieLookup(t, h) \in {TrieLookup(trie, h), i}
      BY <2>7, <2>8, <2>13, <2>14
    <2>16. QED  BY <2>15 DEF t
  <1>3. QED  BY <1>1, <1>2

\* One more pattern changes the answer of the structure of its class at most,
\* and only to the new pattern.
LEMMA AnswerAfterAdd ==
    ASSUME NEW r, NEW ps, IsRouterOf(r, ps), NEW p \in Labels,
           NEW h \in Labels, NEW n \in 1..10
    PROVE  Answer(Order[n], AddPattern(r, p, Len(ps) + 1), h)
             \in {Answer(Order[n], r, h), Len(ps) + 1}
  <1> DEFINE new == Len(ps) + 1
             c == Order[n]
             q == AddPattern(r, p, new)
  <1> SUFFICES Answer(c, q, h) \in {Answer(c, r, h), new}
    OBVIOUS
  <1>1. c \in MapClasses \cup VecClasses \cup {"catch_all"}
    BY DEF Order, MapClasses, VecClasses
  <1>2. ps \in Seq(Labels) /\ DOMAIN ps = 1..Len(ps) /\ Len(ps) \in Nat
    BY LenProperties DEF IsRouterOf
  <1>3. new # None
    BY <1>2 DEF None
  <1>4. DOMAIN r = DOMAIN EmptyRouter /\ c \in DOMAIN r
    BY <1>1, ClassesAre DEF IsRouterOf
  <1> HIDE DEF c, new
  <1>5. q[c] = IF c = ClassOf(p) THEN Added(c, r[c], p, new) ELSE r[c]
    BY <1>4, AddPatternIs
  <1> HIDE DEF q
  <1>6. \A i \in DOMAIN ps : i # None
    BY <1>2 DEF None
  <1>7. ASSUME c \in MapClasses
        PROVE  /\ \A k \in DOMAIN r[c] : r[c][k] # None
               /\ c = "multi_star_trie" => DOMAIN r[c] \subseteq Labels
    <2>1. IsMapOf(r[c], ps, c)
      BY <1>7 DEF IsRouterOf
    <2>2. \A i \in Members(ps, c) : i # None /\ ps[i] \in Labels
      BY <1>2, <1>6, ElementOfSeq DEF Members
    <2>3. QED  BY <2>1, <2>2 DEF IsMapOf, KeyOf
  <1>8. CASE c # ClassOf(p)
    BY <1>5, <1>8 DEF Answer
  <1>9. CASE c = ClassOf(p)
    <2>1. q[c] = Added(c, r[c], p, new)
      BY <1>5, <1>9
    <2>2. CASE c \in {"exact_matches", "leading_wildcards", "trailing_wildcards"}
      <3>1. q[c] = Insert(r[c], KeyOf(c, p), new)
        BY <2>1, <2>2 DEF Added, MapClasses
      <3>2. \A k : Lookup(q[c], k) \in {Lookup(r[c], k), new}
        BY <3>1, LookupAfterInsert
      <3>3. QED  BY <2>2, <3>2 DEF Answer, VecClasses
    <2>3. CASE c \in {"double_star_leading", "double_star_trailing"}
      <3>1. q[c] = Insert(r[c], KeyOf(c, p), new)
        BY <2>1, <2>3 DEF Added, MapClasses
      <3>2. \A k \in DOMAIN r[c] : r[c][k] # None
        BY <1>7, <2>3 DEF MapClasses
      <3>3. Len(h) \in Nat
        BY LenProperties DEF Labels
      <3>4. DOMAIN Endings(h) = 1..Len(h) /\ DOMAIN Beginnings(h) = 1..Len(h)
        BY DEF Endings, Beginnings
      <3>5. /\ LongestKnown(q[c], Endings(h))
                 \in {LongestKnown(r[c], Endings(h)), new}
            /\ LongestKnown(q[c], Beginnings(h))
                 \in {LongestKnown(r[c], Beginnings(h)), new}
        BY <1>3, <3>1, <3>2, <3>3, <3>4, LongestAfterInsert
      <3>6. QED  BY <2>3, <3>5 DEF Answer, VecClasses
    <2>4. CASE c = "multi_star_trie"
      <3>1. q[c] = TrieInsert(r[c], p, new) /\ DOMAIN r[c] \subseteq Labels
        BY <1>7, <2>1, <2>4 DEF Added, MapClasses
      <3>2. TrieLookup(q[c], h) \in {TrieLookup(r[c], h), new}
        BY <1>3, <3>1, TrieAfterInsert
      <3>3. QED  BY <2>4, <3>2 DEF Answer, VecClasses
    <2>5. CASE c \in VecClasses
      <3> DEFINE e == EntryOf(c, p, new)
                 X == {EntryOf(c, ps[i], i) : i \in Members(ps, c)} \cup {e}
                 P == {x \in X : Test(c, x, h)}
                 s == r[c]
                 t == Append(s, e)
                 I == {k \in 1..Len(s) : s[k] \in P}
                 J == {k \in 1..Len(t) : t[k] \in P}
      <3>1. q[c] = t
        BY <2>1, <2>5 DEF Added, MapClasses, VecClasses
      <3>2. s \in Seq(X) /\ e \in X
        <4>1. s \in Seq({EntryOf(c, ps[i], i) : i \in Members(ps, c)})
          BY <2>5 DEF IsRouterOf, IsVecOf
        <4>2. QED  BY <4>1, SeqMonotonic
      <3>3. t \in Seq(X)
        BY <3>2, AppendProperties
      <3>4. e.index = new
        BY IndexOfEntry
      <3> HIDE DEF X, e
      <3>5. /\ J = {} => I = {}
            /\ J # {} => \/ t[Min(J)] = e
                         \/ I # {} /\ t[Min(J)] = s[Min(I)]
        <4>1. /\ t = Append(s, e)
              /\ \A k : k \in I <=> k \in 1..Len(s) /\ s[k] \in P
              /\ \A k : k \in J <=> k \in 1..Len(t) /\ t[k] \in P
          OBVIOUS
        <4>2. IsPush(X, s, e, P, t, I, J)
          BY <3>2, <4>1 DEF IsPush
        <4> HIDE DEF P, s, t, I, J
        <4>3. QED  BY <4>2, FirstAfterAppend
      <3> HIDE DEF t
      <3>6. I = {k \in 1..Len(s) : Test(c, s[k], h)}
        BY <3>2, ElementOfSeq
      <3>7. J = {k \in 1..Len(t) : Test(c, t[k], h)}
        BY <3>3, ElementOfSeq
      <3>8. /\ Answer(c, r, h) = IF I = {} THEN None ELSE s[Min(I)].index
            /\ Answer(c, q, h) = IF J = {} THEN None ELSE t[Min(J)].index
        BY <2>5, <3>1, <3>6, <3>7 DEF Answer, VecClasses
      <3> HIDE DEF I, J, s
      <3>9. QED  BY <3>4, <3>5, <3>8
    <2>6. CASE c = "catch_all"
      <3>1. q[c] \in {r[c], new}
        BY <2>1, <2>6 DEF Added, MapClasses, VecClasses
      <3>2. QED  BY <2>6, <3>1 DEF Answer, VecClasses
    <2>7. QED
      BY <1>1, <2>2, <2>3, <2>4, <2>5, <2>6 DEF MapClasses
  <1>10. QED  BY <1>8, <1>9

\* A route changes to the new pattern only.
LEMMA RouteAfterAdd ==
    ASSUME NEW r, NEW ps, IsRouterOf(r, ps), NEW p \in Labels, NEW h \in Labels
    PROVE  Matches(AddPattern(r, p, Len(ps) + 1), h)
             \in {Matches(r, h), Len(ps) + 1}
  <1> DEFINE new == Len(ps) + 1
             q == AddPattern(r, p, new)
             before(n) == Answer(Order[n], r, h)
             after(n) == Answer(Order[n], q, h)
  <1>1. new # None
    <2>1. Len(ps) \in Nat
      BY LenProperties DEF IsRouterOf
    <2>2. QED  BY <2>1 DEF None
  <1>2. \A n \in 1..10 : after(n) \in {before(n), new}
    BY AnswerAfterAdd
  <1>3. /\ Matches(r, h) # None =>
             \E i \in 1..10 : /\ Matches(r, h) = before(i)
                              /\ \A j \in 1..10 : j < i => before(j) = None
        /\ (\E i \in 1..10 : before(i) # None) => Matches(r, h) # None
    BY MatchesIs
  <1>4. /\ Matches(q, h) # None =>
             \E i \in 1..10 : /\ Matches(q, h) = after(i)
                              /\ \A j \in 1..10 : j < i => after(j) = None
        /\ (\E i \in 1..10 : after(i) # None) => Matches(q, h) # None
    BY MatchesIs
  <1> HIDE DEF new, q, before, after
  <1>5. CASE Matches(q, h) = None
    <2>1. \A n \in 1..10 : before(n) = None
      BY <1>1, <1>2, <1>4, <1>5
    <2>2. Matches(r, h) = None
      BY <1>3, <2>1
    <2>3. QED  BY <1>5, <2>2 DEF new, q
  <1>6. CASE Matches(q, h) # None
    <2>1. PICK i \in 1..10 : /\ Matches(q, h) = after(i)
                             /\ \A j \in 1..10 : j < i => after(j) = None
      BY <1>4, <1>6
    <2>2. CASE after(i) = new
      BY <2>1, <2>2 DEF new, q
    <2>3. CASE after(i) # new
      <3>1. before(i) = after(i) /\ before(i) # None
        BY <1>2, <1>6, <2>1, <2>3
      <3>2. \A j \in 1..10 : j < i => before(j) = None
        BY <1>1, <1>2, <2>1
      <3>3. PICK k \in 1..10 : /\ Matches(r, h) = before(k)
                               /\ \A j \in 1..10 : j < k => before(j) = None
        BY <1>3, <3>1
      <3>4. before(k) # None
        BY <1>3, <3>1, <3>3
      <3>5. ~(k < i) /\ ~(i < k)
        BY <3>1, <3>2, <3>3, <3>4
      <3>6. k = i
        BY <3>5
      <3>7. QED  BY <2>1, <3>1, <3>3, <3>6 DEF new, q
    <2>4. QED  BY <2>2, <2>3
  <1>7. QED  BY <1>5, <1>6

\* A pattern takes no host away from another one, except those it covers.
THEOREM NewPatternTakesOnlyItsHostsHolds == Spec => NewPatternTakesOnlyItsHosts
  <1> DEFINE A == LET new == Len(configured') IN
                  \A h \in Hosts :
                     LET route == Matches(router', h) IN
                     route # Route(h) =>
                         route = new /\ h \in Covered[configured'[new]]
  <1>1. RouterInv /\ RouterInv' /\ [Next]_vars => [A]_vars
    <2> SUFFICES ASSUME RouterInv, RouterInv', NEW p \in Patterns, Configure(p),
                        NEW h \in Hosts, Matches(router', h) # Route(h)
                 PROVE  /\ Matches(router', h) = Len(configured')
                        /\ h \in Covered[configured'[Len(configured')]]
      BY DEF Next
    <2>1. /\ configured' = Append(configured, p)
          /\ router' = AddPattern(router, p, Len(configured) + 1)
          /\ configured \in Seq(Patterns) /\ IsRouterOf(router, configured)
      BY DEF Configure, RouterInv
    <2>2. /\ Len(configured') = Len(configured) + 1
          /\ configured'[Len(configured')] = p
          /\ Len(configured) \in Nat
      BY <2>1, AppendProperties, LenProperties
    <2>3. h \in Labels /\ p \in Labels
      BY HostsAreLabels
    <2>4. Matches(router', h) = Len(configured')
      BY <2>1, <2>2, <2>3, RouteAfterAdd DEF Route
    <2>5. Matches(router', h) # None
      BY <2>2, <2>4 DEF None
    <2>6. Covers(configured'[Matches(router', h)], h)
      BY <2>3, <2>5, RouteServes DEF RouterInv
    <2>7. QED  BY <2>2, <2>4, <2>6 DEF Covered
  <1>2. QED  BY <1>1, RouterInvariant, PTL DEF Spec, NewPatternTakesOnlyItsHosts

-----------------------------------------------------------------------------
\* The route of a host is the narrowest of the ranked patterns.

\* The classes whose maps are asked for the parts of a host.
EdgeClasses == {"double_star_leading", "double_star_trailing"}

\* The parts of a host among which an edge map looks for its keys.
Parts(class, h) ==
    IF class = "double_star_leading" THEN Endings(h) ELSE Beginnings(h)

\* An edge map answers with a pattern whose known part is as long as any.
LEMMA LongestAnswers ==
    ASSUME NEW r, NEW ps, IsRouterOf(r, ps), NEW class \in EdgeClasses,
           NEW h \in Labels, Answer(class, r, h) # None,
           NEW i \in Members(ps, class), NEW k \in 1..Len(h),
           Parts(class, h)[k] = KeyOf(class, ps[i])
    PROVE  \E m \in 1..Len(h) :
              /\ k <= m
              /\ Parts(class, h)[m] = KeyOf(class, ps[Answer(class, r, h)])
  <1> DEFINE map == r[class]
             parts == Parts(class, h)
             l == Len(h)
  <1>1. l \in Nat /\ DOMAIN parts = 1..l
    BY LenProperties DEF Labels, Parts, Endings, Beginnings
  <1>2. Answer(class, r, h) = LongestKnown(map, parts)
    BY DEF Answer, Parts, EdgeClasses
  <1>3. IsMapOf(map, ps, class)
    BY DEF IsRouterOf, EdgeClasses, MapClasses
  <1>4. parts[k] \in DOMAIN map
    BY <1>3 DEF IsMapOf
  <1>5. \A key \in DOMAIN map : key = KeyOf(class, ps[map[key]])
    BY <1>3 DEF IsMapOf
  <1>6. k \in 1..l /\ LongestKnown(map, parts) # None
    BY <1>2
  <1> HIDE DEF map, parts, l
  <1>7. PICK m \in 1..l : /\ parts[m] \in DOMAIN map
                          /\ LongestKnown(map, parts) = map[parts[m]]
                          /\ \A j \in 1..l : parts[j] \in DOMAIN map => j <= m
    <2>1. IsLongestKnown(map, l, parts, LongestKnown(map, parts))
      BY <1>1, LongestKnownIs
    <2>2. QED  BY <1>6, <2>1 DEF IsLongestKnown
  <1>8. k <= m /\ parts[m] = KeyOf(class, ps[LongestKnown(map, parts)])
    BY <1>4, <1>5, <1>6, <1>7
  <1>9. QED  BY <1>2, <1>7, <1>8 DEF parts, l

\* Two hosts with a common part have its shorter parts in common.
LEMMA CommonParts ==
    ASSUME NEW class \in EdgeClasses, NEW h \in Labels, NEW x \in Labels,
           NEW m \in 1..Len(h), NEW n \in 1..Len(x),
           Parts(class, x)[n] = Parts(class, h)[m],
           NEW k \in 1..Len(h), k <= m
    PROVE  k \in 1..Len(x) /\ Parts(class, x)[k] = Parts(class, h)[k]
  <1>1. /\ Len(h) \in Nat /\ Len(x) \in Nat
    BY PartsOfLabels
  <1>2. /\ Len(Parts(class, x)[n]) = n /\ Len(Parts(class, h)[m]) = m
    BY PartsOfHost DEF Parts
  <1>3. n = m /\ k \in 1..Len(x) /\ m \in 1..Len(x)
    BY <1>1, <1>2
  <1> DEFINE a == Parts(class, x)[k]
             b == Parts(class, h)[k]
  <1>4. /\ a \in Seq(STRING) /\ Len(a) = k /\ b \in Seq(STRING) /\ Len(b) = k
    BY <1>3, PartsOfHost DEF Parts
  <1>5. \A i \in 1..k : a[i] = b[i]
    <2>1. CASE class = "double_star_leading"
      <3>1. /\ \A i \in 1..k : Endings(x)[k][i] = x[i + Len(x) - k]
            /\ \A i \in 1..k : Endings(h)[k][i] = h[i + Len(h) - k]
            /\ \A i \in 1..m : Endings(x)[m][i] = x[i + Len(x) - m]
            /\ \A i \in 1..m : Endings(h)[m][i] = h[i + Len(h) - m]
        BY <1>3, PartsOfHost
      <3>2. Endings(x)[m] = Endings(h)[m]
        BY <1>3, <2>1 DEF Parts
      <3>3. ASSUME NEW i \in 1..k PROVE Endings(x)[k][i] = Endings(h)[k][i]
        <4> DEFINE j == i + m - k
        <4>1. /\ j \in 1..m /\ j + Len(x) - m = i + Len(x) - k
              /\ j + Len(h) - m = i + Len(h) - k
          BY <1>1
        <4> HIDE DEF j
        <4>2. Endings(x)[m][j] = x[i + Len(x) - k]
          BY <3>1, <4>1
        <4>3. Endings(h)[m][j] = h[i + Len(h) - k]
          BY <3>1, <4>1
        <4>4. QED  BY <3>1, <3>2, <4>2, <4>3
      <3>4. QED  BY <2>1, <3>3 DEF Parts
    <2>2. CASE class # "double_star_leading"
      <3>1. /\ \A i \in 1..k : Beginnings(x)[k][i] = x[i]
            /\ \A i \in 1..k : Beginnings(h)[k][i] = h[i]
            /\ \A i \in 1..m : Beginnings(x)[m][i] = x[i]
            /\ \A i \in 1..m : Beginnings(h)[m][i] = h[i]
        BY <1>3, PartsOfHost
      <3>2. Beginnings(x)[m] = Beginnings(h)[m]
        BY <1>3, <2>2 DEF Parts
      <3>3. \A i \in 1..k : i \in 1..m
        BY <1>1
      <3>4. QED  BY <2>2, <3>1, <3>2, <3>3 DEF Parts
    <2>3. QED  BY <2>1, <2>2
  <1> HIDE DEF a, b
  <1>6. a = b
    BY <1>4, <1>5, SeqEqual
  <1>7. QED  BY <1>3, <1>6 DEF a, b

\* A pattern of an edge class serves the hosts that have its known part.
LEMMA ServesByPart ==
    ASSUME NEW class \in EdgeClasses, NEW p, NEW h
    PROVE  Serves(class, p, h) <=>
              \E k \in 1..Len(h) : Parts(class, h)[k] = KeyOf(class, p)
  BY DEF Serves, Parts, KeyOf, EdgeClasses

\* Among the patterns of the trie that fit a host, the answer is one to which
\* no other compares as tighter.
LEMMA TrieAnswers ==
    ASSUME NEW r, NEW ps, IsRouterOf(r, ps), NEW h \in Labels,
           Answer("multi_star_trie", r, h) # None,
           NEW i \in Members(ps, "multi_star_trie"), Fits(ps[i], h)
    PROVE  LET q == ps[Answer("multi_star_trie", r, h)] IN
           Fits(q, h) /\ (ps[i] = q \/ Looser(ps[i], q))
  <1> DEFINE c == "multi_star_trie"
             map == r[c]
  <1>1. IsMapOf(map, ps, c)
    BY DEF IsRouterOf, MapClasses
  <1>2. \A j \in Members(ps, c) : j # None /\ ps[j] \in Labels
    <2>1. ps \in Seq(Labels) /\ DOMAIN ps = 1..Len(ps)
      BY LenProperties DEF IsRouterOf
    <2>2. QED  BY <2>1, ElementOfSeq DEF Members, None
  <1>3. \A p : KeyOf(c, p) = p
    BY DEF KeyOf
  <1>4. /\ map \in [{ps[j] : j \in Members(ps, c)} -> Members(ps, c)]
        /\ \A p \in DOMAIN map : p = ps[map[p]]
    BY <1>1, <1>3 DEF IsMapOf
  <1>5. Answer(c, r, h) = TrieLookup(map, h)
    BY DEF Answer, VecClasses
  <1> HIDE DEF map
  <1>6. /\ DOMAIN map \subseteq Labels /\ \A p \in DOMAIN map : map[p] # None
        /\ ps[i] \in DOMAIN map
    BY <1>2, <1>4
  <1>7. PICK q \in DOMAIN map :
                   /\ TrieLookup(map, h) = map[q] /\ Fits(q, h)
                   /\ \A p \in DOMAIN map : Fits(p, h) => p = q \/ Looser(p, q)
    BY <1>6, TrieFindsBest
  <1>8. q = ps[TrieLookup(map, h)]
    BY <1>4, <1>7
  <1>9. QED  BY <1>5, <1>6, <1>7, <1>8

\* Every label of a host may be another one.
Varied ==
    \A h \in Hosts : \A i \in DOMAIN h : \E x \in Hosts :
        /\ Len(x) = Len(h) /\ x[i] # h[i]
        /\ \A j \in DOMAIN h : j # i => x[j] = h[j]

\* A pattern that is looser than another one that fits the same host covers a
\* host which that one does not cover.
LEMMA LooserCoversMore ==
    ASSUME Varied, NEW p \in Labels, NEW q \in Labels, NEW h \in Hosts,
           ClassOf(p) = "multi_star_trie", ClassOf(q) = "multi_star_trie",
           Fits(p, h), Fits(q, h), Looser(p, q)
    PROVE  \E x \in Hosts : Fits(p, x) /\ ~Fits(q, x)
  <1>1. h \in Labels /\ DOMAIN h = 1..Len(h)
    BY HostsAreLabels, PartsOfLabels
  <1>2. PICK i \in 1..Len(p) : p[i] = "*" /\ q[i] # "*"
    BY PartsOfLabels DEF Looser
  <1>3. i \in DOMAIN h /\ Len(p) = Len(h) /\ Len(q) = Len(h)
    BY <1>1 DEF Fits
  <1>4. q[i] = h[i]
    BY <1>1, <1>2, <1>3 DEF Fits
  <1>5. PICK x \in Hosts : /\ Len(x) = Len(h) /\ x[i] # h[i]
                           /\ \A j \in DOMAIN h : j # i => x[j] = h[j]
    BY <1>3 DEF Varied
  <1>6. Fits(p, x)
    BY <1>1, <1>2, <1>3, <1>5 DEF Fits
  <1>7. ~Fits(q, x)
    BY <1>1, <1>2, <1>3, <1>4, <1>5 DEF Fits
  <1>8. QED  BY <1>6, <1>7

\* A host goes to the narrowest of the patterns that have precedence by rank:
\* the known part of an edge, and the first labels of a trie pattern, are
\* compared in the order in which a narrower pattern comes first.
THEOREM NarrowerPatternWinsHolds ==
    ASSUME \A p \in Patterns : IsDoubleInternal(p) => OneDoubleStar(p),
           Varied
    PROVE  Spec => []NarrowerPatternWins
  <1>1. RouterInv => NarrowerPatternWins
    <2> SUFFICES ASSUME RouterInv, NEW h \in Hosts, NEW i \in Indexes,
                        Route(h) # None, h \in Covered[configured[i]],
                        Ranked(configured[i], configured[Route(h)]),
                        Covered[configured[i]] \subseteq Covered[configured[Route(h)]],
                        Covered[configured[i]] # Covered[configured[Route(h)]]
                 PROVE  FALSE
      BY DEF NarrowerPatternWins
    <2> DEFINE ps == configured
               p == ps[i]
               q == ps[Route(h)]
    <2>1. IsRouterOf(router, ps) /\ ps \in Seq(Patterns) /\ h \in Labels
      BY HostsAreLabels DEF RouterInv
    <2>2. \A j \in DOMAIN ps : ps[j] \in Patterns /\ ps[j] \in Labels
      BY <2>1, HostsAreLabels, LenProperties, ElementOfSeq
    <2>3. PICK n \in 1..10 :
              /\ Route(h) = Answer(Order[n], router, h)
              /\ \A j \in 1..10 : j < n => Answer(Order[j], router, h) = None
      BY MatchesIs DEF Route
    <2>4. Route(h) \in Members(ps, Order[n]) /\ Serves(Order[n], q, h)
      BY <2>1, <2>3, AnswerServes
    <2>5. /\ Route(h) \in DOMAIN ps /\ ClassOf(q) = Order[n]
          /\ q \in Patterns /\ q \in Labels /\ p \in Patterns /\ p \in Labels
          /\ i \in DOMAIN ps /\ i \in Members(ps, ClassOf(p))
      BY <2>2, <2>4 DEF Members, Indexes
    <2>6. ASSUME NEW s \in Patterns, NEW x \in Hosts
          PROVE  x \in Covered[s] <=> Serves(ClassOf(s), s, x)
      <3>1. s \in Labels /\ x \in Labels
        BY HostsAreLabels
      <3>2. x \in Covered[s] <=> Covers(s, x)
        BY DEF Covered
      <3>3. QED  BY <3>1, <3>2, CoversServes, ServesCovers
    <2>7. Covered[p] \in SUBSET Hosts /\ Covered[q] \in SUBSET Hosts
      BY <2>5 DEF Covered
    <2>8. Serves(ClassOf(p), p, h)
      BY <2>5, <2>6
    <2>9. \E x \in Hosts : x \in Covered[q] /\ x \notin Covered[p]
      BY <2>7
    <2>10. \A m \in 1..10 : Order[m] = ClassOf(p) => n <= m
      <3> SUFFICES ASSUME NEW m \in 1..10, Order[m] = ClassOf(p), m < n
                   PROVE  FALSE
        OBVIOUS
      <3>1. Answer(Order[m], router, h) # None
        BY <2>1, <2>5, <2>8, AnswerExists
      <3>2. QED  BY <2>3, <3>1
    <2> HIDE DEF ps, p, q
    <2>11. CASE ClassOf(p) = "exact_matches"
      <3>1. Order[1] = "exact_matches" /\ 1 \in 1..10
        BY DEF Order
      <3>2. n = 1
        BY <2>10, <2>11, <3>1
      <3>3. ClassOf(q) = "exact_matches"
        BY <2>5, <3>1, <3>2
      <3>4. p = h /\ q = h
        BY <2>4, <2>5, <2>8, <2>11, <3>3 DEF Serves
      <3>5. QED  BY <2>9, <3>4
    <2>12. CASE ClassOf(q) = "catch_all"
      <3>1. CASE ClassOf(p) = "catch_all"
        <4>1. \A x \in Hosts : x \in Covered[p]
          BY <2>5, <2>6, <3>1 DEF Serves
        <4>2. QED  BY <2>9, <4>1
      <3>2. CASE ClassOf(p) # "catch_all"
        <4>1. PICK m \in 1..10 : Order[m] = ClassOf(p)
          BY ClassesAre
        <4>2. m # 10 /\ n = 10
          BY <2>5, <2>12, <3>2, <4>1 DEF Order
        <4>3. QED  BY <2>10, <4>1, <4>2
      <3>3. QED  BY <3>1, <3>2
    <2>13. CASE ClassOf(p) = ClassOf(q) /\ ClassOf(p) \in EdgeClasses
      <3> DEFINE c == ClassOf(p)
      <3>1. PICK k \in 1..Len(h) : Parts(c, h)[k] = KeyOf(c, p)
        BY <2>8, <2>13, ServesByPart
      <3>2. /\ Answer(c, router, h) # None /\ Route(h) = Answer(c, router, h)
            /\ i \in Members(ps, c) /\ c \in EdgeClasses
        BY <2>3, <2>5, <2>13
      <3> HIDE DEF c
      <3>3. PICK m \in 1..Len(h) : k <= m /\ Parts(c, h)[m] = KeyOf(c, q)
        <4>1. Parts(c, h)[k] = KeyOf(c, ps[i])
          BY <3>1 DEF p
        <4>2. \E m \in 1..Len(h) :
                 k <= m /\ Parts(c, h)[m] = KeyOf(c, ps[Answer(c, router, h)])
          BY <2>1, <3>2, <4>1, LongestAnswers
        <4>3. QED  BY <3>2, <4>2 DEF q
      <3>4. PICK x \in Hosts : x \in Covered[q] /\ x \notin Covered[p]
        BY <2>9
      <3>5. x \in Labels
        BY HostsAreLabels
      <3>6. Serves(c, q, x) /\ ~Serves(c, p, x)
        BY <2>5, <2>6, <2>13, <3>4 DEF c
      <3>7. PICK l \in 1..Len(x) : Parts(c, x)[l] = KeyOf(c, q)
        BY <3>2, <3>6, ServesByPart
      <3>8. k \in 1..Len(x) /\ Parts(c, x)[k] = Parts(c, h)[k]
        BY <2>1, <3>2, <3>3, <3>5, <3>7, CommonParts
      <3>9. Serves(c, p, x)
        BY <3>1, <3>2, <3>8, ServesByPart
      <3>10. QED  BY <3>6, <3>9
    <2>14. CASE ClassOf(p) = ClassOf(q) /\ ClassOf(p) = "multi_star_trie"
      <3>1. /\ Answer("multi_star_trie", router, h) # None
            /\ Route(h) = Answer("multi_star_trie", router, h)
            /\ i \in Members(ps, "multi_star_trie") /\ Fits(p, h)
        BY <2>3, <2>5, <2>8, <2>14 DEF Serves
      <3>2. Fits(q, h) /\ (p = q \/ Looser(p, q))
        BY <2>1, <3>1, TrieAnswers DEF p, q
      <3>3. Looser(p, q)
        BY <2>9, <3>2
      <3>4. PICK x \in Hosts : Fits(p, x) /\ ~Fits(q, x)
        BY <2>5, <2>14, <3>1, <3>2, <3>3, LooserCoversMore
      <3>5. x \in Covered[p] /\ x \notin Covered[q]
        BY <2>5, <2>6, <2>14, <3>4 DEF Serves
      <3>6. QED  BY <3>5 DEF p, q, ps
    <2>15. Ranked(p, q)
      BY DEF p, q, ps
    <2>16. QED
      BY <2>11, <2>12, <2>13, <2>14, <2>15 DEF Ranked, EdgeClasses
  <1>2. QED  BY <1>1, RouterInvariant, PTL

-----------------------------------------------------------------------------
\* The route of a host is decided by the patterns before it is by their order.

\* Patterns that differ neither in their first label nor behind it are equal.
LEMMA SameTail ==
    ASSUME NEW p \in Labels, NEW q \in Labels, Head(p) = Head(q),
           Tail(p) = Tail(q)
    PROVE  p = q
  <1>1. Len(p) = Len(q)
    BY PartsOfLabels
  <1>2. ASSUME NEW i \in 1..Len(p) PROVE p[i] = q[i]
    <2>1. i = 1 \/ (i - 1 \in 1..(Len(p) - 1) /\ i - 1 + 1 = i)
      BY PartsOfLabels
    <2>2. CASE i = 1
      BY <2>2, PartsOfLabels
    <2>3. CASE i - 1 \in 1..(Len(p) - 1) /\ i - 1 + 1 = i
      <3>1. Tail(p)[i - 1] = p[i - 1 + 1] /\ Tail(q)[i - 1] = q[i - 1 + 1]
        BY <1>1, <2>3, PartsOfLabels
      <3>2. QED  BY <2>3, <3>1
    <2>4. QED  BY <2>1, <2>2, <2>3
  <1>3. QED  BY <1>1, <1>2, PartsOfLabels, SeqEqual

\* Patterns that differ neither in their last label nor before it are equal.
LEMMA SameFront ==
    ASSUME NEW p \in Labels, NEW q \in Labels, Last(p) = Last(q),
           Front(p) = Front(q)
    PROVE  p = q
  <1>1. Len(p) = Len(q)
    BY PartsOfLabels
  <1>2. ASSUME NEW i \in 1..Len(p) PROVE p[i] = q[i]
    <2>1. i = Len(p) \/ i \in 1..(Len(p) - 1)
      BY PartsOfLabels
    <2>2. CASE i = Len(p)
      BY <1>1, <2>2, PartsOfLabels
    <2>3. CASE i \in 1..(Len(p) - 1)
      <3>1. Front(p)[i] = p[i] /\ Front(q)[i] = q[i]
        BY <1>1, <2>3, PartsOfLabels
      <3>2. QED  BY <3>1
    <2>4. QED  BY <2>1, <2>2, <2>3
  <1>3. QED  BY <1>1, <1>2, PartsOfLabels, SeqEqual

\* Two patterns of a class with one `**` at the same end, and the same known
\* part, are equal; of two known parts the longer one has the longer pattern.
LEMMA SameKnownPart ==
    ASSUME NEW c \in EdgeClasses, NEW h \in Labels,
           NEW p \in Labels, ClassOf(p) = c, NEW q \in Labels, ClassOf(q) = c,
           NEW k \in 1..Len(h), Parts(c, h)[k] = KeyOf(c, p),
           NEW m \in 1..Len(h), Parts(c, h)[m] = KeyOf(c, q)
    PROVE  /\ Len(p) = k + 1 /\ Len(q) = m + 1
           /\ k = m => p = q
  <1>1. Len(Parts(c, h)[k]) = k /\ Len(Parts(c, h)[m]) = m
    BY PartsOfHost DEF Parts
  <1>2. Len(p) \in Nat /\ Len(q) \in Nat /\ k \in Nat /\ m \in Nat
    <2>1. Len(h) \in Nat
      BY PartsOfLabels
    <2>2. QED  BY <2>1, PartsOfLabels
  <1>3. Len(KeyOf(c, p)) = Len(p) - 1 /\ Len(KeyOf(c, q)) = Len(q) - 1
    BY PartsOfLabels DEF KeyOf, EdgeClasses
  <1>4. ASSUME k = m PROVE p = q
    <2>1. KeyOf(c, p) = KeyOf(c, q)
      BY <1>4
    <2>2. CASE c = "double_star_leading"
      <3>1. Head(p) = "**" /\ Head(q) = "**"
        BY <2>2, ClassFacts DEF IsDoubleLeading
      <3>2. Tail(p) = Tail(q)
        BY <2>1, <2>2 DEF KeyOf
      <3>3. QED  BY <3>1, <3>2, SameTail
    <2>3. CASE c = "double_star_trailing"
      <3>1. Last(p) = "**" /\ Last(q) = "**"
        BY <2>3, ClassFacts DEF IsDoubleTrailing
      <3>2. Front(p) = Front(q)
        BY <2>1, <2>3 DEF KeyOf
      <3>3. QED  BY <3>1, <3>2, SameFront
    <2>4. QED  BY <2>2, <2>3 DEF EdgeClasses
  <1>5. QED  BY <1>1, <1>2, <1>3, <1>4

\* A host goes to the pattern that has precedence among those that cover it,
\* or to one of a class that is searched in the order of the files: the order
\* of the lookups, the longest known part and the descent of the trie leave
\* no other choice (host_router.rs:149-226).
THEOREM FileOrderDecidesLastHolds ==
    ASSUME \A p \in Patterns : IsDoubleInternal(p) => OneDoubleStar(p)
    PROVE  Spec => []FileOrderDecidesLast
  <1>1. RouterInv => FileOrderDecidesLast
    <2> DEFINE ps == configured
    <2> SUFFICES ASSUME RouterInv, NEW h \in Hosts, NEW i \in Indexes,
                        Route(h) # None, h \in Covered[ps[i]],
                        NEW p, p = ps[i], NEW q, q = ps[Route(h)]
                 PROVE  \/ p = q \/ Precedes(q, p)
                        \/ ClassOf(p) = ClassOf(q) /\ ClassOf(p) \in ByFileOrder
      BY DEF FileOrderDecidesLast
    <2>1. IsRouterOf(router, ps) /\ ps \in Seq(Patterns) /\ h \in Labels
      BY HostsAreLabels DEF RouterInv
    <2>2. \A j \in DOMAIN ps : ps[j] \in Patterns /\ ps[j] \in Labels
      BY <2>1, HostsAreLabels, LenProperties, ElementOfSeq
    <2>3. PICK n \in 1..10 :
              /\ Route(h) = Answer(Order[n], router, h)
              /\ \A j \in 1..10 : j < n => Answer(Order[j], router, h) = None
      BY MatchesIs DEF Route
    <2>4. Route(h) \in Members(ps, Order[n]) /\ Serves(Order[n], q, h)
      BY <2>1, <2>3, AnswerServes
    <2>5. /\ ClassOf(q) = Order[n]
          /\ q \in Labels /\ p \in Patterns /\ p \in Labels
          /\ i \in Members(ps, ClassOf(p))
      BY <2>2, <2>4 DEF Members, Indexes
    <2>6. Serves(ClassOf(p), p, h)
      <3>1. Covers(p, h)
        BY <2>5 DEF Covered
      <3>2. QED  BY <2>1, <2>5, <3>1, CoversServes
    <2>7. PICK m \in 1..10 : Order[m] = ClassOf(p)
      BY ClassesAre
    <2>8. ~(m < n)
      <3>1. Answer(Order[m], router, h) # None
        BY <2>1, <2>5, <2>6, <2>7, AnswerExists
      <3>2. QED  BY <2>3, <3>1
    <2>9. DOMAIN Order = 1..10
      BY DEF Order
    <2> HIDE DEF ps
    <2>10. CASE m # n
      <3>1. n < m
        BY <2>8, <2>10
      <3>2. QED  BY <2>5, <2>7, <2>9, <3>1 DEF Precedes
    <2>11. ASSUME m = n, NEW c, c = ClassOf(p)
           PROVE  \/ p = q \/ Precedes(q, p)
                  \/ ClassOf(p) = ClassOf(q) /\ ClassOf(p) \in ByFileOrder
      <3>1. /\ ClassOf(q) = c /\ Serves(c, p, h) /\ Serves(c, q, h)
            /\ Answer(c, router, h) # None /\ Route(h) = Answer(c, router, h)
            /\ i \in Members(ps, c)
        BY <2>3, <2>4, <2>5, <2>6, <2>7, <2>11
      <3>2. CASE c \in ByFileOrder
        BY <2>11, <3>1, <3>2
      <3>3. CASE c = "exact_matches"
        BY <3>1, <3>3 DEF Serves
      <3>4. CASE c = "leading_wildcards"
        <4>1. Head(p) = "*" /\ Head(q) = "*"
          BY <2>11, <3>1, <3>4, ClassFacts DEF IsLeading
        <4>2. Tail(p) = Tail(q)
          BY <3>1, <3>4 DEF Serves
        <4>3. QED  BY <2>5, <4>1, <4>2, SameTail
      <3>5. CASE c = "trailing_wildcards"
        <4>1. Last(p) = "*" /\ Last(q) = "*"
          BY <2>11, <3>1, <3>5, ClassFacts DEF IsTrailing
        <4>2. Front(p) = Front(q)
          BY <3>1, <3>5 DEF Serves
        <4>3. QED  BY <2>5, <4>1, <4>2, SameFront
      <3>6. CASE c \in EdgeClasses
        <4>1. PICK k \in 1..Len(h) : Parts(c, h)[k] = KeyOf(c, p)
          BY <3>1, <3>6, ServesByPart
        <4>2. PICK l \in 1..Len(h) : k <= l /\ Parts(c, h)[l] = KeyOf(c, q)
          <5>1. \E l \in 1..Len(h) :
                   /\ k <= l
                   /\ Parts(c, h)[l] = KeyOf(c, ps[Answer(c, router, h)])
            BY <2>1, <3>1, <3>6, <4>1, LongestAnswers
          <5>2. QED  BY <3>1, <5>1
        <4>3. Len(p) = k + 1 /\ Len(q) = l + 1 /\ (k = l => p = q)
          <5>1. h \in Labels /\ p \in Labels /\ q \in Labels
            BY <2>1, <2>5
          <5>2. ClassOf(p) = c /\ ClassOf(q) = c
            BY <2>11, <3>1
          <5>3. Parts(c, h)[l] = KeyOf(c, q)
            BY <4>2
          <5>4. QED  BY <3>6, <4>1, <5>1, <5>2, <5>3, SameKnownPart
        <4>4. k = l \/ Len(q) > Len(p)
          <5>1. Len(h) \in Nat
            BY <2>1, PartsOfLabels
          <5>2. QED  BY <4>2, <4>3, <5>1
        <4>5. QED
          BY <2>11, <3>1, <3>6, <4>3, <4>4 DEF Precedes, EdgeClasses
      <3>7. CASE c = "multi_star_trie"
        <4>1. Fits(p, h)
          BY <3>1, <3>7 DEF Serves
        <4>2. p = q \/ Looser(p, q)
          BY <2>1, <3>1, <3>7, <4>1, TrieAnswers
        <4>3. QED  BY <2>11, <3>1, <3>7, <4>2 DEF Precedes
      <3>8. c \in ByFileOrder \cup EdgeClasses \cup
                   {"exact_matches", "leading_wildcards", "trailing_wildcards",
                    "multi_star_trie"}
        BY <2>11, ClassFacts DEF ByFileOrder, EdgeClasses
      <3>9. QED
        BY <3>2, <3>3, <3>4, <3>5, <3>6, <3>7, <3>8
    <2>12. QED  BY <2>10, <2>11
  <1>2. QED  BY <1>1, RouterInvariant, PTL
=============================================================================
