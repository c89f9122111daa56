-------------------------- MODULE SearchRouterProofs --------------------------
(***************************************************************************)
(* Proofs about the host cache, for every router, capacity, set of hosts   *)
(* and number of tasks.  They never open Matches: the cache is coherent    *)
(* with whatever the router answers.                                       *)
(***************************************************************************)
EXTENDS SearchRouter, SequenceTheorems, TLAPS

\* A concatenation, element by element.
LEMMA Concatenation ==
    ASSUME NEW S, NEW a \in Seq(S), NEW b \in Seq(S), NEW c, c = a \o b
    PROVE  /\ c \in Seq(S) /\ Len(c) = Len(a) + Len(b)
           /\ \A j \in 1..(Len(a) + Len(b)) :
                 c[j] = IF j <= Len(a) THEN a[j] ELSE b[j - Len(a)]
  BY ConcatProperties, Zenon

\* Moving an element to the front keeps the length, the elements and their
\* distinctness.
LEMMA Promotion ==
    ASSUME NEW S, NEW s \in Seq(S), NEW i \in DOMAIN s,
           DistinctHosts(s),
           NEW t, t = <<s[i]>> \o RemoveAt(s, i)
    PROVE  /\ t \in Seq(S) /\ Len(t) = Len(s)
           /\ DistinctHosts(t)
  <1> DEFINE a == SubSeq(s, 1, i - 1)
             b == SubSeq(s, i + 1, Len(s))
  <1>1. Len(s) \in Nat /\ i \in 1..Len(s) /\ \A j \in 1..Len(s) : s[j] \in S
    BY LenProperties, ElementOfSeq
  <1>2. a \in Seq(S) /\ Len(a) = i - 1 /\ \A j \in 1..(i - 1) : a[j] = s[j]
    <2>1. \A j \in 1..(i - 1) : s[j] \in S
      BY <1>1
    <2>2. QED  BY <1>1, <2>1, SubSeqProperties
  <1>3. /\ b \in Seq(S) /\ Len(b) = Len(s) - i
        /\ \A j \in 1..(Len(s) - i) : b[j] = s[i + j]
    <2>1. \A j \in (i + 1)..Len(s) : s[j] \in S
      BY <1>1
    <2>2. QED  BY <1>1, <2>1, SubSeqProperties
  <1> DEFINE c == a \o b
  <1>4. t = <<s[i]>> \o c
    BY DEF RemoveAt
  <1> HIDE DEF a, b
  <1>0. c = a \o b
    OBVIOUS
  <1> HIDE DEF c
  <1>5. /\ c \in Seq(S) /\ Len(c) = Len(s) - 1
        /\ \A j \in 1..(Len(s) - 1) : c[j] = IF j < i THEN s[j] ELSE s[j + 1]
    <2>1. /\ c \in Seq(S) /\ Len(c) = Len(a) + Len(b)
          /\ \A j \in 1..(Len(a) + Len(b)) :
                c[j] = IF j <= Len(a) THEN a[j] ELSE b[j - Len(a)]
      <3>1. a \in Seq(S) /\ b \in Seq(S)
        BY <1>2, <1>3
      <3>2. QED  BY ONLY <3>1, <1>0, Concatenation
    <2>2. Len(a) + Len(b) = Len(s) - 1
      BY <1>1, <1>2, <1>3
    <2>3. ASSUME NEW j \in 1..(Len(s) - 1)
          PROVE  c[j] = IF j < i THEN s[j] ELSE s[j + 1]
      <3>1. CASE j < i
        BY <1>1, <1>2, <2>1, <2>2, <3>1
      <3>2. CASE j >= i
        <4>1. c[j] = b[j - (i - 1)]
          BY <1>1, <1>2, <2>1, <2>2, <3>2
        <4>2. j - (i - 1) \in 1..(Len(s) - i)
          BY <1>1, <3>2
        <4>3. QED  BY <1>1, <1>3, <3>2, <4>1, <4>2
      <3>3. QED  BY <1>1, <3>1, <3>2
    <2>4. QED  BY <2>1, <2>2, <2>3
  <1>6. /\ t \in Seq(S) /\ Len(t) = 1 + Len(c)
        /\ \A j \in 1..(1 + Len(c)) : t[j] = IF j <= 1 THEN s[i] ELSE c[j - 1]
    <2> DEFINE f == <<s[i]>>
    <2>1. f \in Seq(S) /\ Len(f) = 1 /\ f[1] = s[i]
      BY <1>1
    <2>2. t = f \o c
      BY <1>4
    <2> HIDE DEF f
    <2>3. /\ t \in Seq(S) /\ Len(t) = Len(f) + Len(c)
          /\ \A j \in 1..(Len(f) + Len(c)) :
                t[j] = IF j <= Len(f) THEN f[j] ELSE c[j - Len(f)]
      <3>1. f \in Seq(S) /\ c \in Seq(S)
        BY <1>5, <2>1
      <3>2. QED  BY ONLY <3>1, <2>2, Concatenation
    <2>4. ASSUME NEW j \in 1..(1 + Len(c))
          PROVE  t[j] = IF j <= 1 THEN s[i] ELSE c[j - 1]
      <3>1. Len(c) \in Nat
        BY <1>5, LenProperties
      <3>2. t[j] = IF j <= 1 THEN f[j] ELSE c[j - 1]
        BY ONLY <2>1, <2>3, <3>1, j \in 1..(1 + Len(c))
      <3>3. CASE j <= 1
        <4>1. j = 1
          BY <3>1, <3>3
        <4>2. QED  BY <2>1, <3>2, <4>1
      <3>4. CASE ~(j <= 1)
        BY <3>2, <3>4
      <3>5. QED  BY <3>3, <3>4
    <2>5. QED  BY <2>1, <2>3, <2>4
  <1>7. /\ t \in Seq(S) /\ Len(t) = Len(s) /\ DOMAIN t = 1..Len(s)
        /\ DOMAIN s = 1..Len(s)
    BY <1>1, <1>5, <1>6, LenProperties
  <1>8. \A j \in 1..Len(s) : t[j] = IF j = 1 THEN s[i]
                                    ELSE IF j <= i THEN s[j - 1] ELSE s[j]
    BY <1>1, <1>5, <1>6
  <1>9. QED
    <2> SUFFICES ASSUME NEW j \in 1..Len(s), NEW k \in 1..Len(s), j # k
                 PROVE  t[j].host # t[k].host
      BY <1>7 DEF DistinctHosts
    <2> DEFINE origin(x) == IF x = 1 THEN i ELSE IF x <= i THEN x - 1 ELSE x
    <2>1. \A x \in 1..Len(s) : t[x] = s[origin(x)] /\ origin(x) \in 1..Len(s)
      <3> TAKE x \in 1..Len(s)
      <3>1. t[x] = s[origin(x)]
        BY <1>8
      <3>2. origin(x) \in 1..Len(s)
        BY <1>1
      <3>3. QED  BY <3>1, <3>2
    <2>2. origin(j) # origin(k)
      BY <1>1
    <2> HIDE DEF origin
    <2>3. t[j] = s[origin(j)] /\ t[k] = s[origin(k)]
      BY <2>1
    <2>4. origin(j) \in DOMAIN s /\ origin(k) \in DOMAIN s
      BY <1>7, <2>1
    <2>5. s[origin(j)].host # s[origin(k)].host
      BY <2>2, <2>4 DEF DistinctHosts
    <2>6. QED  BY <2>3, <2>5

\* Pushing a new host, and dropping the last entry of a full cache, keeps
\* the bound and the distinctness.
LEMMA Insertion ==
    ASSUME NEW S, NEW s \in Seq(S), NEW e \in S, Len(s) <= Capacity,
           DistinctHosts(s),
           IsMiss(s, e.host),
           NEW t, t = <<e>> \o (IF Len(s) < Capacity THEN s ELSE Front(s))
    PROVE  /\ t \in Seq(S) /\ Len(t) <= Capacity
           /\ DistinctHosts(t)
  <1> DEFINE rest == IF Len(s) < Capacity THEN s ELSE Front(s)
  <1>1. /\ Len(s) \in Nat /\ DOMAIN s = 1..Len(s)
        /\ \A j \in 1..Len(s) : s[j] \in S
    BY LenProperties, ElementOfSeq
  <1>2. /\ rest \in Seq(S) /\ Len(rest) < Capacity /\ Len(rest) <= Len(s)
        /\ \A j \in 1..Len(rest) : rest[j] = s[j]
    <2>1. CASE Len(s) < Capacity
      <3>1. rest = s
        BY <2>1
      <3> HIDE DEF rest
      <3>2. QED  BY <1>1, <2>1, <3>1
    <2>2. CASE Len(s) = Capacity
      <3>1. rest = SubSeq(s, 1, Len(s) - 1)
        BY <2>2, CapacityAssumption DEF Front
      <3> HIDE DEF rest
      <3>2. \A j \in 1..(Len(s) - 1) : s[j] \in S
        BY <1>1
      <3>3. /\ rest \in Seq(S) /\ Len(rest) = Len(s) - 1
            /\ \A j \in 1..(Len(s) - 1) : rest[j] = s[j]
        BY <1>1, <2>2, <3>1, <3>2, SubSeqProperties, CapacityAssumption
      <3>4. QED  BY <1>1, <2>2, <3>3, CapacityAssumption
    <2> HIDE DEF rest
    <2>3. Len(s) < Capacity \/ Len(s) = Capacity
      <3>1. Capacity \in Int /\ Len(s) \in Int
        BY <1>1, CapacityAssumption
      <3>2. QED  BY <3>1
    <2>4. QED  BY <2>1, <2>2, <2>3
  <1> DEFINE f == <<e>>
  <1>3. t = f \o rest
    OBVIOUS
  <1> HIDE DEF rest
  <1>4. f \in Seq(S) /\ Len(f) = 1 /\ f[1] = e
    OBVIOUS
  <1> HIDE DEF f
  <1>5. /\ t \in Seq(S) /\ Len(t) = Len(f) + Len(rest)
        /\ \A j \in 1..(Len(f) + Len(rest)) :
              t[j] = IF j <= Len(f) THEN f[j] ELSE rest[j - Len(f)]
    <2>1. f \in Seq(S) /\ rest \in Seq(S)
      BY <1>2, <1>4
    <2>2. QED  BY ONLY <2>1, <1>3, Concatenation
  <1>6. Len(rest) \in Nat /\ DOMAIN t = 1..(Len(rest) + 1)
    BY <1>2, <1>4, <1>5, LenProperties
  <1>7. \A j \in 1..(Len(rest) + 1) : t[j] = IF j = 1 THEN e ELSE s[j - 1]
    <2> TAKE j \in 1..(Len(rest) + 1)
    <2>1. CASE j = 1
      BY <1>4, <1>5, <1>6, <2>1
    <2>2. CASE j > 1
      <3>1. t[j] = rest[j - 1]
        BY <1>4, <1>5, <1>6, <2>2
      <3>2. j - 1 \in 1..Len(rest)
        BY <1>6, <2>2
      <3>3. rest[j - 1] = s[j - 1]
        BY <1>2, <3>2
      <3>4. QED  BY <1>6, <2>2, <3>1, <3>3
    <2>3. QED  BY <1>6, <2>1, <2>2
  <1>8. ASSUME NEW j \in DOMAIN t, NEW k \in DOMAIN t, t[j].host = t[k].host
        PROVE  j = k
    <2>1. \A x \in DOMAIN t : x # 1 => x - 1 \in DOMAIN s
      BY <1>1, <1>2, <1>6
    <2>2. \A x \in DOMAIN t : x # 1 => t[x].host # e.host /\ t[x] = s[x - 1]
      BY <1>6, <1>7, <2>1 DEF IsMiss
    <2>3. t[1] = e
      BY <1>6, <1>7
    <2>4. CASE j # 1 /\ k # 1
      <3>1. j - 1 = k - 1
        BY <1>8, <2>1, <2>2, <2>4 DEF DistinctHosts
      <3>2. QED  BY <1>6, <3>1
    <2>5. QED  BY <1>8, <2>2, <2>3, <2>4
  <1>9. QED
    BY <1>2, <1>4, <1>5, <1>6, <1>8, CapacityAssumption DEF DistinctHosts

-----------------------------------------------------------------------------
\* Until the router is shared there is nothing in the cache to go stale.
LEMMA BuildInductive ==
    ASSUME CacheInv, NEW p \in Patterns, Build(p)
    PROVE  CacheInv'
  <1>1. /\ shared = FALSE /\ shared' = FALSE /\ cache = <<>> /\ cache' = <<>>
        /\ answer' = answer /\ answer = [t \in Tasks |-> NoAnswer]
    BY DEF Build, CacheInv
  <1>2. CacheIsBounded'
    BY <1>1, CapacityAssumption DEF CacheIsBounded, DistinctHosts
  <1>3. cache' \in Seq(Resolutions')
    BY <1>1
  <1>4. answer' \in [Tasks -> Resolutions' \cup {NoAnswer}]
    BY <1>1
  <1>5. QED  BY <1>1, <1>2, <1>3, <1>4 DEF CacheInv

\* A hit reorders the cache.
LEMMA FindCachedInductive ==
    ASSUME CacheInv, NEW t \in Tasks, NEW h \in Hosts, FindCached(t, h)
    PROVE  CacheInv'
  <1>1. PICK i \in DOMAIN cache :
            /\ cache' = Promoted(i)
            /\ answer' = [answer EXCEPT ![t] = cache[i]]
    BY DEF FindCached
  <1>2. Resolutions' = Resolutions
    BY DEF FindCached, Resolutions, Resolution
  <1>3. cache \in Seq(Resolutions) /\ cache[i] \in Resolutions
    BY DEF CacheInv
  <1>4. /\ cache' \in Seq(Resolutions) /\ Len(cache') = Len(cache)
        /\ DistinctHosts(cache')
    <2>1. /\ cache' = <<cache[i]>> \o RemoveAt(cache, i)
          /\ DistinctHosts(cache)
      BY <1>1 DEF CacheInv, CacheIsBounded, Promoted
    <2>2. QED  BY <1>3, <2>1, Promotion
  <1>5. answer' \in [Tasks -> Resolutions \cup {NoAnswer}] /\ shared' = shared /\ shared
    BY <1>1, <1>3 DEF CacheInv, FindCached
  <1>6. CacheIsBounded'
    BY <1>4 DEF CacheInv, CacheIsBounded
  <1>7. QED  BY <1>2, <1>4, <1>5, <1>6 DEF CacheInv, NoAnswer

\* A miss adds the host that was not there.
LEMMA FindResolvedInductive ==
    ASSUME CacheInv, NEW t \in Tasks, NEW h \in Hosts, FindResolved(t, h)
    PROVE  CacheInv'
  <1> DEFINE e == Resolution(h)
  <1>1. Resolutions' = Resolutions
    BY DEF FindResolved, Resolutions, Resolution
  <1>2. cache \in Seq(Resolutions) /\ e \in Resolutions /\ e.host = h
    BY DEF CacheInv, Resolutions, Resolution
  <1>3. cache' = <<e>> \o (IF Len(cache) < Capacity THEN cache ELSE Front(cache))
    BY DEF FindResolved, WithEntry
  <1>4. /\ cache' \in Seq(Resolutions) /\ Len(cache') <= Capacity
        /\ DistinctHosts(cache')
    <2>1. /\ Len(cache) <= Capacity
          /\ DistinctHosts(cache)
          /\ IsMiss(cache, e.host)
      BY <1>2 DEF CacheInv, CacheIsBounded, FindResolved
    <2> HIDE DEF e
    <2>2. QED  BY <1>2, <1>3, <2>1, Insertion
  <1>5. answer' \in [Tasks -> Resolutions \cup {NoAnswer}] /\ shared' = shared /\ shared
    BY <1>2 DEF CacheInv, FindResolved
  <1>6. QED  BY <1>1, <1>4, <1>5 DEF CacheInv, CacheIsBounded, NoAnswer

-----------------------------------------------------------------------------
\* In every reachable state every cached entry and every answer given is the
\* resolution of its host, and the cache is within its capacity.
THEOREM CacheInvariant == SearchSpec => []CacheInv
  <1>1. SearchInit => CacheInv
    <2> SUFFICES ASSUME SearchInit PROVE CacheInv
      OBVIOUS
    <2>1. cache = <<>> /\ shared = FALSE /\ answer = [t \in Tasks |-> NoAnswer]
      BY DEF SearchInit
    <2>2. CacheIsBounded
      BY <2>1, CapacityAssumption DEF CacheIsBounded, DistinctHosts
    <2>3. cache \in Seq(Resolutions)
      BY <2>1
    <2>4. answer \in [Tasks -> Resolutions \cup {NoAnswer}]
      BY <2>1
    <2>5. QED  BY <2>1, <2>2, <2>3, <2>4 DEF CacheInv
  <1>2. CacheInv /\ [SearchNext]_svars => CacheInv'
    <2> SUFFICES ASSUME CacheInv, [SearchNext]_svars PROVE CacheInv'
      OBVIOUS
    <2>1. ASSUME NEW p \in Patterns, Build(p) PROVE CacheInv'
      BY <2>1, BuildInductive
    <2>2. CASE Share
      BY <2>2 DEF Share, CacheInv, CacheIsBounded, Resolutions,
                  Resolution, NoAnswer
    <2>3. ASSUME NEW t \in Tasks, NEW h \in Hosts, Find(t, h) PROVE CacheInv'
      BY <2>3, FindCachedInductive, FindResolvedInductive DEF Find
    <2>4. CASE UNCHANGED svars
      BY <2>4 DEF svars, CacheInv, CacheIsBounded, Resolutions,
                  Resolution, NoAnswer
    <2>5. QED  BY <2>1, <2>2, <2>3, <2>4 DEF SearchNext
  <1>3. QED  BY <1>1, <1>2, PTL DEF SearchSpec

\* The cache never exceeds its capacity or holds a host twice.
THEOREM CacheIsBoundedHolds == SearchSpec => []CacheIsBounded
  BY CacheInvariant, PTL DEF CacheInv

\* No cached result differs from what the router would answer now.
THEOREM CacheIsCoherentHolds == SearchSpec => []CacheIsCoherent
  <1>1. CacheInv => CacheIsCoherent
    BY DEF CacheInv, CacheIsCoherent, Resolutions, Resolution
  <1>2. QED  BY <1>1, CacheInvariant, PTL

\* No task has ever been told anything but the route of the host it asked for.
THEOREM AnswersAreRoutesHolds == SearchSpec => []AnswersAreRoutes
  <1>1. CacheInv => AnswersAreRoutes
    BY DEF CacheInv, AnswersAreRoutes, Resolutions, Resolution, NoAnswer
  <1>2. QED  BY <1>1, CacheInvariant, PTL

\* Lookups never touch the router of the port, so that what HostRouterProofs
\* proves of a HostRouter is true of it.
LEMMA RouterOfThePort == SearchSpec => Spec
  <1>1. SearchInit => Init
    BY DEF SearchInit
  <1>2. [SearchNext]_svars => [Next]_vars
    BY DEF SearchNext, svars, Next, vars, Build, Share, Find, FindCached,
           FindResolved
  <1>3. QED  BY <1>1, <1>2, PTL DEF SearchSpec, Spec
=============================================================================
