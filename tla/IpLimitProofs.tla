---------------------------- MODULE IpLimitProofs ----------------------------
(***************************************************************************)
(* Proofs about the connection limiter, for every set of addresses, every  *)
(* supply of guards and every limit.                                       *)
(***************************************************************************)
EXTENDS IpLimit, FiniteSetTheorems, TLAPS

\* Releasing a slot of an address with a positive counter decrements it, and
\* removes the entry exactly when it reaches zero.
LEMMA ReleasedEntries ==
    ASSUME NEW table, NEW ip \in Ips,
           table \in [DOMAIN table -> Nat], DOMAIN table \subseteq Ips,
           Count(table, ip) > 0, NEW new, new = Released(table, ip)
    PROVE  /\ new \in [DOMAIN new -> Nat]
           /\ DOMAIN new \subseteq DOMAIN table
           /\ ip \in DOMAIN new => Count(new, ip) > 0
           /\ \A i \in Ips : Count(new, i) = IF i = ip THEN Count(table, i) - 1
                                             ELSE Count(table, i)
  <1>1. ip \in DOMAIN table /\ table[ip] \in Nat /\ table[ip] > 0
    BY DEF Count
  <1>2. CASE table[ip] = 1
    <2>1. Released(table, ip) = [x \in DOMAIN table \ {ip} |-> table[x]]
      BY <1>1, <1>2 DEF Released, SaturatingDec, Restrict
    <2>2. QED  BY <1>1, <1>2, <2>1 DEF Count
  <1>3. CASE table[ip] > 1
    <2>1. Released(table, ip) = SetCount(table, ip, table[ip] - 1)
      BY <1>1, <1>3 DEF Released, SaturatingDec
    <2>2. QED  BY <1>1, <1>3, <2>1 DEF SetCount, Count
  <1>4. QED  BY <1>1, <1>2, <1>3

\* Adding a live guard adds one slot to its address if it is tracked, and
\* none to the others.
LEMMA SlotAdded ==
    ASSUME TypeOK, NEW g \in Guard, IsFresh(g.id), live' = live \cup {g}
    PROVE  \A ip \in Ips : Cardinality(SlotsOf(ip)') =
               IF g.tracked /\ ip = g.ip THEN Cardinality(SlotsOf(ip)) + 1
                                         ELSE Cardinality(SlotsOf(ip))
  <1> TAKE ip \in Ips
  <1>1. g \notin SlotsOf(ip) /\ IsFiniteSet(SlotsOf(ip))
    BY FS_Subset DEF SlotsOf, IsFresh, TypeOK
  <1>2. CASE g.tracked /\ ip = g.ip
    <2>1. SlotsOf(ip)' = SlotsOf(ip) \cup {g}
      BY <1>2 DEF SlotsOf
    <2>2. QED  BY <1>1, <1>2, <2>1, FS_AddElement
  <1>3. CASE ~(g.tracked /\ ip = g.ip)
    <2>1. SlotsOf(ip)' = SlotsOf(ip)
      BY <1>3 DEF SlotsOf
    <2>2. QED  BY <1>3, <2>1
  <1>4. QED  BY <1>2, <1>3

\* Dropping a live guard takes one slot from its address if it is tracked,
\* and none from the others.
LEMMA SlotRemoved ==
    ASSUME TypeOK, NEW g \in live, live' = live \ {g}
    PROVE  \A ip \in Ips : Cardinality(SlotsOf(ip)') =
               IF g.tracked /\ ip = g.ip THEN Cardinality(SlotsOf(ip)) - 1
                                         ELSE Cardinality(SlotsOf(ip))
  <1> TAKE ip \in Ips
  <1>1. IsFiniteSet(SlotsOf(ip))
    BY FS_Subset DEF SlotsOf, TypeOK
  <1>2. CASE g.tracked /\ ip = g.ip
    <2>1. SlotsOf(ip)' = SlotsOf(ip) \ {g} /\ g \in SlotsOf(ip)
      BY <1>2 DEF SlotsOf
    <2>2. QED  BY <1>1, <1>2, <2>1, FS_RemoveElement
  <1>3. CASE ~(g.tracked /\ ip = g.ip)
    <2>1. SlotsOf(ip)' = SlotsOf(ip)
      BY <1>3 DEF SlotsOf
    <2>2. QED  BY <1>3, <2>1
  <1>4. QED  BY <1>2, <1>3

\* A set of slots has a cardinality, zero exactly when it is empty.
LEMMA SlotsFinite ==
    ASSUME TypeOK, NEW ip
    PROVE  /\ IsFiniteSet(SlotsOf(ip))
           /\ Cardinality(SlotsOf(ip)) \in Nat
           /\ Cardinality(SlotsOf(ip)) = 0 <=> SlotsOf(ip) = {}
  BY FS_Subset, FS_CardinalityType, FS_EmptySet DEF SlotsOf, TypeOK

-----------------------------------------------------------------------------
\* Acquiring a slot preserves the invariant.
LEMMA AcquireSlotInductive ==
    ASSUME IInv, NEW ip \in Ips, NEW id \in Guards, Acquire(ip, id), Limit >= 0
    PROVE  IInv'
  <1> DEFINE g == [id |-> id, ip |-> ip, tracked |-> TRUE]
             n == Count(connections, ip) + 1
  <1>1. /\ g \in Guard /\ IsFresh(g.id) /\ live' = live \cup {g}
        /\ g.tracked /\ g.ip = ip
    BY DEF Acquire, Guard, IsFresh
  <1>2. n \in Nat /\ n > 0 /\ n <= Limit
    BY IpLimitAssumption DEF Acquire, Count, IInv, TypeOK
  <1>3. connections' = SetCount(connections, ip, n)
    BY IpLimitAssumption DEF Acquire
  <1>4. /\ connections' \in [DOMAIN connections' -> Nat]
        /\ DOMAIN connections' = DOMAIN connections \cup {ip}
        /\ \A i \in Ips : Count(connections', i) =
                           IF i = ip THEN n ELSE Count(connections, i)
    BY <1>2, <1>3 DEF SetCount, Count, IInv, TypeOK
  <1>5. \A i \in Ips : Cardinality(SlotsOf(i)') =
               IF i = ip THEN Cardinality(SlotsOf(i)) + 1
                         ELSE Cardinality(SlotsOf(i))
    BY <1>1, SlotAdded DEF IInv
  <1>6. TypeOK'
    <2>1. IsFiniteSet(live')
      BY <1>1, FS_AddElement DEF IInv, TypeOK
    <2>2. QED  BY <1>1, <1>4, <2>1 DEF IInv, TypeOK, IsFresh, Guard
  <1>7. CountsAreGuards'
    BY <1>4, <1>5 DEF IInv, CountsAreGuards
  <1>8. WithinLimit'
    BY <1>2, <1>5 DEF IInv, WithinLimit, CountsAreGuards
  <1>9. NoStaleEntry'
    <2>1. g \in SlotsOf(ip)'
      BY <1>1 DEF SlotsOf
    <2>2. \A i : SlotsOf(i) \subseteq SlotsOf(i)'
      BY <1>1 DEF SlotsOf
    <2>3. QED  BY <1>4, <2>1, <2>2 DEF IInv, NoStaleEntry
  <1>10. QED  BY <1>6, <1>7, <1>8, <1>9 DEF IInv

\* So does handing out a guard that holds no slot.
LEMMA AcquireUntrackedInductive ==
    ASSUME IInv, NEW ip \in Ips, NEW id \in Guards, Acquire(ip, id), Limit < 0
    PROVE  IInv'
  <1> DEFINE g == [id |-> id, ip |-> ip, tracked |-> FALSE]
  <1>1. /\ g \in Guard /\ IsFresh(g.id) /\ live' = live \cup {g}
        /\ ~g.tracked /\ connections' = connections
    <2>1. (Limit >= 0) = FALSE
      BY IpLimitAssumption
    <2>2. live' = live \cup {g}
      BY <2>1 DEF Acquire
    <2>3. QED  BY <2>2 DEF Acquire, Guard, IsFresh
  <1>2. TypeOK'
    <2>1. IsFiniteSet(live')
      BY <1>1, FS_AddElement DEF IInv, TypeOK
    <2>2. QED  BY <1>1, <2>1 DEF IInv, TypeOK, IsFresh, Guard
  <1>3. \A i : SlotsOf(i)' = SlotsOf(i)
    BY <1>1 DEF SlotsOf
  <1>4. QED
    BY <1>1, <1>2, <1>3 DEF IInv, CountsAreGuards, WithinLimit, NoStaleEntry

\* A refusal may add an entry of zero, and only when the limit is zero.
LEMMA RefuseInductive ==
    ASSUME IInv, NEW ip \in Ips, Refuse(ip)
    PROVE  IInv'
  <1> DEFINE n == Count(connections, ip)
  <1>1. n \in Nat /\ n >= Limit /\ Limit >= 0 /\ live' = live
    BY DEF Refuse, Count, IInv, TypeOK
  <1>2. connections' = SetCount(connections, ip, n)
    BY DEF Refuse
  <1>3. /\ connections' \in [DOMAIN connections' -> Nat]
        /\ DOMAIN connections' = DOMAIN connections \cup {ip}
        /\ \A i \in Ips : Count(connections', i) = Count(connections, i)
    BY <1>1, <1>2 DEF SetCount, Count, IInv, TypeOK
  <1>4. \A i : SlotsOf(i)' = SlotsOf(i)
    BY <1>1 DEF SlotsOf
  <1>5. TypeOK'
    BY <1>1, <1>3 DEF IInv, TypeOK
  <1>6. NoStaleEntry'
    <2>1. Limit # 0 => ip \in DOMAIN connections
      BY <1>1, IpLimitAssumption DEF Count
    <2>2. QED  BY <1>3, <1>4, <2>1 DEF IInv, NoStaleEntry
  <1>7. QED
    BY <1>3, <1>4, <1>5, <1>6 DEF IInv, CountsAreGuards, WithinLimit

\* Dropping a guard gives back exactly the slot it holds.
LEMMA DropInductive ==
    ASSUME IInv, NEW g \in live, Drop(g)
    PROVE  IInv'
  <1>1. live' = live \ {g} /\ g.ip \in Ips /\ g.tracked \in BOOLEAN
    BY DEF Drop, IInv, TypeOK, Guard
  <1>2. /\ live' \subseteq live /\ live' \subseteq Guard /\ IsFiniteSet(live')
        /\ \A x, y \in live' : x.id = y.id => x = y
    BY <1>1, FS_RemoveElement DEF IInv, TypeOK
  <1>3. \A i \in Ips : Cardinality(SlotsOf(i)') =
               IF g.tracked /\ i = g.ip THEN Cardinality(SlotsOf(i)) - 1
                                        ELSE Cardinality(SlotsOf(i))
    BY <1>1, SlotRemoved DEF IInv
  <1>4. /\ connections' \in [DOMAIN connections' -> Nat]
        /\ DOMAIN connections' \subseteq DOMAIN connections
        /\ \A i \in Ips : Count(connections', i) =
               IF g.tracked /\ i = g.ip THEN Count(connections, i) - 1
                                        ELSE Count(connections, i)
        /\ g.tracked /\ g.ip \in DOMAIN connections'
              => Count(connections', g.ip) > 0
    <2>1. CASE g.tracked
      <3>1. g \in SlotsOf(g.ip)
        BY <2>1 DEF SlotsOf
      <3>2. Count(connections, g.ip) > 0
        BY <1>1, <3>1, SlotsFinite DEF IInv, CountsAreGuards
      <3>3. connections' = Released(connections, g.ip)
        BY <2>1 DEF Drop
      <3>4. QED  BY <1>1, <2>1, <3>2, <3>3, ReleasedEntries DEF IInv, TypeOK
    <2>2. CASE ~g.tracked
      BY <2>2 DEF Drop, IInv, TypeOK
    <2>3. QED  BY <1>1, <2>1, <2>2
  <1>5. TypeOK'
    BY <1>2, <1>4 DEF IInv, TypeOK
  <1>6. CountsAreGuards'
    BY <1>3, <1>4 DEF IInv, CountsAreGuards
  <1>7. WithinLimit'
    <2>1. \A i \in Ips : Cardinality(SlotsOf(i)) \in Nat
      BY SlotsFinite DEF IInv
    <2>2. QED  BY <1>3, <2>1, IpLimitAssumption DEF IInv, WithinLimit
  <1>8. NoStaleEntry'
    <2> SUFFICES ASSUME Limit # 0, NEW i \in DOMAIN connections'
                 PROVE  SlotsOf(i)' # {}
      BY DEF NoStaleEntry
    <2>1. i \in Ips /\ i \in DOMAIN connections
      BY <1>4 DEF IInv, TypeOK
    <2>2. CASE g.tracked /\ i = g.ip
      <3>1. Cardinality(SlotsOf(i)') > 0
        BY <1>4, <1>6, <2>1, <2>2 DEF CountsAreGuards
      <3>2. QED  BY <3>1, FS_EmptySet
    <2>3. CASE ~(g.tracked /\ i = g.ip)
      <3>1. SlotsOf(i)' = SlotsOf(i)
        BY <1>1, <2>3 DEF SlotsOf
      <3>2. QED  BY <2>1, <3>1 DEF IInv, NoStaleEntry
    <2>4. QED  BY <2>2, <2>3
  <1>9. QED  BY <1>5, <1>6, <1>7, <1>8 DEF IInv

-----------------------------------------------------------------------------
\* In every reachable state the table is well-formed, its counters are the
\* numbers of guards alive, no address holds more than Limit slots and, for
\* a limit other than zero, no address without a connection is in the table
\* (try_acquire and ConnectionGuard::drop in ip_limit.rs).
THEOREM LimiterInvariant == Spec => []IInv
  <1>1. Init => IInv
    <2> SUFFICES ASSUME Init PROVE IInv
      OBVIOUS
    <2>1. live = {} /\ DOMAIN connections = {}
      BY DEF Init
    <2>2. TypeOK
      BY <2>1, FS_EmptySet DEF Init, TypeOK
    <2>3. \A ip : SlotsOf(ip) = {}
      BY <2>1 DEF SlotsOf
    <2>4. QED
      BY <2>1, <2>2, <2>3, FS_EmptySet, IpLimitAssumption
      DEF IInv, CountsAreGuards, WithinLimit, NoStaleEntry, Count
  <1>2. IInv /\ [Next]_vars => IInv'
    <2> SUFFICES ASSUME IInv, [Next]_vars PROVE IInv'
      OBVIOUS
    <2>1. ASSUME NEW ip \in Ips, NEW id \in Guards, Acquire(ip, id)
          PROVE  IInv'
      BY <2>1, AcquireSlotInductive, AcquireUntrackedInductive, IpLimitAssumption
    <2>2. ASSUME NEW ip \in Ips, Refuse(ip)
          PROVE  IInv'
      BY <2>2, RefuseInductive
    <2>3. ASSUME NEW g \in live, Drop(g)
          PROVE  IInv'
      BY <2>3, DropInductive
    <2>4. CASE UNCHANGED vars
      BY <2>4 DEF vars, IInv, TypeOK, CountsAreGuards, WithinLimit,
                  NoStaleEntry, SlotsOf
    <2>5. QED  BY <2>1, <2>2, <2>3, <2>4 DEF Next
  <1>3. QED  BY <1>1, <1>2, PTL DEF Spec

\* Every guard stands for one connection of one address, and only finitely many
\* addresses are in the table.
THEOREM TypeCorrect == Spec => []TypeOK
  BY LimiterInvariant, PTL DEF IInv

\* The counter of an address is always the number of guards that will still
\* give a slot of it back.
THEOREM CountsAreGuardsHolds == Spec => []CountsAreGuards
  BY LimiterInvariant, PTL DEF IInv

\* No address ever holds more slots than ip_limitation allows.
THEOREM WithinLimitHolds == Spec => []WithinLimit
  BY LimiterInvariant, PTL DEF IInv

\* The table only holds addresses with an open connection.
THEOREM NoStaleEntryHolds == Spec => []NoStaleEntry
  BY LimiterInvariant, PTL DEF IInv
=============================================================================
