------------------------------- MODULE IpLimit -------------------------------
(***************************************************************************)
(* The per-IP connection limiter, src/src/network/ip_limit.rs: a process-  *)
(* wide table of connection counts, shared by the accept loops of every    *)
(* port and by every client task, and the RAII guards that give a slot     *)
(* back.  Every access to the table happens under one mutex, so each call  *)
(* is one step.                                                            *)
(***************************************************************************)
EXTENDS Integers, FiniteSets, Functions

CONSTANTS
    Ips,      \* client addresses
    Guards,   \* identities of ConnectionGuard values
    Limit     \* ip_limitation of scety.toml; negative disables the limiter

ASSUME IpLimitAssumption == Limit \in Int

VARIABLES
    connections,  \* the table: a function from the addresses present in it
    live          \* the ConnectionGuard values that have not been dropped

vars == <<connections, live>>

Guard == [id : Guards, ip : Ips, tracked : BOOLEAN]

\* `entry(ip).or_insert(0)`, read: an address without an entry counts as 0.
Count(table, ip) == IF ip \in DOMAIN table THEN table[ip] ELSE 0

\* The table after the entry of ip has been set to n.
SetCount(table, ip, n) ==
    [i \in DOMAIN table \cup {ip} |-> IF i = ip THEN n ELSE table[i]]

\* Fault: a slot given back by hand and again by drop.
DecTwice(n) == n - 2

\* `saturating_sub(1)` on a usize.
SaturatingDec(n) == IF n = 0 THEN 0 ELSE n - 1

\* Fault: the entry is removed whatever remains of it.
ReleasedWhole(table, ip) == Restrict(table, DOMAIN table \ {ip})

\* Fault: the entry stays when its counter reaches zero.
ReleasedKept(table, ip) ==
    IF ip \notin DOMAIN table THEN table
    ELSE SetCount(table, ip, SaturatingDec(table[ip]))

\* The table after a tracked guard of ip is dropped: an entry that reaches
\* zero is removed, an address without an entry is left alone.
Released(table, ip) ==
    LET remaining == SaturatingDec(table[ip]) IN
    IF ip \notin DOMAIN table THEN table
    ELSE IF remaining = 0 THEN Restrict(table, DOMAIN table \ {ip})
    ELSE SetCount(table, ip, remaining)

IsFresh(id) == \A g \in live : g.id # id

-----------------------------------------------------------------------------
Init == connections = [ip \in {} |-> 0] /\ live = {}

\* Fault: the limit is off by one.
AcquireOneMore(ip, id) ==
    /\ IsFresh(id)
    /\ Limit >= 0 => Count(connections, ip) <= Limit
    /\ connections' = SetCount(connections, ip, Count(connections, ip) + 1)
    /\ live' = live \cup {[id |-> id, ip |-> ip, tracked |-> Limit >= 0]}

\* try_acquire that succeeds.  With a negative limit the guard holds no slot.
Acquire(ip, id) ==
    /\ IsFresh(id)
    /\ Limit >= 0 => Count(connections, ip) < Limit
    /\ connections' = IF Limit < 0 THEN connections
                      ELSE SetCount(connections, ip, Count(connections, ip) + 1)
    /\ live' = live \cup {[id |-> id, ip |-> ip, tracked |-> Limit >= 0]}

\* try_acquire that fails.  The entry has been created by then, and stays.
Refuse(ip) ==
    /\ Limit >= 0
    /\ Count(connections, ip) >= Limit
    /\ connections' = SetCount(connections, ip, Count(connections, ip))
    /\ UNCHANGED live

\* ConnectionGuard::drop.
Drop(g) ==
    /\ g \in live
    /\ live' = live \ {g}
    /\ connections' = IF g.tracked THEN Released(connections, g.ip)
                                   ELSE connections

Next ==
    \/ \E ip \in Ips, id \in Guards : Acquire(ip, id)
    \/ \E ip \in Ips : Refuse(ip)
    \/ \E g \in live : Drop(g)

Spec == Init /\ [][Next]_vars

-----------------------------------------------------------------------------
\* The guards that hold a slot of ip.
SlotsOf(ip) == {g \in live : g.tracked /\ g.ip = ip}

\* The table is a partial map from addresses to counters, the guards are
\* distinct values.
TypeOK ==
    /\ connections \in [DOMAIN connections -> Nat]
    /\ DOMAIN connections \subseteq Ips
    /\ live \subseteq Guard /\ IsFiniteSet(live)
    /\ \A g, h \in live : g.id = h.id => g = h

\* What a leaked or doubly released slot would break: the counter of an
\* address (ip_limit.rs:47 and :24) is the number of guards that will still
\* decrement it.
CountsAreGuards ==
    \A ip \in Ips : Count(connections, ip) = Cardinality(SlotsOf(ip))

\* No interleaving of acquisitions and drops lets one address hold more than
\* Limit slots (ip_limit.rs:43).
WithinLimit ==
    Limit >= 0 => \A ip \in Ips : Cardinality(SlotsOf(ip)) <= Limit

\* The table does not grow with the addresses seen: an address is in it only
\* while one of its connections is open (ip_limit.rs:26-28).  With Limit = 0
\* every refused address leaves an entry behind (ip_limit.rs:41), hence the
\* premise.
NoStaleEntry ==
    Limit # 0 => \A ip \in DOMAIN connections : SlotsOf(ip) # {}

\* The inductive invariant of IpLimitProofs.
IInv == TypeOK /\ CountsAreGuards /\ WithinLimit /\ NoStaleEntry
=============================================================================
