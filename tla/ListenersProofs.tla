--------------------------- MODULE ListenersProofs ---------------------------
(***************************************************************************)
(* Proofs about the running service, for any ports, any supply of          *)
(* connections, any addresses and every limit.                             *)
(***************************************************************************)
EXTENDS Listeners, FiniteSetTheorems, TLAPS

\* The limiter's theorems, about the limiter the listeners use.
LimiterFacts == INSTANCE IpLimitProofs WITH Guards <- Conns

\* An instance has its own copies of the operators on finite sets.
LEMMA OneCardinality ==
    /\ \A S : Limiter!IsFiniteSet(S) <=> IsFiniteSet(S)
    /\ \A S : LimiterFacts!IsFiniteSet(S) <=> IsFiniteSet(S)
    /\ \A S : Limiter!Cardinality(S) = Cardinality(S)
    /\ \A S : LimiterFacts!Cardinality(S) = Cardinality(S)
  <1>1. \A S : Limiter!IsFiniteSet(S) <=> IsFiniteSet(S)
    BY DEF Limiter!IsFiniteSet, IsFiniteSet
  <1>2. \A S : LimiterFacts!IsFiniteSet(S) <=> IsFiniteSet(S)
    BY DEF LimiterFacts!IsFiniteSet, IsFiniteSet
  <1>3. \A S : Limiter!Cardinality(S) = Cardinality(S)
    BY DEF Limiter!Cardinality, Cardinality
  <1>4. \A S : LimiterFacts!Cardinality(S) = Cardinality(S)
    BY DEF LimiterFacts!Cardinality, Cardinality
  <1>5. QED  BY <1>1, <1>2, <1>3, <1>4

-----------------------------------------------------------------------------
\* Every step of the service is one call of the limiter, or none.
LEMMA StepOfLimiter ==
    ASSUME [Next]_vars
    PROVE  [Limiter!Next]_(Limiter!vars)
  <1>1. ASSUME NEW p \in Ports, NEW id \in Conns, NEW ip \in Ips, Accept(p, id, ip)
        PROVE  Limiter!Acquire(ip, id) \/ Limiter!Refuse(ip)
                   \/ UNCHANGED <<connections, live>>
    BY <1>1 DEF Accept, AcceptPlain, AcceptManual, AcceptAcme, NoLimiterCall
  <1>2. ASSUME NEW c \in open, Steps(c)
        PROVE  Limiter!Drop(GuardOf(c)) \/ UNCHANGED <<connections, live>>
    BY <1>2 DEF Steps, Handshake, Served, SeesCancellation, PageSent, DropGuard,
                Closes, NoLimiterCall
  <1>3. ASSUME NEW g, Limiter!Drop(g)
        PROVE  Limiter!Next
    BY <1>3 DEF Limiter!Next, Limiter!Drop
  <1>4. ASSUME NEW p \in Ports, Starts(p) \/ StopPort(p)
        PROVE  UNCHANGED <<connections, live>>
    BY <1>4 DEF Starts, Bind, BindFails, LoadTlsFails, StopPort, PortBecomes,
                NoLimiterCall
  <1>5. ASSUME Interrupt \/ ListenerDied \/ Joined \/ Terminate
        PROVE  UNCHANGED <<connections, live>>
    BY <1>5 DEF Interrupt, ListenerDied, Joined, Terminate, RunBecomes,
                NoLimiterCall
  <1>6. CASE UNCHANGED vars
    BY <1>6 DEF vars, Limiter!vars
  <1>7. QED
    BY <1>1, <1>2, <1>3, <1>4, <1>5, <1>6 DEF Next, Limiter!Next, Limiter!vars

\* The actions of the listeners are made of those of the limiter, whose
\* theorems therefore hold of them.
LEMMA ServiceUsesTheLimiter == Spec => Limiter!Spec
  <1>1. Init => Limiter!Init
    BY DEF Init
  <1>2. [Next]_vars => [Limiter!Next]_(Limiter!vars)
    BY StepOfLimiter
  <1>3. QED  BY <1>1, <1>2, PTL DEF Spec, Limiter!Spec

\* What IpLimitProofs proves of the limiter holds of the service's.
THEOREM LimiterHolds == Spec => [](Limiter!IInv)
  <1>1. LimiterFacts!Spec => []LimiterFacts!IInv
    BY LimiterFacts!LimiterInvariant, ListenersAssumption
    DEF LimiterFacts!IpLimitAssumption
  <1>2. Limiter!Init => LimiterFacts!Init
    BY DEF Limiter!Init, LimiterFacts!Init
  <1>3. [Limiter!Next]_(Limiter!vars) => [LimiterFacts!Next]_(LimiterFacts!vars)
    BY DEF Limiter!Next, Limiter!vars, LimiterFacts!Next, LimiterFacts!vars,
           Limiter!Acquire, Limiter!Refuse, Limiter!Drop, Limiter!IsFresh,
           Limiter!Count, Limiter!SetCount, Limiter!Released,
           Limiter!SaturatingDec, Limiter!Restrict,
           LimiterFacts!Acquire, LimiterFacts!Refuse, LimiterFacts!Drop,
           LimiterFacts!IsFresh, LimiterFacts!Count, LimiterFacts!SetCount,
           LimiterFacts!Released, LimiterFacts!SaturatingDec,
           LimiterFacts!Restrict
  <1>4. LimiterFacts!IInv => Limiter!IInv
    BY OneCardinality
       DEF Limiter!IInv, Limiter!TypeOK, Limiter!CountsAreGuards,
           Limiter!WithinLimit, Limiter!NoStaleEntry, Limiter!Guard,
           Limiter!Count, Limiter!SlotsOf,
           LimiterFacts!IInv, LimiterFacts!TypeOK, LimiterFacts!CountsAreGuards,
           LimiterFacts!WithinLimit, LimiterFacts!NoStaleEntry,
           LimiterFacts!Guard, LimiterFacts!Count, LimiterFacts!SlotsOf
  <1>5. QED
    BY ServiceUsesTheLimiter, <1>1, <1>2, <1>3, <1>4, PTL
    DEF Limiter!Spec, LimiterFacts!Spec

-----------------------------------------------------------------------------
\* The inductive invariant.  The limiter's own types are LimiterHolds's.
TaskInv ==
    /\ port \in [Ports -> PortStates]
    /\ open \subseteq Connection
    /\ \A c, d \in open : c.id = d.id => c = d
    /\ process \in ProcessStates
    /\ GuardsAreTasks

\* A connection that is accepted comes with its guard, or with neither a task
\* that owns one nor a guard.
LEMMA AcceptKeepsTasks ==
    ASSUME TaskInv, NEW p \in Ports, NEW id \in Conns, NEW ip \in Ips,
           Accept(p, id, ip)
    PROVE  TaskInv'
  <1> DEFINE c(phase) == [id |-> id, ip |-> ip, port |-> p, phase |-> phase]
             g == [id |-> id, ip |-> ip, tracked |-> Limit >= 0]
  <1>1. \A phase \in ConnPhases :
            c(phase) \in Connection /\ GuardOf(c(phase)) = g
    BY DEF Connection, GuardOf
  <1>2. /\ \A d \in open : d.id # id
        /\ UNCHANGED <<port, process>>
    BY DEF Accept, AcceptPlain, AcceptManual, AcceptAcme, Accepting
  <1>3. ASSUME NEW phase \in {"serving", "handshake"}, Opens(id, ip, p, phase),
               Limiter!Acquire(ip, id), p \notin AcmePorts
        PROVE  TaskInv'
    <2>1. open' = open \cup {c(phase)} /\ live' = live \cup {g}
      BY <1>3 DEF Opens, Limiter!Acquire
    <2>2. Guarded' = Guarded \cup {c(phase)}
      BY <1>3, <2>1 DEF Guarded, IsGuarded
    <2>3. GuardsAreTasks'
      BY <1>1, <2>1, <2>2 DEF TaskInv, GuardsAreTasks, ConnPhases, GuardOf
    <2>4. QED
      BY <1>1, <1>2, <2>1, <2>3 DEF TaskInv, ConnPhases
  <1>4. ASSUME NEW phase \in ConnPhases, Opens(id, ip, p, phase), live' = live,
               p \in AcmePorts \/ phase = "refusing"
        PROVE  TaskInv'
    <2>1. open' = open \cup {c(phase)}
      BY <1>4 DEF Opens
    <2>2. Guarded' = Guarded
      BY <1>4, <2>1 DEF Guarded, IsGuarded
    <2>3. GuardsAreTasks'
      BY <1>4, <2>2 DEF TaskInv, GuardsAreTasks, GuardOf
    <2>4. QED  BY <1>1, <1>2, <2>1, <2>3 DEF TaskInv
  <1>5. ASSUME live' = live, open' = open
        PROVE  TaskInv'
    BY <1>2, <1>5 DEF TaskInv, GuardsAreTasks, Guarded, IsGuarded, GuardOf
  <1>6. CASE AcceptPlain(p, id, ip)
    BY <1>3, <1>4, <1>6, ListenersAssumption
    DEF AcceptPlain, ConnPhases, Limiter!Refuse
  <1>7. CASE AcceptManual(p, id, ip)
    BY <1>3, <1>5, <1>7, ListenersAssumption DEF AcceptManual, Limiter!Refuse
  <1>8. CASE AcceptAcme(p, id, ip)
    BY <1>4, <1>8 DEF AcceptAcme, ConnPhases, NoLimiterCall
  <1>9. QED  BY <1>6, <1>7, <1>8 DEF Accept

\* A task that goes on, or ends without one, keeps its guard.
LEMMA MovesKeepsTasks ==
    ASSUME TaskInv, NEW c \in open, NEW phase \in ConnPhases \ {"refusing"},
           c.phase # "refusing", Moves(c, phase), live' = live,
           UNCHANGED <<port, process>>
    PROVE  TaskInv'
  <1> DEFINE d == [c EXCEPT !.phase = phase]
  <1>1. c \in Connection /\ d \in Connection
    BY DEF TaskInv, Connection
  <1>2. /\ d.id = c.id /\ d.port = c.port /\ d.phase # "refusing"
        /\ GuardOf(d) = GuardOf(c) /\ (IsGuarded(d) <=> IsGuarded(c))
    BY <1>1 DEF Connection, GuardOf, IsGuarded
  <1>3. open' = (open \ {c}) \cup {d}
    BY DEF Moves
  <1>4. \A x, y \in open' : x.id = y.id => x = y
    BY <1>2, <1>3 DEF TaskInv
  <1>5. Guarded' = IF IsGuarded(c) THEN (Guarded \ {c}) \cup {d} ELSE Guarded
    BY <1>2, <1>3 DEF Guarded, IsGuarded
  <1>6. {GuardOf(x) : x \in Guarded'} = {GuardOf(x) : x \in Guarded}
    BY <1>2, <1>5 DEF Guarded
  <1>7. GuardsAreTasks'
    BY <1>6 DEF TaskInv, GuardsAreTasks, GuardOf
  <1>8. QED  BY <1>1, <1>3, <1>4, <1>7 DEF TaskInv

\* Connections without a guard may go.
LEMMA UnguardedMayGo ==
    ASSUME TaskInv, NEW gone, \A c \in gone \cap open : ~IsGuarded(c),
           open' = open \ gone, live' = live,
           port' \in [Ports -> PortStates], process' = process
    PROVE  TaskInv'
  <1>1. Guarded' = Guarded
    BY DEF Guarded, IsGuarded
  <1>2. GuardsAreTasks'
    BY <1>1 DEF TaskInv, GuardsAreTasks, GuardOf
  <1>3. QED  BY <1>2 DEF TaskInv

LEMMA ClosesKeepsTasks ==
    ASSUME TaskInv, NEW c \in open, Closes(c), UNCHANGED <<port, process>>
    PROVE  TaskInv'
  <1>1. live' = live
    BY DEF Closes, NoLimiterCall
  <1>2. CASE IsGuarded(c)
    BY <1>1, <1>2, MovesKeepsTasks DEF Closes, IsGuarded, ConnPhases
  <1>3. CASE ~IsGuarded(c)
    BY <1>1, <1>3, UnguardedMayGo DEF Closes, TaskInv
  <1>4. QED  BY <1>2, <1>3

\* The end of a task drops the guard that is its own and no other's.
LEMMA DropKeepsTasks ==
    ASSUME TaskInv, NEW c \in open, DropGuard(c)
    PROVE  TaskInv'
  <1>1. /\ open' = open \ {c} /\ live' = live \ {GuardOf(c)}
        /\ GuardOf(c) \in live /\ UNCHANGED <<port, process>>
    BY DEF DropGuard, Task, Limiter!Drop
  <1>2. \A d \in open : GuardOf(d) = GuardOf(c) => d = c
    BY DEF TaskInv, GuardOf
  <1>3. Guarded' = Guarded \ {c}
    BY <1>1 DEF Guarded, IsGuarded
  <1>4. {GuardOf(d) : d \in Guarded \ {c}} =
            {GuardOf(d) : d \in Guarded} \ {GuardOf(c)}
    BY <1>2 DEF Guarded
  <1>5. GuardsAreTasks'
    BY <1>1, <1>3, <1>4 DEF TaskInv, GuardsAreTasks, GuardOf
  <1>6. QED  BY <1>1, <1>5 DEF TaskInv

\* Every guard of the limiter belongs to exactly one task, whatever comes and
\* goes (listeners.rs:79-98, 144-167).
THEOREM TasksInvariant == Spec => []TaskInv
  <1>1. Init => TaskInv
    BY DEF Init, Limiter!Init, TaskInv, GuardsAreTasks, Guarded, PortStates,
           ProcessStates
  <1>2. TaskInv /\ [Next]_vars => TaskInv'
    <2> SUFFICES ASSUME TaskInv, [Next]_vars PROVE TaskInv'
      OBVIOUS
    <2>1. ASSUME NEW p \in Ports, Starts(p)
          PROVE  TaskInv'
      BY <2>1 DEF Starts, Bind, BindFails, LoadTlsFails, PortBecomes, TaskInv,
                  PortStates, NoLimiterCall, GuardsAreTasks, Guarded, IsGuarded,
                  GuardOf
    <2>2. ASSUME NEW p \in Ports, StopPort(p)
          PROVE  TaskInv'
      <3>1. /\ live' = live /\ process' = process
            /\ port' \in [Ports -> PortStates]
        BY <2>2 DEF StopPort, PortBecomes, NoLimiterCall, TaskInv, PortStates
      <3>2. QED
        BY <2>2, <3>1, UnguardedMayGo DEF StopPort, IsGuarded
    <2>3. ASSUME NEW p \in Ports, NEW id \in Conns, NEW ip \in Ips,
                 Accept(p, id, ip)
          PROVE  TaskInv'
      BY <2>3, AcceptKeepsTasks
    <2>4. ASSUME NEW c \in open, Steps(c)
          PROVE  TaskInv'
      <3>1. CASE Handshake(c)
        BY <3>1, MovesKeepsTasks, ClosesKeepsTasks
        DEF Handshake, Task, NoLimiterCall, ConnPhases
      <3>2. CASE Served(c)
        BY <3>2, ClosesKeepsTasks DEF Served, Task
      <3>3. CASE SeesCancellation(c)
        BY <3>3, MovesKeepsTasks
        DEF SeesCancellation, Task, NoLimiterCall, ConnPhases
      <3>4. CASE PageSent(c)
        BY <3>4, ClosesKeepsTasks DEF PageSent, Task
      <3>5. CASE DropGuard(c)
        BY <3>5, DropKeepsTasks
      <3>6. QED  BY <2>4, <3>1, <3>2, <3>3, <3>4, <3>5 DEF Steps
    <2>5. CASE Interrupt \/ ListenerDied \/ Joined \/ Terminate
      BY <2>5 DEF Interrupt, ListenerDied, Joined, Terminate, RunBecomes,
                  NoLimiterCall, TaskInv, ProcessStates, GuardsAreTasks, Guarded,
                  IsGuarded, GuardOf
    <2>6. CASE UNCHANGED vars
      BY <2>6 DEF vars, TaskInv, GuardsAreTasks, Guarded, IsGuarded, GuardOf
    <2>7. QED  BY <2>1, <2>2, <2>3, <2>4, <2>5, <2>6 DEF Next
  <1>3. QED  BY <1>1, <1>2, PTL DEF Spec

\* No guard is lost and none is left behind.
THEOREM GuardsAreTasksHolds == Spec => []GuardsAreTasks
  BY TasksInvariant, PTL DEF TaskInv

\* The service's state is well-formed, and its connections are distinct.
THEOREM TypeOKHolds == Spec => []TypeOK
  <1>1. TaskInv /\ Limiter!IInv => TypeOK
    BY DEF TaskInv, TypeOK, Limiter!IInv
  <1>2. QED  BY TasksInvariant, LimiterHolds, <1>1, PTL

-----------------------------------------------------------------------------
\* The connections of an address that own a guard are as many as the slots the
\* address holds.
LEMMA TasksAreSlots ==
    ASSUME TaskInv, Limiter!IInv, Limit >= 0, NEW ip \in Ips
    PROVE  Cardinality({c \in Guarded : c.ip = ip})
               = Cardinality(Limiter!SlotsOf(ip))
  <1> DEFINE S == {c \in Guarded : c.ip = ip}
             T == Limiter!SlotsOf(ip)
             f == [c \in S |-> GuardOf(c)]
  <1>1. IsFiniteSet(T)
    <2>1. IsFiniteSet(live)
      BY OneCardinality DEF Limiter!IInv, Limiter!TypeOK
    <2>2. T \subseteq live
      BY DEF Limiter!SlotsOf
    <2>3. QED  BY <2>1, <2>2, FS_Subset
  <1>2. T = {GuardOf(c) : c \in S}
    <2>1. (Limit >= 0) = TRUE
      OBVIOUS
    <2>2. \A c : GuardOf(c) = [id |-> c.id, ip |-> c.ip, tracked |-> TRUE]
      BY <2>1 DEF GuardOf
    <2>3. live = {GuardOf(c) : c \in Guarded}
      BY DEF TaskInv, GuardsAreTasks
    <2>4. QED  BY <2>2, <2>3 DEF Limiter!SlotsOf
  <1>3. \A c, d \in S : GuardOf(c) = GuardOf(d) => c = d
    BY DEF TaskInv, Guarded, GuardOf
  <1>4. f \in Injection(S, T) /\ f \in Surjection(S, T)
    BY <1>2, <1>3 DEF Injection, Surjection, IsInjective
  <1>5. QED  BY <1>1, <1>4, FS_Injection

\* Over all plain and manual TLS ports together, no address has more than
\* Limit connections in the works (listeners.rs:46-49).
THEOREM PortsShareTheLimitHolds == Spec => []PortsShareTheLimit
  <1>1. TaskInv /\ Limiter!IInv => PortsShareTheLimit
    BY TasksAreSlots, OneCardinality
    DEF PortsShareTheLimit, Limiter!IInv, Limiter!WithinLimit
  <1>2. QED  BY TasksInvariant, LimiterHolds, <1>1, PTL

\* A client is answered with 429 only while its address has exactly Limit
\* connections whose tasks are still there (listeners.rs:79-88).
THEOREM RefusedOnlyAtTheLimitHolds == Spec => RefusedOnlyAtTheLimit
  <1>1. ASSUME TaskInv, Limiter!IInv, [Next]_vars,
               NEW c \in open' \ open, c.phase = "refusing"
        PROVE  Cardinality({d \in Guarded : d.ip = c.ip}) = Limit
    <2>1. PICK p \in Ports, id \in Conns, ip \in Ips : Accept(p, id, ip)
      <3>1. ASSUME NEW p \in Ports, Starts(p) \/ StopPort(p)
            PROVE  FALSE
        BY <1>1, <3>1 DEF Starts, Bind, BindFails, LoadTlsFails, StopPort
      <3>2. ASSUME NEW d \in open, Steps(d)
            PROVE  FALSE
        <4>1. d \in Connection
          BY <1>1 DEF TaskInv
        <4>2. \A phase \in ConnPhases :
                  Moves(d, phase) => c = [d EXCEPT !.phase = phase]
          BY <1>1 DEF Moves
        <4>3. \A phase \in {"serving", "ended", "unavailable"} : ~Moves(d, phase)
          BY <1>1, <4>1, <4>2 DEF Connection, ConnPhases
        <4>4. ~(open' = open \ {d})
          BY <1>1
        <4>5. QED
          BY <3>2, <4>3, <4>4
          DEF Steps, Handshake, Served, SeesCancellation, PageSent, DropGuard,
              Closes
      <3>3. ASSUME open' = open
            PROVE  FALSE
        BY <1>1, <3>3
      <3>4. QED
        BY <1>1, <3>1, <3>2, <3>3
        DEF Next, vars, Interrupt, ListenerDied, Joined, Terminate, RunBecomes
    <2>2. Limiter!Refuse(ip) /\ c.ip = ip
      BY <1>1, <2>1
      DEF Accept, AcceptPlain, AcceptManual, AcceptAcme, Opens
    <2>3. /\ Limit >= 0 /\ Limiter!Count(connections, ip) >= Limit
          /\ Limiter!Count(connections, ip) = Cardinality(Limiter!SlotsOf(ip))
          /\ Cardinality(Limiter!SlotsOf(ip)) <= Limit
          /\ Limiter!Count(connections, ip) \in Int
      BY <1>1, <2>2, OneCardinality
      DEF Limiter!Refuse, Limiter!IInv, Limiter!CountsAreGuards,
          Limiter!WithinLimit, Limiter!TypeOK, Limiter!Count
    <2>4. Cardinality(Limiter!SlotsOf(ip)) = Limit
      BY <2>3, ListenersAssumption
    <2>5. QED  BY <1>1, <2>2, <2>3, <2>4, TasksAreSlots
  <1>2. TaskInv /\ Limiter!IInv /\ [Next]_vars =>
            \A c \in open' \ open :
                c.phase = "refusing"
                    => Cardinality({d \in Guarded : d.ip = c.ip}) = Limit
    BY <1>1
  <1>3. QED
    BY TasksInvariant, LimiterHolds, <1>2, PTL DEF Spec, RefusedOnlyAtTheLimit
=============================================================================
