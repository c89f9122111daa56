------------------------------ MODULE Listeners ------------------------------
(***************************************************************************)
(* The running service: run() of src/src/cli/commands/run.rs, the listener *)
(* task it starts for every port (src/src/network/global_router.rs and     *)
(* listeners.rs) and the tasks the listeners spawn for their clients.      *)
(*                                                                         *)
(* The listeners and the client tasks share the connection limiter, which  *)
(* is the module IpLimit; what happens within handle_client is the module  *)
(* ClientConnection, of which only the ends are kept here.                 *)
(***************************************************************************)
EXTENDS Integers, FiniteSets

CONSTANTS
    PlainPorts,   \* the ports of SslMode::None,
    ManualPorts,  \* of SslMode::Manual
    AcmePorts,    \* and of SslMode::Acme
    Conns,        \* identities of connections
    Ips,          \* client addresses
    Limit         \* ip_limitation of scety.toml

ASSUME ListenersAssumption ==
    /\ Limit \in Int
    /\ PlainPorts \cap ManualPorts = {}
    /\ AcmePorts \cap (PlainPorts \cup ManualPorts) = {}

VARIABLES
    port,         \* what became of the listener task of each port
    open,         \* the connections the program has not done with
    process,      \* where run() is
    connections,  \* the limiter's table and
    live          \* its guards, each named after its connection

vars == <<port, open, process, connections, live>>

Ports == PlainPorts \cup ManualPorts \cup AcmePorts

\* starting: not bound yet.  no_tls, no_port: returned because the certificate
\* could not be loaded or the address not be bound.  stopped: returned because
\* of the cancellation.
PortStates == {"starting", "listening", "no_tls", "no_port", "stopped"}

\* handshake: TLS is being set up.  serving: in process_request.
\* unavailable: handle_client writes 503.  ended: the socket is closed, the
\* task is about to drop its guard.  refusing: a task writes 429.
ConnPhases == {"handshake", "serving", "unavailable", "ended", "refusing"}

\* running: in select!, with the token not cancelled.  draining: cancelled, in
\* join_all.  exited: run() has returned.  failed: exit(1).  killed: by a
\* signal.
ProcessStates == {"running", "draining", "exited", "failed", "killed"}

Connection == [id : Conns, ip : Ips, port : Ports, phase : ConnPhases]

Limiter == INSTANCE IpLimit WITH Guards <- Conns

Running(p) == port[p] \in {"starting", "listening"}
Alive      == process \in {"running", "draining"}
Cancelled  == process = "draining"

\* The connections whose task owns a ConnectionGuard.
IsGuarded(c) == c.port \notin AcmePorts /\ c.phase # "refusing"

GuardOf(c) == [id |-> c.id, ip |-> c.ip, tracked |-> Limit >= 0]

Opens(id, ip, p, phase) ==
    open' = open \cup {[id |-> id, ip |-> ip, port |-> p, phase |-> phase]}

\* Fault: the connection stays where it was as well.
MovesCopy(c, phase) == open' = open \cup {[c EXCEPT !.phase = phase]}

Moves(c, phase) == open' = (open \ {c}) \cup {[c EXCEPT !.phase = phase]}

NoLimiterCall == UNCHANGED <<connections, live>>

-----------------------------------------------------------------------------
\* start_listen has spawned a task for every port.
Init ==
    /\ port = [p \in Ports |-> "starting"]
    /\ open = {}
    /\ process = "running"
    /\ Limiter!Init

\* The listener of p reaches another state.
PortBecomes(p, from, to) ==
    /\ Alive /\ port[p] = from
    /\ port' = [port EXCEPT ![p] = to]
    /\ UNCHANGED process /\ NoLimiterCall

Bind(p) == PortBecomes(p, "starting", "listening") /\ UNCHANGED open

BindFails(p) == PortBecomes(p, "starting", "no_port") /\ UNCHANGED open

LoadTlsFails(p) ==
    /\ p \in ManualPorts
    /\ PortBecomes(p, "starting", "no_tls") /\ UNCHANGED open

Starts(p) == Bind(p) \/ BindFails(p) \/ LoadTlsFails(p)

\* Fault: the listener waits for its connections.
StopIdlePort(p) ==
    /\ Cancelled
    /\ \A c \in open : c.port # p
    /\ PortBecomes(p, "listening", "stopped")
    /\ UNCHANGED open

\* The cancelled branch of a listener's select!.  An ACME listener takes with
\* it the handshakes of its stream; the tasks already spawned live on.
StopPort(p) ==
    /\ Cancelled
    /\ PortBecomes(p, "listening", "stopped")
    /\ open' = open \ {c \in open : /\ p \in AcmePorts /\ c.port = p
                                    /\ c.phase = "handshake"}

-----------------------------------------------------------------------------
\* The accept branch: taken after the cancellation as well, since select!
\* picks any branch that is ready.
Accepting(p, id) ==
    /\ Alive /\ port[p] = "listening"
    /\ \A c \in open : c.id # id
    /\ UNCHANGED <<port, process>>

AcceptPlain(p, id, ip) ==
    /\ p \in PlainPorts /\ Accepting(p, id)
    /\ \/ Limiter!Acquire(ip, id) /\ Opens(id, ip, p, "serving")
       \/ Limiter!Refuse(ip) /\ Opens(id, ip, p, "refusing")

\* Fault: the slot is only taken once the handshake is over.
AcceptManualUnguarded(p, id, ip) ==
    /\ p \in ManualPorts /\ Accepting(p, id)
    /\ Opens(id, ip, p, "handshake") /\ NoLimiterCall

\* Past the limit the socket is dropped without a word.
AcceptManual(p, id, ip) ==
    /\ p \in ManualPorts /\ Accepting(p, id)
    /\ \/ Limiter!Acquire(ip, id) /\ Opens(id, ip, p, "handshake")
       \/ Limiter!Refuse(ip) /\ UNCHANGED open

\* tokio-rustls-acme accepts within its stream.
AcceptAcme(p, id, ip) ==
    /\ p \in AcmePorts /\ Accepting(p, id)
    /\ Opens(id, ip, p, "handshake") /\ NoLimiterCall

Accept(p, id, ip) ==
    AcceptPlain(p, id, ip) \/ AcceptManual(p, id, ip) \/ AcceptAcme(p, id, ip)

-----------------------------------------------------------------------------
\* A step of the task of c.
Task(c, phases) ==
    /\ Alive /\ c \in open /\ c.phase \in phases
    /\ UNCHANGED <<port, process>>

\* Fault: the guard is forgotten with the socket.
ClosesForgetting(c) == NoLimiterCall /\ open' = open \ {c}

\* The socket is gone.  A guard, if there is one, outlives it.
Closes(c) ==
    /\ NoLimiterCall
    /\ IF IsGuarded(c) THEN Moves(c, "ended") ELSE open' = open \ {c}

\* An ACME handshake makes progress only while its listener polls the stream.
Handshake(c) ==
    /\ Task(c, {"handshake"})
    /\ \/ Moves(c, "serving") /\ NoLimiterCall
       \/ Closes(c)

\* process_request returns.
Served(c) == Task(c, {"serving"}) /\ Closes(c)

\* The cancelled branch of handle_client.
SeesCancellation(c) ==
    /\ Cancelled /\ Task(c, {"serving"})
    /\ Moves(c, "unavailable") /\ NoLimiterCall

\* send() of a 503 or a 429 returns.
PageSent(c) == Task(c, {"unavailable", "refusing"}) /\ Closes(c)

\* Fault: the task ends, its guard stays.
LeakGuard(c) ==
    /\ Task(c, {"ended"})
    /\ open' = open \ {c}
    /\ NoLimiterCall

\* The end of the task's block drops `_guard`.
DropGuard(c) ==
    /\ Task(c, {"ended"})
    /\ open' = open \ {c}
    /\ Limiter!Drop(GuardOf(c))

Steps(c) ==
    \/ Handshake(c) \/ Served(c) \/ SeesCancellation(c) \/ PageSent(c)
    \/ DropGuard(c)

-----------------------------------------------------------------------------
\* run() leaves, and every task with it.
RunBecomes(from, to) ==
    /\ process = from /\ process' = to
    /\ UNCHANGED <<port, open>> /\ NoLimiterCall

\* ctrl_c() wins the select!: token.cancel().
Interrupt == RunBecomes("running", "draining")

\* Fault: run() waits for all listeners.
AllListenersDied ==
    /\ \A p \in Ports : ~Running(p)
    /\ RunBecomes("running", "failed")

\* join_next() wins it: a listener has returned, or there never was one.
ListenerDied ==
    /\ Ports = {} \/ \E p \in Ports : ~Running(p)
    /\ RunBecomes("running", "failed")

\* join_all() has seen every listener return.
Joined ==
    /\ \A p \in Ports : ~Running(p)
    /\ RunBecomes("draining", "exited")

\* SIGTERM, which nothing handles: `systemctl stop` and `restart`.
Terminate == \E s \in {"running", "draining"} : RunBecomes(s, "killed")

Next ==
    \/ \E p \in Ports : Starts(p) \/ StopPort(p)
    \/ \E p \in Ports, id \in Conns, ip \in Ips : Accept(p, id, ip)
    \/ \E c \in open : Steps(c)
    \/ Interrupt \/ ListenerDied \/ Joined \/ Terminate

\* The runtime polls its tasks, and select! picks its branches at random.
\* Clients owe nothing: neither a handshake nor a request ever ends.
Fairness ==
    /\ \A p \in Ports : WF_vars(Starts(p)) /\ WF_vars(StopPort(p))
    /\ WF_vars(ListenerDied) /\ WF_vars(Joined)

Spec     == Init /\ [][Next]_vars
FairSpec == Spec /\ Fairness

-----------------------------------------------------------------------------
TypeOK ==
    /\ port \in [Ports -> PortStates]
    /\ open \subseteq Connection
    /\ \A c, d \in open : c.id = d.id => c = d
    /\ process \in ProcessStates
    /\ Limiter!TypeOK

Guarded == {c \in open : IsGuarded(c)}

\* The limiter's guards are those of the tasks that run: none is lost with a
\* failed handshake, a refusal, a shutdown or a connection that ends before it
\* is served, and none is left behind (listeners.rs:95-98, 144-167).
GuardsAreTasks == live = {GuardOf(c) : c \in Guarded}

\* Over all plain and manual TLS ports together an address never has more than
\* Limit connections in the works, handshakes included, whatever comes and goes
\* on which port (listeners.rs:46-49 with ip_limit.rs:6-10).
PortsShareTheLimit ==
    Limit >= 0 =>
        \A ip \in Ips : Cardinality({c \in Guarded : c.ip = ip}) <= Limit

\* A client of a plain port gets a 429 only if its address has Limit
\* connections whose tasks are still there (listeners.rs:79-88): no slot is
\* lost on the way of any earlier connection.
RefusedOnlyAtTheLimit ==
    [][\A c \in open' \ open :
          c.phase = "refusing"
              => Cardinality({d \in Guarded : d.ip = c.ip}) = Limit]_vars

\* On Ctrl-C the process ends, whatever its clients do and wherever its
\* listeners are (run.rs:57-67).
InterruptEndsIt == Cancelled ~> ~Alive

\* A listener that returns takes the process down: the service does not go on
\* with some of its ports only (run.rs:62-65).
NoPortIsMissing ==
    (\E p \in Ports : port[p] \in {"no_tls", "no_port"}) ~> ~Alive

\* SECURITY.md:37-39: the per-IP limit is enforced before a request is routed
\* anywhere, hence for every connection that is served.
ServedWithinTheLimit ==
    Limit >= 0 =>
        \A ip \in Ips :
            Cardinality({c \in open : c.ip = ip /\ c.phase = "serving"}) <= Limit

\* run.rs:46: a certificate problem does not keep the service from starting.
\* So when it fails, some port could not be bound.
CertificatesDoNotBlock ==
    process = "failed" => \E p \in Ports : port[p] = "no_port"
=============================================================================
