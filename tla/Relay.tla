-------------------------------- MODULE Relay --------------------------------
(***************************************************************************)
(* relay_upstream_response of src/src/network/listeners.rs: what happens   *)
(* in the phase "relaying" of ClientConnection, after the head of the      *)
(* request has been forwarded.                                             *)
(*                                                                         *)
(* Without response headers to set, bytes are copied in both directions.   *)
(* With some, the head of the response is collected first, its lines are   *)
(* replaced, and only then the copying starts.  Both peers may stop        *)
(* sending, close their side or fail at any time.                          *)
(*                                                                         *)
(* Buffer sizes count items.                                               *)
(***************************************************************************)
EXTENDS Integers, Headers

CONSTANTS
    FirstBuf, MaxBuf,   \* first size and limit of the head buffer
    CopyBuf,            \* buffer of each direction of copy_bidirectional
    Uploads,            \* what a client may send behind its request's head
    Responses,          \* what an upstream may send
    GlobalMaps,         \* maps [headers.response] of scety.toml
    ServiceMaps         \* and of the service

ASSUME RelayAssumption ==
    /\ FirstBuf \in Nat \ {0} /\ MaxBuf \in Nat \ {0} /\ CopyBuf \in Nat \ {0}

VARIABLES
    stream,     \* what each peer is going to send
    extra,      \* the response headers
    timed,      \* whether client_body_timeout covers the relay
    polite,     \* the upstream answers only once it has the whole upload
    written,    \* how much each peer has written to its socket,
    closed,     \* and whether it has shut that side down
    read,       \* how much of it the proxy has read
    phase,      \* where relay_upstream_response is
    buf_len,    \* size of the head buffer
    hold,       \* read from each peer and not passed on yet
    got,        \* what was passed on, by the peer it came from
    eof,        \* the end of each peer's stream has been read,
    shut,       \* and passed on
    outcome     \* how the relay ended

peers == <<stream, polite, written, closed>>
vars  == <<peers, extra, timed, read, phase, buf_len, hold, got, eof, shut,
           outcome>>

Peers == {"client", "upstream"}

\* head: awaiting the head of the response.  passing, returning: writing what
\* is held to the client, before copying or before returning.
Phases   == {"head", "passing", "returning", "copying", "done"}
Outcomes == {"none", "ok", "error", "dropped"}

\* What may have been configured.
ExtraHeaders ==
    {ResponseHeaders(g, s) : g \in GlobalMaps, s \in ServiceMaps}

ASSUME StreamsAssumption ==
    Uploads \subseteq Seq(Item) /\ Responses \subseteq Seq(Item)

ASSUME MapsAssumption == \A map \in GlobalMaps \cup ServiceMaps : IsHeaderMap(map)

Rewriting == extra # <<>>

-----------------------------------------------------------------------------
Init ==
    /\ stream \in [client : Uploads, upstream : Responses]
    /\ extra \in ExtraHeaders
    /\ timed \in BOOLEAN /\ polite \in BOOLEAN
    /\ phase = IF Rewriting THEN "head" ELSE "copying"
    /\ buf_len = Min({FirstBuf, MaxBuf})
    /\ written = [p \in Peers |-> 0]
    /\ read = [p \in Peers |-> 0]
    /\ hold = [p \in Peers |-> <<>>]
    /\ got = [p \in Peers |-> <<>>]
    /\ closed = [p \in Peers |-> FALSE]
    /\ eof = [p \in Peers |-> FALSE]
    /\ shut = [p \in Peers |-> FALSE]
    /\ outcome = "none"

Configured == UNCHANGED <<extra, timed>>
Proxy == <<read, phase, buf_len, hold, got, eof, shut, outcome>>

-----------------------------------------------------------------------------
\* The peers.  A polite upstream reads the whole upload before it answers.
MaySend(p) ==
    /\ phase # "done" /\ ~closed[p]
    /\ p = "upstream" /\ polite => got["client"] = stream["client"]
    /\ Configured /\ UNCHANGED <<stream, polite>> /\ UNCHANGED Proxy

Send(p) ==
    /\ MaySend(p) /\ written[p] < Len(stream[p])
    /\ written' = [written EXCEPT ![p] = @ + 1]
    /\ UNCHANGED closed

\* A peer may close its side before it has sent everything, and still read.
Close(p) ==
    /\ MaySend(p)
    /\ closed' = [closed EXCEPT ![p] = TRUE]
    /\ UNCHANGED written

-----------------------------------------------------------------------------
\* The proxy reads n more items of p.
Takes(p, n) ==
    /\ n <= written[p] - read[p]
    /\ read' = [read EXCEPT ![p] = @ + n]

Following(p, n) == SubSeq(stream[p], read[p] + 1, read[p] + n)

SawEof(p) == closed[p] /\ read[p] = written[p]

\* Writing to the other socket takes any part of what is held.
Passes(p, n) ==
    /\ n \in 1..Len(hold[p])
    /\ got' = [got EXCEPT ![p] = @ \o SubSeq(hold[p], 1, n)]
    /\ hold' = [hold EXCEPT ![p] = SubSeq(@, n + 1, Len(@))]

Holds(items) == hold' = [hold EXCEPT !["upstream"] = items]

\* Fault: a full buffer is given up before the head is looked for in it.
HeadReadFullFirst(have) ==
    \/ /\ HeadEnd(have) > 0 /\ Len(have) < MaxBuf
       /\ Holds(Rewritten(have, extra)) /\ phase' = "passing" /\ UNCHANGED buf_len
    \/ /\ HeadEnd(have) = 0 /\ Len(have) < buf_len
       /\ Holds(have) /\ UNCHANGED <<phase, buf_len>>
    \/ /\ HeadEnd(have) = 0 /\ Len(have) = buf_len /\ buf_len < MaxBuf
       /\ Holds(have) /\ buf_len' = Min({2 * buf_len, MaxBuf}) /\ UNCHANGED phase
    \/ /\ Len(have) = MaxBuf
       /\ Holds(have) /\ phase' = "passing" /\ UNCHANGED buf_len

\* Fault: the buffer grows beyond its limit.
HeadReadUncapped(have) ==
    \/ /\ HeadEnd(have) > 0
       /\ Holds(Rewritten(have, extra)) /\ phase' = "passing" /\ UNCHANGED buf_len
    \/ /\ HeadEnd(have) = 0 /\ Len(have) < buf_len
       /\ Holds(have) /\ UNCHANGED <<phase, buf_len>>
    \/ /\ HeadEnd(have) = 0 /\ Len(have) = buf_len /\ buf_len < MaxBuf
       /\ Holds(have) /\ buf_len' = 2 * buf_len /\ UNCHANGED phase
    \/ /\ HeadEnd(have) = 0 /\ Len(have) = buf_len /\ buf_len >= MaxBuf
       /\ Holds(have) /\ phase' = "passing" /\ UNCHANGED buf_len

\* What the loop does with the bytes it has: the head is complete; there is
\* room for more; the buffer grows; the head is passed on as it is.
HeadRead(have) ==
    \/ /\ HeadEnd(have) > 0
       /\ Holds(Rewritten(have, extra)) /\ phase' = "passing" /\ UNCHANGED buf_len
    \/ /\ HeadEnd(have) = 0 /\ Len(have) < buf_len
       /\ Holds(have) /\ UNCHANGED <<phase, buf_len>>
    \/ /\ HeadEnd(have) = 0 /\ Len(have) = buf_len /\ buf_len < MaxBuf
       /\ Holds(have) /\ buf_len' = Min({2 * buf_len, MaxBuf}) /\ UNCHANGED phase
    \/ /\ HeadEnd(have) = 0 /\ Len(have) = buf_len /\ buf_len >= MaxBuf
       /\ Holds(have) /\ phase' = "passing" /\ UNCHANGED buf_len

ReadHead(n) ==
    /\ phase = "head"
    /\ n \in 1..(buf_len - Len(hold["upstream"])) /\ Takes("upstream", n)
    /\ HeadRead(hold["upstream"] \o Following("upstream", n))
    /\ Configured /\ UNCHANGED peers /\ UNCHANGED <<got, eof, shut, outcome>>

\* The upstream closes within the head: what there is of it is passed on, and
\* the relay returns without a look at the client.
HeadEof ==
    /\ phase = "head" /\ SawEof("upstream")
    /\ phase' = "returning"
    /\ Configured /\ UNCHANGED peers
    /\ UNCHANGED <<read, buf_len, hold, got, eof, shut, outcome>>

\* client_socket.write_all
WriteHead(n) ==
    /\ phase \in {"passing", "returning"} /\ Passes("upstream", n)
    /\ Configured /\ UNCHANGED peers
    /\ UNCHANGED <<read, phase, buf_len, eof, shut, outcome>>

HeadWritten ==
    /\ phase \in {"passing", "returning"} /\ hold["upstream"] = <<>>
    /\ \/ phase = "passing" /\ phase' = "copying" /\ UNCHANGED outcome
       \/ phase = "returning" /\ phase' = "done" /\ outcome' = "ok"
    /\ Configured /\ UNCHANGED peers
    /\ UNCHANGED <<read, buf_len, hold, got, eof, shut>>

-----------------------------------------------------------------------------
\* copy_bidirectional: the two directions run side by side.
Copying ==
    /\ phase = "copying"
    /\ Configured /\ UNCHANGED peers

\* Fault: one direction after the other, the upload or the download first.
CopyReadUploadFirst(p, n) ==
    /\ Copying /\ ~eof[p] /\ (p = "upstream" => shut["client"])
    /\ n \in 1..(CopyBuf - Len(hold[p])) /\ Takes(p, n)
    /\ hold' = [hold EXCEPT ![p] = @ \o Following(p, n)]
    /\ UNCHANGED <<phase, buf_len, got, eof, shut, outcome>>

CopyReadDownloadFirst(p, n) ==
    /\ Copying /\ ~eof[p] /\ (p = "client" => shut["upstream"])
    /\ n \in 1..(CopyBuf - Len(hold[p])) /\ Takes(p, n)
    /\ hold' = [hold EXCEPT ![p] = @ \o Following(p, n)]
    /\ UNCHANGED <<phase, buf_len, got, eof, shut, outcome>>

CopyRead(p, n) ==
    /\ Copying /\ ~eof[p]
    /\ n \in 1..(CopyBuf - Len(hold[p])) /\ Takes(p, n)
    /\ hold' = [hold EXCEPT ![p] = @ \o Following(p, n)]
    /\ UNCHANGED <<phase, buf_len, got, eof, shut, outcome>>

CopyEof(p) ==
    /\ Copying /\ ~eof[p] /\ SawEof(p)
    /\ eof' = [eof EXCEPT ![p] = TRUE]
    /\ UNCHANGED <<read, phase, buf_len, hold, got, shut, outcome>>

CopyWrite(p, n) ==
    /\ Copying /\ Passes(p, n)
    /\ UNCHANGED <<read, phase, buf_len, eof, shut, outcome>>

\* Fault: the end is passed on before what is held.
CopyShutdownEarly(p) ==
    /\ Copying /\ eof[p] /\ ~shut[p]
    /\ shut' = [shut EXCEPT ![p] = TRUE]
    /\ UNCHANGED <<read, phase, buf_len, hold, got, eof, outcome>>

CopyShutdown(p) ==
    /\ Copying /\ eof[p] /\ hold[p] = <<>> /\ ~shut[p]
    /\ shut' = [shut EXCEPT ![p] = TRUE]
    /\ UNCHANGED <<read, phase, buf_len, hold, got, eof, outcome>>

\* Fault: the first direction that ends ends the relay.
CopiedOneWay ==
    /\ Copying /\ \E p \in Peers : shut[p]
    /\ phase' = "done" /\ outcome' = "ok"
    /\ UNCHANGED <<read, buf_len, hold, got, eof, shut>>

Copied ==
    /\ Copying /\ \A p \in Peers : shut[p]
    /\ phase' = "done" /\ outcome' = "ok"
    /\ UNCHANGED <<read, buf_len, hold, got, eof, shut>>

-----------------------------------------------------------------------------
Ends(how) ==
    /\ phase # "done" /\ phase' = "done" /\ outcome' = how
    /\ Configured /\ UNCHANGED peers
    /\ UNCHANGED <<read, buf_len, hold, got, eof, shut>>

\* A socket fails: `?`, in either direction.
Fails == Ends("error")

\* client_body_timeout, or the shutdown: the future is dropped.
TimesOut == timed /\ Ends("dropped")
Shutdown == Ends("dropped")

RelayHead ==
    \/ \E n \in 1..MaxBuf : ReadHead(n)
    \/ HeadEof
    \/ \E n \in 1..Len(hold["upstream"]) : WriteHead(n)
    \/ HeadWritten

Copy(p) ==
    \/ \E n \in 1..CopyBuf : CopyRead(p, n)
    \/ CopyEof(p)
    \/ \E n \in 1..CopyBuf : CopyWrite(p, n)
    \/ CopyShutdown(p)

Next ==
    \/ \E p \in Peers : Send(p) \/ Close(p) \/ Copy(p)
    \/ RelayHead \/ Copied
    \/ Fails \/ TimesOut \/ Shutdown

\* The runtime polls the relay, and a socket takes what is written to it or
\* fails.  The peers owe nothing.
Fairness ==
    /\ WF_vars(RelayHead) /\ WF_vars(Copied) /\ WF_vars(TimesOut)
    /\ \A p \in Peers : WF_vars(Copy(p))

Spec == Init /\ [][Next]_vars /\ Fairness

-----------------------------------------------------------------------------
TypeOK ==
    /\ stream \in [client : Uploads, upstream : Responses]
    /\ extra \in ExtraHeaders /\ timed \in BOOLEAN /\ polite \in BOOLEAN
    /\ phase \in Phases /\ outcome \in Outcomes
    /\ buf_len \in 1..MaxBuf
    /\ \A p \in Peers :
          /\ written[p] \in 0..Len(stream[p]) /\ read[p] \in 0..written[p]
          /\ hold[p] \in Seq(Item) /\ got[p] \in Seq(Item)
    /\ {closed, eof, shut} \subseteq [Peers -> BOOLEAN]

\* What the client may have of the response, given what the upstream has
\* written: nothing while the head may still become complete within the
\* buffer, then the rewritten head and all that follows; and the response as
\* it is if there is nothing to set or the head is too long or broken off.
Released ==
    LET s == SubSeq(stream["upstream"], 1, written["upstream"])
    IN  CASE ~Rewriting -> s
          [] Rewriting /\ HeadEnd(s) \in 1..MaxBuf -> Rewritten(s, extra)
          [] Rewriting /\ HeadEnd(s) \notin 1..MaxBuf ->
                 IF Len(s) >= MaxBuf \/ closed["upstream"] THEN s ELSE <<>>

Download == INSTANCE Pipe WITH
    given <- Released, over <- closed["upstream"],
    taken <- got["upstream"], ended <- shut["upstream"]

Upload == INSTANCE Pipe WITH
    given <- SubSeq(stream["client"], 1, written["client"]),
    over <- closed["client"], taken <- got["client"], ended <- shut["client"]

\* However the response is cut into reads, whatever the size of the buffer and
\* whenever the copying starts, the client gets the response in order and
\* without loss, its head carries the configured headers if it fits the
\* buffer, and the end is passed on behind all of it (listeners.rs:601-639).
DownloadIsAPipe == Download!PipeSpec

\* The upstream gets the client's bytes in order and without loss, those that
\* came while the head of the response was awaited included, and is told of
\* the end behind them (listeners.rs:637-639).
UploadIsAPipe == Upload!PipeSpec

\* A relay that returns without an error has passed on everything: the half
\* that closes first does not cut the other one short.  The exception is an
\* upstream that closes within the head it was awaited for (listeners.rs:
\* 606-609).
ReturnsWhenAllIsPassed ==
    outcome = "ok" =>
        /\ got["upstream"] = Released
        /\ \/ got["client"] = SubSeq(stream["client"], 1, written["client"])
           \/ Rewriting /\ ~shut["upstream"]

\* What the client sent stays undelivered only while the proxy waits for the
\* head of the response: never when no response header is configured, and
\* never once the head is there.  An upstream that reads the whole upload
\* before it answers waits for the proxy as long as the proxy waits for it
\* (listeners.rs:604-605 before 637).
UploadWaitsOnlyForTheHead ==
    \A n \in 1..2 :
        <>[](written["client"] >= n /\ Len(got["client"]) < n /\ phase # "done")
            => <>[](phase = "head")

\* What is released of the response arrives, although the client may have
\* closed its side or never sends another byte (listeners.rs:595-599,
\* 627-639).
DownloadArrives ==
    \A n \in 1..6 :
        Len(Released) >= n ~> (Len(got["upstream"]) >= n \/ phase = "done")
=============================================================================
