--------------------------- MODULE ClientConnection ---------------------------
(***************************************************************************)
(* The life of one client connection, from handle_client to its return     *)
(* (src/src/network/listeners.rs): reading the request head into a growing *)
(* buffer, checking and routing it, answering with an error page or        *)
(* connecting to the upstream, forwarding the head and relaying, all of it *)
(* racing the timers and the shutdown of the listener.                     *)
(*                                                                         *)
(* Each await point is a phase; the code between two of them is one step.  *)
(* The client, the upstream, the timers and the shutdown are free to act   *)
(* whenever the code lets them.                                            *)
(***************************************************************************)
EXTENDS Integers, Headers

CONSTANTS
    FirstBuf,      \* initial size of the head buffer (4096 in the program)
    HeaderLimits,  \* values of limit_buffers.client_header, an i32
    UsizeRange,    \* number of values of a usize
    Requests,      \* the requests a client may send, see Request
    GlobalUpstream, ServiceUpstream    \* the maps [headers.upstream] of
                                       \* scety.toml and of the service

ASSUME BufferAssumption ==
    /\ FirstBuf \in Nat \ {0}
    /\ UsizeRange \in Nat \ {0}
    /\ HeaderLimits \subseteq Int

VARIABLES
    req,         \* the request, chosen by the client
    timers,      \* the timeouts that are configured, fixed at startup
    max_buf,     \* the limit of the head buffer, fixed at startup
    phase,       \* the await point process_request is at
    buf_len,     \* buf.len()
    read_bytes,  \* bytes of the client in buf
    page,        \* the error page being written
    out,         \* what was written to the client, in order
    sent,        \* what is first handed to the upstream, empty before
    cancelled    \* the listener's cancellation token

vars == <<req, timers, max_buf, phase, buf_len, read_bytes, page, out, sent,
          cancelled>>

\* What the code distinguishes in a request: the length of its head (of the
\* part the parser needs to reject it, for a malformed one), the empty lines
\* before it, which the parser skips, its fields, the empty line behind them,
\* for which the parser takes a bare LF as well, and what the client sends
\* next, an item being as long as a unit of len.  The value of a Host field
\* says where it leads: too many labels ("long"), no service, a service
\* without an upstream port, or one with it.
Request == [len : Nat \ {0}, malformed : BOOLEAN,
            leading : Seq(EmptyLines),
            fields : Seq({line \in Item : line.name \notin NoField}),
            ending : EmptyLines, rest : Seq(Item)]

Hosts == {"long", "unknown", "portless", "routed"}

ASSUME RequestsAssumption == Requests \subseteq Request

ASSUME MapsAssumption ==
    IsHeaderMap(GlobalUpstream) /\ IsHeaderMap(ServiceUpstream)

\* headers: client_headers_timeout is Some, body: client_body_timeout is.
Timers == [headers : BOOLEAN, body : BOOLEAN]

Rejections == {400, 423, 431}         \* sent by read_request
Answers    == {404, 408, 502, 504}    \* sent by process_request_inner
Relayed    == 0                       \* bytes of the upstream, not a page

Phases == {"reading", "rejecting", "answering", "connecting", "forwarding",
           "relaying", "unavailable", "closed"}
Writing == {"rejecting", "answering", "unavailable"}

NoPage == [code |-> 0, begun |-> FALSE]

\* The code that runs next starts to send a page, or waits elsewhere.
Send(code, next) ==
    /\ phase' = next
    /\ page' = [code |-> code, begun |-> FALSE]

Goto(next) == phase' = next /\ page' = NoPage

\* `as usize`: a negative limit becomes a huge one.
AsUsize(n) == n % UsizeRange

IsWs == IsWebSocketUpgrade(req.fields)

\* The first n bytes of a request that has been parsed.
TextRead(n) ==
    req.leading \o <<RequestLine>> \o req.fields \o <<req.ending>>
        \o SubSeq(req.rest, 1, n - req.len)

-----------------------------------------------------------------------------
Init ==
    /\ req \in Requests
    /\ timers \in Timers
    /\ max_buf \in {AsUsize(n) : n \in HeaderLimits}
    /\ phase = "reading"
    /\ buf_len = Min({FirstBuf, max_buf})
    /\ read_bytes = 0
    /\ page = NoPage
    /\ out = <<>>
    /\ sent = <<>>
    /\ cancelled = FALSE

Fixed == UNCHANGED <<req, timers, max_buf>>
Kept  == Fixed /\ UNCHANGED <<buf_len, read_bytes, out, sent, cancelled>>

\* Fault: the buffer grows one read too late.
HeadPartialLate(received) ==
    /\ received < req.len
    /\ \/ received <= buf_len /\ Goto("reading") /\ UNCHANGED buf_len
       \/ /\ received > buf_len /\ buf_len < max_buf
          /\ buf_len' = Min({2 * buf_len, max_buf})
          /\ Goto("reading")

\* Fault: 431 as soon as the buffer cannot double.
HeadPartialStrict(received) ==
    /\ received < req.len
    /\ \/ received < buf_len /\ Goto("reading") /\ UNCHANGED buf_len
       \/ /\ received >= buf_len /\ 2 * buf_len <= max_buf
          /\ buf_len' = 2 * buf_len
          /\ Goto("reading")
       \/ /\ received >= buf_len /\ 2 * buf_len > max_buf
          /\ Send(431, "rejecting") /\ UNCHANGED buf_len

\* Fault: the buffer doubles past the limit.
HeadPartialUncapped(received) ==
    /\ received < req.len
    /\ \/ received < buf_len /\ Goto("reading") /\ UNCHANGED buf_len
       \/ /\ received >= buf_len /\ buf_len < max_buf
          /\ buf_len' = 2 * buf_len
          /\ Goto("reading")
       \/ /\ received >= buf_len /\ buf_len >= max_buf
          /\ Send(431, "rejecting") /\ UNCHANGED buf_len

\* The head is not complete yet: the buffer grows when it is full, and the
\* request is rejected when it may not grow any more.
HeadPartial(received) ==
    /\ received < req.len
    /\ \/ /\ received < buf_len
          /\ Goto("reading") /\ UNCHANGED buf_len
       \/ /\ received >= buf_len /\ buf_len < max_buf
          /\ buf_len' = Min({2 * buf_len, max_buf})
          /\ Goto("reading")
       \/ /\ received >= buf_len /\ buf_len >= max_buf
          /\ Send(431, "rejecting") /\ UNCHANGED buf_len

\* Fault: the labels are counted after the host has been routed.
HeadRoutedFirst(received) ==
    /\ received >= req.len /\ ~req.malformed
    /\ UNCHANGED buf_len
    /\ \/ AmbiguousFraming(req.fields) /\ Send(400, "rejecting")
       \/ /\ ~AmbiguousFraming(req.fields)
          /\ LET host == HostOf(req.fields) IN
             \/ host \in {"absent", "unknown"} /\ Send(404, "answering")
             \/ host = "portless" /\ Send(502, "answering")
             \/ host \in {"long", "routed"} /\ Goto("connecting")

\* The parser has accepted the head: the checks in the order of the code.
HeadComplete(received) ==
    /\ received >= req.len /\ ~req.malformed
    /\ UNCHANGED buf_len
    /\ \/ AmbiguousFraming(req.fields) /\ Send(400, "rejecting")
       \/ /\ ~AmbiguousFraming(req.fields)
          /\ LET host == HostOf(req.fields) IN
             \/ host = "long" /\ Send(423, "rejecting")
             \/ host \in {"absent", "unknown"} /\ Send(404, "answering")
             \/ host = "portless" /\ Send(502, "answering")
             \/ host = "routed" /\ Goto("connecting")

HeadMalformed(received) ==
    /\ received >= req.len /\ req.malformed
    /\ Send(404, "answering") /\ UNCHANGED buf_len

\* A read of read_request and the code up to the next await.
Read(n) ==
    /\ phase = "reading"
    /\ n \in 1..(buf_len - read_bytes)
    /\ read_bytes + n <= req.len + Len(req.rest)
    /\ read_bytes' = read_bytes + n
    /\ \/ HeadPartial(read_bytes + n)
       \/ HeadComplete(read_bytes + n)
       \/ HeadMalformed(read_bytes + n)
    /\ Fixed /\ UNCHANGED <<out, sent, cancelled>>

\* The client closes its side, or there is no room to read into.
EndOfStream ==
    /\ phase = "reading"
    /\ Send(404, "answering")
    /\ Kept

\* An error of the socket, wherever the code waits for it: `?` up to
\* handle_client, which drops it.
SocketError ==
    /\ phase \notin {"connecting", "closed"}
    /\ Goto("closed")
    /\ Kept

\* client_headers_timeout covers the whole of read_request, the pages it
\* sends included.
HeadersTimeout ==
    /\ timers.headers /\ phase \in {"reading", "rejecting"}
    /\ Send(408, "answering")
    /\ Kept

\* error_pages::send: write_all, then flush.
PageBegins ==
    /\ phase \in Writing /\ ~page.begun
    /\ page' = [page EXCEPT !.begun = TRUE]
    /\ out' = Append(out, [code |-> page.code, whole |-> FALSE])
    /\ Fixed /\ UNCHANGED <<phase, buf_len, read_bytes, sent, cancelled>>

PageWritten ==
    /\ phase \in Writing /\ page.begun /\ ~Last(out).whole
    /\ out' = [out EXCEPT ![Len(out)].whole = TRUE]
    /\ Fixed /\ UNCHANGED <<phase, page, buf_len, read_bytes, sent, cancelled>>

\* After a rejection read_request returns None, which process_request_inner
\* answers with 404; any other page is the last.
PageFlushed ==
    /\ phase \in Writing /\ page.begun /\ Last(out).whole
    /\ IF phase = "rejecting" THEN Send(404, "answering") ELSE Goto("closed")
    /\ Kept

\* Fault: the connect is left to the operating system's timeout.
ConnectUntimed == FALSE /\ UNCHANGED vars

\* The head the upstream gets, with what came behind it.  Its end is looked
\* for in all that was read; it is forwarded as it came if there is none.
ForwardedHead ==
    LET text == TextRead(read_bytes)
    IN  IF HeadEnd(text) = 0 THEN text
        ELSE Rewritten(text, UpstreamHeaders(GlobalUpstream, ServiceUpstream))

\* The connect to the upstream, under its timeout of 30 s, and the rewriting
\* of the head.
Connected ==
    /\ phase = "connecting" /\ Goto("forwarding")
    /\ sent' = ForwardedHead
    /\ Fixed /\ UNCHANGED <<buf_len, read_bytes, out, cancelled>>

ConnectRefused ==
    /\ phase = "connecting" /\ Send(502, "answering")
    /\ Kept

ConnectTimeout ==
    /\ phase = "connecting" /\ Send(504, "answering")
    /\ Kept

\* upstream_socket.write_all(&final_buf), which no timer covers.
Forwarded ==
    /\ phase = "forwarding" /\ Goto("relaying")
    /\ Kept

\* relay_upstream_response hands bytes of the upstream to the client (the
\* first ones stand for all), or returns.
RelayBytes ==
    /\ phase = "relaying" /\ out = <<>>
    /\ out' = <<[code |-> Relayed, whole |-> TRUE]>>
    /\ Fixed /\ UNCHANGED <<phase, page, buf_len, read_bytes, sent, cancelled>>

RelayEnds ==
    /\ phase = "relaying" /\ Goto("closed")
    /\ Kept

\* Fault: a timeout of the relay is answered like one of the head.
BodyTimeoutAnswered ==
    /\ timers.body /\ ~IsWs /\ phase = "relaying"
    /\ Send(408, "answering")
    /\ Kept

\* client_body_timeout covers the relay, except after a WebSocket upgrade.
BodyTimeout ==
    /\ timers.body /\ ~IsWs /\ phase = "relaying"
    /\ Goto("closed")
    /\ Kept

\* The listener is told to stop.
Cancel ==
    /\ ~cancelled /\ cancelled' = TRUE
    /\ Fixed /\ UNCHANGED <<phase, buf_len, read_bytes, page, out, sent>>

\* Fault: a relay is not interrupted.
UnavailableUnlessRelaying ==
    /\ cancelled /\ phase \notin {"relaying", "unavailable", "closed"}
    /\ Send(503, "unavailable")
    /\ Kept

\* handle_client's select! takes the cancelled branch: process_request is
\* dropped wherever it waits and a page is written to what is left.
Unavailable ==
    /\ cancelled /\ phase \notin {"unavailable", "closed"}
    /\ Send(503, "unavailable")
    /\ Kept

WritePage   == PageBegins \/ PageWritten \/ PageFlushed
ConnectEnds == Connected \/ ConnectRefused \/ ConnectTimeout

Next ==
    \/ \E n \in 1..buf_len : Read(n)
    \/ EndOfStream \/ SocketError \/ HeadersTimeout
    \/ WritePage
    \/ ConnectEnds \/ Forwarded
    \/ RelayBytes \/ RelayEnds \/ BodyTimeout
    \/ Cancel \/ Unavailable

\* The tokio timers fire and a ready cancellation is noticed: this much the
\* program itself sees to.  Nothing makes the client or the upstream send.
TimerFairness ==
    /\ WF_vars(HeadersTimeout) /\ WF_vars(ConnectTimeout)
    /\ WF_vars(BodyTimeout) /\ WF_vars(Unavailable)

\* A socket takes what is written to it, or fails: this excludes a peer that
\* keeps the connection but stops receiving.
WriteFairness == WF_vars(WritePage) /\ WF_vars(Forwarded)

Spec      == Init /\ [][Next]_vars
TimerSpec == Spec /\ TimerFairness

-----------------------------------------------------------------------------
TypeOK ==
    /\ req \in Requests /\ timers \in Timers /\ phase \in Phases
    /\ max_buf \in Nat /\ buf_len \in 0..max_buf /\ read_bytes \in 0..buf_len
    /\ sent \in Seq(Item)
    /\ page \in [code : Rejections \cup Answers \cup {0, 503}, begun : BOOLEAN]
    /\ out \in Seq([code : Rejections \cup Answers \cup {Relayed, 503},
                    whole : BOOLEAN])
    /\ cancelled \in BOOLEAN

\* The socket is never read into a full buffer, where a read of zero bytes
\* would be taken for the end of the stream and answered with 404, unless the
\* limit is zero: the buffer grows before the next read, up to a limit that
\* need not be a power of two (listeners.rs:506-508 with 568-576).
ReadHasRoom == phase = "reading" /\ max_buf > 0 => read_bytes < buf_len

\* 431 is only for heads that do not fit: a head of exactly max_buf bytes is
\* parsed before the full buffer is looked at (listeners.rs:522 and 568).
FittingHeadIsAccepted ==
    (page.code = 431 \/ \E i \in DOMAIN out : out[i].code = 431)
        => req.len > max_buf

\* Nothing of a request reaches an upstream unless its whole head fits the
\* buffer, was parsed, and names a host within the label limit that has an
\* upstream port, whatever fires in the meantime
\* (listeners.rs:522-566, 323-330).
OnlyCheckedRequestsAreForwarded ==
    (\/ phase \in {"connecting", "forwarding", "relaying"}
     \/ \E i \in DOMAIN out : out[i].code = Relayed) =>
        /\ read_bytes >= req.len /\ req.len <= max_buf
        /\ ~req.malformed /\ HostOf(req.fields) = "routed"

\* What was sent as an upstream reads it that looks for the request line: the
\* fields up to the next empty line, and what follows them.
AsRead(s) ==
    LET tail == SubSeq(s, FirstIn(s, {RequestLine}) + 1, Len(s))
        end  == FirstIn(tail, EmptyLines)
    IN  [fields |-> SubSeq(tail, 1, end - 1),
         body   |-> SubSeq(tail, end + 1, Len(tail))]

Framing == {"content-length", "transfer-encoding"}

\* Whichever of its framing fields an upstream looks at, the first, the last or
\* all of them, it finds the same length: no later step undoes what the
\* framing check established, whatever precedes and follows the head
\* (listeners.rs:434-462 with 357-370).  This is for requests with at most one
\* Transfer-Encoding: see AmbiguousIsRejected.
UpstreamReadsOneLength ==
    sent # <<>> /\ Len(Named(req.fields, "transfer-encoding")) <= 1 =>
        \A f, g \in {h \in ToSet(AsRead(sent).fields) : h.name \in Framing} :
            f = g /\ (f.name = "transfer-encoding" => f.value = "chunked")

\* README.md:28-30, SECURITY.md:30-33: requests with both Content-Length and
\* Transfer-Encoding, with different values of Content-Length, or with a
\* Transfer-Encoding other than exactly chunked are rejected.
AmbiguousIsRejected ==
    (\E f, g \in {h \in ToSet(req.fields) : h.name \in Framing} :
        f # g \/ (f.name = "transfer-encoding" /\ f.value # "chunked"))
        => sent = <<>>

\* What the upstream must read under a configured name.
Configured(k) ==
    CASE k = ForwardedFor -> "peer"
      [] k # ForwardedFor /\ k \in DOMAIN ServiceUpstream -> ServiceUpstream[k]
      [] OTHER -> GlobalUpstream[k]

\* The first CR LF CR LF of the request is where its head ends.
EndsItsHead == EndOfHead \notin ToSet(req.leading) /\ req.ending = EndOfHead

\* In a head that ends with the first CR LF CR LF, the fields under a
\* configured name are the configured ones and no others, the service's before
\* the global ones and the client's address before both; the other fields are
\* the client's, in its order, and so is what was read behind the head
\* (listeners.rs:349-367, default_scety_config.toml).
UpstreamReadsOurHeaders ==
    sent # <<>> /\ EndsItsHead =>
        LET keys == {ForwardedFor} \cup DOMAIN ServiceUpstream
                                  \cup DOMAIN GlobalUpstream
            head == AsRead(sent).fields
            lines == ToSet(head) \cup ToSet(req.fields)
            ours == {f \in lines : f.name \in {k.name : k \in keys}}
        IN  /\ ToSet(head) \cap ours =
                   {Field(k.name, Configured(k)) : k \in keys}
            /\ Keep(head, lines \ ours) = Keep(req.fields, lines \ ours)
            /\ AsRead(sent).body = SubSeq(req.rest, 1, read_bytes - req.len)

\* What may follow a piece of output on the connection.
MayFollow(x) ==
    CASE x.code \in Rejections -> IF x.whole THEN {404, 408, 503}
                                             ELSE {408, 503}
      [] x.code \in Answers \cup {Relayed} -> {503}
      [] OTHER -> {}

\* The pages of one connection never mix in any other way than these,
\* whatever races the timers, the shutdown and the writes run: one answer at
\* most besides a rejection, nothing of the upstream next to an error page,
\* and only the shutdown page behind an answer (listeners.rs:240-248,
\* 284-342, 526-572).
AnswersDoNotMix ==
    \A i \in 2..Len(out) : out[i].code \in MayFollow(out[i - 1])

\* README.md:28-30, SECURITY.md:30-33: ambiguous framing is rejected with
\* 400.  So the same request is not answered with 404 as well.
RejectedWith400 ==
    \A i \in 2..Len(out) : ~(out[i - 1].code = 400 /\ out[i].code = 404)

\* With its timers set, a connection that is not a WebSocket waits forever
\* for nobody to send: if it never ends, a peer does not take what is written
\* to it, the only waits outside every timer (listeners.rs:284-297, 332,
\* 395-405 against :311-340 and :373).
WaitsOnlyForWrites ==
    (timers.headers /\ timers.body /\ ~IsWs) =>
        <>[](phase \in {"answering", "forwarding", "unavailable", "closed"})

\* After the shutdown of the listener every connection whose socket takes what
\* is written ends, with or without timers, WebSockets included
\* (listeners.rs:240-244).
ShutdownEndsIt == WriteFairness => (cancelled ~> phase = "closed")
=============================================================================
