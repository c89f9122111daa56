------------------------------- MODULE Headers -------------------------------
(***************************************************************************)
(* Header fields as src/src/network/listeners.rs treats them: the check of *)
(* a request's framing, the detection of a WebSocket upgrade, and the      *)
(* replacement of header lines by configured ones, which is used on the    *)
(* head of the request and on the head of the response.                    *)
(*                                                                         *)
(* The name of a field is its name in lower case.  A value stands for all  *)
(* values the code treats alike: "chunked" for what is chunked after       *)
(* trimming and folding, "upgrade" for a list with that token.             *)
(*                                                                         *)
(* What a peer sends is a sequence of items: the lines of its head and,    *)
(* behind them, pieces of a body.  The proxy looks for the end of a head   *)
(* in the bytes, not in the lines the parser found.                        *)
(***************************************************************************)
EXTENDS Selection

Field(name, value) == [name |-> name, value |-> value]

Item == [name : STRING, value : STRING]

\* An empty line whose CR LF follows that of another line, and any other one.
EndOfHead == Field("", "CR LF")
EmptyLine == Field("", "")
EmptyLines == {EndOfHead, EmptyLine}

Named(fields, name) == Keep(fields, {f \in ToSet(fields) : f.name = name})

\* Fault: a second Content-Length is compared with nothing.
AmbiguousUnlessRepeated(fields) ==
    LET lengths == Named(fields, "content-length")
        codings == Named(fields, "transfer-encoding")
    IN  \/ lengths # <<>> /\ codings # <<>>
        \/ codings # <<>> /\ Last(codings).value # "chunked"

\* validate_framing_headers returns an error.  Of several Transfer-Encoding
\* fields the code keeps the last.
AmbiguousFraming(fields) ==
    LET lengths == Named(fields, "content-length")
        codings == Named(fields, "transfer-encoding")
    IN  \/ \E i, j \in DOMAIN lengths : lengths[i].value # lengths[j].value
        \/ lengths # <<>> /\ codings # <<>>
        \/ codings # <<>> /\ Last(codings).value # "chunked"

IsWebSocketUpgrade(fields) ==
    /\ Field("connection", "upgrade") \in ToSet(fields)
    /\ Field("upgrade", "websocket") \in ToSet(fields)

\* The first Host field decides, if there is one.
HostOf(fields) ==
    LET hosts == Named(fields, "host")
    IN  IF hosts = <<>> THEN "absent" ELSE Head(hosts).value

-----------------------------------------------------------------------------
\* The key of a HashMap of configured headers: keys are equal when they are
\* spelled alike, header names already when they agree in lower case.
Key(name, spelled) == [name |-> name, spelled |-> spelled]

\* The first line of a request, which like an empty line is not a field.
RequestLine == Field("(request)", "")
NoField     == {"", "(request)"}

\* A parsed [headers] table.
IsHeaderMap(map) ==
    /\ IsFiniteSet(DOMAIN map) /\ map \in [DOMAIN map -> STRING]
    /\ DOMAIN map \subseteq [name : STRING \ NoField, spelled : STRING]

ForwardedFor == Key("x-forwarded-for", "X-Forwarded-For")

StripHeadersByName(lines, names) ==
    Keep(lines, {l \in ToSet(lines) : l.name \notin names})

\* One line for each entry, in the order of the keys: any fixed order does.
SortedHeaders(map) ==
    LET keys == SetToSeq(DOMAIN map)
    IN  [i \in DOMAIN keys |-> Field(keys[i].name, map[keys[i]])]

\* The lines of a head with the configured ones in the place of theirs.
WithHeaders(lines, map) ==
    StripHeadersByName(lines, {k.name : k \in DOMAIN map}) \o SortedHeaders(map)

\* Where the first head in s ends, 0 if none does.
HeadEnd(s) == FirstIn(s, {EndOfHead})

\* What precedes the first such place with the configured lines in it, and
\* the rest as it is.
Rewritten(s, map) ==
    LET end == HeadEnd(s)
    IN  WithHeaders(SubSeq(s, 1, end - 1), map) \o SubSeq(s, end, Len(s))

\* `map.extend(by)`.
Extended(map, by) ==
    [k \in DOMAIN map \cup DOMAIN by |-> IF k \in DOMAIN by THEN by[k] ELSE map[k]]

\* The provers do not know of a text that it is one.
ASSUME LiteralsAssumption ==
    {"x-forwarded-for", "X-Forwarded-For", "peer", "(request)", "", "CR LF"}
        \subseteq STRING

PeerAddress == [k \in {ForwardedFor} |-> "peer"]

\* Fault: the address of the client goes in first.
UpstreamHeadersPeerFirst(global, service) ==
    Extended(Extended(global, PeerAddress), service)

\* What a request to the upstream gets: the headers of scety.toml, overridden
\* by those of the service, overridden by the address of the client.
UpstreamHeaders(global, service) ==
    Extended(Extended(global, service), PeerAddress)

\* What a response to the client gets.
ResponseHeaders(global, service) == Extended(global, service)
=============================================================================
