------------------------- MODULE MCClientConnection -------------------------
(***************************************************************************)
(* Instances of ClientConnection for TLC.  With a first buffer of 2 and a  *)
(* limit of 5 the buffer doubles once and is then cut to the limit; the    *)
(* heads fit the first buffer, need one or two growths, fit exactly, and   *)
(* do not fit.  The limits 0 and -1 are those the type of the setting lets *)
(* through.                                                                *)
(***************************************************************************)
EXTENDS ClientConnection

MCLimits == {0, 5, -1}

Host(h) == Field("host", h)

ToRouted == {<<>>,
             <<Field("connection", "upgrade"), Field("upgrade", "websocket")>>,
             <<Field("content-length", "1"), Field("transfer-encoding", "chunked")>>}

\* A request with nothing before its head or behind it.
Plain(len, malformed, fields) ==
    [len |-> len, malformed |-> malformed, leading |-> <<>>, fields |-> fields,
     ending |-> EndOfHead, rest |-> <<>>]

\* Every length of head, with every kind of host.
ByShape ==
    {Plain(len, FALSE, fields) : len \in {1, 3, 5, 6},
     fields \in {<<>>} \cup {<<Host(h)>> : h \in Hosts}
                      \cup {<<Host("routed")>> \o s : s \in ToRouted}}
    \cup {Plain(len, TRUE, <<>>) : len \in {1, 3, 5, 6}}

\* Every combination of two fields the code looks at, and of three fields of
\* the framing, behind the host.
Lengths == {Field("content-length", v) : v \in {"1", "2"}}
               \cup {Field("transfer-encoding", v) : v \in {"chunked", "other"}}

Other == {Field("x-forwarded-for", "client"), Field("x-env", "client"),
          Field("connection", "upgrade"), Field("upgrade", "websocket"),
          Host("unknown")}

ByFields ==
    {Plain(1, FALSE, <<Host("routed")>> \o s) :
        s \in TupleOf(Lengths \cup Other, 2) \cup TupleOf(Lengths, 3)}

\* Every way to begin and to end a head, and bodies with and without something
\* that looks like the end of a head, read with the head or not.
Body == Field("(body)", "data")

ByEnds ==
    [len : {1, 3}, malformed : {FALSE},
     leading : {<<>>, <<EmptyLine>>, <<EmptyLine, EndOfHead>>},
     fields : {<<Host("routed"), f, Field("transfer-encoding", "chunked")>> : f \in Other},
     ending : EmptyLines,
     rest : {<<>>, <<Body>>,
             <<Body, Field("x-forwarded-for", "client"), EndOfHead, Body>>}]

MCRequests == ByShape \cup ByFields \cup ByEnds

\* The names differ, or are spelled alike, or differ in the case only.
MCGlobal == (ForwardedFor :> "global") @@ (Key("x-env", "X-Env") :> "global")
                @@ (Key("x-zone", "X-Zone") :> "global")
MCService == (ForwardedFor :> "service") @@ (Key("x-env", "X-Env") :> "service")
                @@ (Key("x-env", "x-env") :> "service too")
=============================================================================
