---------------------------- MODULE MCDeployment ----------------------------
(***************************************************************************)
(* Instances of Deployment for TLC: every combination of written, missing, *)
(* switched off and mistyped timers; a file for every rule of validation   *)
(* and of the certificate report; every ordered pair of some of them.      *)
(***************************************************************************)
EXTENDS Deployment

MCDurations == {"3s", "5s", "30s"}

Main(timers, bundle) ==
    [readers |-> Readers, toml |-> TRUE, bundle |-> bundle, timers |-> timers]

Absent == [t \in TimerKeys |-> "absent"]

MCDefaultMain ==
    Main([headers |-> "5s", body |-> "5s", full |-> "absent"], {})

MCMainFiles ==
    {{}, {[MCDefaultMain EXCEPT !.toml = FALSE]}}
        \cup {{[Main(timers, {}) EXCEPT !.readers = {"scety"}]} : timers \in
                 [TimerKeys -> {"absent", "-1", "5 minuts", "3s", "30s"}]}

-----------------------------------------------------------------------------
Good == [readers |-> Readers, loads |-> TRUE, days_left |-> 60,
         issuer |-> "root", sans |-> {<<"a", "x">>, <<"*", "y">>}]

\* A key, or additional authorities.
GoodPem == [readers |-> Readers, loads |-> TRUE]

\* A file with other readers.
For(readers, file) == [file EXCEPT !.readers = readers]

Nothing  == [port |-> FALSE, ports |-> FALSE, cert |-> {}, key |-> {},
             acme |-> FALSE, acme_email |-> FALSE, acme_domains |-> FALSE]
Upstream == [Nothing EXCEPT !.port = TRUE]
Manual(cert) == [Nothing EXCEPT !.cert = {cert}, !.key = {GoodPem}]
Acme     == [Nothing EXCEPT !.acme = TRUE, !.acme_email = TRUE,
                            !.acme_domains = TRUE]
Hybrid   == [Manual(Good) EXCEPT !.port = TRUE]

Plain == [readers |-> {"caller"}, toml |-> TRUE, host |-> {<<"a", "x">>},
          hosts |-> {}, listen_port |-> {443}, listens_port |-> {},
          upstream |-> {Upstream}, sections |-> <<>>, ssl |-> {}]

Tls(ssl)     == [Plain EXCEPT !.ssl = {ssl}]
On(host)     == [Tls(Manual(Good)) EXCEPT !.host = {host}]
ForAll(hosts) == [Tls(Manual(Good)) EXCEPT !.host = {}, !.hosts = {hosts}]
Multi(ports, sections) ==
    [Plain EXCEPT !.listen_port = {}, !.upstream = {},
                  !.listens_port = {ports}, !.sections = sections]

Bad == {[Good EXCEPT !.loads = FALSE], [Good EXCEPT !.days_left = -1],
        [Good EXCEPT !.days_left = 14], [Good EXCEPT !.issuer = "itself"],
        [Good EXCEPT !.issuer = "extra"], [Good EXCEPT !.issuer = "unknown"],
        [Good EXCEPT !.sans = {}],
        For({"caller"}, Good), For({"scety"}, Good)}

Expired == Tls(Manual([Good EXCEPT !.days_left = -1]))

\* Files that pair up: they share port 443, or one of them is skipped.
Pairing ==
    {Plain, Tls(Acme), Tls(Manual(Good)), Expired,
     [Tls(Manual(Good)) EXCEPT !.upstream = {}],
     Multi({80, 443}, <<"upstream", 80>> :> Upstream
                         @@ <<"upstream", 443>> :> Upstream)}

\* Files that cannot be read, at first, or parsed.
Skipped == {For({}, Expired), [Expired EXCEPT !.toml = FALSE]}

Files ==
    Pairing \cup Skipped \cup {Tls(Manual(cert)) : cert \in Bad}
    \cup {Tls([Acme EXCEPT !.acme_email = FALSE]),
          Tls([Manual(Good) EXCEPT !.key = {}]),
          Tls([Manual(Good) EXCEPT !.key = {[GoodPem EXCEPT !.loads = FALSE]}]),
          Tls([Manual(Good) EXCEPT !.key = {For({"caller"}, GoodPem)}]),
          On(<<"b", "y">>), On(<<"*", "y">>), On(<<"c", "x">>), On(<<"x">>),
          ForAll(<<<<"a", "x">>, <<"c", "x">>>>),
          ForAll(<<<<"c", "x">>, <<"a", "x">>>>), ForAll(<<>>),
          [Plain EXCEPT !.host = {}], [Plain EXCEPT !.hosts = {<<>>}],
          [Plain EXCEPT !.listen_port = {80}], [Plain EXCEPT !.listen_port = {}],
          [Plain EXCEPT !.listens_port = {{443}}],
          [Plain EXCEPT !.upstream = {[Upstream EXCEPT !.ports = TRUE]}],
          [Plain EXCEPT !.sections = <<"x-notes", 0>> :> Nothing],
          [Plain EXCEPT !.sections = <<"ssl", 443>> :> Manual(Good)],
          [Plain EXCEPT !.sections = <<"ssl", 443>> :> Hybrid],
          Multi({}, <<>>), Multi({80}, <<>>),
          Multi({80}, <<"upstream", 80>> :> Hybrid),
          Multi({80}, <<"upstream", 80>> :> Upstream
                         @@ <<"upstream", 81>> :> Upstream),
          Multi({80}, <<"upstream", 80>> :> Upstream
                         @@ <<"ssl", 80>> :> Manual(Good))}

MCDirectories ==
    {<<file>> : file \in Files} \cup {<<f, g>> : f \in Pairing, g \in Pairing}
        \cup {<<Tls(Manual(Good)), file>> : file \in Skipped}
        \cup {<<file, Tls(Manual(Good))>> : file \in Skipped}

\* With additional authorities.
MCBundles == {GoodPem, For({"caller"}, GoodPem), [GoodPem EXCEPT !.loads = FALSE]}

MCBundled ==
    {{Main(Absent, {bundle})} : bundle \in MCBundles}
        \X {<<Tls(Manual(cert))>> :
               cert \in {Good, [Good EXCEPT !.issuer = "extra"]}}

MCDisks ==
    (MCMainFiles \X {<<>>}) \cup ({{MCDefaultMain}} \X MCDirectories)
        \cup MCBundled
=============================================================================
