------------------------------ MODULE Services ------------------------------
(***************************************************************************)
(* What the program makes of the service files: loading and validation     *)
(* (src/src/config/get_services_config.rs), the ports and their TLS        *)
(* (src/src/network/global_router.rs) and the report on certificates       *)
(* (src/src/network/cert_check.rs).  Pure operators, no state.             *)
(*                                                                         *)
(* An optional value is a set of at most one element.  A directory is the  *)
(* sequence of its files in the order in which they are found.  A host     *)
(* name is a sequence of labels.                                           *)
(*                                                                         *)
(* Every file has its readers: a command runs as the user who types it,    *)
(* the service as scety.                                                   *)
(***************************************************************************)
EXTENDS Integers, SequencesExt, Selection

ExpiryWarningDays == 14

Readers == {"caller", "scety"}

\* A file with a key, or with the additional authorities: whether its text is
\* one.
Pem == [readers : SUBSET Readers, loads : BOOLEAN]

\* A file with a certificate: whether its text is one, the days until it
\* expires, negative if it has, who issued it, and the names it is for.
Certificate == [readers : SUBSET Readers, loads : BOOLEAN, days_left : Int,
                issuer : {"root", "extra", "itself", "unknown"},
                sans : SUBSET Seq(STRING)]

MayRead(reader, file) == reader \in file.readers
Reads(reader, file)   == MayRead(reader, file) /\ file.loads

\* A section.  As an [upstream] only the first two keys are looked at, as an
\* [ssl] the others; keys that are not known are ignored.
Section == [port : BOOLEAN, ports : BOOLEAN, cert : SUBSET Certificate,
            key : SUBSET Pem, acme : BOOLEAN, acme_email : BOOLEAN,
            acme_domains : BOOLEAN]

\* The map a flattened field receives: all sections that no other field
\* takes, whatever they are called.  A key is <<"upstream", port>> for
\* [upstream_<port>], <<"ssl", port>>, or any other name without a port.
Flattened(file, kind) == file.sections

Upstreams(file) == Flattened(file, "upstream")
SslPorts(file)  == Flattened(file, "ssl")

CheckUpstream(section) == section.port # section.ports

CheckSsl(section) ==
    IF section.acme THEN section.acme_email /\ section.acme_domains
                    ELSE section.cert # {} /\ section.key # {}

\* The ports in the names of the sections of a kind.
NamedPorts(sections, kind) ==
    {k[2] : k \in {k \in DOMAIN sections : k[1] = kind}}

ValidateConfig(file) ==
    /\ (file.host = {}) # (file.hosts = {})
    /\ (file.listen_port = {}) # (file.listens_port = {})
    /\ \A ports \in file.listens_port :
          /\ NamedPorts(Upstreams(file), "upstream") = ports
          /\ NamedPorts(SslPorts(file), "ssl") \subseteq ports
    /\ file.listens_port = {} => file.upstream # {}
    /\ \A section \in file.upstream \cup Range(Upstreams(file)) :
          CheckUpstream(section)
    /\ \A section \in file.ssl \cup Range(SslPorts(file)) : CheckSsl(section)

\* A file that cannot be read, parsed or validated is skipped.
GetAllConfigs(directory, reader, validate) ==
    LET loads == {file \in Range(directory) :
                     /\ MayRead(reader, file) /\ file.toml
                     /\ validate => ValidateConfig(file)}
    IN  Keep(directory, loads)

-----------------------------------------------------------------------------
\* Ports and their TLS.
UniquePorts(configs) == UNION {config.listen_port : config \in Range(configs)}

OnPort(configs, port) ==
    Keep(configs, {config \in Range(configs) : port \in config.listen_port})

SslOf(config, port) ==
    IF config.ssl # {} \/ <<"ssl", port>> \notin DOMAIN SslPorts(config)
    THEN config.ssl
    ELSE {SslPorts(config)[<<"ssl", port>>]}

\* Fault: the first service of the port decides.
ResolveSslOfFirst(configs, port) == SslOf(configs[1], port)

\* The first service of the port that declares TLS provides it for all.
ResolveSslMode(configs, port) ==
    LET declares == SelectInSeq(configs, LAMBDA config : SslOf(config, port) # {})
    IN  IF declares = 0 THEN {} ELSE SslOf(configs[declares], port)

\* The listeners of start_listen, by port.
StartListen(configs) ==
    [port \in UniquePorts(configs) |-> ResolveSslMode(OnPort(configs, port), port)]

\* load_manual_tls
LoadsTls(ssl) ==
    \/ ssl.acme
    \/ \E key \in ssl.key, cert \in ssl.cert :
          Reads("scety", key) /\ Reads("scety", cert)

-----------------------------------------------------------------------------
\* Certificates.  A bundle of additional authorities is optional.
ExpectedHosts(config) ==
    CASE config.host # {} -> <<CHOOSE host \in config.host : TRUE>>
      [] config.host = {} /\ config.hosts # {} ->
             CHOOSE hosts \in config.hosts : TRUE
      [] OTHER -> <<>>

DomainMatches(san, host) ==
    \/ san = host
    \/ san[1] = "*" /\ Len(host) > 1 /\ Tail(host) = Tail(san)

\* The chain is verified for the first host, which must be a name: a wildcard
\* is none.
CheckTrustChain(cert, hosts, bundle, reader) ==
    /\ \A file \in bundle : Reads(reader, file)
    /\ hosts # <<>> /\ \A i \in DOMAIN hosts[1] : hosts[1][i] # "*"
    /\ cert.issuer \in {"root"} \cup (IF bundle # {} THEN {"extra"} ELSE {})
    /\ cert.days_left >= 0
    /\ \E san \in cert.sans : DomainMatches(san, hosts[1])

CheckCertificate(cert, hosts, bundle, reader) ==
    /\ Reads(reader, cert)
    /\ cert.days_left > ExpiryWarningDays
    /\ cert.issuer # "itself"
    /\ \E host \in Range(hosts), san \in cert.sans : DomainMatches(san, host)
    /\ CheckTrustChain(cert, hosts, bundle, reader)

SslSections(config) == config.ssl \cup Range(SslPorts(config))

CheckService(config, bundle, reader) ==
    \A ssl \in SslSections(config) : \A cert \in ssl.cert :
        ssl.acme \/ CheckCertificate(cert, ExpectedHosts(config), bundle, reader)

\* Fault: the last service decides.
CheckLastConfigured(configs, bundle, reader) ==
    configs # <<>> => CheckService(Last(configs), bundle, reader)

CheckAllConfiguredCerts(configs, bundle, reader) ==
    \A config \in Range(configs) : CheckService(config, bundle, reader)

-----------------------------------------------------------------------------
\* The commands `check` and `check-certs`: TRUE is Ok.
Check(directory) == GetAllConfigs(directory, "caller", TRUE) # <<>>

CheckCerts(main, directory) ==
    LET configs == GetAllConfigs(directory, "caller", FALSE) IN
    /\ configs # <<>>
    /\ \E settings \in main :
          /\ MayRead("caller", settings) /\ settings.toml
          /\ CheckAllConfiguredCerts(configs, settings.bundle, "caller")
=============================================================================
