# scety in TLA+

scety is a reverse proxy: it listens on the ports its service files name, reads
the head of each client's request, picks a service by the `Host` header,
connects to the service's local port and relays. This directory holds
specifications of that program, the TLC configurations that check them on
small instances, and proofs that TLAPS checks for every value of the constants.

Source paths below are relative to the repository (`src/network/listeners.rs`
is the file under the crate's own `src/`). Everything is modelled from the
code; the README and SECURITY.md of the repository are only quoted where the
code is compared with them.

## 1. The system

| Component | Source | State it keeps | Operations |
|---|---|---|---|
| Process | `cli/commands/run.rs`, `network/global_router.rs` | the listener tasks, the cancellation token | start listeners, Ctrl-C, a listener that dies, join |
| Listeners | `network/listeners.rs:26-226` | a socket per port, a task per connection | bind, load TLS, accept, refuse, stop |
| Connection limiter | `network/ip_limit.rs` | a global table address -> count, RAII guards | `try_acquire`, drop of a guard |
| Client connection | `network/listeners.rs:228-584` | head buffer, bytes read | read, check, route, connect, forward, time out, answer |
| Response relay | `network/listeners.rs:586-640` | response head buffer | read the upstream's head, rewrite it, copy both ways |
| Error pages | `http/*.rs`, `core/response.rs` | none | write a page, flush |
| Host matching | `core/host_router.rs` | ten structures of patterns | `add_pattern`, `matches` |
| Lookup cache | `core/search_router.rs` | an LRU cache of 128 results | `new`, `find` |
| Main configuration | `config/get_scety_config.rs` | limits, timeouts, global headers | parse, defaults, precedence |
| Service configuration | `config/get_services_config.rs` | one record per service file | load, validate |
| TLS | `network/tls.rs`, `network/cert_check.rs` | none | load certificates, configure ACME, report |
| Fallback server | `network/fallback_server.rs` | none | a constant page |
| Command line | `cli/*`, `main.rs` | none | install, stop, reload, check |

How they interact. `run` loads the configurations and starts one task per port
(`start_listen`). Each listener builds a `SearchRouter` for its port, binds, and
accepts in a loop that races the cancellation token. A plain or manual TLS
listener takes a guard of the limiter for each connection and hands it to the
task it spawns; the task drops the guard when it ends. The task runs
`handle_client`, which races `process_request` against the token. All ports
share the limiter's table; all tasks of a port share its lookup cache. `run`
itself waits for Ctrl-C or for the first listener that returns.

What is hard about it:

- concurrency: accept loops and client tasks share the limiter and the caches;
  `select!` picks any ready branch, so a listener still accepts after the
  cancellation, and a request may be dropped at any await;
- timers race the writes they cover: the header timer also covers the error
  pages `read_request` sends;
- failure of one part: a handshake, a port, a certificate;
- interruption: a command of the operator stops between two of its steps, or the
  machine is rebooted, and the command is typed again;
- boundaries: the last slot, the buffer that is exactly full, the host with as
  many labels as a pattern has known ones;
- silent peers: which waits have a timer, and which have none.

What makes each component correct:

- limiter: counters are the guards alive, the limit holds under every
  interleaving, the table does not grow;
- matching: a host is routed to a pattern that covers it, if there is one, and
  the order of the files decides only among patterns of one class, and only of a
  class whose list is searched in that order;
- cache: bounded, and never different from the matcher;
- connection: only checked requests are forwarded, the pages on a connection do
  not mix, it ends although its peers are silent;
- relay: each direction is a pipe; neither closing first nor collecting the head
  of a response loses, doubles or reorders anything;
- settings: what is written is in force, a typing mistake takes nothing away,
  the order of the files does not matter;
- listeners: no slot is lost, ports share one limit, the process ends when it is
  told to and does not go on with a port missing;
- installation: only what is complete is started, whatever was interrupted, and
  what is stopped or uninstalled does not run.

`PROJECT.json` lists every hazard at its line with the properties that watch it.

## 2. The modules

```
HostRouter <- HostRouterProofs
HostRouter <- SearchRouter <- SearchRouterProofs
IpLimit    <- IpLimitProofs <- ListenersProofs   (INSTANCE)
IpLimit    <- Listeners     <- ListenersProofs   (INSTANCE: its limiter)
Selection  <- Headers, Services, Induction
Headers    <- ClientConnection <- ClientConnectionProofs
Headers    <- Relay <- RelayProofs
Pipe       <- Relay                    (INSTANCE: the abstract specification)
Settings, Services <- Deployment <- DeploymentProofs
Induction  <- HostRouterProofs, ClientConnectionProofs, RelayProofs,
              DeploymentProofs         (lemmas about data)
MC*        instances for TLC
```

The modules divide the run of the program among them. Deployment goes from the
operator's command to the moment when the listeners exist; Listeners from there
to the end of the process, with a connection as a phase; ClientConnection is one
such connection, with the relay as a phase; Relay is that phase.

Some definitions are commented "Fault: ...". They are variants of a definition
next to them with a plausible bug in it; no specification uses them.
Putting one in the place of the right definition makes TLC refute the property
it was written for, which shows that the property can fail.

**IpLimit** (`ip_limit.rs`). `connections` is the table, `live` the guards that
exist. Each function holds the mutex throughout, so each call is one step:
`Acquire`, `Refuse` (which leaves behind the entry that `or_insert` made) and
`Drop` (which removes an entry at zero). A negative limit hands out guards that
hold no slot.

**HostRouter** (`host_router.rs`). A pattern or host is a sequence of labels;
stars inside a label (`p*`) only matter for the class a pattern falls in.
`ClassOf` is the chain of ifs of `add_pattern`, `router` a record with the
fields of the Rust struct, `Matches` the chain of lookups of `matches`.
`Covers` is the reference: the host can be cut into one piece per label. `Precedes`
is the order of precedence that the code means, of two patterns that cover one
host: by class, by the longer known part of edge `**` patterns, by the first label
in which two patterns of the trie differ. Four classes are lists that are searched
in the order of the files (`ByFileOrder`), and among their patterns that order does
decide, also against a narrower one: `NarrowerPatternWins` leaves these pairs out,
`FileOrderDecidesLast` says that it decides nowhere else. Maps
are functions; the maps of `**` patterns per length are one function keyed by
the known labels; a trie is the function from its paths to their values, and
its lookup walks prefixes of paths.

**SearchRouter** (`search_router.rs`) extends it with the LRU cache and tasks.
`find` holds the mutex from probe to insertion and is one step. The LRU order
is the `lru` crate's, modelled from how it is used (`get` promotes, `put` of an
absent key evicts the last). **MCRouter** instantiates both at once.

**Headers** (`listeners.rs:344-503`, `:586-640`). Header fields with their names
in lower case and values reduced to what the code compares: the framing check,
the WebSocket test, the host, and the replacement of lines by configured ones.
What a peer sends is a sequence of items: the lines of its head, the empty line at
its end, pieces of a body. `EndOfHead` is an empty line that makes CR LF CR LF with
the line before it, `EmptyLine` any other one, since the program looks for the end
of a head in two ways: the parser skips empty lines before the request and takes a
bare LF, the rewriting (`HeadEnd`, `Rewritten`) takes the first CR LF CR LF anywhere
in what was read.
A configured map is keyed by a name *and* its spelling, because the program's
`HashMap`s tell `X-Env` from `x-env` while the removal of header lines does not.

**ClientConnection** (`listeners.rs:228-584`, `error_pages.rs`). `phase` is the
await point the task is at; the code between two awaits is one action. `req`
is the request: the length of its head, whether it parses, the empty lines before
it, its fields, the line it ends with, and what follows it. `TextRead` is as much of
that as has been read, and `ForwardedHead` what the program makes of it. `AsRead` is
how an upstream reads the result: fields up to the next empty line. A page
is begun, written whole, and flushed in separate steps, because the header timer
and the shutdown may fall between them; `out` is what the client got, in order,
`sent` the head the upstream got. `Unavailable` is the cancelled branch of
`handle_client`'s `select!`, possible at every await.

**Relay** (`listeners.rs:586-640`). `stream` is what each peer is going to send,
`written` how much of it has left the peer, `read` how much the proxy has taken,
`hold` what it holds, `got` what it has passed on, each by the peer the bytes come
from. While a head is collected (`phase = "head"`) only the upstream is read;
the copying of `tokio::io::copy_bidirectional` has a buffer per direction, and
passes an end on when that buffer is empty. `polite` upstreams answer only when
they have the whole upload. **Pipe** is what one direction promises; the two
refinements map what may be released of the response, or was written of the
upload, to the pipe's input.

**Selection** is the `filter` and the `position` of Rust's iterators, for Headers and
Services: the elements of a sequence that are in a set, in their order, and the
place of the first one. `Keep` stands for the library's `SelectSeq`, which the
provers cannot unfold.

**Listeners** (`run.rs`, `global_router.rs`, `listeners.rs:26-226`). `port` says
what became of each listener, `open` holds the connections with the phase their
task is in, `process` where `run` is. The limiter is an instance of IpLimit
whose guards are named after connections. An ACME port performs handshakes
inside its stream, so they end with its listener; a manual TLS port spawns a
task per handshake, which survives it. `ended` is a closed socket whose guard
has not been dropped yet: the client can be back before its slot is.

**Settings** (`get_scety_config.rs`) is `parse_optional_timeout` and the precedence
of the three timers. **Services** is `validate_config` with its two flattened
maps (`get_services_config.rs`), the ports and `resolve_ssl_mode`
(`global_router.rs`), what makes a certificate load, and every test of the
certificate report (`cert_check.rs`), over files and certificates reduced to what
the rules look at. Every file has its `readers`, the user who types a command and
the user `scety` the service runs as, so that `check-certs` and the start may
disagree about a file. Neither module has state.

**Deployment** (`main.rs`, `cli/commands/*`) uses both. A command is a sequence of
steps (`command`), and `GivesUp` may end it after any of them: an error, nothing to
do, or Ctrl-C. `fs::write` is two steps, since a file exists before it has its
content. systemd is external: `known` is its memory of the unit, `enabled` the
link, `systemd` the state of the unit, with `waiting` for the time between a
failure and the restart. `process` and `config` are the start of `run()`. `Disks`
are the contents of the configuration directory to begin with; `install` opens the
files to the group of the service and may take them from the caller
(`Permitted`), and the operator may replace a file by one the service cannot read
(`Withheld`).

## 3. The runs

| Run | Instance | What it shows |
|---|---|---|
| `ip_limit` | 3 addresses, 5 guards, limit 2 | the limiter's invariants; three guards compete for two slots while others come and go |
| `router` | 92 patterns of up to 4 labels, pairs in both orders, 19 hosts of up to 4 labels over two names; behind three of these routers 4 hosts, cache of 2, 2 tasks | soundness, completeness, precedence, what the order of the files decides; cache bounded and coherent, answers right |
| `client_connection` | buffer 2 growing to 5, heads of 1, 3, 5 and 6 bytes, field lists for every outcome of the framing check and of the rewriting, every way to begin and end a head, bodies with and without a CR LF CR LF, all timer settings | the connection's safety and liveness, what the upstream reads |
| `listeners` | one port of each mode, 3 connections, 2 addresses, limit 1 | slots, limit, shutdown, startup failure |
| `relay` | head buffer 1, 2, 3; copy buffer 1; uploads of 0 and 2 pieces; 5 responses | both directions are pipes, nothing is cut, which waits can last |
| `deployment` | 125 combinations of timers; a file for each rule of validation and of the report, for each reader; all ordered pairs of 6 files; certificates with additional authorities | what starts is complete, what is stopped stays so, settings and TLS in force, coverage of `check-certs` |

Bounds, and why they are enough:

- `MaxPatterns = 2`. A lookup takes the first class that answers, and within a
  class the first, longest or most literal entry: which of two entries wins is
  decided pairwise. All classes meet all classes, in both orders.
- Two label names tell apart every equality the matcher tests; hosts one label
  longer than the short patterns exercise `**` over 0, 1, 2 and 3 labels. All
  patterns and hosts of up to three labels are there, of four labels a few of each
  class.
- `FirstBuf = 2`, `MaxBuf = 5`: the buffer doubles once and is then capped at a
  limit that is not a power of two; heads fit at once, after one growth, exactly,
  and not at all. `n` bytes arrive in every partition.
- Limit 1 with three connections: one in, one refused, one that comes after.
  Two addresses show that counters do not interfere.
- A cache of 2 with 4 hosts evicts, re-resolves and caches failures. The cache never
  looks at the routers it sits on, so the lookups go on behind three of them only
  (`FewAreShared`): one route, two routes, and a host that is not routed.
- In the relay, heads end at once, after one growth, exactly at the limit of 3,
  beyond it and not at all, with a body in the same read or behind; every
  partition of the bytes occurs. Two pieces of upload are more than the copy
  buffer holds. `DownloadArrives` looks at up to 6 items, as many as the longest
  rewritten response has.
- A port takes its TLS from one of its files and a file is valid by itself, so
  pairs show every interference between files; the pairs are in both orders.
- One operator types one command at a time. Each command may be interrupted and
  repeated without bound.

Deadlock checking is off where the system does stop: a configuration that is
complete, a connection that is closed, a relay that is done, a process that has
exited.

Fairness. In ClientConnection `TimerFairness` is what the program sees to:
tokio timers fire, and a ready cancellation is picked by `select!` sooner or
later. Nothing makes a client or an upstream send. `ShutdownEndsIt` moreover
assumes, as a premise of the property, that a socket takes what is written to it
or fails (`WriteFairness`); `WaitsOnlyForWrites` shows without that premise that
writes are the only waits that can last. In Relay the runtime polls the task, a
socket takes what is written to it or fails, and the timer fires if there is one;
the peers owe nothing, so that `UploadWaitsOnlyForTheHead` is about the
proxy's waits only. In Listeners the runtime polls its tasks: a listener starts or
fails, notices the cancellation, and `run` notices a listener's end. Handshakes
and requests need never end. Deployment has no liveness property: nobody needs
to type a command.

`UploadWaitsOnlyForTheHead` is the exact form of a wait that can last for ever:
with response headers configured, nothing of the request's body goes to the
upstream before the head of the response is complete, and an upstream that reads
the body first waits as long as the proxy does. With a body timer it ends there.

### Where code and documents disagree

Six runs have a property that restates a document, and TLC refutes it; the
findings in `PROJECT.json` quote the lines.

- `router_repeated`: `a.**.b.**` and `a.**.**` never match anything,
  although wildcards may stand anywhere (README.md:155-157).
- `client_rejected_400`: after the 400 page of an ambiguous request comes a 404
  page (README.md:28-30).
- `client_connection_framing`: of several `Transfer-Encoding` fields only the last is
  looked at, so that another one in front of `chunked` goes to the upstream with it,
  although such requests are to be rejected (README.md:28-30, SECURITY.md:30-33).
- `listeners_acme_limit`: ACME ports do not count connections (SECURITY.md:37-39).
- `listeners_certificates`: a certificate that does not load ends the process,
  which a log line just before calls not blocking (run.rs:46).
- `deployment_uninstall`: a service that waits to be restarted is not "active",
  so `uninstall` does not stop it; systemd starts it once more, and it runs on
  without its unit file (README.md:70).

What else was noticed while modelling, and follows from reading alone:

- `**` matches no label at all; README.md:151 says one or more. The repository's
  unit tests assert what the code does, and so does the model.
- `client_full_timeout`, called one timeout for the whole connection in the
  default configuration, becomes a timer for the head and another of the same
  length for the relay (get_scety_config.rs:101).
- Both flattened maps of a service file receive every section, so that a file
  with `[upstream_<port>]` or `[ssl_<port>]` sections loads only if each of them is
  valid as the other kind too, although README.md:139-142 and a unit test
  (get_services_config.rs:291-313) call such files valid. Nothing listens on
  `listens_port`, as README.md:139-142 says. With `listens_port = []` a file without
  sections loads, has no port, and the service fails and is restarted for ever if it
  is the only one.
- `check` reports all configurations valid although it has skipped broken files
  (README.md:68); `check-certs` never looks at a key, and what it reads as the user
  who types it the service may not be allowed to read as `scety`
  (`CheckCertsCoversTheStart` leaves out exactly those certificates).
- The chain of a certificate is verified for the first host only, and a wildcard
  is no name: a service whose first host is `*.example.com` always gets a warning.
- `host` is called optional in the example service file and is required.
- The rewriting takes the first CR LF CR LF in what was read for the end of the head
  (listeners.rs:357-366), the parser does not. Behind leading empty lines that make
  one, the configured lines go before the request line and the client's own fields
  stay, `X-Forwarded-For` with them. A head with bare LF goes to the upstream as it is,
  or, when the body read with it has a CR LF CR LF, with the configured lines in that
  body. README.md:31-32 and SECURITY.md:34-36 say that the client's field is always
  removed. The model has all of these heads; `EndsItsHead` is the exact condition under
  which `UpstreamReadsOurHeaders` holds.
- An interim (1xx) response is taken for the response: it gets the configured
  headers, and the final one does not.
- The placeholder `{main_path}` in the unit's `ReadWritePaths` is never replaced
  (install.rs:91). An installation that was interrupted between the unit file and
  `enable` is started but not enabled when it is repeated.
- `systemctl stop` sends SIGTERM, for which there is no handler: the graceful
  shutdown only follows Ctrl-C. The exit statuses of `systemctl` are ignored.

## 4. The proofs

All theorems are about every value of the constants that satisfies the named
assumptions, which TLC evaluates in the runs.

**Induction** holds what several proofs need about data. The library's induction
theorems take a predicate as a parameter, which no installed prover can
instantiate; here a *set* takes its place: if 0 is in `S` and with every number its
successor, all numbers are (`NaturalsAreIn`), and likewise for sequences that grow
at their end (`SequencesAreIn`). A recursive function exists, and satisfies
its equation, when its value at a point uses points of a smaller rank only
(`Recursion`); each recursive function of the models is unfolded by an instance of
that lemma. What `Keep` selects (`KeepElements`, `KeepConcat`, `KeepTwice`, ...),
and that `Min` is the least element, rest on these.

**IpLimitProofs** proves `LimiterInvariant == Spec => []IInv` for every set of
addresses, every supply of guards and every integer limit (`IpLimitAssumption`
is all that is assumed), and from it type correctness and the three safety
properties. `WithinLimit` is not inductive by itself: a step that acquires compares
the counter with the limit, so the invariant must say that the counter is the
number of guards that hold a slot (`CountsAreGuards`); that a drop never meets a
counter of zero, where `saturating_sub` would hide an error, follows from it.
`NoStaleEntry` needs the same equality to know that an entry is removed with its
last guard only. Lemmas: how a release changes the entries, how adding or removing
a guard changes the number of slots, one preservation lemma per operation.

**HostRouterProofs** is about what the matcher computes, for all patterns, hosts
and labels (`LabelsAssumption`: hosts and patterns are non-empty sequences of
labels). It goes in four steps.

1. The reference `Covers` is restated with *cuts* of the host, one piece per label
   of the pattern. By induction along the cut, the table of `dp_host_matches` answers
   exactly `Covers` (`DpMatchesCovers`), the trie finds a path that fits such that
   every other one that fits is looser (`TrieFindsBest`), and the edge maps find the
   longest known part.
2. For each of the ten classes, the test that its structure makes is `Covers` on
   the patterns of that class (`ServesCovers`, `CoversServes`). The second
   direction fails for an interior `**` with another `**` beside it: the structure
   cuts the pattern at its first `**` and takes the other one for a label.
3. `RouterInv`, inductive: after any sequence of `add_pattern` the structures hold
   the configured patterns, each under the key of its class, and nothing
   else (`IsRouterOf`).
4. A lookup answers with an index of such a pattern (`AnswerServes`) and finds one
   where there is one (`AnswerExists`); adding a pattern changes an answer only to
   the new pattern (`AnswerAfterAdd`).

From this follow `RoutesAreSound`, `NewPatternTakesOnlyItsHosts` and the type of
routes without a hypothesis. `RoutesAreComplete` has the hypothesis that interior
`**` patterns have one `**` (`OneDoubleStar`): the run `host_router_repeated` shows that
it is false without. `NarrowerPatternWins` moreover needs hosts that vary
(`Varied`: every label of a host may be another one), because it compares patterns by
the hosts they cover: with few hosts a pattern may cover fewer only by accident.
The patterns and hosts of the run `router` satisfy the first, and its hosts of up to
three labels the second. `FileOrderDecidesLast` compares the patterns themselves and
needs the first hypothesis only: within a class whose structure is a map, two patterns
of the same key are one pattern (`SameTail`, `SameFront`, `SameKnownPart`), so the one
found is the one with the longest key, or the least loose path of the trie.

**SearchRouterProofs** proves `CacheInvariant == SearchSpec => []CacheInv` for
every capacity, set of hosts and set of patterns, and from it `CacheIsBounded`,
`CacheIsCoherent` and `AnswersAreRoutes`. Coherence alone is not inductive: a
step of the construction changes the router under the cache, so the invariant
says that the cache is empty until the router is shared, and that afterwards
every entry is the resolution of its host. The matcher itself is opaque in this
proof: only that it is a function of the router is used. `RouterOfThePort` says that a
port's router behaves as HostRouter specifies, so that the theorems about routes hold
of what is cached.

**ListenersProofs** takes the limiter's theorem over: the actions of the listeners are
made of those of IpLimit (the lemma `ServiceUsesTheLimiter`), so its invariant holds of
the service's limiter (`LimiterHolds`). What that says of *connections* needs the
second invariant, `TaskInv`: the guards are exactly those of the tasks that own
one (`GuardsAreTasks`), which is inductive only with unique connection ids. The
map from tasks to guards is then injective, and counting the ones counts the others
(`TasksAreSlots`): `PortsShareTheLimit` and `RefusedOnlyAtTheLimit` follow from
the two invariants together. Assumed: an integer limit, disjoint sets of ports.

**ClientConnectionProofs** has three invariants. `ReadInv` says where the buffer
stands and, from the connect on, that the request was checked; it gives
`ReadHasRoom` for every first size and every limit, powers of two or not. `WriteInv`
says that every page written, or being written, is justified by the request and by
how much of it was read, that the page being written may follow what was written
last (`PageFits`), and where nothing has been written yet. `AnswersDoNotMix` is
about the output alone and not inductive: whether the next page fits depends on
the phase. `FittingHeadIsAccepted` and `OnlyCheckedRequestsAreForwarded` follow.
`SentInv` says that an upstream gets what `ForwardedHead` makes of the bytes read, or
nothing, and only of a request whose framing passed the check.

What an upstream reads of it depends on where the first CR LF CR LF stands: before
the request line (`EndBefore`), at the end of the head (`EndBehindHead`), in the body
(`EndInBody`) or nowhere (`EndNowhere`). The fields it reads are the client's, the
client's without the configured names, or these with the configured lines behind them,
and the last wherever `EndsItsHead` (`SentAsRead`). What a rewritten head contains is a
fact about `Keep`: the lines that survive the removal, and behind them the configured
ones (`RewrittenHead`). `UpstreamReadsOurHeaders` follows for all maps and all requests
with `EndsItsHead`.
`UpstreamReadsOneLength` holds for every request with at most one `Transfer-Encoding`,
and has a hypothesis, `ConfiguresNoFraming`: no
configured header is called `Content-Length` or `Transfer-Encoding`. The
check is made on the client's head, and the configured lines are put in behind it, so
that an operator who configures such a header does break the property; the code
does not refuse it. Assumed: requests are well-formed, the first buffer is not
empty, limits are integers, maps have finitely many keys (`MapsAssumption`).

**RelayProofs** proves that each direction implements `Pipe`. For the upload
(`UploadIsAPipe`) the invariant says that what was passed on and what is held are
consecutive parts of what the client sent, up to what was read of it; an end is
read behind all that was written and passed on when nothing is held. The
download (`DownloadIsAPipe`) is harder because its input is not what the upstream
sends but a rewritten head with the rest behind it, and the program decides
whether to rewrite while it reads. `Emitted(k)` is what the first `k` pieces of the
response turn into, `Decided(k)` that no later piece changes this; `DownloadInv`
says that while the head is collected nothing is passed on and no end of head is in
the buffer, and that from then on what was passed on and what is held make up
`Emitted(read)`. That every read continues what was emitted (`EmittedContinues`)
needs that the end of a head found in a part is its end in every longer part
(`HeadEndOfPart`). `ReturnsWhenAllIsPassed` is not inductive by itself: `RelayInv` joins both
directions' invariants, because a relay returns when both have passed on their end.
Assumed: streams are sequences of items, maps have finitely many keys, and
(`LiteralsAssumption`) the few header names written out in the model are strings, which the
provers do not know of a literal.

**DeploymentProofs** proves `WhatStartsIsComplete` from `StepsInv`, which says for
each step of a command what earlier steps have established, wherever those
commands ended; and `WrittenTimersHold` for every set of durations
(`DurationsAssumption`: the default is a duration, the markers are not). The three
properties over lists of service files hold for all directories: `GetAllConfigsLoads`
says which files a directory loads, for either user, `ResolveSslModeDeclares` that the
first service of a port that declares TLS is found wherever it stands.
`DeclaredTlsIsServed` needs the invariant that what `run()` has read is a sequence of
files (`ReadInv`), `CheckCertsCoversTheStart` that there is at most one `scety.toml`
(`DisksAssumption`), which the type invariant carries from step to step.
`StoppedStaysStopped` is not inductive: a unit that waits to be restarted when `stop`
asks is refused, but one may begin to wait between the question and the answer, so
`StopInv` follows the command.

Every inductive invariant that is not itself among the properties of a run was checked by
TLC on the instance of its component (of `RelayInv`, all but `ByPeer`, which says
that functions over the peers stay functions over the peers).

Only model-checked: liveness. `WaitsOnlyForWrites`, `ShutdownEndsIt`, `InterruptEndsIt`,
`NoPortIsMissing`, `UploadWaitsOnlyForTheHead` and `DownloadArrives` speak of fairness, and
so of ENABLED, which is out of the provers' reach. All other properties of the
passing runs are theorems.

## 5. Not modelled

- Text: the pages, the exact lines of a head (case and spacing are folded into the
  values of `Headers`), log lines, `status` and the help texts.
- TOML, X.509, `webpki`, `httparse`, `humantime`: external; the model takes what
  they answer as given.
- The ACME protocol and its cache: `tokio-rustls-acme`'s. An ACME port is one that
  needs no certificate file.
- The fallback server's page: a constant answer, no shared state. That it is
  started, and may fail, is in Deployment.
- The search for files: `walkdir`'s order is arbitrary, and the model takes every
  order of the files; extensions and nested directories are left out. Modes,
  groups (`ssl-cert` too) and owners of files appear as the `readers` of a file.
- The defaults of `client_header` and `ip_limitation`: the limits are constants of
  the modules that use them.
- Pipelined requests: bytes behind the first head are relayed unseen by the
  code, and belong to the upload of Relay.
- Lengths of timers: a timer may fire at any time after it was set.
- The `None` end of the ACME stream: `TcpListenerStream` never ends.

## 6. Plan

1. ClientConnection and Relay are joined by hand (`phase = "relaying"`). A module
   that composes them, with the output of the relay as the last piece of `out`,
   would check the join.
2. The signal handling of a `systemctl stop` in Listeners, which Deployment takes
   as one step.
3. Proofs: the safety core of the liveness properties, that is, that a step of the
   program itself is possible wherever a peer is not being waited for.
