# A TLA+ model of Elrond

Elrond is a web server and reverse proxy in Rust (tokio, hyper, quinn) that reads
Nginx-style configurations. This directory holds specifications of the parts of it in
which several tasks share state, fail, time out or are reconfigured while they run, and of
the way from configuration files to a served file; the TLC configurations that check them
on small instances; and proofs, checked by TLAPS, of all their safety properties for
instances of every size.

`tlc -config <run>.cfg <MC module>` checks one run and `tlapm <module>Proofs.tla` one set
of proofs. `PROJECT.json` lists the runs, the lines each definition stands for, the
hazards the properties are aimed at, and, for every property, a plausible bug (a
definition marked `Mutant`) under which TLC finds it violated.

## 1. The system

| Part | State it keeps | Operations | Talks to |
|---|---|---|---|
| `main.rs` | PID file, privileges, the signal loop | load, start, drop privileges, reload, stop | `Supervisor` |
| `supervisor.rs` | one record per listener: address, stop channel, configuration, certificate and balancer channels, join handle | `start`, `reload` (diff against the new runtime), `shutdown` | listener tasks, by `watch` channels and joins |
| `server.rs` `run`, `stream.rs` `run`, `run_udp`, `http3.rs` `run` | listening socket, connections in drain | accept, snapshot the channels, stop, drain | connection tasks |
| `server.rs` `handle`, `http3.rs` `dispatch` | per request: the location, a limit_conn guard | the gates, the action, headers, gzip, counting | everything below |
| `app.rs` `Balancer`, `Peer` | per peer: in-flight count, consecutive failures, `failed_until_ms`; per balancer the round-robin counter | pick, `enter` and its guard, `record_success`, `record_failure` | shared by all requests, relays and probes, all atomics |
| `proxy.rs` | per request: excluded addresses, attempts, the last 5xx | `forward`: cache lookup, retry loop, timeout, collecting for the cache | balancer, cache |
| `health.rs`, `stream.rs` `handle`, `handle_udp` | per exchange: the peer and its guard | probe, relay | balancer |
| `limit.rs` | two kinds of zones, each a map in a mutex | `allow` (token bucket), `try_acquire` and the guard's `Drop` | requests of every location that names the zone |
| `cache.rs` | variants per key, `total_bytes`, in a mutex | `get`, `decide_caching`, `put` | `proxy.rs` |
| `app.rs` `ProxyTarget` | balancers memoized for dynamic targets, in an `RwLock` | `resolve` | requests |
| `access.rs`, `auth.rs`, `auth_request.rs`, `mirror.rs`, `gzip.rs` | none | one decision or one call each | requests |
| `config/` | while loading: the stack of `expand_includes`, the files on the include chain | `load`, `parse`, `expand_includes`, `build` | the files, then `app.rs` |
| `app.rs` `build`, `pick_state`, `route` | the `Runtime`: listeners, virtual hosts, locations | group, sort, refuse; choose host and location | `main`, `Supervisor`; requests |
| `static_files.rs` | per request: the path, the metadata of the last `stat` | `serve`, `try_files` | the file system, call by call |
| `template.rs`, `request_ctx.rs`, `tls.rs`, `metrics.rs`, `logging.rs`, `privilege.rs`, `sd_notify.rs`, `http_date.rs`, `body.rs` | counters (`metrics.rs`) or none | I/O and formatting | |

What is hard about it:

* **Several atomics, no lock.** A peer's health is three atomics, written one by one by
  requests, relays and probes at the same time.
* **Guards across awaits.** In-flight counts and limit_conn slots are RAII guards. Hyper
  drops the future of a request whose client left at any await; retries, timeouts and early
  returns each have to end with the right guards.
* **A clock read before a lock.** limit_req takes the time first and the mutex second.
* **Shared zones.** Locations with different bursts or caps share one zone, which has a
  size limit and evicts.
* **Two transports, two handlers.** HTTP/3 has its own copy of the request pipeline.
* **Files that change.** A load reads several files and a static answer makes several
  file-system calls; each may see another state of the disk.
* **Reconfiguration.** A reload pushes state through several channels, binds and closes
  sockets, and may fail half way, while connections are accepted and signals arrive.

## 2. Modules

| Module | What it models | Composes |
|---|---|---|
| `ForwardContract` | what an upstream exchange promises: how often and where a task may send, and that nothing is sent after the answer | |
| `Upstream` | balancer, peers, forward, relays and probes | implements `ForwardContract` |
| `Zones` | the constants that both kinds of zones share | |
| `LimitConn` | limit_conn zone and guards | extends `Zones` |
| `LimitReq` | limit_req zone | extends `Zones` |
| `Limits` | locations with either limit or both, in the order the handlers ask them | extends both |
| `Cache` | proxy cache and the requests around it | |
| `Pipeline` | both request handlers and dynamic targets | `LimitConn`, by `INSTANCE` |
| `Supervisor` | process, listeners, reload, shutdown, connections | |
| `ConfigLoad` | lexing verdict, parser, `load` and `expand_includes` | |
| `Lowering` | `config::build`, the building of listeners and locations, `pick_state` and `route` | extends `ConfigLoad` |
| `StaticFiles` | `serve` and `try_files` over a file system that changes | |
| `Site` | from the configuration files to a static answer | `Lowering` and `StaticFiles` |
| `IncludeReference` | what inclusion means, as text: the reference for the loader | extends `ConfigLoad` |
| `MC*` | instances for TLC | |
| `UpstreamProofs`, `LimitConnProofs`, `LimitReqProofs`, `CacheProofs`, `PipelineProofs`, `SupervisorProofs`, `SiteProofs` | inductive invariants and proofs | the module each is named after |
| `LoadProofs` | proofs about the parser and the loader, for any files | extends `IncludeReference`; used by `SiteProofs` |

### Upstream

A task is a request (`retry_safe`, `cached_get`, `once`), a relayed session (`tcp`), a
datagram (`udp`) or a health probe. Its `pc` goes through the code's steps: pick a pool
(`Scan`, with the availability test at one clock reading), select from it (`Choose`), take
the guard (`Enter`), wait (`ReplyOk`, `Reply5xx`, `ReplyError`, `Timeout`), and book the
outcome one atomic at a time: `ClearFails` and `ClearUntil` are `record_success`;
`CountFailure`, `ReadClock` and `StoreUntil` are `record_failure`. Then it retries, gives
up, collects the body or streams it. `Cancel` drops the future at an await. `peerVars` are
the atomics; `least_conn` and `ip_hash` compute as the code does, with the client's hash an
input. A cooldown is an absolute time and the clock does not step back.

### LimitConn, LimitReq, Limits

Each map operation under the mutex is one step, because that is what the mutex makes it.
LimitConn keeps the entries that are in the map apart from their counts, since zero
entries stay and are what eviction looks for. LimitReq has the clock reading and the
decision as two steps. Tokens are integers: a request costs `Cost` units, a tick brings
`Refill`, so fractions of a token exist as they do in the code's floats. `admitted`,
`created`, `regress`, `refused` and `peak` are history variables that only properties read.
In `Limits` a request passes the limit_req zone of its location, if that has one, and then
the limit_conn zone: `Stamp` and `RateGate` are the two steps of `allow`, `ConnGate` is
`try_acquire`, and a request that the first zone denies never comes to the second. Both
zones have one key template, which is how they are mostly used; with two templates the
zones have nothing in common.

### Cache

`Arrive`, `Lookup`, `Collected` (or `Failed`) and `Put` are the four points at which a
cached GET touches the store or reads the clock. `Lookup` removes expired variants and
takes the first that matches; `Put` evicts soonest-to-expire first until the new entry
fits, then replaces the variant of the same signature. `gauge` is the exported byte gauge,
which only `Put` sets. A request has the lines of each header, in order. `HeaderText` is
what `build_signature` reads of them: the first line, or nothing where there is none or
`to_str` refuses it (`Opaque`, a value that is not visible ASCII). A signature is the
sequence of the names and these texts rather than the string the code joins them to;
neither a name nor such a text holds the separator.

### Pipeline

A request arrives over `tcp` (HTTP/1.1, HTTP/2) or `quic`, at a location that has any
subset of the gates. `Order` gives each handler's order of gates. Gates that decide at once
and gates that wait are separate locations of `pc`. The limit_conn gate and every way to
lose the guard are actions of `LimitConn`; limit_req and the upstream exchange decide
nondeterministically here because their own modules cover them. A location answers by
itself, or proxies to a fixed or to a dynamic target, either of them perhaps with a cache.
`Resolve` and `Memoize` are the two lock scopes of a dynamic target.

### Supervisor

`pc` is where the main task is, through start-up, the signal loop, the loops of a reload
and shutdown. `tasks` is every listener task ever spawned, with its address, kind, socket
state, generation of configuration and certificate, and stop flag. `http`, `streams` and
`h3` are the Supervisor's lists, `kept` the vector that a reload fills. A connection reads
the configuration when it is accepted and the certificate afterwards, as `server::run` does;
an HTTP/3 endpoint reads the channel of the TCP listener it was started beside.
Start-up is the steps of `main`: `Boot`, `WritePid`, `ResolveUser`, the binds and the
privilege drop. A failure of the user lookup, of a bind or of the drop, and a stop, each end
in an action of their own that calls `CleanupPid`, as main.rs 173, 185, 210 and 242 do; the
removal may fail once the process is no longer root (main.rs 248 ignores that). Until
`wait_for_signals` has installed the handlers a signal ends the process where it is
(`Killed`). `lost` holds the addresses whose bind failed in the latest reload, and
the TLS mode of a listener that is kept is not compared with the configuration: the code
leaves it as it was (supervisor.rs 136-163).
Which addresses can be bound is computed from the sockets that are open and from the
privileges; a bind may also fail for other reasons.

### ConfigLoad, Lowering, StaticFiles, Site

A configuration file is its sequence of tokens; `Parse` runs the parser over it, token by
token, with the open blocks as a stack. It is a recursive function of the number of tokens
read, and `At(s, I)`, the elements at some positions in their order, stands for the lists
that the code's loops filter out: both so that they can be reasoned about. A directive's
`ends` is the token it ends with: `}` where the code's `block` is `Some`, an empty list
included, `;` where it is `None`. `calls` is the recursion of `expand_includes`, one call per file or
block, and each file is read at a step of its own, so `EditConfig` may change, create or
delete files in between. An include names a file directly, in its first
argument; what else it has, more words or a block, is ignored, as in the code
(config/mod.rs 58-61). Relative directories and
symbolic links, which `canonicalize` resolves, are not modelled, and the editor replaces
files as a whole. `Accept` is `config::build` followed by `app::build`, both pure: the
tables `Arity`, `Tolerated`, `Typed` and `Blocks` say what each context knows, asks for,
converts and nests, and the `...Ok` operators are the refusals; `Runtime` is what is built.
An argument either parses or is `Malformed`; a regex is the set of paths it matches;
`ZoneOf` gives the name in a word such as `zone=NAME:SIZE`, and only such a word declares
or names a zone (limit_conn takes the bare name too).
`Listen` keeps the `Runtime` only and forgets the state of the loader, as the process does.

A request is routed by `PickState` and `Route`, and then every file-system call of
`static_files.rs` is a step: `Probe` (a `try_files` entry), `Stat`, `StatIndex`, `List`,
`ReadRange`, `ReadAll`. Between them files are written (a whole new version at once, with
the time in seconds) and deleted. A path is a sequence of pieces, so that prefixes,
leading slashes and `..` mean what they mean to the code. `ver` marks the version bytes
come from and is seen by properties only, as are `stamps` and `steady`. One client asks
again and again with the tag it was given; requests share nothing but the files, so a
second client would add no interleaving. The wall clock does not step back.

## 3. Runs

| Run | Instance | Shows |
|---|---|---|
| `upstream` | 2 tasks of all kinds, 4 peers (weight 2, the same address again with weight 0, a backup, one down), all three methods, `max_fails` 1, clock to 2 | `InFlightExact`, `DownPeersUnused`, `CooldownBounded`; `KeepsContract`: the step-by-step model implements `ForwardContract`; `AttemptsEnd` |
| `limits` | 4 requests, 3 keys, three locations (burst 1 and cap 2, burst 2 alone, cap 1 alone), half a token per tick, one entry in each zone | `CountsExact`, `CapsKept`, `MapBounded`; `AdmissionBound`, `BurstGranted`, `ZoneBounded` |
| `cache` | 3 requests, 2 keys, headers of no, one and two lines, plain and varying responses, store of 3 units | `BytesExact`, `VariantsDistinct`, `HitsMatch` |
| `supervisor` | 3 configurations and a broken one, 2 reloads, 1 connection | `NoOrphans`, `HttpFollowsConfig`, `CertsNotOlder`, `PidFileLeft`, `ConfiguredDrained`, `StopEnds` |
| `pipeline` | 2 requests, either transport, 2 clients, 3 locations | `GatesHold`, `SlotsKept`, `ShadowsScoped`, `CountedOnce`, `MemoSettles`, `SlotsReturned` |
| `site` | 17 main files and two included ones in several versions, 1 edit during the load; 9 file-system nodes, 30 requests of which 2 are made, 2 edits, 2 seconds | `LoadFaithful`, `IncludesBounded`, `AcceptedIsServable`, `RouteRight`, `RangeExact`, `RevalidationSound`, `TryFilesHonest` |

`upstream`, `cache`, `supervisor`, `pipeline` (with the `TypeOK` of the zone it uses) and
`site` also check the types; the types of every module are proved.

What the properties of `site` say: parsing each file on its own and expanding trees gives
what splicing the texts would give, and a load fails exactly when some needed file is
missing, malformed or on a cycle (`LoadFaithful`, against the textual reference); the
recursion is bounded by the number of files even if they are edited into a cycle
meanwhile (`IncludesBounded`); an accepted configuration has all that the serving code
takes for granted (`AcceptedIsServable`); grouping, sorting and searching choose the
location that a declarative reading of the file gives (`RouteRight`); a 206 carries
exactly the bytes asked for, and 416 is sent only if there are none (`RangeExact`); a 304
is right about the client's copy unless two versions share size and second
(`RevalidationSound`); and `try_files` neither passes over nor reports missing a file that
was there all the time (`TryFilesHonest`).

Why these bounds are enough to meet the interesting cases: two tasks are what a race on a
peer's atomics or on a dynamic target takes, and a retry
meets a repeated address, the backup and an empty pool. Four requests exceed a cap of two while another key
pushes for eviction; a zone of one entry evicts at the second key. A clock to 2 lets a
cooldown or a TTL of 1 end and another one begin; one tick is what it takes for two clock
readings to reach a lock in the wrong order and for half a token to be credited twice. The
budget of three attempts does not bind in `upstream`, where two addresses can be tried;
`ContractKept` is proved for any number. A store of three units holds one large or several small entries, so
that eviction, replacement and refusal all occur. Two requests let a client revalidate
what it got, two edits let a file shrink and grow, or go and come back, between two
calls of one request; one edit during a load is what it takes to close a cycle behind
the loader. Two reloads are needed for an address to
leave and come back. Deadlock is not checked: in every run the tasks, the requests or the
process really end.

**Fairness.** `Upstream`: the executor polls what can run and an armed timer fires; peers
and clients owe nothing. The timer of a UDP exchange is armed only around `recv`
(stream.rs:149); its bind, connect and send wait for nobody. `Pipeline`: likewise, the auth timer fires, and an action ends
(for proxied ones that is `AttemptsEnd`) except where a cacheable body is collected, which
has no timeout. `Supervisor`: tasks that can run do; `StopEnds` takes as its premise that
open connections close, because the drain has no deadline.

### Where the code and the documents disagree

Six runs check what a document or comment says and end with a counterexample:

| Run | Stated | What happens |
|---|---|---|
| `upstream_body_stall` | docs/compatibility.md:104, `proxy_read_timeout` "wraps the whole upstream exchange" | the body of a cacheable response is collected after the timeout has been taken off (proxy.rs:459): a stalled upstream holds the request for ever |
| `cache_vary` | cache.rs:4-7, variants are "keyed by the values of the request headers" and "must not be served to the wrong client" | only the first line of a header is read, and nothing of one that is not visible ASCII (cache.rs:219-222): requests that differ there share a variant. `HitsMatch` states, and the proof shows, what does hold: a hit agrees on what is read |
| `pipeline_slot` | limit.rs:203-204, the slot "lives exactly as long as the request"; docs/compatibility.md:94, "concurrent in-flight cap per key" | the guard ends with the location's arm, before the body is compressed and sent (server.rs:313): with a cap of one, two requests of a client are in flight |
| `supervisor_drain` | docs/security-model.md:89, shutdown "drains plain HTTP/1.1 connections" | listeners removed by a reload are not joined (supervisor.rs:171); the exit cuts their connections |
| `supervisor_transport` | docs/architecture.md:125, an address still present gets the new state | relays are matched by address alone (supervisor.rs:191): of TCP and UDP on one port, a reload leaves one on its old balancer and closes the other |
| `supervisor_privilege` | privilege.rs:13-14, "bind every socket", then "drop privileges" | an HTTP/3 endpoint is bound in a spawned task (supervisor.rs:302) that may run after the drop |

Met while modelling and not given a run: the in-flight guard of a peer has the scope that
`pipeline_slot` shows of a limit_conn slot (`app.rs:352` says "for the duration of one
request", `app.rs:366` "when the request completes", and it ends with the response head,
proxy.rs:264), so least_conn does not see bodies that are still being relayed; only the
first `Cache-Control` line of a response is read (cache.rs:274), so one whose second line
says `private` is stored, which CHANGELOG.md:1468-1474 and docs/security-model.md:47 say
never happens; docs/compatibility.md:22 has the PID file "removed on clean shutdown", which
fails without a word if the user the process has become may not remove it (main.rs:248;
`PidFileLeft` says when that can be); a SIGTERM before `wait_for_signals` leaves it too;
`ctrl_c()` is made anew in each turn of the signal loop (main.rs:271), so a SIGINT
during a reload has no receiver; docs/migration-from-nginx.md:102 still calls `try_files` a
no-op, unlike docs/compatibility.md:84 and CHANGELOG.md:809, with which the model agrees;
a 206 that a static location has cut to a range may be compressed afterwards (gzip.rs:9),
so `RangeExact` is about the answer of `static_files.rs` and not about what gzip makes of it;
mirrors are fired before authorization over TCP
and after it over QUIC; `README.md:56` promises `X-Cache` on every proxied response, which
a 5xx after retries does not get; `app.rs:850` calls the protocols of one address an
intersection, and docs/compatibility.md:68 says the strictest set wins, while the code
collects a union; docs/compatibility.md:50 has an http-level `client_max_body_size` cascade
and line 46 lists an http-level `gzip`, both of which `build_http` ignores (build.rs:90); lines 26 and
62 say that `listen … udp` is rejected, which build.rs:247 accepts (as line 130 says);
HTTP/3 counts a successful TLS handshake
before there was one (http3.rs:57). Behaviour worth knowing that no document contradicts:
`listen 443 ssl; listen 8080;` in one block leaves TLS on with the second address only;
`return` and `=N` accept any 16-bit status, but a response with one below 100 or above 999
cannot be built (body.rs:28 expects it can); sizes and durations are multiplied unchecked
(build.rs:287, 997); of zones or upstreams of one name the last wins; probes of an upstream start
before the rest of the configuration has been accepted (app.rs:561); a configuration
with a `stream` block alone is refused (app.rs:497); a candidate that vanishes between
the probe and the answer of `try_files` gives 404 rather than the next entry; the ETag has
a resolution of one second, and through `try_files` also compares different files;
`If-Range` is ignored; the cache gauge is one figure for all zones.

## 4. Proofs

The theorems hold for every value of the constants that the modules' `ASSUME`s admit. No
bound of a run (`MaxTime`, `MaxEdits`, the number of requests or reloads) limits what is
proved. The assumptions are

* finite sets of tasks, peers, requests, keys and files; natural weights, caps, bursts,
  sizes and times; at least one entry per zone;
* `Supervisor`: a configuration names an address once and has HTTP/3 only where there is
  TLS, as is proved of what the builders accept (`AcceptedIsServable`, lemma `ServerGood`);
* `ConfigLoad`, `Lowering`: the contents of a file are sequences of tokens, files are
  named by words rather than by `{`, `}` or `;`, every token has a path it
  would mean as an argument, and `None` is not a token;
* `StaticFiles`: the tree is finite, no file lies below the name of another file (an edit
  does not turn a file into a directory with files in it), and `ver` is a label that
  differs from file to file: it marks contents for the properties and is seen by nothing else;
* `Site`: the ends of a range are numbers or missing.

TLC evaluates all of them on the runs' instances.

* **`UpstreamProofs`.** `InFlightExact` is not inductive: a step that drops a guard has to
  know that there is one and for which peer. `IInv` adds `TypeOK`, `GuardScope` (between
  which locations the code has a guard alive, and that it is for the task's own peer) and `PeerChosen` (a busy task has a
  peer that is not down). `HealthInv` gives `DownPeersUnused` and `CooldownBounded` on top
  of it: the times tasks have computed and not yet stored are bounded too.
  `SendsTracked` says how the addresses sent to, the exclusion list and the attempt number
  go together, and from it each step is shown to be a step of `ForwardContract` or a
  stutter: `ContractKept`.
* **`LimitConnProofs`.** `IInv` is the count together with "a guard exists only while its
  request is handled". `EvictionHarmless` is the lemma that matters: what is evicted has no
  holders. `CapsKept` follows from the count at each admission, `MapBounded` from `peak`
  having recorded the keys in use.
* **`LimitReqProofs`.** `AdmissionBound` says nothing of the tokens left in a bucket.
  `Ledger` adds them and measures time by the bucket's own `last`; `Floor` is its
  counterpart from below, from which `BurstGranted` follows. The products are kept out of
  the provers' way by four lemmas on multiplication. The run checks both zones in `Limits`,
  each of whose actions is an action of one zone that leaves the other alone; the theorems
  are about each zone by itself, under any requests.
* **`CacheProofs`.** `HitsMatch` looks back to the request an entry came from, so `CInv`
  carries that link through the fetch (`Pending`), the store (`Stored`) and the answer
  (`Hit`). `Books` adds the accounts: what a request holds between two locks, and
  `BytesExact`. The byte total is a sum over a set, defined by recursion, and the provers
  have no induction to offer. Instead the sum is shown to be the number of pairs (entry, unit of its
  size), since counting these solves the recursive equation and two solutions would differ
  at a smallest set, of which there is none. From there on cardinalities do the work:
  expiry, eviction and replacement each remove a set whose sum is subtracted.
* **`PipelineProofs`.** `ZoneUsedRight` is a refinement: every step of the pipeline is a
  step of `LimitConn` on the zone or leaves the zone alone. The zone's count and caps are
  carried over to the pipeline's states from there (`SlotsKept`). For the rest, `RequestInv(r)` says of each
  request by itself what its `pc` implies: the slot it holds (`Slotted`), the gates it has
  passed, in the order of its own handler (`Gated`), the shadows fired (`Mirrored`) and
  what was counted (`Tallied`). A step of one request leaves the invariant of the others
  alone, so each action is looked at once. Two lemmas, one for a gate that refuses and one
  for a gate that lets through, cover all gates. `MemoSettles`, an action property, follows
  from the two lock scopes of `resolve`.
* **`SupervisorProofs`.** `NoOrphans` alone does not survive the middle of a reload, where
  the list has been taken apart. `SupervisorInv` says where every task that is not told to
  stop is listed at each `pc` (`Lists`), what a finished loop has achieved for each address
  it has dealt with and what is left in the queue (`Followed`), that a channel never
  carries a certificate older than the configuration beside it, for the connections that
  have read one and not yet the other (`Certified`), and that a plain HTTP listener that has
  ended has no connection left, while only QUIC connections are cut before the process ends
  (`Drains`). `PidFileLeft` needs to know at each `pc` whether there can be a PID file and
  whether the process is still root.
* **`LoadProofs`.** What the parser and the loader compute, for files of any length,
  nested and including each other to any depth. `Txt(by, dirs)` is the text of a tree with
  `by[f]` put in for an include of `f`. `ParseOk`: the parser accepts exactly the
  well-formed texts. `ParseText`: the text of what it returns is the text it was given,
  includes replaced alike in both. The proof follows the parser token by token: outside of
  an include the open blocks make the text so far (`Quiet`); inside of one, whose words and
  block are passed over, they lag behind it (`Skips`). The loader is followed call by
  call. Each call on the stack has a text: what it has put out, then the text of the call
  above it, then the text of what it has to do, the files on the chain being out of reach
  (`Passes`, `Yields`); the text of the first call is the spliced main file. That the load
  succeeds exactly when it should is read off the same texts: an include of a file outside
  of a set `S` leaves a mark, so a tree without marks needs members of `S` only (`Clean`);
  `Needs` says that a sound configuration never meets a missing file or a cycle, `Demands`
  that a load that comes to its end met all that soundness asks for. `LoadMeans` puts these
  together and is the inductive invariant; it quantifies over functions on the naturals,
  so it has no run, unlike `LoadFaithful`, which follows from it. Where the
  definitions recurse (over tokens, depth of blocks, levels of includes), the function is
  first shown to satisfy its equation, and induction is the fact that a set of numbers that
  is not empty has a least member (`LeastElement`, `NatSteps`), applied to a set
  defined for the purpose: no theorem with an operator parameter is needed.
* **`SiteProofs`.** Four arguments, each on top of the one before.
  * *The loader.* `LoadInv`: the files on the stack are distinct and marked as visited, so
    there are no more calls than files (`IncludesBounded`), whatever edits come in between.
    Directive trees nest to any depth; the trees at hand lie in `Directives`, the union
    of the trees of each depth, which is closed under taking blocks apart
    (`ClosedDirectives`). `LoadCorrect` is `LoadFaithful`: every step of the loader keeps
    `LoadMeans`, by `LoadProofs`, and the rest of the system leaves it alone.
  * *The runtime.* `Accepted`: the runtime was built from a tree that both builders
    accepted, hence `AcceptedIsServable`. Grouping and sorting are shown to be
    enumerations by rank that neither lose nor double a block or a location.
  * *Routing.* `RouteRight`: each list is searched for its first match (`Found`); the
    position found, traced back through sorting and grouping, precedes every other that
    fits, and `Precedes` has one least element.
  * *Requests.* `ServeInv` has a part for the file system (`FsInv`, `StampInv`), one for
    where a request stands (`ReqInv`) and one for each property. `RangeExact` needs that a range
    being read was satisfiable for the size last seen. `RevalidationSound` needs that the
    tag a client holds belongs to the version of its copy or to one that is gone for
    good (a tag taken before the bytes may be older than they are, never newer).
    `TryFilesHonest` needs that what lies behind the loop was not a file all the time. Every
    action has one of eight outcomes (`StepsOn`, `Enters`, `LooksInside`, `Decides`,
    `SendsListing`, `SendsRange`, `SendsFile`, `Refuses`), and each part is shown to survive these.

Only model-checked: `AttemptsEnd`, `StopEnds` and `SlotsReturned`, which are liveness under
fairness. The six runs that end in a counterexample are TLC's
by nature.

## 5. What is not modelled

Text in and text out: characters and line numbers of the configuration, the conversion of
numbers, sizes, rates and addresses, all template variables but `$uri`, `map`, log and
metrics formats, HTTP dates, MIME types, the HTML of a listing. What rustls, hyper, quinn,
the regex engine and the kernel do, other than as the code uses them (marked external in
`PROJECT.json`). TLS material, of which `Supervisor` models the generation a connection
sees and `Lowering` whether it loads. The memory of dynamic targets, which nothing bounds;
the quality of load balancing. Symbolic links and writes in place: a reader of a file
that is being overwritten may see parts of two versions, whatever this code does.

## 6. Plan

Done: the inventory, the modules above with their runs, and proofs of every safety
invariant and action property that a passing run checks. In order of what it would show,
next are

1. an abstract specification of a reload (a configuration replaces another at once, less
   what could not be bound) with `Supervisor` shown to implement it, and one of the cache
   as a partial map that may forget, with `Cache` shown to implement it;
2. that the tag of a copy is never newer than its bytes, as a property of its own;
3. weighted round robin over a full turn and at the wrap of the counter, CIDR masks, and
   size and duration units against reference definitions;
4. the buckets of limit_req composed into `Pipeline`, whose limit_req gate now decides
   nondeterministically (`Limits` composes the two zones without the other gates).
