------------------------------ MODULE Lowering ------------------------------
(***************************************************************************)
(* From the expanded directives to the runtime: config::build, which       *)
(* checks contexts and arguments and fills the typed configuration, and    *)
(* the part of app::build that groups server blocks into listeners and     *)
(* sorts their locations.  Both are pure; what they refuse, the server     *)
(* refuses to start with or to reload.                                     *)
(*                                                                         *)
(* Words are opaque.  Malformed stands for any argument the parser of its  *)
(* directive does not accept: a size, duration, rate, status, flag, zone   *)
(* or address.                                                             *)
(***************************************************************************)
EXTENDS ConfigLoad

CONSTANTS
  Malformed,   \* an argument that does not parse
  BadFiles,    \* certificate, key and password files that do not load
  PathOf,      \* PathOf[w]: a location's path or template, as its pieces
  Regex,       \* Regex[<<m, w>>]: the paths pattern w matches; only valid patterns
  LowerCase,   \* LowerCase[w]: a server name in lower case
  StatusWords, \* the words of the form `=N`
  ZoneOf,      \* ZoneOf.zone[w]: NAME in `zone=NAME:SIZE` or `zone=NAME`; keys_zone
               \* likewise
  None         \* an option that is not set

ASSUME LoweringAssumption ==
  /\ None \notin Tokens
  /\ \A w \in Tokens : w \in DOMAIN PathOf /\ PathOf[w] \in Seq(ToSet(PathOf[w]))

-----------------------------------------------------------------------------
(***************************************************************************)
(* Which directives a context knows                                        *)
(***************************************************************************)

\* The arguments a directive insists on, by context.
Arity ==
  [main     |-> [worker_processes |-> 1, pid |-> 1, error_log |-> 1, user |-> 1,
                 worker_rlimit_nofile |-> 1, http |-> 0, stream |-> 0],
   http     |-> [access_log |-> 1, upstream |-> 1, server |-> 0, proxy_cache_path |-> 1,
                 limit_req_zone |-> 3, limit_conn_zone |-> 2, map |-> 2],
   upstream |-> [server |-> 1, least_conn |-> 0, ip_hash |-> 0, health_check |-> 0],
   server   |-> [listen |-> 1, server_name |-> 0, ssl_certificate |-> 1,
                 ssl_certificate_key |-> 1, ssl_protocols |-> 0, root |-> 1,
                 client_max_body_size |-> 1, gzip |-> 1, gzip_types |-> 0,
                 gzip_min_length |-> 1, add_header |-> 1, location |-> 1],
   location |-> [return |-> 1, proxy_pass |-> 1, root |-> 1, alias |-> 1, metrics |-> 0,
                 try_files |-> 2, proxy_set_header |-> 1, add_header |-> 1, expires |-> 1,
                 gzip |-> 1, autoindex |-> 1, auth_basic |-> 1, auth_basic_user_file |-> 1,
                 limit_req |-> 1, limit_conn |-> 2, allow |-> 1, deny |-> 1,
                 auth_request |-> 1, mirror |-> 1, proxy_cache |-> 1,
                 proxy_cache_key |-> 1, proxy_cache_valid |-> 1,
                 proxy_connect_timeout |-> 1, proxy_read_timeout |-> 1,
                 proxy_ssl_verify |-> 1, proxy_ssl_certificate |-> 1,
                 proxy_ssl_certificate_key |-> 1],
   stream   |-> [upstream |-> 1, server |-> 0],
   relay    |-> [listen |-> 1, proxy_pass |-> 1]]

\* Directives that are accepted and ignored.
Tolerated ==
  [main     |-> {"events", "include", "load_module", "daemon", "master_process",
                 "worker_shutdown_timeout"},
   http     |-> {"include", "error_log", "sendfile", "tcp_nopush", "tcp_nodelay",
                 "keepalive_timeout", "types_hash_max_size", "default_type", "gzip",
                 "server_tokens", "client_max_body_size", "log_format", "types",
                 "map_hash_bucket_size", "map_hash_max_size"},
   upstream |-> {"hash", "keepalive", "zone"},
   server   |-> {"include", "access_log", "error_log", "index", "error_page",
                 "ssl_ciphers", "ssl_prefer_server_ciphers", "ssl_session_cache",
                 "ssl_session_timeout", "ssl_session_tickets", "ssl_dhparam",
                 "ssl_ecdh_curve", "ssl_stapling", "gzip_disable", "gzip_comp_level",
                 "gzip_proxied", "gzip_vary", "gzip_buffers"},
   location |-> {"include", "index", "limit_req_status", "limit_conn_status",
                 "proxy_cache_bypass", "proxy_no_cache", "proxy_cache_lock",
                 "proxy_cache_use_stale", "proxy_cache_revalidate",
                 "proxy_cache_methods", "proxy_cache_min_uses",
                 "proxy_ssl_trusted_certificate", "proxy_ssl_server_name",
                 "proxy_ssl_session_reuse", "proxy_ssl_protocols", "proxy_ssl_ciphers",
                 "proxy_buffering", "proxy_send_timeout", "proxy_next_upstream",
                 "proxy_hide_header", "proxy_pass_header", "proxy_redirect"},
   stream   |-> {"include", "access_log", "error_log", "log_format", "proxy_timeout",
                 "proxy_connect_timeout", "tcp_nodelay", "resolver"},
   relay    |-> {"include", "proxy_timeout", "proxy_connect_timeout", "tcp_nodelay"}]

\* Directives whose arguments config::build converts.
Typed ==
  [main     |-> {"worker_rlimit_nofile"},
   http     |-> {"proxy_cache_path", "limit_req_zone", "limit_conn_zone", "map"},
   upstream |-> {"server", "health_check"},
   server   |-> {"listen", "ssl_protocols", "client_max_body_size", "gzip",
                 "gzip_min_length"},
   location |-> {"return", "expires", "gzip", "proxy_cache_valid", "autoindex",
                 "limit_req", "limit_conn", "proxy_connect_timeout",
                 "proxy_read_timeout", "proxy_ssl_verify", "try_files"},
   stream   |-> {},
   relay    |-> {"listen"}]

\* Directives that need a block.
Blocks ==
  [main |-> {"http", "stream"}, http |-> {"upstream", "server", "map"}, upstream |-> {},
   server |-> {"location"}, location |-> {}, stream |-> {"upstream", "server"}, relay |-> {}]

Known(c, d) ==
  \/ d.name \in Tolerated[c]
  \/ /\ d.name \in DOMAIN Arity[c]
     /\ Len(d.args) >= Arity[c][d.name]
     /\ d.name \in Typed[c] => ~Contains(d.args, Malformed)
     /\ d.name \in Blocks[c] => d.ends = "}"

AllKnown(c, dirs) == \A i \in DOMAIN dirs : Known(c, dirs[i])

-----------------------------------------------------------------------------
(***************************************************************************)
(* config::build: the typed configuration                                  *)
(***************************************************************************)

\* The elements of s at the positions I, in their order.
At(s, I) ==
  [k \in 1..Cardinality(I) |-> s[CHOOSE i \in I : Cardinality({j \in I : j <= i}) = k]]

Named(dirs, n) == At(dirs, {i \in DOMAIN dirs : dirs[i].name = n})
Has(dirs, n) == Named(dirs, n) # << >>

\* The arguments of all directives named n.
Given(dirs, n) == UNION {ToSet(Named(dirs, n)[i].args) : i \in DOMAIN Named(dirs, n)}

\* The first argument of the last directive named n, which overrides the others.
ArgOf(dirs, n) ==
  IF Has(dirs, n) /\ Last(Named(dirs, n)).args # << >>
  THEN Last(Named(dirs, n)).args[1]
  ELSE None

UpstreamOk(d) == AllKnown("upstream", d.block) /\ Has(d.block, "server")

ContentDirectives == {"return", "proxy_pass", "root", "alias", "metrics"}
ContentOf(dirs) == At(dirs, {i \in DOMAIN dirs : dirs[i].name \in ContentDirectives})
Modifiers == {"=", "~", "~*", "^~"}

\* The zone named by the last argument that starts with `key=`.
ZoneArg(key, args) ==
  LET i == SelectLastInSeq(args, LAMBDA w : w \in DOMAIN ZoneOf[key])
  IN  IF i = 0 THEN None ELSE ZoneOf[key][args[i]]

\* The zone a directive of the http block declares; the key comes before it.
ZoneDirectives == {"proxy_cache_path", "limit_req_zone", "limit_conn_zone"}
ZoneDeclared(d) ==
  IF d.name = "proxy_cache_path" THEN ZoneArg("keys_zone", d.args)
                                 ELSE ZoneArg("zone", Tail(d.args))

\* The zones a location uses: parse_limit_req insists on `zone=`, parse_limit_conn
\* takes the bare name too.
LimitReqZone(dirs) ==
  IF Has(dirs, "limit_req") THEN ZoneArg("zone", Last(Named(dirs, "limit_req")).args) ELSE None
LimitConnZone(dirs) ==
  LET w == ArgOf(dirs, "limit_conn")
  IN  IF w \in DOMAIN ZoneOf.zone THEN ZoneOf.zone[w] ELSE w

\* try_files: a status only as its last entry.
TryFilesOk(dirs) ==
  \A i \in DOMAIN Named(dirs, "try_files") :
    ToSet(Front(Named(dirs, "try_files")[i].args)) \cap StatusWords = {}

\* build_location's checks on one location of a server with the given root.
LocationOk(d, root) ==
  LET dirs == d.block
      content == ContentOf(dirs)
  IN  /\ AllKnown("location", dirs)
      /\ d.args[1] \in Modifiers => Len(d.args) >= 2
      /\ Len(content) <= 1
      /\ TryFilesOk(dirs)
      /\ \A x \in ToSet(Named(dirs, "limit_req")) : ZoneArg("zone", x.args) # None
      /\ Has(dirs, "try_files") /\ content # << >> => content[1].name = "root"
      /\ content = << >> => root # None
      /\ ArgOf(dirs, "auth_basic") \notin {None, "off"} => Has(dirs, "auth_basic_user_file")
      /\ Has(dirs, "proxy_ssl_certificate") <=> Has(dirs, "proxy_ssl_certificate_key")

Entries(words) ==
  [i \in DOMAIN words |->
     IF words[i] \in StatusWords THEN [status |-> TRUE, pieces |-> << >>]
     ELSE [status |-> FALSE, pieces |-> PathOf[words[i]]]]

\* The lowered location; a location without content serves the server's root.
Location(d, root) ==
  LET dirs == d.block
      content == IF ContentOf(dirs) # << >> THEN ContentOf(dirs)[1]
                 ELSE [name |-> "root", args |-> <<root>>]
      word == IF d.args[1] \in Modifiers THEN d.args[2] ELSE d.args[1]
  IN  [kind |-> CASE d.args[1] = "=" -> "exact"
                  [] d.args[1] \in {"~", "~*"} -> "regex"
                  [] OTHER -> "prefix",
       path |-> PathOf[word],
       pattern |-> <<d.args[1], word>>,
       act |-> IF Has(dirs, "try_files") THEN "try_files" ELSE content.name,
       arg |-> IF content.args = << >> THEN None ELSE content.args[1],
       entries |-> IF Has(dirs, "try_files") THEN Entries(Last(Named(dirs, "try_files")).args)
                   ELSE << >>,
       autoindex |-> ArgOf(dirs, "autoindex") = "on",
       auth |-> IF ArgOf(dirs, "auth_basic") \in {None, "off"} THEN None
                ELSE ArgOf(dirs, "auth_basic_user_file"),
       limitReq |-> LimitReqZone(dirs),
       limitConn |-> LimitConnZone(dirs),
       cache |-> ArgOf(dirs, "proxy_cache"),
       mtls |-> {ArgOf(dirs, "proxy_ssl_certificate"),
                 ArgOf(dirs, "proxy_ssl_certificate_key")},
       compiled |-> Given(dirs, "allow") \cup Given(dirs, "deny")
                      \cup Given(dirs, "add_header")
                      \cup IF content.name = "proxy_pass"
                           THEN Given(dirs, "proxy_set_header") ELSE {}]

Locations(dirs) == Named(dirs, "location")

\* build_server: `tls` and `http3` stick, the last listen gives the address.
ServerTls(dirs) == {"ssl", "http3", "quic"} \cap Given(dirs, "listen") # {}

ServerOk(d) ==
  LET dirs == d.block
  IN  /\ AllKnown("server", dirs)
      /\ Has(dirs, "listen")
      /\ ServerTls(dirs) => Has(dirs, "ssl_certificate") /\ Has(dirs, "ssl_certificate_key")
      /\ \A i \in DOMAIN Locations(dirs) : LocationOk(Locations(dirs)[i], ArgOf(dirs, "root"))

Server(d) ==
  LET dirs == d.block
  IN  [addr |-> ArgOf(dirs, "listen"),
       tls |-> ServerTls(dirs),
       http3 |-> {"http3", "quic"} \cap Given(dirs, "listen") # {},
       name |-> ArgOf(dirs, "server_name"),
       certs |-> {ArgOf(dirs, "ssl_certificate"), ArgOf(dirs, "ssl_certificate_key")},
       headers |-> Given(dirs, "add_header"),
       locs |-> [i \in DOMAIN Locations(dirs) |->
                   Location(Locations(dirs)[i], ArgOf(dirs, "root"))]]

\* build_stream_server.
RelayOk(d) ==
  /\ AllKnown("relay", d.block)
  /\ Has(d.block, "listen") /\ "ssl" \notin Given(d.block, "listen")
  /\ Has(d.block, "proxy_pass")

HttpOk(d) ==
  /\ AllKnown("http", d.block)
  /\ \A x \in ToSet(d.block) : x.name \in ZoneDirectives => ZoneDeclared(x) # None
  /\ \A x \in ToSet(Named(d.block, "upstream")) : UpstreamOk(x)
  /\ \A x \in ToSet(Named(d.block, "server")) : ServerOk(x)

StreamOk(d) ==
  /\ AllKnown("stream", d.block)
  /\ \A x \in ToSet(Named(d.block, "upstream")) : UpstreamOk(x)
  /\ \A x \in ToSet(Named(d.block, "server")) : RelayOk(x)

\* config::build accepts the directives.
ConfigOk(dirs) ==
  /\ AllKnown("main", dirs)
  /\ \A x \in ToSet(Named(dirs, "http")) : HttpOk(x)
  /\ \A x \in ToSet(Named(dirs, "stream")) : StreamOk(x)

\* Of several http or stream blocks the last one counts.
BlockOf(dirs, n) == IF Has(dirs, n) THEN Last(Named(dirs, n)).block ELSE << >>

Servers(dirs) ==
  LET blocks == Named(BlockOf(dirs, "http"), "server")
  IN  [i \in DOMAIN blocks |-> Server(blocks[i])]

Relays(dirs) ==
  LET blocks == Named(BlockOf(dirs, "stream"), "server")
  IN  [i \in DOMAIN blocks |->
         [addr |-> ArgOf(blocks[i].block, "listen"),
          udp |-> "udp" \in Given(blocks[i].block, "listen"),
          target |-> ArgOf(blocks[i].block, "proxy_pass")]]

\* The zones the http block declares with directive n.
Zones(dirs, n) == {ZoneDeclared(x) : x \in ToSet(Named(BlockOf(dirs, "http"), n))}

-----------------------------------------------------------------------------
(***************************************************************************)
(* app::build: listeners, virtual hosts and locations                      *)
(***************************************************************************)

\* What app::build looks up or compiles for a location.
LocationBuilds(l, dirs) ==
  /\ l.kind = "regex" => l.pattern \in DOMAIN Regex
  /\ l.act = "proxy_pass" => l.cache \in Zones(dirs, "proxy_cache_path") \cup {None}
  /\ l.limitReq \in Zones(dirs, "limit_req_zone") \cup {None}
  /\ l.limitConn \in Zones(dirs, "limit_conn_zone") \cup {None}
  /\ ({l.auth} \cup l.mtls) \cap BadFiles = {}
  /\ Malformed \notin l.compiled

\* The addresses in the order in which server blocks first name them.
Addresses(servers) ==
  LET first == {i \in DOMAIN servers : \A j \in 1..(i - 1) : servers[j].addr # servers[i].addr}
  IN  [k \in DOMAIN At(servers, first) |-> At(servers, first)[k].addr]

Group(servers, a) == At(servers, {i \in DOMAIN servers : servers[i].addr = a})

\* Mutant: the mode of a block is compared with the first block only when that
\* one is a TLS block.
MixedTlsFirst(group) ==
  \E i \in 2..Len(group) : group[1].tls /\ ~group[i].tls

\* A block whose mode differs from the blocks staged before it.
Mixed(group) ==
  \E i \in 2..Len(group) : (\A j \in 1..(i - 1) : ~group[j].tls) # ~group[i].tls

\* Mutant: shorter prefixes first.
SortsShorter(a, b) == Len(a.path) < Len(b.path)

\* The order of prefix locations: longer paths first.
SortsBefore(a, b) == Len(a.path) > Len(b.path)

\* The position of location i after sort_by, which is stable.
Rank(locs, i) ==
  Cardinality({j \in DOMAIN locs : \/ SortsBefore(locs[j], locs[i])
                                   \/ ~SortsBefore(locs[i], locs[j]) /\ j <= i})

Sorted(locs) ==
  [k \in DOMAIN locs |-> locs[CHOOSE i \in DOMAIN locs : Rank(locs, i) = k]]

OfKind(s, k) == At(s.locs, {i \in DOMAIN s.locs : s.locs[i].kind = k})

WantsH3(servers, a) == \E i \in DOMAIN servers : servers[i].http3 /\ servers[i].addr = a

\* One ServerState under its name.
VirtualHost(s, servers) ==
  [name |-> s.name, https |-> s.tls, h3 |-> WantsH3(servers, s.addr),
   exact |-> OfKind(s, "exact"), regex |-> OfKind(s, "regex"),
   prefix |-> Sorted(OfKind(s, "prefix"))]

Listener(servers, a) ==
  LET group == Group(servers, a)
      tls == \E i \in DOMAIN group : group[i].tls
  IN  [addr |-> a, vhosts |-> [i \in DOMAIN group |-> VirtualHost(group[i], servers)],
       tls |-> tls, h3 |-> tls /\ WantsH3(servers, a)]

\* app::build accepts the configuration; without an http block it does not, even
\* if there are relays.
RuntimeOk(dirs) ==
  LET servers == Servers(dirs)
  IN  /\ Has(dirs, "http")
      /\ \A i \in DOMAIN servers :
           /\ \A j \in DOMAIN servers[i].locs : LocationBuilds(servers[i].locs[j], dirs)
           /\ servers[i].locs # << >> => Malformed \notin servers[i].headers
           /\ servers[i].tls => servers[i].certs \cap BadFiles = {}
           /\ ~Mixed(Group(servers, servers[i].addr))
      /\ servers # << >> \/ Relays(dirs) # << >>

Runtime(dirs) ==
  LET servers == Servers(dirs)
      order == Addresses(servers)
  IN  [listeners |-> [i \in DOMAIN order |-> Listener(servers, order[i])],
       relays |-> Relays(dirs)]

-----------------------------------------------------------------------------
(***************************************************************************)
(* Routing a request                                                       *)
(***************************************************************************)

\* pick_state: the host without its port, in lower case; the first vhost that
\* has the name, or the first of all.  A host is a sequence: name, colon, port.
PickState(listener, host) ==
  LET named == SelectInSeq(listener.vhosts,
                 LAMBDA v : /\ host # None
                            /\ v.name # None
                            /\ LowerCase[v.name] = LowerCase[host[1]])
  IN  listener.vhosts[IF named = 0 THEN 1 ELSE named]

\* ServerState::route: exact, then regex, then prefix.
Route(vhost, path) ==
  LET exact  == SelectInSeq(vhost.exact, LAMBDA l : l.path = path)
      regex  == SelectInSeq(vhost.regex, LAMBDA l : path \in Regex[l.pattern])
      prefix == SelectInSeq(vhost.prefix,
                            LAMBDA l : l.path = <<"/">> \/ IsPrefix(l.path, path))
  IN  CASE exact # 0  -> vhost.exact[exact]
        [] exact = 0 /\ regex # 0 -> vhost.regex[regex]
        [] exact = 0 /\ regex = 0 /\ prefix # 0 -> vhost.prefix[prefix]
        [] OTHER -> None
=============================================================================
