------------------------------- MODULE MCSite -------------------------------
(* A small site for TLC: configurations, a file tree and requests. *)
EXTENDS Site, IncludeReference

CONSTANT Quote

Line(words) == Append(words, ";")
Block(words, body) == words \o <<"{">> \o body \o <<"}">>
Listed(lines) == FlattenSeq(lines)
Http(body) == Block(<<"http">>, body)
Serve80(body) == Block(<<"server">>, Line(<<"listen", "80">>) \o body)
Tls(body) == Block(<<"server">>, Listed(<<
  Line(<<"listen", "443", "ssl">>), Line(<<"ssl_certificate", "crt">>),
  Line(<<"ssl_certificate_key", "key">>), body>>))
Ret(path) == Block(<<"location", path>>, Line(<<"return", "204">>))

\* The main file's contents.
Site1 ==
  Listed(<<
    Line(<<"user", "www">>),
    Http(Listed(<<
      Line(<<"include", "zones">>),
      Block(<<"server">>, Listed(<<
        Line(<<"include", "locs">>), Line(<<"root", "/srv">>), Line(<<"listen", "80">>)>>)),
      Serve80(Listed(<<
        Line(<<"server_name", "B">>),
        Block(<<"location", "/">>, Listed(<<
          Line(<<"root", "/srv">>), Line(<<"try_files", "$uri", "=404">>)>>)),
        Block(<<"location", "/al/">>, Line(<<"alias", "/srv">>))>>))>>))>>)

StreamOnly ==
  Block(<<"stream">>, Block(<<"server">>, Listed(<<
    Line(<<"listen", "53", "udp">>), Line(<<"proxy_pass", "ns">>)>>)))

\* Two TLS hosts of one address, one with HTTP/3, and stream relays.
Site2 ==
  Listed(<<
    Http(Listed(<<
      Line(<<"include", "zones">>),
      Tls(Listed(<<Line(<<"include", "locs">>), Line(<<"root", "/srv">>)>>)),
      Tls(Listed(<<Line(<<"listen", "443", "quic">>), Line(<<"include", "locs">>),
                   Line(<<"root", "/srv">>)>>))>>)),
    StreamOnly>>)

TlsThenPlain == Http(Tls(Ret("/")) \o Block(<<"server">>, Line(<<"listen", "443">>) \o Ret("/")))
PlainThenTls == Http(Block(<<"server">>, Line(<<"listen", "443">>) \o Ret("/")) \o Tls(Ret("/")))
StatusFirst ==
  Http(Serve80(Line(<<"root", "/srv">>)
    \o Block(<<"location", "/">>, Line(<<"try_files", "=404", "$uri">>))))
NoRoot == Http(Serve80(Block(<<"location", "/">>, Line(<<"try_files", "$uri", "=404">>))))
\* The key of a zone is not its name; a zone needs a name; and so does its use.
NoZone == Http(Line(<<"limit_req_zone", "z", "zone=y:1m", "5r/s">>)
  \o Serve80(Block(<<"location", "/">>, Line(<<"limit_req", "zone=z">>) \o Line(<<"return", "204">>))))
Unnamed == Http(Line(<<"proxy_cache_path", "/c", "zone=y:1m">>) \o Serve80(Ret("/")))
BareZone == Http(Line(<<"limit_req_zone", "$ip", "zone=z:1m", "5r/s">>)
  \o Serve80(Block(<<"location", "/">>, Line(<<"limit_req", "z">>) \o Line(<<"return", "204">>))))
BadListen == Http(Block(<<"server">>, Line(<<"listen", Malformed>>) \o Ret("/")))
BadKey == Http(Tls(Line(<<"ssl_certificate_key", "lost">>) \o Ret("/")))

\* The TLS of the first listen stays with the address of the second.
StickyTls == Http(Tls(Line(<<"listen", "8080">>) \o Ret("/")))
Unclosed == <<"http", "{", "server", "{", "}">>
CutShort == <<"http", "{", "server", "}">>

\* What follows the name of an included file is passed over.
Wordy == Http(Listed(<<
  Line(<<"include", "zones", "main">>), Block(<<"include", "zones">>, Line(<<"include", "main">>)),
  Serve80(Ret("/"))>>))
Nameless == Http(Block(<<"include">>, Line(<<"include", "zones">>)))

\* Zones and upstreams; a locations file.
Zones1 == Line(<<"limit_req_zone", "$ip", "zone=z:1m", "5r/s">>)
            \o Line(<<"limit_conn_zone", "$ip", "zone=c:1m">>)
            \o Line(<<"proxy_cache_path", "/c", "keys_zone=k:1m">>)
            \o Block(<<"upstream", "app">>, Line(<<"server", "10.0.0.1">>))
Locs1 ==
  Listed(<<
    Block(<<"location", "/">>, Line(<<"try_files", "$uri", "$uri/", "/index.html">>)),
    Block(<<"location", "/d">>, Line(<<"autoindex", "on">>)),
    Block(<<"location", "/d/b">>, Line(<<"autoindex", "on">>)),
    Block(<<"location", "^~", "/d/b">>, Line(<<"limit_req", "zone=z">>) \o Line(<<"limit_conn", "c", "2">>)),
    Block(<<"location", "~", "r">>, Line(<<"proxy_pass", "app">>) \o Line(<<"proxy_cache", "k">>)),
    Block(<<"location", "=", "/a">>, << >>)>>)

MCFiles == {"main", "zones", "locs"}
MCText ==
  [main  |-> <<Site1, Site2, TlsThenPlain, PlainThenTls, StatusFirst, Unclosed, CutShort,
             NoRoot, NoZone, BadListen, BadKey, StickyTls,
             StreamOnly, Wordy, Nameless, Unnamed, BareZone>>,
   zones |-> <<Zones1, Line(<<"include">>), <<Quote>>, Line(<<"include", "main">>)>>,
   locs  |-> <<Locs1, Locs1 \o Line(<<"include", "locs">>), Line(<<"index", "x">>)>>]

Disk(m, z, l) == [main |-> m, zones |-> z, locs |-> l]
MCDisks ==
  {Disk(1, 1, 1), Disk(2, 1, 1), Disk(1, 2, 1), Disk(1, 3, 1), Disk(1, 4, 1), Disk(1, 1, 2),
   Disk(1, 0, 1)} \cup {Disk(m, 1, 1) : m \in 3..17}

MCPathOf ==
  [w \in UNION {UNION {ToSet(MCText[f][i]) : i \in DOMAIN MCText[f]} : f \in MCFiles} |->
     CASE w = "/" -> <<"/">> [] w = "/d" -> <<"/", "d">> [] w = "/d/b" -> <<"/", "d", "/", "b">>
       [] w = "/a" -> <<"/", "a">> [] w = "/al/" -> <<"/", "a", "l", "/">>
       [] w = "$uri" -> <<"$uri">> [] w = "$uri/" -> <<"$uri", "/">>
       [] w = "/index.html" -> <<"/", "index.html">> [] OTHER -> <<w>>]
MCZoneOf ==
  [zone |-> [w \in {"zone=z:1m", "zone=z", "zone=y:1m", "zone=c:1m"} |->
               IF w \in {"zone=z:1m", "zone=z"} THEN "z" ELSE IF w = "zone=c:1m" THEN "c" ELSE "y"],
   keys_zone |-> [w \in {"keys_zone=k:1m"} |-> "k"]]
MCRegex == [p \in {<<"~", "r">>} |-> {<<"/", "r">>, <<"/", "d", "/", "r">>}]
MCLowerCase == [w \in {"B", "b", "other"} |-> IF w = "B" THEN "b" ELSE w]

Node(kind, size, mtime, ver) == [kind |-> kind, size |-> size, mtime |-> mtime, ver |-> ver]
Srv(rel) == <<"/srv", rel>>
MCTree ==
  [n \in {Srv(p) : p \in {<< >>, <<"a">>, <<"index.html">>, <<"z">>, <<"d">>, <<"d", "/", "b">>,
                          <<"d", "/", "e">>, <<"d", "/", "e", "/", "index.html">>, <<"l">>}} |->
     CASE n = Srv(<<"a">>) -> Node("file", 3, 0, 1)
       [] n = Srv(<<"index.html">>) -> Node("file", 1, 0, 2)
       [] n = Srv(<<"z">>) -> Node("absent", 0, NoTime, 0)
       [] n = Srv(<<"l">>) -> Node("locked", 1, NoTime, 0)
       [] n = Srv(<<"d", "/", "b">>) -> Node("blind", 0, 0, 0)
       [] n = Srv(<<"d", "/", "e", "/", "index.html">>) -> Node("denied", 0, NoTime, 0)
       [] OTHER -> Node("dir", 0, 0, 0)]
MCMutable == {Srv(<<"a">>), Srv(<<"index.html">>), Srv(<<"z">>)}

NoRange == [unit |-> "none", from |-> Open, to |-> Open]
Bytes(from, to) == [unit |-> "bytes", from |-> from, to |-> to]
Unit(u) == [unit |-> u, from |-> Open, to |-> Open]
Req(host, path, method, cond, range) ==
  [at |-> <<"80", host>>, path |-> path, method |-> method, cond |-> cond, range |-> range]
Get(host, path) == Req(host, path, "GET", "none", NoRange)

MCRequests ==
  {Get(None, p) : p \in {<<"/">>, <<"/", "a">>, <<"/", "z">>, <<"/", "d">>, <<"/", "d", "/", "b">>,
                         <<"/", "d", "/", "e">>, <<"/", "l">>, <<"/", "l", "/">>, <<"/", "r">>,
                         <<"/", "..", "/", "a">>}}
  \cup {Get(<<"b", ":", "80">>, p) : p \in {<<"/", "z">>, <<"/", "a", "l", "/", "a">>,
                         <<"/", "a", "l", "/", "..">>, <<"/", "a", "l", "/">>}}
  \cup {Req(None, p, "GET", "own", NoRange) : p \in {<<"/", "a">>, <<"/", "z">>}}
  \cup {Req(<<"other">>, <<"/", "a">>, "HEAD", c, NoRange) : c \in {"any", "none"}}
  \cup {Req(None, <<"/", "a">>, "GET", "none", rg) :
          rg \in {Bytes(0, 0), Bytes(0, 1), Bytes(1, 9), Bytes(2, Open), Bytes(Open, 2),
                  Bytes(Open, 0), Bytes(2, 1), Unit("multi"), Unit("junk"), Unit("other"), Unit("bytes")}}
  \cup {Req(None, <<"/", "a">>, "HEAD", "none", Bytes(0, 1))}
  \cup {[Get(None, <<"/", "d", "/", "b">>) EXCEPT !.at = <<"443", None>>]}
=============================================================================
