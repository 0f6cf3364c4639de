-------------------------------- MODULE Site --------------------------------
(***************************************************************************)
(* A server from its configuration files to its static answers: load and   *)
(* expand the files (ConfigLoad), lower them and build the runtime         *)
(* (Lowering), then route requests to locations that serve files           *)
(* (StaticFiles).  What happens to a request before its location's action  *)
(* is Pipeline.tla, what a reload does with a new runtime Supervisor.tla.  *)
(***************************************************************************)
EXTENDS Lowering, StaticFiles

CONSTANTS
  Requests   \* the requests a client may make

ASSUME SiteAssumption ==
  \A r \in Requests : DOMAIN r = DOMAIN NoRequest /\ {r.range.from, r.range.to} \subseteq Nat \cup {Open}

VARIABLES
  runtime    \* the Runtime being served, None before there is one

siteVars == <<loadVars, fsVars, reqVars, runtime>>

SiteInit == LoadInit /\ StaticInit /\ runtime = None

-----------------------------------------------------------------------------
LoadStep ==
  /\ StartLoad \/ ExpandInclude \/ ExpandDirective \/ Return \/ \E f \in Files : EditConfig(f)
  /\ UNCHANGED <<fsVars, reqVars, runtime>>

\* config::build on the expanded directives, then app::build.
Accept ==
  /\ phase = "loaded"
  /\ \/ /\ ConfigOk(tree) /\ RuntimeOk(tree)
        /\ phase' = "built"
        /\ runtime' = Runtime(tree)
     \/ /\ ~(ConfigOk(tree) /\ RuntimeOk(tree))
        /\ phase' = "refused"
        /\ UNCHANGED runtime
  /\ UNCHANGED <<disk, calls, visited, tree, touched, fsVars, reqVars>>

\* The supervisor starts the listeners; the files are not looked at again.
Listen ==
  /\ phase = "built"
  /\ phase' = "serving"
  /\ disk' = [f \in Files |-> 0]
  /\ tree' = << >>
  /\ visited' = {}
  /\ touched' = 0
  /\ UNCHANGED <<calls, runtime, fsVars, reqVars>>

\* What a location's action passes to serve or try_files.
PlaceOf(l) ==
  [dir |-> l.arg, prefix |-> IF l.act = "alias" THEN l.path ELSE << >>,
   entries |-> l.entries, autoindex |-> l.autoindex]

\* A request is routed; the client names only tags it has for this resource.
Arrive(r) ==
  /\ phase = "serving"
  /\ pc = "idle"
  /\ asked < MaxRequests
  /\ r.cond = "own" => copy.at = r.at /\ copy.path = r.path /\ copy.tag # NoTime
  /\ asked' = asked + 1
  /\ \E i \in DOMAIN runtime.listeners :
       /\ runtime.listeners[i].addr = r.at[1]
       /\ LET l == Route(PickState(runtime.listeners[i], r.at[2]), r.path)
          IN  \/ /\ l # None /\ l.act \in {"root", "alias", "try_files"}
                 /\ Begin(r, PlaceOf(l))
              \/ /\ l # None /\ l.act \notin {"root", "alias", "try_files"}
                 /\ Respond(r, Plain(Configured, 0))
                 /\ req' = r /\ place' = NoPlace /\ entry' = 0
                 /\ UNCHANGED fsVars
              \/ /\ l = None
                 /\ Respond(r, Plain(404, 0))
                 /\ req' = r /\ place' = NoPlace /\ entry' = 0
                 /\ UNCHANGED fsVars
  /\ UNCHANGED <<loadVars, runtime>>

ServeNext ==
  /\ ServeStep
  /\ UNCHANGED <<loadVars, runtime>>

WorldNext ==
  /\ phase = "serving"
  /\ World
  /\ UNCHANGED <<loadVars, runtime>>

SiteNext ==
  \/ LoadStep \/ Accept \/ Listen
  \/ \E r \in Requests : Arrive(r)
  \/ ServeNext \/ WorldNext

SiteSpec == SiteInit /\ [][SiteNext]_siteVars

-----------------------------------------------------------------------------
(***************************************************************************)
(* Properties                                                              *)
(***************************************************************************)

\* The types: the loader reads only files that exist in name, the try_files
\* loop stays within its entries, and only statuses of static_files.rs are sent.
SiteTypeOK ==
  /\ \A f \in Files : disk[f] \in 0..Len(Text[f])
  /\ phase \in {"start", "loading", "failed", "loaded", "refused", "built", "serving"}
  /\ visited \subseteq Files
  /\ touched \in 0..MaxConfigEdits
  /\ \A n \in DOMAIN fsys : fsys[n].kind \in NodeKinds /\ fsys[n].size \in Nat
  /\ clock \in 1..MaxClock /\ edits \in 0..MaxEdits /\ asked \in 0..MaxRequests
  /\ steady \subseteq DOMAIN fsys
  /\ pc \in {"idle", "probe", "stat", "index", "list", "read_range", "read"}
  /\ entry \in 0..Len(place.entries)
  /\ answer.status \in {0, 200, 206, 304, 403, 404, 416, 500, Configured}

\* expand_includes never descends deeper than there are files, even when the
\* files change under it so that a cycle appears after it was entered
\* (config/mod.rs 71-88): the recursion ends and the stack does not overflow.
IncludesBounded ==
  Cardinality({i \in DOMAIN calls : calls[i].kind = "file"}) <= Cardinality(Files)

AllLocations(v) == ToSet(v.exact) \cup ToSet(v.regex) \cup ToSet(v.prefix)

\* A configuration that is accepted has what the serving code takes for granted:
\* pick_state indexes a first virtual host (app.rs 69), every block of an address
\* speaks the mode of its socket (app.rs 832-842), HTTP/3 is advertised only where
\* an endpoint is started (app.rs 787-791, 876-878), no two HTTP listeners have one
\* address, and try_files ends in its only status (static_files.rs 366-378).
AcceptedIsServable ==
  phase = "built" =>
    /\ runtime.listeners # << >> \/ runtime.relays # << >>
    /\ \A i, j \in DOMAIN runtime.listeners :
         runtime.listeners[i].addr = runtime.listeners[j].addr => i = j
    /\ \A i \in DOMAIN runtime.listeners :
         LET here == runtime.listeners[i]
         IN  /\ here.vhosts # << >>
             /\ \A v \in ToSet(here.vhosts) :
                  /\ v.https = here.tls
                  /\ v.h3 => here.h3
                  /\ \A l \in AllLocations(v) :
                       /\ l.act \in {"root", "alias", "try_files"} => l.arg # None
                       /\ l.act = "try_files" =>
                            /\ l.entries # << >>
                            /\ \A k \in 1..(Len(l.entries) - 1) : ~l.entries[k].status

\* The server block that should answer at an address for a host: of the blocks in
\* the order of the file, the first of that name, or the first of the address.
ServerFor(servers, at) ==
  LET here  == {i \in DOMAIN servers : servers[i].addr = at[1]}
      named == {i \in here : /\ at[2] # None /\ servers[i].name # None
                             /\ LowerCase[servers[i].name] = LowerCase[at[2][1]]}
      of    == IF named = {} THEN here ELSE named
  IN  servers[CHOOSE i \in of : \A j \in of : i <= j]

Applies(l, path) ==
  \/ l.kind = "exact"  /\ l.path = path
  \/ l.kind = "regex"  /\ path \in Regex[l.pattern]
  \/ l.kind = "prefix" /\ (l.path = <<"/">> \/ IsPrefix(l.path, path))

\* Location i takes a path before location j of the same block.
Precedes(locs, i, j) ==
  LET class(k) == CASE locs[k].kind = "exact" -> 1 [] locs[k].kind = "regex" -> 2
                    [] OTHER -> 3
  IN  \/ class(i) < class(j)
      \/ /\ class(i) = class(j)
         /\ class(i) = 3 => Len(locs[i].path) >= Len(locs[j].path)
         /\ i <= j \/ (class(i) = 3 /\ Len(locs[i].path) > Len(locs[j].path))

\* Grouping, sorting and searching keep what the file says (app.rs 58-70, 98-123,
\* 746-764, 817-847): whatever the order of blocks and locations, a request gets
\* the first block of its name and in it the exact match, else the first regex in
\* the file, else the longest prefix, the earlier one of equal length.
RouteRight ==
  phase = "built" =>
    \A r \in Requests : \A n \in DOMAIN runtime.listeners :
      runtime.listeners[n].addr = r.at[1] =>
        LET locs == ServerFor(Servers(tree), r.at).locs
            fits == {i \in DOMAIN locs : Applies(locs[i], r.path)}
            got  == Route(PickState(runtime.listeners[n], r.at[2]), r.path)
        IN  IF fits = {} THEN got = None
            ELSE got = locs[CHOOSE i \in fits : \A j \in fits : Precedes(locs, i, j)]

\* The bytes of a file of that size a range asks for.
Wanted(rg, size) ==
  {b \in 0..(size - 1) :
     /\ rg.unit = "bytes"
     /\ \/ rg.from = Open /\ rg.to # Open /\ b + rg.to >= size
        \/ rg.from # Open /\ rg.to = Open /\ rg.from <= b
        \/ rg.from # Open /\ rg.to # Open /\ rg.from <= b /\ b <= rg.to}

\* A 206 carries exactly the bytes asked for of the file it announces, as many as
\* its Content-Length says even when the file shrinks between stat and read, and
\* a range of a file is neither ignored nor refused while some byte can satisfy it
\* (static_files.rs 101-148, 293-305, 319-353).
RangeExact ==
  /\ answer.status = 206 =>
       /\ answer.from..answer.to = Wanted(req.range, answer.size)
       /\ answer.from <= answer.to
       /\ req.method = "GET" => answer.len = answer.to - answer.from + 1
  /\ answer.status = 416 =>
       ByteRange(req.range) /\ Wanted(req.range, answer.size) = {}
  /\ answer.status = 200 => ~ByteRange(req.range) \/ answer.ver = 0

\* Two versions, of whatever files, that no tag can tell apart.
SameTag ==
  \E x, y \in stamps : x.ver # y.ver /\ x.size = y.size /\ x.mtime = y.mtime

\* A client told that its copy is still good has what the file was when it was
\* looked at, although the tag of its copy may stem from another version than the
\* bytes did (static_files.rs 50, 88-99, 154).  The one way out is the resolution
\* of the tag: two versions of one size in one second.
RevalidationSound ==
  answer.status = 304 /\ req.cond = "own" => copy.ver = answer.ver \/ SameTag

\* The file a try_files entry of the request names, if it names one.
Candidate(j) ==
  LET rel == TrimStart(Render(place.entries[j].pieces, req.path))
  IN  IF place.entries[j].status \/ Unsafe(rel) \/ Target(place.dir, rel).slash
      THEN << >> ELSE Target(place.dir, rel).name

\* try_files with files coming and going (static_files.rs 359-424): no entry is
\* passed over that was a file all the time, and a 404 is never about one.
TryFilesHonest ==
  answer.status # 0 /\ pc = "idle" /\ place.entries # << >> =>
    /\ \A j \in DOMAIN place.entries : Candidate(j) \in steady => answer.entry <= j
    /\ answer.status = 404 => Candidate(answer.entry) \notin steady
=============================================================================
