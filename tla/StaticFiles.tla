----------------------------- MODULE StaticFiles -----------------------------
(***************************************************************************)
(* static_files::serve and try_files: one request after another, each a    *)
(* sequence of file-system calls, while somebody else writes and removes   *)
(* files.  Requests share nothing but the file system, so one client that  *)
(* asks again is enough to meet every interleaving with the edits.         *)
(*                                                                         *)
(* A path is a sequence of pieces: slashes, names and parts of names.  A   *)
(* file is known by the directory of its location and the path below it.   *)
(* A write puts a whole new version in place (write and rename).           *)
(***************************************************************************)
EXTENDS Naturals, Sequences, FiniteSets, SequencesExt

CONSTANTS
  Tree0,        \* Tree0[n]: the file system at the start
  Mutable,      \* files that are written and removed
  NewSizes,     \* sizes of the versions that are written
  NoTime,       \* the modification time, and so the ETag, of a file without one
  Open,         \* an end of a range that is left out
  MaxEdits,     \* bound on the edits
  MaxRequests,  \* bound on the requests
  MaxClock      \* bound on the clock, in seconds

\* A locked file can be stat'ed but not opened, a blind directory entered but
\* not listed; a denied node cannot even be stat'ed.
NodeKinds == {"absent", "file", "locked", "dir", "blind", "denied"}

IsFile(m) == m.kind \in {"file", "locked"}
IsDir(m) == m.kind \in {"dir", "blind"}

\* Size, mtime and version; the versions there are at the start.
Stamp(m) == [size |-> m.size, mtime |-> m.mtime, ver |-> m.ver]
Stamps0 == {Stamp(Tree0[n]) : n \in {m \in DOMAIN Tree0 : Tree0[m].mtime # NoTime}}

\* The names that are, or may become, files.
FileNames == Mutable \cup {n \in DOMAIN Tree0 : IsFile(Tree0[n])}

\* Name n goes on after file m.
Under(n, m) == m[1] = n[1] /\ IsStrictPrefix(Append(m[2], "/"), n[2])

\* No file lies below another, and versions are labels that tell contents apart.
ASSUME StaticFilesAssumption ==
  /\ IsFiniteSet(DOMAIN Tree0)
  /\ \A n \in DOMAIN Tree0 : /\ n # << >>
                             /\ Tree0[n].kind \in NodeKinds
                             /\ Tree0[n].size \in Nat /\ Tree0[n].ver \in Nat
                             /\ Tree0[n].mtime # NoTime => Tree0[n].ver <= Cardinality(Stamps0)
  /\ Mutable \subseteq DOMAIN Tree0
  /\ \A m, n \in FileNames : ~Under(n, m)
  /\ \A m \in Mutable, n \in DOMAIN Tree0 :
       (m # n /\ Tree0[m].mtime # NoTime /\ Tree0[n].mtime # NoTime) => Tree0[m].ver # Tree0[n].ver
  /\ NewSizes \subseteq Nat
  /\ Open \notin Nat
  /\ MaxEdits \in Nat /\ MaxRequests \in Nat /\ MaxClock \in Nat \ {0}

VARIABLES
  fsys,    \* fsys[n]: kind, size, mtime in seconds, and version of n
  clock,   \* the wall clock in seconds
  edits,   \* how many edits there were
  stamps,  \* history: size, mtime and version of every version there was
  steady,  \* history: the names that were files ever since the request began
  pc,      \* where the request is, "idle" between requests
  asked,   \* how many requests there were
  req,     \* the request
  place,   \* the location's directory, prefix, entries and autoindex
  entry,   \* the try_files entry in hand, 0 outside try_files
  target,  \* full_path: a name, and whether a slash follows it
  meta,    \* the metadata the request goes on with
  answer,  \* the response
  copy     \* the client's copy of the last file it got

fsVars == <<fsys, clock, edits, stamps, steady>>
reqVars == <<pc, asked, req, place, entry, target, meta, answer, copy>>

Absent == [kind |-> "absent", size |-> 0, mtime |-> NoTime, ver |-> 0]
NoPlace == [dir |-> NoTime, prefix |-> << >>, entries |-> << >>, autoindex |-> FALSE]
NoTarget == [name |-> << >>, slash |-> FALSE]
NoRequest == [at |-> << >>, path |-> << >>, method |-> "GET", cond |-> "none",
              range |-> [unit |-> "none", from |-> Open, to |-> Open]]
NoCopy == [at |-> << >>, path |-> << >>, tag |-> NoTime, ver |-> 0]

\* The status of `=N`, which is whatever the configuration says.
Configured == 599

\* A response without a file's bytes; status 0 is no response yet.
Plain(status, e) ==
  [status |-> status, entry |-> e, tag |-> NoTime, ver |-> 0, from |-> 0, to |-> 0,
   size |-> 0, len |-> 0]

StaticInit ==
  /\ fsys = Tree0
  /\ clock = 1
  /\ edits = 0
  /\ stamps = Stamps0
  /\ steady = {}
  /\ pc = "idle"
  /\ asked = 0
  /\ req = NoRequest
  /\ place = NoPlace
  /\ entry = 0
  /\ target = NoTarget
  /\ meta = Absent
  /\ answer = Plain(0, 0)
  /\ copy = NoCopy

-----------------------------------------------------------------------------
(***************************************************************************)
(* Paths and metadata                                                      *)
(***************************************************************************)

\* trim_start_matches('/')
TrimStart(path) ==
  LET k == SelectInSeq(path, LAMBDA x : x # "/")
  IN  IF k = 0 THEN << >> ELSE SubSeq(path, k, Len(path))

TrimEnd(path) == SubSeq(path, 1, SelectLastInSeq(path, LAMBDA x : x # "/"))

\* The path below the location's directory; an alias strips the location's path.
Relative(path, prefix) ==
  TrimStart(IF prefix # << >> /\ IsPrefix(prefix, path)
            THEN SubSeq(path, Len(prefix) + 1, Len(path)) ELSE path)

\* A component that is neither a name nor `.`.
Unsafe(rel) == Contains(rel, "..")

\* root.join(rel); joining the empty path leaves a slash too.
Target(dir, rel) ==
  [name |-> <<dir, TrimEnd(rel)>>, slash |-> rel = << >> \/ Last(rel) = "/"]

\* A template entry for this request; $uri is the path.
Render(pieces, path) ==
  FlattenSeq([i \in DOMAIN pieces |-> IF pieces[i] = "$uri" THEN path ELSE <<pieces[i]>>])

BelowFile(n) == \E m \in DOMAIN fsys : IsFile(fsys[m]) /\ Under(n, m)

\* fs::metadata; a path that goes on after a file is an error of its own.
Metadata(t) ==
  LET node == IF t.name \in DOMAIN fsys THEN fsys[t.name] ELSE Absent
  IN  IF BelowFile(t.name) \/ (t.slash /\ IsFile(node))
      THEN [Absent EXCEPT !.kind = "denied"]
      ELSE node

IndexOf(t) ==
  [name |-> <<t.name[1], IF t.name[2] = << >> THEN <<"index.html">>
                         ELSE t.name[2] \o <<"/", "index.html">>>>,
   slash |-> FALSE]

\* Mutant: the tag leaves the time of the change out.
ETagOfSize(m) == IF m.mtime = NoTime THEN NoTime ELSE <<m.size>>

ETag(m) == IF m.mtime = NoTime THEN NoTime ELSE <<m.size, m.mtime>>

\* If-None-Match lists the tag, or is `*`.
Revalidates(tag) ==
  /\ tag # NoTime
  /\ req.cond = "any" \/ (req.cond = "own" /\ copy.tag = tag)

-----------------------------------------------------------------------------
(***************************************************************************)
(* Ranges                                                                  *)
(***************************************************************************)
Smaller(a, b) == IF a < b THEN a ELSE b

\* parse_single_range: first and last byte, or nothing.  A list of ranges has
\* unit "multi", one that does not parse "junk", any other unit "other".
ParseRange(rg, size) ==
  CASE rg.unit # "bytes" \/ size = 0 \/ {rg.from, rg.to} = {Open} -> << >>
    [] rg.unit = "bytes" /\ size > 0 /\ rg.from = Open /\ rg.to # Open ->
         IF rg.to = 0 THEN << >> ELSE <<size - Smaller(rg.to, size), size - 1>>
    [] rg.unit = "bytes" /\ size > 0 /\ rg.from # Open /\ rg.to = Open ->
         IF rg.from >= size THEN << >> ELSE <<rg.from, size - 1>>
    [] OTHER -> IF rg.from > rg.to \/ rg.from >= size THEN << >>
                ELSE <<rg.from, Smaller(rg.to, size - 1)>>

ByteRange(rg) == rg.unit \in {"bytes", "multi", "junk"}

-----------------------------------------------------------------------------
(***************************************************************************)
(* The request                                                             *)
(***************************************************************************)

\* The response goes out; a client that got a whole file with a tag keeps both.
Respond(r, a) ==
  /\ answer' = a
  /\ pc' = "idle"
  /\ copy' = IF a.status = 200 /\ r.method = "GET" /\ a.tag # NoTime
             THEN [at |-> r.at, path |-> r.path, tag |-> a.tag, ver |-> a.ver]
             ELSE copy
  /\ target' = NoTarget
  /\ meta' = Absent

\* serve as far as its first await.
EnterServe(r, dir, path, prefix, e) ==
  LET rel == Relative(path, prefix)
  IN  IF Unsafe(rel) THEN Respond(r, Plain(403, e))
      ELSE /\ pc' = "stat"
           /\ target' = Target(dir, rel)
           /\ answer' = Plain(0, 0)
           /\ UNCHANGED <<meta, copy>>

\* A request reaches a location that serves files.  It can only name a tag the
\* client has for this very resource.
Begin(r, p) ==
  /\ req' = r
  /\ place' = p
  /\ steady' = {n \in DOMAIN fsys : IsFile(fsys[n])}
  /\ \/ /\ p.entries = << >>
        /\ entry' = 0
        /\ EnterServe(r, p.dir, r.path, p.prefix, 0)
     \/ /\ p.entries # << >>
        /\ entry' = 1
        /\ pc' = "probe"
        /\ answer' = Plain(0, 0)
        /\ UNCHANGED <<target, meta, copy>>
  /\ UNCHANGED <<fsys, clock, edits, stamps>>

\* Mutant: the loop variable moves twice.
NextEntrySkips ==
  /\ entry' = entry + 2
  /\ UNCHANGED <<pc, target, meta, answer, copy>>

NextEntry ==
  /\ entry' = entry + 1
  /\ UNCHANGED <<pc, target, meta, answer, copy>>

\* Mutant: the probe tries to open the file.
HitReadable(m) == m.kind = "file"

\* The probe of a try_files entry found a file.
Hit(m) == IsFile(m)

\* try_files looks at its next entry: the metadata call is the only await.
Probe ==
  /\ pc = "probe"
  /\ LET e    == place.entries[entry]
         last == entry = Len(place.entries)
         path == Render(e.pieces, req.path)
         rel  == TrimStart(path)
     IN  \/ /\ e.status
            /\ IF last THEN Respond(req, Plain(Configured, entry)) /\ UNCHANGED entry ELSE NextEntry
         \/ /\ ~e.status /\ Unsafe(rel)
            /\ IF last THEN Respond(req, Plain(403, entry)) /\ UNCHANGED entry ELSE NextEntry
         \/ /\ ~e.status /\ ~Unsafe(rel)
            /\ IF last \/ Hit(Metadata(Target(place.dir, rel)))
               THEN EnterServe(req, place.dir, path, << >>, entry) /\ UNCHANGED entry
               ELSE NextEntry
  /\ UNCHANGED <<fsVars, asked, req, place>>

\* serve from the metadata on: tags and ranges, up to the next await.
Decide(t, m) ==
  LET tag   == ETag(m)
      span  == ParseRange(req.range, m.size)
      whole == [Plain(200, entry) EXCEPT !.tag = tag, !.ver = m.ver, !.size = m.size]
      goto(l) == pc' = l /\ target' = t /\ meta' = m /\ UNCHANGED <<answer, copy>>
  IN  CASE Revalidates(tag) ->
             Respond(req, [whole EXCEPT !.status = 304])
        [] ~Revalidates(tag) /\ span # << >> /\ req.method = "HEAD" ->
             Respond(req, [whole EXCEPT !.status = 206, !.from = span[1], !.to = span[2]])
        [] ~Revalidates(tag) /\ span # << >> /\ req.method # "HEAD" ->
             goto("read_range")
        [] ~Revalidates(tag) /\ span = << >> /\ ByteRange(req.range) ->
             Respond(req, [Plain(416, entry) EXCEPT !.size = m.size])
        [] OTHER -> IF req.method = "HEAD" THEN Respond(req, whole) ELSE goto("read")

Stat ==
  /\ pc = "stat"
  /\ LET m == Metadata(target)
     IN  \/ m.kind = "absent" /\ Respond(req, Plain(404, entry))
         \/ m.kind = "denied" /\ Respond(req, Plain(403, entry))
         \/ /\ IsDir(m)
            /\ pc' = "index"
            /\ UNCHANGED <<target, meta, answer, copy>>
         \/ IsFile(m) /\ Decide(target, m)
  /\ UNCHANGED <<fsVars, asked, req, place, entry>>

\* A directory is served by its index.html, whatever that is.
StatIndex ==
  /\ pc = "index"
  /\ LET t == IndexOf(target)
         m == Metadata(t)
     IN  \/ /\ m.kind = "absent" /\ place.autoindex /\ entry = 0
            /\ pc' = "list"
            /\ UNCHANGED <<target, meta, answer, copy>>
         \/ /\ m.kind = "absent" /\ ~(place.autoindex /\ entry = 0)
            /\ Respond(req, Plain(404, entry))
         \/ m.kind = "denied" /\ Respond(req, Plain(403, entry))
         \/ m.kind \notin {"absent", "denied"} /\ Decide(t, m)
  /\ UNCHANGED <<fsVars, asked, req, place, entry>>

\* render_directory_listing
List ==
  /\ pc = "list"
  /\ Respond(req, Plain(IF Metadata(target).kind = "dir" THEN 200 ELSE 403, entry))
  /\ UNCHANGED <<fsVars, asked, req, place, entry>>

\* Mutant: one read, which may return fewer bytes than asked for.
BytesReadOnce(m, from, len) == IF m.size <= from THEN 0 ELSE Smaller(len, m.size - from)

\* read_exact: all the bytes asked for, or none of them and an error.
BytesRead(m, from, len) == IF m.size >= from + len THEN len ELSE 0

ReadRange ==
  /\ pc = "read_range"
  /\ LET now  == Metadata(target)
         span == ParseRange(req.range, meta.size)
         len  == span[2] - span[1] + 1
         got  == BytesRead(now, span[1], len)
     IN  Respond(req, IF now.kind = "file" /\ got # 0
                      THEN [status |-> 206, entry |-> entry, tag |-> ETag(meta),
                            ver |-> now.ver, from |-> span[1], to |-> span[2],
                            size |-> meta.size, len |-> got]
                      ELSE Plain(500, entry))
  /\ UNCHANGED <<fsVars, asked, req, place, entry>>

ReadAll ==
  /\ pc = "read"
  /\ LET now == Metadata(target)
     IN  \/ /\ now.kind = "file"
            /\ Respond(req, [Plain(200, entry) EXCEPT !.tag = ETag(meta), !.ver = now.ver,
                                                      !.size = now.size, !.len = now.size])
         \/ now.kind = "absent" /\ Respond(req, Plain(404, entry))
         \/ now.kind \notin {"file", "absent"} /\ Respond(req, Plain(403, entry))
  /\ UNCHANGED <<fsVars, asked, req, place, entry>>

ServeStep == Probe \/ Stat \/ StatIndex \/ List \/ ReadRange \/ ReadAll

-----------------------------------------------------------------------------
(***************************************************************************)
(* The rest of the world                                                   *)
(***************************************************************************)
Write(n) ==
  /\ edits < MaxEdits
  /\ edits' = edits + 1
  /\ \E s \in NewSizes :
       LET new == [kind |-> "file", size |-> s, mtime |-> clock, ver |-> 1 + Cardinality(stamps)]
       IN  fsys' = [fsys EXCEPT ![n] = new] /\ stamps' = stamps \cup {Stamp(new)}
  /\ UNCHANGED <<clock, steady, reqVars>>

Delete(n) ==
  /\ edits < MaxEdits
  /\ edits' = edits + 1
  /\ IsFile(fsys[n])
  /\ fsys' = [fsys EXCEPT ![n] = Absent]
  /\ steady' = steady \ {n}
  /\ UNCHANGED <<clock, stamps, reqVars>>

Tick ==
  /\ clock < MaxClock
  /\ clock' = clock + 1
  /\ UNCHANGED <<fsys, edits, stamps, steady, reqVars>>

World == Tick \/ \E n \in Mutable : Write(n) \/ Delete(n)
=============================================================================
