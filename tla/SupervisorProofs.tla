-------------------------- MODULE SupervisorProofs --------------------------
(***************************************************************************)
(* Proofs about Supervisor for any configurations, any number of reloads   *)
(* and any number of connections.                                          *)
(***************************************************************************)
EXTENDS Supervisor, TLAPS

-----------------------------------------------------------------------------
(***************************************************************************)
(* Sequences and what they list                                            *)
(***************************************************************************)
Inj(s) == \A n, m \in DOMAIN s : s[n] = s[m] => n = m

LEMMA EmptyList == Range(<< >>) = {} /\ Inj(<< >>) /\ << >> \in Seq(Nat)
BY DEF Range, Inj

LEMMA AppendList ==
  ASSUME NEW s \in Seq(Nat), NEW x \in Nat
  PROVE  /\ Append(s, x) \in Seq(Nat)
         /\ Range(Append(s, x)) = Range(s) \cup {x}
         /\ Inj(s) /\ x \notin Range(s) => Inj(Append(s, x))
<1> DEFINE t == Append(s, x)
<1>1. /\ t \in Seq(Nat) /\ DOMAIN s = 1..Len(s) /\ Len(s) \in Nat
      /\ DOMAIN t = 1..(Len(s) + 1)
      /\ \A n \in 1..Len(s) : t[n] = s[n]
      /\ t[Len(s) + 1] = x
  OBVIOUS
<1> HIDE DEF t
<1>2. Range(t) = Range(s) \cup {x}
  <2>1. \A n \in DOMAIN t : t[n] \in Range(s) \cup {x}
    BY <1>1 DEF Range
  <2>2. \A n \in DOMAIN s : s[n] \in Range(t)
    <3> SUFFICES ASSUME NEW n \in DOMAIN s PROVE s[n] \in Range(t)
      OBVIOUS
    <3>1. n \in DOMAIN t /\ t[n] = s[n]
      BY <1>1
    <3> QED
      BY <3>1 DEF Range
  <2>3. x \in Range(t)
    <3>1. Len(s) + 1 \in DOMAIN t
      BY <1>1
    <3> QED
      BY <1>1, <3>1 DEF Range
  <2> QED
    BY <2>1, <2>2, <2>3 DEF Range
<1>3. Inj(s) /\ x \notin Range(s) => Inj(t)
  <2> SUFFICES ASSUME Inj(s), x \notin Range(s), NEW n \in DOMAIN t, NEW m \in DOMAIN t,
                      t[n] = t[m]
               PROVE  n = m
    BY DEF Inj
  <2>1. \A k \in DOMAIN s : s[k] # x
    BY DEF Range
  <2> QED
    BY <1>1, <2>1 DEF Inj
<1> QED
  BY <1>1, <1>2, <1>3 DEF t

LEMMA TailList ==
  ASSUME NEW s \in Seq(Nat), s # << >>
  PROVE  /\ Head(s) \in Nat
         /\ Tail(s) \in Seq(Nat)
         /\ Range(s) = {Head(s)} \cup Range(Tail(s))
         /\ Inj(s) => Inj(Tail(s)) /\ Head(s) \notin Range(Tail(s))
<1> DEFINE h == Head(s)
           t == Tail(s)
<1>1. /\ Len(s) \in Nat \ {0} /\ DOMAIN s = 1..Len(s)
      /\ h = s[1] /\ h \in Nat /\ t \in Seq(Nat) /\ DOMAIN t = 1..(Len(s) - 1)
      /\ \A n \in 1..(Len(s) - 1) : t[n] = s[n + 1]
  OBVIOUS
<1> HIDE DEF h, t
<1>2. \A n \in DOMAIN s : s[n] \in {h} \cup Range(t)
  <2> SUFFICES ASSUME NEW n \in DOMAIN s, n # 1 PROVE s[n] \in Range(t)
    BY <1>1
  <2>1. n - 1 \in DOMAIN t /\ t[n - 1] = s[n]
    BY <1>1
  <2> QED
    BY <2>1 DEF Range
<1>3. \A n \in DOMAIN t : t[n] \in Range(s)
  <2> SUFFICES ASSUME NEW n \in DOMAIN t PROVE t[n] \in Range(s)
    OBVIOUS
  <2>1. n + 1 \in DOMAIN s /\ s[n + 1] = t[n]
    BY <1>1, SMTT(30)
  <2> QED
    BY <2>1 DEF Range
<1>4. h \in Range(s)
  <2>1. 1 \in DOMAIN s
    BY <1>1
  <2> QED
    BY <1>1, <2>1 DEF Range
<1>5. Range(s) = {h} \cup Range(t)
  BY <1>2, <1>3, <1>4 DEF Range
<1>6. \A n \in DOMAIN t : n \in Nat /\ n + 1 \in DOMAIN s /\ t[n] = s[n + 1]
  BY <1>1, SMTT(30)
<1>7. ASSUME Inj(s) PROVE Inj(t)
  <2>1. ASSUME NEW n \in DOMAIN t, NEW m \in DOMAIN t, t[n] = t[m] PROVE n = m
    <3>1. s[n + 1] = s[m + 1] /\ n + 1 \in DOMAIN s /\ m + 1 \in DOMAIN s
      BY <1>6, <2>1, Zenon
    <3>2. n + 1 = m + 1
      BY <1>7, <3>1, Zenon DEF Inj
    <3> QED
      BY <1>6, <3>2
  <2> QED
    BY <2>1 DEF Inj
<1>8. ASSUME Inj(s), h \in Range(t) PROVE FALSE
  <2>1. PICK n \in DOMAIN t : t[n] = h
    BY <1>8 DEF Range
  <2>2. n + 1 \in DOMAIN s /\ 1 \in DOMAIN s /\ s[n + 1] = s[1] /\ n + 1 # 1
    BY <1>1, <2>1, SMTT(30)
  <2> QED
    BY <1>8, <2>2, Zenon DEF Inj
<1> QED
  BY <1>1, <1>5, <1>7, <1>8 DEF h, t

-----------------------------------------------------------------------------
(***************************************************************************)
(* The invariant                                                           *)
(***************************************************************************)
Addresses ==
  UNION {{e.addr : e \in c.http} \cup {e.addr : e \in Range(c.streams)} : c \in Configs}

Task ==
  [kind : Kinds, addr : Addresses, tls : BOOLEAN, state : TaskStates, stop : BOOLEAN,
   gen : Nat, cert : Nat, src : Nat]

Conn == [state : {"accepting", "open", "done", "cut"}, at : Ids, cfg : 1..Gen, cert : 1..Gen]

\* The two halves of a reload.
HttpPhase == {"diff_http", "push_cfg", "bind_http"}
StreamPhase == {"diff_stream", "bind_stream"}

ListTypes ==
  /\ http \in Seq(Nat) /\ streams \in Seq(Nat) /\ h3 \in Seq(Nat)
  /\ queue \in Seq(Nat) /\ kept \in Seq(Nat)
  /\ Listed \cup Range(queue) \cup Range(kept) \subseteq Ids
  /\ pc = "push_cfg" => queue # << >>

TaskTypes ==
  /\ tasks \in Seq(Task)
  /\ \A i \in Ids :
       /\ tasks[i].gen \in 1..Gen
       /\ tasks[i].cert \in 1..Gen
       /\ tasks[i].kind = "h3" => tasks[i].src \in Ids

ConnTypes ==
  /\ DOMAIN conns = Conns
  /\ \A c \in Conns : conns[c] = NoConn \/ conns[c] \in Conn

MainTypes ==
  /\ pc \in MainStates
  /\ root \in BOOLEAN
  /\ pidFile \in BOOLEAN
  /\ applied \in Seq(Configs)
  /\ pc = "boot" => applied = << >>
  /\ pc \notin {"boot", "abort", "killed"} => applied # << >>
  /\ pc \in {"pid", "user", "start_http"} \cup HttpPhase => wanted \subseteq Current.http
  /\ pc \in StreamPhase => wanted \subseteq Range(Current.streams)

Types == MainTypes /\ TaskTypes /\ ListTypes /\ ConnTypes

\* The lists hold listeners of their kinds, each once, and a loop over one of them
\* has every listener that was not told to stop before it or behind it.
Looping(list, kinds) ==
  /\ \A i \in Range(kept) \cup Range(queue) : tasks[i].kind \in kinds /\ ~tasks[i].stop
  /\ Inj(queue) /\ Inj(kept)
  /\ Range(queue) \cap Range(kept) = {}
  /\ \A i \in Range(list) : ~tasks[i].stop => i \in Range(queue) \cup Range(kept)

Lists ==
  /\ \A i \in Range(http) : tasks[i].kind = "http"
  /\ \A i \in Range(streams) : tasks[i].kind \in {"tcp", "udp"}
  /\ \A i \in Range(h3) : tasks[i].kind = "h3"
  /\ Inj(http) /\ Inj(streams)
  /\ pc \in HttpPhase =>
       /\ Looping(http, {"http"})
       /\ \A i \in Range(streams) \cup Range(h3) : ~tasks[i].stop
  /\ pc \in StreamPhase =>
       /\ Looping(streams, {"tcp", "udp"})
       /\ \A i \in Range(http) \cup Range(h3) : ~tasks[i].stop
  /\ pc \in {"bind_http", "bind_stream"} => queue = << >>
  /\ pc \notin HttpPhase \cup StreamPhase => kept = << >>
  /\ pc \notin HttpPhase \cup StreamPhase \cup {"join", "exit", "failed", "abort", "killed"} =>
       \A i \in Listed : ~tasks[i].stop
  /\ \A i \in Ids : ~tasks[i].stop => i \in Listed \cup Range(kept)

\* The listeners of s serve the current configuration, one for each of its
\* addresses that is neither still wanted nor lost.
Follows(s, w) ==
  /\ \A i, j \in Range(s) : tasks[i].addr = tasks[j].addr => i = j
  /\ \A i \in Range(s) :
       /\ tasks[i].gen = Gen
       /\ \E e \in Current.http : e.addr = tasks[i].addr
       /\ \A e \in w : e.addr # tasks[i].addr
  /\ \A e \in Current.http : e \in w \cup lost \/ \E i \in Range(s) : tasks[i].addr = e.addr

Followed ==
  /\ pc \in {"pid", "user", "start_http"} => Follows(http, wanted)
  /\ pc \in {"start_stream", "start_h3", "drop", "serve"} \cup StreamPhase => Follows(http, {})
  /\ pc \in HttpPhase => Follows(kept, wanted)
  /\ pc = "push_cfg" => WantedAt(tasks[Head(queue)].addr) # {}

\* Certificates at least as new as generation g, unless g has no TLS at a.
PlainAt(g, a) == \E e \in applied[g].http : e.addr = a /\ ~e.tls
Safe(cert, g, a) == cert >= g \/ PlainAt(g, a)
Tls(i) == tasks[i].kind = "http" /\ tasks[i].tls

TasksCertified == \A i \in Ids : Tls(i) => Safe(tasks[i].cert, tasks[i].gen, tasks[i].addr)

PushCertified ==
  pc = "push_cfg" =>
    (Tls(Head(queue)) => Safe(tasks[Head(queue)].cert, Gen, tasks[Head(queue)].addr))

ConnCertified(c) ==
  /\ (conns[c].state = "accepting" /\ Tls(conns[c].at))
       => Safe(tasks[conns[c].at].cert, conns[c].cfg, tasks[conns[c].at].addr)
  /\ (conns[c].state = "open" /\ Tls(conns[c].at))
       => Safe(conns[c].cert, conns[c].cfg, tasks[conns[c].at].addr)

Certified == TasksCertified /\ PushCertified /\ \A c \in Conns : ConnCertified(c)

Unready == {"boot", "pid", "user", "start_http", "start_stream", "start_h3", "drop"}

\* Only a QUIC endpoint binds in its own task; a plain HTTP listener that has ended
\* has no connection left, and before the process ends only QUIC connections are cut.
PlainHttp(i) == tasks[i].kind = "http" /\ ~tasks[i].tls

TasksDrain ==
  \A i \in Ids :
    /\ tasks[i].state = "binding" => tasks[i].kind = "h3"
    /\ PlainHttp(i) /\ tasks[i].state = "ended" => OpenAt(i) = {}

OnlyQuicCut == Alive => \A c \in Conns : conns[c].state = "cut" => tasks[conns[c].at].kind = "h3"

Drains == TasksDrain /\ OnlyQuicCut /\ ConfiguredDrained

\* Until the drop the process is root and may remove what it writes; after it, the
\* first configuration had a user.
PidKept ==
  /\ pc \in {"boot", "pid"} => ~pidFile
  /\ pc \in Unready => root /\ Len(applied) = IF pc = "boot" THEN 0 ELSE 1
  /\ ~root => applied # << >> /\ applied[1].user
  /\ PidFileLeft

SupervisorInv == Types /\ Lists /\ Followed /\ Certified /\ Drains /\ PidKept

-----------------------------------------------------------------------------
(***************************************************************************)
(* What the steps do to the listener tasks                                 *)
(***************************************************************************)

\* What a task is; the rest of it is where it stands.
SameTask(j) ==
  /\ tasks'[j].kind = tasks[j].kind
  /\ tasks'[j].addr = tasks[j].addr
  /\ tasks'[j].tls = tasks[j].tls
  /\ tasks'[j].src = tasks[j].src

SameTasks ==
  /\ tasks' \in Seq(Task)
  /\ Ids' = Ids
  /\ \A j \in Ids : SameTask(j)

SameStates == \A j \in Ids : tasks'[j].state = tasks[j].state
SameStops == \A j \in Ids : tasks'[j].stop = tasks[j].stop
SameGens == \A j \in Ids : tasks'[j].gen = tasks[j].gen
SameCerts == \A j \in Ids : tasks'[j].cert = tasks[j].cert

\* Task n is new and the others are as they were.
Spawned(n, t) ==
  /\ tasks' \in Seq(Task)
  /\ n \in Nat /\ n \notin Ids
  /\ Ids' = Ids \cup {n}
  /\ tasks'[n] = t
  /\ \A j \in Ids : tasks'[j] = tasks[j]

LEMMA TaskAt ==
  ASSUME TaskTypes, NEW i \in Ids
  PROVE  tasks[i] \in Task /\ i \in Nat
BY DEF TaskTypes, Ids

LEMMA ExceptTask ==
  ASSUME TaskTypes, NEW i \in Ids, NEW t \in Task, tasks' = [tasks EXCEPT ![i] = t]
  PROVE  /\ tasks' \in Seq(Task)
         /\ Ids' = Ids
         /\ tasks'[i] = t
         /\ \A j \in Ids : j # i => tasks'[j] = tasks[j]
BY DEF TaskTypes, Ids

LEMMA SetState ==
  ASSUME TaskTypes, NEW i \in Ids, NEW v \in TaskStates,
         tasks' = [tasks EXCEPT ![i].state = v]
  PROVE  /\ SameTasks /\ SameStops /\ SameGens /\ SameCerts
         /\ tasks'[i].state = v
         /\ \A j \in Ids : j # i => tasks'[j].state = tasks[j].state
<1> DEFINE u == [tasks[i] EXCEPT !.state = v]
<1>1. tasks[i] \in Task
  BY TaskAt
<1>2. /\ u \in Task /\ u.state = v
      /\ u.kind = tasks[i].kind /\ u.addr = tasks[i].addr /\ u.tls = tasks[i].tls
      /\ u.src = tasks[i].src /\ u.stop = tasks[i].stop
      /\ u.gen = tasks[i].gen /\ u.cert = tasks[i].cert
  BY <1>1 DEF Task
<1>3. tasks' = [tasks EXCEPT ![i] = u]
  OBVIOUS
<1> HIDE DEF u
<1>4. /\ tasks' \in Seq(Task) /\ Ids' = Ids /\ tasks'[i] = u
      /\ \A j \in Ids : j # i => tasks'[j] = tasks[j]
  BY <1>2, <1>3, ExceptTask
<1> QED
  BY <1>2, <1>4
     DEF SameTasks, SameTask, SameStops, SameGens, SameCerts

LEMMA SetStop ==
  ASSUME TaskTypes, NEW i \in Ids, tasks' = [tasks EXCEPT ![i].stop = TRUE]
  PROVE  /\ SameTasks /\ SameStates /\ SameGens /\ SameCerts
         /\ tasks'[i].stop
         /\ \A j \in Ids : j # i => tasks'[j].stop = tasks[j].stop
<1> DEFINE u == [tasks[i] EXCEPT !.stop = TRUE]
<1>1. tasks[i] \in Task
  BY TaskAt
<1>2. /\ u \in Task /\ u.stop = TRUE
      /\ u.kind = tasks[i].kind /\ u.addr = tasks[i].addr /\ u.tls = tasks[i].tls
      /\ u.src = tasks[i].src /\ u.state = tasks[i].state
      /\ u.gen = tasks[i].gen /\ u.cert = tasks[i].cert
  BY <1>1 DEF Task
<1>3. tasks' = [tasks EXCEPT ![i] = u]
  OBVIOUS
<1> HIDE DEF u
<1>4. /\ tasks' \in Seq(Task) /\ Ids' = Ids /\ tasks'[i] = u
      /\ \A j \in Ids : j # i => tasks'[j] = tasks[j]
  BY <1>2, <1>3, ExceptTask
<1> QED
  BY <1>2, <1>4
     DEF SameTasks, SameTask, SameStates, SameGens, SameCerts

LEMMA SetGen ==
  ASSUME TaskTypes, NEW i \in Ids, NEW v \in Nat, tasks' = [tasks EXCEPT ![i].gen = v]
  PROVE  /\ SameTasks /\ SameStates /\ SameStops /\ SameCerts
         /\ tasks'[i].gen = v
         /\ \A j \in Ids : j # i => tasks'[j].gen = tasks[j].gen
<1> DEFINE u == [tasks[i] EXCEPT !.gen = v]
<1>1. tasks[i] \in Task
  BY TaskAt
<1>2. /\ u \in Task /\ u.gen = v
      /\ u.kind = tasks[i].kind /\ u.addr = tasks[i].addr /\ u.tls = tasks[i].tls
      /\ u.src = tasks[i].src /\ u.state = tasks[i].state
      /\ u.stop = tasks[i].stop /\ u.cert = tasks[i].cert
  BY <1>1 DEF Task
<1>3. tasks' = [tasks EXCEPT ![i] = u]
  OBVIOUS
<1> HIDE DEF u
<1>4. /\ tasks' \in Seq(Task) /\ Ids' = Ids /\ tasks'[i] = u
      /\ \A j \in Ids : j # i => tasks'[j] = tasks[j]
  BY <1>2, <1>3, ExceptTask
<1> QED
  BY <1>2, <1>4
     DEF SameTasks, SameTask, SameStates, SameStops, SameCerts

LEMMA SetCert ==
  ASSUME TaskTypes, NEW i \in Ids, NEW v \in Nat, tasks' = [tasks EXCEPT ![i].cert = v]
  PROVE  /\ SameTasks /\ SameStates /\ SameStops /\ SameGens
         /\ tasks'[i].cert = v
         /\ \A j \in Ids : j # i => tasks'[j].cert = tasks[j].cert
<1> DEFINE u == [tasks[i] EXCEPT !.cert = v]
<1>1. tasks[i] \in Task
  BY TaskAt
<1>2. /\ u \in Task /\ u.cert = v
      /\ u.kind = tasks[i].kind /\ u.addr = tasks[i].addr /\ u.tls = tasks[i].tls
      /\ u.src = tasks[i].src /\ u.state = tasks[i].state
      /\ u.stop = tasks[i].stop /\ u.gen = tasks[i].gen
  BY <1>1 DEF Task
<1>3. tasks' = [tasks EXCEPT ![i] = u]
  OBVIOUS
<1> HIDE DEF u
<1>4. /\ tasks' \in Seq(Task) /\ Ids' = Ids /\ tasks'[i] = u
      /\ \A j \in Ids : j # i => tasks'[j] = tasks[j]
  BY <1>2, <1>3, ExceptTask
<1> QED
  BY <1>2, <1>4
     DEF SameTasks, SameTask, SameStates, SameStops, SameGens

LEMMA SpawnTask ==
  ASSUME TaskTypes, NEW t \in Task, tasks' = Append(tasks, t)
  PROVE  Spawned(Len(tasks) + 1, t)
BY DEF TaskTypes, Ids, Spawned

LEMMA NothingToTasks ==
  ASSUME TaskTypes, UNCHANGED tasks
  PROVE  SameTasks /\ SameStates /\ SameStops /\ SameGens /\ SameCerts
BY DEF TaskTypes, Ids, SameTasks, SameTask, SameStates, SameStops, SameGens, SameCerts

LEMMA TellTasks ==
  ASSUME TaskTypes, TellAll
  PROVE  /\ SameTasks /\ SameStates /\ SameGens /\ SameCerts
         /\ \A j \in Ids : tasks'[j].stop = (j \in Listed \/ tasks[j].stop)
<1> DEFINE told(j) == IF j \in Listed THEN [tasks[j] EXCEPT !.stop = TRUE] ELSE tasks[j]
<1>1. \A j \in Ids : tasks[j] \in Task
  BY TaskAt
<1>2. tasks' = [j \in Ids |-> told(j)]
  BY DEF TellAll
<1>3. Len(tasks) \in Nat /\ Ids = 1..Len(tasks)
  BY DEF TaskTypes, Ids
<1>4. \A j \in Ids :
        /\ told(j) \in Task
        /\ told(j).kind = tasks[j].kind /\ told(j).addr = tasks[j].addr
        /\ told(j).tls = tasks[j].tls /\ told(j).src = tasks[j].src
        /\ told(j).gen = tasks[j].gen /\ told(j).cert = tasks[j].cert
        /\ told(j).state = tasks[j].state
        /\ told(j).stop = (j \in Listed \/ tasks[j].stop)
  BY <1>1 DEF Task
<1> HIDE DEF told
<1>5. tasks' \in Seq(Task)
  BY <1>2, <1>3, <1>4
<1>6. Ids' = Ids
  BY <1>2 DEF Ids
<1> QED
  BY <1>2, <1>4, <1>5, <1>6
     DEF SameTasks, SameTask, SameStates, SameGens, SameCerts

\* The tasks and the connections move on their own.
Working ==
  \/ \E i \in Ids : TaskStep(i)
  \/ \E c \in Conns :
       /\ Alive
       /\ \/ \E i \in Ids : Accept(c, i)
          \/ TakeAcceptor(c) \/ Finish(c)

LEMMA WorkingLeaves ==
  ASSUME TaskTypes, Working
  PROVE  /\ Alive /\ UNCHANGED main
         /\ SameTasks /\ SameStops /\ SameGens /\ SameCerts
<1>1. CASE \E i \in Ids : TaskStep(i)
  <2>1. PICK i \in Ids : TaskStep(i)
    BY <1>1
  <2>2. PICK v \in TaskStates : tasks' = [tasks EXCEPT ![i].state = v]
    BY <2>1 DEF TaskStep, BindH3, SeeStop, Drained, TaskStates
  <2>3. Alive /\ UNCHANGED main
    BY <2>1 DEF TaskStep, BindH3, SeeStop, Drained
  <2> QED
    BY <2>2, <2>3, SetState
<1>2. CASE \E c \in Conns :
             Alive /\ ((\E i \in Ids : Accept(c, i)) \/ TakeAcceptor(c) \/ Finish(c))
  <2>1. Alive /\ UNCHANGED main /\ UNCHANGED tasks
    BY <1>2 DEF Accept, TakeAcceptor, Finish
  <2> QED
    BY <2>1, NothingToTasks
<1> QED
  BY <1>1, <1>2 DEF Working

-----------------------------------------------------------------------------
(***************************************************************************)
(* Types                                                                   *)
(***************************************************************************)
LEMMA CurrentConfig ==
  ASSUME MainTypes, pc \notin {"boot", "abort", "killed"}
  PROVE  Gen \in Nat /\ Gen >= 1 /\ Current \in Configs
BY DEF MainTypes, Gen, Current

LEMMA EntryTypes ==
  ASSUME NEW c \in Configs
  PROVE  /\ \A e \in c.http : e.addr \in Addresses /\ e.tls \in BOOLEAN
         /\ \A e \in Range(c.streams) : e.addr \in Addresses /\ e.udp \in BOOLEAN
<1>1. ASSUME NEW e \in c.http PROVE e.addr \in Addresses /\ e.tls \in BOOLEAN
  <2>1. e \in [addr : {f.addr : f \in c.http}, tls : BOOLEAN, h3 : BOOLEAN]
    BY SupervisorAssumption
  <2> QED
    BY <2>1 DEF Addresses
<1>2. ASSUME NEW e \in Range(c.streams) PROVE e.addr \in Addresses /\ e.udp \in BOOLEAN
  <2>1. c.streams \in Seq([addr : {f.addr : f \in Range(c.streams)}, udp : BOOLEAN])
    BY SupervisorAssumption
  <2>2. PICK n \in DOMAIN c.streams : e = c.streams[n]
    BY DEF Range
  <2> DEFINE E == [addr : {f.addr : f \in Range(c.streams)}, udp : BOOLEAN]
  <2>a. c.streams \in Seq(E)
    BY <2>1
  <2> HIDE DEF E
  <2>b. e \in E
    BY <2>a, <2>2
  <2>3. e \in [addr : {f.addr : f \in Range(c.streams)}, udp : BOOLEAN]
    BY <2>b DEF E
  <2>4. e.addr \in {f.addr : f \in Range(c.streams)} /\ e.udp \in BOOLEAN
    BY <2>3
  <2> QED
    BY <2>4 DEF Addresses
<1> QED
  BY <1>1, <1>2

\* A listener that a start or a reload binds.
LEMMA SpawnedHttp ==
  ASSUME MainTypes, TaskTypes, pc \notin {"boot", "abort", "killed"}, NEW e \in Current.http,
         SpawnHttp(e)
  PROVE  \E t \in Task :
           /\ Spawned(Len(tasks) + 1, t)
           /\ t.kind = "http" /\ t.addr = e.addr /\ t.tls = e.tls /\ t.state = "running"
           /\ t.stop = FALSE /\ t.gen = Gen /\ t.cert = Gen
<1> DEFINE t == NewTask("http", e.addr, e.tls, "running")
<1>1. e.addr \in Addresses /\ e.tls \in BOOLEAN
  BY CurrentConfig, EntryTypes
<1>2. /\ t \in Task /\ t.kind = "http" /\ t.addr = e.addr /\ t.tls = e.tls
      /\ t.state = "running" /\ t.stop = FALSE /\ t.gen = Gen /\ t.cert = Gen
  BY <1>1, CurrentConfig DEF NewTask, Task, Kinds, TaskStates
<1>3. tasks' = Append(tasks, t)
  BY DEF SpawnHttp
<1> HIDE DEF t
<1> QED
  BY <1>2, <1>3, SpawnTask

LEMMA SpawnedStream ==
  ASSUME MainTypes, TaskTypes, pc \notin {"boot", "abort", "killed"}, NEW e \in Range(Current.streams),
         SpawnStream(e)
  PROVE  \E t \in Task :
           /\ Spawned(Len(tasks) + 1, t)
           /\ t.kind \in {"tcp", "udp"} /\ t.addr = e.addr /\ t.state = "running"
           /\ t.stop = FALSE /\ t.gen = Gen /\ t.cert = Gen
<1> DEFINE t == NewTask(StreamKind(e), e.addr, FALSE, "running")
<1>1. e.addr \in Addresses /\ StreamKind(e) \in {"tcp", "udp"} /\ StreamKind(e) \in Kinds
  BY CurrentConfig, EntryTypes DEF StreamKind, Kinds
<1>2. /\ t \in Task /\ t.kind = StreamKind(e) /\ t.addr = e.addr
      /\ t.state = "running" /\ t.stop = FALSE /\ t.gen = Gen /\ t.cert = Gen
  BY <1>1, CurrentConfig DEF NewTask, Task, Kinds, TaskStates
<1>3. tasks' = Append(tasks, t)
  BY DEF SpawnStream
<1> HIDE DEF t
<1> QED
  BY <1>1, <1>2, <1>3, SpawnTask

LEMMA SpawnedH3 ==
  ASSUME MainTypes, TaskTypes, pc = "start_h3", NEW i \in Ids,
         tasks' = Append(tasks, [NewTask("h3", tasks[i].addr, TRUE, "binding") EXCEPT !.src = i])
  PROVE  \E t \in Task :
           /\ Spawned(Len(tasks) + 1, t)
           /\ t.kind = "h3" /\ t.addr = tasks[i].addr /\ t.state = "binding"
           /\ t.stop = FALSE /\ t.gen = Gen /\ t.cert = Gen /\ t.src = i
<1> DEFINE u == NewTask("h3", tasks[i].addr, TRUE, "binding")
           t == [u EXCEPT !.src = i]
<1>1. tasks[i] \in Task /\ i \in Nat
  BY TaskAt
<1>2. tasks[i].addr \in Addresses
  BY <1>1 DEF Task
<1>3. /\ u \in Task /\ u.kind = "h3" /\ u.addr = tasks[i].addr
      /\ u.state = "binding" /\ u.stop = FALSE /\ u.gen = Gen /\ u.cert = Gen
  BY <1>2, CurrentConfig DEF NewTask, Task, Kinds, TaskStates
<1> HIDE DEF u
<1>4. /\ t \in Task /\ t.kind = "h3" /\ t.addr = tasks[i].addr
      /\ t.state = "binding" /\ t.stop = FALSE /\ t.gen = Gen /\ t.cert = Gen /\ t.src = i
  BY <1>1, <1>3 DEF Task
<1>5. tasks' = Append(tasks, t)
  BY DEF u
<1> HIDE DEF t
<1> QED
  BY <1>4, <1>5, SpawnTask

\* The steps of the main task that leave the listener tasks alone ...
Bookkeeping ==
  \/ Boot \/ WritePid \/ ResolveUser \/ HttpStarted \/ StreamsStarted \/ H3Started
  \/ DropPrivileges \/ Reload \/ HttpDiffed \/ HttpBound \/ StreamsDiffed \/ StreamsBound
  \/ Terminate \/ StartFails \/ Exit \/ ExitFailed \/ Killed

\* ... those that may start one, and those that send something to them.
Spawning == StartHttp \/ StartStream \/ StartH3 \/ BindHttp \/ BindStream

Telling == PushAcceptor \/ PushConfig \/ CloseHttp \/ DiffStream \/ TellAll

LEMMA Cases == Next => Bookkeeping \/ Spawning \/ Telling \/ Working
BY DEF Next, MainStep, Bookkeeping, Spawning, Telling, Working

LEMMA MainTypesStep ==
  ASSUME Types, Next
  PROVE  MainTypes'
<1> USE DEF Types, MainTypes, MainStates, HttpPhase, StreamPhase, Gen, Current
<1>1. CASE Bookkeeping
  <2>1. CASE Boot
    <3>1. ASSUME NEW c \in Configs, applied' = <<c>>, wanted' = c.http, pc' = "pid"
          PROVE  MainTypes'
      <4>1. applied' \in Seq(Configs) /\ applied' # << >> /\ applied'[Len(applied')] = c
        BY <3>1
      <4> QED
        BY <2>1, <3>1, <4>1 DEF Boot
    <3>2. CASE End("abort") /\ UNCHANGED <<applied, wanted>>
      BY <2>1, <3>2 DEF Boot, End
    <3> QED
      BY <2>1, <3>1, <3>2 DEF Boot
  <2>2. CASE HttpStarted \/ StreamsStarted \/ H3Started
    BY <2>2 DEF HttpStarted, StreamsStarted, H3Started
  <2>3. CASE StartFails \/ Exit \/ ExitFailed
    BY <2>3 DEF StartFails, Exit, ExitFailed, End, Joined, CleanupPid
  <2>8. CASE Killed
    BY <2>8 DEF Killed, End
  <2>9. CASE WritePid \/ ResolveUser
    BY <2>9 DEF WritePid, ResolveUser, End, CleanupPid
  <2>4. CASE DropPrivileges \/ Terminate
    BY <2>4 DEF DropPrivileges, Terminate
  <2>5. CASE Reload
    <3>1. CASE UNCHANGED <<pc, applied, queue, kept, wanted>>
      BY <2>5, <3>1 DEF Reload
    <3>2. ASSUME NEW c \in Configs, applied' = Append(applied, c), wanted' = c.http,
                 pc' = "diff_http"
          PROVE  MainTypes'
      <4>1. applied' \in Seq(Configs) /\ applied' # << >> /\ applied'[Len(applied')] = c
        BY <3>2
      <4> QED
        BY <2>5, <3>2, <4>1 DEF Reload
    <3> QED
      BY <2>5, <3>1, <3>2 DEF Reload
  <2>6. CASE HttpDiffed \/ StreamsDiffed \/ StreamsBound
    BY <2>6 DEF HttpDiffed, StreamsDiffed, StreamsBound
  <2>7. CASE HttpBound
    <3>1. wanted' \subseteq Range(Current.streams)
      BY <2>7 DEF HttpBound, LastPerAddr, Range
    <3> QED
      BY <2>7, <3>1 DEF HttpBound
  <2> QED
    BY <1>1, <2>1, <2>2, <2>3, <2>4, <2>5, <2>6, <2>7, <2>8, <2>9 DEF Bookkeeping
<1>2. CASE Spawning
  BY <1>2 DEF Spawning, StartHttp, StartStream, StartH3, BindHttp, BindStream
<1>3. CASE Telling
  BY <1>3 DEF Telling, PushAcceptor, PushConfig, CloseHttp, DiffStream, TellAll
<1>4. CASE Working
  BY <1>4, WorkingLeaves DEF main
<1> QED
  BY <1>1, <1>2, <1>3, <1>4, Cases

LEMMA GenGrows ==
  ASSUME Types, Next
  PROVE  /\ Gen \in Nat /\ Gen' \in Nat /\ Gen' >= Gen
         /\ ~ Reload /\ ~ Boot => UNCHANGED applied
         /\ pc \notin {"boot", "abort", "killed"} => Gen >= 1 /\ Current \in Configs
         /\ \A g \in 1..Gen : applied'[g] = applied[g]
<1>1. CASE Boot
  BY <1>1 DEF Types, MainTypes, Boot, Gen
<1>2. CASE Reload
  BY <1>2, CurrentConfig DEF Types, MainTypes, Reload, Gen
<1>3. ASSUME ~ Boot, ~ Reload PROVE UNCHANGED applied
  <2>1. CASE Bookkeeping
    BY <1>3, <2>1 DEF Bookkeeping, WritePid, ResolveUser, HttpStarted, StreamsStarted,
       StartFails, H3Started, DropPrivileges, HttpDiffed, HttpBound, StreamsDiffed,
       StreamsBound, Terminate, Exit, ExitFailed, Killed
  <2>2. CASE Spawning
    BY <2>2 DEF Spawning, StartHttp, StartStream, StartH3, BindHttp, BindStream
  <2>3. CASE Telling
    BY <2>3 DEF Telling, PushAcceptor, PushConfig, CloseHttp, DiffStream, TellAll
  <2>4. CASE Working
    BY <2>4, WorkingLeaves DEF Types, main
  <2> QED
    BY <2>1, <2>2, <2>3, <2>4, Cases
<1>4. Gen \in Nat
  BY DEF Types, MainTypes, Gen
<1>5. ~ Boot /\ ~ Reload => Gen' = Gen /\ applied' = applied
  BY <1>3 DEF Gen
<1> QED
  BY <1>1, <1>2, <1>4, <1>5, CurrentConfig DEF Types

LEMMA BookkeepingTasks ==
  ASSUME Bookkeeping
  PROVE  UNCHANGED tasks
BY DEF Bookkeeping, Boot, WritePid, ResolveUser, HttpStarted, StreamsStarted, StartFails,
   H3Started, DropPrivileges, Reload, HttpDiffed, HttpBound, StreamsDiffed, StreamsBound,
   Terminate, Exit, ExitFailed, Killed

\* The new task, if a step starts one, and who has it in its list.
LEMMA SpawningTasks ==
  ASSUME Types, Spawning
  PROVE  \/ UNCHANGED tasks
         \/ \E t \in Task :
              /\ Spawned(Len(tasks) + 1, t)
              /\ t.stop = FALSE /\ t.gen = Gen /\ t.cert = Gen /\ t.state # "ended"
              /\ t.kind = "h3" => t.src \in Ids
              /\ t.state = "binding" => t.kind = "h3"
<1>1. pc \notin {"boot", "abort", "killed"}
  BY DEF Spawning, StartHttp, StartStream, StartH3, BindHttp, BindStream
<1>2. CASE StartHttp \/ BindHttp
  <2> SUFFICES ASSUME ~ UNCHANGED tasks
               PROVE  \E e \in Current.http : SpawnHttp(e)
    BY <1>1, SpawnedHttp DEF Types
  <2> QED
    BY <1>2 DEF StartHttp, BindHttp, Types, MainTypes, HttpPhase
<1>3. CASE StartStream \/ BindStream
  <2> SUFFICES ASSUME ~ UNCHANGED tasks
               PROVE  \E e \in Range(Current.streams) : SpawnStream(e)
    BY <1>1, SpawnedStream DEF Types
  <2>1. CASE StartStream
    <3>1. Current.streams \in Seq([addr : {e.addr : e \in Range(Current.streams)}, udp : BOOLEAN])
      BY <1>1, CurrentConfig, SupervisorAssumption DEF Types
    <3>2. /\ Len(streams) \in Nat /\ Len(streams) < Len(Current.streams)
          /\ SpawnStream(Current.streams[Len(streams) + 1])
      BY <2>1 DEF StartStream, Types, ListTypes
    <3>3. Len(streams) + 1 \in DOMAIN Current.streams
      BY <3>1, <3>2
    <3> QED
      BY <3>2, <3>3 DEF Range
  <2>2. CASE BindStream
    BY <2>2 DEF BindStream, Types, MainTypes, StreamPhase
  <2> QED
    BY <1>3, <2>1, <2>2
<1>4. CASE StartH3
  <2>1. Head(queue) \in Ids
    BY <1>4, TailList DEF StartH3, Types, ListTypes
  <2> QED
    BY <1>4, <2>1, SpawnedH3 DEF StartH3, Types
<1> QED
  BY <1>2, <1>3, <1>4 DEF Spawning

LEMMA TaskTypesStep ==
  ASSUME Types, Next
  PROVE  TaskTypes'
<1>1. Gen \in Nat /\ Gen' \in Nat /\ Gen' >= Gen
  BY GenGrows
<1>2. ASSUME SameTasks,
             \A j \in Ids : tasks'[j].gen \in 1..Gen' /\ tasks'[j].cert \in 1..Gen'
      PROVE  TaskTypes'
  BY <1>2 DEF Types, TaskTypes, SameTasks, SameTask
<1>3. ASSUME SameTasks, SameGens, SameCerts PROVE TaskTypes'
  <2>1. \A j \in Ids : tasks'[j].gen \in 1..Gen' /\ tasks'[j].cert \in 1..Gen'
    BY <1>1, <1>3 DEF Types, TaskTypes, SameGens, SameCerts
  <2> QED
    BY <1>2, <1>3, <2>1
<1>4. CASE Bookkeeping
  BY <1>3, <1>4, BookkeepingTasks, NothingToTasks DEF Types
<1>5. CASE Spawning
  <2>1. UNCHANGED applied /\ Gen' = Gen /\ Gen >= 1
    BY <1>5, GenGrows DEF Gen, Spawning, StartHttp, StartStream, StartH3, BindHttp, BindStream,
       Boot, Reload
  <2>2. ASSUME NEW t \in Task, Spawned(Len(tasks) + 1, t), t.gen = Gen, t.cert = Gen,
               t.kind = "h3" => t.src \in Ids
        PROVE  TaskTypes'
    BY <1>1, <2>1, <2>2 DEF Types, TaskTypes, Spawned
  <2> QED
    BY <1>3, <1>5, <2>2, SpawningTasks, NothingToTasks DEF Types
<1>6. CASE PushAcceptor \/ PushConfig \/ CloseHttp \/ DiffStream
  <2> DEFINE i == Head(queue)
  <2>0. i \in Ids
    BY <1>6, TailList DEF PushAcceptor, PushConfig, CloseHttp, DiffStream, Types, ListTypes
  <2>1. Gen' = Gen /\ Gen >= 1
    BY <1>6, GenGrows DEF Gen, PushAcceptor, PushConfig, CloseHttp, DiffStream, Boot, Reload
  <2>2. \/ UNCHANGED tasks
        \/ tasks' = [tasks EXCEPT ![i].stop = TRUE]
        \/ tasks' = [tasks EXCEPT ![i].gen = Gen]
        \/ tasks' = [tasks EXCEPT ![i].cert = Gen]
    BY <1>6 DEF PushAcceptor, PushConfig, CloseHttp, DiffStream
  <2> HIDE DEF i
  <2>3. CASE UNCHANGED tasks
    BY <1>3, <2>3, NothingToTasks DEF Types
  <2>4. CASE tasks' = [tasks EXCEPT ![i].stop = TRUE]
    BY <1>3, <2>0, <2>4, SetStop DEF Types
  <2>5. CASE tasks' = [tasks EXCEPT ![i].gen = Gen]
    <3>1. /\ SameTasks /\ SameCerts /\ tasks'[i].gen = Gen
          /\ \A j \in Ids : j # i => tasks'[j].gen = tasks[j].gen
      BY <1>1, <2>0, <2>5, SetGen DEF Types
    <3>2. \A j \in Ids : tasks'[j].gen \in 1..Gen' /\ tasks'[j].cert \in 1..Gen'
      BY <1>1, <2>0, <2>1, <3>1 DEF Types, TaskTypes, SameCerts
    <3> QED
      BY <1>2, <3>1, <3>2
  <2>6. CASE tasks' = [tasks EXCEPT ![i].cert = Gen]
    <3>1. /\ SameTasks /\ SameGens /\ tasks'[i].cert = Gen
          /\ \A j \in Ids : j # i => tasks'[j].cert = tasks[j].cert
      BY <1>1, <2>0, <2>6, SetCert DEF Types
    <3>2. \A j \in Ids : tasks'[j].gen \in 1..Gen' /\ tasks'[j].cert \in 1..Gen'
      BY <1>1, <2>0, <2>1, <3>1 DEF Types, TaskTypes, SameGens
    <3> QED
      BY <1>2, <3>1, <3>2
  <2> QED
    BY <2>2, <2>3, <2>4, <2>5, <2>6
<1>7. CASE TellAll
  BY <1>3, <1>7, TellTasks DEF Types
<1>8. CASE Working
  BY <1>3, <1>8, WorkingLeaves DEF Types
<1> QED
  BY <1>4, <1>5, <1>6, <1>7, <1>8, Cases DEF Telling

LEMMA SpawnIds ==
  ASSUME TaskTypes, NEW t, tasks' = Append(tasks, t)
  PROVE  Ids' = Ids \cup {Len(tasks) + 1} /\ Len(tasks) + 1 \in Nat /\ Len(tasks) + 1 \notin Ids
BY DEF TaskTypes, Ids

LEMMA IdsGrow ==
  ASSUME Types, Next
  PROVE  Ids \subseteq Ids'
<1>1. CASE Bookkeeping
  BY <1>1, BookkeepingTasks DEF Ids
<1>2. CASE Spawning
  BY <1>2, SpawningTasks DEF Spawned, Ids
<1>3. CASE Telling
  BY <1>3, TellTasks
     DEF Telling, PushAcceptor, PushConfig, CloseHttp, DiffStream, SameTasks, Ids, Types
<1>4. CASE Working
  BY <1>4, WorkingLeaves DEF SameTasks, Types
<1> QED
  BY <1>1, <1>2, <1>3, <1>4, Cases

LEMMA ListTypesStep ==
  ASSUME Types, Next
  PROVE  ListTypes'
<1> USE DEF Types, ListTypes, Listed
<1>0. Ids \subseteq Ids'
  BY IdsGrow
<1>1. CASE Bookkeeping
  <2>1. UNCHANGED tasks /\ Ids' = Ids
    BY <1>1, BookkeepingTasks DEF Ids
  <2>2. CASE Boot \/ WritePid \/ ResolveUser
    BY <2>1, <2>2 DEF Boot, WritePid, ResolveUser, End
  <2>3. CASE HttpStarted \/ StreamsStarted \/ H3Started \/ StartFails
    BY <2>1, <2>3 DEF HttpStarted, StreamsStarted, H3Started, StartFails, End
  <2>4. CASE DropPrivileges \/ Terminate \/ Exit \/ ExitFailed \/ Killed
    BY <2>1, <2>4 DEF DropPrivileges, Terminate, Exit, ExitFailed, Killed, End
  <2>5. CASE Reload
    <3>1. /\ kept' \in {kept, << >>} /\ queue' \in {queue, http} /\ UNCHANGED <<http, streams, h3>>
          /\ pc' # "push_cfg"
      BY <2>5 DEF Reload
    <3> QED
      BY <2>1, <3>1, EmptyList
  <2>6. CASE HttpDiffed \/ StreamsDiffed
    BY <2>1, <2>6 DEF HttpDiffed, StreamsDiffed
  <2>7. CASE HttpBound
    BY <2>1, <2>7, EmptyList DEF HttpBound
  <2>8. CASE StreamsBound
    BY <2>1, <2>8, EmptyList DEF StreamsBound
  <2> QED
    BY <1>1, <2>2, <2>3, <2>4, <2>5, <2>6, <2>7, <2>8 DEF Bookkeeping
<1>2. CASE Spawning
  <2> DEFINE n == Len(tasks) + 1
  <2>0. n \in Nat
    BY DEF TaskTypes
  <2>1. CASE StartHttp
    <3>1. /\ n \in Ids' /\ http' = Append(http, n) /\ UNCHANGED <<streams, h3, queue, kept>>
          /\ pc' # "push_cfg"
      BY <2>1, SpawnIds DEF StartHttp, SpawnHttp
    <3> QED
      BY <1>0, <2>0, <3>1, AppendList
  <2>2. CASE StartStream
    <3>1. /\ n \in Ids' /\ streams' = Append(streams, n) /\ UNCHANGED <<http, h3, queue, kept>>
          /\ pc' # "push_cfg"
      BY <2>2, SpawnIds DEF StartStream, SpawnStream
    <3> QED
      BY <1>0, <2>0, <3>1, AppendList
  <2>3. CASE StartH3
    <3>1. /\ h3' = h3 \/ (n \in Ids' /\ h3' = Append(h3, n))
          /\ UNCHANGED <<http, streams, kept>>
          /\ queue # << >> /\ queue' = Tail(queue) /\ pc' # "push_cfg"
      BY <2>3, SpawnIds DEF StartH3
    <3>2. queue' \in Seq(Nat) /\ Range(queue') \subseteq Range(queue)
      BY <3>1, TailList
    <3>a. Append(h3, n) \in Seq(Nat) /\ Range(Append(h3, n)) = Range(h3) \cup {n}
      BY <2>0, AppendList
    <3>3. h3' \in Seq(Nat) /\ Range(h3') \subseteq Range(h3) \cup Ids'
      BY <3>1, <3>a
    <3> QED
      BY <1>0, <3>1, <3>2, <3>3
  <2>4. CASE BindHttp \/ BindStream
    <3>1. /\ kept' = kept \/ (n \in Ids' /\ kept' = Append(kept, n))
          /\ UNCHANGED <<http, streams, h3, queue>> /\ pc' # "push_cfg"
      BY <2>4, SpawnIds DEF BindHttp, BindStream, SpawnHttp, SpawnStream
    <3>a. Append(kept, n) \in Seq(Nat) /\ Range(Append(kept, n)) = Range(kept) \cup {n}
      BY <2>0, AppendList
    <3>2. kept' \in Seq(Nat) /\ Range(kept') \subseteq Range(kept) \cup Ids'
      BY <3>1, <3>a
    <3> QED
      BY <1>0, <3>1, <3>2
  <2> QED
    BY <1>2, <2>1, <2>2, <2>3, <2>4 DEF Spawning
<1>3. CASE Telling
  <2>1. CASE PushAcceptor \/ TellAll
    BY <1>0, <2>1 DEF PushAcceptor, TellAll
  <2>2. CASE PushConfig \/ CloseHttp \/ DiffStream
    <3>1. /\ UNCHANGED <<http, streams, h3>> /\ pc' # "push_cfg"
          /\ queue' = Tail(queue) /\ kept' \in {kept, Append(kept, Head(queue))}
      BY <2>2 DEF PushConfig, CloseHttp, DiffStream
    <3>2. queue # << >>
      BY <2>2 DEF PushConfig, CloseHttp, DiffStream
    <3>3. /\ Head(queue) \in Nat /\ Head(queue) \in Range(queue)
          /\ queue' \in Seq(Nat) /\ Range(queue') \subseteq Range(queue)
      BY <3>1, <3>2, TailList
    <3>a. /\ Append(kept, Head(queue)) \in Seq(Nat)
          /\ Range(Append(kept, Head(queue))) = Range(kept) \cup {Head(queue)}
      BY <3>3, AppendList
    <3>4. kept' \in Seq(Nat) /\ Range(kept') \subseteq Range(kept) \cup Range(queue)
      BY <3>1, <3>3, <3>a
    <3> QED
      BY <1>0, <3>1, <3>3, <3>4
  <2> QED
    BY <1>3, <2>1, <2>2 DEF Telling
<1>4. CASE Working
  BY <1>0, <1>4, WorkingLeaves DEF main
<1> QED
  BY <1>1, <1>2, <1>3, <1>4, Cases

\* What the steps do to the connections.
Active == {c \in Conns : conns[c].state \in {"accepting", "open"}}

LEMMA ConnAt ==
  ASSUME ConnTypes, NEW c \in Conns, conns[c].state # "none"
  PROVE  /\ conns[c] \in Conn
         /\ conns[c].at \in Ids /\ conns[c].cfg \in 1..Gen /\ conns[c].cert \in 1..Gen
BY DEF ConnTypes, Conn, NoConn

LEMMA CutConns ==
  ASSUME ConnTypes, NEW S \in SUBSET Active, conns' = Cut(S)
  PROVE  /\ DOMAIN conns' = Conns
         /\ \A c \in S : /\ conns'[c] \in Conn
                         /\ conns'[c].state = "cut" /\ conns'[c].at = conns[c].at
         /\ \A c \in Conns \ S : conns'[c] = conns[c]
<1>1. \A c \in S : c \in Conns /\ conns[c] \in Conn
  BY ConnAt DEF Active
<1> QED
  BY <1>1 DEF Cut, Conn

LEMMA MainConns ==
  ASSUME Bookkeeping \/ Spawning \/ Telling
  PROVE  \/ UNCHANGED conns /\ Alive'
         \/ /\ conns' = Cut(Active)
            /\ \/ pc' = "abort" /\ (Boot \/ ResolveUser \/ StartFails)
               \/ pc' = "exit" /\ Exit
               \/ pc' = "failed" /\ ExitFailed
               \/ pc' = "killed" /\ Killed
<1> USE DEF Alive
<1>1. CASE Bookkeeping
  <2>1. CASE Boot \/ WritePid \/ ResolveUser
    BY <2>1 DEF Boot, WritePid, ResolveUser, End, Active
  <2>4. CASE StartFails \/ Exit \/ ExitFailed \/ Killed
    BY <2>4 DEF StartFails, Exit, ExitFailed, Killed, End, Active
  <2>2. CASE HttpStarted \/ StreamsStarted \/ H3Started \/ DropPrivileges
    BY <2>2 DEF HttpStarted, StreamsStarted, H3Started, DropPrivileges
  <2>3. CASE Reload \/ HttpDiffed \/ HttpBound \/ StreamsDiffed \/ StreamsBound \/ Terminate
    BY <2>3 DEF Reload, HttpDiffed, HttpBound, StreamsDiffed, StreamsBound, Terminate
  <2> QED
    BY <1>1, <2>1, <2>2, <2>3, <2>4 DEF Bookkeeping
<1>2. CASE Spawning
  BY <1>2 DEF Spawning, StartHttp, StartStream, StartH3, BindHttp, BindStream
<1>3. CASE Telling
  BY <1>3 DEF Telling, PushAcceptor, PushConfig, CloseHttp, DiffStream, TellAll
<1> QED
  BY <1>1, <1>2, <1>3

\* What an accept loop hands a connection.
LEMMA AcceptedConn ==
  ASSUME Types, NEW i \in Ids, NEW c \in Conns, Accept(c, i)
  PROVE  /\ UNCHANGED <<main, tasks>>
         /\ DOMAIN conns' = Conns
         /\ conns'[c] \in Conn /\ conns'[c].at = i
         /\ conns'[c].cert = tasks[i].cert
         /\ Tls(i) => conns'[c].state = "accepting" /\ conns'[c].cfg = tasks[i].gen
         /\ conns'[c].state \in {"accepting", "open"}
         /\ tasks[i].state = "running"
         /\ \A d \in Conns : d # c => conns'[d] = conns[d]
<1> DEFINE new == [state |-> IF tasks[i].tls /\ tasks[i].kind = "http" THEN "accepting" ELSE "open",
                   at |-> i, cfg |-> Snapshot(i), cert |-> tasks[i].cert]
<1>1. tasks[i].cert \in 1..Gen /\ Snapshot(i) \in 1..Gen
  BY DEF Types, TaskTypes, Snapshot
<1>2. new \in Conn
  BY <1>1 DEF Conn
<1>3. conns' = [conns EXCEPT ![c] = new] /\ DOMAIN conns = Conns
  BY DEF Accept, Types, ConnTypes
<1>4. Tls(i) => new.state = "accepting" /\ new.cfg = tasks[i].gen
  BY DEF Tls, Snapshot
<1>5. new.state \in {"accepting", "open"} /\ new.at = i /\ new.cert = tasks[i].cert
  OBVIOUS
<1> HIDE DEF new
<1> QED
  BY <1>2, <1>3, <1>4, <1>5 DEF Accept

LEMMA TookAcceptor ==
  ASSUME Types, NEW c \in Conns, TakeAcceptor(c)
  PROVE  /\ UNCHANGED <<main, tasks>>
         /\ DOMAIN conns' = Conns
         /\ conns[c].state = "accepting"
         /\ conns[c].at \in Ids
         /\ conns'[c] \in Conn
         /\ conns'[c].state = "open" /\ conns'[c].at = conns[c].at
         /\ conns'[c].cfg = conns[c].cfg /\ conns'[c].cert = tasks[conns[c].at].cert
         /\ \A d \in Conns : d # c => conns'[d] = conns[d]
<1>1. conns[c].state = "accepting" /\ conns[c] \in Conn /\ conns[c].at \in Ids
  BY ConnAt DEF TakeAcceptor, Types
<1>2. tasks[conns[c].at].cert \in 1..Gen
  BY <1>1 DEF Types, TaskTypes
<1> DEFINE new == [conns[c] EXCEPT !.cert = tasks[conns[c].at].cert, !.state = "open"]
<1>3. /\ new \in Conn /\ new.state = "open" /\ new.at = conns[c].at
      /\ new.cfg = conns[c].cfg /\ new.cert = tasks[conns[c].at].cert
  BY <1>1, <1>2 DEF Conn
<1>4. conns' = [conns EXCEPT ![c] = new] /\ DOMAIN conns = Conns
  BY <1>1 DEF TakeAcceptor, Types, ConnTypes, Conn
<1> HIDE DEF new
<1> QED
  BY <1>1, <1>3, <1>4 DEF TakeAcceptor

LEMMA Finished ==
  ASSUME Types, NEW c \in Conns, Finish(c)
  PROVE  /\ UNCHANGED <<main, tasks>>
         /\ DOMAIN conns' = Conns
         /\ conns'[c] \in Conn
         /\ conns'[c].state = "done" /\ conns'[c].at = conns[c].at
         /\ \A d \in Conns : d # c => conns'[d] = conns[d]
<1>1. conns[c] \in Conn
  BY ConnAt DEF Finish, Types
<1> DEFINE new == [conns[c] EXCEPT !.state = "done"]
<1>2. new \in Conn /\ new.state = "done" /\ new.at = conns[c].at
  BY <1>1 DEF Conn
<1>3. conns' = [conns EXCEPT ![c] = new] /\ DOMAIN conns = Conns
  BY DEF Finish, Types, ConnTypes
<1> HIDE DEF new
<1> QED
  BY <1>2, <1>3 DEF Finish

LEMMA ConnTypesStep ==
  ASSUME Types, Next
  PROVE  ConnTypes'
<1>1. Ids \subseteq Ids' /\ Gen \in Nat /\ Gen' \in Nat /\ Gen' >= Gen
  BY GenGrows, IdsGrow
<1>2. Conn \subseteq Conn'
  BY <1>1 DEF Conn
<1>3. /\ DOMAIN conns = Conns
      /\ \A c \in Conns : conns[c] = NoConn \/ conns[c] \in Conn'
  BY <1>2 DEF Types, ConnTypes
<1>4. ASSUME DOMAIN conns' = Conns,
             \A c \in Conns : conns'[c] = conns[c] \/ conns'[c] \in Conn
      PROVE  ConnTypes'
  BY <1>2, <1>3, <1>4 DEF ConnTypes, NoConn
<1>5. ASSUME NEW S \in SUBSET Active, conns' = Cut(S) PROVE ConnTypes'
  BY <1>4, <1>5, CutConns DEF Types
<1>6. CASE UNCHANGED conns
  BY <1>3, <1>4, <1>6
<1>7. CASE Bookkeeping \/ Spawning \/ Telling
  BY <1>5, <1>6, <1>7, MainConns
<1>8. CASE Working
  <2>1. ASSUME NEW i \in Ids, TaskStep(i) PROVE ConnTypes'
    <3>1. conns' = conns \/ conns' = Cut(OpenAt(i))
      BY <2>1 DEF TaskStep, BindH3, SeeStop, Drained
    <3>2. OpenAt(i) \in SUBSET Active
      BY DEF OpenAt, Active
    <3> QED
      BY <1>5, <1>6, <3>1, <3>2
  <2>2. ASSUME NEW c \in Conns, NEW i \in Ids, Accept(c, i) PROVE ConnTypes'
    BY <1>4, <2>2, AcceptedConn
  <2>3. ASSUME NEW c \in Conns, TakeAcceptor(c) PROVE ConnTypes'
    BY <1>4, <2>3, TookAcceptor
  <2>4. ASSUME NEW c \in Conns, Finish(c) PROVE ConnTypes'
    BY <1>4, <2>4, Finished
  <2> QED
    BY <1>8, <2>1, <2>2, <2>3, <2>4 DEF Working
<1> QED
  BY <1>7, <1>8, Cases

LEMMA TypesStep ==
  ASSUME Types, Next
  PROVE  Types'
BY MainTypesStep, TaskTypesStep, ListTypesStep, ConnTypesStep DEF Types

-----------------------------------------------------------------------------
(***************************************************************************)
(* The lists                                                               *)
(***************************************************************************)

\* What the current loop does to its two halves.
LEMMA MovedList ==
  ASSUME Types, queue # << >>, queue' = Tail(queue), kept' = Append(kept, Head(queue)),
         Inj(queue), Inj(kept), Range(queue) \cap Range(kept) = {}
  PROVE  /\ Inj(queue') /\ Inj(kept')
         /\ Range(queue') \cap Range(kept') = {}
         /\ Range(queue') \cup Range(kept') = Range(queue) \cup Range(kept)
         /\ Head(queue) \in Range(queue)
         /\ Range(kept') = Range(kept) \cup {Head(queue)}
<1>1. /\ Head(queue) \in Nat /\ Range(queue) = {Head(queue)} \cup Range(queue')
      /\ Inj(queue') /\ Head(queue) \notin Range(queue')
  BY TailList DEF Types, ListTypes
<1>2. /\ Range(kept') = Range(kept) \cup {Head(queue)}
      /\ Head(queue) \notin Range(kept) => Inj(kept')
  BY <1>1, AppendList DEF Types, ListTypes
<1> QED
  BY <1>1, <1>2

LEMMA DroppedHead ==
  ASSUME Types, queue # << >>, queue' = Tail(queue), Inj(queue)
  PROVE  /\ Inj(queue')
         /\ Range(queue) = Range(queue') \cup {Head(queue)}
         /\ Head(queue) \notin Range(queue')
         /\ Head(queue) \in Range(queue) /\ Head(queue) \in Ids
<1>1. /\ Range(queue) = {Head(queue)} \cup Range(queue')
      /\ Inj(queue') /\ Head(queue) \notin Range(queue')
  BY TailList DEF Types, ListTypes
<1> QED
  BY <1>1 DEF Types, ListTypes

LEMMA ListsKept ==
  ASSUME Types, Lists, SameTasks, SameStops, UNCHANGED <<http, streams, h3, queue, kept>>,
         pc' = pc \/ (pc = "diff_http" /\ pc' = "push_cfg")
  PROVE  Lists'
<1> USE DEF HttpPhase, StreamPhase
<1>1. \A i \in Ids : tasks'[i].kind = tasks[i].kind /\ tasks'[i].stop = tasks[i].stop
  BY DEF SameTasks, SameTask, SameStops
<1>2. /\ Range(http) \subseteq Ids /\ Range(streams) \subseteq Ids /\ Range(h3) \subseteq Ids
      /\ Range(queue) \subseteq Ids /\ Range(kept) \subseteq Ids /\ Ids' = Ids
      /\ Listed' = Listed /\ Listed \subseteq Ids
  BY DEF Types, ListTypes, Listed, SameTasks
<1>3. pc' \in HttpPhase => /\ Looping(http, {"http"})'
                           /\ \A i \in Range(streams') \cup Range(h3') : ~tasks'[i].stop
  BY <1>1, <1>2 DEF Lists, Looping
<1>4. pc' \in StreamPhase => /\ Looping(streams, {"tcp", "udp"})'
                             /\ \A i \in Range(http') \cup Range(h3') : ~tasks'[i].stop
  BY <1>1, <1>2 DEF Lists, Looping
<1>5. /\ \A i \in Range(http') : tasks'[i].kind = "http"
      /\ \A i \in Range(streams') : tasks'[i].kind \in {"tcp", "udp"}
      /\ \A i \in Range(h3') : tasks'[i].kind = "h3"
      /\ Inj(http') /\ Inj(streams')
  BY <1>1, <1>2 DEF Lists
<1>6. /\ pc' \in {"bind_http", "bind_stream"} => queue' = << >>
      /\ pc' \notin HttpPhase \cup StreamPhase => kept' = << >>
  BY DEF Lists
<1>7. /\ pc' \notin HttpPhase \cup StreamPhase \cup {"join", "exit", "failed", "abort", "killed"} =>
           \A i \in Listed' : ~tasks'[i].stop
      /\ \A i \in Ids' : ~tasks'[i].stop => i \in Listed' \cup Range(kept')
  BY <1>1, <1>2 DEF Lists
<1> QED
  BY <1>3, <1>4, <1>5, <1>6, <1>7 DEF Lists

LEMMA ListsWorking ==
  ASSUME Types, Lists, Working \/ PushAcceptor
  PROVE  Lists'
<1>1. CASE Working
  <2>1. UNCHANGED main /\ SameTasks /\ SameStops
    BY <1>1, WorkingLeaves DEF Types
  <2> QED
    BY <2>1, ListsKept DEF main
<1>2. CASE PushAcceptor
  <2>1. Head(queue) \in Ids
    BY <1>2, TailList DEF PushAcceptor, Types, ListTypes
  <2>2. Gen \in Nat
    BY DEF Types, MainTypes, Gen
  <2>3. UNCHANGED tasks \/ tasks' = [tasks EXCEPT ![Head(queue)].cert = Gen]
    BY <1>2 DEF PushAcceptor
  <2>4. SameTasks /\ SameStops
    BY <2>1, <2>2, <2>3, NothingToTasks, SetCert DEF Types
  <2> QED
    BY <1>2, <2>4, ListsKept DEF PushAcceptor
<1> QED
  BY <1>1, <1>2

LEMMA ListsBookkeeping ==
  ASSUME Types, Lists, Bookkeeping
  PROVE  Lists'
<1>0. UNCHANGED tasks /\ Ids' = Ids
  BY BookkeepingTasks DEF Ids
<1> USE DEF HttpPhase, StreamPhase, Listed
<1>1. CASE Boot \/ WritePid \/ ResolveUser \/ StartFails \/ Exit \/ ExitFailed \/ Killed
  <2>1. /\ pc \notin HttpPhase \cup StreamPhase
        /\ pc' \in {"pid", "user", "start_http", "exit", "failed", "abort", "killed"}
        /\ UNCHANGED <<http, streams, h3, queue, kept>>
        /\ pc = "join" => pc' \in {"exit", "failed", "killed"}
        /\ pc' \in {"pid", "user", "start_http"} => pc \in {"boot", "pid", "user"}
    BY <1>1 DEF Boot, WritePid, ResolveUser, StartFails, Exit, ExitFailed, Killed, Joined, End
  <2> QED
    BY <1>0, <2>1 DEF Lists
<1>2. CASE HttpStarted \/ StreamsStarted \/ H3Started \/ DropPrivileges \/ Terminate
  <2>1. /\ pc \in {"start_http", "start_stream", "start_h3", "drop", "serve"}
        /\ pc' \in {"start_stream", "start_h3", "drop", "serve", "stop"}
        /\ UNCHANGED <<http, streams, h3, kept>>
    BY <1>2 DEF HttpStarted, StreamsStarted, H3Started, DropPrivileges, Terminate
  <2> QED
    BY <1>0, <2>1 DEF Lists
<1>3. CASE Reload
  <2>1. CASE UNCHANGED <<pc, queue, kept>>
    BY <1>0, <1>3, <2>1 DEF Reload, Lists
  <2>2. CASE pc' = "diff_http" /\ queue' = http /\ kept' = << >>
    BY <1>0, <1>3, <2>2, EmptyList DEF Reload, Lists, Looping
  <2> QED
    BY <1>3, <2>1, <2>2 DEF Reload
<1>4. CASE HttpDiffed \/ StreamsDiffed
  BY <1>0, <1>4 DEF HttpDiffed, StreamsDiffed, Lists, Looping
<1>5. CASE HttpBound
  BY <1>0, <1>5, EmptyList DEF HttpBound, Lists, Looping
<1>6. CASE StreamsBound
  BY <1>0, <1>6, EmptyList DEF StreamsBound, Lists, Looping
<1> QED
  BY <1>1, <1>2, <1>3, <1>4, <1>5, <1>6 DEF Bookkeeping

LEMMA ListsSpawning ==
  ASSUME Types, Lists, Spawning
  PROVE  Lists'
<1> DEFINE n == Len(tasks) + 1
<1> USE DEF HttpPhase, StreamPhase, Listed
<1>0. pc \notin {"boot", "abort", "killed"}
  BY DEF Spawning, StartHttp, StartStream, StartH3, BindHttp, BindStream
<1>1. /\ Range(http) \subseteq Ids /\ Range(streams) \subseteq Ids /\ Range(h3) \subseteq Ids
      /\ Range(queue) \subseteq Ids /\ Range(kept) \subseteq Ids
  BY DEF Types, ListTypes
<1>2. /\ http \in Seq(Nat) /\ streams \in Seq(Nat) /\ h3 \in Seq(Nat)
      /\ queue \in Seq(Nat) /\ kept \in Seq(Nat)
  BY DEF Types, ListTypes
<1>3. CASE StartHttp
  <2>1. PICK e \in Current.http : SpawnHttp(e)
    BY <1>3 DEF StartHttp, Types, MainTypes
  <2>2. PICK t \in Task : Spawned(n, t) /\ t.kind = "http" /\ t.stop = FALSE
    BY <1>0, <2>1, SpawnedHttp DEF Types
  <2> HIDE DEF n
  <2>3. http' = Append(http, n) /\ UNCHANGED <<pc, streams, h3, queue, kept>> /\ pc = "start_http"
    BY <1>3 DEF StartHttp, n
  <2>4. Range(http') = Range(http) \cup {n} /\ Inj(http')
    BY <1>1, <1>2, <2>2, <2>3, AppendList DEF Spawned, Lists
  <2> QED
    BY <1>1, <2>2, <2>3, <2>4 DEF Spawned, Lists
<1>4. CASE StartStream
  <2>1. PICK t \in Task : Spawned(n, t) /\ t.kind \in {"tcp", "udp"} /\ t.stop = FALSE
    <3>1. Current.streams \in Seq([addr : {e.addr : e \in Range(Current.streams)}, udp : BOOLEAN])
      BY <1>0, CurrentConfig, SupervisorAssumption DEF Types
    <3>2. /\ Len(streams) \in Nat /\ Len(streams) < Len(Current.streams)
          /\ SpawnStream(Current.streams[Len(streams) + 1])
      BY <1>2, <1>4 DEF StartStream
    <3>3. Len(streams) + 1 \in DOMAIN Current.streams
      BY <3>1, <3>2
    <3>4. \E e \in Range(Current.streams) : SpawnStream(e)
      BY <3>2, <3>3 DEF Range
    <3> QED
      BY <1>0, <3>4, SpawnedStream DEF Types
  <2> HIDE DEF n
  <2>2. /\ streams' = Append(streams, n) /\ UNCHANGED <<pc, http, h3, queue, kept>>
        /\ pc = "start_stream"
    BY <1>4 DEF StartStream, n
  <2>3. Range(streams') = Range(streams) \cup {n} /\ Inj(streams')
    BY <1>1, <1>2, <2>1, <2>2, AppendList DEF Spawned, Lists
  <2> QED
    BY <1>1, <2>1, <2>2, <2>3 DEF Spawned, Lists
<1>5. CASE StartH3
  <2>1. Head(queue) \in Ids
    BY <1>5, <1>2, <1>1, TailList DEF StartH3
  <2>2. UNCHANGED <<pc, http, streams, kept>> /\ pc = "start_h3"
    BY <1>5 DEF StartH3
  <2>3. CASE UNCHANGED <<tasks, h3>>
    <3>1. Ids' = Ids
      BY <2>3 DEF Ids
    <3> QED
      BY <2>2, <2>3, <3>1 DEF Lists
  <2>4. ASSUME tasks' = Append(tasks,
                 [NewTask("h3", tasks[Head(queue)].addr, TRUE, "binding") EXCEPT !.src = Head(queue)]),
               h3' = Append(h3, n)
        PROVE  Lists'
    <3>1. PICK t \in Task : Spawned(n, t) /\ t.kind = "h3" /\ t.stop = FALSE
      BY <2>1, <2>2, <2>4, SpawnedH3 DEF Types
    <3> HIDE DEF n
    <3>2. Range(h3') = Range(h3) \cup {n}
      BY <1>1, <1>2, <2>4, <3>1, AppendList DEF Spawned
    <3> QED
      BY <1>1, <2>2, <3>1, <3>2 DEF Spawned, Lists
  <2> QED
    BY <1>5, <2>3, <2>4 DEF StartH3
<1>6. CASE BindHttp \/ BindStream
  <2>1. /\ UNCHANGED <<pc, http, streams, h3, queue>>
        /\ pc = "bind_http" \/ pc = "bind_stream"
    BY <1>6 DEF BindHttp, BindStream
  <2>2. CASE UNCHANGED <<tasks, kept>>
    <3>1. Ids' = Ids
      BY <2>2 DEF Ids
    <3> QED
      BY <2>1, <2>2, <3>1 DEF Lists, Looping
  <2>3. ASSUME kept' = Append(kept, n), NEW t \in Task, Spawned(n, t), t.stop = FALSE,
               pc = "bind_http" => t.kind = "http",
               pc = "bind_stream" => t.kind \in {"tcp", "udp"}
        PROVE  Lists'
    <3> HIDE DEF n
    <3>1. Range(kept') = Range(kept) \cup {n} /\ (Inj(kept) => Inj(kept'))
      BY <1>1, <1>2, <2>3, AppendList DEF Spawned
    <3>2. /\ n \notin Ids /\ Ids' = Ids \cup {n} /\ tasks'[n] = t
          /\ \A j \in Ids : tasks'[j] = tasks[j]
      BY <2>3 DEF Spawned
    <3>3. CASE pc = "bind_http"
      <4>1. Looping(http, {"http"})'
        BY <1>1, <2>1, <2>3, <3>1, <3>2, <3>3 DEF Lists, Looping
      <4> QED
        BY <1>1, <2>1, <2>3, <3>1, <3>2, <3>3, <4>1 DEF Lists
    <3>4. CASE pc = "bind_stream"
      <4>1. Looping(streams, {"tcp", "udp"})'
        BY <1>1, <2>1, <2>3, <3>1, <3>2, <3>4 DEF Lists, Looping
      <4> QED
        BY <1>1, <2>1, <2>3, <3>1, <3>2, <3>4, <4>1 DEF Lists
    <3> QED
      BY <2>1, <3>3, <3>4
  <2>4. ASSUME ~ UNCHANGED <<tasks, kept>>, BindHttp PROVE Lists'
    <3>1. kept' = Append(kept, n) /\ \E e \in Current.http : SpawnHttp(e)
      BY <2>4 DEF BindHttp, Types, MainTypes
    <3>2. \E t \in Task : Spawned(n, t) /\ t.kind = "http" /\ t.stop = FALSE
      BY <1>0, <3>1, SpawnedHttp DEF Types
    <3> QED
      BY <2>3, <2>4, <3>1, <3>2 DEF BindHttp
  <2>5. ASSUME ~ UNCHANGED <<tasks, kept>>, BindStream PROVE Lists'
    <3>1. kept' = Append(kept, n) /\ \E e \in Range(Current.streams) : SpawnStream(e)
      BY <2>5 DEF BindStream, Types, MainTypes
    <3>2. \E t \in Task : Spawned(n, t) /\ t.kind \in {"tcp", "udp"} /\ t.stop = FALSE
      BY <1>0, <3>1, SpawnedStream DEF Types
    <3> QED
      BY <2>3, <2>5, <3>1, <3>2 DEF BindStream
  <2> QED
    BY <1>6, <2>2, <2>4, <2>5
<1> QED
  BY <1>3, <1>4, <1>5, <1>6 DEF Spawning

LEMMA ListsTelling ==
  ASSUME Types, Lists, PushConfig \/ CloseHttp \/ DiffStream \/ TellAll
  PROVE  Lists'
<1> USE DEF HttpPhase, StreamPhase, Listed
<1>0. Gen \in Nat
  BY DEF Types, MainTypes, Gen
<1>1. /\ Range(http) \subseteq Ids /\ Range(streams) \subseteq Ids /\ Range(h3) \subseteq Ids
      /\ Range(queue) \subseteq Ids /\ Range(kept) \subseteq Ids
  BY DEF Types, ListTypes
<1>2. CASE TellAll
  <2>1. /\ SameTasks
        /\ \A j \in Ids : tasks'[j].stop = (j \in Listed \/ tasks[j].stop)
    BY <1>2, TellTasks DEF Types
  <2>2. /\ pc = "stop" /\ pc' = "join" /\ UNCHANGED <<http, streams, h3, queue, kept>>
    BY <1>2 DEF TellAll
  <2>3. \A i \in Ids : tasks'[i].stop
    BY <2>1, <2>2, EmptyList DEF Lists
  <2> QED
    BY <1>1, <2>1, <2>2, <2>3 DEF SameTasks, SameTask, Lists
<1>3. CASE PushConfig \/ CloseHttp \/ DiffStream
  <2>0. pc \in HttpPhase \cup StreamPhase /\ queue # << >>
    BY <1>3 DEF PushConfig, CloseHttp, DiffStream, Types, ListTypes
  <2>1. Head(queue) \in Ids /\ Head(queue) \in Range(queue)
    BY <1>1, <2>0, TailList DEF Types, ListTypes
  <2>2. /\ UNCHANGED <<http, streams, h3>> /\ queue' = Tail(queue)
        /\ pc = "diff_stream" => pc' = "diff_stream" /\ DiffStream
        /\ pc # "diff_stream" => pc' = "diff_http" /\ pc \in HttpPhase
    BY <1>3 DEF PushConfig, CloseHttp, DiffStream
  <2>3. Inj(queue) /\ Inj(kept) /\ Range(queue) \cap Range(kept) = {}
    BY <2>0 DEF Lists, Looping
  \* The listener is kept.
  <2>4. ASSUME SameTasks, SameStops, kept' = Append(kept, Head(queue)) PROVE Lists'
    <3>1. /\ Inj(queue') /\ Inj(kept')
          /\ Range(queue') \cap Range(kept') = {}
          /\ Range(queue') \cup Range(kept') = Range(queue) \cup Range(kept)
          /\ Range(kept') = Range(kept) \cup {Head(queue)}
      BY <2>0, <2>2, <2>3, <2>4, MovedList
    <3>2. /\ Ids' = Ids
          /\ \A j \in Ids : tasks'[j].kind = tasks[j].kind /\ tasks'[j].stop = tasks[j].stop
      BY <2>4 DEF SameTasks, SameTask, SameStops
    <3>3. CASE pc = "diff_stream"
      <4>1. Looping(streams, {"tcp", "udp"})'
        BY <1>1, <2>2, <3>1, <3>2, <3>3 DEF Lists, Looping
      <4> QED
        BY <1>1, <2>2, <3>1, <3>2, <3>3, <4>1 DEF Lists
    <3>4. CASE pc # "diff_stream"
      <4>1. Looping(http, {"http"})'
        BY <1>1, <2>2, <3>1, <3>2, <3>4 DEF Lists, Looping
      <4> QED
        BY <1>1, <2>2, <3>1, <3>2, <3>4, <4>1 DEF Lists
    <3> QED
      BY <3>3, <3>4
  \* The listener is told to stop.
  <2>5. ASSUME tasks' = [tasks EXCEPT ![Head(queue)].stop = TRUE], kept' = kept PROVE Lists'
    <3>1. /\ Inj(queue') /\ Range(queue) = Range(queue') \cup {Head(queue)}
          /\ Head(queue) \notin Range(queue')
      BY <2>0, <2>2, <2>3, DroppedHead
    <3>2. SameTasks /\ tasks'[Head(queue)].stop
          /\ \A j \in Ids : j # Head(queue) => tasks'[j].stop = tasks[j].stop
      BY <2>1, <2>5, SetStop DEF Types
    <3>3. Ids' = Ids /\ \A j \in Ids : tasks'[j].kind = tasks[j].kind
      BY <3>2 DEF SameTasks, SameTask
    <3>4. CASE pc = "diff_stream"
      <4>1. Looping(streams, {"tcp", "udp"})'
        BY <1>1, <2>1, <2>2, <2>3, <2>5, <3>1, <3>2, <3>3, <3>4 DEF Lists, Looping
      <4>2. tasks[Head(queue)].kind \in {"tcp", "udp"}
        BY <2>1, <3>4 DEF Lists, Looping
      <4> QED
        BY <1>1, <2>1, <2>2, <2>5, <3>1, <3>2, <3>3, <3>4, <4>1, <4>2 DEF Lists
    <3>5. CASE pc # "diff_stream"
      <4>1. Looping(http, {"http"})'
        BY <1>1, <2>1, <2>2, <2>3, <2>5, <3>1, <3>2, <3>3, <3>5 DEF Lists, Looping
      <4>2. tasks[Head(queue)].kind = "http"
        BY <2>1, <2>2, <3>5 DEF Lists, Looping
      <4> QED
        BY <1>1, <2>1, <2>2, <2>5, <3>1, <3>2, <3>3, <3>5, <4>1, <4>2 DEF Lists
    <3> QED
      BY <3>4, <3>5
  <2>6. CASE PushConfig
    BY <1>0, <2>1, <2>4, <2>6, SetGen DEF PushConfig, Types
  <2>7. CASE CloseHttp
    BY <2>5, <2>7 DEF CloseHttp
  <2>8. CASE DiffStream
    <3>1. \/ tasks' = [tasks EXCEPT ![Head(queue)].gen = Gen] /\ kept' = Append(kept, Head(queue))
          \/ UNCHANGED tasks /\ kept' = Append(kept, Head(queue))
          \/ tasks' = [tasks EXCEPT ![Head(queue)].stop = TRUE] /\ kept' = kept
      BY <2>8 DEF DiffStream
    <3> QED
      BY <1>0, <2>1, <2>4, <2>5, <3>1, SetGen, NothingToTasks DEF Types
  <2> QED
    BY <1>3, <2>6, <2>7, <2>8
<1> QED
  BY <1>2, <1>3

LEMMA ListsStep ==
  ASSUME Types, Lists, Next
  PROVE  Lists'
BY Cases, ListsWorking, ListsBookkeeping, ListsSpawning, ListsTelling DEF Telling

-----------------------------------------------------------------------------
(***************************************************************************)
(* The HTTP listeners follow the configuration                             *)
(***************************************************************************)

\* One more listener in the list, for an entry that was still wanted.
LEMMA FollowsMore ==
  ASSUME Types, Current \in Configs, NEW s, NEW r, NEW e \in wanted, NEW n,
         wanted \subseteq Current.http, Follows(s, wanted),
         Range(s) \subseteq Ids, Range(r) = Range(s) \cup {n},
         UNCHANGED applied, lost \subseteq lost',
         wanted' = wanted \ {e},
         tasks'[n].addr = e.addr, tasks'[n].gen = Gen,
         \A j \in Range(s) : tasks'[j].addr = tasks[j].addr /\ tasks'[j].gen = tasks[j].gen
  PROVE  /\ \A i, j \in Range(r) : tasks'[i].addr = tasks'[j].addr => i = j
         /\ \A i \in Range(r) :
              /\ tasks'[i].gen = Gen'
              /\ \E f \in Current'.http : f.addr = tasks'[i].addr
              /\ \A f \in wanted' : f.addr # tasks'[i].addr
         /\ \A f \in Current'.http :
              f \in wanted' \cup lost' \/ \E i \in Range(r) : tasks'[i].addr = f.addr
<1>1. Gen' = Gen /\ Current' = Current
  BY DEF Gen, Current
<1>2. \A f \in Current.http : f.addr = e.addr => f = e
  BY SupervisorAssumption
<1>3. \A i \in Range(s) : tasks[i].addr # e.addr
  BY DEF Follows
<1>4. \A i, j \in Range(r) : tasks'[i].addr = tasks'[j].addr => i = j
  BY <1>3 DEF Follows
<1>5. \A i \in Range(r) :
        /\ tasks'[i].gen = Gen'
        /\ \E f \in Current'.http : f.addr = tasks'[i].addr
        /\ \A f \in wanted' : f.addr # tasks'[i].addr
  BY <1>1, <1>2 DEF Follows
<1>6. \A f \in Current'.http :
        f \in wanted' \cup lost' \/ \E i \in Range(r) : tasks'[i].addr = f.addr
  BY <1>1 DEF Follows
<1> QED
  BY <1>4, <1>5, <1>6

LEMMA FollowedStep ==
  ASSUME Types, Lists, Followed, Next
  PROVE  Followed'
<1> USE DEF HttpPhase, StreamPhase
<1>0. /\ Range(http) \subseteq Ids /\ Range(kept) \subseteq Ids /\ Range(queue) \subseteq Ids
      /\ http \in Seq(Nat) /\ kept \in Seq(Nat) /\ queue \in Seq(Nat)
  BY DEF Types, ListTypes, Listed
<1>a. Gen \in Nat
  BY DEF Types, MainTypes, Gen
\* The steps that leave the addresses and generations of the tasks alone.
<1>1. ASSUME SameTasks, SameGens, UNCHANGED <<pc, applied, http, queue, kept, wanted, lost>>
      PROVE  Followed'
  <2>1. \A j \in Ids : tasks'[j].addr = tasks[j].addr /\ tasks'[j].gen = tasks[j].gen
    BY <1>1 DEF SameTasks, SameTask, SameGens
  <2>2. Gen' = Gen /\ Current' = Current
    BY <1>1 DEF Gen, Current
  <2>3. pc = "push_cfg" => Head(queue) \in Ids
    BY <1>0, TailList DEF Types, ListTypes
  <2>4. Follows(http, wanted) => Follows(http, wanted)'
    BY <1>0, <1>1, <2>1, <2>2 DEF Follows
  <2>5. Follows(kept, wanted) => Follows(kept, wanted)'
    BY <1>0, <1>1, <2>1, <2>2 DEF Follows
  <2>6. Follows(http, {}) => Follows(http, {})'
    BY <1>0, <1>1, <2>1, <2>2, SMTT(30) DEF Follows
  <2>7. pc = "push_cfg" => WantedAt(tasks[Head(queue)].addr)' # {}
    BY <1>1, <2>1, <2>3 DEF Followed, WantedAt
  <2> QED
    BY <1>1, <2>4, <2>5, <2>6, <2>7 DEF Followed
<1>2. CASE Working
  BY <1>1, <1>2, WorkingLeaves DEF Types, main
<1>3. CASE Bookkeeping
  <2>0. UNCHANGED tasks
    BY <1>3, BookkeepingTasks
  <2>1. CASE Boot
    <3>1. CASE End("abort")
      BY <3>1 DEF End, Followed
    <3>2. ASSUME NEW c \in Configs, applied' = <<c>>, wanted' = c.http, pc' = "pid"
          PROVE  Followed'
      <4>1. Ids = {}
        BY <2>1 DEF Boot, Types, MainTypes, TaskTypes, Gen
      <4>2. Range(http') = {}
        BY <1>0, <2>1, <4>1 DEF Boot
      <4>3. Current' = c
        BY <3>2 DEF Current, Gen
      <4> QED
        BY <3>2, <4>2, <4>3 DEF Followed, Follows
    <3> QED
      BY <2>1, <3>1, <3>2 DEF Boot
  <2>2. CASE StartFails \/ Exit \/ ExitFailed \/ Killed \/ Terminate
    BY <2>2 DEF StartFails, Exit, ExitFailed, Killed, Terminate, End, Followed
  <2>7. CASE WritePid \/ ResolveUser
    <3>1. /\ UNCHANGED <<applied, http, wanted, lost>> /\ pc \in {"pid", "user"}
          /\ pc' \in {"user", "start_http", "abort"}
      BY <2>7 DEF WritePid, ResolveUser, End
    <3>2. Follows(http, wanted)'
      BY <2>0, <3>1 DEF Followed, Follows, Gen, Current
    <3> QED
      BY <3>1, <3>2 DEF Followed
  <2>3. CASE HttpStarted \/ StreamsStarted \/ H3Started \/ DropPrivileges
    BY <2>0, <2>3
       DEF HttpStarted, StreamsStarted, H3Started, DropPrivileges, Followed, Follows, Gen, Current
  <2>4. CASE Reload
    <3>1. CASE UNCHANGED <<pc, applied, queue, kept, wanted, lost>>
      BY <1>1, <2>0, <2>4, <3>1, NothingToTasks DEF Reload, Types
    <3>2. ASSUME NEW c \in Configs, applied' = Append(applied, c), wanted' = c.http,
                 kept' = << >>, pc' = "diff_http"
          PROVE  Followed'
      <4>1. Current' = c
        BY <3>2 DEF Current, Gen, Types, MainTypes
      <4> QED
        BY <3>2, <4>1, EmptyList DEF Followed, Follows
    <3> QED
      BY <2>4, <3>1, <3>2 DEF Reload
  <2>5. CASE HttpDiffed \/ StreamsDiffed \/ StreamsBound
    BY <2>0, <2>5 DEF HttpDiffed, StreamsDiffed, StreamsBound, Followed, Follows, Gen, Current
  <2>6. CASE HttpBound
    BY <2>0, <2>6 DEF HttpBound, Followed, Follows, Gen, Current
  <2> QED
    BY <1>3, <2>1, <2>2, <2>3, <2>4, <2>5, <2>6, <2>7 DEF Bookkeeping
<1>4. CASE Spawning
  <2>0. /\ pc \notin {"boot", "abort", "killed"} /\ UNCHANGED <<pc, applied>>
        /\ Gen' = Gen /\ Current' = Current /\ Current \in Configs
    <3>1. pc \notin {"boot", "abort", "killed"} /\ UNCHANGED <<pc, applied>>
      BY <1>4 DEF Spawning, StartHttp, StartStream, StartH3, BindHttp, BindStream
    <3> QED
      BY <3>1, CurrentConfig DEF Gen, Current, Types
  <2>a. \A j \in Ids : tasks'[j] = tasks[j]
    BY <1>4, SpawningTasks DEF Spawned
  <2>1. CASE StartHttp \/ BindHttp
    <3>1. CASE UNCHANGED tasks /\ UNCHANGED kept
      <4>1. PICK e \in wanted : wanted' = wanted \ {e} /\ lost' = lost \cup {e}
        BY <1>0, <2>1, <3>1, SpawnIds DEF StartHttp, BindHttp, SpawnHttp, Types, Ids
      <4>2. pc = "bind_http" /\ wanted \subseteq Current.http
        BY <1>0, <2>1, <3>1, SpawnIds DEF StartHttp, BindHttp, SpawnHttp, Types, MainTypes, Ids
      <4> QED
        BY <2>0, <3>1, <4>1, <4>2 DEF Followed, Follows
    <3>2. ASSUME NEW e \in wanted, SpawnHttp(e), wanted' = wanted \ {e},
                 UNCHANGED <<lost>>,
                 \/ pc = "start_http" /\ http' = Append(http, Len(tasks) + 1)
                 \/ pc = "bind_http" /\ kept' = Append(kept, Len(tasks) + 1)
          PROVE  Followed'
      <4> DEFINE n == Len(tasks) + 1
      <4>0. wanted \subseteq Current.http
        BY <3>2 DEF Types, MainTypes
      <4>1. PICK t \in Task : Spawned(n, t) /\ t.addr = e.addr /\ t.gen = Gen
        BY <2>0, <3>2, <4>0, SpawnedHttp DEF Types
      <4>2. n \in Nat /\ tasks'[n].addr = e.addr /\ tasks'[n].gen = Gen
        BY <4>1 DEF Spawned
      <4> HIDE DEF n
      <4>3. CASE pc = "start_http" /\ http' = Append(http, n)
        <5>1. Range(http') = Range(http) \cup {n}
          BY <1>0, <4>2, <4>3, AppendList
        <5>2. Follows(http, wanted)
          BY <4>3 DEF Followed
        <5>3. \A j \in Range(http) :
                tasks'[j].addr = tasks[j].addr /\ tasks'[j].gen = tasks[j].gen
          BY <1>0, <2>a
        <5>4. Follows(http, wanted)'
          BY <1>0, <2>0, <3>2, <4>0, <4>2, <5>1, <5>2, <5>3, FollowsMore DEF Follows
        <5> QED
          BY <2>0, <4>3, <5>4 DEF Followed
      <4>4. CASE pc = "bind_http" /\ kept' = Append(kept, n)
        <5>1. Range(kept') = Range(kept) \cup {n}
          BY <1>0, <4>2, <4>4, AppendList
        <5>2. Follows(kept, wanted)
          BY <4>4 DEF Followed
        <5>3. \A j \in Range(kept) :
                tasks'[j].addr = tasks[j].addr /\ tasks'[j].gen = tasks[j].gen
          BY <1>0, <2>a
        <5>4. Follows(kept, wanted)'
          BY <1>0, <2>0, <3>2, <4>0, <4>2, <5>1, <5>2, <5>3, FollowsMore DEF Follows
        <5> QED
          BY <2>0, <4>4, <5>4 DEF Followed
      <4> QED
        BY <3>2, <4>3, <4>4 DEF n
    <3> QED
      BY <2>1, <3>1, <3>2 DEF StartHttp, BindHttp
  <2>2. CASE StartStream \/ StartH3 \/ BindStream
    <3>1. /\ UNCHANGED http /\ lost \subseteq lost'
          /\ pc \in {"start_stream", "start_h3", "bind_stream"}
      BY <2>2 DEF StartStream, StartH3, BindStream
    <3>2. Follows(http, {})
      BY <3>1 DEF Followed
    <3>3. \A j \in Range(http) : tasks'[j].addr = tasks[j].addr /\ tasks'[j].gen = tasks[j].gen
      BY <1>0, <2>a
    <3>4. Follows(http, {})'
      BY <2>0, <3>1, <3>2, <3>3 DEF Follows
    <3> QED
      BY <2>0, <3>1, <3>4 DEF Followed
  <2> QED
    BY <1>4, <2>1, <2>2 DEF Spawning
<1>5. CASE Telling
  <2>1. CASE TellAll
    BY <2>1 DEF TellAll, Followed
  <2>2. ASSUME PushAcceptor \/ PushConfig \/ CloseHttp \/ DiffStream
        PROVE  /\ Head(queue) \in Ids /\ Head(queue) \in Range(queue) /\ queue # << >>
               /\ UNCHANGED <<applied, http, lost>> /\ Gen' = Gen /\ Current' = Current
               /\ pc \notin {"boot", "abort", "killed"} /\ Current \in Configs
    <3>1. queue # << >> /\ pc \notin {"boot", "abort", "killed"} /\ UNCHANGED <<applied, http, lost>>
      BY <2>2 DEF PushAcceptor, PushConfig, CloseHttp, DiffStream, Types, ListTypes
    <3> QED
      BY <1>0, <3>1, TailList, CurrentConfig DEF Gen, Current, Types
  <2>3. CASE PushAcceptor
    <3>1. UNCHANGED tasks \/ tasks' = [tasks EXCEPT ![Head(queue)].cert = Gen]
      BY <2>3 DEF PushAcceptor
    <3>2. SameTasks /\ SameGens
      BY <1>a, <2>2, <2>3, <3>1, NothingToTasks, SetCert DEF Types
    <3>3. \A j \in Ids : tasks'[j].addr = tasks[j].addr /\ tasks'[j].gen = tasks[j].gen
      BY <3>2 DEF SameTasks, SameTask, SameGens
    <3>4. /\ pc = "diff_http" /\ pc' = "push_cfg" /\ UNCHANGED <<queue, kept, wanted>>
          /\ WantedAt(tasks[Head(queue)].addr) # {}
      BY <2>3 DEF PushAcceptor
    <3>5. Follows(kept, wanted)'
      <4>1. Follows(kept, wanted)
        BY <3>4 DEF Followed
      <4>2. Gen' = Gen /\ Current' = Current /\ UNCHANGED <<kept, wanted, lost>>
        BY <2>2, <2>3, <3>4
      <4>3. \A j \in Range(kept) :
              tasks'[j].addr = tasks[j].addr /\ tasks'[j].gen = tasks[j].gen
        BY <1>0, <3>3
      <4> QED
        BY <4>1, <4>2, <4>3 DEF Follows
    <3>6. WantedAt(tasks[Head(queue)].addr)' # {}
      BY <2>2, <2>3, <3>3, <3>4 DEF WantedAt
    <3> QED
      BY <3>4, <3>5, <3>6 DEF Followed
  <2>4. CASE PushConfig
    <3>1. /\ pc = "push_cfg" /\ pc' = "diff_http" /\ kept' = Append(kept, Head(queue))
          /\ wanted' = wanted \ WantedAt(tasks[Head(queue)].addr)
          /\ tasks' = [tasks EXCEPT ![Head(queue)].gen = Gen]
      BY <2>4 DEF PushConfig
    <3>2. PICK e \in wanted : e.addr = tasks[Head(queue)].addr
      BY <3>1 DEF Followed, WantedAt
    <3>3. wanted \subseteq Current.http
      BY <3>1 DEF Types, MainTypes
    <3>4. wanted' = wanted \ {e}
      <4>1. \A f \in wanted : f.addr = e.addr => f = e
        BY <2>2, <2>4, <3>2, <3>3, SupervisorAssumption
      <4> QED
        BY <3>1, <3>2, <4>1 DEF WantedAt
    <3>5. /\ SameTasks /\ tasks'[Head(queue)].gen = Gen
          /\ \A j \in Ids : j # Head(queue) => tasks'[j].gen = tasks[j].gen
      BY <1>a, <2>2, <2>4, <3>1, SetGen DEF Types
    <3>6. Range(kept') = Range(kept) \cup {Head(queue)}
      BY <1>0, <2>2, <2>4, <3>1, AppendList, SMTT(30)
    <3>7. Follows(kept, wanted)
      BY <3>1 DEF Followed
    <3>8. \A j \in Range(kept) : tasks'[j].addr = tasks[j].addr /\ tasks'[j].gen = tasks[j].gen
      BY <1>0, <3>5, <3>7 DEF SameTasks, SameTask, Follows
    <3>9. tasks'[Head(queue)].addr = e.addr
      BY <2>2, <2>4, <3>2, <3>5 DEF SameTasks, SameTask
    <3>10. Follows(kept, wanted)'
      BY <1>0, <2>2, <2>4, <3>3, <3>4, <3>5, <3>6, <3>7, <3>8, <3>9, FollowsMore DEF Follows
    <3> QED
      BY <3>1, <3>10 DEF Followed
  <2>5. CASE CloseHttp
    <3>1. SameTasks /\ SameGens
      BY <2>2, <2>5, SetStop DEF CloseHttp, Types
    <3>2. /\ pc = "diff_http" /\ pc' = "diff_http" /\ UNCHANGED <<kept, wanted>>
      BY <2>5 DEF CloseHttp
    <3>3. \A j \in Ids : tasks'[j].addr = tasks[j].addr /\ tasks'[j].gen = tasks[j].gen
      BY <3>1 DEF SameTasks, SameTask, SameGens
    <3>4. Follows(kept, wanted)'
      BY <1>0, <2>2, <2>5, <3>2, <3>3 DEF Followed, Follows
    <3> QED
      BY <3>2, <3>4 DEF Followed
  <2>6. CASE DiffStream
    <3>1. \/ tasks' = [tasks EXCEPT ![Head(queue)].gen = Gen]
          \/ UNCHANGED tasks
          \/ tasks' = [tasks EXCEPT ![Head(queue)].stop = TRUE]
      BY <2>6 DEF DiffStream
    <3>2. /\ SameTasks
          /\ \A j \in Ids : tasks'[j].gen \in {Gen, tasks[j].gen}
      BY <1>a, <2>2, <2>6, <3>1, SetGen, SetStop, NothingToTasks DEF Types, SameGens
    <3>3. pc = "diff_stream" /\ pc' = "diff_stream"
      BY <2>6 DEF DiffStream
    <3>4. Follows(http, {})
      BY <3>3 DEF Followed
    <3>5. \A j \in Range(http) : tasks'[j].addr = tasks[j].addr /\ tasks'[j].gen = Gen
      BY <1>0, <3>2, <3>4 DEF SameTasks, SameTask, Follows
    <3>6. Follows(http, {})'
      BY <1>0, <2>2, <2>6, <3>4, <3>5 DEF Follows
    <3> QED
      BY <3>3, <3>6 DEF Followed
  <2> QED
    BY <1>5, <2>1, <2>3, <2>4, <2>5, <2>6 DEF Telling
<1> QED
  BY <1>2, <1>3, <1>4, <1>5, Cases

-----------------------------------------------------------------------------
(***************************************************************************)
(* Certificates                                                            *)
(***************************************************************************)

\* The tasks stay what they are, and their certificates only get newer.
Renewed ==
  \A j \in Ids :
    /\ tasks'[j].kind = tasks[j].kind
    /\ tasks'[j].addr = tasks[j].addr
    /\ tasks'[j].tls = tasks[j].tls
    /\ tasks'[j].cert >= tasks[j].cert

LEMMA TasksRenewed ==
  ASSUME Types, Next
  PROVE  Renewed
<1>0. \A j \in Ids : tasks[j].cert \in 1..Gen
  BY DEF Types, TaskTypes
<1>a. Gen \in Nat
  BY DEF Types, MainTypes, Gen
<1>1. ASSUME SameTasks, SameCerts PROVE Renewed
  BY <1>0, <1>a, <1>1 DEF Renewed, SameTasks, SameTask, SameCerts
<1>2. CASE Bookkeeping
  BY <1>1, <1>2, BookkeepingTasks, NothingToTasks DEF Types
<1>3. CASE Spawning
  <2>1. \A j \in Ids : tasks'[j] = tasks[j]
    BY <1>3, SpawningTasks DEF Spawned
  <2> QED
    BY <1>0, <1>a, <2>1 DEF Renewed
<1>4. CASE TellAll
  BY <1>1, <1>4, TellTasks DEF Types
<1>5. CASE PushAcceptor \/ PushConfig \/ CloseHttp \/ DiffStream
  <2> DEFINE i == Head(queue)
  <2>0. i \in Ids
    BY <1>5, TailList DEF PushAcceptor, PushConfig, CloseHttp, DiffStream, Types, ListTypes
  <2>1. \/ UNCHANGED tasks
        \/ tasks' = [tasks EXCEPT ![i].stop = TRUE]
        \/ tasks' = [tasks EXCEPT ![i].gen = Gen]
        \/ tasks' = [tasks EXCEPT ![i].cert = Gen]
    BY <1>5 DEF PushAcceptor, PushConfig, CloseHttp, DiffStream
  <2> HIDE DEF i
  <2>2. CASE tasks' = [tasks EXCEPT ![i].cert = Gen]
    <3>1. /\ SameTasks /\ tasks'[i].cert = Gen
          /\ \A j \in Ids : j # i => tasks'[j].cert = tasks[j].cert
      BY <1>a, <2>0, <2>2, SetCert DEF Types
    <3> QED
      BY <1>0, <1>a, <2>0, <3>1 DEF Renewed, SameTasks, SameTask
  <2> QED
    BY <1>1, <1>a, <2>0, <2>1, <2>2, NothingToTasks, SetStop, SetGen DEF Types
<1>6. CASE Working
  BY <1>1, <1>6, WorkingLeaves DEF Types
<1> QED
  BY <1>2, <1>3, <1>4, <1>5, <1>6, Cases DEF Telling

LEMMA ConnStaysCertified ==
  ASSUME Types, Next, NEW c \in Conns, ConnCertified(c), conns'[c] = conns[c]
  PROVE  ConnCertified(c)'
<1>1. CASE conns[c].state \in {"accepting", "open"}
  <2> DEFINE i == conns[c].at
  <2>1. i \in Ids /\ conns[c].cfg \in 1..Gen /\ conns[c].cert \in 1..Gen /\ Gen \in Nat
    BY <1>1, ConnAt, GenGrows DEF Types
  <2>2. /\ tasks'[i].kind = tasks[i].kind /\ tasks'[i].addr = tasks[i].addr
        /\ tasks'[i].tls = tasks[i].tls /\ tasks'[i].cert >= tasks[i].cert
    BY <2>1, TasksRenewed DEF Renewed
  <2>3. tasks[i].cert \in Nat /\ tasks'[i].cert \in Nat
    BY <2>1, TaskTypesStep, IdsGrow, GenGrows DEF Types, TaskTypes
  <2>4. conns'[c].at = i
    OBVIOUS
  <2>5. Tls(i)' => Tls(i)
    BY <2>2 DEF Tls
  <2>6. applied'[conns[c].cfg] = applied[conns[c].cfg]
    BY <2>1, GenGrows
  <2>7. ASSUME conns[c].state = "accepting", Tls(i)
        PROVE  \/ tasks'[i].cert >= conns[c].cfg
               \/ \E e \in applied'[conns[c].cfg].http : e.addr = tasks[i].addr /\ ~e.tls
    BY <2>1, <2>2, <2>3, <2>6, <2>7 DEF ConnCertified, Safe, PlainAt
  <2>8. ASSUME conns[c].state = "open", Tls(i)
        PROVE  \/ conns[c].cert >= conns[c].cfg
               \/ \E e \in applied'[conns[c].cfg].http : e.addr = tasks[i].addr /\ ~e.tls
    BY <2>6, <2>8 DEF ConnCertified, Safe, PlainAt
  <2> QED
    BY <2>2, <2>4, <2>5, <2>7, <2>8 DEF ConnCertified, Safe, PlainAt
<1>2. CASE conns[c].state \notin {"accepting", "open"}
  BY <1>2 DEF ConnCertified
<1> QED
  BY <1>1, <1>2

LEMMA TasksCertifiedStep ==
  ASSUME Types, Lists, Certified, Next
  PROVE  TasksCertified'
<1>0. Gen \in Nat /\ Gen' \in Nat
  BY GenGrows
<1>1. ASSUME NEW i \in Ids, tasks'[i].gen = tasks[i].gen, Tls(i)'
      PROVE  Safe(tasks[i].cert, tasks[i].gen, tasks[i].addr)'
  <2>1. /\ tasks'[i].kind = tasks[i].kind /\ tasks'[i].addr = tasks[i].addr
        /\ tasks'[i].tls = tasks[i].tls /\ tasks'[i].cert >= tasks[i].cert
    BY TasksRenewed DEF Renewed
  <2>2. Safe(tasks[i].cert, tasks[i].gen, tasks[i].addr)
    BY <1>1, <2>1 DEF Certified, TasksCertified, Tls
  <2>3. tasks[i].gen \in 1..Gen /\ tasks[i].cert \in Nat /\ tasks'[i].cert \in Nat
    BY <1>0, TaskTypesStep, IdsGrow DEF Types, TaskTypes
  <2>4. applied'[tasks[i].gen] = applied[tasks[i].gen]
    BY <2>3, GenGrows
  <2> QED
    BY <1>0, <1>1, <2>1, <2>2, <2>3, <2>4 DEF Safe, PlainAt
<1>2. ASSUME Ids' = Ids, SameGens PROVE TasksCertified'
  BY <1>1, <1>2 DEF TasksCertified, SameGens
<1>3. CASE Bookkeeping
  BY <1>2, <1>3, BookkeepingTasks, NothingToTasks DEF Types, SameTasks
<1>4. CASE Spawning
  <2>1. CASE UNCHANGED tasks
    BY <1>2, <2>1, NothingToTasks DEF Types, SameTasks
  <2>2. ASSUME NEW t \in Task, Spawned(Len(tasks) + 1, t), t.gen = Gen, t.cert = Gen
        PROVE  TasksCertified'
    <3> SUFFICES ASSUME NEW i \in Ids', Tls(i)'
                 PROVE  Safe(tasks[i].cert, tasks[i].gen, tasks[i].addr)'
      BY DEF TasksCertified
    <3>1. CASE i \in Ids
      <4>1. tasks'[i].gen = tasks[i].gen
        BY <2>2, <3>1 DEF Spawned
      <4> QED
        BY <1>1, <3>1, <4>1
    <3>2. CASE i \notin Ids
      <4>1. tasks'[i].cert = Gen /\ tasks'[i].gen = Gen
        BY <2>2, <3>2 DEF Spawned
      <4> QED
        BY <1>0, <4>1 DEF Safe
    <3> QED
      BY <3>1, <3>2
  <2> QED
    BY <1>4, <2>1, <2>2, SpawningTasks
<1>5. CASE TellAll
  BY <1>2, <1>5, TellTasks DEF Types, SameTasks
<1>6. CASE PushAcceptor \/ PushConfig \/ CloseHttp \/ DiffStream
  <2>0. PICK h \in Ids : h = Head(queue) /\ h \in Range(queue)
    BY <1>6, TailList DEF PushAcceptor, PushConfig, CloseHttp, DiffStream, Types, ListTypes
  <2>1. \/ UNCHANGED tasks
        \/ tasks' = [tasks EXCEPT ![h].stop = TRUE]
        \/ tasks' = [tasks EXCEPT ![h].cert = Gen]
        \/ tasks' = [tasks EXCEPT ![h].gen = Gen] /\ (PushConfig \/ DiffStream)
    BY <1>6, <2>0 DEF PushAcceptor, PushConfig, CloseHttp, DiffStream
  <2>2. UNCHANGED applied
    BY <1>6 DEF PushAcceptor, PushConfig, CloseHttp, DiffStream
  <2>3. PushConfig => (Tls(h) => Safe(tasks[h].cert, Gen, tasks[h].addr))
    BY <2>0 DEF PushConfig, Certified, PushCertified
  <2>4. DiffStream => tasks[h].kind \in {"tcp", "udp"}
    BY <2>0 DEF DiffStream, Lists, Looping, StreamPhase
  <2>5. CASE tasks' = [tasks EXCEPT ![h].gen = Gen] /\ (PushConfig \/ DiffStream)
    <3>1. /\ SameTasks /\ SameCerts /\ tasks'[h].gen = Gen
          /\ \A j \in Ids : j # h => tasks'[j].gen = tasks[j].gen
      BY <1>0, <2>0, <2>5, SetGen, ZenonT(60) DEF Types
    <3>2. Tls(h)' => Safe(tasks[h].cert, tasks[h].gen, tasks[h].addr)'
      <4>1. /\ tasks'[h].kind = tasks[h].kind /\ tasks'[h].addr = tasks[h].addr
            /\ tasks'[h].tls = tasks[h].tls /\ tasks'[h].cert = tasks[h].cert
        BY <2>0, <3>1 DEF SameTasks, SameTask, SameCerts
      <4> QED
        BY <2>2, <2>3, <2>4, <2>5, <3>1, <4>1 DEF Tls, Safe, PlainAt
    <3> SUFFICES ASSUME NEW i \in Ids', Tls(i)'
                 PROVE  Safe(tasks[i].cert, tasks[i].gen, tasks[i].addr)'
      BY DEF TasksCertified
    <3>3. i \in Ids
      BY <3>1 DEF SameTasks
    <3> QED
      BY <1>1, <3>1, <3>2, <3>3
  <2>6. CASE UNCHANGED tasks
    BY <1>2, <2>6, NothingToTasks DEF Types, SameTasks
  <2>7. CASE tasks' = [tasks EXCEPT ![h].stop = TRUE]
    BY <1>2, <2>0, <2>7, SetStop DEF Types, SameTasks
  <2>8. CASE tasks' = [tasks EXCEPT ![h].cert = Gen]
    BY <1>0, <1>2, <2>0, <2>8, SetCert DEF Types, SameTasks
  <2> QED
    BY <2>1, <2>5, <2>6, <2>7, <2>8
<1>7. CASE Working
  BY <1>2, <1>7, WorkingLeaves DEF Types, SameTasks
<1> QED
  BY <1>3, <1>4, <1>5, <1>6, <1>7, Cases DEF Telling

LEMMA PushCertifiedStep ==
  ASSUME Types, Certified, Next
  PROVE  PushCertified'
<1>1. CASE Working
  <2>1. UNCHANGED main /\ SameTasks /\ SameCerts
    BY <1>1, WorkingLeaves DEF Types
  <2>2. UNCHANGED <<pc, queue, applied>> /\ Gen' = Gen
    BY <2>1 DEF main, Gen
  <2>3. pc = "push_cfg" => Head(queue) \in Ids
    BY TailList DEF Types, ListTypes
  <2>4. pc = "push_cfg" =>
          /\ Tls(Head(queue))' => Tls(Head(queue))
          /\ tasks'[Head(queue)].addr = tasks[Head(queue)].addr
          /\ tasks'[Head(queue)].cert = tasks[Head(queue)].cert
    BY <2>1, <2>2, <2>3 DEF SameTasks, SameTask, SameCerts, Tls
  <2> QED
    BY <2>2, <2>4 DEF Certified, PushCertified, Safe, PlainAt
<1>2. CASE PushAcceptor
  <2> DEFINE h == Head(queue)
  <2>1. /\ pc = "diff_http" /\ UNCHANGED <<queue, applied>> /\ Gen' = Gen
        /\ h \in Ids /\ Gen \in Nat
    BY <1>2, TailList, GenGrows DEF PushAcceptor, Types, ListTypes, Gen
  <2>2. PICK e \in WantedAt(tasks[h].addr) :
          tasks' = IF tasks[h].tls /\ e.tls THEN [tasks EXCEPT ![h].cert = Gen] ELSE tasks
    BY <1>2 DEF PushAcceptor
  <2>3. e \in Current.http /\ e.addr = tasks[h].addr
    BY <2>1, <2>2 DEF WantedAt, Types, MainTypes, HttpPhase
  <2> HIDE DEF h
  <2>4. CASE tasks[h].tls /\ e.tls
    <3>1. tasks'[h].cert = Gen
      BY <2>1, <2>2, <2>4, SetCert DEF Types
    <3> QED
      BY <2>1, <3>1 DEF PushCertified, Safe, h
  <2>5. CASE tasks[h].tls /\ ~e.tls
    <3>1. UNCHANGED tasks
      BY <2>2, <2>5
    <3>2. \E f \in applied'[Gen'].http : f.addr = tasks'[h].addr /\ ~f.tls
      BY <2>1, <2>3, <2>5, <3>1 DEF Current
    <3> QED
      BY <2>1, <3>1, <3>2 DEF PushCertified, Safe, PlainAt, h
  <2>6. CASE ~tasks[h].tls
    <3>1. UNCHANGED tasks
      BY <2>2, <2>6
    <3> QED
      BY <2>1, <2>6, <3>1 DEF PushCertified, Tls, h
  <2> QED
    BY <2>4, <2>5, <2>6
<1>3. CASE Bookkeeping
  <2>1. pc' # "push_cfg"
    BY <1>3 DEF Bookkeeping, Boot, WritePid, ResolveUser, HttpStarted, StreamsStarted,
       StartFails, H3Started, End, DropPrivileges, Reload, HttpDiffed, HttpBound,
       StreamsDiffed, StreamsBound, Terminate, Exit, ExitFailed, Killed
  <2> QED
    BY <2>1 DEF PushCertified
<1>4. CASE Spawning \/ PushConfig \/ CloseHttp \/ DiffStream \/ TellAll
  <2>1. pc' # "push_cfg"
    BY <1>4 DEF Spawning, StartHttp, StartStream, StartH3, BindHttp, BindStream,
       PushConfig, CloseHttp, DiffStream, TellAll
  <2> QED
    BY <2>1 DEF PushCertified
<1> QED
  BY <1>1, <1>2, <1>3, <1>4, Cases DEF Telling

LEMMA CertifiedStep ==
  ASSUME Types, Lists, Certified, Next
  PROVE  Certified'
<1> SUFFICES ASSUME NEW c \in Conns PROVE ConnCertified(c)'
  BY TasksCertifiedStep, PushCertifiedStep DEF Certified
<1>0. ConnCertified(c)
  BY DEF Certified
<1>1. ASSUME conns'[c].state \notin {"accepting", "open"} PROVE ConnCertified(c)'
  BY <1>1 DEF ConnCertified
<1>2. ASSUME conns'[c] = conns[c] PROVE ConnCertified(c)'
  BY <1>0, <1>2, ConnStaysCertified
<1>3. ASSUME NEW S \in SUBSET Active, conns' = Cut(S) PROVE ConnCertified(c)'
  BY <1>1, <1>2, <1>3, CutConns DEF Types
<1>4. CASE Bookkeeping \/ Spawning \/ Telling
  BY <1>2, <1>3, <1>4, MainConns
<1>5. ASSUME NEW i \in Ids, TaskStep(i) PROVE ConnCertified(c)'
  <2>1. conns' = conns \/ conns' = Cut(OpenAt(i))
    BY <1>5 DEF TaskStep, BindH3, SeeStop, Drained
  <2>2. OpenAt(i) \in SUBSET Active
    BY DEF OpenAt, Active
  <2> QED
    BY <1>2, <1>3, <2>1, <2>2
<1>6. ASSUME NEW d \in Conns, NEW i \in Ids, Accept(d, i) PROVE ConnCertified(c)'
  <2>1. CASE d = c
    <3>1. /\ UNCHANGED <<main, tasks>> /\ conns'[c].at = i
          /\ Tls(i) => conns'[c].state = "accepting" /\ conns'[c].cfg = tasks[i].gen
      BY <1>6, <2>1, AcceptedConn
    <3>2. Tls(i) => Safe(tasks[i].cert, tasks[i].gen, tasks[i].addr)
      BY DEF Certified, TasksCertified
    <3>3. UNCHANGED applied
      BY <3>1 DEF main
    <3> QED
      BY <3>1, <3>2, <3>3 DEF ConnCertified, Safe, PlainAt, Tls
  <2> QED
    BY <1>2, <1>6, <2>1, AcceptedConn
<1>7. ASSUME NEW d \in Conns, TakeAcceptor(d) PROVE ConnCertified(c)'
  <2>1. CASE d = c
    <3>1. /\ UNCHANGED <<main, tasks>> /\ conns[c].state = "accepting"
          /\ conns'[c].state = "open" /\ conns'[c].at = conns[c].at
          /\ conns'[c].cfg = conns[c].cfg /\ conns'[c].cert = tasks[conns[c].at].cert
      BY <1>7, <2>1, TookAcceptor
    <3>2. UNCHANGED applied
      BY <3>1 DEF main
    <3> QED
      BY <1>0, <3>1, <3>2 DEF ConnCertified, Safe, PlainAt, Tls
  <2> QED
    BY <1>2, <1>7, <2>1, TookAcceptor
<1>8. ASSUME NEW d \in Conns, Finish(d) PROVE ConnCertified(c)'
  BY <1>1, <1>2, <1>8, Finished
<1> QED
  BY <1>4, <1>5, <1>6, <1>7, <1>8, Cases DEF Working

-----------------------------------------------------------------------------
(***************************************************************************)
(* Draining                                                                *)
(***************************************************************************)

\* The tasks the main task's steps start or leave, as far as draining goes.
LEMMA MainTasks ==
  ASSUME Types, Next, Bookkeeping \/ Spawning \/ Telling
  PROVE  /\ Ids \subseteq Ids'
         /\ \A j \in Ids : /\ tasks'[j].kind = tasks[j].kind
                           /\ tasks'[j].tls = tasks[j].tls
                           /\ tasks'[j].state = tasks[j].state
         /\ \A j \in Ids' \ Ids : /\ tasks'[j].state # "ended"
                                  /\ tasks'[j].state = "binding" => tasks'[j].kind = "h3"
<1>0. Gen \in Nat
  BY GenGrows
<1>1. ASSUME SameTasks, SameStates
      PROVE  /\ Ids' = Ids
             /\ \A j \in Ids : /\ tasks'[j].kind = tasks[j].kind
                               /\ tasks'[j].tls = tasks[j].tls
                               /\ tasks'[j].state = tasks[j].state
  BY <1>1 DEF SameTasks, SameTask, SameStates
<1>2. CASE Bookkeeping
  BY <1>1, <1>2, BookkeepingTasks, NothingToTasks DEF Types
<1>3. CASE Spawning
  <2>1. UNCHANGED tasks \/ \E t \in Task : Spawned(Len(tasks) + 1, t) /\ t.state # "ended"
                                           /\ (t.state = "binding" => t.kind = "h3")
    BY <1>3, SpawningTasks
  <2> QED
    BY <1>1, <2>1, NothingToTasks DEF Types, Spawned
<1>4. CASE TellAll
  BY <1>1, <1>4, TellTasks DEF Types
<1>5. CASE PushAcceptor \/ PushConfig \/ CloseHttp \/ DiffStream
  <2>0. PICK h \in Ids : h = Head(queue)
    BY <1>5, TailList DEF PushAcceptor, PushConfig, CloseHttp, DiffStream, Types, ListTypes
  <2>1. \/ UNCHANGED tasks
        \/ tasks' = [tasks EXCEPT ![h].stop = TRUE]
        \/ tasks' = [tasks EXCEPT ![h].gen = Gen]
        \/ tasks' = [tasks EXCEPT ![h].cert = Gen]
    BY <1>5, <2>0 DEF PushAcceptor, PushConfig, CloseHttp, DiffStream
  <2>2. SameTasks /\ SameStates
    BY <1>0, <2>1, NothingToTasks, SetStop, SetGen, SetCert DEF Types
  <2> QED
    BY <1>1, <2>2
<1> QED
  BY <1>2, <1>3, <1>4, <1>5 DEF Telling

LEMMA DrainsMain ==
  ASSUME Types, Lists, Drains, Next, Bookkeeping \/ Spawning \/ Telling
  PROVE  Drains'
<1>0. /\ Ids \subseteq Ids'
      /\ \A j \in Ids : /\ tasks'[j].kind = tasks[j].kind
                        /\ tasks'[j].tls = tasks[j].tls
                        /\ tasks'[j].state = tasks[j].state
      /\ \A j \in Ids' \ Ids : /\ tasks'[j].state # "ended"
                               /\ tasks'[j].state = "binding" => tasks'[j].kind = "h3"
  BY MainTasks
<1>1. \A c \in Conns : conns[c].state # "none" => conns[c].at \in Ids
  BY ConnAt DEF Types
<1>2. ASSUME \A i \in Ids : OpenAt(i)' \subseteq OpenAt(i) PROVE TasksDrain'
  <2> SUFFICES ASSUME NEW i \in Ids'
               PROVE  /\ tasks'[i].state = "binding" => tasks'[i].kind = "h3"
                      /\ PlainHttp(i)' /\ tasks'[i].state = "ended" => OpenAt(i)' = {}
    BY DEF TasksDrain
  <2>1. CASE i \in Ids
    BY <1>0, <1>2, <2>1 DEF Drains, TasksDrain, PlainHttp
  <2>2. CASE i \notin Ids
    BY <1>0, <2>2
  <2> QED
    BY <2>1, <2>2
<1>3. CASE UNCHANGED conns /\ Alive'
  <2>1. \A i \in Ids : OpenAt(i)' = OpenAt(i)
    BY <1>3 DEF OpenAt
  <2>2. Alive
    BY <1>3 DEF Alive, Bookkeeping, Boot, WritePid, ResolveUser, HttpStarted, StreamsStarted,
       StartFails, H3Started, End, DropPrivileges, Reload, HttpDiffed, HttpBound,
       StreamsDiffed, StreamsBound, Terminate, Exit, ExitFailed, Killed, Joined,
       Spawning, StartHttp, StartStream, StartH3, BindHttp, BindStream,
       Telling, PushAcceptor, PushConfig, CloseHttp, DiffStream, TellAll
  <2>3. OnlyQuicCut'
    BY <1>0, <1>1, <1>3, <2>2 DEF Drains, OnlyQuicCut
  <2> QED
    BY <1>2, <1>3, <2>1, <2>3 DEF Drains, ConfiguredDrained, Alive
<1>4. ASSUME conns' = Cut(Active), ~Alive',
             pc' \in {"exit", "failed"} => Exit \/ ExitFailed
      PROVE  Drains'
  <2>1. /\ \A c \in Active : conns'[c].state = "cut" /\ conns'[c].at = conns[c].at
        /\ \A c \in Conns \ Active : conns'[c] = conns[c]
    BY <1>4, CutConns DEF Types
  <2>2. \A c \in Conns : conns'[c].state \notin {"accepting", "open"}
    BY <2>1 DEF Active
  <2>3. \A i \in Ids : OpenAt(i)' = {}
    BY <2>2 DEF OpenAt
  <2>4. ASSUME Exit \/ ExitFailed, NEW c \in Conns, conns'[c].state = "cut", conns'[c].at \in Range(http')
        PROVE  tasks'[conns'[c].at].tls
    <3>1. UNCHANGED <<http, tasks>> /\ pc = "join" /\ \A i \in Range(http) : tasks[i].state = "ended"
      BY <2>4 DEF Exit, ExitFailed, Joined, Listed
    <3>2. Range(http) \subseteq Ids /\ \A i \in Range(http) : tasks[i].kind = "http"
      BY DEF Types, ListTypes, Listed, Lists
    <3>3. CASE c \in Active
      <4>1. conns[c].at \in Range(http) /\ c \in OpenAt(conns[c].at) /\ conns'[c].at = conns[c].at
        BY <2>1, <2>4, <3>1, <3>3 DEF Active, OpenAt
      <4>2. tasks[conns[c].at].tls
        BY <3>1, <3>2, <4>1 DEF Drains, TasksDrain, PlainHttp
      <4> QED
        BY <3>1, <4>1, <4>2
    <3>4. CASE c \notin Active
      <4>1. conns[c].state = "cut" /\ conns[c].at \in Range(http)
        BY <2>1, <2>4, <3>1, <3>4
      <4>2. tasks[conns[c].at].kind = "h3"
        BY <3>1, <4>1 DEF Drains, OnlyQuicCut, Alive
      <4> QED
        BY <3>2, <4>1, <4>2
    <3> QED
      BY <3>3, <3>4
  <2>5. ConfiguredDrained'
    BY <1>4, <2>4 DEF ConfiguredDrained
  <2>6. OnlyQuicCut'
    BY <1>4 DEF OnlyQuicCut, Alive
  <2> QED
    BY <1>2, <2>3, <2>5, <2>6 DEF Drains
<1>5. pc' \in {"exit", "failed", "abort", "killed"} => ~Alive'
  BY DEF Alive
<1> QED
  BY <1>3, <1>4, <1>5, MainConns

LEMMA DrainsWorking ==
  ASSUME Types, Drains, Working
  PROVE  Drains'
<1>0. Alive /\ UNCHANGED main /\ SameTasks
  BY WorkingLeaves DEF Types
<1>1. Ids' = Ids /\ \A j \in Ids : tasks'[j].kind = tasks[j].kind /\ tasks'[j].tls = tasks[j].tls
  BY <1>0 DEF SameTasks, SameTask
<1>2. pc' = pc /\ Alive' /\ ConfiguredDrained'
  BY <1>0 DEF main, Alive, ConfiguredDrained
<1>3. \A c \in Conns : conns[c].state # "none" => conns[c].at \in Ids
  BY ConnAt DEF Types
<1>4. \A c \in Conns : conns[c].state = "cut" => tasks[conns[c].at].kind = "h3"
  BY <1>0 DEF Drains, OnlyQuicCut
\* The tasks as they were, and the connections that may have changed.
<1>5. ASSUME UNCHANGED tasks, NEW c \in Conns, conns'[c].state # "cut",
             conns'[c].state \in {"accepting", "open"} => tasks[conns'[c].at].state # "ended"
                \/ (conns[c].state \in {"accepting", "open"} /\ conns'[c].at = conns[c].at),
             \A d \in Conns : d # c => conns'[d] = conns[d]
      PROVE  Drains'
  <2>1. OnlyQuicCut'
    BY <1>4, <1>5 DEF OnlyQuicCut
  <2>2. \A i \in Ids : tasks[i].state = "ended" => OpenAt(i)' \subseteq OpenAt(i)
    BY <1>5 DEF OpenAt
  <2>3. TasksDrain'
    BY <1>1, <1>5, <2>2 DEF Drains, TasksDrain, PlainHttp
  <2> QED
    BY <1>2, <2>1, <2>3 DEF Drains
<1>6. ASSUME NEW i \in Ids, TaskStep(i) PROVE Drains'
  <2>1. PICK v \in TaskStates : tasks' = [tasks EXCEPT ![i].state = v]
    BY <1>6 DEF TaskStep, BindH3, SeeStop, Drained, TaskStates
  <2>2. /\ tasks'[i].state = v
        /\ \A j \in Ids : j # i => tasks'[j].state = tasks[j].state
    BY <2>1, SetState DEF Types
  <2>3. CASE BindH3(i)
    <3>1. UNCHANGED conns /\ tasks[i].kind = "h3"
      BY <2>3 DEF BindH3, Drains, TasksDrain
    <3>2. \A j \in Ids : OpenAt(j)' = OpenAt(j)
      BY <3>1 DEF OpenAt
    <3>3. TasksDrain'
      BY <1>1, <2>2, <3>1, <3>2 DEF Drains, TasksDrain, PlainHttp
    <3>4. OnlyQuicCut'
      BY <1>1, <1>3, <1>4, <3>1 DEF OnlyQuicCut
    <3> QED
      BY <1>2, <3>3, <3>4 DEF Drains
  <2>4. CASE Drained(i)
    <3>1. UNCHANGED conns /\ (tasks[i].tls \/ OpenAt(i) = {}) /\ tasks'[i].state = "ended"
      BY <2>4, SetState DEF Drained, Types, TaskStates
    <3>2. \A j \in Ids : OpenAt(j)' = OpenAt(j)
      BY <3>1 DEF OpenAt
    <3>3. TasksDrain'
      BY <1>1, <2>2, <3>1, <3>2 DEF Drains, TasksDrain, PlainHttp
    <3>4. OnlyQuicCut'
      BY <1>1, <1>3, <1>4, <3>1 DEF OnlyQuicCut
    <3> QED
      BY <1>2, <3>3, <3>4 DEF Drains
  <2>5. CASE SeeStop(i)
    <3>1. tasks'[i].state = IF tasks[i].kind \in {"tcp", "udp"} THEN "ended" ELSE "draining"
      BY <2>5, SetState DEF SeeStop, Types, TaskStates
    <3>2. conns' = conns \/ (conns' = Cut(OpenAt(i)) /\ tasks[i].kind = "h3")
      BY <2>5 DEF SeeStop
    <3>3. CASE conns' = conns
      <4>1. \A j \in Ids : OpenAt(j)' = OpenAt(j)
        BY <3>3 DEF OpenAt
      <4>2. TasksDrain'
        BY <1>1, <2>2, <3>1, <4>1 DEF Drains, TasksDrain, PlainHttp
      <4>3. OnlyQuicCut'
        BY <1>1, <1>3, <1>4, <3>3 DEF OnlyQuicCut
      <4> QED
        BY <1>2, <4>2, <4>3 DEF Drains
    <3>4. CASE conns' = Cut(OpenAt(i)) /\ tasks[i].kind = "h3"
      <4>1. OpenAt(i) \in SUBSET Active
        BY DEF OpenAt, Active
      <4>2. /\ \A c \in OpenAt(i) : conns'[c].state = "cut" /\ conns'[c].at = i
            /\ \A c \in Conns \ OpenAt(i) : conns'[c] = conns[c]
        BY <3>4, <4>1, CutConns DEF Types, OpenAt
      <4>3. \A j \in Ids : OpenAt(j)' \subseteq OpenAt(j)
        BY <4>2 DEF OpenAt
      <4>4. TasksDrain'
        BY <1>1, <2>2, <3>1, <4>3 DEF Drains, TasksDrain, PlainHttp
      <4>5. OnlyQuicCut'
        BY <1>1, <1>3, <1>4, <3>4, <4>2 DEF OnlyQuicCut
      <4> QED
        BY <1>2, <4>4, <4>5 DEF Drains
    <3> QED
      BY <3>2, <3>3, <3>4
  <2> QED
    BY <1>6, <2>3, <2>4, <2>5 DEF TaskStep
<1>7. ASSUME NEW c \in Conns, NEW i \in Ids, Accept(c, i) PROVE Drains'
  BY <1>5, <1>7, AcceptedConn
<1>8. ASSUME NEW c \in Conns, TakeAcceptor(c) PROVE Drains'
  BY <1>5, <1>8, TookAcceptor
<1>9. ASSUME NEW c \in Conns, Finish(c) PROVE Drains'
  BY <1>5, <1>9, Finished
<1> QED
  BY <1>6, <1>7, <1>8, <1>9 DEF Working

-----------------------------------------------------------------------------
(***************************************************************************)
(* The theorems                                                            *)
(***************************************************************************)
LEMMA PidFileStep ==
  ASSUME Types, PidKept, Next
  PROVE  PidKept'
<1> USE DEF PidKept, PidFileLeft, Alive, Unready
<1>1. CASE Bookkeeping
  <2>1. CASE Boot
    BY <2>1 DEF Boot, End
  <2>2. CASE WritePid
    BY <2>2 DEF WritePid
  <2>3. CASE ResolveUser
    BY <2>3 DEF ResolveUser, CleanupPid, End
  <2>4. CASE StartFails
    BY <2>4 DEF StartFails, CleanupPid, End
  <2>5. CASE Exit
    BY <2>5 DEF Exit, Joined, CleanupPid, End
  <2>6. CASE ExitFailed
    BY <2>6 DEF ExitFailed, DropFailed, Joined, CleanupPid, End
  <2>7. CASE Killed
    BY <2>7 DEF Killed, End
  <2>8. CASE HttpStarted \/ StreamsStarted \/ H3Started \/ Terminate
    BY <2>8 DEF HttpStarted, StreamsStarted, H3Started, Terminate
  <2>9. CASE DropPrivileges
    <3>1. pc = "drop" /\ UNCHANGED <<applied, pidFile>> /\ applied # << >>
          /\ applied \in Seq(Configs)
      BY <2>9 DEF DropPrivileges, Types, MainTypes
    <3>2. pc' \in {"serve", "stop"} /\ (~root' => Current.user)
      BY <2>9 DEF DropPrivileges
    <3>3. Gen = 1
      BY <2>9, <3>1 DEF Gen, DropPrivileges
    <3> QED
      BY <3>1, <3>2, <3>3 DEF Current
  <2>10. CASE Reload
    <3>1. /\ pc = "serve" /\ pc' \in {"serve", "diff_http"} /\ UNCHANGED <<root, pidFile>>
          /\ applied \in Seq(Configs) /\ applied # << >>
          /\ applied' = applied \/ \E c \in Configs : applied' = Append(applied, c)
      BY <2>10 DEF Reload, Types, MainTypes
    <3> QED
      BY <3>1
  <2>11. CASE HttpDiffed \/ HttpBound \/ StreamsDiffed \/ StreamsBound
    BY <2>11 DEF HttpDiffed, HttpBound, StreamsDiffed, StreamsBound
  <2> QED
    BY <1>1, <2>1, <2>2, <2>3, <2>4, <2>5, <2>6, <2>7, <2>8, <2>9, <2>10, <2>11 DEF Bookkeeping
<1>2. CASE Spawning
  BY <1>2 DEF Spawning, StartHttp, StartStream, StartH3, BindHttp, BindStream
<1>3. CASE Telling
  BY <1>3 DEF Telling, PushAcceptor, PushConfig, CloseHttp, DiffStream, TellAll
<1>4. CASE Working
  BY <1>4, WorkingLeaves DEF Types, main
<1> QED
  BY <1>1, <1>2, <1>3, <1>4, Cases

LEMMA InitInv == Init => SupervisorInv
<1> SUFFICES ASSUME Init PROVE SupervisorInv
  OBVIOUS
<1> USE DEF Init
<1>1. Ids = {} /\ Gen = 0 /\ tasks \in Seq(Task)
  BY DEF Ids, Gen
<1>2. Types
  <2>1. MainTypes
    <3>1. /\ pc = "boot" /\ pc \in MainStates
          /\ pc \notin {"pid", "user", "start_http"} \cup HttpPhase \cup StreamPhase
      BY DEF MainStates, HttpPhase, StreamPhase
    <3>2. applied = << >> /\ applied \in Seq(Configs)
      OBVIOUS
    <3>3. root \in BOOLEAN /\ pidFile \in BOOLEAN
      OBVIOUS
    <3> QED
      BY <3>1, <3>2, <3>3, Zenon DEF MainTypes
  <2>2. TaskTypes
    BY <1>1 DEF TaskTypes
  <2>3. ListTypes
    BY <1>1, EmptyList DEF ListTypes, Listed
  <2>4. ConnTypes
    BY DEF ConnTypes
  <2> QED
    BY <2>1, <2>2, <2>3, <2>4 DEF Types
<1>3. Lists
  BY <1>1, EmptyList DEF Lists, Listed, HttpPhase, StreamPhase
<1>4. Followed
  BY DEF Followed, HttpPhase, StreamPhase
<1>5. Certified
  BY <1>1 DEF Certified, TasksCertified, PushCertified, ConnCertified, NoConn
<1>6. Drains
  BY <1>1 DEF Drains, TasksDrain, OnlyQuicCut, ConfiguredDrained, NoConn
<1> QED
  BY <1>2, <1>3, <1>4, <1>5, <1>6 DEF SupervisorInv, PidKept, PidFileLeft, Alive, Unready

LEMMA StepInv == SupervisorInv /\ [Next]_vars => SupervisorInv'
<1> SUFFICES ASSUME SupervisorInv, [Next]_vars PROVE SupervisorInv'
  OBVIOUS
<1> USE DEF SupervisorInv
<1>1. CASE Next
  <2>1. Drains'
    BY <1>1, DrainsMain, DrainsWorking, Cases
  <2> QED
    BY <1>1, <2>1, TypesStep, ListsStep, FollowedStep, CertifiedStep, PidFileStep
<1>2. CASE UNCHANGED vars
  <2>1. UNCHANGED <<pc, applied, root, pidFile, http, streams, h3, queue, kept, wanted, lost>>
        /\ UNCHANGED <<tasks, conns>>
    BY <1>2 DEF vars, main
  <2>2. Ids' = Ids /\ Gen' = Gen /\ Current' = Current /\ Listed' = Listed
    BY <2>1 DEF Ids, Gen, Current, Listed
  <2>3. Types'
    BY <2>1, <2>2 DEF Types, MainTypes, TaskTypes, ListTypes, ConnTypes, Conn
  <2>4. Lists'
    BY <2>1, <2>2 DEF Lists, Looping
  <2>5. Followed'
    BY <2>1, <2>2 DEF Followed, Follows, WantedAt
  <2>6. Certified'
    BY <2>1, <2>2
       DEF Certified, TasksCertified, PushCertified, ConnCertified, Tls, Safe, PlainAt
  <2>7. Drains'
    BY <2>1, <2>2 DEF Drains, TasksDrain, PlainHttp, OpenAt, OnlyQuicCut, Alive, ConfiguredDrained
  <2>8. PidKept'
    BY <2>1 DEF PidKept, PidFileLeft, Alive
  <2> QED
    BY <2>3, <2>4, <2>5, <2>6, <2>7, <2>8
<1> QED
  BY <1>1, <1>2

\* The inductive invariant: the supervisor's lists and loops account for every
\* listener task there is, through start-up, reloads and shutdown
\* (supervisor.rs 61-255), and the tasks and connections keep to what they were
\* started with (server.rs 60-165).
THEOREM SupervisorTracked == Spec => []SupervisorInv
BY InitInv, StepInv, PTL DEF Spec

\* Every variable keeps its type; in particular the supervisor's lists and the
\* lists of the loop that rebuilds them only ever name tasks that were spawned.
THEOREM TypeCorrect == Spec => []TypeOK
<1>1. SupervisorInv => TypeOK
  <2> SUFFICES ASSUME SupervisorInv PROVE TypeOK
    OBVIOUS
  <2> USE DEF SupervisorInv, Types
  <2>1. \A s \in Seq(Nat) : Range(s) \subseteq Ids => s \in Seq(Ids)
    BY DEF Range
  <2>2. {http, streams, h3, queue, kept} \subseteq Seq(Ids)
    BY <2>1 DEF ListTypes, Listed
  <2>3. \A i \in Ids :
          /\ tasks[i].kind \in Kinds /\ tasks[i].gen \in 1..Gen /\ tasks[i].cert \in 1..Gen
          /\ tasks[i].tls \in BOOLEAN /\ tasks[i].stop \in BOOLEAN
          /\ tasks[i].state \in TaskStates
    BY TaskAt DEF TaskTypes, Task
  <2>4. \A c \in Conns : conns[c].state \in ConnStates
    BY DEF ConnTypes, Conn, NoConn, ConnStates
  <2> QED
    BY <2>2, <2>3, <2>4 DEF TypeOK, MainTypes
<1> QED
  BY <1>1, SupervisorTracked, PTL

\* The Supervisor never loses a listener (supervisor.rs 131-234), whatever the
\* configurations and however binds fail: a task not told to stop is in a list or in
\* the loop that rebuilds it, and at rest no listed task has been told.
THEOREM ListenersKept == Spec => []NoOrphans
<1>1. SupervisorInv => NoOrphans
  BY DEF SupervisorInv, Lists, NoOrphans, HttpPhase, StreamPhase
<1> QED
  BY <1>1, SupervisorTracked, PTL

\* After every start and reload (supervisor.rs 61-188) exactly one HTTP listener
\* serves the newest configuration at each of its addresses that could be bound.
THEOREM HttpCorrect == Spec => []HttpFollowsConfig
<1>1. SupervisorInv => HttpFollowsConfig
  <2> SUFFICES ASSUME SupervisorInv, pc = "serve"
               PROVE  HttpFollowsConfig
    BY DEF HttpFollowsConfig
  <2>1. Follows(http, {}) /\ Inj(http)
    BY DEF SupervisorInv, Followed, Lists
  <2>2. \A n \in DOMAIN http : http[n] \in Range(http)
    BY DEF Range
  <2>3. \A n, m \in DOMAIN http : tasks[http[n]].addr = tasks[http[m]].addr => n = m
    BY <2>1, <2>2 DEF Follows, Inj
  <2> QED
    BY <2>1, <2>3 DEF Follows, HttpFollowsConfig
<1> QED
  BY <1>1, SupervisorTracked, PTL

\* No connection of a TLS listener is served with certificates older than its
\* configuration: server.rs 75-81 reads the two watch channels in the opposite order
\* to the one supervisor.rs 140-166 writes them in.
THEOREM CertsCorrect == Spec => []CertsNotOlder
<1>1. SupervisorInv => CertsNotOlder
  BY DEF SupervisorInv, Certified, ConnCertified, CertsNotOlder, Tls, Safe, PlainAt
<1> QED
  BY <1>1, SupervisorTracked, PTL

\* However a process ends by itself (main.rs 173, 185, 210, 242), its PID file is gone
\* unless it has given up the privileges it wrote it with: no failing exit leaves one.
THEOREM PidCorrect == Spec => []PidFileLeft
<1>1. SupervisorInv => PidFileLeft
  BY DEF SupervisorInv, PidKept
<1> QED
  BY <1>1, SupervisorTracked, PTL

\* A regular exit (supervisor.rs 236-255) has waited for every plain HTTP connection
\* of a listener that is still configured (server.rs 104-110, 161-163).
THEOREM DrainCorrect == Spec => []ConfiguredDrained
<1>1. SupervisorInv => ConfiguredDrained
  BY DEF SupervisorInv, Drains
<1> QED
  BY <1>1, SupervisorTracked, PTL
=============================================================================
