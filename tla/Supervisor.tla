----------------------------- MODULE Supervisor -----------------------------
(***************************************************************************)
(* The process: start-up (main), the Supervisor that owns the listeners,   *)
(* SIGHUP reloads, shutdown, and the listener tasks themselves (the accept *)
(* loops of server::run, stream::run, stream::run_udp and http3::run) with *)
(* the connections they accept.                                            *)
(*                                                                         *)
(* The main task and the listener tasks only share watch channels and the  *)
(* sockets: a listener learns that it must stop, or that there is a new    *)
(* configuration, when it looks; a port is free again when the old         *)
(* listener has let go of it.  Each send, bind and receive is a step.      *)
(***************************************************************************)
EXTENDS Naturals, Sequences, SequencesExt

CONSTANTS
  Configs,     \* valid configurations: [http : set of [addr, tls, h3],
               \*                        streams : Seq([addr, udp]),
               \*                        user : is there a `user` directive?]
  Broken,      \* a configuration that does not load or build
  Privileged,  \* addresses only root may bind
  Conns,       \* connections (for UDP: exchanges) that may be accepted
  MaxReloads,  \* bound on the number of reloads that apply a configuration
  MaxTasks     \* bound on the listener tasks that fairness speaks of

ASSUME SupervisorAssumption ==
  /\ Broken \notin Configs
  /\ MaxReloads \in Nat
  /\ MaxTasks \in Nat
  /\ \A c \in Configs :
       /\ c.http \subseteq [addr : {e.addr : e \in c.http}, tls : BOOLEAN, h3 : BOOLEAN]
       /\ \A e, f \in c.http : e.addr = f.addr => e = f
       /\ \A e \in c.http : e.h3 => e.tls
       /\ c.streams \in Seq([addr : {e.addr : e \in Range(c.streams)}, udp : BOOLEAN])
       /\ c.user \in BOOLEAN

VARIABLES
  pc,       \* where the main task is
  applied,  \* the configurations applied so far; its length is the generation
  root,     \* does the process still run as root?
  pidFile,  \* is there a PID file this process has written?
  tasks,    \* the listener tasks ever spawned
  http,     \* Supervisor.http_listeners, as positions in tasks
  streams,  \* Supervisor.stream_listeners
  h3,       \* Supervisor.h3_listeners
  queue,    \* listeners the current loop has not looked at yet
  kept,     \* listeners it keeps
  wanted,   \* entries of the configuration it has not found a listener for
  lost,     \* history: entries whose bind failed in the latest reload
  conns     \* the connections

main == <<pc, applied, root, pidFile, http, streams, h3, queue, kept, wanted, lost>>
vars == <<main, tasks, conns>>

Ids == DOMAIN tasks
Gen == Len(applied)
Current == applied[Gen]

Kinds == {"http", "tcp", "udp", "h3"}
TaskStates == {"binding", "running", "draining", "ended"}
ConnStates == {"none", "accepting", "open", "done", "cut"}
MainStates == {"boot", "pid", "user", "start_http", "start_stream", "start_h3", "drop", "serve",
               "diff_http", "push_cfg", "bind_http", "diff_stream", "bind_stream",
               "stop", "join", "exit", "failed", "abort", "killed"}

TypeOK ==
  /\ pc \in MainStates
  /\ applied \in Seq(Configs)
  /\ root \in BOOLEAN
  /\ pidFile \in BOOLEAN
  /\ \A i \in Ids :
       /\ tasks[i].kind \in Kinds
       /\ tasks[i].gen \in 1..Gen
       /\ tasks[i].cert \in 1..Gen
       /\ tasks[i].tls \in BOOLEAN
       /\ tasks[i].stop \in BOOLEAN
       /\ tasks[i].state \in TaskStates
  /\ {http, streams, h3, queue, kept} \subseteq Seq(Ids)
  /\ \A c \in Conns : conns[c].state \in ConnStates

NoConn == [state |-> "none"]

Init ==
  /\ pc = "boot"
  /\ applied = << >>
  /\ root = TRUE
  /\ pidFile = FALSE
  /\ tasks = << >>
  /\ http = << >>
  /\ streams = << >>
  /\ h3 = << >>
  /\ queue = << >>
  /\ kept = << >>
  /\ wanted = {}
  /\ lost = {}
  /\ conns = [c \in Conns |-> NoConn]

-----------------------------------------------------------------------------
(***************************************************************************)
(* Sockets and listener tasks                                              *)
(***************************************************************************)

OpenAt(i) == {c \in Conns : conns[c].state \in {"accepting", "open"} /\ conns[c].at = i}

Transport(kind) == IF kind \in {"http", "tcp"} THEN "tcp" ELSE "udp"

\* A task's socket is bound while it accepts.  A QUIC endpoint keeps it until it
\* is idle, and each UDP exchange holds a reference to its listener's.
HoldsSocket(i) ==
  \/ tasks[i].state = "running"
  \/ tasks[i].kind = "h3" /\ tasks[i].state = "draining"
  \/ tasks[i].kind = "udp" /\ OpenAt(i) # {}

CanBind(kind, addr) ==
  /\ addr \in Privileged => root
  /\ \A i \in Ids : HoldsSocket(i) =>
       tasks[i].addr # addr \/ Transport(tasks[i].kind) # Transport(kind)

NewTask(kind, addr, tls, state) ==
  [kind |-> kind, addr |-> addr, tls |-> tls, state |-> state, stop |-> FALSE,
   gen |-> Gen, cert |-> Gen, src |-> 0]

StreamKind(e) == IF e.udp THEN "udp" ELSE "tcp"

\* spawn_http, spawn_stream: bind, then spawn the accept loop.
SpawnHttp(e) ==
  /\ CanBind("http", e.addr)
  /\ tasks' = Append(tasks, NewTask("http", e.addr, e.tls, "running"))

SpawnStream(e) ==
  /\ CanBind(StreamKind(e), e.addr)
  /\ tasks' = Append(tasks, NewTask(StreamKind(e), e.addr, FALSE, "running"))

\* http3::run binds inside the task that was spawned.
BindH3(i) ==
  /\ tasks[i].state = "binding"
  /\ \/ /\ CanBind("h3", tasks[i].addr)
        /\ tasks' = [tasks EXCEPT ![i].state = "running"]
     \/ tasks' = [tasks EXCEPT ![i].state = "ended"]
  /\ UNCHANGED <<main, conns>>

\* The configuration a connection accepted by task i is given.
Snapshot(i) == IF tasks[i].kind = "h3" THEN tasks[tasks[i].src].gen ELSE tasks[i].gen

\* An accept loop takes a connection and its snapshot of the configuration; a
\* TLS listener then takes a snapshot of the acceptor.
Accept(c, i) ==
  /\ tasks[i].state = "running"
  /\ conns[c].state = "none"
  /\ \A d \in OpenAt(i) : conns[d].state # "accepting"
  /\ conns' = [conns EXCEPT ![c] =
       [state |-> IF tasks[i].tls /\ tasks[i].kind = "http" THEN "accepting" ELSE "open",
        at |-> i, cfg |-> Snapshot(i), cert |-> tasks[i].cert]]
  /\ UNCHANGED <<main, tasks>>

\* Mutant: the acceptor is read before the configuration.
TakeConfigLate(c) ==
  /\ conns[c].state = "accepting"
  /\ conns' = [conns EXCEPT ![c].cfg = Snapshot(conns[c].at), ![c].state = "open"]
  /\ UNCHANGED <<main, tasks>>

TakeAcceptor(c) ==
  /\ conns[c].state = "accepting"
  /\ conns' = [conns EXCEPT ![c].cert = tasks[conns[c].at].cert, ![c].state = "open"]
  /\ UNCHANGED <<main, tasks>>

\* The connection is over: served, or the client left.
Finish(c) ==
  /\ conns[c].state = "open"
  /\ conns' = [conns EXCEPT ![c].state = "done"]
  /\ UNCHANGED <<main, tasks>>

\* The connections in S that are cut off.
Cut(S) == [c \in Conns |-> IF c \in S THEN [conns[c] EXCEPT !.state = "cut"] ELSE conns[c]]

\* The accept loop sees the shutdown flag.  A stream loop just returns, an HTTP
\* loop drops its listener and drains, a QUIC endpoint closes its connections.
SeeStop(i) ==
  /\ tasks[i].state = "running"
  /\ tasks[i].stop
  /\ \A c \in OpenAt(i) : conns[c].state # "accepting"
  /\ tasks' = [tasks EXCEPT ![i].state =
                 IF tasks[i].kind \in {"tcp", "udp"} THEN "ended" ELSE "draining"]
  /\ conns' = IF tasks[i].kind = "h3" THEN Cut(OpenAt(i)) ELSE conns
  /\ UNCHANGED main

\* Mutant: the listener does not wait for its connections.
DrainedAtOnce(i) ==
  /\ tasks[i].state = "draining"
  /\ tasks' = [tasks EXCEPT ![i].state = "ended"]
  /\ UNCHANGED <<main, conns>>

\* GracefulShutdown waits for plain HTTP connections; TLS ones are not enrolled.
Drained(i) ==
  /\ tasks[i].state = "draining"
  /\ tasks[i].tls \/ OpenAt(i) = {}
  /\ tasks' = [tasks EXCEPT ![i].state = "ended"]
  /\ UNCHANGED <<main, conns>>

-----------------------------------------------------------------------------
(***************************************************************************)
(* Start-up                                                                *)
(***************************************************************************)

\* The process ends: its tasks and connections with it.
End(how) ==
  /\ pc' = how
  /\ conns' = Cut({c \in Conns : conns[c].state \in {"accepting", "open"}})

\* cleanup_pid_file ignores a removal that fails: the user the process has become
\* need not own the directory.
CleanupPid ==
  \/ pidFile' = FALSE
  \/ ~root /\ UNCHANGED pidFile

\* Load and build the configuration; nothing is to be cleaned up if that fails.
Boot ==
  /\ pc = "boot"
  /\ \/ /\ \E c \in Configs :
             /\ applied' = <<c>>
             /\ wanted' = c.http
        /\ pc' = "pid"
        /\ UNCHANGED conns
     \/ /\ End("abort")
        /\ UNCHANGED <<applied, wanted>>
  /\ UNCHANGED <<root, pidFile, tasks, http, streams, h3, queue, kept, lost>>

\* Write the PID file, if there is to be one; a failure is logged.
WritePid ==
  /\ pc = "pid"
  /\ pidFile' \in BOOLEAN
  /\ pc' = "user"
  /\ UNCHANGED <<applied, root, http, streams, h3, queue, kept, wanted, lost, tasks, conns>>

\* Mutant: a user that cannot be resolved ends the process on the spot.
ResolveUserReturns ==
  /\ pc = "user"
  /\ \/ /\ pc' = "start_http"
        /\ UNCHANGED conns
     \/ /\ Current.user
        /\ End("abort")
  /\ UNCHANGED <<applied, root, pidFile, http, streams, h3, queue, kept, wanted, lost, tasks>>

\* Resolve the user to become, who may not exist.
ResolveUser ==
  /\ pc = "user"
  /\ \/ /\ pc' = "start_http"
        /\ UNCHANGED <<pidFile, conns>>
     \/ /\ Current.user
        /\ CleanupPid
        /\ End("abort")
  /\ UNCHANGED <<applied, root, http, streams, h3, queue, kept, wanted, lost, tasks>>

\* Supervisor::start: any bind that fails ends the process.
StartHttp ==
  /\ pc = "start_http"
  /\ \E e \in wanted :
       /\ SpawnHttp(e)
       /\ http' = Append(http, Len(tasks) + 1)
       /\ wanted' = wanted \ {e}
  /\ UNCHANGED <<pc, applied, root, pidFile, streams, h3, queue, kept, lost, conns>>

HttpStarted ==
  /\ pc = "start_http"
  /\ wanted = {}
  /\ pc' = "start_stream"
  /\ UNCHANGED <<applied, root, pidFile, http, streams, h3, queue, kept, wanted, lost,
                 tasks, conns>>

StartStream ==
  /\ pc = "start_stream"
  /\ Len(streams) < Len(Current.streams)
  /\ SpawnStream(Current.streams[Len(streams) + 1])
  /\ streams' = Append(streams, Len(tasks) + 1)
  /\ UNCHANGED <<pc, applied, root, pidFile, http, h3, queue, kept, wanted, lost, conns>>

StreamsStarted ==
  /\ pc = "start_stream"
  /\ Len(streams) = Len(Current.streams)
  /\ pc' = "start_h3"
  /\ queue' = http
  /\ UNCHANGED <<applied, root, pidFile, http, streams, h3, kept, wanted, lost,
                 tasks, conns>>

StartFails ==
  /\ \/ pc = "start_http" /\ wanted # {}
     \/ pc = "start_stream" /\ Len(streams) < Len(Current.streams)
  /\ CleanupPid
  /\ End("abort")
  /\ UNCHANGED <<applied, root, http, streams, h3, queue, kept, wanted, lost, tasks>>

HasH3(i) == \E e \in Current.http : e.addr = tasks[i].addr /\ e.h3

\* An HTTP listener with h3 gets a sibling QUIC endpoint, which reads the
\* listener's configuration channel.  If its certificates will not do for QUIC that
\* is logged and the listener goes without.
StartH3 ==
  /\ pc = "start_h3"
  /\ queue # << >>
  /\ LET i == Head(queue)
     IN  \/ /\ HasH3(i)
            /\ tasks' = Append(tasks,
                 [NewTask("h3", tasks[i].addr, TRUE, "binding") EXCEPT !.src = i])
            /\ h3' = Append(h3, Len(tasks) + 1)
         \/ UNCHANGED <<tasks, h3>>
  /\ queue' = Tail(queue)
  /\ UNCHANGED <<pc, applied, root, pidFile, http, streams, kept, wanted, lost, conns>>

H3Started ==
  /\ pc = "start_h3"
  /\ queue = << >>
  /\ pc' = "drop"
  /\ UNCHANGED <<applied, root, pidFile, http, streams, h3, queue, kept, wanted, lost,
                 tasks, conns>>

\* privilege::drop_to; if it fails the process shuts down again.
DropPrivileges ==
  /\ pc = "drop"
  /\ \/ /\ Current.user
        /\ root' = FALSE
        /\ pc' = "serve"
     \/ /\ Current.user
        /\ pc' = "stop"
        /\ UNCHANGED root
     \/ /\ ~Current.user
        /\ pc' = "serve"
        /\ UNCHANGED root
  /\ UNCHANGED <<applied, pidFile, http, streams, h3, queue, kept, wanted, lost,
                 tasks, conns>>

-----------------------------------------------------------------------------
(***************************************************************************)
(* Reload                                                                  *)
(***************************************************************************)

\* SIGHUP: re-read the file.  A configuration that does not load or build leaves
\* everything as it is; a valid one starts reload_http.
Reload ==
  /\ pc = "serve"
  /\ \E c \in Configs \cup {Broken} :
       \/ /\ c = Broken
          /\ UNCHANGED <<pc, applied, queue, kept, wanted, lost>>
       \/ /\ c \in Configs
          /\ Gen <= MaxReloads
          /\ applied' = Append(applied, c)
          /\ wanted' = c.http
          /\ queue' = http
          /\ kept' = << >>
          /\ lost' = {}
          /\ pc' = "diff_http"
  /\ UNCHANGED <<root, pidFile, http, streams, h3, tasks, conns>>

WantedAt(addr) == {e \in wanted : e.addr = addr}

\* reload_http looks at its next listener.  If the address is still wanted it
\* pushes the acceptor first (unless TLS was switched on or off) ...
PushAcceptor ==
  /\ pc = "diff_http"
  /\ queue # << >>
  /\ LET i == Head(queue)
     IN  \E e \in WantedAt(tasks[i].addr) :
           tasks' = IF tasks[i].tls /\ e.tls THEN [tasks EXCEPT ![i].cert = Gen] ELSE tasks
  /\ pc' = "push_cfg"
  /\ UNCHANGED <<applied, root, pidFile, http, streams, h3, queue, kept, wanted, lost, conns>>

\* ... and the configuration second.
PushConfig ==
  /\ pc = "push_cfg"
  /\ LET i == Head(queue)
     IN  /\ tasks' = [tasks EXCEPT ![i].gen = Gen]
         /\ kept' = Append(kept, i)
         /\ wanted' = wanted \ WantedAt(tasks[i].addr)
  /\ queue' = Tail(queue)
  /\ pc' = "diff_http"
  /\ UNCHANGED <<applied, root, pidFile, http, streams, h3, lost, conns>>

\* Mutant: a listener whose address is gone stays.
CloseHttpKeeps ==
  /\ pc = "diff_http"
  /\ queue # << >>
  /\ WantedAt(tasks[Head(queue)].addr) = {}
  /\ kept' = Append(kept, Head(queue))
  /\ queue' = Tail(queue)
  /\ UNCHANGED <<pc, applied, root, pidFile, http, streams, h3, wanted, lost, tasks, conns>>

\* A listener whose address is gone is told to stop; nobody waits for it.
CloseHttp ==
  /\ pc = "diff_http"
  /\ queue # << >>
  /\ WantedAt(tasks[Head(queue)].addr) = {}
  /\ tasks' = [tasks EXCEPT ![Head(queue)].stop = TRUE]
  /\ queue' = Tail(queue)
  /\ UNCHANGED <<pc, applied, root, pidFile, http, streams, h3, kept, wanted, lost, conns>>

HttpDiffed ==
  /\ pc = "diff_http"
  /\ queue = << >>
  /\ pc' = "bind_http"
  /\ UNCHANGED <<applied, root, pidFile, http, streams, h3, queue, kept, wanted, lost,
                 tasks, conns>>

\* Mutant: the new listener is not recorded.
BindHttpForgets ==
  /\ pc = "bind_http"
  /\ \E e \in wanted :
       /\ wanted' = wanted \ {e}
       /\ \/ SpawnHttp(e) /\ UNCHANGED lost
          \/ lost' = lost \cup {e} /\ UNCHANGED tasks
  /\ UNCHANGED <<pc, applied, root, pidFile, http, streams, h3, queue, kept, conns>>

\* Mutant: an address that could not be bound is recorded all the same.
BindHttpAssumes ==
  /\ pc = "bind_http"
  /\ \E e \in wanted :
       /\ wanted' = wanted \ {e}
       /\ \/ SpawnHttp(e) /\ UNCHANGED lost
          \/ lost' = lost \cup {e} /\ UNCHANGED tasks
  /\ kept' = Append(kept, Len(tasks) + 1)
  /\ UNCHANGED <<pc, applied, root, pidFile, http, streams, h3, queue, conns>>

\* A new address is bound; a failure is logged and the reload goes on.
BindHttp ==
  /\ pc = "bind_http"
  /\ \E e \in wanted :
       /\ wanted' = wanted \ {e}
       /\ \/ /\ SpawnHttp(e)
             /\ kept' = Append(kept, Len(tasks) + 1)
             /\ UNCHANGED lost
          \/ /\ lost' = lost \cup {e}
             /\ UNCHANGED <<tasks, kept>>
  /\ UNCHANGED <<pc, applied, root, pidFile, http, streams, h3, queue, conns>>

\* The HashMap reload_stream builds: the last entry of each address.
LastPerAddr(s) ==
  {s[i] : i \in {j \in DOMAIN s : \A n \in DOMAIN s : n > j => s[n].addr # s[j].addr}}

HttpBound ==
  /\ pc = "bind_http"
  /\ wanted = {}
  /\ http' = kept
  /\ kept' = << >>
  /\ queue' = streams
  /\ wanted' = LastPerAddr(Current.streams)
  /\ pc' = "diff_stream"
  /\ UNCHANGED <<applied, root, pidFile, streams, h3, lost, tasks, conns>>

\* reload_stream looks at its next listener: the entry of its address is used up,
\* the balancer is pushed if the transport is the same.
DiffStream ==
  /\ pc = "diff_stream"
  /\ queue # << >>
  /\ LET i == Head(queue)
         found == WantedAt(tasks[i].addr)
     IN  /\ \/ /\ \E e \in found :
                    tasks' = IF e.udp = (tasks[i].kind = "udp")
                             THEN [tasks EXCEPT ![i].gen = Gen]
                             ELSE tasks
               /\ kept' = Append(kept, i)
            \/ /\ found = {}
               /\ tasks' = [tasks EXCEPT ![i].stop = TRUE]
               /\ UNCHANGED kept
         /\ wanted' = wanted \ found
  /\ queue' = Tail(queue)
  /\ UNCHANGED <<pc, applied, root, pidFile, http, streams, h3, lost, conns>>

StreamsDiffed ==
  /\ pc = "diff_stream"
  /\ queue = << >>
  /\ pc' = "bind_stream"
  /\ UNCHANGED <<applied, root, pidFile, http, streams, h3, queue, kept, wanted, lost,
                 tasks, conns>>

BindStream ==
  /\ pc = "bind_stream"
  /\ \E e \in wanted :
       /\ wanted' = wanted \ {e}
       /\ \/ /\ SpawnStream(e)
             /\ kept' = Append(kept, Len(tasks) + 1)
             /\ UNCHANGED lost
          \/ /\ lost' = lost \cup {e}
             /\ UNCHANGED <<tasks, kept>>
  /\ UNCHANGED <<pc, applied, root, pidFile, http, streams, h3, queue, conns>>

StreamsBound ==
  /\ pc = "bind_stream"
  /\ wanted = {}
  /\ streams' = kept
  /\ kept' = << >>
  /\ pc' = "serve"
  /\ UNCHANGED <<applied, root, pidFile, http, h3, queue, wanted, lost, tasks, conns>>

-----------------------------------------------------------------------------
(***************************************************************************)
(* Shutdown                                                                *)
(***************************************************************************)

\* SIGTERM or SIGINT.
Terminate ==
  /\ pc = "serve"
  /\ pc' = "stop"
  /\ UNCHANGED <<applied, root, pidFile, http, streams, h3, queue, kept, wanted, lost,
                 tasks, conns>>

Listed == Range(http) \cup Range(streams) \cup Range(h3)

\* Mutant: the QUIC endpoints are not told.
TellAllButQuic ==
  /\ pc = "stop"
  /\ tasks' = [i \in Ids |-> IF i \in Listed \ Range(h3)
                             THEN [tasks[i] EXCEPT !.stop = TRUE] ELSE tasks[i]]
  /\ pc' = "join"
  /\ UNCHANGED <<applied, root, pidFile, http, streams, h3, queue, kept, wanted, lost, conns>>

\* Supervisor::shutdown: tell every listener, then wait for every one.
TellAll ==
  /\ pc = "stop"
  /\ tasks' = [i \in Ids |-> IF i \in Listed THEN [tasks[i] EXCEPT !.stop = TRUE] ELSE tasks[i]]
  /\ pc' = "join"
  /\ UNCHANGED <<applied, root, pidFile, http, streams, h3, queue, kept, wanted, lost, conns>>

\* The privileges could not be dropped: the process is root although it should not.
DropFailed == root /\ applied[1].user

Joined == pc = "join" /\ \A i \in Listed : tasks[i].state = "ended"

\* Everything has been joined: the end of a process that was told to stop ...
Exit ==
  /\ Joined
  /\ ~DropFailed
  /\ CleanupPid
  /\ End("exit")
  /\ UNCHANGED <<applied, root, http, streams, h3, queue, kept, wanted, lost, tasks>>

\* ... and of one that could not drop its privileges.
ExitFailed ==
  /\ Joined
  /\ DropFailed
  /\ CleanupPid
  /\ End("failed")
  /\ UNCHANGED <<applied, root, http, streams, h3, queue, kept, wanted, lost, tasks>>

\* wait_for_signals installs the handlers: before that SIGTERM, SIGINT, SIGHUP and
\* SIGUSR1 have their default disposition and end the process.
Killed ==
  /\ \/ pc \in {"boot", "pid", "user", "start_http", "start_stream", "start_h3", "drop"}
     \/ pc \in {"stop", "join"} /\ DropFailed
  /\ End("killed")
  /\ UNCHANGED <<applied, root, pidFile, http, streams, h3, queue, kept, wanted, lost, tasks>>

-----------------------------------------------------------------------------
MainStep ==
  \/ WritePid \/ ResolveUser
  \/ StartHttp \/ HttpStarted \/ StartStream \/ StreamsStarted \/ StartH3 \/ H3Started
  \/ DropPrivileges
  \/ PushAcceptor \/ PushConfig \/ CloseHttp \/ HttpDiffed \/ BindHttp \/ HttpBound
  \/ DiffStream \/ StreamsDiffed \/ BindStream \/ StreamsBound
  \/ TellAll \/ Exit \/ ExitFailed

\* The tasks of a process that has ended take no more steps.
Alive == pc \notin {"exit", "failed", "abort", "killed"}

TaskStep(i) == Alive /\ (BindH3(i) \/ SeeStop(i) \/ Drained(i))

Next ==
  \/ Boot \/ StartFails \/ MainStep \/ Reload \/ Terminate \/ Killed
  \/ \E i \in Ids : TaskStep(i)
  \/ \E c \in Conns :
       /\ Alive
       /\ \/ \E i \in Ids : Accept(c, i)
          \/ TakeAcceptor(c) \/ Finish(c)

Spec == Init /\ [][Next]_vars

\* The executor runs every task that can run.
Fairness ==
  /\ WF_vars(MainStep)
  /\ \A i \in 1..MaxTasks : WF_vars(i \in Ids /\ TaskStep(i))
  /\ \A c \in Conns : WF_vars(Alive /\ TakeAcceptor(c))

FairSpec == Spec /\ Fairness

-----------------------------------------------------------------------------
(***************************************************************************)
(* Properties                                                              *)
(***************************************************************************)

\* The Supervisor never loses a listener (supervisor.rs 131-234): one that has not
\* been told to stop is in one of its lists, or in the loop that rebuilds them, so
\* that a later reload or shutdown reaches it; one in the lists has not been told.
NoOrphans ==
  /\ \A i \in Ids : ~tasks[i].stop => i \in Listed \cup Range(kept)
  /\ pc = "serve" => \A i \in Listed : ~tasks[i].stop

\* After every start and reload (supervisor.rs 61-188) there is exactly one HTTP
\* listener, serving the new configuration, for each address of the configuration
\* whose bind did not fail in that reload.  (A listener that is kept stays with or
\* without TLS, as it was.)
HttpFollowsConfig ==
  pc = "serve" =>
    /\ \A n, m \in DOMAIN http : tasks[http[n]].addr = tasks[http[m]].addr => n = m
    /\ \A i \in Range(http) :
         tasks[i].gen = Gen /\ \E e \in Current.http : e.addr = tasks[i].addr
    /\ \A e \in Current.http :
         e \in lost \/ \E i \in Range(http) : tasks[i].addr = e.addr

\* A connection may be served with certificates newer than its configuration but
\* never with older ones (server.rs 75-81 reads the two channels in the opposite
\* order to the one supervisor.rs 140-166 writes them in).
CertsNotOlder ==
  \A c \in Conns :
    (conns[c].state = "open" /\ tasks[conns[c].at].kind = "http" /\ tasks[conns[c].at].tls)
      => \/ conns[c].cert >= conns[c].cfg
         \/ \E e \in applied[conns[c].cfg].http :
              e.addr = tasks[conns[c].at].addr /\ ~e.tls

\* A process that ends by itself, by whichever of its exits (main.rs 173, 185, 210,
\* 242), leaves its PID file behind only if it is no longer root, which may keep it
\* from removing it (main.rs 248); one that cannot drop its privileges never does.
PidFileLeft ==
  pidFile /\ ~Alive /\ pc # "killed" => pc = "exit" /\ ~root /\ applied[1].user

\* Shutdown waits for the plain HTTP connections of every listener that is still
\* configured (server.rs 104-110, 161-163; supervisor.rs 236-255).
ConfiguredDrained ==
  pc \in {"exit", "failed"} =>
    \A c \in Conns :
      (conns[c].state = "cut" /\ conns[c].at \in Range(http)) => tasks[conns[c].at].tls

\* Once told to stop, the process ends, provided its connections do: nothing in
\* Supervisor::shutdown waits for a task that cannot finish.
StopEnds ==
  (\A c \in Conns : conns[c].state = "open" ~> conns[c].state # "open")
    => (pc = "stop" ~> ~Alive)

-----------------------------------------------------------------------------
(***************************************************************************)
(* What the documents say and the code does not do                         *)
(***************************************************************************)

\* docs/security-model.md 89-90: "Graceful shutdown drains plain HTTP/1.1
\* connections via hyper-util's `GracefulShutdown`".
PlainHttpDrained ==
  pc = "exit" =>
    \A c \in Conns :
      conns[c].state = "cut" => tasks[conns[c].at].kind # "http" \/ tasks[conns[c].at].tls

\* docs/architecture.md 125-128: "Address still present: push the new state (and
\* balancer, for `stream`) into the listener's `watch::Sender`."
StillPresentKept ==
  pc = "serve" /\ Gen > 1 =>
    \A e \in Range(Current.streams) \cap Range(applied[Gen - 1].streams) :
      \/ e \in lost
      \/ \E i \in Range(streams) :
           tasks[i].addr = e.addr /\ tasks[i].kind = StreamKind(e) /\ tasks[i].gen = Gen

\* privilege.rs 13-14: "bind every socket (listeners + QUIC endpoints)", then
\* "drop privileges".
BoundBeforeDrop == ~root => \A i \in Ids : tasks[i].state # "binding"
=============================================================================
