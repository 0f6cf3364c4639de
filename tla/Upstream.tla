------------------------------ MODULE Upstream ------------------------------
(***************************************************************************)
(* One upstream group: app::Balancer and its app::Peers, shared by every   *)
(* task that uses the group:                                               *)
(*                                                                         *)
(*   "cached_get"  a GET at a location with proxy_cache (a cache miss)     *)
(*   "retry_safe"  any other GET, HEAD, OPTIONS or DELETE                  *)
(*   "once"        a request of another method: forward_once_with_incoming *)
(*   "tcp", "udp"  a relayed stream session                                *)
(*   "probe"       one active health probe                                 *)
(*                                                                         *)
(* Peers carry three relaxed atomics and no lock, so every load, store and *)
(* fetch_add that another task can observe is a step of its own: the scan  *)
(* for eligible peers, the choice among them, entering the peer, the two   *)
(* stores of record_success, and the fetch_add, clock read and store of    *)
(* record_failure.  (The loads of one scan are one step.)  A task runs     *)
(* once; several tasks stand for the requests of a busy server.            *)
(***************************************************************************)
EXTENDS Naturals, Sequences, FiniteSetsExt

CONSTANTS
  Peers,        \* positions of the peers in the upstream block, from 1
  Addr,         \* Addr[p]: host:port of the peer (a block may repeat one)
  Weight,       \* Weight[p]: the weight parameter, possibly 0
  MaxFails,     \* max_fails, the same for every peer, possibly 0
  FailTimeout,  \* fail_timeout in clock ticks
  Backups,      \* peers marked backup
  DownPeers,    \* peers marked down
  Methods,      \* load-balancing methods to consider
  Tasks,        \* the tasks that may run
  KindsOf,      \* KindsOf[t]: what task t may be
  ClientHash,   \* ClientHash[t]: DefaultHasher of the client's IP
  MaxTime,      \* bound on the wall clock
  None          \* no peer

AllMethods == {"round_robin", "least_conn", "ip_hash"}
AllKinds == {"cached_get", "retry_safe", "once", "tcp", "udp", "probe"}

\* Requests answered through proxy::forward's retry loop.
Retried == {"cached_get", "retry_safe"}

ASSUME UpstreamAssumption ==
  /\ Peers \subseteq Nat \ {0}
  /\ IsFiniteSet(Peers)
  /\ DOMAIN Addr = Peers
  /\ Weight \in [Peers -> Nat]
  /\ MaxFails \in Nat
  /\ FailTimeout \in Nat
  /\ Backups \subseteq Peers
  /\ DownPeers \subseteq Peers
  /\ Methods \subseteq AllMethods
  /\ IsFiniteSet(Tasks)
  /\ KindsOf \in [Tasks -> SUBSET AllKinds]
  /\ ClientHash \in [Tasks -> Nat]
  /\ MaxTime \in Nat
  /\ None \notin Peers

VARIABLES
  method,       \* Balancer.method, fixed by the configuration
  now,          \* the wall clock now_ms() reads; 0 is before any request
  rr,           \* Balancer.rr_counter
  inFlight,     \* Peer.in_flight
  fails,        \* Peer.consecutive_failures
  failedUntil,  \* Peer.failed_until_ms, 0 = healthy
  pc,           \* where each task is
  kind,         \* what each task is, "none" before it starts
  peer,         \* upstream_peer of the current attempt
  pool,         \* the eligible peers of the last scan
  excluded,     \* addresses that already failed for this request
  attempt,      \* index of the retry loop
  last,         \* the peer whose 5xx response is kept in `last`
  due,          \* `until` computed but not yet stored by record_failure
  guard,        \* the peer whose InflightGuard the task owns
  sentTo,       \* history: addresses the task was sent to
  answer        \* what the client got

peerVars == <<inFlight, fails, failedUntil>>
taskVars == <<pc, kind, peer, pool, excluded, attempt, last, due,
              guard, sentTo, answer>>
vars == <<method, now, rr, peerVars, taskVars>>

Addrs == {Addr[p] : p \in Peers}

Answers == {"none", "upstream", "upstream_5xx", "bad_gateway", "gone", "closed"}
Locations == {"idle", "probe", "pick", "choose", "enter", "wait", "clear_fails",
              "clear_until", "count_failure", "read_clock", "store_until",
              "after_success", "after_failure", "collect", "stream", "done"}

TypeOK ==
  /\ method \in AllMethods
  /\ now \in Nat
  /\ rr \in Nat
  /\ inFlight \in [Peers -> Nat]
  /\ fails \in [Peers -> Nat]
  /\ failedUntil \in [Peers -> Nat]
  /\ pc \in [Tasks -> Locations]
  /\ kind \in [Tasks -> AllKinds \cup {"none"}]
  /\ peer \in [Tasks -> Peers \cup {None}]
  /\ pool \in [Tasks -> SUBSET Peers]
  /\ excluded \in [Tasks -> SUBSET Addrs]
  /\ attempt \in [Tasks -> Nat]
  /\ last \in [Tasks -> Peers \cup {None}]
  /\ due \in [Tasks -> Nat]
  /\ guard \in [Tasks -> Peers \cup {None}]
  /\ sentTo \in [Tasks -> Seq(Addrs)]
  /\ answer \in [Tasks -> Answers]

Init ==
  /\ method \in Methods
  /\ now = 1
  /\ rr = 0
  /\ inFlight = [p \in Peers |-> 0]
  /\ fails = [p \in Peers |-> 0]
  /\ failedUntil = [p \in Peers |-> 0]
  /\ pc = [t \in Tasks |-> "idle"]
  /\ kind = [t \in Tasks |-> "none"]
  /\ peer = [t \in Tasks |-> None]
  /\ pool = [t \in Tasks |-> {}]
  /\ excluded = [t \in Tasks |-> {}]
  /\ attempt = [t \in Tasks |-> 0]
  /\ last = [t \in Tasks |-> None]
  /\ due = [t \in Tasks |-> 0]
  /\ guard = [t \in Tasks |-> None]
  /\ sentTo = [t \in Tasks |-> << >>]
  /\ answer = [t \in Tasks |-> "none"]

-----------------------------------------------------------------------------
(***************************************************************************)
(* Picking a peer                                                          *)
(***************************************************************************)

\* Mutant: `down` is not looked at.
AvailableAfterCooldown(p, n) == failedUntil[p] = 0 \/ n >= failedUntil[p]

\* is_available at clock reading n.
IsAvailable(p, n) ==
  /\ p \notin DownPeers
  /\ failedUntil[p] = 0 \/ n >= failedUntil[p]

\* Peers of S that a scan with exclusions ex may pick.
Eligible(S, ex) == {p \in S : IsAvailable(p, now) /\ Addr[p] \notin ex}

\* pick_inner's pool: the primaries, or the backups if no primary is left.
PickPool(ex) ==
  LET primaries == Eligible(Peers \ Backups, ex)
  IN  IF primaries # {} THEN primaries ELSE Eligible(Backups, ex)

Effective == [p \in Peers |-> IF Weight[p] = 0 THEN 1 ELSE Weight[p]]

Before(p, S) == {q \in S : q < p}

\* pick_weighted_rr: the peer whose slice of the weights holds counter value i.
RoundRobin(p, S, i) ==
  LET start  == SumFunctionOnSet(Effective, Before(p, S))
      target == i % SumFunctionOnSet(Effective, S)
  IN  start <= target /\ target < start + Effective[p]

\* pick_least_conn: the first peer with the least load for its weight.
Score(p) == (inFlight[p] * 1000000) \div Effective[p]

LeastConn(p, S) ==
  \A q \in S : Score(p) < Score(q) \/ (Score(p) = Score(q) /\ p <= q)

\* pick_ip_hash: the peer at index hash % len of the pool.
IpHash(p, S, h) == Cardinality(Before(p, S)) = h % Cardinality(S)

Selected(p, S, t) ==
  \/ method = "round_robin" /\ RoundRobin(p, S, rr)
  \/ method = "least_conn"  /\ LeastConn(p, S)
  \/ method = "ip_hash"     /\ IpHash(p, S, ClientHash[t])

\* How many peers a task of kind k may be sent to: MAX_ATTEMPTS capped by the
\* size of the block in the retry loop, otherwise one.
MaxAttempts == 3
Budget == [k \in AllKinds |->
             IF k \in Retried
             THEN LET n == Cardinality(Peers)
                  IN  IF n = 0 THEN 1 ELSE IF n < MaxAttempts THEN n ELSE MaxAttempts
             ELSE 1]

Goto(t, l) == pc' = [pc EXCEPT ![t] = l]

\* A task arrives, or the health loop spawns a probe.
Start(t) ==
  /\ pc[t] = "idle"
  /\ \E k \in KindsOf[t] :
       /\ kind' = [kind EXCEPT ![t] = k]
       /\ Goto(t, IF k = "probe" THEN "probe" ELSE "pick")
  /\ UNCHANGED <<method, now, rr, peerVars, peer, pool, excluded, attempt, last,
                 due, guard, sentTo, answer>>

\* The end of forward: a kept 5xx response, or a 502 of Elrond's own.  The kept
\* response's body is still to be relayed.
ExhaustedLocation(t) == IF last[t] = None THEN "done" ELSE "stream"
ExhaustedAnswer(t) == IF last[t] = None THEN "bad_gateway" ELSE "upstream_5xx"

\* The scan of pick_inner.  With nothing eligible the task is over: the retry
\* loop breaks, forward_once answers 502, a stream relay closes the client.
Scan(t) ==
  /\ pc[t] = "pick"
  /\ LET found == PickPool(excluded[t])
     IN  /\ pool' = [pool EXCEPT ![t] = found]
         /\ \/ /\ found # {}
               /\ Goto(t, "choose")
               /\ UNCHANGED <<peer, answer>>
            \/ /\ found = {}
               /\ kind[t] \in Retried
               /\ Goto(t, ExhaustedLocation(t))
               /\ peer' = [peer EXCEPT ![t] = last[t]]
               /\ answer' = [answer EXCEPT ![t] = ExhaustedAnswer(t)]
            \/ /\ found = {}
               /\ kind[t] \notin Retried
               /\ Goto(t, "done")
               /\ answer' = [answer EXCEPT ![t] =
                               IF kind[t] = "once" THEN "bad_gateway" ELSE "closed"]
               /\ UNCHANGED peer
  /\ UNCHANGED <<method, now, rr, peerVars, kind, excluded, attempt, last,
                 due, guard, sentTo>>

\* The load-balancing method picks from the pool; round robin advances its
\* counter.
Choose(t) ==
  /\ pc[t] = "choose"
  /\ \E p \in pool[t] :
       /\ Selected(p, pool[t], t)
       /\ peer' = [peer EXCEPT ![t] = p]
  /\ pool' = [pool EXCEPT ![t] = {}]
  /\ rr' = IF method = "round_robin" THEN rr + 1 ELSE rr
  /\ Goto(t, "enter")
  /\ UNCHANGED <<method, now, peerVars, kind, excluded, attempt, last, due,
                 guard, sentTo, answer>>

\* Mutant: the counter is not incremented.
EnterUncounted(t) ==
  /\ pc[t] = "enter"
  /\ guard' = [guard EXCEPT ![t] = peer[t]]
  /\ sentTo' = [sentTo EXCEPT ![t] = Append(@, Addr[peer[t]])]
  /\ Goto(t, "wait")
  /\ UNCHANGED <<method, now, rr, peerVars, kind, peer, pool, excluded,
                 attempt, last, due, answer>>

\* Peer::enter, and the request goes out.
Enter(t) ==
  /\ pc[t] = "enter"
  /\ inFlight' = [inFlight EXCEPT ![peer[t]] = @ + 1]
  /\ guard' = [guard EXCEPT ![t] = peer[t]]
  /\ sentTo' = [sentTo EXCEPT ![t] = Append(@, Addr[peer[t]])]
  /\ Goto(t, "wait")
  /\ UNCHANGED <<method, now, rr, fails, failedUntil, kind, peer, pool, excluded,
                 attempt, last, due, answer>>

\* A probe goes to a peer that is not down; probes are not counted in flight.
SendProbe(t) ==
  /\ pc[t] = "probe"
  /\ \E p \in Peers \ DownPeers :
       /\ peer' = [peer EXCEPT ![t] = p]
       /\ sentTo' = [sentTo EXCEPT ![t] = Append(@, Addr[p])]
  /\ Goto(t, "wait")
  /\ UNCHANGED <<method, now, rr, peerVars, kind, pool, excluded, attempt, last,
                 due, guard, answer>>

-----------------------------------------------------------------------------
(***************************************************************************)
(* The exchange with the chosen peer                                       *)
(***************************************************************************)

\* The peer answers below 500, relays to the end, or passes the probe.
ReplyOk(t) ==
  /\ pc[t] = "wait"
  /\ Goto(t, "clear_fails")
  /\ UNCHANGED <<method, now, rr, peerVars, kind, peer, pool, excluded, attempt,
                 last, due, guard, sentTo, answer>>

\* The peer answers 5xx; the response is kept in case nothing better comes.
Reply5xx(t) ==
  /\ kind[t] \in Retried \cup {"once"}
  /\ pc[t] = "wait"
  /\ Goto(t, "count_failure")
  /\ last' = [last EXCEPT ![t] = peer[t]]
  /\ UNCHANGED <<method, now, rr, peerVars, kind, peer, pool, excluded, attempt,
                 due, guard, sentTo, answer>>

\* Connecting, sending or receiving fails, or a probe gets the wrong status.
ReplyError(t) ==
  /\ pc[t] = "wait"
  /\ Goto(t, "count_failure")
  /\ UNCHANGED <<method, now, rr, peerVars, kind, peer, pool, excluded, attempt,
                 last, due, guard, sentTo, answer>>

\* Mutant: a UDP exchange waits for its reply without a timeout.
TimeoutHttpOnly(t) ==
  /\ kind[t] \notin {"tcp", "udp"}
  /\ ReplyError(t)

\* tokio::time::timeout around the exchange; a TCP relay has none.  A UDP
\* session's timer is armed only around recv, so what it does not cover, the
\* bind, connect and send, is taken to return by itself.
Timeout(t) ==
  /\ kind[t] # "tcp"
  /\ ReplyError(t)

-----------------------------------------------------------------------------
(***************************************************************************)
(* Passive health: Peer::record_success and Peer::record_failure           *)
(***************************************************************************)

ClearFails(t) ==
  /\ pc[t] = "clear_fails"
  /\ fails' = [fails EXCEPT ![peer[t]] = 0]
  /\ Goto(t, "clear_until")
  /\ UNCHANGED <<method, now, rr, inFlight, failedUntil, kind, peer, pool,
                 excluded, attempt, last, due, guard, sentTo, answer>>

ClearUntil(t) ==
  /\ pc[t] = "clear_until"
  /\ failedUntil' = [failedUntil EXCEPT ![peer[t]] = 0]
  /\ Goto(t, "after_success")
  /\ UNCHANGED <<method, now, rr, inFlight, fails, kind, peer, pool, excluded,
                 attempt, last, due, guard, sentTo, answer>>

\* max_fails.max(1)
Threshold == IF MaxFails = 0 THEN 1 ELSE MaxFails

CountFailure(t) ==
  /\ pc[t] = "count_failure"
  /\ fails' = [fails EXCEPT ![peer[t]] = @ + 1]
  /\ Goto(t, IF fails[peer[t]] + 1 >= Threshold THEN "read_clock"
                                                ELSE "after_failure")
  /\ UNCHANGED <<method, now, rr, inFlight, failedUntil, kind, peer, pool,
                 excluded, attempt, last, due, guard, sentTo, answer>>

\* Mutant: a new cooldown is added to the one that is running.
ReadClockAccumulates(t) ==
  /\ pc[t] = "read_clock"
  /\ due' = [due EXCEPT ![t] = FailTimeout +
               (IF failedUntil[peer[t]] > now THEN failedUntil[peer[t]] ELSE now)]
  /\ Goto(t, "store_until")
  /\ UNCHANGED <<method, now, rr, peerVars, kind, peer, pool, excluded, attempt,
                 last, guard, sentTo, answer>>

ReadClock(t) ==
  /\ pc[t] = "read_clock"
  /\ due' = [due EXCEPT ![t] = now + FailTimeout]
  /\ Goto(t, "store_until")
  /\ UNCHANGED <<method, now, rr, peerVars, kind, peer, pool, excluded, attempt,
                 last, guard, sentTo, answer>>

StoreUntil(t) ==
  /\ pc[t] = "store_until"
  /\ failedUntil' = [failedUntil EXCEPT ![peer[t]] = due[t]]
  /\ due' = [due EXCEPT ![t] = 0]
  /\ Goto(t, "after_failure")
  /\ UNCHANGED <<method, now, rr, inFlight, fails, kind, peer, pool, excluded,
                 attempt, last, guard, sentTo, answer>>

-----------------------------------------------------------------------------
(***************************************************************************)
(* Leaving the peer                                                        *)
(***************************************************************************)

\* Drop of the InflightGuard, if the task owns one.
DropGuard(t) ==
  /\ inFlight' = IF guard[t] = None THEN inFlight
                 ELSE [inFlight EXCEPT ![guard[t]] = @ - 1]
  /\ guard' = [guard EXCEPT ![t] = None]

\* maybe_cache collects a cached GET's body before it returns, the guard still
\* alive; everything else returns, and the body of a relayed response follows.
AfterSuccess(t) ==
  /\ pc[t] = "after_success"
  /\ \/ /\ kind[t] = "cached_get"
        /\ Goto(t, "collect")
        /\ UNCHANGED <<inFlight, guard, answer>>
     \/ /\ kind[t] \in {"retry_safe", "once"}
        /\ DropGuard(t)
        /\ answer' = [answer EXCEPT ![t] = "upstream"]
        /\ Goto(t, "stream")
     \/ /\ kind[t] \in {"tcp", "udp", "probe"}
        /\ DropGuard(t)
        /\ answer' = [answer EXCEPT ![t] = "closed"]
        /\ Goto(t, "done")
  /\ UNCHANGED <<method, now, rr, fails, failedUntil, kind, peer, pool, excluded,
                 attempt, last, due, sentTo>>

\* Mutant: the address that failed is not excluded.
RetryAnywhere(t) ==
  /\ kind[t] \in Retried
  /\ attempt' = [attempt EXCEPT ![t] = @ + 1]
  /\ \/ /\ attempt[t] + 1 < Budget[kind[t]]
        /\ Goto(t, "pick")
        /\ UNCHANGED <<peer, answer>>
     \/ /\ attempt[t] + 1 >= Budget[kind[t]]
        /\ Goto(t, ExhaustedLocation(t))
        /\ peer' = [peer EXCEPT ![t] = last[t]]
        /\ answer' = [answer EXCEPT ![t] = ExhaustedAnswer(t)]
  /\ UNCHANGED excluded

\* After record_failure the retry loop excludes the address and goes round.
RetryOrGiveUp(t) ==
  /\ kind[t] \in Retried
  /\ excluded' = [excluded EXCEPT ![t] = @ \cup {Addr[peer[t]]}]
  /\ attempt' = [attempt EXCEPT ![t] = @ + 1]
  /\ \/ /\ attempt[t] + 1 < Budget[kind[t]]
        /\ Goto(t, "pick")
        /\ UNCHANGED <<peer, answer>>
     \/ /\ attempt[t] + 1 >= Budget[kind[t]]
        /\ Goto(t, ExhaustedLocation(t))
        /\ peer' = [peer EXCEPT ![t] = last[t]]
        /\ answer' = [answer EXCEPT ![t] = ExhaustedAnswer(t)]

\* A task that is never retried passes the failure on.
FailOnce(t) ==
  /\ kind[t] \notin Retried
  /\ \/ /\ kind[t] = "once"
        /\ Goto(t, ExhaustedLocation(t))
        /\ answer' = [answer EXCEPT ![t] = ExhaustedAnswer(t)]
     \/ /\ kind[t] # "once"
        /\ Goto(t, "done")
        /\ answer' = [answer EXCEPT ![t] = "closed"]
  /\ UNCHANGED <<peer, excluded, attempt>>

AfterFailure(t) ==
  /\ pc[t] = "after_failure"
  /\ DropGuard(t)
  /\ RetryOrGiveUp(t) \/ FailOnce(t)
  /\ UNCHANGED <<method, now, rr, fails, failedUntil, kind, pool, last, due, sentTo>>

\* The body of a cached GET has arrived, or broke off (the client then gets the
\* headers with an empty body).
Collected(t) ==
  /\ pc[t] = "collect"
  /\ DropGuard(t)
  /\ answer' = [answer EXCEPT ![t] = "upstream"]
  /\ Goto(t, "done")
  /\ UNCHANGED <<method, now, rr, fails, failedUntil, kind, peer, pool, excluded,
                 attempt, last, due, sentTo>>

\* The relayed body ends.
StreamEnd(t) ==
  /\ pc[t] = "stream"
  /\ Goto(t, "done")
  /\ UNCHANGED <<method, now, rr, peerVars, kind, peer, pool, excluded, attempt,
                 last, due, guard, sentTo, answer>>

\* Mutant: the counter is decremented by the handler's code and not by a guard,
\* so a dropped future leaves it behind.
CancelLeaks(t) ==
  /\ pc[t] \in {"wait", "collect"}
  /\ kind[t] \in Retried \cup {"once"}
  /\ guard' = [guard EXCEPT ![t] = None]
  /\ answer' = [answer EXCEPT ![t] = "gone"]
  /\ Goto(t, "done")
  /\ UNCHANGED <<method, now, rr, peerVars, kind, peer, pool, excluded,
                 attempt, last, due, sentTo>>

\* The client goes away and hyper drops the request's future where it awaits.
Cancel(t) ==
  /\ pc[t] \in {"wait", "collect"}
  /\ kind[t] \in Retried \cup {"once"}
  /\ DropGuard(t)
  /\ answer' = [answer EXCEPT ![t] = "gone"]
  /\ Goto(t, "done")
  /\ UNCHANGED <<method, now, rr, fails, failedUntil, kind, peer, pool, excluded,
                 attempt, last, due, sentTo>>

Tick ==
  /\ now < MaxTime
  /\ now' = now + 1
  /\ UNCHANGED <<method, rr, peerVars, taskVars>>

-----------------------------------------------------------------------------
\* The steps a task takes by itself, without waiting for anybody.
Run(t) ==
  \/ Scan(t) \/ Choose(t) \/ Enter(t) \/ SendProbe(t)
  \/ ClearFails(t) \/ ClearUntil(t)
  \/ CountFailure(t) \/ ReadClock(t) \/ StoreUntil(t)
  \/ AfterSuccess(t) \/ AfterFailure(t)

Next ==
  \/ \E t \in Tasks :
       \/ Start(t) \/ Run(t)
       \/ ReplyOk(t) \/ Reply5xx(t) \/ ReplyError(t) \/ Timeout(t)
       \/ Collected(t) \/ StreamEnd(t) \/ Cancel(t)
  \/ Tick

Spec == Init /\ [][Next]_vars

\* The executor keeps polling a runnable task, and a timer that has been armed
\* fires.  Nothing obliges a peer, a client or a relayed session to move.
Fairness == \A t \in Tasks : WF_vars(Run(t)) /\ WF_vars(Timeout(t))

FairSpec == Spec /\ Fairness

-----------------------------------------------------------------------------
(***************************************************************************)
(* Properties                                                              *)
(***************************************************************************)

Holders(p) == {t \in Tasks : guard[t] = p}

\* Peer.in_flight (app.rs 354-375) counts exactly the guards that are alive,
\* whatever mix of retries, failures, timeouts and vanished clients led here:
\* no guard is leaked and none is dropped twice, so the counter never wraps.
InFlightExact == \A p \in Peers : inFlight[p] = Cardinality(Holders(p))

\* A peer marked `down` (app.rs 328-334, health.rs 39-41) is never picked, never
\* retried onto and never probed, even when every other peer has failed.
DownPeersUnused ==
  \A p \in DownPeers :
    /\ inFlight[p] = 0
    /\ fails[p] = 0
    /\ failedUntil[p] = 0

\* With a clock that does not step back, no peer is kept out of rotation past
\* `fail_timeout` from now (app.rs 346-348): concurrent failures restart the
\* cooldown but never add up.
CooldownBounded == \A p \in Peers : failedUntil[p] <= now + FailTimeout

\* The contract every user of the balancer relies on (proxy.rs 194-197): see
\* ForwardContract.  A retried request goes to at most
\* min(MAX_ATTEMPTS, peers) distinct addresses, anything else is sent once.
Contract == INSTANCE ForwardContract
              WITH Kinds <- AllKinds,
                   Unstarted <- "none",
                   answered <- [t \in Tasks |-> pc[t] \in {"stream", "done"}]

KeepsContract == Contract!CSpec

\* Every request, UDP exchange and probe gets past its upstream exchange: the
\* timeout ends each attempt and the retry loop is bounded (proxy.rs 259-301).
AttemptsEnd ==
  \A t \in Tasks :
    (pc[t] # "idle" /\ kind[t] # "tcp") ~> pc[t] \in {"collect", "stream", "done"}

-----------------------------------------------------------------------------
(***************************************************************************)
(* What a document says and the code does not do                           *)
(***************************************************************************)

\* docs/compatibility.md 104: proxy_read_timeout "wraps the whole upstream
\* exchange with `tokio::time::timeout`", so a request always gets an answer.
TimeoutCoversExchange ==
  \A t \in Tasks :
    (kind[t] = "cached_get" /\ pc[t] = "wait") ~> pc[t] \in {"stream", "done"}
=============================================================================
