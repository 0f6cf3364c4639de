------------------------------ MODULE Pipeline ------------------------------
(***************************************************************************)
(* The way of a request through one server block: server::handle for a     *)
(* request over HTTP/1.1 or HTTP/2 ("tcp") and http3::handle_stream and    *)
(* dispatch for one over HTTP/3 ("quic").  Both walk the same gates        *)
(*                                                                         *)
(*   allow/deny, limit_req, limit_conn, auth_request, auth_basic, action   *)
(*                                                                         *)
(* but they differ in where the mirrors are fired, in how the body size is *)
(* enforced, in what happens when the client goes away and in when the     *)
(* request is counted.  A gate that touches what requests share, or that   *)
(* awaits, is a step.                                                      *)
(*                                                                         *)
(* The limit_conn zone is LimitConn's: the steps that take and give back a *)
(* slot are actions of that module.  limit_req decides either way (see     *)
(* LimitReq), the upstream exchange ends either way (see Upstream).        *)
(***************************************************************************)
EXTENDS Integers, Sequences, FiniteSets

CONSTANTS
  Requests,     \* the requests that arrive, each once
  Profiles,     \* what they may look like:
                \*   [via, client, loc, size, declared, creds]; loc may be None
  Clients,      \* client addresses; limit_conn's key is $remote_addr
  Locations,    \* the locations of the server block
  Loc,          \* Loc[l]: [rules : Seq([allow, clients]), limitReq, cap, mirrors,
                \*          authRequest, authBasic, action, cached, gzip];
                \*   cap may be None
  MaxBody,      \* client_max_body_size, 0 = no limit
  AbsoluteCap,  \* ABSOLUTE_BODY_CAP
  MaxEntries,   \* max_entries of the limit_conn zone
  None          \* no location, no cap, no key

\* return, static files, try_files or metrics; proxy_pass to a fixed target, or to
\* one with variables.  Either proxy_pass may be `cached`.
Actions == {"local", "proxy", "dynamic"}
Caps == {Loc[l].cap : l \in Locations} \ {None}

ASSUME PipelineAssumption ==
  /\ IsFiniteSet(Requests)
  /\ IsFiniteSet(Clients)
  /\ None \notin Clients
  /\ None \notin Locations
  /\ Profiles \subseteq [via : {"tcp", "quic"}, client : Clients,
                         loc : Locations \cup {None}, size : {p.size : p \in Profiles},
                         declared : BOOLEAN, creds : BOOLEAN]
  /\ \A p \in Profiles : p.size \in Nat
  /\ MaxBody \in Nat
  /\ AbsoluteCap \in Nat
  /\ MaxEntries \in Nat \ {0}
  /\ \A l \in Locations :
       /\ Loc[l].rules \in Seq([allow : BOOLEAN, clients : SUBSET Clients])
       /\ {Loc[l].limitReq, Loc[l].authRequest, Loc[l].authBasic} \subseteq BOOLEAN
       /\ {Loc[l].cached, Loc[l].gzip} \subseteq BOOLEAN
       /\ Loc[l].cap \in Nat \cup {None}
       /\ Loc[l].mirrors \in Nat
       /\ Loc[l].action \in Actions
       /\ Loc[l].cached => Loc[l].action # "local"

VARIABLES
  pc,        \* the gate each request is at
  req,       \* what each request looks like
  verdict,   \* what the auth service said: "none", "yes" or "no"
  shadows,   \* mirror requests fired for r
  acted,     \* has the location's action begun for r?
  status,    \* class of the answer: "none", "ok", "refused" or "failed"
  counted,   \* how often r was added to elrond_requests_total
  memo,      \* the memoized balancer of the dynamic target, 0 = none
  made,      \* balancers built for it so far
  target,    \* the balancer r uses
  entries, count, stage, guard, key, cap, peak   \* the limit_conn zone

zone == <<entries, count, stage, guard, key, cap, peak>>
vars == <<pc, req, verdict, shadows, acted, status, counted, memo, made, target, zone>>

Zone == INSTANCE LimitConn WITH Keys <- Clients

\* Mutant: the mirrors come first.
OrderMirrorFirst ==
  LET order == <<"access", "mirror", "limit_req", "limit_conn", "auth_request",
                 "auth_basic", "action">>
  IN  [tcp |-> order, quic |-> order]

\* The order in which each handler visits its gates.
Order == [tcp  |-> <<"access", "limit_req", "limit_conn", "mirror", "auth_request",
                     "auth_basic", "action">>,
          quic |-> <<"access", "limit_req", "limit_conn", "auth_request", "auth_basic",
                     "mirror", "action">>]

Gates == {"access", "limit_req", "limit_conn", "mirror", "auth_request", "auth_basic", "action"}
Waits == {"new", "body", "head", "auth_wait", "insert", "acting", "post", "collect",
          "sending", "done"}
NoRequest == [loc |-> None]

TypeOK ==
  /\ pc \in [Requests -> Gates \cup Waits]
  /\ \A r \in Requests : pc[r] # "new" => req[r] \in Profiles
  /\ verdict \in [Requests -> {"none", "yes", "no"}]
  /\ shadows \in [Requests -> Nat]
  /\ acted \in [Requests -> BOOLEAN]
  /\ status \in [Requests -> {"none", "ok", "refused", "failed"}]
  /\ counted \in [Requests -> Nat]
  /\ {memo, made} \subseteq Nat
  /\ target \in [Requests -> Nat]
  /\ Zone!TypeOK

Init ==
  /\ pc = [r \in Requests |-> "new"]
  /\ req = [r \in Requests |-> NoRequest]
  /\ verdict = [r \in Requests |-> "none"]
  /\ shadows = [r \in Requests |-> 0]
  /\ acted = [r \in Requests |-> FALSE]
  /\ status = [r \in Requests |-> "none"]
  /\ counted = [r \in Requests |-> 0]
  /\ memo = 0
  /\ made = 0
  /\ target = [r \in Requests |-> 0]
  /\ Zone!Init

-----------------------------------------------------------------------------
(***************************************************************************)
(* Moving on                                                               *)
(***************************************************************************)

Via(r) == req[r].via
L(r) == Loc[req[r].loc]

Goto(r, l) == pc' = [pc EXCEPT ![r] = l]

\* The gate after g.
After(r, g) ==
  LET order == Order[Via(r)]
  IN  order[1 + CHOOSE i \in DOMAIN order : order[i] = g]

\* metrics::record_request.
Count(r) == counted' = [counted EXCEPT ![r] = @ + 1]

\* The zone as the handler returns: a guard that is held goes out of scope.
GiveBack(r) == IF guard[r] # None THEN Zone!Respond(r) ELSE UNCHANGED zone

\* Mutant: a refused request is taken off the counter.
RefuseUncounts(r) ==
  /\ status' = [status EXCEPT ![r] = "refused"]
  /\ counted' = [counted EXCEPT ![r] = @ - 1]
  /\ Goto(r, "sending")

\* An early return with an answer of Elrond's own.  Over TCP it is counted on the
\* spot; over QUIC once it has been sent.
Refuse(r) ==
  /\ status' = [status EXCEPT ![r] = "refused"]
  /\ IF Via(r) = "tcp" THEN Count(r) ELSE UNCHANGED counted
  /\ Goto(r, "sending")

\* Gate g has nothing to object.
Pass(r, g) ==
  /\ Goto(r, After(r, g))
  /\ UNCHANGED <<status, counted>>

-----------------------------------------------------------------------------
(***************************************************************************)
(* Arrival and body size                                                   *)
(***************************************************************************)

Arrive(r) ==
  /\ pc[r] = "new"
  /\ \E p \in Profiles :
       /\ req' = [req EXCEPT ![r] = p]
       /\ Goto(r, IF p.via = "quic" THEN "body" ELSE "head")
  /\ UNCHANGED <<verdict, shadows, acted, status, counted, memo, made, target, zone>>

\* HTTP/3 buffers the body; one over the limit is answered with 413, which is not
\* counted.
BodyLimit == IF MaxBody = 0 THEN AbsoluteCap ELSE MaxBody

RecvBody(r) ==
  /\ pc[r] = "body"
  /\ \/ /\ req[r].size <= BodyLimit
        /\ Goto(r, "head")
        /\ UNCHANGED status
     \/ /\ req[r].size > BodyLimit
        /\ status' = [status EXCEPT ![r] = "refused"]
        /\ Goto(r, "done")
  /\ UNCHANGED <<req, verdict, shadows, acted, counted, memo, made, target, zone>>

\* Over TCP only a Content-Length can be too large.
TooLarge(r) ==
  Via(r) = "tcp" /\ MaxBody > 0 /\ req[r].declared /\ req[r].size > MaxBody

\* The size check, `map` evaluation and routing.
Route(r) ==
  /\ pc[r] = "head"
  /\ \/ /\ TooLarge(r)
        /\ Refuse(r)
     \/ /\ ~TooLarge(r)
        /\ req[r].loc = None
        /\ Goto(r, "post")
        /\ status' = [status EXCEPT ![r] = "failed"]
        /\ UNCHANGED counted
     \/ /\ ~TooLarge(r)
        /\ req[r].loc # None
        /\ Goto(r, "access")
        /\ UNCHANGED <<status, counted>>
  /\ UNCHANGED <<req, verdict, shadows, acted, memo, made, target, zone>>

-----------------------------------------------------------------------------
(***************************************************************************)
(* The gates                                                               *)
(***************************************************************************)

\* access::check: the first rule that matches decides, none lets through.
Allowed(rules, c) ==
  LET matching == {i \in DOMAIN rules : c \in rules[i].clients}
  IN  \A i \in matching : (\A j \in matching : i <= j) => rules[i].allow

Access(r) ==
  /\ pc[r] = "access"
  /\ IF Allowed(L(r).rules, req[r].client) THEN Pass(r, "access") ELSE Refuse(r)
  /\ UNCHANGED <<req, verdict, shadows, acted, memo, made, target, zone>>

LimitReqGate(r) ==
  /\ pc[r] = "limit_req"
  /\ \/ Pass(r, "limit_req")
     \/ L(r).limitReq /\ Refuse(r)
  /\ UNCHANGED <<req, verdict, shadows, acted, memo, made, target, zone>>

LimitConnGate(r) ==
  LET k == req[r].client
      m == L(r).cap
  IN  /\ pc[r] = "limit_conn"
      /\ \/ m = None /\ Pass(r, "limit_conn") /\ UNCHANGED zone
         \/ m # None /\ Zone!Admit(r, k, m) /\ Pass(r, "limit_conn")
         \/ m # None /\ Zone!Deny(r, k, m) /\ Refuse(r)
      /\ UNCHANGED <<req, verdict, shadows, acted, memo, made, target>>

\* mirror::dispatch spawns one task per mirror whose URL renders to something;
\* nobody waits for them.
Mirror(r) ==
  /\ pc[r] = "mirror"
  /\ \E n \in 0..L(r).mirrors : shadows' = [shadows EXCEPT ![r] = @ + n]
  /\ Pass(r, "mirror")
  /\ UNCHANGED <<req, verdict, acted, memo, made, target, zone>>

AuthRequest(r) ==
  /\ pc[r] = "auth_request"
  /\ \/ ~L(r).authRequest /\ Pass(r, "auth_request")
     \/ L(r).authRequest /\ Goto(r, "auth_wait") /\ UNCHANGED <<status, counted>>
  /\ UNCHANGED <<req, verdict, shadows, acted, memo, made, target, zone>>

\* The auth service answers 2xx ...
AuthYes(r) ==
  /\ pc[r] = "auth_wait"
  /\ verdict' = [verdict EXCEPT ![r] = "yes"]
  /\ Pass(r, "auth_request")
  /\ UNCHANGED <<req, shadows, acted, memo, made, target, zone>>

\* ... or anything else, cannot be reached, or its URL is no good.
AuthNo(r) ==
  /\ pc[r] = "auth_wait"
  /\ verdict' = [verdict EXCEPT ![r] = "no"]
  /\ Refuse(r)
  /\ GiveBack(r)
  /\ UNCHANGED <<req, shadows, acted, memo, made, target>>

\* Mutant: a service that does not answer lets the request through.
AuthTimeoutOpen(r) ==
  /\ pc[r] = "auth_wait"
  /\ Pass(r, "auth_request")
  /\ UNCHANGED <<req, verdict, shadows, acted, memo, made, target, zone>>

\* Mutant: only the HTTP/3 handler has a timeout.
AuthTimeoutQuic(r) ==
  /\ pc[r] = "auth_wait"
  /\ Via(r) = "quic"
  /\ Refuse(r)
  /\ GiveBack(r)
  /\ UNCHANGED <<req, verdict, shadows, acted, memo, made, target>>

\* AUTH_REQUEST_TIMEOUT: 504.
AuthTimeout(r) ==
  /\ pc[r] = "auth_wait"
  /\ Refuse(r)
  /\ GiveBack(r)
  /\ UNCHANGED <<req, verdict, shadows, acted, memo, made, target>>

AuthBasic(r) ==
  /\ pc[r] = "auth_basic"
  /\ \/ /\ L(r).authBasic => req[r].creds
        /\ Pass(r, "auth_basic")
        /\ UNCHANGED zone
     \/ /\ L(r).authBasic /\ ~req[r].creds
        /\ Refuse(r)
        /\ GiveBack(r)
  /\ UNCHANGED <<req, verdict, shadows, acted, memo, made, target>>

-----------------------------------------------------------------------------
(***************************************************************************)
(* The action                                                              *)
(***************************************************************************)

Begin(r, b) ==
  /\ target' = [target EXCEPT ![r] = b]
  /\ acted' = [acted EXCEPT ![r] = TRUE]
  /\ Goto(r, "acting")

\* The location's arm ends with a response; the slot is given back.
Leave(r, s) ==
  /\ status' = [status EXCEPT ![r] = s]
  /\ Goto(r, "post")
  /\ GiveBack(r)

\* return, static files, try_files and metrics, or a fixed proxy_pass target.
Act(r) ==
  /\ pc[r] = "action"
  /\ L(r).action # "dynamic"
  /\ Begin(r, 0)
  /\ UNCHANGED <<req, verdict, shadows, status, counted, memo, made, zone>>

\* Mutant: the memoized balancer is not looked for.
ResolveAnew(r) ==
  /\ pc[r] = "action"
  /\ L(r).action = "dynamic"
  /\ Goto(r, "insert")
  /\ UNCHANGED <<req, verdict, shadows, acted, status, counted, memo, made, target, zone>>

\* ProxyTarget::resolve of a target with variables: one that renders to nothing
\* gets a 502, the name of an upstream that one's balancer, and an address that was
\* seen before the memoized one.
Resolve(r) ==
  /\ pc[r] = "action"
  /\ L(r).action = "dynamic"
  /\ \/ Leave(r, "failed") /\ UNCHANGED <<acted, target>>
     \/ Begin(r, 0) /\ UNCHANGED <<status, zone>>
     \/ memo # 0 /\ Begin(r, memo) /\ UNCHANGED <<status, zone>>
     \/ memo = 0 /\ Goto(r, "insert") /\ UNCHANGED <<acted, target, status, zone>>
  /\ UNCHANGED <<req, verdict, shadows, counted, memo, made>>

\* A new one is built and, under another lock, memoized.
Memoize(r) ==
  /\ pc[r] = "insert"
  /\ made' = made + 1
  /\ memo' = made + 1
  /\ Begin(r, made + 1)
  /\ UNCHANGED <<req, verdict, shadows, status, counted, zone>>

\* The action has its response.
Acted(r) ==
  /\ pc[r] = "acting"
  /\ \E s \in {"ok", "failed"} : Leave(r, s)
  /\ UNCHANGED <<req, verdict, shadows, acted, counted, memo, made, target>>

-----------------------------------------------------------------------------
(***************************************************************************)
(* The answer                                                              *)
(***************************************************************************)

\* add_header, expires and, over TCP, Alt-Svc and gzip, which may have to collect
\* the body; then the request is counted.
Post(r) ==
  /\ pc[r] = "post"
  /\ \/ /\ Via(r) = "tcp"
        /\ req[r].loc # None /\ L(r).gzip
        /\ Goto(r, "collect")
        /\ UNCHANGED counted
     \/ /\ Via(r) = "tcp"
        /\ Goto(r, "sending")
        /\ Count(r)
     \/ /\ Via(r) = "quic"
        /\ Goto(r, "sending")
        /\ UNCHANGED counted
  /\ UNCHANGED <<req, verdict, shadows, acted, status, memo, made, target, zone>>

Collected(r) ==
  /\ pc[r] = "collect"
  /\ Goto(r, "sending")
  /\ Count(r)
  /\ UNCHANGED <<req, verdict, shadows, acted, status, memo, made, target, zone>>

\* The zone once nothing of r is left.
Over(r) == IF stage[r] = "streaming" THEN Zone!Finish(r) ELSE UNCHANGED zone

\* Mutant: a request over HTTP/3 is counted at both ends.
SentTwice(r) ==
  /\ pc[r] = "sending"
  /\ Goto(r, "done")
  /\ Count(r)
  /\ Over(r)
  /\ UNCHANGED <<req, verdict, shadows, acted, status, memo, made, target>>

\* The body has gone out or, over TCP, its client has left; only now does HTTP/3
\* count the request.
Sent(r) ==
  /\ pc[r] = "sending"
  /\ Goto(r, "done")
  /\ IF Via(r) = "quic" THEN Count(r) ELSE UNCHANGED counted
  /\ Over(r)
  /\ UNCHANGED <<req, verdict, shadows, acted, status, memo, made, target>>

\* Over TCP hyper drops the future of a request whose client goes away at the next
\* await.
Dropped(r) ==
  /\ pc[r] \in {"auth_wait", "acting", "collect"}
  /\ Via(r) = "tcp"
  /\ Goto(r, "done")
  /\ IF stage[r] = "handling" THEN Zone!Abort(r) ELSE Over(r)
  /\ UNCHANGED <<req, verdict, shadows, acted, status, counted, memo, made, target>>

\* Over QUIC the stream's task finds out when it reads or writes.
StreamBroken(r) ==
  /\ pc[r] \in {"body", "sending"}
  /\ Via(r) = "quic"
  /\ Goto(r, "done")
  /\ Over(r)
  /\ UNCHANGED <<req, verdict, shadows, acted, status, counted, memo, made, target>>

-----------------------------------------------------------------------------
\* The steps a handler takes by itself.
Run(r) ==
  \/ Route(r) \/ Access(r) \/ LimitReqGate(r) \/ LimitConnGate(r) \/ Mirror(r)
  \/ AuthRequest(r) \/ AuthBasic(r) \/ Act(r) \/ Resolve(r) \/ Memoize(r) \/ Post(r)

Next ==
  \E r \in Requests :
    \/ Arrive(r) \/ RecvBody(r) \/ Run(r)
    \/ AuthYes(r) \/ AuthNo(r) \/ AuthTimeout(r)
    \/ Acted(r) \/ Collected(r) \/ Sent(r)
    \/ Dropped(r) \/ StreamBroken(r)

Spec == Init /\ [][Next]_vars

\* The executor runs what can run and the auth timer fires.  Actions end: files
\* are read, and an upstream exchange ends by its timeout (Upstream!AttemptsEnd),
\* unless the body is collected for the cache, which has none.
Fairness ==
  \A r \in Requests :
    /\ WF_vars(Run(r))
    /\ WF_vars(AuthTimeout(r))
    /\ WF_vars(Acted(r) /\ ~L(r).cached)

FairSpec == Spec /\ Fairness

-----------------------------------------------------------------------------
(***************************************************************************)
(* Properties                                                              *)
(***************************************************************************)

\* No request reaches its location's action past a gate that should have stopped
\* it, over either transport (server.rs 277-384, http3.rs 279-316): the client is
\* allowed, its slot is taken, the auth service said yes (silence is no) and the
\* credentials are good.
GatesHold ==
  \A r \in Requests : acted[r] =>
    /\ \/ \A i \in DOMAIN L(r).rules : req[r].client \notin L(r).rules[i].clients
       \/ \E i \in DOMAIN L(r).rules :
            /\ L(r).rules[i].allow /\ req[r].client \in L(r).rules[i].clients
            /\ \A j \in 1..(i - 1) : req[r].client \notin L(r).rules[j].clients
    /\ L(r).authRequest => verdict[r] = "yes"
    /\ L(r).authBasic => req[r].creds
    /\ pc[r] = "acting" /\ L(r).cap # None => guard[r] = req[r].client

\* Requests of both transports together keep every location's cap per client
\* (limit.rs 190-194): LimitConn's invariants in the composed system.
SlotsKept == Zone!CountsExact /\ Zone!CapsKept

\* Shadow requests (server.rs 334-345, http3.rs 312-314) are fired only for clients
\* that are allowed, at most once per mirror, and over HTTP/3 only for requests
\* that were authorized.
ShadowsScoped ==
  \A r \in Requests : shadows[r] > 0 =>
    /\ shadows[r] <= L(r).mirrors
    /\ Allowed(L(r).rules, req[r].client)
    /\ Via(r) = "quic" => /\ L(r).authRequest => verdict[r] = "yes"
                          /\ L(r).authBasic => req[r].creds

\* elrond_requests_total (server.rs 210-507, http3.rs 195-196) counts no request
\* twice, and over TCP each one whose answer goes out.
CountedOnce ==
  \A r \in Requests :
    /\ counted[r] <= 1
    /\ (pc[r] = "sending" /\ Via(r) = "tcp") => counted[r] = 1
    /\ (counted[r] = 1 /\ Via(r) = "quic") => pc[r] = "done"

\* Requests that resolve a dynamic target at the same time may build several
\* balancers for it (app.rs 258-297), but once the race is over the target keeps
\* one for good, and with it its counters and cooldowns.
MemoSettles ==
  \A b \in 1..Cardinality(Requests) :
    [](memo = b /\ (\A r \in Requests : pc[r] # "insert") => [](memo = b))

\* No client stays without its slot for ever: every request that takes one gives
\* it back, however the auth service and the upstream behave, and the client does
\* nothing about it.
SlotsReturned ==
  \A r \in Requests :
    (guard[r] # None /\ ~L(r).cached) ~> guard[r] = None

-----------------------------------------------------------------------------
(***************************************************************************)
(* What the comments and documents say and the code does not do            *)
(***************************************************************************)

\* docs/compatibility.md 94: limit_conn is a "concurrent in-flight cap per key" by a
\* guard that "lives exactly as long as the request" (limit.rs 203-204): of one
\* client's requests, those a location has admitted and not yet answered are no more
\* than its cap.
InFlightCapped ==
  \A l \in Locations, c \in Clients : Loc[l].cap # None =>
    Cardinality({r \in Requests :
                   /\ pc[r] \in {"acting", "collect", "sending"} /\ acted[r]
                   /\ req[r].loc = l /\ req[r].client = c}) <= Loc[l].cap
=============================================================================
