--------------------------- MODULE UpstreamProofs ---------------------------
(***************************************************************************)
(* Proofs about Upstream for any upstream block, any number of tasks and   *)
(* any clock bound.                                                        *)
(***************************************************************************)
EXTENDS Upstream, FiniteSetTheorems, TLAPS

\* Locations at which a task has a peer.
Busy == {"enter", "wait", "clear_fails", "clear_until", "count_failure",
         "read_clock", "store_until", "after_success", "after_failure", "collect"}

\* A busy task's peer, and every peer of a pool, is one that is not down; a
\* probe gets its peer from the health loop and never picks one.
PeerChosen ==
  \A t \in Tasks :
    /\ pc[t] \in Busy => peer[t] \in Peers \ DownPeers
    /\ pool[t] \cap DownPeers = {}
    /\ kind[t] = "probe" => pc[t] \notin {"pick", "choose", "enter"}

\* Where a guard may be alive: it is for the task's current peer, and the task
\* is between Peer::enter and the return that drops it.
GuardScope ==
  \A t \in Tasks : guard[t] # None =>
    /\ guard[t] = peer[t]
    /\ kind[t] # "probe"
    /\ pc[t] \notin {"idle", "probe", "pick", "choose", "enter", "stream", "done"}

\* The clock readings record_failure has taken are not in the future.
DueBounded == \A t \in Tasks : due[t] <= now + FailTimeout

\* The strengthening that makes the guard count inductive: it needs to know
\* whose guard is alive where.
IInv ==
  /\ TypeOK
  /\ PeerChosen
  /\ GuardScope
  /\ InFlightExact

LEMMA HoldersFinite ==
  ASSUME NEW p
  PROVE  IsFiniteSet(Holders(p)) /\ Cardinality(Holders(p)) \in Nat
<1>1. Holders(p) \in SUBSET Tasks
  BY DEF Holders
<1>2. IsFiniteSet(Holders(p))
  BY <1>1, UpstreamAssumption, FS_Subset
<1> QED
  BY <1>2, FS_CardinalityType

\* Taking a guard adds the task to the holders of one peer.
LEMMA TakeGuard ==
  ASSUME TypeOK, InFlightExact, NEW t \in Tasks, NEW p \in Peers,
         guard[t] = None,
         guard' = [guard EXCEPT ![t] = p],
         inFlight' = [inFlight EXCEPT ![p] = @ + 1]
  PROVE  InFlightExact'
<1> SUFFICES ASSUME NEW q \in Peers
             PROVE  inFlight'[q] = Cardinality(Holders(q)')
  BY DEF InFlightExact
<1>1. CASE q = p
  <2>1. Holders(p)' = Holders(p) \cup {t} /\ t \notin Holders(p)
    BY UpstreamAssumption DEF Holders, TypeOK
  <2>2. Cardinality(Holders(p)') = Cardinality(Holders(p)) + 1
    BY <2>1, HoldersFinite, FS_AddElement
  <2> QED
    BY <1>1, <2>2 DEF InFlightExact, TypeOK
<1>2. CASE q # p
  <2>1. Holders(q)' = Holders(q)
    BY <1>2, UpstreamAssumption DEF Holders, TypeOK
  <2> QED
    BY <1>2, <2>1 DEF InFlightExact, TypeOK
<1> QED
  BY <1>1, <1>2

\* Dropping a guard takes the task off the holders of its peer, which has at
\* least one in flight.
LEMMA GuardDropped ==
  ASSUME TypeOK, InFlightExact, NEW t \in Tasks, DropGuard(t)
  PROVE  /\ InFlightExact'
         /\ inFlight' \in [Peers -> Nat]
         /\ guard' \in [Tasks -> Peers \cup {None}]
<1>1. guard' = [guard EXCEPT ![t] = None]
  BY DEF DropGuard
<1>2. CASE guard[t] = None
  <2>1. guard' = guard /\ inFlight' = inFlight
    BY <1>1, <1>2 DEF DropGuard, TypeOK
  <2> QED
    BY <2>1 DEF InFlightExact, Holders, TypeOK
<1>3. CASE guard[t] # None
  <2>1. PICK p \in Peers : p = guard[t]
    BY <1>3 DEF TypeOK
  <2>2. inFlight' = [inFlight EXCEPT ![p] = @ - 1]
    BY <1>3, <2>1 DEF DropGuard
  <2>3. Holders(p)' = Holders(p) \ {t} /\ t \in Holders(p)
    BY <1>1, <2>1, UpstreamAssumption DEF Holders, TypeOK
  <2>4. Cardinality(Holders(p)') = Cardinality(Holders(p)) - 1
    BY <2>3, HoldersFinite, FS_RemoveElement
  <2>5. Cardinality(Holders(p)) # 0
    BY <2>3, HoldersFinite, FS_EmptySet
  <2>6. inFlight[p] - 1 \in Nat
    BY <2>1, <2>5, HoldersFinite DEF InFlightExact
  <2>7. ASSUME NEW q \in Peers, q # p
        PROVE  Holders(q)' = Holders(q)
    BY <1>1, <2>1, <2>7, UpstreamAssumption DEF Holders, TypeOK
  <2>8. InFlightExact'
    BY <2>1, <2>2, <2>4, <2>7 DEF InFlightExact, TypeOK
  <2> QED
    BY <1>1, <2>1, <2>2, <2>6, <2>8 DEF TypeOK
<1> QED
  BY <1>2, <1>3

\* Steps that touch no guard keep the count.
LEMMA GuardsUntouched ==
  ASSUME InFlightExact, UNCHANGED <<inFlight, guard>>
  PROVE  InFlightExact'
BY DEF InFlightExact, Holders

\* A task starts as one of the kinds it may be.
LEMMA StartedKind ==
  ASSUME NEW t \in Tasks, Start(t)
  PROVE  \E k \in AllKinds : /\ kind' = [kind EXCEPT ![t] = k]
                             /\ Goto(t, IF k = "probe" THEN "probe" ELSE "pick")
BY UpstreamAssumption DEF Start

LEMMA InitIInv == Init => IInv
<1> SUFFICES ASSUME Init PROVE IInv
  OBVIOUS
<1>1. TypeOK
  BY UpstreamAssumption DEF Init, TypeOK, AllMethods, Locations, Answers
<1>2. PeerChosen /\ GuardScope
  BY DEF Init, PeerChosen, GuardScope, Busy
<1>3. \A p \in Peers : Holders(p) = {}
  BY UpstreamAssumption DEF Init, Holders
<1>4. InFlightExact
  BY <1>3, FS_EmptySet DEF Init, InFlightExact
<1> QED
  BY <1>1, <1>2, <1>4 DEF IInv

LEMMA AppendAddr ==
  ASSUME NEW s \in Seq(Addrs), NEW p \in Peers
  PROVE  Append(s, Addr[p]) \in Seq(Addrs)
<1>1. Addr[p] \in Addrs
  BY DEF Addrs
<1> QED
  BY <1>1

\* Arriving, scanning, choosing and entering.
LEMMA PickSteps ==
  ASSUME IInv, NEW t \in Tasks, Start(t) \/ Scan(t) \/ Choose(t) \/ SendProbe(t)
  PROVE  IInv'
<1> USE DEF IInv
<1>1. CASE Start(t)
  <2>1. TypeOK'
    <3>1. PICK k \in AllKinds : /\ kind' = [kind EXCEPT ![t] = k]
                                /\ Goto(t, IF k = "probe" THEN "probe" ELSE "pick")
      BY <1>1, StartedKind
    <3>2. kind' \in [Tasks -> AllKinds \cup {"none"}]
      BY <3>1 DEF TypeOK
    <3>3. pc' \in [Tasks -> Locations]
      BY <3>1 DEF Goto, TypeOK, Locations
    <3> QED
      BY <1>1, <3>2, <3>3 DEF Start, TypeOK, peerVars
  <2>2. PeerChosen' /\ GuardScope'
    BY <1>1 DEF Start, Goto, TypeOK, PeerChosen, GuardScope, Busy
  <2> QED
    BY <1>1, <2>1, <2>2, GuardsUntouched DEF Start, peerVars
<1>2. CASE Scan(t)
  <2>1. PickPool(excluded[t]) \in SUBSET (Peers \ DownPeers)
    BY UpstreamAssumption DEF PickPool, Eligible, IsAvailable
  <2>2. ExhaustedLocation(t) \in {"done", "stream"} /\ ExhaustedAnswer(t) \in Answers
    BY DEF ExhaustedLocation, ExhaustedAnswer, Answers
  <2>3. TypeOK'
    <3>1. pool' \in [Tasks -> SUBSET Peers]
      BY <1>2, <2>1 DEF Scan, TypeOK
    <3>2. pc' \in [Tasks -> Locations]
      BY <1>2, <2>2, ZenonT(60) DEF Scan, Goto, TypeOK, Locations
    <3>3. peer' \in [Tasks -> Peers \cup {None}]
      BY <1>2 DEF Scan, TypeOK
    <3>4. answer' \in [Tasks -> Answers]
      BY <1>2, <2>2 DEF Scan, TypeOK, Answers
    <3> QED
      BY <1>2, <3>1, <3>2, <3>3, <3>4 DEF Scan, TypeOK, peerVars
  <2>4. PeerChosen'
    BY <1>2, <2>1, <2>2 DEF Scan, Goto, TypeOK, PeerChosen, Busy
  <2>5. GuardScope'
    BY <1>2, <2>2 DEF Scan, Goto, TypeOK, GuardScope
  <2> QED
    BY <1>2, <2>3, <2>4, <2>5, GuardsUntouched DEF Scan, peerVars
<1>3. CASE Choose(t)
  <2>1. TypeOK'
    BY <1>3 DEF Choose, Goto, TypeOK, Locations, peerVars
  <2>2. PeerChosen'
    BY <1>3 DEF Choose, Goto, TypeOK, PeerChosen, Busy
  <2>3. GuardScope'
    BY <1>3 DEF Choose, Goto, TypeOK, GuardScope
  <2> QED
    BY <1>3, <2>1, <2>2, <2>3, GuardsUntouched DEF Choose, peerVars
<1>4. CASE SendProbe(t)
  <2>1. TypeOK'
    <3>1. sentTo' \in [Tasks -> Seq(Addrs)]
      BY <1>4, AppendAddr DEF SendProbe, TypeOK
    <3> QED
      BY <1>4, <3>1 DEF SendProbe, Goto, TypeOK, Locations, peerVars
  <2>2. PeerChosen'
    BY <1>4 DEF SendProbe, Goto, TypeOK, PeerChosen, Busy
  <2>3. GuardScope'
    BY <1>4 DEF SendProbe, Goto, TypeOK, GuardScope
  <2> QED
    BY <1>4, <2>1, <2>2, <2>3, GuardsUntouched DEF SendProbe, peerVars
<1> QED
  BY <1>1, <1>2, <1>3, <1>4

LEMMA EnterStep ==
  ASSUME IInv, NEW t \in Tasks, Enter(t)
  PROVE  IInv'
<1> USE DEF IInv
<1>1. PICK p \in Peers : p = peer[t]
  BY DEF Enter, PeerChosen, Busy
<1>2. guard[t] = None
  BY DEF Enter, GuardScope
<1>3. /\ guard' = [guard EXCEPT ![t] = p]
      /\ inFlight' = [inFlight EXCEPT ![p] = @ + 1]
  BY <1>1 DEF Enter
<1>4. InFlightExact'
  BY <1>2, <1>3, TakeGuard
<1>5. TypeOK'
  <2>1. sentTo' \in [Tasks -> Seq(Addrs)]
    BY <1>1, AppendAddr DEF Enter, TypeOK
  <2> QED
    BY <1>3, <2>1 DEF Enter, Goto, TypeOK, Locations
<1>6. PeerChosen'
  BY DEF Enter, Goto, TypeOK, PeerChosen, Busy
<1>7. kind[t] # "probe"
  BY DEF Enter, PeerChosen
<1>8. GuardScope'
  BY <1>1, <1>3, <1>7, UpstreamAssumption DEF Enter, Goto, TypeOK, GuardScope
<1> QED
  BY <1>4, <1>5, <1>6, <1>8

\* The outcomes of an exchange, the steps of record_success and record_failure,
\* the end of a body and the clock.
LEMMA ExchangeSteps ==
  ASSUME IInv, NEW t \in Tasks,
         \/ ReplyOk(t) \/ Reply5xx(t) \/ ReplyError(t)
         \/ ClearFails(t) \/ ClearUntil(t)
         \/ CountFailure(t) \/ ReadClock(t) \/ StoreUntil(t)
         \/ StreamEnd(t)
  PROVE  IInv'
<1> USE DEF IInv
<1>1. UNCHANGED <<method, now, rr, inFlight, kind, peer, pool, excluded, attempt,
                  guard, sentTo, answer>>
  BY DEF ReplyOk, Reply5xx, ReplyError, ClearFails, ClearUntil, CountFailure,
         ReadClock, StoreUntil, StreamEnd, peerVars
<1>2. \E l \in {"clear_fails", "clear_until", "count_failure", "read_clock",
                "store_until", "after_success", "after_failure", "done"} :
        /\ Goto(t, l)
        /\ pc[t] \in Busy \/ l = "done"
        /\ l = "done" => pc[t] = "stream"
        /\ pc[t] # "enter"
  BY DEF ReplyOk, Reply5xx, ReplyError, ClearFails, ClearUntil, CountFailure,
         ReadClock, StoreUntil, StreamEnd, Busy
<1>3. pc' \in [Tasks -> Locations]
  BY <1>2 DEF Goto, TypeOK, Locations
<1>4. fails' \in [Peers -> Nat] /\ failedUntil' \in [Peers -> Nat]
  <2>1. /\ \/ fails' = fails
           \/ fails' = [fails EXCEPT ![peer[t]] = 0]
           \/ fails' = [fails EXCEPT ![peer[t]] = @ + 1]
        /\ \/ failedUntil' = failedUntil
           \/ failedUntil' = [failedUntil EXCEPT ![peer[t]] = 0]
           \/ failedUntil' = [failedUntil EXCEPT ![peer[t]] = due[t]]
    BY DEF ReplyOk, Reply5xx, ReplyError, ClearFails, ClearUntil, CountFailure,
           ReadClock, StoreUntil, StreamEnd, peerVars
  <2>2. fails \in [Peers -> Nat] /\ failedUntil \in [Peers -> Nat] /\ due[t] \in Nat
    BY DEF TypeOK
  <2> QED
    BY <2>1, <2>2
<1>5. TypeOK'
  <2>1. due' \in [Tasks -> Nat]
    BY UpstreamAssumption
       DEF ReplyOk, Reply5xx, ReplyError, ClearFails, ClearUntil, CountFailure,
           ReadClock, StoreUntil, StreamEnd, TypeOK
  <2>2. last' \in [Tasks -> Peers \cup {None}]
    BY DEF ReplyOk, Reply5xx, ReplyError, ClearFails, ClearUntil, CountFailure,
           ReadClock, StoreUntil, StreamEnd, TypeOK
  <2> QED
    BY <1>1, <1>3, <1>4, <2>1, <2>2 DEF TypeOK
<1>6. PeerChosen'
  BY <1>1, <1>2 DEF PeerChosen, Goto, TypeOK, Busy
<1>7. GuardScope'
  BY <1>1, <1>2 DEF GuardScope, Goto, TypeOK
<1> QED
  BY <1>1, <1>5, <1>6, <1>7, GuardsUntouched

\* Leaving a peer: the guard, if there is one, is dropped.
LEMMA LeaveSteps ==
  ASSUME IInv, NEW t \in Tasks,
         AfterSuccess(t) \/ AfterFailure(t) \/ Collected(t) \/ Cancel(t)
  PROVE  IInv'
<1> USE DEF IInv
<1>1. CASE AfterSuccess(t) /\ kind[t] = "cached_get"
  <2>1. UNCHANGED <<inFlight, guard>>
    BY <1>1 DEF AfterSuccess
  <2>2. TypeOK'
    BY <1>1 DEF AfterSuccess, Goto, TypeOK, Locations
  <2>3. PeerChosen' /\ GuardScope'
    BY <1>1 DEF AfterSuccess, Goto, TypeOK, PeerChosen, GuardScope, Busy
  <2> QED
    BY <2>1, <2>2, <2>3, GuardsUntouched
<1>2. CASE ~(AfterSuccess(t) /\ kind[t] = "cached_get")
  <2>1. DropGuard(t)
    BY <1>2 DEF AfterSuccess, AfterFailure, Collected, Cancel
  <2>2. /\ InFlightExact'
        /\ inFlight' \in [Peers -> Nat]
        /\ guard' \in [Tasks -> Peers \cup {None}]
    BY <2>1, GuardDropped
  <2>3. \E l \in {"pick", "stream", "done"} :
          /\ Goto(t, l)
          /\ l = "pick" => kind[t] # "probe"
    BY <1>2 DEF AfterSuccess, AfterFailure, Collected, Cancel, RetryOrGiveUp, FailOnce,
                ExhaustedLocation, Retried
  <2>4. /\ UNCHANGED <<method, now, rr, fails, failedUntil, kind, pool, last, due,
                       sentTo>>
        /\ \A u \in Tasks : u # t => peer'[u] = peer[u]
    BY DEF AfterSuccess, AfterFailure, Collected, Cancel, RetryOrGiveUp, FailOnce,
           TypeOK
  <2>5. TypeOK'
    <3>1. /\ peer' = peer \/ peer' = [peer EXCEPT ![t] = last[t]]
          /\ attempt' = attempt \/ attempt' = [attempt EXCEPT ![t] = @ + 1]
          /\ \/ excluded' = excluded
             \/ /\ pc[t] \in Busy
                /\ excluded' = [excluded EXCEPT ![t] = @ \cup {Addr[peer[t]]}]
      BY DEF AfterSuccess, AfterFailure, Collected, Cancel, RetryOrGiveUp, FailOnce,
             Busy
    <3>2. pc[t] \in Busy => Addr[peer[t]] \in Addrs
      BY DEF PeerChosen, Addrs
    <3>5. excluded' \in [Tasks -> SUBSET Addrs]
      <4>1. excluded \in [Tasks -> SUBSET Addrs]
        BY DEF TypeOK
      <4> QED
        BY <3>1, <3>2, <4>1
    <3>6. peer' \in [Tasks -> Peers \cup {None}] /\ attempt' \in [Tasks -> Nat]
      <4>1. /\ peer \in [Tasks -> Peers \cup {None}]
            /\ last[t] \in Peers \cup {None}
            /\ attempt \in [Tasks -> Nat]
        BY DEF TypeOK
      <4> QED
        BY <3>1, <4>1
    <3>3. answer' \in [Tasks -> Answers]
      BY DEF AfterSuccess, AfterFailure, Collected, Cancel, RetryOrGiveUp, FailOnce,
             TypeOK, ExhaustedAnswer, Answers
    <3>4. pc' \in [Tasks -> Locations]
      BY <2>3 DEF Goto, TypeOK, Locations
    <3> QED
      BY <2>2, <2>4, <3>3, <3>4, <3>5, <3>6 DEF TypeOK
  <2>6. PeerChosen'
    BY <2>3, <2>4 DEF Goto, TypeOK, PeerChosen, Busy
  <2>7. GuardScope'
    BY <2>1, <2>3, <2>4, UpstreamAssumption DEF Goto, DropGuard, TypeOK, GuardScope
  <2> QED
    BY <2>2, <2>5, <2>6, <2>7
<1> QED
  BY <1>1, <1>2

LEMMA NextIInv == IInv /\ [Next]_vars => IInv'
<1> SUFFICES ASSUME IInv, [Next]_vars PROVE IInv'
  OBVIOUS
<1>1. CASE UNCHANGED vars
  BY <1>1 DEF vars, peerVars, taskVars, IInv, TypeOK, PeerChosen, GuardScope,
              InFlightExact, Holders
<1>2. CASE Tick
  BY <1>2 DEF Tick, peerVars, taskVars, IInv, TypeOK, PeerChosen, GuardScope,
              InFlightExact, Holders
<1>3. ASSUME NEW t \in Tasks,
             \/ Start(t) \/ Run(t)
             \/ ReplyOk(t) \/ Reply5xx(t) \/ ReplyError(t) \/ Timeout(t)
             \/ Collected(t) \/ StreamEnd(t) \/ Cancel(t)
      PROVE  IInv'
  BY <1>3, PickSteps, EnterStep, ExchangeSteps, LeaveSteps DEF Run, Timeout
<1> QED
  BY <1>1, <1>2, <1>3 DEF Next

\* Every variable of the upstream keeps its type; in particular the in-flight
\* counters never go below zero (fetch_sub in app.rs 371-375 never wraps).
THEOREM TypeCorrect == Spec => []TypeOK
<1>1. IInv => TypeOK
  BY DEF IInv
<1> QED
  BY <1>1, InitIInv, NextIInv, PTL DEF Spec

\* For every upstream block and any number of concurrent tasks, in_flight is the
\* number of live guards (app.rs 354-375, proxy.rs 264 and 332, stream.rs 120
\* and 184).
THEOREM InFlightCorrect == Spec => []InFlightExact
<1>1. IInv => InFlightExact
  BY DEF IInv
<1> QED
  BY <1>1, InitIInv, NextIInv, PTL DEF Spec

-----------------------------------------------------------------------------
(***************************************************************************)
(* Health                                                                  *)
(***************************************************************************)

\* Nothing was ever recorded about a peer marked down.
DownUntouched == \A p \in DownPeers : fails[p] = 0 /\ failedUntil[p] = 0

HealthInv == DownUntouched /\ DueBounded /\ CooldownBounded

\* How one step may change what is known of the peers' health.
LEMMA HealthStep ==
  ASSUME IInv, [Next]_vars
  PROVE  \/ UNCHANGED <<now, fails, failedUntil, due>>
         \/ Tick
         \/ \E t \in Tasks :
              /\ peer[t] \in Peers \ DownPeers
              /\ ClearFails(t) \/ ClearUntil(t) \/ CountFailure(t)
                 \/ ReadClock(t) \/ StoreUntil(t)
<1>1. CASE UNCHANGED vars
  BY <1>1 DEF vars, peerVars, taskVars
<1>2. CASE Tick
  BY <1>2
<1>3. ASSUME NEW t \in Tasks,
             ClearFails(t) \/ ClearUntil(t) \/ CountFailure(t) \/ ReadClock(t) \/ StoreUntil(t)
      PROVE  peer[t] \in Peers \ DownPeers
  BY <1>3 DEF IInv, PeerChosen, Busy, ClearFails, ClearUntil, CountFailure, ReadClock,
              StoreUntil
<1>4. ASSUME NEW t \in Tasks,
             \/ Start(t) \/ Scan(t) \/ Choose(t) \/ Enter(t) \/ SendProbe(t)
             \/ AfterSuccess(t) \/ AfterFailure(t)
             \/ ReplyOk(t) \/ Reply5xx(t) \/ ReplyError(t) \/ Timeout(t)
             \/ Collected(t) \/ StreamEnd(t) \/ Cancel(t)
      PROVE  UNCHANGED <<now, fails, failedUntil, due>>
  BY <1>4 DEF Start, Scan, Choose, Enter, SendProbe, AfterSuccess, AfterFailure, ReplyOk,
              Reply5xx, ReplyError, Timeout, Collected, StreamEnd, Cancel, peerVars
<1> QED
  BY <1>1, <1>2, <1>3, <1>4 DEF Next, Run

LEMMA NextHealthInv == IInv /\ HealthInv /\ [Next]_vars => HealthInv'
<1> SUFFICES ASSUME IInv, HealthInv, [Next]_vars PROVE HealthInv'
  OBVIOUS
<1>t. /\ now \in Nat /\ FailTimeout \in Nat
      /\ fails \in [Peers -> Nat]
      /\ failedUntil \in [Peers -> Nat]
      /\ due \in [Tasks -> Nat]
      /\ DownPeers \subseteq Peers
  BY UpstreamAssumption DEF IInv, TypeOK
<1> USE DEF HealthInv, DownUntouched, DueBounded, CooldownBounded
<1>1. CASE UNCHANGED <<now, fails, failedUntil, due>>
  BY <1>1
<1>2. CASE Tick
  BY <1>2, <1>t DEF Tick, peerVars, taskVars
<1>3. ASSUME NEW t \in Tasks, peer[t] \in Peers \ DownPeers,
             ClearFails(t) \/ ClearUntil(t)
      PROVE  HealthInv'
  BY <1>3, <1>t DEF ClearFails, ClearUntil
<1>4. ASSUME NEW t \in Tasks, peer[t] \in Peers \ DownPeers, CountFailure(t)
      PROVE  HealthInv'
  BY <1>4, <1>t DEF CountFailure
<1>5. ASSUME NEW t \in Tasks, peer[t] \in Peers \ DownPeers, ReadClock(t)
      PROVE  HealthInv'
  BY <1>5, <1>t DEF ReadClock, peerVars
<1>6. ASSUME NEW t \in Tasks, peer[t] \in Peers \ DownPeers, StoreUntil(t)
      PROVE  HealthInv'
  BY <1>6, <1>t DEF StoreUntil
<1> QED
  BY <1>1, <1>2, <1>3, <1>4, <1>5, <1>6, HealthStep

LEMMA InitHealthInv == Init => HealthInv
BY UpstreamAssumption DEF Init, HealthInv, DownUntouched, DueBounded, CooldownBounded

\* For every block and any interleaving, a peer marked `down` is neither picked
\* nor judged (app.rs 328-334, 408-437; health.rs 39-41).
THEOREM DownPeersCorrect == Spec => []DownPeersUnused
<1>1. IInv /\ HealthInv => DownPeersUnused
  <2> SUFFICES ASSUME IInv, HealthInv, NEW p \in DownPeers
               PROVE  inFlight[p] = 0 /\ fails[p] = 0 /\ failedUntil[p] = 0
    BY DEF DownPeersUnused
  <2>1. p \in Peers /\ p # None
    BY UpstreamAssumption
  <2>2. Holders(p) = {}
    BY <2>1 DEF IInv, Holders, GuardScope, PeerChosen, Busy, TypeOK, Locations
  <2> QED
    BY <2>1, <2>2, FS_EmptySet DEF IInv, InFlightExact, HealthInv, DownUntouched
<1> QED
  BY <1>1, InitIInv, NextIInv, InitHealthInv, NextHealthInv, PTL DEF Spec

\* No interleaving of failure reports keeps a peer out of rotation for more than
\* one fail_timeout from now (app.rs 344-350).
THEOREM CooldownCorrect == Spec => []CooldownBounded
<1>1. HealthInv => CooldownBounded
  BY DEF HealthInv
<1> QED
  BY <1>1, InitIInv, NextIInv, InitHealthInv, NextHealthInv, PTL DEF Spec

-----------------------------------------------------------------------------
(***************************************************************************)
(* Upstream implements ForwardContract                                     *)
(***************************************************************************)

Unsent == {"probe", "pick", "choose", "enter"}

\* Why no address is tried twice: before each send, what the retry loop has
\* excluded covers what it has sent to, and the loop index counts the sends.
SendsTracked ==
  \A t \in Tasks :
    /\ pc[t] = "idle" <=> kind[t] = "none"
    /\ pc[t] = "idle" => sentTo[t] = << >> /\ attempt[t] = 0
    /\ pc[t] = "probe" => attempt[t] = 0
    /\ pc[t] \in Unsent =>
         /\ Len(sentTo[t]) = attempt[t]
         /\ attempt[t] < Budget[kind[t]]
         /\ \A i \in 1..Len(sentTo[t]) : sentTo[t][i] \in excluded[t]
    /\ pc[t] = "choose" => \A p \in pool[t] : Addr[p] \notin excluded[t]
    /\ pc[t] = "enter" => Addr[peer[t]] \notin excluded[t]
    /\ pc[t] \in Busy \ {"enter"} =>
         /\ Len(sentTo[t]) = attempt[t] + 1
         /\ \A i \in 1..Len(sentTo[t]) :
              sentTo[t][i] \in excluded[t] \cup {Addr[peer[t]]}

LEMMA BudgetType ==
  ASSUME NEW k \in AllKinds
  PROVE  Budget[k] \in Nat \ {0}
<1>1. Cardinality(Peers) \in Nat
  BY UpstreamAssumption, FS_CardinalityType
<1> QED
  BY <1>1 DEF Budget, MaxAttempts

LEMMA InitSendsTracked == Init => SendsTracked
BY DEF Init, SendsTracked, Unsent, Busy

LEMMA SendsTrackedPick ==
  ASSUME IInv, SendsTracked, NEW t \in Tasks, Start(t) \/ Scan(t) \/ Choose(t)
  PROVE  SendsTracked'
<1> USE DEF IInv
<1>1. CASE Start(t)
  <2>1. PICK k \in AllKinds : /\ kind' = [kind EXCEPT ![t] = k]
                              /\ Goto(t, IF k = "probe" THEN "probe" ELSE "pick")
    BY <1>1, StartedKind
  <2>2. Budget[k] \in Nat \ {0} /\ k # "none"
    BY BudgetType DEF AllKinds
  <2> QED
    BY SMTT(30), <1>1, <2>1, <2>2 DEF Start, Goto, TypeOK, SendsTracked, Unsent, Busy
<1>2. CASE Scan(t)
  <2>1. \A p \in PickPool(excluded[t]) : Addr[p] \notin excluded[t]
    BY DEF PickPool, Eligible
  <2>2. ExhaustedLocation(t) \in {"done", "stream"}
    BY DEF ExhaustedLocation
  <2>3. \E l \in {"choose", "done", "stream"} : Goto(t, l)
    BY <1>2, <2>2 DEF Scan
  <2>4. /\ UNCHANGED <<kind, excluded, attempt, sentTo>>
        /\ pool' = [pool EXCEPT ![t] = PickPool(excluded[t])]
        /\ \A u \in Tasks : u # t => peer'[u] = peer[u]
        /\ pc[t] = "pick"
    BY <1>2 DEF Scan, TypeOK
  <2> QED
    BY SMTT(30), <2>1, <2>3, <2>4 DEF Goto, TypeOK, SendsTracked, Unsent, Busy
<1>3. CASE Choose(t)
  <2>1. PICK p \in pool[t] : peer' = [peer EXCEPT ![t] = p]
    BY <1>3 DEF Choose
  <2>2. Addr[p] \notin excluded[t]
    BY <1>3, <2>1 DEF Choose, SendsTracked
  <2> QED
    BY <1>3, <2>1, <2>2 DEF Choose, Goto, TypeOK, SendsTracked, Unsent, Busy
<1> QED
  BY <1>1, <1>2, <1>3

\* A send appends the one address that was not there yet.
LEMMA SendsTrackedSend ==
  ASSUME IInv, SendsTracked, NEW t \in Tasks, Enter(t) \/ SendProbe(t)
  PROVE  SendsTracked'
<1> USE DEF IInv
<1>1. PICK p \in Peers : /\ peer'[t] = p
                         /\ \A u \in Tasks : u # t => peer'[u] = peer[u]
                         /\ sentTo' = [sentTo EXCEPT ![t] = Append(@, Addr[p])]
                         /\ Goto(t, "wait")
                         /\ pc[t] \in Unsent
                         /\ UNCHANGED <<kind, pool, excluded, attempt>>
  BY DEF Enter, SendProbe, PeerChosen, TypeOK, Busy, Unsent
<1>2. sentTo[t] \in Seq(Addrs) /\ Addr[p] \in Addrs
  BY DEF TypeOK, Addrs
<1>3. /\ Len(sentTo'[t]) = Len(sentTo[t]) + 1
      /\ \A i \in 1..Len(sentTo[t]) : sentTo'[t][i] = sentTo[t][i]
      /\ sentTo'[t][Len(sentTo[t]) + 1] = Addr[p]
  BY <1>1, <1>2 DEF TypeOK
<1>4. \A i \in 1..Len(sentTo'[t]) : sentTo'[t][i] \in excluded[t] \cup {Addr[p]}
  BY <1>1, <1>2, <1>3 DEF SendsTracked
<1> QED
  BY SMTT(30), <1>1, <1>3, <1>4 DEF Goto, TypeOK, SendsTracked, Unsent, Busy

LEMMA SendsTrackedExchange ==
  ASSUME IInv, SendsTracked, NEW t \in Tasks,
         \/ ReplyOk(t) \/ Reply5xx(t) \/ ReplyError(t)
         \/ ClearFails(t) \/ ClearUntil(t)
         \/ CountFailure(t) \/ ReadClock(t) \/ StoreUntil(t)
         \/ StreamEnd(t)
  PROVE  SendsTracked'
<1>1. UNCHANGED <<kind, peer, pool, excluded, attempt, sentTo>>
  BY DEF ReplyOk, Reply5xx, ReplyError, ClearFails, ClearUntil, CountFailure,
         ReadClock, StoreUntil, StreamEnd
<1>2. \E l \in (Busy \ {"enter"}) \cup {"done"} :
        /\ Goto(t, l)
        /\ l = "done" => pc[t] = "stream"
        /\ l # "done" => pc[t] \in Busy \ {"enter"}
  BY DEF ReplyOk, Reply5xx, ReplyError, ClearFails, ClearUntil, CountFailure,
         ReadClock, StoreUntil, StreamEnd, Busy
<1> QED
  BY <1>1, <1>2 DEF IInv, Goto, TypeOK, SendsTracked, Unsent, Busy

\* Only the retry loop comes back, with the failed address excluded.
LEMMA SendsTrackedLeave ==
  ASSUME IInv, SendsTracked, NEW t \in Tasks,
         AfterSuccess(t) \/ AfterFailure(t) \/ Collected(t) \/ Cancel(t)
  PROVE  SendsTracked'
<1> USE DEF IInv
<1>1. UNCHANGED <<kind, pool, sentTo>> /\ pc[t] \in Busy \ {"enter"}
  BY DEF AfterSuccess, AfterFailure, Collected, Cancel, Busy
<1>2. CASE /\ AfterFailure(t)
           /\ Goto(t, "pick")
           /\ attempt[t] + 1 < Budget[kind[t]]
           /\ excluded' = [excluded EXCEPT ![t] = @ \cup {Addr[peer[t]]}]
           /\ attempt' = [attempt EXCEPT ![t] = @ + 1]
           /\ UNCHANGED peer
  BY <1>1, <1>2 DEF Goto, TypeOK, SendsTracked, Unsent, Busy
<1>3. CASE Goto(t, "collect") /\ UNCHANGED <<peer, excluded, attempt>>
  BY <1>1, <1>3 DEF Goto, TypeOK, SendsTracked, Unsent, Busy
<1>4. CASE /\ \E l \in {"stream", "done"} : Goto(t, l)
           /\ \A u \in Tasks : u # t => /\ peer'[u] = peer[u]
                                       /\ excluded'[u] = excluded[u]
                                       /\ attempt'[u] = attempt[u]
  BY <1>1, <1>4 DEF Goto, TypeOK, SendsTracked, Unsent, Busy
<1>5. ExhaustedLocation(t) \in {"stream", "done"}
  BY DEF ExhaustedLocation
<1>6. CASE AfterSuccess(t) \/ Collected(t) \/ Cancel(t)
  BY <1>3, <1>4, <1>6 DEF AfterSuccess, Collected, Cancel
<1>7. CASE AfterFailure(t) /\ RetryOrGiveUp(t)
  BY <1>2, <1>4, <1>5, <1>7 DEF AfterFailure, RetryOrGiveUp, TypeOK
<1>8. CASE AfterFailure(t) /\ FailOnce(t)
  BY <1>4, <1>5, <1>8 DEF AfterFailure, FailOnce
<1> QED
  BY <1>6, <1>7, <1>8 DEF AfterFailure

LEMMA NextSendsTracked == IInv /\ SendsTracked /\ [Next]_vars => SendsTracked'
<1> SUFFICES ASSUME IInv, SendsTracked, [Next]_vars PROVE SendsTracked'
  OBVIOUS
<1>1. CASE UNCHANGED vars \/ Tick
  BY <1>1 DEF Tick, vars, peerVars, taskVars, SendsTracked
<1>2. ASSUME NEW t \in Tasks,
             \/ Start(t) \/ Run(t)
             \/ ReplyOk(t) \/ Reply5xx(t) \/ ReplyError(t) \/ Timeout(t)
             \/ Collected(t) \/ StreamEnd(t) \/ Cancel(t)
      PROVE  SendsTracked'
  BY <1>2, SendsTrackedPick, SendsTrackedSend, SendsTrackedExchange, SendsTrackedLeave
     DEF Run, Timeout
<1> QED
  BY <1>1, <1>2 DEF Next

\* What a step of the detailed specification is for the contract.
LEMMA ContractStep ==
  ASSUME IInv, SendsTracked, [Next]_vars
  PROVE  [Contract!CNext]_(Contract!cvars)
<1> DEFINE Over(f) == [t \in Tasks |-> f[t] \in {"stream", "done"}]
<1> USE DEF IInv
<1>1. CASE UNCHANGED <<pc, kind, sentTo>>
  BY <1>1 DEF Contract!cvars
<1>2. ASSUME NEW t \in Tasks, Start(t)
      PROVE  Contract!CStart(t)
  <2>1. kind[t] = "none"
    BY <1>2 DEF Start, SendsTracked
  <2>2. Over(pc') = Over(pc)
    BY <1>2 DEF Start, Goto, TypeOK
  <2> QED
    BY <1>2, <2>1, <2>2, StartedKind DEF Start, Contract!CStart
<1>3. ASSUME NEW t \in Tasks, Enter(t) \/ SendProbe(t)
      PROVE  Contract!CSend(t)
  <2>1. PICK p \in Peers : /\ sentTo' = [sentTo EXCEPT ![t] = Append(@, Addr[p])]
                           /\ pc[t] = "enter" => p = peer[t]
                           /\ pc[t] \in {"enter", "probe"}
    BY <1>3 DEF Enter, SendProbe, PeerChosen, Busy
  <2>2. /\ kind[t] # "none"
        /\ kind[t] \in AllKinds
        /\ Len(sentTo[t]) < Budget[kind[t]]
    BY <2>1 DEF SendsTracked, TypeOK, Unsent
  <2>3. \A i \in 1..Len(sentTo[t]) : sentTo[t][i] # Addr[p]
    BY <2>1 DEF SendsTracked, Unsent
  <2>4. Addr[p] \in Addrs
    BY DEF Addrs
  <2>5. Over(pc') = Over(pc) /\ kind' = kind
    BY SMTT(30), <1>3 DEF Enter, SendProbe, Goto, TypeOK
  <2>6. ~Over(pc)[t]
    BY <2>1
  <2> QED
    BY <2>1, <2>2, <2>3, <2>4, <2>5, <2>6 DEF Contract!CSend
<1>4. ASSUME NEW t \in Tasks, NEW l \in {"stream", "done"}, Goto(t, l),
             pc[t] \notin {"idle", "stream", "done"}, UNCHANGED <<kind, sentTo>>
      PROVE  Contract!CAnswer(t)
  <2>1. kind[t] \in AllKinds
    BY <1>4 DEF SendsTracked, TypeOK
  <2>2. Over(pc') = [Over(pc) EXCEPT ![t] = TRUE] /\ ~Over(pc)[t]
    BY <1>4 DEF Goto, TypeOK
  <2> QED
    BY <1>4, <2>1, <2>2 DEF Contract!CAnswer
<1>5. ASSUME NEW t \in Tasks, NEW l \in Locations, Goto(t, l), UNCHANGED <<kind, sentTo>>,
             l \in {"stream", "done"} <=> pc[t] \in {"stream", "done"}
      PROVE  UNCHANGED Contract!cvars
  <2>1. Over(pc') = Over(pc)
    BY <1>5 DEF Goto, TypeOK
  <2> QED
    BY <1>5, <2>1 DEF Contract!cvars
<1> HIDE DEF Over
<1>6. ASSUME NEW t \in Tasks, Scan(t) \/ Choose(t)
      PROVE  Contract!CAnswer(t) \/ UNCHANGED Contract!cvars
  <2>1. ExhaustedLocation(t) \in {"stream", "done"}
    BY DEF ExhaustedLocation
  <2>2. PICK l \in {"choose", "enter", "stream", "done"} : Goto(t, l)
    BY <1>6, <2>1 DEF Scan, Choose
  <2>3. pc[t] \in {"pick", "choose"} /\ UNCHANGED <<kind, sentTo>>
    BY <1>6 DEF Scan, Choose
  <2> QED
    BY <1>4, <1>5, <2>2, <2>3 DEF Locations
<1>7. ASSUME NEW t \in Tasks,
             \/ ReplyOk(t) \/ Reply5xx(t) \/ ReplyError(t)
             \/ ClearFails(t) \/ ClearUntil(t)
             \/ CountFailure(t) \/ ReadClock(t) \/ StoreUntil(t)
             \/ StreamEnd(t)
      PROVE  UNCHANGED Contract!cvars
  <2>1. UNCHANGED <<kind, sentTo>>
    BY <1>7 DEF ReplyOk, Reply5xx, ReplyError, ClearFails, ClearUntil, CountFailure,
                ReadClock, StoreUntil, StreamEnd
  <2>2. \E l \in Locations :
          Goto(t, l) /\ (l \in {"stream", "done"} <=> pc[t] \in {"stream", "done"})
    BY <1>7 DEF ReplyOk, Reply5xx, ReplyError, ClearFails, ClearUntil, CountFailure,
                ReadClock, StoreUntil, StreamEnd, Locations
  <2> QED
    BY <1>5, <2>1, <2>2
<1>8. ASSUME NEW t \in Tasks,
             AfterSuccess(t) \/ AfterFailure(t) \/ Collected(t) \/ Cancel(t)
      PROVE  Contract!CAnswer(t) \/ UNCHANGED Contract!cvars
  <2>1. ExhaustedLocation(t) \in {"stream", "done"}
    BY DEF ExhaustedLocation
  <2>2. PICK l \in {"collect", "pick", "stream", "done"} : Goto(t, l)
    BY <1>8, <2>1 DEF AfterSuccess, AfterFailure, RetryOrGiveUp, FailOnce, Collected, Cancel
  <2>3. pc[t] \in Busy /\ UNCHANGED <<kind, sentTo>>
    BY <1>8 DEF AfterSuccess, AfterFailure, Collected, Cancel, Busy
  <2> QED
    BY <1>4, <1>5, <2>2, <2>3 DEF Locations, Busy
<1>9. CASE UNCHANGED vars \/ Tick
  BY <1>1, <1>9 DEF Tick, vars, peerVars, taskVars
<1> QED
  BY <1>2, <1>3, <1>6, <1>7, <1>8, <1>9 DEF Next, Run, Timeout, Contract!CNext

\* For every block and any number of tasks, the retry loop, the single-shot
\* path, the relays and the probes keep ForwardContract (proxy.rs 194-361): no
\* address twice, no more sends than allowed, none after the answer.
THEOREM ContractKept == Spec => KeepsContract
<1>1. Init => Contract!CInit
  <2> SUFFICES ASSUME Init PROVE Contract!CInit
    OBVIOUS
  <2>1. \A t \in Tasks : (pc[t] \in {"stream", "done"}) = FALSE
    BY DEF Init
  <2>2. [t \in Tasks |-> pc[t] \in {"stream", "done"}] = [t \in Tasks |-> FALSE]
    BY <2>1, Zenon
  <2> QED
    BY <2>2 DEF Init, Contract!CInit
<1>2. IInv /\ SendsTracked /\ [Next]_vars => [Contract!CNext]_(Contract!cvars)
  BY ContractStep
<1> QED
  BY <1>1, <1>2, InitIInv, NextIInv, InitSendsTracked, NextSendsTracked, PTL
     DEF Spec, KeepsContract, Contract!CSpec
=============================================================================
