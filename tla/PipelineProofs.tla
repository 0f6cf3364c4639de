--------------------------- MODULE PipelineProofs ---------------------------
(***************************************************************************)
(* Proofs about Pipeline for any requests, clients, locations and rules.   *)
(***************************************************************************)
EXTENDS Pipeline, FiniteSetTheorems, WellFoundedInduction, TLAPS

\* A set of numbers that is not empty has a least one.
LEMMA LeastElement ==
  ASSUME NEW T \in SUBSET Nat, T # {}
  PROVE  \E m \in T : \A n \in T : m <= n
<1>1. IsWellFoundedOn(OpToRel(<, Nat), Nat)
  BY NatLessThanWellFounded
<1>2. PICK m \in T : \A n \in T : ~(<<n, m>> \in OpToRel(<, Nat))
  BY <1>1, WFMin
<1>3. \A n \in T : ~(n < m)
  BY <1>2 DEF OpToRel
<1> QED
  BY <1>3

LEMMA CapsNat ==
  /\ Caps \subseteq Nat
  /\ \A l \in Locations : Loc[l].cap # None => Loc[l].cap \in Caps
BY PipelineAssumption DEF Caps

-----------------------------------------------------------------------------
(***************************************************************************)
(* The zone                                                                *)
(***************************************************************************)

\* A request owns a guard exactly while its handler is past the limit_conn gate.
GuardWhileHandling ==
  \A r \in Requests : guard[r] # None <=> stage[r] = "handling"

ZoneInv ==
  /\ Zone!TypeOK
  /\ GuardWhileHandling
  /\ Zone!CountsExact
  /\ Zone!CapsKept

\* The instance has its own copy of Cardinality.
LEMMA ZoneCardinality ==
  ASSUME NEW S
  PROVE  Zone!Cardinality(S) = Cardinality(S)
BY DEF Zone!Cardinality, Cardinality

LEMMA HoldersFinite ==
  ASSUME NEW k
  PROVE  IsFiniteSet(Zone!Holders(k)) /\ Cardinality(Zone!Holders(k)) \in Nat
<1>1. Zone!Holders(k) \in SUBSET Requests
  BY DEF Zone!Holders
<1>2. IsFiniteSet(Zone!Holders(k))
  BY <1>1, PipelineAssumption, FS_Subset
<1> QED
  BY <1>2, FS_CardinalityType

\* Looking a key up changes no count and takes no entry in use.
LEMMA LookupHarmless ==
  ASSUME ZoneInv, NEW k \in Clients, NEW gone \in Zone!Evicted(k)
  PROVE  /\ Zone!Counts(gone) = count
         /\ Zone!Entries(gone, k) \subseteq Clients
         /\ k \in Zone!Entries(gone, k)
         /\ \A d \in Clients : Zone!Holders(d) # {} => d \in Zone!Entries(gone, k)
<1>1. \A d \in gone : d \in entries /\ count[d] = 0
  BY DEF Zone!Evicted
<1>2. Zone!Counts(gone) = count
  BY <1>1 DEF Zone!Counts, ZoneInv, Zone!TypeOK
<1>3. ASSUME NEW d \in Clients, Zone!Holders(d) # {}
      PROVE  d \in entries \ gone
  <2>1. count[d] # 0 /\ d \in entries
    BY <1>3, HoldersFinite, FS_EmptySet, ZoneCardinality DEF ZoneInv, Zone!CountsExact
  <2> QED
    BY <1>1, <2>1
<1> QED
  BY <1>1, <1>2, <1>3 DEF Zone!Entries, ZoneInv, Zone!TypeOK

\* What a step has to show about the zone when only the holders of k change.
Under(k, m) == {r \in Zone!Holders(k) : cap[r] <= m}

LEMMA CapsKeptByCardinality ==
  Zone!CapsKept <=> \A k \in Clients, m \in Caps : Cardinality(Under(k, m)) <= m
BY ZoneCardinality DEF Zone!CapsKept, Under

LEMMA UnderFinite ==
  ASSUME NEW k, NEW m
  PROVE  /\ IsFiniteSet(Under(k, m))
         /\ Cardinality(Under(k, m)) \in Nat
         /\ Cardinality(Under(k, m)) <= Cardinality(Zone!Holders(k))
<1>1. Under(k, m) \in SUBSET Zone!Holders(k)
  BY DEF Under
<1> QED
  BY <1>1, HoldersFinite, FS_Subset, FS_CardinalityType

LEMMA AdmitZone ==
  ASSUME ZoneInv, NEW r \in Requests, NEW k \in Clients, NEW m \in Caps,
         Zone!Admit(r, k, m)
  PROVE  ZoneInv'
<1> USE DEF ZoneInv
<1>1. PICK gone \in Zone!Evicted(k) :
        /\ Zone!Counts(gone)[k] < m
        /\ entries' = Zone!Entries(gone, k)
        /\ count' = [Zone!Counts(gone) EXCEPT ![k] = @ + 1]
  BY DEF Zone!Admit
<1>2. /\ Zone!Counts(gone) = count
      /\ Zone!Entries(gone, k) \subseteq Clients
      /\ k \in Zone!Entries(gone, k)
      /\ \A d \in Clients : Zone!Holders(d) # {} => d \in Zone!Entries(gone, k)
  BY LookupHarmless
<1>3. /\ guard[r] = None
      /\ guard' = [guard EXCEPT ![r] = k]
      /\ cap' = [cap EXCEPT ![r] = m]
      /\ m \in Nat
  BY CapsNat DEF Zone!Admit, GuardWhileHandling
<1>4. Zone!Holders(k)' = Zone!Holders(k) \cup {r} /\ r \notin Zone!Holders(k)
  BY <1>3, PipelineAssumption DEF Zone!Holders, Zone!TypeOK
<1>5. \A d \in Clients : d # k => Zone!Holders(d)' = Zone!Holders(d) /\ r \notin Zone!Holders(d)
  BY <1>3, PipelineAssumption DEF Zone!Holders, Zone!TypeOK
<1>6. /\ Cardinality(Zone!Holders(k)') = Cardinality(Zone!Holders(k)) + 1
      /\ IsFiniteSet(Zone!Holders(k)')
  BY <1>4, HoldersFinite, FS_AddElement
<1>7. Zone!TypeOK'
  <2>1. peak' \in Nat
    <3>1. Zone!HeldKeys' \in SUBSET Clients
      BY DEF Zone!HeldKeys
    <3>2. Cardinality(Zone!HeldKeys') \in Nat
      BY <3>1, PipelineAssumption, FS_Subset, FS_CardinalityType
    <3>3. Zone!Cardinality(Zone!HeldKeys') = Cardinality(Zone!HeldKeys')
      BY ZoneCardinality
    <3> QED
      BY <3>2, <3>3 DEF Zone!Admit, Zone!TypeOK
  <2>2. count' \in [Clients -> Nat] /\ entries' \subseteq Clients
    BY <1>1, <1>2 DEF Zone!TypeOK
  <2>3. /\ guard' \in [Requests -> Clients \cup {None}]
        /\ key' \in [Requests -> Clients \cup {None}]
        /\ stage' \in [Requests -> {"free", "handling", "streaming"}]
    BY DEF Zone!Admit, Zone!TypeOK
  <2>4. cap' \in [Requests -> Nat]
    BY <1>3 DEF Zone!TypeOK
  <2> QED
    BY <2>1, <2>2, <2>3, <2>4 DEF Zone!TypeOK
<1>8. GuardWhileHandling'
  BY <1>3, PipelineAssumption DEF Zone!Admit, GuardWhileHandling, Zone!TypeOK
<1>9. /\ count[k] = Cardinality(Zone!Holders(k))
      /\ \A d \in Clients : count[d] = Cardinality(Zone!Holders(d))
  BY ZoneCardinality DEF Zone!CountsExact
<1>10. Zone!CountsExact'
  <2> SUFFICES ASSUME NEW d \in Clients
               PROVE  /\ count'[d] = Cardinality(Zone!Holders(d)')
                      /\ Zone!Holders(d)' # {} => d \in entries'
    BY ZoneCardinality DEF Zone!CountsExact
  <2>1. CASE d = k
    BY <1>1, <1>2, <1>6, <1>9, <2>1 DEF Zone!TypeOK
  <2>2. CASE d # k
    BY <1>1, <1>2, <1>5, <1>9, <2>2 DEF Zone!TypeOK
  <2> QED
    BY <2>1, <2>2
<1>11. Zone!CapsKept'
  <2> SUFFICES ASSUME NEW d \in Clients, NEW n \in Caps
               PROVE  Cardinality(Under(d, n)') <= n
    BY ZoneCardinality DEF Zone!CapsKept, Under
  <2>1. n \in Nat /\ Cardinality(Under(d, n)) <= n
    BY CapsNat, CapsKeptByCardinality
  <2>2. CASE d # k
    <3>1. Under(d, n)' = Under(d, n)
      BY <1>3, <1>5, <2>2 DEF Under, Zone!Holders, Zone!TypeOK
    <3> QED
      BY <2>1, <3>1
  <2>3. CASE d = k /\ m > n
    <3>1. Under(d, n)' = Under(d, n)
      BY <1>3, <1>4, <2>1, <2>3 DEF Under, Zone!Holders, Zone!TypeOK
    <3> QED
      BY <2>1, <3>1
  <2>4. CASE d = k /\ m <= n
    <3>1. Under(k, n)' \in SUBSET (Zone!Holders(k)')
      BY DEF Under
    <3>2. /\ Cardinality(Under(k, n)') <= Cardinality(Zone!Holders(k)')
          /\ Cardinality(Under(k, n)') \in Nat
      BY <1>6, <3>1, FS_Subset, FS_CardinalityType
    <3>3. Cardinality(Zone!Holders(k)) < m
      BY <1>1, <1>2, <1>9
    <3> QED
      BY <1>3, <1>6, <2>1, <2>4, <3>2, <3>3, HoldersFinite
  <2> QED
    BY <1>3, <2>1, <2>2, <2>3, <2>4
<1> QED
  BY <1>7, <1>8, <1>10, <1>11

LEMMA DenyZone ==
  ASSUME ZoneInv, NEW r \in Requests, NEW k \in Clients, NEW m, Zone!Deny(r, k, m)
  PROVE  ZoneInv'
<1> USE DEF ZoneInv
<1>1. PICK gone \in Zone!Evicted(k) :
        entries' = Zone!Entries(gone, k) /\ count' = Zone!Counts(gone)
  BY DEF Zone!Deny
<1>2. /\ Zone!Counts(gone) = count
      /\ Zone!Entries(gone, k) \subseteq Clients
      /\ \A d \in Clients : Zone!Holders(d) # {} => d \in Zone!Entries(gone, k)
  BY LookupHarmless
<1>3. UNCHANGED <<stage, guard, key, cap, peak, count>>
  BY <1>1, <1>2 DEF Zone!Deny
<1>4. Zone!CountsExact' /\ Zone!CapsKept'
  BY <1>1, <1>2, <1>3 DEF Zone!CountsExact, Zone!CapsKept, Zone!Holders
<1> QED
  BY <1>1, <1>2, <1>3, <1>4 DEF Zone!TypeOK, GuardWhileHandling

LEMMA DropZone ==
  ASSUME ZoneInv, NEW r \in Requests, Zone!Respond(r) \/ Zone!Abort(r)
  PROVE  ZoneInv'
<1> USE DEF ZoneInv
<1>1. /\ Zone!DropGuard(r) /\ stage[r] = "handling"
      /\ UNCHANGED <<key, cap, peak, entries>>
  BY DEF Zone!Respond, Zone!Abort, Zone!DropGuard
<1>2. PICK k \in Clients : guard[r] = k
  BY <1>1 DEF GuardWhileHandling, Zone!TypeOK
<1>3. guard' = [guard EXCEPT ![r] = None]
  BY <1>1 DEF Zone!DropGuard
<1>4. Zone!Holders(k)' = Zone!Holders(k) \ {r} /\ r \in Zone!Holders(k)
  BY <1>2, <1>3, PipelineAssumption DEF Zone!Holders, Zone!TypeOK
<1>5. \A d \in Clients : d # k => Zone!Holders(d)' = Zone!Holders(d)
  BY <1>2, <1>3, PipelineAssumption DEF Zone!Holders, Zone!TypeOK
<1>6. Cardinality(Zone!Holders(k)') = Cardinality(Zone!Holders(k)) - 1
  BY <1>4, HoldersFinite, FS_RemoveElement
<1>7. Cardinality(Zone!Holders(k)) # 0
  BY <1>4, HoldersFinite, FS_EmptySet
<1>8. /\ \A d \in Clients : count[d] = Cardinality(Zone!Holders(d))
      /\ k \in entries /\ count[k] # 0
  BY <1>4, <1>7, ZoneCardinality DEF Zone!CountsExact
<1>9. count' = [count EXCEPT ![k] = @ - 1]
  BY <1>1, <1>2, <1>8 DEF Zone!DropGuard, Zone!TypeOK
<1>10. Zone!TypeOK'
  BY <1>1, <1>3, <1>8, <1>9 DEF Zone!Respond, Zone!Abort, Zone!TypeOK
<1>11. GuardWhileHandling'
  BY <1>3, PipelineAssumption DEF Zone!Respond, Zone!Abort, GuardWhileHandling, Zone!TypeOK
<1>12. Zone!CountsExact'
  <2> SUFFICES ASSUME NEW d \in Clients
               PROVE  /\ count'[d] = Cardinality(Zone!Holders(d)')
                      /\ Zone!Holders(d)' # {} => d \in entries'
    BY ZoneCardinality DEF Zone!CountsExact
  <2>1. CASE d = k
    BY <1>1, <1>6, <1>8, <1>9, <2>1 DEF Zone!TypeOK
  <2>2. CASE d # k
    BY <1>1, <1>5, <1>8, <1>9, <2>2 DEF Zone!CountsExact, Zone!TypeOK
  <2> QED
    BY <2>1, <2>2
<1>13. Zone!CapsKept'
  <2> SUFFICES ASSUME NEW d \in Clients, NEW n \in Caps
               PROVE  Cardinality(Under(d, n)') <= n
    BY ZoneCardinality DEF Zone!CapsKept, Under
  <2>1. n \in Nat /\ Cardinality(Under(d, n)) <= n
    BY CapsNat, CapsKeptByCardinality
  <2>2. Under(d, n)' \in SUBSET Under(d, n)
    BY <1>1, <1>4, <1>5 DEF Under
  <2>3. /\ Cardinality(Under(d, n)') <= Cardinality(Under(d, n))
        /\ Cardinality(Under(d, n)') \in Nat
    BY <2>2, UnderFinite, FS_Subset, FS_CardinalityType
  <2> QED
    BY <2>1, <2>3, UnderFinite
<1> QED
  BY <1>10, <1>11, <1>12, <1>13

LEMMA FinishZone ==
  ASSUME ZoneInv, NEW r \in Requests, Zone!Finish(r) \/ UNCHANGED zone
  PROVE  ZoneInv'
BY DEF ZoneInv, Zone!Finish, zone, Zone!TypeOK, GuardWhileHandling, Zone!CountsExact,
       Zone!CapsKept, Zone!Holders

LEMMA InitZone == Zone!Init => ZoneInv
<1> SUFFICES ASSUME Zone!Init PROVE ZoneInv
  OBVIOUS
<1>1. Zone!TypeOK /\ GuardWhileHandling
  BY DEF Zone!Init, Zone!TypeOK, GuardWhileHandling
<1>2. \A k \in Clients : Zone!Holders(k) = {}
  BY PipelineAssumption DEF Zone!Init, Zone!Holders
<1>3. Zone!CountsExact
  BY <1>2, FS_EmptySet, ZoneCardinality DEF Zone!Init, Zone!CountsExact
<1>4. Zone!CapsKept
  <2> SUFFICES ASSUME NEW k \in Clients, NEW m \in Caps
               PROVE  Cardinality(Under(k, m)) <= m
    BY CapsKeptByCardinality
  <2>1. Under(k, m) = {}
    BY <1>2 DEF Under
  <2> QED
    BY <2>1, FS_EmptySet, CapsNat
<1> QED
  BY <1>1, <1>3, <1>4 DEF ZoneInv

\* Every step of the zone keeps its invariant.
LEMMA NextZone == ZoneInv /\ [Zone!Next]_zone => ZoneInv'
BY AdmitZone, DenyZone, DropZone, FinishZone DEF Zone!Next, zone, ZoneInv, Zone!TypeOK,
   GuardWhileHandling, Zone!CountsExact, Zone!CapsKept, Zone!Holders

-----------------------------------------------------------------------------
(***************************************************************************)
(* The requests                                                            *)
(***************************************************************************)

\* Where a request is before the limit_conn gate is behind it, where it holds its
\* slot, and where its answer is under way.
Early == {"new", "body", "head", "access", "limit_req", "limit_conn"}
Held == {"mirror", "auth_request", "auth_wait", "auth_basic", "action", "insert", "acting"}
Late == {"post", "collect", "sending", "done"}

\* The mirrors have not been fired yet.
Unmirrored(r) ==
  \/ pc[r] \in Early \cup {"mirror"}
  \/ pc[r] \in {"auth_request", "auth_wait", "auth_basic"} /\ Via(r) = "quic"

\* r got further than the mirrors of the HTTP/3 handler or its action.
Cleared(r) == acted[r] \/ ((pc[r] = "mirror" \/ shadows[r] > 0) /\ Via(r) = "quic")

Located(r) ==
  /\ pc[r] \in Gates \cup Held => req[r].loc # None
  /\ acted[r] \/ shadows[r] > 0 => req[r].loc # None
  /\ acted[r] => pc[r] \in {"acting"} \cup Late

Slotted(r) ==
  /\ pc[r] \in Early => stage[r] = "free"
  /\ guard[r] # None =>
       guard[r] = req[r].client /\ L(r).cap # None /\ pc[r] \in Held
  /\ pc[r] \in Held /\ L(r).cap # None => guard[r] # None

Gated(r) ==
  /\ (pc[r] \in {"limit_req", "limit_conn"} \cup Held \/ acted[r] \/ shadows[r] > 0)
       => Allowed(L(r).rules, req[r].client)
  /\ (pc[r] \in {"auth_basic", "action", "insert", "acting"} \/ Cleared(r))
       => (L(r).authRequest => verdict[r] = "yes")
  /\ (pc[r] \in {"action", "insert", "acting"} \/ Cleared(r))
       => (L(r).authBasic => req[r].creds)

Mirrored(r) ==
  /\ Unmirrored(r) => shadows[r] = 0
  /\ shadows[r] > 0 => shadows[r] <= L(r).mirrors

Tallied(r) ==
  /\ pc[r] \notin {"sending", "done"} => counted[r] = 0
  /\ pc[r] = "sending" => counted[r] = IF Via(r) = "tcp" THEN 1 ELSE 0
  /\ counted[r] <= 1
  /\ pc[r] = "collect" => Via(r) = "tcp"

RequestInv(r) == Located(r) /\ Slotted(r) /\ Gated(r) /\ Mirrored(r) /\ Tallied(r)

PipelineInv ==
  /\ TypeOK
  /\ DOMAIN req = Requests
  /\ ZoneInv
  /\ \A r \in Requests : RequestInv(r)

\* The handlers' orders, gate by gate.
LEMMA AfterTcp ==
  ASSUME NEW r, Via(r) = "tcp"
  PROVE  /\ After(r, "access") = "limit_req"
         /\ After(r, "limit_req") = "limit_conn"
         /\ After(r, "limit_conn") = "mirror"
         /\ After(r, "mirror") = "auth_request"
         /\ After(r, "auth_request") = "auth_basic"
         /\ After(r, "auth_basic") = "action"
BY DEF After, Order

LEMMA AfterQuic ==
  ASSUME NEW r, Via(r) = "quic"
  PROVE  /\ After(r, "access") = "limit_req"
         /\ After(r, "limit_req") = "limit_conn"
         /\ After(r, "limit_conn") = "auth_request"
         /\ After(r, "auth_request") = "auth_basic"
         /\ After(r, "auth_basic") = "mirror"
         /\ After(r, "mirror") = "action"
BY DEF After, Order

\* A step leaves request q alone.
Still(q) ==
  /\ pc'[q] = pc[q] /\ req'[q] = req[q] /\ verdict'[q] = verdict[q]
  /\ shadows'[q] = shadows[q] /\ acted'[q] = acted[q] /\ counted'[q] = counted[q]
  /\ guard'[q] = guard[q] /\ stage'[q] = stage[q]

LEMMA StillInv ==
  ASSUME NEW q \in Requests, RequestInv(q), Still(q)
  PROVE  RequestInv(q)'
BY DEF RequestInv, Still, Located, Slotted, Gated, Mirrored, Tallied, Unmirrored, Cleared,
       Via, L

\* What a step of request r has to show.
LEMMA StepInv ==
  ASSUME PipelineInv, NEW r \in Requests, TypeOK', DOMAIN req' = Requests, ZoneInv',
         \A q \in Requests \ {r} : Still(q), RequestInv(r)'
  PROVE  PipelineInv'
<1>1. \A q \in Requests : RequestInv(q)'
  BY StillInv DEF PipelineInv
<1> QED
  BY <1>1 DEF PipelineInv

\* Types of the zone after a step.
LEMMA ZoneTyped == ZoneInv => Zone!TypeOK
BY DEF ZoneInv

\* The facts about request r that its steps use.
LEMMA AtRequest ==
  ASSUME PipelineInv, NEW r \in Requests, pc[r] # "new"
  PROVE  /\ RequestInv(r)
         /\ req[r] \in Profiles
         /\ Via(r) \in {"tcp", "quic"}
         /\ req[r].client \in Clients
         /\ req[r].loc \in Locations \cup {None}
         /\ req[r].creds \in BOOLEAN
BY PipelineAssumption DEF PipelineInv, TypeOK, Via

\* A guard that goes out of scope is given back, whoever else holds one.
LEMMA GiveBackZone ==
  ASSUME ZoneInv, NEW r \in Requests, GiveBack(r)
  PROVE  /\ ZoneInv'
         /\ [Zone!Next]_zone
         /\ guard'[r] = None
         /\ \A q \in Requests \ {r} : guard'[q] = guard[q] /\ stage'[q] = stage[q]
<1>1. CASE guard[r] # None
  <2>1. Zone!Respond(r)
    BY <1>1 DEF GiveBack
  <2> QED
    BY <2>1, DropZone DEF Zone!Next, Zone!Respond, Zone!DropGuard, ZoneInv, Zone!TypeOK
<1>2. CASE guard[r] = None
  <2>1. UNCHANGED zone
    BY <1>2 DEF GiveBack
  <2> QED
    BY <1>2, <2>1, FinishZone DEF zone
<1> QED
  BY <1>1, <1>2

LEMMA OverZone ==
  ASSUME ZoneInv, NEW r \in Requests, Over(r)
  PROVE  /\ ZoneInv'
         /\ [Zone!Next]_zone
         /\ guard' = guard
         /\ \A q \in Requests \ {r} : stage'[q] = stage[q]
<1>1. CASE stage[r] = "streaming"
  <2>1. Zone!Finish(r)
    BY <1>1 DEF Over
  <2> QED
    BY <2>1, FinishZone DEF Zone!Next, Zone!Finish, ZoneInv, Zone!TypeOK
<1>2. CASE stage[r] # "streaming"
  <2>1. UNCHANGED zone
    BY <1>2 DEF Over
  <2> QED
    BY <2>1, FinishZone DEF zone
<1> QED
  BY <1>1, <1>2

\* What the variables of a step that touches request r alone have in common.
Framed(r) ==
  /\ \A q \in Requests \ {r} : Still(q)
  /\ ZoneInv'
  /\ req' = req

\* An answer of Elrond's own, from whatever gate it comes.
LEMMA RefuseInv ==
  ASSUME PipelineInv, NEW r \in Requests,
         pc[r] \in Gates \cup {"head", "auth_wait"}, Refuse(r), Framed(r),
         guard'[r] = None,
         UNCHANGED <<shadows, acted, memo, made, target>>,
         verdict' \in [Requests -> {"none", "yes", "no"}],
         verdict'[r] = verdict[r] \/ pc[r] = "auth_wait"
  PROVE  PipelineInv'
<1> USE DEF PipelineInv, Framed
<1>1. /\ RequestInv(r) /\ Via(r) \in {"tcp", "quic"}
      /\ pc \in [Requests -> Gates \cup Waits] /\ pc[r] # "new"
      /\ counted \in [Requests -> Nat] /\ shadows \in [Requests -> Nat]
      /\ acted \in [Requests -> BOOLEAN]
  BY AtRequest DEF TypeOK, Gates
<1>2. /\ pc' = [pc EXCEPT ![r] = "sending"]
      /\ status' = [status EXCEPT ![r] = "refused"]
      /\ counted' = IF Via(r) = "tcp" THEN [counted EXCEPT ![r] = @ + 1] ELSE counted
  BY DEF Refuse, Goto, Count
<1>3. TypeOK'
  <2>1. Zone!TypeOK'
    BY DEF ZoneInv
  <2> QED
    BY <1>1, <1>2, <2>1 DEF TypeOK, Waits
<1>4. /\ acted[r] = FALSE /\ counted[r] = 0
  BY <1>1 DEF RequestInv, Located, Tallied, Gates, Late
<1>5. Located(r)'
  BY <1>1, <1>2, <1>4 DEF RequestInv, Located, Gates, Held, Late
<1>6. Slotted(r)'
  BY <1>1, <1>2 DEF Slotted, Early, Held
<1>7. Mirrored(r)'
  BY <1>1, <1>2 DEF RequestInv, Mirrored, Unmirrored, Early, Via, L
<1>8. Gated(r)'
  <2>1. shadows[r] > 0 /\ Via(r) = "quic" => pc[r] # "auth_wait"
    BY <1>1 DEF RequestInv, Mirrored, Unmirrored
  <2> QED
    BY <1>1, <1>2, <1>4, <2>1 DEF RequestInv, Gated, Held, Cleared, Via, L
<1>9. Tallied(r)'
  BY <1>1, <1>2, <1>4 DEF Tallied, Via
<1> QED
  BY <1>3, <1>5, <1>6, <1>7, <1>8, <1>9, StepInv DEF RequestInv

\* A gate that has nothing to object, given that it has checked what it stands for.
LEMMA PassInv ==
  ASSUME PipelineInv, NEW r \in Requests, NEW g \in Gates \ {"action"},
         pc[r] = g \/ (pc[r] = "auth_wait" /\ g = "auth_request"),
         Pass(r, g), Framed(r),
         UNCHANGED <<acted, memo, made, target>>,
         verdict' \in [Requests -> {"none", "yes", "no"}],
         shadows' \in [Requests -> Nat],
         verdict'[r] = verdict[r] \/ pc[r] = "auth_wait",
         g # "mirror" => shadows'[r] = shadows[r],
         g # "limit_conn" => guard'[r] = guard[r] /\ stage'[r] = stage[r],
         g = "access" => Allowed(L(r).rules, req[r].client),
         g = "limit_conn" => guard'[r] = IF L(r).cap = None THEN None ELSE req[r].client,
         g = "mirror" => shadows'[r] <= L(r).mirrors,
         g = "auth_request" => (L(r).authRequest => verdict'[r] = "yes"),
         g = "auth_basic" => (L(r).authBasic => req[r].creds)
  PROVE  PipelineInv'
<1> USE DEF PipelineInv, Framed
<1>1. /\ RequestInv(r) /\ Via(r) \in {"tcp", "quic"} /\ req[r].client \in Clients
      /\ pc \in [Requests -> Gates \cup Waits] /\ pc[r] # "new"
      /\ counted \in [Requests -> Nat] /\ shadows \in [Requests -> Nat]
      /\ acted \in [Requests -> BOOLEAN]
  BY AtRequest DEF TypeOK, Gates
<1>2. /\ pc' = [pc EXCEPT ![r] = After(r, g)]
      /\ UNCHANGED <<status, counted>>
  BY DEF Pass, Goto
<1>3. /\ After(r, g) \in Gates \ {"access"}
      /\ g = "access" => After(r, g) = "limit_req"
      /\ g = "limit_req" => After(r, g) = "limit_conn"
      /\ g \notin {"access", "limit_req"} => After(r, g) \in Held
      /\ g = "limit_conn" /\ Via(r) = "tcp" => After(r, g) = "mirror"
      /\ g = "limit_conn" /\ Via(r) = "quic" => After(r, g) = "auth_request"
      /\ g = "mirror" /\ Via(r) = "tcp" => After(r, g) = "auth_request"
      /\ g = "mirror" /\ Via(r) = "quic" => After(r, g) = "action"
      /\ g = "auth_request" => After(r, g) = "auth_basic"
      /\ g = "auth_basic" /\ Via(r) = "tcp" => After(r, g) = "action"
      /\ g = "auth_basic" /\ Via(r) = "quic" => After(r, g) = "mirror"
  <2>1. CASE Via(r) = "tcp"
    BY <2>1, AfterTcp DEF Gates, Held
  <2>2. CASE Via(r) = "quic"
    BY <2>2, AfterQuic DEF Gates, Held
  <2> QED
    BY <1>1, <2>1, <2>2
<1>4. TypeOK'
  <2>1. Zone!TypeOK'
    BY DEF ZoneInv
  <2> QED
    BY <1>1, <1>2, <1>3, <2>1 DEF TypeOK
<1>5. /\ acted[r] = FALSE /\ counted[r] = 0 /\ req[r].loc # None
  BY <1>1 DEF RequestInv, Located, Tallied, Gates, Held, Late
<1>6. Located(r)'
  BY <1>1, <1>2, <1>5 DEF Located
<1>7. Slotted(r)'
  <2>1. CASE g \in {"access", "limit_req"}
    BY <1>1, <1>2, <1>3, <2>1 DEF RequestInv, Slotted, Early, Held, L
  <2>2. CASE g = "limit_conn"
    BY <1>1, <1>2, <1>3, <2>2, PipelineAssumption DEF Slotted, Early, Held, L
  <2>3. CASE g \in {"mirror", "auth_request", "auth_basic"}
    BY <1>1, <1>2, <1>3, <2>3 DEF RequestInv, Slotted, Early, Held, L
  <2> QED
    BY <2>1, <2>2, <2>3 DEF Gates
<1>8. Mirrored(r)'
  BY <1>1, <1>2, <1>3 DEF RequestInv, Mirrored, Unmirrored, Early, Held, Gates, Via, L
<1>9. Gated(r)'
  <2>1. Allowed(L(r).rules, req[r].client)
    BY <1>1 DEF RequestInv, Gated, Held, Gates
  <2>2. CASE g \in {"access", "limit_req", "limit_conn"}
    <3>1. shadows'[r] = 0
      BY <1>1, <2>2 DEF RequestInv, Mirrored, Unmirrored, Early
    <3> QED
      BY <1>1, <1>2, <1>3, <1>5, <2>1, <2>2, <3>1 DEF Gated, Cleared, Via, L, Held
  <2>3. CASE g = "mirror"
    BY <1>1, <1>2, <1>3, <1>5, <2>1, <2>3 DEF RequestInv, Gated, Cleared, Via, L, Held
  <2>4. CASE g = "auth_request"
    <3>1. Via(r) = "quic" => shadows'[r] = 0
      BY <1>1, <2>4 DEF RequestInv, Mirrored, Unmirrored
    <3> QED
      BY <1>1, <1>2, <1>3, <1>5, <2>1, <2>4, <3>1 DEF Gated, Cleared, Via, L, Held
  <2>5. CASE g = "auth_basic"
    BY <1>1, <1>2, <1>3, <1>5, <2>1, <2>5 DEF RequestInv, Gated, Cleared, Via, L, Held
  <2> QED
    BY <2>2, <2>3, <2>4, <2>5 DEF Gates
<1>10. Tallied(r)'
  BY <1>1, <1>2, <1>3, <1>5 DEF RequestInv, Tallied, Gates
<1> QED
  BY <1>4, <1>6, <1>7, <1>8, <1>9, <1>10, StepInv DEF RequestInv

LEMMA QuietZone ==
  ASSUME ZoneInv, UNCHANGED zone
  PROVE  ZoneInv' /\ guard' = guard /\ stage' = stage
BY DEF ZoneInv, zone, Zone!TypeOK, GuardWhileHandling, Zone!CountsExact, Zone!CapsKept,
       Zone!Holders

LEMMA ArriveInv ==
  ASSUME PipelineInv, NEW r \in Requests, Arrive(r)
  PROVE  PipelineInv'
<1> USE DEF PipelineInv
<1>1. PICK p \in Profiles :
        /\ req' = [req EXCEPT ![r] = p]
        /\ pc' = [pc EXCEPT ![r] = IF p.via = "quic" THEN "body" ELSE "head"]
  BY DEF Arrive, Goto
<1>2. /\ UNCHANGED <<verdict, shadows, acted, status, counted, memo, made, target>>
      /\ pc[r] = "new" /\ RequestInv(r)
  BY DEF Arrive
<1>3. ZoneInv' /\ guard' = guard /\ stage' = stage
  BY QuietZone DEF Arrive
<1>4. TypeOK'
  BY <1>1, <1>2, <1>3, ZoneTyped DEF TypeOK, Waits, ZoneInv
<1>5. /\ acted[r] = FALSE /\ shadows[r] = 0 /\ guard[r] = None /\ counted[r] = 0
      /\ stage[r] = "free"
  BY <1>2 DEF TypeOK, RequestInv, Located, Mirrored, Unmirrored, Slotted, Tallied, Early,
              Held, Late
<1>6. pc'[r] \in {"body", "head"}
  BY <1>1 DEF TypeOK
<1>7. RequestInv(r)'
  BY <1>1, <1>2, <1>3, <1>5, <1>6
     DEF RequestInv, Located, Mirrored, Unmirrored, Slotted, Gated, Cleared, Tallied,
         Early, Held, Late, Gates
<1>8. \A q \in Requests \ {r} : Still(q)
  BY <1>1, <1>2, <1>3 DEF Still, TypeOK
<1> QED
  BY <1>1, <1>3, <1>4, <1>7, <1>8, StepInv

\* Steps before the first gate and after the action, which leave nothing to check.
LEMMA PlainInv ==
  ASSUME PipelineInv, NEW r \in Requests, Framed(r), NEW l \in Gates \cup Waits,
         pc[r] # "new", pc' = [pc EXCEPT ![r] = l],
         \/ /\ pc[r] \in Early /\ l \in {"head", "access", "post", "done"}
            /\ l = "access" => req[r].loc # None
            /\ guard'[r] = guard[r] /\ stage'[r] = stage[r]
         \/ l \in Late /\ guard'[r] = None,
         UNCHANGED <<verdict, shadows, acted, memo, made, target>>,
         status' \in [Requests -> {"none", "ok", "refused", "failed"}],
         counted' \in [Requests -> Nat],
         l = "collect" => Via(r) = "tcp",
         \/ l \notin {"sending", "done"} /\ counted'[r] = 0
         \/ l = "sending" /\ counted'[r] = IF Via(r) = "tcp" THEN 1 ELSE 0
         \/ l = "done" /\ counted'[r] <= 1
  PROVE  PipelineInv'
<1> USE DEF PipelineInv, Framed
<1>1. /\ RequestInv(r) /\ Via(r) \in {"tcp", "quic"}
      /\ pc \in [Requests -> Gates \cup Waits] /\ shadows \in [Requests -> Nat]
      /\ acted \in [Requests -> BOOLEAN] /\ pc'[r] = l
  BY AtRequest DEF TypeOK
<1>2. TypeOK'
  <2>1. Zone!TypeOK'
    BY DEF ZoneInv
  <2> QED
    BY <1>1, <2>1 DEF TypeOK, Early
<1>3. Located(r)'
  BY <1>1 DEF RequestInv, Located, Gates, Held, Late, Early
<1>4. Slotted(r)'
  BY <1>1 DEF RequestInv, Slotted, Held, Late, Early, L
<1>5. Mirrored(r)'
  BY <1>1 DEF RequestInv, Mirrored, Unmirrored, Late, Early, Via, L
<1>6. Gated(r)'
  BY <1>1 DEF RequestInv, Gated, Cleared, Held, Late, Early, Via, L
<1>7. Tallied(r)'
  BY <1>1 DEF Tallied, Via
<1> QED
  BY <1>2, <1>3, <1>4, <1>5, <1>6, <1>7, StepInv DEF RequestInv

LEMMA RecvBodyInv ==
  ASSUME PipelineInv, NEW r \in Requests, RecvBody(r)
  PROVE  PipelineInv'
<1> USE DEF PipelineInv
<1>1. ZoneInv' /\ guard' = guard /\ stage' = stage
  BY QuietZone DEF RecvBody
<1>2. PICK l \in {"head", "done"} : pc' = [pc EXCEPT ![r] = l]
  BY DEF RecvBody, Goto
<1>3. Framed(r) /\ status' \in [Requests -> {"none", "ok", "refused", "failed"}]
  BY <1>1, <1>2 DEF RecvBody, Framed, Still, TypeOK
<1>4. counted' = counted /\ counted[r] = 0 /\ pc[r] = "body"
      /\ counted' \in [Requests -> Nat] /\ counted'[r] = 0 /\ counted'[r] <= 1
  BY DEF RecvBody, RequestInv, Tallied, TypeOK
<1>5. /\ pc[r] \in Early /\ l \in Gates \cup Waits
      /\ UNCHANGED <<verdict, shadows, acted, memo, made, target>>
  BY <1>4 DEF RecvBody, Early, Waits
<1>6. CASE l = "head"
  BY <1>1, <1>2, <1>3, <1>4, <1>5, <1>6, PlainInv
<1>7. CASE l = "done"
  BY <1>1, <1>2, <1>3, <1>4, <1>5, <1>7, PlainInv
<1> QED
  BY <1>6, <1>7

LEMMA RouteInv ==
  ASSUME PipelineInv, NEW r \in Requests, Route(r)
  PROVE  PipelineInv'
<1> USE DEF PipelineInv
<1>1. ZoneInv' /\ guard' = guard /\ stage' = stage
  BY QuietZone DEF Route
<1>2. /\ pc[r] = "head" /\ guard[r] = None /\ RequestInv(r) /\ counted[r] = 0
      /\ UNCHANGED <<req, verdict, shadows, acted, memo, made, target>>
  BY DEF Route, RequestInv, Slotted, Held, Tallied
<1>3. CASE Refuse(r)
  <2>1. Framed(r)
    BY <1>1, <1>2, <1>3 DEF Refuse, Count, Goto, Framed, Still, TypeOK
  <2> QED
    BY <1>1, <1>2, <1>3, <2>1, RefuseInv DEF TypeOK
<1>4. CASE req[r].loc = None /\ Goto(r, "post")
           /\ status' = [status EXCEPT ![r] = "failed"] /\ UNCHANGED counted
  <2>1. Framed(r) /\ status' \in [Requests -> {"none", "ok", "refused", "failed"}]
    BY <1>1, <1>2, <1>4 DEF Goto, Framed, Still, TypeOK
  <2> QED
    BY <1>1, <1>2, <1>4, <2>1, PlainInv DEF Goto, Early, Waits, TypeOK
<1>5. CASE req[r].loc # None /\ Goto(r, "access") /\ UNCHANGED <<status, counted>>
  <2>1. Framed(r)
    BY <1>1, <1>2, <1>5 DEF Goto, Framed, Still, TypeOK
  <2> QED
    BY <1>1, <1>2, <1>5, <2>1, PlainInv DEF Goto, Early, Gates, TypeOK
<1> QED
  BY <1>3, <1>4, <1>5 DEF Route

LEMMA AccessInv ==
  ASSUME PipelineInv, NEW r \in Requests, Access(r)
  PROVE  PipelineInv'
<1> USE DEF PipelineInv
<1>1. ZoneInv' /\ guard' = guard /\ stage' = stage
  BY QuietZone DEF Access
<1>2. /\ pc[r] = "access" /\ guard[r] = None
      /\ UNCHANGED <<req, verdict, shadows, acted, memo, made, target>>
  BY DEF Access, RequestInv, Slotted, Held
<1>3. Framed(r)
  BY <1>1, <1>2 DEF Access, Pass, Refuse, Count, Goto, Framed, Still, TypeOK
<1>4. CASE Allowed(L(r).rules, req[r].client)
  <2>1. Pass(r, "access")
    BY <1>4 DEF Access
  <2> QED
    BY <1>1, <1>2, <1>3, <1>4, <2>1, PassInv DEF TypeOK, Gates
<1>5. CASE ~Allowed(L(r).rules, req[r].client)
  <2>1. Refuse(r)
    BY <1>5 DEF Access
  <2> QED
    BY <1>1, <1>2, <1>3, <2>1, RefuseInv DEF TypeOK, Gates
<1> QED
  BY <1>4, <1>5

LEMMA LimitReqGateInv ==
  ASSUME PipelineInv, NEW r \in Requests, LimitReqGate(r)
  PROVE  PipelineInv'
<1> USE DEF PipelineInv
<1>1. ZoneInv' /\ guard' = guard /\ stage' = stage
  BY QuietZone DEF LimitReqGate
<1>2. /\ pc[r] = "limit_req" /\ guard[r] = None
      /\ UNCHANGED <<req, verdict, shadows, acted, memo, made, target>>
  BY DEF LimitReqGate, RequestInv, Slotted, Held
<1>3. Framed(r)
  BY <1>1, <1>2 DEF LimitReqGate, Pass, Refuse, Count, Goto, Framed, Still, TypeOK
<1>4. CASE Pass(r, "limit_req")
  BY <1>1, <1>2, <1>3, <1>4, PassInv DEF TypeOK, Gates
<1>5. CASE Refuse(r)
  BY <1>1, <1>2, <1>3, <1>5, RefuseInv DEF TypeOK, Gates
<1> QED
  BY <1>4, <1>5 DEF LimitReqGate

LEMMA LimitConnGateInv ==
  ASSUME PipelineInv, NEW r \in Requests, LimitConnGate(r)
  PROVE  PipelineInv' /\ [Zone!Next]_zone
<1> USE DEF PipelineInv
<1> DEFINE k == req[r].client
           m == L(r).cap
<1>1. /\ pc[r] = "limit_conn" /\ guard[r] = None /\ k \in Clients
      /\ m # None => m \in Caps
      /\ UNCHANGED <<req, verdict, shadows, acted, memo, made, target>>
      /\ verdict \in [Requests -> {"none", "yes", "no"}] /\ shadows \in [Requests -> Nat]
  <2>1. pc[r] = "limit_conn" /\ RequestInv(r) /\ k \in Clients /\ req[r].loc \in Locations
    BY AtRequest DEF LimitConnGate, RequestInv, Located, Gates
  <2> QED
    BY <2>1, CapsNat DEF LimitConnGate, RequestInv, Slotted, Held, TypeOK, L
<1>2. CASE m = None /\ Pass(r, "limit_conn") /\ UNCHANGED zone
  <2>1. ZoneInv' /\ guard' = guard /\ stage' = stage
    BY <1>2, QuietZone
  <2>2. Framed(r)
    BY <1>1, <1>2, <2>1 DEF Pass, Goto, Framed, Still, TypeOK
  <2> QED
    BY <1>1, <1>2, <2>1, <2>2, PassInv DEF Gates
<1>3. CASE m # None /\ Zone!Admit(r, k, m) /\ Pass(r, "limit_conn")
  <2>1. ZoneInv'
    BY <1>1, <1>3, AdmitZone
  <2>2. /\ guard'[r] = k
        /\ \A q \in Requests \ {r} : guard'[q] = guard[q] /\ stage'[q] = stage[q]
    BY <1>3 DEF Zone!Admit, ZoneInv, Zone!TypeOK
  <2>3. Framed(r)
    BY <1>1, <1>3, <2>1, <2>2 DEF Pass, Goto, Framed, Still, TypeOK
  <2>4. PipelineInv'
    BY <1>1, <1>3, <2>2, <2>3, PassInv DEF Gates
  <2> QED
    BY <1>1, <1>3, <2>4 DEF Zone!Next
<1>4. CASE m # None /\ Zone!Deny(r, k, m) /\ Refuse(r)
  <2>1. ZoneInv'
    BY <1>1, <1>4, DenyZone
  <2>2. UNCHANGED <<guard, stage>>
    BY <1>4 DEF Zone!Deny
  <2>3. Framed(r)
    BY <1>1, <1>4, <2>1, <2>2 DEF Refuse, Count, Goto, Framed, Still, TypeOK
  <2>4. PipelineInv'
    BY <1>1, <1>4, <2>2, <2>3, RefuseInv DEF Gates
  <2> QED
    BY <1>1, <1>4, <2>4 DEF Zone!Next
<1> QED
  BY <1>2, <1>3, <1>4 DEF LimitConnGate

LEMMA MirrorInv ==
  ASSUME PipelineInv, NEW r \in Requests, Mirror(r)
  PROVE  PipelineInv'
<1> USE DEF PipelineInv
<1>1. ZoneInv' /\ guard' = guard /\ stage' = stage
  BY QuietZone DEF Mirror
<1>2. /\ pc[r] = "mirror" /\ shadows[r] = 0 /\ L(r).mirrors \in Nat
  <2>1. pc[r] = "mirror" /\ RequestInv(r) /\ req[r].loc \in Locations
    BY AtRequest DEF Mirror, RequestInv, Located, Gates
  <2> QED
    BY <2>1, PipelineAssumption DEF RequestInv, Mirrored, Unmirrored, L
<1>3. PICK n \in 0..L(r).mirrors : shadows' = [shadows EXCEPT ![r] = @ + n]
  BY DEF Mirror
<1>4. /\ shadows' \in [Requests -> Nat] /\ shadows'[r] <= L(r).mirrors
  BY <1>2, <1>3 DEF TypeOK
<1>5. Framed(r)
  BY <1>1, <1>3 DEF Mirror, Pass, Goto, Framed, Still, TypeOK
<1> QED
  BY <1>1, <1>2, <1>4, <1>5, PassInv DEF Mirror, TypeOK, Gates

\* Steps that go on with the slot in hand: to the auth service, or into the action.
LEMMA HoldInv ==
  ASSUME PipelineInv, NEW r \in Requests, Framed(r), NEW l,
         pc' = [pc EXCEPT ![r] = l],
         \/ pc[r] = "auth_request" /\ l = "auth_wait" /\ acted' = acted
         \/ pc[r] = "action" /\ l = "insert" /\ acted' = acted
         \/ /\ pc[r] \in {"action", "insert"} /\ l = "acting"
            /\ acted' = [acted EXCEPT ![r] = TRUE],
         UNCHANGED <<verdict, shadows, status, counted, guard, stage>>,
         memo' \in Nat, made' \in Nat, target' \in [Requests -> Nat]
  PROVE  PipelineInv'
<1> USE DEF PipelineInv, Framed
<1>1. /\ RequestInv(r) /\ Via(r) \in {"tcp", "quic"}
      /\ pc \in [Requests -> Gates \cup Waits] /\ shadows \in [Requests -> Nat]
      /\ acted \in [Requests -> BOOLEAN] /\ pc'[r] = l /\ l \in Waits
      /\ pc[r] # "new" /\ counted[r] = 0
  BY AtRequest DEF TypeOK, RequestInv, Tallied, Waits
<1>2. TypeOK'
  <2>1. Zone!TypeOK'
    BY DEF ZoneInv
  <2>2. acted' \in [Requests -> BOOLEAN]
    BY <1>1
  <2> QED
    BY <1>1, <2>1, <2>2 DEF TypeOK
<1>3. Located(r)'
  BY <1>1 DEF RequestInv, Located, Gates, Held, Late
<1>4. Slotted(r)'
  BY <1>1 DEF RequestInv, Slotted, Held, Early, L
<1>5. Mirrored(r)'
  BY <1>1 DEF RequestInv, Mirrored, Unmirrored, Early, Via, L
<1>6. Gated(r)'
  <2>1. CASE l = "auth_wait"
    BY <1>1, <2>1 DEF RequestInv, Gated, Cleared, Held, Via, L
  <2>2. CASE l # "auth_wait"
    <3>1. /\ Allowed(L(r).rules, req[r].client)
          /\ L(r).authRequest => verdict[r] = "yes"
          /\ L(r).authBasic => req[r].creds
      BY <1>1, <2>2 DEF RequestInv, Gated, Held
    <3> QED
      BY <3>1 DEF Gated, L
  <2> QED
    BY <2>1, <2>2
<1>7. Tallied(r)'
  BY <1>1 DEF Tallied
<1> QED
  BY <1>2, <1>3, <1>4, <1>5, <1>6, <1>7, StepInv DEF RequestInv

LEMMA AuthRequestInv ==
  ASSUME PipelineInv, NEW r \in Requests, AuthRequest(r)
  PROVE  PipelineInv'
<1> USE DEF PipelineInv
<1>1. ZoneInv' /\ guard' = guard /\ stage' = stage
  BY QuietZone DEF AuthRequest
<1>2. Framed(r)
  BY <1>1 DEF AuthRequest, Pass, Goto, Framed, Still, TypeOK
<1>3. CASE ~L(r).authRequest /\ Pass(r, "auth_request")
  BY <1>1, <1>2, <1>3, PassInv DEF AuthRequest, TypeOK, Gates
<1>4. CASE Goto(r, "auth_wait") /\ UNCHANGED <<status, counted>>
  BY <1>1, <1>2, <1>4, HoldInv DEF AuthRequest, Goto, TypeOK
<1> QED
  BY <1>3, <1>4 DEF AuthRequest

LEMMA AuthYesInv ==
  ASSUME PipelineInv, NEW r \in Requests, AuthYes(r)
  PROVE  PipelineInv'
<1> USE DEF PipelineInv
<1>1. ZoneInv' /\ guard' = guard /\ stage' = stage
  BY QuietZone DEF AuthYes
<1>2. /\ verdict' \in [Requests -> {"none", "yes", "no"}] /\ verdict'[r] = "yes"
      /\ shadows' \in [Requests -> Nat]
  BY DEF AuthYes, TypeOK
<1>3. Framed(r)
  BY <1>1 DEF AuthYes, Pass, Goto, Framed, Still, TypeOK
<1> QED
  BY <1>1, <1>2, <1>3, PassInv DEF AuthYes, Gates

\* The ways out of the wait for the auth service, and a wrong password.
LEMMA AuthRefusedInv ==
  ASSUME PipelineInv, NEW r \in Requests, Refuse(r), GiveBack(r),
         pc[r] \in {"auth_wait", "auth_basic"},
         UNCHANGED <<req, shadows, acted, memo, made, target>>,
         \/ verdict' = verdict
         \/ pc[r] = "auth_wait" /\ verdict' = [verdict EXCEPT ![r] = "no"]
  PROVE  PipelineInv'
<1> USE DEF PipelineInv
<1>1. /\ ZoneInv' /\ guard'[r] = None
      /\ \A q \in Requests \ {r} : guard'[q] = guard[q] /\ stage'[q] = stage[q]
  BY GiveBackZone
<1>2. Framed(r) /\ verdict' \in [Requests -> {"none", "yes", "no"}]
  BY <1>1 DEF Refuse, Count, Goto, Framed, Still, TypeOK
<1> QED
  BY <1>1, <1>2, RefuseInv DEF Gates, TypeOK

LEMMA AuthNoInv ==
  ASSUME PipelineInv, NEW r \in Requests, AuthNo(r) \/ AuthTimeout(r)
  PROVE  PipelineInv'
BY AuthRefusedInv DEF AuthNo, AuthTimeout

LEMMA AuthBasicInv ==
  ASSUME PipelineInv, NEW r \in Requests, AuthBasic(r)
  PROVE  PipelineInv'
<1> USE DEF PipelineInv
<1>1. CASE (L(r).authBasic => req[r].creds) /\ Pass(r, "auth_basic") /\ UNCHANGED zone
  <2>1. ZoneInv' /\ guard' = guard /\ stage' = stage
    BY <1>1, QuietZone
  <2>2. Framed(r)
    BY <1>1, <2>1 DEF AuthBasic, Pass, Goto, Framed, Still, TypeOK
  <2> QED
    BY <1>1, <2>1, <2>2, PassInv DEF AuthBasic, TypeOK, Gates
<1>2. CASE Refuse(r) /\ GiveBack(r)
  BY <1>2, AuthRefusedInv DEF AuthBasic
<1> QED
  BY <1>1, <1>2 DEF AuthBasic

LEMMA ActInv ==
  ASSUME PipelineInv, NEW r \in Requests, Act(r) \/ Memoize(r)
  PROVE  PipelineInv'
<1> USE DEF PipelineInv
<1>1. ZoneInv' /\ guard' = guard /\ stage' = stage
  BY QuietZone DEF Act, Memoize
<1>2. Framed(r)
  BY <1>1 DEF Act, Memoize, Begin, Goto, Framed, Still, TypeOK
<1>3. memo' \in Nat /\ made' \in Nat /\ target' \in [Requests -> Nat]
  BY DEF Act, Memoize, Begin, TypeOK
<1> QED
  BY <1>1, <1>2, <1>3, HoldInv DEF Act, Memoize, Begin, Goto

\* The location's arm ends with a response.
LEMMA LeaveInv ==
  ASSUME PipelineInv, NEW r \in Requests, NEW s \in {"ok", "failed"}, Leave(r, s),
         pc[r] \in {"action", "acting"},
         UNCHANGED <<req, verdict, shadows, acted, counted, memo, made, target>>
  PROVE  PipelineInv'
<1> USE DEF PipelineInv
<1>1. /\ ZoneInv' /\ guard'[r] = None
      /\ \A q \in Requests \ {r} : guard'[q] = guard[q] /\ stage'[q] = stage[q]
  BY GiveBackZone DEF Leave
<1>2. Framed(r) /\ status' \in [Requests -> {"none", "ok", "refused", "failed"}]
  BY <1>1 DEF Leave, Goto, Framed, Still, TypeOK
<1>3. counted' \in [Requests -> Nat] /\ counted'[r] = 0
  BY DEF TypeOK, RequestInv, Tallied
<1> QED
  BY <1>1, <1>2, <1>3, PlainInv DEF Leave, Goto, Late, Waits

LEMMA ActedInv ==
  ASSUME PipelineInv, NEW r \in Requests, Acted(r)
  PROVE  PipelineInv'
BY LeaveInv DEF Acted

LEMMA ResolveInv ==
  ASSUME PipelineInv, NEW r \in Requests, Resolve(r)
  PROVE  PipelineInv'
<1> USE DEF PipelineInv
<1>1. /\ pc[r] = "action" /\ memo \in Nat /\ made \in Nat /\ target \in [Requests -> Nat]
      /\ UNCHANGED <<req, verdict, shadows, counted, memo, made>>
  BY DEF Resolve, TypeOK
<1>2. CASE Leave(r, "failed") /\ UNCHANGED <<acted, target>>
  BY <1>1, <1>2, LeaveInv
<1>3. ASSUME NEW b \in Nat, Begin(r, b), UNCHANGED <<status, zone>>
      PROVE  PipelineInv'
  <2>1. ZoneInv' /\ guard' = guard /\ stage' = stage
    BY <1>3, QuietZone
  <2>2. Framed(r) /\ target' \in [Requests -> Nat]
    BY <1>1, <1>3, <2>1 DEF Begin, Goto, Framed, Still, TypeOK
  <2> QED
    BY <1>1, <1>3, <2>1, <2>2, HoldInv DEF Begin, Goto
<1>4. CASE Goto(r, "insert") /\ UNCHANGED <<acted, target, status, zone>>
  <2>1. ZoneInv' /\ guard' = guard /\ stage' = stage
    BY <1>4, QuietZone
  <2>2. Framed(r)
    BY <1>1, <1>4, <2>1 DEF Goto, Framed, Still, TypeOK
  <2> QED
    BY <1>1, <1>4, <2>1, <2>2, HoldInv DEF Goto
<1>5. 0 \in Nat
  OBVIOUS
<1> QED
  BY <1>1, <1>2, <1>3, <1>4, <1>5 DEF Resolve

\* Steps that only send the answer on.
LEMMA LateInv ==
  ASSUME PipelineInv, NEW r \in Requests, NEW l \in {"collect", "sending", "done"},
         pc[r] # "new", pc[r] \notin Gates, Goto(r, l),
         UNCHANGED <<req, verdict, shadows, acted, status, memo, made, target>>,
         ZoneInv', guard'[r] = None,
         \A q \in Requests \ {r} : guard'[q] = guard[q] /\ stage'[q] = stage[q],
         counted' = counted \/ Count(r),
         \/ l = "collect" /\ pc[r] = "post" /\ counted' = counted /\ Via(r) = "tcp"
         \/ l = "sending" /\ pc[r] \in {"post", "collect"}
              /\ (Via(r) = "tcp" => Count(r)) /\ (Via(r) = "quic" => counted' = counted)
         \/ l = "done" /\ pc[r] # "sending" /\ counted' = counted
         \/ l = "done" /\ pc[r] = "sending"
              /\ (Via(r) = "tcp" => counted' = counted)
  PROVE  PipelineInv'
<1> USE DEF PipelineInv
<1>1. Framed(r) /\ pc' = [pc EXCEPT ![r] = l] /\ l \in Gates \cup Waits /\ l \in Late
  BY DEF Goto, Count, Framed, Still, TypeOK, Waits, Late
<1>2. /\ RequestInv(r) /\ Via(r) \in {"tcp", "quic"} /\ counted \in [Requests -> Nat]
      /\ status' \in [Requests -> {"none", "ok", "refused", "failed"}]
  BY AtRequest DEF TypeOK
<1>3. counted' \in [Requests -> Nat]
  BY <1>2 DEF Count
<1>4. \/ l \notin {"sending", "done"} /\ counted'[r] = 0
      \/ l = "sending" /\ counted'[r] = IF Via(r) = "tcp" THEN 1 ELSE 0
      \/ l = "done" /\ counted'[r] <= 1
  BY <1>2 DEF RequestInv, Tallied, Count
<1> QED
  BY <1>1, <1>2, <1>3, <1>4, PlainInv

LEMMA PostInv ==
  ASSUME PipelineInv, NEW r \in Requests, Post(r) \/ Collected(r)
  PROVE  PipelineInv'
<1> USE DEF PipelineInv
<1>1. ZoneInv' /\ guard' = guard /\ stage' = stage
  BY QuietZone DEF Post, Collected
<1>2. /\ pc[r] \in {"post", "collect"} /\ guard[r] = None /\ Via(r) \in {"tcp", "quic"}
  <2>1. pc[r] \in {"post", "collect"}
    BY DEF Post, Collected
  <2> QED
    BY <2>1, AtRequest DEF RequestInv, Slotted, Held
<1>3. CASE Post(r)
  BY <1>1, <1>2, <1>3, LateInv DEF Post, Gates
<1>4. CASE Collected(r)
  <2>1. Via(r) = "tcp" /\ pc[r] = "collect"
    BY <1>4 DEF Collected, RequestInv, Tallied
  <2> QED
    BY <1>1, <1>2, <1>4, <2>1, LateInv DEF Collected, Gates
<1> QED
  BY <1>2, <1>3, <1>4

LEMMA SentInv ==
  ASSUME PipelineInv, NEW r \in Requests, Sent(r) \/ StreamBroken(r)
  PROVE  PipelineInv'
<1> USE DEF PipelineInv
<1>1. /\ ZoneInv' /\ guard' = guard
      /\ \A q \in Requests \ {r} : stage'[q] = stage[q]
  BY OverZone DEF Sent, StreamBroken
<1>2. /\ pc[r] \in {"sending", "body"} /\ guard[r] = None /\ Via(r) \in {"tcp", "quic"}
  <2>1. pc[r] \in {"sending", "body"}
    BY DEF Sent, StreamBroken
  <2> QED
    BY <2>1, AtRequest DEF RequestInv, Slotted, Held
<1>3. CASE Sent(r)
  BY <1>1, <1>2, <1>3, LateInv DEF Sent, Gates
<1>4. CASE StreamBroken(r)
  BY <1>1, <1>2, <1>4, LateInv DEF StreamBroken, Gates
<1> QED
  BY <1>3, <1>4

LEMMA DroppedInv ==
  ASSUME PipelineInv, NEW r \in Requests, Dropped(r)
  PROVE  PipelineInv' /\ [Zone!Next]_zone
<1> USE DEF PipelineInv
<1>1. pc[r] \in {"auth_wait", "acting", "collect"}
  BY DEF Dropped
<1>2. CASE stage[r] = "handling"
  <2>1. Zone!Abort(r)
    BY <1>2 DEF Dropped
  <2>2. /\ ZoneInv' /\ guard'[r] = None /\ [Zone!Next]_zone
        /\ \A q \in Requests \ {r} : guard'[q] = guard[q] /\ stage'[q] = stage[q]
    BY <2>1, DropZone DEF Zone!Next, Zone!Abort, Zone!DropGuard, ZoneInv, Zone!TypeOK
  <2> QED
    BY <1>1, <2>2, LateInv DEF Dropped, Gates
<1>3. CASE stage[r] # "handling"
  <2>1. Over(r)
    BY <1>3 DEF Dropped
  <2>2. guard[r] = None
    BY <1>3 DEF ZoneInv, GuardWhileHandling
  <2>3. /\ ZoneInv' /\ guard' = guard /\ [Zone!Next]_zone
        /\ \A q \in Requests \ {r} : stage'[q] = stage[q]
    BY <2>1, OverZone
  <2> QED
    BY <1>1, <2>2, <2>3, LateInv DEF Dropped, Gates
<1> QED
  BY <1>2, <1>3

LEMMA InitInv == Init => PipelineInv
<1> SUFFICES ASSUME Init PROVE PipelineInv
  OBVIOUS
<1>1. ZoneInv
  BY InitZone DEF Init
<1>2. TypeOK /\ DOMAIN req = Requests
  BY <1>1, ZoneTyped DEF Init, TypeOK, Waits
<1>3. \A r \in Requests : guard[r] = None /\ stage[r] = "free"
  BY DEF Init, Zone!Init
<1>4. ASSUME NEW r \in Requests PROVE RequestInv(r)
  BY <1>3 DEF Init, RequestInv, Located, Slotted, Gated, Mirrored, Tallied, Unmirrored,
              Cleared, Early, Held, Late, Gates
<1> QED
  BY <1>1, <1>2, <1>4 DEF PipelineInv

LEMMA NextInv == PipelineInv /\ [Next]_vars => PipelineInv'
<1> SUFFICES ASSUME PipelineInv, [Next]_vars PROVE PipelineInv'
  OBVIOUS
<1>1. CASE UNCHANGED vars
  <2>1. ZoneInv' /\ guard' = guard /\ stage' = stage
    BY <1>1, QuietZone DEF vars, PipelineInv
  <2>2. TypeOK' /\ DOMAIN req' = Requests
    BY <1>1, <2>1, ZoneTyped DEF vars, TypeOK, PipelineInv, ZoneInv
  <2>3. \A q \in Requests : Still(q)
    BY <1>1, <2>1 DEF vars, Still
  <2> QED
    BY <2>1, <2>2, <2>3, StillInv DEF PipelineInv
<1>2. ASSUME NEW r \in Requests, Run(r)
      PROVE  PipelineInv'
  BY <1>2, RouteInv, AccessInv, LimitReqGateInv, LimitConnGateInv, MirrorInv, AuthRequestInv,
     AuthBasicInv, ActInv, ResolveInv, PostInv DEF Run
<1> QED
  BY <1>1, <1>2, ArriveInv, RecvBodyInv, AuthYesInv, AuthNoInv, ActedInv, PostInv, SentInv,
     DroppedInv DEF Next

\* Every step of the pipeline is a step of the zone or leaves it alone.
LEMMA ZoneStep == PipelineInv /\ [Next]_vars => [Zone!Next]_zone
<1> SUFFICES ASSUME PipelineInv, [Next]_vars PROVE [Zone!Next]_zone
  OBVIOUS
<1> USE DEF PipelineInv
<1>1. CASE UNCHANGED zone
  BY <1>1
<1>2. ASSUME NEW r \in Requests, LimitConnGate(r) PROVE [Zone!Next]_zone
  BY <1>2, LimitConnGateInv
<1>3. ASSUME NEW r \in Requests, Dropped(r) PROVE [Zone!Next]_zone
  BY <1>3, DroppedInv
<1>4. ASSUME NEW r \in Requests, GiveBack(r) PROVE [Zone!Next]_zone
  BY <1>4, GiveBackZone
<1>5. ASSUME NEW r \in Requests, Over(r) PROVE [Zone!Next]_zone
  BY <1>5, OverZone
<1>6. ASSUME NEW r \in Requests, Run(r) PROVE [Zone!Next]_zone
  BY <1>1, <1>2, <1>4, <1>6
     DEF Run, Route, Access, LimitReqGate, Mirror, AuthRequest, AuthBasic, Act, Resolve,
         Leave, Memoize, Post
<1>7. CASE UNCHANGED vars
  BY <1>1, <1>7 DEF vars
<1> QED
  BY <1>1, <1>3, <1>4, <1>5, <1>6, <1>7
     DEF Next, Arrive, RecvBody, AuthYes, AuthNo, AuthTimeout, Acted, Leave, Collected,
         Sent, StreamBroken

-----------------------------------------------------------------------------
(***************************************************************************)
(* What the pipeline promises                                              *)
(***************************************************************************)

\* The inductive invariant holds in every state a server block can reach.
THEOREM RequestsTracked == Spec => []PipelineInv
BY InitInv, NextInv, PTL DEF Spec

\* Every state of the pipeline is well typed, for any server block.
THEOREM TypeCorrect == Spec => []TypeOK
<1>1. PipelineInv => TypeOK
  BY DEF PipelineInv
<1> QED
  BY <1>1, RequestsTracked, PTL

\* The handlers of both transports use the limit_conn zone the way LimitConn says
\* requests do: the pipeline implements that specification.
THEOREM ZoneUsedRight == Spec => Zone!Spec
<1>1. Init => Zone!Init
  BY DEF Init
<1>2. PipelineInv /\ [Next]_vars => [Zone!Next]_(Zone!vars)
  BY ZoneStep DEF zone, Zone!vars
<1> QED
  BY <1>1, <1>2, RequestsTracked, PTL DEF Spec, Zone!Spec

\* The slots of all requests together keep every location's cap (limit.rs 172-218).
THEOREM SlotsCorrect == Spec => []SlotsKept
<1>1. PipelineInv => SlotsKept
  BY DEF PipelineInv, ZoneInv, SlotsKept
<1> QED
  BY <1>1, RequestsTracked, PTL

\* Shadow requests are sent for allowed clients only, and over HTTP/3 for
\* authorized requests only (server.rs 334-345, http3.rs 312-314).
THEOREM ShadowsCorrect == Spec => []ShadowsScoped
<1>1. PipelineInv => ShadowsScoped
  <2> SUFFICES ASSUME PipelineInv, NEW r \in Requests, shadows[r] > 0
               PROVE  /\ shadows[r] <= L(r).mirrors
                      /\ Allowed(L(r).rules, req[r].client)
                      /\ Via(r) = "quic" => /\ L(r).authRequest => verdict[r] = "yes"
                                            /\ L(r).authBasic => req[r].creds
    BY DEF ShadowsScoped
  <2> QED
    BY DEF PipelineInv, RequestInv, Mirrored, Gated, Cleared
<1> QED
  BY <1>1, RequestsTracked, PTL

\* No request is counted twice, and none whose answer goes out over TCP is missed
\* (server.rs 210-507, http3.rs 195-196).
THEOREM CountedCorrect == Spec => []CountedOnce
<1>1. PipelineInv => CountedOnce
  <2> SUFFICES ASSUME PipelineInv, NEW r \in Requests
               PROVE  /\ counted[r] <= 1
                      /\ (pc[r] = "sending" /\ Via(r) = "tcp") => counted[r] = 1
                      /\ (counted[r] = 1 /\ Via(r) = "quic") => pc[r] = "done"
    BY DEF CountedOnce
  <2> QED
    BY DEF PipelineInv, RequestInv, Tallied
<1> QED
  BY <1>1, RequestsTracked, PTL

\* access::check lets a client through when no rule names it, or when the first
\* rule that does is an allow.
LEMMA FirstRuleDecides ==
  ASSUME NEW rules \in Seq([allow : BOOLEAN, clients : SUBSET Clients]), NEW c,
         Allowed(rules, c)
  PROVE  \/ \A i \in DOMAIN rules : c \notin rules[i].clients
         \/ \E i \in DOMAIN rules :
              /\ rules[i].allow /\ c \in rules[i].clients
              /\ \A j \in 1..(i - 1) : c \notin rules[j].clients
<1> DEFINE matching == {i \in DOMAIN rules : c \in rules[i].clients}
<1>1. CASE matching = {}
  BY <1>1
<1>2. CASE matching # {}
  <2>1. DOMAIN rules = 1..Len(rules) /\ Len(rules) \in Nat
    OBVIOUS
  <2>2. matching \in SUBSET Nat
    BY <2>1
  <2>3. PICK i \in matching : \A j \in matching : i <= j
    BY <1>2, <2>2, LeastElement
  <2>4. rules[i].allow
    BY <2>3 DEF Allowed
  <2>5. \A j \in 1..(i - 1) : j \in DOMAIN rules /\ ~(i <= j)
    BY <2>1, <2>3
  <2> QED
    BY <2>3, <2>4, <2>5
<1> QED
  BY <1>1, <1>2

\* Nothing reaches a location's action past a gate that should have stopped it,
\* over either transport and under any configuration (server.rs 277-384, http3.rs
\* 279-316).
THEOREM GatesCorrect == Spec => []GatesHold
<1>1. PipelineInv => GatesHold
  <2> SUFFICES ASSUME PipelineInv, NEW r \in Requests, acted[r]
               PROVE  /\ \/ \A i \in DOMAIN L(r).rules :
                              req[r].client \notin L(r).rules[i].clients
                         \/ \E i \in DOMAIN L(r).rules :
                              /\ L(r).rules[i].allow
                              /\ req[r].client \in L(r).rules[i].clients
                              /\ \A j \in 1..(i - 1) :
                                   req[r].client \notin L(r).rules[j].clients
                      /\ L(r).authRequest => verdict[r] = "yes"
                      /\ L(r).authBasic => req[r].creds
                      /\ pc[r] = "acting" /\ L(r).cap # None => guard[r] = req[r].client
    BY DEF GatesHold
  <2>1. RequestInv(r) /\ pc[r] # "new"
    BY DEF PipelineInv, RequestInv, Located, Late
  <2>2. req[r].loc \in Locations
    BY <2>1, AtRequest DEF RequestInv, Located
  <2>3. L(r).rules \in Seq([allow : BOOLEAN, clients : SUBSET Clients])
    BY <2>2, PipelineAssumption DEF L
  <2>4. Allowed(L(r).rules, req[r].client)
    BY <2>1 DEF RequestInv, Gated
  <2>5. /\ L(r).authRequest => verdict[r] = "yes"
        /\ L(r).authBasic => req[r].creds
    BY <2>1 DEF RequestInv, Gated, Cleared
  <2>6. pc[r] = "acting" /\ L(r).cap # None => guard[r] = req[r].client
    BY <2>1 DEF RequestInv, Slotted, Held
  <2> QED
    BY <2>3, <2>4, <2>5, <2>6, FirstRuleDecides
<1> QED
  BY <1>1, RequestsTracked, PTL

-----------------------------------------------------------------------------
\* The memoized balancer is b and nobody is about to replace it.
Settled(b) == memo = b /\ \A r \in Requests : pc[r] # "insert"

LEMMA SettledStays ==
  ASSUME NEW b \in 1..Cardinality(Requests), PipelineInv, Settled(b), [Next]_vars
  PROVE  Settled(b)'
<1>1. memo # 0 /\ pc \in [Requests -> Gates \cup Waits]
  BY PipelineAssumption, FS_CardinalityType DEF Settled, PipelineInv, TypeOK
<1>2. CASE UNCHANGED vars
  BY <1>2 DEF vars, Settled
<1>3. ASSUME NEW r \in Requests, pc[r] = "action", Goto(r, "insert"), memo = 0
      PROVE  FALSE
  BY <1>1, <1>3
<1>4. ASSUME NEW r \in Requests, Access(r) \/ LimitReqGate(r) \/ LimitConnGate(r) \/ Mirror(r)
                                 \/ AuthYes(r) \/ AuthBasic(r) \/ AuthRequest(r)
      PROVE  Settled(b)'
  <2>1. memo' = memo /\ Via(r) \in {"tcp", "quic"}
    BY <1>4, AtRequest DEF Access, LimitReqGate, LimitConnGate, Mirror, AuthYes, AuthBasic,
                           AuthRequest
  <2>2. PICK l : pc' = [pc EXCEPT ![r] = l] /\ l # "insert"
    <3>1. CASE Via(r) = "tcp"
      BY <1>4, <3>1, AfterTcp DEF Access, LimitReqGate, LimitConnGate, Mirror, AuthYes,
                                  AuthBasic, AuthRequest, Pass, Refuse, Goto
    <3>2. CASE Via(r) = "quic"
      BY <1>4, <3>2, AfterQuic DEF Access, LimitReqGate, LimitConnGate, Mirror, AuthYes,
                                   AuthBasic, AuthRequest, Pass, Refuse, Goto
    <3> QED
      BY <2>1, <3>1, <3>2
  <2> QED
    BY <1>1, <2>1, <2>2 DEF Settled
<1>5. ASSUME NEW r \in Requests, Resolve(r)
      PROVE  Settled(b)'
  BY <1>1, <1>5 DEF Resolve, Leave, Begin, Goto, Settled
<1>6. ASSUME NEW r \in Requests, Memoize(r)
      PROVE  Settled(b)'
  BY <1>6 DEF Memoize, Settled
<1>7. ASSUME NEW r \in Requests, Route(r) \/ Act(r) \/ Post(r)
      PROVE  Settled(b)'
  BY <1>1, <1>7 DEF Route, Refuse, Act, Begin, Post, Goto, Settled
<1>8. ASSUME NEW r \in Requests,
             Arrive(r) \/ RecvBody(r) \/ AuthNo(r) \/ AuthTimeout(r) \/ Acted(r)
             \/ Collected(r) \/ Sent(r) \/ Dropped(r) \/ StreamBroken(r)
      PROVE  Settled(b)'
  BY <1>1, <1>8 DEF Arrive, RecvBody, AuthNo, AuthTimeout, Refuse, Acted, Leave, Collected,
                    Sent, Dropped, StreamBroken, Goto, Settled
<1> QED
  BY <1>2, <1>4, <1>5, <1>6, <1>7, <1>8 DEF Next, Run

\* Once no request is about to memoize a balancer, a dynamic target keeps the one
\* it has for good (app.rs 258-297).
THEOREM MemoCorrect == Spec => MemoSettles
<1>1. ASSUME NEW b \in 1..Cardinality(Requests)
      PROVE  Spec => [](memo = b /\ (\A r \in Requests : pc[r] # "insert") => [](memo = b))
  <2>1. PipelineInv /\ Settled(b) /\ [Next]_vars => Settled(b)'
    BY SettledStays
  <2>2. Settled(b) <=> (memo = b /\ (\A r \in Requests : pc[r] # "insert"))
    BY DEF Settled
  <2>3. Settled(b) => memo = b
    BY DEF Settled
  <2> QED
    BY <2>1, <2>2, <2>3, RequestsTracked, PTL DEF Spec
<1> QED
  BY <1>1 DEF MemoSettles
=============================================================================
