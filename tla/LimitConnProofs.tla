--------------------------- MODULE LimitConnProofs ---------------------------
(***************************************************************************)
(* Proofs about LimitConn for any number of requests and keys, any caps    *)
(* and any zone size.                                                      *)
(***************************************************************************)
EXTENDS LimitConn, FiniteSetTheorems, TLAPS

\* A request owns a guard exactly while its handler runs.
GuardWhileHandling ==
  \A r \in Requests : guard[r] # None <=> stage[r] = "handling"

\* Keys without an entry have nothing to count.
IInv ==
  /\ TypeOK
  /\ GuardWhileHandling
  /\ CountsExact

LEMMA HoldersFinite ==
  ASSUME NEW k
  PROVE  IsFiniteSet(Holders(k)) /\ Cardinality(Holders(k)) \in Nat
<1>1. Holders(k) \in SUBSET Requests
  BY DEF Holders
<1>2. IsFiniteSet(Holders(k))
  BY <1>1, LimitConnAssumption, FS_Subset
<1> QED
  BY <1>2, FS_CardinalityType

LEMMA InitIInv == Init => IInv
<1> SUFFICES ASSUME Init PROVE IInv
  OBVIOUS
<1>1. TypeOK /\ GuardWhileHandling
  BY DEF Init, TypeOK, GuardWhileHandling
<1>2. \A k \in Keys : Holders(k) = {}
  BY LimitConnAssumption DEF Init, Holders
<1>3. CountsExact
  BY <1>2, FS_EmptySet DEF Init, CountsExact
<1> QED
  BY <1>1, <1>3 DEF IInv

\* Eviction only ever takes an entry that counts nothing.
LEMMA EvictionHarmless ==
  ASSUME IInv, NEW k \in Keys, NEW gone \in Evicted(k)
  PROVE  /\ k \notin gone
         /\ gone \subseteq entries
         /\ Counts(gone) = count
         /\ Entries(gone, k) \subseteq Keys
         /\ \A d \in Keys : Holders(d) # {} => d \in entries \ gone
<1>1. \A d \in gone : d \in entries /\ count[d] = 0 /\ k # d
  BY DEF Evicted
<1>2. Counts(gone) = count
  BY <1>1 DEF Counts, IInv, TypeOK
<1>3. ASSUME NEW d \in Keys, Holders(d) # {}
      PROVE  d \in entries \ gone
  <2>1. count[d] # 0 /\ d \in entries
    BY <1>3, HoldersFinite, FS_EmptySet DEF IInv, CountsExact
  <2> QED
    BY <1>1, <2>1
<1> QED
  BY <1>1, <1>2, <1>3 DEF Entries, IInv, TypeOK

LEMMA AdmitStep ==
  ASSUME IInv, NEW r \in Requests, NEW k \in Keys, NEW m \in Caps, Admit(r, k, m)
  PROVE  /\ IInv'
         /\ Holders(k)' = Holders(k) \cup {r}
         /\ r \notin Holders(k)
         /\ \A d \in Keys : d # k => Holders(d)' = Holders(d)
         /\ Cardinality(Holders(k)) < m
<1> USE DEF IInv
<1>1. PICK gone \in Evicted(k) : /\ Counts(gone)[k] < m
                                 /\ entries' = Entries(gone, k)
                                 /\ count' = [Counts(gone) EXCEPT ![k] = @ + 1]
  BY DEF Admit
<1>2. /\ Counts(gone) = count
      /\ Entries(gone, k) \subseteq Keys
      /\ \A d \in Keys : Holders(d) # {} => d \in entries \ gone
  BY EvictionHarmless
<1>3. /\ guard[r] = None
      /\ guard' = [guard EXCEPT ![r] = k]
  BY DEF Admit, GuardWhileHandling
<1>4. Holders(k)' = Holders(k) \cup {r} /\ r \notin Holders(k)
  BY <1>3, LimitConnAssumption DEF Holders, TypeOK
<1>5. \A d \in Keys : d # k => Holders(d)' = Holders(d)
  BY <1>3, LimitConnAssumption DEF Holders, TypeOK
<1>6. Cardinality(Holders(k)') = Cardinality(Holders(k)) + 1
  BY <1>4, HoldersFinite, FS_AddElement
<1>7. TypeOK'
  <2>1. peak' \in Nat
    <3>1. HeldKeys' \in SUBSET Keys
      BY DEF HeldKeys
    <3>2. Cardinality(HeldKeys') \in Nat
      BY <3>1, LimitConnAssumption, FS_Subset, FS_CardinalityType
    <3> QED
      BY <3>2 DEF Admit, TypeOK
  <2>2. count' \in [Keys -> Nat] /\ entries' \subseteq Keys
    BY <1>1, <1>2 DEF TypeOK
  <2>3. /\ guard' \in [Requests -> Keys \cup {None}]
        /\ key' \in [Requests -> Keys \cup {None}]
        /\ stage' \in [Requests -> {"free", "handling", "streaming"}]
    BY DEF Admit, TypeOK
  <2>4. cap' \in [Requests -> Nat]
    BY LimitConnAssumption DEF Admit, TypeOK
  <2> QED
    BY <2>1, <2>2, <2>3, <2>4 DEF TypeOK
<1>8. GuardWhileHandling'
  BY <1>3, LimitConnAssumption DEF Admit, GuardWhileHandling, TypeOK
<1>9. CountsExact'
  <2> SUFFICES ASSUME NEW d \in Keys
               PROVE  /\ count'[d] = Cardinality(Holders(d)')
                      /\ Holders(d)' # {} => d \in entries'
    BY DEF CountsExact
  <2>1. CASE d = k
    BY <1>1, <1>2, <1>6, <2>1 DEF CountsExact, Entries, TypeOK
  <2>2. CASE d # k
    BY <1>1, <1>2, <1>5, <2>2 DEF CountsExact, Entries, TypeOK
  <2> QED
    BY <2>1, <2>2
<1>10. Cardinality(Holders(k)) < m
  BY <1>1, <1>2 DEF CountsExact
<1> QED
  BY <1>4, <1>5, <1>7, <1>8, <1>9, <1>10

LEMMA DenyStep ==
  ASSUME IInv, NEW r \in Requests, NEW k \in Keys, NEW m \in Caps, Deny(r, k, m)
  PROVE  IInv'
<1> USE DEF IInv
<1>1. PICK gone \in Evicted(k) : entries' = Entries(gone, k) /\ count' = Counts(gone)
  BY DEF Deny
<1>2. /\ Counts(gone) = count
      /\ Entries(gone, k) \subseteq Keys
      /\ \A d \in Keys : Holders(d) # {} => d \in entries \ gone
  BY EvictionHarmless
<1>3. \A d \in Keys : Holders(d)' = Holders(d)
  BY DEF Deny, Holders
<1>4. CountsExact'
  BY <1>1, <1>2, <1>3 DEF CountsExact, Entries
<1> QED
  BY <1>1, <1>2, <1>4 DEF Deny, TypeOK, GuardWhileHandling

LEMMA DropStep ==
  ASSUME IInv, NEW r \in Requests, Respond(r) \/ Abort(r)
  PROVE  /\ IInv'
         /\ \A d \in Keys : Holders(d)' \subseteq Holders(d)
<1> USE DEF IInv
<1>1. DropGuard(r) /\ stage[r] = "handling" /\ UNCHANGED <<key, cap, peak, entries>>
  BY DEF Respond, Abort, DropGuard
<1>2. PICK k \in Keys : guard[r] = k
  BY <1>1 DEF GuardWhileHandling, TypeOK
<1>3. guard' = [guard EXCEPT ![r] = None]
  BY <1>1 DEF DropGuard
<1>4. Holders(k)' = Holders(k) \ {r} /\ r \in Holders(k)
  BY <1>2, <1>3, LimitConnAssumption DEF Holders, TypeOK
<1>5. \A d \in Keys : d # k => Holders(d)' = Holders(d)
  BY <1>2, <1>3, LimitConnAssumption DEF Holders, TypeOK
<1>6. Cardinality(Holders(k)') = Cardinality(Holders(k)) - 1
  BY <1>4, HoldersFinite, FS_RemoveElement
<1>7. Cardinality(Holders(k)) # 0
  BY <1>4, HoldersFinite, FS_EmptySet
<1>8. k \in entries /\ count[k] # 0 /\ count[k] = Cardinality(Holders(k))
  BY <1>4, <1>7 DEF CountsExact
<1>9. count' = [count EXCEPT ![k] = @ - 1]
  BY <1>1, <1>2, <1>8 DEF DropGuard, TypeOK
<1>10. TypeOK'
  BY <1>1, <1>3, <1>8, <1>9 DEF Respond, Abort, TypeOK
<1>11. GuardWhileHandling'
  BY <1>3, LimitConnAssumption DEF Respond, Abort, GuardWhileHandling, TypeOK
<1>12. CountsExact'
  <2> SUFFICES ASSUME NEW d \in Keys
               PROVE  /\ count'[d] = Cardinality(Holders(d)')
                      /\ Holders(d)' # {} => d \in entries'
    BY DEF CountsExact
  <2>1. CASE d = k
    BY <1>1, <1>6, <1>8, <1>9, <2>1 DEF TypeOK
  <2>2. CASE d # k
    BY <1>1, <1>5, <1>9, <2>2 DEF CountsExact, TypeOK
  <2> QED
    BY <2>1, <2>2
<1> QED
  BY <1>4, <1>5, <1>10, <1>11, <1>12

LEMMA FinishStep ==
  ASSUME IInv, NEW r \in Requests, Finish(r)
  PROVE  IInv'
BY DEF IInv, Finish, TypeOK, GuardWhileHandling, CountsExact, Holders

LEMMA NextIInv == IInv /\ [Next]_vars => IInv'
<1> SUFFICES ASSUME IInv, [Next]_vars PROVE IInv'
  OBVIOUS
<1>1. CASE UNCHANGED vars
  BY <1>1 DEF vars, IInv, TypeOK, GuardWhileHandling, CountsExact, Holders
<1> QED
  BY <1>1, AdmitStep, DenyStep, DropStep, FinishStep DEF Next

\* A zone's counts are right for any load: no slot is lost to eviction, none is
\* freed twice (limit.rs 172-218).
THEOREM CountsCorrect == Spec => [](TypeOK /\ CountsExact)
<1>1. IInv => TypeOK /\ CountsExact
  BY DEF IInv
<1> QED
  BY <1>1, InitIInv, NextIInv, PTL DEF Spec

-----------------------------------------------------------------------------
Under(k, m) == {r \in Holders(k) : cap[r] <= m}

LEMMA UnderFinite ==
  ASSUME NEW k, NEW m
  PROVE  /\ IsFiniteSet(Under(k, m))
         /\ Cardinality(Under(k, m)) \in Nat
         /\ Cardinality(Under(k, m)) <= Cardinality(Holders(k))
<1>1. Under(k, m) \in SUBSET Holders(k)
  BY DEF Under
<1> QED
  BY <1>1, HoldersFinite, FS_Subset, FS_CardinalityType

LEMMA NextCapsKept == IInv /\ CapsKept /\ [Next]_vars => CapsKept'
<1> SUFFICES ASSUME IInv, CapsKept, [Next]_vars,
                    NEW d \in Keys, NEW n \in Caps
             PROVE  Cardinality(Under(d, n)') <= n
  BY DEF CapsKept, Under
<1>n. n \in Nat /\ Cardinality(Under(d, n)) <= n
  BY LimitConnAssumption DEF CapsKept, Under
<1>1. CASE Under(d, n)' = Under(d, n)
  BY <1>1, <1>n
<1>2. ASSUME NEW r \in Requests, NEW k \in Keys, NEW m \in Caps, Admit(r, k, m)
      PROVE  Cardinality(Under(d, n)') <= n
  <2>1. /\ Holders(k)' = Holders(k) \cup {r}
        /\ r \notin Holders(k)
        /\ \A e \in Keys : e # k => Holders(e)' = Holders(e)
        /\ Cardinality(Holders(k)) < m
    BY <1>2, AdmitStep
  <2>2. cap' = [cap EXCEPT ![r] = m] /\ cap \in [Requests -> Nat] /\ m \in Nat
    BY <1>2, LimitConnAssumption DEF Admit, IInv, TypeOK
  <2>3. CASE d # k
    <3>1. r \notin Holders(d)
      <4>1. guard[r] = None
        BY <1>2 DEF Admit, IInv, GuardWhileHandling
      <4> QED
        BY <4>1, LimitConnAssumption DEF Holders
    <3>2. Under(d, n)' = Under(d, n)
      BY <2>1, <2>2, <2>3, <3>1 DEF Under, Holders
    <3> QED
      BY <1>1, <3>2
  <2>4. CASE d = k /\ m > n
    <3>1. Under(d, n)' = Under(d, n)
      BY <1>n, <2>1, <2>2, <2>4 DEF Under, Holders
    <3> QED
      BY <1>1, <3>1
  <2>5. CASE d = k /\ m <= n
    <3>1. Cardinality(Holders(k)') = Cardinality(Holders(k)) + 1
      BY <2>1, HoldersFinite, FS_AddElement
    <3>2. IsFiniteSet(Holders(k)')
      BY <2>1, HoldersFinite, FS_AddElement
    <3>3. Under(k, n)' \in SUBSET (Holders(k)')
      BY DEF Under
    <3>4. Cardinality(Under(k, n)') <= Cardinality(Holders(k)')
      BY <3>2, <3>3, FS_Subset
    <3>5. Cardinality(Under(k, n)') \in Nat
      BY <3>2, <3>3, FS_Subset, FS_CardinalityType
    <3> QED
      BY <1>n, <2>1, <2>2, <2>5, <3>1, <3>4, <3>5, HoldersFinite
  <2> QED
    BY <1>n, <2>2, <2>3, <2>4, <2>5
<1>3. ASSUME NEW r \in Requests, Respond(r) \/ Abort(r)
      PROVE  Cardinality(Under(d, n)') <= n
  <2>1. Holders(d)' \subseteq Holders(d) /\ cap' = cap
    BY <1>3, DropStep DEF Respond, Abort
  <2>2. Under(d, n)' \in SUBSET Under(d, n)
    BY <2>1 DEF Under
  <2>3. /\ Cardinality(Under(d, n)') <= Cardinality(Under(d, n))
        /\ Cardinality(Under(d, n)') \in Nat
    BY <2>2, UnderFinite, FS_Subset, FS_CardinalityType
  <2> QED
    BY <1>n, <2>3, UnderFinite
<1>4. ASSUME NEW r \in Requests, NEW k \in Keys, NEW m \in Caps, Deny(r, k, m)
      PROVE  Cardinality(Under(d, n)') <= n
  BY <1>1, <1>4 DEF Deny, Under, Holders
<1>5. CASE UNCHANGED vars
  BY <1>1, <1>5 DEF vars, Under, Holders
<1>6. ASSUME NEW r \in Requests, Finish(r)
      PROVE  Cardinality(Under(d, n)') <= n
  BY <1>1, <1>6 DEF Finish, Under, Holders
<1> QED
  BY <1>2, <1>3, <1>4, <1>5, <1>6 DEF Next

LEMMA InitCapsKept == Init => CapsKept
<1> SUFFICES ASSUME Init, NEW k \in Keys, NEW m \in Caps
             PROVE  Cardinality(Under(k, m)) <= m
  BY DEF CapsKept, Under
<1>1. Under(k, m) = {}
  BY LimitConnAssumption DEF Init, Under, Holders
<1> QED
  BY <1>1, FS_EmptySet, LimitConnAssumption

\* Locations sharing a zone each keep their own cap, whatever the others admit
\* (limit.rs 172-200).
THEOREM CapsCorrect == Spec => []CapsKept
BY InitIInv, NextIInv, InitCapsKept, NextCapsKept, PTL DEF Spec

-----------------------------------------------------------------------------
PeakRecorded == Cardinality(HeldKeys) <= peak

LEMMA EntriesFinite ==
  ASSUME TypeOK
  PROVE  IsFiniteSet(entries) /\ Cardinality(entries) \in Nat
BY LimitConnAssumption, FS_Subset, FS_CardinalityType DEF TypeOK

LEMMA HeldFinite == IsFiniteSet(HeldKeys) /\ Cardinality(HeldKeys) \in Nat
<1>1. HeldKeys \in SUBSET Keys
  BY DEF HeldKeys
<1> QED
  BY <1>1, LimitConnAssumption, FS_Subset, FS_CardinalityType

\* Looking k up grows the map by one entry at most, and at a full map only when
\* every entry is in use.
LEMMA LookupGrowth ==
  ASSUME IInv, MapBounded, PeakRecorded, NEW k \in Keys, NEW gone \in Evicted(k)
  PROVE  LET n == Cardinality(Entries(gone, k))
         IN  n <= MaxEntries \/ n <= peak + 1
<1> DEFINE n == Cardinality(Entries(gone, k))
<1>t. /\ MaxEntries \in Nat /\ peak \in Nat
      /\ IsFiniteSet(entries) /\ Cardinality(entries) \in Nat
  BY EntriesFinite, LimitConnAssumption DEF IInv, TypeOK
<1>1. CASE k \in entries
  <2>1. gone = {}
    BY <1>1 DEF Evicted
  <2>2. Entries(gone, k) = entries
    BY <1>1, <2>1 DEF Entries
  <2> QED
    BY <2>2 DEF MapBounded
<1>2. CASE k \notin entries /\ gone # {}
  <2>1. PICK e \in entries : gone = {e}
    BY <1>2 DEF Evicted
  <2>2. /\ IsFiniteSet(entries \ {e})
        /\ Cardinality(entries \ {e}) = Cardinality(entries) - 1
    BY <1>t, <2>1, FS_RemoveElement
  <2>3. n = Cardinality(entries)
    <3>1. k \notin entries \ {e}
      BY <1>2
    <3>2. n = Cardinality(entries \ {e}) + 1
      BY <2>1, <2>2, <3>1, FS_AddElement DEF Entries
    <3> QED
      BY <1>t, <2>2, <3>2
  <2> QED
    BY <2>3 DEF MapBounded
<1>3. CASE k \notin entries /\ gone = {}
  <2>1. n = Cardinality(entries) + 1
    <3>1. Entries(gone, k) = entries \cup {k}
      BY <1>3 DEF Entries
    <3> QED
      BY <1>t, <1>3, <3>1, FS_AddElement
  <2>2. CASE Cardinality(entries) < MaxEntries
    BY <1>t, <2>1, <2>2
  <2>3. CASE Cardinality(entries) >= MaxEntries
    <3>1. \A d \in entries : count[d] # 0
      BY <1>3, <2>3 DEF Evicted
    <3>2. entries \subseteq HeldKeys
      BY <3>1, FS_EmptySet DEF IInv, TypeOK, CountsExact, HeldKeys
    <3>3. Cardinality(entries) <= Cardinality(HeldKeys)
      BY <3>2, HeldFinite, FS_Subset
    <3> QED
      BY <1>t, <2>1, <3>3, HeldFinite DEF PeakRecorded
  <2> QED
    BY <1>t, <2>2, <2>3
<1> QED
  BY <1>1, <1>2, <1>3

LEMMA NextMapBounded ==
  IInv /\ MapBounded /\ PeakRecorded /\ [Next]_vars => (MapBounded /\ PeakRecorded)'
<1> SUFFICES ASSUME IInv, MapBounded, PeakRecorded, [Next]_vars
             PROVE  MapBounded' /\ PeakRecorded'
  OBVIOUS
<1>1. ASSUME NEW r \in Requests, NEW k \in Keys, NEW m \in Caps, Admit(r, k, m)
      PROVE  MapBounded' /\ PeakRecorded'
  <2>1. PICK gone \in Evicted(k) : entries' = Entries(gone, k)
    BY <1>1 DEF Admit
  <2>2. /\ peak \in Nat /\ peak' \in Nat /\ MaxEntries \in Nat
        /\ Cardinality(entries') \in Nat
    <3>1. IInv'
      BY <1>1, AdmitStep
    <3>2. entries' \in SUBSET Keys
      BY <3>1 DEF IInv, TypeOK
    <3> QED
      BY <3>1, <3>2, LimitConnAssumption, FS_Subset, FS_CardinalityType DEF IInv, TypeOK
  <2>3. Cardinality(HeldKeys') \in Nat
    <3>1. HeldKeys' \in SUBSET Keys
      BY DEF HeldKeys
    <3> QED
      BY <3>1, LimitConnAssumption, FS_Subset, FS_CardinalityType
  <2>4. peak' >= peak /\ Cardinality(HeldKeys') <= peak'
    BY <1>1, <2>2, <2>3 DEF Admit
  <2>5. Cardinality(entries') <= MaxEntries \/ Cardinality(entries') <= peak + 1
    BY <2>1, LookupGrowth
  <2> QED
    BY <2>2, <2>4, <2>5 DEF MapBounded, PeakRecorded
<1>2. ASSUME NEW r \in Requests, NEW k \in Keys, NEW m \in Caps, Deny(r, k, m)
      PROVE  MapBounded' /\ PeakRecorded'
  <2>1. PICK gone \in Evicted(k) : entries' = Entries(gone, k)
    BY <1>2 DEF Deny
  <2>2. peak' = peak /\ HeldKeys' = HeldKeys
    BY <1>2 DEF Deny, HeldKeys, Holders
  <2> QED
    BY <2>1, <2>2, LookupGrowth DEF MapBounded, PeakRecorded
<1>3. ASSUME NEW r \in Requests, Respond(r) \/ Abort(r)
      PROVE  MapBounded' /\ PeakRecorded'
  <2>1. \A d \in Keys : Holders(d)' \subseteq Holders(d)
    BY <1>3, DropStep
  <2>2. HeldKeys' \in SUBSET HeldKeys
    BY <2>1 DEF HeldKeys
  <2>3. /\ Cardinality(HeldKeys') <= Cardinality(HeldKeys)
        /\ Cardinality(HeldKeys') \in Nat
    BY <2>2, HeldFinite, FS_Subset, FS_CardinalityType
  <2>4. UNCHANGED <<entries, peak>> /\ peak \in Nat
    BY <1>3 DEF Respond, Abort, DropGuard, IInv, TypeOK
  <2> QED
    BY <2>3, <2>4, HeldFinite DEF MapBounded, PeakRecorded
<1>4. CASE UNCHANGED vars \/ \E r \in Requests : Finish(r)
  BY <1>4 DEF vars, Finish, MapBounded, PeakRecorded, HeldKeys, Holders
<1> QED
  BY <1>1, <1>2, <1>3, <1>4 DEF Next

LEMMA InitMapBounded == Init => MapBounded /\ PeakRecorded
<1> SUFFICES ASSUME Init PROVE MapBounded /\ PeakRecorded
  OBVIOUS
<1>1. HeldKeys = {}
  BY LimitConnAssumption DEF Init, HeldKeys, Holders
<1> QED
  BY <1>1, FS_EmptySet, LimitConnAssumption DEF Init, MapBounded, PeakRecorded

\* However long the server runs, the map holds at most max_entries keys or one
\* more than were ever in use together (limit.rs 178-189).
THEOREM MapCorrect == Spec => []MapBounded
BY InitIInv, NextIInv, InitMapBounded, NextMapBounded, PTL DEF Spec
=============================================================================
