---------------------------- MODULE CacheProofs ----------------------------
(***************************************************************************)
(* Proofs about Cache for any requests, responses, rules and sizes: which  *)
(* entries the store may hold, which a request may be answered with, and   *)
(* that the byte counter is the sum of what the store holds.               *)
(*                                                                         *)
(* HitsMatch looks back to the request an entry came from, so the          *)
(* inductive invariant carries that link from the fetch (Pending) through  *)
(* the store (Stored) to the hit (Hit).  BytesExact needs the sizes of the *)
(* entries on their way into the store (Ready) besides those in it.        *)
(***************************************************************************)
EXTENDS Cache, FiniteSetTheorems, WellFoundedInduction, TLAPS

-----------------------------------------------------------------------------
(***************************************************************************)
(* Sums over finite sets.  The library's sum is a recursive function on    *)
(* the subsets of its argument; here it is shown to count units: e         *)
(* contributes the pairs <<e, 1>> ... <<e, e.size>>.  What is known about  *)
(* cardinalities is then known about sums.                                 *)
(***************************************************************************)

\* The sum of the sizes of a set of records.
Weight(e) == e.size
Total(S) == MapThenSumSet(Weight, S)

\* A set of numbers that is not empty has a least one.
LEMMA LeastElement ==
  ASSUME NEW T \in SUBSET Nat, T # {}
  PROVE  \E m \in T : \A n \in T : m <= n
<1>1. IsWellFoundedOn(OpToRel(<, Nat), Nat)
  BY NatLessThanWellFounded
<1>2. PICK m \in T : \A n \in T : ~(<<n, m>> \in OpToRel(<, Nat))
  BY <1>1, WFMin
<1>3. \A n \in T : ~(n < m)
  BY <1>2 DEF OpToRel
<1> QED
  BY <1>3

\* The equation of the recursive function.
Pick(s) == CHOOSE x \in s : TRUE
Sums(f, S) ==
  f = [s \in SUBSET S |-> IF s = {} THEN 0 ELSE Weight(Pick(s)) + f[s \ {Pick(s)}]]

LEMMA TotalIsRecursive ==
  ASSUME NEW S
  PROVE  Total(S) = (CHOOSE f : Sums(f, S))[S]
BY DEF Total, MapThenSumSet, MapThenFoldSet, Sums, Pick

Units(S) == UNION {{e} \X (1..Weight(e)) : e \in S}
Sized(S) == IsFiniteSet(S) /\ \A e \in S : Weight(e) \in Nat

LEMMA UnitsOfOne ==
  ASSUME NEW e, Weight(e) \in Nat
  PROVE  /\ Units({e}) = {e} \X (1..Weight(e))
         /\ IsFiniteSet(Units({e}))
         /\ Cardinality(Units({e})) = Weight(e)
<1>1. Units({e}) = {e} \X (1..Weight(e))
  BY DEF Units
<1>2. IsFiniteSet({e}) /\ Cardinality({e}) = 1
  BY FS_Singleton
<1>3. IsFiniteSet(1..Weight(e)) /\ Cardinality(1..Weight(e)) = Weight(e)
  BY FS_Interval
<1>4. /\ IsFiniteSet({e} \X (1..Weight(e)))
      /\ Cardinality({e} \X (1..Weight(e))) = Cardinality({e}) * Cardinality(1..Weight(e))
  BY <1>2, <1>3, FS_Product
<1>5. IsFiniteSet(Units({e})) /\ Cardinality(Units({e})) = Cardinality({e}) * Cardinality(1..Weight(e))
  BY <1>1, <1>4, Zenon
<1>6. Cardinality({e}) * Cardinality(1..Weight(e)) = Weight(e)
  BY <1>2, <1>3
<1> QED
  BY <1>1, <1>5, <1>6, Zenon

LEMMA UnitsFinite ==
  ASSUME NEW S, Sized(S)
  PROVE  IsFiniteSet(Units(S)) /\ Cardinality(Units(S)) \in Nat
<1> DEFINE of(e) == {e} \X (1..Weight(e))
           T == {of(e) : e \in S}
           f == [e \in S |-> of(e)]
<1>1. f \in Surjection(S, T)
  BY DEF Surjection
<1>2. IsFiniteSet(T)
  BY <1>1, FS_Surjection DEF Sized
<1>3. \A t \in T : IsFiniteSet(t)
  BY UnitsOfOne DEF Sized
<1>4. IsFiniteSet(Units(S))
  BY <1>2, <1>3, FS_UNION DEF Units
<1> QED
  BY <1>4, FS_CardinalityType

LEMMA UnitsUnion ==
  ASSUME NEW S, NEW T, Sized(S), Sized(T), S \cap T = {}
  PROVE  /\ Sized(S \cup T)
         /\ Cardinality(Units(S \cup T)) = Cardinality(Units(S)) + Cardinality(Units(T))
<1>1. Sized(S \cup T)
  BY FS_Union DEF Sized
<1>2. Units(S \cup T) = Units(S) \cup Units(T)
  BY DEF Units
<1>3. Units(S) \cap Units(T) = {}
  BY DEF Units
<1>4. /\ IsFiniteSet(Units(S)) /\ Cardinality(Units(S)) \in Nat
      /\ IsFiniteSet(Units(T)) /\ Cardinality(Units(T)) \in Nat
  BY UnitsFinite
<1>5. Cardinality(Units(S) \cup Units(T)) =
        Cardinality(Units(S)) + Cardinality(Units(T)) - Cardinality(Units(S) \cap Units(T))
  BY <1>4, FS_Union
<1>6. Cardinality(Units(S) \cap Units(T)) = 0
  BY <1>3, FS_EmptySet
<1>7. Cardinality(Units(S) \cup Units(T)) = Cardinality(Units(S)) + Cardinality(Units(T))
  BY <1>4, <1>5, <1>6
<1> QED
  BY <1>1, <1>2, <1>7, Zenon

LEMMA UnitsStep ==
  ASSUME NEW S, Sized(S), NEW x \in S
  PROVE  /\ Sized(S \ {x})
         /\ Cardinality(Units(S)) = Weight(x) + Cardinality(Units(S \ {x}))
<1>1. Sized(S \ {x}) /\ Sized({x})
  BY FS_RemoveElement, FS_Singleton DEF Sized
<1>2. (S \ {x}) \cap {x} = {} /\ (S \ {x}) \cup {x} = S
  OBVIOUS
<1>3. Cardinality(Units((S \ {x}) \cup {x})) =
        Cardinality(Units(S \ {x})) + Cardinality(Units({x}))
  BY <1>1, <1>2, UnitsUnion
<1>4. Weight(x) \in Nat /\ Cardinality(Units({x})) = Weight(x)
  BY UnitsOfOne DEF Sized
<1>5. Cardinality(Units(S \ {x})) \in Nat
  BY <1>1, UnitsFinite
<1> QED
  BY <1>1, <1>2, <1>3, <1>4, <1>5

LEMMA SizedSubset ==
  ASSUME NEW S, Sized(S), NEW T \in SUBSET S
  PROVE  Sized(T)
BY FS_Subset DEF Sized

\* Counting units solves the equation ...
LEMMA CountingSums ==
  ASSUME NEW S, Sized(S)
  PROVE  Sums([s \in SUBSET S |-> Cardinality(Units(s))], S)
<1> DEFINE g == [s \in SUBSET S |-> Cardinality(Units(s))]
<1>1. ASSUME NEW s \in SUBSET S, s # {}
      PROVE  Cardinality(Units(s)) = Weight(Pick(s)) + g[s \ {Pick(s)}]
  <2>1. Pick(s) \in s
    BY <1>1 DEF Pick
  <2>2. Sized(s)
    BY SizedSubset
  <2>3. s \ {Pick(s)} \in SUBSET S
    OBVIOUS
  <2> QED
    BY <2>1, <2>2, <2>3, UnitsStep
<1>2. Cardinality(Units({})) = 0
  <2>1. Units({}) = {}
    BY DEF Units
  <2> QED
    BY <2>1, FS_EmptySet
<1>3. \A s \in SUBSET S :
        Cardinality(Units(s)) = IF s = {} THEN 0 ELSE Weight(Pick(s)) + g[s \ {Pick(s)}]
  BY <1>1, <1>2
<1> QED
  BY <1>3 DEF Sums

\* ... and nothing else does: two solutions would differ at a smallest set.
LEMMA SumsUnique ==
  ASSUME NEW S, Sized(S), NEW f, NEW g, Sums(f, S), Sums(g, S)
  PROVE  f[S] = g[S]
<1> DEFINE Bad == {s \in SUBSET S : f[s] # g[s]}
           C == {Cardinality(s) : s \in Bad}
<1>1. \A s \in SUBSET S : IsFiniteSet(s) /\ Cardinality(s) \in Nat
  BY FS_Subset, FS_CardinalityType DEF Sized
<1>2. SUFFICES ASSUME Bad # {} PROVE FALSE
  OBVIOUS
<1>3. C \in SUBSET Nat /\ C # {}
  BY <1>1, <1>2
<1>4. PICK m \in C : \A n \in C : m <= n
  BY <1>3, LeastElement
<1>5. PICK s \in Bad : Cardinality(s) = m
  BY <1>4
<1>6. s \in SUBSET S /\ f[s] # g[s]
  BY <1>5
<1>7. /\ f[s] = IF s = {} THEN 0 ELSE Weight(Pick(s)) + f[s \ {Pick(s)}]
      /\ g[s] = IF s = {} THEN 0 ELSE Weight(Pick(s)) + g[s \ {Pick(s)}]
  BY <1>6 DEF Sums
<1>8. s # {} /\ f[s \ {Pick(s)}] # g[s \ {Pick(s)}]
  BY <1>6, <1>7
<1>9. Pick(s) \in s
  BY <1>8 DEF Pick
<1>10. s \ {Pick(s)} \in Bad /\ Cardinality(s \ {Pick(s)}) = Cardinality(s) - 1
  BY <1>1, <1>6, <1>8, <1>9, FS_RemoveElement
<1>11. Cardinality(s \ {Pick(s)}) \in C
  BY <1>10
<1>12. m <= m - 1 /\ m \in Nat
  BY <1>3, <1>4, <1>5, <1>10, <1>11
<1> QED
  BY <1>12

LEMMA TotalCounts ==
  ASSUME NEW S, Sized(S)
  PROVE  Total(S) = Cardinality(Units(S))
<1> DEFINE g == [s \in SUBSET S |-> Cardinality(Units(s))]
           f == CHOOSE h : Sums(h, S)
<1>1. Sums(g, S)
  BY CountingSums
<1> HIDE DEF g
<1>2. Sums(f, S)
  BY <1>1
<1>3. f[S] = g[S]
  BY <1>1, <1>2, SumsUnique
<1> QED
  BY <1>3, TotalIsRecursive DEF g

-----------------------------------------------------------------------------
\* A sum of sizes is a number, 0 for the empty set, and adds up over disjoint sets.
LEMMA TotalNat ==
  ASSUME NEW S, Sized(S)
  PROVE  Total(S) \in Nat
BY TotalCounts, UnitsFinite

LEMMA TotalEmpty == Sized({}) /\ Total({}) = 0
<1>1. Sized({}) /\ Units({}) = {}
  BY FS_EmptySet DEF Sized, Units
<1> QED
  BY <1>1, TotalCounts, FS_EmptySet

LEMMA TotalUnion ==
  ASSUME NEW S, NEW T, Sized(S), Sized(T), S \cap T = {}
  PROVE  Sized(S \cup T) /\ Total(S \cup T) = Total(S) + Total(T)
<1>1. /\ Sized(S \cup T)
      /\ Cardinality(Units(S \cup T)) = Cardinality(Units(S)) + Cardinality(Units(T))
  BY UnitsUnion
<1> QED
  BY <1>1, TotalCounts

LEMMA TotalWithout ==
  ASSUME NEW S, Sized(S), NEW T \in SUBSET S
  PROVE  /\ Sized(T) /\ Sized(S \ T)
         /\ Total(S) = Total(T) + Total(S \ T)
<1>1. Sized(T) /\ Sized(S \ T)
  BY SizedSubset
<1>2. T \cap (S \ T) = {} /\ T \cup (S \ T) = S
  OBVIOUS
<1>3. Total(T \cup (S \ T)) = Total(T) + Total(S \ T)
  BY <1>1, <1>2, TotalUnion
<1> QED
  BY <1>1, <1>2, <1>3

LEMMA TotalOne ==
  ASSUME NEW e, Weight(e) \in Nat
  PROVE  Sized({e}) /\ Total({e}) = Weight(e)
<1>1. Sized({e})
  BY FS_Singleton DEF Sized
<1> QED
  BY <1>1, TotalCounts, UnitsOfOne

-----------------------------------------------------------------------------
(***************************************************************************)
(* The cache                                                               *)
(***************************************************************************)

\* e was made from the answer to request e.from.
Linked(e) ==
  /\ e.from \in Requests
  /\ stage[e.from] # "new"
  /\ e.key = profile[e.from].key
  /\ e.sig = BuildSignature(profile[e.from], e.vary)
  /\ e.expires \in Nat

Domains ==
  /\ now \in Nat
  /\ DOMAIN stage = Requests
  /\ DOMAIN profile = Requests
  /\ DOMAIN entry = Requests
  /\ DOMAIN label = Requests
  /\ stamp \in [Requests -> Nat]

Stored == \A e \in store : Linked(e)

Pending == \A r \in Requests : stage[r] = "storing" => Linked(entry[r])

Hit ==
  \A r \in Requests : label[r] = "HIT" =>
    /\ stage[r] = "done"
    /\ Linked(entry[r])
    /\ entry[r].key = profile[r].key
    /\ entry[r].sig = BuildSignature(profile[r], entry[r].vary)
    /\ stamp[r] < entry[r].expires

CInv == Domains /\ Stored /\ Pending /\ Hit /\ VariantsDistinct

-----------------------------------------------------------------------------
LEMMA InitCInv == Init => CInv
BY DEF Init, CInv, Domains, Stored, Pending, Hit, VariantsDistinct

\* A link survives every step: no request changes its profile once it arrived.
LEMMA LinkKept ==
  ASSUME NEW e, Linked(e),
         stage'[e.from] # "new", profile'[e.from] = profile[e.from]
  PROVE  Linked(e)'
BY DEF Linked, BuildSignature

LEMMA ArriveCInv ==
  ASSUME CInv, NEW r \in Requests, Arrive(r)
  PROVE  CInv'
<1> USE DEF CInv
<1>1. PICK p \in Profiles : profile' = [profile EXCEPT ![r] = p]
  BY DEF Arrive
<1>2. /\ stage[r] = "new" /\ stage' = [stage EXCEPT ![r] = "lookup"]
      /\ stamp' = [stamp EXCEPT ![r] = now]
      /\ UNCHANGED <<now, store, present, entry, label>>
  BY DEF Arrive, Goto
<1>3. Domains'
  BY <1>1, <1>2 DEF Domains
<1>4. \A e : Linked(e) => Linked(e)'
  BY <1>1, <1>2, LinkKept DEF Domains, Linked
<1>5. Stored'
  BY <1>2, <1>4 DEF Stored
<1>6. Pending'
  <2> SUFFICES ASSUME NEW q \in Requests, stage'[q] = "storing"
               PROVE  Linked(entry[q])'
    BY DEF Pending
  <2>1. stage[q] = "storing" /\ entry'[q] = entry[q]
    BY <1>2 DEF Domains
  <2>2. Linked(entry[q])
    BY <2>1 DEF Pending
  <2>3. PICK e : e = entry[q]
    OBVIOUS
  <2> QED BY <1>4, <2>1, <2>2, <2>3 DEF Linked
<1>7. Hit'
  <2> SUFFICES ASSUME NEW q \in Requests, label'[q] = "HIT"
               PROVE  (/\ stage[q] = "done"
                       /\ Linked(entry[q])
                       /\ entry[q].key = profile[q].key
                       /\ entry[q].sig = BuildSignature(profile[q], entry[q].vary)
                       /\ stamp[q] < entry[q].expires)'
    BY DEF Hit
  <2>1. PICK e : e = entry[q] /\ e = entry'[q]
    BY <1>2
  <2>2. /\ stage[q] = "done" /\ Linked(e) /\ e.key = profile[q].key
        /\ e.sig = BuildSignature(profile[q], e.vary) /\ stamp[q] < e.expires
    BY <1>2, <2>1 DEF Hit
  <2>3. stage'[q] = "done" /\ profile'[q] = profile[q] /\ stamp'[q] = stamp[q]
    BY <1>1, <1>2, <2>2 DEF Domains
  <2>4. Linked(e)'
    BY <1>4, <2>2
  <2> QED BY <2>1, <2>2, <2>3, <2>4 DEF Linked, BuildSignature
<1>8. VariantsDistinct'
  BY <1>2 DEF VariantsDistinct
<1> QED BY <1>3, <1>5, <1>6, <1>7, <1>8

\* What a step of request r on the store has to show, once it has arrived.
LEMMA StepFrame ==
  ASSUME CInv, NEW r \in Requests, NEW s, s # "new",
         UNCHANGED <<now, profile, stamp>>,
         stage' = [stage EXCEPT ![r] = s],
         DOMAIN entry' = Requests, DOMAIN label' = Requests,
         \A q \in Requests \ {r} : entry'[q] = entry[q] /\ label'[q] = label[q],
         \A e \in store' : Linked(e),
         \A e : e = entry'[r] /\ (s = "storing" \/ label'[r] = "HIT") => Linked(e),
         label'[r] = "HIT" =>
           /\ s = "done"
           /\ entry'[r].key = profile[r].key
           /\ entry'[r].sig = BuildSignature(profile[r], entry'[r].vary)
           /\ stamp[r] < entry'[r].expires
  PROVE  Domains' /\ Stored' /\ Pending' /\ Hit'
<1> USE DEF CInv
<1>1. Domains'
  BY DEF Domains
<1>2. \A q \in Requests : stage'[q] = IF q = r THEN s ELSE stage[q]
  BY DEF Domains
<1>3. \A e : Linked(e) => Linked(e)'
  BY <1>2, LinkKept DEF Linked
<1>4. Stored'
  BY <1>3 DEF Stored
<1>5. \A q \in Requests : \A e : e = entry'[q] /\ Linked(e) => Linked(entry[q])'
  BY <1>3 DEF Linked
<1>6. Pending'
  <2> SUFFICES ASSUME NEW q \in Requests, stage'[q] = "storing"
               PROVE  Linked(entry[q])'
    BY DEF Pending
  <2>1. PICK e : e = entry'[q]
    OBVIOUS
  <2>2. Linked(e)
    BY <1>2, <2>1 DEF Pending
  <2> QED BY <1>5, <2>1, <2>2
<1>7. Hit'
  <2> SUFFICES ASSUME NEW q \in Requests, label'[q] = "HIT"
               PROVE  (/\ stage[q] = "done"
                       /\ Linked(entry[q])
                       /\ entry[q].key = profile[q].key
                       /\ entry[q].sig = BuildSignature(profile[q], entry[q].vary)
                       /\ stamp[q] < entry[q].expires)'
    BY DEF Hit
  <2>1. PICK e : e = entry'[q]
    OBVIOUS
  <2>2. /\ stage'[q] = "done" /\ Linked(e) /\ e.key = profile[q].key
        /\ e.sig = BuildSignature(profile[q], e.vary) /\ stamp[q] < e.expires
    <3>1. CASE q = r
      BY <1>2, <2>1, <3>1
    <3>2. CASE q # r
      BY <1>2, <2>1, <3>2 DEF Hit
    <3> QED BY <3>1, <3>2
  <2>3. Linked(entry[q])'
    BY <1>5, <2>1, <2>2
  <2> QED BY <2>1, <2>2, <2>3 DEF BuildSignature
<1> QED BY <1>1, <1>4, <1>6, <1>7

LEMMA LookupCInv ==
  ASSUME CInv, NEW r \in Requests, Lookup(r)
  PROVE  CInv'
<1> USE DEF CInv
<1> DEFINE p == profile[r]
           k == p.key
           n == stamp[r]
<1>1. /\ stage[r] = "lookup"
      /\ store' = store \ Expired(k, n)
      /\ present' = IF Fresh(k, n) = {} THEN present \ {k} ELSE present
      /\ UNCHANGED <<now, profile, stamp>>
  BY DEF Lookup
<1>2. Domains' /\ Stored' /\ Pending' /\ Hit'
  <2>1. \A e \in store' : Linked(e)
    BY <1>1 DEF Stored
  <2>2. CASE \E e \in First(Matching(p, Fresh(k, n))) :
               /\ entry' = [entry EXCEPT ![r] = e]
               /\ label' = [label EXCEPT ![r] = "HIT"]
               /\ stage' = [stage EXCEPT ![r] = "done"]
    <3>1. PICK e \in First(Matching(p, Fresh(k, n))) :
               /\ entry' = [entry EXCEPT ![r] = e]
               /\ label' = [label EXCEPT ![r] = "HIT"]
               /\ stage' = [stage EXCEPT ![r] = "done"]
      BY <2>2
    <3>2. e \in store /\ e.key = k /\ ~(e.expires <= n) /\ e.sig = BuildSignature(p, e.vary)
      BY DEF First, Matching, Fresh, Variants, Expired
    <3>3. Linked(e)
      BY <3>2 DEF Stored
    <3>4. n < e.expires
      BY <3>2, <3>3 DEF Linked, Domains
    <3>5. /\ DOMAIN entry' = Requests /\ DOMAIN label' = Requests
          /\ \A q \in Requests \ {r} : entry'[q] = entry[q] /\ label'[q] = label[q]
          /\ entry'[r] = e
      BY <3>1 DEF Domains
    <3> QED BY <1>1, <2>1, <3>1, <3>2, <3>3, <3>4, <3>5, StepFrame
  <2>3. CASE /\ stage' = [stage EXCEPT ![r] = "fetching"]
             /\ UNCHANGED <<entry, label>>
    <3>1. label'[r] # "HIT"
      BY <1>1, <2>3 DEF Hit
    <3>2. DOMAIN entry' = Requests /\ DOMAIN label' = Requests
      BY <2>3 DEF Domains
    <3> QED BY <1>1, <2>1, <2>3, <3>1, <3>2, StepFrame
  <2> QED BY <2>2, <2>3 DEF Lookup, Goto
<1>3. VariantsDistinct'
  <2>1. \A e, f \in store' : e.key = f.key /\ e.sig = f.sig => e = f
    BY <1>1 DEF VariantsDistinct
  <2>2. \A e \in store' : e.key \in present'
    BY <1>1 DEF VariantsDistinct, Fresh, Variants
  <2>3. ASSUME NEW c \in present' PROVE \E e \in store' : e.key = c
    <3>1. PICK e \in store : e.key = c
      BY <1>1 DEF VariantsDistinct
    <3>2. CASE c = k
      BY <1>1, <3>2 DEF Fresh, Variants
    <3>3. CASE c # k
      BY <1>1, <3>1, <3>3 DEF Expired, Variants
    <3> QED BY <3>2, <3>3
  <2> QED BY <2>1, <2>2, <2>3 DEF VariantsDistinct
<1> QED BY <1>2, <1>3

LEMMA CollectedCInv ==
  ASSUME CInv, NEW r \in Requests, Collected(r)
  PROVE  CInv'
<1> USE DEF CInv
<1>1. stage[r] = "fetching" /\ UNCHANGED <<now, store, present, profile, stamp>>
  BY DEF Collected
<1>2. label[r] # "HIT"
  BY <1>1 DEF Hit
<1>3. PICK a \in Responses :
        \/ /\ \E i \in LastRule(a.status) :
                entry' = [entry EXCEPT ![r] =
                  [key     |-> profile[r].key,
                   size    |-> EntryBytes(a),
                   expires |-> now + ValidRules[i].ttl,
                   vary    |-> a.vary,
                   sig     |-> BuildSignature(profile[r], a.vary),
                   from    |-> r,
                   pos     |-> 0]]
           /\ stage' = [stage EXCEPT ![r] = "storing"]
           /\ UNCHANGED label
        \/ /\ label' = [label EXCEPT ![r] = "BYPASS"]
           /\ stage' = [stage EXCEPT ![r] = "done"]
           /\ UNCHANGED entry
  BY DEF Collected, Goto
<1>4. \A e \in store' : Linked(e)
  BY <1>1 DEF Stored
<1>5. Domains' /\ Stored' /\ Pending' /\ Hit'
  <2>1. CASE \E i \in LastRule(a.status) :
                /\ entry' = [entry EXCEPT ![r] =
                    [key     |-> profile[r].key,
                     size    |-> EntryBytes(a),
                     expires |-> now + ValidRules[i].ttl,
                     vary    |-> a.vary,
                     sig     |-> BuildSignature(profile[r], a.vary),
                     from    |-> r,
                     pos     |-> 0]]
                /\ stage' = [stage EXCEPT ![r] = "storing"]
                /\ UNCHANGED label
    <3>1. PICK i \in LastRule(a.status) :
                /\ entry' = [entry EXCEPT ![r] =
                    [key     |-> profile[r].key,
                     size    |-> EntryBytes(a),
                     expires |-> now + ValidRules[i].ttl,
                     vary    |-> a.vary,
                     sig     |-> BuildSignature(profile[r], a.vary),
                     from    |-> r,
                     pos     |-> 0]]
                /\ stage' = [stage EXCEPT ![r] = "storing"]
                /\ UNCHANGED label
      BY <2>1
    <3>2. now + ValidRules[i].ttl \in Nat
      BY CacheAssumption DEF LastRule, MatchingRules, Domains
    <3>3. /\ DOMAIN entry' = Requests /\ DOMAIN label' = Requests
          /\ \A q \in Requests \ {r} : entry'[q] = entry[q] /\ label'[q] = label[q]
      BY <3>1 DEF Domains
    <3>4. entry'[r] =
                  [key     |-> profile[r].key,
                   size    |-> EntryBytes(a),
                   expires |-> now + ValidRules[i].ttl,
                   vary    |-> a.vary,
                   sig     |-> BuildSignature(profile[r], a.vary),
                   from    |-> r,
                   pos     |-> 0]
      BY <3>1 DEF Domains
    <3>5. \A e : e = entry'[r] => Linked(e)
      BY <1>1, <3>2, <3>4 DEF Linked
    <3> QED BY <1>1, <1>2, <1>4, <3>1, <3>3, <3>5, StepFrame
  <2>2. CASE /\ label' = [label EXCEPT ![r] = "BYPASS"]
             /\ stage' = [stage EXCEPT ![r] = "done"]
             /\ UNCHANGED entry
    <3>1. /\ DOMAIN entry' = Requests /\ DOMAIN label' = Requests
          /\ \A q \in Requests \ {r} : entry'[q] = entry[q] /\ label'[q] = label[q]
          /\ label'[r] # "HIT"
      BY <2>2 DEF Domains
    <3> QED BY <1>1, <1>4, <2>2, <3>1, StepFrame
  <2> QED BY <1>3, <2>1, <2>2
<1>6. VariantsDistinct'
  BY <1>1 DEF VariantsDistinct
<1> QED BY <1>5, <1>6

LEMMA FailedCInv ==
  ASSUME CInv, NEW r \in Requests, Failed(r)
  PROVE  CInv'
<1> USE DEF CInv
<1>1. /\ UNCHANGED <<now, store, present, profile, stamp, entry>>
      /\ label' = [label EXCEPT ![r] = "absent"]
      /\ stage' = [stage EXCEPT ![r] = "done"]
  BY DEF Failed, Goto
<1>2. \A e \in store' : Linked(e)
  BY <1>1 DEF Stored
<1>3. /\ DOMAIN entry' = Requests /\ DOMAIN label' = Requests
      /\ \A q \in Requests \ {r} : entry'[q] = entry[q] /\ label'[q] = label[q]
      /\ label'[r] # "HIT"
  BY <1>1 DEF Domains
<1>4. Domains' /\ Stored' /\ Pending' /\ Hit'
  BY <1>1, <1>2, <1>3, StepFrame
<1>5. VariantsDistinct'
  BY <1>1 DEF VariantsDistinct
<1> QED BY <1>4, <1>5

LEMMA PutCInv ==
  ASSUME CInv, NEW r \in Requests, Put(r)
  PROVE  CInv'
<1> USE DEF CInv
<1>1. PICK e : e = [entry[r] EXCEPT !.pos = puts]
  OBVIOUS
<1>2. /\ stage[r] = "storing"
      /\ label' = [label EXCEPT ![r] = "MISS"]
      /\ stage' = [stage EXCEPT ![r] = "done"]
      /\ entry' = [entry EXCEPT ![r] = NoEntry]
      /\ UNCHANGED <<now, profile, stamp>>
  BY DEF Put, Goto
<1>3. Linked(e)
  <2>1. Linked(entry[r])
    BY <1>2 DEF Pending
  <2>2. e.from = entry[r].from /\ e.key = entry[r].key /\ e.sig = entry[r].sig
        /\ e.vary = entry[r].vary /\ e.expires = entry[r].expires
    BY <1>1
  <2> QED BY <2>1, <2>2 DEF Linked
<1>4. \/ UNCHANGED <<store, present>>
      \/ \E gone \in SUBSET store :
           /\ store' = ((store \ gone)
                \ {v \in store \ gone : v.key = e.key /\ v.sig = e.sig}) \cup {e}
           /\ present' = (present \ ({v.key : v \in gone} \ {v.key : v \in store \ gone}))
                           \cup {e.key}
  BY <1>1 DEF Put, Evictions
<1>5. \A f \in store' : Linked(f)
  BY <1>3, <1>4 DEF Stored
<1>6. Domains' /\ Stored' /\ Pending' /\ Hit'
  <2>1. /\ DOMAIN entry' = Requests /\ DOMAIN label' = Requests
        /\ \A q \in Requests \ {r} : entry'[q] = entry[q] /\ label'[q] = label[q]
        /\ label'[r] # "HIT"
    BY <1>2 DEF Domains
  <2> QED BY <1>2, <1>5, <2>1, StepFrame
<1>7. VariantsDistinct'
  <2>1. CASE UNCHANGED <<store, present>>
    BY <2>1 DEF VariantsDistinct
  <2>2. ASSUME NEW gone \in SUBSET store,
               store' = ((store \ gone)
                 \ {v \in store \ gone : v.key = e.key /\ v.sig = e.sig}) \cup {e},
               present' = (present \ ({v.key : v \in gone} \ {v.key : v \in store \ gone}))
                            \cup {e.key}
        PROVE  VariantsDistinct'
    <3>1. \A f, g \in store' : f.key = g.key /\ f.sig = g.sig => f = g
      BY <2>2 DEF VariantsDistinct
    <3>2. \A f \in store' : f.key \in present'
      BY <2>2 DEF VariantsDistinct
    <3>3. ASSUME NEW c \in present' PROVE \E f \in store' : f.key = c
      <4>1. CASE c = e.key
        BY <2>2, <4>1
      <4>2. CASE c # e.key
        <5>1. \E v \in store \ gone : v.key = c
          BY <2>2, <4>2 DEF VariantsDistinct
        <5> QED BY <2>2, <4>2, <5>1
      <4> QED BY <4>1, <4>2
    <3> QED BY <3>1, <3>2, <3>3 DEF VariantsDistinct
  <2> QED BY <1>4, <2>1, <2>2
<1> QED BY <1>6, <1>7

LEMMA NextCInv == CInv /\ [Next]_vars => CInv'
<1> SUFFICES ASSUME CInv, [Next]_vars PROVE CInv'
  OBVIOUS
<1>1. ASSUME NEW r \in Requests,
             Arrive(r) \/ Lookup(r) \/ Collected(r) \/ Failed(r) \/ Put(r)
      PROVE  CInv'
  BY <1>1, ArriveCInv, LookupCInv, CollectedCInv, FailedCInv, PutCInv
<1>2. CASE Tick
  <2>1. /\ UNCHANGED <<store, present, stage, profile, stamp, entry, label>>
        /\ now' = now + 1
    BY <1>2 DEF Tick
  <2>2. Domains'
    BY <2>1 DEF CInv, Domains
  <2>3. \A e : Linked(e)' <=> Linked(e)
    BY <2>1 DEF Linked, BuildSignature
  <2>4. \A r \in Requests : Linked(entry[r])' <=> Linked(entry[r])
    BY <2>1 DEF Linked, BuildSignature
  <2>5. Stored'
    BY <2>1, <2>3 DEF CInv, Stored
  <2>6. Pending'
    BY <2>1, <2>4 DEF CInv, Pending
  <2>7. Hit'
    BY <2>1, <2>4 DEF CInv, Hit, BuildSignature
  <2>8. VariantsDistinct'
    BY <2>1 DEF CInv, VariantsDistinct
  <2> QED
    BY <2>2, <2>5, <2>6, <2>7, <2>8 DEF CInv
<1>3. CASE UNCHANGED vars
  BY <1>3 DEF vars, CInv, Domains, Stored, Pending, Hit, Linked, BuildSignature,
              VariantsDistinct
<1> QED BY <1>1, <1>2, <1>3 DEF Next

-----------------------------------------------------------------------------
\* Every entry keeps its link to the request it was fetched for.
THEOREM LinksKept == Spec => []CInv
<1> QED BY InitCInv, NextCInv, PTL DEF Spec

\* VariantsDistinct (cache.rs 102-104, 168-187) for any interleaving of any number
\* of lookups and stores.
THEOREM VariantsCorrect == Spec => []VariantsDistinct
<1>1. CInv => VariantsDistinct
  BY DEF CInv
<1> QED BY <1>1, LinksKept, PTL

\* HitsMatch (cache.rs 73-112): no request is ever answered with another key's
\* entry, another variant or an expired entry.
THEOREM HitsCorrect == Spec => []HitsMatch
<1>1. CInv => HitsMatch
  <2> SUFFICES ASSUME CInv, NEW r \in Requests, label[r] = "HIT"
               PROVE  LET e == entry[r]
                          origin == profile[e.from]
                      IN  /\ origin.key = profile[r].key
                          /\ \A i \in DOMAIN e.vary :
                               HeaderText(origin.headers[e.vary[i]])
                                 = HeaderText(profile[r].headers[e.vary[i]])
                          /\ stamp[r] < e.expires
    BY DEF HitsMatch
  <2>1. PICK e : e = entry[r]
    OBVIOUS
  <2>2. /\ e.key = profile[r].key /\ e.sig = BuildSignature(profile[r], e.vary)
        /\ stamp[r] < e.expires /\ Linked(e)
    BY <2>1 DEF CInv, Hit
  <2>3. /\ e.key = profile[e.from].key
        /\ BuildSignature(profile[e.from], e.vary) = BuildSignature(profile[r], e.vary)
    BY <2>2 DEF Linked
  <2>4. ASSUME NEW i \in DOMAIN e.vary
        PROVE  HeaderText(profile[e.from].headers[e.vary[i]])
                 = HeaderText(profile[r].headers[e.vary[i]])
    <3>1. BuildSignature(profile[e.from], e.vary)[i] = BuildSignature(profile[r], e.vary)[i]
      BY <2>3
    <3> QED BY <3>1 DEF BuildSignature
  <2> QED BY <2>1, <2>2, <2>3, <2>4
<1> QED BY <1>1, LinksKept, PTL

-----------------------------------------------------------------------------
(***************************************************************************)
(* The books                                                               *)
(***************************************************************************)

\* An entry with its seven fields.
Entry(e) ==
  /\ e = [key |-> e.key, size |-> e.size, expires |-> e.expires,
          vary |-> e.vary, sig |-> e.sig, from |-> e.from, pos |-> e.pos]
  /\ e.key \in Keys /\ e.size \in Nat /\ e.expires \in Nat /\ e.pos \in Nat

Ready ==
  /\ DOMAIN entry = Requests
  /\ \A r \in Requests : stage[r] = "storing" => Entry(entry[r])

Held == IsFiniteSet(store) /\ \A e \in store : Entry(e)

Books == CInv /\ TypeOK /\ Ready /\ Held /\ BytesExact

LEMMA BytesTotal ==
  ASSUME NEW S
  PROVE  Bytes(S) = Total(S)
BY DEF Bytes, Total, Size, Weight

LEMMA HeldSized ==
  ASSUME Held, NEW S \in SUBSET store
  PROVE  Sized(S) /\ Bytes(S) \in Nat
<1>1. Sized(S)
  BY FS_Subset DEF Held, Entry, Sized, Weight
<1> QED
  BY <1>1, TotalNat, BytesTotal

\* What is taken out leaves the rest on the books.
LEMMA BytesWithout ==
  ASSUME Held, NEW S \in SUBSET store, NEW T \in SUBSET S
  PROVE  /\ Bytes(S) \in Nat /\ Bytes(T) \in Nat /\ Bytes(S \ T) \in Nat
         /\ Minus(Bytes(S), Bytes(T)) = Bytes(S \ T)
         /\ Bytes(S \ T) <= Bytes(S)
<1>1. Sized(S) /\ Bytes(S) \in Nat /\ Bytes(T) \in Nat /\ Bytes(S \ T) \in Nat
  BY HeldSized
<1>2. Bytes(S) = Bytes(T) + Bytes(S \ T)
  BY <1>1, TotalWithout, BytesTotal
<1> QED
  BY <1>1, <1>2 DEF Minus

LEMMA InitBooks == Init => Books
<1> SUFFICES ASSUME Init PROVE Books
  OBVIOUS
<1>1. CInv
  BY InitCInv
<1>2. TypeOK
  BY CacheAssumption DEF Init, TypeOK, Stages, Labels
<1>3. Ready /\ Held
  BY FS_EmptySet DEF Init, Ready, Held
<1>4. Bytes(store) = 0
  BY TotalEmpty, BytesTotal DEF Init
<1> QED
  BY <1>1, <1>2, <1>3, <1>4, CacheAssumption DEF Books, BytesExact, Init

\* The steps that leave the store and its books alone.
LEMMA BooksKept ==
  ASSUME Books, CInv', TypeOK', Ready', UNCHANGED <<store, total, gauge>>
  PROVE  Books'
<1>1. Held'
  BY DEF Books, Held, Entry
<1>2. BytesExact'
  BY DEF Books, BytesExact, Bytes
<1> QED
  BY <1>1, <1>2 DEF Books

LEMMA ArriveBooks ==
  ASSUME Books, NEW r \in Requests, Arrive(r)
  PROVE  Books'
<1> USE DEF Books
<1>1. CInv'
  BY ArriveCInv
<1>2. PICK p \in Profiles : profile' = [profile EXCEPT ![r] = p]
  BY DEF Arrive
<1>3. TypeOK'
  BY <1>2 DEF Arrive, Goto, TypeOK, Stages, CInv, Domains
<1>4. Ready'
  BY DEF Arrive, Goto, Ready, TypeOK, Entry
<1> QED
  BY <1>1, <1>3, <1>4, BooksKept DEF Arrive

LEMMA FailedBooks ==
  ASSUME Books, NEW r \in Requests, Failed(r)
  PROVE  Books'
<1> USE DEF Books
<1>1. CInv'
  BY FailedCInv
<1>2. TypeOK'
  BY DEF Failed, Goto, TypeOK, Stages, Labels
<1>3. Ready'
  BY DEF Failed, Goto, Ready, TypeOK, Entry
<1> QED
  BY <1>1, <1>2, <1>3, BooksKept DEF Failed

LEMMA TickBooks ==
  ASSUME Books, Tick
  PROVE  Books'
<1> USE DEF Books
<1>1. CInv'
  BY NextCInv DEF Next
<1>2. TypeOK'
  BY DEF Tick, TypeOK
<1>3. Ready'
  BY DEF Tick, Ready, Entry
<1> QED
  BY <1>1, <1>2, <1>3, BooksKept DEF Tick

LEMMA CollectedBooks ==
  ASSUME Books, NEW r \in Requests, Collected(r)
  PROVE  Books'
<1> USE DEF Books
<1>1. CInv'
  BY CollectedCInv
<1>2. /\ stage[r] = "fetching"
      /\ UNCHANGED <<now, store, present, total, gauge, puts, profile, stamp>>
      /\ \/ UNCHANGED label /\ stage' = [stage EXCEPT ![r] = "storing"]
         \/ label' = [label EXCEPT ![r] = "BYPASS"] /\ stage' = [stage EXCEPT ![r] = "done"]
  BY DEF Collected, Goto
<1>3. TypeOK'
  BY <1>2 DEF TypeOK, Stages, Labels
<1>4. Ready'
  <2>1. CASE UNCHANGED entry /\ stage' = [stage EXCEPT ![r] = "done"]
    BY <2>1 DEF Ready, TypeOK, Entry
  <2>2. ASSUME NEW a \in Responses, NEW i \in LastRule(a.status),
               entry' = [entry EXCEPT ![r] =
                 [key     |-> profile[r].key,
                  size    |-> EntryBytes(a),
                  expires |-> now + ValidRules[i].ttl,
                  vary    |-> a.vary,
                  sig     |-> BuildSignature(profile[r], a.vary),
                  from    |-> r,
                  pos     |-> 0]],
               stage' = [stage EXCEPT ![r] = "storing"]
        PROVE  Ready'
    <3>1. profile[r].key \in Keys
      BY <1>2 DEF TypeOK, Keys
    <3>2. EntryBytes(a) \in Nat
      BY CacheAssumption DEF EntryBytes
    <3>3. now + ValidRules[i].ttl \in Nat
      BY CacheAssumption DEF LastRule, MatchingRules, TypeOK
    <3> DEFINE new == [key     |-> profile[r].key,
                       size    |-> EntryBytes(a),
                       expires |-> now + ValidRules[i].ttl,
                       vary    |-> a.vary,
                       sig     |-> BuildSignature(profile[r], a.vary),
                       from    |-> r,
                       pos     |-> 0]
    <3>4. PICK e : e = new
      OBVIOUS
    <3>5. Entry(e)
      BY <3>1, <3>2, <3>3, <3>4 DEF Entry
    <3>6. entry' = [entry EXCEPT ![r] = e]
      BY <2>2, <3>4
    <3>7. \A q \in Requests : entry'[q] = IF q = r THEN e ELSE entry[q]
      BY <3>6 DEF Ready
    <3>8. ASSUME NEW q \in Requests, stage'[q] = "storing" PROVE Entry(entry'[q])
      <4>1. CASE q = r
        BY <3>5, <3>7, <4>1
      <4>2. CASE q # r
        BY <2>2, <3>7, <3>8, <4>2 DEF Ready, TypeOK
      <4> QED
        BY <4>1, <4>2
    <3> QED
      BY <3>6, <3>8 DEF Ready, Entry
  <2> QED
    BY <2>1, <2>2 DEF Collected, Goto
<1> QED
  BY <1>1, <1>2, <1>3, <1>4, BooksKept

LEMMA LookupBooks ==
  ASSUME Books, NEW r \in Requests, Lookup(r)
  PROVE  Books'
<1> USE DEF Books
<1> DEFINE k == profile[r].key
           dropped == Expired(k, stamp[r])
<1>1. CInv'
  BY LookupCInv
<1>2. /\ store' = store \ dropped
      /\ total' = Minus(total, Bytes(dropped))
      /\ UNCHANGED <<now, gauge, puts, profile, stamp>>
      /\ present' \in SUBSET present
      /\ stage[r] = "lookup"
  BY DEF Lookup
<1>3. \/ label' = [label EXCEPT ![r] = "HIT"] /\ stage' = [stage EXCEPT ![r] = "done"]
      \/ UNCHANGED <<entry, label>> /\ stage' = [stage EXCEPT ![r] = "fetching"]
  BY DEF Lookup, Goto
<1>4. DOMAIN entry' = Requests /\ \A q \in Requests : q # r => entry'[q] = entry[q]
  BY DEF Lookup, Ready
<1>5. dropped \in SUBSET store
  BY DEF Expired, Variants
<1> HIDE DEF k, dropped
<1>6. total' = Bytes(store') /\ total' \in Nat /\ total' <= total
  BY <1>2, <1>5, BytesWithout DEF BytesExact
<1>7. BytesExact'
  <2>1. Bytes(store)' = Bytes(store')
    BY DEF Bytes
  <2>2. total \in Nat /\ gauge \in Nat /\ MaxBytes \in Nat
    BY CacheAssumption DEF TypeOK
  <2> QED
    BY <1>2, <1>6, <2>1, <2>2 DEF BytesExact
<1>8. Held'
  <2>1. IsFiniteSet(store')
    BY <1>2, <1>5, FS_Subset DEF Held
  <2> QED
    BY <1>2, <2>1 DEF Held, Entry
<1>9. TypeOK'
  BY <1>2, <1>3, <1>6 DEF TypeOK, Stages, Labels
<1>10. Ready'
  <2>1. \A q \in Requests : stage'[q] = "storing" => q # r /\ stage[q] = "storing"
    BY <1>3 DEF TypeOK
  <2> QED
    BY <1>4, <2>1 DEF Ready, Entry
<1> QED
  BY <1>1, <1>7, <1>8, <1>9, <1>10

LEMMA PutBooks ==
  ASSUME Books, NEW r \in Requests, Put(r)
  PROVE  Books'
<1> USE DEF Books
<1>1. CInv'
  BY PutCInv
<1>2. /\ stage[r] = "storing"
      /\ label' = [label EXCEPT ![r] = "MISS"]
      /\ stage' = [stage EXCEPT ![r] = "done"]
      /\ entry' = [entry EXCEPT ![r] = NoEntry]
      /\ UNCHANGED <<now, profile, stamp>>
  BY DEF Put, Goto
<1>3. Ready'
  <2>1. \A q \in Requests : stage'[q] = "storing" =>
          stage[q] = "storing" /\ entry'[q] = entry[q]
    BY <1>2 DEF TypeOK, Ready
  <2> QED
    BY <1>2, <2>1 DEF Ready, Entry
<1>4. /\ puts \in Nat /\ total \in Nat /\ gauge \in Nat /\ MaxBytes \in Nat
      /\ total = Bytes(store)
  BY CacheAssumption DEF TypeOK, BytesExact
<1>5. PICK e : e = [entry[r] EXCEPT !.pos = puts]
  OBVIOUS
<1>6. Entry(e) /\ e.pos = puts
  <2>1. Entry(entry[r])
    BY <1>2 DEF Ready
  <2>2. PICK x : x = entry[r]
    OBVIOUS
  <2>3. /\ x = [key |-> x.key, size |-> x.size, expires |-> x.expires,
                vary |-> x.vary, sig |-> x.sig, from |-> x.from, pos |-> x.pos]
        /\ x.key \in Keys /\ x.size \in Nat /\ x.expires \in Nat
    BY <2>1, <2>2 DEF Entry
  <2>4. e = [key |-> x.key, size |-> x.size, expires |-> x.expires,
             vary |-> x.vary, sig |-> x.sig, from |-> x.from, pos |-> puts]
    BY <1>5, <2>2, <2>3
  <2> QED
    BY <1>4, <2>3, <2>4 DEF Entry
<1>7. CASE UNCHANGED <<store, present, total, gauge, puts>>
  <2>1. TypeOK'
    BY <1>2, <1>7 DEF TypeOK, Stages, Labels
  <2> QED
    BY <1>1, <1>3, <1>7, <2>1, BooksKept
<1>8. ASSUME e.size <= MaxBytes, NEW gone \in Evictions(e.size), NEW replaced \in SUBSET store,
             replaced = {v \in store \ gone : v.key = e.key /\ v.sig = e.sig},
             store' = ((store \ gone) \ replaced) \cup {e},
             total' = Minus(Minus(total, Bytes(gone)), Bytes(replaced)) + e.size,
             gauge' = total',
             puts' = puts + 1
      PROVE  Books'
  <2>1. /\ gone \in SUBSET store /\ store \ gone \in SUBSET store
        /\ replaced \in SUBSET (store \ gone)
    BY <1>8 DEF Evictions
  <2> DEFINE left == store \ gone
             rest == left \ replaced
  <2>2. Minus(total, Bytes(gone)) = Bytes(left) /\ Bytes(left) \in Nat
    BY <1>4, <2>1, BytesWithout
  <2>3. /\ Minus(Bytes(left), Bytes(replaced)) = Bytes(rest)
        /\ Bytes(rest) \in Nat /\ Bytes(rest) <= Bytes(left)
    BY <2>1, BytesWithout
  <2>4. rest \in SUBSET store /\ e \notin rest
    BY <1>8, <2>1
  <2>5. /\ Sized(rest) /\ Sized({e}) /\ Bytes({e}) = e.size
    BY <1>6, <2>4, HeldSized, TotalOne, BytesTotal DEF Entry, Weight
  <2>6. Bytes(store') = Bytes(rest) + e.size
    <3>1. rest \cap {e} = {} /\ store' = rest \cup {e}
      BY <1>8, <2>4
    <3>2. Total(rest \cup {e}) = Total(rest) + Total({e})
      BY <2>5, <3>1, TotalUnion
    <3> QED
      BY <2>5, <3>1, <3>2, BytesTotal
  <2>7. total' = Bytes(store') /\ total' \in Nat
    BY <1>6, <1>8, <2>2, <2>3, <2>6 DEF Entry
  <2>8. Bytes(left) + e.size <= MaxBytes
    <3>1. CASE ~Overfull(gone, e.size)
      BY <1>4, <1>6, <2>2, <3>1 DEF Overfull, Entry
    <3>2. CASE gone = store
      <4>1. left = {}
        BY <3>2
      <4>2. Bytes(left) = 0
        BY <4>1, TotalEmpty, BytesTotal
      <4> QED
        BY <1>6, <1>8, <4>2 DEF Entry
    <3> QED
      BY <3>1, <3>2 DEF Evictions
  <2>9. total' <= MaxBytes
    BY <1>4, <1>6, <2>2, <2>3, <2>6, <2>7, <2>8 DEF Entry
  <2>10. BytesExact'
    <3>1. Bytes(store)' = Bytes(store')
      BY DEF Bytes
    <3> QED
      BY <1>8, <2>7, <2>9, <3>1 DEF BytesExact
  <2>11. Held'
    <3>1. IsFiniteSet(rest)
      BY <2>4, FS_Subset DEF Held
    <3>2. IsFiniteSet(rest \cup {e})
      BY <3>1, FS_AddElement
    <3>3. \A v \in store' : Entry(v)
      BY <1>6, <1>8, <2>4 DEF Held
    <3> QED
      BY <1>8, <3>2, <3>3 DEF Held, Entry
  <2>12. TypeOK'
    <3>1. \A v \in store' : v.key \in Keys /\ v.expires \in Nat /\ v.size \in Nat /\ v.pos < puts'
      <4> SUFFICES ASSUME NEW v \in store'
                   PROVE  v.key \in Keys /\ v.expires \in Nat /\ v.size \in Nat /\ v.pos < puts'
        OBVIOUS
      <4>1. CASE v = e
        BY <1>4, <1>6, <1>8, <4>1 DEF Entry
      <4>2. CASE v \in store
        BY <1>4, <1>8, <4>2 DEF Held, Entry, TypeOK
      <4> QED
        BY <1>8, <2>4, <4>1, <4>2
    <3>2. present' \subseteq Keys
      BY <1>1, <3>1 DEF CInv, VariantsDistinct
    <3>3. gauge' \in 0..MaxBytes
      BY <1>4, <1>8, <2>7, <2>9
    <3> QED
      BY <1>2, <1>4, <1>8, <2>7, <3>1, <3>2, <3>3 DEF TypeOK, Stages, Labels
  <2> QED
    BY <1>1, <1>3, <2>10, <2>11, <2>12
<1>9. \/ UNCHANGED <<store, present, total, gauge, puts>>
      \/ /\ e.size <= MaxBytes
         /\ \E gone \in Evictions(e.size) :
              LET replaced == {v \in store \ gone : v.key = e.key /\ v.sig = e.sig}
              IN  /\ store' = ((store \ gone) \ replaced) \cup {e}
                  /\ total' = Minus(Minus(total, Bytes(gone)), Bytes(replaced)) + e.size
         /\ gauge' = total'
         /\ puts' = puts + 1
  BY <1>5 DEF Put
<1>10. ASSUME NEW gone \in Evictions(e.size)
       PROVE  {v \in store \ gone : v.key = e.key /\ v.sig = e.sig} \in SUBSET store
  OBVIOUS
<1> QED
  BY <1>7, <1>8, <1>9, <1>10

LEMMA NextBooks == Books /\ [Next]_vars => Books'
<1> SUFFICES ASSUME Books, [Next]_vars PROVE Books'
  OBVIOUS
<1>1. CASE Next
  BY <1>1, ArriveBooks, LookupBooks, CollectedBooks, FailedBooks, PutBooks, TickBooks DEF Next
<1>2. CASE UNCHANGED vars
  <2>1. CInv'
    BY <1>2, NextCInv DEF Books
  <2>2. TypeOK' /\ Ready' /\ UNCHANGED <<store, total, gauge>>
    BY <1>2 DEF vars, Books, TypeOK, Ready, Entry
  <2> QED
    BY <2>1, <2>2, BooksKept
<1> QED
  BY <1>1, <1>2

-----------------------------------------------------------------------------
\* The books are kept: every entry stored or about to be is well formed, and the
\* counter follows the store (cache.rs 98-101, 164-194).
THEOREM BooksCorrect == Spec => []Books
BY InitBooks, NextBooks, PTL DEF Spec

\* Every variable keeps its type; the gauge never leaves 0..max_bytes.
THEOREM TypeCorrect == Spec => []TypeOK
<1>1. Books => TypeOK
  BY DEF Books
<1> QED
  BY <1>1, BooksCorrect, PTL

\* BytesExact (cache.rs 98-101, 164-167, 188-194): after any mix of expiry, eviction
\* and replacement total_bytes is the sum of the sizes of the entries held, at most
\* max_bytes, and the gauge does not report less.
THEOREM BytesCorrect == Spec => []BytesExact
<1>1. Books => BytesExact
  BY DEF Books
<1> QED
  BY <1>1, BooksCorrect, PTL
=============================================================================
