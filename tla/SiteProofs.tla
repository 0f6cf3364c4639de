------------------------------ MODULE SiteProofs ------------------------------
(***************************************************************************)
(* Proofs about Site for any configuration files, file system and          *)
(* requests.                                                               *)
(***************************************************************************)
EXTENDS Site, LoadProofs

-----------------------------------------------------------------------------
(***************************************************************************)
(* The load                                                                *)
(***************************************************************************)

\* A set of directives that holds what the blocks of its members hold.
Closed(D) ==
  D \subseteq [name : Tokens, args : Seq(Tokens), ends : {";", "}"}, block : Seq(D)]

LEMMA ClosedDirectives == Closed(Directives)
<1>1. ASSUME NEW d \in Directives
      PROVE  d \in [name : Tokens, args : Seq(Tokens), ends : {";", "}"}, block : Seq(Directives)]
  <2>1. /\ d = [name |-> d.name, args |-> d.args, ends |-> d.ends, block |-> d.block]
        /\ d.name \in Tokens /\ d.args \in Seq(Tokens) /\ d.ends \in {";", "}"}
        /\ d.block \in Seq(Directives)
    BY DirectiveFields
  <2> QED
    BY <2>1
<1> QED
  BY <1>1 DEF Closed

\* The recursion ends because it only descends into files that are not on the chain.
LEMMA ChainBounded ==
  ASSUME LoadInv
  PROVE  IncludesBounded
<1> DEFINE I == {i \in DOMAIN calls : calls[i].kind = "file"}
<1> DEFINE g == [i \in I |-> calls[i].of]
<1>1. g \in Injection(I, Files)
  <2>1. \A i \in I : calls[i].of \in Files
    BY DEF LoadInv, LoadTypes, ChainOf
  <2>2. \A i, j \in I : calls[i].of = calls[j].of => i = j
    BY DEF LoadInv, ChainOf
  <2> QED
    BY <2>1, <2>2 DEF Injection, IsInjective
<1>2. Cardinality(I) <= Cardinality(Files)
  BY <1>1, FS_Injection, ConfigLoadAssumption
<1> QED
  BY <1>2 DEF IncludesBounded

LEMMA LoadStepKeeps ==
  ASSUME LoadInv, LoadStep
  PROVE  LoadInv'
BY StartLoadKeeps, ExpandIncludeKeeps, ExpandDirectiveKeeps, ReturnKeeps, EditConfigKeeps
   DEF LoadStep

LEMMA AcceptKeeps ==
  ASSUME LoadInv, Accept
  PROVE  LoadInv'
<1>1. /\ UNCHANGED <<disk, calls, visited, tree, touched>>
      /\ phase = "loaded" /\ phase' \in {"built", "refused"}
  BY DEF Accept
<1> QED
  BY <1>1 DEF LoadInv, LoadTypes, Trees

LEMMA ListenKeeps ==
  ASSUME LoadInv, Listen
  PROVE  LoadInv'
<1>1. /\ phase' = "serving" /\ disk' = [f \in Files |-> 0] /\ tree' = << >> /\ visited' = {}
      /\ touched' = 0 /\ calls' = calls /\ phase = "built"
  BY DEF Listen
<1>2. calls' = << >>
  BY <1>1 DEF LoadInv, LoadTypes
<1>3. tree' \in Seq(Directives) /\ calls' \in Seq(Calls)
  BY <1>1, <1>2
<1>4. \A f \in Files : Len(Text[f]) \in Nat
  BY ConfigLoadAssumption
<1>5. LoadTypes'
  BY <1>1, <1>2, <1>4, ConfigLoadAssumption DEF LoadTypes
<1>6. ChainOf(calls', visited')
  BY <1>2 DEF ChainOf
<1> QED
  BY <1>3, <1>5, <1>6 DEF LoadInv, Trees

\* The inductive invariant of the loader.
THEOREM LoaderTracked == SiteSpec => []LoadInv
<1>1. SiteInit => LoadInv
  BY LoadInitially DEF SiteInit
<1>2. LoadInv /\ [SiteNext]_siteVars => LoadInv'
  <2> SUFFICES ASSUME LoadInv, [SiteNext]_siteVars PROVE LoadInv'
    OBVIOUS
  <2>1. CASE LoadStep
    BY <2>1, LoadStepKeeps
  <2>2. CASE Accept
    BY <2>2, AcceptKeeps
  <2>3. CASE Listen
    BY <2>3, ListenKeeps
  <2>4. CASE UNCHANGED loadVars
    BY <2>4 DEF loadVars, LoadInv, LoadTypes, Trees
  <2>5. ASSUME (\E r \in Requests : Arrive(r)) \/ ServeNext \/ WorldNext \/ UNCHANGED siteVars
        PROVE  UNCHANGED loadVars
    BY <2>5 DEF Arrive, ServeNext, WorldNext, siteVars
  <2> QED
    BY <2>1, <2>2, <2>3, <2>4, <2>5 DEF SiteNext
<1> QED
  BY <1>1, <1>2, PTL DEF SiteSpec

\* However the files change during a load, expand_includes (config/mod.rs 71-88)
\* never descends deeper than there are files.
THEOREM IncludesCorrect == SiteSpec => []IncludesBounded
BY LoaderTracked, ChainBounded, PTL

LEMMA LoadMeansStep ==
  ASSUME LoadInv, LoadMeans, SiteNext
  PROVE  LoadMeans'
<1>1. CASE LoadStep
  BY <1>1, LoadMeansKept, EditMeans DEF LoadStep
<1>2. CASE Accept
  BY <1>2, AcceptMeans DEF Accept
<1>3. CASE Listen
  BY <1>3 DEF Listen, LoadMeans, Undisturbed, Loaded
<1>4. CASE (\E r \in Requests : Arrive(r)) \/ ServeNext \/ WorldNext
  <2>1. UNCHANGED loadVars
    BY <1>4 DEF Arrive, ServeNext, WorldNext
  <2> QED
    BY <2>1, LoadMeansSame
<1> QED
  BY <1>1, <1>2, <1>3, <1>4 DEF SiteNext

\* The inductive invariant behind LoadFaithful: while nobody edits the files, the
\* stack of calls of expand_includes, each with what it has done, what it has to do
\* and the files it may still include, stands for the text of the main file.
THEOREM LoadMeansTracked == SiteSpec => [](LoadInv /\ LoadMeans)
<1>1. SiteInit => LoadMeans
  BY MeansInitially DEF SiteInit
<1>2. LoadInv /\ LoadMeans /\ [SiteNext]_siteVars => LoadMeans'
  <2>1. UNCHANGED siteVars => UNCHANGED loadVars
    BY DEF siteVars
  <2> QED
    BY <2>1, LoadMeansStep, LoadMeansSame
<1> QED
  BY <1>1, <1>2, LoaderTracked, PTL DEF SiteSpec

\* For any files, whatever they include and however deep: a load that nobody
\* disturbs (config::load, expand_includes, parse_block) succeeds exactly when
\* every needed file is there, well formed and not on a cycle, and then its tree
\* reads as the text of the main file with every include replaced by what it names.
THEOREM LoadCorrect == SiteSpec => []LoadFaithful
BY LoadMeansTracked, LoadMeansFaithful, PTL

-----------------------------------------------------------------------------
(***************************************************************************)
(* Positions by rank                                                       *)
(***************************************************************************)

\* A finite set in a linear order is enumerated by rank: b[i] holds i and what
\* comes before i.
LEMMA RankBijection ==
  ASSUME NEW I, IsFiniteSet(I), NEW b \in [I -> SUBSET I],
         \A i \in I : i \in b[i],
         \A i, j \in I : i \in b[j] => b[i] \subseteq b[j],
         \A i, j \in I : i \in b[j] \/ j \in b[i],
         \A i, j \in I : i \in b[j] /\ j \in b[i] => i = j
  PROVE  /\ Cardinality(I) \in Nat
         /\ \A i \in I : Cardinality(b[i]) \in 1..Cardinality(I)
         /\ \A i, j \in I : i \in b[j] <=> Cardinality(b[i]) <= Cardinality(b[j])
         /\ \A k \in 1..Cardinality(I) : \E i \in I : Cardinality(b[i]) = k
<1>1. Cardinality(I) \in Nat
  BY FS_CardinalityType
<1>2. ASSUME NEW i \in I
      PROVE  IsFiniteSet(b[i]) /\ Cardinality(b[i]) \in 1..Cardinality(I)
  <2>1. b[i] \in SUBSET I /\ b[i] # {}
    OBVIOUS
  <2>2. IsFiniteSet(b[i]) /\ Cardinality(b[i]) <= Cardinality(I)
    BY <2>1, FS_Subset
  <2>3. Cardinality(b[i]) \in Nat /\ Cardinality(b[i]) # 0
    BY <2>1, <2>2, FS_CardinalityType, FS_EmptySet
  <2> QED
    BY <1>1, <2>2, <2>3
<1>3. ASSUME NEW i \in I, NEW j \in I, i \in b[j], i # j
      PROVE  Cardinality(b[i]) < Cardinality(b[j])
  <2>1. b[i] \subseteq b[j] /\ b[i] # b[j]
    BY <1>3
  <2>2. Cardinality(b[i]) <= Cardinality(b[j]) /\ Cardinality(b[j]) # Cardinality(b[i])
    BY <1>2, <2>1, FS_Subset
  <2> QED
    BY <1>2, <2>2
<1>4. ASSUME NEW i \in I, NEW j \in I
      PROVE  i \in b[j] <=> Cardinality(b[i]) <= Cardinality(b[j])
  <2>1. CASE i = j
    BY <1>2, <2>1
  <2>2. CASE i # j /\ i \in b[j]
    BY <1>2, <1>3, <2>2
  <2>3. CASE i # j /\ i \notin b[j]
    <3>1. Cardinality(b[j]) < Cardinality(b[i])
      BY <1>3, <2>3
    <3> QED
      BY <1>2, <2>3, <3>1
  <2> QED
    BY <2>1, <2>2, <2>3
<1> DEFINE r == [i \in I |-> Cardinality(b[i])]
<1>5. r \in Injection(I, 1..Cardinality(I))
  <2>1. \A i, j \in I : Cardinality(b[i]) = Cardinality(b[j]) => i = j
    BY <1>2, <1>4
  <2> QED
    BY <1>2, <2>1 DEF Injection, IsInjective
<1>6. IsFiniteSet(1..Cardinality(I)) /\ Cardinality(1..Cardinality(I)) = Cardinality(I)
  BY <1>1, FS_Interval
<1>7. r \in Surjection(I, 1..Cardinality(I))
  BY <1>5, <1>6, FS_Injection
<1>8. \A k \in 1..Cardinality(I) : \E i \in I : r[i] = k
  BY <1>7 DEF Surjection
<1> QED
  BY <1>1, <1>2, <1>4, <1>8

\* The positions of a sequence up to a length are finitely many.
LEMMA PositionsFinite ==
  ASSUME NEW S, NEW s \in Seq(S), NEW I \in SUBSET DOMAIN s
  PROVE  IsFiniteSet(I) /\ I \subseteq Nat \ {0}
<1>1. DOMAIN s = 1..Len(s) /\ Len(s) \in Nat
  OBVIOUS
<1>2. IsFiniteSet(DOMAIN s)
  BY <1>1, FS_Interval
<1> QED
  BY <1>1, <1>2, FS_Subset

\* e lists the positions I in their order.
Lists(e, I) ==
  /\ e \in [1..Cardinality(I) -> I]
  /\ \A i \in I : \E k \in 1..Cardinality(I) : e[k] = i
  /\ \A k, m \in 1..Cardinality(I) : k <= m <=> e[k] <= e[m]

\* At takes the elements at the positions I in the order of the positions.
LEMMA AtSpec ==
  ASSUME NEW S, NEW s \in Seq(S), NEW I \in SUBSET DOMAIN s
  PROVE  /\ Cardinality(I) \in Nat
         /\ At(s, I) \in Seq(S)
         /\ Len(At(s, I)) = Cardinality(I)
         /\ \E e : Lists(e, I) /\ \A k \in 1..Cardinality(I) : At(s, I)[k] = s[e[k]]
<1> DEFINE b == [i \in I |-> {j \in I : j <= i}]
<1>1. IsFiniteSet(I) /\ \A i \in I : i \in Nat
  BY PositionsFinite
<1>2. /\ b \in [I -> SUBSET I]
      /\ \A i \in I : i \in b[i]
      /\ \A i, j \in I : i \in b[j] => b[i] \subseteq b[j]
      /\ \A i, j \in I : i \in b[j] \/ j \in b[i]
      /\ \A i, j \in I : i \in b[j] /\ j \in b[i] => i = j
  BY <1>1
<1>3. \A i, j \in I : i \in b[j] <=> i <= j
  OBVIOUS
<1>4. \A i \in I : b[i] = {j \in I : j <= i}
  OBVIOUS
<1> HIDE DEF b
<1>5. /\ Cardinality(I) \in Nat
      /\ \A i \in I : Cardinality(b[i]) \in 1..Cardinality(I)
      /\ \A i, j \in I : i \in b[j] <=> Cardinality(b[i]) <= Cardinality(b[j])
      /\ \A k \in 1..Cardinality(I) : \E i \in I : Cardinality(b[i]) = k
  BY <1>1, <1>2, RankBijection
<1> DEFINE e == [k \in 1..Cardinality(I) |-> CHOOSE i \in I : Cardinality({j \in I : j <= i}) = k]
<1>6. \A k \in 1..Cardinality(I) : e[k] \in I /\ Cardinality(b[e[k]]) = k
  <2> SUFFICES ASSUME NEW k \in 1..Cardinality(I)
               PROVE  e[k] \in I /\ Cardinality(b[e[k]]) = k
    OBVIOUS
  <2>1. \E i \in I : Cardinality({j \in I : j <= i}) = k
    BY <1>4, <1>5
  <2>2. e[k] \in I /\ Cardinality({j \in I : j <= e[k]}) = k
    BY <2>1
  <2> QED
    BY <1>4, <2>2
<1>7. \A k \in 1..Cardinality(I) : At(s, I)[k] = s[e[k]]
  BY DEF At
<1>8. e \in [1..Cardinality(I) -> I]
  BY <1>6
<1> HIDE DEF e
<1>9. \A i \in I : \E k \in 1..Cardinality(I) : e[k] = i
  <2> SUFFICES ASSUME NEW i \in I
               PROVE  \E k \in 1..Cardinality(I) : e[k] = i
    OBVIOUS
  <2>1. PICK k \in 1..Cardinality(I) : k = Cardinality(b[i])
    BY <1>5
  <2>2. e[k] \in I /\ Cardinality(b[e[k]]) = Cardinality(b[i])
    BY <1>6, <2>1
  <2>3. e[k] \in b[i] /\ i \in b[e[k]]
    BY <1>5, <2>1, <2>2
  <2> QED
    BY <1>2, <2>2, <2>3
<1>10. \A k, m \in 1..Cardinality(I) : k <= m <=> e[k] <= e[m]
  <2> SUFFICES ASSUME NEW k \in 1..Cardinality(I), NEW m \in 1..Cardinality(I)
               PROVE  k <= m <=> e[k] <= e[m]
    OBVIOUS
  <2>1. e[k] \in I /\ e[m] \in I /\ Cardinality(b[e[k]]) = k /\ Cardinality(b[e[m]]) = m
    BY <1>6
  <2>2. e[k] \in b[e[m]] <=> k <= m
    BY <1>5, <2>1
  <2> QED
    BY <1>3, <2>1, <2>2
<1>11. Lists(e, I)
  BY <1>8, <1>9, <1>10 DEF Lists
<1>12. \A k \in 1..Cardinality(I) : At(s, I)[k] \in S
  BY <1>7, <1>8
<1>13. At(s, I) = [k \in 1..Cardinality(I) |-> At(s, I)[k]]
  BY DEF At
<1>14. At(s, I) \in Seq(S) /\ Len(At(s, I)) = Cardinality(I)
  BY <1>5, <1>12, <1>13, IsASeq
<1> QED
  BY <1>5, <1>7, <1>11, <1>14

\* Its elements are exactly those at the positions I.
LEMMA AtElements ==
  ASSUME NEW S, NEW s \in Seq(S), NEW I \in SUBSET DOMAIN s
  PROVE  /\ At(s, I) \in Seq(S)
         /\ \A k \in DOMAIN At(s, I) : \E i \in I : At(s, I)[k] = s[i]
         /\ \A i \in I : \E k \in DOMAIN At(s, I) : At(s, I)[k] = s[i]
         /\ At(s, I) = << >> <=> I = {}
<1>1. /\ Cardinality(I) \in Nat /\ At(s, I) \in Seq(S) /\ Len(At(s, I)) = Cardinality(I)
      /\ \E e : Lists(e, I) /\ \A k \in 1..Cardinality(I) : At(s, I)[k] = s[e[k]]
  BY AtSpec
<1>2. PICK e : Lists(e, I) /\ \A k \in 1..Cardinality(I) : At(s, I)[k] = s[e[k]]
  BY <1>1
<1>3. DOMAIN At(s, I) = 1..Cardinality(I)
  BY <1>1
<1>4. \A k \in DOMAIN At(s, I) : \E i \in I : At(s, I)[k] = s[i]
  BY <1>2, <1>3 DEF Lists
<1>5. \A i \in I : \E k \in DOMAIN At(s, I) : At(s, I)[k] = s[i]
  BY <1>2, <1>3 DEF Lists
<1>6. At(s, I) = << >> <=> I = {}
  <2>1. IsFiniteSet(I)
    BY PositionsFinite
  <2>2. Cardinality(I) = 0 <=> I = {}
    BY <2>1, FS_EmptySet
  <2> QED
    BY <1>1, <2>2
<1> QED
  BY <1>1, <1>4, <1>5, <1>6

\* sort_by, which is stable, orders prefix locations by falling length.
Ahead(locs, i, j) ==
  \/ Len(locs[i].path) > Len(locs[j].path)
  \/ Len(locs[i].path) = Len(locs[j].path) /\ i <= j

SortedBy(p, locs) ==
  /\ p \in [DOMAIN locs -> DOMAIN locs]
  /\ \A i \in DOMAIN locs : \E k \in DOMAIN locs : p[k] = i
  /\ \A k, m \in DOMAIN locs : k <= m <=> Ahead(locs, p[k], p[m])
  /\ \A k \in DOMAIN locs : Sorted(locs)[k] = locs[p[k]]

\* Sorted is the list itself, rearranged by rank: nothing is lost or doubled.
LEMMA SortedSpec ==
  ASSUME NEW S, NEW locs \in Seq(S), \A l \in S : Len(l.path) \in Nat
  PROVE  /\ Sorted(locs) \in Seq(S) /\ DOMAIN Sorted(locs) = DOMAIN locs
         /\ \E p : SortedBy(p, locs)
<1>1. DOMAIN locs = 1..Len(locs) /\ Len(locs) \in Nat /\ \A i \in DOMAIN locs : locs[i] \in S
  OBVIOUS
<1> DEFINE I == DOMAIN locs
<1>2. IsFiniteSet(I) /\ Cardinality(I) = Len(locs)
  BY <1>1, FS_Interval
<1> DEFINE b == [i \in I |-> {j \in I : Ahead(locs, j, i)}]
<1>3. \A i \in I : i \in Nat /\ Len(locs[i].path) \in Nat
  BY <1>1
<1>4. /\ \A i \in I : Ahead(locs, i, i)
      /\ \A i, j, k \in I : Ahead(locs, i, j) /\ Ahead(locs, k, i) => Ahead(locs, k, j)
      /\ \A i, j \in I : Ahead(locs, i, j) \/ Ahead(locs, j, i)
      /\ \A i, j \in I : Ahead(locs, i, j) /\ Ahead(locs, j, i) => i = j
  BY <1>3 DEF Ahead
<1>5. /\ b \in [I -> SUBSET I]
      /\ \A i \in I : i \in b[i]
      /\ \A i, j \in I : i \in b[j] => b[i] \subseteq b[j]
      /\ \A i, j \in I : i \in b[j] \/ j \in b[i]
      /\ \A i, j \in I : i \in b[j] /\ j \in b[i] => i = j
  BY <1>4
<1>6. \A i, j \in I : i \in b[j] <=> Ahead(locs, i, j)
  OBVIOUS
<1>7. \A i \in I : Rank(locs, i) = Cardinality(b[i])
  <2> SUFFICES ASSUME NEW i \in I PROVE Rank(locs, i) = Cardinality(b[i])
    OBVIOUS
  <2>1. \A j \in I : (SortsBefore(locs[j], locs[i]) \/ (~SortsBefore(locs[i], locs[j]) /\ j <= i))
                       <=> Ahead(locs, j, i)
    BY <1>3 DEF SortsBefore, Ahead
  <2>2. {j \in I : \/ SortsBefore(locs[j], locs[i])
                   \/ ~SortsBefore(locs[i], locs[j]) /\ j <= i} = b[i]
    BY <2>1
  <2> QED
    BY <2>2 DEF Rank
<1> HIDE DEF b
<1>8. /\ \A i \in I : Cardinality(b[i]) \in 1..Cardinality(I)
      /\ \A i, j \in I : i \in b[j] <=> Cardinality(b[i]) <= Cardinality(b[j])
      /\ \A k \in 1..Cardinality(I) : \E i \in I : Cardinality(b[i]) = k
  BY <1>2, <1>5, RankBijection
<1> DEFINE p == [k \in I |-> CHOOSE i \in I : Rank(locs, i) = k]
<1>9. \A k \in I : p[k] \in I /\ Cardinality(b[p[k]]) = k
  <2> SUFFICES ASSUME NEW k \in I PROVE p[k] \in I /\ Cardinality(b[p[k]]) = k
    OBVIOUS
  <2>1. \E i \in I : Rank(locs, i) = k
    BY <1>1, <1>2, <1>7, <1>8
  <2>2. p[k] \in I /\ Rank(locs, p[k]) = k
    BY <2>1
  <2> QED
    BY <1>7, <2>2
<1>10. \A k \in I : Sorted(locs)[k] = locs[p[k]]
  BY DEF Sorted
<1>11. p \in [I -> I]
  BY <1>9
<1> HIDE DEF p
<1>12. \A i \in I : \E k \in I : p[k] = i
  <2> SUFFICES ASSUME NEW i \in I PROVE \E k \in I : p[k] = i
    OBVIOUS
  <2>1. PICK k \in I : k = Cardinality(b[i])
    BY <1>1, <1>2, <1>8
  <2>2. p[k] \in I /\ Cardinality(b[p[k]]) = Cardinality(b[i])
    BY <1>9, <2>1
  <2>3. p[k] \in b[i] /\ i \in b[p[k]]
    BY <1>3, <1>8, <2>1, <2>2
  <2> QED
    BY <1>5, <2>2, <2>3
<1>13. \A k, m \in I : k <= m <=> Ahead(locs, p[k], p[m])
  <2> SUFFICES ASSUME NEW k \in I, NEW m \in I
               PROVE  k <= m <=> Ahead(locs, p[k], p[m])
    OBVIOUS
  <2>1. p[k] \in I /\ p[m] \in I /\ Cardinality(b[p[k]]) = k /\ Cardinality(b[p[m]]) = m
    BY <1>9
  <2>2. p[k] \in b[p[m]] <=> k <= m
    BY <1>8, <2>1
  <2> QED
    BY <1>6, <2>1, <2>2
<1>14. \A k \in I : Sorted(locs)[k] \in S
  BY <1>1, <1>10, <1>11
<1>15. Sorted(locs) = [k \in I |-> Sorted(locs)[k]]
  BY DEF Sorted
<1>16. Sorted(locs) \in Seq(S) /\ DOMAIN Sorted(locs) = I
  BY <1>1, <1>14, <1>15
<1> QED
  BY <1>10, <1>11, <1>12, <1>13, <1>16 DEF SortedBy

-----------------------------------------------------------------------------
(***************************************************************************)
(* config::build                                                           *)
(***************************************************************************)
LEMMA NamedSpec ==
  ASSUME NEW D, NEW dirs \in Seq(D), NEW n
  PROVE  /\ Named(dirs, n) \in Seq(D)
         /\ \A k \in DOMAIN Named(dirs, n) :
              Named(dirs, n)[k].name = n /\ \E i \in DOMAIN dirs : Named(dirs, n)[k] = dirs[i]
<1> DEFINE I == {i \in DOMAIN dirs : dirs[i].name = n}
<1>1. I \in SUBSET DOMAIN dirs
  OBVIOUS
<1> HIDE DEF I
<1>2. /\ At(dirs, I) \in Seq(D)
      /\ \A k \in DOMAIN At(dirs, I) : \E i \in I : At(dirs, I)[k] = dirs[i]
  BY <1>1, AtElements
<1> QED
  BY <1>2 DEF Named, I

\* What ContentOf selects.
LEMMA ContentSpec ==
  ASSUME NEW D, NEW dirs \in Seq(D)
  PROVE  /\ ContentOf(dirs) \in Seq(D)
         /\ \A k \in DOMAIN ContentOf(dirs) :
              /\ ContentOf(dirs)[k].name \in ContentDirectives
              /\ \E i \in DOMAIN dirs : ContentOf(dirs)[k] = dirs[i]
<1> DEFINE I == {i \in DOMAIN dirs : dirs[i].name \in ContentDirectives}
<1>1. I \in SUBSET DOMAIN dirs
  OBVIOUS
<1> HIDE DEF I
<1>2. /\ At(dirs, I) \in Seq(D)
      /\ \A k \in DOMAIN At(dirs, I) : \E i \in I : At(dirs, I)[k] = dirs[i]
  BY <1>1, AtElements
<1> QED
  BY <1>2 DEF ContentOf, I

\* The last directive of a name.
LEMMA LastNamed ==
  ASSUME NEW D, NEW dirs \in Seq(D), NEW n, Has(dirs, n)
  PROVE  /\ Last(Named(dirs, n)) \in D
         /\ Last(Named(dirs, n)).name = n
         /\ \E i \in DOMAIN dirs : Last(Named(dirs, n)) = dirs[i]
         /\ Last(Named(dirs, n)) \in ToSet(Named(dirs, n))
         /\ Len(Named(dirs, n)) \in DOMAIN Named(dirs, n)
<1>1. Named(dirs, n) \in Seq(D) /\ Named(dirs, n) # << >>
  BY NamedSpec DEF Has
<1>2. Len(Named(dirs, n)) \in Nat \ {0}
  BY <1>1
<1>3. Len(Named(dirs, n)) \in DOMAIN Named(dirs, n)
  BY <1>1, <1>2
<1> QED
  BY <1>1, <1>3, NamedSpec DEF Last, ToSet

\* The argument of a directive is a token, or there is none.
LEMMA ArgTyped ==
  ASSUME NEW D, Closed(D), NEW dirs \in Seq(D), NEW n
  PROVE  ArgOf(dirs, n) \in Tokens \cup {None}
<1>1. CASE Has(dirs, n) /\ Last(Named(dirs, n)).args # << >>
  <2>1. Last(Named(dirs, n)).args \in Seq(Tokens)
    <3>1. PICK x \in D : x = Last(Named(dirs, n))
      BY <1>1, LastNamed
    <3>2. x.args \in Seq(Tokens)
      BY DEF Closed
    <3> QED
      BY <3>1, <3>2
  <2>2. Last(Named(dirs, n)).args[1] \in Tokens
    BY <1>1, <2>1
  <2> QED
    BY <1>1, <2>2 DEF ArgOf
<1>2. CASE ~(Has(dirs, n) /\ Last(Named(dirs, n)).args # << >>)
  BY <1>2 DEF ArgOf
<1> QED
  BY <1>1, <1>2

\* What the contexts ask of the directives that matter here.
LEMMA KnownFacts ==
  ASSUME NEW d
  PROVE  /\ Known("main", d) /\ d.name = "http" => d.ends = "}"
         /\ Known("http", d) /\ d.name = "server" => d.ends = "}"
         /\ Known("server", d) /\ d.name = "location" => d.ends = "}" /\ Len(d.args) >= 1
         /\ Known("location", d) /\ d.name \in {"root", "alias"} => Len(d.args) >= 1
         /\ Known("location", d) /\ d.name = "try_files" => Len(d.args) >= 2
<1>1. /\ "http" \notin Tolerated["main"] /\ "http" \in Blocks["main"]
      /\ "server" \notin Tolerated["http"] /\ "server" \in Blocks["http"]
      /\ "location" \notin Tolerated["server"] /\ "location" \in Blocks["server"]
      /\ \A n \in {"root", "alias", "try_files"} : n \notin Tolerated["location"]
  BY DEF Tolerated, Blocks
<1>2. /\ Arity["server"]["location"] = 1
      /\ Arity["location"]["root"] = 1 /\ Arity["location"]["alias"] = 1
      /\ Arity["location"]["try_files"] = 2
  BY DEF Arity
<1>3. ASSUME NEW c, d.name \notin Tolerated[c], Known(c, d)
      PROVE  /\ Len(d.args) >= Arity[c][d.name]
             /\ d.name \in Blocks[c] => d.ends = "}"
  BY <1>3 DEF Known
<1>4. Known("main", d) /\ d.name = "http" => d.ends = "}"
  BY <1>1, <1>3
<1>5. Known("http", d) /\ d.name = "server" => d.ends = "}"
  BY <1>1, <1>3
<1>6. Known("server", d) /\ d.name = "location" => d.ends = "}" /\ Len(d.args) >= 1
  BY <1>1, <1>2, <1>3
<1>7. Known("location", d) /\ d.name \in {"root", "alias"} => Len(d.args) >= 1
  BY <1>1, <1>2, <1>3
<1>8. Known("location", d) /\ d.name = "try_files" => Len(d.args) >= 2
  BY <1>1, <1>2, <1>3
<1> QED
  BY <1>4, <1>5, <1>6, <1>7, <1>8

\* Server blocks and locations that config::build accepts.
GoodServers(D) == {x \in D : x.block \in Seq(D) /\ ServerOk(x)}
GoodLocations(D) ==
  {Location(x[1], x[2]) : x \in {y \in D \X (Tokens \cup {None}) :
                                   y[1].block \in Seq(D) /\ Len(y[1].args) >= 1 /\ LocationOk(y[1], y[2])}}

\* An accepted location has what serve and try_files rely on (build.rs, the checks of
\* build_location): a directory, and a status only as the last of several entries.
LEMMA LocationGood ==
  ASSUME NEW D, Closed(D), NEW l \in GoodLocations(D)
  PROVE  /\ l.kind \in {"exact", "regex", "prefix"}
         /\ Len(l.path) \in Nat
         /\ l.act \in {"root", "alias", "try_files"} => l.arg # None
         /\ l.entries \in Seq(ToSet(l.entries))
         /\ l.act = "try_files" =>
              /\ l.entries # << >>
              /\ \A k \in 1..(Len(l.entries) - 1) : ~l.entries[k].status
<1>1. PICK d \in D, root \in Tokens \cup {None} :
        /\ l = Location(d, root) /\ d.block \in Seq(D) /\ Len(d.args) >= 1
        /\ LocationOk(d, root)
  BY DEF GoodLocations
<1> DEFINE dirs == d.block
<1>2. d.args \in Seq(Tokens) /\ d.args[1] \in Tokens
  <2>1. d.args \in Seq(Tokens)
    BY DEF Closed
  <2> QED
    BY <1>1, <2>1
<1>3. \A i \in DOMAIN dirs : Known("location", dirs[i])
  BY <1>1 DEF LocationOk, AllKnown
<1>4. l.kind \in {"exact", "regex", "prefix"}
  BY <1>1 DEF Location
<1>5. Len(l.path) \in Nat
  <2>1. (IF d.args[1] \in Modifiers THEN d.args[2] ELSE d.args[1]) \in Tokens
    <3>1. d.args[1] \in Modifiers => Len(d.args) >= 2
      BY <1>1 DEF LocationOk
    <3>2. d.args[1] \in Modifiers => d.args[2] \in Tokens
      BY <1>2, <3>1
    <3> QED
      BY <1>2, <3>2
  <2>2. l.path = PathOf[IF d.args[1] \in Modifiers THEN d.args[2] ELSE d.args[1]]
    BY <1>1 DEF Location
  <2>3. l.path \in Seq(ToSet(l.path))
    BY <2>1, <2>2, LoweringAssumption
  <2> QED
    BY <2>3
<1> DEFINE content == IF ContentOf(dirs) # << >> THEN ContentOf(dirs)[1]
                      ELSE [name |-> "root", args |-> <<root>>]
<1>6. /\ l.act = IF Has(dirs, "try_files") THEN "try_files" ELSE content.name
      /\ l.arg = IF content.args = << >> THEN None ELSE content.args[1]
      /\ l.entries = IF Has(dirs, "try_files") THEN Entries(Last(Named(dirs, "try_files")).args)
                     ELSE << >>
  BY <1>1 DEF Location
<1>7. ASSUME l.act \in {"root", "alias", "try_files"}
      PROVE  l.arg # None
  <2>1. CASE ContentOf(dirs) = << >>
    BY <1>1, <1>6, <2>1 DEF LocationOk
  <2>2. CASE ContentOf(dirs) # << >>
    <3>1. ContentOf(dirs) \in Seq(D)
      BY <1>1, ContentSpec
    <3>2. 1 \in DOMAIN ContentOf(dirs)
      BY <2>2, <3>1
    <3>3. content \in D /\ \E i \in DOMAIN dirs : content = dirs[i]
      BY <1>1, <2>2, <3>1, <3>2, ContentSpec
    <3>4. content.name \in {"root", "alias"}
      <4>1. content = ContentOf(dirs)[1] /\ content.name \in ContentDirectives
        BY <1>1, <2>2, <3>2, ContentSpec
      <4>2. Has(dirs, "try_files") => ContentOf(dirs)[1].name = "root"
        BY <1>1, <2>2 DEF LocationOk
      <4>3. ~Has(dirs, "try_files") => content.name \in {"root", "alias", "try_files"}
        BY <1>6, <1>7
      <4> HIDE DEF content
      <4> QED
        BY <4>1, <4>2, <4>3 DEF ContentDirectives
    <3>5. Len(content.args) >= 1
      BY <1>3, <3>3, <3>4, KnownFacts
    <3>6. content.args \in Seq(Tokens)
      BY <3>3 DEF Closed
    <3>7. content.args # << >> /\ content.args[1] \in Tokens
      BY <3>5, <3>6
    <3> QED
      BY <1>6, <3>7, LoweringAssumption
  <2> QED
    BY <2>1, <2>2
<1>8. CASE ~Has(dirs, "try_files")
  <2>1. l.entries = << >>
    BY <1>6, <1>8
  <2>2. l.act # "try_files"
    <3>1. CASE ContentOf(dirs) = << >>
      BY <1>6, <1>8, <3>1
    <3>2. CASE ContentOf(dirs) # << >>
      <4>1. ContentOf(dirs) \in Seq(D)
        BY <1>1, ContentSpec
      <4>2. 1 \in DOMAIN ContentOf(dirs)
        BY <3>2, <4>1
      <4>3. content.name \in ContentDirectives
        BY <1>1, <3>2, <4>2, ContentSpec
      <4> QED
        BY <1>6, <1>8, <4>3 DEF ContentDirectives
    <3> QED
      BY <3>1, <3>2
  <2>3. l.entries \in Seq(ToSet(l.entries))
    BY <2>1
  <2> QED
    BY <1>4, <1>5, <1>7, <2>2, <2>3
<1>9. CASE Has(dirs, "try_files")
  <2>1. PICK t : t = Last(Named(dirs, "try_files"))
    OBVIOUS
  <2>2. /\ t \in D /\ t.name = "try_files" /\ \E i \in DOMAIN dirs : t = dirs[i]
        /\ t = Named(dirs, "try_files")[Len(Named(dirs, "try_files"))]
        /\ Len(Named(dirs, "try_files")) \in DOMAIN Named(dirs, "try_files")
    BY <1>1, <1>9, <2>1, LastNamed DEF Last
  <2>3. t.args \in Seq(Tokens) /\ Len(t.args) >= 2
    BY <1>3, <2>2, KnownFacts DEF Closed
  <2>4. l.entries = Entries(t.args)
    BY <1>6, <1>9, <2>1
  <2>5. /\ DOMAIN l.entries = 1..Len(t.args) /\ Len(t.args) \in Nat
        /\ \A k \in 1..Len(t.args) : l.entries[k].status <=> t.args[k] \in StatusWords
    BY <2>3, <2>4 DEF Entries
  <2>6. l.entries = [k \in 1..Len(t.args) |-> l.entries[k]]
    BY <2>3, <2>4 DEF Entries
  <2>7. /\ l.entries \in Seq(ToSet(l.entries))
        /\ Len(l.entries) = Len(t.args)
    BY <2>5, <2>6 DEF ToSet
  <2>8. l.entries # << >>
    BY <2>3, <2>7
  <2>9. ToSet(Front(t.args)) \cap StatusWords = {}
    BY <1>1, <2>2 DEF LocationOk, TryFilesOk
  <2>10. ASSUME NEW k \in 1..(Len(t.args) - 1)
         PROVE  ~l.entries[k].status
    <3>1. t.args # << >>
      BY <2>3
    <3>2. /\ Front(t.args) \in Seq(Tokens) /\ Len(Front(t.args)) = Len(t.args) - 1
          /\ Front(t.args)[k] = t.args[k]
      BY <2>3, <3>1, FrontLast
    <3>3. k \in DOMAIN Front(t.args)
      BY <3>2
    <3>4. t.args[k] \notin StatusWords
      BY <2>9, <3>2, <3>3 DEF ToSet
    <3> QED
      BY <2>3, <2>5, <3>4
  <2> QED
    BY <1>4, <1>5, <1>7, <2>7, <2>8, <2>10
<1> QED
  BY <1>8, <1>9

GoodBlocks(D) == {Server(x) : x \in GoodServers(D)}

\* What a server block that was accepted is known to satisfy.
LEMMA ServerGood ==
  ASSUME NEW D, Closed(D), NEW s \in GoodBlocks(D)
  PROVE  /\ s.tls \in BOOLEAN
         /\ s.http3 => s.tls
         /\ s.locs \in Seq(GoodLocations(D))
<1>1. PICK x \in GoodServers(D) : s = Server(x)
  BY DEF GoodBlocks
<1> DEFINE dirs == x.block
<1> DEFINE blocks == Locations(dirs)
<1> DEFINE root == ArgOf(dirs, "root")
<1>2. x \in D /\ dirs \in Seq(D) /\ ServerOk(x)
  BY DEF GoodServers
<1>3. s.tls = ServerTls(dirs) /\ (s.http3 <=> {"http3", "quic"} \cap Given(dirs, "listen") # {})
      /\ s.locs = [i \in DOMAIN blocks |-> Location(blocks[i], root)]
  BY <1>1 DEF Server
<1>4. s.tls \in BOOLEAN /\ (s.http3 => s.tls)
  BY <1>3 DEF ServerTls
<1>5. /\ blocks \in Seq(D)
      /\ \A k \in DOMAIN blocks :
           blocks[k].name = "location" /\ \E i \in DOMAIN dirs : blocks[k] = dirs[i]
  BY <1>2, NamedSpec DEF Locations
<1>6. root \in Tokens \cup {None}
  BY <1>2, ArgTyped
<1>7. ASSUME NEW k \in DOMAIN blocks
      PROVE  Location(blocks[k], root) \in GoodLocations(D)
  <2>1. blocks[k] \in D /\ blocks[k].name = "location" /\ Known("server", blocks[k])
    BY <1>2, <1>5 DEF ServerOk, AllKnown
  <2>2. blocks[k].ends = "}" /\ Len(blocks[k].args) >= 1
    BY <2>1, KnownFacts
  <2>3. blocks[k].block \in Seq(D)
    BY <2>1, <2>2 DEF Closed
  <2>4. LocationOk(blocks[k], root)
    BY <1>2 DEF ServerOk
  <2> HIDE DEF blocks, root
  <2>5. <<blocks[k], root>> \in D \X (Tokens \cup {None})
    BY <1>6, <2>1
  <2> QED
    BY <2>2, <2>3, <2>4, <2>5 DEF GoodLocations
<1> HIDE DEF blocks, root
<1>8. s.locs \in Seq(GoodLocations(D))
  BY <1>3, <1>5, <1>7
<1> QED
  BY <1>4, <1>8

\* The servers of an accepted configuration are accepted blocks, one by one.
LEMMA ServersGood ==
  ASSUME NEW D, Closed(D), NEW dirs \in Seq(D), ConfigOk(dirs), Has(dirs, "http")
  PROVE  Servers(dirs) \in Seq(GoodBlocks(D))
<1>1. PICK h : h = Last(Named(dirs, "http"))
  OBVIOUS
<1>2. /\ h \in D /\ h.name = "http" /\ \E i \in DOMAIN dirs : h = dirs[i]
      /\ h \in ToSet(Named(dirs, "http"))
  BY <1>1, LastNamed
<1>3. Known("main", h) /\ HttpOk(h)
  BY <1>2 DEF ConfigOk, AllKnown
<1>4. h.block \in Seq(D)
  BY <1>2, <1>3, KnownFacts DEF Closed
<1>5. BlockOf(dirs, "http") = h.block
  BY <1>1 DEF BlockOf
<1> DEFINE blocks == Named(h.block, "server")
<1>6. /\ blocks \in Seq(D)
      /\ \A k \in DOMAIN blocks :
           blocks[k].name = "server" /\ \E i \in DOMAIN h.block : blocks[k] = h.block[i]
  BY <1>4, NamedSpec
<1>7. ASSUME NEW k \in DOMAIN blocks
      PROVE  Server(blocks[k]) \in GoodBlocks(D)
  <2>1. blocks[k] \in D /\ blocks[k].name = "server" /\ Known("http", blocks[k])
    BY <1>3, <1>6 DEF HttpOk, AllKnown
  <2>2. blocks[k].block \in Seq(D)
    BY <2>1, KnownFacts DEF Closed
  <2>3. ServerOk(blocks[k])
    BY <1>3 DEF HttpOk, ToSet
  <2> QED
    BY <2>1, <2>2, <2>3 DEF GoodBlocks, GoodServers
<1>8. Servers(dirs) = [i \in DOMAIN blocks |-> Server(blocks[i])]
  BY <1>5 DEF Servers
<1> HIDE DEF blocks
<1> QED
  BY <1>6, <1>7, <1>8

-----------------------------------------------------------------------------
(***************************************************************************)
(* app::build                                                              *)
(***************************************************************************)

\* The addresses of the listeners are different, and each is some block's.
LEMMA AddressesSpec ==
  ASSUME NEW S, NEW servers \in Seq(S)
  PROVE  LET order == Addresses(servers)
         IN  /\ DOMAIN order = 1..Len(order) /\ Len(order) \in Nat
             /\ \A k \in DOMAIN order : \E i \in DOMAIN servers : order[k] = servers[i].addr
             /\ \A k, m \in DOMAIN order : order[k] = order[m] => k = m
             /\ servers # << >> => DOMAIN order # {}
<1> DEFINE first == {i \in DOMAIN servers : \A j \in 1..(i - 1) : servers[j].addr # servers[i].addr}
<1>1. first \in SUBSET DOMAIN servers
  OBVIOUS
<1>2. DOMAIN servers = 1..Len(servers) /\ Len(servers) \in Nat
  OBVIOUS
<1>3. \A i, j \in first : servers[i].addr = servers[j].addr => i = j
  <2> SUFFICES ASSUME NEW i \in first, NEW j \in first, servers[i].addr = servers[j].addr, i # j
               PROVE  FALSE
    OBVIOUS
  <2>1. i \in Nat \ {0} /\ j \in Nat \ {0} /\ i # j
    BY <1>2
  <2>2. i \in 1..(j - 1) \/ j \in 1..(i - 1)
    BY <2>1
  <2> QED
    BY <2>2
<1>4. servers # << >> => 1 \in first
  BY <1>2
<1> DEFINE list == At(servers, first)
<1> DEFINE order == Addresses(servers)
<1>5. order = [k \in DOMAIN list |-> list[k].addr]
  BY DEF Addresses
<1> HIDE DEF first
<1>6. /\ Cardinality(first) \in Nat /\ list \in Seq(S) /\ Len(list) = Cardinality(first)
      /\ \E e : Lists(e, first) /\ \A k \in 1..Cardinality(first) : list[k] = servers[e[k]]
  BY <1>1, AtSpec
<1>7. PICK e : Lists(e, first) /\ \A k \in 1..Cardinality(first) : list[k] = servers[e[k]]
  BY <1>6
<1>8. list = << >> <=> first = {}
  BY <1>1, AtElements
<1> HIDE DEF list, order
<1>9. DOMAIN list = 1..Len(list) /\ Len(list) \in Nat
  BY <1>6
<1>10. DOMAIN order = 1..Len(list) /\ Len(order) = Len(list)
  BY <1>5, <1>9
<1>11. \A k \in DOMAIN order : e[k] \in first /\ order[k] = servers[e[k]].addr
  BY <1>5, <1>6, <1>7, <1>9 DEF Lists
<1>12. ASSUME NEW k \in DOMAIN order, NEW m \in DOMAIN order, order[k] = order[m]
       PROVE  k = m
  <2>1. e[k] = e[m] /\ e[k] \in Nat
    BY <1>1, <1>2, <1>3, <1>11, <1>12
  <2>2. k <= m /\ m <= k
    BY <1>6, <1>7, <1>10, <2>1 DEF Lists
  <2>3. k \in Nat /\ m \in Nat
    BY <1>9, <1>10
  <2> QED
    BY <2>2, <2>3
<1>13. servers # << >> => DOMAIN order # {}
  <2>1. servers # << >> => Len(list) # 0
    BY <1>4, <1>6, <1>8
  <2>2. servers # << >> => 1 \in DOMAIN order
    BY <1>9, <1>10, <2>1
  <2> QED
    BY <2>2
<1> QED
  BY <1>1, <1>9, <1>10, <1>11, <1>12, <1>13 DEF order

\* The blocks of an address, in the order of the file.
BlocksOf(servers, a) == {i \in DOMAIN servers : servers[i].addr = a}

\* The group of an address is its server blocks, in the order of the file.
LEMMA GroupSpec ==
  ASSUME NEW S, NEW servers \in Seq(S), NEW a, \E i \in DOMAIN servers : servers[i].addr = a
  PROVE  LET G == BlocksOf(servers, a)
             group == Group(servers, a)
         IN  /\ group \in Seq(S) /\ Len(group) = Cardinality(G) /\ Len(group) \in Nat \ {0}
             /\ DOMAIN group = 1..Len(group)
             /\ \E e : Lists(e, G) /\ \A k \in 1..Len(group) : group[k] = servers[e[k]]
<1> DEFINE G == BlocksOf(servers, a)
<1> DEFINE group == Group(servers, a)
<1>1. G \in SUBSET DOMAIN servers /\ G # {}
  BY DEF BlocksOf
<1>2. group = At(servers, G)
  BY DEF Group, BlocksOf
<1> HIDE DEF G, group
<1>3. /\ Cardinality(G) \in Nat /\ group \in Seq(S) /\ Len(group) = Cardinality(G)
      /\ \E e : Lists(e, G) /\ \A k \in 1..Cardinality(G) : group[k] = servers[e[k]]
  BY <1>1, <1>2, AtSpec
<1>4. group # << >>
  BY <1>1, <1>2, AtElements
<1>5. Len(group) \in Nat \ {0} /\ DOMAIN group = 1..Len(group)
  BY <1>3, <1>4
<1> QED
  BY <1>3, <1>5 DEF G, group

\* Blocks that are not mixed all have the mode of the first.
LEMMA OneMode ==
  ASSUME NEW S, NEW group \in Seq(S), \A s \in S : s.tls \in BOOLEAN, ~Mixed(group)
  PROVE  \A i, j \in DOMAIN group : group[i].tls = group[j].tls
<1>1. DOMAIN group = 1..Len(group) /\ Len(group) \in Nat
      /\ \A i \in DOMAIN group : group[i].tls \in BOOLEAN
  OBVIOUS
<1>2. ASSUME NEW i \in 2..Len(group)
      PROVE  (\A j \in 1..(i - 1) : ~group[j].tls) <=> ~group[i].tls
  <2>1. (\A j \in 1..(i - 1) : ~group[j].tls) = ~group[i].tls
    BY DEF Mixed
  <2> QED
    BY <2>1
<1>3. ASSUME NEW i \in DOMAIN group
      PROVE  group[i].tls = group[1].tls
  <2>1. CASE i = 1
    BY <2>1
  <2>2. CASE i # 1 /\ group[1].tls
    <3>1. i \in 2..Len(group) /\ 1 \in 1..(i - 1) /\ 1 \in DOMAIN group
      BY <1>1, <2>2
    <3>2. group[i].tls
      BY <1>2, <2>2, <3>1
    <3> QED
      BY <1>1, <2>2, <3>1, <3>2
  <2>3. CASE ~group[1].tls
    <3> DEFINE T == {k \in DOMAIN group : group[k].tls}
    <3>1. T = {}
      <4> SUFFICES ASSUME T # {} PROVE FALSE
        OBVIOUS
      <4>1. T \in SUBSET Nat
        BY <1>1
      <4>2. PICK m \in T : \A k \in T : m <= k
        BY <4>1, LeastElement
      <4>3. m \in 2..Len(group) /\ \A j \in 1..(m - 1) : j \in DOMAIN group /\ ~(m <= j)
        BY <1>1, <2>3, <4>2
      <4>4. \A j \in 1..(m - 1) : ~group[j].tls
        BY <4>2, <4>3
      <4> QED
        BY <1>2, <4>2, <4>3, <4>4
    <3>2. ~group[i].tls /\ 1 \in DOMAIN group
      BY <1>1, <3>1
    <3> QED
      BY <1>1, <2>3, <3>2
  <2> QED
    BY <2>1, <2>2, <2>3
<1> QED
  BY <1>3

\* What OfKind selects.
LEMMA KindSpec ==
  ASSUME NEW L, NEW s, s.locs \in Seq(L), NEW k
  PROVE  /\ OfKind(s, k) \in Seq(L)
         /\ \A i \in DOMAIN OfKind(s, k) : \E j \in DOMAIN s.locs : OfKind(s, k)[i] = s.locs[j]
<1> DEFINE I == {i \in DOMAIN s.locs : s.locs[i].kind = k}
<1>1. I \in SUBSET DOMAIN s.locs
  OBVIOUS
<1>2. OfKind(s, k) = At(s.locs, I)
  BY DEF OfKind
<1> HIDE DEF I
<1>3. /\ At(s.locs, I) \in Seq(L)
      /\ \A i \in DOMAIN At(s.locs, I) : \E j \in I : At(s.locs, I)[i] = s.locs[j]
  BY <1>1, AtElements
<1> QED
  BY <1>1, <1>2, <1>3

\* A virtual host's locations are locations that were accepted.
LEMMA HostGood ==
  ASSUME NEW D, Closed(D), NEW s \in GoodBlocks(D), NEW servers
  PROVE  LET v == VirtualHost(s, servers)
         IN  /\ v.exact \in Seq(GoodLocations(D))
             /\ v.regex \in Seq(GoodLocations(D))
             /\ v.prefix \in Seq(GoodLocations(D))
<1>1. s.locs \in Seq(GoodLocations(D))
  BY ServerGood
<1>2. \A k : OfKind(s, k) \in Seq(GoodLocations(D))
  BY <1>1, KindSpec
<1>3. \A l \in GoodLocations(D) : Len(l.path) \in Nat
  BY LocationGood
<1>4. Sorted(OfKind(s, "prefix")) \in Seq(GoodLocations(D))
  BY <1>2, <1>3, SortedSpec
<1> QED
  BY <1>2, <1>4 DEF VirtualHost

\* The socket of an address speaks the mode of every block that shares it.
LEMMA ListenerSpec ==
  ASSUME NEW D, Closed(D), NEW servers \in Seq(GoodBlocks(D)), NEW a,
         \E i \in DOMAIN servers : servers[i].addr = a, ~Mixed(Group(servers, a))
  PROVE  LET here == Listener(servers, a)
         IN  /\ here.addr = a
             /\ Len(here.vhosts) \in Nat \ {0} /\ DOMAIN here.vhosts = 1..Len(here.vhosts)
             /\ \A k \in DOMAIN here.vhosts :
                  /\ here.vhosts[k].https = here.tls
                  /\ here.vhosts[k].h3 => here.h3
                  /\ \E i \in DOMAIN servers :
                       here.vhosts[k] = VirtualHost(servers[i], servers)
<1> DEFINE G == BlocksOf(servers, a)
<1> DEFINE group == Group(servers, a)
<1> DEFINE here == Listener(servers, a)
<1>1. /\ group \in Seq(GoodBlocks(D)) /\ Len(group) = Cardinality(G) /\ Len(group) \in Nat \ {0}
      /\ DOMAIN group = 1..Len(group)
      /\ \E e : Lists(e, G) /\ \A k \in 1..Len(group) : group[k] = servers[e[k]]
  BY GroupSpec
<1>2. PICK e : Lists(e, G) /\ \A k \in 1..Len(group) : group[k] = servers[e[k]]
  BY <1>1
<1>3. \A k \in DOMAIN group : e[k] \in G
  BY <1>1, <1>2 DEF Lists
<1>4. \A i \in G : \E k \in DOMAIN group : e[k] = i
  BY <1>1, <1>2 DEF Lists
<1>5. \A i, j \in DOMAIN group : group[i].tls = group[j].tls
  <2>1. \A s \in GoodBlocks(D) : s.tls \in BOOLEAN
    BY ServerGood
  <2> QED
    BY <1>1, <2>1, OneMode
<1> DEFINE tls == \E i \in DOMAIN group : group[i].tls
<1>6. tls = \E i \in DOMAIN group : group[i].tls
  OBVIOUS
<1>7. here = [addr |-> a, vhosts |-> [i \in DOMAIN group |-> VirtualHost(group[i], servers)],
              tls |-> tls, h3 |-> tls /\ WantsH3(servers, a)]
  BY DEF Listener
<1>8. \A k \in DOMAIN group : group[k].tls = tls
  <2> SUFFICES ASSUME NEW k \in DOMAIN group PROVE group[k].tls = tls
    OBVIOUS
  <2>1. group[k].tls \in BOOLEAN
    BY <1>1, ServerGood
  <2> QED
    BY <1>5, <1>6, <2>1
<1>9. WantsH3(servers, a) => tls
  <2> SUFFICES ASSUME NEW i \in DOMAIN servers, servers[i].http3, servers[i].addr = a
               PROVE  tls
    BY DEF WantsH3
  <2>1. servers[i].tls
    BY ServerGood
  <2>2. PICK k \in DOMAIN group : e[k] = i
    BY <1>4 DEF BlocksOf
  <2>3. group[k].tls
    BY <1>1, <1>2, <2>1, <2>2
  <2> QED
    BY <1>6, <2>3
<1>10. \A k \in DOMAIN group : group[k] = servers[e[k]] /\ e[k] \in DOMAIN servers
                               /\ group[k].addr = a
  BY <1>1, <1>2, <1>3 DEF BlocksOf
<1> HIDE DEF group, here, G, tls
<1>11. /\ here.addr = a /\ here.tls = tls /\ here.h3 = (tls /\ WantsH3(servers, a))
       /\ here.vhosts = [i \in DOMAIN group |-> VirtualHost(group[i], servers)]
  BY <1>7
<1>12. Len(here.vhosts) \in Nat \ {0} /\ DOMAIN here.vhosts = 1..Len(here.vhosts)
       /\ DOMAIN here.vhosts = DOMAIN group
  <2>1. PICK hosts : hosts = here.vhosts
    OBVIOUS
  <2>2. DOMAIN hosts = 1..Len(group) /\ Len(hosts) = Len(group)
    BY <1>1, <1>11, <2>1
  <2> QED
    BY <1>1, <2>1, <2>2
<1>13. ASSUME NEW k \in DOMAIN here.vhosts
       PROVE  /\ here.vhosts[k].https = here.tls
              /\ here.vhosts[k].h3 => here.h3
              /\ \E i \in DOMAIN servers : here.vhosts[k] = VirtualHost(servers[i], servers)
  <2>1. here.vhosts[k] = VirtualHost(group[k], servers) /\ k \in DOMAIN group
    BY <1>11, <1>12
  <2>2. here.vhosts[k].https = group[k].tls
        /\ here.vhosts[k].h3 = WantsH3(servers, group[k].addr)
    BY <2>1 DEF VirtualHost
  <2> QED
    BY <1>8, <1>9, <1>10, <1>11, <2>1, <2>2
<1> QED
  BY <1>11, <1>12, <1>13 DEF here

\* What request handling finds in a runtime.
Served(rt, D) ==
  \A n \in DOMAIN rt.listeners :
    LET hosts == rt.listeners[n].vhosts
    IN  /\ Len(hosts) \in Nat \ {0} /\ DOMAIN hosts = 1..Len(hosts)
        /\ \A k \in DOMAIN hosts : /\ hosts[k].exact \in Seq(GoodLocations(D))
                                   /\ hosts[k].regex \in Seq(GoodLocations(D))
                                   /\ hosts[k].prefix \in Seq(GoodLocations(D))

\* What a Runtime that was built is made of: one listener for each address that a
\* server block names, over a group that does not mix TLS with plain.
LEMMA RuntimeSpec ==
  ASSUME NEW D, Closed(D), NEW dirs \in Seq(D), ConfigOk(dirs), RuntimeOk(dirs)
  PROVE  LET rt == Runtime(dirs)
             servers == Servers(dirs)
         IN  /\ servers \in Seq(GoodBlocks(D))
             /\ rt.listeners # << >> \/ rt.relays # << >>
             /\ \A i, j \in DOMAIN rt.listeners :
                  rt.listeners[i].addr = rt.listeners[j].addr => i = j
             /\ \A n \in DOMAIN rt.listeners :
                  LET a == rt.listeners[n].addr
                  IN  /\ rt.listeners[n] = Listener(servers, a)
                      /\ ~Mixed(Group(servers, a))
                      /\ \E i \in DOMAIN servers : servers[i].addr = a
<1>1. PICK servers : servers = Servers(dirs)
  OBVIOUS
<1>2. PICK order : order = Addresses(servers)
  OBVIOUS
<1>3. /\ Has(dirs, "http") /\ (servers # << >> \/ Relays(dirs) # << >>)
      /\ \A i \in DOMAIN servers : ~Mixed(Group(servers, servers[i].addr))
  BY <1>1 DEF RuntimeOk
<1>4. servers \in Seq(GoodBlocks(D))
  BY <1>1, <1>3, ServersGood
<1>5. /\ DOMAIN order = 1..Len(order) /\ Len(order) \in Nat
      /\ \A k \in DOMAIN order : \E i \in DOMAIN servers : order[k] = servers[i].addr
      /\ \A k, m \in DOMAIN order : order[k] = order[m] => k = m
      /\ servers # << >> => DOMAIN order # {}
  BY <1>2, <1>4, AddressesSpec
<1>6. PICK rt : rt = Runtime(dirs)
  OBVIOUS
<1>7. /\ rt.listeners = [i \in DOMAIN order |-> Listener(servers, order[i])]
      /\ rt.relays = Relays(dirs)
  BY <1>1, <1>2, <1>6 DEF Runtime
<1>8. DOMAIN rt.listeners = DOMAIN order
      /\ \A n \in DOMAIN order : rt.listeners[n] = Listener(servers, order[n])
                                 /\ rt.listeners[n].addr = order[n]
  BY <1>7 DEF Listener
<1>9. rt.listeners # << >> \/ rt.relays # << >>
  <2>1. ASSUME rt.listeners = << >> PROVE DOMAIN order = {}
    <3>1. DOMAIN << >> = {}
      OBVIOUS
    <3> QED
      BY <1>8, <2>1, <3>1
  <2> QED
    BY <1>3, <1>5, <1>7, <2>1
<1> QED
  BY <1>1, <1>3, <1>4, <1>5, <1>6, <1>8, <1>9, SMTT(30)

\* A Runtime that was built has what the serving code takes for granted.
LEMMA RuntimeServed ==
  ASSUME NEW D, Closed(D), NEW dirs \in Seq(D), ConfigOk(dirs), RuntimeOk(dirs)
  PROVE  Served(Runtime(dirs), D)
<1>1. PICK servers : servers = Servers(dirs)
  OBVIOUS
<1>2. PICK rt : rt = Runtime(dirs)
  OBVIOUS
<1> SUFFICES ASSUME NEW n \in DOMAIN rt.listeners
             PROVE  LET hosts == rt.listeners[n].vhosts
                    IN  /\ Len(hosts) \in Nat \ {0} /\ DOMAIN hosts = 1..Len(hosts)
                        /\ \A k \in DOMAIN hosts : /\ hosts[k].exact \in Seq(GoodLocations(D))
                                                   /\ hosts[k].regex \in Seq(GoodLocations(D))
                                                   /\ hosts[k].prefix \in Seq(GoodLocations(D))
  BY <1>2 DEF Served
<1>3. PICK here : here = rt.listeners[n]
  OBVIOUS
<1>4. servers \in Seq(GoodBlocks(D)) /\ here = Listener(servers, here.addr)
      /\ ~Mixed(Group(servers, here.addr)) /\ \E i \in DOMAIN servers : servers[i].addr = here.addr
  BY <1>1, <1>2, <1>3, RuntimeSpec
<1>5. /\ Len(here.vhosts) \in Nat \ {0} /\ DOMAIN here.vhosts = 1..Len(here.vhosts)
      /\ \A k \in DOMAIN here.vhosts :
           \E i \in DOMAIN servers : here.vhosts[k] = VirtualHost(servers[i], servers)
  BY <1>4, ListenerSpec
<1>6. \A i \in DOMAIN servers : servers[i] \in GoodBlocks(D)
  BY <1>4
<1>7. ASSUME NEW k \in DOMAIN here.vhosts
      PROVE  /\ here.vhosts[k].exact \in Seq(GoodLocations(D))
             /\ here.vhosts[k].regex \in Seq(GoodLocations(D))
             /\ here.vhosts[k].prefix \in Seq(GoodLocations(D))
  BY <1>5, <1>6, HostGood
<1> QED
  BY <1>3, <1>5, <1>7

-----------------------------------------------------------------------------
(***************************************************************************)
(* What is accepted                                                        *)
(***************************************************************************)

\* A built runtime is that of the accepted directives, and a served one holds
\* accepted locations only.
Accepted ==
  /\ phase = "built" => ConfigOk(tree) /\ RuntimeOk(tree) /\ runtime = Runtime(tree)
  /\ phase \in {"built", "serving"} => \E D : Closed(D) /\ Served(runtime, D)

\* A load ends as loaded or failed, and serves nothing meanwhile.
LEMMA LoadStepPhase ==
  ASSUME LoadStep
  PROVE  phase' \in {"loading", "failed", "loaded"} /\ UNCHANGED <<fsVars, reqVars, runtime>>
<1>1. Fail => phase' = "failed"
  BY DEF Fail
<1>2. \A f, below : OpenFile(f, below) => phase' \in {"loading", "failed"}
  BY <1>1 DEF OpenFile
<1>3. StartLoad => phase' \in {"loading", "failed"}
  BY <1>2 DEF StartLoad
<1>4. ExpandInclude => phase' \in {"loading", "failed"}
  BY <1>1, <1>2 DEF ExpandInclude
<1>5. ExpandDirective => phase' = "loading"
  BY DEF ExpandDirective
<1>6. Return => phase' \in {"loading", "loaded"}
  BY DEF Return
<1>7. \A f : EditConfig(f) => phase' = "loading"
  BY DEF EditConfig
<1> QED
  BY <1>3, <1>4, <1>5, <1>6, <1>7 DEF LoadStep

\* The runtime is built once, from the tree that was loaded, and not changed.
LEMMA AcceptedKept ==
  ASSUME LoadInv, Accepted, [SiteNext]_siteVars
  PROVE  Accepted'
<1>1. CASE LoadStep
  BY <1>1, LoadStepPhase DEF Accepted
<1>2. CASE Accept
  <2>1. CASE ~(ConfigOk(tree) /\ RuntimeOk(tree))
    <3>1. phase' = "refused"
      BY <1>2, <2>1 DEF Accept
    <3> QED
      BY <3>1 DEF Accepted
  <2>2. CASE ConfigOk(tree) /\ RuntimeOk(tree)
    <3>1. phase' = "built" /\ runtime' = Runtime(tree) /\ tree' = tree
      BY <1>2, <2>2 DEF Accept
    <3>2. PICK D : Closed(D) /\ tree \in Seq(D)
      BY ClosedDirectives DEF LoadInv, Trees
    <3>3. Served(Runtime(tree), D)
      BY <2>2, <3>2, RuntimeServed
    <3> QED
      BY <2>2, <3>1, <3>2, <3>3 DEF Accepted
  <2> QED
    BY <2>1, <2>2
<1>3. CASE Listen
  <2>1. phase = "built" /\ phase' = "serving" /\ runtime' = runtime
    BY <1>3 DEF Listen
  <2> QED
    BY <2>1 DEF Accepted
<1>4. ASSUME (\E r \in Requests : Arrive(r)) \/ ServeNext \/ WorldNext \/ UNCHANGED siteVars
      PROVE  UNCHANGED <<phase, tree, runtime>>
  BY <1>4 DEF Arrive, ServeNext, WorldNext, siteVars, loadVars
<1>5. CASE UNCHANGED <<phase, tree, runtime>>
  BY <1>5 DEF Accepted
<1> QED
  BY <1>1, <1>2, <1>3, <1>4, <1>5 DEF SiteNext

\* Whatever the files say and however they change during the load, what is built is
\* the runtime of a configuration that config::build and app::build accepted.
THEOREM AcceptedTracked == SiteSpec => [](LoadInv /\ Accepted)
<1>1. SiteInit => Accepted
  BY DEF SiteInit, LoadInit, Accepted
<1>2. LoadInv /\ Accepted /\ [SiteNext]_siteVars => Accepted'
  BY AcceptedKept
<1> QED
  BY <1>1, <1>2, LoaderTracked, PTL DEF SiteSpec

LEMMA InOfSequence ==
  ASSUME NEW S, NEW s \in Seq(S), NEW x \in ToSet(s)
  PROVE  x \in S
BY DEF ToSet

LEMMA BuiltServable ==
  ASSUME LoadInv, Accepted
  PROVE  AcceptedIsServable
<1> SUFFICES ASSUME phase = "built"
             PROVE  /\ runtime.listeners # << >> \/ runtime.relays # << >>
                    /\ \A i, j \in DOMAIN runtime.listeners :
                         runtime.listeners[i].addr = runtime.listeners[j].addr => i = j
                    /\ \A n \in DOMAIN runtime.listeners :
                         LET here == runtime.listeners[n]
                         IN  /\ here.vhosts # << >>
                             /\ \A v \in ToSet(here.vhosts) :
                                  /\ v.https = here.tls
                                  /\ v.h3 => here.h3
                                  /\ \A l \in AllLocations(v) :
                                       /\ l.act \in {"root", "alias", "try_files"} => l.arg # None
                                       /\ l.act = "try_files" =>
                                            /\ l.entries # << >>
                                            /\ \A k \in 1..(Len(l.entries) - 1) : ~l.entries[k].status
  BY DEF AcceptedIsServable
<1>1. PICK D : Closed(D) /\ tree \in Seq(D)
  BY ClosedDirectives DEF LoadInv, Trees
<1>2. ConfigOk(tree) /\ RuntimeOk(tree) /\ runtime = Runtime(tree)
  BY DEF Accepted
<1>3. PICK servers : servers = Servers(tree)
  OBVIOUS
<1>4. /\ servers \in Seq(GoodBlocks(D))
      /\ runtime.listeners # << >> \/ runtime.relays # << >>
      /\ \A i, j \in DOMAIN runtime.listeners :
           runtime.listeners[i].addr = runtime.listeners[j].addr => i = j
      /\ \A n \in DOMAIN runtime.listeners :
           LET a == runtime.listeners[n].addr
           IN  /\ runtime.listeners[n] = Listener(servers, a)
               /\ ~Mixed(Group(servers, a))
               /\ \E i \in DOMAIN servers : servers[i].addr = a
  BY <1>1, <1>2, <1>3, RuntimeSpec
<1>5. Served(runtime, D)
  BY <1>1, <1>2, RuntimeServed
<1>6. ASSUME NEW n \in DOMAIN runtime.listeners
      PROVE  LET here == runtime.listeners[n]
             IN  /\ here.vhosts # << >>
                 /\ \A v \in ToSet(here.vhosts) :
                      /\ v.https = here.tls
                      /\ v.h3 => here.h3
                      /\ \A l \in AllLocations(v) : l \in GoodLocations(D)
  <2>1. PICK here : here = runtime.listeners[n]
    OBVIOUS
  <2>2. /\ here = Listener(servers, here.addr)
        /\ ~Mixed(Group(servers, here.addr)) /\ \E i \in DOMAIN servers : servers[i].addr = here.addr
    BY <1>4, <2>1
  <2>3. /\ Len(here.vhosts) \in Nat \ {0} /\ DOMAIN here.vhosts = 1..Len(here.vhosts)
        /\ \A k \in DOMAIN here.vhosts : /\ here.vhosts[k].https = here.tls
                                         /\ here.vhosts[k].h3 => here.h3
    BY <1>1, <1>4, <2>2, ListenerSpec
  <2>4. here.vhosts # << >>
    <3>1. 1 \in DOMAIN here.vhosts
      BY <2>3
    <3>2. DOMAIN << >> = {}
      OBVIOUS
    <3> QED
      BY <3>1, <3>2
  <2>5. ASSUME NEW v \in ToSet(here.vhosts)
        PROVE  /\ v.https = here.tls /\ (v.h3 => here.h3)
               /\ \A l \in AllLocations(v) : l \in GoodLocations(D)
    <3>1. PICK k \in DOMAIN here.vhosts : v = here.vhosts[k]
      BY <2>3 DEF ToSet
    <3>2. /\ v.exact \in Seq(GoodLocations(D)) /\ v.regex \in Seq(GoodLocations(D))
          /\ v.prefix \in Seq(GoodLocations(D))
      BY <1>5, <2>1, <3>1 DEF Served
    <3>3. \A l \in AllLocations(v) : l \in GoodLocations(D)
      BY <3>2, InOfSequence DEF AllLocations
    <3> QED
      BY <2>3, <3>1, <3>3
  <2> QED
    BY <2>1, <2>4, <2>5
<1>7. ASSUME NEW l \in GoodLocations(D)
      PROVE  /\ l.act \in {"root", "alias", "try_files"} => l.arg # None
             /\ l.act = "try_files" =>
                  /\ l.entries # << >>
                  /\ \A k \in 1..(Len(l.entries) - 1) : ~l.entries[k].status
  BY <1>1, LocationGood
<1> QED
  BY <1>4, <1>6, <1>7

\* Every accepted configuration has what request handling takes for granted: a first
\* virtual host, one mode per socket, HTTP/3 advertised only with an endpoint, no
\* address bound twice, try_files ending in its only status (app.rs 832-842, 876-878).
THEOREM AcceptedCorrect == SiteSpec => []AcceptedIsServable
BY AcceptedTracked, BuiltServable, PTL

-----------------------------------------------------------------------------
(***************************************************************************)
(* Routing                                                                 *)
(***************************************************************************)

\* What a linear search returns, from the positions that satisfy its test.
First(I) == IF I # {} THEN Min(I) ELSE 0

\* First is the least position, and 0 if there is none.
LEMMA FirstIs ==
  ASSUME NEW I \in SUBSET (Nat \ {0})
  PROVE  /\ I = {} <=> First(I) = 0
         /\ I # {} => First(I) \in I /\ \A i \in I : First(I) <= i
<1>1. CASE I = {}
  BY <1>1 DEF First
<1>2. CASE I # {}
  <2>1. PICK m \in I : \A i \in I : m <= i
    BY <1>2, LeastElement
  <2>2. Min(I) \in I /\ \A i \in I : Min(I) <= i
    BY <2>1 DEF Min
  <2> QED
    BY <1>2, <2>2 DEF First
<1> QED
  BY <1>1, <1>2

\* A search for a member of W in a list of locations.
Found(list, W) == First({k \in 1..Len(list) : list[k] \in W})

\* Found is the first position of a member of W, and 0 if there is none.
LEMMA FoundIs ==
  ASSUME NEW S, NEW list \in Seq(S), NEW W
  PROVE  /\ Found(list, W) = 0 <=> \A k \in DOMAIN list : list[k] \notin W
         /\ Found(list, W) # 0 =>
              /\ Found(list, W) \in DOMAIN list /\ list[Found(list, W)] \in W
              /\ \A k \in DOMAIN list : list[k] \in W => Found(list, W) <= k
<1> DEFINE K == {k \in 1..Len(list) : list[k] \in W}
<1>1. DOMAIN list = 1..Len(list) /\ Len(list) \in Nat
  OBVIOUS
<1>2. K \in SUBSET (Nat \ {0})
  BY <1>1
<1>3. /\ K = {} <=> First(K) = 0
      /\ K # {} => First(K) \in K /\ \A i \in K : First(K) <= i
  BY <1>2, FirstIs
<1>4. Found(list, W) = First(K)
  BY DEF Found
<1> HIDE DEF K
<1>5. \A k : k \in K <=> k \in DOMAIN list /\ list[k] \in W
  BY <1>1 DEF K
<1> QED
  BY <1>3, <1>4, <1>5

\* The first of the locations of one kind, in the order of the file.
LEMMA FirstOfKind ==
  ASSUME NEW S, NEW s, s.locs \in Seq(S), NEW kd, NEW W
  PROVE  LET F == {i \in DOMAIN s.locs : s.locs[i].kind = kd /\ s.locs[i] \in W}
             list == OfKind(s, kd)
         IN  /\ Found(list, W) = 0 <=> F = {}
             /\ Found(list, W) # 0 =>
                  \E m \in F : list[Found(list, W)] = s.locs[m] /\ \A j \in F : m <= j
<1> DEFINE I == {i \in DOMAIN s.locs : s.locs[i].kind = kd}
<1> DEFINE F == {i \in DOMAIN s.locs : s.locs[i].kind = kd /\ s.locs[i] \in W}
<1>1. I \in SUBSET DOMAIN s.locs /\ I \subseteq Nat
  OBVIOUS
<1>2. PICK list : list = OfKind(s, kd)
  OBVIOUS
<1>3. list = At(s.locs, I)
  BY <1>2 DEF OfKind
<1>4. \A i : i \in F <=> i \in I /\ s.locs[i] \in W
  OBVIOUS
<1> HIDE DEF I, F
<1>5. /\ Cardinality(I) \in Nat /\ list \in Seq(S) /\ Len(list) = Cardinality(I)
      /\ \E e : Lists(e, I) /\ \A k \in 1..Cardinality(I) : list[k] = s.locs[e[k]]
  BY <1>1, <1>3, AtSpec
<1>6. PICK e : Lists(e, I) /\ \A k \in 1..Cardinality(I) : list[k] = s.locs[e[k]]
  BY <1>5
<1>7. DOMAIN list = 1..Cardinality(I)
  BY <1>5
<1>8. PICK n : n = Found(list, W)
  OBVIOUS
<1>9. /\ n = 0 <=> \A k \in DOMAIN list : list[k] \notin W
      /\ n # 0 => /\ n \in DOMAIN list /\ list[n] \in W
                  /\ \A k \in DOMAIN list : list[k] \in W => n <= k
  BY <1>5, <1>8, FoundIs
<1>10. /\ \A k \in DOMAIN list : e[k] \in I /\ list[k] = s.locs[e[k]]
       /\ \A i \in I : \E k \in DOMAIN list : e[k] = i
       /\ \A k, m \in DOMAIN list : k <= m <=> e[k] <= e[m]
  BY <1>6, <1>7 DEF Lists
<1>11. n = 0 <=> F = {}
  <2>1. n = 0 => F = {}
    BY <1>4, <1>9, <1>10
  <2>2. F = {} => n = 0
    BY <1>4, <1>9, <1>10
  <2> QED
    BY <2>1, <2>2
<1>12. ASSUME n # 0
       PROVE  e[n] \in F /\ list[n] = s.locs[e[n]] /\ \A j \in F : e[n] <= j
  <2>1. n \in DOMAIN list /\ list[n] \in W
    BY <1>9, <1>12
  <2>2. e[n] \in F /\ list[n] = s.locs[e[n]]
    BY <1>4, <1>10, <2>1
  <2>3. ASSUME NEW j \in F PROVE e[n] <= j
    <3>1. PICK k \in DOMAIN list : e[k] = j
      BY <1>4, <1>10
    <3>2. list[k] \in W
      BY <1>4, <1>10, <3>1
    <3> QED
      BY <1>9, <1>10, <1>12, <2>1, <3>1, <3>2
  <2> QED
    BY <2>2, <2>3
<1> QED
  BY <1>2, <1>8, <1>11, <1>12 DEF F

\* The first of the sorted prefix locations: the longest, and of equally long ones
\* the first in the file.
LEMMA FirstPrefix ==
  ASSUME NEW S, NEW s, s.locs \in Seq(S), \A l \in S : Len(l.path) \in Nat, NEW W
  PROVE  LET F == {i \in DOMAIN s.locs : s.locs[i].kind = "prefix" /\ s.locs[i] \in W}
             list == Sorted(OfKind(s, "prefix"))
         IN  /\ Found(list, W) = 0 <=> F = {}
             /\ Found(list, W) # 0 =>
                  \E m \in F : list[Found(list, W)] = s.locs[m]
                               /\ \A j \in F : Ahead(s.locs, m, j)
<1> DEFINE I == {i \in DOMAIN s.locs : s.locs[i].kind = "prefix"}
<1> DEFINE F == {i \in DOMAIN s.locs : s.locs[i].kind = "prefix" /\ s.locs[i] \in W}
<1>1. I \in SUBSET DOMAIN s.locs /\ I \subseteq Nat
  OBVIOUS
<1>2. PICK sub : sub = OfKind(s, "prefix")
  OBVIOUS
<1>3. sub = At(s.locs, I)
  BY <1>2 DEF OfKind
<1>4. \A i : i \in F <=> i \in I /\ s.locs[i] \in W
  OBVIOUS
<1> HIDE DEF I, F
<1>5. /\ Cardinality(I) \in Nat /\ sub \in Seq(S) /\ Len(sub) = Cardinality(I)
      /\ \E e : Lists(e, I) /\ \A k \in 1..Cardinality(I) : sub[k] = s.locs[e[k]]
  BY <1>1, <1>3, AtSpec
<1>6. PICK e : Lists(e, I) /\ \A k \in 1..Cardinality(I) : sub[k] = s.locs[e[k]]
  BY <1>5
<1>7. DOMAIN sub = 1..Cardinality(I)
  BY <1>5
<1>8. PICK list : list = Sorted(sub)
  OBVIOUS
<1>9. list \in Seq(S) /\ DOMAIN list = DOMAIN sub /\ \E p : SortedBy(p, sub)
  BY <1>5, <1>8, SortedSpec
<1>10. PICK p : /\ p \in [DOMAIN sub -> DOMAIN sub]
                /\ \A i \in DOMAIN sub : \E k \in DOMAIN sub : p[k] = i
                /\ \A k, m \in DOMAIN sub : k <= m <=> Ahead(sub, p[k], p[m])
                /\ \A k \in DOMAIN sub : list[k] = sub[p[k]]
  BY <1>8, <1>9 DEF SortedBy
<1>11. PICK n : n = Found(list, W)
  OBVIOUS
<1>12. /\ n = 0 <=> \A k \in DOMAIN list : list[k] \notin W
       /\ n # 0 => /\ n \in DOMAIN list /\ list[n] \in W
                   /\ \A k \in DOMAIN list : list[k] \in W => n <= k
  BY <1>9, <1>11, FoundIs
<1>13. /\ \A k \in DOMAIN sub : e[k] \in I /\ sub[k] = s.locs[e[k]]
       /\ \A i \in I : \E k \in DOMAIN sub : e[k] = i
       /\ \A k, m \in DOMAIN sub : k <= m <=> e[k] <= e[m]
  BY <1>6, <1>7 DEF Lists
<1>14. \A k, m \in DOMAIN sub : Ahead(sub, k, m) <=> Ahead(s.locs, e[k], e[m])
  BY <1>13 DEF Ahead
<1> DEFINE q(k) == e[p[k]]
<1>15. /\ \A k \in DOMAIN list : q(k) \in I /\ list[k] = s.locs[q(k)]
       /\ \A i \in I : \E k \in DOMAIN list : q(k) = i
       /\ \A k, m \in DOMAIN list : k <= m => Ahead(s.locs, q(k), q(m))
  <2>1. \A k \in DOMAIN list : p[k] \in DOMAIN sub /\ list[k] = sub[p[k]]
    BY <1>9, <1>10
  <2>2. \A k \in DOMAIN list : q(k) \in I /\ list[k] = s.locs[q(k)]
    BY <1>13, <2>1
  <2>3. ASSUME NEW i \in I PROVE \E k \in DOMAIN list : q(k) = i
    <3>1. PICK m \in DOMAIN sub : e[m] = i
      BY <1>13
    <3>2. PICK k \in DOMAIN sub : p[k] = m
      BY <1>10
    <3> QED
      BY <1>9, <3>1, <3>2
  <2>4. ASSUME NEW k \in DOMAIN list, NEW m \in DOMAIN list, k <= m
        PROVE  Ahead(s.locs, q(k), q(m))
    <3>1. Ahead(sub, p[k], p[m])
      BY <1>9, <1>10, <2>4
    <3> QED
      BY <1>14, <2>1, <3>1
  <2> QED
    BY <2>2, <2>3, <2>4
<1> HIDE DEF q
<1>16. n = 0 <=> F = {}
  <2>1. n = 0 => F = {}
    BY <1>4, <1>12, <1>15
  <2>2. F = {} => n = 0
    BY <1>4, <1>12, <1>15
  <2> QED
    BY <2>1, <2>2
<1>17. ASSUME n # 0
       PROVE  q(n) \in F /\ list[n] = s.locs[q(n)] /\ \A j \in F : Ahead(s.locs, q(n), j)
  <2>1. n \in DOMAIN list /\ list[n] \in W
    BY <1>12, <1>17
  <2>2. q(n) \in F /\ list[n] = s.locs[q(n)]
    BY <1>4, <1>15, <2>1
  <2>3. ASSUME NEW j \in F PROVE Ahead(s.locs, q(n), j)
    <3>1. PICK k \in DOMAIN list : q(k) = j
      BY <1>4, <1>15
    <3>2. list[k] \in W
      BY <1>4, <1>15, <3>1
    <3> QED
      BY <1>12, <1>15, <1>17, <2>1, <3>1, <3>2
  <2> QED
    BY <2>2, <2>3
<1> QED
  BY <1>2, <1>8, <1>11, <1>16, <1>17 DEF F

\* Precedes, without its local definition.
LEMMA PrecedesMeans ==
  ASSUME NEW S, NEW locs \in Seq(S), NEW i \in DOMAIN locs, NEW j \in DOMAIN locs,
         \A l \in S : l.kind \in {"exact", "regex", "prefix"} /\ Len(l.path) \in Nat
  PROVE  Precedes(locs, i, j) <=>
           \/ locs[i].kind = "exact" /\ locs[j].kind # "exact"
           \/ locs[i].kind = "regex" /\ locs[j].kind = "prefix"
           \/ locs[i].kind = locs[j].kind /\ locs[i].kind # "prefix" /\ i <= j
           \/ locs[i].kind = "prefix" /\ locs[j].kind = "prefix" /\ Ahead(locs, i, j)
<1>1. /\ locs[i].kind \in {"exact", "regex", "prefix"} /\ locs[j].kind \in {"exact", "regex", "prefix"}
      /\ Len(locs[i].path) \in Nat /\ Len(locs[j].path) \in Nat /\ i \in Nat /\ j \in Nat
  OBVIOUS
<1>2. PICK ki, kj, li, lj : /\ ki = locs[i].kind /\ kj = locs[j].kind
                            /\ li = Len(locs[i].path) /\ lj = Len(locs[j].path)
  OBVIOUS
<1> DEFINE class(k) == CASE k = "exact" -> 1 [] k = "regex" -> 2 [] OTHER -> 3
<1>3. Precedes(locs, i, j) <=>
        \/ class(ki) < class(kj)
        \/ /\ class(ki) = class(kj)
           /\ class(ki) = 3 => li >= lj
           /\ i <= j \/ (class(ki) = 3 /\ li > lj)
  BY <1>2 DEF Precedes
<1>4. \A k \in {"exact", "regex", "prefix"} :
        /\ k = "exact" => class(k) = 1
        /\ k = "regex" => class(k) = 2
        /\ k = "prefix" => class(k) = 3
  OBVIOUS
<1> HIDE DEF class
<1>5. Ahead(locs, i, j) <=> li > lj \/ (li = lj /\ i <= j)
  BY <1>2 DEF Ahead
<1>6. CASE ki = kj
  <2>1. class(ki) = class(kj) /\ class(ki) \in 1..3 /\ (class(ki) = 3 <=> ki = "prefix")
    BY <1>1, <1>2, <1>4, <1>6
  <2> QED
    BY <1>1, <1>2, <1>3, <1>5, <1>6, <2>1
<1>7. CASE ki # kj
  <2>1. class(ki) # class(kj)
        /\ (class(ki) < class(kj) <=> ki = "exact" \/ (ki = "regex" /\ kj = "prefix"))
    BY <1>1, <1>2, <1>4, <1>7
  <2> QED
    BY <1>1, <1>2, <1>3, <1>7, <2>1
<1> QED
  BY <1>6, <1>7

\* The locations of a block that match a path.
Fits(locs, path) == {i \in DOMAIN locs : Applies(locs[i], path)}

\* route finds the location that the rules name, if any applies.
LEMMA RouteSpec ==
  ASSUME NEW S, NEW s, s.locs \in Seq(S), NEW servers, NEW path,
         \A l \in S : l.kind \in {"exact", "regex", "prefix"} /\ Len(l.path) \in Nat
  PROVE  LET locs == s.locs
             fits == Fits(locs, path)
             got  == Route(VirtualHost(s, servers), path)
         IN  /\ fits = {} => got = None
             /\ fits # {} => \E m \in fits : got = locs[m] /\ \A j \in fits : Precedes(locs, m, j)
<1> DEFINE We == {l \in S : l.path = path}
<1> DEFINE Wr == {l \in S : path \in Regex[l.pattern]}
<1> DEFINE Wp == {l \in S : l.path = <<"/">> \/ IsPrefix(l.path, path)}
<1> DEFINE ex == OfKind(s, "exact")
<1> DEFINE rx == OfKind(s, "regex")
<1> DEFINE pf == Sorted(OfKind(s, "prefix"))
<1> DEFINE got == Route(VirtualHost(s, servers), path)
<1> DEFINE fits == Fits(s.locs, path)
<1> DEFINE Fe == {i \in DOMAIN s.locs : s.locs[i].kind = "exact" /\ s.locs[i] \in We}
<1> DEFINE Fr == {i \in DOMAIN s.locs : s.locs[i].kind = "regex" /\ s.locs[i] \in Wr}
<1> DEFINE Fp == {i \in DOMAIN s.locs : s.locs[i].kind = "prefix" /\ s.locs[i] \in Wp}
<1>1. \A kd : OfKind(s, kd) \in Seq(S)
  BY KindSpec
<1>2. pf \in Seq(S)
  BY <1>1, SortedSpec
<1>3. /\ First({k \in 1..Len(ex) : ex[k].path = path}) = Found(ex, We)
      /\ First({k \in 1..Len(rx) : path \in Regex[rx[k].pattern]}) = Found(rx, Wr)
      /\ First({k \in 1..Len(pf) : pf[k].path = <<"/">> \/ IsPrefix(pf[k].path, path)}) = Found(pf, Wp)
  <2> HIDE DEF ex, rx, pf
  <2>1. {k \in 1..Len(ex) : ex[k].path = path} = {k \in 1..Len(ex) : ex[k] \in We}
    BY <1>1 DEF ex
  <2>2. {k \in 1..Len(rx) : path \in Regex[rx[k].pattern]} = {k \in 1..Len(rx) : rx[k] \in Wr}
    BY <1>1 DEF rx
  <2>3. {k \in 1..Len(pf) : pf[k].path = <<"/">> \/ IsPrefix(pf[k].path, path)}
          = {k \in 1..Len(pf) : pf[k] \in Wp}
    BY <1>2
  <2> QED
    BY <2>1, <2>2, <2>3 DEF Found
<1>4. got = CASE Found(ex, We) # 0  -> ex[Found(ex, We)]
              [] Found(ex, We) = 0 /\ Found(rx, Wr) # 0 -> rx[Found(rx, Wr)]
              [] Found(ex, We) = 0 /\ Found(rx, Wr) = 0 /\ Found(pf, Wp) # 0 -> pf[Found(pf, Wp)]
              [] OTHER -> None
  <2>1. VirtualHost(s, servers).exact = ex /\ VirtualHost(s, servers).regex = rx
        /\ VirtualHost(s, servers).prefix = pf
    BY DEF VirtualHost
  <2>2. got = LET e == First({k \in 1..Len(ex) : ex[k].path = path})
                  r == First({k \in 1..Len(rx) : path \in Regex[rx[k].pattern]})
                  p == First({k \in 1..Len(pf) : pf[k].path = <<"/">> \/ IsPrefix(pf[k].path, path)})
              IN  CASE e # 0  -> ex[e]
                    [] e = 0 /\ r # 0 -> rx[r]
                    [] e = 0 /\ r = 0 /\ p # 0 -> pf[p]
                    [] OTHER -> None
    BY <2>1 DEF Route, SelectInSeq, First
  <2> HIDE DEF ex, rx, pf, got, We, Wr, Wp
  <2> QED
    BY <1>3, <2>2
<1>5. /\ Found(ex, We) = 0 <=> Fe = {}
      /\ Found(ex, We) # 0 => \E m \in Fe : ex[Found(ex, We)] = s.locs[m] /\ \A j \in Fe : m <= j
  <2> HIDE DEF We
  <2> QED
    BY FirstOfKind
<1>6. /\ Found(rx, Wr) = 0 <=> Fr = {}
      /\ Found(rx, Wr) # 0 => \E m \in Fr : rx[Found(rx, Wr)] = s.locs[m] /\ \A j \in Fr : m <= j
  <2> HIDE DEF Wr
  <2> QED
    BY FirstOfKind
<1>7. /\ Found(pf, Wp) = 0 <=> Fp = {}
      /\ Found(pf, Wp) # 0 => \E m \in Fp : pf[Found(pf, Wp)] = s.locs[m]
                                            /\ \A j \in Fp : Ahead(s.locs, m, j)
  <2> HIDE DEF Wp
  <2> QED
    BY FirstPrefix
<1>8. \A i : i \in fits <=> i \in Fe \/ i \in Fr \/ i \in Fp
  BY DEF Applies, Fits
<1>9. \A i, j \in DOMAIN s.locs : Precedes(s.locs, i, j) <=>
           \/ s.locs[i].kind = "exact" /\ s.locs[j].kind # "exact"
           \/ s.locs[i].kind = "regex" /\ s.locs[j].kind = "prefix"
           \/ s.locs[i].kind = s.locs[j].kind /\ s.locs[i].kind # "prefix" /\ i <= j
           \/ s.locs[i].kind = "prefix" /\ s.locs[j].kind = "prefix" /\ Ahead(s.locs, i, j)
  BY PrecedesMeans
<1>10. /\ \A i \in Fe : i \in DOMAIN s.locs /\ s.locs[i].kind = "exact"
       /\ \A i \in Fr : i \in DOMAIN s.locs /\ s.locs[i].kind = "regex"
       /\ \A i \in Fp : i \in DOMAIN s.locs /\ s.locs[i].kind = "prefix"
  OBVIOUS
<1> HIDE DEF Fe, Fr, Fp, We, Wr, Wp, ex, rx, pf, got, fits
<1>11. fits = {} => got = None
  BY <1>4, <1>5, <1>6, <1>7, <1>8
<1>12. ASSUME fits # {}
       PROVE  \E m \in fits : got = s.locs[m] /\ \A j \in fits : Precedes(s.locs, m, j)
  <2>1. CASE Found(ex, We) # 0
    <3>1. PICK m \in Fe : ex[Found(ex, We)] = s.locs[m] /\ \A j \in Fe : m <= j
      BY <1>5, <2>1
    <3>2. \A j \in fits : Precedes(s.locs, m, j)
      BY <1>8, <1>9, <1>10, <3>1
    <3>3. got = s.locs[m]
      BY <1>4, <2>1, <3>1
    <3> QED
      BY <1>8, <3>2, <3>3
  <2>2. CASE Found(ex, We) = 0 /\ Found(rx, Wr) # 0
    <3>1. PICK m \in Fr : rx[Found(rx, Wr)] = s.locs[m] /\ \A j \in Fr : m <= j
      BY <1>6, <2>2
    <3>2. \A j \in fits : Precedes(s.locs, m, j)
      BY <1>5, <1>8, <1>9, <1>10, <2>2, <3>1
    <3>3. got = s.locs[m]
      BY <1>4, <2>2, <3>1
    <3> QED
      BY <1>8, <3>2, <3>3
  <2>3. CASE Found(ex, We) = 0 /\ Found(rx, Wr) = 0
    <3>1. Fe = {} /\ Fr = {} /\ Fp # {}
      BY <1>5, <1>6, <1>8, <1>12, <2>3
    <3>2. Found(pf, Wp) # 0
      BY <1>7, <3>1
    <3>3. PICK m \in Fp : pf[Found(pf, Wp)] = s.locs[m] /\ \A j \in Fp : Ahead(s.locs, m, j)
      BY <1>7, <3>2
    <3>4. \A j \in fits : Precedes(s.locs, m, j)
      BY <1>8, <1>9, <1>10, <3>1, <3>3
    <3>5. got = s.locs[m]
      BY <1>4, <2>3, <3>2, <3>3
    <3> QED
      BY <1>8, <3>4, <3>5
  <2> QED
    BY <2>1, <2>2, <2>3
<1> QED
  BY <1>11, <1>12 DEF fits, got

\* The rules leave no choice.
LEMMA OnePrecedes ==
  ASSUME NEW S, NEW locs \in Seq(S), NEW i \in DOMAIN locs, NEW j \in DOMAIN locs,
         \A l \in S : l.kind \in {"exact", "regex", "prefix"} /\ Len(l.path) \in Nat,
         Precedes(locs, i, j), Precedes(locs, j, i)
  PROVE  i = j
<1>1. Len(locs[i].path) \in Nat /\ Len(locs[j].path) \in Nat /\ i \in Nat /\ j \in Nat
  OBVIOUS
<1>2. Ahead(locs, i, j) /\ Ahead(locs, j, i) => i = j
  BY <1>1 DEF Ahead
<1> QED
  BY <1>1, <1>2, PrecedesMeans

\* The blocks of an address that have the name of the host.
NamedBlocks(servers, a, host) ==
  {i \in BlocksOf(servers, a) : /\ host # None /\ servers[i].name # None
                                /\ LowerCase[servers[i].name] = LowerCase[host[1]]}

\* pick_state finds the virtual host of the block that the file names first.
LEMMA PickSpec ==
  ASSUME NEW S, NEW servers \in Seq(S), NEW a, \E i \in DOMAIN servers : servers[i].addr = a,
         NEW host
  PROVE  \E i \in BlocksOf(servers, a) :
           /\ PickState(Listener(servers, a), host) = VirtualHost(servers[i], servers)
           /\ LET of == IF NamedBlocks(servers, a, host) = {} THEN BlocksOf(servers, a)
                        ELSE NamedBlocks(servers, a, host)
              IN  i \in of /\ \A j \in of : i <= j
<1> DEFINE B == BlocksOf(servers, a)
<1> DEFINE N == NamedBlocks(servers, a, host)
<1> DEFINE group == Group(servers, a)
<1> DEFINE hosts == Listener(servers, a).vhosts
<1>1. /\ group \in Seq(S) /\ Len(group) = Cardinality(B) /\ Len(group) \in Nat \ {0}
      /\ DOMAIN group = 1..Len(group)
      /\ \E e : Lists(e, B) /\ \A k \in 1..Len(group) : group[k] = servers[e[k]]
  BY GroupSpec
<1>2. PICK e : Lists(e, B) /\ \A k \in 1..Len(group) : group[k] = servers[e[k]]
  BY <1>1
<1>3. /\ \A k \in DOMAIN group : e[k] \in B /\ group[k] = servers[e[k]]
      /\ \A i \in B : \E k \in DOMAIN group : e[k] = i
      /\ \A k, m \in DOMAIN group : k <= m <=> e[k] <= e[m]
  BY <1>1, <1>2 DEF Lists
<1>4. hosts = [k \in DOMAIN group |-> VirtualHost(group[k], servers)]
  BY DEF Listener
<1>5. PICK hs : hs = hosts
  OBVIOUS
<1>6. DOMAIN hs = DOMAIN group /\ Len(hs) = Len(group)
      /\ \A k \in DOMAIN group : hs[k] = VirtualHost(servers[e[k]], servers)
  <2> HIDE DEF group, hosts
  <2>1. DOMAIN hs = 1..Len(group) /\ Len(hs) = Len(group)
    BY <1>1, <1>4, <1>5
  <2> QED
    BY <1>1, <1>3, <1>4, <1>5, <2>1
<1> DEFINE K == {k \in 1..Len(hs) : /\ host # None /\ hs[k].name # None
                                    /\ LowerCase[hs[k].name] = LowerCase[host[1]]}
<1> DEFINE got == PickState(Listener(servers, a), host)
<1>7. got = hs[IF First(K) = 0 THEN 1 ELSE First(K)]
  BY <1>5 DEF PickState, SelectInSeq, First
<1>8. \A k : k \in K <=> k \in DOMAIN group /\ e[k] \in N
  <2>1. \A k \in DOMAIN group : hs[k].name = servers[e[k]].name
    BY <1>6 DEF VirtualHost
  <2>2. \A k \in DOMAIN group :
          (/\ host # None /\ hs[k].name # None
           /\ LowerCase[hs[k].name] = LowerCase[host[1]]) <=> e[k] \in N
    BY <1>3, <2>1 DEF NamedBlocks
  <2> QED
    BY <1>1, <1>6, <2>2
<1>9. K \in SUBSET (Nat \ {0})
  BY <1>1, <1>8
<1>10. N \subseteq B
  BY DEF NamedBlocks
<1> HIDE DEF K, N, B, group, got, hosts
<1>11. /\ K = {} <=> First(K) = 0
       /\ K # {} => First(K) \in K /\ \A i \in K : First(K) <= i
  BY <1>9, FirstIs
<1>12. K = {} <=> N = {}
  BY <1>3, <1>8, <1>10
<1>13. CASE N = {}
  <2>1. 1 \in DOMAIN group /\ \A k \in DOMAIN group : 1 <= k
    BY <1>1
  <2>2. e[1] \in B /\ \A j \in B : e[1] <= j
    BY <1>3, <2>1
  <2>3. got = VirtualHost(servers[e[1]], servers)
    BY <1>6, <1>7, <1>11, <1>12, <1>13, <2>1
  <2> QED
    BY <1>13, <2>2, <2>3 DEF B, N, got
<1>14. CASE N # {}
  <2>1. PICK n : n = First(K)
    OBVIOUS
  <2>2. n \in K /\ (\A i \in K : n <= i) /\ n # 0
    BY <1>11, <1>12, <1>14, <2>1
  <2>3. n \in DOMAIN group /\ e[n] \in N /\ e[n] \in B
    BY <1>8, <1>10, <2>2
  <2>4. ASSUME NEW j \in N PROVE e[n] <= j
    <3>1. PICK k \in DOMAIN group : e[k] = j
      BY <1>3, <1>10
    <3> QED
      BY <1>3, <1>8, <2>2, <2>3, <3>1
  <2>5. got = VirtualHost(servers[e[n]], servers)
    BY <1>6, <1>7, <2>1, <2>2, <2>3
  <2> QED
    BY <1>14, <2>3, <2>4, <2>5 DEF B, N, got
<1> QED
  BY <1>13, <1>14

\* The declarative choice of a server: the first block of the address with the name
\* or, if no block has it, the first block of the address.
LEMMA ServerForIs ==
  ASSUME NEW S, NEW servers \in Seq(S), NEW at, NEW i \in BlocksOf(servers, at[1]),
         LET of == IF NamedBlocks(servers, at[1], at[2]) = {} THEN BlocksOf(servers, at[1])
                   ELSE NamedBlocks(servers, at[1], at[2])
         IN  i \in of /\ \A j \in of : i <= j
  PROVE  ServerFor(servers, at) = servers[i]
<1> DEFINE B == BlocksOf(servers, at[1])
<1> DEFINE N == NamedBlocks(servers, at[1], at[2])
<1>1. PICK of : of = IF N = {} THEN B ELSE N
  OBVIOUS
<1>2. i \in of /\ \A j \in of : i <= j
  BY <1>1
<1>3. of \subseteq Nat
  BY <1>1 DEF NamedBlocks, BlocksOf
<1>4. ServerFor(servers, at) = servers[CHOOSE k \in of : \A j \in of : k <= j]
  BY <1>1 DEF ServerFor, NamedBlocks, BlocksOf
<1>5. PICK c : c = CHOOSE k \in of : \A j \in of : k <= j
  OBVIOUS
<1>6. c \in of /\ \A j \in of : c <= j
  BY <1>2, <1>5
<1>7. c = i
  BY <1>2, <1>3, <1>6
<1> QED
  BY <1>4, <1>5, <1>7

\* Grouping, sorting and searching give what the declarative reading gives.
LEMMA BuiltRoutes ==
  ASSUME LoadInv, Accepted
  PROVE  RouteRight
<1> SUFFICES ASSUME phase = "built", NEW r \in Requests, NEW n \in DOMAIN runtime.listeners,
                    runtime.listeners[n].addr = r.at[1]
             PROVE  LET locs == ServerFor(Servers(tree), r.at).locs
                        fits == {i \in DOMAIN locs : Applies(locs[i], r.path)}
                        got  == Route(PickState(runtime.listeners[n], r.at[2]), r.path)
                    IN  IF fits = {} THEN got = None
                        ELSE got = locs[CHOOSE i \in fits : \A j \in fits : Precedes(locs, i, j)]
  BY DEF RouteRight
<1>1. PICK D : Closed(D) /\ tree \in Seq(D)
  BY ClosedDirectives DEF LoadInv, Trees
<1>2. ConfigOk(tree) /\ RuntimeOk(tree) /\ runtime = Runtime(tree)
  BY DEF Accepted
<1>3. PICK servers : servers = Servers(tree)
  OBVIOUS
<1>4. /\ servers \in Seq(GoodBlocks(D))
      /\ runtime.listeners[n] = Listener(servers, r.at[1])
      /\ \E i \in DOMAIN servers : servers[i].addr = r.at[1]
  BY <1>1, <1>2, <1>3, RuntimeSpec
<1>5. PICK b \in BlocksOf(servers, r.at[1]) :
           /\ PickState(Listener(servers, r.at[1]), r.at[2]) = VirtualHost(servers[b], servers)
           /\ LET of == IF NamedBlocks(servers, r.at[1], r.at[2]) = {} THEN BlocksOf(servers, r.at[1])
                        ELSE NamedBlocks(servers, r.at[1], r.at[2])
              IN  b \in of /\ \A j \in of : b <= j
  BY <1>4, PickSpec
<1>6. ServerFor(servers, r.at) = servers[b]
  BY <1>4, <1>5, ServerForIs
<1>7. PICK s : s = servers[b]
  OBVIOUS
<1>8. s \in GoodBlocks(D)
  <2>1. b \in DOMAIN servers
    BY DEF BlocksOf
  <2> QED
    BY <1>4, <1>7, <2>1
<1>9. s.locs \in Seq(GoodLocations(D))
  BY <1>1, <1>8, ServerGood
<1>10. \A l \in GoodLocations(D) : l.kind \in {"exact", "regex", "prefix"} /\ Len(l.path) \in Nat
  BY <1>1, LocationGood
<1> DEFINE fits == Fits(s.locs, r.path)
<1> DEFINE got == Route(VirtualHost(s, servers), r.path)
<1>11. /\ fits = {} => got = None
       /\ fits # {} => \E m \in fits : got = s.locs[m] /\ \A j \in fits : Precedes(s.locs, m, j)
  BY <1>9, <1>10, RouteSpec
<1>12. fits \subseteq DOMAIN s.locs
  BY DEF Fits
<1>13. got = Route(PickState(runtime.listeners[n], r.at[2]), r.path)
  BY <1>4, <1>5, <1>7
<1> HIDE DEF fits, got
<1>14. ASSUME fits # {}
       PROVE  got = s.locs[CHOOSE i \in fits : \A j \in fits : Precedes(s.locs, i, j)]
  <2>1. PICK m \in fits : got = s.locs[m] /\ \A j \in fits : Precedes(s.locs, m, j)
    BY <1>11, <1>14
  <2>2. PICK c : c = CHOOSE i \in fits : \A j \in fits : Precedes(s.locs, i, j)
    OBVIOUS
  <2>3. c \in fits /\ \A j \in fits : Precedes(s.locs, c, j)
    BY <2>1, <2>2
  <2>4. c = m
    BY <1>9, <1>10, <1>12, <2>1, <2>3, OnePrecedes
  <2> QED
    BY <2>1, <2>2, <2>4
<1> QED
  BY <1>3, <1>6, <1>7, <1>11, <1>13, <1>14 DEF fits, Fits

\* Whatever the order of blocks and locations in the file, a request is answered by
\* the block and the location that the rules name (app.rs 58-70, 98-123, 746-764):
\* grouping, stable sorting and linear search lose none and swap none.
THEOREM RouteCorrect == SiteSpec => []RouteRight
BY AcceptedTracked, BuiltRoutes, PTL

-----------------------------------------------------------------------------
(***************************************************************************)
(* Requests for files: types                                               *)
(***************************************************************************)

\* A request is routed to an accepted location or to none.
LEMMA RouteServed ==
  ASSUME NEW D, NEW rt, Served(rt, D), NEW n \in DOMAIN rt.listeners, NEW host, NEW path
  PROVE  Route(PickState(rt.listeners[n], host), path) \in GoodLocations(D) \cup {None}
<1> DEFINE S == GoodLocations(D)
<1> DEFINE hosts == rt.listeners[n].vhosts
<1>1. /\ Len(hosts) \in Nat \ {0} /\ DOMAIN hosts = 1..Len(hosts)
      /\ \A k \in DOMAIN hosts : /\ hosts[k].exact \in Seq(S) /\ hosts[k].regex \in Seq(S)
                                 /\ hosts[k].prefix \in Seq(S)
  BY DEF Served
<1> DEFINE K == {k \in 1..Len(hosts) : /\ host # None /\ hosts[k].name # None
                                       /\ LowerCase[hosts[k].name] = LowerCase[host[1]]}
<1>2. PICK v : v = PickState(rt.listeners[n], host)
  OBVIOUS
<1>3. v = hosts[IF First(K) = 0 THEN 1 ELSE First(K)]
  BY <1>2 DEF PickState, SelectInSeq, First
<1>4. K \in SUBSET (Nat \ {0}) /\ K \subseteq DOMAIN hosts
  BY <1>1
<1> HIDE DEF K, S
<1>5. \E k \in DOMAIN hosts : v = hosts[k]
  <2>1. First(K) # 0 => First(K) \in DOMAIN hosts
    BY <1>4, FirstIs
  <2>2. 1 \in DOMAIN hosts
    BY <1>1
  <2> QED
    BY <1>3, <2>1, <2>2
<1>6. v.exact \in Seq(S) /\ v.regex \in Seq(S) /\ v.prefix \in Seq(S)
  BY <1>1, <1>5
<1> DEFINE E == {k \in 1..Len(v.exact) : v.exact[k].path = path}
<1> DEFINE R == {k \in 1..Len(v.regex) : path \in Regex[v.regex[k].pattern]}
<1> DEFINE P == {k \in 1..Len(v.prefix) : v.prefix[k].path = <<"/">> \/ IsPrefix(v.prefix[k].path, path)}
<1>7. Route(v, path) = CASE First(E) # 0  -> v.exact[First(E)]
                         [] First(E) = 0 /\ First(R) # 0 -> v.regex[First(R)]
                         [] First(E) = 0 /\ First(R) = 0 /\ First(P) # 0 -> v.prefix[First(P)]
                         [] OTHER -> None
  BY DEF Route, SelectInSeq, First
<1>8. /\ E \in SUBSET (Nat \ {0}) /\ E \subseteq DOMAIN v.exact
      /\ R \in SUBSET (Nat \ {0}) /\ R \subseteq DOMAIN v.regex
      /\ P \in SUBSET (Nat \ {0}) /\ P \subseteq DOMAIN v.prefix
  BY <1>6
<1> HIDE DEF E, R, P
<1>9. /\ First(E) # 0 => First(E) \in DOMAIN v.exact
      /\ First(R) # 0 => First(R) \in DOMAIN v.regex
      /\ First(P) # 0 => First(P) \in DOMAIN v.prefix
  BY <1>8, FirstIs
<1>10. /\ First(E) # 0 => v.exact[First(E)] \in S
       /\ First(R) # 0 => v.regex[First(R)] \in S
       /\ First(P) # 0 => v.prefix[First(P)] \in S
  BY <1>6, <1>9
<1>11. Route(v, path) \in S \cup {None}
  BY <1>7, <1>10
<1> QED
  BY <1>2, <1>11 DEF S

\* The file system: only names that may be files are files, and what was a file all
\* the time is one.
FsInv ==
  /\ DOMAIN fsys = DOMAIN Tree0
  /\ \A n \in DOMAIN fsys : /\ fsys[n].kind \in NodeKinds
                            /\ fsys[n].size \in Nat /\ fsys[n].ver \in Nat
                            /\ IsFile(fsys[n]) => n \in FileNames
  /\ clock \in 1..MaxClock /\ edits \in 0..MaxEdits
  /\ \A n \in steady : n \in DOMAIN fsys /\ IsFile(fsys[n])

\* The loop of try_files stays within its entries; a request in progress has no
\* answer yet.
ReqInv ==
  /\ pc \in {"idle", "probe", "stat", "index", "list", "read_range", "read"}
  /\ asked \in 0..MaxRequests
  /\ req \in Requests \cup {NoRequest}
  /\ Len(place.entries) \in Nat /\ DOMAIN place.entries = 1..Len(place.entries)
  /\ entry \in 0..Len(place.entries)
  /\ pc # "idle" /\ place.entries # << >> => entry # 0
  /\ pc = "probe" => place.entries # << >>
  /\ pc # "idle" => answer.status = 0
  /\ answer.status \in {0, 200, 206, 304, 403, 404, 416, 500, Configured}

LEMMA WorldKeeps ==
  ASSUME FsInv, IsFiniteSet(stamps), World
  PROVE  FsInv'
<1>1. CASE Tick
  BY <1>1, StaticFilesAssumption DEF Tick, FsInv
<1>2. ASSUME NEW n \in Mutable, Write(n)
      PROVE  FsInv'
  <2>1. n \in DOMAIN fsys /\ n \in FileNames
    BY StaticFilesAssumption DEF FsInv, FileNames
  <2>2. PICK s \in NewSizes :
          fsys' = [fsys EXCEPT ![n] = [kind |-> "file", size |-> s, mtime |-> clock,
                                       ver |-> 1 + Cardinality(stamps)]]
    BY <1>2 DEF Write
  <2>3. 1 + Cardinality(stamps) \in Nat /\ s \in Nat
    BY FS_CardinalityType, StaticFilesAssumption
  <2>4. DOMAIN fsys' = DOMAIN fsys /\ (\A m \in DOMAIN fsys : m # n => fsys'[m] = fsys[m])
        /\ fsys'[n].kind = "file" /\ fsys'[n].size = s /\ fsys'[n].ver = 1 + Cardinality(stamps)
    BY <2>1, <2>2
  <2>5. \A m \in DOMAIN fsys : /\ fsys'[m].kind \in NodeKinds
                               /\ fsys'[m].size \in Nat /\ fsys'[m].ver \in Nat
                               /\ IsFile(fsys'[m]) => m \in FileNames
    BY <2>1, <2>3, <2>4 DEF FsInv, NodeKinds, IsFile
  <2>6. \A m \in steady : m \in DOMAIN fsys /\ IsFile(fsys'[m])
    BY <2>4 DEF FsInv, IsFile
  <2>7. clock' = clock /\ steady' = steady /\ edits' = edits + 1 /\ edits < MaxEdits
    BY <1>2 DEF Write
  <2> QED
    BY <2>4, <2>5, <2>6, <2>7, StaticFilesAssumption DEF FsInv
<1>3. ASSUME NEW n \in Mutable, Delete(n)
      PROVE  FsInv'
  <2>1. n \in DOMAIN fsys
    BY StaticFilesAssumption DEF FsInv
  <2>2. fsys' = [fsys EXCEPT ![n] = Absent] /\ steady' = steady \ {n}
        /\ clock' = clock /\ edits' = edits + 1 /\ edits < MaxEdits
    BY <1>3 DEF Delete
  <2>3. DOMAIN fsys' = DOMAIN fsys /\ (\A m \in DOMAIN fsys : m # n => fsys'[m] = fsys[m])
        /\ fsys'[n].kind = "absent" /\ fsys'[n].size = 0 /\ fsys'[n].ver = 0
    BY <2>1, <2>2 DEF Absent
  <2>4. \A m \in DOMAIN fsys : /\ fsys'[m].kind \in NodeKinds
                               /\ fsys'[m].size \in Nat /\ fsys'[m].ver \in Nat
                               /\ IsFile(fsys'[m]) => m \in FileNames
    BY <2>1, <2>3 DEF FsInv, NodeKinds, IsFile
  <2>5. \A m \in steady' : m \in DOMAIN fsys /\ IsFile(fsys'[m])
    BY <2>2, <2>3 DEF FsInv
  <2> QED
    BY <2>2, <2>3, <2>4, <2>5, StaticFilesAssumption DEF FsInv
<1> QED
  BY <1>1, <1>2, <1>3 DEF World

\* What fs::metadata returns: the node, or nothing that is a file or a directory.
LEMMA MetadataIs ==
  ASSUME FsInv, NEW t
  PROVE  LET m == Metadata(t)
         IN  /\ m.size \in Nat /\ m.kind \in NodeKinds
             /\ \/ t.name \in DOMAIN fsys /\ m = fsys[t.name]
                \/ m.kind \in {"absent", "denied"} /\ m.mtime = NoTime
             /\ t.name \in steady /\ ~t.slash => IsFile(m)
<1> DEFINE node == IF t.name \in DOMAIN fsys THEN fsys[t.name] ELSE Absent
<1>1. Metadata(t) = IF BelowFile(t.name) \/ (t.slash /\ IsFile(node))
                    THEN [Absent EXCEPT !.kind = "denied"] ELSE node
  BY DEF Metadata
<1>2. [Absent EXCEPT !.kind = "denied"] = [kind |-> "denied", size |-> 0, mtime |-> NoTime, ver |-> 0]
  BY DEF Absent
<1>3. t.name \in steady => ~BelowFile(t.name)
  <2> SUFFICES ASSUME t.name \in steady, NEW m \in DOMAIN fsys, IsFile(fsys[m]), Under(t.name, m)
               PROVE  FALSE
    BY DEF BelowFile
  <2>1. t.name \in FileNames /\ m \in FileNames
    BY DEF FsInv
  <2> QED
    BY <2>1, StaticFilesAssumption
<1>4. CASE BelowFile(t.name) \/ (t.slash /\ IsFile(node))
  <2>1. Metadata(t) = [kind |-> "denied", size |-> 0, mtime |-> NoTime, ver |-> 0]
    BY <1>1, <1>2, <1>4
  <2> QED
    BY <1>3, <1>4, <2>1 DEF NodeKinds
<1>5. CASE ~(BelowFile(t.name) \/ (t.slash /\ IsFile(node)))
  <2>1. Metadata(t) = node
    BY <1>1, <1>5
  <2>2. CASE t.name \in DOMAIN fsys
    BY <2>1, <2>2 DEF FsInv
  <2>3. CASE t.name \notin DOMAIN fsys
    BY <2>1, <2>3 DEF FsInv, Absent, NodeKinds
  <2> QED
    BY <2>2, <2>3
<1> QED
  BY <1>4, <1>5

-----------------------------------------------------------------------------
(***************************************************************************)
(* Requests for files: versions                                            *)
(***************************************************************************)

\* Every version with a time is stamped, a written name holds a version of its own,
\* and the next version is a new one.
StampInv ==
  /\ IsFiniteSet(stamps)
  /\ \A x \in stamps : x.ver \in Nat /\ x.ver <= Cardinality(stamps)
  /\ \A n \in DOMAIN fsys : fsys[n].mtime # NoTime => Stamp(fsys[n]) \in stamps
  /\ \A m \in Mutable, n \in DOMAIN fsys :
       (m # n /\ fsys[m].mtime # NoTime /\ fsys[n].mtime # NoTime) => fsys[m].ver # fsys[n].ver

\* No name holds version v any more; name n holds it.
Gone(v) == \A n \in DOMAIN fsys : fsys[n].mtime # NoTime => fsys[n].ver # v
Holds(n, v) == n \in DOMAIN fsys /\ fsys[n].mtime # NoTime /\ fsys[n].ver = v

\* At the start every version that exists is stamped.
LEMMA StampInitially ==
  ASSUME StaticInit
  PROVE  FsInv /\ StampInv
<1> DEFINE T == {m \in DOMAIN Tree0 : Tree0[m].mtime # NoTime}
<1>1. /\ fsys = Tree0 /\ clock = 1 /\ edits = 0 /\ stamps = Stamps0 /\ steady = {}
  BY DEF StaticInit
<1>2. Stamps0 = {Stamp(Tree0[n]) : n \in T}
  BY DEF Stamps0
<1>3. IsFiniteSet(T)
  BY FS_Subset, StaticFilesAssumption
<1>4. IsFiniteSet(Stamps0)
  <2> DEFINE f == [n \in T |-> Stamp(Tree0[n])]
  <2>1. f \in Surjection(T, Stamps0)
    BY <1>2 DEF Surjection
  <2> QED
    BY <1>3, <2>1, FS_Surjection
<1>5. FsInv
  BY <1>1, StaticFilesAssumption DEF FsInv, FileNames
<1>6. \A x \in Stamps0 : x.ver \in Nat /\ x.ver <= Cardinality(Stamps0)
  <2> SUFFICES ASSUME NEW n \in T PROVE Stamp(Tree0[n]).ver \in Nat
                                        /\ Stamp(Tree0[n]).ver <= Cardinality(Stamps0)
    BY <1>2
  <2>1. Stamp(Tree0[n]).ver = Tree0[n].ver
    BY DEF Stamp
  <2> QED
    BY <2>1, StaticFilesAssumption
<1>7. \A n \in DOMAIN Tree0 : Tree0[n].mtime # NoTime => Stamp(Tree0[n]) \in Stamps0
  BY <1>2
<1>8. StampInv
  BY <1>1, <1>4, <1>6, <1>7, StaticFilesAssumption DEF StampInv
<1> QED
  BY <1>5, <1>8

\* A write gives its name a new version.
LEMMA WriteIs ==
  ASSUME FsInv, StampInv, NEW n \in Mutable, Write(n)
  PROVE  /\ n \in DOMAIN fsys /\ DOMAIN fsys' = DOMAIN fsys
         /\ \A m \in DOMAIN fsys : m # n => fsys'[m] = fsys[m]
         /\ stamps' = stamps \cup {Stamp(fsys'[n])}
         /\ fsys'[n].ver = 1 + Cardinality(stamps) /\ Cardinality(stamps) \in Nat
         /\ \A x \in stamps : x.ver # fsys'[n].ver
<1>1. n \in DOMAIN fsys
  BY StaticFilesAssumption DEF FsInv
<1>2. PICK s \in NewSizes :
        LET new == [kind |-> "file", size |-> s, mtime |-> clock, ver |-> 1 + Cardinality(stamps)]
        IN  fsys' = [fsys EXCEPT ![n] = new] /\ stamps' = stamps \cup {Stamp(new)}
  BY DEF Write
<1>3. PICK new : /\ new = [kind |-> "file", size |-> s, mtime |-> clock, ver |-> 1 + Cardinality(stamps)]
                 /\ fsys' = [fsys EXCEPT ![n] = new] /\ stamps' = stamps \cup {Stamp(new)}
  BY <1>2
<1>4. fsys'[n] = new /\ DOMAIN fsys' = DOMAIN fsys /\ \A m \in DOMAIN fsys : m # n => fsys'[m] = fsys[m]
  BY <1>1, <1>3
<1>5. new.ver = 1 + Cardinality(stamps)
  BY <1>3
<1>6. Cardinality(stamps) \in Nat
  BY FS_CardinalityType DEF StampInv
<1>7. \A x \in stamps : x.ver \in Nat /\ x.ver <= Cardinality(stamps)
  BY DEF StampInv
<1>8. \A x \in stamps : x.ver # new.ver
  BY <1>5, <1>6, <1>7
<1> QED
  BY <1>1, <1>3, <1>4, <1>5, <1>6, <1>8

\* A deletion leaves the other nodes and the record of versions alone.
LEMMA DeleteIs ==
  ASSUME FsInv, NEW n \in Mutable, Delete(n)
  PROVE  /\ n \in DOMAIN fsys /\ DOMAIN fsys' = DOMAIN fsys
         /\ \A m \in DOMAIN fsys : m # n => fsys'[m] = fsys[m]
         /\ fsys'[n].mtime = NoTime /\ stamps' = stamps
<1>1. n \in DOMAIN fsys
  BY StaticFilesAssumption DEF FsInv
<1>2. fsys' = [fsys EXCEPT ![n] = Absent] /\ stamps' = stamps
  BY DEF Delete
<1> QED
  BY <1>1, <1>2 DEF Absent

\* Whatever is written or deleted, versions stay stamped, and apart from each other.
LEMMA StampsKept ==
  ASSUME FsInv, StampInv, World
  PROVE  StampInv'
<1>1. CASE Tick
  BY <1>1 DEF Tick, StampInv
<1>2. ASSUME NEW n \in Mutable, Write(n)
      PROVE  StampInv'
  <2> DEFINE x == Stamp(fsys'[n])
  <2>1. /\ n \in DOMAIN fsys /\ DOMAIN fsys' = DOMAIN fsys
        /\ \A m \in DOMAIN fsys : m # n => fsys'[m] = fsys[m]
        /\ stamps' = stamps \cup {x}
        /\ fsys'[n].ver = 1 + Cardinality(stamps) /\ Cardinality(stamps) \in Nat
        /\ \A y \in stamps : y.ver # fsys'[n].ver
    BY <1>2, WriteIs
  <2>2. x.ver = fsys'[n].ver
    BY DEF Stamp
  <2> HIDE DEF x
  <2>3. x \notin stamps
    BY <2>1, <2>2
  <2>4. IsFiniteSet(stamps') /\ Cardinality(stamps') = Cardinality(stamps) + 1
    BY <2>1, <2>3, FS_AddElement DEF StampInv
  <2>5. \A y \in stamps' : y.ver \in Nat /\ y.ver <= Cardinality(stamps')
    BY <2>1, <2>2, <2>4 DEF StampInv
  <2>6. \A m \in DOMAIN fsys' : fsys'[m].mtime # NoTime => Stamp(fsys'[m]) \in stamps'
    BY <2>1 DEF StampInv, x
  <2>7. ASSUME NEW m \in Mutable, NEW k \in DOMAIN fsys', m # k, fsys'[m].mtime # NoTime,
               fsys'[k].mtime # NoTime
        PROVE  fsys'[m].ver # fsys'[k].ver
    <3>1. m \in DOMAIN fsys /\ k \in DOMAIN fsys
      BY <2>1, StaticFilesAssumption DEF FsInv
    <3>2. \A j \in DOMAIN fsys : fsys[j].mtime # NoTime => fsys[j].ver # fsys'[n].ver
      <4> SUFFICES ASSUME NEW j \in DOMAIN fsys, fsys[j].mtime # NoTime
                   PROVE  fsys[j].ver # fsys'[n].ver
        OBVIOUS
      <4>1. Stamp(fsys[j]) \in stamps /\ Stamp(fsys[j]).ver = fsys[j].ver
        BY DEF StampInv, Stamp
      <4> QED
        BY <2>1, <4>1
    <3>3. CASE m = n
      BY <2>1, <2>7, <3>1, <3>2, <3>3
    <3>4. CASE k = n
      BY <2>1, <2>7, <3>1, <3>2, <3>4
    <3>5. CASE m # n /\ k # n
      BY <2>1, <2>7, <3>1, <3>5 DEF StampInv
    <3> QED
      BY <3>3, <3>4, <3>5
  <2> QED
    BY <2>4, <2>5, <2>6, <2>7 DEF StampInv
<1>3. ASSUME NEW n \in Mutable, Delete(n)
      PROVE  StampInv'
  <2>1. /\ n \in DOMAIN fsys /\ DOMAIN fsys' = DOMAIN fsys
        /\ \A m \in DOMAIN fsys : m # n => fsys'[m] = fsys[m]
        /\ fsys'[n].mtime = NoTime /\ stamps' = stamps
    BY <1>3, DeleteIs
  <2>2. \A m \in Mutable : m \in DOMAIN fsys
    BY StaticFilesAssumption DEF FsInv
  <2>3. \A m \in DOMAIN fsys' : fsys'[m].mtime # NoTime => Stamp(fsys'[m]) \in stamps'
    BY <2>1 DEF StampInv
  <2>4. \A m \in Mutable, k \in DOMAIN fsys' :
          (m # k /\ fsys'[m].mtime # NoTime /\ fsys'[k].mtime # NoTime) => fsys'[m].ver # fsys'[k].ver
    BY <2>1, <2>2 DEF StampInv
  <2> QED
    BY <2>1, <2>3, <2>4 DEF StampInv
<1> QED
  BY <1>1, <1>2, <1>3 DEF World

\* A version that is gone does not come back, and one that leaves its name is gone.
LEMMA VersionsLeave ==
  ASSUME FsInv, StampInv, World, NEW x \in stamps
  PROVE  /\ x \in stamps'
         /\ Gone(x.ver) => Gone(x.ver)'
         /\ \A n : Holds(n, x.ver) => Holds(n, x.ver)' \/ Gone(x.ver)'
<1>1. CASE Tick
  BY <1>1 DEF Tick, Gone, Holds
<1>2. ASSUME NEW n \in Mutable, Write(n) \/ Delete(n)
      PROVE  /\ x \in stamps'
             /\ Gone(x.ver) => Gone(x.ver)'
             /\ \A k : Holds(k, x.ver) => Holds(k, x.ver)' \/ Gone(x.ver)'
  <2>1. /\ n \in DOMAIN fsys /\ DOMAIN fsys' = DOMAIN fsys /\ x \in stamps'
        /\ \A m \in DOMAIN fsys : m # n => fsys'[m] = fsys[m]
        /\ fsys'[n].mtime = NoTime \/ fsys'[n].ver # x.ver
    BY <1>2, WriteIs, DeleteIs
  <2>2. Gone(x.ver) => Gone(x.ver)'
    BY <2>1 DEF Gone
  <2>3. ASSUME NEW k, Holds(k, x.ver)
        PROVE  Holds(k, x.ver)' \/ Gone(x.ver)'
    <3>1. CASE k # n
      BY <2>1, <2>3, <3>1 DEF Holds
    <3>2. CASE k = n
      <4>1. \A m \in DOMAIN fsys : m # n /\ fsys[m].mtime # NoTime => fsys[m].ver # x.ver
        BY <2>3, <3>2 DEF Holds, StampInv
      <4> QED
        BY <2>1, <4>1 DEF Gone
    <3> QED
      BY <3>1, <3>2
  <2> QED
    BY <2>1, <2>2, <2>3
<1> QED
  BY <1>1, <1>2 DEF World

-----------------------------------------------------------------------------
(***************************************************************************)
(* Requests for files: what the steps do                                   *)
(***************************************************************************)

\* A response that is not a whole file leaves the client's copy alone.
LEMMA RespondPlain ==
  ASSUME NEW r, NEW status, NEW e, Respond(r, Plain(status, e))
  PROVE  /\ pc' = "idle" /\ copy' = copy
         /\ answer'.status = status /\ answer'.entry = e /\ answer'.ver = 0
<1>1. /\ answer' = Plain(status, e) /\ pc' = "idle"
      /\ Plain(status, e).tag # NoTime \/ copy' = copy
  BY DEF Respond
<1> QED
  BY <1>1 DEF Plain

\* serve refuses an unsafe path or goes on to the metadata of its target.
LEMMA EnterServeIs ==
  ASSUME NEW r, NEW dir, NEW path, NEW prefix, NEW e, EnterServe(r, dir, path, prefix, e)
  PROVE  /\ copy' = copy
         /\ \/ /\ pc' = "idle" /\ answer'.status = 403 /\ answer'.entry = e
               /\ Unsafe(Relative(path, prefix))
            \/ /\ pc' = "stat" /\ target' = Target(dir, Relative(path, prefix))
               /\ answer'.status = 0 /\ ~Unsafe(Relative(path, prefix))
<1>1. CASE Unsafe(Relative(path, prefix))
  BY <1>1, RespondPlain DEF EnterServe
<1>2. CASE ~Unsafe(Relative(path, prefix))
  <2>1. pc' = "stat" /\ target' = Target(dir, Relative(path, prefix)) /\ answer' = Plain(0, 0)
        /\ copy' = copy
    BY <1>2 DEF EnterServe
  <2> QED
    BY <1>2, <2>1 DEF Plain
<1> QED
  BY <1>1, <1>2

\* serve from the metadata on answers, or goes on to read.
LEMMA DecideIs ==
  ASSUME NEW t, NEW m, Decide(t, m)
  PROVE  LET span == ParseRange(req.range, m.size)
         IN  /\ copy' = copy
             /\ \/ /\ pc' = "idle" /\ answer'.entry = entry
                   /\ \/ answer'.status = 304 /\ Revalidates(ETag(m)) /\ answer'.ver = m.ver
                      \/ /\ answer'.status = 206 /\ span # << >> /\ req.method = "HEAD"
                         /\ answer'.from = span[1] /\ answer'.to = span[2] /\ answer'.size = m.size
                      \/ /\ answer'.status = 416 /\ span = << >> /\ ByteRange(req.range)
                         /\ answer'.size = m.size
                      \/ answer'.status = 200 /\ ~ByteRange(req.range)
                \/ /\ pc' \in {"read", "read_range"} /\ target' = t /\ meta' = m /\ answer' = answer
                   /\ pc' = "read_range" => span # << >> /\ req.method # "HEAD"
                   /\ pc' = "read" => ~ByteRange(req.range)
<1> DEFINE span == ParseRange(req.range, m.size)
<1> DEFINE tag == ETag(m)
<1> DEFINE whole == [Plain(200, entry) EXCEPT !.tag = tag, !.ver = m.ver, !.size = m.size]
<1>1. whole = [status |-> 200, entry |-> entry, tag |-> tag, ver |-> m.ver, from |-> 0, to |-> 0,
               size |-> m.size, len |-> 0]
  <2> HIDE DEF tag
  <2>1. PICK p : p = Plain(200, entry)
    OBVIOUS
  <2>2. PICK w : w = [p EXCEPT !.tag = tag, !.ver = m.ver, !.size = m.size]
    OBVIOUS
  <2>3. p = [status |-> 200, entry |-> entry, tag |-> NoTime, ver |-> 0, from |-> 0, to |-> 0,
             size |-> 0, len |-> 0]
    BY <2>1 DEF Plain
  <2>4. w = [status |-> 200, entry |-> entry, tag |-> tag, ver |-> m.ver, from |-> 0, to |-> 0,
             size |-> m.size, len |-> 0]
    BY <2>2, <2>3
  <2> QED
    BY <2>1, <2>2, <2>4
<1> DEFINE goto(l) == pc' = l /\ target' = t /\ meta' = m /\ UNCHANGED <<answer, copy>>
<1>2. CASE Revalidates(tag)
  <2>1. Respond(req, [whole EXCEPT !.status = 304])
    BY <1>2 DEF Decide
  <2>2. answer' = [whole EXCEPT !.status = 304] /\ pc' = "idle"
    BY <2>1 DEF Respond
  <2>3. answer'.status = 304 /\ answer'.ver = m.ver /\ answer'.entry = entry
    BY <1>1, <2>2, ZenonT(60)
  <2>4. copy' = copy
    BY <1>1, <2>1 DEF Respond
  <2> QED
    BY <1>2, <2>2, <2>3, <2>4
<1>3. CASE ~Revalidates(tag) /\ span # << >> /\ req.method = "HEAD"
  <2> DEFINE a == [whole EXCEPT !.status = 206, !.from = span[1], !.to = span[2]]
  <2>1. Respond(req, a)
    BY <1>3 DEF Decide
  <2>2. answer' = a /\ pc' = "idle"
    BY <2>1 DEF Respond
  <2> HIDE DEF span, tag
  <2>3. a.status = 206 /\ a.entry = entry /\ a.from = span[1] /\ a.to = span[2] /\ a.size = m.size
    BY <1>1, ZenonT(60)
  <2>4. copy' = copy
    BY <2>1, <2>3 DEF Respond
  <2> QED
    BY <1>3, <2>2, <2>3, <2>4 DEF span
<1>4. CASE ~Revalidates(tag) /\ span # << >> /\ req.method # "HEAD"
  <2>1. goto("read_range")
    BY <1>4 DEF Decide
  <2> QED
    BY <1>4, <2>1
<1>5. CASE ~Revalidates(tag) /\ span = << >> /\ ByteRange(req.range)
  <2> DEFINE a == [Plain(416, entry) EXCEPT !.size = m.size]
  <2>1. Respond(req, a)
    BY <1>5 DEF Decide
  <2>2. answer' = a /\ pc' = "idle"
    BY <2>1 DEF Respond
  <2>3. a.status = 416 /\ a.entry = entry /\ a.size = m.size
    BY DEF Plain
  <2>4. copy' = copy
    BY <2>1, <2>3 DEF Respond
  <2> QED
    BY <1>5, <2>2, <2>3, <2>4
<1>6. CASE ~Revalidates(tag) /\ span = << >> /\ ~ByteRange(req.range)
  <2>1. IF req.method = "HEAD" THEN Respond(req, whole) ELSE goto("read")
    BY <1>6 DEF Decide
  <2>2. CASE req.method = "HEAD"
    <3>1. Respond(req, whole) /\ req.method # "GET"
      BY <2>1, <2>2
    <3>2. answer' = whole /\ pc' = "idle" /\ copy' = copy
      BY <3>1 DEF Respond
    <3>3. answer'.status = 200 /\ answer'.entry = entry
      <4> HIDE DEF whole
      <4> QED
        BY <1>1, <3>2
    <3> QED
      BY <1>6, <3>2, <3>3
  <2>3. CASE req.method # "HEAD"
    BY <1>6, <2>1, <2>3
  <2> QED
    BY <2>2, <2>3
<1> QED
  BY <1>2, <1>3, <1>4, <1>5, <1>6

\* The steps of a request leave the rest alone.
LEMMA ServeLeaves ==
  ASSUME ServeStep
  PROVE  UNCHANGED <<fsVars, asked, req, place>>
BY DEF ServeStep, Probe, Stat, StatIndex, List, ReadRange, ReadAll

\* Target t is the file that entry j of the request names.
Aimed(t, j) ==
  LET rel == TrimStart(Render(place.entries[j].pieces, req.path))
  IN  ~place.entries[j].status /\ ~Unsafe(rel) /\ t = Target(place.dir, rel)

\* A candidate that has been a file since the request began is found to be one.
LEMMA CandidateFile ==
  ASSUME FsInv, NEW t, NEW j, Aimed(t, j), Candidate(j) \in steady
  PROVE  IsFile(Metadata(t))
<1> DEFINE rel == TrimStart(Render(place.entries[j].pieces, req.path))
<1>1. ~place.entries[j].status /\ ~Unsafe(rel) /\ t = Target(place.dir, rel)
  BY DEF Aimed
<1>2. Candidate(j) = IF t.slash THEN << >> ELSE t.name
  BY <1>1 DEF Candidate
<1>3. << >> \notin steady
  BY StaticFilesAssumption DEF FsInv
<1>4. ~t.slash /\ t.name \in steady
  <2>1. CASE t.slash
    BY <1>2, <1>3, <2>1
  <2>2. CASE ~t.slash
    BY <1>2, <2>2
  <2> QED
    BY <2>1, <2>2
<1> QED
  BY <1>4, MetadataIs

\* An entry that is a status, or an unsafe path, stands for no file.
LEMMA NoCandidate ==
  ASSUME FsInv, NEW j,
         \/ place.entries[j].status
         \/ Unsafe(TrimStart(Render(place.entries[j].pieces, req.path)))
  PROVE  Candidate(j) \notin steady
<1>1. Candidate(j) = << >>
  BY DEF Candidate
<1> QED
  BY <1>1, StaticFilesAssumption DEF FsInv

\* What one step of a request does: try_files steps on to its next entry ...
StepsOn ==
  /\ pc = "probe" /\ pc' = "probe" /\ entry \in 1..(Len(place.entries) - 1) /\ entry' = entry + 1
  /\ answer' = answer /\ copy' = copy
  /\ Candidate(entry) \notin steady

\* ... or enters serve with this one;
Enters ==
  /\ pc = "probe" /\ pc' = "stat" /\ entry' = entry /\ answer'.status = 0 /\ copy' = copy
  /\ Aimed(target', entry)

\* serve finds a directory, and no index in it;
LooksInside ==
  /\ \/ pc = "stat" /\ pc' = "index" /\ IsDir(Metadata(target))
     \/ pc = "index" /\ pc' = "list"
  /\ entry' = entry /\ answer' = answer /\ copy' = copy

\* it finds a file, or an index;
Decides ==
  /\ entry' = entry
  /\ \E t : /\ pc = "index" \/ (pc = "stat" /\ t = target /\ IsFile(Metadata(t)))
            /\ Decide(t, Metadata(t))

\* it refuses, with 404 only for what is absent;
Refuses ==
  /\ pc # "idle" /\ pc' = "idle" /\ entry' = entry /\ answer'.entry = entry /\ copy' = copy
  /\ answer'.status \in {403, 404, 500, Configured}
  /\ answer'.status = 404 => pc = "index" \/ (pc \in {"stat", "read"} /\ ~IsFile(Metadata(target)))

\* it sends a listing, a range or a file.
SendsListing ==
  /\ pc = "list" /\ pc' = "idle" /\ entry' = entry /\ answer'.entry = entry /\ copy' = copy
  /\ answer'.status = 200 /\ answer'.ver = 0

SendsRange ==
  LET span == ParseRange(req.range, meta.size)
  IN  /\ pc = "read_range" /\ pc' = "idle" /\ entry' = entry /\ answer'.entry = entry /\ copy' = copy
      /\ answer'.status = 206 /\ answer'.from = span[1] /\ answer'.to = span[2]
      /\ answer'.size = meta.size
      /\ answer'.len = span[2] - span[1] + 1

SendsFile ==
  /\ pc = "read" /\ pc' = "idle" /\ entry' = entry /\ answer'.entry = entry
  /\ answer'.status = 200
  /\ target.name \in DOMAIN fsys
  /\ \/ copy' = copy
     \/ copy'.tag = ETag(meta) /\ copy'.tag # NoTime /\ copy'.ver = fsys[target.name].ver

\* A probe of try_files goes on to the next entry, enters serve, or refuses.
LEMMA ProbeIs ==
  ASSUME FsInv, ReqInv, Probe
  PROVE  StepsOn \/ Enters \/ Refuses
<1> DEFINE e == place.entries[entry]
<1> DEFINE path == Render(e.pieces, req.path)
<1> DEFINE rel == TrimStart(path)
<1> DEFINE last == entry = Len(place.entries)
<1>1. pc = "probe" /\ entry \in 1..Len(place.entries) /\ Len(place.entries) \in Nat
  BY DEF Probe, ReqInv
<1>2. ASSUME NextEntry, ~last, Candidate(entry) \notin steady
      PROVE  StepsOn
  <2>1. entry' = entry + 1 /\ pc' = pc /\ answer' = answer /\ copy' = copy
    BY <1>2 DEF NextEntry
  <2> QED
    BY <1>1, <1>2, <2>1 DEF StepsOn
<1>3. ASSUME NEW st \in {403, Configured}, Respond(req, Plain(st, entry)), entry' = entry
      PROVE  Refuses
  <2>1. /\ pc' = "idle" /\ copy' = copy /\ answer'.status = st /\ answer'.entry = entry
    BY <1>3, RespondPlain
  <2> QED
    BY <1>1, <1>3, <2>1 DEF Refuses, Configured
<1>4. CASE e.status
  <2>1. IF last THEN Respond(req, Plain(Configured, entry)) /\ UNCHANGED entry ELSE NextEntry
    BY <1>4 DEF Probe
  <2> QED
    BY <1>2, <1>3, <1>4, <2>1, NoCandidate
<1>5. CASE ~e.status /\ Unsafe(rel)
  <2>1. IF last THEN Respond(req, Plain(403, entry)) /\ UNCHANGED entry ELSE NextEntry
    BY <1>5 DEF Probe
  <2> QED
    BY <1>2, <1>3, <1>5, <2>1, NoCandidate
<1>6. CASE ~e.status /\ ~Unsafe(rel)
  <2> DEFINE t == Target(place.dir, rel)
  <2>1. IF last \/ Hit(Metadata(t))
        THEN EnterServe(req, place.dir, path, << >>, entry) /\ UNCHANGED entry ELSE NextEntry
    BY <1>6 DEF Probe
  <2>2. Aimed(t, entry)
    BY <1>6 DEF Aimed
  <2>3. CASE last \/ Hit(Metadata(t))
    <3>1. EnterServe(req, place.dir, path, << >>, entry) /\ entry' = entry
      BY <2>1, <2>3
    <3>2. Relative(path, << >>) = rel
      BY DEF Relative
    <3> HIDE DEF path, rel
    <3>3. /\ copy' = copy /\ pc' = "stat" /\ target' = Target(place.dir, rel) /\ answer'.status = 0
      BY <1>6, <3>1, <3>2, EnterServeIs
    <3> QED
      BY <1>1, <2>2, <3>1, <3>3 DEF Enters, path, rel
  <2>4. CASE ~last /\ ~Hit(Metadata(t))
    <3>1. Candidate(entry) \notin steady
      BY <2>2, <2>4, CandidateFile DEF Hit
    <3> QED
      BY <1>2, <2>1, <2>4, <3>1
  <2> QED
    BY <2>3, <2>4
<1> QED
  BY <1>4, <1>5, <1>6

\* After the metadata of a path: the index of a directory, a decision, or a refusal.
LEMMA StatIs ==
  ASSUME FsInv, ReqInv, Stat \/ StatIndex
  PROVE  LooksInside \/ Decides \/ Refuses
<1>1. ASSUME NEW st \in {403, 404}, Respond(req, Plain(st, entry)), entry' = entry, pc # "idle",
             st = 404 => pc = "index" \/ (pc \in {"stat", "read"} /\ ~IsFile(Metadata(target)))
      PROVE  Refuses
  <2>1. pc' = "idle" /\ copy' = copy /\ answer'.status = st /\ answer'.entry = entry
    BY <1>1, RespondPlain
  <2> QED
    BY <1>1, <2>1 DEF Refuses, Configured
<1>2. CASE Stat
  <2>1. PICK m : m = Metadata(target)
    OBVIOUS
  <2>2. /\ pc = "stat" /\ entry' = entry
        /\ \/ m.kind = "absent" /\ Respond(req, Plain(404, entry))
           \/ m.kind = "denied" /\ Respond(req, Plain(403, entry))
           \/ IsDir(m) /\ pc' = "index" /\ answer' = answer /\ copy' = copy
           \/ IsFile(m) /\ Decide(target, m)
    BY <1>2, <2>1 DEF Stat
  <2>3. CASE m.kind = "absent" /\ Respond(req, Plain(404, entry))
    <3>1. ~IsFile(m)
      BY <2>3 DEF IsFile
    <3> QED
      BY <1>1, <2>1, <2>2, <2>3, <3>1
  <2>4. CASE Respond(req, Plain(403, entry))
    BY <1>1, <2>2, <2>4
  <2>5. CASE IsDir(m) /\ pc' = "index" /\ answer' = answer /\ copy' = copy
    BY <2>1, <2>2, <2>5 DEF LooksInside
  <2>6. CASE IsFile(m) /\ Decide(target, m)
    BY <2>1, <2>2, <2>6 DEF Decides
  <2> QED
    BY <2>2, <2>3, <2>4, <2>5, <2>6
<1>3. CASE StatIndex
  <2>1. PICK t, m : t = IndexOf(target) /\ m = Metadata(t)
    OBVIOUS
  <2>2. /\ pc = "index" /\ entry' = entry
        /\ \/ pc' = "list" /\ answer' = answer /\ copy' = copy
           \/ Respond(req, Plain(404, entry))
           \/ Respond(req, Plain(403, entry))
           \/ Decide(t, m)
    BY <1>3, <2>1 DEF StatIndex
  <2>3. CASE pc' = "list" /\ answer' = answer /\ copy' = copy
    BY <2>2, <2>3 DEF LooksInside
  <2>4. CASE Respond(req, Plain(404, entry))
    BY <1>1, <2>2, <2>4
  <2>5. CASE Respond(req, Plain(403, entry))
    BY <1>1, <2>2, <2>5
  <2>6. CASE Decide(t, m)
    BY <2>1, <2>2, <2>6 DEF Decides
  <2> QED
    BY <2>2, <2>3, <2>4, <2>5, <2>6
<1> QED
  BY <1>2, <1>3

LEMMA ListIs ==
  ASSUME List
  PROVE  SendsListing \/ Refuses
<1>1. PICK st : st = IF Metadata(target).kind = "dir" THEN 200 ELSE 403
  OBVIOUS
<1>2. pc = "list" /\ Respond(req, Plain(st, entry)) /\ entry' = entry
  BY <1>1 DEF List
<1>3. pc' = "idle" /\ copy' = copy /\ answer'.status = st /\ answer'.entry = entry /\ answer'.ver = 0
  BY <1>2, RespondPlain
<1>4. st = 200 \/ st = 403
  BY <1>1
<1> QED
  BY <1>2, <1>3, <1>4 DEF SendsListing, Refuses, Configured

LEMMA ReadRangeIs ==
  ASSUME ReadRange
  PROVE  SendsRange \/ Refuses
<1>1. PICK now, span : now = Metadata(target) /\ span = ParseRange(req.range, meta.size)
  OBVIOUS
<1>2. PICK got : got = BytesRead(now, span[1], span[2] - span[1] + 1)
  OBVIOUS
<1>3. PICK a : a = IF now.kind = "file" /\ got # 0
                   THEN [status |-> 206, entry |-> entry, tag |-> ETag(meta),
                         ver |-> now.ver, from |-> span[1], to |-> span[2],
                         size |-> meta.size, len |-> got]
                   ELSE Plain(500, entry)
  BY ZenonT(60)
<1>4. pc = "read_range" /\ Respond(req, a) /\ entry' = entry
  BY <1>1, <1>2, <1>3 DEF ReadRange
<1>5. CASE now.kind = "file" /\ got # 0
  <2>1. /\ a.status = 206 /\ a.entry = entry /\ a.from = span[1] /\ a.to = span[2]
        /\ a.size = meta.size /\ a.len = got
    BY <1>3, <1>5
  <2>2. got = span[2] - span[1] + 1
    BY <1>2, <1>5 DEF BytesRead
  <2>3. answer' = a /\ pc' = "idle" /\ copy' = copy
    BY <1>4, <2>1 DEF Respond
  <2> QED
    BY <1>1, <1>4, <2>1, <2>2, <2>3 DEF SendsRange
<1>6. CASE ~(now.kind = "file" /\ got # 0)
  <2>1. Respond(req, Plain(500, entry))
    BY <1>3, <1>4, <1>6
  <2>2. pc' = "idle" /\ copy' = copy /\ answer'.status = 500 /\ answer'.entry = entry
    BY <2>1, RespondPlain
  <2> QED
    BY <1>4, <2>2 DEF Refuses
<1> QED
  BY <1>5, <1>6

LEMMA ReadAllIs ==
  ASSUME FsInv, ReadAll
  PROVE  SendsFile \/ Refuses
<1>1. PICK now : now = Metadata(target)
  OBVIOUS
<1>2. PICK a : a = [Plain(200, entry) EXCEPT !.tag = ETag(meta), !.ver = now.ver,
                                             !.size = now.size, !.len = now.size]
  OBVIOUS
<1>3. /\ pc = "read" /\ entry' = entry
      /\ \/ now.kind = "file" /\ Respond(req, a)
         \/ now.kind = "absent" /\ Respond(req, Plain(404, entry))
         \/ Respond(req, Plain(403, entry))
  BY <1>1, <1>2 DEF ReadAll
<1>4. CASE now.kind = "file" /\ Respond(req, a)
  <2>1. a.status = 200 /\ a.entry = entry /\ a.tag = ETag(meta) /\ a.ver = now.ver
    <3>1. PICK tag : tag = ETag(meta)
      OBVIOUS
    <3>2. PICK p : p = Plain(200, entry)
      OBVIOUS
    <3>3. p = [status |-> 200, entry |-> entry, tag |-> NoTime, ver |-> 0, from |-> 0, to |-> 0,
               size |-> 0, len |-> 0]
      BY <3>2 DEF Plain
    <3>4. a = [p EXCEPT !.tag = tag, !.ver = now.ver, !.size = now.size, !.len = now.size]
      BY <1>2, <3>1, <3>2
    <3> QED
      BY <3>1, <3>3, <3>4
  <2>2. target.name \in DOMAIN fsys /\ now = fsys[target.name]
    BY <1>1, <1>4, MetadataIs
  <2>3. /\ answer' = a /\ pc' = "idle"
        /\ copy' = IF a.status = 200 /\ req.method = "GET" /\ a.tag # NoTime
                   THEN [at |-> req.at, path |-> req.path, tag |-> a.tag, ver |-> a.ver] ELSE copy
    BY <1>4 DEF Respond
  <2>4. copy' = copy \/ (copy'.tag = ETag(meta) /\ copy'.tag # NoTime /\ copy'.ver = fsys[target.name].ver)
    BY <2>1, <2>2, <2>3
  <2> QED
    BY <1>3, <2>1, <2>2, <2>3, <2>4 DEF SendsFile
<1>5. CASE now.kind = "absent" /\ Respond(req, Plain(404, entry))
  <2>1. pc' = "idle" /\ copy' = copy /\ answer'.status = 404 /\ answer'.entry = entry
    BY <1>5, RespondPlain
  <2>2. ~IsFile(Metadata(target))
    BY <1>1, <1>5 DEF IsFile
  <2> QED
    BY <1>3, <2>1, <2>2 DEF Refuses
<1>6. CASE Respond(req, Plain(403, entry))
  <2>1. pc' = "idle" /\ copy' = copy /\ answer'.status = 403 /\ answer'.entry = entry
    BY <1>6, RespondPlain
  <2> QED
    BY <1>3, <2>1 DEF Refuses
<1> QED
  BY <1>3, <1>4, <1>5, <1>6

\* Every step of a request is one of these.
LEMMA Outcomes ==
  ASSUME FsInv, ReqInv, ServeStep
  PROVE  /\ UNCHANGED <<fsVars, asked, req, place>>
         /\ \/ StepsOn \/ Enters \/ LooksInside \/ Decides
            \/ Refuses \/ SendsListing \/ SendsRange \/ SendsFile
<1>1. UNCHANGED <<fsVars, asked, req, place>>
  BY ServeLeaves
<1> QED
  BY <1>1, ProbeIs, StatIs, ListIs, ReadRangeIs, ReadAllIs DEF ServeStep

\* A request that arrives starts over; the names it will watch are files now.
LEMMA ArriveIs ==
  ASSUME FsInv, Accepted, NEW r \in Requests, Arrive(r)
  PROVE  /\ req' = r /\ copy' = copy /\ asked < MaxRequests /\ asked' = asked + 1
         /\ UNCHANGED <<fsys, clock, edits, stamps>>
         /\ \A n \in steady' : n \in DOMAIN fsys /\ IsFile(fsys[n])
         /\ Len(place'.entries) \in Nat /\ DOMAIN place'.entries = 1..Len(place'.entries)
         /\ \/ /\ place'.entries = << >> /\ entry' = 0
               /\ \/ pc' = "idle" /\ answer'.status \in {403, 404, Configured}
                  \/ pc' = "stat" /\ answer'.status = 0
            \/ /\ place'.entries # << >> /\ Len(place'.entries) # 0 /\ entry' = 1
               /\ pc' = "probe" /\ answer'.status = 0
<1>1. phase = "serving" /\ asked < MaxRequests /\ asked' = asked + 1
  BY DEF Arrive
<1>2. PICK D : Closed(D) /\ Served(runtime, D)
  BY <1>1 DEF Accepted
<1>3. PICK n \in DOMAIN runtime.listeners :
        LET l == Route(PickState(runtime.listeners[n], r.at[2]), r.path)
        IN  \/ /\ l # None /\ l.act \in {"root", "alias", "try_files"}
               /\ Begin(r, PlaceOf(l))
            \/ /\ l # None /\ l.act \notin {"root", "alias", "try_files"}
               /\ Respond(r, Plain(Configured, 0))
               /\ req' = r /\ place' = NoPlace /\ entry' = 0
               /\ UNCHANGED fsVars
            \/ /\ l = None
               /\ Respond(r, Plain(404, 0))
               /\ req' = r /\ place' = NoPlace /\ entry' = 0
               /\ UNCHANGED fsVars
  BY DEF Arrive
<1>4. PICK l : l = Route(PickState(runtime.listeners[n], r.at[2]), r.path)
  OBVIOUS
<1>5. l \in GoodLocations(D) \cup {None}
  BY <1>2, <1>4, RouteServed
<1>6. CASE /\ Respond(r, Plain(Configured, 0)) \/ Respond(r, Plain(404, 0))
           /\ req' = r /\ place' = NoPlace /\ entry' = 0
           /\ UNCHANGED fsVars
  <2>1. pc' = "idle" /\ copy' = copy /\ answer'.status \in {404, Configured}
    BY <1>6, RespondPlain
  <2>2. place'.entries = << >>
    BY <1>6 DEF NoPlace
  <2>3. UNCHANGED <<fsys, clock, edits, stamps, steady>>
    BY <1>6 DEF fsVars
  <2>4. Len(place'.entries) \in Nat /\ DOMAIN place'.entries = 1..Len(place'.entries)
    BY <2>2
  <2> QED
    BY <1>1, <1>6, <2>1, <2>2, <2>3, <2>4 DEF FsInv
<1>7. CASE l # None /\ Begin(r, PlaceOf(l))
  <2>1. PICK p : p = PlaceOf(l)
    OBVIOUS
  <2>2. l \in GoodLocations(D)
    BY <1>5, <1>7
  <2>3. p.entries \in Seq(ToSet(p.entries))
    <3>1. p.entries = l.entries
      BY <2>1 DEF PlaceOf
    <3>2. l.entries \in Seq(ToSet(l.entries))
      BY <1>2, <2>2, LocationGood
    <3> QED
      BY <3>1, <3>2
  <2>4. /\ req' = r /\ place' = p
        /\ steady' = {k \in DOMAIN fsys : IsFile(fsys[k])}
        /\ UNCHANGED <<fsys, clock, edits, stamps>>
        /\ \/ p.entries = << >> /\ entry' = 0 /\ EnterServe(r, p.dir, r.path, p.prefix, 0)
           \/ p.entries # << >> /\ entry' = 1 /\ pc' = "probe" /\ answer' = Plain(0, 0) /\ copy' = copy
    BY <1>7, <2>1 DEF Begin
  <2>5. Len(place'.entries) \in Nat /\ DOMAIN place'.entries = 1..Len(place'.entries)
    BY <2>3, <2>4
  <2>6. CASE p.entries = << >> /\ entry' = 0 /\ EnterServe(r, p.dir, r.path, p.prefix, 0)
    <3>1. copy' = copy /\ \/ pc' = "idle" /\ answer'.status = 403
                          \/ pc' = "stat" /\ answer'.status = 0
      BY <2>6, EnterServeIs
    <3> QED
      BY <1>1, <2>4, <2>5, <2>6, <3>1
  <2>7. CASE p.entries # << >> /\ entry' = 1 /\ pc' = "probe" /\ answer' = Plain(0, 0) /\ copy' = copy
    <3>1. answer'.status = 0
      BY <2>7 DEF Plain
    <3>2. Len(place'.entries) # 0
      BY <2>3, <2>4, <2>7
    <3> QED
      BY <1>1, <2>4, <2>5, <2>7, <3>1, <3>2
  <2> QED
    BY <2>4, <2>6, <2>7
<1> QED
  BY <1>3, <1>4, <1>6, <1>7

-----------------------------------------------------------------------------
(***************************************************************************)
(* Requests for files: ranges                                              *)
(***************************************************************************)

\* parse_single_range finds the bytes that are asked for (static_files.rs 319-353).
LEMMA ParseRangeRight ==
  ASSUME NEW rg, {rg.from, rg.to} \subseteq Nat \cup {Open}, NEW size \in Nat
  PROVE  LET span == ParseRange(rg, size)
         IN  /\ span = << >> => Wanted(rg, size) = {}
             /\ span # << >> => span[1]..span[2] = Wanted(rg, size) /\ span[1] <= span[2]
<1> DEFINE span == ParseRange(rg, size)
<1>1. Open \notin Nat
  BY StaticFilesAssumption
<1>2. PICK f, t, u : f = rg.from /\ t = rg.to /\ u = rg.unit
  OBVIOUS
<1>3. f \in Nat \cup {Open} /\ t \in Nat \cup {Open}
  BY <1>2
<1>4. \A b : b \in Wanted(rg, size) <=>
        /\ b \in 0..(size - 1) /\ u = "bytes"
        /\ \/ f = Open /\ t # Open /\ b + t >= size
           \/ f # Open /\ t = Open /\ f <= b
           \/ f # Open /\ t # Open /\ f <= b /\ b <= t
  BY <1>2 DEF Wanted
<1>5. span =
        CASE u # "bytes" \/ size = 0 \/ {f, t} = {Open} -> << >>
          [] u = "bytes" /\ size > 0 /\ f = Open /\ t # Open ->
               IF t = 0 THEN << >> ELSE <<size - Smaller(t, size), size - 1>>
          [] u = "bytes" /\ size > 0 /\ f # Open /\ t = Open ->
               IF f >= size THEN << >> ELSE <<f, size - 1>>
          [] OTHER -> IF f > t \/ f >= size THEN << >> ELSE <<f, Smaller(t, size - 1)>>
  BY <1>2 DEF ParseRange
<1> HIDE DEF span
<1>6. \A a, b : <<a, b>> # << >> /\ <<a, b>>[1] = a /\ <<a, b>>[2] = b
  OBVIOUS
<1>7. ASSUME NEW a \in Int, NEW b \in Int, a <= b, span = <<a, b>>,
             \A x : x \in a..b <=> x \in Wanted(rg, size)
      PROVE  span # << >> /\ span[1]..span[2] = Wanted(rg, size) /\ span[1] <= span[2]
  BY <1>6, <1>7
<1>8. CASE u # "bytes" \/ size = 0 \/ {f, t} = {Open}
  <2>1. span = << >>
    BY <1>5, <1>8, SMTT(30)
  <2>2. Wanted(rg, size) = {}
    BY <1>4, <1>8
  <2> QED
    BY <2>1, <2>2 DEF span
<1>9. CASE u = "bytes" /\ size > 0 /\ f = Open /\ t # Open
  <2>1. span = IF t = 0 THEN << >> ELSE <<size - Smaller(t, size), size - 1>>
    BY <1>5, <1>9
  <2>2. CASE t = 0
    <3>1. span = << >>
      BY <2>1, <2>2
    <3>2. Wanted(rg, size) = {}
      BY <1>1, <1>4, <1>9, <2>2
    <3> QED
      BY <3>1, <3>2 DEF span
  <2>3. CASE t # 0
    <3>1. PICK a : a = size - Smaller(t, size)
      OBVIOUS
    <3>2. t \in Nat /\ a \in Int /\ a <= size - 1 /\ a >= 0
          /\ \A b \in 0..(size - 1) : b + t >= size <=> a <= b
      BY <1>3, <1>9, <2>3, <3>1 DEF Smaller
    <3>3. \A x : x \in a..(size - 1) <=> x \in Wanted(rg, size)
      BY <1>4, <1>9, <3>2
    <3>4. span = <<a, size - 1>>
      BY <2>1, <2>3, <3>1
    <3> QED
      BY <1>7, <3>2, <3>3, <3>4 DEF span
  <2> QED
    BY <2>2, <2>3
<1>10. CASE u = "bytes" /\ size > 0 /\ f # Open /\ t = Open
  <2>1. span = IF f >= size THEN << >> ELSE <<f, size - 1>>
    BY <1>5, <1>10
  <2>2. f \in Nat
    BY <1>3, <1>10
  <2>3. CASE f >= size
    <3>1. span = << >>
      BY <2>1, <2>3
    <3>2. Wanted(rg, size) = {}
      BY <1>4, <1>10, <2>2, <2>3
    <3> QED
      BY <3>1, <3>2 DEF span
  <2>4. CASE ~(f >= size)
    <3>1. \A x : x \in f..(size - 1) <=> x \in Wanted(rg, size)
      BY <1>4, <1>10, <2>2
    <3>2. span = <<f, size - 1>> /\ f <= size - 1
      BY <2>1, <2>2, <2>4
    <3> QED
      BY <1>7, <2>2, <3>1, <3>2 DEF span
  <2> QED
    BY <2>3, <2>4
<1>11. CASE u = "bytes" /\ size > 0 /\ f # Open /\ t # Open
  <2>1. {f, t} # {Open}
    BY <1>11
  <2>2. span = IF f > t \/ f >= size THEN << >> ELSE <<f, Smaller(t, size - 1)>>
    BY <1>5, <1>11, <2>1
  <2>3. f \in Nat /\ t \in Nat
    BY <1>3, <1>11
  <2>4. CASE f > t \/ f >= size
    <3>1. span = << >>
      BY <2>2, <2>4
    <3>2. Wanted(rg, size) = {}
      BY <1>4, <1>11, <2>3, <2>4
    <3> QED
      BY <3>1, <3>2 DEF span
  <2>5. CASE ~(f > t \/ f >= size)
    <3>1. PICK b : b = Smaller(t, size - 1)
      OBVIOUS
    <3>2. b \in Int /\ f <= b /\ \A x \in Int : x <= b <=> x <= t /\ x <= size - 1
      BY <2>3, <2>5, <3>1 DEF Smaller
    <3>3. \A x : x \in f..b <=> x \in Wanted(rg, size)
      <4>1. \A x : x \in Wanted(rg, size) <=> x \in 0..(size - 1) /\ f <= x /\ x <= t
        BY <1>4, <1>11
      <4>2. \A x \in Int : x \in f..b <=> f <= x /\ x <= t /\ x <= size - 1
        BY <2>3, <3>2
      <4>3. \A x \in Int : x \in f..b <=> x \in Wanted(rg, size)
        BY <2>3, <4>1, <4>2
      <4>4. \A x : x \in f..b \/ x \in Wanted(rg, size) => x \in Int
        BY <2>3, <3>2, <4>1
      <4> QED
        BY <4>3, <4>4
    <3>4. span = <<f, b>>
      BY <2>2, <2>5, <3>1
    <3> QED
      BY <1>7, <2>3, <3>2, <3>3, <3>4 DEF span
  <2> QED
    BY <2>4, <2>5
<1> QED
  BY <1>3, <1>8, <1>9, <1>10, <1>11

-----------------------------------------------------------------------------
(***************************************************************************)
(* Requests for files: the invariant                                       *)
(***************************************************************************)

\* A range that is read has been found satisfiable; a file that is read whole was
\* not asked for in part.
RangeInv ==
  /\ pc = "read_range" => /\ meta.size \in Nat /\ ParseRange(req.range, meta.size) # << >>
                          /\ req.method # "HEAD"
  /\ pc = "read" => ~ByteRange(req.range)
  /\ RangeExact

\* The tag of a copy is that of a version the copy is of, or of one that is gone for
\* good; the metadata a read goes on with may become such a version.
TagInv ==
  /\ pc = "read" /\ meta.mtime # NoTime =>
       Stamp(meta) \in stamps /\ (Holds(target.name, meta.ver) \/ Gone(meta.ver))
  /\ copy.tag # NoTime =>
       \E x \in stamps : copy.tag = <<x.size, x.mtime>> /\ (copy.ver = x.ver \/ Gone(x.ver))
  /\ RevalidationSound

\* No entry that is behind is a file that stayed, and what is served instead of the
\* file of an entry is served because that file did not stay.
TryInv ==
  place.entries # << >> =>
    /\ pc # "idle" \/ answer.status # 0 => \A j \in 1..(entry - 1) : Candidate(j) \notin steady
    /\ pc = "stat" => Aimed(target, entry)
    /\ pc \in {"index", "list"} => Candidate(entry) \notin steady
    /\ pc \in {"read", "read_range"} => Candidate(entry) \notin steady \/ Aimed(target, entry)
    /\ pc = "idle" /\ answer.status # 0 =>
         /\ answer.entry = entry /\ entry # 0
         /\ answer.status = 404 => Candidate(entry) \notin steady

ServeInv == FsInv /\ StampInv /\ ReqInv /\ RangeInv /\ TagInv /\ TryInv

LEMMA ServeInitially ==
  ASSUME StaticInit
  PROVE  ServeInv
<1>1. FsInv /\ StampInv
  BY StampInitially
<1>2. /\ pc = "idle" /\ asked = 0 /\ req = NoRequest /\ place = NoPlace /\ entry = 0
      /\ answer = Plain(0, 0) /\ copy = NoCopy
  BY DEF StaticInit
<1>3. answer.status = 0 /\ place.entries = << >> /\ copy.tag = NoTime
  BY <1>2 DEF Plain, NoPlace, NoCopy
<1>4. ReqInv
  BY <1>2, <1>3, StaticFilesAssumption DEF ReqInv
<1>5. RangeInv
  BY <1>2, <1>3 DEF RangeInv, RangeExact
<1>6. TagInv
  BY <1>2, <1>3 DEF TagInv, RevalidationSound
<1>7. TryInv
  BY <1>3 DEF TryInv
<1> QED
  BY <1>1, <1>4, <1>5, <1>6, <1>7 DEF ServeInv

LEMMA RangeTyped ==
  ASSUME ReqInv
  PROVE  {req.range.from, req.range.to} \subseteq Nat \cup {Open}
<1>1. CASE req \in Requests
  BY <1>1, SiteAssumption
<1>2. CASE req = NoRequest
  BY <1>2 DEF NoRequest
<1> QED
  BY <1>1, <1>2 DEF ReqInv

\* What is known of the request at each point survives the steps of serving it.
LEMMA ReqKept ==
  ASSUME FsInv, ReqInv, ServeStep
  PROVE  ReqInv'
<1>1. UNCHANGED <<asked, req, place>>
  BY Outcomes DEF fsVars
<1>2. CASE StepsOn
  BY <1>1, <1>2 DEF StepsOn, ReqInv
<1>3. CASE Enters
  BY <1>1, <1>3 DEF Enters, ReqInv
<1>4. CASE LooksInside
  BY <1>1, <1>4 DEF LooksInside, ReqInv
<1>5. CASE Decides
  <2>1. PICK t : pc \in {"stat", "index"} /\ Decide(t, Metadata(t)) /\ entry' = entry
    BY <1>5 DEF Decides
  <2>2. \/ pc' = "idle" /\ answer'.status \in {200, 206, 304, 416}
        \/ pc' \in {"read", "read_range"} /\ answer' = answer
    BY <2>1, DecideIs
  <2> QED
    BY <1>1, <2>1, <2>2 DEF ReqInv
<1>6. CASE Refuses
  BY <1>1, <1>6 DEF Refuses, ReqInv
<1>7. CASE SendsListing \/ SendsRange \/ SendsFile
  BY <1>1, <1>7 DEF SendsListing, SendsRange, SendsFile, ReqInv
<1> QED
  BY <1>2, <1>3, <1>4, <1>5, <1>6, <1>7, Outcomes

\* A range stays satisfiable between the decision to read it and the answer.
LEMMA RangeKept ==
  ASSUME FsInv, ReqInv, RangeInv, ServeStep
  PROVE  RangeInv'
<1>1. req' = req
  BY Outcomes
<1>2. {req.range.from, req.range.to} \subseteq Nat \cup {Open}
  BY RangeTyped
<1>3. ASSUME pc' \notin {"read", "read_range"}, answer'.status \notin {200, 206, 416}
      PROVE  RangeInv'
  BY <1>3 DEF RangeInv, RangeExact
<1>4. CASE StepsOn
  <2>1. pc' = "probe" /\ answer'.status = 0
    BY <1>4 DEF StepsOn, ReqInv
  <2> QED
    BY <1>3, <2>1
<1>5. CASE Enters
  BY <1>3, <1>5 DEF Enters
<1>6. CASE LooksInside
  <2>1. pc' \in {"index", "list"} /\ answer'.status = 0
    BY <1>6 DEF LooksInside, ReqInv
  <2> QED
    BY <1>3, <2>1
<1>7. CASE Decides
  <2>1. PICK t : pc \in {"stat", "index"} /\ Decide(t, Metadata(t))
    BY <1>7 DEF Decides
  <2>2. PICK m : m = Metadata(t)
    OBVIOUS
  <2>3. m.size \in Nat
    BY <2>2, MetadataIs
  <2>4. PICK span : span = ParseRange(req.range, m.size)
    OBVIOUS
  <2>5. /\ span = << >> => Wanted(req.range, m.size) = {}
        /\ span # << >> => span[1]..span[2] = Wanted(req.range, m.size) /\ span[1] <= span[2]
    BY <1>2, <2>3, <2>4, ParseRangeRight
  <2>6. \/ /\ pc' = "idle" /\ answer'.entry = entry
           /\ \/ answer'.status = 304
              \/ /\ answer'.status = 206 /\ span # << >> /\ req.method = "HEAD"
                 /\ answer'.from = span[1] /\ answer'.to = span[2] /\ answer'.size = m.size
              \/ /\ answer'.status = 416 /\ span = << >> /\ ByteRange(req.range)
                 /\ answer'.size = m.size
              \/ answer'.status = 200 /\ ~ByteRange(req.range)
        \/ /\ pc' \in {"read", "read_range"} /\ meta' = m /\ answer' = answer
           /\ pc' = "read_range" => span # << >> /\ req.method # "HEAD"
           /\ pc' = "read" => ~ByteRange(req.range)
    BY <2>1, <2>2, <2>4, DecideIs
  <2>7. answer.status = 0
    BY <2>1 DEF ReqInv
  <2>8. CASE pc' \in {"read", "read_range"} /\ meta' = m /\ answer' = answer
    BY <1>1, <2>3, <2>4, <2>6, <2>7, <2>8 DEF RangeInv, RangeExact
  <2>9. CASE pc' = "idle" /\ answer'.status = 206
    BY <1>1, <2>5, <2>6, <2>9 DEF RangeInv, RangeExact
  <2>10. CASE pc' = "idle" /\ answer'.status = 416
    BY <1>1, <2>5, <2>6, <2>10 DEF RangeInv, RangeExact
  <2>11. CASE pc' = "idle" /\ answer'.status \in {200, 304}
    BY <1>1, <2>6, <2>11 DEF RangeInv, RangeExact
  <2> QED
    BY <2>6, <2>8, <2>9, <2>10, <2>11
<1>8. CASE Refuses
  BY <1>3, <1>8 DEF Refuses, Configured
<1>9. CASE SendsListing
  BY <1>9 DEF SendsListing, RangeInv, RangeExact
<1>10. CASE SendsRange
  <2>1. meta.size \in Nat /\ ParseRange(req.range, meta.size) # << >>
    BY <1>10 DEF SendsRange, RangeInv
  <2>2. PICK span : span = ParseRange(req.range, meta.size)
    OBVIOUS
  <2>3. span[1]..span[2] = Wanted(req.range, meta.size) /\ span[1] <= span[2]
    BY <1>2, <2>1, <2>2, ParseRangeRight
  <2>4. /\ pc' = "idle" /\ answer'.status = 206 /\ answer'.from = span[1] /\ answer'.to = span[2]
        /\ answer'.size = meta.size /\ answer'.len = span[2] - span[1] + 1
    BY <1>10, <2>2 DEF SendsRange
  <2> QED
    BY <1>1, <2>3, <2>4 DEF RangeInv, RangeExact
<1>11. CASE SendsFile
  BY <1>1, <1>11 DEF SendsFile, RangeInv, RangeExact
<1> QED
  BY <1>4, <1>5, <1>6, <1>7, <1>8, <1>9, <1>10, <1>11, Outcomes

\* The client's tag stays that of its copy's version, or of one that is gone.
LEMMA TagKept ==
  ASSUME FsInv, StampInv, ReqInv, TagInv, ServeStep
  PROVE  TagInv'
<1>1. UNCHANGED <<fsys, stamps, req>>
  BY Outcomes DEF fsVars
<1> DEFINE OfCopy(x) == copy.tag = <<x.size, x.mtime>> /\ (copy.ver = x.ver \/ Gone(x.ver))
<1>2. copy.tag # NoTime => \E x \in stamps : OfCopy(x)
  BY DEF TagInv
<1>3. \A v : Gone(v)' <=> Gone(v)
  BY <1>1 DEF Gone
<1>5. ASSUME copy' = copy, pc' # "read", answer'.status # 304
      PROVE  TagInv'
  BY <1>1, <1>2, <1>3, <1>5 DEF TagInv, RevalidationSound
<1>6. CASE StepsOn
  <2>1. copy' = copy /\ pc' = "probe" /\ answer'.status = 0
    BY <1>6 DEF StepsOn, ReqInv
  <2> QED
    BY <1>5, <2>1
<1>7. CASE Enters
  BY <1>5, <1>7 DEF Enters
<1>8. CASE LooksInside
  <2>1. copy' = copy /\ pc' \in {"index", "list"} /\ answer'.status = 0
    BY <1>8 DEF LooksInside, ReqInv
  <2> QED
    BY <1>5, <2>1
<1>9. CASE Refuses
  BY <1>5, <1>9 DEF Refuses, Configured
<1>10. CASE SendsListing \/ SendsRange
  BY <1>5, <1>10 DEF SendsListing, SendsRange
<1>11. CASE Decides
  <2>1. PICK t : pc \in {"stat", "index"} /\ Decide(t, Metadata(t))
    BY <1>11 DEF Decides
  <2>2. PICK m : m = Metadata(t)
    OBVIOUS
  <2>3. m.mtime # NoTime => t.name \in DOMAIN fsys /\ m = fsys[t.name]
    BY <2>2, MetadataIs
  <2>4. m.mtime # NoTime => Stamp(m) \in stamps /\ Holds(t.name, m.ver)
    BY <2>3 DEF StampInv, Holds
  <2>5. /\ copy' = copy
        /\ \/ pc' = "idle" /\ answer'.status = 304 /\ Revalidates(ETag(m)) /\ answer'.ver = m.ver
           \/ pc' = "idle" /\ answer'.status # 304
           \/ pc' \in {"read", "read_range"} /\ target' = t /\ meta' = m /\ answer' = answer
    BY <2>1, <2>2, DecideIs
  <2>6. CASE pc' = "idle" /\ answer'.status # 304
    BY <1>5, <2>5, <2>6
  <2>7. CASE pc' \in {"read", "read_range"} /\ target' = t /\ meta' = m /\ answer' = answer
    <3>1. answer'.status = 0
      BY <2>1, <2>7 DEF ReqInv
    <3>2. (meta.mtime # NoTime => Stamp(meta) \in stamps /\ Holds(target.name, meta.ver))'
      BY <1>1, <2>4, <2>7 DEF Holds, Stamp
    <3>3. RevalidationSound'
      BY <3>1 DEF RevalidationSound
    <3>4. (copy.tag # NoTime => \E x \in stamps : OfCopy(x))'
      BY <1>1, <1>2, <2>5 DEF Gone
    <3> QED
      BY <3>2, <3>3, <3>4 DEF TagInv
  <2>8. CASE pc' = "idle" /\ answer'.status = 304 /\ Revalidates(ETag(m)) /\ answer'.ver = m.ver
    <3>1. ASSUME req.cond = "own"
          PROVE  copy.ver = m.ver \/ SameTag
      <4>1. ETag(m) # NoTime /\ copy.tag = ETag(m)
        BY <2>8, <3>1 DEF Revalidates
      <4>2. m.mtime # NoTime /\ copy.tag = <<m.size, m.mtime>>
        BY <4>1 DEF ETag
      <4>3. PICK x \in stamps : OfCopy(x)
        BY <1>2, <4>1
      <4>4. x.size = m.size /\ x.mtime = m.mtime
        BY <4>2, <4>3
      <4>5. Stamp(m).size = m.size /\ Stamp(m).mtime = m.mtime /\ Stamp(m).ver = m.ver
        BY DEF Stamp
      <4>6. CASE x.ver # m.ver
        BY <2>4, <4>2, <4>4, <4>5, <4>6 DEF SameTag
      <4>7. CASE x.ver = m.ver
        BY <2>4, <4>2, <4>3, <4>7 DEF Gone, Holds
      <4> QED
        BY <4>6, <4>7
    <3>2. SameTag => SameTag'
      BY <1>1 DEF SameTag
    <3>3. RevalidationSound'
      BY <1>1, <2>5, <2>8, <3>1, <3>2 DEF RevalidationSound
    <3> QED
      BY <1>1, <1>2, <1>3, <2>5, <2>8, <3>3 DEF TagInv
  <2> QED
    BY <2>5, <2>6, <2>7, <2>8
<1>12. CASE SendsFile
  <2>1. /\ pc = "read" /\ pc' = "idle" /\ answer'.status = 200
        /\ \/ copy' = copy
           \/ copy'.tag = ETag(meta) /\ copy'.tag # NoTime /\ copy'.ver = fsys[target.name].ver
    BY <1>12 DEF SendsFile
  <2>2. CASE copy' = copy
    BY <1>5, <2>1, <2>2
  <2>3. CASE copy'.tag = ETag(meta) /\ copy'.tag # NoTime /\ copy'.ver = fsys[target.name].ver
    <3>1. meta.mtime # NoTime /\ copy'.tag = <<meta.size, meta.mtime>>
      BY <2>3 DEF ETag
    <3>2. Stamp(meta) \in stamps /\ (Holds(target.name, meta.ver) \/ Gone(meta.ver))
      BY <2>1, <3>1 DEF TagInv
    <3>3. copy'.ver = meta.ver \/ Gone(meta.ver)
      BY <2>3, <3>2 DEF Holds
    <3>4. PICK x : x = Stamp(meta)
      OBVIOUS
    <3>5. x.size = meta.size /\ x.mtime = meta.mtime /\ x.ver = meta.ver /\ x \in stamps'
      BY <1>1, <3>2, <3>4 DEF Stamp
    <3>6. copy'.tag = <<x.size, x.mtime>> /\ (copy'.ver = x.ver \/ Gone(x.ver)')
      BY <1>3, <3>1, <3>3, <3>5
    <3> QED
      BY <2>1, <3>5, <3>6 DEF TagInv, RevalidationSound
  <2> QED
    BY <2>1, <2>2, <2>3
<1> QED
  BY <1>6, <1>7, <1>8, <1>9, <1>10, <1>11, <1>12, Outcomes

\* The entries behind the current one were no steady files.
LEMMA TryKept ==
  ASSUME FsInv, ReqInv, TryInv, ServeStep
  PROVE  TryInv'
<1>1. place' = place /\ req' = req /\ steady' = steady
  BY Outcomes DEF fsVars
<1>2. \A j : Candidate(j)' = Candidate(j)
  BY <1>1 DEF Candidate
<1>3. \A t, j : Aimed(t, j)' <=> Aimed(t, j)
  BY <1>1 DEF Aimed
<1> SUFFICES ASSUME place.entries # << >>
             PROVE  TryInv'
  BY <1>1 DEF TryInv
<1>4. pc # "idle"
  BY DEF ServeStep, Probe, Stat, StatIndex, List, ReadRange, ReadAll
<1>5. /\ \A j \in 1..(entry - 1) : Candidate(j) \notin steady
      /\ pc = "stat" => Aimed(target, entry)
      /\ pc \in {"index", "list"} => Candidate(entry) \notin steady
      /\ pc \in {"read", "read_range"} => Candidate(entry) \notin steady \/ Aimed(target, entry)
  BY <1>4 DEF TryInv
<1>6. entry \in Nat /\ entry # 0 /\ answer.status = 0
  BY <1>4 DEF ReqInv
<1>7. ASSUME pc' = "idle", entry' = entry, answer'.entry = entry,
             answer'.status = 404 => Candidate(entry) \notin steady
      PROVE  TryInv'
  BY <1>1, <1>2, <1>5, <1>6, <1>7 DEF TryInv
<1>8. CASE StepsOn
  <2>1. pc' = "probe" /\ entry' = entry + 1 /\ Candidate(entry) \notin steady
    BY <1>8 DEF StepsOn
  <2>2. \A j \in 1..(entry' - 1) : Candidate(j) \notin steady
    <3> SUFFICES ASSUME NEW j \in 1..(entry' - 1) PROVE Candidate(j) \notin steady
      OBVIOUS
    <3>1. j \in 1..(entry - 1) \/ j = entry
      BY <1>6, <2>1
    <3> QED
      BY <1>5, <2>1, <3>1
  <2> QED
    BY <1>1, <1>2, <2>1, <2>2 DEF TryInv
<1>9. CASE Enters
  <2>1. pc' = "stat" /\ entry' = entry /\ Aimed(target', entry)
    BY <1>9 DEF Enters
  <2> QED
    BY <1>1, <1>2, <1>3, <1>5, <2>1 DEF TryInv
<1>10. CASE LooksInside
  <2>1. pc' \in {"index", "list"} /\ entry' = entry
    BY <1>10 DEF LooksInside
  <2>2. Candidate(entry) \notin steady
    <3>1. CASE pc = "index"
      BY <1>5, <3>1
    <3>2. CASE pc # "index"
      <4>1. Aimed(target, entry) /\ IsDir(Metadata(target))
        BY <1>5, <1>10, <3>2 DEF LooksInside
      <4>2. ~IsFile(Metadata(target))
        BY <4>1 DEF IsDir, IsFile
      <4> QED
        BY <4>1, <4>2, CandidateFile
    <3> QED
      BY <3>1, <3>2
  <2> QED
    BY <1>1, <1>2, <1>5, <2>1, <2>2 DEF TryInv
<1>11. CASE Decides
  <2>1. PICK t : /\ pc = "index" \/ (pc = "stat" /\ t = target)
                 /\ Decide(t, Metadata(t)) /\ entry' = entry
    BY <1>11 DEF Decides
  <2>2. \/ pc' = "idle" /\ answer'.entry = entry /\ answer'.status # 404
        \/ pc' \in {"read", "read_range"} /\ target' = t
    BY <2>1, DecideIs
  <2>3. CASE pc' = "idle" /\ answer'.entry = entry /\ answer'.status # 404
    BY <1>7, <2>1, <2>3
  <2>4. CASE pc' \in {"read", "read_range"} /\ target' = t
    <3>1. Candidate(entry) \notin steady \/ Aimed(target', entry)
      BY <1>5, <2>1, <2>4
    <3> QED
      BY <1>1, <1>2, <1>3, <1>5, <2>1, <2>4, <3>1 DEF TryInv
  <2> QED
    BY <2>2, <2>3, <2>4
<1>12. CASE Refuses
  <2>1. /\ pc' = "idle" /\ entry' = entry /\ answer'.entry = entry
        /\ answer'.status = 404 => pc = "index" \/ (pc \in {"stat", "read"} /\ ~IsFile(Metadata(target)))
    BY <1>12 DEF Refuses
  <2>2. answer'.status = 404 => Candidate(entry) \notin steady
    BY <1>5, <2>1, CandidateFile
  <2> QED
    BY <1>7, <2>1, <2>2
<1>13. CASE SendsListing \/ SendsRange \/ SendsFile
  <2>1. pc' = "idle" /\ entry' = entry /\ answer'.entry = entry /\ answer'.status # 404
    BY <1>13 DEF SendsListing, SendsRange, SendsFile
  <2> QED
    BY <1>7, <2>1
<1> QED
  BY <1>8, <1>9, <1>10, <1>11, <1>12, <1>13, Outcomes

\* Other people's edits during a request.
LEMMA WorldServes ==
  ASSUME ServeInv, World
  PROVE  ServeInv'
<1>1. FsInv /\ StampInv /\ ReqInv /\ RangeInv /\ TagInv /\ TryInv
  BY DEF ServeInv
<1>2. UNCHANGED reqVars /\ steady' \subseteq steady
  BY DEF World, Tick, Write, Delete
<1>3. UNCHANGED <<pc, asked, req, place, entry, target, meta, answer, copy>>
  BY <1>2 DEF reqVars
<1>4. FsInv'
  BY <1>1, WorldKeeps DEF StampInv
<1>5. StampInv'
  BY <1>1, StampsKept
<1>6. ReqInv'
  BY <1>1, <1>3 DEF ReqInv
<1>7. RangeInv'
  BY <1>1, <1>3 DEF RangeInv, RangeExact
<1>8. TagInv'
  <2>1. \A x \in stamps : /\ x \in stamps'
                          /\ Gone(x.ver) => Gone(x.ver)'
                          /\ \A n : Holds(n, x.ver) => Holds(n, x.ver)' \/ Gone(x.ver)'
    BY <1>1, VersionsLeave
  <2>2. SameTag => SameTag'
    BY <2>1 DEF SameTag
  <2>3. RevalidationSound'
    BY <1>1, <1>3, <2>2 DEF TagInv, RevalidationSound
  <2>4. (copy.tag # NoTime =>
           \E x \in stamps : copy.tag = <<x.size, x.mtime>> /\ (copy.ver = x.ver \/ Gone(x.ver)))'
    <3> SUFFICES ASSUME copy.tag # NoTime
                 PROVE  (\E x \in stamps : copy.tag = <<x.size, x.mtime>>
                                           /\ (copy.ver = x.ver \/ Gone(x.ver)))'
      BY <1>3
    <3>1. PICK x \in stamps : copy.tag = <<x.size, x.mtime>> /\ (copy.ver = x.ver \/ Gone(x.ver))
      BY <1>1 DEF TagInv
    <3> QED
      BY <1>3, <2>1, <3>1
  <2>5. (pc = "read" /\ meta.mtime # NoTime =>
           Stamp(meta) \in stamps /\ (Holds(target.name, meta.ver) \/ Gone(meta.ver)))'
    <3> SUFFICES ASSUME pc = "read", meta.mtime # NoTime
                 PROVE  (Stamp(meta) \in stamps /\ (Holds(target.name, meta.ver) \/ Gone(meta.ver)))'
      BY <1>3
    <3>1. Stamp(meta) \in stamps /\ (Holds(target.name, meta.ver) \/ Gone(meta.ver))
      BY <1>1 DEF TagInv
    <3>2. PICK x : x = Stamp(meta)
      OBVIOUS
    <3>3. x \in stamps /\ x.ver = meta.ver
      BY <3>1, <3>2 DEF Stamp
    <3>4. PICK n : n = target.name
      OBVIOUS
    <3>5. x \in stamps' /\ (Holds(n, x.ver)' \/ Gone(x.ver)')
      BY <2>1, <3>1, <3>3, <3>4
    <3>6. Holds(n, x.ver)' => Holds(target.name, meta.ver)'
      BY <1>3, <3>3, <3>4 DEF Holds
    <3>7. Gone(x.ver)' => Gone(meta.ver)'
      BY <1>3, <3>3 DEF Gone
    <3>8. Stamp(meta)' = x
      BY <1>3, <3>2 DEF Stamp
    <3> QED
      BY <3>5, <3>6, <3>7, <3>8
  <2> QED
    BY <2>3, <2>4, <2>5 DEF TagInv
<1>9. TryInv'
  <2>1. \A j : Candidate(j)' = Candidate(j)
    BY <1>3 DEF Candidate
  <2>2. \A t, j : Aimed(t, j)' <=> Aimed(t, j)
    BY <1>3 DEF Aimed
  <2> QED
    BY <1>1, <1>2, <1>3, <2>1, <2>2 DEF TryInv
<1> QED
  BY <1>4, <1>5, <1>6, <1>7, <1>8, <1>9 DEF ServeInv

\* A new request starts with nothing decided.
LEMMA ArriveServes ==
  ASSUME ServeInv, Accepted, NEW r \in Requests, Arrive(r)
  PROVE  ServeInv'
<1>1. FsInv /\ StampInv /\ ReqInv /\ RangeInv /\ TagInv /\ TryInv
  BY DEF ServeInv
<1>2. /\ req' = r /\ copy' = copy /\ asked < MaxRequests /\ asked' = asked + 1
      /\ UNCHANGED <<fsys, clock, edits, stamps>>
      /\ \A n \in steady' : n \in DOMAIN fsys /\ IsFile(fsys[n])
      /\ Len(place'.entries) \in Nat /\ DOMAIN place'.entries = 1..Len(place'.entries)
      /\ \/ /\ place'.entries = << >> /\ entry' = 0
            /\ \/ pc' = "idle" /\ answer'.status \in {403, 404, Configured}
               \/ pc' = "stat" /\ answer'.status = 0
         \/ /\ place'.entries # << >> /\ Len(place'.entries) # 0 /\ entry' = 1
            /\ pc' = "probe" /\ answer'.status = 0
  BY <1>1, ArriveIs
<1>3. Len(place'.entries) # 0 => 1 \in 0..Len(place'.entries)
  BY <1>2
<1>4. FsInv'
  BY <1>1, <1>2 DEF FsInv
<1>5. StampInv'
  BY <1>1, <1>2 DEF StampInv
<1>6. ReqInv'
  BY <1>1, <1>2, <1>3, StaticFilesAssumption DEF ReqInv
<1>7. answer'.status \in {0, 403, 404, Configured}
  BY <1>2
<1>8. RangeInv'
  BY <1>2, <1>7 DEF RangeInv, RangeExact, Configured
<1>9. TagInv'
  <2>1. \A v : Gone(v)' <=> Gone(v)
    BY <1>2 DEF Gone
  <2>2. RevalidationSound'
    BY <1>7 DEF RevalidationSound, Configured
  <2> QED
    BY <1>1, <1>2, <2>1, <2>2 DEF TagInv
<1>10. TryInv'
  BY <1>2 DEF TryInv
<1> QED
  BY <1>4, <1>5, <1>6, <1>8, <1>9, <1>10 DEF ServeInv

\* The inductive invariant of the whole site.
THEOREM SiteTracked == SiteSpec => [](LoadInv /\ Accepted /\ ServeInv)
<1>1. SiteInit => ServeInv
  BY ServeInitially DEF SiteInit
<1>2. LoadInv /\ Accepted /\ ServeInv /\ [SiteNext]_siteVars => ServeInv'
  <2> SUFFICES ASSUME Accepted, ServeInv, [SiteNext]_siteVars PROVE ServeInv'
    OBVIOUS
  <2>1. ASSUME NEW r \in Requests, Arrive(r) PROVE ServeInv'
    BY <2>1, ArriveServes
  <2>2. CASE ServeNext
    <3>1. ServeStep
      BY <2>2 DEF ServeNext
    <3>2. FsInv' /\ StampInv'
      BY <3>1, Outcomes DEF ServeInv, FsInv, StampInv, fsVars
    <3> QED
      BY <3>1, <3>2, ReqKept, RangeKept, TagKept, TryKept DEF ServeInv
  <2>3. CASE WorldNext
    BY <2>3, WorldServes DEF WorldNext
  <2>4. ASSUME LoadStep \/ Accept \/ Listen \/ UNCHANGED siteVars
        PROVE  UNCHANGED <<fsVars, reqVars>>
    BY <2>4 DEF LoadStep, Accept, Listen, siteVars
  <2>5. CASE UNCHANGED <<fsVars, reqVars>>
    <3>1. FsInv' /\ StampInv' /\ ReqInv'
      BY <2>5 DEF fsVars, reqVars, ServeInv, FsInv, StampInv, ReqInv
    <3>2. RangeInv'
      BY <2>5 DEF fsVars, reqVars, ServeInv, RangeInv, RangeExact
    <3>3. TagInv'
      BY <2>5 DEF fsVars, reqVars, ServeInv, TagInv, RevalidationSound, SameTag, Holds, Gone, Stamp
    <3>4. TryInv'
      BY <2>5 DEF fsVars, reqVars, ServeInv, TryInv, Candidate, Aimed
    <3> QED
      BY <3>1, <3>2, <3>3, <3>4 DEF ServeInv
  <2> QED
    BY <2>1, <2>2, <2>3, <2>4, <2>5 DEF SiteNext
<1> QED
  BY <1>1, <1>2, AcceptedTracked, PTL DEF SiteSpec

\* The types of the whole site: whatever the configuration and the requests, the
\* try_files loop stays within its entries (static_files.rs 366) and only statuses
\* that static_files.rs knows are sent.
THEOREM SiteTyped == SiteSpec => []SiteTypeOK
<1>1. LoadInv /\ ServeInv => SiteTypeOK
  <2> SUFFICES ASSUME LoadInv, ServeInv PROVE SiteTypeOK
    OBVIOUS
  <2>1. \A f \in Files : disk[f] \in 0..Len(Text[f])
    <3>1. \A f \in Files : Len(Text[f]) \in Nat
      BY ConfigLoadAssumption
    <3> QED
      BY <3>1 DEF LoadInv, LoadTypes
  <2> QED
    BY <2>1 DEF SiteTypeOK, LoadInv, LoadTypes, ServeInv, FsInv, ReqInv
<1> QED
  BY <1>1, SiteTracked, PTL

\* Whatever happens to the file between stat and read, a 206 carries exactly the bytes
\* that were asked for, and 200 and 416 are sent only when no byte of the range is
\* there to be sent (static_files.rs 101-148, 293-305, 319-353).
THEOREM RangeCorrect == SiteSpec => []RangeExact
<1>1. ServeInv => RangeExact
  BY DEF ServeInv, RangeInv
<1> QED
  BY <1>1, SiteTracked, PTL

\* For any number of edits and requests, a client told 304 has the version that was
\* looked at, unless two versions share size and second (static_files.rs 50, 88-99).
THEOREM RevalidationCorrect == SiteSpec => []RevalidationSound
<1>1. ServeInv => RevalidationSound
  BY DEF ServeInv, TagInv
<1> QED
  BY <1>1, SiteTracked, PTL

\* For any list of entries and any edits, try_files passes over no entry that stayed a
\* file, and never answers 404 for one (static_files.rs 359-424).
THEOREM TryFilesCorrect == SiteSpec => []TryFilesHonest
<1>1. ServeInv => TryFilesHonest
  <2> SUFFICES ASSUME ServeInv, answer.status # 0, pc = "idle", place.entries # << >>
               PROVE  /\ \A j \in DOMAIN place.entries : Candidate(j) \in steady => answer.entry <= j
                      /\ answer.status = 404 => Candidate(answer.entry) \notin steady
    BY DEF TryFilesHonest
  <2>1. /\ \A j \in 1..(entry - 1) : Candidate(j) \notin steady
        /\ answer.entry = entry /\ (answer.status = 404 => Candidate(entry) \notin steady)
    BY DEF ServeInv, TryInv
  <2>2. DOMAIN place.entries = 1..Len(place.entries) /\ Len(place.entries) \in Nat
        /\ entry \in 0..Len(place.entries)
    BY DEF ServeInv, ReqInv
  <2>3. ASSUME NEW j \in DOMAIN place.entries, Candidate(j) \in steady
        PROVE  entry <= j
    <3>1. j \notin 1..(entry - 1)
      BY <2>1, <2>3
    <3> QED
      BY <2>2, <3>1
  <2> QED
    BY <2>1, <2>3
<1> QED
  BY <1>1, SiteTracked, PTL
=============================================================================
