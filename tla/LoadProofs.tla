------------------------------ MODULE LoadProofs ------------------------------
(***************************************************************************)
(* Proofs about the parser and the loader for any configuration files: the *)
(* parser accepts what the grammar allows (ParseOk), what it returns reads *)
(* as the text it was given (ParseText), and every step of the loader      *)
(* keeps LoadMeans, from which LoadFaithful follows.                       *)
(*                                                                         *)
(* Txt(by, dirs) is the text of a tree, with by[f] for an include of f.    *)
(* The proof about the parser follows it token by token: outside of an     *)
(* include the blocks that are open make the text so far (Quiet), inside   *)
(* of one they lag behind it (Skips).  The proof about the loader follows  *)
(* it step by step: every call has a text, which is what it has done, then *)
(* the text of the call above it, then what it has to do (Passes), and the *)
(* text of the first call is that of the main file.  Which files are       *)
(* needed is read off the same texts: an include of a file outside of S    *)
(* leaves a mark, so that a tree without marks needs members of S only     *)
(* (Clean).                                                                *)
(*                                                                         *)
(* Induction over the depth of trees, the length of texts and the number   *)
(* of files is done with sets of numbers (LeastElement, NatSteps), and     *)
(* every recursive function is first shown to satisfy its equation.        *)
(***************************************************************************)
EXTENDS IncludeReference, SequenceTheorems, FiniteSetTheorems, WellFoundedInduction, TLAPS

\* Induction: a set of naturals that is not empty has a least member.
LEMMA LeastElement ==
  ASSUME NEW T \in SUBSET Nat, T # {}
  PROVE  \E m \in T : \A n \in T : m <= n
<1>1. IsWellFoundedOn(OpToRel(<, Nat), Nat)
  BY NatLessThanWellFounded
<1>2. PICK m \in T : \A n \in T : ~(<<n, m>> \in OpToRel(<, Nat))
  BY <1>1, WFMin
<1>3. \A n \in T : ~(n < m)
  BY <1>2 DEF OpToRel
<1> QED
  BY <1>3

\* The same, as a set that has 0 and the successors of its members.
LEMMA NatSteps ==
  ASSUME NEW T, NEW n \in Nat, 0 \in T,
         \A k \in Nat : k < n /\ k \in T => k + 1 \in T
  PROVE  \A k \in 0..n : k \in T
<1> DEFINE U == {k \in Nat : k <= n /\ k \notin T}
<1> SUFFICES ASSUME U # {} PROVE FALSE
  OBVIOUS
<1>1. PICK m \in U : \A k \in U : m <= k
  BY LeastElement
<1>2. m # 0
  BY <1>1
<1>3. PICK j \in Nat : m = j + 1
  <2>1. m - 1 \in Nat /\ m = (m - 1) + 1
    BY <1>1, <1>2
  <2> QED
    BY <2>1
<1>4. j < n /\ ~(m <= j)
  BY <1>1, <1>3
<1>5. j \in T
  BY <1>1, <1>4
<1> QED
  BY <1>1, <1>3, <1>4, <1>5

\* The two parts of a sequence that is not empty.
LEMMA FrontLast ==
  ASSUME NEW S, NEW s \in Seq(S), s # << >>
  PROVE  /\ Len(s) \in Nat \ {0}
         /\ Last(s) \in S
         /\ Front(s) \in Seq(S)
         /\ Len(Front(s)) = Len(s) - 1
         /\ \A i \in 1..(Len(s) - 1) : Front(s)[i] = s[i]
<1>1. Len(s) \in Nat \ {0}
  OBVIOUS
<1>2. Last(s) \in S
  BY <1>1 DEF Last
<1>3. PICK n \in Nat : Len(s) = n + 1
  BY <1>1
<1>4. Len(s) - 1 = n
  BY <1>3
<1>5. SubSeq(s, 1, n) \in Seq(S) /\ Len(SubSeq(s, 1, n)) = n
  BY <1>3
<1>6. \A i \in 1..n : SubSeq(s, 1, n)[i] = s[i]
  BY <1>3
<1> QED
  BY <1>1, <1>2, <1>4, <1>5, <1>6 DEF Front

-----------------------------------------------------------------------------
(***************************************************************************)
(* Concatenation, as the operation of a monoid                             *)
(***************************************************************************)
Cat(a, b) == a \o b

Monoid(M) ==
  /\ << >> \in M
  /\ \A a, b \in M : Cat(a, b) \in M
  /\ \A a \in M : Cat(a, << >>) = a /\ Cat(<< >>, a) = a
  /\ \A a, b, c \in M : Cat(Cat(a, b), c) = Cat(a, Cat(b, c))

LEMMA SeqMonoid ==
  ASSUME NEW X
  PROVE  Monoid(Seq(X))
<1>1. \A a, b \in Seq(X) : Cat(a, b) \in Seq(X)
  BY DEF Cat
<1>2. \A a \in Seq(X) : Cat(a, << >>) = a /\ Cat(<< >>, a) = a
  BY ConcatEmptySeq DEF Cat
<1>3. \A a, b, c \in Seq(X) : Cat(Cat(a, b), c) = Cat(a, Cat(b, c))
  BY ConcatAssociative DEF Cat
<1> QED
  BY <1>1, <1>2, <1>3 DEF Monoid

\* Rearranging brackets.
LEMMA CatFour ==
  ASSUME NEW M, Monoid(M), NEW a \in M, NEW b \in M, NEW c \in M, NEW d \in M
  PROVE  Cat(Cat(Cat(a, b), c), d) = Cat(a, Cat(b, Cat(c, d)))
<1>1. Cat(Cat(Cat(a, b), c), d) = Cat(Cat(a, b), Cat(c, d))
  BY DEF Monoid
<1>2. Cat(Cat(a, b), Cat(c, d)) = Cat(a, Cat(b, Cat(c, d)))
  BY DEF Monoid
<1> QED
  BY <1>1, <1>2

-----------------------------------------------------------------------------
(***************************************************************************)
(* Concatenation of the elements of a sequence                             *)
(***************************************************************************)

\* The equation of the recursive function of FlattenSeq.
Flattens(f, seqs) ==
  f = [i \in 1..Len(seqs) |-> IF i = 1 THEN seqs[i] ELSE f[i - 1] \o seqs[i]]

LEMMA FlattenIs ==
  ASSUME NEW seqs, Len(seqs) # 0
  PROVE  FlattenSeq(seqs) = (CHOOSE f : Flattens(f, seqs))[Len(seqs)]
BY DEF FlattenSeq, Flattens

LEMMA FlattenEmpty == FlattenSeq(<< >>) = << >>
BY DEF FlattenSeq

\* The elements up to n, concatenated step by step.
FlatSteps(f, seqs, n) ==
  \A i \in 1..n : f[i] = IF i = 1 THEN seqs[i] ELSE f[i - 1] \o seqs[i]
FlatRun(f, seqs, n, X) == f \in [1..n -> Seq(X)] /\ FlatSteps(f, seqs, n)

LEMMA FlattenExists ==
  ASSUME NEW X, NEW seqs \in Seq(Seq(X)), NEW n \in 1..Len(seqs)
  PROVE  \E f : FlatRun(f, seqs, n, X)
<1> DEFINE P(k, f) == FlatRun(f, seqs, k, X)
<1> DEFINE T == {k \in Nat : \E f : P(k + 1, f)}
<1>1. Len(seqs) \in Nat /\ n \in Nat /\ n - 1 \in Nat
  OBVIOUS
<1>2. 0 \in T
  <2>1. seqs[1] \in Seq(X)
    OBVIOUS
  <2>2. P(1, [i \in 1..1 |-> seqs[1]])
    BY <2>1 DEF FlatRun, FlatSteps
  <2>3. P(0 + 1, [i \in 1..1 |-> seqs[1]])
    BY <2>2
  <2> QED
    BY <2>3
<1>3. ASSUME NEW k \in Nat, k < n - 1, k \in T
      PROVE  k + 1 \in T
  <2>1. PICK f : P(k + 1, f)
    BY <1>3
  <2> DEFINE g == [i \in 1..(k + 2) |-> IF i = k + 2 THEN f[k + 1] \o seqs[k + 2] ELSE f[i]]
  <2>2. k + 2 \in 1..Len(seqs) /\ seqs[k + 2] \in Seq(X) /\ f[k + 1] \in Seq(X)
    BY <1>1, <1>3, <2>1 DEF FlatRun, FlatSteps
  <2>3. f[k + 1] \o seqs[k + 2] \in Seq(X)
    BY <2>2, ConcatProperties
  <2>4. g \in [1..(k + 2) -> Seq(X)]
    <3>1. \A i \in 1..(k + 2) : i # k + 2 => i \in 1..(k + 1)
      OBVIOUS
    <3> QED
      BY <2>1, <2>3, <3>1 DEF FlatRun, FlatSteps
  <2>5. ASSUME NEW i \in 1..(k + 2)
        PROVE  g[i] = IF i = 1 THEN seqs[i] ELSE g[i - 1] \o seqs[i]
    <3>1. CASE i = k + 2
      <4>1. k + 1 \in 1..(k + 2) /\ k + 1 # k + 2 /\ i # 1 /\ i - 1 = k + 1
        BY <3>1
      <4>2. g[k + 1] = f[k + 1] /\ g[i] = f[k + 1] \o seqs[k + 2]
        BY <3>1, <4>1
      <4> QED
        BY <3>1, <4>1, <4>2
    <3>2. CASE i # k + 2
      <4>1. i \in 1..(k + 1) /\ (i # 1 => i - 1 \in 1..(k + 1) /\ i - 1 # k + 2
              /\ i - 1 \in 1..(k + 2))
        BY <3>2
      <4>2. f[i] = IF i = 1 THEN seqs[i] ELSE f[i - 1] \o seqs[i]
        BY <2>1, <4>1 DEF FlatRun, FlatSteps
      <4>3. g[i] = f[i] /\ (i # 1 => g[i - 1] = f[i - 1])
        BY <3>2, <4>1
      <4> QED
        BY <4>2, <4>3
    <3> QED
      BY <3>1, <3>2
  <2> HIDE DEF g
  <2>6. (k + 1) + 1 = k + 2
    OBVIOUS
  <2>7. P(k + 2, g)
    BY <2>4, <2>5 DEF FlatRun, FlatSteps
  <2>8. P((k + 1) + 1, g)
    BY <2>6, <2>7
  <2> QED
    BY <2>8
<1> HIDE DEF T
<1>4. n - 1 \in T
  <2>1. n - 1 \in 0..(n - 1)
    BY <1>1
  <2> QED
    BY <1>1, <1>2, <1>3, <2>1, NatSteps
<1>5. (n - 1) + 1 = n
  BY <1>1
<1> QED
  BY <1>4, <1>5 DEF T

\* The steps up to n depend on the first n elements only.
LEMMA FlatSame ==
  ASSUME NEW f, NEW g, NEW s, NEW t, NEW n \in Nat, \A i \in 1..n : s[i] = t[i],
         FlatSteps(f, s, n), FlatSteps(g, t, n)
  PROVE  \A i \in 1..n : f[i] = g[i]
<1> DEFINE T == {k \in Nat : k \in 1..n => g[k] = f[k]}
<1>1. \A k \in 0..n : k \in T
  <2>1. 0 \in T
    OBVIOUS
  <2>2. ASSUME NEW k \in Nat, k < n, k \in T
        PROVE  k + 1 \in T
    <3>1. k + 1 \in 1..n /\ (k + 1) - 1 = k /\ k + 1 \in Nat
      BY <2>2
    <3>2. CASE k = 0
      <4>1. k + 1 = 1
        BY <3>2
      <4>2. g[k + 1] = t[k + 1] /\ f[k + 1] = s[k + 1]
        BY <3>1, <4>1 DEF FlatSteps
      <4> QED
        BY <3>1, <4>2
    <3>3. CASE k # 0
      <4>1. k + 1 # 1 /\ k \in 1..n
        BY <2>2, <3>3
      <4>2. g[k + 1] = g[k] \o t[k + 1] /\ f[k + 1] = f[k] \o s[k + 1]
        BY <3>1, <4>1 DEF FlatSteps
      <4>3. g[k] = f[k] /\ t[k + 1] = s[k + 1]
        BY <2>2, <3>1, <4>1
      <4> QED
        BY <3>1, <4>2, <4>3
    <3> QED
      BY <3>2, <3>3
  <2> HIDE DEF T
  <2> QED
    BY <2>1, <2>2, NatSteps
<1> QED
  BY <1>1

LEMMA FlattenEquation ==
  ASSUME NEW X, NEW seqs \in Seq(Seq(X)), Len(seqs) # 0
  PROVE  \E f : FlatRun(f, seqs, Len(seqs), X) /\ FlattenSeq(seqs) = f[Len(seqs)]
<1> DEFINE n == Len(seqs)
<1>1. n \in Nat /\ n \in 1..n
  OBVIOUS
<1>2. PICK f : FlatRun(f, seqs, n, X)
  BY <1>1, FlattenExists
<1>3. Flattens(f, seqs)
  BY <1>2, Zenon DEF Flattens, FlatRun, FlatSteps
<1>4. PICK g : g = CHOOSE h : Flattens(h, seqs)
  OBVIOUS
<1>5. Flattens(g, seqs)
  BY <1>3, <1>4
<1>6. FlatSteps(f, seqs, n) /\ FlatSteps(g, seqs, n)
  BY <1>2, <1>5, Zenon DEF Flattens, FlatRun, FlatSteps
<1>7. \A i \in 1..n : f[i] = g[i]
  BY <1>1, <1>6, FlatSame
<1>8. FlattenSeq(seqs) = f[n]
  BY <1>1, <1>4, <1>7, FlattenIs
<1> QED
  BY <1>2, <1>8

LEMMA FlattenTyped ==
  ASSUME NEW X, NEW seqs \in Seq(Seq(X))
  PROVE  FlattenSeq(seqs) \in Seq(X)
<1>1. CASE Len(seqs) = 0
  <2>1. seqs = << >> /\ << >> \in Seq(X)
    BY <1>1
  <2> QED
    BY <2>1, FlattenEmpty, Zenon
<1>2. CASE Len(seqs) # 0
  <2>1. PICK f : FlatRun(f, seqs, Len(seqs), X) /\ FlattenSeq(seqs) = f[Len(seqs)]
    BY <1>2, FlattenEquation
  <2>2. Len(seqs) \in 1..Len(seqs)
    BY <1>2
  <2> QED
    BY <2>1, <2>2 DEF FlatRun, FlatSteps
<1> QED
  BY <1>1, <1>2

LEMMA FlattenAppend ==
  ASSUME NEW X, NEW s \in Seq(Seq(X)), NEW x \in Seq(X)
  PROVE  FlattenSeq(Append(s, x)) = FlattenSeq(s) \o x
<1> DEFINE t == Append(s, x)
<1> DEFINE n == Len(s)
<1>1. /\ t \in Seq(Seq(X)) /\ Len(t) = n + 1 /\ n \in Nat /\ t[n + 1] = x
      /\ \A i \in 1..n : t[i] = s[i]
  OBVIOUS
<1> HIDE DEF t
<1>2. PICK g : FlatRun(g, t, n + 1, X) /\ FlattenSeq(t) = g[n + 1]
  BY <1>1, FlattenEquation
<1>3. n + 1 \in 1..(n + 1)
  BY <1>1
<1>4. CASE n = 0
  <2>1. s = << >> /\ n + 1 = 1
    BY <1>4
  <2>2. g[n + 1] = x
    BY <1>1, <1>2, <1>3, <2>1 DEF FlatRun, FlatSteps
  <2>3. << >> \o x = x
    BY ConcatEmptySeq
  <2> QED
    BY <1>2, <2>1, <2>2, <2>3, FlattenEmpty DEF t
<1>5. CASE n # 0
  <2>1. PICK f : FlatRun(f, s, n, X) /\ FlattenSeq(s) = f[n]
    BY <1>5, FlattenEquation
  <2>2. n + 1 # 1 /\ (n + 1) - 1 = n /\ n \in 1..n /\ \A i \in 1..n : i \in 1..(n + 1)
    BY <1>1, <1>5
  <2>3. g[n + 1] = g[n] \o x
    BY <1>1, <1>2, <1>3, <2>2 DEF FlatRun, FlatSteps
  <2>4. FlatSteps(f, s, n) /\ FlatSteps(g, t, n)
    BY <1>2, <2>1, <2>2, Zenon DEF FlatRun, FlatSteps
  <2>5. \A i \in 1..n : f[i] = g[i]
    BY <1>1, <2>4, FlatSame, ZenonT(60)
  <2> QED
    BY <1>2, <2>1, <2>2, <2>3, <2>5 DEF t
<1> QED
  BY <1>4, <1>5

LEMMA FlattenOne ==
  ASSUME NEW X, NEW x \in Seq(X)
  PROVE  FlattenSeq(<<x>>) = x
<1>1. <<x>> = Append(<< >>, x) /\ << >> \in Seq(Seq(X)) /\ << >> \o x = x
  BY ConcatEmptySeq
<1> QED
  BY <1>1, FlattenAppend, FlattenEmpty

LEMMA FlattenConcat ==
  ASSUME NEW X, NEW s \in Seq(Seq(X)), NEW t \in Seq(Seq(X))
  PROVE  FlattenSeq(s \o t) = FlattenSeq(s) \o FlattenSeq(t)
<1> DEFINE T == {k \in Nat : \A u \in Seq(Seq(X)) :
                   Len(u) = k => FlattenSeq(s \o u) = FlattenSeq(s) \o FlattenSeq(u)}
<1>1. 0 \in T
  <2> SUFFICES ASSUME NEW u \in Seq(Seq(X)), Len(u) = 0
               PROVE  FlattenSeq(s \o u) = FlattenSeq(s) \o FlattenSeq(u)
    OBVIOUS
  <2>1. u = << >> /\ s \o u = s
    BY ConcatEmptySeq
  <2>2. FlattenSeq(s) \o << >> = FlattenSeq(s)
    BY FlattenTyped, ConcatEmptySeq
  <2> QED
    BY <2>1, <2>2, FlattenEmpty
<1>2. ASSUME NEW k \in Nat, k \in T
      PROVE  k + 1 \in T
  <2> SUFFICES ASSUME NEW u \in Seq(Seq(X)), Len(u) = k + 1
               PROVE  FlattenSeq(s \o u) = FlattenSeq(s) \o FlattenSeq(u)
    OBVIOUS
  <2>1. PICK v \in Seq(Seq(X)), x \in Seq(X) : u = Append(v, x)
    <3>1. u # << >>
      OBVIOUS
    <3> QED
      BY <3>1, SequenceEmptyOrAppend
  <2>2. Len(v) = k
    BY <2>1
  <2>3. s \o u = Append(s \o v, x) /\ s \o v \in Seq(Seq(X))
    BY <2>1
  <2>4. FlattenSeq(s \o v) = FlattenSeq(s) \o FlattenSeq(v)
    BY <1>2, <2>2
  <2>5. FlattenSeq(s \o u) = (FlattenSeq(s) \o FlattenSeq(v)) \o x
    BY <2>3, <2>4, FlattenAppend
  <2>6. FlattenSeq(u) = FlattenSeq(v) \o x
    BY <2>1, FlattenAppend
  <2>7. (FlattenSeq(s) \o FlattenSeq(v)) \o x = FlattenSeq(s) \o (FlattenSeq(v) \o x)
    <3>1. FlattenSeq(s) \in Seq(X) /\ FlattenSeq(v) \in Seq(X)
      BY FlattenTyped
    <3>2. PICK p, q : p = FlattenSeq(s) /\ q = FlattenSeq(v)
      OBVIOUS
    <3>3. Cat(Cat(p, q), x) = Cat(p, Cat(q, x))
      BY <3>1, <3>2, SeqMonoid DEF Monoid
    <3> QED
      BY <3>2, <3>3 DEF Cat
  <2> QED
    BY <2>5, <2>6, <2>7
<1>3. Len(t) \in Nat /\ Len(t) \in 0..Len(t)
  OBVIOUS
<1> HIDE DEF T
<1>4. Len(t) \in T
  BY <1>1, <1>2, <1>3, NatSteps
<1> QED
  BY <1>4 DEF T

LEMMA ToSetConcat ==
  ASSUME NEW X, NEW s \in Seq(X), NEW t \in Seq(X)
  PROVE  ToSet(s \o t) = ToSet(s) \cup ToSet(t)
<1>1. /\ s \o t \in Seq(X) /\ Len(s \o t) = Len(s) + Len(t)
      /\ \A i \in 1..(Len(s) + Len(t)) :
           (s \o t)[i] = IF i <= Len(s) THEN s[i] ELSE t[i - Len(s)]
  BY ConcatProperties
<1>2. /\ Len(s) \in Nat /\ Len(t) \in Nat /\ DOMAIN s = 1..Len(s) /\ DOMAIN t = 1..Len(t)
      /\ DOMAIN (s \o t) = 1..(Len(s) + Len(t))
  BY <1>1
<1>3. ASSUME NEW x \in ToSet(s \o t)
      PROVE  x \in ToSet(s) \cup ToSet(t)
  <2>1. PICK i \in 1..(Len(s) + Len(t)) : x = (s \o t)[i]
    BY <1>2 DEF ToSet
  <2>2. i <= Len(s) => i \in DOMAIN s /\ x = s[i]
    BY <1>1, <1>2, <2>1
  <2>3. ~(i <= Len(s)) => i - Len(s) \in DOMAIN t /\ x = t[i - Len(s)]
    BY <1>1, <1>2, <2>1
  <2> QED
    BY <2>2, <2>3 DEF ToSet
<1>4. ASSUME NEW x \in ToSet(s)
      PROVE  x \in ToSet(s \o t)
  <2>1. PICK i \in 1..Len(s) : x = s[i]
    BY <1>2 DEF ToSet
  <2>2. i \in DOMAIN (s \o t) /\ (s \o t)[i] = x
    BY <1>1, <1>2, <2>1
  <2> QED
    BY <2>2 DEF ToSet
<1>5. ASSUME NEW x \in ToSet(t)
      PROVE  x \in ToSet(s \o t)
  <2>1. PICK i \in 1..Len(t) : x = t[i]
    BY <1>2 DEF ToSet
  <2>2. /\ Len(s) + i \in DOMAIN (s \o t) /\ ~(Len(s) + i <= Len(s)) /\ (Len(s) + i) - Len(s) = i
        /\ Len(s) + i \in 1..(Len(s) + Len(t))
    BY <1>2, <2>1
  <2>3. (s \o t)[Len(s) + i] = x
    BY <1>1, <2>1, <2>2
  <2> QED
    BY <2>2, <2>3 DEF ToSet
<1> QED
  BY <1>3, <1>4, <1>5

\* What is in the concatenation is in one of the parts, and no part is longer.
LEMMA FlattenParts ==
  ASSUME NEW X, NEW seqs \in Seq(Seq(X))
  PROVE  /\ ToSet(FlattenSeq(seqs)) = UNION {ToSet(seqs[i]) : i \in 1..Len(seqs)}
         /\ \A i \in 1..Len(seqs) : Len(seqs[i]) <= Len(FlattenSeq(seqs))
<1> DEFINE P(u) == /\ ToSet(FlattenSeq(u)) = UNION {ToSet(u[i]) : i \in 1..Len(u)}
                   /\ \A i \in 1..Len(u) : Len(u[i]) <= Len(FlattenSeq(u))
<1> DEFINE T == {k \in Nat : \A u \in Seq(Seq(X)) : Len(u) = k => P(u)}
<1>1. 0 \in T
  <2> SUFFICES ASSUME NEW u \in Seq(Seq(X)), Len(u) = 0 PROVE P(u)
    OBVIOUS
  <2>1. u = << >> /\ 1..Len(u) = {}
    OBVIOUS
  <2>2. ToSet(<< >>) = {}
    BY DEF ToSet
  <2> QED
    BY <2>1, <2>2, FlattenEmpty
<1>2. ASSUME NEW k \in Nat, k \in T
      PROVE  k + 1 \in T
  <2> SUFFICES ASSUME NEW u \in Seq(Seq(X)), Len(u) = k + 1 PROVE P(u)
    OBVIOUS
  <2>1. PICK v \in Seq(Seq(X)), x \in Seq(X) : u = Append(v, x)
    <3>1. u # << >>
      OBVIOUS
    <3> QED
      BY <3>1, SequenceEmptyOrAppend
  <2>2. Len(v) = k /\ u[k + 1] = x /\ \A i \in 1..k : u[i] = v[i]
    BY <2>1
  <2>3. P(v)
    BY <1>2, <2>2
  <2>4. FlattenSeq(u) = FlattenSeq(v) \o x /\ FlattenSeq(v) \in Seq(X)
    BY <2>1, FlattenAppend, FlattenTyped
  <2>5. ToSet(FlattenSeq(u)) = ToSet(FlattenSeq(v)) \cup ToSet(x)
    BY <2>4, ToSetConcat
  <2>6. 1..Len(u) = (1..k) \cup {k + 1}
    OBVIOUS
  <2>7. ToSet(FlattenSeq(u)) = UNION {ToSet(u[i]) : i \in 1..Len(u)}
    <3>1. ASSUME NEW y, \E i \in 1..Len(u) : y \in ToSet(u[i])
          PROVE  y \in ToSet(FlattenSeq(v)) \cup ToSet(x)
      <4>1. PICK i \in 1..Len(u) : y \in ToSet(u[i])
        BY <3>1
      <4>2. i = k + 1 \/ (i \in 1..k /\ i \in 1..Len(v))
        BY <2>2, <2>6
      <4> QED
        BY <2>2, <2>3, <4>1, <4>2
    <3>2. ASSUME NEW y \in ToSet(x)
          PROVE  \E i \in 1..Len(u) : y \in ToSet(u[i])
      BY <2>2, <2>6
    <3>3. ASSUME NEW y \in ToSet(FlattenSeq(v))
          PROVE  \E i \in 1..Len(u) : y \in ToSet(u[i])
      <4>1. PICK i \in 1..Len(v) : y \in ToSet(v[i])
        BY <2>3
      <4> QED
        BY <2>2, <2>6, <4>1
    <3> QED
      BY <2>5, <3>1, <3>2, <3>3
  <2>8. /\ Len(FlattenSeq(u)) = Len(FlattenSeq(v)) + Len(x)
        /\ Len(FlattenSeq(v)) \in Nat /\ Len(x) \in Nat
    BY <2>4, ConcatProperties
  <2>9. ASSUME NEW i \in 1..Len(u)
        PROVE  Len(u[i]) <= Len(FlattenSeq(u))
    <3>1. CASE i = k + 1
      BY <2>2, <2>8, <3>1
    <3>2. CASE i \in 1..k
      <4>1. v[i] \in Seq(X)
        BY <2>2, <3>2
      <4>2. Len(u[i]) <= Len(FlattenSeq(v)) /\ Len(u[i]) \in Nat
        BY <2>2, <2>3, <3>2, <4>1
      <4> QED
        BY <2>8, <4>2
    <3> QED
      BY <2>6, <3>1, <3>2
  <2> QED
    BY <2>7, <2>9
<1>3. Len(seqs) \in Nat /\ Len(seqs) \in 0..Len(seqs)
  OBVIOUS
<1> HIDE DEF T
<1>4. Len(seqs) \in T
  BY <1>1, <1>2, <1>3, NatSteps
<1> QED
  BY <1>4 DEF T

-----------------------------------------------------------------------------
(***************************************************************************)
(* Recursion over the naturals                                             *)
(***************************************************************************)
Iterates(f, first, F) ==
  f[0] = first /\ \A n \in Nat : f[n + 1] = F[n][f[n]]

LEMMA RecursionExists ==
  ASSUME NEW V, NEW first \in V, NEW F \in [Nat -> [V -> V]]
  PROVE  \E f \in [Nat -> V] : Iterates(f, first, F)
<1> DEFINE P(f, n) == /\ f \in [Nat -> V] /\ f[0] = first
                      /\ \A i \in Nat : i < n => f[i + 1] = F[i][f[i]]
<1>1. \A n \in Nat : \E f : P(f, n)
  <2> DEFINE T == {n \in Nat : \E f : P(f, n)}
  <2>1. 0 \in T
    <3>1. P([i \in Nat |-> first], 0)
      OBVIOUS
    <3> QED
      BY <3>1
  <2>2. ASSUME NEW n \in Nat, n \in T
        PROVE  n + 1 \in T
    <3>1. PICK f : P(f, n)
      BY <2>2
    <3> DEFINE g == [f EXCEPT ![n + 1] = F[n][f[n]]]
    <3>2. f[n] \in V /\ F[n] \in [V -> V] /\ F[n][f[n]] \in V /\ n + 1 \in Nat /\ n + 1 # 0
      BY <3>1
    <3>3. g \in [Nat -> V] /\ g[n + 1] = F[n][f[n]] /\ \A i \in Nat : i # n + 1 => g[i] = f[i]
      BY <3>1, <3>2
    <3> HIDE DEF g
    <3>4. ASSUME NEW i \in Nat, i < n + 1
          PROVE  g[i + 1] = F[i][g[i]]
      <4>1. g[i] = f[i]
        BY <3>3, <3>4
      <4>2. CASE i = n
        BY <3>3, <4>1, <4>2
      <4>3. CASE i # n
        <5>1. i < n /\ i + 1 \in Nat /\ i + 1 # n + 1
          BY <3>4, <4>3
        <5> QED
          BY <3>1, <3>3, <4>1, <5>1
      <4> QED
        BY <4>2, <4>3
    <3>5. g[0] = first
      BY <3>1, <3>2, <3>3
    <3>6. P(g, n + 1)
      BY <3>3, <3>4, <3>5
    <3> HIDE DEF P
    <3> QED
      BY <3>2, <3>6
  <2> HIDE DEF T
  <2>3. ASSUME NEW n \in Nat PROVE n \in T
    <3>1. n \in 0..n
      OBVIOUS
    <3> QED
      BY <2>1, <2>2, <3>1, NatSteps
  <2> QED
    BY <2>3 DEF T
<1>2. ASSUME NEW f, NEW g, NEW n \in Nat, P(f, n), P(g, n)
      PROVE  f[n] = g[n]
  <2> DEFINE T == {i \in Nat : f[i] = g[i]}
  <2>1. 0 \in T
    BY <1>2
  <2>2. ASSUME NEW k \in Nat, k < n, k \in T PROVE k + 1 \in T
    BY <1>2, <2>2
  <2>3. n \in 0..n
    OBVIOUS
  <2> HIDE DEF T
  <2>4. n \in T
    BY <2>1, <2>2, <2>3, NatSteps
  <2> QED
    BY <2>4 DEF T
<1>3. ASSUME NEW f, NEW n \in Nat, P(f, n + 1)
      PROVE  P(f, n) /\ f[n + 1] = F[n][f[n]]
  BY <1>3
<1>4. ASSUME NEW f, NEW n \in Nat, P(f, n)
      PROVE  f[n] \in V /\ (n = 0 => f[n] = first)
  BY <1>4
<1> HIDE DEF P
<1> DEFINE run(n) == CHOOSE f : P(f, n)
<1> DEFINE h == [n \in Nat |-> run(n)[n]]
<1>5. \A n \in Nat : P(run(n), n)
  BY <1>1
<1> HIDE DEF run
<1>6. h \in [Nat -> V] /\ h[0] = first
  BY <1>4, <1>5
<1>7. ASSUME NEW n \in Nat
      PROVE  h[n + 1] = F[n][h[n]]
  <2>1. n + 1 \in Nat
    OBVIOUS
  <2>2. h[n] = run(n)[n] /\ h[n + 1] = run(n + 1)[n + 1]
    BY <2>1
  <2>3. P(run(n + 1), n) /\ run(n + 1)[n + 1] = F[n][run(n + 1)[n]]
    BY <1>3, <1>5, <2>1
  <2>4. run(n + 1)[n] = run(n)[n]
    BY <1>2, <1>5, <2>3
  <2> QED
    BY <2>2, <2>3, <2>4
<1> HIDE DEF h
<1> QED
  BY <1>6, <1>7 DEF Iterates

-----------------------------------------------------------------------------
(***************************************************************************)
(* Trees of directives                                                     *)
(***************************************************************************)

\* Directives without a block, or with one from B.
Over(B) == [name : Tokens, args : Seq(Tokens), ends : {";"}, block : {<< >>}]
             \cup [name : Tokens, args : Seq(Tokens), ends : {"}"}, block : B]

LEMMA OverMonotonic ==
  ASSUME NEW B, NEW C, B \subseteq C
  PROVE  Over(B) \subseteq Over(C)
BY DEF Over

LEMMA OverFields ==
  ASSUME NEW D, NEW d \in Over(Seq(D))
  PROVE  /\ d = [name |-> d.name, args |-> d.args, ends |-> d.ends, block |-> d.block]
         /\ d.name \in Tokens /\ d.args \in Seq(Tokens) /\ d.ends \in {";", "}"}
         /\ d.block \in Seq(D)
         /\ d.ends = ";" => d.block = << >>
<1>1. CASE d \in [name : Tokens, args : Seq(Tokens), ends : {";"}, block : {<< >>}]
  <2>1. d.block = << >>
    BY <1>1, Zenon
  <2>3. << >> \in Seq(D)
    OBVIOUS
  <2>2. d.block \in Seq(D)
    BY <2>1, <2>3, Zenon
  <2> QED
    BY <1>1, <2>1, <2>2
<1>2. CASE d \in [name : Tokens, args : Seq(Tokens), ends : {"}"}, block : Seq(D)]
  BY <1>2
<1> QED
  BY <1>1, <1>2 DEF Over

\* A directive of that kind.
LEMMA OverHas ==
  ASSUME NEW B, NEW n \in Tokens, NEW a \in Seq(Tokens), NEW b \in B
  PROVE  /\ [name |-> n, args |-> a, ends |-> "}", block |-> b] \in Over(B)
         /\ [name |-> n, args |-> a, ends |-> ";", block |-> << >>] \in Over(B)
BY DEF Over

LEMMA NestedExists ==
  \E f : f = [n \in Nat |-> IF n = 0 THEN {} ELSE Over(Seq(f[n - 1]))]
<1> DEFINE P(f, n) == \A i \in 0..n : f[i] = IF i = 0 THEN {} ELSE Over(Seq(f[i - 1]))
<1>1. \A n \in Nat : \E f : P(f, n)
  <2> DEFINE T == {n \in Nat : \E f : P(f, n)}
  <2>1. 0 \in T
    <3>1. P([i \in 0..0 |-> {}], 0)
      OBVIOUS
    <3> QED
      BY <3>1
  <2>2. ASSUME NEW n \in Nat, n \in T
        PROVE  n + 1 \in T
    <3>1. PICK f : P(f, n)
      BY <2>2
    <3> DEFINE g == [i \in 0..(n + 1) |-> IF i = n + 1 THEN Over(Seq(f[n])) ELSE f[i]]
    <3>2. g[n + 1] = Over(Seq(f[n])) /\ \A i \in 0..n : g[i] = f[i]
      OBVIOUS
    <3> HIDE DEF g
    <3>3. ASSUME NEW i \in 0..(n + 1)
          PROVE  g[i] = IF i = 0 THEN {} ELSE Over(Seq(g[i - 1]))
      <4>1. CASE i = n + 1
        <5>1. i # 0 /\ i - 1 = n /\ n \in 0..n
          BY <4>1
        <5> QED
          BY <3>2, <4>1, <5>1
      <4>2. CASE i # n + 1
        <5>1. i \in 0..n /\ (i # 0 => i - 1 \in 0..n)
          BY <4>2
        <5>2. f[i] = IF i = 0 THEN {} ELSE Over(Seq(f[i - 1]))
          BY <3>1, <5>1
        <5> QED
          BY <3>2, <5>1, <5>2
      <4> QED
        BY <4>1, <4>2
    <3>4. P(g, n + 1)
      BY <3>3
    <3> HIDE DEF P
    <3> QED
      BY <3>4
  <2> HIDE DEF T
  <2>3. ASSUME NEW n \in Nat PROVE n \in T
    <3>1. n \in 0..n
      OBVIOUS
    <3> QED
      BY <2>1, <2>2, <3>1, NatSteps
  <2> QED
    BY <2>3 DEF T
<1>2. ASSUME NEW f, NEW g, NEW n \in Nat, P(f, n), P(g, n)
      PROVE  f[n] = g[n]
  <2> DEFINE T == {i \in Nat : f[i] = g[i]}
  <2>1. 0 \in T
    <3>1. 0 \in 0..n
      OBVIOUS
    <3>2. f[0] = {} /\ g[0] = {}
      BY <1>2, <3>1
    <3> QED
      BY <3>2
  <2>2. ASSUME NEW k \in Nat, k < n, k \in T PROVE k + 1 \in T
    <3>1. k + 1 \in 0..n /\ k + 1 # 0 /\ (k + 1) - 1 = k
      BY <2>2
    <3>2. f[k + 1] = Over(Seq(f[k])) /\ g[k + 1] = Over(Seq(g[k]))
      BY <1>2, <3>1
    <3> QED
      BY <2>2, <3>2
  <2>3. n \in 0..n
    OBVIOUS
  <2> HIDE DEF T
  <2>4. n \in T
    BY <2>1, <2>2, <2>3, NatSteps
  <2> QED
    BY <2>4 DEF T
<1>3. ASSUME NEW f, NEW n \in Nat, P(f, n + 1)
      PROVE  P(f, n) /\ f[n + 1] = Over(Seq(f[n]))
  <2>1. n + 1 \in 0..(n + 1) /\ n + 1 # 0 /\ (n + 1) - 1 = n /\ \A i \in 0..n : i \in 0..(n + 1)
    OBVIOUS
  <2> QED
    BY <1>3, <2>1
<1>4. ASSUME NEW f, P(f, 0)
      PROVE  f[0] = {}
  BY <1>4
<1> HIDE DEF P
<1> DEFINE run(n) == CHOOSE f : P(f, n)
<1>5. \A n \in Nat : P(run(n), n)
  BY <1>1
<1> HIDE DEF run
<1> DEFINE h == [n \in Nat |-> run(n)[n]]
<1>6. ASSUME NEW n \in Nat
      PROVE  h[n] = IF n = 0 THEN {} ELSE Over(Seq(h[n - 1]))
  <2>1. CASE n = 0
    BY <1>4, <1>5, <2>1
  <2>2. CASE n # 0
    <3>1. n - 1 \in Nat /\ (n - 1) + 1 = n
      BY <2>2
    <3>2. P(run(n), n - 1) /\ run(n)[n] = Over(Seq(run(n)[n - 1]))
      BY <1>3, <1>5, <3>1
    <3>3. run(n)[n - 1] = run(n - 1)[n - 1]
      BY <1>2, <1>5, <3>1, <3>2
    <3> QED
      BY <2>2, <3>1, <3>2, <3>3
  <2> QED
    BY <2>1, <2>2
<1>7. h = [n \in Nat |-> h[n]]
  OBVIOUS
<1> HIDE DEF h
<1>8. h = [n \in Nat |-> IF n = 0 THEN {} ELSE Over(Seq(h[n - 1]))]
  BY <1>6, <1>7, Zenon
<1> QED
  BY <1>8

LEMMA NestedEquation ==
  \A n \in Nat : Nested[n] = IF n = 0 THEN {} ELSE Over(Seq(Nested[n - 1]))
<1>1. Nested = CHOOSE f : f = [n \in Nat |-> IF n = 0 THEN {} ELSE Over(Seq(f[n - 1]))]
  BY DEF Nested, Over
<1>2. Nested = [n \in Nat |-> IF n = 0 THEN {} ELSE Over(Seq(Nested[n - 1]))]
  BY <1>1, NestedExists, Zenon
<1> QED
  BY <1>2, Zenon

LEMMA NestedStep ==
  /\ Nested[0] = {}
  /\ \A n \in Nat : Nested[n + 1] = Over(Seq(Nested[n]))
<1>1. Nested[0] = {}
  BY NestedEquation
<1>2. ASSUME NEW n \in Nat PROVE Nested[n + 1] = Over(Seq(Nested[n]))
  <2>1. n + 1 \in Nat /\ n + 1 # 0 /\ (n + 1) - 1 = n
    OBVIOUS
  <2> QED
    BY <2>1, NestedEquation
<1> QED
  BY <1>1, <1>2

LEMMA NestedMonotonic ==
  ASSUME NEW m \in Nat, NEW n \in Nat, m <= n
  PROVE  Nested[m] \subseteq Nested[n] /\ Seq(Nested[m]) \subseteq Seq(Nested[n])
<1> DEFINE T == {k \in Nat : Nested[k] \subseteq Nested[k + 1]}
<1>1. 0 \in T
  BY NestedStep
<1>2. ASSUME NEW k \in Nat, k \in T PROVE k + 1 \in T
  <2>1. Nested[k + 1] = Over(Seq(Nested[k])) /\ Nested[(k + 1) + 1] = Over(Seq(Nested[k + 1]))
    BY NestedStep
  <2>2. Seq(Nested[k]) \subseteq Seq(Nested[k + 1])
    BY <1>2, SeqMonotonic
  <2>3. Over(Seq(Nested[k])) \subseteq Over(Seq(Nested[k + 1]))
    BY <2>2, OverMonotonic
  <2>4. Nested[k + 1] \subseteq Nested[(k + 1) + 1]
    BY <2>1, <2>3
  <2> QED
    BY <2>4
<1>3. ASSUME NEW k \in Nat PROVE k \in T
  <2>1. k \in 0..k
    OBVIOUS
  <2> HIDE DEF T
  <2> QED
    BY <1>1, <1>2, <2>1, NatSteps
<1> DEFINE U == {k \in Nat : m <= k => Nested[m] \subseteq Nested[k]}
<1>4. 0 \in U
  OBVIOUS
<1>5. ASSUME NEW k \in Nat, k \in U PROVE k + 1 \in U
  <2>1. m <= k + 1 => m <= k \/ m = k + 1
    OBVIOUS
  <2> QED
    BY <1>3, <1>5, <2>1
<1>6. n \in U
  <2>1. n \in 0..n
    OBVIOUS
  <2> HIDE DEF U
  <2> QED
    BY <1>4, <1>5, <2>1, NatSteps
<1>7. Nested[m] \subseteq Nested[n]
  BY <1>6
<1> QED
  BY <1>7, SeqMonotonic

\* All directives, with blocks that nest to any depth.
Directives == UNION {Nested[n] : n \in Nat}

LEMMA SeqDepth ==
  ASSUME NEW dirs \in Seq(Directives)
  PROVE  \E n \in Nat : dirs \in Seq(Nested[n])
<1> DEFINE T == {k \in Nat : \A s \in Seq(Directives) :
                   Len(s) = k => \E n \in Nat : s \in Seq(Nested[n])}
<1>1. 0 \in T
  <2>1. ASSUME NEW s \in Seq(Directives), Len(s) = 0 PROVE s \in Seq(Nested[0])
    <3>1. s = << >>
      BY <2>1
    <3> QED
      BY <3>1
  <2> QED
    BY <2>1
<1>2. ASSUME NEW k \in Nat, k \in T PROVE k + 1 \in T
  <2> SUFFICES ASSUME NEW s \in Seq(Directives), Len(s) = k + 1
               PROVE  \E n \in Nat : s \in Seq(Nested[n])
    OBVIOUS
  <2>1. PICK r \in Seq(Directives), d \in Directives : s = Append(r, d)
    <3>1. s # << >>
      OBVIOUS
    <3> QED
      BY <3>1, SequenceEmptyOrAppend
  <2>2. Len(r) = k
    BY <2>1
  <2>3. PICK i \in Nat : r \in Seq(Nested[i])
    BY <1>2, <2>2
  <2>4. PICK j \in Nat : d \in Nested[j]
    BY DEF Directives
  <2>5. PICK n \in Nat : i <= n /\ j <= n
    <3>1. i <= i + j /\ j <= i + j /\ i + j \in Nat
      OBVIOUS
    <3> QED
      BY <3>1
  <2>6. r \in Seq(Nested[n]) /\ d \in Nested[n]
    BY <2>3, <2>4, <2>5, NestedMonotonic
  <2>7. s \in Seq(Nested[n])
    BY <2>1, <2>6
  <2> QED
    BY <2>7
<1>3. Len(dirs) \in Nat /\ Len(dirs) \in 0..Len(dirs)
  OBVIOUS
<1> HIDE DEF T
<1>4. Len(dirs) \in T
  BY <1>1, <1>2, <1>3, NatSteps
<1> QED
  BY <1>4 DEF T

LEMMA NestedIsTree ==
  ASSUME NEW n \in Nat
  PROVE  Nested[n] \subseteq Directives /\ Seq(Nested[n]) \subseteq Seq(Directives)
<1>1. Nested[n] \subseteq Directives
  BY DEF Directives
<1> QED
  BY <1>1, SeqMonotonic

LEMMA TreeOfNested ==
  ASSUME NEW d \in Directives
  PROVE  \E n \in Nat : d \in Nested[n + 1] /\ d \in Over(Seq(Nested[n])) /\ d.block \in Seq(Nested[n])
<1>1. PICK m \in Nat : d \in Nested[m]
  BY DEF Directives
<1>2. m # 0
  BY <1>1, NestedStep
<1>3. PICK n \in Nat : m = n + 1
  <2>1. m - 1 \in Nat /\ (m - 1) + 1 = m
    BY <1>2
  <2> QED
    BY <2>1
<1>4. d \in Over(Seq(Nested[n]))
  BY <1>1, <1>3, NestedStep
<1>5. d.block \in Seq(Nested[n])
  BY <1>4, OverFields
<1> QED
  BY <1>1, <1>3, <1>4, <1>5

LEMMA DirectivesAre == Directives = Over(Seq(Directives))
<1>1. ASSUME NEW d \in Directives
      PROVE  d \in Over(Seq(Directives))
  <2>1. PICK n \in Nat : d \in Over(Seq(Nested[n]))
    BY TreeOfNested
  <2>2. Seq(Nested[n]) \subseteq Seq(Directives)
    BY NestedIsTree
  <2> QED
    BY <2>1, <2>2 DEF Over
<1>2. ASSUME NEW d \in Over(Seq(Directives))
      PROVE  d \in Directives
  <2>1. d.block \in Seq(Directives)
    BY OverFields
  <2>2. PICK n \in Nat : d.block \in Seq(Nested[n])
    BY <2>1, SeqDepth
  <2>3. d \in Over(Seq(Nested[n]))
    BY <2>2 DEF Over
  <2>4. d \in Nested[n + 1] /\ n + 1 \in Nat
    BY <2>3, NestedStep
  <2> QED
    BY <2>4 DEF Directives
<1> QED
  BY <1>1, <1>2

LEMMA DirectiveFields ==
  ASSUME NEW d \in Directives
  PROVE  /\ d = [name |-> d.name, args |-> d.args, ends |-> d.ends, block |-> d.block]
         /\ d.name \in Tokens /\ d.args \in Seq(Tokens) /\ d.ends \in {";", "}"}
         /\ d.block \in Seq(Directives)
         /\ d.ends = ";" => d.block = << >>
BY DirectivesAre, OverFields

-----------------------------------------------------------------------------
(***************************************************************************)
(* The text of a tree, with its includes replaced                          *)
(***************************************************************************)
LEMMA FunctionIsSeq ==
  ASSUME NEW S, NEW n \in Nat, NEW f \in [1..n -> S]
  PROVE  f \in Seq(S) /\ Len(f) = n
<1>1. f \in Seq(S)
  BY SeqDef
<1>2. DOMAIN f = 1..n /\ DOMAIN f = 1..Len(f) /\ Len(f) \in Nat
  BY <1>1
<1> QED
  BY <1>1, <1>2

\* A symbol that no text has.
Mark == CHOOSE m : m \notin Tokens \cup Punctuation
Symbols == Tokens \cup Punctuation \cup {Mark}
Texts == Seq(Symbols)

\* No set has everything: the members that are not members of themselves.
LEMMA MarkIsNew == Mark \notin Tokens \cup Punctuation
<1> DEFINE A == Tokens \cup Punctuation
<1> DEFINE R == {m \in A : m \notin m}
<1>1. R \notin A
  OBVIOUS
<1> HIDE DEF R, A
<1>2. \E m : m \notin A
  BY <1>1
<1> QED
  BY <1>2 DEF Mark, A

LEMMA TextsMonoid == Monoid(Texts)
BY SeqMonoid DEF Texts

LEMMA TokenTexts ==
  /\ Seq(Tokens) \subseteq Texts
  /\ \A t \in Tokens \cup Punctuation : <<t>> \in Texts
<1>1. Tokens \subseteq Symbols
  BY DEF Symbols
<1>2. Seq(Tokens) \subseteq Texts
  BY <1>1, SeqMonotonic DEF Texts
<1>3. \A t \in Tokens \cup Punctuation : <<t>> \in Texts
  BY DEF Texts, Symbols
<1> QED
  BY <1>2, <1>3

\* What stands for an include of each name; << >> leaves includes as they are.
Env(by) == by \in [DOMAIN by -> Texts]

\* The token after the word `include` in the text of a directive.
FileName(d) == IF d.args # << >> THEN d.args[1] ELSE IF d.ends = ";" THEN ";" ELSE "{"

\* The text of d, when that of its block is `inner`.
Spelled(by, d, inner) ==
  IF d.name = "include" /\ FileName(d) \in DOMAIN by THEN by[FileName(d)]
  ELSE Cat(Cat(<<d.name>>, d.args),
           IF d.ends = ";" THEN <<";">> ELSE Cat(Cat(<<"{">>, inner), <<"}">>))

LEMMA SpelledTyped ==
  ASSUME NEW by, Env(by), NEW d \in Directives, NEW inner \in Texts
  PROVE  Spelled(by, d, inner) \in Texts
<1>1. d.name \in Tokens /\ d.args \in Seq(Tokens)
  BY DirectiveFields
<1>2. <<d.name>> \in Texts /\ d.args \in Texts
  BY <1>1, TokenTexts
<1>3. <<";">> \in Texts /\ <<"{">> \in Texts /\ <<"}">> \in Texts
  BY TokenTexts DEF Punctuation
<1>4. \A a, b \in Texts : Cat(a, b) \in Texts
  BY TextsMonoid DEF Monoid
<1>5. FileName(d) \in DOMAIN by => by[FileName(d)] \in Texts
  BY DEF Env
<1>6. Cat(<<d.name>>, d.args) \in Texts /\ Cat(Cat(<<"{">>, inner), <<"}">>) \in Texts
  BY <1>2, <1>3, <1>4
<1>7. PICK a, b, c : a = Cat(<<d.name>>, d.args) /\ b = Cat(Cat(<<"{">>, inner), <<"}">>) /\ c = <<";">>
  OBVIOUS
<1>8. Cat(a, b) \in Texts /\ Cat(a, c) \in Texts
  BY <1>3, <1>4, <1>6, <1>7
<1>9. Spelled(by, d, inner) \in {by[FileName(d)], Cat(a, b), Cat(a, c)}
  BY <1>7 DEF Spelled
<1> QED
  BY <1>5, <1>7, <1>8 DEF Spelled

\* The texts of the directives, given the texts of their blocks.
Pieces(by, dirs, inner) == [i \in 1..Len(dirs) |-> Spelled(by, dirs[i], inner[dirs[i].block])]

LEMMA PiecesTyped ==
  ASSUME NEW by, Env(by), NEW dirs \in Seq(Directives), NEW inner \in [Seq(Directives) -> Texts]
  PROVE  Pieces(by, dirs, inner) \in Seq(Texts) /\ Len(Pieces(by, dirs, inner)) = Len(dirs)
<1>1. ASSUME NEW i \in 1..Len(dirs)
      PROVE  Spelled(by, dirs[i], inner[dirs[i].block]) \in Texts
  <2>1. dirs[i] \in Directives
    OBVIOUS
  <2>2. dirs[i].block \in Seq(Directives)
    BY <2>1, DirectiveFields
  <2> QED
    BY <2>1, <2>2, SpelledTyped
<1>2. Pieces(by, dirs, inner) \in [1..Len(dirs) -> Texts]
  BY <1>1 DEF Pieces
<1>3. Len(dirs) \in Nat
  OBVIOUS
<1> QED
  BY <1>2, <1>3, FunctionIsSeq

\* The text of trees up to a depth.
WriteStep(by) ==
  [n \in Nat |-> [t \in [Seq(Directives) -> Texts] |->
     [dirs \in Seq(Directives) |-> FlattenSeq(Pieces(by, dirs, t))]]]
Nothing == [dirs \in Seq(Directives) |-> << >>]
Written(by) ==
  CHOOSE f \in [Nat -> [Seq(Directives) -> Texts]] : Iterates(f, Nothing, WriteStep(by))

LEMMA WrittenIs ==
  ASSUME NEW by, Env(by)
  PROVE  /\ Written(by) \in [Nat -> [Seq(Directives) -> Texts]]
         /\ \A dirs \in Seq(Directives) : Written(by)[0][dirs] = << >>
         /\ \A n \in Nat, dirs \in Seq(Directives) :
              Written(by)[n + 1][dirs] = FlattenSeq(Pieces(by, dirs, Written(by)[n]))
<1> DEFINE V == [Seq(Directives) -> Texts]
<1>1. Nothing \in V
  <2>1. << >> \in Texts
    BY DEF Texts
  <2> QED
    BY <2>1 DEF Nothing
<1>2. \A t \in V, dirs \in Seq(Directives) : FlattenSeq(Pieces(by, dirs, t)) \in Texts
  BY PiecesTyped, FlattenTyped DEF Texts
<1>3. WriteStep(by) \in [Nat -> [V -> V]]
  BY <1>2 DEF WriteStep
<1>4. \E f \in [Nat -> V] : Iterates(f, Nothing, WriteStep(by))
  BY <1>1, <1>3, RecursionExists
<1>5. Written(by) \in [Nat -> V] /\ Iterates(Written(by), Nothing, WriteStep(by))
  BY <1>4 DEF Written
<1>6. ASSUME NEW dirs \in Seq(Directives) PROVE Written(by)[0][dirs] = << >>
  BY <1>5 DEF Iterates, Nothing
<1>7. ASSUME NEW n \in Nat, NEW dirs \in Seq(Directives)
      PROVE  Written(by)[n + 1][dirs] = FlattenSeq(Pieces(by, dirs, Written(by)[n]))
  <2>1. Written(by)[n] \in V /\ Written(by)[n + 1] = WriteStep(by)[n][Written(by)[n]]
    BY <1>5 DEF Iterates
  <2> QED
    BY <2>1 DEF WriteStep
<1> QED
  BY <1>5, <1>6, <1>7

\* Depths beyond that of the tree make no difference.
LEMMA WrittenOnce ==
  ASSUME NEW by, Env(by), NEW n \in Nat, NEW dirs \in Seq(Nested[n])
  PROVE  Written(by)[n + 1][dirs] = Written(by)[n][dirs]
<1> DEFINE w == Written(by)
<1> DEFINE T == {k \in Nat : \A s \in Seq(Nested[k]) : w[k + 1][s] = w[k][s]}
<1>1. 0 \in T
  <2>1. ASSUME NEW s \in Seq(Nested[0]) PROVE w[0 + 1][s] = w[0][s]
    <3>1. Nested[0] = {}
      BY NestedStep
    <3>2. s = << >> /\ Len(s) = 0
      BY <3>1
    <3>7. s \in Seq(Directives)
      BY NestedIsTree
    <3>3. w[0] \in [Seq(Directives) -> Texts] /\ w[0][s] = << >>
      BY <3>7, WrittenIs
    <3>4. w[0 + 1][s] = FlattenSeq(Pieces(by, s, w[0]))
      BY <3>7, WrittenIs
    <3> HIDE DEF w
    <3>5. Pieces(by, s, w[0]) \in Seq(Texts) /\ Len(Pieces(by, s, w[0])) = 0
      BY <3>2, <3>3, <3>7, PiecesTyped
    <3>6. Pieces(by, s, w[0]) = << >>
      BY <3>5
    <3> QED
      BY <3>3, <3>4, <3>6, FlattenEmpty
  <2> QED
    BY <2>1
<1>2. ASSUME NEW k \in Nat, k \in T PROVE k + 1 \in T
  <2>1. ASSUME NEW s \in Seq(Nested[k + 1]) PROVE w[(k + 1) + 1][s] = w[k + 1][s]
    <3>1. s \in Seq(Directives) /\ k + 1 \in Nat
      BY NestedIsTree
    <3>2. /\ w[(k + 1) + 1][s] = FlattenSeq(Pieces(by, s, w[k + 1]))
          /\ w[k + 1][s] = FlattenSeq(Pieces(by, s, w[k]))
      BY <3>1, WrittenIs
    <3>3. ASSUME NEW i \in 1..Len(s)
          PROVE  w[k + 1][s[i].block] = w[k][s[i].block]
      <4>1. s[i] \in Nested[k + 1]
        OBVIOUS
      <4>2. s[i] \in Over(Seq(Nested[k]))
        BY <4>1, NestedStep
      <4>3. s[i].block \in Seq(Nested[k])
        BY <4>2, OverFields
      <4> QED
        BY <1>2, <4>3
    <3> HIDE DEF w
    <3>4. Pieces(by, s, w[k + 1]) = Pieces(by, s, w[k])
      BY <3>3 DEF Pieces
    <3> QED
      BY <3>2, <3>4
  <2> QED
    BY <2>1
<1>3. n \in T
  <2>1. n \in 0..n
    OBVIOUS
  <2> HIDE DEF T
  <2> QED
    BY <1>1, <1>2, <2>1, NatSteps
<1> QED
  BY <1>3

LEMMA WrittenDeeper ==
  ASSUME NEW by, Env(by), NEW m \in Nat, NEW n \in Nat, m <= n, NEW dirs \in Seq(Nested[m])
  PROVE  Written(by)[n][dirs] = Written(by)[m][dirs]
<1> DEFINE T == {k \in Nat : m <= k => Written(by)[k][dirs] = Written(by)[m][dirs]}
<1>1. 0 \in T
  OBVIOUS
<1>2. ASSUME NEW k \in Nat, k \in T PROVE k + 1 \in T
  <2>1. CASE m <= k
    <3>1. dirs \in Seq(Nested[k])
      BY <2>1, NestedMonotonic
    <3> QED
      BY <1>2, <2>1, <3>1, WrittenOnce
  <2>2. CASE ~(m <= k)
    <3>1. m <= k + 1 => m = k + 1
      BY <2>2
    <3> QED
      BY <3>1
  <2> QED
    BY <2>1, <2>2
<1>3. n \in T
  <2>1. n \in 0..n
    OBVIOUS
  <2> HIDE DEF T
  <2> QED
    BY <1>1, <1>2, <2>1, NatSteps
<1> QED
  BY <1>3

\* The text of directives.
Depth(dirs) == CHOOSE n \in Nat : dirs \in Seq(Nested[n])
Txt(by, dirs) == Written(by)[Depth(dirs)][dirs]
One(by, d) == Spelled(by, d, Txt(by, d.block))

LEMMA TxtAt ==
  ASSUME NEW by, Env(by), NEW n \in Nat, NEW dirs \in Seq(Nested[n])
  PROVE  Written(by)[n][dirs] = Txt(by, dirs)
<1>1. Depth(dirs) \in Nat /\ dirs \in Seq(Nested[Depth(dirs)])
  BY DEF Depth
<1>2. PICK k : k = Depth(dirs)
  OBVIOUS
<1>3. n <= n + k /\ k <= n + k /\ n + k \in Nat /\ k \in Nat
  BY <1>1, <1>2
<1>4. Written(by)[n + k][dirs] = Written(by)[n][dirs]
  BY <1>3, WrittenDeeper
<1>5. Written(by)[n + k][dirs] = Written(by)[k][dirs]
  BY <1>1, <1>2, <1>3, WrittenDeeper
<1> QED
  BY <1>2, <1>4, <1>5 DEF Txt

LEMMA TxtTyped ==
  ASSUME NEW by, Env(by), NEW dirs \in Seq(Directives)
  PROVE  Txt(by, dirs) \in Texts
<1>1. PICK n \in Nat : dirs \in Seq(Nested[n])
  BY SeqDepth
<1>2. Written(by)[n][dirs] \in Texts
  BY WrittenIs
<1> QED
  BY <1>1, <1>2, TxtAt

LEMMA OneTyped ==
  ASSUME NEW by, Env(by), NEW d \in Directives
  PROVE  One(by, d) \in Texts
<1>1. d.block \in Seq(Directives)
  BY DirectiveFields
<1> QED
  BY <1>1, TxtTyped, SpelledTyped DEF One

Ones(by, dirs) == [i \in 1..Len(dirs) |-> One(by, dirs[i])]

LEMMA OnesTyped ==
  ASSUME NEW by, Env(by), NEW dirs \in Seq(Directives)
  PROVE  Ones(by, dirs) \in Seq(Texts) /\ Len(Ones(by, dirs)) = Len(dirs)
<1>1. \A i \in 1..Len(dirs) : One(by, dirs[i]) \in Texts
  BY OneTyped
<1>2. Ones(by, dirs) \in [1..Len(dirs) -> Texts] /\ Len(dirs) \in Nat
  BY <1>1 DEF Ones
<1> QED
  BY <1>2, FunctionIsSeq

LEMMA TxtEquation ==
  ASSUME NEW by, Env(by), NEW dirs \in Seq(Directives)
  PROVE  Txt(by, dirs) = FlattenSeq(Ones(by, dirs))
<1>1. PICK n \in Nat : dirs \in Seq(Nested[n])
  BY SeqDepth
<1>2. dirs \in Seq(Nested[n + 1]) /\ n + 1 \in Nat
  <2>1. n + 1 \in Nat /\ n <= n + 1
    OBVIOUS
  <2> QED
    BY <1>1, <2>1, NestedMonotonic
<1>3. Txt(by, dirs) = FlattenSeq(Pieces(by, dirs, Written(by)[n]))
  BY <1>2, TxtAt, WrittenIs
<1>4. ASSUME NEW i \in 1..Len(dirs)
      PROVE  Spelled(by, dirs[i], Written(by)[n][dirs[i].block]) = One(by, dirs[i])
  <2>1. dirs[i] \in Nested[n + 1]
    BY <1>2
  <2>2. dirs[i] \in Over(Seq(Nested[n]))
    BY <2>1, NestedStep
  <2>3. dirs[i].block \in Seq(Nested[n])
    BY <2>2, OverFields
  <2>4. Written(by)[n][dirs[i].block] = Txt(by, dirs[i].block)
    BY <2>3, TxtAt
  <2> QED
    BY <2>4 DEF One
<1>5. Pieces(by, dirs, Written(by)[n]) = Ones(by, dirs)
  BY <1>4, Zenon DEF Pieces, Ones
<1> QED
  BY <1>3, <1>5

LEMMA TxtEmpty ==
  ASSUME NEW by, Env(by)
  PROVE  Txt(by, << >>) = << >>
<1>1. << >> \in Seq(Directives) /\ Len(<< >>) = 0
  OBVIOUS
<1>2. Ones(by, << >>) \in Seq(Texts) /\ Len(Ones(by, << >>)) = 0
  BY <1>1, OnesTyped
<1>3. Ones(by, << >>) = << >>
  BY <1>2
<1> QED
  BY <1>1, <1>3, TxtEquation, FlattenEmpty

LEMMA TxtConcat ==
  ASSUME NEW by, Env(by), NEW d1 \in Seq(Directives), NEW d2 \in Seq(Directives)
  PROVE  Txt(by, d1 \o d2) = Cat(Txt(by, d1), Txt(by, d2))
<1>1. /\ d1 \o d2 \in Seq(Directives) /\ Len(d1 \o d2) = Len(d1) + Len(d2)
      /\ Len(d1) \in Nat /\ Len(d2) \in Nat
      /\ \A i \in 1..(Len(d1) + Len(d2)) :
           (d1 \o d2)[i] = IF i <= Len(d1) THEN d1[i] ELSE d2[i - Len(d1)]
  BY ConcatProperties
<1>2. /\ Ones(by, d1) \in Seq(Texts) /\ Len(Ones(by, d1)) = Len(d1)
      /\ Ones(by, d2) \in Seq(Texts) /\ Len(Ones(by, d2)) = Len(d2)
      /\ Ones(by, d1 \o d2) \in Seq(Texts) /\ Len(Ones(by, d1 \o d2)) = Len(d1) + Len(d2)
  BY <1>1, OnesTyped
<1>3. /\ Ones(by, d1) \o Ones(by, d2) \in Seq(Texts)
      /\ Len(Ones(by, d1) \o Ones(by, d2)) = Len(d1) + Len(d2)
      /\ \A i \in 1..(Len(d1) + Len(d2)) :
           (Ones(by, d1) \o Ones(by, d2))[i]
             = IF i <= Len(d1) THEN Ones(by, d1)[i] ELSE Ones(by, d2)[i - Len(d1)]
  <2>1. PICK o1, o2 : o1 = Ones(by, d1) /\ o2 = Ones(by, d2)
    OBVIOUS
  <2>2. /\ o1 \o o2 \in Seq(Texts) /\ Len(o1 \o o2) = Len(o1) + Len(o2)
        /\ \A i \in 1..(Len(o1) + Len(o2)) :
             (o1 \o o2)[i] = IF i <= Len(o1) THEN o1[i] ELSE o2[i - Len(o1)]
    BY <1>2, <2>1, ConcatProperties
  <2> QED
    BY <1>2, <2>1, <2>2
<1>4. ASSUME NEW i \in 1..(Len(d1) + Len(d2))
      PROVE  Ones(by, d1 \o d2)[i] = (Ones(by, d1) \o Ones(by, d2))[i]
  <2>1. Ones(by, d1 \o d2)[i] = One(by, (d1 \o d2)[i])
    BY <1>1 DEF Ones
  <2>2. CASE i <= Len(d1)
    <3>1. i \in 1..Len(d1)
      BY <1>1, <2>2
    <3>2. Ones(by, d1)[i] = One(by, d1[i])
      BY <3>1 DEF Ones
    <3>3. (d1 \o d2)[i] = d1[i] /\ (Ones(by, d1) \o Ones(by, d2))[i] = Ones(by, d1)[i]
      BY <1>1, <1>3, <2>2
    <3> QED
      BY <2>1, <3>2, <3>3
  <2>3. CASE ~(i <= Len(d1))
    <3>1. i - Len(d1) \in 1..Len(d2)
      BY <1>1, <2>3
    <3>2. Ones(by, d2)[i - Len(d1)] = One(by, d2[i - Len(d1)])
      BY <3>1 DEF Ones
    <3>3. /\ (d1 \o d2)[i] = d2[i - Len(d1)]
          /\ (Ones(by, d1) \o Ones(by, d2))[i] = Ones(by, d2)[i - Len(d1)]
      BY <1>1, <1>3, <2>3
    <3> QED
      BY <2>1, <3>2, <3>3
  <2> QED
    BY <2>2, <2>3
<1>5. PICK p, q : p = Ones(by, d1 \o d2) /\ q = Ones(by, d1) \o Ones(by, d2)
  OBVIOUS
<1>6. p = q
  <2>1. p \in Seq(Texts) /\ q \in Seq(Texts) /\ Len(p) = Len(q) /\ Len(p) = Len(d1) + Len(d2)
    BY <1>2, <1>3, <1>5
  <2>2. \A i \in 1..Len(p) : p[i] = q[i]
    BY <1>4, <1>5, <2>1
  <2> QED
    BY <2>1, <2>2, SeqEqual
<1>7. FlattenSeq(q) = FlattenSeq(Ones(by, d1)) \o FlattenSeq(Ones(by, d2))
  BY <1>2, <1>5, FlattenConcat DEF Texts
<1> QED
  BY <1>1, <1>5, <1>6, <1>7, TxtEquation DEF Cat

LEMMA TxtOne ==
  ASSUME NEW by, Env(by), NEW d \in Directives
  PROVE  Txt(by, <<d>>) = One(by, d)
<1>1. <<d>> \in Seq(Directives) /\ Len(<<d>>) = 1 /\ <<d>>[1] = d
  OBVIOUS
<1>2. Ones(by, <<d>>) \in Seq(Texts) /\ Len(Ones(by, <<d>>)) = 1
  BY <1>1, OnesTyped
<1>3. Ones(by, <<d>>)[1] = One(by, d)
  BY <1>1 DEF Ones
<1>4. Ones(by, <<d>>) = <<One(by, d)>>
  BY <1>2, <1>3
<1>5. One(by, d) \in Texts
  BY OneTyped
<1> QED
  BY <1>1, <1>4, <1>5, TxtEquation, FlattenOne DEF Texts

LEMMA TxtAppend ==
  ASSUME NEW by, Env(by), NEW dirs \in Seq(Directives), NEW d \in Directives
  PROVE  Txt(by, Append(dirs, d)) = Cat(Txt(by, dirs), One(by, d))
<1>1. Append(dirs, d) = dirs \o <<d>> /\ <<d>> \in Seq(Directives)
  BY AppendIsConcat
<1> QED
  BY <1>1, TxtConcat, TxtOne, ZenonT(60)

LEMMA TxtNext ==
  ASSUME NEW by, Env(by), NEW dirs \in Seq(Directives), dirs # << >>
  PROVE  Txt(by, dirs) = Cat(One(by, Head(dirs)), Txt(by, Tail(dirs)))
<1>1. Head(dirs) \in Directives /\ Tail(dirs) \in Seq(Directives)
  OBVIOUS
<1>2. dirs = <<Head(dirs)>> \o Tail(dirs) /\ <<Head(dirs)>> \in Seq(Directives)
  BY <1>1
<1>3. PICK p, q : p = <<Head(dirs)>> /\ q = Tail(dirs)
  OBVIOUS
<1>4. Txt(by, p \o q) = Cat(Txt(by, p), Txt(by, q))
  BY <1>1, <1>2, <1>3, TxtConcat
<1> QED
  BY <1>1, <1>2, <1>3, <1>4, TxtOne


-----------------------------------------------------------------------------
(***************************************************************************)
(* Trees read as the text that is written for them                         *)
(***************************************************************************)
LEMMA EnvEmpty == Env(<< >>) /\ DOMAIN << >> = {}
BY DEF Env

LEMMA SeqInto ==
  ASSUME NEW A, NEW B, NEW s \in Seq(A), \A i \in 1..Len(s) : s[i] \in B
  PROVE  s \in Seq(B)
<1>1. s \in [1..Len(s) -> B] /\ Len(s) \in Nat
  OBVIOUS
<1> QED
  BY <1>1, FunctionIsSeq

\* One level of Rendered.
Worded(d, inner) ==
  Cat(Cat(<<d.name>>, d.args),
      IF d.ends = ";" THEN <<";">> ELSE Cat(Cat(<<"{">>, inner), <<"}">>))
RenderAs(prev, n) ==
  [dirs \in Seq(Nested[n]) |->
     FlattenSeq([i \in 1..Len(dirs) |-> Worded(dirs[i], prev[dirs[i].block])])]

LEMMA RenderedIs == Rendered = CHOOSE f : f = [n \in Nat |-> RenderAs(f[n - 1], n)]
BY DEF Rendered, RenderAs, Worded, Cat

LEMMA PlainIs ==
  ASSUME NEW d, NEW inner
  PROVE  Spelled(<< >>, d, inner) = Worded(d, inner)
BY EnvEmpty DEF Spelled, Worded

LEMMA RenderStep ==
  ASSUME NEW n \in Nat, NEW prev,
         n # 0 => \A b \in Seq(Nested[n - 1]) : prev[b] = Written(<< >>)[n - 1][b]
  PROVE  RenderAs(prev, n) = [dirs \in Seq(Nested[n]) |-> Written(<< >>)[n][dirs]]
<1> DEFINE w == Written(<< >>)
<1>1. ASSUME NEW dirs \in Seq(Nested[n])
      PROVE  FlattenSeq([i \in 1..Len(dirs) |-> Worded(dirs[i], prev[dirs[i].block])]) = w[n][dirs]
  <2>1. dirs \in Seq(Directives)
    BY NestedIsTree
  <2>2. CASE n = 0
    <3>1. Nested[n] = {}
      BY <2>2, NestedStep
    <3>2. dirs = << >> /\ Len(dirs) = 0
      BY <3>1
    <3>3. [i \in 1..Len(dirs) |-> Worded(dirs[i], prev[dirs[i].block])] = << >>
      BY <3>2
    <3>4. w[n][dirs] = << >>
      BY <2>1, <2>2, EnvEmpty, WrittenIs
    <3> QED
      BY <3>3, <3>4, FlattenEmpty
  <2>3. CASE n # 0
    <3>1. PICK m \in Nat : n = m + 1
      <4>1. n - 1 \in Nat /\ n = (n - 1) + 1
        BY <2>3
      <4> QED
        BY <4>1
    <3>2. n - 1 = m
      BY <3>1
    <3>3. w[n][dirs] = FlattenSeq(Pieces(<< >>, dirs, w[m]))
      BY <2>1, <3>1, EnvEmpty, WrittenIs
    <3>4. ASSUME NEW i \in 1..Len(dirs)
          PROVE  Worded(dirs[i], prev[dirs[i].block]) = Spelled(<< >>, dirs[i], w[m][dirs[i].block])
      <4>0. dirs[i] \in Nested[n]
        OBVIOUS
      <4>1. dirs[i] \in Over(Seq(Nested[m]))
        BY <3>1, <4>0, NestedStep
      <4>2. dirs[i].block \in Seq(Nested[m])
        BY <4>1, OverFields
      <4>3. prev[dirs[i].block] = w[m][dirs[i].block]
        BY <2>3, <3>2, <4>2
      <4> QED
        BY <4>3, PlainIs
    <3> HIDE DEF w
    <3>5. [i \in 1..Len(dirs) |-> Worded(dirs[i], prev[dirs[i].block])] = Pieces(<< >>, dirs, w[m])
      BY <3>4, Zenon DEF Pieces
    <3> QED
      BY <3>3, <3>5
  <2> QED
    BY <2>2, <2>3
<1> HIDE DEF w
<1>2. RenderAs(prev, n) = [dirs \in Seq(Nested[n]) |-> w[n][dirs]]
  BY <1>1, Zenon DEF RenderAs
<1> QED
  BY <1>2 DEF w

LEMMA RenderedEquation == \A n \in Nat : Rendered[n] = RenderAs(Rendered[n - 1], n)
<1> DEFINE h == [n \in Nat |-> [dirs \in Seq(Nested[n]) |-> Written(<< >>)[n][dirs]]]
<1>1. ASSUME NEW n \in Nat
      PROVE  RenderAs(h[n - 1], n) = h[n]
  <2>1. n # 0 => \A b \in Seq(Nested[n - 1]) : h[n - 1][b] = Written(<< >>)[n - 1][b]
    OBVIOUS
  <2>2. h[n] = [dirs \in Seq(Nested[n]) |-> Written(<< >>)[n][dirs]]
    OBVIOUS
  <2> HIDE DEF h
  <2> QED
    BY <2>1, <2>2, RenderStep
<1>2. h = [n \in Nat |-> h[n]]
  OBVIOUS
<1> HIDE DEF h
<1>3. h = [n \in Nat |-> RenderAs(h[n - 1], n)]
  BY <1>1, <1>2, Zenon
<1>4. Rendered = [n \in Nat |-> RenderAs(Rendered[n - 1], n)]
  BY <1>3, RenderedIs, Zenon
<1> QED
  BY <1>4, Zenon

LEMMA RenderedWritten ==
  ASSUME NEW n \in Nat, NEW dirs \in Seq(Nested[n])
  PROVE  Rendered[n][dirs] = Txt(<< >>, dirs)
<1> DEFINE P(k) == \A s \in Seq(Nested[k]) : Rendered[k][s] = Written(<< >>)[k][s]
<1> DEFINE T == {k \in Nat : P(k)}
<1>1. 0 \in T
  <2>1. Rendered[0] = [s \in Seq(Nested[0]) |-> Written(<< >>)[0][s]]
    BY RenderedEquation, RenderStep
  <2> QED
    BY <2>1
<1>2. ASSUME NEW k \in Nat, k \in T PROVE k + 1 \in T
  <2>1. k + 1 \in Nat
    OBVIOUS
  <2>2. PICK m \in Nat : m = k + 1 /\ m - 1 = k
    BY <2>1
  <2>5. \A b \in Seq(Nested[m - 1]) : Rendered[m - 1][b] = Written(<< >>)[m - 1][b]
    BY <1>2, <2>2
  <2>6. Rendered[m] = [s \in Seq(Nested[m]) |-> Written(<< >>)[m][s]]
    BY <2>5, RenderedEquation, RenderStep
  <2>3. Rendered[k + 1] = [s \in Seq(Nested[k + 1]) |-> Written(<< >>)[k + 1][s]]
    BY <2>2, <2>6
  <2>4. P(k + 1)
    BY <2>3
  <2> HIDE DEF P
  <2> QED
    BY <2>1, <2>4
<1>3. n \in T
  <2>1. n \in 0..n
    OBVIOUS
  <2> HIDE DEF T
  <2> QED
    BY <1>1, <1>2, <2>1, NatSteps
<1> QED
  BY <1>3, EnvEmpty, TxtAt

LEMMA LenCat ==
  ASSUME NEW a \in Texts, NEW b \in Texts
  PROVE  Len(Cat(a, b)) = Len(a) + Len(b) /\ Len(a) \in Nat /\ Len(b) \in Nat
BY ConcatProperties DEF Cat, Texts

\* A directive is longer than its block.
LEMMA OneIsLonger ==
  ASSUME NEW d \in Directives
  PROVE  /\ Len(One(<< >>, d)) \in Nat /\ Len(Txt(<< >>, d.block)) \in Nat
         /\ Len(One(<< >>, d)) >= Len(Txt(<< >>, d.block)) + 1
<1>1. d.name \in Tokens /\ d.args \in Seq(Tokens) /\ d.block \in Seq(Directives)
  BY DirectiveFields
<1>2. PICK b, n : b = Txt(<< >>, d.block) /\ n = <<d.name>>
  OBVIOUS
<1>3. /\ n \in Texts /\ d.args \in Texts /\ b \in Texts
      /\ <<"{">> \in Texts /\ <<"}">> \in Texts /\ <<";">> \in Texts
  BY <1>1, <1>2, TokenTexts, EnvEmpty, TxtTyped DEF Punctuation
<1>4. PICK p, q : p = Cat(n, d.args) /\ q = Cat(<<"{">>, b)
  OBVIOUS
<1>5. p \in Texts /\ q \in Texts /\ Cat(q, <<"}">>) \in Texts
  BY <1>3, <1>4, TextsMonoid DEF Monoid
<1>6. Len(n) = 1 /\ Len(<<"{">>) = 1 /\ Len(<<"}">>) = 1 /\ Len(<<";">>) = 1
  BY <1>2
<1>7. Len(p) = 1 + Len(d.args) /\ Len(d.args) \in Nat /\ Len(q) = 1 + Len(b) /\ Len(b) \in Nat
  BY <1>3, <1>4, <1>6, LenCat
<1>8. PICK r, e : r = Cat(q, <<"}">>) /\ e = <<";">>
  OBVIOUS
<1>9. r \in Texts /\ e \in Texts /\ Len(e) = 1
  BY <1>3, <1>5, <1>6, <1>8
<1>10. Len(r) = Len(q) + 1
  BY <1>3, <1>5, <1>6, <1>8, LenCat
<1>11. Len(Cat(p, e)) = Len(p) + 1 /\ Len(Cat(p, r)) = Len(p) + Len(r)
  BY <1>5, <1>9, LenCat
<1>12. CASE d.ends = ";"
  <2>1. d.block = << >>
    BY <1>12, DirectiveFields
  <2>2. b = << >>
    BY <1>2, <2>1, EnvEmpty, TxtEmpty
  <2>3. Len(b) = 0
    BY <2>2
  <2>4. One(<< >>, d) = Cat(p, e)
    BY <1>2, <1>4, <1>8, <1>12, PlainIs DEF One, Worded
  <2> QED
    BY <1>2, <1>7, <1>11, <2>3, <2>4
<1>13. CASE d.ends # ";"
  <2>1. One(<< >>, d) = Cat(p, r)
    BY <1>2, <1>4, <1>8, <1>13, PlainIs DEF One, Worded
  <2>2. Len(One(<< >>, d)) = (1 + Len(d.args)) + ((1 + Len(b)) + 1)
    BY <1>7, <1>10, <1>11, <2>1
  <2>3. PICK x \in Nat, y \in Nat : x = Len(d.args) /\ y = Len(b)
    BY <1>7
  <2>4. PICK L : L = Len(One(<< >>, d))
    OBVIOUS
  <2>5. L = (1 + x) + ((1 + y) + 1)
    BY <2>2, <2>3, <2>4
  <2>6. L \in Nat /\ L >= y + 1
    BY <2>5
  <2> QED
    BY <1>2, <2>3, <2>4, <2>6, Zenon
<1> QED
  BY <1>12, <1>13

\* A tree nests no deeper than its text is long.
LEMMA DepthOfText ==
  ASSUME NEW dirs \in Seq(Directives)
  PROVE  dirs \in Seq(Nested[Len(Txt(<< >>, dirs))]) /\ Len(Txt(<< >>, dirs)) \in Nat
<1> DEFINE P(s) == s \in Seq(Nested[Len(Txt(<< >>, s))])
<1> DEFINE T == {k \in Nat : \A s \in Seq(Nested[k]) : P(s)}
<1>1. 0 \in T
  <2>1. ASSUME NEW s \in Seq(Nested[0]) PROVE P(s)
    <3>1. Nested[0] = {}
      BY NestedStep
    <3>2. s = << >>
      BY <3>1
    <3> QED
      BY <3>2
  <2> QED
    BY <2>1
<1>2. ASSUME NEW k \in Nat, k \in T PROVE k + 1 \in T
  <2>1. ASSUME NEW s \in Seq(Nested[k + 1]) PROVE P(s)
    <3>1. s \in Seq(Directives)
      BY NestedIsTree
    <3>2. PICK L : L = Len(Txt(<< >>, s))
      OBVIOUS
    <3>3. Ones(<< >>, s) \in Seq(Texts) /\ Len(Ones(<< >>, s)) = Len(s)
      BY <3>1, EnvEmpty, OnesTyped
    <3>4. \A i \in 1..Len(s) : Len(One(<< >>, s[i])) <= L
      <4>1. \A i \in 1..Len(s) : Ones(<< >>, s)[i] = One(<< >>, s[i])
        BY DEF Ones
      <4>2. Txt(<< >>, s) = FlattenSeq(Ones(<< >>, s))
        BY <3>1, EnvEmpty, TxtEquation
      <4>3. \A i \in 1..Len(Ones(<< >>, s)) : Len(Ones(<< >>, s)[i]) <= Len(FlattenSeq(Ones(<< >>, s)))
        BY <3>3, FlattenParts DEF Texts
      <4> QED
        BY <3>2, <3>3, <4>1, <4>2, <4>3
    <3>5. L \in Nat
      <4>1. Txt(<< >>, s) \in Seq(Symbols)
        BY <3>1, EnvEmpty, TxtTyped DEF Texts
      <4> QED
        BY <3>2, <4>1
    <3>6. ASSUME NEW i \in 1..Len(s) PROVE s[i] \in Nested[L]
      <4>1. PICK d : d = s[i]
        OBVIOUS
      <4>2. d \in Over(Seq(Nested[k])) /\ d \in Directives
        BY <3>1, <4>1, NestedStep
      <4>3. d.block \in Seq(Nested[k])
        BY <4>2, OverFields
      <4>4. PICK b : b = Len(Txt(<< >>, d.block))
        OBVIOUS
      <4>5. d.block \in Seq(Nested[b])
        BY <1>2, <4>3, <4>4
      <4>6. b \in Nat /\ Len(One(<< >>, d)) \in Nat /\ Len(One(<< >>, d)) >= b + 1
        BY <4>2, <4>4, OneIsLonger
      <4>7. Len(One(<< >>, d)) <= L
        BY <3>4, <4>1
      <4>8. PICK m \in Nat : L = m + 1 /\ b <= m
        <5>1. L - 1 \in Nat /\ L = (L - 1) + 1 /\ b <= L - 1
          BY <3>5, <4>6, <4>7
        <5> QED
          BY <5>1
      <4>9. d.block \in Seq(Nested[m])
        BY <4>5, <4>6, <4>8, NestedMonotonic
      <4>10. /\ d = [name |-> d.name, args |-> d.args, ends |-> d.ends, block |-> d.block]
             /\ d.name \in Tokens /\ d.args \in Seq(Tokens) /\ d.ends \in {";", "}"}
             /\ d.ends = ";" => d.block = << >>
        BY <4>2, DirectiveFields
      <4>11. d \in Over(Seq(Nested[m]))
        BY <4>9, <4>10, OverHas
      <4> QED
        BY <4>1, <4>8, <4>11, NestedStep
    <3>7. s \in Seq(Nested[L])
      BY <3>1, <3>6, SeqInto
    <3> QED
      BY <3>2, <3>7
  <2> QED
    BY <2>1
<1>3. PICK n \in Nat : dirs \in Seq(Nested[n])
  BY SeqDepth
<1>4. n \in T
  <2>1. n \in 0..n
    OBVIOUS
  <2> HIDE DEF T
  <2> QED
    BY <1>1, <1>2, <2>1, NatSteps
<1>5. Txt(<< >>, dirs) \in Seq(Symbols)
  BY EnvEmpty, TxtTyped DEF Texts
<1> QED
  BY <1>3, <1>4, <1>5

LEMMA ReadsTxt ==
  ASSUME NEW dirs \in Seq(Directives)
  PROVE  ReadsAs(dirs, Txt(<< >>, dirs))
BY DepthOfText, RenderedWritten DEF ReadsAs

-----------------------------------------------------------------------------
(***************************************************************************)
(* Braces, includes and splicing, token by token                           *)
(***************************************************************************)
Count(toks, x, n) == Cardinality({j \in 1..n : toks[j] = x})

LEMMA CountStep ==
  ASSUME NEW toks, NEW x, NEW n \in Nat
  PROVE  /\ Count(toks, x, n) \in Nat
         /\ toks[n + 1] = x => Count(toks, x, n + 1) = Count(toks, x, n) + 1
         /\ toks[n + 1] # x => Count(toks, x, n + 1) = Count(toks, x, n)
<1> DEFINE S == {j \in 1..n : toks[j] = x}
<1>1. IsFiniteSet(S) /\ Cardinality(S) \in Nat
  <2>1. IsFiniteSet(1..n)
    BY FS_Interval
  <2>2. IsFiniteSet(S)
    BY <2>1, FS_Subset
  <2> QED
    BY <2>2, FS_CardinalityType
<1>2. n + 1 \notin S
  OBVIOUS
<1>3. CASE toks[n + 1] = x
  <2>1. {j \in 1..(n + 1) : toks[j] = x} = S \cup {n + 1}
    BY <1>3
  <2>2. Cardinality(S \cup {n + 1}) = Cardinality(S) + 1
    BY <1>1, <1>2, FS_AddElement
  <2> QED
    BY <1>1, <1>3, <2>1, <2>2 DEF Count
<1>4. CASE toks[n + 1] # x
  <2>1. {j \in 1..(n + 1) : toks[j] = x} = S
    BY <1>4
  <2> QED
    BY <1>1, <1>4, <2>1 DEF Count
<1> QED
  BY <1>3, <1>4

LEMMA NestingStep ==
  ASSUME NEW toks, NEW n \in Nat
  PROVE  /\ Nesting(toks, 0) = 0 /\ Nesting(toks, n) \in Int
         /\ toks[n + 1] = "{" => Nesting(toks, n + 1) = Nesting(toks, n) + 1
         /\ toks[n + 1] = "}" => Nesting(toks, n + 1) = Nesting(toks, n) - 1
         /\ toks[n + 1] \notin {"{", "}"} => Nesting(toks, n + 1) = Nesting(toks, n)
<1>1. Nesting(toks, 0) = 0
  <2>1. {j \in 1..0 : toks[j] = "{"} = {} /\ {j \in 1..0 : toks[j] = "}"} = {}
    OBVIOUS
  <2>2. Cardinality({}) = 0
    BY FS_EmptySet
  <2> QED
    BY <2>1, <2>2 DEF Nesting
<1>2. PICK a \in Nat, b \in Nat : a = Count(toks, "{", n) /\ b = Count(toks, "}", n)
  BY CountStep
<1>3. PICK c \in Nat, d \in Nat : c = Count(toks, "{", n + 1) /\ d = Count(toks, "}", n + 1)
  <2>1. n + 1 \in Nat
    OBVIOUS
  <2> QED
    BY <2>1, CountStep
<1>4. Nesting(toks, n) = a - b /\ Nesting(toks, n + 1) = c - d
  BY <1>2, <1>3 DEF Nesting, Count
<1>5. /\ (toks[n + 1] = "{" => c = a + 1) /\ (toks[n + 1] # "{" => c = a)
      /\ (toks[n + 1] = "}" => d = b + 1) /\ (toks[n + 1] # "}" => d = b)
  BY <1>2, <1>3, CountStep, ZenonT(60)
<1>6. PICK x, y : x = Nesting(toks, n) /\ y = Nesting(toks, n + 1)
  OBVIOUS
<1>7. x = a - b /\ y = c - d
  BY <1>4, <1>6
<1>8. x \in Int
  BY <1>7
<1>9. ASSUME toks[n + 1] = "{" PROVE y = x + 1
  <2>1. c = a + 1 /\ d = b
    BY <1>5, <1>9
  <2>2. (a + 1) - b = (a - b) + 1
    OBVIOUS
  <2> QED
    BY <1>7, <2>1, <2>2, Zenon
<1>10. ASSUME toks[n + 1] = "}" PROVE y = x - 1
  <2>1. c = a /\ d = b + 1
    BY <1>5, <1>10
  <2>2. a - (b + 1) = (a - b) - 1
    OBVIOUS
  <2> QED
    BY <1>7, <2>1, <2>2, Zenon
<1>11. toks[n + 1] \notin {"{", "}"} => y = x
  <2>1. ASSUME toks[n + 1] \notin {"{", "}"} PROVE c = a /\ d = b
    BY <1>5, <2>1
  <2> QED
    BY <1>7, <1>8, <2>1
<1> QED
  BY <1>1, <1>6, <1>8, <1>9, <1>10, <1>11, Zenon

\* How IncludeOf goes on from token i - 1, which is part of the include at p.
IncludeStep(toks, p, i) ==
  IF p # 0 /\ ~EndsAt(toks, p, i - 1) THEN p
  ELSE IF toks[i] = "include" /\ ~WordAt(toks, i - 1) THEN i ELSE 0

LEMMA IncludeOfIs ==
  ASSUME NEW toks
  PROVE  IncludeOf(toks) = CHOOSE f : f = [i \in 0..Len(toks) |->
                             IF i = 0 THEN 0 ELSE IncludeStep(toks, f[i - 1], i)]
BY DEF IncludeOf, IncludeStep

LEMMA IncludeOfSteps ==
  ASSUME NEW toks, Len(toks) \in Nat
  PROVE  /\ IncludeOf(toks)[0] = 0
         /\ \A i \in 0..Len(toks) : IncludeOf(toks)[i] \in 0..i
         /\ \A i \in Nat : i < Len(toks) =>
              IncludeOf(toks)[i + 1] = IncludeStep(toks, IncludeOf(toks)[i], i + 1)
<1> DEFINE F == [n \in Nat |-> [p \in Nat |-> IncludeStep(toks, p, n + 1)]]
<1>1. F \in [Nat -> [Nat -> Nat]]
  BY DEF IncludeStep
<1>2. \A n \in Nat, p \in Nat : F[n][p] = IncludeStep(toks, p, n + 1)
  OBVIOUS
<1> HIDE DEF F
<1>3. PICK f \in [Nat -> Nat] : Iterates(f, 0, F)
  BY <1>1, RecursionExists
<1>4. f[0] = 0 /\ \A n \in Nat : f[n + 1] = IncludeStep(toks, f[n], n + 1)
  BY <1>2, <1>3 DEF Iterates
<1> DEFINE N == Len(toks)
<1> DEFINE g == [i \in 0..N |-> f[i]]
<1>5. ASSUME NEW i \in 0..N
      PROVE  g[i] = IF i = 0 THEN 0 ELSE IncludeStep(toks, g[i - 1], i)
  <2>1. CASE i = 0
    BY <1>4, <2>1
  <2>2. CASE i # 0
    <3>1. PICK j \in Nat : i = j + 1 /\ i - 1 = j
      <4>1. i - 1 \in Nat /\ i = (i - 1) + 1
        BY <2>2
      <4> QED
        BY <4>1
    <3>2. j \in 0..N
      BY <3>1
    <3> QED
      BY <1>4, <2>2, <3>1, <3>2
  <2> QED
    BY <2>1, <2>2
<1>6. g = [i \in 0..N |-> g[i]]
  OBVIOUS
<1> HIDE DEF g
<1>7. g = [i \in 0..N |-> IF i = 0 THEN 0 ELSE IncludeStep(toks, g[i - 1], i)]
  BY <1>5, <1>6, Zenon
<1>8. PICK h : h = IncludeOf(toks)
  OBVIOUS
<1>9. h = [i \in 0..N |-> IF i = 0 THEN 0 ELSE IncludeStep(toks, h[i - 1], i)]
  BY <1>7, <1>8, IncludeOfIs, Zenon
<1>10. \A i \in 0..N : h[i] = IF i = 0 THEN 0 ELSE IncludeStep(toks, h[i - 1], i)
  BY <1>9, Zenon
<1>11. h[0] = 0
  BY <1>10
<1>12. ASSUME NEW i \in Nat, i < N PROVE h[i + 1] = IncludeStep(toks, h[i], i + 1)
  <2>1. i + 1 \in 0..N /\ i + 1 # 0 /\ (i + 1) - 1 = i
    BY <1>12
  <2> QED
    BY <1>10, <2>1
<1>13. \A i \in 0..N : h[i] \in 0..i
  <2> DEFINE T == {i \in Nat : h[i] \in 0..i}
  <2>1. 0 \in T
    BY <1>11
  <2>2. ASSUME NEW i \in Nat, i < N, i \in T PROVE i + 1 \in T
    <3>1. h[i + 1] \in {h[i], i + 1, 0}
      BY <1>12, <2>2 DEF IncludeStep
    <3>2. PICK x \in 0..i : x = h[i]
      BY <2>2
    <3>4. x \in 0..(i + 1) /\ i + 1 \in 0..(i + 1) /\ 0 \in 0..(i + 1)
      OBVIOUS
    <3>3. h[i + 1] \in 0..(i + 1)
      BY <3>1, <3>2, <3>4, Zenon
    <3> QED
      BY <3>3, SMTT(30)
  <2> HIDE DEF T
  <2>3. \A i \in 0..N : i \in T
    BY <2>1, <2>2, NatSteps
  <2> QED
    BY <2>3 DEF T
<1> QED
  BY <1>8, <1>11, <1>12, <1>13

\* The include directive that is not complete after i tokens, if there is one.
Pending(toks, i) ==
  LET p == IncludeOf(toks)[i] IN IF p # 0 /\ ~EndsAt(toks, p, i) THEN p ELSE 0

LEMMA IncludeOfNext ==
  ASSUME NEW toks, Len(toks) \in Nat, NEW i \in Nat, i < Len(toks)
  PROVE  IncludeOf(toks)[i + 1]
           = IF Pending(toks, i) # 0 THEN Pending(toks, i)
             ELSE IF toks[i + 1] = "include" /\ ~WordAt(toks, i) THEN i + 1 ELSE 0
<1>1. (i + 1) - 1 = i
  OBVIOUS
<1>2. IncludeOf(toks)[i + 1] = IncludeStep(toks, IncludeOf(toks)[i], i + 1)
  BY IncludeOfSteps
<1> QED
  BY <1>1, <1>2 DEF IncludeStep, Pending

-----------------------------------------------------------------------------
\* What stands for token i.
PieceAt(toks, by, i) ==
  IF NamesFile(toks, i) THEN by[toks[i]]
  ELSE IF IncludeOf(toks)[i] # 0 THEN << >> ELSE <<toks[i]>>
PiecesTo(toks, by, n) == [i \in 1..n |-> PieceAt(toks, by, i)]
Part(toks, by, n) == FlattenSeq(PiecesTo(toks, by, n))

\* Everything that a text may include is there to be put in its place.
Covers(by) == Env(by) /\ Tokens \cup Punctuation \subseteq DOMAIN by

LEMMA PieceTyped ==
  ASSUME NEW toks \in Seq(Tokens), NEW by, Covers(by), NEW i \in 1..Len(toks)
  PROVE  PieceAt(toks, by, i) \in Texts
<1>1. toks[i] \in Tokens
  OBVIOUS
<1>2. by[toks[i]] \in Texts
  BY <1>1 DEF Covers, Env
<1>3. <<toks[i]>> \in Texts
  BY <1>1, TokenTexts
<1>4. << >> \in Texts
  BY DEF Texts
<1>5. PICK a, b, c : a = by[toks[i]] /\ b = <<toks[i]>> /\ c = << >>
  OBVIOUS
<1>6. a \in Texts /\ b \in Texts /\ c \in Texts
  BY <1>2, <1>3, <1>4, <1>5
<1> QED
  BY <1>5, <1>6 DEF PieceAt

LEMMA PartSteps ==
  ASSUME NEW toks \in Seq(Tokens), NEW by, Covers(by)
  PROVE  /\ \A n \in 0..Len(toks) : Part(toks, by, n) \in Texts
         /\ Part(toks, by, 0) = << >>
         /\ \A n \in Nat : n < Len(toks) =>
              Part(toks, by, n + 1) = Cat(Part(toks, by, n), PieceAt(toks, by, n + 1))
         /\ Part(toks, by, Len(toks)) = Splice(toks, by)
<1>1. ASSUME NEW n \in 0..Len(toks)
      PROVE  PiecesTo(toks, by, n) \in Seq(Texts) /\ Len(PiecesTo(toks, by, n)) = n
  <2>1. \A i \in 1..n : i \in 1..Len(toks) /\ PieceAt(toks, by, i) \in Texts
    BY PieceTyped
  <2>2. PiecesTo(toks, by, n) \in [1..n -> Texts] /\ n \in Nat
    BY <2>1 DEF PiecesTo
  <2> QED
    BY <2>2, FunctionIsSeq
<1>2. \A n \in 0..Len(toks) : Part(toks, by, n) \in Texts
  BY <1>1, FlattenTyped DEF Part, Texts
<1>3. Part(toks, by, 0) = << >>
  <2>1. PiecesTo(toks, by, 0) = << >>
    <3>1. PICK s : s = PiecesTo(toks, by, 0)
      OBVIOUS
    <3>2. s \in Seq(Texts) /\ Len(s) = 0
      BY <1>1, <3>1
    <3> QED
      BY <3>1, <3>2
  <2> QED
    BY <2>1, FlattenEmpty DEF Part
<1>4. ASSUME NEW n \in Nat, n < Len(toks)
      PROVE  Part(toks, by, n + 1) = Cat(Part(toks, by, n), PieceAt(toks, by, n + 1))
  <2>1. n \in 0..Len(toks) /\ n + 1 \in 0..Len(toks) /\ n + 1 \in 1..Len(toks)
    BY <1>4
  <2>2. PICK s, x : s = PiecesTo(toks, by, n) /\ x = PieceAt(toks, by, n + 1)
    OBVIOUS
  <2>3. s \in Seq(Texts) /\ Len(s) = n /\ x \in Texts
    BY <1>1, <2>1, <2>2, PieceTyped
  <2>4. PICK t : t = PiecesTo(toks, by, n + 1)
    OBVIOUS
  <2>5. t \in Seq(Texts) /\ Len(t) = n + 1
    BY <1>1, <2>1, <2>4
  <2>6. \A i \in 1..n : t[i] = s[i]
    BY <2>2, <2>4 DEF PiecesTo
  <2>7. t[n + 1] = x
    BY <2>2, <2>4 DEF PiecesTo
  <2>8. t = Append(s, x)
    <3>1. /\ Append(s, x) \in Seq(Texts) /\ Len(Append(s, x)) = n + 1
          /\ \A i \in 1..n : Append(s, x)[i] = s[i]
          /\ Append(s, x)[n + 1] = x
      BY <2>3
    <3>2. PICK u : u = Append(s, x)
      OBVIOUS
    <3>3. \A i \in 1..Len(t) : t[i] = u[i]
      BY <2>5, <2>6, <2>7, <3>1, <3>2
    <3> QED
      BY <2>5, <3>1, <3>2, <3>3, SeqEqual
  <2>9. FlattenSeq(Append(s, x)) = FlattenSeq(s) \o x
    BY <2>3, FlattenAppend DEF Texts
  <2> QED
    BY <2>2, <2>4, <2>8, <2>9 DEF Part, Cat
<1>5. Part(toks, by, Len(toks)) = Splice(toks, by)
  BY DEF Part, PiecesTo, PieceAt, Splice
<1> QED
  BY <1>2, <1>3, <1>4, <1>5

LEMMA SpliceTyped ==
  ASSUME NEW toks \in Seq(Tokens), NEW by, Covers(by)
  PROVE  Splice(toks, by) \in Texts
<1>1. Len(toks) \in 0..Len(toks)
  OBVIOUS
<1> QED
  BY <1>1, PartSteps

-----------------------------------------------------------------------------
Names == Files \cup Tokens \cup Punctuation
SpliceStep(has, t) ==
  [f \in Names |-> IF f \notin DOMAIN has THEN << >> ELSE Splice(has[f], t)]
Empties == [f \in Names |-> << >>]

LEMMA SplicedIs ==
  ASSUME NEW has
  PROVE  Spliced(has) = CHOOSE t : t = [n \in Nat |->
           [f \in Names |-> IF n = 0 \/ f \notin DOMAIN has THEN << >> ELSE Splice(has[f], t[n - 1])]]
BY DEF Spliced, Names

LEMMA SplicedSteps ==
  ASSUME NEW has, has \in [DOMAIN has -> Seq(Tokens)]
  PROVE  /\ \A n \in Nat : Spliced(has)[n] \in [Names -> Texts] /\ Covers(Spliced(has)[n])
         /\ \A f \in Names : Spliced(has)[0][f] = << >>
         /\ \A n \in Nat, f \in Names :
              Spliced(has)[n + 1][f]
                = IF f \notin DOMAIN has THEN << >> ELSE Splice(has[f], Spliced(has)[n])
<1> DEFINE V == [Names -> Texts]
<1>1. ASSUME NEW t \in V PROVE Covers(t)
  BY DEF Covers, Env, Names
<1>2. << >> \in Texts
  BY DEF Texts
<1>3. ASSUME NEW t \in V PROVE SpliceStep(has, t) \in V
  <2>1. \A f \in DOMAIN has : Splice(has[f], t) \in Texts
    BY <1>1, SpliceTyped
  <2>2. \A f \in Names : (IF f \notin DOMAIN has THEN << >> ELSE Splice(has[f], t)) \in Texts
    BY <1>2, <2>1
  <2> QED
    BY <2>2 DEF SpliceStep
<1> DEFINE F == [n \in Nat |-> [t \in V |-> SpliceStep(has, t)]]
<1>4. F \in [Nat -> [V -> V]]
  BY <1>3
<1>5. \A n \in Nat, t \in V : F[n][t] = SpliceStep(has, t)
  OBVIOUS
<1>6. Empties \in V
  BY <1>2 DEF Empties
<1> HIDE DEF F, V
<1>7. PICK u \in [Nat -> V] : Iterates(u, Empties, F)
  BY <1>4, <1>6, RecursionExists
<1>8. u[0] = Empties /\ \A n \in Nat : u[n + 1] = SpliceStep(has, u[n])
  BY <1>5, <1>7 DEF Iterates
<1> DEFINE eq(t, n) ==
      [f \in Names |-> IF n = 0 \/ f \notin DOMAIN has THEN << >> ELSE Splice(has[f], t[n - 1])]
<1>9. ASSUME NEW t PROVE eq(t, 0) = Empties
  BY DEF Empties
<1>10. ASSUME NEW t, NEW n \in Nat PROVE eq(t, n + 1) = SpliceStep(has, t[n])
  <2>1. n + 1 # 0 /\ (n + 1) - 1 = n
    OBVIOUS
  <2> QED
    BY <2>1 DEF SpliceStep
<1>11. Spliced(has) = CHOOSE t : t = [n \in Nat |-> eq(t, n)]
  BY SplicedIs
<1> HIDE DEF eq
<1>12. ASSUME NEW n \in Nat PROVE u[n] = eq(u, n)
  <2>1. CASE n = 0
    BY <1>8, <1>9, <2>1
  <2>2. CASE n # 0
    <3>1. PICK m \in Nat : n = m + 1
      <4>1. n - 1 \in Nat /\ n = (n - 1) + 1
        BY <2>2
      <4> QED
        BY <4>1
    <3> QED
      BY <1>8, <1>10, <3>1
  <2> QED
    BY <2>1, <2>2
<1>13. u = [n \in Nat |-> u[n]]
  OBVIOUS
<1>14. u = [n \in Nat |-> eq(u, n)]
  BY <1>12, <1>13, Zenon
<1>15. PICK s : s = Spliced(has)
  OBVIOUS
<1>16. s = [n \in Nat |-> eq(s, n)]
  BY <1>11, <1>14, <1>15, Zenon
<1>17. \A n \in Nat : s[n] = eq(s, n)
  BY <1>16, Zenon
<1>18. s[0] = Empties /\ \A n \in Nat : s[n + 1] = SpliceStep(has, s[n])
  BY <1>9, <1>10, <1>17
<1>19. \A n \in Nat : s[n] \in V
  <2> DEFINE T == {n \in Nat : s[n] \in V}
  <2>1. 0 \in T
    BY <1>6, <1>18
  <2>2. ASSUME NEW n \in Nat, n \in T PROVE n + 1 \in T
    BY <1>3, <1>18, <2>2
  <2> HIDE DEF T
  <2>3. ASSUME NEW n \in Nat PROVE n \in T
    <3>1. n \in 0..n
      OBVIOUS
    <3> QED
      BY <2>1, <2>2, <3>1, NatSteps
  <2> QED
    BY <2>3 DEF T
<1>20. \A f \in Names : s[0][f] = << >>
  BY <1>18 DEF Empties
<1>21. \A n \in Nat, f \in Names :
         s[n + 1][f] = IF f \notin DOMAIN has THEN << >> ELSE Splice(has[f], s[n])
  BY <1>18 DEF SpliceStep
<1> QED
  BY <1>1, <1>15, <1>19, <1>20, <1>21 DEF V

-----------------------------------------------------------------------------
(***************************************************************************)
(* The parser                                                              *)
(***************************************************************************)
OpenBlocks == [dirs : Seq(Directives), words : Seq(Tokens)]

\* What the parser has after any number of tokens: no directive without a name.
Parsing(s) ==
  /\ s \in [ok : BOOLEAN, open : Seq(OpenBlocks) \ {<< >>}]
  /\ \A i \in 1..(Len(s.open) - 1) : s.open[i].words # << >>

LEMMA BlockFields ==
  ASSUME NEW b \in OpenBlocks
  PROVE  b.dirs \in Seq(Directives) /\ b.words \in Seq(Tokens)
BY DEF OpenBlocks

\* The blocks n are the first k - 1 blocks of o, and b.
Became(o, n, k, b) ==
  /\ n \in Seq(OpenBlocks) /\ Len(n) = k /\ n[k] = b
  /\ \A i \in 1..(k - 1) : n[i] = o[i]

LEMMA BecameAppend ==
  ASSUME NEW o \in Seq(OpenBlocks), NEW k \in Nat \ {0}, k <= Len(o) + 1, NEW r \in Seq(OpenBlocks),
         Len(r) = k - 1, \A i \in 1..(k - 1) : r[i] = o[i], NEW b \in OpenBlocks
  PROVE  Became(o, Append(r, b), k, b)
<1>1. PICK m \in Nat : k = m + 1 /\ k - 1 = m
  <2>1. k - 1 \in Nat /\ k = (k - 1) + 1
    OBVIOUS
  <2> QED
    BY <2>1
<1>2. /\ Append(r, b) \in Seq(OpenBlocks) /\ Len(Append(r, b)) = m + 1
      /\ Append(r, b)[m + 1] = b /\ \A i \in 1..m : Append(r, b)[i] = r[i]
  BY <1>1
<1>3. \A i \in 1..m : Append(r, b)[i] = o[i]
  BY <1>1, <1>2
<1> QED
  BY <1>1, <1>2, <1>3 DEF Became

LEMMA FinishedTyped ==
  ASSUME NEW b \in OpenBlocks, b.words # << >>, NEW block \in Seq(Directives)
  PROVE  /\ Directive(b.words, ";", << >>) \in Directives
         /\ Directive(b.words, "}", block) \in Directives
         /\ Finished(b, ";", << >>) \in OpenBlocks
         /\ Finished(b, "}", block) \in OpenBlocks
<1>1. Head(b.words) \in Tokens /\ Tail(b.words) \in Seq(Tokens) /\ b.dirs \in Seq(Directives)
  BY DEF OpenBlocks
<1>2. PICK d, e : d = Directive(b.words, ";", << >>) /\ e = Directive(b.words, "}", block)
  OBVIOUS
<1>3. d \in Directives /\ e \in Directives
  BY <1>1, <1>2, OverHas, DirectivesAre DEF Directive
<1>4. Append(b.dirs, d) \in Seq(Directives) /\ Append(b.dirs, e) \in Seq(Directives)
  BY <1>1, <1>3
<1>5. << >> \in Seq(Tokens)
  OBVIOUS
<1>6. /\ [dirs |-> Append(b.dirs, d), words |-> << >>] \in OpenBlocks
      /\ [dirs |-> Append(b.dirs, e), words |-> << >>] \in OpenBlocks
  BY <1>4, <1>5 DEF OpenBlocks
<1> QED
  BY <1>2, <1>3, <1>6 DEF Finished

\* A word ends up in the innermost block.
WithWord(b, tok) == [dirs |-> b.dirs, words |-> Append(b.words, tok)]

\* The parser's innermost block and those around it.
Moves(t, n) == t = [ok |-> TRUE, open |-> n]
Errs(t, n) == t = [ok |-> FALSE, open |-> n]
Going(s, o, k) == Parsing(s) /\ s.ok /\ o = s.open /\ k = Len(o)

LEMMA ParsingTop ==
  ASSUME NEW s, NEW o, NEW k, Going(s, o, k)
  PROVE  /\ k \in Nat \ {0} /\ o \in Seq(OpenBlocks) /\ o # << >> /\ s = [ok |-> TRUE, open |-> o]
         /\ Last(o) = o[k] /\ Front(o) \in Seq(OpenBlocks) /\ Len(Front(o)) = k - 1
         /\ \A i \in 1..(k - 1) : Front(o)[i] = o[i] /\ o[i].words # << >>
         /\ o[k] \in OpenBlocks
<1>1. o \in Seq(OpenBlocks) /\ o # << >> /\ s = [ok |-> TRUE, open |-> o]
  BY DEF Going, Parsing
<1>2. /\ k \in Nat \ {0} /\ Last(o) \in OpenBlocks /\ Last(o) = o[k]
      /\ Front(o) \in Seq(OpenBlocks)
      /\ Len(Front(o)) = k - 1 /\ \A i \in 1..(k - 1) : Front(o)[i] = o[i]
  BY <1>1, FrontLast DEF Last, Going
<1>3. \A i \in 1..(k - 1) : o[i].words # << >>
  BY DEF Going, Parsing
<1> QED
  BY <1>1, <1>2, <1>3

\* What parse_block (parser.rs) does with a token, case by case.
LEMMA ParseWord ==
  ASSUME NEW s, NEW o, NEW k, Going(s, o, k), NEW tok \in Tokens,
         tok \notin Punctuation
  PROVE  \E n : /\ Moves(ParseToken(s, tok), n)
               /\ Became(o, n, k, WithWord(o[k], tok))
<1>1. /\ k \in Nat \ {0} /\ o \in Seq(OpenBlocks) /\ s = [ok |-> TRUE, open |-> o]
      /\ Last(o) = o[k] /\ Front(o) \in Seq(OpenBlocks) /\ Len(Front(o)) = k - 1
      /\ \A i \in 1..(k - 1) : Front(o)[i] = o[i]
  BY ParsingTop
<1>2. PICK b \in OpenBlocks : b = o[k]
  BY ParsingTop
<1>3. b.dirs \in Seq(Directives) /\ b.words \in Seq(Tokens)
  BY BlockFields
<1>4. [b EXCEPT !.words = Append(@, tok)] = WithWord(b, tok)
  <2>1. PICK w : w = Append(b.words, tok)
    OBVIOUS
  <2>2. [b EXCEPT !.words = w] = [dirs |-> b.dirs, words |-> w]
    BY DEF OpenBlocks
  <2> QED
    BY <2>1, <2>2, Zenon DEF WithWord
<1>5. WithWord(b, tok) \in OpenBlocks
  <2>1. Append(b.words, tok) \in Seq(Tokens)
    BY <1>3
  <2> QED
    BY <1>3, <2>1 DEF WithWord, OpenBlocks
<1>6. ParseToken(s, tok) = [ok |-> TRUE, open |-> Append(Front(o), WithWord(b, tok))]
  BY <1>1, <1>2, <1>4 DEF ParseToken, Punctuation
<1>7. Became(o, Append(Front(o), WithWord(b, tok)), k, WithWord(b, tok))
  <2>1. k <= Len(o) + 1
    BY <1>1 DEF Going
  <2> QED
    BY <1>1, <1>5, <2>1, BecameAppend
<1> QED
  BY <1>2, <1>6, <1>7 DEF Moves

LEMMA ParseEnd ==
  ASSUME NEW s, NEW o, NEW k, Going(s, o, k), o[k].words # << >>
  PROVE  \E n : /\ Moves(ParseToken(s, ";"), n)
               /\ Became(o, n, k, Finished(o[k], ";", << >>))
<1>1. /\ k \in Nat \ {0} /\ o \in Seq(OpenBlocks) /\ s = [ok |-> TRUE, open |-> o]
      /\ Last(o) = o[k] /\ Front(o) \in Seq(OpenBlocks) /\ Len(Front(o)) = k - 1
      /\ o[k] \in OpenBlocks
      /\ \A i \in 1..(k - 1) : Front(o)[i] = o[i]
  BY ParsingTop
<1>2. PICK b : b = Finished(o[k], ";", << >>)
  OBVIOUS
<1>3. b \in OpenBlocks
  <2>1. << >> \in Seq(Directives)
    OBVIOUS
  <2> QED
    BY <1>1, <1>2, <2>1, FinishedTyped
<1>4. ParseToken(s, ";") = [ok |-> TRUE, open |-> Append(Front(o), b)]
  BY <1>1, <1>2 DEF ParseToken, Punctuation
<1>5. Became(o, Append(Front(o), b), k, b)
  <2>1. k <= Len(o) + 1
    BY <1>1 DEF Going
  <2> QED
    BY <1>1, <1>3, <2>1, BecameAppend
<1> QED
  BY <1>2, <1>4, <1>5 DEF Moves

LEMMA ParseOpen ==
  ASSUME NEW s, NEW o, NEW k, Going(s, o, k), o[k].words # << >>
  PROVE  \E n : /\ Moves(ParseToken(s, "{"), n)
               /\ Became(o, n, k + 1, EmptyBlock)
<1>1. k \in Nat \ {0} /\ o \in Seq(OpenBlocks) /\ s = [ok |-> TRUE, open |-> o] /\ Last(o) = o[k]
  BY ParsingTop
<1>2. k + 1 \in Nat \ {0} /\ (k + 1) - 1 = k /\ k + 1 <= Len(o) + 1 /\ Len(o) = (k + 1) - 1
  BY <1>1 DEF Going
<1>3. EmptyBlock \in OpenBlocks
  BY DEF EmptyBlock, OpenBlocks
<1>4. ParseToken(s, "{") = [ok |-> TRUE, open |-> Append(o, EmptyBlock)]
  BY <1>1 DEF ParseToken, Punctuation
<1>5. Became(o, Append(o, EmptyBlock), k + 1, EmptyBlock)
  BY <1>1, <1>2, <1>3, BecameAppend
<1> QED
  BY <1>4, <1>5 DEF Moves

LEMMA ParseClose ==
  ASSUME NEW s, NEW o, NEW j \in Nat \ {0}, Going(s, o, j + 1),
         o[j + 1].words = << >>
  PROVE  \E n : /\ Moves(ParseToken(s, "}"), n)
               /\ Became(o, n, j, Finished(o[j], "}", o[j + 1].dirs))
<1>1. /\ o \in Seq(OpenBlocks) /\ s = [ok |-> TRUE, open |-> o] /\ Last(o) = o[j + 1]
      /\ Front(o) \in Seq(OpenBlocks) /\ Len(Front(o)) = (j + 1) - 1
      /\ o[j + 1] \in OpenBlocks
      /\ \A i \in 1..((j + 1) - 1) : Front(o)[i] = o[i] /\ o[i].words # << >>
  BY ParsingTop
<1>2. (j + 1) - 1 = j /\ j \in 1..j /\ j <= Len(o) + 1
  BY DEF Going
<1>3. PICK r : r = Front(o)
  OBVIOUS
<1>4. r \in Seq(OpenBlocks) /\ Len(r) = j /\ r # << >>
  BY <1>1, <1>2, <1>3
<1>5. /\ Last(r) \in OpenBlocks /\ Last(r) = r[j]
      /\ Front(r) \in Seq(OpenBlocks) /\ Len(Front(r)) = j - 1
      /\ \A i \in 1..(j - 1) : Front(r)[i] = r[i]
  BY <1>4, FrontLast DEF Last
<1>6. \A i \in 1..j : r[i] = o[i] /\ o[i].words # << >>
  BY <1>1, <1>2, <1>3
<1>7. Last(r) = o[j] /\ o[j].words # << >>
  BY <1>2, <1>5, <1>6
<1>8. PICK b : b = Finished(o[j], "}", o[j + 1].dirs)
  OBVIOUS
<1>9. b \in OpenBlocks
  <2>1. o[j + 1].dirs \in Seq(Directives)
    BY <1>1, BlockFields
  <2> QED
    BY <1>5, <1>7, <1>8, <2>1, FinishedTyped
<1>10. ParseToken(s, "}") = [ok |-> TRUE, open |-> Append(Front(r), b)]
  BY <1>1, <1>3, <1>4, <1>7, <1>8 DEF ParseToken, Punctuation
<1>11. \A i \in 1..(j - 1) : Front(r)[i] = o[i]
  BY <1>5, <1>6
<1>12. Became(o, Append(Front(r), b), j, b)
  BY <1>1, <1>2, <1>5, <1>9, <1>11, BecameAppend
<1> QED
  BY <1>8, <1>10, <1>12 DEF Moves

Misplaced(o, k, tok) ==
  /\ tok \in {";", "{"} => o[k].words = << >>
  /\ tok = "}" => o[k].words # << >> \/ k = 1

LEMMA ParseError ==
  ASSUME NEW s, NEW o, NEW k, Going(s, o, k), NEW tok \in Punctuation, Misplaced(o, k, tok)
  PROVE  Errs(ParseToken(s, tok), o)
<1>1. k \in Nat \ {0} /\ s = [ok |-> TRUE, open |-> o] /\ Last(o) = o[k]
      /\ Front(o) \in Seq(OpenBlocks) /\ Len(Front(o)) = k - 1
  BY ParsingTop
<1>2. ASSUME k = 1 PROVE Front(o) = << >>
  <2>1. PICK r : r = Front(o)
    OBVIOUS
  <2>3. r \in Seq(OpenBlocks) /\ Len(r) = 0
    BY <1>1, <1>2, <2>1
  <2>2. r = << >>
    BY <2>3
  <2> QED
    BY <2>1, <2>2
<1> QED
  BY <1>1, <1>2 DEF ParseToken, Punctuation, Misplaced, Errs

\* Blocks below the innermost one keep their words.
LEMMA ParsingAfter ==
  ASSUME NEW s, Parsing(s), NEW n, NEW k \in Nat \ {0}, NEW b, Became(s.open, n, k, b),
         \A i \in 1..(k - 1) : s.open[i].words # << >>, NEW ok \in BOOLEAN
  PROVE  Parsing([ok |-> ok, open |-> n])
<1>1. n \in Seq(OpenBlocks) /\ n # << >>
  BY DEF Became
<1> QED
  BY <1>1 DEF Parsing, Became

LEMMA ParseTokenTyped ==
  ASSUME NEW s, Parsing(s), NEW tok \in Tokens
  PROVE  Parsing(ParseToken(s, tok))
<1>1. CASE ~s.ok
  BY <1>1 DEF ParseToken
<1>2. CASE s.ok
  <2>1. PICK o, k : o = s.open /\ k = Len(o)
    OBVIOUS
  <2>8. Going(s, o, k)
    BY <1>2, <2>1 DEF Going
  <2>2. k \in Nat \ {0} /\ \A i \in 1..(k - 1) : o[i].words # << >>
    BY <2>8, ParsingTop
  <2>3. CASE tok \notin Punctuation
    <3>1. PICK n : /\ Moves(ParseToken(s, tok), n)
                   /\ Became(o, n, k, WithWord(o[k], tok))
      BY <2>8, <2>3, ParseWord
    <3> QED
      BY <2>1, <2>2, <3>1, ParsingAfter DEF Moves
  <2>4. CASE tok = ";" /\ o[k].words # << >>
    <3>1. PICK n : /\ Moves(ParseToken(s, tok), n)
                   /\ Became(o, n, k, Finished(o[k], ";", << >>))
      BY <2>8, <2>4, ParseEnd
    <3> QED
      BY <2>1, <2>2, <3>1, ParsingAfter DEF Moves
  <2>5. CASE tok = "{" /\ o[k].words # << >>
    <3>1. PICK n : Moves(ParseToken(s, tok), n) /\ Became(o, n, k + 1, EmptyBlock)
      BY <2>8, <2>5, ParseOpen
    <3>2. k + 1 \in Nat \ {0} /\ \A i \in 1..((k + 1) - 1) : i = k \/ i \in 1..(k - 1)
      BY <2>2
    <3>3. \A i \in 1..((k + 1) - 1) : s.open[i].words # << >>
      BY <2>1, <2>2, <2>5, <3>2
    <3> QED
      BY <2>1, <3>1, <3>2, <3>3, ParsingAfter DEF Moves
  <2>6. CASE tok = "}" /\ o[k].words = << >> /\ k # 1
    <3>1. PICK j \in Nat \ {0} : j + 1 = k
      <4>2. k # 1
        BY <2>6
      <4>1. k - 1 \in Nat \ {0} /\ (k - 1) + 1 = k
        BY <2>2, <4>2
      <4> QED
        BY <4>1
    <3>2. PICK n : /\ Moves(ParseToken(s, tok), n)
                   /\ Became(o, n, j, Finished(o[j], "}", o[j + 1].dirs))
      BY <2>6, <2>8, <3>1, ParseClose
    <3>3. \A i \in 1..(j - 1) : i \in 1..(k - 1)
      BY <3>1
    <3>4. \A i \in 1..(j - 1) : s.open[i].words # << >>
      BY <2>1, <2>2, <3>3
    <3> QED
      BY <2>1, <3>2, <3>4, ParsingAfter DEF Moves
  <2>7. CASE tok \in Punctuation /\ Misplaced(o, k, tok)
    <3>1. Errs(ParseToken(s, tok), o)
      BY <2>8, <2>7, ParseError
    <3> QED
      BY <2>1, <3>1 DEF Parsing, Errs
  <2> QED
    BY <2>3, <2>4, <2>5, <2>6, <2>7 DEF Punctuation, Misplaced
<1> QED
  BY <1>1, <1>2

-----------------------------------------------------------------------------
\* The states of the parser along the tokens.
Start == [ok |-> TRUE, open |-> <<EmptyBlock>>]
RunOf(f, toks, n) ==
  f = [i \in 0..n |-> IF i = 0 THEN Start ELSE ParseToken(f[i - 1], toks[i])]
IsRun(f, toks) ==
  f[0] = Start /\ \A i \in Nat : i < Len(toks) => f[i + 1] = ParseToken(f[i], toks[i + 1])

\* There is a run of the parser over the first n tokens, for every n.
LEMMA RunExists ==
  ASSUME NEW toks, NEW n \in Nat
  PROVE  \E f : RunOf(f, toks, n)
<1> DEFINE T == {k \in Nat : ~ \E f : RunOf(f, toks, k)}
<1> SUFFICES ASSUME T # {} PROVE FALSE
  OBVIOUS
<1>1. PICK m \in T : \A k \in T : m <= k
  BY LeastElement
<1>2. m # 0
  <2>1. RunOf([i \in 0..0 |-> Start], toks, 0)
    BY DEF RunOf
  <2> QED
    BY <1>1, <2>1
<1>3. m - 1 \in Nat /\ ~(m <= m - 1)
  BY <1>1, <1>2
<1>4. PICK f : RunOf(f, toks, m - 1)
  BY <1>1, <1>3
<1> DEFINE g == [i \in 0..m |-> IF i = m THEN ParseToken(f[m - 1], toks[m]) ELSE f[i]]
<1>5. ASSUME NEW i \in 0..m
      PROVE  g[i] = IF i = 0 THEN Start ELSE ParseToken(g[i - 1], toks[i])
  <2>1. \A j \in 0..(m - 1) : j \in 0..m /\ j # m /\ g[j] = f[j]
    BY <1>1, <1>3
  <2>2. CASE i = m
    <3>1. m - 1 \in 0..(m - 1)
      BY <1>3
    <3> QED
      BY <1>2, <2>1, <2>2, <3>1
  <2>3. CASE i # m
    <3>1. i \in 0..(m - 1) /\ (i # 0 => i - 1 \in 0..(m - 1))
      BY <1>3, <2>3
    <3>2. f[i] = IF i = 0 THEN Start ELSE ParseToken(f[i - 1], toks[i])
      BY <1>4, <3>1 DEF RunOf
    <3> QED
      BY <2>1, <3>1, <3>2
  <2> QED
    BY <2>2, <2>3
<1> HIDE DEF g
<1>6. g = [i \in 0..m |-> g[i]]
  BY DEF g
<1>7. RunOf(g, toks, m)
  BY <1>5, <1>6, Zenon DEF RunOf
<1> QED
  BY <1>1, <1>7

\* What Parse returns is what the last state of its run of the parser holds.
LEMMA ParseIsRun ==
  ASSUME NEW toks, Len(toks) \in Nat
  PROVE  \E f : /\ IsRun(f, toks)
                /\ Parse(toks).ok = (f[Len(toks)].ok /\ Len(f[Len(toks)].open) = 1
                                      /\ f[Len(toks)].open[1].words = << >>)
                /\ Parse(toks).dirs = f[Len(toks)].open[1].dirs
<1> DEFINE n == Len(toks)
<1>1. PICK f : f = CHOOSE g : RunOf(g, toks, n)
  OBVIOUS
<1>2. RunOf(f, toks, n)
  BY <1>1, RunExists
<1>3. \A i \in 0..n : f[i] = IF i = 0 THEN Start ELSE ParseToken(f[i - 1], toks[i])
  BY <1>2, Zenon DEF RunOf
<1>4. f[0] = Start
  BY <1>3
<1>5. ASSUME NEW i \in Nat, i < n PROVE f[i + 1] = ParseToken(f[i], toks[i + 1])
  <2>1. i + 1 \in 0..n /\ i + 1 # 0 /\ (i + 1) - 1 = i
    BY <1>5
  <2> QED
    BY <1>3, <2>1
<1>6. IsRun(f, toks)
  BY <1>4, <1>5 DEF IsRun
<1>7. Parse(toks) = LET end == (CHOOSE g : RunOf(g, toks, n))[n]
                    IN  [ok   |-> end.ok /\ Len(end.open) = 1 /\ end.open[1].words = << >>,
                         dirs |-> end.open[1].dirs]
  BY DEF Parse, RunOf, Start
<1>8. Parse(toks) = [ok   |-> f[n].ok /\ Len(f[n].open) = 1 /\ f[n].open[1].words = << >>,
                     dirs |-> f[n].open[1].dirs]
  BY <1>1, <1>7
<1> QED
  BY <1>6, <1>8

LEMMA RunTyped ==
  ASSUME NEW toks \in Seq(Tokens), NEW f, IsRun(f, toks)
  PROVE  \A i \in 0..Len(toks) : Parsing(f[i])
<1> DEFINE T == {i \in Nat : Parsing(f[i])}
<1>1. 0 \in T
  <2>1. EmptyBlock \in OpenBlocks
    BY DEF EmptyBlock, OpenBlocks
  <2>2. <<EmptyBlock>> \in Seq(OpenBlocks) /\ <<EmptyBlock>> # << >> /\ Len(<<EmptyBlock>>) = 1
    BY <2>1
  <2>3. Parsing(Start)
    BY <2>2 DEF Parsing, Start
  <2> QED
    BY <2>3 DEF IsRun
<1>2. ASSUME NEW i \in Nat, i < Len(toks), i \in T PROVE i + 1 \in T
  <2>1. i + 1 \in 1..Len(toks) /\ i + 1 \in Nat
    BY <1>2
  <2>2. toks[i + 1] \in Tokens
    BY <2>1
  <2>3. f[i + 1] = ParseToken(f[i], toks[i + 1])
    BY <1>2 DEF IsRun
  <2> QED
    BY <1>2, <2>1, <2>2, <2>3, ParseTokenTyped
<1>3. Len(toks) \in Nat
  OBVIOUS
<1> HIDE DEF T
<1>4. \A i \in 0..Len(toks) : i \in T
  BY <1>1, <1>2, <1>3, NatSteps
<1> QED
  BY <1>4 DEF T

-----------------------------------------------------------------------------
(***************************************************************************)
(* The parser accepts what the grammar allows                              *)
(***************************************************************************)
HasWords(b) == b.words # << >>
Reading(s) == HasWords(s.open[Len(s.open)])

\* As long as there is no error, the parser has a block for every open brace.
Follows(s, toks, i) ==
  /\ s.ok <=> \A j \in 1..i : Allowed(toks, j)
  /\ s.ok => /\ Len(s.open) = 1 + Nesting(toks, i)
             /\ Reading(s) <=> WordAt(toks, i)

LEMMA BecameTop ==
  ASSUME NEW o, NEW n, NEW k, NEW b, Became(o, n, k, b), NEW t, Moves(t, n)
  PROVE  t.ok /\ Len(t.open) = k /\ (Reading(t) <=> HasWords(b))
BY DEF Became, Reading, Moves

LEMMA FollowsStep ==
  ASSUME NEW toks \in Seq(Tokens), NEW i \in Nat, i < Len(toks), NEW s, Parsing(s), Follows(s, toks, i)
  PROVE  Follows(ParseToken(s, toks[i + 1]), toks, i + 1)
<1>1. PICK tok \in Tokens : tok = toks[i + 1]
  <2>1. i + 1 \in 1..Len(toks)
    OBVIOUS
  <2> QED
    BY <2>1
<1>2. (i + 1) - 1 = i /\ i + 1 >= 1 /\ 1..(i + 1) = (1..i) \cup {i + 1}
  OBVIOUS
<1>3. (\A j \in 1..(i + 1) : Allowed(toks, j))
        <=> (\A j \in 1..i : Allowed(toks, j)) /\ Allowed(toks, i + 1)
  BY <1>2
<1>4. WordAt(toks, i + 1) <=> tok \notin Punctuation
  BY <1>1, <1>2 DEF WordAt
<1>5. PICK x \in Int, y \in Int : x = Nesting(toks, i) /\ y = Nesting(toks, i + 1)
  <2>1. i + 1 \in Nat
    OBVIOUS
  <2>2. Nesting(toks, i) \in Int /\ Nesting(toks, i + 1) \in Int
    BY <2>1, NestingStep
  <2> QED
    BY <2>2
<1>6. /\ tok = "{" => y = x + 1
      /\ tok = "}" => y = x - 1
      /\ tok \notin {"{", "}"} => y = x
  BY <1>1, <1>5, NestingStep
<1>7. Allowed(toks, i + 1) <=> /\ tok \in {";", "{"} => WordAt(toks, i)
                               /\ tok = "}" => ~WordAt(toks, i) /\ y >= 0
  BY <1>1, <1>2, <1>5 DEF Allowed
<1>8. CASE ~s.ok
  <2>1. ParseToken(s, tok) = s
    BY <1>8 DEF ParseToken
  <2> QED
    BY <1>1, <1>3, <1>8, <2>1 DEF Follows
<1>9. CASE s.ok
  <2>1. PICK o, k : o = s.open /\ k = Len(o)
    OBVIOUS
  <2>2. Going(s, o, k)
    BY <1>9, <2>1 DEF Going
  <2>3. k \in Nat \ {0} /\ k = 1 + x
    BY <1>5, <1>9, <2>1, <2>2, ParsingTop DEF Follows
  <2>4. (Reading(s) <=> HasWords(o[k])) /\ (HasWords(o[k]) <=> o[k].words # << >>)
    BY <2>1 DEF Reading, HasWords
  <2>5. (Reading(s) <=> WordAt(toks, i)) /\ \A j \in 1..i : Allowed(toks, j)
    BY <1>9 DEF Follows
  <2>6. ASSUME NEW n, NEW b, NEW m, Became(o, n, m, b), Moves(ParseToken(s, tok), n),
               Allowed(toks, i + 1), m = 1 + y, HasWords(b) <=> tok \notin Punctuation
        PROVE  Follows(ParseToken(s, tok), toks, i + 1)
    <3>1. PICK t : t = ParseToken(s, tok)
      OBVIOUS
    <3>2. Len(t.open) = m /\ (Reading(t) <=> HasWords(b)) /\ t.ok
      BY <2>6, <3>1, BecameTop
    <3>3. Follows(t, toks, i + 1)
      BY <1>3, <1>4, <1>5, <2>5, <2>6, <3>2 DEF Follows
    <3> QED
      BY <3>1, <3>3
  <2>7. CASE tok \notin Punctuation
    <3>1. PICK n : /\ Moves(ParseToken(s, tok), n)
                   /\ Became(o, n, k, WithWord(o[k], tok))
      BY <2>2, <2>7, ParseWord
    <3>2. y = x /\ Allowed(toks, i + 1)
      BY <1>6, <1>7, <2>7 DEF Punctuation
    <3>3. HasWords(WithWord(o[k], tok))
      <4>1. o[k].words \in Seq(Tokens)
        BY <2>2, ParsingTop, BlockFields
      <4>2. Append(o[k].words, tok) # << >>
        BY <4>1
      <4> QED
        BY <4>2 DEF WithWord, HasWords
    <3> QED
      BY <1>1, <2>3, <2>6, <2>7, <3>1, <3>2, <3>3
  <2>8. CASE tok = ";" /\ HasWords(o[k])
    <3>1. PICK n : /\ Moves(ParseToken(s, tok), n)
                   /\ Became(o, n, k, Finished(o[k], ";", << >>))
      BY <2>2, <2>4, <2>8, ParseEnd
    <3>2. y = x /\ Allowed(toks, i + 1) /\ tok \in Punctuation
      BY <1>6, <1>7, <2>4, <2>5, <2>8 DEF Punctuation
    <3>3. ~HasWords(Finished(o[k], ";", << >>))
      BY DEF Finished, HasWords
    <3> QED
      BY <1>1, <2>3, <2>6, <3>1, <3>2, <3>3
  <2>9. CASE tok = "{" /\ HasWords(o[k])
    <3>1. PICK n : Moves(ParseToken(s, tok), n) /\ Became(o, n, k + 1, EmptyBlock)
      BY <2>2, <2>4, <2>9, ParseOpen
    <3>2. y = x + 1 /\ Allowed(toks, i + 1) /\ tok \in Punctuation
      BY <1>6, <1>7, <2>4, <2>5, <2>9 DEF Punctuation
    <3>3. k + 1 = 1 + y
      BY <2>3, <3>2
    <3>4. ~HasWords(EmptyBlock)
      BY DEF EmptyBlock, HasWords
    <3> QED
      BY <1>1, <2>6, <3>1, <3>2, <3>3, <3>4
  <2>10. CASE tok = "}" /\ ~HasWords(o[k]) /\ k # 1
    <3>0. tok = "}" /\ ~Reading(s)
      BY <2>4, <2>10
    <3>1. PICK j \in Nat \ {0} : j + 1 = k
      <4>2. k # 1
        BY <2>10
      <4>1. k - 1 \in Nat \ {0} /\ (k - 1) + 1 = k
        BY <2>3, <4>2
      <4> QED
        BY <4>1
    <3>2. PICK n : /\ Moves(ParseToken(s, tok), n)
                   /\ Became(o, n, j, Finished(o[j], "}", o[j + 1].dirs))
      BY <2>2, <2>4, <2>10, <3>1, ParseClose
    <3>3. y = x - 1
      BY <1>6, <3>0
    <3>4. y >= 0 /\ j = 1 + y
      BY <2>3, <3>1, <3>3
    <3>5. Allowed(toks, i + 1) /\ tok \in Punctuation
      BY <1>7, <2>5, <3>0, <3>4 DEF Punctuation
    <3>6. ~HasWords(Finished(o[j], "}", o[j + 1].dirs))
      BY DEF Finished, HasWords
    <3> QED
      BY <1>1, <2>6, <3>2, <3>4, <3>5, <3>6
  <2>11. CASE tok \in Punctuation /\ Misplaced(o, k, tok)
    <3>1. Errs(ParseToken(s, tok), o)
      BY <2>2, <2>11, ParseError
    <3>2. ~Allowed(toks, i + 1)
      <4>1. CASE tok \in {";", "{"}
        BY <1>7, <2>4, <2>5, <2>11, <4>1 DEF Misplaced
      <4>2. CASE tok = "}"
        <5>1. Reading(s) \/ k = 1
          BY <2>4, <2>11, <4>2 DEF Misplaced
        <5>2. k = 1 => ~(y >= 0)
          <6>1. y = x - 1
            BY <1>6, <4>2
          <6> QED
            BY <2>3, <6>1
        <5> QED
          BY <1>7, <2>5, <4>2, <5>1, <5>2
      <4> QED
        BY <2>11, <4>1, <4>2 DEF Punctuation
    <3>3. PICK t : t = ParseToken(s, tok)
      OBVIOUS
    <3>4. ~t.ok
      BY <3>1, <3>3 DEF Errs
    <3>5. Follows(t, toks, i + 1)
      BY <1>3, <3>2, <3>4 DEF Follows
    <3> QED
      BY <1>1, <3>3, <3>5
  <2> QED
    <3>1. Misplaced(o, k, tok) <=> /\ tok \in {";", "{"} => ~HasWords(o[k])
                                   /\ tok = "}" => HasWords(o[k]) \/ k = 1
      BY DEF Misplaced, HasWords
    <3>2. \/ tok \notin Punctuation
          \/ tok = ";" /\ HasWords(o[k])
          \/ tok = "{" /\ HasWords(o[k])
          \/ tok = "}" /\ ~HasWords(o[k]) /\ k # 1
          \/ tok \in Punctuation /\ Misplaced(o, k, tok)
      BY <3>1 DEF Punctuation
    <3> QED
      BY <2>7, <2>8, <2>9, <2>10, <2>11, <3>2, Zenon
<1> QED
  BY <1>8, <1>9

LEMMA RunFollows ==
  ASSUME NEW toks \in Seq(Tokens), NEW f, IsRun(f, toks)
  PROVE  \A i \in 0..Len(toks) : Follows(f[i], toks, i)
<1> DEFINE T == {i \in Nat : Follows(f[i], toks, i)}
<1>1. 0 \in T
  <2>1. Follows(Start, toks, 0)
    <3>1. Nesting(toks, 0) = 0
      BY NestingStep
    <3>2. Start.ok /\ Len(Start.open) = 1 /\ Start.open[1].words = << >>
      BY DEF Start, EmptyBlock
    <3>3. ~Reading(Start) /\ ~WordAt(toks, 0)
      BY <3>2 DEF Reading, WordAt, HasWords
    <3>4. \A j \in 1..0 : Allowed(toks, j)
      OBVIOUS
    <3>5. Len(Start.open) = 1 + Nesting(toks, 0)
      BY <3>1, <3>2
    <3> QED
      BY <3>2, <3>3, <3>4, <3>5 DEF Follows
  <2> QED
    BY <2>1 DEF IsRun
<1>2. ASSUME NEW i \in Nat, i < Len(toks), i \in T PROVE i + 1 \in T
  <2>1. i \in 0..Len(toks) /\ i + 1 \in Nat
    BY <1>2
  <2>2. f[i + 1] = ParseToken(f[i], toks[i + 1])
    BY <1>2 DEF IsRun
  <2> QED
    BY <1>2, <2>1, <2>2, RunTyped, FollowsStep
<1>3. Len(toks) \in Nat
  OBVIOUS
<1> HIDE DEF T
<1>4. \A i \in 0..Len(toks) : i \in T
  BY <1>1, <1>2, <1>3, NatSteps
<1> QED
  BY <1>4 DEF T


\* parse_block (parser.rs 24-92), token by token with a stack of open blocks, returns
\* no error for exactly the token sequences the grammar allows: a word before every
\* `;` and `{`, none before a `}`, braces that match, no directive left open.
THEOREM ParseOk ==
  ASSUME NEW toks \in Seq(Tokens)
  PROVE  Parse(toks).ok <=> WellFormed(toks)
<1>1. PICK n \in Nat : n = Len(toks)
  OBVIOUS
<1>2. PICK f : /\ IsRun(f, toks)
               /\ Parse(toks).ok = (f[n].ok /\ Len(f[n].open) = 1 /\ f[n].open[1].words = << >>)
  BY <1>1, ParseIsRun
<1>3. n \in 0..n
  OBVIOUS
<1>4. Follows(f[n], toks, n) /\ Parsing(f[n])
  BY <1>1, <1>2, <1>3, RunFollows, RunTyped
<1>5. PICK x \in Int : x = Nesting(toks, n)
  BY NestingStep
<1>6. f[n].ok => (Len(f[n].open) = 1 <=> x = 0)
  <2>1. f[n].ok => Len(f[n].open) = 1 + x
    BY <1>4, <1>5 DEF Follows
  <2>2. PICK l : l = Len(f[n].open)
    OBVIOUS
  <2>3. l = 1 + x => (l = 1 <=> x = 0)
    OBVIOUS
  <2> QED
    BY <2>1, <2>2, <2>3
<1>7. Len(f[n].open) = 1 => (Reading(f[n]) <=> f[n].open[1].words # << >>)
  BY DEF Reading, HasWords
<1>8. WellFormed(toks) <=> f[n].ok /\ ~WordAt(toks, n) /\ x = 0
  BY <1>1, <1>4, <1>5 DEF Follows, WellFormed
<1>9. f[n].ok => (Reading(f[n]) <=> WordAt(toks, n))
  BY <1>4 DEF Follows
<1> QED
  BY <1>2, <1>6, <1>7, <1>8, <1>9

-----------------------------------------------------------------------------
(***************************************************************************)
(* The text of what the parser has read                                    *)
(***************************************************************************)
IsInclude(w) == w # << >> /\ w[1] = "include"

\* What the words of an include, and how it ends, name.
NamedBy(w, end) == IF Len(w) >= 2 THEN w[2] ELSE IF end = ";" THEN ";" ELSE "{"

LEMMA WordsSplit ==
  ASSUME NEW w \in Seq(Tokens), w # << >>
  PROVE  /\ Cat(<<Head(w)>>, Tail(w)) = w /\ Head(w) = w[1]
         /\ Head(w) \in Tokens /\ Tail(w) \in Seq(Tokens)
         /\ Tail(w) # << >> <=> Len(w) >= 2
         /\ Len(w) >= 2 => Tail(w)[1] = w[2]
<1>1. Head(w) = w[1] /\ Head(w) \in Tokens
  OBVIOUS
<1>2. Tail(w) \in Seq(Tokens) /\ Len(Tail(w)) = Len(w) - 1 /\ Len(w) \in Nat \ {0}
      /\ \A i \in 1..Len(Tail(w)) : Tail(w)[i] = w[i + 1]
  BY HeadTailProperties
<1>3. <<Head(w)>> \o Tail(w) = w
  BY <1>1, <1>2
<1>4. Tail(w) # << >> <=> Len(w) >= 2
  <2>1. PICK t \in Seq(Tokens) : t = Tail(w)
    BY <1>2
  <2>2. t # << >> <=> Len(t) # 0
    OBVIOUS
  <2>3. PICK a \in Nat \ {0} : a = Len(w)
    BY <1>2
  <2>4. Len(t) # 0 <=> a >= 2
    BY <1>2, <2>1, <2>3
  <2> QED
    BY <2>1, <2>2, <2>3, <2>4
<1>5. Len(w) >= 2 => Tail(w)[1] = w[2]
  BY <1>2
<1> QED
  BY <1>1, <1>2, <1>3, <1>4, <1>5 DEF Cat

LEMMA SecondWord ==
  ASSUME NEW w \in Seq(Tokens), Len(w) >= 2
  PROVE  w[2] \in Tokens
<1>1. PICK n \in Nat : n = Len(w)
  OBVIOUS
<1>2. 2 \in 1..n
  BY <1>1
<1> QED
  BY <1>1, <1>2

LEMMA WordsAppend ==
  ASSUME NEW w \in Seq(Tokens), NEW t \in Tokens
  PROVE  Append(w, t) = Cat(w, <<t>>)
BY AppendIsConcat DEF Cat

\* A directive that is finished, as text.
LEMMA OneFinished ==
  ASSUME NEW by, Covers(by), NEW w \in Seq(Tokens), w # << >>, ~IsInclude(w),
         NEW b \in Seq(Directives)
  PROVE  /\ One(by, Directive(w, ";", << >>)) = Cat(w, <<";">>)
         /\ One(by, Directive(w, "}", b)) = Cat(w, Cat(Cat(<<"{">>, Txt(by, b)), <<"}">>))
<1>1. Cat(<<Head(w)>>, Tail(w)) = w /\ Head(w) # "include"
  BY WordsSplit DEF IsInclude
<1>2. PICK d, e : d = Directive(w, ";", << >>) /\ e = Directive(w, "}", b)
  OBVIOUS
<1>3. /\ d.name = Head(w) /\ d.args = Tail(w) /\ d.ends = ";"
      /\ e.name = Head(w) /\ e.args = Tail(w) /\ e.ends = "}" /\ e.block = b
  BY <1>2 DEF Directive
<1>4. One(by, d) = Cat(Cat(<<Head(w)>>, Tail(w)), <<";">>)
  BY <1>1, <1>3 DEF One, Spelled
<1>5. One(by, e) = Cat(Cat(<<Head(w)>>, Tail(w)), Cat(Cat(<<"{">>, Txt(by, b)), <<"}">>))
  BY <1>1, <1>3 DEF One, Spelled
<1> QED
  BY <1>1, <1>2, <1>4, <1>5

LEMMA OneInclude ==
  ASSUME NEW by, Covers(by), NEW w \in Seq(Tokens), IsInclude(w), NEW b, NEW end \in {";", "}"}
  PROVE  One(by, Directive(w, end, b)) = by[NamedBy(w, end)] /\ by[NamedBy(w, end)] \in Texts
<1>1. w # << >> /\ w[1] = "include"
  BY DEF IsInclude
<1>2. /\ Head(w) = "include" /\ (Tail(w) # << >> <=> Len(w) >= 2)
      /\ Len(w) >= 2 => Tail(w)[1] = w[2]
  BY <1>1, WordsSplit
<1>3. PICK d : d = Directive(w, end, b)
  OBVIOUS
<1>4. d.name = Head(w) /\ d.args = Tail(w) /\ d.ends = end
  BY <1>3 DEF Directive
<1>5. FileName(d) = NamedBy(w, end)
  BY <1>2, <1>4 DEF FileName, NamedBy
<1>6. Len(w) >= 2 => w[2] \in Tokens
  BY SecondWord
<1>7. NamedBy(w, end) \in Tokens \cup Punctuation
  BY <1>6 DEF NamedBy, Punctuation
<1>8. NamedBy(w, end) \in DOMAIN by
  BY <1>7 DEF Covers
<1> QED
  BY <1>2, <1>3, <1>4, <1>5, <1>8 DEF One, Spelled, Covers, Env

\* The text of block b, after that of what is around it.
TextOf(by, pre, b) == Cat(Cat(pre, Txt(by, b.dirs)), b.words)

LEMMA TextOfTyped ==
  ASSUME NEW by, Env(by), NEW pre \in Texts, NEW b \in OpenBlocks
  PROVE  /\ Txt(by, b.dirs) \in Texts /\ b.words \in Texts /\ TextOf(by, pre, b) \in Texts
         /\ Cat(pre, Txt(by, b.dirs)) \in Texts
<1>1. Txt(by, b.dirs) \in Texts /\ b.words \in Texts
  BY BlockFields, TxtTyped, TokenTexts
<1>2. PICK t, w : t = Txt(by, b.dirs) /\ w = b.words
  OBVIOUS
<1>3. Cat(pre, t) \in Texts /\ Cat(Cat(pre, t), w) \in Texts
  BY <1>1, <1>2, TextsMonoid DEF Monoid
<1> QED
  BY <1>1, <1>2, <1>3 DEF TextOf

LEMMA TextEmpty ==
  ASSUME NEW by, Env(by), NEW pre \in Texts
  PROVE  TextOf(by, pre, EmptyBlock) = pre
<1>1. EmptyBlock.dirs = << >> /\ EmptyBlock.words = << >>
  BY DEF EmptyBlock
<1>2. Cat(Cat(pre, << >>), << >>) = pre
  BY TextsMonoid DEF Monoid
<1> QED
  BY <1>1, <1>2, TxtEmpty DEF TextOf

LEMMA TextNoWords ==
  ASSUME NEW by, Env(by), NEW pre \in Texts, NEW b \in OpenBlocks, ~HasWords(b)
  PROVE  TextOf(by, pre, b) = Cat(pre, Txt(by, b.dirs))
<1>1. b.words = << >>
  BY DEF HasWords
<1>2. PICK t : t = Cat(pre, Txt(by, b.dirs))
  OBVIOUS
<1>3. t \in Texts
  BY <1>2, TextOfTyped
<1>4. Cat(t, << >>) = t
  BY <1>3, TextsMonoid DEF Monoid
<1> QED
  BY <1>1, <1>2, <1>4 DEF TextOf

LEMMA TextWord ==
  ASSUME NEW by, Env(by), NEW pre \in Texts, NEW b \in OpenBlocks, NEW tok \in Tokens
  PROVE  TextOf(by, pre, WithWord(b, tok)) = Cat(TextOf(by, pre, b), <<tok>>)
<1>1. b.words \in Seq(Tokens)
  BY BlockFields
<1>2. PICK t, w, x : t = Cat(pre, Txt(by, b.dirs)) /\ w = b.words /\ x = <<tok>>
  OBVIOUS
<1>3. t \in Texts /\ w \in Texts /\ x \in Texts
  BY <1>2, TextOfTyped, TokenTexts
<1>4. Cat(Cat(t, w), x) = Cat(t, Cat(w, x))
  BY <1>3, TextsMonoid DEF Monoid
<1>5. WithWord(b, tok).dirs = b.dirs /\ WithWord(b, tok).words = Cat(w, x)
  BY <1>1, <1>2, WordsAppend DEF WithWord
<1> QED
  BY <1>2, <1>4, <1>5 DEF TextOf

\* A directive moves from the words to the directives.
LEMMA TextFinished ==
  ASSUME NEW by, Env(by), NEW pre \in Texts, NEW b \in OpenBlocks, NEW f \in OpenBlocks,
         NEW d \in Directives, f.dirs = Append(b.dirs, d), f.words = << >>
  PROVE  TextOf(by, pre, f) = Cat(Cat(pre, Txt(by, b.dirs)), One(by, d))
<1>1. f.dirs = Append(b.dirs, d) /\ f.words = << >>
  OBVIOUS
<1>2. PICK t, x : t = Txt(by, b.dirs) /\ x = One(by, d)
  OBVIOUS
<1>3. t \in Texts /\ x \in Texts /\ b.dirs \in Seq(Directives)
  BY <1>2, TextOfTyped, OneTyped, BlockFields
<1>5. Txt(by, Append(b.dirs, d)) = Cat(t, x)
  BY <1>2, <1>3, TxtAppend
<1>6. Cat(Cat(pre, Cat(t, x)), << >>) = Cat(Cat(pre, t), x)
  <2>1. Cat(t, x) \in Texts /\ Cat(pre, Cat(t, x)) \in Texts
    BY <1>3, TextsMonoid DEF Monoid
  <2>2. PICK u : u = Cat(pre, Cat(t, x))
    OBVIOUS
  <2>3. Cat(u, << >>) = u
    BY <2>1, <2>2, TextsMonoid DEF Monoid
  <2>4. Cat(Cat(pre, t), x) = Cat(pre, Cat(t, x))
    BY <1>3, TextsMonoid DEF Monoid
  <2> QED
    BY <2>2, <2>3, <2>4
<1> QED
  BY <1>1, <1>2, <1>5, <1>6 DEF TextOf

Closing(end, block) == \/ end = ";" /\ block = << >>
                       \/ end = "}" /\ block \in Seq(Directives)

LEMMA FinishedIs ==
  ASSUME NEW b \in OpenBlocks, HasWords(b), NEW end, NEW block, Closing(end, block)
  PROVE  /\ Directive(b.words, end, block) \in Directives
         /\ Finished(b, end, block) \in OpenBlocks
         /\ Finished(b, end, block).dirs = Append(b.dirs, Directive(b.words, end, block))
         /\ Finished(b, end, block).words = << >>
<1>1. b.words # << >>
  BY DEF HasWords
<1>2. << >> \in Seq(Directives)
  OBVIOUS
<1>3. Directive(b.words, end, block) \in Directives /\ Finished(b, end, block) \in OpenBlocks
  <2>1. CASE end = ";" /\ block = << >>
    BY <1>1, <1>2, <2>1, FinishedTyped
  <2>2. CASE end = "}" /\ block \in Seq(Directives)
    BY <1>1, <2>2, FinishedTyped
  <2> QED
    BY <2>1, <2>2 DEF Closing
<1>4. /\ Finished(b, end, block).dirs = Append(b.dirs, Directive(b.words, end, block))
      /\ Finished(b, end, block).words = << >>
  BY DEF Finished
<1> QED
  BY <1>3, <1>4

LEMMA TextOfFinished ==
  ASSUME NEW by, Env(by), NEW pre \in Texts, NEW b \in OpenBlocks, HasWords(b),
         NEW end, NEW block, Closing(end, block)
  PROVE  TextOf(by, pre, Finished(b, end, block))
           = Cat(Cat(pre, Txt(by, b.dirs)), One(by, Directive(b.words, end, block)))
<1>1. PICK f \in OpenBlocks : f = Finished(b, end, block)
  BY FinishedIs
<1>2. PICK d \in Directives : d = Directive(b.words, end, block)
  BY FinishedIs
<1>3. f.dirs = Append(b.dirs, d) /\ f.words = << >>
  BY <1>1, <1>2, FinishedIs
<1>4. TextOf(by, pre, f) = Cat(Cat(pre, Txt(by, b.dirs)), One(by, d))
  BY <1>3, TextFinished
<1> QED
  BY <1>1, <1>2, <1>4

LEMMA TextEnd ==
  ASSUME NEW by, Covers(by), NEW pre \in Texts, NEW b \in OpenBlocks, HasWords(b), ~IsInclude(b.words)
  PROVE  TextOf(by, pre, Finished(b, ";", << >>)) = Cat(TextOf(by, pre, b), <<";">>)
<1>1. b.words \in Seq(Tokens) /\ b.words # << >> /\ Env(by) /\ << >> \in Seq(Directives)
  BY BlockFields DEF HasWords, Covers
<1>2. Closing(";", << >>)
  BY DEF Closing
<1>3. TextOf(by, pre, Finished(b, ";", << >>))
        = Cat(Cat(pre, Txt(by, b.dirs)), One(by, Directive(b.words, ";", << >>)))
  <2>1. Env(by)
    BY <1>1
  <2>2. PICK e, l : e = ";" /\ l = << >>
    OBVIOUS
  <2>3. Closing(e, l)
    BY <1>2, <2>2
  <2>4. TextOf(by, pre, Finished(b, e, l))
          = Cat(Cat(pre, Txt(by, b.dirs)), One(by, Directive(b.words, e, l)))
    BY <2>1, <2>3, TextOfFinished
  <2> QED
    BY <2>2, <2>4
<1>4. One(by, Directive(b.words, ";", << >>)) = Cat(b.words, <<";">>)
  BY <1>1, OneFinished
<1>5. PICK t, w, x : t = Cat(pre, Txt(by, b.dirs)) /\ w = b.words /\ x = <<";">>
  OBVIOUS
<1>6. t \in Texts /\ w \in Texts /\ x \in Texts
  BY <1>1, <1>5, TextOfTyped, TokenTexts DEF Punctuation
<1>7. Cat(Cat(t, w), x) = Cat(t, Cat(w, x))
  BY <1>6, TextsMonoid DEF Monoid
<1> QED
  BY <1>3, <1>4, <1>5, <1>7 DEF TextOf

LEMMA TextClose ==
  ASSUME NEW by, Covers(by), NEW pre \in Texts, NEW b \in OpenBlocks, HasWords(b), ~IsInclude(b.words),
         NEW c \in OpenBlocks, ~HasWords(c)
  PROVE  TextOf(by, pre, Finished(b, "}", c.dirs))
           = Cat(TextOf(by, Cat(TextOf(by, pre, b), <<"{">>), c), <<"}">>)
<1>1. b.words \in Seq(Tokens) /\ b.words # << >> /\ Env(by) /\ c.dirs \in Seq(Directives)
  BY BlockFields DEF HasWords, Covers
<1>2. Closing("}", c.dirs)
  BY <1>1 DEF Closing
<1>3. TextOf(by, pre, Finished(b, "}", c.dirs))
        = Cat(Cat(pre, Txt(by, b.dirs)), One(by, Directive(b.words, "}", c.dirs)))
  <2>1. Env(by)
    BY <1>1
  <2>2. PICK e, l : e = "}" /\ l = c.dirs
    OBVIOUS
  <2>3. Closing(e, l)
    BY <1>2, <2>2
  <2>4. TextOf(by, pre, Finished(b, e, l))
          = Cat(Cat(pre, Txt(by, b.dirs)), One(by, Directive(b.words, e, l)))
    BY <2>1, <2>3, TextOfFinished
  <2> QED
    BY <2>2, <2>4
<1>4. One(by, Directive(b.words, "}", c.dirs))
        = Cat(b.words, Cat(Cat(<<"{">>, Txt(by, c.dirs)), <<"}">>))
  BY <1>1, OneFinished
<1>5. PICK t, w, x, y, z : /\ t = Cat(pre, Txt(by, b.dirs)) /\ w = b.words /\ x = <<"{">>
                           /\ y = Txt(by, c.dirs) /\ z = <<"}">>
  OBVIOUS
<1>6. t \in Texts /\ w \in Texts /\ x \in Texts /\ y \in Texts /\ z \in Texts
  BY <1>1, <1>5, TextOfTyped, TokenTexts DEF Punctuation
<1>7. PICK u \in Texts : u = Cat(Cat(t, w), x)
  BY <1>6, TextsMonoid DEF Monoid
<1>8. TextOf(by, u, c) = Cat(u, y)
  BY <1>1, <1>5, <1>7, TextNoWords
<1>9. Cat(Cat(u, y), z) = Cat(t, Cat(w, Cat(Cat(x, y), z)))
  <2>1. Cat(Cat(u, y), z) = Cat(u, Cat(y, z))
    BY <1>6, <1>7, TextsMonoid DEF Monoid
  <2>2. PICK v \in Texts : v = Cat(y, z)
    BY <1>6, TextsMonoid DEF Monoid
  <2>3. Cat(u, v) = Cat(t, Cat(w, Cat(x, v)))
    BY <1>6, <1>7, <2>2, TextsMonoid, CatFour
  <2>4. Cat(Cat(x, y), z) = Cat(x, v)
    BY <1>6, <2>2, TextsMonoid DEF Monoid
  <2> QED
    BY <2>1, <2>2, <2>3, <2>4
<1>10. TextOf(by, pre, b) = Cat(t, w)
  BY <1>5 DEF TextOf
<1> QED
  BY <1>3, <1>4, <1>5, <1>7, <1>8, <1>9, <1>10

\* A finished include stands for its file.
LEMMA TextInclude ==
  ASSUME NEW by, Covers(by), NEW pre \in Texts, NEW b \in OpenBlocks, HasWords(b), IsInclude(b.words),
         NEW end, NEW block, Closing(end, block)
  PROVE  TextOf(by, pre, Finished(b, end, block))
           = Cat(Cat(pre, Txt(by, b.dirs)), by[NamedBy(b.words, end)])
<1>1. b.words \in Seq(Tokens) /\ end \in {";", "}"}
  BY BlockFields DEF Closing
<1>2. TextOf(by, pre, Finished(b, end, block))
        = Cat(Cat(pre, Txt(by, b.dirs)), One(by, Directive(b.words, end, block)))
  <2>1. Env(by)
    BY DEF Covers
  <2> QED
    BY <2>1, TextOfFinished
<1>3. One(by, Directive(b.words, end, block)) = by[NamedBy(b.words, end)]
  BY <1>1, OneInclude
<1> QED
  BY <1>2, <1>3

-----------------------------------------------------------------------------
(***************************************************************************)
(* Pending includes, token by token                                        *)
(***************************************************************************)
LEMMA PendingNone ==
  ASSUME NEW toks \in Seq(Tokens), NEW by, NEW i \in Nat, i < Len(toks), Pending(toks, i) = 0,
         ~(toks[i + 1] = "include" /\ ~WordAt(toks, i))
  PROVE  Pending(toks, i + 1) = 0 /\ PieceAt(toks, by, i + 1) = <<toks[i + 1]>>
<1>1. IncludeOf(toks)[i + 1] = 0
  <2>1. Len(toks) \in Nat
    OBVIOUS
  <2> QED
    BY <2>1, IncludeOfNext
<1>2. ~NamesFile(toks, i + 1)
  <2>1. i + 1 > 1 => (i + 1) - 1 # 0
    OBVIOUS
  <2> QED
    BY <1>1, <2>1 DEF NamesFile
<1> QED
  BY <1>1, <1>2 DEF Pending, PieceAt

LEMMA PendingStarts ==
  ASSUME NEW toks \in Seq(Tokens), NEW by, NEW i \in Nat, i < Len(toks), Pending(toks, i) = 0,
         toks[i + 1] = "include", ~WordAt(toks, i)
  PROVE  Pending(toks, i + 1) = i + 1 /\ PieceAt(toks, by, i + 1) = << >>
<1>1. IncludeOf(toks)[i + 1] = i + 1
  <2>1. Len(toks) \in Nat
    OBVIOUS
  <2> QED
    BY <2>1, IncludeOfNext
<1>2. i + 1 # 0 /\ i + 1 # (i + 1) - 1
  OBVIOUS
<1>3. ~NamesFile(toks, i + 1)
  BY <1>1, <1>2 DEF NamesFile
<1>4. ~EndsAt(toks, i + 1, i + 1)
  BY DEF EndsAt
<1> QED
  BY <1>1, <1>2, <1>3, <1>4 DEF Pending, PieceAt

LEMMA PendingGoes ==
  ASSUME NEW toks \in Seq(Tokens), NEW by, NEW i \in Nat, i < Len(toks),
         NEW p, p = Pending(toks, i), p # 0
  PROVE  /\ p \in 1..i
         /\ EndsAt(toks, p, i + 1) => Pending(toks, i + 1) = 0
         /\ ~EndsAt(toks, p, i + 1) => Pending(toks, i + 1) = p
         /\ p = i => PieceAt(toks, by, i + 1) = by[toks[i + 1]]
         /\ p # i => PieceAt(toks, by, i + 1) = << >>
<1>1. Len(toks) \in Nat /\ i \in 0..Len(toks)
  OBVIOUS
<1>2. IncludeOf(toks)[i + 1] = p
  BY <1>1, IncludeOfNext
<1>3. p = IncludeOf(toks)[i]
  BY DEF Pending
<1>4. p \in 0..i
  BY <1>1, <1>3, IncludeOfSteps
<1>5. p \in 1..i
  BY <1>4
<1>6. NamesFile(toks, i + 1) <=> p = i
  <2>1. (i + 1) - 1 = i /\ (p = i => i + 1 > 1)
    BY <1>5
  <2> QED
    BY <1>2, <2>1 DEF NamesFile
<1> QED
  BY <1>2, <1>5, <1>6 DEF Pending, PieceAt

-----------------------------------------------------------------------------
(***************************************************************************)
(* What the parser holds is what it has read                               *)
(***************************************************************************)

\* before[l] is the text up to the start of block l.
Link(by, o, before, l) ==
  ~IsInclude(o[l].words) /\ before[l + 1] = Cat(TextOf(by, before[l], o[l]), <<"{">>)
Links(by, o, before, m) ==
  before[1] = << >> /\ \A l \in Nat : l >= 1 /\ l < m => Link(by, o, before, l)

\* Outside of includes, the text so far is that of the blocks.
Quiet(toks, by, i, o, k, before) ==
  /\ Links(by, o, before, k) /\ ~IsInclude(o[k].words)
  /\ Part(toks, by, i) = TextOf(by, before[k], o[k])

\* The include at p is a directive of block m.
Inside(toks, by, o, before, p, m) ==
  /\ m \in Nat \ {0} /\ Links(by, o, before, m) /\ IsInclude(o[m].words)
  /\ 1 + Nesting(toks, p - 1) = m

Before(by, o, before, m) == Cat(before[m], Txt(by, o[m].dirs))

\* The token after the word `include` is t.
NextWord(w, t, inner) ==
  \/ Len(w) >= 2 /\ t = w[2]
  \/ Len(w) = 1 /\ inner /\ t = "{"

Begun(toks, by, i, o, k, before, p, m) ==
  /\ p = i /\ m = k /\ Len(o[m].words) = 1
  /\ Part(toks, by, i) = Before(by, o, before, m)

NameSeen(toks, by, i, o, k, before, p, m) ==
  /\ p < i /\ m <= k /\ NextWord(o[m].words, toks[p + 1], m < k)
  /\ Part(toks, by, i) = Cat(Before(by, o, before, m), by[toks[p + 1]])

Skips(toks, by, i, o, k, before) ==
  \E m : /\ Inside(toks, by, o, before, Pending(toks, i), m)
         /\ \/ Begun(toks, by, i, o, k, before, Pending(toks, i), m)
            \/ NameSeen(toks, by, i, o, k, before, Pending(toks, i), m)

Matches(toks, by, i, o, k) ==
  \E before \in [Nat -> Texts] :
    /\ Pending(toks, i) = 0 => Quiet(toks, by, i, o, k, before)
    /\ Pending(toks, i) # 0 => Skips(toks, by, i, o, k, before)

LEMMA LinksSame ==
  ASSUME NEW by, NEW o, NEW b1, NEW m \in Nat \ {0}, Links(by, o, b1, m), NEW n, NEW b2,
         \A l \in Nat : l >= 1 /\ l < m => n[l] = o[l],
         \A l \in Nat : l >= 1 /\ l <= m => b2[l] = b1[l]
  PROVE  Links(by, n, b2, m)
<1>1. b2[1] = << >>
  <2>1. 1 >= 1 /\ 1 <= m
    OBVIOUS
  <2> QED
    BY <2>1 DEF Links
<1>2. ASSUME NEW l \in Nat, l >= 1, l < m
      PROVE  Link(by, n, b2, l)
  <2>1. n[l] = o[l] /\ b2[l] = b1[l] /\ b2[l + 1] = b1[l + 1]
    <3>1. l + 1 \in Nat /\ l + 1 >= 1 /\ l + 1 <= m /\ l <= m
      BY <1>2
    <3> QED
      BY <1>2, <3>1
  <2>2. Link(by, o, b1, l)
    BY <1>2 DEF Links
  <2> QED
    BY <2>1, <2>2 DEF Link
<1> QED
  BY <1>1, <1>2 DEF Links

LEMMA LinksFewer ==
  ASSUME NEW by, NEW o, NEW before, NEW m \in Nat, Links(by, o, before, m), NEW j \in Nat, j <= m
  PROVE  Links(by, o, before, j)
<1>1. \A l \in Nat : l < j => l < m
  OBVIOUS
<1> QED
  BY <1>1 DEF Links

LEMMA LinksMore ==
  ASSUME NEW by, NEW o, NEW before, NEW m \in Nat \ {0}, Links(by, o, before, m),
         Link(by, o, before, m)
  PROVE  Links(by, o, before, m + 1)
<1>1. \A l \in Nat : l < m + 1 => l < m \/ l = m
  OBVIOUS
<1> QED
  BY <1>1 DEF Links

\* The parser after i tokens, with the blocks o, and the next token.
ReadAt(toks, i, tok, o, k) ==
  /\ i \in Nat /\ i < Len(toks) /\ tok = toks[i + 1] /\ tok \in Tokens
  /\ o \in Seq(OpenBlocks) /\ k \in Nat \ {0} /\ k = Len(o)
  /\ k = 1 + Nesting(toks, i) /\ (HasWords(o[k]) <=> WordAt(toks, i))
  /\ \A l \in 1..(k - 1) : HasWords(o[l])

-----------------------------------------------------------------------------
\* Every case: blocks n after token i + 1, of which the last is b, in place of k.
Then(toks, by, i, n, k) == Matches(toks, by, i + 1, n, k)

LEMMA ThenQuiet ==
  ASSUME NEW toks, NEW by, NEW i, Pending(toks, i + 1) = 0, NEW n, NEW k,
         NEW before \in [Nat -> Texts], Quiet(toks, by, i + 1, n, k, before)
  PROVE  Then(toks, by, i, n, k)
BY DEF Then, Matches

LEMMA ThenSkips ==
  ASSUME NEW toks, NEW by, NEW i, Pending(toks, i + 1) # 0, NEW n, NEW k,
         NEW before \in [Nat -> Texts], Skips(toks, by, i + 1, n, k, before)
  PROVE  Then(toks, by, i, n, k)
BY DEF Then, Matches

LEMMA PartNext ==
  ASSUME NEW toks \in Seq(Tokens), NEW by, Covers(by), NEW i \in Nat, i < Len(toks)
  PROVE  /\ Part(toks, by, i) \in Texts
         /\ Part(toks, by, i + 1) = Cat(Part(toks, by, i), PieceAt(toks, by, i + 1))
         /\ Cat(Part(toks, by, i), << >>) = Part(toks, by, i)
<1>1. i \in 0..Len(toks)
  OBVIOUS
<1>2. Part(toks, by, i) \in Texts
  BY <1>1, PartSteps
<1>3. PICK t \in Texts : t = Part(toks, by, i)
  BY <1>2
<1>4. Cat(t, << >>) = t
  BY TextsMonoid DEF Monoid
<1> QED
  BY <1>2, <1>3, <1>4, PartSteps

LEMMA SeqMember ==
  ASSUME NEW S, NEW s \in Seq(S), NEW i \in 1..Len(s)
  PROVE  s[i] \in S
OBVIOUS

LEMMA NextFacts ==
  ASSUME NEW j \in Nat \ {0}
  PROVE  /\ j \in Nat /\ j + 1 \in Nat /\ j + 1 \in Nat \ {0}
         /\ j \in 1..((j + 1) - 1) /\ j \in 1..(j + 1) /\ j >= 1 /\ j < j + 1 /\ j <= j + 1 /\ j <= j
OBVIOUS

LEMMA AtFacts ==
  ASSUME NEW toks, NEW i, NEW tok, NEW o, NEW k, ReadAt(toks, i, tok, o, k)
  PROVE  /\ i \in Nat /\ i < Len(toks) /\ tok = toks[i + 1] /\ tok \in Tokens
         /\ o \in Seq(OpenBlocks) /\ k \in Nat \ {0} /\ o[k] \in OpenBlocks
         /\ k = 1 + Nesting(toks, i) /\ (HasWords(o[k]) <=> WordAt(toks, i))
<1>1. o \in Seq(OpenBlocks) /\ k \in Nat \ {0} /\ k = Len(o)
  BY DEF ReadAt
<1>2. k \in 1..Len(o)
  BY <1>1
<1>3. o[k] \in OpenBlocks
  BY <1>1, <1>2
<1> QED
  BY <1>3 DEF ReadAt

\* Blocks below k are the same.
LEMMA BecameLinks ==
  ASSUME NEW by, NEW o, NEW n, NEW k \in Nat \ {0}, NEW b, Became(o, n, k, b),
         NEW before, NEW m \in Nat \ {0}, m <= k, Links(by, o, before, m)
  PROVE  Links(by, n, before, m)
<1>1. ASSUME NEW l \in Nat, l >= 1, l < m PROVE n[l] = o[l]
  <2>1. l \in 1..(k - 1)
    BY <1>1
  <2> QED
    BY <2>1 DEF Became
<1> QED
  BY <1>1, LinksSame

LEMMA QuietBecame ==
  ASSUME NEW toks, NEW by, NEW i, NEW o, NEW n, NEW k \in Nat \ {0}, NEW b, Became(o, n, k, b),
         NEW before, Links(by, o, before, k), ~IsInclude(b.words),
         Part(toks, by, i) = TextOf(by, before[k], b)
  PROVE  Quiet(toks, by, i, n, k, before)
<1>1. k <= k
  OBVIOUS
<1>2. Links(by, n, before, k)
  BY <1>1, BecameLinks
<1>3. n[k] = b
  BY DEF Became
<1> QED
  BY <1>2, <1>3 DEF Quiet

LEMMA NoWordsNoInclude ==
  ASSUME NEW b, ~HasWords(b)
  PROVE  ~IsInclude(b.words)
BY DEF HasWords, IsInclude

LEMMA EmptyWords ==
  /\ ~HasWords(EmptyBlock)
  /\ \A b, end, block : ~HasWords(Finished(b, end, block))
BY DEF HasWords, EmptyBlock, Finished

LEMMA WithWordIs ==
  ASSUME NEW b \in OpenBlocks, NEW tok \in Tokens
  PROVE  /\ WithWord(b, tok).dirs = b.dirs
         /\ ~HasWords(b) => /\ Len(WithWord(b, tok).words) = 1
                            /\ IsInclude(WithWord(b, tok).words) <=> tok = "include"
         /\ HasWords(b) => (IsInclude(WithWord(b, tok).words) <=> IsInclude(b.words))
<1>1. PICK w \in Seq(Tokens) : w = b.words
  BY BlockFields
<1>2. PICK v : v = Append(w, tok)
  OBVIOUS
<1>3. /\ Len(w) \in Nat /\ Len(v) = Len(w) + 1 /\ v[Len(w) + 1] = tok
      /\ \A i \in 1..Len(w) : v[i] = w[i]
  BY <1>2
<1>4. (w = << >>) <=> (Len(w) = 0)
  OBVIOUS
<1>5. v # << >>
  BY <1>2
<1>6. ASSUME w = << >> PROVE Len(v) = 1 /\ v[1] = tok
  BY <1>3, <1>4, <1>6
<1>7. ASSUME w # << >> PROVE v[1] = w[1]
  <2>1. 1 \in 1..Len(w)
    BY <1>3, <1>4, <1>7
  <2> QED
    BY <1>3, <2>1
<1>8. WithWord(b, tok).dirs = b.dirs /\ WithWord(b, tok).words = v
  BY <1>1, <1>2 DEF WithWord
<1>9. /\ IsInclude(v) <=> v[1] = "include"
      /\ IsInclude(w) <=> w # << >> /\ w[1] = "include"
  BY <1>5 DEF IsInclude
<1>10. HasWords(b) <=> w # << >>
  BY <1>1 DEF HasWords
<1> QED
  BY <1>1, <1>6, <1>7, <1>8, <1>9, <1>10

\* A word outside of includes, other than one that starts an include.
LEMMA QuietWord ==
  ASSUME NEW toks \in Seq(Tokens), NEW by, Covers(by), NEW i, NEW tok, NEW o, NEW k,
         ReadAt(toks, i, tok, o, k), Pending(toks, i) = 0, NEW before \in [Nat -> Texts],
         Quiet(toks, by, i, o, k, before), tok \notin Punctuation,
         ~(tok = "include" /\ ~HasWords(o[k])),
         NEW n, Became(o, n, k, WithWord(o[k], tok))
  PROVE  Then(toks, by, i, n, k)
<1>1. /\ i \in Nat /\ i < Len(toks) /\ tok = toks[i + 1] /\ tok \in Tokens
      /\ k \in Nat \ {0} /\ o[k] \in OpenBlocks /\ (HasWords(o[k]) <=> WordAt(toks, i))
  BY AtFacts
<1>2. Pending(toks, i + 1) = 0 /\ PieceAt(toks, by, i + 1) = <<tok>>
  BY <1>1, PendingNone
<1>3. Links(by, o, before, k) /\ ~IsInclude(o[k].words)
      /\ Part(toks, by, i) = TextOf(by, before[k], o[k])
  BY DEF Quiet
<1>4. Part(toks, by, i + 1) = TextOf(by, before[k], WithWord(o[k], tok))
  <2>1. Env(by) /\ before[k] \in Texts
    BY <1>1 DEF Covers
  <2>2. TextOf(by, before[k], WithWord(o[k], tok)) = Cat(TextOf(by, before[k], o[k]), <<tok>>)
    BY <1>1, <2>1, TextWord
  <2> QED
    BY <1>1, <1>2, <1>3, <2>2, PartNext
<1>5. ~IsInclude(WithWord(o[k], tok).words)
  BY <1>1, <1>3, WithWordIs
<1>6. Quiet(toks, by, i + 1, n, k, before)
  BY <1>1, <1>3, <1>4, <1>5, QuietBecame
<1> QED
  BY <1>2, <1>6, ThenQuiet

\* The word that starts an include.
LEMMA QuietInclude ==
  ASSUME NEW toks \in Seq(Tokens), NEW by, Covers(by), NEW i, NEW tok, NEW o, NEW k,
         ReadAt(toks, i, tok, o, k), Pending(toks, i) = 0, NEW before \in [Nat -> Texts],
         Quiet(toks, by, i, o, k, before), tok = "include", ~HasWords(o[k]),
         NEW n, Became(o, n, k, WithWord(o[k], tok))
  PROVE  Then(toks, by, i, n, k)
<1>1. /\ i \in Nat /\ i < Len(toks) /\ tok = toks[i + 1] /\ tok \in Tokens
      /\ k \in Nat \ {0} /\ o[k] \in OpenBlocks /\ (HasWords(o[k]) <=> WordAt(toks, i))
      /\ k = 1 + Nesting(toks, i)
  BY AtFacts
<1>2. Pending(toks, i + 1) = i + 1 /\ PieceAt(toks, by, i + 1) = << >>
  BY <1>1, PendingStarts
<1>3. Links(by, o, before, k) /\ Part(toks, by, i) = TextOf(by, before[k], o[k])
  BY DEF Quiet
<1>4. n[k] = WithWord(o[k], tok)
  BY DEF Became
<1>5. n[k].dirs = o[k].dirs /\ Len(n[k].words) = 1 /\ IsInclude(n[k].words)
  BY <1>1, <1>4, WithWordIs
<1>6. Part(toks, by, i + 1) = Before(by, n, before, k)
  <2>1. Env(by) /\ before[k] \in Texts
    BY <1>1 DEF Covers
  <2>2. TextOf(by, before[k], o[k]) = Cat(before[k], Txt(by, o[k].dirs))
    BY <1>1, <2>1, TextNoWords
  <2>3. Part(toks, by, i + 1) = Part(toks, by, i)
    BY <1>1, <1>2, PartNext
  <2> QED
    BY <1>3, <1>5, <2>2, <2>3 DEF Before
<1>7. Links(by, n, before, k)
  <2>1. k <= k
    BY <1>1
  <2> QED
    BY <1>1, <1>3, <2>1, BecameLinks
<1>8. (i + 1) - 1 = i /\ i + 1 # 0
  BY <1>1
<1>9. Inside(toks, by, n, before, i + 1, k)
  BY <1>1, <1>5, <1>7, <1>8 DEF Inside
<1>10. Begun(toks, by, i + 1, n, k, before, i + 1, k)
  BY <1>5, <1>6 DEF Begun
<1>11. Skips(toks, by, i + 1, n, k, before)
  BY <1>2, <1>9, <1>10 DEF Skips
<1> QED
  BY <1>2, <1>8, <1>11, ThenSkips

LEMMA QuietEnd ==
  ASSUME NEW toks \in Seq(Tokens), NEW by, Covers(by), NEW i, NEW tok, NEW o, NEW k,
         ReadAt(toks, i, tok, o, k), Pending(toks, i) = 0, NEW before \in [Nat -> Texts],
         Quiet(toks, by, i, o, k, before), tok = ";", HasWords(o[k]),
         NEW n, Became(o, n, k, Finished(o[k], ";", << >>))
  PROVE  Then(toks, by, i, n, k)
<1>1. /\ i \in Nat /\ i < Len(toks) /\ tok = toks[i + 1]
      /\ k \in Nat \ {0} /\ o[k] \in OpenBlocks
  BY AtFacts
<1>2. Pending(toks, i + 1) = 0 /\ PieceAt(toks, by, i + 1) = <<tok>>
  BY <1>1, PendingNone
<1>3. Links(by, o, before, k) /\ ~IsInclude(o[k].words)
      /\ Part(toks, by, i) = TextOf(by, before[k], o[k])
  BY DEF Quiet
<1>4. Part(toks, by, i + 1) = TextOf(by, before[k], Finished(o[k], ";", << >>))
  <2>1. before[k] \in Texts
    BY <1>1
  <2>2. PICK f : f = Finished(o[k], ";", << >>)
    OBVIOUS
  <2>3. TextOf(by, before[k], f) = Cat(TextOf(by, before[k], o[k]), <<";">>)
    BY <1>1, <1>3, <2>1, <2>2, TextEnd
  <2>4. TextOf(by, before[k], f) = Cat(TextOf(by, before[k], o[k]), <<tok>>)
    BY <2>3
  <2>5. Part(toks, by, i + 1) = TextOf(by, before[k], f)
    <3>1. Part(toks, by, i + 1) = Cat(Part(toks, by, i), PieceAt(toks, by, i + 1))
      BY <1>1, PartNext
    <3> QED
      BY <1>2, <1>3, <2>4, <3>1, Zenon
  <2> QED
    BY <2>2, <2>5
<1>5. ~IsInclude(Finished(o[k], ";", << >>).words)
  BY EmptyWords, NoWordsNoInclude
<1>6. Quiet(toks, by, i + 1, n, k, before)
  BY <1>1, <1>3, <1>4, <1>5, QuietBecame
<1> QED
  BY <1>2, <1>6, ThenQuiet

LEMMA Updated ==
  ASSUME NEW f \in [Nat -> Texts], NEW k \in Nat, NEW x \in Texts
  PROVE  \E g \in [Nat -> Texts] :
           g[k + 1] = x /\ \A l \in Nat : l >= 1 /\ l <= k => g[l] = f[l]
<1> DEFINE g == [f EXCEPT ![k + 1] = x]
<1>1. g \in [Nat -> Texts] /\ g[k + 1] = x
  OBVIOUS
<1>2. \A l \in Nat : l >= 1 /\ l <= k => g[l] = f[l]
  OBVIOUS
<1> QED
  BY <1>1, <1>2

LEMMA QuietOpen ==
  ASSUME NEW toks \in Seq(Tokens), NEW by, Covers(by), NEW i, NEW tok, NEW o, NEW k,
         ReadAt(toks, i, tok, o, k), Pending(toks, i) = 0, NEW before \in [Nat -> Texts],
         Quiet(toks, by, i, o, k, before), tok = "{", HasWords(o[k]),
         NEW n, Became(o, n, k + 1, EmptyBlock)
  PROVE  Then(toks, by, i, n, k + 1)
<1>1. /\ i \in Nat /\ i < Len(toks) /\ tok = toks[i + 1]
      /\ k \in Nat \ {0} /\ o[k] \in OpenBlocks
  BY AtFacts
<1>0. k \in Nat /\ k >= 1 /\ k <= k /\ k + 1 \in Nat \ {0}
  BY <1>1, NextFacts
<1>2. Pending(toks, i + 1) = 0 /\ PieceAt(toks, by, i + 1) = <<tok>>
  BY <1>1, PendingNone
<1>3. Links(by, o, before, k) /\ ~IsInclude(o[k].words)
      /\ Part(toks, by, i) = TextOf(by, before[k], o[k])
  BY DEF Quiet
<1>4. PICK x \in Texts : x = Cat(TextOf(by, before[k], o[k]), <<tok>>)
  <2>1. Env(by) /\ before[k] \in Texts
    BY <1>1 DEF Covers
  <2>2. TextOf(by, before[k], o[k]) \in Texts
    BY <1>1, <2>1, TextOfTyped
  <2>3. <<tok>> \in Texts
    BY TokenTexts DEF Punctuation
  <2> QED
    BY <2>2, <2>3, TextsMonoid DEF Monoid
<1>5. Part(toks, by, i + 1) = x
  <2>1. Part(toks, by, i + 1) = Cat(Part(toks, by, i), PieceAt(toks, by, i + 1))
    BY <1>1, PartNext
  <2> QED
    BY <1>2, <1>3, <1>4, <2>1, Zenon
<1>6. PICK after \in [Nat -> Texts] :
         after[k + 1] = x /\ \A l \in Nat : l >= 1 /\ l <= k => after[l] = before[l]
  BY <1>1, Updated, ZenonT(60)
<1>7. Links(by, o, after, k)
  <2>1. \A l \in Nat : l >= 1 /\ l < k => o[l] = o[l]
    OBVIOUS
  <2> QED
    BY <1>1, <1>3, <1>6, <2>1, LinksSame
<1>8. after[k] = before[k]
  BY <1>0, <1>6
<1>9. Link(by, o, after, k)
  BY <1>3, <1>4, <1>6, <1>8 DEF Link
<1>10. Links(by, o, after, k + 1)
  BY <1>1, <1>7, <1>9, LinksMore
<1>11. TextOf(by, after[k + 1], EmptyBlock) = x
  <2>1. Env(by)
    BY DEF Covers
  <2> QED
    BY <1>6, <2>1, TextEmpty
<1>12. ~IsInclude(EmptyBlock.words)
  BY EmptyWords, NoWordsNoInclude
<1>13. Quiet(toks, by, i + 1, n, k + 1, after)
  BY <1>0, <1>5, <1>10, <1>11, <1>12, QuietBecame
<1> QED
  BY <1>2, <1>13, ThenQuiet

LEMMA QuietClose ==
  ASSUME NEW toks \in Seq(Tokens), NEW by, Covers(by), NEW i, NEW tok, NEW o, NEW j \in Nat \ {0},
         ReadAt(toks, i, tok, o, j + 1), Pending(toks, i) = 0, NEW before \in [Nat -> Texts],
         Quiet(toks, by, i, o, j + 1, before), tok = "}", ~HasWords(o[j + 1]),
         NEW n, Became(o, n, j, Finished(o[j], "}", o[j + 1].dirs))
  PROVE  Then(toks, by, i, n, j)
<1>1. /\ i \in Nat /\ i < Len(toks) /\ tok = toks[i + 1] 
      /\ o[j + 1] \in OpenBlocks
  BY AtFacts
<1>0. /\ j \in Nat /\ j + 1 \in Nat /\ j \in 1..((j + 1) - 1) /\ j \in 1..(j + 1) /\ j >= 1
      /\ j < j + 1 /\ j <= j + 1
  BY NextFacts
<1>2. Pending(toks, i + 1) = 0 /\ PieceAt(toks, by, i + 1) = <<tok>>
  BY <1>1, PendingNone
<1>3. Links(by, o, before, j + 1) /\ Part(toks, by, i) = TextOf(by, before[j + 1], o[j + 1])
  BY DEF Quiet
<1>4. HasWords(o[j]) /\ o[j] \in OpenBlocks
  <2>1. o \in Seq(OpenBlocks) /\ j + 1 = Len(o) /\ \A l \in 1..((j + 1) - 1) : HasWords(o[l])
    BY DEF ReadAt
  <2>2. HasWords(o[j])
    BY <1>0, <2>1
  <2>3. j \in 1..Len(o)
    BY <1>0, <2>1
  <2>4. o[j] \in OpenBlocks
    BY <2>1, <2>3, SeqMember
  <2> QED
    BY <2>2, <2>4
<1>5. Link(by, o, before, j)
  BY <1>0, <1>3 DEF Links
<1>6. ~IsInclude(o[j].words) /\ before[j + 1] = Cat(TextOf(by, before[j], o[j]), <<"{">>)
  BY <1>5 DEF Link
<1>7. Links(by, o, before, j)
  BY <1>0, <1>3, LinksFewer
<1>8. PICK b \in OpenBlocks, c \in OpenBlocks : b = o[j] /\ c = o[j + 1]
  BY <1>1, <1>4
<1>9. Part(toks, by, i + 1) = TextOf(by, before[j], Finished(b, "}", c.dirs))
  <2>1. PICK pre \in Texts : pre = before[j]
    BY <1>0
  <2>2. HasWords(b) /\ ~IsInclude(b.words) /\ ~HasWords(c)
    BY <1>4, <1>6, <1>8
  <2>3. PICK u, v : /\ u = TextOf(by, pre, Finished(b, "}", c.dirs))
                    /\ v = Cat(TextOf(by, pre, b), <<"{">>)
    OBVIOUS
  <2>4. u = Cat(TextOf(by, v, c), <<"}">>)
    BY <1>8, <2>1, <2>2, <2>3, TextClose, ZenonT(60)
  <2>5. u = Cat(TextOf(by, v, c), <<tok>>)
    BY <2>4
  <2>6. v = before[j + 1]
    BY <1>6, <1>8, <2>1, <2>3
  <2>7. Part(toks, by, i) = TextOf(by, v, c)
    BY <1>3, <1>8, <2>6
  <2>8. Part(toks, by, i + 1) = u
    <3>1. Part(toks, by, i + 1) = Cat(Part(toks, by, i), PieceAt(toks, by, i + 1))
      BY <1>1, PartNext
    <3> QED
      BY <1>2, <2>5, <2>7, <3>1, Zenon
  <2> QED
    BY <2>1, <2>3, <2>8
<1>10. ~IsInclude(Finished(b, "}", c.dirs).words)
  BY EmptyWords, NoWordsNoInclude
<1>11. Became(o, n, j, Finished(b, "}", c.dirs))
  BY <1>8
<1>12. Quiet(toks, by, i + 1, n, j, before)
  BY <1>7, <1>9, <1>10, <1>11, QuietBecame
<1> QED
  BY <1>2, <1>12, ThenQuiet

-----------------------------------------------------------------------------
(***************************************************************************)
(* Tokens of an include                                                    *)
(***************************************************************************)
Skipping(toks, by, i, o, k, before, p, m) ==
  /\ p = Pending(toks, i) /\ p # 0 /\ Inside(toks, by, o, before, p, m)
  /\ \/ Begun(toks, by, i, o, k, before, p, m)
     \/ NameSeen(toks, by, i, o, k, before, p, m)

Closes(tok) == tok \in {";", "}"}
Level(toks, i, c) == 1 + Nesting(toks, i) = c

\* What stands for the include after the next token.
LEMMA SkipPart ==
  ASSUME NEW toks \in Seq(Tokens), NEW by, Covers(by), NEW i, NEW tok, NEW o, NEW k,
         ReadAt(toks, i, tok, o, k), NEW before \in [Nat -> Texts], NEW p, NEW m,
         Skipping(toks, by, i, o, k, before, p, m)
  PROVE  /\ p \in 1..i /\ m \in Nat \ {0} /\ m <= k
         /\ Links(by, o, before, m) /\ IsInclude(o[m].words) /\ o[m] \in OpenBlocks
         /\ Part(toks, by, i + 1) = Cat(Before(by, o, before, m), by[toks[p + 1]])
         /\ \/ p = i /\ m = k /\ Len(o[m].words) = 1 /\ toks[p + 1] = tok
            \/ p < i /\ NextWord(o[m].words, toks[p + 1], m < k)
<1>1. i \in Nat /\ i < Len(toks) /\ tok = toks[i + 1] /\ k \in Nat \ {0} /\ o \in Seq(OpenBlocks)
      /\ k = Len(o)
  BY AtFacts DEF ReadAt
<1>2. p = Pending(toks, i) /\ p # 0
  BY DEF Skipping
<1>3. /\ p \in 1..i
      /\ p = i => PieceAt(toks, by, i + 1) = by[toks[i + 1]]
      /\ p # i => PieceAt(toks, by, i + 1) = << >>
  BY <1>1, <1>2, PendingGoes
<1>4. /\ Part(toks, by, i + 1) = Cat(Part(toks, by, i), PieceAt(toks, by, i + 1))
      /\ Cat(Part(toks, by, i), << >>) = Part(toks, by, i)
  BY <1>1, PartNext
<1>5. m \in Nat \ {0} /\ Links(by, o, before, m) /\ IsInclude(o[m].words)
  BY DEF Skipping, Inside
<1>6. CASE Begun(toks, by, i, o, k, before, p, m)
  <2>1. p = i /\ m = k /\ Len(o[m].words) = 1
        /\ Part(toks, by, i) = Before(by, o, before, m)
    BY <1>6 DEF Begun
  <2>2. m <= k
    BY <1>1, <2>1
  <2>3. m \in 1..Len(o)
    BY <1>1, <2>1
  <2>4. o[m] \in OpenBlocks
    BY <1>1, <2>3, SeqMember
  <2> QED
    BY <1>1, <1>3, <1>4, <1>5, <2>1, <2>2, <2>4
<1>7. CASE NameSeen(toks, by, i, o, k, before, p, m)
  <2>1. p < i /\ m <= k /\ NextWord(o[m].words, toks[p + 1], m < k)
        /\ Part(toks, by, i) = Cat(Before(by, o, before, m), by[toks[p + 1]])
    BY <1>7 DEF NameSeen
  <2>2. p # i
    BY <1>1, <1>3, <2>1
  <2>3. m \in 1..Len(o)
    BY <1>1, <1>5, <2>1
  <2>4. o[m] \in OpenBlocks
    BY <1>1, <2>3, SeqMember
  <2> QED
    BY <1>3, <1>4, <1>5, <2>1, <2>2, <2>4
<1> QED
  BY <1>6, <1>7 DEF Skipping

\* The next token ends the include when it is a `;` or `}` of its block.
LEMMA SkipEnds ==
  ASSUME NEW toks \in Seq(Tokens), NEW by, NEW i, NEW tok, NEW o, NEW k,
         ReadAt(toks, i, tok, o, k), NEW before, NEW p, NEW m,
         Skipping(toks, by, i, o, k, before, p, m)
  PROVE  /\ Closes(tok) /\ Level(toks, i + 1, m) => Pending(toks, i + 1) = 0
         /\ ~(Closes(tok) /\ Level(toks, i + 1, m)) => Pending(toks, i + 1) = p
<1>1. i \in Nat /\ i < Len(toks) /\ tok = toks[i + 1]
  BY AtFacts
<1>2. p = Pending(toks, i) /\ p # 0 /\ m \in Nat \ {0} /\ 1 + Nesting(toks, p - 1) = m
  BY DEF Skipping, Inside
<1>3. /\ p \in 1..i
      /\ EndsAt(toks, p, i + 1) => Pending(toks, i + 1) = 0
      /\ ~EndsAt(toks, p, i + 1) => Pending(toks, i + 1) = p
  BY <1>1, <1>2, PendingGoes
<1>4. PICK x \in Int, y \in Int : x = Nesting(toks, p - 1) /\ y = Nesting(toks, i + 1)
  <2>1. p - 1 \in Nat /\ i + 1 \in Nat
    BY <1>1, <1>3
  <2> QED
    BY <2>1, NestingStep
<1>5. y = x <=> 1 + y = m
  BY <1>2, <1>4
<1>6. EndsAt(toks, p, i + 1) <=> Closes(tok) /\ Level(toks, i + 1, m)
  BY <1>1, <1>4, <1>5 DEF EndsAt, Closes, Level
<1> QED
  BY <1>3, <1>6

\* The include's own block, or its words, are as they were.
LEMMA SkipBelow ==
  ASSUME NEW toks \in Seq(Tokens), NEW by, Covers(by), NEW i, NEW tok, NEW o, NEW k,
         ReadAt(toks, i, tok, o, k), NEW before \in [Nat -> Texts], NEW p, NEW m,
         Skipping(toks, by, i, o, k, before, p, m),
         NEW c \in Nat \ {0}, Level(toks, i + 1, c), NEW n, NEW b, Became(o, n, c, b), m < c,
         NextWord(o[m].words, toks[p + 1], TRUE)
  PROVE  Then(toks, by, i, n, c)
<1>1. /\ p \in 1..i /\ m \in Nat \ {0} /\ i \in Nat
      /\ Links(by, o, before, m) /\ IsInclude(o[m].words)
      /\ Part(toks, by, i + 1) = Cat(Before(by, o, before, m), by[toks[p + 1]])
  BY SkipPart, AtFacts
<1>2. m <= c /\ m # c /\ m \in 1..(c - 1) /\ p < i + 1 /\ p # 0
  BY <1>1
<1>3. Pending(toks, i + 1) = p
  <2>1. ~Level(toks, i + 1, m)
    BY <1>2 DEF Level
  <2> QED
    BY <2>1, SkipEnds
<1>4. n[m] = o[m]
  BY <1>2 DEF Became
<1>5. Links(by, n, before, m)
  BY <1>1, <1>2, BecameLinks
<1>6. 1 + Nesting(toks, p - 1) = m
  BY DEF Skipping, Inside
<1>7. Inside(toks, by, n, before, p, m)
  BY <1>1, <1>4, <1>5, <1>6 DEF Inside
<1>8. NextWord(n[m].words, toks[p + 1], m < c)
  BY <1>4 DEF NextWord
<1>9. NameSeen(toks, by, i + 1, n, c, before, p, m)
  BY <1>1, <1>2, <1>4, <1>8 DEF NameSeen, Before
<1>10. Skips(toks, by, i + 1, n, c, before)
  BY <1>3, <1>7, <1>9 DEF Skips
<1> QED
  BY <1>2, <1>3, <1>10, ThenSkips

\* One more word of the include.
LEMMA SkipWord ==
  ASSUME NEW toks \in Seq(Tokens), NEW by, Covers(by), NEW i, NEW tok, NEW o, NEW k,
         ReadAt(toks, i, tok, o, k), NEW before \in [Nat -> Texts], NEW p,
         Skipping(toks, by, i, o, k, before, p, k),
         tok \notin Punctuation, NEW n, Became(o, n, k, WithWord(o[k], tok))
  PROVE  Then(toks, by, i, n, k)
<1>1. /\ p \in 1..i /\ k \in Nat \ {0} /\ i \in Nat
      /\ Links(by, o, before, k) /\ IsInclude(o[k].words) /\ o[k] \in OpenBlocks
      /\ Part(toks, by, i + 1) = Cat(Before(by, o, before, k), by[toks[p + 1]])
      /\ \/ p = i /\ Len(o[k].words) = 1 /\ toks[p + 1] = tok
         \/ p < i /\ NextWord(o[k].words, toks[p + 1], k < k)
      /\ tok \in Tokens
  BY SkipPart, AtFacts
<1>2. k <= k /\ ~(k < k) /\ p < i + 1 /\ p # 0
  BY <1>1
<1>3. Pending(toks, i + 1) = p
  <2>1. ~Closes(tok)
    BY DEF Punctuation, Closes
  <2> QED
    BY <2>1, SkipEnds
<1>4. n[k] = WithWord(o[k], tok)
  BY DEF Became
<1>5. HasWords(o[k])
  BY <1>1 DEF IsInclude, HasWords
<1>6. n[k].dirs = o[k].dirs /\ IsInclude(n[k].words)
  BY <1>1, <1>4, <1>5, WithWordIs
<1>7. Links(by, n, before, k)
  BY <1>1, <1>2, BecameLinks
<1>8. 1 + Nesting(toks, p - 1) = k
  BY DEF Skipping, Inside
<1>9. Inside(toks, by, n, before, p, k)
  BY <1>1, <1>6, <1>7, <1>8 DEF Inside
<1>10. NextWord(n[k].words, toks[p + 1], k < k)
  <2>1. PICK w \in Seq(Tokens) : w = o[k].words
    BY <1>1, BlockFields
  <2>2. PICK v : v = Append(w, tok)
    OBVIOUS
  <2>3. n[k].words = v
    BY <1>4, <2>1, <2>2 DEF WithWord
  <2>4. /\ Len(w) \in Nat /\ Len(v) = Len(w) + 1 /\ v[Len(w) + 1] = tok
        /\ \A l \in 1..Len(w) : v[l] = w[l]
    BY <1>1, <2>2
  <2>5. CASE Len(w) = 1 /\ toks[p + 1] = tok
    <3>1. Len(v) >= 2 /\ v[2] = tok
      BY <2>4, <2>5
    <3> QED
      BY <2>3, <2>5, <3>1 DEF NextWord
  <2>6. CASE Len(w) >= 2 /\ toks[p + 1] = w[2]
    <3>1. PICK a \in Nat : a = Len(w)
      BY <2>4
    <3>2. 2 \in 1..a /\ a + 1 >= 2
      BY <2>6, <3>1
    <3>3. Len(v) >= 2 /\ v[2] = w[2]
      BY <2>4, <3>1, <3>2
    <3> QED
      BY <2>3, <2>6, <3>3 DEF NextWord
  <2> QED
    BY <1>1, <1>2, <2>1, <2>5, <2>6 DEF NextWord
<1>11. NameSeen(toks, by, i + 1, n, k, before, p, k)
  BY <1>1, <1>2, <1>6, <1>10 DEF NameSeen, Before
<1>12. Skips(toks, by, i + 1, n, k, before)
  BY <1>3, <1>9, <1>11 DEF Skips
<1> QED
  BY <1>2, <1>3, <1>12, ThenSkips

\* The end of the include.
FitsEnd(w, end, t) == NamedBy(w, end) = t

LEMMA SkipEnd ==
  ASSUME NEW toks \in Seq(Tokens), NEW by, Covers(by), NEW i, NEW tok, NEW o, NEW k,
         ReadAt(toks, i, tok, o, k), NEW before \in [Nat -> Texts], NEW p, NEW m,
         Skipping(toks, by, i, o, k, before, p, m),
         Level(toks, i + 1, m), NEW n, NEW block, Closes(tok), Closing(tok, block), Became(o, n, m, Finished(o[m], tok, block)),
         FitsEnd(o[m].words, tok, toks[p + 1])
  PROVE  Then(toks, by, i, n, m)
<1>1. /\ m \in Nat \ {0} /\ Links(by, o, before, m) /\ IsInclude(o[m].words) /\ o[m] \in OpenBlocks
      /\ Part(toks, by, i + 1) = Cat(Before(by, o, before, m), by[toks[p + 1]])
  BY SkipPart
<1>2. Pending(toks, i + 1) = 0
  BY SkipEnds
<1>3. HasWords(o[m])
  BY <1>1 DEF IsInclude, HasWords
<1>4. before[m] \in Texts
  BY <1>1
<1>5. TextOf(by, before[m], Finished(o[m], tok, block))
        = Cat(Cat(before[m], Txt(by, o[m].dirs)), by[NamedBy(o[m].words, tok)])
  BY <1>1, <1>3, <1>4, TextInclude
<1>6. Part(toks, by, i + 1) = TextOf(by, before[m], Finished(o[m], tok, block))
  BY <1>1, <1>5 DEF Before, FitsEnd
<1>7. ~IsInclude(Finished(o[m], tok, block).words)
  BY EmptyWords, NoWordsNoInclude
<1>8. Quiet(toks, by, i + 1, n, m, before)
  BY <1>1, <1>6, <1>7, QuietBecame
<1> QED
  BY <1>2, <1>8, ThenQuiet

LEMMA Orders ==
  /\ \A x : x = 1 => ~(x >= 2)
  /\ \A m, k \in Nat \ {0} : /\ ~(k < k) /\ (m <= k => m < k + 1) /\ (m <= k /\ m # k => m < k)
                             /\ (m <= k + 1 /\ m # k + 1 /\ m # k => m < k)
OBVIOUS

LEMMA KnownFits ==
  /\ \A w, t, x : NextWord(w, t, x) => NextWord(w, t, TRUE)
  /\ \A w : Len(w) = 1 => FitsEnd(w, ";", ";") /\ NextWord(w, "{", TRUE)
  /\ \A w, t : NextWord(w, t, FALSE) => FitsEnd(w, ";", t)
  /\ \A w, t : NextWord(w, t, TRUE) => FitsEnd(w, "}", t)
<1>1. ASSUME NEW w, NEW t, NEW x, NextWord(w, t, x) PROVE NextWord(w, t, TRUE)
  BY <1>1 DEF NextWord
<1>2. ASSUME NEW w, Len(w) = 1 PROVE FitsEnd(w, ";", ";") /\ NextWord(w, "{", TRUE)
  <2>1. ~(Len(w) >= 2)
    BY <1>2
  <2> QED
    BY <1>2, <2>1 DEF FitsEnd, NextWord, NamedBy
<1>3. ASSUME NEW w, NEW t, NextWord(w, t, FALSE) PROVE FitsEnd(w, ";", t)
  BY <1>3 DEF FitsEnd, NextWord, NamedBy
<1>4. ASSUME NEW w, NEW t, NextWord(w, t, TRUE) PROVE FitsEnd(w, "}", t)
  <2>1. CASE Len(w) >= 2 /\ t = w[2]
    BY <2>1 DEF FitsEnd, NamedBy
  <2>2. CASE Len(w) = 1 /\ t = "{"
    <3>1. ~(Len(w) >= 2)
      BY <2>2, Orders
    <3> QED
      BY <2>2, <3>1 DEF FitsEnd, NamedBy
  <2> QED
    BY <1>4, <2>1, <2>2 DEF NextWord
<1> QED
  BY <1>1, <1>2, <1>3, <1>4

\* A word of an include, or of something in its block.
LEMMA SkipsWord ==
  ASSUME NEW toks \in Seq(Tokens), NEW by, Covers(by), NEW i, NEW tok, NEW o, NEW k,
         ReadAt(toks, i, tok, o, k), NEW before \in [Nat -> Texts], NEW p, NEW m,
         Skipping(toks, by, i, o, k, before, p, m), Level(toks, i + 1, k),
         tok \notin Punctuation, NEW n, Became(o, n, k, WithWord(o[k], tok))
  PROVE  Then(toks, by, i, n, k)
<1>1. /\ m \in Nat \ {0} /\ m <= k /\ k \in Nat \ {0}
      /\ m # k => NextWord(o[m].words, toks[p + 1], m < k)
  BY SkipPart, AtFacts
<1>2. CASE m = k
  BY <1>2, SkipWord
<1>3. CASE m # k
  <2>1. m < k
    BY <1>1, <1>3, Orders
  <2>2. NextWord(o[m].words, toks[p + 1], TRUE)
    BY <1>1, <1>3, KnownFits
  <2> QED
    BY <1>1, <2>1, <2>2, SkipBelow
<1> QED
  BY <1>2, <1>3

LEMMA SkipsEnd ==
  ASSUME NEW toks \in Seq(Tokens), NEW by, Covers(by), NEW i, NEW tok, NEW o, NEW k,
         ReadAt(toks, i, tok, o, k), NEW before \in [Nat -> Texts], NEW p, NEW m,
         Skipping(toks, by, i, o, k, before, p, m), Level(toks, i + 1, k),
         tok = ";", NEW n, NEW block, Closing(tok, block), Became(o, n, k, Finished(o[k], tok, block))
  PROVE  Then(toks, by, i, n, k)
<1>1. /\ m \in Nat \ {0} /\ m <= k /\ k \in Nat \ {0}
      /\ m # k => NextWord(o[m].words, toks[p + 1], m < k)
      /\ \/ Len(o[m].words) = 1 /\ toks[p + 1] = tok
         \/ NextWord(o[m].words, toks[p + 1], m < k)
  BY SkipPart, AtFacts
<1>2. CASE m = k
  <2>1. ~(m < k)
    BY <1>1, <1>2, Orders
  <2>2. (Len(o[m].words) = 1 /\ toks[p + 1] = tok) \/ NextWord(o[m].words, toks[p + 1], FALSE)
    BY <1>1, <2>1 DEF NextWord
  <2>4. FitsEnd(o[m].words, tok, toks[p + 1])
    BY <2>2, KnownFits
  <2>3. Closes(tok)
    BY DEF Closes
  <2> QED
    BY <1>2, <2>3, <2>4, SkipEnd
<1>3. CASE m # k
  <2>1. m < k
    BY <1>1, <1>3, Orders
  <2>2. NextWord(o[m].words, toks[p + 1], TRUE)
    BY <1>1, <1>3, KnownFits
  <2> QED
    BY <1>1, <2>1, <2>2, SkipBelow
<1> QED
  BY <1>2, <1>3

LEMMA SkipsOpen ==
  ASSUME NEW toks \in Seq(Tokens), NEW by, Covers(by), NEW i, NEW tok, NEW o, NEW k,
         ReadAt(toks, i, tok, o, k), NEW before \in [Nat -> Texts], NEW p, NEW m,
         Skipping(toks, by, i, o, k, before, p, m), Level(toks, i + 1, k + 1),
         tok = "{", NEW n, Became(o, n, k + 1, EmptyBlock)
  PROVE  Then(toks, by, i, n, k + 1)
<1>1. /\ m \in Nat \ {0} /\ m <= k /\ k \in Nat \ {0}
      /\ \/ Len(o[m].words) = 1 /\ toks[p + 1] = tok
         \/ NextWord(o[m].words, toks[p + 1], m < k)
  BY SkipPart, AtFacts
<1>2. NextWord(o[m].words, toks[p + 1], TRUE)
  BY <1>1, KnownFits
<1>3. PICK c \in Nat \ {0} : c = k + 1
  BY <1>1, NextFacts
<1>4. m < c
  BY <1>1, <1>3, Orders
<1>5. Level(toks, i + 1, c) /\ Became(o, n, c, EmptyBlock)
  BY <1>3
<1>6. Then(toks, by, i, n, c)
  BY <1>2, <1>4, <1>5, SkipBelow
<1> QED
  BY <1>3, <1>6

LEMMA SkipsClose ==
  ASSUME NEW toks \in Seq(Tokens), NEW by, Covers(by), NEW i, NEW tok, NEW o, NEW k, NEW j \in Nat \ {0},
         j + 1 = k, ReadAt(toks, i, tok, o, k), NEW before \in [Nat -> Texts], NEW p, NEW m,
         Skipping(toks, by, i, o, k, before, p, m), Level(toks, i + 1, j), ~HasWords(o[k]),
         tok = "}", NEW n, NEW block, Closing(tok, block), Became(o, n, j, Finished(o[j], tok, block))
  PROVE  Then(toks, by, i, n, j)
<1>1. /\ m \in Nat \ {0} /\ m <= k /\ IsInclude(o[m].words)
      /\ m # k => NextWord(o[m].words, toks[p + 1], m < k)
  BY SkipPart
<1>2. m # k
  BY <1>1 DEF IsInclude, HasWords
<1>3. NextWord(o[m].words, toks[p + 1], TRUE)
  BY <1>1, <1>2, KnownFits
<1>4. CASE m = j
  <2>1. FitsEnd(o[m].words, tok, toks[p + 1]) /\ Closes(tok)
    BY <1>3, KnownFits DEF Closes
  <2> QED
    BY <1>4, <2>1, SkipEnd
<1>5. CASE m # j
  <2>1. m < j
    BY <1>1, <1>2, <1>5, Orders
  <2> QED
    BY <1>1, <1>3, <2>1, SkipBelow
<1> QED
  BY <1>4, <1>5

\* One more token.
LEMMA MatchesStep ==
  ASSUME NEW toks \in Seq(Tokens), NEW by, Covers(by), NEW i \in Nat, i < Len(toks), NEW s, Parsing(s),
         Follows(s, toks, i), s.ok, NEW t, t = ParseToken(s, toks[i + 1]), t.ok,
         Matches(toks, by, i, s.open, Len(s.open))
  PROVE  Matches(toks, by, i + 1, t.open, Len(t.open))
<1>1. PICK tok \in Tokens : tok = toks[i + 1]
  <2>1. i + 1 \in 1..Len(toks)
    OBVIOUS
  <2> QED
    BY <2>1, SeqMember
<1>2. PICK o, k : o = s.open /\ k = Len(o)
  OBVIOUS
<1>3. Going(s, o, k)
  BY <1>2 DEF Going
<1>4. /\ k \in Nat \ {0} /\ o \in Seq(OpenBlocks) /\ o[k] \in OpenBlocks
      /\ \A l \in 1..(k - 1) : o[l].words # << >>
  BY <1>3, ParsingTop
<1>5. Reading(s) <=> HasWords(o[k])
  BY <1>2 DEF Reading
<1>6. ReadAt(toks, i, tok, o, k)
  <2>1. k = 1 + Nesting(toks, i) /\ (Reading(s) <=> WordAt(toks, i))
    BY <1>2 DEF Follows
  <2>2. \A l \in 1..(k - 1) : HasWords(o[l])
    BY <1>4 DEF HasWords
  <2> QED
    BY <1>1, <1>2, <1>4, <1>5, <2>1, <2>2 DEF ReadAt
<1>7. PICK before \in [Nat -> Texts] :
         /\ Pending(toks, i) = 0 => Quiet(toks, by, i, o, k, before)
         /\ Pending(toks, i) # 0 => Skips(toks, by, i, o, k, before)
  BY <1>2 DEF Matches
<1>8. ASSUME Pending(toks, i) # 0
      PROVE  \E p, m : Skipping(toks, by, i, o, k, before, p, m)
  BY <1>7, <1>8 DEF Skips, Skipping
<1>9. t = ParseToken(s, tok)
  BY <1>1
<1>10. Follows(t, toks, i + 1)
  BY FollowsStep
<1>11. ASSUME NEW n, NEW c, NEW b, Moves(t, n), Became(o, n, c, b)
       PROVE  /\ Level(toks, i + 1, c)
              /\ Then(toks, by, i, n, c) => Matches(toks, by, i + 1, t.open, Len(t.open))
  <2>1. t.open = n /\ Len(n) = c
    BY <1>11 DEF Moves, Became
  <2>2. Len(t.open) = 1 + Nesting(toks, i + 1)
    BY <1>10 DEF Follows
  <2> QED
    BY <2>1, <2>2 DEF Level, Then
<1>12. CASE tok \notin Punctuation
  <2>1. PICK n : Moves(t, n) /\ Became(o, n, k, WithWord(o[k], tok))
    BY <1>3, <1>9, <1>12, ParseWord
  <2>2. Level(toks, i + 1, k)
    BY <1>11, <2>1
  <2>3. Then(toks, by, i, n, k)
    <3>1. CASE Pending(toks, i) # 0
      BY <1>6, <1>8, <1>12, <2>1, <2>2, <3>1, SkipsWord
    <3>2. CASE Pending(toks, i) = 0 /\ tok = "include" /\ ~HasWords(o[k])
      BY <1>6, <1>7, <2>1, <3>2, QuietInclude
    <3>3. CASE Pending(toks, i) = 0 /\ ~(tok = "include" /\ ~HasWords(o[k]))
      BY <1>6, <1>7, <1>12, <2>1, <3>3, QuietWord
    <3> QED
      BY <3>1, <3>2, <3>3
  <2> QED
    BY <1>11, <2>1, <2>3
<1>13. CASE tok = ";" /\ HasWords(o[k])
  <2>1. PICK n : Moves(t, n) /\ Became(o, n, k, Finished(o[k], ";", << >>))
    <3>1. o[k].words # << >> /\ t = ParseToken(s, ";")
      BY <1>9, <1>13 DEF HasWords
    <3> QED
      BY <1>3, <3>1, ParseEnd
  <2>2. Level(toks, i + 1, k)
    BY <1>11, <2>1
  <2>3. Then(toks, by, i, n, k)
    <3>1. CASE Pending(toks, i) # 0
      <4>1. PICK block : block = << >>
        OBVIOUS
      <4>2. tok = ";" /\ Closing(tok, block)
        BY <1>13, <4>1 DEF Closing
      <4>3. Became(o, n, k, Finished(o[k], tok, block))
        BY <2>1, <4>1, <4>2
      <4> QED
        BY <1>6, <1>8, <2>2, <3>1, <4>2, <4>3, SkipsEnd
    <3>2. CASE Pending(toks, i) = 0
      BY <1>6, <1>7, <1>13, <2>1, <3>2, QuietEnd
    <3> QED
      BY <3>1, <3>2
  <2> QED
    BY <1>11, <2>1, <2>3
<1>14. CASE tok = "{" /\ HasWords(o[k])
  <2>1. PICK n : Moves(t, n) /\ Became(o, n, k + 1, EmptyBlock)
    <3>1. o[k].words # << >> /\ t = ParseToken(s, "{")
      BY <1>9, <1>14 DEF HasWords
    <3> QED
      BY <1>3, <3>1, ParseOpen
  <2>2. Level(toks, i + 1, k + 1)
    BY <1>11, <2>1
  <2>3. Then(toks, by, i, n, k + 1)
    <3>1. CASE Pending(toks, i) # 0
      BY <1>6, <1>8, <1>14, <2>1, <2>2, <3>1, SkipsOpen
    <3>2. CASE Pending(toks, i) = 0
      BY <1>6, <1>7, <1>14, <2>1, <3>2, QuietOpen
    <3> QED
      BY <3>1, <3>2
  <2> QED
    BY <1>11, <2>1, <2>3
<1>15. CASE tok = "}" /\ ~HasWords(o[k]) /\ k # 1
  <2>0. tok = "}" /\ ~HasWords(o[k])
    BY <1>15
  <2>1. PICK j \in Nat \ {0} : j + 1 = k
    <3>1. k # 1
      BY <1>15
    <3>2. k - 1 \in Nat \ {0} /\ (k - 1) + 1 = k
      BY <1>4, <3>1
    <3> QED
      BY <3>2
  <2>2. PICK n : Moves(t, n) /\ Became(o, n, j, Finished(o[j], "}", o[j + 1].dirs))
    <3>1. o[j + 1].words = << >> /\ t = ParseToken(s, "}") /\ Going(s, o, j + 1)
      BY <1>3, <1>9, <2>0, <2>1 DEF HasWords
    <3> QED
      BY <3>1, ParseClose
  <2>3. Level(toks, i + 1, j)
    BY <1>11, <2>2
  <2>4. Then(toks, by, i, n, j)
    <3>1. CASE Pending(toks, i) # 0
      <4>1. PICK block : block = o[j + 1].dirs
        OBVIOUS
      <4>2. block \in Seq(Directives)
        BY <1>4, <2>1, <4>1, BlockFields
      <4>3. Closing(tok, block)
        BY <2>0, <4>2 DEF Closing
      <4>4. Became(o, n, j, Finished(o[j], tok, block))
        BY <2>0, <2>2, <4>1
      <4> QED
        BY <1>6, <1>8, <2>0, <2>1, <2>3, <3>1, <4>3, <4>4, SkipsClose
    <3>2. CASE Pending(toks, i) = 0
      <4>1. ReadAt(toks, i, tok, o, j + 1) /\ Quiet(toks, by, i, o, j + 1, before) /\ ~HasWords(o[j + 1])
        BY <1>6, <1>7, <2>0, <2>1, <3>2
      <4> QED
        BY <2>0, <2>2, <3>2, <4>1, QuietClose
    <3> QED
      BY <3>1, <3>2
  <2> QED
    BY <1>11, <2>2, <2>4
<1>16. ~(tok \in Punctuation /\ Misplaced(o, k, tok))
  <2> SUFFICES ASSUME tok \in Punctuation, Misplaced(o, k, tok) PROVE FALSE
    OBVIOUS
  <2>1. Errs(t, o)
    BY <1>3, <1>9, ParseError
  <2> QED
    BY <2>1 DEF Errs
<1> QED
  <2>1. Misplaced(o, k, tok) <=> /\ tok \in {";", "{"} => ~HasWords(o[k])
                                 /\ tok = "}" => HasWords(o[k]) \/ k = 1
    BY DEF Misplaced, HasWords
  <2>2. \/ tok \notin Punctuation
        \/ tok = ";" /\ HasWords(o[k])
        \/ tok = "{" /\ HasWords(o[k])
        \/ tok = "}" /\ ~HasWords(o[k]) /\ k # 1
        \/ tok \in Punctuation /\ Misplaced(o, k, tok)
    BY <2>1 DEF Punctuation
  <2> QED
    BY <1>12, <1>13, <1>14, <1>15, <1>16, <2>2, Zenon

LEMMA RunMatches ==
  ASSUME NEW toks \in Seq(Tokens), NEW by, Covers(by), NEW f, IsRun(f, toks), f[Len(toks)].ok
  PROVE  \A i \in 0..Len(toks) : Matches(toks, by, i, f[i].open, Len(f[i].open))
<1>1. \A i \in 0..Len(toks) : Parsing(f[i]) /\ Follows(f[i], toks, i)
  BY RunTyped, RunFollows
<1>2. PICK N \in Nat : N = Len(toks)
  OBVIOUS
<1>3. \A i \in 0..N : f[i].ok
  <2>1. \A j \in 1..N : Allowed(toks, j)
    <3>1. N \in 0..N
      OBVIOUS
    <3> QED
      BY <1>1, <1>2, <3>1 DEF Follows
  <2>2. ASSUME NEW i \in 0..N PROVE f[i].ok
    <3>1. \A j \in 1..i : j \in 1..N
      OBVIOUS
    <3> QED
      BY <1>1, <1>2, <2>1, <3>1 DEF Follows
  <2> QED
    BY <2>2
<1> DEFINE T == {i \in Nat : Matches(toks, by, i, f[i].open, Len(f[i].open))}
<1>4. 0 \in T
  <2>1. Pending(toks, 0) = 0
    BY <1>2, IncludeOfSteps DEF Pending
  <2>2. f[0].open = <<EmptyBlock>> /\ Len(f[0].open) = 1 /\ f[0].open[1] = EmptyBlock
    BY DEF IsRun, Start
  <2>3. PICK o : o = f[0].open
    OBVIOUS
  <2>4. PICK before \in [Nat -> Texts] : before[1] = << >>
    <3>1. << >> \in Texts
      BY DEF Texts
    <3>2. [x \in Nat |-> << >>] \in [Nat -> Texts] /\ [x \in Nat |-> << >>][1] = << >>
      BY <3>1
    <3> QED
      BY <3>2
  <2>5. Links(by, o, before, 1)
    BY <2>4 DEF Links
  <2>6. ~IsInclude(o[1].words)
    BY <2>2, <2>3, EmptyWords, NoWordsNoInclude
  <2>7. Part(toks, by, 0) = TextOf(by, before[1], o[1])
    <3>1. Env(by)
      BY DEF Covers
    <3>2. before[1] \in Texts
      OBVIOUS
    <3>3. TextOf(by, before[1], EmptyBlock) = before[1]
      BY <3>1, <3>2, TextEmpty
    <3> QED
      BY <2>2, <2>3, <2>4, <3>3, PartSteps
  <2>8. Quiet(toks, by, 0, o, 1, before)
    BY <2>5, <2>6, <2>7 DEF Quiet
  <2> QED
    BY <2>1, <2>2, <2>3, <2>8 DEF Matches
<1>5. ASSUME NEW i \in Nat, i < N, i \in T PROVE i + 1 \in T
  <2>1. i \in 0..N /\ i + 1 \in 0..N /\ i + 1 \in Nat
    BY <1>5
  <2>2. f[i + 1] = ParseToken(f[i], toks[i + 1])
    BY <1>2, <1>5 DEF IsRun
  <2>3. Matches(toks, by, i, f[i].open, Len(f[i].open))
    BY <1>5
  <2>4. PICK s, t : s = f[i] /\ t = f[i + 1]
    OBVIOUS
  <2>5. Parsing(s) /\ Follows(s, toks, i) /\ s.ok /\ t.ok
    BY <1>1, <1>2, <1>3, <2>1, <2>4
  <2>6. Matches(toks, by, i + 1, t.open, Len(t.open))
    BY <1>2, <1>5, <2>2, <2>3, <2>4, <2>5, MatchesStep
  <2> QED
    BY <2>1, <2>4, <2>6
<1> HIDE DEF T
<1>6. \A i \in 0..N : i \in T
  BY <1>4, <1>5, NatSteps
<1> QED
  BY <1>2, <1>6 DEF T


\* What parse_block returns reads as the text it was given, to any depth of blocks:
\* whatever texts stand for the files, putting them in the place of the include
\* directives of the tree gives what putting them into the text gives.
THEOREM ParseText ==
  ASSUME NEW toks \in Seq(Tokens), NEW by, Covers(by), Parse(toks).ok
  PROVE  /\ Parse(toks).dirs \in Seq(Directives)
         /\ Txt(by, Parse(toks).dirs) = Splice(toks, by)
<1>1. PICK n \in Nat : n = Len(toks)
  OBVIOUS
<1>2. PICK f : /\ IsRun(f, toks)
               /\ Parse(toks).ok = (f[n].ok /\ Len(f[n].open) = 1 /\ f[n].open[1].words = << >>)
               /\ Parse(toks).dirs = f[n].open[1].dirs
  BY <1>1, ParseIsRun
<1>3. n \in 0..n
  OBVIOUS
<1>4. f[n].ok /\ Len(f[n].open) = 1 /\ ~HasWords(f[n].open[1])
  BY <1>2 DEF HasWords
<1>5. Parsing(f[n]) /\ Follows(f[n], toks, n) /\ Matches(toks, by, n, f[n].open, Len(f[n].open))
  BY <1>1, <1>2, <1>3, <1>4, RunTyped, RunFollows, RunMatches
<1>6. PICK o : o = f[n].open
  OBVIOUS
<1>7. o[1] \in OpenBlocks
  <2>1. Going(f[n], o, 1)
    BY <1>4, <1>5, <1>6 DEF Going
  <2> QED
    BY <2>1, ParsingTop
<1>8. PICK before \in [Nat -> Texts] :
         /\ Pending(toks, n) = 0 => Quiet(toks, by, n, o, 1, before)
         /\ Pending(toks, n) # 0 => Skips(toks, by, n, o, 1, before)
  BY <1>4, <1>5, <1>6 DEF Matches
<1>9. Pending(toks, n) = 0
  <2> SUFFICES ASSUME Pending(toks, n) # 0 PROVE FALSE
    OBVIOUS
  <2>1. PICK m : /\ Inside(toks, by, o, before, Pending(toks, n), m)
                 /\ \/ Begun(toks, by, n, o, 1, before, Pending(toks, n), m)
                    \/ NameSeen(toks, by, n, o, 1, before, Pending(toks, n), m)
    BY <1>8 DEF Skips
  <2>2. m \in Nat \ {0} /\ m <= 1
    BY <2>1 DEF Inside, Begun, NameSeen
  <2>3. m = 1
    BY <2>2
  <2>4. IsInclude(o[1].words)
    BY <2>1, <2>3 DEF Inside
  <2> QED
    BY <1>4, <1>6, <2>4, NoWordsNoInclude
<1>10. Quiet(toks, by, n, o, 1, before)
  BY <1>8, <1>9
<1>11. before[1] = << >> /\ Part(toks, by, n) = TextOf(by, before[1], o[1])
  BY <1>10 DEF Quiet, Links
<1>12. TextOf(by, before[1], o[1]) = Cat(before[1], Txt(by, o[1].dirs))
  <2>1. Env(by) /\ before[1] \in Texts
    BY DEF Covers
  <2> QED
    BY <1>4, <1>6, <1>7, <2>1, TextNoWords
<1>13. Cat(<< >>, Txt(by, o[1].dirs)) = Txt(by, o[1].dirs)
  <2>1. PICK x \in Texts : x = Txt(by, o[1].dirs)
    <3>1. Env(by)
      BY DEF Covers
    <3> QED
      BY <1>7, <3>1, BlockFields, TxtTyped
  <2>2. Cat(<< >>, x) = x
    BY TextsMonoid DEF Monoid
  <2> QED
    BY <2>1, <2>2
<1>14. Part(toks, by, n) = Splice(toks, by)
  BY <1>1, PartSteps
<1>15. Parse(toks).dirs = o[1].dirs
  BY <1>2, <1>6
<1>16. o[1].dirs \in Seq(Directives)
  BY <1>7, BlockFields
<1>17. Txt(by, o[1].dirs) = Splice(toks, by)
  BY <1>11, <1>12, <1>13, <1>14
<1> QED
  BY <1>15, <1>16, <1>17

-----------------------------------------------------------------------------
(***************************************************************************)
(* Which files a text needs                                                *)
(***************************************************************************)

\* An include of a file outside S leaves a mark.
MarkEnv(S) == [w \in Names |-> IF w \in S THEN << >> ELSE <<Mark>>]
Unmarked(t) == Mark \notin ToSet(t)
Clean(S, dirs) == Unmarked(Txt(MarkEnv(S), dirs))

LEMMA MarkTexts ==
  /\ << >> \in Texts /\ <<Mark>> \in Texts /\ Unmarked(<< >>) /\ ~Unmarked(<<Mark>>)
  /\ \A s \in Seq(Tokens \cup Punctuation) : s \in Texts /\ Unmarked(s)
<1>1. << >> \in Texts /\ <<Mark>> \in Texts
  BY DEF Texts, Symbols
<1>2. Unmarked(<< >>)
  BY DEF Unmarked, ToSet
<1>3. ~Unmarked(<<Mark>>)
  <2>1. 1 \in DOMAIN <<Mark>> /\ <<Mark>>[1] = Mark
    OBVIOUS
  <2> QED
    BY <2>1 DEF Unmarked, ToSet
<1>4. ASSUME NEW s \in Seq(Tokens \cup Punctuation) PROVE s \in Texts /\ Unmarked(s)
  <2>1. s \in Texts
    BY SeqMonotonic DEF Texts, Symbols
  <2>2. \A i \in DOMAIN s : s[i] \in Tokens \cup Punctuation
    OBVIOUS
  <2> QED
    BY <2>1, <2>2, MarkIsNew DEF Unmarked, ToSet
<1> QED
  BY <1>1, <1>2, <1>3, <1>4

LEMMA OneMark ==
  ASSUME NEW t \in Tokens \cup Punctuation
  PROVE  <<t>> \in Texts /\ Unmarked(<<t>>)
<1>1. <<t>> \in Seq(Tokens \cup Punctuation)
  OBVIOUS
<1> QED
  BY <1>1, MarkTexts

LEMMA UnmarkedCat ==
  ASSUME NEW s \in Texts, NEW t \in Texts
  PROVE  Unmarked(Cat(s, t)) <=> Unmarked(s) /\ Unmarked(t)
BY ToSetConcat DEF Unmarked, Cat, Texts

LEMMA MarkEnvIs ==
  ASSUME NEW S
  PROVE  /\ Covers(MarkEnv(S)) /\ Env(MarkEnv(S))
         /\ \A w \in Names : Unmarked(MarkEnv(S)[w]) <=> w \in S
<1>1. \A w \in Names : (IF w \in S THEN << >> ELSE <<Mark>>) \in Texts
  BY MarkTexts
<1>2. DOMAIN MarkEnv(S) = Names /\ MarkEnv(S) \in [Names -> Texts]
  BY <1>1 DEF MarkEnv
<1>3. Env(MarkEnv(S))
  BY <1>2 DEF Env
<1>4. Tokens \cup Punctuation \subseteq Names
  BY DEF Names
<1>5. Covers(MarkEnv(S))
  BY <1>2, <1>3, <1>4 DEF Covers
<1>6. ASSUME NEW w \in Names PROVE Unmarked(MarkEnv(S)[w]) <=> w \in S
  <2>1. CASE w \in S
    <3>1. MarkEnv(S)[w] = << >>
      BY <2>1 DEF MarkEnv
    <3> QED
      BY <2>1, <3>1, MarkTexts
  <2>2. CASE w \notin S
    <3>1. MarkEnv(S)[w] = <<Mark>>
      BY <2>2 DEF MarkEnv
    <3> QED
      BY <2>2, <3>1, MarkTexts
  <2> QED
    BY <2>1, <2>2
<1> QED
  BY <1>3, <1>5, <1>6

\* The marks in a text are at the includes of other files.
LEMMA IncludesClean ==
  ASSUME NEW toks \in Seq(Tokens), NEW S
  PROVE  Includes(toks) \subseteq S <=> Unmarked(Splice(toks, MarkEnv(S)))
<1> DEFINE by == MarkEnv(S)
<1> DEFINE N == Len(toks)
<1> DEFINE P == PiecesTo(toks, by, N)
<1>1. Covers(by)
  BY MarkEnvIs
<1>2. N \in Nat /\ DOMAIN toks = 1..N /\ \A i \in 1..N : toks[i] \in Tokens
  OBVIOUS
<1>3. \A i \in 1..N : PieceAt(toks, by, i) \in Texts
  BY <1>1, PieceTyped
<1>4. P \in Seq(Texts) /\ Len(P) = N /\ \A i \in 1..N : P[i] = PieceAt(toks, by, i)
  <2>1. P \in [1..N -> Texts] /\ \A i \in 1..N : P[i] = PieceAt(toks, by, i)
    BY <1>3 DEF PiecesTo
  <2> QED
    BY <1>2, <2>1, FunctionIsSeq
<1>5. Splice(toks, by) = FlattenSeq(P)
  BY DEF Splice, PiecesTo, PieceAt
<1>6. ToSet(FlattenSeq(P)) = UNION {ToSet(P[i]) : i \in 1..N}
  BY <1>4, FlattenParts DEF Texts
<1>7. Unmarked(Splice(toks, by)) <=> \A i \in 1..N : Unmarked(PieceAt(toks, by, i))
  BY <1>4, <1>5, <1>6 DEF Unmarked
<1>8. ASSUME NEW i \in 1..N
      PROVE  Unmarked(PieceAt(toks, by, i)) <=> (NamesFile(toks, i) => toks[i] \in S)
  <2>1. CASE NamesFile(toks, i)
    <3>1. PieceAt(toks, by, i) = by[toks[i]]
      BY <2>1 DEF PieceAt
    <3>2. toks[i] \in Names
      BY <1>2 DEF Names
    <3> QED
      BY <2>1, <3>1, <3>2, MarkEnvIs
  <2>2. CASE ~NamesFile(toks, i) /\ IncludeOf(toks)[i] # 0
    <3>1. PieceAt(toks, by, i) = << >>
      BY <2>2 DEF PieceAt
    <3> QED
      BY <2>2, <3>1, MarkTexts
  <2>3. CASE ~NamesFile(toks, i) /\ IncludeOf(toks)[i] = 0
    <3>1. PieceAt(toks, by, i) = <<toks[i]>>
      BY <2>3 DEF PieceAt
    <3>2. <<toks[i]>> \in Seq(Tokens \cup Punctuation)
      BY <1>2
    <3> QED
      BY <2>3, <3>1, <3>2, MarkTexts
  <2> QED
    BY <2>1, <2>2, <2>3
<1> HIDE DEF by, N, P
<1>9. Includes(toks) \subseteq S <=> \A i \in 1..N : NamesFile(toks, i) => toks[i] \in S
  BY <1>2 DEF Includes
<1>10. Unmarked(Splice(toks, by)) <=> \A i \in 1..N : NamesFile(toks, i) => toks[i] \in S
  BY <1>7, <1>8
<1> QED
  BY <1>9, <1>10 DEF by

\* The directives of a file need what its text needs.
LEMMA ParsedClean ==
  ASSUME NEW toks \in Seq(Tokens), NEW S, Parse(toks).ok
  PROVE  Clean(S, Parse(toks).dirs) <=> Includes(toks) \subseteq S
BY MarkEnvIs, ParseText, IncludesClean DEF Clean

LEMMA CleanEmpty ==
  ASSUME NEW S
  PROVE  Clean(S, << >>)
BY MarkEnvIs, TxtEmpty, MarkTexts DEF Clean

\* Directive by directive.
LEMMA CleanNext ==
  ASSUME NEW S, NEW dirs \in Seq(Directives), dirs # << >>
  PROVE  Clean(S, dirs) <=> Unmarked(One(MarkEnv(S), Head(dirs))) /\ Clean(S, Tail(dirs))
<1>1. Head(dirs) \in Directives /\ Tail(dirs) \in Seq(Directives)
  OBVIOUS
<1>2. PICK by : by = MarkEnv(S)
  OBVIOUS
<1>3. Env(by)
  BY <1>2, MarkEnvIs
<1>4. PICK x \in Texts, y \in Texts : x = One(by, Head(dirs)) /\ y = Txt(by, Tail(dirs))
  BY <1>1, <1>3, OneTyped, TxtTyped
<1>5. Txt(by, dirs) = Cat(x, y)
  BY <1>3, <1>4, TxtNext
<1>6. Unmarked(Cat(x, y)) <=> Unmarked(x) /\ Unmarked(y)
  BY UnmarkedCat
<1> QED
  BY <1>2, <1>4, <1>5, <1>6 DEF Clean

LEMMA FileNameIs ==
  ASSUME NEW d \in Directives
  PROVE  FileName(d) \in Names /\ (d.args = << >> => FileName(d) \in Punctuation)
<1>1. d.args \in Seq(Tokens)
  BY DirectiveFields
<1>2. d.args # << >> => d.args[1] \in Tokens
  BY <1>1
<1>3. FileName(d) \in {d.args[1], ";", "{"} /\ (d.args = << >> => FileName(d) \in {";", "{"})
      /\ (d.args # << >> => FileName(d) = d.args[1])
  BY DEF FileName
<1> QED
  BY <1>2, <1>3 DEF Names, Punctuation

LEMMA CleanInclude ==
  ASSUME NEW S, NEW d \in Directives, d.name = "include"
  PROVE  Unmarked(One(MarkEnv(S), d)) <=> FileName(d) \in S
<1>1. FileName(d) \in Names
  BY FileNameIs
<1>2. DOMAIN MarkEnv(S) = Names
  BY DEF MarkEnv
<1>3. One(MarkEnv(S), d) = MarkEnv(S)[FileName(d)]
  BY <1>1, <1>2 DEF One, Spelled
<1> QED
  BY <1>1, <1>3, MarkEnvIs

LEMMA CleanOther ==
  ASSUME NEW S, NEW d \in Directives, d.name # "include"
  PROVE  /\ d.ends = ";" => Unmarked(One(MarkEnv(S), d))
         /\ d.ends # ";" => (Unmarked(One(MarkEnv(S), d)) <=> Clean(S, d.block))
<1>1. /\ d.name \in Tokens /\ d.args \in Seq(Tokens) /\ d.block \in Seq(Directives)
  BY DirectiveFields
<1>2. PICK by : by = MarkEnv(S)
  OBVIOUS
<1>3. PICK x \in Texts : x = Txt(by, d.block)
  BY <1>1, <1>2, MarkEnvIs, TxtTyped
<1>4. PICK a, b, c, e, g : a = <<d.name>> /\ b = d.args /\ c = <<";">> /\ e = <<"{">> /\ g = <<"}">>
  OBVIOUS
<1>5. /\ a \in Texts /\ b \in Texts /\ c \in Texts /\ e \in Texts /\ g \in Texts
      /\ Unmarked(a) /\ Unmarked(b) /\ Unmarked(c) /\ Unmarked(e) /\ Unmarked(g)
  <2>1. a \in Texts /\ Unmarked(a)
    BY <1>1, <1>4, OneMark
  <2>2. b \in Seq(Tokens \cup Punctuation)
    BY <1>1, <1>4, SeqMonotonic
  <2>3. ";" \in Punctuation /\ "{" \in Punctuation /\ "}" \in Punctuation
    BY DEF Punctuation
  <2>4. c \in Texts /\ Unmarked(c) /\ e \in Texts /\ Unmarked(e) /\ g \in Texts /\ Unmarked(g)
    BY <1>4, <2>3, OneMark
  <2> QED
    BY <2>1, <2>2, <2>4, MarkTexts
<1>6. PICK ab \in Texts, ex \in Texts, exg \in Texts : ab = Cat(a, b) /\ ex = Cat(e, x) /\ exg = Cat(ex, g)
  BY <1>5, TextsMonoid DEF Monoid
<1>7. /\ Unmarked(ab) /\ (Unmarked(ex) <=> Unmarked(x)) /\ (Unmarked(exg) <=> Unmarked(ex))
      /\ (Unmarked(Cat(ab, exg)) <=> Unmarked(exg)) /\ Unmarked(Cat(ab, c))
  BY <1>5, <1>6, UnmarkedCat
<1>8. CASE d.ends = ";"
  <2>1. One(by, d) = Cat(ab, c)
    BY <1>4, <1>6, <1>8 DEF One, Spelled
  <2> QED
    BY <1>2, <1>7, <1>8, <2>1
<1>9. CASE d.ends # ";"
  <2>1. One(by, d) = Cat(ab, exg)
    BY <1>3, <1>4, <1>6, <1>9 DEF One, Spelled
  <2>2. Clean(S, d.block) <=> Unmarked(x)
    BY <1>2, <1>3 DEF Clean
  <2> QED
    BY <1>2, <1>7, <1>9, <2>1, <2>2
<1> QED
  BY <1>8, <1>9

-----------------------------------------------------------------------------
\* The file is one the loader can parse.
Fine(has, f) == ~Contains(has[f], OpenQuote) /\ WellFormed(has[f])

\* A set with every file of A that includes members only, and the least such set.
InclusiveIn(has, A, S) == \A f \in A : Fine(has, f) /\ Includes(has[f]) \subseteq S => f \in S
Least(has, A) == {f \in A : \A S \in SUBSET A : InclusiveIn(has, A, S) => f \in S}

LEMMA LeastIs ==
  ASSUME NEW has, NEW A
  PROVE  Least(has, A) \subseteq A /\ InclusiveIn(has, A, Least(has, A))
<1>1. Least(has, A) \subseteq A
  BY DEF Least
<1>2. ASSUME NEW f \in A, Fine(has, f), Includes(has[f]) \subseteq Least(has, A)
      PROVE  f \in Least(has, A)
  <2>1. ASSUME NEW S \in SUBSET A, InclusiveIn(has, A, S) PROVE f \in S
    <3>1. Least(has, A) \subseteq S
      BY <2>1 DEF Least
    <3> QED
      BY <1>2, <2>1, <3>1 DEF InclusiveIn
  <2> QED
    BY <2>1 DEF Least
<1> QED
  BY <1>1, <1>2 DEF InclusiveIn

\* What a file of the least set includes is in the least set without that file.
LEMMA LeastWithout ==
  ASSUME NEW has, NEW A, NEW f \in Least(has, A)
  PROVE  f \in A /\ Fine(has, f) /\ Includes(has[f]) \subseteq Least(has, A \ {f})
<1>1. f \in A /\ \A S \in SUBSET A : InclusiveIn(has, A, S) => f \in S
  BY DEF Least
<1>2. Fine(has, f)
  <2> SUFFICES ASSUME ~Fine(has, f) PROVE FALSE
    OBVIOUS
  <2>1. InclusiveIn(has, A, A \ {f})
    BY DEF InclusiveIn
  <2> QED
    BY <1>1, <2>1
<1>3. Includes(has[f]) \subseteq Least(has, A \ {f})
  <2> SUFFICES ASSUME ~(Includes(has[f]) \subseteq Least(has, A \ {f})) PROVE FALSE
    OBVIOUS
  <2>1. PICK Y : Y = Least(has, A \ {f})
    OBVIOUS
  <2>2. Y \subseteq A \ {f} /\ InclusiveIn(has, A \ {f}, Y)
    BY <2>1, LeastIs
  <2>3. InclusiveIn(has, A, Y)
    BY <2>1, <2>2 DEF InclusiveIn
  <2> QED
    BY <1>1, <2>2, <2>3
<1> QED
  BY <1>1, <1>2, <1>3

LEMMA SoundIs ==
  ASSUME NEW has, NEW f
  PROVE  /\ Sound(has, f) <=> f \in Least(has, DOMAIN has)
         /\ \A S : Inclusive(has, S) <=> InclusiveIn(has, DOMAIN has, S)
<1>1. \A S : Inclusive(has, S) <=> InclusiveIn(has, DOMAIN has, S)
  BY DEF Inclusive, InclusiveIn, Fine
<1>2. InclusiveIn(has, DOMAIN has, DOMAIN has)
  BY DEF InclusiveIn
<1>3. Sound(has, f) => f \in DOMAIN has
  BY <1>1, <1>2 DEF Sound
<1> QED
  BY <1>1, <1>3 DEF Sound, Least

-----------------------------------------------------------------------------
(***************************************************************************)
(* The loader                                                              *)
(***************************************************************************)

\* What the files hold are words and other tokens.
LEMMA TextTyped ==
  ASSUME NEW f \in Files, NEW i \in DOMAIN Text[f]
  PROVE  Text[f][i] \in Seq(Tokens)
<1>1. ToSet(Text[f][i]) \subseteq Tokens
  BY DEF Tokens
<1>2. Text[f][i] \in Seq(ToSet(Text[f][i]))
  BY ConfigLoadAssumption
<1> QED
  BY <1>1, <1>2, SeqMonotonic

FileCalls == [kind : {"file"}, of : Files, todo : Seq(Directives), out : Seq(Directives)]
Blocky == {d \in Directives : d.ends = "}"}
BlockCalls == [kind : {"block"}, of : Blocky, todo : Seq(Directives), out : Seq(Directives)]
Calls == FileCalls \cup BlockCalls

\* All trees in hand are well formed.
Trees == tree \in Seq(Directives) /\ calls \in Seq(Calls)

\* The files that are being expanded are all different, and all in `visited`.
ChainOf(cs, v) ==
  /\ \A i \in DOMAIN cs : cs[i].kind = "file" => cs[i].of \in v
  /\ \A i, j \in DOMAIN cs :
       (cs[i].kind = "file" /\ cs[j].kind = "file" /\ cs[i].of = cs[j].of) => i = j

LoadTypes ==
  /\ disk \in [Files -> Nat]
  /\ \A f \in Files : disk[f] <= Len(Text[f])
  /\ phase \in {"start", "loading", "failed", "loaded", "refused", "built", "serving"}
  /\ visited \subseteq Files
  /\ touched \in 0..MaxConfigEdits
  /\ phase = "loading" <=> calls # << >>

LoadInv == LoadTypes /\ Trees /\ ChainOf(calls, visited)

LEMMA CallFields ==
  ASSUME NEW c \in Calls
  PROVE  /\ c = [kind |-> c.kind, of |-> c.of, todo |-> c.todo, out |-> c.out]
         /\ c.todo \in Seq(Directives) /\ c.out \in Seq(Directives)
         /\ c.kind \in {"file", "block"}
         /\ c.kind = "file" => c.of \in Files
         /\ c.kind = "block" => c.of \in Directives /\ c.of.ends = "}"
<1>1. CASE c \in FileCalls
  BY <1>1 DEF FileCalls
<1>2. CASE c \in BlockCalls
  <2>1. /\ c = [kind |-> c.kind, of |-> c.of, todo |-> c.todo, out |-> c.out]
        /\ c.todo \in Seq(Directives) /\ c.out \in Seq(Directives) /\ c.kind = "block" /\ c.of \in Blocky
    BY <1>2 DEF BlockCalls
  <2> QED
    BY <2>1 DEF Blocky
<1> QED
  BY <1>1, <1>2 DEF Calls

\* Another list of directives to do, or another result, makes a call of the same kind.
LEMMA CallWith ==
  ASSUME NEW c \in Calls, NEW t \in Seq(Directives), NEW u \in Seq(Directives)
  PROVE  /\ [c EXCEPT !.todo = t] \in Calls /\ [c EXCEPT !.out = u] \in Calls
         /\ [c EXCEPT !.todo = t].kind = c.kind /\ [c EXCEPT !.todo = t].of = c.of
         /\ [c EXCEPT !.todo = t].todo = t /\ [c EXCEPT !.todo = t].out = c.out
         /\ [c EXCEPT !.out = u].kind = c.kind /\ [c EXCEPT !.out = u].of = c.of
         /\ [c EXCEPT !.out = u].todo = c.todo /\ [c EXCEPT !.out = u].out = u
<1>1. CASE c \in FileCalls
  BY <1>1 DEF FileCalls, Calls
<1>2. CASE c \in BlockCalls
  BY <1>2 DEF BlockCalls, Calls
<1> QED
  BY <1>1, <1>2 DEF Calls

\* Rewriting the call on top (its next directive, its result) keeps the chain.
LEMMA ChainSame ==
  ASSUME NEW C, NEW cs \in Seq(C), NEW v, ChainOf(cs, v), cs # << >>,
         NEW c, c.kind = Last(cs).kind, c.of = Last(cs).of
  PROVE  ChainOf(Append(Front(cs), c), v)
<1> DEFINE r == Append(Front(cs), c)
<1>1. /\ Len(cs) \in Nat \ {0} /\ Front(cs) \in Seq(C) /\ Len(Front(cs)) = Len(cs) - 1
      /\ \A i \in 1..(Len(cs) - 1) : Front(cs)[i] = cs[i]
  BY FrontLast
<1>2. DOMAIN r = DOMAIN cs
  BY <1>1
<1>3. \A i \in DOMAIN cs : r[i].kind = cs[i].kind /\ r[i].of = cs[i].of
  BY <1>1 DEF Last
<1> HIDE DEF r
<1>4. ChainOf(r, v)
  BY <1>2, <1>3, Zenon DEF ChainOf
<1> QED
  BY <1>4 DEF r

\* A call for a file that is not on the chain extends it (config/mod.rs:71).
LEMMA ChainPush ==
  ASSUME NEW C, NEW cs \in Seq(C), NEW v, ChainOf(cs, v), NEW c, NEW w,
         v \subseteq w, c.kind = "file" => c.of \in w \ v
  PROVE  ChainOf(Append(cs, c), w)
<1>1. /\ Len(cs) \in Nat /\ DOMAIN cs = 1..Len(cs)
      /\ DOMAIN Append(cs, c) = 1..(Len(cs) + 1)
      /\ \A i \in 1..Len(cs) : Append(cs, c)[i] = cs[i]
      /\ Append(cs, c)[Len(cs) + 1] = c
  OBVIOUS
<1>2. \A i \in DOMAIN Append(cs, c) : i \in DOMAIN cs \/ i = Len(cs) + 1
  BY <1>1
<1> QED
  BY <1>1, <1>2 DEF ChainOf

\* A call that returns takes its file off the chain (config/mod.rs:88).
LEMMA ChainPop ==
  ASSUME NEW C, NEW cs \in Seq(C), NEW v, ChainOf(cs, v), cs # << >>
  PROVE  /\ ChainOf(Front(cs), v)
         /\ Last(cs).kind = "file" => ChainOf(Front(cs), v \ {Last(cs).of})
<1>1. /\ Len(cs) \in Nat \ {0} /\ Front(cs) \in Seq(C) /\ Len(Front(cs)) = Len(cs) - 1
      /\ \A i \in 1..(Len(cs) - 1) : Front(cs)[i] = cs[i]
  BY FrontLast
<1>2. DOMAIN Front(cs) = 1..(Len(cs) - 1) /\ DOMAIN cs = 1..Len(cs)
  BY <1>1
<1>3. /\ \A i \in DOMAIN Front(cs) : i \in DOMAIN cs /\ i # Len(cs) /\ Front(cs)[i] = cs[i]
      /\ Len(cs) \in DOMAIN cs
  BY <1>1, <1>2
<1> QED
  BY <1>3 DEF ChainOf, Last

LEMMA LoadInitially ==
  ASSUME LoadInit
  PROVE  LoadInv
<1>1. LoadTypes
  BY ConfigLoadAssumption DEF LoadInit, LoadTypes
<1>2. tree \in Seq(Directives) /\ calls \in Seq(Calls)
  BY DEF LoadInit
<1>3. ChainOf(calls, visited)
  BY DEF LoadInit, ChainOf
<1> QED
  BY <1>1, <1>2, <1>3 DEF LoadInv, Trees

LEMMA FailKeeps ==
  ASSUME LoadInv, Fail
  PROVE  LoadInv'
<1>1. LoadTypes'
  BY DEF LoadInv, LoadTypes, Fail
<1>2. tree' \in Seq(Directives) /\ calls' \in Seq(Calls)
  BY DEF Fail, LoadInv, Trees
<1>3. ChainOf(calls', visited')
  BY DEF Fail, ChainOf
<1> QED
  BY <1>1, <1>2, <1>3 DEF LoadInv, Trees

\* A file that is there is a sequence of tokens.
LEMMA ContentTyped ==
  ASSUME LoadTypes, NEW f, There(f)
  PROVE  f \in Files /\ Content(f) \in Seq(Tokens)
<1>1. f \in Files /\ disk[f] \in Nat /\ disk[f] # 0 /\ disk[f] <= Len(Text[f])
  BY DEF There, LoadTypes
<1>2. Text[f] \in Seq(ToSet(Text[f]))
  BY <1>1, ConfigLoadAssumption
<1>3. disk[f] \in DOMAIN Text[f]
  BY <1>1, <1>2
<1> QED
  BY <1>1, <1>3, TextTyped DEF Content

FileCall(f, dirs) == [kind |-> "file", of |-> f, todo |-> dirs, out |-> << >>]
BlockCall(d, dirs) == [kind |-> "block", of |-> d, todo |-> dirs, out |-> << >>]

LEMMA NewCalls ==
  ASSUME NEW dirs \in Seq(Directives)
  PROVE  /\ \A f \in Files : /\ FileCall(f, dirs) \in Calls
                             /\ FileCall(f, dirs).kind = "file" /\ FileCall(f, dirs).of = f
                             /\ FileCall(f, dirs).todo = dirs /\ FileCall(f, dirs).out = << >>
         /\ \A d \in Blocky : /\ BlockCall(d, dirs) \in Calls
                              /\ BlockCall(d, dirs).kind = "block" /\ BlockCall(d, dirs).of = d
                              /\ BlockCall(d, dirs).todo = dirs /\ BlockCall(d, dirs).out = << >>
<1>1. << >> \in Seq(Directives)
  OBVIOUS
<1>2. \A f \in Files : FileCall(f, dirs) \in FileCalls
  BY <1>1 DEF FileCall, FileCalls
<1>3. \A d \in Blocky : BlockCall(d, dirs) \in BlockCalls
  BY <1>1 DEF BlockCall, BlockCalls
<1>4. ASSUME NEW f PROVE /\ FileCall(f, dirs).kind = "file" /\ FileCall(f, dirs).of = f
                         /\ FileCall(f, dirs).todo = dirs /\ FileCall(f, dirs).out = << >>
  BY DEF FileCall
<1>5. ASSUME NEW d PROVE /\ BlockCall(d, dirs).kind = "block" /\ BlockCall(d, dirs).of = d
                         /\ BlockCall(d, dirs).todo = dirs /\ BlockCall(d, dirs).out = << >>
  BY DEF BlockCall
<1> QED
  BY <1>2, <1>3, <1>4, <1>5 DEF Calls

\* Opening a file, for the load itself or for an include.
Opens(f, below) ==
  /\ Usable(f) /\ Fresh(f)
  /\ calls' = Append(below, FileCall(f, Parse(Content(f)).dirs))
  /\ visited' = visited \cup {f}
  /\ phase' = "loading"
  /\ UNCHANGED <<disk, tree, touched>>

LEMMA OpenFileIs ==
  ASSUME NEW f, NEW below, OpenFile(f, below)
  PROVE  Opens(f, below) \/ (~(Usable(f) /\ Fresh(f)) /\ Fail)
BY DEF OpenFile, Opens, FileCall

LEMMA ParsedTyped ==
  ASSUME LoadTypes, NEW f, Usable(f)
  PROVE  /\ f \in Files /\ Content(f) \in Seq(Tokens)
         /\ Parse(Content(f)).dirs \in Seq(Directives)
         /\ FileCall(f, Parse(Content(f)).dirs) \in Calls
<1>1. There(f) /\ Parse(Content(f)).ok
  BY DEF Usable
<1>2. f \in Files /\ Content(f) \in Seq(Tokens)
  BY <1>1, ContentTyped
<1>3. \E by : Covers(by)
  BY MarkEnvIs
<1>4. Parse(Content(f)).dirs \in Seq(Directives)
  BY <1>1, <1>2, <1>3, ParseText
<1> QED
  BY <1>2, <1>4, NewCalls

LEMMA OpenFileKeeps ==
  ASSUME LoadInv, NEW f, NEW below \in Seq(Calls), ChainOf(below, visited), OpenFile(f, below)
  PROVE  LoadInv'
<1>0. CASE Fail
  BY <1>0, FailKeeps
<1>1. CASE Opens(f, below)
  <2>1. PICK c \in Calls : c = FileCall(f, Parse(Content(f)).dirs)
    BY <1>1, ParsedTyped DEF Opens, LoadInv
  <2>2. f \in Files /\ f \notin visited
    BY <1>1, ParsedTyped DEF Opens, LoadInv, Fresh
  <2>3. /\ calls' = Append(below, c) /\ visited' = visited \cup {f} /\ phase' = "loading"
        /\ UNCHANGED <<disk, tree, touched>>
    BY <1>1, <2>1 DEF Opens
  <2>4. calls' \in Seq(Calls) /\ calls' # << >>
    BY <2>1, <2>3
  <2>5. Trees'
    BY <2>3, <2>4 DEF Trees, LoadInv
  <2>6. ChainOf(calls', visited')
    <3>1. c.of = f
      BY <2>1 DEF FileCall
    <3>2. ChainOf(Append(below, c), visited \cup {f})
      BY <2>2, <3>1, ChainPush
    <3> QED
      BY <2>3, <3>2
  <2>7. LoadTypes'
    BY <2>2, <2>3, <2>4 DEF LoadInv, LoadTypes
  <2> QED
    BY <2>5, <2>6, <2>7 DEF LoadInv
<1> QED
  BY <1>0, <1>1, OpenFileIs

LEMMA StartLoadKeeps ==
  ASSUME LoadInv, StartLoad
  PROVE  LoadInv'
<1>1. << >> \in Seq(Calls) /\ ChainOf(<< >>, visited)
  BY DEF ChainOf
<1> QED
  BY <1>1, OpenFileKeeps DEF StartLoad

\* The call on top.
LEMMA TopIs ==
  ASSUME LoadInv, phase = "loading"
  PROVE  /\ calls \in Seq(Calls) /\ calls # << >> /\ Len(calls) \in Nat \ {0}
         /\ Top \in Calls /\ Top = calls[Len(calls)]
         /\ Below \in Seq(Calls) /\ Len(Below) = Len(calls) - 1
         /\ \A i \in 1..(Len(calls) - 1) : Below[i] = calls[i]
<1>1. calls # << >> /\ calls \in Seq(Calls)
  BY DEF LoadInv, LoadTypes, Trees
<1>2. Top = calls[Len(calls)]
  BY DEF Top, Last
<1> QED
  BY <1>1, <1>2, FrontLast DEF Top, Below

\* The call on top with its next directive taken.
Taken == [Top EXCEPT !.todo = Tail(@)]

LEMMA NextDirective ==
  ASSUME LoadInv, phase = "loading", Top.todo # << >>
  PROVE  /\ Top.todo \in Seq(Directives) /\ Head(Top.todo) \in Directives
         /\ Tail(Top.todo) \in Seq(Directives)
         /\ Taken \in Calls /\ Taken.kind = Top.kind /\ Taken.of = Top.of
         /\ Taken.todo = Tail(Top.todo) /\ Taken.out = Top.out
         /\ Append(Below, Taken) \in Seq(Calls)
         /\ ChainOf(Append(Below, Taken), visited)
<1>1. Top \in Calls /\ Below \in Seq(Calls) /\ calls \in Seq(Calls) /\ calls # << >>
  BY TopIs
<1>2. Top.todo \in Seq(Directives)
  BY <1>1, CallFields
<1>3. Head(Top.todo) \in Directives /\ Tail(Top.todo) \in Seq(Directives)
  BY <1>2
<1>4. << >> \in Seq(Directives)
  OBVIOUS
<1>5. /\ Taken \in Calls /\ Taken.kind = Top.kind /\ Taken.of = Top.of
      /\ Taken.todo = Tail(Top.todo) /\ Taken.out = Top.out
  BY <1>1, <1>3, <1>4, CallWith DEF Taken
<1>6. ChainOf(Append(Below, Taken), visited)
  BY <1>1, <1>5, ChainSame DEF Top, Below, LoadInv
<1>7. Append(Below, Taken) \in Seq(Calls)
  BY <1>1, <1>5
<1> QED
  BY <1>2, <1>3, <1>5, <1>6, <1>7

LEMMA ExpandIncludeKeeps ==
  ASSUME LoadInv, ExpandInclude
  PROVE  LoadInv'
<1>1. Append(Below, Taken) \in Seq(Calls) /\ ChainOf(Append(Below, Taken), visited)
  BY NextDirective DEF ExpandInclude
<1>2. CASE Fail
  BY <1>2, FailKeeps
<1>3. ASSUME OpenFile(Head(Top.todo).args[1], Append(Below, Taken))
      PROVE  LoadInv'
  BY <1>1, <1>3, OpenFileKeeps
<1> QED
  BY <1>2, <1>3 DEF ExpandInclude, Taken

\* The directive without a block goes to the result.
Moved == [Taken EXCEPT !.out = Append(@, Head(Top.todo))]

LEMMA ExpandDirectiveIs ==
  ASSUME ExpandDirective
  PROVE  /\ phase = "loading" /\ Top.todo # << >> /\ Head(Top.todo).name # "include"
         /\ Head(Top.todo).ends = ";" => calls' = Append(Below, Moved)
         /\ Head(Top.todo).ends # ";" =>
              calls' = Append(Append(Below, Taken), BlockCall(Head(Top.todo), Head(Top.todo).block))
         /\ UNCHANGED <<disk, phase, visited, tree, touched>>
BY DEF ExpandDirective, Taken, Moved, BlockCall

LEMMA MovedIs ==
  ASSUME LoadInv, phase = "loading", Top.todo # << >>
  PROVE  /\ Moved \in Calls /\ Moved.kind = Top.kind /\ Moved.of = Top.of
         /\ Moved.todo = Tail(Top.todo) /\ Moved.out = Append(Top.out, Head(Top.todo))
<1>1. Head(Top.todo) \in Directives /\ Taken \in Calls /\ Taken.out = Top.out
      /\ Taken.kind = Top.kind /\ Taken.of = Top.of /\ Taken.todo = Tail(Top.todo)
  BY NextDirective
<1>2. Taken.out \in Seq(Directives)
  BY <1>1, CallFields
<1>3. PICK o, d : o = Taken.out /\ d = Head(Top.todo)
  OBVIOUS
<1>4. PICK u \in Seq(Directives) : u = Append(o, d)
  <2>1. o \in Seq(Directives) /\ d \in Directives
    BY <1>1, <1>2, <1>3
  <2> QED
    BY <2>1, AppendProperties
<1>5. PICK c \in Calls : c = Taken
  BY <1>1
<1>6. Moved = [c EXCEPT !.out = u]
  BY <1>3, <1>4, <1>5 DEF Moved
<1>7. /\ [c EXCEPT !.out = u] \in Calls
      /\ [c EXCEPT !.out = u].kind = c.kind /\ [c EXCEPT !.out = u].of = c.of
      /\ [c EXCEPT !.out = u].todo = c.todo /\ [c EXCEPT !.out = u].out = u
  BY CallWith
<1> QED
  BY <1>1, <1>3, <1>4, <1>5, <1>6, <1>7

LEMMA ExpandDirectiveKeeps ==
  ASSUME LoadInv, ExpandDirective
  PROVE  LoadInv'
<1>1. phase = "loading" /\ Top.todo # << >> /\ UNCHANGED <<disk, phase, visited, tree, touched>>
  BY ExpandDirectiveIs
<1>2. PICK d \in Directives : d = Head(Top.todo)
  BY <1>1, NextDirective
<1>3. /\ calls \in Seq(Calls) /\ calls # << >> /\ Below \in Seq(Calls)
      /\ Append(Below, Taken) \in Seq(Calls) /\ ChainOf(Append(Below, Taken), visited)
  BY <1>1, NextDirective, TopIs
<1>4. ASSUME calls' \in Seq(Calls), calls' # << >>, ChainOf(calls', visited)
      PROVE  LoadInv'
  BY <1>1, <1>4 DEF LoadInv, LoadTypes, Trees
<1>5. CASE d.ends = ";"
  <2>1. calls' = Append(Below, Moved) /\ Moved \in Calls
        /\ Moved.kind = Top.kind /\ Moved.of = Top.of
    BY <1>1, <1>2, <1>5, ExpandDirectiveIs, MovedIs
  <2>2. ChainOf(Append(Below, Moved), visited)
    BY <1>3, <2>1, ChainSame DEF Top, Below, LoadInv
  <2>3. calls' \in Seq(Calls) /\ calls' # << >>
    BY <1>3, <2>1
  <2> QED
    BY <1>4, <2>1, <2>2, <2>3
<1>6. CASE d.ends # ";"
  <2>1. d.block \in Seq(Directives) /\ d \in Blocky
    BY <1>6, DirectiveFields DEF Blocky
  <2>2. PICK c \in Calls : c = BlockCall(d, d.block)
    BY <2>1, NewCalls
  <2>3. PICK r \in Seq(Calls) : r = Append(Below, Taken)
    BY <1>3
  <2>4. calls' = Append(r, c)
    BY <1>2, <1>6, <2>2, <2>3, ExpandDirectiveIs
  <2>5. c.kind # "file"
    BY <2>2 DEF BlockCall
  <2>6. ChainOf(Append(r, c), visited)
    BY <1>3, <2>3, <2>5, ChainPush
  <2>7. calls' \in Seq(Calls) /\ calls' # << >>
    BY <2>4
  <2> QED
    BY <1>4, <2>4, <2>6, <2>7
<1> QED
  BY <1>5, <1>6

\* A directive with another block.
Replaced(d, b) == [d EXCEPT !.block = b]

\* What a call hands to its caller: the directives of a file, or one directive
\* with its block expanded.
Result == IF Top.kind = "file" THEN Top.out ELSE <<Replaced(Top.of, Top.out)>>

Dir(n, a, e, b) == [name |-> n, args |-> a, ends |-> e, block |-> b]

ReplacedIs(d, b) == Replaced(d, b) = Dir(d.name, d.args, d.ends, b)
DirectivesOf(T, A, E, B) == [name : T, args : A, ends : E, block : B]

LEMMA NewBlock ==
  ASSUME NEW T, NEW A, NEW E, NEW B, NEW d \in DirectivesOf(T, A, E, B), NEW b
  PROVE  ReplacedIs(d, b)
BY DEF ReplacedIs, Replaced, Dir, DirectivesOf

LEMMA DirIn ==
  ASSUME NEW n \in Tokens, NEW a \in Seq(Tokens), NEW e, e = "}", NEW b \in Seq(Directives)
  PROVE  Dir(n, a, e, b) \in Directives
BY OverHas, DirectivesAre DEF Dir

LEMMA WithBlock ==
  ASSUME NEW d \in Directives, d.ends = "}", NEW b \in Seq(Directives)
  PROVE  Replaced(d, b) \in Directives /\ Replaced(d, b) = Dir(d.name, d.args, d.ends, b)
<1>1. /\ d = [name |-> d.name, args |-> d.args, ends |-> d.ends, block |-> d.block]
      /\ d.name \in Tokens /\ d.args \in Seq(Tokens) /\ d.block \in Seq(Directives)
  BY DirectiveFields
<1>3. d \in DirectivesOf(Tokens, Seq(Tokens), {d.ends}, Seq(Directives))
  BY <1>1 DEF DirectivesOf
<1>4. ReplacedIs(d, b)
  BY <1>3, NewBlock
<1>5. Dir(d.name, d.args, d.ends, b) \in Directives
  BY <1>1, DirIn
<1> QED
  BY <1>4, <1>5 DEF ReplacedIs

LEMMA ResultTyped ==
  ASSUME Top \in Calls
  PROVE  Result \in Seq(Directives)
<1>1. CASE Top.kind = "file"
  BY <1>1, CallFields DEF Result
<1>2. CASE Top.kind # "file"
  <2>1. Top.of \in Directives /\ Top.of.ends = "}" /\ Top.out \in Seq(Directives)
    BY <1>2, CallFields
  <2>2. PICK d \in Directives : d = Replaced(Top.of, Top.out)
    BY <2>1, WithBlock
  <2>3. <<d>> \in Seq(Directives)
    OBVIOUS
  <2> QED
    BY <1>2, <2>2, <2>3 DEF Result
<1> QED
  BY <1>1, <1>2

\* The caller with the result added.
Caller == Last(Below)
Returned == [Caller EXCEPT !.out = @ \o Result]

LEMMA ReturnIs ==
  ASSUME Return
  PROVE  /\ phase = "loading" /\ Top.todo = << >> /\ UNCHANGED <<disk, touched>>
         /\ Top.kind = "file" /\ Below # << >> => visited' = visited \ {Top.of}
         /\ Top.kind # "file" => visited' = visited
         /\ Below = << >> => visited' = visited /\ calls' = << >> /\ tree' = Result /\ phase' = "loaded"
         /\ Below # << >> => calls' = Append(Front(Below), Returned) /\ UNCHANGED <<phase, tree>>
<1>1. /\ phase = "loading" /\ Top.todo = << >> /\ UNCHANGED <<disk, touched>>
      /\ visited' = IF Top.kind = "file" /\ Below # << >> THEN visited \ {Top.of} ELSE visited
  BY DEF Return, Forget
<1>2. /\ Below = << >> => calls' = << >> /\ tree' = Result /\ phase' = "loaded"
      /\ Below # << >> => calls' = Append(Front(Below), Returned) /\ UNCHANGED <<phase, tree>>
  BY DEF Return, Result, Returned, Caller, Replaced
<1> QED
  BY <1>1, <1>2

LEMMA CallerIs ==
  ASSUME LoadInv, phase = "loading", Below # << >>
  PROVE  /\ Caller \in Calls /\ Caller.out \in Seq(Directives) /\ Result \in Seq(Directives)
         /\ Returned \in Calls /\ Returned.kind = Caller.kind /\ Returned.of = Caller.of
         /\ Returned.todo = Caller.todo /\ Returned.out = Caller.out \o Result
         /\ Front(Below) \in Seq(Calls)
<1>1. Top \in Calls /\ Below \in Seq(Calls)
  BY TopIs
<1>2. Caller \in Calls /\ Front(Below) \in Seq(Calls)
  BY <1>1, FrontLast DEF Caller
<1>3. Caller.out \in Seq(Directives) /\ Result \in Seq(Directives)
  BY <1>1, <1>2, CallFields, ResultTyped
<1>4. PICK u \in Seq(Directives) : u = Caller.out \o Result
  BY <1>3, ConcatProperties
<1>5. PICK c \in Calls : c = Caller
  BY <1>2
<1>6. Returned = [c EXCEPT !.out = u]
  BY <1>4, <1>5 DEF Returned
<1>7. /\ [c EXCEPT !.out = u] \in Calls
      /\ [c EXCEPT !.out = u].kind = c.kind /\ [c EXCEPT !.out = u].of = c.of
      /\ [c EXCEPT !.out = u].todo = c.todo /\ [c EXCEPT !.out = u].out = u
  BY CallWith
<1> QED
  BY <1>2, <1>3, <1>4, <1>5, <1>6, <1>7

LEMMA ReturnKeeps ==
  ASSUME LoadInv, Return
  PROVE  LoadInv'
<1>1. phase = "loading" /\ UNCHANGED <<disk, touched>> /\ visited' \subseteq visited
  BY ReturnIs
<1>2. /\ calls \in Seq(Calls) /\ calls # << >> /\ Top \in Calls /\ Below \in Seq(Calls)
      /\ ChainOf(calls, visited) /\ LoadTypes
  BY <1>1, TopIs DEF LoadInv
<1>3. ChainOf(Below, visited')
  <2>1. ChainOf(Below, visited) /\ (Top.kind = "file" => ChainOf(Below, visited \ {Top.of}))
    BY <1>2, ChainPop DEF Below, Top
  <2>2. visited' \in {visited, visited \ {Top.of}} /\ (Top.kind # "file" => visited' = visited)
    BY ReturnIs
  <2> QED
    BY <2>1, <2>2
<1>4. CASE Below = << >>
  <2>1. calls' = << >> /\ tree' = Result /\ phase' = "loaded"
    BY <1>4, ReturnIs
  <2>2. Trees'
    <3>1. calls' \in Seq(Calls)
      BY <2>1
    <3> QED
      BY <1>2, <2>1, <3>1, ResultTyped DEF Trees
  <2>3. ChainOf(calls', visited')
    BY <1>3, <1>4, <2>1
  <2>4. LoadTypes'
    BY <1>1, <1>2, <2>1 DEF LoadTypes
  <2> QED
    BY <2>2, <2>3, <2>4 DEF LoadInv
<1>5. CASE Below # << >>
  <2>1. calls' = Append(Front(Below), Returned) /\ UNCHANGED <<phase, tree>>
    BY <1>5, ReturnIs
  <2>2. /\ Returned \in Calls /\ Returned.kind = Caller.kind /\ Returned.of = Caller.of
        /\ Front(Below) \in Seq(Calls)
    BY <1>1, <1>5, CallerIs
  <2>3. calls' \in Seq(Calls) /\ calls' # << >>
    BY <2>1, <2>2
  <2>4. ChainOf(Append(Front(Below), Returned), visited')
    BY <1>2, <1>3, <1>5, <2>2, ChainSame DEF Caller
  <2>5. Trees'
    BY <2>1, <2>3 DEF Trees, LoadInv
  <2>6. LoadTypes'
    BY <1>1, <1>2, <2>1, <2>3 DEF LoadTypes
  <2> QED
    BY <2>1, <2>4, <2>5, <2>6 DEF LoadInv
<1> QED
  BY <1>4, <1>5

\* An edit at any moment touches nothing that the loader has already read.
LEMMA EditConfigKeeps ==
  ASSUME LoadInv, NEW f \in Files, EditConfig(f)
  PROVE  LoadInv'
<1>1. LoadTypes /\ Trees /\ ChainOf(calls, visited)
  BY DEF LoadInv
<1>2. /\ touched < MaxConfigEdits /\ touched' = touched + 1
      /\ UNCHANGED <<phase, calls, visited, tree>>
  BY DEF EditConfig
<1>3. PICK v \in 0..Len(Text[f]) : disk' = [disk EXCEPT ![f] = v]
  BY DEF EditConfig
<1>4. Len(Text[f]) \in Nat
  BY ConfigLoadAssumption
<1>5. disk' \in [Files -> Nat] /\ \A g \in Files : disk'[g] <= Len(Text[g])
  BY <1>1, <1>3, <1>4 DEF LoadTypes
<1>6. LoadTypes'
  BY <1>1, <1>2, <1>5, ConfigLoadAssumption DEF LoadTypes
<1> QED
  BY <1>1, <1>2, <1>6 DEF LoadInv, Trees

-----------------------------------------------------------------------------
(***************************************************************************)
(* What the calls of the loader stand for                                  *)
(***************************************************************************)
Library(has) ==
  /\ has \in [DOMAIN has -> Seq(Tokens)]
  /\ DOMAIN has \subseteq Files /\ IsFiniteSet(DOMAIN has)

\* The texts of the files when only those of A may be included.
Inlined(has, A) == Spliced(has)[Cardinality(A)]
Whole(has) == Inlined(has, DOMAIN has)[Main]

LEMMA CardinalityWithout ==
  ASSUME NEW A, IsFiniteSet(A), NEW f \in A
  PROVE  Cardinality(A \ {f}) \in Nat /\ Cardinality(A) = Cardinality(A \ {f}) + 1
<1>1. Cardinality(A \ {f}) = Cardinality(A) - 1 /\ IsFiniteSet(A \ {f})
  BY FS_RemoveElement
<1>2. Cardinality(A) \in Nat /\ Cardinality(A \ {f}) \in Nat
  BY <1>1, FS_CardinalityType
<1> QED
  BY <1>1, <1>2

LEMMA InlinedIs ==
  ASSUME NEW has, Library(has), NEW A \in SUBSET DOMAIN has
  PROVE  /\ Env(Inlined(has, A)) /\ Covers(Inlined(has, A)) /\ DOMAIN Inlined(has, A) = Names
         /\ \A f \in A : Inlined(has, A)[f] = Splice(has[f], Inlined(has, A \ {f}))
<1>1. IsFiniteSet(A) /\ A \subseteq Files /\ has \in [DOMAIN has -> Seq(Tokens)]
  BY FS_Subset DEF Library
<1>2. Cardinality(A) \in Nat
  BY <1>1, FS_CardinalityType
<1>3. Inlined(has, A) \in [Names -> Texts] /\ Covers(Inlined(has, A))
  BY <1>1, <1>2, SplicedSteps DEF Inlined
<1>4. ASSUME NEW f \in A PROVE Inlined(has, A)[f] = Splice(has[f], Inlined(has, A \ {f}))
  <2>1. PICK n \in Nat : n = Cardinality(A \ {f}) /\ Cardinality(A) = n + 1
    BY <1>1, CardinalityWithout
  <2>2. f \in Names /\ f \in DOMAIN has
    BY <1>1 DEF Names
  <2>3. Spliced(has)[n + 1][f] = Splice(has[f], Spliced(has)[n])
    BY <1>1, <2>2, SplicedSteps
  <2> QED
    BY <2>1, <2>3 DEF Inlined
<1>5. Env(Inlined(has, A))
  BY <1>3 DEF Covers
<1>6. DOMAIN Inlined(has, A) = Names
  BY <1>3
<1> QED
  BY <1>3, <1>4, <1>5, <1>6

\* An include of f stands for the directives of f, which do not include f again.
LEMMA FileText ==
  ASSUME NEW has, Library(has), NEW A \in SUBSET DOMAIN has, NEW f \in A, Parse(has[f]).ok
  PROVE  /\ Parse(has[f]).dirs \in Seq(Directives)
         /\ Inlined(has, A)[f] = Txt(Inlined(has, A \ {f}), Parse(has[f]).dirs)
<1>1. has[f] \in Seq(Tokens)
  BY DEF Library
<1>2. PICK by : by = Inlined(has, A \ {f})
  OBVIOUS
<1>3. Covers(by)
  <2>1. A \ {f} \in SUBSET DOMAIN has
    OBVIOUS
  <2> QED
    BY <1>2, <2>1, InlinedIs
<1>4. Inlined(has, A)[f] = Splice(has[f], by)
  BY <1>2, InlinedIs
<1>5. Parse(has[f]).dirs \in Seq(Directives) /\ Txt(by, Parse(has[f]).dirs) = Splice(has[f], by)
  BY <1>1, <1>3, ParseText
<1> QED
  BY <1>2, <1>4, <1>5

\* The text of directives that include nothing any more.
Bare(dirs) == Txt(<< >>, dirs)

LEMMA BareIs ==
  /\ \A dirs \in Seq(Directives) : Bare(dirs) \in Texts
  /\ Bare(<< >>) = << >> /\ << >> \in Texts
  /\ \A p, q \in Seq(Directives) : Bare(p \o q) = Cat(Bare(p), Bare(q))
<1>1. ASSUME NEW dirs \in Seq(Directives) PROVE Bare(dirs) \in Texts
  BY EnvEmpty, TxtTyped DEF Bare
<1>2. Bare(<< >>) = << >> /\ << >> \in Texts
  BY EnvEmpty, TxtEmpty, MarkTexts DEF Bare
<1>3. ASSUME NEW p \in Seq(Directives), NEW q \in Seq(Directives)
      PROVE  Bare(p \o q) = Cat(Bare(p), Bare(q))
  BY EnvEmpty, TxtConcat DEF Bare
<1> QED
  BY <1>1, <1>2, <1>3

\* What the caller of x gets when the text of x is t.
Held(x, t) == IF x.kind = "file" THEN t ELSE Worded(x.of, t)

\* What x may include, when its caller may include A.
Within(x, A) == IF x.kind = "file" THEN A \ {x.of} ELSE A
MayEnter(x, A) == x.kind = "file" => x.of \in A

Alike(x, y) == x.kind = y.kind /\ x.of = y.of

\* The call y waits for x: a and b are what they may include, t and u their texts.
Passes(has, y, x, a, b, t, u) ==
  /\ b = Within(x, a) /\ MayEnter(x, a)
  /\ t = Cat(Bare(y.out), Cat(Held(x, u), Txt(Inlined(has, a), y.todo)))
Pass(has, c, av, tx, l) ==
  Passes(has, c[l], c[l + 1], av[l], av[l + 1], tx[l], tx[l + 1])
Passing(has, c, k, av, tx) == \A l \in Nat : l >= 1 /\ l < k => Pass(has, c, av, tx, l)

\* The innermost call: what it has done and what it has to do make its text.
Yields(has, y, a, t) == t = Cat(Bare(y.out), Txt(Inlined(has, a), y.todo))

\* Nothing that a sound configuration needs is missing, and what is left to do
\* needs everything that was not done.
Needs(has, c, k, av) ==
  Sound(has, Main) => \A l \in 1..k : Clean(Least(has, av[l]), c[l].todo)
Demands(has, c, k) ==
  \A S \in SUBSET DOMAIN has :
    Inclusive(has, S) /\ (\A l \in 1..k : Clean(S, c[l].todo)) => Main \in S

Framed(has, c, k, av, tx) ==
  /\ tx[1] = Whole(has) /\ c[1].kind = "file"
  /\ Passing(has, c, k, av, tx)
  /\ Yields(has, c[k], av[k], tx[k])
  /\ Needs(has, c, k, av)
Frames(has) == [Nat -> SUBSET DOMAIN has]

\* The calls c, with the files v on the chain, stand for the text of the main file.
Means(has, c, k, v) ==
  /\ Demands(has, c, k)
  /\ \E av \in Frames(has), tx \in [Nat -> Texts] :
       av[k] = DOMAIN has \ v /\ Framed(has, c, k, av, tx)

LEMMA PassesAlike ==
  ASSUME NEW has, NEW y, NEW x, NEW z, NEW a, NEW b, NEW t, NEW u, Alike(z, x),
         Passes(has, y, x, a, b, t, u)
  PROVE  Passes(has, y, z, a, b, t, u)
BY DEF Alike, Passes, Within, MayEnter, Held

LEMMA PassingSame ==
  ASSUME NEW has, NEW c, NEW n, NEW k \in Nat \ {0}, NEW av, NEW tx, NEW bv, NEW ux,
         Passing(has, c, k, av, tx), Alike(n[k], c[k]),
         \A l \in Nat : l >= 1 /\ l < k => n[l] = c[l],
         \A l \in Nat : l >= 1 /\ l <= k => bv[l] = av[l] /\ ux[l] = tx[l]
  PROVE  Passing(has, n, k, bv, ux)
<1>1. ASSUME NEW l \in Nat, l >= 1, l < k
      PROVE  Pass(has, n, bv, ux, l)
  <2>1. PICK m : m = l + 1
    OBVIOUS
  <2>2. m \in Nat /\ m >= 1 /\ m <= k /\ l <= k /\ (m < k \/ m = k)
    BY <1>1, <2>1
  <2>3. Passes(has, c[l], c[m], av[l], av[m], tx[l], tx[m])
    BY <1>1, <2>1 DEF Passing, Pass
  <2>4. n[l] = c[l] /\ bv[l] = av[l] /\ bv[m] = av[m] /\ ux[l] = tx[l] /\ ux[m] = tx[m]
    BY <1>1, <2>2
  <2>5. Alike(n[m], c[m])
    <3>1. m < k => n[m] = c[m]
      BY <2>2
    <3> QED
      BY <2>2, <3>1 DEF Alike
  <2>6. Passes(has, n[l], n[m], bv[l], bv[m], ux[l], ux[m])
    BY <2>3, <2>4, <2>5, PassesAlike
  <2> QED
    BY <2>1, <2>6 DEF Pass
<1> QED
  BY <1>1 DEF Passing

LEMMA PassingMore ==
  ASSUME NEW has, NEW c, NEW k \in Nat \ {0}, NEW av, NEW tx, Passing(has, c, k, av, tx),
         Pass(has, c, av, tx, k)
  PROVE  Passing(has, c, k + 1, av, tx)
<1>1. \A l \in Nat : l < k + 1 => l < k \/ l = k
  OBVIOUS
<1> QED
  BY <1>1 DEF Passing

LEMMA PassingFewer ==
  ASSUME NEW has, NEW c, NEW j \in Nat \ {0}, NEW av, NEW tx, Passing(has, c, j + 1, av, tx)
  PROVE  Passing(has, c, j, av, tx) /\ Pass(has, c, av, tx, j)
<1>1. \A l \in Nat : l < j => l < j + 1
  OBVIOUS
<1>2. j \in Nat /\ j >= 1 /\ j < j + 1
  OBVIOUS
<1> QED
  BY <1>1, <1>2 DEF Passing

-----------------------------------------------------------------------------
(***************************************************************************)
(* The steps of the loader keep the meaning of its calls                   *)
(***************************************************************************)
Upto(c, n, k) == \A l \in Nat : l >= 1 /\ l < k => n[l] = c[l]

LEMMA UptoIs ==
  ASSUME NEW c, NEW n, NEW k \in Nat \ {0}, Upto(c, n, k), NEW l \in 1..k
  PROVE  l \in Nat /\ l >= 1 /\ (n[l] = c[l] \/ l = k)
<1>1. l \in Nat /\ l >= 1 /\ (l < k \/ l = k)
  OBVIOUS
<1> QED
  BY <1>1 DEF Upto

LEMMA FirstKind ==
  ASSUME NEW c, NEW n, NEW k \in Nat \ {0}, Upto(c, n, k), Alike(n[k], c[k])
  PROVE  n[1].kind = c[1].kind
<1>1. 1 \in 1..k
  OBVIOUS
<1>2. n[1] = c[1] \/ 1 = k
  BY <1>1, UptoIs
<1> QED
  BY <1>2 DEF Alike

\* The innermost call, rewritten so that it means the same.
LEMMA MeansRewritten ==
  ASSUME NEW has, NEW c, NEW n, NEW k \in Nat \ {0}, NEW v, Means(has, c, k, v),
         Upto(c, n, k), Alike(n[k], c[k]),
         \A a \in SUBSET DOMAIN has, t \in Texts : Yields(has, c[k], a, t) => Yields(has, n[k], a, t),
         \A S : Clean(S, n[k].todo) <=> Clean(S, c[k].todo)
  PROVE  Means(has, n, k, v)
<1>1. PICK av \in Frames(has), tx \in [Nat -> Texts] :
        av[k] = DOMAIN has \ v /\ Framed(has, c, k, av, tx)
  BY DEF Means
<1>2. /\ tx[1] = Whole(has) /\ c[1].kind = "file"
      /\ Passing(has, c, k, av, tx) /\ Yields(has, c[k], av[k], tx[k]) /\ Needs(has, c, k, av)
  BY <1>1 DEF Framed
<1>3. Passing(has, n, k, av, tx)
  <2>1. \A l \in Nat : l >= 1 /\ l <= k => av[l] = av[l] /\ tx[l] = tx[l]
    OBVIOUS
  <2>2. \A l \in Nat : l >= 1 /\ l < k => n[l] = c[l]
    BY DEF Upto
  <2> QED
    BY <1>2, <2>1, <2>2, PassingSame
<1>4. \A l \in 1..k : \A S : Clean(S, n[l].todo) <=> Clean(S, c[l].todo)
  BY UptoIs
<1>5. Needs(has, n, k, av)
  BY <1>2, <1>4, Zenon DEF Needs
<1>6. Demands(has, n, k)
  BY <1>4, Zenon DEF Means, Demands
<1>7. Yields(has, n[k], av[k], tx[k])
  <2>1. k \in Nat
    OBVIOUS
  <2>2. av[k] \in SUBSET DOMAIN has /\ tx[k] \in Texts
    BY <2>1 DEF Frames
  <2> QED
    BY <1>2, <2>2
<1>8. n[1].kind = "file"
  BY <1>2, FirstKind
<1>9. Framed(has, n, k, av, tx)
  BY <1>2, <1>3, <1>5, <1>7, <1>8, Zenon DEF Framed
<1> QED
  BY <1>1, <1>6, <1>9, Zenon DEF Means

\* A directive that is not an include and has no block reads the same in any case.
LEMMA OneAlone ==
  ASSUME NEW by, NEW d, d.name # "include", d.ends = ";"
  PROVE  One(by, d) = One(<< >>, d)
BY DEF One, Spelled

\* One with a block: its block in its place.
LEMMA OneBlock ==
  ASSUME NEW by, NEW d, d.name # "include"
  PROVE  One(by, d) = Worded(d, Txt(by, d.block))
BY DEF One, Spelled, Worded

LEMMA HeadTail ==
  ASSUME NEW S, NEW s \in Seq(S), s # << >>
  PROVE  Head(s) \in S /\ Tail(s) \in Seq(S)
OBVIOUS

LEMMA CleanAlone ==
  ASSUME NEW S, NEW dirs \in Seq(Directives), dirs # << >>, NEW d, d = Head(dirs),
         d.name # "include", d.ends = ";"
  PROVE  Clean(S, Tail(dirs)) <=> Clean(S, dirs)
<1>1. d \in Directives
  BY HeadTail
<1>2. Unmarked(One(MarkEnv(S), d))
  BY <1>1, CleanOther
<1>3. Clean(S, dirs) <=> Unmarked(One(MarkEnv(S), Head(dirs))) /\ Clean(S, Tail(dirs))
  BY CleanNext
<1> QED
  BY <1>2, <1>3

\* A directive moves from the ones to do to the result.
LEMMA MeansMoved ==
  ASSUME NEW has, Library(has), NEW c, NEW n, NEW k \in Nat \ {0}, NEW v, Means(has, c, k, v),
         Upto(c, n, k), Alike(n[k], c[k]), c[k] \in Calls, NEW d,
         c[k].todo # << >>, d = Head(c[k].todo), d.name # "include", d.ends = ";",
         n[k].todo = Tail(c[k].todo), n[k].out = Append(c[k].out, d)
  PROVE  Means(has, n, k, v)
<1>1. c[k].todo \in Seq(Directives) /\ c[k].out \in Seq(Directives)
  BY CallFields
<1>2. d \in Directives /\ Tail(c[k].todo) \in Seq(Directives)
  BY <1>1, HeadTail
<1>3. ASSUME NEW S PROVE Clean(S, n[k].todo) <=> Clean(S, c[k].todo)
  <2>1. PICK dirs \in Seq(Directives) : dirs = c[k].todo
    BY <1>1
  <2>2. dirs # << >> /\ d = Head(dirs) /\ n[k].todo = Tail(dirs)
    BY <2>1
  <2>3. Clean(S, Tail(dirs)) <=> Clean(S, dirs)
    BY <2>2, CleanAlone
  <2> QED
    BY <2>1, <2>2, <2>3
<1>4. ASSUME NEW a \in SUBSET DOMAIN has, NEW t \in Texts, Yields(has, c[k], a, t)
      PROVE  Yields(has, n[k], a, t)
  <2>1. PICK by : by = Inlined(has, a)
    OBVIOUS
  <2>2. Env(by)
    BY <2>1, InlinedIs
  <2>3. PICK p \in Texts, q \in Texts, r \in Texts :
          p = Bare(c[k].out) /\ q = One(by, d) /\ r = Txt(by, n[k].todo)
    BY <1>1, <1>2, <2>2, BareIs, OneTyped, TxtTyped
  <2>4. Txt(by, c[k].todo) = Cat(q, r)
    BY <1>1, <2>2, <2>3, TxtNext
  <2>5. Bare(n[k].out) = Cat(p, q)
    <3>1. Txt(<< >>, Append(c[k].out, d)) = Cat(Txt(<< >>, c[k].out), One(<< >>, d))
      BY <1>1, <1>2, EnvEmpty, TxtAppend
    <3>2. One(<< >>, d) = q
      BY <2>3, OneAlone
    <3> QED
      BY <2>3, <3>1, <3>2, Zenon DEF Bare
  <2>6. t = Cat(p, Cat(q, r))
    BY <1>4, <2>1, <2>3, <2>4, Zenon DEF Yields
  <2>7. Cat(Cat(p, q), r) = Cat(p, Cat(q, r))
    BY TextsMonoid DEF Monoid
  <2> QED
    BY <2>1, <2>3, <2>5, <2>6, <2>7, Zenon DEF Yields
<1> QED
  BY <1>3, <1>4, MeansRewritten

Longer(f, g, k, x) == g[k + 1] = x /\ \A l \in Nat : l >= 1 /\ l <= k => g[l] = f[l]

LEMMA FramesUpdated ==
  ASSUME NEW has, NEW f \in Frames(has), NEW k \in Nat, NEW x, x \subseteq DOMAIN has
  PROVE  \E g \in Frames(has) : Longer(f, g, k, x)
<1> DEFINE g == [f EXCEPT ![k + 1] = x]
<1>1. g \in Frames(has) /\ g[k + 1] = x
  BY DEF Frames
<1>2. \A l \in Nat : l >= 1 /\ l <= k => g[l] = f[l]
  BY DEF Frames
<1> QED
  BY <1>1, <1>2 DEF Longer

\* The call x was made for the directive d, where a may be included.
CallFor(has, x, d, a) ==
  /\ x \in Calls /\ x.out = << >> /\ MayEnter(x, a)
  /\ One(Inlined(has, a), d) = Held(x, Txt(Inlined(has, Within(x, a)), x.todo))
  /\ Unmarked(One(MarkEnv(Least(has, a)), d)) => Clean(Least(has, Within(x, a)), x.todo)
  /\ \A S \in SUBSET DOMAIN has :
       Inclusive(has, S) /\ Clean(S, x.todo) => Unmarked(One(MarkEnv(S), d))

LEMMA MeansPushed ==
  ASSUME NEW has, Library(has), NEW c, NEW n, NEW k \in Nat \ {0}, NEW v, Means(has, c, k, v),
         Upto(c, n, k), Alike(n[k], c[k]), c[k] \in Calls, c[k].todo # << >>,
         n[k].todo = Tail(c[k].todo), n[k].out = c[k].out,
         NEW w, DOMAIN has \ w = Within(n[k + 1], DOMAIN has \ v),
         CallFor(has, n[k + 1], Head(c[k].todo), DOMAIN has \ v)
  PROVE  Means(has, n, k + 1, w)
<1>1. PICK av \in Frames(has), tx \in [Nat -> Texts] :
        av[k] = DOMAIN has \ v /\ Framed(has, c, k, av, tx)
  BY DEF Means
<1>2. /\ tx[1] = Whole(has) /\ c[1].kind = "file"
      /\ Passing(has, c, k, av, tx) /\ Yields(has, c[k], av[k], tx[k]) /\ Needs(has, c, k, av)
  BY <1>1 DEF Framed
<1>3. PICK x, d, a, b : x = n[k + 1] /\ d = Head(c[k].todo) /\ a = av[k] /\ b = Within(x, a)
  OBVIOUS
<1>4. CallFor(has, x, d, a) /\ b = DOMAIN has \ w /\ a = DOMAIN has \ v
  BY <1>1, <1>3
<1>5. c[k].todo \in Seq(Directives) /\ c[k].out \in Seq(Directives)
  BY CallFields
<1>6. d \in Directives /\ Tail(c[k].todo) \in Seq(Directives)
  BY <1>3, <1>5, HeadTail
<1>7. x \in Calls /\ x.out = << >> /\ MayEnter(x, a) /\ x.todo \in Seq(Directives)
  BY <1>4, CallFields DEF CallFor
<1>8. PICK E, F : E = Inlined(has, a) /\ F = Inlined(has, b)
  OBVIOUS
<1>9. a \in SUBSET DOMAIN has /\ b \in SUBSET DOMAIN has
  BY <1>4
<1>10. Env(E) /\ Env(F)
  BY <1>8, <1>9, InlinedIs
<1>11. PICK u \in Texts : u = Txt(F, x.todo)
  BY <1>7, <1>10, TxtTyped
<1>12. One(E, d) = Held(x, u)
  BY <1>3, <1>4, <1>8, <1>11 DEF CallFor
<1>13. k \in Nat /\ k + 1 \in Nat \ {0} /\ k >= 1 /\ k <= k
  BY NextFacts
<1>14. PICK bv \in Frames(has) : bv[k + 1] = b /\ \A l \in Nat : l >= 1 /\ l <= k => bv[l] = av[l]
  <2>1. PICK bv \in Frames(has) : Longer(av, bv, k, b)
    BY <1>9, <1>13, FramesUpdated
  <2> QED
    BY <2>1 DEF Longer
<1>15. PICK ux \in [Nat -> Texts] :
         ux[k + 1] = u /\ \A l \in Nat : l >= 1 /\ l <= k => ux[l] = tx[l]
  BY <1>13, Updated, SMTT(30)
<1>16. bv[k] = a /\ ux[k] = tx[k]
  BY <1>3, <1>13, <1>14, <1>15
<1>17. Passing(has, n, k, bv, ux)
  <2>1. \A l \in Nat : l >= 1 /\ l <= k => bv[l] = av[l] /\ ux[l] = tx[l]
    BY <1>14, <1>15
  <2>2. \A l \in Nat : l >= 1 /\ l < k => n[l] = c[l]
    BY DEF Upto
  <2> QED
    BY <1>2, <2>1, <2>2, PassingSame
<1>18. Pass(has, n, bv, ux, k)
  <2>1. Txt(E, c[k].todo) = Cat(One(E, d), Txt(E, n[k].todo))
    BY <1>3, <1>5, <1>10, TxtNext
  <2>2. tx[k] = Cat(Bare(c[k].out), Txt(E, c[k].todo))
    BY <1>2, <1>3, <1>8 DEF Yields
  <2>3. tx[k] = Cat(Bare(n[k].out), Cat(Held(x, u), Txt(E, n[k].todo)))
    BY <1>12, <2>1, <2>2, Zenon
  <2>4. Passes(has, n[k], x, a, b, tx[k], u)
    BY <1>3, <1>7, <1>8, <2>3, Zenon DEF Passes
  <2> QED
    BY <1>3, <1>14, <1>15, <1>16, <2>4, Zenon DEF Pass
<1>19. Passing(has, n, k + 1, bv, ux)
  BY <1>17, <1>18, PassingMore
<1>20. Yields(has, x, b, u)
  <2>1. Bare(x.out) = << >>
    BY <1>7, BareIs
  <2>2. Cat(<< >>, u) = u
    BY TextsMonoid DEF Monoid
  <2> QED
    BY <1>8, <1>11, <2>1, <2>2, Zenon DEF Yields
<1>21. \A l \in 1..(k + 1) : l = k + 1 \/ l \in 1..k
  OBVIOUS
<1>22. ASSUME NEW l \in 1..k
       PROVE  /\ bv[l] = av[l] /\ (n[l] = c[l] \/ l = k)
              /\ l \in 1..(k + 1)
  <2>1. l \in Nat /\ l >= 1 /\ l <= k /\ l \in 1..(k + 1)
    OBVIOUS
  <2> QED
    BY <1>14, <2>1, UptoIs
<1>23. ASSUME NEW S
       PROVE  Clean(S, c[k].todo) <=> Unmarked(One(MarkEnv(S), d)) /\ Clean(S, n[k].todo)
  <2>1. PICK dirs \in Seq(Directives) : dirs = c[k].todo
    BY <1>5
  <2>2. dirs # << >> /\ d = Head(dirs) /\ n[k].todo = Tail(dirs)
    BY <1>3, <2>1
  <2>3. Clean(S, dirs) <=> Unmarked(One(MarkEnv(S), Head(dirs))) /\ Clean(S, Tail(dirs))
    BY <2>2, CleanNext
  <2> QED
    BY <2>1, <2>2, <2>3
<1>24. k \in 1..k /\ k + 1 \in 1..(k + 1)
  OBVIOUS
<1>25. Needs(has, n, k + 1, bv)
  <2> SUFFICES ASSUME Sound(has, Main), NEW l \in 1..(k + 1)
               PROVE  Clean(Least(has, bv[l]), n[l].todo)
    BY DEF Needs
  <2>1. \A i \in 1..k : Clean(Least(has, av[i]), c[i].todo)
    BY <1>2 DEF Needs
  <2>2. Clean(Least(has, a), c[k].todo)
    BY <1>3, <1>24, <2>1
  <2>3. CASE l = k + 1
    <3>1. Clean(Least(has, b), x.todo)
      BY <1>3, <1>4, <1>23, <2>2 DEF CallFor
    <3> QED
      BY <1>3, <1>14, <2>3, <3>1
  <2>4. CASE l \in 1..k
    <3>1. bv[l] = av[l] /\ (n[l] = c[l] \/ l = k) /\ Clean(Least(has, av[l]), c[l].todo)
      BY <1>22, <2>1, <2>4
    <3>2. Clean(Least(has, a), n[k].todo)
      BY <1>23, <2>2
    <3> QED
      BY <1>3, <3>1, <3>2, Zenon
  <2> QED
    BY <1>21, <2>3, <2>4
<1>26. Demands(has, n, k + 1)
  <2> SUFFICES ASSUME NEW S \in SUBSET DOMAIN has, Inclusive(has, S),
                      \A l \in 1..(k + 1) : Clean(S, n[l].todo)
               PROVE  Main \in S
    BY DEF Demands
  <2>1. Clean(S, x.todo)
    BY <1>3, <1>24
  <2>2. Unmarked(One(MarkEnv(S), d))
    BY <1>4, <2>1 DEF CallFor
  <2>3. \A l \in 1..k : Clean(S, n[l].todo)
    BY <1>22
  <2>4. Clean(S, c[k].todo)
    BY <1>23, <1>24, <2>2, <2>3
  <2>5. ASSUME NEW l \in 1..k PROVE Clean(S, c[l].todo)
    <3>1. n[l] = c[l] \/ l = k
      BY <1>22
    <3> QED
      BY <2>3, <2>4, <3>1, Zenon
  <2> QED
    BY <2>5 DEF Means, Demands
<1>27. ux[1] = Whole(has) /\ n[1].kind = "file"
  <2>1. 1 \in Nat /\ 1 >= 1 /\ 1 <= k
    OBVIOUS
  <2>2. ux[1] = tx[1]
    BY <1>15, <2>1
  <2> QED
    BY <1>2, <2>2, FirstKind
<1>28. Framed(has, n, k + 1, bv, ux)
  BY <1>3, <1>14, <1>15, <1>19, <1>20, <1>25, <1>27, Zenon DEF Framed
<1>29. bv[k + 1] = DOMAIN has \ w
  BY <1>4, <1>14
<1> QED
  BY <1>26, <1>28, <1>29, Zenon DEF Means

\* The calls after the innermost one has returned r.
LEMMA MeansReturned ==
  ASSUME NEW has, Library(has), NEW c, NEW n, NEW j \in Nat \ {0}, NEW v,
         Means(has, c, j + 1, v), Upto(c, n, j), Alike(n[j], c[j]),
         c[j] \in Calls, c[j + 1] \in Calls, c[j + 1].todo = << >>,
         NEW r \in Seq(Directives), Bare(r) = Held(c[j + 1], Bare(c[j + 1].out)),
         n[j].todo = c[j].todo, n[j].out = c[j].out \o r,
         NEW w, \A A \in SUBSET DOMAIN has :
           MayEnter(c[j + 1], A) /\ Within(c[j + 1], A) = DOMAIN has \ v => A = DOMAIN has \ w
  PROVE  Means(has, n, j, w)
<1>0. PICK k : k = j + 1
  OBVIOUS
<1>1. PICK av \in Frames(has), tx \in [Nat -> Texts] :
        av[k] = DOMAIN has \ v /\ Framed(has, c, k, av, tx)
  BY <1>0 DEF Means
<1>2. /\ tx[1] = Whole(has) /\ c[1].kind = "file"
      /\ Passing(has, c, k, av, tx) /\ Yields(has, c[k], av[k], tx[k]) /\ Needs(has, c, k, av)
  BY <1>1 DEF Framed
<1>3. Passing(has, c, j, av, tx) /\ Passes(has, c[j], c[k], av[j], av[k], tx[j], tx[k])
  BY <1>0, <1>2, PassingFewer DEF Pass
<1>4. j \in Nat /\ k \in Nat
  BY <1>0, NextFacts
<1>5. /\ av[j] \in SUBSET DOMAIN has /\ av[k] \in SUBSET DOMAIN has
      /\ tx[j] \in Texts /\ tx[k] \in Texts
  BY <1>4 DEF Frames
<1>6. av[j] = DOMAIN has \ w
  BY <1>0, <1>1, <1>3, <1>5 DEF Passes
<1>7. PICK E, F : E = Inlined(has, av[j]) /\ F = Inlined(has, av[k])
  OBVIOUS
<1>8. Env(E) /\ Env(F)
  BY <1>5, <1>7, InlinedIs
<1>9. /\ c[j].todo \in Seq(Directives) /\ c[j].out \in Seq(Directives)
      /\ c[k].out \in Seq(Directives) /\ c[k].todo = << >>
  BY <1>0, CallFields
<1>10. PICK p \in Texts, q \in Texts, s \in Texts, o \in Texts :
         p = Bare(c[j].out) /\ q = Bare(r) /\ s = Txt(E, c[j].todo) /\ o = Bare(c[k].out)
  BY <1>8, <1>9, BareIs, TxtTyped
<1>11. tx[k] = o
  <2>1. Txt(F, c[k].todo) = << >>
    BY <1>8, <1>9, TxtEmpty
  <2>2. Cat(o, << >>) = o
    BY TextsMonoid DEF Monoid
  <2> QED
    BY <1>2, <1>7, <1>10, <2>1, <2>2, Zenon DEF Yields
<1>12. Yields(has, n[j], av[j], tx[j])
  <2>1. tx[j] = Cat(p, Cat(Held(c[k], o), s))
    BY <1>3, <1>7, <1>10, <1>11, Zenon DEF Passes
  <2>2. Held(c[k], o) = q
    BY <1>0, <1>10
  <2>3. Bare(n[j].out) = Cat(p, q)
    <3>1. Bare(c[j].out \o r) = Cat(Bare(c[j].out), Bare(r))
      BY <1>9, BareIs
    <3> QED
      BY <1>10, <3>1, Zenon
  <2>4. Cat(Cat(p, q), s) = Cat(p, Cat(q, s))
    BY TextsMonoid DEF Monoid
  <2>5. tx[j] = Cat(Bare(n[j].out), Txt(E, n[j].todo))
    BY <1>10, <2>1, <2>2, <2>3, <2>4, Zenon
  <2> QED
    BY <1>7, <2>5, Zenon DEF Yields
<1>13. Passing(has, n, j, av, tx)
  <2>1. \A l \in Nat : l >= 1 /\ l <= j => av[l] = av[l] /\ tx[l] = tx[l]
    OBVIOUS
  <2>2. \A l \in Nat : l >= 1 /\ l < j => n[l] = c[l]
    BY DEF Upto
  <2> QED
    BY <1>3, <2>1, <2>2, PassingSame
<1>14. \A l \in 1..j : l \in 1..k
  BY <1>0
<1>15. \A l \in 1..k : l \in 1..j \/ l = k
  BY <1>0
<1>16. ASSUME NEW l \in 1..j PROVE n[l].todo = c[l].todo
  <2>1. n[l] = c[l] \/ l = j
    BY UptoIs
  <2> QED
    BY <2>1
<1>17. Needs(has, n, j, av)
  BY <1>2, <1>14, <1>16 DEF Needs
<1>18. Demands(has, n, j)
  <2> SUFFICES ASSUME NEW S \in SUBSET DOMAIN has, Inclusive(has, S),
                      \A l \in 1..j : Clean(S, n[l].todo)
               PROVE  Main \in S
    BY DEF Demands
  <2>1. Clean(S, c[k].todo)
    BY <1>9, CleanEmpty
  <2>2. \A l \in 1..k : Clean(S, c[l].todo)
    BY <1>15, <1>16, <2>1
  <2> QED
    BY <1>0, <2>2 DEF Means, Demands
<1>19. n[1].kind = "file"
  BY <1>2, FirstKind
<1>20. Framed(has, n, j, av, tx)
  BY <1>2, <1>12, <1>13, <1>17, <1>19, Zenon DEF Framed
<1> QED
  BY <1>6, <1>18, <1>20, Zenon DEF Means

\* The call for the main file has nothing left to do.
LEMMA MeansDone ==
  ASSUME NEW has, Library(has), NEW c, NEW v, Means(has, c, 1, v), c[1] \in Calls,
         c[1].todo = << >>
  PROVE  /\ c[1].kind = "file" /\ Sound(has, Main)
         /\ Bare(c[1].out) = Whole(has)
<1>1. PICK av \in Frames(has), tx \in [Nat -> Texts] :
        av[1] = DOMAIN has \ v /\ Framed(has, c, 1, av, tx)
  BY DEF Means
<1>2. tx[1] = Whole(has) /\ c[1].kind = "file" /\ Yields(has, c[1], av[1], tx[1])
  BY <1>1 DEF Framed
<1>3. c[1].out \in Seq(Directives)
  BY CallFields
<1>4. PICK by : by = Inlined(has, av[1])
  OBVIOUS
<1>5. Env(by)
  <2>1. av[1] \in SUBSET DOMAIN has
    BY DEF Frames
  <2> QED
    BY <1>4, <2>1, InlinedIs
<1>6. Txt(by, c[1].todo) = << >>
  BY <1>5, TxtEmpty
<1>7. Cat(Bare(c[1].out), << >>) = Bare(c[1].out)
  BY <1>3, BareIs, TextsMonoid DEF Monoid
<1>8. tx[1] = Bare(c[1].out)
  BY <1>2, <1>4, <1>6, <1>7, Zenon DEF Yields
<1>9. \A S : Clean(S, c[1].todo)
  BY CleanEmpty
<1>10. \A l \in 1..1 : l = 1
  OBVIOUS
<1>11. Sound(has, Main)
  BY <1>9, <1>10 DEF Means, Demands, Sound
<1> QED
  BY <1>2, <1>8, <1>11

-----------------------------------------------------------------------------
(***************************************************************************)
(* The calls that the loader makes                                         *)
(***************************************************************************)
LEMMA FileCallFields ==
  ASSUME NEW f, NEW dirs
  PROVE  /\ FileCall(f, dirs).kind = "file" /\ FileCall(f, dirs).of = f
         /\ FileCall(f, dirs).todo = dirs /\ FileCall(f, dirs).out = << >>
BY DEF FileCall

LEMMA BlockCallFields ==
  ASSUME NEW d, NEW dirs
  PROVE  /\ BlockCall(d, dirs).kind = "block" /\ BlockCall(d, dirs).of = d
         /\ BlockCall(d, dirs).todo = dirs /\ BlockCall(d, dirs).out = << >>
BY DEF BlockCall

\* A parsed file needs what its text includes.
LEMMA FileNeeds ==
  ASSUME NEW has, Library(has), NEW a \in SUBSET DOMAIN has, NEW f \in a,
         Parse(has[f]).ok, Fine(has, f)
  PROVE  /\ f \in Least(has, a) => Clean(Least(has, a \ {f}), Parse(has[f]).dirs)
         /\ \A S \in SUBSET DOMAIN has :
              Inclusive(has, S) /\ Clean(S, Parse(has[f]).dirs) => f \in S
<1>1. has[f] \in Seq(Tokens) /\ f \in DOMAIN has
  BY DEF Library
<1>2. \A S : Clean(S, Parse(has[f]).dirs) <=> Includes(has[f]) \subseteq S
  BY <1>1, ParsedClean
<1>3. f \in Least(has, a) => Includes(has[f]) \subseteq Least(has, a \ {f})
  BY LeastWithout
<1>4. ASSUME NEW S, Inclusive(has, S), Includes(has[f]) \subseteq S PROVE f \in S
  <2>1. InclusiveIn(has, DOMAIN has, S)
    BY <1>4, SoundIs
  <2> QED
    BY <1>1, <1>4, <2>1 DEF InclusiveIn
<1> QED
  BY <1>2, <1>3, <1>4, Zenon

LEMMA FileFor ==
  ASSUME NEW has, Library(has), NEW a \in SUBSET DOMAIN has, NEW f \in a,
         Parse(has[f]).ok, Fine(has, f), NEW d \in Directives, d.name = "include", FileName(d) = f
  PROVE  CallFor(has, FileCall(f, Parse(has[f]).dirs), d, a)
<1>1. PICK dirs : dirs = Parse(has[f]).dirs
  OBVIOUS
<1>2. dirs \in Seq(Directives) /\ Inlined(has, a)[f] = Txt(Inlined(has, a \ {f}), dirs)
  BY <1>1, FileText
<1>3. PICK x : x = FileCall(f, dirs)
  OBVIOUS
<1>4. x.kind = "file" /\ x.of = f /\ x.todo = dirs /\ x.out = << >>
  BY <1>3, FileCallFields
<1>5. x \in Calls
  BY <1>2, <1>3, NewCalls DEF Library
<1>6. MayEnter(x, a) /\ Within(x, a) = a \ {f} /\ \A t : Held(x, t) = t
  BY <1>4 DEF MayEnter, Within, Held
<1>7. One(Inlined(has, a), d) = Inlined(has, a)[f]
  <2>1. FileName(d) \in DOMAIN Inlined(has, a)
    BY FileNameIs, InlinedIs
  <2> QED
    BY <2>1 DEF One, Spelled
<1>8. \A S : Unmarked(One(MarkEnv(S), d)) <=> f \in S
  BY CleanInclude
<1>9. /\ f \in Least(has, a) => Clean(Least(has, a \ {f}), dirs)
      /\ \A S \in SUBSET DOMAIN has : Inclusive(has, S) /\ Clean(S, dirs) => f \in S
  BY <1>1, FileNeeds
<1>10. CallFor(has, x, d, a)
  BY <1>2, <1>4, <1>5, <1>6, <1>7, <1>8, <1>9, Zenon DEF CallFor
<1> QED
  BY <1>1, <1>3, <1>10

LEMMA BlockFor ==
  ASSUME NEW has, NEW a, NEW d \in Blocky, d.name # "include"
  PROVE  CallFor(has, BlockCall(d, d.block), d, a)
<1>1. d \in Directives /\ d.ends # ";"
  BY DEF Blocky
<1>2. d.block \in Seq(Directives)
  BY <1>1, DirectiveFields
<1>3. PICK x : x = BlockCall(d, d.block)
  OBVIOUS
<1>4. x.kind # "file" /\ x.of = d /\ x.todo = d.block /\ x.out = << >>
  BY <1>3, BlockCallFields
<1>5. x \in Calls
  BY <1>2, <1>3, NewCalls
<1>6. MayEnter(x, a) /\ Within(x, a) = a /\ \A t : Held(x, t) = Worded(d, t)
  BY <1>4 DEF MayEnter, Within, Held
<1>7. One(Inlined(has, a), d) = Worded(d, Txt(Inlined(has, a), d.block))
  BY OneBlock
<1>8. \A S : Unmarked(One(MarkEnv(S), d)) <=> Clean(S, d.block)
  BY <1>1, CleanOther
<1>9. CallFor(has, x, d, a)
  BY <1>4, <1>5, <1>6, <1>7, <1>8, Zenon DEF CallFor
<1> QED
  BY <1>3, <1>9

\* The load begins with the main file.
LEMMA MeansStarted ==
  ASSUME NEW has, Library(has), Main \in DOMAIN has, Parse(has[Main]).ok, Fine(has, Main),
         NEW n, n[1] = FileCall(Main, Parse(has[Main]).dirs)
  PROVE  Means(has, n, 1, {Main})
<1>1. PICK D, a, dirs, x : /\ D = DOMAIN has /\ a = D \ {Main}
                           /\ dirs = Parse(has[Main]).dirs /\ x = n[1]
  OBVIOUS
<1>2. D \in SUBSET DOMAIN has /\ a \in SUBSET DOMAIN has /\ Main \in D
  BY <1>1
<1>3. dirs \in Seq(Directives) /\ Whole(has) = Txt(Inlined(has, a), dirs)
  BY <1>1, <1>2, FileText DEF Whole
<1>4. x.kind = "file" /\ x.todo = dirs /\ x.out = << >>
  BY <1>1, FileCallFields
<1>5. PICK t \in Texts : t = Whole(has)
  BY <1>2, <1>3, InlinedIs, TxtTyped
<1>6. PICK av \in Frames(has), tx \in [Nat -> Texts] : \A l \in Nat : av[l] = a /\ tx[l] = t
  <2>1. [l \in Nat |-> a] \in Frames(has) /\ \A l \in Nat : [m \in Nat |-> a][l] = a
    BY <1>2 DEF Frames
  <2>2. [l \in Nat |-> t] \in [Nat -> Texts] /\ \A l \in Nat : [m \in Nat |-> t][l] = t
    OBVIOUS
  <2> QED
    BY <2>1, <2>2
<1>7. av[1] = a /\ tx[1] = t
  BY <1>6
<1>8. Yields(has, x, a, t)
  <2>1. Bare(x.out) = << >> /\ Cat(<< >>, t) = t
    BY <1>4, BareIs, TextsMonoid DEF Monoid
  <2> QED
    BY <1>3, <1>4, <1>5, <2>1, Zenon DEF Yields
<1>9. /\ Main \in Least(has, D) => Clean(Least(has, a), dirs)
      /\ \A S \in SUBSET DOMAIN has : Inclusive(has, S) /\ Clean(S, dirs) => Main \in S
  BY <1>1, <1>2, FileNeeds
<1>10. \A l \in 1..1 : l = 1
  OBVIOUS
<1>11. Needs(has, n, 1, av)
  BY <1>1, <1>4, <1>7, <1>9, <1>10, SoundIs DEF Needs
<1>12. Demands(has, n, 1)
  <2>1. 1 \in 1..1
    OBVIOUS
  <2> QED
    BY <1>1, <1>4, <1>9, <2>1 DEF Demands
<1>13. Passing(has, n, 1, av, tx)
  BY DEF Passing
<1>14. Framed(has, n, 1, av, tx)
  BY <1>1, <1>4, <1>5, <1>7, <1>8, <1>11, <1>13, Zenon DEF Framed
<1>15. av[1] = DOMAIN has \ {Main}
  BY <1>1, <1>7
<1> QED
  BY <1>12, <1>14, <1>15, Zenon DEF Means

\* In a sound configuration the next include finds its file.
LEMMA SoundInclude ==
  ASSUME NEW has, Library(has), NEW c, NEW k \in Nat \ {0}, NEW v, Means(has, c, k, v),
         c[k] \in Calls, c[k].todo # << >>, NEW d, d = Head(c[k].todo), d.name = "include",
         Sound(has, Main)
  PROVE  d.args # << >> /\ d.args[1] \in DOMAIN has \ v /\ Fine(has, d.args[1])
<1>1. PICK dirs \in Seq(Directives) : dirs = c[k].todo
  BY CallFields
<1>2. dirs # << >> /\ d = Head(dirs)
  BY <1>1
<1>3. d \in Directives
  BY <1>2, HeadTail
<1>4. PICK a : a = DOMAIN has \ v
  OBVIOUS
<1>5. Clean(Least(has, a), dirs)
  <2>1. k \in 1..k
    OBVIOUS
  <2>2. PICK av : av[k] = a /\ Needs(has, c, k, av)
    BY <1>4 DEF Means, Framed
  <2> QED
    BY <1>1, <2>1, <2>2 DEF Needs
<1>6. Unmarked(One(MarkEnv(Least(has, a)), d))
  BY <1>2, <1>5, CleanNext
<1>7. FileName(d) \in Least(has, a)
  BY <1>3, <1>6, CleanInclude
<1>8. FileName(d) \in a /\ Fine(has, FileName(d))
  BY <1>7, LeastWithout
<1>9. d.args # << >>
  <2>1. FileName(d) \in Files
    BY <1>4, <1>8 DEF Library
  <2>2. FileName(d) \notin Punctuation
    BY <2>1, ConfigLoadAssumption
  <2> QED
    BY <1>3, <2>2, FileNameIs
<1>10. FileName(d) = d.args[1]
  BY <1>9 DEF FileName
<1> QED
  BY <1>4, <1>8, <1>9, <1>10

\* What a call returns reads as its text.
LEMMA ReplacedText ==
  ASSUME NEW d \in Directives, d.ends = "}", NEW out \in Seq(Directives)
  PROVE  Bare(<<Replaced(d, out)>>) = Worded(d, Bare(out))
<1>1. PICK R \in Directives : R = Replaced(d, out)
  BY WithBlock
<1>2. R = Dir(d.name, d.args, d.ends, out)
  BY <1>1, WithBlock
<1>3. R.name = d.name /\ R.args = d.args /\ R.ends = d.ends /\ R.block = out
  BY <1>2 DEF Dir
<1>4. Bare(<<R>>) = Spelled(<< >>, R, Bare(out))
  BY <1>3, EnvEmpty, TxtOne DEF Bare, One
<1>5. Spelled(<< >>, R, Bare(out)) = Worded(R, Bare(out))
  BY PlainIs
<1>6. Worded(R, Bare(out)) = Worded(d, Bare(out))
  BY <1>3 DEF Worded
<1> QED
  BY <1>1, <1>4, <1>5, <1>6

LEMMA ResultText ==
  ASSUME Top \in Calls
  PROVE  Bare(Result) = Held(Top, Bare(Top.out))
<1>1. CASE Top.kind = "file"
  BY <1>1 DEF Result, Held
<1>2. CASE Top.kind # "file"
  <2>1. Top.of \in Directives /\ Top.of.ends = "}" /\ Top.out \in Seq(Directives)
    BY <1>2, CallFields
  <2>2. Bare(<<Replaced(Top.of, Top.out)>>) = Worded(Top.of, Bare(Top.out))
    BY <2>1, ReplacedText
  <2> QED
    BY <1>2, <2>2 DEF Result, Held
<1> QED
  BY <1>1, <1>2

-----------------------------------------------------------------------------
(***************************************************************************)
(* A load that nobody disturbs                                             *)
(***************************************************************************)
LEMMA ContentsAre ==
  ASSUME LoadTypes, NEW has, has = Contents
  PROVE  /\ Library(has)
         /\ \A f : Usable(f) <=> f \in DOMAIN has /\ Fine(has, f)
         /\ \A f : Usable(f) => has[f] = Content(f) /\ Parse(has[f]).ok
<1>1. DOMAIN has = {f \in Files : disk[f] # 0} /\ \A f \in DOMAIN has : has[f] = Content(f)
  BY DEF Contents, Content
<1>2. \A f : There(f) <=> f \in DOMAIN has
  BY <1>1 DEF There
<1>3. \A f \in DOMAIN has : has[f] \in Seq(Tokens)
  BY <1>1, <1>2, ContentTyped
<1>4. Library(has)
  <2>1. has \in [DOMAIN has -> Seq(Tokens)]
    <3>1. has = [f \in DOMAIN has |-> has[f]]
      BY DEF Contents
    <3> QED
      BY <1>3, <3>1
  <2>2. DOMAIN has \subseteq Files /\ IsFiniteSet(DOMAIN has)
    BY <1>1, ConfigLoadAssumption, FS_Subset
  <2> QED
    BY <2>1, <2>2 DEF Library
<1>5. \A f \in DOMAIN has : Parse(has[f]).ok <=> WellFormed(has[f])
  BY <1>3, ParseOk
<1>6. \A f : Usable(f) <=> f \in DOMAIN has /\ Fine(has, f)
  BY <1>1, <1>2, <1>5 DEF Usable, Lexes, Fine
<1>7. \A f : Usable(f) => has[f] = Content(f) /\ Parse(has[f]).ok
  BY <1>1, <1>2 DEF Usable
<1> QED
  BY <1>4, <1>6, <1>7

LEMMA ContentsSame ==
  ASSUME disk' = disk
  PROVE  Contents' = Contents
BY DEF Contents

Loaded == phase \in {"loaded", "refused", "built"}
Right(has, t) == Sound(has, Main) /\ ReadsAs(t, Whole(has))

\* How far a load of `has` has come.
Undisturbed(has) ==
  /\ phase = "start" => visited = {}
  /\ phase = "loading" => Means(has, calls, Len(calls), visited)
  /\ phase = "failed" => ~Sound(has, Main)
  /\ Loaded => Right(has, tree)
LoadMeans == touched = 0 => Undisturbed(Contents)

LEMMA LoadMeansFaithful ==
  ASSUME LoadMeans
  PROVE  LoadFaithful
BY DEF LoadMeans, Undisturbed, LoadFaithful, Loaded, Right, Whole, Inlined

LEMMA MeansInitially ==
  ASSUME LoadInit
  PROVE  LoadMeans
BY DEF LoadInit, LoadMeans, Undisturbed, Loaded

\* Steps that leave the disk as it is.
LEMMA MeansLater ==
  ASSUME LoadMeans, disk' = disk, touched' = touched,
         \A has : has = Contents /\ Undisturbed(has) => Undisturbed(has)'
  PROVE  LoadMeans'
<1>1. PICK has : has = Contents
  OBVIOUS
<1>2. Contents' = has
  BY <1>1, ContentsSame
<1>3. touched = 0 => Undisturbed(has)'
  BY <1>1 DEF LoadMeans
<1> QED
  BY <1>2, <1>3 DEF LoadMeans

\* What the phase after a step leaves to show.
LEMMA NowLoading ==
  ASSUME NEW has, phase' = "loading", Means(has, calls', Len(calls'), visited')
  PROVE  Undisturbed(has)'
BY DEF Undisturbed, Loaded

LEMMA NowFailed ==
  ASSUME NEW has, Fail, ~Sound(has, Main)
  PROVE  Undisturbed(has)'
BY DEF Undisturbed, Loaded, Fail

LEMMA StartMeans ==
  ASSUME LoadInv, NEW has, has = Contents, Undisturbed(has), StartLoad
  PROVE  Undisturbed(has)'
<1>1. phase = "start" /\ OpenFile(Main, << >>) /\ visited = {} /\ Fresh(Main)
  BY DEF StartLoad, Undisturbed, Fresh
<1>2. LoadTypes
  BY DEF LoadInv
<1>3. Library(has)
  BY <1>2, ContentsAre
<1>4. CASE ~Usable(Main) /\ Fail
  <2>1. ~Sound(has, Main)
    <3> SUFFICES ASSUME Sound(has, Main) PROVE FALSE
      OBVIOUS
    <3>1. Main \in Least(has, DOMAIN has)
      BY SoundIs
    <3>2. Main \in DOMAIN has /\ Fine(has, Main)
      BY <3>1, LeastWithout
    <3> QED
      BY <1>2, <1>4, <3>2, ContentsAre
  <2> QED
    BY <1>4, <2>1, NowFailed
<1>5. CASE Opens(Main, << >>)
  <2>1. Usable(Main)
    BY <1>5 DEF Opens
  <2>2. /\ Main \in DOMAIN has /\ Fine(has, Main)
        /\ has[Main] = Content(Main) /\ Parse(has[Main]).ok
    BY <1>2, <2>1, ContentsAre
  <2>3. PICK x : x = FileCall(Main, Parse(has[Main]).dirs)
    OBVIOUS
  <2>4. calls' = <<x>> /\ visited' = {Main} /\ phase' = "loading"
    BY <1>1, <1>5, <2>2, <2>3 DEF Opens
  <2>5. Len(calls') = 1 /\ calls'[1] = x
    BY <2>4
  <2>6. PICK n : n = calls'
    OBVIOUS
  <2>7. Means(has, n, 1, {Main})
    BY <1>3, <2>2, <2>3, <2>5, <2>6, MeansStarted
  <2>8. Means(has, calls', Len(calls'), visited')
    BY <2>4, <2>5, <2>6, <2>7, Zenon
  <2> QED
    BY <2>4, <2>8, NowLoading
<1> QED
  BY <1>1, <1>4, <1>5, OpenFileIs

\* The calls before a step, and the two ends of the stack after it.
LEMMA LoadingIs ==
  ASSUME LoadInv, phase = "loading", NEW has, Undisturbed(has)
  PROVE  /\ Len(calls) \in Nat \ {0} /\ calls[Len(calls)] = Top /\ Top \in Calls
         /\ Means(has, calls, Len(calls), visited)
BY TopIs DEF Undisturbed

LEMMA TopReplaced ==
  ASSUME LoadInv, phase = "loading", NEW y
  PROVE  /\ Len(Append(Below, y)) = Len(calls)
         /\ Append(Below, y)[Len(calls)] = y
         /\ Upto(calls, Append(Below, y), Len(calls))
<1>1. /\ Len(calls) \in Nat \ {0} /\ Below \in Seq(Calls) /\ Len(Below) = Len(calls) - 1
      /\ \A i \in 1..(Len(calls) - 1) : Below[i] = calls[i]
  BY TopIs
<1>2. PICK b, k : b = Below /\ k = Len(calls)
  OBVIOUS
<1>3. Len(Append(b, y)) = k /\ Append(b, y)[k] = y
  BY <1>1, <1>2
<1>4. ASSUME NEW l \in Nat, l >= 1, l < k PROVE Append(b, y)[l] = calls[l]
  <2>1. l \in 1..(k - 1) /\ l \in 1..Len(b)
    BY <1>1, <1>2, <1>4
  <2>2. Append(b, y)[l] = b[l]
    BY <1>1, <1>2, <2>1
  <2> QED
    BY <1>1, <1>2, <2>1, <2>2
<1> QED
  BY <1>2, <1>3, <1>4 DEF Upto

LEMMA TopPushed ==
  ASSUME LoadInv, phase = "loading", NEW y, NEW x
  PROVE  /\ Len(Append(Append(Below, y), x)) = Len(calls) + 1
         /\ Append(Append(Below, y), x)[Len(calls) + 1] = x
         /\ Append(Append(Below, y), x)[Len(calls)] = y
         /\ Upto(calls, Append(Append(Below, y), x), Len(calls))
<1>1. /\ Len(calls) \in Nat \ {0} /\ Below \in Seq(Calls)
      /\ Len(Append(Below, y)) = Len(calls) /\ Append(Below, y)[Len(calls)] = y
      /\ Upto(calls, Append(Below, y), Len(calls))
  BY TopIs, TopReplaced
<1>2. PICK r, k : r = Append(Below, y) /\ k = Len(calls)
  OBVIOUS
<1>3. r \in Seq(Calls \cup {y}) /\ Len(r) = k /\ k \in Nat \ {0}
  <2>1. Below \in Seq(Calls \cup {y})
    BY <1>1, SeqMonotonic
  <2> QED
    BY <1>1, <1>2, <2>1
<1>4. /\ Len(Append(r, x)) = k + 1 /\ Append(r, x)[k + 1] = x
      /\ \A l \in 1..k : Append(r, x)[l] = r[l]
  BY <1>3
<1>5. k \in 1..k /\ \A l \in Nat : l >= 1 /\ l < k => l \in 1..k
  BY <1>3
<1>6. Append(r, x)[k] = y
  BY <1>1, <1>2, <1>4, <1>5
<1>7. Upto(calls, Append(r, x), k)
  BY <1>1, <1>2, <1>4, <1>5 DEF Upto
<1> QED
  BY <1>2, <1>4, <1>6, <1>7

\* A call on top, made for the directive that was taken.
LEMMA PushMeans ==
  ASSUME LoadInv, NEW has, Library(has), Undisturbed(has), phase = "loading", Top.todo # << >>,
         NEW x, NEW w, DOMAIN has \ w = Within(x, DOMAIN has \ visited),
         CallFor(has, x, Head(Top.todo), DOMAIN has \ visited),
         NEW n, n = Append(Append(Below, Taken), x)
  PROVE  Means(has, n, Len(n), w)
<1>1. PICK k : k = Len(calls)
  OBVIOUS
<1>2. PICK c : c = calls
  OBVIOUS
<1>3. k \in Nat \ {0} /\ c[k] = Top /\ Top \in Calls /\ Means(has, c, k, visited)
  BY <1>1, <1>2, LoadingIs
<1>4. Taken.kind = Top.kind /\ Taken.of = Top.of /\ Taken.todo = Tail(Top.todo) /\ Taken.out = Top.out
  BY NextDirective
<1>5. Len(n) = k + 1 /\ n[k + 1] = x /\ n[k] = Taken /\ Upto(c, n, k)
  BY <1>1, <1>2, TopPushed
<1>6. Alike(n[k], c[k]) /\ n[k].todo = Tail(c[k].todo) /\ n[k].out = c[k].out
  BY <1>3, <1>4, <1>5 DEF Alike
<1>7. PICK v : v = visited
  OBVIOUS
<1>8. /\ Means(has, c, k, v) /\ c[k] \in Calls /\ c[k].todo # << >>
      /\ DOMAIN has \ w = Within(n[k + 1], DOMAIN has \ v)
      /\ CallFor(has, n[k + 1], Head(c[k].todo), DOMAIN has \ v)
  BY <1>3, <1>5, <1>7
<1>9. Means(has, n, k + 1, w)
  BY <1>3, <1>5, <1>6, <1>8, MeansPushed
<1> QED
  BY <1>5, <1>9

LEMMA IncludeMeans ==
  ASSUME LoadInv, NEW has, has = Contents, Undisturbed(has), ExpandInclude
  PROVE  Undisturbed(has)'
<1>1. LoadTypes /\ phase = "loading" /\ Top.todo # << >>
  BY DEF LoadInv, ExpandInclude
<1>2. Library(has)
  BY <1>1, ContentsAre
<1>3. PICK d \in Directives : d = Head(Top.todo)
  BY <1>1, NextDirective
<1>4. /\ d.name = "include"
      /\ \/ d.args = << >> /\ Fail
         \/ d.args # << >> /\ OpenFile(d.args[1], Append(Below, Taken))
  BY <1>3 DEF ExpandInclude, Taken
<1>5. PICK f : f = d.args[1]
  OBVIOUS
<1>6. ASSUME Fail, d.args = << >> \/ ~(Usable(f) /\ Fresh(f))
      PROVE  Undisturbed(has)'
  <2>1. ~Sound(has, Main)
    <3> SUFFICES ASSUME Sound(has, Main) PROVE FALSE
      OBVIOUS
    <3>1. PICK c, k, v : c = calls /\ k = Len(calls) /\ v = visited
      OBVIOUS
    <3>2. k \in Nat \ {0} /\ c[k] = Top /\ c[k] \in Calls /\ Means(has, c, k, v)
      BY <1>1, <3>1, LoadingIs
    <3>3. c[k].todo # << >> /\ d = Head(c[k].todo)
      BY <1>1, <1>3, <3>2
    <3>4. d.args # << >> /\ f \in DOMAIN has \ v /\ Fine(has, f)
      BY <1>2, <1>4, <1>5, <3>2, <3>3, SoundInclude
    <3>5. Usable(f) /\ Fresh(f)
      BY <1>1, <3>1, <3>4, ContentsAre DEF Fresh
    <3> QED
      BY <1>6, <3>4, <3>5
  <2> QED
    BY <1>6, <2>1, NowFailed
<1>7. ASSUME d.args # << >>, Opens(f, Append(Below, Taken))
      PROVE  Undisturbed(has)'
  <2>1. Usable(f) /\ f \notin visited
    BY <1>7 DEF Opens, Fresh
  <2>2. f \in DOMAIN has /\ Fine(has, f) /\ has[f] = Content(f) /\ Parse(has[f]).ok
    BY <1>1, <2>1, ContentsAre
  <2>3. PICK x, a, w : /\ x = FileCall(f, Parse(has[f]).dirs) /\ a = DOMAIN has \ visited
                       /\ w = visited \cup {f}
    OBVIOUS
  <2>4. a \in SUBSET DOMAIN has /\ f \in a
    BY <2>1, <2>2, <2>3
  <2>5. FileName(d) = f
    BY <1>5, <1>7 DEF FileName
  <2>6. CallFor(has, x, d, a)
    BY <1>2, <1>4, <2>2, <2>3, <2>4, <2>5, FileFor
  <2>7. Within(x, a) = DOMAIN has \ w
    <3>1. x.kind = "file" /\ x.of = f
      BY <2>3, FileCallFields
    <3> QED
      BY <2>3, <3>1 DEF Within
  <2>8. calls' = Append(Append(Below, Taken), x) /\ visited' = w /\ phase' = "loading"
    BY <1>7, <2>2, <2>3 DEF Opens
  <2>9. PICK n : n = Append(Append(Below, Taken), x)
    OBVIOUS
  <2>10. Means(has, n, Len(n), w)
    BY <1>1, <1>2, <1>3, <2>3, <2>6, <2>7, <2>9, PushMeans
  <2> QED
    BY <2>8, <2>9, <2>10, NowLoading
<1>8. \/ Fail /\ (d.args = << >> \/ ~(Usable(f) /\ Fresh(f)))
      \/ d.args # << >> /\ Opens(f, Append(Below, Taken))
  BY <1>4, <1>5, OpenFileIs
<1> QED
  BY <1>6, <1>7, <1>8

LEMMA DirectiveMeans ==
  ASSUME LoadInv, NEW has, has = Contents, Undisturbed(has), ExpandDirective
  PROVE  Undisturbed(has)'
<1>1. phase = "loading" /\ Top.todo # << >> /\ phase' = phase /\ visited' = visited
  BY ExpandDirectiveIs
<1>2. Library(has)
  BY ContentsAre DEF LoadInv
<1>3. PICK d \in Directives : d = Head(Top.todo)
  BY <1>1, NextDirective
<1>4. /\ d.name # "include"
      /\ d.ends = ";" => calls' = Append(Below, Moved)
      /\ d.ends # ";" => calls' = Append(Append(Below, Taken), BlockCall(d, d.block))
  BY <1>3, ExpandDirectiveIs
<1>5. PICK v : v = visited
  OBVIOUS
<1>6. ASSUME NEW n, n = calls', Means(has, n, Len(n), v)
      PROVE  Undisturbed(has)'
  BY <1>1, <1>5, <1>6, NowLoading
<1>7. PICK n : n = calls'
  OBVIOUS
<1>8. CASE d.ends = ";"
  <2>1. n = Append(Below, Moved)
    BY <1>4, <1>7, <1>8
  <2>2. PICK c, k : c = calls /\ k = Len(calls)
    OBVIOUS
  <2>3. k \in Nat \ {0} /\ c[k] = Top /\ c[k] \in Calls /\ Means(has, c, k, v)
    BY <1>1, <1>5, <2>2, LoadingIs
  <2>4. /\ Moved.kind = Top.kind /\ Moved.of = Top.of
        /\ Moved.todo = Tail(Top.todo) /\ Moved.out = Append(Top.out, d)
    BY <1>1, <1>3, MovedIs
  <2>5. Len(n) = k /\ n[k] = Moved /\ Upto(c, n, k)
    BY <1>1, <2>1, <2>2, TopReplaced
  <2>6. /\ Alike(n[k], c[k]) /\ n[k].todo = Tail(c[k].todo) /\ n[k].out = Append(c[k].out, d)
        /\ c[k].todo # << >> /\ d = Head(c[k].todo)
    BY <1>1, <1>3, <2>3, <2>4, <2>5 DEF Alike
  <2>7. Means(has, n, k, v)
    BY <1>2, <1>4, <1>8, <2>3, <2>5, <2>6, MeansMoved
  <2> QED
    BY <1>6, <1>7, <2>5, <2>7
<1>9. CASE d.ends # ";"
  <2>1. d \in Blocky
    BY <1>9, DirectiveFields DEF Blocky
  <2>2. PICK x, a : x = BlockCall(d, d.block) /\ a = DOMAIN has \ v
    OBVIOUS
  <2>3. CallFor(has, x, d, a)
    BY <1>4, <2>1, <2>2, BlockFor
  <2>4. Within(x, a) = a
    <3>1. x.kind = "block"
      BY <2>2, BlockCallFields
    <3> QED
      BY <3>1 DEF Within
  <2>5. n = Append(Append(Below, Taken), x)
    BY <1>4, <1>7, <1>9, <2>2
  <2>6. Means(has, n, Len(n), v)
    BY <1>1, <1>2, <1>3, <1>5, <2>2, <2>3, <2>4, <2>5, PushMeans
  <2> QED
    BY <1>6, <1>7, <2>6
<1> QED
  BY <1>8, <1>9

LEMMA TopReturned ==
  ASSUME LoadInv, phase = "loading", Below # << >>, NEW y
  PROVE  \E j \in Nat \ {0} :
           /\ Len(calls) = j + 1 /\ calls[j] = Caller
           /\ Len(Append(Front(Below), y)) = j /\ Append(Front(Below), y)[j] = y
           /\ Upto(calls, Append(Front(Below), y), j)
<1>1. /\ Len(calls) \in Nat \ {0} /\ Below \in Seq(Calls) /\ Len(Below) = Len(calls) - 1
      /\ \A i \in 1..(Len(calls) - 1) : Below[i] = calls[i]
  BY TopIs
<1>2. PICK b, c, j : b = Below /\ c = calls /\ j = Len(Below)
  OBVIOUS
<1>3. b \in Seq(Calls) /\ b # << >> /\ j = Len(b)
  BY <1>1, <1>2
<1>4. /\ j \in Nat \ {0} /\ Front(b) \in Seq(Calls) /\ Len(Front(b)) = j - 1
      /\ \A i \in 1..(j - 1) : Front(b)[i] = b[i]
  BY <1>3, FrontLast
<1>5. Len(c) = j + 1 /\ \A i \in 1..j : b[i] = c[i]
  BY <1>1, <1>2, <1>4
<1>6. c[j] = Caller
  <2>1. j \in 1..j
    BY <1>4
  <2> QED
    BY <1>2, <1>3, <1>5, <2>1 DEF Caller, Last
<1>7. PICK m : m = Front(b)
  OBVIOUS
<1>8. Len(Append(m, y)) = j /\ Append(m, y)[j] = y
  BY <1>4, <1>7
<1>9. ASSUME NEW l \in Nat, l >= 1, l < j PROVE Append(m, y)[l] = c[l]
  <2>1. l \in 1..(j - 1) /\ l \in 1..Len(m) /\ l \in 1..j
    BY <1>4, <1>7, <1>9
  <2>2. Append(m, y)[l] = m[l]
    BY <1>4, <1>7, <2>1
  <2> QED
    BY <1>4, <1>5, <1>7, <2>1, <2>2
<1>10. Upto(c, Append(m, y), j)
  BY <1>9 DEF Upto
<1> QED
  BY <1>2, <1>4, <1>5, <1>6, <1>7, <1>8, <1>10

LEMMA ReturnMeans ==
  ASSUME LoadInv, NEW has, has = Contents, Undisturbed(has), Return
  PROVE  Undisturbed(has)'
<1>1. phase = "loading" /\ Top.todo = << >>
  BY ReturnIs
<1>2. Library(has)
  BY ContentsAre DEF LoadInv
<1>3. Top \in Calls /\ Top = calls[Len(calls)] /\ Means(has, calls, Len(calls), visited)
  BY <1>1, LoadingIs
<1>4. CASE Below = << >>
  <2>1. tree' = Result /\ phase' = "loaded"
    BY <1>4, ReturnIs
  <2>2. Len(calls) = 1
    <3>1. Len(Below) = Len(calls) - 1 /\ Len(calls) \in Nat
      BY <1>1, TopIs
    <3>2. Len(Below) = 0
      BY <1>4
    <3> QED
      BY <3>1, <3>2
  <2>3. PICK c, v : c = calls /\ v = visited
    OBVIOUS
  <2>4. Means(has, c, 1, v) /\ c[1] = Top /\ c[1] \in Calls /\ c[1].todo = << >>
    BY <1>1, <1>3, <2>2, <2>3
  <2>5. c[1].kind = "file" /\ Sound(has, Main) /\ Bare(c[1].out) = Whole(has)
    BY <1>2, <2>4, MeansDone
  <2>6. PICK r \in Seq(Directives) : r = c[1].out
    BY <2>4, CallFields
  <2>7. tree' = r
    BY <2>1, <2>4, <2>5, <2>6 DEF Result
  <2>8. ReadsAs(r, Whole(has))
    BY <2>5, <2>6, ReadsTxt DEF Bare
  <2>9. Right(has, tree')
    BY <2>5, <2>7, <2>8 DEF Right
  <2> QED
    BY <2>1, <2>9 DEF Undisturbed, Loaded
<1>5. CASE Below # << >>
  <2>1. /\ calls' = Append(Front(Below), Returned) /\ phase' = "loading"
        /\ Top.kind = "file" => visited' = visited \ {Top.of}
        /\ Top.kind # "file" => visited' = visited
    BY <1>1, <1>5, ReturnIs
  <2>2. /\ Caller \in Calls /\ Result \in Seq(Directives)
        /\ Returned.kind = Caller.kind /\ Returned.of = Caller.of
        /\ Returned.todo = Caller.todo /\ Returned.out = Caller.out \o Result
    BY <1>1, <1>5, CallerIs
  <2>3. PICK c, n, x, r, v, w : /\ c = calls /\ n = calls' /\ x = Top /\ r = Result
                                /\ v = visited /\ w = visited'
    OBVIOUS
  <2>4. PICK j \in Nat \ {0} :
          /\ Len(c) = j + 1 /\ c[j] = Caller
          /\ Len(n) = j /\ n[j] = Returned /\ Upto(c, n, j)
    BY <1>1, <1>5, <2>1, <2>3, TopReturned
  <2>5. Means(has, c, j + 1, v) /\ c[j + 1] = x /\ x \in Calls /\ c[j] \in Calls
    BY <1>3, <2>2, <2>3, <2>4
  <2>6. /\ Alike(n[j], c[j]) /\ n[j].todo = c[j].todo /\ n[j].out = c[j].out \o r
        /\ r \in Seq(Directives) /\ x.todo = << >>
    BY <1>1, <2>2, <2>3, <2>4 DEF Alike
  <2>7. Bare(r) = Held(x, Bare(x.out))
    BY <1>3, <2>3, ResultText
  <2>8. ASSUME NEW A \in SUBSET DOMAIN has, MayEnter(x, A), Within(x, A) = DOMAIN has \ v
        PROVE  A = DOMAIN has \ w
    <3>1. CASE x.kind = "file"
      <4>1. x.of \in A /\ A \ {x.of} = DOMAIN has \ v /\ w = v \ {x.of}
        BY <2>1, <2>3, <2>8, <3>1 DEF MayEnter, Within
      <4> QED
        BY <4>1
    <3>2. CASE x.kind # "file"
      BY <2>1, <2>3, <2>8, <3>2 DEF Within
    <3> QED
      BY <3>1, <3>2
  <2>9. Means(has, n, j, w)
    BY <1>2, <2>4, <2>5, <2>6, <2>7, <2>8, MeansReturned
  <2>10. Means(has, calls', Len(calls'), visited')
    BY <2>3, <2>4, <2>9
  <2> QED
    BY <2>1, <2>10, NowLoading
<1> QED
  BY <1>4, <1>5

\* Who edits the configuration disturbs the load.
LEMMA EditMeans ==
  ASSUME LoadInv, NEW f \in Files, EditConfig(f)
  PROVE  LoadMeans'
<1>1. touched \in Nat /\ touched' = touched + 1
  BY DEF EditConfig, LoadInv, LoadTypes
<1>2. touched' # 0
  BY <1>1
<1> QED
  BY <1>2 DEF LoadMeans

LEMMA LoadMeansKept ==
  ASSUME LoadInv, LoadMeans, StartLoad \/ ExpandInclude \/ ExpandDirective \/ Return
  PROVE  LoadMeans'
<1>1. disk' = disk /\ touched' = touched
  <2>1. CASE StartLoad \/ ExpandInclude
    BY <2>1 DEF StartLoad, ExpandInclude, OpenFile, Fail
  <2>2. CASE ExpandDirective \/ Return
    BY <2>2, ExpandDirectiveIs, ReturnIs
  <2> QED
    BY <2>1, <2>2
<1>2. ASSUME NEW has, has = Contents, Undisturbed(has) PROVE Undisturbed(has)'
  BY <1>2, StartMeans, IncludeMeans, DirectiveMeans, ReturnMeans
<1> QED
  BY <1>1, <1>2, MeansLater

\* Accepting the tree, refusing it or serving it changes nothing in the load.
LEMMA AcceptMeans ==
  ASSUME LoadMeans, phase \in {"loaded", "built"},
         phase' \in {"refused", "built", "serving"}, UNCHANGED <<disk, calls, visited, tree, touched>>
  PROVE  LoadMeans'
<1>1. ASSUME NEW has, Undisturbed(has) PROVE Undisturbed(has)'
  BY <1>1 DEF Undisturbed, Loaded
<1> QED
  BY <1>1, MeansLater

LEMMA LoadMeansSame ==
  ASSUME LoadMeans, UNCHANGED loadVars
  PROVE  LoadMeans'
<1>1. UNCHANGED <<disk, phase, calls, visited, tree, touched>>
  BY DEF loadVars
<1>2. ASSUME NEW has, Undisturbed(has) PROVE Undisturbed(has)'
  BY <1>1, <1>2 DEF Undisturbed, Loaded
<1> QED
  BY <1>1, <1>2, MeansLater
=============================================================================
