--------------------------- MODULE LimitReqProofs ---------------------------
(***************************************************************************)
(* Proofs about LimitReq, for any number of requests, keys and bursts, any *)
(* rate and any zone size.                                                 *)
(*                                                                         *)
(* AdmissionBound is not inductive: it says nothing about the tokens still *)
(* in the bucket.  Ledger adds them, and measures time by the bucket's own *)
(* `last` instead of the clock; Floor is its counterpart from below, from  *)
(* which BurstGranted follows.                                             *)
(***************************************************************************)
EXTENDS LimitReq, FiniteSetTheorems, TLAPS

\* The tokens of k's bucket, if there is one.
Held(k) == IF k \in buckets THEN tokens[k] ELSE 0

\* A request inside allow() has a key, a burst and a clock reading of the past.
Timed ==
  \A r \in Requests : phase[r] = "timed" =>
    client[r] \in Keys /\ burst[r] \in Bursts /\ stamp[r] <= now

LastPast == \A k \in Keys : last[k] <= now

Ledger ==
  \A k \in Keys, b \in Bursts : (\A c \in Bursts : c <= b) =>
    admitted[k] * Cost + Held(k)
      <= created[k] * Capacity(b) + (last[k] + regress[k]) * Refill

Floor ==
  \A k \in buckets, b \in Bursts : (\A c \in Bursts : b <= c) =>
    tokens[k] + admitted[k] * Cost >= Capacity(b)

LInv == RateTypeOK /\ Timed /\ LastPast /\ Ledger /\ Floor /\ BurstGranted

-----------------------------------------------------------------------------
LEMMA AddOne == \A a, c \in Nat : (a + 1) * c = a * c + c
OBVIOUS

LEMMA Distribute == \A a, c, d \in Nat : (a + d) * c = a * c + d * c
OBVIOUS

LEMMA MulNat == \A a, c \in Nat : a * c \in Nat
OBVIOUS

LEMMA Monotone == \A a, b, c \in Nat : a <= b => a * c <= b * c
<1> SUFFICES ASSUME NEW a \in Nat, NEW b \in Nat, NEW c \in Nat, a <= b
             PROVE  a * c <= b * c
  OBVIOUS
<1>1. PICK d \in Nat : b = a + d
  <2>1. b - a \in Nat /\ b = a + (b - a)
    OBVIOUS
  <2> QED BY <2>1
<1>2. b * c = a * c + d * c /\ d * c \in Nat /\ a * c \in Nat
  BY <1>1, Distribute, MulNat
<1> QED BY <1>2

\* Capacity of a burst, and that a larger burst has a larger capacity.
LEMMA CapacityNat ==
  \A b \in Bursts : Capacity(b) \in Nat /\ b \in Nat
BY LimitReqAssumption, MulNat DEF Capacity

LEMMA CapacityMonotone ==
  ASSUME NEW b \in Bursts, NEW c \in Bursts, b <= c
  PROVE  Capacity(b) <= Capacity(c)
<1>1. b + 1 \in Nat /\ c + 1 \in Nat /\ b + 1 <= c + 1 /\ Cost \in Nat
  BY LimitReqAssumption
<1> QED BY <1>1, Monotone DEF Capacity

\* What allow() finds is a number of tokens between the stored ones (or the
\* capacity) and the refilled ones.
LEMMA FoundBounds ==
  ASSUME NEW k \in Keys, NEW s \in Nat, NEW b \in Bursts, RateTypeOK
  PROVE  /\ Found(k, s, b) \in Nat
         /\ Excess(s, last[k]) \in Nat
         /\ Excess(last[k], s) \in Nat
         /\ s + Excess(last[k], s) = last[k] + Excess(s, last[k])
         /\ Found(k, s, b) <= Capacity(b)
         /\ k \in buckets =>
              Found(k, s, b) <= tokens[k] + Excess(s, last[k]) * Refill
         /\ k \in buckets =>
              Found(k, s, b) >= tokens[k] \/ Found(k, s, b) = Capacity(b)
         /\ k \notin buckets => Found(k, s, b) = Capacity(b)
<1>1. last[k] \in Nat /\ tokens[k] \in Nat
  BY DEF RateTypeOK
<1>2. /\ Excess(s, last[k]) \in Nat
      /\ Excess(last[k], s) \in Nat
      /\ s + Excess(last[k], s) = last[k] + Excess(s, last[k])
  BY <1>1 DEF Excess
<1>3. Excess(s, last[k]) * Refill \in Nat
  BY <1>2, MulNat, LimitReqAssumption
<1>4. Capacity(b) \in Nat
  BY CapacityNat
<1>5. PICK e \in Nat : e = Excess(s, last[k]) * Refill
  BY <1>3
<1>6. PICK c \in Nat : c = Capacity(b)
  BY <1>4
<1>7. Found(k, s, b) = IF k \in buckets THEN Least(tokens[k] + e, c) ELSE c
  BY <1>5, <1>6 DEF Found
<1>8. Least(tokens[k] + e, c) \in Nat /\ Least(tokens[k] + e, c) <= c
      /\ Least(tokens[k] + e, c) <= tokens[k] + e
      /\ (Least(tokens[k] + e, c) >= tokens[k] \/ Least(tokens[k] + e, c) = c)
  BY <1>1, <1>5, <1>6 DEF Least
<1> QED BY <1>2, <1>5, <1>6, <1>7, <1>8

-----------------------------------------------------------------------------
LEMMA InitLInv == RateInit => LInv
<1> SUFFICES ASSUME RateInit PROVE LInv
  OBVIOUS
<1>1. RateTypeOK /\ Timed /\ LastPast /\ Floor /\ BurstGranted
  BY DEF RateInit, RateTypeOK, Timed, LastPast, Floor, BurstGranted
<1>2. Ledger
  <2>1. 0 * Cost = 0 /\ (0 + 0) * Refill = 0
    BY LimitReqAssumption
  <2>2. \A b \in Bursts : 0 * Capacity(b) = 0
    BY CapacityNat
  <2> QED BY <2>1, <2>2 DEF RateInit, Ledger, Held
<1> QED BY <1>1, <1>2 DEF LInv

LEMMA ReadClockLInv ==
  ASSUME LInv, NEW r \in Requests, ReadClock(r)
  PROVE  LInv'
<1> USE DEF LInv
<1>1. PICK k \in Keys, b \in Bursts :
        client' = [client EXCEPT ![r] = k] /\ burst' = [burst EXCEPT ![r] = b]
  BY DEF ReadClock
<1>2. UNCHANGED <<now, buckets, tokens, last, admitted, refused, created, regress>>
  BY DEF ReadClock
<1>3. RateTypeOK'
  BY <1>1, LimitReqAssumption DEF ReadClock, RateTypeOK
<1>4. Timed'
  BY <1>1 DEF ReadClock, Timed, RateTypeOK
<1>5. LastPast' /\ Floor' /\ BurstGranted'
  BY <1>2 DEF LastPast, Floor, BurstGranted
<1>6. Ledger'
  BY <1>2 DEF Ledger, Held
<1> QED BY <1>3, <1>4, <1>5, <1>6

LEMMA TickLInv ==
  ASSUME LInv, Tick
  PROVE  LInv'
<1> USE DEF LInv
<1>1. UNCHANGED <<buckets, tokens, last, phase, client, burst, stamp, admitted, refused,
                  created, regress>> /\ now' = now + 1 /\ now \in Nat
  BY DEF Tick, RateTypeOK
<1>2. RateTypeOK'
  BY <1>1 DEF RateTypeOK
<1>3. Timed'
  BY <1>1 DEF Timed, RateTypeOK
<1>4. LastPast'
  BY <1>1 DEF LastPast, RateTypeOK
<1>5. Floor' /\ BurstGranted'
  BY <1>1 DEF Floor, BurstGranted
<1>6. Ledger'
  BY <1>1 DEF Ledger, Held
<1> QED BY <1>2, <1>3, <1>4, <1>5, <1>6

LEMMA DecideLInv ==
  ASSUME LInv, NEW r \in Requests, Decide(r)
  PROVE  LInv'
<1>1. PICK k \in Keys : k = client[r]
  BY DEF Decide, LInv, Timed
<1>2. PICK s \in Nat : s = stamp[r] /\ s <= now
  BY DEF Decide, LInv, Timed, RateTypeOK
<1>3. PICK bb \in Bursts : bb = burst[r]
  BY DEF Decide, LInv, Timed
<1>4. PICK gone \in EvictedBuckets(k) : buckets' = (buckets \ gone) \cup {k}
  BY <1>1 DEF Decide
<1>5. PICK f \in Nat : f = Found(k, s, bb)
  BY <1>2, FoundBounds DEF LInv
<1>6. PICK e \in Nat : e = Excess(s, last[k])
  BY <1>2, FoundBounds DEF LInv
<1>7. PICK x \in Nat : x = Excess(last[k], s)
  BY <1>2, FoundBounds DEF LInv
<1>8. /\ s + x = last[k] + e
      /\ f <= Capacity(bb)
      /\ k \in buckets => f <= tokens[k] + e * Refill
      /\ k \in buckets => f >= tokens[k] \/ f = Capacity(bb)
      /\ k \notin buckets => f = Capacity(bb)
  BY <1>2, <1>5, <1>6, <1>7, FoundBounds DEF LInv
<1>9. /\ phase[r] = "timed"
      /\ last' = [last EXCEPT ![k] = s]
      /\ created' = [created EXCEPT ![k] = IF k \in buckets THEN @ ELSE @ + 1]
      /\ regress' = [regress EXCEPT ![k] = @ + x]
      /\ UNCHANGED <<now, client, burst, stamp>>
  BY <1>1, <1>2, <1>7 DEF Decide
<1>10. \/ /\ f >= Cost
          /\ tokens' = [tokens EXCEPT ![k] = f - Cost]
          /\ admitted' = [admitted EXCEPT ![k] = @ + 1]
          /\ phase' = [phase EXCEPT ![r] = "admitted"]
          /\ refused' = refused
       \/ /\ f < Cost
          /\ tokens' = [tokens EXCEPT ![k] = f]
          /\ refused' = refused \cup {k}
          /\ phase' = [phase EXCEPT ![r] = "denied"]
          /\ admitted' = admitted
  BY <1>1, <1>2, <1>3, <1>5 DEF Decide
<1>11. Cost \in Nat /\ Cost > 0 /\ Refill \in Nat
  BY LimitReqAssumption
<1>12. RateTypeOK
  BY DEF LInv
<1>13. RateTypeOK'
  <2>1. now' \in Nat /\ buckets' \subseteq Keys /\ last' \in [Keys -> Nat]
        /\ created' \in [Keys -> Nat] /\ regress' \in [Keys -> Nat]
        /\ client' \in [Requests -> Keys \cup {None}]
        /\ burst' \in [Requests -> Nat] /\ stamp' \in [Requests -> Nat]
    BY <1>4, <1>9, <1>12 DEF RateTypeOK
  <2>2. tokens' \in [Keys -> Nat] /\ admitted' \in [Keys -> Nat]
        /\ refused' \subseteq Keys
    BY <1>10, <1>11, <1>12 DEF RateTypeOK
  <2>3. phase' \in [Requests -> {"new", "timed", "admitted", "denied"}]
    BY <1>10, <1>12 DEF RateTypeOK
  <2> QED BY <2>1, <2>2, <2>3 DEF RateTypeOK
<1>14. Timed'
  BY <1>9, <1>10, <1>12 DEF Timed, RateTypeOK, LInv
<1>15. LastPast'
  BY <1>2, <1>9, <1>12 DEF LastPast, RateTypeOK, LInv
<1>16. admitted'[k] * Cost + tokens'[k] = admitted[k] * Cost + f
  <2>1. admitted[k] \in Nat /\ admitted[k] * Cost \in Nat
    BY <1>11, <1>12, MulNat DEF RateTypeOK
  <2>2. (admitted[k] + 1) * Cost = admitted[k] * Cost + Cost
    BY <1>11, <2>1, AddOne
  <2>3. DOMAIN admitted = Keys /\ DOMAIN tokens = Keys
    BY <1>12 DEF RateTypeOK
  <2>4. CASE f >= Cost
    <3>1. admitted'[k] = admitted[k] + 1 /\ tokens'[k] = f - Cost
      BY <1>10, <1>11, <2>3, <2>4
    <3> QED BY <3>1, <2>1, <2>2, <1>11
  <2>5. CASE f < Cost
    <3>1. admitted'[k] = admitted[k] /\ tokens'[k] = f
      BY <1>10, <1>11, <2>3, <2>5
    <3> QED BY <3>1
  <2> QED BY <2>4, <2>5, <1>11
<1>17. k \in buckets' /\ \A d \in Keys \ {k} : d \in buckets' => d \in buckets
  BY <1>4
<1>18. \A d \in Keys \ {k} :
         /\ tokens'[d] = tokens[d] /\ admitted'[d] = admitted[d]
         /\ last'[d] = last[d] /\ created'[d] = created[d] /\ regress'[d] = regress[d]
  BY <1>9, <1>10, <1>12 DEF RateTypeOK
<1>19. Ledger'
  <2> SUFFICES ASSUME NEW d \in Keys, NEW b \in Bursts, \A c \in Bursts : c <= b
               PROVE  (admitted[d] * Cost + Held(d)
                        <= created[d] * Capacity(b) + (last[d] + regress[d]) * Refill)'
    BY DEF Ledger
  <2>1. admitted[d] * Cost + Held(d)
          <= created[d] * Capacity(b) + (last[d] + regress[d]) * Refill
    BY DEF LInv, Ledger
  <2>2. /\ admitted[d] \in Nat /\ created[d] \in Nat /\ last[d] \in Nat
        /\ regress[d] \in Nat /\ tokens[d] \in Nat
    BY <1>12 DEF RateTypeOK
  <2>3. PICK cap \in Nat : cap = Capacity(b)
    BY CapacityNat
  <2>4. Capacity(bb) <= cap /\ Capacity(bb) \in Nat
    BY <2>3, CapacityMonotone, CapacityNat
  <2>5. CASE d # k
    <3>1. Held(d)' <= Held(d) /\ Held(d) \in Nat /\ Held(d)' \in Nat
      BY <1>17, <1>18, <2>2, <2>5 DEF Held
    <3>2. /\ admitted'[d] = admitted[d] /\ created'[d] = created[d]
          /\ last'[d] = last[d] /\ regress'[d] = regress[d]
      BY <1>18, <2>5
    <3>3. PICK u \in Nat : u = admitted[d] * Cost
      BY <1>11, <2>2, MulNat
    <3>4. PICK v \in Nat : v = created[d] * cap
      BY <2>2, MulNat
    <3>5. PICK w \in Nat : w = (last[d] + regress[d]) * Refill
      BY <1>11, <2>2, MulNat
    <3>6. u + Held(d)' <= v + w
      BY <2>1, <2>3, <3>1, <3>3, <3>4, <3>5
    <3> QED BY <3>2, <3>3, <3>4, <3>5, <3>6, <2>3 DEF Capacity
  <2>6. CASE d = k
    <3>1. /\ last'[k] = s /\ regress'[k] = regress[k] + x
          /\ created'[k] = IF k \in buckets THEN created[k] ELSE created[k] + 1
      BY <1>9, <1>12 DEF RateTypeOK
    <3>2. Held(k)' = tokens'[k]
      BY <1>17 DEF Held
    <3>3. PICK u \in Nat : u = admitted[k] * Cost
      BY <1>11, <2>2, <2>6, MulNat
    <3>4. PICK v \in Nat : v = created[k] * cap
      BY <2>2, <2>6, MulNat
    <3>5. PICK w \in Nat : w = (last[k] + regress[k]) * Refill
      BY <1>11, <2>2, <2>6, MulNat
    <3>6. PICK g \in Nat : g = e * Refill
      BY <1>11, MulNat
    <3>7. (last'[k] + regress'[k]) * Refill = w + g
      <4>1. last'[k] + regress'[k] = (last[k] + regress[k]) + e
        BY <3>1, <1>8, <2>2, <2>6
      <4> QED BY <4>1, <3>5, <3>6, <1>11, <2>2, <2>6, Distribute
    <3>8. created'[k] * cap = IF k \in buckets THEN v ELSE v + cap
      BY <3>1, <3>4, <2>2, <2>6, AddOne
    <3>9. admitted'[k] * Cost + tokens'[k] = u + f
      BY <1>16, <3>3
    <3>10. u + Held(k) <= v + w
      BY <2>1, <2>3, <2>6, <3>3, <3>4, <3>5
    <3>11. CASE k \in buckets
      <4>1. Held(k) = tokens[k] /\ f <= tokens[k] + g /\ tokens[k] \in Nat
        BY <3>11, <1>8, <3>6, <2>2, <2>6 DEF Held
      <4>2. u + f <= v + (w + g)
        BY <4>1, <3>10
      <4> QED BY <4>2, <3>2, <3>7, <3>8, <3>9, <3>11, <2>3, <2>6 DEF Capacity
    <3>12. CASE k \notin buckets
      <4>1. Held(k) = 0 /\ f <= cap
        BY <3>12, <1>8, <2>4 DEF Held
      <4>2. u + f <= (v + cap) + (w + g)
        BY <4>1, <3>10
      <4> QED BY <4>2, <3>2, <3>7, <3>8, <3>9, <3>12, <2>3, <2>6 DEF Capacity
    <3> QED BY <3>11, <3>12
  <2> QED BY <2>5, <2>6
<1>20. Floor'
  <2> SUFFICES ASSUME NEW d \in buckets', NEW b \in Bursts, \A c \in Bursts : b <= c
               PROVE  tokens'[d] + admitted'[d] * Cost >= Capacity(b)
    BY DEF Floor, Capacity
  <2>1. d \in Keys
    BY <1>13 DEF RateTypeOK
  <2>2. CASE d # k
    BY <1>17, <1>18, <2>1, <2>2 DEF LInv, Floor
  <2>3. CASE d = k
    <3>1. Capacity(b) <= Capacity(bb) /\ Capacity(b) \in Nat /\ Capacity(bb) \in Nat
      BY CapacityMonotone, CapacityNat
    <3>2. PICK u \in Nat : u = admitted[k] * Cost
      BY <1>11, <1>12, MulNat DEF RateTypeOK
    <3>3. tokens[k] \in Nat /\ tokens'[k] \in Nat /\ admitted'[k] * Cost \in Nat
      BY <1>11, <1>12, <1>13, MulNat DEF RateTypeOK
    <3>4. k \in buckets => tokens[k] + u >= Capacity(b)
      BY <3>2 DEF LInv, Floor
    <3>5. f + u >= Capacity(b)
      BY <1>8, <3>1, <3>3, <3>4
    <3> QED BY <1>16, <2>3, <3>2, <3>3, <3>5
  <2> QED BY <2>2, <2>3
<1>21. BurstGranted'
  <2> SUFFICES ASSUME NEW d \in refused', NEW b \in Bursts, \A c \in Bursts : b <= c
               PROVE  admitted'[d] >= b + 1
    BY DEF BurstGranted
  <2>1. d \in Keys /\ admitted[d] \in Nat /\ admitted'[d] \in Nat /\ b \in Nat
    BY <1>12, <1>13, CapacityNat DEF RateTypeOK
  <2>2. admitted'[d] >= admitted[d]
    <3>1. admitted' = admitted \/ admitted' = [admitted EXCEPT ![k] = @ + 1]
      BY <1>10
    <3> QED BY <3>1, <2>1, <1>12 DEF RateTypeOK
  <2>3. CASE d \in refused
    <3>1. admitted[d] >= b + 1
      BY <2>3 DEF LInv, BurstGranted
    <3> QED BY <3>1, <2>1, <2>2
  <2>4. CASE d \notin refused
    <3>1. d = k /\ f < Cost /\ tokens'[k] = f
      BY <1>10, <2>4, <1>12 DEF RateTypeOK
    <3>2. f + admitted'[k] * Cost >= Capacity(b)
      BY <1>17, <1>20, <3>1 DEF Floor, Capacity
    <3>3. Capacity(b) = b * Cost + Cost /\ b * Cost \in Nat
      BY <2>1, <1>11, AddOne, MulNat DEF Capacity
    <3>4. admitted'[k] * Cost \in Nat
      BY <2>1, <3>1, <1>11, MulNat
    <3>5. admitted'[k] * Cost > b * Cost
      BY <3>1, <3>2, <3>3, <3>4, <1>11
    <3>6. ~(admitted'[k] <= b)
      BY <3>5, <3>3, <3>4, <2>1, <3>1, <1>11, Monotone
    <3> QED BY <3>6, <2>1, <3>1
  <2> QED BY <2>3, <2>4
<1> QED BY <1>13, <1>14, <1>15, <1>19, <1>20, <1>21 DEF LInv

LEMMA NextLInv == LInv /\ [RateNext]_rateVars => LInv'
<1> SUFFICES ASSUME LInv, [RateNext]_rateVars PROVE LInv'
  OBVIOUS
<1>1. ASSUME NEW r \in Requests, ReadClock(r) PROVE LInv'
  BY <1>1, ReadClockLInv
<1>2. ASSUME NEW r \in Requests, Decide(r) PROVE LInv'
  BY <1>2, DecideLInv
<1>3. CASE Tick
  BY <1>3, TickLInv
<1>4. CASE UNCHANGED rateVars
  BY <1>4 DEF rateVars, LInv, RateTypeOK, Timed, LastPast, Ledger, Held, Floor, BurstGranted
<1> QED BY <1>1, <1>2, <1>3, <1>4 DEF RateNext

\* The bookkeeping of every zone, whatever its bursts, rate and size (limit.rs
\* 81-119): the tokens handed out and still held never exceed what the buckets
\* were created with and refilled.
THEOREM LedgerKept == RateSpec => []LInv
<1>1. RateInit => LInv
  BY InitLInv
<1>2. LInv /\ [RateNext]_rateVars => LInv'
  BY NextLInv
<1> QED BY <1>1, <1>2, PTL DEF RateSpec

\* Buckets stay well formed: tokens never go below zero (limit.rs 101-118).
THEOREM TypeCorrect == RateSpec => []RateTypeOK
<1>1. LInv => RateTypeOK
  BY DEF LInv
<1> QED BY <1>1, LedgerKept, PTL

\* AdmissionBound (limit.rs 81-119) for every zone.
THEOREM AdmissionCorrect == RateSpec => []AdmissionBound
<1>1. LInv => AdmissionBound
  <2> SUFFICES ASSUME LInv, NEW k \in Keys, NEW b \in Bursts, \A c \in Bursts : c <= b
               PROVE  admitted[k] * Cost
                        <= created[k] * Capacity(b) + (now + regress[k]) * Refill
    BY DEF AdmissionBound
  <2>1. admitted[k] * Cost + Held(k)
          <= created[k] * Capacity(b) + (last[k] + regress[k]) * Refill
    BY DEF LInv, Ledger
  <2>2. /\ admitted[k] \in Nat /\ created[k] \in Nat /\ regress[k] \in Nat
        /\ last[k] \in Nat /\ now \in Nat /\ Held(k) \in Nat /\ last[k] <= now
    BY DEF LInv, RateTypeOK, LastPast, Held
  <2>3. Cost \in Nat /\ Refill \in Nat /\ Capacity(b) \in Nat
    BY LimitReqAssumption, CapacityNat
  <2>4. PICK w \in Nat : w = (last[k] + regress[k]) * Refill
    BY <2>2, <2>3, MulNat
  <2>5. PICK z \in Nat : z = (now + regress[k]) * Refill
    BY <2>2, <2>3, MulNat
  <2>6. w <= z
    <3>1. last[k] + regress[k] \in Nat /\ now + regress[k] \in Nat
          /\ last[k] + regress[k] <= now + regress[k]
      BY <2>2
    <3> QED BY <3>1, <2>3, <2>4, <2>5, Monotone
  <2>7. PICK u \in Nat : u = admitted[k] * Cost
    BY <2>2, <2>3, MulNat
  <2>8. PICK v \in Nat : v = created[k] * Capacity(b)
    BY <2>2, <2>3, MulNat
  <2>9. u + Held(k) <= v + w
    BY <2>1, <2>4, <2>7, <2>8
  <2> QED BY <2>2, <2>5, <2>6, <2>7, <2>8, <2>9
<1> QED BY <1>1, LedgerKept, PTL

\* BurstGranted (limit.rs 103-118) for every zone.
THEOREM BurstCorrect == RateSpec => []BurstGranted
<1>1. LInv => BurstGranted
  BY DEF LInv
<1> QED BY <1>1, LedgerKept, PTL

\* ZoneBounded (limit.rs 20-22, 85-93) for every max_entries of at least one.
THEOREM ZoneCorrect == RateSpec => []ZoneBounded
<1> DEFINE Z == buckets \subseteq Keys /\ ZoneBounded
<1>1. RateInit => Z
  <2>1. Cardinality({}) = 0
    BY FS_EmptySet
  <2> QED BY <2>1, LimitReqAssumption DEF RateInit, ZoneBounded
<1>2. LInv /\ LInv' /\ Z /\ [RateNext]_rateVars => Z'
  <2> SUFFICES ASSUME LInv, LInv', Z, [RateNext]_rateVars PROVE Z'
    OBVIOUS
  <2>1. buckets' \subseteq Keys
    BY DEF LInv, RateTypeOK
  <2>2. CASE UNCHANGED buckets
    BY <2>1, <2>2 DEF ZoneBounded
  <2>3. ASSUME NEW r \in Requests, Decide(r) PROVE ZoneBounded'
    <3>1. PICK k \in Keys : k = client[r]
      BY <2>3 DEF Decide, LInv, Timed
    <3>2. PICK gone \in EvictedBuckets(k) : buckets' = (buckets \ gone) \cup {k}
      BY <2>3, <3>1 DEF Decide
    <3>3. IsFiniteSet(buckets) /\ Cardinality(buckets) \in Nat
      BY LimitReqAssumption, FS_Subset, FS_CardinalityType
    <3>4. MaxBuckets \in Nat
      BY LimitReqAssumption
    <3>5. CASE k \in buckets
      <4>1. buckets' = buckets
        BY <3>2, <3>5 DEF EvictedBuckets
      <4> QED BY <4>1 DEF ZoneBounded
    <3>6. CASE k \notin buckets /\ Cardinality(buckets) < MaxBuckets
      <4>1. gone = {}
        BY <3>6, <3>3, <3>4 DEF EvictedBuckets
      <4>2. buckets' = buckets \cup {k}
        BY <4>1, <3>2
      <4>3. Cardinality(buckets \cup {k}) = Cardinality(buckets) + 1
        BY <3>3, <3>6, FS_AddElement
      <4> QED BY <4>2, <4>3, <3>3, <3>4, <3>6 DEF ZoneBounded
    <3>7. CASE k \notin buckets /\ Cardinality(buckets) >= MaxBuckets
      <4>1. PICK d \in buckets : gone = {d}
        BY <3>7 DEF EvictedBuckets, Oldest
      <4>2. IsFiniteSet(buckets \ {d})
            /\ Cardinality(buckets \ {d}) = Cardinality(buckets) - 1
        BY <3>3, FS_RemoveElement
      <4>3. k \notin buckets \ {d}
        BY <3>7
      <4>4. Cardinality((buckets \ {d}) \cup {k}) = Cardinality(buckets \ {d}) + 1
        BY <4>2, <4>3, FS_AddElement
      <4>5. Cardinality((buckets \ {d}) \cup {k}) = Cardinality(buckets)
        BY <3>3, <4>2, <4>4
      <4> QED BY <4>1, <4>5, <3>2 DEF ZoneBounded
    <3> QED BY <3>5, <3>6, <3>7, <3>3, <3>4
  <2>4. buckets' = buckets \/ \E r \in Requests : Decide(r)
    BY DEF RateNext, rateVars, ReadClock, Tick
  <2> QED BY <2>1, <2>2, <2>3, <2>4
<1>3. Z => ZoneBounded
  OBVIOUS
<1> QED BY <1>1, <1>2, <1>3, LedgerKept, PTL DEF RateSpec
=============================================================================
