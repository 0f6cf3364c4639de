------------------------------ MODULE LimitReq ------------------------------
(***************************************************************************)
(* limit_req: the token buckets of one LimitReqZone, shared by the         *)
(* requests of locations that may set different bursts.  allow() reads the *)
(* monotonic clock before it takes the zone's mutex, so requests may enter *)
(* the critical section in another order than they read the clock.         *)
(*                                                                         *)
(* Tokens are integers: one request costs Cost of them and a tick refills  *)
(* Refill, which stands for any rational rate (the code uses f64).         *)
(***************************************************************************)
EXTENDS Integers, FiniteSets, Zones

CONSTANTS
  Bursts,      \* burst of the locations that use the zone
  Cost,        \* tokens one request consumes
  Refill,      \* tokens a tick brings
  MaxBuckets,  \* max_entries of the zone
  MaxTime      \* bound on the clock

ASSUME LimitReqAssumption ==
  /\ IsFiniteSet(Keys)
  /\ Bursts \subseteq Nat
  /\ Cost \in Nat \ {0}
  /\ Refill \in Nat
  /\ MaxBuckets \in Nat \ {0}
  /\ MaxTime \in Nat
  /\ None \notin Keys

VARIABLES
  now,       \* Instant::now()
  buckets,   \* keys that have a bucket
  tokens,    \* tokens[k] of the bucket
  last,      \* last[k] of the bucket (of the latest one, if it was evicted)
  phase,     \* where each request is
  client,    \* its key
  burst,     \* its location's burst
  stamp,     \* the clock reading it took
  admitted,  \* history: requests admitted for each key
  refused,   \* history: keys that were ever denied
  created,   \* history: buckets created for each key
  regress    \* history: by how much `last` has been moved back, in total

rateVars == <<now, buckets, tokens, last, phase, client, burst, stamp, admitted, refused,
              created, regress>>

RateTypeOK ==
  /\ now \in Nat
  /\ buckets \subseteq Keys
  /\ tokens \in [Keys -> Nat]
  /\ last \in [Keys -> Nat]
  /\ phase \in [Requests -> {"new", "timed", "admitted", "denied"}]
  /\ client \in [Requests -> Keys \cup {None}]
  /\ burst \in [Requests -> Nat]
  /\ stamp \in [Requests -> Nat]
  /\ admitted \in [Keys -> Nat]
  /\ refused \subseteq Keys
  /\ created \in [Keys -> Nat]
  /\ regress \in [Keys -> Nat]

RateInit ==
  /\ now = 0
  /\ buckets = {}
  /\ tokens = [k \in Keys |-> 0]
  /\ last = [k \in Keys |-> 0]
  /\ phase = [r \in Requests |-> "new"]
  /\ client = [r \in Requests |-> None]
  /\ burst = [r \in Requests |-> 0]
  /\ stamp = [r \in Requests |-> 0]
  /\ admitted = [k \in Keys |-> 0]
  /\ refused = {}
  /\ created = [k \in Keys |-> 0]
  /\ regress = [k \in Keys |-> 0]

-----------------------------------------------------------------------------
\* A request arrives; allow() reads the clock.
ReadClock(r) ==
  /\ phase[r] = "new"
  /\ \E k \in Keys, b \in Bursts :
       /\ client' = [client EXCEPT ![r] = k]
       /\ burst' = [burst EXCEPT ![r] = b]
  /\ stamp' = [stamp EXCEPT ![r] = now]
  /\ phase' = [phase EXCEPT ![r] = "timed"]
  /\ UNCHANGED <<now, buckets, tokens, last, admitted, refused, created, regress>>

\* Mutant: capacity is the burst alone.
CapacityBurst(b) == b * Cost

Capacity(b) == (b + 1) * Cost

Least(a, b) == IF a <= b THEN a ELSE b

Excess(a, b) == IF a > b THEN a - b ELSE 0   \* saturating subtraction

\* Buckets that may go to make room for k: the least recently touched one when
\* k is new and the zone is full.
Oldest == {d \in buckets : \A e \in buckets : last[d] <= last[e]}

\* Mutant: room is made one bucket too late.
EvictedBucketsLate(k) ==
  IF k \notin buckets /\ Cardinality(buckets) > MaxBuckets
  THEN {{d} : d \in Oldest}
  ELSE {{}}

EvictedBuckets(k) ==
  IF k \notin buckets /\ Cardinality(buckets) >= MaxBuckets
  THEN {{d} : d \in Oldest}
  ELSE {{}}

\* The bucket of k as a request with clock reading s finds it: a new bucket is
\* full, an old one is refilled for the time since it was last touched.
Found(k, s, b) ==
  IF k \in buckets
  THEN Least(tokens[k] + Excess(s, last[k]) * Refill, Capacity(b))
  ELSE Capacity(b)

\* Mutant: an admission does not move `last`, so its refill is counted again.
DecideKeepsLast(r) ==
  LET k == client[r]
      s == stamp[r]
      found == Found(k, s, burst[r])
  IN  /\ phase[r] = "timed"
      /\ \E gone \in EvictedBuckets(k) : buckets' = (buckets \ gone) \cup {k}
      /\ created' = [created EXCEPT ![k] = IF k \in buckets THEN @ ELSE @ + 1]
      /\ regress' = [regress EXCEPT ![k] = @ + Excess(last[k], s)]
      /\ \/ /\ found >= Cost
            /\ tokens' = [tokens EXCEPT ![k] = found - Cost]
            /\ admitted' = [admitted EXCEPT ![k] = @ + 1]
            /\ phase' = [phase EXCEPT ![r] = "admitted"]
            /\ UNCHANGED <<last, refused>>
         \/ /\ found < Cost
            /\ tokens' = [tokens EXCEPT ![k] = found]
            /\ last' = [last EXCEPT ![k] = s]
            /\ refused' = refused \cup {k}
            /\ phase' = [phase EXCEPT ![r] = "denied"]
            /\ UNCHANGED admitted
      /\ UNCHANGED <<now, client, burst, stamp>>

\* The critical section of allow().
Decide(r) ==
  LET k == client[r]
      s == stamp[r]
      found == Found(k, s, burst[r])
  IN  /\ phase[r] = "timed"
      /\ \E gone \in EvictedBuckets(k) : buckets' = (buckets \ gone) \cup {k}
      /\ last' = [last EXCEPT ![k] = s]
      /\ created' = [created EXCEPT ![k] = IF k \in buckets THEN @ ELSE @ + 1]
      /\ regress' = [regress EXCEPT ![k] = @ + Excess(last[k], s)]
      /\ \/ /\ found >= Cost
            /\ tokens' = [tokens EXCEPT ![k] = found - Cost]
            /\ admitted' = [admitted EXCEPT ![k] = @ + 1]
            /\ phase' = [phase EXCEPT ![r] = "admitted"]
            /\ UNCHANGED refused
         \/ /\ found < Cost
            /\ tokens' = [tokens EXCEPT ![k] = found]
            /\ refused' = refused \cup {k}
            /\ phase' = [phase EXCEPT ![r] = "denied"]
            /\ UNCHANGED admitted
      /\ UNCHANGED <<now, client, burst, stamp>>

Tick ==
  /\ now < MaxTime
  /\ now' = now + 1
  /\ UNCHANGED <<buckets, tokens, last, phase, client, burst, stamp, admitted, refused,
                 created, regress>>

RateNext ==
  \/ \E r \in Requests : ReadClock(r) \/ Decide(r)
  \/ Tick

RateSpec == RateInit /\ [][RateNext]_rateVars

-----------------------------------------------------------------------------
\* What the zone admits for a key (limit.rs 81-119), exactly: one full bucket per
\* bucket created (eviction hands out a fresh one), the refill of the time that
\* has passed, and the refill of every tick by which a late request moved `last`
\* back.  Where requests keep the order of their clock readings and the zone is
\* large enough, this is the token-bucket bound.
AdmissionBound ==
  \A k \in Keys, b \in Bursts :
    (\A c \in Bursts : c <= b) =>
      admitted[k] * Cost <= created[k] * Capacity(b) + (now + regress[k]) * Refill

\* No key is denied before it has had its burst (limit.rs 103-118), with the
\* smallest burst of the locations that share the zone.
BurstGranted ==
  \A k \in refused, b \in Bursts :
    (\A c \in Bursts : b <= c) => admitted[k] >= b + 1

\* "The cap protects against a flood of one-off keys eating memory" (limit.rs
\* 20-22): the zone never holds more than max_entries buckets.
ZoneBounded == Cardinality(buckets) <= MaxBuckets

=============================================================================
