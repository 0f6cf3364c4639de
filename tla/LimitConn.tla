------------------------------ MODULE LimitConn ------------------------------
(***************************************************************************)
(* limit_conn: a LimitConnZone shared by the requests of several locations *)
(* that may each set another cap.  The zone is one mutex around a map from *)
(* key to count, so an acquire or a release is one step; requests hold     *)
(* their LimitConnGuard across every await of the handler, and hyper may   *)
(* drop the handler's future at any of them.                               *)
(***************************************************************************)
EXTENDS Integers, FiniteSets, Zones

CONSTANTS
  Caps,        \* the max_conn of the locations that use the zone, maybe 0
  MaxEntries   \* max_entries of the zone

ASSUME LimitConnAssumption ==
  /\ IsFiniteSet(Requests)
  /\ IsFiniteSet(Keys)
  /\ Caps \subseteq Nat
  /\ MaxEntries \in Nat \ {0}
  /\ None \notin Keys

VARIABLES
  entries,  \* keys that have an entry in the zone's map
  count,    \* count[k]: the entry's value, 0 when there is none
  stage,    \* where each request is
  guard,    \* guard[r]: the key of the guard r owns, or None
  key,      \* key[r]: the key r was admitted under
  cap,      \* cap[r]: the max_conn r was admitted under
  peak      \* history: the most keys that were ever held at one time

vars == <<entries, count, stage, guard, key, cap, peak>>

TypeOK ==
  /\ entries \subseteq Keys
  /\ count \in [Keys -> Nat]
  /\ stage \in [Requests -> {"free", "handling", "streaming"}]
  /\ guard \in [Requests -> Keys \cup {None}]
  /\ key \in [Requests -> Keys \cup {None}]
  /\ cap \in [Requests -> Nat]
  /\ peak \in Nat

Init ==
  /\ entries = {}
  /\ count = [k \in Keys |-> 0]
  /\ stage = [r \in Requests |-> "free"]
  /\ guard = [r \in Requests |-> None]
  /\ key = [r \in Requests |-> None]
  /\ cap = [r \in Requests |-> 0]
  /\ peak = 0

Holders(k) == {r \in Requests : guard[r] = k}
HeldKeys == {k \in Keys : Holders(k) # {}}

-----------------------------------------------------------------------------
\* Mutant: any entry may be evicted, in use or not.
EvictedAny(k) ==
  IF k \notin entries /\ Cardinality(entries) >= MaxEntries
  THEN {{d} : d \in entries}
  ELSE {{}}

\* Mutant: nothing is ever evicted.
EvictedNever(k) == {{}}

\* Entries try_acquire may drop to make room for key k: a new key at a full map
\* takes out one zero entry, if there is any.
Evicted(k) ==
  LET dead == {d \in entries : count[d] = 0}
  IN  IF k \notin entries /\ Cardinality(entries) >= MaxEntries /\ dead # {}
      THEN {{d} : d \in dead}
      ELSE {{}}

\* The map once `gone` is dropped and k has an entry.
Entries(gone, k) == (entries \ gone) \cup {k}
Counts(gone) == [d \in Keys |-> IF d \in gone THEN 0 ELSE count[d]]

\* Mutant: one request too many.
AdmitAtCap(r, k, m) ==
  /\ stage[r] = "free"
  /\ \E gone \in Evicted(k) :
       /\ Counts(gone)[k] <= m
       /\ entries' = Entries(gone, k)
       /\ count' = [Counts(gone) EXCEPT ![k] = @ + 1]
  /\ guard' = [guard EXCEPT ![r] = k]
  /\ key' = [key EXCEPT ![r] = k]
  /\ cap' = [cap EXCEPT ![r] = m]
  /\ stage' = [stage EXCEPT ![r] = "handling"]
  /\ peak' = LET held == Cardinality(HeldKeys')
             IN  IF held > peak THEN held ELSE peak

\* enforce_conn admits r at a location with cap m.
Admit(r, k, m) ==
  /\ stage[r] = "free"
  /\ \E gone \in Evicted(k) :
       /\ Counts(gone)[k] < m
       /\ entries' = Entries(gone, k)
       /\ count' = [Counts(gone) EXCEPT ![k] = @ + 1]
  /\ guard' = [guard EXCEPT ![r] = k]
  /\ key' = [key EXCEPT ![r] = k]
  /\ cap' = [cap EXCEPT ![r] = m]
  /\ stage' = [stage EXCEPT ![r] = "handling"]
  /\ peak' = LET held == Cardinality(HeldKeys')
             IN  IF held > peak THEN held ELSE peak

\* enforce_conn answers 503; the entry it looked up stays in the map.
Deny(r, k, m) ==
  /\ stage[r] = "free"
  /\ \E gone \in Evicted(k) :
       /\ Counts(gone)[k] >= m
       /\ entries' = Entries(gone, k)
       /\ count' = Counts(gone)
  /\ UNCHANGED <<stage, guard, key, cap, peak>>

\* Drop of the guard: saturating_sub on the entry, if it is still there.
DropGuard(r) ==
  /\ count' = IF guard[r] \in entries
              THEN [count EXCEPT ![guard[r]] = IF @ = 0 THEN 0 ELSE @ - 1]
              ELSE count
  /\ guard' = [guard EXCEPT ![r] = None]
  /\ UNCHANGED entries

\* The handler has its response; the guard's scope ends with the location's arm
\* and the body goes out afterwards.
Respond(r) ==
  /\ stage[r] = "handling"
  /\ DropGuard(r)
  /\ stage' = [stage EXCEPT ![r] = "streaming"]
  /\ UNCHANGED <<key, cap, peak>>

\* The client goes away (or the handler panics) and the future is dropped.
Abort(r) ==
  /\ stage[r] = "handling"
  /\ DropGuard(r)
  /\ stage' = [stage EXCEPT ![r] = "free"]
  /\ UNCHANGED <<key, cap, peak>>

\* The response body has been sent.
Finish(r) ==
  /\ stage[r] = "streaming"
  /\ stage' = [stage EXCEPT ![r] = "free"]
  /\ UNCHANGED <<entries, count, guard, key, cap, peak>>

Next ==
  \E r \in Requests :
    \/ \E k \in Keys, m \in Caps : Admit(r, k, m) \/ Deny(r, k, m)
    \/ Respond(r) \/ Abort(r) \/ Finish(r)

Spec == Init /\ [][Next]_vars

-----------------------------------------------------------------------------
\* The map never loses a live slot (limit.rs 172-218): each key's count is the
\* number of guards alive for it, so eviction under pressure never hits a key in
\* use and saturating_sub never hides a lost decrement.
CountsExact ==
  \A k \in Keys :
    /\ count[k] = Cardinality(Holders(k))
    /\ Holders(k) # {} => k \in entries

\* Locations that share the zone with different caps each keep theirs (limit.rs
\* 190-193, server.rs 313-332): of the requests handled for one key, those
\* admitted under caps up to m are never more than m.
CapsKept ==
  \A k \in Keys, m \in Caps :
    Cardinality({r \in Holders(k) : cap[r] <= m}) <= m

\* max_entries is not a bound on the map (limit.rs 178-189): it grows past it
\* while enough keys are in use and never shrinks, but it stays within one entry
\* of the most keys that were in use together.
MapBounded == Cardinality(entries) <= MaxEntries \/ Cardinality(entries) <= peak + 1

=============================================================================
