------------------------------- MODULE Cache -------------------------------
(***************************************************************************)
(* proxy_cache: one CacheStore shared by the GETs of the locations that    *)
(* use it, and the way proxy::forward consults and fills it.  get() and    *)
(* put() each run under the store's mutex, but a request reads the clock   *)
(* before it waits for the mutex, and between its miss and its put lies    *)
(* the whole upstream exchange: any number of requests may miss, fetch and *)
(* store the same key at the same time.                                    *)
(*                                                                         *)
(* The Vec of variants of a key is the set of the store's entries with     *)
(* that key, in the order of their `pos`.                                  *)
(***************************************************************************)
EXTENDS Integers, Sequences, FiniteSetsExt

CONSTANTS
  Requests,       \* the GETs that arrive, each once
  Profiles,       \* what they may look like: [key, headers], headers[n] the lines
                  \*   of the header n, << >> when it is missing
  Opaque,         \* header values that are not visible ASCII
  Responses,      \* what the upstream may answer:
                  \*   [status, cookie, vary, cc, body, head]
  ValidRules,     \* proxy_cache_valid in order: [codes, ttl], {} = any status
  MaxBytes,       \* max_bytes of the store
  MaxEntryBytes,  \* MAX_ENTRY_BYTES
  MaxTime         \* bound on the clock

Keys == {p.key : p \in Profiles}

ASSUME CacheAssumption ==
  /\ \A p \in Profiles : DOMAIN p = {"key", "headers"}
  /\ \A a \in Responses :
       /\ DOMAIN a = {"status", "cookie", "vary", "cc", "body", "head"}
       /\ a.vary \in Seq(STRING)
       /\ a.body \in Nat
       /\ a.head \in Nat
  /\ \A i \in DOMAIN ValidRules : ValidRules[i].ttl \in Nat
  /\ MaxBytes \in Nat
  /\ MaxEntryBytes \in Nat
  /\ MaxTime \in Nat

VARIABLES
  now,      \* Instant::now()
  store,    \* the entries of all keys
  present,  \* keys that have a Vec in the map
  total,    \* State.total_bytes
  gauge,    \* the gauge elrond_cache_bytes
  puts,     \* position the next stored entry gets
  stage,    \* where each request is
  profile,  \* what it looks like
  stamp,    \* the clock reading of its get()
  entry,    \* the entry it is about to put, or the one it hit
  label     \* the X-Cache header of the answer

vars == <<now, store, present, total, gauge, puts, stage, profile, stamp, entry, label>>

Stages == {"new", "lookup", "fetching", "storing", "done"}
Labels == {"pending", "absent", "HIT", "MISS", "BYPASS"}
NoEntry == [pos |-> 0]

TypeOK ==
  /\ now \in Nat
  /\ \A e \in store : e.key \in Keys /\ e.expires \in Nat /\ e.size \in Nat /\ e.pos < puts
  /\ present \subseteq Keys
  /\ total \in Nat
  /\ gauge \in 0..MaxBytes
  /\ puts \in Nat
  /\ stage \in [Requests -> Stages]
  /\ \A r \in Requests : stage[r] # "new" => profile[r] \in Profiles
  /\ stamp \in [Requests -> Nat]
  /\ label \in [Requests -> Labels]

Init ==
  /\ now = 0
  /\ store = {}
  /\ present = {}
  /\ total = 0
  /\ gauge = 0
  /\ puts = 1
  /\ stage = [r \in Requests |-> "new"]
  /\ profile = [r \in Requests |-> NoEntry]
  /\ stamp = [r \in Requests |-> 0]
  /\ entry = [r \in Requests |-> NoEntry]
  /\ label = [r \in Requests |-> "pending"]

Size(e) == e.size
Bytes(S) == MapThenSumSet(Size, S)
Minus(a, b) == IF a > b THEN a - b ELSE 0   \* saturating_sub

Goto(r, s) == stage' = [stage EXCEPT ![r] = s]

-----------------------------------------------------------------------------
(***************************************************************************)
(* Looking up                                                              *)
(***************************************************************************)

\* A GET arrives and get() reads the clock.
Arrive(r) ==
  /\ stage[r] = "new"
  /\ \E p \in Profiles : profile' = [profile EXCEPT ![r] = p]
  /\ stamp' = [stamp EXCEPT ![r] = now]
  /\ Goto(r, "lookup")
  /\ UNCHANGED <<now, store, present, total, gauge, puts, entry, label>>

\* What build_signature reads of a header: its first line, and nothing at all if
\* to_str refuses that one.
HeaderText(lines) == IF lines = << >> \/ lines[1] \in Opaque THEN "" ELSE lines[1]

\* build_signature: the names, in order, each with what is read of it.
BuildSignature(p, vary) ==
  [i \in DOMAIN vary |-> <<vary[i], HeaderText(p.headers[vary[i]])>>]

Variants(k) == {e \in store : e.key = k}
Expired(k, n) == {e \in Variants(k) : e.expires <= n}
Fresh(k, n) == Variants(k) \ Expired(k, n)

\* Mutant: the Vary axis is ignored.
MatchingAny(p, S) == S

\* The variants of S that match the request.
Matching(p, S) == {e \in S : BuildSignature(p, e.vary) = e.sig}

\* The first in the Vec.
First(S) == {e \in S : \A f \in S : e.pos <= f.pos}

\* Mutant: the bytes of expired variants stay on the books.
LookupForgets(r) ==
  LET p == profile[r]
      fresh == Fresh(p.key, stamp[r])
      found == First(Matching(p, fresh))
  IN  /\ stage[r] = "lookup"
      /\ store' = store \ Expired(p.key, stamp[r])
      /\ present' = IF fresh = {} THEN present \ {p.key} ELSE present
      /\ \/ /\ \E e \in found : entry' = [entry EXCEPT ![r] = e]
            /\ label' = [label EXCEPT ![r] = "HIT"]
            /\ Goto(r, "done")
         \/ /\ found = {}
            /\ Goto(r, "fetching")
            /\ UNCHANGED <<entry, label>>
      /\ UNCHANGED <<now, total, gauge, puts, profile, stamp>>

\* get() under the mutex: expired variants of the key go, the first variant that
\* matches answers the request.
Lookup(r) ==
  LET p == profile[r]
      dropped == Expired(p.key, stamp[r])
      fresh == Fresh(p.key, stamp[r])
      found == First(Matching(p, fresh))
  IN  /\ stage[r] = "lookup"
      /\ store' = store \ dropped
      /\ total' = Minus(total, Bytes(dropped))
      /\ present' = IF fresh = {} THEN present \ {p.key} ELSE present
      /\ \/ /\ \E e \in found : entry' = [entry EXCEPT ![r] = e]
            /\ label' = [label EXCEPT ![r] = "HIT"]
            /\ Goto(r, "done")
         \/ /\ found = {}
            /\ Goto(r, "fetching")
            /\ UNCHANGED <<entry, label>>
      /\ UNCHANGED <<now, gauge, puts, profile, stamp>>

-----------------------------------------------------------------------------
(***************************************************************************)
(* Filling                                                                 *)
(***************************************************************************)

Forbidding == {"no-store", "private", "no-cache"}

\* The rules that match a status; the last one gives the time to live.
MatchingRules(status) ==
  {i \in DOMAIN ValidRules : ValidRules[i].codes = {} \/ status \in ValidRules[i].codes}
LastRule(status) ==
  {i \in MatchingRules(status) : \A j \in MatchingRules(status) : j <= i}

\* decide_caching; of several Cache-Control lines it sees the first.
Cacheable(a) ==
  /\ ~a.cookie
  /\ \A i \in DOMAIN a.vary : a.vary[i] # "*"
  /\ a.cc # << >> => a.cc[1] \cap Forbidding = {}
  /\ a.body <= MaxEntryBytes
  /\ MatchingRules(a.status) # {}

\* entry_bytes: the body, the headers and the strings of the Vary axis.
EntryBytes(a) == a.body + a.head + Len(a.vary)

\* The upstream has answered below 500 and maybe_cache has the whole body: it
\* bypasses the cache, or computes the entry it will store.
Collected(r) ==
  /\ stage[r] = "fetching"
  /\ \E a \in Responses :
       \/ /\ Cacheable(a)
          /\ \E i \in LastRule(a.status) :
               entry' = [entry EXCEPT ![r] =
                 [key     |-> profile[r].key,
                  size    |-> EntryBytes(a),
                  expires |-> now + ValidRules[i].ttl,
                  vary    |-> a.vary,
                  sig     |-> BuildSignature(profile[r], a.vary),
                  from    |-> r,
                  pos     |-> 0]]
          /\ Goto(r, "storing")
          /\ UNCHANGED label
       \/ /\ ~Cacheable(a)
          /\ label' = [label EXCEPT ![r] = "BYPASS"]
          /\ Goto(r, "done")
          /\ UNCHANGED entry
  /\ UNCHANGED <<now, store, present, total, gauge, puts, profile, stamp>>

\* Every peer failed or answered 5xx, or the body broke off: the request is
\* answered without the cache.
Failed(r) ==
  /\ stage[r] = "fetching"
  /\ label' = [label EXCEPT ![r] = "absent"]
  /\ Goto(r, "done")
  /\ UNCHANGED <<now, store, present, total, gauge, puts, profile, stamp, entry>>

\* put() evicts from the front of this order: the soonest to expire first, of
\* equals in one Vec the first, of equals in two Vecs either.
Sooner(e, f) ==
  /\ e.expires <= f.expires
  /\ e.key = f.key /\ e.expires = f.expires => e.pos < f.pos

Overfull(gone, size) == Minus(total, Bytes(gone)) + size > MaxBytes

\* The sets the eviction loop may take out for `size` new bytes: it stops as soon
\* as they fit, or when nothing is left.
Evictions(size) ==
  {gone \in SUBSET store :
     /\ \A e \in gone, f \in store \ gone : Sooner(e, f)
     /\ ~Overfull(gone, size) \/ gone = store
     /\ gone # {} => \E z \in gone :
          /\ \A e \in gone \ {z} : Sooner(e, z)
          /\ Overfull(gone \ {z}, size)}

\* Mutant: a variant that is stored again is appended, not replaced.
PutAppends(r) ==
  LET e == [entry[r] EXCEPT !.pos = puts]
  IN  /\ stage[r] = "storing"
      /\ label' = [label EXCEPT ![r] = "MISS"]
      /\ Goto(r, "done")
      /\ entry' = [entry EXCEPT ![r] = NoEntry]
      /\ \/ /\ e.size > MaxBytes
            /\ UNCHANGED <<store, present, total, gauge, puts>>
         \/ /\ e.size <= MaxBytes
            /\ \E gone \in Evictions(e.size) :
                 LET left == store \ gone
                     emptied == {v.key : v \in gone} \ {v.key : v \in left}
                 IN  /\ store' = left \cup {e}
                     /\ present' = (present \ emptied) \cup {e.key}
                     /\ total' = Minus(total, Bytes(gone)) + e.size
            /\ gauge' = total'
            /\ puts' = puts + 1
      /\ UNCHANGED <<now, profile, stamp>>

\* Mutant: the variant to replace is looked up before the eviction, so its
\* bytes may be taken off twice.
PutCountsTwice(r) ==
  LET e == [entry[r] EXCEPT !.pos = puts]
  IN  /\ stage[r] = "storing"
      /\ label' = [label EXCEPT ![r] = "MISS"]
      /\ Goto(r, "done")
      /\ entry' = [entry EXCEPT ![r] = NoEntry]
      /\ \/ /\ e.size > MaxBytes
            /\ UNCHANGED <<store, present, total, gauge, puts>>
         \/ /\ e.size <= MaxBytes
            /\ \E gone \in Evictions(e.size) :
                 LET left == store \ gone
                     replaced == {v \in store : v.key = e.key /\ v.sig = e.sig}
                     emptied == {v.key : v \in gone} \ {v.key : v \in left}
                 IN  /\ store' = (left \ replaced) \cup {e}
                     /\ present' = (present \ emptied) \cup {e.key}
                     /\ total' = total - Bytes(gone) - Bytes(replaced) + e.size
            /\ gauge' = total'
            /\ puts' = puts + 1
      /\ UNCHANGED <<now, profile, stamp>>

\* put() under the mutex: evict, replace the variant with the same signature or
\* append, account.  Only here the gauge is set; expiry in get() leaves it.
Put(r) ==
  LET e == [entry[r] EXCEPT !.pos = puts]
  IN  /\ stage[r] = "storing"
      /\ label' = [label EXCEPT ![r] = "MISS"]
      /\ Goto(r, "done")
      /\ entry' = [entry EXCEPT ![r] = NoEntry]
      /\ \/ /\ e.size > MaxBytes
            /\ UNCHANGED <<store, present, total, gauge, puts>>
         \/ /\ e.size <= MaxBytes
            /\ \E gone \in Evictions(e.size) :
                 LET left == store \ gone
                     replaced == {v \in left : v.key = e.key /\ v.sig = e.sig}
                     emptied == {v.key : v \in gone} \ {v.key : v \in left}
                 IN  /\ store' = (left \ replaced) \cup {e}
                     /\ present' = (present \ emptied) \cup {e.key}
                     /\ total' = Minus(Minus(total, Bytes(gone)), Bytes(replaced)) + e.size
            /\ gauge' = total'
            /\ puts' = puts + 1
      /\ UNCHANGED <<now, profile, stamp>>

Tick ==
  /\ now < MaxTime
  /\ now' = now + 1
  /\ UNCHANGED <<store, present, total, gauge, puts, stage, profile, stamp, entry, label>>

-----------------------------------------------------------------------------
Next ==
  \/ \E r \in Requests : Arrive(r) \/ Lookup(r) \/ Collected(r) \/ Failed(r) \/ Put(r)
  \/ Tick

Spec == Init /\ [][Next]_vars

-----------------------------------------------------------------------------
(***************************************************************************)
(* Properties                                                              *)
(***************************************************************************)

\* total_bytes (cache.rs 98-101, 164-167, 188-189) is what the entries weigh,
\* after any mix of expiry, eviction and replacement, and never exceeds the
\* zone's size: accounting drift would let the cache grow or starve it.  The gauge
\* (cache.rs 194) is late but never reports less than is held.
BytesExact ==
  /\ total = Bytes(store)
  /\ total <= gauge
  /\ gauge <= MaxBytes

\* A key has at most one variant per signature, whatever requests stored it
\* concurrently, and no key outlives its variants (cache.rs 102-104, 168-170,
\* 176-187): eviction by signature takes out the entry it meant.
VariantsDistinct ==
  /\ \A e, f \in store : e.key = f.key /\ e.sig = f.sig => e = f
  /\ present = {e.key : e \in store}

\* A hit (cache.rs 73-112) was produced for a request with the same key and, in
\* every header the response varies on, the same text as build_signature reads it,
\* and had not expired when the request arrived.
HitsMatch ==
  \A r \in Requests : label[r] = "HIT" =>
    LET e == entry[r]
        origin == profile[e.from]
    IN  /\ origin.key = profile[r].key
        /\ \A i \in DOMAIN e.vary :
             HeaderText(origin.headers[e.vary[i]]) = HeaderText(profile[r].headers[e.vary[i]])
        /\ stamp[r] < e.expires

-----------------------------------------------------------------------------
(***************************************************************************)
(* What the comments and documents say and the code does not do            *)
(***************************************************************************)

\* cache.rs 4-7: variants are "each keyed by the values of the request headers the
\* upstream said it varies on" and "must not be served to the wrong client": a hit
\* was produced for a request with the same lines of each of those headers.
ServedToTheRightClient ==
  \A r \in Requests : label[r] = "HIT" =>
    \A i \in DOMAIN entry[r].vary :
      LET name == entry[r].vary[i]
      IN  profile[entry[r].from].headers[name] = profile[r].headers[name]
=============================================================================
