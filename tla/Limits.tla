------------------------------- MODULE Limits -------------------------------
(***************************************************************************)
(* The two limits of a location together: server::handle and               *)
(* http3::dispatch ask limit_req first and limit_conn next, each only      *)
(* where the location has one.  The limit_req zone is LimitReq's, the      *)
(* limit_conn zone LimitConn's; both have the same key template, such as   *)
(* $binary_remote_addr.  A request that the first denies never comes to    *)
(* the second.                                                             *)
(***************************************************************************)
EXTENDS LimitConn, LimitReq

CONSTANT Locations   \* [burst, cap] of each location; None where it has no such limit

ASSUME LimitsAssumption ==
  Locations \subseteq [burst : Bursts \cup {None}, cap : Caps \cup {None}]

VARIABLES
  at,    \* at[r]: the location of r while it is between the gates
  past   \* requests that left the limit_conn gate

limitsVars == <<vars, rateVars, at, past>>

LimitsInit ==
  /\ Init
  /\ RateInit
  /\ at = [r \in Requests |-> None]
  /\ past = {}

\* limit_req, in the two steps of LimitReq: the clock is read ...
Stamp(r) ==
  /\ r \notin past
  /\ \E l \in Locations :
       /\ l.burst # None
       /\ at' = [at EXCEPT ![r] = l]
       /\ ReadClock(r)
       /\ burst'[r] = l.burst
  /\ UNCHANGED <<vars, past>>

\* ... and allow() decides.
RateGate(r) ==
  /\ Decide(r)
  /\ UNCHANGED <<vars, at, past>>

\* limit_conn at location l, for a request with key k.
Enforce(r, l, k) ==
  \/ l.cap # None /\ (Admit(r, k, l.cap) \/ Deny(r, k, l.cap))
  \/ l.cap = None /\ UNCHANGED vars

ConnGate(r) ==
  /\ r \notin past
  /\ \/ phase[r] = "admitted" /\ Enforce(r, at[r], client[r])
     \/ /\ phase[r] = "new"
        /\ \E l \in Locations, k \in Keys : l.burst = None /\ Enforce(r, l, k)
  /\ past' = past \cup {r}
  /\ at' = [at EXCEPT ![r] = None]
  /\ UNCHANGED rateVars

\* A request that has passed both.
Handled(r) ==
  /\ Respond(r) \/ Abort(r) \/ Finish(r)
  /\ UNCHANGED <<rateVars, at, past>>

Clock == Tick /\ UNCHANGED <<vars, at, past>>

LimitsNext ==
  \/ \E r \in Requests : Stamp(r) \/ RateGate(r) \/ ConnGate(r) \/ Handled(r)
  \/ Clock

LimitsSpec == LimitsInit /\ [][LimitsNext]_limitsVars
=============================================================================
