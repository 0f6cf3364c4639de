--------------------------- MODULE ForwardContract ---------------------------
(***************************************************************************)
(* What proxy::forward and the stream relays promise about an upstream     *)
(* exchange, apart from how they pick peers or judge their health:         *)
(*                                                                         *)
(*   - a task sends its request to no more peers than its kind may try     *)
(*     (GET-like requests are retried, everything else is sent once);      *)
(*   - it never sends twice to the same address;                           *)
(*   - once its client has an answer nothing more is sent for it.          *)
(*                                                                         *)
(* Upstream.tla is the detailed specification that implements this one.    *)
(***************************************************************************)
EXTENDS Naturals, Sequences

CONSTANTS
  Tasks,      \* requests, relayed sessions and health probes
  Addrs,      \* upstream addresses
  Kinds,      \* kinds of task
  Unstarted,  \* kind of a task that has not been started
  Budget      \* Budget[k]: how many sends a task of kind k may make

VARIABLES
  kind,       \* kind[t]: what t is
  sentTo,     \* sentTo[t]: the addresses t was sent to, in order
  answered    \* answered[t]: t's client has been answered

cvars == <<kind, sentTo, answered>>

CInit ==
  /\ kind = [t \in Tasks |-> Unstarted]
  /\ sentTo = [t \in Tasks |-> << >>]
  /\ answered = [t \in Tasks |-> FALSE]

CStart(t) ==
  /\ kind[t] = Unstarted
  /\ \E k \in Kinds : kind' = [kind EXCEPT ![t] = k]
  /\ UNCHANGED <<sentTo, answered>>

CSend(t) ==
  /\ kind[t] \in Kinds
  /\ ~answered[t]
  /\ Len(sentTo[t]) < Budget[kind[t]]
  /\ \E a \in Addrs :
       /\ \A i \in 1..Len(sentTo[t]) : sentTo[t][i] # a
       /\ sentTo' = [sentTo EXCEPT ![t] = Append(@, a)]
  /\ UNCHANGED <<kind, answered>>

CAnswer(t) ==
  /\ kind[t] \in Kinds
  /\ ~answered[t]
  /\ answered' = [answered EXCEPT ![t] = TRUE]
  /\ UNCHANGED <<kind, sentTo>>

CNext == \E t \in Tasks : CStart(t) \/ CSend(t) \/ CAnswer(t)

CSpec == CInit /\ [][CNext]_cvars
=============================================================================
