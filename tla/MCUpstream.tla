----------------------------- MODULE MCUpstream -----------------------------
(* Small upstream groups for TLC. *)
EXTENDS Upstream, TLC

CONSTANTS t1, t2

\* A primary with weight 2, the same address listed again with weight 0, a
\* backup and a peer marked down.
MCPeers == 1..4
MCAddr == <<"a", "a", "b", "c">>
MCWeight == <<2, 0, 1, 1>>

\* Every kind of task meets one of another kind, and itself where it retries.
MCKinds == t1 :> {"cached_get", "once", "udp"} @@
           t2 :> {"cached_get", "retry_safe", "tcp", "probe"}

\* A block that lists one address twice, for cached requests only.
DupPeers == 1..3
DupAddr == <<"a", "a", "b">>
DupWeight == <<1, 1, 1>>
CachedGets == [t \in Tasks |-> {"cached_get"}]

MCHash == [t \in Tasks |-> 5]
=============================================================================
