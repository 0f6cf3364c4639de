----------------------------- MODULE MCPipeline -----------------------------
(* A small server block for TLC. *)
EXTENDS Pipeline, TLC

Rule(allow, clients) == [allow |-> allow, clients |-> clients]

\* One location with every gate in front of a fixed proxy_pass, one with a larger
\* cap and passwords in front of a dynamic one, one without limits in front of
\* the same dynamic target with a cache.
MCLoc ==
  [api  |-> [rules |-> <<Rule(TRUE, {"c1"}), Rule(FALSE, {"c1", "c2"})>>,
             limitReq |-> TRUE, cap |-> 1, mirrors |-> 1, authRequest |-> TRUE,
             authBasic |-> FALSE, action |-> "proxy", cached |-> FALSE,
             gzip |-> TRUE],
   any  |-> [rules |-> << >>, limitReq |-> FALSE, cap |-> 2, mirrors |-> 2,
             authRequest |-> FALSE, authBasic |-> TRUE, action |-> "dynamic",
             cached |-> FALSE, gzip |-> FALSE],
   open |-> [rules |-> <<Rule(FALSE, {"c2"})>>, limitReq |-> FALSE, cap |-> None,
             mirrors |-> 0, authRequest |-> FALSE, authBasic |-> FALSE,
             action |-> "dynamic", cached |-> TRUE, gzip |-> TRUE]]

Get(via, c, l, creds) ==
  [via |-> via, client |-> c, loc |-> l, size |-> 0, declared |-> TRUE, creds |-> creds]
Upload(via, declared) ==
  [via |-> via, client |-> "c1", loc |-> "open", size |-> 2, declared |-> declared,
   creds |-> FALSE]

MCProfiles ==
  UNION {{Get(v, "c1", "api", FALSE), Get(v, "c2", "api", FALSE), Get(v, "c1", "any", TRUE),
          Get(v, "c1", "any", FALSE), Get(v, "c1", None, FALSE),
          Upload(v, TRUE), Upload(v, FALSE)} : v \in {"tcp", "quic"}}
=============================================================================
