------------------------------ MODULE MCCache ------------------------------
(* Small caches for TLC. *)
EXTENDS Cache, TLC

Symmetry == Permutations(Requests)

Get(k, lines) == [key |-> k, headers |-> [h \in {"accept-encoding"} |-> lines]]

Answer(status, cookie, vary, cc, body) ==
  [status |-> status, cookie |-> cookie, vary |-> vary, cc |-> cc, body |-> body,
   head |-> 1]

\* Two keys, one of them asked for with and without compression, once in a header
\* of two lines.
MCProfiles ==
  {Get("k1", << >>), Get("k1", <<"gzip">>), Get("k1", <<"gzip", "br">>), Get("k2", << >>)}

\* A value that is not visible ASCII against no header at all, and the two lines
\* against the first of them.
VaryProfiles ==
  {Get("k1", << >>), Get("k1", <<"obs-text">>), Get("k1", <<"gzip">>),
   Get("k1", <<"gzip", "br">>)}

\* Plain, varying (with a small and a large body), larger than the store, with a
\* cookie.
MCResponses ==
  {Answer(200, FALSE, << >>, << >>, 0),
   Answer(200, FALSE, <<"accept-encoding">>, << >>, 0),
   Answer(404, FALSE, <<"accept-encoding">>, << >>, 1),
   Answer(200, FALSE, << >>, << >>, 3),
   Answer(200, TRUE, << >>, << >>, 0)}

\* proxy_cache_valid any 1; proxy_cache_valid 200 2;
MCRules == <<[codes |-> {}, ttl |-> 1], [codes |-> {200}, ttl |-> 2]>>
=============================================================================
