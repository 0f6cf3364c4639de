------------------------------- MODULE Zones -------------------------------
(* What the limit_req and limit_conn zones of a server block share. *)

CONSTANTS
  Requests,  \* the requests that pass them
  Keys,      \* rendered values of the zones' key templates
  None       \* no key
=============================================================================
