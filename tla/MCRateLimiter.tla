--------------------------- MODULE MCRateLimiter ---------------------------
(* Small instances of RateLimiter for TLC. *)
EXTENDS RateLimiter

\* Three requests from one address without a valid key, two of them with keys
\* that differ, and one from the same address with a valid key.
TwoIdentities == {"anonymous", "wrong", "stale", "client"}
KeyOf(r) ==
  CASE r = "anonymous" -> "none"
    [] r = "wrong" -> "bad1"
    [] r = "stale" -> "bad2"
    [] r = "client" -> "valid"
SameIp(r) == "ip"
=============================================================================
