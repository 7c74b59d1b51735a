---------------------------- MODULE MCRateLimiter ----------------------------
(* A table of two buckets and three clients: a proxy, an address, "unknown". *)
EXTENDS RateLimiter

CONSTANTS proxy, a
=============================================================================
