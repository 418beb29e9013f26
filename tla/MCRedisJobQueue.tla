--------------------------- MODULE MCRedisJobQueue --------------------------
(* Small instances of RedisJobQueue for TLC. *)
EXTENDS RedisJobQueue

CONSTANTS d1, d2, r1, r2
=============================================================================
