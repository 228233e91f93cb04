---------------------------- MODULE MCRedisPool -----------------------------
(* Both pools, with and without AUTH, with named threads and handles.      *)
EXTENDS RedisPool

CONSTANTS t1, t2, t3, c1, c2, c3

=============================================================================
