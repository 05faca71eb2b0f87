----------------------------- MODULE MCRedisQueue -----------------------------
(***************************************************************************)
(* RedisQueue on a small instance: values for the constants are in the     *)
(* .cfg files.                                                             *)
(***************************************************************************)
EXTENDS RedisQueue
===============================================================================
