---------------------------- MODULE MCRedisLock -----------------------------
(* Two writers, either of which may be elected, and a reader.              *)
EXTENDS RedisLock

MCClients == 1 .. 3
MCWriters == {1, 2}
MCFailFast == {3}
MCFaulty == {1}

(* One writer and two readers.                                             *)
OneWriter == {1}
=============================================================================
