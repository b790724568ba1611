---------------------------- MODULE MCRedisOwn ----------------------------
(* A writer and a reader, both with a connection of their own.             *)
EXTENDS RedisOwn

MCClients == 1 .. 2
MCWriters == {1}
=============================================================================
