-------------------------- MODULE MCRedisRateLimit --------------------------
(* Values of the constants of RedisRateLimit for TLC. *)
EXTENDS RedisRateLimit

CONSTANTS s1, s2, c1, c2

TwoServers == {s1, s2}
TwoCalls   == {c1, c2}

\* Processes of two hosts: the second clock is a tick ahead.
TickApart == [s \in TwoServers |-> IF s = s1 THEN 0 ELSE 1]

=============================================================================
