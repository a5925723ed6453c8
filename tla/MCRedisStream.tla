---------------------------- MODULE MCRedisStream ----------------------------
(* Tasks and processes for checking RedisStream.                           *)
EXTENDS RedisStream

CONSTANTS t1, t2, g1, c1, c2

TwoTasks == {t1, t2}
OneGraph == {g1}
TwoConsumers == {c1, c2}

\* The XADD of one task may be sent again.
OneAgain == [t \in Task |-> IF t = t1 THEN 2 ELSE 1]
=============================================================================
