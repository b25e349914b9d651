----------------------------- MODULE MCPubgSync -----------------------------
(* Two members and two shards, for PubgSync: the first has an account on   *)
(* each shard, the second may only link the first one's.                   *)
EXTENDS PubgSync

CONSTANTS m1, m2, a1, a2, s1, s2, r1, r2

Shard == [a \in Accounts |-> IF a = a1 THEN s1 ELSE s2]
Named == {<<m1, a1>>, <<m1, a2>>, <<m2, a1>>}
Training == {[account |-> a1, day |-> 1]}
CallerOf == [r \in Requests |-> IF r = r1 THEN m1 ELSE m2]
=============================================================================
