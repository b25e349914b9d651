----------------------------- MODULE MCBackfill -----------------------------
(* Two members with a Riot account each, for Backfill. *)
EXTENDS Backfill

CONSTANTS m1, m2, a1, a2, r1

Both == {<<m1, a1>>, <<m2, a2>>}
CallerOf == [r \in Requests |-> IF r = r1 THEN m1 ELSE m2]

MatchOf(a, t) == [account |-> a, time |-> t]
ThreeAndOne == {MatchOf(a1, t) : t \in 1..3} \cup {MatchOf(a2, 2)}
Unplayed == {MatchOf(a1, 4)}
OldestOfFirst == {MatchOf(a1, 1)}
=============================================================================
