----------------------------- MODULE MCMatches ------------------------------
(* Instances of Matches and of the queries over it (Recap). *)
EXTENDS Recap

CONSTANTS u1, u2, p1

MCNameRank == [u \in Users |-> IF u = u1 THEN 1 ELSE 2]

Skin == [mode |-> "battlegrounds", place |-> 5, card |-> "hero_SKIN"]

MCPlays ==
    {Skin,
     [mode |-> "battlegrounds", place |-> 2, card |-> "hero"],
     [mode |-> "battlegrounds", place |-> 5, card |-> NoHero],
     [mode |-> "constructed",   place |-> 3, card |-> "hero"]}

(* The second member is there for the queries, which must keep members     *)
(* apart: plays one match, of either game, whose report no failed lookup   *)
(* drops.                                                                  *)
SecondPlaysLittle ==
    LET played == {r \in finished : r.user = u2}
    IN  /\ Cardinality(played) <= 1
        /\ \A r \in played : r.game = "rocket-league" \/ r.data = Skin
        /\ \A r \in lost : r.user = u1

(* Spec, while the second member keeps to that.                            *)
LittleSpec == Init /\ [][Next /\ SecondPlaysLittle']_vars /\ Fairness
=============================================================================
