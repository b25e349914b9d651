----------------------------- MODULE MCPlaytime -----------------------------
(* Instances of Playtime and of the pages over it (PlayPages). *)
EXTENDS PlayPages

CONSTANTS u1, u2, g1, g2

MCIdOf ==
    [k \in Users \X Games \X Sources |->
        (IF k[1] = u1 THEN 1 ELSE 0) + (IF k[2] = g1 THEN 2 ELSE 0)
          + (IF k[3] = "client" THEN 4 ELSE 0)]

(* The second member has a client and one game, no library and no console, *)
(* comes first and leaves by the first tick.                               *)
SecondPlaysLittle ==
    /\ \A r \in rows : r.user = u2 => r.source = "client" /\ r.start = 0 /\ r.end <= 1
    /\ (\E r \in rows : r.user = u1) => \E r \in rows : r.user = u2
    /\ \A e \in ext : e.user = u1
    /\ \A g \in SteamGames : lifetime[<<u2, g>>] = {}
    /\ \A p \in poll : p.user = u1
    /\ now = 2 => OpenOf(u2) = {}

(* The second member plays the first tick and leaves before anything else. *)
SecondPlaysOneTick ==
    /\ \A r \in rows : r.user = u2 => IsOpen(r) \/ r.end = 1
    /\ ext \cup poll # {} => \E r \in rows : r.user = u2
    /\ \/ \E r \in rows : r.user = u1 /\ (r.start = 1 \/ r.end = 1)
       \/ \E e \in ext : e.synced = 1
       \/ now = 1 /\ poll # {}
       => OpenOf(u2) = {}

(* PlaySpec, while the second member keeps to that.                        *)
LittleSpec ==
    PlayInit /\ [][PlayNext /\ SecondPlaysLittle' /\ SecondPlaysOneTick']_playVars
=============================================================================
