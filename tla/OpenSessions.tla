---------------------------- MODULE OpenSessions ----------------------------
(***************************************************************************)
(* What the session store promises its callers about OPEN sessions,        *)
(* history and time left out: a member has at most one open session per    *)
(* game, whatever the source, and a start, an end and the end of a         *)
(* member's client sessions have the obvious effect on that set.           *)
(*                                                                         *)
(* PlaySessions (the game_sessions table) is shown to implement this       *)
(* module; Hub, which only ever asks what is open, is written on top of    *)
(* it.                                                                     *)
(***************************************************************************)
CONSTANTS
    Users,      \* members
    Games,      \* catalogue entries
    Sources     \* who observed the session: "client", "xbox_api", ...

VARIABLE open   \* the open sessions

Sessions == [user : Users, game : Games, source : Sources]

OpenFor(u, g) == {s \in open : s.user = u /\ s.game = g}

OpenClient(u) == {s \in open : s.user = u /\ s.source = "client"}

Init == open = {}

(* StartSession reports a change, hence presence is rebroadcast, exactly   *)
(* when nothing was open for that member and game.                         *)
StartChanges(u, g) == OpenFor(u, g) = {}

Start(u, g, src) ==
    open' = IF StartChanges(u, g)
            THEN open \cup {[user |-> u, game |-> g, source |-> src]}
            ELSE open

(* EndSession closes whatever source opened the session. *)
EndChanges(u, g) == OpenFor(u, g) # {}

End(u, g) == open' = open \ OpenFor(u, g)

EndClient(u) == open' = open \ OpenClient(u)

Next ==
    \E u \in Users :
        \/ \E g \in Games, src \in Sources : Start(u, g, src)
        \/ \E g \in Games : End(u, g)
        \/ EndClient(u)

Spec == Init /\ [][Next]_open
=============================================================================
