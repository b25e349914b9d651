------------------------------ MODULE Playtime ------------------------------
(***************************************************************************)
(* Who writes the sessions of PlaySessions besides the member's client,    *)
(* and what is counted over them: the poller of Xbox presence              *)
(* (internal/xboxsync), the import of a Steam library (internal/steamsync, *)
(* store/steam_import.go) and the playtime shown for a game                *)
(* (store/playtime.go, sessions.go, games.go).                             *)
(*                                                                         *)
(* The poller is one goroutine that takes the members in turn: at most one *)
(* member is being reconciled, and makes one step per statement, any of    *)
(* which may fail.  What it reads of the console was true at some earlier  *)
(* instant: anything.  Steam is external: it counts some of the ticks a    *)
(* game is played, whether or not the client sees them, and the figure a   *)
(* sync brings may be old, as of any earlier tick, or hidden.  A sync is   *)
(* one statement, whether the poller or the member asked for it.           *)
(***************************************************************************)
EXTENDS PlaySessions, FiniteSetsExt

CONSTANTS
    SteamGames,     \* the games of the Steam libraries
    ClientGames     \* those with an executable, which a client can detect

Console == "xbox_api"       \* the source the poller writes

ASSUME LibraryAssumption == SteamGames \subseteq Games
ASSUME ClientAssumption == ClientGames \subseteq Games
ASSUME ConsoleAssumption == Console \in Sources

VARIABLES
    poll,       \* the member being reconciled, if any
    lifetime,   \* the ticks Steam counted, by member and game
    ext         \* external_playtime

playVars == <<rows, now, poll, lifetime, ext>>

-----------------------------------------------------------------------------
(* The presence poller. *)

(* OpenSessionBySource: the newest. *)
OpenConsole(u) == Newest({r \in OpenOf(u) : r.source = Console})

(* Presence, then OpenSessionBySource: the steps they lead to.  `playing`  *)
(* has the game of the title on the console, or is empty.                  *)
Reconcile(u, playing) ==
    /\ poll = {}
    /\ LET ends == {r.game : r \in OpenConsole(u)} \ playing
           starts == IF \E r \in OpenConsole(u) : r.game \in playing THEN {} ELSE playing
       IN  /\ ends \cup starts # {}
           /\ poll' = {[user |-> u, ends |-> ends, starts |-> starts]}
    /\ UNCHANGED <<rows, now, lifetime, ext>>

(* mutant of Proceed: the next session is started although the previous    *)
(* one could not be ended                                                  *)
ProceedAnyway(p, ok) == [p EXCEPT !.ends = {}]

(* What is left to do after the previous session was ended, or was not.    *)
Proceed(p, ok) == [p EXCEPT !.ends = {}, !.starts = IF ok THEN @ ELSE {}]

Rest(p) == poll' = IF p.starts = {} THEN {} ELSE {p}

EndPrevious ==
    /\ \E p \in poll, g \in UNION {q.ends : q \in poll}, ok \in BOOLEAN :
          /\ IF ok THEN Close(OpenRows(p.user, g)) ELSE UNCHANGED rows
          /\ Rest(Proceed(p, ok))
    /\ UNCHANGED <<now, lifetime, ext>>

(* A start is a no-op while any source has the game open; it may fail,     *)
(* with the previous session ended and nobody told.                        *)
StartNext ==
    /\ \E p \in poll, g \in UNION {q.starts : q \in poll} :
          /\ p.ends = {}
          /\ \/ StartSession(p.user, g, Console)
             \/ UNCHANGED <<rows, now>>
    /\ poll' = {}
    /\ UNCHANGED <<lifetime, ext>>

-----------------------------------------------------------------------------
(* The import. *)

Duration(r) == IF IsOpen(r) THEN 0 ELSE r.end - r.start

Seconds(R) == MapThenSumSet(Duration, R)

SessionsOf(u, g) == {r \in rows : r.user = u /\ r.game = g}

Imported(u, g) == {e \in ext : e.user = u /\ e.game = g}

(* Strictly after the sync. *)
Since(u, g, synced) == {r \in SessionsOf(u, g) : r.start > synced}

(* effectivePlaytimeSeconds, as the three queries write it. *)
Effective(u, g) ==
    IF Imported(u, g) = {} THEN Seconds(SessionsOf(u, g))
    ELSE MapThenSumSet(LAMBDA e : e.total + Seconds(Since(u, g, e.synced)), Imported(u, g))

(* mutant of Resynced: the window of the sessions since is not restarted *)
ResyncedKeepsWindow(e, platform) ==
    [e EXCEPT !.total = LET estimated == @ + Seconds(Since(e.user, e.game, e.synced))
                        IN  IF platform > estimated THEN platform ELSE estimated]

(* syncedBaseline *)
Resynced(e, platform) ==
    [e EXCEPT !.total = LET estimated == @ + Seconds(Since(e.user, e.game, e.synced))
                        IN  IF platform > estimated THEN platform ELSE estimated,
              !.synced = now]

(* UpsertExternalPlaytime: the first import takes the platform's figure. *)
Sync(u, g, platform) ==
    /\ ext' = IF Imported(u, g) = {}
              THEN ext \cup {[user |-> u, game |-> g, total |-> platform, synced |-> now]}
              ELSE {IF e \in Imported(u, g) THEN Resynced(e, platform) ELSE e : e \in ext}
    /\ UNCHANGED <<rows, now, poll, lifetime>>

(* A tick, of which Steam counts the games in S for each member. *)
PlayTick(S) ==
    /\ Tick
    /\ lifetime' = [k \in Users \X SteamGames |->
                        IF k \in S THEN lifetime[k] \cup {now} ELSE lifetime[k]]
    /\ UNCHANGED <<poll, ext>>

-----------------------------------------------------------------------------
PlayInit ==
    /\ Init
    /\ poll = {}
    /\ lifetime = [k \in Users \X SteamGames |-> {}]
    /\ ext = {}

(* The member's client, over its connection. *)
ClientStep(u) ==
    /\ \/ \E g \in ClientGames : StartSession(u, g, "client") \/ EndSession(u, g)
       \/ EndClientSessions(u)
    /\ UNCHANGED <<poll, lifetime, ext>>

PlayNext ==
    \/ \E u \in Users : ClientStep(u)
    \/ \E u \in Users, playing \in {{}} \cup {{g} : g \in Games} : Reconcile(u, playing)
    \/ EndPrevious \/ StartNext
    \/ \E u \in Users, g \in SteamGames :
          \E platform \in 0..Cardinality(lifetime[<<u, g>>]) : Sync(u, g, platform)
    \/ \E S \in SUBSET (Users \X SteamGames) : PlayTick(S)

PlaySpec == PlayInit /\ [][PlayNext]_playVars

-----------------------------------------------------------------------------
(* A console plays one game: the poller never leaves two of its sessions   *)
(* open, whatever the client starts and ends meanwhile and whatever fails. *)
OneConsoleSession ==
    \A r, q \in rows : /\ IsOpen(r) /\ IsOpen(q)
                       /\ r.source = Console /\ q.source = Console /\ r.user = q.user
                       => r = q

(* The ticks somebody saw the member play: a session covered them (with    *)
(* the gaps merging bridges), or Steam counted them.                       *)
Played(u, g) ==
    {t \in 0..(now - 1) : \E r \in SessionsOf(u, g) : r.start <= t /\ (IsOpen(r) \/ t < r.end)}
        \cup lifetime[<<u, g>>]

(* Time is shown once, although the client and Steam both see it and syncs *)
(* cut it anywhere: never more than was played, unless two sources         *)
(* recorded sessions that overlap.                                         *)
NeverDoubled ==
    \A u \in Users, g \in SteamGames :
        \/ Effective(u, g) <= Cardinality(Played(u, g))
        \/ \E r, q \in SessionsOf(u, g) : r # q /\ Overlap(r, q)

(* playtime.go:13-15: "local play the platform never observed is never     *)
(* lost".  Play a session recorded stays in what is shown, once closed.    *)
LocalPlayKept ==
    \A u \in Users, g \in SteamGames :
        (\A r \in SessionsOf(u, g) : ~IsOpen(r)) => Effective(u, g) >= Seconds(SessionsOf(u, g))
=============================================================================
