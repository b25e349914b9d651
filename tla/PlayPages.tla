----------------------------- MODULE PlayPages ------------------------------
(***************************************************************************)
(* What the pages compute over the tables of Playtime: the page of a game, *)
(* the list of games, a member's profile, the weekly leaderboards and the  *)
(* history of sessions (internal/store/games.go, sessions.go,              *)
(* leaderboards.go; internal/api/games.go, users.go, presence.go,          *)
(* public.go).  Each query groups and filters the tables in its own way;   *)
(* all are asked for every choice of banned members, of members who hide   *)
(* their sessions and of hidden games, in every state of the tables.       *)
(*                                                                         *)
(* Left out: names and images, achievements, connections, the presence and *)
(* the plugins' blocks (modelled elsewhere), and the order of lines; the   *)
(* pages show the first 10 or 25, more than the model has.                 *)
(***************************************************************************)
EXTENDS Playtime, Orders, Sequences

CONSTANTS
    Days,       \* leaderboardWindowDays
    Limit,      \* sessions on a page of the history
    IdOf        \* of the sessions a member begins in a game by a source: a number

ASSUME PagesAssumption == Days \in Nat /\ Limit \in Nat \ {0}
ASSUME MembersAssumption == IsFiniteSet(Users) /\ IsFiniteSet(Games)
ASSUME IdsAssumption ==
    /\ IdOf \in [Users \X Games \X Sources -> Nat]
    /\ \A j, k \in DOMAIN IdOf : IdOf[j] = IdOf[k] => j = k

(* HAVING sum(...) > 0, of the keys not left out. *)
Without(f, out) == [k \in {j \in DOMAIN f \ out : f[j] > 0} |-> f[k]]

Positive(f) == Without(f, {})

(* The merge every query spells out, of a member's sessions and imports in  *)
(* one game: the sums, and the sessions since the latest sync.             *)
Merged(S, E) ==
    IF E = {} THEN Seconds(S)
    ELSE MapThenSumSet(LAMBDA e : e.total, E)
           + Seconds({r \in S : \A e \in E : r.start > e.synced})

-----------------------------------------------------------------------------
(* The page of a game.  What is shown to whom: banned members never stand  *)
(* on a list; `hiding` have sessions_visible off.                          *)

Secs(g) == LET S == {r \in rows : r.game = g}
               E == {e \in ext : e.game = g}
           IN  [u \in {x.user : x \in S} \cup {x.user : x \in E} |->
                   Merged({r \in S : r.user = u}, {e \in E : e.user = u})]

(* GameLeaderboard: the lines, and apart from them the totals, which leave *)
(* banned members out only when they leave out those who hide.             *)
Board(g, visibleOnly, banned, hiding) ==
    Without(Secs(g), banned \cup (IF visibleOnly THEN hiding ELSE {}))

Totals(g, visibleOnly, banned, hiding) ==
    LET f == Without(Secs(g), IF visibleOnly THEN banned \cup hiding ELSE {})
    IN  [secs |-> SumFunction(f), players |-> Cardinality(DOMAIN f)]

(* Closed sessions begun in the last days. *)
Lately(banned, hiding, hidden) ==
    {r \in rows : /\ ~IsOpen(r) /\ r.start >= now - Days
                  /\ r.user \notin banned \cup hiding /\ r.game \notin hidden}

(* GameRecentPlayers *)
RecentPlayers(g, banned, hiding, hidden) ==
    LET R == {r \in Lately(banned, hiding, hidden) : r.game = g}
    IN  Positive([u \in {r.user : r \in R} |-> Seconds({r \in R : r.user = u})])

(* gameDetail; publicGameDetail answers the same, but not of a hidden game. *)
GameDetail(g, banned, hiding, hidden) ==
    [board |-> Board(g, FALSE, banned, hiding), totals |-> Totals(g, FALSE, banned, hiding),
     recent |-> RecentPlayers(g, banned, hiding, hidden)]

PublicGames(banned, hiding, hidden) ==
    [g \in Games \ hidden |-> GameDetail(g, banned, hiding, hidden)]

-----------------------------------------------------------------------------
(* The other pages. *)

(* mutant of PlayedGames: banned members are counted *)
PlayedGamesOfAll(banned, hidden) ==
    LET f == [g \in Games \ hidden |-> Positive(Secs(g))]
    IN  [g \in {h \in DOMAIN f : f[h] # <<>>} |->
            [secs |-> SumFunction(f[g]), players |-> Cardinality(DOMAIN f[g])]]

(* ListPlayedGames: by game and member, then by game. *)
PlayedGames(banned, hidden) ==
    LET perPlayer == [k \in {<<x.game, x.user>> : x \in rows \cup ext} |->
                        Merged({r \in rows : r.game = k[1] /\ r.user = k[2]},
                               {e \in ext : e.game = k[1] /\ e.user = k[2]})]
        f == [k \in {j \in DOMAIN perPlayer : perPlayer[j] > 0 /\ j[2] \notin banned} |->
                perPlayer[k]]
    IN  [g \in {k[1] : k \in DOMAIN f} \ hidden |->
            [secs |-> SumFunction([k \in {j \in DOMAIN f : j[1] = g} |-> f[k]]),
             players |-> Cardinality({k \in DOMAIN f : k[1] = g})]]

(* UserGameStats: a member's line per game; users.go adds them up. *)
GameStats(u, hidden) ==
    LET S == {r \in rows : r.user = u}
        E == {e \in ext : e.user = u}
    IN  Positive([g \in ({r.game : r \in S} \cup {e.game : e \in E}) \ hidden |->
                     Merged({r \in S : r.game = g}, {e \in E : e.game = g})])

(* userProfile: what any member gets of u's time, whether u hides their    *)
(* sessions or not (only the public page leaves the figures out then).     *)
Profile(u, hidden) ==
    [games |-> GameStats(u, hidden), total |-> SumFunction(GameStats(u, hidden))]

(* WeeklyLeaderboards: two queries. *)
TopPlayers(banned, hiding, hidden) ==
    LET R == Lately(banned, hiding, hidden)
    IN  Positive([u \in {r.user : r \in R} |-> Seconds({r \in R : r.user = u})])

TopGames(banned, hiding, hidden) ==
    LET R == Lately(banned, hiding, hidden)
        f == Positive([g \in {r.game : r \in R} |-> Seconds({r \in R : r.game = g})])
    IN  [g \in DOMAIN f |->
            [secs |-> f[g], players |-> Cardinality({r.user : r \in {q \in R : q.game = g}})]]

-----------------------------------------------------------------------------
(* The history of sessions, by pages.                                      *)

(* Ids are random: any order, which decides between sessions begun at once. *)
Id(r) == IdOf[<<r.user, r.game, r.source>>]

Precedes(r, q) == r.start > q.start \/ (r.start = q.start /\ Id(r) > Id(q))

(* mutant of Past: the session of the cursor comes again *)
PastAndAt(R, cursor) == {r \in R : \A c \in cursor : r = c \/ Precedes(c, r)}

(* What lies strictly past the cursor. *)
Past(R, cursor) == {r \in R : \A c \in cursor : Precedes(c, r)}

(* ListSessions: newest first; one extra row tells whether there is a next *)
(* page.                                                                   *)
ListSessions(R, cursor) ==
    LET found == Ordered(Past(R, cursor), Precedes)
        more == Len(found) > Limit
        page == IF more THEN SubSeq(found, 1, Limit) ELSE found
    IN  [page |-> page, next |-> IF more THEN {page[Limit]} ELSE {}]

(* sessions: the pages a viewer gets of u, one after the other while there *)
(* is a next; every page but the last has a session at least.              *)
Walk(R) ==
    LET walk[k \in 0..Cardinality(R)] ==
            IF k = 0 THEN ListSessions(R, {})
            ELSE LET got == walk[k - 1]
                     p == ListSessions(R, got.next)
                 IN  IF got.next = {} THEN got
                     ELSE [page |-> got.page \o p.page, next |-> p.next]
    IN  walk[Cardinality(R)].page

(* sessionVisibilityFor: what a viewer misses of u's sessions; `discreet`  *)
(* have activity_visible off.                                              *)
SessionVisibility(privileged, hiding, discreet, u) ==
    [all |-> ~privileged /\ u \in hiding, open |-> ~privileged /\ u \in discreet]

(* When the member's settings cannot be read, nothing is held back.        *)
History(vis, read, u) ==
    IF read /\ vis.all THEN <<>>
    ELSE Walk({r \in rows : r.user = u /\ (read /\ vis.open => ~IsOpen(r))})

-----------------------------------------------------------------------------
(* What the pages compute anew, each in its way, compared.                 *)

(* A member's time in a game is the same on their profile and on the page  *)
(* of the game; games, players and profiles add up to the same.  The       *)
(* totals of a game stand for its lines only while nobody is banned.       *)
LinesAgree(banned, hiding, hidden) ==
    LET played == PlayedGames(banned, hidden)
        stats == [u \in Users |-> GameStats(u, hidden)]
        pages == PublicGames(banned, hiding, hidden)
    IN  /\ \A g \in DOMAIN pages :
              LET p == pages[g]
              IN  /\ \A u \in DOMAIN p.board : p.board[u] = stats[u][g]
                  /\ g \in DOMAIN played <=> p.board # <<>>
                  /\ g \in DOMAIN played =>
                        /\ played[g].secs = SumFunction(p.board)
                        /\ played[g].players = Cardinality(DOMAIN p.board)
                        /\ banned = {} => played[g] = p.totals
        /\ SumFunction([u \in Users \ banned |-> Profile(u, hidden).total])
              = SumFunction([g \in DOMAIN played |-> played[g].secs])

(* The week counts as a player who played no whole second. *)
WeekAgrees(banned, hiding, hidden) ==
    LET games == TopGames(banned, hiding, hidden)
    IN  /\ \A g \in Games :
              LET recent == RecentPlayers(g, banned, hiding, hidden)
              IN  /\ g \in DOMAIN games <=> recent # <<>>
                  /\ g \in DOMAIN games => /\ games[g].secs = SumFunction(recent)
                                           /\ games[g].players >= Cardinality(DOMAIN recent)
        /\ SumFunction(TopPlayers(banned, hiding, hidden))
              = SumFunction([g \in DOMAIN games |-> games[g].secs])

(* What playtime.go defines, and the pages show. *)
FiguresAgree ==
    \A u \in Users, g \in Games :
        LET stats == GameStats(u, {})
        IN  Effective(u, g) = IF g \in DOMAIN stats THEN stats[g] ELSE 0

(* One fact is shown by all pages alike, whoever is banned or hides their  *)
(* sessions and whichever games are hidden: the queries of store/games.go, *)
(* sessions.go and leaderboards.go spell the same merge out (games.go:109) *)
(* and give a member's time in a game the figure playtime.go defines.      *)
PagesAgree ==
    /\ \A out \in SUBSET Users, hidden \in SUBSET Games :
          LinesAgree(out, {}, hidden) /\ WeekAgrees({}, out, hidden)
    /\ FiguresAgree

(* The pages of a member's history give each session the viewer may see    *)
(* once, the newest first (presence.go); all of them, those the member     *)
(* holds back too, when the member's settings could not be read (those of  *)
(* a member who holds back nothing make no difference).                    *)
HistoryWhole ==
    \A u \in Users : \A discreet \in SUBSET {u}, read \in BOOLEAN :
        u \in discreet \/ read =>
        LET s == History(SessionVisibility(FALSE, {}, discreet, u), read, u)
        IN  /\ {s[i] : i \in DOMAIN s} =
                  {r \in rows : r.user = u /\ (read /\ u \in discreet => ~IsOpen(r))}
            /\ \A i, j \in DOMAIN s : i < j => Precedes(s[i], s[j])

-----------------------------------------------------------------------------
(* What a comment promises and the code does not keep (see the README).    *)

(* presence.go:124-126: "Honor a target member's privacy toggles."  No     *)
(* open session of a member who hides their activity is then ever listed;  *)
(* but the handler goes on without the toggles when it cannot read them.   *)
TogglesHonored ==
    \A u \in Users, read \in BOOLEAN :
        LET s == History(SessionVisibility(FALSE, {}, {u}, u), read, u)
        IN  \A i \in DOMAIN s : ~IsOpen(s[i])
=============================================================================
