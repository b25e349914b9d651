\* Two members; the first has a console with two games, of which Steam knows one and
\* the clients detect one; a flap of one tick is merged, a pause of two is not;
\* pages of one session.
CONSTANTS
    u1 = u1
    u2 = u2
    g1 = g1
    g2 = g2
    Users = {u1, u2}
    Games = {g1, g2}
    SteamGames = {g1}
    ClientGames = {g1}
    Sources = {"client", "xbox_api"}
    Window = 2
    MaxTime = 2
    Days = 1
    Limit = 1
    IdOf <- MCIdOf
SPECIFICATION LittleSpec
INVARIANTS
    FlapsAreMerged
    OneOpenPerGame
    OneConsoleSession
    NeverDoubled
    PagesAgree
    HistoryWhole
PROPERTIES
    HistoryKept
    ImplementsOpenSessions
