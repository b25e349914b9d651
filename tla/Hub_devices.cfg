\* Two devices of one member, the poller and the sweep on the same game, a
\* database that may fail and one restart.
CONSTANTS
    u1 = u1
    u2 = u2
    c1 = c1
    c2 = c2
    NoGame = NoGame
    Poller = Poller
    Sweeper = Sweeper
    Sources = {"client"}
    Users = {u1}
    Games = {g1}
    Conns = {c1, c2}
    Requests = {}
    Owner <- OneMember
    Hideable = {}
    Polled = g1
    PollerRuns = TRUE
    DbMayFail = TRUE
    MaxRestarts = 1
SPECIFICATION Spec
INVARIANTS
    TypeOK
    ConnCount
    ClientLiveHasConn
    ClientSessionsOwned
PROPERTIES
    FreshClientWins
