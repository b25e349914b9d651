\* Two members with one device each, one game, which an admin hides and brings
\* back, no poller, no failure: what the pages show.
CONSTANTS
    u1 = u1
    u2 = u2
    c1 = c1
    c2 = c2
    NoGame = NoGame
    Poller = Poller
    Sweeper = Sweeper
    Sources = {"client"}
    Users = {u1, u2}
    Games = {g1}
    Conns = {c1, c2}
    Requests = {}
    Owner <- TwoMembers
    Hideable = {g1}
    Polled = g1
    PollerRuns = FALSE
    DbMayFail = FALSE
    MaxRestarts = 0
SPECIFICATION FairSpec
INVARIANTS
    PresenceSettles
    NoFrozenCard
PROPERTIES
    FrozenCardsFall
