\* One device whose match is live while its member changes visibility and status
\* through the API.
CONSTANTS
    u1 = u1
    u2 = u2
    c1 = c1
    c2 = c2
    NoGame = NoGame
    Poller = Poller
    Sweeper = Sweeper
    Sources = {"client"}
    Users = {u1}
    Games = {g1}
    Conns = {c1}
    Requests = {r1}
    Owner <- OneMember
    Hideable = {}
    Polled = g1
    PollerRuns = FALSE
    DbMayFail = TRUE
    MaxRestarts = 0
SPECIFICATION FairSpec
PROPERTIES
    HiddenEntryDies
