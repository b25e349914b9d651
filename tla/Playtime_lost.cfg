\* One member with a console, one game of their Steam library.
CONSTANTS
    Users = {u1}
    Games = {g1}
    SteamGames = {g1}
    ClientGames = {g1}
    Sources = {"client", "xbox_api"}
    Window = 2
    MaxTime = 2
SPECIFICATION PlaySpec
INVARIANTS
    LocalPlayKept
CHECK_DEADLOCK FALSE
