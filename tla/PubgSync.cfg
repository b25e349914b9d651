\* Matches kept 3 days, days 0 to 3, 2 matches, 1 failure, 3 requests.
CONSTANTS
    m1 = m1
    m2 = m2
    a1 = a1
    a2 = a2
    s1 = s1
    s2 = s2
    r1 = r1
    r2 = r2
    Nothing = Nothing
    Members = {m1, m2}
    Accounts = {a1, a2}
    Shards = {s1, s2}
    ShardOf <- Shard
    MayLink <- Named
    Requests = {r1, r2}
    Caller <- CallerOf
    Unplayable <- Training
    Retention = 3
    MaxDay = 3
    MaxPlays = 2
    MaxTrouble = 1
    MaxLinks = 3
SPECIFICATION Spec
INVARIANTS
    CollectedInTime
    LinkResolves
