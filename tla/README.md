# kfire-server: a TLA+ verification project

kfire-server keeps, for a self-hosted group of players, who is online, what
they are playing and what they have played. Desktop clients and web pages hold
WebSocket connections to one Go process; pollers ask Xbox, Riot, PUBG, Steam
and Battle.net for the rest; PostgreSQL keeps everything that must survive a
restart. This directory holds TLA+ modules translated from that code, TLC runs
over small instances of them, and theorems checked by TLAPS for every value of
the constants. Paths below are relative to the repository.

## 1. Inventory

| component | state it keeps | operations | modules | hard because |
|---|---|---|---|---|
| Session store (`internal/store/sessions.go`) | `game_sessions` rows: member, game, source, start, end | start (merging a flap), end, end of a member's client sessions, the presence queries | `OpenSessions`, `PlaySessions` | several sources report the same game; a start may reopen an old row; one open row per game is guarded by an index only |
| Xbox poller (`internal/xboxsync`), playtime (`store/playtime.go`, `steam_import.go`) | sessions of its source; imported baselines | reconcile each linked member; import and re-sync a library | `Playtime` | switching games is two calls, either may fail, beside the member's client; baseline and sessions must not count the same minutes |
| Pages of playtime (`store/games.go`, `leaderboards.go`, `api/games.go`, `users.go`, `presence.go`, `public.go`) | none | game page, list, profile, week, history | `PlayPages` | each query spells out the same merge with filters of its own |
| WebSocket hub (`internal/ws`), League live poller (`internal/riotsync/live.go`) | `online`, `live`, `liveVisible` behind one lock; per connection the identity cached at hello | hello, game event, live match, unregister, presence broadcast, visibility change, poll, sweep | `Hub` | one goroutine per connection, request and poller; the lock is released around every query and broadcast; memory is lost at a restart |
| Match recorders (`internal/matchrecord`, `rocketleague`, `hearthstone`), recap and records (`api/recap.go`, `store/recap.go`, `hearthstone.go`) | two match tables | validate and insert a report; count them | `Matches`, `Recap` | no acknowledgement, clocks that run ahead, echoes of a match; several queries for one record |
| League history (`riotsync/backfill.go`, `store/lol.go`) | matches, a history cursor per member | backwards walk in batches, link, unlink | `Backfill` | cursor and inserts are separate statements; failures in mid batch; a relink during a batch |
| Publisher limiters (`connectors/riot/limiter.go`, `connectors/pubg/pubg.go`) | next free slot | reserve a slot and sleep, penalise on 429, retry | `RateLimiter` | callers sleep towards reserved slots while a penalty moves the cursor |
| PUBG collection (`pubgsync`, `store/pubg.go`, `api/connect_pubg.go`) | matches, identity and shard of each link | daily pass, link, correct the shard, unlink | `PubgSync` | the publisher deletes matches after a fortnight; a link is two rows written apart |
| Accounts (`api/auth.go`, `reset.go`), pairing (`api/pairing.go`), the web client's tokens | refresh tokens, reset links, pairings; the tokens a client holds | login, refresh, logout, reset, start, approve, poll, claim | `SignIn` | requests of several database calls and no transaction; answers that are lost |
| Members and invites (`api/auth.go`, `admin.go`, `store/users.go`, `invites.go`) | users, roles, bans, invites, the organisation | register, invite, promote, demote, ban | `Members` | counts read before they are acted on (last administrator, first account, an invite's use) |
| Game pages (`gameplugin`, `bnetsync`, `riotsync/syncer.go`, `api/connect_riot.go`) | plugin flag and its cache, link, routing, rows, throttle | view (refresh), link, unlink, correct the region, switch a plugin | `GamePages` | two views at once, partial answers, two tables written in opposite orders |
| Catalogue (`internal/games/discord.go`, `cmd/kfire-server/main.go`, `store/games.go`, `orgs.go`, `steamsync`) | games and the executables that detect them, two clocks of the last import | normalise, import on schedule or by hand, add or claim games of a Steam library | `Catalogue` | slugs are picked against a table read earlier; several clocks may be unset or forgotten |
| HTTP plumbing, images, branding, web rendering | none of interest here | | | pure I/O |

Interaction in one paragraph: a client's read loop calls the session store,
then the hub broadcasts presence computed from its memory, the identity cached
at hello and a fresh query of the store. `PATCH /users/me` writes the users
table and then tells the hub. The console poller and the Steam import write the
same table the client does, and every page computes playtime from it. The
League poller publishes states into the hub's `live` map; a sweep takes out the
entries nobody refreshes. Match reports arrive over the client's connection and
end in two tables that the recap reads. Requests share the database and nothing
else: no handler modelled here opens a transaction, so `Requests` gives each a
slot and one step per database call, and `SignIn`, `Members`, `GamePages` and
`Catalogue` are built on it. `Catalogue` extends `Members`, since the stamp of
an import lives in the row the first registration inserts.

What makes each part correct, in short. Sessions: one open row per game, one
per console, flaps merged, history never lost, no minute shown twice, every page
showing the same figure. Hub: connections counted right, nothing of a member
outlives the last connection unnoticed, pages end up agreeing with memory and
database, a hidden member's match disappears, a client's own data wins over the
server's. Matches: every real match has one row and nothing else has one.
Backfill: every match older than the first sync is eventually stored, none
skipped. PUBG: no match of a linked member is lost to the publisher's deletion.
Limiters: calls stay spaced, penalties are kept, every call ends. Sign-in: a
client left alone stays signed in, a reset ends the older sessions, a pairing is
served once. Members: an unbanned administrator remains, an invite seats one.
Game pages: a roster is not replaced by nothing, a link is whole. Catalogue: an
import lands as computed, and the catalogue stays younger than a week.

`PROJECT.json` lists the hazards met while reading, at their lines, with the
properties that cover them.

## 2. The modules

### OpenSessions, PlaySessions

`PlaySessions` is the table. Every operation is one SQL statement, so one
action: `StartSession` (lines 31-69 of `sessions.go`: merge into the row of the
same source that ended last within the window, else insert, in both cases a
no-op when the partial unique index finds an open row), `EndSession`,
`EndClientSessions`; `Tick` is the database's clock. A row is a record with
`start` and `end`; `Null` is an open end. `LatestOpenSession` and
`ListPresence` are the two queries that answer "what is this member playing",
asked for any set of games an admin has hidden.

`OpenSessions` is what callers may rely on: the set of open sessions alone.
`PlaySessions` implements it (`ImplementsOpenSessions`), and `Hub` is written
on top of it, so the table's clock and history need not be carried through the
hub's interleavings.

### Playtime, PlayPages, MCPlaytime

`Playtime` adds the other writers to the table and the import beside it.

| code | actions |
|---|---|
| `syncUser` of `xboxsync` | `Reconcile` (what the console shows and what is open), `EndPrevious`, `StartNext`; each statement may fail |
| the client's connection | `ClientStep`: the operations of `PlaySessions` |
| `UpsertExternalPlaytime` | `Sync`, with any figure Steam had at some earlier tick |
| the clock | `PlayTick`, in which Steam counts any of the games |

`Effective` is `effectivePlaytimeSeconds`, `Resynced` is `syncedBaseline`.
`lifetime` is what Steam counted; it is what `NeverDoubled` measures against.
`PlayPages` has no state of its own: every operator is one query or handler.
`PagesAgree` compares them line by line (`LinesAgree`), over the week
(`WeekAgrees`) and with the figure `playtime.go` defines (`FiguresAgree`), for
every choice of banned members, members who hide and hidden games. `Orders` is
the ORDER BY of these queries. `ListSessions` is one page of a history, `Past` the
condition of its cursor and `Walk` the pages one after the other, a recursive
function; ids are random in the code, so `IdOf` is any injective numbering, and
`HistoryWhole` says what the pages give together.

### Hub, MCHub

`Hub` follows the goroutines. `pc` says where each one is; an action is what it
does between two points where another may run: one critical section, one
database call or one broadcast.

| code | actions |
|---|---|
| `handleHello` | `HelloRead` (database), `HelloAllow` (`setLiveVisible`), `HelloConnect` (`connect`), `Greet` |
| `BroadcastPresence` | `ReadOnline`, `ReadSession`, `SendPresence` |
| `handleGameEvent` | `GameStarted`, `GameStopped`, then the broadcast |
| `handleLiveMatch` | `LiveSample` (permission), `LiveStore` (`setLive`), `LiveRead` (`liveJSON`), `LiveSend`; `LiveEnded`, `SayNil` |
| `unregister` | `Unregister` (critical section), `EndSessions` or `EndSessionsFails`, the broadcast, `SayNil` |
| `updateMe`, `SetVisibility` | `ChangeAccount`, `RequestRead`, the broadcast, `RequestAllow`, `RequestCut`, `SayNil` |
| `setGameHidden` | `SetGameHidden` |
| `pollLive`, `PublishLive`, `liveAllowedOrLoad` | `PollPlayers`, `PollNothing`, `PollEnded`, `PollPlaying`, `PollRead`, `PollAllow`, then `LiveStore` on |
| `SweepLive` | `Sweep`, `SweepSay` |
| the clock, the process | `Elapse`, `Restart` |

A page is what the last broadcasts about a member left on it: `shown`
(presence) and `card` (live match). Time is abstracted to a live entry being
fresh or past its TTL. `leaked` is a history variable: client sessions whose
closer was lost to a failed query or a restart, which is what the code accepts.
A connection value may be used again after it closes, which stands for
reconnections.

`MCHub` names casts: one member with several connections, or two members.

### Matches, Recap, MCMatches

| code | actions |
|---|---|
| the desktop client (external) | `Finish` (a match ends, its report is queued), `Echo` (the post-match screen makes a second one) |
| `handleMatchResult`, the recorders, the two inserts | `LookupFails` (the game cannot be looked up), `Refused` (untracked or invalid), `Recorded` (the client may or may not get to know) |
| the clock | `Tick` |

One connection handles its messages in turn and the insert is one statement, so a
delivery is one action. `Print` is the result, score and statistics of a match
as one value, which is what the duplicate rule compares. A lookup of the game that
fails, for whatever reason, is answered with the code of an unknown game, on which
the client drops its report; `lost` is a history variable: the reports dropped so.
A Hearthstone report may name no hero (`NoHero`); the queries about heroes leave
such a row out (`WithHero`), the ranked total keeps it. `Recap` holds the
queries over the tables: recap windows, timeline, blocks, the guild's and the
members' records. Matches of one instant are ordered by username, as the queries
do; `NameRank` is any order of the members. `Merge` follows the loop of
`mergeRecapTimeline`, one entry a turn.

### Backfill, MCBackfill

One goroutine walks, requests link and unlink accounts around it. Each action is
one database or Riot call.

| code | actions |
|---|---|
| `backfillStep`, `LolBackfillPending` | `Pick`: the pending member with the oldest cursor, NULL first |
| `LolBackfillCursor`, `MatchIDsBefore` | `ReadCursor`, `ListIds` (the newest `PageSize` matches at or before the cursor) |
| the loop over a page | `StoreMatch`, `LoseMatch` (insert failed), `SkipMatch` (permanent answer), `TransientFailure` (page given up) |
| the end of a page | `Advance`, `Finish`; `CallFails` for a cursor that cannot be read or written, ids that cannot be listed |
| `connectRiot` | `Connect`, `WriteIdentity`, `WriteRouting`, or `RoutingFails` and the rollback `Unlink` |
| `disconnectRiot` | `Disconnect` (routing and cursor), `Unlink` (identity) |
| the world | `Play`, `Restart` |

`played` is what Riot knows, `stored` the table, `before` and `done` the columns
of `riot_accounts`, `routed` the members who have a row there. `lost` is a
history variable: inserts that failed.

### RateLimiter, MCRateLimiter

Riot's and PUBG's limiters are the same algorithm, written twice. `Reserve` is
the locked part of `wait`, `Send` and `Cancel` its two ways out, `Refuse` a 429
with `penalise`, `Retry` the loop of `get`; a caller in `Free` asks for a path
that `countsAgainstQuota` leaves unmetered, whose 429 still penalises everybody.
`next` is the limiter's cursor. `reserved` (the slots handed out) and `until`
(the latest instant a 429 asked to wait for) are history variables. A limiter
that is absent (nil, in tests) is not modelled.

### PubgSync, MCPubgSync

| code | actions |
|---|---|
| `Run` | `Tick`, `Restart` (a pass runs at once) |
| `SyncAll`, `PubgLinkedMembers` | `BeginPass`, `PassFails`, `PassDone` |
| `syncMember`, `PubgKnownMatchIDs`, `PlayerByID` | `ListMatches`, `Unresolved` (404 on the wrong shard), `SkipMember`, `MemberDone` |
| `walk`, `MatchForPlayer`, `InsertPubgMatch` | `StoreMatch`, `SkipMatch` (permanent), `LeaveMatch` (passing failure of the read or the insert) |
| `connectPubg` | `Connect`, `WriteIdentity`, `WriteRouting`, or `RoutingFails` and the rollback `Unlink` |
| `updatePubgPlatform` | `Correct`, `WriteIdentity`, `WriteRouting`, or `RoutingFails` with no rollback |
| `disconnectPubg` | `Disconnect` (the shard), `Unlink` (the identity) |
| the world | `Play` |

Members of a pass and matches of a member come in any order, which includes the
code's. A match is its account and the day it was played; `link` and `shard` are
the two rows of a link. History variables: `since`, the day a member's link was
last written, and `torn`, the members whose link a failure or a restart left
half written.

### Requests, SignIn, MCSignIn

`Requests` is the slots: `Begin`, `Goto`, `Done`. A handler is a record that
says at which database call it stands; it may stop at any of them (`Stop`), and
what it has written stays. `slips` is a history variable: what overlapped,
failed or stopped, by which the properties say when they hold.

| code | actions |
|---|---|
| `login`, `refresh`, `issueTokens` | `Login`, `Refresh`, `RefreshFails`, `ReadUser`, `Mint`, and the client's `Deliver` |
| `logout`, the access token's end | `Logout`, `AccessEnds` |
| `adminResetPassword`, `doReset` | `AdminReset`, `InsertLink`, `LinkExpires`, `DoReset`, `ConsumeLink`, `SetUserPassword`, `Revoke` |
| `pairStart`, `pairApprove`, `pairPoll` | `PairStart`, `PairApprove`, `PairExpires`, `PairPoll`, `Claim` |
| `patchMember` | `SetUserBanned` (the tokens stay) |

A token is a number. A row of `refresh_tokens` remembers by which password its
session was opened (`gen`) and, in `past`, what took a session of a replaced
password past the reset: "crossing" is a login or a refresh that was under way
across the revocation (`ended` counts revocations, and a request remembers the
count it began under), "pairing" a pairing that an access token of the old time
approved, before the reset or after it, and a refreshed session keeps its mark. An
access token is stateless: `acc` says of a device whose it is and by which
password it was opened, and a reset leaves it alone. `calm` says of a device that
since its sign-in nothing overlapped, was lost or was revoked.

### Members, Catalogue, MCCatalogue

| code | actions |
|---|---|
| `register`, `EnsureDefaultOrg`, `CreateUser`, `ConsumeInvite` | `Register` (`Admission` is its rules), `FindOrg`, `InsertOrg`, `CreateUser`, `ConsumeInvite` |
| `createInvite`, `deleteInvite` and expiry | `CreateInvite`, `EndInvite` |
| `patchMember` | `PatchMember` (target read once), `CountFor`, `SetUserRole`, `SetUserBanned` |
| `refreshCatalog`, `catalogImportReason` | `Check`, `Elapse`, `Restart` |
| `importCatalog`, `syncGames`, `FetchSeed`, `UpsertGames`, `SetGamesSyncedAt` | `SyncGames`, `FetchSeed`, `ReadSlugs`, `UpsertGame` (one per seed), `Stamp`, `ImportFails` |
| `UpsertSteamGame` | `SyncApp`, `AdoptSteamGame`, `InsertSteamGame` |
| Discord | `Publish` |

`Normalize` is the algorithm of `discord.go`: which file names identify a game,
which need their directories, which are shared by too many. A path is the sequence
of its segments. An entry of one segment is a file name; a longer one is matched as
a suffix of a process's path (`Detected`, which is the desktop client's part and
follows what `discord.go:202-204` says of it). A seed is a chunk of
its own, since a chunk is atomic and seeds of two chunks may interleave with
anything. The games the migrations insert are there from the start (`Curated`).
The import of the schedule takes a slot like a request, and `MemberStep` is a
step of `Members` that leaves the catalogue's slots alone. `age` is a history
variable.

### GamePages, MCGamePages

| code | actions |
|---|---|
| `playerGame`, `RefreshWow`, `RefreshBnetGame`, `RefreshLoL` | `View`, `ReadStamp`, `FetchRoster` or `FetchProfile`, `Count`, `Write`, `Mark` |
| `connectRiot`, `disconnectRiot`, `updateRiotRegion` | `Connect`, `WriteIdentity`, `WriteRouting`, `UndoIdentity`, `Disconnect`, `DisconnectStep`, `CorrectRegion`, `WriteRegion` |
| `connectBattlenet` and its opposite | `LinkBattlenet` |
| `setGamePlugin`, `SetEnabled`, `Load` | `SetPlugin`, `WriteFlag`, `WriteCache`, `Restart` |
| statements that fail, the clock | `Fail`, `Elapse` |

A behaviour is about one page, drawn at `Init`: refreshes of different games
write different rows.

## 3. The runs

| run | instance | shows |
|---|---|---|
| `Playtime` | 2 members (the second plays little), 2 games, client and console, one game of a Steam library, window 2, 3 instants, a week of one, pages of one session | `FlapsAreMerged`, `OneOpenPerGame`, `OneConsoleSession`, `NeverDoubled`, `PagesAgree`, `HistoryWhole`, `HistoryKept`, implementation of `OpenSessions` |
| `Hub_devices` | 1 member, 2 connections, poller, sweep, failing database, 1 restart | types, `ConnCount`, `ClientLiveHasConn`, `ClientSessionsOwned`, `FreshClientWins` |
| `Hub_members` | 2 members with one connection each, a game hidden and brought back | `PresenceSettles`, `NoFrozenCard`, and `FrozenCardsFall` under fairness |
| `Hub_hiding` | 1 connection, 1 request, failing database | `HiddenEntryDies` under fairness |
| `Matches` | 2 members, matches of 3 ticks with echoes one tick late, clocks one tick ahead, 2 matches of the first and 1 of the second, 1 failed lookup | `EachMatchOnce`, `RecapAgrees`, `PagesAgree`, and `EveryMatchLands` under fairness |
| `Backfill` | 2 members with 3 and 1 past matches, an unusable fourth that may be played, pages of 2, 4 requests, 1 failure | types, `NoHole`, `CursorFalls`, and `WalkEnds` under fairness |
| `RateLimiter` | 3 goroutines, one unmetered, interval 2, penalties 0 and 3, 1 retry, 3 calls | `Paced`, `PenaltyHeld`, and `EveryCallEnds` under fairness |
| `PubgSync` | 2 members, 2 accounts on 2 shards, retention of 3 days, days 0 to 3, 2 matches, 3 requests of 2 callers, 1 failure, any number of restarts | `CollectedInTime`, `LinkResolves` |
| `SignIn` | 1 account, 1 device, 2 requests at once, 3 tokens, 1 reset link | `StaysSignedIn`, `ResetEndsSessions`, `ServedOnce` |
| `Catalogue` | 3 users, 1 invite code, 2 requests at once; 2 lists of applications, 1 Steam app, names not shared at all, a week of 2 checks | `AdminRemains`, `OneSeatEach`, `ImportLands`, `StaysFresh` |
| `GamePages` | each of the 4 kinds of page, 3 requests at once, failures and restarts | `LinkWhole`, `RosterKept` |

One more run refutes what a comment of the code says: `Playtime_lost`. The
comment of `store/playtime.go:13-15` promises that local play the platform never
observed is never lost (`LocalPlayKept`), but the first import takes the
platform's figure alone and drops what the client recorded before it, and a
session open at a sync began before `last_synced_at`, so it is in neither the
baseline nor the sessions since.

Other refuted properties have no run of their own; each is seen by naming it in
the cfg given:

| property | instance | what happens |
|---|---|---|
| `DurationCountedOnce` | `Playtime` | a source's flap is merged over a session the other source recorded meanwhile; the minutes count twice |
| `SnapshotAgrees` | `Playtime` | a hidden session started after a visible one masks it in the snapshot, while presence updates show it; `store/sessions.go:148-151` has the two agree |
| `TogglesHonored` | `Playtime` | a history whose owner's settings cannot be read goes out in full, where `presence.go:124-126` has the toggles apply to everybody else |
| `EndsOnlyWhenGone` | `Hub_devices` | the last connection drops, a new one says hello, and only then are the client sessions ended |
| `KnownWhileConnected` | `Hub_devices` | an unregister between another hello's permission and its count deletes the permission |
| `HiddenIsCut` | `Hub_hiding` | a sample checked before the cut is stored after it and stays until its TTL |
| `NoFrozenCard` | `Hub_devices` | a match read before its end is broadcast after it, and the hub holds nothing that a sweep would find; `Hub_members` shows that it takes the poller |
| `GenuineLands` | `Matches` with `InOrder = FALSE` | the duplicate rule (`store/rocketleague.go:85`) has no upper bound: a report that arrives before an older one of the same score swallows it, where lines 53-56 say it cannot swallow a genuine game |
| `FailureKeepsReport` | `Matches` | the lookup of the game fails, the answer is the one for an unknown game and the client drops a real match, which is what `hub.go:520-521` says the other answer is there to prevent |
| `WalkIsComplete` | `Backfill` | an insert fails in mid page, the match counts as seen, and the cursor moves past it |
| `WalkEnds` | `Backfill` with the oldest match in `Unusable` | the same page comes back at every tick, and since the oldest cursor goes first nobody else is walked |
| `EveryoneSlowed` | `RateLimiter` | a 429 moves the cursor, but a caller that sleeps towards an earlier slot keeps it and calls inside the penalty (`limiter.go:66` speaks of every pending caller) |
| `LinkAlwaysResolves` | `PubgSync` | the second write of a correction fails, nothing takes the first back, and the account of one shard stays under the other |
| `PathIdentifies` | `Catalogue` | of two path entries one is a suffix of the other; they are counted apart, and one process matches both, more games than `maxGamesPerExecutable` allows |
| `ResetEndsAll` | `SignIn` | a login or a refresh that crosses the revocation saves its token after it; a pairing approved before the reset is polled after it; an access token from before the reset approves a pairing after it (`reset.go:75-76` has the reset revoke the sessions that exist) |
| `UnlinkStops` | `PubgSync` | a pass that read the link before it was removed goes on storing that member's matches |

More disagreements were met while modelling and are what the properties make
exceptions for.

Hub and sessions. A connection broadcasts presence with the status it cached at
hello (the comment at `hub.go:79` accepts a stale value there), and the console
poller with none; with two connections of one member two presence recomputations
can be broadcast in the opposite order of their reads (`PresenceSettles` fails
there, which is why `Hub_members` gives a member one); hiding a game recomputes
no presence; the snapshot picks the newest session before it drops hidden games
while updates do it after, so a newer hidden session masks an older visible one
in the snapshot only. A console switch whose second half fails ends a session
and tells nobody.

Pages. The totals of a game's page count banned members where its lines and the
list of games do not; the weekly board counts as players those whose sessions
lasted no whole second, the page of the game does not.

Accounts. Two overlapping patches each count the other's target, or act on a role
read before, and leave no unbanned administrator. A patch that demotes and bans
may answer 409 with the role already written. Two first registrations both become
administrators. A web client whose parallel calls all answer 401 presents one
refresh token twice, and the loser's refusal removes the winner's token; a
refresh that a logout overtakes brings the deleted row back; two overlapping
`adminReset` may leave two links, where `password_reset.go:11-12` speaks of one;
two polls of one pairing both mint.

Game pages. Two overlapping switches leave the flag in the table different from
the cache until a restart. One Classic namespace that fails wipes the characters
of that namespace though the other answered; a failing count falls through to the
write that empties the roster. A view that was fetching when its account was
unlinked writes its profile afterwards and throttles the next account for an
hour; two views both pass the throttle. An overlap of link and unlink, or of a
region's correction and unlink, leaves routing without an identity, which keeps
a region chosen by hand for the next account; a relink whose routing write fails
deletes the link that worked.

League. A member who links a second Riot account keeps the cursor of the first,
so the newer matches of the second are never walked (`NoHole` fails as soon as a
member may link two accounts, which is why the theorem and the run give each
member one).

Catalogue. A game that a later list no longer gives an executable keeps those it
had (an import only writes seeds), so the limit of `maxGamesPerExecutable` holds
of the games of one import. It holds of each entry there, and of a process whose
bare name is an entry; a process that several path entries match, one longer than
the other, may be taken for that many games by each of them. `ImportLands` states it
so. The migrations
insert curated games, so the reason "empty" never arises on a new instance:
"never synced" does. A game a Steam library added gets a second row when Discord
lists it, with a suffixed slug. A slug that somebody inserts between an import's
read and its write fails the import; the schedule tries again at its next check.

### Bounds

`Playtime`: with a window of 2 and instants 0 to 2 (`MaxTime`), a flap inside the
window, a pause of exactly the window, a second source between two flaps and a
sync between any of them fit. Statements compare sources with each other and
with `"client"` only, so two are enough. The second member is there
for the pages, whose queries must keep members apart: `LittleSpec` is `PlaySpec`
in which they play one game by their client at the first tick and nothing else,
before the first member begins (`SecondPlaysLittle`, `SecondPlaysOneTick`); the
first member, the console, Steam and the failures are as free as ever. `Days` of 1
leaves a session of instant 0 out of the week at instant 2, and a `Limit` of 1 makes
every session a page of its own, so that each of them is once a cursor.

`Hub`: two connections are enough for every interference between a connection
and another of the same member (the hub's sets are per member, its count is
compared with 0 and 1), and `MaxRestarts` = 1 shows what a restart leaves
behind. Two connections with requests as well are out of reach in minutes, hence
the separate casts. Instances that are free of the poller say so with
`PollerRuns = FALSE`, the configuration of a server without a Riot key.
`DbMayFail` is FALSE where a property is about pages agreeing with the database,
since a failed query is logged and not retried.

`Matches`: a window of 2 lies between the echo's delay and a match's length, as
the code's three minutes do; two matches of the first member with the same print are what
the duplicate rule must tell apart, and clocks one tick ahead use the tolerance.
One lookup may fail (`MaxLost`), at any report of the first member. The second
member is there for the queries, which must keep members apart and a hidden one
out: `LittleSpec` is `Spec` in which they play one match, of either game, that is
never the one lost (`SecondPlaysLittle`). The plays are two of Battlegrounds with a
hero, of which one in a skin, one without a hero, and one of another mode.

`Backfill`: pages of two over three matches give a full page, a short page, an
empty one and a page with a skipped match; four requests let a member unlink and
link again within one page while the other gets linked; `MaxTrouble` = 1 puts
one failure or restart at any point. `RateLimiter`: three goroutines put one
caller asleep, one refused and one unmetered at the same time; an interval of 2
leaves an instant between slots, and a penalty of 3 outlasts one. The clock runs
to `Horizon` on its own and further while anybody sleeps, so the bound never
strands a sleeper. `PubgSync`: a retention of 3 days is the smallest that leaves
slack for one failure, and day 3 is when a match of day 0 has expired; the
theorem covers the fortnight.

The request modules: two requests at once are what every race here takes; three
in `GamePages`, where a view, a link and an unlink may meet. Slots (and users)
are interchangeable, hence the symmetry; no liveness is claimed there. In
`SignIn` and `Catalogue`, `FewSlips` stops asking once two things went wrong: a
property that makes an exception for one thing is asked of every other one. One
user and one device suffice in `SignIn` since rows are keyed by both and nothing
reads another's, but for `Revoke`, which is by user; three tokens are a sign-in
and two more. `Catalogue` explores the accounts before the first import, and the
imports while the first account registers (`OneStory`): those share only the
slots, whose number is not a bound of the code, and the row of the organisation.
Two lists, one of which loses a game and gains one, are a change; among their
paths are two that end alike, one shared as a whole, and a file name that one game
has bare and another in a directory. A list that was
imported is not taken back, and of two imports at once one is the schedule's. A
week of two checks tells an import one check old from one due.

`CHECK_DEADLOCK FALSE` stands where everything ends when the bounds are spent:
matches reported, walks done, tokens and links used up.

### Fairness

`Fairness` in `Hub` asks that a goroutine that has begun something goes on with
it (the Go scheduler: every step of a handler is enabled once it has started),
that the sweep's ticker keeps ticking, and that entries age. Nothing is assumed
of members, of pages, of Riot's API or of new poll rounds. In `Backfill`,
`WF(WalkGoesOn)` is the two-minute ticker and calls that return; failures are
finitely many (`MaxTrouble`), since a Riot that always fails ends no walk. In
`RateLimiter`, the clock advances, a timer that is due fires, and an HTTP
request ends (the clients have timeouts); new calls are never required. In
`Matches`, a client keeps sending its oldest report and one of its attempts is
answered, by a row or by a refusal: the queue is the desktop client's, of which
`handleMatchResult` says that it keeps what was not recorded. A failed lookup is no
answer that fairness counts on; it ends its report all the same, and
`EveryMatchLands` says which reports those are. `PubgSync` and `Catalogue` claim no
liveness: `CollectedInTime` and `StaysFresh` are its bounded forms.

Timing assumptions. A PUBG pass, and an import of the schedule, end within their
period (`Tick` and `Elapse` wait for them; the import has a timeout). At `Hub`'s
`Elapse`, an entry does not pass its TTL (15 s at least) between being stored and
being broadcast by the same handler. A report's echo comes sooner than the
duplicate window, and between the ends of two matches of a member lie at least that
window and the delay of an echo together (`MaxLinger + Window <= MatchLen`), since
an echo may be all that landed of the first.

## 4. The proofs

`Playtime_proofs` proves of the table by itself, for any members, games, sources,
window and clock: type correctness (with every session in the past; having the
theorem, no run is spent on it), `FlapsAreMerged`, `OneOpenPerGame`, the action
property `HistoryKept` and the implementation of `OpenSessions`. The types, one
open row per game and the separation of rows together are inductive, and none of
them alone is: reopening the row that ended last stays clear of the other rows of
its source because no row is open for the game and because a row that started
later would itself have ended later, within the window.

It carries these over to the table with all its writers: `WritersKeepTheTable`
shows that each of their steps is a step of `PlaySessions` or leaves the rows
alone, from which the implementation of `OpenSessions` and `HistoryKept` follow,
and `OneOnConsole` that the poller leaves one session of a member open. The latter
is not inductive, since the client writes between the poller's statements: `PInv`
adds that nothing is open on the console but what the poller has yet to end, which
a client's end can only help and a client's start, of another source, cannot
disturb.

Over these writers it proves `NeverDoubled` (`CountedOnce`). By itself that
property does not say of which ticks an imported total consists; the invariant
`CInv` does: while no two sessions of the game share a tick, a total fits the
ticks played before its sync (`Fits`). The sessions since start after the sync
and cover other ticks (`ShownFits`), so a new sync, which takes the larger of the
platform's figure and the estimate and restarts the window, fits again. Once two
sessions share a tick they do for good (`DoubledStays`), since a session never
covers less than before (`CoversGrow`). That `Seconds` is at most the number of
ticks covered (`SecondsCovered`) is an induction over the subsets of a finite
set (`SetInduction`, see below).

The pages need no invariant beyond that one: `PageInv` is the part of `CInv` they
use (the types, finitely many rows, one import per member and game), and
`PagesShowOne` (`PagesAgree`) and `HistoryShown` (`HistoryWhole`) are shown in
each state. `MergedIsEffective` brings the merge every query spells out to the
figure of `playtime.go`; the queries then differ in how they group its terms, by
game and member, by member or by game. For the history, `Precedes` is a total order of a
member's sessions; the pages walked so far are the first places of the list it
makes, the next cursor is the last of them, and what lies past it is the rest.

`Hub_proofs` proves, for any members, games, connections, requests and number
of restarts: type correctness, `ConnCount`, `ClientLiveHasConn`,
`ClientSessionsOwned` and the action property `FreshClientWins`. `IInv` joins
them with `Control`, which says where goroutines can be and what they then hold
(a connection always works for its owner; one that broadcasts on its way out is
no longer counted). `ConnCount` needs `Control` to know that a connection at
`end_sessions` goes on to `gone` and not to `ready`; `ClientLiveHasConn` and
`ClientSessionsOwned` need `ConnCount`, since a member with a counted
connection is online. The counting itself is three lemmas (`CountKept`,
`CountUp`, `CountDown`) over the cardinality of the counted connections, which
is why the connections are assumed finite.

It proves too what the pages show, for any members with one device each, any
games hidden at any time and any restarts, while no account changes:
`PresenceSettles` when the database answers (with or without the poller), and
`NoFrozenCard` without the poller (with or without a database that answers).
These hypotheses are what the properties need, not what the proof needs: with two
devices, a request or a poll round, two broadcasts about one member overtake each
other, and a query that fails is not repeated. `ToldInv` says that what a
connection has read so far still holds and that a broadcast is to come whenever
the pages are behind; games that an admin hides meanwhile are its slack, since
hiding recomputes no presence. `CardInv` says that a match about to be sent is
held, and that one no longer held is queued by the sweep or about to be taken
down by its connection.

`Riot_proofs` proves of `Backfill`, for any histories, page size, requests and failures:
type correctness and, when every member may link one Riot account only
(`OneAccountEach`), `NoHole` and `CursorFalls`. `NoHole` alone is not inductive:
the page in the walker's hands has to be described. `IInv` says that what lies
above the cursor read is covered (`BaseCovered`), that a match of the account
missing from the page is older than all of it, above that cursor, or played
since (`PageWhole`), and that what no longer remains of the page was dealt with
(`PageDone`); `AdvanceCovered` then shows that moving the cursor below the
oldest match seen leaves nothing behind. `RowUntouched` is what survives of the
walker's knowledge when its row is deleted and created again: either the row
has no cursor, or it is the one that was read. `Below` keeps matches played
during the walk above every cursor.

`Riot_proofs` proves of `RateLimiter`, for any callers, interval, penalties and number of
retries: type correctness, `Paced` and `PenaltyHeld`. The cursor lies as many
intervals past each slot as slots were handed out since (`CursorAhead`), and the
next turn is never before `until` (`TurnHeld`); the clock and the penalties only
add to both. The product in `Paced` stays behind
`Intervals`, of which two facts are enough.

`PubgSync_proofs` proves, for any members, accounts, retention, requests and
number of restarts: type correctness; `CollectedInTime`; and, when a member has
one request at a time (`OneAtATime`), `LinkResolves`. The invariant behind
collection, `FailuresPaid`, is an accounting one: a match still missing has
cost a failed call on each day it could have been collected, today's included
once the day's pass can no longer come to it (`Coming`). It needs `LinksKnown`:
what the pass read of a member whose link was not written today still stands.
`LinkResolves` needs that the second write of a link is about the account of
the first (`Pending`), false as soon as two requests of one member interleave.

`Catalogue_proofs` proves, for any users, invites, requests at once, lists,
libraries and length of the week: `AdminRemains`, `OneSeatEach` and `StaysFresh`.
The properties are conditional on what overlapped or failed, and so is the
invariant. `AdminInv` says that, while no two patches overlapped, there is one
patch at most and what it has counted or read still holds: whatever it writes
next, another administrator stands (`PatchSafe`). `SeatInv` says that whoever
holds a pending invite is its only holder, and that an account it seated has used
it or is about to; the pending registration is what makes it inductive. `FreshInv`
says that a check of the schedule that is over left a catalogue younger than a
week or an import under way, and that neither clock makes it look younger than it
is. Steps of the catalogue leave the accounts alone (`Framed`), steps of the
accounts leave the catalogue's requests alone (`Theirs`), so each half is proved
once.

`ImportLands` has an invariant of its own, `LandInv`: what an import holds in
memory (the slugs it read and gave, the seeds it wrote) is still so in the table,
as far as no other import ran and no Steam app was inserted meanwhile
(`Bystander` says what another slot's step must leave); a slug with an
application's id in it belongs to that application, which is why a suffixed slug
is never refused. `NormalizeOk` is about the algorithm itself: no entry, file name
or path, is carried by more than `maxGamesPerExecutable` applications; and where
the bare name of a process is an entry, all the games the process matches are among
the applications that share that name, since a file name is either usable alone for
all of them or for none. The theorem
assumes of Discord's list that ids are distinct and that nobody else ships the
executable added by hand (`ListsSound`), and of the code's constant that it is
positive.

`Matches_proofs` proves, for any members, matches, prints, windows and clocks
within the stated assumptions: `EachMatchOnce`, when the client sends its queue
oldest first (`InOrder`; the client is external, and the property fails without
it, see `GenuineLands`), and a report that a failed lookup dropped is excepted by
name (`lost`). What makes it inductive is a description of the queue and of the
tables: every report in the queue is a match that was played or an echo of one, in
the order of the matches, and none is older than a row of its member; a row is of a
match's own report, or of its echo when the report itself was lost (`TablesInv`,
`LostInv`). A report then finds no row but its own match's within the window, which
`Apart` gets from the length of a match and the delay of an echo.

Of `Recap` it proves `RecapIsConsistent` (`RecapAgrees`) and `RecordsAgree`
(`PagesAgree`), here without `InOrder`: whatever order reports come in, the tables
are finite and typed, only Battlegrounds matches are ranked, and a member has one
row per instant (`RowsInv`), which makes the order of the queries total. The
timeline is shown to be in order and to hold the matches due, no other and each
once: those of the window whose member is in the audience. The figures by hero add
up to the ranked matches that name a hero, not to all of them. That
adjacent windows make up the whole is an argument about lists: the list of a set
in a total order is the only one that is in order and holds each element once, so
`Merge` of two such lists, cut at an instant, is the merge of their parts.

`Data_proofs` holds what both modules of pages need about data: a fold over a
set adds each element once, whatever order `CHOOSE` takes them in, and sums may be
grouped, restricted and re-indexed; `Ordered` lists a set at its places
(`PlacesTell`), once each; and a function defined by recursion over `0..n` exists
and obeys its equation (`IterationExists`). `SetInduction` states the induction
over subsets for a set of subsets, where the library's theorem takes an operator.

`Requests_proofs` proves, for any number of requests at once: of `SignIn`, with
any users, devices, tokens and reset links, `ServedOnce`, `ResetEndsSessions` and
`StaysSignedIn`; of `GamePages`, with every kind of page, `LinkWhole` and the
action property `RosterKept`. `SignInInv` follows each request from step to step:
a request that has read a password or a session and not saved its token yet would
save one that a replaced password opened only if the revocation is still to come,
has failed, or came in between, which marks what is saved (`ResetInv`); while no
two polls of a pairing overlapped, the one under way has served nothing until it
mints, and what is served is claimed or about to be (`PairInv`), and while nothing
overlapped, what a device holds or is about to be given is what the server stores
(`CalmInv`). `PageInv` says that an identity without routing has a handler that is
about to write the one or remove the other (`LinkInv`), and that an empty answer
about to be stored was counted against an empty roster (`RosterInv`).

Assumptions on constants are named where constants are declared:
`"client"` and the console are sources, the goroutines are distinct, `Window`,
`Interval`, `Retention` and `Week` are positive, an account has one shard, users
and games are finitely many, no two members have one username (`NameRank`) and no
two sessions one id (`IdOf`), and no invite code is the word for another way in.

Only model-checked: the liveness properties (`FrozenCardsFall`,
`HiddenEntryDies`, `WalkEnds`, `EveryCallEnds`, `EveryMatchLands`), which rest on
fairness and are out of the prover's reach. Every invariant and every action
property that a passing run checks, and the implementation of `OpenSessions`, is
stated by a theorem. Some theorems have a hypothesis, which their run meets too:
one account for each member (`NoHole`, `CursorFalls`), one request of a member at a
time (`LinkResolves`), reports in order (`EachMatchOnce`), sound lists
(`ImportLands`), and for the hub's two settling properties one device for each
member and accounts that do not change.

## 5. Not modelled

The bounded queue of a slow page (32 messages, the newest dropped when it is
full): a page is what the last broadcasts left on it, and a queue per page is out
of TLC's reach beside the hub's interleavings. In the hub also: message contents,
tokens and bans at hello (a refused hello leaves no trace), several pages. The
console poller is not composed with the hub's presence. In the match reports:
bounds on scores and statistics, and the live reporters, which validate one
message and hand it to the hub. In the backfill: platforms, bans and the five
matches a profile refresh stores. In the PUBG collection: bans and statistics.
In the accounts: hashing, the contents of tokens, names and addresses. In the
catalogue: icons, achievements, slugs longer than a name, and more than two games
inserted by the migrations. API keys are one lookup; routing, images, branding
and page rendering keep no state another part reads. Each component's row in
`PROJECT.json` says the same.

## 6. Plan

1. The console poller's broadcast composed with the hub's presence.
2. A page's bounded queue, alone: what a page shows once its queue is empty.
3. What remains true of a page when a member has two devices, or a request runs
   beside them: stated, checked and proved.
