-------------------------------- MODULE Hub --------------------------------
(***************************************************************************)
(* The WebSocket hub (internal/ws): who is online, which match each member *)
(* is playing, who may see it, and what the pages of the other members are *)
(* told.  The hub is one struct behind one RWMutex, used by many           *)
(* goroutines; each action below is what a goroutine does between two      *)
(* points where another may run: one critical section, one database call   *)
(* or one broadcast.  pc says where each goroutine is.                     *)
(*                                                                         *)
(*   a connection   read loop: hello, game events, live matches, and the   *)
(*                  deferred unregister when the socket drops              *)
(*   a request      PATCH /users/me: status and activity visibility        *)
(*   Poller         the League live poller, PublishLive                    *)
(*   Sweeper        SweepLive                                              *)
(*                                                                         *)
(* The database is the users table (account) and the open sessions, which  *)
(* OpenSessions specifies and PlaySessions implements.  Time is abstracted *)
(* to an entry being within its TTL (fresh) or past it.  A page is one     *)
(* that stays connected and reads its socket in time: shown and card are   *)
(* what the last broadcasts about a member told it.                        *)
(*                                                                         *)
(* Left out: the content of messages, tokens and bans at hello, several    *)
(* pages, the drop of a message to a slow page.                            *)
(***************************************************************************)
EXTENDS Naturals, FiniteSets

CONSTANTS
    Users, Games, Sources,
    Conns,          \* WebSocket connections, each reused after it closes
    Requests,       \* concurrent API requests
    Owner,          \* the member behind each connection and request
    Poller, Sweeper,
    Hideable,       \* games an admin may hide and bring back
    Polled,         \* the game the server polls (League of Legends)
    PollerRuns,     \* whether a Riot key is set: without one there is no poller
    NoGame,
    DbMayFail,      \* whether a database call may fail
    MaxRestarts     \* bound on server restarts

ASSUME UsersAssumption == Users # {}
ASSUME OwnerAssumption == Owner \in [Conns \cup Requests -> Users]
ASSUME GamesAssumption == NoGame \notin Games /\ Hideable \subseteq Games /\ Polled \in Games
ASSUME SourcesAssumption == "client" \in Sources
ASSUME ProcsAssumption ==
    /\ Poller # Sweeper
    /\ {Poller, Sweeper} \cap (Conns \cup Requests) = {}
    /\ Conns \cap Requests = {}
ASSUME BoundsAssumption ==
    DbMayFail \in BOOLEAN /\ PollerRuns \in BOOLEAN /\ MaxRestarts \in Nat
ASSUME FiniteAssumption == IsFiniteSet(Conns)

VARIABLES
    account,        \* users.activity_visible, users.presence_status
    open,           \* open game sessions
    hidden,         \* games.hidden
    online,         \* Hub.online: connections per member, 0 when absent
    live,           \* Hub.live
    liveVisible,    \* Hub.liveVisible: "yes", "no", or "unknown" when absent
    pc,             \* where each goroutine is
    ret,            \* where it goes on after BroadcastPresence
    who,            \* the member it is working for
    ident,          \* the identity it broadcasts with (cached at hello)
    seen,           \* what BroadcastPresence has read so far
    sample,         \* the live state, then the live message, in its hands
    queue,          \* members a background round still has to visit
    shown,          \* presence of each member on a page
    card,           \* live match of each member on a page
    restarts,
    leaked          \* open client sessions that lost their closer (history)

db == <<account, open, hidden, leaked>>
hub == <<online, live, liveVisible>>
local == <<ret, who, ident, seen, sample, queue>>
page == <<shown, card>>
vars == <<db, hub, pc, local, page, restarts>>

Store == INSTANCE OpenSessions

Background == {Poller, Sweeper}
Procs == Conns \cup Requests \cup Background

(* "offline" and "invisible" are the same choice to every reader of it:    *)
(* ApplyPresenceOverride.                                                  *)
Accounts == [visible : BOOLEAN, chosen : {"online", "invisible"}]

Entries == [game : Games, source : {"client", "server"}, fresh : BOOLEAN]
NoEntry == [game |-> NoGame, source |-> "client", fresh |-> FALSE]

(* PresenceStatus followed by ApplyPresenceOverride *)
Status(id, isOnline, playing) ==
    IF id.chosen = "online" /\ playing /\ id.visible THEN "in_game"
    ELSE IF id.chosen = "online" /\ isOnline THEN "online"
    ELSE "offline"

(* LatestOpenSession # nil: hidden games never make someone "in game". *)
PlayingUnless(u, H) == \E s \in open : s.user = u /\ s.game \notin H
Playing(u) == PlayingUnless(u, hidden)

MayShow(id) == id.visible /\ id.chosen = "online"

HasLive(u) == live[u] # NoEntry

(* mutant of Expired: only what the server pulled is swept *)
ServerExpired(u) == HasLive(u) /\ ~live[u].fresh /\ live[u].source = "server"

Expired(u) == HasLive(u) /\ ~live[u].fresh

(* mutant of HeldByFreshClient: the source is compared the wrong way round *)
HeldByFreshServer(u, g) == live[u] = [game |-> g, source |-> "server", fresh |-> TRUE]

HeldByFreshClient(u, g) == live[u] = [game |-> g, source |-> "client", fresh |-> TRUE]

-----------------------------------------------------------------------------
Goto(p, label) == pc' = [pc EXCEPT ![p] = label]

(* The label a goroutine rests at between two messages, requests or ticks. *)
Rest(p) == IF p \in Conns THEN "ready" ELSE "idle"

NoIdent == [visible |-> FALSE, chosen |-> "invisible"]
NothingSeen == [online |-> FALSE, playing |-> FALSE]
Nobody == CHOOSE u \in Users : TRUE

(* What a fresh process holds in memory: an empty hub, and no goroutine    *)
(* doing anything.                                                         *)
StartLabels == [p \in Procs |-> IF p \in Conns THEN "gone" ELSE "idle"]
StartMembers == [p \in Procs |-> IF p \in Background THEN Nobody ELSE Owner[p]]
Everyone(x) == [u \in Users |-> x]
EachProc(x) == [p \in Procs |-> x]

Init ==
    /\ account \in [Users -> Accounts]
    /\ open = {} /\ hidden = {} /\ leaked = {}
    /\ online = Everyone(0) /\ live = Everyone(NoEntry) /\ liveVisible = Everyone("unknown")
    /\ pc = StartLabels /\ who = StartMembers
    /\ ret = EachProc("idle") /\ ident = EachProc(NoIdent)
    /\ seen = EachProc(NothingSeen) /\ sample = EachProc(NoGame)
    /\ queue = [p \in Background |-> {}]
    /\ shown = Everyone("offline") /\ card = Everyone(NoGame)
    /\ restarts = 0

-----------------------------------------------------------------------------
(* Helpers shared by several handlers.                                     *)

SetLiveVisible(u, id) ==
    liveVisible' = [liveVisible EXCEPT ![u] = IF MayShow(id) THEN "yes" ELSE "no"]

(* mutant of ForgetLive: the entry is not deleted *)
KeepLive(u) == live' = live

ForgetLive(u) == live' = [live EXCEPT ![u] = NoEntry]

(* mutant of CallBroadcast: the broadcast is forgotten *)
SkipBroadcast(p, label) == Goto(p, label) /\ UNCHANGED ret

(* Calls BroadcastPresence, to go on at label afterwards. *)
CallBroadcast(p, label) ==
    /\ Goto(p, "bp_online")
    /\ ret' = [ret EXCEPT ![p] = label]

-----------------------------------------------------------------------------
(* BroadcastPresence: three reads and a send, no lock held across them.    *)

ReadOnline(p) ==
    /\ pc[p] = "bp_online"
    /\ seen' = [seen EXCEPT ![p].online = online[who[p]] > 0]
    /\ Goto(p, "bp_session")
    /\ UNCHANGED <<db, hub, ret, who, ident, sample, queue, page, restarts>>

ReadSession(p) ==
    /\ pc[p] = "bp_session"
    /\ \/ seen' = [seen EXCEPT ![p].playing = Playing(who[p])]
       \/ DbMayFail /\ UNCHANGED seen
    /\ Goto(p, "bp_send")
    /\ UNCHANGED <<db, hub, ret, who, ident, sample, queue, page, restarts>>

SendPresence(p) ==
    /\ pc[p] = "bp_send"
    /\ shown' = [shown EXCEPT
                   ![who[p]] = Status(ident[p], seen[p].online, seen[p].playing)]
    /\ seen' = [seen EXCEPT ![p] = NothingSeen]
    /\ ident' = IF ret[p] \in {"ready", "req_allow"} THEN ident
                ELSE [ident EXCEPT ![p] = NoIdent]
    /\ Goto(p, ret[p])
    /\ ret' = [ret EXCEPT ![p] = "idle"]
    /\ UNCHANGED <<db, hub, who, sample, queue, card, restarts>>

-----------------------------------------------------------------------------
(* handleHello *)

HelloRead(c) ==
    /\ pc[c] = "gone"
    /\ ident' = [ident EXCEPT ![c] = account[Owner[c]]]
    /\ Goto(c, "known")
    /\ UNCHANGED <<db, hub, ret, who, seen, sample, queue, page, restarts>>

HelloAllow(c) ==
    /\ pc[c] = "known"
    /\ SetLiveVisible(Owner[c], ident[c])
    /\ Goto(c, "allowed")
    /\ UNCHANGED <<db, online, live, local, page, restarts>>

(* mutant of Connected: a flag rather than a count *)
ConnectedOnce(u) == [online EXCEPT ![u] = 1]

Connected(u) == [online EXCEPT ![u] = @ + 1]

HelloConnect(c) ==
    /\ pc[c] = "allowed"
    /\ online' = Connected(Owner[c])
    /\ Goto(c, IF online[Owner[c]] = 0 THEN "greet_first" ELSE "greet_again")
    /\ UNCHANGED <<db, live, liveVisible, local, page, restarts>>

(* hello_ack, then presence for the first connection only *)
Greet(c) ==
    /\ \/ pc[c] = "greet_first" /\ CallBroadcast(c, "ready")
       \/ pc[c] = "greet_again" /\ Goto(c, "ready") /\ UNCHANGED ret
    /\ UNCHANGED <<db, hub, who, ident, seen, sample, queue, page, restarts>>

(* handleGameEvent; an event that changes nothing broadcasts nothing.  The  *)
(* hidden flag is read one query before the session is written; the two    *)
(* commute with an admin's change, so one step stands for both.            *)
GameStarted(c, g) ==
    /\ pc[c] = "ready"
    /\ g \notin hidden
    /\ Store!StartChanges(Owner[c], g)
    /\ Store!Start(Owner[c], g, "client")
    /\ CallBroadcast(c, "ready")
    /\ UNCHANGED <<account, hidden, leaked, hub, who, ident, seen, sample, queue, page, restarts>>

(* Any game may be closed, hidden ones included. *)
GameStopped(c, g) ==
    /\ pc[c] = "ready"
    /\ Store!EndChanges(Owner[c], g)
    /\ Store!End(Owner[c], g)
    /\ leaked' = leaked \cap open'
    /\ CallBroadcast(c, "ready")
    /\ UNCHANGED <<account, hidden, hub, who, ident, seen, sample, queue, page, restarts>>

-----------------------------------------------------------------------------
(* Live matches.  A state may be stored by the member's own connection or  *)
(* by the poller; the steps from LiveStore on are the same code.           *)

(* mutant of MayPush: the permission is not asked *)
AnyonePushes(u) == u \in Users

(* liveAllowed *)
MayPush(u) == liveVisible[u] = "yes"

(* handleLiveMatch: the permission is read, then the lock is released. *)
LiveSample(c, g) ==
    /\ pc[c] = "ready"
    /\ MayPush(Owner[c])
    /\ sample' = [sample EXCEPT ![c] = g]
    /\ Goto(c, "live_set")
    /\ UNCHANGED <<db, hub, ret, who, ident, seen, queue, page, restarts>>

(* handleLiveMatch, Ended: clearLive for the game that ended *)
LiveEnded(c, g) ==
    /\ pc[c] = "ready"
    /\ live[Owner[c]].game = g
    /\ ForgetLive(Owner[c])
    /\ Goto(c, "say_nil")
    /\ UNCHANGED <<db, online, liveVisible, local, page, restarts>>

(* setLive: a server state never replaces a fresh client state of its game. *)
LiveStore(p) ==
    LET u == who[p]
        source == IF p \in Conns THEN "client" ELSE "server"
    IN  /\ pc[p] = "live_set"
        /\ \/ /\ source = "server" /\ HeldByFreshClient(u, sample[p])
              /\ sample' = [sample EXCEPT ![p] = NoGame]
              /\ Goto(p, Rest(p))
              /\ UNCHANGED live
           \/ /\ ~(source = "server" /\ HeldByFreshClient(u, sample[p]))
              /\ live' = [live EXCEPT ![u] =
                            [game |-> sample[p], source |-> source, fresh |-> TRUE]]
              /\ Goto(p, "live_read")
              /\ UNCHANGED sample
        /\ UNCHANGED <<db, online, liveVisible, ret, who, ident, seen, queue, page, restarts>>

(* liveJSON: what will be broadcast is what is stored by now. *)
LiveRead(p) ==
    /\ pc[p] = "live_read"
    /\ sample' = [sample EXCEPT ![p] =
                    IF live[who[p]].fresh THEN live[who[p]].game ELSE NoGame]
    /\ Goto(p, "live_send")
    /\ UNCHANGED <<db, hub, ret, who, ident, seen, queue, page, restarts>>

LiveSend(p) ==
    /\ pc[p] = "live_send"
    /\ card' = [card EXCEPT ![who[p]] = sample[p]]
    /\ sample' = [sample EXCEPT ![p] = NoGame]
    /\ Goto(p, Rest(p))
    /\ UNCHANGED <<db, hub, ret, who, ident, seen, queue, shown, restarts>>

(* The nil match, after an end, a cut or the last disconnection. *)
SayNil(p) ==
    /\ pc[p] \in {"say_nil", "bye_nil"}
    /\ card' = [card EXCEPT ![who[p]] = NoGame]
    /\ Goto(p, IF pc[p] = "bye_nil" THEN "gone" ELSE Rest(p))
    /\ UNCHANGED <<db, hub, local, shown, restarts>>

-----------------------------------------------------------------------------
(* unregister: one critical section, then the database, then broadcasts.   *)

(* mutant of Authenticated: a connection that never said hello is counted *)
(* down like another                                                      *)
Registered(c) == pc[c] \in {"known", "ready"}

Authenticated(c) == pc[c] = "ready"

(* mutant of IsLast: the count is compared before it is decremented *)
IsLastTooEarly(u) == online[u] = 0

IsLast(u) == online[u] = 1

(* mutant of AfterGoodbye: the pages are not told *)
LeaveSilently(u) == "gone"

(* Where unregister goes after its presence broadcast. *)
AfterGoodbye(u) == IF HasLive(u) THEN "bye_nil" ELSE "gone"

Unregister(c) ==
    LET u == Owner[c]
        last == IsLast(u)
    IN  /\ Authenticated(c)
        /\ online' = [online EXCEPT ![u] = @ - 1]
        /\ \/ /\ last
              /\ ForgetLive(u)
              /\ liveVisible' = [liveVisible EXCEPT ![u] = "unknown"]
              /\ ret' = [ret EXCEPT ![c] = AfterGoodbye(u)]
              /\ Goto(c, "end_sessions")
              /\ UNCHANGED ident
           \/ /\ ~last
              /\ Goto(c, "gone")
              /\ ident' = [ident EXCEPT ![c] = NoIdent]
              /\ UNCHANGED <<live, liveVisible, ret>>
        /\ UNCHANGED <<db, who, seen, sample, queue, page, restarts>>

EndSessions(c) ==
    /\ pc[c] = "end_sessions"
    /\ Store!EndClient(Owner[c])
    /\ leaked' = leaked \cap open'
    /\ Goto(c, "bp_online")
    /\ UNCHANGED <<account, hidden, hub, local, page, restarts>>

(* The database refuses or times out: logged, and nothing retries. *)
EndSessionsFails(c) ==
    /\ DbMayFail
    /\ pc[c] = "end_sessions"
    /\ Store!OpenClient(Owner[c]) # {}
    /\ leaked' = leaked \cup Store!OpenClient(Owner[c])
    /\ Goto(c, "bp_online")
    /\ UNCHANGED <<account, open, hidden, hub, local, page, restarts>>

-----------------------------------------------------------------------------
(* updateMe: the write, then a read back, presence, and the live match.    *)

ChangeAccount(r) ==
    /\ pc[r] = "idle"
    /\ \/ \E v \in BOOLEAN : account' = [account EXCEPT ![Owner[r]].visible = v]
       \/ \E s \in {"online", "invisible"} : account' = [account EXCEPT ![Owner[r]].chosen = s]
    /\ Goto(r, "req_read")
    /\ UNCHANGED <<open, hidden, leaked, hub, local, page, restarts>>

RequestRead(r) ==
    /\ pc[r] = "req_read"
    /\ ident' = [ident EXCEPT ![r] = account[Owner[r]]]
    /\ CallBroadcast(r, "req_allow")
    /\ UNCHANGED <<db, hub, who, seen, sample, queue, page, restarts>>

(* The read back fails: the change is stored and the hub never hears of it. *)
RequestReadFails(r) ==
    /\ DbMayFail
    /\ pc[r] = "req_read"
    /\ Goto(r, "idle")
    /\ UNCHANGED <<db, hub, local, page, restarts>>

(* SetVisibility, first critical section *)
RequestAllow(r) ==
    /\ pc[r] = "req_allow"
    /\ SetLiveVisible(Owner[r], ident[r])
    /\ Goto(r, IF MayShow(ident[r]) THEN "idle" ELSE "req_cut")
    /\ ident' = [ident EXCEPT ![r] = NoIdent]
    /\ UNCHANGED <<db, online, live, ret, who, seen, sample, queue, page, restarts>>

(* SetVisibility, second critical section *)
RequestCut(r) ==
    /\ pc[r] = "req_cut"
    /\ ForgetLive(Owner[r])
    /\ Goto(r, IF HasLive(Owner[r]) THEN "say_nil" ELSE "idle")
    /\ UNCHANGED <<db, online, liveVisible, local, page, restarts>>

(* PATCH of a game by an admin; no presence is recomputed. *)
SetGameHidden(g) ==
    /\ hidden' = IF g \in hidden THEN hidden \ {g} ELSE hidden \cup {g}
    /\ UNCHANGED <<account, open, leaked, hub, pc, local, page, restarts>>

-----------------------------------------------------------------------------
(* pollLive and PublishLive *)

PollPlayers ==
    /\ PollerRuns
    /\ pc[Poller] = "idle" /\ queue[Poller] = {}
    /\ \E s \in open : s.game = Polled
    /\ queue' = [queue EXCEPT ![Poller] = {u \in Users : Store!OpenFor(u, Polled) # {}}]
    /\ UNCHANGED <<db, hub, pc, ret, who, ident, seen, sample, page, restarts>>

Visit(u) ==
    /\ pc[Poller] = "idle" /\ u \in queue[Poller]
    /\ queue' = [queue EXCEPT ![Poller] = @ \ {u}]
    /\ who' = [who EXCEPT ![Poller] = u]

(* Riot's API failed, or an end or a state that the hub refuses. *)
PollNothing(u) ==
    /\ Visit(u)
    /\ UNCHANGED <<db, hub, pc, ret, ident, seen, sample, page, restarts>>

PollEnded(u) ==
    /\ Visit(u)
    /\ live[u].game = Polled /\ ~HeldByFreshClient(u, Polled)
    /\ ForgetLive(u)
    /\ Goto(Poller, "live_read")
    /\ UNCHANGED <<db, online, liveVisible, ret, ident, seen, sample, page, restarts>>

(* liveAllowedOrLoad: the hub's own answer when it has one, ... *)
PollPlaying(u) ==
    /\ Visit(u)
    /\ \/ /\ liveVisible[u] = "yes"
          /\ sample' = [sample EXCEPT ![Poller] = Polled]
          /\ Goto(Poller, "live_set")
       \/ /\ liveVisible[u] = "unknown"
          /\ Goto(Poller, "load")
          /\ UNCHANGED sample
    /\ UNCHANGED <<db, hub, ret, ident, seen, page, restarts>>

(* ... else the database's, ... *)
PollRead ==
    /\ pc[Poller] = "load"
    /\ \/ /\ ident' = [ident EXCEPT ![Poller] = account[who[Poller]]]
          /\ Goto(Poller, "loaded")
       \/ DbMayFail /\ Goto(Poller, "idle") /\ UNCHANGED ident
    /\ UNCHANGED <<db, hub, ret, who, seen, sample, queue, page, restarts>>

(* ... which is cached, then used. *)
PollAllow ==
    LET u == who[Poller] IN
    /\ pc[Poller] = "loaded"
    /\ SetLiveVisible(u, ident[Poller])
    /\ ident' = [ident EXCEPT ![Poller] = NoIdent]
    /\ \/ /\ MayShow(ident[Poller])
          /\ sample' = [sample EXCEPT ![Poller] = Polled]
          /\ Goto(Poller, "live_set")
       \/ /\ ~MayShow(ident[Poller])
          /\ Goto(Poller, "idle")
          /\ UNCHANGED sample
    /\ UNCHANGED <<db, online, live, ret, who, seen, queue, page, restarts>>

-----------------------------------------------------------------------------
(* SweepLive: expired entries go in one critical section, their ends are   *)
(* announced one by one after it.                                          *)

Sweep ==
    LET ended == {u \in Users : Expired(u)} IN
    /\ pc[Sweeper] = "idle" /\ queue[Sweeper] = {}
    /\ ended # {}
    /\ live' = [u \in Users |-> IF u \in ended THEN NoEntry ELSE live[u]]
    /\ queue' = [queue EXCEPT ![Sweeper] = ended]
    /\ UNCHANGED <<db, online, liveVisible, pc, ret, who, ident, seen, sample, page, restarts>>

SweepSay(u) ==
    /\ u \in queue[Sweeper]
    /\ queue' = [queue EXCEPT ![Sweeper] = @ \ {u}]
    /\ card' = [card EXCEPT ![u] = NoGame]
    /\ UNCHANGED <<db, hub, pc, ret, who, ident, seen, sample, shown, restarts>>

(* An entry passes its TTL without a new sample.  Timing assumption: the   *)
(* TTL (15 s at least) is far longer than a handler takes to send what it  *)
(* has just stored.                                                        *)
Elapse(u) ==
    /\ HasLive(u) /\ live[u].fresh
    /\ \A p \in Procs : who[p] = u => pc[p] \notin {"live_read", "live_send"}
    /\ live' = [live EXCEPT ![u].fresh = FALSE]
    /\ UNCHANGED <<db, online, liveVisible, pc, local, page, restarts>>

(* The server stops and starts again: memory is lost, the database stays,  *)
(* pages reload their snapshot from it.                                    *)
Restart ==
    /\ restarts < MaxRestarts
    /\ restarts' = restarts + 1
    /\ online' = Everyone(0) /\ live' = Everyone(NoEntry) /\ liveVisible' = Everyone("unknown")
    /\ pc' = StartLabels /\ who' = StartMembers
    /\ ret' = EachProc("idle") /\ ident' = EachProc(NoIdent)
    /\ seen' = EachProc(NothingSeen) /\ sample' = EachProc(NoGame)
    /\ queue' = [p \in Background |-> {}]
    /\ leaked' = leaked \cup {s \in open : s.source = "client"}
    /\ shown' = [u \in Users |-> Status(account[u], FALSE, Playing(u))]
    /\ card' = Everyone(NoGame)
    /\ UNCHANGED <<account, open, hidden>>

-----------------------------------------------------------------------------
(* Steps a goroutine takes on its own once a message, a request or a round *)
(* has begun, and those that begin one.                                    *)

Continue(p) ==
    \/ ReadOnline(p) \/ ReadSession(p) \/ SendPresence(p)
    \/ LiveStore(p) \/ LiveRead(p) \/ LiveSend(p) \/ SayNil(p)

ConnContinues(c) ==
    \/ Continue(c)
    \/ HelloAllow(c) \/ HelloConnect(c) \/ Greet(c)
    \/ EndSessions(c) \/ EndSessionsFails(c)

ConnBegins(c) ==
    \/ HelloRead(c)
    \/ \E g \in Games : GameStarted(c, g) \/ GameStopped(c, g)
    \/ \E g \in Games : LiveSample(c, g) \/ LiveEnded(c, g)
    \/ Unregister(c)

RequestContinues(r) ==
    Continue(r) \/ RequestRead(r) \/ RequestReadFails(r) \/ RequestAllow(r) \/ RequestCut(r)

PollVisits(u) == PollNothing(u) \/ PollEnded(u) \/ PollPlaying(u)

PollerContinues == Continue(Poller) \/ PollRead \/ PollAllow \/ \E u \in Users : PollVisits(u)

SweeperRuns == Sweep \/ \E u \in Users : SweepSay(u)

Next ==
    \/ \E c \in Conns : ConnContinues(c) \/ ConnBegins(c)
    \/ \E r \in Requests : RequestContinues(r) \/ ChangeAccount(r)
    \/ \E g \in Hideable : SetGameHidden(g)
    \/ PollerContinues \/ PollPlayers
    \/ SweeperRuns
    \/ \E u \in Users : Elapse(u)
    \/ Restart

Spec == Init /\ [][Next]_vars

(* A goroutine that is running goes on (the Go scheduler); the sweep ticks *)
(* for as long as the server lives and entries age with the clock.         *)
(* Nothing is assumed of members, of Riot's API or of new poll rounds.     *)
Fairness ==
    /\ \A c \in Conns : WF_vars(ConnContinues(c))
    /\ \A r \in Requests : WF_vars(RequestContinues(r))
    /\ WF_vars(PollerContinues)
    /\ WF_vars(SweeperRuns)
    /\ \A u \in Users : WF_vars(Elapse(u))

FairSpec == Spec /\ Fairness

-----------------------------------------------------------------------------
Labels == {"gone", "known", "allowed", "greet_first", "greet_again", "ready",
           "bp_online", "bp_session", "bp_send", "live_set", "live_read",
           "live_send", "say_nil", "bye_nil", "end_sessions", "idle",
           "req_read", "req_allow", "req_cut", "load", "loaded"}

(* Where BroadcastPresence is called from. *)
Returns == {"ready", "gone", "bye_nil", "req_allow", "idle"}

TypeOK ==
    /\ account \in [Users -> Accounts]
    /\ open \subseteq Store!Sessions /\ leaked \subseteq open
    /\ hidden \subseteq Games
    /\ online \in [Users -> Nat]
    /\ live \in [Users -> Entries \cup {NoEntry}]
    /\ liveVisible \in [Users -> {"yes", "no", "unknown"}]
    /\ pc \in [Procs -> Labels]
    /\ ret \in [Procs -> Returns]
    /\ who \in [Procs -> Users]
    /\ ident \in [Procs -> Accounts]
    /\ seen \in [Procs -> [online : BOOLEAN, playing : BOOLEAN]]
    /\ sample \in [Procs -> Games \cup {NoGame}]
    /\ queue \in [Background -> SUBSET Users]
    /\ shown \in [Users -> {"offline", "online", "in_game"}]
    /\ card \in [Users -> Games \cup {NoGame}]
    /\ restarts \in 0..MaxRestarts

(* A connection is counted from connect to unregister. *)
Counted(c) ==
    \/ pc[c] \in {"greet_first", "greet_again", "ready", "live_set", "live_read",
                  "live_send", "say_nil"}
    \/ pc[c] \in {"bp_online", "bp_session", "bp_send"} /\ ret[c] = "ready"

(* No goroutine is in the middle of something about this member. *)
Quiet(u) ==
    /\ \A p \in Procs : who[p] = u => pc[p] \in {"gone", "ready", "idle"}
    /\ u \notin queue[Sweeper]

(* The hub's count of a member's connections is the number of connections  *)
(* between connect and unregister, however handshakes and drops of several *)
(* devices interleave: nobody stays online, or goes offline, by a miscount.*)
ConnCount ==
    \A u \in Users :
        online[u] = Cardinality({c \in Conns : Owner[c] = u /\ Counted(c)})

(* A match pushed by a member's own machine does not outlive the last of   *)
(* the member's connections (unregister), not even when the sample is      *)
(* stored by a read loop while another connection of the member drops.     *)
ClientLiveHasConn ==
    \A u \in Users : HasLive(u) /\ live[u].source = "client" => online[u] > 0

(* An open session recorded by a client always has something that will     *)
(* close it: a connection of the member, or an unregister that has not yet *)
(* reached the database.  Only a restart or a failed EndClientSessions     *)
(* leaves one behind.                                                      *)
ClientSessionsOwned ==
    \A s \in open :
        s.source = "client" /\ s \notin leaked =>
            \/ online[s.user] > 0
            \/ \E c \in Conns : Owner[c] = s.user /\ pc[c] = "end_sessions"

BackgroundActs ==
    \E p \in Background : pc'[p] # pc[p] \/ queue'[p] # queue[p] \/ sample'[p] # sample[p]

ClientRespected ==
    \A u \in Users :
        BackgroundActs /\ live[u].source = "client" /\ live[u].fresh =>
            \/ live'[u] = live[u]
            \/ live'[u].source = "server" /\ live'[u].game # live[u].game
            \/ restarts' # restarts

(* Neither the poller nor the sweep ever takes down or replaces a match    *)
(* that a client is still pushing, except to show another game: the rule   *)
(* of setLive and clearLive, over their check and their several callers.   *)
FreshClientWins == [][ClientRespected]_vars

(* Once the goroutines concerned by a member are done, the page shows the  *)
(* member's presence as the database and the hub have it, up to what an    *)
(* admin has hidden or brought back since: presence is not recomputed      *)
(* then.  In particular nobody stays shown in a game without an open       *)
(* session, and a game hidden during a session can still be closed.        *)
PresenceSettles ==
    \A u \in Users :
        Quiet(u) =>
            \E H \in SUBSET Hideable :
                shown[u] = Status(account[u], online[u] > 0, PlayingUnless(u, H))

(* Likewise, no match stays on a page that the hub does not hold: nothing  *)
(* would ever take it down, since the sweep only visits what is held.      *)
NoFrozenCard ==
    \A u \in Users : Quiet(u) /\ card[u] # NoGame => HasLive(u)

(* A match on a page whose samples have stopped is taken down: the sweep   *)
(* guards against a game that crashes while the socket stays open.         *)
FrozenCardsFall ==
    \A u \in Users :
        (card[u] # NoGame /\ ~live[u].fresh) ~> (card[u] = NoGame \/ live[u].fresh)

(* The match of a member who stays hidden ends up gone from the hub, even  *)
(* one stored by a goroutine that had checked the permission before.       *)
HiddenEntryDies ==
    \A u \in Users : <>[](liveVisible[u] = "no") => <>[](~HasLive(u))

-----------------------------------------------------------------------------
(* What comments in the code say and the code does not do; the README      *)
(* names the run or the instance that refutes each.                        *)

(* hub.go:247: "The user is gone: their locally-detected games are over."  *)
EndsOnlyWhenGone ==
    [][\A c \in Conns :
          pc[c] = "end_sessions" /\ open' # open /\ pc'[c] = "bp_online" =>
              online[Owner[c]] = 0]_vars

(* hub.go:655: "h.liveVisible is filled when a client authenticates".      *)
KnownWhileConnected ==
    \A u \in Users : online[u] > 0 => liveVisible[u] # "unknown"

(* hub.go:694: "Someone who asks not to be seen anymore must stop being    *)
(* seen right away."                                                       *)
HiddenIsCut ==
    \A u \in Users : Quiet(u) /\ liveVisible[u] = "no" => ~HasLive(u)
=============================================================================
