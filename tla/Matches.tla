------------------------------ MODULE Matches -------------------------------
(***************************************************************************)
(* The history of finished matches, as the desktop clients report it: the  *)
(* message the hub routes (internal/ws/hub.go, internal/matchrecord), the  *)
(* recorders of Rocket League and Hearthstone and the two tables they      *)
(* write.                                                                  *)
(*                                                                         *)
(* The desktop client is external: it queues one report per match, stamped *)
(* when it is made, and drops it once it believes it landed.  The protocol *)
(* has no acknowledgement, so a report may be processed and kept, and sent *)
(* again after a reconnection; told that the write failed, it keeps its    *)
(* report and nothing has changed.  But a lookup of the game that fails is *)
(* answered like a game this server does not know, and what a server will  *)
(* never record the client drops.  A Rocket League client may also report  *)
(* a match a second time from its post-match screen: an echo.              *)
(*                                                                         *)
(* One connection handles its messages one at a time, and the insert is    *)
(* one statement: a delivery is one action.  A match's statistics are one  *)
(* abstract value, its print; scores, results and bounds on them are left  *)
(* out.                                                                    *)
(***************************************************************************)
EXTENDS Integers, Sequences, FiniteSets

CONSTANTS
    Users,
    Prints,         \* result, score and the six statistics of a match
    Plays,          \* what a Hearthstone report says: [mode, place, card],
                    \* each of the last two possibly unreadable
    Window,         \* duplicateWindow
    Skew,           \* clockSkewTolerance
    MinDuration,    \* minDuration
    Drift,          \* how far ahead the members' clocks run
    MatchLen,       \* how long a real match takes
    MaxLinger,      \* how long after a match its echo may come
    InOrder,        \* whether the client sends its queue oldest first
    MaxLost,        \* bound on the lookups that fail, for TLC only
    MaxTime         \* bound of the clock, for TLC only

None == 0       \* no placement
NoHero == ""    \* no hero

ASSUME TimesAssumption ==
    /\ Window \in Nat /\ Skew \in Nat /\ MinDuration \in Nat \ {0}
    /\ MatchLen \in Nat /\ MaxLinger \in Nat /\ MaxTime \in Nat
    /\ MaxLinger < Window /\ MaxLinger + Window <= MatchLen
ASSUME DriftAssumption == Drift \in 0..Skew
ASSUME InOrderAssumption == InOrder \in BOOLEAN
ASSUME PlaysAssumption == \A p \in Plays : p \in [mode : STRING, place : Nat, card : STRING]

VARIABLES
    now,
    queue,      \* the reports each client has not dropped yet, oldest first
    screen,     \* the match each client's post-match screen still shows, if any
    finished,   \* the real matches played so far (history, never read)
    lost,       \* the reports dropped on a failed lookup (history)
    rl,         \* rocket_league_matches
    hs          \* hearthstone_matches

vars == <<now, queue, screen, finished, lost, rl, hs>>

(* A report of the match that ended at `at`, made at `stamp`; a real one   *)
(* is made when the match ends.                                            *)
Report(u, g, at, stamp, long, d) ==
    [user |-> u, game |-> g, at |-> at, stamp |-> stamp, long |-> long, data |-> d]

Clock == now + Drift

(* Training matches carry a playlist the recorder refuses. *)
Games == {"rocket-league", "training", "hearthstone", "untracked"}

Data(g) == IF g = "hearthstone" THEN Plays ELSE Prints

-----------------------------------------------------------------------------
(* The recorders. *)

(* mutant of Valid: a clock that runs ahead is not tolerated *)
ValidNoSkew(r) == r.stamp <= now /\ r.game # "training" /\ r.long

(* What a recorder accepts: a match that may be old but not future, is no  *)
(* training and lasted long enough to have been played.                    *)
Valid(r) ==
    /\ r.stamp <= now + Skew
    /\ r.game # "training"
    /\ r.long

(* A recorder claims the slug. *)
Tracked(r) == r.game # "untracked"

SameInstant(T, r) == \E q \in T : q.user = r.user /\ q.stamp = r.stamp

(* The very same statistics, stamped no earlier than a window before: the  *)
(* condition has no upper bound.                                           *)
Repeat(r) ==
    \E q \in rl : /\ q.user = r.user
                  /\ q.stamp > r.stamp - Window
                  /\ q.data = r.data

(* A placement outside Battlegrounds is dropped, not refused. *)
Placed(p) == IF p.mode = "battlegrounds" THEN p ELSE [p EXCEPT !.place = None]

Insert(r) ==
    CASE r.game = "hearthstone" ->
           /\ hs' = IF SameInstant(hs, r) THEN hs
                    ELSE hs \cup {[r EXCEPT !.data = Placed(@)]}
           /\ UNCHANGED rl
      [] OTHER ->
           /\ rl' = IF Repeat(r) \/ SameInstant(rl, r) THEN rl ELSE rl \cup {r}
           /\ UNCHANGED hs

-----------------------------------------------------------------------------
Init ==
    /\ now = 0
    /\ queue = [u \in Users |-> <<>>]
    /\ screen = [u \in Users |-> {}]
    /\ finished = {}
    /\ lost = {}
    /\ rl = {}
    /\ hs = {}

Enqueue(u, r) == queue' = [queue EXCEPT ![u] = Append(@, r)]

(* A member's match ends and their client reports it. *)
Finish(u, g, d) ==
    /\ \A r \in finished : r.user = u => r.at + MatchLen <= Clock
    /\ LET r == Report(u, g, Clock, Clock, TRUE, d)
       IN  /\ Enqueue(u, r)
           /\ finished' = finished \cup {r}
           /\ screen' = [screen EXCEPT
                ![u] = IF g = "rocket-league" THEN {[at |-> Clock, data |-> d]} ELSE {}]
    /\ UNCHANGED <<now, lost, rl, hs>>

(* The client makes a second match out of the post-match screen, whose     *)
(* stopwatch started when the real one ended.                              *)
Echo(u) ==
    /\ \E s \in screen[u] :
          /\ Clock - s.at <= MaxLinger
          /\ Enqueue(u, Report(u, "rocket-league", s.at, Clock,
                               Clock - s.at >= MinDuration, s.data))
    /\ screen' = [screen EXCEPT ![u] = {}]
    /\ UNCHANGED <<now, finished, lost, rl, hs>>

Sendable(u) == IF InOrder THEN {1} \cap DOMAIN queue[u] ELSE DOMAIN queue[u]

(* mutant of Drop: the report stays in the queue *)
Keep(u, i) == UNCHANGED queue

Drop(u, i) ==
    queue' = [queue EXCEPT ![u] = SubSeq(@, 1, i - 1) \o SubSeq(@, i + 1, Len(@))]

(* The report is recorded.  The client may not get to know it and keep it. *)
Recorded(u, i, heard) ==
    /\ Tracked(queue[u][i]) /\ Valid(queue[u][i])
    /\ Insert(queue[u][i])
    /\ IF heard THEN Drop(u, i) ELSE UNCHANGED queue
    /\ UNCHANGED <<now, screen, finished, lost>>

(* The client is told the report will never be recorded, and drops it. *)
Refused(u, i) ==
    /\ ~Tracked(queue[u][i]) \/ ~Valid(queue[u][i])
    /\ Drop(u, i)
    /\ UNCHANGED <<now, screen, finished, lost, rl, hs>>

(* The lookup of the game fails, for a moment or a timeout: the client is  *)
(* told what it is told of a game that is not in the catalog.              *)
LookupFails(u, i) ==
    /\ Cardinality(lost) < MaxLost
    /\ lost' = lost \cup {queue[u][i]}
    /\ Drop(u, i)
    /\ UNCHANGED <<now, screen, finished, rl, hs>>

Tick ==
    /\ now < MaxTime
    /\ now' = now + 1
    /\ UNCHANGED <<queue, screen, finished, lost, rl, hs>>

Deliver(u) ==
    \E i \in Sendable(u) :
        \/ \E heard \in BOOLEAN : Recorded(u, i, heard)
        \/ Refused(u, i)
        \/ LookupFails(u, i)

Next ==
    \/ \E u \in Users, g \in Games : \E d \in Data(g) : Finish(u, g, d)
    \/ \E u \in Users : Echo(u)
    \/ \E u \in Users : Deliver(u)
    \/ Tick

(* A client keeps sending its oldest report, and the database is not down  *)
(* for ever.                                                               *)
Fairness ==
    \A u \in Users : WF_vars(\/ 1 \in Sendable(u) /\ Recorded(u, 1, TRUE)
                             \/ 1 \in Sendable(u) /\ Refused(u, 1))

Spec == Init /\ [][Next]_vars /\ Fairness

-----------------------------------------------------------------------------
Recordable(r) == r.game \in {"rocket-league", "hearthstone"}

Queued(r) == \E i \in DOMAIN queue[r.user] : queue[r.user][i] = r

(* "It cannot swallow a genuine game" (store/rocketleague.go:53-56): a     *)
(* real match whose report left the queue has the row of that very report, *)
(* unless the report was dropped on a failed lookup.                       *)
GenuineLands ==
    \A r \in finished :
        Recordable(r) /\ ~Queued(r) => SameInstant(rl \cup hs, r) \/ r \in lost

(* However often its reports are sent, no match is counted twice.          *)
CountedOnce == \A p, q \in rl \cup hs : p.user = q.user /\ p.at = q.at => p = q

(* A member's history holds each real match once, whatever was resent or   *)
(* repeated on the way, and nothing else.  A match whose report a failed   *)
(* lookup dropped may be missing, or stand there by its echo.              *)
EachMatchOnce ==
    /\ GenuineLands
    /\ CountedOnce
    /\ \A q \in rl \cup hs :
          \E r \in finished : /\ Recordable(r) /\ r.user = q.user /\ r.at = q.at
                              /\ r.stamp = q.stamp \/ r \in lost

Landed(u, t) == \E q \in rl \cup hs : q.user = u /\ q.stamp = t

(* Under the fairness of the client's retries, every real match gets its   *)
(* row: a write that fails is answered so that the client keeps its report *)
(* (hub.go:519-522).  Only a failed lookup loses one.                      *)
EveryMatchLands ==
    \A u \in Users : \A t \in Drift..(MaxTime + Drift) :
        (\E r \in finished : Recordable(r) /\ r.user = u /\ r.stamp = t)
            ~> Landed(u, t) \/ \E r \in lost : r.user = u /\ r.stamp = t

-----------------------------------------------------------------------------
(* What a comment promises and the code does not keep (see the README).    *)

(* hub.go:520-521: a client is told of a database that fails, "otherwise   *)
(* it drops the match from its queue believing it landed".  No report of a *)
(* real match would then leave the queue without a row; but when it is the *)
(* lookup that fails, what the client is told makes it drop the match.     *)
FailureKeepsReport ==
    \A r \in finished : Recordable(r) /\ ~Queued(r) => SameInstant(rl \cup hs, r)
=============================================================================
