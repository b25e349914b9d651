---------------------------- MODULE PlaySessions ----------------------------
(***************************************************************************)
(* The game_sessions table and the statements that write it                *)
(* (internal/store/sessions.go).  Every operation below is one SQL         *)
(* statement, hence one action; the clock is the database's now(), kept in *)
(* whole units and advanced by Tick.                                       *)
(*                                                                         *)
(* Left out: row ids, durations (a function of the two instants), the      *)
(* wording of games.  The two queries at the end are asked for every set   *)
(* of games an admin may have hidden.                                      *)
(***************************************************************************)
EXTENDS Integers

CONSTANTS
    Users, Games, Sources,
    Window,     \* sessionMergeWindow
    MaxTime     \* bound of the clock, for TLC only

ASSUME WindowAssumption == Window \in Nat \ {0}
ASSUME MaxTimeAssumption == MaxTime \in Nat
ASSUME SourcesAssumption == "client" \in Sources

VARIABLES
    rows,       \* the table
    now         \* the database's clock

vars == <<rows, now>>

Null == -1      \* ended_at IS NULL: the session is open

Rows == [user : Users, game : Games, source : Sources, start : Nat, end : Nat \cup {Null}]

IsOpen(r) == r.end = Null

(* mutant of OpenRows: one open session per source is let through *)
OpenClientRowsFor(u, g) ==
    {r \in rows : r.user = u /\ r.game = g /\ r.source = "client" /\ IsOpen(r)}

OpenRows(u, g) == {r \in rows : r.user = u /\ r.game = g /\ IsOpen(r)}

(* mutant of OpenClientRows: the source is not asked *)
AllOpenRows(u) == {r \in rows : r.user = u /\ IsOpen(r)}

(* The open sessions the member's own client recorded. *)
OpenClientRows(u) == {r \in rows : r.user = u /\ r.source = "client" /\ IsOpen(r)}

(* mutant of Mergeable: the window is one unit short *)
MergeableTooLate(u, g, src) ==
    {r \in rows : /\ r.user = u /\ r.game = g /\ r.source = src
                  /\ ~IsOpen(r)
                  /\ r.end > now - Window + 1}

(* Closed rows a start at this instant may be merged into. *)
Mergeable(u, g, src) ==
    {r \in rows : /\ r.user = u /\ r.game = g /\ r.source = src
                  /\ ~IsOpen(r)
                  /\ r.end > now - Window}

(* ORDER BY ended_at DESC LIMIT 1 *)
LastEnded(R) == {r \in R : \A q \in R : q.end <= r.end}

(* mutant of Reopen: the session starts over *)
Restarted(r) == rows' = (rows \ {r}) \cup {[r EXCEPT !.end = Null, !.start = now]}

Reopen(r) == rows' = (rows \ {r}) \cup {[r EXCEPT !.end = Null]}

NewRow(u, g, src) ==
    [user |-> u, game |-> g, source |-> src, start |-> now, end |-> Null]

Close(R) == rows' = (rows \ R) \cup {[r EXCEPT !.end = now] : r \in R}

-----------------------------------------------------------------------------
Init ==
    /\ rows = {}
    /\ now = 0

(* A start merges into the session of the same source that ended last, if  *)
(* it ended within the window; otherwise it opens a row.  Either way the   *)
(* partial unique index makes it a no-op while a session is open for the   *)
(* member and game.                                                        *)
StartSession(u, g, src) ==
    /\ OpenRows(u, g) = {}
    /\ \/ \E r \in LastEnded(Mergeable(u, g, src)) : Reopen(r)
       \/ /\ Mergeable(u, g, src) = {}
          /\ rows' = rows \cup {NewRow(u, g, src)}
    /\ UNCHANGED now

(* Closes the member's open session for the game, whatever its source. *)
EndSession(u, g) ==
    /\ OpenRows(u, g) # {}
    /\ Close(OpenRows(u, g))
    /\ UNCHANGED now

EndClientSessions(u) ==
    /\ Close(OpenClientRows(u))
    /\ UNCHANGED now

Tick ==
    /\ now < MaxTime
    /\ now' = now + 1
    /\ UNCHANGED rows

Next ==
    \/ \E u \in Users, g \in Games, src \in Sources : StartSession(u, g, src)
    \/ \E u \in Users, g \in Games : EndSession(u, g)
    \/ \E u \in Users : EndClientSessions(u)
    \/ Tick

Spec == Init /\ [][Next]_vars

-----------------------------------------------------------------------------
(* The two ways the server answers "what is this member playing".          *)

Newest(R) == {r \in R : \A q \in R : q.start <= r.start}

OpenOf(u) == {r \in rows : r.user = u /\ IsOpen(r)}

(* LatestOpenSession, behind every presence_update: the newest open        *)
(* session among the games that are not hidden.                            *)
LatestOpenSession(u, hidden) == Newest({r \in OpenOf(u) : r.game \notin hidden})

(* ListPresence, behind the page's first snapshot: the newest open session *)
(* of all, shown without its game when that game is hidden.                *)
ListPresence(u, hidden) == {r \in Newest(OpenOf(u)) : r.game \notin hidden}

-----------------------------------------------------------------------------
(* No session lies in the future or ends before it starts: what the CHECK  *)
(* constraint of the table and its clock give.                             *)
InThePast(r) == r.start <= now /\ (IsOpen(r) \/ (r.start <= r.end /\ r.end <= now))

TypeOK ==
    /\ rows \subseteq Rows
    /\ now \in Nat
    /\ \A r \in rows : InThePast(r)

SameSeries(r, q) == r.user = q.user /\ r.game = q.game /\ r.source = q.source

(* Two rows of one source for the same member and game are separated by at *)
(* least the merge window: flapping detection can never split a session,   *)
(* and no stretch of time is recorded twice by one source.                 *)
Separated(r, q) ==
    \/ ~IsOpen(r) /\ r.end + Window <= q.start
    \/ ~IsOpen(q) /\ q.end + Window <= r.start

FlapsAreMerged ==
    \A r, q \in rows : SameSeries(r, q) /\ r # q => Separated(r, q)

(* The partial unique index: one open session per member and game. *)
OneOpenPerGame ==
    \A r, q \in rows :
        IsOpen(r) /\ IsOpen(q) /\ r.user = q.user /\ r.game = q.game => r = q

(* The table implements the abstract set of open sessions. *)
Abs == INSTANCE OpenSessions WITH
    open <- {[user |-> r.user, game |-> r.game, source |-> r.source] :
                r \in {q \in rows : IsOpen(q)}}

ImplementsOpenSessions == Abs!Spec

(* A row, once written, is never lost or moved: only its end changes, and  *)
(* only reopening within the window turns a closed row open again.  The    *)
(* history of a member never shrinks.                                      *)
HistoryKept ==
    [][\A r \in rows : \E q \in rows' :
          /\ q.user = r.user /\ q.game = r.game /\ q.source = r.source
          /\ q.start = r.start
          /\ ~IsOpen(r) => q.end = r.end \/ (IsOpen(q) /\ r.end > now - Window)]_vars

-----------------------------------------------------------------------------
(* What a comment promises and the code does not keep (see the README).    *)

Overlap(r, q) ==
    /\ r.start < q.end \/ IsOpen(q)
    /\ q.start < r.end \/ IsOpen(r)

(* sessions.go:23-28: merging records a flapping game as one continuous    *)
(* session "with the correct total duration".  No instant may then be      *)
(* counted in two rows of the same member and game.                        *)
DurationCountedOnce ==
    \A r, q \in rows :
        r.user = q.user /\ r.game = q.game /\ r # q => ~Overlap(r, q)

(* sessions.go:148-151: a hidden game drops out of the snapshot "instead   *)
(* of" changing anything else of the member.  The snapshot would then show *)
(* the game the updates show; but it picks the newest session before it    *)
(* looks at hidden games, so a newer hidden session masks a visible one.   *)
SnapshotAgrees ==
    \A u \in Users, hidden \in SUBSET Games :
        ListPresence(u, hidden) = LatestOpenSession(u, hidden)
=============================================================================
