------------------------------ MODULE Backfill ------------------------------
(***************************************************************************)
(* The walk through the League history of every linked member              *)
(* (internal/riotsync/backfill.go), and the requests that link and unlink  *)
(* Riot accounts while it runs (internal/api/connect_riot.go).             *)
(*                                                                         *)
(* One goroutine walks.  Each tick it takes the pending member whose       *)
(* cursor is oldest, asks Riot for a page of matches at or before that     *)
(* cursor, stores them one by one and moves the cursor to just before the  *)
(* oldest one it saw.  An action is one database or one Riot call: between *)
(* two of them requests run and matches are played.                        *)
(*                                                                         *)
(* A match is the account that played it and the second it ended.  Every   *)
(* failure of a call, and a restart, spends one unit of MaxTrouble.        *)
(*                                                                         *)
(* Left out: platforms and clusters, bans, the refresh that stores a       *)
(* member's last five matches when someone opens the page.                 *)
(***************************************************************************)
EXTENDS Integers, FiniteSets

CONSTANTS
    Members, Accounts,
    MayLink,        \* the Riot accounts each member may type
    NoAccount,
    Requests,       \* concurrent API requests
    Caller,         \* the member behind each request
    PageSize,       \* backfillPage
    Past,           \* matches played before the server first ran
    Unusable,       \* matches Riot lists without a usable detail
    MaxTime,        \* bound on the instant of a match
    MaxTrouble,     \* bound on failures and restarts
    MaxLinks        \* bound on requests made

ASSUME MembersAssumption == Members # {} /\ NoAccount \notin Accounts
ASSUME LinkAssumption ==
    MayLink \subseteq Members \X Accounts /\ Caller \in [Requests -> Members]
ASSUME PageAssumption == PageSize \in Nat \ {0}
ASSUME PastAssumption ==
    /\ Past \subseteq [account : Accounts, time : Nat \ {0}]
    /\ \A x, y \in Past : x.account = y.account /\ x.time = y.time => x = y
ASSUME BackfillBounds == MaxTime \in Nat /\ MaxTrouble \in Nat /\ MaxLinks \in Nat

VARIABLES
    played,         \* matches Riot knows
    stored,         \* lol_matches: a member and a match
    link,           \* linked_accounts, provider riot
    routed,         \* members with a row in riot_accounts
    before,         \* its backfill_before
    done,           \* the members whose backfill_done is set
    at,             \* where the walking goroutine is
    whom, puuid,    \* the member and account it walks
    base,           \* the cursor it read
    page, left,     \* the page it got, and what remains of it
    seen,           \* matches of the page whose detail it has read
    step, typed,    \* where each request is, and the account it links
    lost,           \* inserts that failed (history)
    trouble, links

rows == <<link, routed, before, done>>
walk == <<at, whom, puuid, base, page, left, seen>>
requests == <<step, typed>>
vars == <<played, stored, rows, walk, requests, lost, trouble, links>>

Matches == [account : Accounts, time : Nat \ {0}]

(* A NULL instant: the walk has not started.  NULLS FIRST makes it the     *)
(* smallest of all.                                                        *)
Null == -1
Cursors == Nat \cup {Null}

Someone == CHOOSE m \in Members : TRUE

Init ==
    /\ played = Past
    /\ stored = {} /\ lost = {}
    /\ link = [m \in Members |-> NoAccount]
    /\ routed = {} /\ done = {}
    /\ before = [m \in Members |-> Null]
    /\ at = "idle" /\ whom = Someone /\ puuid = NoAccount
    /\ base = Null /\ page = {} /\ left = {} /\ seen = {}
    /\ step = [r \in Requests |-> "idle"]
    /\ typed = [r \in Requests |-> NoAccount]
    /\ trouble = 0 /\ links = 0

-----------------------------------------------------------------------------
Trouble == trouble < MaxTrouble /\ trouble' = trouble + 1

Linked(m) == link[m] # NoAccount /\ m \in routed

(* LolBackfillPending, without its LIMIT *)
Pending == {m \in Members \ done : Linked(m)}

(* What the walking goroutine holds at the end of a step. *)
StopWalking ==
    /\ at' = "idle" /\ whom' = Someone /\ puuid' = NoAccount
    /\ base' = Null /\ page' = {} /\ left' = {} /\ seen' = {}

(* LolBackfillPending: the oldest cursor first *)
Pick ==
    /\ at = "idle"
    /\ \E m \in Pending :
        /\ \A q \in Pending : before[m] <= before[q]
        /\ whom' = m /\ puuid' = link[m]
    /\ at' = "cursor"
    /\ UNCHANGED <<played, stored, rows, base, page, left, seen, requests, lost, trouble, links>>

(* LolBackfillCursor; the row may be gone by now. *)
ReadCursor ==
    /\ at = "cursor"
    /\ \/ /\ whom \in routed
          /\ at' = "ids" /\ base' = before[whom]
          /\ UNCHANGED <<whom, puuid, page, left, seen>>
       \/ /\ whom \notin routed
          /\ StopWalking
    /\ UNCHANGED <<played, stored, rows, requests, lost, trouble, links>>

(* mutant of Older: the cursor is not sent *)
WholeHistory == {x \in played : x.account = puuid}

(* endTime is inclusive, and not sent before the walk has started. *)
Older == {x \in played : x.account = puuid /\ (base = Null \/ x.time <= base)}

(* The newest PageSize matches of a set. *)
Pages(S) ==
    {Q \in SUBSET S :
        /\ \/ Cardinality(Q) = PageSize
           \/ Q = S /\ Cardinality(S) < PageSize
        /\ \A q \in Q, x \in S \ Q : x.time < q.time}

(* MatchIDsBefore *)
ListIds ==
    /\ at = "ids"
    /\ page' \in Pages(Older) /\ left' = page'
    /\ at' = "page"
    /\ UNCHANGED <<played, stored, rows, whom, puuid, base, seen, requests, lost, trouble, links>>

(* MatchDetail and InsertLolMatch, in whatever order Riot lists ids. *)
StoreMatch(x) ==
    /\ at = "page" /\ x \in left /\ x \notin Unusable
    /\ left' = left \ {x} /\ seen' = seen \cup {x}
    /\ stored' = stored \cup {<<whom, x>>}
    /\ UNCHANGED <<played, rows, at, whom, puuid, base, page, requests, lost, trouble, links>>

(* The insert fails: logged, and the match counts as seen. *)
LoseMatch(x) ==
    /\ at = "page" /\ x \in left /\ x \notin Unusable
    /\ Trouble
    /\ left' = left \ {x} /\ seen' = seen \cup {x}
    /\ lost' = lost \cup {<<whom, x>>}
    /\ UNCHANGED <<played, stored, rows, at, whom, puuid, base, page, requests, links>>

(* A permanent answer: the id is skipped. *)
SkipMatch(x) ==
    /\ at = "page" /\ x \in left /\ x \in Unusable
    /\ left' = left \ {x}
    /\ UNCHANGED <<played, stored, rows, at, whom, puuid, base, page, seen, requests, lost, trouble, links>>

(* mutant of PageAbandoned: the match is skipped and the page goes on *)
MatchSkipped == \E x \in left : left' = left \ {x} /\ UNCHANGED <<at, whom, puuid, base, page, seen>>

PageAbandoned == StopWalking

(* A rate limit or a failure of Riot: the cursor stays. *)
TransientFailure ==
    /\ at = "page" /\ left # {}
    /\ Trouble
    /\ PageAbandoned
    /\ UNCHANGED <<played, stored, rows, requests, lost, links>>

(* The cursor cannot be read, the ids not listed, the cursor not written. *)
CallFails ==
    /\ at \in {"cursor", "ids"} \/ (at = "page" /\ left = {})
    /\ Trouble
    /\ StopWalking
    /\ UNCHANGED <<played, stored, rows, requests, lost, links>>

(* mutant of SetCursor: an insert rather than an update *)
UpsertCursor(b, finished) ==
    /\ before' = [before EXCEPT ![whom] = b]
    /\ done' = IF finished THEN done \cup {whom} ELSE done \ {whom}

(* SetLolBackfillCursor: an update, so nothing without a row *)
SetCursor(b, finished) ==
    IF whom \in routed
    THEN /\ before' = [before EXCEPT ![whom] = b]
         /\ done' = IF finished THEN done \cup {whom} ELSE done \ {whom}
    ELSE UNCHANGED <<before, done>>

(* An empty page ends the walk. *)
Finish ==
    /\ at = "page" /\ page = {}
    /\ SetCursor(base, TRUE)
    /\ StopWalking
    /\ UNCHANGED <<played, stored, link, routed, requests, lost, trouble, links>>

(* mutant of NextCursor: the inclusive bound is overlooked *)
SameCursor(x) == x.time

(* One second before the oldest match seen *)
NextCursor(x) == x.time - 1

Oldest(S) == {x \in S : \A y \in S : x.time <= y.time}

(* A page without one usable detail leaves the cursor. *)
Advance ==
    /\ at = "page" /\ page # {} /\ left = {}
    /\ \/ seen = {} /\ UNCHANGED <<before, done>>
       \/ \E x \in Oldest(seen) : SetCursor(NextCursor(x), FALSE)
    /\ StopWalking
    /\ UNCHANGED <<played, stored, link, routed, requests, lost, trouble, links>>

-----------------------------------------------------------------------------
(* connectRiot and disconnectRiot                                          *)

At(r, s) == step' = [step EXCEPT ![r] = s]

LinkedToOther(m, a) == \E q \in Members \ {m} : link[q] = a

(* ProviderLinkedToOther has found nobody; Riot is then asked for the      *)
(* region.                                                                 *)
Connect(r, a) ==
    /\ step[r] = "idle" /\ links < MaxLinks
    /\ <<Caller[r], a>> \in MayLink /\ ~LinkedToOther(Caller[r], a)
    /\ typed' = [typed EXCEPT ![r] = a]
    /\ At(r, "identity")
    /\ links' = links + 1
    /\ UNCHANGED <<played, stored, rows, walk, lost, trouble>>

(* UpsertLinkedAccount: the unique constraint refuses an account that      *)
(* another member has linked in the meantime.                              *)
WriteIdentity(r) ==
    /\ step[r] = "identity"
    /\ \/ /\ LinkedToOther(Caller[r], typed[r])
          /\ At(r, "idle")
          /\ UNCHANGED link
       \/ /\ ~LinkedToOther(Caller[r], typed[r])
          /\ link' = [link EXCEPT ![Caller[r]] = typed[r]]
          /\ At(r, "routing")
    /\ UNCHANGED <<played, stored, routed, before, done, walk, typed, lost, trouble, links>>

(* UpsertRiotRouting: an existing row keeps its cursor. *)
WriteRouting(r) ==
    /\ step[r] = "routing"
    /\ routed' = routed \cup {Caller[r]}
    /\ At(r, "idle")
    /\ UNCHANGED <<played, stored, link, before, done, walk, typed, lost, trouble, links>>

RoutingFails(r) ==
    /\ step[r] = "routing"
    /\ Trouble
    /\ At(r, "unlink")
    /\ UNCHANGED <<played, stored, rows, walk, typed, lost, links>>

(* DeleteRiotData: the cursor goes with the row. *)
Disconnect(r) ==
    /\ step[r] = "idle" /\ links < MaxLinks
    /\ routed' = routed \ {Caller[r]} /\ done' = done \ {Caller[r]}
    /\ before' = [before EXCEPT ![Caller[r]] = Null]
    /\ At(r, "unlink")
    /\ links' = links + 1
    /\ UNCHANGED <<played, stored, link, walk, typed, lost, trouble>>

(* DeleteLinkedAccount, to unlink or to roll a link back *)
Unlink(r) ==
    /\ step[r] = "unlink"
    /\ link' = [link EXCEPT ![Caller[r]] = NoAccount]
    /\ At(r, "idle")
    /\ UNCHANGED <<played, stored, routed, before, done, walk, typed, lost, trouble, links>>

RequestFails(r) ==
    /\ step[r] \in {"identity", "unlink"}
    /\ Trouble
    /\ At(r, "idle")
    /\ UNCHANGED <<played, stored, rows, walk, typed, lost, links>>

-----------------------------------------------------------------------------
(* A member plays: a match ends after every earlier one of its account.    *)
Play(a) ==
    /\ \E t \in 1..MaxTime :
        /\ \A x \in played : x.account = a => x.time < t
        /\ played' = played \cup {[account |-> a, time |-> t]}
    /\ UNCHANGED <<stored, rows, walk, requests, lost, trouble, links>>

Restart ==
    /\ Trouble
    /\ StopWalking
    /\ step' = [r \in Requests |-> "idle"]
    /\ UNCHANGED <<played, stored, rows, typed, lost, links>>

WalkGoesOn ==
    \/ Pick \/ ReadCursor \/ ListIds \/ Finish \/ Advance
    \/ \E x \in left : StoreMatch(x) \/ SkipMatch(x)

WalkFails == TransientFailure \/ CallFails \/ \E x \in left : LoseMatch(x)

RequestGoesOn(r) == WriteIdentity(r) \/ WriteRouting(r) \/ Unlink(r)

RequestBegins(r) == Disconnect(r) \/ \E a \in Accounts : Connect(r, a)

Next ==
    \/ WalkGoesOn \/ WalkFails
    \/ \E r \in Requests :
        RequestGoesOn(r) \/ RequestBegins(r) \/ RoutingFails(r) \/ RequestFails(r)
    \/ \E a \in Accounts : Play(a)
    \/ Restart

Spec == Init /\ [][Next]_vars

(* The ticker ticks, and a call that does not fail returns.                *)
Fairness == WF_vars(WalkGoesOn) /\ \A r \in Requests : WF_vars(RequestGoesOn(r))

FairSpec == Spec /\ Fairness

-----------------------------------------------------------------------------
TypeOK ==
    /\ played \subseteq Matches
    /\ stored \subseteq Members \X played /\ lost \subseteq Members \X played
    /\ link \in [Members -> Accounts \cup {NoAccount}]
    /\ routed \subseteq Members /\ done \subseteq routed
    /\ before \in [Members -> Cursors]
    /\ \A m \in Members \ routed : before[m] = Null
    /\ at \in {"idle", "cursor", "ids", "page"}
    /\ whom \in Members /\ puuid \in Accounts \cup {NoAccount}
    /\ base \in Cursors
    /\ page \subseteq played /\ left \subseteq page /\ seen \subseteq page \ left
    /\ at # "page" => page = {}
    /\ step \in [Requests -> {"idle", "identity", "routing", "unlink"}]
    /\ typed \in [Requests -> Accounts \cup {NoAccount}]
    /\ trouble \in 0..MaxTrouble /\ links \in 0..MaxLinks

Covered(m, x) == <<m, x>> \in stored \cup lost \/ x \in Unusable

(* Above an instant, every match older than a stored one has been dealt    *)
(* with.                                                                   *)
CoveredAbove(m, a, b) ==
    \A x, y \in played :
        /\ x.account = a /\ y.account = a
        /\ <<m, x>> \in stored /\ b < y.time /\ y.time < x.time
        => Covered(m, y)

(* Between a member's newest stored match and the cursor nothing is        *)
(* missing, whatever fails, restarts, or is unlinked and linked again in   *)
(* the middle of a page: the cursor never moves past a match that was not  *)
(* dealt with.  Only an insert that failed is excepted.                    *)
NoHole ==
    \A m \in Members :
        before[m] # Null /\ link[m] # NoAccount => CoveredAbove(m, link[m], before[m])

WalkGoesBack ==
    \A m \in routed \cap routed' :
        /\ before[m] # Null =>
              before'[m] = before[m] \/ (before'[m] # Null /\ before'[m] < before[m])
        /\ m \in done => m \in done'

(* For as long as a member's row lives, its cursor only ever moves back in *)
(* time and a finished walk stays finished, also when the row was replaced *)
(* while the walker held a page of the previous one.                       *)
CursorFalls == [][WalkGoesBack]_vars

(* A member who stays linked is walked to the end of what Riot has, in     *)
(* spite of failures, restarts, other members and matches being played.    *)
(* Holds as long as no page consists of unusable matches alone.            *)
WalkEnds == \A m \in Members : <>[]Linked(m) => <>[](m \in done)

-----------------------------------------------------------------------------
(* What a comment says and the code does not do (see the README)           *)

(* backfill.go:128-132: nothing must "carve a permanent hole in a history  *)
(* nobody can audit. The whole point of this walk is that it is complete." *)
WalkIsComplete ==
    \A m \in done, x \in Past :
        link[m] = x.account => <<m, x>> \in stored \/ x \in Unusable
=============================================================================
