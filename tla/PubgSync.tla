------------------------------ MODULE PubgSync ------------------------------
(***************************************************************************)
(* The daily collection of PUBG matches, which their publisher deletes     *)
(* after a fortnight (internal/pubgsync/syncer.go, internal/store/pubg.go),*)
(* and the requests that link, correct and unlink accounts while it runs   *)
(* (internal/api/connect_pubg.go).                                         *)
(*                                                                         *)
(* One goroutine passes over the linked members at boot and then once a    *)
(* day.  An action is one database or publisher call; a request is         *)
(* interleaved between any two.  Only the pass writes pubg_matches, so the *)
(* ids it knows are read in the same step as the ids it is given, and are  *)
(* never stale.                                                            *)
(*                                                                         *)
(* Time is counted in days that begin with the ticker, and a pass ends     *)
(* within its day.  A match is its account and the day it was played.      *)
(* Every failure of a call spends one unit of MaxTrouble; the server may   *)
(* restart at any time.                                                    *)
(*                                                                         *)
(* Left out: bans, the game missing from the catalog other than as a pass  *)
(* that fails, and what a match holds.                                     *)
(***************************************************************************)
EXTENDS Integers, FiniteSets

CONSTANTS
    Members, Accounts, Shards,
    ShardOf,        \* the shard that issued an account
    MayLink,        \* the accounts each member may name
    Nothing,        \* no account, no shard, no member
    Requests,       \* concurrent API requests
    Caller,         \* the member behind each
    Unplayable,     \* matches that are permanently refused
    Retention,      \* days the publisher keeps a match
    MaxDay, MaxPlays, MaxTrouble, MaxLinks      \* bounds

ASSUME MembersAssumption == Nothing \notin Members \cup Accounts \cup Shards
ASSUME ShardAssumption == ShardOf \in [Accounts -> Shards]
ASSUME LinkAssumption ==
    MayLink \subseteq Members \X Accounts /\ Caller \in [Requests -> Members]
ASSUME RetentionAssumption == Retention \in Nat \ {0}
ASSUME PubgBounds ==
    MaxDay \in Nat /\ MaxPlays \in Nat /\ MaxTrouble \in Nat /\ MaxLinks \in Nat

VARIABLES
    day,
    due,            \* the day's pass has not begun
    played,         \* matches that happened
    stored,         \* pubg_matches: a member and a match
    link,           \* linked_accounts, provider pubg
    shard,          \* pubg_accounts
    at,             \* where the pass is
    todo,           \* links it has read and not come to
    cur, left,      \* the link it walks, and the matches left to read
    step, typed,    \* where each request is, and the account it resolved
    since,          \* the day a member's link was last written (history)
    torn,           \* members whose link was left half written (history)
    trouble, links

rows == <<link, shard, since>>
pass == <<at, todo, cur, left>>
requests == <<step, typed>>
vars == <<day, due, played, stored, rows, pass, requests, torn, trouble, links>>

Matches == [account : Accounts, day : Nat]
Links == [member : Members, account : Accounts, shard : Shards]
Steps == {"idle", "identity", "correction", "routing", "rerouting", "rollback", "unlink"}

Init ==
    /\ day = 0 /\ due = TRUE
    /\ played = {} /\ stored = {}
    /\ link = [m \in Members |-> Nothing]
    /\ shard = [m \in Members |-> Nothing]
    /\ since = [m \in Members |-> 0]
    /\ at = "idle" /\ todo = {} /\ cur = Nothing /\ left = {}
    /\ step = [r \in Requests |-> "idle"]
    /\ typed = [r \in Requests |-> Nothing]
    /\ torn = {} /\ trouble = 0 /\ links = 0

-----------------------------------------------------------------------------
(* The daily pass                                                          *)

Trouble == trouble < MaxTrouble /\ trouble' = trouble + 1

Linked(m) == link[m] # Nothing /\ shard[m] # Nothing

LinkOf(m) == [member |-> m, account |-> link[m], shard |-> shard[m]]

(* PubgLinkedMembers; members, and then their matches, come in any order. *)
BeginPass ==
    /\ at = "idle" /\ due
    /\ due' = FALSE
    /\ todo' = {LinkOf(m) : m \in {m \in Members : Linked(m)}}
    /\ at' = "pass"
    /\ UNCHANGED <<day, played, stored, rows, cur, left, requests, torn, trouble, links>>

(* The members or the game cannot be read: there is no pass until tomorrow.*)
PassFails ==
    /\ at = "idle" /\ due
    /\ Trouble
    /\ due' = FALSE
    /\ UNCHANGED <<day, played, stored, rows, pass, requests, torn, links>>

Age(x) == day - x.day

(* What the publisher lists.  On the day a match expires it may be gone.   *)
Kept(a) == {x \in played : x.account = a /\ Age(x) < Retention}
Fading(a) == {x \in played : x.account = a /\ Age(x) = Retention}

(* mutant of Missing: a watermark instead of the rows themselves *)
SinceWatermark(m, S) == {x \in S : \A y \in played : <<m, y>> \in stored => y.day < x.day}

(* walk: a match already stored is not read again *)
Missing(m, S) == {x \in S : <<m, x>> \notin stored}

(* PubgKnownMatchIDs and PlayerByID *)
ListMatches(t) ==
    /\ at = "pass" /\ t \in todo
    /\ ShardOf[t.account] = t.shard
    /\ \E S \in SUBSET Fading(t.account) : left' = Missing(t.member, Kept(t.account) \cup S)
    /\ todo' = todo \ {t} /\ cur' = t
    /\ at' = "walk"
    /\ UNCHANGED <<day, due, played, stored, rows, requests, torn, trouble, links>>

(* A shard that never issued this account answers 404. *)
Unresolved(t) ==
    /\ at = "pass" /\ t \in todo
    /\ ShardOf[t.account] # t.shard
    /\ todo' = todo \ {t}
    /\ UNCHANGED <<day, due, played, stored, rows, at, cur, left, requests, torn, trouble, links>>

(* One member's failure does not cost the others their pass. *)
SkipMember(t) ==
    /\ at = "pass" /\ t \in todo
    /\ Trouble
    /\ todo' = todo \ {t}
    /\ UNCHANGED <<day, due, played, stored, rows, at, cur, left, requests, torn, links>>

(* MatchForPlayer, then InsertPubgMatch *)
StoreMatch(x) ==
    /\ at = "walk" /\ x \in left /\ x \notin Unplayable
    /\ stored' = stored \cup {<<cur.member, x>>}
    /\ left' = left \ {x}
    /\ UNCHANGED <<day, due, played, rows, at, todo, cur, requests, torn, trouble, links>>

(* A permanent answer, a row the table refuses, or a match the publisher   *)
(* dropped since it listed it                                              *)
SkipMatch(x) ==
    /\ at = "walk" /\ x \in left /\ (x \in Unplayable \/ Age(x) = Retention)
    /\ left' = left \ {x}
    /\ UNCHANGED <<day, due, played, stored, rows, at, todo, cur, requests, torn, trouble, links>>

(* A passing failure: the match is left unstored, and the walk goes on. *)
LeaveMatch(x) ==
    /\ at = "walk" /\ x \in left
    /\ Trouble
    /\ left' = left \ {x}
    /\ UNCHANGED <<day, due, played, stored, rows, at, todo, cur, requests, torn, links>>

WalkOver == cur' = Nothing /\ left' = {}

MemberDone ==
    /\ at = "walk" /\ left = {}
    /\ WalkOver /\ at' = "pass"
    /\ UNCHANGED <<day, due, played, stored, rows, todo, requests, torn, trouble, links>>

PassDone ==
    /\ at = "pass" /\ todo = {}
    /\ at' = "idle"
    /\ UNCHANGED <<day, due, played, stored, rows, todo, cur, left, requests, torn, trouble, links>>

-----------------------------------------------------------------------------
(* connectPubg, updatePubgPlatform and disconnectPubg                      *)

At(r, s) == step' = [step EXCEPT ![r] = s] /\ UNCHANGED typed

Ends(r) == step' = [step EXCEPT ![r] = "idle"] /\ typed' = [typed EXCEPT ![r] = Nothing]

LinkedToOther(m, a) == \E q \in Members \ {m} : link[q] = a

(* The publisher has resolved the name, and nobody else has the account.   *)
Resolved(r, a, s) ==
    /\ step[r] = "idle" /\ links < MaxLinks
    /\ <<Caller[r], a>> \in MayLink /\ ~LinkedToOther(Caller[r], a)
    /\ step' = [step EXCEPT ![r] = s] /\ typed' = [typed EXCEPT ![r] = a]
    /\ links' = links + 1
    /\ UNCHANGED <<day, due, played, stored, rows, pass, torn, trouble>>

Connect(r, a) == Resolved(r, a, "identity")

(* The name that is linked, resolved again on another shard *)
Correct(r, a) == link[Caller[r]] # Nothing /\ Resolved(r, a, "correction")

Write(m) == since' = [since EXCEPT ![m] = day]

(* UpsertLinkedAccount; another member may have linked the account since.  *)
WriteIdentity(r) ==
    /\ step[r] \in {"identity", "correction"}
    /\ \/ /\ LinkedToOther(Caller[r], typed[r])
          /\ Ends(r)
          /\ UNCHANGED <<link, since>>
       \/ /\ ~LinkedToOther(Caller[r], typed[r])
          /\ link' = [link EXCEPT ![Caller[r]] = typed[r]]
          /\ Write(Caller[r])
          /\ At(r, IF step[r] = "identity" THEN "routing" ELSE "rerouting")
    /\ UNCHANGED <<day, due, played, stored, shard, pass, torn, trouble, links>>

(* UpsertPubgAccount *)
WriteRouting(r) ==
    /\ step[r] \in {"routing", "rerouting"}
    /\ shard' = [shard EXCEPT ![Caller[r]] = ShardOf[typed[r]]]
    /\ Write(Caller[r])
    /\ torn' = torn \ {Caller[r]}
    /\ Ends(r)
    /\ UNCHANGED <<day, due, played, stored, link, pass, trouble, links>>

(* mutant of RollsBack: the identity stays *)
StaysHalfway(r) == Ends(r)

RollsBack(r) == At(r, "rollback")

(* Only a connect takes its identity back. *)
RoutingFails(r) ==
    /\ Trouble
    /\ \/ step[r] = "routing" /\ RollsBack(r) /\ UNCHANGED torn
       \/ step[r] = "rerouting" /\ Ends(r) /\ torn' = torn \cup {Caller[r]}
    /\ UNCHANGED <<day, due, played, stored, rows, pass, links>>

(* DeletePubgAccount; the matches are kept. *)
Disconnect(r) ==
    /\ step[r] = "idle" /\ links < MaxLinks
    /\ shard' = [shard EXCEPT ![Caller[r]] = Nothing]
    /\ Write(Caller[r])
    /\ At(r, "unlink")
    /\ links' = links + 1
    /\ UNCHANGED <<day, due, played, stored, link, pass, torn, trouble>>

(* DeleteLinkedAccount, to unlink or to roll back *)
Unlink(r) ==
    /\ step[r] \in {"unlink", "rollback"}
    /\ link' = [link EXCEPT ![Caller[r]] = Nothing]
    /\ Write(Caller[r])
    /\ torn' = torn \ {Caller[r]}
    /\ Ends(r)
    /\ UNCHANGED <<day, due, played, stored, shard, pass, trouble, links>>

(* The first write fails, or the last delete does: a rollback is lost. *)
RequestFails(r) ==
    /\ step[r] \in {"identity", "correction", "unlink", "rollback"}
    /\ Trouble
    /\ Ends(r)
    /\ torn' = torn \cup {m \in {Caller[r]} : step[r] = "rollback"}
    /\ UNCHANGED <<day, due, played, stored, rows, pass, links>>

-----------------------------------------------------------------------------
Play(a) ==
    /\ ~due /\ Cardinality(played) < MaxPlays
    /\ played' = played \cup {[account |-> a, day |-> day]}
    /\ UNCHANGED <<day, due, stored, rows, pass, requests, torn, trouble, links>>

(* The identity is written, and the routing is not. *)
Halfway(r) == step[r] \in {"routing", "rerouting", "rollback"}

(* Run begins with a pass. *)
Restart ==
    /\ due' = TRUE
    /\ at' = "idle" /\ todo' = {} /\ WalkOver
    /\ step' = [r \in Requests |-> "idle"] /\ typed' = [r \in Requests |-> Nothing]
    /\ torn' = torn \cup {Caller[r] : r \in {r \in Requests : Halfway(r)}}
    /\ UNCHANGED <<day, played, stored, rows, trouble, links>>

(* The ticker, once the day's pass is over *)
Tick ==
    /\ at = "idle" /\ ~due /\ day < MaxDay
    /\ day' = day + 1 /\ due' = TRUE
    /\ UNCHANGED <<played, stored, rows, pass, requests, torn, trouble, links>>

PassGoesOn ==
    \/ BeginPass \/ MemberDone \/ PassDone
    \/ \E t \in todo : ListMatches(t) \/ Unresolved(t)
    \/ \E x \in left : StoreMatch(x) \/ SkipMatch(x)

PassStumbles ==
    \/ PassFails
    \/ \E t \in todo : SkipMember(t)
    \/ \E x \in left : LeaveMatch(x)

Request(r) ==
    \/ \E a \in Accounts : Connect(r, a) \/ Correct(r, a)
    \/ WriteIdentity(r) \/ WriteRouting(r) \/ RoutingFails(r)
    \/ Disconnect(r) \/ Unlink(r) \/ RequestFails(r)

Next ==
    \/ PassGoesOn \/ PassStumbles
    \/ \E r \in Requests : Request(r)
    \/ \E a \in Accounts : Play(a)
    \/ Restart \/ Tick

Spec == Init /\ [][Next]_vars

-----------------------------------------------------------------------------
TypeOK ==
    /\ day \in 0..MaxDay /\ due \in BOOLEAN
    /\ played \subseteq Matches /\ \A x \in played : x.day <= day
    /\ stored \subseteq Members \X played
    /\ link \in [Members -> Accounts \cup {Nothing}]
    /\ shard \in [Members -> Shards \cup {Nothing}]
    /\ since \in [Members -> 0..day]
    /\ at \in {"idle", "pass", "walk"} /\ (due => at = "idle")
    /\ todo \subseteq Links /\ (at = "idle" => todo = {})
    /\ left \subseteq played
    /\ IF at = "walk" THEN cur \in Links ELSE cur = Nothing /\ left = {}
    /\ step \in [Requests -> Steps]
    /\ typed \in [Requests -> Accounts \cup {Nothing}]
    /\ \A r \in Requests : step[r] \notin {"idle", "unlink"} => typed[r] # Nothing
    /\ torn \subseteq Members
    /\ trouble \in 0..MaxTrouble /\ links \in 0..MaxLinks

Resolves(m) == Linked(m) /\ ShardOf[link[m]] = shard[m]

(* A match a member must have: playable, and played since the member's     *)
(* link was last written.                                                  *)
Owed(m, x) ==
    /\ Resolves(m) /\ x.account = link[m] /\ since[m] <= x.day
    /\ x \notin Unplayable

(* Whatever fails, in whatever order, whoever links or unlinks meanwhile   *)
(* and however often the server restarts: a member who stays linked loses  *)
(* no match to the publisher as long as fewer calls fail than there are    *)
(* passes within its retention ("thirteen days of slack", syncer.go:25).   *)
CollectedInTime ==
    MaxTrouble < Retention - 1 =>
        \A m \in Members, x \in played :
            Owed(m, x) /\ Age(x) >= Retention => <<m, x>> \in stored

Settled(m) == \A r \in Requests : Caller[r] = m => step[r] = "idle"

(* An account is queried on the shard that issued it: identity and routing *)
(* are written apart, yet outside of requests they agree, unless a         *)
(* correction or a rollback was left half done.  Holds with one request at *)
(* a time per member.                                                      *)
LinkResolves ==
    \A m \in Members \ torn : Settled(m) /\ Linked(m) => ShardOf[link[m]] = shard[m]

-----------------------------------------------------------------------------
(* What comments say and the code does not do (see the README)             *)

(* connect_pubg.go:168-170: "keeping the old id under a new platform would *)
(* leave a link that resolves to nobody", which no request leaves behind.  *)
LinkAlwaysResolves ==
    \A m \in Members : Settled(m) /\ Linked(m) => ShardOf[link[m]] = shard[m]

(* connect_pubg.go:124: unlinking "Stops the collection".                  *)
UnlinkStops ==
    [][\A m \in Members, x \in played :
        <<m, x>> \in stored' \ stored => link[m] # Nothing \/ shard[m] # Nothing]_vars
=============================================================================
