------------------------------ MODULE SignIn --------------------------------
(***************************************************************************)
(* Signing in: the device-bound refresh tokens (internal/api/auth.go and   *)
(* internal/store/refresh.go), the links that reset a password (reset.go,  *)
(* store/password_reset.go), the pairing of a desktop client (pairing.go,  *)
(* store/pairings.go), and the web client that holds the tokens            *)
(* (web/src/lib/stores/auth.svelte.ts).  The users are accounts that       *)
(* exist; roles are left to Members, and of bans only the write matters.   *)
(*                                                                         *)
(* A token is a number.  An access token is not stored: who holds one may   *)
(* act for its user until it expires, whatever became of their session and *)
(* of their password.                                                      *)
(* A presented token always comes with its own device: the check of        *)
(* another is left out.                                                    *)
(***************************************************************************)
EXTENDS Requests, Integers, FiniteSets

CONSTANTS
    Users,
    Devices,
    MaxId,      \* bound of the refresh tokens minted, for TLC only
    MaxLinks    \* bound of the reset links, for TLC only

VARIABLES
    banned,     \* users.banned_at IS NOT NULL
    rows,       \* refresh_tokens, by (user_id, device_id)
    pw,         \* users.password_hash: how often it was replaced
    links,      \* password_resets
    pair,       \* device_pairings: the pairing of each device
    held,       \* the refresh token each client stores
    acc,        \* whose access token each client holds, and by which password
    calm,       \* nothing overlapped or was lost since the token of the
                \* last sign-in (history)
    served,     \* tokens minted for each pairing (history)
    ended,      \* how often the sessions of each user were revoked (history)
    nextId, nextLink

authVars == <<banned, rows, pw, links, pair, held, acc, calm, served, ended, nextId,
              nextLink>>
vars == <<req, slips, authVars>>

NoRow == [id |-> 0, gen |-> 0, past |-> "none"]
Nobody == "nobody"
NoToken == [user |-> Nobody, id |-> 0]
NoAccess == [user |-> Nobody, gen |-> 0]

(* Requests in which device d waits for tokens. *)
Waiting(d) == {q \in Slots : req[q].op = "mint" /\ req[q].dev = d}

(* calm once the devices D are no longer alone with their session *)
Disturbed(D) == [d \in Devices |-> calm[d] /\ d \notin D]

(* The devices on which user u is, or is about to be, signed in. *)
DevicesOf(u) ==
    {d \in Devices : held[d].user = u \/ \E q \in Waiting(d) : req[q].user = u}

-----------------------------------------------------------------------------
(* Tokens. *)

(* mutant of SaveRefreshToken: the row of the device is not replaced *)
SaveFirstOnly(u, d, row) ==
    IF rows[<<u, d>>] = NoRow THEN [rows EXCEPT ![<<u, d>>] = row] ELSE rows

(* One token per user and device: the upsert replaces the one before, and  *)
(* brings back a row that was deleted meanwhile.                           *)
SaveRefreshToken(u, d, row) == [rows EXCEPT ![<<u, d>>] = row]

DeleteRefreshToken(u, d) == [rows EXCEPT ![<<u, d>>] = NoRow]

DeleteUserRefreshTokens(u) == [k \in DOMAIN rows |-> IF k[1] = u THEN NoRow ELSE rows[k]]

(* Device d sends a request that may mint a token, for what was opened by  *)
(* the password gen; past is what brought that past a reset, if anything.  *)
BeginMint(q, d, u, at, why, gen, past) ==
    /\ nextId <= MaxId
    /\ Begin(q, [op |-> "mint", at |-> at, why |-> why, user |-> u, dev |-> d,
                 gen |-> gen, past |-> past, ended |-> ended[u]])
    /\ calm' = [calm EXCEPT ![d] = @ /\ Waiting(d) = {}]

(* GetUserByLogin, and VerifyPassword against the row read. *)
Login(q, d, u) ==
    /\ u \notin banned
    /\ BeginMint(q, d, u, "save", "login", pw[u], "none")
    /\ UNCHANGED <<slips, banned, rows, pw, links, pair, held, acc, served, ended, nextId, nextLink>>

(* GetRefreshToken finds the token, or the answer is 401. *)
Refresh(q, d) ==
    /\ held[d] # NoToken
    /\ LET row == rows[<<held[d].user, d>>]
       IN  BeginMint(q, d, held[d].user, IF row.id = held[d].id THEN "user" ELSE "refused",
                     "refresh", row.gen, row.past)
    /\ UNCHANGED <<slips, banned, rows, pw, links, pair, held, acc, served, ended, nextId, nextLink>>

(* The token expired, or GetUserByID finds the account banned: the row is  *)
(* deleted, or an error of that is dropped, and a refresh refused; a poll  *)
(* answers "denied".                                                       *)
ReadUser(q) ==
    /\ At(q, "mint", "user")
    /\ LET r == req[q]
       IN  \/ /\ r.user \notin banned
              /\ Goto(q, "save")
              /\ UNCHANGED rows
           \/ /\ r.why = "refresh"
              /\ Goto(q, "refused")
              /\ rows' \in {rows, DeleteRefreshToken(r.user, r.dev)}
           \/ /\ r.why = "pair" /\ r.user \in banned
              /\ Done(q)
              /\ UNCHANGED rows
    /\ UNCHANGED <<slips, banned, pw, links, pair, held, acc, calm, served, ended, nextId, nextLink>>

(* What brings a session of a replaced password past the reset: that of    *)
(* the token it refreshes, a request under way across the revocation, or a *)
(* pairing, approved by an access token of the time before.                *)
Past(r) ==
    CASE r.gen = pw[r.user] -> "none"
      [] r.gen # pw[r.user] /\ r.past # "none" -> r.past
      [] r.gen # pw[r.user] /\ r.past = "none" ->
            IF r.ended # ended[r.user] THEN "crossing"
            ELSE IF r.why = "pair" THEN "pairing" ELSE "none"

Mint(q) ==
    /\ At(q, "mint", "save")
    /\ LET r == req[q]
       IN  /\ rows' = SaveRefreshToken(r.user, r.dev,
                        [id |-> nextId, gen |-> r.gen, past |-> Past(r)])
           /\ req' = [req EXCEPT ![q] = [op |-> "mint", dev |-> r.dev, user |-> r.user,
                        why |-> r.why, id |-> nextId, gen |-> r.gen,
                        at |-> IF r.why = "pair" THEN "claim" ELSE "answer"]]
           /\ served' = IF r.why = "pair" THEN [served EXCEPT ![r.dev] = @ + 1] ELSE served
           /\ calm' = IF r.why = "refresh" THEN calm
                      ELSE [calm EXCEPT ![r.dev] = Waiting(r.dev) = {q}]
    /\ nextId' = nextId + 1
    /\ UNCHANGED <<slips, banned, pw, links, pair, held, acc, ended, nextLink>>

(* A refresh is answered an error. *)
RefreshFails(q) ==
    /\ At(q, "mint", "user") \/ At(q, "mint", "save")
    /\ req[q].why = "refresh"
    /\ Goto(q, "refused")
    /\ UNCHANGED <<slips, authVars>>

(* The client stores what it is answered; of a refresh it takes any answer *)
(* but tokens for a refusal, and drops what it has.                        *)
Deliver(q) ==
    /\ \/ /\ At(q, "mint", "answer")
          /\ held' = [held EXCEPT ![req[q].dev] = [user |-> req[q].user, id |-> req[q].id]]
          /\ acc' = [acc EXCEPT ![req[q].dev] = [user |-> req[q].user, gen |-> req[q].gen]]
       \/ /\ At(q, "mint", "refused")
          /\ held' = [held EXCEPT ![req[q].dev] = NoToken]
          /\ acc' = [acc EXCEPT ![req[q].dev] = NoAccess]
    /\ Done(q)
    /\ UNCHANGED <<slips, banned, rows, pw, links, pair, calm, served, ended, nextId, nextLink>>

(* The client forgets its session whether or not the call succeeds. *)
Logout(d) ==
    /\ held[d] # NoToken
    /\ \/ UNCHANGED rows
       \/ acc[d] # NoAccess /\ rows' = DeleteRefreshToken(acc[d].user, d)
    /\ held' = [held EXCEPT ![d] = NoToken]
    /\ acc' = [acc EXCEPT ![d] = NoAccess]
    /\ calm' = Disturbed({d})
    /\ UNCHANGED <<req, slips, banned, pw, links, pair, served, ended, nextId, nextLink>>

(* An access token expires, or the page that held it is closed. *)
AccessEnds(d) ==
    /\ acc[d] # NoAccess
    /\ acc' = [acc EXCEPT ![d] = NoAccess]
    /\ UNCHANGED <<req, slips, banned, rows, pw, links, pair, held, calm, served, ended, nextId, nextLink>>

(* patchMember, which leaves the tokens of whom it bans. *)
SetUserBanned(u) ==
    /\ banned' \in {banned \cup {u}, banned \ {u}} \ {banned}
    /\ UNCHANGED <<req, slips, rows, pw, links, pair, held, acc, calm, served, ended, nextId, nextLink>>

-----------------------------------------------------------------------------
(* Reset links. *)

(* CreatePasswordReset: two calls, a delete and an insert. *)
AdminReset(q, u) ==
    /\ nextLink <= MaxLinks
    /\ Begin(q, [op |-> "link", at |-> "insert", user |-> u])
    /\ links' = {l \in links : l.user # u}
    /\ UNCHANGED <<slips, banned, rows, pw, pair, held, acc, calm, served, ended, nextId, nextLink>>

InsertLink(q) ==
    /\ At(q, "link", "insert")
    /\ links' = links \cup {[user |-> req[q].user, n |-> nextLink]}
    /\ nextLink' = nextLink + 1
    /\ Done(q)
    /\ UNCHANGED <<slips, banned, rows, pw, pair, held, acc, calm, served, ended, nextId>>

LinkExpires(l) ==
    /\ links' = links \ {l}
    /\ UNCHANGED <<req, slips, banned, rows, pw, pair, held, acc, calm, served, ended, nextId, nextLink>>

(* mutant of ResetOrder: the sessions are revoked before the password changes *)
RevokeFirst == <<"consume", "revoke", "password">>

(* The calls of doReset after its peek. *)
ResetOrder == <<"consume", "password", "revoke">>

(* The next call, or the end of the request. *)
AfterCall(q, at) ==
    IF at = ResetOrder[3] THEN Done(q)
    ELSE Goto(q, ResetOrder[1 + CHOOSE i \in 1..2 : ResetOrder[i] = at])

DoReset(q, l) ==
    /\ Begin(q, [op |-> "reset", at |-> ResetOrder[1], user |-> l.user, link |-> l])
    /\ UNCHANGED <<slips, authVars>>

(* The token is deleted before anything is written: of two submissions one *)
(* finds it.                                                               *)
ConsumeLink(q) ==
    /\ At(q, "reset", "consume")
    /\ links' = links \ {req[q].link}
    /\ IF req[q].link \in links THEN AfterCall(q, "consume") ELSE Done(q)
    /\ UNCHANGED <<slips, banned, rows, pw, pair, held, acc, calm, served, ended, nextId, nextLink>>

SetUserPassword(q) ==
    /\ At(q, "reset", "password")
    /\ pw' = [pw EXCEPT ![req[q].user] = @ + 1]
    /\ AfterCall(q, "password")
    /\ UNCHANGED <<slips, banned, rows, links, pair, held, acc, calm, served, ended, nextId, nextLink>>

(* An error of the revocation is dropped. *)
Revoke(q) ==
    /\ At(q, "reset", "revoke")
    /\ \/ /\ rows' = DeleteUserRefreshTokens(req[q].user)
          /\ calm' = Disturbed(DevicesOf(req[q].user))
          /\ ended' = [ended EXCEPT ![req[q].user] = @ + 1]
          /\ UNCHANGED slips
       \/ /\ slips' = slips \cup {<<"unrevoked", req[q].user>>}
          /\ UNCHANGED <<rows, calm, ended>>
    /\ AfterCall(q, "revoke")
    /\ UNCHANGED <<banned, pw, links, pair, held, acc, served, nextId, nextLink>>

-----------------------------------------------------------------------------
(* Device pairing. *)

PairStart(d) ==
    /\ pair[d].status = "none"
    /\ pair' = [pair EXCEPT ![d].status = "pending"]
    /\ UNCHANGED <<req, slips, banned, rows, pw, links, held, acc, calm, served, ended, nextId, nextLink>>

(* ApprovePairing, by whom device e holds an access token of. *)
PairApprove(d, e) ==
    /\ acc[e] # NoAccess
    /\ pair[d].status = "pending" /\ ~pair[d].expired
    /\ pair' = [pair EXCEPT ![d] = [status |-> "approved", user |-> acc[e].user,
                                    gen |-> acc[e].gen, expired |-> FALSE]]
    /\ UNCHANGED <<req, slips, banned, rows, pw, links, held, acc, calm, served, ended, nextId, nextLink>>

PairExpires(d) ==
    /\ pair[d].status # "none" /\ ~pair[d].expired
    /\ pair' = [pair EXCEPT ![d].expired = TRUE]
    /\ UNCHANGED <<req, slips, banned, rows, pw, links, held, acc, calm, served, ended, nextId, nextLink>>

(* Only a poll that finds its pairing approved does something. *)
PairPoll(q, d) ==
    /\ pair[d].status = "approved" /\ ~pair[d].expired
    /\ BeginMint(q, d, pair[d].user, "user", "pair", pair[d].gen, "none")
    /\ slips' = IF \E r \in Waiting(d) : req[r].why = "pair"
                THEN slips \cup {<<"poll", d>>} ELSE slips
    /\ UNCHANGED <<banned, rows, pw, links, pair, held, acc, served, ended, nextId, nextLink>>

(* mutant of ClaimPairing: nothing is claimed *)
ClaimNothing(d) == pair

ClaimPairing(d) ==
    IF pair[d].status = "approved" THEN [pair EXCEPT ![d].status = "claimed"] ELSE pair

(* The tokens are minted; an error of the claim is dropped. *)
Claim(q) ==
    /\ At(q, "mint", "claim")
    /\ \/ pair' = ClaimPairing(req[q].dev) /\ UNCHANGED slips
       \/ slips' = slips \cup {<<"unclaimed", req[q].dev>>} /\ UNCHANGED pair
    /\ Goto(q, "answer")
    /\ UNCHANGED <<banned, rows, pw, links, held, acc, calm, served, ended, nextId, nextLink>>

-----------------------------------------------------------------------------
(* What a request leaves behind when it stops at its next call. *)
Unfinished(q) ==
    CASE At(q, "reset", "revoke") -> {<<"unrevoked", req[q].user>>}
      [] At(q, "mint", "claim") -> {<<"unclaimed", req[q].dev>>}
      [] OTHER -> {}

(* A request stops, or its answer is lost. *)
Stop(q) ==
    /\ req[q] # Free
    /\ slips' = slips \cup Unfinished(q)
    /\ calm' = Disturbed({d \in Devices : q \in Waiting(d)})
    /\ Done(q)
    /\ UNCHANGED <<banned, rows, pw, links, pair, held, acc, served, ended, nextId, nextLink>>

Init ==
    /\ banned = {}
    /\ rows = [k \in Users \X Devices |-> NoRow]
    /\ pw = [u \in Users |-> 0]
    /\ links = {}
    /\ pair = [d \in Devices |-> [status |-> "none", user |-> Nobody, gen |-> 0, expired |-> FALSE]]
    /\ held = [d \in Devices |-> NoToken]
    /\ acc = [d \in Devices |-> NoAccess]
    /\ calm = [d \in Devices |-> TRUE]
    /\ served = [d \in Devices |-> 0]
    /\ ended = [u \in Users |-> 0]
    /\ nextId = 1 /\ nextLink = 1
    /\ req = [q \in Slots |-> Free]
    /\ slips = {}

Next ==
    \/ \E u \in Users : SetUserBanned(u)
    \/ \E d \in Devices : Logout(d) \/ AccessEnds(d) \/ PairStart(d) \/ PairExpires(d)
    \/ \E d, e \in Devices : PairApprove(d, e)
    \/ \E q \in Slots, u \in Users : AdminReset(q, u) \/ \E d \in Devices : Login(q, d, u)
    \/ \E q \in Slots, d \in Devices : Refresh(q, d) \/ PairPoll(q, d)
    \/ \E l \in links : LinkExpires(l) \/ \E q \in Slots : DoReset(q, l)
    \/ \E q \in Slots :
          \/ ReadUser(q) \/ Mint(q) \/ RefreshFails(q) \/ Deliver(q) \/ Claim(q) \/ Stop(q)
          \/ InsertLink(q) \/ ConsumeLink(q) \/ SetUserPassword(q) \/ Revoke(q)

Spec == Init /\ [][Next]_vars

-----------------------------------------------------------------------------
(* A client keeps the session the server stores for it: left alone with    *)
(* its requests, one at a time and none lost, until a reset of its own     *)
(* account, it is never signed out by holding a token that was rotated     *)
(* away.                                                                   *)
StaysSignedIn ==
    \A d \in Devices :
        held[d] # NoToken /\ calm[d] /\ Waiting(d) = {}
        => rows[<<held[d].user, d>>].id = held[d].id

(* The revocation of a reset of user u is to come, or failed. *)
Unrevoked(u) ==
    \/ \E q \in Slots : At(q, "reset", "revoke") /\ req[q].user = u
    \/ <<"unrevoked", u>> \in slips

(* A reset ends every session a replaced password opened, unless the       *)
(* revocation failed.  What may be left is told apart: a session minted by *)
(* a request that was under way across the revocation, one a pairing gave  *)
(* that was approved by an access token of the old password's time, be it  *)
(* before the reset or after, and what was refreshed from either.  An old  *)
(* session, refreshed or not, never gets past a reset otherwise.           *)
ResetEndsSessions ==
    \A k \in DOMAIN rows :
        rows[k].gen < pw[k[1]] /\ rows[k] # NoRow
        => rows[k].past # "none" \/ Unrevoked(k[1])

(* Refuted, three ways: "then revokes the member's existing sessions"      *)
(* (reset.go:75-76).  A login or a refresh under way across the revocation *)
(* saves its token after it; a poll of a pairing approved before the reset *)
(* mints one after it; and an access token from before the reset approves  *)
(* a pairing after it.                                                     *)
ResetEndsAll ==
    \A k \in DOMAIN rows :
        rows[k].gen < pw[k[1]] /\ rows[k] # NoRow => Unrevoked(k[1])

(* A pairing gives its tokens once, unless two polls overlapped or the     *)
(* claim failed; and it is not used up before it has given them.           *)
ServedOnce ==
    \A d \in Devices :
        /\ pair[d].status = "claimed" => served[d] >= 1
        /\ served[d] > 1 => <<"poll", d>> \in slips \/ <<"unclaimed", d>> \in slips
=============================================================================
