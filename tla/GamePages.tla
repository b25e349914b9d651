------------------------------ MODULE GamePages ------------------------------
(***************************************************************************)
(* One member's page of one game whose content an active plugin brings     *)
(* from the publisher when the page is viewed (internal/gameplugin,        *)
(* internal/bnetsync, RefreshLoL of internal/riotsync), and the requests   *)
(* that decide what a refresh may read: linking, unlinking, the region of  *)
(* a Riot account (internal/api/connect_battlenet.go, connect_riot.go) and *)
(* the switch of the plugin (plugins_admin.go).                            *)
(*                                                                         *)
(* Refreshes of different games touch different rows, so a behaviour is    *)
(* about one game, drawn at the start.  Of what a publisher sends only the *)
(* part of the page it fills is kept: each namespace of World of Warcraft  *)
(* brings characters or none, the other games bring one profile.  One hour *)
(* of throttling is a step (Elapse), and so is the end of a token.         *)
(***************************************************************************)
EXTENDS Requests, Integers

VARIABLES
    game,       \* the game of the page
    flag,       \* game_plugins.enabled of its plugin
    enabled,    \* Registry.enabled, the cache every page goes by
    link,       \* linked_accounts: "none", or the state of its token
    routing,    \* riot_accounts.region_source, or "none"
    kept,       \* the parts of the page that have rows
    synced      \* last_synced_at, as the throttle sees it

pageVars == <<flag, enabled, link, routing, kept, synced>>
allVars == <<game, pageVars, req, slips>>

(* namespaces(): Classic has two. *)
Parts == [wow |-> {"retail"}, classic |-> {"classic1x", "classic"},
          profile |-> {"profile"}, lol |-> {"profile"}]

IsWoW == game \in {"wow", "classic"}
IsRiot == game = "lol"

-----------------------------------------------------------------------------
(* A view. *)

(* The link, with a token that is live; for Riot it joins the routing. *)
Usable == IF IsRiot THEN link # "none" /\ routing # "none" ELSE link = "live"

View(q) ==
    /\ enabled /\ Usable
    /\ Begin(q, [op |-> "view", at |-> "throttle", rows |-> {}])
    /\ UNCHANGED <<game, pageVars, slips>>

(* With the stamp unreadable the Battle.net pages go on, League does not. *)
ReadStamp(q) ==
    /\ At(q, "view", "throttle")
    /\ \E ok \in BOOLEAN :
          IF (IF ok THEN synced = "recent" ELSE IsRiot) THEN Done(q) ELSE Goto(q, "fetch")
    /\ UNCHANGED <<game, pageVars, slips>>

Fetched(q, rows, at) == req' = [req EXCEPT ![q].at = at, ![q].rows = rows]

(* A namespace fails (an error, or no profile at Blizzard), answers with   *)
(* nothing that can be stored, or answers with characters.                 *)
FetchRoster(q) ==
    /\ IsWoW /\ At(q, "view", "fetch")
    /\ \E answer \in [Parts[game] -> {"failed", "empty", "some"}] :
          LET rows == {n \in Parts[game] : answer[n] = "some"}
          IN  IF \A n \in Parts[game] : answer[n] = "failed" THEN Done(q)
              ELSE Fetched(q, rows, IF rows = {} THEN "count" ELSE "write")
    /\ UNCHANGED <<game, pageVars, slips>>

(* One fatal call failing drops the whole refresh.  No profile at Blizzard *)
(* is still a refresh; League always has something to show.                *)
FetchProfile(q) ==
    /\ ~IsWoW /\ At(q, "view", "fetch")
    /\ \/ Done(q)
       \/ Fetched(q, Parts[game], "write")
       \/ ~IsRiot /\ Goto(q, "mark")
    /\ UNCHANGED <<game, pageVars, slips>>

(* mutant of Spared: the answer is stored whatever was kept *)
NeverSpared(rows) == FALSE

(* The roster an empty answer does not replace. *)
Spared(rows) == rows # {}

(* WowCharacterCount; without an answer the roster is replaced. *)
Count(q) ==
    /\ At(q, "view", "count")
    /\ \/ /\ Goto(q, IF Spared(kept) THEN "mark" ELSE "write")
          /\ UNCHANGED slips
       \/ /\ Goto(q, "write")
          /\ slips' = slips \cup {"uncounted"}
    /\ UNCHANGED <<game, pageVars>>

(* Others in the middle of a refresh of this page. *)
Straddled(q) == {r \in InFlight(q, "view") : req[r].at = "write"} # {}

(* ReplaceWowCharacters, UpsertGameProfile, UpsertRiotProfile: the last    *)
(* carries its own stamp.                                                  *)
Write(q) ==
    /\ At(q, "view", "write")
    /\ kept' = req[q].rows
    /\ IF IsRiot THEN synced' = "recent" /\ Done(q) ELSE UNCHANGED synced /\ Goto(q, "mark")
    /\ slips' = IF Straddled(q) THEN slips \cup {"straddled"} ELSE slips
    /\ UNCHANGED <<game, flag, enabled, link, routing>>

(* MarkWowSynced, MarkBnetSynced *)
Mark(q) ==
    /\ At(q, "view", "mark")
    /\ synced' = "recent"
    /\ Done(q)
    /\ UNCHANGED <<game, flag, enabled, link, routing, kept, slips>>

-----------------------------------------------------------------------------
(* Linking.  Whom the account belongs to and where it plays were asked     *)
(* before the first statement.                                             *)

Connect(q) ==
    /\ IsRiot
    /\ Begin(q, [op |-> "connect", at |-> "identity"])
    /\ UNCHANGED <<game, pageVars, slips>>

(* UpsertLinkedAccount *)
WriteIdentity(q) ==
    /\ At(q, "connect", "identity")
    /\ link' = "live"
    /\ Goto(q, "routing")
    /\ UNCHANGED <<game, flag, enabled, routing, kept, synced, slips>>

(* UpsertRiotRouting: what a member chose by hand is not resolved again. *)
Routed(source) == routing' = IF routing = "manual" THEN "manual" ELSE source

WriteRouting(q) ==
    /\ At(q, "connect", "routing")
    /\ \/ Routed("auto") /\ Done(q)
       \/ UNCHANGED routing /\ Goto(q, "undo")
    /\ UNCHANGED <<game, flag, enabled, link, kept, synced, slips>>

DeleteIdentity(q) == link' = "none" /\ Done(q)

UndoIdentity(q) ==
    /\ At(q, "connect", "undo")
    /\ DeleteIdentity(q)
    /\ UNCHANGED <<game, flag, enabled, routing, kept, synced, slips>>

(* mutant of DisconnectOrder: the identity goes first *)
IdentityFirst(step) == IF step = "first" THEN "identity" ELSE "data"

DisconnectOrder(step) == IF step = "first" THEN "data" ELSE "identity"

Disconnect(q) ==
    /\ IsRiot
    /\ Begin(q, [op |-> "disconnect", at |-> "first"])
    /\ UNCHANGED <<game, pageVars, slips>>

(* DeleteRiotData in one batch, then DeleteLinkedAccount. *)
DisconnectStep(q, step) ==
    /\ At(q, "disconnect", step)
    /\ IF DisconnectOrder(step) = "data"
       THEN /\ routing' = "none" /\ kept' = {} /\ synced' = "never"
            /\ UNCHANGED link
       ELSE /\ link' = "none"
            /\ UNCHANGED <<routing, kept, synced>>
    /\ IF step = "first" THEN Goto(q, "second") ELSE Done(q)
    /\ UNCHANGED <<game, flag, enabled, slips>>

(* PATCH region, for a linked account. *)
CorrectRegion(q) ==
    /\ IsRiot /\ link # "none" /\ routing # "none"
    /\ Begin(q, [op |-> "region", at |-> "write"])
    /\ UNCHANGED <<game, pageVars, slips>>

WriteRegion(q) ==
    /\ At(q, "region", "write")
    /\ Routed("manual")
    /\ Done(q)
    /\ UNCHANGED <<game, flag, enabled, link, kept, synced, slips>>

(* Battle.net: one statement each; what was fetched stays. *)
LinkBattlenet ==
    /\ ~IsRiot
    /\ link' \in {"none", "live"} \ {link}
    /\ UNCHANGED <<game, flag, enabled, routing, kept, synced, req, slips>>

-----------------------------------------------------------------------------
(* The switch: Registry.SetEnabled writes the table, then the cache. *)

SetPlugin(q, on) ==
    /\ Begin(q, [op |-> "switch", at |-> "table", on |-> on])
    /\ UNCHANGED <<game, pageVars, slips>>

WriteFlag(q) ==
    /\ At(q, "switch", "table")
    /\ flag' = req[q].on
    /\ Goto(q, "cache")
    /\ UNCHANGED <<game, enabled, link, routing, kept, synced, slips>>

WriteCache(q) ==
    /\ At(q, "switch", "cache")
    /\ enabled' = req[q].on
    /\ Done(q)
    /\ UNCHANGED <<game, flag, link, routing, kept, synced, slips>>

-----------------------------------------------------------------------------
(* A statement may fail.  Each of these handlers then answers an error and *)
(* leaves what it has written: half of it, if it stood at a second write.  *)
Halfway(q) == \/ At(q, "connect", "undo")
              \/ At(q, "disconnect", "second")

Fail(q) ==
    /\ req[q] # Free
    /\ req[q].at \in {"write", "mark", "identity", "undo", "first", "second", "table"}
    /\ slips' = IF Halfway(q) THEN slips \cup {"half"} ELSE slips
    /\ Done(q)
    /\ UNCHANGED <<game, pageVars>>

(* The server stops, with whatever was in flight, and Load fills the cache. *)
Restart ==
    /\ slips' = IF \E q \in Slots : Halfway(q) \/ At(q, "connect", "routing")
                THEN slips \cup {"half"} ELSE slips
    /\ req' = [q \in Slots |-> Free]
    /\ enabled' = flag
    /\ UNCHANGED <<game, flag, link, routing, kept, synced>>

(* An hour since the refresh; a Battle.net token lasts a day. *)
Elapse ==
    /\ \/ synced = "recent" /\ synced' = "old" /\ UNCHANGED link
       \/ ~IsRiot /\ link = "live" /\ link' = "expired" /\ UNCHANGED synced
    /\ UNCHANGED <<game, flag, enabled, routing, kept, req, slips>>

-----------------------------------------------------------------------------
PageInit ==
    /\ game \in DOMAIN Parts
    /\ flag = TRUE /\ enabled = TRUE
    /\ link = "none" /\ routing = "none"
    /\ kept = {} /\ synced = "never"
    /\ req = [q \in Slots |-> Free] /\ slips = {}

ViewStep(q) == \/ View(q) \/ ReadStamp(q) \/ FetchRoster(q) \/ FetchProfile(q)
               \/ Count(q) \/ Write(q) \/ Mark(q)

LinkStep(q) == \/ Connect(q) \/ WriteIdentity(q) \/ WriteRouting(q) \/ UndoIdentity(q)
               \/ Disconnect(q) \/ \E step \in {"first", "second"} : DisconnectStep(q, step)
               \/ CorrectRegion(q) \/ WriteRegion(q)

SwitchStep(q) == (\E on \in BOOLEAN : SetPlugin(q, on)) \/ WriteFlag(q) \/ WriteCache(q)

PageNext ==
    \/ \E q \in Slots : ViewStep(q) \/ LinkStep(q) \/ SwitchStep(q) \/ Fail(q)
    \/ LinkBattlenet \/ Restart \/ Elapse

PageSpec == PageInit /\ [][PageNext]_allVars

-----------------------------------------------------------------------------
(* A roster that was stored is never replaced by nothing, whatever         *)
(* Blizzard answers (bnetsync/syncer.go:134): unless it could not be       *)
(* counted, or another view stored it after this one had counted none.     *)
RosterKept ==
    [][kept # {} /\ kept' = {} => IsRiot \/ {"uncounted", "straddled"} \cap slips # {}]_allVars

(* "Identity and routing [are never] written apart" (connect_riot.go:89):   *)
(* once nothing is in flight a linked Riot account has its routing,        *)
(* whichever links, unlinks and corrections overlapped, unless a handler   *)
(* broke off between its two writes.                                       *)
LinkWhole ==
    IsRiot /\ link # "none" /\ (\A q \in Slots : req[q] = Free)
        => routing # "none" \/ "half" \in slips
=============================================================================
