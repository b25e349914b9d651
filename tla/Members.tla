------------------------------ MODULE Members -------------------------------
(***************************************************************************)
(* The accounts of an instance: registration with its bootstrap account    *)
(* and its invites (internal/api/auth.go, admin.go, public.go and          *)
(* internal/store/invites.go), roles and bans (patchMember).               *)
(*                                                                         *)
(* Nothing in the code deletes an account.  Names, addresses and the       *)
(* password policy are left out: a user is who registers under a name.     *)
(***************************************************************************)
EXTENDS Requests, Integers, FiniteSets

CONSTANTS
    Users,
    Asks,               \* what a patch asks for: a role, a ban, or "keep"
    Invites,            \* the codes createInvite may draw
    OpenRegistration    \* config: accounts may be created without an invite

ASSUME UsersAssumption == IsFiniteSet(Users)
ASSUME AsksAssumption == Asks \subseteq {"keep", "member", "admin"} \X {"keep", "ban", "unban"}
ASSUME InvitesAssumption == Invites \cap {"open", "bootstrap", "no code"} = {}
ASSUME RegistrationAssumption == OpenRegistration \in BOOLEAN

VARIABLES
    role,       \* users.role, or "none": no such account
    banned,     \* users.banned_at IS NOT NULL
    via,        \* how each account was admitted (history; used_by for invites)
    org,        \* whether the orgs row exists
    invites     \* invites: role and state of every code

memberVars == <<role, banned, via, org, invites>>
vars == <<memberVars, req, slips>>

Accounts == {u \in Users : role[u] # "none"}

-----------------------------------------------------------------------------
(* Invites. *)

CreateInvite(i, r) ==
    /\ invites[i].state = "none"
    /\ invites' = [invites EXCEPT ![i] = [role |-> r, state |-> "pending"]]
    /\ UNCHANGED <<role, banned, via, org, req, slips>>

(* Expired, or deleted whatever its state. *)
EndInvite(i) ==
    /\ invites[i].state \in {"pending", "used"}
    /\ invites' = [invites EXCEPT ![i].state = "gone"]
    /\ UNCHANGED <<role, banned, via, org, req, slips>>

(* PeekInvite *)
Pending(i) == i \in Invites /\ invites[i].state = "pending"

-----------------------------------------------------------------------------
(* Registration. *)

(* The rules, in their order: the first account, then the invite that is   *)
(* given, then open registration.  Empty: refused.                         *)
Admission(code) ==
    IF Accounts = {} THEN {[role |-> "admin", via |-> "bootstrap"]}
    ELSE IF code \in Invites
         THEN IF Pending(code) THEN {[role |-> invites[code].role, via |-> code]} ELSE {}
         ELSE IF OpenRegistration THEN {[role |-> "member", via |-> "open"]} ELSE {}

Register(q, u, code) ==
    /\ \E a \in Admission(code) :
          /\ Begin(q, [op |-> "register", at |-> "org", user |-> u,
                       role |-> a.role, via |-> a.via])
          /\ slips' = IF \E r \in InFlight(q, "register") : req[r].via = a.via
                      THEN slips \cup {<<"register", a.via>>} ELSE slips
    /\ UNCHANGED memberVars

(* EnsureDefaultOrg reads, and inserts when there is none; the slug is      *)
(* unique, so the second of two inserts is an error.                       *)
FindOrg(q) ==
    /\ At(q, "register", "org")
    /\ Goto(q, IF org THEN "create" ELSE "insertOrg")
    /\ UNCHANGED <<memberVars, slips>>

InsertOrg(q) ==
    /\ At(q, "register", "insertOrg")
    /\ org' = TRUE
    /\ IF org THEN Done(q) ELSE Goto(q, "create")
    /\ UNCHANGED <<role, banned, via, invites, slips>>

CreateUser(q) ==
    /\ At(q, "register", "create")
    /\ LET r == req[q]
       IN  IF role[r.user] # "none"      \* ErrConflict
           THEN Done(q) /\ UNCHANGED memberVars
           ELSE /\ role' = [role EXCEPT ![r.user] = r.role]
                /\ via' = [via EXCEPT ![r.user] = r.via]
                /\ IF r.via \in Invites THEN Goto(q, "mark") ELSE Done(q)
                /\ UNCHANGED <<banned, org, invites>>
    /\ UNCHANGED slips

(* mutant of MarkInviteUsed: the invite stays pending *)
LeaveInvite(i) == UNCHANGED invites

MarkInviteUsed(i) ==
    invites' = IF Pending(i) THEN [invites EXCEPT ![i].state = "used"] ELSE invites

(* Best effort: the account stands whatever the mark returns. *)
ConsumeInvite(q) ==
    /\ At(q, "register", "mark")
    /\ MarkInviteUsed(req[q].via)
    /\ Done(q)
    /\ UNCHANGED <<role, banned, via, org, slips>>

-----------------------------------------------------------------------------
(* PATCH /admin/members/:id. *)

(* mutant of CountAdmins: banned admins count *)
CountAllAdmins == Cardinality({u \in Users : role[u] = "admin"})

CountAdmins == Cardinality({u \in Users : role[u] = "admin" /\ u \notin banned})

(* The ban half of a patch, of a target read as `seen`: nobody bans themselves. *)
BanAt(self, seen, ban) ==
    CASE ban = "keep" \/ self -> "end"
      [] ban = "ban" /\ seen = "admin" /\ ~self -> "countBan"
      [] OTHER -> "setBan"

(* The role half, then the ban half. *)
RoleAt(seen, want, next) ==
    CASE want = "keep" -> next
      [] want = "member" /\ seen = "admin" -> "countRole"
      [] OTHER -> "setRole"

(* `self`: the caller patches their own account.  The target is read once, *)
(* at the start, and what it was then decides what is checked.             *)
PatchMember(q, self, u, want, ban) ==
    /\ u \in Accounts
    /\ LET next == BanAt(self, role[u], ban)
           first == RoleAt(role[u], want, next)
       IN  /\ first # "end"
           /\ Begin(q, [op |-> "patch", at |-> first, user |-> u, want |-> want,
                        next |-> next, ban |-> ban])
    /\ slips' = IF InFlight(q, "patch") = {} THEN slips ELSE slips \cup {<<"patch">>}
    /\ UNCHANGED memberVars

(* last_admin: the answer is an error, though the role may be written. *)
CountFor(q, at, next) ==
    /\ At(q, "patch", at)
    /\ IF CountAdmins <= 1 THEN Done(q) ELSE Goto(q, next)
    /\ UNCHANGED <<memberVars, slips>>

SetUserRole(q) ==
    /\ At(q, "patch", "setRole")
    /\ LET r == req[q]
       IN  /\ role' = [role EXCEPT ![r.user] = r.want]
           /\ IF r.next = "end" THEN Done(q)
              ELSE req' = [req EXCEPT ![q].at = r.next, ![q].want = "keep"]
    /\ UNCHANGED <<banned, via, org, invites, slips>>

SetUserBanned(q) ==
    /\ At(q, "patch", "setBan")
    /\ LET r == req[q]
       IN  banned' = IF r.ban = "ban" THEN banned \cup {r.user} ELSE banned \ {r.user}
    /\ Done(q)
    /\ UNCHANGED <<role, via, org, invites, slips>>

-----------------------------------------------------------------------------
(* A request stops at its next call. *)
Stop(q) ==
    /\ req[q] # Free
    /\ slips' = IF At(q, "register", "mark") THEN slips \cup {<<"unmarked", req[q].via>>}
                ELSE slips
    /\ Done(q)
    /\ UNCHANGED memberVars

(* A new instance, or one whose members have all settled. *)
Init ==
    /\ role \in [Users -> {"none", "member", "admin"}]
    /\ banned = {}
    /\ Accounts # {} => \E u \in Users : role[u] = "admin"
    /\ via = [u \in Users |-> "open"]
    /\ org = (Accounts # {})
    /\ invites = [i \in Invites |-> [role |-> "member", state |-> "none"]]
    /\ req = [q \in Slots |-> Free]
    /\ slips = {}

(* Who asks for what an admin may ask for holds claims signed while their   *)
(* account was an admin, which it may have ceased to be: anyone.           *)
Next ==
    \/ \E i \in Invites, r \in {"member", "admin"} : CreateInvite(i, r)
    \/ \E i \in Invites : EndInvite(i)
    \/ \E q \in Slots, u \in Users, c \in Invites \cup {"no code"} : Register(q, u, c)
    \/ \E q \in Slots, self \in BOOLEAN, u \in Users, a \in Asks :
          PatchMember(q, self, u, a[1], a[2])
    \/ \E q \in Slots :
          \/ FindOrg(q) \/ InsertOrg(q) \/ CreateUser(q) \/ ConsumeInvite(q)
          \/ CountFor(q, "countRole", "setRole") \/ CountFor(q, "countBan", "setBan")
          \/ SetUserRole(q) \/ SetUserBanned(q) \/ Stop(q)

Spec == Init /\ [][Next]_vars

-----------------------------------------------------------------------------
(* An instance with accounts keeps an admin who is not banned, whatever    *)
(* the admins do to each other, unless two of their patches overlapped:    *)
(* then each may count the other's target, or act on a role read before.   *)
AdminRemains ==
    \/ Accounts = {}
    \/ \E u \in Users : role[u] = "admin" /\ u \notin banned
    \/ <<"patch">> \in slips

(* An invite seats one account, and a new instance has one first account,  *)
(* unless two registrations overlapped or one of them stopped before it    *)
(* could mark its invite.                                                  *)
OneSeatEach ==
    \A v \in Invites \cup {"bootstrap"} :
        \/ Cardinality({u \in Users : via[u] = v}) <= 1
        \/ <<"register", v>> \in slips
        \/ <<"unmarked", v>> \in slips
=============================================================================
