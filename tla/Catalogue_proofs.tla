-------------------------- MODULE Catalogue_proofs --------------------------
(***************************************************************************)
(* Theorems about the accounts and the catalogue, for any users, invites,  *)
(* lists, libraries and number of requests at once.                        *)
(*                                                                         *)
(* The properties are conditional on what overlapped or failed; so is the  *)
(* inductive invariant.  AdminInv: while no two patches overlapped, what   *)
(* the one in flight has counted or read still holds.  SeatInv: while no   *)
(* two registrations by one invite overlapped and none stopped before its  *)
(* mark, whoever holds a pending invite is its only holder.  FreshInv: a   *)
(* check of the schedule that is over left a catalogue younger than a week. *)
(* LandInv: what an import holds in memory is still so in the table, as    *)
(* far as nobody else wrote to it.                                         *)
(***************************************************************************)
EXTENDS Catalogue, Sequences, FiniteSetTheorems, FunctionTheorems, TLAPS

Registers ==
    [op : {"register"}, at : {"org", "insertOrg", "create", "mark"}, user : Users,
     role : {"member", "admin"}, via : Invites \cup {"bootstrap", "open"}]

Patches ==
    [op : {"patch"}, at : {"countRole", "setRole", "countBan", "setBan"}, user : Users,
     want : {"keep", "member", "admin"}, next : {"end", "countBan", "setBan"},
     ban : {"keep", "ban", "unban"}]

Regs == {q \in Slots : req[q].op = "register"}
Pats == {q \in Slots : req[q].op = "patch"}

(* The tables and the requests about them. *)
Base ==
    /\ role \in [Users -> {"none", "member", "admin"}]
    /\ banned \subseteq Accounts
    /\ via \in [Users -> Invites \cup {"bootstrap", "open"}]
    /\ invites \in [Invites -> [role : {"member", "admin"},
                                state : {"none", "pending", "used", "gone"}]]
    /\ \A u \in Users : role[u] = "none" => via[u] = "open"
    /\ DOMAIN req = Slots
    /\ \A q \in Regs :
          /\ req[q] \in Registers
          /\ req[q].via \in Invites => invites[req[q].via].state # "none"
          /\ req[q].at = "mark" => req[q].via \in Invites
          /\ Accounts = {} => req[q].role = "admin"
    /\ \A q \in Pats :
          /\ req[q] \in Patches /\ req[q].user \in Accounts
          /\ req[q].at \in {"countRole", "setRole"} => req[q].want # "keep"

Active(u) == role[u] = "admin" /\ u \notin banned
Other(t) == \E w \in Users \ {t} : Active(w)

(* What a patch is about to write leaves an admin: another one.            *)
PatchSafe(r) ==
    /\ r.at = "setRole" /\ r.want = "member" => Other(r.user)
    /\ r.at \in {"setRole", "setBan"} /\ r.ban = "ban" /\ (r.at = "setRole" => r.next = "setBan")
          => Other(r.user)
    /\ r.at = "countRole" => ~(r.next = "setBan" /\ r.ban = "ban")

AdminInv ==
    <<"patch">> \notin slips =>
        /\ \A p, q \in Pats : p = q
        /\ Accounts # {} => \E u \in Users : Active(u)
        /\ \A q \in Pats : PatchSafe(req[q])

(* Nobody can be admitted by v any more, or be admitted at all before the  *)
(* first account.                                                          *)
Taken(v) == v \in Invites => invites[v].state \in {"used", "gone"}

SeatInv(v) ==
    {<<"register", v>>, <<"unmarked", v>>} \cap slips = {} =>
        /\ \A p, q \in Regs : req[p].via = v /\ req[q].via = v => p = q
        /\ \A u, w \in Users : via[u] = v /\ via[w] = v => u = w
        /\ (\E u \in Users : via[u] = v) =>
              Taken(v) \/ \E q \in Regs : req[q].via = v /\ req[q].at = "mark"
        /\ \A q \in Regs : req[q].via = v /\ req[q].at # "mark" => \A u \in Users : via[u] # v

Seats == \A v \in Invites \cup {"bootstrap"} : SeatInv(v)

MInv == Base /\ AdminInv /\ Seats

(* The requests of the catalogue, and the one of the schedule. *)
Shapes ==
    \A q \in Slots : req[q].op \in {"import", "steam"} =>
        /\ {"op", "at"} \subseteq DOMAIN req[q]
        /\ req[q].op = "import" => "auto" \in DOMAIN req[q] /\ req[q].auto \in BOOLEAN

Scheduled == \E q \in Slots : req[q].op = "import" /\ req[q].auto

Failed == {<<"failed">>, <<"refused">>} \cap slips # {}

(* Checks since an import on schedule, or the last stamp.                  *)
Since(x) == x \in {Never} \cup 0 .. Week + 1 /\ (x # Never => age <= x)

FreshInv ==
    /\ age \in 0 .. Week + 1 /\ checked \in BOOLEAN
    /\ Since(last) /\ Since(stamp)
    /\ Failed \/ age < Week \/ (age = Week /\ (checked => Scheduled))

CatInv == MInv /\ Shapes /\ FreshInv

-----------------------------------------------------------------------------
LEMMA FreeIsNone == Free.op = "free"
BY DEF Free

(* What the three ways to write a slot do. *)
Elsewhere(q) == DOMAIN req' = Slots /\ \A s \in Slots \ {q} : req'[s] = req[s]

LEMMA SlotWrites ==
    ASSUME DOMAIN req = Slots, NEW q \in Slots
    PROVE  /\ \A r : Begin(q, r) => req[q] = Free /\ req'[q] = r /\ Elsewhere(q)
           /\ \A at : Goto(q, at) => req'[q] = [req[q] EXCEPT !.at = at] /\ Elsewhere(q)
           /\ Done(q) => req'[q] = Free /\ Elsewhere(q)
BY DEF Begin, Goto, Done, Elsewhere

(* Steps that write no account, where every registration and every patch   *)
(* stays as it was, or ends: not one that has yet to mark its invite.      *)
Framed ==
    /\ UNCHANGED <<role, banned, via, invites>> /\ slips \subseteq slips' /\ DOMAIN req' = Slots
    /\ \A s \in Slots :
          \/ req'[s] = req[s]
          \/ /\ req'[s].op \notin {"register", "patch"}
             /\ ~(req[s].op = "register" /\ req[s].at = "mark")

LEMMA FramedKeepsMInv == MInv /\ Framed => MInv'
<1> SUFFICES ASSUME MInv, Framed PROVE MInv'
  OBVIOUS
<1>1. UNCHANGED <<role, banned, via, invites>> /\ slips \subseteq slips'
  BY DEF Framed
<1>2. /\ \A q \in Regs' : q \in Regs /\ req'[q] = req[q]
      /\ \A q \in Pats' : q \in Pats /\ req'[q] = req[q]
      /\ \A q \in Regs : req[q].at = "mark" => q \in Regs' /\ req'[q] = req[q]
  BY DEF Framed, memberVars, Regs, Pats
<1>3. Base'
  BY <1>1, <1>2 DEF MInv, Base, Framed, Accounts
<1>4. AdminInv'
  BY <1>1, <1>2 DEF MInv, AdminInv, PatchSafe, Other, Active, Accounts
<1>5. ASSUME NEW v \in Invites \cup {"bootstrap"} PROVE SeatInv(v)'
  BY <1>1, <1>2 DEF MInv, Seats, SeatInv, Taken
<1>6. QED
  BY <1>3, <1>4, <1>5 DEF MInv, Seats

-----------------------------------------------------------------------------
(* Invites. *)

(* Only the state of one invite changes, and not back: a new one has no    *)
(* registration and seated nobody.                                         *)
LEMMA InviteKeepsMInv ==
    ASSUME MInv, NEW i \in Invites, \/ \E r \in {"member", "admin"} : CreateInvite(i, r)
                                    \/ EndInvite(i)
    PROVE  MInv'
<1>1. UNCHANGED <<role, banned, via, org, req, slips>>
  BY DEF CreateInvite, EndInvite
<1>2. /\ invites' \in [Invites -> [role : {"member", "admin"},
                                  state : {"none", "pending", "used", "gone"}]]
      /\ invites'[i].state # "none"
      /\ invites'[i].state \notin {"used", "gone"} => invites[i].state = "none"
      /\ \A j \in Invites \ {i} : invites'[j] = invites[j]
  BY DEF CreateInvite, EndInvite, MInv, Base
<1>3. Regs' = Regs /\ Pats' = Pats
  BY <1>1 DEF Regs, Pats
<1>4. Base'
  <2>1. Accounts' = Accounts
    BY <1>1 DEF Accounts
  <2>2. \A j \in Invites : invites[j].state # "none" => invites'[j].state # "none"
    BY <1>2
  <2>3. QED
    BY <1>1, <1>2, <1>3, <2>1, <2>2 DEF MInv, Base
<1>5. AdminInv'
  BY <1>1, <1>3 DEF MInv, AdminInv, PatchSafe, Other, Active, Accounts
<1>6. ASSUME NEW v \in Invites \cup {"bootstrap"} PROVE SeatInv(v)'
  <2>1. SeatInv(v)
    BY DEF MInv, Seats
  <2>2. CASE v = i
    <3>1. (\E q \in Regs : req[q].via = v) => invites[v].state # "none"
      BY <2>2 DEF MInv, Base
    <3>2. QED
      BY <1>1, <1>2, <1>3, <2>1, <2>2, <3>1 DEF SeatInv, Taken
  <2>3. CASE v # i
    <3>1. Taken(v) => Taken(v)'
      BY <1>2, <2>3 DEF Taken
    <3>2. QED
      BY <1>1, <1>3, <2>1, <3>1 DEF SeatInv
  <2>4. QED
    BY <2>2, <2>3
<1>7. QED
  BY <1>4, <1>5, <1>6 DEF MInv, Seats

-----------------------------------------------------------------------------
(* Registrations. *)

LEMMA RegisterKeepsMInv ==
    ASSUME MInv, NEW q \in Slots, NEW u \in Users, NEW code \in Invites \cup {"no code"},
           Register(q, u, code)
    PROVE  MInv'
<1>1. PICK a \in Admission(code) :
         /\ Begin(q, [op |-> "register", at |-> "org", user |-> u,
                      role |-> a.role, via |-> a.via])
         /\ slips' = IF \E r \in InFlight(q, "register") : req[r].via = a.via
                     THEN slips \cup {<<"register", a.via>>} ELSE slips
  BY DEF Register
<1> DEFINE n == [op |-> "register", at |-> "org", user |-> u, role |-> a.role, via |-> a.via]
<1>2. UNCHANGED <<role, banned, via, org, invites>>
  BY DEF Register, memberVars
<1>3. /\ a.role \in {"member", "admin"} /\ a.via \in Invites \cup {"bootstrap", "open"}
      /\ Accounts = {} => a.role = "admin"
      /\ a.via = "bootstrap" => Accounts = {}
      /\ a.via \in Invites => invites[a.via].state = "pending"
  <2>1. CASE Accounts = {}
    <3>1. Admission(code) = {[role |-> "admin", via |-> "bootstrap"]}
      BY <2>1 DEF Admission
    <3>2. a = [role |-> "admin", via |-> "bootstrap"]
      BY <3>1
    <3>3. a.role = "admin" /\ a.via = "bootstrap"
      BY <3>2
    <3>4. QED
      BY <2>1, <3>3, InvitesAssumption
  <2>2. CASE Accounts # {} /\ code \in Invites
    <3>1. Pending(code) /\ a = [role |-> invites[code].role, via |-> code]
      BY <1>1, <2>2 DEF Admission
    <3>2. a.role = invites[code].role /\ a.via = code
      BY <3>1
    <3>3. QED
      BY <2>2, <3>1, <3>2, InvitesAssumption DEF Pending, MInv, Base
  <2>3. CASE Accounts # {} /\ code \notin Invites
    <3>1. a = [role |-> "member", via |-> "open"]
      BY <1>1, <2>3 DEF Admission
    <3>2. QED
      BY <2>3, <3>1, InvitesAssumption
  <2>4. QED
    BY <2>1, <2>2, <2>3
<1>4. DOMAIN req = Slots
  BY DEF MInv, Base
<1>5. req[q] = Free /\ req'[q] = n /\ Elsewhere(q)
  BY <1>1, <1>4, SlotWrites
<1>6. n \in Registers /\ n.op = "register" /\ n.at = "org" /\ n.via = a.via /\ n.role = a.role
  BY <1>3 DEF Registers
<1> HIDE DEF n
<1>7. q \notin Regs \cup Pats
  <2>1. req[q].op = "free"
    BY <1>5, FreeIsNone
  <2>2. QED
    BY <2>1 DEF Regs, Pats
<1>8. Regs' = Regs \cup {q} /\ Pats' = Pats
  BY <1>5, <1>6, <1>7 DEF Regs, Pats, Elsewhere
<1>9. (\A r \in Regs \cup Pats : req'[r] = req[r]) /\ DOMAIN req' = Slots
  BY <1>5, <1>7 DEF Elsewhere, Regs, Pats
<1>10. Base'
  <2>1. /\ req'[q] \in Registers
        /\ req'[q].via \in Invites => invites[req'[q].via].state # "none"
        /\ req'[q].at # "mark"
        /\ Accounts = {} => req'[q].role = "admin"
    BY <1>3, <1>5, <1>6
  <2>2. \A r \in Pats : req'[r] = req[r]
    BY <1>9
  <2>3. \A r \in Regs : req'[r] = req[r]
    BY <1>9
  <2>4. Accounts' = Accounts
    BY <1>2 DEF Accounts
  <2>5. \A r \in Regs' :
          /\ req'[r] \in Registers
          /\ req'[r].via \in Invites => invites[req'[r].via].state # "none"
          /\ req'[r].at = "mark" => req'[r].via \in Invites
          /\ Accounts = {} => req'[r].role = "admin"
    BY <1>8, <2>1, <2>3 DEF MInv, Base
  <2>6. \A r \in Pats' :
          /\ req'[r] \in Patches /\ req'[r].user \in Accounts
          /\ req'[r].at \in {"countRole", "setRole"} => req'[r].want # "keep"
    BY <1>8, <2>2 DEF MInv, Base
  <2>7. QED
    BY <1>2, <1>9, <2>4, <2>5, <2>6 DEF MInv, Base
<1>11. slips \subseteq slips'
  BY <1>1
<1>12. AdminInv'
  BY <1>2, <1>8, <1>9, <1>11 DEF MInv, AdminInv, PatchSafe, Other, Active, Accounts
<1>13. ASSUME NEW v \in Invites \cup {"bootstrap"} PROVE SeatInv(v)'
  <2>1. SeatInv(v) /\ slips \subseteq slips'
    BY <1>11 DEF MInv, Seats
  <2>2. CASE v # a.via
    <3>1. req'[q].via # v
      BY <1>5, <1>6, <2>2
    <3>2. /\ \A r \in Regs' : req'[r].via = v => r \in Regs /\ req'[r] = req[r]
          /\ \A r \in Regs : r \in Regs' /\ req'[r] = req[r]
      BY <1>8, <1>9, <3>1
    <3>3. QED
      BY <1>2, <2>1, <3>2 DEF SeatInv, Taken
  <2>3. CASE v = a.via /\ \E r \in Regs : req[r].via = v
    <3>1. <<"register", v>> \in slips'
      BY <1>1, <1>7, <2>3 DEF InFlight, Regs
    <3>2. QED
      BY <3>1 DEF SeatInv
  <2>4. CASE v = a.via /\ \A r \in Regs : req[r].via # v
    <3>1. ASSUME NEW w \in Users, via[w] = v, {<<"register", v>>, <<"unmarked", v>>} \cap slips = {}
          PROVE  FALSE
      <4>1. CASE v = "bootstrap"
        BY <1>3, <2>4, <3>1, <4>1, InvitesAssumption DEF MInv, Base, Accounts
      <4>2. CASE v \in Invites
        <5>1. Taken(v)
          BY <2>1, <2>4, <3>1 DEF SeatInv
        <5>2. QED
          BY <1>3, <2>4, <4>2, <5>1 DEF Taken
      <4>3. QED
        BY <4>1, <4>2
    <3>2. QED
      BY <1>2, <1>5, <1>6, <1>8, <1>9, <2>1, <2>4, <3>1 DEF SeatInv, Taken
  <2>5. QED
    BY <2>2, <2>3, <2>4
<1>14. QED
  BY <1>10, <1>12, <1>13 DEF MInv, Seats

(* A registration that goes on to its account. *)
LEMMA RegistrationGoesOn ==
    ASSUME MInv, NEW q \in Regs, req[q].at # "mark", NEW at \in {"insertOrg", "create"},
           Goto(q, at), UNCHANGED <<role, banned, via, invites, slips>>
    PROVE  MInv'
<1>1. DOMAIN req = Slots /\ q \in Slots /\ req[q] \in Registers
  BY DEF MInv, Base, Regs
<1>2. req'[q] = [req[q] EXCEPT !.at = at] /\ Elsewhere(q)
  BY <1>1, SlotWrites
<1>3. /\ req'[q] \in Registers /\ req[q].op = "register" /\ req'[q].op = "register"
      /\ req'[q].at = at /\ req'[q].via = req[q].via /\ req'[q].role = req[q].role
  BY <1>1, <1>2 DEF Registers
<1>4. Regs' = Regs /\ Pats' = Pats /\ q \notin Pats
  <2>1. \A r \in Slots : req'[r].op = req[r].op
    BY <1>2, <1>3 DEF Elsewhere
  <2>2. QED
    BY <1>3, <2>1 DEF Regs, Pats
<1>5. DOMAIN req' = Slots /\ \A r \in Slots \ {q} : req'[r] = req[r]
  BY <1>2 DEF Elsewhere
<1>6. Base'
  BY <1>3, <1>4, <1>5 DEF MInv, Base, Accounts, Regs, Pats
<1>7. \A r \in Pats : req'[r] = req[r]
  BY <1>4, <1>5 DEF Pats
<1>8. AdminInv'
  BY <1>4, <1>7 DEF MInv, AdminInv, PatchSafe, Other, Active, Accounts
<1>9. \A r \in Regs : req'[r].via = req[r].via /\ (req'[r].at = "mark" <=> req[r].at = "mark")
  BY <1>3, <1>5 DEF Regs
<1>10. ASSUME NEW v \in Invites \cup {"bootstrap"} PROVE SeatInv(v)'
  BY <1>4, <1>9 DEF MInv, Seats, SeatInv, Taken
<1>11. QED
  BY <1>6, <1>8, <1>10 DEF MInv, Seats

(* The account: it is the only one its invite seated, and the first one is *)
(* an admin.                                                               *)
LEMMA CreateUserKeepsMInv ==
    ASSUME MInv, NEW q \in Slots, CreateUser(q)
    PROVE  MInv'
<1> DEFINE r == req[q]
<1>1. /\ q \in Regs /\ r \in Registers /\ r.at = "create" /\ DOMAIN req = Slots
      /\ UNCHANGED slips
  BY DEF CreateUser, At, MInv, Base, Regs
<1>2. CASE role[r.user] # "none"
  <2>1. Done(q) /\ UNCHANGED memberVars
    BY <1>2 DEF CreateUser
  <2>2. req'[q] = Free /\ Elsewhere(q)
    BY <1>1, <2>1, SlotWrites
  <2>3. Framed
    BY <1>1, <2>1, <2>2, FreeIsNone DEF Framed, memberVars, Elsewhere
  <2>4. QED
    BY <2>3, FramedKeepsMInv
<1>3. CASE role[r.user] = "none"
  <2>1. /\ role' = [role EXCEPT ![r.user] = r.role]
        /\ via' = [via EXCEPT ![r.user] = r.via]
        /\ IF r.via \in Invites THEN Goto(q, "mark") ELSE Done(q)
        /\ UNCHANGED <<banned, org, invites>>
    BY <1>3 DEF CreateUser
  <2>2. /\ r.user \in Users /\ r.role \in {"member", "admin"}
        /\ r.via \in Invites \cup {"bootstrap", "open"} /\ r.op = "register"
    BY <1>1 DEF Registers
  <2>3. /\ role' \in [Users -> {"none", "member", "admin"}]
        /\ via' \in [Users -> Invites \cup {"bootstrap", "open"}]
        /\ role'[r.user] = r.role /\ via'[r.user] = r.via
        /\ \A u \in Users \ {r.user} : role'[u] = role[u] /\ via'[u] = via[u]
    BY <2>1, <2>2 DEF MInv, Base
  <2>4. Accounts' = Accounts \cup {r.user}
    BY <2>2, <2>3 DEF Accounts
  <2>5. Elsewhere(q)
    BY <1>1, <2>1, SlotWrites
  <2>6. /\ r.via \in Invites =>
              req'[q] \in Registers /\ req'[q].op = "register" /\ req'[q].at = "mark"
                 /\ req'[q].via = r.via
        /\ r.via \notin Invites => req'[q].op = "free"
    <3>1. CASE r.via \in Invites
      <4>1. req'[q] = [r EXCEPT !.at = "mark"]
        BY <1>1, <2>1, <3>1, SlotWrites
      <4>2. QED
        BY <1>1, <3>1, <4>1 DEF Registers
    <3>2. CASE r.via \notin Invites
      BY <1>1, <2>1, <3>2, SlotWrites, FreeIsNone
    <3>3. QED
      BY <3>1, <3>2
  <2>7. /\ DOMAIN req' = Slots
        /\ \A p \in Slots \ {q} : req'[p] = req[p]
        /\ req'[q].op # "patch" /\ (req'[q].op = "register" <=> r.via \in Invites)
    BY <2>5, <2>6 DEF Elsewhere
  <2>8. Pats' = Pats /\ q \notin Pats /\ Regs' = IF r.via \in Invites THEN Regs ELSE Regs \ {q}
    BY <1>1, <2>2, <2>7 DEF Regs, Pats
  <2>9. \A p \in Pats : req'[p] = req[p]
    BY <2>7, <2>8 DEF Pats
  <2>10. \A p \in Regs' : p \in Regs /\ (p # q => req'[p] = req[p])
    BY <2>7, <2>8 DEF Regs
  <2> HIDE DEF r
  <2>11. Base'
    <3>1. \A p \in Regs' :
            /\ req'[p] \in Registers
            /\ req'[p].via \in Invites => invites[req'[p].via].state # "none"
            /\ req'[p].at = "mark" => req'[p].via \in Invites
      <4>1. r.via \in Invites => invites[r.via].state # "none"
        BY <1>1 DEF MInv, Base, r
      <4>2. QED
        BY <2>6, <2>8, <2>10, <4>1 DEF MInv, Base
    <3>2. Accounts' # {} /\ banned \subseteq Accounts'
      BY <2>4 DEF MInv, Base
    <3>3. \A u \in Users : role'[u] = "none" => via'[u] = "open"
      BY <2>2, <2>3 DEF MInv, Base
    <3>4. \A p \in Pats' : /\ req'[p] \in Patches /\ req'[p].user \in Accounts'
                           /\ req'[p].at \in {"countRole", "setRole"} => req'[p].want # "keep"
      BY <2>4, <2>8, <2>9 DEF MInv, Base
    <3>5. QED
      BY <2>1, <2>3, <2>7, <3>1, <3>2, <3>3, <3>4 DEF MInv, Base
  <2>12. AdminInv'
    <3>1. SUFFICES ASSUME <<"patch">> \notin slips PROVE AdminInv'
      BY <1>1 DEF AdminInv
    <3>2. \A u \in Users : Active(u) => Active(u)'
      BY <1>3, <2>1, <2>3 DEF Active
    <3>3. \E u \in Users : Active(u)'
      <4>1. CASE Accounts = {}
        <5>1. r.role = "admin" /\ r.user \notin banned
          BY <1>1, <4>1 DEF MInv, Base, r
        <5>2. QED
          BY <2>1, <2>2, <2>3, <5>1 DEF Active
      <4>2. CASE Accounts # {}
        BY <3>1, <3>2, <4>2 DEF MInv, AdminInv
      <4>3. QED
        BY <4>1, <4>2
    <3>4. \A t : Other(t) => Other(t)'
      BY <3>2 DEF Other
    <3>5. \A p \in Pats : PatchSafe(req[p])'
      BY <2>9, <3>1, <3>4 DEF MInv, AdminInv, PatchSafe
    <3>6. QED
      BY <2>8, <3>1, <3>3, <3>5 DEF MInv, AdminInv
  <2>13. ASSUME NEW v \in Invites \cup {"bootstrap"} PROVE SeatInv(v)'
    <3>1. SeatInv(v)
      BY DEF MInv, Seats
    <3>2. Taken(v)' <=> Taken(v)
      BY <2>1 DEF Taken
    <3>3. CASE v # r.via
      <4>1. \A u \in Users : via'[u] = v => via[u] = v
        BY <2>2, <2>3, <3>3
      <4>2. /\ \A p \in Regs' : req'[p].via = v => p \in Regs /\ req'[p] = req[p]
            /\ \A p \in Regs : req[p].via = v => p \in Regs' /\ req'[p] = req[p]
        BY <2>6, <2>7, <2>8, <2>10, <3>3 DEF r, Regs
      <4>3. QED
        BY <1>1, <3>1, <3>2, <4>1, <4>2 DEF SeatInv
    <3>4. CASE v = r.via
      <4>1. SUFFICES ASSUME {<<"register", v>>, <<"unmarked", v>>} \cap slips = {}
                     PROVE  SeatInv(v)'
        BY <1>1 DEF SeatInv
      <4>2. /\ \A p \in Regs : req[p].via = v => p = q
            /\ \A u \in Users : via[u] # v
        BY <1>1, <3>1, <3>4, <4>1 DEF SeatInv, r
      <4>3. \A u \in Users : via'[u] = v => u = r.user
        BY <2>3, <4>2
      <4>4. \A p \in Regs' : req'[p].via = v => p = q
        BY <2>10, <4>2
      <4>5. v \in Invites => q \in Regs' /\ req'[q].via = v
        BY <1>1, <2>6, <2>8, <3>4
      <4>6. q \in Regs' => req'[q].at = "mark"
        BY <2>6, <2>8
      <4>7. v \notin Invites => Taken(v)'
        BY DEF Taken
      <4>8. QED
        BY <4>3, <4>4, <4>5, <4>6, <4>7 DEF SeatInv
    <3>5. QED
      BY <3>3, <3>4
  <2>14. QED
    BY <2>11, <2>12, <2>13 DEF MInv, Seats
<1>4. QED
  BY <1>2, <1>3

(* The invite is used, or was gone before: nobody is admitted by it again. *)
LEMMA ConsumeInviteKeepsMInv ==
    ASSUME MInv, NEW q \in Slots, ConsumeInvite(q)
    PROVE  MInv'
<1> DEFINE i == req[q].via
<1>1. /\ q \in Regs /\ req[q].at = "mark" /\ i \in Invites /\ DOMAIN req = Slots
      /\ invites[i].state # "none"
  BY DEF ConsumeInvite, At, MInv, Base, Regs
<1>2. Done(q) /\ MarkInviteUsed(i) /\ UNCHANGED <<role, banned, via, org, slips>>
  BY DEF ConsumeInvite
<1>3. req'[q].op = "free" /\ Elsewhere(q)
  BY <1>1, <1>2, SlotWrites, FreeIsNone
<1>4. /\ invites' \in [Invites -> [role : {"member", "admin"},
                                  state : {"none", "pending", "used", "gone"}]]
      /\ invites'[i].state \in {"used", "gone"}
      /\ \A j \in Invites \ {i} : invites'[j] = invites[j]
  BY <1>1, <1>2 DEF MarkInviteUsed, Pending, MInv, Base
<1>5. Regs' = Regs \ {q} /\ Pats' = Pats /\ q \notin Pats /\ DOMAIN req' = Slots
  BY <1>1, <1>3 DEF Regs, Pats, Elsewhere
<1>6. \A p \in Regs' \cup Pats' : req'[p] = req[p]
  BY <1>3, <1>5 DEF Elsewhere, Regs, Pats
<1> HIDE DEF i
<1>7. Base'
  <2>1. \A j \in Invites : invites[j].state # "none" => invites'[j].state # "none"
    BY <1>4
  <2>2. Accounts' = Accounts
    BY <1>2 DEF Accounts
  <2>3. QED
    BY <1>2, <1>4, <1>5, <1>6, <2>1, <2>2 DEF MInv, Base
<1>8. AdminInv'
  BY <1>2, <1>5, <1>6 DEF MInv, AdminInv, PatchSafe, Other, Active, Accounts
<1>9. ASSUME NEW v \in Invites \cup {"bootstrap"} PROVE SeatInv(v)'
  <2>1. SeatInv(v)
    BY DEF MInv, Seats
  <2>2. \A p \in Regs' : p \in Regs /\ req'[p] = req[p]
    BY <1>5, <1>6
  <2>3. CASE v = i
    <3>1. Taken(v)'
      BY <1>4, <2>3 DEF Taken
    <3>2. QED
      BY <1>2, <2>1, <2>2, <3>1 DEF SeatInv
  <2>4. CASE v # i
    <3>1. Taken(v) => Taken(v)'
      BY <1>4, <2>4 DEF Taken
    <3>2. \A p \in Regs : req[p].via = v => p \in Regs' /\ req'[p] = req[p]
      BY <1>5, <1>6, <2>4 DEF i
    <3>3. QED
      BY <1>2, <2>1, <2>2, <3>1, <3>2 DEF SeatInv
  <2>5. QED
    BY <2>3, <2>4
<1>10. QED
  BY <1>7, <1>8, <1>9 DEF MInv, Seats

(* A request stops; one that has yet to mark its invite leaves a trace. *)
LEMMA StopKeepsMInv ==
    ASSUME MInv, NEW q \in Slots, Stop(q)
    PROVE  MInv'
<1>1. DOMAIN req = Slots /\ Done(q) /\ UNCHANGED memberVars
  BY DEF Stop, MInv, Base
<1>2. req'[q].op = "free" /\ Elsewhere(q)
  BY <1>1, SlotWrites, FreeIsNone
<1>3. CASE ~At(q, "register", "mark")
  <2>1. Framed
    BY <1>1, <1>2, <1>3 DEF Framed, memberVars, Elsewhere, Stop, At
  <2>2. QED
    BY <2>1, FramedKeepsMInv
<1>4. CASE At(q, "register", "mark")
  <2> DEFINE i == req[q].via
  <2>1. slips' = slips \cup {<<"unmarked", i>>}
    BY <1>4 DEF Stop
  <2>2. q \in Regs /\ UNCHANGED <<role, banned, via, org, invites>>
    BY <1>1, <1>4 DEF Regs, At, memberVars
  <2>3. Regs' = Regs \ {q} /\ Pats' = Pats /\ DOMAIN req' = Slots
    BY <1>2, <2>2 DEF Regs, Pats, Elsewhere
  <2>4. \A p \in Regs' \cup Pats' : req'[p] = req[p]
    BY <1>2, <2>3 DEF Elsewhere, Regs, Pats
  <2>5. Base'
    BY <2>2, <2>3, <2>4 DEF MInv, Base, Accounts
  <2>6. AdminInv'
    BY <2>1, <2>2, <2>3, <2>4 DEF MInv, AdminInv, PatchSafe, Other, Active, Accounts
  <2>7. ASSUME NEW v \in Invites \cup {"bootstrap"} PROVE SeatInv(v)'
    <3>1. SeatInv(v)
      BY DEF MInv, Seats
    <3>2. CASE v = i
      BY <2>1, <3>2 DEF SeatInv
    <3>3. CASE v # i
      <4>1. /\ \A p \in Regs' : p \in Regs /\ req'[p] = req[p]
            /\ \A p \in Regs : req[p].via = v => p \in Regs' /\ req'[p] = req[p]
        BY <2>3, <2>4, <3>3
      <4>2. QED
        BY <2>1, <2>2, <3>1, <4>1 DEF SeatInv, Taken
    <3>4. QED
      BY <3>2, <3>3
  <2>8. QED
    BY <2>5, <2>6, <2>7 DEF MInv, Seats
<1>5. QED
  BY <1>3, <1>4

-----------------------------------------------------------------------------
(* Patches. *)

(* A patch that goes on or ends concerns no registration and no invite.    *)
LEMMA PatchKeepsRest ==
    ASSUME MInv, NEW q \in Slots, q \notin Regs, Elsewhere(q), req'[q].op # "register",
           req'[q].op = "patch" =>
              /\ req'[q] \in Patches /\ req'[q].user \in Accounts
              /\ req'[q].at \in {"countRole", "setRole"} => req'[q].want # "keep",
           UNCHANGED <<via, org, invites>>, slips \subseteq slips', Accounts' = Accounts,
           role' \in [Users -> {"none", "member", "admin"}], banned' \subseteq Accounts
    PROVE  Base' /\ Seats'
<1>1. Regs' = Regs /\ Pats' \subseteq Pats \cup {q} /\ DOMAIN req' = Slots
  BY DEF Elsewhere, Regs, Pats
<1>2. (\A p \in Regs : req'[p] = req[p]) /\ \A p \in Pats' \ {q} : p \in Pats /\ req'[p] = req[p]
  BY <1>1 DEF Elsewhere, Regs, Pats
<1>3. \A u \in Users : role'[u] = "none" => role[u] = "none"
  BY DEF Accounts
<1>4. Base'
  <2>1. \A p \in Pats' :
          /\ req'[p] \in Patches /\ req'[p].user \in Accounts'
          /\ req'[p].at \in {"countRole", "setRole"} => req'[p].want # "keep"
    <3>1. ASSUME NEW p \in Pats', p # q
          PROVE  /\ req'[p] \in Patches /\ req'[p].user \in Accounts'
                 /\ req'[p].at \in {"countRole", "setRole"} => req'[p].want # "keep"
      BY <1>2, <3>1 DEF MInv, Base
    <3>2. q \in Pats' => req'[q].op = "patch"
      BY DEF Pats
    <3>3. QED
      BY <3>1, <3>2
  <2>2. QED
    BY <1>1, <1>2, <1>3, <2>1 DEF MInv, Base
<1>5. ASSUME NEW v \in Invites \cup {"bootstrap"} PROVE SeatInv(v)'
  <2>1. SeatInv(v)
    BY DEF MInv, Seats
  <2>2. QED
    BY <1>1, <1>2, <2>1 DEF SeatInv, Taken
<1>6. QED
  BY <1>4, <1>5 DEF Seats

(* While it is the only patch, what it does next is all there is to check. *)
LEMMA PatchKeepsAdmin ==
    ASSUME MInv, NEW q \in Slots, Elsewhere(q), slips \subseteq slips',
           <<"patch">> \notin slips' => \A p \in Pats : p = q,
           <<"patch">> \notin slips' /\ Accounts' # {} => \E u \in Users : Active(u)',
           <<"patch">> \notin slips' /\ req'[q].op = "patch" => PatchSafe(req[q])'
    PROVE  AdminInv'
<1> SUFFICES ASSUME <<"patch">> \notin slips' PROVE AdminInv'
  BY DEF AdminInv
<1>1. \A p \in Pats' : p = q
  BY DEF Pats, Elsewhere
<1>2. q \in Pats' => PatchSafe(req[q])'
  BY DEF Pats
<1>3. QED
  BY <1>1, <1>2 DEF AdminInv

LEMMA CountAdminsIsEnough ==
    ASSUME CountAdmins > 1, NEW t
    PROVE  Other(t)
<1> DEFINE S == {u \in Users : role[u] = "admin" /\ u \notin banned}
<1> SUFFICES ASSUME ~Other(t) PROVE FALSE
  OBVIOUS
<1>1. S \subseteq {t}
  BY DEF Other, Active
<1>2. IsFiniteSet({t}) /\ Cardinality({t}) = 1
  BY FS_Singleton
<1>3. Cardinality(S) <= 1
  BY <1>1, <1>2, FS_Subset
<1>4. IsFiniteSet(S)
  BY <1>1, <1>2, FS_Subset
<1>5. Cardinality(S) \in Nat
  BY <1>4, FS_CardinalityType
<1>6. QED
  BY <1>3, <1>5 DEF CountAdmins

LEMMA PatchMemberKeepsMInv ==
    ASSUME MInv, NEW q \in Slots, NEW self \in BOOLEAN, NEW u \in Users, NEW a \in Asks,
           PatchMember(q, self, u, a[1], a[2])
    PROVE  MInv'
<1> DEFINE want == a[1]
           ban == a[2]
           next == BanAt(self, role[u], ban)
           first == RoleAt(role[u], want, next)
           n == [op |-> "patch", at |-> first, user |-> u, want |-> want,
                 next |-> next, ban |-> ban]
<1>1. want \in {"keep", "member", "admin"} /\ ban \in {"keep", "ban", "unban"}
  BY AsksAssumption
<1>2. /\ u \in Accounts /\ first # "end" /\ Begin(q, n)
      /\ slips' = IF InFlight(q, "patch") = {} THEN slips ELSE slips \cup {<<"patch">>}
      /\ UNCHANGED <<role, banned, via, org, invites>> /\ DOMAIN req = Slots
  BY DEF PatchMember, memberVars, MInv, Base
<1>3. /\ next \in {"end", "countBan", "setBan"}
      /\ next = "setBan" /\ ban = "ban" => role[u] # "admin"
  BY DEF BanAt
<1>4. /\ first \in {"countRole", "setRole", "countBan", "setBan"}
      /\ first \in {"countRole", "setRole"} => want # "keep"
      /\ first = "countRole" => role[u] = "admin"
      /\ first = "setRole" /\ want = "member" => role[u] # "admin"
      /\ first = "setBan" => next = "setBan"
  BY <1>1, <1>2, <1>3 DEF RoleAt
<1> HIDE DEF want, ban, next, first
<1>5. n \in Patches
  BY <1>1, <1>3, <1>4 DEF Patches
<1>6. /\ n.op = "patch" /\ n.at = first /\ n.user = u /\ n.want = want /\ n.next = next
      /\ n.ban = ban
  OBVIOUS
<1> HIDE DEF n
<1>7. req[q].op = "free" /\ req'[q] = n /\ Elsewhere(q)
  BY <1>2, SlotWrites, FreeIsNone
<1>8. Accounts' = Accounts
  BY <1>2 DEF Accounts
<1>9. Base' /\ Seats'
  BY <1>2, <1>4, <1>5, <1>6, <1>7, <1>8, PatchKeepsRest DEF MInv, Base, Regs
<1>10. AdminInv'
  <2> SUFFICES ASSUME <<"patch">> \notin slips' PROVE AdminInv'
    BY DEF AdminInv
  <2>1. <<"patch">> \notin slips /\ Pats = {}
    BY <1>2, <1>7 DEF InFlight, Pats
  <2>2. \E w \in Users : Active(w)
    BY <1>2, <2>1 DEF MInv, AdminInv
  <2>3. role[u] # "admin" => Other(u)
    BY <2>2 DEF Active, Other
  <2>4. PatchSafe(n)
    BY <1>3, <1>4, <1>6, <2>3 DEF PatchSafe
  <2>5. PatchSafe(req[q])' /\ \E w \in Users : Active(w)'
    BY <1>2, <1>7, <2>2, <2>4 DEF PatchSafe, Other, Active
  <2>6. QED
    BY <1>2, <1>7, <2>1, <2>5, PatchKeepsAdmin
<1>11. QED
  BY <1>9, <1>10 DEF MInv

(* Two admins were counted, so one remains whatever becomes of the target. *)
LEMMA CountForKeepsMInv ==
    ASSUME MInv, NEW q \in Slots, NEW at, NEW next, CountFor(q, at, next),
           \/ at = "countRole" /\ next = "setRole"
           \/ at = "countBan" /\ next = "setBan"
    PROVE  MInv'
<1> DEFINE r == req[q]
<1>1. /\ r.op = "patch" /\ r.at = at /\ DOMAIN req = Slots /\ q \in Pats
      /\ IF CountAdmins <= 1 THEN Done(q) ELSE Goto(q, next)
      /\ UNCHANGED <<memberVars, slips>>
  BY DEF CountFor, At, MInv, Base, Pats
<1>2. /\ r \in Patches /\ r.user \in Accounts
      /\ r.at \in {"countRole", "setRole"} => r.want # "keep"
  BY <1>1 DEF MInv, Base
<1>3. CASE CountAdmins <= 1
  <2>1. req'[q].op = "free" /\ Elsewhere(q)
    BY <1>1, <1>3, SlotWrites, FreeIsNone
  <2>2. Framed
    BY <1>1, <2>1 DEF Framed, memberVars, Elsewhere
  <2>3. QED
    BY <2>2, FramedKeepsMInv
<1>4. CASE ~(CountAdmins <= 1)
  <2>1. req'[q] = [r EXCEPT !.at = next] /\ Elsewhere(q)
    BY <1>1, <1>4, SlotWrites
  <2>2. /\ req'[q] \in Patches /\ req'[q].op = "patch" /\ req'[q].user = r.user
        /\ req'[q].at = next /\ req'[q].want = r.want
        /\ req'[q].next = r.next /\ req'[q].ban = r.ban
    BY <1>2, <2>1 DEF Patches
  <2>3. UNCHANGED <<role, banned, via, org, invites, slips>> /\ Accounts' = Accounts
    BY <1>1 DEF memberVars, Accounts
  <2>4. at = "countRole" <=> next = "setRole"
    OBVIOUS
  <2> HIDE DEF r
  <2>5. Base' /\ Seats'
    BY <1>1, <1>2, <2>1, <2>2, <2>3, <2>4, PatchKeepsRest DEF MInv, Base, Regs, r
  <2>6. CountAdmins > 1
    <3>1. IsFiniteSet({u \in Users : role[u] = "admin" /\ u \notin banned})
      BY UsersAssumption, FS_Subset
    <3>2. CountAdmins \in Nat
      BY <3>1, FS_CardinalityType DEF CountAdmins
    <3>3. QED
      BY <1>4, <3>2
  <2>7. \A t : \E w \in Users \ {t} : Active(w)
    BY <2>6, CountAdminsIsEnough DEF Other
  <2>8. \A w : Active(w)' <=> Active(w)
    BY <2>3 DEF Active
  <2>9. \A t : \E w \in Users \ {t} : Active(w)'
    BY <2>7, <2>8
  <2>10. req'[q].at # "countRole" /\ \E w \in Users : Active(w)'
    BY <2>2, <2>9
  <2>11. PatchSafe(req[q])'
    BY <2>9, <2>10 DEF PatchSafe, Other
  <2>12. <<"patch">> \notin slips => \A p \in Pats : p = q
    BY <1>1 DEF MInv, AdminInv
  <2>13. QED
    BY <2>1, <2>3, <2>5, <2>10, <2>11, <2>12, PatchKeepsAdmin DEF MInv
<1>5. QED
  BY <1>3, <1>4

(* Whatever the role becomes, somebody else is an admin, or it is admin.   *)
LEMMA SetUserRoleKeepsMInv ==
    ASSUME MInv, NEW q \in Slots, SetUserRole(q)
    PROVE  MInv'
<1> DEFINE r == req[q]
<1>1. /\ r.op = "patch" /\ r.at = "setRole" /\ DOMAIN req = Slots /\ q \in Pats
      /\ role' = [role EXCEPT ![r.user] = r.want]
      /\ IF r.next = "end" THEN Done(q)
         ELSE req' = [req EXCEPT ![q].at = r.next, ![q].want = "keep"]
      /\ UNCHANGED <<banned, via, org, invites, slips>>
  BY DEF SetUserRole, At, MInv, Base, Pats
<1>2. /\ r \in Patches /\ r.user \in Accounts /\ r.want \in {"member", "admin"}
      /\ r.user \in Users
  BY <1>1 DEF MInv, Base, Patches, Accounts
<1>3. Elsewhere(q)
  BY <1>1, SlotWrites DEF Elsewhere
<1>4. /\ r.next = "end" => req'[q].op = "free"
      /\ r.next # "end" => req'[q] = [r EXCEPT !.at = r.next, !.want = "keep"]
  BY <1>1, SlotWrites, FreeIsNone
<1>5. r.next # "end" =>
         /\ req'[q] \in Patches /\ req'[q].op = "patch" /\ req'[q].user = r.user
         /\ req'[q].at = r.next /\ req'[q].at \in {"countBan", "setBan"}
         /\ req'[q].want = "keep" /\ req'[q].next = r.next /\ req'[q].ban = r.ban
  BY <1>2, <1>4 DEF Patches
<1> HIDE DEF r
<1>6. /\ role' \in [Users -> {"none", "member", "admin"}] /\ role'[r.user] = r.want
      /\ \A u \in Users \ {r.user} : role'[u] = role[u]
  BY <1>1, <1>2 DEF MInv, Base
<1>7. Accounts' = Accounts
  BY <1>2, <1>6 DEF Accounts
<1>8. req'[q].op # "register" /\ (req'[q].op = "patch" => r.next # "end")
  BY <1>4, <1>5
<1>9. Base' /\ Seats'
  BY <1>1, <1>2, <1>3, <1>5, <1>6, <1>7, <1>8, PatchKeepsRest DEF MInv, Base, Regs, r
<1>10. AdminInv'
  <2> SUFFICES ASSUME <<"patch">> \notin slips' PROVE AdminInv'
    BY DEF AdminInv
  <2>1. PatchSafe(r) /\ (\A p \in Pats : p = q) /\ \E u \in Users : Active(u)
    BY <1>1, <1>2 DEF MInv, AdminInv, r
  <2>2. Other(r.user) => \E w \in Users \ {r.user} : Active(w)'
    BY <1>1, <1>6 DEF Other, Active
  <2>3. \E u \in Users : Active(u)'
    <3>1. CASE r.want = "member"
      BY <1>1, <2>1, <2>2, <3>1 DEF PatchSafe, r
    <3>2. CASE r.want = "admin"
      BY <1>1, <1>6, <2>1, <3>2 DEF Active
    <3>3. QED
      BY <1>2, <3>1, <3>2
  <2>4. r.next = "setBan" /\ r.ban = "ban" => \E w \in Users \ {r.user} : Active(w)'
    BY <1>1, <2>1, <2>2 DEF PatchSafe, r
  <2>5. req'[q].op = "patch" => PatchSafe(req[q])'
    BY <1>5, <1>8, <2>4 DEF PatchSafe, Other
  <2>6. QED
    BY <1>1, <1>3, <2>1, <2>3, <2>5, PatchKeepsAdmin
<1>11. QED
  BY <1>9, <1>10 DEF MInv

LEMMA SetUserBannedKeepsMInv ==
    ASSUME MInv, NEW q \in Slots, SetUserBanned(q)
    PROVE  MInv'
<1> DEFINE r == req[q]
<1>1. /\ r.op = "patch" /\ r.at = "setBan" /\ DOMAIN req = Slots /\ q \in Pats
      /\ banned' = IF r.ban = "ban" THEN banned \cup {r.user} ELSE banned \ {r.user}
      /\ Done(q) /\ UNCHANGED <<role, via, org, invites, slips>>
  BY DEF SetUserBanned, At, MInv, Base, Pats
<1>2. r.user \in Accounts
  BY <1>1 DEF MInv, Base
<1>3. req'[q].op = "free" /\ Elsewhere(q)
  BY <1>1, SlotWrites, FreeIsNone
<1>4. Accounts' = Accounts /\ banned' \subseteq Accounts
  BY <1>1, <1>2 DEF MInv, Base, Accounts
<1>5. Base' /\ Seats'
  BY <1>1, <1>3, <1>4, PatchKeepsRest DEF MInv, Base, Regs
<1>6. <<"patch">> \notin slips =>
         PatchSafe(r) /\ (\A p \in Pats : p = q) /\ \E u \in Users : Active(u)
  BY <1>1, <1>2 DEF MInv, AdminInv
<1>7. <<"patch">> \notin slips => \E u \in Users : Active(u)'
  <2>1. CASE r.ban = "ban"
    BY <1>1, <1>6, <2>1 DEF PatchSafe, Other, Active
  <2>2. CASE r.ban # "ban"
    BY <1>1, <1>6, <2>2 DEF Active
  <2>3. QED
    BY <2>1, <2>2
<1>8. AdminInv'
  BY <1>1, <1>3, <1>6, <1>7, PatchKeepsAdmin
<1>9. QED
  BY <1>5, <1>8 DEF MInv

-----------------------------------------------------------------------------
(* The steps of the accounts. *)

(* A slot whose request changes holds one of theirs, or none. *)
Theirs ==
    /\ slips \subseteq slips' /\ DOMAIN req' = Slots
    /\ \A s \in Slots : req'[s] = req[s] \/ req'[s].op \in {"register", "patch", "free"}

LEMMA RegistrationStep ==
    ASSUME MInv, NEW q \in Slots,
           FindOrg(q) \/ InsertOrg(q) \/ CreateUser(q) \/ ConsumeInvite(q)
    PROVE  MInv' /\ Theirs
<1>1. req[q].op = "register" /\ q \in Regs /\ req[q] \in Registers /\ DOMAIN req = Slots
  BY DEF FindOrg, InsertOrg, CreateUser, ConsumeInvite, At, MInv, Base, Regs
<1>2. ASSUME NEW at, Goto(q, at)
      PROVE  Elsewhere(q) /\ req'[q].op = "register"
  <2>1. req'[q] = [req[q] EXCEPT !.at = at] /\ Elsewhere(q)
    BY <1>1, <1>2, SlotWrites
  <2>2. QED
    BY <1>1, <2>1 DEF Registers
<1>3. Done(q) => Elsewhere(q) /\ req'[q].op = "free"
  BY <1>1, SlotWrites, FreeIsNone
<1>4. (Done(q) \/ \E at : Goto(q, at)) /\ UNCHANGED slips
  BY DEF FindOrg, InsertOrg, CreateUser, ConsumeInvite
<1>5. Theirs
  BY <1>2, <1>3, <1>4 DEF Theirs, Elsewhere
<1>6. ASSUME NEW at \in {"insertOrg", "create"}, Goto(q, at), req[q].at # "mark",
             UNCHANGED <<role, banned, via, invites, slips>>
      PROVE  MInv'
  BY <1>1, <1>6, RegistrationGoesOn
<1>7. CASE FindOrg(q) \/ InsertOrg(q)
  <2>1. req[q].at # "mark" /\ UNCHANGED <<role, banned, via, invites, slips>>
    BY <1>7 DEF FindOrg, InsertOrg, At, memberVars
  <2>2. CASE \E at \in {"insertOrg", "create"} : Goto(q, at)
    BY <1>5, <1>6, <2>1, <2>2
  <2>3. CASE Done(q)
    <3>1. Framed
      BY <1>3, <1>5, <2>1, <2>3 DEF Framed, Theirs, Elsewhere
    <3>2. QED
      BY <1>5, <3>1, FramedKeepsMInv
  <2>4. QED
    BY <1>7, <2>2, <2>3 DEF FindOrg, InsertOrg
<1>8. CreateUser(q) \/ ConsumeInvite(q) => MInv'
  BY CreateUserKeepsMInv, ConsumeInviteKeepsMInv
<1>9. QED
  BY <1>5, <1>7, <1>8

LEMMA PatchStep ==
    ASSUME MInv, NEW q \in Slots,
           \/ CountFor(q, "countRole", "setRole") \/ CountFor(q, "countBan", "setBan")
           \/ SetUserRole(q) \/ SetUserBanned(q)
    PROVE  MInv' /\ Theirs
<1>1. req[q].op = "patch" /\ req[q] \in Patches /\ DOMAIN req = Slots
  BY DEF CountFor, SetUserRole, SetUserBanned, At, MInv, Base, Pats
<1>2. ASSUME NEW at, Goto(q, at)
      PROVE  Elsewhere(q) /\ req'[q].op = "patch"
  <2>1. req'[q] = [req[q] EXCEPT !.at = at] /\ Elsewhere(q)
    BY <1>1, <1>2, SlotWrites
  <2>2. QED
    BY <1>1, <2>1 DEF Patches
<1>3. ASSUME NEW at, req' = [req EXCEPT ![q].at = at, ![q].want = "keep"]
      PROVE  Elsewhere(q) /\ req'[q].op = "patch"
  <2>1. req'[q] = [req[q] EXCEPT !.at = at, !.want = "keep"] /\ Elsewhere(q)
    BY <1>1, <1>3 DEF Elsewhere
  <2>2. QED
    BY <1>1, <2>1 DEF Patches
<1>4. Done(q) => Elsewhere(q) /\ req'[q].op = "free"
  BY <1>1, SlotWrites, FreeIsNone
<1>5. /\ \/ Done(q) \/ \E at : Goto(q, at)
         \/ \E at : req' = [req EXCEPT ![q].at = at, ![q].want = "keep"]
      /\ UNCHANGED slips
  BY DEF CountFor, SetUserRole, SetUserBanned
<1>6. Theirs
  BY <1>2, <1>3, <1>4, <1>5 DEF Theirs, Elsewhere
<1>7. CASE CountFor(q, "countRole", "setRole")
  BY <1>6, <1>7, CountForKeepsMInv
<1>8. CASE CountFor(q, "countBan", "setBan")
  BY <1>6, <1>8, CountForKeepsMInv
<1>9. QED
  BY <1>6, <1>7, <1>8, SetUserRoleKeepsMInv, SetUserBannedKeepsMInv

LEMMA NextKeepsMInv == MInv /\ Next => MInv' /\ Theirs
<1> SUFFICES ASSUME MInv, Next PROVE MInv' /\ Theirs
  OBVIOUS
<1>1. DOMAIN req = Slots
  BY DEF MInv, Base
<1>2. ASSUME NEW i \in Invites, EndInvite(i) \/ \E r \in {"member", "admin"} : CreateInvite(i, r)
      PROVE  MInv' /\ Theirs
  <2>1. UNCHANGED <<req, slips>>
    BY <1>2 DEF EndInvite, CreateInvite
  <2>2. Theirs
    BY <1>1, <2>1 DEF Theirs
  <2>3. QED
    BY <1>2, <2>2, InviteKeepsMInv
<1>3. ASSUME NEW q \in Slots, NEW u \in Users, NEW c \in Invites \cup {"no code"}, Register(q, u, c)
      PROVE  MInv' /\ Theirs
  <2>1. PICK n : Begin(q, n) /\ n.op = "register" /\ slips \subseteq slips'
    BY <1>3 DEF Register
  <2>2. req'[q] = n /\ Elsewhere(q)
    BY <1>1, <2>1, SlotWrites
  <2>3. Theirs
    BY <2>1, <2>2 DEF Theirs, Elsewhere
  <2>4. QED
    BY <1>3, <2>3, RegisterKeepsMInv
<1>4. ASSUME NEW q \in Slots, NEW self \in BOOLEAN, NEW u \in Users, NEW a \in Asks,
             PatchMember(q, self, u, a[1], a[2])
      PROVE  MInv' /\ Theirs
  <2>1. PICK n : Begin(q, n) /\ n.op = "patch" /\ slips \subseteq slips'
    BY <1>4 DEF PatchMember
  <2>2. req'[q] = n /\ Elsewhere(q)
    BY <1>1, <2>1, SlotWrites
  <2>3. Theirs
    BY <2>1, <2>2 DEF Theirs, Elsewhere
  <2>4. QED
    BY <1>4, <2>3, PatchMemberKeepsMInv
<1>5. ASSUME NEW q \in Slots, Stop(q)
      PROVE  MInv' /\ Theirs
  <2>1. req'[q].op = "free" /\ Elsewhere(q) /\ slips \subseteq slips'
    BY <1>1, <1>5, SlotWrites, FreeIsNone DEF Stop
  <2>2. Theirs
    BY <2>1 DEF Theirs, Elsewhere
  <2>3. QED
    BY <1>5, <2>2, StopKeepsMInv
<1>6. QED
  BY <1>2, <1>3, <1>4, <1>5, RegistrationStep, PatchStep DEF Next

-----------------------------------------------------------------------------
(* The steps of the catalogue. *)

(* A step that neither runs the schedule nor stamps, and ends an import of *)
(* the schedule only by failing it.                                        *)
LEMMA QuietKeepsFreshInv ==
    ASSUME FreshInv, UNCHANGED <<last, stamp, checked, age>>, slips \subseteq slips',
           Scheduled => Scheduled' \/ Failed'
    PROVE  FreshInv'
<1>1. Failed => Failed'
  BY DEF Failed
<1>2. QED
  BY <1>1 DEF FreshInv, Since

(* What a step does to the slot of an import or of a Steam app: it starts, *)
(* goes on, or ends, an import of the schedule only with the step's leave. *)
Ours(q) ==
    /\ UNCHANGED memberVars /\ slips \subseteq slips' /\ Elsewhere(q)
    /\ req[q].op \in {"free", "import", "steam"}
    /\ \/ req'[q].op = "free"
       \/ /\ req'[q].op \in {"import", "steam"} /\ {"op", "at"} \subseteq DOMAIN req'[q]
          /\ req'[q].op = "import" => "auto" \in DOMAIN req'[q] /\ req'[q].auto \in BOOLEAN

LEMMA OursKeepsMInv ==
    ASSUME MInv, Shapes, NEW q \in Slots, Ours(q)
    PROVE  MInv' /\ Shapes'
<1>1. Framed
  BY DEF Framed, memberVars, Ours, Elsewhere
<1>2. Shapes'
  BY DEF Shapes, Ours, Elsewhere
<1>3. QED
  BY <1>1, <1>2, FramedKeepsMInv

(* A request that goes on. *)
LEMMA GoesOn ==
    ASSUME MInv, Shapes, NEW q \in Slots, req[q].op \in {"import", "steam"}, NEW new,
           req' = [req EXCEPT ![q] = new], DOMAIN new = DOMAIN req[q], new.op = req[q].op,
           req[q].op = "import" => new.auto = req[q].auto,
           UNCHANGED memberVars, slips \subseteq slips'
    PROVE  Ours(q) /\ (Scheduled => Scheduled')
<1>1. req'[q] = new /\ Elsewhere(q)
  BY DEF MInv, Base, Elsewhere
<1>2. Ours(q)
  BY <1>1 DEF Ours, Shapes
<1>3. Scheduled => Scheduled'
  BY <1>1 DEF Scheduled, Elsewhere
<1>4. QED
  BY <1>2, <1>3

LEMMA QuietStepKeepsCatInv ==
    ASSUME CatInv, NEW q \in Slots,
           \/ SyncGames(q) \/ FetchSeed(q) \/ ReadSlugs(q) \/ ImportFails(q)
           \/ Importing(q) /\ \E s \in req[q].left : UpsertGame(q, s)
           \/ \E a \in Library : SyncApp(q, a)
           \/ AdoptSteamGame(q) \/ InsertSteamGame(q)
    PROVE  CatInv'
<1> SUFFICES Ours(q) /\ (Scheduled => Scheduled' \/ Failed')
             /\ UNCHANGED <<last, stamp, checked, age>>
  BY OursKeepsMInv, QuietKeepsFreshInv DEF CatInv, Ours
<1> USE DEF CatInv
<1>1. UNCHANGED <<last, stamp, checked, age>> /\ UNCHANGED memberVars /\ slips \subseteq slips'
  BY DEF SyncGames, BeginImport, FetchSeed, ReadSlugs, ImportFails, UpsertGame, SyncApp,
         AdoptSteamGame, InsertSteamGame, catVars
<1>2. DOMAIN req = Slots
  BY DEF MInv, Base
<1>3. ASSUME NEW n, Begin(q, n), n.op \in {"import", "steam"}, {"op", "at"} \subseteq DOMAIN n,
             n.op = "import" => "auto" \in DOMAIN n /\ n.auto \in BOOLEAN
      PROVE  Ours(q) /\ (Scheduled => Scheduled')
  <2>1. req[q].op = "free" /\ req'[q] = n /\ Elsewhere(q)
    BY <1>2, <1>3, SlotWrites, FreeIsNone
  <2>2. QED
    BY <1>1, <1>3, <2>1 DEF Ours, Scheduled, Elsewhere
<1>4. ASSUME Done(q), req[q].op \in {"import", "steam"}, req[q].op = "import" => Failed'
      PROVE  Ours(q) /\ (Scheduled => Scheduled' \/ Failed')
  <2>1. req'[q].op = "free" /\ Elsewhere(q)
    BY <1>2, <1>4, SlotWrites, FreeIsNone
  <2>2. QED
    BY <1>1, <1>4, <2>1 DEF Ours, Scheduled, Elsewhere
<1>5. CASE SyncGames(q)
  <2> DEFINE n == [op |-> "import", at |-> "fetch", auto |-> FALSE, seeds |-> {}, left |-> {},
                   byApp |-> {}, taken |-> {}]
  <2>1. Begin(q, n)
    BY <1>5 DEF SyncGames, BeginImport
  <2>2. /\ n.op = "import" /\ n.auto = FALSE
        /\ DOMAIN n = {"op", "at", "auto", "seeds", "left", "byApp", "taken"}
    OBVIOUS
  <2> HIDE DEF n
  <2>3. QED
    BY <1>1, <1>3, <2>1, <2>2
<1>6. CASE FetchSeed(q)
  <2> DEFINE n == [req[q] EXCEPT !.at = "read", !.seeds = Normalize, !.left = Normalize]
  <2>1. req' = [req EXCEPT ![q] = n] /\ req[q].op = "import"
    BY <1>6 DEF FetchSeed, At
  <2>2. DOMAIN n = DOMAIN req[q] /\ n.op = req[q].op /\ n.auto = req[q].auto
    BY <2>1 DEF Shapes
  <2> HIDE DEF n
  <2>3. QED
    BY <1>1, <2>1, <2>2, GoesOn
<1>7. CASE ReadSlugs(q)
  <2>1. PICK b, c :
          req' = [req EXCEPT ![q] = [req[q] EXCEPT !.at = "write", !.byApp = b, !.taken = c]]
    BY <1>7 DEF ReadSlugs
  <2> DEFINE n == [req[q] EXCEPT !.at = "write", !.byApp = b, !.taken = c]
  <2>2. req[q].op = "import"
    BY <1>7 DEF ReadSlugs, At
  <2>3. DOMAIN n = DOMAIN req[q] /\ n.op = req[q].op /\ n.auto = req[q].auto
    BY <2>2 DEF Shapes
  <2> HIDE DEF n
  <2>4. QED
    BY <1>1, <2>1, <2>2, <2>3, GoesOn DEF n
<1>8. CASE ImportFails(q)
  BY <1>1, <1>4, <1>8 DEF ImportFails, Importing, Failed
<1>9. ASSUME NEW s \in req[q].left, UpsertGame(q, s)
      PROVE  Ours(q) /\ (Scheduled => Scheduled' \/ Failed')
  <2>1. req[q].op = "import"
    BY <1>9 DEF UpsertGame, At
  <2>2. CASE Done(q) /\ slips' = slips \cup {<<"refused">>}
    BY <1>1, <1>4, <2>1, <2>2 DEF Failed
  <2>3. CASE req' = [req EXCEPT ![q] = Assigned(req[q], s)]
    <3> DEFINE n == Assigned(req[q], s)
    <3>1. DOMAIN n = DOMAIN req[q] /\ n.op = req[q].op /\ n.auto = req[q].auto
      BY <2>1 DEF Shapes, Assigned
    <3> HIDE DEF n
    <3>2. req' = [req EXCEPT ![q] = n]
      BY <2>3 DEF n
    <3>3. QED
      BY <1>1, <2>1, <3>1, <3>2, GoesOn
  <2>4. QED
    BY <1>9, <2>2, <2>3 DEF UpsertGame
<1>10. ASSUME NEW a \in Library, SyncApp(q, a)
       PROVE  Ours(q) /\ (Scheduled => Scheduled')
  <2> DEFINE n == [op |-> "steam", at |-> "adopt", app |-> a]
  <2>1. Begin(q, n)
    BY <1>10 DEF SyncApp
  <2>2. n.op = "steam" /\ DOMAIN n = {"op", "at", "app"}
    OBVIOUS
  <2> HIDE DEF n
  <2>3. QED
    BY <1>1, <1>3, <2>1, <2>2
<1>11. CASE AdoptSteamGame(q)
  <2>1. req[q].op = "steam"
    BY <1>11 DEF AdoptSteamGame, At
  <2>2. CASE Goto(q, "insert")
    <3> DEFINE n == [req[q] EXCEPT !.at = "insert"]
    <3>1. DOMAIN n = DOMAIN req[q] /\ n.op = req[q].op
      BY <2>1 DEF Shapes
    <3>2. req' = [req EXCEPT ![q] = n]
      BY <2>2 DEF Goto
    <3> HIDE DEF n
    <3>3. QED
      BY <1>1, <2>1, <3>1, <3>2, GoesOn
  <2>3. CASE Done(q)
    BY <1>1, <1>4, <2>1, <2>3
  <2>4. QED
    BY <1>11, <2>2, <2>3 DEF AdoptSteamGame
<1>12. CASE InsertSteamGame(q)
  BY <1>4, <1>12 DEF InsertSteamGame, At
<1>13. QED
  BY <1>1, <1>5, <1>6, <1>7, <1>8, <1>9, <1>10, <1>11, <1>12

(* The check of a period: an import of the schedule starts, or none is due, *)
(* or a read failed.                                                       *)
LEMMA CheckKeepsCatInv ==
    ASSUME CatInv, NEW q \in Slots, Check(q)
    PROVE  CatInv'
<1> USE DEF CatInv
<1> DEFINE n == [op |-> "import", at |-> "fetch", auto |-> TRUE, seeds |-> {}, left |-> {},
                 byApp |-> {}, taken |-> {}]
<1>1. /\ n.op = "import" /\ n.auto = TRUE
      /\ DOMAIN n = {"op", "at", "auto", "seeds", "left", "byApp", "taken"}
  OBVIOUS
<1>2. UNCHANGED memberVars /\ UNCHANGED <<last, stamp, age>> /\ checked' = TRUE
      /\ slips \subseteq slips' /\ DOMAIN req = Slots
  BY DEF Check, BeginImport, MInv, Base
<1>3. Begin(q, n) \/ (UNCHANGED req /\ (Reason(TRUE, TRUE) => Failed'))
  <2>1. PICK counted, read \in BOOLEAN :
          IF Reason(counted, read) THEN BeginImport(q, TRUE)
          ELSE /\ UNCHANGED req
               /\ slips' = IF Reason(TRUE, TRUE) THEN slips \cup {<<"failed">>} ELSE slips
    BY DEF Check
  <2>2. CASE Reason(counted, read)
    <3>1. BeginImport(q, TRUE)
      BY <2>1, <2>2
    <3>2. QED
      BY <3>1 DEF BeginImport
  <2>3. CASE ~Reason(counted, read)
    BY <2>1, <2>3 DEF Failed
  <2>4. QED
    BY <2>2, <2>3
<1> HIDE DEF n
<1>4. CASE Begin(q, n)
  <2>1. req[q].op = "free" /\ req'[q] = n /\ Elsewhere(q)
    BY <1>2, <1>4, SlotWrites, FreeIsNone
  <2>2. Ours(q) /\ Scheduled'
    BY <1>1, <1>2, <2>1 DEF Ours, Scheduled
  <2>3. FreshInv'
    BY <1>2, <2>2 DEF FreshInv, Since, Failed
  <2>4. QED
    BY <2>2, <2>3, OursKeepsMInv
<1>5. CASE UNCHANGED req /\ (Reason(TRUE, TRUE) => Failed')
  <2>1. Framed
    BY <1>2, <1>5 DEF Framed, memberVars
  <2>2. Shapes'
    BY <1>5 DEF Shapes
  <2>3. ~Reason(TRUE, TRUE) => age < Week
    BY CatalogueAssumption DEF Reason, Old, FreshInv, Since, Never
  <2>4. FreshInv'
    BY <1>2, <1>5, <2>3 DEF FreshInv, Since, Failed
  <2>5. QED
    BY <2>1, <2>2, <2>4, FramedKeepsMInv
<1>6. QED
  BY <1>3, <1>4, <1>5

LEMMA StampKeepsCatInv ==
    ASSUME CatInv, NEW q \in Slots, Stamp(q)
    PROVE  CatInv'
<1> USE DEF CatInv
<1>1. /\ req[q].op = "import" /\ Done(q) /\ UNCHANGED <<memberVars, slips, checked>>
      /\ age' = 0 /\ last' \in {last, 0} /\ stamp' \in {stamp, 0} /\ DOMAIN req = Slots
  BY DEF Stamp, At, MInv, Base
<1>2. req'[q].op = "free" /\ Elsewhere(q)
  BY <1>1, SlotWrites, FreeIsNone
<1>3. Ours(q)
  BY <1>1, <1>2 DEF Ours
<1>4. FreshInv'
  BY <1>1, CatalogueAssumption DEF FreshInv, Since, Never
<1>5. QED
  BY <1>3, <1>4, OursKeepsMInv

(* The clock, the process and Discord. *)
LEMMA OutsideKeepsCatInv ==
    ASSUME CatInv, Elapse \/ Restart \/ Publish
    PROVE  CatInv'
<1> USE DEF CatInv
<1>1. UNCHANGED <<memberVars, req, slips>> /\ DOMAIN req = Slots
  BY DEF Elapse, Restart, Publish, MInv, Base
<1>2. Framed
  BY <1>1 DEF Framed, memberVars
<1>3. Shapes'
  BY <1>1 DEF Shapes
<1>4. FreshInv'
  <2>1. CASE Elapse
    <3> DEFINE Older(x) == IF x = Never \/ x > Week THEN x ELSE x + 1
    <3>1. checked /\ checked' = FALSE /\ ~Scheduled
      BY <2>1 DEF Elapse, Scheduled, Importing
    <3>2. last' = Older(last) /\ stamp' = Older(stamp) /\ age' = Older(age)
      BY <2>1 DEF Elapse
    <3>3. Failed \/ age < Week
      BY <3>1 DEF FreshInv
    <3>4. Failed' <=> Failed
      BY <1>1 DEF Failed
    <3>5. age' \in 0 .. Week + 1 /\ (age < Week => age' <= Week)
      BY <3>2, CatalogueAssumption DEF FreshInv, Never
    <3>6. Since(last)' /\ Since(stamp)'
      BY <3>2, CatalogueAssumption DEF FreshInv, Since, Never
    <3>7. Failed' \/ age' < Week \/ age' = Week
      BY <3>3, <3>4, <3>5, CatalogueAssumption
    <3>8. QED
      BY <3>1, <3>5, <3>6, <3>7 DEF FreshInv
  <2>2. CASE Restart
    BY <1>1, <2>2 DEF Restart, FreshInv, Since, Never, Failed
  <2>3. CASE Publish
    BY <1>1, <2>3, QuietKeepsFreshInv DEF Publish, Scheduled
  <2>4. QED
    BY <2>1, <2>2, <2>3
<1>5. QED
  BY <1>2, <1>3, <1>4, FramedKeepsMInv

(* The schedule's import is none of the accounts' business. *)
LEMMA MemberStepKeepsCatInv == CatInv /\ MemberStep => CatInv'
<1> SUFFICES ASSUME CatInv, MemberStep PROVE CatInv'
  OBVIOUS
<1> USE DEF CatInv
<1>1. /\ MInv' /\ Theirs /\ UNCHANGED <<last, stamp, checked, age>>
      /\ \A q \in Slots : req[q].op \in {"import", "steam"} => req'[q] = req[q]
  BY NextKeepsMInv DEF MemberStep, catVars
<1>2. Shapes'
  BY <1>1 DEF Shapes, Theirs
<1>3. Scheduled => Scheduled'
  BY <1>1 DEF Scheduled
<1>4. FreshInv'
  BY <1>1, <1>3, QuietKeepsFreshInv DEF Theirs
<1>5. QED
  BY <1>1, <1>2, <1>4

-----------------------------------------------------------------------------
LEMMA InitCatInv == CatInit => CatInv
<1> SUFFICES ASSUME CatInit PROVE CatInv
  OBVIOUS
<1>1. Init
  BY DEF CatInit
<1>2. Regs = {} /\ Pats = {} /\ \A q \in Slots : req[q].op = "free"
  BY <1>1, FreeIsNone DEF Init, Regs, Pats
<1>3. Base
  BY <1>1, <1>2 DEF Init, Base
<1>4. AdminInv
  BY <1>1, <1>2 DEF Init, AdminInv, Active
<1>5. Seats
  BY <1>1, <1>2, InvitesAssumption DEF Init, Seats, SeatInv
<1>6. Shapes
  BY <1>2 DEF Shapes
<1>7. FreshInv
  <2>1. age = 0 /\ checked = FALSE /\ last = Never /\ stamp = Never
    BY DEF CatInit
  <2>2. Since(last) /\ Since(stamp)
    BY <2>1 DEF Since
  <2>3. age \in 0 .. Week + 1 /\ age < Week
    BY <2>1, CatalogueAssumption
  <2>4. QED
    BY <2>1, <2>2, <2>3 DEF FreshInv
<1>8. QED
  BY <1>3, <1>4, <1>5, <1>6, <1>7 DEF CatInv, MInv

LEMMA Invariance == CatSpec => []CatInv
<1>1. CatInv /\ [CatNext]_allVars => CatInv'
  <2> SUFFICES ASSUME CatInv, [CatNext]_allVars PROVE CatInv'
    OBVIOUS
  <2>1. CASE UNCHANGED allVars
    <3>1. UNCHANGED <<memberVars, req, slips>> /\ UNCHANGED <<last, stamp, checked, age>>
      BY <2>1 DEF allVars, vars, catVars
    <3>2. Framed /\ Shapes' /\ (Scheduled => Scheduled')
      BY <3>1 DEF Framed, memberVars, Shapes, Scheduled, CatInv, MInv, Base
    <3>3. QED
      BY <3>1, <3>2, FramedKeepsMInv, QuietKeepsFreshInv DEF CatInv
  <2>2. ASSUME NEW q \in Slots, CatStep(q)
        PROVE  CatInv'
    BY <2>2, QuietStepKeepsCatInv, CheckKeepsCatInv, StampKeepsCatInv DEF CatStep
  <2>3. QED
    BY <2>1, <2>2, MemberStepKeepsCatInv, OutsideKeepsCatInv DEF CatNext
<1>2. QED
  BY <1>1, InitCatInv, PTL DEF CatSpec

(* An instance with accounts keeps an admin who is not banned, unless two   *)
(* patches of patchMember overlapped: however many admins there are, and    *)
(* whatever each of them patches, themselves included.                     *)
THEOREM AdminStays == CatSpec => []AdminRemains
<1>1. CatInv => AdminRemains
  BY DEF CatInv, MInv, AdminInv, AdminRemains, Active
<1>2. QED
  BY <1>1, Invariance, PTL

(* An invite, and the emptiness of a new instance, seat one account each,  *)
(* unless two of their registrations overlapped or one stopped before it   *)
(* reached MarkInviteUsed: however many codes and requests there are.      *)
THEOREM OneSeat == CatSpec => []OneSeatEach
<1>1. CatInv => OneSeatEach
  <2> SUFFICES ASSUME CatInv, NEW v \in Invites \cup {"bootstrap"},
                      {<<"register", v>>, <<"unmarked", v>>} \cap slips = {}
               PROVE  Cardinality({u \in Users : via[u] = v}) <= 1
    BY DEF OneSeatEach
  <2>1. \A u, w \in Users : via[u] = v /\ via[w] = v => u = w
    BY DEF CatInv, MInv, Seats, SeatInv
  <2>2. CASE {u \in Users : via[u] = v} = {}
    BY <2>2, FS_EmptySet
  <2>3. CASE \E u \in Users : via[u] = v
    <3>1. PICK u \in Users : via[u] = v
      BY <2>3
    <3>2. {w \in Users : via[w] = v} = {u}
      BY <2>1, <3>1
    <3>3. QED
      BY <3>2, FS_Singleton
  <2>4. QED
    BY <2>2, <2>3
<1>2. QED
  BY <1>1, Invariance, PTL

(* The catalogue is never older than a week and a check, unless a call     *)
(* failed or an import was refused: restarts, which forget the time of the *)
(* last import, and a missing row of the organisation, which forgets the   *)
(* stamp, only make checkCatalog import sooner.                            *)
THEOREM Fresh == CatSpec => []StaysFresh
<1>1. CatInv => StaysFresh
  BY CatalogueAssumption DEF CatInv, FreshInv, Failed, StaysFresh
<1>2. QED
  BY <1>1, Invariance, PTL

-----------------------------------------------------------------------------
(* What an import leaves.                                                  *)

(* What Discord publishes, as far as it matters here: an application has   *)
(* its own id, and the file of a game that ships none (ExtraExecutables)   *)
(* is no other game's.                                                     *)
ExtraExe == "vampire crawlers.exe"

OwnsExtra(a) == a.slug = "vampire-crawlers" \/ \E e \in a.exes : Basename(e.path) = ExtraExe

ListsSound ==
    \A L \in Lists :
        /\ IsFiniteSet(L)
        /\ \A a, b \in L : a.id = b.id => a = b
        /\ \A a \in L : a.id # NoApp
        /\ \A a \in L : \A e \in a.exes : e.path \in Seq(STRING)
        /\ \A a, b \in L : OwnsExtra(a) /\ OwnsExtra(b) => a = b

(* A list of seeds: one per application, and no entry, nor any process     *)
(* whose bare name is one, in more of them than may share a name.          *)
SeedsOk(S) ==
    /\ IsFiniteSet(S)
    /\ \A s, t \in S : s.app = t.app => s = t
    /\ \A s \in S : s.app # NoApp
    /\ \A path \in Running :
          /\ \A x \in Suffixes(path) : Cardinality(Carrying(S, x)) <= MaxShared
          /\ Carrying(S, <<Basename(path)>>) # {} => Cardinality(Detected(S, path)) <= MaxShared

(* One row per slug and per application; a slug with an id is its owner's. *)
RowsInv ==
    /\ \A g \in games : DOMAIN g = {"app", "slug", "steam", "exes"}
    /\ \A g, h \in games : g.slug = h.slug => g = h
    /\ \A g, h \in games : g.app = h.app /\ g.app # NoApp => g = h
    /\ \A g \in games : Len(g.slug) = 2 => g.slug[2] = g.app

Overlapped == <<"imports">> \in slips

(* What an import holds in memory is still so in the table, as far as      *)
(* nobody else wrote to it meanwhile.                                      *)
HasRow(app) == \E g \in games : g.app = app

SlugsTaken(r) == \A g \in games : g.slug \in r.taken

LandedSeeds(r) == \A s \in r.seeds \ r.left : \E g \in games : g.app = s.app /\ g.exes = s.exes

ImportInv(q) ==
    LET r == req[q] IN
    /\ DOMAIN r = {"op", "at", "auto", "seeds", "left", "byApp", "taken"}
    /\ r.at \in {"fetch", "read", "write"}
    /\ r.at # "fetch" => SeedsOk(r.seeds) /\ r.left \subseteq r.seeds
    /\ r.at = "read" => r.left = r.seeds
    /\ r.at = "write" => /\ \A b \in r.byApp : HasRow(b.app)
                         /\ ~Overlapped => LandedSeeds(r)
                         /\ ~Overlapped /\ <<"inserted">> \notin slips => SlugsTaken(r)

LandInv ==
    /\ list \in Lists
    /\ RowsInv
    /\ \A q \in Slots : Importing(q) => ImportInv(q)
    /\ ~Overlapped => \A p, q \in Slots : Importing(p) /\ Importing(q) => p = q
    /\ <<"refused">> \in slips => {<<"imports">>, <<"inserted">>} \cap slips # {}

-----------------------------------------------------------------------------
(* The seeds. *)

LEMMA Fewer ==
    ASSUME NEW D, NEW A, IsFiniteSet(A), NEW f \in [D -> A],
           \A x, y \in D : f[x] = f[y] => x = y
    PROVE  IsFiniteSet(D) /\ Cardinality(D) <= Cardinality(A)
<1>1. f \in Injection(D, A)
  BY Fun_IsInj
<1>2. QED
  BY <1>1, FS_Injection

LEMMA AtMostOne ==
    ASSUME NEW D, \A x, y \in D : x = y
    PROVE  IsFiniteSet(D) /\ Cardinality(D) \in {0, 1}
<1>1. CASE D = {}
  BY <1>1, FS_EmptySet
<1>2. CASE D # {}
  <2>1. PICK x \in D : TRUE
    BY <1>2
  <2>2. D = {x}
    BY <2>1
  <2>3. QED
    BY <2>2, FS_Singleton
<1>3. QED
  BY <1>1, <1>2

(* Where an entry comes from: a bare name that is usable, or curated, or a *)
(* path whose name is not.                                                 *)
LEMMA EntryOf ==
    ASSUME NEW a \in list, NEW x \in Entries(a)
    PROVE  \/ /\ x = <<Basename(x)>>
              /\ \/ Basename(x) = ExtraExe /\ OwnsExtra(a)
                 \/ UsableBasename(Basename(x)) /\ \E p \in Executables(a) : Basename(p) = Basename(x)
           \/ /\ Len(x) > 1 /\ x \in Executables(a)
              /\ ~UsableBasename(Basename(x)) /\ QFreq(x) <= MaxShared
<1> DEFINE E == {p \in Executables(a) : Basename(p) \notin WrongExecutables(a.slug)}
           plain == {p \in E : UsableBasename(Basename(p))}
           paths == UNION {Pattern(p) : p \in {y \in E \ plain : Basename(y) \notin NeverDetect}}
<1>1. Entries(a) = {<<Basename(p)>> : p \in plain} \cup {p \in paths : QFreq(p) <= MaxShared}
                     \cup {<<y>> : y \in ExtraExecutables(a.slug)}
  BY DEF Entries
<1>2. \A y : <<y>> = <<Basename(<<y>>)>> /\ Basename(<<y>>) = y
  BY DEF Basename
<1>3. CASE x \in paths /\ QFreq(x) <= MaxShared
  <2>1. PICK p \in E \ plain : x \in Pattern(p)
    BY <1>3
  <2>2. x = p /\ Len(x) > 1
    BY <2>1 DEF Pattern
  <2>3. QED
    BY <1>3, <2>1, <2>2
<1>4. ASSUME NEW p \in plain, x = <<Basename(p)>>
      PROVE  x = <<Basename(x)>> /\ UsableBasename(Basename(x)) /\ \E r \in Executables(a) : Basename(r) = Basename(x)
  <2>1. x = <<Basename(x)>> /\ Basename(x) = Basename(p)
    BY <1>2, <1>4
  <2>2. QED
    BY <2>1
<1>5. ASSUME NEW y \in ExtraExecutables(a.slug), x = <<y>>
      PROVE  x = <<Basename(x)>> /\ Basename(x) = ExtraExe /\ OwnsExtra(a)
  <2>1. y = ExtraExe /\ OwnsExtra(a)
    BY DEF ExtraExecutables, ExtraExe, OwnsExtra
  <2>2. x = <<Basename(x)>> /\ Basename(x) = y
    BY <1>2, <1>5
  <2>3. QED
    BY <2>1, <2>2
<1> HIDE DEF plain, paths
<1>6. QED
  BY <1>1, <1>3, <1>4, <1>5

(* The curated file is one game's at most, so its name is usable. *)
LEMMA ExtraUsable ==
    ASSUME ListsSound, list \in Lists, MaxShared # 0
    PROVE  UsableBasename(ExtraExe)
<1> DEFINE D == {a \in list : \E p \in Executables(a) : Basename(p) = ExtraExe}
<1>1. \A a \in D : a \in list /\ OwnsExtra(a)
  BY DEF Executables, OwnsExtra
<1>2. \A a, b \in D : a = b
  BY <1>1 DEF ListsSound
<1>3. Cardinality(D) \in {0, 1}
  BY <1>2, AtMostOne
<1>4. Freq(ExtraExe) <= MaxShared
  BY <1>3, CatalogueAssumption DEF Freq
<1>5. ExtraExe \notin NeverDetect \cup AmbiguousExecutables \cup TooShort
  BY DEF ExtraExe, NeverDetect, AmbiguousExecutables, TooShort
<1>6. QED
  BY <1>4, <1>5 DEF UsableBasename

LEMMA SuffixBase ==
    ASSUME NEW path \in Seq(STRING), NEW x \in Suffixes(path)
    PROVE  Basename(x) = Basename(path)
<1>1. PICK k \in 1..Len(path) : x = SubSeq(path, k, Len(path))
  BY DEF Suffixes
<1>2. Len(path) \in Nat /\ Len(x) = Len(path) - k + 1 /\ Len(x) \in 1..Len(path)
  BY <1>1
<1>3. x[Len(x)] = path[k + Len(x) - 1]
  BY <1>1, <1>2
<1>4. k + Len(x) - 1 = Len(path)
  BY <1>2
<1>5. QED
  BY <1>3, <1>4 DEF Basename

(* The applications behind some seeds are as many as the seeds.            *)
LEMMA SeedsFrom ==
    ASSUME NEW D \in SUBSET Normalize, NEW A \in SUBSET list, IsFiniteSet(list),
           \A s \in D, a \in list : s.app = a.id /\ s.exes = Entries(a) => a \in A,
           \A a, b \in list : a.id = b.id => a = b
    PROVE  IsFiniteSet(D) /\ Cardinality(D) <= Cardinality(A)
<1>1. ASSUME NEW s \in D
      PROVE  \E a \in A : s.app = a.id /\ s = [app |-> a.id, slug |-> a.slug, steam |-> a.steam,
                                               exes |-> Entries(a)]
  BY DEF Normalize
<1> DEFINE f == [s \in D |-> CHOOSE a \in A : s.app = a.id
                               /\ s = [app |-> a.id, slug |-> a.slug, steam |-> a.steam,
                                       exes |-> Entries(a)]]
<1>2. ASSUME NEW s \in D
      PROVE  /\ f[s] \in A
             /\ s = [app |-> f[s].id, slug |-> f[s].slug, steam |-> f[s].steam,
                     exes |-> Entries(f[s])]
  BY <1>1
<1>3. f \in [D -> A]
  BY <1>2
<1>4. \A s, t \in D : f[s] = f[t] => s = t
  BY <1>2
<1>5. IsFiniteSet(A)
  BY FS_Subset
<1> HIDE DEF f
<1>6. QED
  BY <1>3, <1>4, <1>5, Fewer

LEMMA NormalizeOk ==
    ASSUME ListsSound, list \in Lists, MaxShared # 0
    PROVE  SeedsOk(Normalize)
<1>1. /\ IsFiniteSet(list)
      /\ \A a, b \in list : a.id = b.id => a = b
      /\ \A a \in list : a.id # NoApp
      /\ \A a, b \in list : OwnsExtra(a) /\ OwnsExtra(b) => a = b
  BY DEF ListsSound
<1>2. ASSUME NEW s \in Normalize
      PROVE  \E a \in list : /\ s = [app |-> a.id, slug |-> a.slug, steam |-> a.steam,
                                     exes |-> Entries(a)]
                             /\ s.app = a.id /\ s.exes = Entries(a)
  BY DEF Normalize
<1>3. \A s, t \in Normalize : s.app = t.app => s = t
  BY <1>1, <1>2
<1>4. \A s \in Normalize : s.app # NoApp
  BY <1>1, <1>2
<1>5. IsFiniteSet(Normalize)
  BY <1>1, SeedsFrom
<1>6. ASSUME NEW x PROVE Cardinality(Carrying(Normalize, x)) <= MaxShared
  <2> DEFINE D == Carrying(Normalize, x)
  <2>1. \A s \in D, a \in list : s.exes = Entries(a) => x \in Entries(a)
    BY DEF Carrying
  <2>2. IsFiniteSet(D) /\ Cardinality(D) \in Nat /\ MaxShared \in Nat /\ D \in SUBSET Normalize
    BY <1>5, FS_Subset, FS_CardinalityType, CatalogueAssumption DEF Carrying
  <2>3. CASE D = {}
    BY <2>2, <2>3, FS_EmptySet
  <2>4. CASE x = <<Basename(x)>> /\ Basename(x) = ExtraExe /\ D # {}
    <3>1. ASSUME NEW s \in D, NEW a \in list, s.exes = Entries(a) PROVE OwnsExtra(a)
      <4>1. x \in Entries(a) /\ Len(<<Basename(x)>>) = 1
        BY <2>1, <3>1
      <4>2. QED
        BY <2>4, <4>1, EntryOf DEF OwnsExtra, Executables
    <3>2. \A s, t \in D : s = t
      BY <1>1, <1>2, <2>2, <3>1
    <3>3. Cardinality(D) \in {0, 1}
      BY <3>2, AtMostOne
    <3>4. QED
      BY <2>2, <3>3
  <2>5. CASE x = <<Basename(x)>> /\ Basename(x) # ExtraExe /\ D # {}
    <3> DEFINE A == {a \in list : \E p \in Executables(a) : Basename(p) = Basename(x)}
    <3>1. ASSUME NEW s \in D, NEW a \in list, s.exes = Entries(a)
          PROVE  a \in A /\ UsableBasename(Basename(x))
      <4>1. x \in Entries(a)
        BY <2>1, <3>1
      <4>2. ~(Len(x) > 1)
        <5>1. PICK b : b = Basename(x)
          OBVIOUS
        <5>2. x = <<b>> /\ Len(<<b>>) = 1
          BY <2>5, <5>1
        <5>3. QED
          BY <5>2
      <4>3. UsableBasename(Basename(x)) /\ \E p \in Executables(a) : Basename(p) = Basename(x)
        BY <2>5, <4>1, <4>2, EntryOf
      <4>4. QED
        BY <4>3
    <3>2. Cardinality(A) <= MaxShared
      BY <1>2, <2>2, <2>5, <3>1 DEF UsableBasename, Freq
    <3>3. Cardinality(D) <= Cardinality(A) /\ Cardinality(A) \in Nat
      <4>1. A \in SUBSET list
        OBVIOUS
      <4> HIDE DEF D, A
      <4>2. QED
        BY <1>1, <2>2, <3>1, <4>1, SeedsFrom, FS_Subset, FS_CardinalityType
    <3> HIDE DEF D, A
    <3>4. QED
      BY <2>2, <3>2, <3>3 DEF D
  <2>6. CASE x # <<Basename(x)>> /\ D # {}
    <3> DEFINE A == {a \in list : \E p \in Executables(a) : x \in Pattern(p)}
    <3>1. ASSUME NEW s \in D, NEW a \in list, s.exes = Entries(a)
          PROVE  a \in A /\ QFreq(x) <= MaxShared
      <4>1. x \in Entries(a)
        BY <2>1, <3>1
      <4>2. Len(x) > 1 /\ x \in Executables(a) /\ QFreq(x) <= MaxShared
        BY <2>6, <4>1, EntryOf
      <4>3. QED
        BY <4>2 DEF Pattern
    <3>2. Cardinality(A) <= MaxShared
      BY <1>2, <2>2, <2>6, <3>1 DEF QFreq
    <3>3. Cardinality(D) <= Cardinality(A) /\ Cardinality(A) \in Nat
      <4>1. A \in SUBSET list
        OBVIOUS
      <4> HIDE DEF D, A
      <4>2. QED
        BY <1>1, <2>2, <3>1, <4>1, SeedsFrom, FS_Subset, FS_CardinalityType
    <3> HIDE DEF D, A
    <3>4. QED
      BY <2>2, <3>2, <3>3 DEF D
  <2>7. QED
    BY <2>3, <2>4, <2>5, <2>6
<1>7. ASSUME NEW path \in Running, Carrying(Normalize, <<Basename(path)>>) # {}
      PROVE  Detected(Normalize, path) \subseteq Carrying(Normalize, <<Basename(path)>>)
  <2>1. path \in Seq(STRING)
    BY <1>7 DEF Running, ListsSound
  <2>2. Basename(<<Basename(path)>>) = Basename(path) /\ Len(<<Basename(path)>>) = 1
    BY DEF Basename
  <2>3. UsableBasename(Basename(path))
    <3>1. PICK s \in Normalize : <<Basename(path)>> \in s.exes
      BY <1>7 DEF Carrying
    <3>2. PICK a \in list : s.exes = Entries(a)
      BY <1>2
    <3>3. Basename(path) = ExtraExe \/ UsableBasename(Basename(path))
      <4>1. PICK x : x = <<Basename(path)>>
        OBVIOUS
      <4>2. x \in Entries(a) /\ Basename(x) = Basename(path) /\ ~(Len(x) > 1)
        BY <2>2, <3>1, <3>2, <4>1
      <4>3. QED
        BY <4>2, EntryOf
    <3>4. QED
      BY <3>3, ExtraUsable
  <2>4. ASSUME NEW s \in Normalize, NEW x \in s.exes, x \in Suffixes(path)
        PROVE  x = <<Basename(path)>>
    <3>1. Basename(x) = Basename(path)
      BY <2>1, <2>4, SuffixBase
    <3>2. PICK a \in list : s.exes = Entries(a)
      BY <1>2
    <3>3. QED
      BY <2>3, <3>1, <3>2, EntryOf
  <2>5. QED
    BY <2>4 DEF Detected, Carrying
<1>8. ASSUME NEW path \in Running, Carrying(Normalize, <<Basename(path)>>) # {}
      PROVE  Cardinality(Detected(Normalize, path)) <= MaxShared
  <2>1. Cardinality(Carrying(Normalize, <<Basename(path)>>)) <= MaxShared
    BY <1>6
  <2>2. IsFiniteSet(Carrying(Normalize, <<Basename(path)>>))
    BY <1>5, FS_Subset DEF Carrying
  <2>3. QED
    BY <1>7, <1>8, <2>1, <2>2, FS_Subset, FS_CardinalityType, CatalogueAssumption
<1>9. QED
  BY <1>3, <1>4, <1>5, <1>6, <1>8 DEF SeedsOk

-----------------------------------------------------------------------------
(* The table. *)

LEMMA RowsRewritten ==
    ASSUME RowsInv, NEW f, games' = {f[g] : g \in games},
           \A g \in games : /\ f[g].app = g.app /\ f[g].slug = g.slug
                            /\ DOMAIN f[g] = {"app", "slug", "steam", "exes"}
    PROVE  /\ RowsInv'
           /\ \A g \in games : HasRow(g.app)'
           /\ \A h \in games' : \E g \in games : h.slug = g.slug
<1>1. \A h \in games' : \E g \in games : h = f[g] /\ h.app = g.app /\ h.slug = g.slug
  OBVIOUS
<1>2. RowsInv'
  <2>1. ASSUME NEW h \in games', NEW k \in games',
               h.slug = k.slug \/ (h.app = k.app /\ h.app # NoApp)
        PROVE  h = k
    <3>1. PICK g \in games : h = f[g] /\ h.app = g.app /\ h.slug = g.slug
      BY <1>1
    <3>2. PICK j \in games : k = f[j] /\ k.app = j.app /\ k.slug = j.slug
      BY <1>1
    <3>3. g = j
      BY <2>1, <3>1, <3>2 DEF RowsInv
    <3>4. QED
      BY <3>1, <3>2, <3>3
  <2>2. \A h \in games' : DOMAIN h = {"app", "slug", "steam", "exes"}
    OBVIOUS
  <2>3. \A h \in games' : Len(h.slug) = 2 => h.slug[2] = h.app
    BY <1>1 DEF RowsInv
  <2>4. QED
    BY <2>1, <2>2, <2>3 DEF RowsInv
<1>3. \A g \in games : f[g] \in games' /\ f[g].app = g.app
  OBVIOUS
<1>4. QED
  BY <1>1, <1>2, <1>3 DEF HasRow

LEMMA RowAdded ==
    ASSUME RowsInv, NEW n, games' = games \cup {n},
           DOMAIN n = {"app", "slug", "steam", "exes"},
           \A g \in games : g.slug # n.slug,
           n.app # NoApp => \A g \in games : g.app # n.app,
           Len(n.slug) = 2 => n.slug[2] = n.app
    PROVE  RowsInv' /\ \A g \in games : HasRow(g.app)'
BY DEF RowsInv, HasRow

(* What a step leaves of the table as the imports under way know it.       *)
Kept ==
    /\ \A g \in games : HasRow(g.app)'
    /\ ~Overlapped' => \A g \in games : \E h \in games' : h.app = g.app /\ h.exes = g.exes
    /\ ~Overlapped' /\ <<"inserted">> \notin slips' =>
          \A h \in games' : \E g \in games : h.slug = g.slug

LEMMA Bystander ==
    ASSUME NEW p \in Slots, req'[p] = req[p], ImportInv(p), slips \subseteq slips', Kept
    PROVE  ImportInv(p)'
<1> DEFINE r == req[p]
<1>1. r.at = "write" => \A b \in r.byApp : HasRow(b.app)'
  BY DEF ImportInv, Kept, HasRow
<1>2. r.at = "write" /\ ~Overlapped' => LandedSeeds(r)'
  BY DEF ImportInv, Kept, LandedSeeds, Overlapped
<1>3. r.at = "write" /\ ~Overlapped' /\ <<"inserted">> \notin slips' => SlugsTaken(r)'
  BY DEF ImportInv, Kept, SlugsTaken, Overlapped
<1>4. QED
  BY <1>1, <1>2, <1>3 DEF ImportInv, SeedsOk, LandedSeeds, SlugsTaken

(* A step of one slot. *)
LEMMA SlotKeepsLandInv ==
    ASSUME LandInv, list' \in Lists, RowsInv', slips \subseteq slips',
           NEW q \in Slots, Elsewhere(q), Importing(q)' => ImportInv(q)',
           \/ Overlapped'
           \/ Importing(q)' => Importing(q) \/ \A p \in Slots \ {q} : ~Importing(p),
           \A p \in Slots \ {q} : Importing(p) => ImportInv(p)',
           <<"refused">> \in slips' => \/ <<"refused">> \in slips
                                       \/ {<<"imports">>, <<"inserted">>} \cap slips' # {}
    PROVE  LandInv'
<1>1. \A p \in Slots \ {q} : Importing(p)' => Importing(p)
  BY DEF Elsewhere, Importing
<1>2. \A p \in Slots : Importing(p)' => ImportInv(p)'
  BY <1>1
<1>3. Overlapped => Overlapped'
  BY DEF Overlapped
<1>4. ~Overlapped' => \A r, p \in Slots : Importing(r)' /\ Importing(p)' => r = p
  BY <1>1, <1>3 DEF LandInv
<1>5. <<"refused">> \in slips' => {<<"imports">>, <<"inserted">>} \cap slips' # {}
  BY DEF LandInv
<1>6. QED
  BY <1>2, <1>4, <1>5 DEF LandInv

LEMMA SameTable == UNCHANGED games => Kept /\ (RowsInv => RowsInv')
BY DEF Kept, HasRow, RowsInv

(* ... which leaves the table alone. *)
LEMMA QuietKeepsLandInv ==
    ASSUME LandInv, UNCHANGED <<list, games>>, slips \subseteq slips',
           NEW q \in Slots, Elsewhere(q), Importing(q)' => ImportInv(q)',
           \/ Overlapped'
           \/ Importing(q)' => Importing(q) \/ \A p \in Slots \ {q} : ~Importing(p),
           <<"refused">> \in slips' => <<"refused">> \in slips
    PROVE  LandInv'
<1>1. Kept /\ RowsInv' /\ list' \in Lists
  BY SameTable DEF LandInv
<1>2. \A p \in Slots \ {q} : Importing(p) => ImportInv(p)'
  BY <1>1, Bystander DEF Elsewhere, LandInv
<1>3. QED
  BY <1>1, <1>2, SlotKeepsLandInv
-----------------------------------------------------------------------------
(* The steps of an import. *)

LEMMA BeginKeepsLandInv ==
    ASSUME LandInv, DOMAIN req = Slots, NEW q \in Slots, NEW auto, BeginImport(q, auto),
           UNCHANGED <<list, games>>
    PROVE  LandInv'
<1> DEFINE n == [op |-> "import", at |-> "fetch", auto |-> auto, seeds |-> {}, left |-> {},
                 byApp |-> {}, taken |-> {}]
<1>1. req'[q] = n /\ Elsewhere(q) /\ req[q].op = "free"
  BY SlotWrites, FreeIsNone DEF BeginImport
<1>2. ImportInv(q)'
  BY <1>1 DEF ImportInv
<1>3. slips \subseteq slips' /\ (<<"refused">> \in slips' => <<"refused">> \in slips)
  BY DEF BeginImport
<1>4. Overlapped' \/ \A p \in Slots \ {q} : ~Importing(p)
  BY DEF BeginImport, Overlapped
<1>5. QED
  BY <1>1, <1>2, <1>3, <1>4, QuietKeepsLandInv

LEMMA FetchKeepsLandInv ==
    ASSUME LandInv, DOMAIN req = Slots, ListsSound, MaxShared # 0, NEW q \in Slots, FetchSeed(q)
    PROVE  LandInv'
<1> DEFINE r == req[q]
<1>0. PICK n : n = [r EXCEPT !.at = "read", !.seeds = Normalize, !.left = Normalize]
  OBVIOUS
<1>1. /\ req' = [req EXCEPT ![q] = n] /\ UNCHANGED <<list, games, slips>>
      /\ Importing(q) /\ ImportInv(q) /\ list \in Lists
  BY <1>0 DEF FetchSeed, At, Importing, LandInv, catVars
<1>2. req'[q] = n /\ Elsewhere(q)
  BY <1>1 DEF Elsewhere
<1>3. /\ DOMAIN n = DOMAIN r /\ n.at = "read" /\ n.seeds = Normalize /\ n.left = Normalize
  BY <1>0, <1>1 DEF ImportInv
<1>4. SeedsOk(n.seeds)
  BY <1>1, <1>3, NormalizeOk
<1>5. ImportInv(q)'
  <2>1. n.left = n.seeds /\ DOMAIN n = {"op", "at", "auto", "seeds", "left", "byApp", "taken"}
    BY <1>1, <1>3 DEF ImportInv
  <2>2. QED
    BY <1>2, <1>3, <1>4, <2>1 DEF ImportInv
<1>6. QED
  BY <1>1, <1>2, <1>5, QuietKeepsLandInv

LEMMA ReadKeepsLandInv ==
    ASSUME LandInv, DOMAIN req = Slots, NEW q \in Slots, ReadSlugs(q)
    PROVE  LandInv'
<1> DEFINE r == req[q]
           known == {[app |-> g.app, slug |-> g.slug] : g \in {h \in games : h.app # NoApp}}
           slugs == {g.slug : g \in games}
<1>0. PICK n : n = [r EXCEPT !.at = "write", !.byApp = known, !.taken = slugs]
  OBVIOUS
<1>1. /\ req' = [req EXCEPT ![q] = n] /\ UNCHANGED <<list, games, slips>>
      /\ Importing(q) /\ ImportInv(q) /\ r.at = "read"
  BY <1>0 DEF ReadSlugs, At, Importing, LandInv, catVars
<1>2. req'[q] = n /\ Elsewhere(q)
  BY <1>1 DEF Elsewhere
<1>3. /\ DOMAIN n = DOMAIN r /\ n.at = "write" /\ n.seeds = r.seeds /\ n.left = r.left
      /\ n.byApp = known /\ n.taken = slugs
  BY <1>0, <1>1 DEF ImportInv
<1>4. (\A b \in n.byApp : HasRow(b.app)) /\ \A g \in games : g.slug \in n.taken
  BY <1>3 DEF HasRow
<1>5. SeedsOk(r.seeds) /\ r.left = r.seeds
  BY <1>1 DEF ImportInv
<1> HIDE DEF known, slugs
<1>6. ImportInv(q)'
  <2>1. \A b \in n.byApp : HasRow(b.app)'
    BY <1>1, <1>4 DEF HasRow
  <2>2. LandedSeeds(n)' /\ SlugsTaken(n)'
    BY <1>1, <1>3, <1>4, <1>5 DEF LandedSeeds, SlugsTaken
  <2>3. SeedsOk(n.seeds) /\ n.left \subseteq n.seeds
    BY <1>3, <1>5
  <2>4. DOMAIN n = {"op", "at", "auto", "seeds", "left", "byApp", "taken"}
    BY <1>1, <1>3 DEF ImportInv
  <2>5. QED
    BY <1>2, <1>3, <2>1, <2>2, <2>3, <2>4 DEF ImportInv
<1>7. QED
  BY <1>1, <1>2, <1>6, QuietKeepsLandInv

(* An import ends, a Steam app starts or leaves the table alone.           *)
LEMMA NoImportKeepsLandInv ==
    ASSUME LandInv, DOMAIN req = Slots, NEW q \in Slots, ~Importing(q)', Elsewhere(q),
           UNCHANGED <<list, games>>, slips \subseteq slips',
           <<"refused">> \in slips' => <<"refused">> \in slips
    PROVE  LandInv'
BY QuietKeepsLandInv
(* The slug of a seed whose game is not in the table. *)
LEMMA NewSlug ==
    ASSUME NEW r, NEW s, \A b \in r.byApp : HasRow(b.app), ~HasRow(s.app)
    PROVE  SlugFor(r, s) = IF <<s.slug>> \in r.taken THEN <<s.slug, s.app>> ELSE <<s.slug>>
BY DEF SlugFor

(* An upsert is only refused by a slug that appeared since the import read *)
(* them.                                                                   *)
LEMMA RefusedForCause ==
    ASSUME LandInv, NEW q \in Slots, At(q, "import", "write"), NEW s,
           ~HasRow(s.app), \E g \in games : g.slug = SlugFor(req[q], s)
    PROVE  {<<"imports">>, <<"inserted">>} \cap slips # {}
<1> DEFINE r == req[q]
<1> SUFFICES ASSUME ~Overlapped, <<"inserted">> \notin slips PROVE FALSE
  BY DEF Overlapped
<1>1. ImportInv(q) /\ r.at = "write"
  BY DEF At, Importing, LandInv
<1>2. SlugsTaken(r) /\ \A b \in r.byApp : HasRow(b.app)
  BY <1>1 DEF ImportInv
<1>3. PICK g \in games : g.slug = SlugFor(r, s)
  OBVIOUS
<1>4. g.slug = <<s.slug, s.app>> \/ (g.slug = <<s.slug>> /\ <<s.slug>> \notin r.taken)
  BY <1>2, <1>3, NewSlug
<1>5. CASE g.slug = <<s.slug, s.app>>
  <2>1. Len(<<s.slug, s.app>>) = 2 /\ <<s.slug, s.app>>[2] = s.app
    OBVIOUS
  <2>2. Len(g.slug) = 2 => g.slug[2] = g.app
    BY DEF LandInv, RowsInv
  <2>3. g.app = s.app
    BY <1>5, <2>1, <2>2
  <2>4. QED
    BY <2>3 DEF HasRow
<1>6. CASE g.slug = <<s.slug>> /\ <<s.slug>> \notin r.taken
  BY <1>2, <1>6 DEF SlugsTaken
<1>7. QED
  BY <1>4, <1>5, <1>6

(* An upsert that is accepted: new inserts the row of a seed, or takes the *)
(* place of the one its game has.                                          *)
Writes(s, slug, row, new, e, made) ==
    /\ row \subseteq games /\ \A g \in games : g \in row <=> g.app = s.app
    /\ new.app = s.app /\ new.slug = slug /\ new.exes = s.exes
    /\ DOMAIN new = {"app", "slug", "steam", "exes"}
    /\ ~(row = {} /\ \E g \in games : g.slug = slug)
    /\ \A g \in row : /\ e[g].app = g.app /\ e[g].slug = g.slug /\ e[g].exes = s.exes
                      /\ DOMAIN e[g] = {"app", "slug", "steam", "exes"}
    /\ row = {} => made = {new}
    /\ row # {} => \A h : h \in made <=> \E g \in row : h = e[g]
    /\ games' = (games \ row) \cup made

Upserted(s, slug) ==
    /\ RowsInv'
    /\ \A g \in games : HasRow(g.app)'
    /\ \A g \in games : g.app # s.app => g \in games'
    /\ \E h \in games' : h.app = s.app /\ h.exes = s.exes
    /\ \A h \in games' : h.slug = slug \/ \E g \in games : h.slug = g.slug

LEMMA UpsertRows ==
    ASSUME LandInv, NEW q \in Slots, At(q, "import", "write"), NEW s \in req[q].left,
           NEW row, NEW new, NEW e, NEW made,
           Writes(s, SlugFor(req[q], s), row, new, e, made)
    PROVE  Upserted(s, SlugFor(req[q], s))
<1>0. PICK slug : slug = SlugFor(req[q], s)
  OBVIOUS
<1> USE <1>0 DEF Writes
<1>1. ImportInv(q) /\ RowsInv
  BY DEF At, Importing, LandInv
<1>2. s.app # NoApp /\ \A b \in req[q].byApp : HasRow(b.app)
  BY <1>1 DEF ImportInv, SeedsOk, At
<1>3. \A g \in games : g.app # s.app => g \in games'
  OBVIOUS
<1>4. CASE row = {}
  <2>1. games' = games \cup {new} /\ \A g \in games : g.app # s.app
    BY <1>4
  <2>2. /\ DOMAIN new = {"app", "slug", "steam", "exes"} /\ new.app = s.app
        /\ new.slug = SlugFor(req[q], s) /\ new.exes = s.exes
    OBVIOUS
  <2>3. ~HasRow(s.app)
    BY <2>1 DEF HasRow
  <2>4. Len(new.slug) = 2 => new.slug[2] = new.app
    <3>1. Len(<<s.slug>>) = 1 /\ <<s.slug, s.app>>[2] = s.app
      OBVIOUS
    <3>2. new.slug = <<s.slug>> \/ new.slug = <<s.slug, s.app>>
      <4> HIDE <1>0 DEF Writes
      <4>1. SlugFor(req[q], s) = IF <<s.slug>> \in req[q].taken
                                 THEN <<s.slug, s.app>> ELSE <<s.slug>>
        BY <1>2, <2>3, NewSlug
      <4>2. QED
        BY <1>0, <2>2, <4>1
    <3>3. CASE new.slug = <<s.slug>>
      <4>1. Len(new.slug) = 1
        BY <3>1, <3>3
      <4>2. QED
        BY <4>1
    <3>4. CASE new.slug = <<s.slug, s.app>>
      BY <2>2, <3>1, <3>4
    <3>5. QED
      BY <3>2, <3>3, <3>4
  <2>5. \A g \in games : g.slug # new.slug
    BY <1>4, <2>2
  <2>6. RowsInv' /\ \A g \in games : HasRow(g.app)'
    BY <1>1, <2>1, <2>2, <2>4, <2>5, RowAdded
  <2>7. QED
    BY <1>3, <2>1, <2>2, <2>6 DEF Upserted
<1>5. CASE row # {}
  <2>1. PICK f : f = [g \in games |-> IF g \in row THEN e[g] ELSE g]
    OBVIOUS
  <2>2. \A g \in games : f[g] = IF g \in row THEN e[g] ELSE g
    BY <2>1
  <2>4. row \subseteq games
    OBVIOUS
  <2>5. games' = {f[g] : g \in games}
    <3>1. \A h : h \in made <=> \E g \in row : h = e[g]
      BY <1>5
    <3>2. QED
      BY <2>2, <2>4, <3>1
  <2>6. \A g \in games : /\ f[g].app = g.app /\ f[g].slug = g.slug
                         /\ DOMAIN f[g] = {"app", "slug", "steam", "exes"}
    <3>1. \A g \in games : DOMAIN g = {"app", "slug", "steam", "exes"}
      BY <1>1 DEF RowsInv
    <3>2. QED
      BY <2>2, <3>1
  <2>7. /\ RowsInv' /\ \A g \in games : HasRow(g.app)'
        /\ \A h \in games' : \E g \in games : h.slug = g.slug
    BY <1>1, <2>5, <2>6, RowsRewritten
  <2>8. \E h \in games' : h.app = s.app /\ h.exes = s.exes
    <3>1. PICK g \in row : TRUE
      BY <1>5
    <3>2. f[g] \in games' /\ f[g].app = g.app /\ f[g].exes = s.exes /\ g.app = s.app
      BY <2>2, <2>5, <2>6, <3>1
    <3>3. QED
      BY <3>2
  <2>9. QED
    BY <1>3, <2>7, <2>8 DEF Upserted
<1>6. QED
  BY <1>4, <1>5

LEMMA UpsertKeepsLandInv ==
    ASSUME LandInv, DOMAIN req = Slots, NEW q \in Slots, NEW s \in req[q].left, UpsertGame(q, s)
    PROVE  LandInv'
<1>0. PICK r : r = req[q]
  OBVIOUS
<1>1. PICK slug : slug = SlugFor(r, s)
  OBVIOUS
<1>2. PICK row : row = {g \in games : g.app = s.app}
  OBVIOUS
<1>3. PICK new : new = [app |-> s.app, slug |-> slug, steam |-> s.steam, exes |-> s.exes]
  OBVIOUS
<1>4. /\ At(q, "import", "write") /\ Importing(q) /\ ImportInv(q) /\ list' = list /\ RowsInv
      /\ list \in Lists
  BY DEF UpsertGame, At, Importing, LandInv
<1>5. CASE row = {} /\ \E g \in games : g.slug = slug
  <2>1. Done(q) /\ slips' = slips \cup {<<"refused">>} /\ UNCHANGED games
    BY <1>0, <1>1, <1>2, <1>3, <1>5 DEF UpsertGame
  <2>2. ~Importing(q)' /\ Elsewhere(q)
    BY <2>1, SlotWrites, FreeIsNone DEF Importing
  <2>3. ~HasRow(s.app)
    BY <1>2, <1>5 DEF HasRow
  <2>4. {<<"imports">>, <<"inserted">>} \cap slips' # {}
    BY <1>0, <1>1, <1>4, <1>5, <2>1, <2>3, RefusedForCause
  <2>5. Kept /\ RowsInv'
    BY <1>4, <2>1, SameTable
  <2>6. \A p \in Slots \ {q} : Importing(p) => ImportInv(p)'
    BY <2>1, <2>2, <2>5, Bystander DEF Elsewhere, LandInv
  <2>7. QED
    BY <1>4, <2>1, <2>2, <2>4, <2>5, <2>6, SlotKeepsLandInv
<1>6. CASE ~(row = {} /\ \E g \in games : g.slug = slug)
  <2>1. PICK n : n = Assigned(r, s)
    OBVIOUS
  <2>2. /\ games' = (games \ row) \cup
                     (IF row = {} THEN {new} ELSE {[new EXCEPT !.slug = g.slug] : g \in row})
        /\ req' = [req EXCEPT ![q] = n] /\ slips' = slips
    BY <1>0, <1>1, <1>2, <1>3, <1>6, <2>1 DEF UpsertGame
  <2>3. /\ RowsInv'
        /\ \A g \in games : HasRow(g.app)'
        /\ \A g \in games : g.app # s.app => g \in games'
        /\ \E h \in games' : h.app = s.app /\ h.exes = s.exes
        /\ \A h \in games' : h.slug = slug \/ \E g \in games : h.slug = g.slug
    <3>1. PICK e : e = [g \in row |-> [new EXCEPT !.slug = g.slug]]
      OBVIOUS
    <3>2. PICK made : made = IF row = {} THEN {new} ELSE {e[g] : g \in row}
      OBVIOUS
    <3>3. \A g \in row : /\ e[g].app = g.app /\ e[g].slug = g.slug /\ e[g].exes = s.exes
                         /\ DOMAIN e[g] = {"app", "slug", "steam", "exes"}
      <4>1. ASSUME NEW g \in row
            PROVE  /\ e[g].app = g.app /\ e[g].slug = g.slug /\ e[g].exes = s.exes
                   /\ DOMAIN e[g] = {"app", "slug", "steam", "exes"}
        BY <1>2, <1>3, <3>1
      <4>2. QED
        BY <4>1
    <3>4. games' = (games \ row) \cup made
      BY <2>2, <3>1, <3>2
    <3>5. /\ row = {} => made = {new}
          /\ row # {} => \A h : h \in made <=> \E g \in row : h = e[g]
      BY <3>2
    <3>6. row \subseteq games /\ \A g \in games : g \in row <=> g.app = s.app
      BY <1>2
    <3>7. /\ new.app = s.app /\ new.slug = slug /\ new.exes = s.exes
          /\ DOMAIN new = {"app", "slug", "steam", "exes"}
      BY <1>3
    <3>8. Writes(s, slug, row, new, e, made)
      BY <1>6, <3>3, <3>4, <3>5, <3>6, <3>7 DEF Writes
    <3>9. slug = SlugFor(req[q], s)
      BY <1>0, <1>1
    <3>10. Upserted(s, slug)
      BY <1>4, <3>8, <3>9, UpsertRows
    <3>11. QED
      BY <3>10 DEF Upserted
  <2>4. req'[q] = n /\ Elsewhere(q)
    BY <2>2 DEF Elsewhere
  <2>5. /\ DOMAIN n = DOMAIN r /\ n.op = r.op /\ n.at = r.at /\ n.seeds = r.seeds
        /\ n.left = r.left \ {s} /\ n.taken = r.taken \cup {slug}
        /\ n.byApp = r.byApp \cup {[app |-> s.app, slug |-> slug]}
    BY <1>0, <1>1, <1>4, <2>1 DEF Assigned, ImportInv
  <2>6. /\ SeedsOk(r.seeds) /\ r.left \subseteq r.seeds /\ r.at = "write"
        /\ DOMAIN r = {"op", "at", "auto", "seeds", "left", "byApp", "taken"}
        /\ \A b \in r.byApp : HasRow(b.app)
        /\ ~Overlapped => LandedSeeds(r)
        /\ ~Overlapped /\ <<"inserted">> \notin slips => SlugsTaken(r)
    BY <1>0, <1>4 DEF ImportInv, At
  <2>7. \A b \in n.byApp : HasRow(b.app)'
    <3>1. ASSUME NEW b \in n.byApp PROVE HasRow(b.app)'
      <4>1. CASE b \in r.byApp
        BY <2>3, <2>6, <4>1 DEF HasRow
      <4>2. CASE b = [app |-> s.app, slug |-> slug]
        <5>1. b.app = s.app
          BY <4>2
        <5>2. QED
          BY <2>3, <5>1 DEF HasRow
      <4>3. QED
        BY <2>5, <4>1, <4>2
    <3>2. QED
      BY <3>1
  <2>8. ~Overlapped' => LandedSeeds(n)'
    <3> SUFFICES ASSUME ~Overlapped', NEW t \in n.seeds \ n.left
                 PROVE  \E h \in games' : h.app = t.app /\ h.exes = t.exes
      BY DEF LandedSeeds
    <3>1. CASE t = s
      BY <2>3, <3>1
    <3>2. CASE t # s
      <4>1. t \in r.seeds \ r.left /\ t.app # s.app
        BY <1>0, <2>5, <2>6, <3>2 DEF SeedsOk
      <4>2. PICK g \in games : g.app = t.app /\ g.exes = t.exes
        BY <2>2, <2>6, <4>1 DEF LandedSeeds, Overlapped
      <4>3. QED
        BY <2>3, <4>1, <4>2
    <3>3. QED
      BY <3>1, <3>2
  <2>9. ~Overlapped' /\ <<"inserted">> \notin slips' => SlugsTaken(n)'
    BY <2>2, <2>3, <2>5, <2>6 DEF SlugsTaken, Overlapped
  <2>10. ImportInv(q)'
    <3>1. n.left \subseteq n.seeds /\ SeedsOk(n.seeds) /\ n.at = "write"
          /\ DOMAIN n = {"op", "at", "auto", "seeds", "left", "byApp", "taken"}
      BY <2>5, <2>6
    <3>2. QED
      BY <2>4, <2>7, <2>8, <2>9, <3>1 DEF ImportInv
  <2>11. ASSUME NEW p \in Slots \ {q}, Importing(p) PROVE ImportInv(p)'
    <3>1. Overlapped /\ Overlapped'
      BY <1>4, <2>2, <2>11 DEF LandInv, Overlapped
    <3>2. Kept
      BY <2>3, <3>1 DEF Kept
    <3>3. QED
      BY <2>2, <2>4, <2>11, <3>2, Bystander DEF Elsewhere, LandInv
  <2>12. QED
    BY <1>4, <2>2, <2>3, <2>4, <2>10, <2>11, SlotKeepsLandInv
<1>7. QED
  BY <1>5, <1>6
-----------------------------------------------------------------------------
(* The steps of a Steam app. *)

LEMMA AdoptKeepsLandInv ==
    ASSUME LandInv, DOMAIN req = Slots, Shapes, NEW q \in Slots, AdoptSteamGame(q)
    PROVE  LandInv'
<1>1. PICK x, named : named = {g \in games : g.slug = <<x.slug>>} /\ x = req[q].app
  OBVIOUS
<1>2. req[q].op = "steam" /\ UNCHANGED <<list, slips>> /\ {"op", "at"} \subseteq DOMAIN req[q]
  BY DEF AdoptSteamGame, At, Shapes
<1>3. CASE named = {}
  <2>1. Goto(q, "insert") /\ UNCHANGED games
    BY <1>1, <1>3 DEF AdoptSteamGame
  <2>2. ~Importing(q)' /\ Elsewhere(q)
    <3>1. req'[q] = [req[q] EXCEPT !.at = "insert"] /\ Elsewhere(q)
      BY <2>1, SlotWrites
    <3>2. QED
      BY <1>2, <3>1 DEF Importing
  <2>3. QED
    BY <1>2, <2>1, <2>2, NoImportKeepsLandInv
<1>4. CASE named # {}
  <2>1. /\ games' = (games \ named) \cup {[g EXCEPT !.steam = x.steam] : g \in named}
        /\ Done(q)
    BY <1>1, <1>4 DEF AdoptSteamGame
  <2>2. ~Importing(q)' /\ Elsewhere(q)
    BY <2>1, SlotWrites, FreeIsNone DEF Importing
  <2>3. PICK f : f = [g \in games |-> IF g \in named THEN [g EXCEPT !.steam = x.steam] ELSE g]
    OBVIOUS
  <2>4. \A g \in games : /\ f[g].app = g.app /\ f[g].slug = g.slug /\ f[g].exes = g.exes
                         /\ DOMAIN f[g] = {"app", "slug", "steam", "exes"}
    <3>1. ASSUME NEW g \in games
          PROVE  /\ f[g].app = g.app /\ f[g].slug = g.slug /\ f[g].exes = g.exes
                 /\ DOMAIN f[g] = {"app", "slug", "steam", "exes"}
      <4>1. f[g] = IF g \in named THEN [g EXCEPT !.steam = x.steam] ELSE g
        BY <2>3
      <4>2. DOMAIN g = {"app", "slug", "steam", "exes"}
        BY DEF LandInv, RowsInv
      <4>3. QED
        BY <4>1, <4>2
    <3>2. QED
      BY <3>1
  <2>5. games' = {f[g] : g \in games}
    <3>1. PICK made : made = {[g EXCEPT !.steam = x.steam] : g \in named}
      OBVIOUS
    <3>2. \A h : h \in made <=> \E g \in named : h = f[g]
      BY <1>1, <2>3, <3>1
    <3>3. \A g \in games : g \notin named => f[g] = g
      BY <2>3
    <3>4. games' = (games \ named) \cup made /\ named \subseteq games
      BY <1>1, <2>1, <3>1
    <3>5. QED
      BY <3>2, <3>3, <3>4
  <2>6. /\ RowsInv'
        /\ \A g \in games : HasRow(g.app)'
        /\ \A h \in games' : \E g \in games : h.slug = g.slug
    BY <2>4, <2>5, RowsRewritten DEF LandInv
  <2>7. Kept
    BY <2>4, <2>5, <2>6 DEF Kept
  <2>8. \A p \in Slots \ {q} : Importing(p) => ImportInv(p)'
    BY <1>2, <2>2, <2>7, Bystander DEF Elsewhere, LandInv
  <2>9. list' \in Lists /\ (<<"refused">> \in slips' => <<"refused">> \in slips)
    BY <1>2 DEF LandInv
  <2>10. QED
    BY <1>2, <2>2, <2>6, <2>8, <2>9, SlotKeepsLandInv
<1>5. QED
  BY <1>3, <1>4

LEMMA InsertKeepsLandInv ==
    ASSUME LandInv, DOMAIN req = Slots, NEW q \in Slots, InsertSteamGame(q)
    PROVE  LandInv'
<1>1. PICK slug : slug = <<req[q].app.slug>>
  OBVIOUS
<1>2. PICK free : free = \A g \in games : g.slug # slug
  OBVIOUS
<1>3. PICK n : n = [app |-> NoApp, slug |-> slug, steam |-> req[q].app.steam, exes |-> {}]
  OBVIOUS
<1>4. /\ games' = IF free THEN games \cup {n} ELSE games
      /\ slips' = IF free /\ \E r \in Slots : Importing(r)
                  THEN slips \cup {<<"inserted">>} ELSE slips
      /\ Done(q) /\ list' = list
  BY <1>1, <1>2, <1>3 DEF InsertSteamGame
<1>5. ~Importing(q)' /\ Elsewhere(q)
  BY <1>4, SlotWrites, FreeIsNone DEF Importing
<1>6. slips \subseteq slips' /\ (<<"refused">> \in slips' => <<"refused">> \in slips)
  BY <1>4
<1>7. CASE ~free
  <2>1. UNCHANGED <<list, games>>
    BY <1>4, <1>7
  <2>2. QED
    BY <1>5, <1>6, <2>1, NoImportKeepsLandInv
<1>8. CASE free
  <2>1. games' = games \cup {n} /\ \A g \in games : g.slug # slug
    BY <1>2, <1>4, <1>8
  <2>2. n.app = NoApp /\ n.slug = slug /\ DOMAIN n = {"app", "slug", "steam", "exes"}
    BY <1>3
  <2>3. Len(slug) # 2
    <3>1. Len(<<req[q].app.slug>>) = 1
      OBVIOUS
    <3>2. QED
      BY <1>1, <3>1
  <2>4. RowsInv' /\ \A g \in games : HasRow(g.app)'
    <3>1. \A g \in games : g.slug # n.slug
      BY <2>1, <2>2
    <3>2. QED
      BY <2>1, <2>2, <2>3, <3>1, RowAdded DEF LandInv
  <2>5. ASSUME NEW p \in Slots \ {q}, Importing(p) PROVE ImportInv(p)'
    <3>1. <<"inserted">> \in slips'
      BY <1>4, <1>8, <2>5
    <3>2. Kept
      BY <2>1, <2>4, <3>1 DEF Kept
    <3>3. QED
      BY <1>5, <1>6, <2>5, <3>2, Bystander DEF Elsewhere, LandInv
  <2>6. list' \in Lists
    BY <1>4 DEF LandInv
  <2>7. QED
    BY <1>5, <1>6, <2>4, <2>5, <2>6, SlotKeepsLandInv
<1>9. QED
  BY <1>2, <1>7, <1>8

LEMMA StepKeepsLandInv ==
    ASSUME LandInv, CatInv, ListsSound, MaxShared # 0, NEW q \in Slots, CatStep(q)
    PROVE  LandInv'
<1>1. DOMAIN req = Slots /\ Shapes
  BY DEF CatInv, MInv, Base
<1>2. CASE SyncGames(q)
  BY <1>1, <1>2, BeginKeepsLandInv DEF SyncGames, catVars
<1>3. CASE Check(q)
  <2>1. UNCHANGED <<list, games>>
    BY <1>3 DEF Check
  <2>2. CASE BeginImport(q, TRUE)
    BY <1>1, <2>1, <2>2, BeginKeepsLandInv
  <2>3. CASE UNCHANGED req /\ slips' \in {slips, slips \cup {<<"failed">>}}
    <3>1. Elsewhere(q) /\ slips \subseteq slips' /\ Kept
          /\ (<<"refused">> \in slips' => <<"refused">> \in slips)
      BY <1>1, <2>1, <2>3, SameTable DEF Elsewhere
    <3>2. Importing(q)' => Importing(q) /\ ImportInv(q)'
      BY <2>3, <3>1, Bystander DEF Importing, LandInv
    <3>3. QED
      BY <2>1, <3>1, <3>2, QuietKeepsLandInv
  <2>4. QED
    BY <1>3, <2>2, <2>3 DEF Check
<1>4. CASE FetchSeed(q)
  BY <1>1, <1>4, FetchKeepsLandInv
<1>5. CASE ReadSlugs(q)
  BY <1>1, <1>5, ReadKeepsLandInv
<1>6. CASE Stamp(q) \/ ImportFails(q)
  <2>1. Done(q) /\ UNCHANGED <<list, games>> /\ slips' \in {slips, slips \cup {<<"failed">>}}
    BY <1>6 DEF Stamp, ImportFails, catVars
  <2>2. ~Importing(q)' /\ Elsewhere(q)
    BY <1>1, <2>1, SlotWrites, FreeIsNone DEF Importing
  <2>3. slips \subseteq slips' /\ (<<"refused">> \in slips' => <<"refused">> \in slips)
    BY <2>1
  <2>4. QED
    BY <1>1, <2>1, <2>2, <2>3, NoImportKeepsLandInv
<1>7. ASSUME NEW s \in req[q].left, UpsertGame(q, s) PROVE LandInv'
  BY <1>1, <1>7, UpsertKeepsLandInv
<1>8. ASSUME NEW a \in Library, SyncApp(q, a) PROVE LandInv'
  <2>1. Begin(q, [op |-> "steam", at |-> "adopt", app |-> a])
        /\ UNCHANGED <<list, games, slips>>
    BY <1>8 DEF SyncApp, catVars
  <2>2. req'[q] = [op |-> "steam", at |-> "adopt", app |-> a] /\ Elsewhere(q)
    BY <1>1, <2>1, SlotWrites
  <2>3. ~Importing(q)'
    BY <2>2 DEF Importing
  <2>4. QED
    BY <1>1, <2>1, <2>2, <2>3, NoImportKeepsLandInv
<1>9. CASE AdoptSteamGame(q)
  BY <1>1, <1>9, AdoptKeepsLandInv
<1>10. CASE InsertSteamGame(q)
  BY <1>1, <1>10, InsertKeepsLandInv
<1>11. QED
  BY <1>2, <1>3, <1>4, <1>5, <1>6, <1>7, <1>8, <1>9, <1>10 DEF CatStep

(* The requests of the accounts refuse no import. *)
LEMMA NextRefusesNone == Next => (<<"refused">> \in slips' => <<"refused">> \in slips)
<1>1. PICK slip : slip = <<"refused">>
  OBVIOUS
<1>2. \A x : slip # <<"register", x>> /\ slip # <<"unmarked", x>>
  <2>1. Len(slip) = 1 /\ \A x : Len(<<"register", x>>) = 2 /\ Len(<<"unmarked", x>>) = 2
    BY <1>1
  <2>2. QED
    BY <2>1
<1>3. slip # <<"patch">>
  BY <1>1
<1>4. SUFFICES ASSUME Next PROVE slip \in slips' => slip \in slips
  BY <1>1
<1>5. ASSUME NEW q \in Slots, NEW u \in Users, NEW c \in Invites \cup {"no code"}, Register(q, u, c)
      PROVE  slip \in slips' => slip \in slips
  BY <1>2, <1>5 DEF Register
<1>6. ASSUME NEW q \in Slots, NEW self \in BOOLEAN, NEW u \in Users, NEW a \in Asks,
             PatchMember(q, self, u, a[1], a[2])
      PROVE  slip \in slips' => slip \in slips
  <2>1. slips' \in {slips, slips \cup {<<"patch">>}}
    BY <1>6 DEF PatchMember
  <2>2. QED
    BY <1>3, <2>1
<1>7. ASSUME NEW q \in Slots, Stop(q)
      PROVE  slip \in slips' => slip \in slips
  BY <1>2, <1>7 DEF Stop
<1>8. ASSUME NEW q \in Slots,
             \/ FindOrg(q) \/ InsertOrg(q) \/ CreateUser(q) \/ ConsumeInvite(q)
             \/ CountFor(q, "countRole", "setRole") \/ CountFor(q, "countBan", "setBan")
             \/ SetUserRole(q) \/ SetUserBanned(q)
      PROVE  slips' = slips
  BY <1>8 DEF FindOrg, InsertOrg, CreateUser, ConsumeInvite, CountFor, SetUserRole, SetUserBanned
<1>9. ASSUME NEW i \in Invites, (\E r \in {"member", "admin"} : CreateInvite(i, r)) \/ EndInvite(i)
      PROVE  slips' = slips
  BY <1>9 DEF CreateInvite, EndInvite
<1>10. QED
  BY <1>4, <1>5, <1>6, <1>7, <1>8, <1>9 DEF Next

LEMMA OthersKeepLandInv ==
    ASSUME LandInv, CatInv, MemberStep \/ Elapse \/ Restart \/ Publish \/ UNCHANGED allVars
    PROVE  LandInv'
<1>1. /\ UNCHANGED games /\ list' \in Lists /\ slips \subseteq slips'
      /\ <<"refused">> \in slips' => <<"refused">> \in slips
      /\ \A p \in Slots : Importing(p)' => Importing(p) /\ req'[p] = req[p]
  <2>1. CASE MemberStep
    <3>1. Next /\ UNCHANGED <<games, list>>
          /\ \A p \in Slots : req[p].op \in {"import", "steam"} => req'[p] = req[p]
      BY <2>1 DEF MemberStep, catVars
    <3>2. Theirs /\ (<<"refused">> \in slips' => <<"refused">> \in slips)
      BY <3>1, NextKeepsMInv, NextRefusesNone DEF CatInv
    <3>3. \A p \in Slots : Importing(p)' => Importing(p) /\ req'[p] = req[p]
      BY <3>2 DEF Theirs, Importing
    <3>4. QED
      BY <3>1, <3>2, <3>3 DEF Theirs, LandInv
  <2>2. CASE Elapse \/ Restart \/ Publish \/ UNCHANGED allVars
    <3>1. UNCHANGED <<games, req, slips>> /\ list' \in Lists
      BY <2>2 DEF Elapse, Restart, Publish, allVars, vars, catVars, LandInv
    <3>2. QED
      BY <3>1 DEF Importing
  <2>3. QED
    BY <2>1, <2>2
<1>2. Kept /\ RowsInv'
  BY <1>1, SameTable DEF LandInv
<1>3. \A p \in Slots : Importing(p)' => ImportInv(p)'
  BY <1>1, <1>2, Bystander DEF LandInv
<1>4. ~Overlapped' => \A p, q \in Slots : Importing(p)' /\ Importing(q)' => p = q
  BY <1>1 DEF LandInv, Overlapped
<1>5. <<"refused">> \in slips' => {<<"imports">>, <<"inserted">>} \cap slips' # {}
  BY <1>1 DEF LandInv
<1>6. QED
  BY <1>1, <1>2, <1>3, <1>4, <1>5 DEF LandInv

LEMMA InitLandInv == CatInit => LandInv
<1> SUFFICES ASSUME CatInit PROVE LandInv
  OBVIOUS
<1>1. list \in Lists /\ games = Curated /\ slips = {} /\ \A q \in Slots : ~Importing(q)
  BY FreeIsNone DEF CatInit, Init, Importing
<1>2. RowsInv
  <2>1. PICK a : a = [app |-> "3", slug |-> <<"vampire-crawlers">>, steam |-> "30",
                      exes |-> {<<"vampire crawlers.exe">>}]
    OBVIOUS
  <2>2. PICK b : b = [app |-> NoApp, slug |-> <<"wow-ascension">>, steam |-> "",
                      exes |-> {<<"ascension.exe">>}]
    OBVIOUS
  <2>3. games = {a, b}
    BY <1>1, <2>1, <2>2 DEF Curated
  <2>4. /\ a.app = "3" /\ a.slug = <<"vampire-crawlers">>
        /\ b.app = NoApp /\ b.slug = <<"wow-ascension">>
        /\ DOMAIN a = {"app", "slug", "steam", "exes"}
        /\ DOMAIN b = {"app", "slug", "steam", "exes"}
    BY <2>1, <2>2
  <2>5. Len(a.slug) # 2 /\ Len(b.slug) # 2
    <3>1. Len(<<"vampire-crawlers">>) = 1 /\ Len(<<"wow-ascension">>) = 1
      OBVIOUS
    <3>2. QED
      BY <2>4, <3>1
  <2>6. a.slug # b.slug
    <3>1. a.slug[1] = "vampire-crawlers" /\ b.slug[1] = "wow-ascension"
      BY <2>4
    <3>2. QED
      BY <3>1
  <2>7. a.app # b.app
    BY <2>4 DEF NoApp
  <2>8. QED
    BY <2>3, <2>4, <2>5, <2>6, <2>7 DEF RowsInv
<1>3. QED
  BY <1>1, <1>2 DEF LandInv
-----------------------------------------------------------------------------
(* The rows of an import that has written its seeds: one for each, as long *)
(* as no other import ran meanwhile.                                       *)
LEMMA SeedsLanded ==
    ASSUME LandInv, NEW q \in Slots, At(q, "import", "write"), req[q].left = {}, ~Overlapped,
           NEW S, S = req[q].seeds,
           NEW mine, mine = {g \in games : \E s \in S : g.app = s.app}
    PROVE  /\ \A s \in S : \E g \in mine :
                 mine \cap {h \in games : h.app = s.app} = {g} /\ g.exes = s.exes
           /\ \A path \in Running :
                 /\ \A x \in Suffixes(path) : Cardinality(Carrying(mine, x)) <= MaxShared
                 /\ Carrying(mine, <<Basename(path)>>) # {} =>
                       Cardinality(Detected(mine, path)) <= MaxShared
<1>1. SeedsOk(S) /\ \A s \in S : \E g \in games : g.app = s.app /\ g.exes = s.exes
  BY DEF LandInv, Importing, ImportInv, At, LandedSeeds
<1>2. \A g, h \in games : g.app = h.app /\ g.app # NoApp => g = h
  BY DEF LandInv, RowsInv
<1>3. \A s \in S : s.app # NoApp
  BY <1>1 DEF SeedsOk
<1>4. ASSUME NEW s \in S
      PROVE  \E g \in mine : mine \cap {h \in games : h.app = s.app} = {g} /\ g.exes = s.exes
  <2>1. PICK g \in games : g.app = s.app /\ g.exes = s.exes
    BY <1>1
  <2>2. g \in mine /\ \A h \in games : h.app = s.app => h = g
    BY <1>2, <1>3, <2>1
  <2>3. mine \cap {h \in games : h.app = s.app} = {g}
    BY <2>1, <2>2
  <2>4. QED
    BY <2>1, <2>2, <2>3
<1>5. ASSUME NEW g \in mine PROVE \E s \in S : g.app = s.app /\ g.exes = s.exes
  <2>1. PICK s \in S : g.app = s.app
    OBVIOUS
  <2>2. PICK h \in games : h.app = s.app /\ h.exes = s.exes
    BY <1>1
  <2>3. h = g
    BY <1>2, <1>3, <2>1, <2>2
  <2>4. QED
    BY <2>1, <2>2, <2>3
<1>6. ASSUME NEW X
      PROVE  /\ IsFiniteSet({g \in mine : g.exes \cap X # {}})
             /\ Cardinality({g \in mine : g.exes \cap X # {}})
                  <= Cardinality({s \in S : s.exes \cap X # {}})
  <2>1. PICK D : D = {g \in mine : g.exes \cap X # {}}
    OBVIOUS
  <2>2. PICK A : A = {s \in S : s.exes \cap X # {}}
    OBVIOUS
  <2>3. IsFiniteSet(A)
    BY <1>1, <2>2, FS_Subset DEF SeedsOk
  <2>4. PICK f : f = [g \in D |-> CHOOSE s \in S : g.app = s.app /\ g.exes = s.exes]
    OBVIOUS
  <2>5. \A g \in D : g \in mine /\ g.exes \cap X # {}
    BY <2>1
  <2>6. \A g \in D : f[g] \in S /\ g.app = f[g].app /\ g.exes = f[g].exes
    BY <1>5, <2>4, <2>5
  <2>7. f \in [D -> A]
    BY <2>2, <2>4, <2>5, <2>6
  <2>8. \A g, h \in D : f[g] = f[h] => g = h
    BY <1>2, <1>3, <2>5, <2>6
  <2>9. QED
    BY <2>1, <2>2, <2>3, <2>7, <2>8, Fewer
<1>7. ASSUME NEW X, Cardinality({s \in S : s.exes \cap X # {}}) <= MaxShared
      PROVE  Cardinality({g \in mine : g.exes \cap X # {}}) <= MaxShared
  <2>1. IsFiniteSet({s \in S : s.exes \cap X # {}})
    BY <1>1, FS_Subset DEF SeedsOk
  <2>2. PICK m, n : /\ m = Cardinality({g \in mine : g.exes \cap X # {}})
                    /\ n = Cardinality({s \in S : s.exes \cap X # {}})
    OBVIOUS
  <2>3. m \in Nat /\ n \in Nat /\ MaxShared \in Nat
    BY <1>6, <2>1, <2>2, FS_CardinalityType, CatalogueAssumption
  <2>4. m <= n /\ n <= MaxShared
    BY <1>6, <1>7, <2>2
  <2>5. QED
    BY <2>2, <2>3, <2>4
<1>8. \A R, x : Carrying(R, x) = {g \in R : g.exes \cap {x} # {}}
  BY DEF Carrying
<1>9. ASSUME NEW path \in Running
      PROVE  /\ \A x \in Suffixes(path) : Cardinality(Carrying(mine, x)) <= MaxShared
             /\ Carrying(mine, <<Basename(path)>>) # {} =>
                   Cardinality(Detected(mine, path)) <= MaxShared
  <2>1. ASSUME NEW x \in Suffixes(path) PROVE Cardinality(Carrying(mine, x)) <= MaxShared
    BY <1>1, <1>7, <1>8 DEF SeedsOk
  <2>2. ASSUME Carrying(mine, <<Basename(path)>>) # {}
        PROVE  Cardinality(Detected(mine, path)) <= MaxShared
    <3>1. Carrying(S, <<Basename(path)>>) # {}
      BY <1>5, <2>2 DEF Carrying
    <3>2. Cardinality(Detected(S, path)) <= MaxShared
      BY <1>1, <3>1 DEF SeedsOk
    <3>3. QED
      BY <1>7, <3>2 DEF Detected
  <2>3. QED
    BY <2>1, <2>2
<1>10. QED
  BY <1>4, <1>9

(* Whatever Discord publishes, and whoever else writes to the table: an    *)
(* import of SyncGames that ran alone leaves one game for each of its      *)
(* seeds with the executables normalize computed, no entry is carried by   *)
(* more of them than maxGamesPerExecutable, nor is a process whose bare    *)
(* name is an entry taken for more; no slug is ever used twice, and an     *)
(* upsert is refused only after an overlap.  The two assumptions are on    *)
(* what is configured and published: a name may be shared by one game at   *)
(* least, and the list is sound, as ListsSound says.                       *)
THEOREM Lands ==
    ASSUME ListsSound, MaxShared # 0
    PROVE  CatSpec => []ImportLands
<1>1. LandInv => ImportLands
  <2> SUFFICES ASSUME LandInv PROVE ImportLands
    OBVIOUS
  <2>1. ASSUME NEW q \in Slots, Landed(q)
        PROVE  /\ \A s \in req[q].seeds :
                     \E g \in Mine(q) : Mine(q) \cap {h \in games : h.app = s.app} = {g}
                                        /\ g.exes = s.exes
               /\ \A path \in Running :
                     /\ \A x \in Suffixes(path) : Cardinality(Carrying(Mine(q), x)) <= MaxShared
                     /\ Carrying(Mine(q), <<Basename(path)>>) # {} =>
                           Cardinality(Detected(Mine(q), path)) <= MaxShared
    BY <2>1, SeedsLanded DEF Overlapped, Landed, Mine
  <2>2. \A g, h \in games : g.slug = h.slug => g = h
    BY DEF LandInv, RowsInv
  <2>3. <<"refused">> \in slips => {<<"imports">>, <<"inserted">>} \cap slips # {}
    BY DEF LandInv
  <2>4. QED
    BY <2>1, <2>2, <2>3 DEF ImportLands
<1>2. CatInv /\ LandInv /\ [CatNext]_allVars => LandInv'
  BY StepKeepsLandInv, OthersKeepLandInv DEF CatNext
<1>3. QED
  BY <1>1, <1>2, InitLandInv, Invariance, PTL DEF CatSpec
=============================================================================
